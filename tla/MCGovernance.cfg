\* The authority, the clock and admission; one second is one unit, epochs of 1..3.
CONSTANTS
    ann = ann
    ben = ben
    typo = typo
    f1 = f1
    f2 = f2
    kolny = kolny
    spare = spare
    Key = {ann, ben}
    Stray = {typo}
    NoKey = NoKey
    NoMint = NoMint
    Forager = {f1, f2}
    Mint = {kolny, spare}
    RightDecimals = {kolny, spare}
    Published <- Ranges
    DEFAULT_ADMISSION_BURN_BASE_UNITS = 2
    Scopes <- AllScopes
SPECIFICATION FairSpec
INVARIANTS
    TypeOK
    AuthorityCanSign
    InvitationIsCurrent
    ConfigStaysEditable
    BurnLedger
PROPERTIES
    AdmissionPriced
    BoundMintOutOfReach
    EpochRunsItsTerm
    PunctualNeverSilenced
    DeadlineReached
