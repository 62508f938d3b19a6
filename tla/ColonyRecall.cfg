\* A recall ahead of an unsettled loss deepens the measured drawdown.
CONSTANTS
    BPS_DENOM = 20
    Params <- PlainParams
    PHEROMONE_CEIL = 4
    TOP_TRAILS_LEN = 2
    CAP_RELAX_MARGIN_BPS = 0
    Forager = {f1}
    MaxEpoch = 3
    Stakes = {10}
    TopUps = {2}
    Premiums = {}
    Patches = {}
    Switch = {FALSE}
    Moves <- Swings
    MaxNav = 10
    MaxVault = 5
    MaxBond = 4
    MaxCache = 4
SPECIFICATION Spec
PROPERTIES
    RecallMakesNoSlashableDrawdown
