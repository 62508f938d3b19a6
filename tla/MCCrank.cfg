\* The epoch crank: three foragers, two full epochs, safety and liveness.
CONSTANTS
    f1 = f1
    f2 = f2
    f3 = f3
    Forager = {f1, f2, f3}
    MaxEpoch = 2
SPECIFICATION FairSpec
INVARIANTS
    TypeOK
    CountersExact
    NoPartialNormalization
    NeverStranded
    TallyWithinSettled
    NobodyLags
    CrankInv
PROPERTIES
    FinishLineFixed
    EveryEpochMeasuredOnce
    SettlementCompletes
    EpochsAdvance
