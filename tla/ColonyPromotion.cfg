\* A promotion during the open epoch draws on a pool divided without it.
CONSTANTS
    BPS_DENOM = 20
    Params <- RoomyParams
    PHEROMONE_CEIL = 4
    TOP_TRAILS_LEN = 2
    CAP_RELAX_MARGIN_BPS = 0
    Forager = {f1, f2}
    MaxEpoch = 3
    Stakes = {}
    TopUps = {2}
    Premiums = {}
    Patches = {}
    Switch = {FALSE}
    Moves <- Gains
    MaxNav = 8
    MaxVault = 6
    MaxBond = 2
    MaxCache = 2
SYMMETRY ForagerSymmetry
SPECIFICATION Spec
INVARIANTS
    TargetsWithinPool
