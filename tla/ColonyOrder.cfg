\* Two profits against a cache that needs only one of them.
CONSTANTS
    BPS_DENOM = 20
    Params <- PlainParams
    PHEROMONE_CEIL = 4
    TOP_TRAILS_LEN = 2
    CAP_RELAX_MARGIN_BPS = 0
    Forager = {f1, f2}
    MaxEpoch = 2
    Stakes = {10}
    TopUps = {}
    Premiums = {}
    Patches = {}
    Switch = {FALSE}
    Moves <- Gains
    MaxNav = 14
    MaxVault = 3
    MaxBond = 2
    MaxCache = 2
SYMMETRY ForagerSymmetry
SPECIFICATION Spec
PROPERTIES
    SettlementsCommute
