\* A partial slash leaves a scout that meets the promotion criteria.
CONSTANTS
    BPS_DENOM = 20
    Params <- PlainParams
    PHEROMONE_CEIL = 4
    TOP_TRAILS_LEN = 2
    CAP_RELAX_MARGIN_BPS = 0
    Forager = {f1}
    MaxEpoch = 3
    Stakes = {10}
    TopUps = {2}
    Premiums = {}
    Patches = {}
    Switch = {FALSE}
    Moves <- Swings
    MaxNav = 10
    MaxVault = 4
    MaxBond = 4
    MaxCache = 4
SPECIFICATION Spec
PROPERTIES
    SlashedEarnsItsWayBack
