\* The no-trade band keeps the last of a slashed forager's capital out.
CONSTANTS
    BPS_DENOM = 20
    Params <- BandedParams
    PHEROMONE_CEIL = 4
    TOP_TRAILS_LEN = 2
    CAP_RELAX_MARGIN_BPS = 0
    Forager = {f1}
    MaxEpoch = 3
    Stakes = {25}
    TopUps = {2}
    Premiums = {}
    Patches = {}
    Switch = {FALSE}
    Moves <- Swings
    MaxNav = 25
    MaxVault = 4
    MaxBond = 2
    MaxCache = 3
SPECIFICATION Spec
INVARIANTS
    SlashedIsUnwound
