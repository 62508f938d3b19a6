\* Two foragers sharing the pools, the cache and the crank.
CONSTANTS
    BPS_DENOM = 20
    Params <- PlainParams
    PHEROMONE_CEIL = 4
    TOP_TRAILS_LEN = 2
    CAP_RELAX_MARGIN_BPS = 0
    Forager = {f1, f2}
    MaxEpoch = 2
    Stakes = {10}
    TopUps = {2}
    Premiums = {1}
    Patches <- CapPatches
    Switch = {FALSE}
    Moves <- Losses
    MaxNav = 10
    MaxVault = 3
    MaxBond = 2
    MaxCache = 2
SYMMETRY ForagerSymmetry
SPECIFICATION Spec
INVARIANTS
    ColonyInv
PROPERTIES
    TurnoverWithinCap
    TicketsMatchScoutPool
    NoOrderingAdvantage
