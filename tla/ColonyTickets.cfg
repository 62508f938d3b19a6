\* Scout tickets accumulate epoch over epoch.  Nobody trades: all the principal a
\* scout can hold is tickets, so the violation is the second one.
CONSTANTS
    BPS_DENOM = 20
    Params <- PlainParams
    PHEROMONE_CEIL = 4
    TOP_TRAILS_LEN = 2
    CAP_RELAX_MARGIN_BPS = 0
    Forager = {f1}
    MaxEpoch = 3
    Stakes = {10}
    TopUps = {2}
    Premiums = {}
    Patches = {}
    Switch = {FALSE}
    Moves = {}
    MaxNav = 10
    MaxVault = 4
    MaxBond = 2
    MaxCache = 3
SPECIFICATION Spec
PROPERTIES
    ScoutHoldsOneTicket
