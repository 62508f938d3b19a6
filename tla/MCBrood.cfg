\* MaxU128 is wide enough to abort nothing here.
\* Two depositors, two queued requests, nav moved up and down under them.
CONSTANTS
    Depositor = {d1, d2}
    VIRTUAL_SHARES = 2
    VIRTUAL_ASSETS = 1
    MINIMUM_DEPOSIT = 2
    MaxU128 = 63
    Deposits = {1, 2, 4}
    Redeemed = {1, 3}
    Results <- ProfitOrLoss
    Lots = {2}
    MaxRequests = 2
    MaxShares = 10
    MaxNav = 7
\* Once the queue is full and nav is gone, the queued requests are worthless and
\* fulfill_redemption refuses them; new deposits are cut off by MaxShares.
CHECK_DEADLOCK FALSE
SYMMETRY DepositorSymmetry
SPECIFICATION Spec
INVARIANTS
    TypeOK
    ShareConservation
    ClaimsWithinNav
    RoundTripNeverProfits
PROPERTIES
    StayersNeverDiluted
    PartialPaymentIsFair
