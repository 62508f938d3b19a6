\* A partial fulfilment rounds the burned shares down.
CONSTANTS
    Depositor = {d1, d2}
    VIRTUAL_SHARES = 2
    VIRTUAL_ASSETS = 1
    MINIMUM_DEPOSIT = 2
    MaxU128 = 255
    Deposits = {1, 2, 5}
    Redeemed = {1, 3}
    Results <- ProfitOrLoss
    Lots = {2}
    MaxRequests = 2
    MaxShares = 16
    MaxNav = 9
SYMMETRY DepositorSymmetry
SPECIFICATION Spec
PROPERTIES
    EveryPayoutFavorsStayers
