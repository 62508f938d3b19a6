------------------------------- MODULE Brood -------------------------------
(***************************************************************************)
(* The Brood Vault's shares and its redemption queue (instructions/vault.rs *)
(* over math.rs' share conversions).                                       *)
(*                                                                         *)
(* A depositor's claim is in one of two places: the shares of its position  *)
(* or the shares of the requests it queued.  Both price at                  *)
(* nav = idle_base + outstanding_principal, and only idle_base pays.        *)
(* The rest of the colony is this module's environment: capital is deployed *)
(* and recalled without moving nav, and settlement moves nav up or down.    *)
(***************************************************************************)
EXTENDS Integers, FiniteSets, FiniteSetsExt

CONSTANTS
    Depositor,          \* who may deposit
    VIRTUAL_SHARES, VIRTUAL_ASSETS,  \* the virtual offset of the conversions
    MINIMUM_DEPOSIT,    \* smallest deposit accepted
    MaxU128,            \* the widest product the conversions can hold
    Deposits,           \* amounts deposited
    Redeemed,           \* share amounts withdrawn or queued
    Results,            \* what settlement may add to, or take from, nav
    Lots,               \* amounts deployed, recalled, swept or covered in one step
    MaxRequests,        \* bound: redemption requests ever queued
    MaxShares, MaxNav   \* bounds on the totals

ASSUME BroodAssumption ==
    /\ IsFiniteSet(Depositor)
    /\ VIRTUAL_SHARES \in Nat \ {0} /\ VIRTUAL_ASSETS \in Nat \ {0}
    /\ {MINIMUM_DEPOSIT, MaxU128} \subseteq Nat
    /\ Deposits \subseteq Nat \ {0} /\ Redeemed \subseteq Nat \ {0}
    /\ Results \subseteq Int /\ Lots \subseteq Nat \ {0}
    /\ {MaxRequests, MaxShares, MaxNav} \subseteq Nat

VARIABLES
    position,      \* DepositorPosition.shares of each depositor
    requests,      \* RedemptionRequest accounts, by request_id
    total_shares, pending_redemption_shares, next_redemption_id,
    idle_base, outstanding_principal

shareVars == <<position, requests, total_shares, pending_redemption_shares, next_redemption_id>>
vars == <<shareVars, idle_base, outstanding_principal>>

RequestId == 0..(MaxRequests - 1)
Queued == {i \in RequestId : i < next_redemption_id}

nav == idle_base + outstanding_principal

-----------------------------------------------------------------------------
(* Share conversions; both round down.  An operator named Fault... is a      *)
(* faulty variant of the one below it (README, mutation testing).           *)

FaultMintRoundedUp(assets, shares, value) ==
    (assets * (shares + VIRTUAL_SHARES) + value) \div (value + VIRTUAL_ASSETS)
SharesForDeposit(assets, shares, value) ==
    (assets * (shares + VIRTUAL_SHARES)) \div (value + VIRTUAL_ASSETS)

FaultPaidRoundedUp(shares, all, value) ==
    (shares * (value + VIRTUAL_ASSETS) + all + VIRTUAL_SHARES - 1) \div (all + VIRTUAL_SHARES)
AssetsForShares(shares, all, value) ==
    (shares * (value + VIRTUAL_ASSETS)) \div (all + VIRTUAL_SHARES)

(* What a set of shares would be paid now. *)
Worth(shares) == AssetsForShares(shares, total_shares, nav)

(* The build checks overflow: a conversion whose product is wider than u128  *)
(* panics and the transaction aborts.                                      *)
MintFits(assets) == assets * (total_shares + VIRTUAL_SHARES) <= MaxU128
WorthFits(shares) == shares * (nav + VIRTUAL_ASSETS) <= MaxU128

-----------------------------------------------------------------------------
Init ==
    /\ position = [d \in Depositor |-> 0]
    /\ requests = [i \in RequestId |-> [owner |-> "None", shares |-> 0, assets_paid |-> 0]]
    /\ total_shares = 0 /\ pending_redemption_shares = 0 /\ next_redemption_id = 0
    /\ idle_base = 0 /\ outstanding_principal = 0

Deposit(d, assets) ==
    LET shares == SharesForDeposit(assets, total_shares, nav)
    IN  /\ assets >= MINIMUM_DEPOSIT
        /\ MintFits(assets)
        /\ shares > 0
        /\ nav + assets <= MaxNav /\ total_shares + shares <= MaxShares
        /\ idle_base' = idle_base + assets
        /\ total_shares' = total_shares + shares
        /\ position' = [position EXCEPT ![d] = @ + shares]
        /\ UNCHANGED <<requests, pending_redemption_shares, next_redemption_id,
                       outstanding_principal>>

(* In full, out of idle_base, or not at all. *)
Withdraw(d, shares) ==
    LET assets == Worth(shares)
    IN  /\ position[d] >= shares
        /\ WorthFits(shares)
        /\ assets <= idle_base
        /\ idle_base' = idle_base - assets
        /\ total_shares' = total_shares - shares
        /\ position' = [position EXCEPT ![d] = @ - shares]
        /\ UNCHANGED <<requests, pending_redemption_shares, next_redemption_id,
                       outstanding_principal>>

(* Queued shares leave the position but are not burned. *)
FaultBurnedAtRequest(d, shares) ==
    /\ next_redemption_id < MaxRequests
    /\ position[d] >= shares
    /\ position' = [position EXCEPT ![d] = @ - shares]
    /\ total_shares' = total_shares - shares
    /\ pending_redemption_shares' = pending_redemption_shares + shares
    /\ requests' = [requests EXCEPT ![next_redemption_id] =
                        [owner |-> d, shares |-> shares, assets_paid |-> 0]]
    /\ next_redemption_id' = next_redemption_id + 1
    /\ UNCHANGED <<idle_base, outstanding_principal>>
RequestRedemption(d, shares) ==
    /\ next_redemption_id < MaxRequests
    /\ position[d] >= shares
    /\ position' = [position EXCEPT ![d] = @ - shares]
    /\ pending_redemption_shares' = pending_redemption_shares + shares
    /\ requests' = [requests EXCEPT ![next_redemption_id] =
                        [owner |-> d, shares |-> shares, assets_paid |-> 0]]
    /\ next_redemption_id' = next_redemption_id + 1
    /\ UNCHANGED <<total_shares, idle_base, outstanding_principal>>

(* What a request is paid now, and the shares burned for it: all of them    *)
(* when it is paid in full, else in proportion, rounded down.               *)
FaultPaidBeyondIdle(shares) == Worth(shares)
Payable(shares) ==
    IF Worth(shares) <= idle_base THEN Worth(shares) ELSE idle_base

FaultBurnedInFull(shares) == shares
Burned(shares) ==
    IF Payable(shares) = Worth(shares) THEN shares
    ELSE (shares * Payable(shares)) \div Worth(shares)

(* Anyone may turn the queue, one request at a time and in any order. *)
FulfillRedemption(i) ==
    LET shares == requests[i].shares
    IN  /\ i \in Queued
        /\ shares > 0
        /\ WorthFits(shares)
        /\ Payable(shares) > 0
        /\ Burned(shares) > 0
        /\ idle_base' = idle_base - Payable(shares)
        /\ total_shares' = total_shares - Burned(shares)
        /\ pending_redemption_shares' = pending_redemption_shares - Burned(shares)
        /\ requests' = [requests EXCEPT ![i].shares = @ - Burned(shares),
                                        ![i].assets_paid = @ + Payable(shares)]
        /\ UNCHANGED <<position, next_redemption_id, outstanding_principal>>

-----------------------------------------------------------------------------
(* The colony as the vault sees it: fund_scout and rebalance_forager move    *)
(* capital between the two counters; settle_forager and a retirement's sweep *)
(* change what they add up to.                                             *)

Deploy(lot) ==
    /\ lot <= idle_base
    /\ idle_base' = idle_base - lot
    /\ outstanding_principal' = outstanding_principal + lot
    /\ UNCHANGED shareVars

Recall(lot) ==
    /\ lot <= outstanding_principal
    /\ idle_base' = idle_base + lot
    /\ outstanding_principal' = outstanding_principal - lot
    /\ UNCHANGED shareVars

(* What bond and cache cover of a loss lands in idle_base.  Tokens found in  *)
(* a sub-account count as a result even when nothing was placed there.       *)
Settle(result, covered) ==
    /\ outstanding_principal + result >= 0
    /\ covered <= (IF result < 0 THEN -result ELSE 0)
    /\ outstanding_principal' = outstanding_principal + result
    /\ idle_base' = idle_base + covered
    /\ UNCHANGED shareVars

(* A retiring forager's sub-account is swept beyond its bond. *)
Sweep(lot) ==
    /\ idle_base' = idle_base + lot
    /\ UNCHANGED <<shareVars, outstanding_principal>>

-----------------------------------------------------------------------------
DepositorStep(d) ==
    \/ \E assets \in Deposits : Deposit(d, assets)
    \/ \E shares \in Redeemed : Withdraw(d, shares) \/ RequestRedemption(d, shares)

Next ==
    \/ \E d \in Depositor : DepositorStep(d)
    \/ \E i \in Queued : FulfillRedemption(i)
    \/ \E lot \in Lots : Deploy(lot) \/ Recall(lot) \/ (nav + lot <= MaxNav /\ Sweep(lot))
    \/ \E result \in Results, covered \in Lots \cup {0} :
          nav + result + covered <= MaxNav /\ Settle(result, covered)

Spec == Init /\ [][Next]_vars

-----------------------------------------------------------------------------
(* Properties.                                                             *)

Request == [owner : Depositor \cup {"None"}, shares : Nat, assets_paid : Nat]

(* Every variable has its type; no unsigned counter goes below zero. *)
TypeOK ==
    /\ position \in [Depositor -> Nat]
    /\ requests \in [RequestId -> Request]
    /\ {total_shares, pending_redemption_shares, idle_base, outstanding_principal} \subseteq Nat
    /\ next_redemption_id \in 0..MaxRequests

(* The shares each request account still holds. *)
queuedShares == [i \in RequestId |-> requests[i].shares]

(* The share conservation invariant of vault.rs' header, with the queue     *)
(* spelled out: positions and queued shares add up to total_shares, and the  *)
(* pending counter is what the request accounts hold, through partial       *)
(* fulfilments too.                                                        *)
ShareConservation ==
    /\ SumFunctionOnSet(position, Depositor) + pending_redemption_shares = total_shares
    /\ pending_redemption_shares = SumFunctionOnSet(queuedShares, RequestId)

(* Solvency: everyone redeeming everything at the current price asks for no *)
(* more than nav, however the roundings of past operations fell and also    *)
(* after nav was lost.  (The virtual shares absorb the virtual asset.)      *)
ClaimsWithinNav ==
    SumFunctionOnSet([d \in Depositor |-> Worth(position[d])], Depositor)
        + SumFunctionOnSet([i \in RequestId |-> Worth(queuedShares[i])], RequestId) <= nav

(* No round trip earns anything: whatever is deposited now could be         *)
(* withdrawn right after for at most the same amount, also when shares are  *)
(* dear because an earlier deposit was lost.                               *)
RoundTripNeverProfits ==
    \A assets \in Deposits :
        LET minted == SharesForDeposit(assets, total_shares, nav)
        IN  AssetsForShares(minted, total_shares + minted, nav + assets) <= assets

(* One share is worth at least as much after the step as before it. *)
PriceHolds ==
    (nav' + VIRTUAL_ASSETS) * (total_shares + VIRTUAL_SHARES)
        >= (nav + VIRTUAL_ASSETS) * (total_shares' + VIRTUAL_SHARES)

(* Rounding favors the depositors who stay: a deposit, a withdrawal, a       *)
(* queued request and a request paid in full never lower the share price;   *)
(* neither does moving capital between the vault and the foragers.          *)
StayersNeverDiluted ==
    [][(\/ \E d \in Depositor : DepositorStep(d)
        \/ \E i \in Queued : FulfillRedemption(i) /\ requests'[i].shares = 0
        \/ \E lot \in Lots : Deploy(lot) \/ Recall(lot)) => PriceHolds]_vars

(* A partial payment takes no value from the depositor who queued: what was *)
(* paid and what the remaining shares are worth come to at least what the    *)
(* request was worth before.                                               *)
PartialPaymentIsFair ==
    [][\A i \in Queued :
        FulfillRedemption(i) =>
            requests'[i].assets_paid - requests[i].assets_paid
                + AssetsForShares(requests'[i].shares, total_shares, nav)
                    >= Worth(requests[i].shares)]_vars

(* vault.rs, module header: "Rounding always favors the vault, meaning the  *)
(* depositors who stay" -- said of every payout, partial fulfilments        *)
(* included.                                                               *)
EveryPayoutFavorsStayers ==
    [][\A i \in Queued : FulfillRedemption(i) => PriceHolds]_vars
=============================================================================
