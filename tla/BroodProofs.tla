---------------------------- MODULE BroodProofs ----------------------------
(***************************************************************************)
(* Conservation of shares and what the roundings of the share conversions    *)
(* guarantee, for all depositors, all amounts and all virtual offsets.      *)
(***************************************************************************)
EXTENDS Brood, NumberTheorems, TLAPS

-----------------------------------------------------------------------------
(* A conversion never gives away more than it takes at the current price:   *)
(* minted shares are worth at most the deposit, paid assets at most the      *)
(* shares.                                                                 *)
LEMMA MintedWithinPrice ==
    ASSUME NEW assets \in Nat, NEW shares \in Nat, NEW value \in Nat
    PROVE  /\ SharesForDeposit(assets, shares, value) \in Nat
           /\ SharesForDeposit(assets, shares, value) * (value + VIRTUAL_ASSETS)
                <= assets * (shares + VIRTUAL_SHARES)
<1>1. /\ shares + VIRTUAL_SHARES \in Nat
      /\ value + VIRTUAL_ASSETS \in Nat \ {0}
  BY BroodAssumption
<1>2. assets * (shares + VIRTUAL_SHARES) \in Nat
  BY <1>1, ProductIsNat
<1>3. QED
  BY <1>1, <1>2, FloorOfQuotient DEF SharesForDeposit

LEMMA PaidWithinPrice ==
    ASSUME NEW shares \in Nat, NEW all \in Nat, NEW value \in Nat
    PROVE  /\ AssetsForShares(shares, all, value) \in Nat
           /\ AssetsForShares(shares, all, value) * (all + VIRTUAL_SHARES)
                <= shares * (value + VIRTUAL_ASSETS)
<1>1. /\ value + VIRTUAL_ASSETS \in Nat
      /\ all + VIRTUAL_SHARES \in Nat \ {0}
  BY BroodAssumption
<1>2. shares * (value + VIRTUAL_ASSETS) \in Nat
  BY <1>1, ProductIsNat
<1>3. QED
  BY <1>1, <1>2, FloorOfQuotient DEF AssetsForShares

(* A deposit withdrawn right after returns at most what was deposited. *)
THEOREM RoundTrip ==
    ASSUME NEW assets \in Nat, NEW shares \in Nat, NEW value \in Nat
    PROVE  LET minted == SharesForDeposit(assets, shares, value)
           IN  AssetsForShares(minted, shares + minted, value + assets) <= assets
<1> DEFINE minted == SharesForDeposit(assets, shares, value)
           price == value + VIRTUAL_ASSETS
           claim == shares + VIRTUAL_SHARES
<1>1. minted \in Nat /\ minted * price <= assets * claim
  BY MintedWithinPrice
<1>2. price \in Nat /\ claim \in Nat /\ claim + minted \in Nat \ {0}
  BY <1>1, BroodAssumption
<1>3. minted * (price + assets) <= (claim + minted) * assets
  <2> HIDE DEF minted, price, claim
  <2>1. minted * (price + assets) = minted * price + minted * assets
    BY <1>1, <1>2
  <2>2. (claim + minted) * assets = assets * claim + minted * assets
    BY <1>1, <1>2
  <2>3. minted * price \in Nat /\ assets * claim \in Nat /\ minted * assets \in Nat
    BY <1>1, <1>2, ProductIsNat
  <2>4. QED
    BY <1>1, <2>1, <2>2, <2>3
<1>4. minted * (price + assets) \in Nat
  BY <1>1, <1>2, ProductIsNat
<1>5. (minted * (price + assets)) \div (claim + minted) <= assets
  <2> HIDE DEF minted, price, claim
  <2>1. QED
    BY <1>2, <1>3, <1>4, QuotientWithin
<1>6. /\ (value + assets) + VIRTUAL_ASSETS = price + assets
      /\ (shares + minted) + VIRTUAL_SHARES = claim + minted
  BY <1>1, BroodAssumption
<1>7. QED
  BY <1>5, <1>6 DEF AssetsForShares

-----------------------------------------------------------------------------
(* The share price over one step.                                          *)

(* An intake of assets against at most their worth in shares.               *)
LEMMA IntakeHoldsPrice ==
    ASSUME NEW v \in Nat, NEW s \in Nat, NEW assets \in Nat, NEW minted \in Nat,
           minted * v <= assets * s
    PROVE  (v + assets) * s >= v * (s + minted)
<1>1. (v + assets) * s = v * s + assets * s
  OBVIOUS
<1>2. v * (s + minted) = v * s + minted * v
  OBVIOUS
<1>3. v * s \in Nat /\ assets * s \in Nat /\ minted * v \in Nat
  BY ProductIsNat
<1>4. QED
  BY <1>1, <1>2, <1>3

(* A payout of at most what the burned shares are worth.                    *)
LEMMA PayoutHoldsPrice ==
    ASSUME NEW v \in Nat, NEW s \in Nat, NEW paid \in Nat, NEW burned \in Nat,
           paid * s <= burned * v
    PROVE  (v - paid) * s >= v * (s - burned)
<1>1. (v - paid) * s = v * s - paid * s
  OBVIOUS
<1>2. v * (s - burned) = v * s - burned * v
  OBVIOUS
<1>3. v * s \in Nat /\ paid * s \in Nat /\ burned * v \in Nat
  BY ProductIsNat
<1>4. QED
  BY <1>1, <1>2, <1>3

(* The totals behind the price, as naturals. *)
LEMMA PriceTyped ==
    ASSUME TypeOK
    PROVE  /\ nav \in Nat /\ total_shares \in Nat /\ idle_base \in Nat
           /\ outstanding_principal \in Nat
           /\ VIRTUAL_SHARES \in Nat /\ VIRTUAL_ASSETS \in Nat
           /\ nav + VIRTUAL_ASSETS \in Nat \ {0}
           /\ total_shares + VIRTUAL_SHARES \in Nat \ {0}
<1>1. /\ total_shares \in Nat /\ idle_base \in Nat /\ outstanding_principal \in Nat
      /\ VIRTUAL_SHARES \in Nat \ {0} /\ VIRTUAL_ASSETS \in Nat \ {0}
  BY BroodAssumption DEF TypeOK
<1>2. QED
  BY <1>1 DEF nav

LEMMA DepositHoldsPrice ==
    ASSUME TypeOK, NEW d \in Depositor, NEW assets \in Deposits, Deposit(d, assets)
    PROVE  PriceHolds
<1> DEFINE minted == SharesForDeposit(assets, total_shares, nav)
<1>1. assets \in Nat
  BY BroodAssumption
<1>2. minted \in Nat /\ minted * (nav + VIRTUAL_ASSETS) <= assets * (total_shares + VIRTUAL_SHARES)
  BY <1>1, PriceTyped, MintedWithinPrice
<1>3. nav' = nav + assets /\ total_shares' = total_shares + minted
  BY <1>1, PriceTyped DEF Deposit, nav
<1>4. (nav + VIRTUAL_ASSETS + assets) * (total_shares + VIRTUAL_SHARES)
        >= (nav + VIRTUAL_ASSETS) * (total_shares + VIRTUAL_SHARES + minted)
  BY <1>1, <1>2, PriceTyped, IntakeHoldsPrice
<1>5. /\ nav' + VIRTUAL_ASSETS = nav + VIRTUAL_ASSETS + assets
      /\ total_shares' + VIRTUAL_SHARES = total_shares + VIRTUAL_SHARES + minted
  BY <1>1, <1>2, <1>3, PriceTyped
<1>6. QED
  BY <1>4, <1>5 DEF PriceHolds

(* Whoever burns shares and takes what they are worth leaves the price.     *)
LEMMA FullPayoutHoldsPrice ==
    ASSUME TypeOK, NEW shares \in Nat,
           idle_base' = idle_base - Worth(shares),
           outstanding_principal' = outstanding_principal,
           total_shares' = total_shares - shares
    PROVE  PriceHolds
<1>1. /\ Worth(shares) \in Nat
      /\ Worth(shares) * (total_shares + VIRTUAL_SHARES) <= shares * (nav + VIRTUAL_ASSETS)
  BY PriceTyped, PaidWithinPrice DEF Worth
<1>2. (nav + VIRTUAL_ASSETS - Worth(shares)) * (total_shares + VIRTUAL_SHARES)
        >= (nav + VIRTUAL_ASSETS) * (total_shares + VIRTUAL_SHARES - shares)
  BY <1>1, PriceTyped, PayoutHoldsPrice
<1>3. /\ nav' + VIRTUAL_ASSETS = nav + VIRTUAL_ASSETS - Worth(shares)
      /\ total_shares' + VIRTUAL_SHARES = total_shares + VIRTUAL_SHARES - shares
  BY <1>1, PriceTyped DEF nav
<1>4. QED
  BY <1>2, <1>3 DEF PriceHolds

LEMMA FlatHoldsPrice ==
    ASSUME TypeOK, nav' = nav, total_shares' = total_shares
    PROVE  PriceHolds
<1>1. (nav + VIRTUAL_ASSETS) * (total_shares + VIRTUAL_SHARES) \in Nat
  BY PriceTyped, ProductIsNat
<1>2. QED
  BY <1>1 DEF PriceHolds

(* A request is emptied only by a payment in full. *)
LEMMA EmptiedIsPaidInFull ==
    ASSUME TypeOK, NEW i \in Queued, FulfillRedemption(i), requests'[i].shares = 0
    PROVE  Payable(requests[i].shares) = Worth(requests[i].shares)
<1> DEFINE shares == requests[i].shares
<1>1. i \in RequestId /\ shares \in Nat /\ shares > 0
  BY DEF TypeOK, Queued, Request, FulfillRedemption
<1>2. Worth(shares) \in Nat /\ idle_base \in Nat
  BY <1>1, PriceTyped, PaidWithinPrice DEF Worth
<1>3. requests'[i].shares = shares - Burned(shares)
  BY <1>1 DEF FulfillRedemption, TypeOK, Request
<1>4. SUFFICES ASSUME Payable(shares) # Worth(shares)
               PROVE  FALSE
  OBVIOUS
<1>5. Payable(shares) = idle_base /\ idle_base < Worth(shares)
  BY <1>2, <1>4 DEF Payable
<1>6. Burned(shares) = (shares * idle_base) \div Worth(shares)
  BY <1>4, <1>5 DEF Burned
<1> HIDE DEF shares
<1>7. shares * idle_base \in Nat /\ shares * idle_base < Worth(shares) * shares
  BY <1>1, <1>2, <1>5, ProductIsNat
<1>8. Worth(shares) \in Nat \ {0}
  BY <1>2, <1>5
<1>9. /\ Burned(shares) \in Nat
      /\ Burned(shares) < shares
  <2>1. /\ (shares * idle_base) \div Worth(shares) \in Nat
        /\ (shares * idle_base) \div Worth(shares) < shares
    <3> HIDE DEF Worth
    <3>1. QED
      BY <1>1, <1>7, <1>8, QuotientBelow, FloorOfQuotient
  <2>2. QED
    BY <1>6, <2>1
<1>10. QED
  BY <1>1, <1>3, <1>9 DEF shares

-----------------------------------------------------------------------------
(* Conservation of shares.                                                 *)

(* The invariant.  The types need the conservation, since a fulfilment takes *)
(* from the two totals what it burns of one request, and the conservation   *)
(* needs the account a request is written to to hold nothing before.        *)
NextRequestIsBlank == \A i \in RequestId : i >= next_redemption_id => requests[i].shares = 0
BroodInv == TypeOK /\ ShareConservation /\ NextRequestIsBlank

LEMMA RequestIdFinite == IsFiniteSet(RequestId)
BY BroodAssumption, FS_Interval DEF RequestId

(* What the sums range over. *)
LEMMA ShareTypes ==
    ASSUME TypeOK
    PROVE  /\ IsFiniteSet(Depositor) /\ IsFiniteSet(RequestId)
           /\ \A d \in Depositor : position[d] \in Nat
           /\ \A i \in RequestId : queuedShares[i] \in Nat /\ queuedShares[i] = requests[i].shares
           /\ SumFunctionOnSet(position, Depositor) \in Nat
           /\ SumFunctionOnSet(queuedShares, RequestId) \in Nat
<1>1. IsFiniteSet(Depositor) /\ IsFiniteSet(RequestId)
  BY BroodAssumption, RequestIdFinite
<1>2. \A d \in Depositor : position[d] \in Nat
  BY DEF TypeOK
<1>3. \A i \in RequestId : queuedShares[i] \in Nat /\ queuedShares[i] = requests[i].shares
  BY DEF TypeOK, Request, queuedShares
<1>4. QED
  BY <1>1, <1>2, <1>3, SumNat

LEMMA BroodInvInit == Init => BroodInv
<1> SUFFICES ASSUME Init PROVE BroodInv
  OBVIOUS
<1>1. TypeOK
  <2>1. requests \in [RequestId -> Request]
    BY DEF Init, Request
  <2>2. QED
    BY <2>1, BroodAssumption DEF Init, TypeOK
<1>2. \A d \in Depositor : position[d] = 0
  BY DEF Init
<1>3. \A i \in RequestId : queuedShares[i] = 0
  BY DEF Init, queuedShares
<1>4. /\ SumFunctionOnSet(position, Depositor) = 0
      /\ SumFunctionOnSet(queuedShares, RequestId) = 0
  BY <1>1, <1>2, <1>3, ShareTypes, SumZero
<1>5. QED
  BY <1>1, <1>4 DEF Init, BroodInv, ShareConservation, NextRequestIsBlank

(* A step that leaves the shares alone disturbs no sum. *)
LEMMA BroodInvFramed ==
    ASSUME BroodInv, UNCHANGED shareVars, idle_base' \in Nat, outstanding_principal' \in Nat
    PROVE  BroodInv'
BY DEF BroodInv, TypeOK, ShareConservation, NextRequestIsBlank, shareVars, queuedShares

(* A change of one position moves the sum of positions by as much. *)
LEMMA PositionMoves ==
    ASSUME TypeOK, NEW d \in Depositor, NEW held \in Nat, position'[d] = held,
           \A e \in Depositor \ {d} : position'[e] = position[e]
    PROVE  SumFunctionOnSet(position', Depositor)
             = SumFunctionOnSet(position, Depositor) - position[d] + held
<1>1. IsFiniteSet(Depositor) /\ (\A e \in Depositor : position[e] \in Int)
      /\ position'[d] \in Int
  BY ShareTypes
<1>2. SumFunctionOnSet(position', Depositor)
        = SumFunctionOnSet(position, Depositor) - position[d] + position'[d]
  BY <1>1, SumUpdate
<1>3. QED
  BY <1>2

(* A change of one request moves the sum of queued shares by as much. *)
LEMMA QueueMoves ==
    ASSUME TypeOK, NEW i \in RequestId, NEW held \in Nat, requests'[i].shares = held,
           \A j \in RequestId \ {i} : requests'[j] = requests[j]
    PROVE  SumFunctionOnSet(queuedShares', RequestId)
             = SumFunctionOnSet(queuedShares, RequestId) - requests[i].shares + held
<1>1. \A j \in RequestId \ {i} : queuedShares'[j] = queuedShares[j]
  BY DEF queuedShares
<1>2. queuedShares'[i] = held /\ queuedShares[i] = requests[i].shares
  BY DEF queuedShares
<1>3. IsFiniteSet(RequestId) /\ (\A j \in RequestId : queuedShares[j] \in Int)
  BY ShareTypes
<1>4. queuedShares'[i] \in Int
  BY <1>2
<1> DEFINE before == queuedShares
           after == queuedShares'
<1>5. SumFunctionOnSet(after, RequestId)
        = SumFunctionOnSet(before, RequestId) - before[i] + after[i]
  <2>1. /\ \A j \in RequestId \ {i} : after[j] = before[j]
        /\ \A j \in RequestId : before[j] \in Int
        /\ after[i] \in Int
    BY <1>1, <1>3, <1>4
  <2> HIDE DEF before, after
  <2>2. QED
    BY <1>3, <2>1, SumUpdate
<1>6. QED
  BY <1>2, <1>5

LEMMA DepositConserves ==
    ASSUME BroodInv, NEW d \in Depositor, NEW assets \in Deposits, Deposit(d, assets)
    PROVE  BroodInv'
<1> DEFINE shares == SharesForDeposit(assets, total_shares, nav)
<1>1. TypeOK /\ assets \in Nat
  BY BroodAssumption DEF BroodInv
<1>2. shares \in Nat /\ position[d] \in Nat /\ SumFunctionOnSet(position, Depositor) \in Nat
  BY <1>1, PriceTyped, MintedWithinPrice, ShareTypes
<1>3. SumFunctionOnSet(position', Depositor) = SumFunctionOnSet(position, Depositor) + shares
  <2>1. /\ position'[d] = position[d] + shares
        /\ \A e \in Depositor \ {d} : position'[e] = position[e]
    BY <1>1 DEF Deposit, TypeOK
  <2> HIDE DEF shares
  <2>2. position[d] + shares \in Nat
    BY <1>2
  <2>3. SumFunctionOnSet(position', Depositor)
          = SumFunctionOnSet(position, Depositor) - position[d] + (position[d] + shares)
    BY <1>1, <2>1, <2>2, PositionMoves
  <2>4. QED
    BY <1>2, <2>3
<1>4. queuedShares' = queuedShares
  BY DEF Deposit, queuedShares
<1>5. TypeOK'
  BY <1>1, <1>2 DEF Deposit, TypeOK
<1>6. ShareConservation'
  BY <1>1, <1>2, <1>3, <1>4, ShareTypes DEF Deposit, BroodInv, ShareConservation, TypeOK
<1>7. QED
  BY <1>5, <1>6 DEF Deposit, BroodInv, NextRequestIsBlank

(* Shares taken out of a position come off the sum of positions. *)
LEMMA PositionGives ==
    ASSUME TypeOK, NEW d \in Depositor, NEW shares \in Nat, position[d] >= shares,
           position' = [position EXCEPT ![d] = @ - shares]
    PROVE  /\ position' \in [Depositor -> Nat]
           /\ SumFunctionOnSet(position', Depositor) \in Nat
           /\ SumFunctionOnSet(position', Depositor)
                = SumFunctionOnSet(position, Depositor) - shares
<1>1. position[d] \in Nat /\ SumFunctionOnSet(position, Depositor) \in Nat
  BY ShareTypes
<1>2. position' \in [Depositor -> Nat]
  BY <1>1 DEF TypeOK
<1>3. /\ position'[d] = position[d] - shares
      /\ \A e \in Depositor \ {d} : position'[e] = position[e]
  BY DEF TypeOK
<1>4. SumFunctionOnSet(position', Depositor)
        = SumFunctionOnSet(position, Depositor) - position[d] + (position[d] - shares)
  <2>1. position[d] - shares \in Nat
    BY <1>1
  <2>2. ASSUME NEW held \in Nat, position'[d] = held
        PROVE  SumFunctionOnSet(position', Depositor)
                 = SumFunctionOnSet(position, Depositor) - position[d] + held
    BY <1>3, <2>2, PositionMoves
  <2>3. QED
    BY <1>3, <2>1, <2>2
<1>5. SumFunctionOnSet(position', Depositor) \in Nat
  <2>1. \A e \in Depositor : position'[e] \in Nat
    BY <1>2
  <2>2. QED
    BY <2>1, BroodAssumption, SumNat
<1>6. QED
  BY <1>1, <1>2, <1>4, <1>5

LEMMA WithdrawConserves ==
    ASSUME BroodInv, NEW d \in Depositor, NEW shares \in Redeemed, Withdraw(d, shares)
    PROVE  BroodInv'
<1>1. TypeOK /\ shares \in Nat /\ Worth(shares) \in Nat
  BY BroodAssumption, PriceTyped, PaidWithinPrice DEF BroodInv, Worth
<1>2. /\ position' \in [Depositor -> Nat]
      /\ SumFunctionOnSet(position', Depositor) \in Nat
      /\ SumFunctionOnSet(position', Depositor) = SumFunctionOnSet(position, Depositor) - shares
  BY <1>1, PositionGives DEF Withdraw
<1>3. queuedShares' = queuedShares
  BY DEF Withdraw, queuedShares
<1>4. ShareConservation' /\ total_shares' \in Nat
  BY <1>1, <1>2, <1>3, ShareTypes DEF Withdraw, BroodInv, ShareConservation, TypeOK
<1>5. TypeOK'
  BY <1>1, <1>2, <1>4 DEF Withdraw, TypeOK
<1>6. QED
  BY <1>4, <1>5 DEF Withdraw, BroodInv, NextRequestIsBlank

LEMMA RequestConserves ==
    ASSUME BroodInv, NEW d \in Depositor, NEW shares \in Redeemed, RequestRedemption(d, shares)
    PROVE  BroodInv'
<1> DEFINE i == next_redemption_id
           request == [owner |-> d, shares |-> shares, assets_paid |-> 0]
<1>1. TypeOK /\ shares \in Nat
  BY BroodAssumption DEF BroodInv
<1>2. /\ position' \in [Depositor -> Nat]
      /\ SumFunctionOnSet(position', Depositor) = SumFunctionOnSet(position, Depositor) - shares
  BY <1>1, PositionGives DEF RequestRedemption
<1>3. i \in RequestId /\ requests[i].shares = 0 /\ request \in Request
  <2>1. next_redemption_id \in Nat /\ next_redemption_id < MaxRequests /\ MaxRequests \in Nat
    BY <1>1, BroodAssumption DEF TypeOK, RequestRedemption
  <2>2. i \in RequestId
    BY <2>1 DEF RequestId
  <2>3. QED
    BY <1>1, <2>1, <2>2 DEF BroodInv, NextRequestIsBlank, Request
<1>4. /\ requests' \in [RequestId -> Request]
      /\ requests'[i].shares = shares
      /\ \A j \in RequestId \ {i} : requests'[j] = requests[j]
  BY <1>1, <1>3 DEF RequestRedemption, TypeOK
<1>5. SumFunctionOnSet(queuedShares', RequestId)
        = SumFunctionOnSet(queuedShares, RequestId) + shares
  <2>1. SumFunctionOnSet(queuedShares', RequestId)
          = SumFunctionOnSet(queuedShares, RequestId) - requests[i].shares + shares
    <3> HIDE DEF i
    <3>1. QED
      BY <1>1, <1>3, <1>4, QueueMoves
  <2>2. SumFunctionOnSet(queuedShares, RequestId) \in Nat
    BY <1>1, ShareTypes
  <2>3. QED
    BY <1>1, <1>3, <2>1, <2>2
<1>6. TypeOK'
  <2>1. next_redemption_id' \in 0..MaxRequests
    BY <1>1, BroodAssumption DEF RequestRedemption, TypeOK
  <2>2. QED
    BY <1>1, <1>2, <1>4, <2>1 DEF RequestRedemption, TypeOK
<1>7. ShareConservation'
  BY <1>1, <1>2, <1>5, ShareTypes
     DEF RequestRedemption, BroodInv, ShareConservation, TypeOK
<1>8. NextRequestIsBlank'
  BY <1>1 DEF RequestRedemption, BroodInv, NextRequestIsBlank, TypeOK, RequestId
<1>9. QED
  BY <1>6, <1>7, <1>8 DEF BroodInv

(* A fulfilment burns at most the shares of the request and pays at most     *)
(* idle_base.                                                              *)
LEMMA FulfillmentBounded ==
    ASSUME TypeOK, NEW shares \in Nat
    PROVE  /\ Payable(shares) \in Nat /\ Payable(shares) <= idle_base
           /\ Burned(shares) \in Nat /\ Burned(shares) <= shares
<1>1. Worth(shares) \in Nat /\ idle_base \in Nat
  BY PriceTyped, PaidWithinPrice DEF Worth
<1>2. Payable(shares) \in Nat /\ Payable(shares) <= idle_base /\ Payable(shares) <= Worth(shares)
  BY <1>1 DEF Payable
<1>3. CASE Payable(shares) = Worth(shares)
  BY <1>2, <1>3 DEF Burned
<1>4. CASE Payable(shares) # Worth(shares)
  <2>1. Worth(shares) \in Nat \ {0}
    BY <1>1, <1>2, <1>4
  <2>2. /\ shares * Payable(shares) \in Nat
        /\ shares * Payable(shares) <= Worth(shares) * shares
    <3> HIDE DEF Payable, Worth
    <3>1. QED
      BY <1>1, <1>2
  <2>3. /\ (shares * Payable(shares)) \div Worth(shares) \in Nat
        /\ (shares * Payable(shares)) \div Worth(shares) <= shares
    <3> HIDE DEF Payable, Worth
    <3>1. QED
      BY <2>1, <2>2, FloorOfQuotient, QuotientWithin
  <2>4. QED
    BY <1>2, <1>4, <2>3 DEF Burned
<1>5. QED
  BY <1>3, <1>4

LEMMA FulfillConserves ==
    ASSUME BroodInv, NEW i \in Queued, FulfillRedemption(i)
    PROVE  BroodInv'
<1> DEFINE shares == requests[i].shares
<1>1. TypeOK /\ i \in RequestId /\ i < next_redemption_id /\ requests[i] \in Request
  BY DEF BroodInv, Queued, TypeOK
<1>2. shares \in Nat
  BY <1>1 DEF Request
<1>3. /\ Payable(shares) \in Nat /\ Payable(shares) <= idle_base
      /\ Burned(shares) \in Nat /\ Burned(shares) <= shares
  BY <1>1, <1>2, FulfillmentBounded
<1>4. shares - Burned(shares) \in Nat /\ requests[i].assets_paid + Payable(shares) \in Nat
  <2>1. requests[i].assets_paid \in Nat
    BY <1>1 DEF Request
  <2> HIDE DEF shares
  <2>2. QED
    BY <1>2, <1>3, <2>1
<1>5. /\ requests' \in [RequestId -> Request]
      /\ requests'[i].shares = shares - Burned(shares)
      /\ \A j \in RequestId \ {i} : requests'[j] = requests[j]
  <2>1. requests' = [requests EXCEPT ![i] =
                        [requests[i] EXCEPT !.shares = shares - Burned(shares),
                                            !.assets_paid = @ + Payable(shares)]]
    BY <1>1 DEF FulfillRedemption, TypeOK
  <2>2. [requests[i] EXCEPT !.shares = shares - Burned(shares),
                            !.assets_paid = @ + Payable(shares)] \in Request
    BY <1>1, <1>4 DEF Request
  <2>3. QED
    BY <1>1, <2>1, <2>2 DEF TypeOK
<1>6. SumFunctionOnSet(queuedShares', RequestId)
        = SumFunctionOnSet(queuedShares, RequestId) - Burned(shares)
  <2>1. SumFunctionOnSet(queuedShares, RequestId) \in Nat
    BY <1>1, ShareTypes
  <2>2. SumFunctionOnSet(queuedShares', RequestId)
          = SumFunctionOnSet(queuedShares, RequestId) - shares + (shares - Burned(shares))
    BY <1>1, <1>4, <1>5, QueueMoves
  <2> HIDE DEF shares
  <2>3. QED
    BY <1>2, <1>3, <2>1, <2>2
<1>7. shares <= SumFunctionOnSet(queuedShares, RequestId)
  <2>1. queuedShares[i] <= SumFunctionOnSet(queuedShares, RequestId)
    BY <1>1, ShareTypes, SumBoundsElement
  <2>2. QED
    BY <1>1, <2>1, ShareTypes
<1>8. ShareConservation' /\ total_shares' \in Nat /\ pending_redemption_shares' \in Nat
  <2>1. /\ total_shares' = total_shares - Burned(shares)
        /\ pending_redemption_shares' = pending_redemption_shares - Burned(shares)
        /\ position' = position
    BY DEF FulfillRedemption
  <2>2. /\ SumFunctionOnSet(position, Depositor) + pending_redemption_shares = total_shares
        /\ pending_redemption_shares = SumFunctionOnSet(queuedShares, RequestId)
    BY DEF BroodInv, ShareConservation
  <2>3. SumFunctionOnSet(position, Depositor) \in Nat
    BY <1>1, ShareTypes
  <2> HIDE DEF shares
  <2>4. QED
    BY <1>1, <1>2, <1>3, <1>6, <1>7, <2>1, <2>2, <2>3 DEF ShareConservation, TypeOK
<1>9. idle_base' \in Nat
  BY <1>1, <1>3 DEF FulfillRedemption, TypeOK
<1>10. TypeOK'
  BY <1>1, <1>5, <1>8, <1>9 DEF FulfillRedemption, TypeOK
<1>11. NextRequestIsBlank'
  BY <1>1 DEF FulfillRedemption, BroodInv, NextRequestIsBlank, TypeOK, RequestId
<1>12. QED
  BY <1>8, <1>10, <1>11 DEF BroodInv

(* The invariant is inductive. *)
LEMMA BroodInvPreserved == BroodInv /\ [Next]_vars => BroodInv'
<1> SUFFICES ASSUME BroodInv, [Next]_vars
             PROVE  BroodInv'
  OBVIOUS
<1>0. TypeOK /\ idle_base \in Nat /\ outstanding_principal \in Nat
  BY DEF BroodInv, TypeOK
<1>1. ASSUME NEW d \in Depositor, DepositorStep(d)
      PROVE  BroodInv'
  BY <1>1, DepositConserves, WithdrawConserves, RequestConserves DEF DepositorStep
<1>2. ASSUME NEW i \in Queued, FulfillRedemption(i)
      PROVE  BroodInv'
  BY <1>2, FulfillConserves
<1>3. ASSUME NEW lot \in Lots, Deploy(lot) \/ Recall(lot) \/ Sweep(lot)
      PROVE  BroodInv'
  <2>1. lot \in Nat
    BY BroodAssumption
  <2>2. UNCHANGED shareVars /\ idle_base' \in Nat /\ outstanding_principal' \in Nat
    BY <1>0, <1>3, <2>1 DEF Deploy, Recall, Sweep
  <2>3. QED
    BY <2>2, BroodInvFramed
<1>4. ASSUME NEW result \in Results, NEW covered \in Lots \cup {0}, Settle(result, covered)
      PROVE  BroodInv'
  <2>1. result \in Int /\ covered \in Nat
    BY BroodAssumption
  <2>2. UNCHANGED shareVars /\ idle_base' \in Nat /\ outstanding_principal' \in Nat
    BY <1>0, <1>4, <2>1 DEF Settle
  <2>3. QED
    BY <2>2, BroodInvFramed
<1>5. CASE UNCHANGED vars
  BY <1>0, <1>5, BroodInvFramed DEF vars
<1>6. QED
  BY <1>1, <1>2, <1>3, <1>4, <1>5 DEF Next

THEOREM BroodInvariant == Spec => []BroodInv
BY BroodInvInit, BroodInvPreserved, PTL DEF Spec

(* Type correctness: no total ever goes below zero, so no unsigned counter   *)
(* of the vault wraps or aborts a payout.                                  *)
THEOREM BroodTyped == Spec => []TypeOK
<1>1. BroodInv => TypeOK
  BY DEF BroodInv
<1>2. QED
  BY <1>1, BroodInvariant, PTL

(* Every share is in exactly one place, a position or a queued request.      *)
THEOREM SharesConserved == Spec => []ShareConservation
<1>1. BroodInv => ShareConservation
  BY DEF BroodInv
<1>2. QED
  BY <1>1, BroodInvariant, PTL

(* No amount of the instance earns anything by going in and out.            *)
THEOREM RoundTripAlwaysFair == Spec => []RoundTripNeverProfits
<1>1. TypeOK => RoundTripNeverProfits
  <2> SUFFICES ASSUME TypeOK, NEW assets \in Deposits
               PROVE  LET minted == SharesForDeposit(assets, total_shares, nav)
                      IN  AssetsForShares(minted, total_shares + minted, nav + assets) <= assets
    BY DEF RoundTripNeverProfits
  <2>1. assets \in Nat /\ total_shares \in Nat /\ nav \in Nat
    BY BroodAssumption DEF TypeOK, nav
  <2>2. QED
    BY <2>1, RoundTrip
<1>2. QED
  BY <1>1, BroodTyped, PTL

(* No deposit, withdrawal, queued request, payment in full or move of        *)
(* capital ever lowers the share price.                                    *)
THEOREM NobodyDilutesStayers == Spec => StayersNeverDiluted
<1>1. ASSUME TypeOK, NEW d \in Depositor, DepositorStep(d)
      PROVE  PriceHolds
  <2>1. ASSUME NEW assets \in Deposits, Deposit(d, assets)
        PROVE  PriceHolds
    BY <1>1, <2>1, DepositHoldsPrice
  <2>2. ASSUME NEW shares \in Redeemed, Withdraw(d, shares)
        PROVE  PriceHolds
    <3>1. shares \in Nat
      BY BroodAssumption
    <3>2. QED
      BY <1>1, <2>2, <3>1, FullPayoutHoldsPrice DEF Withdraw
  <2>3. ASSUME NEW shares \in Redeemed, RequestRedemption(d, shares)
        PROVE  PriceHolds
    BY <1>1, <2>3, FlatHoldsPrice DEF RequestRedemption, nav
  <2>4. QED
    BY <1>1, <2>1, <2>2, <2>3 DEF DepositorStep
<1>2. ASSUME TypeOK, NEW i \in Queued, FulfillRedemption(i), requests'[i].shares = 0
      PROVE  PriceHolds
  <2>1. requests[i].shares \in Nat
    BY <1>2 DEF TypeOK, Queued, Request
  <2>2. Payable(requests[i].shares) = Worth(requests[i].shares)
    BY <1>2, EmptiedIsPaidInFull
  <2>3. Burned(requests[i].shares) = requests[i].shares
    BY <2>2 DEF Burned
  <2>4. QED
    BY <1>2, <2>1, <2>2, <2>3, FullPayoutHoldsPrice DEF FulfillRedemption
<1>3. ASSUME TypeOK, NEW lot \in Lots, Deploy(lot) \/ Recall(lot)
      PROVE  PriceHolds
  <2>1. lot \in Nat
    BY BroodAssumption
  <2>2. nav' = nav /\ total_shares' = total_shares
    BY <1>3, <2>1, PriceTyped DEF Deploy, Recall, nav, shareVars
  <2>3. QED
    BY <1>3, <2>2, FlatHoldsPrice
<1>4. ASSUME TypeOK,
             \/ \E d \in Depositor : DepositorStep(d)
             \/ \E i \in Queued : FulfillRedemption(i) /\ requests'[i].shares = 0
             \/ \E lot \in Lots : Deploy(lot) \/ Recall(lot)
      PROVE  PriceHolds
  BY <1>1, <1>2, <1>3, <1>4
<1>5. QED
  BY <1>4, BroodTyped, PTL DEF StayersNeverDiluted

(* What a part payment leaves, with K the shares and V the assets behind the  *)
(* price, s the shares queued and w their worth, p of it paid for b shares.  *)
LEMMA UnpaidKeepsItsShares ==
    ASSUME NEW K \in Nat, NEW V \in Nat, NEW s \in Nat, NEW w \in Nat \ {0},
           NEW p \in Nat, NEW b \in Nat, p <= w, b <= s,
           w * K <= s * V, b * w <= s * p
    PROVE  (w - p) * K <= (s - b) * V
<1> DEFINE unpaid == w - p
           kept == s - b
<1>1. unpaid \in Nat /\ kept \in Nat
  OBVIOUS
<1>2. s * unpaid <= kept * w
  <2>1. s * unpaid = s * w - s * p /\ kept * w = s * w - b * w
    OBVIOUS
  <2>2. s * w \in Nat /\ s * p \in Nat /\ b * w \in Nat
    BY ProductIsNat
  <2>3. QED
    BY <2>1, <2>2
<1> HIDE DEF unpaid, kept
<1>3. unpaid * (w * K) <= unpaid * (s * V)
  BY <1>1, ProductIsNat, ProductGrows
<1>4. V * (s * unpaid) <= V * (kept * w)
  BY <1>1, <1>2, ProductIsNat, ProductGrows
<1>5. w * (unpaid * K) <= w * (kept * V)
  <2>1. /\ w * (unpaid * K) = unpaid * (w * K)
        /\ unpaid * (s * V) = V * (s * unpaid)
        /\ V * (kept * w) = w * (kept * V)
    BY <1>1
  <2>2. /\ unpaid * (w * K) \in Nat /\ unpaid * (s * V) \in Nat
        /\ V * (s * unpaid) \in Nat /\ V * (kept * w) \in Nat
    BY <1>1, ProductIsNat
  <2>3. QED
    BY <1>3, <1>4, <2>1, <2>2
<1>6. unpaid * K \in Nat /\ kept * V \in Nat
  BY <1>1, ProductIsNat
<1>7. unpaid * K <= kept * V
  BY <1>5, <1>6, ProductCancels
<1>8. QED
  BY <1>7 DEF unpaid, kept

(* A partial payment takes nothing from the depositor who queued: the burned  *)
(* shares are rounded down, so what stays queued is worth what was not paid. *)
LEMMA FulfilmentIsFair ==
    ASSUME TypeOK, NEW i \in Queued, FulfillRedemption(i)
    PROVE  requests'[i].assets_paid - requests[i].assets_paid
             + AssetsForShares(requests'[i].shares, total_shares, nav)
                 >= Worth(requests[i].shares)
<1> DEFINE s == requests[i].shares
           w == Worth(s)
           p == Payable(s)
           b == Burned(s)
           K == total_shares + VIRTUAL_SHARES
           V == nav + VIRTUAL_ASSETS
<1>1. i \in RequestId /\ requests[i] \in Request
  BY DEF Queued, TypeOK
<1>2. s \in Nat /\ requests[i].assets_paid \in Nat
  BY <1>1 DEF Request
<1>3. /\ w \in Nat /\ w * K <= s * V
      /\ total_shares \in Nat /\ nav \in Nat /\ K \in Nat \ {0} /\ V \in Nat
      /\ idle_base \in Nat
  BY <1>2, PriceTyped, PaidWithinPrice DEF Worth
<1>4. p \in Nat /\ b \in Nat /\ b <= s
  BY <1>2, FulfillmentBounded
<1>5. p <= w
  BY <1>2, <1>3 DEF Payable
<1>6. /\ requests'[i].shares = s - b
      /\ requests'[i].assets_paid = requests[i].assets_paid + p
  BY <1>1 DEF FulfillRedemption, TypeOK, Request
<1>7. AssetsForShares(s - b, total_shares, nav) >= w - p
  <2>1. s - b \in Nat /\ w - p \in Nat
    BY <1>2, <1>3, <1>4, <1>5
  <2>2. CASE p = w
    BY <1>3, <2>1, <2>2, PaidWithinPrice
  <2>3. CASE p # w
    <3>1. w \in Nat \ {0}
      BY <1>3, <1>4, <1>5, <2>3
    <3>2. b = (s * p) \div w
      BY <2>3 DEF Burned
    <3>3. b * w <= s * p
      <4> HIDE DEF s, w, p, b
      <4>1. QED
        BY <1>2, <1>4, <3>1, <3>2, ProductIsNat, FloorOfQuotient
    <3>4. (w - p) * K <= (s - b) * V
      <4> HIDE DEF s, w, p, b, K, V
      <4>1. QED
        BY <1>2, <1>3, <1>4, <1>5, <3>1, <3>3, UnpaidKeepsItsShares
    <3>5. w - p <= ((s - b) * V) \div K
      <4> HIDE DEF s, w, p, b, K, V
      <4>1. (s - b) * V \in Nat
        BY <1>3, <2>1, ProductIsNat
      <4>2. QED
        BY <1>3, <2>1, <3>4, <4>1, QuotientAtLeast
    <3>6. AssetsForShares(s - b, total_shares, nav) = ((s - b) * V) \div K
      BY DEF AssetsForShares
    <3>7. ((s - b) * V) \div K \in Nat
      BY <1>3, <2>1, <3>6, PaidWithinPrice
    <3>8. QED
      <4> HIDE DEF s, w, p, b, K, V
      <4>1. QED
        BY <2>1, <3>5, <3>6, <3>7
  <2>4. QED
    BY <2>2, <2>3
<1>8. AssetsForShares(s - b, total_shares, nav) \in Nat
  <2>1. s - b \in Nat
    BY <1>2, <1>4
  <2>2. QED
    BY <1>3, <2>1, PaidWithinPrice
<1>9. (requests[i].assets_paid + p) - requests[i].assets_paid = p
  BY <1>2, <1>4
<1>10. p + AssetsForShares(s - b, total_shares, nav) >= w
  <2> HIDE DEF s, w, p, b
  <2>1. QED
    BY <1>3, <1>4, <1>7, <1>8
<1>11. QED
  BY <1>6, <1>9, <1>10

(* A partial payment takes no value from the depositor who queued.          *)
THEOREM PartialPaymentAlwaysFair == Spec => PartialPaymentIsFair
<1> DEFINE Fair ==
        \A i \in Queued :
          FulfillRedemption(i) =>
            requests'[i].assets_paid - requests[i].assets_paid
              + AssetsForShares(requests'[i].shares, total_shares, nav)
                  >= Worth(requests[i].shares)
<1>1. TypeOK => Fair
  BY FulfilmentIsFair
<1>2. QED
  BY <1>1, BroodTyped, PTL DEF PartialPaymentIsFair

-----------------------------------------------------------------------------
(* Solvency.                                                               *)

(* Everyone redeeming everything asks for less than the assets behind the    *)
(* price, the virtual ones included.                                       *)
LEMMA ClaimsBelowPrice ==
    ASSUME TypeOK, ShareConservation
    PROVE  LET held == SumFunctionOnSet([d \in Depositor |-> Worth(position[d])], Depositor)
               due == SumFunctionOnSet([i \in RequestId |-> Worth(queuedShares[i])], RequestId)
           IN  held \in Nat /\ due \in Nat /\ held + due < nav + VIRTUAL_ASSETS
<1> DEFINE worthHeld == [d \in Depositor |-> Worth(position[d])]
           worthDue == [i \in RequestId |-> Worth(queuedShares[i])]
           held == SumFunctionOnSet(worthHeld, Depositor)
           due == SumFunctionOnSet(worthDue, RequestId)
           shares == SumFunctionOnSet(position, Depositor)
           pending == SumFunctionOnSet(queuedShares, RequestId)
           K == total_shares + VIRTUAL_SHARES
           V == nav + VIRTUAL_ASSETS
<1>1. /\ IsFiniteSet(Depositor) /\ IsFiniteSet(RequestId)
      /\ shares \in Nat /\ pending \in Nat
  BY ShareTypes
<1>2. K \in Nat \ {0} /\ V \in Nat \ {0}
  BY PriceTyped
<1>3. ASSUME NEW n \in Nat
      PROVE  Worth(n) \in Nat /\ Worth(n) * K <= n * V
  BY PriceTyped, PaidWithinPrice DEF Worth
<1>4. \A d \in Depositor : /\ worthHeld[d] \in Nat /\ position[d] \in Nat
                          /\ worthHeld[d] * K <= position[d] * V
  BY <1>3, ShareTypes
<1>5. \A i \in RequestId : /\ worthDue[i] \in Nat /\ queuedShares[i] \in Nat
                          /\ worthDue[i] * K <= queuedShares[i] * V
  BY <1>3, ShareTypes
<1> HIDE DEF worthHeld, worthDue, K, V
<1>6. held \in Nat /\ held * K <= shares * V
  BY <1>1, <1>2, <1>4, SumNat, SumScaled
<1>7. due \in Nat /\ due * K <= pending * V
  BY <1>1, <1>2, <1>5, SumNat, SumScaled
<1>8. K = shares + pending + VIRTUAL_SHARES /\ VIRTUAL_SHARES \in Nat \ {0}
  BY <1>1, BroodAssumption DEF ShareConservation, K
<1> HIDE DEF held, due, shares, pending
<1>9. held + due < V
  <2>1. SUFFICES ASSUME V <= held + due PROVE FALSE
    BY <1>2, <1>6, <1>7
  <2>2. V * K <= (held + due) * K
    <3>1. K * V <= K * (held + due)
      BY <1>2, <1>6, <1>7, <2>1, ProductGrows
    <3>2. QED
      BY <1>2, <1>6, <1>7, <3>1
  <2>3. (held + due) * K = held * K + due * K
    BY <1>2, <1>6, <1>7
  <2>4. V * K = shares * V + pending * V + VIRTUAL_SHARES * V
    BY <1>1, <1>2, <1>8
  <2>5. VIRTUAL_SHARES * V > 0
    BY <1>2, <1>8
  <2>6. /\ held * K \in Nat /\ due * K \in Nat /\ shares * V \in Nat
        /\ pending * V \in Nat /\ VIRTUAL_SHARES * V \in Nat
    BY <1>1, <1>2, <1>6, <1>7, <1>8, ProductIsNat
  <2>7. QED
    BY <1>6, <1>7, <2>2, <2>3, <2>4, <2>5, <2>6
<1>10. QED
  BY <1>6, <1>7, <1>9 DEF held, due, worthHeld, worthDue, V

(* Solvency, with the one virtual asset of the program (math.rs,            *)
(* VIRTUAL_ASSETS): what everyone together could be paid is covered by nav.  *)
THEOREM VaultSolvent ==
    ASSUME VIRTUAL_ASSETS = 1
    PROVE  Spec => []ClaimsWithinNav
<1>1. BroodInv => ClaimsWithinNav
  <2> SUFFICES ASSUME TypeOK, ShareConservation
               PROVE  ClaimsWithinNav
    BY DEF BroodInv
  <2>1. nav \in Nat
    BY PriceTyped
  <2>2. QED
    BY <2>1, ClaimsBelowPrice DEF ClaimsWithinNav
<1>2. QED
  BY <1>1, BroodInvariant, PTL
=============================================================================
