-------------------------- MODULE ColonyMathProofs --------------------------
(***************************************************************************)
(* What the arithmetic of the program returns, for every scale, every set    *)
(* of parameters validate accepts and every amount: the ranges of each       *)
(* operator of ColonyMath, on which the proofs about Colony stand.          *)
(***************************************************************************)
EXTENDS ColonyParams, NumberTheorems, SequenceTheorems

LEMMA ScaleTyped == BPS_DENOM \in Nat \ {0} /\ BPS_DENOM >= 20
BY BpsAssumption, ScaleAssumption

LEMMA SatSubTyped ==
    ASSUME NEW a \in Nat, NEW b \in Nat
    PROVE  /\ SatSub(a, b) \in Nat /\ SatSub(a, b) <= a
           /\ a >= b => SatSub(a, b) = a - b
BY DEF SatSub

LEMMA LesserTyped ==
    ASSUME NEW a \in Int, NEW b \in Int
    PROVE  /\ Lesser(a, b) \in {a, b} /\ Lesser(a, b) <= a /\ Lesser(a, b) <= b
           /\ Greater(a, b) \in {a, b} /\ Greater(a, b) >= a /\ Greater(a, b) >= b
BY DEF Lesser, Greater

LEMMA TruncDivTyped ==
    ASSUME NEW a \in Int, NEW b \in Nat \ {0}
    PROVE  TruncDiv(a, b) \in Int
<1>1. CASE a >= 0
  BY <1>1, FloorOfQuotient DEF TruncDiv
<1>2. CASE ~(a >= 0)
  <2>1. -a \in Nat
    BY <1>2
  <2>2. (-a) \div b \in Nat
    BY <2>1, FloorOfQuotient
  <2>3. QED
    BY <1>2, <2>2 DEF TruncDiv
<1>3. QED
  BY <1>1, <1>2

(* A part of an amount, up to the whole of it. *)
LEMMA ShareTyped ==
    ASSUME NEW amount \in Nat, NEW bps \in Nat
    PROVE  /\ Share(amount, bps) \in Nat
           /\ bps <= BPS_DENOM => Share(amount, bps) <= amount
<1>1. amount * bps \in Nat
  BY ProductIsNat
<1>2. Share(amount, bps) \in Nat
  BY <1>1, ScaleTyped, FloorOfQuotient DEF Share
<1>3. ASSUME bps <= BPS_DENOM
      PROVE  Share(amount, bps) <= amount
  <2>1. amount * bps <= BPS_DENOM * amount
    <3>1. amount * bps <= amount * BPS_DENOM
      BY <1>3, ScaleTyped, ProductGrows
    <3>2. QED
      BY <3>1, ScaleTyped
  <2>2. QED
    BY <1>1, <2>1, ScaleTyped, QuotientWithin DEF Share
<1>4. QED
  BY <1>2, <1>3

-----------------------------------------------------------------------------
(* The parameters validate accepts.                                        *)

LEMMA BpsTyped ==
    ASSUME NEW n \in Nat
    PROVE  /\ Bps(n) \in Nat
           /\ n <= 10000 => Bps(n) <= BPS_DENOM
           /\ n >= 500 => Bps(n) > 0
<1>1. n * BPS_DENOM \in Nat
  BY ScaleTyped, ProductIsNat
<1>2. Bps(n) \in Nat
  BY <1>1, FloorOfQuotient DEF Bps
<1>3. ASSUME n <= 10000 PROVE Bps(n) <= BPS_DENOM
  <2>1. n * BPS_DENOM <= 10000 * BPS_DENOM
    BY <1>3, ScaleTyped
  <2>2. QED
    BY <1>1, <2>1, ScaleTyped, QuotientWithin DEF Bps
<1>4. ASSUME n >= 500 PROVE Bps(n) > 0
  <2>1. 1 * 10000 <= n * BPS_DENOM
    <3>1. 500 * 20 <= n * 20 /\ n * 20 <= n * BPS_DENOM
      BY <1>4, ScaleTyped, ProductGrows
    <3>2. QED
      BY <1>1, <3>1, ProductIsNat
  <2>2. 1 <= Bps(n)
    BY <1>1, <2>1, QuotientAtLeast DEF Bps
  <2>3. QED
    BY <1>2, <2>2
<1>5. QED
  BY <1>2, <1>3, <1>4

LEMMA ConfigTyped ==
    ASSUME NEW p, Validate(p)
    PROVE  /\ p.rho_bps \in 0..BPS_DENOM
           /\ p.perf_norm_s_bps \in Nat \ {0}
           /\ p.risk_aversion_bps \in Nat
           /\ p.w_max_bps \in Nat
           /\ p.w_drop_bps \in Nat
           /\ p.scout_budget_bps \in 0..BPS_DENOM
           /\ p.reband_band_bps \in Nat
           /\ p.turnover_cap_bps \in 0..BPS_DENOM
           /\ p.bond_ratio_bps \in Nat \ {0}
           /\ p.bond_haircut_bps \in 0..BPS_DENOM
           /\ p.dd_probation_bps \in Nat
           /\ p.dd_slash_bps \in Nat
           /\ p.slash_burn_bps \in 0..BPS_DENOM
           /\ p.cache_accrual_bps \in 0..BPS_DENOM
           /\ p.cache_reserve_target_bps \in 0..BPS_DENOM
           /\ p.scout_ticket_base_units \in Nat \ {0}
           /\ p.min_bond \in Nat \ {0}
           /\ p.deposit_scale_q \in Nat \ {0}
           /\ p.promote_tau_seed_cap \in Nat
<1>1. ASSUME NEW name \in DOMAIN ParamBounds
      PROVE  p[name] \in ParamBounds[name][1]..ParamBounds[name][2]
  BY DEF Validate
<1>2. /\ p.rho_bps \in Bps(100)..Bps(5000)
      /\ p.perf_norm_s_bps \in Greater(Bps(100), 1)..Bps(5000)
      /\ p.risk_aversion_bps \in 0..Bps(50000)
      /\ p.w_max_bps \in Bps(500)..Bps(4000)
      /\ p.w_drop_bps \in 0..Bps(1000)
      /\ p.scout_budget_bps \in Bps(500)..Bps(2000)
  BY <1>1 DEF ParamBounds
<1>3. /\ p.reband_band_bps \in 0..Bps(1000)
      /\ p.turnover_cap_bps \in Bps(500)..Bps(10000)
      /\ p.bond_ratio_bps \in Bps(500)..Bps(5000)
      /\ p.bond_haircut_bps \in Bps(1000)..Bps(7000)
      /\ p.dd_probation_bps \in Bps(500)..Bps(4000)
      /\ p.dd_slash_bps \in Bps(1000)..Bps(6000)
  BY <1>1 DEF ParamBounds
<1>4. /\ p.slash_burn_bps \in 0..Bps(10000)
      /\ p.cache_accrual_bps \in 0..Bps(5000)
      /\ p.cache_reserve_target_bps \in Bps(100)..Bps(1000)
  BY <1>1 DEF ParamBounds
<1>5. \A n \in Nat : Bps(n) \in Nat /\ (n <= 10000 => Bps(n) <= BPS_DENOM)
                                  /\ (n >= 500 => Bps(n) > 0)
  BY BpsTyped
<1>6. Greater(Bps(100), 1) \in Nat \ {0}
  BY <1>5 DEF Greater
<1>7. QED
  BY <1>2, <1>3, <1>4, <1>5, <1>6, ScaleTyped DEF Validate

-----------------------------------------------------------------------------
(* Realized performance and the trail.                                     *)

LEMMA DrawdownTyped ==
    ASSUME NEW high_water \in Nat, NEW equity \in Nat, equity <= high_water
    PROVE  DrawdownBps(high_water, equity) \in 0..BPS_DENOM
<1>1. CASE high_water = 0
  BY <1>1, ScaleTyped DEF DrawdownBps
<1>2. CASE high_water # 0
  <2>1. high_water - equity \in Nat
    OBVIOUS
  <2>2. (high_water - equity) * BPS_DENOM \in Nat
    BY <2>1, ScaleTyped, ProductIsNat
  <2>3. ((high_water - equity) * BPS_DENOM) \div high_water \in Nat
    BY <1>2, <2>2, FloorOfQuotient
  <2>4. QED
    BY <1>2, <2>3, ScaleTyped, LesserTyped DEF DrawdownBps
<1>3. QED
  BY <1>1, <1>2

LEMMA PerfTyped ==
    ASSUME NEW realized \in Int, NEW principal \in Nat, NEW drawdown \in Nat,
           NEW risk_aversion_bps \in Nat
    PROVE  RiskAdjustedPerfBps(ReturnBps(realized, principal), drawdown, risk_aversion_bps) \in Int
<1>1. ReturnBps(realized, principal) \in Int
  <2>1. realized * BPS_DENOM \in Int
    BY ScaleTyped
  <2>2. QED
    BY <2>1, TruncDivTyped DEF ReturnBps
<1>2. Share(risk_aversion_bps, drawdown) \in Nat
  BY ShareTyped
<1>3. QED
  BY <1>1, <1>2 DEF RiskAdjustedPerfBps

LEMMA DepositTyped ==
    ASSUME NEW perf_bps \in Int, NEW s \in Nat \ {0}, NEW q \in Nat
    PROVE  Deposit(perf_bps, s, q) \in Int
<1> DEFINE clamped == IF perf_bps > s THEN s ELSE IF perf_bps < -s THEN -s ELSE perf_bps
<1>1. clamped \in Int
  OBVIOUS
<1>2. q * clamped \in Int
  <2> HIDE DEF clamped
  <2>1. QED
    BY <1>1
<1>3. QED
  BY <1>2, TruncDivTyped DEF Deposit

(* A trail stays within its ceiling, whatever is deposited on it.           *)
LEMMA TrailTyped ==
    ASSUME NEW current \in Nat, NEW deposit \in Int, NEW rho_bps \in 0..BPS_DENOM,
           NEW ceil \in Nat
    PROVE  UpdatePheromone(current, deposit, rho_bps, ceil) \in 0..ceil
<1>1. BPS_DENOM - rho_bps \in Nat
  BY ScaleTyped
<1>2. Evaporate(current, rho_bps) \in Nat
  BY <1>1, ShareTyped DEF Evaporate
<1>3. QED
  BY <1>2 DEF UpdatePheromone, Lesser, Greater

-----------------------------------------------------------------------------
(* Losses, slashes and the cache.                                          *)

(* The waterfall takes no more than the loss, and no more than each layer    *)
(* holds; the cache is reached only through an exhausted bond, and          *)
(* depositors only through an exhausted cache.                             *)
LEMMA CoverBounds ==
    ASSUME NEW loss \in Nat, NEW bond \in Nat, NEW cache_balance \in Nat
    PROVE  LET w == CoverLoss(loss, bond, cache_balance)
           IN  /\ w.from_bond \in 0..bond
               /\ w.from_cache \in 0..cache_balance
               /\ w.from_bond + w.from_cache <= loss
               /\ w.from_cache > 0 => w.from_bond = bond
               /\ w.from_bond + w.from_cache < loss
                     => w.from_bond = bond /\ w.from_cache = cache_balance
BY DEF CoverLoss, Lesser

(* A slash seizes at most the bond, and all it seizes is burned or paid to    *)
(* the cache.                                                              *)
LEMMA SlashBounds ==
    ASSUME NEW bond \in Nat, NEW slash_bps \in 0..BPS_DENOM, NEW burn_bps \in 0..BPS_DENOM
    PROVE  LET out == SlashSplit(bond, slash_bps, burn_bps)
           IN  /\ out.slashed \in 0..bond
               /\ out.burn \in Nat /\ out.to_cache \in Nat
               /\ out.burn + out.to_cache = out.slashed
<1> DEFINE slashed == Share(bond, slash_bps)
           burn == Share(slashed, burn_bps)
<1>1. slashed \in 0..bond
  BY ScaleTyped, ShareTyped
<1>2. burn \in 0..slashed
  <2> HIDE DEF slashed
  <2>1. QED
    BY <1>1, ScaleTyped, ShareTyped
<1>3. /\ SlashSplit(bond, slash_bps, burn_bps).slashed = slashed
      /\ SlashSplit(bond, slash_bps, burn_bps).burn = burn
      /\ SlashSplit(bond, slash_bps, burn_bps).to_cache = slashed - burn
  BY DEF SlashSplit
<1> HIDE DEF slashed, burn
<1>4. QED
  BY <1>1, <1>2, <1>3

LEMMA LossSlashTyped ==
    ASSUME NEW drawdown_bps \in Nat, NEW dd_slash_bps \in Nat
    PROVE  LossSlashBps(drawdown_bps, dd_slash_bps) \in 0..BPS_DENOM
<1>1. CASE drawdown_bps <= dd_slash_bps \/ dd_slash_bps = 0
  BY <1>1, ScaleTyped DEF LossSlashBps
<1>2. CASE ~(drawdown_bps <= dd_slash_bps \/ dd_slash_bps = 0)
  <2>1. drawdown_bps - dd_slash_bps \in Nat
    BY <1>2
  <2>2. (drawdown_bps - dd_slash_bps) * BPS_DENOM \in Nat
    BY <2>1, ScaleTyped, ProductIsNat
  <2>3. ((drawdown_bps - dd_slash_bps) * BPS_DENOM) \div dd_slash_bps \in Nat
    BY <1>2, <2>2, FloorOfQuotient
  <2>4. QED
    BY <1>2, <2>3, ScaleTyped, LesserTyped DEF LossSlashBps
<1>3. QED
  BY <1>1, <1>2

-----------------------------------------------------------------------------
(* The level, the weights and what a rebalance moves.                      *)

LEMMA MarkTyped ==
    ASSUME NEW high_water \in Nat, NEW before \in Nat, NEW after \in Nat
    PROVE  RescaleHighWater(high_water, before, after) \in Nat
<1>1. high_water * after \in Nat
  BY ProductIsNat
<1>2. QED
  BY <1>1, FloorOfQuotient DEF RescaleHighWater

LEMMA MaxWeightTyped ==
    ASSUME NEW w_max_bps \in Nat, NEW active_count \in Nat
    PROVE  EffectiveMaxWeightBps(w_max_bps, active_count, CAP_RELAX_MARGIN_BPS) \in Nat
<1>1. CASE active_count = 0
  BY <1>1 DEF EffectiveMaxWeightBps
<1>2. CASE active_count # 0
  <2>1. BPS_DENOM \div active_count \in Nat
    BY <1>2, ScaleTyped, FloorOfQuotient
  <2>2. QED
    BY <1>2, <2>1, ScaleTyped, ParamsAssumption DEF EffectiveMaxWeightBps, Lesser, Greater
<1>3. QED
  BY <1>1, <1>2

(* A weight is divided by rest_sum only where that is positive.             *)
LEMMA UncappedRest ==
    ASSUME NEW pheromone \in Nat \ {0}, NEW remaining \in Nat, NEW rest \in Nat, NEW w \in Nat,
           remaining * pheromone < w * rest
    PROVE  rest \in Nat \ {0}
<1>1. CASE rest = 0
  <2>1. w * rest = 0 /\ remaining * pheromone \in Nat
    BY <1>1, ProductIsNat
  <2>2. QED
    BY <2>1
<1>2. QED
  BY <1>1

(* No target exceeds the weight cap's share of the pool, for any level.     *)
THEOREM AllocationWithinCap ==
    ASSUME NEW pheromone \in Nat, NEW lv, lv.remaining_bps \in Nat, lv.rest_sum \in Nat,
           NEW pool \in Nat, NEW w \in Nat
    PROVE  /\ AllocationTarget(pheromone, lv, pool, w) \in Nat
           /\ AllocationTarget(pheromone, lv, pool, w) <= Share(pool, w)
<1> DEFINE remaining == lv.remaining_bps
           rest == lv.rest_sum
<1>1. Share(pool, w) \in Nat /\ remaining \in Nat /\ rest \in Nat
  BY ShareTyped
<1>2. CASE pheromone = 0 \/ pool = 0
  BY <1>1, <1>2 DEF AllocationTarget
<1>3. CASE pheromone # 0 /\ pool # 0 /\ IsCapped(pheromone, lv, w)
  BY <1>1, <1>3 DEF AllocationTarget
<1>4. CASE pheromone # 0 /\ pool # 0 /\ ~IsCapped(pheromone, lv, w)
  <2>1. remaining * pheromone < w * rest
    <3>1. remaining * pheromone \in Nat /\ w * rest \in Nat
      BY <1>1, ProductIsNat
    <3>2. QED
      BY <1>4, <3>1 DEF IsCapped
  <2>2. AllocationTarget(pheromone, lv, pool, w)
          = (pool * pheromone * remaining) \div (BPS_DENOM * rest)
    BY <1>4 DEF AllocationTarget
  <2> HIDE DEF remaining, rest
  <2>3. rest \in Nat \ {0} /\ BPS_DENOM * rest \in Nat \ {0}
    <3>1. rest \in Nat \ {0}
      BY <1>1, <1>4, <2>1, UncappedRest
    <3>2. QED
      BY <3>1, ScaleTyped, ProductPositive
  <2>4. /\ pool * pheromone * remaining \in Nat
        /\ pool * pheromone * remaining <= rest * (pool * w)
    <3>1. pool * pheromone * remaining = pool * (remaining * pheromone)
      BY <1>1
    <3>2. rest * (pool * w) = pool * (w * rest)
      BY <1>1
    <3>3. remaining * pheromone \in Nat /\ w * rest \in Nat
      BY <1>1, ProductIsNat
    <3>4. QED
      BY <2>1, <3>1, <3>2, <3>3, ProductIsNat, ProductGrows
  <2>5. (pool * pheromone * remaining) \div (BPS_DENOM * rest) \in Nat
    BY <2>3, <2>4, FloorOfQuotient
  <2>6. (pool * pheromone * remaining) \div (BPS_DENOM * rest) <= (pool * w) \div BPS_DENOM
    <3> DEFINE a == pool * pheromone * remaining
               t == a \div (BPS_DENOM * rest)
    <3>1. t * (BPS_DENOM * rest) <= a
      BY <2>3, <2>4, FloorOfQuotient
    <3> HIDE DEF a, t
    <3>2. t \in Nat /\ a \in Nat /\ a <= rest * (pool * w)
      BY <2>4, <2>5 DEF a, t
    <3>3. rest * (t * BPS_DENOM) <= rest * (pool * w)
      <4>1. rest * (t * BPS_DENOM) = t * (BPS_DENOM * rest)
        BY <2>3, <3>2, ScaleTyped
      <4>2. rest * (t * BPS_DENOM) \in Nat /\ rest * (pool * w) \in Nat
        BY <2>3, <3>2, ScaleTyped, ProductIsNat
      <4>3. QED
        BY <3>1, <3>2, <4>1, <4>2
    <3>4. t * BPS_DENOM <= pool * w
      BY <2>3, <3>2, <3>3, ScaleTyped, ProductIsNat, ProductCancels
    <3>5. t <= (pool * w) \div BPS_DENOM
      BY <3>2, <3>4, ScaleTyped, ProductIsNat, QuotientAtLeast
    <3>6. QED
      BY <3>5 DEF a, t
  <2>7. QED
    BY <2>2, <2>5, <2>6 DEF Share
<1>5. QED
  BY <1>2, <1>3, <1>4

LEMMA CapacityTyped ==
    ASSUME NEW bond \in Nat, NEW ratio_bps \in Nat \ {0}, NEW haircut_bps \in Nat
    PROVE  BondCapacity(bond, ratio_bps, haircut_bps) \in Nat
<1>1. SatSub(BPS_DENOM, haircut_bps) \in Nat
  BY ScaleTyped, SatSubTyped
<1>2. bond * SatSub(BPS_DENOM, haircut_bps) \in Nat
  BY <1>1, ProductIsNat
<1>3. QED
  BY <1>2, FloorOfQuotient DEF BondCapacity

(* What the turnover cap lets through still fits under it. *)
LEMMA MeteredFits ==
    ASSUME NEW desired \in Nat, NEW used \in Nat, NEW pool \in Nat, NEW cap_bps \in Nat
    PROVE  LET size == ApplyTurnoverCap(desired, used, pool, cap_bps)
           IN  /\ size \in Nat /\ size <= desired
               /\ size > 0 => used + size <= Share(pool, cap_bps)
<1>1. Share(pool, cap_bps) \in Nat
  BY ShareTyped
<1>2. QED
  BY <1>1 DEF ApplyTurnoverCap, Lesser, SatSub

-----------------------------------------------------------------------------
(* The ranking of trails.                                                  *)

(* The recursive function behind PrefixSum, up to an index. *)
IsPrefixTable(g, seq, n) ==
    g = [i \in 0..n |-> IF i = 0 THEN 0 ELSE g[i - 1] + seq[i]]

LEMMA PrefixTableExists ==
    ASSUME NEW seq, NEW n \in Nat
    PROVE  \E g : IsPrefixTable(g, seq, n)
<1> DEFINE Bad == {k \in 0..n : ~\E g : IsPrefixTable(g, seq, k)}
<1>1. SUFFICES ASSUME Bad # {} PROVE FALSE
  OBVIOUS
<1>2. PICK k \in Bad : \A j \in Bad : k <= j
  BY <1>1, LeastIndex
<1>3. k \in Nat /\ k \in 0..n
  OBVIOUS
<1>4. CASE k = 0
  <2> DEFINE h == [i \in 0..0 |-> 0]
  <2>1. IsPrefixTable(h, seq, k)
    BY <1>4 DEF IsPrefixTable
  <2>2. QED
    BY <2>1
<1>5. CASE k # 0
  <2>1. k - 1 \in 0..n /\ k - 1 \notin Bad
    BY <1>2, <1>3, <1>5
  <2>2. PICK g : IsPrefixTable(g, seq, k - 1)
    BY <2>1
  <2> DEFINE last == g[k - 1] + seq[k]
             h == [i \in 0..k |-> IF i = k THEN last ELSE g[i]]
  <2>3. ASSUME NEW i \in 0..k
        PROVE  h[i] = IF i = 0 THEN 0 ELSE h[i - 1] + seq[i]
    <3>1. CASE i = 0
      BY <1>3, <1>5, <2>2, <3>1 DEF IsPrefixTable
    <3>2. CASE i = k
      <4>1. k - 1 \in 0..k /\ k - 1 # k
        BY <1>3, <1>5
      <4>2. h[i] = last /\ h[i - 1] = g[k - 1]
        BY <3>2, <4>1
      <4>3. QED
        BY <1>5, <3>2, <4>2
    <3>3. CASE i # 0 /\ i # k
      <4>1. i \in 0..(k - 1) /\ i - 1 \in 0..k /\ i - 1 # k
        BY <1>3, <3>3
      <4>2. h[i] = g[i] /\ h[i - 1] = g[i - 1]
        BY <3>3, <4>1
      <4>3. g[i] = g[i - 1] + seq[i]
        BY <2>2, <3>3, <4>1 DEF IsPrefixTable
      <4>4. QED
        BY <3>3, <4>2, <4>3
    <3>4. QED
      BY <3>1, <3>2, <3>3
  <2>4. h = [i \in 0..k |-> IF i = 0 THEN 0 ELSE h[i - 1] + seq[i]]
    <3>1. h = [i \in 0..k |-> h[i]]
      OBVIOUS
    <3> HIDE DEF h
    <3>2. QED
      BY <2>3, <3>1
  <2>5. IsPrefixTable(h, seq, k)
    <3> HIDE DEF h
    <3>1. QED
      BY <2>4 DEF IsPrefixTable
  <2>6. QED
    BY <2>5
<1>6. QED
  BY <1>4, <1>5

LEMMA PrefixStep ==
    ASSUME NEW seq, Len(seq) \in Nat, NEW n \in 0..Len(seq)
    PROVE  PrefixSum(seq, n) = IF n = 0 THEN 0 ELSE PrefixSum(seq, n - 1) + seq[n]
<1> DEFINE sum == CHOOSE g : g = [i \in 0..Len(seq) |-> IF i = 0 THEN 0 ELSE g[i - 1] + seq[i]]
<1>1. \E g : g = [i \in 0..Len(seq) |-> IF i = 0 THEN 0 ELSE g[i - 1] + seq[i]]
  BY PrefixTableExists DEF IsPrefixTable
<1>2. sum = [i \in 0..Len(seq) |-> IF i = 0 THEN 0 ELSE sum[i - 1] + seq[i]]
  BY <1>1
<1>3. \A k : PrefixSum(seq, k) = sum[k]
  BY DEF PrefixSum
<1> HIDE DEF sum
<1>4. sum[n] = IF n = 0 THEN 0 ELSE sum[n - 1] + seq[n]
  BY <1>2
<1>5. QED
  BY <1>3, <1>4

LEMMA PrefixTyped ==
    ASSUME NEW seq \in Seq(Nat), NEW n \in 0..Len(seq)
    PROVE  PrefixSum(seq, n) \in Nat
<1> DEFINE Bad == {k \in 0..Len(seq) : PrefixSum(seq, k) \notin Nat}
<1>1. SUFFICES ASSUME Bad # {} PROVE FALSE
  OBVIOUS
<1>2. Len(seq) \in Nat
  OBVIOUS
<1>3. PICK k \in Bad : \A j \in Bad : k <= j
  BY <1>1, <1>2, LeastIndex
<1>4. CASE k = 0
  BY <1>2, <1>4, PrefixStep
<1>5. CASE k # 0
  <2>1. k - 1 \in 0..Len(seq) /\ k - 1 \notin Bad
    BY <1>2, <1>3, <1>5
  <2>2. PrefixSum(seq, k - 1) \in Nat /\ seq[k] \in Nat
    BY <1>2, <1>5, <2>1
  <2>3. QED
    BY <1>2, <1>5, <2>2, PrefixStep
<1>6. QED
  BY <1>4, <1>5

(* The level once the first m trails of the ranking are capped. *)
LeavesAfter(lv, m, total, top, w) ==
    lv = [remaining_bps |-> BPS_DENOM - m * w, rest_sum |-> SatSub(total, PrefixSum(top, m))]

(* solve_cap_level: the walk over the ranking always stops somewhere, with   *)
(* something left of the whole.                                             *)
LEMMA LevelShape ==
    ASSUME NEW total \in Nat, NEW top \in Seq(Nat), NEW active_count \in Nat, NEW w \in Nat
    PROVE  \E m \in 0..Len(top) :
              /\ LeavesAfter(SolveCapLevel(total, top, active_count, w), m, total, top, w)
              /\ BPS_DENOM - m * w \in 0..BPS_DENOM
<1>1. CASE total = 0 \/ active_count = 0 \/ w = 0
  <2>1. SolveCapLevel(total, top, active_count, w)
          = [remaining_bps |-> BPS_DENOM, rest_sum |-> total]
    BY <1>1 DEF SolveCapLevel
  <2>2. Len(top) \in Nat /\ 0 \in 0..Len(top)
    OBVIOUS
  <2>3. PrefixSum(top, 0) = 0
    BY <2>2, PrefixStep
  <2>4. BPS_DENOM - 0 * w = BPS_DENOM /\ BPS_DENOM \in 0..BPS_DENOM
    BY ScaleTyped
  <2>5. SatSub(total, PrefixSum(top, 0)) = total
    BY <2>3 DEF SatSub
  <2>6. LeavesAfter(SolveCapLevel(total, top, active_count, w), 0, total, top, w)
    BY <2>1, <2>4, <2>5 DEF LeavesAfter
  <2>7. QED
    BY <2>2, <2>4, <2>6
<1>2. CASE ~(total = 0 \/ active_count = 0 \/ w = 0)
  <2> DEFINE max_m == Lesser(Lesser((BPS_DENOM - 1) \div w, Len(top)), active_count)
             Stops(m) == /\ \A k \in 0..(m - 1) : AdmitsCapped(total, top, k, w)
                         /\ m = max_m \/ ~AdmitsCapped(total, top, m, w)
             capped == CHOOSE m \in 0..max_m : Stops(m)
  <2>1. /\ (BPS_DENOM - 1) \div w \in Nat
        /\ ((BPS_DENOM - 1) \div w) * w <= BPS_DENOM - 1
    BY <1>2, ScaleTyped, FloorOfQuotient
  <2>2. max_m \in Nat /\ max_m <= (BPS_DENOM - 1) \div w /\ max_m <= Len(top)
    BY <2>1, LesserTyped DEF Lesser
  <2>3. \E m \in 0..max_m : Stops(m)
    <3> DEFINE Halt == {m \in 0..max_m : m = max_m \/ ~AdmitsCapped(total, top, m, w)}
    <3> HIDE DEF max_m
    <3>1. Halt \subseteq 0..max_m /\ max_m \in Halt
      BY <2>2
    <3>2. PICK m \in Halt : \A k \in Halt : m <= k
      <4> HIDE DEF Halt
      <4>1. QED
        BY <2>2, <3>1, LeastIndex
    <3>3. ASSUME NEW k \in 0..(m - 1)
          PROVE  AdmitsCapped(total, top, k, w)
      <4>1. k \in 0..max_m /\ ~(m <= k)
        BY <2>2, <3>1
      <4>2. QED
        BY <3>2, <4>1
    <3>4. QED
      BY <3>1, <3>3
  <2>4. capped \in 0..max_m
    <3> HIDE DEF max_m, Stops
    <3>1. QED
      BY <2>3
  <2>5. SolveCapLevel(total, top, active_count, w)
          = [remaining_bps |-> BPS_DENOM - capped * w,
             rest_sum |-> SatSub(total, PrefixSum(top, capped))]
    BY <1>2 DEF SolveCapLevel
  <2> HIDE DEF capped
  <2>6. capped \in 0..Len(top)
    <3> HIDE DEF max_m
    <3>1. QED
      BY <2>2, <2>4
  <2>7. BPS_DENOM - capped * w \in 0..BPS_DENOM
    <3> DEFINE most == (BPS_DENOM - 1) \div w
    <3> HIDE DEF max_m, most
    <3>1. capped \in Nat /\ capped <= most /\ most \in Nat
      BY <2>1, <2>2, <2>4 DEF most
    <3>2. capped * w \in Nat /\ capped * w <= most * w
      <4>1. w * capped <= w * most
        BY <3>1, ProductGrows
      <4>2. QED
        BY <3>1, <4>1, ProductIsNat
    <3>3. most * w <= BPS_DENOM - 1 /\ most * w \in Nat
      BY <2>1, <3>1, ProductIsNat DEF most
    <3>4. QED
      BY <3>2, <3>3, ScaleTyped
  <2>8. QED
    BY <2>5, <2>6, <2>7 DEF LeavesAfter
<1>3. QED
  BY <1>1, <1>2

LEMMA LevelTyped ==
    ASSUME NEW total \in Nat, NEW top \in Seq(Nat), NEW active_count \in Nat, NEW w \in Nat
    PROVE  SolveCapLevel(total, top, active_count, w)
             \in [remaining_bps : 0..BPS_DENOM, rest_sum : Nat]
<1> DEFINE lv == SolveCapLevel(total, top, active_count, w)
<1>1. PICK m \in 0..Len(top) :
         LeavesAfter(lv, m, total, top, w) /\ BPS_DENOM - m * w \in 0..BPS_DENOM
  BY LevelShape
<1> HIDE DEF lv
<1>2. SatSub(total, PrefixSum(top, m)) \in Nat
  BY PrefixTyped, SatSubTyped
<1>3. lv \in [remaining_bps : 0..BPS_DENOM, rest_sum : Nat]
  BY <1>1, <1>2 DEF LeavesAfter
<1>4. QED
  BY <1>3 DEF lv

(* What top_insert makes of a board: one slot takes the new trail, those     *)
(* after it move down one, and what no longer fits is dropped.              *)
IsInsertion(board, top, value, len) ==
    /\ Len(board) = Lesser(Len(top) + 1, len)
    /\ \E pos \in 1..(Len(top) + 1) : \A i \in 1..Len(board) :
          board[i] = IF i < pos THEN top[i] ELSE IF i = pos THEN value ELSE top[i - 1]

LEMMA InsertedBoard ==
    ASSUME NEW S, S \subseteq Int, NEW top \in Seq(S), NEW value \in S, NEW len \in Nat
    PROVE  /\ TopInsert(top, value, len) \in Seq(S)
           /\ IsInsertion(TopInsert(top, value, len), top, value, len)
<1> DEFINE Lands(p) == /\ \A i \in 1..(p - 1) : value <= top[i]
                       /\ p = Len(top) + 1 \/ value > top[p]
           pos == CHOOSE p \in 1..(Len(top) + 1) : Lands(p)
           before == SubSeq(top, 1, pos - 1)
           after == SubSeq(top, pos, Len(top))
           longer == before \o <<value>> \o after
<1>1. Len(top) \in Nat /\ (\A i \in 1..Len(top) : top[i] \in S /\ top[i] \in Int)
      /\ value \in Int
  <2>1. Len(top) \in Nat /\ (\A i \in 1..Len(top) : top[i] \in S)
    OBVIOUS
  <2>2. QED
    BY <2>1
<1>2. \E p \in 1..(Len(top) + 1) : Lands(p)
  <2> DEFINE Room == {p \in 1..(Len(top) + 1) : p = Len(top) + 1 \/ value > top[p]}
  <2>1. Room \subseteq 0..(Len(top) + 1) /\ Len(top) + 1 \in Room
    BY <1>1
  <2>2. PICK p \in Room : \A k \in Room : p <= k
    <3> DEFINE last == Len(top) + 1
    <3>1. last \in Nat /\ Room \subseteq 0..last /\ Room # {}
      BY <1>1, <2>1
    <3> HIDE DEF Room, last
    <3>2. QED
      BY <3>1, LeastIndex
  <2>3. ASSUME NEW i \in 1..(p - 1)
        PROVE  value <= top[i]
    <3>1. i \in 1..Len(top) /\ ~(p <= i)
      BY <1>1, <2>1
    <3>2. i \notin Room
      BY <2>2, <3>1
    <3>3. QED
      BY <1>1, <3>1, <3>2
  <2>4. QED
    BY <2>1, <2>3
<1>3. pos \in 1..(Len(top) + 1)
  <2> HIDE DEF Lands
  <2>1. QED
    BY <1>2
<1>4. TopInsert(top, value, len) = SubSeq(longer, 1, Lesser(Len(longer), len))
  BY DEF TopInsert
<1> HIDE DEF pos
<1>5. /\ before \in Seq(S) /\ Len(before) = pos - 1
      /\ \A i \in 1..(pos - 1) : before[i] = top[i]
  <2>1. \A i \in 1..(pos - 1) : top[i] \in S
    BY <1>1, <1>3
  <2>2. /\ before \in Seq(S)
        /\ Len(before) = IF 1 <= pos - 1 THEN pos - 1 - 1 + 1 ELSE 0
        /\ \A i \in 1..(pos - 1 - 1 + 1) : before[i] = top[1 + i - 1]
    BY <1>1, <1>3, <2>1, SubSeqProperties
  <2>3. QED
    BY <1>1, <1>3, <2>2
<1>6. /\ after \in Seq(S) /\ Len(after) = Len(top) - pos + 1
      /\ \A i \in 1..(Len(top) - pos + 1) : after[i] = top[pos + i - 1]
  <2>1. \A i \in pos..Len(top) : top[i] \in S
    BY <1>1, <1>3
  <2>2. /\ after \in Seq(S)
        /\ Len(after) = IF pos <= Len(top) THEN Len(top) - pos + 1 ELSE 0
        /\ \A i \in 1..(Len(top) - pos + 1) : after[i] = top[pos + i - 1]
    BY <1>1, <1>3, <2>1, SubSeqProperties
  <2>3. QED
    BY <1>1, <1>3, <2>2
<1> HIDE DEF before, after
<1>7. /\ before \o <<value>> \in Seq(S) /\ Len(before \o <<value>>) = pos
      /\ \A i \in 1..pos : (before \o <<value>>)[i] = IF i < pos THEN top[i] ELSE value
  <2>1. <<value>> \in Seq(S) /\ Len(<<value>>) = 1 /\ <<value>>[1] = value
    OBVIOUS
  <2>2. /\ before \o <<value>> \in Seq(S)
        /\ Len(before \o <<value>>) = Len(before) + Len(<<value>>)
        /\ \A i \in 1..(Len(before) + Len(<<value>>)) :
              (before \o <<value>>)[i] = IF i <= Len(before) THEN before[i]
                                        ELSE <<value>>[i - Len(before)]
    BY <1>5, <2>1, ConcatProperties
  <2>3. Len(before) + Len(<<value>>) = pos /\ pos \in Nat
    BY <1>1, <1>3, <1>5, <2>1
  <2>4. ASSUME NEW i \in 1..pos
        PROVE  (before \o <<value>>)[i] = IF i < pos THEN top[i] ELSE value
    <3>1. (before \o <<value>>)[i] = IF i <= Len(before) THEN before[i]
                                    ELSE <<value>>[i - Len(before)]
      BY <2>2, <2>3
    <3>2. CASE i < pos
      <4>1. i <= Len(before) /\ i \in 1..(pos - 1)
        BY <1>5, <2>3, <3>2
      <4>2. QED
        BY <1>5, <3>1, <3>2, <4>1
    <3>3. CASE i = pos
      <4>1. ~(i <= Len(before)) /\ i - Len(before) = 1
        BY <1>5, <2>3, <3>3
      <4>2. QED
        BY <2>1, <3>1, <3>3, <4>1
    <3>4. QED
      BY <2>3, <3>2, <3>3
  <2>5. QED
    BY <2>2, <2>3, <2>4
<1>8. /\ longer \in Seq(S) /\ Len(longer) = Len(top) + 1
      /\ \A i \in 1..(Len(top) + 1) :
            longer[i] = IF i < pos THEN top[i] ELSE IF i = pos THEN value ELSE top[i - 1]
  <2> DEFINE left == before \o <<value>>
  <2>1. /\ longer \in Seq(S) /\ Len(longer) = Len(left) + Len(after)
        /\ \A i \in 1..(Len(left) + Len(after)) :
              longer[i] = IF i <= Len(left) THEN left[i] ELSE after[i - Len(left)]
    <3>1. longer = left \o after
      OBVIOUS
    <3>2. left \in Seq(S) /\ after \in Seq(S)
      BY <1>6, <1>7
    <3> HIDE DEF longer, left
    <3>3. QED
      BY <3>1, <3>2, ConcatProperties
  <2> HIDE DEF left, longer
  <2>2. Len(left) = pos /\ \A i \in 1..pos : left[i] = IF i < pos THEN top[i] ELSE value
    BY <1>7 DEF left
  <2>3. ASSUME NEW i \in 1..(Len(top) + 1)
        PROVE  longer[i] = IF i < pos THEN top[i] ELSE IF i = pos THEN value ELSE top[i - 1]
    <3>1. longer[i] = IF i <= pos THEN left[i] ELSE after[i - pos]
      BY <1>1, <1>3, <1>6, <2>1, <2>2
    <3>2. CASE i <= pos
      BY <1>1, <1>3, <2>2, <3>1, <3>2
    <3>3. CASE i > pos
      <4>1. i - pos \in 1..(Len(top) - pos + 1) /\ pos + (i - pos) - 1 = i - 1
        BY <1>1, <1>3, <3>3
      <4>2. QED
        BY <1>1, <1>3, <1>6, <3>1, <3>3, <4>1
    <3>4. QED
      BY <1>1, <1>3, <3>2, <3>3
  <2>4. QED
    BY <1>1, <1>3, <1>6, <2>1, <2>2, <2>3
<1> HIDE DEF longer
<1> DEFINE kept == Lesser(Len(top) + 1, len)
<1>9. kept \in Nat /\ kept <= Len(top) + 1
  BY <1>1 DEF Lesser
<1>10. TopInsert(top, value, len) = SubSeq(longer, 1, kept)
  BY <1>4, <1>8
<1> HIDE DEF kept
<1>11. /\ SubSeq(longer, 1, kept) \in Seq(S) /\ Len(SubSeq(longer, 1, kept)) = kept
       /\ \A i \in 1..kept : SubSeq(longer, 1, kept)[i] = longer[i]
  <2>1. \A i \in 1..kept : longer[i] \in S
    BY <1>8, <1>9
  <2>2. /\ SubSeq(longer, 1, kept) \in Seq(S)
        /\ Len(SubSeq(longer, 1, kept)) = IF 1 <= kept THEN kept - 1 + 1 ELSE 0
        /\ \A i \in 1..(kept - 1 + 1) : SubSeq(longer, 1, kept)[i] = longer[1 + i - 1]
    BY <1>9, <2>1, SubSeqProperties
  <2>3. QED
    BY <1>9, <2>2
<1>12. QED
  <2> DEFINE board == TopInsert(top, value, len)
  <2>1. /\ board \in Seq(S) /\ Len(board) = kept
        /\ \A i \in 1..Len(board) : board[i] = IF i < pos THEN top[i]
                                    ELSE IF i = pos THEN value ELSE top[i - 1]
    BY <1>1, <1>8, <1>9, <1>10, <1>11
  <2> HIDE DEF board
  <2>2. board \in Seq(S) /\ IsInsertion(board, top, value, len)
    BY <1>3, <2>1 DEF kept, IsInsertion
  <2>3. QED
    BY <2>2 DEF board

(* A board never outgrows its slots. *)
LEMMA BoardTyped ==
    ASSUME NEW S, S \subseteq Int, NEW top \in Seq(S), NEW value \in S, NEW len \in Nat
    PROVE  /\ TopInsert(top, value, len) \in Seq(S)
           /\ Len(TopInsert(top, value, len)) <= len
<1> DEFINE board == TopInsert(top, value, len)
<1>1. Len(top) \in Nat
  OBVIOUS
<1>2. board \in Seq(S) /\ IsInsertion(board, top, value, len)
  BY InsertedBoard
<1> HIDE DEF board
<1>3. board \in Seq(S) /\ Len(board) <= len
  BY <1>1, <1>2 DEF Lesser, IsInsertion
<1>4. QED
  BY <1>3 DEF board
=============================================================================
