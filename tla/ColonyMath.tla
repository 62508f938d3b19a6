----------------------------- MODULE ColonyMath -----------------------------
(***************************************************************************)
(* The integer arithmetic of the program (src/math.rs), one operator per   *)
(* function.  All ratios are in units of 1/BPS_DENOM.  BPS_DENOM is 10000  *)
(* in the program; it is a parameter here so that small instances keep the *)
(* rounding of the code at amounts a model checker can enumerate.          *)
(* An operator named Fault... is a faulty variant of the one below it, used *)
(* only to show that a property would notice (README, mutation testing).    *)
(***************************************************************************)
EXTENDS Integers, Sequences

CONSTANT BPS_DENOM

ASSUME BpsAssumption == BPS_DENOM \in Nat \ {0}

Lesser(a, b) == IF a <= b THEN a ELSE b
Greater(a, b) == IF a >= b THEN a ELSE b

(* u64::saturating_sub *)
SatSub(a, b) == IF a >= b THEN a - b ELSE 0

(* Rust integer division: rounds toward zero. *)
TruncDiv(a, b) == IF a >= 0 THEN a \div b ELSE -((-a) \div b)

(* The part bps of an amount, rounded down. *)
Share(amount, bps) == (amount * bps) \div BPS_DENOM

-----------------------------------------------------------------------------
(* Realized performance and the trail.                                     *)

(* The part of a recorded bond that is still in the sub-account. *)
FaultRecordedBond(bond, vault_balance) == bond
RecoverableBond(bond, vault_balance) == Lesser(bond, vault_balance)

RealizedEpochPnl(vault_balance, bond, principal) ==
    SatSub(vault_balance, bond) - principal

(* Drawdown from the equity high-water mark (computed in settle_forager). *)
DrawdownBps(high_water, equity) ==
    IF high_water = 0 THEN 0
    ELSE Lesser(((high_water - equity) * BPS_DENOM) \div high_water, BPS_DENOM)

ReturnBps(realized, principal) ==
    IF principal = 0 THEN 0 ELSE TruncDiv(realized * BPS_DENOM, principal)

RiskAdjustedPerfBps(r_bps, drawdown_bps, risk_aversion_bps) ==
    r_bps - Share(risk_aversion_bps, drawdown_bps)

(* deposit_fp6 is Q * tanh(perf / s).  The curve is replaced by its         *)
(* saturating straight line: odd, increasing, within -Q..Q.                *)
Deposit(perf_bps, s, q) ==
    TruncDiv(q * (IF perf_bps > s THEN s ELSE IF perf_bps < -s THEN -s ELSE perf_bps), s)

Evaporate(pheromone, rho_bps) == Share(pheromone, BPS_DENOM - rho_bps)

FaultTrailBelowZero(current, deposit, rho_bps, ceil) ==
    Lesser(Evaporate(current, rho_bps) + deposit, ceil)
UpdatePheromone(current, deposit, rho_bps, ceil) ==
    Lesser(Greater(Evaporate(current, rho_bps) + deposit, 0), ceil)

-----------------------------------------------------------------------------
(* Pheromone to weights: bounded water-filling.                            *)

EffectiveMaxWeightBps(w_max_bps, active_count, relax_margin_bps) ==
    IF active_count = 0 THEN w_max_bps
    ELSE Greater(w_max_bps,
                 Lesser((BPS_DENOM \div active_count) + relax_margin_bps, BPS_DENOM))

(* Sum of the first n entries of a sequence of naturals. *)
PrefixSum(seq, n) ==
    LET sum[i \in 0..Len(seq)] == IF i = 0 THEN 0 ELSE sum[i - 1] + seq[i]
    IN  sum[n]

(* The m-th trail (counting from 0) is admitted to the capped set when its  *)
(* share of what the m trails before it left reaches the cap.              *)
AdmitsCapped(total, top, m, w) ==
    LET rest == SatSub(total, PrefixSum(top, m))
    IN  /\ rest # 0
        /\ (BPS_DENOM - m * w) * top[m + 1] >= w * rest

(* solve_cap_level walks the ranking once and stops at the first trail that *)
(* is not admitted.  top is sorted in descending order.                    *)
SolveCapLevel(total, top, active_count, w) ==
    IF total = 0 \/ active_count = 0 \/ w = 0
    THEN [remaining_bps |-> BPS_DENOM, rest_sum |-> total]
    ELSE LET max_m == Lesser(Lesser((BPS_DENOM - 1) \div w, Len(top)), active_count)
             capped == CHOOSE m \in 0..max_m :
                          /\ \A k \in 0..(m - 1) : AdmitsCapped(total, top, k, w)
                          /\ m = max_m \/ ~AdmitsCapped(total, top, m, w)
         IN  [remaining_bps |-> BPS_DENOM - capped * w,
              rest_sum |-> SatSub(total, PrefixSum(top, capped))]

IsCapped(pheromone, level, w) ==
    pheromone # 0 /\ level.remaining_bps * pheromone >= w * level.rest_sum

(* rest_sum is positive wherever it divides: a positive trail against a     *)
(* zero rest_sum is capped.                                                *)
WeightBpsFromLevel(pheromone, level, w) ==
    IF pheromone = 0 THEN 0
    ELSE IF IsCapped(pheromone, level, w) THEN w
    ELSE (level.remaining_bps * pheromone) \div level.rest_sum

AllocationTarget(pheromone, level, pool, w) ==
    IF pheromone = 0 \/ pool = 0 THEN 0
    ELSE IF IsCapped(pheromone, level, w) THEN Share(pool, w)
    ELSE (pool * pheromone * level.remaining_bps) \div (BPS_DENOM * level.rest_sum)

(* Allocation ceiling implied by the posted bond (bond_ratio_bps > 0). *)
BondCapacity(bond, bond_ratio_bps, bond_haircut_bps) ==
    (bond * SatSub(BPS_DENOM, bond_haircut_bps)) \div bond_ratio_bps

(* top_insert: the value goes before the first smaller entry; of more than  *)
(* len entries the last is dropped.                                        *)
TopInsert(top, value, len) ==
    LET pos == CHOOSE p \in 1..(Len(top) + 1) :
                  /\ \A i \in 1..(p - 1) : value <= top[i]
                  /\ p = Len(top) + 1 \/ value > top[p]
        longer == SubSeq(top, 1, pos - 1) \o <<value>> \o SubSeq(top, pos, Len(top))
    IN  SubSeq(longer, 1, Lesser(Len(longer), len))

WithinNoTradeBand(current, target, pool, band_bps) ==
    /\ band_bps # 0 /\ pool # 0
    /\ Greater(current, target) - Lesser(current, target) < Share(pool, band_bps)

FaultCapPerCall(desired, moved_so_far, pool, turnover_cap_bps) ==
    Lesser(desired, Share(pool, turnover_cap_bps))
ApplyTurnoverCap(desired, moved_so_far, pool, turnover_cap_bps) ==
    Lesser(desired, SatSub(Share(pool, turnover_cap_bps), moved_so_far))

(* Rebase the high-water mark across a capital flow (settlement.rs). *)
RescaleHighWater(high_water, before, after) ==
    IF before = 0 THEN after ELSE (high_water * after) \div before

-----------------------------------------------------------------------------
(* Loss coverage, slashing and the cache.                                  *)

(* The waterfall: bond first, then cache, the rest is the depositors' loss. *)
FaultCacheFirst(loss, bond, cache_balance) ==
    LET from_cache == Lesser(loss, cache_balance)
    IN  [from_bond |-> Lesser(loss - from_cache, bond), from_cache |-> from_cache]
CoverLoss(loss, bond, cache_balance) ==
    LET from_bond == Lesser(loss, bond)
        from_cache == Lesser(loss - from_bond, cache_balance)
    IN  [from_bond |-> from_bond, from_cache |-> from_cache]

SlashSplit(bond, slash_bps, burn_share_bps) ==
    LET slashed == Share(bond, slash_bps)
        burn == Share(slashed, burn_share_bps)
    IN  [slashed |-> slashed, burn |-> burn, to_cache |-> slashed - burn]

(* Zero at or under the threshold, the whole bond at twice the threshold.   *)
LossSlashBps(drawdown_bps, dd_slash_bps) ==
    IF drawdown_bps <= dd_slash_bps \/ dd_slash_bps = 0 THEN 0
    ELSE Lesser(((drawdown_bps - dd_slash_bps) * BPS_DENOM) \div dd_slash_bps, BPS_DENOM)

CacheAccrual(profit, cache_accrual_bps) == Share(profit, cache_accrual_bps)
=============================================================================
