---------------------------- MODULE ColonyProofs ----------------------------
(***************************************************************************)
(* What the colony keeps about its money, for every set of foragers, every   *)
(* set of parameters validate accepts and all amounts.                      *)
(***************************************************************************)
EXTENDS Colony, ColonyMathProofs

(* The variables that are naturals, one by one. *)
LEMMA CountersTyped ==
    ASSUME TypeOK
    PROVE  /\ epoch \in Nat /\ settling_epoch \in Nat
           /\ settleable_forager_count \in Nat /\ settled_count \in Nat
           /\ active_count_acc \in Nat /\ active_forager_count \in Nat
           /\ pheromone_sum_acc \in Nat /\ allocatable_pool \in Nat /\ scout_pool \in Nat
           /\ epoch_turnover_used \in Nat
           /\ idle_base \in Nat /\ outstanding_principal \in Nat /\ cache_balance \in Nat
           /\ vault_base \in Nat /\ cache_vault \in Nat /\ nav \in Nat
<1>1. {epoch, settling_epoch, settleable_forager_count, settled_count, active_count_acc,
       active_forager_count, pheromone_sum_acc, allocatable_pool, scout_pool,
       epoch_turnover_used, idle_base, outstanding_principal, cache_balance,
       vault_base, cache_vault} \subseteq Nat
  BY Zenon DEF TypeOK
<1>2. /\ epoch \in Nat /\ settling_epoch \in Nat
      /\ settleable_forager_count \in Nat /\ settled_count \in Nat
      /\ active_count_acc \in Nat /\ active_forager_count \in Nat
      /\ pheromone_sum_acc \in Nat /\ allocatable_pool \in Nat /\ scout_pool \in Nat
      /\ epoch_turnover_used \in Nat
      /\ idle_base \in Nat /\ outstanding_principal \in Nat /\ cache_balance \in Nat
      /\ vault_base \in Nat /\ cache_vault \in Nat
  BY <1>1
<1>3. nav \in Nat
  BY <1>2 DEF nav
<1>4. QED
  BY <1>2, <1>3

LEMMA LevelFields ==
    ASSUME TypeOK
    PROVE  level.remaining_bps \in 0..BPS_DENOM /\ level.rest_sum \in Nat
BY DEF TypeOK

(* The fields of a forager record, and the sub-account. *)
LEMMA RecordTyped ==
    ASSUME TypeOK, NEW f \in Forager
    PROVE  /\ forager[f] \in ForagerRecord
           /\ forager[f].status \in Lifecycle \cup {None}
           /\ forager[f].bond \in Nat /\ forager[f].principal \in Nat
           /\ forager[f].pheromone \in 0..PHEROMONE_CEIL
           /\ forager[f].high_water \in Nat
           /\ forager[f].current_drawdown_bps \in 0..BPS_DENOM
           /\ forager[f].last_settled_epoch \in Nat /\ forager[f].last_scout_epoch \in Nat
           /\ forager[f].scout_epochs \in Nat /\ forager[f].realized_epochs \in Nat
           /\ forager[f].scout_perf_cum_bps \in Int
           /\ forager[f].realized_pnl_cumulative \in Int
           /\ forager_vault[f] \in Nat
<1>1. forager[f] \in ForagerRecord /\ forager_vault[f] \in Nat
  BY DEF TypeOK
<1>2. QED
  BY <1>1 DEF ForagerRecord

-----------------------------------------------------------------------------
(* The sum of the principals.                                              *)

LEMMA PrincipalsTyped ==
    ASSUME TypeOK
    PROVE  /\ IsFiniteSet(Forager)
           /\ \A f \in Forager : principals[f] \in Nat /\ principals[f] = forager[f].principal
           /\ SumFunctionOnSet(principals, Forager) \in Nat
           /\ \A f \in Forager : forager[f].principal <= SumFunctionOnSet(principals, Forager)
<1>1. IsFiniteSet(Forager)
  BY ForagerAssumption
<1>2. \A f \in Forager : principals[f] \in Nat /\ principals[f] = forager[f].principal
  BY RecordTyped DEF principals
<1>3. /\ SumFunctionOnSet(principals, Forager) \in Nat
      /\ \A f \in Forager : principals[f] <= SumFunctionOnSet(principals, Forager)
  <2> HIDE DEF principals
  <2>1. QED
    BY <1>1, <1>2, SumNat, SumBoundsElement
<1>4. QED
  BY <1>1, <1>2, <1>3

(* A change of one forager's principal moves the sum by as much. *)
LEMMA PrincipalMoves ==
    ASSUME TypeOK, NEW f \in Forager, NEW held \in Nat, forager'[f].principal = held,
           \A g \in Forager \ {f} : forager'[g] = forager[g]
    PROVE  SumFunctionOnSet(principals', Forager)
             = SumFunctionOnSet(principals, Forager) - forager[f].principal + held
<1>1. \A g \in Forager \ {f} : principals'[g] = principals[g]
  BY DEF principals
<1>2. principals'[f] = held /\ principals[f] = forager[f].principal
  BY DEF principals
<1>3. IsFiniteSet(Forager) /\ (\A g \in Forager : principals[g] \in Int)
  BY PrincipalsTyped
<1> DEFINE before == principals
           after == principals'
<1>4. SumFunctionOnSet(after, Forager)
        = SumFunctionOnSet(before, Forager) - before[f] + after[f]
  <2>1. /\ \A g \in Forager \ {f} : after[g] = before[g]
        /\ \A g \in Forager : before[g] \in Int
        /\ after[f] \in Int
    BY <1>1, <1>2, <1>3
  <2> HIDE DEF before, after
  <2>2. QED
    BY <1>3, <2>1, SumUpdate
<1>5. QED
  BY <1>2, <1>4

LEMMA PrincipalsKept ==
    ASSUME \A g \in Forager : forager'[g].principal = forager[g].principal
    PROVE  principals' = principals
BY DEF principals

(* The parameters in force, whatever was edited. *)
LEMMA ConfigInForce ==
    ASSUME TypeOK
    PROVE  /\ config.rho_bps \in 0..BPS_DENOM
           /\ config.perf_norm_s_bps \in Nat \ {0}
           /\ config.risk_aversion_bps \in Nat
           /\ config.w_max_bps \in Nat
           /\ config.scout_budget_bps \in Nat
           /\ config.turnover_cap_bps \in Nat
           /\ config.bond_ratio_bps \in Nat \ {0}
           /\ config.bond_haircut_bps \in Nat
           /\ config.dd_slash_bps \in Nat
           /\ config.slash_burn_bps \in 0..BPS_DENOM
           /\ config.cache_accrual_bps \in 0..BPS_DENOM
           /\ config.scout_ticket_base_units \in Nat \ {0}
           /\ config.min_bond \in Nat \ {0}
           /\ config.deposit_scale_q \in Nat
           /\ config.promote_tau_seed_cap \in Nat
<1>1. Validate(config)
  BY DEF TypeOK
<1>2. /\ config.rho_bps \in 0..BPS_DENOM /\ config.slash_burn_bps \in 0..BPS_DENOM
      /\ config.cache_accrual_bps \in 0..BPS_DENOM /\ config.scout_budget_bps \in 0..BPS_DENOM
      /\ config.turnover_cap_bps \in 0..BPS_DENOM /\ config.bond_haircut_bps \in 0..BPS_DENOM
  BY <1>1, ConfigTyped
<1>3. 0..BPS_DENOM \subseteq Nat
  BY ScaleTyped
<1>4. /\ config.perf_norm_s_bps \in Nat \ {0} /\ config.risk_aversion_bps \in Nat
      /\ config.w_max_bps \in Nat /\ config.bond_ratio_bps \in Nat \ {0}
      /\ config.dd_slash_bps \in Nat /\ config.scout_ticket_base_units \in Nat \ {0}
      /\ config.min_bond \in Nat \ {0} /\ config.deposit_scale_q \in Nat \ {0}
      /\ config.promote_tau_seed_cap \in Nat
  BY <1>1, ConfigTyped
<1>5. QED
  BY <1>2, <1>3, <1>4

-----------------------------------------------------------------------------
(* What a settlement computes.                                             *)

LEMMA MeasuredTyped ==
    ASSUME TypeOK, NEW f \in Forager
    PROVE  /\ Measured(f).bond \in 0..forager[f].bond
           /\ Measured(f).equity \in Nat
           /\ Measured(f).bond + Measured(f).equity = forager_vault[f]
           /\ Measured(f).realized = Measured(f).equity - forager[f].principal
           /\ Measured(f).realized \in Int
           /\ Measured(f).high_water \in Nat
           /\ Measured(f).drawdown_bps \in 0..BPS_DENOM
           /\ Measured(f).perf_bps \in Int
           /\ Measured(f).pheromone \in 0..PHEROMONE_CEIL
<1> DEFINE r == forager[f]
           bond == RecoverableBond(r.bond, forager_vault[f])
           equity == SatSub(forager_vault[f], bond)
           realized == Realized(f, bond)
           high_water == Greater(r.high_water, equity)
           drawdown == DrawdownBps(high_water, equity)
           perf == RiskAdjustedPerfBps(ReturnBps(realized, r.principal), drawdown,
                                       config.risk_aversion_bps)
           deposit == Deposit(perf, config.perf_norm_s_bps, config.deposit_scale_q)
<1>1. /\ Measured(f).bond = bond /\ Measured(f).equity = equity
      /\ Measured(f).realized = realized /\ Measured(f).high_water = high_water
      /\ Measured(f).drawdown_bps = drawdown /\ Measured(f).perf_bps = perf
      /\ Measured(f).pheromone
           = UpdatePheromone(r.pheromone, deposit, config.rho_bps, PHEROMONE_CEIL)
  BY DEF Measured
<1>2. /\ r.bond \in Nat /\ r.principal \in Nat /\ r.high_water \in Nat
      /\ r.pheromone \in Nat /\ forager_vault[f] \in Nat
  BY RecordTyped
<1>3. /\ config.rho_bps \in 0..BPS_DENOM /\ config.perf_norm_s_bps \in Nat \ {0}
      /\ config.risk_aversion_bps \in Nat /\ config.deposit_scale_q \in Nat
  BY ConfigInForce
<1> HIDE DEF r
<1>4. bond \in Nat /\ bond <= r.bond /\ bond <= forager_vault[f]
  BY <1>2 DEF RecoverableBond, Lesser
<1> HIDE DEF bond
<1>5. equity \in Nat /\ equity = forager_vault[f] - bond
  BY <1>2, <1>4 DEF SatSub
<1> HIDE DEF equity
<1>6. realized = equity - r.principal
  BY DEF Realized, RealizedEpochPnl, equity, r
<1>7. realized \in Int
  BY <1>2, <1>5, <1>6
<1>8. high_water \in Nat /\ equity <= high_water
  BY <1>2, <1>5 DEF Greater
<1> HIDE DEF realized, high_water
<1>9. drawdown \in 0..BPS_DENOM
  BY <1>5, <1>8, DrawdownTyped
<1> HIDE DEF drawdown
<1>10. perf \in Int
  <2>1. drawdown \in Nat
    BY <1>9, ScaleTyped
  <2>2. QED
    BY <1>2, <1>3, <1>7, <2>1, PerfTyped DEF perf
<1> HIDE DEF perf
<1>11. deposit \in Int
  BY <1>3, <1>10, DepositTyped
<1> HIDE DEF deposit
<1>12. UpdatePheromone(r.pheromone, deposit, config.rho_bps, PHEROMONE_CEIL)
         \in 0..PHEROMONE_CEIL
  BY <1>2, <1>3, <1>11, TrailTyped, ParamsAssumption
<1>13. QED
  BY <1>1, <1>2, <1>4, <1>5, <1>6, <1>7, <1>8, <1>9, <1>10, <1>12 DEF r

(* The cover of a measured loss. *)
LEMMA WaterfallTyped ==
    ASSUME TypeOK, NEW f \in Forager
    PROVE  LET m == Measured(f)
               w == Waterfall(m)
           IN  /\ w.from_bond \in 0..m.bond /\ w.from_cache \in 0..cache_balance
               /\ m.realized >= 0 => w.from_bond = 0 /\ w.from_cache = 0
               /\ m.realized < 0 => w.from_bond + w.from_cache <= -m.realized
               /\ w.from_cache > 0 => w.from_bond = m.bond
               /\ m.realized + w.from_bond + w.from_cache < 0
                    => w.from_bond = m.bond /\ w.from_cache = cache_balance
<1> DEFINE m == Measured(f)
           w == Waterfall(m)
<1>1. m.bond \in Nat /\ m.realized \in Int /\ cache_balance \in Nat
  BY MeasuredTyped, CountersTyped
<1> HIDE DEF m
<1>2. CASE m.realized < 0
  <2>1. -m.realized \in Nat /\ w = CoverLoss(-m.realized, m.bond, cache_balance)
    BY <1>1, <1>2 DEF Waterfall
  <2> HIDE DEF w
  <2>2. /\ w.from_bond \in 0..m.bond /\ w.from_cache \in 0..cache_balance
        /\ w.from_bond + w.from_cache <= -m.realized
        /\ w.from_cache > 0 => w.from_bond = m.bond
        /\ w.from_bond + w.from_cache < -m.realized
             => w.from_bond = m.bond /\ w.from_cache = cache_balance
    BY ZenonT(60), <1>1, <2>1, CoverBounds
  <2>3. m.realized + w.from_bond + w.from_cache < 0
          => w.from_bond = m.bond /\ w.from_cache = cache_balance
    BY <1>1, <2>2
  <2>4. ~(m.realized >= 0)
    BY <1>1, <1>2
  <2>5. QED
    BY <2>2, <2>3, <2>4 DEF w, m
<1>3. CASE ~(m.realized < 0)
  <2>1. w.from_bond = 0 /\ w.from_cache = 0
    BY <1>3 DEF Waterfall
  <2> HIDE DEF w
  <2>2. QED
    BY <1>1, <1>3, <2>1 DEF w, m
<1>4. QED
  BY <1>2, <1>3

(* The accrual is a part of the profit that is there. *)
LEMMA AccrualTyped ==
    ASSUME TypeOK, NEW f \in Forager
    PROVE  LET m == Measured(f)
               accrual == Accrual(f, m)
           IN  /\ accrual \in 0..m.equity
               /\ accrual > 0 => m.realized > 0 /\ accrual <= m.realized
<1> DEFINE m == Measured(f)
<1>1. m.equity \in Nat /\ m.realized \in Int
  BY MeasuredTyped
<1>2. config.cache_accrual_bps \in Nat /\ config.cache_accrual_bps <= BPS_DENOM
  BY ConfigInForce, ScaleTyped
<1> HIDE DEF m
<1>3. CASE Accrual(f, m) = 0
  BY <1>1, <1>3 DEF m
<1>4. CASE Accrual(f, m) # 0
  <2>1. /\ m.realized > 0
        /\ Accrual(f, m) = Lesser(CacheAccrual(m.realized, config.cache_accrual_bps), m.equity)
    BY <1>4 DEF Accrual
  <2>2. m.realized \in Nat
    BY <1>1, <2>1
  <2>3. /\ CacheAccrual(m.realized, config.cache_accrual_bps) \in Nat
        /\ CacheAccrual(m.realized, config.cache_accrual_bps) <= m.realized
    BY <1>2, <2>2, ShareTyped DEF CacheAccrual
  <2>4. QED
    BY <1>1, <2>1, <2>2, <2>3, LesserTyped DEF m
<1>5. QED
  BY <1>3, <1>4

(* The record a settlement writes back. *)
LEMMA SettledTyped ==
    ASSUME TypeOK, NEW f \in Forager, forager[f].status # None, forager[f].status # "Retired"
    PROVE  LET m == Measured(f)
               r == SettledRecord(f, m)
           IN  /\ r \in ForagerRecord
               /\ r.status \in Lifecycle \ {"Retired"}
               /\ r.bond = m.bond - Waterfall(m).from_bond
               /\ r.principal = m.equity - Accrual(f, m)
               /\ r.last_settled_epoch = settling_epoch
               /\ r.last_scout_epoch = forager[f].last_scout_epoch
<1> DEFINE m == Measured(f)
           accrual == Accrual(f, m)
           w == Waterfall(m)
           high_water == IF accrual > 0
                         THEN RescaleHighWater(m.high_water, m.equity, m.equity - accrual)
                         ELSE m.high_water
           scouting == IF forager[f].status = "Scout" THEN 1 ELSE 0
           r == SettledRecord(f, m)
<1>1. /\ m.bond \in Nat /\ m.equity \in Nat /\ m.realized \in Int /\ m.high_water \in Nat
      /\ m.drawdown_bps \in 0..BPS_DENOM /\ m.perf_bps \in Int
      /\ m.pheromone \in 0..PHEROMONE_CEIL
  BY MeasuredTyped, RecordTyped
<1>2. accrual \in 0..m.equity /\ w.from_bond \in 0..m.bond
  BY AccrualTyped, WaterfallTyped
<1>3. StatusAfter(forager[f].status, m) \in Lifecycle \ {"Retired"}
  BY RecordTyped DEF StatusAfter, StatusBeforeDemotion, Lifecycle
<1>4. /\ forager[f] \in ForagerRecord
      /\ forager[f].scout_epochs \in Nat /\ forager[f].realized_epochs \in Nat
      /\ forager[f].scout_perf_cum_bps \in Int /\ forager[f].realized_pnl_cumulative \in Int
      /\ forager[f].last_scout_epoch \in Nat
      /\ settling_epoch \in Nat
  BY RecordTyped, CountersTyped
<1> HIDE DEF m, accrual, w
<1>5. high_water \in Nat
  BY <1>1, <1>2, MarkTyped
<1> HIDE DEF high_water
<1>6. r = [forager[f] EXCEPT
            !.status = StatusAfter(@, m), !.bond = m.bond - w.from_bond,
            !.principal = m.equity - accrual, !.pheromone = m.pheromone,
            !.high_water = high_water, !.current_drawdown_bps = m.drawdown_bps,
            !.last_settled_epoch = settling_epoch, !.scout_epochs = @ + scouting,
            !.scout_perf_cum_bps = @ + scouting * m.perf_bps,
            !.realized_epochs = @ + (IF m.realized # 0 THEN 1 ELSE 0),
            !.realized_pnl_cumulative = @ + m.realized]
  BY DEF SettledRecord, accrual, w, high_water
<1>7. /\ forager[f].scout_epochs + scouting \in Nat
      /\ forager[f].scout_perf_cum_bps + scouting * m.perf_bps \in Int
      /\ forager[f].realized_epochs + (IF m.realized # 0 THEN 1 ELSE 0) \in Nat
      /\ forager[f].realized_pnl_cumulative + m.realized \in Int
      /\ m.bond - w.from_bond \in Nat /\ m.equity - accrual \in Nat
  BY <1>1, <1>2, <1>4
<1> HIDE DEF scouting, r
<1>8. r \in ForagerRecord
  BY ZenonT(60), <1>1, <1>3, <1>4, <1>5, <1>6, <1>7 DEF ForagerRecord
<1>9. /\ r.status = StatusAfter(forager[f].status, m)
      /\ r.bond = m.bond - w.from_bond
      /\ r.principal = m.equity - accrual
      /\ r.last_settled_epoch = settling_epoch
      /\ r.last_scout_epoch = forager[f].last_scout_epoch
  BY <1>4, <1>6 DEF ForagerRecord
<1>10. QED
  BY <1>3, <1>8, <1>9 DEF m, accrual, w, r

(* settle_forager never asks an account for more than it holds. *)
LEMMA SettlementCovered ==
    ASSUME TypeOK, CountersBacked, NEW f \in Forager
    PROVE  SettlePayable(f)
<1> DEFINE m == Measured(f)
           w == Waterfall(m)
           accrual == Accrual(f, m)
<1>1. /\ w.from_bond \in 0..m.bond /\ w.from_cache \in 0..cache_balance
      /\ accrual \in 0..m.equity
      /\ m.bond + m.equity = forager_vault[f] /\ m.equity \in Nat /\ m.bond \in Nat
  BY WaterfallTyped, AccrualTyped, MeasuredTyped, RecordTyped
<1>2. cache_vault = cache_balance /\ cache_balance \in Nat
  BY CountersTyped DEF CountersBacked
<1> HIDE DEF m, w, accrual
<1>3. w.from_bond + accrual <= forager_vault[f] /\ w.from_cache <= cache_vault
  BY <1>1, <1>2
<1>4. QED
  BY <1>3 DEF SettlePayable, m, w, accrual

(* With the books in balance nothing saturates: outstanding_principal drops  *)
(* the old principal of the settled forager for its new one.                *)
LEMMA SettlementRebooks ==
    ASSUME TypeOK, OutstandingIsSum, NEW f \in Forager
    PROVE  LET m == Measured(f)
               accrual == Accrual(f, m)
           IN  /\ OutstandingAfter(f, m, accrual)
                    = outstanding_principal - forager[f].principal + (m.equity - accrual)
               /\ OutstandingAfter(f, m, accrual) \in Nat
<1> DEFINE m == Measured(f)
           accrual == Accrual(f, m)
<1>1. /\ m.equity \in Nat /\ accrual \in 0..m.equity
      /\ outstanding_principal \in Nat
      /\ forager[f].principal \in Nat /\ forager[f].principal <= outstanding_principal
  BY MeasuredTyped, AccrualTyped, CountersTyped, PrincipalsTyped, RecordTyped
     DEF OutstandingIsSum
<1> HIDE DEF m, accrual
<1>2. /\ OutstandingAfter(f, m, accrual)
            = outstanding_principal - forager[f].principal + (m.equity - accrual)
      /\ OutstandingAfter(f, m, accrual) \in Nat
  BY <1>1 DEF OutstandingAfter, SatSub
<1>3. QED
  BY <1>2 DEF m, accrual

(* The target of a rebalance is an amount. *)
LEMMA TargetTyped ==
    ASSUME TypeOK, NEW f \in Forager
    PROVE  Target(f) \in Nat
<1> DEFINE r == forager[f]
           weight == EffMaxWeight(active_forager_count)
           alloc == AllocationTarget(r.pheromone, level, allocatable_pool, weight)
           capacity == BondCapacity(r.bond, config.bond_ratio_bps, config.bond_haircut_bps)
<1>1. /\ r.bond \in Nat /\ r.principal \in Nat /\ r.pheromone \in Nat
      /\ active_forager_count \in Nat /\ allocatable_pool \in Nat
  BY RecordTyped, CountersTyped
<1>2. /\ config.w_max_bps \in Nat /\ config.bond_ratio_bps \in Nat \ {0}
      /\ config.bond_haircut_bps \in Nat /\ config.scout_ticket_base_units \in Nat
  BY ConfigInForce
<1> HIDE DEF r
<1>3. weight \in Nat
  BY <1>1, <1>2, MaxWeightTyped DEF EffMaxWeight
<1> HIDE DEF weight
<1>4. alloc \in Nat
  <2>1. level.remaining_bps \in Nat /\ level.rest_sum \in Nat
    BY LevelFields, ScaleTyped
  <2>2. QED
    BY <1>1, <1>3, <2>1, AllocationWithinCap
<1>5. capacity \in Nat
  BY <1>1, <1>2, CapacityTyped
<1> HIDE DEF alloc, capacity
<1>6. Lesser(alloc, capacity) \in Nat
  BY <1>4, <1>5 DEF Lesser
<1> DEFINE earned == Lesser(alloc, capacity)
<1>7. Target(f) = CASE r.status = "Active"    -> earned
                    [] r.status = "Scout"     -> Lesser(config.scout_ticket_base_units, r.principal)
                    [] r.status = "Probation" -> Lesser(earned, r.principal)
                    [] OTHER                  -> 0
  BY DEF Target, r, alloc, capacity, weight
<1> HIDE DEF earned
<1>8. earned \in Nat
  BY <1>6 DEF earned
<1>9. QED
  BY <1>1, <1>2, <1>7, <1>8 DEF Lesser

-----------------------------------------------------------------------------
(* The invariant, step by step.                                            *)

LEMMA ColonyInvInit == Init => ColonyInv
<1> SUFFICES ASSUME Init PROVE ColonyInv
  OBVIOUS
<1>1. BlankForager \in ForagerRecord
  BY ParamsAssumption, ScaleTyped DEF BlankForager, ForagerRecord
<1>2. /\ forager \in [Forager -> ForagerRecord]
      /\ level \in [remaining_bps : 0..BPS_DENOM, rest_sum : Nat]
      /\ Validate(config)
      /\ board \in Seq(0..PHEROMONE_CEIL) /\ Len(board) <= TOP_TRAILS_LEN
  BY <1>1, ScaleTyped, ParamsAssumption DEF Init
<1>3. TypeOK
  <2>0. /\ epoch = 1 /\ settling_epoch = 0 /\ epoch_phase = "Open" /\ epoch_over = FALSE
        /\ paused = FALSE /\ settleable_forager_count = 0 /\ settled_count = 0
        /\ active_count_acc = 0 /\ active_forager_count = 0 /\ pheromone_sum_acc = 0
        /\ allocatable_pool = 0 /\ scout_pool = 0 /\ epoch_turnover_used = 0
        /\ idle_base = 0 /\ outstanding_principal = 0 /\ cache_balance = 0
        /\ vault_base = 0 /\ cache_vault = 0
    BY DEF Init
  <2>1. /\ {epoch, settling_epoch, settleable_forager_count, settled_count, active_count_acc,
             active_forager_count, pheromone_sum_acc, allocatable_pool, scout_pool,
             epoch_turnover_used, idle_base, outstanding_principal, cache_balance,
             vault_base, cache_vault} \subseteq Nat
        /\ epoch_phase \in {"Open", "Settling"}
    BY <2>0
  <2>4. {epoch_over, paused} \subseteq BOOLEAN
    BY <2>0
  <2>2. opened \subseteq Forager /\ forager_vault \in [Forager -> Nat]
    BY DEF Init
  <2>3. QED
    BY <1>2, <2>1, <2>2, <2>4 DEF TypeOK
<1>4. \A f \in Forager : forager[f] = BlankForager
  BY DEF Init
<1>5. BlankForager.bond = 0 /\ BlankForager.principal = 0 /\ BlankForager.status = None
  BY DEF BlankForager
<1>6. SumFunctionOnSet(principals, Forager) = 0
  <2>1. IsFiniteSet(Forager) /\ \A f \in Forager : principals[f] = 0
    BY <1>3, <1>4, <1>5, PrincipalsTyped
  <2> HIDE DEF principals
  <2>2. QED
    BY <2>1, SumZero
<1>7. QED
  BY <1>3, <1>4, <1>5, <1>6
     DEF Init, ColonyInv, OutstandingIsSum, CountersBacked, RetiredIsEmpty, None

(* A step that leaves the records and the capital placed with them alone.   *)
LEMMA ColonyInvFramed ==
    ASSUME ColonyInv, TypeOK', CountersBacked', epoch' >= 1,
           UNCHANGED <<forager, opened, forager_vault, outstanding_principal>>
    PROVE  ColonyInv'
<1>1. principals' = principals
  BY DEF principals
<1>2. QED
  BY <1>1 DEF ColonyInv, OutstandingIsSum, RetiredIsEmpty

(* A step about one forager.                                               *)
LEMMA ColonyInvOneForager ==
    ASSUME ColonyInv, NEW f \in Forager, TypeOK', CountersBacked', UNCHANGED epoch,
           opened \subseteq opened', opened' \subseteq opened \cup {f},
           \A g \in Forager \ {f} : forager'[g] = forager[g]
                                  /\ forager_vault'[g] = forager_vault[g],
           outstanding_principal'
             = outstanding_principal - forager[f].principal + forager'[f].principal,
           forager'[f].status = None => forager'[f] = BlankForager,
           forager'[f].status = "Retired" =>
               forager'[f].principal = 0 /\ forager'[f].bond = 0 /\ forager_vault'[f] = 0,
           f \in opened' => forager'[f].status # None,
           f \notin opened' => forager'[f].bond = 0
    PROVE  ColonyInv'
<1>1. TypeOK /\ outstanding_principal = SumFunctionOnSet(principals, Forager)
  BY DEF ColonyInv, OutstandingIsSum
<1>2. forager'[f].principal \in Nat
  BY DEF TypeOK, ForagerRecord
<1>3. SumFunctionOnSet(principals', Forager)
        = SumFunctionOnSet(principals, Forager) - forager[f].principal + forager'[f].principal
  BY <1>1, <1>2, PrincipalMoves
<1>4. OutstandingIsSum'
  BY <1>1, <1>3 DEF OutstandingIsSum
<1>5. RetiredIsEmpty'
  BY DEF ColonyInv, RetiredIsEmpty
<1>6. /\ \A g \in Forager : forager'[g].status = None => forager'[g] = BlankForager
      /\ \A g \in opened' : forager'[g].status # None
      /\ \A g \in Forager \ opened' : forager'[g].bond = 0
  <2>1. opened' \subseteq Forager
    BY DEF TypeOK
  <2>2. QED
    BY <2>1 DEF ColonyInv
<1>7. epoch' >= 1
  BY DEF ColonyInv
<1>8. QED
  BY <1>4, <1>5, <1>6, <1>7 DEF ColonyInv

LEMMA RecordReplaced ==
    ASSUME TypeOK, NEW f \in Forager, NEW r \in ForagerRecord,
           forager' = [forager EXCEPT ![f] = r]
    PROVE  /\ forager' \in [Forager -> ForagerRecord]
           /\ forager'[f] = r
           /\ \A g \in Forager \ {f} : forager'[g] = forager[g]
BY DEF TypeOK

LEMMA VaultReplaced ==
    ASSUME TypeOK, NEW f \in Forager, NEW held \in Nat,
           forager_vault' = [forager_vault EXCEPT ![f] = held]
    PROVE  /\ forager_vault' \in [Forager -> Nat]
           /\ forager_vault'[f] = held
           /\ \A g \in Forager \ {f} : forager_vault'[g] = forager_vault[g]
BY DEF TypeOK

-----------------------------------------------------------------------------
(* The steps that touch no forager.                                        *)

LEMMA EnvironmentKeeps ==
    ASSUME ColonyInv,
           \/ Tick
           \/ \E p \in Switch : SetPaused(p)
           \/ \E patch \in Patches : UpdateConfig(patch)
           \/ \E assets \in Stakes : PayIn(assets) \/ PayOut(assets)
           \/ \E amount \in Premiums : FundCache(amount)
           \/ BeginSettlement
           \/ UNCHANGED vars
    PROVE  ColonyInv'
<1> USE DEF clockVars, switchVars, tallyVars, publishedVars, spentVars, populationVars,
            broodVars, cacheVars
<1>0. TypeOK /\ CountersBacked /\ epoch >= 1
  BY DEF ColonyInv
<1>1. CASE Tick
  <2>1. TypeOK' /\ CountersBacked'
    BY <1>0, <1>1 DEF Tick, TypeOK, CountersBacked
  <2>2. QED
    BY <1>0, <1>1, <2>1, ColonyInvFramed DEF Tick
<1>2. ASSUME NEW p \in Switch, SetPaused(p)
      PROVE  ColonyInv'
  <2>1. p \in BOOLEAN
    BY AmountsAssumption
  <2>2. TypeOK' /\ CountersBacked'
    BY <1>0, <1>2, <2>1 DEF SetPaused, TypeOK, CountersBacked
  <2>3. QED
    BY <1>0, <1>2, <2>2, ColonyInvFramed DEF SetPaused
<1>3. ASSUME NEW patch \in Patches, UpdateConfig(patch)
      PROVE  ColonyInv'
  <2>1. Validate(config')
    BY <1>3 DEF UpdateConfig
  <2>2. TypeOK' /\ CountersBacked'
    BY <1>0, <1>3, <2>1 DEF UpdateConfig, TypeOK, CountersBacked
  <2>3. QED
    BY <1>0, <1>3, <2>2, ColonyInvFramed DEF UpdateConfig
<1>4. ASSUME NEW assets \in Stakes, PayIn(assets) \/ PayOut(assets)
      PROVE  ColonyInv'
  <2>1. assets \in Nat /\ idle_base \in Nat /\ vault_base = idle_base
    BY <1>0, AmountsAssumption, CountersTyped DEF CountersBacked
  <2>2. idle_base' \in Nat /\ vault_base' = idle_base'
    BY <1>4, <2>1 DEF PayIn, PayOut
  <2>3. TypeOK' /\ CountersBacked'
    BY <1>0, <1>4, <2>2 DEF PayIn, PayOut, TypeOK, CountersBacked
  <2>4. QED
    BY <1>0, <1>4, <2>3, ColonyInvFramed DEF PayIn, PayOut
<1>5. ASSUME NEW amount \in Premiums, FundCache(amount)
      PROVE  ColonyInv'
  <2>1. amount \in Nat /\ cache_balance \in Nat /\ cache_vault = cache_balance
    BY <1>0, AmountsAssumption, CountersTyped DEF CountersBacked
  <2>2. cache_balance' \in Nat /\ cache_vault' = cache_balance'
    BY <1>5, <2>1 DEF FundCache
  <2>3. TypeOK' /\ CountersBacked'
    BY SMTT(30), <1>0, <1>5, <2>2 DEF FundCache, TypeOK, CountersBacked
  <2>4. QED
    BY <1>0, <1>5, <2>3, ColonyInvFramed DEF FundCache
<1>6. CASE BeginSettlement
  <2>1. epoch' \in Nat /\ epoch' >= 1
    BY <1>0, <1>6, CountersTyped DEF BeginSettlement
  <2>2. board' \in Seq(0..PHEROMONE_CEIL) /\ Len(board') <= TOP_TRAILS_LEN
    BY <1>6, ParamsAssumption DEF BeginSettlement
  <2>3. /\ settling_epoch' \in Nat /\ settled_count' \in Nat /\ active_count_acc' \in Nat
        /\ pheromone_sum_acc' \in Nat /\ epoch_phase' \in {"Open", "Settling"}
        /\ epoch_over' = epoch_over
        /\ UNCHANGED <<switchVars, publishedVars, spentVars, populationVars, forager,
                       forager_vault, broodVars, cacheVars>>
    BY <1>6, <2>1 DEF BeginSettlement
  <2>4. TypeOK'
    BY <1>0, <2>1, <2>2, <2>3, CountersTyped DEF TypeOK, switchVars, publishedVars, spentVars,
       populationVars, broodVars, cacheVars
  <2>5. CountersBacked'
    BY <1>0, <2>3 DEF CountersBacked, broodVars, cacheVars
  <2>6. QED
    BY <1>0, <1>6, <2>1, <2>4, <2>5, ColonyInvFramed DEF BeginSettlement
<1>7. CASE UNCHANGED vars
  <2>1. TypeOK' /\ CountersBacked'
    BY <1>0, <1>7 DEF vars, TypeOK, CountersBacked
  <2>2. QED
    BY <1>0, <1>7, <2>1, ColonyInvFramed DEF vars
<1>8. QED
  BY <1>1, <1>2, <1>3, <1>4, <1>5, <1>6, <1>7

LEMMA FinalizeKeeps ==
    ASSUME ColonyInv, FinalizeSettlement
    PROVE  ColonyInv'
<1> USE DEF clockVars, switchVars, tallyVars, publishedVars, spentVars, populationVars,
            broodVars, cacheVars
<1>0. TypeOK /\ CountersBacked /\ epoch >= 1
  BY DEF ColonyInv
<1>1. epoch' \in Nat /\ epoch' >= 1
  BY SMTT(30), <1>0, CountersTyped DEF FinalizeSettlement
<1>2. scout_pool' \in Nat /\ allocatable_pool' \in Nat
  <2>1. config.scout_budget_bps \in Nat
    BY <1>0, ConfigInForce
  <2>2. Share(nav, config.scout_budget_bps) \in Nat
    BY <1>0, <2>1, CountersTyped, ShareTyped
  <2>3. QED
    BY <1>0, <2>2, CountersTyped, SatSubTyped DEF FinalizeSettlement
<1>3. level' \in [remaining_bps : 0..BPS_DENOM, rest_sum : Nat]
  <2>1. board \in Seq(Nat)
    <3>1. board \in Seq(0..PHEROMONE_CEIL) /\ 0..PHEROMONE_CEIL \subseteq Nat
      BY <1>0, ParamsAssumption DEF TypeOK
    <3>2. QED
      BY <3>1, SeqMonotonic
  <2>2. EffMaxWeight(active_count_acc) \in Nat
    BY <1>0, ConfigInForce, CountersTyped, MaxWeightTyped DEF EffMaxWeight
  <2>3. QED
    BY <1>0, <2>1, <2>2, CountersTyped, LevelTyped DEF FinalizeSettlement
<1>4. board' \in Seq(0..PHEROMONE_CEIL) /\ Len(board') <= TOP_TRAILS_LEN
  BY ParamsAssumption DEF FinalizeSettlement
<1>5. active_forager_count' \in Nat /\ epoch_turnover_used' = 0
      /\ epoch_phase' = "Open" /\ epoch_over' = FALSE
  BY <1>0, CountersTyped DEF FinalizeSettlement
<1>6. UNCHANGED <<settling_epoch, paused, config, settled_count, active_count_acc,
                  pheromone_sum_acc, opened, settleable_forager_count, forager, forager_vault,
                  idle_base, outstanding_principal, vault_base, cache_balance, cache_vault>>
  BY DEF FinalizeSettlement
<1>7. TypeOK'
  <2>1. /\ forager \in [Forager -> ForagerRecord] /\ forager_vault \in [Forager -> Nat]
        /\ opened \subseteq Forager /\ paused \in BOOLEAN /\ Validate(config)
    BY <1>0 DEF TypeOK
  <2>2. /\ settling_epoch \in Nat /\ settled_count \in Nat /\ active_count_acc \in Nat
        /\ pheromone_sum_acc \in Nat /\ settleable_forager_count \in Nat
        /\ idle_base \in Nat /\ outstanding_principal \in Nat /\ vault_base \in Nat
        /\ cache_balance \in Nat /\ cache_vault \in Nat
    BY <1>0, CountersTyped
  <2>3. {epoch', settling_epoch', settleable_forager_count', settled_count', active_count_acc',
         active_forager_count', pheromone_sum_acc', allocatable_pool', scout_pool',
         epoch_turnover_used', idle_base', outstanding_principal', cache_balance',
         vault_base', cache_vault'} \subseteq Nat
    BY <1>1, <1>2, <1>5, <1>6, <2>2
  <2>4. QED
    BY <1>3, <1>4, <1>5, <1>6, <2>1, <2>3 DEF TypeOK
<1>8. QED
  BY <1>0, <1>1, <1>6, <1>7, ColonyInvFramed DEF CountersBacked

-----------------------------------------------------------------------------
(* The steps about one forager.                                            *)

(* No such step touches the clock, the parameters or what was published.    *)
LEMMA ForagerStepTypes ==
    ASSUME TypeOK, UNCHANGED <<clockVars, switchVars, publishedVars>>,
           forager' \in [Forager -> ForagerRecord], forager_vault' \in [Forager -> Nat],
           opened' \subseteq Forager,
           board' \in Seq(0..PHEROMONE_CEIL), Len(board') <= TOP_TRAILS_LEN,
           settleable_forager_count' \in Nat, settled_count' \in Nat,
           active_count_acc' \in Nat, pheromone_sum_acc' \in Nat,
           scout_pool' \in Nat, epoch_turnover_used' \in Nat,
           idle_base' \in Nat, outstanding_principal' \in Nat, vault_base' \in Nat,
           cache_balance' \in Nat, cache_vault' \in Nat
    PROVE  TypeOK'
<1>1. UNCHANGED <<epoch, settling_epoch, epoch_phase, epoch_over, paused, config,
                  active_forager_count, level, allocatable_pool>>
  BY DEF clockVars, switchVars, publishedVars
<1>2. epoch \in Nat /\ settling_epoch \in Nat /\ active_forager_count \in Nat
      /\ allocatable_pool \in Nat
  BY CountersTyped
<1>3. {epoch', settling_epoch', settleable_forager_count', settled_count', active_count_acc',
       active_forager_count', pheromone_sum_acc', allocatable_pool', scout_pool',
       epoch_turnover_used', idle_base', outstanding_principal', cache_balance',
       vault_base', cache_vault'} \subseteq Nat
  BY <1>1, <1>2
<1>4. QED
  BY <1>1, <1>3 DEF TypeOK

(* Most of them touch only the records, the sub-accounts and the money.     *)
LEMMA MoneyStepTypes ==
    ASSUME TypeOK, UNCHANGED <<clockVars, switchVars, tallyVars, publishedVars>>,
           forager' \in [Forager -> ForagerRecord], forager_vault' \in [Forager -> Nat],
           opened' \subseteq Forager, settleable_forager_count' \in Nat,
           scout_pool' \in Nat, epoch_turnover_used' \in Nat,
           idle_base' \in Nat, outstanding_principal' \in Nat, vault_base' \in Nat,
           cache_balance' \in Nat, cache_vault' \in Nat
    PROVE  TypeOK'
<1>1. UNCHANGED <<settled_count, active_count_acc, pheromone_sum_acc, board>>
  BY DEF tallyVars
<1>2. board \in Seq(0..PHEROMONE_CEIL) /\ Len(board) <= TOP_TRAILS_LEN
  BY DEF TypeOK
<1>3. QED
  BY <1>1, <1>2, CountersTyped, ForagerStepTypes

LEMMA TradeKeeps ==
    ASSUME ColonyInv, NEW f \in Forager, NEW move \in Moves, Trade(f, move)
    PROVE  ColonyInv'
<1>0. TypeOK /\ CountersBacked
  BY DEF ColonyInv
<1>1. forager_vault[f] + move \in Nat
  BY AmountsAssumption DEF Trade
<1>2. /\ forager_vault' \in [Forager -> Nat]
      /\ \A g \in Forager \ {f} : forager_vault'[g] = forager_vault[g]
  BY <1>0, <1>1, VaultReplaced DEF Trade
<1>3. /\ UNCHANGED <<clockVars, switchVars, tallyVars, publishedVars>>
      /\ UNCHANGED <<epoch, scout_pool, epoch_turnover_used, opened, settleable_forager_count,
                     forager, idle_base, outstanding_principal, vault_base, cache_balance,
                     cache_vault>>
      /\ forager[f].status # "Retired"
  BY DEF Trade, clockVars, spentVars, populationVars, broodVars, cacheVars
<1>4. TypeOK'
  BY <1>0, <1>2, <1>3, CountersTyped, MoneyStepTypes DEF TypeOK
<1>5. CountersBacked'
  BY <1>0, <1>3 DEF CountersBacked
<1>6. outstanding_principal' = outstanding_principal - forager[f].principal + forager'[f].principal
  BY <1>0, <1>3, CountersTyped, RecordTyped
<1>7. QED
  BY <1>2, <1>3, <1>4, <1>5, <1>6, ColonyInvOneForager DEF ColonyInv

LEMMA RegisterKeeps ==
    ASSUME ColonyInv, NEW f \in Forager, RegisterForager(f)
    PROVE  ColonyInv'
<1> DEFINE r == [BlankForager EXCEPT !.status = "Scout", !.last_settled_epoch = epoch]
<1>0. TypeOK /\ CountersBacked
  BY DEF ColonyInv
<1>1. /\ r \in ForagerRecord
      /\ r.status = "Scout" /\ r.principal = 0 /\ r.bond = 0
  <2>1. epoch \in Nat /\ 0 \in 0..PHEROMONE_CEIL /\ 0 \in 0..BPS_DENOM
    BY <1>0, CountersTyped, ParamsAssumption, ScaleTyped
  <2>2. r.status = "Scout" /\ r.principal = 0 /\ r.bond = 0
    BY DEF BlankForager
  <2>3. r \in ForagerRecord
    <3>1. BlankForager \in ForagerRecord
      BY <2>1 DEF BlankForager, ForagerRecord
    <3>2. QED
      BY <2>1, <3>1 DEF ForagerRecord, Lifecycle
  <2>4. QED
    BY <2>2, <2>3
<1>2. forager' = [forager EXCEPT ![f] = r]
  BY DEF RegisterForager
<1> HIDE DEF r
<1>3. /\ forager' \in [Forager -> ForagerRecord] /\ forager'[f] = r
      /\ \A g \in Forager \ {f} : forager'[g] = forager[g]
  BY <1>0, <1>1, <1>2, RecordReplaced
<1>4. /\ UNCHANGED <<clockVars, switchVars, tallyVars, publishedVars>>
      /\ UNCHANGED <<epoch, scout_pool, epoch_turnover_used, opened, settleable_forager_count,
                     forager_vault, idle_base, outstanding_principal, vault_base, cache_balance,
                     cache_vault>>
      /\ forager[f].status = None
  BY DEF RegisterForager, clockVars, spentVars, populationVars, broodVars, cacheVars
<1>5. forager[f].principal = 0
  BY <1>4 DEF ColonyInv, BlankForager
<1>6. TypeOK'
  BY <1>0, <1>3, <1>4, CountersTyped, MoneyStepTypes DEF TypeOK
<1>7. CountersBacked'
  BY <1>0, <1>4 DEF CountersBacked
<1>8. outstanding_principal' = outstanding_principal - forager[f].principal + forager'[f].principal
  BY <1>0, <1>1, <1>3, <1>4, <1>5, CountersTyped
<1>9. QED
  BY <1>1, <1>3, <1>4, <1>6, <1>7, <1>8, ColonyInvOneForager DEF None

LEMMA OpenKeeps ==
    ASSUME ColonyInv, NEW f \in Forager, OpenForagerVault(f)
    PROVE  ColonyInv'
<1> DEFINE r == [forager[f] EXCEPT !.last_settled_epoch = SatSub(epoch, 1)]
<1>0. TypeOK /\ CountersBacked
  BY DEF ColonyInv
<1>1. forager[f] \in ForagerRecord /\ SatSub(epoch, 1) \in Nat
  BY <1>0, RecordTyped, CountersTyped, SatSubTyped
<1>2. /\ r \in ForagerRecord /\ r.status = forager[f].status
      /\ r.principal = forager[f].principal /\ r.bond = forager[f].bond
  BY <1>1 DEF ForagerRecord
<1>3. forager' = [forager EXCEPT ![f] = r]
  BY DEF OpenForagerVault
<1> HIDE DEF r
<1>4. /\ forager' \in [Forager -> ForagerRecord] /\ forager'[f] = r
      /\ \A g \in Forager \ {f} : forager'[g] = forager[g]
  BY <1>0, <1>2, <1>3, RecordReplaced
<1>5. /\ UNCHANGED <<clockVars, switchVars, tallyVars, publishedVars>>
      /\ UNCHANGED <<epoch, scout_pool, epoch_turnover_used, forager_vault, idle_base,
                     outstanding_principal, vault_base, cache_balance, cache_vault>>
      /\ opened' = opened \cup {f}
      /\ settleable_forager_count' = settleable_forager_count + 1
      /\ forager[f].status # None
  BY DEF OpenForagerVault, clockVars, spentVars, broodVars, cacheVars
<1>6. TypeOK'
  <2>1. opened' \subseteq Forager /\ forager_vault' \in [Forager -> Nat]
    <3>1. opened \subseteq Forager /\ forager_vault \in [Forager -> Nat]
      BY <1>0 DEF TypeOK
    <3>2. QED
      BY <1>5, <3>1
  <2>2. settleable_forager_count' \in Nat
    BY <1>0, <1>5, CountersTyped
  <2>3. QED
    BY <1>0, <1>4, <1>5, <2>1, <2>2, CountersTyped, MoneyStepTypes
<1>7. CountersBacked'
  BY <1>0, <1>5 DEF CountersBacked
<1>8. outstanding_principal' = outstanding_principal - forager[f].principal + forager'[f].principal
  BY <1>0, <1>2, <1>4, <1>5, CountersTyped, RecordTyped
<1>9. r.status = "Retired" => r.principal = 0 /\ r.bond = 0 /\ forager_vault'[f] = 0
  BY <1>2, <1>5 DEF ColonyInv, RetiredIsEmpty
<1>10. QED
  BY <1>2, <1>4, <1>5, <1>6, <1>7, <1>8, <1>9, ColonyInvOneForager

LEMMA TopUpKeeps ==
    ASSUME ColonyInv, NEW f \in Forager, NEW amount \in TopUps, TopUpBond(f, amount)
    PROVE  ColonyInv'
<1> DEFINE r == [forager[f] EXCEPT !.bond = @ + amount]
<1>0. TypeOK /\ CountersBacked
  BY DEF ColonyInv
<1>1. /\ forager[f] \in ForagerRecord /\ forager[f].bond + amount \in Nat
      /\ forager_vault[f] + amount \in Nat
  BY <1>0, RecordTyped, AmountsAssumption
<1>2. /\ r \in ForagerRecord /\ r.status = forager[f].status
      /\ r.principal = forager[f].principal
  BY <1>1 DEF ForagerRecord
<1>3. forager' = [forager EXCEPT ![f] = r]
  BY DEF TopUpBond, TopUpInto
<1> HIDE DEF r
<1>4. /\ forager' \in [Forager -> ForagerRecord] /\ forager'[f] = r
      /\ \A g \in Forager \ {f} : forager'[g] = forager[g]
  BY <1>0, <1>2, <1>3, RecordReplaced
<1>5. /\ forager_vault' \in [Forager -> Nat]
      /\ \A g \in Forager \ {f} : forager_vault'[g] = forager_vault[g]
  BY <1>0, <1>1, VaultReplaced DEF TopUpBond, TopUpInto
<1>6. /\ UNCHANGED <<clockVars, switchVars, tallyVars, publishedVars>>
      /\ UNCHANGED <<epoch, scout_pool, epoch_turnover_used, opened, settleable_forager_count,
                     idle_base, outstanding_principal, vault_base, cache_balance, cache_vault>>
      /\ f \in opened /\ forager[f].status # "Retired"
  BY DEF TopUpBond, TopUpInto, clockVars, spentVars, populationVars, broodVars, cacheVars
<1>7. TypeOK'
  BY <1>0, <1>4, <1>5, <1>6, CountersTyped, MoneyStepTypes DEF TypeOK
<1>8. CountersBacked'
  BY <1>0, <1>6 DEF CountersBacked
<1>9. outstanding_principal' = outstanding_principal - forager[f].principal + forager'[f].principal
  BY <1>0, <1>2, <1>4, <1>6, CountersTyped, RecordTyped
<1>10. forager[f].status # None
  BY <1>6 DEF ColonyInv
<1>11. QED
  BY <1>2, <1>4, <1>5, <1>6, <1>7, <1>8, <1>9, <1>10, ColonyInvOneForager

LEMMA PromoteKeeps ==
    ASSUME ColonyInv, NEW f \in Forager, PromoteForager(f)
    PROVE  ColonyInv'
<1> DEFINE seed == Lesser(forager[f].pheromone, config.promote_tau_seed_cap)
           r == [forager[f] EXCEPT !.status = "Active", !.pheromone = seed]
<1>0. TypeOK /\ CountersBacked
  BY DEF ColonyInv
<1>1. forager[f] \in ForagerRecord /\ forager[f].pheromone \in 0..PHEROMONE_CEIL
  BY <1>0, RecordTyped
<1>2. seed \in 0..PHEROMONE_CEIL
  <2>1. config.promote_tau_seed_cap \in Nat /\ PHEROMONE_CEIL \in Nat
    BY <1>0, ConfigInForce, ParamsAssumption
  <2>2. QED
    BY <1>1, <2>1 DEF Lesser
<1>3. forager' = [forager EXCEPT ![f] = r]
  BY DEF PromoteForager
<1> HIDE DEF seed
<1>4. /\ r \in ForagerRecord /\ r.status = "Active"
      /\ r.principal = forager[f].principal /\ r.bond = forager[f].bond
  BY <1>1, <1>2 DEF ForagerRecord, Lifecycle
<1> HIDE DEF r
<1>5. /\ forager' \in [Forager -> ForagerRecord] /\ forager'[f] = r
      /\ \A g \in Forager \ {f} : forager'[g] = forager[g]
  BY <1>0, <1>3, <1>4, RecordReplaced
<1>6. /\ UNCHANGED <<clockVars, switchVars, tallyVars, publishedVars>>
      /\ UNCHANGED <<epoch, scout_pool, epoch_turnover_used, opened, settleable_forager_count,
                     forager_vault, idle_base, outstanding_principal, vault_base, cache_balance,
                     cache_vault>>
  BY DEF PromoteForager, clockVars, spentVars, populationVars, broodVars, cacheVars
<1>7. TypeOK'
  BY <1>0, <1>5, <1>6, CountersTyped, MoneyStepTypes DEF TypeOK
<1>8. CountersBacked'
  BY <1>0, <1>6 DEF CountersBacked
<1>9. outstanding_principal' = outstanding_principal - forager[f].principal + forager'[f].principal
  BY <1>0, <1>4, <1>5, <1>6, CountersTyped, RecordTyped
<1>10. f \notin opened' => r.bond = 0
  BY <1>4, <1>6 DEF ColonyInv
<1>11. QED
  BY <1>4, <1>5, <1>6, <1>7, <1>8, <1>9, <1>10, ColonyInvOneForager DEF None

LEMMA RetireKeeps ==
    ASSUME ColonyInv, NEW f \in Forager, RetireForager(f)
    PROVE  ColonyInv'
<1> DEFINE r == [forager[f] EXCEPT !.bond = 0, !.status = "Retired"]
           returned == Lesser(forager[f].bond, forager_vault[f])
           swept == SweptBase(f)
<1>0. TypeOK /\ CountersBacked
  BY DEF ColonyInv
<1>1. /\ forager[f] \in ForagerRecord /\ forager[f].principal = 0
      /\ forager[f].bond \in Nat /\ forager_vault[f] \in Nat
  BY <1>0, RecordTyped DEF RetireForager
<1>2. swept \in Nat /\ forager_vault[f] - returned - swept = 0
  BY <1>1 DEF SweptBase, SatSub, Lesser
<1> DEFINE left == forager_vault[f] - returned - swept
<1>3. /\ r \in ForagerRecord /\ r.status = "Retired"
      /\ r.principal = 0 /\ r.bond = 0
  BY <1>1 DEF ForagerRecord, Lifecycle
<1>4. /\ forager' = [forager EXCEPT ![f] = r]
      /\ forager_vault' = [forager_vault EXCEPT ![f] = left]
      /\ vault_base' = vault_base + swept /\ idle_base' = idle_base + swept
      /\ settleable_forager_count' = SatSub(settleable_forager_count, 1)
      /\ UNCHANGED <<clockVars, switchVars, tallyVars, publishedVars>>
      /\ UNCHANGED <<epoch, scout_pool, epoch_turnover_used, opened, outstanding_principal,
                     cache_balance, cache_vault>>
  BY DEF RetireForager, clockVars, spentVars, cacheVars
<1> HIDE DEF r, returned, swept, left
<1>5. /\ forager' \in [Forager -> ForagerRecord] /\ forager'[f] = r
      /\ \A g \in Forager \ {f} : forager'[g] = forager[g]
  BY <1>0, <1>3, <1>4, RecordReplaced
<1>6. /\ forager_vault' \in [Forager -> Nat] /\ forager_vault'[f] = 0
      /\ \A g \in Forager \ {f} : forager_vault'[g] = forager_vault[g]
  <2>1. left = 0 /\ left \in Nat
    BY <1>2 DEF left
  <2>2. QED
    BY <1>0, <1>4, <2>1, VaultReplaced
<1>7. /\ idle_base' \in Nat /\ vault_base' = idle_base'
      /\ settleable_forager_count' \in Nat
  BY <1>0, <1>2, <1>4, CountersTyped, SatSubTyped DEF CountersBacked
<1>8. TypeOK'
  BY <1>0, <1>4, <1>5, <1>6, <1>7, CountersTyped, MoneyStepTypes DEF TypeOK
<1>9. CountersBacked'
  BY <1>0, <1>4, <1>7 DEF CountersBacked
<1>10. outstanding_principal' = outstanding_principal - forager[f].principal + forager'[f].principal
  BY <1>0, <1>1, <1>3, <1>4, <1>5, CountersTyped
<1>11. QED
  BY <1>3, <1>4, <1>5, <1>6, <1>8, <1>9, <1>10, ColonyInvOneForager DEF None

LEMMA FundScoutKeeps ==
    ASSUME ColonyInv, NEW f \in Forager, FundScout(f)
    PROVE  ColonyInv'
<1> DEFINE ticket == config.scout_ticket_base_units
           held == forager[f].principal + ticket
           funded == forager_vault[f] + ticket
           r == [forager[f] EXCEPT !.principal = held, !.last_scout_epoch = epoch]
<1>0. TypeOK /\ CountersBacked
  BY DEF ColonyInv
<1>1. /\ ticket \in Nat /\ epoch \in Nat /\ forager[f] \in ForagerRecord
      /\ forager[f].principal \in Nat /\ forager_vault[f] \in Nat
      /\ ticket <= scout_pool /\ ticket <= idle_base
      /\ scout_pool \in Nat /\ idle_base \in Nat /\ vault_base = idle_base
      /\ outstanding_principal \in Nat
  <2>1. ticket \in Nat
    BY <1>0, ConfigInForce
  <2>2. ticket <= scout_pool /\ ticket <= idle_base
    BY DEF FundScout
  <2>3. QED
    BY <1>0, <2>1, <2>2, RecordTyped, CountersTyped DEF CountersBacked
<1>2. held \in Nat /\ held = forager[f].principal + ticket /\ funded \in Nat
  BY <1>1
<1>3. /\ forager' = [forager EXCEPT ![f] = r]
      /\ forager_vault' = [forager_vault EXCEPT ![f] = funded]
      /\ scout_pool' = scout_pool - ticket /\ idle_base' = idle_base - ticket
      /\ vault_base' = vault_base - ticket
      /\ outstanding_principal' = outstanding_principal + ticket
      /\ f \in opened /\ forager[f].status = "Scout"
  BY DEF FundScout
<1>4. /\ UNCHANGED <<clockVars, switchVars, tallyVars, publishedVars>>
      /\ UNCHANGED <<epoch, epoch_turnover_used, opened, settleable_forager_count,
                     cache_balance, cache_vault>>
  BY DEF FundScout, clockVars, populationVars, cacheVars
<1> HIDE DEF held, funded, ticket
<1>5. /\ r \in ForagerRecord /\ r.status = forager[f].status
       /\ r.principal = held /\ r.bond = forager[f].bond
  BY <1>1, <1>2 DEF ForagerRecord
<1> HIDE DEF r
<1>6. /\ forager' \in [Forager -> ForagerRecord] /\ forager'[f] = r
      /\ \A g \in Forager \ {f} : forager'[g] = forager[g]
  BY <1>0, <1>5, <1>3, RecordReplaced
<1>7. /\ forager_vault' \in [Forager -> Nat]
      /\ \A g \in Forager \ {f} : forager_vault'[g] = forager_vault[g]
  BY <1>0, <1>2, <1>3, VaultReplaced
<1>8. /\ idle_base' \in Nat /\ vault_base' = idle_base' /\ scout_pool' \in Nat
      /\ outstanding_principal' \in Nat
      /\ outstanding_principal' = outstanding_principal - forager[f].principal + r.principal
  BY <1>1, <1>2, <1>3, <1>5
<1>9. TypeOK'
  BY <1>0, <1>4, <1>6, <1>7, <1>8, CountersTyped, MoneyStepTypes DEF TypeOK
<1>10. CountersBacked'
  BY <1>0, <1>4, <1>8 DEF CountersBacked
<1>11. QED
  BY <1>5, <1>3, <1>4, <1>6, <1>7, <1>8, <1>9, <1>10, ColonyInvOneForager DEF None

(* What a slash takes from the bond. *)
LEMMA SlashTaken ==
    ASSUME TypeOK, NEW f \in Forager, NEW slash_bps \in SlashBps(f)
    PROVE  LET out == SlashSplit(forager[f].bond, slash_bps, config.slash_burn_bps)
           IN  /\ out.slashed \in 0..forager[f].bond /\ out.slashed \in Nat
               /\ out.burn \in Nat /\ out.to_cache \in Nat
               /\ out.burn + out.to_cache = out.slashed
<1>1. slash_bps \in 0..BPS_DENOM
  <2>1. config.dd_slash_bps \in Nat
    BY ConfigInForce
  <2>2. forager[f].current_drawdown_bps \in Nat
    BY RecordTyped, ScaleTyped
  <2>3. LossSlashBps(forager[f].current_drawdown_bps, config.dd_slash_bps) \in 0..BPS_DENOM
    BY <2>1, <2>2, LossSlashTyped
  <2>4. QED
    BY <2>3, ScaleTyped DEF SlashBps
<1>2. config.slash_burn_bps \in 0..BPS_DENOM
  BY ConfigInForce
<1>3. forager[f].bond \in Nat
  BY RecordTyped
<1>4. QED
  BY <1>1, <1>2, <1>3, SlashBounds

LEMMA SlashKeeps ==
    ASSUME ColonyInv, NEW f \in Forager, NEW slash_bps \in SlashBps(f),
           SlashForager(f, slash_bps)
    PROVE  ColonyInv'
<1> DEFINE out == SlashSplit(forager[f].bond, slash_bps, config.slash_burn_bps)
           bond_after == forager[f].bond - out.slashed
           s == IF bond_after < config.min_bond THEN "Slashed" ELSE "Scout"
           r == [forager[f] EXCEPT !.bond = bond_after, !.status = s]
           held == forager_vault[f] - out.burn - out.to_cache
<1>0. TypeOK /\ CountersBacked
  BY DEF ColonyInv
<1>1. /\ forager[f] \in ForagerRecord /\ forager[f].bond \in Nat
      /\ forager_vault[f] \in Nat /\ cache_balance \in Nat /\ cache_vault = cache_balance
  BY <1>0, RecordTyped, CountersTyped DEF CountersBacked
<1>2. /\ out.slashed \in 0..forager[f].bond
      /\ out.burn \in Nat /\ out.to_cache \in Nat
      /\ out.burn + out.to_cache = out.slashed
  BY <1>0, SlashTaken
<1>3. /\ forager' = [forager EXCEPT ![f] = r]
      /\ forager_vault' = [forager_vault EXCEPT ![f] = held]
      /\ cache_vault' = cache_vault + out.to_cache
      /\ cache_balance' = cache_balance + out.to_cache
      /\ out.slashed <= forager_vault[f]
      /\ f \in opened
  BY DEF SlashForager
<1>4. /\ UNCHANGED <<clockVars, switchVars, tallyVars, publishedVars>>
      /\ UNCHANGED <<epoch, scout_pool, epoch_turnover_used, opened, settleable_forager_count,
                     idle_base, outstanding_principal, vault_base>>
  BY DEF SlashForager, clockVars, spentVars, populationVars, broodVars
<1> HIDE DEF out
<1>5. bond_after \in Nat /\ held \in Nat
  BY <1>1, <1>2, <1>3
<1>6. s \in {"Slashed", "Scout"}
  OBVIOUS
<1> HIDE DEF bond_after, held, s
<1>7. /\ r \in ForagerRecord /\ r.status = s /\ r.principal = forager[f].principal
  BY <1>1, <1>5, <1>6 DEF ForagerRecord, Lifecycle
<1> HIDE DEF r
<1>8. /\ forager' \in [Forager -> ForagerRecord] /\ forager'[f] = r
      /\ \A g \in Forager \ {f} : forager'[g] = forager[g]
  BY <1>0, <1>3, <1>7, RecordReplaced
<1>9. /\ forager_vault' \in [Forager -> Nat]
      /\ \A g \in Forager \ {f} : forager_vault'[g] = forager_vault[g]
  BY <1>0, <1>3, <1>5, VaultReplaced
<1>10. cache_balance' \in Nat /\ cache_vault' = cache_balance'
  BY <1>1, <1>2, <1>3
<1>11. TypeOK'
  BY <1>0, <1>4, <1>8, <1>9, <1>10, CountersTyped, MoneyStepTypes DEF TypeOK
<1>12. CountersBacked'
  BY <1>0, <1>4, <1>10 DEF CountersBacked
<1>13. outstanding_principal' = outstanding_principal - forager[f].principal + forager'[f].principal
  BY <1>0, <1>4, <1>7, <1>8, CountersTyped, RecordTyped
<1>14. QED
  BY <1>3, <1>4, <1>6, <1>7, <1>8, <1>9, <1>11, <1>12, <1>13, ColonyInvOneForager DEF None

(* What settle_forager changes, in the numbers it is about.                 *)
LEMMA SettleMoves ==
    ASSUME ColonyInv, NEW f \in Forager, SettleForager(f)
    PROVE  LET m == Measured(f)
               w == Waterfall(m)
               accrual == Accrual(f, m)
           IN  /\ forager' \in [Forager -> ForagerRecord]
               /\ forager'[f] = SettledRecord(f, m)
               /\ \A g \in Forager \ {f} : forager'[g] = forager[g]
               /\ forager_vault' \in [Forager -> Nat]
               /\ forager_vault'[f] = forager_vault[f] - w.from_bond - accrual
               /\ \A g \in Forager \ {f} : forager_vault'[g] = forager_vault[g]
               /\ idle_base' = idle_base + w.from_bond + w.from_cache
               /\ vault_base' = vault_base + w.from_bond + w.from_cache
               /\ cache_balance' = cache_balance - w.from_cache + accrual
               /\ cache_vault' = cache_vault - w.from_cache + accrual
               /\ outstanding_principal'
                    = outstanding_principal - forager[f].principal + (m.equity - accrual)
               /\ outstanding_principal' \in Nat
<1> DEFINE m == Measured(f)
           w == Waterfall(m)
           accrual == Accrual(f, m)
           r == SettledRecord(f, m)
           held == forager_vault[f] - w.from_bond - accrual
<1>0. TypeOK /\ CountersBacked /\ OutstandingIsSum /\ f \in opened
      /\ forager[f].status # "Retired" /\ forager[f].status # None
  BY DEF ColonyInv, SettleForager
<1>1. r \in ForagerRecord
  BY <1>0, SettledTyped
<1>2. held \in Nat
  <2>1. w.from_bond + accrual <= forager_vault[f]
    BY <1>0, SettlementCovered DEF SettlePayable
  <2>2. w.from_bond \in Nat /\ accrual \in Nat /\ forager_vault[f] \in Nat
    BY <1>0, WaterfallTyped, AccrualTyped, MeasuredTyped, RecordTyped
  <2> HIDE DEF w, accrual, m
  <2>3. QED
    BY <2>1, <2>2
<1>3. /\ outstanding_principal' = OutstandingAfter(f, m, accrual)
      /\ OutstandingAfter(f, m, accrual)
            = outstanding_principal - forager[f].principal + (m.equity - accrual)
      /\ OutstandingAfter(f, m, accrual) \in Nat
  BY <1>0, SettlementRebooks DEF SettleForager
<1>4. /\ forager' = [forager EXCEPT ![f] = r]
      /\ forager_vault' = [forager_vault EXCEPT ![f] = held]
      /\ idle_base' = idle_base + (w.from_bond + w.from_cache)
      /\ vault_base' = vault_base + w.from_bond + w.from_cache
      /\ cache_balance' = cache_balance - w.from_cache + accrual
      /\ cache_vault' = cache_vault - w.from_cache + accrual
  BY DEF SettleForager, Reimbursed
<1>5. idle_base' = idle_base + w.from_bond + w.from_cache
  <2>1. w.from_bond \in Nat /\ w.from_cache \in Nat /\ idle_base \in Nat
    BY <1>0, WaterfallTyped, MeasuredTyped, RecordTyped, CountersTyped
  <2> HIDE DEF w, m
  <2>2. QED
    BY <1>4, <2>1
<1>6. /\ forager' \in [Forager -> ForagerRecord] /\ forager'[f] = r
      /\ \A g \in Forager \ {f} : forager'[g] = forager[g]
  <2> HIDE DEF r
  <2>1. QED
    BY <1>0, <1>1, <1>4, RecordReplaced
<1>7. /\ forager_vault' \in [Forager -> Nat] /\ forager_vault'[f] = held
      /\ \A g \in Forager \ {f} : forager_vault'[g] = forager_vault[g]
  <2> HIDE DEF held
  <2>1. QED
    BY <1>0, <1>2, <1>4, VaultReplaced
<1>8. QED
  BY <1>3, <1>4, <1>5, <1>6, <1>7

LEMMA SettleKeeps ==
    ASSUME ColonyInv, NEW f \in Forager, SettleForager(f)
    PROVE  ColonyInv'
<1> DEFINE m == Measured(f)
           w == Waterfall(m)
           accrual == Accrual(f, m)
           r == SettledRecord(f, m)
<1>0. TypeOK /\ CountersBacked /\ f \in opened
      /\ forager[f].status # "Retired" /\ forager[f].status # None
  BY DEF ColonyInv, SettleForager
<1>1. /\ w.from_bond \in 0..m.bond /\ w.from_cache \in 0..cache_balance
      /\ accrual \in 0..m.equity /\ m.bond \in Nat /\ m.equity \in Nat
      /\ m.pheromone \in 0..PHEROMONE_CEIL
  BY <1>0, WaterfallTyped, AccrualTyped, MeasuredTyped, RecordTyped
<1>2. /\ r.status \in Lifecycle \ {"Retired"}
      /\ r.principal = m.equity - accrual
  BY <1>0, SettledTyped
<1>3. /\ forager' \in [Forager -> ForagerRecord] /\ forager'[f] = r
      /\ \A g \in Forager \ {f} : forager'[g] = forager[g]
      /\ forager_vault' \in [Forager -> Nat]
      /\ \A g \in Forager \ {f} : forager_vault'[g] = forager_vault[g]
      /\ idle_base' = idle_base + w.from_bond + w.from_cache
      /\ vault_base' = vault_base + w.from_bond + w.from_cache
      /\ cache_balance' = cache_balance - w.from_cache + accrual
      /\ cache_vault' = cache_vault - w.from_cache + accrual
      /\ outstanding_principal'
            = outstanding_principal - forager[f].principal + (m.equity - accrual)
      /\ outstanding_principal' \in Nat
  BY SettleMoves
<1>4. /\ \/ /\ active_count_acc' = active_count_acc + 1
            /\ pheromone_sum_acc' = pheromone_sum_acc + m.pheromone
            /\ board' = TopInsert(board, m.pheromone, TOP_TRAILS_LEN)
         \/ UNCHANGED <<active_count_acc, pheromone_sum_acc, board>>
      /\ settled_count' = settled_count + 1
      /\ UNCHANGED <<clockVars, switchVars, publishedVars>>
      /\ UNCHANGED <<epoch, scout_pool, epoch_turnover_used, opened, settleable_forager_count>>
  BY DEF SettleForager, clockVars, spentVars, populationVars
<1> HIDE DEF m, w, accrual, r
<1>5. /\ active_count_acc' \in Nat /\ pheromone_sum_acc' \in Nat /\ settled_count' \in Nat
  <2>1. m.pheromone \in Nat
    BY <1>1, ParamsAssumption
  <2>2. QED
    BY <1>0, <1>4, <2>1, CountersTyped
<1>6. board' \in Seq(0..PHEROMONE_CEIL) /\ Len(board') <= TOP_TRAILS_LEN
  <2>1. board \in Seq(0..PHEROMONE_CEIL) /\ Len(board) <= TOP_TRAILS_LEN
    BY <1>0 DEF TypeOK
  <2>2. 0..PHEROMONE_CEIL \subseteq Int /\ TOP_TRAILS_LEN \in Nat
    BY ParamsAssumption
  <2>3. /\ TopInsert(board, m.pheromone, TOP_TRAILS_LEN) \in Seq(0..PHEROMONE_CEIL)
        /\ Len(TopInsert(board, m.pheromone, TOP_TRAILS_LEN)) <= TOP_TRAILS_LEN
    BY <1>1, <2>1, <2>2, BoardTyped
  <2>4. QED
    BY <1>4, <2>1, <2>3
<1>7. /\ idle_base' \in Nat /\ vault_base' = idle_base'
      /\ cache_balance' \in Nat /\ cache_vault' = cache_balance'
  BY <1>0, <1>1, <1>3, CountersTyped DEF CountersBacked
<1>8. TypeOK'
  <2>1. opened \subseteq Forager
    BY <1>0 DEF TypeOK
  <2>2. QED
    BY <1>0, <1>3, <1>4, <1>5, <1>6, <1>7, <2>1, CountersTyped, ForagerStepTypes
<1>9. CountersBacked'
  BY <1>7 DEF CountersBacked
<1>10. r.status # None /\ r.status # "Retired"
  BY <1>2 DEF Lifecycle, None
<1>11. QED
  BY <1>0, <1>2, <1>3, <1>4, <1>8, <1>9, <1>10, ColonyInvOneForager

(* A rebalance moves a metered amount one way or the other, and no more than *)
(* the side it leaves holds.                                               *)
LEMMA RebalanceMoves ==
    ASSUME ColonyInv, NEW f \in Forager, RebalanceForager(f)
    PROVE  \E delta \in Int, size \in Nat \ {0} :
               /\ MoveCapital(f, delta, size)
               /\ delta = size \/ delta = -size
               /\ epoch_turnover_used + size <= Share(allocatable_pool, config.turnover_cap_bps)
               /\ delta > 0 => delta <= idle_base
               /\ delta < 0 => /\ size <= forager[f].principal
                              /\ size <= outstanding_principal
                              /\ size <= SatSub(forager_vault[f], forager[f].bond)
<1> DEFINE current == forager[f].principal
           up == SatSub(Target(f), current)
           down == SatSub(current, Target(f))
           raise == Lesser(Metered(up), idle_base)
           recall == Lesser(Metered(down), Reclaimable(f))
           cap == Share(allocatable_pool, config.turnover_cap_bps)
<1>0. TypeOK
  BY DEF ColonyInv
<1>1. /\ current \in Nat /\ forager[f].bond \in Nat /\ forager_vault[f] \in Nat
      /\ Target(f) \in Nat /\ idle_base \in Nat /\ epoch_turnover_used \in Nat
      /\ outstanding_principal \in Nat /\ allocatable_pool \in Nat
  BY <1>0, RecordTyped, TargetTyped, CountersTyped
<1>2. config.turnover_cap_bps \in Nat
  BY <1>0, ConfigInForce
<1>3. current <= outstanding_principal
  BY <1>0, PrincipalsTyped DEF ColonyInv, OutstandingIsSum
<1>4. \A desired \in Nat :
        /\ Metered(desired) \in Nat
        /\ Metered(desired) > 0 => epoch_turnover_used + Metered(desired) <= cap
  BY <1>1, <1>2, MeteredFits DEF Metered
<1>5. cap \in Nat
  BY <1>1, <1>2, ShareTyped
<1>6. up \in Nat /\ down \in Nat
  BY <1>1, SatSubTyped
<1>7. /\ raise \in Nat /\ raise <= idle_base
      /\ raise > 0 => epoch_turnover_used + raise <= cap
  <2> HIDE DEF up, cap
  <2>1. QED
    BY <1>1, <1>4, <1>5, <1>6 DEF Lesser
<1>8. /\ recall \in Nat /\ recall <= current
      /\ recall <= SatSub(forager_vault[f], forager[f].bond)
      /\ recall > 0 => epoch_turnover_used + recall <= cap
  <2>1. /\ Reclaimable(f) \in Nat /\ Reclaimable(f) <= current
        /\ Reclaimable(f) <= SatSub(forager_vault[f], forager[f].bond)
    <3>1. SatSub(forager_vault[f], forager[f].bond) \in Nat
      BY <1>1, SatSubTyped
    <3>2. QED
      BY <1>1, <3>1, LesserTyped DEF Reclaimable
  <2>2. Metered(down) \in Nat
        /\ (Metered(down) > 0 => epoch_turnover_used + Metered(down) <= cap)
    BY <1>4, <1>6
  <2>3. SatSub(forager_vault[f], forager[f].bond) \in Nat
    BY <1>1, SatSubTyped
  <2> HIDE DEF down, cap
  <2>4. QED
    BY <1>1, <1>5, <2>1, <2>2, <2>3 DEF Lesser
<1>9. \/ raise > 0 /\ MoveCapital(f, raise, raise)
      \/ recall > 0 /\ MoveCapital(f, -recall, recall)
  BY DEF RebalanceForager
<1> HIDE DEF raise, recall, cap, current
<1>10. CASE raise > 0 /\ MoveCapital(f, raise, raise)
  <2>1. raise \in Int /\ raise \in Nat \ {0} /\ ~(raise < 0)
    BY <1>7, <1>10
  <2>2. QED
    BY <1>7, <1>10, <2>1 DEF cap
<1>11. CASE recall > 0 /\ MoveCapital(f, -recall, recall)
  <2>1. -recall \in Int /\ recall \in Nat \ {0} /\ ~(-recall > 0)
        /\ recall <= outstanding_principal
    BY <1>1, <1>3, <1>8, <1>11 DEF current
  <2>2. QED
    BY <1>8, <1>11, <2>1 DEF cap, current
<1>12. QED
  BY <1>9, <1>10, <1>11

LEMMA RebalanceKeeps ==
    ASSUME ColonyInv, NEW f \in Forager, RebalanceForager(f)
    PROVE  ColonyInv'
<1>0. TypeOK /\ CountersBacked /\ f \in opened
      /\ forager[f].status # "Retired" /\ forager[f].status # None
  BY DEF ColonyInv, RebalanceForager, RebalanceAdmitted
<1>1. PICK delta \in Int, size \in Nat \ {0} :
               /\ MoveCapital(f, delta, size)
               /\ delta = size \/ delta = -size
               /\ delta > 0 => delta <= idle_base
               /\ delta < 0 => /\ size <= forager[f].principal
                              /\ size <= outstanding_principal
                              /\ size <= SatSub(forager_vault[f], forager[f].bond)
  BY RebalanceMoves
<1> DEFINE before == forager[f].principal
           after == before + delta
           mark == RescaleHighWater(forager[f].high_water, before, after)
           r == [forager[f] EXCEPT !.principal = after, !.high_water = mark]
           held == forager_vault[f] + delta
<1>2. /\ forager[f] \in ForagerRecord /\ before \in Nat /\ forager[f].bond \in Nat
      /\ forager[f].high_water \in Nat /\ forager_vault[f] \in Nat
      /\ idle_base \in Nat /\ outstanding_principal \in Nat /\ vault_base = idle_base
      /\ epoch_turnover_used \in Nat
  BY <1>0, RecordTyped, CountersTyped DEF CountersBacked
<1>3. /\ after \in Nat /\ held \in Nat
      /\ idle_base - delta \in Nat /\ outstanding_principal + delta \in Nat
      /\ epoch_turnover_used + size \in Nat
  <2>1. CASE delta > 0
    BY <1>1, <1>2, <2>1
  <2>2. CASE delta < 0
    <3>1. /\ SatSub(forager_vault[f], forager[f].bond) \in Nat
          /\ SatSub(forager_vault[f], forager[f].bond) <= forager_vault[f]
      BY <1>2, SatSubTyped
    <3>2. size <= forager_vault[f]
      BY <1>1, <1>2, <2>2, <3>1
    <3>3. QED
      BY <1>1, <1>2, <2>2, <3>2
  <2>3. QED
    BY <1>1, <2>1, <2>2
<1>4. mark \in Nat
  BY <1>2, <1>3, MarkTyped
<1>5. /\ forager' = [forager EXCEPT ![f] = r]
      /\ forager_vault' = [forager_vault EXCEPT ![f] = held]
      /\ idle_base' = idle_base - delta /\ vault_base' = vault_base - delta
      /\ outstanding_principal' = outstanding_principal + delta
      /\ epoch_turnover_used' = epoch_turnover_used + size
      /\ UNCHANGED <<clockVars, switchVars, tallyVars, publishedVars>>
      /\ UNCHANGED <<epoch, scout_pool, opened, settleable_forager_count, cache_balance,
                     cache_vault>>
  BY <1>1 DEF MoveCapital, clockVars, populationVars, cacheVars
<1> HIDE DEF mark, after, held
<1>6. /\ r \in ForagerRecord /\ r.status = forager[f].status /\ r.principal = after
  BY <1>2, <1>3, <1>4 DEF ForagerRecord
<1> HIDE DEF r
<1>7. /\ forager' \in [Forager -> ForagerRecord] /\ forager'[f] = r
      /\ \A g \in Forager \ {f} : forager'[g] = forager[g]
  BY <1>0, <1>5, <1>6, RecordReplaced
<1>8. /\ forager_vault' \in [Forager -> Nat]
      /\ \A g \in Forager \ {f} : forager_vault'[g] = forager_vault[g]
  BY <1>0, <1>3, <1>5, VaultReplaced
<1>9. /\ idle_base' \in Nat /\ vault_base' = idle_base' /\ outstanding_principal' \in Nat
      /\ epoch_turnover_used' \in Nat
  BY <1>2, <1>3, <1>5
<1>10. TypeOK'
  <2>1. opened \subseteq Forager
    BY <1>0 DEF TypeOK
  <2>2. QED
    BY <1>0, <1>5, <1>7, <1>8, <1>9, <2>1, CountersTyped, MoneyStepTypes
<1>11. CountersBacked'
  BY <1>0, <1>5, <1>9 DEF CountersBacked
<1>12. outstanding_principal' = outstanding_principal - forager[f].principal + r.principal
  BY <1>1, <1>2, <1>3, <1>5, <1>6 DEF after
<1>13. QED
  BY <1>0, <1>5, <1>6, <1>7, <1>8, <1>10, <1>11, <1>12, ColonyInvOneForager

-----------------------------------------------------------------------------
LEMMA ColonyInvStep == ColonyInv /\ [Next]_vars => ColonyInv'
<1> SUFFICES ASSUME ColonyInv, [Next]_vars PROVE ColonyInv'
  OBVIOUS
<1>1. ASSUME NEW f \in Forager, ForagerStep(f)
      PROVE  ColonyInv'
  BY <1>1, RegisterKeeps, OpenKeeps, TopUpKeeps, PromoteKeeps, RetireKeeps, FundScoutKeeps,
     SlashKeeps, SettleKeeps, RebalanceKeeps, TradeKeeps DEF ForagerStep
<1>2. CASE FinalizeSettlement
  BY <1>2, FinalizeKeeps
<1>3. CASE \/ Tick
           \/ \E p \in Switch : SetPaused(p)
           \/ \E patch \in Patches : UpdateConfig(patch)
           \/ \E assets \in Stakes : PayIn(assets) \/ PayOut(assets)
           \/ \E amount \in Premiums : FundCache(amount)
           \/ BeginSettlement
           \/ UNCHANGED vars
  BY <1>3, EnvironmentKeeps
<1>4. QED
  BY <1>1, <1>2, <1>3 DEF Next

(* The inductive invariant holds in every reachable state: the books of the  *)
(* colony balance through every order of settlements, slashes, tickets,      *)
(* rebalances, retirements and trades.                                     *)
THEOREM ColonyInvariant == Spec => []ColonyInv
<1>1. Init => ColonyInv
  BY ColonyInvInit
<1>2. ColonyInv /\ [Next]_vars => ColonyInv'
  BY ColonyInvStep
<1>3. QED
  BY <1>1, <1>2, PTL DEF Spec

(* Every variable keeps its type: no unsigned field of the code would ever   *)
(* have to go below zero.                                                  *)
THEOREM ColonyTyped == Spec => []TypeOK
<1>1. ColonyInv => TypeOK
  BY DEF ColonyInv
<1>2. QED
  BY <1>1, ColonyInvariant, PTL

(* What prices the shares is what the foragers carry: outstanding_principal  *)
(* is the sum of their principals.                                         *)
THEOREM OutstandingAlwaysSum == Spec => []OutstandingIsSum
<1>1. ColonyInv => OutstandingIsSum
  BY DEF ColonyInv
<1>2. QED
  BY <1>1, ColonyInvariant, PTL

(* Each credited unit of idle_base and of the cache is a token in its vault.  *)
THEOREM CountersAlwaysBacked == Spec => []CountersBacked
<1>1. ColonyInv => CountersBacked
  BY DEF ColonyInv
<1>2. QED
  BY <1>1, ColonyInvariant, PTL

(* A retired forager leaves nothing behind.                                *)
THEOREM RetiredAlwaysEmpty == Spec => []RetiredIsEmpty
<1>1. ColonyInv => RetiredIsEmpty
  BY DEF ColonyInv
<1>2. QED
  BY <1>1, ColonyInvariant, PTL

(* settle_forager is never refused for want of tokens, so no forager can      *)
(* hold up the crank.                                                      *)
THEOREM SettlementsAlwaysPayable == Spec => []SettleAlwaysPayable
<1>1. ColonyInv => SettleAlwaysPayable
  BY SettlementCovered DEF ColonyInv, SettleAlwaysPayable
<1>2. QED
  BY <1>1, ColonyInvariant, PTL
=============================================================================
