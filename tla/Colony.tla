------------------------------- MODULE Colony -------------------------------
(***************************************************************************)
(* The colony with its money: the epoch crank, the foragers' sub-accounts,  *)
(* trails and collateral, the Risk Cache and the vault's credited counters. *)
(*                                                                         *)
(* One step is one transaction.  A handler that returns an error, or whose  *)
(* token transfer fails, is reverted as a whole, so an action is enabled    *)
(* exactly when the handler returns Ok and every transfer is covered.       *)
(* The depositors' shares are module Brood; here depositors are the two     *)
(* steps that move idle_base.  The incinerator only receives: what a slash  *)
(* burns leaves the model.  Trading is done from the sub-account by the  *)
(* operator and is no instruction of the program: it is an external step.   *)
(***************************************************************************)
EXTENDS ColonyParams, FiniteSets, FiniteSetsExt

CONSTANTS
    Forager,    \* the forager records that may ever be registered
    MaxEpoch,   \* bound: no settlement begins once epoch exceeds MaxEpoch
    Stakes, TopUps, Premiums,  \* amounts depositors, operators and cache funders pay in
    Patches,    \* edits of the parameters, as records of the fields they set
    Switch,     \* settings of the pause switch that are explored
    Moves,      \* what trading may add to (or take from) a sub-account in one step
    MaxNav, MaxVault, MaxBond, MaxCache  \* bounds on balances

ASSUME ForagerAssumption == IsFiniteSet(Forager)
ASSUME MaxEpochAssumption == MaxEpoch \in Nat
ASSUME AmountsAssumption ==
    /\ Stakes \subseteq Nat \ {0}
    /\ TopUps \subseteq Nat \ {0}
    /\ Premiums \subseteq Nat \ {0}
    /\ Moves \subseteq Int
    /\ \A patch \in Patches : DOMAIN patch \subseteq DOMAIN Params
    /\ Switch \subseteq BOOLEAN
    /\ {MaxNav, MaxVault, MaxBond, MaxCache} \subseteq Nat

VARIABLES
    \* ColonyConfig: the clock of the crank
    epoch, settling_epoch, epoch_phase, epoch_over, paused,
    config,           \* its tunable parameters, one record
    \* ColonyConfig: its counters and accumulators
    settleable_forager_count, settled_count, active_count_acc, active_forager_count,
    pheromone_sum_acc,
    \* ColonyConfig: what the last finalize published for the open epoch
    level,            \* [remaining_bps, rest_sum]
    allocatable_pool, scout_pool, epoch_turnover_used,
    \* TrailBoard.top, its occupied slots
    board,
    \* ForagerState of every forager, and who has a sub-account
    forager, opened,
    \* BroodVaultState and RiskCacheState counters
    idle_base, outstanding_principal, cache_balance,
    \* token accounts
    forager_vault, vault_base, cache_vault

clockVars == <<epoch, settling_epoch, epoch_phase, epoch_over>>
tallyVars == <<settled_count, active_count_acc, pheromone_sum_acc, board>>
publishedVars == <<active_forager_count, level, allocatable_pool>>
spentVars == <<scout_pool, epoch_turnover_used>>
populationVars == <<opened, settleable_forager_count>>
broodVars == <<idle_base, outstanding_principal, vault_base>>
cacheVars == <<cache_balance, cache_vault>>
switchVars == <<paused, config>>
vars == <<clockVars, switchVars, tallyVars, publishedVars, spentVars, populationVars,
          forager, forager_vault, broodVars, cacheVars>>

None == "None"
Lifecycle == {"Scout", "Active", "Probation", "Slashed", "Retired"}

BlankForager == [
    status |-> None, bond |-> 0, principal |-> 0, pheromone |-> 0, high_water |-> 0,
    current_drawdown_bps |-> 0, last_settled_epoch |-> 0, last_scout_epoch |-> 0,
    scout_epochs |-> 0, realized_epochs |-> 0, scout_perf_cum_bps |-> 0,
    realized_pnl_cumulative |-> 0]

-----------------------------------------------------------------------------
(* Derived values the handlers compute.  An operator named Fault... is a    *)
(* faulty variant of the one below it (README, mutation testing).           *)

nav == idle_base + outstanding_principal

EffMaxWeight(active) ==
    EffectiveMaxWeightBps(config.w_max_bps, active, CAP_RELAX_MARGIN_BPS)

FaultAgainstTotal(f, bond) ==
    RealizedEpochPnl(forager_vault[f], bond, outstanding_principal)
Realized(f, bond) == RealizedEpochPnl(forager_vault[f], bond, forager[f].principal)

(* What settle_forager measures of f, the bond excluded.  The recorded bond *)
(* is first written down to what the sub-account still holds.               *)
Measured(f) ==
    LET r == forager[f]
        bond == RecoverableBond(r.bond, forager_vault[f])
        equity == SatSub(forager_vault[f], bond)
        realized == Realized(f, bond)
        high_water == Greater(r.high_water, equity)
        drawdown == DrawdownBps(high_water, equity)
        perf == RiskAdjustedPerfBps(ReturnBps(realized, r.principal), drawdown,
                                    config.risk_aversion_bps)
        deposit == Deposit(perf, config.perf_norm_s_bps, config.deposit_scale_q)
    IN  [bond |-> bond, equity |-> equity, realized |-> realized,
         high_water |-> high_water, drawdown_bps |-> drawdown, perf_bps |-> perf,
         pheromone |-> UpdatePheromone(r.pheromone, deposit, config.rho_bps, PHEROMONE_CEIL)]

(* The loss waterfall of a measured loss: bond, then cache. *)
Waterfall(m) ==
    IF m.realized < 0 THEN CoverLoss(-m.realized, m.bond, cache_balance)
    ELSE [from_bond |-> 0, from_cache |-> 0]

FaultReimbursedFromBondOnly(w) == w.from_bond
FaultBondReimbursedTwice(w) == 2 * w.from_bond + w.from_cache
Reimbursed(w) == w.from_bond + w.from_cache

(* The cut of a measured profit the cache takes while under its target. *)
Accrual(f, m) ==
    LET nav_now == idle_base + SatSub(outstanding_principal, forager[f].principal) + m.equity
    IN  IF m.realized > 0 /\ cache_balance < Share(nav_now, config.cache_reserve_target_bps)
        THEN Lesser(CacheAccrual(m.realized, config.cache_accrual_bps), m.equity)
        ELSE 0

FaultOthersForgotten(f, m, accrual) == SatSub(m.equity, accrual)
FaultAccrualStaysOutstanding(f, m, accrual) ==
    SatSub(outstanding_principal, forager[f].principal) + m.equity
OutstandingAfter(f, m, accrual) ==
    SatSub(SatSub(outstanding_principal, forager[f].principal) + m.equity, accrual)

(* Probation on a deep realized loss, recovery from it, then demotion of a  *)
(* weak trail, weighed against the level of the previous finalize.          *)
StatusBeforeDemotion(s, m) ==
    IF s = "Active" /\ m.realized < 0 /\ m.drawdown_bps >= config.dd_probation_bps
    THEN "Probation"
    ELSE IF s = "Probation" /\ m.drawdown_bps < config.dd_probation_bps
    THEN "Active"
    ELSE s

Demoted(s, m) ==
    /\ StatusBeforeDemotion(s, m) = "Active"
    /\ WeightBpsFromLevel(m.pheromone, level, EffMaxWeight(active_forager_count))
          < config.w_drop_bps

StatusAfter(s, m) == IF Demoted(s, m) THEN "Scout" ELSE StatusBeforeDemotion(s, m)

FaultDemotedStillCounts(s, m) == StatusBeforeDemotion(s, m) = "Active"
CountsActive(s, m) == StatusAfter(s, m) = "Active"

(* The allocation a rebalance moves f toward, by lifecycle state. *)
Target(f) ==
    LET r == forager[f]
        earned == Lesser(AllocationTarget(r.pheromone, level, allocatable_pool,
                                          EffMaxWeight(active_forager_count)),
                         BondCapacity(r.bond, config.bond_ratio_bps, config.bond_haircut_bps))
    IN  CASE r.status = "Active"    -> earned
          [] r.status = "Scout"     -> Lesser(config.scout_ticket_base_units, r.principal)
          [] r.status = "Probation" -> Lesser(earned, r.principal)
          [] OTHER                  -> 0

Metered(desired) ==
    ApplyTurnoverCap(desired, epoch_turnover_used, allocatable_pool, config.turnover_cap_bps)

(* What is idle in the sub-account above the recorded bond. *)
Reclaimable(f) ==
    Lesser(SatSub(forager_vault[f], forager[f].bond), forager[f].principal)

FaultTicketEveryCall(f) == TRUE
TicketDue(f) == forager[f].last_scout_epoch < epoch

FaultResidueLeftBehind(f) == 0
SweptBase(f) == SatSub(forager_vault[f], forager[f].bond)

-----------------------------------------------------------------------------
(* initialize_colony, initialize_brood, initialize_risk_cache,             *)
(* initialize_trail_board and the three open_* calls have been made.       *)

Init ==
    /\ epoch = 1 /\ settling_epoch = 0 /\ epoch_phase = "Open" /\ epoch_over = FALSE
    /\ paused = FALSE /\ config = Params
    /\ settleable_forager_count = 0 /\ settled_count = 0
    /\ active_count_acc = 0 /\ active_forager_count = 0 /\ pheromone_sum_acc = 0
    /\ level = [remaining_bps |-> BPS_DENOM, rest_sum |-> 0]
    /\ allocatable_pool = 0 /\ scout_pool = 0 /\ epoch_turnover_used = 0
    /\ board = <<>>
    /\ forager = [f \in Forager |-> BlankForager]
    /\ opened = {}
    /\ idle_base = 0 /\ outstanding_principal = 0 /\ cache_balance = 0
    /\ forager_vault = [f \in Forager |-> 0]
    /\ vault_base = 0 /\ cache_vault = 0

(* The clock reaches epoch_end_ts. *)
Tick ==
    /\ ~epoch_over
    /\ epoch_over' = TRUE
    /\ UNCHANGED <<epoch, settling_epoch, epoch_phase, switchVars, tallyVars, publishedVars,
                   spentVars, populationVars, forager, forager_vault, broodVars, cacheVars>>

SetPaused(p) ==
    /\ paused' = p
    /\ UNCHANGED <<config, clockVars, tallyVars, publishedVars, spentVars, populationVars, forager,
                   forager_vault, broodVars, cacheVars>>

(* In any phase; what the last finalize published stays as it was.          *)
UpdateConfig(patch) ==
    LET merged == [name \in DOMAIN config |->
                       IF name \in DOMAIN patch THEN patch[name] ELSE config[name]]
    IN  /\ Validate(merged)
        /\ config' = merged
        /\ UNCHANGED <<clockVars, paused, tallyVars, publishedVars, spentVars, populationVars,
                       forager, forager_vault, broodVars, cacheVars>>

(* deposit and withdraw, seen from the colony: idle_base and the tokens     *)
(* behind it move together.  deposit is gated by pause only.                *)
PayIn(assets) ==
    /\ ~paused
    /\ nav + assets <= MaxNav
    /\ idle_base' = idle_base + assets
    /\ vault_base' = vault_base + assets
    /\ UNCHANGED <<clockVars, switchVars, tallyVars, publishedVars, spentVars, populationVars,
                   forager, forager_vault, outstanding_principal, cacheVars>>

PayOut(assets) ==
    /\ assets <= idle_base
    /\ idle_base' = idle_base - assets
    /\ vault_base' = vault_base - assets
    /\ UNCHANGED <<clockVars, switchVars, tallyVars, publishedVars, spentVars, populationVars,
                   forager, forager_vault, outstanding_principal, cacheVars>>

FundCache(amount) ==
    /\ cache_balance + amount <= MaxCache
    /\ cache_balance' = cache_balance + amount
    /\ cache_vault' = cache_vault + amount
    /\ UNCHANGED <<clockVars, switchVars, tallyVars, publishedVars, spentVars, populationVars,
                   forager, forager_vault, broodVars>>

(* External: the operator trades from the sub-account, bond included.  To   *)
(* bound the interleavings trades happen once the epoch's time is over,      *)
(* which may be long before somebody begins the settlement, or during it.   *)
Trade(f, move) ==
    /\ epoch_over
    /\ f \in opened
    /\ forager[f].status # "Retired"
    /\ forager_vault[f] + move \in 0..MaxVault
    /\ move > 0 => idle_base + forager_vault[f] + move <= MaxNav
    /\ forager_vault' = [forager_vault EXCEPT ![f] = @ + move]
    /\ UNCHANGED <<clockVars, switchVars, tallyVars, publishedVars, spentVars, populationVars,
                   forager, broodVars, cacheVars>>

-----------------------------------------------------------------------------
(* Lifecycle of one forager (instructions/forager.rs).                     *)

RegisterForager(f) ==
    /\ epoch_phase = "Open"
    /\ ~paused
    /\ forager[f].status = None
    /\ forager' = [forager EXCEPT ![f] = [BlankForager EXCEPT !.status = "Scout",
                                                              !.last_settled_epoch = epoch]]
    /\ UNCHANGED <<clockVars, switchVars, tallyVars, publishedVars, spentVars, populationVars,
                   forager_vault, broodVars, cacheVars>>

OpenForagerVault(f) ==
    /\ epoch_phase = "Open"
    /\ forager[f].status # None
    /\ f \notin opened
    /\ opened' = opened \cup {f}
    /\ forager' = [forager EXCEPT ![f].last_settled_epoch = SatSub(epoch, 1)]
    /\ settleable_forager_count' = settleable_forager_count + 1
    /\ UNCHANGED <<clockVars, switchVars, tallyVars, publishedVars, spentVars,
                   forager_vault, broodVars, cacheVars>>

TopUpInto(f, amount, credited) ==
    /\ f \in opened
    /\ forager[f].status # "Retired"
    /\ forager[f].bond + amount <= MaxBond
    /\ forager[f].bond + amount + cache_balance <= MaxCache
    /\ forager_vault' = [forager_vault EXCEPT ![f] = @ + amount]
    /\ forager' = [forager EXCEPT ![f].bond = @ + credited]
    /\ UNCHANGED <<clockVars, switchVars, tallyVars, publishedVars, spentVars, populationVars,
                   broodVars, cacheVars>>

FaultTopUpUncredited(f, amount) == TopUpInto(f, amount, 0)
TopUpBond(f, amount) == TopUpInto(f, amount, amount)

CriteriaMet(r) ==
    /\ r.scout_epochs >= config.promote_min_epochs
    /\ r.realized_epochs >= config.promote_min_realized_epochs
    /\ r.scout_perf_cum_bps >= config.promote_perf_bar_bps
    /\ r.realized_pnl_cumulative >= 0

PromoteForager(f) ==
    /\ forager[f].status = "Scout"
    /\ CriteriaMet(forager[f])
    /\ forager[f].bond >= config.min_bond
    /\ forager' = [forager EXCEPT
            ![f].status = "Active",
            ![f].pheromone = Lesser(@, config.promote_tau_seed_cap)]
    /\ UNCHANGED <<clockVars, switchVars, tallyVars, publishedVars, spentVars, populationVars,
                   forager_vault, broodVars, cacheVars>>

(* At most the bond goes back to the operator; the rest is swept to the     *)
(* vault and credited as idle.                                              *)
RetireForager(f) ==
    /\ epoch_phase = "Open"
    /\ f \in opened
    /\ forager[f].status # "Retired"
    /\ forager[f].principal = 0
    /\ LET returned_bond == Lesser(forager[f].bond, forager_vault[f])
       IN  forager_vault' = [forager_vault EXCEPT ![f] = @ - returned_bond - SweptBase(f)]
    /\ vault_base' = vault_base + SweptBase(f)
    /\ idle_base' = idle_base + SweptBase(f)
    /\ forager' = [forager EXCEPT ![f].bond = 0, ![f].status = "Retired"]
    /\ settleable_forager_count' = SatSub(settleable_forager_count, 1)
    /\ UNCHANGED <<clockVars, switchVars, tallyVars, publishedVars, spentVars, opened,
                   outstanding_principal, cacheVars>>

-----------------------------------------------------------------------------
(* Exploration budget and slashing (instructions/risk.rs).                 *)

FundScout(f) ==
    LET ticket == config.scout_ticket_base_units
    IN  /\ epoch_phase = "Open"
        /\ ~paused
        /\ f \in opened
        /\ forager[f].status = "Scout"
        /\ TicketDue(f)
        /\ scout_pool >= ticket
        /\ idle_base >= ticket
        /\ vault_base >= ticket
        /\ scout_pool' = scout_pool - ticket
        /\ idle_base' = idle_base - ticket
        /\ outstanding_principal' = outstanding_principal + ticket
        /\ forager' = [forager EXCEPT ![f].principal = @ + ticket,
                                      ![f].last_scout_epoch = epoch]
        /\ vault_base' = vault_base - ticket
        /\ forager_vault' = [forager_vault EXCEPT ![f] = @ + ticket]
        /\ UNCHANGED <<clockVars, switchVars, tallyVars, publishedVars, epoch_turnover_used,
                       populationVars, cacheVars>>

(* punitive_slash_bps: a loss-threshold slash seizes the ramp and is        *)
(* refused when the ramp is zero; rule violations and silence cost the      *)
(* whole bond.                                                              *)
SlashBps(f) ==
    {BPS_DENOM} \cup
        ({LossSlashBps(forager[f].current_drawdown_bps, config.dd_slash_bps)} \ {0})

(* The authority, in any phase.  The transfers fail if the sub-account holds *)
(* less than what is seized.                                                *)
SlashForager(f, slash_bps) ==
    LET out == SlashSplit(forager[f].bond, slash_bps, config.slash_burn_bps)
        bond_after == forager[f].bond - out.slashed
    IN  /\ f \in opened
        /\ forager[f].status # "Retired"
        /\ out.slashed <= forager_vault[f]
        /\ forager' = [forager EXCEPT
                ![f].bond = bond_after,
                ![f].status = IF bond_after < config.min_bond THEN "Slashed" ELSE "Scout"]
        /\ forager_vault' = [forager_vault EXCEPT ![f] = @ - out.burn - out.to_cache]
        /\ cache_vault' = cache_vault + out.to_cache
        /\ cache_balance' = cache_balance + out.to_cache
        /\ UNCHANGED <<clockVars, switchVars, tallyVars, publishedVars, spentVars,
                       populationVars, broodVars>>

-----------------------------------------------------------------------------
(* The crank (instructions/settlement.rs).                                 *)

BeginSettlement ==
    /\ epoch <= MaxEpoch
    /\ epoch_phase = "Open"
    /\ epoch_over
    /\ settleable_forager_count > 0
    /\ epoch' = IF epoch = 0 THEN 1 ELSE epoch
    /\ settling_epoch' = epoch'
    /\ epoch_phase' = "Settling"
    /\ settled_count' = 0
    /\ active_count_acc' = 0
    /\ pheromone_sum_acc' = 0
    /\ board' = <<>>
    /\ UNCHANGED <<epoch_over, switchVars, publishedVars, spentVars, populationVars, forager,
                   forager_vault, broodVars, cacheVars>>

(* The record settle_forager writes back. *)
SettledRecord(f, m) ==
    LET accrual == Accrual(f, m)
        scouting == IF forager[f].status = "Scout" THEN 1 ELSE 0
    IN  [forager[f] EXCEPT
            !.status = StatusAfter(@, m),
            !.bond = m.bond - Waterfall(m).from_bond,
            !.principal = m.equity - accrual,
            !.pheromone = m.pheromone,
            !.high_water = IF accrual > 0
                           THEN RescaleHighWater(m.high_water, m.equity, m.equity - accrual)
                           ELSE m.high_water,
            !.current_drawdown_bps = m.drawdown_bps,
            !.last_settled_epoch = settling_epoch,
            !.scout_epochs = @ + scouting,
            !.scout_perf_cum_bps = @ + scouting * m.perf_bps,
            !.realized_epochs = @ + (IF m.realized # 0 THEN 1 ELSE 0),
            !.realized_pnl_cumulative = @ + m.realized]

(* Every transfer of the settlement is covered by the account it leaves. *)
SettlePayable(f) ==
    LET m == Measured(f)
        w == Waterfall(m)
    IN  /\ w.from_bond + Accrual(f, m) <= forager_vault[f]
        /\ w.from_cache <= cache_vault

SettleForager(f) ==
    LET m == Measured(f)
        w == Waterfall(m)
        accrual == Accrual(f, m)
    IN  /\ epoch_phase = "Settling"
        /\ f \in opened
        /\ forager[f].last_settled_epoch < settling_epoch
        /\ forager[f].status # "Retired"
        /\ SettlePayable(f)
        /\ forager' = [forager EXCEPT ![f] = SettledRecord(f, m)]
        /\ forager_vault' = [forager_vault EXCEPT ![f] = @ - w.from_bond - accrual]
        /\ vault_base' = vault_base + w.from_bond + w.from_cache
        /\ idle_base' = idle_base + Reimbursed(w)
        /\ outstanding_principal' = OutstandingAfter(f, m, accrual)
        /\ cache_vault' = cache_vault - w.from_cache + accrual
        /\ cache_balance' = cache_balance - w.from_cache + accrual
        /\ IF CountsActive(forager[f].status, m)
           THEN /\ active_count_acc' = active_count_acc + 1
                /\ pheromone_sum_acc' = pheromone_sum_acc + m.pheromone
                /\ board' = TopInsert(board, m.pheromone, TOP_TRAILS_LEN)
           ELSE UNCHANGED <<active_count_acc, pheromone_sum_acc, board>>
        /\ settled_count' = settled_count + 1
        /\ UNCHANGED <<clockVars, switchVars, publishedVars, spentVars, populationVars>>

FinalizeSettlement ==
    LET scout_share == Share(nav, config.scout_budget_bps)
    IN  /\ epoch_phase = "Settling"
        /\ settled_count = settleable_forager_count
        /\ level' = SolveCapLevel(pheromone_sum_acc, board, active_count_acc,
                                  EffMaxWeight(active_count_acc))
        /\ scout_pool' = scout_share
        /\ allocatable_pool' = SatSub(nav, scout_share)
        /\ active_forager_count' = active_count_acc
        /\ epoch' = epoch + 1
        /\ epoch_over' = FALSE
        /\ epoch_phase' = "Open"
        /\ epoch_turnover_used' = 0
        /\ board' = <<>>
        /\ UNCHANGED <<settling_epoch, switchVars, settled_count, active_count_acc,
                       pheromone_sum_acc, populationVars, forager, forager_vault, broodVars,
                       cacheVars>>

(* A rebalance of f is admitted outside the no-trade band. *)
RebalanceAdmitted(f) ==
    /\ epoch_phase = "Open"
    /\ ~paused
    /\ f \in opened
    /\ forager[f].status # "Retired"
    /\ ~WithinNoTradeBand(forager[f].principal, Target(f), allocatable_pool,
                          config.reband_band_bps)

(* Move delta from the vault to f, or back when delta is negative; the mark  *)
(* is rebased on the same flow.                                             *)
MoveCapital(f, delta, size) ==
    LET before == forager[f].principal
    IN  /\ idle_base' = idle_base - delta
        /\ vault_base' = vault_base - delta
        /\ outstanding_principal' = outstanding_principal + delta
        /\ forager_vault' = [forager_vault EXCEPT ![f] = @ + delta]
        /\ forager' = [forager EXCEPT ![f].principal = before + delta,
                                      ![f].high_water = RescaleHighWater(@, before, before + delta)]
        /\ epoch_turnover_used' = epoch_turnover_used + size
        /\ UNCHANGED <<clockVars, switchVars, tallyVars, publishedVars, scout_pool,
                       populationVars, cacheVars>>

RebalanceForager(f) ==
    /\ RebalanceAdmitted(f)
    /\ LET current == forager[f].principal
           raise == Lesser(Metered(SatSub(Target(f), current)), idle_base)
           recall == Lesser(Metered(SatSub(current, Target(f))), Reclaimable(f))
       IN  \/ /\ Target(f) > current
              /\ raise > 0
              /\ raise <= vault_base
              /\ MoveCapital(f, raise, raise)
           \/ /\ Target(f) <= current
              /\ recall > 0
              /\ MoveCapital(f, -recall, recall)

-----------------------------------------------------------------------------
ForagerStep(f) ==
    \/ RegisterForager(f)
    \/ OpenForagerVault(f)
    \/ \E amount \in TopUps : TopUpBond(f, amount)
    \/ PromoteForager(f)
    \/ RetireForager(f)
    \/ FundScout(f)
    \/ \E slash_bps \in SlashBps(f) : SlashForager(f, slash_bps)
    \/ SettleForager(f)
    \/ RebalanceForager(f)
    \/ \E move \in Moves : Trade(f, move)

Next ==
    \/ Tick
    \/ \E p \in Switch : SetPaused(p)
    \/ \E patch \in Patches : UpdateConfig(patch)
    \/ \E assets \in Stakes : PayIn(assets) \/ PayOut(assets)
    \/ \E amount \in Premiums : FundCache(amount)
    \/ \E f \in Forager : ForagerStep(f)
    \/ BeginSettlement
    \/ FinalizeSettlement

Spec == Init /\ [][Next]_vars

-----------------------------------------------------------------------------
(* Properties.                                                             *)

ForagerRecord == [
    status : Lifecycle \cup {None}, bond : Nat, principal : Nat,
    pheromone : 0..PHEROMONE_CEIL, high_water : Nat, current_drawdown_bps : 0..BPS_DENOM,
    last_settled_epoch : Nat, last_scout_epoch : Nat, scout_epochs : Nat,
    realized_epochs : Nat, scout_perf_cum_bps : Int, realized_pnl_cumulative : Int]

(* Every variable has its type; unsigned fields of the code never go below  *)
(* zero, so no saturating or checked subtraction ever loses anything.       *)
TypeOK ==
    /\ {epoch, settling_epoch, settleable_forager_count, settled_count, active_count_acc,
        active_forager_count, pheromone_sum_acc, allocatable_pool, scout_pool,
        epoch_turnover_used, idle_base, outstanding_principal, cache_balance,
        vault_base, cache_vault} \subseteq Nat
    /\ epoch_phase \in {"Open", "Settling"}
    /\ {epoch_over, paused} \subseteq BOOLEAN
    /\ level \in [remaining_bps : 0..BPS_DENOM, rest_sum : Nat]
    /\ Validate(config)
    /\ board \in Seq(0..PHEROMONE_CEIL) /\ Len(board) <= TOP_TRAILS_LEN
    /\ forager \in [Forager -> ForagerRecord]
    /\ opened \subseteq Forager
    /\ forager_vault \in [Forager -> Nat]

(* What each forager record carries of the colony's capital. *)
principals == [f \in Forager |-> forager[f].principal]

(* outstanding_principal, which prices every share, is the sum of what the  *)
(* forager records carry, although settlement, rebalancing, scout funding   *)
(* and cache accrual all adjust the two sides separately.                  *)
OutstandingIsSum ==
    outstanding_principal = SumFunctionOnSet(principals, Forager)

(* The credited counters are backed by tokens: each unit of idle_base and    *)
(* of the cache balance is in its token account.                           *)
CountersBacked == vault_base = idle_base /\ cache_vault = cache_balance

Settles(f) ==
    epoch_phase = "Settling" /\ forager'[f].last_settled_epoch # forager[f].last_settled_epoch

Awaits(f) ==
    /\ epoch_phase = "Settling"
    /\ f \in opened
    /\ forager[f].status # "Retired"
    /\ forager[f].last_settled_epoch < settling_epoch

(* settle_forager never asks an account for more than it holds, so one      *)
(* ruined forager cannot hold up the crank (math.rs, recoverable_bond): the  *)
(* money adds no guard to the SettleForager whose fairness Crank assumes.     *)
SettleAlwaysPayable ==
    \A f \in Forager : Awaits(f) => SettlePayable(f)

(* A retired forager leaves nothing behind: no claim of the colony, no      *)
(* bond, no token of either in the sub-account.                            *)
RetiredIsEmpty ==
    \A f \in Forager : forager[f].status = "Retired" =>
        forager[f].principal = 0 /\ forager[f].bond = 0 /\ forager_vault[f] = 0

(* The strengthening the invariants above need to be inductive: records are  *)
(* blank until registered, which they are before their sub-account opens, and *)
(* hold no bond until then.                                                *)
ColonyInv ==
    /\ TypeOK
    /\ OutstandingIsSum
    /\ CountersBacked
    /\ RetiredIsEmpty
    /\ epoch >= 1
    /\ \A f \in Forager : forager[f].status = None => forager[f] = BlankForager
    /\ \A f \in opened : forager[f].status # None
    /\ \A f \in Forager \ opened : forager[f].bond = 0

(* The capital moved in an open epoch stays within the turnover cap in force, *)
(* in however many rebalances it is moved.                                  *)
TurnoverWithinCap ==
    [][epoch_turnover_used' > epoch_turnover_used =>
        epoch_turnover_used' <= Share(allocatable_pool, config.turnover_cap_bps)]_vars

(* "Ordering cannot be gamed" (settlement.rs): a settlement leaves untouched  *)
(* what every forager still waiting will be measured at and weighed against,  *)
(* hence its bond, trail, drawdown, status and promotion record.  Only what   *)
(* its profit pays into the cache, and so its principal, depends on the order.*)
NoOrderingAdvantage ==
    [][\A f, g \in Forager :
        (f # g /\ Settles(f) /\ Awaits(g)) =>
            /\ Measured(g)' = Measured(g)
            /\ UNCHANGED <<forager[g], level, active_forager_count>>]_vars

(* The order of the loss waterfall: in a settling step depositors lose      *)
(* nothing unless the bond and the cache are both exhausted, and the cache   *)
(* pays nothing unless the bond is exhausted (risk-spec 4.2).               *)
WaterfallOrder ==
    [][\A f \in Forager :
        Settles(f) =>
            /\ nav' < nav => forager'[f].bond = 0 /\ cache_balance' = 0
            /\ cache_balance' < cache_balance => forager'[f].bond = 0]_vars

(* Collateral and capital flows are not performance and move no share       *)
(* price: posting a bond, a slash, a scout ticket and a rebalance leave what *)
(* settle_forager would measure of the forager, and nav, as they found them. *)
(* A sub-account that no longer covers its bond is the exception: capital   *)
(* that arrives there fills the hole first.                                *)
FlowsAreNotPerformance ==
    [][\A f \in Forager :
        (/\ forager_vault'[f] # forager_vault[f]
         /\ \/ \E amount \in TopUps : TopUpBond(f, amount)
            \/ \E slash_bps \in SlashBps(f) : SlashForager(f, slash_bps)
            \/ forager_vault[f] >= forager[f].bond /\ (FundScout(f) \/ RebalanceForager(f)))
        => nav' = nav /\ Measured(f)'.realized = Measured(f).realized]_vars

(* The exploration budget is spent in tickets, at most one per scout: within *)
(* an epoch the pool falls by exactly one ticket for each scout that drew.   *)
TicketsMatchScoutPool ==
    [][epoch' = epoch =>
        LET Drawn(rec) == Cardinality({f \in Forager : rec[f].last_scout_epoch = epoch})
        IN  scout_pool' + config.scout_ticket_base_units * Drawn(forager')
                = scout_pool + config.scout_ticket_base_units * Drawn(forager)]_vars

-----------------------------------------------------------------------------
(* The colony implements the abstract crank.                               *)

Promise == INSTANCE Crank WITH
    status <- [f \in Forager |-> forager[f].status],
    last_settled_epoch <- [f \in Forager |-> forager[f].last_settled_epoch]

(* With the amounts deciding every choice the crank leaves open, each step   *)
(* of the colony is a step of Crank or leaves its variables alone.          *)
ImplementsCrank == Promise!Spec

(* The depositors' side: Brood's environment, with its share variables held.  *)
Vault == INSTANCE Brood WITH
    Depositor <- {}, VIRTUAL_SHARES <- 1, VIRTUAL_ASSETS <- 1, MINIMUM_DEPOSIT <- 0,
    MaxU128 <- 0, Deposits <- {}, Redeemed <- {}, Results <- {}, Lots <- {},
    MaxRequests <- 0, MaxShares <- 0,
    position <- <<>>, requests <- <<>>, total_shares <- 0, pending_redemption_shares <- 0,
    next_redemption_id <- 0

(* Deposits and payouts aside, the colony moves the two counters that price   *)
(* the shares only as Brood lets its environment: it deploys or recalls at    *)
(* constant nav, credits a sweep, or settles one result with a cover no        *)
(* larger than the loss.                                                     *)
VaultMovesAsPromised ==
    [][LET credited == idle_base' - idle_base
           placed == outstanding_principal' - outstanding_principal
       IN  \/ credited = 0 /\ placed = 0
           \/ \E assets \in Stakes : PayIn(assets) \/ PayOut(assets)
           \/ placed > 0 /\ Vault!Deploy(placed)
           \/ placed < 0 /\ epoch_phase = "Open" /\ Vault!Recall(-placed)
           \/ credited > 0 /\ epoch_phase = "Open" /\ Vault!Sweep(credited)
           \/ epoch_phase = "Settling" /\ Vault!Settle(placed, credited)]_vars

-----------------------------------------------------------------------------
(* Statements of the code's comments that the code does not keep.          *)

(* settlement.rs: "Each forager is measured independently and the             *)
(* accumulators are sums, so the result does not depend on the order": what    *)
(* one settlement writes is the same before and after another's (for two that  *)
(* both hold the colony's capital).                                         *)
SettlementsCommute ==
    [][\A f, g \in Forager :
        (/\ f # g /\ Settles(f) /\ Awaits(g)
         /\ forager[f].principal > 0 /\ forager[g].principal > 0) =>
            SettledRecord(g, Measured(g))' = SettledRecord(g, Measured(g))]_vars

(* settlement.rs says that rebasing the mark keeps a recall from            *)
(* manufacturing "a drawdown deep enough to trigger probation or a slash".  *)
RecallMakesNoSlashableDrawdown ==
    [][\A f \in Forager :
        (RebalanceForager(f) /\ forager'[f].principal < forager[f].principal
            /\ Measured(f)'.drawdown_bps > config.dd_slash_bps)
        => Measured(f).drawdown_bps > config.dd_slash_bps]_vars

(* settlement.rs says a slashed forager is "unwound back to the vault in    *)
(* full": nothing but a pause, a settlement, the turnover cap or capital    *)
(* out at a venue should stop the next rebalance from taking capital back.  *)
SlashedIsUnwound ==
    \A f \in Forager :
        (/\ epoch_phase = "Open" /\ ~paused
         /\ forager[f].status = "Slashed"
         /\ Lesser(Metered(forager[f].principal), Reclaimable(f)) > 0)
        => RebalanceAdmitted(f)

(* risk.rs, fund_scout: "A scout's exposure is bounded to its ticket plus   *)
(* its posted bond", so right after a ticket is paid out the scout holds    *)
(* one ticket of the colony's capital.                                     *)
ScoutHoldsOneTicket ==
    [][\A f \in Forager :
        FundScout(f) => forager'[f].principal <= config.scout_ticket_base_units]_vars

(* risk.rs, slash_forager: a slashed forager "has to earn its way back      *)
(* through the Scout Sandbox", so right after a slash it is not promotable. *)
SlashedEarnsItsWayBack ==
    [][\A f \in Forager :
        (\E slash_bps \in SlashBps(f) : SlashForager(f, slash_bps))
        => ~(/\ forager'[f].status = "Scout"
             /\ CriteriaMet(forager'[f])
             /\ forager'[f].bond >= config.min_bond)]_vars

(* math.rs, test allocation_never_exceeds_the_pool: "the targets handed to  *)
(* rebalance_forager must never sum to more than the allocatable pool".     *)
TargetsWithinPool ==
    (epoch_phase = "Open" /\ allocatable_pool > 0) =>
        MapThenSumSet(Target, {f \in Forager : forager[f].status = "Active"})
            <= allocatable_pool
=============================================================================
