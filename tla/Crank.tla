------------------------------- MODULE Crank -------------------------------
(***************************************************************************)
(* The epoch crank of the colony and the population it must cover.         *)
(*                                                                         *)
(* An epoch closes over many transactions: begin_settlement freezes the    *)
(* population, settle_forager is called once per forager in any order and  *)
(* by anyone, finalize_settlement reopens the colony when a counter says   *)
(* everyone was measured.  Registration, opening of a sub-account,         *)
(* promotion, slashing and retirement interleave with it.                  *)
(*                                                                         *)
(* This is the abstract specification of the colony: it keeps every guard  *)
(* on phase, pause, lifecycle and epoch numbers, and leaves out the money. *)
(* What the amounts decide (whether a drawdown is deep, a trail weak, a    *)
(* bond thin, a principal zero) is a nondeterministic choice here; module  *)
(* Colony makes those choices from the amounts and is checked to implement *)
(* this one.                                                               *)
(*                                                                         *)
(* One step is one transaction: an error reverts it, so an action is       *)
(* enabled exactly when the handler returns Ok.                            *)
(***************************************************************************)
EXTENDS Integers, FiniteSets

CONSTANTS
    Forager,   \* the forager records that may ever be registered
    MaxEpoch   \* bound: no settlement begins once epoch exceeds MaxEpoch

ASSUME ForagerAssumption == IsFiniteSet(Forager)
ASSUME MaxEpochAssumption == MaxEpoch \in Nat

VARIABLES
    epoch,                     \* ColonyConfig.epoch
    settling_epoch,            \* ColonyConfig.settling_epoch
    epoch_phase,               \* ColonyConfig.epoch_phase
    epoch_over,                \* now >= ColonyConfig.epoch_end_ts
    paused,                    \* ColonyConfig.paused
    settleable_forager_count,  \* ColonyConfig.settleable_forager_count
    settled_count,             \* ColonyConfig.settled_count
    active_count_acc,          \* ColonyConfig.active_count_acc
    active_forager_count,      \* ColonyConfig.active_forager_count
    status,                    \* ForagerState.status; None before the record exists
    opened,                    \* foragers whose forager_vault has been created
    last_settled_epoch         \* ForagerState.last_settled_epoch

clockVars == <<epoch, settling_epoch, epoch_phase, epoch_over>>
tallyVars == <<settled_count, active_count_acc, active_forager_count>>
populationVars == <<status, opened, last_settled_epoch, settleable_forager_count>>
vars == <<clockVars, tallyVars, populationVars, paused>>

None == "None"
Lifecycle == {"Scout", "Active", "Probation", "Slashed", "Retired"}

(***************************************************************************)
(* The population a settlement covers: opened sub-accounts not retired.    *)
(***************************************************************************)
Countable == {f \in opened : status[f] # "Retired"}

(***************************************************************************)
(* Faulty variants of the conditions below, one plausible slip each.  No   *)
(* action uses them: put in place of the definition they vary, they must   *)
(* break a property (see the README, mutation testing).                    *)
(***************************************************************************)
FaultAnyPhase == TRUE
FaultCurrentEpoch == epoch
FaultTwoEpochsBack == epoch - 2
FaultNotLess(n) == n
FaultSettleAgain(f) == last_settled_epoch[f] <= settling_epoch
FaultSomeoneCounted == settled_count > 0

(***************************************************************************)
(* The conditions the handlers share.                                      *)
(***************************************************************************)

(* Joining and leaving the population is refused during a settlement. *)
BetweenSettlements == epoch_phase = "Open"

(* The epoch a new sub-account counts as settled in: saturating_sub(1). *)
PreviousEpoch == IF epoch = 0 THEN 0 ELSE epoch - 1

(* saturating_sub(1) on the population counter. *)
OneLess(n) == IF n = 0 THEN 0 ELSE n - 1

(* settle_forager measures a forager once per epoch. *)
AwaitsSettlement(f) == last_settled_epoch[f] < settling_epoch

(* The whole completeness check of finalize_settlement. *)
EveryoneCounted == settled_count = settleable_forager_count

-----------------------------------------------------------------------------
(* initialize_colony: epoch numbering starts at 1, nothing is registered.  *)

Init ==
    /\ epoch = 1
    /\ settling_epoch = 0
    /\ epoch_phase = "Open"
    /\ epoch_over = FALSE
    /\ paused = FALSE
    /\ settleable_forager_count = 0
    /\ settled_count = 0
    /\ active_count_acc = 0
    /\ active_forager_count = 0
    /\ status = [f \in Forager |-> None]
    /\ opened = {}
    /\ last_settled_epoch = [f \in Forager |-> 0]

(* The clock reaches epoch_end_ts.  epoch_duration_secs is positive, so it  *)
(* is always reached anew after an epoch opens.                            *)
Tick ==
    /\ ~epoch_over
    /\ epoch_over' = TRUE
    /\ UNCHANGED <<epoch, settling_epoch, epoch_phase, tallyVars, populationVars, paused>>

(* The authority stops or restarts the gated operations. *)
SetPaused(p) ==
    /\ paused' = p
    /\ UNCHANGED <<clockVars, tallyVars, populationVars>>

-----------------------------------------------------------------------------
(* Lifecycle of one forager.                                               *)

(* A record is created as a Scout.  It has no sub-account yet, so it is    *)
(* not counted, and last_settled_epoch is provisional.                     *)
RegisterForager(f) ==
    /\ BetweenSettlements
    /\ ~paused
    /\ status[f] = None
    /\ status' = [status EXCEPT ![f] = "Scout"]
    /\ last_settled_epoch' = [last_settled_epoch EXCEPT ![f] = epoch]
    /\ UNCHANGED <<opened, settleable_forager_count, clockVars, tallyVars, paused>>

(* The sub-account is created once; from here the crank must cover f.      *)
OpenForagerVault(f) ==
    /\ BetweenSettlements
    /\ status[f] # None
    /\ f \notin opened
    /\ opened' = opened \cup {f}
    /\ last_settled_epoch' = [last_settled_epoch EXCEPT ![f] = PreviousEpoch]
    /\ settleable_forager_count' = settleable_forager_count + 1
    /\ UNCHANGED <<status, clockVars, tallyVars, paused>>

FaultPromoteUnopened(f) ==
    /\ status[f] = "Scout"
    /\ status' = [status EXCEPT ![f] = "Active"]
    /\ UNCHANGED <<opened, last_settled_epoch, settleable_forager_count,
                   clockVars, tallyVars, paused>>

(* Permissionless, in any phase, also while paused.  The criteria are      *)
(* amounts; a bond of at least min_bond > 0 needs an open sub-account.     *)
PromoteForager(f) ==
    /\ status[f] = "Scout"
    /\ f \in opened
    /\ status' = [status EXCEPT ![f] = "Active"]
    /\ UNCHANGED <<opened, last_settled_epoch, settleable_forager_count,
                   clockVars, tallyVars, paused>>

(* The authority slashes in any phase; the bond that remains decides       *)
(* between Slashed and Scout.  No counter moves.                           *)
SlashForager(f) ==
    /\ f \in Countable
    /\ \E s \in {"Slashed", "Scout"} : status' = [status EXCEPT ![f] = s]
    /\ UNCHANGED <<opened, last_settled_epoch, settleable_forager_count,
                   clockVars, tallyVars, paused>>

(* Operator or authority, Open phase only, once.  The record stays.        *)
RetireForager(f) ==
    /\ BetweenSettlements
    /\ f \in Countable
    /\ status' = [status EXCEPT ![f] = "Retired"]
    /\ settleable_forager_count' = OneLess(settleable_forager_count)
    /\ UNCHANGED <<opened, last_settled_epoch, clockVars, tallyVars, paused>>

-----------------------------------------------------------------------------
(* The three phases of the crank.  All permissionless, none pause-gated.   *)

BeginWithTally(tally) ==
    /\ epoch <= MaxEpoch
    /\ epoch_phase = "Open"
    /\ epoch_over
    /\ settleable_forager_count > 0
    /\ epoch' = IF epoch = 0 THEN 1 ELSE epoch
    /\ settling_epoch' = epoch'
    /\ epoch_phase' = "Settling"
    /\ settled_count' = 0
    /\ active_count_acc' = tally
    /\ UNCHANGED <<epoch_over, active_forager_count, populationVars, paused>>

FaultTallyNotReset == BeginWithTally(active_count_acc)
FaultBeginPauseGated == ~paused /\ BeginWithTally(0)

BeginSettlement == BeginWithTally(0)

(* What settle_forager may make of a status.  A deep drawdown puts an       *)
(* Active forager on Probation, a recovered one returns to Active, and an   *)
(* Active one whose weight fell below w_drop goes back to the Scouts.       *)
StatusAfterSettle(s) ==
    IF s \in {"Active", "Probation"} THEN {"Active", "Probation", "Scout"} ELSE {s}

SettleForager(f) ==
    /\ epoch_phase = "Settling"
    /\ f \in Countable
    /\ AwaitsSettlement(f)
    /\ \E s \in StatusAfterSettle(status[f]) :
          /\ status' = [status EXCEPT ![f] = s]
          /\ active_count_acc' = active_count_acc + (IF s = "Active" THEN 1 ELSE 0)
    /\ settled_count' = settled_count + 1
    /\ last_settled_epoch' = [last_settled_epoch EXCEPT ![f] = settling_epoch]
    /\ UNCHANGED <<opened, settleable_forager_count, active_forager_count,
                   clockVars, paused>>

(* The count guard is the whole completeness check of the crank.           *)
FinalizeSettlement ==
    /\ epoch_phase = "Settling"
    /\ EveryoneCounted
    /\ active_forager_count' = active_count_acc
    /\ epoch' = epoch + 1
    /\ epoch_over' = FALSE
    /\ epoch_phase' = "Open"
    /\ UNCHANGED <<settling_epoch, settled_count, active_count_acc,
                   populationVars, paused>>

-----------------------------------------------------------------------------
ForagerStep(f) ==
    \/ RegisterForager(f)
    \/ OpenForagerVault(f)
    \/ PromoteForager(f)
    \/ SlashForager(f)
    \/ RetireForager(f)
    \/ SettleForager(f)

Next ==
    \/ Tick
    \/ \E p \in BOOLEAN : SetPaused(p)
    \/ \E f \in Forager : ForagerStep(f)
    \/ BeginSettlement
    \/ FinalizeSettlement

Spec == Init /\ [][Next]_vars

(* Fairness.  Time passes, and every phase of the crank can be signed by    *)
(* anyone, so somebody who wants the epoch closed eventually lands each     *)
(* call.  Nothing is assumed of operators, of the authority or of pausing.  *)
Fairness ==
    /\ WF_vars(Tick)
    /\ WF_vars(BeginSettlement)
    /\ \A f \in Forager : WF_vars(SettleForager(f))
    /\ WF_vars(FinalizeSettlement)

FairSpec == Spec /\ Fairness

-----------------------------------------------------------------------------
(* Properties.                                                             *)

(* Every variable has its type. *)
TypeOK ==
    /\ epoch \in Nat
    /\ settling_epoch \in Nat
    /\ epoch_phase \in {"Open", "Settling"}
    /\ epoch_over \in BOOLEAN
    /\ paused \in BOOLEAN
    /\ settleable_forager_count \in Nat
    /\ settled_count \in Nat
    /\ active_count_acc \in Nat
    /\ active_forager_count \in Nat
    /\ status \in [Forager -> Lifecycle \cup {None}]
    /\ opened \subseteq Forager
    /\ last_settled_epoch \in [Forager -> Nat]

(* The foragers the running settlement has already measured. *)
Settled == {f \in Countable : last_settled_epoch[f] = settling_epoch}

(* The two counters finalize_settlement compares count what they are meant *)
(* to: settleable_forager_count the opened, unretired sub-accounts in every *)
(* phase, settled_count the measured ones while a settlement runs, however  *)
(* promotions, slashes and demotions interleave with it.                   *)
CountersExact ==
    /\ settleable_forager_count = Cardinality(Countable)
    /\ epoch_phase = "Settling" => settled_count = Cardinality(Settled)

(* An early finalize is impossible: whenever the count guard of             *)
(* finalize_settlement lets the epoch close, each forager of the population *)
(* has been measured in it (settlement.rs, module header).                 *)
NoPartialNormalization ==
    (epoch_phase = "Settling" /\ settled_count = settleable_forager_count)
        => \A f \in Countable : last_settled_epoch[f] = settling_epoch

(* No deadlock of the crank: while the count is short of its target some   *)
(* forager can still be settled, so the target is never out of reach (the  *)
(* hazard the comments of open_forager_vault and begin_settlement discuss). *)
NeverStranded ==
    epoch_phase = "Settling" =>
        \/ settled_count = settleable_forager_count
        \/ \E f \in Countable : last_settled_epoch[f] < settling_epoch

(* The Active tally never exceeds what was measured, so the denominator of *)
(* the next epoch never contains an unmeasured forager.                    *)
TallyWithinSettled ==
    epoch_phase = "Settling" => active_count_acc <= settled_count

(* Between settlements nobody lags: every countable forager was settled    *)
(* exactly one epoch ago, so its next settle_forager call will be admitted. *)
NobodyLags ==
    epoch_phase = "Open" =>
        \A f \in Countable : last_settled_epoch[f] = epoch - 1

(* The strengthening the counters need to be inductive: a record without a  *)
(* sub-account is at most a fresh Scout (so opening it adds exactly one to  *)
(* the population), and during a settlement a countable forager stands at   *)
(* the epoch being settled or one before it.                               *)
CrankInv ==
    /\ TypeOK
    /\ CountersExact
    /\ TallyWithinSettled
    /\ NobodyLags
    /\ \A f \in opened : status[f] # None
    /\ \A f \in Forager \ opened : status[f] \in {None, "Scout"}
    /\ epoch >= 1
    /\ epoch_phase = "Settling" =>
          /\ settling_epoch = epoch
          /\ \A f \in Countable : last_settled_epoch[f] \in {epoch - 1, epoch}

(* The crank's finish line does not move: no step inside a settlement       *)
(* changes the population or the target it is compared with.               *)
FinishLineFixed ==
    [][(epoch_phase = "Settling" /\ epoch_phase' = "Settling")
          => /\ Countable' = Countable
             /\ settleable_forager_count' = settleable_forager_count]_vars

(* Every epoch is measured once: over one step a countable forager's       *)
(* last_settled_epoch stays or advances by exactly one epoch.              *)
EveryEpochMeasuredOnce ==
    [][\A f \in Countable :
          last_settled_epoch'[f] \in {last_settled_epoch[f], last_settled_epoch[f] + 1}]_vars

(* Liveness: a settlement that began is finalized, whatever operators, the *)
(* authority and the pause switch do meanwhile.                            *)
SettlementCompletes == (epoch_phase = "Settling") ~> (epoch_phase = "Open")

(* Liveness: with a forager to settle, an epoch within the bound is        *)
(* eventually closed, or the population empties first.                     *)
EpochsAdvance ==
    \A e \in 1..MaxEpoch :
        (epoch = e /\ settleable_forager_count > 0)
            ~> (epoch > e \/ settleable_forager_count = 0)
=============================================================================
