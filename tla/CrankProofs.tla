---------------------------- MODULE CrankProofs ----------------------------
(***************************************************************************)
(* Machine-checked facts about Crank, for every finite set of foragers and *)
(* every bound on the number of epochs.                                    *)
(***************************************************************************)
EXTENDS Crank, FiniteSetTheorems, TLAPS

(* The population and its measured part are finite, and the measured part   *)
(* fills the population as soon as the two have the same size.             *)
LEMMA PopulationFinite ==
    ASSUME opened \subseteq Forager
    PROVE  /\ IsFiniteSet(Countable)
           /\ Cardinality(Countable) \in Nat
           /\ Settled \subseteq Countable
           /\ IsFiniteSet(Settled)
           /\ Cardinality(Settled) \in Nat
           /\ Cardinality(Settled) <= Cardinality(Countable)
           /\ Cardinality(Settled) = Cardinality(Countable) => Settled = Countable
<1>1. Countable \subseteq Forager
  BY DEF Countable
<1>2. IsFiniteSet(Countable)
  BY <1>1, ForagerAssumption, FS_Subset
<1>3. Settled \subseteq Countable
  BY DEF Settled
<1>4. /\ IsFiniteSet(Settled)
      /\ Cardinality(Settled) <= Cardinality(Countable)
      /\ Cardinality(Countable) = Cardinality(Settled) => Countable = Settled
  BY <1>2, <1>3, FS_Subset
<1>5. Cardinality(Countable) \in Nat /\ Cardinality(Settled) \in Nat
  BY <1>2, <1>4, FS_CardinalityType
<1>6. QED
  BY <1>2, <1>3, <1>4, <1>5

-----------------------------------------------------------------------------
(* Types are preserved by every transaction. *)
LEMMA TypePreserved == TypeOK /\ [Next]_vars => TypeOK'
<1> SUFFICES ASSUME TypeOK, [Next]_vars
             PROVE  TypeOK'
  OBVIOUS
<1> USE DEF TypeOK
<1>1. CASE Tick
  BY <1>1 DEF Tick, tallyVars, populationVars
<1>2. ASSUME NEW p \in BOOLEAN, SetPaused(p)
      PROVE  TypeOK'
  BY <1>2 DEF SetPaused, clockVars, tallyVars, populationVars
<1>3. ASSUME NEW f \in Forager, RegisterForager(f)
      PROVE  TypeOK'
  BY <1>3 DEF RegisterForager, BetweenSettlements, clockVars, tallyVars, Lifecycle
<1>4. ASSUME NEW f \in Forager, OpenForagerVault(f)
      PROVE  TypeOK'
  BY <1>4 DEF OpenForagerVault, BetweenSettlements, PreviousEpoch, clockVars, tallyVars
<1>5. ASSUME NEW f \in Forager, PromoteForager(f)
      PROVE  TypeOK'
  BY <1>5 DEF PromoteForager, clockVars, tallyVars, Lifecycle
<1>6. ASSUME NEW f \in Forager, SlashForager(f)
      PROVE  TypeOK'
  BY <1>6 DEF SlashForager, clockVars, tallyVars, Lifecycle
<1>7. ASSUME NEW f \in Forager, RetireForager(f)
      PROVE  TypeOK'
  BY <1>7 DEF RetireForager, BetweenSettlements, OneLess, clockVars, tallyVars, Lifecycle
<1>8. ASSUME NEW f \in Forager, SettleForager(f)
      PROVE  TypeOK'
  <2>1. StatusAfterSettle(status[f]) \subseteq Lifecycle \cup {None}
    BY DEF StatusAfterSettle, Lifecycle
  <2>2. QED
    BY <1>8, <2>1 DEF SettleForager, AwaitsSettlement, clockVars
<1>9. CASE BeginSettlement
  BY <1>9 DEF BeginSettlement, BeginWithTally, populationVars
<1>10. CASE FinalizeSettlement
  <2>1. epoch' \in Nat /\ active_forager_count' \in Nat
    BY <1>10 DEF FinalizeSettlement, EveryoneCounted
  <2>2. QED
    BY <1>10, <2>1 DEF FinalizeSettlement, EveryoneCounted, populationVars
<1>11. CASE UNCHANGED vars
  BY <1>11 DEF vars, clockVars, tallyVars, populationVars
<1>12. QED
  BY <1>1, <1>2, <1>3, <1>4, <1>5, <1>6, <1>7, <1>8, <1>9, <1>10, <1>11
     DEF Next, ForagerStep

(* Type correctness of the crank. *)
THEOREM CrankTyped == Spec => []TypeOK
<1>1. ASSUME Init
      PROVE  TypeOK
  BY <1>1 DEF Init, TypeOK
<1>2. QED
  BY <1>1, TypePreserved, PTL DEF Spec

-----------------------------------------------------------------------------
(* Initially nothing is open, so all counters are zero. *)
LEMMA CrankInvInit == Init => CrankInv
<1> SUFFICES ASSUME Init
             PROVE  CrankInv
  OBVIOUS
<1>1. TypeOK
  BY DEF Init, TypeOK
<1>2. Countable = {}
  BY DEF Init, Countable
<1>3. CountersExact
  BY <1>2, FS_EmptySet DEF Init, CountersExact
<1>4. QED
  BY <1>1, <1>2, <1>3 DEF Init, CrankInv, TallyWithinSettled, NobodyLags, None

(* A step that leaves the population, the phase and the tallies alone       *)
(* disturbs nothing.                                                       *)
LEMMA CrankInvFramed ==
    ASSUME CrankInv, TypeOK',
           UNCHANGED <<epoch, settling_epoch, epoch_phase, tallyVars, populationVars>>
    PROVE  CrankInv'
<1>1. Countable' = Countable
  BY DEF Countable, populationVars
<1>2. Settled' = Settled
  BY <1>1 DEF Settled, populationVars
<1>3. QED
  BY <1>1, <1>2 DEF CrankInv, CountersExact, TallyWithinSettled, NobodyLags,
                    tallyVars, populationVars

(* A status change among the unretired leaves population and counts alone. *)
LEMMA CrankInvRestatus ==
    ASSUME CrankInv, TypeOK', NEW f \in Countable, NEW s \in Lifecycle \ {"Retired"},
           status' = [status EXCEPT ![f] = s],
           UNCHANGED <<opened, last_settled_epoch, settleable_forager_count,
                       clockVars, tallyVars>>
    PROVE  CrankInv'
<1> USE DEF CrankInv
<1>1. f \in Forager /\ f \in opened
  BY DEF Countable, TypeOK
<1>2. Countable' = Countable
  BY <1>1 DEF Countable, TypeOK
<1>3. Settled' = Settled
  BY <1>2 DEF Settled, clockVars
<1>4. /\ \A g \in opened' : status'[g] # None
      /\ \A g \in Forager \ opened' : status'[g] \in {None, "Scout"}
  BY <1>1 DEF Lifecycle, None, TypeOK
<1>5. QED
  BY <1>2, <1>3, <1>4 DEF CountersExact, TallyWithinSettled, NobodyLags,
                          clockVars, tallyVars

(* The invariant is inductive. *)
LEMMA CrankInvPreserved == CrankInv /\ [Next]_vars => CrankInv'
<1> SUFFICES ASSUME CrankInv, [Next]_vars
             PROVE  CrankInv'
  OBVIOUS
<1> USE DEF CrankInv
<1>0. TypeOK'
  BY TypePreserved
<1>1. CASE Tick
  BY <1>0, <1>1, CrankInvFramed DEF Tick
<1>2. ASSUME NEW p \in BOOLEAN, SetPaused(p)
      PROVE  CrankInv'
  BY <1>0, <1>2, CrankInvFramed DEF SetPaused, clockVars
<1>3. ASSUME NEW f \in Forager, RegisterForager(f)
      PROVE  CrankInv'
  <2>1. f \notin opened
    BY <1>3 DEF RegisterForager, BetweenSettlements
  <2>2. Countable' = Countable
    BY <1>3, <2>1 DEF RegisterForager, BetweenSettlements, Countable, TypeOK
  <2>3. \A g \in Countable : last_settled_epoch'[g] = last_settled_epoch[g]
    BY <1>3, <2>1 DEF RegisterForager, BetweenSettlements, Countable, TypeOK
  <2>4. /\ \A g \in opened' : status'[g] # None
        /\ \A g \in Forager \ opened' : status'[g] \in {None, "Scout"}
    BY <1>3, <2>1 DEF RegisterForager, BetweenSettlements, TypeOK, None
  <2>5. QED
    BY <1>0, <1>3, <2>2, <2>3, <2>4
       DEF RegisterForager, BetweenSettlements, CountersExact, TallyWithinSettled, NobodyLags,
           clockVars, tallyVars
<1>4. ASSUME NEW f \in Forager, OpenForagerVault(f)
      PROVE  CrankInv'
  <2>1. f \notin Countable /\ status[f] = "Scout"
    BY <1>4 DEF OpenForagerVault, BetweenSettlements, PreviousEpoch, Countable
  <2>2. Countable' = Countable \cup {f}
    BY <1>4, <2>1 DEF OpenForagerVault, BetweenSettlements, PreviousEpoch, Countable
  <2>3. Cardinality(Countable') = Cardinality(Countable) + 1
    BY <2>1, <2>2, PopulationFinite, FS_AddElement DEF TypeOK
  <2>4. \A g \in Countable' : last_settled_epoch'[g] = epoch' - 1
    BY <1>4, <2>1, <2>2 DEF OpenForagerVault, PreviousEpoch, NobodyLags, Countable, TypeOK,
                             BetweenSettlements, clockVars
  <2>5. QED
    BY <1>0, <1>4, <2>1, <2>3, <2>4
       DEF OpenForagerVault, BetweenSettlements, PreviousEpoch, CountersExact,
           TallyWithinSettled, NobodyLags,
           clockVars, tallyVars, None
<1>5. ASSUME NEW f \in Forager, PromoteForager(f)
      PROVE  CrankInv'
  <2>1. f \in Countable
    BY <1>5 DEF PromoteForager, Countable
  <2>2. QED
    BY <1>0, <1>5, <2>1, CrankInvRestatus DEF PromoteForager, Lifecycle
<1>6. ASSUME NEW f \in Forager, SlashForager(f)
      PROVE  CrankInv'
  BY <1>0, <1>6, CrankInvRestatus DEF SlashForager, Lifecycle
<1>7. ASSUME NEW f \in Forager, RetireForager(f)
      PROVE  CrankInv'
  <2>1. f \in Countable
    BY <1>7 DEF RetireForager, BetweenSettlements, OneLess
  <2>2. Countable' = Countable \ {f}
    BY <1>7 DEF RetireForager, BetweenSettlements, OneLess, Countable, TypeOK
  <2>3. /\ Cardinality(Countable') = Cardinality(Countable) - 1
        /\ Cardinality(Countable') \in Nat
    BY <2>1, <2>2, PopulationFinite, FS_RemoveElement, FS_CardinalityType DEF TypeOK
  <2>4. settleable_forager_count' = Cardinality(Countable')
    BY <1>7, <2>3, PopulationFinite DEF RetireForager, OneLess, CountersExact, TypeOK
  <2>5. /\ \A g \in opened' : status'[g] # None
        /\ \A g \in Forager \ opened' : status'[g] \in {None, "Scout"}
    BY <1>7, <2>1 DEF RetireForager, BetweenSettlements, OneLess, Countable, TypeOK, None
  <2>6. QED
    BY <1>0, <1>7, <2>2, <2>4, <2>5
       DEF RetireForager, BetweenSettlements, CountersExact,
           TallyWithinSettled, NobodyLags,
           clockVars, tallyVars
<1>8. ASSUME NEW f \in Forager, SettleForager(f)
      PROVE  CrankInv'
  <2>1. f \in opened /\ status[f] # "Retired"
    BY <1>8 DEF SettleForager, AwaitsSettlement, Countable
  <2>2. PICK s \in StatusAfterSettle(status[f]) :
           /\ status' = [status EXCEPT ![f] = s]
           /\ active_count_acc' = active_count_acc + (IF s = "Active" THEN 1 ELSE 0)
    BY <1>8 DEF SettleForager, AwaitsSettlement
  <2>3. s \in Lifecycle \ {"Retired"}
    BY <2>1, <2>2 DEF StatusAfterSettle, Lifecycle, TypeOK
  <2>4. Countable' = Countable
    BY <1>8, <2>1, <2>2, <2>3 DEF SettleForager, AwaitsSettlement, Countable, TypeOK
  <2>5. f \notin Settled
    BY <1>8 DEF SettleForager, AwaitsSettlement, Settled, TypeOK
  <2>6. Settled' = Settled \cup {f}
    BY <1>8, <2>4 DEF SettleForager, AwaitsSettlement, Settled, Countable, TypeOK, clockVars
  <2>7. Cardinality(Settled') = Cardinality(Settled) + 1
    BY <2>5, <2>6, PopulationFinite, FS_AddElement DEF TypeOK
  <2>8. \A g \in Countable' : last_settled_epoch'[g] \in {epoch - 1, epoch}
    BY <1>8, <2>4 DEF SettleForager, AwaitsSettlement, Countable, TypeOK
  <2>9. /\ \A g \in opened' : status'[g] # None
        /\ \A g \in Forager \ opened' : status'[g] \in {None, "Scout"}
    BY <1>8, <2>1, <2>2, <2>3 DEF SettleForager, AwaitsSettlement, TypeOK, Lifecycle, None
  <2>10. active_count_acc' <= settled_count'
    BY <1>8, <2>2 DEF SettleForager, AwaitsSettlement, TallyWithinSettled, TypeOK
  <2>11. QED
    BY <1>0, <1>8, <2>4, <2>7, <2>8, <2>9, <2>10
       DEF SettleForager, CountersExact, TallyWithinSettled, NobodyLags, clockVars
<1>9. CASE BeginSettlement
  <2>1. epoch' = epoch /\ settling_epoch' = epoch
    BY <1>9 DEF BeginSettlement, BeginWithTally
  <2>2. Countable' = Countable
    BY <1>9 DEF BeginSettlement, BeginWithTally, Countable, populationVars
  <2>3. \A g \in Countable' : last_settled_epoch'[g] = epoch - 1
    BY <1>9, <2>2 DEF BeginSettlement, BeginWithTally, NobodyLags, populationVars
  <2>4. Settled' = {}
    BY <2>1, <2>3 DEF Settled, TypeOK
  <2>5. QED
    BY <1>0, <1>9, <2>1, <2>2, <2>3, <2>4, FS_EmptySet
       DEF BeginSettlement, BeginWithTally, CountersExact, TallyWithinSettled,
           NobodyLags, populationVars
<1>10. CASE FinalizeSettlement
  <2>1. Countable' = Countable
    BY <1>10 DEF FinalizeSettlement, EveryoneCounted, Countable, populationVars
  <2>2. Settled = Countable
    BY <1>10, PopulationFinite DEF FinalizeSettlement, EveryoneCounted, CountersExact, TypeOK
  <2>3. \A g \in Countable' : last_settled_epoch'[g] = epoch' - 1
    BY <1>10, <2>1, <2>2 DEF FinalizeSettlement, EveryoneCounted, Settled, populationVars, TypeOK
  <2>4. QED
    BY <1>0, <1>10, <2>1, <2>3
       DEF FinalizeSettlement, EveryoneCounted, CountersExact, TallyWithinSettled, NobodyLags,
           populationVars, TypeOK
<1>11. CASE UNCHANGED vars
  BY <1>0, <1>11, CrankInvFramed DEF vars, clockVars
<1>12. QED
  BY <1>1, <1>2, <1>3, <1>4, <1>5, <1>6, <1>7, <1>8, <1>9, <1>10, <1>11
     DEF Next, ForagerStep

(* The inductive invariant holds in every reachable state. *)
THEOREM CrankInvariant == Spec => []CrankInv
<1>1. QED
  BY CrankInvInit, CrankInvPreserved, PTL DEF Spec

-----------------------------------------------------------------------------
(* The counters of the crank are exact in every reachable state: the target *)
(* counts the population, the progress counter the measured foragers.      *)
THEOREM CountersAlwaysExact == Spec => []CountersExact
<1>1. CrankInv => CountersExact
  BY DEF CrankInv
<1>2. QED
  BY <1>1, CrankInvariant, PTL

(* finalize_settlement can never commit a partial normalization. *)
THEOREM NoEarlyFinalize == Spec => []NoPartialNormalization
<1>1. CrankInv => NoPartialNormalization
  <2> SUFFICES ASSUME CrankInv, epoch_phase = "Settling",
                      settled_count = settleable_forager_count
               PROVE  \A f \in Countable : last_settled_epoch[f] = settling_epoch
    BY DEF NoPartialNormalization
  <2>1. Settled = Countable
    BY PopulationFinite DEF CrankInv, CountersExact, TypeOK
  <2>2. QED
    BY <2>1 DEF Settled
<1>2. QED
  BY <1>1, CrankInvariant, PTL

(* The crank is never stranded: until the count is complete there is a      *)
(* forager whose settlement the epoch guard still admits.                  *)
THEOREM CrankNeverStranded == Spec => []NeverStranded
<1>1. CrankInv => NeverStranded
  <2> SUFFICES ASSUME CrankInv, epoch_phase = "Settling",
                      \A f \in Countable : ~(last_settled_epoch[f] < settling_epoch)
               PROVE  settled_count = settleable_forager_count
    BY DEF NeverStranded
  <2>1. \A f \in Countable : last_settled_epoch[f] = settling_epoch
    BY DEF CrankInv, Countable, TypeOK
  <2>2. Settled = Countable
    BY <2>1 DEF Settled
  <2>3. QED
    BY <2>2 DEF CrankInv, CountersExact
<1>2. QED
  BY <1>1, CrankInvariant, PTL

(* No forager lags behind while the colony is Open. *)
THEOREM NobodyEverLags == Spec => []NobodyLags
<1>1. CrankInv => NobodyLags
  BY DEF CrankInv
<1>2. QED
  BY <1>1, CrankInvariant, PTL

(* The Active tally, next epoch's denominator, never runs ahead of the       *)
(* foragers the settlement has measured.                                   *)
THEOREM TallyNeverAhead == Spec => []TallyWithinSettled
<1>1. CrankInv => TallyWithinSettled
  BY DEF CrankInv
<1>2. QED
  BY <1>1, CrankInvariant, PTL

(* No step inside a settlement moves its finish line: the five operations   *)
(* that change the population are Open-phase only, the others keep it.     *)
THEOREM FinishLineNeverMoves == Spec => FinishLineFixed
<1> DEFINE Fixed ==
        (epoch_phase = "Settling" /\ epoch_phase' = "Settling")
          => /\ Countable' = Countable
             /\ settleable_forager_count' = settleable_forager_count
<1>1. CrankInv /\ [Next]_vars => [Fixed]_vars
  <2> SUFFICES ASSUME CrankInv, [Next]_vars, epoch_phase = "Settling",
                      epoch_phase' = "Settling"
               PROVE  /\ Countable' = Countable
                      /\ settleable_forager_count' = settleable_forager_count
    OBVIOUS
  <2> USE DEF CrankInv
  <2>1. ASSUME NEW f \in Countable, NEW s \in Lifecycle \ {"Retired"},
               status' = [status EXCEPT ![f] = s], opened' = opened
        PROVE  Countable' = Countable
    BY <2>1 DEF Countable, TypeOK
  <2>2. CASE Tick \/ (\E p \in BOOLEAN : SetPaused(p)) \/ UNCHANGED vars
    BY <2>2 DEF Tick, SetPaused, Countable, vars, populationVars
  <2>3. ASSUME NEW f \in Forager, PromoteForager(f)
        PROVE  Countable' = Countable /\ UNCHANGED settleable_forager_count
    <3>1. f \in Countable
      BY <2>3 DEF PromoteForager, Countable
    <3>2. QED
      BY <2>1, <2>3, <3>1 DEF PromoteForager, Lifecycle
  <2>4. ASSUME NEW f \in Forager, SlashForager(f)
        PROVE  Countable' = Countable /\ UNCHANGED settleable_forager_count
    BY <2>1, <2>4 DEF SlashForager, Lifecycle
  <2>5. ASSUME NEW f \in Forager, SettleForager(f)
        PROVE  Countable' = Countable /\ UNCHANGED settleable_forager_count
    <3>1. f \in Countable /\ status[f] \in Lifecycle \ {"Retired"}
      BY <2>5 DEF SettleForager, AwaitsSettlement, Countable, TypeOK
    <3>2. StatusAfterSettle(status[f]) \subseteq Lifecycle \ {"Retired"}
      BY <3>1 DEF StatusAfterSettle, Lifecycle
    <3>3. QED
      BY <2>1, <2>5, <3>1, <3>2 DEF SettleForager, AwaitsSettlement
  <2>6. \A f \in Forager :
           ~(RegisterForager(f) \/ OpenForagerVault(f) \/ RetireForager(f))
    BY DEF RegisterForager, OpenForagerVault, RetireForager, BetweenSettlements
  <2>7. ~BeginSettlement /\ ~FinalizeSettlement
    BY DEF BeginSettlement, BeginWithTally, EveryoneCounted, FinalizeSettlement
  <2>8. QED
    BY <2>2, <2>3, <2>4, <2>5, <2>6, <2>7 DEF Next, ForagerStep
<1>2. QED
  BY <1>1, CrankInvariant, PTL DEF Spec, FinishLineFixed

(* A countable forager is measured at most once per epoch and skips none.  *)
THEOREM EachEpochMeasuredOnce == Spec => EveryEpochMeasuredOnce
<1> DEFINE Once ==
        \A f \in Countable :
          last_settled_epoch'[f] \in {last_settled_epoch[f], last_settled_epoch[f] + 1}
<1>1. CrankInv /\ [Next]_vars => [Once]_vars
  <2> SUFFICES ASSUME CrankInv, [Next]_vars, NEW g \in Countable
               PROVE  last_settled_epoch'[g]
                        \in {last_settled_epoch[g], last_settled_epoch[g] + 1}
    OBVIOUS
  <2>0. g \in Forager /\ g \in opened /\ last_settled_epoch[g] \in Nat
    BY DEF CrankInv, TypeOK, Countable
  <2>1. ASSUME NEW f \in Forager, RegisterForager(f) \/ OpenForagerVault(f)
        PROVE  last_settled_epoch'[g] = last_settled_epoch[g]
    <3>1. f # g
      BY <2>0, <2>1 DEF RegisterForager, OpenForagerVault, BetweenSettlements,
                             PreviousEpoch, CrankInv
    <3>2. QED
      BY <2>0, <2>1, <3>1 DEF RegisterForager, OpenForagerVault, BetweenSettlements,
                                    PreviousEpoch, CrankInv, TypeOK
  <2>2. ASSUME NEW f \in Forager, SettleForager(f)
        PROVE  last_settled_epoch'[g]
                 \in {last_settled_epoch[g], last_settled_epoch[g] + 1}
    <3>1. CASE f = g
      <4>1. last_settled_epoch[g] = settling_epoch - 1
        BY <2>0, <2>2, <3>1 DEF SettleForager, AwaitsSettlement, CrankInv, TypeOK
      <4>2. last_settled_epoch'[g] = settling_epoch
        BY <2>0, <2>2, <3>1 DEF SettleForager, AwaitsSettlement, CrankInv, TypeOK
      <4>3. QED
        BY <4>1, <4>2 DEF CrankInv, TypeOK
    <3>2. CASE f # g
      BY <2>0, <2>2, <3>2 DEF SettleForager, AwaitsSettlement, CrankInv, TypeOK
    <3>3. QED
      BY <3>1, <3>2
  <2>3. CASE UNCHANGED last_settled_epoch
    BY <2>3
  <2>4. QED
    BY <2>1, <2>2, <2>3
       DEF Next, ForagerStep, Tick, SetPaused, PromoteForager, SlashForager,
           RetireForager, BeginSettlement, BeginWithTally, FinalizeSettlement,
           vars, populationVars
<1>2. QED
  BY <1>1, CrankInvariant, PTL DEF Spec, EveryEpochMeasuredOnce
=============================================================================
