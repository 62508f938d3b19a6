---------------------------- MODULE ColonySteps ----------------------------
(***************************************************************************)
(* What a step of the colony may never do, and that each is a step of the    *)
(* abstract crank.  Every proof starts from the invariant of ColonyProofs.   *)
(***************************************************************************)
EXTENDS ColonyProofs

(* Which steps rewrite the epoch numbers of a record.                       *)
LEMMA EpochNumbersMove ==
    ASSUME ColonyInv, [Next]_vars, NEW f \in Forager
    PROVE  /\ forager'[f].last_settled_epoch # forager[f].last_settled_epoch
                => RegisterForager(f) \/ OpenForagerVault(f) \/ SettleForager(f)
           /\ forager'[f].last_scout_epoch # forager[f].last_scout_epoch => FundScout(f)
<1> DEFINE Kept == /\ forager'[f].last_settled_epoch = forager[f].last_settled_epoch
                   /\ forager'[f].last_scout_epoch = forager[f].last_scout_epoch
           Named == /\ forager'[f].last_settled_epoch # forager[f].last_settled_epoch
                         => RegisterForager(f) \/ OpenForagerVault(f) \/ SettleForager(f)
                    /\ forager'[f].last_scout_epoch # forager[f].last_scout_epoch
                         => FundScout(f)
<1>0. /\ TypeOK /\ forager \in [Forager -> ForagerRecord] /\ forager[f] \in ForagerRecord
      /\ forager[f].status = None => forager[f] = BlankForager
  BY DEF ColonyInv, TypeOK
<1>1. CASE UNCHANGED forager
  BY <1>1
<1>2. ASSUME NEW g \in Forager, ForagerStep(g)
      PROVE  Named
  <2>1. CASE g # f
    <3>1. forager'[f] = forager[f]
      BY <1>0, <1>2, <2>1
         DEF ForagerStep, RegisterForager, OpenForagerVault, TopUpBond, TopUpInto,
             PromoteForager, RetireForager, FundScout, SlashForager, SettleForager,
             RebalanceForager, MoveCapital, Trade
    <3>2. QED
      BY <3>1
  <2>2. CASE g = f
    <3>1. CASE RegisterForager(f)
      <4>1. forager'[f].last_scout_epoch = 0 /\ forager[f].last_scout_epoch = 0
        BY <1>0, <3>1 DEF RegisterForager, BlankForager
      <4>2. QED
        BY <3>1, <4>1
    <3>2. CASE OpenForagerVault(f)
      <4>1. forager'[f].last_scout_epoch = forager[f].last_scout_epoch
        BY <1>0, <3>2 DEF OpenForagerVault, ForagerRecord
      <4>2. QED
        BY <3>2, <4>1
    <3>3. ASSUME NEW amount \in TopUps, TopUpBond(f, amount)
          PROVE  Kept
      BY <1>0, <3>3 DEF TopUpBond, TopUpInto, ForagerRecord
    <3>4. CASE PromoteForager(f)
      BY <1>0, <3>4 DEF PromoteForager, ForagerRecord
    <3>5. CASE RetireForager(f)
      BY <1>0, <3>5 DEF RetireForager, ForagerRecord
    <3>6. CASE FundScout(f)
      <4>1. forager'[f].last_settled_epoch = forager[f].last_settled_epoch
        BY <1>0, <3>6 DEF FundScout, ForagerRecord
      <4>2. QED
        BY <3>6, <4>1
    <3>7. ASSUME NEW slash_bps \in SlashBps(f), SlashForager(f, slash_bps)
          PROVE  Kept
      BY <1>0, <3>7 DEF SlashForager, ForagerRecord
    <3>8. CASE SettleForager(f)
      <4>1. f \in opened /\ forager[f].status # "Retired" /\ forager[f].status # None
        BY <3>8 DEF SettleForager, ColonyInv
      <4>2. forager'[f].last_scout_epoch = forager[f].last_scout_epoch
        BY <1>0, <3>8, <4>1, SettleMoves, SettledTyped
      <4>3. QED
        BY <3>8, <4>2
    <3>9. CASE RebalanceForager(f)
      BY <1>0, <3>9 DEF RebalanceForager, MoveCapital, ForagerRecord
    <3>10. ASSUME NEW move \in Moves, Trade(f, move)
           PROVE  Kept
      BY <3>10 DEF Trade
    <3>11. QED
      BY <1>2, <2>2, <3>1, <3>2, <3>3, <3>4, <3>5, <3>6, <3>7, <3>8, <3>9, <3>10 DEF ForagerStep
  <2>3. QED
    BY <2>1, <2>2
<1>3. QED
  BY <1>1, <1>2 DEF Next, Tick, SetPaused, UpdateConfig, PayIn, PayOut, FundCache,
     BeginSettlement, FinalizeSettlement, vars

(* A measurement that is recorded is a settlement.                          *)
LEMMA SettlesIsSettlement ==
    ASSUME ColonyInv, [Next]_vars, NEW f \in Forager, Settles(f)
    PROVE  SettleForager(f)
BY EpochNumbersMove DEF Settles, RegisterForager, OpenForagerVault

-----------------------------------------------------------------------------
(* The order of the loss waterfall holds in every settling step.            *)
THEOREM WaterfallAlwaysInOrder == Spec => WaterfallOrder
<1> DEFINE InOrder == \A f \in Forager :
               Settles(f) =>
                   /\ nav' < nav => forager'[f].bond = 0 /\ cache_balance' = 0
                   /\ cache_balance' < cache_balance => forager'[f].bond = 0
<1>1. ASSUME ColonyInv, [Next]_vars, NEW f \in Forager, Settles(f)
      PROVE  /\ nav' < nav => forager'[f].bond = 0 /\ cache_balance' = 0
             /\ cache_balance' < cache_balance => forager'[f].bond = 0
  <2> DEFINE m == Measured(f)
             w == Waterfall(m)
             accrual == Accrual(f, m)
  <2>1. TypeOK /\ SettleForager(f)
    BY <1>1, SettlesIsSettlement DEF ColonyInv
  <2>2. f \in opened /\ forager[f].status # "Retired" /\ forager[f].status # None
    BY <1>1, <2>1 DEF SettleForager, ColonyInv
  <2>3. /\ w.from_bond \in 0..m.bond /\ w.from_cache \in 0..cache_balance
        /\ m.realized >= 0 => w.from_bond = 0 /\ w.from_cache = 0
        /\ w.from_cache > 0 => w.from_bond = m.bond
        /\ m.realized + w.from_bond + w.from_cache < 0
             => w.from_bond = m.bond /\ w.from_cache = cache_balance
    BY <2>1, WaterfallTyped
  <2>4. /\ accrual \in 0..m.equity
        /\ accrual > 0 => m.realized > 0 /\ accrual <= m.realized
    BY <2>1, AccrualTyped
  <2>5. /\ m.bond \in Nat /\ m.equity \in Nat /\ m.realized \in Int
        /\ m.realized = m.equity - forager[f].principal
        /\ forager[f].principal \in Nat
        /\ idle_base \in Nat /\ outstanding_principal \in Nat /\ cache_balance \in Nat
    BY <2>1, MeasuredTyped, RecordTyped, CountersTyped
  <2>6. forager'[f].bond = m.bond - w.from_bond
    BY <1>1, <2>1, <2>2, SettleMoves, SettledTyped
  <2>7. /\ idle_base' = idle_base + w.from_bond + w.from_cache
        /\ cache_balance' = cache_balance - w.from_cache + accrual
        /\ outstanding_principal'
             = outstanding_principal - forager[f].principal + (m.equity - accrual)
    BY <1>1, <2>1, SettleMoves
  <2> HIDE DEF m, w, accrual
  <2>8. w.from_bond \in Nat /\ w.from_cache \in Nat /\ accrual \in Nat
    BY <2>3, <2>4, <2>5
  <2>9. nav' = nav + (m.realized + w.from_bond + w.from_cache) - accrual
    BY <2>5, <2>7, <2>8 DEF nav
  <2>10. nav \in Int
    BY <2>5 DEF nav
  <2>11. ASSUME nav' < nav
         PROVE  forager'[f].bond = 0 /\ cache_balance' = 0
    <3>1. m.realized < 0
      BY <2>3, <2>4, <2>5, <2>8, <2>9, <2>10, <2>11
    <3>2. accrual = 0
      BY <2>4, <2>5, <2>8, <3>1
    <3>3. m.realized + w.from_bond + w.from_cache < 0
      BY <2>5, <2>8, <2>9, <2>10, <2>11, <3>2
    <3>4. w.from_bond = m.bond /\ w.from_cache = cache_balance
      BY <2>3, <3>3
    <3>5. QED
      BY <2>5, <2>6, <2>7, <3>2, <3>4
  <2>12. ASSUME cache_balance' < cache_balance
         PROVE  forager'[f].bond = 0
    BY <2>3, <2>5, <2>6, <2>7, <2>8, <2>12
  <2>13. QED
    BY <2>11, <2>12
<1>2. ColonyInv /\ [Next]_vars => [InOrder]_vars
  BY <1>1
<1>3. WaterfallOrder <=> [][InOrder]_vars
  BY PTL DEF WaterfallOrder
<1> HIDE DEF InOrder
<1>4. QED
  BY <1>2, <1>3, ColonyInvariant, PTL DEF Spec

-----------------------------------------------------------------------------
(* No settlement changes what another will measure.                         *)
THEOREM OrderGivesNoAdvantage == Spec => NoOrderingAdvantage
<1> DEFINE Untouched == \A f, g \in Forager :
               (f # g /\ Settles(f) /\ Awaits(g)) =>
                   /\ Measured(g)' = Measured(g)
                   /\ UNCHANGED <<forager[g], level, active_forager_count>>
<1>1. ASSUME ColonyInv, [Next]_vars, NEW f \in Forager, NEW g \in Forager, f # g, Settles(f)
      PROVE  /\ Measured(g)' = Measured(g)
             /\ UNCHANGED <<forager[g], level, active_forager_count>>
  <2>1. SettleForager(f)
    BY <1>1, SettlesIsSettlement
  <2>2. /\ forager'[g] = forager[g] /\ forager_vault'[g] = forager_vault[g]
    BY <1>1, <2>1, SettleMoves
  <2>3. UNCHANGED <<config, level, active_forager_count>>
    BY <2>1 DEF SettleForager, switchVars, publishedVars
  <2>4. QED
    BY <2>2, <2>3 DEF Measured, Realized
<1>2. ColonyInv /\ [Next]_vars => [Untouched]_vars
  BY <1>1
<1>3. NoOrderingAdvantage <=> [][Untouched]_vars
  BY PTL DEF NoOrderingAdvantage
<1> HIDE DEF Untouched
<1>4. QED
  BY <1>2, <1>3, ColonyInvariant, PTL DEF Spec

-----------------------------------------------------------------------------
(* The capital moved in an epoch is metered, whatever the number of calls.   *)
THEOREM TurnoverAlwaysWithinCap == Spec => TurnoverWithinCap
<1> DEFINE Metes == epoch_turnover_used' > epoch_turnover_used =>
               epoch_turnover_used' <= Share(allocatable_pool, config.turnover_cap_bps)
<1>1. ASSUME ColonyInv, [Next]_vars
      PROVE  Metes
  <2>0. TypeOK /\ epoch_turnover_used \in Nat
    BY <1>1, CountersTyped DEF ColonyInv
  <2>1. ASSUME NEW f \in Forager, RebalanceForager(f)
        PROVE  Metes
    <3>1. PICK delta \in Int, size \in Nat \ {0} :
            /\ MoveCapital(f, delta, size)
            /\ epoch_turnover_used + size <= Share(allocatable_pool, config.turnover_cap_bps)
      BY <1>1, <2>1, RebalanceMoves
    <3>2. epoch_turnover_used' = epoch_turnover_used + size
      BY <3>1 DEF MoveCapital
    <3>3. QED
      BY <3>1, <3>2
  <2>2. CASE FinalizeSettlement
    BY <2>0, <2>2 DEF FinalizeSettlement
  <2>3. CASE UNCHANGED epoch_turnover_used
    BY <2>0, <2>3
  <2>4. ASSUME NEW f \in Forager, ForagerStep(f), ~RebalanceForager(f)
        PROVE  UNCHANGED epoch_turnover_used
    BY <2>4 DEF ForagerStep, RegisterForager, OpenForagerVault, TopUpBond, TopUpInto,
       PromoteForager, RetireForager, FundScout, SlashForager, SettleForager, Trade, spentVars
  <2>5. QED
    BY <1>1, <2>1, <2>2, <2>3, <2>4 DEF Next, Tick, SetPaused, UpdateConfig, PayIn, PayOut,
       FundCache, BeginSettlement, vars, spentVars
<1>2. ColonyInv /\ [Next]_vars => [Metes]_vars
  BY <1>1
<1>3. TurnoverWithinCap <=> [][Metes]_vars
  BY PTL DEF TurnoverWithinCap
<1> HIDE DEF Metes
<1>4. QED
  BY <1>2, <1>3, ColonyInvariant, PTL DEF Spec

-----------------------------------------------------------------------------
(* Flows of collateral and capital.                                        *)

LEMMA MeasuredIsExcess ==
    ASSUME TypeOK, NEW f \in Forager
    PROVE  Measured(f).realized
             = SatSub(forager_vault[f], forager[f].bond) - forager[f].principal
<1>1. /\ forager_vault[f] \in Nat /\ forager[f].bond \in Nat /\ forager[f].principal \in Nat
  BY RecordTyped
<1>2. Measured(f).realized
        = SatSub(forager_vault[f], RecoverableBond(forager[f].bond, forager_vault[f]))
            - forager[f].principal
  BY DEF Measured, Realized, RealizedEpochPnl
<1>3. SatSub(forager_vault[f], RecoverableBond(forager[f].bond, forager_vault[f]))
        = SatSub(forager_vault[f], forager[f].bond)
  BY <1>1 DEF SatSub, RecoverableBond, Lesser
<1>4. QED
  BY <1>2, <1>3

(* A flow that adds to the sub-account what it adds to the bond and the       *)
(* principal together is measured as nothing: always when it leaves the       *)
(* principal alone, and above a whole bond in any case.                     *)
LEMMA FlowUnmeasured ==
    ASSUME ColonyInv, ColonyInv', NEW f \in Forager,
           forager_vault'[f] - forager_vault[f]
             = (forager'[f].bond - forager[f].bond)
                 + (forager'[f].principal - forager[f].principal),
           \/ forager'[f].principal = forager[f].principal
           \/ /\ forager_vault[f] >= forager[f].bond
              /\ forager_vault'[f] >= forager'[f].bond
    PROVE  Measured(f)'.realized = Measured(f).realized
<1>1. TypeOK /\ TypeOK'
  BY DEF ColonyInv
<1>2. /\ forager_vault[f] \in Nat /\ forager[f].bond \in Nat /\ forager[f].principal \in Nat
      /\ Measured(f).realized
           = SatSub(forager_vault[f], forager[f].bond) - forager[f].principal
  BY <1>1, MeasuredIsExcess, RecordTyped
<1>3. Measured(f)'.realized
        = SatSub(forager_vault'[f], forager'[f].bond) - forager'[f].principal
  <2>1. TypeOK' => (Measured(f).realized
           = SatSub(forager_vault[f], forager[f].bond) - forager[f].principal)'
    BY MeasuredIsExcess, PTL
  <2>2. QED
    BY <1>1, <2>1
<1>4. /\ forager_vault'[f] \in Nat /\ forager'[f].bond \in Nat
      /\ forager'[f].principal \in Nat
  BY <1>1 DEF TypeOK, ForagerRecord
<1>5. SatSub(forager_vault'[f], forager'[f].bond) - forager'[f].principal
        = SatSub(forager_vault[f], forager[f].bond) - forager[f].principal
  BY <1>2, <1>4 DEF SatSub
<1>6. QED
  BY <1>2, <1>3, <1>5

LEMMA TopUpUnmeasured ==
    ASSUME ColonyInv, ColonyInv', NEW f \in Forager, NEW amount \in TopUps, TopUpBond(f, amount)
    PROVE  nav' = nav /\ Measured(f)'.realized = Measured(f).realized
<1>1. /\ forager \in [Forager -> ForagerRecord] /\ forager[f] \in ForagerRecord
      /\ forager_vault \in [Forager -> Nat] /\ amount \in Nat
      /\ forager[f].bond \in Nat /\ forager_vault[f] \in Nat
  <2>1. TypeOK /\ amount \in Nat
    BY AmountsAssumption DEF ColonyInv
  <2>2. QED
    BY <2>1, RecordTyped DEF TypeOK
<1>2. /\ forager'[f].bond = forager[f].bond + amount
      /\ forager'[f].principal = forager[f].principal
      /\ forager_vault'[f] = forager_vault[f] + amount
  BY <1>1 DEF TopUpBond, TopUpInto, ForagerRecord
<1>3. /\ forager_vault'[f] - forager_vault[f] = forager'[f].bond - forager[f].bond
      /\ forager'[f].principal - forager[f].principal = 0
      /\ forager'[f].bond - forager[f].bond \in Int
  <2>1. forager[f].principal \in Nat
    BY RecordTyped DEF ColonyInv
  <2>2. QED
    BY <1>1, <1>2, <2>1
<1>4. nav' = nav
  BY DEF TopUpBond, TopUpInto, broodVars, nav
<1>5. QED
  BY <1>2, <1>3, <1>4, FlowUnmeasured

LEMMA SlashUnmeasured ==
    ASSUME ColonyInv, ColonyInv', NEW f \in Forager, NEW slash_bps \in SlashBps(f),
           SlashForager(f, slash_bps)
    PROVE  nav' = nav /\ Measured(f)'.realized = Measured(f).realized
<1> DEFINE out == SlashSplit(forager[f].bond, slash_bps, config.slash_burn_bps)
<1>1. /\ TypeOK /\ forager \in [Forager -> ForagerRecord] /\ forager[f] \in ForagerRecord
      /\ forager_vault \in [Forager -> Nat] /\ forager[f].bond \in Nat
      /\ forager[f].principal \in Nat /\ forager_vault[f] \in Nat
  BY RecordTyped DEF ColonyInv, TypeOK
<1>2. /\ out.slashed \in Nat /\ out.burn \in Nat /\ out.to_cache \in Nat
      /\ out.burn + out.to_cache = out.slashed
  BY <1>1, SlashTaken
<1>3. /\ forager'[f].bond = forager[f].bond - out.slashed
      /\ forager'[f].principal = forager[f].principal
      /\ forager_vault'[f] = forager_vault[f] - out.burn - out.to_cache
      /\ nav' = nav
  <2>1. /\ forager' = [forager EXCEPT
                ![f].bond = forager[f].bond - out.slashed,
                ![f].status = IF forager[f].bond - out.slashed < config.min_bond
                              THEN "Slashed" ELSE "Scout"]
        /\ forager_vault' = [forager_vault EXCEPT ![f] = @ - out.burn - out.to_cache]
        /\ UNCHANGED <<idle_base, outstanding_principal>>
    BY DEF SlashForager, broodVars
  <2> HIDE DEF out
  <2>2. QED
    BY <1>1, <2>1 DEF ForagerRecord, nav
<1> HIDE DEF out
<1>4. /\ forager_vault'[f] - forager_vault[f] = forager'[f].bond - forager[f].bond
      /\ forager'[f].principal - forager[f].principal = 0
      /\ forager'[f].bond - forager[f].bond \in Int
  BY <1>1, <1>2, <1>3
<1>5. QED
  BY <1>3, <1>4, FlowUnmeasured

LEMMA CapitalUnmeasured ==
    ASSUME ColonyInv, ColonyInv', NEW f \in Forager, NEW delta \in Int,
           forager_vault[f] >= forager[f].bond,
           delta < 0 => -delta <= SatSub(forager_vault[f], forager[f].bond),
           forager'[f].bond = forager[f].bond,
           forager'[f].principal = forager[f].principal + delta,
           forager_vault'[f] = forager_vault[f] + delta
    PROVE  Measured(f)'.realized = Measured(f).realized
<1>1. /\ forager[f].bond \in Nat /\ forager_vault[f] \in Nat
      /\ forager[f].principal \in Nat
  BY RecordTyped DEF ColonyInv
<1>2. forager_vault'[f] >= forager'[f].bond
  BY <1>1 DEF SatSub
<1>3. /\ forager'[f].bond - forager[f].bond = 0
      /\ forager'[f].principal - forager[f].principal = delta
      /\ forager_vault'[f] - forager_vault[f] = delta
  BY <1>1
<1>4. forager_vault'[f] - forager_vault[f]
        = (forager'[f].bond - forager[f].bond) + (forager'[f].principal - forager[f].principal)
  BY <1>3
<1>5. QED
  BY <1>2, <1>4, FlowUnmeasured

(* A flow of collateral or capital is measured as nothing and prices no       *)
(* share.                                                                  *)
THEOREM FlowsAreNeverPerformance == Spec => FlowsAreNotPerformance
<1> DEFINE Flow(f) ==
               /\ forager_vault'[f] # forager_vault[f]
               /\ \/ \E amount \in TopUps : TopUpBond(f, amount)
                  \/ \E slash_bps \in SlashBps(f) : SlashForager(f, slash_bps)
                  \/ forager_vault[f] >= forager[f].bond /\ (FundScout(f) \/ RebalanceForager(f))
           Unmeasured == \A f \in Forager : Flow(f) =>
               nav' = nav /\ Measured(f)'.realized = Measured(f).realized
<1>1. ASSUME ColonyInv, ColonyInv', NEW f \in Forager, Flow(f)
      PROVE  nav' = nav /\ Measured(f)'.realized = Measured(f).realized
  <2>1. /\ TypeOK /\ forager \in [Forager -> ForagerRecord] /\ forager[f] \in ForagerRecord
        /\ forager_vault \in [Forager -> Nat]
        /\ idle_base \in Nat /\ outstanding_principal \in Nat
    BY <1>1, CountersTyped, RecordTyped DEF ColonyInv, TypeOK
  <2>2. CASE FundScout(f) /\ forager_vault[f] >= forager[f].bond
    <3> DEFINE ticket == config.scout_ticket_base_units
    <3>1. ticket \in Int /\ ~(ticket < 0)
      <4>1. ticket \in Nat \ {0}
        BY <2>1, ConfigInForce
      <4>2. QED
        BY <4>1
    <3>2. /\ forager'[f].bond = forager[f].bond
          /\ forager'[f].principal = forager[f].principal + ticket
          /\ forager_vault'[f] = forager_vault[f] + ticket
          /\ nav' = nav
      <4>1. /\ forager' = [forager EXCEPT ![f].principal = @ + ticket,
                                          ![f].last_scout_epoch = epoch]
            /\ forager_vault' = [forager_vault EXCEPT ![f] = @ + ticket]
            /\ idle_base' = idle_base - ticket
            /\ outstanding_principal' = outstanding_principal + ticket
        BY <2>2 DEF FundScout
      <4> HIDE DEF ticket
      <4>2. QED
        BY <2>1, <3>1, <4>1 DEF ForagerRecord, nav
    <3> HIDE DEF ticket
    <3>3. QED
      BY <1>1, <2>2, <3>1, <3>2, CapitalUnmeasured
  <2>3. CASE RebalanceForager(f) /\ forager_vault[f] >= forager[f].bond
    <3>1. PICK delta \in Int, size \in Nat \ {0} :
            /\ MoveCapital(f, delta, size)
            /\ delta = size \/ delta = -size
            /\ delta < 0 => size <= SatSub(forager_vault[f], forager[f].bond)
      BY <1>1, <2>3, RebalanceMoves
    <3>2. /\ forager'[f].bond = forager[f].bond
          /\ forager'[f].principal = forager[f].principal + delta
          /\ forager_vault'[f] = forager_vault[f] + delta
          /\ nav' = nav
      BY <2>1, <3>1 DEF MoveCapital, ForagerRecord, nav
    <3>3. delta < 0 => -delta <= SatSub(forager_vault[f], forager[f].bond)
      BY <3>1
    <3>4. QED
      BY <1>1, <2>3, <3>2, <3>3, CapitalUnmeasured
  <2>4. QED
    BY <1>1, <2>2, <2>3, TopUpUnmeasured, SlashUnmeasured
<1>2. ColonyInv /\ ColonyInv' /\ [Next]_vars => [Unmeasured]_vars
  BY <1>1
<1>3. FlowsAreNotPerformance <=> [][Unmeasured]_vars
  BY PTL DEF FlowsAreNotPerformance
<1> HIDE DEF Unmeasured
<1>4. QED
  BY <1>2, <1>3, ColonyInvariant, PTL DEF Spec

-----------------------------------------------------------------------------
(* The exploration budget.                                                 *)

(* Every ticket out of the pool is a scout that drew.                        *)
THEOREM TicketsAlwaysMatchPool == Spec => TicketsMatchScoutPool
<1> DEFINE Drawers(rec) == {f \in Forager : rec[f].last_scout_epoch = epoch}
           Match == epoch' = epoch =>
               LET Drawn(rec) == Cardinality({f \in Forager : rec[f].last_scout_epoch = epoch})
               IN  scout_pool' + config.scout_ticket_base_units * Drawn(forager')
                       = scout_pool + config.scout_ticket_base_units * Drawn(forager)
<1>1. ASSUME ColonyInv, [Next]_vars, epoch' = epoch
      PROVE  scout_pool' + config.scout_ticket_base_units * Cardinality(Drawers(forager'))
               = scout_pool + config.scout_ticket_base_units * Cardinality(Drawers(forager))
  <2> DEFINE ticket == config.scout_ticket_base_units
             before == Drawers(forager)
             after == Drawers(forager')
  <2>1. /\ TypeOK /\ forager \in [Forager -> ForagerRecord]
        /\ epoch \in Nat /\ scout_pool \in Nat /\ ticket \in Nat
    <3>1. TypeOK
      BY <1>1 DEF ColonyInv
    <3>2. forager \in [Forager -> ForagerRecord]
      BY <3>1 DEF TypeOK
    <3>3. QED
      BY <3>1, <3>2, CountersTyped, ConfigInForce
  <2>2. IsFiniteSet(before) /\ Cardinality(before) \in Nat
    <3>1. IsFiniteSet(Forager) /\ before \subseteq Forager
      BY ForagerAssumption
    <3> HIDE DEF before
    <3>2. QED
      BY <3>1, FS_Subset, FS_CardinalityType
  <2>3. CASE \E f \in Forager : FundScout(f)
    <3>1. PICK f \in Forager : FundScout(f)
      BY <2>3
    <3>2. f \notin before
      BY <2>1, <3>1, RecordTyped DEF FundScout, TicketDue
    <3>3. /\ forager'[f].last_scout_epoch = epoch
          /\ \A g \in Forager \ {f} : forager'[g] = forager[g]
      BY <2>1, <3>1 DEF FundScout, ForagerRecord
    <3>4. after = before \cup {f}
      BY <3>3
    <3>5. scout_pool' = scout_pool - ticket
      BY <3>1 DEF FundScout
    <3> HIDE DEF before, after, ticket
    <3>6. Cardinality(after) = Cardinality(before) + 1
      BY <2>2, <3>2, <3>4, FS_AddElement
    <3>7. scout_pool' + ticket * Cardinality(after) = scout_pool + ticket * Cardinality(before)
      <4> DEFINE n == Cardinality(before)
      <4>1. n \in Nat /\ Cardinality(after) = n + 1
        BY <2>2, <3>6
      <4> HIDE DEF n
      <4>2. ticket * (n + 1) = ticket * n + ticket /\ ticket * n \in Nat
        BY <2>1, <4>1, ProductIsNat
      <4>3. QED
        BY <2>1, <3>5, <4>1, <4>2 DEF n
    <3>8. QED
      BY <3>7 DEF before, after, ticket
  <2>4. CASE ~\E f \in Forager : FundScout(f)
    <3>1. \A f \in Forager : forager'[f].last_scout_epoch = forager[f].last_scout_epoch
      BY <1>1, <2>4, EpochNumbersMove
    <3>2. after = before
      BY <3>1
    <3>3. scout_pool' = scout_pool
      <4>1. ASSUME NEW f \in Forager, ForagerStep(f)
            PROVE  scout_pool' = scout_pool
        BY <2>4, <4>1 DEF ForagerStep, RegisterForager, OpenForagerVault, TopUpBond, TopUpInto,
           PromoteForager, RetireForager, SlashForager, SettleForager, RebalanceForager,
           MoveCapital, Trade, spentVars
      <4>2. ~FinalizeSettlement
        BY <1>1, <2>1 DEF FinalizeSettlement
      <4>3. QED
        BY <1>1, <4>1, <4>2 DEF Next, Tick, SetPaused, UpdateConfig, PayIn, PayOut, FundCache,
           BeginSettlement, vars, spentVars
    <3>4. QED
      BY <3>2, <3>3
  <2>5. QED
    BY <2>3, <2>4
<1>2. ColonyInv /\ [Next]_vars => [Match]_vars
  BY <1>1
<1>3. TicketsMatchScoutPool <=> [][Match]_vars
  BY PTL DEF TicketsMatchScoutPool
<1> HIDE DEF Match
<1>4. QED
  BY <1>2, <1>3, ColonyInvariant, PTL DEF Spec

-----------------------------------------------------------------------------
(* The colony as the environment of the depositors' vault.                 *)

VaultStep ==
    LET credited == idle_base' - idle_base
        placed == outstanding_principal' - outstanding_principal
    IN  \/ credited = 0 /\ placed = 0
        \/ \E assets \in Stakes : PayIn(assets) \/ PayOut(assets)
        \/ placed > 0 /\ Vault!Deploy(placed)
        \/ placed < 0 /\ epoch_phase = "Open" /\ Vault!Recall(-placed)
        \/ credited > 0 /\ epoch_phase = "Open" /\ Vault!Sweep(credited)
        \/ epoch_phase = "Settling" /\ Vault!Settle(placed, credited)

LEMMA SettleIsVaultStep ==
    ASSUME ColonyInv, NEW f \in Forager, SettleForager(f)
    PROVE  VaultStep
<1> DEFINE m == Measured(f)
           w == Waterfall(m)
           accrual == Accrual(f, m)
           credited == idle_base' - idle_base
           placed == outstanding_principal' - outstanding_principal
<1>1. /\ TypeOK /\ epoch_phase = "Settling"
      /\ idle_base \in Nat /\ outstanding_principal \in Nat
  BY CountersTyped DEF ColonyInv, SettleForager
<1>2. /\ w.from_bond \in 0..m.bond /\ w.from_cache \in 0..cache_balance
      /\ m.realized >= 0 => w.from_bond = 0 /\ w.from_cache = 0
      /\ m.realized < 0 => w.from_bond + w.from_cache <= -m.realized
  BY <1>1, WaterfallTyped
<1>3. /\ accrual \in 0..m.equity
      /\ accrual > 0 => m.realized > 0 /\ accrual <= m.realized
  BY <1>1, AccrualTyped
<1>4. /\ m.bond \in Nat /\ m.equity \in Nat /\ m.realized \in Int
      /\ m.realized = m.equity - forager[f].principal
      /\ forager[f].principal \in Nat /\ cache_balance \in Nat
  BY <1>1, MeasuredTyped, RecordTyped, CountersTyped
<1>5. /\ idle_base' = idle_base + w.from_bond + w.from_cache
      /\ outstanding_principal'
           = outstanding_principal - forager[f].principal + (m.equity - accrual)
      /\ outstanding_principal' \in Nat
  BY SettleMoves
<1> HIDE DEF m, w, accrual
<1>6. /\ credited = w.from_bond + w.from_cache /\ placed = m.realized - accrual
      /\ credited \in Nat /\ placed \in Int
      /\ idle_base' = idle_base + credited
      /\ outstanding_principal' = outstanding_principal + placed
      /\ outstanding_principal + placed >= 0
  BY <1>1, <1>2, <1>3, <1>4, <1>5
<1>7. credited <= (IF placed < 0 THEN -placed ELSE 0)
  <2>1. CASE m.realized < 0
    <3>1. accrual = 0
      BY <1>3, <1>4, <2>1
    <3>2. placed = m.realized
      BY <1>4, <1>6, <3>1
    <3> HIDE DEF credited, placed
    <3>3. QED
      BY <1>2, <1>6, <2>1, <3>2
  <2>2. CASE ~(m.realized < 0)
    <3>1. credited = 0
      BY <1>2, <1>4, <1>6, <2>2
    <3>2. placed >= 0
      BY <1>3, <1>4, <1>6, <2>2
    <3> HIDE DEF credited, placed
    <3>3. QED
      BY <1>6, <3>1, <3>2
  <2>3. QED
    BY <2>1, <2>2
<1>8. Vault!Settle(placed, credited)
  <2> HIDE DEF credited, placed
  <2>1. QED
    BY <1>6, <1>7 DEF Vault!Settle, Vault!shareVars
<1>9. QED
  BY <1>1, <1>8 DEF VaultStep

LEMMA RebalanceIsVaultStep ==
    ASSUME ColonyInv, NEW f \in Forager, RebalanceForager(f)
    PROVE  VaultStep
<1> DEFINE placed == outstanding_principal' - outstanding_principal
<1>1. PICK delta \in Int, size \in Nat \ {0} :
        /\ MoveCapital(f, delta, size)
        /\ delta = size \/ delta = -size
        /\ delta > 0 => delta <= idle_base
        /\ delta < 0 => size <= outstanding_principal
  BY RebalanceMoves
<1>2. /\ epoch_phase = "Open"
      /\ idle_base \in Nat /\ outstanding_principal \in Nat
  BY CountersTyped DEF ColonyInv, RebalanceForager, RebalanceAdmitted
<1>3. /\ idle_base' = idle_base - delta
      /\ outstanding_principal' = outstanding_principal + delta
  BY <1>1 DEF MoveCapital
<1>4. placed = delta
  BY <1>2, <1>3
<1> HIDE DEF placed
<1>5. CASE delta > 0
  <2>1. Vault!Deploy(placed)
    BY <1>1, <1>3, <1>4, <1>5 DEF Vault!Deploy, Vault!shareVars
  <2>2. QED
    BY <1>4, <1>5, <2>1 DEF VaultStep, placed
<1>6. CASE delta < 0
  <2>1. Vault!Recall(-placed)
    BY <1>1, <1>2, <1>3, <1>4, <1>6 DEF Vault!Recall, Vault!shareVars
  <2>2. QED
    BY <1>2, <1>4, <1>6, <2>1 DEF VaultStep, placed
<1>7. QED
  BY <1>1, <1>5, <1>6

LEMMA FundScoutIsVaultStep ==
    ASSUME ColonyInv, NEW f \in Forager, FundScout(f)
    PROVE  VaultStep
<1> DEFINE ticket == config.scout_ticket_base_units
           placed == outstanding_principal' - outstanding_principal
<1>1. /\ ticket \in Nat \ {0} /\ ticket <= idle_base
      /\ idle_base \in Nat /\ outstanding_principal \in Nat
  <2>1. TypeOK
    BY DEF ColonyInv
  <2>2. ticket <= idle_base
    BY DEF FundScout
  <2>3. QED
    BY <2>1, <2>2, CountersTyped, ConfigInForce
<1>2. /\ idle_base' = idle_base - ticket
      /\ outstanding_principal' = outstanding_principal + ticket
  BY DEF FundScout
<1> HIDE DEF ticket
<1>3. placed = ticket
  BY <1>1, <1>2
<1> HIDE DEF placed
<1>4. Vault!Deploy(placed)
  BY <1>1, <1>2, <1>3 DEF Vault!Deploy, Vault!shareVars
<1>5. QED
  BY <1>1, <1>3, <1>4 DEF VaultStep, placed

LEMMA RetireIsVaultStep ==
    ASSUME ColonyInv, NEW f \in Forager, RetireForager(f)
    PROVE  VaultStep
<1> DEFINE credited == idle_base' - idle_base
           placed == outstanding_principal' - outstanding_principal
<1>1. /\ SweptBase(f) \in Nat /\ idle_base \in Nat /\ outstanding_principal \in Nat
  BY CountersTyped, RecordTyped, SatSubTyped DEF ColonyInv, SweptBase
<1>2. /\ idle_base' = idle_base + SweptBase(f) /\ UNCHANGED outstanding_principal
      /\ epoch_phase = "Open"
  BY DEF RetireForager
<1>3. /\ credited = SweptBase(f) /\ placed = 0
      /\ idle_base' = idle_base + credited
  BY <1>1, <1>2
<1>4. Vault!Sweep(credited)
  <2> HIDE DEF credited
  <2>1. QED
    BY <1>2, <1>3 DEF Vault!Sweep, Vault!shareVars
<1>5. CASE SweptBase(f) = 0
  BY <1>3, <1>5 DEF VaultStep
<1>6. CASE SweptBase(f) # 0
  <2>1. credited > 0
    BY <1>1, <1>3, <1>6
  <2>2. QED
    BY <1>2, <1>4, <2>1 DEF VaultStep
<1>7. QED
  BY <1>5, <1>6

(* The colony moves the counters that price the shares only as the           *)
(* depositors' module lets its environment move them.                       *)
THEOREM VaultAlwaysMovesAsPromised == Spec => VaultMovesAsPromised
<1>1. ASSUME ColonyInv, [Next]_vars
      PROVE  VaultStep
  <2>1. idle_base \in Nat /\ outstanding_principal \in Nat
    BY <1>1, CountersTyped DEF ColonyInv
  <2>2. CASE UNCHANGED <<idle_base, outstanding_principal>>
    <3>1. idle_base' - idle_base = 0 /\ outstanding_principal' - outstanding_principal = 0
      BY <2>1, <2>2
    <3>2. QED
      BY <3>1 DEF VaultStep
  <2>3. ASSUME NEW assets \in Stakes, PayIn(assets) \/ PayOut(assets)
        PROVE  VaultStep
    BY <2>3 DEF VaultStep
  <2>4. ASSUME NEW f \in Forager, ForagerStep(f)
        PROVE  VaultStep \/ UNCHANGED <<idle_base, outstanding_principal>>
    BY <1>1, <2>4, SettleIsVaultStep, RebalanceIsVaultStep, FundScoutIsVaultStep,
       RetireIsVaultStep
       DEF ForagerStep, RegisterForager, OpenForagerVault, TopUpBond, TopUpInto,
           PromoteForager, SlashForager, Trade, broodVars
  <2>5. QED
    BY <1>1, <2>2, <2>3, <2>4 DEF Next, Tick, SetPaused, UpdateConfig, FundCache,
       BeginSettlement, FinalizeSettlement, vars, broodVars
<1>2. ColonyInv /\ [Next]_vars => [VaultStep]_vars
  BY <1>1
<1>3. VaultMovesAsPromised <=> [][VaultStep]_vars
  BY PTL DEF VaultMovesAsPromised, VaultStep
<1>4. QED
  BY <1>2, <1>3, ColonyInvariant, PTL DEF Spec

-----------------------------------------------------------------------------
(* The colony implements the abstract crank.                               *)

(* The record of each forager as the crank sees it.                         *)
StatusOf == [f \in Forager |-> forager[f].status]
SettledOf == [f \in Forager |-> forager[f].last_settled_epoch]

(* A step about one forager's record is an update of the crank's functions.   *)
LEMMA RecordSeenByCrank ==
    ASSUME NEW f \in Forager, \A g \in Forager \ {f} : forager'[g] = forager[g]
    PROVE  /\ StatusOf' = [StatusOf EXCEPT ![f] = forager'[f].status]
           /\ SettledOf' = [SettledOf EXCEPT ![f] = forager'[f].last_settled_epoch]
           /\ forager'[f].status = forager[f].status => StatusOf' = StatusOf
           /\ forager'[f].last_settled_epoch = forager[f].last_settled_epoch
                => SettledOf' = SettledOf
BY DEF StatusOf, SettledOf

LEMMA CrankInit == Init => Promise!Init
BY DEF Init, Promise!Init, BlankForager, None, Promise!None

LEMMA RegisterIsCrankStep ==
    ASSUME ColonyInv, NEW f \in Forager, RegisterForager(f)
    PROVE  Promise!RegisterForager(f)
<1>1. forager \in [Forager -> ForagerRecord]
  BY DEF ColonyInv, TypeOK
<1>2. /\ forager'[f].status = "Scout" /\ forager'[f].last_settled_epoch = epoch
      /\ \A g \in Forager \ {f} : forager'[g] = forager[g]
  BY <1>1 DEF RegisterForager, BlankForager
<1>3. /\ StatusOf' = [StatusOf EXCEPT ![f] = "Scout"]
      /\ SettledOf' = [SettledOf EXCEPT ![f] = epoch]
  BY <1>2, RecordSeenByCrank
<1>4. QED
  BY <1>3 DEF RegisterForager, Promise!RegisterForager, Promise!BetweenSettlements, StatusOf,
     SettledOf, None, Promise!None, clockVars, tallyVars, publishedVars, populationVars,
     switchVars, Promise!clockVars, Promise!tallyVars

LEMMA OpenIsCrankStep ==
    ASSUME ColonyInv, NEW f \in Forager, OpenForagerVault(f)
    PROVE  Promise!OpenForagerVault(f)
<1>1. /\ forager \in [Forager -> ForagerRecord] /\ forager[f] \in ForagerRecord
      /\ epoch >= 1 /\ epoch \in Nat
  BY CountersTyped DEF ColonyInv, TypeOK
<1>2. /\ forager'[f].status = forager[f].status
      /\ forager'[f].last_settled_epoch = SatSub(epoch, 1)
      /\ \A g \in Forager \ {f} : forager'[g] = forager[g]
  BY <1>1 DEF OpenForagerVault, ForagerRecord
<1>3. SatSub(epoch, 1) = Promise!PreviousEpoch
  BY <1>1 DEF SatSub, Promise!PreviousEpoch
<1>4. /\ StatusOf' = StatusOf
      /\ SettledOf' = [SettledOf EXCEPT ![f] = Promise!PreviousEpoch]
  BY <1>2, <1>3, RecordSeenByCrank
<1>5. QED
  BY <1>4 DEF OpenForagerVault, Promise!OpenForagerVault, Promise!BetweenSettlements, StatusOf,
     SettledOf, None, Promise!None, clockVars, tallyVars, publishedVars,
     switchVars, Promise!clockVars, Promise!tallyVars

(* A bond of at least min_bond needs an open sub-account.                    *)
LEMMA PromoteIsCrankStep ==
    ASSUME ColonyInv, NEW f \in Forager, PromoteForager(f)
    PROVE  Promise!PromoteForager(f)
<1>1. /\ TypeOK /\ forager \in [Forager -> ForagerRecord] /\ forager[f] \in ForagerRecord
  BY DEF ColonyInv, TypeOK
<1>2. f \in opened
  <2>1. config.min_bond \in Nat \ {0}
    BY <1>1, ConfigInForce
  <2>2. forager[f].bond # 0
    BY <1>1, <2>1, RecordTyped DEF PromoteForager
  <2>3. QED
    BY <2>2 DEF ColonyInv
<1>3. /\ forager'[f].status = "Active"
      /\ forager'[f].last_settled_epoch = forager[f].last_settled_epoch
      /\ \A g \in Forager \ {f} : forager'[g] = forager[g]
  BY <1>1 DEF PromoteForager, ForagerRecord
<1>4. StatusOf' = [StatusOf EXCEPT ![f] = "Active"] /\ SettledOf' = SettledOf
  BY <1>3, RecordSeenByCrank
<1>5. QED
  BY <1>2, <1>4 DEF PromoteForager, Promise!PromoteForager, StatusOf, SettledOf, clockVars,
     tallyVars, publishedVars, populationVars, switchVars, Promise!clockVars, Promise!tallyVars

LEMMA RetireIsCrankStep ==
    ASSUME ColonyInv, NEW f \in Forager, RetireForager(f)
    PROVE  Promise!RetireForager(f)
<1>1. /\ forager \in [Forager -> ForagerRecord] /\ forager[f] \in ForagerRecord
      /\ settleable_forager_count \in Nat
  BY CountersTyped DEF ColonyInv, TypeOK
<1>2. /\ forager'[f].status = "Retired"
      /\ forager'[f].last_settled_epoch = forager[f].last_settled_epoch
      /\ \A g \in Forager \ {f} : forager'[g] = forager[g]
  BY <1>1 DEF RetireForager, ForagerRecord
<1>3. StatusOf' = [StatusOf EXCEPT ![f] = "Retired"] /\ SettledOf' = SettledOf
  BY <1>2, RecordSeenByCrank
<1>4. settleable_forager_count' = Promise!OneLess(settleable_forager_count)
  BY <1>1 DEF RetireForager, SatSub, Promise!OneLess
<1>5. QED
  BY <1>3, <1>4 DEF RetireForager, Promise!RetireForager, Promise!BetweenSettlements,
     Promise!Countable, StatusOf, SettledOf, clockVars, tallyVars, publishedVars, switchVars,
     Promise!clockVars, Promise!tallyVars

LEMMA SlashIsCrankStep ==
    ASSUME ColonyInv, NEW f \in Forager, NEW slash_bps, SlashForager(f, slash_bps)
    PROVE  Promise!SlashForager(f)
<1> DEFINE bond_after == forager[f].bond
                          - SlashSplit(forager[f].bond, slash_bps, config.slash_burn_bps).slashed
           s == IF bond_after < config.min_bond THEN "Slashed" ELSE "Scout"
<1>1. forager \in [Forager -> ForagerRecord] /\ forager[f] \in ForagerRecord
  BY DEF ColonyInv, TypeOK
<1>2. /\ forager' = [forager EXCEPT ![f].bond = bond_after, ![f].status = s]
      /\ s \in {"Slashed", "Scout"}
  BY DEF SlashForager
<1> HIDE DEF bond_after, s
<1>3. /\ forager'[f].status = s
      /\ forager'[f].last_settled_epoch = forager[f].last_settled_epoch
      /\ \A g \in Forager \ {f} : forager'[g] = forager[g]
  BY <1>1, <1>2 DEF ForagerRecord
<1>4. StatusOf' = [StatusOf EXCEPT ![f] = s] /\ SettledOf' = SettledOf
  BY <1>3, RecordSeenByCrank
<1>5. QED
  BY <1>2, <1>4 DEF SlashForager, Promise!SlashForager, Promise!Countable, StatusOf, SettledOf,
     clockVars, tallyVars, publishedVars, populationVars, switchVars, Promise!clockVars,
     Promise!tallyVars

LEMMA SettleIsCrankStep ==
    ASSUME ColonyInv, NEW f \in Forager, SettleForager(f)
    PROVE  Promise!SettleForager(f)
<1> DEFINE m == Measured(f)
           s == StatusAfter(forager[f].status, m)
<1>1. /\ TypeOK /\ forager \in [Forager -> ForagerRecord] /\ forager[f] \in ForagerRecord
      /\ f \in opened /\ forager[f].status # "Retired" /\ forager[f].status # None
      /\ active_count_acc \in Nat
  BY CountersTyped DEF ColonyInv, TypeOK, SettleForager
<1>2. forager'[f] = SettledRecord(f, m) /\ (\A g \in Forager \ {f} : forager'[g] = forager[g])
  BY SettleMoves
<1>3. /\ forager'[f].status = s
      /\ forager'[f].last_settled_epoch = settling_epoch
  <2> HIDE DEF m
  <2>1. QED
    BY <1>1, <1>2 DEF SettledRecord, ForagerRecord
<1>4. /\ StatusOf' = [StatusOf EXCEPT ![f] = s]
      /\ SettledOf' = [SettledOf EXCEPT ![f] = settling_epoch]
  <2> HIDE DEF s
  <2>1. QED
    BY <1>2, <1>3, RecordSeenByCrank
<1>5. s \in Promise!StatusAfterSettle(StatusOf[f])
  <2>1. StatusOf[f] = forager[f].status
    BY DEF StatusOf
  <2> HIDE DEF m
  <2>2. QED
    BY <2>1 DEF Promise!StatusAfterSettle, StatusAfter, Demoted, StatusBeforeDemotion
<1>6. active_count_acc' = active_count_acc + (IF s = "Active" THEN 1 ELSE 0)
  <2>1. IF s = "Active" THEN active_count_acc' = active_count_acc + 1
        ELSE UNCHANGED active_count_acc
    BY DEF SettleForager, CountsActive
  <2> HIDE DEF s
  <2>2. QED
    BY <1>1, <2>1
<1>7. /\ epoch_phase = "Settling" /\ f \in Promise!Countable /\ Promise!AwaitsSettlement(f)
      /\ settled_count' = settled_count + 1
      /\ UNCHANGED <<opened, settleable_forager_count, active_forager_count, epoch,
                     settling_epoch, epoch_phase, epoch_over, paused>>
  BY DEF SettleForager, Promise!Countable, Promise!AwaitsSettlement, clockVars, switchVars,
     publishedVars, populationVars
<1> HIDE DEF s
<1>8. QED
  BY <1>4, <1>5, <1>6, <1>7 DEF Promise!SettleForager, StatusOf, SettledOf, Promise!clockVars

(* Capital and collateral moving on their own are nothing to the crank.      *)
LEMMA MoneyIsNoCrankStep ==
    ASSUME ColonyInv, NEW f \in Forager,
           \/ \E amount \in TopUps : TopUpBond(f, amount)
           \/ FundScout(f)
           \/ RebalanceForager(f)
           \/ \E move \in Moves : Trade(f, move)
    PROVE  UNCHANGED Promise!vars
<1>1. forager \in [Forager -> ForagerRecord] /\ forager[f] \in ForagerRecord
  BY DEF ColonyInv, TypeOK
<1>2. /\ forager'[f].status = forager[f].status
      /\ forager'[f].last_settled_epoch = forager[f].last_settled_epoch
      /\ \A g \in Forager \ {f} : forager'[g] = forager[g]
  BY <1>1 DEF TopUpBond, TopUpInto, FundScout, RebalanceForager, MoveCapital, Trade,
     ForagerRecord
<1>3. StatusOf' = StatusOf /\ SettledOf' = SettledOf
  BY <1>2, RecordSeenByCrank
<1>4. UNCHANGED <<clockVars, tallyVars, publishedVars, populationVars, switchVars>>
  BY DEF TopUpBond, TopUpInto, FundScout, RebalanceForager, MoveCapital, Trade
<1>5. QED
  BY <1>3, <1>4 DEF Promise!vars, Promise!clockVars, Promise!tallyVars, Promise!populationVars,
     StatusOf, SettledOf, clockVars, tallyVars, publishedVars, populationVars, switchVars

LEMMA CrankForagerStep ==
    ASSUME ColonyInv, NEW f \in Forager, ForagerStep(f)
    PROVE  Promise!ForagerStep(f) \/ UNCHANGED Promise!vars
BY RegisterIsCrankStep, OpenIsCrankStep, PromoteIsCrankStep, RetireIsCrankStep,
   SlashIsCrankStep, SettleIsCrankStep, MoneyIsNoCrankStep
   DEF ForagerStep, Promise!ForagerStep

LEMMA CrankEnvironmentStep ==
    ASSUME ColonyInv, [Next]_vars, ~\E f \in Forager : ForagerStep(f)
    PROVE  Promise!Next \/ UNCHANGED Promise!vars
<1> USE DEF clockVars, switchVars, tallyVars, publishedVars, spentVars, populationVars,
            broodVars, cacheVars, Promise!clockVars, Promise!tallyVars, Promise!populationVars
<1>1. CASE Tick
  BY <1>1 DEF Tick, Promise!Next, Promise!Tick
<1>2. ASSUME NEW p \in Switch, SetPaused(p)
      PROVE  Promise!Next
  <2>1. p \in BOOLEAN
    BY AmountsAssumption
  <2>2. Promise!SetPaused(p)
    BY <1>2 DEF SetPaused, Promise!SetPaused
  <2>3. QED
    BY <2>1, <2>2 DEF Promise!Next
<1>3. CASE BeginSettlement
  <2>1. Promise!BeginSettlement
    BY <1>3 DEF BeginSettlement, Promise!BeginSettlement, Promise!BeginWithTally
  <2>2. QED
    BY <2>1 DEF Promise!Next
<1>4. CASE FinalizeSettlement
  <2>1. Promise!FinalizeSettlement
    BY <1>4 DEF FinalizeSettlement, Promise!FinalizeSettlement, Promise!EveryoneCounted
  <2>2. QED
    BY <2>1 DEF Promise!Next
<1>5. ASSUME NEW patch \in Patches, UpdateConfig(patch)
      PROVE  UNCHANGED Promise!vars
  BY <1>5 DEF UpdateConfig, Promise!vars
<1>6. ASSUME NEW assets \in Stakes, PayIn(assets) \/ PayOut(assets)
      PROVE  UNCHANGED Promise!vars
  BY <1>6 DEF PayIn, PayOut, Promise!vars
<1>7. ASSUME NEW amount \in Premiums, FundCache(amount)
      PROVE  UNCHANGED Promise!vars
  BY <1>7 DEF FundCache, Promise!vars
<1>8. CASE UNCHANGED vars
  BY <1>8 DEF vars, Promise!vars
<1>9. QED
  BY <1>1, <1>2, <1>3, <1>4, <1>5, <1>6, <1>7, <1>8 DEF Next

(* Every step of the colony is a step of the crank or leaves its variables    *)
(* alone: the amounts only decide what the crank leaves open.                *)
THEOREM ColonyImplementsCrank == Spec => ImplementsCrank
<1>1. Init => Promise!Init
  BY CrankInit
<1>2. ColonyInv /\ [Next]_vars => [Promise!Next]_(Promise!vars)
  <2> SUFFICES ASSUME ColonyInv, [Next]_vars
               PROVE  Promise!Next \/ UNCHANGED Promise!vars
    OBVIOUS
  <2>1. CASE \E f \in Forager : ForagerStep(f)
    BY <2>1, CrankForagerStep DEF Promise!Next
  <2>2. CASE ~\E f \in Forager : ForagerStep(f)
    BY <2>2, CrankEnvironmentStep
  <2>3. QED
    BY <2>1, <2>2
<1>3. QED
  BY <1>1, <1>2, ColonyInvariant, PTL DEF Spec, ImplementsCrank, Promise!Spec
=============================================================================
