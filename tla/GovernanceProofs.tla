-------------------------- MODULE GovernanceProofs --------------------------
(***************************************************************************)
(* What the authority's handlers keep, for every set of keys, mints,         *)
(* foragers and patches, every published range and every length of an epoch.  *)
(*                                                                         *)
(* ConfigInv (types, and a configuration validate accepts) carries the rest:  *)
(* on it stand the silence slash, the admission price, the burn ledger and,   *)
(* on that, the bound mint, and the deadline.  The handover needs no types.   *)
(***************************************************************************)
EXTENDS Governance, TLAPS

-----------------------------------------------------------------------------
(* Types and the configuration.                                            *)
ConfigInv == TypeOK /\ ConfigStaysEditable

LEMMA ParameterNames ==
    /\ "epoch_duration_secs" \in Parameters
    /\ "nonresponse_timeout_epochs" \in Parameters
    /\ "admission_burn_amount" \in Parameters
  BY DEF Parameters

LEMMA PublishedTyped ==
    ASSUME NEW name \in Parameters
    PROVE  /\ Published[name][1] \in Nat
           /\ Published[name][2] \in Nat
           /\ Published[name][1] > 0
  BY PublishedAssumption

(* A validated record has every parameter in its published range.           *)
LEMMA ValidRange ==
    ASSUME NEW p, Validate(p), NEW name \in Parameters
    PROVE  /\ p[name] \in Nat
           /\ Published[name][1] <= p[name]
           /\ p[name] <= Published[name][2]
  BY PublishedTyped DEF Validate, InRange

LEMMA OverlayTyped ==
    ASSUME TypeOK, NEW patch \in scope.patches
    PROVE  Overlay(patch) \in [Parameters -> Nat]
<1>1. \A name \in DOMAIN patch : patch[name] \in Nat
  BY ScopesAssumption DEF TypeOK
<1>2. ASSUME NEW name \in Parameters
      PROVE  (IF name \in DOMAIN patch THEN patch[name] ELSE config[name]) \in Nat
  BY <1>1 DEF TypeOK
<1>3. QED
  BY <1>2 DEF Overlay

LEMMA ConfigInit == Init => ConfigInv
<1> SUFFICES ASSUME Init
             PROVE  ConfigInv
  OBVIOUS
<1>1. /\ scope \in Scopes
      /\ scope.genesis \in [Parameters -> Nat]
      /\ scope.founder \in Key
      /\ scope.layouts \subseteq {"Legacy", "Current"}
      /\ scope.horizon \in Nat
  BY ScopesAssumption DEF Init
<1>2. /\ config \in [Parameters -> Nat]
      /\ config.epoch_duration_secs = scope.genesis.epoch_duration_secs
  BY <1>1, ParameterNames DEF Init, Parameters
<1>3. /\ config.epoch_duration_secs \in Nat
      /\ Published.epoch_duration_secs[2] \in Nat
      /\ config.epoch_duration_secs <= Published.epoch_duration_secs[2]
  BY <1>2, ParameterNames, ValidRange, PublishedTyped DEF Init
<1>4. {time_left, term, elapsed} \subseteq 0..Published.epoch_duration_secs[2]
  BY <1>3 DEF Init
<1>5. created \subseteq DOMAIN Needs
  BY <1>1, ScopesAssumption DEF Init
<1>6. ConfigStaysEditable
  BY DEF Init, ConfigStaysEditable, Readable
<1>7. layout \in {"Legacy", "Current"} /\ epoch_phase \in {"Open", "Settling"}
  BY <1>1 DEF Init
<1>8. {authority, pending_authority, proposer} \subseteq Key \cup Stray \cup {NoKey}
  BY <1>1 DEF Init
<1>9. status \in [Forager -> {None, "Scout", "Slashed"}]
  BY DEF Init
<1>10. silence \in [Forager -> 0..scope.horizon]
  BY <1>1 DEF Init
<1>11. /\ paused \in BOOLEAN
       /\ kolny_mint \in Mint \cup {NoMint}
       /\ total_kolny_burned \in Nat
       /\ {supply, burnt} \subseteq [Mint -> Nat]
  <2>1. {supply, burnt} \subseteq [Mint -> Nat]
    BY SMT DEF Init
  <2>2. paused \in BOOLEAN /\ kolny_mint \in Mint \cup {NoMint} /\ total_kolny_burned \in Nat
    BY DEF Init
  <2>3. QED
    BY <2>1, <2>2
<1>12. /\ {minter_live, freezer_live} \subseteq [Mint -> BOOLEAN]
       /\ frozen \in [Mint -> SUBSET Forager]
  BY Zenon DEF Init
<1>13. TypeOK
  BY <1>1, <1>2, <1>4, <1>5, <1>7, <1>8, <1>9, <1>10, <1>11, <1>12 DEF TypeOK
<1>14. QED
  BY <1>6, <1>13 DEF ConfigInv

(* A record of which one parameter is replaced is still a record of naturals. *)
LEMMA MigratedTyped ==
    ASSUME TypeOK
    PROVE  [config EXCEPT !.admission_burn_amount = DEFAULT_ADMISSION_BURN_BASE_UNITS]
               \in [Parameters -> Nat]
<1>1. DEFAULT_ADMISSION_BURN_BASE_UNITS \in Nat
  BY PublishedAssumption, ParameterNames, PublishedTyped
<1>2. QED
  BY <1>1, ParameterNames DEF TypeOK

LEMMA TypesStep ==
    ASSUME ConfigInv, [Next]_vars
    PROVE  TypeOK'
<1> USE DEF ConfigInv
<1>1. CASE \E account \in DOMAIN Needs : Create(account)
  BY <1>1 DEF Create, TypeOK, authorityVars, epochVars, foragerVars, admissionVars, mintVars
<1>2. CASE \E patch \in scope.patches : UpdateConfig(patch)
  BY <1>2, OverlayTyped DEF UpdateConfig, DeadlineAfterUpdate, TypeOK, authorityVars,
     foragerVars, admissionVars, mintVars
<1>3. CASE \E p \in BOOLEAN : SetPaused(p)
  BY <1>3 DEF SetPaused, TypeOK, authorityVars, epochVars, foragerVars, admissionVars, mintVars
<1>4. CASE \E k \in scope.nominees \cup {NoKey} : ProposeAuthority(k)
  BY <1>4, ScopesAssumption DEF ProposeAuthority, TypeOK, epochVars, foragerVars,
     admissionVars, mintVars
<1>5. CASE \E k \in Key : AcceptAuthority(k)
  BY <1>5 DEF AcceptAuthority, PendingOnceAccepted, TypeOK, epochVars, foragerVars,
     admissionVars, mintVars
<1>6. CASE MigrateColonyConfig
  BY <1>6, MigratedTyped DEF MigrateColonyConfig, TypeOK, authorityVars, epochVars,
     foragerVars, mintVars
<1>7. CASE \E m \in scope.mints : SetKolnyMint(m)
  BY <1>7, ScopesAssumption DEF SetKolnyMint, TypeOK, authorityVars, epochVars, foragerVars,
     mintVars
<1>8. ASSUME NEW f \in scope.foragers, ForagerStep(f)
      PROVE  TypeOK'
  <2>1. f \in Forager /\ scope.mints \subseteq Mint /\ scope.horizon \in Nat
    BY ScopesAssumption DEF TypeOK
  <2>2. CASE \E m \in scope.mints : RegisterForager(f, m)
    <3>1. config.admission_burn_amount \in Nat
      BY ParameterNames DEF TypeOK
    <3>2. QED
      BY <2>1, <2>2, <3>1 DEF RegisterForager, TypeOK, authorityVars, epochVars, mintVars
  <2>3. CASE Heartbeat(f)
    BY <2>1, <2>3 DEF Heartbeat, TypeOK, authorityVars, epochVars, admissionVars, mintVars
  <2>4. CASE SlashForSilence(f)
    BY <2>1, <2>4 DEF SlashForSilence, TypeOK, authorityVars, epochVars, admissionVars, mintVars
  <2>5. QED
    BY <1>8, <2>2, <2>3, <2>4 DEF ForagerStep
<1>9. CASE Pass
  <2>1. scope.horizon \in Nat /\ Published.epoch_duration_secs[2] \in Nat
    BY ScopesAssumption, ParameterNames, PublishedTyped DEF TypeOK
  <2>2. time_left' \in 0..Published.epoch_duration_secs[2]
    BY <1>9, <2>1 DEF Pass, Countdown, TypeOK
  <2>3. elapsed' \in 0..Published.epoch_duration_secs[2]
    BY <1>9, <2>1 DEF Pass, TypeOK
  <2>4. silence' \in [Forager -> 0..scope.horizon]
    BY <1>9, <2>1 DEF Pass, TypeOK
  <2>5. {time_left, term, elapsed}' \subseteq 0..Published.epoch_duration_secs[2]
    BY <1>9, <2>2, <2>3 DEF Pass, TypeOK
  <2>6. /\ UNCHANGED <<scope, layout, authority, pending_authority, proposer, config, paused>>
        /\ UNCHANGED <<epoch_phase, created, status, kolny_mint, total_kolny_burned>>
        /\ UNCHANGED <<supply, burnt, minter_live, freezer_live, frozen>>
    BY <1>9 DEF Pass, authorityVars, admissionVars, mintVars
  <2>7. QED
    BY <2>4, <2>5, <2>6 DEF TypeOK
<1>10. CASE BeginSettlement
  BY <1>10 DEF BeginSettlement, TypeOK, authorityVars, foragerVars, admissionVars, mintVars
<1>11. CASE FinalizeSettlement
  <2>1. config.epoch_duration_secs \in 0..Published.epoch_duration_secs[2]
    BY <1>11, ParameterNames, ValidRange, PublishedTyped DEF FinalizeSettlement, ConfigStaysEditable
  <2>2. {time_left, term, elapsed}' \subseteq 0..Published.epoch_duration_secs[2]
    BY <1>11, <2>1, ParameterNames, PublishedTyped DEF FinalizeSettlement
  <2>3. /\ UNCHANGED <<scope, layout, authority, pending_authority, proposer, config, paused>>
        /\ UNCHANGED <<created, status, silence, kolny_mint, total_kolny_burned>>
        /\ UNCHANGED <<supply, burnt, minter_live, freezer_live, frozen>>
        /\ epoch_phase' = "Open"
    BY <1>11 DEF FinalizeSettlement, authorityVars, foragerVars, admissionVars, mintVars
  <2>4. QED
    BY <2>2, <2>3 DEF TypeOK
<1>12. CASE \E m \in scope.mints : TokenStep(m)
  <2>1. scope.mints \subseteq Mint /\ scope.freezable \subseteq Forager
    BY ScopesAssumption DEF TypeOK
  <2>2. ASSUME NEW m \in scope.mints, Issue(m)
        PROVE  TypeOK'
    <3>1. supply' \in [Mint -> Nat]
      BY <2>1, <2>2 DEF Issue, TypeOK
    <3>2. QED
      BY <2>2, <3>1 DEF Issue, TypeOK, authorityVars, epochVars, foragerVars, mintVars
  <2>3. ASSUME NEW m \in scope.mints, NEW f \in scope.freezable, Freeze(m, f)
        PROVE  TypeOK'
    <3>1. frozen' \in [Mint -> SUBSET Forager]
      BY <2>1, <2>3 DEF Freeze, TypeOK
    <3>2. QED
      BY <2>3, <3>1 DEF Freeze, TypeOK, authorityVars, epochVars, foragerVars, admissionVars
  <2>4. ASSUME NEW m \in scope.mints, Revoke(m)
        PROVE  TypeOK'
    <3>1. {minter_live, freezer_live}' \subseteq [Mint -> BOOLEAN]
      BY <2>1, <2>4 DEF Revoke, TypeOK
    <3>2. QED
      BY <2>4, <3>1 DEF Revoke, TypeOK, authorityVars, epochVars, foragerVars, admissionVars
  <2>5. QED
    BY <1>12, <2>2, <2>3, <2>4 DEF TokenStep
<1>13. CASE UNCHANGED vars
  BY <1>13 DEF vars, TypeOK, authorityVars, epochVars, foragerVars, admissionVars, mintVars
<1>14. QED
  BY <1>1, <1>2, <1>3, <1>4, <1>5, <1>6, <1>7, <1>8, <1>9, <1>10, <1>11, <1>12, <1>13
     DEF Next, AuthorityStep

LEMMA ConfigStep == ConfigInv /\ [Next]_vars => ConfigInv'
<1> SUFFICES ASSUME ConfigInv, [Next]_vars
             PROVE  ConfigStaysEditable'
  BY TypesStep DEF ConfigInv
<1> USE DEF ConfigInv, ConfigStaysEditable, Readable
<1>1. ASSUME UNCHANGED <<layout, config>>
      PROVE  ConfigStaysEditable'
  BY <1>1 DEF Validate, InRange
<1>2. CASE \E patch \in scope.patches : UpdateConfig(patch)
  BY <1>2 DEF UpdateConfig, Accepts, Validate, InRange
<1>3. CASE MigrateColonyConfig
  BY <1>3 DEF MigrateColonyConfig, Validate, InRange
<1>4. CASE \E account \in DOMAIN Needs : Create(account)
  BY <1>1, <1>4 DEF Create
<1>5. CASE \E p \in BOOLEAN : SetPaused(p)
  BY <1>1, <1>5 DEF SetPaused
<1>6. CASE \E k \in scope.nominees \cup {NoKey} : ProposeAuthority(k)
  BY <1>1, <1>6 DEF ProposeAuthority
<1>7. CASE \E k \in Key : AcceptAuthority(k)
  BY <1>1, <1>7 DEF AcceptAuthority
<1>8. CASE \E m \in scope.mints : SetKolnyMint(m)
  BY <1>1, <1>8 DEF SetKolnyMint
<1>9. CASE \E f \in scope.foragers : ForagerStep(f)
  BY <1>1, <1>9 DEF ForagerStep, RegisterForager, Heartbeat, SlashForSilence
<1>10. CASE Pass \/ BeginSettlement \/ FinalizeSettlement
  BY <1>1, <1>10 DEF Pass, BeginSettlement, FinalizeSettlement
<1>11. CASE \E m \in scope.mints : TokenStep(m)
  BY <1>1, <1>11 DEF TokenStep, Issue, Freeze, Revoke
<1>12. CASE UNCHANGED vars
  BY <1>1, <1>12 DEF vars
<1>13. QED
  BY <1>2, <1>3, <1>4, <1>5, <1>6, <1>7, <1>8, <1>9, <1>10, <1>11, <1>12
     DEF Next, AuthorityStep

(* Types and an editable configuration are inductive together: finalize takes *)
(* its deadline from a configuration that is in range.                       *)
THEOREM ConfigInvariant == Spec => []ConfigInv
  BY ConfigInit, ConfigStep, PTL DEF Spec

(* Every handler of admin.rs, admission, the slash and the crank's clock keep  *)
(* their types, whatever the bounds: no counter or difference goes negative.   *)
THEOREM GovernanceTyped == Spec => []TypeOK
<1>1. ConfigInv => TypeOK
  BY DEF ConfigInv
<1>2. QED
  BY <1>1, ConfigInvariant, PTL

(* update_config and migrate_colony_config leave a configuration that would    *)
(* pass validate, so neither can make every later edit revert.                *)
THEOREM ConfigAlwaysEditable == Spec => []ConfigStaysEditable
<1>1. ConfigInv => ConfigStaysEditable
  BY DEF ConfigInv
<1>2. QED
  BY <1>1, ConfigInvariant, PTL

-----------------------------------------------------------------------------
(* The silence slash.                                                      *)

LEMMA ProductMonotone ==
    ASSUME NEW a \in Nat, NEW b \in Nat, NEW x \in Nat, NEW y \in Nat, x <= a, y <= b
    PROVE  x * y \in Nat /\ a * b \in Nat /\ x * y <= a * b
<1>1. x * y <= a * y
  BY SMT
<1>2. a * y <= a * b
  BY SMT
<1>3. x * y \in Nat /\ a * y \in Nat /\ a * b \in Nat
  BY SMT
<1>4. QED
  BY <1>1, <1>2, <1>3

LEMMA SlashedBeyondTheShortest ==
    ASSUME ConfigInv, NEW f \in Forager, SlashForSilence(f)
    PROVE  silence[f] > Published.nonresponse_timeout_epochs[1]
                           * Published.epoch_duration_secs[1]
<1>1. Validate(config)
  BY DEF ConfigInv, ConfigStaysEditable, SlashForSilence, SignedByAuthority
<1>2. /\ config.nonresponse_timeout_epochs \in Nat
      /\ Published.nonresponse_timeout_epochs[1] <= config.nonresponse_timeout_epochs
      /\ config.epoch_duration_secs \in Nat
      /\ Published.epoch_duration_secs[1] <= config.epoch_duration_secs
  BY <1>1, ParameterNames, ValidRange
<1>3. /\ Published.nonresponse_timeout_epochs[1] \in Nat
      /\ Published.epoch_duration_secs[1] \in Nat
  BY ParameterNames, PublishedTyped
<1>4. /\ NonresponseLimit \in Nat
      /\ Published.nonresponse_timeout_epochs[1] * Published.epoch_duration_secs[1] \in Nat
      /\ Published.nonresponse_timeout_epochs[1] * Published.epoch_duration_secs[1]
             <= NonresponseLimit
  BY <1>2, <1>3, ProductMonotone DEF NonresponseLimit
<1>5. silence[f] \in Nat
  BY ScopesAssumption DEF ConfigInv, TypeOK
<1>6. silence[f] > NonresponseLimit
  BY DEF SlashForSilence
<1>7. QED
  BY <1>4, <1>5, <1>6

(* Only admission and the slash for silence write a status. *)
LEMMA StatusMovers ==
    ASSUME [Next]_vars
    PROVE  \/ UNCHANGED status
           \/ \E f \in scope.foragers, m \in scope.mints : RegisterForager(f, m)
           \/ \E f \in scope.foragers : SlashForSilence(f)
<1>1. CASE AuthorityStep
  BY <1>1 DEF AuthorityStep, Create, UpdateConfig, SetPaused, ProposeAuthority,
     MigrateColonyConfig, SetKolnyMint, foragerVars
<1>2. CASE \E k \in Key : AcceptAuthority(k)
  BY <1>2 DEF AcceptAuthority, foragerVars
<1>3. CASE \E f \in scope.foragers : ForagerStep(f)
  BY <1>3 DEF ForagerStep, Heartbeat
<1>4. CASE Pass \/ BeginSettlement \/ FinalizeSettlement
  BY <1>4 DEF Pass, BeginSettlement, FinalizeSettlement, foragerVars
<1>5. CASE \E m \in scope.mints : TokenStep(m)
  BY <1>5 DEF TokenStep, Issue, Freeze, Revoke, foragerVars
<1>6. CASE UNCHANGED vars
  BY <1>6 DEF vars, foragerVars
<1>7. QED
  BY <1>1, <1>2, <1>3, <1>4, <1>5, <1>6 DEF Next

(* slash_forager for silence is refused within the shortest timeout of the     *)
(* shortest epoch, whatever update_config did since the heartbeat.            *)
THEOREM PunctualNeverSlashed == Spec => PunctualNeverSilenced
<1>1. ASSUME ConfigInv, [Next]_vars, NEW f \in Forager,
             status[f] # "Slashed", status'[f] = "Slashed"
      PROVE  silence[f] > Published.nonresponse_timeout_epochs[1]
                             * Published.epoch_duration_secs[1]
  <2>1. status \in [Forager -> {None, "Scout", "Slashed"}] /\ scope.foragers \subseteq Forager
    BY <1>1, ScopesAssumption DEF ConfigInv, TypeOK
  <2>2. ASSUME NEW g \in scope.foragers, NEW m \in scope.mints, RegisterForager(g, m)
        PROVE  FALSE
    BY <1>1, <2>1, <2>2 DEF RegisterForager
  <2>3. ASSUME NEW g \in scope.foragers, SlashForSilence(g)
        PROVE  g = f
    BY <1>1, <2>1, <2>3 DEF SlashForSilence
  <2>4. PICK g \in scope.foragers : SlashForSilence(g)
    BY <1>1, <2>2, StatusMovers
  <2>5. SlashForSilence(f)
    BY <2>3, <2>4
  <2>6. QED
    BY <1>1, <2>5, SlashedBeyondTheShortest
<1>2. ASSUME ConfigInv, [Next]_vars
      PROVE  \A f \in Forager : (status[f] # "Slashed" /\ status'[f] = "Slashed") =>
                silence[f] > Published.nonresponse_timeout_epochs[1]
                                * Published.epoch_duration_secs[1]
  BY <1>1, <1>2
<1>3. QED
  BY <1>2, ConfigInvariant, PTL DEF Spec, PunctualNeverSilenced

-----------------------------------------------------------------------------
(* The burn counter.                                                       *)

UnboundIsUnburned ==
    /\ kolny_mint = NoMint => total_kolny_burned = 0
    /\ ~Readable => kolny_mint = NoMint

BurnInv == ConfigInv /\ BurnLedger /\ UnboundIsUnburned

LEMMA BurnInit == Init => BurnInv
<1> SUFFICES ASSUME Init
             PROVE  BurnLedger /\ UnboundIsUnburned
  BY ConfigInit DEF BurnInv
<1>1. UnboundIsUnburned
  BY DEF Init, UnboundIsUnburned
<1>2. BurnLedger
  BY KeyAssumption DEF Init, BurnLedger
<1>3. QED
  BY <1>1, <1>2

LEMMA BurnStep == BurnInv /\ [Next]_vars => BurnInv'
<1> SUFFICES ASSUME BurnInv, [Next]_vars
             PROVE  BurnLedger' /\ UnboundIsUnburned'
  BY ConfigStep DEF BurnInv
<1> USE DEF BurnInv
<1>0. /\ burnt \in [Mint -> Nat]
      /\ total_kolny_burned \in Nat
      /\ scope.mints \subseteq Mint
      /\ layout \in {"Legacy", "Current"}
  BY ScopesAssumption DEF ConfigInv, TypeOK
<1>1. ASSUME UNCHANGED <<layout, kolny_mint, total_kolny_burned, burnt>>
      PROVE  BurnLedger' /\ UnboundIsUnburned'
  BY <1>1 DEF BurnLedger, UnboundIsUnburned, Readable
<1>2. CASE MigrateColonyConfig
  BY <1>0, <1>2, KeyAssumption
     DEF MigrateColonyConfig, OldLength, BurnLedger, UnboundIsUnburned, Readable
<1>3. ASSUME NEW m \in scope.mints, SetKolnyMint(m)
      PROVE  BurnLedger' /\ UnboundIsUnburned'
  BY <1>0, <1>3, KeyAssumption
     DEF SetKolnyMint, SignedByAuthority, BurnLedger, UnboundIsUnburned, Readable
<1>4. ASSUME NEW f \in scope.foragers, NEW m \in scope.mints, RegisterForager(f, m)
      PROVE  BurnLedger' /\ UnboundIsUnburned'
  <2>1. m \in Mint /\ m = kolny_mint /\ kolny_mint # NoMint /\ Readable
    BY <1>0, <1>4 DEF RegisterForager
  <2>2. /\ UNCHANGED <<layout, kolny_mint>>
        /\ total_kolny_burned' = total_kolny_burned + config.admission_burn_amount
        /\ burnt' = [burnt EXCEPT ![m] = @ + config.admission_burn_amount]
    BY <1>4 DEF RegisterForager
  <2>3. QED
    BY <1>0, <2>1, <2>2 DEF BurnLedger, UnboundIsUnburned, Readable
<1>5. CASE \E account \in DOMAIN Needs : Create(account)
  BY <1>1, <1>5 DEF Create, admissionVars
<1>6. CASE \E patch \in scope.patches : UpdateConfig(patch)
  BY <1>1, <1>6 DEF UpdateConfig, admissionVars
<1>7. CASE \/ \E p \in BOOLEAN : SetPaused(p)
           \/ \E k \in scope.nominees \cup {NoKey} : ProposeAuthority(k)
           \/ \E k \in Key : AcceptAuthority(k)
  BY <1>1, <1>7 DEF SetPaused, ProposeAuthority, AcceptAuthority, admissionVars
<1>8. CASE \E f \in scope.foragers : Heartbeat(f) \/ SlashForSilence(f)
  BY <1>1, <1>8 DEF Heartbeat, SlashForSilence, admissionVars
<1>9. CASE Pass \/ BeginSettlement \/ FinalizeSettlement
  BY <1>1, <1>9 DEF Pass, BeginSettlement, FinalizeSettlement, admissionVars
<1>10. CASE \E m \in scope.mints : TokenStep(m)
  BY <1>1, <1>10 DEF TokenStep, Issue, Freeze, Revoke, admissionVars
<1>11. CASE UNCHANGED vars
  BY <1>1, <1>11 DEF vars, admissionVars
<1>12. QED
  BY <1>2, <1>3, <1>4, <1>5, <1>6, <1>7, <1>8, <1>9, <1>10, <1>11
     DEF Next, AuthorityStep, ForagerStep

(* The ledger is inductive once an unbound mint means nothing burned yet and   *)
(* an old layout means an unbound mint.                                      *)
THEOREM BurnInvariant == Spec => []BurnInv
  BY BurnInit, BurnStep, PTL DEF Spec

(* total_kolny_burned is what register_forager destroyed of the bound mint,    *)
(* and nothing else is destroyed.                                           *)
THEOREM BurnLedgerAlwaysExact == Spec => []BurnLedger
<1>1. BurnInv => BurnLedger
  BY DEF BurnInv
<1>2. QED
  BY <1>1, BurnInvariant, PTL

(* Only admission makes a forager of a record that was none, and it burns an   *)
(* amount in the published band.                                            *)
THEOREM AdmissionAlwaysPriced == Spec => AdmissionPriced
<1>1. ASSUME BurnInv, [Next]_vars, NEW f \in Forager, status[f] = None, status'[f] # None
      PROVE  \E m \in Mint :
                /\ m = kolny_mint
                /\ burnt'[m] - burnt[m] \in Published.admission_burn_amount[1]
                                              ..Published.admission_burn_amount[2]
  <2>1. /\ status \in [Forager -> {None, "Scout", "Slashed"}]
        /\ scope.foragers \subseteq Forager
        /\ scope.mints \subseteq Mint
        /\ burnt \in [Mint -> Nat]
    BY <1>1, ScopesAssumption DEF BurnInv, ConfigInv, TypeOK
  <2>2. ASSUME NEW g \in scope.foragers, SlashForSilence(g)
        PROVE  FALSE
    BY <1>1, <2>1, <2>2 DEF SlashForSilence
  <2>3. PICK g \in scope.foragers, m \in scope.mints : RegisterForager(g, m)
    BY <1>1, <2>2, StatusMovers
  <2>4. Validate(config)
    BY <1>1, <2>3 DEF RegisterForager, BurnInv, ConfigInv, ConfigStaysEditable
  <2>5. /\ config.admission_burn_amount \in Nat
        /\ Published.admission_burn_amount[1] <= config.admission_burn_amount
        /\ config.admission_burn_amount <= Published.admission_burn_amount[2]
    BY <2>4, ParameterNames, ValidRange
  <2>6. m \in Mint /\ m = kolny_mint /\ burnt'[m] = burnt[m] + config.admission_burn_amount
    BY <2>1, <2>3 DEF RegisterForager
  <2>7. burnt'[m] - burnt[m] \in Published.admission_burn_amount[1]
                                  ..Published.admission_burn_amount[2]
    <3>1. burnt[m] \in Nat
      BY <2>1, <2>6
    <3>2. /\ Published.admission_burn_amount[1] \in Nat
          /\ Published.admission_burn_amount[2] \in Nat
      BY ParameterNames, PublishedTyped
    <3>3. QED
      BY <2>5, <2>6, <3>1, <3>2
  <2>8. QED
    BY <2>6, <2>7
<1>2. ASSUME BurnInv, [Next]_vars
      PROVE  \A f \in Forager : (status[f] = None /\ status'[f] # None) =>
                \E m \in Mint :
                   /\ m = kolny_mint
                   /\ burnt'[m] - burnt[m] \in Published.admission_burn_amount[1]
                                                 ..Published.admission_burn_amount[2]
  BY <1>1, <1>2
<1>3. QED
  BY <1>2, BurnInvariant, PTL DEF Spec, AdmissionPriced

-----------------------------------------------------------------------------
(* The bound mint.                                                         *)

(* Whatever mint is bound, nobody holds an authority over it any more.       *)
BoundMintRevoked ==
    kolny_mint # NoMint => ~minter_live[kolny_mint] /\ ~freezer_live[kolny_mint]

MintInv == BurnInv /\ BoundMintRevoked

LEMMA MintInit == Init => MintInv
  BY BurnInit DEF Init, MintInv, BoundMintRevoked

(* A step leaves the binding as it is, or makes it; only tokens of a mint     *)
(* with a live authority are issued or frozen.                              *)
LEMMA BoundMintHeld ==
    ASSUME MintInv, [Next]_vars, kolny_mint # NoMint
    PROVE  /\ kolny_mint' = kolny_mint
           /\ supply'[kolny_mint] <= supply[kolny_mint]
           /\ frozen'[kolny_mint] = frozen[kolny_mint]
           /\ ~minter_live'[kolny_mint] /\ ~freezer_live'[kolny_mint]
<1> DEFINE Held == /\ kolny_mint' = kolny_mint
                   /\ supply'[kolny_mint] <= supply[kolny_mint]
                   /\ frozen'[kolny_mint] = frozen[kolny_mint]
                   /\ ~minter_live'[kolny_mint] /\ ~freezer_live'[kolny_mint]
<1>0. /\ kolny_mint \in Mint
      /\ supply \in [Mint -> Nat] /\ supply[kolny_mint] \in Nat
      /\ frozen \in [Mint -> SUBSET Forager]
      /\ minter_live \in [Mint -> BOOLEAN] /\ freezer_live \in [Mint -> BOOLEAN]
      /\ scope.mints \subseteq Mint
      /\ layout = "Current"
      /\ ~minter_live[kolny_mint] /\ ~freezer_live[kolny_mint]
  BY ScopesAssumption
     DEF MintInv, BoundMintRevoked, BurnInv, UnboundIsUnburned, Readable, ConfigInv, TypeOK
<1>1. ASSUME UNCHANGED <<kolny_mint, supply, frozen, minter_live, freezer_live>>
      PROVE  Held
  BY <1>0, <1>1
<1>2. CASE MigrateColonyConfig
  BY <1>0, <1>2 DEF MigrateColonyConfig, OldLength
<1>3. CASE \E m \in scope.mints : SetKolnyMint(m)
  BY <1>3 DEF SetKolnyMint
<1>4. ASSUME NEW f \in scope.foragers, NEW m \in scope.mints, RegisterForager(f, m)
      PROVE  Held
  <2>1. config.admission_burn_amount \in Nat
    BY ParameterNames DEF MintInv, BurnInv, ConfigInv, TypeOK
  <2>2. /\ UNCHANGED <<kolny_mint, frozen, minter_live, freezer_live>>
        /\ m = kolny_mint
        /\ supply' = [supply EXCEPT ![m] = @ - config.admission_burn_amount]
    BY <1>4 DEF RegisterForager, mintVars
  <2>3. supply'[kolny_mint] <= supply[kolny_mint]
    BY <1>0, <2>1, <2>2
  <2>4. QED
    BY <1>0, <2>2, <2>3
<1>5. ASSUME NEW m \in scope.mints, Issue(m)
      PROVE  Held
  <2>1. m # kolny_mint
    BY <1>0, <1>5 DEF Issue
  <2>2. supply'[kolny_mint] = supply[kolny_mint]
    BY <1>0, <1>5, <2>1 DEF Issue
  <2>3. UNCHANGED <<kolny_mint, frozen, minter_live, freezer_live>>
    BY <1>5 DEF Issue, mintVars
  <2>4. QED
    BY <1>0, <2>2, <2>3
<1>6. ASSUME NEW m \in scope.mints, NEW f \in scope.freezable, Freeze(m, f)
      PROVE  Held
  <2>1. m # kolny_mint
    BY <1>0, <1>6 DEF Freeze
  <2>2. frozen'[kolny_mint] = frozen[kolny_mint]
    BY <1>0, <1>6, <2>1 DEF Freeze
  <2>3. UNCHANGED <<kolny_mint, supply, minter_live, freezer_live>>
    BY <1>6 DEF Freeze, admissionVars
  <2>4. QED
    BY <1>0, <2>2, <2>3
<1>7. ASSUME NEW m \in scope.mints, Revoke(m)
      PROVE  Held
  <2>1. ~minter_live'[kolny_mint] /\ ~freezer_live'[kolny_mint]
    BY <1>0, <1>7 DEF Revoke
  <2>2. UNCHANGED <<kolny_mint, supply, frozen>>
    BY <1>7 DEF Revoke, admissionVars
  <2>3. QED
    BY <1>0, <2>1, <2>2
<1>8. CASE \/ \E account \in DOMAIN Needs : Create(account)
           \/ \E patch \in scope.patches : UpdateConfig(patch)
  BY <1>1, <1>8 DEF Create, UpdateConfig, admissionVars, mintVars
<1>9. CASE \/ \E p \in BOOLEAN : SetPaused(p)
           \/ \E k \in scope.nominees \cup {NoKey} : ProposeAuthority(k)
           \/ \E k \in Key : AcceptAuthority(k)
  BY <1>1, <1>9 DEF SetPaused, ProposeAuthority, AcceptAuthority, admissionVars, mintVars
<1>10. CASE \E f \in scope.foragers : Heartbeat(f) \/ SlashForSilence(f)
  BY <1>1, <1>10 DEF Heartbeat, SlashForSilence, admissionVars, mintVars
<1>11. CASE Pass \/ BeginSettlement \/ FinalizeSettlement
  BY <1>1, <1>11 DEF Pass, BeginSettlement, FinalizeSettlement, admissionVars, mintVars
<1>12. CASE UNCHANGED vars
  BY <1>1, <1>12 DEF vars, admissionVars, mintVars
<1>13. QED
  BY <1>2, <1>3, <1>4, <1>5, <1>6, <1>7, <1>8, <1>9, <1>10, <1>11, <1>12
     DEF Next, AuthorityStep, ForagerStep, TokenStep

(* Binding a mint checks what holds for ever after. *)
LEMMA BindingChecks ==
    ASSUME MintInv, [Next]_vars, kolny_mint = NoMint, kolny_mint' # NoMint
    PROVE  ~minter_live'[kolny_mint'] /\ ~freezer_live'[kolny_mint']
<1>1. ASSUME UNCHANGED kolny_mint
      PROVE  FALSE
  BY <1>1
<1>2. CASE MigrateColonyConfig
  BY <1>2 DEF MigrateColonyConfig
<1>3. CASE \E m \in scope.mints : SetKolnyMint(m)
  BY <1>3 DEF SetKolnyMint, CheckAdmissionMint, mintVars
<1>4. CASE \/ \E account \in DOMAIN Needs : Create(account)
           \/ \E patch \in scope.patches : UpdateConfig(patch)
           \/ \E p \in BOOLEAN : SetPaused(p)
           \/ \E k \in scope.nominees \cup {NoKey} : ProposeAuthority(k)
           \/ \E k \in Key : AcceptAuthority(k)
  BY <1>1, <1>4 DEF Create, UpdateConfig, SetPaused, ProposeAuthority, AcceptAuthority,
     admissionVars
<1>5. CASE \E f \in scope.foragers : ForagerStep(f)
  BY <1>1, <1>5 DEF ForagerStep, RegisterForager, Heartbeat, SlashForSilence, admissionVars
<1>6. CASE Pass \/ BeginSettlement \/ FinalizeSettlement
  BY <1>1, <1>6 DEF Pass, BeginSettlement, FinalizeSettlement, admissionVars
<1>7. CASE \E m \in scope.mints : TokenStep(m)
  BY <1>1, <1>7 DEF TokenStep, Issue, Freeze, Revoke, admissionVars
<1>8. CASE UNCHANGED vars
  BY <1>1, <1>8 DEF vars, admissionVars
<1>9. QED
  BY <1>2, <1>3, <1>4, <1>5, <1>6, <1>7, <1>8 DEF Next, AuthorityStep

LEMMA MintStep == MintInv /\ [Next]_vars => MintInv'
<1> SUFFICES ASSUME MintInv, [Next]_vars
             PROVE  BoundMintRevoked'
  BY BurnStep DEF MintInv
<1>1. CASE kolny_mint # NoMint
  BY <1>1, BoundMintHeld DEF BoundMintRevoked
<1>2. CASE kolny_mint = NoMint
  BY <1>2, BindingChecks DEF BoundMintRevoked
<1>3. QED
  BY <1>1, <1>2

(* set_kolny_mint binds once, and what check_admission_mint saw then holds     *)
(* for ever: no further supply, no further frozen holder.                     *)
THEOREM BoundMintStaysOutOfReach == Spec => BoundMintOutOfReach
<1>1. ASSUME MintInv, [Next]_vars
      PROVE  kolny_mint # NoMint =>
                /\ kolny_mint' = kolny_mint
                /\ supply'[kolny_mint] <= supply[kolny_mint]
                /\ frozen'[kolny_mint] = frozen[kolny_mint]
  BY <1>1, BoundMintHeld
<1>2. QED
  BY <1>1, MintInit, MintStep, PTL DEF Spec, BoundMintOutOfReach

-----------------------------------------------------------------------------
(* The deadline.                                                           *)

(* What has passed of an epoch and what is left of it make up its term.      *)
TermKept == elapsed + time_left >= term

LEMMA TermInit == Init => TermKept
<1> SUFFICES ASSUME Init
             PROVE  TermKept
  OBVIOUS
<1>1. term \in Nat /\ time_left \in Nat /\ elapsed = term - time_left
  BY ConfigInit, PublishedTyped, ParameterNames DEF ConfigInv, TypeOK, Init
<1>2. QED
  BY <1>1 DEF TermKept

LEMMA TermStep == ConfigInv /\ TermKept /\ [Next]_vars => TermKept'
<1> SUFFICES ASSUME ConfigInv, TermKept, [Next]_vars
             PROVE  TermKept'
  OBVIOUS
<1> USE DEF TermKept
<1>0. {time_left, term, elapsed} \subseteq Nat
  BY PublishedTyped, ParameterNames DEF ConfigInv, TypeOK
<1>1. ASSUME UNCHANGED <<time_left, term, elapsed>>
      PROVE  TermKept'
  BY <1>1
<1>2. CASE Pass
  BY <1>0, <1>2 DEF Pass, Countdown
<1>3. CASE FinalizeSettlement
  <2>1. config.epoch_duration_secs \in Nat
    BY ParameterNames DEF ConfigInv, TypeOK
  <2>2. QED
    BY <1>3, <2>1 DEF FinalizeSettlement
<1>4. CASE \E patch \in scope.patches : UpdateConfig(patch)
  BY <1>1, <1>4 DEF UpdateConfig, DeadlineAfterUpdate
<1>5. CASE \/ \E account \in DOMAIN Needs : Create(account)
           \/ \E p \in BOOLEAN : SetPaused(p)
           \/ \E k \in scope.nominees \cup {NoKey} : ProposeAuthority(k)
           \/ \E k \in Key : AcceptAuthority(k)
  BY <1>1, <1>5 DEF Create, SetPaused, ProposeAuthority, AcceptAuthority, epochVars
<1>6. CASE MigrateColonyConfig \/ \E m \in scope.mints : SetKolnyMint(m)
  BY <1>1, <1>6 DEF MigrateColonyConfig, SetKolnyMint, epochVars
<1>7. CASE \E f \in scope.foragers : ForagerStep(f)
  BY <1>1, <1>7 DEF ForagerStep, RegisterForager, Heartbeat, SlashForSilence, epochVars
<1>8. CASE BeginSettlement
  BY <1>1, <1>8 DEF BeginSettlement
<1>9. CASE \E m \in scope.mints : TokenStep(m)
  BY <1>1, <1>9 DEF TokenStep, Issue, Freeze, Revoke, epochVars
<1>10. CASE UNCHANGED vars
  BY <1>1, <1>10 DEF vars, epochVars
<1>11. QED
  BY <1>2, <1>3, <1>4, <1>5, <1>6, <1>7, <1>8, <1>9, <1>10 DEF Next, AuthorityStep

(* begin_settlement never closes an epoch before the length it was opened      *)
(* with has passed, whatever update_config changes meanwhile.                 *)
THEOREM EpochAlwaysRunsItsTerm == Spec => EpochRunsItsTerm
<1>1. ASSUME [Next]_vars, epoch_phase = "Open", epoch_phase' = "Settling"
      PROVE  BeginSettlement
  <2>1. CASE AuthorityStep
    BY <1>1, <2>1 DEF AuthorityStep, Create, UpdateConfig, SetPaused, ProposeAuthority,
       MigrateColonyConfig, SetKolnyMint, epochVars
  <2>2. CASE \E k \in Key : AcceptAuthority(k)
    BY <1>1, <2>2 DEF AcceptAuthority, epochVars
  <2>3. CASE \E f \in scope.foragers : ForagerStep(f)
    BY <1>1, <2>3 DEF ForagerStep, RegisterForager, Heartbeat, SlashForSilence, epochVars
  <2>4. CASE Pass \/ FinalizeSettlement
    BY <1>1, <2>4 DEF Pass, FinalizeSettlement
  <2>5. CASE \E m \in scope.mints : TokenStep(m)
    BY <1>1, <2>5 DEF TokenStep, Issue, Freeze, Revoke, epochVars
  <2>6. CASE UNCHANGED vars
    BY <1>1, <2>6 DEF vars, epochVars
  <2>7. QED
    BY <1>1, <2>1, <2>2, <2>3, <2>4, <2>5, <2>6 DEF Next
<1>2. ASSUME ConfigInv, TermKept, [Next]_vars, epoch_phase = "Open", epoch_phase' = "Settling"
      PROVE  elapsed >= term
  <2>1. elapsed \in Nat /\ term \in Nat
    BY <1>2, PublishedTyped, ParameterNames DEF ConfigInv, TypeOK
  <2>2. time_left = 0
    BY <1>1, <1>2 DEF BeginSettlement
  <2>3. QED
    BY <1>2, <2>1, <2>2 DEF TermKept
<1>3. ASSUME ConfigInv, TermKept, [Next]_vars
      PROVE  (epoch_phase = "Open" /\ epoch_phase' = "Settling") => elapsed >= term
  BY <1>2, <1>3
<1>4. QED
  BY <1>3, ConfigInvariant, TermInit, TermStep, PTL DEF Spec, EpochRunsItsTerm

-----------------------------------------------------------------------------
(* Handover.                                                               *)

HandoverInv == AuthorityCanSign /\ InvitationIsCurrent

LEMMA HandoverInit == Init => HandoverInv
  BY ScopesAssumption DEF Init, HandoverInv, AuthorityCanSign, InvitationIsCurrent

LEMMA HandoverStep == HandoverInv /\ [Next]_vars => HandoverInv'
<1> SUFFICES ASSUME HandoverInv, [Next]_vars
             PROVE  HandoverInv'
  OBVIOUS
<1> USE DEF HandoverInv, AuthorityCanSign, InvitationIsCurrent
<1>1. ASSUME UNCHANGED authorityVars
      PROVE  HandoverInv'
  BY <1>1 DEF authorityVars
<1>2. CASE \E k \in scope.nominees \cup {NoKey} : ProposeAuthority(k)
  BY <1>2 DEF ProposeAuthority
<1>3. CASE \E k \in Key : AcceptAuthority(k)
  BY <1>3 DEF AcceptAuthority, PendingOnceAccepted
<1>4. CASE \E account \in DOMAIN Needs : Create(account)
  BY <1>1, <1>4 DEF Create
<1>5. CASE \E patch \in scope.patches : UpdateConfig(patch)
  BY <1>1, <1>5 DEF UpdateConfig
<1>6. CASE \E p \in BOOLEAN : SetPaused(p)
  BY <1>1, <1>6 DEF SetPaused
<1>7. CASE MigrateColonyConfig
  BY <1>1, <1>7 DEF MigrateColonyConfig
<1>8. CASE \E m \in scope.mints : SetKolnyMint(m)
  BY <1>1, <1>8 DEF SetKolnyMint
<1>9. CASE \E f \in scope.foragers : ForagerStep(f)
  BY <1>1, <1>9 DEF ForagerStep, RegisterForager, Heartbeat, SlashForSilence
<1>10. CASE Pass \/ BeginSettlement \/ FinalizeSettlement
  BY <1>1, <1>10 DEF Pass, BeginSettlement, FinalizeSettlement
<1>11. CASE \E m \in scope.mints : TokenStep(m)
  BY <1>1, <1>11 DEF TokenStep, Issue, Freeze, Revoke
<1>12. CASE UNCHANGED vars
  BY <1>1, <1>12 DEF vars
<1>13. QED
  BY <1>2, <1>3, <1>4, <1>5, <1>6, <1>7, <1>8, <1>9, <1>10, <1>11, <1>12
     DEF Next, AuthorityStep

(* propose_authority and accept_authority leave the colony with an authority   *)
(* somebody can sign as.                                                     *)
THEOREM AuthorityAlwaysSigns == Spec => []AuthorityCanSign
<1>1. HandoverInv => AuthorityCanSign
  BY DEF HandoverInv
<1>2. QED
  BY <1>1, HandoverInit, HandoverStep, PTL DEF Spec

(* No nomination outlives the authority that made it.                        *)
THEOREM InvitationAlwaysCurrent == Spec => []InvitationIsCurrent
<1>1. HandoverInv => InvitationIsCurrent
  BY DEF HandoverInv
<1>2. QED
  BY <1>1, HandoverInit, HandoverStep, PTL DEF Spec
=============================================================================
