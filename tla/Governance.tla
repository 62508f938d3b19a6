----------------------------- MODULE Governance -----------------------------
(***************************************************************************)
(* What the authority may do to a running colony, and admission to it: the   *)
(* configuration and the deadline of the running epoch, the two-step handover,*)
(* the pause, the accounts of genesis, the migration of an old ColonyConfig,*)
(* the admission mint and its burn, heartbeats and the slash for silence.    *)
(*                                                                         *)
(* Clock values are kept as differences: time_left is epoch_end_ts - now,    *)
(* silence[f] is now - last_heartbeat_ts, both cut off where no guard tells   *)
(* them apart any more.  When a settlement may be finalized is module Crank's *)
(* question, and every choice that depends on it is left open here.           *)
(* Variables marked ghost record history for the properties; no guard reads  *)
(* them.                                                                    *)
(***************************************************************************)
EXTENDS Integers, FiniteSets

CONSTANTS
    Key, Stray,     \* keys somebody signs with; keys nobody holds
    NoKey, NoMint,  \* Pubkey::default() of an account that is not set
    Forager,        \* forager records, each of one operator
    Mint,           \* initialized token mints
    RightDecimals,  \* those issued with KOLNY_DECIMALS
    Published,      \* the range of each parameter of constants.rs, <<min, max>>
    DEFAULT_ADMISSION_BURN_BASE_UNITS,
    Scopes          \* bounds: what an instance lets vary, one member per behaviour

Parameters == {"epoch_duration_secs", "nonresponse_timeout_epochs",
               "admission_burn_amount", "dd_probation_bps", "dd_slash_bps"}

(* The account each step of genesis needs to exist before its own. *)
Needs == [brood |-> {}, vault_base |-> {"brood"}, cache |-> {}, cache_vault |-> {"cache"},
          incinerator_vault |-> {"cache", "cache_vault"}, trail_board |-> {}]

(* A scope names the configurations of genesis, whether the colony is an old *)
(* one, the keys, patches, foragers and mints that turn up, who may be frozen *)
(* and how many tokens are issued of a mint, the accounts already created,   *)
(* and a horizon up to which silence is counted (beyond every limit, or not  *)
(* at all).                                                                *)
ASSUME KeyAssumption ==
    /\ NoKey \notin Key \cup Stray
    /\ Key \cap Stray = {}
    /\ NoMint \notin Mint
ASSUME PublishedAssumption ==
    /\ DOMAIN Published = Parameters
    /\ \A name \in Parameters :
          /\ Published[name] \in Nat \X Nat
          /\ 0 < Published[name][1] /\ Published[name][1] <= Published[name][2]
    /\ DEFAULT_ADMISSION_BURN_BASE_UNITS \in
          Published.admission_burn_amount[1]..Published.admission_burn_amount[2]
ASSUME ScopesAssumption ==
    \A s \in Scopes :
        /\ s.founder \in Key
        /\ s.nominees \subseteq Key \cup Stray
        /\ s.foragers \subseteq Forager /\ IsFiniteSet(s.foragers)
        /\ s.freezable \subseteq s.foragers
        /\ s.genesis \in [Parameters -> Nat]
        /\ \A patch \in s.patches :
              DOMAIN patch \subseteq Parameters /\ \A name \in DOMAIN patch : patch[name] \in Nat
        /\ s.layouts \subseteq {"Legacy", "Current"}
        /\ s.created \subseteq DOMAIN Needs
        /\ s.mints \subseteq Mint /\ s.issued \in [s.mints -> Nat]
        /\ s.horizon \in Nat

VARIABLES
    scope,                                   \* bound: fixed by Init
    layout,                                  \* the length of the ColonyConfig account
    authority, pending_authority, proposer,  \* proposer: ghost, who nominated
    config, paused, epoch_phase,
    time_left, term, elapsed,                \* term, elapsed: ghost, of the open epoch
    created,                                 \* accounts of genesis besides the config
    status, silence,                         \* ForagerState
    kolny_mint, total_kolny_burned,
    supply, minter_live, freezer_live, frozen,  \* the token program's side
    burnt                                    \* ghost: what burn_checked destroyed, by mint

authorityVars == <<authority, pending_authority, proposer>>
epochVars == <<epoch_phase, time_left, term, elapsed>>
foragerVars == <<status, silence>>
admissionVars == <<kolny_mint, total_kolny_burned, supply, burnt>>
mintVars == <<minter_live, freezer_live, frozen>>
vars == <<scope, layout, authorityVars, config, paused, epochVars, created, foragerVars,
          admissionVars, mintVars>>

None == "None"

-----------------------------------------------------------------------------
InRange(p, names) ==
    \A name \in names : p[name] \in Published[name][1]..Published[name][2]

FaultNoAdmissionBand(p) ==
    /\ InRange(p, Parameters \ {"admission_burn_amount"})
    /\ p.dd_probation_bps < p.dd_slash_bps
FaultNoDurationFloor(p) ==
    /\ InRange(p, Parameters \ {"epoch_duration_secs"})
    /\ p.epoch_duration_secs <= Published.epoch_duration_secs[2]
    /\ p.dd_probation_bps < p.dd_slash_bps

(* InitColonyParams::validate: every range, then the orders between pairs.   *)
(* The remaining parameters and pairs are in ColonyParams.                   *)
Validate(p) == InRange(p, Parameters) /\ p.dd_probation_bps < p.dd_slash_bps

Overlay(patch) ==
    [name \in Parameters |-> IF name \in DOMAIN patch THEN patch[name] ELSE config[name]]

FaultJudgesOldConfig(patch) == Validate(config)
Accepts(patch) == Validate(Overlay(patch))

FaultDeadlineFollows(patch) == Overlay(patch).epoch_duration_secs
DeadlineAfterUpdate(patch) == time_left

FaultMintAuthorityIgnored(m) == m \in RightDecimals /\ ~freezer_live[m]
CheckAdmissionMint(m) == m \in RightDecimals /\ ~minter_live[m] /\ ~freezer_live[m]

FaultAnyLength == TRUE
OldLength == layout = "Legacy"

FaultNominationKept == pending_authority
PendingOnceAccepted == NoKey

FaultCountsBelowZero(t) == t - 1
Countdown(t) == IF t = 0 THEN 0 ELSE t - 1

NonresponseLimit == config.nonresponse_timeout_epochs * config.epoch_duration_secs

(* A handler that takes the config as an Account cannot read the old layout. *)
Readable == layout = "Current"
SignedByAuthority == Readable /\ authority \in Key

-----------------------------------------------------------------------------
(* After initialize_colony, or an old colony found in any phase, with        *)
(* foragers that registered before there was an admission to burn.           *)
Init ==
    /\ scope \in Scopes
    /\ layout \in scope.layouts
    /\ authority = scope.founder /\ pending_authority = NoKey /\ proposer = NoKey
    /\ Validate(scope.genesis)
    /\ config = IF layout = "Legacy" THEN [scope.genesis EXCEPT !.admission_burn_amount = 0]
                                     ELSE scope.genesis
    /\ paused = FALSE
    /\ epoch_phase \in (IF layout = "Legacy" THEN {"Open", "Settling"} ELSE {"Open"})
    /\ time_left = IF epoch_phase = "Settling" THEN 0 ELSE config.epoch_duration_secs
    /\ term = config.epoch_duration_secs
    /\ elapsed = term - time_left
    /\ created = IF layout = "Legacy" THEN DOMAIN Needs ELSE scope.created
    /\ status \in [Forager -> {None, "Scout"}]
    /\ \A f \in Forager : status[f] # None => layout = "Legacy" /\ f \in scope.foragers
    /\ silence = [f \in Forager |-> 0]
    /\ kolny_mint = NoMint /\ total_kolny_burned = 0
    /\ supply = [m \in Mint |-> 0] /\ burnt = [m \in Mint |-> 0]
    /\ minter_live = [m \in Mint |-> TRUE] /\ freezer_live = [m \in Mint |-> TRUE]
    /\ frozen = [m \in Mint |-> {}]

(* initialize_brood, open_vault_base, initialize_risk_cache, open_cache_vault,*)
(* open_incinerator_vault and initialize_trail_board, each once.             *)
Create(account) ==
    /\ SignedByAuthority
    /\ account \notin created
    /\ Needs[account] \subseteq created
    /\ created' = created \cup {account}
    /\ UNCHANGED <<scope, layout, authorityVars, config, paused, epochVars, foragerVars,
                   admissionVars, mintVars>>

UpdateConfig(patch) ==
    /\ SignedByAuthority
    /\ Accepts(patch)
    /\ config' = Overlay(patch)
    /\ time_left' = DeadlineAfterUpdate(patch)
    /\ UNCHANGED <<scope, layout, authorityVars, paused, epoch_phase, term, elapsed, created,
                   foragerVars, admissionVars, mintVars>>

SetPaused(p) ==
    /\ SignedByAuthority
    /\ paused' = p
    /\ UNCHANGED <<scope, layout, authorityVars, config, epochVars, created, foragerVars,
                   admissionVars, mintVars>>

FaultHandOverAtOnce(k) ==
    /\ SignedByAuthority
    /\ authority' = IF k = NoKey THEN authority ELSE k
    /\ UNCHANGED <<scope, layout, pending_authority, proposer, config, paused, epochVars,
                   created, foragerVars, admissionVars, mintVars>>

(* Proposing the default key withdraws a nomination. *)
ProposeAuthority(k) ==
    /\ SignedByAuthority
    /\ pending_authority' = k
    /\ proposer' = IF k = NoKey THEN NoKey ELSE authority
    /\ UNCHANGED <<scope, layout, authority, config, paused, epochVars, created, foragerVars,
                   admissionVars, mintVars>>

AcceptAuthority(k) ==
    /\ Readable
    /\ k \in Key
    /\ pending_authority # NoKey
    /\ pending_authority = k
    /\ authority' = k
    /\ pending_authority' = PendingOnceAccepted
    /\ proposer' = IF pending_authority' = NoKey THEN NoKey ELSE proposer
    /\ UNCHANGED <<scope, layout, config, paused, epochVars, created, foragerVars,
                   admissionVars, mintVars>>

(* Zero-fills the appended fields, then puts the one right that zero gets    *)
(* wrong.                                                                  *)
MigrateColonyConfig ==
    LET migrated == [config EXCEPT !.admission_burn_amount = DEFAULT_ADMISSION_BURN_BASE_UNITS]
    IN  /\ OldLength
        /\ authority \in Key
        /\ Validate(migrated)
        /\ layout' = "Current"
        /\ config' = migrated
        /\ kolny_mint' = NoMint
        /\ total_kolny_burned' = 0
        /\ UNCHANGED <<scope, authorityVars, paused, epochVars, created, foragerVars, supply,
                       burnt, mintVars>>

SetKolnyMint(m) ==
    /\ SignedByAuthority
    /\ kolny_mint = NoMint
    /\ CheckAdmissionMint(m)
    /\ kolny_mint' = m
    /\ UNCHANGED <<scope, layout, authorityVars, config, paused, epochVars, created,
                   foragerVars, total_kolny_burned, supply, burnt, mintVars>>

-----------------------------------------------------------------------------
(* One forager: admission, heartbeat, the slash for silence.               *)

(* The operator offers its account of mint m.  It may hold any part of the   *)
(* supply; a frozen account cannot burn.                                    *)
RegisterForager(f, m) ==
    LET burn_amount == config.admission_burn_amount
    IN  /\ Readable
        /\ epoch_phase = "Open"
        /\ ~paused
        /\ status[f] = None
        /\ kolny_mint # NoMint
        /\ m = kolny_mint
        /\ burn_amount > 0
        /\ f \notin frozen[m]
        /\ burn_amount <= supply[m]
        /\ status' = [status EXCEPT ![f] = "Scout"]
        /\ silence' = [silence EXCEPT ![f] = 0]
        /\ total_kolny_burned' = total_kolny_burned + burn_amount
        /\ supply' = [supply EXCEPT ![m] = @ - burn_amount]
        /\ burnt' = [burnt EXCEPT ![m] = @ + burn_amount]
        /\ UNCHANGED <<scope, layout, authorityVars, config, paused, epochVars, created,
                       kolny_mint, mintVars>>

(* Reads no config, so it works in an old colony as well. *)
Heartbeat(f) ==
    /\ status[f] # None
    /\ silence' = [silence EXCEPT ![f] = 0]
    /\ UNCHANGED <<scope, layout, authorityVars, config, paused, epochVars, created, status,
                   admissionVars, mintVars>>

(* slash_forager with SLASH_REASON_NON_RESPONSE: the whole bond goes, which  *)
(* leaves less than min_bond.  Whether there is a sub-account to seize it    *)
(* from is left open; it and the other reasons are in Colony.                *)
SlashForSilence(f) ==
    /\ SignedByAuthority
    /\ {"cache_vault", "incinerator_vault"} \subseteq created
    /\ status[f] # None
    /\ silence[f] > NonresponseLimit
    /\ status' = [status EXCEPT ![f] = "Slashed"]
    /\ UNCHANGED <<scope, layout, authorityVars, config, paused, epochVars, created, silence,
                   admissionVars, mintVars>>

-----------------------------------------------------------------------------
(* The clock and the crank's two calls that touch it.                      *)

Pass ==
    /\ time_left' = Countdown(time_left)
    /\ elapsed' = IF elapsed < term THEN elapsed + 1 ELSE elapsed
    /\ silence' = [f \in Forager |->
            IF status[f] # None /\ silence[f] < scope.horizon THEN silence[f] + 1 ELSE silence[f]]
    /\ UNCHANGED <<scope, layout, authorityVars, config, paused, epoch_phase, term, created,
                   status, admissionVars, mintVars>>

BeginSettlement ==
    /\ Readable
    /\ "trail_board" \in created
    /\ epoch_phase = "Open"
    /\ time_left = 0
    /\ \E f \in Forager : status[f] # None
    /\ epoch_phase' = "Settling"
    /\ UNCHANGED <<scope, layout, authorityVars, config, paused, time_left, term, elapsed,
                   created, foragerVars, admissionVars, mintVars>>

FinalizeSettlement ==
    /\ Readable
    /\ {"trail_board", "brood"} \subseteq created
    /\ epoch_phase = "Settling"
    /\ epoch_phase' = "Open"
    /\ time_left' = config.epoch_duration_secs
    /\ term' = config.epoch_duration_secs
    /\ elapsed' = 0
    /\ UNCHANGED <<scope, layout, authorityVars, config, paused, created, foragerVars,
                   admissionVars, mintVars>>

-----------------------------------------------------------------------------
(* External: whoever holds a mint's authorities issues, freezes, revokes.    *)

Issue(m) ==
    /\ minter_live[m]
    /\ supply[m] + burnt[m] < scope.issued[m]
    /\ supply' = [supply EXCEPT ![m] = @ + 1]
    /\ UNCHANGED <<scope, layout, authorityVars, config, paused, epochVars, created,
                   foragerVars, kolny_mint, total_kolny_burned, burnt, mintVars>>

Freeze(m, f) ==
    /\ freezer_live[m]
    /\ f \notin frozen[m]
    /\ frozen' = [frozen EXCEPT ![m] = @ \cup {f}]
    /\ UNCHANGED <<scope, layout, authorityVars, config, paused, epochVars, created,
                   foragerVars, admissionVars, minter_live, freezer_live>>

(* A revoked authority never returns. *)
Revoke(m) ==
    /\ \/ minter_live' = [minter_live EXCEPT ![m] = FALSE] /\ UNCHANGED freezer_live
       \/ freezer_live' = [freezer_live EXCEPT ![m] = FALSE] /\ UNCHANGED minter_live
    /\ UNCHANGED <<scope, layout, authorityVars, config, paused, epochVars, created,
                   foragerVars, admissionVars, frozen>>

-----------------------------------------------------------------------------
AuthorityStep ==
    \/ \E account \in DOMAIN Needs : Create(account)
    \/ \E patch \in scope.patches : UpdateConfig(patch)
    \/ \E p \in BOOLEAN : SetPaused(p)
    \/ \E k \in scope.nominees \cup {NoKey} : ProposeAuthority(k)
    \/ MigrateColonyConfig
    \/ \E m \in scope.mints : SetKolnyMint(m)

ForagerStep(f) ==
    \/ \E m \in scope.mints : RegisterForager(f, m)
    \/ Heartbeat(f)
    \/ SlashForSilence(f)

TokenStep(m) ==
    \/ Issue(m)
    \/ \E f \in scope.freezable : Freeze(m, f)
    \/ Revoke(m)

Next ==
    \/ AuthorityStep
    \/ \E k \in Key : AcceptAuthority(k)
    \/ \E f \in scope.foragers : ForagerStep(f)
    \/ Pass
    \/ BeginSettlement
    \/ FinalizeSettlement
    \/ \E m \in scope.mints : TokenStep(m)

Spec == Init /\ [][Next]_vars

(* Time passes; nothing is assumed of any signer. *)
FairSpec == Spec /\ WF_vars(Pass)

-----------------------------------------------------------------------------
(* Properties.                                                             *)

(* Every variable has its type; no difference of clock values is negative.  *)
TypeOK ==
    /\ scope \in Scopes
    /\ layout \in {"Legacy", "Current"}
    /\ {authority, pending_authority, proposer} \subseteq Key \cup Stray \cup {NoKey}
    /\ config \in [Parameters -> Nat]
    /\ paused \in BOOLEAN
    /\ epoch_phase \in {"Open", "Settling"}
    /\ {time_left, term, elapsed} \subseteq 0..Published.epoch_duration_secs[2]
    /\ created \subseteq DOMAIN Needs
    /\ status \in [Forager -> {None, "Scout", "Slashed"}]
    /\ silence \in [Forager -> 0..scope.horizon]
    /\ kolny_mint \in Mint \cup {NoMint}
    /\ total_kolny_burned \in Nat
    /\ {supply, burnt} \subseteq [Mint -> Nat]
    /\ {minter_live, freezer_live} \subseteq [Mint -> BOOLEAN]
    /\ frozen \in [Mint -> SUBSET Forager]

(* "A mistyped key cannot strand the colony" (propose_authority): whatever is *)
(* nominated, withdrawn and accepted, somebody can sign as the authority.    *)
AuthorityCanSign == authority \in Key

(* A nomination is always the sitting authority's own: none outlives the     *)
(* authority that made it, so nobody takes over on a predecessor's word.      *)
InvitationIsCurrent == pending_authority # NoKey => proposer = authority

(* The configuration in force would be accepted at genesis, so update_config  *)
(* can always move one parameter back alone: no sequence of partial patches,   *)
(* and no migration, ends in one that refuses every edit.                     *)
ConfigStaysEditable == Readable => Validate(config)

(* The public burn counter is what burn_checked destroyed of the bound mint,  *)
(* and the program destroys nothing else: not before a mint is bound, not of *)
(* another mint, and the counter survives everything the authority can call. *)
BurnLedger ==
    \A m \in Mint : burnt[m] = IF m = kolny_mint THEN total_kolny_burned ELSE 0

(* Nobody is admitted free or beyond the published ceiling: whatever the      *)
(* authority set before, each admission destroys an amount within the band.   *)
AdmissionPriced ==
    [][\A f \in Forager : (status[f] = None /\ status'[f] # None) =>
        \E m \in Mint : /\ m = kolny_mint
                        /\ burnt'[m] - burnt[m] \in Published.admission_burn_amount[1]
                                                      ..Published.admission_burn_amount[2]]_vars

(* constants.rs, check_admission_mint: once a mint is bound nobody can raise   *)
(* its supply or freeze a further holder out of burning, and it is never      *)
(* unbound or replaced.                                                     *)
BoundMintOutOfReach ==
    [][kolny_mint # NoMint =>
        /\ kolny_mint' = kolny_mint
        /\ supply'[kolny_mint] <= supply[kolny_mint]
        /\ frozen'[kolny_mint] = frozen[kolny_mint]]_vars

(* "The epoch that is already running keeps the deadline depositors saw when  *)
(* it opened" (update_config): it is not settled before the length it was     *)
(* opened with has passed.                                                  *)
EpochRunsItsTerm ==
    [][(epoch_phase = "Open" /\ epoch_phase' = "Settling") => elapsed >= term]_vars

(* Nor can it be postponed: the deadline of an open epoch comes.             *)
DeadlineReached == (epoch_phase = "Open") ~> (time_left = 0)

(* An operator that answers within the shortest timeout of the shortest epoch *)
(* is never slashed for silence, however the authority moves the epoch length *)
(* and the timeout between the heartbeat and the slash.                      *)
PunctualNeverSilenced ==
    [][\A f \in Forager : (status[f] # "Slashed" /\ status'[f] = "Slashed") =>
        silence[f] > Published.nonresponse_timeout_epochs[1]
                        * Published.epoch_duration_secs[1]]_vars
=============================================================================
