# Verification of the colony program

TLA+ specifications of the on-chain program under `src/programs/kolny-colony`
(the colony fund: a depositor vault whose capital is spread over independently
trading foragers and re-divided every epoch by their realized results), the TLC
runs that check them on small instances, and TLAPS proofs about them.
`PROJECT.json` ties every definition to the lines it models and every property
to the runs, mutants and hazards it belongs to.

Conventions: one TLA+ step is one transaction. Solana reverts a transaction that
returns an error, panics or contains a failing token transfer, so an action is
enabled exactly when its handler returns `Ok` and all its transfers are covered.
Transactions of all signers interleave freely; that is the concurrency of the
system. Names are those of the source wherever TLA+ allows it.

## 1. Inventory

| component | state | operations | what makes it hard |
|---|---|---|---|
| epoch crank (`settlement.rs`) | `epoch`, `settling_epoch`, `epoch_phase`, `settled_count`, `active_count_acc`, `pheromone_sum_acc`, trail board | `begin_settlement`, `settle_forager`, `finalize_settlement` | one settlement is many transactions by anyone in any order; its completeness check is the equality of two counters; it must not be blocked for good |
| forager lifecycle (`forager.rs`) | `ForagerState`, forager sub-account, `settleable_forager_count`, `total_kolny_burned` | `register_forager`, `open_forager_vault`, `top_up_bond`, `promote_forager`, `retire_forager`, `heartbeat` | some are phase-gated, some are not; the population must not move under a settlement; admission burns tokens of a foreign program |
| settlement arithmetic (`math.rs`) | none | trail update, water-filling, targets, waterfall, slashing ramp, shares | rounding, boundaries, one-pass algorithms |
| allocation (`settlement.rs`, `rebalance_forager`) | published level, pools, turnover counter | `rebalance_forager` | acts on data of the last finalize while records move on |
| exploration and slashing (`risk.rs`) | `scout_pool`, bonds | `fund_scout`, `slash_forager` | a shared budget; slashes in any phase |
| risk cache | `cache_balance` and its tokens | covered by settlement, filled by accrual, slashes, `fund_cache` | several handlers move a counter and tokens separately |
| depositor vault (`vault.rs`) | shares, positions, redemption requests, `idle_base`, `outstanding_principal` | `deposit`, `withdraw`, `request_redemption`, `fulfill_redemption` | conversions at extreme prices, partial fulfilment |
| parameters and governance (`admin.rs`) | parameters, authority, pause, mint | `initialize_*`, `update_config`, `propose/accept_authority`, `set_paused`, `set_kolny_mint`, `migrate_colony_config` | parameters change under a running epoch; nominations cross; an old account layout; a mint that is checked once and trusted for ever |
| token helpers (`utils.rs`), layouts, errors, events | none of their own | - | - |
| scripts, IDL | none | - | - |

Interaction is through shared accounts only. `ColonyConfig` is written by the
crank, the lifecycle and the rebalances; `BroodVaultState` by the vault, the
crank, the rebalances, scout funding and retirement; each `ForagerState` by all
handlers that name it; the sub-account's tokens are also moved by the operator's
trading, which is no instruction of this program. There are no callbacks. The
hard behaviours are the interleavings inside a settlement, records that are
stale against balances, parameters edited between what was derived from them and
its use, rounding and overflow at extreme prices, and the demand that the
permissionless crank can always go on. Every hazard found is listed
with its line in `PROJECT.json`.

What makes each part correct: the crank measures every forager exactly once per
epoch and always can; NAV's running total equals what the records say and each
counter is backed by tokens; a loss falls on bond, then cache, then depositors;
flows are not performance; caps hold over all calls of an epoch; shares are
conserved, covered, and not diluted by others' payouts; the authority's calls
keep the published deadline, band, timeout and mint, and never lock the
authority or the configuration up.

## 2. Modules

`Crank` is the abstract specification: phases, epoch numbers, lifecycle and
counters, with every decision that depends on amounts left open.

`ColonyMath` and `ColonyParams` are the arithmetic and the validated parameter
record (one operator per function of `math.rs`; every bound of
`InitColonyParams::validate` that a modelled parameter has). `BPS_DENOM` is a
parameter, 20 in the instances, so that ratios bite on amounts of about ten.
The one function that is replaced is the fixed-point `tanh` of the trail deposit,
by a clamped straight line with the same sign, monotonicity and range.

`Colony` is the program with its money. It has the crank's state, every
`ForagerState` field a handler reads, the published pools and level, the trail
board, the vault and cache counters and, separately, the token accounts behind
them. Its actions are the handlers, plus `Trade` (the operator's trading, the one
external action), `Tick` (the clock reaching `epoch_end_ts`) and `PayIn`/`PayOut`
(deposits and payouts seen as moves of `idle_base`). `Promise` instantiates
`Crank` on it: `ImplementsCrank` says each handler with its money is a step of
the abstract crank or leaves it alone.

The parameters in force are the variable `config`; `UpdateConfig` overlays a patch
and refuses what `validate` refuses, in any phase.

`Brood` is the depositor side: positions, requests, shares, with the rest of the
colony as its environment (`Deploy`, `Recall`, `Settle`, `Sweep`). `Colony`
instantiates it as `Vault` with the share variables held still, and
`VaultMovesAsPromised` discharges that environment: whatever a handler does to the
two counters that price the shares is one of those four moves, or a deposit or a
payout.

`Governance` is what the authority may call, admission, and the clock: the order of
genesis, `update_config` against the deadline of the running epoch, the two-step
handover, the pause, the migration of an old `ColonyConfig`, `set_kolny_mint` and
the burn of `register_forager`, heartbeats and the slash for silence. The token
program is its environment (`Issue`, `Freeze`, `Revoke`), as is the clock (`Pass`).
Clock values are kept as differences (`time_left`, `silence`), which makes the
state finite without hiding a comparison the code makes. Four variables are
history that no guard reads: `proposer`, `term`, `elapsed`, `burnt`. When a
settlement may be finalized is `Crank`'s question and left open here. What an
instance lets vary is a `scope`, chosen in `Init` and never changed, so one run
holds three otherwise independent instances.

| definition | code |
|---|---|
| `Crank!BetweenSettlements` | the phase guards of register, open and retire |
| `Crank!PreviousEpoch` | `open_forager_vault`, `last_settled_epoch = epoch.saturating_sub(1)` |
| `Crank!EveryoneCounted` | the count guard of `finalize_settlement` |
| `Colony!Measured` | the measuring half of `settle_forager`, down to the new trail |
| `Colony!Waterfall`, `Reimbursed`, `Accrual` | its loss and profit branches |
| `Colony!StatusAfter` | probation, recovery and demotion, in that order |
| `Colony!MoveCapital` | both branches of `rebalance_forager` after the guards |
| `Colony!UpdateConfig` | `update_config`: overlay, validate, store |
| `Brood!Burned` | `burned` in `fulfill_redemption` |
| `Governance!DeadlineAfterUpdate` | `store_into`, which does not write `epoch_end_ts` |
| `Governance!OldLength` | the length gate that makes the migration one-shot |
| `Governance!CheckAdmissionMint` | `check_admission_mint` |

The proofs sit beside the models: `CrankProofs`, `BroodProofs` and
`GovernanceProofs` about the module of their name, `ColonyMathProofs` and
`WaterFillProofs` about the arithmetic, `ColonyProofs` (the invariant of the money) and
`ColonySteps` (what a step may do, and the refinement) about `Colony`, and
`NumberTheorems` about quotients and sums, which all of them cite.

`MCCrank`, `MCColony`, `MCBrood` and `MCGovernance` hold what TLC needs besides the
modules: parameter records, patches, scopes, symmetry sets.

**Mutation testing.** For each property of a passing run there is an operator
named `Fault...` beside the definition it varies: one plausible slip of that code
(a dropped guard, a missing reset, a wrong rounding). No action uses it; put in
place of its neighbour it must break that property, which shows the property
looks at the code. `PROJECT.json` lists the pairs under "mutants".

## 3. Runs

| run | instance | question |
|---|---|---|
| `crank` | 3 foragers, 2 epochs, fair, pausing | do the counters stay exact, is no epoch closed early or stranded, is every settlement finalized and does every epoch close |
| `colony_money` | 1 forager, 3 epochs, trading +-2 | do the money invariants hold, does the colony implement the crank, does it move the vault only as `Brood` assumes |
| `colony_pair` | 2 foragers, 2 epochs, losses, one cut of the turnover cap | the whole inductive invariant `ColonyInv` with shared pools, cap, cache and total; what one settlement may do to another |
| `brood_shares` | 2 depositors, 2 requests | conservation, cover and dilution |
| `governance` | 2 keys and a mistyped one, 2 foragers, 2 mints, epochs of 1 to 3 | do the authority's calls keep what is published |

Bounds. `MaxEpoch` stops a new settlement from beginning; three epochs are
enough for a forager to earn as Scout, be promoted, receive capital, lose it, go
on probation, recover, be demoted or slashed: each of these was confirmed to
occur in `colony_money`, which one or two epochs do not allow. Two foragers are
the fewest that compete for pools and cache and three the fewest that can be
before, at and after their settlement at once. `MaxNav`, `MaxVault`, `MaxBond` and
`MaxCache` cap balances: a vault of ten with weights of 1/20 is the smallest where
a ticket, a capped target, a probation drawdown and a slashable one are all
distinct whole units. In `Colony`, trades happen once the epoch's time is over
(before or during the settlement) which bounds their interleavings without
hiding a state the measuring can see; deposits come in one size. In `Brood`, a
virtual offset of 2:1 instead of 10^6:1 makes a rounding large against the
amounts; `MaxShares`, `MaxNav`, `MaxRequests` cap the totals. In `Governance`, ranges of two
or three values let each parameter be at either bound, inside and (refused)
outside; silence is counted to 7, beyond the longest timeout of the longest epoch;
three tokens of one mint and one of another are enough to admit, to run short and
to keep issuing after an admission. `brood_shares`
does not check deadlock: with the queue full and nav lost the queued requests
are worthless, `fulfill_redemption` refuses them, and only a deposit beyond the
bound could follow.

Fairness. The crank's three calls need no particular signer, no unpaused colony
and no money of the caller, so weak fairness on each says only that somebody who
wants the epoch closed eventually lands it (per forager, since one caller may
serve one forager only). The clock is fair because it passes. Nothing is assumed
of operators, the authority, depositors or the pause switch, and no fairness is
put on trading or rebalancing. `Governance` assumes only that time passes
(`WF(Pass)`): no signer is fair there, and `DeadlineReached` says the deadline of an
open epoch comes however often the configuration is edited.

Liveness is checked on `Crank`, where the choices that depend on amounts are all
open. It carries over to `Colony`: by `ImplementsCrank` its settlements are
`Crank`'s, and by `SettleAlwaysPayable` no balance adds a guard to the
`SettleForager` that `Crank` takes to be fair, so a settlement the crank can make
the colony can pay for.

### What the code's own comments say and the code does not do

Seven runs expect a violation. Each checks one statement that a comment or test
of the program makes:

- `colony_recall`: a recall ahead of an unsettled loss can deepen the measured
  drawdown beyond the slashing threshold, because the mark is rebased by recorded
  principal and the recall is paid from actual equity.
- `colony_band`: with a no-trade band the last units of a slashed forager's capital
  cannot be recalled, so it can be neither unwound in full nor retired.
- `colony_tickets`: a scout that keeps its ticket draws another one next epoch. The
  instance has no trading, so all a scout can hold is tickets.
- `colony_comeback`: a partial slash leaves the promotion record intact, so the
  forager can be promoted again at once.
- `colony_promotion`: a forager promoted after it was settled as Scout gets a target
  from a pool that was divided without it; targets then exceed the pool.
- `colony_order`: a profit pays the cache only while the cache is below a target
  measured at that moment, so of two profits in one epoch the one settled first
  is cut and the other may not be: the result does depend on the order.
  `NoOrderingAdvantage` in `colony_pair` is what is left of the claim and holds: what
  a waiting forager will be measured at, and the level it is weighed against, no
  other settlement can move.
- `brood_partial`: a partial fulfilment rounds the burned shares down, in favour of
  the depositor who is paid. The other side of it, that whoever queued loses nothing
  by being paid in part, is `PartialPaymentIsFair` in `brood_shares`, and is proved.

Two smaller ones are not runs: `active_forager_count` is the number of foragers that were
Active when each was settled, not at the finalize (`state.rs`); and after an almost
total loss of a very large nav the u128 product in `assets_for_shares` can
overflow, which aborts the payment of a request that can be neither split nor
cancelled (the abort is a guard in `Brood`).

## 4. Proofs

`CrankProofs` proves, for every finite set of foragers and every number of epochs:

- `CrankTyped`: type correctness.
- `CrankInvariant`: the inductive invariant `CrankInv`. The counters alone are not
  inductive. Opening a sub-account increments the population, which is right
  only if the record being opened is not Retired: hence "an unopened record is
  unregistered or a Scout". Settling increments `settled_count`, which is right
  only if the forager was behind by exactly one epoch: hence `NobodyLags` between
  settlements and "at the settling epoch or one before it" during one, and
  `settling_epoch = epoch`, which carries the one into the other at the finalize.
- `CountersAlwaysExact`, `NoEarlyFinalize`, `CrankNeverStranded`, `NobodyEverLags`:
  consequences. The middle two are one argument: the measured foragers are a
  subset of a finite population, and a subset with the same cardinality is the
  whole (`PopulationFinite`).
- `TallyNeverAhead`: the Active foragers counted are at most the settled ones.
- `FinishLineNeverMoves`, `EachEpochMeasuredOnce`: action properties, from the same
  invariant.

Assumed: `Forager` is finite, `MaxEpoch` is a natural number. TLC evaluates both
assumptions on every run. The proof that steps preserve `CrankInv` has one case
per action; two lemmas (`CrankInvFramed`, `CrankInvRestatus`) cover the actions
that leave the population alone.

`BroodProofs` proves every property of `brood_shares`, for every finite set of depositors,
queue length, deposit, result, lot and virtual offset (`VaultSolvent`, see below,
for the program's virtual asset):

- `BroodInvariant`: the inductive invariant `BroodInv`, types with `ShareConservation`
  and the fact that request numbers not yet issued are blank. None of the three is
  inductive alone: `total_shares` is a natural number after a withdrawal only because
  the position that is burned is part of the total, and queueing keeps the sum only
  because the slot it writes held nothing. `BroodTyped` and `SharesConserved` follow.
- `RoundTripAlwaysFair`: shares minted for a deposit and redeemed at the price the
  deposit leaves return at most the deposit. With m shares minted, m * price <= assets *
  claim because the division rounds down, so m * (price + assets) <= (claim + m) *
  assets, and the second division rounds down again (`RoundTrip`).
- `NobodyDilutesStayers`: deposits, withdrawals, queueing, payments in full and moves of
  capital never lower the share price. Deposits and payouts reduce to two lemmas
  on products (`IntakeHoldsPrice`, `PayoutHoldsPrice`); that a request is emptied
  only by a payment in full is `EmptiedIsPaidInFull`. Partial payments are
  excluded, and `brood_partial` shows why.
- `PartialPaymentAlwaysFair`: the payment and the worth of the shares that stay queued
  come to at least what the request was worth.
- `VaultSolvent`: with one virtual asset (`VIRTUAL_ASSETS` in `math.rs`) everyone's
  redemption at today's price adds up to at most nav. The worth of a sum is at least
  the sum of the worths (`SumScaled`), the sum of all shares is the total by
  `ShareConservation`, and all the shares without the virtual ones are worth less
  than nav plus one. With a larger offset the last step, and the claim, fail.

`ColonyProofs` proves what the colony keeps about its money, for every finite set of
foragers, every parameter record `validate` accepts, every patch, trade, top-up and
bound. `ColonyInvariant` is the inductive invariant `ColonyInv`, which TLC checks in
`colony_pair`; from it follow `ColonyTyped`, `OutstandingAlwaysSum`,
`CountersAlwaysBacked`, `RetiredAlwaysEmpty` and `SettlementsAlwaysPayable`. Why each of its
conjuncts is there:

- the types: a board of bounded length and a validated `config`, because the ratios
  must be at most one for a share of the pool to be at most the pool;
- `OutstandingIsSum`: without it `outstanding_principal` could go below zero where a
  forager's principal is taken out; each of the five handlers that adjust it changes
  one forager's principal, and the sum by as much (`SumUpdate`);
- `CountersBacked`: the transfers are covered because the token accounts hold what the
  counters say;
- an unregistered record is blank, so `register_forager` leaves the sum alone;
- an opened sub-account belongs to a registered forager, so the record a settlement
  or a rebalance writes has a status of the lifecycle;
- without a sub-account there is no bond: `promote_forager` asks for a bond of
  `min_bond` and not for a sub-account, which the crank's promotion requires;
- `epoch >= 1`: the epoch number a first `begin_settlement` would set is already there,
  and no forager is opened behind an epoch that does not exist.

`ColonySteps` proves the colony's action properties from the same invariant:
`WaterfallAlwaysInOrder`, `OrderGivesNoAdvantage`, `TurnoverAlwaysWithinCap`,
`FlowsAreNeverPerformance`, `TicketsAlwaysMatchPool`, and two that tie the modules together:

- `VaultAlwaysMovesAsPromised`: each handler's effect on the two counters that price the
  shares is a move `Brood` grants its environment, so the theorems of `BroodProofs`
  are about the vault this colony has.
- `ColonyImplementsCrank`: the refinement. Initial states map to initial states, and
  each of the colony's actions maps to one crank action or a stutter, one case per
  action; the amounts only decide what the crank leaves open.

`ColonyMathProofs` and `WaterFillProofs` are about the arithmetic:

- `AllocationWithinCap`: a target is at most the weight cap's share of the pool.
- `TargetsWithinLevel`: `solve_cap_level` is one pass over a running total and a board of
  the highest trails, and never sees the foragers. For every finite set of
  foragers, every board whose slots are the trails of different ones of them, every
  count and every cap, the targets at the level it returns add up to at most the pool; and
  they still do after trails have fallen or the cap was lowered. The foragers
  passed on the board before the level was reached take at most the cap each, the
  rest share what is left in proportion, and rounding goes down. `InsertRanked` is the
  other half: `top_insert` gives a newcomer a slot of its own or none, and no other
  forager a second one. Two hypotheses say where the claim ends, and
  both are hazards of the list: the set must be the one the level was solved for (a
  promotion enlarges it, `colony_promotion`), and the cap at most the one it was
  solved for (`update_config` may raise `w_max_bps` in an open epoch).

`NumberTheorems` holds what the other proofs keep needing: quotients and products of
naturals, and sums over finite sets. `SumFunctionOnSet` of the community modules is a
fold with a choice in it; that it satisfies its recursion whatever is chosen
(`SumTake`), and the facts on naturals, scaling, agreement and updating, are derived
from a smallest counterexample among the subsets of a finite set, since the
library's induction theorems take an operator as parameter.

Assumptions of the colony's theorems: `Forager` is finite, the amounts are naturals
(trades are integers), `Params` is validated, and `ScaleAssumption`, `BPS_DENOM >= 20` (10000
in the program), which keeps the published lower bound of the bond ratio positive.

`GovernanceProofs` proves nine of the ten properties of `governance`, for every set of
keys, foragers and mints, every published range (non-empty, above zero) and every
scope:

- `GovernanceTyped`, `ConfigAlwaysEditable`: one inductive invariant, `ConfigInv`. They
  need each other: `finalize_settlement` takes the next deadline from the
  configuration, which is in range only because every edit was validated as a
  whole.
- `PunctualNeverSlashed`: from `ConfigInv` and the monotonicity of a product: timeout
  and epoch length are each at least their published minimum at the moment of
  the slash, whatever they were before.
- `BurnLedgerAlwaysExact`, `AdmissionAlwaysPriced`: the ledger becomes inductive with two
  more conjuncts (`UnboundIsUnburned`): an unbound mint means nothing burned yet,
  which `set_kolny_mint` needs, and an old layout means an unbound mint, which the
  migration needs because it zeroes the counter.
- `BoundMintStaysOutOfReach`: on top of these, both authorities of the bound mint are
  revoked, which the binding checks and no step undoes.
- `EpochAlwaysRunsItsTerm`: what has passed and what is left make up at least the term.
- `AuthorityAlwaysSigns`, `InvitationAlwaysCurrent`: inductive together, without types.

They assume what `Governance` states of its constants: no default key signs, nobody
holds a stray key, the ranges are those of naturals and the default price lies in
its band.

Only model-checked: liveness (`SettlementCompletes` and `EpochsAdvance` of `Crank`,
`DeadlineReached` of `Governance`), since TLAPS handles neither liveness under fairness nor
ENABLED here. Every safety property of a passing run is proved. `CrankProofs` is not cited
for `Colony`: its theorems rest on named assumptions of `Crank`, which an INSTANCE does
not hand on, so the crank's invariants reach the colony by the refinement theorem and
a reader's step, and not by a proof that quotes them. `ColonyInv` therefore states
for itself what it needs of the crank.

## 5. Not modelled, and the plan

Left out for good: token-program internals (transfers either succeed or revert
the transaction, which is in each action's guard), account layouts and address
derivation, events, error codes, the scripts and the generated interface. The
incinerator account only receives. In `Crank` and `Colony` clock values are reduced to
"the epoch's time is over"; `Governance` has the clock. The structural tests of
`invariants.rs` scan source text and keep no state. The sums of lamports and rent of
the migration and the failure modes of account creation are outside the program.
That a product in `assets_for_shares` can exceed u128 is a guard of `Brood` no small
instance reaches. Raising `w_max_bps` in an open epoch, whose level was solved for the
old cap, is listed as a hazard without a run: the sum it breaks is the one of
`colony_promotion`, and `TargetsWithinLevel` shows that only a raise can.

Planned, in this order:

1. The reachable states in which `TargetsWithinLevel` applies: history variables for the
   foragers counted Active in the last settlement and the trails they had, an
   invariant that the board ranks them and the running total is their sum, and from it
   that in an open epoch their targets stay within `allocatable_pool` as long as the cap
   is at most the one the level was solved for.
2. Conservation of tokens over the whole colony: what comes in by deposits, top-ups,
   premiums and trading is what the accounts hold and what was paid out or burned.
3. A reference definition of the level (iterated clamping), compared with
   `solve_cap_level` on small inputs: independence of the order of insertion.
