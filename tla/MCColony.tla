------------------------------ MODULE MCColony ------------------------------
(***************************************************************************)
(* Instances of Colony for TLC.  One basis point is 1/20, so the bounds of  *)
(* InitColonyParams::validate scale to small integers; the parameters are    *)
(* chosen inside them so that drawdowns, caps, tickets and accruals are      *)
(* whole units of a vault of about ten.                                    *)
(***************************************************************************)
EXTENDS Colony, TLC

(* Probation from 20% drawdown, slashable above 40%, no no-trade band. *)
PlainParams == [
    rho_bps |-> 10, perf_norm_s_bps |-> 5, deposit_scale_q |-> 2, risk_aversion_bps |-> 20,
    w_max_bps |-> 8, w_drop_bps |-> 1, scout_budget_bps |-> 4,
    scout_ticket_base_units |-> 1, reband_band_bps |-> 0, turnover_cap_bps |-> 10,
    bond_ratio_bps |-> 10, bond_haircut_bps |-> 2, min_bond |-> 2,
    dd_probation_bps |-> 4, dd_slash_bps |-> 8, slash_burn_bps |-> 10,
    cache_accrual_bps |-> 10, cache_reserve_target_bps |-> 2,
    promote_min_epochs |-> 1, promote_min_realized_epochs |-> 1,
    promote_perf_bar_bps |-> 0, promote_tau_seed_cap |-> 2]

(* The same colony with a no-trade band of 10% of the pool. *)
BandedParams == [PlainParams EXCEPT !.reband_band_bps = 2]

(* Bonds that support several times their amount. *)
RoomyParams == [PlainParams EXCEPT !.bond_ratio_bps = 2]

(* The authority halves the turnover cap of a running epoch; a cap of nothing  *)
(* is refused by Validate.                                                  *)
CapPatches == {[turnover_cap_bps |-> 5], [turnover_cap_bps |-> 0]}

Swings == {-2, 2}
Losses == {-1}
Gains == {2}

ForagerSymmetry == Permutations(Forager)
=============================================================================
