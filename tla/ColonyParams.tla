---------------------------- MODULE ColonyParams ----------------------------
(***************************************************************************)
(* The tunable parameters of the colony, as one record, and the bounds that *)
(* InitColonyParams::validate puts on them (initialize_colony and           *)
(* update_config both refuse a set outside these bounds).  A bound of n     *)
(* basis points is scaled to the BPS_DENOM of the instance.  Parameters no  *)
(* instruction of the program reads (epoch_loss_limit_bps,                  *)
(* max_single_asset_bps) or that only set a write-only field                *)
(* (probation_grace_epochs) are left out.  Those that set a time            *)
(* (epoch_duration_secs, nonresponse_timeout_epochs) and the admission price *)
(* are in module Governance.                                                *)
(***************************************************************************)
EXTENDS ColonyMath

CONSTANTS
    Params,              \* the parameter record in force
    PHEROMONE_CEIL,      \* upper bound of a trail
    TOP_TRAILS_LEN,      \* slots of the trail board
    CAP_RELAX_MARGIN_BPS \* slack added to the relaxed weight cap

(* n basis points of the program, in units of the instance. *)
Bps(n) == (n * BPS_DENOM) \div 10000

ParamBounds == [
    rho_bps                  |-> <<Bps(100), Bps(5000)>>,
    perf_norm_s_bps          |-> <<Greater(Bps(100), 1), Bps(5000)>>,
    risk_aversion_bps        |-> <<0, Bps(50000)>>,
    w_max_bps                |-> <<Bps(500), Bps(4000)>>,
    w_drop_bps               |-> <<0, Bps(1000)>>,
    scout_budget_bps         |-> <<Bps(500), Bps(2000)>>,
    reband_band_bps          |-> <<0, Bps(1000)>>,
    turnover_cap_bps         |-> <<Bps(500), Bps(10000)>>,
    bond_ratio_bps           |-> <<Bps(500), Bps(5000)>>,
    bond_haircut_bps         |-> <<Bps(1000), Bps(7000)>>,
    dd_probation_bps         |-> <<Bps(500), Bps(4000)>>,
    dd_slash_bps             |-> <<Bps(1000), Bps(6000)>>,
    slash_burn_bps           |-> <<0, Bps(10000)>>,
    cache_accrual_bps        |-> <<0, Bps(5000)>>,
    cache_reserve_target_bps |-> <<Bps(100), Bps(1000)>>,
    promote_min_epochs          |-> <<1, 52>>,
    promote_min_realized_epochs |-> <<1, 52>>,
    promote_perf_bar_bps        |-> <<-Bps(5000), Bps(20000)>> ]

Validate(p) ==
    /\ \A name \in DOMAIN ParamBounds :
          p[name] \in ParamBounds[name][1]..ParamBounds[name][2]
    /\ p.scout_ticket_base_units \in Nat \ {0}
    /\ p.min_bond \in Nat \ {0}
    /\ p.deposit_scale_q \in Nat \ {0}
    /\ p.promote_tau_seed_cap \in Nat
    /\ p.dd_probation_bps < p.dd_slash_bps
    /\ p.w_drop_bps < p.w_max_bps
    /\ p.promote_min_realized_epochs <= p.promote_min_epochs

(* Fine enough a scale for the smallest non-zero bound of a divisor,         *)
(* bond_ratio_bps, to stay positive.                                       *)
ASSUME ScaleAssumption == BPS_DENOM >= 20

ASSUME ParamsAssumption ==
    /\ Validate(Params)
    /\ PHEROMONE_CEIL \in Nat \ {0}
    /\ TOP_TRAILS_LEN \in Nat \ {0}
    /\ CAP_RELAX_MARGIN_BPS \in Nat
=============================================================================
