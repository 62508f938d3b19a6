---------------------------- MODULE MCGovernance ----------------------------
(***************************************************************************)
(* Three scopes of one colony in one run: the handover with the order of     *)
(* genesis, the clock with the parameters it reads, and admission.           *)
(***************************************************************************)
EXTENDS Governance, TLC

CONSTANTS ann, ben, typo, f1, f2, kolny, spare

Ranges == [epoch_duration_secs |-> <<1, 3>>, nonresponse_timeout_epochs |-> <<1, 2>>,
           admission_burn_amount |-> <<1, 2>>, dd_probation_bps |-> <<1, 3>>,
           dd_slash_bps |-> <<2, 4>>]

Defaults == [epoch_duration_secs |-> 2, nonresponse_timeout_epochs |-> 2,
             admission_burn_amount |-> 1, dd_probation_bps |-> 1, dd_slash_bps |-> 4]

Genesis == {"brood", "vault_base", "cache", "cache_vault", "incinerator_vault", "trail_board"}

(* Individually legal patches that are nonsense together; one out of range.  *)
PairPatches == {[dd_probation_bps |-> 3], [dd_slash_bps |-> 2],
                [dd_probation_bps |-> 1, dd_slash_bps |-> 4]}
ClockPatches == {[epoch_duration_secs |-> n] : n \in 0..3}
                    \cup {[nonresponse_timeout_epochs |-> n] : n \in 0..2}
PricePatches == {[admission_burn_amount |-> n] : n \in 0..3}

Handover == [
    founder |-> ann, nominees |-> {ann, ben, typo}, foragers |-> {}, freezable |-> {},
    genesis |-> [Defaults EXCEPT !.epoch_duration_secs = 1], patches |-> PairPatches,
    layouts |-> {"Legacy", "Current"}, created |-> {}, mints |-> {}, issued |-> <<>>, horizon |-> 7]
Clock == [
    founder |-> ann, nominees |-> {}, foragers |-> {f1, f2}, freezable |-> {},
    genesis |-> Defaults, patches |-> ClockPatches,
    layouts |-> {"Legacy"}, created |-> Genesis, mints |-> {}, issued |-> <<>>, horizon |-> 7]
Admission == [
    founder |-> ann, nominees |-> {}, foragers |-> {f1, f2}, freezable |-> {f1},
    genesis |-> [Defaults EXCEPT !.epoch_duration_secs = 1, !.nonresponse_timeout_epochs = 1],
    patches |-> PricePatches, layouts |-> {"Legacy", "Current"}, created |-> Genesis,
    mints |-> {kolny, spare}, issued |-> (kolny :> 3 @@ spare :> 1), horizon |-> 0]

AllScopes == {Handover, Clock, Admission}
=============================================================================
