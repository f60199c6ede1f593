---------------------------- MODULE MCTailSources ----------------------------
(***************************************************************************)
(* A transcript in a subdirectory of the sessions directory; all three are *)
(* created while they are watched.                                         *)
(***************************************************************************)
EXTENDS TailSources

CONSTANTS sessions, day, rollout, RolloutLines, RolloutKinds

MCIn       == day :> sessions @@ rollout :> day
MCKinds    == rollout :> RolloutKinds
MCMaxLines == rollout :> RolloutLines

=============================================================================
