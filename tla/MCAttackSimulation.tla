------------------------- MODULE MCAttackSimulation -------------------------
(***************************************************************************)
(* One attack at two severities, of which one is named twice.              *)
(***************************************************************************)
EXTENDS AttackSimulation

OneAttack == <<"wrong_epsilon">>
RepeatedSeverity == <<0, 100, 0>>
=============================================================================
