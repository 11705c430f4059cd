----------------------------- MODULE MCCIServer -----------------------------
(***************************************************************************)
(* Instances of CIServer for TLC.                                          *)
(***************************************************************************)
EXTENDS CIServer, TLC

(***************************************************************************)
(* Pids are interchangeable: used by runs that check no liveness.          *)
(***************************************************************************)
PidSymmetry == Permutations(Pids)

AlwaysConfigured == {Repos}
MaybeConfigured == {Repos, {}}
=============================================================================
