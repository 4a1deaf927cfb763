-------------------------- MODULE MCLaunchAdmission --------------------------
(* LaunchAdmission for TLC: invocations, pids, sessions and selections are    *)
(* interchangeable.                                                           *)
EXTENDS LaunchAdmission, TLC

Symmetry ==
  Permutations(Proc) \union Permutations(Pid) \union
  Permutations(Session) \union Permutations(Selection)
=============================================================================
