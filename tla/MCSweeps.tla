------------------------------- MODULE MCSweeps -------------------------------
(***************************************************************************)
(* Instance of Sweeps: applications and invocations are interchangeable,    *)
(* and so are the agencies.                                                 *)
(***************************************************************************)
EXTENDS Sweeps, TLC

Symmetry == Permutations(Apps) \union Permutations(Agencies) \union Permutations(Runs)

=============================================================================
