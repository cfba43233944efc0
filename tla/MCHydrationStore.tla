--------------------------- MODULE MCHydrationStore ---------------------------
(* Two runs over one or two artifacts, two owners, one source per run. *)
EXTENDS HydrationStore, TLC

CONSTANTS k1, k2, a1, a2

MCRuns == {k1, k2}
MCArtifacts == {a1, a2}
MCRequested == k1 :> {a1, a2} @@ k2 :> {a1}
MCMaxAttempts == a1 :> 2 @@ a2 :> 1

Symmetry == Permutations(Owners)

=============================================================================
