---------------------------- MODULE MCHydrationRun ----------------------------
(* One run over the document, two tasks. *)
EXTENDS HydrationRun, TLC

CONSTANTS k1, elt, p1, p2, o1, o2, s1

MCRequested == [k \in {k1} |-> {elt}]
MCKeyOf == [p \in {p1, p2} |-> k1]
MCSameOwner == [p \in {p1, p2} |-> o1]
MCOwners == p1 :> o1 @@ p2 :> o2
MCSourceOf == [k \in {k1} |-> s1]

=============================================================================
