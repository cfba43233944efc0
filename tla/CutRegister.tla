----------------------------- MODULE CutRegister -----------------------------
(***************************************************************************)
(* What the source-execution table promises to the code that replays a     *)
(* cut: a write-once register per execution id.  A cut is published at     *)
(* most once under an id, and from then on the id names that cut for ever. *)
(***************************************************************************)
CONSTANTS Ids, Values, Unset

VARIABLE published

CRInit == published = [i \in Ids |-> Unset]

Publish(i, v) ==
    /\ published[i] = Unset
    /\ published' = [published EXCEPT ![i] = v]

CRNext == \E i \in Ids, v \in Values : Publish(i, v)

CRSpec == CRInit /\ [][CRNext]_published

=============================================================================
