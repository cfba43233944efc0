--------------------------- MODULE MCReferralDelivery ---------------------------
(* The recipients of a report and the invocations are interchangeable.        *)
EXTENDS ReferralDelivery, TLC

Symmetry == Permutations(Slots) \union Permutations(Invocations)

=============================================================================
