--------------------------- MODULE MCReviewQueue ----------------------------
(* An instance of ReviewQueue: two pushes to the same branch, of one       *)
(* project or of two, and nodes with one slot each.                        *)
EXTENDS ReviewQueue, TLC

CONSTANTS e1, e2, p, q, n1, n2

MCTargetOf == [e \in Events |-> "main"]
MCCapacity == [n \in Nodes |-> 1]

MCSymmetry == Permutations({p, q}) \cup Permutations({n1, n2})
=============================================================================
