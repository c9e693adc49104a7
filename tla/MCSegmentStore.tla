---------------------------- MODULE MCSegmentStore ----------------------------
(* Two processes, one session. *)
EXTENDS SegmentStore, TLC
CONSTANTS p1, p2
Symmetry == Permutations({p1, p2})
=============================================================================
