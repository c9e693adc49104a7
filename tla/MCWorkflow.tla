------------------------------ MODULE MCWorkflow ------------------------------
(* Definitions over the bytes a and b, and reads that cut them anywhere. *)
EXTENDS Workflow, TLC
CONSTANTS r1, r2, k1
a == "a"
b == "b"
ExpectStep(pattern) == [op |-> "expect", pattern |-> pattern]
OtherStep(op) == [op |-> op, pattern |-> <<>>]
Definitions == {
  <<ExpectStep(<<a, a, b>>)>>,
  <<OtherStep("lease"), OtherStep("send"), ExpectStep(<<a, b, a>>), OtherStep("assert")>>}
Short == {<<OtherStep("send")>>}
Reads == {<<a>>, <<a, b>>, <<b, a>>}
Symmetry == Permutations({r1, r2})
=============================================================================
