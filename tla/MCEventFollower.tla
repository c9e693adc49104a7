--------------------------- MODULE MCEventFollower ---------------------------
(* One client, with and without an upper bound, with and without a store. *)
EXTENDS EventFollower
CONSTANT c1
=============================================================================
