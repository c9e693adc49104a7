---------------------------- MODULE MCSerialHub -----------------------------
(***************************************************************************)
(* Instances of SerialHub, with its refinement of DeviceAccess, for TLC.   *)
(***************************************************************************)
EXTENDS SerialHubRefinement

=============================================================================
