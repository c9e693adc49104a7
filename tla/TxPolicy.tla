------------------------------ MODULE TxPolicy ------------------------------
(***************************************************************************)
(* The transmit policy of src/policy.rs: what a write lease authorises and *)
(* the one admission decision every transmit path asks for.  The operators *)
(* are pure; the module that holds the lease passes it in.                 *)
(*                                                                         *)
(* A lease is a record with its bearer token and the time it has left; no  *)
(* lease is NoLease.  Tokens are numbered in the order they are granted    *)
(* (the code draws a fresh random UUID for each), and 0 is "no token".     *)
(***************************************************************************)
EXTENDS Naturals

CONSTANTS
  Mode,       \* tx.mode of the configuration
  LockTTL     \* write_lock_ms of the configuration, in clock ticks

ASSUME ModeAssumption == Mode \in {"queue", "exclusive", "primary_wins"}
ASSUME LockTTLAssumption == LockTTL \in Nat \ {0}

NoToken == 0

NoLease == [token |-> NoToken, left |-> 0]

\* WriteLock::active: the clock has not reached expires_at.
Active(lease) == lease.left > 0

\* WriteLock::authorizes: a live lease and exactly its token.
Authorizes(lease, token) == Active(lease) /\ token # NoToken /\ token = lease.token

\* What tx.mode alone allows, when no lease is active.
ModeAllows(isPrimary, primaryConnected) ==
  CASE Mode = "queue"        -> TRUE
    [] Mode = "exclusive"    -> FALSE
    [] Mode = "primary_wins" -> isPrimary \/ ~primaryConnected

\* admit_write: an active lease overrides the mode and admits its bearer alone.
AdmitWrite(lease, token, isPrimary, primaryConnected) ==
  IF Active(lease) THEN Authorizes(lease, token)
                   ELSE ModeAllows(isPrimary, primaryConnected)

=============================================================================
