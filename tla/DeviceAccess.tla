---------------------------- MODULE DeviceAccess ----------------------------
(***************************************************************************)
(* What the transmit path promises, without queues, slots, deadlines,      *)
(* leases or an owner thread.  A call writes its frames in order, each     *)
(* frame has one fate, one frame at a time is on the wire, over the        *)
(* connection its call was admitted on, and only while the hub itself      *)
(* holds the port.  A caller is told nothing that is not so.               *)
(***************************************************************************)
EXTENDS Naturals

CONSTANTS
  Calls,    \* write calls
  Waiting,  \* those whose answer speaks of the device (HTTP writes, of one frame)
  Last      \* frames of a call are 1..Last

Order == 1..Last

VARIABLES
  fate,    \* of each frame: none, accepted, started, then written, failed or refused
  told,    \* what the caller has been told
  bound,   \* the connection a call was admitted on
  era,     \* number of the latest connection
  holder   \* who has the serial handle

accessVars == <<fate, told, bound, era, holder>>

Init ==
  /\ fate = [k \in Calls |-> [f \in Order |-> "none"]]
  /\ told = [k \in Calls |-> "nothing"]
  /\ bound = [k \in Calls |-> 0]
  /\ era = 0
  /\ holder = "nobody"

WireIdle == \A k \in Calls, f \in Order : fate[k][f] # "started"

\* A call that has done nothing yet is tied to the connection of the moment.
Admit(k) ==
  /\ holder = "hub"
  /\ told[k] = "nothing" /\ \A f \in Order : fate[k][f] = "none"
  /\ bound' = [bound EXCEPT ![k] = era]
  /\ UNCHANGED <<fate, told, era, holder>>

\* Frames are accepted in order; a stream call may return with the last one.
Accept(k, f) ==
  /\ fate[k][f] = "none" /\ told[k] = "nothing"
  /\ \A g \in Order : (g < f => fate[k][g] # "none") /\ (g > f => fate[k][g] = "none")
  /\ fate' = [fate EXCEPT ![k][f] = "accepted"]
  /\ told' \in {told, [told EXCEPT ![k] = "taken"]}
  /\ UNCHANGED <<bound, era, holder>>

\* A frame starts after the ones before it, alone, over its own connection, and
\* for a caller that is still there to be told.
Start(k, f) ==
  /\ fate[k][f] = "accepted"
  /\ holder = "hub" /\ bound[k] = era
  /\ WireIdle
  /\ \A g \in Order : g < f => fate[k][g] \in {"written", "failed", "refused"}
  /\ k \in Waiting => told[k] = "nothing"
  /\ fate' = [fate EXCEPT ![k][f] = "started"]
  /\ UNCHANGED <<told, bound, era, holder>>

Resolve(k, f) ==
  /\ fate[k][f] = "started"
  /\ \E r \in {"written", "failed"} : fate' = [fate EXCEPT ![k][f] = r]
  /\ UNCHANGED <<told, bound, era, holder>>

\* Frames that have not started may be given up, any number at once.
Refuse ==
  \E S \in SUBSET {x \in Calls \X Order : fate[x[1]][x[2]] = "accepted"} :
    /\ fate' = [k \in Calls |-> [f \in Order |-> IF <<k, f>> \in S THEN "refused" ELSE fate[k][f]]]
    /\ UNCHANGED <<told, bound, era, holder>>

\* An answer about the device is the truth; "unknown" is always allowed.
Tell(k, a) ==
  /\ told[k] = "nothing"
  /\ k \in Waiting /\ a = "written" => fate[k][1] = "written"
  /\ k \in Waiting /\ a = "refused" => fate[k][1] \in {"none", "refused"}
  /\ told' = [told EXCEPT ![k] = a]
  /\ UNCHANGED <<fate, bound, era, holder>>

Connect ==
  /\ holder = "nobody"
  /\ holder' = "hub" /\ era' = era + 1
  /\ UNCHANGED <<fate, told, bound>>

Disconnect ==
  /\ holder = "hub" /\ WireIdle
  /\ holder' = "nobody"
  /\ UNCHANGED <<fate, told, bound, era>>

\* The port changes hands with nothing on the wire, and comes back closed.
Lend ==
  /\ holder = "hub" /\ WireIdle
  /\ holder' = "tool"
  /\ UNCHANGED <<fate, told, bound, era>>

Return ==
  /\ holder = "tool"
  /\ holder' = "nobody"
  /\ UNCHANGED <<fate, told, bound, era>>

Answers == {"written", "taken", "refused", "unknown"}

\* Time, leases, control requests, queue slots: nothing the promise speaks of.
\* (First in Next, so that TLC decides a stuttering step without trying the rest.)
Elsewhere == UNCHANGED accessVars

Next ==
  \/ Elsewhere
  \/ \E k \in Calls : Admit(k)
  \/ \E k \in Calls, f \in Order : Accept(k, f) \/ Start(k, f) \/ Resolve(k, f)
  \/ Refuse
  \/ \E k \in Calls, a \in Answers : Tell(k, a)
  \/ Connect \/ Disconnect \/ Lend \/ Return

Spec == Init /\ [][Next]_accessVars

=============================================================================
