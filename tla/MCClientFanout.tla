--------------------------- MODULE MCClientFanout ---------------------------
(* Small queues and every policy.  Two readers that block, or one that     *)
(* awaits: its states are many more, and what it adds is its wake-ups,     *)
(* which concern no other client.                                          *)
EXTENDS ClientFanout, TLC
CONSTANTS c1, c2
MCPolicies == {"drop_oldest", "drop_newest", "disconnect_slow", "block"}
Swap == Permutations({c1, c2})
AwaitingAlone == setup.awaiting # {} => \E c \in Clients : reader[c].pc = "new"
=============================================================================
