----------------------------- MODULE MCRfc2217 ------------------------------
(* One connection whose peer sends anything short, and two connections that *)
(* ask for settings while the port and the lease come and go.               *)
EXTENDS Rfc2217
CONSTANTS c1, c2

Strings(S, n) == UNION {[1..m -> S] : m \in 0..n}
All == {"write", "control"}
Ask(command, value) == <<IAC, SB, COM_PORT_OPTION, command>> \o EscapeIac(value) \o <<IAC, SE>>
Alone(s) == (c1 :> s) @@ (c2 :> << >>)

\* Any bytes, read one or several at a time.
Soup == {[streams |-> Alone(s), cuts |-> 1..Len(s), can |-> All, faults |-> 0, chunk |-> << >>] :
           s \in Strings({65, 10, IAC, WILL, SB, SE, COM_PORT_OPTION}, 4)
                 \cup {<<IAC, SB, COM_PORT_OPTION>> \o t : t \in Strings({65, IAC, SE, SIGNATURE}, 4)}}

Speed == <<0, 0, 255, 0>>

\* The device's bytes between the peer's.
Chunked == {[streams |-> Alone(s), cuts |-> 1..Len(s), can |-> All, faults |-> 0, chunk |-> <<65, IAC>>] :
              s \in {Ask(SIGNATURE, << >>), <<IAC, WILL, COM_PORT_OPTION, 65, 10>>}}

\* Requests in a row, in one read or two, with two faults.
Row(requests, cuts, can) ==
  {[streams |-> Alone(requests), cuts |-> cuts, can |-> can, faults |-> 2, chunk |-> << >>]}
InTurn == Row(Ask(200, << >>) \o <<IAC, WILL, COM_PORT_OPTION>>, {6, 9}, All)
     \cup Row(Ask(SET_BAUDRATE, Speed) \o Ask(SET_DATASIZE, <<7>>), {18}, All)
     \cup Row(Ask(SET_BAUDRATE, Speed) \o <<65, 10>> \o Ask(SET_DATASIZE, <<9>>), {11, 20}, All)
     \cup Row(Ask(SET_PARITY, <<3>>) \o Ask(SET_CONTROL, <<2>>) \o <<65, 10>>, {16}, {"control"})

\* Two connections, one of which also sends a line of text.
Both == {[streams |-> (c1 :> Ask(SET_DATASIZE, <<7>>) \o <<65, 10>>) @@ (c2 :> Ask(SET_PARITY, <<2>>)),
          cuts |-> {7, 9}, can |-> All, faults |-> 1, chunk |-> << >>]}

MCScenarios == Soup \cup Chunked \cup InTurn \cup Both
MCInitial == <<<<0, 0, 1, 0>>, 8, 0, 1>>
MCBaud == {<<0, 0, 1, 0>>, Speed}
MCSignature == <<79>>

\* A control line asked for while the port is lost and opened again.
MCReset == Row(Ask(SET_CONTROL, <<2>>), {7}, All)
=============================================================================
