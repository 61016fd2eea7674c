---------------------------- MODULE CommandOutbox ----------------------------
(***************************************************************************)
(* What sendCommand of frontend/src/websocket-communicator.ts promises to  *)
(* those who call it, without sockets, timers or pages: a command goes out *)
(* at once or waits, those that wait go out together before any later one, *)
(* and only the connection a command meets may lose it.                    *)
(***************************************************************************)
EXTENDS Naturals, Sequences

VARIABLES
    given,      \* how many commands were given: they are numbered
    waiting,    \* those kept for the next connection
    sent        \* those that went out

vars == <<given, waiting, sent>>

Init == given = 0 /\ waiting = <<>> /\ sent = <<>>

\* "sent": nothing waits; "lost": the connection has failed unnoticed.
Give ==
    /\ given' = given + 1
    /\ \/ waiting = <<>> /\ sent' = Append(sent, given') /\ UNCHANGED waiting
       \/ waiting' = Append(waiting, given') /\ UNCHANGED sent
       \/ waiting = <<>> /\ UNCHANGED <<waiting, sent>>

\* A connection has been made: all that wait go out, in their order.
Flush ==
    /\ waiting # <<>>
    /\ sent' = sent \o waiting /\ waiting' = <<>>
    /\ UNCHANGED given

Next == Give \/ Flush

Spec == Init /\ [][Next]_vars
=============================================================================
