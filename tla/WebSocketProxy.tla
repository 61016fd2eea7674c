---------------------------- MODULE WebSocketProxy ----------------------------
(***************************************************************************)
(* internal/server/websocket_proxy.go: the connections of web browsers to  *)
(* the server.  A connection is three goroutines,                          *)
(*                                                                         *)
(*   browser --> reader --commandC--> processMessages --> dispatchC        *)
(*   browser <-- writer <--eventC-- processMessages <-- event bus          *)
(*                                                                         *)
(* and ends when all three have.  Their context is that of the HTTP        *)
(* request, which net/http does not cancel once the connection is hijacked *)
(* for WebSocket: it is never done while they run.  The browser is         *)
(* external; here it may read and send when it likes, or leave.            *)
(***************************************************************************)
EXTENDS EventBus

CONSTANTS
    ChanSize,       \* capacity of commandC and of eventC (10 in the code)
    DispatchSize    \* capacity of dispatchC (64 in the code)

ASSUME WebSocketProxyAssumption == ChanSize \in Nat \ {0} /\ DispatchSize \in Nat \ {0}

VARIABLES
    browser,    \* the browsers, one for each connection
    conn,       \* where Handler is, for each
    reader,     \* where readWebSocketMessages is; it may hold a message
    commandC,   \* what it read; closed when it has ended
    process,    \* where processMessages is; it may hold an event
    shaken,     \* connections with handshakeCompleted set
    eventC,     \* what is to be written; closed when processMessages has ended
    writer,     \* where writeWebSocketMessages is; it may hold a message
    dispatchC   \* the number of commands the main loop has yet to take

readVars == <<reader, commandC>>
processVars == <<process, shaken, busVars, dispatchC>>
writeVars == <<writer, eventC>>
vars == <<browser, conn, readVars, processVars, writeVars>>

\* Envelopes: what a browser may send that can be parsed ("ignored" is none of
\* the commands or cannot be converted), and what is written to it.
Inbound == {"handshake", "command", "ignored"}
Outbound == {"greeting", "event"}

TypeOK ==
    /\ BusTypeOK
    /\ browser \in [Clients -> {"away", "open", "gone"}]
    /\ conn \in [Clients -> {"none", "refusing", "serving", "closed", "left"}]
    /\ reader \in [Clients -> {"none", "reading", "ended"} \union Inbound]
    /\ commandC \in [Clients -> Seq(Inbound)]
    /\ process \in [Clients -> {"none", "selecting", "greeting", "registering",
                                "dispatching", "forwarding", "ended"}]
    /\ shaken \in SUBSET Clients
    /\ eventC \in [Clients -> Seq(Outbound)]
    /\ writer \in [Clients -> {"none", "waiting", "ended"} \union Outbound]
    /\ dispatchC \in 0 .. DispatchSize
    /\ \A c \in Clients : Len(commandC[c]) <= ChanSize /\ Len(eventC[c]) <= ChanSize

Init ==
    /\ BusInit
    /\ browser = [c \in Clients |-> "away"]
    /\ conn = [c \in Clients |-> "none"]
    /\ reader = [c \in Clients |-> "none"]
    /\ commandC = [c \in Clients |-> << >>]
    /\ process = [c \in Clients |-> "none"]
    /\ shaken = {}
    /\ eventC = [c \in Clients |-> << >>]
    /\ writer = [c \in Clients |-> "none"]
    /\ dispatchC = 0

-----------------------------------------------------------------------------
(***************************************************************************)
(* The browser, and Handler                                                *)
(***************************************************************************)

BrowserConnects(c) ==
    /\ browser[c] = "away"
    /\ browser' = [browser EXCEPT ![c] = "open"]
    /\ UNCHANGED <<conn, readVars, processVars, writeVars>>

\* It closes the connection, or the network loses it.
BrowserLeaves(c) ==
    /\ browser[c] = "open"
    /\ browser' = [browser EXCEPT ![c] = "gone"]
    /\ UNCHANGED <<conn, readVars, processVars, writeVars>>

\* handleConnection; without a valid session handleUnauthorized.
HandlerAccepts(c) ==
    /\ conn[c] = "none"
    /\ browser[c] # "away"
    /\ conn' = [conn EXCEPT ![c] = "serving"]
    /\ reader' = [reader EXCEPT ![c] = "reading"]
    /\ process' = [process EXCEPT ![c] = "selecting"]
    /\ writer' = [writer EXCEPT ![c] = "waiting"]
    /\ UNCHANGED <<browser, commandC, shaken, busVars, dispatchC, eventC>>

HandlerRefuses(c) ==
    /\ conn[c] = "none"
    /\ browser[c] # "away"
    /\ conn' = [conn EXCEPT ![c] = "refusing"]
    /\ UNCHANGED <<browser, readVars, processVars, writeVars>>

\* handleUnauthorized returns before Close if the close message cannot be sent.
HandlerLeavesOpen(c) ==
    /\ conn[c] = "refusing"
    /\ conn' = [conn EXCEPT ![c] = "left"]
    /\ UNCHANGED <<browser, readVars, processVars, writeVars>>

\* wg.Wait returns, or the refused browser was given its second.
HandlerCloses(c) ==
    /\ \/ conn[c] = "refusing"
       \/ conn[c] = "serving" /\ reader[c] = "ended" /\ process[c] = "ended" /\ writer[c] = "ended"
    /\ conn' = [conn EXCEPT ![c] = "closed"]
    /\ UNCHANGED <<browser, readVars, processVars, writeVars>>

-----------------------------------------------------------------------------
(***************************************************************************)
(* readWebSocketMessages                                                   *)
(***************************************************************************)

ReaderUnchanged == UNCHANGED <<browser, conn, processVars, writeVars>>

ReaderReads(c, message) ==
    /\ reader[c] = "reading"
    /\ browser[c] = "open"
    /\ reader' = [reader EXCEPT ![c] = message]
    /\ UNCHANGED commandC
    /\ ReaderUnchanged

\* Mutant of ReaderPasses: it does not wait for room.
ReaderPassesAtOnce(c) ==
    /\ reader[c] \in Inbound
    /\ commandC' = [commandC EXCEPT ![c] = Append(@, reader[c])]
    /\ reader' = [reader EXCEPT ![c] = "reading"]
    /\ ReaderUnchanged

ReaderPasses(c) ==
    /\ reader[c] \in Inbound
    /\ Len(commandC[c]) < ChanSize
    /\ commandC' = [commandC EXCEPT ![c] = Append(@, reader[c])]
    /\ reader' = [reader EXCEPT ![c] = "reading"]
    /\ ReaderUnchanged

\* Mutant of ReaderEnds: after an error it tries to read again.
ReaderGoesOn(c) ==
    /\ reader[c] = "reading"
    /\ UNCHANGED readVars
    /\ ReaderUnchanged

\* The browser is gone, or what it sent cannot be parsed.
ReaderEnds(c) ==
    /\ reader[c] = "reading"
    /\ reader' = [reader EXCEPT ![c] = "ended"]
    /\ UNCHANGED commandC
    /\ ReaderUnchanged

-----------------------------------------------------------------------------
(***************************************************************************)
(* processMessages                                                         *)
(***************************************************************************)

ProcessUnchanged == UNCHANGED <<browser, conn, reader>>

ProcessGoes(c, to) == process' = [process EXCEPT ![c] = to]

\* Mutant of ProcessReturns: without the deferred Deregister.
ProcessReturnsRegistered(c) ==
    /\ ProcessGoes(c, "ended")
    /\ UNCHANGED <<shaken, busVars, dispatchC, writeVars>>

\* The deferred Deregister, if it had registered, and the closing of eventC.
ProcessReturns(c) ==
    /\ ProcessGoes(c, "ended")
    /\ IF c \in consumers THEN Deregister(c) ELSE UNCHANGED busVars
    /\ UNCHANGED <<shaken, dispatchC, writeVars>>

Takes(c, message) ==
    /\ process[c] = "selecting"
    /\ commandC[c] # << >>
    /\ message = Head(commandC[c])
    /\ commandC' = [commandC EXCEPT ![c] = Tail(@)]
    /\ ProcessUnchanged

\* Mutant of ProcessTakesHandshake: a second handshake is greeted, too.
ProcessTakesAnyHandshake(c) ==
    /\ Takes(c, "handshake")
    /\ ProcessGoes(c, "greeting")
    /\ shaken' = shaken \union {c}
    /\ UNCHANGED <<busVars, dispatchC, writeVars>>

\* The second handshake of a connection ends processMessages.
ProcessTakesHandshake(c) ==
    /\ Takes(c, "handshake")
    /\ IF c \in shaken
       THEN ProcessReturns(c)
       ELSE /\ ProcessGoes(c, "greeting")
            /\ shaken' = shaken \union {c}
            /\ UNCHANGED <<busVars, dispatchC, writeVars>>

\* Before the handshake, too.
ProcessTakesCommand(c) ==
    /\ Takes(c, "command")
    /\ ProcessGoes(c, "dispatching")
    /\ UNCHANGED <<shaken, busVars, dispatchC, writeVars>>

ProcessIgnores(c) ==
    /\ Takes(c, "ignored")
    /\ UNCHANGED <<processVars, writeVars>>

\* commandC is closed and empty.
ProcessMeetsEnd(c) ==
    /\ process[c] = "selecting"
    /\ commandC[c] = << >>
    /\ reader[c] = "ended"
    /\ ProcessReturns(c)
    /\ UNCHANGED commandC
    /\ ProcessUnchanged

ProcessTimesOut(c) ==
    /\ process[c] = "selecting"
    /\ c \notin shaken
    /\ ProcessReturns(c)
    /\ UNCHANGED commandC
    /\ ProcessUnchanged

\* It waits for room in eventC whatever has become of the writer.
ProcessWrites(c, message) ==
    /\ Len(eventC[c]) < ChanSize
    /\ eventC' = [eventC EXCEPT ![c] = Append(@, message)]
    /\ UNCHANGED <<writer, commandC, shaken, busVars, dispatchC>>
    /\ ProcessUnchanged

ProcessGreets(c) ==
    /\ process[c] = "greeting"
    /\ ProcessWrites(c, "greeting")
    /\ ProcessGoes(c, "registering")

ProcessRegisters(c) ==
    /\ process[c] = "registering"
    /\ Register(c)
    /\ ProcessGoes(c, "selecting")
    /\ UNCHANGED <<commandC, shaken, dispatchC, writeVars>>
    /\ ProcessUnchanged

\* DispatchAsync
ProcessDispatches(c) ==
    /\ process[c] = "dispatching"
    /\ dispatchC < DispatchSize
    /\ dispatchC' = dispatchC + 1
    /\ ProcessGoes(c, "selecting")
    /\ UNCHANGED <<commandC, shaken, busVars, writeVars>>
    /\ ProcessUnchanged

ProcessTakesEvent(c) ==
    /\ process[c] = "selecting"
    /\ c \in consumers
    /\ Receive(c)
    /\ ProcessGoes(c, "forwarding")
    /\ UNCHANGED <<commandC, shaken, dispatchC, writeVars>>
    /\ ProcessUnchanged

ProcessForwards(c) ==
    /\ process[c] = "forwarding"
    /\ ProcessWrites(c, "event")
    /\ ProcessGoes(c, "selecting")

-----------------------------------------------------------------------------
(***************************************************************************)
(* writeWebSocketMessages                                                  *)
(***************************************************************************)

WriterUnchanged == UNCHANGED <<browser, conn, readVars, processVars>>

WriterTakes(c) ==
    /\ writer[c] = "waiting"
    /\ eventC[c] # << >>
    /\ writer' = [writer EXCEPT ![c] = Head(eventC[c])]
    /\ eventC' = [eventC EXCEPT ![c] = Tail(@)]
    /\ WriterUnchanged

\* WriteMessage returns when the browser reads or there is room on the way.
WriterWrites(c) ==
    /\ writer[c] \in Outbound
    /\ browser[c] = "open"
    /\ writer' = [writer EXCEPT ![c] = "waiting"]
    /\ UNCHANGED eventC
    /\ WriterUnchanged

\* WriteMessage fails, or eventC is closed and empty.
WriterEnds(c) ==
    /\ \/ writer[c] \in Outbound /\ browser[c] = "gone"
       \/ writer[c] = "waiting" /\ eventC[c] = << >> /\ process[c] = "ended"
    /\ writer' = [writer EXCEPT ![c] = "ended"]
    /\ UNCHANGED eventC
    /\ WriterUnchanged

-----------------------------------------------------------------------------
(***************************************************************************)
(* The main loop of the server                                             *)
(***************************************************************************)

AppUnchanged == UNCHANGED <<browser, conn, readVars, process, shaken, writeVars>>

\* Mutant of AppTakes: what it tells waits for room in every channel.
AppTakesWhenRoom ==
    /\ dispatchC > 0
    /\ \A c \in consumers : Len(eventsC[c]) < BusSize
    /\ dispatchC' = dispatchC - 1
    /\ Send("news")
    /\ AppUnchanged

\* It handles a command, and tells all clients, its sender or nobody.
AppTakes ==
    /\ dispatchC > 0
    /\ dispatchC' = dispatchC - 1
    /\ Send("news") \/ (\E c \in Clients : SendTo(c, "news")) \/ UNCHANGED busVars
    /\ AppUnchanged

\* A connection of the gRPC API dispatches a command on the same channel.
ApiDispatches ==
    /\ dispatchC < DispatchSize
    /\ dispatchC' = dispatchC + 1
    /\ UNCHANGED busVars
    /\ AppUnchanged

\* An event of its own: the main loop tells of a new state.
AppTicks ==
    /\ Send("news")
    /\ UNCHANGED dispatchC
    /\ AppUnchanged

-----------------------------------------------------------------------------

Browser(c) == BrowserConnects(c) \/ BrowserLeaves(c)
Handler(c) ==
    HandlerAccepts(c) \/ HandlerRefuses(c) \/ HandlerLeavesOpen(c) \/ HandlerCloses(c)
Reader(c) == (\E message \in Inbound : ReaderReads(c, message)) \/ ReaderPasses(c) \/ ReaderEnds(c)
Writer(c) == WriterTakes(c) \/ WriterWrites(c) \/ WriterEnds(c)

ProcessTakes(c) ==
    ProcessTakesHandshake(c) \/ ProcessTakesCommand(c) \/ ProcessIgnores(c) \/ ProcessMeetsEnd(c)

Process(c) ==
    \/ ProcessTakes(c) \/ ProcessTimesOut(c) \/ ProcessTakesEvent(c)
    \/ ProcessGreets(c) \/ ProcessRegisters(c) \/ ProcessDispatches(c) \/ ProcessForwards(c)

App == AppTakes \/ ApiDispatches \/ AppTicks

Next ==
    \/ \E c \in Clients : Browser(c) \/ Handler(c) \/ Reader(c) \/ Process(c) \/ Writer(c)
    \/ App

(***************************************************************************)
(* The goroutines run, the select of processMessages picks at random among *)
(* what is ready, senders blocked on dispatchC are served in order and the *)
(* main loop takes what is there.  A browser may stop reading: that a      *)
(* write succeeds is not assumed.  A reader whose browser is gone ends.    *)
(***************************************************************************)
Fairness ==
    /\ WF_vars(AppTakes)
    /\ \A c \in Clients :
        /\ WF_vars(HandlerLeavesOpen(c) \/ HandlerCloses(c))
        /\ WF_vars(browser[c] = "gone" /\ (HandlerAccepts(c) \/ HandlerRefuses(c)))
        /\ WF_vars(ReaderPasses(c) \/ (browser[c] = "gone" /\ ReaderEnds(c)))
        /\ SF_vars(ProcessTakes(c))
        /\ WF_vars(ProcessGreets(c) \/ ProcessRegisters(c) \/ ProcessForwards(c))
        /\ SF_vars(ProcessDispatches(c))
        /\ WF_vars(WriterTakes(c) \/ WriterEnds(c))

Spec == Init /\ [][Next]_vars
FairSpec == Spec /\ Fairness

-----------------------------------------------------------------------------
(***************************************************************************)
(* Safety                                                                  *)
(***************************************************************************)

\* The bus knows only browsers that have shaken hands and whose messages are
\* being processed: nobody else's channel is filled.
OnlyServedAreRegistered ==
    \A c \in consumers :
        /\ conn[c] = "serving"
        /\ c \in shaken
        /\ process[c] \notin {"none", "ended"}

\* HandshakeCompleted comes before every event and once only: nothing that is
\* still to be written is ahead of it.
GreetedFirst ==
    \A c \in Clients : \A i \in 1 .. Len(eventC[c]) :
        eventC[c][i] = "greeting" => i = 1 /\ writer[c] \notin Outbound

\* By whichever of its four returns processMessages ends, a browser is served
\* from its first handshake until then: HandshakeCompleted comes first, and
\* the bus holds nobody whose channel would not be emptied.
ServedFromHandshake == OnlyServedAreRegistered /\ GreetedFirst

(***************************************************************************)
(* Liveness                                                                *)
(***************************************************************************)

\* A command is handed to the main loop however slow the browsers are that
\* the main loop sends to in the meantime.
DispatchesReturn ==
    \A c \in Clients : process[c] = "dispatching" ~> process[c] # "dispatching"

\* A goroutine of the connection waits for room that the one it sends to, which
\* has ended, will never make: nobody tells it, and wg.Wait never returns.
Abandoned(c) ==
    \/ process[c] = "forwarding" /\ writer[c] = "ended" /\ Len(eventC[c]) = ChanSize
    \/ reader[c] \in Inbound /\ process[c] = "ended" /\ Len(commandC[c]) = ChanSize

\* A connection whose browser is gone is closed and its client deregistered,
\* unless one goroutine of it was abandoned by the one it sends to.  (A refused
\* one may be left for the garbage collector to close.)
GoneBrowserIsForgotten ==
    \A c \in Clients :
        browser[c] = "gone" ~>
            Abandoned(c) \/ (conn[c] \in {"closed", "left"} /\ c \notin consumers)
===============================================================================
