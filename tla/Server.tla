-------------------------------- MODULE Server --------------------------------
(***************************************************************************)
(* App.Run of internal/server/serverapp.go from the wait for a client      *)
(* to its return, the gRPC sessions of internal/server/grpc.go, the bus    *)
(* between them and, at the other end of a session, the terminal client.   *)
(*                                                                         *)
(* A session of client c is three goroutines of the server (Communicate,   *)
(* which waits for its event goroutine and its receive goroutine) and two  *)
(* of the client (its receive loop and its user interface).  What commands *)
(* on destinations do is left to module Destinations: here such a command  *)
(* is "work", which succeeds or fails.                                     *)
(***************************************************************************)
EXTENDS EventBus, FiniteSets

CONSTANTS
    Callers,        \* unary calls of the API, each made once at most
    DispatchSize,   \* capacity of dispatchC (64 in the code)
    waitForClient,  \* App.waitForClient: server and client in one process
    Faults          \* what may go wrong: a subset of FaultKinds

FaultKinds == {"docker",    \* a call of the Docker engine fails
               "listener",  \* a listener or the start of the media server fails
               "exit"}      \* the media server's container exits

ASSUME ServerAssumption ==
    /\ IsFiniteSet(Clients)
    /\ Clients \intersect Callers = {}
    /\ DispatchSize \in Nat \ {0}
    /\ waitForClient \in BOOLEAN
    /\ Faults \subseteq FaultKinds

VARIABLES
    app,            \* where Run is
    exit,           \* what it returned
    interrupted,    \* its context was cancelled
    clientC,        \* TRUE when the channel holds its one notification
    clientCount,
    dispatchC,      \* commands sent to the main loop
    startMediaServerC,  \* TRUE when the channel holds its one token
    mediaServer,    \* the container of the media server
    exitReported,   \* the media server's state has an ExitReason
    call,           \* where each unary call is
    handler,        \* where Communicate is
    sender,         \* where its event goroutine is
    receiver,       \* where its receive goroutine is
    client,         \* where the client is
    ui,             \* clients whose user interface is registered
    modal,          \* the modals it shows that ask for an answer
    toClient, toServer  \* the two directions of the stream

appVars == <<app, exit, interrupted, startMediaServerC, mediaServer, exitReported>>
serverVars == <<clientC, clientCount, handler, sender, receiver>>
clientVars == <<client, ui, modal, toClient, toServer>>
vars == <<appVars, serverVars, clientVars, busVars, dispatchC, call>>

Kinds == {"work", "close", "kill"}  \* CloseOtherInstance, KillServer
Command(kind, from) == [kind |-> kind, from |-> from]
Commands == [kind : Kinds, from : Clients \union Callers]

AppTypeOK ==
    /\ app \in {"waiting", "connecting", "checking", "counting", "loop", "starting",
                "fatal", "acknowledging", "returned"}
    /\ exit \in {"none", "no client", "interrupted", "other instance", "fatal", "error", "killed"}
    /\ interrupted \in BOOLEAN
    /\ startMediaServerC \in BOOLEAN
    /\ mediaServer \in {"none", "running", "gone"}
    /\ exitReported \in BOOLEAN

ServerTypeOK ==
    /\ clientC \in BOOLEAN
    /\ clientCount \in Nat
    /\ handler \in [Clients -> {"none", "shaken", "announced", "serving"}]
    /\ sender \in [Clients -> {"none", "running", "ended"}]
    /\ receiver \in [Clients -> {"none", "launched", "receiving", "dispatching", "ended"}]

ClientTypeOK ==
    /\ client \in [Clients -> {"away", "shaking", "shaken", "open", "closed"}]
    /\ ui \in SUBSET Clients
    /\ modal \in [Clients -> SUBSET {"other", "fatal"}]
    /\ toClient \in [Clients -> Seq(Events)]
    /\ toServer \in [Clients -> Seq(Commands)]

TypeOK ==
    /\ BusTypeOK
    /\ AppTypeOK
    /\ ServerTypeOK
    /\ ClientTypeOK
    /\ dispatchC \in Seq(Commands) /\ Len(dispatchC) <= DispatchSize
    /\ call \in [Callers -> {"idle", "sending", "waiting", "answered"}]

Init ==
    /\ BusInit
    /\ app = IF waitForClient THEN "waiting" ELSE "connecting"
    /\ exit = "none"
    /\ interrupted = FALSE
    /\ clientC = FALSE
    /\ clientCount = 0
    /\ dispatchC = << >>
    /\ startMediaServerC = FALSE
    /\ mediaServer = "none"
    /\ exitReported = FALSE
    /\ call = [k \in Callers |-> "idle"]
    /\ handler = [c \in Clients |-> "none"]
    /\ sender = [c \in Clients |-> "none"]
    /\ receiver = [c \in Clients |-> "none"]
    /\ client = [c \in Clients |-> "away"]
    /\ ui = {}
    /\ modal = [c \in Clients |-> {}]
    /\ toClient = [c \in Clients |-> << >>]
    /\ toServer = [c \in Clients |-> << >>]

-----------------------------------------------------------------------------
(***************************************************************************)
(* The terminal client.  Each direction of a stream holds one message.     *)
(***************************************************************************)

ClientUnchanged == UNCHANGED <<appVars, serverVars, busVars, dispatchC, call>>

\* doHandshake sends StartHandshake.
ClientConnects(c) ==
    /\ client[c] = "away"
    /\ client' = [client EXCEPT ![c] = "shaking"]
    /\ UNCHANGED <<ui, modal, toClient, toServer>>
    /\ ClientUnchanged

\* NewUI, after which the receive loop and ui.Run are started.
ClientOpens(c) ==
    /\ client[c] = "shaken"
    /\ client' = [client EXCEPT ![c] = "open"]
    /\ UNCHANGED <<ui, modal, toClient, toServer>>
    /\ ClientUnchanged

\* ui.Run registers on the client's own bus.
ClientRegistersUI(c) ==
    /\ client[c] = "open"
    /\ ui' = ui \union {c}
    /\ UNCHANGED <<client, modal, toClient, toServer>>
    /\ ClientUnchanged

\* The receive loop hands an event to the bus, where it is lost without a UI.
ClientReceives(c) ==
    /\ client[c] = "open"
    /\ toClient[c] # << >>
    /\ toClient' = [toClient EXCEPT ![c] = Tail(@)]
    /\ modal' = IF c \in ui THEN [modal EXCEPT ![c] = @ \union ({Head(toClient[c])} \intersect {"other", "fatal"})]
                ELSE modal
    /\ UNCHANGED <<client, ui, toServer>>
    /\ ClientUnchanged

ClientSends(c, kind) ==
    /\ c \in ui
    /\ toServer[c] = << >>
    /\ toServer' = [toServer EXCEPT ![c] = <<Command(kind, c)>>]

\* The buttons of a modal: Continue and Exit, or Quit.
ClientAnswers(c, kind) ==
    /\ ClientSends(c, kind)
    /\ \E m \in modal[c] :
        /\ modal' = [modal EXCEPT ![c] = @ \ {m}]
        /\ IF m = "other" THEN kind \in {"close", "kill"} ELSE kind = "kill"
    /\ UNCHANGED <<client, ui, toClient>>
    /\ ClientUnchanged

\* A key, when no modal is in the way.
ClientWorks(c) ==
    /\ modal[c] = {}
    /\ ClientSends(c, "work")
    /\ UNCHANGED <<client, ui, modal, toClient>>
    /\ ClientUnchanged

\* The user quits with CTRL-C, or the client is gone.
ClientQuits(c) ==
    /\ client[c] \in {"shaking", "shaken", "open"}
    /\ client' = [client EXCEPT ![c] = "closed"]
    /\ ui' = ui \ {c}
    /\ modal' = [modal EXCEPT ![c] = {}]
    /\ toClient' = [toClient EXCEPT ![c] = << >>]
    /\ UNCHANGED toServer
    /\ ClientUnchanged

-----------------------------------------------------------------------------
(***************************************************************************)
(* Communicate                                                             *)
(***************************************************************************)

SessionUnchanged == UNCHANGED <<appVars, ui, modal, call>>

\* StartHandshake is received and HandshakeCompleted sent.
HandlerShakes(c) ==
    /\ handler[c] = "none"
    /\ client[c] = "shaking"
    /\ handler' = [handler EXCEPT ![c] = "shaken"]
    /\ client' = [client EXCEPT ![c] = "shaken"]
    /\ UNCHANGED <<clientC, clientCount, sender, receiver, toClient, toServer, busVars, dispatchC>>
    /\ SessionUnchanged

HandlerAnnounces(c) ==
    /\ handler[c] = "shaken"
    /\ handler' = [handler EXCEPT ![c] = "announced"]
    /\ clientC' = TRUE
    /\ UNCHANGED <<clientCount, sender, receiver, client, toClient, toServer, busVars, dispatchC>>
    /\ SessionUnchanged

HandlerServes(c) ==
    /\ handler[c] = "announced"
    /\ handler' = [handler EXCEPT ![c] = "serving"]
    /\ Register(c)
    /\ sender' = [sender EXCEPT ![c] = "running"]
    /\ receiver' = [receiver EXCEPT ![c] = "launched"]
    /\ UNCHANGED <<clientC, clientCount, client, toClient, toServer, dispatchC>>
    /\ SessionUnchanged

SenderSends(c) ==
    /\ sender[c] = "running"
    /\ client[c] # "closed"
    /\ toClient[c] = << >>
    /\ Receive(c)
    /\ toClient' = [toClient EXCEPT ![c] = <<Head(eventsC[c])>>]
    /\ UNCHANGED <<serverVars, client, toServer, dispatchC>>
    /\ SessionUnchanged

\* Mutant of SenderEnds: without the deferred Deregister.
SenderEndsRegistered(c) ==
    /\ sender[c] = "running"
    /\ client[c] = "closed" \/ receiver[c] = "ended"
    /\ sender' = [sender EXCEPT ![c] = "ended"]
    /\ UNCHANGED <<clientC, clientCount, handler, receiver, client, toClient, toServer, busVars, dispatchC>>
    /\ SessionUnchanged

\* The stream is broken, or the other goroutine's error has cancelled the group.
SenderEnds(c) ==
    /\ sender[c] = "running"
    /\ client[c] = "closed" \/ receiver[c] = "ended"
    /\ sender' = [sender EXCEPT ![c] = "ended"]
    /\ Deregister(c)
    /\ UNCHANGED <<clientC, clientCount, handler, receiver, client, toClient, toServer, dispatchC>>
    /\ SessionUnchanged

\* Mutant of ReceiverCounts: the client is not counted.
ReceiverCountsNot(c) ==
    /\ receiver[c] = "launched"
    /\ receiver' = [receiver EXCEPT ![c] = "receiving"]
    /\ UNCHANGED <<clientC, clientCount, handler, sender, client, toClient, toServer, busVars, dispatchC>>
    /\ SessionUnchanged

ReceiverCounts(c) ==
    /\ receiver[c] = "launched"
    /\ receiver' = [receiver EXCEPT ![c] = "receiving"]
    /\ clientCount' = clientCount + 1
    /\ UNCHANGED <<clientC, handler, sender, client, toClient, toServer, busVars, dispatchC>>
    /\ SessionUnchanged

ReceiverReceives(c) ==
    /\ receiver[c] = "receiving"
    /\ toServer[c] # << >>
    /\ receiver' = [receiver EXCEPT ![c] = "dispatching"]
    /\ UNCHANGED <<clientC, clientCount, handler, sender, client, toClient, toServer, busVars, dispatchC>>
    /\ SessionUnchanged

\* DispatchAsync blocks while dispatchC is full, and looks at nothing else.
ReceiverDispatches(c) ==
    /\ receiver[c] = "dispatching"
    /\ Len(dispatchC) < DispatchSize
    /\ dispatchC' = Append(dispatchC, Head(toServer[c]))
    /\ toServer' = [toServer EXCEPT ![c] = Tail(@)]
    /\ receiver' = [receiver EXCEPT ![c] = "receiving"]
    /\ UNCHANGED <<clientC, clientCount, handler, sender, client, toClient, busVars>>
    /\ SessionUnchanged

\* What the client had sent before it went may be lost with the stream.
ReceiverEnds(c) ==
    /\ receiver[c] = "receiving"
    /\ client[c] = "closed"
    /\ receiver' = [receiver EXCEPT ![c] = "ended"]
    /\ clientCount' = clientCount - 1
    /\ UNCHANGED <<clientC, handler, sender, client, toClient, toServer, busVars, dispatchC>>
    /\ SessionUnchanged

\* A message that is no command, or one that cannot be read, from a client that
\* is still there: Communicate ends with an error.
ReceiverRejects(c) ==
    /\ receiver[c] = "receiving"
    /\ client[c] # "closed"
    /\ receiver' = [receiver EXCEPT ![c] = "ended"]
    /\ clientCount' = clientCount - 1
    /\ UNCHANGED <<clientC, handler, sender, client, toClient, toServer, busVars, dispatchC>>
    /\ SessionUnchanged

-----------------------------------------------------------------------------
(***************************************************************************)
(* Unary calls: DispatchSync                                               *)
(***************************************************************************)

CallUnchanged == UNCHANGED <<appVars, serverVars, clientVars, busVars>>

CallArrives(k) ==
    /\ call[k] = "idle"
    /\ call' = [call EXCEPT ![k] = "sending"]
    /\ UNCHANGED dispatchC
    /\ CallUnchanged

CallDispatches(k) ==
    /\ call[k] = "sending"
    /\ Len(dispatchC) < DispatchSize
    /\ dispatchC' = Append(dispatchC, Command("work", k))
    /\ call' = [call EXCEPT ![k] = "waiting"]
    /\ CallUnchanged

-----------------------------------------------------------------------------
(***************************************************************************)
(* Run, before its main loop                                               *)
(***************************************************************************)

AppGoes(to) == app' = to /\ UNCHANGED exit
AppReturns(how) == app' = "returned" /\ exit' = how
StartupUnchanged == UNCHANGED <<interrupted, mediaServer, exitReported,
                                clientCount, handler, sender, receiver, clientVars, call>>

\* WaitForClient
AppMeetsClient ==
    /\ app = "waiting"
    /\ \/ clientC /\ clientC' = FALSE /\ AppGoes("connecting")
       \/ UNCHANGED clientC /\ AppReturns("no client")
       \/ interrupted /\ UNCHANGED clientC /\ AppReturns("interrupted")
    /\ UNCHANGED <<startMediaServerC, busVars, dispatchC>>
    /\ StartupUnchanged

\* container.NewClient
AppConnects ==
    /\ app = "connecting"
    /\ AppGoes("checking")
    /\ Send("news")
    /\ UNCHANGED <<startMediaServerC, clientC, dispatchC>>
    /\ StartupUnchanged

\* NewClient, NewActor or doStartupCheck fails: doFatalError sends its event ...
AppFails ==
    /\ app \in {"connecting", "checking"}
    /\ "docker" \in Faults \/ interrupted
    /\ AppGoes("fatal")
    /\ Send("fatal")
    /\ UNCHANGED <<startMediaServerC, clientC, dispatchC>>
    /\ StartupUnchanged

\* ... returns if nobody is there to see it, or has the modal drawn ...
AppCountsOnError ==
    /\ app = "fatal"
    /\ IF clientCount = 0 THEN AppReturns("fatal") /\ UNCHANGED busVars
                          ELSE AppGoes("acknowledging") /\ Send("news")
    /\ UNCHANGED <<startMediaServerC, clientC, dispatchC>>
    /\ StartupUnchanged

\* ... and takes the next command, whatever it is, for the acknowledgement.
AppIsAcknowledged ==
    /\ app = "acknowledging"
    /\ dispatchC # << >>
    /\ dispatchC' = Tail(dispatchC)
    /\ AppReturns("fatal")
    /\ UNCHANGED <<startMediaServerC, clientC, busVars>>
    /\ StartupUnchanged

\* doStartupCheck.  Whether containers of another instance run is for the world
\* to say: one may start or stop at any time, also right after the answer.
AppChecks ==
    /\ app = "checking"
    /\ \/ AppGoes("loop") /\ startMediaServerC' = TRUE /\ UNCHANGED busVars
       \/ AppGoes("counting") /\ Send("other") /\ UNCHANGED startMediaServerC
    /\ UNCHANGED <<clientC, dispatchC>>
    /\ StartupUnchanged

\* Nobody to ask: ErrOtherInstanceDetected.
AppCounts ==
    /\ app = "counting"
    /\ IF clientCount = 0 THEN AppReturns("other instance") ELSE AppGoes("loop")
    /\ UNCHANGED <<startMediaServerC, clientC, busVars, dispatchC>>
    /\ StartupUnchanged

-----------------------------------------------------------------------------
(***************************************************************************)
(* Run's main loop                                                         *)
(***************************************************************************)

LoopUnchanged == UNCHANGED <<interrupted, serverVars, clientVars>>

\* srv.Start
LoopStartsMediaServer ==
    /\ app = "loop"
    /\ startMediaServerC
    /\ startMediaServerC' = FALSE
    /\ mediaServer' = "running"
    /\ Send("news")
    /\ UNCHANGED <<app, exit, exitReported, dispatchC, call>>
    /\ LoopUnchanged

\* uiUpdateT, and the states of the media server and of the replicator.
LoopTicks ==
    /\ app = "loop"
    /\ Send("news")
    /\ UNCHANGED <<appVars, dispatchC, call>>
    /\ LoopUnchanged

LoopTakes(cmd) ==
    /\ app = "loop"
    /\ dispatchC # << >>
    /\ cmd = Head(dispatchC)
    /\ dispatchC' = Tail(dispatchC)

Answers(from) ==
    call' = IF from \in Callers THEN [call EXCEPT ![from] = "answered"] ELSE call

\* A command on destinations: it succeeds, which all are told, or fails.
LoopWorks(cmd) ==
    /\ LoopTakes(cmd)
    /\ cmd.kind = "work"
    /\ Send("news") \/ SendTo(cmd.from, "news")
    /\ Answers(cmd.from)
    /\ UNCHANGED appVars
    /\ LoopUnchanged

\* Its container is removed: the media server's actor sees it exit.
MediaServerIsRemoved ==
    /\ mediaServer' = IF mediaServer = "running" THEN "gone" ELSE mediaServer
    /\ exitReported' = (exitReported \/ mediaServer = "running")

\* CloseOtherInstance removes the containers of every instance, this one too,
\* and then the networks.  Either may fail, after some containers or all.
LoopClosesOthers(cmd) ==
    /\ LoopTakes(cmd)
    /\ cmd.kind = "close"
    /\ \/ AppGoes("starting") /\ MediaServerIsRemoved
       \/ /\ "docker" \in Faults \/ interrupted
          /\ AppReturns("error")
          /\ MediaServerIsRemoved \/ UNCHANGED <<mediaServer, exitReported>>
    /\ UNCHANGED <<startMediaServerC, busVars, call>>
    /\ LoopUnchanged

\* The main loop itself is the only one to read what it sends here.
LoopSendsStart ==
    /\ app = "starting"
    /\ ~startMediaServerC
    /\ startMediaServerC' = TRUE
    /\ AppGoes("loop")
    /\ UNCHANGED <<mediaServer, exitReported, busVars, dispatchC, call>>
    /\ LoopUnchanged

LoopIsKilled(cmd) ==
    /\ LoopTakes(cmd)
    /\ cmd.kind = "kill"
    /\ AppReturns("killed")
    /\ UNCHANGED <<startMediaServerC, mediaServer, exitReported, busVars, call>>
    /\ LoopUnchanged

\* The state of the media server has an ExitReason: doFatalError.
LoopLosesMediaServer ==
    /\ app = "loop"
    /\ exitReported
    /\ AppGoes("fatal")
    /\ Send("fatal")
    /\ UNCHANGED <<startMediaServerC, mediaServer, exitReported, dispatchC, call>>
    /\ LoopUnchanged

\* Mutant of LoopIsInterrupted: it waits for the clients to go.
LoopIsInterruptedAlone ==
    /\ app = "loop"
    /\ interrupted
    /\ clientCount = 0
    /\ AppReturns("interrupted")
    /\ UNCHANGED <<startMediaServerC, mediaServer, exitReported, busVars, dispatchC, call>>
    /\ LoopUnchanged

LoopIsInterrupted ==
    /\ app = "loop"
    /\ interrupted
    /\ AppReturns("interrupted")
    /\ UNCHANGED <<startMediaServerC, mediaServer, exitReported, busVars, dispatchC, call>>
    /\ LoopUnchanged

LoopLosesListener ==
    /\ app = "loop"
    /\ "listener" \in Faults
    /\ AppReturns("error")
    /\ UNCHANGED <<startMediaServerC, mediaServer, exitReported, busVars, dispatchC, call>>
    /\ LoopUnchanged

-----------------------------------------------------------------------------
(***************************************************************************)
(* The world around                                                        *)
(***************************************************************************)

\* SIGINT or SIGTERM; in one process, also the end of the client.
Interrupt ==
    /\ ~interrupted
    /\ interrupted' = TRUE
    /\ UNCHANGED <<app, exit, startMediaServerC, mediaServer, exitReported,
                   serverVars, clientVars, busVars, dispatchC, call>>

MediaServerExits ==
    /\ "exit" \in Faults
    /\ mediaServer = "running"
    /\ mediaServer' = "gone"
    /\ exitReported' = TRUE
    /\ UNCHANGED <<app, exit, interrupted, startMediaServerC,
                   serverVars, clientVars, busVars, dispatchC, call>>

-----------------------------------------------------------------------------

Client(c) ==
    \/ ClientConnects(c) \/ ClientOpens(c) \/ ClientRegistersUI(c) \/ ClientReceives(c)
    \/ \E kind \in {"close", "kill"} : ClientAnswers(c, kind)
    \/ ClientWorks(c) \/ ClientQuits(c)

Handler(c) == HandlerShakes(c) \/ HandlerAnnounces(c) \/ HandlerServes(c)
Sender(c) == SenderSends(c) \/ SenderEnds(c)
Receiver(c) == ReceiverCounts(c) \/ ReceiverReceives(c) \/ ReceiverDispatches(c) \/ ReceiverEnds(c)

Startup ==
    \/ AppMeetsClient \/ AppConnects \/ AppFails \/ AppCountsOnError \/ AppIsAcknowledged
    \/ AppChecks \/ AppCounts

LoopHandles == \E cmd \in Commands : LoopWorks(cmd) \/ LoopClosesOthers(cmd) \/ LoopIsKilled(cmd)

Loop ==
    \/ LoopStartsMediaServer \/ LoopTicks \/ LoopHandles \/ LoopSendsStart
    \/ LoopLosesMediaServer \/ LoopLosesListener \/ LoopIsInterrupted

\* Sessions go on after Run's return, until the process ends.
Next ==
    \/ \E c \in Clients : Client(c) \/ Handler(c) \/ Sender(c) \/ Receiver(c) \/ ReceiverRejects(c)
    \/ \E k \in Callers : CallArrives(k) \/ CallDispatches(k)
    \/ Startup
    \/ Loop
    \/ Interrupt
    \/ MediaServerExits

(***************************************************************************)
(* The server's goroutines run, senders blocked on dispatchC are served in *)
(* order and the main loop's select picks at random among what is ready.   *)
(* Clients may stop reading, answering or sending at any time, and need    *)
(* never send what the server rejects.                                     *)
(***************************************************************************)
Fairness ==
    /\ WF_vars(Startup)
    /\ SF_vars(LoopStartsMediaServer)
    /\ SF_vars(LoopHandles)
    /\ WF_vars(LoopSendsStart)
    /\ SF_vars(LoopLosesMediaServer)
    /\ SF_vars(LoopIsInterrupted)
    /\ \A c \in Clients :
        /\ WF_vars(Handler(c))
        /\ WF_vars(SenderEnds(c))
        /\ SF_vars(Receiver(c))
    /\ \A k \in Callers : SF_vars(CallDispatches(k))

Spec == Init /\ [][Next]_vars
FairSpec == Spec /\ Fairness

-----------------------------------------------------------------------------
(***************************************************************************)
(* Safety                                                                  *)
(***************************************************************************)

\* Run does not give up while it serves a client, whose user it must ask: it
\* returns on another instance or on a fatal error only when it serves none or
\* when a command was taken for the user's answer.
AsksBeforeLeaving ==
    [][app \notin {"acknowledging", "returned"} /\ exit' \in {"other instance", "fatal"} =>
          \A c \in Clients : receiver[c] \notin {"receiving", "dispatching"}]_vars

\* Connected as WaitForClient and the client see it, and not counted yet.
Uncounted(c) ==
    /\ client[c] \in {"shaken", "open"}
    /\ handler[c] \in {"announced", "serving"}
    /\ receiver[c] \in {"none", "launched"}

\* What the comment on doFatalError promises: it waits for the user's
\* acknowledgement if a client is connected, so that Run does not return on a
\* fatal error while one is that has completed its handshake.
ConnectedUserIsAsked ==
    [][app = "fatal" /\ app' = "returned" => \A c \in Clients : ~Uncounted(c)]_vars

\* What CommandCloseOtherInstance and the modal promise: Continue closes the
\* other instance.  This one keeps its media server.
ClosesOnlyOthers ==
    [][app = "loop" /\ app' = "starting" => UNCHANGED mediaServer]_vars

(***************************************************************************)
(* Liveness                                                                *)
(***************************************************************************)

\* The main loop waits for itself: it sends on the channel that only it reads.
Wedged == app = "starting" /\ startMediaServerC

\* A unary call is answered, or Run returns, however slow the clients are that
\* the answer is also sent to: nothing but a wedged main loop keeps it waiting.
CallsAreAnswered ==
    \A k \in Callers : call[k] = "sending" ~> call[k] = "answered" \/ app = "returned" \/ Wedged

Forgotten(c) ==
    /\ handler[c] \in {"none", "serving"}
    /\ c \notin consumers
    /\ receiver[c] \in {"none", "ended"}

\* A client that is gone is neither registered nor counted for long, whatever
\* its session was waiting for.
GoneClientIsForgotten ==
    \A c \in Clients : client[c] = "closed" ~> Forgotten(c) \/ app = "returned" \/ Wedged

\* After an interrupt Run returns, unless it waits for a user to acknowledge a
\* fatal error or for itself.
InterruptIsHeldByUserOnly ==
    interrupted ~> app \in {"acknowledging", "returned"} \/ Wedged
===============================================================================
