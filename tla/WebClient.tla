------------------------------- MODULE WebClient -------------------------------
(***************************************************************************)
(* frontend/src: the web page from one load to the next.                   *)
(* WebSocketCommunicator keeps a connection to the server's WebSocket      *)
(* proxy, and the commands given while there is none; Dashboard shows the  *)
(* state it is sent and turns clicks into commands.  It is about one       *)
(* destination.                                                            *)
(*                                                                         *)
(* A page is one thread: a callback is one step.  Between callbacks the    *)
(* browser changes the readyState of a socket, a timer runs, the bytes of  *)
(* a message are read, or a dialog waits for the user.  The browser and    *)
(* the server are external.                                                *)
(***************************************************************************)
EXTENDS Naturals, Sequences, FiniteSets

CONSTANTS
    Sockets,                \* room for WebSockets that have not been closed
    NoSocket,               \* null
    maxReconnectAttempts,   \* 5 in the code
    MaxCommands,            \* bound: commands the user gives
    MaxDecoding             \* bound: messages whose bytes are being read

ASSUME WebClientAssumption ==
    /\ NoSocket \notin Sockets
    /\ maxReconnectAttempts \in Nat
    /\ MaxCommands \in Nat
    /\ MaxDecoding \in Nat

VARIABLES
    page,               \* "leaving" once beforeunload was fired, then "gone"
    sockets,            \* readyState of each; "none" when closed or not made
    ws,                 \* the socket the communicator holds
    isConnected,
    reconnectAttempts,
    timers,             \* reconnections that are scheduled
    endedNormally,      \* the last close event had the code 1000
    commandQueue,       \* commands to be sent once connected, by their number
    first,              \* the first envelope sent over each socket
    log,                \* the commands handed to any socket
    issued,             \* how many commands the user gave
    last,               \* the last of them
    decoding,           \* events whose bytes are being read
    startState,         \* destinationIdsToStartState; "started" is STARTING too,
                        \* "none" that the destination is not in it
    row,                \* the destination's start/stop button, if it has a row
    dialog              \* the form, or the question that is asked, if one is open

connectionVars == <<page, sockets, ws, isConnected, reconnectAttempts, timers, endedNormally>>
sendVars == <<commandQueue, first, log>>
dashboardVars == <<startState, row, dialog>>
vars == <<connectionVars, sendVars, issued, last, decoding, dashboardVars>>

\* AppStateChanged, reduced to what decides on the row: the destination is not
\* there, it is idle, it is idle and the source is live, it is started.
States == [type : {"state"}, dest : {"absent", "idle", "ready", "started"}]

\* saved: DestinationAdded and DestinationUpdated.  The other events are
\* shown, and decide on nothing here.
Events == States \union {[type |-> "exited"], [type |-> "saved"]}

Rows == [button : {"none", "start", "stop"}, disabled : BOOLEAN]
NoRow == [button |-> "none", disabled |-> FALSE]

\* force: the removal of a destination that is live.
Kinds == {"start", "stop", "remove", "force", "add", "update"}

Forms == {"add", "edit"}
Questions == {"plain", "live"}      \* whether to remove one that is live

ConnectionTypeOK ==
    /\ page \in {"open", "leaving", "gone"}
    /\ sockets \in [Sockets -> {"none", "connecting", "open", "closing"}]
    /\ ws \in Sockets \union {NoSocket}
    /\ isConnected \in BOOLEAN
    /\ reconnectAttempts \in 0 .. maxReconnectAttempts
    /\ timers \in Nat
    /\ endedNormally \in BOOLEAN

TypeOK ==
    /\ ConnectionTypeOK
    /\ commandQueue \in Seq(1 .. MaxCommands)
    /\ first \in [Sockets -> {"nothing", "handshake", "command"}]
    /\ log \in Seq(1 .. MaxCommands)
    /\ issued \in 0 .. MaxCommands
    /\ last \in Kinds \union {"none"}
    /\ decoding \in SUBSET Events
    /\ startState \in {"none", "idle", "started"}
    /\ row \in Rows
    /\ dialog \in Forms \union Questions \union {"none"}

\* Dashboard.init has called connect.
Init ==
    /\ page = "open"
    /\ \E s \in Sockets :
          /\ sockets = [t \in Sockets |-> IF t = s THEN "connecting" ELSE "none"]
          /\ ws = s
    /\ isConnected = FALSE
    /\ reconnectAttempts = 0
    /\ timers = 0
    /\ endedNormally = FALSE
    /\ commandQueue = << >>
    /\ first = [s \in Sockets |-> "nothing"]
    /\ log = << >>
    /\ issued = 0
    /\ last = "none"
    /\ decoding = {}
    /\ startState = "none"
    /\ row = NoRow
    /\ dialog = "none"

-----------------------------------------------------------------------------
(***************************************************************************)
(* Sending                                                                 *)
(***************************************************************************)

\* Without an open socket the envelopes are dropped.
SendEnvelopes(head, commands, readyState) ==
    IF ws # NoSocket /\ readyState[ws] = "open"
    THEN /\ first' = [first EXCEPT ![ws] = IF @ = "nothing" THEN head ELSE @]
         /\ log' = log \o commands
    ELSE UNCHANGED <<first, log>>

\* Mutant of SendCommand: a command that is sent stays in the queue as well.
SendCommandTwice(command) ==
    /\ IF isConnected THEN SendEnvelopes("command", <<command>>, sockets) ELSE UNCHANGED <<first, log>>
    /\ commandQueue' = Append(commandQueue, command)

SendCommand(command) ==
    IF isConnected
    THEN /\ SendEnvelopes("command", <<command>>, sockets)
         /\ UNCHANGED commandQueue
    ELSE /\ commandQueue' = Append(commandQueue, command)
         /\ UNCHANGED <<first, log>>

\* The user gives a command, if the bound allows one more.
Issue(kind) ==
    /\ issued < MaxCommands
    /\ issued' = issued + 1
    /\ last' = kind
    /\ SendCommand(issued + 1)

-----------------------------------------------------------------------------
(***************************************************************************)
(* The connection                                                          *)
(***************************************************************************)

PageUnchanged == UNCHANGED <<issued, last, decoding, dashboardVars>>

\* Mutant of GreetAndFlush: the queue goes before the handshake.
FlushAndGreet(readyState) ==
    /\ SendEnvelopes(IF commandQueue = << >> THEN "handshake" ELSE "command", commandQueue, readyState)
    /\ commandQueue' = << >>

\* Mutant of GreetAndFlush: commands wait for the next command.
GreetOnly(readyState) ==
    /\ SendEnvelopes("handshake", << >>, readyState)
    /\ UNCHANGED commandQueue

GreetAndFlush(readyState) ==
    /\ SendEnvelopes("handshake", commandQueue, readyState)
    /\ commandQueue' = << >>

\* The server accepts the connection: onopen.
SocketOpens(s) ==
    /\ sockets[s] = "connecting"
    /\ sockets' = [sockets EXCEPT ![s] = "open"]
    /\ isConnected' = TRUE
    /\ reconnectAttempts' = 0
    /\ GreetAndFlush(sockets')
    /\ UNCHANGED <<page, ws, timers, endedNormally>>
    /\ PageUnchanged

\* The server or the network ends it.  The close event comes later; until
\* then the communicator takes itself for connected.
SocketFails(s) ==
    /\ sockets[s] = "open"
    /\ sockets' = [sockets EXCEPT ![s] = "closing"]
    /\ UNCHANGED <<page, ws, isConnected, reconnectAttempts, timers, endedNormally, sendVars>>
    /\ PageUnchanged

\* A socket that never opened has no other code than "abnormal closure".
Closed(s, code) ==
    /\ \/ sockets[s] = "connecting" /\ code = "other"
       \/ sockets[s] = "closing"
    /\ sockets' = [sockets EXCEPT ![s] = "none"]
    /\ first' = [first EXCEPT ![s] = "nothing"]
    /\ endedNormally' = (code = "normal")
    /\ isConnected' = FALSE
    /\ UNCHANGED <<commandQueue, log>>
    /\ PageUnchanged

\* Mutant of ScheduleReconnect: one attempt too many.
ScheduleReconnectOnceMore ==
    IF reconnectAttempts <= maxReconnectAttempts
    THEN timers' = timers + 1 /\ reconnectAttempts' = reconnectAttempts + 1
    ELSE UNCHANGED <<timers, reconnectAttempts>>

\* Mutant of ScheduleReconnect: onerror, which precedes onclose, schedules one too.
ScheduleReconnectTwice ==
    IF reconnectAttempts + 1 < maxReconnectAttempts
    THEN timers' = timers + 2 /\ reconnectAttempts' = reconnectAttempts + 2
    ELSE UNCHANGED <<timers, reconnectAttempts>>

\* What onclose does but for two codes.
ScheduleReconnect ==
    IF reconnectAttempts < maxReconnectAttempts
    THEN timers' = timers + 1 /\ reconnectAttempts' = reconnectAttempts + 1
    ELSE UNCHANGED <<timers, reconnectAttempts>>

\* onclose, after a failure with onerror before it.
SocketCloses(s) ==
    /\ \/ Closed(s, "normal") /\ UNCHANGED <<timers, reconnectAttempts>>
       \/ Closed(s, "other") /\ ScheduleReconnect
    /\ UNCHANGED <<page, ws>>

\* handleUnauthorized goes to another page, which fires beforeunload as well.
SocketIsRefused(s) ==
    /\ Closed(s, "unauthorized")
    /\ page' = IF page = "open" THEN "leaving" ELSE page
    /\ ws' = NoSocket
    /\ reconnectAttempts' = 0
    /\ UNCHANGED timers

\* Mutant of TimerFires: it takes the flag the other way round.
TimerFiresConnected ==
    /\ timers > 0
    /\ timers' = timers - 1
    /\ \/ ~isConnected /\ UNCHANGED <<sockets, ws>>
       \/ /\ isConnected
          /\ \E s \in Sockets :
                /\ sockets[s] = "none"
                /\ sockets' = [sockets EXCEPT ![s] = "connecting"]
                /\ ws' = s
    /\ UNCHANGED <<page, isConnected, reconnectAttempts, endedNormally, sendVars>>
    /\ PageUnchanged

\* The timer of scheduleReconnect, which calls initWebSocket.
TimerFires ==
    /\ timers > 0
    /\ timers' = timers - 1
    /\ \/ isConnected /\ UNCHANGED <<sockets, ws>>
       \/ /\ ~isConnected
          /\ \E s \in Sockets :
                /\ sockets[s] = "none"
                /\ sockets' = [sockets EXCEPT ![s] = "connecting"]
                /\ ws' = s
    /\ UNCHANGED <<page, isConnected, reconnectAttempts, endedNormally, sendVars>>
    /\ PageUnchanged

\* beforeunload: cleanup, which is disconnect.  The timer is left alone, and
\* close is called without a code.
Leave ==
    /\ page = "open"
    /\ page' = "leaving"
    /\ sockets' = [s \in Sockets |->
          IF s = ws /\ sockets[s] \in {"connecting", "open"} THEN "closing" ELSE sockets[s]]
    /\ ws' = NoSocket
    /\ isConnected' = FALSE
    /\ reconnectAttempts' = 0
    /\ UNCHANGED <<timers, endedNormally, sendVars>>
    /\ PageUnchanged

\* The next page replaces this one, which may take any time.
Unload ==
    /\ page = "leaving"
    /\ page' = "gone"
    /\ UNCHANGED <<sockets, ws, isConnected, reconnectAttempts, timers, endedNormally, sendVars>>
    /\ PageUnchanged

Connection ==
    \/ \E s \in Sockets : SocketOpens(s) \/ SocketFails(s) \/ SocketCloses(s) \/ SocketIsRefused(s)
    \/ TimerFires
    \/ Leave
    \/ Unload

-----------------------------------------------------------------------------
(***************************************************************************)
(* Events                                                                  *)
(***************************************************************************)

\* onmessage awaits the bytes.  The server sends nothing before the handshake.
MessageArrives(evt) ==
    /\ \E s \in Sockets : sockets[s] = "open" /\ first[s] = "handshake"
    /\ Cardinality(decoding) < MaxDecoding
    /\ decoding' = decoding \union {evt}
    /\ UNCHANGED <<connectionVars, sendVars, issued, last, dashboardVars>>

\* updateDestinationsTable.  A Stop button is as enabled as it was.
Drawn(state) ==
    IF state.dest = "absent" THEN NoRow
    ELSE IF state.dest = "started" THEN [button |-> "stop", disabled |-> row.disabled]
    ELSE [button |-> "start", disabled |-> state.dest = "idle"]

HandleState(state) ==
    /\ startState' = CASE state.dest = "absent" -> startState
                       [] state.dest = "started" -> "started"
                       [] OTHER -> "idle"
    /\ row' = Drawn(state)

\* The table is not drawn again.
HandleExit ==
    /\ startState' = IF startState = "none" THEN "none" ELSE "idle"
    /\ UNCHANGED row

\* closeDestinationModal, whoever saved and whatever is being filled in.
HandleSaved == dialog' = IF dialog \in Forms THEN "none" ELSE dialog

\* Reading the bytes of one message may take longer than those of a later one.
HandleEvent(evt) ==
    /\ evt \in decoding
    /\ decoding' = decoding \ {evt}
    /\ \/ evt \in States /\ HandleState(evt) /\ UNCHANGED dialog
       \/ evt.type = "exited" /\ HandleExit /\ UNCHANGED dialog
       \/ evt.type = "saved" /\ HandleSaved /\ UNCHANGED <<startState, row>>
    /\ UNCHANGED <<connectionVars, sendVars, issued, last>>

-----------------------------------------------------------------------------
(***************************************************************************)
(* The user.  An open dialog covers the buttons.                           *)
(***************************************************************************)

\* A button of the row is clicked.
RowIsClicked == dialog = "none" /\ row.button # "none"

ClickStart ==
    /\ RowIsClicked
    /\ row.button = "start" /\ ~row.disabled
    /\ startState # "started"
    /\ Issue("start")
    /\ UNCHANGED <<connectionVars, decoding, dashboardVars>>

ClickStop ==
    /\ RowIsClicked
    /\ row.button = "stop" /\ ~row.disabled
    /\ startState = "started"
    /\ Issue("stop")
    /\ UNCHANGED <<connectionVars, decoding, dashboardVars>>

\* removeDestination asks, and remembers whether the destination was started.
ClickRemove ==
    /\ RowIsClicked
    /\ dialog' = IF startState = "started" THEN "live" ELSE "plain"
    /\ UNCHANGED <<connectionVars, sendVars, issued, last, decoding, startState, row>>

\* Mutant of Confirm: it looks again whether the destination is started.
ConfirmAnew ==
    /\ dialog \in Questions
    /\ dialog' = "none"
    /\ Issue(IF startState = "started" THEN "force" ELSE "remove")
    /\ UNCHANGED <<connectionVars, decoding, startState, row>>

Confirm ==
    /\ dialog \in Questions
    /\ dialog' = "none"
    /\ Issue(IF dialog = "live" THEN "force" ELSE "remove")
    /\ UNCHANGED <<connectionVars, decoding, startState, row>>

\* The edit button is disabled in the row of a destination that is started.
OpenForm(form) ==
    /\ dialog = "none"
    /\ form = "edit" => RowIsClicked /\ row.button = "start"
    /\ dialog' = form
    /\ UNCHANGED <<connectionVars, sendVars, issued, last, decoding, startState, row>>

\* saveDestination.  An event closes the form: until then it can be saved again.
Save ==
    /\ \/ dialog = "add" /\ Issue("add")
       \/ dialog = "edit" /\ startState = "idle" /\ Issue("update")
    /\ UNCHANGED <<connectionVars, decoding, dashboardVars>>

Cancel ==
    /\ dialog # "none"
    /\ dialog' = "none"
    /\ UNCHANGED <<connectionVars, sendVars, issued, last, decoding, startState, row>>

User ==
    \/ ClickStart \/ ClickStop \/ ClickRemove
    \/ Confirm \/ Save \/ Cancel
    \/ \E form \in Forms : OpenForm(form)

-----------------------------------------------------------------------------
Next ==
    /\ page # "gone"
    /\ \/ Connection
       \/ \E evt \in Events : MessageArrives(evt) \/ HandleEvent(evt)
       \/ User

Spec == Init /\ [][Next]_vars

\* An attempt to connect succeeds or fails, a socket that closes is closed, a
\* timer fires: all of it in the end.  Servers, users and the next page take
\* any time.
FairSpec ==
    /\ Spec
    /\ \A s \in Sockets :
          WF_vars(page # "gone" /\ (SocketOpens(s) \/ SocketCloses(s) \/ SocketIsRefused(s)))
    /\ WF_vars(page # "gone" /\ TimerFires)

-----------------------------------------------------------------------------
(***************************************************************************)
(* Properties                                                              *)
(***************************************************************************)

\* The proxy dispatches a command that precedes the handshake, but registers
\* the browser on the bus only with the handshake: what became of the command
\* would be told to nobody.  Whatever was queued, a socket carries the handshake
\* first.
HandshakeFirst ==
    \A s \in Sockets : sockets[s] = "open" => first[s] = "handshake"

\* There is one connection or one attempt at it, never two: onerror and
\* onclose of one failure, and the timer, start no second one.  Two
\* connections would both deliver events and both be reconnected.
OneAttempt ==
    /\ \A s, t \in Sockets : sockets[s] # "none" /\ sockets[t] # "none" => s = t
    /\ timers <= 1
    /\ timers = 1 => \A s \in Sockets : sockets[s] = "none"

\* Over any number of connections, commands are sent in the order in which
\* the user gave them, and none twice; those that wait come after those sent.
CommandsInOrder ==
    LET commands == log \o commandQueue
    IN  \A i, j \in 1 .. Len(commands) : i < j => commands[i] < commands[j]

\* The communicator implements CommandOutbox: whatever becomes of connections,
\* no command overtakes one that waits, and a connection that is made takes
\* along all that wait.
Outbox == INSTANCE CommandOutbox WITH given <- issued, waiting <- commandQueue, sent <- log

ImplementsOutbox == Outbox!Spec

\* A destination is removed by force only if the user was told that it is
\* live, whatever was reported while the dialog was open.
RemovalAsConfirmed ==
    [][issued' # issued /\ last' \in {"remove", "force"} =>
          dialog = IF last' = "force" THEN "live" ELSE "plain"]_vars

\* The communicator no longer tries: all its attempts have failed, the last one
\* too, or the server ended the connection in good order.
GaveUp ==
    /\ reconnectAttempts = maxReconnectAttempts \/ endedNormally
    /\ timers = 0
    /\ \A s \in Sockets : sockets[s] = "none"

\* A connection that was lost comes back, and with it every command that was
\* given meanwhile leaves the queue, unless the communicator gives up.
KeepsTrying ==
    (~isConnected \/ commandQueue # << >>) ~>
        ((isConnected /\ commandQueue = << >>) \/ GaveUp \/ page # "open")
===============================================================================
