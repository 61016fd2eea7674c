--------------------------- MODULE TerminalClient ---------------------------
(***************************************************************************)
(* The terminal user interface, internal/terminal/terminal.go, inside the  *)
(* client that runs it, internal/client/clientapp.go Run: the receive loop *)
(* sends the server's events to the client's bus, ui.Run queues a handler  *)
(* for each on tview's loop and waits for it, and that loop runs handlers  *)
(* and keys on one stack of pages, one focus and a table of destinations.  *)
(*                                                                         *)
(* tview and the server are external: a page added, removed, shown or      *)
(* hidden hands the focus to the front page, SetFocus(destView) to the     *)
(* table, and the server sends its state after each change and each second.*)
(* Which row is selected is left out: a key acts on some row.  So is the   *)
(* media server's own container, whose pull shows the page that a pull of  *)
(* a destination's container shows.                                        *)
(***************************************************************************)
EXTENDS Naturals, Sequences, SequencesExt

CONSTANTS
    Destinations,   \* the IDs of destinations
    None,           \* no destination
    StreamSize,     \* events between the server's bus and the receive loop
    BusSize,        \* events in the channel of ui.Run
    MaxChanges      \* commands, changes of the server and its messages

ASSUME TerminalClientAssumption ==
    /\ None \notin Destinations
    /\ StreamSize \in Nat \ {0}
    /\ BusSize \in Nat \ {0}
    /\ MaxChanges \in Nat

VARIABLES
    server,     \* external: its destinations, their containers, and which of
                \* them this client started
    connected,  \* the stream of the session is open
    commands,   \* commands the stream carries to the server
    stream,     \* events it carries to the client
    receiving,  \* the receive loop runs
    cancelled,  \* the errgroup's context is
    run,        \* the goroutine of ui.Run, and the event it queued on the loop
    eventC,     \* its channel on the client's bus
    loop,       \* tview's loop runs
    halfClosed, \* the client has closed its direction of the stream
    ui,         \* what the loop's handlers keep
    changes     \* how much of MaxChanges is used

client == <<receiving, cancelled, run, eventC, loop, halfClosed>>
vars == <<server, connected, commands, stream, client, ui, changes>>

\* preparing: pulling, of which no progress is known yet.
Containers == {"none", "preparing", "pulling", "running"}
StartStates == {"not started", "starting", "started"}
Forms == {"add destination", "update destination"}
Modals == Forms \union
    {"pull progress", "quit", "notice", "remove destination", "config failed", "start failed",
     "destination error", "startup check", "fatal error"}

Lists == {s \in SeqOf(Destinations, 2) : IsInjective(s)}
Kinds == {"state", "added", "updated", "removed", "config failed", "start failed",
          "stream exited", "other instance", "fatal error"}

\* An event: the destinations and containers are of kind "state", the
\* destination of kind "stream exited".
Event(kind) == [kind |-> kind, list |-> <<>>, containers |-> [d \in Destinations |-> "none"],
                of |-> None]
State(s) == [Event("state") EXCEPT !.list = s.list, !.containers = s.containers]
StreamExited(d) == [Event("stream exited") EXCEPT !.of = d]

Servers == [list : Seq(Destinations), containers : [Destinations -> Containers],
            runs : SUBSET Destinations]
Commands == [kind : {"add", "update", "remove", "start", "stop", "close other", "kill"},
             of : Destinations \union {None}]
Events == [kind : Kinds, list : Seq(Destinations), containers : [Destinations -> Containers],
           of : Destinations \union {None}]
Screens == [pages : Seq(Modals), overlay : BOOLEAN,
            focus : Modals \union {"table", "main", "no destinations"},
            addingDestination : BOOLEAN, hasDestinations : BOOLEAN, rows : Seq(Destinations),
            startState : [Destinations -> StartStates], target : Destinations \union {None}]

\* One form for a new destination is open exactly while addingDestination is
\* set, and no page but the error of a stream is open twice.
ScreenOK(u) ==
    /\ u \in Screens
    /\ u.focus \in Range(u.pages) \union {"table", "main", "no destinations"}
    /\ u.addingDestination <=> "add destination" \in Range(u.pages)
    /\ \A i, j \in DOMAIN u.pages :
        (i # j /\ u.pages[i] = u.pages[j]) => u.pages[i] = "destination error"

TypeOK ==
    /\ server \in Servers
    /\ connected \in BOOLEAN
    /\ commands \in Seq(Commands)
    /\ stream \in Seq(Events) /\ Len(stream) <= StreamSize
    /\ receiving \in BOOLEAN /\ cancelled \in BOOLEAN
    /\ run \in [at : {"starting", "select", "queued", "returned"}, event : Events \union {None}]
    /\ run.at = "queued" => run.event \in Events
    /\ eventC \in Seq(Events) /\ Len(eventC) <= BusSize
    /\ loop \in {"not started", "running", "ended"}
    /\ halfClosed \in BOOLEAN
    /\ ScreenOK(ui)
    /\ changes \in 0..MaxChanges

\* NewUI; the session is open and its handshake done.
Init ==
    /\ server \in {[list |-> l, containers |-> [d \in Destinations |-> "none"], runs |-> {}] :
                    l \in Lists}
    /\ connected = TRUE
    /\ commands = <<>> /\ stream = <<>> /\ eventC = <<>>
    /\ receiving = TRUE /\ cancelled = FALSE
    /\ run = [at |-> "starting", event |-> None]
    /\ loop = "not started"
    /\ halfClosed = FALSE
    /\ ui = [pages |-> <<>>, overlay |-> FALSE, focus |-> "table", addingDestination |-> FALSE,
             hasDestinations |-> FALSE, rows |-> <<>>,
             startState |-> [d \in Destinations |-> "not started"], target |-> None]
    /\ changes = 0

----------------------------------------------------------------------------
\* The pages of tview, above the page of the table.

FrontPage(u) ==
    IF u.pages # <<>> THEN Last(u.pages) ELSE IF u.overlay THEN "no destinations" ELSE "main"
HasPage(u, p) == p \in Range(u.pages)
modalVisible(u) == u.pages # <<>>

Refocused(u) == [u EXCEPT !.focus = FrontPage(u)]
FocusTable(u) == [u EXCEPT !.focus = "table"]
AddPage(u, p) == Refocused([u EXCEPT !.pages = Append(@, p)])
RemovePage(u, p) == Refocused([u EXCEPT !.pages = Reverse(RemoveFirst(Reverse(@), p))])
ShowNoDestinations(u) == Refocused([u EXCEPT !.overlay = TRUE])
HideNoDestinations(u) == Refocused([u EXCEPT !.overlay = FALSE])

\* (Mutant: the table gets the focus under an open page.)
SelectUnchecked(u) == FocusTable(u)

\* selectPreviousDestination and selectLastDestination.
Select(u) == IF modalVisible(u) THEN u ELSE FocusTable(u)

showModal(u, p) == IF HasPage(u, p) /\ p # "destination error" THEN u ELSE AddPage(u, p)
hideModal(u, p) == IF HasPage(u, p) THEN FocusTable(RemovePage(u, p)) ELSE u

\* (Mutant: addingDestination is not reset.)
closeAddFormOnly(u) ==
    LET v == RemovePage(u, "add destination") IN
    IF u.hasDestinations THEN v ELSE ShowNoDestinations(v)

closeAddDestinationForm(u) ==
    LET v == RemovePage([u EXCEPT !.addingDestination = FALSE], "add destination") IN
    IF u.hasDestinations THEN v ELSE ShowNoDestinations(v)

closeUpdateDestinationForm(u) ==
    LET v == RemovePage(u, "update destination") IN
    IF HasPage(u, "update destination") THEN [v EXCEPT !.target = None] ELSE v

----------------------------------------------------------------------------
\* The handlers of events.

StartStateOf(container) ==
    CASE container \in {"preparing", "pulling"} -> "starting"
      [] container = "running" -> "started"
      [] OTHER -> "not started"

\* It shows a pull that has made progress.
updatePullProgress(u, e) ==
    IF \A d \in Range(e.list) : e.containers[d] # "pulling" THEN hideModal(u, "pull progress")
    ELSE IF HasPage(u, "pull progress") THEN u
    ELSE AddPage(u, "pull progress")

\* (Mutant: only the table is redrawn.)
redrawTable(u, e) == [u EXCEPT !.rows = e.list]

redrawFromState(u, e) ==
    LET v == IF e.list = <<>> /\ ~u.addingDestination THEN ShowNoDestinations(u) ELSE u
    IN [v EXCEPT !.rows = e.list]

handleAppStateChanged(u, e) ==
    LET v == updatePullProgress(u, e) IN
    redrawFromState([v EXCEPT
        !.startState = [d \in Destinations |->
                        IF d \in Range(e.list) THEN StartStateOf(e.containers[d]) ELSE @[d]],
        !.hasDestinations = e.list # <<>>], e)

handleDestinationAdded(u) ==
    Select(closeAddDestinationForm(HideNoDestinations([u EXCEPT !.hasDestinations = TRUE])))

handleDestinationUpdated(u) == Select(closeUpdateDestinationForm(u))

\* The start states of destinations no state has shown are not kept; they
\* read as not started.
handleDestinationStreamExited(u, e) ==
    showModal([u EXCEPT !.startState[e.of] = "not started"], "destination error")

Handle(u, e) ==
    CASE e.kind = "state" -> handleAppStateChanged(u, e)
      [] e.kind = "added" -> handleDestinationAdded(u)
      [] e.kind = "updated" -> handleDestinationUpdated(u)
      [] e.kind = "removed" -> Select(u)
      [] e.kind = "config failed" -> showModal(u, "config failed")
      [] e.kind = "start failed" -> showModal(u, "start failed")
      [] e.kind = "stream exited" -> handleDestinationStreamExited(u, e)
      [] e.kind = "other instance" -> showModal(u, "startup check")
      [] e.kind = "fatal error" -> showModal(u, "fatal error")

----------------------------------------------------------------------------
\* Keys, which tview's loop handles between the handlers above.

Change == changes < MaxChanges /\ changes' = changes + 1

\* The dispatcher sends on the stream, and only logs that it cannot.
Dispatch(kind, d) ==
    /\ Change
    /\ commands' = IF connected /\ ~halfClosed THEN Append(commands, [kind |-> kind, of |-> d]) ELSE commands

Key == loop = "running"
NoDispatch == UNCHANGED <<commands, changes>>
OfUI == UNCHANGED <<server, connected, stream, client>>

\* Keys of inputCaptureHandler: they do nothing while a modal is visible.
PressAdd ==
    /\ Key /\ ~modalVisible(ui)
    /\ ui' = AddPage(HideNoDestinations([ui EXCEPT !.addingDestination = TRUE]), "add destination")
    /\ NoDispatch /\ OfUI

PressUpdate(d) ==
    /\ Key /\ ~modalVisible(ui) /\ d \in Range(ui.rows)
    /\ ui' = IF ui.startState[d] # "not started" THEN showModal(ui, "notice")
             ELSE AddPage([ui EXCEPT !.target = d], "update destination")
    /\ NoDispatch /\ OfUI

PressRemove(d) ==
    /\ Key /\ ~modalVisible(ui) /\ d \in Range(ui.rows)
    /\ ui' = showModal([ui EXCEPT !.target = d], "remove destination")
    /\ NoDispatch /\ OfUI

Toggle(d) ==
    /\ Key /\ ~modalVisible(ui) /\ d \in Range(ui.rows)
    /\ \/ ui.startState[d] = "not started"
          /\ ui' = [ui EXCEPT !.startState[d] = "starting"] /\ Dispatch("start", d)
       \/ ui.startState[d] = "started" /\ UNCHANGED ui /\ Dispatch("stop", d)
    /\ OfUI

\* About, and the URLs of the source with what became of the clipboard.
PressNotice ==
    /\ Key /\ ~modalVisible(ui)
    /\ ui' = showModal(ui, "notice")
    /\ NoDispatch /\ OfUI

\* Also while a modal is visible.
PressCtrlC ==
    /\ Key
    /\ ui' = showModal(ui, "quit")
    /\ NoDispatch /\ OfUI

\* The buttons of the forms; the form stays until the server has answered.
SubmitForm ==
    /\ Key
    /\ \/ ui.focus = "add destination" /\ Dispatch("add", None)
       \/ ui.focus = "update destination" /\ Dispatch("update", ui.target)
    /\ UNCHANGED ui /\ OfUI

CancelForm ==
    /\ Key
    /\ \/ ui.focus = "add destination" /\ ui' = Select(closeAddDestinationForm(ui))
       \/ ui.focus = "update destination" /\ ui' = Select(closeUpdateDestinationForm(ui))
    /\ NoDispatch /\ OfUI

\* The button of a modal: it closes, and its own function runs in between.
\* The modal of the pull has no button.
Closed(p) == Select([RemovePage(ui, p) EXCEPT !.target = IF p = "remove destination" THEN None ELSE @])

Dismiss ==
    /\ Key
    /\ ui.focus \in {"notice", "remove destination", "config failed", "start failed",
                     "destination error", "quit"}
    /\ ui' = Closed(ui.focus)
    /\ NoDispatch /\ OfUI

ConfirmRemove ==
    /\ Key /\ ui.focus = "remove destination"
    /\ ui' = Closed(ui.focus)
    /\ Dispatch("remove", ui.target)
    /\ OfUI

\* Escape and Exit end the server, Continue closes the other instance.
AnswerStartupCheck ==
    /\ Key /\ ui.focus = "startup check"
    /\ ui' = Closed(ui.focus)
    /\ Dispatch("close other", None) \/ Dispatch("kill", None)
    /\ OfUI

AnswerFatalError ==
    /\ Key /\ ui.focus = "fatal error"
    /\ ui' = Closed(ui.focus)
    /\ Dispatch("kill", None)
    /\ OfUI

\* app.Stop: the loop ends after this key, whatever is queued on it.
ConfirmQuit ==
    /\ Key /\ ui.focus = "quit"
    /\ ui' = Closed(ui.focus)
    /\ loop' = "ended"
    /\ UNCHANGED <<server, connected, commands, stream, receiving, cancelled, run, eventC,
                   halfClosed, changes>>

----------------------------------------------------------------------------
\* The goroutines of the client.

\* tview's loop starts, or fails at once.
RunRegisters ==
    /\ run.at = "starting"
    /\ run' = [run EXCEPT !.at = "select"] /\ loop' \in {"running", "ended"}
    /\ UNCHANGED <<server, connected, commands, stream, receiving, cancelled, eventC, ui,
                   halfClosed, changes>>

\* Bus.Send does not wait: nobody is registered, or the channel is full.
Receive ==
    /\ receiving /\ stream # <<>>
    /\ eventC' = IF run.at \in {"select", "queued"} /\ Len(eventC) < BusSize
                 THEN Append(eventC, Head(stream)) ELSE eventC
    /\ stream' = Tail(stream)
    /\ UNCHANGED <<server, connected, commands, receiving, cancelled, run, loop, ui, halfClosed,
                   changes>>

ReceiveFails ==
    /\ receiving /\ ~connected
    /\ receiving' = FALSE /\ cancelled' = TRUE
    /\ stream' = <<>>
    /\ UNCHANGED <<server, connected, commands, run, eventC, loop, ui, halfClosed,
                   changes>>

\* QueueUpdateDraw ...
RunQueues ==
    /\ run.at = "select" /\ eventC # <<>>
    /\ run' = [at |-> "queued", event |-> Head(eventC)]
    /\ eventC' = Tail(eventC)
    /\ UNCHANGED <<server, connected, commands, stream, receiving, cancelled, loop, ui,
                   halfClosed, changes>>

\* ... returns when the loop has run the function.
LoopRuns ==
    /\ loop = "running" /\ run.at = "queued"
    /\ ui' = Handle(ui, run.event)
    /\ run' = [at |-> "select", event |-> None]
    /\ UNCHANGED <<server, connected, commands, stream, receiving, cancelled, eventC, loop,
                   halfClosed, changes>>

\* (Mutant: only the end of the loop is waited for.)
RunReturnsAtQuit ==
    /\ run.at = "select" /\ loop = "ended"
    /\ run' = [run EXCEPT !.at = "returned"]
    /\ eventC' = <<>> /\ cancelled' = TRUE
    /\ UNCHANGED <<server, connected, commands, stream, receiving, loop, ui, halfClosed,
                   changes>>

RunReturns ==
    /\ run.at = "select" /\ (cancelled \/ loop = "ended")
    /\ run' = [run EXCEPT !.at = "returned"]
    /\ eventC' = <<>> /\ cancelled' = TRUE
    /\ UNCHANGED <<server, connected, commands, stream, receiving, loop, ui, halfClosed,
                   changes>>

\* The caller of App.Run cancels its context.
Interrupt ==
    /\ ~cancelled
    /\ cancelled' = TRUE
    /\ UNCHANGED <<server, connected, commands, stream, receiving, run, eventC, loop, ui,
                   halfClosed, changes>>

\* The goroutine that waits for the context closes the client's direction of
\* the stream; the receive loop goes on until the server has closed the other.
CloseRequest ==
    /\ cancelled /\ ~halfClosed
    /\ halfClosed' = TRUE
    /\ UNCHANGED <<server, connected, commands, stream, receiving, cancelled, run, eventC, loop,
                   ui, changes>>

\* App.Run returns when its goroutines have.
Returned == run.at = "returned" /\ ~receiving /\ halfClosed

\* Its deferred call.
CloseUI ==
    /\ Returned /\ loop = "running"
    /\ loop' = "ended"
    /\ UNCHANGED <<server, connected, commands, stream, receiving, cancelled, run, eventC, ui,
                   halfClosed, changes>>

----------------------------------------------------------------------------
\* The server and its other clients.

\* What the server's bus delivers of es: it drops what does not fit.
Emit(es) == stream' = SubSeq(stream \o es, 1, Min({StreamSize, Len(stream \o es)}))

\* A change of the configuration: the state is sent before its event.
Changed(s, kind) == server' = s /\ Emit(<<State(s), Event(kind)>>)

Adds ==
    \E d \in Destinations \ Range(server.list) :
        Changed([server EXCEPT !.list = Append(@, d)], "added")
Updates(d) == d \in Range(server.list) /\ Changed(server, "updated")
Removes(d) ==
    /\ d \in Range(server.list)
    /\ Changed([server EXCEPT !.list = RemoveFirst(@, d), !.containers[d] = "none"], "removed")

Answers(kind) == UNCHANGED server /\ Emit(<<Event(kind)>>)
Silent == UNCHANGED <<server, stream>>

ServerHandles ==
    /\ connected /\ commands # <<>>
    /\ commands' = Tail(commands)
    /\ LET c == Head(commands) IN
       /\ CASE c.kind = "add" -> Adds \/ Answers("config failed")
            [] c.kind = "update" -> Updates(c.of) \/ Answers("config failed")
            [] c.kind = "remove" -> Removes(c.of) \/ Answers("config failed")
            [] c.kind = "start" ->
                \/ Answers("start failed")
                \/ c.of \in Range(server.list)
                   /\ server' = [server EXCEPT !.runs = @ \union {c.of}] /\ UNCHANGED stream
            [] OTHER -> Silent
       /\ connected' = (c.kind # "kill")
    /\ UNCHANGED <<client, ui, changes>>

OtherClientChanges ==
    /\ connected /\ Change
    /\ Adds \/ \E d \in Destinations : Updates(d) \/ Removes(d)
    /\ UNCHANGED <<connected, commands, client, ui>>

ContainerChanges(d) ==
    /\ connected /\ Change /\ d \in Range(server.list)
    /\ \E c \in Containers \ {server.containers[d]} :
        server' = [server EXCEPT !.containers[d] = c]
    /\ Emit(<<State(server')>>)
    /\ UNCHANGED <<connected, commands, client, ui>>

\* The watcher of a run tells the client that started it.
StreamEnds(d) ==
    /\ connected /\ Change /\ d \in server.runs
    /\ server' = [server EXCEPT !.runs = @ \ {d}]
    /\ Emit(<<StreamExited(d)>>)
    /\ UNCHANGED <<connected, commands, client, ui>>

ServerWarns ==
    /\ connected /\ Change
    /\ \E kind \in {"other instance", "fatal error"} : Answers(kind)
    /\ UNCHANGED <<connected, commands, client, ui>>

\* Communicate returns when it has dispatched what was sent.
ServerEnds ==
    /\ connected /\ halfClosed /\ commands = <<>>
    /\ connected' = FALSE
    /\ UNCHANGED <<server, commands, stream, client, ui, changes>>

\* (Bound) a tick waits until what was sent before is received.
Tick ==
    /\ connected /\ stream = <<>>
    /\ Emit(<<State(server)>>)
    /\ UNCHANGED <<server, connected, commands, client, ui, changes>>

Disconnect ==
    /\ connected
    /\ connected' = FALSE /\ commands' = <<>>
    /\ UNCHANGED <<server, stream, client, ui, changes>>

----------------------------------------------------------------------------
Keys ==
    \/ PressAdd \/ PressNotice \/ PressCtrlC \/ SubmitForm \/ CancelForm \/ Dismiss
    \/ ConfirmRemove \/ AnswerStartupCheck \/ AnswerFatalError \/ ConfirmQuit
    \/ \E d \in Destinations : PressUpdate(d) \/ PressRemove(d) \/ Toggle(d)

Goroutines ==
    \/ RunRegisters \/ Receive \/ ReceiveFails \/ RunQueues \/ LoopRuns \/ RunReturns
    \/ CloseRequest \/ CloseUI

Server ==
    \/ ServerHandles \/ ServerEnds \/ OtherClientChanges \/ ServerWarns \/ Tick
    \/ \E d \in Destinations : ContainerChanges(d) \/ StreamEnds(d)

Next == Keys \/ Goroutines \/ Server \/ Interrupt \/ Disconnect

Spec == Init /\ [][Next]_vars

\* Each goroutine runs, the server handles commands, ends a session that its
\* client has closed, and its ticker ticks; nobody has to press a key.
Fairness ==
    /\ WF_vars(RunRegisters) /\ WF_vars(Receive) /\ WF_vars(ReceiveFails)
    /\ WF_vars(RunQueues) /\ WF_vars(LoopRuns) /\ WF_vars(RunReturns)
    /\ WF_vars(CloseRequest) /\ WF_vars(CloseUI)
    /\ WF_vars(ServerHandles) /\ WF_vars(ServerEnds) /\ WF_vars(Tick)

FairSpec == Spec /\ Fairness

----------------------------------------------------------------------------
\* The front page has the focus, so that the keys of the user reach the form
\* or the modal he sees: no step takes it away but hideModal, when the pull it
\* showed is over, which gives it to the table under whatever is open.
HasFocus(u) == modalVisible(u) => u.focus = FrontPage(u)

FocusFollowsFront ==
    [][HasFocus(ui) => HasFocus(ui') \/ (HasPage(ui, "pull progress") /\ ~HasPage(ui', "pull progress"))]_vars

\* ui.Run waits for a function that tview's loop will never run.
Stuck == run.at = "queued" /\ loop = "ended"

\* What the table, the start states and the page "no destinations" show comes
\* to agree with the server for good, once it does not change any more and
\* while the client runs: a dropped event is made up for by a later state.
Agrees ==
    /\ ui.rows = server.list
    /\ (server.list = <<>> /\ ~ui.addingDestination) => ui.overlay
    /\ \A d \in Range(server.list) : ui.startState[d] = StartStateOf(server.containers[d])

ShowsServer == <>[](Agrees \/ ~connected \/ cancelled \/ loop = "ended")

\* A client that has lost its session, or whose context is cancelled, ends for
\* good, unless the loop ended with a function queued on it.
ClientEnds == <>[]((~connected \/ cancelled) => (Returned \/ Stuck))
=============================================================================
