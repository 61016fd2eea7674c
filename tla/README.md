# Octoplex in TLA+

Octoplex restreams one live source to many destinations. A server process runs a
MediaMTX container that receives the source and one FFmpeg container for every
destination that is started; clients (a terminal user interface, one-shot
commands, a web page) show its state and send it commands over gRPC. This
directory holds a TLA+ model of the server's concurrent core, of its credentials and web
sessions, of the terminal client, of browsers' connections and of the web page at their
other end, TLC configurations that check it on small instances, and TLAPS proofs of its
main safety properties for every value of the constants.

Contents: [inventory](#inventory) · [modules](#modules-and-how-they-correspond-to-the-code) ·
[runs](#runs) · [bounds](#bounds) · [fairness](#fairness) · [proofs](#proofs) ·
[only model-checked](#only-model-checked) · [not modelled](#not-modelled) · [plan](#plan)

To check everything by hand, from this directory:

    tlc -workers 2 -config Destinations.cfg MCDestinations.tla   # likewise the other .cfg files
    tlapm Destinations_proofs.tla                                # likewise the other *_proofs modules

## Inventory

Paths are relative to the repository's root. The state named is the state a component
keeps between two calls or messages.

| Component | Code | State | Operations | Hard behaviour | What makes it correct |
|---|---|---|---|---|---|
| App loop (`App.Run`, `handleCommand`) | `internal/server/serverapp.go` | `AppState`, the client count, `dispatchC`, `startMediaServerC` | startup check, start of the media server, every command, status reports, fatal errors | one goroutine reads six channels and also *writes* to two that others, or only itself, read; statuses in `AppState` are stale by one report | commands answer and never wedge the loop; what is shown is what is stored; it does not leave over a user's head; closing another instance leaves this one alone |
| File store | `internal/store/filestore.go` | `state.json`, the list in memory | `New`, `Get`, `Set` | `Get` shares its slice with the store; `os.WriteFile` is not atomic | a change that is stored is what a restart restores; one that is refused changes nothing that clients see |
| Token store | `internal/store/tokenstore.go` | three files: API token, admin password, session token | `Get`, `Put`, `Delete` | no lock is held over two calls; another process may reset the files; `os.WriteFile` is not atomic | what is printed is what is stored |
| Replicator | `internal/replicator/replicator.go` | `currURLs`, one `destLoop` per run, `actorC`, `stateC` | `StartDestination`, `StopDestination`, `Close` | an actor whose calls block while others wait for it; a stop that races the preparation of a container; status and error channels read in any order | a URL is freed whenever its run ends; one run per URL; calls return; a stop ends the run |
| Container client | `internal/container/*.go` | cancel functions per container, a wait group | `RunContainer`, `RemoveContainers`, `Close`, pulls, events, statistics, logs | four goroutines per container; a container that exits between two calls; restart policy | the error channel is closed when the container is gone for good; every goroutine ends when the context does |
| Media server actor | `internal/mediaserver/actor.go` | its `State`, the API's health and tracks | `Start`, actor loop, `Close` | timers, a polled HTTP API whose calls have no timeout, and container events in one loop | `Live` follows the stream; the exit of the container is reported once |
| Event bus | `internal/event/bus.go` | registered consumers and their channels | `Register`, `Deregister`, `Send`, `SendTo` | sends drop when a channel is full; registration races sends | a slow consumer never holds up a sender |
| gRPC sessions | `internal/server/grpc.go` | `clientCount`, `clientC`, per session: registration and two goroutines | `Communicate`, `WaitForClient`, unary calls | a session is announced, then registered, then counted; either goroutine may end first | a client that is gone is forgotten; a call is answered |
| WebSocket proxy, web server | `internal/server/websocket_proxy.go`, `web.go` | per connection: handshake state, an event channel, three goroutines | `ServeHTTP`, reader, writer, `processMessages` | handshake timeout; a full event channel with its reader gone | every connection ends all its goroutines |
| Authentication | `internal/server/auth.go`, `web.go`, `internal/token/` | the credentials mode of the process; everything else is in the token store | the decision at the start, login, checks, refresh, logout, `server credentials reset` | check, read and write of a session are separate steps; the mode follows from what earlier starts left behind as well as from the flags; a reset is five calls of another process | a session that ended is not revived; authentication once required stays required |
| Client | `internal/client/clientapp.go` | its own bus, the stream | `Run`: handshake, receive loop, dispatcher, the goroutine that closes the stream | its UI registers on the bus after the receive loop was started; three goroutines and tview's loop end in any order | what the server shows reaches the user; a client without a session ends |
| Terminal user interface | `internal/terminal/terminal.go` | the stack of pages, the focus, the table, a start state per destination, `addingDestination` | keys, modals, forms, a handler per event | handlers add and remove pages under what the user is looking at; it acts on the state last drawn; `QueueUpdateDraw` waits for a loop a key may end | keys reach what is in front; the table comes to agree with the server |
| Web frontend | `frontend/src/*.ts` | the socket, reconnect timer and attempts, command queue; start states, rows, an open dialog | `connect`, `disconnect`, `sendCommand`, the socket's callbacks; `handleEvent`, clicks | asynchronous `onmessage`, failures of failed reconnections, dialogs that stay open while events arrive | one connection, and a lost one comes back; commands keep their order and follow the handshake; what is sent is what the user was asked |
| Protocol conversion, configuration, TLS, helpers | `internal/protocol`, `internal/config`, `internal/tls`, `main.go`, ... | none | conversions and wiring | – | unit tests reach all of it |

How they interact. The app loop calls the store directly, sends actions to the
replicator's actor over `actorC` and reads its reports from `stateC`; the same with
the media server. It broadcasts events on the bus, which never blocks. A gRPC session
takes events off the bus and puts commands on `dispatchC`, which only the app loop
reads, and which blocks its senders. The replicator runs containers through the
container client, which reports over two channels per run (`containerStateC` and
`errC`); when a run is over, a goroutine that the app loop launched (called the
*watcher* here) asks the replicator to stop it, which frees the URL. So the app loop
feeds the actor, the actor waits for the engine, runs feed `destLoop`s, those feed
the app loop, and watchers feed the actor: a cycle of bounded channels. Whether it
can close is what `CallsReturn` is about.

`PROJECT.json` lists the hazards, each with its line and the properties that would
catch it.

## Modules and how they correspond to the code

| Module | Models | Uses |
|---|---|---|
| `FileStore` | `filestore.go`: the file, the list in memory, `validate`, the outcomes of `Set` | – |
| `DestinationRegistry` | what `handleCommand` and the store promise about destinations, without lists and indices: the abstract specification `Destinations` implements | – |
| `Destinations` | `handleCommand` for add, update, remove, start and stop, `applyReplicatorState`, `applyServerState`, the end and the restart of the process | EXTENDS `FileStore`, INSTANCE `DestinationRegistry` |
| `Replicator` | the replicator's actor, `destLoop`, `RunContainer` with `runContainerLoop` and `waitForContainerExit`, `RemoveContainers`, the watcher, the part of the app loop at the other end of the channels; the Docker engine is external | – |
| `EventBus` | `bus.go` | – |
| `Server` | `App.Run` from the wait for a client to its return, `Communicate`, the unary calls, `DispatchSync` and `DispatchAsync`, and at the other end of a session the terminal client with its modals | EXTENDS `EventBus` |
| `ContainerRun` | `RunContainer` for a container that is not restarted, with the four goroutines around its loop: `waitForContainerExit`, `handleEvents`, `handleStats`, `getLogs`, and with `handleImagePull` | – |
| `MediaServer` | `mediaserver/actor.go` between the run of its container and the main loop | EXTENDS `ContainerRun` |
| `WebSocketProxy` | `websocket_proxy.go`: `Handler` and the three goroutines of each connection, at the other end the browser, the bus and `dispatchC` | EXTENDS `EventBus` |
| `CommandOutbox` | what `sendCommand` promises its callers, without sockets and timers: the abstract specification `WebClient` implements | – |
| `WebClient` | `websocket-communicator.ts`, and of `index.ts` the events, clicks, form and question that concern a destination; the browser and the server are external | INSTANCE `CommandOutbox` |
| `WebSessions` | `auth.go`, the session handlers of `web.go`, `authInterceptor`, `tokenstore.go`, `token.go`, and of `main.go` what decides on authentication and the command `server credentials reset` | – |
| `TerminalClient` | `terminal.go` (every handler and key) and `Run` of `clientapp.go`; tview, the network and the server are external | – |
| `MC...` | model values and definitions for TLC | EXTENDS the module |
| `..._proofs` | theorems | EXTENDS the module and `TLAPS` |

**FileStore and Destinations.** `mem` is `FileStore.state`, `disk` the last list that was
written completely, `intact` says whether the file still holds it. `view` is
`AppState.Destinations` and holds records with a status. `store.Get` returns a struct
whose slice still points at the store's own array. An edit of an element of that slice
therefore edits the store before `Set` is even called. `slices.Delete` shifts the array
and zeroes the last slot. The outcomes of `Set` (`SetStores`, `SetRejects`, `SetFails`,
`SetDies`) therefore take both the new list and what the array has become; a write that is reported
as failed may have left the file as it was, cut short, or complete. A zeroed record has the nil UUID
for its ID (`NoID`), and both parsers of IDs (`protocol/command.go:184` and `client/clientapp.go:426`) take it for an ID like
any other: `Named` is the set of IDs that commands name, with or without it. A step of the
app loop is one action (it is one goroutine): an update is the check for a live
status, the edit, the `Set`, the refresh of the view and the reply. What the replicator
does with a start or stop is seen from here as the owner of a stream per URL (`streams`)
and whether it was last reported live (`onAir`).

**DestinationRegistry.** Sets where the code has lists. `config` was last stored whole, and a
restart restores it while the file is `whole`; `shown` is what clients see of it. A
command that succeeds changes both at once, one that fails changes nothing that clients see. The next command starts from `draft`,
which is `config` except that it keeps what updates asked for that failed: they edit the store's
array before `Set` refuses. The promise has three weak points, and they are the code's: such an edit is stored
along with the next command that succeeds, whichever destination that names; after a removal that failed
(not `usable`) no command succeeds until the server is started again; and what a failed command asked for
may be in the file all the same, where a restart finds it. `Destinations` implements it with
`config <- Listed(disk)`, `draft <- Listed(mem)`, `shown <- Configured` (the view without its
statuses), and `usable <- Unspoilt`, no record of `mem` being zeroed (its `Registry`).

**Replicator.** `Calls` numbers the calls of `StartDestination`. `app`, `actorC`,
`currURLs`, `stopping`, `doomed` and `removing` are where the app loop's send, the queue
and the actor are. `RemoveContainers` lists the containers first and then, for each, cancels the run
if its cancel function is registered, stops and removes; each of these is a step,
because runs move in between. `run`, `waiter`, `docker`, `containerStateC` and `errC` are one
run of `RunContainer`; `dest`, `state` and `doneC` its `destLoop`; `watcher` the goroutine
`handleCommand` launches. Channels are sequences with a capacity and a send blocks while
they are full. `asked` is a history variable: the calls of a URL somebody has asked to stop since.

**EventBus and Server.** `app` is where `Run` is: waiting for a client, connecting to
Docker, checking for other instances, counting clients, in its main loop, handling
`CloseOtherInstance`, in `doFatalError`, waiting for its acknowledgement, or returned
(with `exit`). `startMediaServerC` and `clientC` are channels of capacity one without
content, so a Boolean each. `handler`, `sender` and `receiver` are the three goroutines of
`Communicate`; `client`, `ui` and `modal` the client program, whether its UI is registered
on its own bus, and the questions on its screen. Each direction of a gRPC stream holds one
message. A command on destinations is one kind, `"work"`, which succeeds (all clients
are told) or fails (one is). A client that is still there may send what is no command, which ends its session
(`ReceiverRejects`). Whether other instances run is a choice at the moment of the startup check, because one may
start or stop right before and right after it: nothing in the code prevents two instances that start
together from finding each other absent, and no property claims that it does. Events are reduced to those somebody decides on. After
`Run` returned the sessions go on; what the process then still does (its deferred closes)
is not modelled.

**ContainerRun and MediaServer.** `run` is where the goroutine of `RunContainer` is: preparing,
sending a state (`reporting`, `leaving`), in the select of its loop, or over. The channels
between the loop and its helpers have no buffer, so a helper that sends waits in `sending` (the
waiter in `offering`) for the loop to take it. `errC` is `open`, holds an `error`, or is
`closed`. `Replicator` models the same function from the other side: with restarts and
`RemoveContainers`, which the media server's container does not have, and without the
helpers. `actor` is where `actorLoop` is: in its select, in a call of the API (`fetching`), which it waits for and
which may never return (`hung`), or waiting to send its state.
`status`, `live` and `failed` are what it knows, `shown` what clients see of it,
`publishing` what is true. A poll of the API learns something, or fails or finds what is known and
goes back to the select. The media server is started once: that a second
token may start it again is a matter of `Server`.

**WebSocketProxy.** `conn` is where `Handler` is, `reader`, `process` and `writer` its three
goroutines; each may hold the message it is about to pass on. A channel is closed when the
goroutine that writes to it has ended. The context is that of the request, which `net/http`
leaves alone once the connection was hijacked, so no `<-ctx.Done()` is ever ready. An envelope
is a handshake, a command, or something that is ignored; what is written is the greeting
(`HandshakeCompleted`) or an event. Whether the session cookie is valid is a choice.

**WebClient.** A page is one thread, so a callback is one action, and what `await` leaves
open lies between two. `sockets` is the `readyState` the browser gives a socket, which changes
before the close event comes; `ws`, `isConnected`, `reconnectAttempts` and `commandQueue` are the
communicator's fields, `timers` counts what `setTimeout` has still to run. Commands are numbers in
the order in which the user gives them; `log` has those handed to a socket, and `first` what each
socket carried first. An event is reduced to what decides on one destination: it is
absent, idle, ready to start or started; its stream exited; somebody saved a form. `row` is the
button as it was last drawn, which is not what `startState` says: an exit changes the one only.
`dialog` is the form or the question that covers the buttons. Events are free: the page is
checked against any server, not only against `Server` and `WebSocketProxy`.

**CommandOutbox.** A command is a number. It goes out, waits, or is lost because the connection
it meets has failed and nobody has noticed; those that wait go out together. `WebClient`
implements it with `given <- issued`, `waiting <- commandQueue`, `sent <- log` (its
`Outbox`). The step from one to the other is the interesting one: an outbox that lets a later command
pass those that wait would not be implemented, so that `sendCommand` sends at once *only*
while nothing waits has to follow from the order in which `onopen` runs
`processCommandQueue` and sets `isConnected`.

**WebSessions.** `apiToken`, `adminPassword` and `session` are the three files: absent, torn by a
write that was cut short, or a credential. A credential is a number, or one of `Sessions`; what is
stored is its hash, and hashing is taken to be injective. `server` is where the process
is in `initCredentials` and the mode it decided on, `request` each handler that is between two
calls of the store, `reset` the next call of `ResetCredentials`. A start takes any
configuration: any `--auth`, either listener public, loopback or off, the web interface on or off. The
cookie a browser holds is not kept: any session that was ever issued may be presented. A
WebSocket connection is authenticated when it opens and not again, so what `WebSocketProxy` does
after its handshake is not affected by the end of a session. `issuedUnder`, `ended`, `late`,
`leftover`, `crossed`, `mixed`, `interrupted`, `required` and `excused` are history: nothing reads them but what updates them, except that a login
gives a session that was not given before (`issuedUnder`).

**TerminalClient.** `ui.pages` is tview's stack of pages above the table, `ui.overlay` the page
"no destinations", `ui.focus` what gets the keys. A key is one action of tview's loop, and so
is the handler of an event (`LoopRuns`): `ui.Run` hands it over (`RunQueues`) and waits.
`stream`, `eventC`, `run` and `receiving` are the goroutines on the event's way. A client whose context is
cancelled only closes its own direction (`halfClosed`); the receive loop goes on until the server has ended
`Communicate`. The loop of tview may fail at its start (`RunRegisters`). The server is
external: a list of destinations, their containers and which of them this client started; its
answers are those `Destinations` gives. Which row is selected is left out: a key acts on
some row. The media server's own container is left out as well: the pull of its image shows the page that
the pull of a destination's shows, and a pull without progress yet (`preparing`) shows none. `ui.target` is the
destination which the functions of a form's or a question's buttons have captured.

Definitions whose name starts with another definition's (`SetStoresUnvalidated`,
`SenderEndsRegistered`, ...) and whose comment starts with "Mutant of" or "(Mutant:" are not part of any
specification: they are versions of the code with a plausible bug, one for each property,
with which TLC must find that property violated.

## Runs

Distinct states are those of a complete search.

| Run | Configuration | Question | Answer |
|---|---|---|---|
| `destinations` | `Destinations.cfg`: two destinations, two URLs, one write that fails or is cut short | Does every order of commands, reports, restarts and a failed write keep file, store and view in step? Is the app loop the registry its clients are promised? | yes, 526 thousand states |
| `replicator` | `Replicator.cfg`: one URL, two starts, one stop, every kind of failure | Is a claimed URL always on its way to be freed? Has a URL one run unless somebody stops it? | yes, 4.2 million states |
| `replicator_live` | `Replicator_live.cfg`: the same under fairness, containers that fail to start | Do the app loop's calls return? Does an ended run free its URL? Does a stop end what it found? Has a URL one container unless somebody stops it? | yes, 59 thousand states |
| `server` | `Server.cfg`: one client that may stall anywhere, one unary call, every kind of failure, server and client in one process | Does Run not leave over its client's head? Are calls answered, dead sessions forgotten, interrupts obeyed? | yes, except where named below, 31 thousand states |
| `media_server` | `MediaServer.cfg`: exits, failing calls of the Docker engine, an interrupt | Is a fatal error true? Is an exit noticed, a publisher shown? | yes, 165 thousand states |
| `web_socket_proxy` | `WebSocketProxy.cfg`: one browser, beside other users of `dispatchC` | Who is on the bus? What comes first? Does a stalled browser hold up a command? Is one that is gone forgotten? | yes, except where named below, 53 thousand states |
| `web_client` | `WebClient.cfg`: two attempts, two commands, one message being read | Is there one connection, and does it come back? Do commands keep their order? Is what was confirmed what is sent? | yes, except where named below, 874 thousand states |
| `web_sessions` | `WebSessions.cfg`: every configuration, two requests at a time, one failed call or death | Do ended sessions stay ended, does authentication stay on, is what a reset prints in force? | yes, except where named below, 1.2 million states |
| `terminal_client` | `TerminalClient.cfg`: one destination, two changes, a session that ends from either side | Do keys reach what is in front? Does the screen come to agree with the server? Does the client end? | yes, except where named below, 1.6 million states |
| `two_containers` | `Replicator_TwoContainers.cfg` | "ensure we can limit each destination to a single container" (`terminal.go:1097-1099`) | a stop during the preparation of a container misses it |
| `missed_exit` | `Replicator_MissedExit.cfg` | the error channel "will be closed when the container exits" (`container.go:244-246`) | not if it exits before `ContainerWait` asks for its *next* exit |
| `server_closes_itself` | `Server_ClosesItself.cfg`: two clients | "CommandCloseOtherInstance closes the other instance of the application" (`command.go:70`) | the second of two clients that answer the question closes this one |

The properties, and what each protects:

- `AlignedOrWedged`: an index found in the store is used on the view and never past its end
  (`IndexIsInView`); the two lists line up, unless the store was left with a zeroed record, after which it
  accepts no change from a command that names a real ID. `ShownLiveIsKept`: a destination shown as
  live stays unless it is removed by force or the process ends. `ImplementsRegistry`: over any
  order of commands, failed writes and restarts, what clients are shown is what a restart brings back
  until a write goes wrong (`ViewIsPersisted`), a command answered with an error changes nothing that clients see, and
  nothing in the file unless the error is that of the write (`ErrorsChangeNothing`), and one that
  succeeds changes both in the way it was asked to. The two named are theorems as well.
- `NoStuckURL`: a URL in `currURLs` always has a stop under way, or a watcher that will ask for
  one. Otherwise no destination with that URL could ever be started again. A run that is deaf to its container's
  exit (`missed_exit`) counts as a watcher to come, and keeps the URL until a user's stop: the property is about the
  bookkeeping of claims, not about that defect.
  `OneRunUnlessStopped`: the guarantee that *does* hold where `OneContainerPerURL` does not:
  whatever exits, fails or is started again, a URL has one run unless a user asked to stop it.
  `OneContainerUnlessStopped`: nor has it two containers, though a run that failed leaves one behind,
  which nobody but the stop of its own watcher removes.
  `CallsReturn`: the cycle of channels described above never closes. `EndedRunIsReleased`
  and `StopEndsRun` are the promises of the watcher and of a stop.
- `AsksBeforeLeaving`: "nobody is here to ask" is decided by a counter that
  session goroutines change; it is never decided while a client is served that was counted.
  `CallsAreAnswered`: a stalled client, a full event channel or a full `dispatchC` keeps no call
  from its answer. `GoneClientIsForgotten`: neither half of a dead session keeps the other.
  `InterruptIsHeldByUserOnly`: an interrupt ends `Run`, unless it waits for a user.
- `AlarmIsTrue`: the end of a run reaches the main loop over three channels, two of which are
  read in any order; no state that is late or out of order ends `Run` before the goroutine of
  `RunContainer` has ended. (It also ends when `ContainerWait` fails, with the container alive: the alarm is then
  about a run that was given up.) `ExitIsNoticed`: an exit does reach it. `PublisherIsShown`: polling starts only
  when the status *changes* to running; a publisher that stays is nevertheless shown in the end. The last two except an
  actor that hangs in a call of the API.
- `ServedFromHandshake`: `processMessages` returns by four ways, with or without having
  registered, and no event overtakes `HandshakeCompleted`: who is on the bus is served, and what
  is on its way to a browser begins with the answer to its handshake. `DispatchesReturn`: a browser
  that stops reading, with every channel towards it full, keeps no command from the main loop.
  `GoneBrowserIsForgotten`: the end of the browser reaches all three goroutines, whichever hears first.
- `OneAttempt`: `onerror`, `onclose` and the timer start one new connection for one that failed.
  `HandshakeFirst`: commands that waited do not overtake the handshake; the proxy would dispatch them
  (`websocket_proxy.go:251-258`), but with nobody registered on the bus to be told of their outcome. `ImplementsOutbox`: over any number of connections, failures and reconnections, commands
  are neither repeated nor do they change places, and only the connection a command meets may lose it.
  `RemovalAsConfirmed`: the answer is to the question that was asked, not to the state that arrived
  meanwhile. `KeepsTrying`: the chain of timers, each set by the failure of the attempt before, does not break.
- `SessionsEnd`: a logout, a newer login and a reset end sessions while handlers hold what they have
  read of them; and a session that outlives a reset was given for the new password, which a login may be about to
  give one for the old. `AuthenticationStays`: over any sequence of starts with different
  flags no server is open once one has required credentials. `PrintedIsInForce`: the user is
  shown the credentials once.
- `FocusFollowsFront`: a page may be added or removed by an event at any moment, under or above
  what the user is typing into. `ShowsServer`: events are dropped by two buses, before the UI has registered or when
  it is slow, and start states are changed by keys as well as by events; a later state
  makes up for it. `ClientEnds`: the receive loop, `ui.Run`, tview's loop and the goroutine that closes the stream
  may end in any order, and each is waited for by another.

`ExitIsNoticed` excepts a waiter that asked too late (`missed_exit`), and like `PublisherIsShown` an actor that is
`hung`: `actorLoop` waits for the media server's API with a client that has no timeout
(`httpClientTimeout`, "timeout for outgoing HTTP client requests", is declared at `actor.go:44` and not used), so a call that is not answered keeps it from
the container's exit and from its context. `GoneBrowserIsForgotten`
excepts `Abandoned`: a goroutine that waits for room which the one at the other end, which has
ended, will never make. Both of its cases are reached: the writer ends on a write error
while `processMessages` fills `eventC`, or `processMessages` ends on a second handshake or
the handshake timeout while the reader fills `commandC`. Then `wg.Wait` never returns and, in
the first case, the client stays on the bus. It also says "when the browser is gone" on
purpose: after "Handshake timeout, closing connection" (`websocket_proxy.go:261`) the connection
stays open as long as the browser keeps it, because the reader still reads.
`KeepsTrying` excepts `GaveUp` (all attempts used, the last one failed too, no timer and no socket left; or a close in good
order) and a page that is being left.

`SessionsEnd` excepts three things, each of which the search reaches. A request that had read the
session, or the password, before the end and writes after it (`leftover`): a refresh that meets a
logout brings the session back, and a login that met a reset opens one for the old
password. A reset that was stopped after a deletion (`interrupted`). And a start of the server that found no
password in the middle of a reset and made one of its own (`mixed`), which the reset then
overwrites. The last two are the exceptions of `AuthenticationStays` and `PrintedIsInForce` too: a server that starts between the
deletion of the token and the new one decides as if there had never been one. `AuthenticationStays` also excepts the
all-in-one mode, which says so itself (`auth.go:89-91`). The README of the repository calls `--auth=none` "disable
authentication completely"; the code enables it nevertheless when a token exists (`auth.go:96`), so
a directory once used with authentication keeps it. And `ErrAuthenticationCannotBeDisabled` comes from `server.New`,
while `main.go:828` looks for it in what `app.Run` returns: the advice it prints there is never shown.

`FocusFollowsFront` excepts the end of a pull: `hideModal` gives the focus to the table
whatever is open above the progress page. `ClientEnds` excepts `Stuck`: a user who quits while an event
waits for tview's loop ends that loop, and `QueueUpdateDraw` never returns, so `ui.Run` does not either and the
client hangs. A state that was on its way when a start was given resets the start
state, so the key starts the stream a second time, which the replicator ignores.

`AsksBeforeLeaving` is about clients that are counted, and nothing is claimed of one that has completed its handshake and is
registered or counted a moment later (`Uncounted`): `Run` may leave on a fatal error as if nobody were there.
`CallsAreAnswered` is about the commands a unary handler dispatches, while `Run` is in its loop or before it.

`CallsAreAnswered`, `GoneClientIsForgotten` and `InterruptIsHeldByUserOnly` name the state they
except: `Wedged`, where the main loop sends on
`startMediaServerC`, which only it reads. Two clients that both answer "Continue"
before the loop reads its first token bring it there; the one client of `Server.cfg` cannot, so
the exception is proved permanent (`WedgedForGood`) rather than searched. Other consequences of the code that the model shows and no
document of the repository rules out: `doFatalError` takes *any* command for the
acknowledgement, and waits for one even when the client it counted has quit; a client
whose UI registers after the question arrived is never asked, and the server then waits
with no media server; a user's stop may be
reported as a failure (a cancelled wait and `ctx.Done()` race). Of the page: `disconnect` closes without a
code, which `onclose` takes for a failure, so a page that is being left connects again; a command given
between the failure of a socket and its close event is dropped; `onclose` asks for the number of
attempts itself, so `scheduleReconnect` never reports that they are used up; a row that missed the state
in which it could be started has a disabled Stop button; and the form is closed by any client's success.
Of destinations: "This case shouldn't happen, there is no validation when removing a destination"
(`serverapp.go:503`) does happen, after a rejected update left the store's array with an invalid record; after a
removal that failed, a command that names the nil UUID finds the zeroed record, with which `RemoveDestination` takes away another
destination, also one that is shown as live and without `--force`, and leaves its stream running; and a
destination that is live is removed without `--force` after any change of the list, because the refresh of the view
forgets its status until the next report (`ShownLiveIsKept` is about what is *shown* as live). Of the terminal: F3 and F4
are offered in the keys' list, but only F1 and F2 are routed to a handler.

Four of these can be looked at in a trace, with configurations that are no runs because each ends in the violation that is
described here: `Destinations_Removal.cfg` (`RemovalNeedsNoValidation`), `Destinations_NilRemoval.cfg`
(`LiveIsRemovedByForce`), `Server_LeavesClient.cfg` (`ConnectedUserIsAsked`) and `MediaServer_HungFetch.cfg`
(`FetchIsTimedOut`). Two more configurations hold and take the place of a second run of a module:
`Destinations_NilID.cfg` (`IndexIsInView` with commands that name the nil UUID, 297 thousand states) and
`Server_TwoClients.cfg` (`TypeOK` and `AsksBeforeLeaving` with two clients, 4.7 million states).

## Bounds

- `MaxFaults = 1`, two IDs, one name, two URLs (`Destinations`): a bad list needs one
  refused edit and one more command on another destination; a second fault adds no new
  kind of state, because every fault leaves the list or the array in one of the shapes one fault
  leaves it in. A name only passes or fails validation; one that passes and a blank one are enough.
  The list has at most two records by `Fresh` (an ID is used once at a time), which is enough
  for an index to point at the other record. Commands name real IDs (`Named`); the nil UUID breaks what
  `ShownLiveIsKept` and the registry promise, as described above.
- One URL, `MaxCalls = 2`, `MaxStops = 1`, `ChanSize = 1` (`Replicator`): different URLs share
  nothing but `actorC`, `stateC` and the actor's time, which the second call also competes for; every
  race found needs one run, a stop and a second run. With capacity one every send can block,
  so a deadlock of the real capacity (64) shows up with fewer actions. Each call adds its own
  watcher stop, so the queue sees up to five actions.
- `Replicator_live.cfg` only lets containers fail to start: with "exit", restarts can
  repeat forever and every property would need the restart policy's history; "stop" lets
  `RemoveContainers` give up, after which no stop is promised to end the run; "wait" and
  "create" end the run the way "start" does.
- `BusSize = DispatchSize = 1` (64 in the code), one message per direction of a stream: every send that can block
  or drop does so early. One client and one call, which compete for `dispatchC`. The safety properties were searched with two clients
  as well, and are proved for any number; two are what it takes for one to answer after the other (`server_closes_itself`).
- `StateSize = SourceSize = 1` (`MediaServer`; 64 in the code): every send of a state can block.
  The number of events, statistics, log lines and changes of the publisher is not bounded.
- One browser and capacities of 2 (`WebSocketProxy`; 10 and 64): two are what a channel needs to hold
  something behind something else. Connections share only the bus and `dispatchC`; what others
  put there is `ApiDispatches` and `AppTicks`. For safety two browsers with capacities of 1 were searched
  as well (14 million states, four minutes), and the proofs are about any number of both.
- Two sockets, two attempts (5 in the code) and two commands (`WebClient`): a second connection beside one, a
  failure after a failure, a command behind a command. One message is read at a time: as an arriving event
  is any event, every order in which several could be handled is an order in which they could arrive. A
  search for the safety properties with two messages (2.8 million states) found the same.
- Three sessions, two requests at a time, four credentials and one fault (`WebSessions`): a start makes two credentials and a
  reset two more; a session that is revived needs a second one that ended it, and the third is for the
  login that races both. The proofs are about any number of each.
- One destination, two changes by anybody, a stream of two events and a channel of one (`TerminalClient`; 64 in the
  code): a state and its event fit the stream and not the channel, so every drop happens, and a pull can start and end. Keys that change nothing at the
  server are not counted, so forms, questions and notices open and close without end, above and
  below each other. A tick waits until what was sent before is received, which only keeps the stream from being
  full of states.
- A client ID is used once. A client that connects again has a new one, as in the code.

`CHECK_DEADLOCK FALSE` everywhere: all users may stop asking, and a server may return.

## Fairness

Only the liveness runs (and `missed_exit`, whose counterexample is temporal) use it.
Goroutines that can run eventually do: weak fairness. Where a goroutine competes for
something it is strong: a sender blocked on a Go channel is queued and served in order,
so one that finds the channel full again and again is still served (`SF` on `AppSends \/
AppReceives`, `Watcher`, `DestSends \/ DestReturns`, `Receiver`, `CallDispatches`); `select`
picks uniformly among the ready cases, so a case that is ready again and again is picked
(`SF` on the main loop's cases, on `LoopTakesExit \/ LoopFails`, on the actor's cases and on
`ProcessTakes`). In the page, an attempt to connect succeeds or fails, a closing socket is closed and a
timer fires (`WF` on each socket's events and on `TimerFires`). Of the terminal client each goroutine runs, the
server handles commands and its ticker ticks (`WF`), once a second in the code; it also ends a session whose client has
closed its direction (`ServerEnds`), which `Communicate` does once its receive goroutine has read the end of it
(`GoneClientIsForgotten` of `Server`). A read whose connection is gone returns. The media server's ticker is served again and again
(`SF` on `ActorFetches`), a call of its API returns or hangs for good (`WF` on the three outcomes), and of calls that
return, those with news succeed again and again (`SF` on `ActorLearns`): only `PublisherIsShown` needs the last. Never fair: users (nobody has to press a key), clients (they may stall with a stream
half read), browsers (they may stop reading, stay silent or never leave), the events of a page and the page that
replaces it, publishers,
containers that exit, other faults, the server's ticker where a property does not need it, the handshake timeout.

## Proofs

All theorems hold for every value of the constants that the modules' named assumptions
allow: any number of destinations, URLs, faults, calls, stops and clients, channels of any
positive capacity, any set of faults, any number of attempts and commands.

- `Destinations_proofs`: `TypeCorrect`, `ViewAlwaysPersisted`, `IndexAlwaysInView` and `ErrorsNeverChange`, whatever IDs commands
  name; `AlwaysAlignedOrWedged`, `ShownLiveAlwaysKept` and `RefinesRegistry` under the hypothesis that none names the nil UUID
  (`NoID \notin Named`), without which they are false. The
  inductive invariant adds to the checked ones that the file's last whole content is
  valid, that store and view have the same length, and, under the hypothesis (`Tame`), that IDs in the file are real and
  a record without an ID is a zeroed slot; and that nothing is shown while the process is down. The argument turns on
  `Follows`: the lists agree ID by ID, or the store holds a zeroed record, and then `Valid`
  refuses every later list, because no operation but a restart gets rid of that record and stores the rest.
  `RefinesRegistry` goes from lists to sets: as no two records bear one ID (`Distinct`: an ID is new when
  it is given and stays with its record, whatever fails), what `append`, an assignment and `slices.Delete` do to a
  list is what the registry does to a set, and a list that validates is a `Sound` set without a zeroed record.
- `Replicator_proofs`: `TypeCorrect`, `NoURLStuck`, `OneRunAlways`, `OneContainerAlways`, `RefusedForGood`. `NoStuckURL` counts on the watcher of a run under
  way, so the invariant also says: a call being sent or queued has a watcher to come, or waiting, and no
  run yet (`Sending`, `Queued`, with no call queued twice); `doneC` has a state exactly once
  `destLoop` returned (`Done`); calls not made have neither (`Made`).
  For `OneRunUnlessStopped` the invariant (`RunInv`) follows what can free a URL that nobody asks to
  stop once it was started. Before its first run, the stops asked for earlier are ahead of its first start in the queue and
  find nothing claimed (`BeforeRuns`). From then on exactly one thing at most is under way that will
  free it: a run whose watcher has not asked for the stop yet, a queued stop, or a stop being executed
  (`SinceRuns`), so no second run starts while the first holds the claim.
  A container may outlive its run, so `OneContainerUnlessStopped` needs more (`ContainerInv`): while a run or its
  container remains, the URL is claimed, and what will free it has not listed the containers yet, or has listed
  this one and not removed it (`Claimed`). `RefusedForGood`: the watcher of a start that was refused, because its URL
  is claimed, waits for good, a goroutine for every such start.
- `Server_proofs`: `TypeCorrect`, `ClientsAreCounted`, `UserIsAskedFirst`, `WedgedForGood`. The decision to
  leave reads a number; the property is about sessions. The invariant says that the
  number is the cardinality of the set of sessions being served (`Counted`), which needs
  that a session not set up has no receive goroutine (`Fresh`). That the count never
  falls below zero, a part of `TypeOK`, follows from it. `WedgedForGood`: the exception of the liveness
  properties is a deadlock and not a delay.
- `MediaServer_proofs`: `TypeCorrect`, `FatalOnlyAfterEnd`. `AlarmIsTrue` looks at the last channel
  only; the invariant (`Quiet`) covers the whole way: until the run has ended, none of `containerStateC`,
  `errC`, the actor's state and `stateC` speaks of an end.
- `WebSocketProxy_proofs`: `TypeCorrect`, `ServedAsGreeted`, `AbandonedForGood`. The invariant says what
  `processMessages` has done by the time it comes to each of its steps (`Stages`), and that nothing is on its
  way to a browser that was not greeted (`Silent`). `AbandonedForGood`: a goroutine that waits for one which has
  ended does so for good, its `Handler` never closes the connection, and if it holds an event the bus keeps its
  client; this needs who is served and registered while it waits (`Held`).
- `WebClient_proofs`: `TypeCorrect`, `GreetsFirst`, `ConnectsOnce`, `RefinesOutbox`, `KeepsOrder`, `RemovesAsConfirmed`. `OneAttempt` is inductive
  by itself; the others need that a socket which lives is the one the communicator holds (`Held`), that one
  which never opened carried nothing (`Fresh`), and that nothing waits while connected (`Drained`): only then is a
  command that goes out at once the last in `log \o commandQueue`. The same two facts make every step a step of
  `CommandOutbox` or none of it; `RefinesOutbox` is the refinement, under any number of sockets, attempts and commands.
- `WebSessions_proofs`: `TypeCorrect`, `AuthenticationAlwaysStays`, `PrintedAlwaysInForce`, `SessionsAlwaysEnd`. Three
  invariants. `AuthenticationKept`: once authentication was required a token is stored, torn or whole,
  or a reset is between its first deletion and its new token, or was stopped there; so no decision of a start finds
  nothing. `PutsKept`: from its own write on, what the reset generated is what is stored, unless a start
  crossed it. `SessionsKept`: a password a login has matched, and the one a session was given for, is the stored one, or a
  reset is about to delete the session (`RequestKept`, `SessionKept`); and while the password is deleted nothing but a start
  that crossed the reset can have made another (`CrossedKept`). That no file is read that another process tore is `TypeOK` and `FreshCredential`.
- `TerminalClient_proofs`: `TypeCorrect`, `FocusAlwaysFollows`, `StuckForGood`. The stack of pages is a sequence in which
  a page appears once; the lemmas say what adding a page, removing one from anywhere and moving the focus do to it.
  `TypeOK` then is inductive. `FocusFollowsFront` goes through every handler: each that takes a page away
  looks at what is in front afterwards, and only `hideModal` does not. `StuckForGood`: `ui.Run` that waits for a loop which
  has ended never returns.

Each proof has one step per action of the module; lemmas state what a group of actions
leaves alone, what queue operations do to types, and what the helpers of the code
(`slices.Delete`, `slices.IndexFunc`) return.

## Only model-checked

All liveness properties, because liveness under fairness is out of the prover's reach, and the three properties that do not
hold. Every invariant, action property and refinement of a passing run is a theorem. Of the liveness
properties the states they except are proved to be final (`WedgedForGood`, `AbandonedForGood`, `StuckForGood`), so what is
excepted is a hang, not a delay that fairness would end.

## Not modelled

Stateless code: the fields of protocol messages, most flags and the wiring in `main.go`, TLS
key pairs, short IDs, optional values, HTTP helpers. Layout, drawing, texts and the selected row. The arithmetic of
statistics and of pull percentages. The cookies of browsers, and `login.ts` with the page's timer
that refreshes its session, whose requests `WebSessions` has. A second server process beside a running one: what the startup check finds of it is a choice in `Server`, and so is
the exit of a container which it removes in `MediaServer` and `Replicator`; what two processes do to the files they share is modelled
only of `server credentials reset`.
Not yet modelled, and planned: shutdown (the deferred closes of `Run`) and the composition of the parts that
are now modelled apart.

## Plan

In order; modules already written come first because the rest composes with them.

1. Done: `FileStore`, `DestinationRegistry`, `Destinations`, `Replicator`, `EventBus`, `Server`, `ContainerRun`, `MediaServer`,
   `WebSocketProxy`, `CommandOutbox`, `WebClient`, `WebSessions`, `TerminalClient`, their runs and proofs.
2. `Octoplex`: composition of `Destinations` with `Replicator`, whose runs implement `Destinations`' `streams` under
   a refinement mapping; `MediaServer` as an implementation of its `source`; the stale watcher of a run that was
   stopped and started again; a last state that says live.
3. `Shutdown`: `repl.Close`, `srv.Close`, `containerClient.Close` in the order of the `defer`s; a send on a closed
   `actorC`, `destLoop`s that block on a `stateC` nobody reads, helpers of `ContainerRun` left with something to send.
4. Restarts in `ContainerRun`, so that `Replicator`'s run becomes an abstraction of it.
