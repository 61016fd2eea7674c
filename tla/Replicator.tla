------------------------------ MODULE Replicator ------------------------------
(***************************************************************************)
(* internal/replicator/replicator.go and the goroutines around it:         *)
(*                                                                         *)
(*   app loop --actorC--> actor --RunContainer--> run --containerStateC,   *)
(*   errC--> destLoop --stateC--> app loop, and destLoop --doneC-->        *)
(*   watcher --actorC--> actor                                             *)
(*                                                                         *)
(* Calls numbers the calls of StartDestination; call c gets a run, a       *)
(* destLoop and a container only if the actor accepts it, but always gets  *)
(* the watcher that handleCommand starts for it.  The Docker engine is     *)
(* external.  Image pulls, logs and statistics beyond "the stream is       *)
(* received" are left out.                                                 *)
(***************************************************************************)
EXTENDS Naturals, Sequences

CONSTANTS
    URLs,       \* destination URLs
    NoURL,
    MaxCalls,   \* bound: calls of StartDestination
    MaxStops,   \* bound: calls of StopDestination by the app loop
    ChanSize,   \* capacity of actorC, stateC and each containerStateC
    Reports,    \* what statistics may show: "running" is not yet receiving
    Faults      \* what may go wrong: a subset of FaultKinds

FaultKinds == {"exit",      \* a container exits by itself
               "create",    \* creating a container fails
               "start",     \* connecting, copying into or starting one fails
               "wait",      \* waiting for its exit fails
               "stop"}      \* listing, stopping or removing containers fails

ASSUME ReplicatorAssumption ==
    /\ NoURL \notin URLs
    /\ MaxCalls \in Nat
    /\ MaxStops \in Nat
    /\ ChanSize \in Nat \ {0}
    /\ Reports \subseteq {"running", "receiving"}
    /\ Faults \subseteq FaultKinds

Calls == 1 .. MaxCalls

VARIABLES
    calls,      \* calls of StartDestination made so far
    callURL,    \* their URLs
    stops,      \* calls of StopDestination made by the app loop so far
    app,        \* the action the app loop is sending to actorC, or Nothing
    asked,      \* history: the calls whose URL a user has asked to stop since
    actorC,     \* queued actions
    currURLs,   \* the URLs the actor holds to be running
    stopping,   \* the URL whose containers the actor is removing, or NoURL
    doomed,     \* the containers it listed and has still to remove
    removing,   \* the one it is stopping and removing, or 0
    cancelled,  \* runs whose context was cancelled
    run,        \* where the goroutine started by RunContainer is
    waiter,     \* where waitForContainerExit is: it only hears of exits that
                \* happen after it asked ("deaf": the container was down already)
    restarted,  \* runs whose container was restarted
    docker,     \* the container of each run, as the Docker engine has it
    containerStateC,
    errC,       \* "open", "error" (buffered, then closed) or "closed"
    dest,       \* where destLoop is
    state,      \* destLoop's State
    doneC,      \* what doneC was sent, or NoState
    watcher,    \* where the goroutine of handleCommand is
    stateC,
    view        \* the status the app loop last applied, per URL

appVars == <<calls, callURL, stops, app, asked, view>>
actorVars == <<currURLs, stopping, doomed, removing, cancelled>>
runVars == <<run, waiter, restarted, docker, containerStateC, errC>>
destVars == <<dest, state, doneC, stateC>>
vars == <<appVars, actorVars, runVars, destVars, actorC, watcher>>

Statuses == {"off-air", "starting", "live"}
States == [status : Statuses, err : BOOLEAN]
NoState == [status |-> "none", err |-> FALSE]

Start(c, u) == [op |-> "start", url |-> u, call |-> c]
Stop(u) == [op |-> "stop", url |-> u, call |-> 0]
Nothing == [op |-> "nothing", url |-> NoURL, call |-> 0]
Actions == {Start(c, u) : c \in Calls, u \in URLs} \union {Stop(u) : u \in URLs}

\* domain.Container as destLoop reads it: its status, whether it has been
\* receiving for five seconds ("receiving"), whether Err is set ("failed").
ContainerStates == {"created", "running", "receiving", "restarting", "exited", "failed"}

TypeOK ==
    /\ calls \in 0 .. MaxCalls
    /\ callURL \in [Calls -> URLs \union {NoURL}]
    /\ stops \in 0 .. MaxStops
    /\ app \in Actions \union {Nothing}
    /\ asked \in SUBSET Calls
    /\ view \in [URLs -> Statuses]
    /\ actorC \in Seq(Actions) /\ Len(actorC) <= ChanSize
    /\ currURLs \in SUBSET URLs
    /\ stopping \in URLs \union {NoURL}
    /\ doomed \in SUBSET Calls
    /\ removing \in 0 .. MaxCalls
    /\ cancelled \in SUBSET Calls
    /\ run \in [Calls -> {"none", "preparing", "created", "started", "registered", "looping", "finished"}]
    /\ waiter \in [Calls -> {"none", "asking", "waiting", "deaf", "timer"}]
    /\ restarted \in SUBSET Calls
    /\ docker \in [Calls -> {"none", "created", "running", "exited", "removed"}]
    /\ containerStateC \in [Calls -> Seq(ContainerStates)]
    /\ errC \in [Calls -> {"open", "error", "closed"}]
    /\ dest \in [Calls -> {"none", "select", "send", "last", "returned"}]
    /\ state \in [Calls -> States]
    /\ doneC \in [Calls -> States \union {NoState}]
    /\ watcher \in [Calls -> {"none", "waiting", "stopping", "finished"}]
    /\ stateC \in Seq([url : URLs, status : Statuses]) /\ Len(stateC) <= ChanSize

Init ==
    /\ calls = 0
    /\ callURL = [c \in Calls |-> NoURL]
    /\ stops = 0
    /\ app = Nothing
    /\ asked = {}
    /\ view = [u \in URLs |-> "off-air"]
    /\ actorC = << >>
    /\ currURLs = {}
    /\ stopping = NoURL
    /\ doomed = {}
    /\ removing = 0
    /\ cancelled = {}
    /\ run = [c \in Calls |-> "none"]
    /\ waiter = [c \in Calls |-> "none"]
    /\ restarted = {}
    /\ docker = [c \in Calls |-> "none"]
    /\ containerStateC = [c \in Calls |-> << >>]
    /\ errC = [c \in Calls |-> "open"]
    /\ dest = [c \in Calls |-> "none"]
    /\ state = [c \in Calls |-> [status |-> "off-air", err |-> FALSE]]
    /\ doneC = [c \in Calls |-> NoState]
    /\ watcher = [c \in Calls |-> "none"]
    /\ stateC = << >>

-----------------------------------------------------------------------------
(***************************************************************************)
(* The app loop                                                            *)
(***************************************************************************)

\* handleCommand calls repl.StartDestination(u), for a stream or a second time.
AppStart(u) ==
    /\ app = Nothing
    /\ calls < MaxCalls
    /\ calls' = calls + 1
    /\ callURL' = [callURL EXCEPT ![calls + 1] = u]
    /\ app' = Start(calls + 1, u)
    /\ UNCHANGED <<stops, asked, view, actorVars, runVars, destVars, actorC, watcher>>

\* handleCommand calls repl.StopDestination(u), whether u runs or not.
AppStop(u) ==
    /\ app = Nothing
    /\ stops < MaxStops
    /\ stops' = stops + 1
    /\ app' = Stop(u)
    /\ asked' = asked \union {c \in Calls : callURL[c] = u}
    /\ UNCHANGED <<calls, callURL, view, actorVars, runVars, destVars, actorC, watcher>>

\* Mutant of AppSends: actorC grows without bound.
AppSendsUnbounded ==
    /\ app # Nothing
    /\ actorC' = Append(actorC, app)
    /\ app' = Nothing
    /\ watcher' = IF app.op = "start" THEN [watcher EXCEPT ![app.call] = "waiting"] ELSE watcher
    /\ UNCHANGED <<calls, callURL, stops, asked, view, actorVars, runVars, destVars>>

\* The send to actorC goes through; after a start the watcher is launched.
AppSends ==
    /\ app # Nothing
    /\ Len(actorC) < ChanSize
    /\ actorC' = Append(actorC, app)
    /\ app' = Nothing
    /\ watcher' = IF app.op = "start" THEN [watcher EXCEPT ![app.call] = "waiting"] ELSE watcher
    /\ UNCHANGED <<calls, callURL, stops, asked, view, actorVars, runVars, destVars>>

\* The main loop receives from repl.C() and applies the state.
AppReceives ==
    /\ app = Nothing
    /\ stateC # << >>
    /\ view' = [view EXCEPT ![Head(stateC).url] = Head(stateC).status]
    /\ stateC' = Tail(stateC)
    /\ UNCHANGED <<calls, callURL, stops, app, asked, actorVars, runVars, dest, state, doneC, actorC, watcher>>

-----------------------------------------------------------------------------
(***************************************************************************)
(* The watcher that handleCommand starts after StartDestination            *)
(***************************************************************************)

WatcherReceives(c) ==
    /\ watcher[c] = "waiting"
    /\ doneC[c] # NoState
    /\ watcher' = [watcher EXCEPT ![c] = "stopping"]
    /\ UNCHANGED <<appVars, actorVars, runVars, destVars, actorC>>

\* Mutant of WatcherStops: the stop is dropped when actorC is full.
WatcherStopsOrDrops(c) ==
    /\ watcher[c] = "stopping"
    /\ actorC' = IF Len(actorC) < ChanSize THEN Append(actorC, Stop(callURL[c])) ELSE actorC
    /\ watcher' = [watcher EXCEPT ![c] = "finished"]
    /\ UNCHANGED <<appVars, actorVars, runVars, destVars>>

WatcherStops(c) ==
    /\ watcher[c] = "stopping"
    /\ Len(actorC) < ChanSize
    /\ actorC' = Append(actorC, Stop(callURL[c]))
    /\ watcher' = [watcher EXCEPT ![c] = "finished"]
    /\ UNCHANGED <<appVars, actorVars, runVars, destVars>>

-----------------------------------------------------------------------------
(***************************************************************************)
(* The actor loop, which executes one action at a time                     *)
(***************************************************************************)

ActorTakes(a) ==
    /\ stopping = NoURL
    /\ actorC # << >>
    /\ Head(actorC) = a
    /\ actorC' = Tail(actorC)

\* Mutant of ActorStarts: currURLs is not looked up.
ActorStartsAgain(c, u) ==
    /\ ActorTakes(Start(c, u))
    /\ currURLs' = currURLs \union {u}
    /\ run' = [run EXCEPT ![c] = "preparing"]
    /\ dest' = [dest EXCEPT ![c] = "select"]
    /\ UNCHANGED <<appVars, stopping, doomed, removing, cancelled, waiter, restarted, docker,
                   containerStateC, errC, state, doneC, stateC, watcher>>

\* Mutant of ActorStarts: a second start waits until the URL is free.
ActorStartsWhenFree(c, u) ==
    /\ ActorTakes(Start(c, u))
    /\ u \notin currURLs
    /\ currURLs' = currURLs \union {u}
    /\ run' = [run EXCEPT ![c] = "preparing"]
    /\ dest' = [dest EXCEPT ![c] = "select"]
    /\ UNCHANGED <<appVars, stopping, doomed, removing, cancelled, waiter, restarted, docker,
                   containerStateC, errC, state, doneC, stateC, watcher>>

\* RunContainer only launches the run: it never blocks the actor.
ActorStarts(c, u) ==
    /\ ActorTakes(Start(c, u))
    /\ IF u \in currURLs
       THEN UNCHANGED <<currURLs, run, dest>>
       ELSE /\ currURLs' = currURLs \union {u}
            /\ run' = [run EXCEPT ![c] = "preparing"]
            /\ dest' = [dest EXCEPT ![c] = "select"]
    /\ UNCHANGED <<appVars, stopping, doomed, removing, cancelled, waiter, restarted, docker,
                   containerStateC, errC, state, doneC, stateC, watcher>>

Exists(c) == docker[c] \notin {"none", "removed"}

\* RemoveContainers first lists the containers that exist with the URL's label.
ActorStops(u) ==
    /\ ActorTakes(Stop(u))
    /\ IF u \notin currURLs
       THEN UNCHANGED actorVars
       ELSE /\ stopping' = u
            /\ \/ doomed' = {c \in Calls : callURL[c] = u /\ Exists(c)}
               \/ "stop" \in Faults /\ doomed' = {}
            /\ UNCHANGED <<currURLs, removing, cancelled>>
    /\ UNCHANGED <<appVars, runVars, destVars, watcher>>

\* removeContainer cancels the run if its cancel function is known ...
ActorCancels(c) ==
    /\ c \in doomed
    /\ removing = 0
    /\ doomed' = doomed \ {c}
    /\ removing' = c
    /\ cancelled' = IF run[c] \in {"registered", "looping"} THEN cancelled \union {c} ELSE cancelled
    /\ UNCHANGED <<appVars, currURLs, stopping, runVars, destVars, actorC, watcher>>

\* ... then stops and removes the container, giving up on an error.
ActorRemoves(c) ==
    /\ removing = c
    /\ removing' = 0
    /\ \/ docker' = [docker EXCEPT ![c] = "removed"]
       \/ "stop" \in Faults /\ docker' = [docker EXCEPT ![c] = IF @ = "running" THEN "exited" ELSE @]
       \/ "stop" \in Faults /\ UNCHANGED docker
    /\ UNCHANGED <<appVars, currURLs, stopping, doomed, cancelled, run, waiter, restarted,
                   containerStateC, errC, destVars, actorC, watcher>>

\* Mutant of ActorReleases: the URL is free before its containers are removed.
ActorReleasesEarly ==
    /\ stopping # NoURL
    /\ removing = 0
    /\ currURLs' = currURLs \ {stopping}
    /\ stopping' = NoURL
    /\ UNCHANGED <<appVars, doomed, removing, cancelled, runVars, destVars, actorC, watcher>>

\* All listed containers were dealt with: the URL is free again.
ActorReleases ==
    /\ stopping # NoURL
    /\ doomed = {}
    /\ removing = 0
    /\ currURLs' = currURLs \ {stopping}
    /\ stopping' = NoURL
    /\ UNCHANGED <<appVars, doomed, removing, cancelled, runVars, destVars, actorC, watcher>>

-----------------------------------------------------------------------------
(***************************************************************************)
(* A run: the goroutine of RunContainer and its container                  *)
(***************************************************************************)

\* A send on containerStateC[c], which blocks while the channel is full.
SendsState(c, s) ==
    /\ Len(containerStateC[c]) < ChanSize
    /\ containerStateC' = [containerStateC EXCEPT ![c] = Append(@, s)]

\* The goroutine returns, with or without an error in errC, which it closes.
\* Nothing hears from its waiter any more.
Finishes(c, how) ==
    /\ run' = [run EXCEPT ![c] = "finished"]
    /\ errC' = [errC EXCEPT ![c] = how]
    /\ waiter' = [waiter EXCEPT ![c] = "none"]
    /\ restarted' = restarted \ {c}

RunCreates(c) ==
    /\ run[c] = "preparing"
    /\ docker' = [docker EXCEPT ![c] = "created"]
    /\ SendsState(c, "created")
    /\ run' = [run EXCEPT ![c] = "created"]
    /\ UNCHANGED <<appVars, actorVars, waiter, restarted, errC, destVars, actorC, watcher>>

RunStarts(c) ==
    /\ run[c] = "created"
    /\ docker[c] = "created"
    /\ docker' = [docker EXCEPT ![c] = "running"]
    /\ SendsState(c, "running")
    /\ run' = [run EXCEPT ![c] = "started"]
    /\ UNCHANGED <<appVars, actorVars, waiter, restarted, errC, destVars, actorC, watcher>>

\* The container cannot be created, or be started: it may have been removed.
RunFails(c) ==
    /\ \/ run[c] = "preparing" /\ "create" \in Faults
       \/ run[c] = "created" /\ ("start" \in Faults \/ docker[c] # "created")
    /\ Finishes(c, "error")
    /\ UNCHANGED <<appVars, actorVars, docker, containerStateC, destVars,
                   actorC, watcher>>

\* The cancel function is registered only now, and waitForContainerExit launched.
RunRegisters(c) ==
    /\ run[c] = "started"
    /\ run' = [run EXCEPT ![c] = "registered"]
    /\ waiter' = [waiter EXCEPT ![c] = "asking"]
    /\ UNCHANGED <<appVars, actorVars, restarted, docker, containerStateC, errC, destVars,
                   actorC, watcher>>

\* runContainerLoop sends its first state, and then selects.
LoopEnters(c) ==
    /\ run[c] = "registered"
    /\ SendsState(c, "running")
    /\ run' = [run EXCEPT ![c] = "looping"]
    /\ UNCHANGED <<appVars, actorVars, waiter, restarted, docker, errC, destVars, actorC, watcher>>

\* ContainerWait for the next exit, which an exit that is past is not.
WaiterAsks(c) ==
    /\ waiter[c] = "asking"
    /\ docker[c] # "removed"
    /\ waiter' = [waiter EXCEPT ![c] = IF docker[c] = "running" THEN "waiting" ELSE "deaf"]
    /\ UNCHANGED <<appVars, actorVars, run, restarted, docker, containerStateC, errC, destVars,
                   actorC, watcher>>

\* Statistics arrive while the container runs.
LoopReports(c) ==
    /\ run[c] = "looping"
    /\ docker[c] = "running"
    /\ \E s \in Reports : SendsState(c, s)
    /\ UNCHANGED <<appVars, actorVars, run, waiter, restarted, docker, errC, destVars, actorC, watcher>>

ContainerExits(c) ==
    /\ "exit" \in Faults
    /\ docker[c] = "running"
    /\ docker' = [docker EXCEPT ![c] = "exited"]
    /\ UNCHANGED <<appVars, actorVars, run, waiter, restarted, containerStateC, errC, destVars,
                   actorC, watcher>>

\* ContainerWait answers: on an exit, or when the container is removed.
WaitAnswers(c) ==
    \/ waiter[c] = "waiting" /\ docker[c] \in {"exited", "removed"}
    \/ waiter[c] = "deaf" /\ docker[c] = "removed"

\* ShouldRestart, asked for the first time, says no to a container that ran for
\* less than ten seconds, and guesses its error.
LoopExits(c) ==
    /\ run[c] = "looping"
    /\ WaitAnswers(c)
    /\ c \notin restarted
    /\ SendsState(c, "failed")
    /\ Finishes(c, "closed")
    /\ UNCHANGED <<appVars, actorVars, docker, destVars, actorC, watcher>>

LoopWillRestart(c) ==
    /\ run[c] = "looping"
    /\ WaitAnswers(c)
    /\ SendsState(c, "restarting")
    /\ waiter' = [waiter EXCEPT ![c] = "timer"]
    /\ UNCHANGED <<appVars, actorVars, run, restarted, docker, errC, destVars, actorC, watcher>>

\* The restart timer fires; the "start" event of the restart is taken with it.
LoopRestarts(c) ==
    /\ run[c] = "looping"
    /\ waiter[c] = "timer"
    /\ docker[c] = "exited"
    /\ c \notin cancelled
    /\ docker' = [docker EXCEPT ![c] = "running"]
    /\ SendsState(c, "running")
    /\ waiter' = [waiter EXCEPT ![c] = "asking"]
    /\ restarted' = restarted \union {c}
    /\ UNCHANGED <<appVars, actorVars, run, errC, destVars, actorC, watcher>>

\* The wait, or the restart, fails.  A cancelled context fails both, and
\* select may prefer that error to ctx.Done().
LoopFails(c) ==
    /\ run[c] = "looping"
    /\ \/ c \in cancelled
       \/ waiter[c] \in {"asking", "timer"} /\ docker[c] = "removed"
       \/ (IF waiter[c] = "timer" THEN "start" ELSE "wait") \in Faults
    /\ Finishes(c, "error")
    /\ UNCHANGED <<appVars, actorVars, docker, containerStateC, destVars,
                   actorC, watcher>>

\* Mutant of LoopIsCancelled: errC is not closed.
LoopIsCancelledUnclosed(c) ==
    /\ run[c] = "looping"
    /\ waiter[c] # "asking"
    /\ c \in cancelled
    /\ SendsState(c, "exited")
    /\ Finishes(c, "open")
    /\ UNCHANGED <<appVars, actorVars, docker, destVars, actorC, watcher>>

\* ... or ctx.Done(): "probably because the container was stopped".
LoopIsCancelled(c) ==
    /\ run[c] = "looping"
    /\ waiter[c] # "asking"
    /\ c \in cancelled
    /\ SendsState(c, "exited")
    /\ Finishes(c, "closed")
    /\ UNCHANGED <<appVars, actorVars, docker, destVars, actorC, watcher>>

-----------------------------------------------------------------------------
(***************************************************************************)
(* destLoop                                                                *)
(***************************************************************************)

\* The status a state of the container is turned into.
StatusOf(s) ==
    CASE s = "running" -> "starting"
      [] s = "receiving" -> "live"
      [] OTHER -> "off-air"

DestReceives(c) ==
    /\ dest[c] = "select"
    /\ containerStateC[c] # << >>
    /\ LET s == Head(containerStateC[c]) IN
        state' = [state EXCEPT ![c] = [status |-> StatusOf(s), err |-> s = "failed"]]
    /\ containerStateC' = [containerStateC EXCEPT ![c] = Tail(@)]
    /\ dest' = [dest EXCEPT ![c] = "send"]
    /\ UNCHANGED <<appVars, actorVars, run, waiter, restarted, docker, errC, doneC, stateC,
                   actorC, watcher>>

\* The select may prefer errC to states that are still buffered.  An error is
\* noted in the container's state, the destination's status is left as it is.
DestEnds(c) ==
    /\ dest[c] = "select"
    /\ errC[c] # "open"
    /\ state' = IF errC[c] = "error" THEN [state EXCEPT ![c].err = TRUE] ELSE state
    /\ dest' = [dest EXCEPT ![c] = "last"]
    /\ UNCHANGED <<appVars, actorVars, runVars, doneC, stateC, actorC, watcher>>

DestSendsState(c) ==
    /\ Len(stateC) < ChanSize
    /\ stateC' = Append(stateC, [url |-> callURL[c], status |-> state[c].status])

DestSends(c) ==
    /\ dest[c] = "send"
    /\ DestSendsState(c)
    /\ dest' = [dest EXCEPT ![c] = "select"]
    /\ UNCHANGED <<appVars, actorVars, runVars, state, doneC, actorC, watcher>>

\* Mutant of DestReturns: doneC is not sent.
DestReturnsSilently(c) ==
    /\ dest[c] = "last"
    /\ DestSendsState(c)
    /\ dest' = [dest EXCEPT ![c] = "returned"]
    /\ UNCHANGED <<appVars, actorVars, runVars, state, doneC, actorC, watcher>>

\* sendState, then the deferred send on doneC, which has room for it.
DestReturns(c) ==
    /\ dest[c] = "last"
    /\ DestSendsState(c)
    /\ dest' = [dest EXCEPT ![c] = "returned"]
    /\ doneC' = [doneC EXCEPT ![c] = state[c]]
    /\ UNCHANGED <<appVars, actorVars, runVars, state, actorC, watcher>>

-----------------------------------------------------------------------------

App ==
    \/ \E u \in URLs : AppStart(u) \/ AppStop(u)
    \/ AppSends
    \/ AppReceives

Actor ==
    \/ \E c \in Calls, u \in URLs : ActorStarts(c, u)
    \/ \E u \in URLs : ActorStops(u)
    \/ \E c \in Calls : ActorCancels(c) \/ ActorRemoves(c)
    \/ ActorReleases

Watcher(c) == WatcherReceives(c) \/ WatcherStops(c)

Run(c) ==
    \/ RunCreates(c) \/ RunStarts(c) \/ RunFails(c) \/ RunRegisters(c) \/ WaiterAsks(c)
    \/ LoopEnters(c) \/ LoopReports(c) \/ LoopExits(c) \/ LoopWillRestart(c) \/ LoopRestarts(c)
    \/ LoopFails(c) \/ LoopIsCancelled(c)

Dest(c) == DestReceives(c) \/ DestEnds(c) \/ DestSends(c) \/ DestReturns(c)

Next ==
    \/ App
    \/ Actor
    \/ \E c \in Calls : Watcher(c) \/ Run(c) \/ ContainerExits(c) \/ Dest(c)

(***************************************************************************)
(* Goroutines that can run eventually do, and a goroutine blocked on a full *)
(* channel gets its turn: blocked senders are served in order.  What users *)
(* ask and whether containers exit is not fair.                            *)
(***************************************************************************)
Fairness ==
    /\ SF_vars(AppSends \/ AppReceives)
    /\ WF_vars(Actor)
    /\ \A c \in Calls :
        /\ SF_vars(Watcher(c))
        /\ WF_vars(Run(c))
        /\ WF_vars(DestReceives(c) \/ DestEnds(c))
        /\ SF_vars(DestSends(c) \/ DestReturns(c))

Spec == Init /\ [][Next]_vars
FairSpec == Spec /\ Fairness

-----------------------------------------------------------------------------
(***************************************************************************)
(* Safety                                                                  *)
(***************************************************************************)

Active(c) == dest[c] \in {"select", "send", "last"}

\* Something is under way that will free u: a stop that is being sent, queued
\* or executed, or a run of u whose watcher has not yet asked for one and
\* will, because destLoop is not done or has sent the state it waits for.
WillBeReleased(u) ==
    \/ stopping = u
    \/ app = Stop(u)
    \/ \E i \in DOMAIN actorC : actorC[i] = Stop(u)
    \/ \E c \in Calls :
        /\ callURL[c] = u
        /\ watcher[c] \in {"waiting", "stopping"}
        /\ Active(c) \/ doneC[c] # NoState

\* A URL in currURLs, which no further start of it gets past, always has
\* something that releases it.  A run that missed its container's exit
\* (ExitEndsRun, below) is such a thing, and keeps the URL until a user's stop.
NoStuckURL == \A u \in currURLs : WillBeReleased(u)

\* As long as nobody asks to stop a stream, whatever exits, fails or is started
\* again, a URL has one run at most and stays claimed while it has one.
OneRunUnlessStopped ==
    \A c \in Calls :
        Active(c) /\ (\A d \in asked : callURL[d] # callURL[c]) =>
            /\ callURL[c] \in currURLs
            /\ \A d \in Calls : Active(d) /\ callURL[d] = callURL[c] => d = c

\* What OneContainerPerURL, below, comes to: as long as nobody asks to stop a
\* stream and Docker removes what it is told to, a URL has one container at
\* most, also one left of a run that failed or was never started.
OneContainerUnlessStopped ==
    "stop" \notin Faults =>
        \A c, d \in Calls :
            /\ Exists(c) /\ Exists(d) /\ callURL[c] = callURL[d]
            /\ \A e \in asked : callURL[e] # callURL[c]
            => c = d

(***************************************************************************)
(* Liveness                                                                *)
(***************************************************************************)

\* The app loop alone empties stateC, and it blocks while it sends to actorC:
\* a call of StartDestination or StopDestination nevertheless returns.
CallsReturn == app # Nothing ~> app = Nothing

\* When a run is over, its watcher learns of it and asks to free the URL,
\* whatever else the actor, the app loop and the channels are busy with.
EndedRunIsReleased == \A c \in Calls : run[c] = "finished" ~> watcher[c] = "finished"

\* A container that a stop has listed is removed and its destLoop returns.
StopEndsRun == \A c \in Calls : c \in doomed ~> docker[c] = "removed" /\ dest[c] = "returned"

-----------------------------------------------------------------------------
(***************************************************************************)
(* What the repository says of this code and the code does not do          *)
(***************************************************************************)

\* terminal.go:1097-1099: "ensure we can limit each destination to a single
\* container".
OneContainerPerURL ==
    \A c, d \in Calls :
        /\ callURL[c] = callURL[d]
        /\ docker[c] = "running" /\ docker[d] = "running"
        => c = d

\* container.go:244-246, on RunContainer: the error channel "will be closed when
\* the container exits".  Then a container that exits is started again or its
\* run ends, however soon it exits.
ExitEndsRun ==
    \A c \in Calls : docker[c] = "exited" ~> docker[c] = "running" \/ errC[c] # "open"
=============================================================================
