-------------------------- MODULE Replicator_proofs --------------------------
(***************************************************************************)
(* Proofs about Replicator, for any set of URLs, any numbers of calls and  *)
(* stops, channels of any capacity and any of the faults.                  *)
(*                                                                         *)
(* NoStuckURL is not inductive: it counts on the watcher of a run that is  *)
(* under way, so IndInv adds that a call which is still being sent or      *)
(* queued has a watcher to come or waiting and no run (Sending, Queued),   *)
(* that doneC has a state as soon as destLoop is done and no sooner (Done) *)
(* and that a call which was not made has neither (Made).                  *)
(*                                                                         *)
(* OneRunUnlessStopped needs to know what frees a URL: every return of a   *)
(* run, by its watcher's stop. RunInv adds that, while nobody asks to      *)
(* stop a URL, one such release at most is under way (OneRelease).         *)
(*                                                                         *)
(* OneContainerUnlessStopped needs to know where the claim is while a      *)
(* container remains: ContainerInv adds that the run which left it still   *)
(* has its watcher to come, or a stop is queued or is being executed that  *)
(* has yet to list and remove it (Claimed).                                *)
(*                                                                         *)
(* Last, a start that was refused leaves its watcher waiting for good.     *)
(***************************************************************************)
EXTENDS Replicator, TLAPS

Made ==
    \A c \in Calls :
        /\ c <= calls => callURL[c] \in URLs
        /\ watcher[c] # "none" \/ dest[c] # "none" => c <= calls

Done ==
    \A c \in Calls :
        /\ doneC[c] # NoState <=> dest[c] = "returned"
        /\ watcher[c] \in {"stopping", "finished"} => doneC[c] # NoState

Sending ==
    app.op = "start" =>
        /\ app.call <= calls
        /\ callURL[app.call] = app.url
        /\ watcher[app.call] = "none"
        /\ dest[app.call] = "none"

QueuedStart(a) ==
    a.op = "start" =>
        /\ callURL[a.call] = a.url
        /\ watcher[a.call] = "waiting"
        /\ dest[a.call] = "none"

Queued ==
    /\ \A i \in DOMAIN actorC : QueuedStart(actorC[i])
    /\ \A i, j \in DOMAIN actorC :
        actorC[i].op = "start" /\ actorC[j].op = "start" /\ actorC[i].call = actorC[j].call => i = j

IndInv ==
    /\ TypeOK
    /\ Made
    /\ Done
    /\ Sending
    /\ Queued
    /\ NoStuckURL

\* Why a URL has one run until somebody asks to stop it: a call that was not
\* made has no URL (Unmade), a run has its watcher (Launched), the stops asked
\* for before the first run of a URL are ahead of its first start in the queue
\* (BeforeRuns), and since then one thing at most is under way that frees it: a
\* run whose watcher has not yet asked, a queued stop, or a stop that is being
\* executed (SinceRuns).
Unmade == \A c \in Calls : c > calls => callURL[c] = NoURL

Launched == \A c \in Calls : dest[c] # "none" => watcher[c] # "none"

Quiet(u) == \A d \in asked : callURL[d] # u

RunOf(c, u) == callURL[c] = u /\ dest[c] # "none"

Holds(c, u) == RunOf(c, u) /\ watcher[c] \in {"waiting", "stopping"}

StartOf(i, u) == actorC[i].op = "start" /\ actorC[i].url = u

BeforeRuns(u) ==
    /\ u \notin currURLs
    /\ stopping # u
    /\ \A i, j \in DOMAIN actorC : actorC[i] = Stop(u) /\ StartOf(j, u) => i < j
    /\ app = Stop(u) => \A j \in DOMAIN actorC : ~StartOf(j, u)

SinceRuns(u) ==
    /\ app # Stop(u)
    /\ \A c, d \in Calls : Holds(c, u) /\ Holds(d, u) => c = d
    /\ \A i, j \in DOMAIN actorC : actorC[i] = Stop(u) /\ actorC[j] = Stop(u) => i = j
    /\ \A c \in Calls : Holds(c, u) =>
        u \in currURLs /\ stopping # u /\ \A i \in DOMAIN actorC : actorC[i] # Stop(u)
    /\ \A i \in DOMAIN actorC : actorC[i] = Stop(u) => u \in currURLs /\ stopping # u
    /\ stopping = u => u \in currURLs

OneRelease ==
    \A u \in URLs : Quiet(u) =>
        /\ (\A c \in Calls : ~RunOf(c, u)) => BeforeRuns(u)
        /\ (\E c \in Calls : RunOf(c, u)) => SinceRuns(u)

RunInv == IndInv /\ Unmade /\ Launched /\ OneRelease

\* Why it has one container until then: a run has a destLoop, which leaves its
\* select only when the run is over (Stages), and a container, or a run that
\* may still create one, keeps its URL claimed until a stop has removed it
\* (Claimed).
Stages ==
    \A c \in Calls :
        /\ run[c] = "none" <=> dest[c] = "none"
        /\ run[c] = "finished" <=> errC[c] # "open"
        /\ dest[c] \in {"last", "returned"} => run[c] = "finished"
        /\ Exists(c) => run[c] \notin {"none", "preparing"}
        /\ run[c] \notin {"none", "finished"} => watcher[c] = "waiting"

Busy(c) == Exists(c) \/ run[c] \notin {"none", "finished"}

StopQueued(u) == \E i \in DOMAIN actorC : actorC[i] = Stop(u)

Claimed(u) ==
    \A c \in Calls : callURL[c] = u /\ Busy(c) =>
        /\ u \in currURLs
        /\ Holds(c, u) \/ StopQueued(u) \/ (stopping = u /\ c \in doomed \union {removing})
        /\ \A d \in Calls : callURL[d] = u /\ Busy(d) => d = c

ContainerInv ==
    /\ RunInv
    /\ Stages
    /\ "stop" \notin Faults => \A u \in URLs : Quiet(u) => Claimed(u)

-----------------------------------------------------------------------------
(***************************************************************************)
(* Channels                                                                *)
(***************************************************************************)

\* A channel's entries: what Append adds and Tail takes away.
LEMMA AppendEntries ==
    ASSUME NEW S, NEW s \in Seq(S), NEW e \in S
    PROVE  /\ Append(s, e) \in Seq(S)
           /\ Len(Append(s, e)) = Len(s) + 1
           /\ DOMAIN Append(s, e) = 1 .. (Len(s) + 1)
           /\ DOMAIN s = 1 .. Len(s)
           /\ Len(s) \in Nat
           /\ \A i \in 1 .. Len(s) : Append(s, e)[i] = s[i]
           /\ Append(s, e)[Len(s) + 1] = e
    OBVIOUS

LEMMA TailEntries ==
    ASSUME NEW S, NEW s \in Seq(S), s # << >>
    PROVE  /\ Head(s) \in S
           /\ Head(s) = s[1]
           /\ Tail(s) \in Seq(S)
           /\ Len(s) \in Nat \ {0}
           /\ Len(Tail(s)) = Len(s) - 1
           /\ DOMAIN Tail(s) = 1 .. (Len(s) - 1)
           /\ DOMAIN s = 1 .. Len(s)
           /\ \A i \in 1 .. (Len(s) - 1) : Tail(s)[i] = s[i + 1]
    OBVIOUS

\* The kinds of actions are told apart by their op.
LEMMA ActionFacts ==
    /\ Nothing \notin Actions
    /\ \A a \in Actions : a.op \in {"start", "stop"}
    /\ \A a \in Actions : a.op = "start" =>
          a.call \in Calls /\ a.url \in URLs /\ a = Start(a.call, a.url)
    /\ \A a \in Actions, u \in URLs : a = Stop(u) => a.op = "stop"
    /\ \A c \in Calls, u \in URLs :
          /\ Start(c, u) \in Actions
          /\ Start(c, u).op = "start" /\ Start(c, u).call = c /\ Start(c, u).url = u
    /\ \A u \in URLs : Stop(u) \in Actions /\ Stop(u).op = "stop"
    /\ \A u, v \in URLs : Stop(u) = Stop(v) => u = v
    /\ Nothing.op = "nothing"
    /\ \A u \in URLs : Stop(u) # Nothing
  <1>1. \A c \in Calls, u \in URLs :
          /\ Start(c, u) \in Actions
          /\ Start(c, u).op = "start" /\ Start(c, u).call = c /\ Start(c, u).url = u
    BY DEF Actions, Start
  <1>2. \A u \in URLs : Stop(u) \in Actions /\ Stop(u).op = "stop" /\ Stop(u).url = u
    BY DEF Actions, Stop
  <1>3. ASSUME NEW a \in Actions
        PROVE  \/ \E c \in Calls, u \in URLs : a = Start(c, u)
               \/ \E u \in URLs : a = Stop(u)
    BY DEF Actions
  <1>4. Nothing.op = "nothing"
    BY DEF Nothing
  <1>5. \A a \in Actions : a.op \in {"start", "stop"}
    BY <1>1, <1>2, <1>3
  <1>6. \A a \in Actions : a.op = "start" =>
          a.call \in Calls /\ a.url \in URLs /\ a = Start(a.call, a.url)
    BY <1>1, <1>2, <1>3
  <1>7. \A a \in Actions, u \in URLs : a = Stop(u) => a.op = "stop"
    BY <1>2
  <1>8. \A u, v \in URLs : Stop(u) = Stop(v) => u = v
    BY <1>2
  <1>9. Nothing \notin Actions /\ \A u \in URLs : Stop(u) # Nothing
    BY <1>2, <1>4, <1>5
  <1>10. QED
    BY <1>1, <1>2, <1>4, <1>5, <1>6, <1>7, <1>8, <1>9

\* A send on containerStateC keeps its type.
LEMMA SendsStateType ==
    ASSUME containerStateC \in [Calls -> Seq(ContainerStates)],
           NEW c \in Calls, NEW s \in ContainerStates, SendsState(c, s)
    PROVE  containerStateC' \in [Calls -> Seq(ContainerStates)]
  <1>1. Append(containerStateC[c], s) \in Seq(ContainerStates)
    BY AppendEntries
  <1>2. QED
    BY <1>1 DEF SendsState

-----------------------------------------------------------------------------
(***************************************************************************)
(* Frames                                                                  *)
(***************************************************************************)

\* The variables that the invariant relates to each other.
core == <<calls, callURL, app, actorC, currURLs, stopping, dest, doneC, watcher>>

\* A step that leaves them alone has only its types to show.
LEMMA CoreUnchanged ==
    ASSUME IndInv, TypeOK', UNCHANGED core
    PROVE  IndInv'
  <1>1. Made' /\ Done' /\ Sending' /\ Queued'
    BY DEF IndInv, core, Made, Done, Sending, Queued, QueuedStart
  <1>2. NoStuckURL'
    BY DEF IndInv, core, NoStuckURL, WillBeReleased, Active
  <1>3. QED
    BY <1>1, <1>2 DEF IndInv

\* What releases a URL goes on doing so if stops are not lost, and if the calls
\* whose run counts keep their URL, a watcher to come and a destLoop.
LEMMA StillReleased ==
    ASSUME NEW u, WillBeReleased(u),
           stopping = u => stopping' = u,
           app = Stop(u) => app' = Stop(u) \/ \E i \in DOMAIN actorC' : actorC'[i] = Stop(u),
           (\E i \in DOMAIN actorC : actorC[i] = Stop(u))
              => stopping' = u \/ \E i \in DOMAIN actorC' : actorC'[i] = Stop(u),
           \A c \in Calls :
              callURL[c] = u /\ watcher[c] \in {"waiting", "stopping"} /\ (Active(c) \/ doneC[c] # NoState)
                => \/ \E i \in DOMAIN actorC' : actorC'[i] = Stop(u)
                   \/ callURL'[c] = u /\ watcher'[c] \in {"waiting", "stopping"}
                        /\ (Active(c)' \/ doneC'[c] # NoState)
    PROVE  WillBeReleased(u)'
    BY DEF WillBeReleased

LEMMA InitIndInv == Init => IndInv
  <1> SUFFICES ASSUME Init PROVE IndInv
    OBVIOUS
  <1> USE ReplicatorAssumption
  <1>1. << >> \in Seq(Actions) /\ << >> \in Seq(ContainerStates)
        /\ << >> \in Seq([url : URLs, status : Statuses]) /\ Len(<< >>) = 0
    OBVIOUS
  <1>2. TypeOK
    BY <1>1 DEF Init, TypeOK, States, Statuses, NoState, Calls
  <1>3. Made /\ Done /\ Sending /\ Queued
    BY DEF Init, Made, Done, Sending, Queued, QueuedStart, Nothing, NoState, Calls
  <1>4. NoStuckURL
    BY DEF Init, NoStuckURL
  <1>5. QED
    BY <1>2, <1>3, <1>4 DEF IndInv

-----------------------------------------------------------------------------
(***************************************************************************)
(* One lemma per group of actions                                          *)
(***************************************************************************)

\* Runs and containers change nothing that the invariant relates.
LEMMA RunPreserves ==
    ASSUME IndInv, NEW c \in Calls, Run(c) \/ ContainerExits(c)
    PROVE  IndInv'
  <1> USE DEF appVars, actorVars, runVars, destVars
  <1>1. UNCHANGED core
    BY DEF core, Run, ContainerExits, RunCreates, RunStarts, RunFails, RunRegisters, WaiterAsks,
           LoopEnters, LoopReports, LoopExits, LoopWillRestart, LoopRestarts, LoopFails,
           LoopIsCancelled
  <1>2. containerStateC' \in [Calls -> Seq(ContainerStates)]
    <2> \A s \in {"created", "running", "failed", "restarting", "exited"} \union Reports :
            s \in ContainerStates
      BY ReplicatorAssumption DEF ContainerStates
    <2> containerStateC \in [Calls -> Seq(ContainerStates)]
      BY DEF IndInv, TypeOK
    <2>1. \/ UNCHANGED containerStateC
          \/ \E s \in {"created", "running", "failed", "restarting", "exited"} \union Reports :
                SendsState(c, s)
      BY DEF Run, ContainerExits, RunCreates, RunStarts, RunFails, RunRegisters, WaiterAsks,
             LoopEnters, LoopReports, LoopExits, LoopWillRestart, LoopRestarts, LoopFails,
             LoopIsCancelled
    <2>2. QED
      BY <2>1, SendsStateType
  <1>3. /\ run' \in [Calls -> {"none", "preparing", "created", "started", "registered",
                               "looping", "finished"}]
        /\ waiter' \in [Calls -> {"none", "asking", "waiting", "deaf", "timer"}]
        /\ restarted' \in SUBSET Calls
        /\ docker' \in [Calls -> {"none", "created", "running", "exited", "removed"}]
        /\ errC' \in [Calls -> {"open", "error", "closed"}]
    BY DEF IndInv, TypeOK, Run, ContainerExits, RunCreates, RunStarts, RunFails, RunRegisters,
           WaiterAsks, LoopEnters, LoopReports, LoopExits, LoopWillRestart, LoopRestarts,
           LoopFails, LoopIsCancelled, Finishes
  <1>4. UNCHANGED <<appVars, actorVars, destVars, actorC, watcher>>
    BY DEF Run, ContainerExits, RunCreates, RunStarts, RunFails, RunRegisters, WaiterAsks,
           LoopEnters, LoopReports, LoopExits, LoopWillRestart, LoopRestarts, LoopFails,
           LoopIsCancelled
  <1>5. TypeOK'
    BY <1>2, <1>3, <1>4 DEF IndInv, TypeOK
  <1>6. QED
    BY <1>1, <1>5, CoreUnchanged

\* Nor do the two steps with which the actor removes a container.
LEMMA RemovalPreserves ==
    ASSUME IndInv, NEW c \in Calls, ActorCancels(c) \/ ActorRemoves(c)
    PROVE  IndInv'
  <1> USE DEF appVars, actorVars, runVars, destVars
  <1>1. UNCHANGED core
    BY DEF core, ActorCancels, ActorRemoves
  <1>2. /\ doomed' \in SUBSET Calls
        /\ removing' \in 0 .. MaxCalls
        /\ cancelled' \in SUBSET Calls
        /\ docker' \in [Calls -> {"none", "created", "running", "exited", "removed"}]
    <2>1. /\ doomed \in SUBSET Calls
          /\ removing \in 0 .. MaxCalls
          /\ cancelled \in SUBSET Calls
          /\ docker \in [Calls -> {"none", "created", "running", "exited", "removed"}]
      BY DEF IndInv, TypeOK
    <2>2. c \in 0 .. MaxCalls /\ 0 \in 0 .. MaxCalls
      BY ReplicatorAssumption DEF Calls
    <2>3. CASE ActorCancels(c)
      BY <2>1, <2>2, <2>3 DEF ActorCancels
    <2>4. CASE ActorRemoves(c)
      BY <2>1, <2>2, <2>4 DEF ActorRemoves
    <2>5. QED
      BY <2>3, <2>4
  <1>3. TypeOK'
    BY <1>2 DEF IndInv, TypeOK, ActorCancels, ActorRemoves
  <1>4. QED
    BY <1>1, <1>3, CoreUnchanged

\* A destLoop that sends its state has a URL to send it with.
LEMMA DestSendsType ==
    ASSUME IndInv, NEW c \in Calls, dest[c] # "none", DestSendsState(c)
    PROVE  /\ stateC' \in Seq([url : URLs, status : Statuses])
           /\ Len(stateC') <= ChanSize
  <1>1. stateC \in Seq([url : URLs, status : Statuses])
    BY DEF IndInv, TypeOK
  <1>2. callURL[c] \in URLs /\ state[c].status \in Statuses
    BY DEF IndInv, TypeOK, Made, States
  <1>3. QED
    BY <1>1, <1>2, AppendEntries, ReplicatorAssumption DEF DestSendsState

\* A destLoop that goes on still counts; one that returns has sent on doneC.
LEMMA DestPreserves ==
    ASSUME IndInv, NEW c \in Calls, Dest(c)
    PROVE  IndInv'
  <1> USE DEF appVars, actorVars, runVars, destVars
  <1>1. /\ dest[c] \in {"select", "send", "last"}
        /\ UNCHANGED <<appVars, actorVars, run, waiter, restarted, docker, errC, actorC, watcher>>
    BY DEF Dest, DestReceives, DestEnds, DestSends, DestReturns
  <1>2. TypeOK'
    <2>1. \A s : StatusOf(s) \in Statuses
      BY DEF StatusOf, Statuses
    <2>2. /\ state' \in [Calls -> States]
          /\ containerStateC' \in [Calls -> Seq(ContainerStates)]
      <3>1. containerStateC[c] # << >> => Tail(containerStateC[c]) \in Seq(ContainerStates)
        BY TailEntries DEF IndInv, TypeOK
      <3>2. CASE DestReceives(c)
        BY <2>1, <3>1, <3>2 DEF DestReceives, IndInv, TypeOK, States
      <3>3. CASE DestEnds(c)
        BY <3>3 DEF DestEnds, IndInv, TypeOK, States
      <3>4. CASE DestSends(c) \/ DestReturns(c)
        BY <3>4 DEF DestSends, DestReturns, IndInv, TypeOK
      <3>5. QED
        BY <3>2, <3>3, <3>4 DEF Dest
    <2>3. stateC' \in Seq([url : URLs, status : Statuses]) /\ Len(stateC') <= ChanSize
      <3>1. \/ DestSendsState(c)
            \/ UNCHANGED stateC
        BY DEF Dest, DestReceives, DestEnds, DestSends, DestReturns
      <3>2. QED
        BY <1>1, <3>1, DestSendsType DEF IndInv, TypeOK
    <2>4. dest' \in [Calls -> {"none", "select", "send", "last", "returned"}]
      <3>1. dest \in [Calls -> {"none", "select", "send", "last", "returned"}]
        BY DEF IndInv, TypeOK
      <3>2. \E p \in {"select", "send", "last", "returned"} : dest' = [dest EXCEPT ![c] = p]
        BY DEF Dest, DestReceives, DestEnds, DestSends, DestReturns
      <3>3. QED
        BY <3>1, <3>2
    <2>5. doneC' \in [Calls -> States \union {NoState}]
      <3>1. doneC \in [Calls -> States \union {NoState}] /\ state[c] \in States
        BY DEF IndInv, TypeOK
      <3>2. UNCHANGED doneC \/ doneC' = [doneC EXCEPT ![c] = state[c]]
        BY DEF Dest, DestReceives, DestEnds, DestSends, DestReturns
      <3>3. QED
        BY <3>1, <3>2
    <2>6. QED
      BY <1>1, <2>2, <2>3, <2>4, <2>5 DEF IndInv, TypeOK
  <1>3. /\ \/ Active(c)' /\ UNCHANGED doneC
           \/ dest'[c] = "returned" /\ doneC' = [doneC EXCEPT ![c] = state[c]]
        /\ \A d \in Calls : d # c => dest'[d] = dest[d]
        /\ dest'[c] # "none"
    BY DEF Dest, DestReceives, DestEnds, DestSends, DestReturns, Active, IndInv, TypeOK
  <1>4. doneC[c] = NoState /\ state[c] # NoState
    <2>1. state[c].status \in Statuses
      BY DEF IndInv, TypeOK, States
    <2>2. state[c].status # "none"
      BY <2>1 DEF Statuses
    <2>3. doneC[c] = NoState
      BY <1>1 DEF IndInv, Done
    <2>4. QED
      BY <2>2, <2>3 DEF NoState
  <1>5. /\ \A d \in Calls : d # c => doneC'[d] = doneC[d]
        /\ doneC'[c] # NoState <=> dest'[c] = "returned"
    BY <1>3, <1>4 DEF Active, IndInv, TypeOK
  <1>6. Made'
    BY <1>1, <1>3 DEF IndInv, Made
  <1>7. Done'
    BY <1>1, <1>3, <1>4, <1>5 DEF IndInv, Done
  <1>8. Sending'
    <2>1. app.op = "start" => app.call # c /\ app.call \in Calls
      BY <1>1, ActionFacts DEF IndInv, TypeOK, Sending
    <2>2. QED
      BY <1>1, <1>3, <2>1 DEF IndInv, Sending
  <1>9. Queued'
    <2>1. ASSUME NEW i \in DOMAIN actorC, actorC[i].op = "start"
          PROVE  actorC[i].call # c /\ actorC[i].call \in Calls
      <3>1. actorC[i] \in Actions
        BY DEF IndInv, TypeOK
      <3>2. QED
        BY <1>1, <2>1, <3>1, ActionFacts DEF IndInv, Queued, QueuedStart
    <2>2. QED
      BY <1>1, <1>3, <2>1 DEF IndInv, Queued, QueuedStart
  <1>10. NoStuckURL'
    <2>1. \A d \in Calls : Active(d) \/ doneC[d] # NoState => Active(d)' \/ doneC'[d] # NoState
      BY <1>1, <1>3, <1>5 DEF Active
    <2>2. ASSUME NEW u, WillBeReleased(u)
          PROVE  WillBeReleased(u)'
      BY <1>1, <2>1, <2>2, StillReleased
    <2>3. QED
      BY <1>1, <2>2 DEF IndInv, NoStuckURL
  <1>11. QED
    BY <1>2, <1>6, <1>7, <1>8, <1>9, <1>10 DEF IndInv

\* The types that most steps of the app loop, watchers and actor rely on.
LEMMA CoreTypes ==
    ASSUME IndInv
    PROVE  /\ calls \in 0 .. MaxCalls
           /\ callURL \in [Calls -> URLs \union {NoURL}]
           /\ app \in Actions \union {Nothing}
           /\ actorC \in Seq(Actions) /\ Len(actorC) <= ChanSize
           /\ currURLs \in SUBSET URLs
           /\ stopping \in URLs \union {NoURL}
           /\ dest \in [Calls -> {"none", "select", "send", "last", "returned"}]
           /\ doneC \in [Calls -> States \union {NoState}]
           /\ watcher \in [Calls -> {"none", "waiting", "stopping", "finished"}]
           /\ ChanSize \in Nat \ {0} /\ MaxCalls \in Nat /\ NoURL \notin URLs
    BY ReplicatorAssumption DEF IndInv, TypeOK

\* A new call has neither a watcher nor a run, and no call of its number is queued.
LEMMA AppStartPreserves ==
    ASSUME IndInv, NEW u \in URLs, AppStart(u)
    PROVE  IndInv'
  <1> USE DEF appVars, actorVars, runVars, destVars
  <1> DEFINE n == calls + 1
  <1>1. n \in Calls /\ calls' = n /\ n \in 0 .. MaxCalls
    BY CoreTypes DEF AppStart, Calls
  <1>2. /\ app = Nothing /\ app' = Start(n, u)
        /\ callURL' = [callURL EXCEPT ![n] = u]
        /\ UNCHANGED <<stops, asked, view, actorVars, runVars, destVars, actorC, watcher>>
    BY DEF AppStart
  <1>3. watcher[n] = "none" /\ dest[n] = "none"
    BY <1>1, CoreTypes DEF IndInv, Made
  <1>4. /\ callURL' \in [Calls -> URLs \union {NoURL}]
        /\ \A c \in Calls : c # n => callURL'[c] = callURL[c]
        /\ callURL'[n] = u
    BY <1>1, <1>2, CoreTypes
  <1>5. /\ app' \in Actions /\ app'.op = "start" /\ app'.call = n /\ app'.url = u
    BY <1>1, <1>2, ActionFacts
  <1>6. TypeOK'
    BY <1>1, <1>2, <1>4, <1>5 DEF IndInv, TypeOK
  <1>7. Made'
    BY <1>1, <1>2, <1>3, <1>4, CoreTypes DEF IndInv, Made, Calls
  <1>8. Done'
    BY <1>2 DEF IndInv, Done
  <1>9. Sending'
    BY <1>1, <1>2, <1>3, <1>4, <1>5 DEF Sending
  <1>10. Queued'
    <2>1. ASSUME NEW i \in DOMAIN actorC, actorC[i].op = "start"
          PROVE  actorC[i].call \in Calls /\ actorC[i].call # n
      <3>1. actorC[i] \in Actions
        BY CoreTypes
      <3>2. QED
        BY <1>3, <2>1, <3>1, ActionFacts DEF IndInv, Queued, QueuedStart
    <2>2. QED
      BY <1>2, <1>4, <2>1 DEF IndInv, Queued, QueuedStart
  <1>11. NoStuckURL'
    <2>1. \A v \in URLs : app # Stop(v)
      BY <1>2, ActionFacts
    <2>2. ASSUME NEW v \in URLs, WillBeReleased(v)
          PROVE  WillBeReleased(v)'
      <3>1. \A c \in Calls : watcher[c] # "none" => callURL'[c] = callURL[c]
        BY <1>3, <1>4
      <3>2. QED
        BY <1>2, <2>1, <2>2, <3>1, StillReleased DEF Active
    <2>3. QED
      BY <1>2, <2>2, CoreTypes DEF IndInv, NoStuckURL
  <1>12. QED
    BY <1>6, <1>7, <1>8, <1>9, <1>10, <1>11 DEF IndInv

LEMMA AppStopPreserves ==
    ASSUME IndInv, NEW u \in URLs, AppStop(u)
    PROVE  IndInv'
  <1> USE DEF appVars, actorVars, runVars, destVars
  <1>1. /\ app = Nothing /\ app' = Stop(u)
        /\ UNCHANGED <<calls, callURL, view, actorVars, runVars, destVars, actorC, watcher>>
    BY DEF AppStop
  <1>2. app' \in Actions /\ app'.op = "stop"
    BY <1>1, ActionFacts
  <1>3. TypeOK'
    <2>1. stops' \in 0 .. MaxStops /\ asked' \in SUBSET Calls
      BY ReplicatorAssumption DEF AppStop, IndInv, TypeOK
    <2>2. QED
      BY <1>1, <1>2, <2>1 DEF IndInv, TypeOK
  <1>4. Made' /\ Done' /\ Sending' /\ Queued'
    BY <1>1, <1>2 DEF IndInv, Made, Done, Sending, Queued, QueuedStart
  <1>5. NoStuckURL'
    <2>1. \A v \in URLs : app # Stop(v)
      BY <1>1, ActionFacts
    <2>2. ASSUME NEW v \in URLs, WillBeReleased(v)
          PROVE  WillBeReleased(v)'
      BY <1>1, <2>1, <2>2, StillReleased DEF Active
    <2>3. QED
      BY <1>1, <2>2, CoreTypes DEF IndInv, NoStuckURL
  <1>6. QED
    BY <1>3, <1>4, <1>5 DEF IndInv

\* A call's watcher waits as soon as its action is in the queue.
LEMMA AppSendsPreserves ==
    ASSUME IndInv, AppSends
    PROVE  IndInv'
  <1> USE DEF appVars, actorVars, runVars, destVars
  <1>1. /\ app \in Actions
        /\ Len(actorC) < ChanSize /\ actorC' = Append(actorC, app)
        /\ app' = Nothing
        /\ watcher' = IF app.op = "start" THEN [watcher EXCEPT ![app.call] = "waiting"] ELSE watcher
        /\ UNCHANGED <<calls, callURL, stops, asked, view, actorVars, runVars, destVars>>
    BY CoreTypes DEF AppSends
  <1> DEFINE n == Len(actorC) + 1
  <1>2. /\ actorC' \in Seq(Actions) /\ Len(actorC') <= ChanSize
        /\ DOMAIN actorC' = 1 .. n
        /\ DOMAIN actorC = 1 .. Len(actorC)
        /\ Len(actorC) \in Nat
        /\ \A i \in DOMAIN actorC : i \in DOMAIN actorC' /\ actorC'[i] = actorC[i]
        /\ actorC'[n] = app
        /\ \A i \in DOMAIN actorC' : i \in DOMAIN actorC \/ i = n
    BY <1>1, CoreTypes, AppendEntries
  <1>3. app.op = "start" => app.call \in Calls /\ app.url \in URLs
    BY <1>1, ActionFacts
  <1>4. /\ watcher' \in [Calls -> {"none", "waiting", "stopping", "finished"}]
        /\ \A c \in Calls : watcher'[c] # watcher[c] =>
              app.op = "start" /\ c = app.call /\ watcher'[c] = "waiting" /\ watcher[c] = "none"
        /\ app.op = "start" => watcher'[app.call] = "waiting"
    BY <1>1, <1>3, CoreTypes DEF IndInv, Sending
  <1>5. TypeOK'
    BY <1>1, <1>2, <1>4 DEF IndInv, TypeOK
  <1>6. Made' /\ Done'
    BY <1>1, <1>4 DEF IndInv, Made, Done, Sending
  <1>7. Sending'
    BY <1>1, ActionFacts DEF Sending
  <1>8. Queued'
    <2>1. ASSUME NEW i \in DOMAIN actorC, actorC[i].op = "start"
          PROVE  /\ callURL'[actorC[i].call] = actorC[i].url
                 /\ watcher'[actorC[i].call] = "waiting"
                 /\ dest'[actorC[i].call] = "none"
                 /\ app.op = "start" => actorC[i].call # app.call
      <3>1. actorC[i] \in Actions /\ QueuedStart(actorC[i])
        BY CoreTypes DEF IndInv, Queued
      <3>2. actorC[i].call \in Calls
        BY <2>1, <3>1, ActionFacts
      <3>3. QED
        BY <1>1, <1>4, <2>1, <3>1, <3>2 DEF QueuedStart, IndInv, Sending
    <2>2. app.op = "start" =>
            /\ callURL'[app.call] = app.url
            /\ watcher'[app.call] = "waiting"
            /\ dest'[app.call] = "none"
      BY <1>1, <1>4 DEF IndInv, Sending
    <2>3. \A i \in DOMAIN actorC' : actorC'[i].op = "start" =>
            /\ callURL'[actorC'[i].call] = actorC'[i].url
            /\ watcher'[actorC'[i].call] = "waiting"
            /\ dest'[actorC'[i].call] = "none"
      BY <1>2, <2>1, <2>2
    <2>4. ASSUME NEW i \in DOMAIN actorC', NEW j \in DOMAIN actorC',
                 actorC'[i].op = "start", actorC'[j].op = "start",
                 actorC'[i].call = actorC'[j].call
          PROVE  i = j
      <3>1. CASE i \in DOMAIN actorC /\ j \in DOMAIN actorC
        BY <1>2, <2>4, <3>1 DEF IndInv, Queued
      <3>2. CASE i = n \/ j = n
        BY <1>2, <2>1, <2>4, <3>2
      <3>3. QED
        BY <1>2, <3>1, <3>2
    <2>5. QED
      BY <2>3, <2>4 DEF Queued, QueuedStart
  <1>9. NoStuckURL'
    <2>1. n \in DOMAIN actorC'
      BY <1>2
    <2>2. ASSUME NEW v \in URLs, WillBeReleased(v)
          PROVE  WillBeReleased(v)'
      <3>1. app = Stop(v) => \E i \in DOMAIN actorC' : actorC'[i] = Stop(v)
        BY <1>2, <2>1
      <3>2. (\E i \in DOMAIN actorC : actorC[i] = Stop(v))
               => \E i \in DOMAIN actorC' : actorC'[i] = Stop(v)
        BY <1>2
      <3>3. \A c \in Calls : watcher[c] \in {"waiting", "stopping"} => watcher'[c] = watcher[c]
        BY <1>4
      <3>4. QED
        BY <1>1, <2>2, <3>1, <3>2, <3>3, StillReleased DEF Active
    <2>3. QED
      BY <1>1, <2>2, CoreTypes DEF IndInv, NoStuckURL
  <1>10. QED
    BY <1>5, <1>6, <1>7, <1>8, <1>9 DEF IndInv

LEMMA AppReceivesPreserves ==
    ASSUME IndInv, AppReceives
    PROVE  IndInv'
  <1> USE DEF appVars, actorVars, runVars, destVars
  <1>1. UNCHANGED core
    BY DEF core, AppReceives
  <1>2. /\ stateC' \in Seq([url : URLs, status : Statuses]) /\ Len(stateC') <= ChanSize
        /\ Head(stateC) \in [url : URLs, status : Statuses]
    <2> DEFINE Sent == [url : URLs, status : Statuses]
    <2>1. stateC \in Seq(Sent) /\ Len(stateC) <= ChanSize
          /\ stateC # << >> /\ stateC' = Tail(stateC)
      BY DEF AppReceives, IndInv, TypeOK
    <2> HIDE DEF Sent
    <2>2. /\ Head(stateC) \in Sent /\ stateC' \in Seq(Sent)
          /\ Len(stateC) \in Nat \ {0} /\ Len(stateC') = Len(stateC) - 1
      BY <2>1, TailEntries
    <2>3. Len(stateC') <= ChanSize
      BY <2>1, <2>2, ReplicatorAssumption
    <2>4. QED
      BY <2>2, <2>3 DEF Sent
  <1>3. view' \in [URLs -> Statuses]
    BY <1>2 DEF AppReceives, IndInv, TypeOK
  <1>4. TypeOK'
    BY <1>2, <1>3 DEF AppReceives, IndInv, TypeOK
  <1>5. QED
    BY <1>1, <1>4, CoreUnchanged

LEMMA WatcherReceivesPreserves ==
    ASSUME IndInv, NEW c \in Calls, WatcherReceives(c)
    PROVE  IndInv'
  <1> USE DEF appVars, actorVars, runVars, destVars
  <1>1. /\ watcher[c] = "waiting" /\ doneC[c] # NoState
        /\ watcher' = [watcher EXCEPT ![c] = "stopping"]
        /\ UNCHANGED <<appVars, actorVars, runVars, destVars, actorC>>
    BY DEF WatcherReceives
  <1>2. /\ watcher' \in [Calls -> {"none", "waiting", "stopping", "finished"}]
        /\ watcher'[c] = "stopping"
        /\ \A d \in Calls : d # c => watcher'[d] = watcher[d]
    BY <1>1, CoreTypes
  <1>3. TypeOK'
    BY <1>1, <1>2 DEF IndInv, TypeOK
  <1>4. Made' /\ Done'
    BY <1>1, <1>2 DEF IndInv, Made, Done
  <1>5. dest[c] = "returned"
    BY <1>1 DEF IndInv, Done
  <1>6. Sending'
    BY <1>1, <1>2, <1>5, ActionFacts, CoreTypes DEF IndInv, Sending
  <1>7. Queued'
    <2>1. ASSUME NEW i \in DOMAIN actorC, actorC[i].op = "start"
          PROVE  actorC[i].call # c /\ actorC[i].call \in Calls
      <3>1. actorC[i] \in Actions
        BY CoreTypes
      <3>2. QED
        BY <1>5, <2>1, <3>1, ActionFacts DEF IndInv, Queued, QueuedStart
    <2>2. QED
      BY <1>1, <1>2, <2>1 DEF IndInv, Queued, QueuedStart
  <1>8. NoStuckURL'
    <2>1. \A d \in Calls : watcher[d] \in {"waiting", "stopping"} => watcher'[d] \in {"waiting", "stopping"}
      BY <1>2
    <2>2. ASSUME NEW v \in URLs, WillBeReleased(v)
          PROVE  WillBeReleased(v)'
      BY <1>1, <2>1, <2>2, StillReleased DEF Active
    <2>3. QED
      BY <1>1, <2>2, CoreTypes DEF IndInv, NoStuckURL
  <1>9. QED
    BY <1>3, <1>4, <1>6, <1>7, <1>8 DEF IndInv

\* The watcher's own stop takes over from it.
LEMMA WatcherStopsPreserves ==
    ASSUME IndInv, NEW c \in Calls, WatcherStops(c)
    PROVE  IndInv'
  <1> USE DEF appVars, actorVars, runVars, destVars
  <1>1. /\ watcher[c] = "stopping"
        /\ Len(actorC) < ChanSize /\ actorC' = Append(actorC, Stop(callURL[c]))
        /\ watcher' = [watcher EXCEPT ![c] = "finished"]
        /\ UNCHANGED <<appVars, actorVars, runVars, destVars>>
    BY DEF WatcherStops
  <1>2. doneC[c] # NoState /\ dest[c] = "returned" /\ callURL[c] \in URLs
    BY <1>1 DEF IndInv, Done, Made
  <1>3. Stop(callURL[c]) \in Actions /\ Stop(callURL[c]).op = "stop"
    BY <1>2, ActionFacts
  <1> DEFINE n == Len(actorC) + 1
  <1>4. /\ actorC' \in Seq(Actions) /\ Len(actorC') <= ChanSize
        /\ n \in DOMAIN actorC' /\ actorC'[n] = Stop(callURL[c])
        /\ \A i \in DOMAIN actorC : i \in DOMAIN actorC' /\ actorC'[i] = actorC[i]
        /\ \A i \in DOMAIN actorC' : i \in DOMAIN actorC \/ i = n
    BY <1>1, <1>3, CoreTypes, AppendEntries
  <1>5. /\ watcher' \in [Calls -> {"none", "waiting", "stopping", "finished"}]
        /\ watcher'[c] = "finished"
        /\ \A d \in Calls : d # c => watcher'[d] = watcher[d]
    BY <1>1, CoreTypes
  <1>6. TypeOK'
    BY <1>1, <1>4, <1>5 DEF IndInv, TypeOK
  <1>7. Made' /\ Done'
    BY <1>1, <1>2, <1>5 DEF IndInv, Made, Done
  <1>8. Sending'
    BY <1>1, <1>2, <1>5, ActionFacts, CoreTypes DEF IndInv, Sending
  <1>9. Queued'
    <2>1. ASSUME NEW i \in DOMAIN actorC', actorC'[i].op = "start"
          PROVE  /\ i \in DOMAIN actorC /\ actorC'[i] = actorC[i]
                 /\ actorC[i].call \in Calls /\ actorC[i].call # c
      <3>1. i \in DOMAIN actorC /\ actorC'[i] = actorC[i]
        BY <1>3, <1>4, <2>1
      <3>2. actorC[i] \in Actions
        BY <3>1, CoreTypes
      <3>3. QED
        BY <1>2, <2>1, <3>1, <3>2, ActionFacts DEF IndInv, Queued, QueuedStart
    <2>2. QED
      BY <1>1, <1>5, <2>1 DEF IndInv, Queued, QueuedStart
  <1>10. NoStuckURL'
    <2>1. ASSUME NEW v \in URLs, WillBeReleased(v)
          PROVE  WillBeReleased(v)'
      <3>1. \A d \in Calls : callURL[d] = v /\ watcher[d] \in {"waiting", "stopping"} =>
              \/ actorC'[n] = Stop(v)
              \/ watcher'[d] = watcher[d]
        BY <1>4, <1>5
      <3>2. QED
        BY <1>1, <1>4, <2>1, <3>1, StillReleased DEF Active
    <2>2. QED
      BY <1>1, <2>1, CoreTypes DEF IndInv, NoStuckURL
  <1>11. QED
    BY <1>6, <1>7, <1>8, <1>9, <1>10 DEF IndInv

\* Taking an action leaves the others in the queue.
LEMMA Taking ==
    ASSUME IndInv, NEW a \in Actions, ActorTakes(a)
    PROVE  /\ stopping = NoURL
           /\ actorC' \in Seq(Actions) /\ Len(actorC') <= ChanSize
           /\ 1 \in DOMAIN actorC /\ actorC[1] = a
           /\ \A i \in DOMAIN actorC' : /\ i + 1 \in DOMAIN actorC /\ i \in Nat
                                        /\ i + 1 # 1
                                        /\ actorC'[i] = actorC[i + 1]
           /\ \A b : b # a /\ (\E i \in DOMAIN actorC : actorC[i] = b)
                        => \E i \in DOMAIN actorC' : actorC'[i] = b
  <1>1. /\ stopping = NoURL /\ actorC # << >> /\ Head(actorC) = a /\ actorC' = Tail(actorC)
        /\ actorC \in Seq(Actions) /\ Len(actorC) <= ChanSize /\ ChanSize \in Nat
    BY CoreTypes DEF ActorTakes
  <1>2. /\ Head(actorC) = actorC[1]
        /\ actorC' \in Seq(Actions)
        /\ Len(actorC) \in Nat \ {0}
        /\ Len(actorC') = Len(actorC) - 1
        /\ DOMAIN actorC' = 1 .. (Len(actorC) - 1)
        /\ DOMAIN actorC = 1 .. Len(actorC)
        /\ \A i \in 1 .. (Len(actorC) - 1) : actorC'[i] = actorC[i + 1]
    BY <1>1, TailEntries
  <1>3. ASSUME NEW i \in DOMAIN actorC, actorC[i] # a
        PROVE  i - 1 \in DOMAIN actorC' /\ actorC'[i - 1] = actorC[i]
    BY <1>1, <1>2, <1>3
  <1>4. ASSUME NEW i \in DOMAIN actorC'
        PROVE  i + 1 \in DOMAIN actorC /\ i \in Nat /\ i + 1 # 1 /\ actorC'[i] = actorC[i + 1]
    BY <1>2
  <1>5. ASSUME NEW b, b # a, NEW i \in DOMAIN actorC, actorC[i] = b
        PROVE  \E j \in DOMAIN actorC' : actorC'[j] = b
    BY <1>3, <1>5
  <1>6. 1 \in DOMAIN actorC /\ actorC[1] = a /\ Len(actorC') <= ChanSize
    BY <1>1, <1>2
  <1>7. QED
    BY <1>1, <1>2, <1>4, <1>5, <1>6

\* The actor's queue keeps its starts when the actor takes an action.
LEMMA TakingQueued ==
    ASSUME IndInv, NEW a \in Actions, ActorTakes(a), UNCHANGED <<callURL, watcher>>,
           \A c \in Calls : (a.op = "start" /\ a.call = c) \/ dest'[c] = dest[c]
    PROVE  Queued'
  <1>1. ASSUME NEW i \in DOMAIN actorC', actorC'[i].op = "start"
        PROVE  /\ callURL[actorC'[i].call] = actorC'[i].url
               /\ watcher[actorC'[i].call] = "waiting"
               /\ dest'[actorC'[i].call] = "none"
    <2>1. /\ 1 \in DOMAIN actorC /\ actorC[1] = a
          /\ i + 1 \in DOMAIN actorC /\ i + 1 # 1 /\ actorC'[i] = actorC[i + 1]
      BY Taking
    <2>2. QueuedStart(actorC[i + 1]) /\ actorC[i + 1] \in Actions
      BY <2>1, CoreTypes DEF IndInv, Queued
    <2>3. actorC[i + 1].call \in Calls
      BY <1>1, <2>1, <2>2, ActionFacts
    <2>4. ~(a.op = "start" /\ a.call = actorC[i + 1].call)
      BY <1>1, <2>1 DEF IndInv, Queued
    <2>5. QED
      BY <1>1, <2>1, <2>2, <2>3, <2>4 DEF QueuedStart
  <1>2. ASSUME NEW i \in DOMAIN actorC', NEW j \in DOMAIN actorC',
               actorC'[i].op = "start", actorC'[j].op = "start",
               actorC'[i].call = actorC'[j].call
        PROVE  i = j
    <2>1. /\ i + 1 \in DOMAIN actorC /\ actorC'[i] = actorC[i + 1] /\ i \in Nat
          /\ j + 1 \in DOMAIN actorC /\ actorC'[j] = actorC[j + 1] /\ j \in Nat
      BY Taking
    <2>2. i + 1 = j + 1
      BY <1>2, <2>1 DEF IndInv, Queued
    <2>3. QED
      BY <2>1, <2>2
  <1>3. QED
    BY <1>1, <1>2 DEF Queued, QueuedStart

\* A start either claims its URL and gets a destLoop to count on, or is ignored.
LEMMA ActorStartsPreserves ==
    ASSUME IndInv, NEW c \in Calls, NEW u \in URLs, ActorStarts(c, u)
    PROVE  IndInv'
  <1> USE DEF appVars, actorVars, runVars, destVars
  <1> DEFINE a == Start(c, u)
  <1>1. /\ ActorTakes(a)
        /\ UNCHANGED <<appVars, stopping, doomed, removing, cancelled, waiter, restarted, docker,
                       containerStateC, errC, state, doneC, stateC, watcher>>
    BY DEF ActorStarts
  <1>2. a \in Actions /\ a.op = "start" /\ a.call = c /\ a.url = u
    BY ActionFacts
  <1>3. /\ 1 \in DOMAIN actorC /\ actorC[1] = a
        /\ actorC' \in Seq(Actions) /\ Len(actorC') <= ChanSize
    BY <1>1, <1>2, Taking
  <1>4. callURL[c] = u /\ watcher[c] = "waiting" /\ dest[c] = "none"
    BY <1>2, <1>3 DEF IndInv, Queued, QueuedStart
  <1>5. /\ run' \in [Calls -> {"none", "preparing", "created", "started", "registered",
                               "looping", "finished"}]
        /\ dest' \in [Calls -> {"none", "select", "send", "last", "returned"}]
        /\ currURLs' \in SUBSET URLs
        /\ \A d \in Calls : d = c \/ dest'[d] = dest[d]
        /\ \/ UNCHANGED <<currURLs, dest>>
           \/ currURLs' = currURLs \union {u} /\ dest'[c] = "select"
    <2>1. /\ run \in [Calls -> {"none", "preparing", "created", "started", "registered",
                                "looping", "finished"}]
          /\ dest \in [Calls -> {"none", "select", "send", "last", "returned"}]
          /\ currURLs \in SUBSET URLs
      BY DEF IndInv, TypeOK
    <2>2. CASE u \in currURLs
      BY <2>1, <2>2 DEF ActorStarts
    <2>3. CASE u \notin currURLs
      BY <2>1, <2>3 DEF ActorStarts
    <2>4. QED
      BY <2>2, <2>3
  <1>6. TypeOK'
    BY <1>1, <1>3, <1>5 DEF IndInv, TypeOK
  <1>7. Made'
    BY <1>1, <1>4, <1>5 DEF IndInv, Made
  <1>8. Done'
    BY <1>1, <1>4, <1>5 DEF IndInv, Done
  <1>9. Sending'
    BY <1>1, <1>4, <1>5, ActionFacts, CoreTypes DEF IndInv, Sending
  <1>10. Queued'
    BY <1>1, <1>2, <1>5, TakingQueued
  <1>11. NoStuckURL'
    <2>1. ASSUME NEW v \in URLs, WillBeReleased(v)
          PROVE  WillBeReleased(v)'
      <3>1. Stop(v) # a
        BY <1>2, ActionFacts
      <3>2. (\E i \in DOMAIN actorC : actorC[i] = Stop(v))
               => \E i \in DOMAIN actorC' : actorC'[i] = Stop(v)
        BY <1>1, <1>2, <3>1, Taking
      <3>3. \A d \in Calls : Active(d) => Active(d)'
        BY <1>4, <1>5 DEF Active
      <3>4. QED
        BY <1>1, <2>1, <3>2, <3>3, StillReleased
    <2>2. dest'[c] = "select" => WillBeReleased(u)'
      BY <1>1, <1>4 DEF WillBeReleased, Active
    <2>3. QED
      BY <1>5, <2>1, <2>2, CoreTypes DEF IndInv, NoStuckURL
  <1>12. QED
    BY <1>6, <1>7, <1>8, <1>9, <1>10, <1>11 DEF IndInv

\* A stop is ignored for a URL that is free; otherwise the actor frees it.
LEMMA ActorStopsPreserves ==
    ASSUME IndInv, NEW u \in URLs, ActorStops(u)
    PROVE  IndInv'
  <1> USE DEF appVars, actorVars, runVars, destVars
  <1> DEFINE a == Stop(u)
  <1>1. /\ ActorTakes(a)
        /\ UNCHANGED <<appVars, currURLs, removing, cancelled, runVars, destVars, watcher>>
        /\ u \in currURLs => stopping' = u
        /\ u \notin currURLs => UNCHANGED stopping
    BY DEF ActorStops
  <1>2. a \in Actions /\ a.op = "stop"
    BY ActionFacts
  <1>3. /\ stopping = NoURL /\ NoURL \notin URLs
        /\ actorC' \in Seq(Actions) /\ Len(actorC') <= ChanSize
    BY <1>1, <1>2, Taking, CoreTypes
  <1>4. TypeOK'
    <2>1. doomed' \in SUBSET Calls
      BY DEF ActorStops, IndInv, TypeOK
    <2>2. stopping' \in URLs \union {NoURL}
      BY <1>1, CoreTypes
    <2>3. QED
      BY <1>1, <1>3, <2>1, <2>2 DEF IndInv, TypeOK
  <1>5. Made' /\ Done' /\ Sending'
    BY <1>1 DEF IndInv, Made, Done, Sending
  <1>6. Queued'
    BY <1>1, <1>2, TakingQueued
  <1>7. NoStuckURL'
    <2>1. ASSUME NEW v \in currURLs, WillBeReleased(v), v # u
          PROVE  WillBeReleased(v)'
      <3>1. v \in URLs /\ Stop(v) # a
        BY <2>1, CoreTypes, ActionFacts
      <3>2. (\E i \in DOMAIN actorC : actorC[i] = Stop(v))
               => \E i \in DOMAIN actorC' : actorC'[i] = Stop(v)
        BY <1>1, <1>2, <3>1, Taking
      <3>3. stopping # v
        BY <1>3, <3>1
      <3>4. QED
        BY <1>1, <2>1, <3>2, <3>3, StillReleased DEF Active
    <2>2. u \in currURLs => WillBeReleased(u)'
      BY <1>1 DEF WillBeReleased
    <2>3. QED
      BY <1>1, <2>1, <2>2 DEF IndInv, NoStuckURL
  <1>8. QED
    BY <1>4, <1>5, <1>6, <1>7 DEF IndInv

\* Only the URL that is freed loses what was to free it.
LEMMA ActorReleasesPreserves ==
    ASSUME IndInv, ActorReleases
    PROVE  IndInv'
  <1> USE DEF appVars, actorVars, runVars, destVars
  <1>1. /\ currURLs' = currURLs \ {stopping} /\ stopping' = NoURL
        /\ UNCHANGED <<appVars, doomed, removing, cancelled, runVars, destVars, actorC, watcher>>
    BY DEF ActorReleases
  <1>2. TypeOK'
    BY <1>1 DEF IndInv, TypeOK
  <1>3. Made' /\ Done' /\ Sending' /\ Queued'
    BY <1>1 DEF IndInv, Made, Done, Sending, Queued, QueuedStart
  <1>4. NoStuckURL'
    <2>1. ASSUME NEW v \in currURLs, v # stopping, WillBeReleased(v)
          PROVE  WillBeReleased(v)'
      BY <1>1, <2>1, StillReleased DEF Active
    <2>2. QED
      BY <1>1, <2>1 DEF IndInv, NoStuckURL
  <1>5. QED
    BY <1>2, <1>3, <1>4 DEF IndInv

LEMMA StutterPreserves ==
    ASSUME IndInv, UNCHANGED vars
    PROVE  IndInv'
  <1>1. UNCHANGED core
    BY DEF core, vars, appVars, actorVars, runVars, destVars
  <1>2. TypeOK'
    BY DEF IndInv, TypeOK, vars, appVars, actorVars, runVars, destVars
  <1>3. QED
    BY <1>1, <1>2, CoreUnchanged

-----------------------------------------------------------------------------
(***************************************************************************)
(* The theorems                                                            *)
(***************************************************************************)

LEMMA NextIndInv == IndInv /\ [Next]_vars => IndInv'
  <1> SUFFICES ASSUME IndInv, [Next]_vars PROVE IndInv'
    OBVIOUS
  <1>1. ASSUME NEW u \in URLs, AppStart(u) PROVE IndInv'
    BY <1>1, AppStartPreserves
  <1>2. ASSUME NEW u \in URLs, AppStop(u) PROVE IndInv'
    BY <1>2, AppStopPreserves
  <1>3. CASE AppSends
    BY <1>3, AppSendsPreserves
  <1>4. CASE AppReceives
    BY <1>4, AppReceivesPreserves
  <1>5. ASSUME NEW c \in Calls, NEW u \in URLs, ActorStarts(c, u) PROVE IndInv'
    BY <1>5, ActorStartsPreserves
  <1>6. ASSUME NEW u \in URLs, ActorStops(u) PROVE IndInv'
    BY <1>6, ActorStopsPreserves
  <1>7. ASSUME NEW c \in Calls, ActorCancels(c) \/ ActorRemoves(c) PROVE IndInv'
    BY <1>7, RemovalPreserves
  <1>8. CASE ActorReleases
    BY <1>8, ActorReleasesPreserves
  <1>9. ASSUME NEW c \in Calls, WatcherReceives(c) PROVE IndInv'
    BY <1>9, WatcherReceivesPreserves
  <1>10. ASSUME NEW c \in Calls, WatcherStops(c) PROVE IndInv'
    BY <1>10, WatcherStopsPreserves
  <1>11. ASSUME NEW c \in Calls, Run(c) \/ ContainerExits(c) PROVE IndInv'
    BY <1>11, RunPreserves
  <1>12. ASSUME NEW c \in Calls, Dest(c) PROVE IndInv'
    BY <1>12, DestPreserves
  <1>13. CASE UNCHANGED vars
    BY <1>13, StutterPreserves
  <1>14. QED
    BY <1>1, <1>2, <1>3, <1>4, <1>5, <1>6, <1>7, <1>8, <1>9, <1>10, <1>11, <1>12, <1>13
       DEF Next, App, Actor, Watcher

LEMMA Invariance == Spec => []IndInv
  BY InitIndInv, NextIndInv, PTL DEF Spec

\* Every variable keeps its type; no channel ever holds more than its capacity.
THEOREM TypeCorrect == Spec => []TypeOK
  <1>1. IndInv => TypeOK
    BY DEF IndInv
  <1>2. QED
    BY <1>1, Invariance, PTL

\* A URL that StartDestination claimed is never claimed for good: the watcher
\* of its run, or a stop on its way to the actor, is there to free it.
THEOREM NoURLStuck == Spec => []NoStuckURL
  <1>1. IndInv => NoStuckURL
    BY DEF IndInv
  <1>2. QED
    BY <1>1, Invariance, PTL

-----------------------------------------------------------------------------
(***************************************************************************)
(* One run per URL                                                         *)
(***************************************************************************)

LEMMA InitRunInv == Init => RunInv
  <1> SUFFICES ASSUME Init PROVE RunInv
    OBVIOUS
  <1>1. Unmade /\ Launched
    BY DEF Init, Unmade, Launched
  <1>2. ASSUME NEW u \in URLs
        PROVE  BeforeRuns(u) /\ \A c \in Calls : ~RunOf(c, u)
    <2>1. app # Stop(u)
      BY ActionFacts DEF Init
    <2>2. QED
      BY <2>1, ReplicatorAssumption DEF Init, BeforeRuns, RunOf
  <1>3. OneRelease
    BY <1>2 DEF OneRelease
  <1>4. QED
    BY <1>1, <1>3, InitIndInv DEF RunInv

\* What a start in the queue says of its call.
LEMMA QueuedStartFacts ==
    ASSUME IndInv, NEW u \in URLs, NEW i \in DOMAIN actorC, StartOf(i, u)
    PROVE  /\ actorC[i].call \in Calls
           /\ callURL[actorC[i].call] = u
           /\ \A v \in URLs : actorC[i] # Stop(v)
  <1>1. actorC[i] \in Actions /\ QueuedStart(actorC[i])
    BY CoreTypes DEF IndInv, Queued
  <1>2. QED
    BY <1>1, ActionFacts DEF StartOf, QueuedStart

\* Who is asked to stop has been made, and has its URL for good.
LEMMA RunOfMade ==
    ASSUME RunInv, NEW c \in Calls, dest[c] # "none"
    PROVE  callURL[c] \in URLs /\ watcher[c] # "none"
  BY DEF RunInv, IndInv, Made, Launched

\* Steps in which no run begins, no watcher launches or ends and no action
\* comes or goes.
LEMMA ReleaseUnchanged ==
    ASSUME RunInv, UNCHANGED <<calls, callURL, app, asked, actorC, currURLs, stopping>>,
           \A c \in Calls : dest'[c] = "none" <=> dest[c] = "none",
           \A c \in Calls : watcher'[c] = "none" <=> watcher[c] = "none",
           \A c \in Calls : watcher'[c] \in {"waiting", "stopping"}
                              <=> watcher[c] \in {"waiting", "stopping"}
    PROVE  Unmade' /\ Launched' /\ OneRelease'
  <1>1. Unmade' /\ Launched'
    BY DEF RunInv, Unmade, Launched
  <1>2. ASSUME NEW u \in URLs, Quiet(u)'
        PROVE  /\ (\A c \in Calls : ~RunOf(c, u)') => BeforeRuns(u)'
               /\ (\E c \in Calls : RunOf(c, u)') => SinceRuns(u)'
    <2>1. Quiet(u)
      BY <1>2 DEF Quiet
    <2>2. \A c \in Calls : (RunOf(c, u)' <=> RunOf(c, u)) /\ (Holds(c, u)' <=> Holds(c, u))
      BY DEF RunOf, Holds
    <2>3. BeforeRuns(u) => BeforeRuns(u)'
      BY DEF BeforeRuns, StartOf
    <2>4. SinceRuns(u) => SinceRuns(u)'
      BY <2>2 DEF SinceRuns
    <2>5. QED
      BY <2>1, <2>2, <2>3, <2>4 DEF RunInv, OneRelease
  <1>3. QED
    BY <1>1, <1>2 DEF OneRelease

\* A new call has no run yet, and its start comes after every stop asked for.
LEMMA AppStartReleases ==
    ASSUME RunInv, NEW u \in URLs, AppStart(u)
    PROVE  Unmade' /\ Launched' /\ OneRelease'
  <1> DEFINE n == calls + 1
  <1> IndInv
    BY DEF RunInv
  <1>1. /\ n \in Calls /\ calls' = n /\ calls \in Nat
        /\ app = Nothing /\ app' = Start(n, u)
        /\ callURL' = [callURL EXCEPT ![n] = u]
        /\ UNCHANGED <<asked, currURLs, stopping, dest, actorC, watcher>>
    BY CoreTypes DEF AppStart, Calls, actorVars, destVars
  <1>2. dest[n] = "none"
    BY <1>1 DEF IndInv, Made
  <1>3. \A c \in Calls : c # n => callURL'[c] = callURL[c]
    BY <1>1, CoreTypes
  <1>4. callURL[n] = NoURL
    BY <1>1 DEF RunInv, Unmade
  <1>5. Unmade' /\ Launched'
    BY <1>1, <1>3 DEF RunInv, Unmade, Launched, Calls
  <1>6. ASSUME NEW v \in URLs, Quiet(v)'
        PROVE  /\ (\A c \in Calls : ~RunOf(c, v)') => BeforeRuns(v)'
               /\ (\E c \in Calls : RunOf(c, v)') => SinceRuns(v)'
    <2>1. Quiet(v)
      <3>1. asked \subseteq Calls
        BY DEF IndInv, TypeOK
      <3>2. QED
        BY <1>1, <1>3, <1>4, <1>6, <3>1, CoreTypes DEF Quiet
    <2>2. \A c \in Calls : (RunOf(c, v)' <=> RunOf(c, v)) /\ (Holds(c, v)' <=> Holds(c, v))
      BY <1>1, <1>2, <1>3 DEF RunOf, Holds
    <2>3. app' # Stop(v)
      BY <1>1, ActionFacts
    <2>4. BeforeRuns(v) => BeforeRuns(v)'
      BY <1>1, <2>3 DEF BeforeRuns, StartOf
    <2>5. SinceRuns(v) => SinceRuns(v)'
      BY <1>1, <2>2, <2>3 DEF SinceRuns
    <2>6. QED
      BY <2>1, <2>2, <2>4, <2>5 DEF RunInv, OneRelease
  <1>7. QED
    BY <1>5, <1>6 DEF OneRelease

\* A user's stop ends the quiet of its URL, unless no call of it was ever made.
LEMMA AppStopReleases ==
    ASSUME RunInv, NEW u \in URLs, AppStop(u)
    PROVE  Unmade' /\ Launched' /\ OneRelease'
  <1> IndInv
    BY DEF RunInv
  <1>1. /\ app = Nothing /\ app' = Stop(u)
        /\ asked' = asked \union {c \in Calls : callURL[c] = u}
        /\ UNCHANGED <<calls, callURL, currURLs, stopping, dest, actorC, watcher>>
    BY DEF AppStop, actorVars, destVars
  <1>2. Unmade' /\ Launched'
    BY <1>1 DEF RunInv, Unmade, Launched
  <1>3. ASSUME NEW v \in URLs, Quiet(v)'
        PROVE  /\ (\A c \in Calls : ~RunOf(c, v)') => BeforeRuns(v)'
               /\ (\E c \in Calls : RunOf(c, v)') => SinceRuns(v)'
    <2>1. Quiet(v)
      BY <1>1, <1>3 DEF Quiet
    <2>2. \A c \in Calls : (RunOf(c, v)' <=> RunOf(c, v)) /\ (Holds(c, v)' <=> Holds(c, v))
      BY <1>1 DEF RunOf, Holds
    <2>3. CASE v # u
      <3>1. app' # Stop(v)
        BY <1>1, <2>3, ActionFacts
      <3>2. BeforeRuns(v) => BeforeRuns(v)'
        BY <1>1, <3>1 DEF BeforeRuns, StartOf
      <3>3. SinceRuns(v) => SinceRuns(v)'
        BY <1>1, <2>2, <3>1 DEF SinceRuns
      <3>4. QED
        BY <2>1, <2>2, <3>2, <3>3 DEF RunInv, OneRelease
    <2>4. CASE v = u
      <3>1. \A c \in Calls : callURL[c] # u
        BY <1>1, <1>3, <2>4 DEF Quiet
      <3>2. \A j \in DOMAIN actorC : ~StartOf(j, u)
        BY <3>1, QueuedStartFacts
      <3>3. BeforeRuns(u)
        BY <2>1, <2>4, <3>1 DEF RunInv, OneRelease, RunOf
      <3>4. BeforeRuns(u)'
        BY <1>1, <3>2, <3>3 DEF BeforeRuns, StartOf
      <3>5. QED
        BY <2>2, <2>4, <3>1, <3>4 DEF RunOf
    <2>5. QED
      BY <2>3, <2>4
  <1>4. QED
    BY <1>2, <1>3 DEF OneRelease

\* A stop that is sent when a start of its URL is queued would be an asked one.
LEMMA AppSendsReleases ==
    ASSUME RunInv, AppSends
    PROVE  Unmade' /\ Launched' /\ OneRelease'
  <1> DEFINE n == Len(actorC) + 1
  <1> IndInv
    BY DEF RunInv
  <1>1. /\ app \in Actions
        /\ actorC' = Append(actorC, app)
        /\ app' = Nothing
        /\ watcher' = IF app.op = "start" THEN [watcher EXCEPT ![app.call] = "waiting"] ELSE watcher
        /\ UNCHANGED <<calls, callURL, asked, currURLs, stopping, dest>>
    BY CoreTypes DEF AppSends, actorVars, destVars
  <1>2. /\ Len(actorC) \in Nat
        /\ DOMAIN actorC = 1 .. Len(actorC)
        /\ DOMAIN actorC' = 1 .. n
        /\ \A i \in DOMAIN actorC : actorC'[i] = actorC[i]
        /\ actorC'[n] = app
    BY <1>1, CoreTypes, AppendEntries
  <1>3. /\ \A i \in DOMAIN actorC : i < n
        /\ \A i \in DOMAIN actorC' : i \in DOMAIN actorC \/ i = n
    BY <1>2
  <1>4. \A c \in Calls : watcher'[c] = watcher[c] \/ (dest[c] = "none" /\ watcher'[c] = "waiting")
    <2>1. app.op = "start" => app.call \in Calls /\ dest[app.call] = "none"
      BY <1>1, ActionFacts DEF IndInv, Sending
    <2>2. QED
      BY <1>1, <2>1, CoreTypes
  <1>5. Unmade' /\ Launched'
    BY <1>1, <1>4 DEF RunInv, Unmade, Launched
  <1>6. ASSUME NEW v \in URLs, Quiet(v)'
        PROVE  /\ (\A c \in Calls : ~RunOf(c, v)') => BeforeRuns(v)'
               /\ (\E c \in Calls : RunOf(c, v)') => SinceRuns(v)'
    <2>1. Quiet(v)
      BY <1>1, <1>6 DEF Quiet
    <2>2. \A c \in Calls : (RunOf(c, v)' <=> RunOf(c, v)) /\ (Holds(c, v)' <=> Holds(c, v))
      BY <1>1, <1>4 DEF RunOf, Holds
    <2>3. app' # Stop(v)
      BY <1>1, ActionFacts
    <2>4. ASSUME BeforeRuns(v) PROVE BeforeRuns(v)'
      <3>1. ASSUME NEW i \in DOMAIN actorC', NEW j \in DOMAIN actorC',
                   actorC'[i] = Stop(v), actorC'[j].op = "start", actorC'[j].url = v
            PROVE  i < j
        <4>1. CASE i \in DOMAIN actorC /\ j \in DOMAIN actorC
          BY <1>2, <2>4, <3>1, <4>1 DEF BeforeRuns, StartOf
        <4>2. CASE i \in DOMAIN actorC /\ j = n
          BY <1>3, <4>2
        <4>3. CASE i = n /\ j \in DOMAIN actorC
          BY <1>2, <2>4, <3>1, <4>3 DEF BeforeRuns, StartOf
        <4>4. CASE i = n /\ j = n
          BY <1>1, <1>2, <3>1, <4>4, ActionFacts
        <4>5. QED
          BY <1>3, <4>1, <4>2, <4>3, <4>4
      <3>2. QED
        BY <1>1, <2>3, <2>4, <3>1 DEF BeforeRuns, StartOf
    <2>5. ASSUME SinceRuns(v) PROVE SinceRuns(v)'
      <3>1. \A i \in DOMAIN actorC' : actorC'[i] = Stop(v) =>
              i \in DOMAIN actorC /\ actorC[i] = Stop(v)
        BY <1>2, <1>3, <2>5 DEF SinceRuns
      <3>2. QED
        BY <1>1, <2>2, <2>3, <2>5, <3>1 DEF SinceRuns
    <2>6. QED
      BY <2>1, <2>2, <2>4, <2>5 DEF RunInv, OneRelease
  <1>7. QED
    BY <1>5, <1>6 DEF OneRelease

\* The run whose watcher asks is the one thing that frees its URL; now its stop is.
LEMMA WatcherStopsReleases ==
    ASSUME RunInv, NEW c \in Calls, WatcherStops(c)
    PROVE  Unmade' /\ Launched' /\ OneRelease'
  <1> DEFINE u == callURL[c]
             n == Len(actorC) + 1
  <1> IndInv
    BY DEF RunInv
  <1>1. /\ watcher[c] = "stopping"
        /\ actorC' = Append(actorC, Stop(u))
        /\ watcher' = [watcher EXCEPT ![c] = "finished"]
        /\ UNCHANGED <<calls, callURL, app, asked, currURLs, stopping, dest>>
    BY DEF WatcherStops, appVars, actorVars, destVars
  <1>2. dest[c] = "returned" /\ u \in URLs
    BY <1>1 DEF IndInv, Done, Made
  <1>3. Holds(c, u) /\ RunOf(c, u)
    BY <1>1, <1>2 DEF Holds, RunOf
  <1>4. Stop(u) \in Actions /\ Stop(u).op = "stop"
    BY <1>2, ActionFacts
  <1>5. /\ \A i \in DOMAIN actorC : actorC'[i] = actorC[i]
        /\ actorC'[n] = Stop(u)
        /\ \A i \in DOMAIN actorC' : i \in DOMAIN actorC \/ i = n
    BY <1>1, <1>4, CoreTypes, AppendEntries
  <1>6. /\ watcher'[c] = "finished"
        /\ \A d \in Calls : d # c => watcher'[d] = watcher[d]
    BY <1>1, CoreTypes
  <1>7. Unmade' /\ Launched'
    BY <1>1, <1>6 DEF RunInv, Unmade, Launched
  <1>8. ASSUME NEW v \in URLs, Quiet(v)'
        PROVE  /\ (\A d \in Calls : ~RunOf(d, v)') => BeforeRuns(v)'
               /\ (\E d \in Calls : RunOf(d, v)') => SinceRuns(v)'
    <2>1. Quiet(v)
      BY <1>1, <1>8 DEF Quiet
    <2>2. \A d \in Calls : RunOf(d, v)' <=> RunOf(d, v)
      BY <1>1 DEF RunOf
    <2>3. CASE v # u
      <3>1. \A d \in Calls : Holds(d, v)' <=> Holds(d, v)
        BY <1>1, <1>6, <2>3 DEF Holds, RunOf
      <3>2. \A i \in DOMAIN actorC' : actorC'[i] = Stop(v) \/ actorC'[i].op = "start" =>
              i \in DOMAIN actorC /\ actorC'[i] = actorC[i]
        BY <1>2, <1>4, <1>5, <2>3, ActionFacts
      <3>3. BeforeRuns(v) => BeforeRuns(v)'
        BY <1>1, <3>2 DEF BeforeRuns, StartOf
      <3>4. SinceRuns(v) => SinceRuns(v)'
        BY <1>1, <3>1, <3>2 DEF SinceRuns
      <3>5. QED
        BY <2>1, <2>2, <3>3, <3>4 DEF RunInv, OneRelease
    <2>4. CASE v = u
      <3>1. SinceRuns(u)
        BY <1>2, <1>3, <2>1, <2>4 DEF RunInv, OneRelease
      <3>2. \A d \in Calls : ~Holds(d, u)'
        BY <1>1, <1>3, <1>6, <3>1 DEF SinceRuns, Holds, RunOf
      <3>3. \A i \in DOMAIN actorC' : actorC'[i] = Stop(u) => i = n
        BY <1>3, <1>5, <3>1 DEF SinceRuns
      <3>4. u \in currURLs /\ stopping # u /\ app # Stop(u)
        BY <1>3, <3>1 DEF SinceRuns
      <3>5. SinceRuns(u)'
        BY <1>1, <3>2, <3>3, <3>4 DEF SinceRuns
      <3>6. QED
        BY <1>1, <1>3, <2>2, <2>4, <3>5
    <2>5. QED
      BY <2>3, <2>4
  <1>9. QED
    BY <1>7, <1>8 DEF OneRelease

\* Taking an action keeps the order of the others.
LEMMA TakingOrder ==
    ASSUME IndInv, NEW a \in Actions, ActorTakes(a), NEW u \in URLs
    PROVE  /\ \A i \in DOMAIN actorC' : i + 1 \in DOMAIN actorC /\ i \in Nat /\ actorC'[i] = actorC[i + 1]
           /\ (\A i, j \in DOMAIN actorC : actorC[i] = Stop(u) /\ StartOf(j, u) => i < j) =>
              \A i, j \in DOMAIN actorC' :
                actorC'[i] = Stop(u) /\ actorC'[j].op = "start" /\ actorC'[j].url = u => i < j
           /\ (\A i, j \in DOMAIN actorC : actorC[i] = Stop(u) /\ actorC[j] = Stop(u) => i = j) =>
              \A i, j \in DOMAIN actorC' : actorC'[i] = Stop(u) /\ actorC'[j] = Stop(u) => i = j
  <1>1. \A i \in DOMAIN actorC' : i + 1 \in DOMAIN actorC /\ i \in Nat /\ actorC'[i] = actorC[i + 1]
    BY Taking
  <1>2. QED
    BY <1>1 DEF StartOf

\* The first run of a URL finds no stop ahead, a later one none at all.
LEMMA ActorStartsReleases ==
    ASSUME RunInv, NEW c \in Calls, NEW u \in URLs, ActorStarts(c, u)
    PROVE  Unmade' /\ Launched' /\ OneRelease'
  <1> DEFINE a == Start(c, u)
  <1> IndInv
    BY DEF RunInv
  <1>1. /\ ActorTakes(a)
        /\ UNCHANGED <<calls, callURL, app, asked, stopping, watcher>>
    BY DEF ActorStarts, appVars
  <1>2. a \in Actions /\ a.op = "start" /\ a.call = c /\ a.url = u
    BY ActionFacts
  <1>3. /\ 1 \in DOMAIN actorC /\ actorC[1] = a /\ stopping = NoURL
    BY <1>1, <1>2, Taking
  <1>4. callURL[c] = u /\ watcher[c] = "waiting" /\ dest[c] = "none"
    BY <1>2, <1>3 DEF IndInv, Queued, QueuedStart
  <1>5. /\ u \in currURLs => UNCHANGED <<currURLs, dest>>
        /\ u \notin currURLs => currURLs' = currURLs \union {u} /\ dest'[c] = "select"
        /\ \A d \in Calls : d = c \/ dest'[d] = dest[d]
    BY CoreTypes DEF ActorStarts
  <1>6. Unmade' /\ Launched'
    BY <1>1, <1>4, <1>5 DEF RunInv, Unmade, Launched
  <1>7. \A i \in DOMAIN actorC' : i + 1 \in DOMAIN actorC /\ i \in Nat /\ actorC'[i] = actorC[i + 1]
    BY <1>1, <1>2, Taking
  <1>8. ASSUME NEW v \in URLs, Quiet(v)'
        PROVE  /\ (\A d \in Calls : ~RunOf(d, v)') => BeforeRuns(v)'
               /\ (\E d \in Calls : RunOf(d, v)') => SinceRuns(v)'
    <2>1. Quiet(v)
      BY <1>1, <1>8 DEF Quiet
    <2>2. CASE v # u \/ u \in currURLs
      <3>1. \A d \in Calls : (RunOf(d, v)' <=> RunOf(d, v)) /\ (Holds(d, v)' <=> Holds(d, v))
        BY <1>1, <1>4, <1>5, <2>2 DEF RunOf, Holds
      <3>2. v \in currURLs' <=> v \in currURLs
        BY <1>5, <2>2
      <3>3. BeforeRuns(v) => BeforeRuns(v)'
        <4>1. ASSUME BeforeRuns(v)
              PROVE  /\ \A i, j \in DOMAIN actorC' :
                          actorC'[i] = Stop(v) /\ actorC'[j].op = "start" /\ actorC'[j].url = v => i < j
                     /\ app = Stop(v) => \A j \in DOMAIN actorC' :
                          ~(actorC'[j].op = "start" /\ actorC'[j].url = v)
          BY <1>1, <1>2, <1>7, <4>1, TakingOrder DEF BeforeRuns, StartOf
        <4>2. QED
          BY <1>1, <3>2, <4>1 DEF BeforeRuns, StartOf
      <3>4. ASSUME SinceRuns(v) PROVE SinceRuns(v)'
        <4>1. \A i, j \in DOMAIN actorC' : actorC'[i] = Stop(v) /\ actorC'[j] = Stop(v) => i = j
          BY <1>1, <1>2, <3>4, TakingOrder DEF SinceRuns
        <4>2. QED
          BY <1>1, <1>7, <3>1, <3>2, <3>4, <4>1 DEF SinceRuns
      <3>5. QED
        BY <2>1, <3>1, <3>3, <3>4 DEF RunInv, OneRelease
    <2>3. CASE v = u /\ u \notin currURLs
      <3>1. \A i \in DOMAIN actorC : actorC[i] # Stop(u)
        <4>1. CASE \A d \in Calls : ~RunOf(d, u)
          <5>1. BeforeRuns(u)
            BY <2>1, <2>3, <4>1 DEF RunInv, OneRelease
          <5>2. StartOf(1, u) /\ \A i \in DOMAIN actorC : ~(i < 1)
            BY <1>2, <1>3, CoreTypes DEF StartOf
          <5>3. QED
            BY <1>3, <5>1, <5>2 DEF BeforeRuns
        <4>2. CASE \E d \in Calls : RunOf(d, u)
          BY <2>1, <2>3, <4>2 DEF RunInv, OneRelease, SinceRuns
        <4>3. QED
          BY <4>1, <4>2
      <3>2. \A d \in Calls : ~Holds(d, u)
        <4>1. CASE \A d \in Calls : ~RunOf(d, u)
          BY <4>1 DEF Holds
        <4>2. CASE \E d \in Calls : RunOf(d, u)
          BY <2>1, <2>3, <4>2 DEF RunInv, OneRelease, SinceRuns
        <4>3. QED
          BY <4>1, <4>2
      <3>3. app # Stop(u)
        <4>1. CASE \A d \in Calls : ~RunOf(d, u)
          <5>1. BeforeRuns(u)
            BY <2>1, <2>3, <4>1 DEF RunInv, OneRelease
          <5>2. StartOf(1, u)
            BY <1>2, <1>3 DEF StartOf
          <5>3. QED
            BY <1>3, <5>1, <5>2 DEF BeforeRuns
        <4>2. CASE \E d \in Calls : RunOf(d, u)
          BY <2>1, <2>3, <4>2 DEF RunInv, OneRelease, SinceRuns
        <4>3. QED
          BY <4>1, <4>2
      <3>4. \A i \in DOMAIN actorC' : actorC'[i] # Stop(u)
        BY <1>7, <3>1
      <3>5. \A d \in Calls : Holds(d, u)' => d = c
        BY <1>1, <1>5, <3>2 DEF Holds, RunOf
      <3>6. u \in currURLs' /\ stopping' # u
        BY <1>1, <1>3, <1>5, <2>3, CoreTypes
      <3>7. SinceRuns(u)'
        BY <1>1, <3>3, <3>4, <3>5, <3>6 DEF SinceRuns
      <3>8. RunOf(c, u)'
        BY <1>1, <1>4, <1>5, <2>3 DEF RunOf
      <3>9. QED
        BY <2>3, <3>7, <3>8
    <2>4. QED
      BY <2>2, <2>3
  <1>9. QED
    BY <1>6, <1>8 DEF OneRelease

\* A stop that is taken while its URL is claimed was the only one.
LEMMA ActorStopsReleases ==
    ASSUME RunInv, NEW u \in URLs, ActorStops(u)
    PROVE  Unmade' /\ Launched' /\ OneRelease'
  <1> DEFINE a == Stop(u)
  <1> IndInv
    BY DEF RunInv
  <1>1. /\ ActorTakes(a)
        /\ UNCHANGED <<calls, callURL, app, asked, currURLs, dest, watcher>>
        /\ u \in currURLs => stopping' = u
        /\ u \notin currURLs => UNCHANGED stopping
    BY DEF ActorStops, appVars, actorVars, destVars
  <1>2. a \in Actions
    BY ActionFacts
  <1>3. 1 \in DOMAIN actorC /\ actorC[1] = a /\ stopping = NoURL /\ NoURL \notin URLs
    BY <1>1, <1>2, Taking, CoreTypes
  <1>4. \A i \in DOMAIN actorC' : i + 1 \in DOMAIN actorC /\ i \in Nat /\ i + 1 # 1
                                  /\ actorC'[i] = actorC[i + 1]
    BY <1>1, <1>2, Taking
  <1>5. Unmade' /\ Launched'
    BY <1>1 DEF RunInv, Unmade, Launched
  <1>6. ASSUME NEW v \in URLs, Quiet(v)'
        PROVE  /\ (\A c \in Calls : ~RunOf(c, v)') => BeforeRuns(v)'
               /\ (\E c \in Calls : RunOf(c, v)') => SinceRuns(v)'
    <2>1. Quiet(v)
      BY <1>1, <1>6 DEF Quiet
    <2>2. \A c \in Calls : (RunOf(c, v)' <=> RunOf(c, v)) /\ (Holds(c, v)' <=> Holds(c, v))
      BY <1>1 DEF RunOf, Holds
    <2>3. ASSUME BeforeRuns(v) PROVE BeforeRuns(v)'
      <3>1. stopping' # v
        BY <1>1, <1>3, <2>3 DEF BeforeRuns
      <3>2. \A i, j \in DOMAIN actorC' :
              actorC'[i] = Stop(v) /\ actorC'[j].op = "start" /\ actorC'[j].url = v => i < j
        BY <1>1, <1>2, <2>3, TakingOrder DEF BeforeRuns
      <3>3. app = Stop(v) => \A j \in DOMAIN actorC' : ~(actorC'[j].op = "start" /\ actorC'[j].url = v)
        BY <1>4, <2>3 DEF BeforeRuns, StartOf
      <3>4. QED
        BY <1>1, <2>3, <3>1, <3>2, <3>3 DEF BeforeRuns, StartOf
    <2>4. ASSUME SinceRuns(v) PROVE SinceRuns(v)'
      <3>1. \A i, j \in DOMAIN actorC' : actorC'[i] = Stop(v) /\ actorC'[j] = Stop(v) => i = j
        BY <1>1, <1>2, <2>4, TakingOrder DEF SinceRuns
      <3>2. CASE v # u
        <4>1. stopping' # v
          BY <1>1, <1>3, <3>2
        <4>2. QED
          BY <1>1, <1>4, <2>2, <2>4, <3>1, <4>1 DEF SinceRuns
      <3>3. CASE v = u
        <4>1. \A i \in DOMAIN actorC' : actorC'[i] # Stop(u)
          BY <1>3, <1>4, <2>4, <3>3 DEF SinceRuns
        <4>2. u \in currURLs /\ \A c \in Calls : ~Holds(c, u)
          BY <1>3, <2>4, <3>3 DEF SinceRuns
        <4>3. QED
          BY <1>1, <2>2, <2>4, <3>3, <4>1, <4>2 DEF SinceRuns
      <3>4. QED
        BY <3>2, <3>3
    <2>5. QED
      BY <2>1, <2>2, <2>3, <2>4 DEF RunInv, OneRelease
  <1>7. QED
    BY <1>5, <1>6 DEF OneRelease

\* A URL that is freed has no run left and no stop to come.
LEMMA ActorReleasesReleases ==
    ASSUME RunInv, ActorReleases
    PROVE  Unmade' /\ Launched' /\ OneRelease'
  <1> IndInv
    BY DEF RunInv
  <1>1. /\ currURLs' = currURLs \ {stopping} /\ stopping' = NoURL
        /\ UNCHANGED <<calls, callURL, app, asked, actorC, dest, watcher>>
    BY DEF ActorReleases, appVars, destVars
  <1>2. Unmade' /\ Launched'
    BY <1>1 DEF RunInv, Unmade, Launched
  <1>3. ASSUME NEW v \in URLs, Quiet(v)'
        PROVE  /\ (\A c \in Calls : ~RunOf(c, v)') => BeforeRuns(v)'
               /\ (\E c \in Calls : RunOf(c, v)') => SinceRuns(v)'
    <2>1. Quiet(v)
      BY <1>1, <1>3 DEF Quiet
    <2>2. \A c \in Calls : (RunOf(c, v)' <=> RunOf(c, v)) /\ (Holds(c, v)' <=> Holds(c, v))
      BY <1>1 DEF RunOf, Holds
    <2>3. v # NoURL
      BY CoreTypes
    <2>4. BeforeRuns(v) => BeforeRuns(v)'
      BY <1>1, <2>3 DEF BeforeRuns, StartOf
    <2>5. SinceRuns(v) => SinceRuns(v)'
      BY <1>1, <2>2, <2>3 DEF SinceRuns
    <2>6. QED
      BY <2>1, <2>2, <2>4, <2>5 DEF RunInv, OneRelease
  <1>4. QED
    BY <1>2, <1>3 DEF OneRelease

LEMMA NextRunInv == RunInv /\ [Next]_vars => RunInv'
  <1> SUFFICES ASSUME RunInv, [Next]_vars PROVE RunInv'
    OBVIOUS
  <1> DEFINE Rest == Unmade' /\ Launched' /\ OneRelease'
  <1> USE DEF appVars, actorVars, runVars, destVars
  <1>1. ASSUME NEW u \in URLs, AppStart(u) PROVE Rest
    BY <1>1, AppStartReleases
  <1>2. ASSUME NEW u \in URLs, AppStop(u) PROVE Rest
    BY <1>2, AppStopReleases
  <1>3. ASSUME AppSends PROVE Rest
    BY <1>3, AppSendsReleases
  <1>4. ASSUME AppReceives PROVE Rest
    BY <1>4, ReleaseUnchanged DEF AppReceives
  <1>5. ASSUME NEW c \in Calls, NEW u \in URLs, ActorStarts(c, u) PROVE Rest
    BY <1>5, ActorStartsReleases
  <1>6. ASSUME NEW u \in URLs, ActorStops(u) PROVE Rest
    BY <1>6, ActorStopsReleases
  <1>7. ASSUME NEW c \in Calls, ActorCancels(c) \/ ActorRemoves(c) PROVE Rest
    <2>1. UNCHANGED <<calls, callURL, app, asked, actorC, currURLs, stopping, dest, watcher>>
      BY <1>7 DEF ActorCancels, ActorRemoves
    <2>2. QED
      BY <2>1, ReleaseUnchanged
  <1>8. ASSUME ActorReleases PROVE Rest
    BY <1>8, ActorReleasesReleases
  <1>9. ASSUME NEW c \in Calls, WatcherReceives(c) PROVE Rest
    <2>1. \A d \in Calls : watcher'[d] = watcher[d] \/ (watcher[d] = "waiting" /\ watcher'[d] = "stopping")
      BY <1>9, CoreTypes DEF WatcherReceives, RunInv
    <2>2. QED
      BY <1>9, <2>1, ReleaseUnchanged DEF WatcherReceives
  <1>10. ASSUME NEW c \in Calls, WatcherStops(c) PROVE Rest
    BY <1>10, WatcherStopsReleases
  <1>11. ASSUME NEW c \in Calls, Run(c) \/ ContainerExits(c) PROVE Rest
    <2>1. UNCHANGED <<calls, callURL, app, asked, actorC, currURLs, stopping, dest, watcher>>
      BY <1>11 DEF Run, ContainerExits, RunCreates, RunStarts, RunFails, RunRegisters, WaiterAsks,
             LoopEnters, LoopReports, LoopExits, LoopWillRestart, LoopRestarts, LoopFails,
             LoopIsCancelled
    <2>2. QED
      BY <2>1, ReleaseUnchanged
  <1>12. ASSUME NEW c \in Calls, Dest(c) PROVE Rest
    <2>1. UNCHANGED <<calls, callURL, app, asked, actorC, currURLs, stopping, watcher>>
      BY <1>12 DEF Dest, DestReceives, DestEnds, DestSends, DestReturns
    <2>2. \A d \in Calls : dest'[d] = dest[d] \/ (dest[d] # "none" /\ dest'[d] # "none")
      BY <1>12, CoreTypes DEF Dest, DestReceives, DestEnds, DestSends, DestReturns, RunInv
    <2>3. QED
      BY <2>1, <2>2, ReleaseUnchanged
  <1>13. ASSUME UNCHANGED vars PROVE Rest
    BY <1>13, ReleaseUnchanged DEF vars
  <1>14. Rest
    BY <1>1, <1>2, <1>3, <1>4, <1>5, <1>6, <1>7, <1>8, <1>9, <1>10, <1>11, <1>12, <1>13
       DEF Next, App, Actor, Watcher
  <1>15. QED
    BY <1>14, NextIndInv DEF RunInv

\* As long as nobody asks to stop a stream a URL has one run at most, however
\* its containers fail and however often it is started, and keeps its claim.
THEOREM OneRunAlways == Spec => []OneRunUnlessStopped
  <1>1. RunInv => OneRunUnlessStopped
    <2> SUFFICES ASSUME RunInv, NEW c \in Calls, Active(c),
                        \A d \in asked : callURL[d] # callURL[c]
                 PROVE  /\ callURL[c] \in currURLs
                        /\ \A d \in Calls : Active(d) /\ callURL[d] = callURL[c] => d = c
      BY DEF OneRunUnlessStopped
    <2> IndInv
      BY DEF RunInv
    <2>1. ASSUME NEW d \in Calls, Active(d), callURL[d] = callURL[c]
          PROVE  Holds(d, callURL[c])
      <3>1. dest[d] \notin {"none", "returned"}
        BY <2>1 DEF Active
      <3>2. watcher[d] # "none" /\ watcher[d] \notin {"stopping", "finished"}
        BY <3>1, RunOfMade DEF IndInv, Done
      <3>3. QED
        BY <2>1, <3>1, <3>2, CoreTypes DEF Holds, RunOf
    <2>2. callURL[c] \in URLs
      BY RunOfMade DEF Active
    <2>3. Holds(c, callURL[c]) /\ RunOf(c, callURL[c])
      BY <2>1 DEF Holds
    <2>4. SinceRuns(callURL[c])
      BY <2>2, <2>3 DEF RunInv, OneRelease, Quiet
    <2>5. QED
      BY <2>1, <2>3, <2>4 DEF SinceRuns
  <1>2. QED
    BY <1>1, InitRunInv, NextRunInv, PTL DEF Spec

-----------------------------------------------------------------------------
(***************************************************************************)
(* One container per URL                                                   *)
(***************************************************************************)

LEMMA RunTypes ==
    ASSUME IndInv
    PROVE  /\ run \in [Calls -> {"none", "preparing", "created", "started", "registered",
                                "looping", "finished"}]
           /\ docker \in [Calls -> {"none", "created", "running", "exited", "removed"}]
           /\ errC \in [Calls -> {"open", "error", "closed"}]
           /\ doomed \in SUBSET Calls /\ asked \in SUBSET Calls
           /\ \A c \in Calls : c # 0
  BY ReplicatorAssumption DEF IndInv, TypeOK, Calls

LEMMA InitContainerInv == Init => ContainerInv
  <1> SUFFICES ASSUME Init PROVE ContainerInv
    OBVIOUS
  <1>1. Stages
    BY DEF Init, Stages, Exists
  <1>2. \A u \in URLs : Claimed(u)
    BY DEF Init, Claimed, Busy, Exists
  <1>3. QED
    BY <1>1, <1>2, InitRunInv DEF ContainerInv

\* What a run does: it begins once, creates one container and ends once.
LEMMA RunStages ==
    ASSUME IndInv, Stages, NEW c \in Calls, Run(c) \/ ContainerExits(c)
    PROVE  Stages'
  <1> USE RunTypes
  <1> DEFINE StagesOf(d) ==
        /\ run'[d] = "none" <=> dest'[d] = "none"
        /\ run'[d] = "finished" <=> errC'[d] # "open"
        /\ dest'[d] \in {"last", "returned"} => run'[d] = "finished"
        /\ Exists(d)' => run'[d] \notin {"none", "preparing"}
        /\ run'[d] \notin {"none", "finished"} => watcher'[d] = "waiting"
  <1>1. UNCHANGED <<dest, watcher>>
    BY DEF Run, ContainerExits, RunCreates, RunStarts, RunFails, RunRegisters, WaiterAsks,
           LoopEnters, LoopReports, LoopExits, LoopWillRestart, LoopRestarts, LoopFails,
           LoopIsCancelled, destVars
  <1>2. \A d \in Calls : d # c => run'[d] = run[d] /\ errC'[d] = errC[d] /\ docker'[d] = docker[d]
    BY DEF Run, ContainerExits, RunCreates, RunStarts, RunFails, RunRegisters, WaiterAsks,
           LoopEnters, LoopReports, LoopExits, LoopWillRestart, LoopRestarts, LoopFails,
           LoopIsCancelled, Finishes
  <1>3. CASE \E how \in {"error", "closed"} : Finishes(c, how) /\ docker' = docker /\ run[c] # "none"
    <2>1. run'[c] = "finished" /\ errC'[c] # "open" /\ docker'[c] = docker[c] /\ dest[c] # "none"
      BY <1>3 DEF Finishes, Stages
    <2>2. QED
      BY <1>1, <1>2, <2>1 DEF Stages, Exists
  <1>4. CASE /\ errC' = errC
             /\ run[c] \notin {"none", "finished"} /\ run'[c] \notin {"none", "preparing", "finished"}
    <2>1. /\ dest'[c] \notin {"none", "last", "returned"} /\ watcher'[c] = "waiting"
          /\ errC'[c] = "open"
      BY <1>1, <1>4 DEF Stages
    <2>2. ASSUME NEW d \in Calls, d # c
          PROVE  /\ run'[d] = run[d] /\ errC'[d] = errC[d] /\ dest'[d] = dest[d]
                 /\ watcher'[d] = watcher[d] /\ (Exists(d)' <=> Exists(d))
      BY <1>1, <1>2, <2>2 DEF Exists
    <2>3. ASSUME NEW d \in Calls, d # c PROVE StagesOf(d)
      BY <2>2, <2>3 DEF Stages
    <2>4. StagesOf(c)
      BY <1>4, <2>1
    <2>5. \A d \in Calls : StagesOf(d)
      BY <2>3, <2>4
    <2>6. QED
      BY <2>5 DEF Stages
  <1>5. CASE errC' = errC /\ run' = run /\ (Exists(c)' => Exists(c))
    BY <1>1, <1>2, <1>5 DEF Stages, Exists
  <1>6. CASE RunFails(c)
    BY <1>3, <1>6 DEF RunFails
  <1>7. CASE LoopExits(c) \/ LoopFails(c) \/ LoopIsCancelled(c)
    BY <1>3, <1>7 DEF LoopExits, LoopFails, LoopIsCancelled
  <1>8. CASE RunCreates(c) \/ RunStarts(c) \/ RunRegisters(c) \/ LoopEnters(c) \/ LoopRestarts(c)
    BY <1>4, <1>8 DEF RunCreates, RunStarts, RunRegisters, LoopEnters, LoopRestarts
  <1>9. CASE WaiterAsks(c) \/ LoopReports(c) \/ LoopWillRestart(c) \/ ContainerExits(c)
    BY <1>5, <1>9 DEF WaiterAsks, LoopReports, LoopWillRestart, ContainerExits, Exists
  <1>10. QED
    BY <1>6, <1>7, <1>8, <1>9 DEF Run

\* destLoop is over only after its run, and its watcher asks only after that.
LEMMA NextStages ==
    ASSUME ContainerInv, [Next]_vars
    PROVE  Stages'
  <1> IndInv /\ Stages
    BY DEF ContainerInv, RunInv
  <1> USE RunTypes, CoreTypes DEF appVars, actorVars, runVars, destVars
  <1>1. ASSUME UNCHANGED <<run, errC, dest, docker>>,
               \A c \in Calls : watcher[c] = "waiting" => watcher'[c] = "waiting" \/ run[c] = "finished"
        PROVE  Stages'
    BY <1>1 DEF Stages, Exists
  <1>2. ASSUME NEW u \in URLs, AppStart(u) \/ AppStop(u) PROVE Stages'
    BY <1>1, <1>2 DEF AppStart, AppStop
  <1>3. ASSUME AppSends \/ AppReceives PROVE Stages'
    <2>1. \A c \in Calls : watcher[c] = "waiting" => watcher'[c] = "waiting"
      BY <1>3 DEF AppSends, AppReceives
    <2>2. QED
      BY <1>1, <1>3, <2>1 DEF AppSends, AppReceives
  <1>4. ASSUME NEW c \in Calls, NEW u \in URLs, ActorStarts(c, u) PROVE Stages'
    <2>1. ActorTakes(Start(c, u)) /\ UNCHANGED <<errC, docker, watcher>>
      BY <1>4 DEF ActorStarts
    <2>2. watcher[c] = "waiting" /\ dest[c] = "none"
      <3>1. Start(c, u) \in Actions /\ Start(c, u).op = "start" /\ Start(c, u).call = c
        BY ActionFacts
      <3>2. 1 \in DOMAIN actorC /\ actorC[1] = Start(c, u)
        BY <2>1, <3>1, Taking
      <3>3. QED
        BY <3>1, <3>2 DEF IndInv, Queued, QueuedStart
    <2>3. run[c] = "none" /\ errC[c] = "open" /\ ~Exists(c)
      BY <2>2 DEF Stages
    <2>4. CASE UNCHANGED <<run, dest>>
      BY <1>1, <2>1, <2>4
    <2>5. CASE /\ run' = [run EXCEPT ![c] = "preparing"]
               /\ dest' = [dest EXCEPT ![c] = "select"]
      BY <2>1, <2>2, <2>3, <2>5 DEF Stages, Exists
    <2>6. QED
      BY <1>4, <2>4, <2>5 DEF ActorStarts
  <1>5. ASSUME NEW u \in URLs, ActorStops(u) PROVE Stages'
    BY <1>1, <1>5 DEF ActorStops
  <1>6. ASSUME NEW c \in Calls, ActorCancels(c) PROVE Stages'
    BY <1>1, <1>6 DEF ActorCancels
  <1>7. ASSUME NEW c \in Calls, ActorRemoves(c) PROVE Stages'
    <2>1. UNCHANGED <<run, errC, dest, watcher>> /\ \A d \in Calls : Exists(d)' => Exists(d)
      BY <1>7 DEF ActorRemoves, Exists
    <2>2. QED
      BY <2>1 DEF Stages
  <1>8. ASSUME ActorReleases PROVE Stages'
    BY <1>1, <1>8 DEF ActorReleases
  <1>9. ASSUME NEW c \in Calls, Watcher(c) PROVE Stages'
    <2>1. \A d \in Calls : watcher[d] = "waiting" => watcher'[d] = "waiting" \/ run[d] = "finished"
      BY <1>9 DEF Watcher, WatcherReceives, WatcherStops, IndInv, Done, Stages
    <2>2. QED
      BY <1>1, <1>9, <2>1 DEF Watcher, WatcherReceives, WatcherStops
  <1>10. ASSUME NEW c \in Calls, Run(c) \/ ContainerExits(c) PROVE Stages'
    BY <1>10, RunStages
  <1>11. ASSUME NEW c \in Calls, Dest(c) PROVE Stages'
    <2>1. /\ UNCHANGED <<run, errC, docker, watcher>>
          /\ \A d \in Calls : /\ dest'[d] = "none" <=> dest[d] = "none"
                              /\ dest'[d] \in {"last", "returned"} =>
                                    dest[d] \in {"last", "returned"} \/ errC[d] # "open"
      BY <1>11 DEF Dest, DestReceives, DestEnds, DestSends, DestReturns
    <2>2. QED
      BY <2>1 DEF Stages, Exists
  <1>12. CASE UNCHANGED vars
    BY <1>1, <1>12 DEF vars
  <1>13. QED
    BY <1>2, <1>3, <1>4, <1>5, <1>6, <1>7, <1>8, <1>9, <1>10, <1>11, <1>12 DEF Next, App, Actor

\* Steps in which no run begins, no URL is freed and no stop is lost.
LEMMA ClaimsStay ==
    ASSUME ContainerInv, Stages', "stop" \notin Faults,
           \A u \in URLs : Quiet(u)' => Quiet(u),
           currURLs' = currURLs, stopping' = stopping,
           \A c \in Calls : Busy(c)' => Busy(c) /\ callURL'[c] = callURL[c],
           \A c \in Calls, u \in URLs : Holds(c, u) => Holds(c, u)' \/ StopQueued(u)',
           \A u \in URLs : StopQueued(u) => StopQueued(u)',
           \A c \in Calls : Exists(c)' /\ c \in doomed \union {removing} =>
                            c \in doomed' \union {removing'}
    PROVE  \A u \in URLs : Quiet(u)' => Claimed(u)'
  <1> SUFFICES ASSUME NEW u \in URLs, Quiet(u)', NEW c \in Calls, callURL'[c] = u, Busy(c)'
               PROVE  /\ u \in currURLs'
                      /\ \/ Holds(c, u)' \/ StopQueued(u)'
                         \/ (stopping' = u /\ c \in doomed' \union {removing'})
                      /\ \A d \in Calls : callURL'[d] = u /\ Busy(d)' => d = c
    BY DEF Claimed
  <1>1. Claimed(u)
    BY DEF ContainerInv
  <1>2. callURL[c] = u /\ Busy(c) /\ \A d \in Calls : callURL'[d] = u /\ Busy(d)' => callURL[d] = u /\ Busy(d)
    OBVIOUS
  <1>3. u \in currURLs' /\ \A d \in Calls : callURL'[d] = u /\ Busy(d)' => d = c
    BY <1>1, <1>2 DEF Claimed
  <1>4. CASE Exists(c)'
    BY <1>1, <1>2, <1>3, <1>4 DEF Claimed
  <1>5. CASE ~Exists(c)'
    <2>1. run'[c] \notin {"none", "finished"}
      BY <1>5 DEF Busy
    <2>2. dest'[c] # "none" /\ watcher'[c] = "waiting"
      BY <2>1 DEF Stages
    <2>3. QED
      BY <1>3, <2>2 DEF Holds, RunOf
  <1>6. QED
    BY <1>4, <1>5

\* A busy call has its run.
LEMMA BusyRuns ==
    ASSUME Stages, NEW c \in Calls, Busy(c)
    PROVE  RunOf(c, callURL[c])
  BY DEF Stages, Busy, RunOf

\* What is still queued after the actor took an action that is no stop of u.
LEMMA TakingStops ==
    ASSUME IndInv, NEW a \in Actions, ActorTakes(a), NEW u \in URLs, a # Stop(u), StopQueued(u)
    PROVE  StopQueued(u)'
  <1>1. PICK i \in DOMAIN actorC : actorC[i] = Stop(u)
    BY DEF StopQueued
  <1>2. i # 1 /\ actorC \in Seq(Actions) /\ actorC # << >> /\ actorC' = Tail(actorC)
    BY <1>1, CoreTypes, Taking DEF ActorTakes
  <1>3. i - 1 \in DOMAIN actorC' /\ actorC'[i - 1] = actorC[i]
    BY <1>2, TailEntries
  <1>4. QED
    BY <1>1, <1>3 DEF StopQueued

\* A start claims its URL, which nothing else has if it was free.
LEMMA StartClaims ==
    ASSUME ContainerInv, Stages', "stop" \notin Faults,
           NEW c \in Calls, NEW u \in URLs, ActorStarts(c, u)
    PROVE  \A v \in URLs : Quiet(v)' => Claimed(v)'
  <1> IndInv /\ Stages
    BY DEF ContainerInv, RunInv
  <1>1. /\ ActorTakes(Start(c, u))
        /\ UNCHANGED <<callURL, asked, docker, watcher, stopping, doomed, removing>>
    BY DEF ActorStarts, appVars
  <1>2. /\ Start(c, u) \in Actions /\ Start(c, u).op = "start" /\ Start(c, u).call = c
        /\ Start(c, u).url = u /\ \A v \in URLs : Start(c, u) # Stop(v)
    BY ActionFacts
  <1>3. callURL[c] = u /\ watcher[c] = "waiting" /\ dest[c] = "none"
    <2>1. 1 \in DOMAIN actorC /\ actorC[1] = Start(c, u)
      BY <1>1, <1>2, Taking
    <2>2. QED
      BY <1>2, <2>1 DEF IndInv, Queued, QueuedStart
  <1>4. \A v \in URLs : (Quiet(v)' => Quiet(v)) /\ (StopQueued(v) => StopQueued(v)')
    BY <1>1, <1>2, TakingStops DEF Quiet
  <1>5. \A d \in Calls, v \in URLs : Holds(d, v) => Holds(d, v)'
    BY <1>1, <1>3, CoreTypes DEF ActorStarts, Holds, RunOf
  <1>6. CASE u \in currURLs
    <2>1. UNCHANGED <<run, currURLs>>
      BY <1>6 DEF ActorStarts
    <2>2. \A d \in Calls : (Busy(d)' => Busy(d)) /\ callURL'[d] = callURL[d]
      BY <1>1, <2>1 DEF Busy, Exists
    <2>3. QED
      BY <1>1, <1>4, <1>5, <2>1, <2>2, ClaimsStay
  <1>7. CASE u \notin currURLs
    <2>1. currURLs' = currURLs \union {u} /\ \A d \in Calls : d # c => run'[d] = run[d]
      BY <1>7, RunTypes DEF ActorStarts
    <2>2. \A d \in Calls : d # c => (Busy(d)' <=> Busy(d))
      BY <1>1, <2>1 DEF Busy, Exists
    <2>3. ASSUME NEW v \in URLs, Quiet(v)' PROVE Claimed(v)'
      <3>1. Claimed(v)
        BY <1>4, <2>3 DEF ContainerInv
      <3>2. CASE v = u
        <4>1. \A d \in Calls : callURL'[d] = u /\ Busy(d)' => d = c
          BY <1>1, <1>7, <2>2, <3>1, <3>2 DEF Claimed
        <4>2. Holds(c, u)'
          BY <1>1, <1>3, <1>7, CoreTypes DEF ActorStarts, Holds, RunOf
        <4>3. QED
          BY <2>1, <3>2, <4>1, <4>2 DEF Claimed
      <3>3. CASE v # u
        <4>1. \A d \in Calls : callURL'[d] = v => callURL[d] = v /\ (Busy(d)' <=> Busy(d))
          BY <1>1, <1>3, <2>2, <3>3
        <4>2. QED
          BY <1>1, <1>4, <1>5, <2>1, <3>1, <4>1 DEF Claimed
      <3>4. QED
        BY <3>2, <3>3
    <2>4. QED
      BY <2>3
  <1>8. QED
    BY <1>6, <1>7

\* A stop lists the container that was left of the run it comes from.
LEMMA StopClaims ==
    ASSUME ContainerInv, Stages', "stop" \notin Faults, NEW u \in URLs, ActorStops(u)
    PROVE  \A v \in URLs : Quiet(v)' => Claimed(v)'
  <1> IndInv /\ Stages
    BY DEF ContainerInv, RunInv
  <1>1. /\ ActorTakes(Stop(u)) /\ stopping = NoURL
        /\ UNCHANGED <<callURL, asked, docker, run, dest, watcher, currURLs, removing>>
    BY DEF ActorStops, ActorTakes, appVars, actorVars, runVars, destVars
  <1>2. Stop(u) \in Actions /\ \A v \in URLs : v # u => Stop(u) # Stop(v)
    BY ActionFacts
  <1>3. StopQueued(u)
    BY <1>1, <1>2, Taking DEF StopQueued
  <1>4. \A d \in Calls, v \in URLs : /\ Busy(d)' <=> Busy(d)
                                     /\ Holds(d, v)' <=> Holds(d, v)
    BY <1>1 DEF Busy, Exists, Holds, RunOf
  <1>5. ASSUME NEW v \in URLs, Quiet(v)', NEW c \in Calls, callURL'[c] = v, Busy(c)'
        PROVE  /\ v \in currURLs'
               /\ \/ Holds(c, v)' \/ StopQueued(v)'
                  \/ (stopping' = v /\ c \in doomed' \union {removing'})
               /\ \A d \in Calls : callURL'[d] = v /\ Busy(d)' => d = c
    <2>1. Quiet(v) /\ callURL[c] = v /\ Busy(c)
      BY <1>1, <1>4, <1>5 DEF Quiet
    <2>2. Claimed(v)
      BY <2>1 DEF ContainerInv
    <2>3. v \in currURLs' /\ \A d \in Calls : callURL'[d] = v /\ Busy(d)' => d = c
      BY <1>1, <1>4, <2>1, <2>2 DEF Claimed
    <2>4. CASE v # u
      <3>1. Holds(c, v) \/ StopQueued(v)
        BY <1>1, <2>1, <2>2, CoreTypes DEF Claimed
      <3>2. QED
        BY <1>1, <1>2, <1>4, <2>3, <2>4, <3>1, TakingStops
    <2>5. CASE v = u
      <3>1. SinceRuns(u)
        BY <2>1, <2>5, BusyRuns DEF ContainerInv, RunInv, OneRelease
      <3>2. ~Holds(c, u)
        BY <1>3, <3>1 DEF SinceRuns, StopQueued
      <3>3. run[c] \in {"none", "finished"}
        BY <2>1, <2>5, <3>2 DEF Stages, Holds, RunOf
      <3>4. Exists(c) /\ u \in currURLs
        BY <1>1, <2>1, <2>3, <2>5, <3>3 DEF Busy
      <3>5. stopping' = u /\ doomed' = {d \in Calls : callURL[d] = u /\ Exists(d)}
        BY <3>4 DEF ActorStops
      <3>6. QED
        BY <2>1, <2>3, <2>5, <3>4, <3>5
    <2>6. QED
      BY <2>4, <2>5
  <1>6. QED
    BY <1>5 DEF Claimed

\* A URL that is freed has nothing left.
LEMMA ReleaseClaims ==
    ASSUME ContainerInv, Stages', "stop" \notin Faults, ActorReleases
    PROVE  \A v \in URLs : Quiet(v)' => Claimed(v)'
  <1> IndInv /\ Stages
    BY DEF ContainerInv, RunInv
  <1>1. /\ doomed = {} /\ removing = 0 /\ currURLs' = currURLs \ {stopping}
        /\ UNCHANGED <<callURL, asked, docker, run, dest, watcher, actorC>>
    BY DEF ActorReleases, appVars, runVars, destVars
  <1>2. \A d \in Calls, v \in URLs : /\ Busy(d)' <=> Busy(d)
                                     /\ Holds(d, v)' <=> Holds(d, v)
                                     /\ StopQueued(v)' <=> StopQueued(v)
    BY <1>1 DEF Busy, Exists, Holds, RunOf, StopQueued
  <1>3. ASSUME NEW v \in URLs, Quiet(v)', NEW c \in Calls, callURL'[c] = v, Busy(c)'
        PROVE  /\ v \in currURLs'
               /\ Holds(c, v)' \/ StopQueued(v)'
               /\ \A d \in Calls : callURL'[d] = v /\ Busy(d)' => d = c
    <2>1. Quiet(v) /\ callURL[c] = v /\ Busy(c)
      BY <1>1, <1>2, <1>3 DEF Quiet
    <2>2. Claimed(v)
      BY <2>1 DEF ContainerInv
    <2>3. v \in currURLs /\ (Holds(c, v) \/ StopQueued(v))
      BY <1>1, <2>1, <2>2, RunTypes DEF Claimed
    <2>4. SinceRuns(v)
      BY <2>1, BusyRuns DEF ContainerInv, RunInv, OneRelease
    <2>5. stopping # v
      BY <2>3, <2>4 DEF SinceRuns, StopQueued
    <2>6. QED
      BY <1>1, <1>2, <2>1, <2>2, <2>3, <2>5 DEF Claimed
  <1>4. QED
    BY <1>3 DEF Claimed

LEMMA NextContainerInv == ContainerInv /\ [Next]_vars => ContainerInv'
  <1> SUFFICES ASSUME ContainerInv, [Next]_vars PROVE ContainerInv'
    OBVIOUS
  <1> IndInv /\ Stages /\ Stages' /\ RunInv /\ RunInv'
    BY NextStages, NextRunInv DEF ContainerInv, RunInv
  <1> DEFINE Claims == \A u \in URLs : Quiet(u)' => Claimed(u)'
  <1> SUFFICES ASSUME "stop" \notin Faults PROVE Claims
    BY DEF ContainerInv
  <1> HIDE DEF Claims
  <1> USE DEF appVars, actorVars, runVars, destVars
  <1>1. ASSUME UNCHANGED <<callURL, asked, actorC, currURLs, stopping, doomed, removing>>,
               \A c \in Calls : Busy(c)' => Busy(c),
               \A c \in Calls : dest[c] # "none" => dest'[c] # "none",
               \A c \in Calls : watcher[c] \in {"waiting", "stopping"} =>
                                watcher'[c] \in {"waiting", "stopping"}
        PROVE  Claims
    <2>1. /\ \A u \in URLs : (Quiet(u)' => Quiet(u)) /\ (StopQueued(u) => StopQueued(u)')
          /\ \A c \in Calls, u \in URLs : Holds(c, u) => Holds(c, u)'
      BY <1>1 DEF Quiet, StopQueued, Holds, RunOf
    <2>2. QED
      BY <1>1, <2>1, ClaimsStay DEF Claims
  <1>2. ASSUME NEW u \in URLs, AppStart(u) PROVE Claims
    <2> DEFINE n == calls + 1
    <2>1. /\ n \in Calls /\ callURL' = [callURL EXCEPT ![n] = u]
          /\ UNCHANGED <<asked, actorC, currURLs, stopping, doomed, removing, docker, run, dest, watcher>>
      BY <1>2, CoreTypes DEF AppStart, Calls
    <2>2. dest[n] = "none" /\ callURL[n] = NoURL /\ n \notin 0 .. calls
      BY <2>1, CoreTypes DEF IndInv, Made, RunInv, Unmade, Calls
    <2>3. ~Busy(n)
      BY <2>1, <2>2 DEF Stages, Busy
    <2> HIDE DEF n
    <2>4. \A c \in Calls : c # n => callURL'[c] = callURL[c]
      BY <2>1, CoreTypes
    <2>5. \A c \in Calls : Busy(c)' => Busy(c) /\ callURL'[c] = callURL[c]
      BY <2>1, <2>3, <2>4 DEF Busy, Exists
    <2>6. \A v \in URLs : (Quiet(v)' => Quiet(v)) /\ (StopQueued(v) => StopQueued(v)')
      BY <2>1, <2>2, <2>4, CoreTypes, RunTypes DEF Quiet, StopQueued
    <2>7. \A c \in Calls, v \in URLs : Holds(c, v) => Holds(c, v)'
      BY <2>1, <2>2, <2>4 DEF Holds, RunOf
    <2>8. QED
      BY <2>1, <2>5, <2>6, <2>7, ClaimsStay DEF Claims
  <1>3. ASSUME NEW u \in URLs, AppStop(u) PROVE Claims
    <2>1. /\ \A v \in URLs : (Quiet(v)' => Quiet(v)) /\ (StopQueued(v) => StopQueued(v)')
          /\ \A c \in Calls : Busy(c)' => Busy(c) /\ callURL'[c] = callURL[c]
          /\ \A c \in Calls, v \in URLs : Holds(c, v) => Holds(c, v)'
      BY <1>3 DEF AppStop, Quiet, StopQueued, Busy, Exists, Holds, RunOf
    <2>2. QED
      BY <1>3, <2>1, ClaimsStay DEF AppStop, Claims
  <1>4. ASSUME AppSends PROVE Claims
    <2>1. /\ actorC' = Append(actorC, app) /\ app \in Actions
          /\ UNCHANGED <<callURL, asked, currURLs, stopping, doomed, removing, docker, run, dest>>
      BY <1>4, CoreTypes DEF AppSends
    <2>2. ASSUME NEW u \in URLs, StopQueued(u) PROVE StopQueued(u)'
      BY <2>1, <2>2, CoreTypes, AppendEntries DEF StopQueued
    <2>3. \A c \in Calls : watcher[c] \in {"waiting", "stopping"} =>
                           watcher'[c] \in {"waiting", "stopping"}
      BY <1>4, CoreTypes DEF AppSends
    <2>4. /\ \A v \in URLs : Quiet(v)' => Quiet(v)
          /\ \A c \in Calls : Busy(c)' => Busy(c) /\ callURL'[c] = callURL[c]
          /\ \A c \in Calls, v \in URLs : Holds(c, v) => Holds(c, v)'
      BY <2>1, <2>3 DEF Quiet, Busy, Exists, Holds, RunOf
    <2>5. QED
      BY <2>1, <2>2, <2>4, ClaimsStay DEF Claims
  <1>5. ASSUME AppReceives PROVE Claims
    BY <1>1, <1>5 DEF AppReceives, Busy, Exists
  <1>6. ASSUME NEW c \in Calls, NEW u \in URLs, ActorStarts(c, u) PROVE Claims
    BY <1>6, StartClaims DEF Claims
  <1>7. ASSUME NEW u \in URLs, ActorStops(u) PROVE Claims
    BY <1>7, StopClaims DEF Claims
  <1>8. ASSUME NEW c \in Calls, ActorCancels(c) \/ ActorRemoves(c) PROVE Claims
    <2>1. UNCHANGED <<callURL, asked, actorC, currURLs, stopping, run, dest, watcher>>
      BY <1>8 DEF ActorCancels, ActorRemoves
    <2>2. /\ \A v \in URLs : (Quiet(v)' => Quiet(v)) /\ (StopQueued(v) => StopQueued(v)')
          /\ \A d \in Calls, v \in URLs : Holds(d, v) => Holds(d, v)'
      BY <2>1 DEF Quiet, StopQueued, Holds, RunOf
    <2>3. \A d \in Calls : Exists(d)' => Exists(d) /\ (d \in doomed \union {removing} =>
                                                     d \in doomed' \union {removing'})
      BY <1>8, RunTypes DEF ActorCancels, ActorRemoves, Exists
    <2>4. \A d \in Calls : Busy(d)' => Busy(d) /\ callURL'[d] = callURL[d]
      BY <2>1, <2>3 DEF Busy
    <2>5. QED
      BY <2>1, <2>2, <2>3, <2>4, ClaimsStay DEF Claims
  <1>9. ASSUME ActorReleases PROVE Claims
    BY <1>9, ReleaseClaims DEF Claims
  <1>10. ASSUME NEW c \in Calls, WatcherReceives(c) PROVE Claims
    BY <1>1, <1>10, CoreTypes DEF WatcherReceives, Busy, Exists
  <1>11. ASSUME NEW c \in Calls, WatcherStops(c) PROVE Claims
    <2> DEFINE a == Stop(callURL[c])
    <2>1. /\ UNCHANGED <<callURL, asked, currURLs, stopping, doomed, removing, docker, run, dest>>
          /\ actorC' = Append(actorC, a) /\ \A d \in Calls : d # c => watcher'[d] = watcher[d]
          /\ watcher[c] # "none"
      BY <1>11, CoreTypes DEF WatcherStops
    <2>2. callURL[c] \in URLs
      BY <2>1 DEF IndInv, Made
    <2>3. a \in Actions
      BY <2>2, ActionFacts
    <2>4. /\ actorC'[Len(actorC) + 1] = a /\ Len(actorC) + 1 \in DOMAIN actorC'
          /\ \A i \in DOMAIN actorC : i \in DOMAIN actorC' /\ actorC'[i] = actorC[i]
      BY <2>1, <2>3, CoreTypes, AppendEntries
    <2>5. /\ \A u \in URLs : StopQueued(u) => StopQueued(u)'
          /\ StopQueued(callURL[c])'
      BY <2>1, <2>4 DEF StopQueued
    <2>6. \A d \in Calls, u \in URLs : Holds(d, u) => Holds(d, u)' \/ StopQueued(u)'
      BY <2>1, <2>5 DEF Holds, RunOf
    <2>7. /\ \A u \in URLs : Quiet(u)' => Quiet(u)
          /\ \A d \in Calls : Busy(d)' => Busy(d) /\ callURL'[d] = callURL[d]
      BY <2>1 DEF Quiet, Busy, Exists
    <2>8. QED
      BY <2>1, <2>5, <2>6, <2>7, ClaimsStay DEF Claims
  <1>12. ASSUME NEW c \in Calls, Run(c) \/ ContainerExits(c) PROVE Claims
    <2>1. UNCHANGED <<callURL, asked, actorC, currURLs, stopping, doomed, removing, dest, watcher>>
      BY <1>12 DEF Run, ContainerExits, RunCreates, RunStarts, RunFails, RunRegisters, WaiterAsks,
             LoopEnters, LoopReports, LoopExits, LoopWillRestart, LoopRestarts, LoopFails,
             LoopIsCancelled
    <2>2. \A d \in Calls : d # c => run'[d] = run[d] /\ docker'[d] = docker[d]
      BY <1>12, RunTypes DEF Run, ContainerExits, RunCreates, RunStarts, RunFails, RunRegisters,
             WaiterAsks, LoopEnters, LoopReports, LoopExits, LoopWillRestart, LoopRestarts, LoopFails,
             LoopIsCancelled, Finishes
    <2>3. Busy(c)' => Busy(c)
      BY <1>12 DEF Busy, Exists, Run, ContainerExits, RunCreates, RunStarts, RunFails, RunRegisters,
             WaiterAsks, LoopEnters, LoopReports, LoopExits, LoopWillRestart, LoopRestarts, LoopFails,
             LoopIsCancelled
    <2>4. QED
      BY <1>1, <2>1, <2>2, <2>3 DEF Busy, Exists
  <1>13. ASSUME NEW c \in Calls, Dest(c) PROVE Claims
    BY <1>1, <1>13, CoreTypes DEF Dest, DestReceives, DestEnds, DestSends, DestReturns, Busy, Exists
  <1>14. CASE UNCHANGED vars
    BY <1>1, <1>14 DEF vars, Busy, Exists
  <1>15. QED
    BY <1>2, <1>3, <1>4, <1>5, <1>6, <1>7, <1>8, <1>9, <1>10, <1>11, <1>12, <1>13, <1>14
       DEF Next, App, Actor, Watcher

\* As long as nobody asks to stop a stream, and Docker removes what it is told
\* to, a URL has one container at most, whatever else fails: the run that left
\* one keeps the claim until its watcher's stop has listed and removed it.
THEOREM OneContainerAlways == Spec => []OneContainerUnlessStopped
  <1>1. ContainerInv => OneContainerUnlessStopped
    <2> SUFFICES ASSUME ContainerInv, "stop" \notin Faults, NEW c \in Calls, NEW d \in Calls,
                        Exists(c), Exists(d), callURL[c] = callURL[d], Quiet(callURL[c])
                 PROVE  c = d
      BY DEF OneContainerUnlessStopped, Quiet
    <2>1. Busy(c) /\ Busy(d)
      BY DEF Busy
    <2>2. callURL[c] \in URLs
      BY <2>1, BusyRuns, RunOfMade DEF ContainerInv, RunOf
    <2>3. QED
      BY <2>1, <2>2 DEF ContainerInv, Claimed
  <1>2. QED
    BY <1>1, InitContainerInv, NextContainerInv, PTL DEF Spec

-----------------------------------------------------------------------------
(***************************************************************************)
(* Starts that are refused                                                 *)
(***************************************************************************)

\* The actor has taken the start of c, or never got it, and gave it no run.
Refused(c) ==
    /\ watcher[c] = "waiting" /\ dest[c] = "none"
    /\ \A i \in DOMAIN actorC : actorC[i].op = "start" => actorC[i].call # c

\* A start is refused when its URL is claimed, and what is refused remains so.
RefusalsStay ==
    \A c \in Calls :
        /\ (\E u \in currURLs : ActorStarts(c, u)) => Refused(c)'
        /\ Refused(c) => Refused(c)'

LEMMA RefusedAtStart ==
    ASSUME IndInv, NEW c \in Calls, NEW u \in currURLs, ActorStarts(c, u)
    PROVE  Refused(c)'
  <1> DEFINE a == Start(c, u)
  <1>1. u \in URLs /\ ActorTakes(a) /\ UNCHANGED <<dest, watcher>>
    BY CoreTypes DEF ActorStarts
  <1>2. a \in Actions /\ a.op = "start" /\ a.call = c
    BY <1>1, ActionFacts
  <1>3. 1 \in DOMAIN actorC /\ actorC[1] = a
    BY <1>1, <1>2, Taking
  <1>4. watcher[c] = "waiting" /\ dest[c] = "none"
    BY <1>2, <1>3 DEF IndInv, Queued, QueuedStart
  <1>5. \A i \in DOMAIN actorC' : /\ i + 1 \in DOMAIN actorC /\ i + 1 # 1
                                 /\ actorC'[i] = actorC[i + 1]
    BY <1>1, <1>2, Taking
  <1>6. \A i \in DOMAIN actorC' : actorC'[i].op = "start" => actorC'[i].call # c
    BY <1>2, <1>3, <1>5 DEF IndInv, Queued
  <1>7. QED
    BY <1>1, <1>4, <1>6 DEF Refused

\* The watcher of a start that was refused, because its URL is claimed, waits
\* for good: nobody sends on the channel it was given.
THEOREM RefusedForGood == Spec => [][RefusalsStay]_vars
  <1>1. IndInv /\ [Next]_vars => [RefusalsStay]_vars
    <2> SUFFICES ASSUME IndInv, Next, NEW c \in Calls, Refused(c) PROVE Refused(c)'
      BY RefusedAtStart DEF RefusalsStay
    <2> USE CoreTypes DEF appVars, actorVars, runVars, destVars
    <2>1. watcher[c] = "waiting" /\ dest[c] = "none" /\ doneC[c] = NoState
      BY DEF Refused, IndInv, Done
    <2>2. ASSUME UNCHANGED <<watcher, dest, actorC>> PROVE Refused(c)'
      BY <2>2 DEF Refused
    <2>3. ASSUME UNCHANGED <<watcher, dest>>, NEW a \in Actions, ActorTakes(a) PROVE Refused(c)'
      BY <2>3, Taking DEF Refused
    <2>4. ASSUME watcher'[c] = "waiting", UNCHANGED dest, NEW a \in Actions, actorC' = Append(actorC, a),
                 a.op = "start" => a.call # c
          PROVE  Refused(c)'
      <3>1. \A i \in DOMAIN actorC' : actorC'[i] = a \/ (i \in DOMAIN actorC /\ actorC'[i] = actorC[i])
        BY <2>4, AppendEntries
      <3>2. QED
        BY <2>1, <2>4, <3>1 DEF Refused
    <2>5. CASE App
      <3>1. ASSUME AppSends PROVE Refused(c)'
        <4>1. app \in Actions /\ (app.op = "start" => app.call # c)
          BY <2>1, <3>1 DEF AppSends, IndInv, Sending
        <4>2. watcher'[c] = "waiting"
          BY <2>1, <3>1, <4>1 DEF AppSends
        <4>3. QED
          BY <2>4, <3>1, <4>1, <4>2 DEF AppSends
      <3>2. QED
        BY <2>2, <2>5, <3>1 DEF App, AppStart, AppStop, AppReceives
    <2>6. CASE Actor
      <3>1. ASSUME NEW d \in Calls, NEW u \in URLs, ActorStarts(d, u) PROVE Refused(c)'
        <4>1. Start(d, u) \in Actions /\ Start(d, u).op = "start" /\ Start(d, u).call = d
          BY ActionFacts
        <4>2. 1 \in DOMAIN actorC /\ actorC[1] = Start(d, u)
          BY <3>1, <4>1, Taking DEF ActorStarts
        <4>3. d # c
          BY <4>1, <4>2 DEF Refused
        <4>4. UNCHANGED watcher /\ dest'[c] = dest[c]
          BY <3>1, <4>3 DEF ActorStarts
        <4>5. \A i \in DOMAIN actorC' : i + 1 \in DOMAIN actorC /\ actorC'[i] = actorC[i + 1]
          BY <3>1, <4>1, Taking DEF ActorStarts
        <4>6. QED
          BY <4>4, <4>5 DEF Refused
      <3>2. ASSUME NEW u \in URLs, ActorStops(u) PROVE Refused(c)'
        BY <2>3, <3>2, ActionFacts DEF ActorStops
      <3>3. QED
        BY <2>2, <2>6, <3>1, <3>2 DEF Actor, ActorCancels, ActorRemoves, ActorReleases
    <2>7. ASSUME NEW d \in Calls, Watcher(d) PROVE Refused(c)'
      <3>1. CASE WatcherReceives(d)
        BY <2>1, <3>1 DEF WatcherReceives, Refused
      <3>2. CASE WatcherStops(d)
        <4>1. d # c /\ callURL[d] \in URLs
          BY <2>1, <3>2 DEF WatcherStops, IndInv, Made
        <4>2. Stop(callURL[d]) \in Actions /\ Stop(callURL[d]).op # "start"
          BY <4>1, ActionFacts
        <4>3. watcher'[c] = "waiting"
          BY <2>1, <3>2, <4>1 DEF WatcherStops
        <4>4. QED
          BY <2>4, <3>2, <4>2, <4>3 DEF WatcherStops
      <3>3. QED
        BY <2>7, <3>1, <3>2 DEF Watcher
    <2>8. ASSUME NEW d \in Calls, Run(d) \/ ContainerExits(d) PROVE Refused(c)'
      BY <2>2, <2>8 DEF Run, ContainerExits, RunCreates, RunStarts, RunFails, RunRegisters, WaiterAsks,
         LoopEnters, LoopReports, LoopExits, LoopWillRestart, LoopRestarts, LoopFails,
         LoopIsCancelled
    <2>9. ASSUME NEW d \in Calls, Dest(d) PROVE Refused(c)'
      <3>1. d # c /\ UNCHANGED <<watcher, actorC>> /\ dest'[c] = dest[c]
        BY <2>1, <2>9 DEF Dest, DestReceives, DestEnds, DestSends, DestReturns
      <3>2. QED
        BY <3>1 DEF Refused
    <2>10. QED
      BY <2>5, <2>6, <2>7, <2>8, <2>9 DEF Next
  <1>2. QED
    BY <1>1, Invariance, PTL DEF Spec

=============================================================================
