-------------------------- MODULE MediaServer_proofs --------------------------
(***************************************************************************)
(* Proofs about MediaServer, for channels of any capacity and any of the   *)
(* faults.                                                                 *)
(*                                                                         *)
(* AlarmIsTrue is about the last of the channels that the end of a run     *)
(* goes through.  Quiet is the whole way: until the run has ended, nothing *)
(* that is on its way to the main loop speaks of an end.                   *)
(***************************************************************************)
EXTENDS MediaServer, TLAPS

Quiet ==
    run # "ended" =>
        /\ containerStateC \in Seq(Statuses \ {"exited"})
        /\ errC = "open"
        /\ ~failed
        /\ stateC \in Seq([live : BOOLEAN, failed : {FALSE}])
        /\ app # "fatal"

IndInv == TypeOK /\ Quiet
-----------------------------------------------------------------------------

\* The two ends of a bounded channel.
LEMMA ChannelTypes ==
    ASSUME NEW S, NEW s \in Seq(S)
    PROVE  /\ s # << >> => Head(s) \in S /\ Tail(s) \in Seq(S) /\ Len(Tail(s)) = Len(s) - 1
           /\ Len(s) \in Nat
           /\ \A e \in S : Append(s, e) \in Seq(S) /\ Len(Append(s, e)) = Len(s) + 1
    OBVIOUS

\* A status that is reported finds room.
LEMMA ReportType ==
    ASSUME RunTypeOK, NEW e \in Statuses, Reports(e)
    PROVE  containerStateC' \in Seq(Statuses) /\ Len(containerStateC') <= StateSize
    BY ChannelTypes, ContainerRunAssumption DEF RunTypeOK, Reports

\* The run of the container keeps its types.
LEMMA RunStepType ==
    ASSUME RunTypeOK, RunStep
    PROVE  RunTypeOK'
<1>. USE DEF RunTypeOK
<1>0. /\ Reports("pulling") \/ Reports("created") \/ Reports("running") \/ Reports("exited") =>
            containerStateC' \in Seq(Statuses) /\ Len(containerStateC') <= StateSize
      BY ReportType DEF Statuses
<1>1. CASE Prepare
      <2>1. CASE RunPulls           BY <1>0, <2>1 DEF RunPulls, helperVars
      <2>2. CASE RunCreates         BY <2>2 DEF RunCreates, helperVars
      <2>3. CASE RunReportsCreated  BY <1>0, <2>3 DEF RunReportsCreated, helperVars
      <2>4. CASE RunStarts          BY <2>4 DEF RunStarts, helperVars
      <2>5. CASE RunFails           BY <2>5 DEF RunFails, helperVars
      <2>6. CASE RunEntersLoop      BY <1>0, <2>6 DEF RunEntersLoop
      <2>. QED BY <1>1, <2>1, <2>2, <2>3, <2>4, <2>5, <2>6 DEF Prepare
<1>2. CASE Loop
      <2>1. CASE LoopReports        BY <1>0, <2>1 DEF LoopReports, helperVars
      <2>2. CASE LoopTakesEvent     BY <2>2 DEF LoopTakesEvent
      <2>3. CASE LoopTakesStats     BY <2>3 DEF LoopTakesStats
      <2>4. CASE LoopTakesExit      BY <2>4 DEF LoopTakesExit
      <2>5. CASE LoopLeaves         BY <1>0, <2>5 DEF LoopLeaves, helperVars
      <2>6. CASE LoopFails          BY <2>6 DEF LoopFails
      <2>. QED BY <1>2, <2>1, <2>2, <2>3, <2>4, <2>5, <2>6 DEF Loop
<1>3. CASE Waiter
      BY <1>3 DEF Waiter, WaiterAsks, WaiterHearsExit, WaiterTakesLog, WaiterFails,
                  WaiterIsCancelled, WaiterUnchanged
<1>4. CASE Helpers
      BY <1>4 DEF Helpers, EventsReceives, EventsEnds, StatsReads, StatsEnds, LogsReads, LogsEnds,
                  HelperUnchanged
<1>. QED BY <1>1, <1>2, <1>3, <1>4 DEF RunStep

\* So does every step of the system.
LEMMA NextType ==
    ASSUME TypeOK, Next
    PROVE  TypeOK'
<1>1. CASE App
      <2>1. CASE AppStartsMediaServer
            BY <2>1 DEF AppStartsMediaServer, RunBegins, TypeOK, RunTypeOK, helperVars
      <2>2. CASE AppReceives
            <3>1. stateC \in Seq(Sources) /\ stateC # << >>
                  BY <2>2 DEF AppReceives, TypeOK
            <3>2. /\ Head(stateC) \in Sources
                  /\ Tail(stateC) \in Seq(Sources) /\ Len(Tail(stateC)) <= SourceSize
                  BY <3>1, ChannelTypes, MediaServerAssumption DEF TypeOK
            <3>. QED BY <2>2, <3>2 DEF AppReceives, Sources, TypeOK, RunTypeOK, runVars, helperVars, actorVars
      <2>3. CASE AppIsInterrupted
            BY <2>3 DEF AppIsInterrupted, TypeOK, RunTypeOK, runVars, helperVars, actorVars
      <2>. QED BY <1>1, <2>1, <2>2, <2>3 DEF App
<1>2. CASE Actor
      <2>. USE DEF ActorUnchanged, TypeOK, RunTypeOK, helperVars
      <2>1. CASE ActorTakesState
            <3>1. containerStateC \in Seq(Statuses) /\ containerStateC # << >>
                  BY <2>1 DEF ActorTakesState
            <3>2. /\ Head(containerStateC) \in Statuses
                  /\ Tail(containerStateC) \in Seq(Statuses)
                  /\ Len(Tail(containerStateC)) = Len(containerStateC) - 1
                  /\ Len(containerStateC) \in Nat
                  BY <3>1, ChannelTypes
            <3>5. Len(Tail(containerStateC)) <= StateSize
                  BY <3>2, ContainerRunAssumption
            <3>3. polling' \in BOOLEAN
                  BY <2>1, Zenon DEF ActorTakesState
            <3>4. live' \in BOOLEAN /\ failed' \in BOOLEAN
                  BY <2>1 DEF ActorTakesState
            <3>6. /\ containerStateC' = Tail(containerStateC)
                  /\ status' = Head(containerStateC)
                  /\ actor' = "sending"
                  /\ UNCHANGED errC
                  /\ ActorUnchanged
                  BY <2>1 DEF ActorTakesState
            <3>7. RunTypeOK'
                  BY <3>2, <3>5, <3>6
            <3>. QED BY <3>2, <3>3, <3>4, <3>6, <3>7
      <2>2. CASE ActorHearsError
            <3>1. RunTypeOK'
                  BY <2>2 DEF ActorHearsError
            <3>. QED BY <2>2, <3>1 DEF ActorHearsError
      <2>3. CASE ActorLearns
            <3>1. RunTypeOK'
                  BY <2>3 DEF ActorLearns
            <3>. QED BY <2>3, <3>1 DEF ActorLearns
      <2>4. CASE ActorSends
            <3>1. [live |-> live, failed |-> failed] \in Sources
                  BY DEF Sources
            <3>2. stateC' \in Seq(Sources) /\ Len(stateC') <= SourceSize
                  BY <2>4, <3>1, ChannelTypes, MediaServerAssumption DEF ActorSends
            <3>. QED BY <2>4, <3>2 DEF ActorSends, runVars
      <2>5. CASE ActorIsCancelled
            <3>1. RunTypeOK'
                  BY <2>5 DEF ActorIsCancelled
            <3>. QED BY <2>5, <3>1 DEF ActorIsCancelled
      <2>6. CASE ActorFetches \/ ActorLearnsNothing \/ FetchHangs
            <3>1. RunTypeOK'
                  BY <2>6 DEF ActorFetches, ActorLearnsNothing, FetchHangs
            <3>. QED BY <2>6, <3>1 DEF ActorFetches, ActorLearnsNothing, FetchHangs
      <2>. QED BY <1>2, <2>1, <2>2, <2>3, <2>4, <2>5, <2>6 DEF Actor
<1>3. CASE RunStep /\ UNCHANGED <<app, shown, actorVars, stateC, publishing>>
      <2>1. RunTypeOK'
            BY <1>3, RunStepType DEF TypeOK
      <2>. QED BY <1>3, <2>1 DEF TypeOK, actorVars
<1>4. CASE World
      BY <1>4 DEF World, Interrupt, PublisherComesOrGoes, ContainerExits, WorldUnchanged, TypeOK,
                  RunTypeOK, helperVars, actorVars
<1>. QED BY <1>1, <1>2, <1>3, <1>4 DEF Next

-----------------------------------------------------------------------------
(***************************************************************************)
(* Nothing speaks of an end before the end                                 *)
(***************************************************************************)

\* A run that has ended does not go on, and one that goes on tells of no end.
LEMMA RunQuiet ==
    ASSUME RunStep, run' # "ended", errC = "open",
           containerStateC \in Seq(Statuses \ {"exited"})
    PROVE  /\ run # "ended"
           /\ errC' = "open"
           /\ containerStateC' \in Seq(Statuses \ {"exited"})
<1>1. run # "ended"
      BY DEF RunStep, Prepare, RunPulls, RunCreates, RunReportsCreated, RunStarts, RunFails, RunEntersLoop,
             Loop, LoopReports, LoopTakesEvent, LoopTakesStats, LoopTakesExit, LoopLeaves, LoopFails,
             Waiter, WaiterAsks, WaiterHearsExit, WaiterTakesLog, WaiterFails, WaiterIsCancelled,
             WaiterUnchanged, Helpers, EventsReceives, EventsEnds, StatsReads, StatsEnds, LogsReads,
             LogsEnds, HelperUnchanged
<1>2. errC' = errC /\ (\/ UNCHANGED containerStateC
                       \/ \E e \in {"pulling", "created", "running"} : Reports(e))
      BY DEF RunStep, Prepare, RunPulls, RunCreates, RunReportsCreated, RunStarts, RunFails, RunEntersLoop,
             Loop, LoopReports, LoopTakesEvent, LoopTakesStats, LoopTakesExit, LoopLeaves, LoopFails,
             Waiter, WaiterAsks, WaiterHearsExit, WaiterTakesLog, WaiterFails, WaiterIsCancelled,
             WaiterUnchanged, Helpers, EventsReceives, EventsEnds, StatsReads, StatsEnds, LogsReads,
             LogsEnds, HelperUnchanged
<1>3. ASSUME NEW e \in {"pulling", "created", "running"}, Reports(e)
      PROVE  containerStateC' \in Seq(Statuses \ {"exited"})
      <2>1. e \in Statuses \ {"exited"}
            BY DEF Statuses
      <2>. QED BY <1>3, <2>1, ChannelTypes DEF Reports
<1>. QED BY <1>1, <1>2, <1>3

\* Every step keeps quiet until the run has ended.
LEMMA NextQuiet ==
    ASSUME TypeOK, Quiet, Next
    PROVE  Quiet'
<1>1. SUFFICES ASSUME run' # "ended"
               PROVE  /\ containerStateC' \in Seq(Statuses \ {"exited"})
                      /\ errC' = "open"
                      /\ ~failed'
                      /\ stateC' \in Seq([live : BOOLEAN, failed : {FALSE}])
                      /\ app' # "fatal"
      BY DEF Quiet
<1>2. CASE RunStep /\ UNCHANGED <<app, shown, actorVars, stateC, publishing>>
      <2>1. run # "ended"
            BY <1>1, <1>2 DEF RunStep, Prepare, RunPulls, RunCreates, RunReportsCreated, RunStarts,
               RunFails, RunEntersLoop, Loop, LoopReports, LoopTakesEvent, LoopTakesStats, LoopTakesExit,
               LoopLeaves, LoopFails, Waiter, WaiterAsks, WaiterHearsExit, WaiterTakesLog, WaiterFails,
               WaiterIsCancelled, WaiterUnchanged, Helpers, EventsReceives, EventsEnds, StatsReads,
               StatsEnds, LogsReads, LogsEnds, HelperUnchanged
      <2>. QED BY <1>1, <1>2, <2>1, RunQuiet DEF Quiet, actorVars
<1>3. CASE App
      <2>1. run # "ended"
            BY <1>1, <1>3 DEF App, AppStartsMediaServer, RunBegins, AppReceives, AppIsInterrupted, runVars
      <2>2. CASE AppStartsMediaServer
            BY <2>1, <2>2 DEF AppStartsMediaServer, RunBegins, Quiet
      <2>3. CASE AppReceives
            <3>1. stateC \in Seq([live : BOOLEAN, failed : {FALSE}]) /\ stateC # << >>
                  BY <2>1, <2>3 DEF AppReceives, Quiet
            <3>2. /\ Head(stateC) \in [live : BOOLEAN, failed : {FALSE}]
                  /\ Tail(stateC) \in Seq([live : BOOLEAN, failed : {FALSE}])
                  BY <3>1, ChannelTypes
            <3>3. ~Head(stateC).failed
                  BY <3>2
            <3>. QED BY <2>1, <2>3, <3>2, <3>3 DEF AppReceives, Quiet, runVars, actorVars
      <2>4. CASE AppIsInterrupted
            BY <2>1, <2>4 DEF AppIsInterrupted, Quiet, runVars, actorVars
      <2>. QED BY <1>3, <2>2, <2>3, <2>4 DEF App
<1>4. CASE Actor
      <2>1. run # "ended"
            BY <1>1, <1>4 DEF Actor, ActorTakesState, ActorHearsError, ActorFetches, ActorLearns,
               ActorLearnsNothing, FetchHangs, ActorSends, ActorIsCancelled, ActorUnchanged, runVars
      <2>. USE <2>1 DEF Quiet, ActorUnchanged
      <2>2. CASE ActorTakesState
            <3>1. containerStateC \in Seq(Statuses \ {"exited"}) /\ containerStateC # << >>
                  BY <2>2 DEF ActorTakesState
            <3>2. /\ Head(containerStateC) \in Statuses \ {"exited"}
                  /\ Tail(containerStateC) \in Seq(Statuses \ {"exited"})
                  BY <3>1, ChannelTypes
            <3>. QED BY <2>2, <3>2 DEF ActorTakesState
      <2>3. CASE ActorHearsError
            BY <2>3 DEF ActorHearsError
      <2>4. CASE ActorLearns
            BY <2>4 DEF ActorLearns
      <2>5. CASE ActorSends
            <3>1. [live |-> live, failed |-> failed] \in [live : BOOLEAN, failed : {FALSE}]
                  BY DEF TypeOK
            <3>2. stateC' \in Seq([live : BOOLEAN, failed : {FALSE}])
                  BY <2>5, <3>1, ChannelTypes DEF ActorSends
            <3>. QED BY <2>5, <3>2 DEF ActorSends, runVars
      <2>6. CASE ActorIsCancelled
            BY <2>6 DEF ActorIsCancelled
      <2>7. CASE ActorFetches \/ ActorLearnsNothing \/ FetchHangs
            BY <2>7 DEF ActorFetches, ActorLearnsNothing, FetchHangs
      <2>. QED BY <1>4, <2>2, <2>3, <2>4, <2>5, <2>6, <2>7 DEF Actor
<1>5. CASE World
      BY <1>1, <1>5 DEF World, Interrupt, PublisherComesOrGoes, ContainerExits, WorldUnchanged, Quiet, actorVars
<1>. QED BY <1>2, <1>3, <1>4, <1>5 DEF Next

-----------------------------------------------------------------------------

\* IndInv holds at first and is kept by every step.
LEMMA Inductive == Spec => []IndInv
<1>1. ASSUME Init
      PROVE  IndInv
      <2>1. /\ << >> \in Seq(Statuses)
            /\ << >> \in Seq(Sources)
            /\ << >> \in Seq(Statuses \ {"exited"})
            /\ << >> \in Seq([live : BOOLEAN, failed : {FALSE}])
            /\ Len(<< >>) = 0
            OBVIOUS
      <2>2. RunTypeOK
            <3>1. Len(containerStateC) <= StateSize
                  BY <1>1, <2>1, ContainerRunAssumption DEF Init, RunInit
            <3>. QED BY <1>1, <2>1, <3>1 DEF Init, RunInit, RunTypeOK
      <2>3. TypeOK
            <3>1. Len(stateC) <= SourceSize
                  BY <1>1, <2>1, MediaServerAssumption DEF Init
            <3>. QED BY <1>1, <2>1, <2>2, <3>1 DEF Init, TypeOK
      <2>4. Quiet
            BY <1>1, <2>1 DEF Init, RunInit, Quiet
      <2>. QED BY <2>3, <2>4 DEF IndInv
<1>2. IndInv /\ [Next]_vars => IndInv'
      <2>1. ASSUME IndInv, Next
            PROVE  IndInv'
            BY <2>1, NextType, NextQuiet DEF IndInv
      <2>2. ASSUME IndInv, UNCHANGED vars
            PROVE  IndInv'
            BY <2>2 DEF IndInv, TypeOK, RunTypeOK, Quiet, vars, runVars, helperVars, actorVars
      <2>. QED BY <2>1, <2>2
<1>. QED BY <1>1, <1>2, PTL DEF Spec

\* Every variable of the media server's actor and of its container's run
\* keeps its type, and no channel holds more than its capacity.
THEOREM TypeCorrect == Spec => []TypeOK
<1>1. IndInv => TypeOK
      BY DEF IndInv
<1>. QED BY <1>1, Inductive, PTL

\* doFatalError is called for the media server only when the goroutine of
\* RunContainer is done: no order of the states and the error raises the alarm
\* before.
THEOREM FatalOnlyAfterEnd == Spec => []AlarmIsTrue
<1>1. IndInv => AlarmIsTrue
      BY DEF IndInv, Quiet, AlarmIsTrue
<1>. QED BY <1>1, Inductive, PTL
===============================================================================
