----------------------------- MODULE ContainerRun -----------------------------
(***************************************************************************)
(* RunContainer of internal/container/container.go for a container that is *)
(* not restarted, with the goroutines around its loop:                     *)
(*                                                                         *)
(*   events, stats --> runContainerLoop <-- waitForContainerExit <-- logs  *)
(*                                                                         *)
(* and its two channels to the caller.  The channels inside are not        *)
(* buffered: who sends waits until it is heard.  The Docker engine is      *)
(* external.                                                               *)
(***************************************************************************)
EXTENDS Naturals, Sequences

CONSTANTS
    StateSize,  \* capacity of containerStateC (64 in the code)
    Faults      \* what may go wrong: a subset of FaultKinds

FaultKinds == {"docker",    \* a call of the Docker engine fails
               "exit"}      \* the container exits by itself

ASSUME ContainerRunAssumption ==
    /\ StateSize \in Nat \ {0}
    /\ Faults \subseteq FaultKinds

VARIABLES
    cancelled,  \* the context from which all others derive is done
    run,        \* where the goroutine of RunContainer is
    waiter,     \* where waitForContainerExit is; "late" if it asked for the
                \* next exit when the container had exited already
    events,     \* where handleEvents is
    stats,      \* where handleStats is
    logs,       \* where getLogs is
    container,  \* the container, as the Docker engine has it
    containerStateC,    \* the statuses reported to the caller
    errC        \* "open", "error" (buffered, then closed) or "closed"

helperVars == <<waiter, events, stats, logs>>
runVars == <<cancelled, run, helperVars, container, containerStateC, errC>>

Statuses == {"pulling", "created", "running", "exited"}

RunTypeOK ==
    /\ cancelled \in BOOLEAN
    /\ run \in {"idle", "pulling", "created", "connecting", "started",
                "reporting", "looping", "leaving", "ended"}
    /\ waiter \in {"none", "asking", "waiting", "late", "offering", "failed", "ended"}
    /\ events \in {"none", "listening", "sending", "ended"}
    /\ stats \in {"none", "reading", "sending", "ended"}
    /\ logs \in {"none", "reading", "sending", "ended"}
    /\ container \in {"none", "created", "running", "exited"}
    /\ containerStateC \in Seq(Statuses) /\ Len(containerStateC) <= StateSize
    /\ errC \in {"open", "error", "closed"}

RunInit ==
    /\ cancelled = FALSE
    /\ run = "idle"
    /\ waiter = "none"
    /\ events = "none"
    /\ stats = "none"
    /\ logs = "none"
    /\ container = "none"
    /\ containerStateC = << >>
    /\ errC = "open"

DockerMayFail == "docker" \in Faults \/ cancelled

\* A status is sent when the channel has room for it.
Reports(status) ==
    /\ Len(containerStateC) < StateSize
    /\ containerStateC' = Append(containerStateC, status)

-----------------------------------------------------------------------------
(***************************************************************************)
(* The goroutine of RunContainer, up to its loop                           *)
(***************************************************************************)

RunBegins ==
    /\ run = "idle"
    /\ run' = "pulling"
    /\ UNCHANGED <<cancelled, helperVars, container, containerStateC, errC>>

\* handleImagePull tells its progress; its error is only logged.
RunPulls ==
    /\ run = "pulling"
    /\ Reports("pulling")
    /\ UNCHANGED <<cancelled, run, helperVars, container, errC>>

RunCreates ==
    /\ run = "pulling"
    /\ run' = "created"
    /\ container' = "created"
    /\ UNCHANGED <<cancelled, helperVars, containerStateC, errC>>

RunReportsCreated ==
    /\ run = "created"
    /\ Reports("created")
    /\ run' = "connecting"
    /\ UNCHANGED <<cancelled, helperVars, container, errC>>

\* NetworkConnect, copyFilesToContainer and ContainerStart
RunStarts ==
    /\ run = "connecting"
    /\ run' = "started"
    /\ container' = "running"
    /\ UNCHANGED <<cancelled, helperVars, containerStateC, errC>>

RunFails ==
    /\ run \in {"pulling", "connecting"}
    /\ DockerMayFail
    /\ run' = "ended"
    /\ errC' = "error"
    /\ UNCHANGED <<cancelled, helperVars, container, containerStateC>>

RunEntersLoop ==
    /\ run = "started"
    /\ Reports("running")
    /\ run' = "reporting"
    /\ waiter' = "asking"
    /\ events' = "listening"
    /\ stats' = "reading"
    /\ UNCHANGED <<cancelled, logs, container, errC>>

-----------------------------------------------------------------------------
(***************************************************************************)
(* runContainerLoop                                                        *)
(***************************************************************************)

LoopReports ==
    /\ run = "reporting"
    /\ Reports("running")
    /\ run' = "looping"
    /\ UNCHANGED <<cancelled, helperVars, container, errC>>

\* Only a change of health is worth a report.
LoopTakesEvent ==
    /\ run = "looping"
    /\ events = "sending"
    /\ run' \in {"reporting", "looping"}
    /\ events' = "listening"
    /\ UNCHANGED <<cancelled, waiter, stats, logs, container, containerStateC, errC>>

LoopTakesStats ==
    /\ run = "looping"
    /\ stats = "sending"
    /\ run' = "reporting"
    /\ stats' = "reading"
    /\ UNCHANGED <<cancelled, waiter, events, logs, container, containerStateC, errC>>

LoopTakesExit ==
    /\ run = "looping"
    /\ waiter = "offering"
    /\ run' = "leaving"
    /\ waiter' = "ended"
    /\ UNCHANGED <<cancelled, events, stats, logs, container, containerStateC, errC>>

\* Mutant of LoopLeaves: the exit is not reported.
LoopLeavesSilently ==
    /\ run = "leaving"
    /\ run' = "ended"
    /\ errC' = "closed"
    /\ UNCHANGED <<cancelled, helperVars, container, containerStateC>>

LoopLeaves ==
    /\ run = "leaving"
    /\ Reports("exited")
    /\ run' = "ended"
    /\ errC' = "closed"
    /\ UNCHANGED <<cancelled, helperVars, container>>

LoopFails ==
    /\ run = "looping"
    /\ waiter = "failed"
    /\ run' = "ended"
    /\ waiter' = "ended"
    /\ errC' = "error"
    /\ UNCHANGED <<cancelled, events, stats, logs, container, containerStateC>>

-----------------------------------------------------------------------------
(***************************************************************************)
(* waitForContainerExit                                                    *)
(***************************************************************************)

WaiterUnchanged == UNCHANGED <<cancelled, run, events, stats, container, containerStateC, errC>>

WaiterAsks ==
    /\ waiter = "asking"
    /\ waiter' = IF container = "running" THEN "waiting" ELSE "late"
    /\ logs' = "reading"
    /\ WaiterUnchanged

WaiterHearsExit ==
    /\ waiter = "waiting"
    /\ container = "exited"
    /\ waiter' = "offering"
    /\ UNCHANGED logs
    /\ WaiterUnchanged

WaiterTakesLog ==
    /\ waiter \in {"waiting", "late"}
    /\ logs = "sending"
    /\ logs' = "reading"
    /\ UNCHANGED waiter
    /\ WaiterUnchanged

WaiterFails ==
    /\ waiter \in {"waiting", "late"}
    /\ DockerMayFail
    /\ waiter' = "failed"
    /\ UNCHANGED logs
    /\ WaiterUnchanged

\* Taken by the loop for an exit with code 0.
WaiterIsCancelled ==
    /\ waiter \in {"waiting", "late"}
    /\ cancelled
    /\ waiter' = "offering"
    /\ UNCHANGED logs
    /\ WaiterUnchanged

-----------------------------------------------------------------------------
(***************************************************************************)
(* handleEvents, handleStats, getLogs                                      *)
(***************************************************************************)

HelperUnchanged == UNCHANGED <<cancelled, run, waiter, container, containerStateC, errC>>

EventsReceives ==
    /\ events = "listening"
    /\ events' = "sending"
    /\ UNCHANGED <<stats, logs>>
    /\ HelperUnchanged

EventsEnds ==
    /\ events = "listening"
    /\ DockerMayFail
    /\ events' = "ended"
    /\ UNCHANGED <<stats, logs>>
    /\ HelperUnchanged

StatsReads ==
    /\ stats = "reading"
    /\ container = "running"
    /\ stats' = "sending"
    /\ UNCHANGED <<events, logs>>
    /\ HelperUnchanged

StatsEnds ==
    /\ stats = "reading"
    /\ container # "running" \/ DockerMayFail
    /\ stats' = "ended"
    /\ UNCHANGED <<events, logs>>
    /\ HelperUnchanged

LogsReads ==
    /\ logs = "reading"
    /\ logs' = "sending"
    /\ UNCHANGED <<events, stats>>
    /\ HelperUnchanged

\* Its context ends with the loop.
LogsEnds ==
    /\ logs = "reading"
    /\ container # "running" \/ DockerMayFail \/ run = "ended"
    /\ logs' = "ended"
    /\ UNCHANGED <<events, stats>>
    /\ HelperUnchanged

-----------------------------------------------------------------------------

Prepare ==
    \/ RunPulls \/ RunCreates \/ RunReportsCreated \/ RunStarts \/ RunFails \/ RunEntersLoop

Loop ==
    \/ LoopReports \/ LoopTakesEvent \/ LoopTakesStats \/ LoopTakesExit \/ LoopLeaves \/ LoopFails

Waiter ==
    \/ WaiterAsks \/ WaiterHearsExit \/ WaiterTakesLog \/ WaiterFails \/ WaiterIsCancelled

Helpers ==
    \/ EventsReceives \/ EventsEnds \/ StatsReads \/ StatsEnds \/ LogsReads \/ LogsEnds

RunStep == Prepare \/ Loop \/ Waiter \/ Helpers

(***************************************************************************)
(* The goroutines run.  runContainerLoop's select picks at random, so an   *)
(* exit that is offered again and again is taken.                          *)
(***************************************************************************)
RunFairness ==
    /\ WF_runVars(RunCreates \/ RunReportsCreated \/ RunStarts \/ RunEntersLoop)
    /\ WF_runVars(LoopReports \/ LoopLeaves)
    /\ SF_runVars(LoopTakesExit \/ LoopFails)
    /\ WF_runVars(WaiterAsks \/ WaiterHearsExit \/ WaiterIsCancelled)
===============================================================================
