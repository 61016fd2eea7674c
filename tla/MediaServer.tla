------------------------------ MODULE MediaServer ------------------------------
(***************************************************************************)
(* The actor of internal/mediaserver/actor.go between the run of its       *)
(* container and the main loop of the server:                              *)
(*                                                                         *)
(*   run --containerStateC, errC--> actorLoop --stateC--> App.Run          *)
(*                                                                         *)
(* While its container runs, the actor polls the media server's API for    *)
(* whether the source is published.  The media server and its publisher    *)
(* are external.                                                           *)
(***************************************************************************)
EXTENDS ContainerRun

CONSTANT SourceSize     \* capacity of stateC (64 in the code)

ASSUME MediaServerAssumption == SourceSize \in Nat \ {0}

VARIABLES
    app,        \* where Run is: in its loop, in doFatalError, or out of it
    shown,      \* state.Source.Live, as the clients see it
    actor,      \* where actorLoop is; "hung" in a fetch that gets no answer
    status,     \* the actor's state: Container.Status,
    live,       \* Live,
    failed,     \* and whether ExitReason is set
    polling,    \* its ticker runs
    stateC,     \* the states it sent
    publishing  \* the media server has a publisher on the path

actorVars == <<actor, status, live, failed, polling>>
vars == <<runVars, app, shown, actorVars, stateC, publishing>>

Sources == [live : BOOLEAN, failed : BOOLEAN]

TypeOK ==
    /\ RunTypeOK
    /\ app \in {"loop", "fatal", "returned"}
    /\ shown \in BOOLEAN
    /\ actor \in {"none", "selecting", "fetching", "hung", "sending", "ended"}
    /\ status \in Statuses \union {"unknown"}
    /\ live \in BOOLEAN
    /\ failed \in BOOLEAN
    /\ polling \in BOOLEAN
    /\ stateC \in Seq(Sources) /\ Len(stateC) <= SourceSize
    /\ publishing \in BOOLEAN

Init ==
    /\ RunInit
    /\ app = "loop"
    /\ shown = FALSE
    /\ actor = "none"
    /\ status = "unknown"
    /\ live = FALSE
    /\ failed = FALSE
    /\ polling = FALSE
    /\ stateC = << >>
    /\ publishing = FALSE

-----------------------------------------------------------------------------
(***************************************************************************)
(* The main loop of the server                                             *)
(***************************************************************************)

\* srv.Start, for the one token of startMediaServerC.
AppStartsMediaServer ==
    /\ app = "loop"
    /\ RunBegins
    /\ actor' = "selecting"
    /\ UNCHANGED <<app, shown, status, live, failed, polling, stateC, publishing>>

AppReceives ==
    /\ app = "loop"
    /\ stateC # << >>
    /\ stateC' = Tail(stateC)
    /\ IF Head(stateC).failed THEN app' = "fatal" /\ UNCHANGED shown
                              ELSE shown' = Head(stateC).live /\ UNCHANGED app
    /\ UNCHANGED <<runVars, actorVars, publishing>>

AppIsInterrupted ==
    /\ app = "loop"
    /\ cancelled
    /\ app' = "returned"
    /\ UNCHANGED <<runVars, shown, actorVars, stateC, publishing>>

-----------------------------------------------------------------------------
(***************************************************************************)
(* actorLoop.  While it sends it looks at nothing else.                    *)
(***************************************************************************)

ActorUnchanged ==
    UNCHANGED <<cancelled, run, helperVars, container, app, shown, stateC, publishing>>

\* Mutant of ActorTakesState: whatever is not running has exited.
ActorTakesStateHastily ==
    /\ actor = "selecting"
    /\ containerStateC # << >>
    /\ containerStateC' = Tail(containerStateC)
    /\ status' = Head(containerStateC)
    /\ polling' = (status' = "running")
    /\ IF status' # "running" THEN live' = FALSE /\ failed' = TRUE
                              ELSE UNCHANGED <<live, failed>>
    /\ actor' = "sending"
    /\ UNCHANGED errC
    /\ ActorUnchanged

\* Mutant of ActorTakesState: the ticker is not started.
ActorTakesStateIdly ==
    /\ actor = "selecting"
    /\ containerStateC # << >>
    /\ containerStateC' = Tail(containerStateC)
    /\ status' = Head(containerStateC)
    /\ IF status' = "exited" THEN live' = FALSE /\ failed' = TRUE
                             ELSE UNCHANGED <<live, failed>>
    /\ actor' = "sending"
    /\ UNCHANGED <<errC, polling>>
    /\ ActorUnchanged

ActorTakesState ==
    /\ actor = "selecting"
    /\ containerStateC # << >>
    /\ containerStateC' = Tail(containerStateC)
    /\ status' = Head(containerStateC)
    /\ polling' = (status' # "exited" /\ (polling \/ (status' = "running" /\ status # "running")))
    /\ IF status' = "exited" THEN live' = FALSE /\ failed' = TRUE
                             ELSE UNCHANGED <<live, failed>>
    /\ actor' = "sending"
    /\ UNCHANGED errC
    /\ ActorUnchanged

\* That the channel is closed is forgotten as soon as it is heard.
ActorHearsError ==
    /\ actor = "selecting"
    /\ errC = "error"
    /\ errC' = "closed"
    /\ polling' = FALSE
    /\ live' = FALSE
    /\ failed' = TRUE
    /\ actor' = "sending"
    /\ UNCHANGED <<containerStateC, status>>
    /\ ActorUnchanged

\* The ticker fires: fetchPath asks the media server's API, and actorLoop waits.
ActorFetches ==
    /\ actor = "selecting"
    /\ polling
    /\ actor' = "fetching"
    /\ UNCHANGED <<containerStateC, errC, status, live, failed, polling>>
    /\ ActorUnchanged

\* The answer is news.  Without the container there is none.
ActorLearns ==
    /\ actor = "fetching"
    /\ container = "running"
    /\ publishing # live
    /\ live' = publishing
    /\ actor' = "sending"
    /\ UNCHANGED <<containerStateC, errC, status, failed, polling>>
    /\ ActorUnchanged

\* The call fails, as it may at any time, or tells what is known.
ActorLearnsNothing ==
    /\ actor = "fetching"
    /\ actor' = "selecting"
    /\ UNCHANGED <<containerStateC, errC, status, live, failed, polling>>
    /\ ActorUnchanged

\* The API never answers.  The call has neither a timeout nor a context.
FetchHangs ==
    /\ actor = "fetching"
    /\ actor' = "hung"
    /\ UNCHANGED <<containerStateC, errC, status, live, failed, polling>>
    /\ ActorUnchanged

\* Mutant of ActorSends: it does not wait for room.
ActorSendsAtOnce ==
    /\ actor = "sending"
    /\ stateC' = Append(stateC, [live |-> live, failed |-> failed])
    /\ actor' = "selecting"
    /\ UNCHANGED <<runVars, app, shown, status, live, failed, polling, publishing>>

ActorSends ==
    /\ actor = "sending"
    /\ Len(stateC) < SourceSize
    /\ stateC' = Append(stateC, [live |-> live, failed |-> failed])
    /\ actor' = "selecting"
    /\ UNCHANGED <<runVars, app, shown, status, live, failed, polling, publishing>>

ActorIsCancelled ==
    /\ actor = "selecting"
    /\ cancelled
    /\ actor' = "ended"
    /\ UNCHANGED <<containerStateC, errC, status, live, failed, polling>>
    /\ ActorUnchanged

-----------------------------------------------------------------------------
(***************************************************************************)
(* The world around                                                        *)
(***************************************************************************)

WorldUnchanged ==
    UNCHANGED <<run, helperVars, containerStateC, errC, app, shown, actorVars, stateC>>

Interrupt ==
    /\ ~cancelled
    /\ cancelled' = TRUE
    /\ UNCHANGED <<container, publishing>>
    /\ WorldUnchanged

PublisherComesOrGoes ==
    /\ container = "running"
    /\ publishing' = ~publishing
    /\ UNCHANGED <<cancelled, container>>
    /\ WorldUnchanged

\* It exits, or another instance removes it.
ContainerExits ==
    /\ "exit" \in Faults
    /\ container = "running"
    /\ container' = "exited"
    /\ publishing' = FALSE
    /\ UNCHANGED cancelled
    /\ WorldUnchanged

-----------------------------------------------------------------------------

App == AppStartsMediaServer \/ AppReceives \/ AppIsInterrupted

Actor ==
    \/ ActorTakesState \/ ActorHearsError \/ ActorSends \/ ActorIsCancelled
    \/ ActorFetches \/ ActorLearns \/ ActorLearnsNothing \/ FetchHangs

World == Interrupt \/ PublisherComesOrGoes \/ ContainerExits

Next ==
    \/ App
    \/ Actor
    \/ RunStep /\ UNCHANGED <<app, shown, actorVars, stateC, publishing>>
    \/ World

(***************************************************************************)
(* Each select picks at random among what is ready, so what is ready again *)
(* and again is taken.  A call of the API returns or hangs for good; of    *)
(* those that return enough succeed.                                       *)
(***************************************************************************)
Fairness ==
    /\ RunFairness
    /\ WF_vars(App)
    /\ SF_vars(ActorTakesState \/ ActorHearsError)
    /\ SF_vars(ActorFetches)
    /\ SF_vars(ActorLearns)
    /\ WF_vars(ActorLearns \/ ActorLearnsNothing \/ FetchHangs)
    /\ WF_vars(ActorSends)

Spec == Init /\ [][Next]_vars
FairSpec == Spec /\ Fairness

-----------------------------------------------------------------------------

\* Run gives up the media server only when the goroutine of RunContainer has
\* ended: none of the states that arrive late or in another order raises the
\* alarm before.  (That goroutine also ends when the wait for the container
\* fails, whether or not the container runs.)
AlarmIsTrue == app = "fatal" => run = "ended"

\* A media server that exits ends Run's loop, unless the exit came before it
\* was waited for or the actor hangs in a call of its API.
ExitIsNoticed == container = "exited" ~> app # "loop" \/ waiter = "late" \/ actor = "hung"

\* A publisher that stays, or stays away, is in the end what clients see,
\* unless the actor hangs in a call of the API.
PublisherIsShown ==
    \A here \in BOOLEAN :
        <>[](container = "running" /\ publishing = here) =>
            <>[](shown = here \/ app # "loop" \/ actor = "hung")

\* What the comment on httpClientTimeout promises: there is a timeout for the
\* requests to the API, so that actorLoop comes back from each.
FetchIsTimedOut == actor \in {"fetching", "hung"} ~> actor \notin {"fetching", "hung"}
===============================================================================
