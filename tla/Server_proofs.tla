---------------------------- MODULE Server_proofs ----------------------------
(***************************************************************************)
(* Proofs about Server, for any finite set of clients, any unary calls,    *)
(* channels of any capacity, either way of starting and any of the faults. *)
(*                                                                         *)
(* AsksBeforeLeaving counts on clientCount, which is only a number: IndInv *)
(* adds that it is the number of the sessions being served (Counted), for  *)
(* which a session that is not set up yet must have no receive goroutine   *)
(* (Fresh), and that Run returns once (Running).                           *)
(*                                                                         *)
(* Last, a main loop that is wedged stays so.                              *)
(***************************************************************************)
EXTENDS Server, TLAPS, FiniteSetTheorems

Served == {c \in Clients : receiver[c] \in {"receiving", "dispatching"}}

Counted == clientCount = Cardinality(Served)

Fresh == \A c \in Clients : handler[c] # "serving" => receiver[c] = "none"

\* A command that is being dispatched is still at the head of its stream.
Holding == \A c \in Clients : receiver[c] = "dispatching" => toServer[c] # << >>

\* Run returns once.
Running == app # "returned" => exit = "none"

IndInv ==
    /\ TypeOK
    /\ Holding
    /\ Fresh
    /\ Counted
    /\ Running
-----------------------------------------------------------------------------
(***************************************************************************)
(* The bus: whatever is done to it leaves it well-typed and no channel     *)
(* over its capacity                                                       *)
(***************************************************************************)

\* An event for any of the clients leaves the bus well-typed.
LEMMA DeliveredType ==
    ASSUME BusTypeOK, NEW to, NEW evt \in Events,
           eventsC' = Delivered(to, evt), consumers' = consumers
    PROVE  BusTypeOK'
<1>. USE EventBusAssumption DEF BusTypeOK
<1>1. ASSUME NEW c \in Clients
      PROVE  /\ Append(eventsC[c], evt) \in Seq(Events)
             /\ Len(Append(eventsC[c], evt)) = Len(eventsC[c]) + 1
             /\ Len(eventsC[c]) \in Nat
      OBVIOUS
<1>2. eventsC' \in [Clients -> Seq(Events)]
      BY <1>1 DEF Delivered
<1>3. ASSUME NEW c \in Clients
      PROVE  Len(eventsC'[c]) <= BusSize
      BY <1>1 DEF Delivered
<1>. QED BY <1>2, <1>3

\* So do Register and Deregister, which empty one channel.
LEMMA EmptiedType ==
    ASSUME BusTypeOK, NEW c \in Clients, eventsC' = [eventsC EXCEPT ![c] = << >>],
           consumers' \in SUBSET Clients
    PROVE  BusTypeOK'
<1>1. << >> \in Seq(Events) /\ Len(<< >>) = 0
      OBVIOUS
<1>. QED BY <1>1, EventBusAssumption DEF BusTypeOK

\* And Receive, which hands out an event.
LEMMA ReceiveType ==
    ASSUME BusTypeOK, NEW c \in Clients, Receive(c)
    PROVE  BusTypeOK' /\ Head(eventsC[c]) \in Events
<1>. USE EventBusAssumption DEF BusTypeOK, Receive
<1>1. /\ Head(eventsC[c]) \in Events
      /\ Tail(eventsC[c]) \in Seq(Events)
      /\ Len(eventsC[c]) \in Nat
      /\ Len(Tail(eventsC[c])) = Len(eventsC[c]) - 1
      OBVIOUS
<1>. QED BY <1>1

-----------------------------------------------------------------------------
(***************************************************************************)
(* What each part of the system leaves alone                               *)
(***************************************************************************)

\* A client changes nothing of the server.
LEMMA ClientFrame ==
    ASSUME NEW c \in Clients, Client(c)
    PROVE  UNCHANGED <<appVars, serverVars, busVars, dispatchC, call>>
    BY DEF Client, ClientConnects, ClientOpens, ClientRegistersUI, ClientReceives, ClientAnswers,
           ClientWorks, ClientQuits, ClientUnchanged

\* A session changes nothing of Run.
LEMMA SessionFrame ==
    ASSUME NEW c \in Clients, Handler(c) \/ Sender(c) \/ Receiver(c) \/ ReceiverRejects(c)
    PROVE  UNCHANGED <<appVars, ui, modal, call>>
    BY DEF Handler, Sender, Receiver, HandlerShakes, HandlerAnnounces, HandlerServes, SenderSends,
           SenderEnds, ReceiverCounts, ReceiverReceives, ReceiverDispatches, ReceiverEnds,
           ReceiverRejects, SessionUnchanged

\* A unary call changes nothing but itself and the main loop's queue.
LEMMA CallFrame ==
    ASSUME NEW k \in Callers, CallArrives(k) \/ CallDispatches(k)
    PROVE  UNCHANGED <<appVars, serverVars, clientVars, busVars>>
    BY DEF CallArrives, CallDispatches, CallUnchanged

\* Before its main loop Run changes nothing of the sessions.
LEMMA StartupFrame ==
    ASSUME Startup
    PROVE  UNCHANGED <<interrupted, mediaServer, exitReported,
                       clientCount, handler, sender, receiver, clientVars, call>>
    BY DEF Startup, AppMeetsClient, AppConnects, AppFails, AppCountsOnError, AppIsAcknowledged,
           AppChecks, AppCounts, StartupUnchanged

\* Nor does the main loop.
LEMMA LoopFrame ==
    ASSUME Loop
    PROVE  UNCHANGED <<interrupted, serverVars, clientVars>>
    BY DEF Loop, LoopStartsMediaServer, LoopTicks, LoopHandles, LoopWorks, LoopClosesOthers,
           LoopIsKilled, LoopSendsStart, LoopLosesMediaServer, LoopLosesListener,
           LoopIsInterrupted, LoopUnchanged
-----------------------------------------------------------------------------
(***************************************************************************)
(* Types                                                                   *)
(***************************************************************************)

\* A channel's entries: what Append adds and Tail takes away.
LEMMA QueueTypes ==
    ASSUME NEW S, NEW s \in Seq(S)
    PROVE  /\ Len(s) \in Nat
           /\ << >> \in Seq(S)
           /\ \A e \in S : /\ Append(s, e) \in Seq(S)
                           /\ Len(Append(s, e)) = Len(s) + 1
                           /\ <<e>> \in Seq(S)
           /\ s # << >> => /\ Head(s) \in S
                           /\ Tail(s) \in Seq(S)
                           /\ Len(Tail(s)) = Len(s) - 1
    OBVIOUS

LEMMA OneEntry ==
    ASSUME NEW S, NEW e \in S
    PROVE  <<e>> \in Seq(S)
    OBVIOUS

\* What is left alone keeps its type.
LEMMA TypeFrame ==
    ASSUME TypeOK
    PROVE  /\ UNCHANGED busVars => BusTypeOK'
           /\ UNCHANGED appVars => AppTypeOK'
           /\ UNCHANGED serverVars => ServerTypeOK'
           /\ UNCHANGED clientVars => ClientTypeOK'
           /\ UNCHANGED <<dispatchC, call>> =>
                /\ dispatchC' \in Seq(Commands) /\ Len(dispatchC') <= DispatchSize
                /\ call' \in [Callers -> {"idle", "sending", "waiting", "answered"}]
<1>1. UNCHANGED busVars => BusTypeOK'
      BY DEF TypeOK, BusTypeOK, busVars
<1>2. UNCHANGED appVars => AppTypeOK'
      BY DEF TypeOK, AppTypeOK, appVars
<1>3. UNCHANGED serverVars => ServerTypeOK'
      BY DEF TypeOK, ServerTypeOK, serverVars
<1>4. UNCHANGED clientVars => ClientTypeOK'
      BY DEF TypeOK, ClientTypeOK, clientVars
<1>. QED BY <1>1, <1>2, <1>3, <1>4 DEF TypeOK

\* A client's steps keep the types.
LEMMA ClientType ==
    ASSUME TypeOK, NEW c \in Clients, Client(c)
    PROVE  TypeOK'
<1>1. UNCHANGED <<appVars, serverVars, busVars, dispatchC, call>>
      BY ClientFrame
<1>2. SUFFICES ClientTypeOK'
      BY <1>1, TypeFrame DEF TypeOK
<1>. USE DEF ClientTypeOK
<1>3. ClientTypeOK
      BY DEF TypeOK
<1>4. /\ << >> \in Seq(Events)
      /\ toClient[c] # << >> => Tail(toClient[c]) \in Seq(Events)
      BY <1>3, QueueTypes
<1>5. \A kind \in Kinds : <<Command(kind, c)>> \in Seq(Commands)
      BY OneEntry DEF Command, Commands
<1>6. CASE ClientConnects(c) \/ ClientOpens(c) \/ ClientRegistersUI(c)
      BY <1>3, <1>6 DEF ClientConnects, ClientOpens, ClientRegistersUI
<1>7. CASE ClientReceives(c)
      BY <1>3, <1>4, <1>7 DEF ClientReceives
<1>8. CASE \E kind \in {"close", "kill"} : ClientAnswers(c, kind)
      <2>1. PICK kind \in {"close", "kill"} : ClientAnswers(c, kind)
            BY <1>8
      <2>2. toServer' \in [Clients -> Seq(Commands)] /\ UNCHANGED <<client, ui, toClient>>
            BY <1>3, <1>5, <2>1 DEF ClientAnswers, ClientSends, Kinds
      <2>3. modal' \in [Clients -> SUBSET {"other", "fatal"}]
            BY <1>3, <2>1 DEF ClientAnswers
      <2>. QED BY <1>3, <2>2, <2>3
<1>9. CASE ClientWorks(c)
      BY <1>3, <1>5, <1>9 DEF ClientWorks, ClientSends, Kinds
<1>10. CASE ClientQuits(c)
      BY <1>3, <1>4, <1>10 DEF ClientQuits
<1>. QED BY <1>6, <1>7, <1>8, <1>9, <1>10 DEF Client

\* A session's steps keep the types.
LEMMA SessionType ==
    ASSUME TypeOK, Holding, Counted, NEW c \in Clients,
           Handler(c) \/ Sender(c) \/ Receiver(c) \/ ReceiverRejects(c)
    PROVE  TypeOK'
<1>1. UNCHANGED <<appVars, ui, modal, call>>
      BY SessionFrame
<1>2. UNCHANGED busVars => BusTypeOK'
      BY TypeFrame
<1>3. SUFFICES /\ BusTypeOK' /\ ServerTypeOK'
               /\ UNCHANGED client \/ client' = [client EXCEPT ![c] = "shaken"]
               /\ toClient' \in [Clients -> Seq(Events)]
               /\ toServer' \in [Clients -> Seq(Commands)]
               /\ dispatchC' \in Seq(Commands) /\ Len(dispatchC') <= DispatchSize
      <2>1. AppTypeOK'
            BY <1>1, TypeFrame
      <2>2. ClientTypeOK'
            BY <1>1, <1>3 DEF TypeOK, ClientTypeOK
      <2>. QED BY <1>1, <1>3, <2>1, <2>2 DEF TypeOK
<1>4. /\ BusTypeOK /\ ServerTypeOK
      /\ toClient \in [Clients -> Seq(Events)]
      /\ toServer \in [Clients -> Seq(Commands)]
      /\ dispatchC \in Seq(Commands) /\ Len(dispatchC) <= DispatchSize
      BY DEF TypeOK, ClientTypeOK
<1>5. CASE HandlerShakes(c)
      BY <1>2, <1>4, <1>5 DEF HandlerShakes, ServerTypeOK
<1>6. CASE HandlerAnnounces(c)
      BY <1>2, <1>4, <1>6 DEF HandlerAnnounces, ServerTypeOK
<1>7. CASE HandlerServes(c)
      <2>1. BusTypeOK'
            BY <1>4, <1>7, EmptiedType DEF HandlerServes, Register, BusTypeOK
      <2>. QED BY <1>4, <1>7, <2>1 DEF HandlerServes, ServerTypeOK
<1>8. CASE SenderSends(c)
      <2>1. BusTypeOK' /\ Head(eventsC[c]) \in Events
            BY <1>4, <1>8, ReceiveType DEF SenderSends
      <2>2. <<Head(eventsC[c])>> \in Seq(Events)
            BY <2>1, OneEntry
      <2>3. ServerTypeOK'
            BY <1>8, TypeFrame DEF SenderSends
      <2>. QED BY <1>4, <1>8, <2>1, <2>2, <2>3 DEF SenderSends
<1>9. CASE SenderEnds(c)
      <2>1. BusTypeOK'
            BY <1>4, <1>9, EmptiedType DEF SenderEnds, Deregister, BusTypeOK
      <2>. QED BY <1>4, <1>9, <2>1 DEF SenderEnds, ServerTypeOK
<1>10. CASE ReceiverCounts(c)
      BY <1>2, <1>4, <1>10 DEF ReceiverCounts, ServerTypeOK
<1>11. CASE ReceiverReceives(c)
      BY <1>2, <1>4, <1>11 DEF ReceiverReceives, ServerTypeOK
<1>12. CASE ReceiverDispatches(c)
      <2>1. toServer[c] \in Seq(Commands) /\ toServer[c] # << >>
            BY <1>4, <1>12 DEF ReceiverDispatches, Holding
      <2>2. Head(toServer[c]) \in Commands /\ Tail(toServer[c]) \in Seq(Commands)
            BY <2>1, QueueTypes
      <2>3. dispatchC' \in Seq(Commands) /\ Len(dispatchC') <= DispatchSize
            BY <1>4, <1>12, <2>2, QueueTypes, ServerAssumption DEF ReceiverDispatches
      <2>. QED BY <1>2, <1>4, <1>12, <2>2, <2>3 DEF ReceiverDispatches, ServerTypeOK
<1>13. CASE ReceiverEnds(c) \/ ReceiverRejects(c)
      <2>1. IsFiniteSet(Served) /\ c \in Served
            BY <1>13, FS_Subset, ServerAssumption DEF ReceiverEnds, ReceiverRejects, Served
      <2>2. clientCount - 1 \in Nat
            BY <2>1, FS_CardinalityType, FS_EmptySet DEF Counted
      <2>. QED BY <1>2, <1>4, <1>13, <2>2 DEF ReceiverEnds, ReceiverRejects, ServerTypeOK
<1>. QED BY <1>5, <1>6, <1>7, <1>8, <1>9, <1>10, <1>11, <1>12, <1>13 DEF Handler, Sender, Receiver

\* A unary call's steps keep the types.
LEMMA CallType ==
    ASSUME TypeOK, NEW k \in Callers, CallArrives(k) \/ CallDispatches(k)
    PROVE  TypeOK'
<1>1. BusTypeOK' /\ AppTypeOK' /\ ServerTypeOK' /\ ClientTypeOK'
      BY CallFrame, TypeFrame
<1>2. CASE CallArrives(k)
      BY <1>1, <1>2 DEF CallArrives, TypeOK
<1>3. CASE CallDispatches(k)
      <2>1. Command("work", k) \in Commands
            BY DEF Command, Commands, Kinds
      <2>2. dispatchC' \in Seq(Commands) /\ Len(dispatchC') <= DispatchSize
            BY <1>3, <2>1, QueueTypes, ServerAssumption DEF CallDispatches, TypeOK
      <2>. QED BY <1>1, <1>3, <2>2 DEF CallDispatches, TypeOK
<1>. QED BY <1>2, <1>3

\* A step of the main loop or before it may send an event and take a command.
LEMMA SendType ==
    ASSUME TypeOK
    PROVE  /\ \A evt \in Events : Send(evt) => BusTypeOK'
           /\ \A evt \in Events : \A c : SendTo(c, evt) => BusTypeOK'
           /\ dispatchC # << >> =>
                Tail(dispatchC) \in Seq(Commands) /\ Len(Tail(dispatchC)) <= DispatchSize
<1>1. BusTypeOK
      BY DEF TypeOK
<1>2. ASSUME NEW evt \in Events, Send(evt)
      PROVE  BusTypeOK'
      BY <1>1, <1>2, DeliveredType DEF Send
<1>3. ASSUME NEW evt \in Events, NEW c, SendTo(c, evt)
      PROVE  BusTypeOK'
      BY <1>1, <1>3, DeliveredType DEF SendTo
<1>4. ASSUME dispatchC # << >>
      PROVE  Tail(dispatchC) \in Seq(Commands) /\ Len(Tail(dispatchC)) <= DispatchSize
      BY <1>4, QueueTypes, ServerAssumption DEF TypeOK
<1>. QED BY <1>2, <1>3, <1>4

\* The steps before the main loop keep the types.
LEMMA StartupType ==
    ASSUME TypeOK, Startup
    PROVE  TypeOK'
<1>1. UNCHANGED <<interrupted, mediaServer, exitReported,
                  clientCount, handler, sender, receiver, clientVars, call>>
      BY StartupFrame
<1>2. SUFFICES /\ BusTypeOK'
               /\ AppTypeOK'
               /\ clientC' \in BOOLEAN
               /\ dispatchC' \in Seq(Commands) /\ Len(dispatchC') <= DispatchSize
      <2>1. ClientTypeOK'
            BY <1>1, TypeFrame
      <2>2. ServerTypeOK'
            BY <1>1, <1>2 DEF TypeOK, ServerTypeOK
      <2>. QED BY <1>1, <1>2, <2>1, <2>2 DEF TypeOK
<1>3. UNCHANGED <<clientC, dispatchC>> =>
        /\ clientC' \in BOOLEAN
        /\ dispatchC' \in Seq(Commands) /\ Len(dispatchC') <= DispatchSize
      BY DEF TypeOK, ServerTypeOK
<1>4. AppTypeOK
      BY DEF TypeOK
<1>5. UNCHANGED busVars \/ (\E evt \in Events : Send(evt)) => BusTypeOK'
      BY TypeFrame, SendType
<1>. USE <1>1 DEF AppTypeOK, AppGoes, AppReturns, Events
<1>6. CASE AppMeetsClient
      BY <1>4, <1>5, <1>6 DEF AppMeetsClient, TypeOK, ServerTypeOK
<1>7. CASE AppConnects
      BY <1>3, <1>4, <1>5, <1>7 DEF AppConnects
<1>8. CASE AppFails
      BY <1>3, <1>4, <1>5, <1>8 DEF AppFails
<1>9. CASE AppCountsOnError
      BY <1>3, <1>4, <1>5, <1>9 DEF AppCountsOnError
<1>10. CASE AppIsAcknowledged
      BY <1>4, <1>5, <1>10, SendType DEF AppIsAcknowledged, TypeOK, ServerTypeOK
<1>11. CASE AppChecks
      BY <1>3, <1>4, <1>5, <1>11 DEF AppChecks
<1>12. CASE AppCounts
      BY <1>3, <1>4, <1>5, <1>12 DEF AppCounts
<1>. QED BY <1>6, <1>7, <1>8, <1>9, <1>10, <1>11, <1>12 DEF Startup

\* The main loop's steps keep the types.
LEMMA LoopType ==
    ASSUME TypeOK, Loop
    PROVE  TypeOK'
<1>1. UNCHANGED <<interrupted, serverVars, clientVars>>
      BY LoopFrame
<1>2. SUFFICES /\ BusTypeOK'
               /\ AppTypeOK'
               /\ dispatchC' \in Seq(Commands) /\ Len(dispatchC') <= DispatchSize
               /\ call' \in [Callers -> {"idle", "sending", "waiting", "answered"}]
      <2>1. ClientTypeOK' /\ ServerTypeOK'
            BY <1>1, TypeFrame
      <2>. QED BY <1>2, <2>1 DEF TypeOK
<1>3. UNCHANGED appVars => AppTypeOK'
      BY TypeFrame
<1>4. AppTypeOK
      BY DEF TypeOK
<1>5. UNCHANGED busVars \/ (\E evt \in Events : Send(evt)) => BusTypeOK'
      BY TypeFrame, SendType
<1>6. UNCHANGED dispatchC \/ (dispatchC # << >> /\ dispatchC' = Tail(dispatchC)) =>
        dispatchC' \in Seq(Commands) /\ Len(dispatchC') <= DispatchSize
      BY SendType DEF TypeOK
<1>7. UNCHANGED call => call' \in [Callers -> {"idle", "sending", "waiting", "answered"}]
      BY DEF TypeOK
<1>8. {"fatal", "news"} \subseteq Events
      BY DEF Events
<1>. USE <1>1
<1>9. CASE LoopStartsMediaServer
      BY <1>4, <1>5, <1>6, <1>7, <1>8, <1>9 DEF LoopStartsMediaServer, AppTypeOK
<1>10. CASE LoopTicks
      BY <1>3, <1>5, <1>6, <1>7, <1>8, <1>10 DEF LoopTicks
<1>11. CASE \E cmd \in Commands : LoopWorks(cmd)
      <2>1. PICK cmd \in Commands : LoopWorks(cmd)
            BY <1>11
      <2>2. call' \in [Callers -> {"idle", "sending", "waiting", "answered"}]
            BY <2>1 DEF LoopWorks, Answers, TypeOK
      <2>3. BusTypeOK'
            BY <1>8, <2>1, SendType DEF LoopWorks
      <2>. QED BY <1>3, <1>6, <2>1, <2>2, <2>3 DEF LoopWorks, LoopTakes
<1>12. CASE \E cmd \in Commands : LoopClosesOthers(cmd)
      BY <1>4, <1>5, <1>6, <1>7, <1>12 DEF LoopClosesOthers, MediaServerIsRemoved, LoopTakes,
         AppGoes, AppReturns, AppTypeOK
<1>13. CASE LoopSendsStart
      BY <1>4, <1>5, <1>6, <1>7, <1>13 DEF LoopSendsStart, AppGoes, AppTypeOK
<1>14. CASE \E cmd \in Commands : LoopIsKilled(cmd)
      BY <1>4, <1>5, <1>6, <1>7, <1>14 DEF LoopIsKilled, LoopTakes, AppReturns, AppTypeOK
<1>15. CASE LoopLosesMediaServer
      BY <1>4, <1>5, <1>6, <1>7, <1>8, <1>15 DEF LoopLosesMediaServer, AppGoes, AppTypeOK
<1>16. CASE LoopLosesListener \/ LoopIsInterrupted
      BY <1>4, <1>5, <1>6, <1>7, <1>16
      DEF LoopLosesListener, LoopIsInterrupted, AppReturns, AppTypeOK
<1>. QED BY <1>9, <1>10, <1>11, <1>12, <1>13, <1>14, <1>15, <1>16 DEF Loop, LoopHandles
-----------------------------------------------------------------------------
(***************************************************************************)
(* Counting                                                                *)
(***************************************************************************)

\* A step that neither counts nor uncounts a client.
LEMMA CountFrame ==
    ASSUME Counted, Served' = Served, clientCount' = clientCount
    PROVE  Counted'
    BY DEF Counted

\* The number of clients served is zero only if none is.
LEMMA NobodyServed ==
    ASSUME Counted, clientCount = 0
    PROVE  \A c \in Clients : receiver[c] \notin {"receiving", "dispatching"}
<1>1. IsFiniteSet(Served)
      BY FS_Subset, ServerAssumption DEF Served
<1>2. Served = {}
      BY <1>1, FS_EmptySet DEF Counted
<1>. QED BY <1>2 DEF Served

\* A session's steps keep the rest of the invariant.
LEMMA SessionInv ==
    ASSUME IndInv, NEW c \in Clients, Handler(c) \/ Sender(c) \/ Receiver(c) \/ ReceiverRejects(c)
    PROVE  Holding' /\ Fresh' /\ Counted'
<1>1. /\ handler \in [Clients -> {"none", "shaken", "announced", "serving"}]
      /\ receiver \in [Clients -> {"none", "launched", "receiving", "dispatching", "ended"}]
      /\ toServer \in [Clients -> Seq(Commands)]
      BY DEF IndInv, TypeOK, ServerTypeOK, ClientTypeOK
<1>2. IsFiniteSet(Served) /\ clientCount \in Nat
      BY FS_Subset, ServerAssumption DEF Served, IndInv, TypeOK, ServerTypeOK
<1>3. Holding /\ Fresh /\ Counted
      BY DEF IndInv
<1>. USE DEF Holding, Fresh
<1>4. CASE HandlerShakes(c) \/ HandlerAnnounces(c)
      <2>1. Holding' /\ Fresh' /\ UNCHANGED <<receiver, clientCount>>
            BY <1>1, <1>3, <1>4 DEF HandlerShakes, HandlerAnnounces
      <2>. QED BY <1>3, <2>1, CountFrame DEF Served
<1>5. CASE HandlerServes(c)
      <2>1. Holding' /\ Fresh'
            BY <1>1, <1>3, <1>5 DEF HandlerServes
      <2>2. receiver[c] = "none" /\ receiver' = [receiver EXCEPT ![c] = "launched"]
            BY <1>3, <1>5 DEF HandlerServes
      <2>3. Served' = Served
            BY <1>1, <2>2 DEF Served
      <2>. QED BY <1>3, <1>5, <2>1, <2>3, CountFrame DEF HandlerServes
<1>6. CASE SenderSends(c) \/ SenderEnds(c)
      <2>1. Holding' /\ Fresh' /\ UNCHANGED <<receiver, clientCount>>
            BY <1>3, <1>6 DEF SenderSends, SenderEnds, serverVars
      <2>. QED BY <1>3, <2>1, CountFrame DEF Served
<1>7. CASE ReceiverCounts(c)
      <2>1. Holding' /\ Fresh'
            BY <1>1, <1>3, <1>7 DEF ReceiverCounts
      <2>2. Served' = Served \union {c} /\ c \notin Served
            BY <1>1, <1>7 DEF ReceiverCounts, Served
      <2>3. Cardinality(Served') = Cardinality(Served) + 1
            BY <1>2, <2>2, FS_AddElement
      <2>. QED BY <1>3, <1>7, <2>1, <2>3 DEF ReceiverCounts, Counted
<1>8. CASE ReceiverReceives(c) \/ ReceiverDispatches(c)
      <2>1. Holding' /\ Fresh'
            BY <1>1, <1>3, <1>8 DEF ReceiverReceives, ReceiverDispatches
      <2>2. Served' = Served
            BY <1>1, <1>8 DEF ReceiverReceives, ReceiverDispatches, Served
      <2>. QED BY <1>3, <1>8, <2>1, <2>2, CountFrame DEF ReceiverReceives, ReceiverDispatches
<1>9. CASE ReceiverEnds(c) \/ ReceiverRejects(c)
      <2>1. Holding' /\ Fresh'
            BY <1>1, <1>3, <1>9 DEF ReceiverEnds, ReceiverRejects
      <2>2. Served' = Served \ {c} /\ c \in Served
            BY <1>1, <1>9 DEF ReceiverEnds, ReceiverRejects, Served
      <2>3. Cardinality(Served') = Cardinality(Served) - 1
            BY <1>2, <2>2, FS_RemoveElement
      <2>. QED BY <1>3, <1>9, <2>1, <2>3 DEF ReceiverEnds, ReceiverRejects, Counted
<1>. QED BY <1>4, <1>5, <1>6, <1>7, <1>8, <1>9 DEF Handler, Sender, Receiver

\* A client takes back nothing that it has sent.
LEMMA ClientHolding ==
    ASSUME TypeOK, Holding, NEW c \in Clients, Client(c)
    PROVE  Holding'
<1>1. toServer \in [Clients -> Seq(Commands)] /\ UNCHANGED receiver
      BY ClientFrame DEF TypeOK, ClientTypeOK, serverVars
<1>2. ASSUME NEW kind, ClientSends(c, kind)
      PROVE  Holding'
      BY <1>1, <1>2 DEF ClientSends, Holding
<1>3. UNCHANGED toServer => Holding'
      BY <1>1 DEF Holding
<1>4. UNCHANGED toServer \/ \E kind : ClientSends(c, kind)
      BY DEF Client, ClientConnects, ClientOpens, ClientRegistersUI, ClientReceives, ClientAnswers,
             ClientWorks, ClientQuits
<1>. QED BY <1>2, <1>3, <1>4
-----------------------------------------------------------------------------
(***************************************************************************)
(* Returning once                                                          *)
(***************************************************************************)

\* Run's steps before its main loop.
LEMMA StartupInv ==
    ASSUME IndInv, Startup
    PROVE  Running'
<1>1. app # "returned" /\ (app' = "returned" \/ UNCHANGED exit)
      BY DEF Startup, AppMeetsClient, AppConnects, AppFails, AppCountsOnError, AppIsAcknowledged,
             AppChecks, AppCounts, AppGoes, AppReturns
<1>. QED BY <1>1 DEF IndInv, Running

\* The main loop's steps.
LEMMA LoopInv ==
    ASSUME IndInv, Loop
    PROVE  Running'
<1>. USE DEF IndInv, Running, AppGoes, AppReturns
<1>1. CASE LoopStartsMediaServer
      BY <1>1 DEF LoopStartsMediaServer
<1>2. CASE LoopTicks \/ \E cmd \in Commands : LoopWorks(cmd)
      BY <1>2 DEF LoopTicks, LoopWorks, appVars
<1>3. CASE \E cmd \in Commands : LoopClosesOthers(cmd)
      BY <1>3 DEF LoopClosesOthers, LoopTakes
<1>4. CASE LoopSendsStart
      BY <1>4 DEF LoopSendsStart
<1>5. CASE \E cmd \in Commands : LoopIsKilled(cmd)
      BY <1>5 DEF LoopIsKilled
<1>6. CASE LoopLosesMediaServer
      BY <1>6 DEF LoopLosesMediaServer
<1>7. CASE LoopLosesListener \/ LoopIsInterrupted
      BY <1>7 DEF LoopLosesListener, LoopIsInterrupted
<1>. QED BY <1>1, <1>2, <1>3, <1>4, <1>5, <1>6, <1>7 DEF Loop, LoopHandles
-----------------------------------------------------------------------------
(***************************************************************************)
(* The theorems                                                            *)
(***************************************************************************)

\* Init: nobody is served, nothing is started.
LEMMA InitInv == Init => IndInv
<1>. SUFFICES ASSUME Init
              PROVE  IndInv
     OBVIOUS
<1>1. << >> \in Seq(Events) /\ << >> \in Seq(Commands) /\ Len(<< >>) = 0
      OBVIOUS
<1>2. BusTypeOK
      BY <1>1, EventBusAssumption DEF Init, BusInit, BusTypeOK
<1>3. AppTypeOK /\ ServerTypeOK
      BY DEF Init, AppTypeOK, ServerTypeOK
<1>4. ClientTypeOK
      BY <1>1 DEF Init, ClientTypeOK
<1>5. TypeOK
      BY <1>1, <1>2, <1>3, <1>4, ServerAssumption DEF Init, TypeOK
<1>6. Served = {}
      BY DEF Init, Served
<1>7. Counted
      BY <1>6, FS_EmptySet DEF Init, Counted
<1>. QED BY <1>5, <1>7 DEF Init, IndInv, Holding, Fresh, Running

\* Every step keeps the invariant.
LEMMA NextInv == IndInv /\ [Next]_vars => IndInv'
<1>. SUFFICES ASSUME IndInv, [Next]_vars
              PROVE  IndInv'
     OBVIOUS
<1>1. TypeOK /\ Holding /\ Fresh /\ Counted
      BY DEF IndInv
<1>2. UNCHANGED <<appVars, serverVars>> =>
        Fresh' /\ Counted' /\ Running'
      BY DEF IndInv, appVars, serverVars, Fresh, Counted, Served, Running
<1>3. UNCHANGED appVars => Running'
      BY DEF IndInv, appVars, Running
<1>4. UNCHANGED <<receiver, handler, clientCount, toServer>> => Holding' /\ Fresh' /\ Counted'
      BY <1>1 DEF Holding, Fresh, Counted, Served
<1>5. ASSUME NEW c \in Clients, Client(c)
      PROVE  IndInv'
      BY <1>1, <1>2, <1>5, ClientFrame, ClientType, ClientHolding DEF IndInv
<1>6. ASSUME NEW c \in Clients, Handler(c) \/ Sender(c) \/ Receiver(c) \/ ReceiverRejects(c)
      PROVE  IndInv'
      BY <1>1, <1>3, <1>6, SessionFrame, SessionType, SessionInv DEF IndInv
<1>7. ASSUME NEW k \in Callers, CallArrives(k) \/ CallDispatches(k)
      PROVE  IndInv'
      BY <1>1, <1>3, <1>4, <1>7, CallFrame, CallType DEF IndInv, serverVars, clientVars
<1>8. CASE Startup
      BY <1>1, <1>4, <1>8, StartupFrame, StartupType, StartupInv DEF IndInv, clientVars
<1>9. CASE Loop
      BY <1>1, <1>4, <1>9, LoopFrame, LoopType, LoopInv DEF IndInv, serverVars, clientVars
<1>10. CASE Interrupt \/ MediaServerExits
      <2>1. /\ UNCHANGED <<serverVars, clientVars, busVars, dispatchC, call>>
            /\ UNCHANGED <<app, exit, startMediaServerC>>
            BY <1>10 DEF Interrupt, MediaServerExits
      <2>2. AppTypeOK'
            BY <1>1, <1>10 DEF Interrupt, MediaServerExits, TypeOK, AppTypeOK
      <2>3. TypeOK'
            BY <1>1, <2>1, <2>2, TypeFrame DEF TypeOK
      <2>4. Running'
            BY <2>1 DEF IndInv, Running
      <2>. QED BY <1>4, <2>1, <2>3, <2>4 DEF IndInv, serverVars, clientVars
<1>11. CASE UNCHANGED vars
      <2>1. TypeOK'
            BY <1>1, <1>11, TypeFrame DEF TypeOK, vars
      <2>. QED BY <1>2, <1>4, <1>11, <2>1 DEF IndInv, vars, serverVars, clientVars
<1>. QED BY <1>5, <1>6, <1>7, <1>8, <1>9, <1>10, <1>11 DEF Next

\* The invariant holds in every state.
THEOREM Inductive == Spec => []IndInv
    BY InitInv, NextInv, PTL DEF Spec

\* Every variable keeps its type; clientCount never falls below zero.
THEOREM TypeCorrect == Spec => []TypeOK
<1>1. IndInv => TypeOK
      BY DEF IndInv
<1>. QED BY <1>1, Inductive, PTL

\* clientCount is the number of the sessions being served, in every state.
THEOREM ClientsAreCounted == Spec => []Counted
<1>1. IndInv => Counted
      BY DEF IndInv
<1>. QED BY <1>1, Inductive, PTL

\* Run does not return on another instance or on a fatal error over the head of
\* a client that it serves.
THEOREM UserIsAskedFirst == Spec => AsksBeforeLeaving
<1>1. ASSUME IndInv, Next, app \notin {"acknowledging", "returned"},
             exit' \in {"other instance", "fatal"}
      PROVE  clientCount = 0
      <2>1. exit = "none"
            BY <1>1 DEF IndInv, Running
      <2>2. ~UNCHANGED exit
            BY <1>1, <2>1
      <2>3. CASE Startup
            BY <1>1, <2>2, <2>3 DEF Startup, AppMeetsClient, AppConnects, AppFails, AppCountsOnError,
               AppIsAcknowledged, AppChecks, AppCounts, AppGoes, AppReturns
      <2>4. CASE Loop
            BY <1>1, <2>2, <2>4 DEF Loop, LoopHandles, LoopStartsMediaServer, LoopTicks, LoopWorks,
               LoopClosesOthers, LoopSendsStart, LoopIsKilled, LoopLosesMediaServer,
               LoopLosesListener, LoopIsInterrupted, AppGoes, AppReturns, appVars
      <2>5. CASE Interrupt \/ MediaServerExits
            BY <2>2, <2>5 DEF Interrupt, MediaServerExits
      <2>6. ASSUME NEW c \in Clients, Client(c) \/ Handler(c) \/ Sender(c) \/ Receiver(c) \/ ReceiverRejects(c)
            PROVE  FALSE
            BY <2>2, <2>6, ClientFrame, SessionFrame DEF appVars
      <2>7. ASSUME NEW k \in Callers, CallArrives(k) \/ CallDispatches(k)
            PROVE  FALSE
            BY <2>2, <2>7, CallFrame DEF appVars
      <2>. QED BY <1>1, <2>3, <2>4, <2>5, <2>6, <2>7 DEF Next
<1>2. IndInv /\ [Next]_vars =>
        [app \notin {"acknowledging", "returned"} /\ exit' \in {"other instance", "fatal"} =>
            \A c \in Clients : receiver[c] \notin {"receiving", "dispatching"}]_vars
      BY <1>1, NobodyServed DEF IndInv
<1>. QED BY <1>2, Inductive, PTL DEF Spec, AsksBeforeLeaving

\* No step after which a main loop that waits for itself goes on: Run does not
\* return, and no unary call is answered any more.
StaysWedged ==
    Wedged => /\ Wedged' /\ exit' = exit
              /\ \A k \in Callers : call'[k] = "answered" => call[k] = "answered"

\* A main loop that has sent on the channel only it reads, and that was full,
\* waits for good: the exception of CallsAreAnswered, GoneClientIsForgotten and
\* InterruptIsHeldByUserOnly is a deadlock, not a delay.
THEOREM WedgedForGood == Spec => [][StaysWedged]_vars
<1>1. ASSUME TypeOK, Next, Wedged
      PROVE  StaysWedged
      <2>1. app = "starting" /\ startMediaServerC
            BY <1>1 DEF Wedged
      <2>2. CASE Startup
            BY <2>1, <2>2 DEF Startup, AppMeetsClient, AppConnects, AppFails, AppCountsOnError,
               AppIsAcknowledged, AppChecks, AppCounts
      <2>3. CASE Loop
            BY <2>1, <2>3 DEF Loop, LoopHandles, LoopStartsMediaServer, LoopTicks, LoopWorks,
               LoopClosesOthers, LoopSendsStart, LoopIsKilled, LoopLosesMediaServer,
               LoopLosesListener, LoopIsInterrupted, LoopTakes
      <2>4. CASE Interrupt \/ MediaServerExits
            BY <2>1, <2>4 DEF Interrupt, MediaServerExits, StaysWedged, Wedged
      <2>5. ASSUME NEW c \in Clients, Client(c) \/ Handler(c) \/ Sender(c) \/ Receiver(c) \/ ReceiverRejects(c)
            PROVE  StaysWedged
            <3>1. UNCHANGED <<app, exit, startMediaServerC, call>>
                  BY <2>5, ClientFrame, SessionFrame DEF appVars
            <3>. QED BY <2>1, <3>1 DEF StaysWedged, Wedged
      <2>6. ASSUME NEW k \in Callers, CallArrives(k) \/ CallDispatches(k)
            PROVE  StaysWedged
            <3>1. UNCHANGED <<app, exit, startMediaServerC>>
                  BY <2>6, CallFrame DEF appVars
            <3>2. \A j \in Callers : call'[j] = "answered" => call[j] = "answered"
                  BY <1>1, <2>6 DEF CallArrives, CallDispatches, TypeOK
            <3>. QED BY <2>1, <3>1, <3>2 DEF StaysWedged, Wedged
      <2>. QED BY <1>1, <2>2, <2>3, <2>4, <2>5, <2>6 DEF Next
<1>2. TypeOK /\ [Next]_vars => [StaysWedged]_vars
      BY <1>1 DEF StaysWedged
<1>. QED BY <1>2, TypeCorrect, PTL DEF Spec
==============================================================================
