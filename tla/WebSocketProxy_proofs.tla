------------------------- MODULE WebSocketProxy_proofs -------------------------
(***************************************************************************)
(* Proofs about WebSocketProxy, for any connections and channels of any    *)
(* capacity.                                                               *)
(*                                                                         *)
(* ServedFromHandshake holds because processMessages is one goroutine:     *)
(* Stages says what it has done by the time it comes to each of its steps, *)
(* Silent that nothing is on its way to a browser that has not been        *)
(* greeted.                                                                *)
(*                                                                         *)
(* Last, a goroutine that was abandoned stays so, for which Held says who  *)
(* is served and who is registered.                                        *)
(***************************************************************************)
EXTENDS WebSocketProxy, TLAPS

Stages ==
    \A c \in Clients :
        /\ process[c] \notin {"none", "ended"} => conn[c] = "serving"
        /\ process[c] \in {"greeting", "registering", "forwarding"} => c \in shaken

Silent ==
    \A c \in Clients :
        c \notin shaken \/ process[c] = "greeting" =>
            eventC[c] = << >> /\ writer[c] \notin Outbound

IndInv == TypeOK /\ Stages /\ OnlyServedAreRegistered /\ Silent /\ GreetedFirst
-----------------------------------------------------------------------------
(***************************************************************************)
(* The bus: whatever is done to it leaves it well-typed and no channel     *)
(* over its capacity                                                       *)
(***************************************************************************)

\* An event for any of the clients leaves the bus well-typed.
LEMMA DeliveredType ==
    ASSUME BusTypeOK, NEW to, NEW evt \in Events,
           eventsC' = Delivered(to, evt), consumers' = consumers
    PROVE  BusTypeOK'
<1>. USE EventBusAssumption DEF BusTypeOK
<1>1. ASSUME NEW c \in Clients
      PROVE  /\ Append(eventsC[c], evt) \in Seq(Events)
             /\ Len(Append(eventsC[c], evt)) = Len(eventsC[c]) + 1
             /\ Len(eventsC[c]) \in Nat
      OBVIOUS
<1>2. eventsC' \in [Clients -> Seq(Events)]
      BY <1>1 DEF Delivered
<1>3. ASSUME NEW c \in Clients
      PROVE  Len(eventsC'[c]) <= BusSize
      BY <1>1 DEF Delivered
<1>. QED BY <1>2, <1>3

\* So do Register and Deregister, which empty one channel.
LEMMA EmptiedType ==
    ASSUME BusTypeOK, NEW c \in Clients, eventsC' = [eventsC EXCEPT ![c] = << >>],
           consumers' \in SUBSET Clients
    PROVE  BusTypeOK'
<1>1. << >> \in Seq(Events) /\ Len(<< >>) = 0
      OBVIOUS
<1>. QED BY <1>1, EventBusAssumption DEF BusTypeOK

\* And Receive, which hands out an event.
LEMMA ReceiveType ==
    ASSUME BusTypeOK, NEW c \in Clients, Receive(c)
    PROVE  BusTypeOK' /\ Head(eventsC[c]) \in Events
<1>. USE EventBusAssumption DEF BusTypeOK, Receive
<1>1. /\ Head(eventsC[c]) \in Events
      /\ Tail(eventsC[c]) \in Seq(Events)
      /\ Len(eventsC[c]) \in Nat
      /\ Len(Tail(eventsC[c])) = Len(eventsC[c]) - 1
      OBVIOUS
<1>. QED BY <1>1

-----------------------------------------------------------------------------
(***************************************************************************)
(* Types                                                                   *)
(***************************************************************************)

\* The two ends of a bounded channel.
LEMMA ChannelTypes ==
    ASSUME NEW S, NEW s \in Seq(S)
    PROVE  /\ s # << >> => Head(s) \in S /\ Tail(s) \in Seq(S) /\ Len(Tail(s)) = Len(s) - 1
           /\ Len(s) \in Nat
           /\ \A e \in S : Append(s, e) \in Seq(S) /\ Len(Append(s, e)) = Len(s) + 1
    OBVIOUS

\* What is put into eventC finds room.
LEMMA WriteType ==
    ASSUME TypeOK, NEW c \in Clients, NEW message \in Outbound, ProcessWrites(c, message)
    PROVE  /\ eventC' \in [Clients -> Seq(Outbound)]
           /\ \A d \in Clients : Len(eventC'[d]) <= ChanSize
<1>1. /\ eventC[c] \in Seq(Outbound)
      /\ Len(eventC[c]) < ChanSize
      /\ eventC' = [eventC EXCEPT ![c] = Append(@, message)]
      BY DEF ProcessWrites, TypeOK
<1>2. /\ Append(eventC[c], message) \in Seq(Outbound)
      /\ Len(Append(eventC[c], message)) <= ChanSize
      BY <1>1, ChannelTypes, WebSocketProxyAssumption
<1>. QED BY <1>1, <1>2 DEF TypeOK

\* What is taken from commandC is a message.
LEMMA TakeType ==
    ASSUME TypeOK, NEW c \in Clients, NEW message, Takes(c, message)
    PROVE  /\ commandC' \in [Clients -> Seq(Inbound)]
           /\ \A d \in Clients : Len(commandC'[d]) <= ChanSize
<1>1. /\ commandC[c] \in Seq(Inbound)
      /\ commandC[c] # << >>
      /\ Len(commandC[c]) <= ChanSize
      /\ commandC' = [commandC EXCEPT ![c] = Tail(@)]
      BY DEF Takes, TypeOK
<1>2. /\ Tail(commandC[c]) \in Seq(Inbound)
      /\ Len(Tail(commandC[c])) <= ChanSize
      BY <1>1, ChannelTypes, WebSocketProxyAssumption
<1>. QED BY <1>1, <1>2 DEF TypeOK

\* The browser, Handler and the reader keep the types.
LEMMA OutsideType ==
    ASSUME TypeOK, NEW c \in Clients, Browser(c) \/ Handler(c) \/ Reader(c)
    PROVE  TypeOK'
<1>. USE DEF TypeOK, BusTypeOK, processVars, readVars, writeVars, busVars
<1>1. CASE Browser(c)
      BY <1>1 DEF Browser, BrowserConnects, BrowserLeaves
<1>2. CASE Handler(c)
      BY <1>2 DEF Handler, HandlerAccepts, HandlerRefuses, HandlerLeavesOpen, HandlerCloses
<1>3. CASE Reader(c)
      <2>. USE DEF ReaderUnchanged
      <2>1. CASE \E message \in Inbound : ReaderReads(c, message)
            BY <2>1 DEF ReaderReads
      <2>2. CASE ReaderPasses(c)
            <3>1. /\ commandC[c] \in Seq(Inbound)
                  /\ Len(commandC[c]) < ChanSize
                  /\ reader[c] \in Inbound
                  /\ commandC' = [commandC EXCEPT ![c] = Append(@, reader[c])]
                  BY <2>2 DEF ReaderPasses
            <3>2. /\ Append(commandC[c], reader[c]) \in Seq(Inbound)
                  /\ Len(Append(commandC[c], reader[c])) <= ChanSize
                  BY <3>1, ChannelTypes, WebSocketProxyAssumption
            <3>3. /\ commandC' \in [Clients -> Seq(Inbound)]
                  /\ \A d \in Clients : Len(commandC'[d]) <= ChanSize
                  BY <3>1, <3>2
            <3>. QED BY <2>2, <3>3 DEF ReaderPasses
      <2>3. CASE ReaderEnds(c)
            BY <2>3 DEF ReaderEnds
      <2>. QED BY <1>3, <2>1, <2>2, <2>3 DEF Reader
<1>. QED BY <1>1, <1>2, <1>3

\* The return of processMessages keeps the bus well-typed.
LEMMA ReturnType ==
    ASSUME TypeOK, NEW c \in Clients, ProcessReturns(c)
    PROVE  /\ BusTypeOK'
           /\ process' = [process EXCEPT ![c] = "ended"]
           /\ UNCHANGED <<shaken, dispatchC, writeVars>>
<1>1. BusTypeOK
      BY DEF TypeOK
<1>2. CASE Deregister(c)
      BY <1>1, <1>2, EmptiedType DEF Deregister, BusTypeOK, ProcessReturns, ProcessGoes
<1>3. CASE UNCHANGED busVars
      BY <1>1, <1>3 DEF BusTypeOK, busVars, ProcessReturns, ProcessGoes
<1>. QED BY <1>2, <1>3 DEF ProcessReturns

\* processMessages keeps the types.
LEMMA ProcessType ==
    ASSUME TypeOK, NEW c \in Clients, Process(c)
    PROVE  TypeOK'
<1>1. BusTypeOK
      BY DEF TypeOK
<1>2. UNCHANGED busVars => BusTypeOK'
      BY <1>1 DEF BusTypeOK, busVars
<1>. USE DEF TypeOK, ProcessUnchanged, ProcessGoes, writeVars
<1>3. CASE ProcessTakesHandshake(c)
      <2>1. CASE ProcessReturns(c)
            BY <1>3, <2>1, ReturnType, TakeType DEF ProcessTakesHandshake, Takes
      <2>2. CASE ~ProcessReturns(c)
            BY <1>2, <1>3, <2>2, TakeType DEF ProcessTakesHandshake, Takes
      <2>. QED BY <2>1, <2>2
<1>4. CASE ProcessTakesCommand(c)
      BY <1>2, <1>4, TakeType DEF ProcessTakesCommand, Takes
<1>5. CASE ProcessIgnores(c)
      BY <1>2, <1>5, TakeType DEF ProcessIgnores, Takes, processVars
<1>6. CASE ProcessMeetsEnd(c) \/ ProcessTimesOut(c)
      BY <1>6, ReturnType DEF ProcessMeetsEnd, ProcessTimesOut
<1>7. CASE ProcessTakesEvent(c)
      <2>1. BusTypeOK'
            BY <1>1, <1>7, ReceiveType DEF ProcessTakesEvent
      <2>. QED BY <1>7, <2>1 DEF ProcessTakesEvent
<1>8. CASE ProcessGreets(c)
      <2>1. ProcessWrites(c, "greeting") /\ process' = [process EXCEPT ![c] = "registering"]
            BY <1>8 DEF ProcessGreets
      <2>. QED BY <1>2, <2>1, WriteType DEF ProcessWrites, Outbound
<1>9. CASE ProcessRegisters(c)
      <2>1. BusTypeOK'
            BY <1>1, <1>9, EmptiedType DEF ProcessRegisters, Register, BusTypeOK
      <2>. QED BY <1>9, <2>1 DEF ProcessRegisters
<1>10. CASE ProcessDispatches(c)
      BY <1>2, <1>10, WebSocketProxyAssumption DEF ProcessDispatches
<1>11. CASE ProcessForwards(c)
      <2>1. ProcessWrites(c, "event") /\ process' = [process EXCEPT ![c] = "selecting"]
            BY <1>11 DEF ProcessForwards
      <2>. QED BY <1>2, <2>1, WriteType DEF ProcessWrites, Outbound
<1>. QED BY <1>3, <1>4, <1>5, <1>6, <1>7, <1>8, <1>9, <1>10, <1>11 DEF Process, ProcessTakes

\* The writer and the main loop keep the types.
LEMMA OtherEndType ==
    ASSUME TypeOK, App \/ \E c \in Clients : Writer(c)
    PROVE  TypeOK'
<1>1. CASE \E c \in Clients : Writer(c)
      <2>1. PICK c \in Clients : Writer(c)
            BY <1>1
      <2>. USE DEF TypeOK, BusTypeOK, WriterUnchanged, processVars, readVars, busVars
      <2>2. CASE WriterTakes(c)
            <3>1. /\ eventC[c] \in Seq(Outbound) /\ eventC[c] # << >> /\ Len(eventC[c]) <= ChanSize
                  /\ eventC' = [eventC EXCEPT ![c] = Tail(@)]
                  BY <2>2 DEF WriterTakes
            <3>2. /\ Head(eventC[c]) \in Outbound
                  /\ Tail(eventC[c]) \in Seq(Outbound) /\ Len(Tail(eventC[c])) <= ChanSize
                  BY <3>1, ChannelTypes, WebSocketProxyAssumption
            <3>3. /\ eventC' \in [Clients -> Seq(Outbound)]
                  /\ \A d \in Clients : Len(eventC'[d]) <= ChanSize
                  BY <3>1, <3>2
            <3>. QED BY <2>2, <3>2, <3>3 DEF WriterTakes
      <2>3. CASE WriterWrites(c) \/ WriterEnds(c)
            BY <2>3 DEF WriterWrites, WriterEnds
      <2>. QED BY <2>1, <2>2, <2>3 DEF Writer
<1>2. CASE App
      <2>1. BusTypeOK
            BY DEF TypeOK
      <2>2. Send("news") \/ (\E c \in Clients : SendTo(c, "news")) \/ UNCHANGED busVars
            BY <1>2 DEF App, AppTakes, ApiDispatches, AppTicks
      <2>3. BusTypeOK'
            <3>1. CASE Send("news")
                  BY <2>1, <3>1, DeliveredType DEF Send, Events
            <3>2. CASE \E c \in Clients : SendTo(c, "news")
                  BY <2>1, <3>2, DeliveredType DEF SendTo, Events
            <3>3. CASE UNCHANGED busVars
                  BY <2>1, <3>3 DEF BusTypeOK, busVars
            <3>. QED BY <2>2, <3>1, <3>2, <3>3
      <2>4. dispatchC' \in 0 .. DispatchSize
            BY <1>2, WebSocketProxyAssumption DEF App, AppTakes, ApiDispatches, AppTicks, TypeOK
      <2>. QED BY <1>2, <2>3, <2>4
               DEF App, AppTakes, ApiDispatches, AppTicks, AppUnchanged, TypeOK, readVars, writeVars
<1>. QED BY <1>1, <1>2

\* The types hold at first.
LEMMA InitType ==
    ASSUME Init
    PROVE  TypeOK
<1>1. << >> \in Seq(Events) /\ << >> \in Seq(Inbound) /\ << >> \in Seq(Outbound) /\ Len(<< >>) = 0
      OBVIOUS
<1>. QED BY <1>1, EventBusAssumption, WebSocketProxyAssumption DEF Init, BusInit, TypeOK, BusTypeOK

\* So does every step of the system keep them.
LEMMA NextType ==
    ASSUME TypeOK, Next
    PROVE  TypeOK'
    BY OutsideType, ProcessType, OtherEndType DEF Next

\* The types hold throughout: no channel is ever over its capacity, whatever
\* order the goroutines run in.
THEOREM TypeCorrect == Spec => []TypeOK
<1>1. Init => TypeOK
      BY InitType
<1>2. TypeOK /\ [Next]_vars => TypeOK'
      <2>1. CASE Next
            BY <2>1, NextType
      <2>2. CASE UNCHANGED vars
            BY <2>2 DEF vars, readVars, processVars, writeVars, busVars, TypeOK, BusTypeOK
      <2>. QED BY <2>1, <2>2
<1>. QED BY <1>1, <1>2, PTL DEF Spec
-----------------------------------------------------------------------------
(***************************************************************************)
(* Who is registered, and what is greeted                                  *)
(***************************************************************************)

\* What is put into eventC comes last, and disturbs nothing before it.
LEMMA WritesLast ==
    ASSUME TypeOK, NEW c \in Clients, NEW message \in Outbound, ProcessWrites(c, message)
    PROVE  /\ \A d \in Clients : d # c => eventC'[d] = eventC[d]
           /\ Len(eventC'[c]) = Len(eventC[c]) + 1
           /\ eventC'[c][Len(eventC[c]) + 1] = message
           /\ \A i \in 1 .. Len(eventC[c]) : eventC'[c][i] = eventC[c][i]
<1>1. eventC[c] \in Seq(Outbound)
      BY DEF TypeOK
<1>2. eventC' = [eventC EXCEPT ![c] = Append(eventC[c], message)]
      BY DEF ProcessWrites
<1>3. eventC \in [Clients -> Seq(Outbound)]
      BY DEF TypeOK
<1>. QED BY <1>1, <1>2, <1>3

\* A step that leaves processMessages and the bus alone may only serve a
\* connection that is not served yet or close one that has nothing left to do.
LEMMA OutsideKeeps ==
    ASSUME IndInv, NEW c \in Clients, Browser(c) \/ Handler(c) \/ Reader(c)
    PROVE  Stages' /\ OnlyServedAreRegistered' /\ Silent' /\ GreetedFirst'
<1>. USE DEF IndInv, TypeOK, BusTypeOK, processVars, readVars, writeVars, busVars,
             Stages, OnlyServedAreRegistered, Silent, GreetedFirst
<1>1. CASE Browser(c)
      BY <1>1 DEF Browser, BrowserConnects, BrowserLeaves
<1>2. CASE Handler(c)
      <2>1. CASE HandlerAccepts(c)
            BY <2>1 DEF HandlerAccepts, Outbound
      <2>2. CASE HandlerRefuses(c)
            BY <2>2 DEF HandlerRefuses
      <2>3. CASE HandlerLeavesOpen(c)
            BY <2>3 DEF HandlerLeavesOpen
      <2>4. CASE HandlerCloses(c)
            BY <2>4 DEF HandlerCloses
      <2>. QED BY <1>2, <2>1, <2>2, <2>3, <2>4 DEF Handler
<1>3. CASE Reader(c)
      BY <1>3 DEF Reader, ReaderReads, ReaderPasses, ReaderEnds, ReaderUnchanged
<1>. QED BY <1>1, <1>2, <1>3

\* processMessages returns deregistered, and leaves what is still to be written.
LEMMA ReturnKeeps ==
    ASSUME IndInv, NEW c \in Clients, process[c] = "selecting", ProcessReturns(c),
           UNCHANGED conn
    PROVE  Stages' /\ OnlyServedAreRegistered' /\ Silent' /\ GreetedFirst'
<1>1. /\ process' = [process EXCEPT ![c] = "ended"]
      /\ UNCHANGED <<shaken, writer, eventC>>
      /\ c \notin consumers' /\ consumers' \subseteq consumers
      BY DEF ProcessReturns, ProcessGoes, Deregister, busVars, writeVars
<1>. QED BY <1>1 DEF IndInv, TypeOK, BusTypeOK, Stages, OnlyServedAreRegistered, Silent, GreetedFirst

\* The greeting comes first, into an empty channel.
LEMMA GreetingKeeps ==
    ASSUME IndInv, NEW c \in Clients, ProcessGreets(c)
    PROVE  Stages' /\ OnlyServedAreRegistered' /\ Silent' /\ GreetedFirst'
<1>1. /\ ProcessWrites(c, "greeting") /\ process[c] = "greeting"
      /\ process' = [process EXCEPT ![c] = "registering"]
      /\ UNCHANGED <<conn, writer, shaken, consumers>>
      BY DEF ProcessGreets, ProcessGoes, ProcessWrites, ProcessUnchanged, busVars
<1>2. eventC[c] = << >> /\ writer[c] \notin Outbound /\ c \in shaken /\ conn[c] = "serving"
      BY <1>1 DEF IndInv, Silent, Stages
<1>3. /\ \A d \in Clients : d # c => eventC'[d] = eventC[d]
      /\ Len(eventC'[c]) = 1
      <2>1. TypeOK /\ "greeting" \in Outbound
            BY DEF Outbound, IndInv
      <2>2. /\ \A d \in Clients : d # c => eventC'[d] = eventC[d]
            /\ Len(eventC'[c]) = Len(eventC[c]) + 1
            BY <1>1, <2>1, WritesLast
      <2>3. Len(eventC[c]) = 0
            BY <1>2
      <2>. QED BY <2>2, <2>3
<1>4. \A d \in Clients : process'[d] = IF d = c THEN "registering" ELSE process[d]
      BY <1>1 DEF IndInv, TypeOK
<1>5. Stages' /\ OnlyServedAreRegistered'
      <2>1. Stages'
            BY <1>1, <1>2, <1>4 DEF IndInv, Stages
      <2>2. OnlyServedAreRegistered'
            BY <1>1, <1>4 DEF IndInv, OnlyServedAreRegistered, TypeOK, BusTypeOK
      <2>. QED BY <2>1, <2>2
<1>6. Silent'
      BY <1>1, <1>2, <1>3, <1>4 DEF IndInv, Silent
<1>7. ASSUME NEW d \in Clients, NEW i \in 1 .. Len(eventC'[d]), eventC'[d][i] = "greeting"
      PROVE  i = 1 /\ writer'[d] \notin Outbound
      <2>1. CASE d = c
            BY <1>1, <1>2, <1>3, <1>7, <2>1
      <2>2. CASE d # c
            BY <1>1, <1>3, <1>7, <2>2 DEF IndInv, GreetedFirst
      <2>. QED BY <2>1, <2>2
<1>. QED BY <1>5, <1>6, <1>7 DEF GreetedFirst

\* An event comes after whatever is on its way.
LEMMA ForwardingKeeps ==
    ASSUME IndInv, NEW c \in Clients, ProcessForwards(c)
    PROVE  Stages' /\ OnlyServedAreRegistered' /\ Silent' /\ GreetedFirst'
<1>1. /\ ProcessWrites(c, "event") /\ process[c] = "forwarding"
      /\ process' = [process EXCEPT ![c] = "selecting"]
      /\ UNCHANGED <<conn, writer, shaken, consumers>>
      BY DEF ProcessForwards, ProcessGoes, ProcessWrites, ProcessUnchanged, busVars
<1>2. c \in shaken /\ conn[c] = "serving"
      BY <1>1 DEF IndInv, Stages
<1>3. /\ \A d \in Clients : d # c => eventC'[d] = eventC[d]
      /\ Len(eventC'[c]) = Len(eventC[c]) + 1
      /\ eventC'[c][Len(eventC[c]) + 1] = "event"
      /\ \A i \in 1 .. Len(eventC[c]) : eventC'[c][i] = eventC[c][i]
      BY <1>1, WritesLast DEF Outbound, IndInv
<1>4. \A d \in Clients : process'[d] = IF d = c THEN "selecting" ELSE process[d]
      BY <1>1 DEF IndInv, TypeOK
<1>5. Stages' /\ OnlyServedAreRegistered'
      <2>1. Stages'
            BY <1>1, <1>2, <1>4 DEF IndInv, Stages
      <2>2. OnlyServedAreRegistered'
            BY <1>1, <1>4 DEF IndInv, OnlyServedAreRegistered, TypeOK, BusTypeOK
      <2>. QED BY <2>1, <2>2
<1>6. Silent'
      BY <1>1, <1>2, <1>3, <1>4 DEF IndInv, Silent
<1>7. ASSUME NEW d \in Clients, NEW i \in 1 .. Len(eventC'[d]), eventC'[d][i] = "greeting"
      PROVE  i = 1 /\ writer'[d] \notin Outbound
      <2>1. CASE d = c
            <3>1. Len(eventC[c]) \in Nat
                  BY ChannelTypes DEF IndInv, TypeOK
            <3>2. i \in 1 .. Len(eventC[c]) /\ eventC[c][i] = "greeting"
                  BY <1>3, <1>7, <2>1, <3>1
            <3>. QED BY <1>1, <2>1, <3>2 DEF IndInv, GreetedFirst
      <2>2. CASE d # c
            BY <1>1, <1>3, <1>7, <2>2 DEF IndInv, GreetedFirst
      <2>. QED BY <2>1, <2>2
<1>. QED BY <1>5, <1>6, <1>7 DEF GreetedFirst

\* The steps of processMessages.
LEMMA ProcessKeeps ==
    ASSUME IndInv, NEW c \in Clients, Process(c)
    PROVE  Stages' /\ OnlyServedAreRegistered' /\ Silent' /\ GreetedFirst'
<1>1. UNCHANGED conn
      BY DEF Process, ProcessTakes, ProcessTakesHandshake, ProcessTakesCommand, ProcessIgnores,
             ProcessMeetsEnd, ProcessTimesOut, ProcessTakesEvent, ProcessGreets, ProcessRegisters,
             ProcessDispatches, ProcessForwards, ProcessWrites, Takes, ProcessUnchanged
<1>2. CASE process[c] = "selecting" /\ ProcessReturns(c)
      BY <1>1, <1>2, ReturnKeeps
<1>3. CASE ProcessMeetsEnd(c) \/ ProcessTimesOut(c)
      BY <1>2, <1>3 DEF ProcessMeetsEnd, ProcessTimesOut
<1>. USE <1>1 DEF IndInv, TypeOK, BusTypeOK, ProcessGoes, ProcessUnchanged, Takes,
                  Stages, OnlyServedAreRegistered, Silent, GreetedFirst
<1>4. CASE ProcessTakesHandshake(c) /\ ~ProcessReturns(c)
      BY <1>4 DEF ProcessTakesHandshake, busVars, writeVars
<1>5. CASE ProcessTakesHandshake(c) /\ ProcessReturns(c)
      BY <1>2, <1>5 DEF ProcessTakesHandshake
<1>6. CASE ProcessTakesCommand(c)
      BY <1>6 DEF ProcessTakesCommand, busVars, writeVars
<1>7. CASE ProcessIgnores(c)
      BY <1>7 DEF ProcessIgnores, processVars, busVars, writeVars
<1>8. CASE ProcessTakesEvent(c)
      BY <1>8 DEF ProcessTakesEvent, Receive, writeVars
<1>9. CASE ProcessRegisters(c)
      BY <1>9 DEF ProcessRegisters, Register, writeVars
<1>10. CASE ProcessDispatches(c)
      BY <1>10 DEF ProcessDispatches, busVars, writeVars
<1>11. CASE ProcessGreets(c)
      BY <1>11, GreetingKeeps
<1>12. CASE ProcessForwards(c)
      BY <1>12, ForwardingKeeps
<1>. QED BY <1>3, <1>4, <1>5, <1>6, <1>7, <1>8, <1>9, <1>10, <1>11, <1>12 DEF Process, ProcessTakes

\* The writer takes what is oldest, and then what it took was first.
LEMMA WriterKeeps ==
    ASSUME IndInv, NEW c \in Clients, Writer(c)
    PROVE  Stages' /\ OnlyServedAreRegistered' /\ Silent' /\ GreetedFirst'
<1>1. UNCHANGED <<conn, process, shaken, consumers>>
      BY DEF Writer, WriterTakes, WriterWrites, WriterEnds, WriterUnchanged, processVars, busVars
<1>2. Stages' /\ OnlyServedAreRegistered'
      BY <1>1 DEF IndInv, Stages, OnlyServedAreRegistered
<1>3. CASE WriterTakes(c)
      <2>1. /\ eventC[c] \in Seq(Outbound) /\ eventC[c] # << >>
            /\ \A d \in Clients : d # c => eventC'[d] = eventC[d] /\ writer'[d] = writer[d]
            /\ eventC'[c] = Tail(eventC[c])
            BY <1>3 DEF WriterTakes, IndInv, TypeOK
      <2>2. Silent'
            BY <1>1, <2>1 DEF IndInv, Silent
      <2>3. ASSUME NEW i \in 1 .. Len(eventC'[c])
            PROVE  eventC'[c][i] # "greeting"
            <3>1. /\ i + 1 \in 1 .. Len(eventC[c]) /\ i + 1 # 1
                  /\ eventC'[c][i] = eventC[c][i + 1]
                  BY <2>1
            <3>. QED BY <3>1 DEF IndInv, GreetedFirst
      <2>. QED BY <1>2, <2>1, <2>2, <2>3 DEF IndInv, GreetedFirst
<1>4. CASE WriterWrites(c) \/ WriterEnds(c)
      <2>1. /\ UNCHANGED eventC
            /\ \A d \in Clients : writer'[d] = writer[d] \/ writer'[d] \notin Outbound
            BY <1>4 DEF WriterWrites, WriterEnds, IndInv, TypeOK, Outbound
      <2>. QED BY <1>1, <1>2, <2>1 DEF IndInv, Silent, GreetedFirst
<1>. QED BY <1>3, <1>4 DEF Writer

\* IndInv is inductive.
LEMMA Induction ==
    /\ Init => IndInv
    /\ IndInv /\ [Next]_vars => IndInv'
<1>1. ASSUME Init
      PROVE  IndInv
      <2>1. TypeOK
            BY <1>1, InitType
      <2>. QED BY <1>1, <2>1 DEF Init, BusInit, IndInv, Stages, OnlyServedAreRegistered, Silent,
                                GreetedFirst, Outbound
<1>2. ASSUME IndInv, [Next]_vars
      PROVE  Stages' /\ OnlyServedAreRegistered' /\ Silent' /\ GreetedFirst'
      <2>1. CASE \E c \in Clients : Browser(c) \/ Handler(c) \/ Reader(c)
            BY <1>2, <2>1, OutsideKeeps
      <2>2. CASE \E c \in Clients : Process(c)
            BY <1>2, <2>2, ProcessKeeps
      <2>3. CASE \E c \in Clients : Writer(c)
            BY <1>2, <2>3, WriterKeeps
      <2>4. CASE App \/ UNCHANGED vars
            <3>1. UNCHANGED <<conn, process, shaken, consumers, writer, eventC>>
                  BY <2>4 DEF App, AppTakes, ApiDispatches, AppTicks, AppUnchanged, Send, SendTo,
                              vars, processVars, writeVars, busVars
            <3>. QED BY <1>2, <3>1
                     DEF IndInv, Stages, OnlyServedAreRegistered, Silent, GreetedFirst
      <2>. QED BY <1>2, <2>1, <2>2, <2>3, <2>4 DEF Next
<1>3. TypeOK /\ [Next]_vars => TypeOK'
      <2>1. CASE UNCHANGED vars
            BY <2>1 DEF vars, readVars, processVars, writeVars, busVars, TypeOK, BusTypeOK
      <2>. QED BY <2>1, NextType
<1>4. IndInv /\ [Next]_vars => IndInv'
      BY <1>2, <1>3 DEF IndInv
<1>. QED BY <1>1, <1>4

\* The bus never holds a browser that is refused, has not shaken hands, or
\* whose processMessages has returned, by whichever of its four returns; and
\* no event overtakes HandshakeCompleted, which never comes twice.
THEOREM ServedAsGreeted == Spec => []ServedFromHandshake
<1>1. IndInv => ServedFromHandshake
      BY DEF IndInv, ServedFromHandshake
<1>. QED BY <1>1, Induction, PTL DEF Spec

-----------------------------------------------------------------------------
(***************************************************************************)
(* Goroutines that are abandoned                                           *)
(***************************************************************************)

\* A connection is served while its reader has not ended, and who holds an
\* event to forward is registered.
Held ==
    \A c \in Clients :
        /\ reader[c] \notin {"none", "ended"} => conn[c] = "serving"
        /\ process[c] = "forwarding" => c \in consumers

LEMMA HeldInduction ==
    /\ Init => Held
    /\ TypeOK /\ Held /\ [Next]_vars => Held'
<1>1. Init => Held
      BY DEF Init, Held
<1>2. ASSUME TypeOK, Held, [Next]_vars
      PROVE  Held'
      <2>. USE DEF TypeOK, readVars, processVars, writeVars
      <2>1. ASSUME NEW c \in Clients, Browser(c) \/ Handler(c) \/ Reader(c)
            PROVE  Held'
            BY <1>2, <2>1 DEF Held, Browser, BrowserConnects, BrowserLeaves, Handler, HandlerAccepts,
               HandlerRefuses, HandlerLeavesOpen, HandlerCloses, Reader, ReaderReads, ReaderPasses,
               ReaderEnds, ReaderUnchanged, busVars, Inbound
      <2>2. ASSUME NEW c \in Clients, Process(c)
            PROVE  Held'
            <3>1. UNCHANGED <<conn, reader>> /\ \A d \in Clients : d # c => process'[d] = process[d]
                  BY <1>2, <2>2 DEF Process, ProcessTakes, ProcessTakesHandshake, ProcessTakesCommand,
                     ProcessIgnores, ProcessMeetsEnd, ProcessTimesOut, ProcessTakesEvent, ProcessGreets,
                     ProcessRegisters, ProcessDispatches, ProcessForwards, ProcessReturns, ProcessGoes,
                     ProcessUnchanged, Takes, ProcessWrites
            <3>2. \A d \in consumers : d # c => d \in consumers'
                  BY <1>2, <2>2 DEF Process, ProcessTakes, ProcessTakesHandshake, ProcessTakesCommand,
                     ProcessIgnores, ProcessMeetsEnd, ProcessTimesOut, ProcessTakesEvent, ProcessGreets,
                     ProcessRegisters, ProcessDispatches, ProcessForwards, ProcessReturns,
                     ProcessWrites, busVars, Register, Deregister, Receive
            <3>3. process'[c] = "forwarding" => c \in consumers'
                  BY <1>2, <2>2 DEF Held, Process, ProcessTakes, ProcessTakesHandshake, ProcessTakesCommand,
                     ProcessIgnores, ProcessMeetsEnd, ProcessTimesOut, ProcessTakesEvent, ProcessGreets,
                     ProcessRegisters, ProcessDispatches, ProcessForwards, ProcessReturns, ProcessGoes,
                     ProcessUnchanged, Takes, Receive
            <3>. QED BY <1>2, <3>1, <3>2, <3>3 DEF Held
      <2>3. ASSUME NEW c \in Clients, Writer(c)
            PROVE  Held'
            BY <1>2, <2>3 DEF Held, Writer, WriterTakes, WriterWrites, WriterEnds, WriterUnchanged, busVars
      <2>4. CASE App \/ UNCHANGED vars
            BY <1>2, <2>4 DEF Held, App, AppTakes, ApiDispatches, AppTicks, AppUnchanged, Send, SendTo,
               vars, busVars
      <2>. QED BY <1>2, <2>1, <2>2, <2>3, <2>4 DEF Next
<1>. QED BY <1>1, <1>2

\* What no step does: end the wait of an abandoned goroutine, let Handler return
\* or take its client off the bus.
StaysAbandoned ==
    \A c \in Clients : Abandoned(c) =>
        /\ Abandoned(c)' /\ conn'[c] = "serving"
        /\ process[c] = "forwarding" => c \in consumers'

\* A goroutine that the one it sends to has abandoned waits for good, and with
\* it Handler, whose connection is never closed; if it holds an event, the bus
\* keeps its client: the exception of GoneBrowserIsForgotten is a leak.
THEOREM AbandonedForGood == Spec => [][StaysAbandoned]_vars
<1>1. ASSUME IndInv, Held, Held', Next, NEW c \in Clients, Abandoned(c)
      PROVE  /\ Abandoned(c)' /\ conn'[c] = "serving"
             /\ process[c] = "forwarding" => c \in consumers'
      <2>. USE DEF TypeOK, readVars, processVars, writeVars
      <2>. TypeOK
            BY <1>1 DEF IndInv
      <2>1. CASE process[c] = "forwarding" /\ writer[c] = "ended" /\ Len(eventC[c]) = ChanSize
            <3>1. conn[c] = "serving"
                  BY <1>1, <2>1 DEF IndInv, Stages, Held, Inbound
            <3>. DEFINE Stays == /\ process'[c] = "forwarding" /\ writer'[c] = "ended" /\ eventC'[c] = eventC[c]
                            /\ conn'[c] = "serving"
            <3>2. ASSUME NEW d \in Clients, Browser(d) \/ Handler(d) \/ Reader(d)
                  PROVE  Stays
                  BY <1>1, <2>1, <3>1, <3>2 DEF Browser, BrowserConnects, BrowserLeaves, Handler, HandlerAccepts,
                           HandlerRefuses, HandlerLeavesOpen, HandlerCloses, Reader, ReaderReads,
                           ReaderPasses, ReaderEnds, ReaderUnchanged, Inbound
            <3>3. ASSUME NEW d \in Clients, Process(d)
                  PROVE  Stays
                  BY <1>1, <2>1, <3>1, <3>3 DEF Process, ProcessTakes, ProcessTakesHandshake, ProcessTakesCommand,
                           ProcessIgnores, ProcessMeetsEnd, ProcessTimesOut, ProcessTakesEvent,
                           ProcessGreets, ProcessRegisters, ProcessDispatches, ProcessForwards,
                           ProcessReturns, ProcessGoes, ProcessUnchanged, Takes, ProcessWrites
            <3>4. ASSUME NEW d \in Clients, Writer(d)
                  PROVE  Stays
                  BY <1>1, <2>1, <3>1, <3>4 DEF Writer, WriterTakes, WriterWrites, WriterEnds,
                           WriterUnchanged, Outbound
            <3>5. ASSUME App
                  PROVE  Stays
                  BY <1>1, <2>1, <3>1, <3>5 DEF App, AppTakes, ApiDispatches, AppTicks, AppUnchanged
            <3>6. Stays
                  BY <1>1, <3>2, <3>3, <3>4, <3>5 DEF Next
            <3>. QED BY <1>1, <2>1, <3>6 DEF Abandoned, Held
      <2>2. CASE reader[c] \in Inbound /\ process[c] = "ended" /\ Len(commandC[c]) = ChanSize
            <3>1. conn[c] = "serving"
                  BY <1>1, <2>2 DEF IndInv, Stages, Held, Inbound
            <3>. DEFINE Stays == /\ reader'[c] = reader[c] /\ process'[c] = "ended" /\ commandC'[c] = commandC[c]
                            /\ conn'[c] = "serving"
            <3>2. ASSUME NEW d \in Clients, Browser(d) \/ Handler(d) \/ Reader(d)
                  PROVE  Stays
                  BY <1>1, <2>2, <3>1, <3>2 DEF Browser, BrowserConnects, BrowserLeaves, Handler, HandlerAccepts,
                           HandlerRefuses, HandlerLeavesOpen, HandlerCloses, Reader, ReaderReads,
                           ReaderPasses, ReaderEnds, ReaderUnchanged, Inbound
            <3>3. ASSUME NEW d \in Clients, Process(d)
                  PROVE  Stays
                  BY <1>1, <2>2, <3>1, <3>3 DEF Process, ProcessTakes, ProcessTakesHandshake, ProcessTakesCommand,
                           ProcessIgnores, ProcessMeetsEnd, ProcessTimesOut, ProcessTakesEvent,
                           ProcessGreets, ProcessRegisters, ProcessDispatches, ProcessForwards,
                           ProcessReturns, ProcessGoes, ProcessUnchanged, Takes, ProcessWrites
            <3>4. ASSUME NEW d \in Clients, Writer(d)
                  PROVE  Stays
                  BY <1>1, <2>2, <3>1, <3>4 DEF Writer, WriterTakes, WriterWrites, WriterEnds,
                           WriterUnchanged, Outbound
            <3>5. ASSUME App
                  PROVE  Stays
                  BY <1>1, <2>2, <3>1, <3>5 DEF App, AppTakes, ApiDispatches, AppTicks, AppUnchanged
            <3>6. Stays
                  BY <1>1, <3>2, <3>3, <3>4, <3>5 DEF Next
            <3>. QED BY <1>1, <2>2, <3>6 DEF Abandoned, Held
      <2>. QED BY <1>1, <2>1, <2>2 DEF Abandoned
<1>2. IndInv /\ Held /\ Held' /\ [Next]_vars => [StaysAbandoned]_vars
      BY <1>1 DEF StaysAbandoned
<1>3. IndInv => TypeOK
      BY DEF IndInv
<1>. QED BY <1>2, <1>3, Induction, HeldInduction, PTL DEF Spec
===============================================================================
