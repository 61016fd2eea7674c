---------------------------- MODULE WebClient_proofs ----------------------------
(***************************************************************************)
(* Proofs about WebClient, for any number of sockets, commands, attempts   *)
(* and messages.                                                           *)
(*                                                                         *)
(* Held is why there is one connection: the socket that lives is the one   *)
(* the communicator holds.  Drained is why commands keep their order: a    *)
(* command goes out at once only when none waits.                          *)
(***************************************************************************)
EXTENDS WebClient, SequenceTheorems, TLAPS

Numbers == 1 .. MaxCommands

-----------------------------------------------------------------------------
(***************************************************************************)
(* Types                                                                   *)
(***************************************************************************)

LEMMA InitType == Init => TypeOK
<1>1. << >> \in Seq(Numbers)
      BY EmptySeq
<1>2. ASSUME Init
      PROVE  isConnected \in BOOLEAN /\ endedNormally \in BOOLEAN /\ row \in Rows
      BY <1>2, Zenon DEF Init, NoRow, Rows
<1>3. ASSUME Init PROVE ConnectionTypeOK
      <2>1. PICK s \in Sockets :
               /\ sockets = [t \in Sockets |-> IF t = s THEN "connecting" ELSE "none"]
               /\ ws = s
            BY <1>3 DEF Init
      <2>2. sockets \in [Sockets -> {"none", "connecting", "open", "closing"}]
            BY <2>1
      <2>3. page = "open" /\ reconnectAttempts = 0 /\ timers = 0
            BY <1>3 DEF Init
      <2>4. isConnected \in BOOLEAN /\ endedNormally \in BOOLEAN
            BY <1>2, <1>3
      <2>. QED BY <2>1, <2>2, <2>3, <2>4, WebClientAssumption DEF ConnectionTypeOK
<1>4. ASSUME Init
      PROVE  /\ first \in [Sockets -> {"nothing", "handshake", "command"}]
             /\ issued \in 0 .. MaxCommands
             /\ last = "none" /\ decoding = {} /\ startState = "none" /\ dialog = "none"
             /\ log = << >> /\ commandQueue = << >>
      BY <1>4, WebClientAssumption DEF Init
<1>. QED BY <1>1, <1>2, <1>3, <1>4 DEF TypeOK, Numbers

\* What may be sent over any socket leaves the variables of sending as typed.
LEMMA SendType ==
    ASSUME TypeOK, NEW head \in {"handshake", "command"}, NEW commands \in Seq(Numbers),
           NEW readyState, SendEnvelopes(head, commands, readyState)
    PROVE  /\ first' \in [Sockets -> {"nothing", "handshake", "command"}]
           /\ log' \in Seq(Numbers)
<1>1. log \in Seq(Numbers) /\ first \in [Sockets -> {"nothing", "handshake", "command"}]
      BY DEF TypeOK, Numbers
<1>2. log \o commands \in Seq(Numbers)
      BY <1>1, ConcatProperties
<1>. QED BY <1>1, <1>2 DEF SendEnvelopes

LEMMA IssueType ==
    ASSUME TypeOK, NEW kind \in Kinds, Issue(kind)
    PROVE  /\ issued' \in 0 .. MaxCommands
           /\ last' \in Kinds
           /\ commandQueue' \in Seq(Numbers)
           /\ first' \in [Sockets -> {"nothing", "handshake", "command"}]
           /\ log' \in Seq(Numbers)
<1>1. issued + 1 \in Numbers /\ issued' = issued + 1 /\ last' = kind
      BY WebClientAssumption DEF Issue, TypeOK, Numbers
<1>2. <<issued + 1>> \in Seq(Numbers) /\ commandQueue \in Seq(Numbers)
      BY <1>1 DEF TypeOK, Numbers
<1>3. Append(commandQueue, issued + 1) \in Seq(Numbers)
      BY <1>1, <1>2, AppendProperties
<1>4. CASE isConnected
      <2>1. SendEnvelopes("command", <<issued + 1>>, sockets) /\ UNCHANGED commandQueue
            BY <1>4 DEF Issue, SendCommand
      <2>2. /\ first' \in [Sockets -> {"nothing", "handshake", "command"}]
            /\ log' \in Seq(Numbers)
            BY <1>2, <2>1, SendType
      <2>3. issued' \in 0 .. MaxCommands
            BY <1>1, WebClientAssumption DEF Numbers
      <2>. QED BY <1>1, <1>2, <2>1, <2>2, <2>3
<1>5. CASE ~isConnected
      <2>1. commandQueue' = Append(commandQueue, issued + 1) /\ UNCHANGED <<first, log>>
            BY <1>5 DEF Issue, SendCommand
      <2>. QED BY <1>1, <1>3, <2>1, WebClientAssumption DEF TypeOK, Numbers
<1>. QED BY <1>4, <1>5

LEMMA ConnectionType ==
    ASSUME TypeOK, Connection
    PROVE  TypeOK'
<1>. USE DEF TypeOK, ConnectionTypeOK, PageUnchanged, dashboardVars, sendVars, Numbers
<1>1. ASSUME NEW s \in Sockets, SocketOpens(s)
      PROVE  TypeOK'
      <2>1. SendEnvelopes("handshake", commandQueue, sockets') /\ commandQueue' = << >>
            BY <1>1 DEF SocketOpens, GreetAndFlush
      <2>2. /\ first' \in [Sockets -> {"nothing", "handshake", "command"}]
            /\ log' \in Seq(Numbers)
            BY <2>1, SendType
      <2>3. commandQueue' \in Seq(Numbers)
            BY <2>1, EmptySeq
      <2>4. isConnected' \in BOOLEAN
            BY <1>1, Zenon DEF SocketOpens
      <2>5. /\ sockets' \in [Sockets -> {"none", "connecting", "open", "closing"}]
            /\ reconnectAttempts' \in 0 .. maxReconnectAttempts
            BY <1>1, WebClientAssumption DEF SocketOpens
      <2>. QED BY <1>1, <2>2, <2>3, <2>4, <2>5 DEF SocketOpens
<1>2. ASSUME NEW s \in Sockets, SocketFails(s)
      PROVE  TypeOK'
      BY <1>2 DEF SocketFails
<1>3. ASSUME NEW s \in Sockets, SocketCloses(s)
      PROVE  TypeOK'
      <2>1. isConnected' \in BOOLEAN /\ endedNormally' \in BOOLEAN
            BY <1>3 DEF SocketCloses, Closed
      <2>2. reconnectAttempts' \in 0 .. maxReconnectAttempts /\ timers' \in Nat
            BY <1>3, WebClientAssumption DEF SocketCloses, ScheduleReconnect
      <2>. QED BY <1>3, <2>1, <2>2 DEF SocketCloses, Closed
<1>4. ASSUME NEW s \in Sockets, SocketIsRefused(s)
      PROVE  TypeOK'
      <2>1. isConnected' \in BOOLEAN /\ endedNormally' \in BOOLEAN
            BY <1>4 DEF SocketIsRefused, Closed
      <2>. QED BY <1>4, <2>1, WebClientAssumption DEF SocketIsRefused, Closed
<1>5. CASE TimerFires
      BY <1>5 DEF TimerFires
<1>6. CASE Leave \/ Unload
      <2>1. isConnected' \in BOOLEAN
            BY <1>6 DEF Leave, Unload
      <2>. QED BY <1>6, <2>1, WebClientAssumption DEF Leave, Unload
<1>. QED BY <1>1, <1>2, <1>3, <1>4, <1>5, <1>6 DEF Connection

LEMMA DashboardType ==
    ASSUME TypeOK, User \/ \E evt \in Events : MessageArrives(evt) \/ HandleEvent(evt)
    PROVE  TypeOK'
<1>. USE DEF TypeOK, ConnectionTypeOK, connectionVars, dashboardVars, sendVars
<1>1. ASSUME NEW evt \in Events, MessageArrives(evt)
      PROVE  TypeOK'
      BY <1>1 DEF MessageArrives
<1>2. ASSUME NEW evt \in Events, HandleEvent(evt)
      PROVE  TypeOK'
      <2>1. /\ startState' \in {"none", "idle", "started"}
            /\ row' \in Rows
            /\ dialog' \in Forms \union Questions \union {"none"}
            <3>1. CASE evt \in States /\ HandleState(evt) /\ UNCHANGED dialog
                  <4>1. startState' \in {"none", "idle", "started"} /\ row' = Drawn(evt)
                        BY <3>1 DEF HandleState, States
                  <4>2. row.disabled \in BOOLEAN /\ (evt.dest = "idle") \in BOOLEAN
                        BY DEF Rows
                  <4>3. Drawn(evt) \in Rows
                        BY <4>2, Zenon DEF Drawn, Rows, NoRow
                  <4>. QED BY <3>1, <4>1, <4>3
            <3>2. CASE HandleExit /\ UNCHANGED dialog
                  BY <3>2 DEF HandleExit
            <3>3. CASE HandleSaved /\ UNCHANGED <<startState, row>>
                  BY <3>3 DEF HandleSaved
            <3>. QED BY <1>2, <3>1, <3>2, <3>3 DEF HandleEvent
      <2>2. decoding' \in SUBSET Events
            BY <1>2 DEF HandleEvent
      <2>. QED BY <1>2, <2>1, <2>2 DEF HandleEvent
<1>3. CASE ClickStart \/ ClickStop
      <2>1. PICK kind \in Kinds : Issue(kind)
            BY <1>3 DEF ClickStart, ClickStop, Kinds
      <2>. QED BY <1>3, <2>1, IssueType DEF ClickStart, ClickStop, Numbers
<1>4. CASE ClickRemove \/ Cancel \/ \E form \in Forms : OpenForm(form)
      BY <1>4 DEF ClickRemove, Cancel, OpenForm, Questions
<1>5. CASE Confirm \/ Save
      <2>1. PICK kind \in Kinds : Issue(kind)
            BY <1>5 DEF Confirm, Save, Kinds
      <2>. QED BY <1>5, <2>1, IssueType DEF Confirm, Save, Numbers
<1>. QED BY <1>1, <1>2, <1>3, <1>4, <1>5 DEF User

LEMMA NextType == TypeOK /\ [Next]_vars => TypeOK'
<1>1. CASE UNCHANGED vars
      BY <1>1 DEF vars, connectionVars, sendVars, dashboardVars, TypeOK, ConnectionTypeOK
<1>. QED BY <1>1, ConnectionType, DashboardType DEF Next

\* Every variable keeps its type.
THEOREM TypeCorrect == Spec => []TypeOK
<1>. QED BY InitType, NextType, PTL DEF Spec

-----------------------------------------------------------------------------
(***************************************************************************)
(* The connection                                                          *)
(***************************************************************************)

Held ==
    \A s \in Sockets : sockets[s] \in {"connecting", "open"} => ws = s

Fresh ==
    \A s \in Sockets : sockets[s] \in {"none", "connecting"} => first[s] = "nothing"

Drained == isConnected => commandQueue = << >>

\* All that a connection may say, but for the order of its commands.
Sound == OneAttempt /\ Held /\ Fresh /\ HandshakeFirst /\ Drained

LEMMA InitSound == Init => Sound
<1>. SUFFICES ASSUME Init PROVE Sound
      OBVIOUS
<1>1. PICK s \in Sockets :
         /\ sockets = [t \in Sockets |-> IF t = s THEN "connecting" ELSE "none"]
         /\ ws = s
      BY DEF Init
<1>2. first = [t \in Sockets |-> "nothing"] /\ timers = 0 /\ commandQueue = << >>
      BY DEF Init
<1>. QED BY <1>1, <1>2 DEF Sound, OneAttempt, Held, Fresh, HandshakeFirst, Drained

\* A command over an open socket comes after its handshake.
LEMMA SendSound ==
    ASSUME TypeOK, Sound, NEW command, SendCommand(command),
           UNCHANGED <<sockets, ws, isConnected, timers>>
    PROVE  Sound'
<1>1. /\ first' = first
      /\ isConnected => commandQueue' = commandQueue
      BY DEF SendCommand, SendEnvelopes, Sound, HandshakeFirst, TypeOK, ConnectionTypeOK
<1>. QED BY <1>1 DEF Sound, OneAttempt, Held, Fresh, HandshakeFirst, Drained

LEMMA ConnectionSound ==
    ASSUME TypeOK, Sound, Connection
    PROVE  Sound'
<1>. USE DEF Sound, OneAttempt, Held, Fresh, HandshakeFirst, Drained
<1>1. /\ sockets \in [Sockets -> {"none", "connecting", "open", "closing"}]
      /\ first \in [Sockets -> {"nothing", "handshake", "command"}]
      /\ timers \in Nat
      /\ NoSocket \notin Sockets
      BY WebClientAssumption DEF TypeOK, ConnectionTypeOK
<1>2. ASSUME NEW s \in Sockets, SocketOpens(s)
      PROVE  Sound'
      <2>1. /\ sockets[s] = "connecting" /\ ws = s /\ first[s] = "nothing"
            /\ sockets' = [sockets EXCEPT ![s] = "open"]
            /\ UNCHANGED <<ws, timers>>
            BY <1>2 DEF SocketOpens
      <2>2. /\ first' = [first EXCEPT ![s] = "handshake"]
            /\ commandQueue' = << >>
            BY <1>1, <1>2, <2>1 DEF SocketOpens, GreetAndFlush, SendEnvelopes
      <2>. QED BY <1>1, <2>1, <2>2
<1>3. ASSUME NEW s \in Sockets, SocketFails(s)
      PROVE  Sound'
      BY <1>1, <1>3 DEF SocketFails, sendVars
<1>4. ASSUME NEW s \in Sockets, NEW code, Closed(s, code), ws' \in {ws, NoSocket},
             timers' \in {timers, timers + 1}
      PROVE  Sound'
      <2>1. /\ sockets[s] # "none"
            /\ sockets' = [sockets EXCEPT ![s] = "none"]
            /\ first' = [first EXCEPT ![s] = "nothing"]
            /\ ~isConnected'
            BY <1>4 DEF Closed
      <2>2. timers = 0 /\ \A t \in Sockets : sockets'[t] = "none"
            BY <1>1, <2>1
      <2>. QED BY <1>1, <1>4, <2>1, <2>2
<1>5. CASE TimerFires
      <2>1. timers = 1 /\ timers' = 0 /\ UNCHANGED <<isConnected, first, commandQueue>>
            BY <1>1, <1>5 DEF TimerFires, sendVars
      <2>2. \A t \in Sockets : sockets[t] = "none"
            BY <2>1
      <2>3. CASE UNCHANGED <<sockets, ws>>
            BY <2>1, <2>3
      <2>4. CASE \E s \in Sockets : sockets' = [sockets EXCEPT ![s] = "connecting"] /\ ws' = s
            BY <1>1, <2>1, <2>2, <2>4
      <2>. QED BY <1>5, <2>3, <2>4 DEF TimerFires
<1>6. CASE Leave
      <2>1. /\ sockets' = [s \in Sockets |->
                  IF s = ws /\ sockets[s] \in {"connecting", "open"} THEN "closing" ELSE sockets[s]]
            /\ ~isConnected'
            /\ UNCHANGED <<timers, first>>
            BY <1>6 DEF Leave, sendVars
      <2>2. \A s \in Sockets : /\ sockets'[s] \notin {"connecting", "open"}
                               /\ sockets'[s] = "none" <=> sockets[s] = "none"
            BY <1>1, <2>1
      <2>. QED BY <1>1, <2>1, <2>2
<1>7. CASE Unload
      BY <1>7 DEF Unload, sendVars
<1>8. ASSUME NEW s \in Sockets, SocketCloses(s) \/ SocketIsRefused(s)
      PROVE  Sound'
      BY <1>4, <1>8 DEF SocketCloses, SocketIsRefused, ScheduleReconnect
<1>. QED BY <1>2, <1>3, <1>5, <1>6, <1>7, <1>8 DEF Connection

\* What a step of the user and the page does to sockets and commands.
LEMMA DashboardSends ==
    ASSUME User \/ \E evt \in Events : MessageArrives(evt) \/ HandleEvent(evt)
    PROVE  /\ UNCHANGED connectionVars
           /\ \/ issued' = issued + 1 /\ issued < MaxCommands /\ SendCommand(issued + 1)
              \/ UNCHANGED <<sendVars, issued>>
BY DEF User, ClickStart, ClickStop, ClickRemove, Confirm, Save, Cancel, OpenForm, Issue,
       MessageArrives, HandleEvent, connectionVars

LEMMA NextSound == TypeOK /\ Sound /\ [Next]_vars => Sound'
<1>. SUFFICES ASSUME TypeOK, Sound, [Next]_vars PROVE Sound'
      OBVIOUS
<1>1. CASE UNCHANGED <<connectionVars, sendVars>>
      BY <1>1 DEF connectionVars, sendVars, Sound, OneAttempt, Held, Fresh, HandshakeFirst, Drained
<1>2. CASE UNCHANGED vars
      BY <1>1, <1>2 DEF vars
<1>3. CASE Connection
      BY <1>3, ConnectionSound
<1>4. CASE User \/ \E evt \in Events : MessageArrives(evt) \/ HandleEvent(evt)
      <2>1. CASE SendCommand(issued + 1)
            BY <1>4, <2>1, SendSound, DashboardSends DEF connectionVars
      <2>. QED BY <1>1, <1>4, <2>1, DashboardSends
<1>. QED BY <1>2, <1>3, <1>4 DEF Next

LEMMA SoundAlways == Spec => [](TypeOK /\ Sound)
<1>. QED BY InitType, NextType, InitSound, NextSound, PTL DEF Spec

\* No connection carries a command before its handshake, over any number of
\* failures and with any number of commands waiting.
THEOREM GreetsFirst == Spec => []HandshakeFirst
<1>1. Sound => HandshakeFirst
      BY DEF Sound
<1>. QED BY <1>1, SoundAlways, PTL

\* There is never a second connection, nor an attempt beside a connection.
THEOREM ConnectsOnce == Spec => []OneAttempt
<1>1. Sound => OneAttempt
      BY DEF Sound
<1>. QED BY <1>1, SoundAlways, PTL

-----------------------------------------------------------------------------
(***************************************************************************)
(* The order of commands                                                   *)
(***************************************************************************)

\* The commands that were sent or wait.
Commands == log \o commandQueue

Ordered(commands, bound) ==
    /\ \A i \in 1 .. Len(commands) : commands[i] <= bound
    /\ \A i, j \in 1 .. Len(commands) : i < j => commands[i] < commands[j]

LEMMA InitOrdered == Init => Ordered(Commands, issued)
<1>. SUFFICES ASSUME Init PROVE Ordered(Commands, issued)
      OBVIOUS
<1>1. Commands = << >> \o << >>
      BY DEF Init, Commands
<1>2. Len(Commands) = 0
      BY <1>1, EmptySeq, ConcatProperties
<1>. QED BY <1>2 DEF Ordered

\* A new number at the end keeps the order.
LEMMA AppendOrdered ==
    ASSUME NEW commands \in Seq(Numbers), NEW bound \in Nat, bound + 1 \in Numbers,
           Ordered(commands, bound)
    PROVE  Ordered(Append(commands, bound + 1), bound + 1)
<1>1. Numbers \subseteq Nat
      BY WebClientAssumption DEF Numbers
<1>2. /\ Len(commands) \in Nat
      /\ \A i \in 1 .. Len(commands) : commands[i] \in Nat
      BY <1>1, LenProperties, ElementOfSeq
<1>3. /\ Len(Append(commands, bound + 1)) = Len(commands) + 1
      /\ \A i \in 1 .. Len(commands) : Append(commands, bound + 1)[i] = commands[i]
      /\ Append(commands, bound + 1)[Len(commands) + 1] = bound + 1
      BY AppendProperties
<1>. QED BY <1>2, <1>3 DEF Ordered

\* A command goes to the end of those that were sent or wait, or is dropped.
LEMMA SendAppends ==
    ASSUME TypeOK, Drained, NEW command \in Numbers, SendCommand(command)
    PROVE  Commands' \in {Commands, Append(Commands, command)}
<1>1. log \in Seq(Numbers) /\ commandQueue \in Seq(Numbers) /\ <<command>> \in Seq(Numbers)
      BY DEF TypeOK, Numbers
<1>2. CASE UNCHANGED <<log, commandQueue>>
      BY <1>2 DEF Commands
<1>3. CASE isConnected /\ log' = log \o <<command>> /\ commandQueue' = commandQueue
      <2>1. commandQueue = << >>
            BY <1>3 DEF Drained
      <2>2. log \o <<command>> \in Seq(Numbers)
            BY <1>1, ConcatProperties
      <2>3. Commands' = log \o <<command>> /\ Commands = log
            BY <1>1, <1>3, <2>1, <2>2, ConcatEmptySeq DEF Commands
      <2>4. Append(log, command) = log \o <<command>>
            BY <1>1, AppendIsConcat
      <2>. QED BY <2>3, <2>4
<1>4. CASE commandQueue' = Append(commandQueue, command) /\ log' = log
      <2>1. Append(commandQueue, command) = commandQueue \o <<command>>
            BY <1>1, AppendIsConcat
      <2>2. log \o (commandQueue \o <<command>>) = (log \o commandQueue) \o <<command>>
            BY <1>1, ConcatAssociative
      <2>3. log \o commandQueue \in Seq(Numbers)
            BY <1>1, ConcatProperties
      <2>4. Append(log \o commandQueue, command) = (log \o commandQueue) \o <<command>>
            BY <2>3, AppendIsConcat
      <2>. QED BY <1>4, <2>1, <2>2, <2>4 DEF Commands
<1>. QED BY <1>2, <1>3, <1>4 DEF SendCommand, SendEnvelopes

\* What the connection does moves the queue to the socket as it is.
LEMMA ConnectionMoves ==
    ASSUME TypeOK, Sound, Connection
    PROVE  UNCHANGED <<Commands, issued>>
<1>1. ASSUME NEW s \in Sockets, SocketOpens(s)
      PROVE  UNCHANGED <<Commands, issued>>
      <2>1. ws = s /\ ws # NoSocket /\ sockets'[ws] = "open"
            BY <1>1, WebClientAssumption DEF SocketOpens, Sound, Held, TypeOK, ConnectionTypeOK
      <2>2. log' = log \o commandQueue /\ commandQueue' = << >> /\ issued' = issued
            BY <1>1, <2>1 DEF SocketOpens, GreetAndFlush, SendEnvelopes, PageUnchanged
      <2>3. log \o commandQueue \in Seq(Numbers)
            BY ConcatProperties DEF TypeOK, Numbers
      <2>. QED BY <2>2, <2>3, ConcatEmptySeq DEF Commands
<1>2. ASSUME UNCHANGED <<log, commandQueue, issued>>
      PROVE  UNCHANGED <<Commands, issued>>
      BY <1>2 DEF Commands
<1>3. ASSUME NEW s \in Sockets, SocketFails(s) \/ SocketCloses(s) \/ SocketIsRefused(s)
      PROVE  UNCHANGED <<log, commandQueue, issued>>
      BY <1>3 DEF SocketFails, SocketCloses, SocketIsRefused, Closed, PageUnchanged, sendVars
<1>4. ASSUME TimerFires \/ Leave \/ Unload
      PROVE  UNCHANGED <<log, commandQueue, issued>>
      BY <1>4 DEF TimerFires, Leave, Unload, PageUnchanged, sendVars
<1>. QED BY <1>1, <1>2, <1>3, <1>4 DEF Connection

LEMMA NextOrdered ==
    TypeOK /\ Sound /\ Ordered(Commands, issued) /\ [Next]_vars => Ordered(Commands, issued)'
<1>. SUFFICES ASSUME TypeOK, Sound, Ordered(Commands, issued), [Next]_vars
              PROVE  Ordered(Commands', issued')
      BY DEF Ordered
<1>1. CASE UNCHANGED <<Commands, issued>>
      BY <1>1
<1>2. CASE UNCHANGED vars
      BY <1>1, <1>2 DEF vars, sendVars, Commands
<1>3. CASE Connection
      BY <1>1, <1>3, ConnectionMoves
<1>4. CASE User \/ \E evt \in Events : MessageArrives(evt) \/ HandleEvent(evt)
      <2>1. CASE UNCHANGED <<sendVars, issued>>
            BY <1>1, <2>1 DEF sendVars, Commands
      <2>2. CASE issued' = issued + 1 /\ issued < MaxCommands /\ SendCommand(issued + 1)
            <3>1. issued \in Nat /\ issued + 1 \in Numbers
                  BY <2>2, WebClientAssumption DEF TypeOK, Numbers
            <3>2. Commands \in Seq(Numbers)
                  BY ConcatProperties DEF TypeOK, Numbers, Commands
            <3>3. CASE Commands' = Append(Commands, issued + 1)
                  BY <2>2, <3>1, <3>2, <3>3, AppendOrdered
            <3>4. CASE Commands' = Commands
                  <4>1. \A i \in 1 .. Len(Commands) : Commands[i] \in Numbers
                        BY <3>2, ElementOfSeq
                  <4>. QED BY <2>2, <3>1, <3>4, <4>1 DEF Ordered, Numbers
            <3>. QED BY <2>2, <3>1, <3>3, <3>4, SendAppends DEF Sound
      <2>. QED BY <1>4, <2>1, <2>2, DashboardSends
<1>. QED BY <1>2, <1>3, <1>4 DEF Next

\* Whatever fails in between, the commands go out in the order in which the
\* user gave them, and none goes out twice.
THEOREM KeepsOrder == Spec => []CommandsInOrder
<1>1. Init => Ordered(Commands, issued)
      BY InitOrdered
<1>2. TypeOK /\ Sound /\ Ordered(Commands, issued) /\ [Next]_vars => Ordered(Commands, issued)'
      BY NextOrdered
<1>3. Ordered(Commands, issued) => CommandsInOrder
      BY DEF Ordered, Commands, CommandsInOrder
<1>. QED BY <1>1, <1>2, <1>3, SoundAlways, PTL DEF Spec

\* A connection that is made takes the whole queue along.
LEMMA ConnectionFlushes ==
    ASSUME TypeOK, Sound, Connection
    PROVE  Outbox!Flush \/ UNCHANGED Outbox!vars
<1>1. ASSUME NEW s \in Sockets, SocketOpens(s)
      PROVE  Outbox!Flush \/ UNCHANGED Outbox!vars
      <2>1. ws = s /\ ws # NoSocket /\ sockets'[ws] = "open"
            BY <1>1, WebClientAssumption DEF SocketOpens, Sound, Held, TypeOK, ConnectionTypeOK
      <2>2. log' = log \o commandQueue /\ commandQueue' = << >> /\ issued' = issued
            BY <1>1, <2>1 DEF SocketOpens, GreetAndFlush, SendEnvelopes, PageUnchanged
      <2>3. commandQueue = << >> => log' = log
            BY <2>2, ConcatEmptySeq DEF TypeOK
      <2>. QED BY <2>2, <2>3 DEF Outbox!Flush, Outbox!vars
<1>2. ASSUME NEW s \in Sockets, SocketFails(s) \/ SocketCloses(s) \/ SocketIsRefused(s)
      PROVE  UNCHANGED Outbox!vars
      BY <1>2 DEF SocketFails, SocketCloses, SocketIsRefused, Closed, PageUnchanged, sendVars, Outbox!vars
<1>3. ASSUME TimerFires \/ Leave \/ Unload
      PROVE  UNCHANGED Outbox!vars
      BY <1>3 DEF TimerFires, Leave, Unload, PageUnchanged, sendVars, Outbox!vars
<1>. QED BY <1>1, <1>2, <1>3 DEF Connection

\* A command that is given goes out, waits, or meets a socket that has failed;
\* while the communicator is connected, none waits.
LEMMA SendGives ==
    ASSUME TypeOK, Sound, issued' = issued + 1, SendCommand(issued + 1)
    PROVE  Outbox!Give
<1>1. CASE isConnected
      <2>1. commandQueue = << >> /\ UNCHANGED commandQueue
            BY <1>1 DEF Sound, Drained, SendCommand
      <2>2. log' = log \o <<issued + 1>> \/ log' = log
            BY <1>1 DEF SendCommand, SendEnvelopes
      <2>3. log \o <<issued + 1>> = Append(log, issued + 1)
            BY DEF TypeOK
      <2>. QED BY <2>1, <2>2, <2>3 DEF Outbox!Give
<1>2. CASE ~isConnected
      BY <1>2 DEF SendCommand, Outbox!Give
<1>. QED BY <1>1, <1>2

\* The communicator of the page, with its sockets, timers and failures,
\* implements the outbox its callers rely on.
THEOREM RefinesOutbox == Spec => ImplementsOutbox
<1>1. Init => Outbox!Init
      BY DEF Init, Outbox!Init
<1>2. TypeOK /\ Sound /\ [Next]_vars => [Outbox!Next]_(Outbox!vars)
      <2>. SUFFICES ASSUME TypeOK, Sound, [Next]_vars
                    PROVE  Outbox!Next \/ UNCHANGED Outbox!vars
            OBVIOUS
      <2>1. CASE UNCHANGED vars
            BY <2>1 DEF vars, sendVars, Outbox!vars
      <2>2. CASE Connection
            BY <2>2, ConnectionFlushes DEF Outbox!Next
      <2>3. CASE User \/ \E evt \in Events : MessageArrives(evt) \/ HandleEvent(evt)
            <3>1. CASE UNCHANGED <<sendVars, issued>>
                  BY <3>1 DEF sendVars, Outbox!vars
            <3>2. CASE issued' = issued + 1 /\ SendCommand(issued + 1)
                  BY <3>2, SendGives DEF Outbox!Next
            <3>. QED BY <2>3, <3>1, <3>2, DashboardSends
      <2>. QED BY <2>1, <2>2, <2>3 DEF Next
<1>. QED BY <1>1, <1>2, SoundAlways, PTL DEF Spec, ImplementsOutbox, Outbox!Spec

\* What is sent is what the user was asked, whatever state arrives meanwhile.
THEOREM RemovesAsConfirmed == Spec => RemovalAsConfirmed
<1>1. TypeOK /\ [Next]_vars =>
          [issued' # issued /\ last' \in {"remove", "force"} =>
              dialog = IF last' = "force" THEN "live" ELSE "plain"]_vars
      <2>. SUFFICES ASSUME TypeOK, Next, issued' # issued, last' \in {"remove", "force"}
                    PROVE  dialog = IF last' = "force" THEN "live" ELSE "plain"
            BY DEF vars
      <2>1. ~Connection
            BY DEF Connection, SocketOpens, SocketFails, SocketCloses, SocketIsRefused, Closed,
                   TimerFires, Leave, Unload, PageUnchanged
      <2>2. \A evt \in Events : ~MessageArrives(evt) /\ ~HandleEvent(evt)
            BY DEF MessageArrives, HandleEvent
      <2>3. CASE \/ ClickStart \/ ClickStop \/ ClickRemove \/ Save \/ Cancel
                 \/ \E form \in Forms : OpenForm(form)
            BY <2>3 DEF ClickStart, ClickStop, ClickRemove, Save, Cancel, OpenForm, Issue
      <2>4. CASE Confirm
            BY <2>4 DEF Confirm, Issue, Questions
      <2>. QED BY <2>1, <2>2, <2>3, <2>4 DEF Next, User
<1>2. Spec => []TypeOK
      BY TypeCorrect
<1>. QED BY <1>1, <1>2, PTL DEF Spec, RemovalAsConfirmed
===============================================================================
