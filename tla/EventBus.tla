------------------------------- MODULE EventBus -------------------------------
(***************************************************************************)
(* internal/event/bus.go: the events of the server, sent to every consumer *)
(* that is registered at that moment.  The mutex makes each call one step. *)
(***************************************************************************)
EXTENDS Naturals, Sequences

CONSTANTS
    Clients,    \* who may register; an ID is used once
    BusSize     \* capacity of a consumer's channel (64 in the code)

ASSUME EventBusAssumption == BusSize \in Nat \ {0}

VARIABLES
    consumers,  \* the clients that are registered
    eventsC     \* their channels

busVars == <<consumers, eventsC>>

\* Of an event is kept what a client or the server decides on.
Events == {"other",     \* OtherInstanceDetected
           "fatal",     \* FatalErrorOccurred
           "news"}      \* any other, on which nobody decides anything

BusTypeOK ==
    /\ consumers \in SUBSET Clients
    /\ eventsC \in [Clients -> Seq(Events)]
    /\ \A c \in Clients : Len(eventsC[c]) <= BusSize

BusInit ==
    /\ consumers = {}
    /\ eventsC = [c \in Clients |-> << >>]

Register(c) ==
    /\ consumers' = consumers \union {c}
    /\ eventsC' = [eventsC EXCEPT ![c] = << >>]

\* The channel is closed: nobody reads what is left in it.
Deregister(c) ==
    /\ consumers' = consumers \ {c}
    /\ eventsC' = [eventsC EXCEPT ![c] = << >>]

\* An event for a channel that is full is dropped.
Delivered(to, evt) ==
    [c \in Clients |->
        IF c \in to /\ Len(eventsC[c]) < BusSize THEN Append(eventsC[c], evt) ELSE eventsC[c]]

\* Mutant of Send: it waits until every channel has room.
SendBlocking(evt) ==
    /\ \A c \in consumers : Len(eventsC[c]) < BusSize
    /\ eventsC' = Delivered(consumers, evt)
    /\ UNCHANGED consumers

Send(evt) ==
    /\ eventsC' = Delivered(consumers, evt)
    /\ UNCHANGED consumers

SendTo(c, evt) ==
    /\ eventsC' = Delivered({c} \intersect consumers, evt)
    /\ UNCHANGED consumers

\* The consumer takes its next event.
Receive(c) ==
    /\ eventsC[c] # << >>
    /\ eventsC' = [eventsC EXCEPT ![c] = Tail(@)]
    /\ UNCHANGED consumers
===============================================================================
