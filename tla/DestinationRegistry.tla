------------------------ MODULE DestinationRegistry ------------------------
(***************************************************************************)
(* What the server promises about its destinations to the clients that     *)
(* configure them and to whoever starts it again: no lists, no indices, no *)
(* array shared with the store.                                            *)
(*                                                                         *)
(* A command that is answered with success changes its own destination,    *)
(* and what clients see and what a restart restores become the same set at *)
(* once; one that fails changes nothing that clients see.  The promise has *)
(* three weak points, which are the code's: what a failed update asked for *)
(* is stored along with the next command that succeeds; after a removal    *)
(* that failed no command succeeds until the server is started again; and  *)
(* what a failed command asked for may have been stored all the same.      *)
(***************************************************************************)
CONSTANTS IDs, Names, URLs, BadURL, NoID, NoName

VARIABLES
    up,         \* the server runs
    config,     \* the destinations last stored whole
    whole,      \* the file holds them: a restart would restore config
    draft,      \* what the next command starts from: config and failed updates
    usable,     \* FALSE after a removal that failed
    shown,      \* the destinations clients are shown
    answer      \* the last command, and whether it succeeded

vars == <<up, config, whole, draft, usable, shown, answer>>

Removals == {"remove", "remove --force"}
Changes == {"add", "update"} \union Removals

Destination(id) == [id : {id}, name : Names \union {NoName}, url : URLs \union {BadURL}]

\* Named, with good URLs, and no two alike.
Sound(list) ==
    /\ \A d \in list : d.name \in Names /\ d.url \in URLs
    /\ \A d, e \in list : d.url = e.url => d = e

\* The command, given for the destination id, asks for the set `new'.
Asks(cmd, id, new) ==
    LET old == {d \in draft : d.id = id} IN
    \/ /\ cmd = "add" /\ old = {} /\ \A d \in config : d.id # id
       /\ \E d \in Destination(id) : new = draft \union {d}
    \/ /\ cmd = "update" /\ old # {}
       /\ \E d \in Destination(id) : new = (draft \ old) \union {d}
    \/ cmd \in Removals /\ old # {} /\ new = draft \ old

Answered(cmd, id, ok) == answer' = [cmd |-> cmd, id |-> id, ok |-> ok]
Unasked == Answered("none", NoID, TRUE)

Init ==
    /\ up = TRUE /\ whole = TRUE /\ usable = TRUE
    /\ config = {} /\ draft = {} /\ shown = {}
    /\ answer = [cmd |-> "none", id |-> NoID, ok |-> TRUE]

Succeeds(cmd, id) ==
    /\ Answered(cmd, id, TRUE)
    /\ up /\ usable
    /\ Asks(cmd, id, config') /\ Sound(config')
    /\ draft' = config' /\ shown' = config'
    /\ whole' = TRUE
    /\ UNCHANGED <<up, usable>>

\* The file is as it was, cut short, or what the command asked for.
Fails(cmd, id) ==
    /\ Answered(cmd, id, FALSE)
    /\ up
    /\ \/ UNCHANGED <<draft, usable>>
       \/ cmd = "update" /\ Asks(cmd, id, draft') /\ UNCHANGED usable
       \/ cmd \in Removals /\ draft' = {} /\ usable' = FALSE
    /\ \/ UNCHANGED config /\ whole' \in {whole, FALSE}
       \/ usable /\ Asks(cmd, id, config') /\ Sound(config') /\ whole' = TRUE
    /\ UNCHANGED <<up, shown>>

\* All commands but changes, and all that is not a command.
Others ==
    /\ up
    /\ answer' \in [cmd : {"none", "start", "stop"}, id : IDs \union {NoID}, ok : BOOLEAN]
    /\ UNCHANGED <<up, config, whole, draft, usable, shown>>

\* Perhaps while a command is stored.
Ends ==
    /\ up /\ ~up'
    /\ \/ UNCHANGED config /\ whole' \in {whole, FALSE}
       \/ /\ usable
          /\ \E cmd \in Changes, id \in IDs : Asks(cmd, id, config')
          /\ Sound(config')
          /\ whole' = TRUE
    /\ draft' = {} /\ usable' = TRUE /\ shown' = {}
    /\ Unasked

Starts ==
    /\ ~up /\ up'
    /\ whole
    /\ draft' = config /\ shown' = config
    /\ Unasked
    /\ UNCHANGED <<config, whole, usable>>

Next ==
    \/ Others
    \/ \E cmd \in Changes, id \in IDs : Succeeds(cmd, id) \/ Fails(cmd, id)
    \/ Ends
    \/ Starts

Spec == Init /\ [][Next]_vars
=============================================================================
