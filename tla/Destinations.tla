----------------------------- MODULE Destinations -----------------------------
(***************************************************************************)
(* The app loop's handling of destinations (internal/server/serverapp.go): *)
(* the commands that reach handleCommand, the store behind them and the    *)
(* AppState that clients are shown.                                        *)
(*                                                                         *)
(* The replicator is seen from here as the set of streams it was asked to  *)
(* run: a call takes effect when it is made, and reports about a stream    *)
(* come at any time after it was first started.  Module Replicator opens   *)
(* that box.                                                               *)
(***************************************************************************)
EXTENDS FileStore

\* What an ID option or field of a command parses to (uuid.Parse, FromBytes):
\* both take the nil UUID, which is NoID, for an ID.
CONSTANT Named

ASSUME NamedAssumption == Named \subseteq IDs \union {NoID}

VARIABLES
    up,         \* the server process runs
    source,     \* AppState.Source.Live
    view,       \* AppState.Destinations
    streams,    \* URL -> who the replicator runs it for
    onAir,      \* URLs whose stream runs and was last reported live
    reply       \* the command just handled and the event it was answered with

appVars == <<up, source, view, streams, onAir, reply>>
vars == <<storeVars, appVars>>

Statuses == {"off-air", "starting", "live"}
Unused == "unused"     \* never started by this process
Ended == "ended"       \* started, and stopped or exited since

ASSUME StreamsAssumption ==
    Unused \notin IDs \union {NoID} /\ Ended \notin IDs \union {NoID}

Commands == {"none", "add", "update", "remove", "remove --force", "start", "stop"}
Results == {"ok", "live", "not found", "validation failed", "write failed",
            "source not live", "host not found"}

NoReply == [cmd |-> "none", id |-> NoID, result |-> "ok"]
Reply(cmd, id, result) == reply' = [cmd |-> cmd, id |-> id, result |-> result]

ViewRecord == [id : IDs \union {NoID}, name : Names, url : URLs, status : Statuses]

TypeOK ==
    /\ StoreTypeOK
    /\ up \in BOOLEAN
    /\ source \in BOOLEAN
    /\ view \in Seq(ViewRecord)
    /\ streams \in [URLs -> IDs \union {NoID, Unused, Ended}]
    /\ onAir \in SUBSET URLs
    /\ reply \in [cmd : Commands, id : IDs \union {NoID}, result : Results]

-----------------------------------------------------------------------------

\* slices.IndexFunc(list, ID == id) = i
FoundAt(list, id, i) ==
    /\ i \in DOMAIN list
    /\ list[i].id = id
    /\ \A j \in 1 .. (i - 1) : list[j].id # id

NotFound(list, id) == \A i \in DOMAIN list : list[i].id # id

\* isLive: the status shown for id, FALSE when it is not listed.
IsLive(id) == \E i \in DOMAIN view : FoundAt(view, id, i) /\ view[i].status = "live"

\* destinationsFromStore: Status and Container are left at their zero values.
DestinationsFromStore(list) ==
    [i \in DOMAIN list |-> [id |-> list[i].id, name |-> list[i].name,
                            url |-> list[i].url, status |-> "off-air"]]

\* uuid.New(): an ID that nothing in the system bears.
Fresh(id) ==
    /\ NotFound(mem, id) /\ NotFound(disk, id) /\ NotFound(view, id)
    /\ \A u \in URLs : streams[u] # id

Running(url) == streams[url] \notin {Unused, Ended}

\* repl.StopDestination(url), a no-op for a URL that does not run.
StoppedStreams(url) ==
    IF Running(url) THEN [streams EXCEPT ![url] = Ended] ELSE streams

\* store.Set(new), the answer to the command and, when the list was stored,
\* handlePersistentStateUpdate.
SetAndReply(new, edited, cmd, id) ==
    \/ /\ SetStores(new)
       /\ view' = DestinationsFromStore(new)
       /\ Reply(cmd, id, "ok")
       /\ UNCHANGED up
    \/ /\ SetRejects(new, edited)
       /\ Reply(cmd, id, "validation failed")
       /\ UNCHANGED <<up, view>>
    \/ /\ SetFails(new, edited)
       /\ Reply(cmd, id, "write failed")
       /\ UNCHANGED <<up, view>>

\* ... or the process dies while it writes.
DiesInSet(new) ==
    /\ SetDies(new)
    /\ up' = FALSE
    /\ view' = << >>
    /\ streams' = [u \in URLs |-> Unused]
    /\ onAir' = {}
    /\ reply' = NoReply
    /\ UNCHANGED source

Refuse(cmd, id, result) ==
    /\ Reply(cmd, id, result)
    /\ UNCHANGED <<storeVars, up, source, view, streams, onAir>>

-----------------------------------------------------------------------------
\* handleCommand, one action per command.

AddDestination(name, url) ==
    /\ up
    /\ \E id \in IDs :
        /\ Fresh(id)
        /\ LET new == Append(mem, [id |-> id, name |-> name, url |-> url]) IN
            \/ SetAndReply(new, mem, "add", id) /\ UNCHANGED <<source, streams, onAir>>
            \/ DiesInSet(new)

\* The record is edited in the store's own array, before Set validates it.  An
\* option that is absent leaves its field alone, as naming its present value does.
UpdateDestination(id, name, url) ==
    /\ up
    /\ \/ IsLive(id) /\ Refuse("update", id, "live")
       \/ ~IsLive(id) /\ NotFound(mem, id) /\ Refuse("update", id, "not found")
       \/ /\ ~IsLive(id)
          /\ \E i \in DOMAIN mem :
              /\ FoundAt(mem, id, i)
              /\ LET new == [mem EXCEPT ![i] = [id |-> id, name |-> name, url |-> url]] IN
                  \/ SetAndReply(new, new, "update", id) /\ UNCHANGED <<source, streams, onAir>>
                  \/ DiesInSet(new)

\* Mutant of MayRemove: the flag is not read.
MayRemoveAny(i, force) == force \in BOOLEAN

\* The status is looked up in the view with an index found in the store.
MayRemove(i, force) == view[i].status # "live" \/ force

\* The index found in the store is used on the view, and the stream is
\* stopped before Set is tried.
RemoveDestination(id, force) ==
    LET cmd == IF force THEN "remove --force" ELSE "remove" IN
    /\ up
    /\ \/ NotFound(mem, id) /\ Refuse(cmd, id, "not found")
       \/ \E i \in DOMAIN mem :
           /\ FoundAt(mem, id, i)
           /\ \/ ~MayRemove(i, force) /\ Refuse(cmd, id, "live")
              \/ /\ MayRemove(i, force)
                 /\ \/ /\ SetAndReply(Deleted(mem, i), Shifted(mem, i), cmd, id)
                       /\ streams' = StoppedStreams(view[i].url)
                       /\ onAir' = onAir \ {view[i].url}
                       /\ UNCHANGED source
                    \/ DiesInSet(Deleted(mem, i))

StartDestination(id) ==
    /\ up
    /\ \/ NotFound(view, id) /\ Refuse("start", id, "not found")
       \/ ~NotFound(view, id) /\ ~source /\ Refuse("start", id, "source not live")
       \/ ~NotFound(view, id) /\ source /\ Refuse("start", id, "host not found")
       \/ \E i \in DOMAIN view :
           /\ FoundAt(view, id, i)
           /\ source
           /\ streams' = IF Running(view[i].url) THEN streams
                         ELSE [streams EXCEPT ![view[i].url] = id]
           /\ Reply("start", id, "ok")
           /\ UNCHANGED <<storeVars, up, source, view, onAir>>

StopDestination(id) ==
    /\ up
    /\ \/ NotFound(view, id) /\ Refuse("stop", id, "not found")
       \/ \E i \in DOMAIN view :
           /\ FoundAt(view, id, i)
           /\ streams' = StoppedStreams(view[i].url)
           /\ onAir' = onAir \ {view[i].url}
           /\ Reply("stop", id, "ok")
           /\ UNCHANGED <<storeVars, up, source, view>>

-----------------------------------------------------------------------------
\* What reaches the app loop from its other channels.

\* applyReplicatorState.  A report may be of a stream that has ended since.
ApplyReplicatorState(url, status) ==
    /\ up
    /\ streams[url] # Unused
    /\ view' = [i \in DOMAIN view |->
                   IF view[i].url = url THEN [view[i] EXCEPT !.status = status] ELSE view[i]]
    /\ onAir' = IF Running(url) /\ status = "live"
                THEN onAir \union {url} ELSE onAir \ {url}
    /\ reply' = NoReply
    /\ UNCHANGED <<storeVars, up, source, streams>>

\* A container exits for good: its watcher calls StopDestination.
StreamExits(url) ==
    /\ up
    /\ Running(url)
    /\ streams' = StoppedStreams(url)
    /\ onAir' = onAir \ {url}
    /\ reply' = NoReply
    /\ UNCHANGED <<storeVars, up, source, view>>

\* applyServerState
ApplyServerState ==
    /\ up
    /\ source' = ~source
    /\ reply' = NoReply
    /\ UNCHANGED <<storeVars, up, view, streams, onAir>>

-----------------------------------------------------------------------------

\* The process ends between two commands (KillServer, a fatal error, a crash).
ProcessEnds ==
    /\ up
    /\ StoreCloses
    /\ up' = FALSE
    /\ source' = FALSE
    /\ view' = << >>
    /\ streams' = [u \in URLs |-> Unused]
    /\ onAir' = {}
    /\ reply' = NoReply

\* store.New and Run: containers of earlier processes are closed at startup.
ProcessStarts ==
    /\ ~up
    /\ StoreOpens
    /\ up' = TRUE
    /\ source' = FALSE
    /\ view' = DestinationsFromStore(disk)
    /\ reply' = NoReply
    /\ UNCHANGED <<streams, onAir>>

Init ==
    /\ StoreInit
    /\ up = TRUE
    /\ source = FALSE
    /\ view = << >>
    /\ streams = [u \in URLs |-> Unused]
    /\ onAir = {}
    /\ reply = NoReply

Next ==
    \/ \E name \in Names \union {NoName}, url \in URLs \union {BadURL} : AddDestination(name, url)
    \/ \E id \in Named, name \in Names \union {NoName}, url \in URLs \union {BadURL} :
        UpdateDestination(id, name, url)
    \/ \E id \in Named, force \in BOOLEAN : RemoveDestination(id, force)
    \/ \E id \in Named : StartDestination(id)
    \/ \E id \in Named : StopDestination(id)
    \/ \E url \in URLs, status \in Statuses : ApplyReplicatorState(url, status)
    \/ \E url \in URLs : StreamExits(url)
    \/ ApplyServerState
    \/ ProcessEnds
    \/ ProcessStarts

Spec == Init /\ [][Next]_vars

-----------------------------------------------------------------------------
(***************************************************************************)
(* Safety                                                                  *)
(***************************************************************************)

\* Until a write of state.json goes wrong, what clients are shown is what would
\* survive a restart, although rejected updates leave their edits in the
\* store's memory.
ViewIsPersisted ==
    up /\ faults = 0 =>
        /\ intact
        /\ Len(view) = Len(disk)
        /\ \A i \in DOMAIN view : /\ view[i].id = disk[i].id
                                  /\ view[i].name = disk[i].name
                                  /\ view[i].url = disk[i].url

\* RemoveDestination indexes the view with an index found in the store, and
\* never indexes past the end of it (it would panic), whatever ID it is given
\* and whatever failed before.
IndexIsInView == up => DOMAIN mem \subseteq DOMAIN view

\* After a failed removal the records of the store no longer line up with the
\* view, but they then hold a zeroed one, with which no list validates: what
\* was decided on the wrong record is never stored.  Only a command that names
\* the nil UUID could take the zeroed record for a destination.
AlignedOrWedged ==
    /\ IndexIsInView
    /\ up => \/ \E i \in DOMAIN mem : mem[i] = ZeroRecord
             \/ \A i \in DOMAIN mem : mem[i].id = view[i].id

\* A destination that is shown as live stays listed until it is shown
\* otherwise, is removed by force or the process ends.  RemoveDestination looks
\* its status up with an index into the store, whose records may have shifted
\* away from the view's after a removal that failed.
KeepsShownLive ==
    \A i \in DOMAIN view :
        view[i].status = "live" =>
            \/ ~up'
            \/ reply'.cmd = "remove --force" /\ reply'.id = view[i].id
            \/ \E j \in DOMAIN view' : view'[j].id = view[i].id

ShownLiveIsKept == [][KeepsShownLive]_vars

\* "Pass --force (or -f) to remove the destination even if it's live"
\* (README.md:285): without it a destination shown as live is not removed.
LiveNeedsForce ==
    reply'.cmd = "remove" =>
        \A i \in DOMAIN view :
            view[i].status = "live" => \E j \in DOMAIN view' : view'[j].id = view[i].id

LiveIsRemovedByForce == [][LiveNeedsForce]_vars

\* A command that is answered with an error does not change what clients are
\* shown; it may have changed what a restart would restore only when the error
\* is that of the write.
NoChangeOnError ==
    reply'.result # "ok" =>
        /\ UNCHANGED view
        /\ reply'.result = "write failed" \/ UNCHANGED <<disk, intact>>

ErrorsChangeNothing == [][NoChangeOnError]_vars

\* "This case shouldn't happen, there is no validation when removing a
\* destination" (serverapp.go:503): what is left after a removal validates.
RemovalNeedsNoValidation ==
    reply.cmd \in {"remove", "remove --force"} => reply.result # "validation failed"

-----------------------------------------------------------------------------
(***************************************************************************)
(* The registry this server is to its clients                              *)
(***************************************************************************)

Listed(list) == {list[i] : i \in DOMAIN list}

\* The part of the view that is configured.
Configured == {[id |-> view[i].id, name |-> view[i].name, url |-> view[i].url] : i \in DOMAIN view}

\* No removal has failed in this process: they leave zeroed records behind.
Unspoilt == ZeroRecord \notin Listed(mem)

Registry == INSTANCE DestinationRegistry WITH
    config <- Listed(disk),
    whole  <- intact,
    draft  <- IF Unspoilt THEN Listed(mem) ELSE {},
    usable <- Unspoilt,
    shown  <- Configured,
    answer <- [cmd |-> reply.cmd, id |-> reply.id, ok |-> reply.result = "ok"]

\* The app loop, which edits the store's array through a list it was lent and
\* finds what it removes with an index into another list, implements the
\* registry: a command that succeeds changes its own destination, and none but
\* that or one whose update failed before, at once in what clients see and in
\* what a restart restores; one that fails changes nothing that clients see.
ImplementsRegistry == Registry!Spec
=============================================================================
