------------------------- MODULE Destinations_proofs -------------------------
(***************************************************************************)
(* Proofs about Destinations, for any sets of IDs, names and URLs and any  *)
(* number of faults.                                                       *)
(*                                                                         *)
(* IndInv adds to the properties of the runs that the file's last whole    *)
(* content is always valid, that the store and the view always have the    *)
(* same length, up or down, and that nothing is shown while the server is  *)
(* down.  Three of its parts hold only when no command names the nil UUID  *)
(* (Tame): the file bears real IDs, a record of the store without an ID is *)
(* a zeroed one, and the store follows the view or holds such a record.    *)
(*                                                                         *)
(* The last part shows that the app loop implements DestinationRegistry,   *)
(* which has sets where the code has lists: Distinct adds that no two      *)
(* records of a list bear one ID, so that the record at an index, and the  *)
(* records with its ID, are the same.                                      *)
(***************************************************************************)
EXTENDS Destinations, TLAPS

\* No command names the nil UUID.
Tame == NoID \notin Named

ZeroWhenNoID(list) ==
    Tame => \A i \in DOMAIN list : list[i].id = NoID => list[i] = ZeroRecord

Stored(list) ==
    /\ Valid(list)
    /\ Tame => \A i \in DOMAIN list : list[i].id \in IDs

Follows(list, shown) ==
    /\ Len(list) = Len(shown)
    /\ Tame => \/ \E i \in DOMAIN list : list[i] = ZeroRecord
               \/ \A i \in DOMAIN list : list[i].id = shown[i].id

IndInv ==
    /\ TypeOK
    /\ Stored(disk)
    /\ ZeroWhenNoID(mem)
    /\ Follows(mem, view)
    /\ ViewIsPersisted
    /\ ~up => view = << >>

-----------------------------------------------------------------------------
(***************************************************************************)
(* Lists                                                                   *)
(***************************************************************************)

\* A sequence is what has Len entries in its set.
LEMMA SeqEntries ==
    ASSUME NEW S, NEW s \in Seq(S)
    PROVE  /\ Len(s) \in Nat
           /\ DOMAIN s = 1 .. Len(s)
           /\ \A i \in DOMAIN s : s[i] \in S
    OBVIOUS

\* A function on an initial segment of the naturals is a sequence.
LEMMA FunctionIsSeq ==
    ASSUME NEW S, NEW k \in Nat, NEW f \in [1 .. k -> S]
    PROVE  f \in Seq(S) /\ Len(f) = k /\ DOMAIN f = 1 .. k
    OBVIOUS

\* slices.Delete returns the other records, in order.
LEMMA DeletedType ==
    ASSUME NEW list \in Seq(Record), NEW i \in DOMAIN list
    PROVE  /\ Deleted(list, i) \in Seq(Record)
           /\ Len(Deleted(list, i)) = Len(list) - 1
           /\ \A j \in 1 .. (Len(list) - 1) :
                Deleted(list, i)[j] = IF j < i THEN list[j] ELSE list[j + 1]
  <1>1. Len(list) \in Nat /\ DOMAIN list = 1 .. Len(list) /\ Len(list) - 1 \in Nat
    OBVIOUS
  <1>2. Deleted(list, i) \in [1 .. (Len(list) - 1) -> Record]
    BY <1>1 DEF Deleted
  <1>3. QED
    BY <1>1, <1>2, FunctionIsSeq DEF Deleted

\* What slices.Delete leaves in the array: the same length, a zeroed record last.
LEMMA ShiftedType ==
    ASSUME NEW list \in Seq(Record), NEW i \in DOMAIN list
    PROVE  /\ Shifted(list, i) \in Seq(Record)
           /\ Len(Shifted(list, i)) = Len(list)
           /\ Shifted(list, i)[Len(list)] = ZeroRecord
           /\ ZeroWhenNoID(list) => ZeroWhenNoID(Shifted(list, i))
  <1>1. Len(list) \in Nat /\ DOMAIN list = 1 .. Len(list) /\ i \in 1 .. Len(list)
    OBVIOUS
  <1>2. ZeroRecord \in Record
    BY DEF ZeroRecord, Record
  <1>3. Shifted(list, i) \in [1 .. Len(list) -> Record]
    BY <1>1, <1>2 DEF Shifted
  <1>4. Shifted(list, i)[Len(list)] = ZeroRecord
    BY <1>1 DEF Shifted
  <1>5. ASSUME Tame, ZeroWhenNoID(list), NEW j \in 1 .. Len(list), Shifted(list, i)[j].id = NoID
        PROVE  Shifted(list, i)[j] = ZeroRecord
    BY <1>1, <1>5 DEF Shifted, ZeroWhenNoID
  <1>6. QED
    BY <1>1, <1>3, <1>4, <1>5, FunctionIsSeq DEF ZeroWhenNoID

\* The view made from a stored list lists its records.
LEMMA ViewOfStored ==
    ASSUME NEW list \in Seq(Record), Stored(list)
    PROVE  /\ DestinationsFromStore(list) \in Seq(ViewRecord)
           /\ Len(DestinationsFromStore(list)) = Len(list)
           /\ \A i \in DOMAIN list :
                /\ DestinationsFromStore(list)[i].id = list[i].id
                /\ DestinationsFromStore(list)[i].name = list[i].name
                /\ DestinationsFromStore(list)[i].url = list[i].url
  <1>1. Len(list) \in Nat /\ DOMAIN list = 1 .. Len(list)
    OBVIOUS
  <1>a. \A i \in DOMAIN list : list[i].id \in IDs \union {NoID}
    <2>1. \A i \in DOMAIN list : list[i] \in Record
      BY SeqEntries
    <2>2. QED
      BY <2>1 DEF Record
  <1>2. DestinationsFromStore(list) \in [1 .. Len(list) -> ViewRecord]
    BY <1>1, <1>a DEF DestinationsFromStore, Stored, Valid, ValidRecord, ViewRecord, Statuses
  <1>3. QED
    BY <1>1, <1>2, FunctionIsSeq DEF DestinationsFromStore

\* A list that validates and has no ID-less record but zeroed ones has none.
LEMMA ValidIsStored ==
    ASSUME NEW list \in Seq(Record), ZeroWhenNoID(list), Valid(list)
    PROVE  Stored(list) /\ \A i \in DOMAIN list : list[i] # ZeroRecord
  <1>1. \A i \in DOMAIN list : list[i].id \in IDs \union {NoID} /\ list[i].name \in Names
    <2>1. \A i \in DOMAIN list : list[i] \in Record
      BY SeqEntries
    <2>2. QED
      BY <2>1 DEF Valid, ValidRecord, Record
  <1>2. \A i \in DOMAIN list : list[i] # ZeroRecord
    BY <1>1, FileStoreAssumption DEF ZeroRecord
  <1>3. QED
    BY <1>1, <1>2 DEF Stored, ZeroWhenNoID

-----------------------------------------------------------------------------
(***************************************************************************)
(* The pieces of a step                                                    *)
(***************************************************************************)

\* Storing a list, rejecting it and failing to write it preserve the
\* invariant, provided the caller left its edits in the store in a list that
\* still follows the view.
LEMMA SetPreserves ==
    ASSUME IndInv, up,
           NEW new \in Seq(Record), NEW edited \in Seq(Record),
           NEW cmd \in Commands, NEW id \in IDs \union {NoID},
           ZeroWhenNoID(new), ZeroWhenNoID(edited), Follows(edited, view),
           SetAndReply(new, edited, cmd, id),
           source' \in BOOLEAN,
           streams' \in [URLs -> IDs \union {NoID, Unused, Ended}],
           onAir' \in SUBSET URLs
    PROVE  IndInv'
  <1>1. CASE SetStores(new) /\ view' = DestinationsFromStore(new)
             /\ Reply(cmd, id, "ok") /\ UNCHANGED up
    <2>1. Stored(new)
      BY <1>1, ValidIsStored DEF SetStores
    <2>2. /\ view' \in Seq(ViewRecord)
          /\ Len(view') = Len(new)
          /\ \A i \in DOMAIN new : /\ view'[i].id = new[i].id
                                   /\ view'[i].name = new[i].name
                                   /\ view'[i].url = new[i].url
      BY <1>1, <2>1, ViewOfStored
    <2>3. TypeOK'
      BY <1>1, <2>2 DEF IndInv, TypeOK, StoreTypeOK, SetStores, Reply, Results
    <2>4. ViewIsPersisted' /\ Follows(mem', view')
      BY <1>1, <2>2 DEF SetStores, ViewIsPersisted, Follows
    <2>5. QED
      BY <1>1, <2>1, <2>3, <2>4 DEF IndInv, SetStores, Follows, ZeroWhenNoID, Stored
  <1>2. CASE SetRejects(new, edited) /\ Reply(cmd, id, "validation failed") /\ UNCHANGED <<up, view>>
    <2>1. TypeOK'
      BY <1>2 DEF IndInv, TypeOK, StoreTypeOK, SetRejects, Reply, Results
    <2>2. QED
      BY <1>2, <2>1 DEF IndInv, SetRejects, ViewIsPersisted, Follows, ZeroWhenNoID, Stored
  <1>3. CASE SetFails(new, edited) /\ Reply(cmd, id, "write failed") /\ UNCHANGED <<up, view>>
    <2>a. intact' \in BOOLEAN
      BY <1>3 DEF IndInv, TypeOK, StoreTypeOK, SetFails
    <2>b. faults' \in 0 .. MaxFaults
      <3>1. faults \in 0 .. MaxFaults
        BY DEF IndInv, TypeOK, StoreTypeOK
      <3>2. faults < MaxFaults /\ faults' = faults + 1
        BY <1>3 DEF SetFails
      <3>3. QED
        BY <3>1, <3>2, FileStoreAssumption
    <2>1. TypeOK'
      BY <1>3, <2>a, <2>b DEF IndInv, TypeOK, StoreTypeOK, SetFails, Reply, Results
    <2>2. Stored(disk)'
      <3>1. Stored(new)
        BY <1>3, ValidIsStored DEF SetFails
      <3>2. disk' = disk \/ disk' = new
        BY <1>3 DEF SetFails
      <3>3. QED
        BY <3>1, <3>2 DEF IndInv, Stored
    <2>3. ViewIsPersisted'
      <3>1. faults \in 0 .. MaxFaults /\ faults' = faults + 1
        BY <1>3 DEF IndInv, TypeOK, StoreTypeOK, SetFails
      <3>2. faults' # 0
        BY <3>1, FileStoreAssumption
      <3>3. QED
        BY <3>2 DEF ViewIsPersisted
    <2>4. QED
      BY <1>3, <2>1, <2>2, <2>3 DEF IndInv, SetFails, Follows, ZeroWhenNoID
  <1>4. QED
    BY <1>1, <1>2, <1>3 DEF SetAndReply

\* Nothing is left in memory when the process dies.
LEMMA EmptyFollows ==
    ASSUME mem' = << >>, view' = << >>, ~up'
    PROVE  Follows(mem, view)' /\ ZeroWhenNoID(mem)' /\ ViewIsPersisted'
  BY DEF Follows, ZeroWhenNoID, ViewIsPersisted

\* The process may die while it writes a list that validates.
LEMMA DyingPreserves ==
    ASSUME IndInv, NEW new \in Seq(Record), ZeroWhenNoID(new), DiesInSet(new)
    PROVE  IndInv'
  <1>1. Stored(new)
    BY ValidIsStored DEF DiesInSet, SetDies
  <1>2. Stored(disk)'
    BY <1>1 DEF IndInv, DiesInSet, SetDies, Stored
  <1>3. mem' = << >> /\ view' = << >> /\ ~up'
    BY DEF DiesInSet, SetDies
  <1>a. intact' \in BOOLEAN
    BY DEF IndInv, TypeOK, StoreTypeOK, DiesInSet, SetDies
  <1>b. faults' \in 0 .. MaxFaults
    BY FileStoreAssumption DEF IndInv, TypeOK, StoreTypeOK, DiesInSet, SetDies
  <1>c. disk' \in Seq(Record) /\ mem' \in Seq(Record) /\ view' \in Seq(ViewRecord)
    <2>1. disk' = disk \/ disk' = new
      BY DEF DiesInSet, SetDies
    <2>2. disk \in Seq(Record)
      BY DEF IndInv, TypeOK, StoreTypeOK
    <2>3. QED
      BY <1>3, <2>1, <2>2
  <1>d. /\ streams' \in [URLs -> IDs \union {NoID, Unused, Ended}]
        /\ onAir' \in SUBSET URLs
        /\ reply' \in [cmd : Commands, id : IDs \union {NoID}, result : Results]
    BY DEF DiesInSet, NoReply, Commands, Results
  <1>e. up' \in BOOLEAN /\ source' \in BOOLEAN
    BY DEF IndInv, TypeOK, DiesInSet
  <1>4. TypeOK'
    BY <1>a, <1>b, <1>c, <1>d, <1>e DEF TypeOK, StoreTypeOK
  <1>5. QED
    BY <1>2, <1>3, <1>4, EmptyFollows DEF IndInv

\* The view lists well-formed destinations.
LEMMA ViewEntries ==
    ASSUME IndInv, NEW i \in DOMAIN view
    PROVE  view[i].id \in IDs \union {NoID} /\ view[i].name \in Names /\ view[i].url \in URLs
  <1>1. view \in Seq(ViewRecord)
    BY DEF IndInv, TypeOK
  <1>2. view[i] \in ViewRecord
    BY <1>1
  <1>3. QED
    BY <1>2 DEF ViewRecord

\* A step that leaves the store and the view alone.
LEMMA SteadyPreserves ==
    ASSUME IndInv, UNCHANGED <<storeVars, up, view>>,
           source' \in BOOLEAN,
           streams' \in [URLs -> IDs \union {NoID, Unused, Ended}],
           onAir' \in SUBSET URLs,
           reply' \in [cmd : Commands, id : IDs \union {NoID}, result : Results]
    PROVE  IndInv'
  <1>1. UNCHANGED <<disk, intact, mem, faults, up, view>>
    BY DEF storeVars
  <1>2. StoreTypeOK'
    BY <1>1 DEF IndInv, TypeOK, StoreTypeOK
  <1>3. up' \in BOOLEAN /\ view' \in Seq(ViewRecord)
    BY <1>1 DEF IndInv, TypeOK
  <1>4. TypeOK'
    BY <1>2, <1>3 DEF TypeOK
  <1>5. QED
    BY <1>1, <1>4 DEF IndInv, ViewIsPersisted, Follows, ZeroWhenNoID, Stored

\* An answer that changes nothing else.
LEMMA RefusalPreserves ==
    ASSUME IndInv, NEW cmd \in Commands, NEW id \in IDs \union {NoID}, NEW result \in Results,
           Refuse(cmd, id, result)
    PROVE  IndInv'
  BY DEF IndInv, Refuse, Reply, TypeOK, StoreTypeOK, storeVars, ViewIsPersisted,
         Follows, ZeroWhenNoID, Stored

\* repl.StopDestination
LEMMA StoppedStreamsType ==
    ASSUME TypeOK, NEW url \in URLs
    PROVE  StoppedStreams(url) \in [URLs -> IDs \union {NoID, Unused, Ended}]
  BY DEF TypeOK, StoppedStreams

-----------------------------------------------------------------------------
(***************************************************************************)
(* The invariant is inductive                                              *)
(***************************************************************************)

LEMMA InitIndInv == Init => IndInv
  <1> SUFFICES ASSUME Init PROVE IndInv
    OBVIOUS
  <1>a. StoreTypeOK
    BY FileStoreAssumption DEF Init, StoreInit, StoreTypeOK
  <1>b. /\ view \in Seq(ViewRecord)
        /\ streams \in [URLs -> IDs \union {NoID, Unused, Ended}]
        /\ onAir \in SUBSET URLs
    BY DEF Init
  <1>c. reply \in [cmd : Commands, id : IDs \union {NoID}, result : Results]
    BY DEF Init, NoReply, Commands, Results
  <1>1. TypeOK
    BY <1>a, <1>b, <1>c DEF Init, TypeOK
  <1>2. QED
    BY <1>1
    DEF Init, StoreInit, IndInv, Stored, Valid, ZeroWhenNoID, Follows, ViewIsPersisted

LEMMA AddPreserves ==
    ASSUME IndInv, NEW name \in Names \union {NoName}, NEW url \in URLs \union {BadURL},
           AddDestination(name, url)
    PROVE  IndInv'
  <1>1. PICK id \in IDs :
          LET new == Append(mem, [id |-> id, name |-> name, url |-> url]) IN
            \/ SetAndReply(new, mem, "add", id) /\ UNCHANGED <<source, streams, onAir>>
            \/ DiesInSet(new)
    BY DEF AddDestination
  <1> DEFINE d == [id |-> id, name |-> name, url |-> url]
             new == Append(mem, d)
  <1>2. mem \in Seq(Record) /\ d \in Record /\ d.id # NoID
    BY FileStoreAssumption DEF IndInv, TypeOK, StoreTypeOK, Record
  <1>3. new \in Seq(Record)
    BY <1>2
  <1>4. ZeroWhenNoID(new)
    BY <1>2 DEF IndInv, ZeroWhenNoID
  <1>5. CASE SetAndReply(new, mem, "add", id) /\ UNCHANGED <<source, streams, onAir>>
    <2>1. /\ source' \in BOOLEAN
          /\ streams' \in [URLs -> IDs \union {NoID, Unused, Ended}]
          /\ onAir' \in SUBSET URLs
      BY <1>5 DEF IndInv, TypeOK
    <2>2. up /\ "add" \in Commands
      BY DEF AddDestination, Commands
    <2>3. ZeroWhenNoID(mem) /\ Follows(mem, view)
      BY DEF IndInv
    <2>4. QED
      BY <1>2, <1>3, <1>4, <1>5, <2>1, <2>2, <2>3, SetPreserves
  <1>6. CASE DiesInSet(new)
    BY <1>3, <1>4, <1>6, DyingPreserves
  <1>7. QED
    BY <1>1, <1>5, <1>6

LEMMA UpdatePreserves ==
    ASSUME IndInv, NEW id \in Named, NEW name \in Names \union {NoName},
           NEW url \in URLs \union {BadURL}, UpdateDestination(id, name, url)
    PROVE  IndInv'
  <1>0. /\ id \in IDs \union {NoID}
        /\ "update" \in Commands /\ {"live", "not found"} \subseteq Results
    BY NamedAssumption DEF Commands, Results
  <1>1. CASE Refuse("update", id, "live") \/ Refuse("update", id, "not found")
    BY <1>0, <1>1, RefusalPreserves
  <1>2. CASE \E i \in DOMAIN mem :
              /\ FoundAt(mem, id, i)
              /\ LET new == [mem EXCEPT ![i] = [id |-> id, name |-> name, url |-> url]] IN
                  \/ SetAndReply(new, new, "update", id) /\ UNCHANGED <<source, streams, onAir>>
                  \/ DiesInSet(new)
    <2>1. PICK i \in DOMAIN mem :
              /\ FoundAt(mem, id, i)
              /\ LET new == [mem EXCEPT ![i] = [id |-> id, name |-> name, url |-> url]] IN
                  \/ SetAndReply(new, new, "update", id) /\ UNCHANGED <<source, streams, onAir>>
                  \/ DiesInSet(new)
      BY <1>2
    <2> DEFINE d == [id |-> id, name |-> name, url |-> url]
               new == [mem EXCEPT ![i] = d]
    <2>2. mem \in Seq(Record) /\ d \in Record /\ mem[i].id = id /\ (Tame => id # NoID)
      BY <1>0, <2>1 DEF IndInv, TypeOK, StoreTypeOK, Record, FoundAt, Tame
    <2>3. /\ new \in Seq(Record) /\ Len(new) = Len(mem) /\ DOMAIN new = DOMAIN mem
          /\ new[i] = d
          /\ \A j \in DOMAIN mem : j # i => new[j] = mem[j]
      BY <2>2
    <2>4. ZeroWhenNoID(new)
      BY <2>2, <2>3 DEF IndInv, ZeroWhenNoID
    <2>5. Follows(new, view)
      <3>1. \A j \in DOMAIN mem : new[j].id = mem[j].id
        BY <2>2, <2>3
      <3>2. Tame => \A j \in DOMAIN mem : mem[j] = ZeroRecord => new[j] = ZeroRecord
        BY <2>2, <2>3 DEF ZeroRecord
      <3>3. QED
        BY <2>3, <3>1, <3>2 DEF IndInv, Follows
    <2>6. CASE SetAndReply(new, new, "update", id) /\ UNCHANGED <<source, streams, onAir>>
      <3>1. /\ source' \in BOOLEAN
            /\ streams' \in [URLs -> IDs \union {NoID, Unused, Ended}]
            /\ onAir' \in SUBSET URLs
        BY <2>6 DEF IndInv, TypeOK
      <3>2. up
        BY DEF UpdateDestination
      <3>3. QED
        BY <1>0, <2>3, <2>4, <2>5, <2>6, <3>1, <3>2, SetPreserves
    <2>7. CASE DiesInSet(new)
      BY <2>3, <2>4, <2>7, DyingPreserves
    <2>8. QED
      BY <2>1, <2>6, <2>7
  <1>3. QED
    BY <1>1, <1>2 DEF UpdateDestination

LEMMA RemovePreserves ==
    ASSUME IndInv, NEW id \in Named, NEW force \in BOOLEAN, RemoveDestination(id, force)
    PROVE  IndInv'
  <1> DEFINE cmd == IF force THEN "remove --force" ELSE "remove"
  <1>0. /\ id \in IDs \union {NoID}
        /\ cmd \in Commands /\ {"live", "not found"} \subseteq Results
    BY NamedAssumption DEF Commands, Results
  <1>1. CASE Refuse(cmd, id, "live") \/ Refuse(cmd, id, "not found")
    BY <1>0, <1>1, RefusalPreserves
  <1>2. CASE \E i \in DOMAIN mem :
              /\ FoundAt(mem, id, i)
              /\ \/ /\ SetAndReply(Deleted(mem, i), Shifted(mem, i), cmd, id)
                    /\ streams' = StoppedStreams(view[i].url)
                    /\ onAir' = onAir \ {view[i].url}
                    /\ UNCHANGED source
                 \/ DiesInSet(Deleted(mem, i))
    <2>1. PICK i \in DOMAIN mem :
              /\ FoundAt(mem, id, i)
              /\ \/ /\ SetAndReply(Deleted(mem, i), Shifted(mem, i), cmd, id)
                    /\ streams' = StoppedStreams(view[i].url)
                    /\ onAir' = onAir \ {view[i].url}
                    /\ UNCHANGED source
                 \/ DiesInSet(Deleted(mem, i))
      BY <1>2
    <2>2. mem \in Seq(Record) /\ view \in Seq(ViewRecord) /\ ZeroWhenNoID(mem)
      BY DEF IndInv, TypeOK, StoreTypeOK
    <2>3. Len(mem) = Len(view) /\ Len(mem) \in Nat /\ DOMAIN mem = 1 .. Len(mem)
      BY <2>2 DEF IndInv, Follows
    <2>4. Deleted(mem, i) \in Seq(Record) /\ ZeroWhenNoID(Deleted(mem, i))
      <3>1. /\ Deleted(mem, i) \in Seq(Record)
            /\ Len(Deleted(mem, i)) = Len(mem) - 1
            /\ \A j \in 1 .. (Len(mem) - 1) :
                  Deleted(mem, i)[j] = IF j < i THEN mem[j] ELSE mem[j + 1]
        BY <2>2, DeletedType
      <3>2. DOMAIN Deleted(mem, i) = 1 .. (Len(mem) - 1)
        BY DEF Deleted
      <3>3. QED
        BY <2>2, <2>3, <3>1, <3>2 DEF ZeroWhenNoID
    <2>5. /\ Shifted(mem, i) \in Seq(Record) /\ ZeroWhenNoID(Shifted(mem, i))
          /\ Follows(Shifted(mem, i), view)
      <3>1. /\ Shifted(mem, i) \in Seq(Record)
            /\ Len(Shifted(mem, i)) = Len(mem)
            /\ Shifted(mem, i)[Len(mem)] = ZeroRecord
            /\ ZeroWhenNoID(Shifted(mem, i))
        BY <2>2, ShiftedType
      <3>2. Len(mem) \in DOMAIN Shifted(mem, i)
        BY <2>3 DEF Shifted
      <3>3. QED
        BY <2>3, <3>1, <3>2 DEF Follows
    <2>6. CASE /\ SetAndReply(Deleted(mem, i), Shifted(mem, i), cmd, id)
               /\ streams' = StoppedStreams(view[i].url)
               /\ onAir' = onAir \ {view[i].url}
               /\ UNCHANGED source
      <3>1. view[i].url \in URLs
        <4>1. i \in DOMAIN view
          BY <2>2, <2>3
        <4>2. QED
          BY <4>1, ViewEntries
      <3>2. streams' \in [URLs -> IDs \union {NoID, Unused, Ended}]
        BY <2>6, <3>1, StoppedStreamsType DEF IndInv
      <3>3. source' \in BOOLEAN /\ onAir' \in SUBSET URLs
        BY <2>6 DEF IndInv, TypeOK
      <3>4. up
        BY DEF RemoveDestination
      <3>5. QED
        BY <1>0, <2>4, <2>5, <2>6, <3>2, <3>3, <3>4, SetPreserves
    <2>7. CASE DiesInSet(Deleted(mem, i))
      BY <2>4, <2>7, DyingPreserves
    <2>8. QED
      BY <2>1, <2>6, <2>7
  <1>3. QED
    BY <1>1, <1>2 DEF RemoveDestination

LEMMA StartPreserves ==
    ASSUME IndInv, NEW id \in Named, StartDestination(id)
    PROVE  IndInv'
  <1>0. /\ id \in IDs \union {NoID}
        /\ "start" \in Commands
        /\ {"ok", "not found", "source not live", "host not found"} \subseteq Results
    BY NamedAssumption DEF Commands, Results
  <1>1. CASE \/ Refuse("start", id, "not found")
             \/ Refuse("start", id, "source not live")
             \/ Refuse("start", id, "host not found")
    BY <1>0, <1>1, RefusalPreserves
  <1>2. CASE \E i \in DOMAIN view :
              /\ streams' = IF Running(view[i].url) THEN streams
                            ELSE [streams EXCEPT ![view[i].url] = id]
              /\ Reply("start", id, "ok")
              /\ UNCHANGED <<storeVars, up, source, view, onAir>>
    <2>1. streams' \in [URLs -> IDs \union {NoID, Unused, Ended}]
      BY <1>0, <1>2 DEF IndInv, TypeOK
    <2>a. reply' = [cmd |-> "start", id |-> id, result |-> "ok"]
      BY <1>2 DEF Reply
    <2>2. reply' \in [cmd : Commands, id : IDs \union {NoID}, result : Results]
      BY <1>0, <2>a
    <2>3. source' \in BOOLEAN /\ onAir' \in SUBSET URLs
      BY <1>2 DEF IndInv, TypeOK
    <2>4. UNCHANGED <<storeVars, up, view>>
      BY <1>2
    <2>5. QED
      BY <2>1, <2>2, <2>3, <2>4, SteadyPreserves
  <1>3. QED
    BY <1>1, <1>2 DEF StartDestination

LEMMA StopPreserves ==
    ASSUME IndInv, NEW id \in Named, StopDestination(id)
    PROVE  IndInv'
  <1>0. /\ id \in IDs \union {NoID}
        /\ "stop" \in Commands /\ {"ok", "not found"} \subseteq Results
    BY NamedAssumption DEF Commands, Results
  <1>1. CASE Refuse("stop", id, "not found")
    BY <1>0, <1>1, RefusalPreserves
  <1>2. CASE \E i \in DOMAIN view :
              /\ streams' = StoppedStreams(view[i].url)
              /\ onAir' = onAir \ {view[i].url}
              /\ Reply("stop", id, "ok")
              /\ UNCHANGED <<storeVars, up, source, view>>
    <2>1. \A i \in DOMAIN view : view[i].url \in URLs
      BY ViewEntries
    <2>2. streams' \in [URLs -> IDs \union {NoID, Unused, Ended}]
      BY <1>2, <2>1, StoppedStreamsType DEF IndInv
    <2>a. reply' = [cmd |-> "stop", id |-> id, result |-> "ok"]
      BY <1>2 DEF Reply
    <2>3. reply' \in [cmd : Commands, id : IDs \union {NoID}, result : Results]
      BY <1>0, <2>a
    <2>4. source' \in BOOLEAN /\ onAir' \in SUBSET URLs
      BY <1>2 DEF IndInv, TypeOK
    <2>5. UNCHANGED <<storeVars, up, view>>
      BY <1>2
    <2>6. QED
      BY <2>2, <2>3, <2>4, <2>5, SteadyPreserves
  <1>3. QED
    BY <1>1, <1>2 DEF StopDestination

LEMMA ReportPreserves ==
    ASSUME IndInv, NEW url \in URLs, NEW status \in Statuses,
           ApplyReplicatorState(url, status)
    PROVE  IndInv'
  <1> DEFINE shown == [i \in DOMAIN view |->
                        IF view[i].url = url THEN [view[i] EXCEPT !.status = status] ELSE view[i]]
  <1>1. UNCHANGED <<disk, intact, mem, faults, up, source, streams>> /\ view' = shown
    BY DEF ApplyReplicatorState, storeVars
  <1>2. view \in Seq(ViewRecord)
    BY DEF IndInv, TypeOK
  <1>3. Len(view) \in Nat /\ DOMAIN view = 1 .. Len(view) /\ \A i \in DOMAIN view : view[i] \in ViewRecord
    BY <1>2
  <1>4. shown \in [1 .. Len(view) -> ViewRecord]
    BY <1>3 DEF ViewRecord
  <1>5. shown \in Seq(ViewRecord) /\ Len(shown) = Len(view) /\ DOMAIN shown = DOMAIN view
    BY <1>3, <1>4, FunctionIsSeq
  <1>6. \A i \in DOMAIN view : /\ shown[i].id = view[i].id
                               /\ shown[i].name = view[i].name
                               /\ shown[i].url = view[i].url
    BY <1>3 DEF ViewRecord
  <1>7. StoreTypeOK'
    BY <1>1 DEF IndInv, TypeOK, StoreTypeOK
  <1>8. onAir' \in SUBSET URLs
    BY DEF ApplyReplicatorState, IndInv, TypeOK
  <1>9. reply' \in [cmd : Commands, id : IDs \union {NoID}, result : Results]
    BY DEF ApplyReplicatorState, NoReply, Commands, Results
  <1>10. TypeOK'
    BY <1>1, <1>5, <1>7, <1>8, <1>9 DEF IndInv, TypeOK
  <1>11. Follows(mem, view)'
    <2>1. Follows(mem, shown)
      <3>1. Follows(mem, view) /\ DOMAIN mem = DOMAIN view
        BY <1>2 DEF IndInv, TypeOK, StoreTypeOK, Follows
      <3>2. QED
        BY <1>5, <1>6, <3>1 DEF Follows
    <2>2. QED
      BY <1>1, <2>1 DEF Follows
  <1>12. ViewIsPersisted'
    BY <1>1, <1>5, <1>6 DEF IndInv, ViewIsPersisted
  <1>13. QED
    BY <1>1, <1>10, <1>11, <1>12 DEF IndInv, ZeroWhenNoID, Stored

LEMMA EndsPreserves ==
    ASSUME IndInv, ProcessEnds
    PROVE  IndInv'
  <1>1. mem' = << >> /\ view' = << >> /\ ~up' /\ UNCHANGED <<disk, intact, faults>>
    BY DEF ProcessEnds, StoreCloses
  <1>2. StoreTypeOK'
    BY <1>1 DEF IndInv, TypeOK, StoreTypeOK
  <1>3. /\ streams' \in [URLs -> IDs \union {NoID, Unused, Ended}]
        /\ onAir' \in SUBSET URLs
        /\ reply' \in [cmd : Commands, id : IDs \union {NoID}, result : Results]
    BY DEF ProcessEnds, NoReply, Commands, Results
  <1>4. up' \in BOOLEAN /\ source' \in BOOLEAN
    BY DEF ProcessEnds
  <1>5. TypeOK'
    BY <1>1, <1>2, <1>3, <1>4 DEF TypeOK
  <1>6. QED
    BY <1>1, <1>5, EmptyFollows DEF IndInv, Stored

LEMMA StartsPreserves ==
    ASSUME IndInv, ProcessStarts
    PROVE  IndInv'
  <1>1. /\ mem' = disk /\ up' /\ ~source' /\ view' = DestinationsFromStore(disk)
        /\ intact
        /\ UNCHANGED <<disk, intact, faults, streams, onAir>>
    BY DEF ProcessStarts, StoreOpens
  <1>2. disk \in Seq(Record) /\ Stored(disk)
    BY DEF IndInv, TypeOK, StoreTypeOK
  <1>3. /\ view' \in Seq(ViewRecord)
        /\ Len(view') = Len(disk)
        /\ \A i \in DOMAIN disk : /\ view'[i].id = disk[i].id
                                  /\ view'[i].name = disk[i].name
                                  /\ view'[i].url = disk[i].url
    BY <1>1, <1>2, ViewOfStored
  <1>4. DOMAIN view' = DOMAIN disk
    BY <1>2, <1>3
  <1>5. StoreTypeOK'
    BY <1>1, <1>2 DEF IndInv, TypeOK, StoreTypeOK
  <1>6. up' \in BOOLEAN /\ source' \in BOOLEAN
        /\ reply' \in [cmd : Commands, id : IDs \union {NoID}, result : Results]
    BY DEF ProcessStarts, NoReply, Commands, Results
  <1>7. TypeOK'
    BY <1>1, <1>3, <1>5, <1>6 DEF IndInv, TypeOK
  <1>8. ZeroWhenNoID(mem)'
    BY <1>1, <1>2, FileStoreAssumption DEF Stored, ZeroWhenNoID
  <1>9. Follows(mem, view)' /\ ViewIsPersisted'
    BY <1>1, <1>3, <1>4 DEF Follows, ViewIsPersisted
  <1>10. QED
    BY <1>1, <1>2, <1>7, <1>8, <1>9 DEF IndInv, Stored

\* The two actions left leave the store and the view alone.
LEMMA OtherPreserves ==
    ASSUME IndInv, ApplyServerState \/ \E url \in URLs : StreamExits(url)
    PROVE  IndInv'
  <1>1. UNCHANGED <<storeVars, up, view>> /\ reply' = NoReply
    BY DEF ApplyServerState, StreamExits
  <1>2. reply' \in [cmd : Commands, id : IDs \union {NoID}, result : Results]
    BY <1>1 DEF NoReply, Commands, Results
  <1>3. streams' \in [URLs -> IDs \union {NoID, Unused, Ended}]
    BY StoppedStreamsType DEF ApplyServerState, StreamExits, IndInv, TypeOK
  <1>4. source' \in BOOLEAN /\ onAir' \in SUBSET URLs
    <2>1. CASE ApplyServerState
      BY <2>1 DEF ApplyServerState, IndInv, TypeOK
    <2>2. CASE \E url \in URLs : StreamExits(url)
      BY <2>2 DEF StreamExits, IndInv, TypeOK
    <2>3. QED
      BY <2>1, <2>2
  <1>5. QED
    BY <1>1, <1>2, <1>3, <1>4, SteadyPreserves

LEMMA StutterPreserves ==
    ASSUME IndInv, UNCHANGED vars
    PROVE  IndInv'
  <1>1. UNCHANGED <<storeVars, up, view, source, streams, onAir, reply>>
    BY DEF vars, appVars
  <1>2. QED
    BY <1>1, SteadyPreserves DEF IndInv, TypeOK

LEMMA NextIndInv == IndInv /\ [Next]_vars => IndInv'
  <1> SUFFICES ASSUME IndInv, [Next]_vars PROVE IndInv'
    OBVIOUS
  <1>1. CASE \E name \in Names \union {NoName}, url \in URLs \union {BadURL} : AddDestination(name, url)
    BY <1>1, AddPreserves
  <1>2. CASE \E id \in Named, name \in Names \union {NoName}, url \in URLs \union {BadURL} :
                UpdateDestination(id, name, url)
    BY <1>2, UpdatePreserves
  <1>3. CASE \E id \in Named, force \in BOOLEAN : RemoveDestination(id, force)
    BY <1>3, RemovePreserves
  <1>4. CASE \E id \in Named : StartDestination(id)
    BY <1>4, StartPreserves
  <1>5. CASE \E id \in Named : StopDestination(id)
    BY <1>5, StopPreserves
  <1>6. CASE \E url \in URLs, status \in Statuses : ApplyReplicatorState(url, status)
    BY <1>6, ReportPreserves
  <1>7. CASE ApplyServerState \/ \E url \in URLs : StreamExits(url)
    BY <1>7, OtherPreserves
  <1>8. CASE ProcessEnds
    BY <1>8, EndsPreserves
  <1>9. CASE ProcessStarts
    BY <1>9, StartsPreserves
  <1>10. CASE UNCHANGED vars
    BY <1>10, StutterPreserves
  <1>11. QED
    BY <1>1, <1>2, <1>3, <1>4, <1>5, <1>6, <1>7, <1>8, <1>9, <1>10 DEF Next

\* IndInv holds throughout.
LEMMA Invariance == Spec => []IndInv
  BY InitIndInv, NextIndInv, PTL DEF Spec

-----------------------------------------------------------------------------
(***************************************************************************)
(* Theorems                                                                *)
(***************************************************************************)

\* Every variable keeps its type: in particular the view never lists a blank
\* name, a URL that does not validate or a zeroed ID.
THEOREM TypeCorrect == Spec => []TypeOK
  BY Invariance, PTL DEF IndInv

\* Until a write goes wrong, clients are shown what would survive a restart
\* (handlePersistentStateUpdate).
THEOREM ViewAlwaysPersisted == Spec => []ViewIsPersisted
  BY Invariance, PTL DEF IndInv

\* RemoveDestination never indexes past the end of the view (serverapp.go:492),
\* whatever ID a command names.
THEOREM IndexAlwaysInView == Spec => []IndexIsInView
  <1>1. IndInv => IndexIsInView
    BY DEF IndInv, TypeOK, StoreTypeOK, Follows, IndexIsInView
  <1>2. QED
    BY <1>1, Invariance, PTL

\* When no command names the nil UUID, the records of the store follow those of
\* the view or can be stored no more (serverapp.go:492-498).
THEOREM AlwaysAlignedOrWedged ==
    ASSUME NoID \notin Named
    PROVE  Spec => []AlignedOrWedged
  <1>1. IndInv => AlignedOrWedged
    BY DEF IndInv, TypeOK, StoreTypeOK, Follows, AlignedOrWedged, IndexIsInView, Tame
  <1>2. QED
    BY <1>1, Invariance, PTL

-----------------------------------------------------------------------------

\* Storing a list in which a zeroed record of the store would survive is not
\* possible: when a list is stored, the store followed the view.
LEMMA StoredWasAligned ==
    ASSUME Tame, IndInv, NEW new \in Seq(Record), Valid(new),
           (\E i \in DOMAIN mem : mem[i] = ZeroRecord) => (\E j \in DOMAIN new : new[j] = ZeroRecord)
    PROVE  DOMAIN mem = DOMAIN view /\ \A i \in DOMAIN mem : mem[i].id = view[i].id
  <1>1. \A j \in DOMAIN new : new[j] # ZeroRecord
    BY FileStoreAssumption DEF Valid, ValidRecord, ZeroRecord
  <1>2. mem \in Seq(Record) /\ view \in Seq(ViewRecord)
    BY DEF IndInv, TypeOK, StoreTypeOK
  <1>3. QED
    BY <1>1, <1>2 DEF IndInv, Follows

\* A stored list that bears every ID of the view but possibly one keeps the
\* others shown.
LEMMA StoredShows ==
    ASSUME IndInv, NEW new \in Seq(Record), NEW edited, NEW cmd, NEW id,
           SetAndReply(new, edited, cmd, id)
    PROVE  \/ view' = view
           \/ /\ Valid(new)
              /\ DOMAIN view' = DOMAIN new
              /\ \A j \in DOMAIN new : view'[j].id = new[j].id
  <1>1. CASE SetStores(new) /\ view' = DestinationsFromStore(new)
    <2>1. Valid(new) /\ view' = DestinationsFromStore(new)
      BY <1>1 DEF SetStores
    <2>2. /\ DOMAIN DestinationsFromStore(new) = DOMAIN new
          /\ \A j \in DOMAIN new : DestinationsFromStore(new)[j].id = new[j].id
      BY DEF DestinationsFromStore
    <2>3. QED
      BY <2>1, <2>2
  <1>2. CASE UNCHANGED view
    BY <1>2
  <1>3. QED
    BY <1>1, <1>2 DEF SetAndReply

LEMMA AddKeepsLive ==
    ASSUME Tame, IndInv, NEW name, NEW url, name \in Names \union {NoName},
           url \in URLs \union {BadURL}, AddDestination(name, url)
    PROVE  KeepsShownLive
  <1>1. PICK id \in IDs :
          LET new == Append(mem, [id |-> id, name |-> name, url |-> url]) IN
            \/ SetAndReply(new, mem, "add", id) /\ UNCHANGED <<source, streams, onAir>>
            \/ DiesInSet(new)
    BY DEF AddDestination
  <1> DEFINE d == [id |-> id, name |-> name, url |-> url]
             new == Append(mem, d)
  <1>2. mem \in Seq(Record) /\ d \in Record
    BY DEF IndInv, TypeOK, StoreTypeOK, Record
  <1>3. /\ new \in Seq(Record) /\ DOMAIN mem \subseteq DOMAIN new
        /\ \A j \in DOMAIN mem : new[j] = mem[j]
    BY <1>2
  <1>4. CASE SetAndReply(new, mem, "add", id)
    <2>1. CASE view' = view
      BY <2>1 DEF KeepsShownLive
    <2>2. CASE /\ Valid(new)
               /\ DOMAIN view' = DOMAIN new
               /\ \A j \in DOMAIN new : view'[j].id = new[j].id
      <3>1. DOMAIN mem = DOMAIN view /\ \A i \in DOMAIN mem : mem[i].id = view[i].id
        BY <1>3, <2>2, StoredWasAligned
      <3>2. QED
        BY <1>3, <2>2, <3>1 DEF KeepsShownLive
    <2>3. QED
      BY <1>3, <1>4, <2>1, <2>2, StoredShows
  <1>5. CASE DiesInSet(new)
    BY <1>5 DEF DiesInSet, KeepsShownLive
  <1>6. QED
    BY <1>1, <1>4, <1>5

LEMMA UpdateKeepsLive ==
    ASSUME Tame, IndInv, NEW id \in IDs, NEW name \in Names \union {NoName},
           NEW url \in URLs \union {BadURL}, UpdateDestination(id, name, url)
    PROVE  KeepsShownLive
  <1>1. CASE view' = view
    BY <1>1 DEF KeepsShownLive
  <1>2. CASE ~up'
    BY <1>2 DEF KeepsShownLive
  <1>3. CASE \E i \in DOMAIN mem :
              /\ FoundAt(mem, id, i)
              /\ LET new == [mem EXCEPT ![i] = [id |-> id, name |-> name, url |-> url]] IN
                  SetAndReply(new, new, "update", id)
    <2>1. PICK i \in DOMAIN mem :
              /\ FoundAt(mem, id, i)
              /\ LET new == [mem EXCEPT ![i] = [id |-> id, name |-> name, url |-> url]] IN
                  SetAndReply(new, new, "update", id)
      BY <1>3
    <2> DEFINE d == [id |-> id, name |-> name, url |-> url]
               new == [mem EXCEPT ![i] = d]
    <2>2. mem \in Seq(Record) /\ d \in Record /\ mem[i].id = id /\ id # NoID
      BY <2>1, FileStoreAssumption DEF IndInv, TypeOK, StoreTypeOK, Record, FoundAt
    <2>3. /\ new \in Seq(Record) /\ DOMAIN new = DOMAIN mem
          /\ \A j \in DOMAIN mem : new[j].id = mem[j].id
          /\ \A j \in DOMAIN mem : mem[j] = ZeroRecord => new[j] = ZeroRecord
      BY <2>2 DEF ZeroRecord
    <2>4. CASE /\ Valid(new)
               /\ DOMAIN view' = DOMAIN new
               /\ \A j \in DOMAIN new : view'[j].id = new[j].id
      <3>1. DOMAIN mem = DOMAIN view /\ \A j \in DOMAIN mem : mem[j].id = view[j].id
        BY <2>3, <2>4, StoredWasAligned
      <3>2. QED
        BY <2>3, <2>4, <3>1 DEF KeepsShownLive
    <2>5. QED
      BY <1>1, <2>1, <2>3, <2>4, StoredShows
  <1>4. QED
    BY <1>1, <1>2, <1>3 DEF UpdateDestination, Refuse, DiesInSet

LEMMA RemoveKeepsLive ==
    ASSUME Tame, IndInv, NEW id \in IDs, NEW force \in BOOLEAN, RemoveDestination(id, force)
    PROVE  KeepsShownLive
  <1> DEFINE cmd == IF force THEN "remove --force" ELSE "remove"
  <1>1. CASE view' = view
    BY <1>1 DEF KeepsShownLive
  <1>2. CASE ~up'
    BY <1>2 DEF KeepsShownLive
  <1>3. CASE \E i \in DOMAIN mem :
              /\ FoundAt(mem, id, i)
              /\ MayRemove(i, force)
              /\ SetAndReply(Deleted(mem, i), Shifted(mem, i), cmd, id)
    <2>1. PICK i \in DOMAIN mem :
              /\ FoundAt(mem, id, i)
              /\ MayRemove(i, force)
              /\ SetAndReply(Deleted(mem, i), Shifted(mem, i), cmd, id)
      BY <1>3
    <2> DEFINE new == Deleted(mem, i)
    <2>2. /\ mem \in Seq(Record) /\ Len(mem) \in Nat /\ DOMAIN mem = 1 .. Len(mem)
          /\ mem[i].id = id /\ id # NoID
      <3>1. mem \in Seq(Record)
        BY DEF IndInv, TypeOK, StoreTypeOK
      <3>2. FoundAt(mem, id, i)
        BY <2>1
      <3>3. QED
        BY <3>1, <3>2, FileStoreAssumption DEF FoundAt
    <2>3. /\ new \in Seq(Record) /\ DOMAIN new = 1 .. (Len(mem) - 1)
          /\ \A j \in 1 .. (Len(mem) - 1) : new[j] = IF j < i THEN mem[j] ELSE mem[j + 1]
      BY <2>2, DeletedType DEF Deleted
    <2>4. \A k \in DOMAIN mem : k # i => \E j \in DOMAIN new : new[j] = mem[k]
      <3>1. ASSUME NEW k \in DOMAIN mem, k < i
            PROVE  k \in DOMAIN new /\ new[k] = mem[k]
        BY <2>2, <2>3, <3>1
      <3>2. ASSUME NEW k \in DOMAIN mem, k > i
            PROVE  k - 1 \in DOMAIN new /\ new[k - 1] = mem[k]
        BY <2>2, <2>3, <3>2
      <3>3. QED
        BY <2>2, <3>1, <3>2
    <2>5. CASE /\ Valid(new)
               /\ DOMAIN view' = DOMAIN new
               /\ \A j \in DOMAIN new : view'[j].id = new[j].id
      <3>1. mem[i] # ZeroRecord
        BY <2>2 DEF ZeroRecord
      <3>2. DOMAIN mem = DOMAIN view /\ \A k \in DOMAIN mem : mem[k].id = view[k].id
        BY <2>3, <2>4, <2>5, <3>1, StoredWasAligned
      <3>3. CASE force
        <4>1. reply'.cmd = cmd /\ reply'.id = id
          <5> HIDE DEF cmd
          <5>1. \E result : Reply(cmd, id, result)
            BY <2>1 DEF SetAndReply
          <5>2. PICK result : reply' = [cmd |-> cmd, id |-> id, result |-> result]
            BY <5>1 DEF Reply
          <5>3. QED
            BY <5>2
        <4>2. \A k \in DOMAIN view : k # i => \E j \in DOMAIN view' : view'[j].id = view[k].id
          BY <2>4, <2>5, <3>2
        <4>3. view[i].id = id
          BY <2>2, <3>2
        <4>4. QED
          BY <3>3, <4>1, <4>2, <4>3 DEF KeepsShownLive
      <3>4. CASE ~force
        <4>1. view[i].status # "live"
          BY <2>1, <3>4 DEF MayRemove
        <4>2. \A k \in DOMAIN view : k # i => \E j \in DOMAIN view' : view'[j].id = view[k].id
          BY <2>4, <2>5, <3>2
        <4>3. QED
          BY <4>1, <4>2 DEF KeepsShownLive
      <3>5. QED
        BY <3>3, <3>4
    <2>6. QED
      BY <1>1, <2>1, <2>3, <2>5, StoredShows
  <1>4. QED
    BY <1>1, <1>2, <1>3 DEF RemoveDestination, Refuse, DiesInSet

\* A destination shown live stays listed (RemoveDestination's guard holds even
\* though it is evaluated at an index of another list), when no command names
\* the nil UUID.
THEOREM ShownLiveAlwaysKept ==
    ASSUME NoID \notin Named
    PROVE  Spec => ShownLiveIsKept
  <1>0. Tame /\ Named \subseteq IDs
    BY NamedAssumption DEF Tame
  <1>1. ASSUME IndInv, [Next]_vars
        PROVE  [KeepsShownLive]_vars
    <2>1. CASE view' = view
      BY <2>1 DEF KeepsShownLive
    <2>2. CASE \E name \in Names \union {NoName}, url \in URLs \union {BadURL} : AddDestination(name, url)
      BY <1>0, <1>1, <2>2, AddKeepsLive
    <2>3. CASE \E id \in Named, name \in Names \union {NoName}, url \in URLs \union {BadURL} :
                  UpdateDestination(id, name, url)
      BY <1>0, <1>1, <2>3, UpdateKeepsLive
    <2>4. CASE \E id \in Named, force \in BOOLEAN : RemoveDestination(id, force)
      BY <1>0, <1>1, <2>4, RemoveKeepsLive
    <2>5. CASE \E url \in URLs, status \in Statuses : ApplyReplicatorState(url, status)
      <3>1. view \in Seq(ViewRecord)
        BY <1>1 DEF IndInv, TypeOK
      <3>2. DOMAIN view' = DOMAIN view /\ \A i \in DOMAIN view : view'[i].id = view[i].id
        BY <2>5, <3>1 DEF ApplyReplicatorState
      <3>3. QED
        BY <3>2 DEF KeepsShownLive
    <2>6. CASE ProcessEnds
      BY <2>6 DEF ProcessEnds, KeepsShownLive
    <2>7. CASE ProcessStarts
      BY <1>1, <2>7 DEF ProcessStarts, IndInv, KeepsShownLive
    <2>8. CASE \/ \E id \in Named : StartDestination(id) \/ StopDestination(id)
               \/ \E url \in URLs : StreamExits(url)
               \/ ApplyServerState
               \/ UNCHANGED vars
      <3>1. view' = view
        BY <2>8 DEF StartDestination, StopDestination, Refuse, StreamExits, ApplyServerState, vars, appVars
      <3>2. QED
        BY <2>1, <3>1
    <2>9. QED
      BY <1>1, <2>2, <2>3, <2>4, <2>5, <2>6, <2>7, <2>8 DEF Next
  <1>2. QED
    BY <1>1, Invariance, PTL DEF Spec, ShownLiveIsKept

\* Set changes what is shown only when it answers "ok", and the file only then
\* or when the write fails.
LEMMA SetReports ==
    ASSUME NEW new, NEW edited, NEW cmd, NEW id, SetAndReply(new, edited, cmd, id)
    PROVE  NoChangeOnError
  <1>1. CASE Reply(cmd, id, "ok")
    BY <1>1 DEF Reply, NoChangeOnError
  <1>2. CASE SetRejects(new, edited) /\ UNCHANGED <<up, view>>
    BY <1>2 DEF SetRejects, NoChangeOnError
  <1>3. CASE Reply(cmd, id, "write failed") /\ UNCHANGED <<up, view>>
    BY <1>3 DEF Reply, NoChangeOnError
  <1>4. QED
    BY <1>1, <1>2, <1>3 DEF SetAndReply

LEMMA DyingReports ==
    ASSUME NEW new, DiesInSet(new)
    PROVE  NoChangeOnError
  BY DEF DiesInSet, NoReply, NoChangeOnError

LEMMA RefusalReports ==
    ASSUME NEW cmd, NEW id, NEW result, Refuse(cmd, id, result)
    PROVE  NoChangeOnError
  BY DEF Refuse, storeVars, NoChangeOnError

\* A command answered with an error does not change the view, nor, unless the
\* error is that of the write, the file.
THEOREM ErrorsNeverChange == Spec => ErrorsChangeNothing
  <1>1. ASSUME [Next]_vars
        PROVE  [NoChangeOnError]_vars
    <2>1. CASE \E name \in Names \union {NoName}, url \in URLs \union {BadURL} : AddDestination(name, url)
      BY <2>1, SetReports, DyingReports DEF AddDestination
    <2>2. CASE \E id \in Named, name \in Names \union {NoName}, url \in URLs \union {BadURL} :
                  UpdateDestination(id, name, url)
      BY <2>2, SetReports, DyingReports, RefusalReports DEF UpdateDestination
    <2>3. CASE \E id \in Named, force \in BOOLEAN : RemoveDestination(id, force)
      BY <2>3, SetReports, DyingReports, RefusalReports DEF RemoveDestination
    <2>a. ASSUME NEW cmd, NEW id, Reply(cmd, id, "ok")
          PROVE  NoChangeOnError
      BY <2>a DEF Reply, NoChangeOnError
    <2>4. CASE \E id \in Named : StartDestination(id)
      BY <2>4, <2>a, RefusalReports DEF StartDestination
    <2>5. CASE \E id \in Named : StopDestination(id)
      BY <2>5, <2>a, RefusalReports DEF StopDestination
    <2>6. CASE \/ \E url \in URLs, status \in Statuses : ApplyReplicatorState(url, status)
               \/ \E url \in URLs : StreamExits(url)
               \/ ApplyServerState
               \/ ProcessEnds
               \/ ProcessStarts
      <3>1. reply' = NoReply
        BY <2>6 DEF ApplyReplicatorState, StreamExits, ApplyServerState, ProcessEnds,
                    ProcessStarts
      <3>2. QED
        BY <3>1 DEF NoReply, NoChangeOnError
    <2>7. CASE UNCHANGED vars
      BY <2>7
    <2>8. QED
      BY <1>1, <2>1, <2>2, <2>3, <2>4, <2>5, <2>6, <2>7 DEF Next
  <1>2. QED
    BY <1>1, PTL DEF Spec, ErrorsChangeNothing

-----------------------------------------------------------------------------
(***************************************************************************)
(* The app loop implements the registry.                                   *)
(*                                                                         *)
(* The registry speaks of sets and the code of lists, so a record must be  *)
(* found where the registry finds it: no two records of the store bear the *)
(* same ID, whatever edits failed commands have left in it.                *)
(***************************************************************************)

DistinctIDs(list) ==
    \A i, j \in DOMAIN list : list[i].id = list[j].id /\ list[i].id # NoID => i = j

Distinct == DistinctIDs(mem) /\ DistinctIDs(disk)

\* append adds one record.
LEMMA AppendLists ==
    ASSUME NEW list \in Seq(Record), NEW d \in Record
    PROVE  /\ Listed(Append(list, d)) = Listed(list) \union {d}
           /\ DistinctIDs(list) /\ NotFound(list, d.id) => DistinctIDs(Append(list, d))
  <1> DEFINE new == Append(list, d)
  <1>1. /\ Len(list) \in Nat /\ DOMAIN list = 1 .. Len(list)
        /\ DOMAIN new = 1 .. (Len(list) + 1)
        /\ \A i \in DOMAIN list : new[i] = list[i]
        /\ new[Len(list) + 1] = d
    OBVIOUS
  <1> HIDE DEF new
  <1>2. Listed(new) = Listed(list) \union {d}
    <2>1. \A i \in DOMAIN new : i \in DOMAIN list \/ i = Len(list) + 1
      BY <1>1
    <2>2. DOMAIN list \subseteq DOMAIN new /\ Len(list) + 1 \in DOMAIN new
      BY <1>1
    <2>3. QED
      BY <1>1, <2>1, <2>2 DEF Listed
  <1>3. DistinctIDs(list) /\ NotFound(list, d.id) => DistinctIDs(new)
    BY <1>1 DEF DistinctIDs, NotFound
  <1>4. QED
    BY <1>2, <1>3 DEF new

\* A record that has an ID is the only one that bears it.
LEMMA OneBearer ==
    ASSUME NEW list, DistinctIDs(list), NEW i \in DOMAIN list, list[i].id # NoID
    PROVE  {r \in Listed(list) : r.id = list[i].id} = {list[i]}
  BY DEF DistinctIDs, Listed

\* An assignment to an element replaces its record.
LEMMA AssignmentLists ==
    ASSUME NEW list \in Seq(Record), DistinctIDs(list), NEW i \in DOMAIN list,
           list[i].id # NoID, NEW d \in Record, d.id = list[i].id
    PROVE  /\ Listed([list EXCEPT ![i] = d]) = (Listed(list) \ {list[i]}) \union {d}
           /\ DistinctIDs([list EXCEPT ![i] = d])
           /\ [list EXCEPT ![i] = d] \in Seq(Record)
  <1> DEFINE new == [list EXCEPT ![i] = d]
  <1>1. /\ DOMAIN new = DOMAIN list
        /\ new[i] = d
        /\ \A j \in DOMAIN list : j # i => new[j] = list[j]
        /\ new \in Seq(Record)
    OBVIOUS
  <1> HIDE DEF new
  <1>2. \A j \in DOMAIN list : j # i => list[j] # list[i]
    BY DEF DistinctIDs
  <1>3. Listed(new) = (Listed(list) \ {list[i]}) \union {d}
    BY <1>1, <1>2 DEF Listed
  <1>4. \A j \in DOMAIN new : new[j].id = list[j].id
    BY <1>1
  <1>5. DistinctIDs(new)
    BY <1>1, <1>4 DEF DistinctIDs
  <1>6. QED
    BY <1>1, <1>3, <1>5 DEF new

\* slices.Delete takes one record out, and leaves a zeroed one in the array.
LEMMA DeleteLists ==
    ASSUME NEW list \in Seq(Record), DistinctIDs(list), NEW i \in DOMAIN list,
           list[i].id # NoID
    PROVE  /\ Listed(Deleted(list, i)) = Listed(list) \ {list[i]}
           /\ DistinctIDs(Deleted(list, i))
           /\ ZeroRecord \in Listed(Shifted(list, i))
           /\ DistinctIDs(Shifted(list, i))
  <1> DEFINE new == Deleted(list, i)
             left == Shifted(list, i)
             k == Len(list)
  <1>1. k \in Nat /\ DOMAIN list = 1 .. k /\ i \in 1 .. k
    OBVIOUS
  <1>2. /\ DOMAIN new = 1 .. (k - 1)
        /\ \A j \in 1 .. (k - 1) : new[j] = IF j < i THEN list[j] ELSE list[j + 1]
    BY DEF Deleted
  <1>3. /\ DOMAIN left = 1 .. k
        /\ \A j \in 1 .. (k - 1) : left[j] = IF j < i THEN list[j] ELSE list[j + 1]
        /\ left[k] = ZeroRecord
    BY <1>1 DEF Shifted
  <1> HIDE DEF new, left, k
  <1>4. ASSUME NEW j \in 1 .. (k - 1)
        PROVE  \E h \in DOMAIN list : h # i /\ h = (IF j < i THEN j ELSE j + 1)
    BY <1>1
  <1>5. ASSUME NEW h \in DOMAIN list, h # i
        PROVE  \E j \in 1 .. (k - 1) : h = (IF j < i THEN j ELSE j + 1)
    <2>1. CASE h < i
      BY <1>1, <2>1
    <2>2. CASE h > i
      <3>1. h - 1 \in 1 .. (k - 1) /\ ~(h - 1 < i) /\ h = (h - 1) + 1
        BY <1>1, <2>2
      <3>2. QED
        BY <3>1
    <2>3. QED
      BY <1>1, <1>5, <2>1, <2>2
  <1>6. \A h \in DOMAIN list : h # i => list[h] # list[i]
    BY DEF DistinctIDs
  <1>7. Listed(new) = Listed(list) \ {list[i]}
    <2>1. ASSUME NEW j \in DOMAIN new
          PROVE  \E h \in DOMAIN list : h # i /\ new[j] = list[h]
      BY <1>2, <1>4
    <2>2. ASSUME NEW h \in DOMAIN list, h # i
          PROVE  \E j \in DOMAIN new : new[j] = list[h]
      BY <1>2, <1>5, <2>2
    <2>3. QED
      BY <1>6, <2>1, <2>2 DEF Listed
  <1>8. ASSUME NEW a \in 1 .. (k - 1), NEW b \in 1 .. (k - 1),
               NEW f, \A j \in 1 .. (k - 1) : f[j] = (IF j < i THEN list[j] ELSE list[j + 1]),
               f[a].id = f[b].id, f[a].id # NoID
        PROVE  a = b
    <2>1. PICK g \in DOMAIN list : g # i /\ g = (IF a < i THEN a ELSE a + 1)
      BY <1>4
    <2>2. PICK h \in DOMAIN list : h # i /\ h = (IF b < i THEN b ELSE b + 1)
      BY <1>4
    <2>3. f[a] = list[g] /\ f[b] = list[h]
      BY <1>8, <2>1, <2>2
    <2>4. g = h
      BY <1>8, <2>3 DEF DistinctIDs
    <2>5. QED
      BY <1>1, <2>1, <2>2, <2>4
  <1>9. DistinctIDs(new)
    BY <1>2, <1>8 DEF DistinctIDs
  <1>10. DistinctIDs(left)
    <2>1. ASSUME NEW a \in DOMAIN left, NEW b \in DOMAIN left,
                 left[a].id = left[b].id, left[a].id # NoID
          PROVE  a = b
      <3>1. a # k /\ b # k
        BY <1>3, <2>1 DEF ZeroRecord
      <3>2. a \in 1 .. (k - 1) /\ b \in 1 .. (k - 1)
        BY <1>1, <1>3, <3>1
      <3>3. QED
        BY <1>3, <1>8, <2>1, <3>2
    <2>2. QED
      BY <2>1 DEF DistinctIDs
  <1>11. ZeroRecord \in Listed(left)
    BY <1>1, <1>3 DEF Listed
  <1>12. QED
    BY <1>7, <1>9, <1>10, <1>11 DEF new, left

\* A list that validates is sound, and holds no zeroed record.
LEMMA ValidIsSound ==
    ASSUME NEW list, Valid(list)
    PROVE  Registry!Sound(Listed(list)) /\ ZeroRecord \notin Listed(list)
  <1>1. Registry!Sound(Listed(list))
    BY DEF Registry!Sound, Listed, Valid, ValidRecord
  <1>2. ZeroRecord \notin Listed(list)
    BY FileStoreAssumption DEF Listed, Valid, ValidRecord, ZeroRecord
  <1>3. QED
    BY <1>1, <1>2

\* The view that is made from a list shows its records.
LEMMA ViewConfigures ==
    ASSUME NEW list \in Seq(Record), view' = DestinationsFromStore(list)
    PROVE  Configured' = Listed(list)
  <1>1. DOMAIN view' = DOMAIN list
    BY DEF DestinationsFromStore
  <1>2. ASSUME NEW i \in DOMAIN list
        PROVE  [id |-> view'[i].id, name |-> view'[i].name, url |-> view'[i].url] = list[i]
    <2>1. view'[i].id = list[i].id /\ view'[i].name = list[i].name /\ view'[i].url = list[i].url
      BY DEF DestinationsFromStore
    <2>2. list[i] \in Record
      BY SeqEntries
    <2>3. QED
      BY <2>1, <2>2 DEF Record
  <1>3. QED
    BY <1>1, <1>2 DEF Configured, Listed

\* What handleCommand gives to Set is what the registry is asked for, unless
\* the store holds a zeroed record, with which nothing validates.
AsksFor(cmd, id, new) ==
    /\ Unspoilt => Registry!Asks(cmd, id, Listed(new))
    /\ ~Unspoilt => ZeroRecord \in Listed(new)

\* ... and what it leaves in the store is the list before or after an edit, or
\* one that is spoilt.
Leaves(cmd, new, edited) ==
    \/ edited = mem
    \/ ~Unspoilt /\ ZeroRecord \in Listed(edited)
    \/ cmd = "update" /\ edited = new /\ (Unspoilt => ZeroRecord \notin Listed(new))
    \/ cmd \in Registry!Removals /\ ZeroRecord \in Listed(edited)

\* Set, as the registry sees it.
LEMMA SetIsRegistered ==
    ASSUME up, intact \in BOOLEAN, NEW new \in Seq(Record), NEW edited, NEW cmd, NEW id,
           AsksFor(cmd, id, new), Leaves(cmd, new, edited),
           SetAndReply(new, edited, cmd, id)
    PROVE  Registry!Succeeds(cmd, id) \/ Registry!Fails(cmd, id)
  <1>1. CASE SetStores(new) /\ view' = DestinationsFromStore(new)
             /\ Reply(cmd, id, "ok") /\ UNCHANGED up
    <2>1. Registry!Sound(Listed(new)) /\ ZeroRecord \notin Listed(new)
      BY <1>1, ValidIsSound DEF SetStores
    <2>2. Unspoilt /\ Registry!Asks(cmd, id, Listed(new))
      BY <2>1 DEF AsksFor
    <2>3. Listed(disk)' = Listed(new) /\ Listed(mem)' = Listed(new) /\ intact' = TRUE
      BY <1>1 DEF SetStores, Listed
    <2>4. Unspoilt'
      BY <2>1, <2>3 DEF Unspoilt
    <2>5. Configured' = Listed(new)
      BY <1>1, ViewConfigures
    <2>6. reply' = [cmd |-> cmd, id |-> id, result |-> "ok"] /\ up' = up
      BY <1>1 DEF Reply
    <2>7. Registry!Answered(cmd, id, TRUE)
      BY <2>6 DEF Registry!Answered
    <2>8. QED
      BY <2>1, <2>2, <2>3, <2>4, <2>5, <2>6, <2>7 DEF Registry!Succeeds
  <1>2. CASE \/ SetRejects(new, edited) /\ Reply(cmd, id, "validation failed") /\ UNCHANGED <<up, view>>
             \/ SetFails(new, edited) /\ Reply(cmd, id, "write failed") /\ UNCHANGED <<up, view>>
    <2>1. mem' = edited /\ up' = up /\ view' = view
      BY <1>2 DEF SetRejects, SetFails
    <2>2. Configured' = Configured /\ Listed(mem)' = Listed(edited)
      BY <2>1 DEF Listed, Configured
    <2>0. \/ Listed(disk)' = Listed(disk) /\ intact' \in {intact, FALSE}
          \/ /\ Unspoilt /\ Registry!Asks(cmd, id, Listed(disk)')
             /\ Registry!Sound(Listed(disk)') /\ intact' = TRUE
      <3>1. CASE disk' = disk /\ intact' \in {intact, FALSE}
        BY <3>1 DEF Listed
      <3>2. CASE Valid(new) /\ disk' = new /\ intact' = TRUE
        <4>1. Registry!Sound(Listed(new)) /\ ZeroRecord \notin Listed(new)
          BY <3>2, ValidIsSound
        <4>2. Listed(disk)' = Listed(new)
          BY <3>2 DEF Listed
        <4>3. QED
          BY <3>2, <4>1, <4>2 DEF AsksFor
      <3>3. QED
        BY <1>2, <3>1, <3>2 DEF SetRejects, SetFails
    <2>3. PICK result : result # "ok" /\ reply' = [cmd |-> cmd, id |-> id, result |-> result]
      BY <1>2 DEF Reply
    <2>4. Registry!Answered(cmd, id, FALSE)
      BY <2>3 DEF Registry!Answered
    <2>5. Unspoilt \in BOOLEAN /\ Unspoilt' \in BOOLEAN
      BY DEF Unspoilt
    <2>6. CASE Unspoilt' = Unspoilt /\ (Unspoilt => Listed(edited) = Listed(mem))
      BY <2>0, <2>1, <2>2, <2>4, <2>6 DEF Registry!Fails
    <2>7. CASE Unspoilt /\ cmd = "update" /\ edited = new /\ ZeroRecord \notin Listed(new)
      <3>1. Unspoilt'
        BY <2>2, <2>7 DEF Unspoilt
      <3>2. QED
        BY <2>0, <2>1, <2>2, <2>4, <2>7, <3>1 DEF Registry!Fails, AsksFor
    <2>8. CASE Unspoilt /\ cmd \in Registry!Removals /\ ZeroRecord \in Listed(edited)
      <3>1. Unspoilt' = FALSE
        BY <2>2, <2>8 DEF Unspoilt
      <3>2. QED
        BY <2>0, <2>1, <2>2, <2>4, <2>8, <3>1 DEF Registry!Fails
    <2>9. CASE ~Unspoilt /\ ZeroRecord \in Listed(edited)
      <3>1. ~Unspoilt'
        BY <2>2, <2>9 DEF Unspoilt
      <3>2. QED
        BY <2>5, <2>6, <2>9, <3>1
    <2>10. CASE edited = mem
      <3>1. Unspoilt' = Unspoilt
        BY <2>2, <2>10 DEF Unspoilt
      <3>2. QED
        BY <2>6, <2>10, <3>1
    <2>11. CASE ~Unspoilt /\ edited = new
      BY <2>9, <2>11 DEF AsksFor
    <2>12. QED
      BY <2>7, <2>8, <2>9, <2>10, <2>11 DEF Leaves
  <1>3. QED
    BY <1>1, <1>2 DEF SetAndReply

\* A server that dies in Set may have stored the list it was given.
LEMMA DyingIsRegistered ==
    ASSUME up, intact \in BOOLEAN, NEW new \in Seq(Record),
           NEW cmd \in Registry!Changes, NEW id \in IDs,
           AsksFor(cmd, id, new), DiesInSet(new)
    PROVE  Registry!Ends
  <1>1. Registry!Sound(Listed(new)) /\ ZeroRecord \notin Listed(new)
    BY ValidIsSound DEF DiesInSet, SetDies
  <1>2. Unspoilt /\ Registry!Asks(cmd, id, Listed(new))
    BY <1>1 DEF AsksFor
  <1>3. ~up' /\ mem' = << >> /\ view' = << >>
    BY DEF DiesInSet, SetDies
  <1>4. Unspoilt' /\ Listed(mem)' = {} /\ Configured' = {}
    BY <1>3 DEF Unspoilt, Listed, Configured
  <1>5. Registry!Unasked
    BY DEF DiesInSet, NoReply, Registry!Unasked, Registry!Answered
  <1>6. \/ Listed(disk)' = Listed(disk) /\ intact' \in {intact, FALSE}
        \/ Listed(disk)' = Listed(new) /\ intact' = TRUE
    BY DEF DiesInSet, SetDies, Listed
  <1>7. QED
    BY <1>1, <1>2, <1>3, <1>4, <1>5, <1>6 DEF Registry!Ends

\* Whatever becomes of Set, the IDs it may leave in memory or in the file are
\* those of the lists it is given.
LEMMA SetKeepsDistinct ==
    ASSUME Distinct, NEW new, NEW edited, NEW cmd, NEW id,
           DistinctIDs(new), DistinctIDs(edited),
           SetAndReply(new, edited, cmd, id) \/ DiesInSet(new)
    PROVE  Distinct'
  <1>1. (mem' = new \/ mem' = edited \/ mem' = << >>) /\ (disk' = disk \/ disk' = new)
    BY DEF SetAndReply, SetStores, SetRejects, SetFails, DiesInSet, SetDies
  <1>2. DistinctIDs(<< >>)
    BY DEF DistinctIDs
  <1>3. QED
    BY <1>1, <1>2 DEF Distinct, DistinctIDs

\* A command that is turned down changes nothing the registry keeps.
LEMMA RefusalIsRegistered ==
    ASSUME up, NEW cmd, NEW id \in IDs, NEW result, result # "ok", Refuse(cmd, id, result)
    PROVE  Registry!Fails(cmd, id)
  <1>1. UNCHANGED <<disk, intact, mem, up, view>> /\ reply' = [cmd |-> cmd, id |-> id, result |-> result]
    BY DEF Refuse, Reply, storeVars
  <1>2. UNCHANGED <<Listed(disk), Listed(mem), Unspoilt, Configured>>
    BY <1>1 DEF Listed, Unspoilt, Configured
  <1>3. QED
    BY <1>1, <1>2 DEF Registry!Fails, Registry!Answered

LEMMA AddIsRegistered ==
    ASSUME IndInv, Distinct, NEW name \in Names \union {NoName},
           NEW url \in URLs \union {BadURL}, AddDestination(name, url)
    PROVE  Distinct' /\ Registry!Next
  <1>1. PICK id \in IDs :
          /\ Fresh(id)
          /\ LET new == Append(mem, [id |-> id, name |-> name, url |-> url]) IN
               SetAndReply(new, mem, "add", id) \/ DiesInSet(new)
    BY DEF AddDestination
  <1> DEFINE d == [id |-> id, name |-> name, url |-> url]
             new == Append(mem, d)
  <1>2. up /\ intact \in BOOLEAN /\ mem \in Seq(Record) /\ d \in Record /\ d.id = id
    BY DEF AddDestination, IndInv, TypeOK, StoreTypeOK, Record
  <1>3. /\ new \in Seq(Record)
        /\ Listed(new) = Listed(mem) \union {d}
        /\ DistinctIDs(new)
    BY <1>1, <1>2, AppendLists DEF Fresh, Distinct
  <1>4. d \in Registry!Destination(id)
    BY DEF Registry!Destination
  <1>5. {r \in Listed(mem) : r.id = id} = {} /\ \A r \in Listed(disk) : r.id # id
    BY <1>1 DEF Fresh, NotFound, Listed
  <1> HIDE DEF d, new
  <1>6. AsksFor("add", id, new) /\ Leaves("add", new, mem)
    <2>1. Unspoilt => Registry!Asks("add", id, Listed(new))
      BY <1>3, <1>4, <1>5 DEF Registry!Asks
    <2>2. ~Unspoilt => ZeroRecord \in Listed(new)
      BY <1>3 DEF Unspoilt
    <2>3. QED
      BY <2>1, <2>2 DEF AsksFor, Leaves
  <1>7. "add" \in Registry!Changes
    BY DEF Registry!Changes
  <1>8. SetAndReply(new, mem, "add", id) \/ DiesInSet(new)
    BY <1>1 DEF d, new
  <1>9. Registry!Next
    BY <1>1, <1>2, <1>3, <1>6, <1>7, <1>8, SetIsRegistered, DyingIsRegistered DEF Registry!Next
  <1>10. Distinct'
    BY <1>3, <1>8, SetKeepsDistinct DEF Distinct
  <1>11. QED
    BY <1>9, <1>10

\* What FoundAt finds is the only record of its ID, and not a zeroed one.
LEMMA FoundIsOnly ==
    ASSUME IndInv, Distinct, NEW id \in IDs, NEW i \in DOMAIN mem, FoundAt(mem, id, i)
    PROVE  /\ mem \in Seq(Record) /\ DistinctIDs(mem)
           /\ mem[i].id = id /\ id # NoID
           /\ {r \in Listed(mem) : r.id = id} = {mem[i]}
           /\ mem[i] # ZeroRecord
  <1>1. mem \in Seq(Record) /\ DistinctIDs(mem) /\ mem[i].id = id /\ id # NoID
    BY FileStoreAssumption DEF IndInv, TypeOK, StoreTypeOK, Distinct, FoundAt
  <1>2. {r \in Listed(mem) : r.id = id} = {mem[i]}
    BY <1>1, OneBearer
  <1>3. mem[i] # ZeroRecord
    BY <1>1 DEF ZeroRecord
  <1>4. QED
    BY <1>1, <1>2, <1>3

LEMMA UpdateIsRegistered ==
    ASSUME IndInv, Distinct, NEW id \in IDs, NEW name \in Names \union {NoName},
           NEW url \in URLs \union {BadURL}, UpdateDestination(id, name, url)
    PROVE  Distinct' /\ Registry!Next
  <1>0. up /\ intact \in BOOLEAN /\ "update" \in Registry!Changes
    BY DEF UpdateDestination, IndInv, TypeOK, StoreTypeOK, Registry!Changes
  <1>1. CASE Refuse("update", id, "live") \/ Refuse("update", id, "not found")
    <2>1. Registry!Fails("update", id)
      BY <1>0, <1>1, RefusalIsRegistered
    <2>2. Distinct'
      BY <1>1 DEF Refuse, storeVars, Distinct, DistinctIDs
    <2>3. QED
      BY <1>0, <2>1, <2>2 DEF Registry!Next
  <1>2. CASE \E i \in DOMAIN mem :
              /\ FoundAt(mem, id, i)
              /\ LET new == [mem EXCEPT ![i] = [id |-> id, name |-> name, url |-> url]] IN
                  SetAndReply(new, new, "update", id) \/ DiesInSet(new)
    <2>1. PICK i \in DOMAIN mem :
              /\ FoundAt(mem, id, i)
              /\ LET new == [mem EXCEPT ![i] = [id |-> id, name |-> name, url |-> url]] IN
                  SetAndReply(new, new, "update", id) \/ DiesInSet(new)
      BY <1>2
    <2> DEFINE d == [id |-> id, name |-> name, url |-> url]
               new == [mem EXCEPT ![i] = d]
    <2>2. /\ mem \in Seq(Record) /\ DistinctIDs(mem)
          /\ mem[i].id = id /\ id # NoID
          /\ {r \in Listed(mem) : r.id = id} = {mem[i]}
          /\ mem[i] # ZeroRecord
      BY <2>1, FoundIsOnly
    <2>3. d \in Record /\ d.id = id /\ d # ZeroRecord /\ d \in Registry!Destination(id)
      BY <2>2 DEF Record, ZeroRecord, Registry!Destination
    <2> HIDE DEF d
    <2>4. Listed(new) = (Listed(mem) \ {mem[i]}) \union {d} /\ DistinctIDs(new) /\ new \in Seq(Record)
      BY <2>2, <2>3, AssignmentLists
    <2>5. SetAndReply(new, new, "update", id) \/ DiesInSet(new)
      BY <2>1 DEF d
    <2> HIDE DEF new
    <2>6. AsksFor("update", id, new)
      <3>1. Unspoilt => Registry!Asks("update", id, Listed(new))
        BY <2>2, <2>3, <2>4 DEF Registry!Asks
      <3>2. ~Unspoilt => ZeroRecord \in Listed(new)
        BY <2>2, <2>4 DEF Unspoilt
      <3>3. QED
        BY <3>1, <3>2 DEF AsksFor
    <2>7. Leaves("update", new, new)
      <3>1. Unspoilt => ZeroRecord \notin Listed(new)
        BY <2>3, <2>4 DEF Unspoilt
      <3>2. QED
        BY <3>1 DEF Leaves
    <2>8. Registry!Next
      BY <1>0, <2>4, <2>5, <2>6, <2>7, SetIsRegistered, DyingIsRegistered DEF Registry!Next
    <2>9. Distinct'
      BY <2>4, <2>5, SetKeepsDistinct
    <2>10. QED
      BY <2>8, <2>9
  <1>3. QED
    BY <1>1, <1>2 DEF UpdateDestination

LEMMA RemoveIsRegistered ==
    ASSUME IndInv, Distinct, NEW id \in IDs, NEW force \in BOOLEAN, RemoveDestination(id, force)
    PROVE  Distinct' /\ Registry!Next
  <1> DEFINE cmd == IF force THEN "remove --force" ELSE "remove"
  <1>0. up /\ intact \in BOOLEAN /\ cmd \in Registry!Changes /\ cmd \in Registry!Removals
    BY DEF RemoveDestination, IndInv, TypeOK, StoreTypeOK, Registry!Changes, Registry!Removals
  <1>1. \/ Refuse(cmd, id, "live") \/ Refuse(cmd, id, "not found")
        \/ \E i \in DOMAIN mem :
             /\ FoundAt(mem, id, i)
             /\ \/ SetAndReply(Deleted(mem, i), Shifted(mem, i), cmd, id)
                \/ DiesInSet(Deleted(mem, i))
    BY DEF RemoveDestination
  <1> HIDE DEF cmd
  <1>2. CASE Refuse(cmd, id, "live") \/ Refuse(cmd, id, "not found")
    <2>1. Registry!Fails(cmd, id)
      BY <1>0, <1>2, RefusalIsRegistered
    <2>2. Distinct'
      BY <1>2 DEF Refuse, storeVars, Distinct, DistinctIDs
    <2>3. QED
      BY <1>0, <2>1, <2>2 DEF Registry!Next
  <1>3. CASE \E i \in DOMAIN mem :
             /\ FoundAt(mem, id, i)
             /\ \/ SetAndReply(Deleted(mem, i), Shifted(mem, i), cmd, id)
                \/ DiesInSet(Deleted(mem, i))
    <2>1. PICK i \in DOMAIN mem :
             /\ FoundAt(mem, id, i)
             /\ \/ SetAndReply(Deleted(mem, i), Shifted(mem, i), cmd, id)
                \/ DiesInSet(Deleted(mem, i))
      BY <1>3
    <2> DEFINE new == Deleted(mem, i)
               left == Shifted(mem, i)
    <2>2. /\ mem \in Seq(Record) /\ DistinctIDs(mem)
          /\ mem[i].id = id /\ id # NoID
          /\ {r \in Listed(mem) : r.id = id} = {mem[i]}
          /\ mem[i] # ZeroRecord
      BY <2>1, FoundIsOnly
    <2>3. /\ new \in Seq(Record)
          /\ Listed(new) = Listed(mem) \ {mem[i]}
          /\ DistinctIDs(new) /\ DistinctIDs(left)
          /\ ZeroRecord \in Listed(left)
      BY <2>2, DeletedType, DeleteLists
    <2>4. SetAndReply(new, left, cmd, id) \/ DiesInSet(new)
      BY <2>1
    <2> HIDE DEF new, left
    <2>5. AsksFor(cmd, id, new)
      <3>1. Unspoilt => Registry!Asks(cmd, id, Listed(new))
        BY <1>0, <2>2, <2>3 DEF Registry!Asks
      <3>2. ~Unspoilt => ZeroRecord \in Listed(new)
        BY <2>2, <2>3 DEF Unspoilt
      <3>3. QED
        BY <3>1, <3>2 DEF AsksFor
    <2>6. Leaves(cmd, new, left)
      BY <1>0, <2>3 DEF Leaves
    <2>7. Registry!Next
      BY <1>0, <2>3, <2>4, <2>5, <2>6, SetIsRegistered, DyingIsRegistered DEF Registry!Next
    <2>8. Distinct'
      BY <2>3, <2>4, SetKeepsDistinct
    <2>9. QED
      BY <2>7, <2>8
  <1>4. QED
    BY <1>1, <1>2, <1>3

\* The other commands and what reaches the app loop by itself change neither
\* what is configured nor the store.
LEMMA OthersAreRegistered ==
    ASSUME IndInv, Distinct,
           \/ \E id \in IDs : StartDestination(id) \/ StopDestination(id)
           \/ \E url \in URLs, status \in Statuses : ApplyReplicatorState(url, status)
           \/ \E url \in URLs : StreamExits(url)
           \/ ApplyServerState
    PROVE  Distinct' /\ Registry!Others
  <1>1. UNCHANGED <<disk, intact, mem, up>>
    BY DEF StartDestination, StopDestination, Refuse, ApplyReplicatorState, StreamExits,
           ApplyServerState, storeVars
  <1>2. UNCHANGED <<Listed(disk), Listed(mem), Unspoilt>> /\ Distinct'
    BY <1>1 DEF Listed, Unspoilt, Distinct, DistinctIDs
  <1>3. Configured' = Configured
    <2>1. CASE view' = view
      BY <2>1 DEF Configured
    <2>2. CASE \E url \in URLs, status \in Statuses : ApplyReplicatorState(url, status)
      <3>1. view \in Seq(ViewRecord)
        BY DEF IndInv, TypeOK
      <3>2. PICK url \in URLs, status \in Statuses : ApplyReplicatorState(url, status)
        BY <2>2
      <3>3. /\ DOMAIN view' = DOMAIN view
            /\ \A i \in DOMAIN view : /\ view'[i].id = view[i].id
                                      /\ view'[i].name = view[i].name
                                      /\ view'[i].url = view[i].url
        BY <3>1, <3>2 DEF ApplyReplicatorState, ViewRecord
      <3>4. QED
        BY <3>3 DEF Configured
    <2>3. QED
      BY <2>1, <2>2 DEF StartDestination, StopDestination, Refuse, StreamExits, ApplyServerState
  <1>4. up
    BY DEF StartDestination, StopDestination, ApplyReplicatorState, StreamExits, ApplyServerState
  <1>5. reply'.cmd \in {"none", "start", "stop"} /\ reply'.id \in IDs \union {NoID}
    <2>1. CASE \E id \in IDs : StartDestination(id)
      <3>1. PICK id \in IDs : \E result : Reply("start", id, result)
        BY <2>1 DEF StartDestination, Refuse
      <3>2. QED
        BY <3>1 DEF Reply
    <2>2. CASE \E id \in IDs : StopDestination(id)
      <3>1. PICK id \in IDs : \E result : Reply("stop", id, result)
        BY <2>2 DEF StopDestination, Refuse
      <3>2. QED
        BY <3>1 DEF Reply
    <2>3. CASE reply' = NoReply
      BY <2>3 DEF NoReply
    <2>4. QED
      BY <2>1, <2>2, <2>3 DEF ApplyReplicatorState, StreamExits, ApplyServerState
  <1>6. QED
    BY <1>1, <1>2, <1>3, <1>4, <1>5 DEF Registry!Others

\* What a server that ends or starts does to the registry.
LEMMA EndIsRegistered ==
    ASSUME IndInv, Distinct, ProcessEnds
    PROVE  Distinct' /\ Registry!Ends
  <1>1. /\ up /\ ~up' /\ mem' = << >> /\ view' = << >>
        /\ UNCHANGED <<disk, intact>>
        /\ reply' = NoReply
    BY DEF ProcessEnds, StoreCloses
  <1>2. Unspoilt' = TRUE /\ Listed(mem)' = {} /\ Configured' = {} /\ Listed(disk)' = Listed(disk)
    BY <1>1 DEF Unspoilt, Listed, Configured
  <1>3. Registry!Unasked
    BY <1>1 DEF NoReply, Registry!Unasked, Registry!Answered
  <1>4. Distinct'
    BY <1>1 DEF Distinct, DistinctIDs
  <1>5. QED
    BY <1>1, <1>2, <1>3, <1>4 DEF Registry!Ends

LEMMA StartIsRegistered ==
    ASSUME IndInv, Distinct, ProcessStarts
    PROVE  Distinct' /\ Registry!Starts
  <1>1. /\ ~up /\ up' = TRUE /\ mem' = disk /\ intact /\ Valid(disk)
        /\ UNCHANGED <<disk, intact>>
        /\ view' = DestinationsFromStore(disk)
        /\ reply' = NoReply
    BY DEF ProcessStarts, StoreOpens
  <1>2. mem = << >>
    <2>1. mem \in Seq(Record) /\ view = << >> /\ Len(mem) = Len(view)
      BY <1>1 DEF IndInv, TypeOK, StoreTypeOK, Follows
    <2>2. QED
      BY <2>1
  <1>3. Unspoilt = TRUE
    BY <1>2 DEF Unspoilt, Listed
  <1>4. Listed(mem)' = Listed(disk) /\ Listed(disk)' = Listed(disk)
    BY <1>1 DEF Listed
  <1>5. Unspoilt' = TRUE
    BY <1>1, <1>4, ValidIsSound DEF Unspoilt
  <1>6. Configured' = Listed(disk)
    BY <1>1, ViewConfigures DEF IndInv, TypeOK, StoreTypeOK
  <1>7. Registry!Unasked
    BY <1>1 DEF NoReply, Registry!Unasked, Registry!Answered
  <1>8. Distinct'
    BY <1>1 DEF Distinct
  <1>9. QED
    BY <1>1, <1>3, <1>4, <1>5, <1>6, <1>7, <1>8 DEF Registry!Starts

\* Every step of the app loop is one of the registry, and keeps IDs apart.
LEMMA NextIsRegistered ==
    ASSUME Tame, IndInv, Distinct, [Next]_vars
    PROVE  Distinct' /\ [Registry!Next]_(Registry!vars)
  <1>0. Named \subseteq IDs
    BY NamedAssumption DEF Tame
  <1>1. CASE \E name \in Names \union {NoName}, url \in URLs \union {BadURL} : AddDestination(name, url)
    BY <1>1, AddIsRegistered
  <1>2. CASE \E id \in Named, name \in Names \union {NoName}, url \in URLs \union {BadURL} :
                UpdateDestination(id, name, url)
    BY <1>0, <1>2, UpdateIsRegistered
  <1>3. CASE \E id \in Named, force \in BOOLEAN : RemoveDestination(id, force)
    BY <1>0, <1>3, RemoveIsRegistered
  <1>4. CASE \/ \E id \in Named : StartDestination(id) \/ StopDestination(id)
             \/ \E url \in URLs, status \in Statuses : ApplyReplicatorState(url, status)
             \/ \E url \in URLs : StreamExits(url)
             \/ ApplyServerState
    BY <1>0, <1>4, OthersAreRegistered DEF Registry!Next
  <1>5. CASE ProcessEnds
    BY <1>5, EndIsRegistered DEF Registry!Next
  <1>6. CASE ProcessStarts
    BY <1>6, StartIsRegistered DEF Registry!Next
  <1>7. CASE UNCHANGED vars
    <2>1. UNCHANGED <<disk, intact, mem, up, view, reply>>
      BY <1>7 DEF vars, storeVars, appVars
    <2>2. QED
      BY <2>1 DEF Distinct, DistinctIDs, Registry!vars, Listed, Unspoilt, Configured
  <1>8. QED
    BY <1>1, <1>2, <1>3, <1>4, <1>5, <1>6, <1>7 DEF Next

\* The app loop implements the registry of DestinationRegistry.tla: whatever
\* failed before and wherever the lists of handleCommand point, a command that
\* succeeds changes its own destination, and one that fails changes nothing of
\* what clients see.  The commands are those that name no nil UUID.
THEOREM RefinesRegistry ==
    ASSUME NoID \notin Named
    PROVE  Spec => ImplementsRegistry
  <1>0. Tame
    BY DEF Tame
  <1>1. Init => Distinct /\ Registry!Init
    <2> SUFFICES ASSUME Init PROVE Distinct /\ Registry!Init
      OBVIOUS
    <2>1. /\ disk = << >> /\ intact = TRUE /\ mem = << >> /\ view = << >>
          /\ up = TRUE /\ reply = NoReply
      BY DEF Init, StoreInit
    <2>2. Listed(disk) = {} /\ Listed(mem) = {} /\ Configured = {} /\ Unspoilt = TRUE
      BY <2>1 DEF Listed, Configured, Unspoilt
    <2>3. Distinct
      BY <2>1 DEF Distinct, DistinctIDs
    <2>4. QED
      BY <2>1, <2>2, <2>3 DEF Registry!Init, NoReply
  <1>2. Distinct /\ IndInv /\ [Next]_vars => Distinct' /\ [Registry!Next]_(Registry!vars)
    BY <1>0, NextIsRegistered
  <1>3. QED
    BY <1>1, <1>2, Invariance, PTL DEF Spec, ImplementsRegistry, Registry!Spec
=============================================================================
