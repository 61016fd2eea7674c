------------------------------ MODULE FileStore ------------------------------
(***************************************************************************)
(* internal/store/filestore.go: the list of destinations, held in memory   *)
(* and in state.json.                                                      *)
(*                                                                         *)
(* Get returns a copy of a struct whose slice still points at the store's  *)
(* own array, so a caller that edits an element of what Get returned edits *)
(* the store.  Each operation below therefore takes two lists: `new', the  *)
(* value given to Set, and `edited', what the store's array has become by  *)
(* the time Set is called.                                                 *)
(***************************************************************************)
EXTENDS Naturals, Sequences

CONSTANTS
    IDs,        \* the UUIDs of destinations
    Names,      \* names that are not blank
    URLs,       \* URLs that validate accepts one by one
    BadURL,     \* a URL that validate rejects (parse, scheme or host)
    NoID, NoName, NoURL,   \* zero values; NoName also stands for a blank name
    MaxFaults   \* bound: how many writes of state.json may go wrong

ASSUME FileStoreAssumption ==
    /\ NoID \notin IDs
    /\ NoName \notin Names
    /\ BadURL \notin URLs
    /\ NoURL \notin URLs
    /\ MaxFaults \in Nat

VARIABLES
    disk,       \* the list last written completely to state.json
    intact,     \* FALSE when a write was cut short after truncating the file
    mem,        \* the list in FileStore.state
    faults      \* writes that went wrong so far

storeVars == <<disk, intact, mem, faults>>

Record == [id : IDs \union {NoID},
           name : Names \union {NoName},
           url : URLs \union {BadURL, NoURL}]

\* What slices.Delete leaves in the slots it frees.
ZeroRecord == [id |-> NoID, name |-> NoName, url |-> NoURL]

StoreTypeOK ==
    /\ disk \in Seq(Record)
    /\ intact \in BOOLEAN
    /\ mem \in Seq(Record)
    /\ faults \in 0 .. MaxFaults

-----------------------------------------------------------------------------

ValidRecord(d) == d.name \in Names /\ d.url \in URLs

\* validate: each record on its own, then no URL twice.
Valid(list) ==
    /\ \A i \in DOMAIN list : ValidRecord(list[i])
    /\ \A i, j \in DOMAIN list : list[i].url = list[j].url => i = j

\* slices.Delete(list, i, i+1), as the shorter slice it returns ...
Deleted(list, i) ==
    [j \in 1 .. (Len(list) - 1) |-> IF j < i THEN list[j] ELSE list[j + 1]]

\* Mutant of Shifted: slices.Delete as it was before Go 1.22, which leaves the
\* freed slot as it is.
ShiftedUncleared(list, i) ==
    [j \in 1 .. Len(list) |->
        IF j < i THEN list[j]
        ELSE IF j < Len(list) THEN list[j + 1] ELSE list[j]]

\* ... and as the array it leaves under every longer slice of it.
Shifted(list, i) ==
    [j \in 1 .. Len(list) |->
        IF j < i THEN list[j]
        ELSE IF j < Len(list) THEN list[j + 1] ELSE ZeroRecord]

-----------------------------------------------------------------------------
\* The outcomes of Set(new).

\* Mutant of SetStores: the list is not validated.
SetStoresUnvalidated(new) ==
    /\ disk' = new
    /\ intact' = TRUE
    /\ mem' = new
    /\ UNCHANGED faults

SetStores(new) ==
    /\ Valid(new)
    /\ disk' = new
    /\ intact' = TRUE
    /\ mem' = new
    /\ UNCHANGED faults

SetRejects(new, edited) ==
    /\ ~Valid(new)
    /\ mem' = edited
    /\ UNCHANGED <<disk, intact, faults>>

\* Mutant of SetFails: s.state is assigned before the file is written.
SetFailsLate(new, edited) ==
    /\ Valid(new)
    /\ faults < MaxFaults
    /\ faults' = faults + 1
    /\ mem' = new
    /\ intact' \in {intact, FALSE}
    /\ UNCHANGED disk

\* os.WriteFile fails: before it truncated the file, after, or at Close with
\* the whole list written.
SetFails(new, edited) ==
    /\ Valid(new)
    /\ faults < MaxFaults
    /\ faults' = faults + 1
    /\ mem' = edited
    /\ \/ UNCHANGED disk /\ intact' \in {intact, FALSE}
       \/ disk' = new /\ intact' = TRUE

\* The process dies inside os.WriteFile: nothing, a part or all was written.
SetDies(new) ==
    /\ Valid(new)
    /\ faults < MaxFaults
    /\ faults' = faults + 1
    /\ mem' = << >>
    /\ \/ UNCHANGED disk /\ intact' \in {intact, FALSE}
       \/ disk' = new /\ intact' = TRUE

-----------------------------------------------------------------------------
\* New on a path that does not exist: createFile writes an empty list.
StoreInit ==
    /\ disk = << >>
    /\ intact = TRUE
    /\ mem = << >>
    /\ faults = 0

\* New on an existing file: readFile, which fails unless the file is valid.
StoreOpens ==
    /\ intact
    /\ Valid(disk)
    /\ mem' = disk
    /\ UNCHANGED <<disk, intact, faults>>

\* The process ends outside Set: memory goes, the file stays.
StoreCloses ==
    /\ mem' = << >>
    /\ UNCHANGED <<disk, intact, faults>>

=============================================================================
