----------------------------- MODULE FuriRecord -----------------------------
(***************************************************************************)
(* The record registry of furi/core/record.c: services publish a pointer   *)
(* under a name, everybody else opens and closes it.                       *)
(*                                                                         *)
(* Everything between furi_record_lock and furi_record_unlock is one       *)
(* action.  furi_record_open is three: the locked section that counts the  *)
(* holder, the wait for FURI_RECORD_FLAG_READY, and the read of            *)
(* record_data->data.  The last two run without the lock, on a pointer     *)
(* into the dictionary obtained under it.                                  *)
(*                                                                         *)
(* A "holder" is one open..close bracket of some thread: a thread that     *)
(* opens a record twice is two holders, as it is for holders_count.        *)
(***************************************************************************)
EXTENDS Integers, FiniteSets

CONSTANTS
    Name,       \* record names
    Data,       \* pointers that furi_record_create can be given
    Holder,     \* open..close brackets
    NullData    \* the null pointer

ASSUME HolderFinite == IsFiniteSet(Holder)
ASSUME NullDataFresh == NullData \notin Data

VARIABLES
    records,        \* the names in the dictionary
    data,           \* FuriRecordData.data of each entry
    ready,          \* FURI_RECORD_FLAG_READY of each entry's event flag
    holders_count,  \* FuriRecordData.holders_count of each entry
    holder_pc,      \* where each bracket is
    name,           \* the record it is on
    pointer         \* what furi_record_open returned to it

dict == <<records, data, ready, holders_count>>
holding == <<holder_pc, name, pointer>>
record_vars == <<dict, holding>>

\* "waiting" is blocked in furi_event_flag_wait, "ready" is between its return
\* and the read of data, "open" is after furi_record_open returned.
RecordTypeOK ==
    /\ records \subseteq Name
    /\ data \in [Name -> Data \cup {NullData}]
    /\ ready \in [Name -> BOOLEAN]
    /\ holders_count \in [Name -> Nat]
    /\ holder_pc \in [Holder -> {"idle", "waiting", "ready", "open"}]
    /\ name \in [Holder -> Name]
    /\ pointer \in [Holder -> Data \cup {NullData}]

Holders(n) == {h \in Holder : holder_pc[h] # "idle" /\ name[h] = n}

\* furi_record_init.  The fields of an absent entry have the values that
\* furi_record_data_get_or_create gives a new one.
RecordInit ==
    /\ records = {}
    /\ data = [n \in Name |-> NullData]
    /\ ready = [n \in Name |-> FALSE]
    /\ holders_count = [n \in Name |-> 0]
    /\ holder_pc = [h \in Holder |-> "idle"]
    /\ name \in {[h \in Holder |-> n] : n \in Name}
    /\ pointer = [h \in Holder |-> NullData]

-----------------------------------------------------------------------------

\* furi_record_create.  A second create of a live record fails the furi_check
\* on data, which halts the device: the guard.
Create(n, d) ==
    /\ data[n] = NullData
    /\ records' = records \cup {n}
    /\ data' = [data EXCEPT ![n] = d]
    /\ ready' = [ready EXCEPT ![n] = TRUE]
    /\ UNCHANGED <<holders_count, holding>>

\* furi_record_erase, with the fields back at what a new entry gets.
Erase(n) ==
    /\ records' = records \ {n}
    /\ data' = [data EXCEPT ![n] = NullData]
    /\ ready' = [ready EXCEPT ![n] = FALSE]
    /\ holders_count' = [holders_count EXCEPT ![n] = 0]

\* Mutation of Destroy: the holders are not looked at.
DestroyHeld(n) ==
    /\ n \in records
    /\ Erase(n)
    /\ UNCHANGED holding

\* furi_record_destroy, returning true.  Any thread may call it; the code
\* compares no owner.  Returning false changes nothing.
Destroy(n) ==
    /\ n \in records
    /\ holders_count[n] = 0
    /\ Erase(n)
    /\ UNCHANGED holding

\* Mutation of Open: the holder is counted only when the record is ready.
OpenCountedLate(h, n) ==
    /\ holder_pc[h] = "idle"
    /\ records' = records \cup {n}
    /\ holders_count' = [holders_count EXCEPT ![n] = IF ready[n] THEN @ + 1 ELSE @]
    /\ holder_pc' = [holder_pc EXCEPT ![h] = "waiting"]
    /\ name' = [name EXCEPT ![h] = n]
    /\ UNCHANGED <<data, ready, pointer>>

\* furi_record_open, the locked section.
Open(h, n) ==
    /\ holder_pc[h] = "idle"
    /\ records' = records \cup {n}
    /\ holders_count' = [holders_count EXCEPT ![n] = @ + 1]
    /\ holder_pc' = [holder_pc EXCEPT ![h] = "waiting"]
    /\ name' = [name EXCEPT ![h] = n]
    /\ UNCHANGED <<data, ready, pointer>>

\* Mutation of OpenWaited: the result of the wait is not used.
OpenUnready(h) ==
    /\ holder_pc[h] = "waiting"
    /\ holder_pc' = [holder_pc EXCEPT ![h] = "ready"]
    /\ UNCHANGED <<dict, name, pointer>>

\* Mutation of OpenWaited: the wait clears the flag (no FuriFlagNoClear).
OpenClearsFlag(h) ==
    /\ holder_pc[h] = "waiting"
    /\ ready[name[h]]
    /\ holder_pc' = [holder_pc EXCEPT ![h] = "ready"]
    /\ ready' = [ready EXCEPT ![name[h]] = FALSE]
    /\ UNCHANGED <<records, data, holders_count, name, pointer>>

\* furi_record_open: furi_event_flag_wait returns, the flag is not cleared.
OpenWaited(h) ==
    /\ holder_pc[h] = "waiting"
    /\ ready[name[h]]
    /\ holder_pc' = [holder_pc EXCEPT ![h] = "ready"]
    /\ UNCHANGED <<dict, name, pointer>>

\* furi_record_open: return record_data->data.
OpenReturn(h) ==
    /\ holder_pc[h] = "ready"
    /\ holder_pc' = [holder_pc EXCEPT ![h] = "open"]
    /\ pointer' = [pointer EXCEPT ![h] = data[name[h]]]
    /\ UNCHANGED <<dict, name>>

\* furi_record_close, by the thread that opened.
Close(h) ==
    /\ holder_pc[h] = "open"
    /\ name[h] \in records
    /\ holders_count' = [holders_count EXCEPT ![name[h]] = @ - 1]
    /\ holder_pc' = [holder_pc EXCEPT ![h] = "idle"]
    /\ pointer' = [pointer EXCEPT ![h] = NullData]
    /\ UNCHANGED <<records, data, ready, name>>

RecordNext ==
    \/ \E n \in Name, d \in Data : Create(n, d)
    \/ \E n \in Name : Destroy(n)
    \/ \E h \in Holder, n \in Name : Open(h, n)
    \/ \E h \in Holder : OpenWaited(h) \/ OpenReturn(h) \/ Close(h)

RecordSpec == RecordInit /\ [][RecordNext]_record_vars

\* A thread that may run does: the scheduler is preemptive and none of these
\* steps blocks except on its guard.  Applications may keep a record open or
\* never create one, so Create, Destroy, Open and Close are not fair.
RecordFairness == \A h \in Holder : WF_record_vars(OpenWaited(h)) /\ WF_record_vars(OpenReturn(h))

RecordFairSpec == RecordSpec /\ RecordFairness

-----------------------------------------------------------------------------

\* holders_count of every entry is the number of brackets between the locked
\* section of furi_record_open and the one of furi_record_close, and a name
\* without an entry has none: no open or close is counted twice or lost, over
\* any interleaving with destroy and re-creation of the entry.
HoldersExact ==
    \A n \in Name :
        /\ holders_count[n] = Cardinality(Holders(n))
        /\ n \notin records => Holders(n) = {}

\* A pointer returned by furi_record_open and not yet closed is the one the
\* registry still holds under that name, however owners create and destroy.
HeldDataLive ==
    \A h \in Holder : holder_pc[h] = "open" =>
        /\ name[h] \in records
        /\ pointer[h] = data[name[h]]
        /\ pointer[h] # NullData

\* The unlocked half of furi_record_open works on memory that furi_record_erase
\* has not freed: while a thread waits on record_data->flags or is about to read
\* record_data->data the entry stays in the dictionary, and what it is about to
\* read is not NULL (record.h: FURI_RETURNS_NONNULL).
UnlockedAccessSafe ==
    \A h \in Holder :
        /\ holder_pc[h] \in {"waiting", "ready"} => name[h] \in records
        /\ holder_pc[h] = "ready" => data[name[h]] # NullData

\* Between open and close nobody works with an entry that has been erased, or
\* with a pointer that is not the registered one.
HeldSafe == HeldDataLive /\ UnlockedAccessSafe

\* furi_record_open returns once the record is created, whoever made the
\* dictionary entry first and however many others open it meanwhile.
OpenCompletes ==
    \A h \in Holder :
        (holder_pc[h] = "waiting" /\ data[name[h]] # NullData) ~> (holder_pc[h] = "open")

=============================================================================
