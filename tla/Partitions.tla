----------------------------- MODULE Partitions -----------------------------
(***************************************************************************)
(* The life of the monthly partitions of audit_logs                         *)
(* (central-service/partition_manager.py): a cycle lists the partitions     *)
(* whose data is old, archives each to an object of the cold store, drops   *)
(* each, and creates the partitions of the next three months.  Two triggers *)
(* start cycles in one process: the six-hourly loop and                     *)
(* POST /admin/partition-manage.  A cycle gives way to the other one at     *)
(* every await, both use the same temporary files and object keys, and      *)
(* events are inserted all the time.                                        *)
(*                                                                          *)
(* Three calls are written in a form the installed driver or the database   *)
(* may refuse; which of them are accepted is chosen once:                   *)
(*   "released"  a query on a connection that was given back to the pool    *)
(*   "cursor"    conn.cursor() without a query, and dictcursor()            *)
(*   "bounds"    CREATE TABLE with bounds that are not quoted               *)
(* asyncpg and PostgreSQL refuse all three; the repository's tests, which   *)
(* use a mock connection, accept all three.                                 *)
(***************************************************************************)
EXTENDS Integers, FiniteSets

CONSTANTS
    Events,        \* audit events that may be inserted
    Cycles,        \* the triggers: the loop, the admin endpoint
    AcceptSets,    \* possible sets of accepted calls
    MonthLength,   \* ticks in a month
    Retention,     \* ticks an event stays in the hot tier (AUDIT_TTL_DAYS)
    Initial,       \* months the migration creates, from month 0 on
    MaxTime, MaxFaults   \* bounds

Calls == {"released", "cursor", "bounds"}

NoTime == -1

ASSUME EventsAssumption == IsFiniteSet(Events)
ASSUME CallsAssumption == AcceptSets \subseteq SUBSET Calls
ASSUME TimeAssumption ==
    /\ MonthLength \in Nat \ {0} /\ Retention \in Nat /\ MaxTime \in Nat
    /\ Initial \in 0 .. (MaxTime \div MonthLength) + 4
    /\ MaxFaults \in Nat

VARIABLES
    now,       \* the clock, in ticks
    accepted,  \* the calls the driver and the database accept
    parts,     \* months that have a partition
    at,        \* at[e]: when e was inserted
    rows,      \* events in the table
    file,      \* file[m]: the temporary JSONL file of month m
    gz,        \* gz[m]: its compressed copy
    object,    \* object[m]: the archive object of month m
    counted,   \* counted[m]: row_count of the manifest of month m, 0 before there is one
    pc,        \* pc[c]: where cycle c waits
    listed,    \* listed[c]: the archivable months it found
    left,      \* left[c]: those the present loop has still to go through
    rest,      \* rest[c]: the rows its query has found
    linked,    \* cycles whose open file is the one at the path
    faults,
    mishaps    \* mishaps[m]: what went wrong while month m was in hand

disk == <<file, gz, linked>>
cold == <<object, counted>>
cycle == <<pc, listed, left, rest>>
vars == <<now, accepted, parts, at, rows, disk, cold, cycle, faults, mishaps>>

MonthOf(t) == t \div MonthLength
LastMonth == MonthOf(MaxTime) + 3
Months == 0 .. LastMonth

\* How often each event occurs in a file: never, once, or more often.
Lines == [Events -> 0 .. 2]
NoFile == [exists |-> FALSE, lines |-> [e \in Events |-> 0]]
NewFile == [NoFile EXCEPT !.exists = TRUE]
Files == [exists : BOOLEAN, lines : Lines]

WithRow(f, e) == [f EXCEPT !.lines[e] = IF @ = 0 THEN 1 ELSE 2]

Holds(f) == {e \in Events : f.lines[e] # 0}

Stored == {e \in Events : at[e] # NoTime}
InMonth(m) == {e \in Stored : MonthOf(at[e]) = m}
RowsOf(m) == rows \cap InMonth(m)

Least(S) == CHOOSE m \in S : \A n \in S : m <= n

(***************************************************************************)
(* A cycle has a month in hand from the moment it lists it until it has     *)
(* tried to drop it.                                                        *)
(***************************************************************************)
Archiving == {"archive", "export", "compress", "put", "manifest"}
Places == {"idle", "list", "drop", "create"} \cup Archiving

InHand(c) ==
    IF pc[c] \in Archiving THEN listed[c]
    ELSE IF pc[c] = "drop" THEN left[c] ELSE {}

(***************************************************************************)
(* What can go wrong while a month is in hand.                              *)
(*   "failed"   an attempt to archive it has failed                         *)
(*   "overlap"  two cycles had it in hand at once                           *)
(*   "late"     a row was inserted meanwhile                                *)
(*   "early"    it was listed in the course of the month itself             *)
(*   "crash"    the service stopped meanwhile                               *)
(***************************************************************************)
Kinds == {"failed", "overlap", "late", "early", "crash"}

TypeOK ==
    /\ now \in 0 .. MaxTime
    /\ accepted \in AcceptSets
    /\ parts \subseteq Months
    /\ at \in [Events -> {NoTime} \cup 0 .. MaxTime]
    /\ rows \subseteq Stored
    /\ \A e \in rows : MonthOf(at[e]) \in parts
    /\ file \in [Months -> Files] /\ gz \in [Months -> Files]
    /\ object \in [Months -> Files]
    /\ counted \in [Months -> Nat]
    /\ pc \in [Cycles -> Places]
    /\ listed \in [Cycles -> SUBSET Months] /\ left \in [Cycles -> SUBSET Months]
    /\ \A c \in Cycles : pc[c] \in Archiving \cup {"drop", "create"} => left[c] # {}
    /\ rest \in [Cycles -> SUBSET Events]
    /\ linked \subseteq Cycles
    /\ faults \in 0 .. MaxFaults
    /\ mishaps \in [Months -> SUBSET Kinds]

Init ==
    /\ now = 0
    /\ accepted \in AcceptSets
    /\ parts = 0 .. (Initial - 1)
    /\ at = [e \in Events |-> NoTime]
    /\ rows = {}
    /\ file = [m \in Months |-> NoFile] /\ gz = [m \in Months |-> NoFile]
    /\ object = [m \in Months |-> NoFile]
    /\ counted = [m \in Months |-> 0]
    /\ pc = [c \in Cycles |-> "idle"]
    /\ listed = [c \in Cycles |-> {}] /\ left = [c \in Cycles |-> {}]
    /\ rest = [c \in Cycles |-> {}]
    /\ linked = {}
    /\ faults = 0
    /\ mishaps = [m \in Months |-> {}]

----------------------------------------------------------------------------
(* The clock and the inserts, which need a partition of the present month. *)

Tick ==
    /\ now < MaxTime
    /\ now' = now + 1
    /\ UNCHANGED <<accepted, parts, at, rows, disk, cold, cycle, faults, mishaps>>

Held(m) == \E c \in Cycles : m \in InHand(c)

Insert(e) ==
    /\ at[e] = NoTime
    /\ MonthOf(now) \in parts
    /\ at' = [at EXCEPT ![e] = now]
    /\ rows' = rows \cup {e}
    /\ mishaps' = IF Held(MonthOf(now))
                  THEN [mishaps EXCEPT ![MonthOf(now)] = @ \cup {"late"}] ELSE mishaps
    /\ UNCHANGED <<now, accepted, parts, disk, cold, cycle, faults>>

----------------------------------------------------------------------------
(***************************************************************************)
(* The cycle.  A fault of the environment (database, disk, cold store) may  *)
(* end a step, and a stop or a crash of the service ends every cycle; both  *)
(* count as faults.                                                         *)
(***************************************************************************)

Fault == faults < MaxFaults /\ faults' = faults + 1

CycleFrame == UNCHANGED <<now, accepted, at>>

StartCycle(c) ==
    /\ pc[c] = "idle"
    /\ pc' = [pc EXCEPT ![c] = "list"]
    /\ CycleFrame
    /\ UNCHANGED <<parts, rows, disk, cold, listed, left, rest, faults, mishaps>>

\* A partition is archivable when its newest row is old; one without rows never is.
Archivable(m) ==
    /\ m \in parts
    /\ RowsOf(m) # {}
    /\ \A e \in RowsOf(m) : at[e] < now - Retention

\* The months after the present one, for `_generate_future_partitions(3)`.
Future == MonthOf(now) + 1 .. MonthOf(now) + 3

\* Mutant: the loop is entered although there is nothing to go through.
GoTo_NothingLeft(c, place, S) ==
    /\ pc' = [pc EXCEPT ![c] = place]
    /\ left' = [left EXCEPT ![c] = S]

\* Cycle c goes on with the loop over S, or with what follows when S is empty.
GoTo(c, place, S) ==
    /\ pc' = [pc EXCEPT ![c] = IF S = {} THEN "create" ELSE place]
    /\ left' = [left EXCEPT ![c] = IF S = {} THEN Future ELSE S]

Idle(c) ==
    /\ pc' = [pc EXCEPT ![c] = "idle"]
    /\ listed' = [listed EXCEPT ![c] = {}]
    /\ left' = [left EXCEPT ![c] = {}]
    /\ rest' = [rest EXCEPT ![c] = {}]

\* The months are looked up once; the check per month uses the released connection.
List(c) ==
    /\ pc[c] = "list"
    /\ parts # {} => "released" \in accepted
    /\ LET S == {m \in Months : Archivable(m)} IN
        /\ GoTo(c, "archive", S)
        /\ listed' = [listed EXCEPT ![c] = S]
        /\ mishaps' = [m \in Months |->
                mishaps[m] \cup {k \in {"overlap", "early"} :
                    m \in S /\ IF k = "overlap" THEN Held(m) ELSE m = MonthOf(now)}]
    /\ CycleFrame
    /\ UNCHANGED <<parts, rows, disk, cold, rest, faults>>

\* An exception here ends the whole cycle: nothing is created either.
ListFails(c) ==
    /\ pc[c] = "list"
    /\ \/ parts # {} /\ "released" \notin accepted /\ UNCHANGED faults
       \/ Fault
    /\ Idle(c)
    /\ CycleFrame
    /\ UNCHANGED <<parts, rows, disk, cold, mishaps>>

----------------------------------------------------------------------------
(* archive_partition: one month after the other, in the order of the names. *)

Month(c) == Least(left[c])

\* The loop of archives goes on with the next month, the loop of drops follows it.
NextArchive(c) ==
    LET S == left[c] \ {Month(c)} IN
    /\ pc' = [pc EXCEPT ![c] = IF S = {} THEN "drop" ELSE "archive"]
    /\ left' = [left EXCEPT ![c] = IF S = {} THEN listed[c] ELSE S]
    /\ rest' = [rest EXCEPT ![c] = {}]
    /\ linked' = linked \ {c}
    /\ UNCHANGED listed

\* Mutant: a month whose archive has failed is left out of the drops.
ArchiveFailed_NoDrop(c) ==
    /\ LET S == left[c] \ {Month(c)}  L == listed[c] \ {Month(c)} IN
        /\ listed' = [listed EXCEPT ![c] = L]
        /\ IF S = {} THEN GoTo(c, "drop", L)
           ELSE pc' = [pc EXCEPT ![c] = "archive"] /\ left' = [left EXCEPT ![c] = S]
    /\ rest' = [rest EXCEPT ![c] = {}]
    /\ linked' = linked \ {c}
    /\ mishaps' = [mishaps EXCEPT ![Month(c)] = @ \cup {"failed"}]

\* The exception is recorded among the cycle's errors, and the cycle goes on.
ArchiveFailed(c) ==
    /\ NextArchive(c)
    /\ mishaps' = [mishaps EXCEPT ![Month(c)] = @ \cup {"failed"}]

\* The file is opened in append mode and the rows are selected.
OpenFile(c) ==
    /\ pc[c] = "archive"
    /\ "cursor" \in accepted
    /\ file' = [file EXCEPT ![Month(c)].exists = TRUE]
    /\ rest' = [rest EXCEPT ![c] = RowsOf(Month(c))]
    /\ linked' = linked \cup {c}
    /\ pc' = [pc EXCEPT ![c] = "export"]
    /\ CycleFrame
    /\ UNCHANGED <<parts, rows, gz, cold, listed, left, faults, mishaps>>

CursorRefused(c) ==
    /\ pc[c] = "archive"
    /\ \/ "cursor" \notin accepted /\ UNCHANGED faults
       \/ Fault
    /\ ArchiveFailed(c)
    /\ CycleFrame
    /\ UNCHANGED <<parts, rows, file, gz, cold>>

\* One row after the other, the oldest first, goes to the open file, which may no
\* longer be the one at the path.
Oldest(S) == {e \in S : \A d \in S : at[e] <= at[d]}

WriteRow(c) ==
    /\ pc[c] = "export"
    /\ \E e \in Oldest(rest[c]) :
        /\ file' = IF c \in linked THEN [file EXCEPT ![Month(c)] = WithRow(@, e)] ELSE file
        /\ rest' = [rest EXCEPT ![c] = @ \ {e}]
    /\ CycleFrame
    /\ UNCHANGED <<parts, rows, gz, linked, cold, pc, listed, left, faults, mishaps>>

\* Mutant: the file is closed while rows are still to come.
CloseFile_TooSoon(c) ==
    /\ pc[c] = "export"
    /\ linked' = linked \ {c}
    /\ pc' = [pc EXCEPT ![c] = "compress"]
    /\ CycleFrame
    /\ UNCHANGED <<parts, rows, file, gz, cold, listed, left, rest, faults, mishaps>>

CloseFile(c) ==
    /\ pc[c] = "export"
    /\ rest[c] = {}
    /\ linked' = linked \ {c}
    /\ pc' = [pc EXCEPT ![c] = "compress"]
    /\ CycleFrame
    /\ UNCHANGED <<parts, rows, file, gz, cold, listed, left, rest, faults, mishaps>>

ExportFails(c) ==
    /\ pc[c] = "export"
    /\ Fault
    /\ ArchiveFailed(c)
    /\ CycleFrame
    /\ UNCHANGED <<parts, rows, file, gz, cold>>

Compress(c) ==
    /\ pc[c] = "compress"
    /\ file[Month(c)].exists
    /\ gz' = [gz EXCEPT ![Month(c)] = file[Month(c)]]
    /\ pc' = [pc EXCEPT ![c] = "put"]
    /\ CycleFrame
    /\ UNCHANGED <<parts, rows, file, linked, cold, listed, left, rest, faults, mishaps>>

CompressFails(c) ==
    /\ pc[c] = "compress"
    /\ \/ ~file[Month(c)].exists /\ UNCHANGED faults
       \/ Fault
    /\ ArchiveFailed(c)
    /\ CycleFrame
    /\ UNCHANGED <<parts, rows, file, gz, cold>>

\* fput_object writes the month's one object anew, whatever it held.
Put(c) ==
    /\ pc[c] = "put"
    /\ gz[Month(c)].exists
    /\ object' = [object EXCEPT ![Month(c)] = gz[Month(c)]]
    /\ gz' = [gz EXCEPT ![Month(c)] = NoFile]
    /\ pc' = [pc EXCEPT ![c] = "manifest"]
    /\ CycleFrame
    /\ UNCHANGED <<parts, rows, file, linked, counted, listed, left, rest, faults, mishaps>>

PutFails(c) ==
    /\ pc[c] = "put"
    /\ \/ ~gz[Month(c)].exists /\ UNCHANGED faults
       \/ Fault
    /\ ArchiveFailed(c)
    /\ CycleFrame
    /\ UNCHANGED <<parts, rows, file, gz, cold>>

\* Mutant: the manifest keeps the 0 it was built with.
RowCount_Zero(c) == 0

\* The rows are counted now, not when they were exported.
RowCount(c) == Cardinality(RowsOf(Month(c)))

\* Mutant: the temporary file stays.
RemoveFile_Keeps(c) == file' = file /\ linked' = linked \ {c}

RemoveFile(c) ==
    /\ file' = [file EXCEPT ![Month(c)] = NoFile]
    /\ linked' = {d \in linked \ {c} : Month(d) # Month(c)}

\* The manifest goes to one object per month.  Its key is the archive's prefix twice, since
\* the name that is put behind the prefix has it already; nothing in the code reads it.
Manifest(c) ==
    /\ pc[c] = "manifest"
    /\ file[Month(c)].exists
    /\ counted' = [counted EXCEPT ![Month(c)] = RowCount(c)]
    /\ RemoveFile(c)
    /\ LET S == left[c] \ {Month(c)} IN
        /\ pc' = [pc EXCEPT ![c] = IF S = {} THEN "drop" ELSE "archive"]
        /\ left' = [left EXCEPT ![c] = IF S = {} THEN listed[c] ELSE S]
    /\ rest' = [rest EXCEPT ![c] = {}]
    /\ CycleFrame
    /\ UNCHANGED <<parts, rows, gz, object, listed, faults, mishaps>>

\* Either the manifest is not written, or the file to remove is gone.
ManifestFails(c) ==
    /\ pc[c] = "manifest"
    /\ \/ ~file[Month(c)].exists /\ UNCHANGED faults
          /\ counted' = [counted EXCEPT ![Month(c)] = RowCount(c)]
       \/ Fault /\ UNCHANGED counted
    /\ ArchiveFailed(c)
    /\ CycleFrame
    /\ UNCHANGED <<parts, rows, file, gz, object>>

----------------------------------------------------------------------------
(* drop_partition and create_partition.                                     *)

\* Every listed month is dropped, also one whose archive has failed.
Drop(c) ==
    /\ pc[c] = "drop"
    /\ Month(c) \in parts
    /\ parts' = parts \ {Month(c)}
    /\ rows' = rows \ RowsOf(Month(c))
    /\ GoTo(c, "drop", left[c] \ {Month(c)})
    /\ CycleFrame
    /\ UNCHANGED <<disk, cold, listed, rest, faults, mishaps>>

DropFails(c) ==
    /\ pc[c] = "drop"
    /\ \/ Month(c) \notin parts /\ UNCHANGED faults
       \/ Fault
    /\ GoTo(c, "drop", left[c] \ {Month(c)})
    /\ CycleFrame
    /\ UNCHANGED <<parts, rows, disk, cold, listed, rest, mishaps>>

CreateNext(c) ==
    IF left[c] = {Month(c)} THEN Idle(c)
    ELSE /\ left' = [left EXCEPT ![c] = @ \ {Month(c)}]
         /\ UNCHANGED <<pc, listed, rest>>

Create(c) ==
    /\ pc[c] = "create"
    /\ Month(c) \in parts \/ "bounds" \in accepted
    /\ parts' = parts \cup {Month(c)}
    /\ CreateNext(c)
    /\ CycleFrame
    /\ UNCHANGED <<rows, disk, cold, faults, mishaps>>

CreateFails(c) ==
    /\ pc[c] = "create"
    /\ \/ Month(c) \notin parts /\ "bounds" \notin accepted /\ UNCHANGED faults
       \/ Fault
    /\ CreateNext(c)
    /\ CycleFrame
    /\ UNCHANGED <<parts, rows, disk, cold, mishaps>>

\* The service stops or dies: the cycles end where they are, the files stay.
Crash ==
    /\ Fault
    /\ \E c \in Cycles : pc[c] # "idle"
    /\ pc' = [c \in Cycles |-> "idle"]
    /\ listed' = [c \in Cycles |-> {}] /\ left' = [c \in Cycles |-> {}]
    /\ rest' = [c \in Cycles |-> {}]
    /\ linked' = {}
    /\ mishaps' = [m \in Months |-> IF Held(m) THEN mishaps[m] \cup {"crash"} ELSE mishaps[m]]
    /\ CycleFrame
    /\ UNCHANGED <<parts, rows, file, gz, cold>>

----------------------------------------------------------------------------
Archive(c) ==
    \/ OpenFile(c) \/ CursorRefused(c)
    \/ WriteRow(c) \/ CloseFile(c) \/ ExportFails(c)
    \/ Compress(c) \/ CompressFails(c) \/ Put(c) \/ PutFails(c)
    \/ Manifest(c) \/ ManifestFails(c)

Step(c) ==
    \/ List(c) \/ ListFails(c) \/ Archive(c)
    \/ Drop(c) \/ DropFails(c) \/ Create(c) \/ CreateFails(c)

Next ==
    \/ Tick \/ Crash
    \/ \E e \in Events : Insert(e)
    \/ \E c \in Cycles : StartCycle(c) \/ Step(c)

Spec == Init /\ [][Next]_vars

\* Time passes, a cycle that runs goes on, and the loop starts one every six hours.
CONSTANT Loop
ASSUME LoopAssumption == Loop \in Cycles

Fairness ==
    /\ WF_vars(Tick)
    /\ \A c \in Cycles : WF_vars(Step(c))
    /\ WF_vars(StartCycle(Loop))

FairSpec == Spec /\ Fairness

----------------------------------------------------------------------------
Clean(m, kinds) == mishaps[m] \cap kinds = {}

\* An event leaves the table for an object that holds it, unless an archive of its
\* month failed (the month is dropped all the same), two cycles had the month in hand
\* (the second archives an empty table over the object of the first), or a row came in
\* between the export and the drop, or after the month was archived in its course.
NothingLost ==
    \A e \in Stored :
        LET m == MonthOf(at[e]) IN
        Clean(m, {"failed", "overlap", "late", "early"}) =>
            e \in rows \/ e \in Holds(object[m])

\* An object holds a row twice only after an attempt that left its temporary file
\* behind, or two at once: the file is opened in append mode.
ArchivedOnce ==
    \A m \in Months : Clean(m, {"failed", "overlap", "crash"}) =>
        \A e \in Events : object[m].lines[e] <= 1

\* The manifest's row_count is taken after the upload, while inserts go on.  Once the
\* month has been dropped it never says less than the object holds, whatever rows came
\* late, unless an attempt failed, died or met another one; it says as much as the
\* object holds when none came late and the month was over.
ManifestAgrees ==
    \A m \in Months :
        LET held == Cardinality(Holds(object[m])) IN
        (object[m].exists /\ m \notin parts /\ Clean(m, {"failed", "overlap", "crash"})) =>
            /\ counted[m] >= held
            /\ Clean(m, {"late", "early"}) => counted[m] = held

\* The retention promise: a month whose rows are all old leaves the hot tier.
OldIsDropped ==
    \A m \in 0 .. MonthOf(MaxTime) :
        "released" \in accepted /\ Archivable(m) ~> m \notin parts
=============================================================================
