--------------------------- MODULE PartitionsProofs ---------------------------
(***************************************************************************)
(* What is true of the partition cycles for any number of events, cycles,   *)
(* months, faults and crashes.                                              *)
(***************************************************************************)
EXTENDS Partitions, TLAPS, FiniteSetTheorems, WellFoundedInduction

USE CallsAssumption, TimeAssumption, EventsAssumption

-----------------------------------------------------------------------------
(* Months and the clock *)

LEMMA MonthOfType == \A t \in Nat : MonthOf(t) \in Nat
BY DEF MonthOf

LEMMA MonthOfMonotone ==
    ASSUME NEW s \in Nat, NEW t \in Nat, s <= t
    PROVE  MonthOf(s) <= MonthOf(t)
<1> DEFINE q == s \div MonthLength  r == t \div MonthLength
<1>1. /\ q \in Nat /\ r \in Nat
      /\ MonthLength * q <= s
      /\ t < MonthLength * (r + 1)
  OBVIOUS
<1> HIDE DEF q, r
<1>2. ASSUME q > r PROVE FALSE
  <2>1. MonthLength * (r + 1) <= MonthLength * q
    BY <1>1, <1>2
  <2>2. MonthLength * (r + 1) \in Nat /\ MonthLength * q \in Nat
    BY <1>1
  <2>3. QED BY <1>1, <2>1, <2>2
<1>3. q <= r
  BY <1>1, <1>2
<1>4. QED BY <1>3 DEF MonthOf, q, r

LEMMA MonthsType ==
    /\ LastMonth \in Nat /\ Months \subseteq Nat
    /\ \A t \in 0 .. MaxTime : MonthOf(t) \in Months /\ MonthOf(t) + 3 \in Months
    /\ 0 .. (Initial - 1) \subseteq Months
<1>1. MonthOf(MaxTime) \in Nat /\ LastMonth = MonthOf(MaxTime) + 3
  BY MonthOfType DEF LastMonth
<1>2. \A t \in 0 .. MaxTime : MonthOf(t) \in Nat /\ MonthOf(t) <= MonthOf(MaxTime)
  BY MonthOfType, MonthOfMonotone
<1>3. Initial <= MonthOf(MaxTime) + 4
  BY <1>1 DEF MonthOf
<1>4. QED BY <1>1, <1>2, <1>3 DEF Months

LEMMA FutureMonths ==
    ASSUME now \in 0 .. MaxTime
    PROVE  Future \subseteq Months /\ Future # {}
<1>1. MonthOf(now) \in Nat /\ MonthOf(now) + 3 \in Months
  BY MonthOfType, MonthsType
<1>2. MonthOf(now) + 1 \in Future
  BY <1>1 DEF Future
<1>3. QED BY <1>1, <1>2, MonthsType DEF Future, Months

LEMMA LeastIn ==
    ASSUME NEW S, S \subseteq Months, S # {}
    PROVE  Least(S) \in S
<1>1. S \subseteq Nat
  BY MonthsType
<1>2. PICK m \in S : \A n \in S : ~(<<n, m>> \in OpToRel(<, Nat))
  BY <1>1, WFMin, NatLessThanWellFounded, Zenon
<1>3. \A n \in S : ~(n < m)
  BY <1>1, <1>2 DEF OpToRel
<1>4. \A n \in S : m <= n
  BY <1>1, <1>3
<1>5. QED BY <1>4 DEF Least

-----------------------------------------------------------------------------
(* Files *)

LEMMA FileTypes ==
    /\ NoFile \in Files
    /\ \A f \in Files, e \in Events :
          /\ WithRow(f, e) \in Files
          /\ Holds(WithRow(f, e)) = Holds(f) \cup {e}
    /\ \A f \in Files : [f EXCEPT !.exists = TRUE] \in Files
                         /\ Holds([f EXCEPT !.exists = TRUE]) = Holds(f)
<1>1. NoFile \in Files
  BY DEF NoFile, Files, Lines
<1>2. ASSUME NEW f \in Files, NEW e \in Events
      PROVE  WithRow(f, e) \in Files /\ Holds(WithRow(f, e)) = Holds(f) \cup {e}
  <2> DEFINE more == IF f.lines[e] = 0 THEN 1 ELSE 2
  <2>1. /\ WithRow(f, e) = [exists |-> f.exists, lines |-> [f.lines EXCEPT ![e] = more]]
        /\ f.lines \in [Events -> 0 .. 2] /\ f.exists \in BOOLEAN
    BY DEF WithRow, Files, Lines
  <2>2. [f.lines EXCEPT ![e] = more] \in [Events -> 0 .. 2]
    BY <2>1
  <2>3. QED BY <2>1, <2>2 DEF Files, Lines, Holds
<1>3. ASSUME NEW f \in Files
      PROVE  [f EXCEPT !.exists = TRUE] \in Files /\ Holds([f EXCEPT !.exists = TRUE]) = Holds(f)
  BY DEF Files, Holds
<1>4. QED BY <1>1, <1>2, <1>3

-----------------------------------------------------------------------------
(* How a step moves a cycle *)

CycleType ==
    /\ pc \in [Cycles -> Places]
    /\ listed \in [Cycles -> SUBSET Months] /\ left \in [Cycles -> SUBSET Months]
    /\ rest \in [Cycles -> SUBSET Events]
    /\ \A c \in Cycles : pc[c] \in Archiving \cup {"drop", "create"} => left[c] # {}
    /\ \A c \in Cycles : pc[c] \in Archiving => left[c] \subseteq listed[c]

TInv == TypeOK /\ CycleType

Moves(c, p, L, S, R) ==
    /\ pc' = [pc EXCEPT ![c] = p]
    /\ listed' = [listed EXCEPT ![c] = L]
    /\ left' = [left EXCEPT ![c] = S]
    /\ rest' = [rest EXCEPT ![c] = R]

Fits(p, L, S) ==
    /\ p \in Archiving \cup {"drop", "create"} => S # {}
    /\ p \in Archiving => S \subseteq L

LEMMA MovesType ==
    ASSUME CycleType, NEW c \in Cycles,
           NEW p \in Places, NEW L \in SUBSET Months, NEW S \in SUBSET Months,
           NEW R \in SUBSET Events, Fits(p, L, S), Moves(c, p, L, S, R)
    PROVE  /\ CycleType'
           /\ pc'[c] = p /\ listed'[c] = L /\ left'[c] = S /\ rest'[c] = R
           /\ \A d \in Cycles \ {c} :
                 /\ pc'[d] = pc[d] /\ listed'[d] = listed[d]
                 /\ left'[d] = left[d] /\ rest'[d] = rest[d]
BY DEF CycleType, Moves, Fits

\* A cycle with something before it has a month in hand, and it is a month.
LEMMA MonthIn ==
    ASSUME CycleType, NEW c \in Cycles, left[c] # {}
    PROVE  Month(c) \in left[c] /\ Month(c) \in Months
BY LeastIn DEF CycleType, Month

LEMMA PlacesFacts ==
    /\ Archiving \subseteq Places
    /\ {"idle", "list", "drop", "create"} \subseteq Places
    /\ \A p \in {"archive", "export", "compress", "put", "manifest"} : p \in Archiving
    /\ \A p \in {"idle", "list", "drop", "create"} : p \notin Archiving
BY DEF Archiving, Places

LEMMA RowsOfType == \A m \in Months : RowsOf(m) \subseteq Events
BY DEF RowsOf, InMonth, Stored

\* The places of one loop and the next.
LEMMA GoToMoves ==
    ASSUME TInv, NEW c \in Cycles, NEW place \in {"archive", "drop"}, NEW S \in SUBSET Months,
           GoTo(c, place, S)
    PROVE  \E p \in Places, T \in SUBSET Months :
              /\ pc' = [pc EXCEPT ![c] = p] /\ left' = [left EXCEPT ![c] = T]
              /\ p = "create" => T # {}
              /\ p # "create" => p = place /\ T = S /\ S # {}
<1>1. Future \subseteq Months /\ Future # {}
  BY FutureMonths DEF TInv, TypeOK
<1>2. CASE S = {}
  BY <1>1, <1>2 DEF GoTo, Places
<1>3. CASE S # {}
  BY <1>3 DEF GoTo, Places, Archiving
<1>4. QED BY <1>2, <1>3

LEMMA StepMoves ==
    ASSUME TInv, NEW c \in Cycles, StartCycle(c) \/ Step(c)
    PROVE  \E p \in Places, L \in SUBSET Months, S \in SUBSET Months, R \in SUBSET Events :
              Fits(p, L, S) /\ Moves(c, p, L, S, R)
<1> DEFINE Goal == \E p \in Places, L \in SUBSET Months, S \in SUBSET Months, R \in SUBSET Events :
                      Fits(p, L, S) /\ Moves(c, p, L, S, R)
<1> SUFFICES Goal
  OBVIOUS
<1> USE DEF TInv
<1>1. /\ pc = [pc EXCEPT ![c] = pc[c]] /\ pc[c] \in Places
      /\ listed = [listed EXCEPT ![c] = listed[c]] /\ listed[c] \in SUBSET Months
      /\ left = [left EXCEPT ![c] = left[c]] /\ left[c] \in SUBSET Months
      /\ rest = [rest EXCEPT ![c] = rest[c]] /\ rest[c] \in SUBSET Events
      /\ Fits(pc[c], listed[c], left[c])
  BY DEF CycleType, Fits
<1> HIDE DEF Goal
<1>2. CASE StartCycle(c)
  <2>1. Moves(c, "list", listed[c], left[c], rest[c])
    BY <1>1, <1>2 DEF StartCycle, Moves
  <2>2. Fits("list", listed[c], left[c])
    BY DEF Fits, Archiving
  <2>3. QED BY <1>1, <2>1, <2>2, PlacesFacts DEF Goal
<1>3. CASE List(c)
  <2> DEFINE A == {m \in Months : Archivable(m)}
  <2>1. GoTo(c, "archive", A) /\ listed' = [listed EXCEPT ![c] = A] /\ rest' = rest
    BY <1>3 DEF List
  <2>2. A \in SUBSET Months
    OBVIOUS
  <2> HIDE DEF A
  <2>3. PICK p \in Places, T \in SUBSET Months :
              /\ pc' = [pc EXCEPT ![c] = p] /\ left' = [left EXCEPT ![c] = T]
              /\ p = "create" => T # {}
              /\ p # "create" => p = "archive" /\ T = A /\ A # {}
    BY <2>1, <2>2, GoToMoves
  <2>4. Fits(p, A, T) /\ Moves(c, p, A, T, rest[c])
    BY <1>1, <2>1, <2>3 DEF Fits, Moves, Archiving
  <2>5. QED BY <1>1, <2>2, <2>4 DEF Goal
<1>4. CASE ListFails(c)
  <2>1. Moves(c, "idle", {}, {}, {})
    BY <1>4 DEF ListFails, Idle, Moves
  <2>2. QED BY <2>1, PlacesFacts DEF Goal, Fits
<1>5. CASE CursorRefused(c) \/ ExportFails(c) \/ CompressFails(c) \/ PutFails(c)
           \/ ManifestFails(c) \/ Manifest(c)
  <2> DEFINE S == left[c] \ {Month(c)}
             p == IF S = {} THEN "drop" ELSE "archive"
             T == IF S = {} THEN listed[c] ELSE S
  <2>1. pc' = [pc EXCEPT ![c] = p] /\ left' = [left EXCEPT ![c] = T]
        /\ rest' = [rest EXCEPT ![c] = {}] /\ listed' = listed
    BY <1>5 DEF CursorRefused, ExportFails, CompressFails, PutFails, ManifestFails, ArchiveFailed,
       NextArchive, Manifest
  <2>2. pc[c] \in Archiving
    BY <1>5 DEF CursorRefused, ExportFails, CompressFails, PutFails, ManifestFails, Manifest,
       Archiving
  <2>3. listed[c] # {} /\ left[c] \subseteq listed[c]
    BY <2>2 DEF CycleType
  <2>4. Fits(p, listed[c], T) /\ T \in SUBSET Months /\ p \in Places
    BY <1>1, <2>3, PlacesFacts DEF Fits
  <2> HIDE DEF S, p, T
  <2>5. Moves(c, p, listed[c], T, {})
    BY <1>1, <2>1 DEF Moves
  <2>6. QED BY <1>1, <2>4, <2>5 DEF Goal
<1>6. CASE OpenFile(c) \/ WriteRow(c) \/ CloseFile(c) \/ Compress(c) \/ Put(c)
  <2>1. /\ \E p \in Archiving : pc' = [pc EXCEPT ![c] = p]
        /\ pc[c] \in Archiving /\ left' = left /\ listed' = listed
    <3>1. CASE WriteRow(c)
      BY <1>1, <3>1 DEF WriteRow, Archiving
    <3>2. CASE OpenFile(c) \/ CloseFile(c) \/ Compress(c) \/ Put(c)
      BY <3>2 DEF OpenFile, CloseFile, Compress, Put, Archiving
    <3>3. QED BY <1>6, <3>1, <3>2
  <2>2. \E R \in SUBSET Events : rest' = [rest EXCEPT ![c] = R]
    <3>1. CASE OpenFile(c)
      <4>1. Month(c) \in Months
        BY <2>1, MonthIn DEF CycleType
      <4>2. QED BY <3>1, <4>1, RowsOfType DEF OpenFile
    <3>2. CASE WriteRow(c)
      BY <1>1, <3>2 DEF WriteRow
    <3>3. CASE CloseFile(c) \/ Compress(c) \/ Put(c)
      BY <1>1, <3>3 DEF CloseFile, Compress, Put
    <3>4. QED BY <1>6, <3>1, <3>2, <3>3
  <2>3. PICK p \in Archiving, R \in SUBSET Events : Moves(c, p, listed[c], left[c], R)
    BY <1>1, <2>1, <2>2 DEF Moves
  <2>4. Fits(p, listed[c], left[c])
    BY <1>1, <2>1 DEF Fits
  <2>5. QED BY <1>1, <2>3, <2>4, PlacesFacts DEF Goal
<1>7. CASE Drop(c) \/ DropFails(c)
  <2> DEFINE S == left[c] \ {Month(c)}
  <2>1. GoTo(c, "drop", S) /\ listed' = listed /\ rest' = rest
    BY <1>7 DEF Drop, DropFails
  <2>2. S \in SUBSET Months
    BY <1>1
  <2> HIDE DEF S
  <2>3. PICK p \in Places, T \in SUBSET Months :
              /\ pc' = [pc EXCEPT ![c] = p] /\ left' = [left EXCEPT ![c] = T]
              /\ p = "create" => T # {}
              /\ p # "create" => p = "drop" /\ T = S /\ S # {}
    BY <2>1, <2>2, GoToMoves
  <2>4. Fits(p, listed[c], T) /\ Moves(c, p, listed[c], T, rest[c])
    BY <1>1, <2>1, <2>3 DEF Fits, Moves, Archiving
  <2>5. QED BY <1>1, <2>4 DEF Goal
<1>8. CASE Create(c) \/ CreateFails(c)
  <2>1. CreateNext(c) /\ pc[c] = "create"
    BY <1>8 DEF Create, CreateFails
  <2>2. CASE left[c] = {Month(c)}
    <3>1. Moves(c, "idle", {}, {}, {})
      BY <2>1, <2>2 DEF CreateNext, Idle, Moves
    <3>2. QED BY <3>1, PlacesFacts DEF Goal, Fits
  <2>3. CASE left[c] # {Month(c)}
    <3>1. Moves(c, pc[c], listed[c], left[c] \ {Month(c)}, rest[c])
      BY <1>1, <2>1, <2>3 DEF CreateNext, Moves
    <3>2. left[c] \ {Month(c)} # {}
      BY <2>1, <2>3, MonthIn DEF CycleType
    <3>3. Fits(pc[c], listed[c], left[c] \ {Month(c)})
      BY <2>1, <3>2, PlacesFacts DEF Fits
    <3>4. left[c] \ {Month(c)} \in SUBSET Months
      BY <1>1
    <3>5. QED BY <1>1, <3>1, <3>3, <3>4 DEF Goal
  <2>4. QED BY <2>2, <2>3
<1>9. QED BY <1>2, <1>3, <1>4, <1>5, <1>6, <1>7, <1>8 DEF Step, Archive

-----------------------------------------------------------------------------
(* What a step of a cycle changes besides *)

\* Clock, inserts and the rest of the environment stand still; a mishap is never undone.
LEMMA StepFrame ==
    ASSUME TInv, NEW c \in Cycles, StartCycle(c) \/ Step(c)
    PROVE  /\ UNCHANGED <<now, accepted, at>>
           /\ faults' \in 0 .. MaxFaults
           /\ mishaps' \in [Months -> SUBSET Kinds]
           /\ \A m \in Months : mishaps[m] \subseteq mishaps'[m]
<1> USE DEF TInv
<1>1. UNCHANGED <<now, accepted, at>>
  BY DEF StartCycle, Step, List, ListFails, Archive, OpenFile, CursorRefused, WriteRow, CloseFile,
     ExportFails, Compress, CompressFails, Put, PutFails, Manifest, ManifestFails, Drop, DropFails,
     Create, CreateFails, CycleFrame
<1>2. faults' = faults \/ Fault
  BY DEF StartCycle, Step, List, ListFails, Archive, OpenFile, CursorRefused, WriteRow, CloseFile,
     ExportFails, Compress, CompressFails, Put, PutFails, Manifest, ManifestFails, Drop, DropFails,
     Create, CreateFails
<1>3. faults' \in 0 .. MaxFaults
  BY <1>2 DEF TypeOK, Fault
<1>4. /\ mishaps' \in [Months -> SUBSET Kinds]
      /\ \A m \in Months : mishaps[m] \subseteq mishaps'[m]
  <2>1. CASE List(c)
    <3> DEFINE new(m) == {k \in {"overlap", "early"} :
                             /\ m \in {n \in Months : Archivable(n)}
                             /\ IF k = "overlap" THEN Held(m) ELSE m = MonthOf(now)}
    <3>1. mishaps' = [m \in Months |-> mishaps[m] \cup new(m)]
      BY <2>1 DEF List
    <3>2. \A m \in Months : new(m) \subseteq Kinds
      BY DEF Kinds
    <3> HIDE DEF new
    <3>3. QED BY <3>1, <3>2 DEF TypeOK
  <2>2. CASE CursorRefused(c) \/ ExportFails(c) \/ CompressFails(c) \/ PutFails(c) \/ ManifestFails(c)
    <3>1. mishaps' = [mishaps EXCEPT ![Month(c)] = mishaps[Month(c)] \cup {"failed"}]
      BY <2>2 DEF CursorRefused, ExportFails, CompressFails, PutFails, ManifestFails, ArchiveFailed
    <3>2. QED BY <3>1 DEF TypeOK, Kinds
  <2>3. CASE mishaps' = mishaps
    BY <2>3 DEF TypeOK
  <2>4. List(c) \/ mishaps' = mishaps \/ CursorRefused(c) \/ ExportFails(c) \/ CompressFails(c)
        \/ PutFails(c) \/ ManifestFails(c)
    BY DEF StartCycle, Step, ListFails, Archive, OpenFile, WriteRow, CloseFile, Compress, Put,
       Manifest, Drop, DropFails, Create, CreateFails
  <2>5. QED BY <2>1, <2>2, <2>3, <2>4
<1>5. QED BY <1>1, <1>3, <1>4

\* Only a cycle at work on a month touches the month's file, copy, object and count.
AtWork(c, m) == pc[c] \in Archiving /\ m = Month(c)

LEMMA StepDisk ==
    ASSUME TInv, NEW c \in Cycles, StartCycle(c) \/ Step(c)
    PROVE  /\ file' \in [Months -> Files] /\ gz' \in [Months -> Files]
           /\ object' \in [Months -> Files] /\ counted' \in [Months -> Nat]
           /\ \A m \in Months : AtWork(c, m) \/ UNCHANGED <<file[m], gz[m], object[m], counted[m]>>
<1> USE DEF TInv
<1>1. pc[c] \in Archiving => Month(c) \in Months
  BY MonthIn DEF CycleType
<1>2. /\ file \in [Months -> Files] /\ gz \in [Months -> Files]
      /\ object \in [Months -> Files] /\ counted \in [Months -> Nat]
  BY DEF TypeOK
<1>3. CASE UNCHANGED <<file, gz, object, counted>>
  BY <1>2, <1>3
<1>4. CASE OpenFile(c)
  BY <1>1, <1>2, <1>4, FileTypes DEF OpenFile, Archiving, AtWork, cold
<1>5. CASE WriteRow(c)
  <2>1. /\ UNCHANGED <<gz, cold>> /\ pc[c] \in Archiving
        /\ \E e \in rest[c] :
              \/ file' = file
              \/ file' = [file EXCEPT ![Month(c)] = WithRow(file[Month(c)], e)]
    BY <1>5 DEF WriteRow, Archiving, Oldest
  <2>2. \A e \in rest[c] : WithRow(file[Month(c)], e) \in Files
    BY <1>1, <1>2, <2>1, FileTypes DEF CycleType
  <2>3. QED BY <1>1, <1>2, <2>1, <2>2 DEF AtWork, cold
<1>6. CASE Compress(c)
  BY <1>1, <1>2, <1>6 DEF Compress, Archiving, AtWork, cold
<1>7. CASE Put(c)
  BY <1>1, <1>2, <1>7, FileTypes DEF Put, Archiving, AtWork
<1>8. CASE Manifest(c) \/ ManifestFails(c)
  <2>1. RowCount(c) \in Nat
    <3>1. RowsOf(Month(c)) \subseteq Events
      BY DEF RowsOf, InMonth, Stored
    <3>2. QED BY <3>1, FS_Subset, FS_CardinalityType DEF RowCount
  <2>2. /\ pc[c] \in Archiving /\ UNCHANGED <<gz, object>>
        /\ file' = file \/ file' = [file EXCEPT ![Month(c)] = NoFile]
        /\ counted' = counted \/ counted' = [counted EXCEPT ![Month(c)] = RowCount(c)]
    BY <1>8 DEF Manifest, ManifestFails, RemoveFile, Archiving
  <2>3. QED BY <1>1, <1>2, <2>1, <2>2, FileTypes DEF AtWork
<1>9. QED
  BY <1>3, <1>4, <1>5, <1>6, <1>7, <1>8 DEF StartCycle, Step, List, ListFails, Archive,
     CursorRefused, CloseFile, ExportFails, CompressFails, PutFails, Drop, DropFails, Create,
     CreateFails, disk, cold

\* A step unlinks another cycle's file only by removing the file of its month.
LEMMA StepLinked ==
    ASSUME TInv, NEW c \in Cycles, StartCycle(c) \/ Step(c)
    PROVE  /\ linked' \subseteq Cycles
           /\ \A d \in Cycles \ {c} : d \in linked =>
                 d \in linked' \/ (pc[c] = "manifest" /\ Month(d) = Month(c))
BY DEF TInv, TypeOK, StartCycle, Step, List, ListFails, Archive, OpenFile, CursorRefused, WriteRow,
   CloseFile, ExportFails, Compress, CompressFails, Put, PutFails, Manifest, ManifestFails, Drop,
   DropFails, Create, CreateFails, ArchiveFailed, NextArchive, RemoveFile, disk

\* Rows leave the table with their partition, which only a cycle about to drop it takes.
LEMMA StepRows ==
    ASSUME TInv, NEW c \in Cycles, StartCycle(c) \/ Step(c)
    PROVE  /\ parts' \subseteq Months
           /\ rows' \subseteq rows
           /\ \A e \in rows' : MonthOf(at[e]) \in parts'
           /\ \A m \in Months : (Drop(c) /\ m = Month(c)) \/ rows' \cap InMonth(m) = RowsOf(m)
<1> USE DEF TInv
<1>1. CASE UNCHANGED <<parts, rows>>
  BY <1>1 DEF TypeOK, RowsOf
<1>2. CASE Drop(c)
  <2>1. parts' = parts \ {Month(c)} /\ rows' = rows \ RowsOf(Month(c))
    BY <1>2 DEF Drop
  <2>2. \A e \in rows' : MonthOf(at[e]) # Month(c)
    BY <2>1 DEF TypeOK, RowsOf, InMonth
  <2>3. \A m \in Months \ {Month(c)} : rows' \cap InMonth(m) = RowsOf(m)
    BY <2>1 DEF RowsOf, InMonth
  <2>4. QED BY <1>2, <2>1, <2>2, <2>3 DEF TypeOK
<1>3. CASE Create(c)
  <2>1. Month(c) \in Months
    BY <1>3, MonthIn DEF Create, CycleType
  <2>2. QED BY <1>3, <2>1 DEF Create, TypeOK, RowsOf
<1>4. QED
  BY <1>1, <1>2, <1>3 DEF StartCycle, Step, List, ListFails, Archive, OpenFile, CursorRefused,
     WriteRow, CloseFile, ExportFails, Compress, CompressFails, Put, PutFails, Manifest,
     ManifestFails, DropFails, CreateFails

-----------------------------------------------------------------------------
(* Type correctness *)

LEMMA TInvInit == Init => TInv
<1> SUFFICES ASSUME Init PROVE TInv
  OBVIOUS
<1>1. CycleType
  BY PlacesFacts DEF Init, CycleType
<1>2. parts \subseteq Months /\ rows = {} /\ now \in 0 .. MaxTime
  BY MonthsType DEF Init
<1>3. /\ file \in [Months -> Files] /\ gz \in [Months -> Files]
      /\ object \in [Months -> Files] /\ counted \in [Months -> Nat]
  BY FileTypes DEF Init
<1>4. /\ accepted \in AcceptSets /\ at \in [Events -> {NoTime} \cup 0 .. MaxTime]
      /\ linked \subseteq Cycles /\ faults \in 0 .. MaxFaults
      /\ mishaps \in [Months -> SUBSET Kinds]
  BY DEF Init
<1>5. QED BY <1>1, <1>2, <1>3, <1>4 DEF TInv, TypeOK, CycleType

LEMMA StepType ==
    ASSUME TInv, NEW c \in Cycles, StartCycle(c) \/ Step(c)
    PROVE  TInv'
<1>1. CycleType'
  BY StepMoves, MovesType DEF TInv
<1>2. rows' \subseteq Stored'
  BY StepRows, StepFrame DEF TInv, TypeOK, Stored
<1>3. QED BY <1>1, <1>2, StepFrame, StepDisk, StepLinked, StepRows DEF TInv, TypeOK, CycleType

LEMMA InsertType ==
    ASSUME TInv, NEW e \in Events, Insert(e)
    PROVE  /\ TInv' /\ UNCHANGED <<now, parts, disk, cold, cycle>>
           /\ \A m \in Months : mishaps[m] \subseteq mishaps'[m]
           /\ Stored' = Stored \cup {e} /\ rows' = rows \cup {e} /\ at'[e] = now
           /\ \A d \in Events \ {e} : at'[d] = at[d]
           /\ e \notin Stored
<1> USE DEF TInv
<1>1. /\ at' = [at EXCEPT ![e] = now] /\ rows' = rows \cup {e}
      /\ at[e] = NoTime /\ MonthOf(now) \in parts
      /\ UNCHANGED <<now, accepted, parts, disk, cold, cycle, faults>>
  BY DEF Insert
<1>2. now \in 0 .. MaxTime /\ now # NoTime
  BY DEF TypeOK, NoTime
<1>3. at' \in [Events -> {NoTime} \cup 0 .. MaxTime]
  BY <1>1, <1>2 DEF TypeOK
<1>4. Stored' = Stored \cup {e} /\ e \notin Stored
  BY <1>1, <1>2 DEF TypeOK, Stored
<1>5. \A d \in rows' : MonthOf(at'[d]) \in parts
  <2>1. e \notin rows
    BY <1>4 DEF TypeOK
  <2>2. QED BY <1>1, <2>1 DEF TypeOK, Stored
<1>6. mishaps' \in [Months -> SUBSET Kinds] /\ \A m \in Months : mishaps[m] \subseteq mishaps'[m]
  BY DEF Insert, TypeOK, Kinds
<1>7. /\ UNCHANGED <<file, gz, linked, object, counted, pc, listed, left, rest>>
  BY <1>1 DEF disk, cold, cycle
<1>8. rows' \subseteq Stored'
  BY <1>1, <1>4 DEF TypeOK
<1>9. TypeOK'
  BY <1>1, <1>3, <1>5, <1>6, <1>7, <1>8 DEF TypeOK
<1>10. CycleType'
  BY <1>7 DEF CycleType
<1>11. at'[e] = now /\ \A d \in Events \ {e} : at'[d] = at[d]
  BY <1>1 DEF TypeOK
<1>12. QED BY <1>1, <1>4, <1>6, <1>9, <1>10, <1>11

LEMMA CrashType ==
    ASSUME TInv, Crash
    PROVE  /\ TInv' /\ UNCHANGED <<now, at, rows, object>>
           /\ \A c \in Cycles : pc'[c] = "idle"
           /\ \A m \in Months : mishaps[m] \subseteq mishaps'[m]
<1> USE DEF TInv
<1>1. /\ UNCHANGED <<now, accepted, at, parts, rows, file, gz, object, counted>>
      /\ pc' = [c \in Cycles |-> "idle"] /\ linked' = {}
      /\ listed' = [c \in Cycles |-> {}] /\ left' = [c \in Cycles |-> {}]
      /\ rest' = [c \in Cycles |-> {}]
  BY DEF Crash, CycleFrame, cold
<1>2. CycleType'
  BY <1>1, PlacesFacts DEF CycleType
<1>3. faults' \in 0 .. MaxFaults
  BY DEF Crash, Fault, TypeOK
<1>4. mishaps' \in [Months -> SUBSET Kinds] /\ \A m \in Months : mishaps[m] \subseteq mishaps'[m]
  <2>1. mishaps' = [m \in Months |-> IF Held(m) THEN mishaps[m] \cup {"crash"} ELSE mishaps[m]]
    BY DEF Crash
  <2>2. QED BY <2>1 DEF TypeOK, Kinds
<1>5. rows' \subseteq Stored'
  BY <1>1 DEF TypeOK, Stored
<1>6. QED BY <1>1, <1>2, <1>3, <1>4, <1>5 DEF TypeOK, CycleType

LEMMA TickType ==
    ASSUME TInv, Tick
    PROVE  TInv' /\ UNCHANGED <<at, rows, disk, cold, cycle, mishaps>> /\ now' = now + 1
<1> USE DEF TInv
<1>1. /\ now' = now + 1 /\ now' \in 0 .. MaxTime
      /\ UNCHANGED <<accepted, parts, at, rows, disk, cold, cycle, faults, mishaps>>
  BY DEF Tick, TypeOK
<1>2. CycleType'
  BY <1>1 DEF CycleType, cycle
<1>3. rows' \subseteq Stored'
  BY <1>1 DEF TypeOK, Stored
<1>4. QED BY <1>1, <1>2, <1>3 DEF TypeOK, disk, cold, cycle

LEMMA TInvStep == TInv /\ [Next]_vars => TInv'
<1> SUFFICES ASSUME TInv, [Next]_vars PROVE TInv'
  OBVIOUS
<1>1. CASE Tick
  BY <1>1, TickType
<1>2. CASE Crash
  BY <1>2, CrashType
<1>3. CASE \E e \in Events : Insert(e)
  BY <1>3, InsertType
<1>4. CASE \E c \in Cycles : StartCycle(c) \/ Step(c)
  BY <1>4, StepType
<1>5. CASE UNCHANGED vars
  BY <1>5 DEF vars, disk, cold, cycle, TInv, TypeOK, CycleType, Stored
<1>6. QED BY <1>1, <1>2, <1>3, <1>4, <1>5 DEF Next

\* The cycles' variables stay well formed: a loop is entered only with something to go
\* through, and every row in the table has a partition.
THEOREM TypeCorrect == Spec => []TypeOK
<1>1. TInv => TypeOK
  BY DEF TInv
<1>2. QED BY TInvInit, TInvStep, <1>1, PTL DEF Spec

-----------------------------------------------------------------------------
(***************************************************************************)
(* NothingLost.  It says nothing of a month that is being archived, so the  *)
(* invariant follows a month in hand through the cycle (Progress): which of *)
(* file, copy and object holds its rows.  Unless spoilt by one of the four  *)
(* mishaps, a month is in one hand only and its rows are all in the table;   *)
(* and once they have left it the month is over, so that no cycle finds it   *)
(* again and writes a smaller object over the one that holds them.           *)
(***************************************************************************)
Unspoilt(m) == Clean(m, {"failed", "overlap", "late", "early"})

Whole(m) == InMonth(m) \subseteq rows
Gone(m) == InMonth(m) \cap rows = {} /\ m < MonthOf(now)

Progress(c, m) ==
    /\ pc[c] = "drop" => InMonth(m) \subseteq Holds(object[m])
    /\ pc[c] \in Archiving /\ m \notin left[c] => InMonth(m) \subseteq Holds(object[m])
    /\ m = Month(c) =>
         /\ pc[c] = "export" => c \in linked /\ InMonth(m) \subseteq rest[c] \cup Holds(file[m])
         /\ pc[c] = "compress" => InMonth(m) \subseteq Holds(file[m])
         /\ pc[c] = "put" => InMonth(m) \subseteq Holds(gz[m])
         /\ pc[c] = "manifest" => InMonth(m) \subseteq Holds(object[m])

Hand(c, m) ==
    m \in InHand(c) /\ Unspoilt(m) =>
        /\ m < MonthOf(now)
        /\ \A d \in Cycles \ {c} : m \notin InHand(d)
        /\ Whole(m)
        /\ Progress(c, m)

Kept(m) ==
    Unspoilt(m) =>
        /\ Whole(m) \/ Gone(m)
        /\ InMonth(m) \subseteq rows \cup Holds(object[m])

LInv == \A m \in Months : Kept(m) /\ \A c \in Cycles : Hand(c, m)

LEMMA UnspoiltBefore ==
    ASSUME NEW m \in Months, mishaps[m] \subseteq mishaps'[m], Unspoilt(m)'
    PROVE  Unspoilt(m)
BY DEF Unspoilt, Clean

LEMMA InHandType ==
    ASSUME CycleType, NEW c \in Cycles
    PROVE  /\ InHand(c) \subseteq Months
           /\ pc[c] \in Archiving \cup {"drop"} => Month(c) \in InHand(c)
<1>1. "drop" \notin Archiving
  BY DEF Archiving
<1>2. pc[c] \in Archiving \cup {"drop"} => Month(c) \in left[c]
  BY MonthIn DEF CycleType
<1>3. QED BY <1>1, <1>2 DEF InHand, CycleType

LEMMA LInvInit == Init => LInv
<1> SUFFICES ASSUME Init PROVE LInv
  OBVIOUS
<1>1. \A m \in Months : InMonth(m) = {}
  BY DEF Init, InMonth, Stored
<1>2. \A c \in Cycles : InHand(c) = {}
  BY DEF Init, InHand, Archiving
<1>3. QED BY <1>1, <1>2 DEF LInv, Kept, Hand, Whole

\* Time makes no month that is over the present one.
LEMMA LInvTick ==
    ASSUME TInv, LInv, Tick
    PROVE  LInv'
<1>1. /\ UNCHANGED <<at, rows, disk, cold, cycle, mishaps>> /\ now' = now + 1
      /\ now \in Nat /\ now' \in Nat
  BY TickType DEF TInv, TypeOK
<1>2. \A m \in Months : m < MonthOf(now) => m < MonthOf(now')
  BY <1>1, MonthOfMonotone, MonthOfType, MonthsType
<1>3. MonthOf(now)' = MonthOf(now')
  BY DEF MonthOf
<1>4. \A m \in Months : InMonth(m)' = InMonth(m) /\ Unspoilt(m)' = Unspoilt(m)
  BY <1>1 DEF InMonth, Stored, Unspoilt, Clean
<1>5. \A c \in Cycles : InHand(c)' = InHand(c) /\ Month(c)' = Month(c)
  BY <1>1 DEF cycle, InHand, Month
<1>6. \A c \in Cycles, m \in Months : Progress(c, m)' = Progress(c, m)
  BY <1>1, <1>4, <1>5 DEF Progress, disk, cold, cycle
<1>7. QED BY <1>1, <1>2, <1>3, <1>4, <1>5, <1>6 DEF LInv, Kept, Hand, Whole, Gone, disk, cold

\* A row goes to the present month; if a cycle has that month in hand it is late.
LEMMA LInvInsert ==
    ASSUME TInv, LInv, NEW e \in Events, Insert(e)
    PROVE  LInv'
<1> DEFINE n == MonthOf(now)
<1>1. /\ UNCHANGED <<now, disk, cold, cycle>>
      /\ \A m \in Months : mishaps[m] \subseteq mishaps'[m]
      /\ Stored' = Stored \cup {e} /\ rows' = rows \cup {e} /\ at'[e] = now
      /\ \A d \in Events \ {e} : at'[d] = at[d]
      /\ e \notin Stored
  BY InsertType
<1>2. n \in Months /\ n' = n
  BY <1>1, MonthsType DEF TInv, TypeOK, MonthOf
<1>3. \A m \in Months \ {n} : InMonth(m)' = InMonth(m)
  BY <1>1 DEF InMonth, Stored
<1>4. InMonth(n)' = InMonth(n) \cup {e}
  BY <1>1 DEF InMonth, Stored
<1>5. \A c \in Cycles : InHand(c)' = InHand(c) /\ Month(c)' = Month(c)
  BY <1>1 DEF cycle, InHand, Month
<1>6. ASSUME NEW m \in Months, m = n, NEW c \in Cycles, m \in InHand(c) PROVE ~Unspoilt(m)'
  <2>1. mishaps' = [mishaps EXCEPT ![m] = mishaps[m] \cup {"late"}]
    BY <1>6 DEF Insert, Held
  <2>2. "late" \in mishaps'[m]
    BY <2>1 DEF TInv, TypeOK
  <2>3. QED BY <2>2 DEF Unspoilt, Clean
<1>7. ASSUME NEW m \in Months PROVE Kept(m)'
  <2>1. SUFFICES ASSUME Unspoilt(m)' PROVE Kept(m)'
    BY DEF Kept
  <2>2. Unspoilt(m) /\ Kept(m) /\ m \in Nat
    BY <1>1, <1>7, <2>1, UnspoiltBefore, MonthsType DEF LInv
  <2>3. CASE m = n
    <3>1. Whole(m)
      BY <2>2, <2>3 DEF Kept, Gone
    <3>2. QED BY <1>1, <1>4, <2>3, <3>1 DEF Kept, Whole
  <2>4. CASE m # n
    <3>1. e \notin InMonth(m)
      BY <1>1 DEF InMonth
    <3>2. QED BY <1>1, <1>2, <1>3, <2>2, <2>4, <3>1 DEF Kept, Whole, Gone, cold
  <2>5. QED BY <2>3, <2>4
<1>8. ASSUME NEW m \in Months, NEW c \in Cycles PROVE Hand(c, m)'
  <2>1. SUFFICES ASSUME m \in InHand(c), Unspoilt(m)' PROVE Hand(c, m)'
    BY <1>5 DEF Hand
  <2>2. Unspoilt(m) /\ Hand(c, m) /\ m # n
    BY <1>1, <1>6, <1>8, <2>1, UnspoiltBefore DEF LInv
  <2>3. Progress(c, m)'
    BY <1>1, <1>3, <1>5, <2>1, <2>2 DEF Hand, Progress, disk, cold, cycle
  <2>4. QED BY <1>1, <1>2, <1>3, <1>5, <2>1, <2>2, <2>3 DEF Hand, Whole
<1>9. QED BY <1>7, <1>8 DEF LInv

LEMMA LInvCrash ==
    ASSUME TInv, LInv, Crash
    PROVE  LInv'
<1>1. /\ UNCHANGED <<now, at, rows, object>> /\ \A c \in Cycles : pc'[c] = "idle"
      /\ \A m \in Months : mishaps[m] \subseteq mishaps'[m]
  BY CrashType
<1>2. \A c \in Cycles : InHand(c)' = {}
  BY <1>1 DEF InHand, Archiving
<1>3. \A m \in Months : InMonth(m)' = InMonth(m)
  BY <1>1 DEF InMonth, Stored
<1>4. MonthOf(now)' = MonthOf(now)
  BY <1>1 DEF MonthOf
<1>5. \A m \in Months : Kept(m)'
  BY <1>1, <1>3, <1>4, UnspoiltBefore DEF LInv, Kept, Whole, Gone
<1>6. QED BY <1>2, <1>5 DEF LInv, Hand

-----------------------------------------------------------------------------
(* The steps of a cycle *)

\* What a step leaves as it was, in the terms of the invariant.
LEMMA StepFacts ==
    ASSUME TInv, NEW c \in Cycles, StartCycle(c) \/ Step(c)
    PROVE  /\ MonthOf(now)' = MonthOf(now)
           /\ \A m \in Months : InMonth(m)' = InMonth(m) /\ (Unspoilt(m)' => Unspoilt(m))
           /\ \A d \in Cycles \ {c} :
                 /\ InHand(d)' = InHand(d) /\ Month(d)' = Month(d)
                 /\ pc'[d] = pc[d] /\ left'[d] = left[d] /\ rest'[d] = rest[d]
<1>1. UNCHANGED <<now, at>> /\ \A m \in Months : mishaps[m] \subseteq mishaps'[m]
  BY StepFrame
<1>2. MonthOf(now)' = MonthOf(now)
  BY <1>1 DEF MonthOf
<1>3. \A m \in Months : InMonth(m)' = InMonth(m) /\ (Unspoilt(m)' => Unspoilt(m))
  BY <1>1, UnspoiltBefore DEF InMonth, Stored
<1>4. \A d \in Cycles \ {c} :
         /\ pc'[d] = pc[d] /\ listed'[d] = listed[d] /\ left'[d] = left[d] /\ rest'[d] = rest[d]
  BY StepMoves, MovesType DEF TInv
<1>5. \A d \in Cycles \ {c} : InHand(d)' = InHand(d) /\ Month(d)' = Month(d)
  BY <1>4 DEF InHand, Month
<1>6. QED BY <1>2, <1>3, <1>4, <1>5


\* The five steps that stay with the month at hand.
Works(c) == OpenFile(c) \/ WriteRow(c) \/ CloseFile(c) \/ Compress(c) \/ Put(c)

\* Those that end with it: the archive loop goes on with the next, or the drops follow.
Fails(c) ==
    CursorRefused(c) \/ ExportFails(c) \/ CompressFails(c) \/ PutFails(c) \/ ManifestFails(c)

LEMMA WorksFacts ==
    ASSUME TInv, NEW c \in Cycles, Works(c)
    PROVE  /\ pc[c] \in Archiving /\ pc'[c] \in Archiving
           /\ left' = left /\ listed' = listed
           /\ Month(c)' = Month(c) /\ InHand(c)' = InHand(c)
<1>1. pc[c] \in Archiving /\ left' = left /\ listed' = listed
  BY DEF Works, OpenFile, WriteRow, CloseFile, Compress, Put, Archiving
<1>2. pc'[c] \in Archiving
  BY DEF Works, OpenFile, WriteRow, CloseFile, Compress, Put, Archiving, TInv, CycleType
<1>3. QED BY <1>1, <1>2 DEF Month, InHand

LEMMA EndsFacts ==
    ASSUME TInv, NEW c \in Cycles, Manifest(c) \/ Fails(c)
    PROVE  /\ pc[c] \in Archiving /\ listed' = listed
           /\ \/ pc'[c] = "archive" /\ left'[c] = left[c] \ {Month(c)}
              \/ pc'[c] = "drop" /\ left'[c] = listed[c] /\ left[c] \subseteq {Month(c)}
           /\ InHand(c)' = InHand(c)
<1> DEFINE S == left[c] \ {Month(c)}
<1>1. /\ pc' = [pc EXCEPT ![c] = IF S = {} THEN "drop" ELSE "archive"]
      /\ left' = [left EXCEPT ![c] = IF S = {} THEN listed[c] ELSE S]
      /\ listed' = listed
  BY DEF Fails, CursorRefused, ExportFails, CompressFails, PutFails, ManifestFails, ArchiveFailed,
     NextArchive, Manifest
<1>2. pc[c] \in Archiving
  BY DEF Fails, CursorRefused, ExportFails, CompressFails, PutFails, ManifestFails, Manifest,
     Archiving
<1>3. S = {} => left[c] \subseteq {Month(c)}
  OBVIOUS
<1> HIDE DEF S
<1>4. /\ S = {} => pc'[c] = "drop" /\ left'[c] = listed[c]
      /\ S # {} => pc'[c] = "archive" /\ left'[c] = S
  BY <1>1 DEF TInv, CycleType
<1>5. InHand(c)' = InHand(c)
  BY <1>1, <1>2, <1>4 DEF InHand, Archiving
<1>6. QED BY <1>1, <1>2, <1>3, <1>4, <1>5 DEF S

LEMMA DropsFacts ==
    ASSUME TInv, NEW c \in Cycles, Drop(c) \/ DropFails(c)
    PROVE  /\ pc[c] = "drop" /\ pc'[c] \in {"drop", "create"}
           /\ Month(c) \in left[c] /\ InHand(c) = left[c]
           /\ InHand(c)' = left[c] \ {Month(c)}
<1> DEFINE S == left[c] \ {Month(c)}
<1>1. pc[c] = "drop" /\ GoTo(c, "drop", S)
  BY DEF Drop, DropFails
<1>2. Month(c) \in left[c] /\ InHand(c) = left[c]
  BY <1>1, MonthIn DEF TInv, CycleType, InHand, Archiving
<1> HIDE DEF S
<1>3. /\ S = {} => pc'[c] = "create"
      /\ S # {} => pc'[c] = "drop" /\ left'[c] = S
  BY <1>1 DEF GoTo, TInv, CycleType
<1>4. InHand(c)' = S /\ pc'[c] \in {"drop", "create"}
  BY <1>3 DEF InHand, Archiving
<1>5. QED BY <1>1, <1>2, <1>4 DEF S

LEMMA EmptyHanded ==
    ASSUME TInv, NEW c \in Cycles,
           StartCycle(c) \/ ListFails(c) \/ Create(c) \/ CreateFails(c)
    PROVE  InHand(c)' = {}
<1>1. pc'[c] \in {"list", "idle", "create"}
  BY DEF StartCycle, ListFails, Create, CreateFails, CreateNext, Idle, TInv, CycleType
<1>2. QED BY <1>1 DEF InHand, Archiving

LEMMA ListFacts ==
    ASSUME TInv, NEW c \in Cycles, List(c), NEW m \in InHand(c)'
    PROVE  /\ m \in Months /\ Archivable(m) /\ m \notin InHand(c)
           /\ pc'[c] = "archive" /\ m \in left'[c]
           /\ Held(m) => "overlap" \in mishaps'[m]
           /\ Unspoilt(m)' => ~Held(m) /\ m # MonthOf(now)
<1> DEFINE A == {n \in Months : Archivable(n)}
<1>1. /\ listed' = [listed EXCEPT ![c] = A]
      /\ pc[c] = "list" /\ GoTo(c, "archive", A)
      /\ mishaps' = [n \in Months |-> mishaps[n] \cup {k \in {"overlap", "early"} :
              n \in A /\ IF k = "overlap" THEN Held(n) ELSE n = MonthOf(now)}]
  BY DEF List
<1>2. m \in A => m \in Months /\ Archivable(m)
  OBVIOUS
<1> HIDE DEF A
<1>3. /\ A = {} => pc'[c] = "create"
      /\ A # {} => pc'[c] = "archive" /\ left'[c] = A
      /\ listed'[c] = A
  BY <1>1 DEF GoTo, TInv, CycleType
<1>4. A # {} /\ m \in A
  BY <1>3 DEF InHand, Archiving
<1>5. m \notin InHand(c)
  BY <1>1 DEF InHand, Archiving
<1>6. Held(m) => "overlap" \in mishaps'[m]
  BY <1>1, <1>2, <1>4
<1>7. m = MonthOf(now) => "early" \in mishaps'[m]
  BY <1>1, <1>2, <1>4
<1>8. QED BY <1>2, <1>3, <1>4, <1>5, <1>6, <1>7 DEF Unspoilt, Clean

LEMMA StepCases ==
    ASSUME NEW c, StartCycle(c) \/ Step(c)
    PROVE  \/ List(c) \/ Works(c) \/ Manifest(c) \/ Fails(c) \/ Drop(c) \/ DropFails(c)
           \/ StartCycle(c) \/ ListFails(c) \/ Create(c) \/ CreateFails(c)
BY DEF Step, Archive, Works, Fails

\* What a cycle takes into its hand it takes while listing: old months, of which those in
\* another hand are spoilt by it.
LEMMA StepTakes ==
    ASSUME TInv, NEW c \in Cycles, StartCycle(c) \/ Step(c),
           NEW m \in InHand(c)', m \notin InHand(c)
    PROVE  List(c)
BY StepCases, WorksFacts, EndsFacts, DropsFacts, EmptyHanded

\* An unspoilt month in one hand is out of the reach of every other.
LEMMA OutOfReach ==
    ASSUME TInv, NEW c \in Cycles, StartCycle(c) \/ Step(c), NEW m \in Months, m \notin InHand(c)
    PROVE  /\ UNCHANGED <<file[m], gz[m], object[m]>>
           /\ rows' \cap InMonth(m) = RowsOf(m)
           /\ \A d \in Cycles \ {c} : d \in linked /\ Month(d) = m => d \in linked'
<1> USE DEF TInv
<1>1. pc[c] \in Archiving \cup {"drop"} => m # Month(c)
  BY InHandType
<1>2. ~AtWork(c, m) /\ ~(Drop(c) /\ m = Month(c)) /\ (pc[c] = "manifest" => m # Month(c))
  BY <1>1, DropsFacts DEF AtWork, Archiving
<1>3. UNCHANGED <<file[m], gz[m], object[m]>>
  BY <1>2, StepDisk
<1>4. rows' \cap InMonth(m) = RowsOf(m)
  BY <1>2, StepRows
<1>5. \A d \in Cycles \ {c} : d \in linked /\ Month(d) = m => d \in linked'
  BY <1>2, StepLinked
<1>6. QED BY <1>3, <1>4, <1>5

LEMMA OtherHands ==
    ASSUME TInv, LInv, NEW c \in Cycles, StartCycle(c) \/ Step(c),
           NEW d \in Cycles \ {c}, NEW m \in Months
    PROVE  Hand(d, m)'
<1>1. SUFFICES ASSUME m \in InHand(d)', Unspoilt(m)' PROVE Hand(d, m)'
  BY DEF Hand
<1>2. /\ InMonth(m)' = InMonth(m) /\ Unspoilt(m) /\ MonthOf(now)' = MonthOf(now)
      /\ \A x \in Cycles \ {c} :
            /\ InHand(x)' = InHand(x) /\ Month(x)' = Month(x)
            /\ pc'[x] = pc[x] /\ left'[x] = left[x] /\ rest'[x] = rest[x]
  BY <1>1, StepFacts
<1>3. m \in InHand(d) /\ Hand(d, m) /\ m \notin InHand(c)
  BY <1>1, <1>2 DEF LInv, Hand
<1>4. m \notin InHand(c)'
  BY <1>1, <1>3, StepTakes, ListFacts DEF Held
<1>5. /\ UNCHANGED <<file[m], gz[m], object[m]>>
      /\ rows' \cap InMonth(m) = RowsOf(m)
      /\ d \in linked /\ Month(d) = m => d \in linked'
  BY <1>3, OutOfReach
<1>6. Whole(m)'
  BY <1>2, <1>3, <1>5 DEF Hand, Whole, RowsOf
<1>7. Progress(d, m)'
  BY <1>2, <1>3, <1>5 DEF Hand, Progress
<1>8. \A x \in Cycles \ {d} : m \notin InHand(x)'
  BY <1>2, <1>3, <1>4 DEF Hand
<1>9. QED BY <1>2, <1>3, <1>6, <1>7, <1>8 DEF Hand

\* An unspoilt month that a cycle lists is over, in no other hand, and all in the table.
LEMMA ListedHand ==
    ASSUME TInv, LInv, NEW c \in Cycles, List(c), NEW m \in Months
    PROVE  Hand(c, m)'
<1>1. SUFFICES ASSUME m \in InHand(c)', Unspoilt(m)' PROVE Hand(c, m)'
  BY DEF Hand
<1>2. /\ Archivable(m) /\ ~Held(m) /\ m # MonthOf(now)
      /\ pc'[c] = "archive" /\ m \in left'[c]
  BY <1>1, ListFacts
<1>3. /\ InMonth(m)' = InMonth(m) /\ Unspoilt(m) /\ MonthOf(now)' = MonthOf(now)
      /\ \A x \in Cycles \ {c} : InHand(x)' = InHand(x)
  BY <1>1, StepFacts DEF Step
<1>4. m < MonthOf(now)
  <2>1. PICK e \in RowsOf(m) : at[e] < now - Retention
    BY <1>2 DEF Archivable
  <2>2. at[e] \in Nat /\ at[e] <= now /\ now \in Nat /\ MonthOf(at[e]) = m
    BY <2>1, RowsOfType DEF TInv, TypeOK, RowsOf, InMonth, Stored
  <2>3. MonthOf(at[e]) <= MonthOf(now) /\ m \in Nat /\ MonthOf(now) \in Nat
    BY <2>2, MonthOfMonotone, MonthOfType
  <2>4. QED BY <1>2, <2>2, <2>3
<1>5. Whole(m)'
  <2>1. Whole(m)
    BY <1>2, <1>3 DEF LInv, Kept, Archivable, RowsOf, Gone
  <2>2. rows' = rows
    BY DEF List
  <2>3. QED BY <1>3, <2>1, <2>2 DEF Whole
<1>6. \A x \in Cycles \ {c} : m \notin InHand(x)'
  BY <1>2, <1>3 DEF Held
<1>7. Progress(c, m)'
  BY <1>2 DEF Progress
<1>8. QED BY <1>3, <1>4, <1>5, <1>6, <1>7 DEF Hand

\* The rows of the month at hand pass from the table to the file, the copy, the object.
LEMMA WorkedHand ==
    ASSUME TInv, LInv, NEW c \in Cycles, Works(c), NEW m \in Months
    PROVE  Hand(c, m)'
<1>1. StartCycle(c) \/ Step(c)
  BY DEF Works, Step, Archive
<1>2. /\ pc[c] \in Archiving /\ pc'[c] \in Archiving
      /\ left' = left /\ Month(c)' = Month(c) /\ InHand(c)' = InHand(c)
  BY WorksFacts
<1>3. SUFFICES ASSUME m \in InHand(c), Unspoilt(m)' PROVE Hand(c, m)'
  BY <1>2 DEF Hand
<1>4. /\ InMonth(m)' = InMonth(m) /\ Unspoilt(m) /\ MonthOf(now)' = MonthOf(now)
      /\ \A x \in Cycles \ {c} : InHand(x)' = InHand(x)
  BY <1>1, <1>3, StepFacts
<1>5. Hand(c, m) /\ Whole(m) /\ Progress(c, m)
  BY <1>3, <1>4 DEF LInv, Hand
<1>6. rows' = rows
  BY DEF Works, OpenFile, WriteRow, CloseFile, Compress, Put
<1>7. Month(c) \in left[c] /\ Month(c) \in Months
  BY <1>2, MonthIn DEF TInv, CycleType
<1>8. pc'[c] # "drop"
  BY <1>2 DEF Archiving
<1>9. Progress(c, m)'
  <2>1. CASE m # Month(c)
    <3>1. object'[m] = object[m]
      BY <1>1, <2>1, StepDisk DEF AtWork
    <3>2. QED BY <1>2, <1>4, <1>5, <1>8, <2>1, <3>1 DEF Progress
  <2>2. CASE m = Month(c)
    <3>1. SUFFICES
            /\ pc'[c] = "export" => c \in linked' /\ InMonth(m) \subseteq rest'[c] \cup Holds(file'[m])
            /\ pc'[c] = "compress" => InMonth(m) \subseteq Holds(file'[m])
            /\ pc'[c] = "put" => InMonth(m) \subseteq Holds(gz'[m])
            /\ pc'[c] = "manifest" => InMonth(m) \subseteq Holds(object'[m])
      BY <1>2, <1>4, <1>7, <1>8, <2>2 DEF Progress, Holds
    <3> USE DEF TInv, TypeOK
    <3>2. CASE OpenFile(c)
      <4>1. pc'[c] = "export" /\ c \in linked' /\ rest'[c] = RowsOf(m)
        BY <2>2, <3>2 DEF OpenFile
      <4>2. InMonth(m) \subseteq RowsOf(m)
        BY <1>5 DEF Whole, RowsOf
      <4>3. QED BY <4>1, <4>2
    <3>3. CASE WriteRow(c)
      <4>1. /\ pc[c] = "export" /\ pc' = pc /\ linked' = linked
            /\ \E e \in Oldest(rest[c]) :
                  /\ file' = IF c \in linked
                             THEN [file EXCEPT ![m] = WithRow(file[m], e)] ELSE file
                  /\ rest'[c] = rest[c] \ {e}
        BY <2>2, <3>3 DEF WriteRow
      <4>2. c \in linked /\ InMonth(m) \subseteq rest[c] \cup Holds(file[m])
        BY <1>5, <2>2, <4>1 DEF Progress
      <4>3. PICK e \in rest[c] : file'[m] = WithRow(file[m], e) /\ rest'[c] = rest[c] \ {e}
        BY <4>1, <4>2 DEF Oldest
      <4>4. e \in Events /\ file[m] \in Files
        BY <4>3 DEF CycleType
      <4>5. Holds(file'[m]) = Holds(file[m]) \cup {e}
        BY <4>3, <4>4, FileTypes
      <4>6. QED BY <4>1, <4>2, <4>3, <4>5
    <3>4. CASE CloseFile(c)
      BY <1>5, <2>2, <3>4 DEF CloseFile, Progress
    <3>5. CASE Compress(c)
      BY <1>5, <2>2, <3>5 DEF Compress, Progress
    <3>6. CASE Put(c)
      BY <1>5, <2>2, <3>6 DEF Put, Progress
    <3>7. QED BY <3>2, <3>3, <3>4, <3>5, <3>6 DEF Works
  <2>3. QED BY <2>1, <2>2
<1>10. QED BY <1>2, <1>4, <1>5, <1>6, <1>9 DEF Hand, Whole

\* A month whose archive has failed is spoilt; the others keep what they have reached.
LEMMA EndedHand ==
    ASSUME TInv, LInv, NEW c \in Cycles, Manifest(c) \/ Fails(c), NEW m \in Months
    PROVE  Hand(c, m)'
<1>1. StartCycle(c) \/ Step(c)
  BY DEF Fails, Step, Archive
<1>2. /\ pc[c] \in Archiving /\ listed' = listed
      /\ \/ pc'[c] = "archive" /\ left'[c] = left[c] \ {Month(c)}
         \/ pc'[c] = "drop" /\ left'[c] = listed[c] /\ left[c] \subseteq {Month(c)}
      /\ InHand(c)' = InHand(c)
  BY EndsFacts
<1>3. SUFFICES ASSUME m \in InHand(c), Unspoilt(m)' PROVE Hand(c, m)'
  BY <1>2 DEF Hand
<1>4. /\ InMonth(m)' = InMonth(m) /\ Unspoilt(m) /\ MonthOf(now)' = MonthOf(now)
      /\ \A x \in Cycles \ {c} : InHand(x)' = InHand(x)
  BY <1>1, <1>3, StepFacts
<1>5. Hand(c, m) /\ Whole(m) /\ Progress(c, m)
  BY <1>3, <1>4 DEF LInv, Hand
<1>6. rows' = rows
  BY DEF Fails, Manifest, CursorRefused, ExportFails, CompressFails, PutFails, ManifestFails
<1>7. m = Month(c) => Manifest(c) /\ InMonth(m) \subseteq Holds(object[m])
  <2>1. ASSUME Fails(c), m = Month(c) PROVE FALSE
    <3>1. "failed" \in mishaps'[m]
      BY <2>1 DEF Fails, CursorRefused, ExportFails, CompressFails, PutFails, ManifestFails,
         ArchiveFailed, TInv, TypeOK
    <3>2. QED BY <1>3, <3>1 DEF Unspoilt, Clean
  <2>2. QED BY <1>5, <2>1 DEF Manifest, Progress
<1>8. object'[m] = object[m]
  <2>1. CASE m = Month(c)
    BY <1>7, <2>1 DEF Manifest
  <2>2. CASE m # Month(c)
    BY <1>1, <2>2, StepDisk DEF AtWork
  <2>3. QED BY <2>1, <2>2
<1>9. m \notin left[c] => InMonth(m) \subseteq Holds(object[m])
  BY <1>2, <1>5 DEF Progress
<1>10. Progress(c, m)'
  BY <1>2, <1>4, <1>7, <1>8, <1>9 DEF Progress, Holds
<1>11. QED BY <1>2, <1>4, <1>5, <1>6, <1>10 DEF Hand, Whole

LEMMA DroppedHand ==
    ASSUME TInv, LInv, NEW c \in Cycles, Drop(c) \/ DropFails(c), NEW m \in Months
    PROVE  Hand(c, m)'
<1>1. StartCycle(c) \/ Step(c)
  BY DEF Step
<1>2. SUFFICES ASSUME m \in InHand(c)', Unspoilt(m)' PROVE Hand(c, m)'
  BY DEF Hand
<1>3. /\ pc[c] = "drop" /\ pc'[c] \in {"drop", "create"}
      /\ m \in InHand(c) /\ m # Month(c)
  BY <1>2, DropsFacts
<1>4. /\ InMonth(m)' = InMonth(m) /\ Unspoilt(m) /\ MonthOf(now)' = MonthOf(now)
      /\ \A x \in Cycles \ {c} : InHand(x)' = InHand(x)
  BY <1>1, <1>2, StepFacts
<1>5. Hand(c, m) /\ Whole(m) /\ InMonth(m) \subseteq Holds(object[m])
  BY <1>3, <1>4 DEF LInv, Hand, Progress
<1>6. rows' \cap InMonth(m) = RowsOf(m) /\ object'[m] = object[m]
  BY <1>1, <1>3, StepRows, StepDisk DEF AtWork
<1>7. Progress(c, m)'
  BY <1>3, <1>4, <1>5, <1>6 DEF Progress, Holds, Archiving
<1>8. QED BY <1>3, <1>4, <1>5, <1>6, <1>7 DEF Hand, Whole, RowsOf

LEMMA OwnHand ==
    ASSUME TInv, LInv, NEW c \in Cycles, StartCycle(c) \/ Step(c), NEW m \in Months
    PROVE  Hand(c, m)'
<1>1. CASE StartCycle(c) \/ ListFails(c) \/ Create(c) \/ CreateFails(c)
  BY <1>1, EmptyHanded DEF Hand
<1>2. QED BY <1>1, StepCases, ListedHand, WorkedHand, EndedHand, DroppedHand

\* A month is dropped only when it is over and its object holds its rows.
LEMMA StepKeeps ==
    ASSUME TInv, LInv, NEW c \in Cycles, StartCycle(c) \/ Step(c), NEW m \in Months
    PROVE  Kept(m)'
<1>1. SUFFICES ASSUME Unspoilt(m)' PROVE Kept(m)'
  BY DEF Kept
<1>2. InMonth(m)' = InMonth(m) /\ Unspoilt(m) /\ MonthOf(now)' = MonthOf(now) /\ Kept(m)
  BY <1>1, StepFacts DEF LInv
<1>3. CASE m \notin InHand(c)
  BY <1>2, <1>3, OutOfReach DEF Kept, Whole, Gone, RowsOf
<1>4. CASE m \in InHand(c)
  <2>1. m < MonthOf(now) /\ Whole(m) /\ Progress(c, m)
    BY <1>2, <1>4 DEF LInv, Hand
  <2>2. CASE Drop(c) /\ m = Month(c)
    <3>1. rows' = rows \ RowsOf(m) /\ object' = object /\ pc[c] = "drop"
      BY <2>2 DEF Drop, cold
    <3>2. InMonth(m) \subseteq Holds(object[m])
      BY <2>1, <3>1 DEF Progress
    <3>3. QED BY <1>2, <2>1, <3>1, <3>2 DEF Kept, Gone, RowsOf, Holds
  <2>3. CASE ~(Drop(c) /\ m = Month(c))
    <3>1. rows' \cap InMonth(m) = RowsOf(m)
      BY <2>3, StepRows
    <3>2. QED BY <1>2, <2>1, <3>1 DEF Kept, Whole, RowsOf
  <2>4. QED BY <2>2, <2>3
<1>5. QED BY <1>3, <1>4

LEMMA LInvStep == TInv /\ LInv /\ [Next]_vars => LInv'
<1> SUFFICES ASSUME TInv, LInv, [Next]_vars PROVE LInv'
  OBVIOUS
<1>1. CASE Tick
  BY <1>1, LInvTick
<1>2. CASE Crash
  BY <1>2, LInvCrash
<1>3. CASE \E e \in Events : Insert(e)
  BY <1>3, LInvInsert
<1>4. ASSUME NEW c \in Cycles, StartCycle(c) \/ Step(c) PROVE LInv'
  <2>1. \A m \in Months : Kept(m)' /\ Hand(c, m)' /\ \A d \in Cycles \ {c} : Hand(d, m)'
    BY <1>4, StepKeeps, OwnHand, OtherHands
  <2>2. QED BY <2>1 DEF LInv
<1>5. CASE UNCHANGED vars
  BY <1>5 DEF vars, disk, cold, cycle, LInv, Kept, Hand, Whole, Gone, Progress, Unspoilt, Clean,
     InMonth, Stored, InHand, Month, Least, MonthOf, Holds
<1>6. QED BY <1>1, <1>2, <1>3, <1>4, <1>5 DEF Next

\* Whatever the interleaving of cycles, inserts, faults and crashes, a row that leaves the
\* table is in its month's object, unless an archive of the month failed, two cycles had it
\* in hand, or a row came late or the month was archived in its course.
THEOREM NothingIsLost == Spec => []NothingLost
<1>1. TInv /\ LInv => NothingLost
  <2> SUFFICES ASSUME TInv, LInv, NEW e \in Stored, Unspoilt(MonthOf(at[e]))
               PROVE  e \in rows \/ e \in Holds(object[MonthOf(at[e])])
    BY DEF NothingLost, Unspoilt
  <2>1. at[e] \in 0 .. MaxTime
    BY DEF TInv, TypeOK, Stored
  <2>2. MonthOf(at[e]) \in Months /\ e \in InMonth(MonthOf(at[e]))
    BY <2>1, MonthsType DEF InMonth
  <2>3. QED BY <2>2 DEF LInv, Kept
<1>2. QED BY TInvInit, TInvStep, LInvInit, LInvStep, <1>1, PTL DEF Spec

-----------------------------------------------------------------------------
(***************************************************************************)
(* ArchivedOnce.  The temporary file is opened in append mode, so an object *)
(* holds a row once only because nothing is in the file when the export     *)
(* begins: a month that no cycle is exporting has no line in its file, and  *)
(* what is still to be written is not in the file yet.                      *)
(***************************************************************************)
Neat(m) == Clean(m, {"failed", "overlap", "crash"})

NoLines(f) == \A e \in Events : f.lines[e] = 0
Simple(f) == \A e \in Events : f.lines[e] <= 1

Busy(c, m) == pc[c] \in Archiving \ {"archive"} /\ m = Month(c)

InOneHand(m) == \A c, d \in Cycles : m \in InHand(c) /\ m \in InHand(d) => c = d

Exported(m) ==
    Neat(m) =>
        /\ InOneHand(m)
        /\ Simple(file[m]) /\ Simple(gz[m]) /\ Simple(object[m])
        /\ NoLines(file[m]) \/ \E c \in Cycles : Busy(c, m)
        /\ \A c \in Cycles : pc[c] = "export" /\ m = Month(c) =>
              \A e \in rest[c] : file[m].lines[e] = 0

XInv == \A m \in Months : Exported(m)

LEMMA CleanBefore ==
    ASSUME NEW m \in Months, NEW kinds, mishaps[m] \subseteq mishaps'[m],
           mishaps'[m] \cap kinds = {}
    PROVE  Clean(m, kinds)
BY DEF Clean

LEMMA FileLines ==
    /\ NoLines(NoFile) /\ Simple(NoFile)
    /\ \A f \in Files : NoLines(f) => Simple(f)
    /\ \A f \in Files : [f EXCEPT !.exists = TRUE].lines = f.lines
    /\ \A f \in Files, e \in Events : Simple(f) /\ f.lines[e] = 0 =>
          /\ Simple(WithRow(f, e))
          /\ \A d \in Events \ {e} : WithRow(f, e).lines[d] = f.lines[d]
<1>1. NoLines(NoFile) /\ Simple(NoFile)
  BY DEF NoLines, Simple, NoFile
<1>2. \A f \in Files : NoLines(f) => Simple(f)
  BY DEF NoLines, Simple
<1>3. \A f \in Files : [f EXCEPT !.exists = TRUE].lines = f.lines
  BY DEF Files
<1>4. ASSUME NEW f \in Files, NEW e \in Events, Simple(f), f.lines[e] = 0
      PROVE  /\ Simple(WithRow(f, e))
             /\ \A d \in Events \ {e} : WithRow(f, e).lines[d] = f.lines[d]
  <2>1. WithRow(f, e).lines = [f.lines EXCEPT ![e] = 1] /\ f.lines \in [Events -> 0 .. 2]
    BY <1>4 DEF WithRow, Files, Lines
  <2>2. QED BY <1>4, <2>1 DEF Simple
<1>5. QED BY <1>1, <1>2, <1>3, <1>4

\* A cycle before or after its archives and drops has nothing in hand.
LEMMA NothingInHand ==
    ASSUME NEW c \in Cycles, StartCycle(c) \/ ListFails(c) \/ Create(c) \/ CreateFails(c)
    PROVE  InHand(c) = {}
BY DEF StartCycle, ListFails, Create, CreateFails, InHand, Archiving

LEMMA FailsSpoil ==
    ASSUME TInv, NEW c \in Cycles, Fails(c)
    PROVE  "failed" \in mishaps'[Month(c)]
<1>1. Month(c) \in Months
  BY EndsFacts, MonthIn DEF TInv, CycleType
<1>2. mishaps' = [mishaps EXCEPT ![Month(c)] = mishaps[Month(c)] \cup {"failed"}]
  BY DEF Fails, CursorRefused, ExportFails, CompressFails, PutFails, ManifestFails, ArchiveFailed
<1>3. QED BY <1>1, <1>2 DEF TInv, TypeOK

LEMMA OneHandStep ==
    ASSUME TInv, NEW c \in Cycles, StartCycle(c) \/ Step(c), NEW m \in Months,
           InOneHand(m), "overlap" \notin mishaps'[m]
    PROVE  InOneHand(m)'
<1>1. \A d \in Cycles \ {c} : InHand(d)' = InHand(d)
  BY StepFacts
<1>2. CASE m \in InHand(c)
  BY <1>1, <1>2 DEF InOneHand
<1>3. CASE m \notin InHand(c) /\ m \in InHand(c)'
  <2>1. ~Held(m)
    BY <1>3, StepTakes, ListFacts
  <2>2. QED BY <1>1, <2>1 DEF InOneHand, Held
<1>4. CASE m \notin InHand(c)'
  BY <1>1, <1>4 DEF InOneHand
<1>5. QED BY <1>2, <1>3, <1>4

\* A month in hand that the cycle is not at is not written to, nor is its file.
LEMMA ExportedElsewhere ==
    ASSUME TInv, NEW c \in Cycles, StartCycle(c) \/ Step(c), NEW m \in Months,
           Exported(m), Neat(m), ~AtWork(c, m), pc'[c] = "archive" \/ ~(pc'[c] \in Archiving /\ m = Month(c)'),
           InOneHand(m)'
    PROVE  Exported(m)'
<1>1. UNCHANGED <<file[m], gz[m], object[m]>>
  BY StepDisk
<1>2. \A d \in Cycles \ {c} : Month(d)' = Month(d) /\ pc'[d] = pc[d] /\ rest'[d] = rest[d]
  BY StepFacts
<1>3. ~Busy(c, m) /\ ~(pc'[c] = "export" /\ m = Month(c)')
  BY DEF AtWork, Busy, Archiving
<1>4. (\E d \in Cycles : Busy(d, m)) => (\E d \in Cycles : Busy(d, m)')
  BY <1>2, <1>3 DEF Busy
<1>5. Simple(file[m])' = Simple(file[m]) /\ Simple(gz[m])' = Simple(gz[m])
      /\ Simple(object[m])' = Simple(object[m]) /\ NoLines(file[m])' = NoLines(file[m])
  BY <1>1 DEF Simple, NoLines
<1>6. QED BY <1>1, <1>2, <1>3, <1>4, <1>5 DEF Exported

\* The rows go to a file without them, and from there to the copy and the object.
LEMMA ExportedWorks ==
    ASSUME TInv, NEW c \in Cycles, Works(c), NEW m \in Months, m = Month(c),
           Exported(m), Neat(m), InOneHand(m)'
    PROVE  Exported(m)'
<1>1. /\ pc[c] \in Archiving /\ pc'[c] \in Archiving
      /\ Month(c)' = Month(c) /\ InHand(c)' = InHand(c)
  BY WorksFacts
<1>2. \A d \in Cycles \ {c} : m # Month(d)' \/ pc'[d] \notin Archiving
  <2>1. m \in InHand(c)
    BY <1>1, InHandType DEF TInv
  <2>2. \A d \in Cycles \ {c} : m \notin InHand(d)
    BY <2>1 DEF Exported, InOneHand
  <2>3. \A d \in Cycles \ {c} : m # Month(d) \/ pc[d] \notin Archiving
    BY <2>2, InHandType DEF TInv
  <2>4. QED BY <2>3, StepFacts DEF Works, Step, Archive
<1>3. /\ file[m] \in Files /\ gz[m] \in Files /\ object[m] \in Files
      /\ rest[c] \subseteq Events
  BY DEF TInv, TypeOK
<1>4. SUFFICES
        /\ Simple(file'[m]) /\ Simple(gz'[m]) /\ Simple(object'[m])
        /\ pc'[c] = "archive" => NoLines(file'[m])
        /\ pc'[c] = "export" => \A e \in rest'[c] : file'[m].lines[e] = 0
  BY <1>1, <1>2 DEF Exported, Busy, Simple, NoLines, Archiving
<1>5. Simple(file[m]) /\ Simple(gz[m]) /\ Simple(object[m])
  BY DEF Exported
<1> USE DEF TInv, TypeOK
<1>6. CASE OpenFile(c)
  <2>1. pc[c] = "archive"
    BY <1>6 DEF OpenFile
  <2>2. \A d \in Cycles : ~Busy(d, m)
    <3>1. \A d \in Cycles \ {c} : Month(d)' = Month(d) /\ pc'[d] = pc[d]
      BY StepFacts DEF Works, Step, Archive
    <3>2. QED BY <1>2, <2>1, <3>1 DEF Busy
  <2>3. NoLines(file[m])
    BY <2>2 DEF Exported
  <2>4. /\ file'[m] = [file[m] EXCEPT !.exists = TRUE] /\ rest'[c] = RowsOf(m)
        /\ pc'[c] = "export" /\ UNCHANGED <<gz, object>>
    BY <1>6 DEF OpenFile, cold
  <2>5. file'[m].lines = file[m].lines
    BY <1>3, <2>4, FileLines
  <2>6. QED BY <1>5, <2>3, <2>4, <2>5, RowsOfType DEF NoLines, Simple
<1>7. CASE WriteRow(c)
  <2>1. /\ pc[c] = "export" /\ pc' = pc /\ UNCHANGED <<gz, object>>
        /\ \E e \in rest[c] :
              /\ file'[m] = file[m] \/ file'[m] = WithRow(file[m], e)
              /\ rest'[c] = rest[c] \ {e}
    BY <1>7 DEF WriteRow, Oldest, cold
  <2>2. PICK e \in rest[c] :
              /\ file'[m] = file[m] \/ file'[m] = WithRow(file[m], e)
              /\ rest'[c] = rest[c] \ {e}
    BY <2>1
  <2>3. \A d \in rest[c] : file[m].lines[d] = 0
    BY <2>1 DEF Exported
  <2>4. /\ Simple(WithRow(file[m], e))
        /\ \A d \in Events \ {e} : WithRow(file[m], e).lines[d] = file[m].lines[d]
    BY <1>3, <1>5, <2>3, FileLines
  <2>5. QED BY <1>3, <1>5, <2>1, <2>2, <2>3, <2>4
<1>8. CASE CloseFile(c)
  BY <1>5, <1>8 DEF CloseFile, cold
<1>9. CASE Compress(c)
  BY <1>5, <1>9 DEF Compress, cold
<1>10. CASE Put(c)
  BY <1>5, <1>10, FileLines DEF Put
<1>11. QED BY <1>6, <1>7, <1>8, <1>9, <1>10 DEF Works

\* The file goes with the manifest; a month whose archive has failed is not neat.
LEMMA ExportedEnds ==
    ASSUME TInv, NEW c \in Cycles, Manifest(c) \/ Fails(c), NEW m \in Months, m = Month(c),
           Exported(m), Neat(m), Neat(m)', InOneHand(m)'
    PROVE  Exported(m)'
<1>1. Manifest(c)
  BY FailsSpoil DEF Neat, Clean
<1>2. file'[m] = NoFile /\ UNCHANGED <<gz, object>> /\ rest'[c] = {}
  BY <1>1 DEF Manifest, RemoveFile, TInv, TypeOK, CycleType
<1>3. pc'[c] # "export"
  BY EndsFacts
<1>4. \A d \in Cycles \ {c} : m # Month(d)' \/ pc'[d] # "export"
  <2>1. m \in InHand(c)
    BY EndsFacts, InHandType DEF TInv
  <2>2. \A d \in Cycles \ {c} : m \notin InHand(d)
    BY <2>1 DEF Exported, InOneHand
  <2>3. \A d \in Cycles \ {c} : m # Month(d) \/ pc[d] # "export"
    BY <2>2, InHandType DEF TInv, Archiving
  <2>4. QED BY <2>3, StepFacts DEF Fails, Step, Archive
<1>5. Simple(gz[m])' /\ Simple(object[m])'
  BY <1>2 DEF Exported, Simple
<1>6. QED BY <1>2, <1>3, <1>4, <1>5, FileLines DEF Exported, Simple, NoLines

\* Where a cycle is after a step on another month, or on none.
LEMMA ElsewhereAfter ==
    ASSUME TInv, NEW c \in Cycles, StartCycle(c) \/ Step(c), NEW m \in Months, ~AtWork(c, m)
    PROVE  pc'[c] = "archive" \/ ~(pc'[c] \in Archiving /\ m = Month(c)')
<1>1. CASE List(c)
  <2>1. CASE pc'[c] \in Archiving
    <3>1. \E n \in Months : n \in InHand(c)'
      BY <2>1, StepType, InHandType, MonthIn DEF TInv, CycleType, InHand
    <3>2. QED BY <1>1, <3>1, ListFacts
  <2>2. QED BY <2>1
<1>2. CASE Works(c)
  BY <1>2, WorksFacts DEF AtWork
<1>3. CASE Manifest(c) \/ Fails(c)
  BY <1>3, EndsFacts DEF Archiving
<1>4. CASE Drop(c) \/ DropFails(c)
  BY <1>4, DropsFacts DEF Archiving
<1>5. CASE StartCycle(c) \/ ListFails(c) \/ Create(c) \/ CreateFails(c)
  <2>1. pc'[c] \in {"list", "idle", "create"}
    BY <1>5 DEF StartCycle, ListFails, Create, CreateFails, CreateNext, Idle, TInv, CycleType
  <2>2. QED BY <2>1 DEF Archiving
<1>6. QED BY <1>1, <1>2, <1>3, <1>4, <1>5, StepCases

LEMMA ExportedStep ==
    ASSUME TInv, NEW c \in Cycles, StartCycle(c) \/ Step(c), NEW m \in Months, Exported(m)
    PROVE  Exported(m)'
<1>1. SUFFICES ASSUME Neat(m)' PROVE Exported(m)'
  BY DEF Exported
<1>2. Neat(m) /\ "overlap" \notin mishaps'[m]
  BY <1>1, StepFrame, CleanBefore DEF Neat, Clean
<1>3. InOneHand(m)'
  BY <1>2, OneHandStep DEF Exported
<1>4. CASE ~AtWork(c, m)
  BY <1>2, <1>3, <1>4, ElsewhereAfter, ExportedElsewhere
<1>5. CASE AtWork(c, m)
  <2>1. Works(c) \/ Manifest(c) \/ Fails(c)
    BY <1>5, StepCases DEF AtWork, Archiving, StartCycle, List, ListFails, Drop, DropFails, Create,
       CreateFails
  <2>2. QED BY <1>1, <1>2, <1>3, <1>5, <2>1, ExportedWorks, ExportedEnds DEF AtWork
<1>6. QED BY <1>4, <1>5

\* A crash in the middle of an export is one of the mishaps.
LEMMA ExportedCrash ==
    ASSUME TInv, Crash, NEW m \in Months, Exported(m)
    PROVE  Exported(m)'
<1>1. /\ UNCHANGED <<file, gz, object>> /\ \A c \in Cycles : pc'[c] = "idle"
      /\ mishaps[m] \subseteq mishaps'[m]
      /\ mishaps' = [n \in Months |-> IF Held(n) THEN mishaps[n] \cup {"crash"} ELSE mishaps[n]]
  BY CrashType DEF Crash, cold
<1>2. SUFFICES ASSUME Neat(m)' PROVE Exported(m)'
  BY DEF Exported
<1>3. ~Held(m) /\ Neat(m)
  BY <1>1, <1>2, CleanBefore DEF Neat, Clean
<1>4. \A c \in Cycles : ~Busy(c, m)
  BY <1>3, InHandType DEF Held, Busy, TInv
<1>5. NoLines(file[m]) /\ Simple(file[m]) /\ Simple(gz[m]) /\ Simple(object[m])
  BY <1>3, <1>4 DEF Exported
<1>6. \A c \in Cycles : InHand(c)' = {}
  BY <1>1 DEF InHand, Archiving
<1>7. QED BY <1>1, <1>5, <1>6 DEF Exported, InOneHand, Simple, NoLines

\* Neither the clock nor an insert touches what a cycle works with.
LEMMA ExportedStill ==
    ASSUME UNCHANGED <<disk, cold, cycle>>, NEW m \in Months, mishaps[m] \subseteq mishaps'[m],
           Exported(m)
    PROVE  Exported(m)'
<1>1. \A c \in Cycles : InHand(c)' = InHand(c) /\ Month(c)' = Month(c)
  BY DEF cycle, InHand, Month
<1>2. Neat(m)' => Neat(m)
  BY CleanBefore DEF Neat, Clean
<1>3. QED BY <1>1, <1>2 DEF Exported, InOneHand, Simple, NoLines, Busy, disk, cold, cycle

LEMMA XInvInit == Init => XInv
<1> SUFFICES ASSUME Init PROVE XInv
  OBVIOUS
<1>1. \A c \in Cycles : InHand(c) = {} /\ pc[c] = "idle"
  BY DEF Init, InHand, Archiving
<1>2. \A m \in Months : file[m] = NoFile /\ gz[m] = NoFile /\ object[m] = NoFile
  BY DEF Init
<1>3. QED BY <1>1, <1>2, FileLines DEF XInv, Exported, InOneHand

LEMMA XInvStep == TInv /\ XInv /\ [Next]_vars => XInv'
<1> SUFFICES ASSUME TInv, XInv, [Next]_vars PROVE XInv'
  OBVIOUS
<1>1. CASE Tick
  BY <1>1, TickType, ExportedStill DEF XInv
<1>2. CASE Crash
  BY <1>2, ExportedCrash DEF XInv
<1>3. CASE \E e \in Events : Insert(e)
  BY <1>3, InsertType, ExportedStill DEF XInv
<1>4. CASE \E c \in Cycles : StartCycle(c) \/ Step(c)
  BY <1>4, ExportedStep DEF XInv
<1>5. CASE UNCHANGED vars
  BY <1>5, ExportedStill DEF XInv, vars
<1>6. QED BY <1>1, <1>2, <1>3, <1>4, <1>5 DEF Next

\* Whatever the interleaving, an object of the cold store holds a row twice only when an
\* attempt at its month failed or died and left the temporary file behind, or when two
\* cycles had the month in hand at once.
THEOREM RowsArchivedOnce == Spec => []ArchivedOnce
<1>1. XInv => ArchivedOnce
  BY DEF XInv, Exported, Neat, Simple, ArchivedOnce
<1>2. QED BY TInvInit, TInvStep, XInvInit, XInvStep, <1>1, PTL DEF Spec

-----------------------------------------------------------------------------
(***************************************************************************)
(* ManifestAgrees.  The manifest counts the table, not the file.  It never   *)
(* says too little because what a cycle has exported is still in the table  *)
(* when it counts (Copied), and it says as much as the object holds because *)
(* an undisturbed month has all its rows in the object (LInv).  A month in  *)
(* hand keeps its partition, so a month without one has been counted after  *)
(* its last upload.                                                         *)
(***************************************************************************)
Undisturbed(m) == mishaps[m] = {}

Copied(c, m) ==
    m = Month(c) =>
        /\ pc[c] = "export" => rest[c] \cup Holds(file[m]) \subseteq RowsOf(m)
        /\ pc[c] = "compress" => Holds(file[m]) \subseteq RowsOf(m)
        /\ pc[c] = "put" => Holds(gz[m]) \subseteq RowsOf(m)
        /\ pc[c] = "manifest" => Holds(object[m]) \subseteq RowsOf(m)

Agrees(m) ==
    LET held == Cardinality(Holds(object[m])) IN
    counted[m] >= held /\ (Undisturbed(m) => counted[m] = held)

AtManifest(m) == \E c \in Cycles : pc[c] = "manifest" /\ m = Month(c)

Counted(m) == object[m].exists => Agrees(m) \/ AtManifest(m)

Counts(m) ==
    Neat(m) => Counted(m) /\ \A c \in Cycles : Copied(c, m) /\ (m \in InHand(c) => m \in parts)

CInv == \A m \in Months : Counts(m)

LEMMA UndisturbedIs ==
    ASSUME NEW m \in Months
    PROVE  /\ Undisturbed(m) => Unspoilt(m) /\ Neat(m)
           /\ mishaps[m] \subseteq mishaps'[m] =>
                 (Undisturbed(m)' => Undisturbed(m)) /\ (Neat(m)' => Neat(m))
BY DEF Undisturbed, Unspoilt, Neat, Clean

LEMMA HoldsNothing ==
    /\ ~NoFile.exists
    /\ \A f \in Files : NoLines(f) => Holds(f) = {}
BY DEF Holds, NoFile, NoLines

\* No other cycle is at a month that this one has in hand.
LEMMA AloneAt ==
    ASSUME TInv, NEW c \in Cycles, StartCycle(c) \/ Step(c), NEW m \in InHand(c), InOneHand(m),
           NEW d \in Cycles \ {c}
    PROVE  /\ m \notin InHand(d) /\ m \notin InHand(d)'
           /\ m # Month(d)' \/ pc'[d] \notin Archiving
           /\ m # Month(d) \/ pc[d] \notin Archiving
<1>1. m \notin InHand(d)
  BY DEF InOneHand
<1>2. m # Month(d) \/ pc[d] \notin Archiving
  BY <1>1, InHandType DEF TInv
<1>3. QED BY <1>1, <1>2, StepFacts

\* The rows of a month that a cycle is archiving stay in the table.
LEMMA RowsStay ==
    ASSUME TInv, NEW c \in Cycles, StartCycle(c) \/ Step(c), NEW m \in Months, InOneHand(m),
           NEW d \in Cycles, pc[d] \in Archiving, m = Month(d)
    PROVE  RowsOf(m)' = RowsOf(m)
<1>1. m \in InHand(d)
  BY InHandType DEF TInv
<1>2. ~(Drop(c) /\ m = Month(c))
  <2>1. ASSUME Drop(c), m = Month(c) PROVE FALSE
    <3>1. pc[c] = "drop" /\ m \in InHand(c)
      BY <2>1, DropsFacts
    <3>2. c = d
      BY <1>1, <3>1 DEF InOneHand
    <3>3. QED BY <3>1, <3>2 DEF Archiving
  <2>2. QED BY <2>1
<1>3. InMonth(m)' = InMonth(m)
  BY StepFacts
<1>4. rows' \cap InMonth(m) = RowsOf(m)
  BY <1>2, StepRows
<1>5. QED BY <1>3, <1>4 DEF RowsOf

LEMMA CountsElsewhere ==
    ASSUME TInv, NEW c \in Cycles, StartCycle(c) \/ Step(c), NEW m \in Months,
           Counts(m), Neat(m), InOneHand(m), ~AtWork(c, m)
    PROVE  Counted(m)' /\ \A d \in Cycles : Copied(d, m)'
<1>1. UNCHANGED <<file[m], gz[m], object[m], counted[m]>> /\ mishaps[m] \subseteq mishaps'[m]
  BY StepDisk, StepFrame
<1>2. \A d \in Cycles \ {c} : Month(d)' = Month(d) /\ pc'[d] = pc[d] /\ rest'[d] = rest[d]
  BY StepFacts
<1>3. pc'[c] = "archive" \/ ~(pc'[c] \in Archiving /\ m = Month(c)')
  BY ElsewhereAfter
<1>4. Holds(file[m])' = Holds(file[m]) /\ Holds(gz[m])' = Holds(gz[m])
      /\ Holds(object[m])' = Holds(object[m])
  BY <1>1 DEF Holds
<1>5. Copied(c, m)'
  BY <1>3 DEF Copied, Archiving
<1>6. ASSUME NEW d \in Cycles \ {c} PROVE Copied(d, m)'
  <2>1. CASE pc[d] \in Archiving /\ m = Month(d)
    <3>1. RowsOf(m)' = RowsOf(m)
      BY <2>1, RowsStay
    <3>2. QED BY <1>2, <1>4, <3>1 DEF Counts, Copied
  <2>2. CASE ~(pc[d] \in Archiving /\ m = Month(d))
    BY <1>2, <2>2 DEF Copied, Archiving
  <2>3. QED BY <2>1, <2>2
<1>7. Agrees(m) => Agrees(m)'
  BY <1>1, <1>4, UndisturbedIs DEF Agrees
<1>8. AtManifest(m) => AtManifest(m)'
  <2>1. ~(pc[c] = "manifest" /\ m = Month(c))
    BY DEF AtWork, Archiving
  <2>2. QED BY <1>2, <2>1 DEF AtManifest
<1>9. QED BY <1>1, <1>5, <1>6, <1>7, <1>8 DEF Counts, Counted

LEMMA CountsWorks ==
    ASSUME TInv, XInv, NEW c \in Cycles, Works(c), NEW m \in Months, m = Month(c),
           Counts(m), Neat(m), InOneHand(m)
    PROVE  Counted(m)' /\ \A d \in Cycles : Copied(d, m)'
<1>1. /\ pc[c] \in Archiving /\ Month(c)' = Month(c) /\ m \in InHand(c)
      /\ StartCycle(c) \/ Step(c)
  BY WorksFacts, InHandType DEF TInv, Works, Step, Archive
<1>2. RowsOf(m)' = RowsOf(m) /\ mishaps[m] \subseteq mishaps'[m]
  BY <1>1, RowsStay, StepFrame
<1>3. \A d \in Cycles \ {c} : /\ m # Month(d)' \/ pc'[d] \notin Archiving
                              /\ m # Month(d) \/ pc[d] \notin Archiving
  BY <1>1, AloneAt
<1>4. /\ file[m] \in Files /\ gz[m] \in Files /\ object[m] \in Files
      /\ rest[c] \subseteq Events
  BY DEF TInv, TypeOK
<1>5. SUFFICES
        /\ pc'[c] = "export" => rest'[c] \cup Holds(file'[m]) \subseteq RowsOf(m)
        /\ pc'[c] = "compress" => Holds(file'[m]) \subseteq RowsOf(m)
        /\ pc'[c] = "put" => Holds(gz'[m]) \subseteq RowsOf(m)
        /\ pc'[c] = "manifest" => Holds(object'[m]) \subseteq RowsOf(m)
        /\ pc'[c] = "manifest" \/ Counted(m)'
  <2>1. \A d \in Cycles \ {c} : Copied(d, m)'
    BY <1>3 DEF Copied, Archiving
  <2>2. Holds(file'[m]) = Holds(file[m])' /\ Holds(gz'[m]) = Holds(gz[m])'
        /\ Holds(object'[m]) = Holds(object[m])'
    BY DEF Holds
  <2>3. Copied(c, m)'
    BY <1>2, <1>5, <2>2 DEF Copied
  <2>4. pc'[c] = "manifest" => Counted(m)'
    BY <1>1 DEF Counted, AtManifest
  <2>5. QED BY <1>5, <2>1, <2>3, <2>4
<1>6. Copied(c, m) /\ Counted(m)
  BY DEF Counts
<1>7. ASSUME UNCHANGED <<object, counted>>, pc[c] # "manifest" PROVE Counted(m)'
  <2>1. ~AtManifest(m)
    BY <1>3, <1>7 DEF AtManifest, Archiving
  <2>2. Holds(object[m])' = Holds(object[m])
    BY <1>7 DEF Holds
  <2>3. Agrees(m) => Agrees(m)'
    BY <1>2, <1>7, <2>2, UndisturbedIs DEF Agrees
  <2>4. QED BY <1>6, <1>7, <2>1, <2>3 DEF Counted
<1> USE DEF TInv, TypeOK
<1>8. CASE OpenFile(c)
  <2>1. /\ file'[m] = [file[m] EXCEPT !.exists = TRUE] /\ rest'[c] = RowsOf(m)
        /\ pc[c] = "archive" /\ pc'[c] = "export" /\ UNCHANGED <<gz, object, counted>>
    BY <1>8 DEF OpenFile, cold
  <2>2. \A d \in Cycles : ~Busy(d, m)
    BY <1>3, <2>1 DEF Busy
  <2>3. NoLines(file[m])
    BY <2>2 DEF XInv, Exported
  <2>4. Holds(file'[m]) = {}
    BY <1>4, <2>1, <2>3, FileTypes, HoldsNothing
  <2>5. QED BY <1>7, <2>1, <2>4
<1>9. CASE WriteRow(c)
  <2>1. /\ pc[c] = "export" /\ pc' = pc /\ UNCHANGED <<gz, object, counted>>
        /\ \E e \in rest[c] :
              /\ file'[m] = file[m] \/ file'[m] = WithRow(file[m], e)
              /\ rest'[c] = rest[c] \ {e}
    BY <1>9 DEF WriteRow, Oldest, cold
  <2>2. PICK e \in rest[c] :
              /\ file'[m] = file[m] \/ file'[m] = WithRow(file[m], e)
              /\ rest'[c] = rest[c] \ {e}
    BY <2>1
  <2>3. rest[c] \cup Holds(file[m]) \subseteq RowsOf(m)
        /\ Holds(WithRow(file[m], e)) = Holds(file[m]) \cup {e}
    BY <1>4, <1>6, <2>1, FileTypes DEF Copied
  <2>4. QED BY <1>7, <2>1, <2>2, <2>3
<1>10. CASE CloseFile(c)
  BY <1>6, <1>7, <1>10 DEF CloseFile, cold, Copied
<1>11. CASE Compress(c)
  BY <1>6, <1>7, <1>11 DEF Compress, cold, Copied
<1>12. CASE Put(c)
  BY <1>6, <1>12 DEF Put, Copied
<1>13. QED BY <1>8, <1>9, <1>10, <1>11, <1>12 DEF Works

\* What the object holds is still in the table when the rows are counted, and an
\* undisturbed month has nothing else there.
LEMMA CountsEnds ==
    ASSUME TInv, LInv, NEW c \in Cycles, Manifest(c) \/ Fails(c), NEW m \in Months, m = Month(c),
           Counts(m), Neat(m), Neat(m)', InOneHand(m)
    PROVE  Counted(m)' /\ \A d \in Cycles : Copied(d, m)'
<1>1. Manifest(c)
  BY FailsSpoil DEF Neat, Clean
<1>2. /\ pc[c] = "manifest" /\ UNCHANGED <<gz, object>>
      /\ counted'[m] = Cardinality(RowsOf(m))
  BY <1>1 DEF Manifest, RowCount, TInv, TypeOK
<1>3. m \in InHand(c) /\ (StartCycle(c) \/ Step(c))
  BY <1>2, InHandType DEF TInv, Archiving, Fails, Step, Archive
<1>4. Holds(object[m]) \subseteq RowsOf(m)
  BY <1>2 DEF Counts, Copied
<1>5. Cardinality(Holds(object[m])) <= Cardinality(RowsOf(m))
      /\ Cardinality(Holds(object[m])) \in Nat /\ Cardinality(RowsOf(m)) \in Nat
  <2>1. IsFiniteSet(RowsOf(m)) /\ IsFiniteSet(Holds(object[m]))
    BY RowsOfType, FS_Subset DEF Holds
  <2>2. QED BY <1>4, <2>1, FS_Subset, FS_CardinalityType
<1>6. Undisturbed(m) => RowsOf(m) = Holds(object[m])
  <2>1. ASSUME Undisturbed(m) PROVE InMonth(m) \subseteq Holds(object[m])
    BY <1>2, <1>3, <2>1, UndisturbedIs DEF LInv, Hand, Progress
  <2>2. QED BY <1>4, <2>1 DEF RowsOf
<1>7. Undisturbed(m)' => Undisturbed(m)
  BY <1>3, StepFrame, UndisturbedIs
<1>8. Holds(object[m])' = Holds(object[m])
  BY <1>2 DEF Holds
<1>9. Counted(m)'
  BY <1>2, <1>5, <1>6, <1>7, <1>8 DEF Counted, Agrees
<1>10. pc'[c] \in {"archive", "drop"}
  BY EndsFacts
<1>11. \A d \in Cycles \ {c} : m # Month(d)' \/ pc'[d] \notin Archiving
  BY <1>3, AloneAt
<1>12. \A d \in Cycles : Copied(d, m)'
  BY <1>10, <1>11 DEF Copied, Archiving
<1>13. QED BY <1>9, <1>12

\* A listed month has a partition, and keeps it as long as it is in hand.
LEMMA PartitionKept ==
    ASSUME TInv, NEW c \in Cycles, StartCycle(c) \/ Step(c), NEW m \in Months,
           Counts(m), Neat(m), "overlap" \notin mishaps'[m], InOneHand(m),
           NEW d \in Cycles, m \in InHand(d)'
    PROVE  m \in parts'
<1>1. CASE Drop(c)
  <2>1. m # Month(c)
    <3>1. CASE d = c
      BY <1>1, <3>1, DropsFacts
    <3>2. CASE d # c
      <4>1. m \in InHand(d) /\ Month(c) \in InHand(c)
        BY <1>1, <3>2, StepFacts, DropsFacts
      <4>2. QED BY <3>2, <4>1 DEF InOneHand
    <3>3. QED BY <3>1, <3>2
  <2>2. m \in InHand(d)
    BY <1>1, DropsFacts, StepFacts
  <2>3. QED BY <1>1, <2>1, <2>2 DEF Drop, Counts
<1>2. CASE List(c) /\ d = c
  BY <1>2, ListFacts DEF Archivable, List
<1>3. CASE ~Drop(c) /\ ~(List(c) /\ d = c)
  <2>1. m \in InHand(d)
    BY <1>3, StepTakes, StepFacts
  <2>2. parts \subseteq parts'
    BY <1>3 DEF StartCycle, Step, List, ListFails, Archive, OpenFile, CursorRefused, WriteRow,
       CloseFile, ExportFails, Compress, CompressFails, Put, PutFails, Manifest, ManifestFails,
       DropFails, Create, CreateFails
  <2>3. QED BY <2>1, <2>2 DEF Counts
<1>4. QED BY <1>1, <1>2, <1>3

LEMMA CountsStep ==
    ASSUME TInv, LInv, XInv, NEW c \in Cycles, StartCycle(c) \/ Step(c), NEW m \in Months, Counts(m)
    PROVE  Counts(m)'
<1>1. SUFFICES ASSUME Neat(m)' PROVE Counts(m)'
  BY DEF Counts
<1>2. Neat(m) /\ "overlap" \notin mishaps'[m]
  BY <1>1, StepFrame, UndisturbedIs DEF Neat, Clean
<1>3. InOneHand(m)
  BY <1>2 DEF XInv, Exported
<1>4. Counted(m)' /\ \A d \in Cycles : Copied(d, m)'
  <2>1. CASE ~AtWork(c, m)
    BY <1>2, <1>3, <2>1, CountsElsewhere
  <2>2. CASE AtWork(c, m)
    <3>1. Works(c) \/ Manifest(c) \/ Fails(c)
      BY <2>2, StepCases DEF AtWork, Archiving, StartCycle, List, ListFails, Drop, DropFails,
         Create, CreateFails
    <3>2. QED BY <1>1, <1>2, <1>3, <2>2, <3>1, CountsWorks, CountsEnds DEF AtWork
  <2>3. QED BY <2>1, <2>2
<1>5. QED BY <1>2, <1>3, <1>4, PartitionKept DEF Counts

\* A row that comes late is in the table when the rows are counted, if not in the object.
LEMMA CountsInsert ==
    ASSUME TInv, NEW e \in Events, Insert(e), NEW m \in Months, Counts(m)
    PROVE  Counts(m)'
<1>1. /\ UNCHANGED <<now, parts, disk, cold, cycle>> /\ mishaps[m] \subseteq mishaps'[m]
      /\ Stored' = Stored \cup {e}
      /\ \A d \in Events \ {e} : at'[d] = at[d]
      /\ e \notin Stored
  BY InsertType
<1>2. SUFFICES ASSUME Neat(m)' PROVE Counts(m)'
  BY DEF Counts
<1>3. Neat(m) /\ (Undisturbed(m)' => Undisturbed(m))
  BY <1>1, <1>2, UndisturbedIs
<1>4. RowsOf(m) \subseteq RowsOf(m)'
  <2>1. InMonth(m) \subseteq InMonth(m)'
    BY <1>1 DEF InMonth, Stored
  <2>2. rows \subseteq rows'
    BY DEF Insert
  <2>3. QED BY <2>1, <2>2 DEF RowsOf
<1>5. \A c \in Cycles : InHand(c)' = InHand(c) /\ Month(c)' = Month(c)
  BY <1>1 DEF cycle, InHand, Month
<1>6. Holds(file[m])' = Holds(file[m]) /\ Holds(gz[m])' = Holds(gz[m])
      /\ Holds(object[m])' = Holds(object[m])
  BY <1>1 DEF Holds, disk, cold
<1>7. \A c \in Cycles : Copied(c, m)'
  BY <1>1, <1>3, <1>4, <1>5, <1>6 DEF Counts, Copied, cycle
<1>8. Counted(m)'
  BY <1>1, <1>3, <1>5, <1>6 DEF Counts, Counted, Agrees, AtManifest, cycle, cold
<1>9. QED BY <1>1, <1>3, <1>5, <1>7, <1>8 DEF Counts

LEMMA CountsCrash ==
    ASSUME TInv, Crash, NEW m \in Months, Counts(m)
    PROVE  Counts(m)'
<1>1. /\ UNCHANGED <<at, file, gz, object, counted>> /\ \A c \in Cycles : pc'[c] = "idle"
      /\ mishaps[m] \subseteq mishaps'[m]
      /\ mishaps' = [n \in Months |-> IF Held(n) THEN mishaps[n] \cup {"crash"} ELSE mishaps[n]]
  BY CrashType DEF Crash, cold
<1>2. SUFFICES ASSUME Neat(m)' PROVE Counts(m)'
  BY DEF Counts
<1>3. ~Held(m) /\ Neat(m) /\ (Undisturbed(m)' => Undisturbed(m))
  BY <1>1, <1>2, UndisturbedIs DEF Neat, Clean
<1>4. \A c \in Cycles : InHand(c)' = {}
  BY <1>1 DEF InHand, Archiving
<1>5. \A c \in Cycles : Copied(c, m)'
  BY <1>1 DEF Copied
<1>6. ~AtManifest(m)
  BY <1>3, InHandType DEF Held, TInv, Archiving, AtManifest
<1>7. Counted(m)'
  BY <1>1, <1>3, <1>6 DEF Counts, Counted, Agrees, Holds
<1>8. QED BY <1>4, <1>5, <1>7 DEF Counts

LEMMA CountsStill ==
    ASSUME UNCHANGED <<at, parts, rows, disk, cold, cycle, mishaps>>, NEW m \in Months, Counts(m)
    PROVE  Counts(m)'
<1>1. \A c \in Cycles : InHand(c)' = InHand(c) /\ Month(c)' = Month(c)
  BY DEF cycle, InHand, Month
<1>2. RowsOf(m)' = RowsOf(m)
  BY DEF RowsOf, InMonth, Stored
<1>3. Holds(file[m])' = Holds(file[m]) /\ Holds(gz[m])' = Holds(gz[m])
      /\ Holds(object[m])' = Holds(object[m])
  BY DEF Holds, disk, cold
<1>4. (Neat(m)' <=> Neat(m)) /\ (Undisturbed(m)' <=> Undisturbed(m))
  BY DEF Neat, Clean, Undisturbed
<1>5. Counted(m)' <=> Counted(m)
  BY <1>1, <1>3, <1>4 DEF Counted, Agrees, AtManifest, cold, cycle
<1>6. \A c \in Cycles : Copied(c, m)' <=> Copied(c, m)
  BY <1>1, <1>2, <1>3 DEF Copied, cycle
<1>7. QED BY <1>1, <1>4, <1>5, <1>6 DEF Counts

LEMMA CInvInit == Init => CInv
<1> SUFFICES ASSUME Init PROVE CInv
  OBVIOUS
<1>1. \A c \in Cycles : InHand(c) = {} /\ pc[c] = "idle"
  BY DEF Init, InHand, Archiving
<1>2. \A m \in Months : object[m] = NoFile
  BY DEF Init
<1>3. QED BY <1>1, <1>2, HoldsNothing DEF CInv, Counts, Copied, Counted

LEMMA CInvStep == TInv /\ LInv /\ XInv /\ CInv /\ [Next]_vars => CInv'
<1> SUFFICES ASSUME TInv, LInv, XInv, CInv, [Next]_vars PROVE CInv'
  OBVIOUS
<1>1. CASE Tick
  BY <1>1, CountsStill DEF CInv, Tick
<1>2. CASE Crash
  BY <1>2, CountsCrash DEF CInv
<1>3. CASE \E e \in Events : Insert(e)
  BY <1>3, CountsInsert DEF CInv
<1>4. CASE \E c \in Cycles : StartCycle(c) \/ Step(c)
  BY <1>4, CountsStep DEF CInv
<1>5. CASE UNCHANGED vars
  BY <1>5, CountsStill DEF CInv, vars
<1>6. QED BY <1>1, <1>2, <1>3, <1>4, <1>5 DEF Next

\* The manifest of a month that has left the table never says less than its object holds,
\* although the rows are counted after the upload and in the table, and says just that
\* when nothing disturbed the month.
THEOREM ManifestTellsTheRows == Spec => []ManifestAgrees
<1>1. TInv /\ CInv => ManifestAgrees
  <2> SUFFICES ASSUME TInv, CInv, NEW m \in Months, object[m].exists, m \notin parts, Neat(m)
               PROVE  Agrees(m)
    BY DEF ManifestAgrees, Agrees, Undisturbed, Neat, Clean, TInv, TypeOK, Kinds
  <2>1. \A c \in Cycles : m \notin InHand(c)
    BY DEF CInv, Counts
  <2>2. ~AtManifest(m)
    BY <2>1, InHandType DEF TInv, Archiving, AtManifest
  <2>3. QED BY <2>2 DEF CInv, Counts, Counted
<1>2. QED BY TInvInit, TInvStep, LInvInit, LInvStep, XInvInit, XInvStep, CInvInit, CInvStep, <1>1,
          PTL DEF Spec
=============================================================================
