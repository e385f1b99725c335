----------------------------- MODULE AuditProofs -----------------------------
(***************************************************************************)
(* What is true of the audit pipeline for every set of events, every batch  *)
(* and queue size, every selection of faults and every bound.               *)
(***************************************************************************)
EXTENDS AuditLog, FiniteSetTheorems, TLAPS

USE DEF file

-----------------------------------------------------------------------------
(* Sequences *)

\* The elements of a concatenation.
LEMMA RangeConcat ==
    ASSUME NEW S, NEW a \in Seq(S), NEW b \in Seq(S)
    PROVE  Range(a \o b) = Range(a) \cup Range(b)
<1>1. ASSUME NEW e \in Range(a) PROVE e \in Range(a \o b)
  BY DEF Range
<1>2. ASSUME NEW e \in Range(b) PROVE e \in Range(a \o b)
  <2>1. PICK i \in 1 .. Len(b) : b[i] = e
    BY DEF Range
  <2>2. Len(a) + i \in DOMAIN (a \o b) /\ (a \o b)[Len(a) + i] = e
    BY <2>1
  <2>3. QED BY <2>2 DEF Range
<1>3. ASSUME NEW e \in Range(a \o b) PROVE e \in Range(a) \cup Range(b)
  <2>1. PICK i \in 1 .. Len(a) + Len(b) : (a \o b)[i] = e
    BY DEF Range
  <2>2. CASE i <= Len(a)
    BY <2>1, <2>2 DEF Range
  <2>3. CASE i > Len(a)
    <3>1. i - Len(a) \in 1 .. Len(b) /\ b[i - Len(a)] = e
      BY <2>1, <2>3
    <3>2. QED BY <3>1 DEF Range
  <2>4. QED BY <2>1, <2>2, <2>3
<1>4. QED BY <1>1, <1>2, <1>3

\* Cutting a sequence in two loses no element and invents none.
LEMMA RangeSplit ==
    ASSUME NEW S, NEW s \in Seq(S), NEW n \in 0 .. Len(s)
    PROVE  /\ SubSeq(s, 1, n) \in Seq(S) /\ SubSeq(s, n + 1, Len(s)) \in Seq(S)
           /\ Range(s) = Range(SubSeq(s, 1, n)) \cup Range(SubSeq(s, n + 1, Len(s)))
<1> DEFINE a == SubSeq(s, 1, n)
           b == SubSeq(s, n + 1, Len(s))
<1>1. /\ a \in Seq(S) /\ b \in Seq(S)
      /\ Len(a) = n /\ Len(b) = Len(s) - n
      /\ \A i \in 1 .. n : a[i] = s[i]
      /\ \A i \in 1 .. Len(s) - n : b[i] = s[n + i]
  OBVIOUS
<1> HIDE DEF a, b
<1>2. ASSUME NEW e \in Range(s) PROVE e \in Range(a) \cup Range(b)
  <2>1. PICK i \in 1 .. Len(s) : s[i] = e
    BY DEF Range
  <2>2. CASE i <= n
    <3>1. i \in DOMAIN a /\ a[i] = e
      BY <1>1, <2>1, <2>2
    <3>2. QED BY <3>1 DEF Range
  <2>3. CASE i > n
    <3>1. i - n \in DOMAIN b /\ b[i - n] = e
      BY <1>1, <2>1, <2>3
    <3>2. QED BY <3>1 DEF Range
  <2>4. QED BY <2>2, <2>3
<1>3. ASSUME NEW e \in Range(a) \cup Range(b) PROVE e \in Range(s)
  <2>1. CASE e \in Range(a)
    <3>1. PICK i \in 1 .. n : a[i] = e
      BY <1>1, <2>1 DEF Range
    <3>2. s[i] = e /\ i \in DOMAIN s
      BY <1>1, <3>1
    <3>3. QED BY <3>2 DEF Range
  <2>2. CASE e \in Range(b)
    <3>1. PICK i \in 1 .. Len(s) - n : b[i] = e
      <4>1. DOMAIN b = 1 .. Len(s) - n
        BY <1>1
      <4>2. QED BY <4>1, <2>2 DEF Range
    <3>2. s[n + i] = e
      BY <1>1, <3>1
    <3>3. n + i \in DOMAIN s
      BY <3>1
    <3>4. QED BY <3>2, <3>3 DEF Range
  <2>3. QED BY <1>3, <2>1, <2>2
<1>4. QED BY <1>1, <1>2, <1>3 DEF a, b

\* How often e occurs in a batch: a natural number, positive if e is in it.
LEMMA Occurrences ==
    ASSUME NEW s \in Seq(Events), NEW e
    PROVE  /\ Cardinality({i \in DOMAIN s : s[i] = e}) \in Nat
           /\ e \in Range(s) => Cardinality({i \in DOMAIN s : s[i] = e}) > 0
<1> DEFINE I == {i \in DOMAIN s : s[i] = e}
<1>1. IsFiniteSet(I)
  <2>1. IsFiniteSet(1 .. Len(s)) /\ I \subseteq 1 .. Len(s)
    BY FS_Interval
  <2>2. QED BY <2>1, FS_Subset
<1>2. Cardinality(I) \in Nat /\ (Cardinality(I) = 0 <=> I = {})
  BY <1>1, FS_CardinalityType, FS_EmptySet
<1>3. e \in Range(s) => I # {}
  BY DEF Range
<1> HIDE DEF I
<1>4. Cardinality(I) \in Nat /\ (e \in Range(s) => Cardinality(I) > 0)
  BY <1>2, <1>3
<1>5. QED BY <1>4 DEF I

\* A batch consists of events.
LEMMA RangeType ==
    ASSUME NEW S, NEW s \in Seq(S)
    PROVE  Range(s) \subseteq S
BY DEF Range

\* What is written is read again, except a line glued to an incomplete one.
LEMMA ReadableLines ==
    ASSUME NEW lines \in Seq(Events)
    PROVE  /\ Readable(lines) \in Seq(Events)
           /\ Range(lines) = Range(Readable(lines)) \cup Glued(lines)
           /\ \/ Readable(lines) = lines
              \/ lines # <<>> /\ Readable(lines) = SubSeq(lines, 2, Len(lines))
<1>1. CASE openEnded /\ lines # <<>>
  <2>1. 1 \in 0 .. Len(lines) /\ Tail(lines) = SubSeq(lines, 1 + 1, Len(lines))
    BY <1>1
  <2>2. /\ Tail(lines) \in Seq(Events)
        /\ Range(lines) = Range(SubSeq(lines, 1, 1)) \cup Range(Tail(lines))
    <3>1. /\ SubSeq(lines, 1 + 1, Len(lines)) \in Seq(Events)
          /\ Range(lines) = Range(SubSeq(lines, 1, 1)) \cup Range(SubSeq(lines, 1 + 1, Len(lines)))
      BY <2>1, RangeSplit, Zenon
    <3>2. QED BY <2>1, <3>1, Zenon
  <2>3. Range(SubSeq(lines, 1, 1)) = {Head(lines)}
    <3> DEFINE one == SubSeq(lines, 1, 1)
    <3>1. DOMAIN one = {1} /\ one[1] = Head(lines)
      BY <1>1
    <3> HIDE DEF one
    <3>2. QED BY <3>1 DEF Range, one
  <2>4. Readable(lines) = Tail(lines) /\ Glued(lines) = {Head(lines)}
    BY <1>1 DEF Readable, Glued
  <2>5. QED BY <1>1, <2>1, <2>2, <2>3, <2>4
<1>2. CASE ~(openEnded /\ lines # <<>>)
  BY <1>2 DEF Readable, Glued
<1>3. QED BY <1>1, <1>2

\* Writing the first n held events: what was in the file stays, what is written is there or
\* glued.
LEMMA Writing ==
    ASSUME TypeOK, NEW n \in 0 .. Len(held), NEW t \in BOOLEAN,
           Written(SubSeq(held, 1, n), t)
    PROVE  /\ buffer' \in Seq(Events) /\ torn' \in BOOLEAN /\ openEnded' \in BOOLEAN
           /\ openEnded' => torn'
           /\ Range(buffer) \subseteq Range(buffer')
           /\ Range(held) \subseteq Range(buffer') \cup Glued(SubSeq(held, 1, n))
                                        \cup Range(SubSeq(held, n + 1, Len(held)))
           /\ Range(held) \subseteq Events
           /\ Range(SubSeq(held, n + 1, Len(held))) \subseteq Events
           /\ Glued(SubSeq(held, 1, n)) \subseteq Events
<1> DEFINE a == SubSeq(held, 1, n)
           b == SubSeq(held, n + 1, Len(held))
<1>1. held \in Seq(Events) /\ buffer \in Seq(Events)
  BY DEF TypeOK
<1>2. a \in Seq(Events) /\ Range(held) = Range(a) \cup Range(b)
  BY <1>1, RangeSplit
<1>3. Range(held) \subseteq Events
  BY <1>1, RangeType
<1>4. /\ buffer' = buffer \o Readable(a)
      /\ torn' = (torn \/ t) /\ openEnded' = (t \/ (openEnded /\ a = <<>>))
  BY DEF Written
<1> HIDE DEF a, b
<1>5. Readable(a) \in Seq(Events) /\ Range(a) = Range(Readable(a)) \cup Glued(a)
  BY <1>2, ReadableLines
<1>6. buffer' \in Seq(Events) /\ Range(buffer') = Range(buffer) \cup Range(Readable(a))
  BY <1>1, <1>4, <1>5, RangeConcat
<1>7. torn' \in BOOLEAN /\ openEnded' \in BOOLEAN /\ (openEnded' => torn')
  BY <1>4 DEF TypeOK
<1>8. Range(b) \subseteq Events /\ Glued(a) \subseteq Events
  BY <1>2, <1>3, <1>5
<1>9. QED BY <1>2, <1>3, <1>5, <1>6, <1>7, <1>8 DEF a, b

\* _write_to_buffer() of all that is held is the case of n = Len(held).
LEMMA AllOfHeld ==
    ASSUME TypeOK
    PROVE  /\ held = SubSeq(held, 1, Len(held)) /\ Len(held) \in 0 .. Len(held)
           /\ SubSeq(held, Len(held) + 1, Len(held)) = <<>> /\ Range(<<>>) = {}
BY DEF TypeOK, Range

-----------------------------------------------------------------------------
(* Type correctness *)

\* Done leaves the phase, pc and held well typed, if the phase is that of code
\* which is at work.
LEMMA DoneType ==
    ASSUME TypeOK, phase # "down", Done
    PROVE  /\ phase' \in {"down", "running"} /\ pc' \in {"idle", "collect"}
           /\ (pc' = "idle") <=> (phase' = "down")
           /\ held' \in Seq(Events)
BY DEF TypeOK, Done

\* Undelivered does the same.
LEMMA UndeliveredType ==
    ASSUME TypeOK, phase # "down", Undelivered
    PROVE  /\ phase' \in {"down", "running", "flush"} /\ pc' \in {"idle", "collect", "write"}
           /\ (pc' = "idle") <=> (phase' = "down")
           /\ phase' = "flush" => pc' = "write"
           /\ held' \in Seq(Events)
<1>1. phase \in {"replay", "running", "flush"} /\ held \in Seq(Events)
  BY DEF TypeOK
<1>2. CASE phase = "replay"
  BY <1>1, <1>2 DEF Done, Undelivered
<1>3. CASE phase # "replay"
  BY <1>1, <1>3 DEF Undelivered
<1>4. QED BY <1>2, <1>3

\* No step of the pipeline leaves the types.
LEMMA TypeStep == TypeOK /\ [Next]_vars => TypeOK'
<1> SUFFICES ASSUME TypeOK, [Next]_vars PROVE TypeOK'
  OBVIOUS
<1> USE AuditAssumption
<1>1. ASSUME NEW e \in Events, Log(e) PROVE TypeOK'
  <2>1. Append(queue, e) \in Seq(Events) /\ Len(Append(queue, e)) = Len(queue) + 1
    BY DEF TypeOK
  <2>2. Len(queue) \in Nat
    BY DEF TypeOK
  <2>3. queue' \in Seq(Events) /\ Len(queue') <= QueueSize
    <3>1. CASE HasRoom
      BY <1>1, <2>1, <2>2, <3>1 DEF Log, HasRoom
    <3>2. CASE ~HasRoom
      BY <1>1, <3>2 DEF Log, TypeOK
    <3>3. QED BY <3>1, <3>2
  <2>4. logged' \in SUBSET Events /\ dropped' \in SUBSET Events
    BY <1>1 DEF Log, TypeOK
  <2>5. QED BY <1>1, <2>3, <2>4 DEF Log, TypeOK
<1>2. CASE Collect
  <2>1. CASE Len(queue) >= BatchSize
    <3>1. queue \in Seq(Events) /\ BatchSize \in 0 .. Len(queue)
      BY <2>1 DEF TypeOK
    <3>2. /\ SubSeq(queue, 1, BatchSize) \in Seq(Events)
          /\ SubSeq(queue, BatchSize + 1, Len(queue)) \in Seq(Events)
          /\ Range(SubSeq(queue, 1, BatchSize)) \subseteq Events
      BY <3>1, RangeSplit, RangeType
    <3>3. Len(SubSeq(queue, BatchSize + 1, Len(queue))) <= Len(queue)
      BY <3>1
    <3>4. /\ held' \in Seq(Events) /\ queue' \in Seq(Events) /\ Len(queue') <= Len(queue)
          /\ sent' \in SUBSET Events /\ pc' = "post"
      BY <1>2, <2>1, <3>2, <3>3 DEF Collect, TakeBatch, TypeOK
    <3>5. QED BY <1>2, <3>1, <3>4 DEF Collect, WorkerFrame, TypeOK
  <2>2. CASE ~(Len(queue) >= BatchSize)
    BY <1>2, <2>2 DEF Collect, WorkerFrame, TypeOK
  <2>3. QED BY <2>1, <2>2
<1>3. CASE WaitTimesOut
  BY <1>3 DEF WaitTimesOut, WorkerFrame, TypeOK
<1>4. CASE WaitGets
  <2> DEFINE missing == BatchSize - Len(held)
  <2>1. CASE FillsBatch
    <3>1. /\ queue \in Seq(Events) /\ held \in Seq(Events)
          /\ missing \in 0 .. Len(queue)
      BY <1>4, <2>1 DEF WaitGets, FillsBatch, TypeOK
    <3>2. /\ SubSeq(queue, 1, missing) \in Seq(Events)
          /\ SubSeq(queue, missing + 1, Len(queue)) \in Seq(Events)
      BY <3>1, RangeSplit
    <3>3. /\ held \o SubSeq(queue, 1, missing) \in Seq(Events)
          /\ Len(SubSeq(queue, missing + 1, Len(queue))) <= Len(queue)
      BY <2>1, <3>1, <3>2
    <3>4. Range(held \o SubSeq(queue, 1, missing)) \subseteq Events
      BY <3>3, RangeType
    <3>5. /\ held' \in Seq(Events) /\ queue' \in Seq(Events) /\ Len(queue') <= Len(queue)
          /\ sent' \in SUBSET Events /\ pc' = "post"
      BY <1>4, <2>1, <3>2, <3>3, <3>4 DEF WaitGets, TakeBatch, TypeOK
    <3>6. QED BY <1>4, <3>1, <3>5 DEF WaitGets, WorkerFrame, TypeOK
  <2>2. CASE ~FillsBatch
    BY <1>4, <2>2 DEF WaitGets, WorkerFrame, TypeOK
  <2>3. QED BY <2>1, <2>2
<1>5. CASE BackoffEnds
  BY <1>5 DEF BackoffEnds, WorkerFrame, TypeOK
<1>6. CASE Commit
  <2>1. stored' \in [Events -> Nat]
    <3>1. held \in Seq(Events) /\ stored \in [Events -> Nat]
      BY DEF TypeOK
    <3>2. \A e \in Events : Cardinality({i \in DOMAIN held : held[i] = e}) \in Nat
      BY <3>1, Occurrences
    <3>3. QED BY <1>6, <3>1, <3>2 DEF Commit
  <2>2. QED BY <1>6, <2>1 DEF Commit, PostFrame, TypeOK
<1>7. CASE Acknowledged
  <2>1. phase # "down"
    BY <1>7 DEF Acknowledged, TypeOK
  <2>2. buffer' \in Seq(Events) /\ torn' \in BOOLEAN /\ openEnded' \in BOOLEAN
        /\ (openEnded' => torn')
    <3>1. <<>> \in Seq(Events) /\ buffer \in Seq(Events) /\ torn \in BOOLEAN
          /\ openEnded \in BOOLEAN /\ (openEnded => torn)
      BY DEF TypeOK
    <3>2. CASE phase = "replay"
      BY <1>7, <3>1, <3>2 DEF Acknowledged
    <3>3. CASE phase # "replay"
      BY <1>7, <3>1, <3>3 DEF Acknowledged
    <3>4. QED BY <3>2, <3>3
  <2>3. QED BY <1>7, <2>1, <2>2, DoneType DEF Acknowledged, PostFrame, TypeOK
<1>8. CASE Unreachable
  <2>1. phase # "down"
    BY <1>8 DEF Unreachable, TypeOK
  <2>2. QED BY <1>8, <2>1, UndeliveredType DEF Unreachable, PostFrame, TypeOK
<1>9. CASE ErrorStatus
  <2>1. phase # "down"
    BY <1>9 DEF ErrorStatus, TypeOK
  <2>2. silent' \in SUBSET Events
    BY <1>9, RangeType DEF ErrorStatus, TypeOK
  <2>3. QED BY <1>9, <2>1, <2>2, UndeliveredType, DoneType DEF ErrorStatus, PostFrame, TypeOK
<1>10. CASE AnswerLost
  <2>1. phase # "down"
    BY <1>10 DEF AnswerLost, TypeOK
  <2>2. Range(held) \subseteq Events
    BY RangeType DEF TypeOK
  <2>3. QED BY <1>10, <2>1, <2>2, UndeliveredType DEF AnswerLost, PostFrame, TypeOK
<1>11. CASE WriteBuffer
  <2>1. phase # "down"
    BY <1>11 DEF WriteBuffer, TypeOK
  <2>2. /\ buffer' \in Seq(Events) /\ torn' \in BOOLEAN /\ openEnded' \in BOOLEAN
        /\ openEnded' => torn'
        /\ Glued(held) \subseteq Events
    BY <1>11, AllOfHeld, Writing DEF WriteBuffer
  <2>3. silent' \in SUBSET Events
    BY <1>11, <2>2 DEF WriteBuffer, TypeOK
  <2>4. QED BY <1>11, <2>1, <2>2, <2>3, DoneType DEF WriteBuffer, PostFrame, TypeOK
<1>12. CASE WriteFails
  <2>1. phase # "down"
    BY <1>12 DEF WriteFails, TypeOK
  <2>2. PICK n \in 0 .. Len(held) - 1, t \in BOOLEAN :
            /\ Written(SubSeq(held, 1, n), t)
            /\ silent' = silent \cup Glued(SubSeq(held, 1, n))
            /\ dropped' = dropped \cup Range(SubSeq(held, n + 1, Len(held)))
    BY <1>12 DEF WriteFails
  <2>3. n \in 0 .. Len(held)
    BY DEF TypeOK
  <2>4. /\ buffer' \in Seq(Events) /\ torn' \in BOOLEAN /\ openEnded' \in BOOLEAN
        /\ openEnded' => torn'
        /\ dropped' \in SUBSET Events /\ silent' \in SUBSET Events
    BY <2>2, <2>3, Writing DEF TypeOK
  <2>5. QED BY <1>12, <2>1, <2>4, DoneType DEF WriteFails, PostFrame, TypeOK
<1>13. CASE Start
  BY <1>13 DEF Start, TypeOK
<1>14. CASE Stop
  <2>1. PICK n \in 0 .. Len(held) :
            /\ Written(SubSeq(held, 1, n), FALSE)
            /\ silent' \subseteq silent \cup Glued(SubSeq(held, 1, n))
                                 \cup Range(SubSeq(held, n + 1, Len(held)))
    BY <1>14 DEF Stop
  <2>2. /\ buffer' \in Seq(Events) /\ torn' \in BOOLEAN /\ openEnded' \in BOOLEAN
        /\ openEnded' => torn'
        /\ Range(held) \subseteq Events /\ silent' \in SUBSET Events
    BY <2>1, Writing DEF TypeOK
  <2>3. counts' \in [{"outage", "stop", "crash"} -> Nat]
    BY <1>14 DEF Stop, Count, TypeOK
  <2>4. unsettled' \in SUBSET Events
    BY <1>14, <2>2 DEF Stop, TypeOK
  <2>5. /\ \/ phase' = "down" /\ pc' = "idle" /\ held' = <<>>
           \/ phase' = "flush" /\ pc' = "post" /\ held' = queue
        /\ queue' = <<>>
        /\ UNCHANGED <<stored, backendUp, logged, dropped>>
        /\ sent' \in SUBSET Events
    BY <1>14, RangeType DEF Stop, Gone, TypeOK
  <2>6. /\ queue' \in Seq(Events) /\ Len(queue') <= QueueSize
        /\ held' \in Seq(Events)
    <3>1. <<>> \in Seq(Events) /\ Len(<<>>) = 0 /\ 0 <= QueueSize
      OBVIOUS
    <3>2. queue \in Seq(Events)
      BY DEF TypeOK
    <3>3. QED BY <2>5, <3>1, <3>2
  <2>7. QED BY <2>2, <2>3, <2>4, <2>5, <2>6 DEF TypeOK
<1>15. CASE Crash
  <2>1. PICK n \in 0 .. Len(held), t \in BOOLEAN :
            Written(SubSeq(held, 1, n), t)
    BY <1>15 DEF Crash
  <2>2. /\ buffer' \in Seq(Events) /\ torn' \in BOOLEAN /\ openEnded' \in BOOLEAN
        /\ openEnded' => torn'
        /\ Range(held) \subseteq Events
    BY <2>1, Writing
  <2>3. counts' \in [{"outage", "stop", "crash"} -> Nat]
    BY <1>15 DEF Crash, Count, TypeOK
  <2>4. Range(queue) \subseteq Events
    BY RangeType DEF TypeOK
  <2>5. unsettled' \in SUBSET Events /\ dropped' \in SUBSET Events
    BY <1>15, <2>2, <2>4 DEF Crash, TypeOK
  <2>6. QED BY <1>15, <2>2, <2>3, <2>5 DEF Crash, Gone, TypeOK
<1>16. CASE Outage
  <2>1. counts' \in [{"outage", "stop", "crash"} -> Nat]
    BY <1>16 DEF Outage, Count, TypeOK
  <2>2. QED BY <1>16, <2>1 DEF Outage, TypeOK
<1>17. CASE BackendReturns
  BY <1>17 DEF BackendReturns, TypeOK
<1>18. CASE UNCHANGED vars
  BY <1>18 DEF vars, TypeOK
<1>19. CASE RemoveFails
  <2>1. counts' \in [{"outage", "stop", "crash"} -> Nat]
    BY <1>19 DEF RemoveFails, Count, TypeOK
  <2>2. unsettled' \in SUBSET Events
    BY <1>19, RangeType DEF RemoveFails, TypeOK
  <2>3. QED BY <1>19, <2>1, <2>2 DEF RemoveFails, Gone, TypeOK
<1>20. QED
  BY <1>1, <1>2, <1>3, <1>4, <1>5, <1>6, <1>7, <1>8, <1>9, <1>10, <1>11, <1>12,
     <1>13, <1>14, <1>15, <1>16, <1>17, <1>18, <1>19 DEF Next, Worker, Post

LEMMA TypeInit == Init => TypeOK
<1> SUFFICES ASSUME Init PROVE TypeOK
  OBVIOUS
<1>1. <<>> \in Seq(Events) /\ Len(<<>>) = 0 /\ Len(<<>>) <= QueueSize
  BY AuditAssumption
<1>2. QED BY <1>1 DEF Init, TypeOK

\* Every state the pipeline reaches is well typed: the queue never exceeds
\* max_queue_size (log), a batch never exceeds batch_size while it is collected
\* (_worker), and no count of rows in the service is ever taken back.
THEOREM TypeCorrect == Spec => []TypeOK
<1>1. Init => TypeOK
  BY TypeInit
<1>2. TypeOK /\ [Next]_vars => TypeOK'
  BY TypeStep
<1>3. QED BY <1>1, <1>2, PTL DEF Spec

-----------------------------------------------------------------------------
(* What was sent is lost loudly, or in one of the three silent ways *)

\* Where an event of a complete batch is, apart from the record: in the hands of
\* the worker or of the flush, which has not yet heard of its delivery.
WithWorker(e) ==
    phase \in {"running", "flush"} /\ pc \in {"post", "committed", "write"} /\ e \in Range(held)

Kept(e) == OnRecord(e) \/ e \in dropped \cup silent \/ WithWorker(e)

\* The invariant behind SentAccounted.  It is stronger in saying WHERE an event
\* in memory is held: the list of a replay or of a waiting worker does not count,
\* and a replay's list is the file it came from.
AInv ==
    /\ TypeOK
    /\ phase = "replay" => held = buffer
    /\ pc = "committed" => \A e \in Range(held) : stored[e] > 0
    /\ \A e \in sent : Kept(e)

LEMMA AInvInit == Init => AInv
BY TypeInit DEF Init, AInv

\* A step that touches neither the record nor what the worker holds.
LEMMA KeptFrame ==
    ASSUME AInv, UNCHANGED <<phase, pc, held, buffer, stored, dropped, silent, sent>>
    PROVE  /\ (phase = "replay" => held = buffer)'
           /\ (pc = "committed" => \A e \in Range(held) : stored[e] > 0)'
           /\ \A e \in sent' : Kept(e)'
BY DEF AInv, Kept, OnRecord, WithWorker

\* The worker takes a batch: what was sent before it was kept elsewhere, since
\* the worker was not at a POST.
LEMMA KeptTake ==
    ASSUME AInv, TypeOK', NEW batch, NEW rest, TakeBatch(batch, rest),
           phase = "running", pc \in {"collect", "wait"},
           UNCHANGED <<phase, buffer, stored, dropped, silent>>
    PROVE  AInv'
<1>1. /\ pc' = "post" /\ held' = batch /\ sent' = sent \cup Range(batch)
      /\ phase' = "running"
  BY DEF TakeBatch
<1>2. ASSUME NEW e \in sent PROVE Kept(e)'
  BY <1>1, <1>2 DEF AInv, Kept, OnRecord, WithWorker
<1>3. ASSUME NEW e \in Range(batch) PROVE Kept(e)'
  BY <1>1, <1>3 DEF Kept, WithWorker
<1>4. QED BY <1>1, <1>2, <1>3 DEF AInv

\* The code is done with a batch that is on record, or lost loudly.
LEMMA KeptDone ==
    ASSUME AInv, TypeOK', Done, phase # "down", UNCHANGED sent,
           \A e \in sent : Kept(e) => OnRecord(e)' \/ e \in dropped' \cup silent'
    PROVE  AInv'
<1>1. phase' \in {"running", "down"} /\ pc' \in {"idle", "collect"}
  BY DEF Done, AInv, TypeOK
<1>2. \A e \in sent : Kept(e)'
  BY DEF AInv, Kept
<1>3. QED BY <1>1, <1>2 DEF AInv

\* The batch is taken to be undelivered: a replay's list is still in the file,
\* any other goes on to be written there.
LEMMA KeptUndelivered ==
    ASSUME AInv, TypeOK', Undelivered, phase # "down", pc \in {"post", "committed"},
           UNCHANGED <<sent, stored, buffer, dropped, silent>>
    PROVE  AInv'
<1>1. CASE phase = "replay"
  <2>1. \A e \in sent : Kept(e) => OnRecord(e)' \/ e \in dropped' \cup silent'
    BY <1>1 DEF Kept, WithWorker, OnRecord
  <2>2. Done
    BY <1>1 DEF Undelivered
  <2>3. QED BY <2>1, <2>2, KeptDone
<1>2. CASE phase # "replay"
  <2>1. phase' = phase /\ pc' = "write" /\ held' = held /\ phase \in {"running", "flush"}
    BY <1>2 DEF Undelivered, AInv, TypeOK
  <2>2. \A e \in sent : Kept(e)'
    BY <2>1 DEF AInv, Kept, WithWorker, OnRecord
  <2>3. QED BY <2>1, <2>2 DEF AInv
<1>3. QED BY <1>1, <1>2

LEMMA AInvStep == AInv /\ [Next]_vars => AInv'
<1> SUFFICES ASSUME AInv, [Next]_vars PROVE AInv'
  OBVIOUS
<1>t. TypeOK /\ TypeOK'
  BY TypeStep DEF AInv
<1>1. ASSUME NEW e \in Events, Log(e) PROVE AInv'
  <2>1. CASE HasRoom
    <3>1. UNCHANGED <<phase, pc, held, buffer, stored, dropped, silent, sent>>
      BY <1>1, <2>1 DEF Log
    <3>2. QED BY <1>t, <3>1, KeptFrame DEF AInv
  <2>2. CASE ~HasRoom
    <3>1. /\ UNCHANGED <<phase, pc, held, buffer, stored, silent, sent>>
          /\ dropped \subseteq dropped'
      BY <1>1, <2>2 DEF Log
    <3>2. \A x \in sent' : Kept(x)'
      BY <3>1 DEF AInv, Kept, OnRecord, WithWorker
    <3>3. QED BY <1>t, <3>1, <3>2 DEF AInv
  <2>3. QED BY <2>1, <2>2
<1>2. CASE Collect
  <2>1. CASE Len(queue) >= BatchSize
    <3>1. /\ TakeBatch(SubSeq(queue, 1, BatchSize),
                       SubSeq(queue, BatchSize + 1, Len(queue)))
          /\ phase = "running" /\ pc \in {"collect", "wait"}
          /\ UNCHANGED <<phase, buffer, stored, dropped, silent>>
      BY <1>2, <2>1 DEF Collect, WorkerFrame
    <3>2. QED BY <1>t, <3>1, KeptTake
  <2>2. CASE ~(Len(queue) >= BatchSize)
    <3>1. /\ UNCHANGED <<phase, buffer, stored, dropped, silent, sent>>
          /\ phase = "running" /\ pc = "collect" /\ pc' = "wait"
      BY <1>2, <2>2 DEF Collect, WorkerFrame
    <3>2. \A e \in sent' : Kept(e)'
      BY <3>1 DEF AInv, Kept, OnRecord, WithWorker
    <3>3. QED BY <1>t, <3>1, <3>2 DEF AInv
  <2>3. QED BY <2>1, <2>2
<1>3. CASE WaitTimesOut
  <2>1. /\ UNCHANGED <<phase, buffer, stored, dropped, silent, sent>>
        /\ phase = "running" /\ pc = "wait" /\ pc' = "collect"
    BY <1>3 DEF WaitTimesOut, WorkerFrame
  <2>2. \A e \in sent' : Kept(e)'
    BY <2>1 DEF AInv, Kept, OnRecord, WithWorker
  <2>3. QED BY <1>t, <2>1, <2>2 DEF AInv
<1>4. CASE WaitGets
  <2> DEFINE missing == BatchSize - Len(held)
  <2>1. CASE FillsBatch
    <3>1. /\ TakeBatch(held \o SubSeq(queue, 1, missing),
                       SubSeq(queue, missing + 1, Len(queue)))
          /\ phase = "running" /\ pc \in {"collect", "wait"}
          /\ UNCHANGED <<phase, buffer, stored, dropped, silent>>
      BY <1>4, <2>1 DEF WaitGets, WorkerFrame
    <3>2. QED BY <1>t, <3>1, KeptTake
  <2>2. CASE ~FillsBatch
    <3>1. /\ UNCHANGED <<phase, buffer, stored, dropped, silent, sent>>
          /\ phase = "running" /\ pc = "wait" /\ pc' = "backoff"
      BY <1>4, <2>2 DEF WaitGets, WorkerFrame
    <3>2. \A e \in sent' : Kept(e)'
      BY <3>1 DEF AInv, Kept, OnRecord, WithWorker
    <3>3. QED BY <1>t, <3>1, <3>2 DEF AInv
  <2>3. QED BY <2>1, <2>2
<1>5. CASE BackoffEnds
  <2>1. /\ UNCHANGED <<phase, buffer, stored, dropped, silent, sent>>
        /\ phase = "running" /\ pc = "backoff" /\ pc' = "collect"
    BY <1>5 DEF BackoffEnds, WorkerFrame
  <2>2. \A e \in sent' : Kept(e)'
    BY <2>1 DEF AInv, Kept, OnRecord, WithWorker
  <2>3. QED BY <1>t, <2>1, <2>2 DEF AInv
<1>6. CASE Commit
  <2>1. /\ pc = "post" /\ pc' = "committed"
        /\ UNCHANGED <<phase, held, buffer, dropped, silent, sent>>
    BY <1>6 DEF Commit, PostFrame
  <2>2. \A e \in Events : /\ stored[e] > 0 => stored'[e] > 0
                          /\ e \in Range(held) => stored'[e] > 0
    <3>1. held \in Seq(Events) /\ stored \in [Events -> Nat]
      BY <1>t DEF TypeOK
    <3>2. ASSUME NEW e \in Events
          PROVE  /\ stored[e] > 0 => stored'[e] > 0
                 /\ e \in Range(held) => stored'[e] > 0
      <4> DEFINE n == Cardinality({i \in DOMAIN held : held[i] = e})
      <4>1. n \in Nat /\ (e \in Range(held) => n > 0)
        BY <3>1, Occurrences
      <4>2. stored'[e] = stored[e] + n
        BY <1>6 DEF Commit
      <4> HIDE DEF n
      <4>3. stored[e] \in Nat
        BY <3>1
      <4>4. QED BY <4>1, <4>2, <4>3
    <3>3. QED BY <3>2
  <2>3. Range(held) \subseteq Events /\ sent \subseteq Events
    BY <1>t, RangeType DEF TypeOK
  <2>4. \A e \in sent' : Kept(e)'
    BY <2>1, <2>2, <2>3 DEF AInv, Kept, OnRecord, WithWorker
  <2>5. (pc = "committed" => \A e \in Range(held) : stored[e] > 0)'
    BY <2>1, <2>2, <2>3
  <2>6. QED BY <1>t, <2>1, <2>4, <2>5 DEF AInv
<1>7. CASE Acknowledged
  <2>1. /\ Done /\ UNCHANGED <<sent, stored, dropped, silent>>
        /\ pc = "committed" /\ phase # "down"
        /\ phase # "replay" => buffer' = buffer
    BY <1>7, <1>t DEF Acknowledged, PostFrame, TypeOK
  <2>2. \A e \in sent : Kept(e) => OnRecord(e)' \/ e \in dropped' \cup silent'
    BY <2>1 DEF AInv, Kept, OnRecord, WithWorker
  <2>3. QED BY <1>t, <2>1, <2>2, KeptDone
<1>8. CASE Unreachable
  <2>1. /\ Undelivered /\ phase # "down" /\ pc \in {"post", "committed"}
        /\ UNCHANGED <<sent, stored, buffer, dropped, silent>>
    BY <1>8, <1>t DEF Unreachable, PostFrame, TypeOK
  <2>2. QED BY <1>t, <2>1, KeptUndelivered
<1>9. CASE ErrorStatus
  <2>1. /\ phase # "down" /\ pc \in {"post", "committed"}
        /\ UNCHANGED <<sent, stored, buffer, dropped>>
    BY <1>9, <1>t DEF ErrorStatus, PostFrame, TypeOK, AInv
  <2>2. CASE phase # "flush"
    <3>1. Undelivered /\ UNCHANGED silent
      BY <1>9, <2>2 DEF ErrorStatus
    <3>2. QED BY <1>t, <2>1, <3>1, KeptUndelivered
  <2>3. CASE phase = "flush"
    <3>1. Done /\ silent' = silent \cup Range(held)
      BY <1>9, <2>3 DEF ErrorStatus
    <3>2. \A e \in sent : Kept(e) => OnRecord(e)' \/ e \in dropped' \cup silent'
      BY <2>1, <3>1 DEF Kept, OnRecord, WithWorker
    <3>3. QED BY <1>t, <2>1, <3>1, <3>2, KeptDone
  <2>4. QED BY <2>2, <2>3
<1>10. CASE AnswerLost
  <2>1. /\ Undelivered /\ phase # "down" /\ pc \in {"post", "committed"}
        /\ UNCHANGED <<sent, stored, buffer, dropped, silent>>
    BY <1>10, <1>t DEF AnswerLost, PostFrame, TypeOK
  <2>2. QED BY <1>t, <2>1, KeptUndelivered
<1>11. CASE WriteBuffer
  <2>1. /\ Done /\ UNCHANGED <<sent, stored, dropped>> /\ phase # "down"
        /\ Written(held, FALSE) /\ silent' = silent \cup Glued(held)
    BY <1>11, <1>t DEF WriteBuffer, PostFrame, TypeOK
  <2>2. /\ Range(buffer) \subseteq Range(buffer')
        /\ Range(held) \subseteq Range(buffer') \cup Glued(held)
    BY <2>1, <1>t, AllOfHeld, Writing
  <2>3. \A e \in sent : Kept(e) => OnRecord(e)' \/ e \in dropped' \cup silent'
    BY <2>1, <2>2 DEF Kept, OnRecord, WithWorker
  <2>4. QED BY <1>t, <2>1, <2>3, KeptDone
<1>12. CASE WriteFails
  <2>1. PICK n \in 0 .. Len(held) - 1, t \in BOOLEAN :
            /\ Written(SubSeq(held, 1, n), t)
            /\ silent' = silent \cup Glued(SubSeq(held, 1, n))
            /\ dropped' = dropped \cup Range(SubSeq(held, n + 1, Len(held)))
    BY <1>12 DEF WriteFails
  <2>2. Done /\ UNCHANGED <<sent, stored>> /\ phase # "down"
    BY <1>12, <1>t DEF WriteFails, PostFrame, TypeOK
  <2>3. n \in 0 .. Len(held)
    BY <1>t DEF TypeOK
  <2>4. /\ Range(buffer) \subseteq Range(buffer')
        /\ Range(held) \subseteq Range(buffer') \cup Glued(SubSeq(held, 1, n))
                                     \cup Range(SubSeq(held, n + 1, Len(held)))
    BY <1>t, <2>1, <2>3, Writing
  <2>5. \A e \in sent : Kept(e) => OnRecord(e)' \/ e \in dropped' \cup silent'
    BY <2>1, <2>2, <2>4 DEF Kept, OnRecord, WithWorker
  <2>6. QED BY <1>t, <2>2, <2>5, KeptDone
<1>13. CASE Start
  <2>1. /\ phase = "down" /\ UNCHANGED <<buffer, stored, dropped, silent, sent>>
        /\ phase' = "replay" => held' = buffer
        /\ pc' # "committed"
    BY <1>13 DEF Start
  <2>2. \A e \in sent' : Kept(e)'
    BY <2>1 DEF AInv, Kept, OnRecord, WithWorker
  <2>3. QED BY <1>t, <2>1, <2>2 DEF AInv
<1>14. CASE Stop
  <2>1. PICK n \in 0 .. Len(held) :
            /\ Written(SubSeq(held, 1, n), FALSE)
            /\ silent' = silent \cup Glued(SubSeq(held, 1, n))
                               \cup (IF pc = "committed" THEN {} ELSE Range(SubSeq(held, n + 1, Len(held))))
    BY <1>14 DEF Stop
  <2>2. /\ Range(buffer) \subseteq Range(buffer')
        /\ Range(held) \subseteq Range(buffer') \cup Glued(SubSeq(held, 1, n))
                                     \cup Range(SubSeq(held, n + 1, Len(held)))
    BY <1>t, <2>1, Writing
  <2>3. /\ UNCHANGED <<stored, dropped>> /\ sent' = sent \cup Range(queue)
        /\ \/ queue = <<>> /\ phase' = "down" /\ pc' = "idle"
           \/ phase' = "flush" /\ pc' = "post" /\ held' = queue
    BY <1>14 DEF Stop, Gone
  <2>4. ASSUME NEW e \in sent PROVE OnRecord(e)' \/ e \in dropped' \cup silent'
    <3>1. OnRecord(e) \/ e \in dropped \cup silent \/ e \in Range(held)
      BY <2>4 DEF AInv, Kept, WithWorker
    <3>2. CASE pc = "committed" /\ e \in Range(held)
      BY <2>3, <3>2 DEF AInv, OnRecord
    <3>3. CASE pc # "committed" /\ e \in Range(held)
      BY <2>1, <2>2, <3>3 DEF OnRecord
    <3>4. CASE OnRecord(e) \/ e \in dropped \cup silent
      BY <2>1, <2>2, <2>3, <3>4 DEF OnRecord
    <3>5. QED BY <3>1, <3>2, <3>3, <3>4
  <2>5. ASSUME NEW e \in Range(queue) PROVE Kept(e)'
    <3>1. queue # <<>>
      BY <2>5, AllOfHeld, <1>t
    <3>2. QED BY <2>3, <2>5, <3>1 DEF Kept, WithWorker
  <2>6. \A e \in sent' : Kept(e)'
    BY <2>3, <2>4, <2>5 DEF Kept
  <2>7. QED BY <1>t, <2>3, <2>6 DEF AInv
<1>15. CASE Crash
  <2>1. PICK n \in 0 .. Len(held), t \in BOOLEAN : Written(SubSeq(held, 1, n), t)
    BY <1>15 DEF Crash
  <2>2. Range(buffer) \subseteq Range(buffer')
    BY <1>t, <2>1, Writing
  <2>3. /\ phase' = "down" /\ pc' = "idle" /\ UNCHANGED <<stored, silent, sent>>
        /\ dropped \subseteq dropped'
        /\ phase # "replay" => Range(held) \subseteq dropped'
    BY <1>15 DEF Crash, Gone
  <2>4. \A e \in sent' : Kept(e)'
    BY <2>2, <2>3 DEF AInv, Kept, OnRecord, WithWorker
  <2>5. QED BY <1>t, <2>3, <2>4 DEF AInv
<1>16. CASE Outage
  BY <1>16, <1>t, KeptFrame DEF Outage, AInv
<1>17. CASE BackendReturns
  BY <1>17, <1>t, KeptFrame DEF BackendReturns, AInv
<1>18. CASE UNCHANGED vars
  BY <1>18, <1>t, KeptFrame DEF vars, AInv
<1>19. CASE RemoveFails
  <2>1. /\ phase = "replay" /\ phase' = "down" /\ pc' = "idle"
        /\ UNCHANGED <<buffer, stored, dropped, silent, sent>>
    BY <1>19 DEF RemoveFails, Gone
  <2>2. \A e \in sent' : Kept(e)'
    BY <2>1 DEF AInv, Kept, OnRecord, WithWorker
  <2>3. QED BY <1>t, <2>1, <2>2 DEF AInv
<1>20. QED
  BY <1>1, <1>2, <1>3, <1>4, <1>5, <1>6, <1>7, <1>8, <1>9, <1>10, <1>11, <1>12,
     <1>13, <1>14, <1>15, <1>16, <1>17, <1>18, <1>19 DEF Next, Worker, Post

\* No event that was part of a complete batch or of the shutdown flush vanishes but with a
\* critical log or in one of the three silent ways, whatever the number of outages, error
\* answers, late answers, disk failures, stops and kills (_worker, _write_to_buffer,
\* _replay_buffer, _flush_remaining).
THEOREM SentEventsAccounted == Spec => []SentAccounted
<1>1. AInv => SentAccounted
  BY DEF AInv, Kept, WithWorker, SentAccounted, InMemory
<1>2. QED BY <1>1, AInvInit, AInvStep, PTL DEF Spec

-----------------------------------------------------------------------------
(* Nothing is stored twice without an unacknowledged POST *)

\* e stands in s at one place at most.
Once(s, e) == \A i, j \in DOMAIN s : s[i] = e /\ s[j] = e => i = j

\* The parts of a sequence, and a concatenation of two that do not share e.
LEMMA OnceSplit ==
    ASSUME NEW S, NEW s \in Seq(S), NEW n \in 0 .. Len(s), NEW e, Once(s, e)
    PROVE  /\ Once(SubSeq(s, 1, n), e) /\ Once(SubSeq(s, n + 1, Len(s)), e)
           /\ e \in Range(SubSeq(s, 1, n)) => e \notin Range(SubSeq(s, n + 1, Len(s)))
<1> DEFINE a == SubSeq(s, 1, n)
           b == SubSeq(s, n + 1, Len(s))
<1>1. /\ DOMAIN a = 1 .. n /\ DOMAIN b = 1 .. Len(s) - n /\ DOMAIN s = 1 .. Len(s)
      /\ \A i \in 1 .. n : a[i] = s[i]
      /\ \A i \in 1 .. Len(s) - n : b[i] = s[n + i]
  OBVIOUS
<1> HIDE DEF a, b
<1>2. Once(a, e)
  BY <1>1 DEF Once
<1>3. Once(b, e)
  <2>1. ASSUME NEW i \in 1 .. Len(s) - n, NEW j \in 1 .. Len(s) - n, b[i] = e, b[j] = e
        PROVE  i = j
    <3>1. s[n + i] = e /\ s[n + j] = e /\ n + i \in DOMAIN s /\ n + j \in DOMAIN s
      BY <1>1, <2>1
    <3>2. n + i = n + j
      BY <3>1 DEF Once
    <3>3. QED BY <3>2
  <2>2. QED BY <1>1, <2>1 DEF Once
<1>4. ASSUME e \in Range(a), e \in Range(b) PROVE FALSE
  <2>1. PICK i \in 1 .. n : s[i] = e
    BY <1>1, <1>4 DEF Range
  <2>2. PICK j \in 1 .. Len(s) - n : s[n + j] = e
    BY <1>1, <1>4 DEF Range
  <2>3. i \in DOMAIN s /\ n + j \in DOMAIN s /\ i # n + j
    BY <1>1
  <2>4. QED BY <2>1, <2>2, <2>3 DEF Once
<1>5. QED BY <1>2, <1>3, <1>4 DEF a, b

LEMMA OnceConcat ==
    ASSUME NEW S, NEW a \in Seq(S), NEW b \in Seq(S), NEW e, Once(a, e), Once(b, e),
           e \in Range(a) => e \notin Range(b)
    PROVE  Once(a \o b, e)
<1> DEFINE s == a \o b
<1>1. /\ DOMAIN s = 1 .. Len(a) + Len(b)
      /\ \A i \in 1 .. Len(a) : s[i] = a[i]
      /\ \A i \in DOMAIN s : i > Len(a) => s[i] = b[i - Len(a)] /\ i - Len(a) \in DOMAIN b
  OBVIOUS
<1> HIDE DEF s
<1>2. ASSUME NEW i \in DOMAIN s, NEW j \in DOMAIN s, s[i] = e, s[j] = e PROVE i = j
  <2>1. CASE i <= Len(a) /\ j <= Len(a)
    <3>1. i \in DOMAIN a /\ j \in DOMAIN a /\ a[i] = e /\ a[j] = e
      BY <1>1, <1>2, <2>1
    <3>2. QED BY <3>1 DEF Once
  <2>2. CASE i > Len(a) /\ j > Len(a)
    <3>1. /\ i - Len(a) \in DOMAIN b /\ b[i - Len(a)] = e
          /\ j - Len(a) \in DOMAIN b /\ b[j - Len(a)] = e
      BY <1>1, <1>2, <2>2
    <3>2. i - Len(a) = j - Len(a)
      BY <3>1 DEF Once
    <3>3. i \in Nat /\ j \in Nat /\ Len(a) \in Nat
      BY <1>1
    <3>4. QED BY <3>2, <3>3
  <2>3. ASSUME NEW k \in DOMAIN s, NEW l \in DOMAIN s, s[k] = e, s[l] = e,
               k <= Len(a), l > Len(a)
        PROVE  FALSE
    <3>1. k \in DOMAIN a /\ a[k] = e
      BY <1>1, <2>3
    <3>2. l - Len(a) \in DOMAIN b /\ b[l - Len(a)] = e
      BY <1>1, <2>3
    <3>3. QED BY <3>1, <3>2 DEF Range
  <2>4. i \in Nat /\ j \in Nat /\ Len(a) \in Nat
    BY <1>1
  <2>5. QED BY <1>2, <2>1, <2>2, <2>3, <2>4
<1>3. Once(s, e)
  BY <1>2 DEF Once
<1>4. QED BY <1>3 DEF s

\* What a batch adds to the rows of an event.
LEMMA OnceCount ==
    ASSUME NEW s \in Seq(Events), NEW e, Once(s, e)
    PROVE  Cardinality({i \in DOMAIN s : s[i] = e}) = IF e \in Range(s) THEN 1 ELSE 0
<1>1. CASE e \in Range(s)
  <2>1. PICK k \in DOMAIN s : s[k] = e
    BY <1>1 DEF Range
  <2>2. {i \in DOMAIN s : s[i] = e} = {k}
    BY <2>1 DEF Once
  <2>3. QED BY <1>1, <2>2, FS_Singleton
<1>2. CASE e \notin Range(s)
  <2>1. {i \in DOMAIN s : s[i] = e} = {}
    BY <1>2 DEF Range
  <2>2. QED BY <1>2, <2>1, FS_EmptySet
<1>3. QED BY <1>1, <1>2

\* The event is in the hands of the worker or of the flush, not in the copy of the
\* file that a replay holds.
InHand(e) == phase # "replay" /\ e \in Range(held)

\* Where an event may be at once: it is in one place only, except between the commit of a
\* POST and its acknowledgement, when it is stored and still held, or still in the file.
Single(e) ==
    /\ stored[e] <= 1
    /\ Once(queue, e) /\ Once(held, e) /\ Once(buffer, e)
    /\ e \in Range(queue) => ~InHand(e) /\ e \notin Range(buffer) /\ stored[e] = 0
    /\ InHand(e) => e \notin Range(buffer) /\ (stored[e] > 0 => pc = "committed")
    /\ e \in Range(buffer) /\ stored[e] > 0 => phase = "replay" /\ pc = "committed"
    /\ e \notin logged => stored[e] = 0 /\ e \notin Range(queue) \cup Range(buffer) /\ ~InHand(e)

\* The invariant behind NoUnexplainedDuplicates.
DInv ==
    /\ phase = "replay" => held = buffer
    /\ \A e \in Events \ unsettled : Single(e)

LEMMA EmptySeq == <<>> \in Seq(Events) /\ Range(<<>>) = {} /\ \A e : Once(<<>>, e)
BY DEF Range, Once

LEMMA DInvInit == Init => DInv
<1> SUFFICES ASSUME Init, NEW e \in Events PROVE Single(e)
  BY DEF Init, DInv
<1>1. queue = <<>> /\ held = <<>> /\ buffer = <<>> /\ stored[e] = 0
  BY DEF Init
<1>2. QED BY <1>1, EmptySeq DEF Single, InHand

\* The code is done with what it held: it went to the file, or was stored already.
LEMMA SingleDone ==
    ASSUME TypeOK, DInv, NEW e \in Events \ unsettled, Single(e), Done,
           UNCHANGED <<queue, stored, logged>>,
           Once(buffer', e),
           e \in Range(buffer') => e \notin Range(queue) /\ stored[e] = 0 /\ e \in logged
    PROVE  Single(e)'
<1>1. held' = <<>> /\ phase' # "replay"
  BY DEF Done
<1>2. QED BY <1>1, EmptySeq DEF Single, InHand

LEMMA DInvStep == TypeOK /\ DInv /\ [Next]_vars => DInv'
<1> SUFFICES ASSUME TypeOK, DInv, [Next]_vars PROVE DInv'
  OBVIOUS
<1>t. /\ queue \in Seq(Events) /\ held \in Seq(Events) /\ buffer \in Seq(Events)
      /\ stored \in [Events -> Nat]
  BY DEF TypeOK
<1>p. pc = "idle" <=> phase = "down"
  BY DEF TypeOK
<1>0. unsettled \subseteq unsettled'
  BY DEF Next, Worker, Post, vars, Log, WorkerFrame, PostFrame, Start, BackendReturns, Stop,
     Crash, Outage, Collect, WaitTimesOut, WaitGets, BackoffEnds, Commit, Acknowledged,
     Unreachable, ErrorStatus, AnswerLost, WriteBuffer, WriteFails, RemoveFails
<1>r. ASSUME phase' = "replay" PROVE held' = buffer'
  <2>1. Start \/ (phase = "replay" /\ UNCHANGED <<held, buffer>>)
    BY <1>r DEF Next, Worker, Post, vars, Log, WorkerFrame, PostFrame, Start, BackendReturns, Stop,
     Crash, Outage, Collect, WaitTimesOut, WaitGets, BackoffEnds, Commit, Acknowledged,
     Unreachable, ErrorStatus, AnswerLost, WriteBuffer, WriteFails, RemoveFails, Done, Undelivered, Gone
  <2>2. QED BY <1>r, <2>1 DEF Start, DInv
<1> SUFFICES ASSUME NEW e \in Events \ unsettled' PROVE Single(e)'
  BY <1>r DEF DInv
<1>s. Single(e) /\ e \in Events \ unsettled
  BY <1>0 DEF DInv
<1>z. /\ Once(queue, e) /\ Once(held, e) /\ Once(buffer, e)
      /\ stored[e] \in Nat /\ stored[e] <= 1
  BY <1>s, <1>t DEF Single
<1>1. ASSUME NEW x \in Events, Log(x) PROVE Single(e)'
  <2>1. UNCHANGED <<phase, pc, held, buffer, stored>> /\ x \notin logged /\ logged' = logged \cup {x}
    BY <1>1 DEF Log
  <2>2. CASE queue' = queue
    BY <1>s, <2>1, <2>2 DEF Single, InHand
  <2>3. CASE queue' = Append(queue, x)
    <3>1. queue' = queue \o <<x>> /\ <<x>> \in Seq(Events)
      BY <1>t, <2>3
    <3>2. Range(<<x>>) = {x} /\ Once(<<x>>, e)
      BY DEF Range, Once
    <3>3. Range(queue') = Range(queue) \cup {x}
      <4> DEFINE one == <<x>>
      <4>1. one \in Seq(Events) /\ queue' = queue \o one /\ Range(one) = {x}
        BY <3>1, <3>2
      <4> HIDE DEF one
      <4>2. Range(queue \o one) = Range(queue) \cup Range(one)
        BY <1>t, <4>1, RangeConcat
      <4>3. QED BY <4>1, <4>2
    <3>4. e = x => e \notin Range(queue)
      BY <1>s, <2>1 DEF Single
    <3>5. Once(queue', e)
      BY <1>t, <1>z, <3>1, <3>2, <3>4, OnceConcat
    <3>6. QED BY <1>s, <2>1, <3>3, <3>5 DEF Single, InHand
  <2>4. QED BY <1>1, <2>2, <2>3 DEF Log
<1>2. ASSUME NEW n \in 0 .. Len(queue), NEW batch \in Seq(Events), phase = "running",
             pc \in {"collect", "wait"},
             UNCHANGED <<phase, buffer, stored, logged>>,
             TakeBatch(batch, SubSeq(queue, n + 1, Len(queue))),
             \/ batch = SubSeq(queue, 1, n)
             \/ batch = held \o SubSeq(queue, 1, n)
      PROVE  Single(e)'
  <2> DEFINE a == SubSeq(queue, 1, n)
             b == SubSeq(queue, n + 1, Len(queue))
  <2>1. /\ a \in Seq(Events) /\ b \in Seq(Events) /\ Range(queue) = Range(a) \cup Range(b)
        /\ Once(a, e) /\ Once(b, e) /\ (e \in Range(a) => e \notin Range(b))
    BY <1>t, <1>z, RangeSplit, OnceSplit
  <2>2. held' = batch /\ queue' = b /\ pc' = "post" /\ (batch = a \/ batch = held \o a)
    BY <1>2 DEF TakeBatch
  <2> HIDE DEF a, b
  <2>3. e \in Range(queue) => e \notin Range(held)
    BY <1>s, <1>2 DEF Single, InHand
  <2>4. Once(batch, e) /\ Range(batch) \subseteq Range(held) \cup Range(a)
    <3>1. CASE batch = a
      BY <2>1, <3>1
    <3>2. CASE batch = held \o a
      BY <1>t, <1>z, <2>1, <2>3, <3>2, RangeConcat, OnceConcat
    <3>3. QED BY <2>2, <3>1, <3>2
  <2>5. stored[e] > 0 => ~InHand(e) /\ e \notin Range(queue)
    BY <1>s, <1>z, <1>2 DEF Single
  <2>6. QED BY <1>s, <1>z, <1>2, <2>1, <2>2, <2>3, <2>4, <2>5 DEF Single, InHand
<1>3. CASE Collect
  <2>1. CASE Len(queue) >= BatchSize
    <3>1. BatchSize \in 0 .. Len(queue)
      BY <1>t, <2>1, AuditAssumption
    <3>2. SubSeq(queue, 1, BatchSize) \in Seq(Events)
      BY <1>t, <3>1, RangeSplit
    <3>3. QED BY <1>3, <1>2, <2>1, <3>1, <3>2 DEF Collect, WorkerFrame
  <2>2. CASE ~(Len(queue) >= BatchSize)
    BY <1>3, <1>s, <1>z, <2>2, EmptySeq DEF Collect, WorkerFrame, Single, InHand
  <2>3. QED BY <2>1, <2>2
<1>4. CASE WaitTimesOut
  BY <1>4, <1>s, <1>z, EmptySeq DEF WaitTimesOut, WorkerFrame, Single, InHand
<1>5. CASE WaitGets
  <2> DEFINE missing == BatchSize - Len(held)
  <2>1. CASE FillsBatch
    <3>1. missing \in 0 .. Len(queue)
      BY <1>5, <2>1, AuditAssumption DEF WaitGets, FillsBatch, TypeOK
    <3>2. SubSeq(queue, 1, missing) \in Seq(Events)
      BY <1>t, <3>1, RangeSplit
    <3>3. held \o SubSeq(queue, 1, missing) \in Seq(Events)
      BY <1>t, <3>2
    <3>4. /\ phase = "running" /\ pc \in {"collect", "wait"}
          /\ UNCHANGED <<phase, buffer, stored, logged>>
          /\ TakeBatch(held \o SubSeq(queue, 1, missing), SubSeq(queue, missing + 1, Len(queue)))
      BY <1>5, <2>1 DEF WaitGets, WorkerFrame
    <3> HIDE DEF missing
    <3>5. QED BY <1>2, <3>1, <3>3, <3>4
  <2>2. CASE ~FillsBatch
    BY <1>5, <1>s, <1>z, <2>2, EmptySeq DEF WaitGets, WorkerFrame, Single, InHand
  <2>3. QED BY <2>1, <2>2
<1>6. CASE BackoffEnds
  BY <1>6, <1>s DEF BackoffEnds, WorkerFrame, Single, InHand
<1>7. CASE Commit
  <2>1. /\ pc = "post" /\ pc' = "committed"
        /\ UNCHANGED <<phase, held, buffer, queue, logged>>
    BY <1>7 DEF Commit, PostFrame
  <2>2. stored'[e] = stored[e] + (IF e \in Range(held) THEN 1 ELSE 0)
    BY <1>7, <1>t, <1>z, OnceCount DEF Commit
  <2>3. e \in Range(held) => stored[e] = 0 /\ e \notin Range(queue)
    BY <1>s, <1>z, <2>1 DEF Single, InHand, DInv
  <2>4. InHand(e)' = InHand(e)
    BY <2>1 DEF InHand
  <2>5. e \notin logged => ~InHand(e) /\ e \notin Range(buffer)
    BY <1>s DEF Single
  <2>6. phase = "replay" => held = buffer
    BY DEF DInv
  <2>7. QED BY <1>s, <1>z, <2>1, <2>2, <2>3, <2>4, <2>5, <2>6 DEF Single, InHand
<1>8. CASE Acknowledged
  <2>1. /\ pc = "committed" /\ Done /\ UNCHANGED <<queue, stored, logged>>
        /\ buffer' = IF phase = "replay" THEN <<>> ELSE buffer
    BY <1>8 DEF Acknowledged, PostFrame
  <2>2. Once(buffer', e)
    BY <1>z, <2>1, EmptySeq
  <2>3. e \in Range(buffer') => e \notin Range(queue) /\ stored[e] = 0 /\ e \in logged
    BY <1>s, <1>z, <2>1, EmptySeq DEF Single
  <2>4. QED BY <1>s, <2>1, <2>2, <2>3, SingleDone
<1>9. CASE Unreachable \/ ErrorStatus \/ AnswerLost
  <2>1. /\ pc \in {"post", "committed"} /\ UNCHANGED <<queue, stored, logged, buffer>>
        /\ Done \/ (pc' = "write" /\ UNCHANGED <<phase, held>>)
        /\ pc = "committed" => e \notin Range(held)
    BY <1>9, <1>s DEF Unreachable, ErrorStatus, AnswerLost, PostFrame, Undelivered
  <2>2. e \in Range(buffer) => e \notin Range(queue) /\ stored[e] = 0 /\ e \in logged
    BY <1>s, <1>z, <2>1 DEF Single, DInv
  <2>3. CASE Done
    BY <1>s, <1>z, <2>1, <2>2, <2>3, SingleDone
  <2>4. CASE pc' = "write" /\ UNCHANGED <<phase, held>>
    BY <1>s, <1>z, <2>1, <2>2, <2>4 DEF Single, InHand
  <2>5. QED BY <2>1, <2>3, <2>4
<1>10. ASSUME NEW n \in 0 .. Len(held), buffer' = buffer \o Readable(SubSeq(held, 1, n)),
              n > 0 => pc = "write"
       PROVE  /\ Once(buffer', e) /\ Range(buffer) \subseteq Range(buffer')
              /\ Range(buffer') \subseteq Range(buffer) \cup Range(held)
              /\ e \in Range(buffer') =>
                    \/ e \in Range(buffer)
                    \/ e \notin Range(queue) /\ stored[e] = 0 /\ e \in logged
  <2> DEFINE lines == SubSeq(held, 1, n)
             a == Readable(lines)
  <2>1. /\ a \in Seq(Events) /\ Range(a) \subseteq Range(held) /\ Once(a, e)
        /\ Range(buffer \o a) = Range(buffer) \cup Range(a)
        /\ n = 0 => a = <<>>
    <3>1. lines \in Seq(Events) /\ Range(lines) \subseteq Range(held) /\ Once(lines, e)
      BY <1>t, <1>z, <1>10, RangeSplit, OnceSplit
    <3>2. n = 0 => lines = <<>>
      BY <1>t
    <3> HIDE DEF lines
    <3>3. /\ a \in Seq(Events) /\ Range(a) \subseteq Range(lines)
          /\ a = lines \/ (lines # <<>> /\ a = SubSeq(lines, 2, Len(lines)))
      BY <3>1, ReadableLines
    <3>4. Once(a, e)
      <4>1. CASE a = lines
        BY <3>1, <4>1
      <4>2. CASE lines # <<>> /\ a = SubSeq(lines, 2, Len(lines))
        <5>1. 1 \in 0 .. Len(lines) /\ 1 + 1 = 2
          BY <3>1, <4>2
        <5>2. Once(SubSeq(lines, 1 + 1, Len(lines)), e)
          BY <3>1, <5>1, OnceSplit
        <5>3. QED BY <4>2, <5>1, <5>2
      <4>3. QED BY <3>3, <4>1, <4>2
    <3>5. n = 0 => a = <<>>
      BY <3>2, <3>3
    <3> HIDE DEF a
    <3>6. QED BY <1>t, <3>1, <3>3, <3>4, <3>5, RangeConcat
  <2>2. pc = "write" => phase # "replay" /\ (e \in Range(held) => InHand(e))
    BY DEF TypeOK, InHand
  <2> HIDE DEF a
  <2>3. e \in Range(a) => InHand(e) /\ pc = "write"
    <3>1. n = 0 => e \notin Range(a)
      BY <2>1, EmptySeq, Zenon
    <3>2. n = 0 \/ n > 0
      BY <1>t
    <3>3. QED BY <1>10, <2>1, <2>2, <3>1, <3>2, Zenon
  <2>4. e \in Range(a) => /\ e \notin Range(buffer) /\ e \notin Range(queue)
                          /\ stored[e] = 0 /\ e \in logged
    BY <1>s, <1>z, <2>3 DEF Single
  <2>5. Once(buffer \o a, e)
    BY <1>t, <1>z, <2>1, <2>4, OnceConcat
  <2>6. buffer' = buffer \o a
    BY <1>10 DEF a
  <2>7. QED BY <2>1, <2>4, <2>5, <2>6
<1>11. e \in Range(buffer) => /\ e \notin Range(queue) /\ e \in logged
                              /\ pc # "committed" => stored[e] = 0
  BY <1>s, <1>z DEF Single
<1>12. CASE WriteBuffer \/ WriteFails
  <2>1. /\ pc = "write" /\ Done /\ UNCHANGED <<queue, stored, logged>>
        /\ \E n \in 0 .. Len(held) : buffer' = buffer \o Readable(SubSeq(held, 1, n))
    <3>1. held = SubSeq(held, 1, Len(held)) /\ Len(held) \in 0 .. Len(held)
      BY AllOfHeld
    <3>2. CASE WriteBuffer
      BY <3>1, <3>2 DEF WriteBuffer, PostFrame, Written
    <3>3. CASE WriteFails
      <4>1. PICK n \in 0 .. Len(held) - 1 : buffer' = buffer \o Readable(SubSeq(held, 1, n))
        BY <3>3 DEF WriteFails, Written
      <4>2. n \in 0 .. Len(held)
        BY <1>t
      <4>3. QED BY <3>3, <4>1, <4>2 DEF WriteFails, PostFrame
    <3>4. QED BY <1>12, <3>2, <3>3
  <2>2. Once(buffer', e)
    BY <1>10, <2>1
  <2>3. e \in Range(buffer') => e \notin Range(queue) /\ stored[e] = 0 /\ e \in logged
    BY <1>10, <1>11, <2>1
  <2>4. QED BY <1>s, <2>1, <2>2, <2>3, SingleDone
<1>13. CASE Start
  <2>1. /\ phase = "down" /\ UNCHANGED <<queue, buffer, stored, logged>>
        /\ \/ phase' = "running" /\ held' = held
           \/ phase' = "replay" /\ held' = buffer
    BY <1>13 DEF Start
  <2>2. pc # "committed"
    BY <1>p, <2>1
  <2>3. QED BY <1>s, <1>z, <1>11, <2>1, <2>2 DEF Single, InHand
<1>14. CASE Stop \/ Crash
  <2>1. /\ UNCHANGED <<stored, logged>> /\ queue' = <<>> /\ phase' # "replay"
        /\ held' = <<>> \/ (Stop /\ held' = queue)
        /\ pc = "committed" => e \notin Range(held)
    BY <1>14, <1>s DEF Stop, Crash, Gone
  <2>2. \E n \in 0 .. Len(held) : /\ buffer' = buffer \o Readable(SubSeq(held, 1, n))
                                  /\ n > 0 => pc = "write"
    BY <1>14 DEF Stop, Crash, Written
  <2>3. /\ Once(buffer', e)
        /\ e \in Range(buffer') => /\ e \notin Range(queue) /\ e \in logged
                                   /\ pc # "committed" => stored[e] = 0
        /\ Range(buffer') \subseteq Range(buffer) \cup Range(held)
    <3>1. /\ Once(buffer', e)
          /\ Range(buffer') \subseteq Range(buffer) \cup Range(held)
          /\ e \in Range(buffer') =>
                \/ e \in Range(buffer)
                \/ e \notin Range(queue) /\ stored[e] = 0 /\ e \in logged
      BY <1>10, <2>2
    <3>2. QED BY <1>11, <3>1
  <2>4. pc = "committed" /\ e \in Range(buffer') => stored[e] = 0
    <3>1. SUFFICES ASSUME pc = "committed", e \in Range(buffer') PROVE stored[e] = 0
      OBVIOUS
    <3>2. e \in Range(buffer) /\ e \notin Range(held)
      BY <2>1, <2>3, <3>1
    <3>3. QED BY <1>s, <1>z, <3>2 DEF Single, DInv
  <2>5. Stop => phase # "replay"
    BY DEF Stop
  <2>6. QED BY <1>s, <1>z, <2>1, <2>3, <2>4, <2>5, EmptySeq DEF Single, InHand
<1>15. CASE Outage \/ BackendReturns \/ UNCHANGED vars
  <2>1. UNCHANGED <<phase, pc, queue, held, buffer, stored, logged>>
    BY <1>15 DEF Outage, BackendReturns, vars
  <2>2. QED BY <1>s, <2>1 DEF Single, InHand
<1>16. CASE RemoveFails
  <2>1. /\ pc = "committed" /\ phase = "replay" /\ phase' = "down" /\ queue' = <<>> /\ held' = <<>>
        /\ UNCHANGED <<stored, logged, buffer>> /\ e \notin Range(held)
    BY <1>16, <1>s DEF RemoveFails, Gone
  <2>2. e \notin Range(buffer)
    BY <2>1 DEF DInv
  <2>3. QED BY <1>s, <1>z, <2>1, <2>2, EmptySeq DEF Single, InHand
<1>17. QED
  BY <1>1, <1>3, <1>4, <1>5, <1>6, <1>7, <1>8, <1>9, <1>12, <1>13, <1>14, <1>15, <1>16
     DEF Next, Worker, Post

\* An event has two rows in the service only if a POST stored it and the gateway never
\* heard of it, or heard and could not remove the file: for any number of stops, kills, outages, late answers and disk failures,
\* the queue, the batch, the file and the service hand an event on to one another without
\* keeping it (_worker, _write_to_buffer, _replay_buffer, _flush_remaining).
THEOREM NoDuplicates == Spec => []NoUnexplainedDuplicates
<1>1. TypeOK /\ DInv => NoUnexplainedDuplicates
  <2> SUFFICES ASSUME TypeOK, DInv, NEW e \in Events \ unsettled PROVE ~(stored[e] > 1)
    BY DEF NoUnexplainedDuplicates
  <2>1. stored[e] \in Nat /\ stored[e] <= 1
    BY DEF TypeOK, DInv, Single
  <2>2. QED BY <2>1
<1>2. QED BY TypeInit, TypeStep, DInvInit, DInvStep, <1>1, PTL DEF Spec
=============================================================================
