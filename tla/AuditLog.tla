------------------------------ MODULE AuditLog ------------------------------
(***************************************************************************)
(* The gateway's audit pipeline (AuditLogger): handlers put events on a     *)
(* bounded in-memory queue, one worker task collects batches and POSTs them *)
(* to the central service, a batch that could not be delivered is appended  *)
(* to a local file, and the file is replayed when the gateway starts.       *)
(*                                                                         *)
(* The worker is atomic between awaits: collecting what is immediately      *)
(* available is one step; waiting for one more event, the POST, and the     *)
(* write to the file are awaits where it can be cancelled or killed.        *)
(* The server inserts a batch in one transaction and answers after that.    *)
(***************************************************************************)
EXTENDS Naturals, Sequences, FiniteSets, Functions

CONSTANTS
    Events,       \* the events handlers log, each at most once
    BatchSize,    \* batch_size (50)
    QueueSize,    \* max_queue_size (1000)
    Faults,       \* the faults that may happen, see FaultKinds
    MaxOutages,   \* bound: times the central service becomes unreachable
    MaxStops,     \* bound: graceful shutdowns
    MaxCrashes    \* bound: kills of the gateway process, and starts that fail

\* "offline": the service is unreachable for a while; "error": it answers 500
\* and stores nothing; "late": it stores the batch but the answer comes after
\* the 5 s timeout or not at all; "disk": writing or removing the buffer file fails.
FaultKinds == {"offline", "error", "late", "disk"}

ASSUME AuditAssumption ==
    /\ BatchSize \in Nat \ {0} /\ QueueSize \in Nat \ {0}
    /\ Faults \subseteq FaultKinds
    /\ MaxOutages \in Nat /\ MaxStops \in Nat /\ MaxCrashes \in Nat

VARIABLES
    phase,      \* "down", "replay" (start), "running", "flush" (stop)
    pc,         \* where the worker, the replay or the flush is
    queue,      \* asyncio.Queue
    held,       \* the local variable events of the code under way
    buffer,     \* the readable lines of the buffer file
    torn,       \* the file has a line that is not JSON
    openEnded,  \* its last line is an incomplete one
    stored,     \* stored[e]: rows the service holds for e
    backendUp,  \* the service is reachable
    logged,     \* history: events passed to log()
    dropped,    \* history: events lost with a critical log, or by a kill
    silent,     \* history: events lost without a word, see SentAccounted
    sent,       \* history: events that have been in a complete batch or a flush
    unsettled,  \* history: events the service stored and the gateway kept all the same
    counts      \* history: outages, stops and crashes so far

file == <<buffer, torn, openEnded>>

vars == <<phase, pc, queue, held, buffer, torn, openEnded, stored, backendUp, logged,
          dropped, silent, sent, unsettled, counts>>

\* Every variable holds a value the code could put there; while the worker waits
\* its batch is not full.
TypeOK ==
    /\ phase \in {"down", "replay", "running", "flush"}
    /\ pc \in {"idle", "collect", "wait", "backoff", "post", "committed", "write"}
    /\ pc = "idle" <=> phase = "down"
    /\ phase = "replay" => pc \in {"post", "committed"}
    /\ phase = "flush" => pc \in {"post", "committed", "write"}
    /\ queue \in Seq(Events) /\ Len(queue) <= QueueSize
    /\ held \in Seq(Events)
    /\ pc = "wait" => Len(held) < BatchSize
    /\ buffer \in Seq(Events)
    /\ torn \in BOOLEAN /\ openEnded \in BOOLEAN /\ (openEnded => torn)
    /\ stored \in [Events -> Nat]
    /\ backendUp \in BOOLEAN
    /\ logged \in SUBSET Events /\ dropped \in SUBSET Events
    /\ silent \in SUBSET Events
    /\ sent \in SUBSET Events /\ unsettled \in SUBSET Events
    /\ counts \in [{"outage", "stop", "crash"} -> Nat]

Init ==
    /\ phase = "running" /\ pc = "collect"
    /\ queue = <<>> /\ held = <<>> /\ buffer = <<>>
    /\ torn = FALSE /\ openEnded = FALSE
    /\ stored = [e \in Events |-> 0]
    /\ backendUp = TRUE
    /\ logged = {} /\ dropped = {} /\ silent = {} /\ sent = {} /\ unsettled = {}
    /\ counts = [k \in {"outage", "stop", "crash"} |-> 0]

Count(k) == counts' = [counts EXCEPT ![k] = @ + 1]

-----------------------------------------------------------------------------
(* log(): called by request handlers while the gateway serves *)

\* Mutant of HasRoom: one event too many.
HasRoom_OneMore == Len(queue) <= QueueSize

HasRoom == Len(queue) < QueueSize

\* put_nowait; a full queue drops the event and logs at CRITICAL.
Log(e) ==
    /\ phase = "running"
    /\ e \notin logged
    /\ logged' = logged \cup {e}
    /\ IF HasRoom
       THEN queue' = Append(queue, e) /\ UNCHANGED dropped
       ELSE dropped' = dropped \cup {e} /\ UNCHANGED queue
    /\ UNCHANGED <<phase, pc, held, file, stored, backendUp, silent, sent, unsettled,
                   counts>>

-----------------------------------------------------------------------------
(* _worker() *)

WorkerFrame == UNCHANGED <<phase, file, stored, backendUp, logged, dropped, silent,
                           unsettled, counts>>

\* The worker goes on to the POST with batch, leaving rest on the queue.
TakeBatch(batch, rest) ==
    /\ held' = batch
    /\ queue' = rest
    /\ sent' = sent \cup Range(batch)
    /\ pc' = "post"

\* get_nowait() until the batch is full or the queue is empty.
Collect ==
    /\ phase = "running" /\ pc = "collect"
    /\ IF Len(queue) >= BatchSize
       THEN TakeBatch(SubSeq(queue, 1, BatchSize),
                      SubSeq(queue, BatchSize + 1, Len(queue)))
       ELSE /\ held' = queue
            /\ queue' = <<>>
            /\ pc' = "wait"
            /\ UNCHANGED sent
    /\ WorkerFrame

\* flush_interval passes without a new event: "continue", and the next
\* iteration starts from an empty list whatever this one had collected.
WaitTimesOut ==
    /\ phase = "running" /\ pc = "wait"
    /\ queue = <<>>
    /\ held' = <<>>
    /\ pc' = "collect"
    /\ UNCHANGED <<queue, sent>>
    /\ WorkerFrame

FillsBatch == Len(queue) >= BatchSize - Len(held)

\* A new event wakes the worker, which drains what else is there.  If that fills
\* the batch it is sent; if not, get_nowait() raises QueueEmpty, which only the
\* outer handler catches: the list is gone and the worker sleeps for a second.
WaitGets ==
    /\ phase = "running" /\ pc = "wait"
    /\ queue # <<>>
    /\ LET missing == BatchSize - Len(held)
       IN IF FillsBatch
          THEN TakeBatch(held \o SubSeq(queue, 1, missing),
                         SubSeq(queue, missing + 1, Len(queue)))
          ELSE /\ held' = <<>>
               /\ queue' = <<>>
               /\ pc' = "backoff"
               /\ UNCHANGED sent
    /\ WorkerFrame

\* Mutant of BackoffEnds: the exception ends the task.
BackoffEnds_TaskDies == pc = "backoff" /\ UNCHANGED vars

BackoffEnds ==
    /\ phase = "running" /\ pc = "backoff"
    /\ pc' = "collect"
    /\ UNCHANGED <<queue, held, sent>>
    /\ WorkerFrame

-----------------------------------------------------------------------------
(* POST /audit/batch, of the worker, the replay and the shutdown flush *)

\* The code after the batch is dealt with: the worker's next iteration, the end
\* of start(), or the end of stop().
Done ==
    /\ held' = <<>>
    /\ phase' = IF phase = "flush" THEN "down" ELSE "running"
    /\ pc' = IF phase = "flush" THEN "idle" ELSE "collect"

PostFrame == UNCHANGED <<queue, backendUp, logged, sent, counts>>

\* The server's transaction commits.
Commit ==
    /\ pc = "post"
    /\ backendUp
    /\ stored' = [e \in Events |->
                     stored[e] + Cardinality({i \in DOMAIN held : held[i] = e})]
    /\ pc' = "committed"
    /\ UNCHANGED <<phase, held, file, dropped, silent, unsettled>>
    /\ PostFrame

\* Mutant of Acknowledged: the replayed file is kept.
Acknowledged_KeepFile ==
    /\ pc = "committed"
    /\ Done
    /\ UNCHANGED <<file, stored, dropped, silent, unsettled>>
    /\ PostFrame

\* Status 200; a replay removes the file.
Acknowledged ==
    /\ pc = "committed"
    /\ IF phase = "replay"
       THEN buffer' = <<>> /\ torn' = FALSE /\ openEnded' = FALSE
       ELSE UNCHANGED file
    /\ Done
    /\ UNCHANGED <<stored, dropped, silent, unsettled>>
    /\ PostFrame

\* What each of the three does with a batch it believes undelivered: the worker
\* and the flush write it to the file, a replay leaves the file as it is.
Undelivered ==
    IF phase = "replay"
    THEN Done
    ELSE pc' = "write" /\ UNCHANGED <<phase, held>>

\* No connection: nothing is stored, httpx.RequestError is raised.
Unreachable ==
    /\ pc = "post"
    /\ ~backendUp
    /\ Undelivered
    /\ UNCHANGED <<file, stored, dropped, silent, unsettled>>
    /\ PostFrame

\* Mutant of ErrorStatus: the worker, too, ignores the status.
ErrorStatus_Ignored ==
    /\ pc = "post"
    /\ backendUp /\ "error" \in Faults
    /\ Done
    /\ UNCHANGED <<file, stored, dropped, silent, unsettled>>
    /\ PostFrame

\* The transaction fails and the status is 500.  The worker raises and buffers,
\* a replay keeps the file, and the flush does not look at the status.
ErrorStatus ==
    /\ pc = "post"
    /\ backendUp /\ "error" \in Faults
    /\ IF phase = "flush"
       THEN Done /\ silent' = silent \cup Range(held)
       ELSE Undelivered /\ UNCHANGED silent
    /\ UNCHANGED <<file, stored, dropped, unsettled>>
    /\ PostFrame

\* The batch is stored but no answer comes in time.
AnswerLost ==
    /\ pc = "committed"
    /\ "late" \in Faults \/ ~backendUp
    /\ Undelivered
    /\ unsettled' = unsettled \cup Range(held)
    /\ UNCHANGED <<file, stored, dropped, silent>>
    /\ PostFrame

\* Lines written after an incomplete one: the first is glued to it, and neither can be read.
Glued(lines) == IF openEnded /\ lines # <<>> THEN {Head(lines)} ELSE {}
Readable(lines) == IF openEnded /\ lines # <<>> THEN Tail(lines) ELSE lines

\* The file is opened in append mode; t: the writing ended inside of a line.
Written(lines, t) ==
    /\ buffer' = buffer \o Readable(lines)
    /\ torn' = (torn \/ t)
    /\ openEnded' = (t \/ (openEnded /\ lines = <<>>))

\* _write_to_buffer().
WriteBuffer ==
    /\ pc = "write"
    /\ Written(held, FALSE)
    /\ silent' = silent \cup Glued(held)
    /\ Done
    /\ UNCHANGED <<stored, dropped, unsettled>>
    /\ PostFrame

\* The write fails after some lines; the exception is logged and swallowed.
WriteFails ==
    /\ pc = "write"
    /\ "disk" \in Faults
    /\ \E n \in 0 .. Len(held) - 1, t \in BOOLEAN :
          /\ Written(SubSeq(held, 1, n), t)
          /\ silent' = silent \cup Glued(SubSeq(held, 1, n))
          /\ dropped' = dropped \cup Range(SubSeq(held, n + 1, Len(held)))
    /\ Done
    /\ UNCHANGED <<stored, unsettled>>
    /\ PostFrame

-----------------------------------------------------------------------------
(* start(), stop() and the end of the process *)

\* Memory after the process has ended.
Gone ==
    /\ phase' = "down" /\ pc' = "idle"
    /\ queue' = <<>> /\ held' = <<>>

\* _replay_buffer() reads the file and starts the POST; an unreadable line ends
\* the replay and the file stays.
Start ==
    /\ phase = "down"
    /\ IF buffer = <<>> \/ torn
       THEN phase' = "running" /\ pc' = "collect" /\ UNCHANGED held
       ELSE phase' = "replay" /\ pc' = "post" /\ held' = buffer
    /\ UNCHANGED <<queue, file, stored, backendUp, logged, dropped, silent, sent,
                   unsettled, counts>>

\* stop(): the worker is cancelled wherever it is, and what it holds is gone,
\* except for the lines already written; then the QUEUE is flushed.
Stop ==
    /\ phase = "running"
    /\ counts["stop"] < MaxStops
    /\ Count("stop")
    /\ \E n \in 0 .. Len(held) :
          /\ n > 0 => pc = "write"
          /\ Written(SubSeq(held, 1, n), FALSE)
          /\ silent' = silent \cup Glued(SubSeq(held, 1, n))
                             \cup (IF pc = "committed" THEN {} ELSE Range(SubSeq(held, n + 1, Len(held))))
    /\ unsettled' = IF pc = "committed" THEN unsettled \cup Range(held) ELSE unsettled
    /\ sent' = sent \cup Range(queue)
    /\ IF queue = <<>>
       THEN Gone
       ELSE phase' = "flush" /\ pc' = "post" /\ held' = queue /\ queue' = <<>>
    /\ UNCHANGED <<stored, backendUp, logged, dropped>>

\* The process is killed; a write under way leaves some lines, the last of them
\* perhaps incomplete.
Crash ==
    /\ phase # "down"
    /\ counts["crash"] < MaxCrashes
    /\ Count("crash")
    /\ \E n \in 0 .. Len(held), t \in BOOLEAN :
          /\ n > 0 \/ t => pc = "write"
          /\ Written(SubSeq(held, 1, n), t)
    /\ unsettled' = IF pc = "committed" THEN unsettled \cup Range(held) ELSE unsettled
    /\ dropped' = IF phase = "replay" THEN dropped
                  ELSE dropped \cup Range(held) \cup Range(queue)
    /\ Gone
    /\ UNCHANGED <<stored, backendUp, logged, silent, sent>>

\* The replay is acknowledged and os.remove() fails: nothing catches the OSError, start()
\* raises, the gateway does not come up, and the file is there for the next start.
RemoveFails ==
    /\ phase = "replay" /\ pc = "committed"
    /\ "disk" \in Faults
    /\ counts["crash"] < MaxCrashes
    /\ Count("crash")
    /\ unsettled' = unsettled \cup Range(held)
    /\ Gone
    /\ UNCHANGED <<file, stored, backendUp, logged, dropped, silent, sent>>

\* The central service (or the network to it) fails and comes back.
Outage ==
    /\ "offline" \in Faults
    /\ backendUp
    /\ counts["outage"] < MaxOutages
    /\ Count("outage")
    /\ backendUp' = FALSE
    /\ UNCHANGED <<phase, pc, queue, held, file, stored, logged, dropped, silent,
                   sent, unsettled>>

BackendReturns ==
    /\ ~backendUp
    /\ backendUp' = TRUE
    /\ UNCHANGED <<phase, pc, queue, held, file, stored, logged, dropped, silent,
                   sent, unsettled, counts>>

-----------------------------------------------------------------------------
Worker == Collect \/ WaitTimesOut \/ WaitGets \/ BackoffEnds

Post == \/ Commit \/ Acknowledged \/ Unreachable \/ ErrorStatus \/ AnswerLost
        \/ WriteBuffer \/ WriteFails

Next == \/ \E e \in Events : Log(e)
        \/ Worker \/ Post
        \/ Start \/ Stop \/ Crash \/ RemoveFails \/ Outage \/ BackendReturns

Spec == Init /\ [][Next]_vars

\* The worker task is scheduled, every POST and every file write ends, an outage
\* ends.  Nothing is assumed of restarts.
Fairness == WF_vars(Worker) /\ WF_vars(Post) /\ WF_vars(BackendReturns)

FairSpec == Spec /\ Fairness

-----------------------------------------------------------------------------
(* Properties *)

OnRecord(e) == stored[e] > 0 \/ e \in Range(buffer)

InMemory(e) == e \in Range(queue) \cup Range(held)

\* An event that has been part of a complete batch or of the shutdown flush is stored,
\* buffered, still held, or was lost loudly, whatever the order of outages, errors, late
\* answers, disk failures, stops and kills.  The code has three silent losses, and no other:
\* what the worker holds undelivered when stop() cancels it, a flush the service answers
\* with an error, and the first event written after an incomplete line.
SentAccounted ==
    \A e \in sent : OnRecord(e) \/ InMemory(e) \/ e \in dropped \cup silent


\* An event is stored twice only if a POST stored it without the gateway learning of it, or
\* the replayed file could not be removed; any other acknowledged delivery is the last one.
NoUnexplainedDuplicates ==
    \A e \in Events : stored[e] > 1 => e \in unsettled

\* The worker never stops taking events off the queue, whatever fails.
QueueDrains == \A e \in Events : e \in Range(queue) ~> e \notin Range(queue)
=============================================================================
