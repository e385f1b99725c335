------------------------------- MODULE Ingest -------------------------------
(***************************************************************************)
(* What the central service does with a batch of audit events               *)
(* (POST /audit/batch): it stores the batch in one transaction, alerts      *)
(* every channel of every serious event, records provenance, and only then  *)
(* answers.  The gateway waits five seconds, an alert may take as long for  *)
(* each channel; a gateway that has given up sends the batch again after a  *)
(* restart, while the first handler may still be at work.                   *)
(*                                                                          *)
(* Provenance and details are dicts, which a JSONB column takes only when   *)
(* the pool has a codec for them; `codec` is chosen once.  The pool of      *)
(* audit_db.py registers none.                                              *)
(***************************************************************************)
EXTENDS Integers, FiniteSets, Functions

CONSTANTS
    Batches,     \* the batches, each a sequence of events
    Info,        \* Info[e]: the type, the component and the provenance of event e
    Channels,    \* the configured channels, in order
    MaxSends,    \* bound on the sendings of one batch
    Codecs,      \* possible values of `codec`
    MaxFaults    \* bound on failed statements and crashes

Events == DOMAIN Info
Types == {"allow", "block", "warn", "pause"}
Sendings == 1 .. MaxSends

\* An event is in one batch only: the queue of the gateway hands it out once.  The
\* channels are the keys of a dict.
ASSUME InfoAssumption ==
    /\ \A e \in Events : /\ Info[e].type \in Types /\ Info[e].component \in STRING
                          /\ Info[e].provenance \in {"none", "good", "malformed"}
    /\ \A b \in Batches : Range(b) \subseteq Events /\ IsInjective(b)
    /\ \A a, b \in Batches : Range(a) \cap Range(b) # {} => a = b
    /\ IsInjective(Channels)
    /\ Codecs \subseteq BOOLEAN /\ MaxFaults \in Nat /\ MaxSends \in Nat

VARIABLES
    codec,     \* the pool takes dicts
    sent,      \* sent[b]: how often the gateway has sent b
    gateway,   \* gateway[b]: what the gateway knows of b
    handler,   \* handler[b][n]: where the handler of the n-th sending is
    jobs,      \* jobs[b][n]: what it has still to do after the transaction
    stored,    \* stored[e]: rows of e in audit_logs
    tried,     \* tried[e][c]: alerts of e handed to channel c
    records,   \* records[e]: rows of e in provenance
    faults,    \* faults so far
    lost,      \* history: lost[e][c], alerts a crash has kept from being tried
    unsure     \* history: batches the gateway gave up while they were being handled

vars == <<codec, sent, gateway, handler, jobs, stored, tried, records, faults, lost, unsure>>
service == <<handler, jobs, stored, tried, records>>

\* A handler is at "none", "insert", "work", "done", "failed" or "killed".
Live == {"insert", "work"}

(***************************************************************************)
(* _get_severity: by type first, then by component.                         *)
(***************************************************************************)
CriticalBlocks == {"guardian", "byoc_engine", "function_call_detector", "output_control",
                   "thinking_mode_verifier", "schema_validator"}

Severity(e) ==
    LET component == Info[e].component IN
    CASE Info[e].type = "block" -> IF component \in CriticalBlocks THEN "CRITICAL" ELSE "HIGH"
      [] Info[e].type = "warn" ->
            IF component = "thinking_mode_verifier" THEN "CRITICAL" ELSE "WARNING"
      [] OTHER -> "NOTICE"

Serious(e) == Severity(e) \in {"CRITICAL", "HIGH", "WARNING"}

Alert(e, c) == [kind |-> "alert", event |-> e, channel |-> c]
Provenance(e) == [kind |-> "provenance", event |-> e]

\* Mutant: a channel that is served ends the loop over the channels.
AlertsOf_First(e) == {Alert(e, Channels[1])}

\* AlertEngine.send tries every configured channel.
AlertsOf(e) == {Alert(e, c) : c \in Range(Channels)}

\* What follows the transaction: the alerts of all serious events, then provenance.
JobsOf(b) ==
    (UNION {AlertsOf(e) : e \in {d \in Range(b) : Serious(d)}})
        \cup {Provenance(e) : e \in {d \in Range(b) : Info[d].provenance # "none"}}

\* The loop over the events, in it the one over the channels; then that over provenance.
Place(s, x) == CHOOSE i \in DOMAIN s : s[i] = x

Precedes(b, j, k) ==
    \/ j.kind = "alert" /\ k.kind = "provenance"
    \/ j.kind = k.kind /\ Place(b, j.event) < Place(b, k.event)
    \/ /\ j.kind = "alert" /\ k.kind = "alert" /\ j.event = k.event
       /\ Place(Channels, j.channel) < Place(Channels, k.channel)

\* The job whose turn it is.
Turn(b, n) == {j \in jobs[b][n] : \A k \in jobs[b][n] : ~Precedes(b, k, j)}

\* Handlers at work that still have an alert of e on c, a record of e, before them.
Owing(e, c) == {bn \in Batches \X Sendings : Alert(e, c) \in jobs[bn[1]][bn[2]]}
OwingRecord(e) == {bn \in Batches \X Sendings : Provenance(e) \in jobs[bn[1]][bn[2]]}

Owed(e, c) == Cardinality(Owing(e, c))
OwedRecords(e) == Cardinality(OwingRecord(e))

Init ==
    /\ codec \in Codecs
    /\ sent = [b \in Batches |-> 0]
    /\ gateway = [b \in Batches |-> "new"]
    /\ handler = [b \in Batches |-> [n \in Sendings |-> "none"]]
    /\ jobs = [b \in Batches |-> [n \in Sendings |-> {}]]
    /\ stored = [e \in Events |-> 0]
    /\ tried = [e \in Events |-> [c \in Range(Channels) |-> 0]]
    /\ records = [e \in Events |-> 0]
    /\ faults = 0
    /\ lost = [e \in Events |-> [c \in Range(Channels) |-> 0]]
    /\ unsure = {}

(***************************************************************************)
(* The gateway: a batch of the queue, or the buffer of an earlier run.       *)
(***************************************************************************)
Send(b) ==
    /\ gateway[b] \in {"new", "buffered"}
    /\ sent[b] < MaxSends
    /\ sent' = [sent EXCEPT ![b] = @ + 1]
    /\ gateway' = [gateway EXCEPT ![b] = "waiting"]
    /\ handler' = [handler EXCEPT ![b][sent[b] + 1] = "insert"]
    /\ UNCHANGED <<codec, jobs, stored, tried, records, faults, lost, unsure>>

\* The five seconds of the client are over; the handler does not notice.
GiveUp(b) ==
    /\ gateway[b] = "waiting"
    /\ gateway' = [gateway EXCEPT ![b] = "buffered"]
    /\ unsure' = unsure \cup {b}
    /\ UNCHANGED <<codec, sent, service, faults, lost>>

(***************************************************************************)
(* audit_batch.  The answer is heard only by the client still waiting for    *)
(* it, the one of the latest sending.                                        *)
(***************************************************************************)
Heard(b, n, outcome) ==
    gateway' = IF n = sent[b] /\ gateway[b] = "waiting"
               THEN [gateway EXCEPT ![b] = outcome] ELSE gateway

\* The transaction holds all rows of the batch or, after an error, none.
Insert(b, n) ==
    /\ handler[b][n] = "insert"
    /\ codec \/ \A e \in Range(b) : Info[e].provenance = "none"
    /\ stored' = [e \in Events |-> IF e \in Range(b) THEN stored[e] + 1 ELSE stored[e]]
    /\ handler' = [handler EXCEPT ![b][n] = "work"]
    /\ jobs' = [jobs EXCEPT ![b][n] = JobsOf(b)]
    /\ UNCHANGED <<codec, sent, gateway, tried, records, faults, lost, unsure>>

\* Mutant: rows inserted one by one, without the transaction.
LeftBehind_NoTransaction(b) == {b[1]}

\* Rows an INSERT that ends with an error has left behind.
LeftBehind(b) == {}

\* asyncpg refuses a dict without a codec, or the database fails: status 500.
InsertFails(b, n) ==
    /\ handler[b][n] = "insert"
    /\ \/ /\ ~codec
          /\ \E e \in Range(b) : Info[e].provenance # "none"
          /\ UNCHANGED faults
       \/ faults < MaxFaults /\ faults' = faults + 1
    /\ stored' = [e \in Events |-> IF e \in LeftBehind(b) THEN stored[e] + 1 ELSE stored[e]]
    /\ handler' = [handler EXCEPT ![b][n] = "failed"]
    /\ Heard(b, n, "buffered")
    /\ UNCHANGED <<codec, sent, jobs, tried, records, lost, unsure>>

\* Mutant: the try stands around the loop, the first failure ends it.
Rest_LoopEnds(todo, job) == {}

\* What is left once a job is done, well or badly: each failure is caught.
Rest(todo, job) == todo \ {job}

\* One channel is tried; whether the message arrived makes no difference.
TryChannel(b, n) ==
    /\ \E job \in Turn(b, n) :
        /\ job.kind = "alert"
        /\ tried' = [tried EXCEPT ![job.event][job.channel] = @ + 1]
        /\ jobs' = [jobs EXCEPT ![b][n] = Rest(@, job)]
    /\ UNCHANGED <<codec, sent, gateway, handler, stored, records, faults, lost, unsure>>

\* ProvenanceEvent(...) rejects a malformed record; the INSERT may fail.
RecordProvenance(b, n) ==
    /\ \E job \in Turn(b, n) :
        /\ job.kind = "provenance"
        /\ \/ /\ Info[job.event].provenance = "good"
              /\ records' = [records EXCEPT ![job.event] = @ + 1]
              /\ UNCHANGED faults
           \/ /\ Info[job.event].provenance = "malformed"
              /\ UNCHANGED <<records, faults>>
           \/ /\ faults < MaxFaults /\ faults' = faults + 1
              /\ UNCHANGED records
        /\ jobs' = [jobs EXCEPT ![b][n] = Rest(@, job)]
    /\ UNCHANGED <<codec, sent, gateway, handler, stored, tried, lost, unsure>>

\* Mutant: the alerts are left to a background task and the answer goes out first.
Finished_Early(b, n) == handler[b][n] = "work"

\* The handler has done what stands before its return.
Finished(b, n) == handler[b][n] = "work" /\ jobs[b][n] = {}

Answer(b, n) ==
    /\ Finished(b, n)
    /\ handler' = [handler EXCEPT ![b][n] = "done"]
    /\ Heard(b, n, "acknowledged")
    /\ UNCHANGED <<codec, sent, jobs, stored, tried, records, faults, lost, unsure>>

\* The service stops: its handlers with it, and every client sees the connection go.
Crash ==
    /\ faults < MaxFaults /\ faults' = faults + 1
    /\ \E b \in Batches, n \in Sendings : handler[b][n] \in Live
    /\ handler' = [b \in Batches |-> [n \in Sendings |->
                      IF handler[b][n] \in Live THEN "killed" ELSE handler[b][n]]]
    /\ jobs' = [b \in Batches |-> [n \in Sendings |-> {}]]
    /\ lost' = [e \in Events |-> [c \in Range(Channels) |-> lost[e][c] + Owed(e, c)]]
    /\ gateway' = [b \in Batches |-> IF gateway[b] = "waiting" THEN "buffered" ELSE gateway[b]]
    /\ unsure' = unsure \cup {b \in Batches : gateway[b] = "waiting"}
    /\ UNCHANGED <<codec, sent, stored, tried, records>>

Step(b, n) ==
    Insert(b, n) \/ InsertFails(b, n) \/ TryChannel(b, n) \/ RecordProvenance(b, n) \/ Answer(b, n)

Next ==
    \/ \E b \in Batches : Send(b) \/ GiveUp(b)
    \/ \E b \in Batches, n \in Sendings : Step(b, n)
    \/ Crash

\* A handler that runs goes on: each await of it has a timeout or is one statement.
Fairness == \A b \in Batches, n \in Sendings : WF_vars(Step(b, n))

Spec == Init /\ [][Next]_vars
FairSpec == Spec /\ Fairness

\* Every stored copy of a serious event is alerted exactly once on every channel, is still
\* to be, or was lost in a crash; no other event is alerted; and no copy has two
\* provenance records (audit_batch, AlertEngine.send).
AlertsAccounted ==
    \A e \in Events :
        /\ \A c \in Range(Channels) :
              tried[e][c] + Owed(e, c) + lost[e][c] = IF Serious(e) THEN stored[e] ELSE 0
        /\ records[e] + OwedRecords(e) <= stored[e]

\* A batch the gateway has ticked off is stored, and every channel of every serious event
\* in it has been tried: a 200 of /audit/batch is never only "received".
AcknowledgedIsAlerted ==
    \A b \in Batches : gateway[b] = "acknowledged" =>
        \A e \in Range(b) : /\ stored[e] > 0
                            /\ Serious(e) => \A c \in Range(Channels) : tried[e][c] > 0

\* An event is stored twice, and so alerted twice, only when the gateway gave the batch up
\* while its handler was at work: an error answer leaves no row behind.
TwiceOnlyIfUnsure == \A b \in Batches : b \notin unsure => \A e \in Range(b) : stored[e] <= 1

\* A stored serious event reaches every channel's turn, whatever the others do, unless the
\* service crashes in between (the except of AlertEngine.send is inside its loop).
StoredIsAlerted ==
    \A e \in Events : \A c \in Range(Channels) :
        (Serious(e) /\ stored[e] > 0) ~> (tried[e][c] > 0 \/ lost[e][c] > 0)
=============================================================================
