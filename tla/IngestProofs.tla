----------------------------- MODULE IngestProofs -----------------------------
(***************************************************************************)
(* What is true of the ingestion of audit batches for any number of         *)
(* batches, sendings, events, channels, failed statements and crashes.      *)
(***************************************************************************)
EXTENDS Ingest, TLAPS, FiniteSetTheorems

USE InfoAssumption

-----------------------------------------------------------------------------
(* Jobs *)

JobKinds == {"alert", "provenance"}

LEMMA JobNames ==
    /\ \A d, e, c, x : Alert(d, c) = Alert(e, x) <=> d = e /\ c = x
    /\ \A d, e : Provenance(d) = Provenance(e) <=> d = e
    /\ \A d, e, c : Alert(d, c) # Provenance(e)
<1>1. \A e, c : Alert(e, c).kind = "alert" /\ Alert(e, c).event = e /\ Alert(e, c).channel = c
  BY DEF Alert
<1>2. \A e : Provenance(e).kind = "provenance" /\ Provenance(e).event = e
  BY DEF Provenance
<1>3. QED BY <1>1, <1>2

\* What follows the transaction of a batch is about the events of that batch only.
LEMMA JobsOfBatch ==
    ASSUME NEW b \in Batches
    PROVE  /\ \A j \in JobsOf(b) :
                 \/ \E e \in Range(b), c \in Range(Channels) : Serious(e) /\ j = Alert(e, c)
                 \/ \E e \in Range(b) : j = Provenance(e)
           /\ \A e, c : Alert(e, c) \in JobsOf(b) <=>
                 e \in Range(b) /\ Serious(e) /\ c \in Range(Channels)
           /\ \A e : Provenance(e) \in JobsOf(b) => e \in Range(b)
<1>1. \A j : j \in JobsOf(b) <=>
         \/ \E e \in Range(b), c \in Range(Channels) : Serious(e) /\ j = Alert(e, c)
         \/ \E e \in Range(b) : Info[e].provenance # "none" /\ j = Provenance(e)
  BY DEF JobsOf, AlertsOf
<1>2. ASSUME NEW e, NEW c
      PROVE  Alert(e, c) \in JobsOf(b) <=> e \in Range(b) /\ Serious(e) /\ c \in Range(Channels)
  BY <1>1, JobNames
<1>3. ASSUME NEW e, Provenance(e) \in JobsOf(b) PROVE e \in Range(b)
  BY <1>1, <1>3, JobNames
<1>4. QED BY <1>1, <1>2, <1>3

-----------------------------------------------------------------------------
(***************************************************************************)
(* Types.  Only a handler that has stored its batch has jobs before it, and *)
(* they are jobs of its batch; a handler exists once its sending has been   *)
(* sent.                                                                    *)
(***************************************************************************)
Handlers == {"none", "insert", "work", "done", "failed", "killed"}
GatewayStates == {"new", "waiting", "buffered", "acknowledged"}
Counts == [Events -> Nat]
Jobs == UNION {JobsOf(b) : b \in Batches}
ChannelCounts == [Events -> [Range(Channels) -> Nat]]

TInv ==
    /\ codec \in BOOLEAN
    /\ sent \in [Batches -> 0 .. MaxSends]
    /\ gateway \in [Batches -> GatewayStates]
    /\ handler \in [Batches -> [Sendings -> Handlers]]
    /\ \A b \in Batches, n \in Sendings : n > sent[b] => handler[b][n] = "none"
    /\ jobs \in [Batches -> [Sendings -> SUBSET Jobs]]
    /\ \A b \in Batches, n \in Sendings :
          /\ jobs[b][n] \subseteq JobsOf(b)
          /\ jobs[b][n] # {} => handler[b][n] = "work"
    /\ stored \in Counts /\ records \in Counts
    /\ tried \in ChannelCounts /\ lost \in ChannelCounts
    /\ faults \in 0 .. MaxFaults
    /\ unsure \subseteq Batches


LEMMA TInvInit == Init => TInv
<1> SUFFICES ASSUME Init PROVE TInv
  OBVIOUS
<1>1. \A b \in Batches, n \in Sendings : jobs[b][n] = {}
  BY DEF Init
<1>2. jobs \in [Batches -> [Sendings -> SUBSET Jobs]]
  BY DEF Init
<1>3. QED BY <1>1, <1>2 DEF Init, TInv, Handlers, GatewayStates, Counts, ChannelCounts

\* What a step of the handler of the n-th sending of b leaves to the others.
Apart(b, n) ==
    \A a \in Batches, k \in Sendings : <<a, k>> # <<b, n>> =>
        handler'[a][k] = handler[a][k] /\ jobs'[a][k] = jobs[a][k]

LEMMA HeardType ==
    ASSUME TInv, NEW b \in Batches, NEW n \in Sendings,
           NEW outcome \in {"buffered", "acknowledged"}, Heard(b, n, outcome)
    PROVE  /\ gateway' \in [Batches -> GatewayStates]
           /\ \A a \in Batches \ {b} : gateway'[a] = gateway[a]
           /\ IF n = sent[b] /\ gateway[b] = "waiting" THEN gateway'[b] = outcome
                                                      ELSE gateway'[b] = gateway[b]
BY DEF Heard, TInv, GatewayStates

\* A handler at work keeps the types if what it does to its own place does.
Handles(b, n, h, S) ==
    /\ handler' = [handler EXCEPT ![b][n] = h]
    /\ jobs' = [jobs EXCEPT ![b][n] = S]
    /\ UNCHANGED <<codec, sent, lost, unsure>>

Results ==
    /\ gateway' \in [Batches -> GatewayStates]
    /\ stored' \in Counts /\ records' \in Counts /\ tried' \in ChannelCounts
    /\ faults' \in 0 .. MaxFaults

LEMMA HandlerType ==
    ASSUME TInv, NEW b \in Batches, NEW n \in Sendings,
           NEW h \in {"work", "failed", "done"}, handler[b][n] \in {"insert", "work"},
           NEW S, S \subseteq JobsOf(b), S = {} \/ h = "work",
           Handles(b, n, h, S), Results
    PROVE  TInv' /\ Apart(b, n) /\ handler'[b][n] = h /\ jobs'[b][n] = S
<1>1. S \in SUBSET Jobs
  BY DEF Jobs
<1> USE DEF Handles, Results
<1>2. /\ handler' \in [Batches -> [Sendings -> Handlers]]
      /\ jobs' \in [Batches -> [Sendings -> SUBSET Jobs]]
      /\ handler'[b][n] = h /\ jobs'[b][n] = S
      /\ Apart(b, n)
  BY <1>1 DEF TInv, Apart, Handlers
<1>3. ASSUME NEW a \in Batches, NEW k \in Sendings
      PROVE  /\ k > sent'[a] => handler'[a][k] = "none"
             /\ jobs'[a][k] \subseteq JobsOf(a)
             /\ jobs'[a][k] # {} => handler'[a][k] = "work"
  <2>1. CASE <<a, k>> = <<b, n>>
    BY <1>2, <2>1 DEF TInv
  <2>2. CASE <<a, k>> # <<b, n>>
    BY <1>2, <2>2 DEF TInv, Apart
  <2>3. QED BY <2>1, <2>2
<1>4. QED BY <1>2, <1>3 DEF TInv

\* A statement or an answer leaves the jobs as they are, or none.
LEMMA SameJobs ==
    ASSUME TInv, NEW b \in Batches, NEW n \in Sendings
    PROVE  /\ jobs' = jobs => jobs' = [jobs EXCEPT ![b][n] = jobs[b][n]]
           /\ handler' = handler => handler' = [handler EXCEPT ![b][n] = handler[b][n]]
           /\ jobs[b][n] \in SUBSET JobsOf(b)
           /\ jobs[b][n] # {} => handler[b][n] = "work"
BY DEF TInv

LEMMA InsertEffect ==
    ASSUME TInv, NEW b \in Batches, NEW n \in Sendings, Insert(b, n)
    PROVE  /\ TInv' /\ Apart(b, n)
           /\ handler[b][n] = "insert" /\ handler'[b][n] = "work"
           /\ jobs[b][n] = {} /\ jobs'[b][n] = JobsOf(b)
           /\ \A e \in Range(b) : stored'[e] = stored[e] + 1
           /\ \A e \in Events \ Range(b) : stored'[e] = stored[e]
<1>1. /\ handler[b][n] = "insert"
      /\ stored' = [e \in Events |-> IF e \in Range(b) THEN stored[e] + 1 ELSE stored[e]]
      /\ handler' = [handler EXCEPT ![b][n] = "work"]
      /\ jobs' = [jobs EXCEPT ![b][n] = JobsOf(b)]
      /\ UNCHANGED <<codec, sent, gateway, tried, records, faults, lost, unsure>>
  BY DEF Insert
<1>2. stored' \in Counts
  BY <1>1 DEF TInv, Counts
<1>3. jobs[b][n] = {}
  BY <1>1 DEF TInv
<1>4. TInv' /\ Apart(b, n) /\ handler'[b][n] = "work" /\ jobs'[b][n] = JobsOf(b)
  <2>1. Handles(b, n, "work", JobsOf(b))
    BY <1>1 DEF Handles
  <2>2. Results
    BY <1>1, <1>2 DEF Results, TInv
  <2>3. QED BY <1>1, <2>1, <2>2, HandlerType
<1>5. QED BY <1>1, <1>3, <1>4

LEMMA InsertFailsEffect ==
    ASSUME TInv, NEW b \in Batches, NEW n \in Sendings, InsertFails(b, n)
    PROVE  /\ TInv' /\ Apart(b, n) /\ UNCHANGED <<jobs, stored>>
           /\ handler[b][n] = "insert" /\ handler'[b][n] = "failed"
           /\ Heard(b, n, "buffered")
<1>1. /\ handler[b][n] = "insert"
      /\ stored' = [e \in Events |-> stored[e]]
      /\ handler' = [handler EXCEPT ![b][n] = "failed"]
      /\ Heard(b, n, "buffered")
      /\ UNCHANGED <<codec, sent, jobs, tried, records, lost, unsure>>
      /\ faults' \in 0 .. MaxFaults
  BY DEF InsertFails, LeftBehind, TInv
<1>2. stored' = stored
  BY <1>1 DEF TInv, Counts
<1>3. jobs[b][n] = {}
  BY <1>1 DEF TInv
<1>4. gateway' \in [Batches -> GatewayStates]
  BY <1>1, HeardType
<1>5. TInv' /\ Apart(b, n) /\ handler'[b][n] = "failed"
  <2>1. Handles(b, n, "failed", {})
    BY <1>1, <1>3, SameJobs DEF Handles
  <2>2. Results
    BY <1>1, <1>2, <1>4 DEF Results, TInv
  <2>3. QED BY <1>1, <2>1, <2>2, HandlerType
<1>6. QED BY <1>1, <1>2, <1>5

\* One job is taken away; an alert counts as tried.
LEMMA TryEffect ==
    ASSUME TInv, NEW b \in Batches, NEW n \in Sendings, TryChannel(b, n)
    PROVE  \E e \in Range(b), c \in Range(Channels) :
              /\ TInv' /\ Apart(b, n)
              /\ Alert(e, c) \in jobs[b][n] /\ jobs'[b][n] = jobs[b][n] \ {Alert(e, c)}
              /\ tried'[e][c] = tried[e][c] + 1
              /\ \A d \in Events, x \in Range(Channels) :
                    <<d, x>> # <<e, c>> => tried'[d][x] = tried[d][x]
              /\ UNCHANGED handler
<1>1. PICK job \in jobs[b][n] :
         /\ job.kind = "alert"
         /\ tried' = [tried EXCEPT ![job.event][job.channel] = tried[job.event][job.channel] + 1]
         /\ jobs' = [jobs EXCEPT ![b][n] = jobs[b][n] \ {job}]
  BY DEF TryChannel, Turn, Rest
<1>2. job \in JobsOf(b)
  BY DEF TInv
<1>3. PICK e \in Range(b), c \in Range(Channels) : job = Alert(e, c)
  <2>1. \A e : Provenance(e).kind = "provenance"
    BY DEF Provenance
  <2>2. QED BY <1>1, <1>2, <2>1, JobsOfBatch
<1>4. job.event = e /\ job.channel = c /\ e \in Events
  BY <1>3 DEF Alert
<1>5. UNCHANGED <<codec, sent, gateway, handler, stored, records, faults, lost, unsure>>
  BY DEF TryChannel
<1>6. /\ tried' \in ChannelCounts
      /\ tried'[e][c] = tried[e][c] + 1
      /\ \A d \in Events, x \in Range(Channels) : <<d, x>> # <<e, c>> => tried'[d][x] = tried[d][x]
  <2>1. tried' = [tried EXCEPT ![e][c] = tried[e][c] + 1]
    BY <1>1, <1>4
  <2>2. tried \in [Events -> [Range(Channels) -> Nat]]
    BY DEF TInv, ChannelCounts
  <2>3. QED BY <1>4, <2>1, <2>2 DEF ChannelCounts
<1>7. handler[b][n] = "work"
  BY <1>1 DEF TInv
<1>8. jobs[b][n] \ {job} \in SUBSET JobsOf(b)
  BY DEF TInv
<1>9. handler' = [handler EXCEPT ![b][n] = "work"]
  BY <1>5, <1>7, SameJobs
<1>10. TInv' /\ Apart(b, n) /\ jobs'[b][n] = jobs[b][n] \ {job}
  <2>1. Handles(b, n, "work", jobs[b][n] \ {job})
    BY <1>1, <1>5, <1>9 DEF Handles
  <2>2. Results
    BY <1>1, <1>5, <1>6 DEF Results, TInv
  <2>3. jobs[b][n] \ {job} \subseteq JobsOf(b)
    BY <1>8
  <2>4. QED BY <1>7, <2>1, <2>2, <2>3, HandlerType
<1>11. QED BY <1>1, <1>3, <1>5, <1>6, <1>10

LEMMA RecordEffect ==
    ASSUME TInv, NEW b \in Batches, NEW n \in Sendings, RecordProvenance(b, n)
    PROVE  \E e \in Range(b) :
              /\ TInv' /\ Apart(b, n)
              /\ Provenance(e) \in jobs[b][n] /\ jobs'[b][n] = jobs[b][n] \ {Provenance(e)}
              /\ records'[e] \in {records[e], records[e] + 1}
              /\ \A d \in Events \ {e} : records'[d] = records[d]
              /\ UNCHANGED handler
<1>1. PICK job \in jobs[b][n] :
         /\ job.kind = "provenance"
         /\ \/ records' = [records EXCEPT ![job.event] = records[job.event] + 1] /\ faults' = faults
            \/ records' = records /\ faults' = faults
            \/ records' = records /\ faults < MaxFaults /\ faults' = faults + 1
         /\ jobs' = [jobs EXCEPT ![b][n] = jobs[b][n] \ {job}]
  <2>1. PICK job \in Turn(b, n) :
           /\ job.kind = "provenance"
           /\ \/ records' = [records EXCEPT ![job.event] = records[job.event] + 1] /\ faults' = faults
              \/ records' = records /\ faults' = faults
              \/ records' = records /\ faults < MaxFaults /\ faults' = faults + 1
           /\ jobs' = [jobs EXCEPT ![b][n] = Rest(jobs[b][n], job)]
    BY DEF RecordProvenance
  <2>2. job \in jobs[b][n]
    BY DEF Turn
  <2>3. QED BY <2>1, <2>2 DEF Rest
<1>2. job \in JobsOf(b)
  BY DEF TInv
<1>3. PICK e \in Range(b) : job = Provenance(e)
  <2>1. \A e, c : Alert(e, c).kind = "alert"
    BY DEF Alert
  <2>2. QED BY <1>1, <1>2, <2>1, JobsOfBatch
<1>4. job.event = e /\ e \in Events
  BY <1>3 DEF Provenance
<1>5. UNCHANGED <<codec, sent, gateway, handler, stored, tried, lost, unsure>>
  BY DEF RecordProvenance
<1>6. /\ records' \in Counts /\ faults' \in 0 .. MaxFaults
      /\ records'[e] \in {records[e], records[e] + 1}
      /\ \A d \in Events \ {e} : records'[d] = records[d]
  <2>1. records' = [records EXCEPT ![e] = records[e] + 1] \/ records' = records
    BY <1>1, <1>4
  <2>2. records \in [Events -> Nat] /\ faults' \in 0 .. MaxFaults
    BY <1>1 DEF TInv, Counts
  <2>3. QED BY <1>4, <2>1, <2>2 DEF Counts
<1>7. handler[b][n] = "work"
  BY <1>1 DEF TInv
<1>8. jobs[b][n] \ {job} \in SUBSET JobsOf(b)
  BY DEF TInv
<1>9. handler' = [handler EXCEPT ![b][n] = "work"]
  BY <1>5, <1>7, SameJobs
<1>10. TInv' /\ Apart(b, n) /\ jobs'[b][n] = jobs[b][n] \ {job}
  <2>1. Handles(b, n, "work", jobs[b][n] \ {job})
    BY <1>1, <1>5, <1>9 DEF Handles
  <2>2. Results
    BY <1>1, <1>5, <1>6 DEF Results, TInv
  <2>3. jobs[b][n] \ {job} \subseteq JobsOf(b)
    BY <1>8
  <2>4. QED BY <1>7, <2>1, <2>2, <2>3, HandlerType
<1>11. QED BY <1>1, <1>3, <1>5, <1>6, <1>10

LEMMA AnswerEffect ==
    ASSUME TInv, NEW b \in Batches, NEW n \in Sendings, Answer(b, n)
    PROVE  /\ TInv' /\ Apart(b, n) /\ UNCHANGED jobs
           /\ handler[b][n] = "work" /\ jobs[b][n] = {} /\ handler'[b][n] = "done"
           /\ Heard(b, n, "acknowledged")
<1>1. /\ handler[b][n] = "work" /\ jobs[b][n] = {}
      /\ handler' = [handler EXCEPT ![b][n] = "done"]
      /\ Heard(b, n, "acknowledged")
      /\ UNCHANGED <<codec, sent, jobs, stored, tried, records, faults, lost, unsure>>
  BY DEF Answer, Finished
<1>2. gateway' \in [Batches -> GatewayStates]
  BY <1>1, HeardType
<1>3. TInv' /\ Apart(b, n) /\ handler'[b][n] = "done"
  <2>1. jobs' = [jobs EXCEPT ![b][n] = {}]
    <3>1. jobs' = [jobs EXCEPT ![b][n] = jobs[b][n]]
      BY <1>1, SameJobs
    <3>2. QED BY <1>1, <3>1
  <2>2. Handles(b, n, "done", {})
    BY <1>1, <2>1 DEF Handles
  <2>3. Results
    BY <1>1, <1>2 DEF Results, TInv
  <2>4. QED BY <1>1, <2>2, <2>3, HandlerType
<1>4. QED BY <1>1, <1>3

LEMMA SendEffect ==
    ASSUME TInv, NEW b \in Batches, Send(b)
    PROVE  /\ TInv' /\ Apart(b, sent[b] + 1) /\ UNCHANGED jobs
           /\ sent[b] + 1 \in Sendings /\ sent'[b] = sent[b] + 1
           /\ handler[b][sent[b] + 1] = "none" /\ handler'[b][sent[b] + 1] = "insert"
           /\ gateway[b] \in {"new", "buffered"} /\ gateway'[b] = "waiting"
           /\ \A a \in Batches \ {b} : gateway'[a] = gateway[a] /\ sent'[a] = sent[a]
<1> DEFINE n == sent[b] + 1
<1>1. /\ sent[b] < MaxSends /\ sent' = [sent EXCEPT ![b] = n]
      /\ gateway[b] \in {"new", "buffered"} /\ gateway' = [gateway EXCEPT ![b] = "waiting"]
      /\ handler' = [handler EXCEPT ![b][n] = "insert"]
      /\ UNCHANGED <<codec, jobs, stored, tried, records, faults, lost, unsure>>
  BY DEF Send
<1>2. n \in Sendings /\ sent[b] \in Nat
  BY <1>1 DEF TInv, Sendings
<1>3. handler[b][n] = "none"
  BY <1>2 DEF TInv
<1>4. /\ sent' \in [Batches -> 0 .. MaxSends] /\ sent'[b] = n
      /\ \A a \in Batches \ {b} : sent'[a] = sent[a]
      /\ gateway' \in [Batches -> GatewayStates] /\ gateway'[b] = "waiting"
      /\ \A a \in Batches \ {b} : gateway'[a] = gateway[a]
  BY <1>1, <1>2 DEF TInv, GatewayStates, Sendings
<1> HIDE DEF n
<1>5. /\ handler' \in [Batches -> [Sendings -> Handlers]]
      /\ handler'[b][n] = "insert" /\ Apart(b, n)
  BY <1>1, <1>2 DEF TInv, Apart, Handlers
<1>6. ASSUME NEW a \in Batches, NEW k \in Sendings
      PROVE  /\ k > sent'[a] => handler'[a][k] = "none"
             /\ jobs[a][k] # {} => handler'[a][k] = "work"
  <2>1. CASE <<a, k>> = <<b, n>>
    <3>1. a = b /\ k = n
      BY <2>1
    <3>2. jobs[b][n] = {} /\ ~(n > sent'[b])
      BY <1>2, <1>3, <1>4 DEF TInv
    <3>3. QED BY <3>1, <3>2
  <2>2. CASE <<a, k>> # <<b, n>>
    BY <1>2, <1>4, <1>5, <2>2 DEF TInv, Apart, Sendings, n
  <2>3. QED BY <2>1, <2>2
<1>7. TInv'
  BY <1>1, <1>4, <1>5, <1>6 DEF TInv
<1>8. QED BY <1>1, <1>2, <1>3, <1>4, <1>5, <1>7 DEF n

LEMMA GiveUpEffect ==
    ASSUME TInv, NEW b \in Batches, GiveUp(b)
    PROVE  /\ TInv' /\ UNCHANGED <<sent, handler, jobs, stored, tried, records, lost>>
           /\ unsure' = unsure \cup {b} /\ gateway'[b] = "buffered"
           /\ \A a \in Batches \ {b} : gateway'[a] = gateway[a]
<1>1. /\ gateway' = [gateway EXCEPT ![b] = "buffered"] /\ unsure' = unsure \cup {b}
      /\ UNCHANGED <<codec, sent, handler, jobs, stored, tried, records, faults, lost>>
  BY DEF GiveUp, service
<1>2. /\ gateway' \in [Batches -> GatewayStates] /\ gateway'[b] = "buffered"
      /\ \A a \in Batches \ {b} : gateway'[a] = gateway[a]
  BY <1>1 DEF TInv, GatewayStates
<1>3. TInv'
  BY <1>1, <1>2 DEF TInv
<1>4. QED BY <1>1, <1>2, <1>3

-----------------------------------------------------------------------------
(***************************************************************************)
(* AlertsAccounted.  A handler takes over one alert of every channel and    *)
(* serious event when it stores the batch, and gives up one with every try: *)
(* the books balance because its jobs are a set, each done once, and        *)
(* because no other handler holds the same ones.                            *)
(***************************************************************************)
Account(e, c) ==
    /\ IsFiniteSet(Owing(e, c))
    /\ tried[e][c] + Owed(e, c) + lost[e][c] = IF Serious(e) THEN stored[e] ELSE 0

RecordAccount(e) ==
    /\ IsFiniteSet(OwingRecord(e))
    /\ records[e] + OwedRecords(e) <= stored[e]

Acc == \A e \in Events : RecordAccount(e) /\ \A c \in Range(Channels) : Account(e, c)

\* The sets of those that owe change by the one handler at work.
LEMMA OwingStep ==
    ASSUME NEW b \in Batches, NEW n \in Sendings, Apart(b, n), NEW e, NEW c
    PROVE  /\ Owing(e, c)' = IF Alert(e, c) \in jobs'[b][n] THEN Owing(e, c) \cup {<<b, n>>}
                                                            ELSE Owing(e, c) \ {<<b, n>>}
           /\ <<b, n>> \in Owing(e, c) <=> Alert(e, c) \in jobs[b][n]
           /\ OwingRecord(e)' = IF Provenance(e) \in jobs'[b][n]
                                THEN OwingRecord(e) \cup {<<b, n>>}
                                ELSE OwingRecord(e) \ {<<b, n>>}
           /\ <<b, n>> \in OwingRecord(e) <=> Provenance(e) \in jobs[b][n]
<1>1. \A bn \in Batches \X Sendings :
         bn # <<b, n>> => jobs'[bn[1]][bn[2]] = jobs[bn[1]][bn[2]]
  BY DEF Apart
<1>2. <<b, n>> \in Batches \X Sendings /\ <<b, n>>[1] = b /\ <<b, n>>[2] = n
  OBVIOUS
<1>3. Owing(e, c)' = {bn \in Batches \X Sendings : Alert(e, c) \in jobs'[bn[1]][bn[2]]}
  BY DEF Owing, Alert
<1>4. OwingRecord(e)' = {bn \in Batches \X Sendings : Provenance(e) \in jobs'[bn[1]][bn[2]]}
  BY DEF OwingRecord, Provenance
<1>5. QED BY <1>1, <1>2, <1>3, <1>4 DEF Owing, OwingRecord

One(p) == IF p THEN 1 ELSE 0

LEMMA OwedStep ==
    ASSUME NEW b \in Batches, NEW n \in Sendings, Apart(b, n), NEW e, NEW c,
           IsFiniteSet(Owing(e, c))
    PROVE  /\ IsFiniteSet(Owing(e, c)')
           /\ Owed(e, c) \in Nat /\ Owed(e, c)' \in Nat
           /\ Owed(e, c)' = Owed(e, c) + One(Alert(e, c) \in jobs'[b][n])
                                       - One(Alert(e, c) \in jobs[b][n])
<1> DEFINE S == Owing(e, c)  T == Owing(e, c)'
<1>1. /\ T = IF Alert(e, c) \in jobs'[b][n] THEN S \cup {<<b, n>>} ELSE S \ {<<b, n>>}
      /\ <<b, n>> \in S <=> Alert(e, c) \in jobs[b][n]
  BY OwingStep
<1>2. IsFiniteSet(S) /\ Owed(e, c) = Cardinality(S) /\ Owed(e, c)' = Cardinality(T)
  BY DEF Owed
<1> HIDE DEF S, T
<1>3. /\ IsFiniteSet(S \cup {<<b, n>>}) /\ IsFiniteSet(S \ {<<b, n>>})
      /\ Cardinality(S \cup {<<b, n>>}) = IF <<b, n>> \in S THEN Cardinality(S) ELSE Cardinality(S) + 1
      /\ Cardinality(S \ {<<b, n>>}) = IF <<b, n>> \in S THEN Cardinality(S) - 1 ELSE Cardinality(S)
  BY <1>2, FS_AddElement, FS_RemoveElement
<1>4. IsFiniteSet(T)
  BY <1>1, <1>3
<1>5. Cardinality(S) \in Nat /\ Cardinality(T) \in Nat
  BY <1>2, <1>4, FS_CardinalityType
<1>6. Cardinality(T) = Cardinality(S) + One(Alert(e, c) \in jobs'[b][n])
                                      - One(Alert(e, c) \in jobs[b][n])
  BY <1>1, <1>3, <1>5 DEF One
<1>7. QED BY <1>2, <1>4, <1>5, <1>6 DEF T

LEMMA OwedRecordsStep ==
    ASSUME NEW b \in Batches, NEW n \in Sendings, Apart(b, n), NEW e,
           IsFiniteSet(OwingRecord(e))
    PROVE  /\ IsFiniteSet(OwingRecord(e)')
           /\ OwedRecords(e) \in Nat /\ OwedRecords(e)' \in Nat
           /\ OwedRecords(e)' = OwedRecords(e) + One(Provenance(e) \in jobs'[b][n])
                                               - One(Provenance(e) \in jobs[b][n])
<1> DEFINE S == OwingRecord(e)  T == OwingRecord(e)'
<1>1. /\ T = IF Provenance(e) \in jobs'[b][n] THEN S \cup {<<b, n>>} ELSE S \ {<<b, n>>}
      /\ <<b, n>> \in S <=> Provenance(e) \in jobs[b][n]
  BY OwingStep
<1>2. IsFiniteSet(S) /\ OwedRecords(e) = Cardinality(S) /\ OwedRecords(e)' = Cardinality(T)
  BY DEF OwedRecords
<1> HIDE DEF S, T
<1>3. /\ IsFiniteSet(S \cup {<<b, n>>}) /\ IsFiniteSet(S \ {<<b, n>>})
      /\ Cardinality(S \cup {<<b, n>>}) = IF <<b, n>> \in S THEN Cardinality(S) ELSE Cardinality(S) + 1
      /\ Cardinality(S \ {<<b, n>>}) = IF <<b, n>> \in S THEN Cardinality(S) - 1 ELSE Cardinality(S)
  BY <1>2, FS_AddElement, FS_RemoveElement
<1>4. IsFiniteSet(T)
  BY <1>1, <1>3
<1>5. Cardinality(S) \in Nat /\ Cardinality(T) \in Nat
  BY <1>2, <1>4, FS_CardinalityType
<1>6. Cardinality(T) = Cardinality(S) + One(Provenance(e) \in jobs'[b][n])
                                      - One(Provenance(e) \in jobs[b][n])
  BY <1>1, <1>3, <1>5 DEF One
<1>7. QED BY <1>2, <1>4, <1>5, <1>6 DEF T

LEMMA NothingOwed ==
    ASSUME \A b \in Batches, n \in Sendings : jobs[b][n] = {}, NEW e, NEW c
    PROVE  /\ Owing(e, c) = {} /\ IsFiniteSet(Owing(e, c)) /\ Owed(e, c) = 0
           /\ OwingRecord(e) = {} /\ IsFiniteSet(OwingRecord(e)) /\ OwedRecords(e) = 0
<1>1. Owing(e, c) = {} /\ OwingRecord(e) = {}
  BY DEF Owing, OwingRecord
<1>2. QED BY <1>1, FS_EmptySet DEF Owed, OwedRecords

LEMMA CrashEffect ==
    ASSUME TInv, Acc, Crash
    PROVE  /\ TInv' /\ UNCHANGED <<sent, stored, tried, records>>
           /\ \A b \in Batches, n \in Sendings : jobs'[b][n] = {} /\ handler'[b][n] \notin Live
           /\ \A e \in Events, c \in Range(Channels) : lost'[e][c] = lost[e][c] + Owed(e, c)
           /\ unsure' = unsure \cup {b \in Batches : gateway[b] = "waiting"}
           /\ \A b \in Batches : gateway'[b] = IF gateway[b] = "waiting" THEN "buffered" ELSE gateway[b]
<1>1. /\ faults < MaxFaults /\ faults' = faults + 1
      /\ handler' = [b \in Batches |-> [n \in Sendings |->
                        IF handler[b][n] \in Live THEN "killed" ELSE handler[b][n]]]
      /\ jobs' = [b \in Batches |-> [n \in Sendings |-> {}]]
      /\ lost' = [e \in Events |-> [c \in Range(Channels) |-> lost[e][c] + Owed(e, c)]]
      /\ gateway' = [b \in Batches |-> IF gateway[b] = "waiting" THEN "buffered" ELSE gateway[b]]
      /\ unsure' = unsure \cup {b \in Batches : gateway[b] = "waiting"}
      /\ UNCHANGED <<codec, sent, stored, tried, records>>
  BY DEF Crash
<1>2. ASSUME NEW e \in Events, NEW c \in Range(Channels)
      PROVE  Owed(e, c) \in Nat /\ lost[e][c] \in Nat
  <2>1. IsFiniteSet(Owing(e, c))
    BY DEF Acc, Account
  <2>2. lost[e][c] \in Nat
    BY DEF TInv, ChannelCounts
  <2>3. QED BY <2>1, <2>2, FS_CardinalityType DEF Owed
<1>3. /\ lost' \in ChannelCounts
      /\ \A e \in Events, c \in Range(Channels) : lost'[e][c] = lost[e][c] + Owed(e, c)
  BY <1>1, <1>2 DEF ChannelCounts
<1>4. /\ handler' \in [Batches -> [Sendings -> Handlers]]
      /\ \A b \in Batches, n \in Sendings :
            /\ handler'[b][n] = IF handler[b][n] \in Live THEN "killed" ELSE handler[b][n]
            /\ handler[b][n] = "none" => handler'[b][n] = "none"
  BY <1>1 DEF TInv, Handlers, Live
<1>5. /\ jobs' \in [Batches -> [Sendings -> SUBSET Jobs]]
      /\ \A b \in Batches, n \in Sendings : jobs'[b][n] = {}
  BY <1>1
<1>6. gateway' \in [Batches -> GatewayStates] /\ unsure' \subseteq Batches /\ faults' \in 0 .. MaxFaults
  BY <1>1 DEF TInv, GatewayStates
<1>7. TInv'
  BY <1>1, <1>3, <1>4, <1>5, <1>6 DEF TInv
<1>8. \A b \in Batches, n \in Sendings : handler'[b][n] \notin Live
  BY <1>4 DEF Live
<1>9. QED BY <1>1, <1>3, <1>5, <1>7, <1>8

LEMMA AccInit == Init => Acc
<1> SUFFICES ASSUME Init, NEW e \in Events
             PROVE  RecordAccount(e) /\ \A c \in Range(Channels) : Account(e, c)
  BY DEF Acc
<1>1. \A b \in Batches, n \in Sendings : jobs[b][n] = {}
  BY DEF Init
<1>2. stored[e] = 0 /\ records[e] = 0
      /\ \A c \in Range(Channels) : tried[e][c] = 0 /\ lost[e][c] = 0
  BY DEF Init
<1>3. ASSUME NEW c \in Range(Channels) PROVE Account(e, c)
  BY <1>1, <1>2, NothingOwed DEF Account
<1>4. RecordAccount(e)
  BY <1>1, <1>2, NothingOwed DEF RecordAccount
<1>5. QED BY <1>3, <1>4

\* Where no job changes hands, no account does.
LEMMA AccStutter ==
    ASSUME Acc, UNCHANGED <<jobs, stored, tried, records, lost>>
    PROVE  Acc'
<1>1. \A e, c : Owing(e, c)' = Owing(e, c) /\ OwingRecord(e)' = OwingRecord(e)
  BY DEF Owing, OwingRecord, Alert, Provenance
<1>2. \A e, c : Owed(e, c)' = Owed(e, c) /\ OwedRecords(e)' = OwedRecords(e)
  BY <1>1 DEF Owed, OwedRecords
<1>3. QED BY <1>1, <1>2 DEF Acc, Account, RecordAccount

LEMMA AccNumbers ==
    ASSUME TInv, NEW e \in Events
    PROVE  /\ stored[e] \in Nat /\ records[e] \in Nat
           /\ \A c \in Range(Channels) : tried[e][c] \in Nat /\ lost[e][c] \in Nat
BY DEF TInv, Counts, ChannelCounts

LEMMA AccInsert ==
    ASSUME TInv, Acc, NEW b \in Batches, NEW n \in Sendings, Insert(b, n)
    PROVE  Acc'
<1>1. /\ Apart(b, n) /\ jobs[b][n] = {} /\ jobs'[b][n] = JobsOf(b)
      /\ \A e \in Range(b) : stored'[e] = stored[e] + 1
      /\ \A e \in Events \ Range(b) : stored'[e] = stored[e]
  BY InsertEffect
<1>2. UNCHANGED <<tried, records, lost>>
  BY DEF Insert
<1>3. ASSUME NEW e \in Events, NEW c \in Range(Channels) PROVE Account(e, c)'
  <2>1. Account(e, c)
    BY DEF Acc
  <2>2. Alert(e, c) \in jobs'[b][n] <=> e \in Range(b) /\ Serious(e)
    BY <1>1, JobsOfBatch
  <2>3. /\ IsFiniteSet(Owing(e, c)') /\ Owed(e, c) \in Nat /\ Owed(e, c)' \in Nat
        /\ Owed(e, c)' = Owed(e, c) + One(e \in Range(b) /\ Serious(e))
    <3>1. /\ IsFiniteSet(Owing(e, c)') /\ Owed(e, c) \in Nat /\ Owed(e, c)' \in Nat
          /\ Owed(e, c)' = Owed(e, c) + One(Alert(e, c) \in jobs'[b][n])
                                      - One(Alert(e, c) \in jobs[b][n])
      BY <1>1, <2>1, OwedStep DEF Account
    <3>2. QED BY <1>1, <2>2, <3>1 DEF One
  <2>4. stored'[e] = stored[e] + One(e \in Range(b))
    BY <1>1, AccNumbers DEF One
  <2>5. tried[e][c] + Owed(e, c)' + lost[e][c] = IF Serious(e) THEN stored'[e] ELSE 0
    BY <2>1, <2>3, <2>4, AccNumbers DEF Account, One
  <2>6. Serious(e)' <=> Serious(e)
    BY DEF Serious, Severity
  <2>7. QED BY <1>2, <2>3, <2>5, <2>6 DEF Account
<1>4. ASSUME NEW e \in Events PROVE RecordAccount(e)'
  <2>1. RecordAccount(e)
    BY DEF Acc
  <2>2. Provenance(e) \in jobs'[b][n] => e \in Range(b)
    BY <1>1, JobsOfBatch
  <2>3. /\ IsFiniteSet(OwingRecord(e)') /\ OwedRecords(e) \in Nat /\ OwedRecords(e)' \in Nat
        /\ OwedRecords(e)' = OwedRecords(e) + One(Provenance(e) \in jobs'[b][n])
                                            - One(Provenance(e) \in jobs[b][n])
    BY <1>1, <2>1, OwedRecordsStep DEF RecordAccount
  <2>4. stored'[e] = stored[e] + One(e \in Range(b))
    BY <1>1, AccNumbers DEF One
  <2>5. records[e] + OwedRecords(e)' <= stored'[e]
    BY <1>1, <2>1, <2>2, <2>3, <2>4, AccNumbers DEF RecordAccount, One
  <2>6. QED BY <1>2, <2>3, <2>5 DEF RecordAccount
<1>5. QED BY <1>3, <1>4 DEF Acc

LEMMA AccTry ==
    ASSUME TInv, Acc, NEW b \in Batches, NEW n \in Sendings, TryChannel(b, n)
    PROVE  Acc'
<1>1. PICK d \in Range(b), x \in Range(Channels) :
         /\ Apart(b, n)
         /\ Alert(d, x) \in jobs[b][n] /\ jobs'[b][n] = jobs[b][n] \ {Alert(d, x)}
         /\ tried'[d][x] = tried[d][x] + 1
         /\ \A e \in Events, c \in Range(Channels) :
               <<e, c>> # <<d, x>> => tried'[e][c] = tried[e][c]
  BY TryEffect
<1>2. UNCHANGED <<stored, records, lost>>
  BY DEF TryChannel
<1>3. ASSUME NEW e \in Events, NEW c \in Range(Channels) PROVE Account(e, c)'
  <2>1. Account(e, c)
    BY DEF Acc
  <2>2. /\ IsFiniteSet(Owing(e, c)') /\ Owed(e, c) \in Nat /\ Owed(e, c)' \in Nat
        /\ Owed(e, c)' = Owed(e, c) + One(Alert(e, c) \in jobs'[b][n])
                                    - One(Alert(e, c) \in jobs[b][n])
    BY <1>1, <2>1, OwedStep DEF Account
  <2>3. tried'[e][c] + Owed(e, c)' = tried[e][c] + Owed(e, c)
    <3>1. CASE <<e, c>> = <<d, x>>
      <4>1. e = d /\ c = x
        BY <3>1
      <4>2. Alert(e, c) \in jobs[b][n] /\ Alert(e, c) \notin jobs'[b][n]
        BY <1>1, <4>1
      <4>3. QED BY <1>1, <2>2, <4>1, <4>2, AccNumbers DEF One
    <3>2. CASE <<e, c>> # <<d, x>>
      <4>1. Alert(e, c) # Alert(d, x)
        BY <3>2, JobNames
      <4>2. Alert(e, c) \in jobs[b][n] <=> Alert(e, c) \in jobs'[b][n]
        BY <1>1, <4>1
      <4>3. QED BY <1>1, <2>2, <3>2, <4>2, AccNumbers DEF One
    <3>3. QED BY <3>1, <3>2
  <2>4. Serious(e)' <=> Serious(e)
    BY DEF Serious, Severity
  <2>5. tried'[e][c] \in Nat
    BY TryEffect, AccNumbers DEF TInv, ChannelCounts
  <2>6. QED BY <1>2, <2>1, <2>2, <2>3, <2>4, <2>5, AccNumbers DEF Account
<1>4. ASSUME NEW e \in Events PROVE RecordAccount(e)'
  <2>1. RecordAccount(e)
    BY DEF Acc
  <2>2. Provenance(e) \in jobs'[b][n] <=> Provenance(e) \in jobs[b][n]
    BY <1>1, JobNames
  <2>3. /\ IsFiniteSet(OwingRecord(e)') /\ OwedRecords(e) \in Nat /\ OwedRecords(e)' \in Nat
        /\ OwedRecords(e)' = OwedRecords(e) + One(Provenance(e) \in jobs'[b][n])
                                            - One(Provenance(e) \in jobs[b][n])
    BY <1>1, <2>1, OwedRecordsStep DEF RecordAccount
  <2>4. OwedRecords(e)' = OwedRecords(e)
    BY <2>2, <2>3 DEF One
  <2>5. QED BY <1>2, <2>1, <2>3, <2>4 DEF RecordAccount
<1>5. QED BY <1>3, <1>4 DEF Acc

LEMMA AccRecord ==
    ASSUME TInv, Acc, NEW b \in Batches, NEW n \in Sendings, RecordProvenance(b, n)
    PROVE  Acc'
<1>1. PICK d \in Range(b) :
         /\ Apart(b, n)
         /\ Provenance(d) \in jobs[b][n] /\ jobs'[b][n] = jobs[b][n] \ {Provenance(d)}
         /\ records'[d] \in {records[d], records[d] + 1}
         /\ \A e \in Events \ {d} : records'[e] = records[e]
  BY RecordEffect
<1>2. UNCHANGED <<stored, tried, lost>>
  BY DEF RecordProvenance
<1>3. ASSUME NEW e \in Events, NEW c \in Range(Channels) PROVE Account(e, c)'
  <2>1. Account(e, c)
    BY DEF Acc
  <2>2. Alert(e, c) \in jobs'[b][n] <=> Alert(e, c) \in jobs[b][n]
    BY <1>1, JobNames
  <2>3. /\ IsFiniteSet(Owing(e, c)') /\ Owed(e, c) \in Nat /\ Owed(e, c)' \in Nat
        /\ Owed(e, c)' = Owed(e, c) + One(Alert(e, c) \in jobs'[b][n])
                                    - One(Alert(e, c) \in jobs[b][n])
    BY <1>1, <2>1, OwedStep DEF Account
  <2>4. Owed(e, c)' = Owed(e, c)
    BY <2>2, <2>3 DEF One
  <2>5. Serious(e)' <=> Serious(e)
    BY DEF Serious, Severity
  <2>6. QED BY <1>2, <2>1, <2>3, <2>4, <2>5 DEF Account
<1>4. ASSUME NEW e \in Events PROVE RecordAccount(e)'
  <2>1. RecordAccount(e)
    BY DEF Acc
  <2>2. /\ IsFiniteSet(OwingRecord(e)') /\ OwedRecords(e) \in Nat /\ OwedRecords(e)' \in Nat
        /\ OwedRecords(e)' = OwedRecords(e) + One(Provenance(e) \in jobs'[b][n])
                                            - One(Provenance(e) \in jobs[b][n])
    BY <1>1, <2>1, OwedRecordsStep DEF RecordAccount
  <2>3. records'[e] + OwedRecords(e)' <= records[e] + OwedRecords(e)
    <3>1. CASE e = d
      <4>1. Provenance(e) \in jobs[b][n] /\ Provenance(e) \notin jobs'[b][n]
        BY <1>1, <3>1
      <4>2. QED BY <1>1, <2>2, <3>1, <4>1, AccNumbers DEF One
    <3>2. CASE e # d
      <4>1. Provenance(e) \in jobs[b][n] <=> Provenance(e) \in jobs'[b][n]
        BY <1>1, <3>2, JobNames
      <4>2. QED BY <1>1, <2>2, <3>2, <4>1, AccNumbers DEF One
    <3>3. QED BY <3>1, <3>2
  <2>4. records'[e] \in Nat
    BY RecordEffect, AccNumbers DEF TInv, Counts
  <2>5. QED BY <1>2, <2>1, <2>2, <2>3, <2>4, AccNumbers DEF RecordAccount
<1>5. QED BY <1>3, <1>4 DEF Acc

\* What a crash takes from the handlers it counts as lost.
LEMMA AccCrash == ASSUME TInv, Acc, Crash PROVE Acc'
<1>1. /\ \A b \in Batches, n \in Sendings : jobs'[b][n] = {}
      /\ \A e \in Events, c \in Range(Channels) : lost'[e][c] = lost[e][c] + Owed(e, c)
      /\ UNCHANGED <<stored, tried, records>>
  BY CrashEffect
<1>2. \A e, c : Owing(e, c)' = {} /\ OwingRecord(e)' = {}
  BY <1>1 DEF Owing, OwingRecord
<1>3. \A e, c : /\ IsFiniteSet(Owing(e, c)') /\ Owed(e, c)' = 0
                /\ IsFiniteSet(OwingRecord(e)') /\ OwedRecords(e)' = 0
  BY <1>2, FS_EmptySet DEF Owed, OwedRecords
<1>4. ASSUME NEW e \in Events, NEW c \in Range(Channels) PROVE Account(e, c)'
  <2>1. Account(e, c) /\ Owed(e, c) \in Nat
    BY FS_CardinalityType DEF Acc, Account, Owed
  <2>2. Serious(e)' <=> Serious(e)
    BY DEF Serious, Severity
  <2>3. QED BY <1>1, <1>3, <2>1, <2>2, AccNumbers DEF Account
<1>5. ASSUME NEW e \in Events PROVE RecordAccount(e)'
  <2>1. RecordAccount(e) /\ OwedRecords(e) \in Nat
    BY FS_CardinalityType DEF Acc, RecordAccount, OwedRecords
  <2>2. QED BY <1>1, <1>3, <2>1, AccNumbers DEF RecordAccount
<1>6. QED BY <1>4, <1>5 DEF Acc

\* Every action keeps the types and the accounts.
LEMMA AccNext == TInv /\ Acc /\ [Next]_vars => TInv' /\ Acc'
<1> SUFFICES ASSUME TInv, Acc, [Next]_vars PROVE TInv' /\ Acc'
  OBVIOUS
<1>1. ASSUME NEW b \in Batches, Send(b) PROVE TInv' /\ Acc'
  <2>1. UNCHANGED <<jobs, stored, tried, records, lost>>
    BY <1>1 DEF Send
  <2>2. QED BY <1>1, <2>1, SendEffect, AccStutter
<1>2. ASSUME NEW b \in Batches, GiveUp(b) PROVE TInv' /\ Acc'
  <2>1. UNCHANGED <<jobs, stored, tried, records, lost>> /\ TInv'
    BY <1>2, GiveUpEffect
  <2>2. QED BY <2>1, AccStutter
<1>3. ASSUME NEW b \in Batches, NEW n \in Sendings, Insert(b, n) PROVE TInv' /\ Acc'
  BY <1>3, InsertEffect, AccInsert
<1>4. ASSUME NEW b \in Batches, NEW n \in Sendings, InsertFails(b, n) PROVE TInv' /\ Acc'
  <2>1. UNCHANGED <<jobs, stored, tried, records, lost>> /\ TInv'
    BY <1>4, InsertFailsEffect DEF InsertFails
  <2>2. QED BY <2>1, AccStutter
<1>5. ASSUME NEW b \in Batches, NEW n \in Sendings, TryChannel(b, n) PROVE TInv' /\ Acc'
  BY <1>5, TryEffect, AccTry
<1>6. ASSUME NEW b \in Batches, NEW n \in Sendings, RecordProvenance(b, n) PROVE TInv' /\ Acc'
  BY <1>6, RecordEffect, AccRecord
<1>7. ASSUME NEW b \in Batches, NEW n \in Sendings, Answer(b, n) PROVE TInv' /\ Acc'
  <2>1. UNCHANGED <<jobs, stored, tried, records, lost>> /\ TInv'
    BY <1>7, AnswerEffect DEF Answer
  <2>2. QED BY <2>1, AccStutter
<1>8. CASE Crash
  BY <1>8, CrashEffect, AccCrash
<1>9. CASE UNCHANGED vars
  <2>1. TInv'
    BY <1>9 DEF TInv, vars, service
  <2>2. QED BY <1>9, <2>1, AccStutter DEF vars
<1>10. QED BY <1>1, <1>2, <1>3, <1>4, <1>5, <1>6, <1>7, <1>8, <1>9 DEF Next, Step

LEMMA AccAlways == Spec => [](TInv /\ Acc)
<1>1. Init => TInv /\ Acc
  BY TInvInit, AccInit
<1>2. QED BY <1>1, AccNext, PTL DEF Spec

\* Every stored copy of a serious event is alerted exactly once on every channel, still to
\* be alerted, or lost in a crash; no other event is; and no copy is recorded twice
\* (audit_batch, AlertEngine.send).
THEOREM AlertsBalance == Spec => []AlertsAccounted
<1>1. TInv /\ Acc => AlertsAccounted
  BY DEF Acc, Account, RecordAccount, AlertsAccounted
<1>2. QED BY <1>1, AccAlways, PTL

-----------------------------------------------------------------------------
(***************************************************************************)
(* AcknowledgedIsAlerted.  A handler at work has stored its batch, and what *)
(* it has not yet tried is still before it.                                 *)
(***************************************************************************)
TriedOrBefore(b, n) ==
    \A e \in Range(b) :
        /\ stored[e] > 0
        /\ Serious(e) => \A c \in Range(Channels) :
                            tried[e][c] > 0 \/ Alert(e, c) \in jobs[b][n]

Served(b) ==
    \A e \in Range(b) :
        /\ stored[e] > 0
        /\ Serious(e) => \A c \in Range(Channels) : tried[e][c] > 0

Ack ==
    \A b \in Batches :
        /\ \A n \in Sendings : handler[b][n] = "work" => TriedOrBefore(b, n)
        /\ gateway[b] = "acknowledged" => Served(b)

\* Nothing that is stored or tried is taken back.
Grows ==
    /\ \A e \in Events : stored'[e] >= stored[e]
    /\ \A e \in Events, c \in Range(Channels) : tried'[e][c] >= tried[e][c]

LEMMA ServedGrows ==
    ASSUME TInv, TInv', Grows, NEW b \in Batches
    PROVE  /\ Served(b) => Served(b)'
           /\ \A n \in Sendings : TriedOrBefore(b, n) /\ jobs'[b][n] = jobs[b][n] => TriedOrBefore(b, n)'
<1>1. ASSUME NEW e \in Range(b)
      PROVE  /\ stored[e] > 0 => stored'[e] > 0
             /\ \A c \in Range(Channels) : tried[e][c] > 0 => tried'[e][c] > 0
  <2>1. e \in Events
    OBVIOUS
  <2>2. stored[e] \in Nat /\ \A c \in Range(Channels) : tried[e][c] \in Nat
    BY <2>1, AccNumbers
  <2>3. stored'[e] \in Nat /\ \A c \in Range(Channels) : tried'[e][c] \in Nat
    BY <2>1 DEF TInv, Counts, ChannelCounts
  <2>4. stored'[e] >= stored[e] /\ \A c \in Range(Channels) : tried'[e][c] >= tried[e][c]
    BY <2>1 DEF Grows
  <2>5. QED BY <2>2, <2>3, <2>4
<1>2. \A e : Serious(e)' <=> Serious(e)
  BY DEF Serious, Severity
<1>3. \A e, c : Alert(e, c)' = Alert(e, c)
  BY DEF Alert
<1>4. Served(b) => Served(b)'
  BY <1>1, <1>2 DEF Served
<1>5. ASSUME NEW n \in Sendings, TriedOrBefore(b, n), jobs'[b][n] = jobs[b][n]
      PROVE  TriedOrBefore(b, n)'
  BY <1>1, <1>2, <1>3, <1>5 DEF TriedOrBefore
<1>6. QED BY <1>4, <1>5

\* A step that leaves every handler at work to its jobs, and ticks nothing off.
LEMMA AckKept ==
    ASSUME TInv, TInv', Ack, Grows,
           \A b \in Batches, n \in Sendings :
              handler'[b][n] = "work" => handler[b][n] = "work" /\ jobs'[b][n] = jobs[b][n],
           \A b \in Batches : gateway'[b] = "acknowledged" => gateway[b] = "acknowledged"
    PROVE  Ack'
<1>1. ASSUME NEW b \in Batches, NEW n \in Sendings, handler'[b][n] = "work"
      PROVE  TriedOrBefore(b, n)'
  BY <1>1, ServedGrows DEF Ack
<1>2. ASSUME NEW b \in Batches, gateway'[b] = "acknowledged" PROVE Served(b)'
  BY <1>2, ServedGrows DEF Ack
<1>3. QED BY <1>1, <1>2 DEF Ack

LEMMA AckInsert ==
    ASSUME TInv, Ack, NEW b \in Batches, NEW n \in Sendings, Insert(b, n)
    PROVE  Ack'
<1>1. /\ TInv' /\ Apart(b, n) /\ jobs'[b][n] = JobsOf(b)
      /\ \A e \in Range(b) : stored'[e] = stored[e] + 1
      /\ \A e \in Events \ Range(b) : stored'[e] = stored[e]
  BY InsertEffect
<1>2. UNCHANGED <<tried, gateway>>
  BY DEF Insert
<1>3. Grows
  BY <1>1, <1>2, AccNumbers DEF Grows
<1>4. TriedOrBefore(b, n)'
  <2>1. ASSUME NEW e \in Range(b) PROVE stored'[e] > 0
    BY <1>1, AccNumbers
  <2>2. ASSUME NEW e \in Range(b), NEW c \in Range(Channels), Serious(e)
        PROVE  Alert(e, c) \in jobs'[b][n]
    BY <1>1, <2>2, JobsOfBatch
  <2>3. \A e : Serious(e)' <=> Serious(e)
    BY DEF Serious, Severity
  <2>4. \A e, c : Alert(e, c)' = Alert(e, c)
    BY DEF Alert
  <2>5. QED BY <2>1, <2>2, <2>3, <2>4 DEF TriedOrBefore
<1>5. ASSUME NEW a \in Batches, NEW k \in Sendings, handler'[a][k] = "work"
      PROVE  TriedOrBefore(a, k)'
  <2>1. CASE <<a, k>> = <<b, n>>
    BY <1>4, <2>1
  <2>2. CASE <<a, k>> # <<b, n>>
    <3>1. handler[a][k] = "work" /\ jobs'[a][k] = jobs[a][k]
      BY <1>1, <1>5, <2>2 DEF Apart
    <3>2. QED BY <1>1, <1>3, <3>1, ServedGrows DEF Ack
  <2>3. QED BY <2>1, <2>2
<1>6. ASSUME NEW a \in Batches, gateway'[a] = "acknowledged" PROVE Served(a)'
  BY <1>1, <1>2, <1>3, <1>6, ServedGrows DEF Ack
<1>7. QED BY <1>5, <1>6 DEF Ack

\* The channel that is tried takes the place of the alert before the handler.
LEMMA AckTry ==
    ASSUME TInv, Ack, NEW b \in Batches, NEW n \in Sendings, TryChannel(b, n)
    PROVE  Ack'
<1>1. PICK d \in Range(b), x \in Range(Channels) :
         /\ TInv' /\ Apart(b, n)
         /\ Alert(d, x) \in jobs[b][n] /\ jobs'[b][n] = jobs[b][n] \ {Alert(d, x)}
         /\ tried'[d][x] = tried[d][x] + 1
         /\ \A e \in Events, c \in Range(Channels) :
               <<e, c>> # <<d, x>> => tried'[e][c] = tried[e][c]
         /\ UNCHANGED handler
  BY TryEffect
<1>2. UNCHANGED <<stored, gateway>>
  BY DEF TryChannel
<1>3. Grows
  <2>1. \A e \in Events, c \in Range(Channels) : tried'[e][c] >= tried[e][c]
    <3>1. ASSUME NEW e \in Events, NEW c \in Range(Channels) PROVE tried'[e][c] >= tried[e][c]
      <4>1. CASE e = d /\ c = x
        BY <1>1, <4>1, AccNumbers
      <4>2. CASE ~(e = d /\ c = x)
        BY <1>1, <4>2, AccNumbers
      <4>3. QED BY <4>1, <4>2
    <3>2. QED BY <3>1
  <2>2. QED BY <1>2, <2>1, AccNumbers DEF Grows
<1>4. ASSUME NEW a \in Batches, NEW k \in Sendings, handler'[a][k] = "work"
      PROVE  TriedOrBefore(a, k)'
  <2>1. CASE <<a, k>> = <<b, n>>
    <3>1. a = b /\ k = n
      BY <2>1
    <3>2. TriedOrBefore(b, n)
      BY <1>1, <1>4, <3>1 DEF Ack
    <3>3. ASSUME NEW e \in Range(b), NEW c \in Range(Channels), Serious(e)
          PROVE  tried'[e][c] > 0 \/ Alert(e, c) \in jobs'[b][n]
      <4>1. tried[e][c] > 0 \/ Alert(e, c) \in jobs[b][n]
        BY <3>2, <3>3 DEF TriedOrBefore
      <4>2. CASE e = d /\ c = x
        BY <1>1, <4>2, AccNumbers
      <4>3. CASE ~(e = d /\ c = x)
        BY <1>1, <4>1, <4>3, JobNames
      <4>4. QED BY <4>2, <4>3
    <3>4. \A e : Serious(e)' <=> Serious(e)
      BY DEF Serious, Severity
    <3>5. \A e, c : Alert(e, c)' = Alert(e, c)
      BY DEF Alert
    <3>6. \A e \in Range(b) : stored'[e] > 0
      BY <1>2, <3>2 DEF TriedOrBefore
    <3>7. TriedOrBefore(b, n)'
      BY <3>3, <3>4, <3>5, <3>6 DEF TriedOrBefore
    <3>8. QED BY <3>1, <3>7
  <2>2. CASE <<a, k>> # <<b, n>>
    <3>1. handler[a][k] = "work" /\ jobs'[a][k] = jobs[a][k]
      BY <1>1, <1>4, <2>2 DEF Apart
    <3>2. QED BY <1>1, <1>3, <3>1, ServedGrows DEF Ack
  <2>3. QED BY <2>1, <2>2
<1>5. ASSUME NEW a \in Batches, gateway'[a] = "acknowledged" PROVE Served(a)'
  BY <1>1, <1>2, <1>3, <1>5, ServedGrows DEF Ack
<1>6. QED BY <1>4, <1>5 DEF Ack

\* A record of provenance is nobody's alert.
LEMMA AckRecord ==
    ASSUME TInv, Ack, NEW b \in Batches, NEW n \in Sendings, RecordProvenance(b, n)
    PROVE  Ack'
<1>1. PICK d \in Range(b) :
         /\ TInv' /\ Apart(b, n) /\ jobs'[b][n] = jobs[b][n] \ {Provenance(d)}
         /\ UNCHANGED handler
  BY RecordEffect
<1>2. UNCHANGED <<stored, tried, gateway>>
  BY DEF RecordProvenance
<1>3. Grows
  BY <1>2, AccNumbers DEF Grows
<1>4. ASSUME NEW a \in Batches, NEW k \in Sendings, handler'[a][k] = "work"
      PROVE  TriedOrBefore(a, k)'
  <2>1. TriedOrBefore(a, k)
    BY <1>1, <1>4 DEF Ack
  <2>2. \A e, c : Alert(e, c) \in jobs[a][k] => Alert(e, c) \in jobs'[a][k]
    <3>1. CASE <<a, k>> = <<b, n>>
      <4>1. jobs'[a][k] = jobs[a][k] \ {Provenance(d)}
        BY <1>1, <3>1
      <4>2. QED BY <4>1, JobNames
    <3>2. CASE <<a, k>> # <<b, n>>
      BY <1>1, <3>2 DEF Apart
    <3>3. QED BY <3>1, <3>2
  <2>3. \A e : Serious(e)' <=> Serious(e)
    BY DEF Serious, Severity
  <2>4. \A e, c : Alert(e, c)' = Alert(e, c)
    BY DEF Alert
  <2>5. QED BY <1>2, <2>1, <2>2, <2>3, <2>4 DEF TriedOrBefore
<1>5. ASSUME NEW a \in Batches, gateway'[a] = "acknowledged" PROVE Served(a)'
  BY <1>1, <1>2, <1>3, <1>5, ServedGrows DEF Ack
<1>6. QED BY <1>4, <1>5 DEF Ack

\* Nothing is left before the handler that answers.
LEMMA AckAnswer ==
    ASSUME TInv, Ack, NEW b \in Batches, NEW n \in Sendings, Answer(b, n)
    PROVE  Ack'
<1>1. /\ TInv' /\ Apart(b, n) /\ UNCHANGED jobs
      /\ handler[b][n] = "work" /\ jobs[b][n] = {} /\ handler'[b][n] = "done"
      /\ Heard(b, n, "acknowledged")
  BY AnswerEffect
<1>2. UNCHANGED <<stored, tried>>
  BY DEF Answer
<1>3. Grows
  BY <1>2, AccNumbers DEF Grows
<1>4. ASSUME NEW a \in Batches, NEW k \in Sendings, handler'[a][k] = "work"
      PROVE  TriedOrBefore(a, k)'
  <2>1. handler[a][k] = "work"
    BY <1>1, <1>4 DEF Apart
  <2>2. QED BY <1>1, <1>3, <2>1, ServedGrows DEF Ack
<1>5. Served(b)
  <2>1. TriedOrBefore(b, n)
    BY <1>1 DEF Ack
  <2>2. QED BY <1>1, <2>1 DEF TriedOrBefore, Served
<1>6. ASSUME NEW a \in Batches, gateway'[a] = "acknowledged" PROVE Served(a)'
  <2>1. a = b \/ gateway'[a] = gateway[a]
    BY <1>1, HeardType
  <2>2. Served(a)
    BY <1>5, <1>6, <2>1 DEF Ack
  <2>3. QED BY <1>1, <1>3, <2>2, ServedGrows
<1>7. QED BY <1>4, <1>6 DEF Ack

LEMMA AckInit == Init => Ack
<1> SUFFICES ASSUME Init PROVE Ack
  OBVIOUS
<1>1. \A b \in Batches : gateway[b] = "new" /\ \A n \in Sendings : handler[b][n] = "none"
  BY DEF Init
<1>2. QED BY <1>1 DEF Ack

LEMMA AckNext == TInv /\ Acc /\ Ack /\ [Next]_vars => Ack'
<1> SUFFICES ASSUME TInv, Acc, Ack, [Next]_vars PROVE Ack'
  OBVIOUS
<1>0. TInv'
  BY AccNext
<1>1. ASSUME NEW b \in Batches, Send(b) PROVE Ack'
  <2>1. /\ Apart(b, sent[b] + 1) /\ UNCHANGED jobs /\ sent[b] + 1 \in Sendings
        /\ handler'[b][sent[b] + 1] = "insert" /\ gateway'[b] = "waiting"
        /\ \A a \in Batches \ {b} : gateway'[a] = gateway[a]
    BY <1>1, SendEffect
  <2>2. Grows
    BY <1>1, AccNumbers DEF Send, Grows
  <2>3. \A a \in Batches, k \in Sendings :
           handler'[a][k] = "work" => handler[a][k] = "work" /\ jobs'[a][k] = jobs[a][k]
    BY <2>1 DEF Apart
  <2>4. \A a \in Batches : gateway'[a] = "acknowledged" => gateway[a] = "acknowledged"
    BY <2>1
  <2>5. QED BY <1>0, <2>2, <2>3, <2>4, AckKept
<1>2. ASSUME NEW b \in Batches, GiveUp(b) PROVE Ack'
  <2>1. /\ UNCHANGED <<handler, jobs, stored, tried>> /\ gateway'[b] = "buffered"
        /\ \A a \in Batches \ {b} : gateway'[a] = gateway[a]
    BY <1>2, GiveUpEffect
  <2>2. Grows
    BY <2>1, AccNumbers DEF Grows
  <2>3. \A a \in Batches : gateway'[a] = "acknowledged" => gateway[a] = "acknowledged"
    BY <2>1
  <2>4. QED BY <1>0, <2>1, <2>2, <2>3, AckKept
<1>3. ASSUME NEW b \in Batches, NEW n \in Sendings, InsertFails(b, n) PROVE Ack'
  <2>1. /\ Apart(b, n) /\ UNCHANGED <<jobs, stored>> /\ handler'[b][n] = "failed"
        /\ Heard(b, n, "buffered")
    BY <1>3, InsertFailsEffect
  <2>2. Grows
    BY <1>3, <2>1, AccNumbers DEF InsertFails, Grows
  <2>3. \A a \in Batches, k \in Sendings :
           handler'[a][k] = "work" => handler[a][k] = "work" /\ jobs'[a][k] = jobs[a][k]
    BY <2>1 DEF Apart
  <2>4. \A a \in Batches : gateway'[a] = "acknowledged" => gateway[a] = "acknowledged"
    BY <2>1, HeardType
  <2>5. QED BY <1>0, <2>2, <2>3, <2>4, AckKept
<1>4. CASE Crash
  <2>1. /\ UNCHANGED <<stored, tried>>
        /\ \A b \in Batches, n \in Sendings : handler'[b][n] \notin Live
        /\ \A b \in Batches :
              gateway'[b] = IF gateway[b] = "waiting" THEN "buffered" ELSE gateway[b]
    BY <1>4, CrashEffect
  <2>2. Grows
    BY <2>1, AccNumbers DEF Grows
  <2>3. QED BY <1>0, <2>1, <2>2, AckKept DEF Live
<1>5. CASE UNCHANGED vars
  <2>1. UNCHANGED <<handler, jobs, stored, tried, gateway>>
    BY <1>5 DEF vars
  <2>2. Grows
    BY <2>1, AccNumbers DEF Grows
  <2>3. QED BY <1>0, <2>1, <2>2, AckKept
<1>6. QED BY <1>1, <1>2, <1>3, <1>4, <1>5, AckInsert, AckTry, AckRecord, AckAnswer DEF Next, Step

\* A batch the gateway has ticked off is stored, and every channel of every serious event of
\* it has been tried: a 200 of /audit/batch is never only "received".
THEOREM AcknowledgedIsServed == Spec => []AcknowledgedIsAlerted
<1>1. Ack => AcknowledgedIsAlerted
  BY DEF Ack, Served, AcknowledgedIsAlerted
<1>2. QED BY <1>1, AccAlways, AckInit, AckNext, PTL DEF Spec

-----------------------------------------------------------------------------
(***************************************************************************)
(* TwiceOnlyIfUnsure.  While the gateway has never given a batch up, it      *)
(* waits exactly while the handler of its latest sending is at work, and     *)
(* sends again only what an error answer has shown not to be stored.         *)
(***************************************************************************)
Fresh(b) == \A e \in Range(b) : stored[e] = 0

SureOf(b) ==
    /\ gateway[b] \in {"new", "buffered"} => Fresh(b)
    /\ \A n \in Sendings : handler[b][n] \in Live => n = sent[b] /\ gateway[b] = "waiting"
    /\ \A n \in Sendings : handler[b][n] = "insert" => Fresh(b)
    /\ \A e \in Range(b) : stored[e] <= 1

Sure == \A b \in Batches : b \notin unsure => SureOf(b)

LEMMA SureInit == Init => Sure
<1> SUFFICES ASSUME Init, NEW b \in Batches PROVE SureOf(b)
  BY DEF Sure
<1>1. \A e \in Range(b) : e \in Events
  OBVIOUS
<1>2. /\ \A e \in Events : stored[e] = 0
      /\ \A n \in Sendings : handler[b][n] = "none"
  BY DEF Init
<1>3. QED BY <1>1, <1>2 DEF SureOf, Fresh, Live

\* Another batch's handler does not touch this one's.
LEMMA SureOther ==
    ASSUME NEW b \in Batches, SureOf(b),
           \A e \in Range(b) : stored'[e] = stored[e],
           \A n \in Sendings : handler'[b][n] = handler[b][n],
           gateway'[b] = gateway[b], sent'[b] = sent[b]
    PROVE  SureOf(b)'
BY DEF SureOf, Fresh, Live

LEMMA SureSend ==
    ASSUME TInv, NEW b \in Batches, SureOf(b), Send(b)
    PROVE  SureOf(b)'
<1>1. /\ Apart(b, sent[b] + 1) /\ sent[b] + 1 \in Sendings /\ sent'[b] = sent[b] + 1
      /\ handler'[b][sent[b] + 1] = "insert"
      /\ gateway[b] \in {"new", "buffered"} /\ gateway'[b] = "waiting"
  BY SendEffect
<1>2. stored' = stored
  BY DEF Send
<1>3. Fresh(b)
  BY <1>1 DEF SureOf
<1>4. \A n \in Sendings : handler[b][n] \notin Live
  BY <1>1 DEF SureOf
<1>5. \A n \in Sendings : handler'[b][n] \in Live => n = sent'[b]
  <2>1. ASSUME NEW n \in Sendings, n # sent[b] + 1 PROVE handler'[b][n] = handler[b][n]
    BY <1>1, <2>1 DEF Apart
  <2>2. QED BY <1>1, <1>4, <2>1
<1>6. Fresh(b)'
  BY <1>2, <1>3 DEF Fresh
<1>7. \A e \in Range(b) : stored'[e] <= 1
  BY <1>2 DEF SureOf
<1>8. QED BY <1>1, <1>5, <1>6, <1>7 DEF SureOf

LEMMA SureInsert ==
    ASSUME TInv, NEW b \in Batches, NEW n \in Sendings, SureOf(b), Insert(b, n)
    PROVE  SureOf(b)'
<1>1. /\ Apart(b, n) /\ handler[b][n] = "insert" /\ handler'[b][n] = "work"
      /\ \A e \in Range(b) : stored'[e] = stored[e] + 1
  BY InsertEffect
<1>2. gateway' = gateway /\ sent' = sent
  BY DEF Insert
<1>3. Fresh(b) /\ n = sent[b] /\ gateway[b] = "waiting"
  BY <1>1 DEF SureOf, Live
<1>4. \A k \in Sendings : k # n => handler'[b][k] = handler[b][k]
  BY <1>1 DEF Apart
<1>5. \A k \in Sendings : handler'[b][k] \in Live => k = n
  BY <1>3, <1>4 DEF SureOf
<1>6. \A k \in Sendings : handler'[b][k] # "insert"
  BY <1>1, <1>3, <1>4 DEF SureOf, Live
<1>7. \A e \in Range(b) : stored'[e] <= 1
  BY <1>1, <1>3 DEF Fresh
<1>8. QED BY <1>2, <1>3, <1>5, <1>6, <1>7 DEF SureOf

LEMMA SureFails ==
    ASSUME TInv, NEW b \in Batches, NEW n \in Sendings, SureOf(b), InsertFails(b, n)
    PROVE  SureOf(b)'
<1>1. /\ Apart(b, n) /\ UNCHANGED stored
      /\ handler[b][n] = "insert" /\ handler'[b][n] = "failed" /\ Heard(b, n, "buffered")
  BY InsertFailsEffect
<1>2. sent' = sent
  BY DEF InsertFails
<1>3. Fresh(b) /\ n = sent[b] /\ gateway[b] = "waiting"
  BY <1>1 DEF SureOf, Live
<1>4. gateway'[b] = "buffered"
  BY <1>1, <1>3, HeardType
<1>5. \A k \in Sendings : k # n => handler'[b][k] = handler[b][k]
  BY <1>1 DEF Apart
<1>6. \A k \in Sendings : handler'[b][k] \notin Live
  BY <1>1, <1>3, <1>5 DEF SureOf, Live
<1>7. Fresh(b)' /\ \A e \in Range(b) : stored'[e] <= 1
  BY <1>1, <1>3 DEF SureOf, Fresh
<1>8. QED BY <1>6, <1>7 DEF SureOf, Live

LEMMA SureAnswer ==
    ASSUME TInv, NEW b \in Batches, NEW n \in Sendings, SureOf(b), Answer(b, n)
    PROVE  SureOf(b)'
<1>1. /\ Apart(b, n) /\ handler[b][n] = "work" /\ handler'[b][n] = "done"
      /\ Heard(b, n, "acknowledged")
  BY AnswerEffect
<1>2. UNCHANGED <<sent, stored>>
  BY DEF Answer
<1>3. n = sent[b] /\ gateway[b] = "waiting"
  BY <1>1 DEF SureOf, Live
<1>4. gateway'[b] = "acknowledged"
  BY <1>1, <1>3, HeardType
<1>5. \A k \in Sendings : k # n => handler'[b][k] = handler[b][k]
  BY <1>1 DEF Apart
<1>6. \A k \in Sendings : handler'[b][k] \notin Live
  BY <1>1, <1>3, <1>5 DEF SureOf, Live
<1>7. \A e \in Range(b) : stored'[e] <= 1
  BY <1>2 DEF SureOf
<1>8. QED BY <1>4, <1>6, <1>7 DEF SureOf, Live

\* Events of another batch are no events of this one.
LEMMA Disjoint ==
    ASSUME NEW a \in Batches, NEW b \in Batches, a # b
    PROVE  \A e \in Range(a) : e \in Events /\ e \notin Range(b)
OBVIOUS

LEMMA SureNext == TInv /\ Acc /\ Sure /\ [Next]_vars => Sure'
<1> SUFFICES ASSUME TInv, Acc, Sure, [Next]_vars, NEW a \in Batches, a \notin unsure'
             PROVE  SureOf(a)'
  BY DEF Sure
<1>1. ASSUME NEW b \in Batches, Send(b) PROVE SureOf(a)'
  <2>1. a \notin unsure /\ stored' = stored
    BY <1>1 DEF Send
  <2>2. SureOf(a)
    BY <2>1 DEF Sure
  <2>3. CASE a = b
    BY <1>1, <2>2, <2>3, SureSend
  <2>4. CASE a # b
    <3>1. /\ Apart(b, sent[b] + 1) /\ gateway'[a] = gateway[a] /\ sent'[a] = sent[a]
      BY <1>1, <2>4, SendEffect
    <3>2. \A n \in Sendings : handler'[a][n] = handler[a][n]
      BY <2>4, <3>1 DEF Apart
    <3>3. QED BY <2>1, <2>2, <3>1, <3>2, SureOther
  <2>5. QED BY <2>3, <2>4
<1>2. ASSUME NEW b \in Batches, GiveUp(b) PROVE SureOf(a)'
  <2>1. /\ UNCHANGED <<sent, handler, stored>> /\ unsure' = unsure \cup {b}
        /\ \A d \in Batches \ {b} : gateway'[d] = gateway[d]
    BY <1>2, GiveUpEffect
  <2>2. a # b /\ a \notin unsure
    BY <2>1
  <2>3. SureOf(a)
    BY <2>2 DEF Sure
  <2>4. QED BY <2>1, <2>2, <2>3, SureOther
<1>3. ASSUME NEW b \in Batches, NEW n \in Sendings, Step(b, n) PROVE SureOf(a)'
  <2>1. a \notin unsure /\ sent' = sent
    BY <1>3 DEF Step, Insert, InsertFails, TryChannel, RecordProvenance, Answer
  <2>2. SureOf(a)
    BY <2>1 DEF Sure
  <2>3. CASE TryChannel(b, n) \/ RecordProvenance(b, n)
    <3>1. UNCHANGED <<handler, stored, gateway>>
      BY <2>3 DEF TryChannel, RecordProvenance
    <3>2. QED BY <2>1, <2>2, <3>1, SureOther
  <2>4. CASE Insert(b, n) \/ InsertFails(b, n) \/ Answer(b, n)
    <3>1. CASE a = b
      BY <2>2, <2>4, <3>1, SureInsert, SureFails, SureAnswer
    <3>2. CASE a # b
      <4>1. Apart(b, n)
        BY <2>4, InsertEffect, InsertFailsEffect, AnswerEffect
      <4>2. \A k \in Sendings : handler'[a][k] = handler[a][k]
        BY <3>2, <4>1 DEF Apart
      <4>3. gateway'[a] = gateway[a]
        <5>1. CASE Insert(b, n)
          BY <5>1 DEF Insert
        <5>2. CASE InsertFails(b, n)
          BY <3>2, <5>2, InsertFailsEffect, HeardType
        <5>3. CASE Answer(b, n)
          BY <3>2, <5>3, AnswerEffect, HeardType
        <5>4. QED BY <2>4, <5>1, <5>2, <5>3
      <4>4. \A e \in Range(a) : stored'[e] = stored[e]
        <5>1. CASE Insert(b, n)
          BY <3>2, <5>1, InsertEffect, Disjoint
        <5>2. CASE InsertFails(b, n)
          BY <5>2, InsertFailsEffect
        <5>3. CASE Answer(b, n)
          BY <5>3 DEF Answer
        <5>4. QED BY <2>4, <5>1, <5>2, <5>3
      <4>5. QED BY <2>1, <2>2, <4>2, <4>3, <4>4, SureOther
    <3>3. QED BY <3>1, <3>2
  <2>5. QED BY <1>3, <2>3, <2>4 DEF Step
<1>4. CASE Crash
  <2>1. /\ UNCHANGED <<sent, stored>>
        /\ \A n \in Sendings : handler'[a][n] \notin Live
        /\ unsure' = unsure \cup {b \in Batches : gateway[b] = "waiting"}
        /\ gateway'[a] = IF gateway[a] = "waiting" THEN "buffered" ELSE gateway[a]
    BY <1>4, CrashEffect
  <2>2. a \notin unsure /\ gateway'[a] = gateway[a]
    BY <2>1
  <2>3. SureOf(a)
    BY <2>2 DEF Sure
  <2>4. QED BY <2>1, <2>2, <2>3 DEF SureOf, Fresh, Live
<1>5. CASE UNCHANGED vars
  <2>1. UNCHANGED <<sent, handler, stored, gateway, unsure>>
    BY <1>5 DEF vars
  <2>2. SureOf(a)
    BY <2>1 DEF Sure
  <2>3. QED BY <2>1, <2>2, SureOther
<1>6. QED BY <1>1, <1>2, <1>3, <1>4, <1>5 DEF Next

\* An event is stored twice, and alerted twice, only if the gateway gave its batch up while a
\* handler was at work on it: an error answer leaves no row behind (insert_audit_batch).
THEOREM StoredTwiceOnlyIfUnsure == Spec => []TwiceOnlyIfUnsure
<1>1. Sure => TwiceOnlyIfUnsure
  BY DEF Sure, SureOf, TwiceOnlyIfUnsure
<1>2. QED BY <1>1, AccAlways, SureInit, SureNext, PTL DEF Spec
=============================================================================
