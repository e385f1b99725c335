-------------------------------- MODULE Hitl --------------------------------
(***************************************************************************)
(* The human-in-the-loop gate: the gateway's in-memory table of paused      *)
(* requests (HITLGate), its endpoints, its cleanup loop, its crash and      *)
(* recovery, and the messages it exchanges with the central service's       *)
(* hitl_approvals table (HitlStore).                                        *)
(*                                                                         *)
(* The gateway is one asyncio event loop, so a handler runs atomically from *)
(* one await to the next.  The awaits that matter are the POST that creates *)
(* the row (a task of its own), the GET of a decision inside the cleanup    *)
(* loop, and the GET of the pending rows at startup: each is split into     *)
(* request, answer by the server, and use of the answer.                    *)
(*                                                                         *)
(* The gateway refuses to start without CENTRAL_SERVICE_URL, which is the   *)
(* gate's cloud_url too: the branches for a gate without a cloud are dead.  *)
(***************************************************************************)
EXTENDS HitlStore, Integers

CONSTANTS
    NoRequest,      \* sentinel: the cleanup loop awaits no answer
    Timeouts,       \* the values timeout_seconds takes (rules, settings)
    RecoverLimit,   \* the default of pending_by_key's limit (100)
    MaxTime,        \* bound: the clock stops here
    MaxForwards,    \* bound: resumes per request
    MaxCrashes      \* bound: stops of the gateway

ASSUME HitlAssumption ==
    /\ NoRequest \notin Requests
    /\ Timeouts \subseteq Nat
    /\ RecoverLimit \in Nat /\ MaxTime \in Nat
    /\ MaxForwards \in Nat /\ MaxCrashes \in Nat

VARIABLES
    now,              \* time.time()
    phase,            \* "down", "starting" (before recovery ends), "serving"
    pendingRequests,  \* HITLGate.pending_requests; lost when the process ends
    creates,          \* POSTs of /dashboard/hitl/create under way
    loopPc,           \* the cleanup loop: "sleep", "scan", "ask", "answered"
    todo,             \* requests of the loop's snapshot not yet looked at
    asked,            \* the request whose decision the loop awaits
    answer,           \* the decision the server read for it
    snapshot,         \* rows the server sent for the recovery
    recovered,        \* the recovery's answer has been sent
    issued,           \* history: identifiers given out so far
    verdict,          \* history: the last /hitl/approve or /hitl/deny of this run
    overtaken,        \* history: requests whose last denial came while the loop
                      \* awaited the answer about them
    forwarded,        \* history: how often the stored request was re-sent
    crashes           \* history: stops of the gateway so far

loopVars == <<loopPc, todo, asked, answer>>
recoveryVars == <<snapshot, recovered>>
historyVars == <<issued, verdict, overtaken, forwarded, crashes>>
vars == <<rows, accepted, now, phase, pendingRequests, creates, loopVars,
          recoveryVars, historyVars>>

-----------------------------------------------------------------------------
Statuses == {"pending", "approved", "denied", "expired"}
Answers == {"none"} \cup Decisions

\* status "absent" stands for an identifier that is not a key of the dict.
PendingRequest == [status      : {"absent"} \cup Statuses,
                   createdAt   : Nat,
                   timeoutSecs : Nat,
                   timeoutAt   : Nat,
                   hasContext  : BOOLEAN]

NoEntry == [status |-> "absent", createdAt |-> 0, timeoutSecs |-> 0,
            timeoutAt |-> 0, hasContext |-> FALSE]

\* A POST may outlive the process that sent it.
Create == [request : Requests, timeoutAt : Nat]

\* Every variable holds a value the code could put there.
TypeOK ==
    /\ StoreTypeOK
    /\ now \in Nat
    /\ phase \in {"down", "starting", "serving"}
    /\ pendingRequests \in [Requests -> PendingRequest]
    /\ creates \in SUBSET Create
    /\ loopPc \in {"sleep", "scan", "ask", "answered"}
    /\ todo \in SUBSET Requests
    /\ asked \in Requests \cup {NoRequest}
    /\ loopPc \in {"ask", "answered"} => asked \in Requests
    /\ answer \in Answers
    /\ answer # "none" => loopPc = "answered"
    /\ snapshot \in SUBSET Requests
    /\ recovered \in BOOLEAN
    /\ issued \in SUBSET Requests
    /\ verdict \in [Requests -> Answers]
    /\ overtaken \in SUBSET Requests
    /\ forwarded \in [Requests -> Nat]
    /\ crashes \in Nat

Status(r) == pendingRequests[r].status

SetStatus(r, s) == pendingRequests' = [pendingRequests EXCEPT ![r].status = s]

\* Mutants of Overdue: the status is not looked at; >= for >.
Overdue_AnyStatus(r) ==
    /\ Status(r) # "absent"
    /\ now - pendingRequests[r].createdAt > pendingRequests[r].timeoutSecs

\* status == PENDING and (time.time() - created_at) > timeout_seconds
Overdue(r) ==
    /\ Status(r) = "pending"
    /\ now - pendingRequests[r].createdAt > pendingRequests[r].timeoutSecs

Init ==
    /\ StoreInit
    /\ now = 0
    /\ phase = "starting"
    /\ pendingRequests = [r \in Requests |-> NoEntry]
    /\ creates = {}
    /\ loopPc = "sleep" /\ todo = {} /\ asked = NoRequest /\ answer = "none"
    /\ snapshot = {} /\ recovered = FALSE
    /\ issued = {}
    /\ verdict = [r \in Requests |-> "none"]
    /\ overtaken = {}
    /\ forwarded = [r \in Requests |-> 0]
    /\ crashes = 0

-----------------------------------------------------------------------------
(* Pausing a request *)

\* The entry both pause paths store.  MaxTime leaves the entry room to expire.
NewEntry(r, t) ==
    /\ phase = "serving"
    /\ r \notin issued
    /\ now + t < MaxTime
    /\ issued' = issued \cup {r}
    /\ pendingRequests' = [pendingRequests EXCEPT ![r] =
           [status |-> "pending", createdAt |-> now, timeoutSecs |-> t,
            timeoutAt |-> now + t, hasContext |-> TRUE]]
    /\ UNCHANGED <<rows, accepted, now, phase, loopVars, recoveryVars,
                   verdict, overtaken, forwarded, crashes>>

\* check_hitl when a rule matches: store the entry and start the task that
\* creates the row, without waiting for it.
CheckHitl(r, t) ==
    /\ NewEntry(r, t)
    /\ creates' = creates \cup {[request |-> r, timeoutAt |-> now + t]}

\* The agency controller asks for approval: the proxy writes the entry itself
\* and starts no task.
AgencyPause(r, t) ==
    /\ NewEntry(r, t)
    /\ UNCHANGED creates

-----------------------------------------------------------------------------
(* The gateway's HITL endpoints *)

EndpointFrame ==
    UNCHANGED <<rows, accepted, now, phase, creates, loopVars, recoveryVars,
                issued, crashes>>

\* approve() and deny() look at no status: any known request takes any verdict.
Approve(r) ==
    /\ phase = "serving"
    /\ Status(r) # "absent"
    /\ SetStatus(r, "approved")
    /\ verdict' = [verdict EXCEPT ![r] = "approved"]
    /\ overtaken' = overtaken \ {r}
    /\ UNCHANGED forwarded
    /\ EndpointFrame

Deny(r) ==
    /\ phase = "serving"
    /\ Status(r) # "absent"
    /\ SetStatus(r, "denied")
    /\ verdict' = [verdict EXCEPT ![r] = "denied"]
    /\ overtaken' = IF asked = r THEN overtaken \cup {r} ELSE overtaken \ {r}
    /\ UNCHANGED forwarded
    /\ EndpointFrame

\* The lazy expiry shared by the two reading endpoints; no cloud is asked.
ExpireOnRead(r) ==
    /\ phase = "serving"
    /\ Overdue(r)
    /\ SetStatus(r, "expired")
    /\ UNCHANGED <<verdict, overtaken, forwarded>>
    /\ EndpointFrame

\* get_status() on an overdue request; on any other it only reports.
GetStatus(r) == ExpireOnRead(r)

\* get_request_context() refuses and expires an overdue request.
ResumeOverdue(r) == ExpireOnRead(r)

\* Mutant of MayForward: only a denial refuses.
MayForward_UnlessDenied(r) ==
    Status(r) \notin {"absent", "denied"} /\ pendingRequests[r].hasContext

\* get_request_context(): approved, and the request is still stored.
MayForward(r) == Status(r) = "approved" /\ pendingRequests[r].hasContext

\* get_request_context() returns the stored request, which is forwarded; the
\* approval is not used up.
ResumeApproved(r) ==
    /\ phase = "serving"
    /\ MayForward(r)
    /\ forwarded[r] < MaxForwards
    /\ forwarded' = [forwarded EXCEPT ![r] = @ + 1]
    /\ UNCHANGED <<pendingRequests, verdict, overtaken>>
    /\ EndpointFrame

-----------------------------------------------------------------------------
(* The cleanup loop: _process_pending_requests every 30 s *)

LoopFrame == UNCHANGED <<rows, accepted, now, phase, creates, recoveryVars,
                         historyVars>>

\* list(self.pending_requests.items())
CleanupWake ==
    /\ phase # "down"
    /\ loopPc = "sleep"
    /\ loopPc' = "scan"
    /\ todo' = {r \in Requests : Status(r) # "absent"}
    /\ UNCHANGED <<pendingRequests, asked, answer>>
    /\ LoopFrame

\* Mutant of CleanupAsk: the status is not tested, any request is asked about.
CleanupAsk_AnyStatus(r) ==
    /\ loopPc = "scan"
    /\ r \in todo
    /\ loopPc' = "ask"
    /\ asked' = r
    /\ todo' = todo \ {r}
    /\ UNCHANGED <<pendingRequests, answer>>
    /\ LoopFrame

\* The status test and the start of _get_cloud_decision.
CleanupAsk(r) ==
    /\ loopPc = "scan"
    /\ r \in todo
    /\ Status(r) = "pending"
    /\ loopPc' = "ask"
    /\ asked' = r
    /\ todo' = todo \ {r}
    /\ UNCHANGED <<pendingRequests, answer>>
    /\ LoopFrame

\* The server reads the row; its answer then travels.
CloudReads ==
    /\ loopPc = "ask"
    /\ loopPc' = "answered"
    /\ answer' = DecisionOf(asked)
    /\ UNCHANGED <<pendingRequests, todo, asked>>
    /\ LoopFrame

\* A timeout, an error or a status other than 200: decision None.
AskFails ==
    /\ loopPc \in {"ask", "answered"}
    /\ loopPc' = "answered"
    /\ answer' = "none"
    /\ UNCHANGED <<pendingRequests, todo, asked>>
    /\ LoopFrame

\* Mutant of CleanupApply: expiry is left to the reading endpoints.
CleanupApply_NoExpiry ==
    /\ loopPc = "answered"
    /\ loopPc' = "scan"
    /\ asked' = NoRequest /\ answer' = "none"
    /\ pendingRequests' = IF answer = "none" THEN pendingRequests
                          ELSE [pendingRequests EXCEPT ![asked].status = answer]
    /\ UNCHANGED todo
    /\ LoopFrame

\* The code after the await: the answer overwrites whatever the status has
\* become meanwhile; only then is a still pending request expired.
CleanupApply ==
    /\ loopPc = "answered"
    /\ loopPc' = "scan"
    /\ asked' = NoRequest
    /\ answer' = "none"
    /\ pendingRequests' =
           CASE answer \in Decisions ->
                    [pendingRequests EXCEPT ![asked].status = answer]
             [] answer = "none" /\ Overdue(asked) ->
                    [pendingRequests EXCEPT ![asked].status = "expired"]
             [] OTHER -> pendingRequests
    /\ UNCHANGED todo
    /\ LoopFrame

\* What is left of the snapshot is no longer pending and is skipped.
CleanupDone ==
    /\ loopPc = "scan"
    /\ \A r \in todo : Status(r) # "pending"
    /\ loopPc' = "sleep"
    /\ todo' = {}
    /\ UNCHANGED <<pendingRequests, asked, answer>>
    /\ LoopFrame

-----------------------------------------------------------------------------
(* The central service *)

CloudFrame == UNCHANGED <<accepted, now, phase, pendingRequests, loopVars,
                          recoveryVars, historyVars>>

\* The server handles the POST.  _sync_hitl_to_cloud takes any answer, a 500 too, for
\* a row created, and nobody reads its result: what it is told changes nothing.
DeliverCreate(c) ==
    /\ c \in creates
    /\ creates' = creates \ {c}
    /\ CreateRow(c.request, now, c.timeoutAt)
    /\ CloudFrame

\* Refused connection or a timeout before the server acts: a warning is logged.
LoseCreate(c) ==
    /\ c \in creates
    /\ creates' = creates \ {c}
    /\ UNCHANGED rows
    /\ CloudFrame

DashboardDecide(r, d) ==
    /\ RecordDecision(r, d)
    /\ UNCHANGED creates
    /\ CloudFrame

-----------------------------------------------------------------------------
(* Process lifetime *)

LifeFrame == UNCHANGED <<rows, accepted, now, issued, forwarded>>

\* A crash, or a shutdown: stop_cleanup cancels the loop and nothing is saved.
\* A POST that was sent may still reach the server.
Stop ==
    /\ phase # "down"
    /\ crashes < MaxCrashes
    /\ crashes' = crashes + 1
    /\ phase' = "down"
    /\ pendingRequests' = [r \in Requests |-> NoEntry]
    /\ UNCHANGED creates
    /\ verdict' = [r \in Requests |-> "none"] /\ overtaken' = {}
    /\ loopPc' = "sleep" /\ todo' = {} /\ asked' = NoRequest /\ answer' = "none"
    /\ snapshot' = {} /\ recovered' = FALSE
    /\ LifeFrame

StartFrame == LifeFrame /\ UNCHANGED <<creates, loopVars, verdict, overtaken, crashes>>

Restart ==
    /\ phase = "down"
    /\ phase' = "starting"
    /\ UNCHANGED <<pendingRequests, recoveryVars>>
    /\ StartFrame

\* The server's half of _recover_pending_from_cloud.
RecoverRead ==
    /\ phase = "starting"
    /\ ~recovered
    /\ recovered' = TRUE
    /\ snapshot' \in Listed(RecoverLimit)
    /\ UNCHANGED <<phase, pendingRequests>>
    /\ StartFrame

\* Mutant of Restorable: the row's age is not looked at.
Restorable_AnyAge(r) == r \in snapshot

\* time.time() < timeout_at
Restorable(r) == r \in snapshot /\ now < rows[r].timeoutAt

\* Mutant of RecoverRestore: the whole timeout starts again.
RecoverRestore_FreshClock ==
    /\ phase = "starting" /\ recovered
    /\ phase' = "serving"
    /\ pendingRequests' =
           [r \in Requests |->
               IF Restorable(r)
               THEN [status      |-> "pending",
                     createdAt   |-> now,
                     timeoutSecs |-> rows[r].timeoutAt - rows[r].createdAt,
                     timeoutAt   |-> rows[r].timeoutAt,
                     hasContext  |-> FALSE]
               ELSE pendingRequests[r]]
    /\ snapshot' = {} /\ recovered' = FALSE
    /\ StartFrame

\* The gateway's half: entries whose timeout_at is not reached come back, as
\* PENDING, with the row's created_at, with what is LEFT of the timeout as
\* timeout_seconds, and without a request context.
RecoverRestore ==
    /\ phase = "starting" /\ recovered
    /\ phase' = "serving"
    /\ pendingRequests' =
           [r \in Requests |->
               IF Restorable(r)
               THEN [status      |-> "pending",
                     createdAt   |-> rows[r].createdAt,
                     timeoutSecs |-> rows[r].timeoutAt - now,
                     timeoutAt   |-> rows[r].timeoutAt,
                     hasContext  |-> FALSE]
               ELSE pendingRequests[r]]
    /\ snapshot' = {} /\ recovered' = FALSE
    /\ StartFrame

\* The recovery call fails: serve with an empty table.
RecoverNothing ==
    /\ phase = "starting"
    /\ phase' = "serving"
    /\ snapshot' = {} /\ recovered' = FALSE
    /\ UNCHANGED pendingRequests
    /\ StartFrame

Tick ==
    /\ now < MaxTime
    /\ now' = now + 1
    /\ UNCHANGED <<rows, accepted, phase, pendingRequests, creates, loopVars,
                   recoveryVars, historyVars>>

-----------------------------------------------------------------------------
Pause == \E r \in Requests, t \in Timeouts : CheckHitl(r, t) \/ AgencyPause(r, t)

Endpoints == \E r \in Requests : \/ Approve(r) \/ Deny(r) \/ GetStatus(r)
                                 \/ ResumeOverdue(r) \/ ResumeApproved(r)

Cleanup == \/ CleanupWake \/ CleanupDone
           \/ \E r \in Requests : CleanupAsk(r)
           \/ CloudReads \/ AskFails \/ CleanupApply

Cloud == \/ \E c \in creates : DeliverCreate(c) \/ LoseCreate(c)
         \/ \E r \in Requests, d \in Decisions : DashboardDecide(r, d)

Life == Stop \/ Restart \/ RecoverRead \/ RecoverRestore \/ RecoverNothing

Next == Pause \/ Endpoints \/ Cleanup \/ Cloud \/ Life \/ Tick

Spec == Init /\ [][Next]_vars

\* asyncio keeps running the cleanup task, every awaited call ends (the httpx
\* timeout is 5 s), and time passes.  Nothing is assumed of humans, of clients,
\* of the delivery of a create, or of restarts.
Fairness ==
    /\ WF_vars(Tick)
    /\ WF_vars(CleanupWake)
    /\ WF_vars(CleanupDone)
    /\ WF_vars(\E r \in Requests : CleanupAsk(r))
    /\ WF_vars(CloudReads \/ AskFails)
    /\ WF_vars(CleanupApply)

FairSpec == Spec /\ Fairness

-----------------------------------------------------------------------------
(* Properties *)

\* A human's approval stands for r: the last verdict given to this process, or
\* the decision recorded on the dashboard.
Authority(r) == verdict[r] = "approved" \/ DecisionOf(r) = "approved"

\* A request is in status APPROVED, or an approval is on its way to the cleanup
\* loop, only while a human's approval stands behind it: no interleaving of
\* lost answers, restarts and late answers makes up an approval.
ApprovalsAreBacked ==
    /\ \A r \in Requests : Status(r) = "approved" => Authority(r)
    /\ answer = "approved" => DecisionOf(asked) = "approved"
    /\ \A r \in snapshot : rows[r] # NoRow

\* /hitl/resume forwards a stored request only while an approval stands for it.
ForwardsOnlyAuthorised ==
    [][\A r \in Requests : forwarded'[r] # forwarded[r] => Authority(r)]_vars

\* The gate as a client sees it implements ApprovalGate.
Gate == INSTANCE ApprovalGate
            WITH held       <- issued,
                 authorised <- {r \in Requests : Authority(r)},
                 released   <- {r \in Requests : forwarded[r] > 0}

ImplementsApprovalGate == Gate!Spec

\* Neither the loop nor a reading endpoint takes an approval back by expiry,
\* however late the approval came (test_hitl_cloud, test 16).
ApprovedNeverExpires ==
    [][\A r \in Requests : Status(r) = "approved" => Status(r)' # "expired"]_vars

\* A request whose last local verdict is a denial is forwarded only if that denial
\* fell between the loop's question about this very request and its answer, and
\* the dashboard holds an approval: in particular never while no row exists.
DenialHonoured ==
    [][\A r \in Requests :
           forwarded'[r] # forwarded[r] /\ verdict[r] = "denied" =>
               r \in overtaken /\ DecisionOf(r) = "approved"]_vars

\* However often the gateway restarts, a request waits no longer than the deadline
\* the dashboard shows for it (a recovered one may wait less).
WaitsEndByDeadline ==
    \A r \in Requests :
        Status(r) = "pending" /\ rows[r] # NoRow =>
            pendingRequests[r].createdAt + pendingRequests[r].timeoutSecs
                <= rows[r].timeoutAt

\* No request waits for ever: the loop ends every wait, with a decision or by
\* expiry, even if nobody polls and every call to the cloud fails.
PendingResolves ==
    \A r \in Requests : Status(r) = "pending" ~> Status(r) # "pending"
=============================================================================
