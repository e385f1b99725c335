----------------------------- MODULE HitlProofs -----------------------------
(***************************************************************************)
(* What is true of the gate for every set of requests, every set of         *)
(* timeouts, every set of accepted calls and every bound.                   *)
(***************************************************************************)
EXTENDS Hitl, TLAPS

\* The inductive invariant.  Neither half is inductive alone: the type of a
\* restored entry needs the rows of the snapshot to exist, which is part of
\* ApprovalsAreBacked, and that in turn needs the loop's variables well formed.
IInv == TypeOK /\ ApprovalsAreBacked

-----------------------------------------------------------------------------
(* The store *)

\* A table that only grows: a row stays, and so does a decision.
StoreGrows ==
    /\ \A r \in Requests : rows[r] # NoRow => rows'[r] # NoRow
    /\ \A r \in Requests : DecisionOf(r) = "approved" => DecisionOf(r)' = "approved"

LEMMA CreateRowStore ==
    ASSUME NEW r \in Requests, NEW at \in Nat, NEW t \in Nat,
           StoreTypeOK, CreateRow(r, at, t), UNCHANGED accepted
    PROVE  StoreTypeOK' /\ StoreGrows
<1> DEFINE new == [decision |-> "none", createdAt |-> at, timeoutAt |-> t]
<1>1. new \in Row
  BY DEF Row
<1>2. new # NoRow
  BY NoRowAssumption, <1>1 DEF Row, Decisions
<1>3. CASE rows[r] = NoRow /\ "create" \in accepted
  <2>1. rows' = [rows EXCEPT ![r] = new]
    BY <1>3 DEF CreateRow
  <2>2. StoreTypeOK'
    BY <2>1, <1>1 DEF StoreTypeOK
  <2>3. StoreGrows
    BY <2>1, <1>2, <1>3 DEF StoreGrows, DecisionOf, StoreTypeOK
  <2>4. QED BY <2>2, <2>3
<1>4. CASE ~(rows[r] = NoRow /\ "create" \in accepted)
  BY <1>4 DEF CreateRow, StoreTypeOK, StoreGrows, DecisionOf
<1>5. QED BY <1>3, <1>4

LEMMA RecordDecisionStore ==
    ASSUME NEW r \in Requests, NEW d \in Decisions,
           StoreTypeOK, RecordDecision(r, d), UNCHANGED accepted
    PROVE  StoreTypeOK' /\ StoreGrows
<1> DEFINE new == [rows[r] EXCEPT !.decision = d]
<1>1. /\ rows[r] # NoRow /\ rows[r].decision = "none"
      /\ rows' = [rows EXCEPT ![r] = new]
  BY DEF RecordDecision, PendingRows
<1>2. new \in Row
  BY <1>1 DEF StoreTypeOK, Row, Decisions
<1>3. new # NoRow
  BY NoRowAssumption, <1>2 DEF Row, Decisions
<1>4. StoreTypeOK'
  BY <1>1, <1>2 DEF StoreTypeOK
<1>5. StoreGrows
  BY <1>1, <1>3 DEF StoreGrows, DecisionOf, StoreTypeOK
<1>6. QED BY <1>4, <1>5

-----------------------------------------------------------------------------
(* The invariant *)

LEMMA NoEntryType == NoEntry \in PendingRequest
BY DEF NoEntry, PendingRequest

LEMMA InitInv == Init => IInv
<1> SUFFICES ASSUME Init PROVE IInv
  OBVIOUS
<1>1. StoreTypeOK
  BY AcceptAssumption DEF Init, StoreInit, StoreTypeOK
<1>2. TypeOK
  BY <1>1, NoEntryType DEF Init, TypeOK, Answers
<1>3. ApprovalsAreBacked
  BY DEF Init, ApprovalsAreBacked, Status, NoEntry
<1>4. QED BY <1>2, <1>3 DEF IInv

\* A step that leaves the store, the loop, the recovery and the verdicts alone
\* and approves nothing keeps ApprovalsAreBacked.
LEMMA NothingApproved ==
    ASSUME ApprovalsAreBacked,
           UNCHANGED <<rows, loopVars, snapshot, verdict>>,
           \A r \in Requests : Status(r)' = "approved" => Status(r) = "approved"
    PROVE  ApprovalsAreBacked'
BY DEF ApprovalsAreBacked, Authority, DecisionOf, loopVars

LEMMA PauseInv == IInv /\ Pause => IInv'
<1> SUFFICES ASSUME IInv, NEW r \in Requests, NEW t \in Timeouts,
                    CheckHitl(r, t) \/ AgencyPause(r, t)
             PROVE  IInv'
  BY DEF Pause
<1> USE DEF IInv
<1>1. t \in Nat
  BY HitlAssumption
<1>2. NewEntry(r, t) /\ creates' \in SUBSET Create
  <2>1. [request |-> r, timeoutAt |-> now + t] \in Create
    BY <1>1 DEF TypeOK, Create
  <2>2. QED BY <2>1 DEF CheckHitl, AgencyPause, TypeOK
<1>3. TypeOK'
  BY <1>1, <1>2 DEF TypeOK, NewEntry, PendingRequest, Statuses, StoreTypeOK,
                    loopVars, recoveryVars
<1>4. ApprovalsAreBacked'
  BY <1>2, NothingApproved DEF NewEntry, Status, TypeOK, PendingRequest, Statuses,
                               recoveryVars
<1>5. QED BY <1>3, <1>4

LEMMA EndpointsInv == IInv /\ Endpoints => IInv'
<1> SUFFICES ASSUME IInv, NEW r \in Requests,
                    \/ Approve(r) \/ Deny(r) \/ GetStatus(r)
                    \/ ResumeOverdue(r) \/ ResumeApproved(r)
             PROVE  IInv'
  BY DEF Endpoints
<1> USE DEF IInv, EndpointFrame, loopVars, recoveryVars
<1>1. CASE Approve(r)
  <2>1. TypeOK'
    BY <1>1 DEF Approve, SetStatus, TypeOK, PendingRequest, Statuses, Answers,
                Decisions, StoreTypeOK
  <2>2. ApprovalsAreBacked'
    BY <1>1 DEF Approve, SetStatus, Status, TypeOK, PendingRequest,
                ApprovalsAreBacked, Authority, DecisionOf
  <2>3. QED BY <2>1, <2>2
<1>2. CASE Deny(r)
  <2>1. TypeOK'
    BY <1>2 DEF Deny, SetStatus, TypeOK, PendingRequest, Statuses, Answers,
                Decisions, StoreTypeOK
  <2>2. ApprovalsAreBacked'
    BY <1>2 DEF Deny, SetStatus, Status, TypeOK, PendingRequest,
                ApprovalsAreBacked, Authority, DecisionOf
  <2>3. QED BY <2>1, <2>2
<1>3. CASE ExpireOnRead(r)
  <2>1. TypeOK'
    BY <1>3 DEF ExpireOnRead, SetStatus, TypeOK, PendingRequest, Statuses, StoreTypeOK
  <2>2. \A q \in Requests : Status(q)' = "approved" => Status(q) = "approved"
    BY <1>3 DEF ExpireOnRead, SetStatus, Status, TypeOK, PendingRequest
  <2>3. ApprovalsAreBacked'
    BY <1>3, <2>2, NothingApproved DEF ExpireOnRead
  <2>4. QED BY <2>1, <2>3
<1>4. CASE ResumeApproved(r)
  <2>1. TypeOK'
    BY <1>4 DEF ResumeApproved, TypeOK, StoreTypeOK
  <2>2. ApprovalsAreBacked'
    BY <1>4, NothingApproved DEF ResumeApproved, Status
  <2>3. QED BY <2>1, <2>2
<1>5. QED BY <1>1, <1>2, <1>3, <1>4 DEF GetStatus, ResumeOverdue

LEMMA CleanupInv == IInv /\ Cleanup => IInv'
<1> SUFFICES ASSUME IInv, Cleanup PROVE IInv'
  OBVIOUS
<1> USE DEF IInv, LoopFrame, recoveryVars, historyVars
<1>2. CASE CleanupWake
  BY <1>2 DEF CleanupWake, TypeOK, StoreTypeOK, ApprovalsAreBacked, Status, Authority,
              DecisionOf
<1>3. CASE CleanupDone
  BY <1>3 DEF CleanupDone, TypeOK, StoreTypeOK, ApprovalsAreBacked, Status, Authority,
              DecisionOf
<1>4. ASSUME NEW r \in Requests, CleanupAsk(r) PROVE IInv'
  BY <1>4 DEF CleanupAsk, TypeOK, StoreTypeOK, ApprovalsAreBacked, Status, Authority,
              DecisionOf
<1>5. CASE CloudReads
  <2>1. DecisionOf(asked) \in Answers
    BY <1>5 DEF CloudReads, TypeOK, StoreTypeOK, DecisionOf, Row, Answers
  <2>2. QED
    BY <1>5, <2>1 DEF CloudReads, TypeOK, StoreTypeOK, ApprovalsAreBacked, Status,
                      Authority, DecisionOf
<1>6. CASE AskFails
  BY <1>6 DEF AskFails, TypeOK, StoreTypeOK, ApprovalsAreBacked, Status, Authority,
              DecisionOf, Answers
<1>7. CASE CleanupApply
  <2>1. asked \in Requests
    BY <1>7 DEF CleanupApply, TypeOK
  <2>2. PICK s \in Statuses \cup {"absent"} :
            /\ pendingRequests' = [pendingRequests EXCEPT ![asked].status = s]
            /\ s = "approved" => answer = "approved" \/ Status(asked) = "approved"
    <3>1. CASE answer \in Decisions
      BY <1>7, <3>1 DEF CleanupApply, Decisions, Statuses
    <3>2. CASE answer = "none" /\ Overdue(asked)
      BY <1>7, <3>2 DEF CleanupApply, Decisions, Statuses
    <3>3. CASE answer = "none" /\ ~Overdue(asked)
      <4>1. pendingRequests' = pendingRequests
        BY <1>7, <3>3 DEF CleanupApply, Decisions
      <4>2. pendingRequests = [pendingRequests EXCEPT ![asked].status = Status(asked)]
        BY <2>1 DEF Status, TypeOK, PendingRequest
      <4>3. Status(asked) \in Statuses \cup {"absent"}
        BY <2>1 DEF Status, TypeOK, PendingRequest
      <4>4. QED BY <4>1, <4>2, <4>3
    <3>4. QED BY <3>1, <3>2, <3>3 DEF TypeOK, Answers
  <2>3. TypeOK'
    BY <1>7, <2>1, <2>2 DEF CleanupApply, TypeOK, StoreTypeOK, PendingRequest, Answers
  <2>4. \A q \in Requests : Status(q)' = "approved" => Authority(q)
    BY <2>1, <2>2 DEF Status, TypeOK, PendingRequest, ApprovalsAreBacked, Authority
  <2>5. ApprovalsAreBacked'
    BY <1>7, <2>4 DEF CleanupApply, ApprovalsAreBacked, Authority, DecisionOf
  <2>6. QED BY <2>3, <2>5
<1>8. QED
  BY <1>2, <1>3, <1>4, <1>5, <1>6, <1>7 DEF Cleanup

LEMMA CloudInv == IInv /\ Cloud => IInv'
<1> SUFFICES ASSUME IInv, Cloud PROVE IInv'
  OBVIOUS
<1> USE DEF IInv
<1>1. CloudFrame
  BY DEF Cloud, DeliverCreate, LoseCreate, DashboardDecide
<1>2. creates' \in SUBSET Create
  BY DEF Cloud, DeliverCreate, LoseCreate, DashboardDecide, TypeOK, Create
<1>3. StoreTypeOK' /\ StoreGrows
  <2>1. ASSUME NEW c \in creates, DeliverCreate(c) PROVE StoreTypeOK' /\ StoreGrows
    BY <2>1, CreateRowStore DEF DeliverCreate, TypeOK, Create, CloudFrame
  <2>2. ASSUME NEW c \in creates, LoseCreate(c) PROVE StoreTypeOK' /\ StoreGrows
    BY <2>2 DEF LoseCreate, TypeOK, StoreTypeOK, StoreGrows, DecisionOf, CloudFrame
  <2>3. ASSUME NEW r \in Requests, NEW d \in Decisions, DashboardDecide(r, d)
        PROVE  StoreTypeOK' /\ StoreGrows
    BY <2>3, RecordDecisionStore DEF DashboardDecide, TypeOK, CloudFrame
  <2>4. QED BY <2>1, <2>2, <2>3 DEF Cloud
<1>4. TypeOK'
  BY <1>1, <1>2, <1>3 DEF CloudFrame, TypeOK, loopVars, recoveryVars, historyVars
<1>5. ApprovalsAreBacked'
  <2>1. \A r \in Requests : Authority(r) => Authority(r)'
    BY <1>1, <1>3 DEF CloudFrame, historyVars, Authority, StoreGrows
  <2>2. answer = "approved" => asked \in Requests
    BY DEF TypeOK
  <2>3. QED
    BY <1>1, <1>3, <2>1, <2>2 DEF CloudFrame, loopVars, recoveryVars,
       ApprovalsAreBacked, StoreGrows, TypeOK, Status, DecisionOf
<1>6. QED BY <1>4, <1>5

LEMMA LifeInv == IInv /\ Life => IInv'
<1> SUFFICES ASSUME IInv, Life PROVE IInv'
  OBVIOUS
<1> USE DEF IInv, LifeFrame
<1>1. CASE Stop
  <2>1. pendingRequests' \in [Requests -> PendingRequest]
    BY <1>1, NoEntryType DEF Stop
  <2>2. verdict' \in [Requests -> Answers]
    BY <1>1 DEF Stop, Answers
  <2>3. /\ phase' = "down" /\ loopPc' = "sleep" /\ asked' = NoRequest
        /\ answer' = "none" /\ todo' = {} /\ snapshot' = {} /\ recovered' = FALSE
        /\ crashes' \in Nat
    BY <1>1 DEF Stop, TypeOK
  <2>4. creates' \in SUBSET Create
    BY <1>1 DEF Stop, TypeOK
  <2>5. overtaken' = {}
    BY <1>1 DEF Stop
  <2>6. TypeOK'
    BY <1>1, <2>1, <2>2, <2>3, <2>4, <2>5 DEF Stop, TypeOK, StoreTypeOK, Answers
  <2>7. ApprovalsAreBacked'
    BY <1>1 DEF Stop, ApprovalsAreBacked, Status, NoEntry
  <2>8. QED BY <2>6, <2>7
<1> USE DEF StartFrame, loopVars, recoveryVars
<1>2. CASE Restart
  <2>1. TypeOK'
    BY <1>2 DEF Restart, TypeOK, StoreTypeOK
  <2>2. ApprovalsAreBacked'
    BY <1>2, NothingApproved DEF Restart, Status
  <2>3. QED BY <2>1, <2>2
<1>3. CASE RecoverRead
  <2>1. snapshot' \in SUBSET PendingRows
    BY <1>3 DEF RecoverRead, Listed, NewestPending
  <2>2. TypeOK'
    BY <1>3, <2>1 DEF RecoverRead, TypeOK, StoreTypeOK, PendingRows
  <2>3. ApprovalsAreBacked'
    BY <1>3, <2>1 DEF RecoverRead, ApprovalsAreBacked, PendingRows, Status, Authority,
                      DecisionOf
  <2>4. QED BY <2>2, <2>3
<1>4. CASE RecoverRestore
  <2>1. ASSUME NEW r \in Requests, Restorable(r)
        PROVE  /\ rows[r].createdAt \in Nat /\ rows[r].timeoutAt \in Nat
               /\ rows[r].timeoutAt - now \in Nat
    BY <2>1 DEF Restorable, ApprovalsAreBacked, TypeOK, StoreTypeOK, Row
  <2>2. pendingRequests' \in [Requests -> PendingRequest]
    BY <1>4, <2>1 DEF RecoverRestore, TypeOK, PendingRequest, Statuses
  <2>3. TypeOK'
    BY <1>4, <2>2 DEF RecoverRestore, TypeOK, StoreTypeOK
  <2>4. \A r \in Requests : Status(r)' = "approved" => Status(r) = "approved"
    BY <1>4 DEF RecoverRestore, Status
  <2>5. ApprovalsAreBacked'
    BY <1>4, <2>4 DEF RecoverRestore, ApprovalsAreBacked, Authority, DecisionOf
  <2>6. QED BY <2>3, <2>5
<1>5. CASE RecoverNothing
  BY <1>5 DEF RecoverNothing, TypeOK, StoreTypeOK, ApprovalsAreBacked, Status,
              Authority, DecisionOf
<1>6. QED BY <1>1, <1>2, <1>3, <1>4, <1>5 DEF Life

LEMMA TickInv == IInv /\ Tick => IInv'
<1> SUFFICES ASSUME IInv, Tick PROVE IInv'
  OBVIOUS
<1>1. TypeOK'
  BY DEF IInv, Tick, TypeOK, StoreTypeOK, loopVars, recoveryVars, historyVars
<1>2. ApprovalsAreBacked'
  BY NothingApproved DEF IInv, Tick, Status, recoveryVars, historyVars
<1>3. QED BY <1>1, <1>2 DEF IInv

LEMMA StutterInv == IInv /\ UNCHANGED vars => IInv'
<1> SUFFICES ASSUME IInv, UNCHANGED vars PROVE IInv'
  OBVIOUS
<1>1. TypeOK'
  BY DEF IInv, vars, TypeOK, StoreTypeOK, loopVars, recoveryVars, historyVars
<1>2. ApprovalsAreBacked'
  BY NothingApproved DEF IInv, vars, Status, recoveryVars, historyVars
<1>3. QED BY <1>1, <1>2 DEF IInv

LEMMA NextInv == IInv /\ [Next]_vars => IInv'
BY PauseInv, EndpointsInv, CleanupInv, CloudInv, LifeInv, TickInv, StutterInv DEF Next

LEMMA Invariance == Spec => []IInv
<1>1. Init => IInv
  BY InitInv
<1>2. IInv /\ [Next]_vars => IInv'
  BY NextInv
<1>3. QED BY <1>1, <1>2, PTL DEF Spec

\* The gateway's table, the store, the messages and the loop always hold values
\* the code could put there; in particular a restored timeout is never negative.
THEOREM TypeCorrect == Spec => []TypeOK
<1>1. IInv => TypeOK
  BY DEF IInv
<1>2. QED BY <1>1, Invariance, PTL

\* No interleaving of endpoints, late answers, failures and restarts puts a
\* request in status APPROVED without a human's approval behind it.
THEOREM ApprovalsBacked == Spec => []ApprovalsAreBacked
<1>1. IInv => ApprovalsAreBacked
  BY DEF IInv
<1>2. QED BY <1>1, Invariance, PTL
-----------------------------------------------------------------------------
(* Forwarding *)

\* Only a resume of an approved request forwards anything.
LEMMA OnlyResumeForwards ==
    ASSUME IInv, [Next]_vars, NEW r \in Requests, forwarded'[r] # forwarded[r]
    PROVE  ResumeApproved(r)
<1>1. PICK q \in Requests : ResumeApproved(q)
  <2>1. \/ UNCHANGED forwarded
        \/ \E q \in Requests : ResumeApproved(q)
    BY DEF Next, vars, historyVars, Pause, CheckHitl, AgencyPause, NewEntry,
       Endpoints, Approve, Deny, GetStatus, ResumeOverdue, ExpireOnRead,
       Cleanup, CleanupWake, CleanupDone, CleanupAsk, CloudReads,
       AskFails, CleanupApply, LoopFrame, Cloud, DeliverCreate, LoseCreate,
       DashboardDecide, CloudFrame, Life, Stop, Restart, RecoverRead,
       RecoverRestore, RecoverNothing, LifeFrame, StartFrame, Tick
  <2>2. QED BY <2>1
<1>2. q = r
  BY <1>1 DEF ResumeApproved, IInv, TypeOK
<1>3. QED BY <1>1, <1>2

\* /hitl/resume re-sends a stored request only while an approval stands for it,
\* whatever the loop, the network and the restarts do in between.
THEOREM ForwardsAuthorised == Spec => ForwardsOnlyAuthorised
<1>1. ASSUME IInv, [Next]_vars
      PROVE  [\A r \in Requests : forwarded'[r] # forwarded[r] => Authority(r)]_vars
  <2> SUFFICES ASSUME NEW r \in Requests, forwarded'[r] # forwarded[r]
               PROVE  Authority(r)
    OBVIOUS
  <2>1. ResumeApproved(r)
    BY <1>1, OnlyResumeForwards
  <2>2. QED
    BY <1>1, <2>1 DEF ResumeApproved, MayForward, IInv, ApprovalsAreBacked
<1>2. QED BY <1>1, Invariance, PTL DEF Spec, ForwardsOnlyAuthorised

\* No step of the loop, of a reading endpoint or of the network turns an approved
\* request into an expired one.
THEOREM NeverExpires == Spec => ApprovedNeverExpires
<1>1. ASSUME IInv, [Next]_vars
      PROVE  [\A r \in Requests : Status(r) = "approved" => Status(r)' # "expired"]_vars
  <2> SUFFICES ASSUME NEW r \in Requests, Status(r) = "approved"
               PROVE  Status(r)' # "expired"
    OBVIOUS
  <2> USE DEF IInv, TypeOK, PendingRequest, Status
  <2>1. CASE Pause
    BY <1>1, <2>1 DEF Pause, CheckHitl, AgencyPause, NewEntry
  <2>2. CASE Endpoints
    BY <1>1, <2>2 DEF Endpoints, Approve, Deny, GetStatus, ResumeOverdue, ExpireOnRead,
                ResumeApproved, Overdue, SetStatus
  <2>3. CASE Cleanup
    <3>2. CASE CleanupApply
      BY <3>2 DEF CleanupApply, Overdue, Decisions
    <3>3. QED
      BY <2>3, <3>2 DEF Cleanup, CleanupWake, CleanupDone, CleanupAsk,
                              CloudReads, AskFails
  <2>4. CASE Cloud
    BY <2>4 DEF Cloud, DeliverCreate, LoseCreate, DashboardDecide, CloudFrame
  <2>5. CASE Life
    BY <2>5 DEF Life, Stop, Restart, RecoverRead, RecoverRestore, RecoverNothing, NoEntry
  <2>6. CASE Tick \/ UNCHANGED vars
    BY <2>6 DEF Tick, vars
  <2>7. QED BY <1>1, <2>1, <2>2, <2>3, <2>4, <2>5, <2>6 DEF Next
<1>2. QED BY <1>1, Invariance, PTL DEF Spec, ApprovedNeverExpires

-----------------------------------------------------------------------------
(* The gate implements ApprovalGate *)

\* Whatever the gateway, the network or the store knows was paused once.
OnlyIssued ==
    /\ \A r \in Requests :
           Status(r) # "absent" \/ rows[r] # NoRow \/ verdict[r] # "none" => r \in issued
    /\ \A c \in creates : c.request \in issued
    /\ asked \in Requests => asked \in issued

\* The refinement's invariant.
RInv == IInv /\ OnlyIssued

Authorised == {r \in Requests : Authority(r)}
Released == {r \in Requests : forwarded[r] > 0}

\* A step that pauses, approves and forwards nothing, and at most loses
\* approvals, is a stutter or a withdrawal.
LEMMA QuietStep ==
    ASSUME UNCHANGED <<issued, forwarded>>,
           \A r \in Requests : Authority(r)' => Authority(r)
    PROVE  [Gate!Next]_(Gate!gateVars)
<1>1. Authorised' = Authorised \ (Authorised \ Authorised')
  BY DEF Authorised
<1>2. UNCHANGED Released
  BY DEF Released
<1>3. Gate!Withdraw(Authorised \ Authorised')
  BY <1>1, <1>2 DEF Gate!Withdraw, Authorised, Released
<1>4. (Authorised \ Authorised') \in SUBSET Requests
  BY DEF Authorised
<1>5. QED BY <1>3, <1>4 DEF Gate!Next

LEMMA PauseStep == RInv /\ Pause => OnlyIssued' /\ [Gate!Next]_(Gate!gateVars)
<1> SUFFICES ASSUME RInv, NEW r \in Requests, NEW t \in Timeouts,
                    CheckHitl(r, t) \/ AgencyPause(r, t)
             PROVE  OnlyIssued' /\ [Gate!Next]_(Gate!gateVars)
  BY DEF Pause
<1>1. NewEntry(r, t)
  BY DEF CheckHitl, AgencyPause
<1>2. \A c \in creates' : c \in creates \/ c.request = r
  BY DEF CheckHitl, AgencyPause
<1>3. OnlyIssued'
  BY <1>1, <1>2 DEF NewEntry, OnlyIssued, RInv, IInv, TypeOK, PendingRequest,
                    Status, loopVars
<1>4. Gate!Hold(r)
  BY <1>1 DEF NewEntry, Gate!Hold, Authority, DecisionOf
<1>5. QED BY <1>3, <1>4 DEF Gate!Next

LEMMA EndpointsStep == RInv /\ Endpoints => OnlyIssued' /\ [Gate!Next]_(Gate!gateVars)
<1> SUFFICES ASSUME RInv, NEW r \in Requests,
                    \/ Approve(r) \/ Deny(r) \/ GetStatus(r)
                    \/ ResumeOverdue(r) \/ ResumeApproved(r)
             PROVE  OnlyIssued' /\ [Gate!Next]_(Gate!gateVars)
  BY DEF Endpoints
<1> USE DEF RInv, IInv, EndpointFrame, loopVars, recoveryVars
<1>1. CASE Approve(r)
  <2>1. OnlyIssued'
    BY <1>1 DEF Approve, SetStatus, OnlyIssued, TypeOK, PendingRequest, Status
  <2>2. \A q \in Requests : Authority(q)' <=> q = r \/ Authority(q)
    BY <1>1 DEF Approve, Authority, DecisionOf, TypeOK
  <2>3. Gate!Authorise(r)
    BY <1>1, <2>2 DEF Approve, Gate!Authorise, OnlyIssued
  <2>4. QED BY <2>1, <2>3 DEF Gate!Next
<1>2. CASE Deny(r)
  <2>1. OnlyIssued'
    BY <1>2 DEF Deny, SetStatus, OnlyIssued, TypeOK, PendingRequest, Status
  <2>2. \A q \in Requests : Authority(q)' => Authority(q)
    BY <1>2 DEF Deny, Authority, DecisionOf, TypeOK
  <2>3. QED BY <1>2, <2>1, <2>2, QuietStep DEF Deny
<1>3. CASE ExpireOnRead(r)
  <2>1. OnlyIssued'
    BY <1>3 DEF ExpireOnRead, SetStatus, OnlyIssued, TypeOK, PendingRequest, Status,
                Overdue
  <2>2. \A q \in Requests : Authority(q)' => Authority(q)
    BY <1>3 DEF ExpireOnRead, Authority, DecisionOf
  <2>3. QED BY <1>3, <2>1, <2>2, QuietStep DEF ExpireOnRead
<1>4. CASE ResumeApproved(r)
  <2>1. OnlyIssued'
    BY <1>4 DEF ResumeApproved, OnlyIssued, Status
  <2>2. Authority(r)
    BY <1>4 DEF ResumeApproved, MayForward, ApprovalsAreBacked
  <2>3. {q \in Requests : forwarded'[q] > 0} = {q \in Requests : forwarded[q] > 0} \cup {r}
    BY <1>4 DEF ResumeApproved, TypeOK
  <2>4. Gate!Release(r)
    BY <1>4, <2>2, <2>3 DEF ResumeApproved, Gate!Release, Authority, DecisionOf
  <2>5. QED BY <2>1, <2>4 DEF Gate!Next
<1>5. QED BY <1>1, <1>2, <1>3, <1>4 DEF GetStatus, ResumeOverdue

LEMMA CleanupStep == RInv /\ Cleanup => OnlyIssued' /\ [Gate!Next]_(Gate!gateVars)
<1> SUFFICES ASSUME RInv, Cleanup PROVE OnlyIssued' /\ [Gate!Next]_(Gate!gateVars)
  OBVIOUS
<1> USE DEF RInv, IInv
<1>1. LoopFrame
  BY DEF Cleanup, CleanupWake, CleanupDone, CleanupAsk, CloudReads,
         AskFails, CleanupApply
<1>2. \A r \in Requests : Authority(r)' => Authority(r)
  BY <1>1 DEF LoopFrame, historyVars, Authority, DecisionOf
<1>3. /\ \A r \in Requests : Status(r)' # "absent" => r \in issued
      /\ asked' \in Requests => asked' \in issued
  <2>2. CASE CleanupWake \/ CleanupDone \/ CloudReads \/ AskFails
    BY <2>2 DEF CleanupWake, CleanupDone, CloudReads, AskFails, OnlyIssued, Status
  <2>3. ASSUME NEW q \in Requests, CleanupAsk(q)
        PROVE  /\ \A r \in Requests : Status(r)' # "absent" => r \in issued
               /\ asked' \in Requests => asked' \in issued
    BY <2>3 DEF CleanupAsk, OnlyIssued, Status
  <2>4. CASE CleanupApply
    <3>1. asked \in issued /\ asked' \notin Requests
      BY <2>4, HitlAssumption DEF CleanupApply, OnlyIssued, TypeOK
    <3>2. \A r \in Requests : r # asked => Status(r)' = Status(r)
      BY <2>4 DEF CleanupApply, TypeOK, PendingRequest, Status
    <3>3. QED BY <3>1, <3>2 DEF OnlyIssued
  <2>5. QED BY <2>2, <2>3, <2>4 DEF Cleanup
<1>4. OnlyIssued'
  BY <1>1, <1>3 DEF LoopFrame, historyVars, OnlyIssued
<1>5. QED
  BY <1>1, <1>2, <1>4, QuietStep DEF LoopFrame, historyVars

LEMMA CloudStep == RInv /\ Cloud => OnlyIssued' /\ [Gate!Next]_(Gate!gateVars)
<1> SUFFICES ASSUME RInv, Cloud PROVE OnlyIssued' /\ [Gate!Next]_(Gate!gateVars)
  OBVIOUS
<1> USE DEF RInv, IInv, CloudFrame, historyVars, loopVars
<1>1. ASSUME NEW c \in creates, DeliverCreate(c)
      PROVE  OnlyIssued' /\ [Gate!Next]_(Gate!gateVars)
  <2>1. \/ rows' = rows
        \/ /\ rows[c.request] = NoRow
           /\ rows' = [rows EXCEPT ![c.request] = [decision  |-> "none",
                                                   createdAt |-> now,
                                                   timeoutAt |-> c.timeoutAt]]
    BY <1>1 DEF DeliverCreate, CreateRow
  <2>2. OnlyIssued'
    BY <1>1, <2>1 DEF DeliverCreate, OnlyIssued, TypeOK, StoreTypeOK, Status
  <2>3. \A r \in Requests : Authority(r)' => Authority(r)
    BY <1>1, <2>1 DEF DeliverCreate, Authority, DecisionOf, TypeOK, StoreTypeOK
  <2>4. QED BY <1>1, <2>2, <2>3, QuietStep DEF DeliverCreate
<1>2. ASSUME NEW c \in creates, LoseCreate(c)
      PROVE  OnlyIssued' /\ [Gate!Next]_(Gate!gateVars)
  <2>1. OnlyIssued'
    BY <1>2 DEF LoseCreate, OnlyIssued, Status
  <2>2. \A r \in Requests : Authority(r)' => Authority(r)
    BY <1>2 DEF LoseCreate, Authority, DecisionOf
  <2>3. QED BY <1>2, <2>1, <2>2, QuietStep DEF LoseCreate
<1>3. ASSUME NEW r \in Requests, NEW d \in Decisions, DashboardDecide(r, d)
      PROVE  OnlyIssued' /\ [Gate!Next]_(Gate!gateVars)
  <2>1. /\ rows[r] # NoRow /\ rows[r].decision = "none"
        /\ rows' = [rows EXCEPT ![r] = [rows[r] EXCEPT !.decision = d]]
    BY <1>3 DEF DashboardDecide, RecordDecision, PendingRows
  <2>2. r \in issued /\ OnlyIssued'
    BY <1>3, <2>1 DEF DashboardDecide, OnlyIssued, TypeOK, StoreTypeOK, Status
  <2>3. rows'[r] # NoRow /\ rows'[r].decision = d
    <3>1. rows'[r] \in Row /\ rows'[r].decision = d
      BY <2>1 DEF TypeOK, StoreTypeOK, Row, Decisions
    <3>2. QED BY <3>1, NoRowAssumption DEF Row, Decisions
  <2>4. \A q \in Requests : q # r => (Authority(q)' <=> Authority(q))
    BY <1>3, <2>1 DEF DashboardDecide, Authority, DecisionOf, TypeOK, StoreTypeOK
  <2>5. CASE d = "approved"
    <3>1. Authority(r)'
      BY <2>3, <2>5 DEF Authority, DecisionOf
    <3>2. Gate!Authorise(r)
      BY <1>3, <2>2, <2>4, <3>1 DEF DashboardDecide, Gate!Authorise
    <3>3. QED BY <2>2, <3>2 DEF Gate!Next
  <2>6. CASE d = "denied"
    <3>1. Authority(r)' => Authority(r)
      BY <1>3, <2>3, <2>6 DEF DashboardDecide, Authority, DecisionOf
    <3>2. QED BY <1>3, <2>2, <2>4, <3>1, QuietStep DEF DashboardDecide
  <2>7. QED BY <2>5, <2>6 DEF Decisions
<1>4. QED BY <1>1, <1>2, <1>3 DEF Cloud

LEMMA LifeStep == RInv /\ Life => OnlyIssued' /\ [Gate!Next]_(Gate!gateVars)
<1> SUFFICES ASSUME RInv, Life PROVE OnlyIssued' /\ [Gate!Next]_(Gate!gateVars)
  OBVIOUS
<1> USE DEF RInv, IInv, LifeFrame
<1>1. LifeFrame
  BY DEF Life, Stop, Restart, RecoverRead, RecoverRestore, RecoverNothing, StartFrame
<1>2. \A r \in Requests : verdict'[r] = verdict[r] \/ verdict'[r] = "none"
  BY DEF Life, Stop, Restart, RecoverRead, RecoverRestore, RecoverNothing, StartFrame
<1>3. \A r \in Requests : Authority(r)' => Authority(r)
  BY <1>1, <1>2 DEF Authority, DecisionOf
<1>4. asked' = asked \/ asked' \notin Requests
  BY HitlAssumption DEF Life, Stop, Restart, RecoverRead, RecoverRestore,
     RecoverNothing, StartFrame, loopVars
<1>5. \A r \in Requests :
         Status(r)' # "absent" => Status(r) # "absent" \/ rows[r] # NoRow
  <2>1. CASE Stop
    BY <2>1 DEF Stop, Status, NoEntry
  <2>2. CASE RecoverRestore
    BY <2>2 DEF RecoverRestore, Restorable, Status, ApprovalsAreBacked
  <2>3. CASE Restart \/ RecoverRead \/ RecoverNothing
    BY <2>3 DEF Restart, RecoverRead, RecoverNothing, Status
  <2>4. QED BY <2>1, <2>2, <2>3 DEF Life
<1>6. \A c \in creates' : c.request \in issued
  BY DEF Life, Stop, Restart, RecoverRead, RecoverRestore, RecoverNothing, StartFrame,
     OnlyIssued
<1>7. OnlyIssued'
  BY <1>1, <1>2, <1>4, <1>5, <1>6 DEF OnlyIssued
<1>8. QED BY <1>1, <1>3, <1>7, QuietStep

LEMMA IdleStep == RInv /\ (Tick \/ UNCHANGED vars)
                      => OnlyIssued' /\ [Gate!Next]_(Gate!gateVars)
<1> SUFFICES ASSUME RInv, Tick \/ UNCHANGED vars
             PROVE  OnlyIssued' /\ [Gate!Next]_(Gate!gateVars)
  OBVIOUS
<1>1. UNCHANGED <<rows, pendingRequests, creates, loopVars, historyVars>>
  BY DEF Tick, vars
<1>2. OnlyIssued'
  BY <1>1 DEF RInv, OnlyIssued, Status, loopVars, historyVars
<1>3. \A r \in Requests : Authority(r)' => Authority(r)
  BY <1>1 DEF Authority, DecisionOf, historyVars
<1>4. QED BY <1>1, <1>2, <1>3, QuietStep DEF historyVars

LEMMA InitRInv == Init => RInv /\ Gate!Init
<1> SUFFICES ASSUME Init PROVE RInv /\ Gate!Init
  OBVIOUS
<1>1. OnlyIssued
  BY HitlAssumption DEF Init, OnlyIssued, StoreInit, Status, NoEntry
<1>2. Gate!Init
  BY DEF Init, Gate!Init, StoreInit, Authority, DecisionOf
<1>3. QED BY <1>1, <1>2, InitInv DEF RInv

LEMMA StepRInv == RInv /\ [Next]_vars => RInv' /\ [Gate!Next]_(Gate!gateVars)
BY PauseStep, EndpointsStep, CleanupStep, CloudStep, LifeStep, IdleStep, NextInv
   DEF Next, RInv

LEMMA RefinementInvariance == Spec => []RInv
BY InitRInv, StepRInv, PTL DEF Spec

\* With identifiers as held requests, standing approvals as authorisations and
\* resumed requests as releases, every behaviour of gateway, network and store is
\* a behaviour of the abstract gate.
THEOREM Refinement == Spec => ImplementsApprovalGate
<1>1. Init => Gate!Init
  BY InitRInv
<1>2. RInv /\ [Next]_vars => [Gate!Next]_(Gate!gateVars)
  BY StepRInv
<1>3. QED
  BY <1>1, <1>2, RefinementInvariance, PTL DEF Spec, ImplementsApprovalGate, Gate!Spec

-----------------------------------------------------------------------------
(* Denials *)

\* What makes a denial stick: a denied request is never asked about, so no answer
\* can overwrite it, unless the loop was awaiting that answer already; and until
\* the recovery has rebuilt the table nobody has denied anything.
DeniedStays ==
    /\ \A r \in Requests :
           verdict[r] = "denied" /\ r \notin overtaken =>
               Status(r) = "denied" /\ asked # r
    /\ phase # "serving" => \A r \in Requests : verdict[r] = "none"

LEMMA InitDenied == Init => DeniedStays
BY DEF Init, DeniedStays

LEMMA DeniedStep ==
    ASSUME RInv, DeniedStays, [Next]_vars
    PROVE  DeniedStays'
<1> USE DEF RInv, IInv, TypeOK, PendingRequest, Status, loopVars, recoveryVars,
            historyVars, DeniedStays
<1>1. CASE Pause
  <2>1. PICK r \in Requests, t \in Timeouts : NewEntry(r, t)
    BY <1>1 DEF Pause, CheckHitl, AgencyPause
  <2>2. verdict[r] = "none"
    BY <2>1 DEF NewEntry, OnlyIssued
  <2>3. QED BY <2>1, <2>2 DEF NewEntry
<1>2. ASSUME NEW r \in Requests, Approve(r) \/ Deny(r) \/ ExpireOnRead(r)
      PROVE  DeniedStays'
  BY <1>2 DEF Approve, Deny, ExpireOnRead, Overdue, SetStatus, EndpointFrame
<1>3. ASSUME NEW r \in Requests, ResumeApproved(r)
      PROVE  DeniedStays'
  BY <1>3 DEF ResumeApproved, EndpointFrame
<1>4. CASE Cleanup
  <2>1. CASE CleanupApply
    BY <2>1, HitlAssumption DEF CleanupApply, LoopFrame
  <2>2. ASSUME NEW r \in Requests, CleanupAsk(r) PROVE DeniedStays'
    BY <2>2 DEF CleanupAsk, LoopFrame
  <2>3. CASE CleanupWake \/ CleanupDone \/ CloudReads \/ AskFails
    BY <2>3 DEF CleanupWake, CleanupDone, CloudReads, AskFails, LoopFrame
  <2>4. QED BY <1>4, <2>1, <2>2, <2>3 DEF Cleanup
<1>5. CASE Cloud
  BY <1>5 DEF Cloud, DeliverCreate, LoseCreate, DashboardDecide, CloudFrame
<1>6. CASE Life
  BY <1>6 DEF Life, Stop, Restart, RecoverRead, RecoverRestore, RecoverNothing,
              LifeFrame, StartFrame, NoEntry
<1>7. CASE Tick \/ UNCHANGED vars
  BY <1>7 DEF Tick, vars
<1>8. QED
  BY <1>1, <1>2, <1>3, <1>4, <1>5, <1>6, <1>7
     DEF Next, Endpoints, GetStatus, ResumeOverdue

\* A denial given at the gateway is forwarded against only when it fell between
\* the loop's question and its answer and the dashboard holds an approval; for
\* any number of requests, loops, lost calls and restarts.
THEOREM DenialsHonoured == Spec => DenialHonoured
<1>1. Init => DeniedStays
  BY InitDenied
<1>2. RInv /\ DeniedStays /\ [Next]_vars => DeniedStays'
  BY DeniedStep
<1>3. ASSUME IInv, DeniedStays, [Next]_vars
      PROVE  [\A r \in Requests :
                  forwarded'[r] # forwarded[r] /\ verdict[r] = "denied" =>
                      r \in overtaken /\ DecisionOf(r) = "approved"]_vars
  <2> SUFFICES ASSUME NEW r \in Requests,
                      forwarded'[r] # forwarded[r], verdict[r] = "denied"
               PROVE  r \in overtaken /\ DecisionOf(r) = "approved"
    OBVIOUS
  <2>1. Status(r) = "approved"
    BY <1>3, OnlyResumeForwards DEF ResumeApproved, MayForward
  <2>2. r \in overtaken
    BY <1>3, <2>1 DEF DeniedStays
  <2>3. DecisionOf(r) = "approved"
    BY <1>3, <2>1 DEF IInv, ApprovalsAreBacked, Authority
  <2>4. QED BY <2>2, <2>3
<1>4. RInv => IInv
  BY DEF RInv
<1>5. QED BY <1>1, <1>2, <1>3, <1>4, RefinementInvariance, PTL DEF Spec, DenialHonoured

-----------------------------------------------------------------------------
(* Deadlines *)

\* The end of the wait as the expiry tests compute it.
WaitEnd(r) == pendingRequests[r].createdAt + pendingRequests[r].timeoutSecs

\* A pending request's wait ends by the deadline of its row, or of the create that
\* will make it; a row is never younger than the clock, and it has no second create.
Deadlines ==
    /\ \A r \in Requests :
           Status(r) = "pending" /\ rows[r] # NoRow => WaitEnd(r) <= rows[r].timeoutAt
    /\ \A c \in creates :
           /\ rows[c.request] = NoRow
           /\ Status(c.request) = "pending" => WaitEnd(c.request) <= c.timeoutAt
    /\ \A c, d \in creates : c.request = d.request => c = d
    /\ \A r \in Requests : rows[r] # NoRow => rows[r].createdAt <= now

\* Nothing but a pause, a delivery, a stop or a recovery touches what Deadlines is
\* about, except that a request may leave PENDING and the clock advance.
LEMMA DeadlinesKept ==
    ASSUME RInv, Deadlines, UNCHANGED rows, creates' \subseteq creates,
           now' \in Nat, now' >= now,
           \A r \in Requests :
               Status(r)' = "pending" =>
                   Status(r) = "pending" /\ pendingRequests'[r] = pendingRequests[r]
    PROVE  Deadlines'
<1>1. \A c \in creates : c.request \in Requests /\ c.timeoutAt \in Nat
  BY DEF RInv, IInv, TypeOK, Create
<1>2. \A r \in Requests : rows[r] # NoRow => rows[r].createdAt \in Nat
  BY DEF RInv, IInv, TypeOK, StoreTypeOK, Row
<1>3. now \in Nat
  BY DEF RInv, IInv, TypeOK
<1>4. \A r \in Requests : Status(r)' = "pending" => WaitEnd(r)' = WaitEnd(r)
  BY DEF WaitEnd
<1>5. \A r \in Requests :
          Status(r)' = "pending" /\ rows'[r] # NoRow => WaitEnd(r)' <= rows'[r].timeoutAt
  BY <1>4 DEF Deadlines
<1>6. \A c \in creates' :
          /\ rows'[c.request] = NoRow
          /\ Status(c.request)' = "pending" => WaitEnd(c.request)' <= c.timeoutAt
  BY <1>1, <1>4 DEF Deadlines
<1>7. \A r \in Requests : rows'[r] # NoRow => rows'[r].createdAt <= now'
  <2> SUFFICES ASSUME NEW r \in Requests, rows[r] # NoRow
               PROVE  rows[r].createdAt <= now'
    OBVIOUS
  <2>1. rows[r].createdAt \in Nat /\ rows[r].createdAt <= now
    BY <1>2 DEF Deadlines
  <2>2. QED BY <1>3, <2>1
<1>8. QED BY <1>5, <1>6, <1>7 DEF Deadlines

LEMMA PauseDeadlines ==
    ASSUME RInv, Deadlines, NEW r \in Requests, NEW t \in Timeouts,
           CheckHitl(r, t) \/ AgencyPause(r, t)
    PROVE  Deadlines'
<1>1. t \in Nat /\ now \in Nat
  BY HitlAssumption DEF RInv, IInv, TypeOK
<1>2. /\ rows[r] = NoRow
      /\ \A c \in creates : c.request # r
  BY DEF CheckHitl, AgencyPause, NewEntry, RInv, OnlyIssued
<1> DEFINE new == [request |-> r, timeoutAt |-> now + t]
<1>3. /\ \A c \in creates' : c \in creates \/ (c.request = r /\ c.timeoutAt = now + t)
      /\ \A c, d \in creates' : c \notin creates /\ d \notin creates => c = d
  <2>1. creates' = creates \/ creates' = creates \cup {new}
    BY DEF CheckHitl, AgencyPause
  <2>2. new.request = r /\ new.timeoutAt = now + t
    OBVIOUS
  <2> HIDE DEF new
  <2>3. \A c \in creates' : c \in creates \/ c = new
    BY <2>1
  <2>4. ASSUME NEW c \in creates'
        PROVE  c \in creates \/ (c.request = r /\ c.timeoutAt = now + t)
    <3>1. CASE c \in creates
      BY <3>1
    <3>2. CASE c = new
      BY <2>2, <3>2
    <3>3. QED BY <2>3, <3>1, <3>2
  <2>5. \A c, d \in creates' : c \notin creates /\ d \notin creates => c = d
    BY <2>3
  <2>6. QED BY <2>4, <2>5
<1>4. /\ pendingRequests'[r].createdAt = now
      /\ pendingRequests'[r].timeoutSecs = t
      /\ \A q \in Requests : q # r => pendingRequests'[q] = pendingRequests[q]
      /\ UNCHANGED <<rows, now>>
  BY DEF CheckHitl, AgencyPause, NewEntry, RInv, IInv, TypeOK
<1>5. WaitEnd(r)' = now + t
  BY <1>4 DEF WaitEnd
<1>6. \A q \in Requests : q # r => WaitEnd(q)' = WaitEnd(q) /\ Status(q)' = Status(q)
  BY <1>4 DEF WaitEnd, Status
<1>7. \A c \in creates : c.request \in Requests
  BY DEF RInv, IInv, TypeOK, Create
<1>8. \A q \in Requests :
          Status(q)' = "pending" /\ rows'[q] # NoRow => WaitEnd(q)' <= rows'[q].timeoutAt
  BY <1>2, <1>4, <1>6 DEF Deadlines
<1>9. \A c \in creates' :
          /\ rows'[c.request] = NoRow
          /\ Status(c.request)' = "pending" => WaitEnd(c.request)' <= c.timeoutAt
  <2> SUFFICES ASSUME NEW c \in creates'
               PROVE  /\ rows'[c.request] = NoRow
                      /\ Status(c.request)' = "pending" => WaitEnd(c.request)' <= c.timeoutAt
    OBVIOUS
  <2>1. CASE c \in creates
    BY <2>1, <1>2, <1>4, <1>6, <1>7 DEF Deadlines
  <2>2. CASE c.request = r /\ c.timeoutAt = now + t
    BY <2>2, <1>1, <1>2, <1>4, <1>5
  <2>3. QED BY <1>3, <2>1, <2>2
<1>10. \A c, d \in creates' : c.request = d.request => c = d
  BY <1>2, <1>3 DEF Deadlines
<1>11. QED BY <1>4, <1>8, <1>9, <1>10 DEF Deadlines

LEMMA DeliverDeadlines ==
    ASSUME RInv, Deadlines, NEW c \in creates, DeliverCreate(c)
    PROVE  Deadlines'
<1> DEFINE new == [decision |-> "none", createdAt |-> now, timeoutAt |-> c.timeoutAt]
<1>1. c.request \in Requests /\ now \in Nat /\ c.timeoutAt \in Nat
  BY DEF RInv, IInv, TypeOK, Create
<1>2. \A q \in Requests :
          \/ rows'[q] = rows[q]
          \/ (q = c.request /\ rows'[q] = new)
  BY <1>1 DEF DeliverCreate, CreateRow, RInv, IInv, TypeOK, StoreTypeOK
<1>3. \A d \in creates' : d \in creates /\ d.request # c.request
  BY DEF DeliverCreate, Deadlines
<1>4. UNCHANGED <<now, pendingRequests>>
  BY DEF DeliverCreate, CloudFrame
<1>5. \A q \in Requests : WaitEnd(q)' = WaitEnd(q) /\ Status(q)' = Status(q)
  BY <1>4 DEF WaitEnd, Status
<1>6. \A q \in Requests :
          Status(q)' = "pending" /\ rows'[q] # NoRow => WaitEnd(q)' <= rows'[q].timeoutAt
  BY <1>2, <1>5 DEF Deadlines
<1>7. \A d \in creates' : d.request \in Requests /\ d \in creates
  BY <1>3 DEF RInv, IInv, TypeOK, Create
<1>8. \A d \in creates' :
          /\ rows'[d.request] = NoRow
          /\ Status(d.request)' = "pending" => WaitEnd(d.request)' <= d.timeoutAt
  BY <1>2, <1>3, <1>5, <1>7 DEF Deadlines
<1>9. \A q \in Requests : rows'[q] # NoRow => rows'[q].createdAt <= now'
  BY <1>1, <1>2, <1>4 DEF Deadlines
<1>10. \A d, e \in creates' : d.request = e.request => d = e
  BY <1>3 DEF Deadlines
<1>11. QED BY <1>6, <1>8, <1>9, <1>10 DEF Deadlines

LEMMA StopDeadlines ==
    ASSUME RInv, Deadlines, Stop
    PROVE  Deadlines'
<1>1. \A q \in Requests : Status(q)' # "pending"
  BY DEF Stop, Status, NoEntry
<1>2. UNCHANGED <<rows, now, creates>> /\ now \in Nat
  BY DEF Stop, LifeFrame, RInv, IInv, TypeOK
<1>3. QED BY <1>1, <1>2, DeadlinesKept

LEMMA RestoreDeadlines ==
    ASSUME RInv, Deadlines, RecoverRestore
    PROVE  Deadlines'
<1>1. UNCHANGED <<rows, now, creates>>
  BY DEF RecoverRestore, StartFrame, LifeFrame
<1>2. now \in Nat
  BY DEF RInv, IInv, TypeOK
<1>3. \A r \in Requests : Restorable(r) =>
          /\ rows[r] # NoRow
          /\ rows[r].createdAt \in Nat /\ rows[r].timeoutAt \in Nat
          /\ WaitEnd(r)' = rows[r].createdAt + (rows[r].timeoutAt - now)
  BY DEF RecoverRestore, WaitEnd, Restorable, RInv, IInv, ApprovalsAreBacked, TypeOK,
         StoreTypeOK, Row
<1>4. \A r \in Requests : Restorable(r) => WaitEnd(r)' <= rows[r].timeoutAt
  BY <1>2, <1>3 DEF Deadlines
<1>5. \A r \in Requests : ~Restorable(r) =>
          WaitEnd(r)' = WaitEnd(r) /\ Status(r)' = Status(r)
  BY DEF RecoverRestore, WaitEnd, Status
<1>6. \A r \in Requests :
          Status(r)' = "pending" /\ rows'[r] # NoRow => WaitEnd(r)' <= rows'[r].timeoutAt
  BY <1>1, <1>4, <1>5 DEF Deadlines
<1>7. \A c \in creates : c.request \in Requests
  BY DEF RInv, IInv, TypeOK, Create
<1>8. \A c \in creates' :
          /\ rows'[c.request] = NoRow
          /\ Status(c.request)' = "pending" => WaitEnd(c.request)' <= c.timeoutAt
  BY <1>1, <1>3, <1>5, <1>7 DEF Deadlines
<1>9. QED BY <1>1, <1>6, <1>8 DEF Deadlines

LEMMA OtherDeadlines ==
    ASSUME RInv, Deadlines, [Next]_vars,
           ~Pause, ~Stop, ~RecoverRestore, \A c \in creates : ~DeliverCreate(c)
    PROVE  Deadlines'
<1> USE DEF Status, loopVars, historyVars, recoveryVars
<1>1. CASE Endpoints
  BY <1>1, DeadlinesKept DEF RInv, IInv, TypeOK, PendingRequest, Endpoints, Approve, Deny,
     GetStatus, ResumeOverdue, ExpireOnRead, ResumeApproved, SetStatus, EndpointFrame
<1>2. CASE Cleanup
  <2>1. \A r \in Requests :
            Status(r)' = "pending" =>
                Status(r) = "pending" /\ pendingRequests'[r] = pendingRequests[r]
    BY <1>2 DEF RInv, IInv, TypeOK, PendingRequest, Cleanup, CleanupWake, CleanupDone,
       CleanupAsk, CloudReads, AskFails, CleanupApply, Decisions
  <2>2. UNCHANGED <<rows, now, creates>>
    BY <1>2 DEF Cleanup, CleanupWake, CleanupDone, CleanupAsk, CloudReads, AskFails,
                CleanupApply, LoopFrame
  <2>3. QED BY <2>1, <2>2, DeadlinesKept DEF RInv, IInv, TypeOK
<1>3. ASSUME NEW c \in creates, LoseCreate(c) PROVE Deadlines'
  BY <1>3, DeadlinesKept DEF LoseCreate, CloudFrame, RInv, IInv, TypeOK
<1>4. ASSUME NEW r \in Requests, NEW d \in Decisions, DashboardDecide(r, d)
      PROVE  Deadlines'
  <2>1. \A q \in Requests :
            /\ rows'[q] = NoRow <=> rows[q] = NoRow
            /\ rows[q] # NoRow => /\ rows'[q].createdAt = rows[q].createdAt
                                  /\ rows'[q].timeoutAt = rows[q].timeoutAt
    <3>1. rows[r] # NoRow /\ rows' = [rows EXCEPT ![r].decision = d]
      BY <1>4 DEF DashboardDecide, RecordDecision, PendingRows
    <3>2. rows[r] \in Row /\ [rows[r] EXCEPT !.decision = d] \in Row
      BY <3>1 DEF RInv, IInv, TypeOK, StoreTypeOK, Row, Decisions
    <3>3. [rows[r] EXCEPT !.decision = d] # NoRow
      BY <3>2, NoRowAssumption DEF Row, Decisions
    <3>4. QED BY <3>1, <3>2, <3>3 DEF RInv, IInv, TypeOK, StoreTypeOK, Row
  <2>2. UNCHANGED <<now, creates, pendingRequests>>
    BY <1>4 DEF DashboardDecide, CloudFrame
  <2>3. \A c \in creates : c.request \in Requests
    BY DEF RInv, IInv, TypeOK, Create
  <2>4. \A q \in Requests : WaitEnd(q)' = WaitEnd(q) /\ Status(q)' = Status(q)
    BY <2>2 DEF WaitEnd
  <2>5. QED BY <2>1, <2>2, <2>3, <2>4 DEF Deadlines
<1>5. CASE Restart \/ RecoverRead \/ RecoverNothing
  BY <1>5, DeadlinesKept DEF Restart, RecoverRead, RecoverNothing, StartFrame, LifeFrame,
     RInv, IInv, TypeOK
<1>6. CASE Tick \/ UNCHANGED vars
  BY <1>6, DeadlinesKept DEF Tick, vars, RInv, IInv, TypeOK
<1>7. QED
  BY <1>1, <1>2, <1>3, <1>4, <1>5, <1>6 DEF Next, Cloud, Life

\* However often the gateway stops and recovers, no request waits beyond the
\* deadline its row shows on the dashboard.
THEOREM DeadlinesHold == Spec => []WaitsEndByDeadline
<1>1. Init => Deadlines
  BY DEF Init, StoreInit, Deadlines, Status, NoEntry
<1>2. RInv /\ Deadlines /\ [Next]_vars => Deadlines'
  BY PauseDeadlines, DeliverDeadlines, StopDeadlines, RestoreDeadlines, OtherDeadlines
     DEF Pause
<1>3. Deadlines => WaitsEndByDeadline
  BY DEF Deadlines, WaitsEndByDeadline, WaitEnd
<1>4. QED BY <1>1, <1>2, <1>3, RefinementInvariance, PTL DEF Spec
=============================================================================
