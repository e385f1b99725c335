------------------------------ MODULE HitlStore ------------------------------
(***************************************************************************)
(* The table hitl_approvals of the central service, and the operations the *)
(* API server performs on it: the gateway creates a row when it pauses a    *)
(* request, the dashboard records a human's decision, and the gateway reads *)
(* the decision back.  A row is never deleted.                              *)
(*                                                                         *)
(* Two operations hand times to a library in a form it may refuse:          *)
(*   create  gives asyncpg the string timeout_at for a TIMESTAMPTZ          *)
(*   list    gives json.dumps the datetimes of the rows                     *)
(* Which of them are accepted is chosen once.  The code as it stands, with   *)
(* the libraries it names, has accepted = {}: a create is answered with a   *)
(* 500 and the table stays empty.                                           *)
(***************************************************************************)
EXTENDS Naturals, FiniteSets

CONSTANTS
    Requests,   \* request identifiers (uuid4 in the code)
    NoRow,      \* sentinel: the table has no row for the request
    AcceptSets  \* possible sets of accepted operations

Calls == {"create", "list"}

ASSUME NoRowAssumption == NoRow \notin [decision  : {"none", "approved", "denied"},
                                        createdAt : Nat,
                                        timeoutAt : Nat]
ASSUME AcceptAssumption == AcceptSets \subseteq SUBSET Calls

VARIABLES
    rows,      \* rows[r]: the row with request_id = r, or NoRow
    accepted   \* the operations whose times are accepted

Decisions == {"approved", "denied"}

\* decision is NULL ("none") until somebody decides.
Row == [decision : {"none"} \cup Decisions, createdAt : Nat, timeoutAt : Nat]

StoreTypeOK ==
    /\ rows \in [Requests -> Row \cup {NoRow}]
    /\ accepted \in SUBSET Calls

StoreInit ==
    /\ rows = [r \in Requests |-> NoRow]
    /\ accepted \in AcceptSets

\* Mutants of the operations below: a missing row read as an approval, and an
\* UPDATE without "AND decision IS NULL".
DecisionOf_FailOpen(r) == IF rows[r] = NoRow THEN "approved" ELSE rows[r].decision

RecordDecision_Overwrites(r, d) ==
    /\ rows[r] # NoRow
    /\ rows' = [rows EXCEPT ![r].decision = d]

\* SELECT decision ... : NULL both for a pending row and for a missing one.
DecisionOf(r) == IF rows[r] = NoRow THEN "none" ELSE rows[r].decision

\* WHERE decision IS NULL.
PendingRows == {r \in Requests : rows[r] # NoRow /\ rows[r].decision = "none"}

\* INSERT with the column defaults (created_at = NOW()).  It fails and changes
\* nothing when the driver refuses timeout_at, or when the request has a row
\* (request_id is UNIQUE); either way the endpoint answers 500.
CreateRow(r, at, timeoutAt) ==
    rows' = IF rows[r] = NoRow /\ "create" \in accepted
            THEN [rows EXCEPT ![r] = [decision  |-> "none",
                                      createdAt |-> at,
                                      timeoutAt |-> timeoutAt]]
            ELSE rows

\* UPDATE ... WHERE request_id = r AND decision IS NULL: the first decision is
\* final, and neither timeout_at nor the gateway's own state is consulted.
\* Without a matching row the endpoint answers 404 and nothing changes.
RecordDecision(r, d) ==
    /\ r \in PendingRows
    /\ rows' = [rows EXCEPT ![r].decision = d]

\* The answers pending_by_key may give: ORDER BY created_at DESC LIMIT limit,
\* ties broken arbitrarily.
NewestPending(limit) ==
    {S \in SUBSET PendingRows :
        /\ \A r \in S, q \in PendingRows \ S : rows[r].createdAt >= rows[q].createdAt
        /\ IF Cardinality(PendingRows) <= limit THEN S = PendingRows
                                                ELSE Cardinality(S) = limit}

\* What reaches the gateway of them: an answer with rows raises when it is
\* rendered unless datetimes are accepted, and the 500 restores nothing.
Listed(limit) ==
    {IF "list" \in accepted THEN S ELSE {} : S \in NewestPending(limit)}
=============================================================================
