---------------------------- MODULE ApprovalGate ----------------------------
(***************************************************************************)
(* What a human-in-the-loop gate promises, whatever it is built from: a    *)
(* request is held first, and it is released to the LLM provider only while *)
(* a human's authorisation for it stands.  Authorisations may be withdrawn  *)
(* (a later denial, or a restart that loses them); releases are for ever.   *)
(***************************************************************************)
CONSTANT Requests

VARIABLES held,        \* requests that were paused for a human
          authorised,  \* requests a human's approval stands for
          released     \* requests forwarded to the provider at least once

gateVars == <<held, authorised, released>>

Init == held = {} /\ authorised = {} /\ released = {}

Hold(r) ==
    /\ r \notin held
    /\ held' = held \cup {r}
    /\ UNCHANGED <<authorised, released>>

Authorise(r) ==
    /\ r \in held
    /\ authorised' = authorised \cup {r}
    /\ UNCHANGED <<held, released>>

\* One or several authorisations are withdrawn at once.
Withdraw(S) ==
    /\ authorised' = authorised \ S
    /\ UNCHANGED <<held, released>>

Release(r) ==
    /\ r \in authorised
    /\ released' = released \cup {r}
    /\ UNCHANGED <<held, authorised>>

Next == \/ \E r \in Requests : Hold(r) \/ Authorise(r) \/ Release(r)
        \/ \E S \in SUBSET Requests : Withdraw(S)

Spec == Init /\ [][Next]_gateVars
=============================================================================
