----------------------------- MODULE RateLimit ------------------------------
(***************************************************************************)
(* BYOCEngine.check: the rate-limit rules first, in their order, then the   *)
(* first pattern rule the prompt matches.  All rate-limit rules share one   *)
(* list of times per API key, each rule cuts the list to its own window and *)
(* each rule that lets the call pass enters the time once.  The gateway     *)
(* calls check with its own key, so there is one list.  A sync of the cloud *)
(* rules (CloudSync) exchanges the rules between two calls and keeps the    *)
(* list.  check has no await: a call is one step.                           *)
(*                                                                         *)
(* Nothing in the code depends on the order of the list.  It is the set of  *)
(* its entries; the call and the rule that entered a time keep equal times   *)
(* apart.                                                                   *)
(***************************************************************************)
EXTENDS Integers, Sequences, FiniteSets, SequencesExt, FiniteSetsExt

CONSTANTS
    RuleSets,       \* the active rules there may be, sequences of rules
    DefaultWindow,  \* the window of a rule that names none (60 seconds)
    MaxTime,        \* bound on the clock
    MaxCalls,       \* bound on the calls
    MaxReloads      \* bound on the exchanges of the rules

\* kind: "rate", "hard_stop" or "soft_block".  limit and window are 0 when the rule leaves
\* them out, and for pattern rules.
ASSUME RateAssumption ==
    /\ RuleSets \subseteq Seq([kind : {"rate", "hard_stop", "soft_block"}, limit : Nat, window : Nat])
    /\ DefaultWindow \in Nat \ {0}
    /\ MaxTime \in Nat /\ MaxCalls \in Nat /\ MaxReloads \in Nat

VARIABLES
    now,        \* time.time(), never set back
    rules,      \* _active_rules
    counter,    \* _rate_counters of the key: the entries, with their time
    calls,      \* history: the calls: time, rate-limit rules then active, outcome
    used,       \* history: the rate-limit rules that were ever active
    reloads     \* history: exchanges of the rules

vars == <<now, rules, counter, calls, used, reloads>>

\* A limit of 0 is falsy: such a rule limits nothing.
Limiting(r) == r.kind = "rate" /\ r.limit # 0
Window(r) == IF r.window = 0 THEN DefaultWindow ELSE r.window
Limits(rs) == {i \in DOMAIN rs : Limiting(rs[i])}

\* Mutant: the times outside of the window are not dropped.
Recent_Kept(entries, r) == entries

Recent(entries, r) == {e \in entries : now - e.time < Window(r)}

\* Mutant: the limit itself is let through.
Exceeded_ByOne(entries, r) == Cardinality(entries) > r.limit

Exceeded(entries, r) == Cardinality(entries) >= r.limit

\* The entry that rule i makes of the present call.
Entry(i) == [time |-> now, call |-> Len(calls) + 1, rule |-> i]
Entered(entries, i, refused) == IF refused THEN entries ELSE entries \cup {Entry(i)}

\* _check_rate_limit of rule i; once a rule refuses, the later ones are not asked.
Asked(i, acc) ==
    LET recent == Recent(acc.entries, rules[i]) full == Exceeded(recent, rules[i]) IN
    IF acc.refused \/ i \notin Limits(rules) THEN acc
    ELSE [entries |-> Entered(recent, i, full), refused |-> full]

Rated ==
    LET after[i \in 0 .. Len(rules)] ==
            IF i = 0 THEN [entries |-> counter, refused |-> FALSE] ELSE Asked(i, after[i - 1])
    IN after[Len(rules)]

\* The first pattern rule the prompt matches decides, a soft one before a hard one too.
Matched(hits) ==
    LET found == {i \in DOMAIN rules : rules[i].kind # "rate" /\ rules[i] \in hits}
    IN IF found = {} THEN "allowed"
       ELSE IF rules[Min(found)].kind = "hard_stop" THEN "blocked" ELSE "warned"

Init ==
    /\ now = 0
    /\ rules \in RuleSets
    /\ counter = {}
    /\ calls = <<>>
    /\ used = {rules[i] : i \in Limits(rules)}
    /\ reloads = 0

\* check for a prompt that matches the pattern rules in hits.
Check(hits) ==
    /\ Len(calls) < MaxCalls
    /\ counter' = Rated.entries
    /\ calls' = Append(calls, [time |-> now, rated |-> Limits(rules),
                               outcome |-> IF Rated.refused THEN "limited" ELSE Matched(hits)])
    /\ UNCHANGED <<now, rules, used, reloads>>

\* _rebuild_active_rules after a sync: other rules, the same list.
Reload(rs) ==
    /\ reloads < MaxReloads /\ reloads' = reloads + 1
    /\ rs # rules /\ rules' = rs
    /\ used' = used \cup {rs[i] : i \in Limits(rs)}
    /\ UNCHANGED <<now, counter, calls>>

Tick ==
    /\ now < MaxTime /\ now' = now + 1
    /\ UNCHANGED <<rules, counter, calls, used, reloads>>

Next ==
    \/ \E hits \in SUBSET {r \in Range(rules) : r.kind # "rate"} : Check(hits)
    \/ \E rs \in RuleSets : Reload(rs)
    \/ Tick

Spec == Init /\ [][Next]_vars

(***************************************************************************)
(* Properties.                                                              *)
(***************************************************************************)
\* The calls of the last w seconds.
Within(history, w) == {k \in DOMAIN history : now - history[k].time < w}

Passed(c) == c.outcome # "limited" /\ c.rated # {}

\* The rule with the shortest window of all that have been active holds: no call passes that
\* would be one more than its limit within its window.  (The other rules do not: the list is
\* cut to the shorter window, so "60 calls per 60s" beside "5 calls per 1s" lets more pass.)
TightestLimitHolds ==
    [][calls' # calls /\ Passed(Last(calls')) =>
          \A i \in Limits(rules) :
              (\A u \in used : Window(rules[i]) <= Window(u)) =>
                  Cardinality({k \in Within(calls', Window(rules[i])) : Passed(calls'[k])})
                      <= rules[i].limit]_vars

\* A call is refused only when the earlier calls within the refusing rule's window, and the
\* rules ahead of it, can have filled the list: each call has entered at most one time per
\* rate-limit rule then active, and each rule ahead has entered this one.  A key that has been
\* quiet for a window is refused by no rule but one whose limit its place in the list exhausts.
RefusedOnlyIfBusy ==
    [][calls' # calls /\ Last(calls').outcome = "limited" =>
          \E i \in Limits(rules) :
              rules[i].limit <=
                  Cardinality(UNION {{k} \X calls[k].rated : k \in Within(calls, Window(rules[i]))})
                  + Cardinality({j \in Limits(rules) : j < i})]_vars
=============================================================================
