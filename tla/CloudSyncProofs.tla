--------------------------- MODULE CloudSyncProofs ---------------------------
(***************************************************************************)
(* What is true of the sync for every set of rules, every number of edits,  *)
(* concurrent requests, failed calls, refused rules and restarts.           *)
(*                                                                          *)
(* LocalRuleKept and ActiveIsMerge are inductive once the tables are known  *)
(* to hold bodies.  The trail needs two more facts: the old value that a    *)
(* request has read was the value of its key at some entry of the trail,    *)
(* and while no other request changes the key it still is the last one.     *)
(***************************************************************************)
EXTENDS CloudSync, TLAPS

USE NamesAssumption

-----------------------------------------------------------------------------
(* Operators *)

\* The merged rules are rules, and a local name is missing exactly if it is flagged.
LEMMA MergeType ==
    ASSUME NEW c \in Tables, \A n \in Names : c[n] # BadBody, NEW d \in SUBSET Names
    PROVE  /\ Merge(c, d) \in [Names -> Bodies \cup {NoBody, LocalBody}]
           /\ \A n \in LocalNames : Merge(c, d)[n] = NoBody <=> n \in d
<1>1. LocalBody # NoBody
  BY DEF LocalBody, NoBody
<1>2. \A n \in Names : Merge(c, d)[n] = IF n \in d THEN NoBody
                                        ELSE IF c[n] # NoBody THEN c[n]
                                        ELSE IF n \in LocalNames THEN LocalBody ELSE NoBody
  BY DEF Merge
<1>3. \A n \in Names : c[n] \in Bodies \cup {NoBody}
  BY DEF Tables
<1>4. QED BY <1>1, <1>2, <1>3 DEF Merge

LEMMA EmptyTable == NoRules \in Tables /\ \A n \in Names : NoRules[n] # BadBody
BY DEF NoRules, Tables, NoBody, BadBody

\* Every key can be told from the absence of one.
LEMMA NoEditKey == Unset \notin Keys
BY DEF Keys, Settings, Unset

LEMMA Domains ==
    /\ \A k \in Keys : ValuesOf(k) \subseteq Values
    /\ Values \subseteq Olds /\ Unset \in Olds
    /\ \A n \in Names : n \in Keys
    /\ \A s \in Settings : s \in Keys /\ s \notin Names /\ ValuesOf(s) \subseteq Texts
BY DEF ValuesOf, Values, Olds, Keys, Texts, Settings

-----------------------------------------------------------------------------
(* Type correctness *)

\* A row holds what the endpoint takes for its key, so that the settings loop reads texts.
RowsFit == \A k \in Keys : override[k] \in ValuesOf(k) \cup {Unset}

TInv == TypeOK /\ RowsFit

LEMMA TInvInit == Init => TInv
<1> SUFFICES ASSUME Init PROVE TInv
  OBVIOUS
<1>1. rules \in Tables /\ cloudRules \in Tables /\ rulesGot \in Tables
      /\ \A n \in Names : cloudRules[n] # BadBody
  BY EmptyTable DEF Init
<1>2. active \in [Names -> Bodies \cup {NoBody, LocalBody}]
  BY EmptyTable, MergeType DEF Init
<1>3. pollGot \in Answers
  BY DEF Init, NoAnswer, Answers
<1>4. /\ override \in Overrides /\ RowsFit
      /\ trail \in [Keys -> Seq(Entries)]
  BY Domains DEF Init, Overrides, RowsFit
<1>5. /\ editing \in [Editors -> Changes]
      /\ \A x \in Editors : editing[x] = NoEdit
  BY DEF Init, Changes
<1>6. served \in BOOLEAN /\ edits \in 0 .. MaxEdits /\ faults \in 0 .. MaxFaults
  BY DEF Init
<1>7. /\ disabled \subseteq Names /\ globals \in Accepted /\ inForce \in Accepted
      /\ syncPc = "sleep" /\ flagsGot \subseteq Names /\ pollPc = "sleep"
      /\ torn \in BOOLEAN /\ overlapped \subseteq Keys
  BY DEF Init, Accepted, Texts, Default
<1>8. QED BY <1>1, <1>2, <1>3, <1>4, <1>5, <1>6, <1>7 DEF TInv, TypeOK

\* The two counters count up to their bounds.
LEMMA Counters ==
    ASSUME TypeOK
    PROVE  /\ Edit => edits' \in 0 .. MaxEdits
           /\ Fault => faults' \in 0 .. MaxFaults
BY DEF TypeOK, Edit, Fault

\* The steps of the dashboard leave the gateway alone, and the gateway's leave the tables.
LEMMA DashboardType ==
    ASSUME TInv, Dashboard
    PROVE  TInv'
<1> USE DEF TInv
<1>1. UNCHANGED <<served, engine, settings>>
  BY DEF Dashboard, DeleteRule, UpsertRule, RuleFrame, ApplyOverride, OverrideFails, ReadOld
<1>2. ASSUME NEW n \in Names, NEW b \in Bodies \cup {BadBody}, UpsertRule(n, b) PROVE TInv'
  <2>1. rules' \in Tables
    BY <1>2 DEF UpsertRule, TypeOK, Tables
  <2>2. edits' \in 0 .. MaxEdits
    BY <1>2, Counters DEF UpsertRule
  <2>3. QED BY <1>1, <1>2, <2>1, <2>2 DEF UpsertRule, RuleFrame, TypeOK, RowsFit, engine, settings
<1>3. ASSUME NEW n \in Names, DeleteRule(n) PROVE TInv'
  <2>1. rules' \in Tables
    BY <1>3 DEF DeleteRule, TypeOK, Tables
  <2>2. edits' \in 0 .. MaxEdits
    BY <1>3, Counters DEF DeleteRule
  <2>3. QED BY <1>1, <1>3, <2>1, <2>2 DEF DeleteRule, RuleFrame, TypeOK, RowsFit, engine, settings
<1>4. ASSUME NEW x \in Editors, NEW k \in Keys, NEW v \in ValuesOf(k), ReadOld(x, k, v) PROVE TInv'
  <2> DEFINE change == [key |-> k, new |-> v, old |-> override[k]]
  <2>1. change \in Changes
    BY Domains DEF Changes, TypeOK, Overrides
  <2>2. /\ editing' = [editing EXCEPT ![x] = change]
        /\ edits' \in 0 .. MaxEdits
        /\ overlapped' = overlapped \/ overlapped' = overlapped \cup {k}
        /\ UNCHANGED <<rules, override, trail, faults>>
    BY <1>4, Counters DEF ReadOld
  <2>3. change.new \in ValuesOf(change.key)
    OBVIOUS
  <2> HIDE DEF change
  <2>4. /\ editing' \in [Editors -> Changes]
        /\ \A y \in Editors : editing'[y] # NoEdit => editing'[y].new \in ValuesOf(editing'[y].key)
    BY <2>1, <2>2, <2>3 DEF TypeOK
  <2>5. QED BY <1>1, <2>2, <2>4 DEF TypeOK, RowsFit, engine, settings
<1>5. ASSUME NEW x \in Editors, ApplyOverride(x) PROVE TInv'
  <2> DEFINE k == editing[x].key
  <2>1. /\ editing[x] # NoEdit /\ k \in Keys
        /\ editing[x].new \in ValuesOf(k) /\ editing[x].old \in Olds
        /\ editing[x].new \in Olds /\ editing[x].new \in Values
    BY <1>5, Domains DEF ApplyOverride, TypeOK, Changes
  <2>2. /\ override' = [override EXCEPT ![k] = editing[x].new]
        /\ trail' = [trail EXCEPT ![k] = Append(trail[k], [old |-> editing[x].old, new |-> editing[x].new])]
        /\ editing' = [editing EXCEPT ![x] = NoEdit]
        /\ UNCHANGED <<rules, overlapped, edits, faults>>
    BY <1>5 DEF ApplyOverride, Upserted
  <2> HIDE DEF k
  <2>3. override' \in Overrides /\ RowsFit'
    BY <2>1, <2>2 DEF TypeOK, Overrides, RowsFit
  <2>4. trail' \in [Keys -> Seq(Entries)]
    <3>1. [old |-> editing[x].old, new |-> editing[x].new] \in Entries
      BY <2>1 DEF Entries
    <3>2. trail[k] \in Seq(Entries)
      BY <2>1 DEF TypeOK
    <3>3. Append(trail[k], [old |-> editing[x].old, new |-> editing[x].new]) \in Seq(Entries)
      BY <3>1, <3>2
    <3>4. QED BY <2>2, <3>3 DEF TypeOK
  <2>5. /\ editing' \in [Editors -> Changes]
        /\ \A y \in Editors : editing'[y] # NoEdit => editing'[y].new \in ValuesOf(editing'[y].key)
    BY <2>2 DEF TypeOK, Changes
  <2>6. QED BY <1>1, <2>2, <2>3, <2>4, <2>5 DEF TypeOK, engine, settings
<1>6. ASSUME NEW x \in Editors, OverrideFails(x) PROVE TInv'
  <2>1. /\ editing' = [editing EXCEPT ![x] = NoEdit]
        /\ faults' \in 0 .. MaxFaults
        /\ UNCHANGED <<rules, override, trail, overlapped, edits>>
    BY <1>6, Counters DEF OverrideFails
  <2>2. /\ editing' \in [Editors -> Changes]
        /\ \A y \in Editors : editing'[y] # NoEdit => editing'[y].new \in ValuesOf(editing'[y].key)
    BY <2>1 DEF TypeOK, Changes
  <2>3. QED BY <1>1, <2>1, <2>2 DEF TypeOK, RowsFit, engine, settings
<1>7. QED BY <1>2, <1>3, <1>4, <1>5, <1>6 DEF Dashboard

\* What a step of the BYOC loop does to the rules: the type, and the two invariants that
\* speak of them.
Rules ==
    /\ cloudRules \in Tables /\ \A n \in Names : cloudRules[n] # BadBody
    /\ disabled \subseteq Names
    /\ active \in [Names -> Bodies \cup {NoBody, LocalBody}]
    /\ LocalRuleKept /\ ActiveIsMerge

\* Rules that have just been rebuilt are right.
LEMMA Rebuilt ==
    ASSUME cloudRules' \in Tables, \A n \in Names : cloudRules'[n] # BadBody,
           disabled' \in SUBSET Names, active' = Merge(cloudRules', disabled')
    PROVE  Rules'
BY MergeType DEF Rules, LocalRuleKept, ActiveIsMerge

LEMMA RulesFrame ==
    ASSUME Rules, UNCHANGED <<cloudRules, disabled, active, torn>>
    PROVE  Rules'
BY DEF Rules, LocalRuleKept, ActiveIsMerge

LEMMA SyncRules ==
    ASSUME TInv, Rules, Sync
    PROVE  Rules'
<1> USE DEF TInv
<1>1. CASE ReadRules \/ RulesFail \/ ReadFlags
  BY <1>1, RulesFrame DEF ReadRules, RulesFail, ReadFlags
<1>2. CASE ApplyRules
  <2>1. /\ cloudRules' = rulesGot /\ disabled' = disabled
        /\ active' = Merge(rulesGot, disabled)
        /\ rulesGot \in Tables /\ \A n \in Names : rulesGot[n] # BadBody
    BY <1>2 DEF ApplyRules, Compiles, TypeOK
  <2>2. QED BY <2>1, Rebuilt DEF Rules
<1>3. CASE ApplyBadRules
  <2>1. /\ cloudRules' = [n \in Names |->
                IF \E m \in Names : Rank[m] <= Rank[n] /\ rulesGot[m] = BadBody
                THEN NoBody ELSE rulesGot[n]]
        /\ UNCHANGED <<active, disabled>> /\ torn' = TRUE
    BY <1>3 DEF ApplyBadRules
  <2>2. \A n \in Names : cloudRules'[n] # BadBody
    <3> SUFFICES ASSUME NEW n \in Names, rulesGot[n] = BadBody PROVE cloudRules'[n] # BadBody
      BY <2>1 DEF NoBody, BadBody
    <3>1. Rank[n] <= Rank[n]
      OBVIOUS
    <3>2. cloudRules'[n] = NoBody
      BY <2>1, <3>1
    <3>3. QED BY <3>2 DEF NoBody, BadBody
  <2>3. cloudRules' \in Tables
    BY <2>1 DEF TypeOK, Tables
  <2>4. QED BY <2>1, <2>2, <2>3 DEF Rules, LocalRuleKept, ActiveIsMerge
<1>4. CASE FlagsFail
  <2>1. UNCHANGED <<cloudRules, disabled>> /\ active' = Merge(cloudRules, disabled)
    BY <1>4 DEF FlagsFail
  <2>2. QED BY <2>1, Rebuilt DEF Rules
<1>5. CASE ApplyFlags
  <2>1. /\ cloudRules' = cloudRules /\ disabled' = flagsGot
        /\ active' = Merge(cloudRules, disabled') /\ flagsGot \subseteq Names
    BY <1>5 DEF ApplyFlags, TypeOK
  <2>2. QED BY <2>1, Rebuilt DEF Rules
<1>6. QED BY <1>1, <1>2, <1>3, <1>4, <1>5 DEF Sync

LEMMA SyncType ==
    ASSUME TInv, Rules, Sync
    PROVE  TInv'
<1> USE DEF TInv
<1>1. Rules'
  BY SyncRules
<1>2. /\ UNCHANGED <<service, settings, edits>>
      /\ faults' \in 0 .. MaxFaults
  BY Counters DEF Sync, SyncFrame, ReadRules, RulesFail, ApplyRules, ApplyBadRules, ReadFlags,
     FlagsFail, ApplyFlags, TypeOK
<1>3. syncPc' \in {"sleep", "rules", "between", "flags"} /\ torn' \in BOOLEAN
  BY DEF Sync, ReadRules, RulesFail, ApplyRules, ApplyBadRules, ReadFlags, FlagsFail, ApplyFlags,
     TypeOK
<1>4. rulesGot' \in Tables
  BY EmptyTable DEF Sync, ReadRules, RulesFail, ApplyRules, ApplyBadRules, ReadFlags, FlagsFail,
     ApplyFlags, TypeOK
<1>5. flagsGot' \subseteq Names
  BY DEF Sync, ReadRules, RulesFail, ApplyRules, ApplyBadRules, ReadFlags, FlagsFail, ApplyFlags,
     TypeOK, FlaggedIn
<1>6. QED BY <1>1, <1>2, <1>3, <1>4, <1>5 DEF TypeOK, Rules, RowsFit, service, settings

LEMMA PollType ==
    ASSUME TInv, Poll
    PROVE  TInv'
<1> USE DEF TInv
<1>1. UNCHANGED <<service, engine, edits>> /\ faults' \in 0 .. MaxFaults
  BY Counters DEF Poll, PollFrame, ReadSettings, PollFails, ApplySettings, TypeOK
<1>2. pollPc' \in {"sleep", "got"}
  BY DEF Poll, ReadSettings, PollFails, ApplySettings
<1>3. pollGot' \in Answers
  <2>1. CASE ReadSettings
    <3>1. \A s \in Settings : override[s] \in Texts \cup {Unset}
      BY Domains DEF RowsFit
    <3>2. QED BY <2>1, <3>1 DEF ReadSettings, Answers
  <2>2. CASE PollFails \/ ApplySettings
    BY <2>2 DEF PollFails, ApplySettings, NoAnswer, Answers
  <2>3. QED BY <2>1, <2>2 DEF Poll
<1>4. globals' \in Accepted /\ inForce' \in Accepted
  <2>1. CASE ReadSettings \/ PollFails
    BY <2>1 DEF ReadSettings, PollFails, TypeOK
  <2>2. CASE ApplySettings
    <3>1. \A s \in Settings : Taken(pollGot, s) => pollGot[s] \in Texts \ {"bad"}
      BY DEF Taken, TypeOK, Answers
    <3>2. ASSUME NEW held \in Accepted PROVE Updated(held) \in Accepted
      BY <3>1 DEF Updated, Accepted
    <3>3. QED BY <2>2, <3>2 DEF ApplySettings, TypeOK
  <2>3. QED BY <2>1, <2>2 DEF Poll
<1>5. QED BY <1>1, <1>2, <1>3, <1>4 DEF TypeOK, RowsFit, service, engine

LEMMA RestartType ==
    ASSUME TInv, Restart
    PROVE  TInv' /\ Rules'
<1> USE DEF TInv
<1>1. /\ cloudRules' = NoRules /\ disabled' = {} /\ active' = Merge(NoRules, {})
      /\ UNCHANGED <<service, edits>> /\ faults' \in 0 .. MaxFaults
      /\ torn' = FALSE
  BY Counters DEF Restart
<1>2. Rules'
  BY <1>1, EmptyTable, Rebuilt
<1>3. /\ rulesGot' \in Tables /\ pollGot' \in Answers
      /\ globals' \in Accepted /\ inForce' \in Accepted
      /\ flagsGot' = {} /\ syncPc' = "sleep" /\ pollPc' = "sleep"
  BY EmptyTable DEF Restart, NoAnswer, Answers, Accepted, Texts, Default
<1>4. TInv'
  BY <1>1, <1>2, <1>3 DEF TypeOK, RowsFit, Rules, service
<1>5. QED BY <1>2, <1>4

LEMMA SafeInit == Init => TInv /\ Rules
<1> SUFFICES ASSUME Init PROVE Rules
  BY TInvInit
<1>1. cloudRules = NoRules /\ disabled = {} /\ active = Merge(NoRules, {})
  BY DEF Init
<1>2. QED BY <1>1, EmptyTable, MergeType DEF Rules, LocalRuleKept, ActiveIsMerge

LEMMA SafeStep == TInv /\ Rules /\ [Next]_vars => TInv' /\ Rules'
<1> SUFFICES ASSUME TInv, Rules, [Next]_vars PROVE TInv' /\ Rules'
  OBVIOUS
<1>1. CASE Dashboard
  <2>1. UNCHANGED engine
    BY <1>1 DEF Dashboard, DeleteRule, UpsertRule, RuleFrame, ApplyOverride, OverrideFails, ReadOld
  <2>2. QED BY <1>1, <2>1, DashboardType, RulesFrame DEF engine
<1>2. CASE Sync
  BY <1>2, SyncType, SyncRules
<1>3. CASE Poll
  <2>1. UNCHANGED engine
    BY <1>3 DEF Poll, PollFrame, ReadSettings, PollFails, ApplySettings
  <2>2. QED BY <1>3, <2>1, PollType, RulesFrame DEF engine
<1>4. CASE Restart
  BY <1>4, RestartType
<1>5. CASE UNCHANGED vars
  BY <1>5, RulesFrame DEF vars, service, engine, settings, TInv, TypeOK, RowsFit
<1>6. QED BY <1>1, <1>2, <1>3, <1>4, <1>5 DEF Next

\* Tables, answers and the engine's state hold what they should, whatever fails.
THEOREM TypeCorrect == Spec => []TypeOK
<1>1. TInv /\ Rules => TypeOK
  BY DEF TInv
<1>2. QED BY SafeInit, SafeStep, <1>1, PTL DEF Spec

\* A rule of byoc_rules.yaml is out of force exactly while its flag is among those the
\* engine has read: no failed call, refused rule or restart removes it.
THEOREM LocalRulesStay == Spec => []LocalRuleKept
<1>1. TInv /\ Rules => LocalRuleKept
  BY DEF Rules
<1>2. QED BY SafeInit, SafeStep, <1>1, PTL DEF Spec

\* The enforced rules are always the merge of what the engine holds, except after a sync
\* that ended in the middle of an answer.
THEOREM ActiveRulesMerged == Spec => []ActiveIsMerge
<1>1. TInv /\ Rules => ActiveIsMerge
  BY DEF Rules
<1>2. QED BY SafeInit, SafeStep, <1>1, PTL DEF Spec

-----------------------------------------------------------------------------
(* The trail *)

ValueAt(t, i) == IF i = 0 THEN Unset ELSE t[i].new

Explains(t, v) ==
    /\ v = ValueAt(t, Len(t))
    /\ \A i \in 1 .. Len(t) : t[i].old = ValueAt(t, i - 1)

\* A request that has read the old value of a key is alone with it, and what it has read
\* is still the value.
Current(x) ==
    editing[x] # NoEdit /\ editing[x].key \notin overlapped =>
        /\ editing[x].old = override[editing[x].key]
        /\ \A y \in Editors \ {x} : editing[y].key # editing[x].key

TrailInv ==
    /\ \A k \in Keys \ overlapped : Explains(trail[k], override[k])
    /\ \A x \in Editors : Current(x)

\* An entry whose old value is the last new one, and whose new value is the new value.
LEMMA ExplainsNext ==
    ASSUME NEW t \in Seq(Entries), NEW v, NEW e \in Entries, Explains(t, v), e.old = v
    PROVE  Explains(Append(t, e), e.new)
<1> DEFINE u == Append(t, e)
<1>1. /\ Len(u) = Len(t) + 1 /\ Len(t) \in Nat
      /\ u[Len(t) + 1] = e /\ \A i \in 1 .. Len(t) : u[i] = t[i]
  OBVIOUS
<1> HIDE DEF u
<1>2. \A i \in 0 .. Len(t) : ValueAt(u, i) = ValueAt(t, i)
  BY <1>1 DEF ValueAt
<1>3. ValueAt(u, Len(u)) = e.new
  BY <1>1 DEF ValueAt
<1>4. \A i \in 1 .. Len(u) : u[i].old = ValueAt(u, i - 1)
  <2> SUFFICES ASSUME NEW i \in 1 .. Len(u) PROVE u[i].old = ValueAt(u, i - 1)
    OBVIOUS
  <2>1. i - 1 \in 0 .. Len(t) /\ ValueAt(u, i - 1) = ValueAt(t, i - 1)
    BY <1>1, <1>2
  <2>2. CASE i = Len(u)
    BY <1>1, <2>1, <2>2 DEF Explains
  <2>3. CASE i # Len(u)
    BY <1>1, <2>1, <2>3 DEF Explains
  <2>4. QED BY <2>2, <2>3
<1>5. QED BY <1>3, <1>4 DEF Explains, u

LEMMA TrailInit == Init => TrailInv
BY DEF Init, TrailInv, Explains, ValueAt, Current

LEMMA ReadOldTrail ==
    ASSUME TInv, TrailInv, NEW x \in Editors, NEW k \in Keys, NEW v \in ValuesOf(k), ReadOld(x, k, v)
    PROVE  TrailInv'
<1> USE DEF TInv
<1>1. /\ editing' = [editing EXCEPT ![x] = [key |-> k, new |-> v, old |-> override[k]]]
      /\ overlapped' = IF \E y \in Editors : editing[y].key = k
                       THEN overlapped \cup {k} ELSE overlapped
      /\ UNCHANGED <<override, trail>> /\ editing[x] = NoEdit
  BY DEF ReadOld
<1>2. /\ editing'[x].key = k /\ editing'[x].old = override[k]
      /\ \A y \in Editors \ {x} : editing'[y] = editing[y]
      /\ overlapped \subseteq overlapped'
  BY <1>1 DEF TypeOK
<1>3. ASSUME k \notin overlapped', NEW y \in Editors \ {x} PROVE editing[y].key # k
  BY <1>1, <1>3
<1>4. Current(x)'
  BY <1>1, <1>2, <1>3 DEF Current
<1>5. ASSUME NEW y \in Editors \ {x} PROVE Current(y)'
  <2>1. SUFFICES ASSUME editing[y] # NoEdit, editing[y].key \notin overlapped' PROVE Current(y)'
    BY <1>2 DEF Current
  <2>2. /\ editing[y].old = override[editing[y].key]
        /\ \A z \in Editors \ {y} : editing[z].key # editing[y].key
    BY <1>2, <2>1 DEF TrailInv, Current
  <2>3. editing[y].key # k
    BY <1>3, <2>1
  <2>4. QED BY <1>1, <1>2, <2>2, <2>3 DEF Current
<1>6. QED BY <1>1, <1>2, <1>4, <1>5 DEF TrailInv

\* A request that is over leaves the others alone.
LEMMA OverTrail ==
    ASSUME TInv, TrailInv, NEW x \in Editors, ApplyOverride(x) \/ OverrideFails(x)
    PROVE  TrailInv'
<1> USE DEF TInv
<1> DEFINE k == editing[x].key
           e == [old |-> editing[x].old, new |-> editing[x].new]
<1>1. /\ editing[x] # NoEdit /\ overlapped' = overlapped
      /\ editing' = [editing EXCEPT ![x] = NoEdit]
      /\ \/ UNCHANGED <<override, trail>>
         \/ /\ override' = [override EXCEPT ![k] = editing[x].new]
            /\ trail' = [trail EXCEPT ![k] = Append(trail[k], e)]
  BY DEF ApplyOverride, OverrideFails, Upserted
<1>2. k \in Keys /\ e \in Entries /\ e.old = editing[x].old /\ e.new = editing[x].new
  BY <1>1, Domains DEF TypeOK, Changes, Entries
<1>3. NoEdit.key \notin Keys
  BY NoEditKey DEF NoEdit
<1> HIDE DEF e, k
<1>4. \A d \in Keys \ {k} : override'[d] = override[d] /\ trail'[d] = trail[d]
  BY <1>1 DEF TypeOK, Overrides
<1>5. ASSUME k \notin overlapped PROVE Explains(trail'[k], override'[k])
  <2>1. Explains(trail[k], override[k]) /\ e.old = override[k]
    BY <1>1, <1>2, <1>5 DEF TrailInv, Current, k
  <2>2. trail[k] \in Seq(Entries)
    BY <1>2 DEF TypeOK
  <2>3. Explains(Append(trail[k], e), e.new)
    BY <1>2, <2>1, <2>2, ExplainsNext
  <2>4. \/ trail'[k] = trail[k] /\ override'[k] = override[k]
        \/ trail'[k] = Append(trail[k], e) /\ override'[k] = e.new
    BY <1>1, <1>2 DEF TypeOK, Overrides
  <2>5. QED BY <2>1, <2>3, <2>4
<1>6. ASSUME NEW y \in Editors PROVE Current(y)'
  <2>1. SUFFICES ASSUME editing'[y] # NoEdit, editing'[y].key \notin overlapped PROVE Current(y)'
    BY <1>1 DEF Current
  <2>2. y # x /\ editing'[y] = editing[y] /\ editing'[x] = NoEdit
    BY <1>1, <2>1 DEF TypeOK
  <2>3. /\ editing[y].old = override[editing[y].key] /\ editing[y].key \in Keys
        /\ \A z \in Editors \ {y} : editing[z].key # editing[y].key
    BY <2>1, <2>2 DEF TrailInv, Current, TypeOK, Changes
  <2>4. editing[y].key # k
    BY <2>2, <2>3 DEF k
  <2>5. \A z \in Editors \ {y} : editing'[z].key # editing[y].key
    BY <1>1, <1>3, <2>3 DEF TypeOK
  <2>6. override'[editing[y].key] = override[editing[y].key]
    BY <1>4, <2>3, <2>4
  <2>7. QED BY <2>2, <2>3, <2>5, <2>6 DEF Current
<1>7. QED BY <1>1, <1>4, <1>5, <1>6 DEF TrailInv

LEMMA TrailStep == TInv /\ TrailInv /\ [Next]_vars => TrailInv'
<1> SUFFICES ASSUME TInv, TrailInv, [Next]_vars PROVE TrailInv'
  OBVIOUS
<1>1. CASE UNCHANGED <<override, trail, editing, overlapped>>
  BY <1>1 DEF TrailInv, Current
<1>2. CASE Dashboard
  <2>1. ASSUME NEW n \in Names, DeleteRule(n) \/ \E b \in Bodies \cup {BadBody} : UpsertRule(n, b)
        PROVE  TrailInv'
    BY <1>1, <2>1 DEF DeleteRule, UpsertRule, RuleFrame
  <2>2. QED BY <1>2, <2>1, ReadOldTrail, OverTrail DEF Dashboard
<1>3. CASE Sync \/ Poll \/ Restart
  <2>1. UNCHANGED service
    BY <1>3 DEF Sync, SyncFrame, ReadRules, RulesFail, ApplyRules, ApplyBadRules, ReadFlags,
       FlagsFail, ApplyFlags, Poll, PollFrame, ReadSettings, PollFails, ApplySettings, Restart
  <2>2. QED BY <1>1, <2>1 DEF service
<1>4. QED BY <1>1, <1>2, <1>3 DEF Next, vars, service

\* v is a value that the key of trail t has had.
Occurs(t, v) == \E j \in 0 .. Len(t) : v = ValueAt(t, j)

Traced(t) == \A i \in 1 .. Len(t) : \E j \in 0 .. i - 1 : t[i].old = ValueAt(t, j)

\* What holds of requests that overlap, too.
KnownInv ==
    /\ \A k \in Keys : override[k] = ValueAt(trail[k], Len(trail[k])) /\ Traced(trail[k])
    /\ \A x \in Editors : editing[x] # NoEdit => Occurs(trail[editing[x].key], editing[x].old)

LEMMA TracedNext ==
    ASSUME NEW t \in Seq(Entries), NEW e \in Entries
    PROVE  /\ Traced(t) /\ Occurs(t, e.old) => Traced(Append(t, e))
           /\ ValueAt(Append(t, e), Len(Append(t, e))) = e.new
           /\ \A v : Occurs(t, v) => Occurs(Append(t, e), v)
<1> DEFINE u == Append(t, e)
<1>1. /\ Len(u) = Len(t) + 1 /\ Len(t) \in Nat
      /\ u[Len(t) + 1] = e /\ \A i \in 1 .. Len(t) : u[i] = t[i]
  OBVIOUS
<1> HIDE DEF u
<1>2. \A i \in 0 .. Len(t) : ValueAt(u, i) = ValueAt(t, i)
  BY <1>1 DEF ValueAt
<1>3. ValueAt(u, Len(u)) = e.new
  BY <1>1 DEF ValueAt
<1>4. ASSUME NEW v, Occurs(t, v) PROVE Occurs(u, v)
  BY <1>1, <1>2, <1>4 DEF Occurs
<1>5. ASSUME Traced(t), Occurs(t, e.old), NEW i \in 1 .. Len(u)
      PROVE  \E j \in 0 .. i - 1 : u[i].old = ValueAt(u, j)
  <2>1. CASE i \in 1 .. Len(t)
    <3>1. PICK j \in 0 .. i - 1 : t[i].old = ValueAt(t, j)
      BY <1>5, <2>1 DEF Traced
    <3>2. j \in 0 .. Len(t) /\ u[i] = t[i]
      BY <1>1, <2>1
    <3>3. QED BY <1>2, <3>1, <3>2
  <2>2. CASE i = Len(u)
    <3>1. PICK j \in 0 .. Len(t) : e.old = ValueAt(t, j)
      BY <1>5 DEF Occurs
    <3>2. j \in 0 .. i - 1 /\ u[i] = e
      BY <1>1, <2>2
    <3>3. QED BY <1>2, <3>1, <3>2
  <2>3. i \in 1 .. Len(t) \/ i = Len(u)
    BY <1>1
  <2>4. QED BY <2>1, <2>2, <2>3
<1>6. QED BY <1>3, <1>4, <1>5 DEF Traced, u

LEMMA KnownInit == Init => KnownInv
BY DEF Init, KnownInv, Traced, ValueAt

LEMMA ReadOldKnown ==
    ASSUME TInv, KnownInv, NEW x \in Editors, NEW k \in Keys, NEW v \in ValuesOf(k), ReadOld(x, k, v)
    PROVE  KnownInv'
<1> USE DEF TInv
<1>1. /\ editing' = [editing EXCEPT ![x] = [key |-> k, new |-> v, old |-> override[k]]]
      /\ UNCHANGED <<override, trail>>
  BY DEF ReadOld
<1>2. /\ editing'[x].key = k /\ editing'[x].old = override[k]
      /\ \A y \in Editors \ {x} : editing'[y] = editing[y]
  BY <1>1 DEF TypeOK
<1>3. Occurs(trail[k], override[k])
  <2>1. trail[k] \in Seq(Entries)
    BY DEF TypeOK
  <2>2. Len(trail[k]) \in 0 .. Len(trail[k])
    BY <2>1
  <2>3. QED BY <2>2 DEF KnownInv, Occurs
<1>4. QED BY <1>1, <1>2, <1>3 DEF KnownInv

LEMMA OverKnown ==
    ASSUME TInv, KnownInv, NEW x \in Editors, ApplyOverride(x) \/ OverrideFails(x)
    PROVE  KnownInv'
<1> USE DEF TInv
<1> DEFINE k == editing[x].key
           e == [old |-> editing[x].old, new |-> editing[x].new]
<1>1. /\ editing[x] # NoEdit /\ editing' = [editing EXCEPT ![x] = NoEdit]
      /\ \/ UNCHANGED <<override, trail>>
         \/ /\ override' = [override EXCEPT ![k] = editing[x].new]
            /\ trail' = [trail EXCEPT ![k] = Append(trail[k], e)]
  BY DEF ApplyOverride, OverrideFails, Upserted
<1>2. k \in Keys /\ e \in Entries /\ e.old = editing[x].old /\ e.new = editing[x].new
  BY <1>1, Domains DEF TypeOK, Changes, Entries
<1>3. Traced(trail[k]) /\ Occurs(trail[k], e.old) /\ trail[k] \in Seq(Entries)
  BY <1>1, <1>2 DEF KnownInv, TypeOK
<1> HIDE DEF e, k
<1>4. \A d \in Keys \ {k} : override'[d] = override[d] /\ trail'[d] = trail[d]
  BY <1>1 DEF TypeOK, Overrides
<1>5. \/ trail'[k] = trail[k] /\ override'[k] = override[k]
      \/ trail'[k] = Append(trail[k], e) /\ override'[k] = e.new
  BY <1>1, <1>2 DEF TypeOK, Overrides
<1> DEFINE u == Append(trail[k], e)
<1>6. Traced(u) /\ ValueAt(u, Len(u)) = e.new /\ \A v : Occurs(trail[k], v) => Occurs(u, v)
  BY <1>2, <1>3, TracedNext
<1>7. \/ trail'[k] = trail[k] /\ override'[k] = override[k]
      \/ trail'[k] = u /\ override'[k] = e.new
  BY <1>5
<1> HIDE DEF u
<1>8. override'[k] = ValueAt(trail'[k], Len(trail'[k])) /\ Traced(trail'[k])
  <2>1. override[k] = ValueAt(trail[k], Len(trail[k])) /\ Traced(trail[k])
    BY <1>2 DEF KnownInv
  <2>2. QED BY <1>6, <1>7, <2>1
<1>9. \A d \in Keys : override'[d] = ValueAt(trail'[d], Len(trail'[d])) /\ Traced(trail'[d])
  BY <1>4, <1>8 DEF KnownInv
<1>10. ASSUME NEW d \in Keys, NEW v, Occurs(trail[d], v) PROVE Occurs(trail'[d], v)
  BY <1>4, <1>10, <1>6, <1>7
<1>11. ASSUME NEW y \in Editors, editing'[y] # NoEdit
      PROVE  Occurs(trail'[editing'[y].key], editing'[y].old)
  <2>1. y # x /\ editing'[y] = editing[y]
    BY <1>1, <1>11 DEF TypeOK
  <2>2. editing[y].key \in Keys /\ Occurs(trail[editing[y].key], editing[y].old)
    BY <1>11, <2>1 DEF KnownInv, TypeOK, Changes
  <2>3. QED BY <1>10, <2>1, <2>2
<1>12. QED BY <1>9, <1>11 DEF KnownInv

LEMMA KnownStep == TInv /\ KnownInv /\ [Next]_vars => KnownInv'
<1> SUFFICES ASSUME TInv, KnownInv, [Next]_vars PROVE KnownInv'
  OBVIOUS
<1>1. CASE UNCHANGED <<override, trail, editing>>
  BY <1>1 DEF KnownInv
<1>2. CASE Dashboard
  <2>1. ASSUME NEW n \in Names, DeleteRule(n) \/ \E b \in Bodies \cup {BadBody} : UpsertRule(n, b)
        PROVE  KnownInv'
    BY <1>1, <2>1 DEF DeleteRule, UpsertRule, RuleFrame
  <2>2. QED BY <1>2, <2>1, ReadOldKnown, OverKnown DEF Dashboard
<1>3. CASE Sync \/ Poll \/ Restart
  <2>1. UNCHANGED service
    BY <1>3 DEF Sync, SyncFrame, ReadRules, RulesFail, ApplyRules, ApplyBadRules, ReadFlags,
       FlagsFail, ApplyFlags, Poll, PollFrame, ReadSettings, PollFails, ApplySettings, Restart
  <2>2. QED BY <1>1, <2>1 DEF service
<1>4. QED BY <1>1, <1>2, <1>3 DEF Next, vars, service

\* However many requests run at once and fail, the trail of a key ends in its present
\* value and makes up no old value; where no two requests changed the key at once, each
\* old value is the one just replaced.
THEOREM TrailIsComplete == Spec => []TrailExplainsOverrides
<1>1. TrailInv /\ KnownInv => TrailExplainsOverrides
  BY DEF TrailInv, KnownInv, TrailExplainsOverrides, Explains, Traced, ValueAt
<1>2. TInv /\ Rules /\ TrailInv /\ KnownInv /\ [Next]_vars
        => TInv' /\ Rules' /\ TrailInv' /\ KnownInv'
  BY SafeStep, TrailStep, KnownStep
<1>3. Init => TInv /\ Rules /\ TrailInv /\ KnownInv
  BY SafeInit, TrailInit, KnownInit
<1>4. QED BY <1>1, <1>2, <1>3, PTL DEF Spec
=============================================================================
