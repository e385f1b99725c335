------------------------------ MODULE CloudSync ------------------------------
(***************************************************************************)
(* What the dashboard changes and the gateway follows: BYOC rules, the      *)
(* flags that disable them, and settings.  Flags and settings are rows of   *)
(* one table of overrides, edited through                                   *)
(* POST /dashboard/settings/override, which also keeps a trail of changes.  *)
(*                                                                          *)
(* In the gateway two loops poll the central service: _byoc_sync_loop reads *)
(* the rules, then the overrides (gateway/core/byoc.py), and                *)
(* _settings_poll_loop reads the overrides (gateway/main.py).  Between a    *)
(* read and the code that applies it anything may be edited.                *)
(***************************************************************************)
EXTENDS Integers, Sequences

CONSTANTS
    Names,        \* rule names
    Rank,         \* Rank[n]: the place of n in ORDER BY name
    LocalNames,   \* the names of byoc_rules.yaml
    Bodies,       \* what a rule's other columns can be, with a regex that compiles
    Editors,      \* slots for requests to the override endpoint that run at once
    Serves,       \* possible values of `served`
    Starts,       \* what the components may be constructed with
    MaxEdits, MaxFaults   \* bounds

(***************************************************************************)
(* Overrides are text.  "scanner" stands for the three scanner settings,    *)
(* which are validated and applied first; hitl_timeout must be a number;    *)
(* hitl_notification_mode is taken whatever it is; guardian_fail_strategy   *)
(* is validated.  Default is the value of the gateway's environment; "bad"  *)
(* is a text the gateway refuses, or for the timeout one that int() raises  *)
(* on.                                                                      *)
(*                                                                          *)
(* A setting is kept twice: in a module global of main.py, which is what    *)
(* the poll compares with, and in the component that goes by it.  They need *)
(* not agree at the start: the scanner's block mode is taken from           *)
(* secrets_block_mode of settings.yaml, its global from SCAN_ACTION_MODE.   *)
(* (The Guardian's strategy may be resolved from llm_safety_mode, but only  *)
(* where its global is a text that no override may have: Default and what   *)
(* it resolves to are one value then.)                                      *)
(***************************************************************************)
Settings == {"scanner", "timeout", "notify", "strategy"}
Default == "default"
Texts == {Default, "other", "bad"}
AfterTimeout == {"notify", "strategy"}

NoBody == "none"
BadBody == "bad"       \* a rule whose pattern does not compile
LocalBody == "local"
Unset == "unset"

Keys == Settings \cup Names
ValuesOf(k) ==
    IF k \in Names THEN {"on", "off"} ELSE IF k = "notify" THEN Texts \ {"bad"} ELSE Texts
Values == Texts \cup {"on", "off"}

ASSUME NamesAssumption ==
    /\ LocalNames \subseteq Names /\ Rank \in [Names -> Nat]
    /\ Names \cap (Settings \cup {Unset}) = {}
    /\ Bodies \cap {NoBody, BadBody, LocalBody} = {}
    /\ Editors \subseteq Nat /\ Serves \subseteq BOOLEAN
    /\ Starts \subseteq {st \in [Settings -> Texts \ {"bad"}] :
                        \A s \in Settings \ {"scanner"} : st[s] = Default}
    /\ MaxEdits \in Nat /\ MaxFaults \in Nat

VARIABLES
    served,      \* whether GET /dashboard/byoc/rules answers with the rules
    rules,       \* rules[n]: the active row of byoc_rules
    override,    \* override[k]: the row of settings_override
    trail,       \* trail[k]: the rows of settings_audit_log, in order
    editing,     \* editing[x]: the change a request is about to write
    cloudRules,  \* the engine's cloud_rules
    disabled,    \* the engine's disabled_rules
    active,      \* the engine's _active_rules
    globals,     \* globals[s]: the module global, which the poll hashes
    inForce,     \* inForce[s]: what the scanner, the HITL gate or the Guardian goes by
    syncPc, rulesGot, flagsGot,   \* the BYOC loop, and the answers it has
    pollPc, pollGot,   \* the settings loop, and the answer it has
    edits, faults,
    torn,        \* history: cloudRules is a part of an answer
    overlapped   \* history: keys that two requests changed at once

service == <<served, rules, override, trail, editing, overlapped>>
engine == <<cloudRules, disabled, active, torn, syncPc, rulesGot, flagsGot>>
settings == <<globals, inForce, pollPc, pollGot>>
vars == <<service, engine, settings, edits, faults>>

Tables == [Names -> Bodies \cup {NoBody, BadBody}]
Olds == Values \cup {Unset}
Overrides == [Keys -> Olds]
NoRules == [n \in Names |-> NoBody]
Answers == [Settings -> Texts \cup {Unset}]
Accepted == [Settings -> Texts \ {"bad"}]
NoAnswer == [s \in Settings |-> Unset]
NoEdit == [key |-> Unset, new |-> Unset, old |-> Unset]
Changes == [key : Keys, new : Values, old : Olds] \cup {NoEdit}

Entries == [old : Olds, new : Values]

\* Mutant: the flags remove local rules only.
Merge_CloudWins(c, d) ==
    [n \in Names |->
        IF c[n] # NoBody THEN c[n]
        ELSE IF n \in LocalNames \ d THEN LocalBody ELSE NoBody]

\* A cloud rule replaces the local one of its name, and a flag removes either.
Merge(c, d) ==
    [n \in Names |->
        IF n \in d THEN NoBody
        ELSE IF c[n] # NoBody THEN c[n]
        ELSE IF n \in LocalNames THEN LocalBody ELSE NoBody]

FlaggedIn(o) == {n \in Names : o[n] = "on"}

TypeOK ==
    /\ served \in BOOLEAN
    /\ rules \in Tables /\ override \in Overrides
    /\ trail \in [Keys -> Seq(Entries)]
    /\ editing \in [Editors -> Changes]
    /\ \A x \in Editors : editing[x] # NoEdit => editing[x].new \in ValuesOf(editing[x].key)
    /\ cloudRules \in Tables /\ \A n \in Names : cloudRules[n] # BadBody
    /\ disabled \subseteq Names
    /\ active \in [Names -> Bodies \cup {NoBody, LocalBody}]
    /\ globals \in Accepted /\ inForce \in Accepted
    /\ syncPc \in {"sleep", "rules", "between", "flags"}
    /\ rulesGot \in Tables /\ flagsGot \subseteq Names
    /\ pollPc \in {"sleep", "got"} /\ pollGot \in Answers
    /\ edits \in 0 .. MaxEdits /\ faults \in 0 .. MaxFaults
    /\ torn \in BOOLEAN /\ overlapped \subseteq Keys

Init ==
    /\ served \in Serves
    /\ rules = NoRules /\ override = [k \in Keys |-> Unset]
    /\ trail = [k \in Keys |-> <<>>]
    /\ editing = [x \in Editors |-> NoEdit]
    /\ overlapped = {}
    /\ edits = 0 /\ faults = 0
    /\ cloudRules = NoRules /\ disabled = {} /\ active = Merge(NoRules, {})
    /\ globals = [s \in Settings |-> Default] /\ inForce \in Starts
    /\ syncPc = "sleep" /\ rulesGot = NoRules /\ flagsGot = {}
    /\ pollPc = "sleep" /\ pollGot = NoAnswer
    /\ torn = FALSE

Edit == edits < MaxEdits /\ edits' = edits + 1
Fault == faults < MaxFaults /\ faults' = faults + 1

----------------------------------------------------------------------------
(* The dashboard.                                                           *)

RuleFrame == UNCHANGED <<served, override, trail, editing, overlapped, engine, settings, faults>>

\* The pattern is not compiled by the service: a bad one is stored.
UpsertRule(n, b) ==
    /\ Edit
    /\ rules' = [rules EXCEPT ![n] = b]
    /\ RuleFrame

DeleteRule(n) ==
    /\ rules[n] # NoBody
    /\ Edit
    /\ rules' = [rules EXCEPT ![n] = NoBody]
    /\ RuleFrame

\* The old value is read before, and outside of, the transaction.  Requests are
\* interchangeable: the first free slot takes the next one.
ReadOld(x, k, v) ==
    /\ editing[x] = NoEdit
    /\ \A y \in Editors : y < x => editing[y] # NoEdit
    /\ Edit
    /\ editing' = [editing EXCEPT ![x] = [key |-> k, new |-> v, old |-> override[k]]]
    /\ overlapped' = IF \E y \in Editors : editing[y].key = k
                     THEN overlapped \cup {k} ELSE overlapped
    /\ UNCHANGED <<served, rules, override, trail, engine, settings, faults>>

\* Mutant: an existing row is left as it is.
Upserted_Kept(x) ==
    [override EXCEPT ![editing[x].key] = IF @ = Unset THEN editing[x].new ELSE @]

Upserted(x) == [override EXCEPT ![editing[x].key] = editing[x].new]

\* One transaction: the row and its entry of the trail.
ApplyOverride(x) ==
    /\ editing[x] # NoEdit
    /\ override' = Upserted(x)
    /\ trail' = [trail EXCEPT ![editing[x].key] =
                    Append(@, [old |-> editing[x].old, new |-> editing[x].new])]
    /\ editing' = [editing EXCEPT ![x] = NoEdit]
    /\ UNCHANGED <<served, rules, overlapped, engine, settings, edits, faults>>

OverrideFails(x) ==
    /\ editing[x] # NoEdit
    /\ Fault
    /\ editing' = [editing EXCEPT ![x] = NoEdit]
    /\ UNCHANGED <<served, rules, override, trail, overlapped, engine, settings, edits>>

----------------------------------------------------------------------------
(***************************************************************************)
(* The BYOC loop (sync_all_cloud_state).  A call that fails is logged, and  *)
(* the code goes on with what it has.                                       *)
(***************************************************************************)
SyncFrame == UNCHANGED <<service, settings, edits>>

ReadRules ==
    /\ syncPc = "sleep"
    /\ served
    /\ syncPc' = "rules" /\ rulesGot' = rules
    /\ SyncFrame
    /\ UNCHANGED <<cloudRules, disabled, active, torn, flagsGot, faults>>

RulesFail ==
    /\ syncPc \in {"sleep", "rules"}
    /\ \/ syncPc = "sleep" /\ ~served /\ UNCHANGED faults
       \/ Fault
    /\ syncPc' = "between"
    /\ rulesGot' = NoRules
    /\ SyncFrame
    /\ UNCHANGED <<cloudRules, disabled, active, torn, flagsGot>>

Compiles(c) == \A n \in Names : c[n] # BadBody

\* Mutant: the active rules are left for the end of the sync.
ApplyRules_NoRebuild ==
    /\ syncPc = "rules"
    /\ Compiles(rulesGot)
    /\ cloudRules' = rulesGot
    /\ torn' = FALSE
    /\ syncPc' = "between"
    /\ rulesGot' = NoRules
    /\ SyncFrame
    /\ UNCHANGED <<active, disabled, flagsGot, faults>>

ApplyRules ==
    /\ syncPc = "rules"
    /\ Compiles(rulesGot)
    /\ cloudRules' = rulesGot
    /\ active' = Merge(rulesGot, disabled)
    /\ torn' = FALSE
    /\ syncPc' = "between"
    /\ rulesGot' = NoRules
    /\ SyncFrame
    /\ UNCHANGED <<disabled, flagsGot, faults>>

\* A pattern that does not compile ends the sync in the middle of the list: the rules
\* before it are the new cloud_rules, nothing is rebuilt, the overrides are not read.
ApplyBadRules ==
    /\ syncPc = "rules"
    /\ ~Compiles(rulesGot)
    /\ cloudRules' = [n \in Names |->
            IF \E m \in Names : Rank[m] <= Rank[n] /\ rulesGot[m] = BadBody
            THEN NoBody ELSE rulesGot[n]]
    /\ torn' = TRUE
    /\ syncPc' = "sleep"
    /\ rulesGot' = NoRules
    /\ SyncFrame
    /\ UNCHANGED <<active, disabled, flagsGot, faults>>

ReadFlags ==
    /\ syncPc = "between"
    /\ syncPc' = "flags" /\ flagsGot' = FlaggedIn(override)
    /\ SyncFrame
    /\ UNCHANGED <<cloudRules, disabled, active, torn, rulesGot, faults>>

\* Whatever became of the two calls, the active rules are rebuilt at the end.
FlagsFail ==
    /\ syncPc \in {"between", "flags"}
    /\ Fault
    /\ active' = Merge(cloudRules, disabled)
    /\ syncPc' = "sleep"
    /\ flagsGot' = {}
    /\ SyncFrame
    /\ UNCHANGED <<cloudRules, disabled, torn, rulesGot>>

\* Mutant: flags are only ever added.
ApplyFlags_Adds ==
    /\ syncPc = "flags"
    /\ disabled' = disabled \cup flagsGot
    /\ active' = Merge(cloudRules, disabled')
    /\ syncPc' = "sleep"
    /\ flagsGot' = {}
    /\ SyncFrame
    /\ UNCHANGED <<cloudRules, torn, rulesGot, faults>>

ApplyFlags ==
    /\ syncPc = "flags"
    /\ disabled' = flagsGot
    /\ active' = Merge(cloudRules, disabled')
    /\ syncPc' = "sleep"
    /\ flagsGot' = {}
    /\ SyncFrame
    /\ UNCHANGED <<cloudRules, torn, rulesGot, faults>>

----------------------------------------------------------------------------
(* The settings loop.                                                       *)

PollFrame == UNCHANGED <<service, engine, edits>>

ReadSettings ==
    /\ pollPc = "sleep"
    /\ pollPc' = "got" /\ pollGot' = [s \in Settings |-> override[s]]
    /\ PollFrame
    /\ UNCHANGED <<globals, inForce, faults>>

PollFails ==
    /\ pollPc = "got"
    /\ Fault
    /\ pollPc' = "sleep" /\ pollGot' = NoAnswer
    /\ PollFrame
    /\ UNCHANGED <<globals, inForce>>

\* Mutant: the hash leaves out the last setting.
Differs_NotStrategy(o) ==
    \/ o["timeout"] # Unset
    \/ \E s \in Settings \ {"strategy"} : o[s] # Unset /\ o[s] # globals[s]

\* The hash of the remote settings differs from that of the globals.  A timeout is
\* text there and a number here, so that an override of it always differs.
Differs(o) ==
    \/ o["timeout"] # Unset
    \/ \E s \in Settings : o[s] # Unset /\ o[s] # globals[s]

\* Mutant: a refused value is taken over.
Taken_Unvalidated(o, s) ==
    /\ o[s] # Unset
    /\ s \in AfterTimeout => o["timeout"] # "bad"

\* _apply_remote_settings takes one setting after the other; a timeout that is no number
\* raises, and those after it are left.
Taken(o, s) ==
    /\ o[s] \notin {Unset, "bad"}
    /\ s \in AfterTimeout => o["timeout"] # "bad"

\* An answer with another hash is applied as a whole, to the globals and the components.
Updated(held) ==
    [s \in Settings |-> IF Differs(pollGot) /\ Taken(pollGot, s) THEN pollGot[s] ELSE held[s]]

ApplySettings ==
    /\ pollPc = "got"
    /\ globals' = Updated(globals)
    /\ inForce' = Updated(inForce)
    /\ pollPc' = "sleep" /\ pollGot' = NoAnswer
    /\ PollFrame
    /\ UNCHANGED faults

\* The gateway starts anew, with the rules and settings of its files.
Restart ==
    /\ Fault
    /\ cloudRules' = NoRules /\ disabled' = {} /\ active' = Merge(NoRules, {})
    /\ globals' = [s \in Settings |-> Default] /\ inForce' \in Starts
    /\ syncPc' = "sleep" /\ rulesGot' = NoRules /\ flagsGot' = {}
    /\ pollPc' = "sleep" /\ pollGot' = NoAnswer
    /\ torn' = FALSE
    /\ UNCHANGED <<service, edits>>

----------------------------------------------------------------------------
Dashboard ==
    \/ \E n \in Names : DeleteRule(n) \/ \E b \in Bodies \cup {BadBody} : UpsertRule(n, b)
    \/ \E x \in Editors :
        \/ ApplyOverride(x) \/ OverrideFails(x)
        \/ \E k \in Keys : \E v \in ValuesOf(k) : ReadOld(x, k, v)

Sync == ReadRules \/ RulesFail \/ ApplyRules \/ ApplyBadRules
        \/ ReadFlags \/ FlagsFail \/ ApplyFlags

Poll == ReadSettings \/ PollFails \/ ApplySettings

Next == Dashboard \/ Sync \/ Poll \/ Restart

Spec == Init /\ [][Next]_vars

\* Both loops go on: every call ends within its timeout, every sleep too.
Fairness == WF_vars(Sync) /\ WF_vars(Poll)

FairSpec == Spec /\ Fairness

----------------------------------------------------------------------------
(* Properties *)

\* No order of edits, failed calls, refused rules and restarts takes a local rule out of
\* force, unless its flag was on when it was last read (byoc.py: "always present").
LocalRuleKept == \A n \in LocalNames : active[n] = NoBody <=> n \in disabled

\* Between any two steps the enforced rules are the merge of what the engine holds: a
\* sync that fails halfway leaves no mixture, unless it failed on a bad rule.
ActiveIsMerge == torn \/ active = Merge(cloudRules, disabled)

\* After the last edit the engine comes to enforce what the dashboard says, unless a
\* rule that does not compile stays in the table: it keeps the flags from arriving, too.
RulesConverge ==
    []<>(\/ served /\ ~Compiles(rules)
         \/ /\ disabled = FlaggedIn(override)
            /\ active = Merge(IF served THEN rules ELSE NoRules, FlaggedIn(override)))

\* After the last edit each setting that the gateway accepts is in force (one behind a
\* timeout that is no number is not), unless nothing in the overrides differs from the
\* globals, where the gateway takes the change for one it has made.
SettingsConverge ==
    \A s \in Settings :
        []<>(Taken(override, s) =>
                inForce[s] = override[s] \/ (~Differs(override) /\ globals[s] = override[s]))

\* The trail explains the overrides, also those that two requests changed at once: the
\* last entry of a key is its value, and each entry's old value is the new value of an
\* earlier one, of the one before it unless requests overlapped.
TrailExplainsOverrides ==
    \A k \in Keys :
        LET t == trail[k]
            Before(i) == IF i = 0 THEN Unset ELSE t[i].new
        IN /\ override[k] = Before(Len(t))
           /\ \A i \in 1 .. Len(t) :
                /\ \E j \in 0 .. i - 1 : t[i].old = Before(j)
                /\ k \notin overlapped => t[i].old = Before(i - 1)
=============================================================================
