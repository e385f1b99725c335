--------------------------- MODULE PipelineProofs ---------------------------
(***************************************************************************)
(* What is true of the request path for any number of requests, any inputs  *)
(* and any settings pushed at any moment.                                   *)
(***************************************************************************)
EXTENDS Pipeline, TLAPS

-----------------------------------------------------------------------------
(* The helpers the actions are built from *)

\* What a step on r leaves to every other request.
Others(r) == Requests \ {r}

LEMMA GotoEffect ==
    ASSUME NEW r \in Requests, NEW l \in Labels, pc \in [Requests -> Labels], Goto(r, l)
    PROVE  /\ pc' \in [Requests -> Labels]
           /\ pc'[r] = l
           /\ \A q \in Others(r) : pc'[q] = pc[q]
BY DEF Goto, Others

LEMMA ReplyEffect ==
    ASSUME NEW r \in Requests, NEW w \in Replies, reply \in [Requests -> Replies],
           Reply(r, w)
    PROVE  reply' \in [Requests -> Replies]
BY DEF Reply

LEMMA LogEffect ==
    ASSUME NEW r \in Requests, NEW es \in SUBSET Events,
           audit \in [Requests -> SUBSET Events], LogEvents(r, es)
    PROVE  audit' \in [Requests -> SUBSET Events]
BY DEF LogEvents

LEMMA DecideEffect ==
    ASSUME NEW r \in Requests, NEW c \in Checks, NEW v \in Decisions,
           verdict \in [Requests -> [Checks -> Decisions]], Decide(r, c, v)
    PROVE  /\ verdict' \in [Requests -> [Checks -> Decisions]]
           /\ verdict'[r][c] = v
           /\ \A d \in Checks \ {c} : verdict'[r][d] = verdict[r][d]
           /\ \A q \in Others(r) : verdict'[q] = verdict[q]
BY DEF Decide, Others

\* A failure lets a request pass only under a strategy other than "block".
Sound == {"yes", "allow", "warn", "fallback"}

LEMMA CheckSafetyEffect ==
    ASSUME NEW a \in GuardianAnswers, NEW s, settings \in Settings
    PROVE  /\ CheckSafety(a, s) \in {"allow", "warn", "block"}
           /\ Basis(a) \in {"none", "yes", "no"} \cup Strategies
           /\ CheckSafety(a, s) # "block" => Basis(a) \in Sound
<1>1. settings.failStrategy \in Strategies
  BY DEF Settings
<1>2. CASE a = "failed"
  BY <1>1, <1>2 DEF CheckSafety, OnFailure, Basis, Sound, Strategies
<1>3. CASE a # "failed"
  BY <1>3 DEF CheckSafety, Basis, Sound, GuardianAnswers
<1>4. QED BY <1>2, <1>3

LEMMA ScanEffect ==
    ASSUME NEW r \in Requests
    PROVE  Scan(r) \in {"allow", "warn", "block"}
BY DEF Scan

LEMMA BlockEffect ==
    ASSUME NEW r \in Requests, NEW c \in Components, TypeOK, Block(r, c)
    PROVE  /\ pc' \in [Requests -> Labels]
           /\ pc'[r] = "done"
           /\ \A q \in Others(r) : pc'[q] = pc[q]
           /\ reply' \in [Requests -> Replies]
           /\ audit' \in [Requests -> SUBSET Events]
<1>1. Goto(r, "done") /\ Reply(r, "blocked") /\ LogEvents(r, {<<"block", c>>})
  BY DEF Block
<1>2. {<<"block", c>>} \in SUBSET Events
  BY DEF Events
<1>3. "done" \in Labels /\ "blocked" \in Replies
  BY DEF Labels, Replies
<1>4. QED BY <1>1, <1>2, <1>3, GotoEffect, ReplyEffect, LogEffect DEF TypeOK

LEMMA PassEffect ==
    ASSUME NEW r \in Requests, NEW l \in Labels, TypeOK, Pass(r, l)
    PROVE  /\ pc' \in [Requests -> Labels]
           /\ pc'[r] = l
           /\ \A q \in Others(r) : pc'[q] = pc[q]
           /\ reply' = reply /\ audit' = audit
BY GotoEffect DEF Pass, TypeOK

-----------------------------------------------------------------------------
(* The inductive invariant *)

NoBlock(r) == \A c \in Checks : verdict[r][c] # "block"

Scanned(r) == verdict[r]["scanner"] \in {"allow", "warn"}

\* What CheckedBeforeForwarding asks of a request.
Cleared(r) ==
    /\ NoBlock(r)
    /\ HasPrompt(r) => Scanned(r) /\ basis[r] \in Sound

Before == {"new", "guardian", "scan", "both", "tools", "policy"}
Beyond == {"tools", "policy", "send", "thinking", "streaming", "paused", "resuming"}

\* What is known of a request at the place its handler has reached.
ChecksInv(r) ==
    /\ pc[r] \in Before => received[r] = {}
    /\ pc[r] = "new" => \A c \in Checks : verdict[r][c] = "none"
    /\ pc[r] \in {"guardian", "scan", "both"} =>
           verdict[r]["tools"] = "none" /\ verdict[r]["byoc"] = "none"
    /\ pc[r] \in {"guardian", "scan"} => NoBlock(r)
    /\ pc[r] = "guardian" /\ sequence[r] # "A" => Scanned(r)
    /\ pc[r] = "scan" /\ sequence[r] = "A" => basis[r] \in Sound
    /\ pc[r] = "both" /\ verdict[r]["guardian"] \in {"allow", "warn"} => basis[r] \in Sound
    /\ pc[r] \in Beyond \/ received[r] # {} => Cleared(r)

\* What is known of a request with respect to the gate.
GateInv(r) ==
    /\ r \in held => pc[r] \in {"paused", "resuming", "streaming"}
    /\ pc[r] \in {"paused", "resuming"} => r \in held
    /\ pc[r] = "resuming" => r \in released
    /\ r \in held => \A b \in received[r] : b.resumed /\ r \in released

PInv == \A r \in Requests : ChecksInv(r) /\ GateInv(r)

Untouched(q) ==
    /\ pc'[q] = pc[q] /\ verdict'[q] = verdict[q] /\ input'[q] = input[q]
    /\ sequence'[q] = sequence[q] /\ basis'[q] = basis[q]
    /\ received'[q] = received[q]
    /\ q \in held' <=> q \in held
    /\ q \in released => q \in released'

LEMMA Elsewhere ==
    ASSUME NEW q \in Requests, ChecksInv(q), GateInv(q), Untouched(q)
    PROVE  ChecksInv(q)' /\ GateInv(q)'
<1>1. ChecksInv(q)'
  BY DEF ChecksInv, Untouched, NoBlock, Scanned, Cleared, HasPrompt
<1>2. GateInv(q)'
  BY DEF GateInv, Untouched
<1>3. QED BY <1>1, <1>2

\* An action on r keeps PInv if it keeps what is known of r.
LEMMA OneRequest ==
    ASSUME NEW r \in Requests, PInv, \A q \in Others(r) : Untouched(q),
           ChecksInv(r)', GateInv(r)'
    PROVE  PInv'
<1>1. SUFFICES ASSUME NEW q \in Requests PROVE ChecksInv(q)' /\ GateInv(q)'
  BY DEF PInv
<1>2. CASE q = r
  BY <1>2
<1>3. CASE q # r
  <2>1. Untouched(q)
    BY <1>3 DEF Others
  <2>2. ChecksInv(q) /\ GateInv(q)
    BY DEF PInv
  <2>3. QED BY <2>1, <2>2, Elsewhere
<1>4. QED BY <1>2, <1>3

LEMMA InitInv == Init => TypeOK /\ PInv
<1> SUFFICES ASSUME Init PROVE TypeOK /\ PInv
  OBVIOUS
<1>1. settings \in Settings /\ reloads \in 0 .. MaxReloads
  BY PipelineAssumption DEF Init
<1>2. held = {} /\ authorised = {} /\ released = {}
  BY DEF Init, Gate!Init
<1>3. TypeOK
  BY <1>1, <1>2 DEF Init, TypeOK, Labels, Replies, ScanSequences, Decisions
<1>4. PInv
  BY <1>2 DEF Init, PInv, ChecksInv, GateInv, NoBlock, Beyond
<1>5. QED BY <1>3, <1>4

-----------------------------------------------------------------------------
(* Arrival *)

LEMMA ArriveStep ==
    ASSUME TypeOK, PInv, NEW r \in Requests, Arrive(r)
    PROVE  TypeOK' /\ PInv'
<1>1. PICK i \in Inputs : \/ ArriveText(r, i) \/ ArriveWithoutPrompt(r, i)
                          \/ ArriveUnreadable(r, i)
  BY DEF Arrive
<1>2. /\ pc[r] = "new"
      /\ input' = [input EXCEPT ![r] = i]
      /\ UNCHANGED <<settings, reloads, verdict, clean, basis, received, held, authorised,
                     released>>
  BY <1>1 DEF ArriveText, ArriveWithoutPrompt, ArriveUnreadable, ArriveFrame, settingVars,
             gateVars
<1>3. i # NoInput
  BY PipelineAssumption
<1>4. /\ input' \in [Requests -> Inputs \cup {NoInput}]
      /\ input'[r] = i
      /\ \A q \in Others(r) : input'[q] = input[q]
  BY <1>2 DEF TypeOK, Others
<1>5. /\ received[r] = {} /\ r \notin held
      /\ \A c \in Checks : verdict[r][c] = "none"
  BY <1>2 DEF PInv, ChecksInv, GateInv, Before
<1>6. settings.sequence \in ScanSequences
  BY DEF TypeOK, Settings
<1>7. /\ pc' \in [Requests -> Labels]
      /\ \A q \in Others(r) : pc'[q] = pc[q]
      /\ reply' \in [Requests -> Replies]
      /\ audit' \in [Requests -> SUBSET Events]
      /\ sequence' \in [Requests -> ScanSequences]
      /\ \A q \in Others(r) : sequence'[q] = sequence[q]
      /\ exposed' \subseteq Exposures
      /\ pc'[r] # "new"
      /\ ChecksInv(r)' /\ GateInv(r)'
  <2>1. CASE ArriveText(r, i)
    <3>1. PICK l \in {"guardian", "scan", "both"} :
             /\ Pass(r, l)
             /\ l = "guardian" => settings.sequence = "A"
             /\ l = "scan" => settings.sequence = "B"
      BY <2>1, <1>6 DEF ArriveText, ScanSequences
    <3>2. l \in Labels
      BY DEF Labels
    <3>3. /\ pc' \in [Requests -> Labels] /\ pc'[r] = l
          /\ \A q \in Others(r) : pc'[q] = pc[q]
          /\ reply' = reply /\ audit' = audit
      BY <3>1, <3>2, PassEffect
    <3>4. /\ sequence' \in [Requests -> ScanSequences]
          /\ sequence'[r] = settings.sequence
          /\ \A q \in Others(r) : sequence'[q] = sequence[q]
      BY <2>1, <1>6 DEF ArriveText, TypeOK, Others
    <3>5. exposed' \subseteq Exposures
      BY <2>1 DEF ArriveText, GuardianReads, TypeOK, Exposures
    <3>6. ChecksInv(r)'
      BY <3>1, <3>3, <3>4, <1>2, <1>5 DEF ChecksInv, NoBlock, Beyond, Checks
    <3>7. GateInv(r)'
      BY <3>3, <1>2, <1>5 DEF GateInv
    <3>8. QED BY <3>3, <3>4, <3>5, <3>6, <3>7 DEF TypeOK
  <2>2. CASE ArriveWithoutPrompt(r, i)
    <3>1. PICK l \in {"tools", "policy"} : Pass(r, l)
      BY <2>2 DEF ArriveWithoutPrompt, Unclassified
    <3>2. l \in Labels
      BY DEF Labels
    <3>3. /\ pc' \in [Requests -> Labels] /\ pc'[r] = l
          /\ \A q \in Others(r) : pc'[q] = pc[q]
          /\ reply' = reply /\ audit' = audit
      BY <3>1, <3>2, PassEffect
    <3>4. sequence' = sequence /\ exposed' = exposed /\ i.prompt = "none"
      BY <2>2 DEF ArriveWithoutPrompt
    <3>5. ChecksInv(r)'
      BY <3>3, <3>4, <1>2, <1>4, <1>5
         DEF ChecksInv, NoBlock, Cleared, HasPrompt, Beyond, Checks
    <3>6. GateInv(r)'
      BY <3>3, <1>2, <1>5 DEF GateInv
    <3>7. QED BY <3>3, <3>4, <3>5, <3>6 DEF TypeOK
  <2>3. CASE ArriveUnreadable(r, i)
    <3>1. Goto(r, "done") /\ Reply(r, "error") /\ UNCHANGED <<sequence, exposed, audit>>
      BY <2>3 DEF ArriveUnreadable
    <3>2. /\ pc' \in [Requests -> Labels] /\ pc'[r] = "done"
          /\ \A q \in Others(r) : pc'[q] = pc[q]
      BY <3>1, GotoEffect DEF TypeOK, Labels
    <3>3. reply' \in [Requests -> Replies]
      BY <3>1, ReplyEffect DEF TypeOK, Replies
    <3>4. ChecksInv(r)' /\ GateInv(r)'
      BY <3>2, <1>2, <1>5 DEF ChecksInv, GateInv, Before, Beyond
    <3>5. QED BY <3>1, <3>2, <3>3, <3>4 DEF TypeOK
  <2>4. QED BY <1>1, <2>1, <2>2, <2>3
<1>8. TypeOK'
  <2>1. \A q \in Requests : pc'[q] # "new" => input'[q] # NoInput
    BY <1>3, <1>4, <1>7 DEF TypeOK, Others
  <2>2. QED BY <2>1, <1>2, <1>4, <1>7 DEF TypeOK
<1>9. \A q \in Others(r) : Untouched(q)
  BY <1>2, <1>4, <1>7 DEF Untouched
<1>10. QED BY <1>7, <1>8, <1>9, OneRequest

-----------------------------------------------------------------------------
(* Layers 1, 2 and 3.5 *)

Classifying == {"guardian", "scan", "both", "tools"}

\* What each step of the checks does to the variables CheckFrame leaves open.
CheckEffect(r) ==
    /\ pc' \in [Requests -> Labels] /\ pc'[r] \in Classifying \cup {"policy", "done"}
    /\ verdict' \in [Requests -> [Checks -> Decisions]]
    /\ clean' \in [Requests -> BOOLEAN]
    /\ basis' \in [Requests -> {"none", "yes", "no"} \cup Strategies]
    /\ exposed' \subseteq Exposures
    /\ reply' \in [Requests -> Replies] /\ audit' \in [Requests -> SUBSET Events]
    /\ \A q \in Others(r) : pc'[q] = pc[q] /\ verdict'[q] = verdict[q] /\ basis'[q] = basis[q]

LEMMA CheckStep ==
    ASSUME TypeOK, PInv, NEW r \in Requests, pc[r] \in Classifying, CheckFrame,
           CheckEffect(r), ChecksInv(r)'
    PROVE  TypeOK' /\ PInv'
<1>1. UNCHANGED <<settings, reloads, input, sequence, received, held, authorised, released>>
  BY DEF CheckFrame, settingVars, gateVars
<1>2. TypeOK'
  <2>1. \A q \in Requests : pc'[q] # "new" => input'[q] # NoInput
    <3>1. SUFFICES ASSUME NEW q \in Requests, pc'[q] # "new" PROVE input'[q] # NoInput
      OBVIOUS
    <3>2. CASE q = r
      BY <1>1, <3>2 DEF TypeOK, Classifying
    <3>3. CASE q # r
      BY <1>1, <3>1, <3>3 DEF TypeOK, Others, CheckEffect
    <3>4. QED BY <3>2, <3>3
  <2>2. QED BY <1>1, <2>1 DEF TypeOK, CheckEffect
<1>3. GateInv(r)'
  <2>1. r \notin held
    BY DEF PInv, GateInv, Classifying
  <2>2. QED BY <1>1, <2>1 DEF GateInv, CheckEffect, Classifying
<1>4. \A q \in Others(r) : Untouched(q)
  BY <1>1 DEF Untouched, CheckEffect
<1>5. QED BY <1>2, <1>3, <1>4, OneRequest

\* What comes next when the checks are passed.
LEMMA AfterChecksEffect ==
    ASSUME NEW r \in Requests
    PROVE  AfterChecks(r) \in {"tools", "policy"}
BY DEF AfterChecks, Unclassified

LEMMA GuardianStep ==
    ASSUME TypeOK, PInv, NEW r \in Requests, NEW a \in GuardianAnswers,
           GuardianDecides(r, a)
    PROVE  TypeOK' /\ PInv'
<1> DEFINE v == CheckSafety(a, Scan(r))
<1>1. /\ pc[r] = "guardian" /\ Decide(r, "guardian", v)
      /\ IF v = "block" THEN Block(r, "guardian")
         ELSE Pass(r, IF Branch(r) = "A" THEN "scan" ELSE AfterChecks(r))
      /\ basis' = [basis EXCEPT ![r] = Basis(a)]
      /\ UNCHANGED <<clean, exposed>> /\ CheckFrame
  BY DEF GuardianDecides
<1>2. settings \in Settings /\ verdict \in [Requests -> [Checks -> Decisions]]
  BY DEF TypeOK
<1>3. /\ v \in {"allow", "warn", "block"}
      /\ Basis(a) \in {"none", "yes", "no"} \cup Strategies
      /\ v # "block" => Basis(a) \in Sound
  BY <1>2, CheckSafetyEffect
<1>4. v \in Decisions /\ "guardian" \in Checks
  BY <1>3 DEF Decisions, Checks
<1> HIDE DEF v
<1>5. /\ verdict' \in [Requests -> [Checks -> Decisions]]
      /\ verdict'[r]["guardian"] = v
      /\ \A d \in Checks \ {"guardian"} : verdict'[r][d] = verdict[r][d]
      /\ \A q \in Others(r) : verdict'[q] = verdict[q]
  BY <1>1, <1>2, <1>4, DecideEffect
<1>6. /\ basis' \in [Requests -> {"none", "yes", "no"} \cup Strategies]
      /\ basis'[r] = Basis(a)
      /\ \A q \in Others(r) : basis'[q] = basis[q]
  BY <1>1, <1>3 DEF TypeOK, Others
<1>7. UNCHANGED <<input, sequence, received>>
  BY <1>1 DEF CheckFrame
<1>8. ChecksInv(r)
  BY DEF PInv
<1>9. CASE v = "block"
  <2>1. Block(r, "guardian") /\ "guardian" \in Components
    BY <1>1, <1>9 DEF Components
  <2>2. CheckEffect(r) /\ pc'[r] = "done"
    BY <1>1, <1>5, <1>6, <2>1, BlockEffect DEF CheckEffect, TypeOK
  <2>3. ChecksInv(r)'
    BY <1>1, <1>7, <1>8, <2>2 DEF ChecksInv, Before, Beyond
  <2>4. QED BY <1>1, <2>2, <2>3, CheckStep DEF Classifying
<1>10. CASE v # "block"
  <2>1. PICK l \in {"scan", "tools", "policy"} :
           Pass(r, l) /\ (l = "scan" <=> sequence[r] = "A")
    BY <1>1, <1>10, AfterChecksEffect DEF Branch
  <2>2. l \in Labels
    BY DEF Labels
  <2>3. CheckEffect(r) /\ pc'[r] = l
    BY <1>1, <1>5, <1>6, <2>1, <2>2, PassEffect DEF CheckEffect, TypeOK, Classifying
  <2>4. NoBlock(r)'
    BY <1>1, <1>5, <1>8, <1>10 DEF ChecksInv, NoBlock
  <2>5. l # "scan" => Scanned(r)'
    BY <1>1, <1>5, <1>8, <2>1 DEF ChecksInv, Scanned, Checks
  <2>6. l = "scan" => verdict'[r]["tools"] = "none" /\ verdict'[r]["byoc"] = "none"
    BY <1>1, <1>5, <1>8 DEF ChecksInv, Checks
  <2>7. ChecksInv(r)'
    BY <1>1, <1>3, <1>6, <1>7, <1>8, <1>10, <2>1, <2>3, <2>4, <2>5, <2>6
       DEF ChecksInv, Cleared, Before, Beyond
  <2>8. QED BY <1>1, <2>3, <2>7, CheckStep DEF Classifying
<1>11. QED BY <1>9, <1>10

LEMMA ScanStep ==
    ASSUME TypeOK, PInv, NEW r \in Requests, ScanEnds(r)
    PROVE  TypeOK' /\ PInv'
<1> DEFINE v == Scan(r)
<1>1. pc[r] = "scan" /\ Decide(r, "scanner", v) /\ CheckFrame /\ basis' = basis
  BY DEF ScanEnds
<1>2. \/ v = "block" /\ Block(r, "pii_scanner") /\ UNCHANGED <<clean, exposed>>
      \/ /\ v # "block" /\ sequence[r] = "A"
         /\ UpdateBody(r) /\ Pass(r, AfterChecks(r)) /\ UNCHANGED exposed
      \/ /\ v # "block" /\ sequence[r] # "A"
         /\ UpdateBody(r) /\ Pass(r, "guardian")
         /\ GuardianReads(r, input[r].secrets, TRUE)
  BY DEF ScanEnds, Branch
<1>3. v \in {"allow", "warn", "block"}
  BY ScanEffect
<1> HIDE DEF v
<1>4. v \in Decisions /\ "scanner" \in Checks
  BY <1>3 DEF Decisions, Checks
<1>5. /\ verdict' \in [Requests -> [Checks -> Decisions]]
      /\ verdict'[r]["scanner"] = v
      /\ \A d \in Checks \ {"scanner"} : verdict'[r][d] = verdict[r][d]
      /\ \A q \in Others(r) : verdict'[q] = verdict[q]
  BY <1>1, <1>4, DecideEffect DEF TypeOK
<1>6. UNCHANGED <<input, sequence, received>>
  BY <1>1 DEF CheckFrame
<1>7. ChecksInv(r)
  BY DEF PInv
<1>8. CASE v = "block"
  <2>1. Block(r, "pii_scanner") /\ "pii_scanner" \in Components /\ UNCHANGED <<clean, exposed>>
    BY <1>2, <1>8 DEF Components
  <2>2. CheckEffect(r) /\ pc'[r] = "done"
    BY <1>1, <1>5, <2>1, BlockEffect DEF CheckEffect, TypeOK
  <2>3. ChecksInv(r)'
    BY <1>1, <1>6, <1>7, <2>2 DEF ChecksInv, Before, Beyond
  <2>4. QED BY <1>1, <2>2, <2>3, CheckStep DEF Classifying
<1>9. CASE v # "block"
  <2>1. PICK l \in {"guardian", "tools", "policy"} :
           Pass(r, l) /\ (l # "guardian" <=> sequence[r] = "A")
    BY <1>2, <1>9, AfterChecksEffect
  <2>2. l \in Labels
    BY DEF Labels
  <2>3. clean' \in [Requests -> BOOLEAN] /\ exposed' \subseteq Exposures
    BY <1>2, <1>9 DEF UpdateBody, GuardianReads, TypeOK
  <2>4. CheckEffect(r) /\ pc'[r] = l
    BY <1>1, <1>5, <2>1, <2>2, <2>3, PassEffect DEF CheckEffect, TypeOK, Classifying
  <2>5. NoBlock(r)' /\ Scanned(r)'
    BY <1>1, <1>3, <1>5, <1>7, <1>9 DEF ChecksInv, NoBlock, Scanned
  <2>6. l = "guardian" => verdict'[r]["tools"] = "none" /\ verdict'[r]["byoc"] = "none"
    BY <1>1, <1>5, <1>7 DEF ChecksInv, Checks
  <2>7. l # "guardian" => basis'[r] \in Sound
    BY <1>1, <1>7, <2>1 DEF ChecksInv
  <2>8. ChecksInv(r)'
    BY <1>1, <1>6, <1>7, <2>1, <2>4, <2>5, <2>6, <2>7 DEF ChecksInv, Cleared, Before, Beyond
  <2>9. QED BY <1>1, <2>4, <2>8, CheckStep DEF Classifying
<1>10. QED BY <1>8, <1>9

LEMMA GatherStep ==
    ASSUME TypeOK, PInv, NEW r \in Requests,
           GatherScan(r) \/ \E a \in GuardianAnswers : GatherGuardian(r, a)
    PROVE  TypeOK' /\ PInv'
<1>1. /\ pc[r] = "both" /\ CheckFrame
      /\ UNCHANGED <<pc, clean, exposed, reply, audit, input, sequence, received>>
  BY DEF GatherScan, GatherGuardian, CheckFrame
<1>2. ChecksInv(r) /\ settings \in Settings
  BY DEF PInv, TypeOK
<1>3. CASE GatherScan(r)
  <2>1. Scan(r) \in Decisions /\ "scanner" \in Checks
    BY ScanEffect DEF Decisions, Checks
  <2>2. /\ verdict' \in [Requests -> [Checks -> Decisions]]
        /\ \A d \in Checks \ {"scanner"} : verdict'[r][d] = verdict[r][d]
        /\ \A q \in Others(r) : verdict'[q] = verdict[q]
    BY <1>3, <2>1, DecideEffect DEF GatherScan, TypeOK
  <2>3. basis' = basis
    BY <1>3 DEF GatherScan
  <2>4. CheckEffect(r)
    BY <1>1, <2>2, <2>3 DEF CheckEffect, TypeOK, Others, Classifying
  <2>5. ChecksInv(r)'
    BY <1>1, <1>2, <2>2, <2>3 DEF ChecksInv, Checks, Before, Beyond
  <2>6. QED BY <1>1, <2>4, <2>5, CheckStep DEF Classifying
<1>4. ASSUME NEW a \in GuardianAnswers, GatherGuardian(r, a)
      PROVE  TypeOK' /\ PInv'
  <2> DEFINE v == CheckSafety(a, Scan(r))
  <2>1. Decide(r, "guardian", v) /\ basis' = [basis EXCEPT ![r] = Basis(a)]
    BY <1>4 DEF GatherGuardian
  <2>2. /\ v \in {"allow", "warn", "block"}
        /\ Basis(a) \in {"none", "yes", "no"} \cup Strategies
        /\ v # "block" => Basis(a) \in Sound
    BY <1>2, CheckSafetyEffect
  <2> HIDE DEF v
  <2>3. v \in Decisions /\ "guardian" \in Checks
    BY <2>2 DEF Decisions, Checks
  <2>4. /\ verdict' \in [Requests -> [Checks -> Decisions]]
        /\ verdict'[r]["guardian"] = v
        /\ \A d \in Checks \ {"guardian"} : verdict'[r][d] = verdict[r][d]
        /\ \A q \in Others(r) : verdict'[q] = verdict[q]
    BY <2>1, <2>3, DecideEffect DEF TypeOK
  <2>5. /\ basis' \in [Requests -> {"none", "yes", "no"} \cup Strategies]
        /\ basis'[r] = Basis(a)
        /\ \A q \in Others(r) : basis'[q] = basis[q]
    BY <2>1, <2>2 DEF TypeOK, Others
  <2>6. CheckEffect(r)
    BY <1>1, <2>4, <2>5 DEF CheckEffect, TypeOK, Others, Classifying
  <2>7. ChecksInv(r)'
    BY <1>1, <1>2, <2>2, <2>4, <2>5 DEF ChecksInv, Checks, Before, Beyond
  <2>8. QED BY <1>1, <2>6, <2>7, CheckStep DEF Classifying
<1>5. QED BY <1>3, <1>4

LEMMA GatherDoneStep ==
    ASSUME TypeOK, PInv, NEW r \in Requests, GatherDone(r)
    PROVE  TypeOK' /\ PInv'
<1>1. /\ pc[r] = "both" /\ CheckFrame
      /\ verdict[r]["guardian"] # "none" /\ verdict[r]["scanner"] # "none"
      /\ UNCHANGED <<verdict, basis, exposed, input, sequence, received>>
  BY DEF GatherDone, CheckFrame
<1>2. ChecksInv(r) /\ verdict[r] \in [Checks -> Decisions]
  BY DEF PInv, TypeOK
<1>3. CASE verdict[r]["guardian"] = "block" \/ verdict[r]["scanner"] = "block"
  <2>1. PICK c \in {"guardian", "pii_scanner"} : Block(r, c) /\ clean' = clean
    BY <1>3 DEF GatherDone
  <2>2. c \in Components
    BY DEF Components
  <2>3. CheckEffect(r) /\ pc'[r] = "done"
    BY <1>1, <2>1, <2>2, BlockEffect DEF CheckEffect, TypeOK
  <2>4. ChecksInv(r)'
    BY <1>1, <1>2, <2>3 DEF ChecksInv, Before, Beyond
  <2>5. QED BY <1>1, <2>3, <2>4, CheckStep DEF Classifying
<1>4. CASE verdict[r]["guardian"] # "block" /\ verdict[r]["scanner"] # "block"
  <2>1. UpdateBody(r) /\ Pass(r, AfterChecks(r))
    BY <1>4 DEF GatherDone
  <2>2. PICK l \in {"tools", "policy"} : Pass(r, l)
    BY <2>1, AfterChecksEffect
  <2>3. l \in Labels
    BY DEF Labels
  <2>4. clean' \in [Requests -> BOOLEAN]
    BY <2>1 DEF UpdateBody, TypeOK
  <2>5. CheckEffect(r) /\ pc'[r] = l
    BY <1>1, <2>2, <2>3, <2>4, PassEffect DEF CheckEffect, TypeOK, Classifying
  <2>6. /\ verdict[r]["guardian"] \in {"allow", "warn"}
        /\ verdict[r]["scanner"] \in {"allow", "warn"}
    BY <1>1, <1>2, <1>4 DEF Checks, Decisions
  <2>7. Cleared(r)'
    BY <1>1, <1>2, <2>6 DEF ChecksInv, Cleared, NoBlock, Scanned, Checks
  <2>8. ChecksInv(r)'
    BY <1>1, <1>2, <2>5, <2>7 DEF ChecksInv, Before, Beyond
  <2>9. QED BY <1>1, <2>5, <2>8, CheckStep DEF Classifying
<1>5. QED BY <1>3, <1>4

LEMMA DetectorStep ==
    ASSUME TypeOK, PInv, NEW r \in Requests, NEW a \in GuardianAnswers,
           DetectorDecides(r, a)
    PROVE  TypeOK' /\ PInv'
<1>1. /\ pc[r] = "tools" /\ CheckFrame
      /\ UNCHANGED <<clean, basis, input, sequence, received>>
      /\ exposed' \subseteq Exposures
  BY DEF DetectorDecides, CheckFrame, TypeOK, Exposures
<1>2. ChecksInv(r) /\ settings \in Settings
  BY DEF PInv, TypeOK
<1>3. PICK v \in {"allow", "warn", "block"} :
         /\ Decide(r, "tools", v)
         /\ IF v = "block" THEN Block(r, "function_call_detector")
            ELSE /\ Goto(r, "policy") /\ UNCHANGED reply
                 /\ LogEvents(r, IF v = "warn"
                                 THEN {<<"warn", "function_call_detector">>} ELSE {})
  BY <1>2, CheckSafetyEffect DEF DetectorDecides
<1>4. v \in Decisions /\ "tools" \in Checks
  BY DEF Decisions, Checks
<1>5. /\ verdict' \in [Requests -> [Checks -> Decisions]]
      /\ verdict'[r]["tools"] = v
      /\ \A d \in Checks \ {"tools"} : verdict'[r][d] = verdict[r][d]
      /\ \A q \in Others(r) : verdict'[q] = verdict[q]
  BY <1>3, <1>4, DecideEffect DEF TypeOK
<1>6. CASE v = "block"
  <2>1. Block(r, "function_call_detector") /\ "function_call_detector" \in Components
    BY <1>3, <1>6 DEF Components
  <2>2. CheckEffect(r) /\ pc'[r] = "done"
    BY <1>1, <1>5, <2>1, BlockEffect DEF CheckEffect, TypeOK
  <2>3. ChecksInv(r)'
    BY <1>1, <1>2, <2>2 DEF ChecksInv, Before, Beyond
  <2>4. QED BY <1>1, <2>2, <2>3, CheckStep DEF Classifying
<1>7. CASE v # "block"
  <2> DEFINE es == IF v = "warn" THEN {<<"warn", "function_call_detector">>} ELSE {}
  <2>1. Goto(r, "policy") /\ UNCHANGED reply /\ LogEvents(r, es)
    BY <1>3, <1>7
  <2>2. es \in SUBSET Events /\ "policy" \in Labels
    BY DEF Events, Components, Labels
  <2> HIDE DEF es
  <2>3. /\ pc' \in [Requests -> Labels] /\ pc'[r] = "policy"
        /\ \A q \in Others(r) : pc'[q] = pc[q]
        /\ audit' \in [Requests -> SUBSET Events]
    BY <2>1, <2>2, GotoEffect, LogEffect DEF TypeOK
  <2>4. CheckEffect(r)
    BY <1>1, <1>5, <2>1, <2>3 DEF CheckEffect, TypeOK
  <2>5. Cleared(r)'
    BY <1>1, <1>2, <1>5, <1>7 DEF ChecksInv, Cleared, NoBlock, Scanned, HasPrompt, Checks, Beyond
  <2>6. ChecksInv(r)'
    BY <1>1, <1>2, <2>3, <2>5 DEF ChecksInv, Before, Beyond
  <2>7. QED BY <1>1, <2>4, <2>6, CheckStep DEF Classifying
<1>8. QED BY <1>6, <1>7

LEMMA ClassifyStep ==
    ASSUME TypeOK, PInv, NEW r \in Requests, Classify(r)
    PROVE  TypeOK' /\ PInv'
BY GuardianStep, ScanStep, GatherStep, GatherDoneStep, DetectorStep DEF Classify

-----------------------------------------------------------------------------
(* The policy layers *)

\* What the steps behind the checks do.
LaterEffect(r) ==
    /\ UNCHANGED <<settings, reloads, input, sequence, clean, basis, exposed>>
    /\ pc' \in [Requests -> Labels]
    /\ verdict' \in [Requests -> [Checks -> Decisions]]
    /\ received' \in [Requests -> SUBSET Bodies]
    /\ reply' \in [Requests -> Replies] /\ audit' \in [Requests -> SUBSET Events]
    /\ held' \subseteq Requests /\ authorised' \subseteq held' /\ released' \subseteq held'
    /\ \A q \in Others(r) :
          /\ pc'[q] = pc[q] /\ verdict'[q] = verdict[q] /\ received'[q] = received[q]
          /\ q \in held' <=> q \in held
          /\ q \in released => q \in released'

LEMMA LaterStep ==
    ASSUME TypeOK, PInv, NEW r \in Requests, pc[r] # "new", LaterEffect(r),
           ChecksInv(r)', GateInv(r)'
    PROVE  TypeOK' /\ PInv'
<1>1. TypeOK'
  <2>1. \A q \in Requests : pc'[q] # "new" => input'[q] # NoInput
    BY DEF TypeOK, LaterEffect, Others
  <2>2. QED BY <2>1 DEF TypeOK, LaterEffect
<1>2. \A q \in Others(r) : Untouched(q)
  BY DEF Untouched, LaterEffect
<1>3. QED BY <1>1, <1>2, OneRequest

LEMMA EventSets ==
    /\ \A v : ByocEvents(v) \in SUBSET Events
    /\ \A r \in Requests : WarnEvents(r) \in SUBSET Events
    /\ \A a \in {"allow", "warn", "block", "pause"}, c \in Components :
          {<<a, c>>} \in SUBSET Events
BY DEF ByocEvents, WarnEvents, Events, Components

\* Whatever BYOC says short of a block leaves the request cleared.
LEMMA ByocEffect ==
    ASSUME TypeOK, NEW r \in Requests, NEW v \in ByocPasses(r) \cup {"block"},
           Decide(r, "byoc", v)
    PROVE  /\ verdict' \in [Requests -> [Checks -> Decisions]]
           /\ \A q \in Others(r) : verdict'[q] = verdict[q]
           /\ verdict'[r]["scanner"] = verdict[r]["scanner"]
           /\ NoBlock(r) /\ v # "block" => NoBlock(r)'
<1>1. v \in Decisions /\ "byoc" \in Checks
  BY DEF ByocPasses, Decisions, Checks
<1>2. QED BY <1>1, DecideEffect DEF TypeOK, NoBlock, Checks

\* What is known of a request that has reached the policy layers.
LEMMA AtPolicy ==
    ASSUME PInv, NEW r \in Requests, pc[r] = "policy"
    PROVE  Cleared(r) /\ received[r] = {} /\ r \notin held /\ pc[r] # "new"
BY DEF PInv, ChecksInv, GateInv, Before, Beyond

LEMMA LayerBlocksStep ==
    ASSUME TypeOK, PInv, NEW r \in Requests,
           \/ ByocBlocks(r)
           \/ \E c \in {"schema_validator", "agency_controller"} : LaterLayerBlocks(r, c)
    PROVE  TypeOK' /\ PInv'
<1>1. pc[r] = "policy" /\ UNCHANGED gateVars /\ PolicyFrame
  BY DEF ByocBlocks, LaterLayerBlocks
<1>2. UNCHANGED <<settings, reloads, input, sequence, clean, basis, exposed, received, held,
                  authorised, released>>
  BY <1>1 DEF PolicyFrame, settingVars, gateVars
<1>3. PICK v \in ByocPasses(r) \cup {"block"}, es \in SUBSET Events :
         /\ Decide(r, "byoc", v) /\ LogEvents(r, es)
         /\ Goto(r, "done") /\ Reply(r, "blocked")
  <2>1. CASE ByocBlocks(r)
    BY <2>1, EventSets DEF ByocBlocks, Block, Components
  <2>2. ASSUME NEW c \in {"schema_validator", "agency_controller"}, LaterLayerBlocks(r, c)
        PROVE  \E v \in ByocPasses(r) \cup {"block"}, es \in SUBSET Events :
                  /\ Decide(r, "byoc", v) /\ LogEvents(r, es)
                  /\ Goto(r, "done") /\ Reply(r, "blocked")
    <3>1. PICK v \in ByocPasses(r) :
             /\ Decide(r, "byoc", v)
             /\ LogEvents(r, ByocEvents(v) \cup {<<"block", c>>})
      BY <2>2 DEF LaterLayerBlocks
    <3>2. ByocEvents(v) \cup {<<"block", c>>} \in SUBSET Events
      BY EventSets DEF Components
    <3>3. QED BY <2>2, <3>1, <3>2 DEF LaterLayerBlocks
  <2>3. QED BY <2>1, <2>2
<1>4. "done" \in Labels /\ "blocked" \in Replies
  BY DEF Labels, Replies
<1>5. /\ pc' \in [Requests -> Labels] /\ pc'[r] = "done"
      /\ \A q \in Others(r) : pc'[q] = pc[q]
      /\ reply' \in [Requests -> Replies] /\ audit' \in [Requests -> SUBSET Events]
  BY <1>3, <1>4, GotoEffect, ReplyEffect, LogEffect DEF TypeOK
<1>6. /\ verdict' \in [Requests -> [Checks -> Decisions]]
      /\ \A q \in Others(r) : verdict'[q] = verdict[q]
  BY <1>3, ByocEffect
<1>7. LaterEffect(r)
  BY <1>2, <1>5, <1>6 DEF LaterEffect, TypeOK
<1>8. received[r] = {} /\ r \notin held /\ pc[r] # "new"
  BY <1>1, AtPolicy
<1>9. ChecksInv(r)' /\ GateInv(r)'
  BY <1>2, <1>5, <1>8 DEF ChecksInv, GateInv, Before, Beyond
<1>10. QED BY <1>7, <1>8, <1>9, LaterStep

LEMMA PausesStep ==
    ASSUME TypeOK, PInv, NEW r \in Requests,
           NEW c \in {"agency_controller", "hitl_gate"}, PolicyPauses(r, c)
    PROVE  TypeOK' /\ PInv'
<1>1. /\ pc[r] = "policy" /\ PolicyFrame
      /\ held' = held \cup {r} /\ UNCHANGED <<authorised, released>>
  BY DEF PolicyPauses, Gate!Hold
<1>2. UNCHANGED <<settings, reloads, input, sequence, clean, basis, exposed, received>>
  BY <1>1 DEF PolicyFrame, settingVars
<1>3. PICK v \in ByocPasses(r) :
         Decide(r, "byoc", v) /\ LogEvents(r, ByocEvents(v) \cup {<<"pause", c>>})
  BY DEF PolicyPauses
<1>4. /\ Goto(r, "paused") /\ "paused" \in Labels
      /\ Reply(r, "paused") /\ "paused" \in Replies
      /\ ByocEvents(v) \cup {<<"pause", c>>} \in SUBSET Events
  BY EventSets DEF PolicyPauses, Labels, Replies, Components
<1>5. /\ pc' \in [Requests -> Labels] /\ pc'[r] = "paused"
      /\ \A q \in Others(r) : pc'[q] = pc[q]
      /\ reply' \in [Requests -> Replies] /\ audit' \in [Requests -> SUBSET Events]
  BY <1>3, <1>4, GotoEffect, ReplyEffect, LogEffect DEF TypeOK
<1>6. v # "block"
  BY DEF ByocPasses
<1>7. Cleared(r) /\ received[r] = {} /\ pc[r] # "new"
  BY <1>1, AtPolicy
<1>8. /\ verdict' \in [Requests -> [Checks -> Decisions]]
      /\ \A q \in Others(r) : verdict'[q] = verdict[q]
      /\ verdict'[r]["scanner"] = verdict[r]["scanner"]
      /\ NoBlock(r)'
  BY <1>3, <1>6, <1>7, ByocEffect DEF Cleared
<1>9. LaterEffect(r)
  BY <1>1, <1>2, <1>5, <1>8 DEF LaterEffect, TypeOK, Others
<1>10. Cleared(r)'
  BY <1>2, <1>7, <1>8 DEF Cleared, Scanned, HasPrompt
<1>11. ChecksInv(r)' /\ GateInv(r)'
  BY <1>1, <1>2, <1>5, <1>7, <1>10 DEF ChecksInv, GateInv, Before
<1>12. QED BY <1>7, <1>9, <1>11, LaterStep

LEMMA ForwardsStep ==
    ASSUME TypeOK, PInv, NEW r \in Requests, PolicyForwards(r)
    PROVE  TypeOK' /\ PInv'
<1>1. pc[r] = "policy" /\ UNCHANGED gateVars /\ PolicyFrame
  BY DEF PolicyForwards
<1>2. UNCHANGED <<settings, reloads, input, sequence, clean, basis, exposed, received, held,
                  authorised, released>>
  BY <1>1 DEF PolicyFrame, settingVars, gateVars
<1> DEFINE sent == IF input[r].stream THEN {<<"allow", "proxy">>} ELSE {}
<1>3. PICK v \in ByocPasses(r) :
         Decide(r, "byoc", v) /\ LogEvents(r, ByocEvents(v) \cup WarnEvents(r) \cup sent)
  BY DEF PolicyForwards
<1>4. ByocEvents(v) \cup WarnEvents(r) \cup sent \in SUBSET Events
  <2>1. sent \in SUBSET Events
    BY EventSets DEF Components
  <2>2. QED BY <2>1, EventSets
<1> HIDE DEF sent
<1>5. audit' \in [Requests -> SUBSET Events]
  BY <1>3, <1>4, LogEffect DEF TypeOK
<1>6. PICK l \in {"streaming", "send"} :
         Goto(r, l) /\ (Reply(r, "stream") \/ UNCHANGED reply)
  BY DEF PolicyForwards
<1>7. l \in Labels /\ "stream" \in Replies
  BY DEF Labels, Replies
<1>8. /\ pc' \in [Requests -> Labels] /\ pc'[r] = l
      /\ \A q \in Others(r) : pc'[q] = pc[q]
      /\ reply' \in [Requests -> Replies]
  BY <1>6, <1>7, GotoEffect, ReplyEffect DEF TypeOK
<1>9. v # "block"
  BY DEF ByocPasses
<1>10. Cleared(r) /\ received[r] = {} /\ r \notin held /\ pc[r] # "new"
  BY <1>1, AtPolicy
<1>11. /\ verdict' \in [Requests -> [Checks -> Decisions]]
       /\ \A q \in Others(r) : verdict'[q] = verdict[q]
       /\ verdict'[r]["scanner"] = verdict[r]["scanner"]
       /\ NoBlock(r)'
  BY <1>3, <1>9, <1>10, ByocEffect DEF Cleared
<1>12. LaterEffect(r)
  BY <1>2, <1>5, <1>8, <1>11 DEF LaterEffect, TypeOK
<1>13. Cleared(r)'
  BY <1>2, <1>10, <1>11 DEF Cleared, Scanned, HasPrompt
<1>14. ChecksInv(r)' /\ GateInv(r)'
  BY <1>2, <1>8, <1>10, <1>13 DEF ChecksInv, GateInv, Before
<1>15. QED BY <1>10, <1>12, <1>14, LaterStep

LEMMA PolicyStep ==
    ASSUME TypeOK, PInv, NEW r \in Requests, Policy(r)
    PROVE  TypeOK' /\ PInv'
BY LayerBlocksStep, PausesStep, ForwardsStep DEF Policy

-----------------------------------------------------------------------------
(* The provider and the response checks *)

Sending == {"send", "thinking", "streaming", "resuming"}

\* Every step behind the policy layers leaves the verdicts and the gate alone.
\* What remains to be shown of it: where it goes, and what the provider got.
LEMMA SendStep ==
    ASSUME TypeOK, PInv, NEW r \in Requests, pc[r] \in Sending, SendFrame,
           NEW l \in {"thinking", "paused", "done"}, Goto(r, l),
           r \in held => l = "paused", l = "paused" => r \in held,
           reply' \in [Requests -> Replies], audit' \in [Requests -> SUBSET Events],
           NEW resumed \in BOOLEAN, resumed <=> r \in held,
           UNCHANGED received \/ ProviderGets(r, resumed),
           pc[r] = "streaming" \/ pc[r] = "thinking" => UNCHANGED received,
           pc[r] = "resuming" <=> r \in held /\ pc[r] # "streaming"
    PROVE  TypeOK' /\ PInv'
<1>1. UNCHANGED <<settings, reloads, input, sequence, verdict, clean, basis, exposed, held,
                  authorised, released>>
  BY DEF SendFrame, settingVars, checkVars, gateVars
<1>2. /\ pc' \in [Requests -> Labels] /\ pc'[r] = l
      /\ \A q \in Others(r) : pc'[q] = pc[q]
  BY GotoEffect DEF TypeOK, Labels
<1>3. Body(r, resumed) \in Bodies /\ (Body(r, resumed).resumed <=> r \in held)
  <2>1. input[r] \in Input
    BY PipelineAssumption DEF TypeOK, Sending
  <2>2. input[r].secrets \subseteq Actions
    BY <2>1 DEF Input
  <2>3. QED BY <2>2 DEF Body, Bodies, FinalWarning
<1>4. /\ received' \in [Requests -> SUBSET Bodies]
      /\ \A q \in Others(r) : received'[q] = received[q]
      /\ \A b \in received'[r] : b \in received[r] \/ (b.resumed <=> r \in held)
  <2>1. PICK b \in Bodies : /\ b.resumed <=> r \in held
                            /\ \/ UNCHANGED received
                               \/ received' = [received EXCEPT ![r] = @ \cup {b}]
    BY <1>3 DEF ProviderGets
  <2>2. received \in [Requests -> SUBSET Bodies]
    BY DEF TypeOK
  <2>3. CASE UNCHANGED received
    BY <2>2, <2>3
  <2>4. CASE received' = [received EXCEPT ![r] = @ \cup {b}]
    <3>1. received'[r] = received[r] \cup {b} /\ \A q \in Others(r) : received'[q] = received[q]
      BY <2>2, <2>4 DEF Others
    <3>2. received' \in [Requests -> SUBSET Bodies]
      BY <2>2, <2>4
    <3>3. QED BY <2>1, <3>1, <3>2
  <2>5. QED BY <2>1, <2>3, <2>4
<1>5. LaterEffect(r)
  BY <1>1, <1>2, <1>4 DEF LaterEffect, TypeOK
<1>6. Cleared(r) /\ GateInv(r)
  BY DEF PInv, ChecksInv, Sending, Beyond
<1>7. ChecksInv(r)'
  <2>1. Cleared(r)'
    BY <1>1, <1>6 DEF Cleared, NoBlock, Scanned, HasPrompt
  <2>2. QED BY <1>2, <2>1 DEF ChecksInv, Before
<1>8. GateInv(r)'
  BY <1>1, <1>2, <1>4, <1>6 DEF GateInv
<1>9. QED BY <1>5, <1>7, <1>8, LaterStep DEF Sending

LEMMA DeliverEffect ==
    ASSUME TypeOK, NEW r \in Requests, NEW c \in Components, NEW es \in SUBSET Events,
           Deliver(r, c, es)
    PROVE  /\ Goto(r, "done")
           /\ reply' \in [Requests -> Replies]
           /\ audit' \in [Requests -> SUBSET Events]
<1>1. Goto(r, "done")
  BY DEF Deliver
<1>2. PICK fs \in SUBSET Events : LogEvents(r, fs)
  <2>1. CASE \E w \in SUBSET {<<"warn", "output_control">>} :
                 LogEvents(r, es \cup w \cup {<<"allow", c>>})
    BY <2>1, EventSets DEF Components
  <2>2. CASE LogEvents(r, es \cup {<<"block", "output_control">>})
    BY <2>2, EventSets DEF Components
  <2>3. QED BY <2>1, <2>2 DEF Deliver
<1>3. PICK w \in Replies : Reply(r, w)
  BY DEF Deliver, Replies
<1>4. QED BY <1>1, <1>2, <1>3, ReplyEffect, LogEffect DEF TypeOK

\* What is known of a request in this part of the handler.
LEMMA AtSend ==
    ASSUME PInv, NEW r \in Requests
    PROVE  /\ pc[r] \in {"send", "thinking"} => r \notin held
           /\ pc[r] = "resuming" => r \in held
BY DEF PInv, GateInv

LEMMA AnswersStep ==
    ASSUME TypeOK, PInv, NEW r \in Requests, ProviderAnswers(r)
    PROVE  TypeOK' /\ PInv'
<1>1. pc[r] = "send" /\ ProviderGets(r, FALSE) /\ SendFrame /\ r \notin held
  BY AtSend DEF ProviderAnswers
<1>2. PICK w \in SUBSET {<<"warn", "ingestion_sanitizer">>} :
         \/ Goto(r, "thinking") /\ LogEvents(r, w) /\ UNCHANGED reply
         \/ Deliver(r, "proxy", w)
  BY DEF ProviderAnswers
<1>3. w \in SUBSET Events /\ "proxy" \in Components
  BY EventSets DEF Components
<1>4. PICK l \in {"thinking", "done"} :
         /\ Goto(r, l)
         /\ reply' \in [Requests -> Replies] /\ audit' \in [Requests -> SUBSET Events]
  BY <1>2, <1>3, LogEffect, DeliverEffect DEF TypeOK
<1>5. QED BY <1>1, <1>4, SendStep DEF Sending

LEMMA ThinkingStep ==
    ASSUME TypeOK, PInv, NEW r \in Requests, NEW a \in GuardianAnswers,
           ThinkingDecides(r, a)
    PROVE  TypeOK' /\ PInv'
<1>1. pc[r] = "thinking" /\ SendFrame /\ UNCHANGED received /\ r \notin held
  BY AtSend DEF ThinkingDecides
<1>2. PICK c \in {"thinking_mode_verifier", "proxy"},
           d \in {"warn", "allow"} : Deliver(r, c, {<<d, "thinking_mode_verifier">>})
  <2>1. PICK s \in {"allow", "block"} :
           CASE CheckSafety(a, s) = "block" ->
                     Deliver(r, "thinking_mode_verifier", {<<"warn", "thinking_mode_verifier">>})
               [] CheckSafety(a, s) = "warn" ->
                     Deliver(r, "proxy", {<<"warn", "thinking_mode_verifier">>})
               [] OTHER ->
                     Deliver(r, "proxy", {<<"allow", "thinking_mode_verifier">>})
    BY DEF ThinkingDecides
  <2>2. QED BY <2>1
<1>3. c \in Components /\ {<<d, "thinking_mode_verifier">>} \in SUBSET Events
  BY EventSets DEF Components
<1>4. /\ Goto(r, "done")
      /\ reply' \in [Requests -> Replies] /\ audit' \in [Requests -> SUBSET Events]
  BY <1>2, <1>3, DeliverEffect
<1>5. QED BY <1>1, <1>4, SendStep DEF Sending

LEMMA FailsStep ==
    ASSUME TypeOK, PInv, NEW r \in Requests,
           SendFails(r) \/ StreamBreaks(r) \/ ResumeAnswers(r) \/ ResumeFails(r)
    PROVE  TypeOK' /\ PInv'
<1>1. SendFrame /\ audit' \in [Requests -> SUBSET Events]
  BY DEF SendFails, StreamBreaks, ResumeAnswers, ResumeFails, TypeOK
<1>2. PICK w \in Replies : Reply(r, w)
  BY DEF SendFails, StreamBreaks, ResumeAnswers, ResumeFails, Replies
<1>3. reply' \in [Requests -> Replies]
  BY <1>2, ReplyEffect DEF TypeOK
<1>4. CASE SendFails(r)
  <2>1. pc[r] = "send" /\ r \notin held /\ Goto(r, "done")
    BY <1>4, AtSend DEF SendFails
  <2>2. UNCHANGED received \/ ProviderGets(r, FALSE)
    BY <1>4 DEF SendFails
  <2>3. QED BY <1>1, <1>3, <2>1, <2>2, SendStep DEF Sending
<1>5. CASE StreamBreaks(r)
  <2>1. /\ pc[r] = "streaming" /\ UNCHANGED received
        /\ Goto(r, IF r \in held THEN "paused" ELSE "done")
    BY <1>5 DEF StreamBreaks
  <2>2. PICK l \in {"paused", "done"} : Goto(r, l) /\ (l = "paused" <=> r \in held)
    BY <2>1
  <2>3. QED BY <1>1, <1>3, <2>1, <2>2, SendStep DEF Sending
<1>6. CASE ResumeAnswers(r) \/ ResumeFails(r)
  <2>1. pc[r] = "resuming" /\ r \in held /\ Goto(r, "paused")
    BY <1>6, AtSend DEF ResumeAnswers, ResumeFails
  <2>2. UNCHANGED received \/ ProviderGets(r, TRUE)
    BY <1>6 DEF ResumeAnswers, ResumeFails
  <2>3. QED BY <1>1, <1>3, <2>1, <2>2, SendStep DEF Sending
<1>7. QED BY <1>4, <1>5, <1>6

-----------------------------------------------------------------------------
(* The gate *)

\* A human's decision moves nothing of the pipeline itself.
LEMMA DecisionStep ==
    ASSUME TypeOK, PInv, NEW r \in Requests, Approve(r) \/ Withdraw(r)
    PROVE  TypeOK' /\ PInv'
<1>1. /\ UNCHANGED <<settings, reloads, input, sequence, verdict, clean, basis, exposed, pc,
                     received, audit, reply, held, released>>
      /\ authorised' \subseteq held
  BY DEF Approve, Withdraw, HumanFrame, settingVars, checkVars, Gate!Authorise,
         Gate!Withdraw, TypeOK
<1>2. TypeOK'
  BY <1>1 DEF TypeOK
<1>3. SUFFICES ASSUME NEW q \in Requests PROVE ChecksInv(q)' /\ GateInv(q)'
  BY <1>2 DEF PInv
<1>4. Untouched(q) /\ ChecksInv(q) /\ GateInv(q)
  BY <1>1 DEF Untouched, PInv
<1>5. QED BY <1>4, Elsewhere

LEMMA ResumeStep ==
    ASSUME TypeOK, PInv, NEW r \in Requests, Resume(r)
    PROVE  TypeOK' /\ PInv'
<1>1. /\ pc[r] = "paused" /\ r \in authorised
      /\ released' = released \cup {r} /\ UNCHANGED <<held, authorised>>
      /\ UNCHANGED <<settings, reloads, input, sequence, verdict, clean, basis, exposed,
                     received>>
  BY DEF Resume, Resumable, settingVars, checkVars
<1>2. PICK l \in {"streaming", "resuming"} :
         Goto(r, l) /\ (Reply(r, "stream") \/ UNCHANGED reply)
  BY DEF Resume
<1>3. l \in Labels /\ "stream" \in Replies /\ {<<"allow", "hitl_gate">>} \in SUBSET Events
  BY EventSets DEF Labels, Replies, Components
<1>4. LogEvents(r, {<<"allow", "hitl_gate">>})
  BY DEF Resume
<1>5. /\ pc' \in [Requests -> Labels] /\ pc'[r] = l
      /\ \A q \in Others(r) : pc'[q] = pc[q]
      /\ reply' \in [Requests -> Replies] /\ audit' \in [Requests -> SUBSET Events]
  BY <1>2, <1>3, <1>4, GotoEffect, ReplyEffect, LogEffect DEF TypeOK
<1>6. r \in held /\ Cleared(r) /\ GateInv(r)
  BY <1>1 DEF TypeOK, PInv, ChecksInv, Beyond
<1>7. LaterEffect(r)
  BY <1>1, <1>5, <1>6 DEF LaterEffect, TypeOK, Others
<1>8. Cleared(r)'
  BY <1>1, <1>6 DEF Cleared, NoBlock, Scanned, HasPrompt
<1>9. ChecksInv(r)' /\ GateInv(r)'
  BY <1>1, <1>5, <1>6, <1>8 DEF ChecksInv, GateInv, Before
<1>10. QED BY <1>1, <1>7, <1>9, LaterStep

-----------------------------------------------------------------------------
(* A reload *)

LEMMA ReloadStep ==
    ASSUME TypeOK, PInv, Reload
    PROVE  TypeOK' /\ PInv'
<1>1. PICK s \in Remote, applied \in SUBSET DOMAIN settings : ApplyRemoteSettings(s, applied)
  BY DEF Reload
<1>2. s \in Settings /\ settings \in Settings
  BY PipelineAssumption DEF TypeOK
<1>3. settings' \in Settings
  BY <1>1, <1>2 DEF ApplyRemoteSettings, Settings
<1>4. reloads' \in 0 .. MaxReloads
  BY <1>1, PipelineAssumption DEF ApplyRemoteSettings, TypeOK
<1>5. UNCHANGED <<input, sequence, verdict, clean, basis, exposed, pc, received, audit, reply,
                  held, authorised, released>>
  BY <1>1 DEF ApplyRemoteSettings, checkVars, gateVars
<1>6. TypeOK'
  BY <1>3, <1>4, <1>5 DEF TypeOK
<1>7. SUFFICES ASSUME NEW q \in Requests PROVE ChecksInv(q)' /\ GateInv(q)'
  BY <1>6 DEF PInv
<1>8. Untouched(q) /\ ChecksInv(q) /\ GateInv(q)
  BY <1>5 DEF Untouched, PInv
<1>9. QED BY <1>8, Elsewhere

-----------------------------------------------------------------------------
(* The theorems *)

LEMMA StepInv == TypeOK /\ PInv /\ [Next]_vars => TypeOK' /\ PInv'
<1> SUFFICES ASSUME TypeOK, PInv, [Next]_vars PROVE TypeOK' /\ PInv'
  OBVIOUS
<1>1. ASSUME NEW r \in Requests,
             Arrive(r) \/ Classify(r) \/ Policy(r) \/ Send(r) \/ Human(r)
      PROVE  TypeOK' /\ PInv'
  <2>1. CASE Arrive(r)
    BY <2>1, ArriveStep
  <2>2. CASE Classify(r)
    BY <2>2, ClassifyStep
  <2>3. CASE Policy(r)
    BY <2>3, PolicyStep
  <2>4. CASE Send(r)
    BY <2>4, AnswersStep, ThinkingStep, FailsStep DEF Send
  <2>5. CASE Human(r)
    BY <2>5, DecisionStep, ResumeStep DEF Human
  <2>6. QED BY <1>1, <2>1, <2>2, <2>3, <2>4, <2>5
<1>2. CASE Reload
  BY <1>2, ReloadStep
<1>3. CASE UNCHANGED vars
  BY <1>3 DEF vars, settingVars, checkVars, gateVars, TypeOK, PInv, ChecksInv, GateInv,
              NoBlock, Scanned, Cleared, HasPrompt
<1>4. QED BY <1>1, <1>2, <1>3 DEF Next

LEMMA InvHolds == Spec => [](TypeOK /\ PInv)
<1>1. Init => TypeOK /\ PInv
  BY InitInv
<1>2. TypeOK /\ PInv /\ [Next]_vars => (TypeOK /\ PInv)'
  BY StepInv
<1>3. QED BY <1>1, <1>2, PTL DEF Spec

\* Every variable of the pipeline keeps its type, whatever is pushed and answered.
THEOREM TypeCorrect == Spec => []TypeOK
BY InvHolds, PTL

\* A prompt reaches the provider only if the scanner and the Guardian let it pass
\* and no check said "block", however often the settings change in between.
THEOREM Checked == Spec => []CheckedBeforeForwarding
<1>1. TypeOK /\ PInv => CheckedBeforeForwarding
  BY DEF PInv, ChecksInv, Cleared, NoBlock, Scanned, Sound, CheckedBeforeForwarding, Reached
<1>2. QED BY <1>1, InvHolds, PTL

\* A paused request reaches the provider only by a resume that followed a human's
\* approval: the handler that paused it never forwards it.
THEOREM Released == Spec => []PausedUntilReleased
<1>1. TypeOK /\ PInv => PausedUntilReleased
  BY DEF PInv, GateInv, PausedUntilReleased, TypeOK
<1>2. QED BY <1>1, InvHolds, PTL

\* The pipeline drives the HITL gate only as ApprovalGate allows.
THEOREM UsesGate == Spec => UsesApprovalGate
<1>1. Init => Gate!Init
  BY DEF Init
<1>2. TypeOK /\ PInv /\ [Next]_vars => [Gate!Next]_(Gate!gateVars)
  <2> SUFFICES ASSUME TypeOK, PInv, [Next]_vars PROVE [Gate!Next]_(Gate!gateVars)
    OBVIOUS
  <2>1. ASSUME NEW r \in Requests, Policy(r) PROVE [Gate!Next]_(Gate!gateVars)
    BY <2>1 DEF Policy, ByocBlocks, LaterLayerBlocks, PolicyForwards, PolicyPauses,
                gateVars, Gate!gateVars, Gate!Next
  <2>2. ASSUME NEW r \in Requests, Human(r) PROVE [Gate!Next]_(Gate!gateVars)
    <3>1. CASE Approve(r)
      BY <3>1 DEF Approve, Gate!Next
    <3>2. CASE Withdraw(r)
      BY <3>2 DEF Withdraw, Gate!Next
    <3>3. CASE Resume(r)
      BY <3>3 DEF Resume, Resumable, Gate!Next, Gate!Release
    <3>4. QED BY <2>2, <3>1, <3>2, <3>3 DEF Human
  <2>3. CASE \/ UNCHANGED vars \/ Reload
             \/ \E r \in Requests : Arrive(r) \/ Classify(r) \/ Send(r)
    <3>1. UNCHANGED gateVars
      BY <2>3 DEF vars, Reload, ApplyRemoteSettings, Arrive, ArriveText, ArriveWithoutPrompt,
                  ArriveUnreadable, ArriveFrame, Classify, ScanEnds, GatherScan, GatherDone,
                  GuardianDecides, GatherGuardian, DetectorDecides, CheckFrame, Send,
                  ProviderAnswers, SendFails, StreamBreaks, ThinkingDecides, ResumeAnswers,
                  ResumeFails, SendFrame
    <3>2. QED BY <3>1 DEF gateVars, Gate!gateVars
  <2>4. QED BY <2>1, <2>2, <2>3 DEF Next
<1>3. QED BY <1>1, <1>2, InvHolds, PTL DEF Spec, UsesApprovalGate, Gate!Spec

-----------------------------------------------------------------------------
(***************************************************************************)
(* PromptRedacted.  Every way past the scanner sets `clean`, so a request   *)
(* whose last message matches a redact rule is clean wherever it can be     *)
(* sent, stored or resumed from; and in sequence B the Guardian is asked    *)
(* only afterwards.  The rest of the body is another matter: no invariant   *)
(* of the kind holds of it.                                                 *)
(***************************************************************************)
RedactInv(r) ==
    /\ pc[r] = "new" \/ sequence[r] = "B" => <<r, "prompt">> \notin exposed
    /\ pc[r] = "guardian" /\ sequence[r] # "A" => clean[r]
    /\ pc[r] \in Beyond /\ "redact" \in input[r].secrets => clean[r]
    /\ \A b \in received[r] : "redact" \notin b.raw

RInv == \A r \in Requests : RedactInv(r)

Unseen(q) ==
    /\ pc'[q] = pc[q] /\ input'[q] = input[q] /\ sequence'[q] = sequence[q]
    /\ clean'[q] = clean[q] /\ received'[q] = received[q]
    /\ <<q, "prompt">> \in exposed' <=> <<q, "prompt">> \in exposed

LEMMA RedactElsewhere ==
    ASSUME NEW q \in Requests, RedactInv(q), Unseen(q)
    PROVE  RedactInv(q)'
BY DEF RedactInv, Unseen

LEMMA RedactOne ==
    ASSUME NEW r \in Requests, RInv, RedactInv(r)', \A q \in Others(r) : Unseen(q)
    PROVE  RInv'
<1>1. SUFFICES ASSUME NEW q \in Requests PROVE RedactInv(q)'
  BY DEF RInv
<1>2. CASE q = r
  BY <1>2
<1>3. CASE q # r
  BY <1>3, RedactElsewhere DEF RInv, Others
<1>4. QED BY <1>2, <1>3

\* Where a handler goes.
LEMMA PlaceAfter ==
    ASSUME TypeOK, NEW r \in Requests, NEW l, Goto(r, l)
    PROVE  pc'[r] = l /\ \A q \in Others(r) : pc'[q] = pc[q]
BY DEF Goto, Others, TypeOK

\* A text that has been read is one the model exposes only if the scanner has not seen it.
LEMMA ReadsEffect ==
    ASSUME NEW r \in Requests, NEW s, NEW redacted \in BOOLEAN, GuardianReads(r, s, redacted)
    PROVE  /\ \A q \in Others(r) : <<q, "prompt">> \in exposed' <=> <<q, "prompt">> \in exposed
           /\ redacted => exposed' = exposed
BY DEF GuardianReads, Others

LEMMA RedactArrive ==
    ASSUME TypeOK, PInv, RInv, NEW r \in Requests, Arrive(r)
    PROVE  RInv'
<1>1. PICK i \in Inputs : \/ ArriveText(r, i) \/ ArriveWithoutPrompt(r, i)
                          \/ ArriveUnreadable(r, i)
  BY DEF Arrive
<1>2. /\ pc[r] = "new"
      /\ input' = [input EXCEPT ![r] = i]
      /\ UNCHANGED <<clean, received>>
  BY <1>1 DEF ArriveText, ArriveWithoutPrompt, ArriveUnreadable, ArriveFrame
<1>3. /\ input'[r] = i /\ \A q \in Others(r) : input'[q] = input[q]
      /\ received[r] = {} /\ <<r, "prompt">> \notin exposed
  BY <1>2 DEF TypeOK, Others, PInv, ChecksInv, Before, RInv, RedactInv
<1>4. CASE ArriveText(r, i)
  <2>1. PICK l \in {"guardian", "scan", "both"} :
           Goto(r, l) /\ (l = "guardian" => settings.sequence = "A")
    BY <1>4 DEF ArriveText, Pass, TypeOK, Settings, ScanSequences
  <2>2. /\ sequence'[r] = settings.sequence
        /\ \A q \in Others(r) : sequence'[q] = sequence[q]
    BY <1>4 DEF ArriveText, TypeOK, Others
  <2>3. /\ settings.sequence = "B" => exposed' = exposed
        /\ \A q \in Others(r) : <<q, "prompt">> \in exposed' <=> <<q, "prompt">> \in exposed
    BY <1>4, ReadsEffect DEF ArriveText
  <2>4. pc'[r] = l /\ \A q \in Others(r) : pc'[q] = pc[q]
    BY <2>1, PlaceAfter
  <2>5. RedactInv(r)'
    BY <1>2, <1>3, <2>1, <2>2, <2>3, <2>4 DEF RedactInv, Beyond
  <2>6. \A q \in Others(r) : Unseen(q)
    BY <1>2, <1>3, <2>2, <2>3, <2>4 DEF Unseen
  <2>7. QED BY <2>5, <2>6, RedactOne
<1>5. CASE ArriveWithoutPrompt(r, i) \/ ArriveUnreadable(r, i)
  <2>1. UNCHANGED <<sequence, exposed>>
    BY <1>5 DEF ArriveWithoutPrompt, ArriveUnreadable
  <2>2. PICK l \in {"tools", "policy", "done"} :
           Goto(r, l) /\ (l # "done" => i.prompt = "none")
    BY <1>5 DEF ArriveWithoutPrompt, ArriveUnreadable, Pass, Unclassified
  <2>3. pc'[r] = l /\ \A q \in Others(r) : pc'[q] = pc[q]
    BY <2>2, PlaceAfter
  <2>4. i.prompt = "none" => "redact" \notin i.secrets
    BY PipelineAssumption
  <2>5. RedactInv(r)'
    BY <1>2, <1>3, <2>1, <2>2, <2>3, <2>4 DEF RedactInv, Beyond
  <2>6. \A q \in Others(r) : Unseen(q)
    BY <1>2, <1>3, <2>1, <2>3 DEF Unseen
  <2>7. QED BY <2>5, <2>6, RedactOne
<1>6. QED BY <1>1, <1>4, <1>5

LEMMA UpdateEffect ==
    ASSUME TypeOK, NEW r \in Requests, UpdateBody(r)
    PROVE  clean'[r] /\ \A q \in Others(r) : clean'[q] = clean[q]
BY DEF UpdateBody, TypeOK, Others

\* The checks leave for the policy layers only with a clean body, or from one.
LEMMA RedactClassify ==
    ASSUME TypeOK, PInv, RInv, NEW r \in Requests, Classify(r)
    PROVE  RInv'
<1>1. /\ UNCHANGED <<input, sequence, received>>
      /\ pc[r] \in Classifying /\ RedactInv(r)
  BY DEF Classify, ScanEnds, GatherScan, GatherDone, GuardianDecides, GatherGuardian,
     DetectorDecides, CheckFrame, Classifying, RInv
<1>2. CASE \/ GatherScan(r) \/ \E a \in GuardianAnswers : GatherGuardian(r, a)
  <2>1. UNCHANGED <<pc, clean, exposed>>
    BY <1>2 DEF GatherScan, GatherGuardian
  <2>2. QED BY <1>1, <2>1, RedactElsewhere DEF RInv, Unseen
<1>3. CASE \E a \in GuardianAnswers : GuardianDecides(r, a)
  <2>1. /\ pc[r] = "guardian" /\ UNCHANGED <<clean, exposed>>
        /\ \E l \in {"done", "scan", "tools", "policy"} :
              Goto(r, l) /\ (l \in {"tools", "policy"} => sequence[r] # "A")
    BY <1>3, AfterChecksEffect DEF GuardianDecides, Block, Pass, Branch
  <2>2. PICK l \in {"done", "scan", "tools", "policy"} :
              Goto(r, l) /\ (l \in {"tools", "policy"} => sequence[r] # "A")
    BY <2>1
  <2>3. pc'[r] = l /\ \A q \in Others(r) : pc'[q] = pc[q]
    BY <2>2, PlaceAfter
  <2>4. RedactInv(r)' /\ \A q \in Others(r) : Unseen(q)
    BY <1>1, <2>1, <2>2, <2>3 DEF RedactInv, Unseen, Beyond
  <2>5. QED BY <2>4, RedactOne
<1>4. CASE ScanEnds(r) \/ GatherDone(r)
  <2>1. PICK l \in {"done", "guardian", "tools", "policy"} :
           Goto(r, l) /\ \/ l = "done" /\ UNCHANGED clean
                         \/ UpdateBody(r)
    BY <1>4, AfterChecksEffect DEF ScanEnds, GatherDone, Block, Pass
  <2>2. exposed' = exposed
    BY <1>4, ReadsEffect DEF ScanEnds, GatherDone
  <2>3. pc'[r] = l /\ \A q \in Others(r) : pc'[q] = pc[q]
    BY <2>1, PlaceAfter
  <2>4. l # "done" => clean'[r]
    BY <2>1, UpdateEffect
  <2>5. \A q \in Others(r) : clean'[q] = clean[q]
    BY <2>1, UpdateEffect
  <2>6. RedactInv(r)' /\ \A q \in Others(r) : Unseen(q)
    BY <1>1, <2>1, <2>2, <2>3, <2>4, <2>5 DEF RedactInv, Unseen, Beyond, Classifying
  <2>7. QED BY <2>6, RedactOne
<1>5. CASE \E a \in GuardianAnswers : DetectorDecides(r, a)
  <2>1. /\ pc[r] = "tools" /\ UNCHANGED clean
        /\ \A q \in Requests : <<q, "prompt">> \in exposed' <=> <<q, "prompt">> \in exposed
        /\ \E l \in {"done", "policy"} : Goto(r, l)
    BY <1>5 DEF DetectorDecides, Block
  <2>2. PICK l \in {"done", "policy"} : Goto(r, l)
    BY <2>1
  <2>3. pc'[r] = l /\ \A q \in Others(r) : pc'[q] = pc[q]
    BY <2>2, PlaceAfter
  <2>4. RedactInv(r)' /\ \A q \in Others(r) : Unseen(q)
    BY <1>1, <2>1, <2>3 DEF RedactInv, Unseen, Beyond, Others
  <2>5. QED BY <2>4, RedactOne
<1>6. QED BY <1>2, <1>3, <1>4, <1>5 DEF Classify

\* What is sent, at once or from the stored copy, is the body the checks have left.
LEMMA RedactLater ==
    ASSUME TypeOK, RInv, NEW r \in Requests, pc[r] \in Beyond,
           UNCHANGED <<input, sequence, clean, exposed>>,
           NEW l \in (Beyond \ {"tools", "policy"}) \cup {"done"}, Goto(r, l),
           UNCHANGED received \/ \E resumed \in BOOLEAN : ProviderGets(r, resumed)
    PROVE  RInv'
<1>1. pc'[r] = l /\ \A q \in Others(r) : pc'[q] = pc[q]
  BY PlaceAfter
<1>2. RedactInv(r)
  BY DEF RInv
<1>3. \A resumed \in BOOLEAN : "redact" \notin Body(r, resumed).raw
  BY <1>2 DEF RedactInv, Body
<1>4. /\ \A b \in received'[r] : "redact" \notin b.raw
      /\ \A q \in Others(r) : received'[q] = received[q]
  BY <1>2, <1>3 DEF ProviderGets, RedactInv, Others, TypeOK
<1>5. RedactInv(r)' /\ \A q \in Others(r) : Unseen(q)
  BY <1>1, <1>2, <1>4 DEF RedactInv, Unseen, Beyond
<1>6. QED BY <1>5, RedactOne

LEMMA RedactPolicy ==
    ASSUME TypeOK, RInv, NEW r \in Requests, Policy(r)
    PROVE  RInv'
<1>1. pc[r] = "policy" /\ UNCHANGED <<input, sequence, clean, exposed, received>>
  BY DEF Policy, ByocBlocks, LaterLayerBlocks, PolicyPauses, PolicyForwards, PolicyFrame
<1>2. PICK l \in {"done", "paused", "streaming", "send"} : Goto(r, l)
  BY DEF Policy, ByocBlocks, LaterLayerBlocks, PolicyPauses, PolicyForwards, Block
<1>3. QED BY <1>1, <1>2, RedactLater DEF Beyond

LEMMA RedactSend ==
    ASSUME TypeOK, RInv, NEW r \in Requests, Send(r)
    PROVE  RInv'
<1>1. UNCHANGED <<input, sequence, clean, exposed>>
  BY DEF Send, ProviderAnswers, SendFails, StreamBreaks, ThinkingDecides, ResumeAnswers,
     ResumeFails, SendFrame, checkVars
<1>2. pc[r] \in {"send", "thinking", "streaming", "resuming"}
  BY DEF Send, ProviderAnswers, SendFails, StreamBreaks, ThinkingDecides, ResumeAnswers, ResumeFails
<1>3. UNCHANGED received \/ \E resumed \in BOOLEAN : ProviderGets(r, resumed)
  BY DEF Send, ProviderAnswers, SendFails, StreamBreaks, ThinkingDecides, ResumeAnswers, ResumeFails
<1>4. PICK l \in {"thinking", "done", "paused"} : Goto(r, l)
  BY DEF Send, ProviderAnswers, SendFails, StreamBreaks, ThinkingDecides, ResumeAnswers,
     ResumeFails, Deliver
<1>5. QED BY <1>1, <1>2, <1>3, <1>4, RedactLater DEF Beyond

LEMMA RedactHuman ==
    ASSUME TypeOK, RInv, NEW r \in Requests, Human(r)
    PROVE  RInv'
<1>1. CASE Approve(r) \/ Withdraw(r)
  <2>1. UNCHANGED <<pc, input, sequence, clean, exposed, received>>
    BY <1>1 DEF Approve, Withdraw, HumanFrame, checkVars
  <2>2. QED BY <2>1, RedactElsewhere DEF RInv, Unseen
<1>2. CASE Resume(r)
  <2>1. pc[r] = "paused" /\ UNCHANGED <<input, sequence, clean, exposed, received>>
    BY <1>2 DEF Resume, Resumable, checkVars
  <2>2. PICK l \in {"streaming", "resuming"} : Goto(r, l)
    BY <1>2 DEF Resume
  <2>3. QED BY <2>1, <2>2, RedactLater DEF Beyond
<1>3. QED BY <1>1, <1>2 DEF Human

LEMMA RedactStep == TypeOK /\ PInv /\ RInv /\ [Next]_vars => RInv'
<1> SUFFICES ASSUME TypeOK, PInv, RInv, [Next]_vars PROVE RInv'
  OBVIOUS
<1>1. CASE Reload \/ UNCHANGED vars
  <2>1. UNCHANGED <<pc, input, sequence, clean, exposed, received>>
    BY <1>1 DEF Reload, ApplyRemoteSettings, checkVars, vars
  <2>2. QED BY <2>1, RedactElsewhere DEF RInv, Unseen
<1>2. QED BY <1>1, RedactArrive, RedactClassify, RedactPolicy, RedactSend, RedactHuman DEF Next

\* What a redact rule matches in the last message's content never reaches the provider,
\* at once or by a resume, and in sequence B not the Guardian's safety check either,
\* whatever is pushed while the request is under way.  (Nothing of the kind is true of
\* the other parts of the body.)
THEOREM PromptStaysIn == Spec => []PromptRedacted
<1>1. Init => RInv
  BY DEF Init, RInv, RedactInv, Beyond
<1>2. RInv => PromptRedacted
  BY DEF RInv, RedactInv, PromptRedacted
<1>3. QED BY <1>1, <1>2, RedactStep, InvHolds, PTL DEF Spec

-----------------------------------------------------------------------------
(***************************************************************************)
(* AnswersAreLogged.  Events are only added; every answer is given in the   *)
(* step that logs it, but for the answer to a resumed request, which has    *)
(* been logged as allowed when the resume began.                            *)
(***************************************************************************)
Logged(es, action) == \E e \in es : e[1] = action

LogInv(r) ==
    /\ reply[r] = "blocked" => Logged(audit[r], "block")
    /\ reply[r] = "paused" => Logged(audit[r], "pause")
    /\ reply[r] \in {"answer", "stream"} => Logged(audit[r], "allow")
    /\ pc[r] = "resuming" => Logged(audit[r], "allow")

AInv == \A r \in Requests : LogInv(r)

\* A step on r that goes to l, answers w and logs es says nothing it has not logged.
Justified(r, l, w, es) ==
    /\ \/ w = reply[r]
       \/ w = "blocked" /\ Logged(es, "block")
       \/ w = "paused" /\ Logged(es, "pause")
       \/ w \in {"answer", "stream"} /\ (Logged(es, "allow") \/ pc[r] = "resuming")
       \/ w \in {"badGateway", "error", "brokenStream"}
    /\ l = "resuming" => l = pc[r] \/ Logged(es, "allow")

Speaks(r) ==
    \E l, w, es : Goto(r, l) /\ Reply(r, w) /\ LogEvents(r, es) /\ Justified(r, l, w, es)

LEMMA SpeaksStep ==
    ASSUME TypeOK, AInv, NEW r \in Requests, Speaks(r)
    PROVE  AInv'
<1>1. PICK l, w, es : Goto(r, l) /\ Reply(r, w) /\ LogEvents(r, es) /\ Justified(r, l, w, es)
  BY DEF Speaks
<1>2. /\ pc'[r] = l /\ reply'[r] = w /\ audit'[r] = audit[r] \cup es
      /\ \A q \in Others(r) : pc'[q] = pc[q] /\ reply'[q] = reply[q] /\ audit'[q] = audit[q]
  BY <1>1 DEF Goto, Reply, LogEvents, Others, TypeOK
<1>3. \A action : Logged(audit[r], action) \/ Logged(es, action) => Logged(audit'[r], action)
  BY <1>2 DEF Logged
<1>4. LogInv(r)
  BY DEF AInv
<1>5. LogInv(r)'
  BY <1>1, <1>2, <1>3, <1>4 DEF Justified, LogInv
<1>6. \A q \in Others(r) : LogInv(q)'
  BY <1>2 DEF AInv, LogInv, Others
<1>7. QED BY <1>5, <1>6 DEF AInv, Others

\* Steps that answer nothing or log nothing.
LEMMA Silent ==
    ASSUME TypeOK, NEW r \in Requests
    PROVE  /\ UNCHANGED pc => Goto(r, pc[r])
           /\ UNCHANGED reply => Reply(r, reply[r])
           /\ UNCHANGED audit => LogEvents(r, {})
BY DEF TypeOK, Goto, Reply, LogEvents

LEMMA LogHas ==
    ASSUME NEW action, NEW c, NEW es
    PROVE  /\ Logged(es \cup {<<action, c>>}, action) /\ Logged({<<action, c>>}, action)
           /\ Logged({<<action, c>>} \cup es, action)
<1>1. <<action, c>>[1] = action
  OBVIOUS
<1>2. QED BY <1>1 DEF Logged

\* What a block or a passage to the next stage amounts to.
LEMMA BlockSpeaks ==
    ASSUME TypeOK, NEW r \in Requests, NEW c, Block(r, c)
    PROVE  Speaks(r)
<1> DEFINE es == {<<"block", c>>}
<1>1. Goto(r, "done") /\ Reply(r, "blocked") /\ LogEvents(r, es)
  BY DEF Block
<1>2. Logged(es, "block")
  BY LogHas
<1> HIDE DEF es
<1>3. QED BY <1>1, <1>2 DEF Speaks, Justified

LEMMA QuietSpeaks ==
    ASSUME TypeOK, NEW r \in Requests, NEW l, l # "resuming", Goto(r, l), UNCHANGED reply,
           NEW es, LogEvents(r, es)
    PROVE  Speaks(r)
BY Silent DEF Speaks, Justified

LEMMA PassSpeaks ==
    ASSUME TypeOK, NEW r \in Requests, NEW l, l # "resuming", Pass(r, l)
    PROVE  Speaks(r)
BY Silent, QuietSpeaks DEF Pass

LEMMA ArriveSpeaks ==
    ASSUME TypeOK, NEW r \in Requests, Arrive(r)
    PROVE  Speaks(r)
<1>1. PICK i \in Inputs : \/ ArriveText(r, i) \/ ArriveWithoutPrompt(r, i)
                          \/ ArriveUnreadable(r, i)
  BY DEF Arrive
<1>2. CASE ArriveText(r, i)
  <2>1. PICK l \in {"guardian", "scan", "both"} : Pass(r, l)
    BY <1>2 DEF ArriveText, TypeOK, Settings, ScanSequences
  <2>2. QED BY <2>1, PassSpeaks
<1>3. CASE ArriveWithoutPrompt(r, i)
  <2>1. PICK l \in {"tools", "policy"} : Pass(r, l)
    BY <1>3 DEF ArriveWithoutPrompt, Unclassified
  <2>2. QED BY <2>1, PassSpeaks
<1>4. CASE ArriveUnreadable(r, i)
  BY <1>4, Silent DEF ArriveUnreadable, Speaks, Justified
<1>5. QED BY <1>1, <1>2, <1>3, <1>4

LEMMA ClassifySpeaks ==
    ASSUME TypeOK, NEW r \in Requests, Classify(r)
    PROVE  Speaks(r)
<1>1. ASSUME UNCHANGED <<pc, reply, audit>> PROVE Speaks(r)
  BY <1>1, Silent DEF Speaks, Justified
<1>2. CASE \/ GatherScan(r) \/ \E a \in GuardianAnswers : GatherGuardian(r, a)
  BY <1>1, <1>2 DEF GatherScan, GatherGuardian
<1>3. CASE \/ ScanEnds(r) \/ GatherDone(r) \/ \E a \in GuardianAnswers : GuardianDecides(r, a)
  <2>1. \/ \E c : Block(r, c)
        \/ \E l \in {"scan", "guardian", "tools", "policy"} : Pass(r, l)
    BY <1>3, AfterChecksEffect DEF ScanEnds, GatherDone, GuardianDecides, Branch
  <2>2. QED BY <2>1, BlockSpeaks, PassSpeaks
<1>4. CASE \E a \in GuardianAnswers : DetectorDecides(r, a)
  <2>1. \/ Block(r, "function_call_detector")
        \/ \E es : Goto(r, "policy") /\ LogEvents(r, es) /\ UNCHANGED reply
    BY <1>4 DEF DetectorDecides
  <2>2. QED BY <2>1, BlockSpeaks, QuietSpeaks
<1>5. QED BY <1>2, <1>3, <1>4 DEF Classify

LEMMA PolicySpeaks ==
    ASSUME TypeOK, NEW r \in Requests, Policy(r)
    PROVE  Speaks(r)
<1>1. CASE ByocBlocks(r)
  BY <1>1, BlockSpeaks DEF ByocBlocks
<1>2. CASE \E c \in {"schema_validator", "agency_controller"} : LaterLayerBlocks(r, c)
  <2>1. PICK c, v : /\ LogEvents(r, ByocEvents(v) \cup {<<"block", c>>})
                    /\ Goto(r, "done") /\ Reply(r, "blocked")
    BY <1>2 DEF LaterLayerBlocks
  <2>2. Logged(ByocEvents(v) \cup {<<"block", c>>}, "block")
    BY LogHas
  <2>3. QED BY <2>1, <2>2 DEF Speaks, Justified
<1>3. CASE \E c \in {"agency_controller", "hitl_gate"} : PolicyPauses(r, c)
  <2>1. PICK c, v : /\ LogEvents(r, ByocEvents(v) \cup {<<"pause", c>>})
                    /\ Goto(r, "paused") /\ Reply(r, "paused")
    BY <1>3 DEF PolicyPauses
  <2>2. Logged(ByocEvents(v) \cup {<<"pause", c>>}, "pause")
    BY LogHas
  <2>3. QED BY <2>1, <2>2 DEF Speaks, Justified
<1>4. CASE PolicyForwards(r)
  <2>1. PICK v : LogEvents(r, ByocEvents(v) \cup WarnEvents(r)
                          \cup IF input[r].stream THEN {<<"allow", "proxy">>} ELSE {})
    BY <1>4 DEF PolicyForwards
  <2>2. CASE input[r].stream
    <3>1. /\ LogEvents(r, (ByocEvents(v) \cup WarnEvents(r)) \cup {<<"allow", "proxy">>})
          /\ Goto(r, "streaming") /\ Reply(r, "stream")
      BY <1>4, <2>1, <2>2 DEF PolicyForwards
    <3>2. Logged((ByocEvents(v) \cup WarnEvents(r)) \cup {<<"allow", "proxy">>}, "allow")
      BY LogHas
    <3>3. QED BY <3>1, <3>2 DEF Speaks, Justified
  <2>3. CASE ~input[r].stream
    BY <1>4, <2>1, <2>3, QuietSpeaks DEF PolicyForwards
  <2>4. QED BY <2>2, <2>3
<1>5. QED BY <1>1, <1>2, <1>3, <1>4 DEF Policy

LEMMA DeliverSpeaks ==
    ASSUME TypeOK, NEW r \in Requests, NEW c, NEW es, Deliver(r, c, es)
    PROVE  Speaks(r)
<1>1. \/ \E w : Reply(r, "answer") /\ LogEvents(r, es \cup w \cup {<<"allow", c>>})
      \/ Reply(r, "blocked") /\ LogEvents(r, es \cup {<<"block", "output_control">>})
  BY DEF Deliver
<1>2. Goto(r, "done")
  BY DEF Deliver
<1>3. CASE Reply(r, "blocked") /\ LogEvents(r, es \cup {<<"block", "output_control">>})
  <2>1. Logged(es \cup {<<"block", "output_control">>}, "block")
    BY LogHas
  <2>2. QED BY <1>2, <1>3, <2>1 DEF Speaks, Justified
<1>4. CASE \E w : Reply(r, "answer") /\ LogEvents(r, es \cup w \cup {<<"allow", c>>})
  <2>1. PICK w : Reply(r, "answer") /\ LogEvents(r, es \cup w \cup {<<"allow", c>>})
    BY <1>4
  <2>2. Logged(es \cup w \cup {<<"allow", c>>}, "allow")
    BY LogHas
  <2>3. QED BY <1>2, <2>1, <2>2 DEF Speaks, Justified
<1>5. QED BY <1>1, <1>3, <1>4

LEMMA SendSpeaks ==
    ASSUME TypeOK, NEW r \in Requests, Send(r)
    PROVE  Speaks(r)
<1>1. CASE ProviderAnswers(r)
  <2>1. \/ \E w : Goto(r, "thinking") /\ LogEvents(r, w) /\ UNCHANGED reply
        \/ \E w : Deliver(r, "proxy", w)
    BY <1>1 DEF ProviderAnswers
  <2>2. QED BY <2>1, QuietSpeaks, DeliverSpeaks
<1>2. CASE \E a \in GuardianAnswers : ThinkingDecides(r, a)
  <2>1. \E c, es : Deliver(r, c, es)
    BY <1>2 DEF ThinkingDecides
  <2>2. QED BY <2>1, DeliverSpeaks
<1>3. CASE SendFails(r) \/ StreamBreaks(r) \/ ResumeFails(r)
  <2>1. PICK l \in {"done", "paused"}, w \in {"badGateway", "error", "brokenStream"} :
           Goto(r, l) /\ Reply(r, w) /\ UNCHANGED audit
    BY <1>3 DEF SendFails, StreamBreaks, ResumeFails
  <2>2. QED BY <2>1, Silent DEF Speaks, Justified
<1>4. CASE ResumeAnswers(r)
  BY <1>4, Silent DEF ResumeAnswers, Speaks, Justified
<1>5. QED BY <1>1, <1>2, <1>3, <1>4 DEF Send

LEMMA LogStep == TypeOK /\ AInv /\ [Next]_vars => AInv'
<1> SUFFICES ASSUME TypeOK, AInv, [Next]_vars PROVE AInv'
  OBVIOUS
<1>1. ASSUME NEW r \in Requests, Arrive(r) \/ Classify(r) \/ Policy(r) \/ Send(r) PROVE AInv'
  BY <1>1, ArriveSpeaks, ClassifySpeaks, PolicySpeaks, SendSpeaks, SpeaksStep
<1>2. ASSUME NEW r \in Requests, Resume(r) PROVE AInv'
  <2>1. Logged({<<"allow", "hitl_gate">>}, "allow")
    BY LogHas
  <2>2. \E l, w : Goto(r, l) /\ Reply(r, w) /\ w \in {"stream", reply[r]}
    BY <1>2, Silent DEF Resume
  <2>3. Speaks(r)
    BY <1>2, <2>1, <2>2 DEF Resume, Speaks, Justified
  <2>4. QED BY <2>3, SpeaksStep
<1>3. CASE UNCHANGED <<pc, reply, audit>>
  BY <1>3 DEF AInv, LogInv
<1>4. ASSUME NEW r \in Requests, Approve(r) \/ Withdraw(r) PROVE UNCHANGED <<pc, reply, audit>>
  BY <1>4 DEF Approve, Withdraw, HumanFrame
<1>5. CASE Reload \/ UNCHANGED vars
  BY <1>3, <1>5 DEF Reload, ApplyRemoteSettings, vars
<1>6. QED BY <1>1, <1>2, <1>3, <1>4, <1>5 DEF Next, Human

\* Whatever fails on the way, a client that is told of a block, a pause or an answer has an
\* event of that kind among those logged of its request.
THEOREM AnswersOnRecord == Spec => []AnswersAreLogged
<1>1. Init => AInv
  BY DEF Init, AInv, LogInv
<1>2. AInv => AnswersAreLogged
  BY DEF AInv, LogInv, Logged, AnswersAreLogged
<1>3. QED BY <1>1, <1>2, LogStep, InvHolds, PTL DEF Spec
=============================================================================
