------------------------------ MODULE Pipeline ------------------------------
(***************************************************************************)
(* The gateway's request path (LLMProxy): a request goes through the PII    *)
(* scanner and the Guardian in the order the setting scan_sequence says,    *)
(* the function-call detector, the policy layers (BYOC, schema validator,   *)
(* agency controller, HITL gate), the LLM provider, and the response        *)
(* checks.  Settings are hot-reloaded while requests are under way, and a   *)
(* paused request is re-sent from its stored copy once a human approves it. *)
(*                                                                         *)
(* Between two awaits the handler is atomic.  Awaits are the Guardian's     *)
(* calls, the scan (a thread), the call to the provider: those are steps.   *)
(* The audit calls never suspend (put_nowait).  What rules decide about     *)
(* the text of a request is a choice; the gate is ApprovalGate, which Hitl  *)
(* implements.                                                             *)
(***************************************************************************)
EXTENDS Naturals, FiniteSets

CONSTANTS
    Requests,      \* client requests
    Inputs,        \* what a client may send, a set of Input records
    Starts,        \* settings records the gateway may start with
    Remote,        \* settings records the dashboard may push
    BlockAll,      \* EMERGENCY_FILTER_BLOCK_ALL
    NoInput,       \* sentinel: nothing received yet
    MaxReloads     \* bound: settings reloads

\* prompt: the content of the last message: "text", "none" (no messages, or an empty
\* content) or "unreadable" (a list of content blocks).  secrets: the actions of the
\* scan rules it matches.  unscanned: where else in the body a rule would find
\* something, had it been asked: in tool calls, or in other messages, the system prompt
\* and parameters.  tools: it carries tool calls should_check() selects.  think:
\* should_run() holds for its provenance and action.
Actions == {"block", "warn", "redact"}
Input == [prompt    : {"text", "none", "unreadable"},
          secrets   : SUBSET Actions,
          unscanned : SUBSET {"toolCalls", "elsewhere"},
          tools     : BOOLEAN,
          stream    : BOOLEAN,
          think     : BOOLEAN]

ScanSequences == {"A", "B", "C"}
Strategies == {"block", "allow", "warn", "fallback"}

Settings == [sequence     : ScanSequences,
             blockMode    : {"block", "warn", "ignore"},
             failStrategy : Strategies]

ASSUME PipelineAssumption ==
    /\ Inputs \subseteq {i \in Input : i.prompt = "none" => i.secrets = {}}
    /\ Starts \subseteq Settings
    /\ Remote \subseteq {s \in Settings : s.blockMode # "ignore"}
    /\ NoInput \notin Input
    /\ BlockAll \in BOOLEAN /\ MaxReloads \in Nat

VARIABLES
    settings,    \* the attributes of proxy_engine, scanner and guardian
    reloads,     \* history: reloads so far
    pc,          \* where the handler of a request is
    input,       \* the request
    sequence,    \* the branch of forward_request() it took
    verdict,     \* the decisions of the checks so far
    clean,       \* the last message of current_content holds the scanner's text
    basis,       \* history: what the Guardian's verdict rests on
    exposed,     \* history: what the Guardian got with an unredacted secret in it
    received,    \* history: what reached the provider
    audit,       \* history: events logged, <<action, component>>
    reply,       \* the last answer the client got
    held, authorised, released      \* the HITL gate, see ApprovalGate

settingVars == <<settings, reloads>>
checkVars == <<input, sequence, verdict, clean, basis, exposed>>
gateVars == <<held, authorised, released>>
vars == <<settingVars, checkVars, pc, received, audit, reply, gateVars>>

Gate == INSTANCE ApprovalGate

-----------------------------------------------------------------------------
Checks == {"guardian", "scanner", "tools", "byoc"}
Decisions == {"none", "allow", "warn", "block"}
Components == {"guardian", "pii_scanner", "function_call_detector", "byoc_engine",
               "schema_validator", "agency_controller", "hitl_gate", "proxy",
               "ingestion_sanitizer", "thinking_mode_verifier", "output_control"}
Events == {"allow", "warn", "block", "pause"} \X Components
Exposures == Requests \X {"prompt", "toolCalls"}
Bodies == [raw : SUBSET Actions, unscanned : BOOLEAN, tagged : BOOLEAN, resumed : BOOLEAN]
Labels == {"new", "guardian", "scan", "both", "tools", "policy", "send", "thinking",
           "streaming", "paused", "resuming", "done"}
Replies == {"none", "blocked", "paused", "answer", "stream", "badGateway", "error",
            "brokenStream"}

\* Every variable holds a value the code could put there.
TypeOK ==
    /\ settings \in Settings
    /\ reloads \in 0 .. MaxReloads
    /\ pc \in [Requests -> Labels]
    /\ input \in [Requests -> Inputs \cup {NoInput}]
    /\ \A r \in Requests : pc[r] # "new" => input[r] # NoInput
    /\ sequence \in [Requests -> ScanSequences]
    /\ verdict \in [Requests -> [Checks -> Decisions]]
    /\ clean \in [Requests -> BOOLEAN]
    /\ basis \in [Requests -> {"none", "yes", "no"} \cup Strategies]
    /\ exposed \subseteq Exposures
    /\ received \in [Requests -> SUBSET Bodies]
    /\ audit \in [Requests -> SUBSET Events]
    /\ reply \in [Requests -> Replies]
    /\ held \subseteq Requests
    /\ authorised \subseteq held /\ released \subseteq held

Init ==
    /\ settings \in Starts
    /\ reloads = 0
    /\ pc = [r \in Requests |-> "new"]
    /\ input = [r \in Requests |-> NoInput]
    /\ sequence = [r \in Requests |-> "B"]
    /\ verdict = [r \in Requests |-> [c \in Checks |-> "none"]]
    /\ clean = [r \in Requests |-> FALSE]
    /\ basis = [r \in Requests |-> "none"]
    /\ exposed = {}
    /\ received = [r \in Requests |-> {}]
    /\ audit = [r \in Requests |-> {}]
    /\ reply = [r \in Requests |-> "none"]
    /\ Gate!Init

-----------------------------------------------------------------------------
(* What the checks compute *)

\* scan_text(): a block rule counts as the block_mode of the moment says; redact
\* rules do not change the decision.
Scan(r) ==
    LET secrets == input[r].secrets
    IN CASE "block" \in secrets /\ settings.blockMode = "block" -> "block"
         [] \/ "warn" \in secrets
            \/ "block" \in secrets /\ settings.blockMode = "warn" -> "warn"
         [] OTHER -> "allow"

\* _handle_failure(), with the strategy of the moment.  The fallback asks the
\* scanner about the same text and looks for a block only.
OnFailure(scanned) ==
    CASE settings.failStrategy = "block" -> "block"
      [] settings.failStrategy = "allow" -> "allow"
      [] settings.failStrategy = "warn"  -> "warn"
      [] settings.failStrategy = "fallback" ->
             IF BlockAll \/ scanned = "block" THEN "block" ELSE "allow"

\* check_safety(): the answer is "yes", "no", or "failed" (no connection, a
\* timeout, a status other than 200, a score that cannot be parsed).
CheckSafety(a, scanned) ==
    CASE a = "yes" -> "allow"
      [] a = "no"  -> "block"
      [] a = "failed" -> OnFailure(scanned)

GuardianAnswers == {"yes", "no", "failed"}

Basis(a) == IF a = "failed" THEN settings.failStrategy ELSE a

\* The text the Guardian reads has been redacted, or not.
GuardianReads(r, secrets, redacted) ==
    exposed' = IF "redact" \in secrets /\ ~redacted
               THEN exposed \cup {<<r, "prompt">>} ELSE exposed

\* _update_body_prompt() puts the scanner's text into the last message and leaves the
\* rest of the body as it came.  Mutant: sequence C forgets it.
UpdateBody_NotInC(r) ==
    clean' = IF sequence[r] = "C" THEN clean ELSE [clean EXCEPT ![r] = TRUE]
UpdateBody(r) == clean' = [clean EXCEPT ![r] = TRUE]

\* Mutant of Branch: the setting is read again after an await.
Branch_Reread(r) == settings.sequence

\* The branch taken on arrival stays taken.
Branch(r) == sequence[r]

\* The detector runs next, or the layers behind it.
Unclassified(i) == IF i.tools THEN "tools" ELSE "policy"
AfterChecks(r) == Unclassified(input[r])

Goto(r, label) == pc' = [pc EXCEPT ![r] = label]
Reply(r, what) == reply' = [reply EXCEPT ![r] = what]
LogEvents(r, events) == audit' = [audit EXCEPT ![r] = @ \cup events]
Decide(r, c, v) == verdict' = [verdict EXCEPT ![r][c] = v]

\* Mutant of Block: no audit event.
Block_Unlogged(r, component) == Goto(r, "done") /\ Reply(r, "blocked") /\ UNCHANGED audit

\* generate_block_response() after the audit event.
Block(r, component) ==
    /\ Goto(r, "done")
    /\ Reply(r, "blocked")
    /\ LogEvents(r, {<<"block", component>>})

\* On to the next stage, nothing logged.
Pass(r, label) == Goto(r, label) /\ UNCHANGED <<reply, audit>>

-----------------------------------------------------------------------------
(* A request arrives *)

ArriveFrame == UNCHANGED <<settingVars, verdict, clean, basis, received, gateVars>>

\* The setting is read once; A and C start with the Guardian, who gets the raw
\* prompt, B and C with the scanner.
ArriveText(r, i) ==
    /\ pc[r] = "new" /\ i.prompt = "text"
    /\ input' = [input EXCEPT ![r] = i]
    /\ sequence' = [sequence EXCEPT ![r] = settings.sequence]
    /\ Pass(r, CASE settings.sequence = "A" -> "guardian"
                 [] settings.sequence = "B" -> "scan"
                 [] settings.sequence = "C" -> "both")
    /\ IF settings.sequence = "B" THEN UNCHANGED exposed
                                  ELSE GuardianReads(r, i.secrets, FALSE)
    /\ ArriveFrame

\* "if prompt:" is false: neither the scanner nor the Guardian is asked.
ArriveWithoutPrompt(r, i) ==
    /\ pc[r] = "new" /\ i.prompt = "none"
    /\ input' = [input EXCEPT ![r] = i]
    /\ Pass(r, Unclassified(i))
    /\ UNCHANGED <<sequence, exposed>>
    /\ ArriveFrame

\* prompt.encode() raises outside every try block.
ArriveUnreadable(r, i) ==
    /\ pc[r] = "new" /\ i.prompt = "unreadable"
    /\ input' = [input EXCEPT ![r] = i]
    /\ Goto(r, "done") /\ Reply(r, "error")
    /\ UNCHANGED <<sequence, exposed, audit>>
    /\ ArriveFrame

-----------------------------------------------------------------------------
(* Layers 1 and 2: the scanner and the Guardian *)

CheckFrame == UNCHANGED <<settingVars, input, sequence, received, gateVars>>

\* Sequences A and B: the Guardian's answer arrives, or its call fails.
GuardianDecides(r, a) ==
    /\ pc[r] = "guardian"
    /\ LET v == CheckSafety(a, Scan(r))
       IN /\ Decide(r, "guardian", v)
          /\ IF v = "block" THEN Block(r, "guardian")
             ELSE Pass(r, IF Branch(r) = "A" THEN "scan" ELSE AfterChecks(r))
    /\ basis' = [basis EXCEPT ![r] = Basis(a)]
    /\ UNCHANGED <<clean, exposed>>
    /\ CheckFrame

\* Sequences A and B: the thread ends.  In B the redacted text is what the
\* Guardian reads.
ScanEnds(r) ==
    /\ pc[r] = "scan"
    /\ LET v == Scan(r)
       IN /\ Decide(r, "scanner", v)
          /\ IF v = "block"
             THEN Block(r, "pii_scanner") /\ UNCHANGED <<clean, exposed>>
             ELSE /\ UpdateBody(r)
                  /\ IF Branch(r) = "A"
                     THEN Pass(r, AfterChecks(r)) /\ UNCHANGED exposed
                     ELSE /\ Pass(r, "guardian")
                          /\ GuardianReads(r, input[r].secrets, TRUE)
    /\ UNCHANGED basis
    /\ CheckFrame

\* Sequence C: one of the two gathered calls ends.
GatherGuardian(r, a) ==
    /\ pc[r] = "both" /\ verdict[r]["guardian"] = "none"
    /\ Decide(r, "guardian", CheckSafety(a, Scan(r)))
    /\ basis' = [basis EXCEPT ![r] = Basis(a)]
    /\ UNCHANGED <<pc, clean, exposed, reply, audit>>
    /\ CheckFrame

GatherScan(r) ==
    /\ pc[r] = "both" /\ verdict[r]["scanner"] = "none"
    /\ Decide(r, "scanner", Scan(r))
    /\ UNCHANGED <<pc, clean, basis, exposed, reply, audit>>
    /\ CheckFrame

\* Mutant of GatherDone: a warning is not waited for.
GatherDone_AllowsOnly(r) ==
    /\ pc[r] = "both"
    /\ verdict[r]["guardian"] \in {"allow", "block"}
    /\ verdict[r]["scanner"] \in {"allow", "block"}
    /\ IF verdict[r]["guardian"] = "block" THEN Block(r, "guardian") /\ UNCHANGED clean
       ELSE IF verdict[r]["scanner"] = "block"
       THEN Block(r, "pii_scanner") /\ UNCHANGED clean
       ELSE UpdateBody(r) /\ Pass(r, AfterChecks(r))
    /\ UNCHANGED <<verdict, basis, exposed>>
    /\ CheckFrame

\* Both have ended: the Guardian's block is reported before the scanner's.
GatherDone(r) ==
    /\ pc[r] = "both"
    /\ verdict[r]["guardian"] # "none" /\ verdict[r]["scanner"] # "none"
    /\ IF verdict[r]["guardian"] = "block" THEN Block(r, "guardian") /\ UNCHANGED clean
       ELSE IF verdict[r]["scanner"] = "block"
       THEN Block(r, "pii_scanner") /\ UNCHANGED clean
       ELSE UpdateBody(r) /\ Pass(r, AfterChecks(r))
    /\ UNCHANGED <<verdict, basis, exposed>>
    /\ CheckFrame

\* Layer 3.5: the same Guardian judges the tool calls, as they came; the fallback may
\* or may not find a secret in their text.  A warning is logged and nothing else.
DetectorDecides(r, a) ==
    /\ pc[r] = "tools"
    /\ \E scanned \in {"allow", "block"} :
          LET v == CheckSafety(a, scanned)
          IN /\ scanned = "block" => settings.blockMode = "block"
             /\ Decide(r, "tools", v)
             /\ IF v = "block" THEN Block(r, "function_call_detector")
                ELSE /\ Goto(r, "policy")
                     /\ LogEvents(r, IF v = "warn"
                                     THEN {<<"warn", "function_call_detector">>} ELSE {})
                     /\ UNCHANGED reply
    /\ exposed' = exposed \cup IF "toolCalls" \in input[r].unscanned
                              THEN {<<r, "toolCalls">>} ELSE {}
    /\ UNCHANGED <<clean, basis>>
    /\ CheckFrame

-----------------------------------------------------------------------------
(* The policy layers.  No await separates them from what precedes or follows *)

HasPrompt(r) == input[r].prompt = "text"

\* What BYOC may say short of a block.
ByocPasses(r) == IF HasPrompt(r) THEN {"allow", "warn"} ELSE {"none"}

ByocEvents(v) == IF v = "warn" THEN {<<"warn", "byoc_engine">>} ELSE {}

PolicyFrame == UNCHANGED <<settingVars, input, sequence, clean, basis, exposed, received>>

ByocBlocks(r) ==
    /\ pc[r] = "policy" /\ HasPrompt(r)
    /\ Decide(r, "byoc", "block")
    /\ Block(r, "byoc_engine")
    /\ UNCHANGED gateVars
    /\ PolicyFrame

\* The schema validator looks at the body, with or without a prompt; the agency
\* controller (depth, chain) needs one.  A BYOC warning has been logged before.
LaterLayerBlocks(r, component) ==
    /\ pc[r] = "policy"
    /\ component = "agency_controller" => HasPrompt(r)
    /\ \E v \in ByocPasses(r) :
          /\ Decide(r, "byoc", v)
          /\ LogEvents(r, ByocEvents(v) \cup {<<"block", component>>})
    /\ Goto(r, "done") /\ Reply(r, "blocked")
    /\ UNCHANGED gateVars
    /\ PolicyFrame

\* Mutant of PolicyPauses: the 202 is sent, but the handler goes on.
PolicyPauses_GoesOn(r, component) ==
    /\ pc[r] = "policy" /\ HasPrompt(r)
    /\ \E v \in ByocPasses(r) :
          /\ Decide(r, "byoc", v)
          /\ LogEvents(r, ByocEvents(v) \cup {<<"pause", component>>})
    /\ Goto(r, "send") /\ Reply(r, "paused")
    /\ Gate!Hold(r)
    /\ PolicyFrame

\* The agency controller wants an approval, or a HITL rule matches: the request
\* is stored with current_content as its body and the original headers.
PolicyPauses(r, component) ==
    /\ pc[r] = "policy" /\ HasPrompt(r)
    /\ \E v \in ByocPasses(r) :
          /\ Decide(r, "byoc", v)
          /\ LogEvents(r, ByocEvents(v) \cup {<<"pause", component>>})
    /\ Goto(r, "paused") /\ Reply(r, "paused")
    /\ Gate!Hold(r)
    /\ PolicyFrame

\* Guardian and scanner warnings are logged one or the other.
WarnEvents(r) ==
    IF verdict[r]["guardian"] = "warn" THEN {<<"warn", "guardian">>}
    ELSE IF verdict[r]["scanner"] = "warn" THEN {<<"warn", "pii_scanner">>} ELSE {}

\* A streaming request is answered and logged as allowed at once, before the
\* provider is called.
PolicyForwards(r) ==
    /\ pc[r] = "policy"
    /\ \E v \in ByocPasses(r) :
          /\ Decide(r, "byoc", v)
          /\ LogEvents(r, ByocEvents(v) \cup WarnEvents(r)
                          \cup IF input[r].stream THEN {<<"allow", "proxy">>} ELSE {})
    /\ IF input[r].stream THEN Goto(r, "streaming") /\ Reply(r, "stream")
                          ELSE Goto(r, "send") /\ UNCHANGED reply
    /\ UNCHANGED gateVars
    /\ PolicyFrame

-----------------------------------------------------------------------------
(* The provider and the response checks *)

SendFrame == UNCHANGED <<settingVars, checkVars, gateVars>>

\* final_decision: the detector's warning is not part of it.
FinalWarning(r) == \E c \in {"guardian", "scanner", "byoc"} : verdict[r][c] = "warn"

\* What the provider gets: the body, and X-Guard-Status if the headers were
\* prepared.  raw: the rules whose matches are in the last message as they came; only
\* what a redact rule matches is ever replaced there.  unscanned: secrets are elsewhere
\* in the body, which no check has changed.  A resumed request carries the client's own
\* headers.
Body(r, resumed) ==
    [raw       |-> IF clean[r] THEN input[r].secrets \ {"redact"} ELSE input[r].secrets,
     unscanned |-> input[r].unscanned # {},
     tagged    |-> ~resumed /\ FinalWarning(r),
     resumed   |-> resumed]

ProviderGets(r, resumed) ==
    received' = [received EXCEPT ![r] = @ \cup {Body(r, resumed)}]

\* Output control ends the response checks: it blocks, changes or keeps the
\* response.  component is what the final event names.
Deliver(r, component, events) ==
    /\ Goto(r, "done")
    /\ \/ /\ Reply(r, "answer")
          /\ \E w \in SUBSET {<<"warn", "output_control">>} :
                LogEvents(r, events \cup w \cup {<<"allow", component>>})
       \/ /\ Reply(r, "blocked")
          /\ LogEvents(r, events \cup {<<"block", "output_control">>})

\* The response arrives and is sanitized; thinking mode is skipped or asked.
ProviderAnswers(r) ==
    /\ pc[r] = "send"
    /\ ProviderGets(r, FALSE)
    /\ \E w \in SUBSET {<<"warn", "ingestion_sanitizer">>} :
          IF input[r].think
          THEN Goto(r, "thinking") /\ LogEvents(r, w) /\ UNCHANGED reply
          ELSE Deliver(r, "proxy", w)
    /\ SendFrame

\* Thinking mode is advisory; whatever it says, output control follows.
ThinkingDecides(r, a) ==
    /\ pc[r] = "thinking"
    /\ \E scanned \in {"allow", "block"} :
          /\ scanned = "block" => settings.blockMode = "block"
          /\ CASE CheckSafety(a, scanned) = "block" ->
                     Deliver(r, "thinking_mode_verifier", {<<"warn", "thinking_mode_verifier">>})
               [] CheckSafety(a, scanned) = "warn" ->
                     Deliver(r, "proxy", {<<"warn", "thinking_mode_verifier">>})
               [] OTHER ->
                     Deliver(r, "proxy", {<<"allow", "thinking_mode_verifier">>})
    /\ UNCHANGED received
    /\ SendFrame

\* httpx.RequestError, before or after the provider got the request (502), or an
\* unexpected error while the response is handled (500): nothing is logged.
SendFails(r) ==
    /\ pc[r] = "send"
    /\ Goto(r, "done")
    /\ \/ Reply(r, "badGateway") /\ UNCHANGED received
       \/ \E what \in {"badGateway", "error"} : Reply(r, what) /\ ProviderGets(r, FALSE)
    /\ UNCHANGED audit
    /\ SendFrame

\* The generator calls client.stream() with one argument instead of two: it
\* raises after the response has been started, and nothing is sent.
StreamBreaks(r) ==
    /\ pc[r] = "streaming"
    /\ Goto(r, IF r \in held THEN "paused" ELSE "done")
    /\ Reply(r, "brokenStream")
    /\ UNCHANGED <<received, audit>>
    /\ SendFrame

-----------------------------------------------------------------------------
(* The HITL gate, and resuming a paused request *)

HumanFrame == UNCHANGED <<settingVars, checkVars, pc, received, audit, reply>>

Approve(r) == Gate!Authorise(r) /\ HumanFrame

\* A denial, or anything else that ends an approval.
Withdraw(r) == r \in held /\ Gate!Withdraw({r}) /\ HumanFrame

Resumable(r) == pc[r] = "paused" /\ r \in authorised

\* forward_stored_request(): logged as allowed first; every check is skipped,
\* those of the response too.
Resume(r) ==
    /\ Resumable(r)
    /\ released' = released \cup {r} /\ UNCHANGED <<held, authorised>>
    /\ LogEvents(r, {<<"allow", "hitl_gate">>})
    /\ IF input[r].stream THEN Goto(r, "streaming") /\ Reply(r, "stream")
                          ELSE Goto(r, "resuming") /\ UNCHANGED reply
    /\ UNCHANGED <<settingVars, checkVars, received>>

ResumeAnswers(r) ==
    /\ pc[r] = "resuming"
    /\ ProviderGets(r, TRUE)
    /\ Goto(r, "paused") /\ Reply(r, "answer")
    /\ UNCHANGED audit
    /\ SendFrame

ResumeFails(r) ==
    /\ pc[r] = "resuming"
    /\ Goto(r, "paused") /\ Reply(r, "badGateway")
    /\ ProviderGets(r, TRUE) \/ UNCHANGED received
    /\ UNCHANGED audit
    /\ SendFrame

-----------------------------------------------------------------------------
(* Settings *)

\* Mutant of ApplyRemoteSettings: the block mode is not validated.
ApplyRemoteSettings_Unvalidated(s, applied) ==
    /\ reloads < MaxReloads
    /\ reloads' = reloads + 1
    /\ settings' = [settings EXCEPT !.blockMode = "hard_block"]
    /\ UNCHANGED <<checkVars, pc, received, audit, reply, gateVars>>

\* _apply_remote_settings(): the keys that are present and valid are applied; a
\* bad hitl_timeout raises between the scanner's and the Guardian's.
ApplyRemoteSettings(s, applied) ==
    /\ reloads < MaxReloads
    /\ reloads' = reloads + 1
    /\ settings' = [k \in DOMAIN settings |-> IF k \in applied THEN s[k] ELSE settings[k]]
    /\ UNCHANGED <<checkVars, pc, received, audit, reply, gateVars>>

-----------------------------------------------------------------------------
Arrive(r) == \E i \in Inputs : \/ ArriveText(r, i) \/ ArriveWithoutPrompt(r, i)
                               \/ ArriveUnreadable(r, i)

Classify(r) == \/ ScanEnds(r) \/ GatherScan(r) \/ GatherDone(r)
               \/ \E a \in GuardianAnswers : \/ GuardianDecides(r, a)
                                             \/ GatherGuardian(r, a)
                                             \/ DetectorDecides(r, a)

Policy(r) == \/ ByocBlocks(r)
             \/ \E c \in {"schema_validator", "agency_controller"} : LaterLayerBlocks(r, c)
             \/ \E c \in {"agency_controller", "hitl_gate"} : PolicyPauses(r, c)
             \/ PolicyForwards(r)

Send(r) == \/ ProviderAnswers(r) \/ SendFails(r) \/ StreamBreaks(r)
           \/ \E a \in GuardianAnswers : ThinkingDecides(r, a)
           \/ ResumeAnswers(r) \/ ResumeFails(r)

Human(r) == Approve(r) \/ Withdraw(r) \/ Resume(r)

Reload == \E s \in Remote, applied \in SUBSET DOMAIN settings :
              ApplyRemoteSettings(s, applied)

Next == \/ \E r \in Requests : \/ Arrive(r) \/ Classify(r) \/ Policy(r) \/ Send(r)
                               \/ Human(r)
        \/ Reload

Spec == Init /\ [][Next]_vars

\* A handler that is not waiting runs; every awaited call ends (timeouts of 2 s,
\* 30 s and 600 s), and so does the scanner's thread.
Fairness == \A r \in Requests :
                WF_vars(Classify(r)) /\ WF_vars(Policy(r)) /\ WF_vars(Send(r))

FairSpec == Spec /\ Fairness

-----------------------------------------------------------------------------
(* Properties *)

Reached(r) == received[r] # {}

\* A prompt reaches the provider, at once or by a resume, only after the scanner
\* and the Guardian have both let it pass, the Guardian with a "yes" or with a
\* failure under a strategy other than "block" at that moment; and no check that
\* spoke has said "block".  Settings may change between any two of these steps.
CheckedBeforeForwarding ==
    \A r \in Requests : Reached(r) =>
        /\ \A c \in Checks : verdict[r][c] # "block"
        /\ HasPrompt(r) => /\ verdict[r]["scanner"] \in {"allow", "warn"}
                           /\ basis[r] \in {"yes", "allow", "warn", "fallback"}

\* What a redact rule matches in the content of the last message never leaves for the
\* provider, whichever sequence was taken and whether the body was sent at once or from
\* the stored copy; and in sequence B the Guardian's safety check does not read it
\* either, even if the setting changes while the request is under way.  That content is
\* all the scanner is given: of the rest of the body the next properties speak.
PromptRedacted ==
    \A r \in Requests : /\ \A b \in received[r] : "redact" \notin b.raw
                        /\ sequence[r] = "B" => <<r, "prompt">> \notin exposed

\* "PII scanning redacts sensitive data before it leaves the machine"
\* (docs/architecture.md): no body reaches the provider with a secret that a redact rule
\* would match.  It does in earlier messages, system prompts, tool calls and parameters.
SecretsLeaveRedacted ==
    \A r \in Requests : \A b \in received[r] : "redact" \notin b.raw /\ ~b.unscanned

\* A request that was paused reaches the provider only by a resume that a human's
\* approval allowed; the handler that paused it never sends it.
PausedUntilReleased ==
    \A r \in held : \A b \in received[r] : b.resumed /\ r \in released

\* The pipeline uses the gate as ApprovalGate allows: it holds a request once and
\* releases it only while an approval stands.
UsesApprovalGate == Gate!Spec

\* What the client was told is on record: a block, a pause and an answer each
\* leave an event of their kind.
AnswersAreLogged ==
    \A r \in Requests :
        LET Logged(action) == \E e \in audit[r] : e[1] = action
        IN /\ reply[r] = "blocked" => Logged("block")
           /\ reply[r] = "paused" => Logged("pause")
           /\ reply[r] \in {"answer", "stream"} => Logged("allow")

\* Every request is answered, whatever fails on the way.
EveryRequestAnswered == \A r \in Requests : pc[r] # "new" ~> reply[r] # "none"
=============================================================================
