---------------------------- MODULE ResponsePath ----------------------------
(***************************************************************************)
(* What happens to a provider's answer before the client gets it            *)
(* (LLMProxy.forward_request, after the provider has answered): the         *)
(* ingestion sanitizer rewrites it, the thinking-mode verifier may put it    *)
(* to the Guardian once more, output control validates, escapes and quotes   *)
(* it or blocks it.  Pipeline has these three as choices; here they are the  *)
(* algorithms.                                                              *)
(*                                                                         *)
(* A text is a sequence of letters.  "script" is the word, "hidden" a        *)
(* zero-width character, "command" anything the shell or SQL patterns find,  *)
(* "mark" a redaction marker; "lt", "gt", "apos" are entities, "backslash"   *)
(* is one.  A sanitizer pattern is a literal word.                          *)
(***************************************************************************)
EXTENDS Integers, Sequences, FiniteSets, SequencesExt

CONSTANTS
    Configs,     \* configurations, a set of Config records
    Answers,     \* what the provider may answer, a set of Answer records
    Trusts,      \* trust levels of the requests, in tenths
    Actions,     \* action types of the requests, "" for none
    Contents     \* contents of the Guardian's answers, sequences of score words

Letters == {"<", ">", "script", "hidden", "quote", "command", "word"}
Effects == {"strip", "redact", "log_only", "unknown"}
Enforcements == {"absent", "soft_block", "hard_stop"}

\* A rule: its name, its word, whether the pattern compiles, its action.  mode: the
\* sanitizer's override of the rules' actions.  schemaRule, scriptRule: enforcement of
\* require_schema_validation and never_shell_interpolate_llm_output.  threshold, stricter
\* and mandatory: thinking_mode_rules.yaml.  guardian: what GuardianGuard does on failure.
\* An answer: its text, the output schema of the request's tool (NoSchema if it has none), and
\* under `reads` what json.loads makes of the texts it may become on its way: the kind of
\* the value and, for an object, its fields.  Any other text is no JSON.
NoSchema == [x \in {} |-> x]

\* The field types are those of output_schemas.yaml.
ASSUME ResponseAssumption ==
    /\ \A c \in Configs :
          /\ c.rules \in Seq([name : STRING, word : Seq(Letters) \ {<<>>}, compiles : BOOLEAN,
                             action : Effects])
          /\ c.mode \in Effects \cup {"none"}
          /\ {c.schemaRule, c.scriptRule} \subseteq Enforcements
          /\ c.threshold \in 0 .. 10 /\ c.stricter \in 0 .. 10
          /\ c.mandatory \subseteq Actions \ {""} /\ c.logAll \in BOOLEAN
          /\ c.guardian \in {"block", "allow", "warn", "fallback"}
    /\ \A a \in Answers :
          /\ a.text \in Seq(Letters)
          /\ \A f \in DOMAIN a.schema : /\ a.schema[f].type \in {"string", "integer", "array", "object"}
                                        /\ a.schema[f].most \in Int
          /\ \A t \in DOMAIN a.reads : \A f \in DOMAIN a.reads[t].doc :
                LET v == a.reads[t].doc[f] IN
                /\ v.size \in Int
                /\ \A i \in DOMAIN v.items : v.items[i].type = "object" => v.items[i].size \in {0, 1}
    /\ Contents \subseteq Seq({"<yes>", "<no>", "yes", "no", "prose"})
    /\ Trusts \subseteq 0 .. 10

VARIABLES
    config,      \* the configuration, fixed
    trust,       \* provenance.trust_level, in tenths
    action,      \* the action type in the request's body
    answer,      \* the provider's answer
    text,        \* the body of `response`
    phase,       \* "received", "sanitized", "verified", "delivered" or "blocked"
    component,   \* component_name, what the last allow is logged as
    dangerous,   \* names of the sanitizer rules found, in order
    events,      \* audit events logged, <<type, component>> in order
    asked,       \* history: the texts the Guardian was asked about
    condemned,   \* history: its answer carried the score "no"
    controlled   \* history: the text output control was given

vars == <<config, trust, action, answer, text, phase, component, dangerous, events, asked,
          condemned, controlled>>
request == <<config, trust, action, answer>>

(***************************************************************************)
(* IngestionSanitizer.sanitize.  log_only, and the warn it is raised to for  *)
(* requests of low trust, differ in the label only, and so does an unknown   *)
(* action.                                                                  *)
(***************************************************************************)
Occurs(word, t, i) ==
    i + Len(word) - 1 <= Len(t) /\ \A j \in DOMAIN word : t[i + j - 1] = word[j]
Holds(t, word) == \E i \in DOMAIN t : Occurs(word, t, i)

\* Mutant: re.sub with count=1.
Substitute_Once(word, by, t) ==
    LET i == CHOOSE k \in DOMAIN t : Occurs(word, t, k) /\ \A j \in 1 .. k - 1 : ~Occurs(word, t, j)
    IN SubSeq(t, 1, i - 1) \o by \o SubSeq(t, i + Len(word), Len(t))

\* re.sub of a literal pattern: from the left, occurrences that do not overlap.
Substitute(word, by, t) ==
    LET from[i \in 1 .. Len(t) + 1] ==
            IF i > Len(t) THEN <<>>
            ELSE IF Occurs(word, t, i) THEN by \o from[i + Len(word)]
            ELSE <<t[i]>> \o from[i + 1]
    IN from[1]

\* The pattern cache is keyed by name: the last rule of a name that compiles.
Pattern(rules, name) ==
    LET i == SelectLastInSeq(rules, LAMBDA r : r.name = name /\ r.compiles)
    IN IF i = 0 THEN <<>> ELSE rules[i].word

Effect(c, rule) == IF c.mode = "none" THEN rule.action ELSE c.mode

ApplyPattern(effect, word, t) ==
    CASE effect = "strip"  -> Substitute(word, <<>>, t)
      [] effect = "redact" -> Substitute(word, <<"mark">>, t)
      [] OTHER             -> t

\* dangerous_patterns: every rule that matched, whatever it did.
Reported(found, rule, effect) == Append(found, rule.name)

ApplyRule(c, rule, acc) ==
    LET word == Pattern(c.rules, rule.name) IN
    IF word = <<>> \/ ~Holds(acc.text, word) THEN acc
    ELSE [text |-> ApplyPattern(Effect(c, rule), word, acc.text),
          found |-> Reported(acc.found, rule, Effect(c, rule))]

\* Step 2 of sanitize: the rules in their order, each on what the earlier ones have left.
Sanitized(c, t) ==
    LET after[i \in 0 .. Len(c.rules)] ==
            IF i = 0 THEN [text |-> t, found |-> <<>>] ELSE ApplyRule(c, c.rules[i], after[i - 1])
    IN after[Len(c.rules)]

(***************************************************************************)
(* ThinkingModeVerifier and the score parser of guardian_client.             *)
(***************************************************************************)
\* Mutant: only the stricter of the two thresholds counts.
ShouldRun_Stricter(c, level, act) == level < c.stricter \/ act \in c.mandatory

ShouldRun(c, level, act) == level < c.stricter \/ level < c.threshold \/ act \in c.mandatory

Tags == {"<yes>", "<no>"}
Score(word) == IF word \in {"<yes>", "yes"} THEN "yes" ELSE "no"

\* Mutant: the first yes or no of the answer, wherever it stands.
ParseScore_FirstWord(content) ==
    LET i == SelectInSeq(content, LAMBDA w : w # "prose")
    IN IF i > 0 THEN Score(content[i]) ELSE "unreadable"

\* A score tag first; else the first whole word; else the fail strategy decides.
ParseScore(content) ==
    LET tag == SelectInSeq(content, LAMBDA w : w \in Tags)
        word == SelectInSeq(content, LAMBDA w : w # "prose")
    IN CASE tag > 0              -> Score(content[tag])
         [] tag = 0 /\ word > 0  -> Score(content[word])
         [] tag = 0 /\ word = 0  -> "unreadable"

\* _handle_failure of GuardianGuard; the emergency filter scans the text.  The verifier's own
\* fail_strategy is never reached: check_safety catches every exception.
OnFailure(c) ==
    CASE c.guardian = "allow"    -> {"allow"}
      [] c.guardian = "warn"     -> {"warning"}
      [] c.guardian = "fallback" -> {"allow", "block"}
      [] OTHER                   -> {"block"}

Decisions(c, content) ==
    CASE ParseScore(content) = "yes" -> {"allow"}
      [] ParseScore(content) = "no"  -> {"block"}
      [] OTHER                       -> OnFailure(c)

(***************************************************************************)
(* OutputController: a document against its schema, then the text.           *)
(*   A value: its type, its length or number, the items of an array.  For an  *)
(* object in an array size is 1 if the recursive check has no complaint.  A   *)
(* field of a schema: type, whether it is required, limits of its length or   *)
(* number, its items' type.  The enum of a field and the maxLength of items,  *)
(* which output_schemas.yaml has too, are read by no line of the validator.   *)
(***************************************************************************)
\* _check_type: a boolean is no integer, although isinstance(True, int) holds.
IsType(v, type) == type = "any" \/ v.type = type

FieldErrors(v, field) ==
    LET wrong == ~IsType(v, field.type)
        size == \/ v.type = "string" /\ v.size > field.most
                \/ v.type \in {"integer", "boolean"} /\ v.size \notin field.least .. field.most
        item == \E i \in DOMAIN v.items :
                   \/ ~IsType(v.items[i], field.item)
                   \/ field.item = "object" /\ v.items[i].type = "object" /\ v.items[i].size = 0
    IN IF wrong THEN {"type"}
       ELSE {e \in {"size", "item"} : (e = "size" /\ size) \/ (e = "item" /\ item)}

\* json.loads of a text.
Parsed(a, t) == IF t \in DOMAIN a.reads THEN a.reads[t] ELSE [kind |-> "text", doc |-> NoSchema]

\* Only an object is looked into; a text that is not JSON, or not an object, is one error.
\* t is the text output control is given, what the sanitizer has left of the answer's.
SchemaErrors(a, t) ==
    LET doc == Parsed(a, t).doc IN
    IF a.schema = NoSchema THEN {}
    ELSE IF Parsed(a, t).kind # "object" THEN {"kind"}
    ELSE {"missing" : f \in {g \in DOMAIN a.schema : a.schema[g].required} \ DOMAIN doc}
         \cup UNION {FieldErrors(doc[f], a.schema[f]) : f \in DOMAIN a.schema \cap DOMAIN doc}

\* <[^>]+> and <\s*script[^>]*>
HasTag(t) == \E i, j \in DOMAIN t : t[i] = "<" /\ t[j] = ">" /\ i + 1 < j /\ t[i + 1] # ">"
HasScript(t) == \E i, j \in DOMAIN t : t[i] = "<" /\ t[j] = ">" /\ i + 1 < j /\ t[i + 1] = "script"
LooksExecutable(t) == Contains(t, "command")

Entity == [l \in {"<", ">", "quote"} |->
              CASE l = "<" -> "lt" [] l = ">" -> "gt" [] l = "quote" -> "apos"]
EscapeHtml(t) == [i \in DOMAIN t |-> IF t[i] \in DOMAIN Entity THEN Entity[t[i]] ELSE t[i]]

\* Mutant: the quotes inside are left as they are.
QuoteShellParam_NoEscape(t) == <<"quote">> \o t \o <<"quote">>

QuoteShellParam(t) ==
    <<"quote">> \o Substitute(<<"quote">>, <<"quote", "backslash", "quote", "quote">>, t)
        \o <<"quote">>

\* validate_response: what the tests find in the raw text decides what is done to it.
Rewritten(t) ==
    LET escaped == IF HasTag(t) THEN EscapeHtml(t) ELSE t
    IN IF LooksExecutable(t) THEN QuoteShellParam(escaped) ELSE escaped

\* Mutant: the schema is checked on the provider's text, before the sanitizer.
HardStop_Unsanitized(c, a, t) ==
    \/ c.schemaRule = "hard_stop" /\ SchemaErrors(a, a.text) # {}
    \/ c.scriptRule = "hard_stop" /\ HasScript(t)

HardStop(c, a, t) ==
    \/ c.schemaRule = "hard_stop" /\ SchemaErrors(a, t) # {}
    \/ c.scriptRule = "hard_stop" /\ HasScript(t)

(***************************************************************************)
(* The response part of forward_request.                                    *)
(***************************************************************************)
Init ==
    /\ config \in Configs /\ trust \in Trusts /\ action \in Actions /\ answer \in Answers
    /\ text = answer.text
    /\ phase = "received" /\ component = "proxy"
    /\ dangerous = <<>> /\ events = <<>>
    /\ asked = {} /\ condemned = FALSE /\ controlled = <<>>

Warn(by) == <<"warn", by>>

\* The body is replaced when stripped_count > 0, that is when any rule matched.
Sanitize ==
    LET result == Sanitized(config, text) IN
    /\ phase = "received" /\ phase' = "sanitized"
    /\ text' = IF text = <<>> THEN text ELSE result.text
    /\ dangerous' = result.found
    /\ events' = IF dangerous' # <<>> THEN Append(events, Warn("ingestion_sanitizer")) ELSE events
    /\ UNCHANGED <<request, component, asked, condemned, controlled>>

SkipThinking ==
    /\ phase = "sanitized" /\ phase' = "verified"
    /\ ~ShouldRun(config, trust, action)
    /\ UNCHANGED <<request, text, component, dangerous, events, asked, condemned, controlled>>

\* The verifier's warning and the Guardian's "no" are advisory: an event, no more.
Noted(decision) ==
    /\ events' = CASE decision \in {"block", "warning"} -> Append(events, Warn("thinking_mode_verifier"))
                   [] decision = "allow" /\ config.logAll -> Append(events, <<"allow", "thinking_mode_verifier">>)
                   [] OTHER -> events
    /\ component' = IF decision = "block" THEN "thinking_mode_verifier" ELSE component

Think ==
    /\ phase = "sanitized" /\ phase' = "verified"
    /\ ShouldRun(config, trust, action)
    /\ asked' = asked \cup {text}
    /\ \E content \in Contents : \E decision \in Decisions(config, content) :
          /\ Noted(decision)
          /\ condemned' = \E i \in DOMAIN content :
                 content[i] = "<no>" /\ \A j \in 1 .. i - 1 : content[j] \notin Tags
    /\ UNCHANGED <<request, text, dangerous, controlled>>

\* No answer, a status other than 200: the Guardian's fail strategy.
ThinkFails ==
    /\ phase = "sanitized" /\ phase' = "verified"
    /\ ShouldRun(config, trust, action)
    /\ asked' = asked \cup {text}
    /\ \E decision \in OnFailure(config) : Noted(decision)
    /\ UNCHANGED <<request, text, dangerous, condemned, controlled>>

Block ==
    /\ phase = "verified" /\ phase' = "blocked"
    /\ text # <<>> /\ HardStop(config, answer, text)
    /\ controlled' = text /\ text' = <<>>
    /\ component' = "output_control" /\ events' = Append(events, <<"block", "output_control">>)
    /\ UNCHANGED <<request, dangerous, asked, condemned>>

\* Schema complaints are logged only when escaping or quoting has changed the text: the log
\* calls stand inside `if oc_result.content != response_text or oc_result.blocked`.
Deliver ==
    LET errors == IF text = <<>> THEN {} ELSE SchemaErrors(answer, text)
        complaints == IF errors = {} \/ Rewritten(text) = text THEN <<>>
                      ELSE IF config.schemaRule = "absent" THEN <<Warn("output_control")>>
                      ELSE <<Warn("output_control"), Warn("output_control")>>
    IN /\ phase = "verified" /\ phase' = "delivered"
       /\ ~(text # <<>> /\ HardStop(config, answer, text))
       /\ controlled' = text /\ text' = Rewritten(text)
       /\ events' = events \o complaints \o <<<<"allow", component>>>>
       /\ UNCHANGED <<request, component, dangerous, asked, condemned>>

Next == Sanitize \/ SkipThinking \/ Think \/ ThinkFails \/ Block \/ Deliver

Spec == Init /\ [][Next]_vars

(***************************************************************************)
(* Properties.                                                              *)
(***************************************************************************)
\* What a rule strips or redacts is not in the sanitized text, however the later rules
\* rewrite it, unless a rule that strips, itself or a later one, has closed up the text
\* around a match (IngestionSanitizer.sanitize applies each rule once, in order).  A later
\* rule of the same name would have taken the place of its pattern in the cache.
RedactedForGood ==
    phase \in {"sanitized", "verified"} =>
        \A i \in DOMAIN config.rules :
            LET rule == config.rules[i] IN
            (/\ rule.compiles /\ Pattern(config.rules, rule.name) = rule.word
             /\ Effect(config, rule) \in {"strip", "redact"})
            => \/ ~Holds(text, rule.word)
               \/ \E j \in i .. Len(config.rules) :
                     Effect(config, config.rules[j]) = "strip" /\ Contains(dangerous, config.rules[j].name)

\* An answer to a request of low trust, or of a mandatory action, reaches output control
\* only after the Guardian was asked about the text it then is, not about the provider's.
LowTrustIsVerified ==
    phase \in {"delivered", "blocked"} /\ (trust < config.threshold \/ action \in config.mandatory)
        => controlled \in asked

\* An answer of the Guardian whose score tag says no leaves a warning, whatever its prose
\* says before (parse_score: "the tag check comes first to avoid false ALLOWs").
CondemnedIsOnRecord ==
    condemned => Contains(events, Warn("thinking_mode_verifier"))

\* How a shell reads a word: quoted parts literally, a backslash takes the next letter.
ShellWord(t) ==
    LET next(mode) == IF mode = "bare" THEN "quoted" ELSE "bare"
        read[i \in 1 .. Len(t) + 1] ==
            [mode \in {"bare", "quoted"} |->
                IF i > Len(t) THEN IF mode = "bare" THEN <<>> ELSE <<"open">>
                ELSE IF t[i] = "quote" THEN read[i + 1][next(mode)]
                ELSE IF mode = "quoted" THEN <<t[i]>> \o read[i + 1][mode]
                ELSE CASE t[i] = "command"   -> <<"run">> \o read[i + 1][mode]
                       [] t[i] = "backslash" -> IF i = Len(t) THEN <<"open">>
                                                ELSE <<t[i + 1]>> \o read[i + 2][mode]
                       [] OTHER              -> <<t[i]>> \o read[i + 1][mode]]
    IN read[1]["bare"]

\* A text with a command in it is delivered as one shell word that reads back as the text,
\* escaped if it had a tag: nothing in it is run and nothing is lost (quote_shell_param).
QuotedReadsBack ==
    (phase = "delivered" /\ LooksExecutable(controlled)) =>
        ShellWord(text) = IF HasTag(controlled) THEN EscapeHtml(controlled) ELSE controlled

\* A value as its field wants it, as far as the validator goes: types at every level, lengths
\* outside of arrays, numbers in range.
Suits(v, want) ==
    /\ v.type = want.type
    /\ v.type = "string" => v.size <= want.most
    /\ v.type = "integer" => v.size \in want.least .. want.most
    /\ \A i \in DOMAIN v.items : /\ want.item # "any" => v.items[i].type = want.item
                                 /\ want.item = "object" => v.items[i].size = 1

\* The text as output control reads it, an object with its fields, as far as the validator goes.
Fits(a, t) ==
    LET doc == Parsed(a, t).doc IN
    /\ Parsed(a, t).kind = "object"
    /\ \A f \in DOMAIN a.schema : a.schema[f].required => f \in DOMAIN doc
    /\ \A f \in DOMAIN a.schema \cap DOMAIN doc : Suits(doc[f], a.schema[f])

\* A hard stop stops: with the schema rule only a text whose fields, after the sanitizer's
\* cuts and marks, still have the types and limits the validator knows is let through (it
\* knows no enum and no limit of an array's texts, so "must match" the schema, as
\* output_schemas.yaml:3 has it, would be false); with the script rule no text that had a
\* script in it when output control got it (OutputController.validate_response).
HardStopsHold ==
    phase = "delivered" /\ controlled # <<>> =>
        /\ config.schemaRule = "hard_stop" /\ answer.schema # NoSchema
              => Fits(answer, controlled)
        /\ config.scriptRule = "hard_stop" => ~HasScript(controlled)
=============================================================================
