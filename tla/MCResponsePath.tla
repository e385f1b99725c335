--------------------------- MODULE MCResponsePath ---------------------------
(* All texts up to MaxLen letters, and a short text with every document of a small schema. *)
EXTENDS ResponsePath, TLC

CONSTANT MaxLen

RuleOf(name, word, effect) == [name |-> name, word |-> word, compiles |-> TRUE, action |-> effect]
Scripts(effect) == RuleOf("script_tag", <<"<", "script", ">">>, effect)
Hidden(effect) == RuleOf("zero_width", <<"hidden">>, effect)
Pair(effect) == RuleOf("pair", <<"hidden", "quote">>, effect)
Broken == [name |-> "zero_width", word |-> <<"word">>, compiles |-> FALSE, action |-> "strip"]

With(rules, mode, schemaRule, scriptRule, guardian, logAll) ==
    [rules |-> rules, mode |-> mode, schemaRule |-> schemaRule, scriptRule |-> scriptRule,
     threshold |-> 5, stricter |-> 3, mandatory |-> {"delete"}, guardian |-> guardian,
     logAll |-> logAll]

SomeConfigs ==
    {With(<<Scripts("strip"), Hidden("strip")>>, "none", "soft_block", "hard_stop", "warn", TRUE),
     With(<<Scripts("redact"), Hidden("redact"), Broken>>, "none", "hard_stop", "absent", "block", FALSE),
     With(<<Pair("strip"), Hidden("log_only")>>, "none", "absent", "hard_stop", "allow", TRUE),
     With(<<Pair("unknown"), Scripts("log_only")>>, "redact", "hard_stop", "soft_block", "fallback", FALSE)}

Value(type, size, items) == [type |-> type, size |-> size, items |-> items]
Text(size) == Value("string", size, <<>>)
Number(size) == Value("integer", size, <<>>)
Object(size) == Value("object", size, <<>>)
Array(items) == Value("array", 0, items)

Field(type, required, least, most) ==
    [type |-> type, required |-> required, least |-> least, most |-> most, item |-> "any"]

\* The fields output_schemas.yaml has, and a number.
Schema == [f \in {"summary", "risk", "files", "findings"} |->
    CASE f = "summary"  -> Field("string", TRUE, 0, 2)
      [] f = "risk"     -> Field("integer", FALSE, 1, 2)
      [] f = "files"    -> [Field("array", FALSE, 0, 0) EXCEPT !.item = "string"]
      [] f = "findings" -> [Field("array", TRUE, 0, 0) EXCEPT !.item = "object"]]

ValuesOf(f) ==
    CASE f = "summary"  -> {Text(2), Text(3), Value("null", 0, <<>>)}
      [] f = "risk"     -> {Number(n) : n \in 0 .. 3} \cup {Value("boolean", 1, <<>>)}
      [] f = "files"    -> {Array(<<Text(1)>>), Array(<<Number(1)>>), Array(<<>>)}
      [] f = "findings" -> {Array(s) : s \in {<<>>, <<Object(1)>>, <<Object(1), Object(0)>>, <<Text(1)>>}}

Documents ==
    UNION {{d \in [fields -> UNION {ValuesOf(f) : f \in fields}] : \A f \in fields : d[f] \in ValuesOf(f)}
           : fields \in SUBSET DOMAIN Schema}

\* The document once its summary is n letters longer.
Grown(doc, n) ==
    [f \in DOMAIN doc |-> IF f = "summary" /\ doc[f].type = "string"
                          THEN [doc[f] EXCEPT !.size = @ + n] ELSE doc[f]]

Read(kind, doc) == [kind |-> kind, doc |-> doc]
Holding(doc) == Read("object", doc)
Answer(t, schema, reads) == [text |-> t, schema |-> schema, reads |-> reads]

\* Texts no rule touches, a text with a hidden letter in its summary, which a strip shortens and
\* a mark lengthens, and one with a hidden letter that stands outside of the document.
SomeAnswers ==
    {Answer(t, NoSchema, [x \in {} |-> x]) : t \in BoundedSeq(Letters \ {"word"}, MaxLen)}
    \cup {Answer(t, Schema, t :> Holding(d)) : t \in {<<"word">>, <<"<", "word", ">">>}, d \in Documents}
    \cup {Answer(<<"word", "hidden">>, Schema,
                 (<<"word", "hidden">> :> Holding(d)) @@ (<<"word">> :> Holding(Grown(d, -1)))
                     @@ (<<"word", "mark">> :> Holding(Grown(d, 1)))) : d \in Documents}
    \cup {Answer(<<"hidden", "word">>, Schema, <<"word">> :> Holding(d)) : d \in Documents}
    \cup {Answer(<<"word">>, Schema, <<"word">> :> Read(k, NoSchema)) : k \in {"text", "list"}}

SomeContents == BoundedSeq({"<no>", "<yes>", "no", "yes", "prose"}, 2)
=============================================================================
