----------------------------- MODULE MCPipeline -----------------------------
(***************************************************************************)
(* Finite instances of Pipeline for TLC.  Requests meet only in the         *)
(* settings, which a reload may change at any moment, so one request sees   *)
(* everything a second one could do to it.                                  *)
(***************************************************************************)
EXTENDS Pipeline

CONSTANT r1

\* What rules of each kind find in a prompt.
Found == {{}, {"redact"}, {"redact", "warn"}, {"redact", "block"}}

Texts == {i \in Input : i.prompt = "text" /\ i.secrets \in Found}
Standard == {i \in Input : ~i.stream /\ ~i.think}

\* Requests whose tool calls, or other messages, hold what a rule would match.
Elsewhere ==
    {i \in Standard : i.prompt # "unreadable" /\ i.tools /\ i.unscanned # {}
                      /\ (i.prompt = "text" \/ i.secrets = {}) /\ i.secrets \in {{}, {"redact"}}}

\* Everything a scan may find, with and without streaming and tool calls; requests that
\* think, have no prompt or an unreadable one with the little that matters to them.
AllInputs ==
    {i \in Texts : ~i.think /\ i.unscanned = {}}
    \cup {i \in Texts : i.think /\ ~i.stream /\ i.secrets \in {{}, {"redact"}} /\ i.unscanned = {}}
    \cup {i \in Input : i.prompt = "none" /\ i.secrets = {} /\ ~i.think /\ i.unscanned = {}}
    \cup {i \in Standard : i.prompt = "unreadable" /\ i.secrets = {} /\ ~i.tools /\ i.unscanned = {}}
    \cup {i \in Elsewhere : i.secrets = {"redact"} /\ i.unscanned = {"toolCalls"}}

\* Every sequence, every strategy, both block modes the dashboard may set.
SomeSettings == {[sequence |-> "B", blockMode |-> "block", failStrategy |-> "block"],
                 [sequence |-> "A", blockMode |-> "warn", failStrategy |-> "fallback"],
                 [sequence |-> "C", blockMode |-> "warn", failStrategy |-> "warn"],
                 [sequence |-> "C", blockMode |-> "block", failStrategy |-> "allow"]}

\* settings.yaml may disable the block rules at the start, too.
AllStarts == SomeSettings \cup {[sequence |-> "B", blockMode |-> "ignore", failStrategy |-> "warn"]}
=============================================================================
