------------------------------ MODULE MCIngest ------------------------------
(* Two batches: one of a critical and a quiet event, one of a warning without provenance. *)
EXTENDS Ingest

Event(t, c, p) == [type |-> t, component |-> c, provenance |-> p]

SomeInfo == [e \in {"blocked", "allowed", "warned"} |->
    CASE e = "blocked" -> Event("block", "guardian", "good")
      [] e = "allowed" -> Event("allow", "proxy", "malformed")
      [] e = "warned"  -> Event("warn", "byoc_engine", "none")]

SomeBatches == {<<"blocked", "allowed">>, <<"warned">>}
TwoChannels == <<"telegram", "slack">>
=============================================================================
