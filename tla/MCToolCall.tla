----------------------------- MODULE MCToolCall -----------------------------
(* Two calls, the second made by the first one's tool.                     *)
EXTENDS ToolCallProperties, TLC

CONSTANTS outer, inner

MCCalls == {outer, inner}
MCParent == (inner :> outer) @@ (outer :> None)

\* A recorder among the outermost capabilities, a guardrail beside audit.
NoCapability == <<>>
Recorder == <<"recorder">>
Guardrail == <<"guardrail">>
MCOverrides == [recorder |-> {"wrap", "error", "unwrap"}, guardrail |-> {"before", "after", "error"}]
MCRaises == (outer :> {"error", "retry", "skip"}) @@ (inner :> {"retry"})
MCToolRaises ==
  (outer :> {"error", "denial", "retry", "failed", "deferral"}) @@ (inner :> {"error", "deferral"})
OuterAgain == (inner :> 1) @@ (outer :> 2)
=============================================================================
