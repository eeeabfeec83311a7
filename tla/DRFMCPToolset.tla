--------------------------- MODULE DRFMCPToolset ---------------------------
(***************************************************************************)
(* How the drf-mcp bridge maps what the server answers to what the run     *)
(* sees.  A text is the set of names it says; a detail is the set of its   *)
(* leaves [keys, words], the dict keys above a reason and its words, which *)
(* None stands for where a key holds nothing.                              *)
(***************************************************************************)
EXTENDS Naturals, Sequences

CONSTANTS
  None,
  NonField   \* DRF's NON_FIELD_ERRORS_KEY

Fields(keys) == {keys[i] : i \in 1..Len(keys)} \ {NonField}

UnderAField(keys) == keys # <<>> /\ keys[Len(keys)] # NonField

\* _detail_names: every field, and the words that no field names.
DetailNames(detail) ==
  UNION {Fields(leaf.keys)
         \cup (IF UnderAField(leaf.keys) THEN {} ELSE {leaf.words} \ {None}) : leaf \in detail}

MessageSaysSlip(message, detail) == DetailNames(detail) \cap message # {}

MessageSays(message, detail) == DetailNames(detail) \subseteq message

\* _retry_message: the message with the names on offer, or with the detail.
RetryMessage(message, detail, available) ==
  IF available # None THEN message \cup available
  ELSE IF detail = {} \/ MessageSays(message, detail) THEN message
  ELSE message \cup DetailNames(detail)

\* _parse_tool_error: an error that cannot be read is of an unknown type.
Unread == [type |-> "unknown", message |-> {}, detail |-> {}, requested |-> {}, labels |-> {}]

ParseToolError(answer) == IF answer.error = None THEN Unread ELSE answer.error

\* _advertised_names: the names to offer for one that was never advertised.
AdvertisedNames(defs, name) ==
  IF defs = None THEN None
  ELSE LET names == {d.name : d \in defs} IN IF name \in names THEN None ELSE names

Outcome(verdict, text) == [verdict |-> verdict, text |-> text]

OnJsonRpcError(answer, available) ==
  IF answer.code = "INVALID_PARAMS"
  THEN Outcome("retry", RetryMessage(answer.message, answer.detail, available))
  ELSE Outcome("abort", answer.message)

\* A tool-level error: the model corrects it, supplies what is missing, or reads
\* a failure that _failure_message labels with its code and step.
OnToolErrorSlip(error) ==
  IF error.type = "validation_error"
  THEN Outcome("retry", RetryMessage(error.message, error.detail, None))
  ELSE Outcome("retry", error.message \cup error.requested \cup error.labels)

OnToolError(error) ==
  CASE error.type = "validation_error" ->
         Outcome("retry", RetryMessage(error.message, error.detail, None))
    [] error.type = "input_required" -> Outcome("retry", error.message \cup error.requested)
    [] OTHER -> Outcome("failed", error.message \cup error.labels)

\* call_tool
CallTool(defs, name, answer) ==
  CASE answer.kind = "jsonrpc" -> OnJsonRpcError(answer, AdvertisedNames(defs, name))
    [] answer.kind = "error"   -> OnToolError(ParseToolError(answer))
    [] answer.kind = "content" -> Outcome("result", {})
=============================================================================
