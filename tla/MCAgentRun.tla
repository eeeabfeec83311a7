----------------------------- MODULE MCAgentRun -----------------------------
(* One tool of each vocabulary, and names two sources claim.               *)
EXTENDS AgentRunProperties, TLC

Param(name, kind, type, default) ==
  [name |-> name, kind |-> kind, type |-> type, default |-> default]

Context == Param("ctx", "plain", "context", FALSE)
A == Param("a", "plain", "other", FALSE)
B == Param("b", "keyword", "other", TRUE)
Rest == Param("args", "args", "other", FALSE)
More == Param("more", "kwargs", "other", FALSE)
ByPosition(param) == [param EXCEPT !.kind = "positional"]
Optional(param) == [param EXCEPT !.default = TRUE]

ToolSpec(name, fn, destructive, sig) ==
  [name |-> name, fn |-> fn, destructive |-> destructive, sig |-> sig]

\* "close" and "post" come from the server too, two functions are called "drop",
\* "shut" is the renamed mutation nobody is asked for, "post" the one the project
\* has asked for by its function's name.
MCSpecs ==
  {ToolSpec("close", "close", FALSE, <<Context, More>>),
   ToolSpec("close", "shut", TRUE, <<Optional(ByPosition(A)), More>>),
   ToolSpec("drop", "drop", TRUE, <<Context, A, Rest, B>>),
   ToolSpec("tidy", "drop", FALSE, <<A, Context>>),
   ToolSpec("tidy", "post", TRUE, <<ByPosition(A), B>>)}

MCServerTools ==
  {[name |-> "close", hint |-> "mutates"], [name |-> "post", hint |-> "mutates"],
   [name |-> "peek", hint |-> "reads"]}
MCServiceSpecs ==
  {[name |-> "post", hint |-> "silent"], [name |-> "ship", hint |-> "mutates"]}
MCToolsets ==
  {[name |-> "wipe", kind |-> "function", stamped |-> TRUE],
   [name |-> "page", kind |-> "external", stamped |-> TRUE]}

Error(type, message, detail, requested, labels) ==
  [type |-> type, message |-> message, detail |-> detail, requested |-> requested,
   labels |-> labels]
Leaf(keys, words) == [keys |-> keys, words |-> words]
Reasons == {Leaf(<<"items", "qty">>, "too few"), Leaf(<<"all">>, "closed"), Leaf(<<"tags">>, None)}
MCErrors ==
  {Error("validation_error", message, Reasons, {}, {}) :
     message \in {{"items"}, {"items", "qty", "tags", "closed"}}}
  \cup {Error("input_required", {}, {}, {"reason"}, {}),
        Error("service_error", {}, {}, {}, {"code", "step"}), None}

MCEndpoints ==
  {[required |-> TRUE, forbids |-> {}], [required |-> FALSE, forbids |-> {Anonymous}]}
=============================================================================
