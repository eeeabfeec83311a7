---------------------------- MODULE ToolRegistry ----------------------------
(***************************************************************************)
(* What ToolRegistry derives from a tool's signature when it is registered *)
(* and how it binds a call's arguments to it.  A signature is a sequence   *)
(* of parameters [name, kind, type, default]: kind "positional" (by        *)
(* position only), "plain" (by position or keyword), "args", "keyword" (by *)
(* keyword only) or "kwargs", type "context" for a RunContext.  The schema *)
(* fragment of a parameter's type is left out.                             *)
(***************************************************************************)
EXTENDS Naturals, Sequences

CONSTANT None

Variadic == {"args", "kwargs"}

\* run_context_parameter: the first parameter takes the context, or none does.
ContextParameter(sig) ==
  IF sig # <<>> /\ sig[1].type = "context" THEN sig[1].name ELSE None

\* build_input_schema: the names the model may send and those it must.
InputSchema(sig) ==
  LET sent == {i \in 1..Len(sig) :
                 sig[i].name # ContextParameter(sig) /\ sig[i].kind \notin Variadic}
  IN  [properties |-> {sig[i].name : i \in sent},
       required   |-> {sig[i].name : i \in {j \in sent : ~sig[j].default}}]

PositionalOnly(sig) == {sig[i].name : i \in {j \in 1..Len(sig) : sig[j].kind = "positional"}}

\* inspect.Signature.bind takes these keywords, none by position.  Later versions
\* of Python pass an optional positional-only one on to a "**kwargs".
Takes(sig, keywords) ==
  LET named == {i \in 1..Len(sig) : sig[i].kind \notin Variadic}
  IN  /\ keywords \cap PositionalOnly(sig) = {}
      /\ \A i \in named : ~sig[i].default => sig[i].name \in keywords
      /\ \/ \E i \in 1..Len(sig) : sig[i].kind = "kwargs"
         \/ keywords \subseteq {sig[i].name : i \in named}

BindSlip(sig, arguments, ctx) ==
  LET param == ContextParameter(sig)
      all   == IF param = None THEN arguments
               ELSE [n \in DOMAIN arguments \cup {param} |->
                      IF n \in DOMAIN arguments THEN arguments[n] ELSE ctx]
  IN  IF Takes(sig, DOMAIN all) THEN all ELSE None

\* _bind: what the tool receives, None where a TypeError is raised.
Bind(sig, arguments, ctx) ==
  LET param == ContextParameter(sig)
      all   == IF param = None THEN arguments
               ELSE [n \in DOMAIN arguments \cup {param} |->
                      IF n = param THEN ctx ELSE arguments[n]]
  IN  IF (param # None => ctx # None) /\ Takes(sig, DOMAIN all) THEN all ELSE None
=============================================================================
