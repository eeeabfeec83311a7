------------------------- MODULE AgentRunProperties -------------------------
(* What a run may rely on about the tools it offers and calls.             *)
EXTENDS AgentRun

\* The registry is a dictionary by name, and the run a step of one request.
TypeOK ==
  /\ registry \subseteq Specs
  /\ Cardinality(NamesOf(registry)) = Cardinality(registry)
  /\ agent # None => agent.destructive \subseteq agent.names
  /\ open \subseteq Conditional /\ hidden \subseteq Restricted
  /\ run # None =>
       /\ run.granted \subseteq STRING /\ run.steady \in BOOLEAN
       /\ run.defs # None => NamesOf(run.defs) \subseteq NamesOf(ServerTools)
  /\ \A x \in waiting : x.user \in Users

\* The functions of registry tools that are registered under another name.
Renamed == FunctionsOf({s \in registry : s.fn # s.name})

\* Whether the source of a tool says it mutates, whatever reaches the guard.  A
\* renamed registry tool is offered under a name of which its source says nothing.
SaysItMutates(name, source) ==
  CASE source = "registry" ->
         \E s \in registry : s.fn = name /\ s.name = name /\ s.destructive
    [] source = "server"   -> \E t \in ServerTools : t.name = name /\ t.hint = "mutates"
    [] source = "spec"     -> \E t \in ServiceSpecs : t.name = name /\ t.hint = "mutates"
    [] source = "toolset"  -> \E t \in Toolsets : t.name = name /\ t.stamped

\* With the guard on, no tool ran that its source calls a mutation under the name
\* it ran by, or that the project wants approved under it, unless a user approved
\* that call or the project exempts it: whichever source it came from, whatever
\* flipped between the deferral and the resumed request, and one approval is good
\* for one call (tool_guard.py:28).  A destructive registry tool whose function
\* has another name is the documented exception: it is held only where
\* require_approval has the function's name (docs/moving.md:95).
MutationsAreApproved ==
  (/\ GuardEnabled /\ ran # None
   /\ ran.name \notin Exempt
   /\ ran.name \in RequireApproval \/ SaysItMutates(ran.name, ran.source))
    => ran.approved

\* No name two sources claim ends a run: each leaves out those of the sources
\* before it, whatever is listed, available or hidden.  What can still clash is a
\* project's own toolset, and a renamed registry tool, whose function's name no
\* source leaves out (drf_mcp.py:83, build_spec_capability.py:57).
SourcesKeepApart ==
  run # None =>
    \A t, u \in Collected :
      t.name = u.name => t = u \/ t.name \in NamesOf(Toolsets) \cup (Renamed \ agent.names)

\* A tool's card is labelled after the source the tool comes from, whichever other
\* sources claim its name and hide it now, unless it is a renamed registry tool
\* (build_tool_catalog.py:36).
CardsNameTheToolThatRuns ==
  run # None /\ run.offered # None =>
    \A d \in run.offered :
      \/ d.source = "toolset"
      \/ d.source = "registry" /\ d.name \in Renamed
      \/ Catalog(d.name) = d.source

\* A server tool the user may see is offered in a step or explained in it, never
\* both, unless the server changed during the step; one whose condition comes to
\* be met later in the run is offered then (drf_mcp.py:118, :140).
OfferedOrExplained ==
  ModelTurn /\ run.steady =>
    \A n \in run.seen \ hidden :
      (\E d \in run.offered : d.name = n /\ d.source = "server") # (n \in run.told)

\* A call the model is told to make again has not acted, one it takes for done
\* has, and only a fault it cannot correct ends the run (drf_mcp.py:63).
RetriesAreSafe ==
  last # None =>
    /\ last.outcome.verdict = "retry"  => ~last.answer.acted
    /\ last.outcome.verdict = "result" => last.answer.kind = "content"
    /\ last.outcome.verdict = "abort" <=>
         last.answer.kind = "jsonrpc" /\ last.answer.code # "INVALID_PARAMS"

\* Every name a refusal's detail carries reaches the model, in the server's
\* sentence or after it, and so does every input it asks for (drf_mcp.py:396).
RetriesSayEverything ==
  last # None /\ last.outcome.verdict = "retry" =>
    LET answer == last.answer
        error  == IF answer.kind = "error" THEN answer.error ELSE answer
    IN  /\ DetailNames(error.detail) \subseteq last.outcome.text
        /\ answer.kind = "error" => error.requested \subseteq last.outcome.text

\* What the schema lets the model send binds, and the context parameter holds the
\* run's own context even where the model invented one (tool_registry.py:113,
\* build_input_schema.py:37); but the schema advertises positional-only parameters
\* too (build_input_schema.py:50), and no call of a tool that needs one binds.
AdvertisedArgumentsBind ==
  \A spec \in registry :
    LET schema == InputSchema(spec.sig)
        param  == ContextParameter(spec.sig)
    IN  \A sent \in SUBSET schema.properties, invented \in SUBSET ({param} \ {None}) :
          schema.required \subseteq sent =>
            LET bound == Bind(spec.sig, [n \in sent \cup invented |-> "model"], "run")
            IN  /\ (sent \cup {param}) \cap PositionalOnly(spec.sig) = {} =>
                     /\ bound # None
                     /\ \A n \in DOMAIN bound :
                          bound[n] = IF n = param THEN "run" ELSE "model"
                     /\ param # None => param \in DOMAIN bound
                /\ (\E i \in 1..Len(spec.sig) :
                       spec.sig[i].kind = "positional" /\ ~spec.sig[i].default)
                     => bound = None
=============================================================================
