------------------------------ MODULE AgentRun ------------------------------
(***************************************************************************)
(* The tools of an agent run: registered, collected with the drf-mcp       *)
(* server's, the specs' and the project's own, gated by ToolGuard, offered *)
(* step by step and called for the user the endpoint's gates let through.  *)
(*                                                                         *)
(* A registry tool has two names: the one it is registered under, which    *)
(* the guard, the catalog and the other sources know, and its function's,  *)
(* which the model is offered (README.md:10 calls that a known defect).    *)
(*                                                                         *)
(* External: pydantic-ai names a function's tool after it, refuses two of  *)
(* one name, asks for tools and instructions once a step in either order,  *)
(* lets the model call what the step offers, defers an unapproved tool and *)
(* ends the run; the transport resumes with the calls the user approved,   *)
(* and excludes the names registered from the bridges.  The server's       *)
(* conditions and permissions change at any time, and the server enforces  *)
(* them at the call.                                                       *)
(***************************************************************************)
EXTENDS Naturals, Sequences, FiniteSets

CONSTANTS
  None,
  NonField,         \* as DRFMCPToolset's
  Specs,            \* the ToolSpecs registered: [name, fn, destructive, sig], fn the
                    \* function's own name
  ServerTools,      \* the drf-mcp server's: [name, hint], its readOnlyHint
  ServiceSpecs,     \* the specs' tools: [name, hint]
  Toolsets,         \* the project's: [name, kind, stamped]
  Conditional,      \* server tools with an operation condition
  Restricted,       \* server tools a permission hides
  GuardEnabled, Exempt, RequireApproval,  \* ToolGuardConfig
  Users, Anonymous, \* what a request's user may be, None and Anonymous too
  Endpoints,        \* their gates: [required, forbids]
  Errors,           \* the tool errors the server reports, None unreadable
  MaxWaiting        \* bound on the calls deferred at once

INSTANCE ToolRegistry
INSTANCE DRFMCPToolset

NamesOf(tools) == {t.name : t \in tools}

FunctionsOf(specs) == {s.fn : s \in specs}

\* Tools of one name are one tool.
Apart(tools) == \A t, u \in tools : t.name = u.name => t = u

Hints == {"reads", "mutates", "silent"}  \* readOnlyHint true, false, absent

ASSUME AgentRunAssumption ==
  /\ \A t \in ServerTools \cup ServiceSpecs : t.hint \in Hints
  /\ \A t \in Toolsets : t.kind \in {"function", "external"}
  /\ GuardEnabled \in BOOLEAN
  /\ {None, Anonymous} \subseteq Users
  /\ \A e \in Endpoints : e.required \in BOOLEAN /\ e.forbids \subseteq Users
  /\ MaxWaiting \in Nat
  /\ None # "run"
  /\ None \notin STRING \cup Nat \cup
       [functions : SUBSET STRING, names : SUBSET STRING, destructive : SUBSET STRING]
  /\ FunctionsOf(Specs) \subseteq STRING
  /\ \A source \in {Specs, ServerTools, ServiceSpecs, Toolsets} :
       IsFiniteSet(source) /\ NamesOf(source) \subseteq STRING

\* A source names its tools apart.
ASSUME NamesAssumption == Apart(ServerTools) /\ Apart(ServiceSpecs) /\ Apart(Toolsets)

\* A request for input has no detail, and a validation error requests none.
ASSUME ErrorsAssumption ==
  \A error \in Errors \ {None} :
    /\ error.type = "validation_error" => error.requested = {}
    /\ error.type = "input_required" => error.detail = {}

\* A parameter has a name, and the context's is no "*args".
ASSUME SignaturesAssumption ==
  \A spec \in Specs : LET sig == spec.sig
                        named == {sig[i].name : i \in 1..Len(sig)}
    IN  /\ sig \in Seq({sig[i] : i \in 1..Len(sig)}) /\ named \subseteq STRING
        /\ sig # <<>> /\ sig[1].type = "context" => sig[1].kind # "args"
        /\ \A sent \in SUBSET named : None \notin [sent -> {"model", "run"}]

VARIABLES
  registry,  \* the ToolSpecs in the registry
  agent,     \* the agent built of them: their functions' names, the names they
             \* are registered under and the destructive ones of these
  open,      \* the conditional tools whose condition is met
  hidden,    \* the restricted tools the permission hides now
  run,       \* the request being served, or None
  waiting,   \* the calls deferred to a user: [user, name]
  ran,       \* history: the tool that ran last and whether it was approved
  last       \* history: the last call of the server in this step

vars == <<registry, agent, open, hidden, run, waiting, ran, last>>

-----------------------------------------------------------------------------
(* The tools and their sources                                             *)

Definition(name, source, kind, metadata, stamped) ==
  [name |-> name, source |-> source, kind |-> kind,
   metadata |-> metadata, stamped |-> stamped]

\* build_agent passes on the functions, and nothing else of a spec.
RegistryTools ==
  {Definition(n, "registry", "function", "none", FALSE) : n \in agent.functions}

\* Whoever comes first has the name; the transport passes these on.
ServerExcludesSlip == {}

ServerExcludes == agent.names

SpecsExcludeSlip == agent.names

SpecsExclude == agent.names \cup NamesOf(ServerTools)

\* build_spec_capability
SpecTools ==
  {Definition(t.name, "spec", "function", t.hint, FALSE) :
     t \in {u \in ServiceSpecs : u.name \notin SpecsExclude}}

ToolsetTools == {Definition(t.name, "toolset", t.kind, "none", t.stamped) : t \in Toolsets}

Listed == {t \in ServerTools : t.name \notin hidden}

Closed(t) == t.name \in Conditional /\ t.name \notin open

\* DRFMCPToolset._load_tool_defs
LoadToolDefsSlip ==
  {Definition(t.name, "server", "function",
              IF t.hint = "mutates" THEN "destructive" ELSE "none", FALSE) :
     t \in {u \in Listed : u.name \notin ServerExcludes /\ ~Closed(u)}}

LoadToolDefs ==
  {Definition(t.name, "server", "function",
              IF t.hint = "mutates" THEN "destructive" ELSE "none", FALSE) :
     t \in {u \in Listed : u.name \notin ServerExcludes}}

\* DRFMCPToolset._unavailable_tools
UnavailableTools == {t.name : t \in {u \in Listed : Closed(u)}} \ ServerExcludes

\* The definitions the bridge loads once a run, and what a step collects.
Definitions == IF run.defs = None THEN LoadToolDefs ELSE run.defs

Collected ==
  RegistryTools \cup {d \in Definitions : d.name \notin UnavailableTools}
    \cup SpecTools \cup ToolsetTools

\* build_tool_catalog: the source whose label a tool's card shows.
Catalog(name) ==
  IF name \in agent.names THEN "registry"
  ELSE IF name \in NamesOf(ServerTools) THEN "server"
  ELSE IF name \in NamesOf(ServiceSpecs) THEN "spec" ELSE None

-----------------------------------------------------------------------------
(* ToolGuard                                                               *)

DeclaresAMutationSlip(d) == d.metadata = "destructive" \/ d.stamped

DeclaresAMutation(d) == d.metadata \in {"destructive", "mutates"} \/ d.stamped

RequiresApproval(d) ==
  /\ d.name \notin Exempt
  /\ \/ d.name \in RequireApproval \cup agent.destructive
     \/ DeclaresAMutation(d)

PrepareTools(defs) ==
  {IF GuardEnabled /\ d.kind = "function" /\ RequiresApproval(d)
   THEN [d EXCEPT !.kind = "unapproved"] ELSE d : d \in defs}

-----------------------------------------------------------------------------
(* The gates of an endpoint                                                *)

\* aauthorize and authorize: 401 for no user, then 403 for one the predicate
\* rejects.
Deny(endpoint, user) ==
  IF endpoint.required /\ user \in {None, Anonymous} THEN 401
  ELSE IF user \in endpoint.forbids THEN 403 ELSE None

-----------------------------------------------------------------------------
Init ==
  /\ registry = {}
  /\ agent = None
  /\ open \in SUBSET Conditional
  /\ hidden = {}
  /\ run = None
  /\ waiting = {}
  /\ ran = None
  /\ last = None

RefusesSlip(spec) == spec \in registry

\* ToolRegistry.register raises for a name it has.
Refuses(spec) == spec.name \in NamesOf(registry)

Register(spec) ==
  /\ agent = None /\ ~Refuses(spec)
  /\ registry' = registry \cup {spec}
  /\ UNCHANGED <<agent, open, hidden, run, waiting, ran, last>>

\* build_agent takes the registry's functions, which pydantic-ai refuses when two
\* have one name, and ToolGuard the names of the destructive specs.
BuildAgent ==
  /\ agent = None
  /\ \A s, t \in registry : s.fn = t.fn => s = t
  /\ agent' = [functions |-> FunctionsOf(registry),
               names |-> NamesOf(registry),
               destructive |-> NamesOf({s \in registry : s.destructive})]
  /\ UNCHANGED <<registry, open, hidden, run, waiting, ran, last>>

Request(user, granted) ==
  [user |-> user, granted |-> granted, defs |-> None, seen |-> {}, offered |-> None,
   told |-> None, steady |-> TRUE]

\* A request whose user, the hook's or its own, the gates let through; one that
\* resumes brings the calls its user approved of those waiting.
Arrive(endpoint, user) ==
  LET asked == {x.name : x \in {y \in waiting : y.user = user}}
  IN  /\ agent # None /\ run = None /\ Deny(endpoint, user) = None
      /\ \E granted \in SUBSET asked : run' = Request(user, granted)
      /\ waiting' = {x \in waiting : x.user # user}
      /\ UNCHANGED <<registry, agent, open, hidden, ran, last>>

\* get_tools of every toolset, then prepare_tools.
GetTools ==
  /\ run # None /\ run.offered = None /\ Apart(Collected)
  /\ run' = [run EXCEPT
       !.defs    = Definitions,
       !.seen    = IF run.defs = None THEN NamesOf(Listed) \ agent.names ELSE @,
       !.offered = PrepareTools(Collected)]
  /\ UNCHANGED <<registry, agent, open, hidden, waiting, ran, last>>

\* Two toolsets claim a name: UserError ends the run.
NamesClash ==
  /\ run # None /\ run.offered = None /\ ~Apart(Collected)
  /\ run' = None
  /\ last' = None
  /\ UNCHANGED <<registry, agent, open, hidden, waiting, ran>>

\* The server answers tools/list with an error: RuntimeError ends the run.
ListFails ==
  /\ run # None /\ run.offered = None /\ run.defs = None
  /\ run' = None
  /\ last' = None
  /\ UNCHANGED <<registry, agent, open, hidden, waiting, ran>>

GetInstructions ==
  /\ run # None /\ run.told = None
  /\ run' = [run EXCEPT !.told = UnavailableTools]
  /\ UNCHANGED <<registry, agent, open, hidden, waiting, ran, last>>

ModelTurn == run # None /\ run.offered # None /\ run.told # None

Flips ==
  IF run = None THEN run' = run ELSE run' = [run EXCEPT !.steady = FALSE]

ConditionFlips(name) ==
  /\ open' = IF name \in open THEN open \ {name} ELSE open \cup {name}
  /\ Flips
  /\ UNCHANGED <<registry, agent, hidden, waiting, ran, last>>

PermissionFlips(name) ==
  /\ hidden' = IF name \in hidden THEN hidden \ {name} ELSE hidden \cup {name}
  /\ Flips
  /\ UNCHANGED <<registry, agent, open, waiting, ran, last>>

-----------------------------------------------------------------------------
(* The model's calls                                                       *)

Runs(d) ==
  ran' = [name |-> d.name, source |-> d.source, approved |-> d.name \in run.granted]

Executable(d) ==
  \/ d.kind = "function"
  \/ d.kind = "unapproved" /\ d.name \in run.granted

\* An unapproved tool waits for its user.
Defer ==
  /\ ModelTurn /\ Cardinality(waiting) < MaxWaiting
  /\ \E d \in run.offered :
       /\ d.kind = "unapproved" /\ d.name \notin run.granted
       /\ waiting' = waiting \cup {[user |-> run.user, name |-> d.name]}
  /\ UNCHANGED <<registry, agent, open, hidden, run, ran, last>>

Execute ==
  /\ ModelTurn
  /\ \E d \in run.offered :
       /\ Executable(d) /\ d.source # "server"
       /\ Runs(d)
       /\ run' = [run EXCEPT !.granted = @ \ {d.name}]
  /\ UNCHANGED <<registry, agent, open, hidden, waiting, last>>

\* The errors a server may report of a tool; it acts only when it may answer
\* with content, or fails halfway: a validation error and a request for more
\* input come first.
Answers(d) ==
  IF d.name \in hidden
  THEN {[kind |-> "jsonrpc", code |-> "INVALID_PARAMS", message |-> {},
         detail |-> {[keys |-> <<>>, words |-> d.name]}, acted |-> FALSE]}
  ELSE IF d.name \in Conditional \ open
  THEN {[kind |-> "error", acted |-> FALSE,
         error |-> [Unread EXCEPT !.type = "service_error", !.labels = {"code"}]]}
  ELSE {[kind |-> "content", acted |-> TRUE],
        [kind |-> "jsonrpc", code |-> "INTERNAL_ERROR", message |-> {}, detail |-> {},
         acted |-> FALSE]}
       \cup {[kind |-> "error", error |-> e,
              acted |-> ParseToolError([error |-> e]).type
                          \notin {"validation_error", "input_required"}] : e \in Errors}

CallServer ==
  /\ ModelTurn
  /\ \E d \in run.offered : \E answer \in Answers(d) :
       LET outcome == CallTool(run.defs, d.name, answer)
       IN  /\ Executable(d) /\ d.source = "server"
           /\ last' = [answer |-> answer, outcome |-> outcome]
           /\ IF answer.acted THEN Runs(d) ELSE UNCHANGED ran
           /\ run' = IF outcome.verdict = "abort" THEN None
                     ELSE [run EXCEPT !.granted = @ \ {d.name}]
  /\ UNCHANGED <<registry, agent, open, hidden, waiting>>

NextStep ==
  /\ ModelTurn
  /\ run' = [run EXCEPT !.offered = None, !.told = None, !.steady = TRUE]
  /\ last' = None
  /\ UNCHANGED <<registry, agent, open, hidden, waiting, ran>>

Finish ==
  /\ ModelTurn
  /\ run' = None
  /\ last' = None
  /\ UNCHANGED <<registry, agent, open, hidden, waiting, ran>>

Next ==
  \/ \E spec \in Specs : Register(spec)
  \/ BuildAgent
  \/ \E endpoint \in Endpoints, user \in Users : Arrive(endpoint, user)
  \/ GetTools \/ NamesClash \/ ListFails \/ GetInstructions
  \/ \E name \in Conditional : ConditionFlips(name)
  \/ \E name \in Restricted : PermissionFlips(name)
  \/ Defer \/ Execute \/ CallServer
  \/ NextStep \/ Finish

Spec == Init /\ [][Next]_vars
=============================================================================
