------------------------------ MODULE ToolCall ------------------------------
(***************************************************************************)
(* One tool call on its way through the capabilities build_agent composes: *)
(* the failure policy first, audit last, a project's own between them.     *)
(* pydantic-ai runs the hooks; up to 2.53 the error and result hooks and   *)
(* before_tool_execute enclose the wrappers, from 2.54 the wrappers        *)
(* enclose them (hooksInside).  A call runs in an asyncio task of its own, *)
(* whose context is a copy of its creator's, so a call a tool makes starts *)
(* with the outer call's audit execution in its context.                   *)
(***************************************************************************)
EXTENDS Naturals, Sequences

CONSTANTS
  Calls,          \* the tool calls
  Parent,         \* Parent[c]: the call whose tool makes call c, or None
  None,
  Outermost,      \* the project's capabilities in each tier of pydantic-ai's
  Middle,         \*   ordering, each a sequence of names
  Innermost,
  PolicyEnabled,  \* config.tool_failure.enabled
  Reraise,        \* the failures ToolFailureConfig.reraise names
  Overrides,      \* Overrides[k]: the phases in which capability k does something
  Raises,         \* bound: the kinds of exception other capabilities raise around c,
  ToolRaises,     \*   and c's tool
  MaxEntries      \* bound: how often wrappers enter the rest of the chain for c

Audit  == "AuditCapability"
Policy == "ToolFailurePolicy"

ASSUME ToolCallAssumption ==
  /\ Parent \in [Calls -> Calls \cup {None}]
  /\ \A c \in Calls : Parent[c] # c
  /\ \A t \in {Outermost, Middle, Innermost} :
       t \in Seq(STRING) /\ \A i \in 1..Len(t) : t[i] \notin {Audit, Policy}
  /\ PolicyEnabled \in BOOLEAN
  /\ Raises \in [Calls -> SUBSET {"error", "denial", "retry", "failed", "skip", "deferral"}]
  /\ ToolRaises \in [Calls -> SUBSET {"error", "denial", "retry", "failed", "deferral"}]
  /\ MaxEntries \in [Calls -> Nat \ {0}]

VARIABLES
  hooksInside,  \* whether pydantic-ai 2.54 or later is installed
  pc,        \* pc[c]: the hook call c is at, a phase and a place in Chain
  args,      \* args[c]: who last wrote the arguments, "model" or a capability
  outcome,   \* outcome[c]: the result or exception on its way out
  clock,     \* clock[c]: how many hooks of other capabilities have run
  context,   \* context[c]: the audit execution in the task's context variable
  exec,      \* exec[c]: the executions audit has made for the call
  token,     \* token[c]: what the wrapper's reset puts back
  records,   \* records[c]: what the sink was given
  runs,      \* runs[c]: history, what the tool really did
  entries    \* entries[c]: how often the chain was entered

vars == <<hooksInside, pc, args, outcome, clock, context, exec, token, records, runs, entries>>

-----------------------------------------------------------------------------
(* The chain, outermost first.                                             *)

ChainSlip ==
  Outermost \o (IF PolicyEnabled THEN <<Policy>> ELSE <<>>)
    \o Middle \o Innermost \o <<Audit>>

Chain ==
  (IF PolicyEnabled THEN <<Policy>> ELSE <<>>)
    \o Outermost \o Middle \o Innermost \o <<Audit>>

Last == Len(Chain)

Inward  == {"wrap", "before"}            \* outermost first
Outward == {"error", "after", "unwrap"}  \* innermost first
Phases  == Inward \cup Outward \cup {"idle", "tool", "done"}

Enter(phase) == [phase |-> phase, at |-> IF phase \in Inward THEN 1 ELSE Last]

Idle == Enter("idle")
Done == Enter("done")

Failures    == {"error", "denial"}   \* ordinary exceptions, refusals of access
Answers     == {"retry", "failed"}   \* ModelRetry, ToolFailed
NotExecuted == {"skip", "deferral"}  \* SkipToolExecution, a deferral or approval
Raised      == Failures \cup Answers \cup NotExecuted
Kinds       == {"result"} \cup Raised

\* An outcome names who it is from, in which phase and entry of the chain, and
\* the exception it was raised from; an account is what audit tells of a run.
Writers   == {"model", "tool", Policy} \cup {Chain[i] : i \in 1..Last}
Cause     == [kind : Kinds, by : Writers, phase : Phases]
Outcome   == [kind : Kinds, by : Writers, phase : Phases, entry : Nat,
              cause : Cause \cup {None}]
Account   == [args : Writers, outcome : Outcome \cup {None}, hooks : Nat]
Reference == [call : Calls, n : Nat]

ASSUME NoneAssumption ==
  None \notin Calls \cup Cause \cup Outcome \cup Account \cup Reference

\* The phase that deals with an outcome once the tool or the wrappers are done.
Handles(out) ==
  IF out.kind = "result" THEN Enter("after")
  ELSE IF out.kind \in Failures THEN Enter("error")
  ELSE IF hooksInside THEN Enter("unwrap") ELSE Done

\* Where the call goes once a phase is through.
Past(phase, out) ==
  CASE phase = "before" -> IF hooksInside THEN Enter("tool") ELSE Enter("wrap")
    [] phase = "wrap"   -> IF hooksInside THEN Enter("before") ELSE Enter("tool")
    [] phase = "tool"   -> IF hooksInside THEN Handles(out) ELSE Enter("unwrap")
    [] phase = "unwrap" -> IF hooksInside THEN Done ELSE Handles(out)
    [] phase \in {"error", "after"} -> IF hooksInside THEN Enter("unwrap") ELSE Done

\* The next hook of the phase, or what follows it.
Onward(at, out) ==
  CASE at.phase \in Inward /\ at.at < Last -> [at EXCEPT !.at = @ + 1]
    [] at.phase \in Outward /\ at.at > 1   -> [at EXCEPT !.at = @ - 1]
    [] OTHER                               -> Past(at.phase, out)

\* A hook that raises ends its phase.
Stopped == IF hooksInside THEN Enter("unwrap") ELSE Done

Capability(c) == Chain[pc[c].at]

Moves(c, out) ==
  /\ outcome' = [outcome EXCEPT ![c] = out]
  /\ pc' = [pc EXCEPT ![c] = Onward(@, out)]

-----------------------------------------------------------------------------
(* Audit's executions.  They are made for a call and are told apart by it. *)

CurrentSlip(c) == context[c]

Current(c) ==
  IF context[c] # None /\ context[c].call = c THEN context[c] ELSE None

Seen(ref) == exec[ref.call][ref.n]

Fresh(reached, a, t) ==
  [reached |-> reached, args |-> a, started |-> t, settled |-> FALSE, took |-> None]

Adds(c, e) == exec' = [exec EXCEPT ![c] = Append(@, e)]

Changes(ref, e) == exec' = [exec EXCEPT ![ref.call][ref.n] = e]

Begin(e, a, t) == [e EXCEPT !.args = a, !.started = t]

SettleSlip(e, out, t) ==
  IF e.settled THEN e
  ELSE [e EXCEPT !.took = [args |-> e.args, outcome |-> out, hooks |-> t - e.started]]

Settle(e, out, t) ==
  IF e.settled THEN e
  ELSE [e EXCEPT !.settled = TRUE,
                 !.took = [args |-> e.args, outcome |-> out, hooks |-> t - e.started]]

DidNotExecute(e) == ~e.reached \/ e.took.outcome.kind \in NotExecuted

-----------------------------------------------------------------------------
Init ==
  /\ hooksInside \in BOOLEAN
  /\ pc = [c \in Calls |-> Idle]
  /\ args = [c \in Calls |-> "model"]
  /\ outcome = [c \in Calls |-> None]
  /\ clock = [c \in Calls |-> 0]
  /\ context = [c \in Calls |-> None]
  /\ exec = [c \in Calls |-> <<>>]
  /\ token = [c \in Calls |-> None]
  /\ records = [c \in Calls |-> <<>>]
  /\ runs = [c \in Calls |-> <<>>]
  /\ entries = [c \in Calls |-> 1]

Start(c) ==
  /\ pc[c] = Idle
  /\ Parent[c] # None => pc[Parent[c]].phase = "tool"
  /\ context' = [context EXCEPT
                   ![c] = IF Parent[c] = None THEN None ELSE context[Parent[c]]]
  /\ pc' = [pc EXCEPT ![c] = IF hooksInside THEN Enter("wrap") ELSE Enter("before")]
  /\ UNCHANGED <<args, outcome, clock, exec, token, records, runs, entries>>

\* AuditCapability.wrap_tool_execute up to the call of its handler.
AuditWraps(c) ==
  /\ pc[c].phase = "wrap" /\ Capability(c) = Audit
  /\ LET known   == Current(c)
         reached == known # None /\ Seen(known).reached
     IN  Adds(c, Fresh(reached, args[c], clock[c]))
  /\ context' = [context EXCEPT ![c] = [call |-> c, n |-> Len(exec[c]) + 1]]
  /\ token' = [token EXCEPT ![c] = context[c]]
  /\ Moves(c, outcome[c])
  /\ UNCHANGED <<args, clock, records, runs, entries>>

AuditBefore(c) ==
  /\ pc[c].phase = "before" /\ Capability(c) = Audit
  /\ LET known == Current(c)
     IN  IF known # None
         THEN /\ Changes(known, Begin([Seen(known) EXCEPT !.reached = TRUE],
                                      args[c], clock[c]))
              /\ UNCHANGED context
         ELSE /\ Adds(c, Fresh(TRUE, args[c], clock[c]))
              /\ context' = [context EXCEPT ![c] = [call |-> c, n |-> Len(exec[c]) + 1]]
  /\ Moves(c, outcome[c])
  /\ UNCHANGED <<args, clock, token, records, runs, entries>>

\* on_tool_execute_error and after_tool_execute, which settle and pass it on.
AuditHook(c) ==
  /\ pc[c].phase \in {"error", "after"} /\ Capability(c) = Audit
  /\ LET known == Current(c)
     IN  IF known # None
         THEN Changes(known, Settle(Seen(known), outcome[c], clock[c]))
         ELSE UNCHANGED exec
  /\ Moves(c, outcome[c])
  /\ UNCHANGED <<args, clock, context, token, records, runs, entries>>

Reset(c) == context' = [context EXCEPT ![c] = token[c]]

\* wrap_tool_execute after its handler returned or raised: settle, record, reset.
AuditUnwraps(c) ==
  /\ pc[c].phase = "unwrap" /\ Capability(c) = Audit
  /\ LET mine == [call |-> c, n |-> Len(exec[c])]
         e    == Settle(Seen(mine), outcome[c], clock[c])
     IN  /\ Changes(mine, e)
         /\ records' = IF DidNotExecute(e) THEN records
                       ELSE [records EXCEPT ![c] = Append(@, e.took)]
  /\ Reset(c)
  /\ Moves(c, outcome[c])
  /\ UNCHANGED <<args, clock, token, runs, entries>>

-----------------------------------------------------------------------------
(* The tool, with whatever calls it makes itself.                          *)

Says(kind, who, phase, n) ==
  [kind |-> kind, by |-> who, phase |-> phase, entry |-> n, cause |-> None]

Tool(c) ==
  /\ pc[c].phase = "tool"
  /\ \A d \in Calls : Parent[d] = c => pc[d] \in {Idle, Done}
  /\ \E kind \in {"result"} \cup ToolRaises[c] :
       LET out == Says(kind, "tool", "tool", entries[c])
       IN  /\ Moves(c, out)
           /\ runs' = IF kind \in NotExecuted THEN runs
                      ELSE [runs EXCEPT ![c] = Append(@,
                             [args |-> args[c], outcome |-> out, hooks |-> 0])]
  /\ UNCHANGED <<args, clock, context, exec, token, records, entries>>

-----------------------------------------------------------------------------
(* ToolFailurePolicy overrides on_tool_execute_error alone.                *)

ConvertsSlip(out) == out.kind \notin Reraise

Converts(out) == out.kind \notin Reraise /\ out.kind \notin Answers

\* raise PolicyToolFailed(...) from error
Fails(out) ==
  [out EXCEPT !.kind = "failed", !.by = Policy, !.phase = "error",
              !.cause = [kind |-> out.kind, by |-> out.by, phase |-> out.phase]]

PolicyFails(c) ==
  /\ pc[c].phase = "error" /\ Capability(c) = Policy
  /\ Moves(c, IF Converts(outcome[c]) THEN Fails(outcome[c]) ELSE outcome[c])
  /\ UNCHANGED <<args, clock, context, exec, token, records, runs, entries>>

\* A hook its capability does not override passes everything on.
Passes(c) ==
  /\ pc[c].phase \in Inward \cup Outward
  /\ \/ Capability(c) = Policy /\ pc[c].phase # "error"
     \/ Capability(c) \notin {Audit, Policy} /\ pc[c].phase \notin Overrides[Capability(c)]
  /\ Moves(c, outcome[c])
  /\ UNCHANGED <<args, clock, context, exec, token, records, runs, entries>>

-----------------------------------------------------------------------------
(* The project's own capabilities, each free in every hook: it may return  *)
(* what it was given or a value of its own, and raise anything.            *)

Overridden(c) ==
  Capability(c) \notin {Audit, Policy} /\ pc[c].phase \in Overrides[Capability(c)]

Ticks(c) == clock' = [clock EXCEPT ![c] = @ + 1]

Own(c, kind) == Says(kind, Capability(c), pc[c].phase, entries[c])

\* wrap_tool_execute and before_tool_execute may rewrite the arguments.
OtherPassesIn(c) ==
  /\ pc[c].phase \in Inward /\ Overridden(c)
  /\ \E a \in {args[c], Capability(c)} : args' = [args EXCEPT ![c] = a]
  /\ Ticks(c)
  /\ Moves(c, outcome[c])
  /\ UNCHANGED <<context, exec, token, records, runs, entries>>

\* before_tool_execute raises.  Nothing in src/ says whether the error hooks hear
\* of a failure there, so both are allowed.
OtherStops(c) ==
  /\ pc[c].phase = "before" /\ Overridden(c)
  /\ \E kind \in Raises[c] :
       /\ outcome' = [outcome EXCEPT ![c] = Own(c, kind)]
       /\ \E to \in {Stopped} \cup (IF kind \in Failures THEN {Enter("error")} ELSE {}) :
            pc' = [pc EXCEPT ![c] = to]
  /\ Ticks(c)
  /\ UNCHANGED <<args, context, exec, token, records, runs, entries>>

\* A wrapper that answers or raises without calling its handler.
OtherIntercepts(c) ==
  /\ pc[c].phase = "wrap" /\ Overridden(c)
  /\ \E kind \in {"result"} \cup Raises[c] :
       /\ outcome' = [outcome EXCEPT ![c] = Own(c, kind)]
       /\ pc' = [pc EXCEPT ![c] = Onward([@ EXCEPT !.phase = "unwrap"], Own(c, kind))]
  /\ Ticks(c)
  /\ UNCHANGED <<args, context, exec, token, records, runs, entries>>

\* An error hook passes the exception on or raises its own, which the next one is
\* handed; a result hook passes or rewrites the result; a wrapper returns or
\* raises what it got or its own.
OtherPassesOut(c) ==
  /\ pc[c].phase \in Outward /\ Overridden(c)
  /\ LET own == CASE pc[c].phase = "error"  -> Raises[c]
                  [] pc[c].phase = "after"  -> {"result"}
                  [] pc[c].phase = "unwrap" -> {"result"} \cup Raises[c]
     IN  \E out \in {outcome[c]} \cup {Own(c, kind) : kind \in own} : Moves(c, out)
  /\ Ticks(c)
  /\ UNCHANGED <<args, context, exec, token, records, runs, entries>>

\* An error hook that returns a value has recovered: the result hooks run.
OtherRecovers(c) ==
  /\ pc[c].phase = "error" /\ Overridden(c)
  /\ outcome' = [outcome EXCEPT ![c] = Own(c, "result")]
  /\ pc' = [pc EXCEPT ![c] = Enter("after")]
  /\ Ticks(c)
  /\ UNCHANGED <<args, context, exec, token, records, runs, entries>>

\* A result hook that raises refuses a result the tool gave, or fails.
OtherRejects(c) ==
  /\ pc[c].phase = "after" /\ Overridden(c)
  /\ \E kind \in Raises[c] : outcome' = [outcome EXCEPT ![c] = Own(c, kind)]
  /\ pc' = [pc EXCEPT ![c] = Stopped]
  /\ Ticks(c)
  /\ UNCHANGED <<args, context, exec, token, records, runs, entries>>

\* A wrapper may call its handler again, with arguments of its choice.
OtherReruns(c) ==
  /\ pc[c].phase = "unwrap" /\ Overridden(c)
  /\ entries[c] < MaxEntries[c]
  /\ entries' = [entries EXCEPT ![c] = @ + 1]
  /\ \E a \in {"model", Capability(c)} : args' = [args EXCEPT ![c] = a]
  /\ pc' = [pc EXCEPT ![c] = [phase |-> "wrap", at |-> pc[c].at + 1]]
  /\ outcome' = [outcome EXCEPT ![c] = None]
  /\ Ticks(c)
  /\ UNCHANGED <<context, exec, token, records, runs>>

-----------------------------------------------------------------------------
AuditStep(c) == AuditWraps(c) \/ AuditBefore(c) \/ AuditHook(c) \/ AuditUnwraps(c)

PolicyStep(c) == PolicyFails(c) \/ Passes(c)

OtherStep(c) ==
  \/ OtherPassesIn(c) \/ OtherStops(c) \/ OtherIntercepts(c) \/ OtherPassesOut(c)
  \/ OtherRecovers(c) \/ OtherRejects(c) \/ OtherReruns(c)

Next ==
  /\ \E c \in Calls :
       Start(c) \/ AuditStep(c) \/ Tool(c) \/ PolicyStep(c) \/ OtherStep(c)
  /\ UNCHANGED hooksInside

Spec == Init /\ [][Next]_vars
=============================================================================
