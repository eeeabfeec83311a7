------------------------- MODULE ToolCallProperties -------------------------
(* What audit and the failure policy promise of every call.                *)
EXTENDS ToolCall

Execution == [reached : BOOLEAN, args : Writers, started : Nat,
              settled : BOOLEAN, took : Account \cup {None}]

\* The state has the types of AuditCapability's attributes, and an execution is
\* settled exactly when it has taken an outcome.
TypeOK ==
  /\ hooksInside \in BOOLEAN
  /\ \A c \in Calls :
    /\ pc[c] \in [phase : Phases, at : 1..Last]
    /\ args[c] \in Writers
    /\ outcome[c] \in Outcome \cup {None}
    /\ clock[c] \in Nat
    /\ context[c] \in Reference \cup {None}
    /\ token[c] \in Reference \cup {None}
    /\ \A i \in 1..Len(exec[c]) :
         exec[c][i] \in Execution /\ (exec[c][i].settled <=> exec[c][i].took # None)
    /\ \A i \in 1..Len(records[c]) : records[c][i] \in Account
    /\ \A i \in 1..Len(runs[c]) : runs[c][i] \in Account
    /\ entries[c] \in 1..MaxEntries[c]

\* Every run of the tool is recorded once, in order, with the arguments the tool
\* received, its own outcome and none of another capability's hooks in its time,
\* whoever recovers, converts, rewrites, vetoes or runs it again (the promise at
\* audit_capability.py:43).  The last run may still be on its way to the record.
OneRecordPerRun ==
  \A c \in Calls :
    \/ records[c] = runs[c]
    \/ /\ pc[c].phase \notin {"idle", "wrap", "done"}
       /\ runs[c] # <<>>
       /\ records[c] = SubSeq(runs[c], 1, Len(runs[c]) - 1)

\* The policy is the last to hear of a failure: no other error hook is handed
\* its redacted copy (tool_failure_policy.py:56).
ConversionComesLast ==
  \A c \in Calls :
    pc[c].phase = "error" /\ Capability(c) # Policy
      => outcome[c].by # Policy

\* Whose exceptions pydantic-ai does not hand to the error hooks.
Unheard == {"before", "after"} \cup (IF hooksInside THEN {"wrap", "unwrap"} ELSE {})

\* With the policy on, neither the tool's own failure nor one an error hook or,
\* before 2.54, a wrapper raises ends the run (tool_failure_policy.py:62).  What
\* it converts never was a retry, a failed result or an exempt type; a deferral
\* or veto only if an error hook raised it in a failure's place (:33, :64); and
\* the tool's only if it is the newest run's, never one since recovered.
FailuresAreContained ==
  \A c \in Calls : pc[c] = Done =>
    /\ PolicyEnabled /\ outcome[c].kind \in Failures \ Reraise => outcome[c].phase \in Unheard
    /\ outcome[c].by = Policy =>
         LET cause == outcome[c].cause
         IN  /\ cause.kind \notin Reraise \cup Answers
             /\ cause.kind \in NotExecuted => cause.phase = "error"
             /\ cause.phase = "tool" =>
                  /\ runs[c] # <<>>
                  /\ runs[c][Len(runs[c])].outcome =
                       Says(cause.kind, "tool", "tool", outcome[c].entry)
=============================================================================
