--------------------------- MODULE ToolCallProofs ---------------------------
(***************************************************************************)
(* Audit's promise and the failure policy's hold for any calls that make   *)
(* calls, any capabilities in any tier with any hooks overridden, any      *)
(* reraised failures, either order of pydantic-ai's hooks and any number   *)
(* of re-entries.                                                          *)
(*                                                                         *)
(* The invariant says, for each place a call can be at, how the ledger of  *)
(* recorded and real runs stands and which of audit's executions the       *)
(* context holds.  What carries it is that audit is the last of the chain: *)
(* between its wrapper and its hooks there is nobody else.                 *)
(***************************************************************************)
EXTENDS ToolCallProperties, TLAPS, SequenceTheorems

\* The variables are functions of the calls; TypeOK says less, so that TLC need
\* not enumerate the sequences.
Types ==
  /\ hooksInside \in BOOLEAN
  /\ pc \in [Calls -> [phase : Phases, at : 1..Last]]
  /\ args \in [Calls -> Writers]
  /\ outcome \in [Calls -> Outcome \cup {None}]
  /\ clock \in [Calls -> Nat]
  /\ context \in [Calls -> Reference \cup {None}]
  /\ token \in [Calls -> Reference \cup {None}]
  /\ exec \in [Calls -> Seq(Execution)]
  /\ records \in [Calls -> Seq(Account)]
  /\ runs \in [Calls -> Seq(Account)]
  /\ entries \in [Calls -> Nat]

\* Executions are numbered as they are made, start in the past, and are settled
\* when they have taken an outcome.
ExecutionsOK(c) ==
  \A i \in 1..Len(exec[c]) :
    exec[c][i].started <= clock[c] /\ (exec[c][i].settled <=> exec[c][i].took # None)

\* An execution somebody refers to has been made.
Made(ref) == ref # None => ref.n \in 1..Len(exec[ref.call])

\* ref is an execution of c, or of c that has been reached.
IsOf(c, ref) == ref # None /\ ref.call = c

Reached(c, ref) == IsOf(c, ref) /\ exec[c][ref.n].reached

\* The execution the wrapper made last.
Latest(c) == exec[c][Len(exec[c])]

\* The record tells of every run, or is one run behind.
Even(c) == records[c] = runs[c]
Owes(c, account) == runs[c] = Append(records[c], account)

\* Audit's wrapper is around c's call.
Watched(c) ==
  exec[c] # <<>> /\ context[c] = [call |-> c, n |-> Len(exec[c])]

\* The tool has not been reached yet, is to run, has run, and audit has heard.
Waits(c) == Even(c) /\ Watched(c) /\ ~Latest(c).settled /\ ~Latest(c).reached

\* So it stays where a capability ahead of audit fails, whether audit hears of it.
Refused(c) == Even(c) /\ Watched(c) /\ ~Latest(c).reached

Armed(c) ==
  /\ Watched(c) /\ ~Latest(c).settled /\ Latest(c).reached
  /\ Latest(c).args = args[c] /\ Latest(c).started = clock[c]

Returned(c) ==
  /\ Armed(c)
  /\ IF outcome[c].kind \in NotExecuted THEN Even(c)
     ELSE Owes(c, [args |-> args[c], outcome |-> outcome[c], hooks |-> 0])

Heard(c) ==
  /\ Watched(c) /\ Latest(c).settled /\ Latest(c).reached
  /\ Owes(c, Latest(c).took) /\ Latest(c).took.outcome.kind \notin NotExecuted

At(c, phase) == pc[c].phase = phase

\* How the ledger stands up to pydantic-ai 2.53 and from 2.54.
HooksOutside(c) ==
  /\ At(c, "idle") \/ At(c, "before") => Even(c) /\ ~IsOf(c, context[c])
  /\ At(c, "wrap") => Even(c) /\ Reached(c, context[c])
  /\ At(c, "error") \/ At(c, "after") => Even(c)
  /\ At(c, "tool") => Even(c) /\ Armed(c) /\ Reached(c, token[c])
  /\ At(c, "unwrap") => IF pc[c].at = Last THEN Returned(c) /\ Reached(c, token[c])
                        ELSE Even(c) /\ Reached(c, context[c])
  /\ At(c, "done") => Even(c)

HooksInside(c) ==
  /\ At(c, "idle") \/ At(c, "wrap") => Even(c) /\ ~IsOf(c, context[c])
  /\ At(c, "before") => Waits(c) /\ ~IsOf(c, token[c])
  /\ At(c, "tool") => Even(c) /\ Armed(c) /\ ~IsOf(c, token[c])
  /\ At(c, "error") \/ At(c, "after") =>
       (Heard(c) \/ Refused(c) \/ (pc[c].at = Last /\ Returned(c))) /\ ~IsOf(c, token[c])
  /\ At(c, "unwrap") => IF pc[c].at = Last
                        THEN (Returned(c) \/ Heard(c) \/ Refused(c)) /\ ~IsOf(c, token[c])
                        ELSE Even(c) /\ ~IsOf(c, context[c])
  /\ At(c, "done") => Even(c)

LedgerOK(c) == IF hooksInside THEN HooksInside(c) ELSE HooksOutside(c)

\* What the tool did last.
LastRun(c) == runs[c][Len(runs[c])]

\* An error hook is handed exceptions, the first of them the tool's, a wrapper's or
\* a before hook's failure.
Handed(c) ==
  /\ outcome[c].kind \in Raised
  /\ pc[c].at = Last => outcome[c].kind \in Failures
  /\ outcome[c].kind \in NotExecuted => outcome[c].phase = "error"

\* What the tool is said to have done is what it did last.
IsLastRun(c) ==
  /\ outcome[c] = Says(outcome[c].kind, "tool", "tool", outcome[c].entry)
  /\ outcome[c].kind \notin NotExecuted => runs[c] # <<>> /\ LastRun(c).outcome = outcome[c]

\* The hooks are over and only wrappers may follow.
Through(c) == At(c, "done") \/ (hooksInside /\ At(c, "unwrap"))

\* What the policy made its answer of.
Answered(c) ==
  LET cause == outcome[c].cause
  IN  /\ cause.kind \notin Reraise \cup Answers
      /\ cause.kind \in NotExecuted => cause.phase = "error"
      /\ cause.phase = "tool" =>
           runs[c] # <<>> /\ LastRun(c).outcome = Says(cause.kind, "tool", "tool", outcome[c].entry)

\* What comes out of the tool and of the hooks in each phase, and who answers.
OutcomesOK(c) ==
  /\ At(c, "idle") => exec[c] = <<>> /\ context[c] = None
  /\ At(c, "idle") \/ At(c, "wrap") \/ At(c, "before") \/ At(c, "tool") => outcome[c] = None
  /\ At(c, "error") \/ At(c, "after") \/ At(c, "unwrap") \/ At(c, "done") => outcome[c] # None
  /\ At(c, "error") => Handed(c)
  /\ At(c, "after") => outcome[c].kind = "result"
  /\ outcome[c] # None /\ outcome[c].phase = "tool" => IsLastRun(c)
  /\ outcome[c] # None /\ outcome[c].by = Policy => Through(c) /\ Answered(c)
  /\ PolicyEnabled /\ Through(c) /\ outcome[c].kind \in Failures \ Reraise =>
       outcome[c].phase \in Unheard

CallOK(c) ==
  /\ ExecutionsOK(c) /\ Made(context[c]) /\ Made(token[c])
  /\ LedgerOK(c) /\ OutcomesOK(c) /\ entries[c] \in 1..MaxEntries[c]

IInv == Types /\ \A c \in Calls : CallOK(c)

-----------------------------------------------------------------------------
(* The chain                                                               *)

Names == STRING \cup {Audit, Policy}

Plain(t) == t \in Seq(Names) /\ \A i \in 1..Len(t) : t[i] \notin {Audit, Policy}

Front(s) ==
  /\ s \in Seq(Names) /\ (PolicyEnabled => Len(s) >= 1)
  /\ \A i \in 1..Len(s) : s[i] # Audit /\ (s[i] = Policy <=> PolicyEnabled /\ i = 1)

\* Capabilities of a project put behind a front leave it a front.
LEMMA FrontGrows ==
  ASSUME NEW s, NEW t, Front(s), Plain(t)
  PROVE  Front(s \o t)
<1>1. s \in Seq(Names) /\ t \in Seq(Names)
  BY DEF Front, Plain
<1>2. /\ s \o t \in Seq(Names) /\ Len(s \o t) = Len(s) + Len(t)
      /\ \A i \in 1..(Len(s) + Len(t)) :
           (s \o t)[i] = IF i <= Len(s) THEN s[i] ELSE t[i - Len(s)]
  BY <1>1, ConcatProperties
<1>3. Len(s) \in Nat /\ Len(t) \in Nat
  BY <1>1
<1>4. ASSUME NEW i \in 1..Len(s \o t)
      PROVE  (s \o t)[i] # Audit /\ ((s \o t)[i] = Policy <=> PolicyEnabled /\ i = 1)
  <2>1. CASE i <= Len(s)
    BY <1>2, <1>3, <2>1 DEF Front
  <2>2. CASE i > Len(s)
    <3>1. i - Len(s) \in 1..Len(t) /\ (s \o t)[i] = t[i - Len(s)]
      BY <1>2, <1>3, <2>2
    <3>2. ~(PolicyEnabled /\ i = 1)
      BY <1>3, <2>2 DEF Front
    <3>3. QED
      BY <3>1, <3>2 DEF Plain
  <2>3. QED
    BY <1>2, <1>3, <2>1, <2>2
<1>5. QED
  BY <1>2, <1>3, <1>4 DEF Front

\* A sequence of one name.
LEMMA Singleton ==
  ASSUME NEW S, NEW x \in S
  PROVE  <<x>> \in Seq(S) /\ Len(<<x>>) = 1 /\ <<x>>[1] = x
OBVIOUS

\* Audit is the innermost of the chain and, when on, the policy the outermost.
LEMMA ChainFacts ==
  /\ Last \in Nat \ {0} /\ (PolicyEnabled => Last >= 2)
  /\ \A i \in 1..Last : /\ Chain[i] = Audit <=> i = Last
                        /\ Chain[i] = Policy <=> PolicyEnabled /\ i = 1
                        /\ Chain[i] \in Writers
<1> DEFINE first == IF PolicyEnabled THEN <<Policy>> ELSE <<>>
           front == first \o Outermost \o Middle \o Innermost
<1>1. Plain(Outermost) /\ Plain(Middle) /\ Plain(Innermost) /\ PolicyEnabled \in BOOLEAN
  BY ToolCallAssumption DEF Plain, Names
<1>2. Front(first)
  <2>1. Policy \in Names /\ Policy # Audit
    BY DEF Names, Audit, Policy
  <2>2. CASE PolicyEnabled
    <3>1. first = <<Policy>>
      BY <2>2
    <3>2. QED
      BY <2>1, <2>2, <3>1, Singleton DEF Front
  <2>3. CASE ~PolicyEnabled
    BY <2>3 DEF Front
  <2>4. QED
    BY <2>2, <2>3
<1>3. Front(front)
  BY <1>1, <1>2, FrontGrows
<1>4. Chain = front \o <<Audit>>
  BY DEF Chain
<1> HIDE DEF front
<1>5. /\ front \in Seq(Names) /\ Len(front) \in Nat /\ Len(Chain) = Len(front) + 1
      /\ \A i \in 1..(Len(front) + 1) :
           Chain[i] = IF i <= Len(front) THEN front[i] ELSE Audit
  <2>1. Audit \in Names
    BY DEF Names
  <2>2. front \in Seq(Names)
    BY <1>3 DEF Front
  <2>3. QED
    BY <1>4, <2>1, <2>2, Singleton, ConcatProperties
<1>6. Audit # Policy
  BY DEF Audit, Policy
<1>7. QED
  BY <1>3, <1>5, <1>6 DEF Front, Last, Writers

\* The next place within a phase, by the two orders hooks run in.
LEMMA OnwardCases ==
  ASSUME NEW p \in [phase : Inward \cup Outward \cup {"tool"}, at : 1..Last], NEW out
  PROVE  /\ p.phase \in Inward /\ p.at < Last =>
              Onward(p, out).phase = p.phase /\ Onward(p, out).at = p.at + 1
         /\ p.phase \in Outward /\ p.at > 1 =>
              Onward(p, out).phase = p.phase /\ Onward(p, out).at = p.at - 1
         /\ ~(p.phase \in Inward /\ p.at < Last) /\ ~(p.phase \in Outward /\ p.at > 1) =>
              Onward(p, out) = Past(p.phase, out)
BY DEF Onward, Inward, Outward

\* The place after a phase.
LEMMA PastCases ==
  ASSUME NEW out
  PROVE  /\ Past("before", out) = IF hooksInside THEN Enter("tool") ELSE Enter("wrap")
         /\ Past("wrap", out) = IF hooksInside THEN Enter("before") ELSE Enter("tool")
         /\ Past("tool", out) = IF hooksInside THEN Handles(out) ELSE Enter("unwrap")
         /\ Past("unwrap", out) = IF hooksInside THEN Done ELSE Handles(out)
         /\ Past("error", out) = IF hooksInside THEN Enter("unwrap") ELSE Done
         /\ Past("after", out) = IF hooksInside THEN Enter("unwrap") ELSE Done
BY DEF Past

\* A phase is entered at its outermost or its innermost hook.
LEMMA EnterCases ==
  /\ \A phase \in Inward : Enter(phase).phase = phase /\ Enter(phase).at = 1
  /\ \A phase \in {"idle", "tool", "done"} \cup Outward :
       Enter(phase).phase = phase /\ Enter(phase).at = Last
  /\ \A phase \in Phases : Enter(phase) \in [phase : Phases, at : 1..Last]
BY ChainFacts DEF Enter, Inward, Outward, Phases

\* A hook leads to a place of the chain.
LEMMA OnwardTyped ==
  ASSUME NEW p \in [phase : Inward \cup Outward \cup {"tool"}, at : 1..Last], NEW out
  PROVE  Onward(p, out) \in [phase : Phases, at : 1..Last]
<1>1. CASE p.phase \in Inward /\ p.at < Last
  <2>1. Onward(p, out) = [p EXCEPT !.at = @ + 1]
    BY <1>1 DEF Onward, Inward, Outward
  <2>2. p.at + 1 \in 1..Last
    BY <1>1, ChainFacts
  <2>3. QED
    BY <2>1, <2>2 DEF Phases
<1>2. CASE p.phase \in Outward /\ p.at > 1
  <2>1. Onward(p, out) = [p EXCEPT !.at = @ - 1]
    BY <1>2 DEF Onward, Inward, Outward
  <2>2. p.at - 1 \in 1..Last
    BY <1>2, ChainFacts
  <2>3. QED
    BY <2>1, <2>2 DEF Phases
<1>3. CASE ~(p.phase \in Inward /\ p.at < Last) /\ ~(p.phase \in Outward /\ p.at > 1)
  <2>1. Onward(p, out) = Past(p.phase, out)
    BY <1>3, OnwardCases
  <2>2. Handles(out) \in [phase : Phases, at : 1..Last]
    BY EnterCases DEF Handles, Done, Phases, Inward, Outward
  <2>3. QED
    BY <2>1, <2>2, PastCases, EnterCases DEF Phases, Inward, Outward, Done
<1>4. QED
  BY <1>1, <1>2, <1>3

-----------------------------------------------------------------------------
(* What an action changes is the call's own                                *)

Call(d) ==
  <<pc[d], args[d], outcome[d], clock[d], context[d], exec[d], token[d], records[d], runs[d],
    entries[d]>>

OthersStay(c) == \A d \in Calls \ {c} : Call(d)' = Call(d)

\* The executions of a call are never dropped.
Grows(c) == Len(exec[c]) <= Len(exec'[c])

\* So whatever holds of the other calls goes on holding of them.
LEMMA OthersKeep ==
  ASSUME IInv, NEW c \in Calls, OthersStay(c), Grows(c), Types', UNCHANGED hooksInside,
         CallOK(c)'
  PROVE  IInv'
<1>1. ASSUME NEW d \in Calls \ {c}
      PROVE  /\ pc'[d] = pc[d] /\ args'[d] = args[d] /\ outcome'[d] = outcome[d]
             /\ clock'[d] = clock[d] /\ context'[d] = context[d] /\ exec'[d] = exec[d]
             /\ token'[d] = token[d] /\ records'[d] = records[d] /\ runs'[d] = runs[d]
             /\ entries'[d] = entries[d]
  BY DEF OthersStay, Call
<1>2. \A d \in Calls : Len(exec[d]) \in Nat /\ Len(exec'[d]) \in Nat /\ Len(exec[d]) <= Len(exec'[d])
  <2>1. \A d \in Calls : exec[d] \in Seq(Execution) /\ exec'[d] \in Seq(Execution)
    BY DEF IInv, Types
  <2>2. \A d \in Calls : Len(exec[d]) \in Nat /\ Len(exec'[d]) \in Nat
    BY <2>1
  <2>3. QED
    BY <1>1, <2>2 DEF Grows
<1>3. ASSUME NEW ref \in Reference \cup {None}, Made(ref)
      PROVE  Made(ref)'
  BY <1>2, <1>3 DEF Made, Reference
<1>4. ASSUME NEW d \in Calls \ {c}
      PROVE  CallOK(d)'
  <2>1. CallOK(d) /\ context[d] \in Reference \cup {None} /\ token[d] \in Reference \cup {None}
    BY DEF IInv, Types
  <2>2. Made(context[d])' /\ Made(token[d])'
    BY <1>1, <1>3, <2>1 DEF CallOK, Made
  <2>3. ExecutionsOK(d)' /\ entries'[d] \in 1..MaxEntries[d]
    BY <1>1, <2>1 DEF CallOK, ExecutionsOK
  <2>4. OutcomesOK(d)'
    BY <1>1, <2>1 DEF CallOK, OutcomesOK, Handed, IsLastRun, Through, Answered, Unheard, At, LastRun
  <2>5. HooksInside(d)' = HooksInside(d) /\ HooksOutside(d)' = HooksOutside(d)
    <3>1. /\ Even(d)' = Even(d) /\ Waits(d)' = Waits(d) /\ Armed(d)' = Armed(d)
          /\ Returned(d)' = Returned(d) /\ Heard(d)' = Heard(d) /\ Refused(d)' = Refused(d)
      BY <1>1 DEF Even, Owes, Latest, Watched, Waits, Armed, Returned, Heard, Refused
    <3>2. HooksInside(d)' = HooksInside(d)
      BY <1>1, <3>1 DEF HooksInside, At, IsOf, Reached
    <3>3. HooksOutside(d)' = HooksOutside(d)
      BY <1>1, <3>1 DEF HooksOutside, At, IsOf, Reached
    <3>4. QED
      BY <3>2, <3>3
  <2>6. LedgerOK(d)'
    BY <2>1, <2>5 DEF CallOK, LedgerOK
  <2>7. QED
    BY <2>2, <2>3, <2>4, <2>6 DEF CallOK
<1>5. QED
  BY <1>4 DEF IInv

\* The call of an execution audit finds in its context is the one at hand.
LEMMA CurrentIs ==
  ASSUME NEW c \in Calls
  PROVE  Current(c) = IF IsOf(c, context[c]) THEN context[c] ELSE None
BY DEF Current, IsOf

\* An execution is settled once.
LEMMA SettleIs ==
  ASSUME NEW e, NEW out, NEW t
  PROVE  e.settled => Settle(e, out, t) = e
BY DEF Settle

\* Settling takes the outcome and leaves the rest.
LEMMA SettleTyped ==
  ASSUME NEW e \in Execution, NEW out \in Outcome \cup {None}, NEW t \in Nat, e.started <= t
  PROVE  /\ Settle(e, out, t) \in Execution
         /\ Settle(e, out, t).settled
         /\ (Settle(e, out, t).reached <=> e.reached) /\ Settle(e, out, t).started = e.started
         /\ ~e.settled => Settle(e, out, t).took = [args |-> e.args, outcome |-> out, hooks |-> t - e.started]
<1>1. CASE e.settled
  BY <1>1 DEF Settle
<1>2. CASE ~e.settled
  <2> DEFINE account == [args |-> e.args, outcome |-> out, hooks |-> t - e.started]
  <2>1. account \in Account
    BY DEF Account, Execution
  <2>2. Settle(e, out, t) = [e EXCEPT !.settled = TRUE, !.took = account]
    BY <1>2 DEF Settle
  <2> HIDE DEF account
  <2>3. QED
    BY <2>1, <2>2, <1>2 DEF Execution, account
<1>3. QED
  BY <1>1, <1>2

\* Where a hook that does not raise leads.
LEMMA MovesTo ==
  ASSUME Types, NEW c \in Calls, NEW out \in Outcome \cup {None}, Moves(c, out),
         pc[c].phase \in Inward \cup Outward \cup {"tool"}
  PROVE  /\ pc' \in [Calls -> [phase : Phases, at : 1..Last]]
         /\ outcome' \in [Calls -> Outcome \cup {None}] /\ outcome'[c] = out
         /\ \A d \in Calls \ {c} : pc'[d] = pc[d] /\ outcome'[d] = outcome[d]
         /\ pc[c].phase \in Inward /\ pc[c].at < Last =>
              pc'[c].phase = pc[c].phase /\ pc'[c].at = pc[c].at + 1
         /\ pc[c].phase \in Outward /\ pc[c].at > 1 =>
              pc'[c].phase = pc[c].phase /\ pc'[c].at = pc[c].at - 1
         /\ pc[c].phase = "before" /\ pc[c].at = Last =>
              IF hooksInside THEN pc'[c] = Enter("tool") ELSE pc'[c] = Enter("wrap")
         /\ pc[c].phase = "wrap" /\ pc[c].at = Last =>
              IF hooksInside THEN pc'[c] = Enter("before") ELSE pc'[c] = Enter("tool")
         /\ pc[c].phase = "tool" =>
              IF hooksInside THEN pc'[c] = Handles(out) ELSE pc'[c] = Enter("unwrap")
         /\ pc[c].phase = "unwrap" /\ pc[c].at = 1 =>
              IF hooksInside THEN pc'[c] = Done ELSE pc'[c] = Handles(out)
         /\ pc[c].phase \in {"error", "after"} /\ pc[c].at = 1 =>
              IF hooksInside THEN pc'[c] = Enter("unwrap") ELSE pc'[c] = Done
<1> DEFINE p == pc[c]
           to == Onward(p, out)
<1>1. p \in [phase : Inward \cup Outward \cup {"tool"}, at : 1..Last]
  BY DEF Types
<1>2. to \in [phase : Phases, at : 1..Last]
  BY <1>1, OnwardTyped
<1>3. pc' = [pc EXCEPT ![c] = to] /\ outcome' = [outcome EXCEPT ![c] = out]
  BY DEF Moves
<1>4. /\ p.phase \in Inward /\ p.at < Last => to.phase = p.phase /\ to.at = p.at + 1
      /\ p.phase \in Outward /\ p.at > 1 => to.phase = p.phase /\ to.at = p.at - 1
      /\ ~(p.phase \in Inward /\ p.at < Last) /\ ~(p.phase \in Outward /\ p.at > 1) =>
              to = Past(p.phase, out)
  BY <1>1, OnwardCases
<1>5. pc'[c] = to /\ Last \in Nat \ {0}
  BY <1>3, ChainFacts DEF Types
<1>6. /\ pc' \in [Calls -> [phase : Phases, at : 1..Last]]
      /\ outcome' \in [Calls -> Outcome \cup {None}] /\ outcome'[c] = out
      /\ \A d \in Calls \ {c} : pc'[d] = pc[d] /\ outcome'[d] = outcome[d]
  BY <1>2, <1>3 DEF Types
<1> HIDE DEF to
<1>7. /\ p.phase \in Inward /\ p.at = Last => to = Past(p.phase, out)
      /\ p.phase \in Outward /\ p.at = 1 => to = Past(p.phase, out)
      /\ p.phase = "tool" => to = Past(p.phase, out)
  BY <1>1, <1>4, <1>5 DEF Inward, Outward
<1>8. QED
  BY <1>4, <1>5, <1>6, <1>7, PastCases DEF Inward, Outward

\* The places a phase, a stop or an outcome enters.
LEMMA Places ==
  /\ Done.phase = "done"
  /\ \A phase \in {"error", "after", "unwrap", "tool"} :
       Enter(phase).phase = phase /\ Enter(phase).at = Last
  /\ \A phase \in {"wrap", "before"} : Enter(phase).phase = phase /\ Enter(phase).at = 1
  /\ Stopped = IF hooksInside THEN Enter("unwrap") ELSE Done
BY EnterCases DEF Done, Stopped, Inward, Outward

\* Which phase deals with an outcome.
LEMMA HandlesCases ==
  ASSUME NEW out
  PROVE  /\ out.kind = "result" => Handles(out) = Enter("after")
         /\ out.kind \in Failures => Handles(out) = Enter("error")
         /\ out.kind # "result" /\ out.kind \notin Failures =>
              Handles(out) = IF hooksInside THEN Enter("unwrap") ELSE Done
BY DEF Handles, Failures

-----------------------------------------------------------------------------
(* Outcomes: what a hook may do to one, and that audit and the policy know *)
(* whose it is                                                             *)

ByOther(c, out) ==
  /\ out \in Outcome /\ out.by # Policy /\ out.phase = pc[c].phase
  /\ CASE pc[c].phase = "error"  -> out.kind \in Raised
       [] pc[c].phase = "after"  -> out.kind = "result"
       [] pc[c].phase = "unwrap" -> TRUE
       [] OTHER -> FALSE

ByPolicy(c, out) ==
  /\ PolicyEnabled /\ pc[c].phase = "error" /\ pc[c].at = 1
  /\ Converts(outcome[c])
  /\ out \in Outcome /\ out = Fails(outcome[c])

\* The policy's answer names what it was made of.
LEMMA FailsIs ==
  ASSUME NEW out \in Outcome
  PROVE  /\ Fails(out) \in Outcome /\ Fails(out).kind = "failed" /\ Fails(out).by = Policy
         /\ Fails(out).phase = "error" /\ Fails(out).entry = out.entry
         /\ Fails(out).cause = [kind |-> out.kind, by |-> out.by, phase |-> out.phase]
<1> DEFINE cause == [kind |-> out.kind, by |-> out.by, phase |-> out.phase]
<1>1. cause \in Cause
  BY DEF Cause, Outcome
<1>2. Fails(out) = [out EXCEPT !.kind = "failed", !.by = Policy, !.phase = "error", !.cause = cause]
  BY DEF Fails
<1> HIDE DEF cause
<1>3. "failed" \in Kinds /\ Policy \in Writers /\ "error" \in Phases
  BY DEF Kinds, Raised, Answers, Writers, Phases, Outward
<1>4. /\ Fails(out) \in Outcome /\ Fails(out).kind = "failed" /\ Fails(out).by = Policy
      /\ Fails(out).phase = "error" /\ Fails(out).entry = out.entry
      /\ Fails(out).cause = cause
  BY <1>1, <1>2, <1>3 DEF Outcome
<1>5. QED
  BY <1>4 DEF cause

\* A failure the policy converts on is one it may answer for.
LEMMA AnswersFor ==
  ASSUME NEW c \in Calls, outcome[c] \in Outcome, Converts(outcome[c]), OutcomesOK(c),
         At(c, "error"), outcome'[c] = Fails(outcome[c]), runs'[c] = runs[c]
  PROVE  Answered(c)'
<1>1. /\ Handed(c) /\ outcome[c] # None /\ outcome[c].kind \notin Reraise \cup Answers
      /\ outcome[c].phase = "tool" => IsLastRun(c)
  BY DEF OutcomesOK, Converts
<1>2. /\ outcome'[c].cause.kind = outcome[c].kind /\ outcome'[c].cause.phase = outcome[c].phase
      /\ outcome'[c].entry = outcome[c].entry
  <2> DEFINE out == outcome[c]
             cause == [kind |-> out.kind, by |-> out.by, phase |-> out.phase]
  <2>1. cause.kind = out.kind /\ cause.phase = out.phase
    OBVIOUS
  <2>2. outcome'[c].cause = cause /\ outcome'[c].entry = out.entry
    BY FailsIs
  <2> HIDE DEF cause
  <2>3. QED
    BY <2>1, <2>2
<1>3. outcome[c].kind \in NotExecuted => outcome[c].phase = "error"
  BY <1>1 DEF Handed
<1>4. ASSUME outcome[c].phase = "tool"
      PROVE  /\ runs[c] # <<>>
             /\ LastRun(c).outcome = Says(outcome[c].kind, "tool", "tool", outcome[c].entry)
  BY <1>1, <1>3, <1>4 DEF IsLastRun
<1>5. QED
  BY <1>1, <1>2, <1>3, <1>4 DEF Answered, LastRun

\* What is known of outcomes survives a hook that passes one on: only the policy,
\* the last error hook, converts, and nothing it converts comes back to a hook that
\* could fail.
LEMMA OutcomesPass ==
  ASSUME IInv, NEW c \in Calls, NEW out \in Outcome \cup {None}, Moves(c, out),
         pc[c].phase \in Inward \cup Outward, runs'[c] = runs[c], UNCHANGED hooksInside,
         out = outcome[c] \/ ByOther(c, out) \/ ByPolicy(c, out),
         PolicyEnabled /\ pc[c].phase = "error" /\ pc[c].at = 1 =>
           ByPolicy(c, out) \/ (out = outcome[c] /\ ~Converts(out))
  PROVE  OutcomesOK(c)'
<1>1. Types /\ OutcomesOK(c) /\ hooksInside \in BOOLEAN /\ outcome'[c] = out
  BY MovesTo DEF IInv, CallOK, Types
<1>2. pc[c].phase \in Phases /\ pc[c].at \in 1..Last /\ Last \in Nat \ {0}
  BY <1>1, ChainFacts DEF Types
<1>3. /\ None \notin Outcome /\ "failed" \notin Failures /\ "result" \notin Failures
      /\ hooksInside' = hooksInside
  BY NoneAssumption DEF Failures
<1>4. CASE pc[c].phase \in Inward
  <2>1. out = outcome[c] /\ outcome[c] = None
    BY <1>1, <1>4 DEF OutcomesOK, At, Inward, ByOther, ByPolicy
  <2>2. pc'[c].phase \in {"wrap", "before", "tool"}
    <3>1. CASE pc[c].at < Last
      BY <1>1, <1>4, <3>1, MovesTo DEF Inward
    <3>2. CASE pc[c].at = Last /\ pc[c].phase = "before"
      BY <1>1, <1>4, <3>2, MovesTo, Places
    <3>3. CASE pc[c].at = Last /\ pc[c].phase = "wrap"
      BY <1>1, <1>4, <3>3, MovesTo, Places
    <3>4. QED
      BY <1>2, <1>4, <3>1, <3>2, <3>3 DEF Inward
  <2>3. QED
    BY <1>1, <2>1, <2>2 DEF OutcomesOK, At, Through
<1>5. out # None /\ out.phase = "tool" => (IsLastRun(c) /\ out = outcome[c] => IsLastRun(c)')
  BY <1>1 DEF IsLastRun, LastRun
<1>6. CASE pc[c].phase = "error"
  <2>1. outcome[c] \in Outcome /\ Handed(c) /\ outcome[c].by # Policy
    BY <1>1, <1>6 DEF OutcomesOK, At, Types, Through
  <2>2. out \in Outcome /\ out # None
    BY <1>3, <2>1 DEF ByOther, ByPolicy
  <2>3. out.phase = "tool" => IsLastRun(c)'
    <3>1. out.phase = "tool" => out = outcome[c]
      BY <1>6, <2>1, FailsIs DEF ByOther, ByPolicy
    <3>2. QED
      BY <1>1, <1>5, <2>2, <3>1 DEF OutcomesOK
  <2>4. CASE pc[c].at > 1
    <3>1. pc'[c].phase = "error" /\ pc'[c].at # Last
      BY <1>1, <1>2, <1>6, <2>4, MovesTo DEF Outward
    <3>2. out = outcome[c] \/ ByOther(c, out)
      BY <1>2, <2>4 DEF ByPolicy
    <3>3. out.kind \in Raised /\ (out.kind \in NotExecuted => out.phase = "error") /\ out.by # Policy
      BY <1>6, <2>1, <3>2 DEF ByOther, Handed
    <3>4. Handed(c)'
      BY <1>1, <3>1, <3>3 DEF Handed
    <3>5. QED
      BY <1>1, <2>2, <2>3, <3>1, <3>3, <3>4 DEF OutcomesOK, At, Through
  <2>5. CASE pc[c].at = 1
    <3>1. pc'[c].phase = IF hooksInside THEN "unwrap" ELSE "done"
      BY <1>1, <1>6, <2>5, MovesTo, Places
    <3>2. Through(c)' /\ ~At(c, "error")' /\ ~At(c, "after")'
      BY <1>3, <3>1 DEF Through, At
    <3>3. out.by = Policy => Answered(c)'
      <4>1. out.by = Policy => ByPolicy(c, out)
        BY <2>1 DEF ByOther
      <4>2. QED
        BY <1>1, <1>6, <2>1, <4>1, AnswersFor DEF ByPolicy, At
    <3>4. PolicyEnabled => out.kind \notin Failures \ Reraise
      <4>1. CASE ByPolicy(c, out)
        BY <1>3, <2>1, <4>1, FailsIs DEF ByPolicy
      <4>2. CASE ~ByPolicy(c, out)
        BY <1>6, <2>5, <4>2 DEF Converts, Answers, Failures
      <4>3. QED
        BY <4>1, <4>2
    <3>5. QED
      BY <1>1, <2>2, <2>3, <3>1, <3>2, <3>3, <3>4 DEF OutcomesOK, At
  <2>6. QED
    BY <1>2, <2>4, <2>5
<1>7. CASE pc[c].phase = "after"
  <2>1. out # None /\ out.kind = "result" /\ out.by # Policy
    BY <1>1, <1>3, <1>7 DEF OutcomesOK, At, Through, ByOther, ByPolicy
  <2>2. out.phase = "tool" => IsLastRun(c)'
    BY <1>1, <1>5, <1>7, <2>1 DEF OutcomesOK, ByOther, ByPolicy
  <2>3. pc'[c].phase \in {"after", IF hooksInside THEN "unwrap" ELSE "done"}
    BY <1>1, <1>2, <1>7, MovesTo, Places DEF Outward
  <2>4. QED
    BY <1>1, <1>3, <2>1, <2>2, <2>3 DEF OutcomesOK, At
<1>8. CASE pc[c].phase = "unwrap"
  <2>1. /\ outcome[c] # None
        /\ out # None /\ (out = outcome[c] \/ (out.by # Policy /\ out.phase = "unwrap"))
    BY <1>1, <1>3, <1>8 DEF OutcomesOK, At, ByOther, ByPolicy
  <2>2. out.phase = "tool" => IsLastRun(c)'
    BY <1>1, <1>5, <2>1 DEF OutcomesOK
  <2>3. hooksInside => /\ out.by = Policy => Answered(c)'
                       /\ PolicyEnabled /\ out.kind \in Failures \ Reraise => out.phase \in Unheard'
    <3>1. CASE hooksInside /\ out = outcome[c]
      <4>1. Through(c)
        BY <1>8, <3>1 DEF Through, At
      <4>2. out.by = Policy => Answered(c)
        BY <1>1, <2>1, <3>1 DEF OutcomesOK
      <4>3. Answered(c) => Answered(c)'
        BY <1>1, <3>1 DEF Answered, LastRun
      <4>4. QED
        BY <1>1, <1>3, <3>1, <4>1, <4>2, <4>3 DEF OutcomesOK, Unheard
    <3>2. CASE hooksInside /\ out # outcome[c]
      BY <1>3, <2>1, <3>2 DEF Unheard
    <3>3. QED
      BY <3>1, <3>2
  <2>4. ~hooksInside => out.by # Policy
    BY <1>1, <1>8, <2>1 DEF OutcomesOK, Through, At
  <2>5. CASE pc[c].at > 1
    <3>1. pc'[c].phase = "unwrap"
      BY <1>1, <1>8, <2>5, MovesTo DEF Outward
    <3>2. QED
      BY <1>1, <1>3, <2>1, <2>2, <2>3, <2>4, <3>1 DEF OutcomesOK, At, Through
  <2>6. CASE pc[c].at = 1 /\ hooksInside
    <3>1. pc'[c].phase = "done"
      BY <1>1, <1>8, <2>6, MovesTo, Places
    <3>2. QED
      BY <1>1, <1>3, <2>1, <2>2, <2>3, <2>6, <3>1 DEF OutcomesOK, At, Through
  <2>7. CASE pc[c].at = 1 /\ ~hooksInside
    <3>1. /\ out.kind = "result" => pc'[c].phase = "after"
          /\ out.kind \in Failures => pc'[c].phase = "error"
          /\ out.kind # "result" /\ out.kind \notin Failures => pc'[c].phase = "done"
      BY <1>1, <1>8, <2>7, MovesTo, Places, HandlesCases
    <3>2. out.kind \in Failures => Handed(c)'
      BY <1>1 DEF Handed, Raised, Failures, NotExecuted
    <3>3. QED
      BY <1>1, <1>3, <2>1, <2>2, <2>4, <2>7, <3>1, <3>2 DEF OutcomesOK, At, Through
  <2>8. QED
    BY <1>1, <1>2, <2>5, <2>6, <2>7
<1>9. QED
  BY <1>4, <1>6, <1>7, <1>8 DEF Inward, Outward

-----------------------------------------------------------------------------
(* The hooks of the policy and of other capabilities                       *)

\* Where a hook that is not audit's leads.
Leads(c) ==
  \/ pc'[c].phase = pc[c].phase /\ (pc[c].phase \in Outward => pc'[c].at < Last)
  \/ pc[c].phase \in {"before", "error", "after"} /\ pc'[c] = Stopped
  \/ pc[c].phase = "before" /\ pc'[c] = Enter("error")
  \/ pc[c].phase = "error" /\ pc'[c] = Enter("after")
  \/ pc[c].phase = "unwrap" /\ pc'[c].phase = "wrap"
  \/ pc[c].phase = "wrap" /\ pc'[c].phase = "unwrap" /\ pc'[c].at < Last
  \/ pc[c].phase = "wrap" /\ hooksInside /\ pc'[c] = Done
  \/ pc[c].phase = "wrap" /\ ~hooksInside /\ pc'[c].phase \in {"error", "after", "done"}
  \/ pc[c].phase = "unwrap" /\ hooksInside /\ pc'[c] = Done
  \/ pc[c].phase = "unwrap" /\ ~hooksInside /\ pc'[c].phase \in {"error", "after", "done"}

Unaudited == UNCHANGED <<hooksInside, context, exec, token, records, runs>>

\* Audit is at the last place, the policy at the first.
LEMMA OnlyAuditIsLast ==
  ASSUME Types, NEW c \in Calls
  PROVE  /\ pc[c].at \in 1..Last /\ Last \in Nat \ {0} /\ Capability(c) \in Writers
         /\ Capability(c) # Audit <=> pc[c].at < Last
         /\ Capability(c) = Policy <=> PolicyEnabled /\ pc[c].at = 1
BY ChainFacts DEF Types, Capability

\* An execution of the list has the type of one.
LEMMA ExecutionTyped ==
  ASSUME Types, NEW c \in Calls, NEW i \in 1..Len(exec[c])
  PROVE  exec[c][i] \in Execution /\ exec[c][i].started \in Nat /\ exec[c][i].args \in Writers
<1>1. exec[c] \in Seq(Execution)
  BY DEF Types
<1>2. exec[c][i] \in Execution
  BY <1>1
<1>3. QED
  BY <1>2 DEF Execution

\* Audit's wrapper is the innermost: none of their steps leads into it or out.
LEMMA LedgerPasses ==
  ASSUME IInv, NEW c \in Calls, pc[c].phase \in Inward \cup Outward, pc[c].at < Last,
         Unaudited, clock'[c] \in Nat, clock[c] <= clock'[c], Leads(c)
  PROVE  ExecutionsOK(c)' /\ Made(context[c])' /\ Made(token[c])' /\ LedgerOK(c)'
<1>1. /\ Types /\ ExecutionsOK(c) /\ LedgerOK(c) /\ hooksInside \in BOOLEAN
      /\ Made(context[c]) /\ Made(token[c])
  BY DEF IInv, CallOK, Types
<1>2. /\ hooksInside' = hooksInside /\ context' = context /\ exec' = exec /\ token' = token
      /\ records' = records /\ runs' = runs
  BY DEF Unaudited
<1>3. pc[c].at \in 1..Last /\ Last \in Nat \ {0} /\ clock[c] \in Nat
  BY <1>1, OnlyAuditIsLast DEF Types
<1>4. ExecutionsOK(c)'
  <2>1. \A i \in 1..Len(exec[c]) : exec[c][i].started \in Nat
    BY <1>1, ExecutionTyped
  <2>2. QED
    BY <1>1, <1>2, <1>3, <2>1 DEF ExecutionsOK
<1>5. Made(context[c])' /\ Made(token[c])'
  BY <1>1, <1>2 DEF Made
<1>6. CASE hooksInside
  <2>1. HooksInside(c)
    BY <1>1, <1>6 DEF LedgerOK
  <2>2. /\ Even(c)' <=> Even(c)
        /\ Waits(c)' <=> Waits(c)
        /\ Refused(c)' <=> Refused(c)
        /\ Waits(c) => Refused(c)
        /\ Heard(c)' <=> Heard(c)
    BY <1>2 DEF Even, Waits, Refused, Heard, Watched, Latest, Owes
  <2>3. /\ IsOf(c, context'[c]) <=> IsOf(c, context[c])
        /\ IsOf(c, token'[c]) <=> IsOf(c, token[c])
    BY <1>2
  <2>4. Stopped = Enter("unwrap") /\ Enter("unwrap").phase = "unwrap" /\ Enter("unwrap").at = Last
        /\ Enter("after").phase = "after" /\ Done.phase = "done" /\ Enter("error").phase = "error"
    BY <1>6, Places
  <2>5. HooksInside(c)'
    <3>1. CASE pc[c].phase \in Inward
      BY <1>3, <1>6, <2>1, <2>2, <2>3, <2>4, <3>1 DEF HooksInside, At, Leads, Inward, Outward
    <3>2. CASE pc[c].phase \in {"error", "after"}
      BY <1>3, <2>1, <2>2, <2>3, <2>4, <3>2 DEF HooksInside, At, Leads, Outward
    <3>3. CASE pc[c].phase = "unwrap"
      BY <1>3, <1>6, <2>1, <2>2, <2>3, <2>4, <3>3 DEF HooksInside, At, Leads, Outward
    <3>4. QED
      BY <3>1, <3>2, <3>3 DEF Outward
  <2>6. QED
    BY <1>2, <1>4, <1>5, <1>6, <2>5 DEF LedgerOK
<1>7. CASE ~hooksInside
  <2>1. HooksOutside(c)
    BY <1>1, <1>7 DEF LedgerOK
  <2>2. /\ Even(c)' <=> Even(c)
        /\ Reached(c, context[c])' <=> Reached(c, context[c])
        /\ IsOf(c, context'[c]) <=> IsOf(c, context[c])
    BY <1>2 DEF Even, Reached, IsOf
  <2>3. /\ Stopped = Done /\ Done.phase = "done" /\ Enter("after").phase = "after"
        /\ Enter("error").phase = "error"
    BY <1>7, Places
  <2>4. HooksOutside(c)'
    <3>1. CASE pc[c].phase \in Inward
      BY <1>3, <1>7, <2>1, <2>2, <2>3, <3>1 DEF HooksOutside, At, Leads, Inward, Outward
    <3>2. CASE pc[c].phase \in {"error", "after"}
      BY <1>3, <2>1, <2>2, <2>3, <3>2 DEF HooksOutside, At, Leads, Outward
    <3>3. CASE pc[c].phase = "unwrap"
      BY <1>3, <1>7, <2>1, <2>2, <2>3, <3>3 DEF HooksOutside, At, Leads, Outward
    <3>4. QED
      BY <3>1, <3>2, <3>3 DEF Outward
  <2>5. QED
    BY <1>2, <1>4, <1>5, <1>7, <2>4 DEF LedgerOK
<1>8. QED
  BY <1>1, <1>6, <1>7

\* A hook that passes something on.
LEMMA MovesLead ==
  ASSUME Types, NEW c \in Calls, NEW out \in Outcome \cup {None}, Moves(c, out),
         pc[c].phase \in Inward \cup Outward, pc[c].at < Last
  PROVE  Leads(c)
<1>1. pc[c].at \in 1..Last /\ Last \in Nat \ {0}
  BY OnlyAuditIsLast
<1>2. CASE pc[c].phase \in Inward
  BY <1>2, MovesTo DEF Leads, Inward, Outward
<1>3. CASE pc[c].phase \in Outward /\ pc[c].at > 1
  BY <1>1, <1>3, MovesTo DEF Leads
<1>4. CASE pc[c].phase \in {"error", "after"} /\ pc[c].at = 1
  <2>1. pc'[c] = Stopped
    BY <1>4, MovesTo, Places
  <2>2. QED
    BY <1>4, <2>1 DEF Leads
<1>5. CASE pc[c].phase = "unwrap" /\ pc[c].at = 1
  <2>1. IF hooksInside THEN pc'[c] = Done ELSE pc'[c] = Handles(out)
    BY <1>5, MovesTo
  <2>2. ~hooksInside => Handles(out).phase \in {"error", "after", "done"}
    BY HandlesCases, Places
  <2>3. QED
    BY <1>5, <2>1, <2>2 DEF Leads
<1>6. QED
  BY <1>1, <1>2, <1>3, <1>4, <1>5 DEF Outward

\* What the steps of c that are not audit's have in common.
LEMMA UnauditedKeeps ==
  ASSUME IInv, NEW c \in Calls, pc[c].phase \in Inward \cup Outward, pc[c].at < Last,
         Unaudited, Leads(c), OutcomesOK(c)',
         pc' \in [Calls -> [phase : Phases, at : 1..Last]], args' \in [Calls -> Writers],
         outcome' \in [Calls -> Outcome \cup {None}],
         clock' = clock \/ clock' = [clock EXCEPT ![c] = @ + 1],
         entries' \in [Calls -> Nat], entries'[c] \in 1..MaxEntries[c],
         \A d \in Calls \ {c} : /\ pc'[d] = pc[d] /\ args'[d] = args[d]
                                /\ outcome'[d] = outcome[d] /\ entries'[d] = entries[d]
  PROVE  IInv'
<1>1. /\ Types /\ hooksInside' = hooksInside /\ context' = context /\ exec' = exec
      /\ token' = token /\ records' = records /\ runs' = runs
  BY DEF IInv, Unaudited
<1>2. clock' \in [Calls -> Nat] /\ clock[c] <= clock'[c] /\ \A d \in Calls \ {c} : clock'[d] = clock[d]
  BY <1>1 DEF Types
<1>3. Types'
  BY <1>1, <1>2 DEF Types
<1>4. OthersStay(c) /\ Grows(c)
  <2>1. Len(exec[c]) \in Nat
    BY <1>1 DEF Types
  <2>2. QED
    BY <1>1, <1>2, <2>1 DEF OthersStay, Call, Grows
<1>5. clock'[c] \in Nat
  BY <1>2
<1>6. CallOK(c)'
  BY <1>2, <1>5, LedgerPasses DEF CallOK
<1>7. QED
  BY <1>1, <1>3, <1>4, <1>6, OthersKeep

\* An answer of a project's capability is not the policy's.
LEMMA OwnIs ==
  ASSUME IInv, NEW c \in Calls, Overridden(c), NEW kind \in {"result"} \cup Raises[c]
  PROVE  /\ Own(c, kind) \in Outcome /\ Own(c, kind).kind = kind /\ Own(c, kind).by # Policy
         /\ Own(c, kind).phase = pc[c].phase /\ (kind # "result" => kind \in Raised)
         /\ Own(c, kind) # None
<1>1. entries[c] \in Nat /\ Capability(c) \in Writers /\ pc[c].phase \in Phases
  BY OnlyAuditIsLast DEF IInv, Types
<1>2. Raises[c] \subseteq Raised
  BY ToolCallAssumption DEF Raised, Failures, Answers, NotExecuted
<1>3. Own(c, kind) \in Outcome
  BY <1>1, <1>2 DEF Own, Says, Outcome, Kinds
<1>4. Own(c, kind).kind = kind /\ Own(c, kind).by # Policy /\ Own(c, kind).phase = pc[c].phase
  BY DEF Own, Says, Overridden
<1>5. QED
  BY <1>2, <1>3, <1>4, NoneAssumption

\* The policy converts the failures it is to convert, and passes on the rest.
LEMMA PolicyPreserves ==
  ASSUME IInv, NEW c \in Calls, PolicyStep(c), UNCHANGED hooksInside PROVE IInv'
<1>1. /\ Types /\ OutcomesOK(c) /\ entries[c] \in 1..MaxEntries[c]
      /\ entries \in [Calls -> Nat] /\ args \in [Calls -> Writers]
  BY DEF IInv, CallOK, Types
<1>2. UNCHANGED <<args, clock, entries, runs>> /\ Unaudited
  BY DEF PolicyStep, PolicyFails, Passes, Unaudited
<1>3. pc[c].phase \in Inward \cup Outward /\ Capability(c) # Audit
  BY DEF PolicyStep, PolicyFails, Passes, Outward, Policy, Audit
<1>4. pc[c].at < Last
  BY <1>1, <1>3, OnlyAuditIsLast
<1>5. PICK out : /\ out = outcome[c] \/ (ByPolicy(c, out) /\ out \in Outcome)
                 /\ Moves(c, out)
                 /\ PolicyEnabled /\ pc[c].phase = "error" /\ pc[c].at = 1 =>
                      ByPolicy(c, out) \/ (out = outcome[c] /\ ~Converts(out))
  <2>1. CASE PolicyFails(c)
    <3>1. PolicyEnabled /\ pc[c].at = 1 /\ pc[c].phase = "error"
      BY <1>1, <2>1, OnlyAuditIsLast DEF PolicyFails
    <3>2. outcome[c] \in Outcome
      BY <1>1, <3>1 DEF OutcomesOK, At, Types
    <3>3. CASE Converts(outcome[c])
      <4>1. Fails(outcome[c]) \in Outcome
        BY <3>2, FailsIs
      <4>2. Moves(c, Fails(outcome[c]))
        BY <2>1, <3>3 DEF PolicyFails
      <4>3. QED
        BY <3>1, <3>3, <4>1, <4>2 DEF ByPolicy
    <3>4. CASE ~Converts(outcome[c])
      BY <2>1, <3>4 DEF PolicyFails
    <3>5. QED
      BY <3>3, <3>4
  <2>2. CASE Passes(c)
    <3>1. ~(PolicyEnabled /\ pc[c].phase = "error" /\ pc[c].at = 1)
      BY <1>1, <2>2, OnlyAuditIsLast DEF Passes
    <3>2. QED
      BY <2>2, <3>1 DEF Passes
  <2>3. QED
    BY <2>1, <2>2 DEF PolicyStep
<1>6. out \in Outcome \cup {None}
  BY <1>1, <1>5 DEF Types
<1>7. Leads(c)
  BY <1>1, <1>3, <1>4, <1>5, <1>6, MovesLead
<1>8. OutcomesOK(c)'
  BY <1>2, <1>3, <1>5, <1>6, OutcomesPass
<1>9. QED
  BY <1>1, <1>2, <1>3, <1>4, <1>5, <1>6, <1>7, <1>8, MovesTo, UnauditedKeeps

\* Hooks that pass on, rewrite arguments or results, or answer with their own.
LEMMA OtherPassesPreserves ==
  ASSUME IInv, NEW c \in Calls, OtherPassesIn(c) \/ OtherPassesOut(c), UNCHANGED hooksInside
  PROVE  IInv'
<1>1. /\ Types /\ OutcomesOK(c) /\ entries[c] \in 1..MaxEntries[c]
      /\ entries \in [Calls -> Nat] /\ args \in [Calls -> Writers]
  BY DEF IInv, CallOK, Types
<1>2. UNCHANGED <<entries, runs>> /\ Unaudited /\ Ticks(c)
  BY DEF OtherPassesIn, OtherPassesOut, Unaudited
<1>3. pc[c].phase \in Inward \cup Outward /\ Overridden(c)
  BY DEF OtherPassesIn, OtherPassesOut
<1>4. pc[c].at < Last /\ ~(PolicyEnabled /\ pc[c].at = 1) /\ Capability(c) \in Writers
  BY <1>1, <1>3, OnlyAuditIsLast DEF Overridden
<1>5. PICK out : (out = outcome[c] \/ ByOther(c, out)) /\ Moves(c, out)
  <2>1. CASE OtherPassesIn(c)
    BY <2>1 DEF OtherPassesIn
  <2>2. CASE OtherPassesOut(c)
    <3>1. CASE Moves(c, outcome[c])
      BY <3>1
    <3>2. CASE ~Moves(c, outcome[c])
      <4>1. PICK kind \in {"result"} \cup Raises[c] :
              /\ Moves(c, Own(c, kind))
              /\ pc[c].phase = "error" => kind \in Raises[c]
              /\ pc[c].phase = "after" => kind = "result"
        BY <2>2, <3>2 DEF OtherPassesOut, Outward
      <4>2. ByOther(c, Own(c, kind))
        <5>1. Raises[c] \subseteq Raised
          BY ToolCallAssumption DEF Raised, Failures, Answers, NotExecuted
        <5>2. pc[c].phase \in Outward
          BY <2>2 DEF OtherPassesOut
        <5>3. QED
          BY <1>3, <4>1, <5>1, <5>2, OwnIs DEF ByOther, Outward
      <4>3. QED
        BY <4>1, <4>2
    <3>3. QED
      BY <3>1, <3>2
  <2>3. QED
    BY <2>1, <2>2
<1>6. out \in Outcome \cup {None}
  BY <1>1, <1>5 DEF Types, ByOther
<1>7. Leads(c)
  BY <1>1, <1>3, <1>4, <1>5, <1>6, MovesLead
<1>8. OutcomesOK(c)'
  BY <1>2, <1>3, <1>4, <1>5, <1>6, OutcomesPass
<1>9. args' \in [Calls -> Writers] /\ \A d \in Calls \ {c} : args'[d] = args[d]
  BY <1>1, <1>4 DEF OtherPassesIn, OtherPassesOut
<1>10. QED
  BY <1>1, <1>2, <1>3, <1>4, <1>5, <1>6, <1>7, <1>8, <1>9, MovesTo, UnauditedKeeps DEF Ticks

\* Where a wrapper leads that does not call its handler.
LEMMA InterceptLeads ==
  ASSUME Types, NEW c \in Calls, pc[c].phase = "wrap", pc[c].at < Last, NEW out
  PROVE  LET to == Onward([pc[c] EXCEPT !.phase = "unwrap"], out)
         IN  /\ to \in [phase : Phases, at : 1..Last]
             /\ \/ to.phase = "unwrap" /\ to.at < Last
                \/ hooksInside /\ to = Done
                \/ ~hooksInside /\ to = Handles(out)
<1> DEFINE p == [pc[c] EXCEPT !.phase = "unwrap"]
           to == Onward(p, out)
<1>1. pc[c] \in [phase : Phases, at : 1..Last] /\ Last \in Nat \ {0}
  BY ChainFacts DEF Types
<1>2. p \in [phase : Inward \cup Outward \cup {"tool"}, at : 1..Last] /\ p.phase = "unwrap" /\ p.at = pc[c].at
  BY <1>1 DEF Phases, Inward, Outward
<1> HIDE DEF p
<1>3. to \in [phase : Phases, at : 1..Last]
  BY <1>2, OnwardTyped
<1>4. /\ p.at > 1 => to.phase = "unwrap" /\ to.at = p.at - 1
      /\ ~(p.at > 1) => to = Past("unwrap", out)
  BY <1>2, OnwardCases DEF Inward, Outward
<1> HIDE DEF to
<1>5. \/ to.phase = "unwrap" /\ to.at < Last
      \/ hooksInside /\ to = Done
      \/ ~hooksInside /\ to = Handles(out)
  BY <1>1, <1>2, <1>4, PastCases
<1>6. QED
  BY <1>3, <1>5 DEF to, p

\* The call goes to a place with an answer of its capability's own.
Replies(c, kind, to) ==
  /\ outcome' = [outcome EXCEPT ![c] = Own(c, kind)] /\ pc' = [pc EXCEPT ![c] = to]
  /\ \/ pc[c].phase \in {"before", "after"} /\ to = Stopped
     \/ pc[c].phase = "before" /\ to = Enter("error") /\ kind \in Failures
     \/ /\ pc[c].phase = "wrap"
        /\ to = Onward([pc[c] EXCEPT !.phase = "unwrap"], Own(c, kind))
     \/ pc[c].phase = "error" /\ to = Enter("after") /\ kind = "result"

\* A hook that stops, intercepts, recovers or refuses: the answer is its
\* capability's own.
LEMMA OtherAnswersPreserves ==
  ASSUME IInv, NEW c \in Calls,
         OtherStops(c) \/ OtherIntercepts(c) \/ OtherRecovers(c) \/ OtherRejects(c),
         UNCHANGED hooksInside
  PROVE  IInv'
<1>1. /\ Types /\ OutcomesOK(c) /\ entries[c] \in 1..MaxEntries[c]
      /\ entries \in [Calls -> Nat] /\ args \in [Calls -> Writers]
  BY DEF IInv, CallOK, Types
<1>2. UNCHANGED <<entries, runs, args>> /\ Unaudited /\ Ticks(c)
  BY DEF OtherStops, OtherIntercepts, OtherRecovers, OtherRejects, Unaudited
<1>3. pc[c].phase \in Inward \cup Outward /\ Overridden(c)
  BY DEF OtherStops, OtherIntercepts, OtherRecovers, OtherRejects, Inward, Outward
<1>4. pc[c].at < Last
  BY <1>1, <1>3, OnlyAuditIsLast DEF Overridden
<1>5. PICK kind \in {"result"} \cup Raises[c] : \E to : Replies(c, kind, to)
  <2>1. CASE OtherStops(c)
    BY <2>1 DEF OtherStops, Replies
  <2>2. CASE OtherIntercepts(c)
    <3>1. PICK kind \in {"result"} \cup Raises[c] :
            /\ outcome' = [outcome EXCEPT ![c] = Own(c, kind)]
            /\ pc' = [pc EXCEPT ![c] = Onward([@ EXCEPT !.phase = "unwrap"], Own(c, kind))]
      BY <2>2 DEF OtherIntercepts
    <3>2. pc' = [pc EXCEPT ![c] = Onward([pc[c] EXCEPT !.phase = "unwrap"], Own(c, kind))]
      BY <3>1
    <3>3. QED
      BY <2>2, <3>1, <3>2 DEF OtherIntercepts, Replies
  <2>3. CASE OtherRecovers(c)
    BY <2>3 DEF OtherRecovers, Replies
  <2>4. CASE OtherRejects(c)
    BY <2>4 DEF OtherRejects, Replies
  <2>5. QED
    BY <2>1, <2>2, <2>3, <2>4
<1>6. PICK to : Replies(c, kind, to)
  BY <1>5
<1>7. /\ Own(c, kind) \in Outcome /\ Own(c, kind).kind = kind /\ Own(c, kind).by # Policy
      /\ Own(c, kind).phase = pc[c].phase /\ Own(c, kind) # None
  BY <1>3, OwnIs
<1>8. /\ to \in [phase : Phases, at : 1..Last]
      /\ pc[c].phase = "wrap" =>
           \/ to.phase = "unwrap" /\ to.at < Last
           \/ hooksInside /\ to = Done
           \/ ~hooksInside /\ to = Handles(Own(c, kind))
  <2>1. CASE pc[c].phase = "wrap"
    BY <1>1, <1>4, <1>6, <2>1, InterceptLeads DEF Replies
  <2>2. CASE pc[c].phase # "wrap"
    BY <1>6, <2>2, EnterCases DEF Replies, Stopped, Done, Phases, Outward
  <2>3. QED
    BY <2>1, <2>2
<1>9. /\ pc' \in [Calls -> [phase : Phases, at : 1..Last]] /\ pc'[c] = to
      /\ outcome' \in [Calls -> Outcome \cup {None}] /\ outcome'[c] = Own(c, kind)
      /\ \A d \in Calls \ {c} : pc'[d] = pc[d] /\ outcome'[d] = outcome[d]
  BY <1>1, <1>6, <1>7, <1>8 DEF Replies, Types
<1>10. /\ Done.phase = "done"
       /\ ~hooksInside => Handles(Own(c, kind)).phase \in {"error", "after", "done"}
  BY HandlesCases, Places
<1>11. Leads(c)
  <2>1. CASE pc[c].phase = "wrap"
    BY <1>8, <1>9, <1>10, <2>1 DEF Leads
  <2>2. CASE pc[c].phase # "wrap"
    BY <1>6, <1>9, <2>2 DEF Replies, Leads
  <2>3. QED
    BY <2>1, <2>2
<1>12. OutcomesOK(c)'
  <2>1. /\ to.phase = "error" => kind \in Failures
        /\ to.phase = "after" => kind = "result"
        /\ to.phase \in {"error", "after", "unwrap", "done"}
        /\ (to.phase = "done" \/ (hooksInside /\ to.phase = "unwrap")) /\ kind \in Failures =>
             pc[c].phase \in Unheard
    <3>1. CASE pc[c].phase = "wrap" /\ hooksInside
      BY <1>8, <3>1, Places DEF Unheard
    <3>2. CASE pc[c].phase = "wrap" /\ ~hooksInside
      BY <1>7, <1>8, <3>2, HandlesCases, Places
    <3>3. CASE pc[c].phase # "wrap"
      BY <1>6, <3>3, Places DEF Replies, Unheard
    <3>4. QED
      BY <3>1, <3>2, <3>3
  <2>2. kind \in Failures => Handed(c)'
    BY <1>7, <1>9 DEF Handed, Raised, Failures, NotExecuted
  <2>3. Own(c, kind).phase # "tool"
    BY <1>3, <1>7 DEF Inward, Outward
  <2>4. hooksInside' = hooksInside
    OBVIOUS
  <2>5. QED
    BY <1>7, <1>9, <2>1, <2>2, <2>3, <2>4 DEF OutcomesOK, At, Through, Unheard
<1>13. QED
  BY <1>1, <1>2, <1>3, <1>4, <1>9, <1>11, <1>12, UnauditedKeeps DEF Ticks

\* A wrapper that enters the chain again: its earlier run is already recorded.
LEMMA OtherRerunsPreserves ==
  ASSUME IInv, NEW c \in Calls, OtherReruns(c), UNCHANGED hooksInside PROVE IInv'
<1>1. /\ Types /\ OutcomesOK(c) /\ entries[c] \in 1..MaxEntries[c]
      /\ entries \in [Calls -> Nat] /\ args \in [Calls -> Writers]
      /\ pc \in [Calls -> [phase : Phases, at : 1..Last]]
  BY DEF IInv, CallOK, Types
<1>2. /\ UNCHANGED runs /\ Unaudited /\ Ticks(c) /\ pc[c].phase = "unwrap" /\ Overridden(c)
      /\ entries[c] < MaxEntries[c] /\ entries' = [entries EXCEPT ![c] = @ + 1]
      /\ outcome' = [outcome EXCEPT ![c] = None]
  BY DEF OtherReruns, Unaudited
<1>3. pc[c].at < Last /\ pc[c].at \in 1..Last /\ Last \in Nat \ {0} /\ Capability(c) \in Writers
  BY <1>1, <1>2, OnlyAuditIsLast DEF Overridden
<1>4. PICK a \in {"model", Capability(c)} : args' = [args EXCEPT ![c] = a]
  BY DEF OtherReruns
<1>5. a \in Writers
  BY <1>3 DEF Writers
<1> DEFINE to == [phase |-> "wrap", at |-> pc[c].at + 1]
<1>6. to \in [phase : Phases, at : 1..Last] /\ to.phase = "wrap"
  BY <1>3 DEF Phases, Inward
<1>7. pc' = [pc EXCEPT ![c] = to]
  BY DEF OtherReruns
<1> HIDE DEF to
<1>8. /\ pc' \in [Calls -> [phase : Phases, at : 1..Last]] /\ pc'[c] = to
      /\ outcome' \in [Calls -> Outcome \cup {None}] /\ outcome'[c] = None
      /\ args' \in [Calls -> Writers]
      /\ \A d \in Calls \ {c} : /\ pc'[d] = pc[d] /\ outcome'[d] = outcome[d]
                                /\ args'[d] = args[d] /\ entries'[d] = entries[d]
  BY <1>1, <1>2, <1>4, <1>5, <1>6, <1>7 DEF Types
<1>9. entries' \in [Calls -> Nat] /\ entries'[c] \in 1..MaxEntries[c]
  <2>1. MaxEntries[c] \in Nat
    BY ToolCallAssumption
  <2>2. QED
    BY <1>1, <1>2, <2>1
<1>10. Leads(c) /\ OutcomesOK(c)'
  BY <1>2, <1>6, <1>8 DEF Leads, OutcomesOK, At, Through
<1>11. pc[c].phase \in Inward \cup Outward
  BY <1>2 DEF Outward
<1>12. QED
  BY <1>1, <1>2, <1>3, <1>8, <1>9, <1>10, <1>11, UnauditedKeeps DEF Ticks

-----------------------------------------------------------------------------
(* The start of a call and the tool                                        *)

\* A call starts with its creator's context, in which no execution is its own.
LEMMA StartPreserves ==
  ASSUME IInv, NEW c \in Calls, Start(c), UNCHANGED hooksInside PROVE IInv'
<1>1. Types /\ CallOK(c) /\ hooksInside \in BOOLEAN
  BY DEF IInv, Types
<1>2. /\ pc[c].phase = "idle" /\ exec[c] = <<>> /\ outcome[c] = None
      /\ Even(c)
  <2>1. At(c, "idle")
    BY EnterCases DEF Start, Idle, At
  <2>2. QED
    BY <1>1, <2>1 DEF CallOK, OutcomesOK, LedgerOK, HooksInside, HooksOutside, At
<1>3. /\ args' = args /\ outcome' = outcome /\ clock' = clock /\ exec' = exec /\ token' = token
      /\ records' = records /\ runs' = runs /\ entries' = entries /\ hooksInside' = hooksInside
  BY DEF Start
<1> DEFINE to == IF hooksInside THEN Enter("wrap") ELSE Enter("before")
           ref == IF Parent[c] = None THEN None ELSE context[Parent[c]]
<1>4. ref \in Reference \cup {None} /\ Made(ref)
  BY <1>1, ToolCallAssumption DEF IInv, CallOK, Types, Made
<1>5. to \in [phase : Phases, at : 1..Last] /\ to.phase = IF hooksInside THEN "wrap" ELSE "before"
  BY EnterCases, Places DEF Phases, Inward
<1>6. pc' = [pc EXCEPT ![c] = to] /\ context' = [context EXCEPT ![c] = ref]
  BY DEF Start
<1> HIDE DEF to, ref
<1>7. /\ pc' \in [Calls -> [phase : Phases, at : 1..Last]] /\ pc'[c] = to
      /\ context' \in [Calls -> Reference \cup {None}] /\ context'[c] = ref
      /\ \A d \in Calls \ {c} : pc'[d] = pc[d] /\ context'[d] = context[d]
  BY <1>1, <1>4, <1>5, <1>6 DEF Types
<1>8. Types'
  BY <1>1, <1>3, <1>7 DEF Types
<1>9. OthersStay(c) /\ Grows(c)
  BY <1>2, <1>3, <1>7 DEF OthersStay, Call, Grows
<1>10. ~IsOf(c, ref)
  BY <1>2, <1>4 DEF IsOf, Made
<1>11. CallOK(c)'
  <2>1. Made(context[c])' /\ Made(token[c])' /\ ExecutionsOK(c)' /\ entries'[c] \in 1..MaxEntries[c]
    BY <1>1, <1>3, <1>4, <1>7 DEF CallOK, Made, ExecutionsOK
  <2>2. OutcomesOK(c)'
    BY <1>2, <1>3, <1>5, <1>7 DEF OutcomesOK, At, Through
  <2>3. ~IsOf(c, context[c])'
    BY <1>7, <1>10 DEF IsOf
  <2>4. Even(c)'
    BY <1>2, <1>3 DEF Even
  <2>5. HooksInside(c)' \/ ~hooksInside
    BY <1>5, <1>7, <2>3, <2>4 DEF HooksInside, At
  <2>6. HooksOutside(c)' \/ hooksInside
    BY <1>5, <1>7, <2>3, <2>4 DEF HooksOutside, At
  <2>7. LedgerOK(c)'
    BY <1>3, <2>5, <2>6 DEF LedgerOK
  <2>8. QED
    BY <2>1, <2>2, <2>7 DEF CallOK
<1>12. QED
  BY <1>3, <1>8, <1>9, <1>11, OthersKeep

\* Every run of the tool is one the record owes.
LEMMA ToolPreserves ==
  ASSUME IInv, NEW c \in Calls, Tool(c), UNCHANGED hooksInside PROVE IInv'
<1>1. Types /\ CallOK(c) /\ hooksInside \in BOOLEAN /\ pc[c].phase = "tool"
  BY DEF IInv, Types, Tool
<1>2. /\ args' = args /\ clock' = clock /\ context' = context /\ exec' = exec /\ token' = token
      /\ records' = records /\ entries' = entries /\ hooksInside' = hooksInside
  BY DEF Tool
<1>3. Even(c) /\ Armed(c) /\ (IF hooksInside THEN ~IsOf(c, token[c]) ELSE Reached(c, token[c]))
  BY <1>1 DEF CallOK, LedgerOK, HooksInside, HooksOutside, At
<1>4. PICK kind \in {"result"} \cup ToolRaises[c] :
        LET out == Says(kind, "tool", "tool", entries[c])
        IN  /\ Moves(c, out)
            /\ runs' = IF kind \in NotExecuted THEN runs
                       ELSE [runs EXCEPT ![c] = Append(@,
                              [args |-> args[c], outcome |-> out, hooks |-> 0])]
  BY DEF Tool
<1> DEFINE out == Says(kind, "tool", "tool", entries[c])
           account == [args |-> args[c], outcome |-> out, hooks |-> 0]
<1>5. /\ out \in Outcome /\ out.kind = kind /\ out.by # Policy /\ out.phase = "tool"
      /\ out = Says(out.kind, "tool", "tool", out.entry)
      /\ account \in Account /\ account.outcome = out
  <2>1. kind \in Kinds /\ "tool" \in Writers /\ "tool" \in Phases
    BY ToolCallAssumption DEF Kinds, Raised, Failures, Answers, NotExecuted, Writers, Phases
  <2>2. entries[c] \in Nat /\ args[c] \in Writers
    BY <1>1 DEF Types
  <2>3. /\ out \in Outcome /\ out.kind = kind /\ out.by # Policy /\ out.phase = "tool"
        /\ out.entry = entries[c]
    BY <2>1, <2>2 DEF Outcome, Says, Policy
  <2>4. account \in Account /\ account.outcome = out
    <3> HIDE DEF out
    <3>1. QED
      BY <2>2, <2>3 DEF Account
  <2>5. QED
    BY <2>3, <2>4
<1>6. Moves(c, out) /\ runs' = IF kind \in NotExecuted THEN runs ELSE [runs EXCEPT ![c] = Append(@, account)]
  BY <1>4
<1> HIDE DEF out, account
<1>7. runs[c] \in Seq(Account) /\ runs \in [Calls -> Seq(Account)] /\ out # None
  BY <1>1, <1>5, NoneAssumption DEF Types
<1>8. /\ runs' \in [Calls -> Seq(Account)] /\ \A d \in Calls \ {c} : runs'[d] = runs[d]
      /\ kind \in NotExecuted => runs'[c] = runs[c]
      /\ kind \notin NotExecuted => runs'[c] = Append(runs[c], account)
  BY <1>5, <1>6, <1>7
<1>9. kind \notin NotExecuted => runs'[c] # <<>> /\ LastRun(c)' = account
  BY <1>5, <1>7, <1>8, AppendProperties DEF LastRun
<1>10. /\ pc' \in [Calls -> [phase : Phases, at : 1..Last]]
       /\ outcome' \in [Calls -> Outcome \cup {None}] /\ outcome'[c] = out
       /\ \A d \in Calls \ {c} : pc'[d] = pc[d] /\ outcome'[d] = outcome[d]
       /\ IF hooksInside THEN pc'[c] = Handles(out) ELSE pc'[c] = Enter("unwrap")
  BY <1>1, <1>5, <1>6, MovesTo
<1>11. Types'
  BY <1>1, <1>2, <1>8, <1>10 DEF Types
<1>12. OthersStay(c) /\ Grows(c)
  <2>1. Len(exec[c]) \in Nat
    BY <1>1 DEF Types
  <2>2. QED
    BY <1>2, <1>8, <1>10, <2>1 DEF OthersStay, Call, Grows
<1>13. /\ pc'[c].at = Last
       /\ kind = "result" /\ hooksInside => pc'[c].phase = "after"
       /\ kind \in Failures /\ hooksInside => pc'[c].phase = "error"
       /\ (kind # "result" /\ kind \notin Failures) \/ ~hooksInside => pc'[c].phase = "unwrap"
  BY <1>1, <1>5, <1>10, HandlesCases, Places
<1>14. Armed(c)'
  BY <1>2, <1>3 DEF Armed, Watched, Latest
<1>15. Returned(c)'
  <2>1. kind \in NotExecuted => Even(c)'
    BY <1>2, <1>3, <1>8 DEF Even
  <2>2. kind \notin NotExecuted => runs'[c] = Append(records'[c], account)
    BY <1>2, <1>3, <1>8 DEF Even
  <2>3. account = [args |-> args'[c], outcome |-> outcome'[c], hooks |-> 0]
    BY <1>2, <1>10 DEF account
  <2>4. kind \notin NotExecuted =>
          Owes(c, [args |-> args[c], outcome |-> outcome[c], hooks |-> 0])'
    BY <2>2, <2>3 DEF Owes
  <2>5. QED
    BY <1>5, <1>10, <1>14, <2>1, <2>4 DEF Returned
<1>16. LedgerOK(c)'
  <2>1. CASE hooksInside
    <3>1. ~IsOf(c, token[c])'
      BY <1>2, <1>3, <2>1 DEF IsOf
    <3>2. HooksInside(c)'
      BY <1>13, <1>15, <2>1, <3>1 DEF HooksInside, At
    <3>3. QED
      BY <1>2, <2>1, <3>2 DEF LedgerOK
  <2>2. CASE ~hooksInside
    <3>1. Reached(c, token[c])'
      BY <1>2, <1>3, <2>2 DEF Reached, IsOf
    <3>2. HooksOutside(c)'
      BY <1>13, <1>15, <2>2, <3>1 DEF HooksOutside, At
    <3>3. QED
      BY <1>2, <2>2, <3>2 DEF LedgerOK
  <2>3. QED
    BY <2>1, <2>2
<1>17. OutcomesOK(c)'
  <2>1. IsLastRun(c)'
    <3>1. kind \notin NotExecuted => runs'[c] # <<>> /\ LastRun(c)'.outcome = out
      BY <1>5, <1>9
    <3>2. QED
      BY <1>5, <1>10, <3>1 DEF IsLastRun
  <2>2. kind \in Failures => Handed(c)'
    BY <1>5, <1>10 DEF Handed, Raised, Failures, NotExecuted
  <2>3. /\ pc'[c].phase = "error" => kind \in Failures
        /\ pc'[c].phase = "after" => kind = "result"
        /\ hooksInside /\ pc'[c].phase = "unwrap" => kind \notin Failures
        /\ pc'[c].phase \in {"error", "after", "unwrap"}
    BY <1>1, <1>13 DEF Failures
  <2>4. QED
    BY <1>2, <1>5, <1>7, <1>10, <2>1, <2>2, <2>3 DEF OutcomesOK, At, Through
<1>18. CallOK(c)'
  <2>1. Made(context[c])' /\ Made(token[c])' /\ ExecutionsOK(c)' /\ entries'[c] \in 1..MaxEntries[c]
    BY <1>1, <1>2 DEF CallOK, Made, ExecutionsOK
  <2>2. QED
    BY <1>16, <1>17, <2>1 DEF CallOK
<1>19. QED
  BY <1>2, <1>11, <1>12, <1>18, OthersKeep

-----------------------------------------------------------------------------
(* Audit's own hooks                                                       *)

\* A new execution is the latest, and the earlier ones stay as they are.
LEMMA Appended ==
  ASSUME Types, NEW c \in Calls, NEW e \in Execution, Adds(c, e)
  PROVE  /\ exec' \in [Calls -> Seq(Execution)] /\ Grows(c)
         /\ \A d \in Calls \ {c} : exec'[d] = exec[d]
         /\ Len(exec[c]) \in Nat /\ Len(exec'[c]) = Len(exec[c]) + 1
         /\ \A i \in 1..Len(exec[c]) : exec'[c][i] = exec[c][i]
         /\ exec'[c][Len(exec[c]) + 1] = e
<1>1. exec \in [Calls -> Seq(Execution)] /\ exec[c] \in Seq(Execution)
  BY DEF Types
<1>2. Append(exec[c], e) \in Seq(Execution) /\ Len(exec[c]) \in Nat
  BY <1>1
<1>3. exec' \in [Calls -> Seq(Execution)] /\ exec'[c] = Append(exec[c], e)
      /\ \A d \in Calls \ {c} : exec'[d] = exec[d]
  BY <1>1, <1>2 DEF Adds
<1>4. /\ Len(Append(exec[c], e)) = Len(exec[c]) + 1
      /\ \A i \in 1..Len(exec[c]) : Append(exec[c], e)[i] = exec[c][i]
      /\ Append(exec[c], e)[Len(exec[c]) + 1] = e
  BY <1>1, AppendProperties
<1>5. QED
  BY <1>2, <1>3, <1>4 DEF Grows

\* A changed execution leaves the others as they are.
LEMMA Changed ==
  ASSUME Types, NEW c \in Calls, NEW e \in Execution, NEW ref \in Reference,
         ref.call = c, ref.n \in 1..Len(exec[c]), Changes(ref, e)
  PROVE  /\ exec' \in [Calls -> Seq(Execution)] /\ Grows(c)
         /\ \A d \in Calls \ {c} : exec'[d] = exec[d]
         /\ Len(exec[c]) \in Nat /\ Len(exec'[c]) = Len(exec[c])
         /\ \A i \in 1..Len(exec[c]) : exec'[c][i] = IF i = ref.n THEN e ELSE exec[c][i]
<1> DEFINE s == [exec[c] EXCEPT ![ref.n] = e]
<1>1. exec \in [Calls -> Seq(Execution)] /\ exec[c] \in Seq(Execution)
  BY DEF Types
<1>2. /\ s \in Seq(Execution) /\ Len(s) = Len(exec[c]) /\ Len(exec[c]) \in Nat
      /\ \A i \in 1..Len(exec[c]) : s[i] = IF i = ref.n THEN e ELSE exec[c][i]
  BY <1>1
<1>3. exec' = [exec EXCEPT ![c] = s]
  BY DEF Changes
<1> HIDE DEF s
<1>4. exec' \in [Calls -> Seq(Execution)] /\ exec'[c] = s
      /\ \A d \in Calls \ {c} : exec'[d] = exec[d]
  BY <1>1, <1>2, <1>3
<1>5. QED
  BY <1>2, <1>4 DEF Grows

\* What audit's hooks have in common: they pass the outcome on from the last
\* place of the chain.
LEMMA AuditKeeps ==
  ASSUME IInv, NEW c \in Calls, pc[c].phase \in Inward \cup Outward, Capability(c) = Audit,
         Moves(c, outcome[c]), UNCHANGED <<hooksInside, args, clock, runs, entries>>,
         exec' \in [Calls -> Seq(Execution)], Grows(c),
         context' \in [Calls -> Reference \cup {None}],
         token' \in [Calls -> Reference \cup {None}], records' \in [Calls -> Seq(Account)],
         \A d \in Calls \ {c} : /\ exec'[d] = exec[d] /\ context'[d] = context[d]
                                /\ token'[d] = token[d] /\ records'[d] = records[d],
         ExecutionsOK(c)', Made(context[c])', Made(token[c])', LedgerOK(c)'
  PROVE  IInv'
<1>1. /\ Types /\ entries[c] \in 1..MaxEntries[c] /\ hooksInside' = hooksInside
      /\ args' = args /\ clock' = clock /\ runs' = runs /\ entries' = entries
  BY DEF IInv, CallOK
<1>2. outcome[c] \in Outcome \cup {None}
  BY <1>1 DEF Types
<1>3. /\ pc' \in [Calls -> [phase : Phases, at : 1..Last]]
      /\ outcome' \in [Calls -> Outcome \cup {None}]
      /\ \A d \in Calls \ {c} : pc'[d] = pc[d] /\ outcome'[d] = outcome[d]
  BY <1>1, <1>2, MovesTo
<1>4. Types'
  BY <1>1, <1>3 DEF Types
<1>5. OthersStay(c)
  BY <1>1, <1>3 DEF OthersStay, Call
<1>6. ~(PolicyEnabled /\ pc[c].phase = "error" /\ pc[c].at = 1)
  BY <1>1, OnlyAuditIsLast DEF Audit, Policy
<1>7. OutcomesOK(c)'
  BY <1>1, <1>2, <1>6, OutcomesPass
<1>8. CallOK(c)'
  BY <1>1, <1>7 DEF CallOK
<1>9. QED
  BY <1>1, <1>4, <1>5, <1>8, OthersKeep

\* An execution that is opened goes into the context.
LEMMA Opens ==
  ASSUME IInv, NEW c \in Calls, NEW e \in Execution, Adds(c, e),
         e.started = clock[c], ~e.settled, e.took = None, UNCHANGED clock,
         context' = [context EXCEPT ![c] = [call |-> c, n |-> Len(exec[c]) + 1]],
         UNCHANGED token \/ token' = [token EXCEPT ![c] = context[c]]
  PROVE  /\ exec' \in [Calls -> Seq(Execution)] /\ Grows(c)
         /\ context' \in [Calls -> Reference \cup {None}]
         /\ token' \in [Calls -> Reference \cup {None}]
         /\ \A d \in Calls \ {c} : /\ exec'[d] = exec[d] /\ context'[d] = context[d]
                                   /\ token'[d] = token[d]
         /\ ExecutionsOK(c)' /\ Made(context[c])' /\ Made(token[c])'
         /\ Watched(c)' /\ Latest(c)' = e /\ IsOf(c, context[c])'
         /\ \A ref : Reached(c, ref) /\ Made(ref) => exec'[c][ref.n].reached
<1>1. /\ Types /\ ExecutionsOK(c) /\ Made(context[c]) /\ Made(token[c]) /\ clock' = clock
      /\ clock[c] \in Nat
      /\ context \in [Calls -> Reference \cup {None}] /\ token \in [Calls -> Reference \cup {None}]
  BY DEF IInv, CallOK, Types
<1> DEFINE own == [call |-> c, n |-> Len(exec[c]) + 1]
<1>2. context' = [context EXCEPT ![c] = own]
  OBVIOUS
<1>3. /\ exec' \in [Calls -> Seq(Execution)] /\ Grows(c)
      /\ \A d \in Calls \ {c} : exec'[d] = exec[d]
      /\ Len(exec[c]) \in Nat /\ Len(exec'[c]) = Len(exec[c]) + 1
      /\ \A i \in 1..Len(exec[c]) : exec'[c][i] = exec[c][i]
      /\ exec'[c][Len(exec[c]) + 1] = e
  BY <1>1, Appended
<1>4. own \in Reference /\ own.call = c /\ own.n = Len(exec'[c]) /\ own # None
  BY <1>3, NoneAssumption DEF Reference
<1> HIDE DEF own
<1>5. /\ context' \in [Calls -> Reference \cup {None}] /\ context'[c] = own
      /\ token' \in [Calls -> Reference \cup {None}] /\ token'[c] \in {token[c], context[c]}
      /\ \A d \in Calls \ {c} : context'[d] = context[d] /\ token'[d] = token[d]
  BY <1>1, <1>2, <1>4
<1>6. ExecutionsOK(c)'
  <2>1. ASSUME NEW i \in 1..Len(exec'[c])
        PROVE  exec'[c][i].started <= clock'[c] /\ (exec'[c][i].settled <=> exec'[c][i].took # None)
    <3>1. CASE i \in 1..Len(exec[c])
      BY <1>1, <1>3, <3>1 DEF ExecutionsOK
    <3>2. CASE i = Len(exec[c]) + 1
      BY <1>1, <1>3, <3>2
    <3>3. QED
      BY <1>3, <3>1, <3>2
  <2>2. QED
    BY <2>1 DEF ExecutionsOK
<1>7. ASSUME NEW ref \in Reference \cup {None}, ref # None => ref.n \in 1..Len(exec[ref.call])
      PROVE  ref # None => ref.n \in 1..Len(exec'[ref.call])
  <2>1. CASE ref = None
    BY <2>1
  <2>2. CASE ref # None /\ ref.call = c
    BY <1>3, <1>7, <2>2
  <2>3. CASE ref # None /\ ref.call # c
    <3>1. ref.call \in Calls
      BY <2>3 DEF Reference
    <3>2. QED
      BY <1>3, <1>7, <2>3, <3>1
  <2>4. QED
    BY <2>1, <2>2, <2>3
<1>8. Made(context[c])' /\ Made(token[c])'
  <2>1. context'[c].n \in 1..Len(exec'[context'[c].call])
    BY <1>3, <1>4, <1>5
  <2>2. token'[c] \in Reference \cup {None}
    BY <1>5
  <2>3. token'[c] # None => token'[c].n \in 1..Len(exec[token'[c].call])
    BY <1>1, <1>5 DEF Made
  <2>4. QED
    BY <1>7, <2>1, <2>2, <2>3 DEF Made
<1>9. Watched(c)' /\ Latest(c)' = e /\ IsOf(c, context[c])'
  <2>1. exec'[c] # <<>> /\ context'[c] = [call |-> c, n |-> Len(exec'[c])]
    BY <1>3, <1>5 DEF own
  <2>2. QED
    BY <1>3, <1>4, <1>5, <2>1 DEF Watched, Latest, IsOf
<1>10. \A ref : Reached(c, ref) /\ Made(ref) => exec'[c][ref.n].reached
  BY <1>3 DEF Reached, IsOf, Made
<1>11. QED
  BY <1>3, <1>5, <1>6, <1>8, <1>9, <1>10

\* The wrapper opens an execution and puts it in the context.
LEMMA AuditWrapsPreserves ==
  ASSUME IInv, NEW c \in Calls, AuditWraps(c), UNCHANGED hooksInside PROVE IInv'
<1>1. /\ Types /\ ExecutionsOK(c) /\ Made(context[c]) /\ Made(token[c]) /\ LedgerOK(c)
      /\ hooksInside \in BOOLEAN /\ clock[c] \in Nat /\ args[c] \in Writers
      /\ context \in [Calls -> Reference \cup {None}] /\ token \in [Calls -> Reference \cup {None}]
      /\ outcome[c] \in Outcome \cup {None}
  BY DEF IInv, CallOK, Types
<1>2. /\ pc[c].phase = "wrap" /\ Capability(c) = Audit /\ Moves(c, outcome[c])
      /\ args' = args /\ clock' = clock /\ records' = records /\ runs' = runs
      /\ entries' = entries /\ hooksInside' = hooksInside
  BY DEF AuditWraps
<1>3. pc[c].at = Last
  BY <1>1, <1>2, OnlyAuditIsLast
<1>4. IF hooksInside THEN pc'[c] = Enter("before") ELSE pc'[c] = Enter("tool")
  BY <1>1, <1>2, <1>3, MovesTo DEF Inward
<1>5. Even(c) /\ IF hooksInside THEN ~IsOf(c, context[c]) ELSE Reached(c, context[c])
  BY <1>1, <1>2 DEF LedgerOK, HooksInside, HooksOutside, At
<1> DEFINE e == IF hooksInside THEN Fresh(FALSE, args[c], clock[c])
                ELSE Fresh(TRUE, args[c], clock[c])
<1>6. Adds(c, e)
  <2>1. CASE hooksInside
    <3>1. Current(c) = None
      BY <1>5, <2>1, CurrentIs
    <3>2. QED
      BY <2>1, <3>1 DEF AuditWraps
  <2>2. CASE ~hooksInside
    <3>1. Current(c) = context[c] /\ context[c] # None /\ Seen(context[c]).reached = TRUE
      <4>1. IsOf(c, context[c]) /\ exec[c][context[c].n].reached
        BY <1>5, <2>2 DEF Reached
      <4>2. context[c] \in Reference /\ context[c].n \in 1..Len(exec[c])
        BY <1>1, <4>1 DEF IsOf, Made
      <4>3. exec[c][context[c].n].reached \in BOOLEAN
        BY <1>1, <4>2, ExecutionTyped DEF Execution
      <4>4. QED
        BY <4>1, <4>3, CurrentIs DEF Seen, IsOf
    <3>2. QED
      BY <2>2, <3>1 DEF AuditWraps
  <2>3. QED
    BY <2>1, <2>2
<1>7. /\ e \in Execution /\ (e.reached <=> ~hooksInside) /\ ~e.settled /\ e.took = None
      /\ e.args = args[c] /\ e.started = clock[c]
  <2>1. CASE hooksInside
    BY <1>1, <2>1 DEF Fresh, Execution
  <2>2. CASE ~hooksInside
    BY <1>1, <2>2 DEF Fresh, Execution
  <2>3. QED
    BY <2>1, <2>2
<1>8. /\ context' = [context EXCEPT ![c] = [call |-> c, n |-> Len(exec[c]) + 1]]
      /\ token' = [token EXCEPT ![c] = context[c]]
  BY DEF AuditWraps
<1> HIDE DEF e
<1>9. /\ exec' \in [Calls -> Seq(Execution)] /\ Grows(c)
      /\ context' \in [Calls -> Reference \cup {None}]
      /\ token' \in [Calls -> Reference \cup {None}]
      /\ \A d \in Calls \ {c} : /\ exec'[d] = exec[d] /\ context'[d] = context[d]
                                /\ token'[d] = token[d]
      /\ ExecutionsOK(c)' /\ Made(context[c])' /\ Made(token[c])'
      /\ Watched(c)' /\ Latest(c)' = e
      /\ Reached(c, context[c]) => exec'[c][context[c].n].reached
  BY <1>1, <1>2, <1>6, <1>7, <1>8, Opens
<1>10. token'[c] = context[c] /\ Even(c)'
  BY <1>1, <1>2, <1>5, <1>8 DEF Even
<1>11. LedgerOK(c)'
  <2>1. CASE hooksInside
    <3>1. ~IsOf(c, token[c])'
      BY <1>5, <1>10, <2>1 DEF IsOf
    <3>2. Waits(c)'
      BY <1>7, <1>9, <1>10, <2>1 DEF Waits
    <3>3. pc'[c].phase = "before"
      BY <1>4, <2>1, Places
    <3>4. HooksInside(c)'
      BY <3>1, <3>2, <3>3 DEF HooksInside, At
    <3>5. QED
      BY <1>2, <2>1, <3>4 DEF LedgerOK
  <2>2. CASE ~hooksInside
    <3>1. Reached(c, token[c])'
      BY <1>5, <1>9, <1>10, <2>2 DEF Reached, IsOf
    <3>2. Armed(c)'
      BY <1>2, <1>7, <1>9, <2>2 DEF Armed
    <3>3. pc'[c].phase = "tool"
      BY <1>4, <2>2, Places
    <3>4. HooksOutside(c)'
      BY <1>10, <3>1, <3>2, <3>3 DEF HooksOutside, At
    <3>5. QED
      BY <1>2, <2>2, <3>4 DEF LedgerOK
  <2>3. QED
    BY <2>1, <2>2
<1>12. records' \in [Calls -> Seq(Account)] /\ \A d \in Calls \ {c} : records'[d] = records[d]
  BY <1>1, <1>2 DEF Types
<1>13. QED
  BY <1>2, <1>9, <1>11, <1>12, AuditKeeps DEF Inward

\* A changed execution keeps its number and may be settled.
LEMMA ChangeKeeps ==
  ASSUME IInv, NEW c \in Calls, NEW e, NEW n \in 1..Len(exec[c]),
         \A d \in Calls \ {c} : exec'[d] = exec[d], Len(exec'[c]) = Len(exec[c]),
         \A i \in 1..Len(exec[c]) : exec'[c][i] = IF i = n THEN e ELSE exec[c][i],
         e.started <= clock[c], e.settled <=> e.took # None, UNCHANGED <<clock, token>>,
         context'[c] \in {context[c], token[c]}
  PROVE  ExecutionsOK(c)' /\ Made(context[c])' /\ Made(token[c])'
<1>1. /\ Types /\ ExecutionsOK(c) /\ Made(context[c]) /\ Made(token[c]) /\ clock' = clock
      /\ token' = token
      /\ context[c] \in Reference \cup {None} /\ token[c] \in Reference \cup {None}
  BY DEF IInv, CallOK, Types
<1>2. ExecutionsOK(c)'
  BY <1>1 DEF ExecutionsOK
<1>3. \A d \in Calls : Len(exec'[d]) = Len(exec[d])
  OBVIOUS
<1>4. Made(context[c])' /\ Made(token[c])'
  BY <1>1, <1>3 DEF Made, Reference
<1>5. QED
  BY <1>2, <1>4

\* Before the tool, the hook marks the wrapper's execution, or one of its own.
LEMMA AuditBeforePreserves ==
  ASSUME IInv, NEW c \in Calls, AuditBefore(c), UNCHANGED hooksInside PROVE IInv'
<1>1. /\ Types /\ ExecutionsOK(c) /\ Made(context[c]) /\ Made(token[c]) /\ LedgerOK(c)
      /\ hooksInside \in BOOLEAN /\ clock[c] \in Nat /\ args[c] \in Writers
      /\ context \in [Calls -> Reference \cup {None}] /\ token \in [Calls -> Reference \cup {None}]
  BY DEF IInv, CallOK, Types
<1>2. /\ pc[c].phase = "before" /\ Capability(c) = Audit /\ Moves(c, outcome[c])
      /\ args' = args /\ clock' = clock /\ token' = token /\ records' = records /\ runs' = runs
      /\ entries' = entries /\ hooksInside' = hooksInside
  BY DEF AuditBefore
<1>3. pc[c].at = Last
  BY <1>1, <1>2, OnlyAuditIsLast
<1>4. IF hooksInside THEN pc'[c] = Enter("tool") ELSE pc'[c] = Enter("wrap")
  <2>1. outcome[c] \in Outcome \cup {None}
    BY <1>1 DEF Types
  <2>2. QED
    BY <1>1, <1>2, <1>3, <2>1, MovesTo DEF Inward
<1>5. records' \in [Calls -> Seq(Account)] /\ \A d \in Calls \ {c} : records'[d] = records[d]
  BY <1>1, <1>2 DEF Types
<1>6. CASE hooksInside
  <2>1. Waits(c) /\ ~IsOf(c, token[c])
    BY <1>1, <1>2, <1>6 DEF LedgerOK, HooksInside, At
  <2> DEFINE known == context[c]
             e == Begin([Seen(known) EXCEPT !.reached = TRUE], args[c], clock[c])
  <2>2. /\ known \in Reference /\ known.call = c /\ known.n = Len(exec[c])
        /\ known.n \in 1..Len(exec[c]) /\ Current(c) = known /\ known # None
        /\ Seen(known) = Latest(c)
    <3>1. Watched(c) /\ Len(exec[c]) \in Nat
      BY <1>1, <2>1 DEF Waits, Types
    <3>2. known.call = c /\ known.n = Len(exec[c]) /\ known # None /\ known \in Reference
      BY <1>1, <3>1, NoneAssumption DEF Watched, Reference
    <3>3. QED
      BY <1>1, <3>2, CurrentIs DEF IsOf, Made, Seen, Latest
  <2>3. Seen(known) \in Execution /\ Seen(known).took = None /\ ~Seen(known).settled
    <3>1. Seen(known) = exec[c][known.n] /\ exec[c][known.n] \in Execution
      BY <1>1, <2>2, ExecutionTyped DEF Seen
    <3>2. QED
      BY <1>1, <2>1, <2>2, <3>1 DEF Waits, ExecutionsOK
  <2>4. /\ e \in Execution /\ e.reached /\ ~e.settled /\ e.took = None
        /\ e.args = args[c] /\ e.started = clock[c]
    BY <1>1, <2>3 DEF Begin, Execution
  <2>5. Changes(known, e) /\ context' = context
    BY <2>2 DEF AuditBefore
  <2> HIDE DEF e, known
  <2>6. /\ exec' \in [Calls -> Seq(Execution)] /\ Grows(c)
        /\ \A d \in Calls \ {c} : exec'[d] = exec[d]
        /\ Len(exec[c]) \in Nat /\ Len(exec'[c]) = Len(exec[c])
        /\ \A i \in 1..Len(exec[c]) : exec'[c][i] = IF i = known.n THEN e ELSE exec[c][i]
    BY <1>1, <2>2, <2>4, <2>5, Changed
  <2>7. ExecutionsOK(c)' /\ Made(context[c])' /\ Made(token[c])'
    <3>1. e.started <= clock[c] /\ (e.settled <=> e.took # None) /\ context'[c] = context[c]
      BY <1>1, <2>4, <2>5
    <3>2. QED
      BY <1>2, <2>2, <2>6, <3>1, ChangeKeeps
  <2>8. Latest(c)' = e /\ Watched(c)' /\ Even(c)' /\ ~IsOf(c, token[c])'
    <3>1. exec'[c] # <<>>
      BY <2>2, <2>6
    <3>2. QED
      BY <1>2, <2>1, <2>2, <2>5, <2>6, <3>1 DEF Latest, Watched, Waits, Even, IsOf
  <2>9. Armed(c)'
    BY <1>2, <2>4, <2>8 DEF Armed
  <2>10. LedgerOK(c)'
    BY <1>2, <1>4, <1>6, <2>8, <2>9, Places DEF LedgerOK, HooksInside, At
  <2>11. context' \in [Calls -> Reference \cup {None}] /\ \A d \in Calls \ {c} : context'[d] = context[d]
    BY <1>1, <2>5
  <2>12. QED
    BY <1>1, <1>2, <1>5, <2>6, <2>7, <2>10, <2>11, AuditKeeps DEF Inward
<1>7. CASE ~hooksInside
  <2>1. Even(c) /\ ~IsOf(c, context[c])
    BY <1>1, <1>2, <1>7 DEF LedgerOK, HooksOutside, At
  <2> DEFINE e == Fresh(TRUE, args[c], clock[c])
  <2>2. /\ Adds(c, e)
        /\ context' = [context EXCEPT ![c] = [call |-> c, n |-> Len(exec[c]) + 1]]
    <3>1. Current(c) = None
      BY <2>1, CurrentIs
    <3>2. QED
      BY <3>1 DEF AuditBefore
  <2>3. /\ e \in Execution /\ e.reached /\ ~e.settled /\ e.took = None
        /\ e.args = args[c] /\ e.started = clock[c]
    BY <1>1 DEF Fresh, Execution
  <2> HIDE DEF e
  <2>4. /\ exec' \in [Calls -> Seq(Execution)] /\ Grows(c)
        /\ context' \in [Calls -> Reference \cup {None}]
        /\ token' \in [Calls -> Reference \cup {None}]
        /\ \A d \in Calls \ {c} : /\ exec'[d] = exec[d] /\ context'[d] = context[d]
                                  /\ token'[d] = token[d]
        /\ ExecutionsOK(c)' /\ Made(context[c])' /\ Made(token[c])'
        /\ Watched(c)' /\ Latest(c)' = e /\ IsOf(c, context[c])'
    BY <1>2, <2>2, <2>3, Opens
  <2>5. Reached(c, context[c])' /\ Even(c)'
    BY <1>2, <2>1, <2>3, <2>4 DEF Reached, Watched, Latest, Even
  <2>6. LedgerOK(c)'
    BY <1>2, <1>4, <1>7, <2>5, Places DEF LedgerOK, HooksOutside, At
  <2>7. QED
    BY <1>2, <1>5, <2>4, <2>6, AuditKeeps DEF Inward
<1>8. QED
  BY <1>1, <1>6, <1>7

\* Settling an execution disturbs nothing else that is known of it.
LEMMA Settles ==
  ASSUME IInv, NEW c \in Calls, NEW ref \in Reference, ref.call = c,
         ref.n \in 1..Len(exec[c]), Changes(ref, Settle(Seen(ref), outcome[c], clock[c])),
         UNCHANGED <<clock, token>>, context'[c] \in {context[c], token[c]}
  PROVE  /\ exec' \in [Calls -> Seq(Execution)] /\ Grows(c) /\ Len(exec'[c]) = Len(exec[c])
         /\ \A d \in Calls \ {c} : exec'[d] = exec[d]
         /\ ExecutionsOK(c)' /\ Made(context[c])' /\ Made(token[c])'
         /\ \A i \in 1..Len(exec[c]) : exec'[c][i].reached <=> exec[c][i].reached
         /\ exec'[c][ref.n].settled
         /\ exec'[c][ref.n] = Settle(Seen(ref), outcome[c], clock[c])
         /\ exec[c][ref.n].settled => exec'[c][ref.n] = exec[c][ref.n]
         /\ ~exec[c][ref.n].settled =>
              exec'[c][ref.n].took = [args |-> exec[c][ref.n].args, outcome |-> outcome[c],
                                      hooks |-> clock[c] - exec[c][ref.n].started]
<1>1. /\ Types /\ ExecutionsOK(c) /\ clock[c] \in Nat /\ outcome[c] \in Outcome \cup {None}
  BY DEF IInv, CallOK, Types
<1> DEFINE old == exec[c][ref.n]
           e == Settle(old, outcome[c], clock[c])
<1>2. Seen(ref) = old /\ old \in Execution /\ old.started <= clock[c]
      /\ (old.settled <=> old.took # None)
  BY <1>1, ExecutionTyped DEF Seen, ExecutionsOK
<1>3. /\ e \in Execution /\ e.settled /\ (e.reached <=> old.reached) /\ e.started = old.started
      /\ old.settled => e = old
      /\ ~old.settled => e.took = [args |-> old.args, outcome |-> outcome[c],
                                   hooks |-> clock[c] - old.started]
  <2> HIDE DEF old
  <2>1. /\ e \in Execution /\ e.settled /\ (e.reached <=> old.reached) /\ e.started = old.started
        /\ ~old.settled => e.took = [args |-> old.args, outcome |-> outcome[c],
                                     hooks |-> clock[c] - old.started]
    BY <1>1, <1>2, SettleTyped
  <2>2. old.settled => e = old
    BY SettleIs
  <2>3. QED
    BY <2>1, <2>2
<1>4. e.took # None
  <2>1. CASE old.settled
    BY <1>2, <1>3, <2>1
  <2>2. CASE ~old.settled
    <3>1. old.args \in Writers /\ clock[c] - old.started \in Nat
      BY <1>1, <1>2 DEF Execution
    <3>2. e.took \in Account
      BY <1>1, <1>3, <2>2, <3>1 DEF Account
    <3>3. QED
      BY <3>2, NoneAssumption
  <2>3. QED
    BY <2>1, <2>2
<1>5. Changes(ref, e)
  BY <1>2
<1> HIDE DEF e
<1>6. /\ exec' \in [Calls -> Seq(Execution)] /\ Grows(c)
      /\ \A d \in Calls \ {c} : exec'[d] = exec[d]
      /\ Len(exec[c]) \in Nat /\ Len(exec'[c]) = Len(exec[c])
      /\ \A i \in 1..Len(exec[c]) : exec'[c][i] = IF i = ref.n THEN e ELSE exec[c][i]
  BY <1>1, <1>3, <1>5, Changed
<1>7. ExecutionsOK(c)' /\ Made(context[c])' /\ Made(token[c])'
  <2>1. e.started <= clock[c] /\ (e.settled <=> e.took # None)
    BY <1>2, <1>3, <1>4
  <2>2. QED
    BY <1>6, <2>1, ChangeKeeps
<1>8. exec'[c][ref.n] = e
  BY <1>6
<1>9. QED
  BY <1>2, <1>3, <1>6, <1>7, <1>8 DEF e

\* Audit's error and result hooks settle the execution in the context.
LEMMA AuditHookPreserves ==
  ASSUME IInv, NEW c \in Calls, AuditHook(c), UNCHANGED hooksInside PROVE IInv'
<1>1. /\ Types /\ ExecutionsOK(c) /\ Made(context[c]) /\ Made(token[c]) /\ LedgerOK(c)
      /\ OutcomesOK(c) /\ hooksInside \in BOOLEAN /\ clock[c] \in Nat
      /\ outcome[c] \in Outcome \cup {None}
      /\ context \in [Calls -> Reference \cup {None}] /\ token \in [Calls -> Reference \cup {None}]
  BY DEF IInv, CallOK, Types
<1>2. /\ pc[c].phase \in {"error", "after"} /\ Capability(c) = Audit /\ Moves(c, outcome[c])
      /\ args' = args /\ clock' = clock /\ context' = context /\ token' = token
      /\ records' = records /\ runs' = runs /\ entries' = entries /\ hooksInside' = hooksInside
  BY DEF AuditHook
<1>3. pc[c].at = Last /\ Last \in Nat \ {0}
  BY <1>1, <1>2, OnlyAuditIsLast
<1>4. IF Last = 1 THEN IF hooksInside THEN pc'[c] = Enter("unwrap") ELSE pc'[c] = Done
      ELSE pc'[c].phase = pc[c].phase /\ pc'[c].at = Last - 1
  <2>1. /\ pc[c].at > 1 => pc'[c].phase = pc[c].phase /\ pc'[c].at = pc[c].at - 1
        /\ pc[c].at = 1 => IF hooksInside THEN pc'[c] = Enter("unwrap") ELSE pc'[c] = Done
    BY <1>1, <1>2, MovesTo DEF Outward
  <2>2. QED
    BY <1>3, <2>1
<1>5. hooksInside => Watched(c) /\ IsOf(c, context[c])
  <2>1. Len(exec[c]) \in Nat
    BY <1>1 DEF Types
  <2>2. hooksInside => Watched(c)
    BY <1>1, <1>2 DEF LedgerOK, HooksInside, At, Heard, Refused, Returned, Armed
  <2>3. QED
    BY <2>1, <2>2, NoneAssumption DEF Watched, IsOf, Reference
<1>6. CASE ~IsOf(c, context[c])
  <2>1. exec' = exec /\ ~hooksInside
    BY <1>5, <1>6, CurrentIs DEF AuditHook
  <2>2. ExecutionsOK(c)' /\ Made(context[c])' /\ Made(token[c])' /\ Grows(c)
    <3>1. Len(exec[c]) \in Nat
      BY <1>1 DEF Types
    <3>2. QED
      BY <1>1, <1>2, <2>1, <3>1 DEF ExecutionsOK, Made, Grows
  <2>3. Even(c)'
    BY <1>1, <1>2, <2>1 DEF LedgerOK, HooksOutside, At, Even
  <2>4. pc'[c].phase \in {"error", "after", "done"}
    BY <1>2, <1>4, <2>1, Places
  <2>5. LedgerOK(c)'
    BY <1>2, <2>1, <2>3, <2>4 DEF LedgerOK, HooksOutside, At
  <2>6. QED
    BY <1>1, <1>2, <2>1, <2>2, <2>5, AuditKeeps DEF Outward, Types
<1>7. CASE IsOf(c, context[c])
  <2>1. /\ Current(c) = context[c] /\ context[c] \in Reference /\ context[c].call = c
        /\ context[c].n \in 1..Len(exec[c]) /\ context[c] # None
    BY <1>1, <1>7, CurrentIs DEF IsOf, Made
  <2>2. Changes(context[c], Settle(Seen(context[c]), outcome[c], clock[c]))
    BY <2>1 DEF AuditHook
  <2> DEFINE n == context[c].n
  <2>3. /\ exec' \in [Calls -> Seq(Execution)] /\ Grows(c) /\ Len(exec'[c]) = Len(exec[c])
        /\ \A d \in Calls \ {c} : exec'[d] = exec[d]
        /\ ExecutionsOK(c)' /\ Made(context[c])' /\ Made(token[c])'
        /\ \A i \in 1..Len(exec[c]) : exec'[c][i].reached <=> exec[c][i].reached
        /\ exec'[c][n].settled
        /\ exec[c][n].settled => exec'[c][n] = exec[c][n]
        /\ ~exec[c][n].settled =>
             exec'[c][n].took = [args |-> exec[c][n].args, outcome |-> outcome[c],
                                 hooks |-> clock[c] - exec[c][n].started]
    BY <1>2, <2>1, <2>2, Settles
  <2>4. CASE hooksInside
    <3>1. (Heard(c) \/ Refused(c) \/ Returned(c)) /\ ~IsOf(c, token[c])
      BY <1>1, <1>2, <2>4 DEF LedgerOK, HooksInside, At
    <3>2. /\ exec[c] # <<>> /\ context[c] = [call |-> c, n |-> Len(exec[c])] /\ n = Len(exec[c])
          /\ exec[c][n] = Latest(c) /\ exec'[c][n] = Latest(c)' /\ exec'[c] # <<>>
      BY <1>5, <2>1, <2>3, <2>4 DEF Watched, Latest
    <3>3. /\ Watched(c)' /\ Latest(c)'.settled
          /\ Latest(c)'.reached <=> Latest(c).reached
      BY <1>2, <2>1, <2>3, <3>2 DEF Watched, Latest
    <3>4. Refused(c) => Refused(c)'
      BY <1>2, <3>3 DEF Refused, Even
    <3>5. Heard(c) => Heard(c)'
      BY <1>2, <2>3, <3>2, <3>3 DEF Heard, Owes
    <3>6. ASSUME Returned(c)
          PROVE  Heard(c)'
      <4>1. Latest(c)'.took = [args |-> args[c], outcome |-> outcome[c], hooks |-> 0]
        BY <1>1, <2>3, <3>2, <3>6 DEF Returned, Armed
      <4>2. outcome[c].kind \notin NotExecuted
        BY <1>1, <1>2, <1>3 DEF OutcomesOK, Handed, At, NotExecuted, Failures
      <4>3. runs'[c] = Append(records'[c], Latest(c)'.took)
            /\ Latest(c)'.took.outcome.kind \notin NotExecuted
        BY <1>2, <3>6, <4>1, <4>2 DEF Returned, Owes
      <4>4. Latest(c)'.reached
        BY <3>3, <3>6 DEF Returned, Armed
      <4>5. QED
        BY <3>3, <4>3, <4>4 DEF Heard, Owes
    <3>7. (Heard(c)' \/ Refused(c)') /\ ~IsOf(c, token[c])'
      BY <1>2, <3>1, <3>4, <3>5, <3>6 DEF IsOf
    <3>8. pc'[c].phase \in {"error", "after"} \/ (pc'[c].phase = "unwrap" /\ pc'[c].at = Last)
      BY <1>2, <1>4, <2>4, Places
    <3>9. HooksInside(c)'
      BY <3>7, <3>8 DEF HooksInside, At
    <3>10. LedgerOK(c)'
      BY <1>2, <2>4, <3>9 DEF LedgerOK
    <3>11. QED
      BY <1>1, <1>2, <2>3, <3>10, AuditKeeps DEF Outward, Types
  <2>5. CASE ~hooksInside
    <3>1. Even(c)'
      BY <1>1, <1>2, <2>5 DEF LedgerOK, HooksOutside, At, Even
    <3>2. pc'[c].phase \in {"error", "after", "done"}
      BY <1>2, <1>4, <2>5, Places
    <3>3. LedgerOK(c)'
      BY <1>2, <2>5, <3>1, <3>2 DEF LedgerOK, HooksOutside, At
    <3>4. QED
      BY <1>1, <1>2, <2>3, <3>3, AuditKeeps DEF Outward, Types
  <2>6. QED
    BY <1>1, <2>4, <2>5
<1>8. QED
  BY <1>6, <1>7

\* Audit's wrapper settles its execution, records it and restores the context.
LEMMA AuditUnwrapsPreserves ==
  ASSUME IInv, NEW c \in Calls, AuditUnwraps(c), UNCHANGED hooksInside PROVE IInv'
<1>1. /\ Types /\ ExecutionsOK(c) /\ Made(context[c]) /\ Made(token[c]) /\ LedgerOK(c)
      /\ OutcomesOK(c) /\ hooksInside \in BOOLEAN /\ clock[c] \in Nat
      /\ outcome[c] \in Outcome \cup {None}
      /\ context \in [Calls -> Reference \cup {None}] /\ token \in [Calls -> Reference \cup {None}]
      /\ records \in [Calls -> Seq(Account)] /\ Len(exec[c]) \in Nat
  <2>1. exec[c] \in Seq(Execution)
    BY DEF IInv, Types
  <2>2. QED
    BY <2>1 DEF IInv, CallOK, Types
<1>2. /\ pc[c].phase = "unwrap" /\ Capability(c) = Audit /\ Moves(c, outcome[c])
      /\ args' = args /\ clock' = clock /\ token' = token
      /\ runs' = runs /\ entries' = entries /\ hooksInside' = hooksInside
      /\ context' = [context EXCEPT ![c] = token[c]]
  BY DEF AuditUnwraps, Reset
<1>3. pc[c].at = Last /\ Last \in Nat \ {0}
  BY <1>1, <1>2, OnlyAuditIsLast
<1>4. /\ Last # 1 => pc'[c].phase = "unwrap" /\ pc'[c].at = Last - 1
      /\ Last = 1 => IF hooksInside THEN pc'[c].phase = "done"
                     ELSE pc'[c].phase \in {"error", "after", "done"}
  <2>1. /\ pc[c].at > 1 => pc'[c].phase = pc[c].phase /\ pc'[c].at = pc[c].at - 1
        /\ pc[c].at = 1 => IF hooksInside THEN pc'[c] = Done ELSE pc'[c] = Handles(outcome[c])
    BY <1>1, <1>2, MovesTo DEF Outward
  <2>2. ~hooksInside => Handles(outcome[c]).phase \in {"error", "after", "done"}
    BY HandlesCases, Places
  <2>3. QED
    BY <1>2, <1>3, <2>1, <2>2, Places
<1>5. /\ context' \in [Calls -> Reference \cup {None}] /\ context'[c] = token[c]
      /\ \A d \in Calls \ {c} : context'[d] = context[d]
  BY <1>1, <1>2
<1>6. /\ Returned(c) \/ (hooksInside /\ (Heard(c) \/ Refused(c)))
      /\ IF hooksInside THEN ~IsOf(c, token[c]) ELSE Reached(c, token[c])
  BY <1>1, <1>2, <1>3 DEF LedgerOK, HooksInside, HooksOutside, At
<1> DEFINE n == Len(exec[c])
           mine == [call |-> c, n |-> n]
           e == Settle(Seen(mine), outcome[c], clock[c])
<1>7. mine \in Reference /\ mine.call = c /\ mine.n = n /\ n \in 1..Len(exec[c]) /\ exec[c][n] = Latest(c)
  <2>1. exec[c] # <<>>
    BY <1>6 DEF Returned, Armed, Heard, Refused, Watched
  <2>2. n # 0
    BY <1>1, <2>1 DEF Types
  <2>3. QED
    BY <1>1, <2>2 DEF Reference, Latest
<1>8. /\ Changes(mine, e)
      /\ DidNotExecute(e) => records' = records
      /\ ~DidNotExecute(e) => records' = [records EXCEPT ![c] = Append(@, e.took)]
  BY DEF AuditUnwraps
<1> HIDE DEF mine, e
<1>9. /\ exec' \in [Calls -> Seq(Execution)] /\ Grows(c) /\ Len(exec'[c]) = Len(exec[c])
      /\ \A d \in Calls \ {c} : exec'[d] = exec[d]
      /\ ExecutionsOK(c)' /\ Made(context[c])' /\ Made(token[c])'
      /\ \A i \in 1..Len(exec[c]) : exec'[c][i].reached <=> exec[c][i].reached
      /\ exec'[c][n].settled /\ exec'[c][n] = e
      /\ Latest(c).settled => e = Latest(c)
      /\ ~Latest(c).settled =>
           e.took = [args |-> Latest(c).args, outcome |-> outcome[c],
                     hooks |-> clock[c] - Latest(c).started]
  <2>1. Changes(mine, Settle(Seen(mine), outcome[c], clock[c]))
    BY <1>8 DEF e
  <2>2. mine.n \in 1..Len(exec[c]) /\ context'[c] \in {context[c], token[c]}
        /\ UNCHANGED <<clock, token>>
    BY <1>2, <1>5, <1>7
  <2> HIDE DEF n
  <2>3. /\ exec' \in [Calls -> Seq(Execution)] /\ Grows(c) /\ Len(exec'[c]) = Len(exec[c])
        /\ \A d \in Calls \ {c} : exec'[d] = exec[d]
        /\ ExecutionsOK(c)' /\ Made(context[c])' /\ Made(token[c])'
        /\ \A i \in 1..Len(exec[c]) : exec'[c][i].reached <=> exec[c][i].reached
        /\ exec'[c][mine.n].settled
        /\ exec'[c][mine.n] = Settle(Seen(mine), outcome[c], clock[c])
        /\ exec[c][mine.n].settled => exec'[c][mine.n] = exec[c][mine.n]
        /\ ~exec[c][mine.n].settled =>
             exec'[c][mine.n].took = [args |-> exec[c][mine.n].args, outcome |-> outcome[c],
                                      hooks |-> clock[c] - exec[c][mine.n].started]
    BY <1>7, <2>1, <2>2, Settles
  <2>4. QED
    BY <1>7, <2>3 DEF e
<1>10. e \in Execution /\ (e.reached <=> Latest(c).reached) /\ e.took # None
  <2>1. exec'[c] \in Seq(Execution) /\ n \in 1..Len(exec'[c])
    BY <1>7, <1>9
  <2>2. exec'[c][n] \in Execution
    BY <2>1
  <2>3. exec'[c][n].took # None
    BY <1>9, <2>1 DEF ExecutionsOK
  <2>4. QED
    BY <1>7, <1>9, <2>2, <2>3
<1>11. /\ records' \in [Calls -> Seq(Account)] /\ \A d \in Calls \ {c} : records'[d] = records[d]
       /\ DidNotExecute(e) => records'[c] = records[c]
       /\ ~DidNotExecute(e) => records'[c] = Append(records[c], e.took)
  <2>1. e.took \in Account
    BY <1>10 DEF Execution
  <2> DEFINE more == Append(records[c], e.took)
  <2>2. more \in Seq(Account)
    BY <1>1, <2>1
  <2>3. ~DidNotExecute(e) => records' = [records EXCEPT ![c] = more]
    BY <1>8
  <2> HIDE DEF more
  <2>4. QED
    BY <1>1, <1>8, <2>2, <2>3 DEF more
<1>12. Even(c)'
  <2>1. CASE Refused(c)
    <3>1. DidNotExecute(e)
      BY <1>10, <2>1 DEF Refused, DidNotExecute
    <3>2. QED
      BY <1>2, <1>11, <2>1, <3>1 DEF Refused, Even
  <2>2. CASE Heard(c)
    <3>1. ~DidNotExecute(e) /\ e = Latest(c)
      BY <1>9, <1>10, <2>2 DEF Heard, DidNotExecute
    <3>2. QED
      BY <1>2, <1>11, <2>2, <3>1 DEF Heard, Owes, Even
  <2>3. CASE Returned(c)
    <3>1. /\ e.took = [args |-> args[c], outcome |-> outcome[c], hooks |-> 0] /\ e.reached
      BY <1>1, <1>9, <1>10, <2>3 DEF Returned, Armed
    <3>2. CASE outcome[c].kind \in NotExecuted
      <4>1. DidNotExecute(e)
        BY <3>1, <3>2 DEF DidNotExecute
      <4>2. QED
        BY <1>2, <1>11, <2>3, <3>2, <4>1 DEF Returned, Even
    <3>3. CASE outcome[c].kind \notin NotExecuted
      <4>1. ~DidNotExecute(e)
        BY <3>1, <3>3 DEF DidNotExecute
      <4>2. QED
        BY <1>2, <1>11, <2>3, <3>1, <3>3, <4>1 DEF Returned, Owes, Even
    <3>4. QED
      BY <3>2, <3>3
  <2>4. QED
    BY <1>6, <2>1, <2>2, <2>3
<1>13. LedgerOK(c)'
  <2>1. CASE hooksInside
    <3>1. ~IsOf(c, context[c])'
      BY <1>5, <1>6, <2>1 DEF IsOf
    <3>2. pc'[c].phase = "done" \/ (pc'[c].phase = "unwrap" /\ pc'[c].at # Last)
      BY <1>3, <1>4, <2>1
    <3>3. HooksInside(c)'
      BY <1>12, <3>1, <3>2 DEF HooksInside, At
    <3>4. QED
      BY <1>2, <2>1, <3>3 DEF LedgerOK
  <2>2. CASE ~hooksInside
    <3>1. Reached(c, context[c])'
      <4>1. IsOf(c, token[c]) /\ exec[c][token[c].n].reached /\ token[c].n \in 1..Len(exec[c])
        BY <1>1, <1>6, <2>2 DEF Reached, IsOf, Made
      <4>2. QED
        BY <1>5, <1>9, <4>1 DEF Reached, IsOf
    <3>2. \/ pc'[c].phase \in {"error", "after", "done"}
          \/ pc'[c].phase = "unwrap" /\ pc'[c].at # Last
      BY <1>3, <1>4, <2>2
    <3>3. HooksOutside(c)'
      BY <1>12, <3>1, <3>2 DEF HooksOutside, At
    <3>4. QED
      BY <1>2, <2>2, <3>3 DEF LedgerOK
  <2>3. QED
    BY <1>1, <2>1, <2>2
<1>14. token' \in [Calls -> Reference \cup {None}] /\ \A d \in Calls \ {c} : token'[d] = token[d]
  BY <1>1, <1>2
<1>15. QED
  BY <1>2, <1>5, <1>9, <1>11, <1>13, <1>14, AuditKeeps DEF Outward

-----------------------------------------------------------------------------
(* The invariant is inductive                                              *)

\* The invariant holds initially.
LEMMA Initial == Init => IInv
<1> SUFFICES ASSUME Init PROVE IInv
  OBVIOUS
<1>1. /\ Last \in Nat \ {0} /\ Idle.phase = "idle" /\ Idle \in [phase : Phases, at : 1..Last]
      /\ "model" \in Writers
  BY ChainFacts, EnterCases DEF Idle, Phases, Writers
<1>2. Types
  BY <1>1 DEF Init, Types
<1>3. ASSUME NEW c \in Calls
      PROVE  CallOK(c)
  <2>1. /\ pc[c] = Idle /\ outcome[c] = None /\ context[c] = None /\ exec[c] = <<>>
        /\ token[c] = None /\ records[c] = <<>> /\ runs[c] = <<>> /\ entries[c] = 1
    BY DEF Init
  <2>2. entries[c] \in 1..MaxEntries[c]
    BY <2>1, ToolCallAssumption
  <2>3. LedgerOK(c)
    BY <1>1, <2>1 DEF LedgerOK, HooksInside, HooksOutside, At, Even, IsOf
  <2>4. OutcomesOK(c)
    BY <1>1, <2>1 DEF OutcomesOK, At, Through
  <2>5. QED
    BY <2>1, <2>2, <2>3, <2>4 DEF CallOK, ExecutionsOK, Made
<1>4. QED
  BY <1>2, <1>3 DEF IInv

\* Every step preserves it.
LEMMA Preserved == IInv /\ [Next]_vars => IInv'
<1> SUFFICES ASSUME IInv, [Next]_vars PROVE IInv'
  OBVIOUS
<1>1. CASE Next
  <2>1. UNCHANGED hooksInside
    BY <1>1 DEF Next
  <2>2. PICK c \in Calls : Start(c) \/ AuditStep(c) \/ Tool(c) \/ PolicyStep(c) \/ OtherStep(c)
    BY <1>1 DEF Next
  <2>3. CASE Start(c)
    BY <2>1, <2>3, StartPreserves
  <2>4. CASE AuditStep(c)
    BY <2>1, <2>4, AuditWrapsPreserves, AuditBeforePreserves, AuditHookPreserves,
       AuditUnwrapsPreserves DEF AuditStep
  <2>5. CASE Tool(c)
    BY <2>1, <2>5, ToolPreserves
  <2>6. CASE PolicyStep(c)
    BY <2>1, <2>6, PolicyPreserves
  <2>7. CASE OtherStep(c)
    BY <2>1, <2>7, OtherPassesPreserves, OtherAnswersPreserves, OtherRerunsPreserves DEF OtherStep
  <2>8. QED
    BY <2>2, <2>3, <2>4, <2>5, <2>6, <2>7
<1>2. CASE UNCHANGED vars
  <2>1. Types'
    BY <1>2 DEF vars, IInv, Types
  <2>2. ASSUME NEW c \in Calls
        PROVE  CallOK(c)'
    <3>1. CallOK(c)
      BY DEF IInv
    <3>2. ExecutionsOK(c)' = ExecutionsOK(c) /\ OutcomesOK(c)' = OutcomesOK(c)
      BY <1>2 DEF vars, ExecutionsOK, OutcomesOK, Handed, IsLastRun, Through, Answered, Unheard,
                  At, LastRun
    <3>3. Made(context[c])' = Made(context[c]) /\ Made(token[c])' = Made(token[c])
      BY <1>2 DEF vars, Made
    <3>4. HooksInside(c)' = HooksInside(c)
      BY <1>2 DEF vars, HooksInside, At, Even, Owes, IsOf, Reached, Latest, Watched, Waits, Armed,
                  Returned, Heard, Refused
    <3>5. HooksOutside(c)' = HooksOutside(c)
      BY <1>2 DEF vars, HooksOutside, At, Even, Owes, IsOf, Reached, Latest, Watched, Waits, Armed,
                  Returned, Heard, Refused
    <3>6. QED
      BY <1>2, <3>1, <3>2, <3>3, <3>4, <3>5 DEF vars, CallOK, LedgerOK
  <2>3. QED
    BY <2>1, <2>2 DEF IInv
<1>3. QED
  BY <1>1, <1>2

\* The ledger is kept at every step of every call.
THEOREM Inductive == Spec => []IInv
BY Initial, Preserved, PTL DEF Spec

-----------------------------------------------------------------------------
(* What it shows                                                           *)

\* It gives the types,
LEMMA Typed == IInv => TypeOK
<1> SUFFICES ASSUME IInv PROVE TypeOK
  OBVIOUS
<1>1. Types /\ hooksInside \in BOOLEAN
  BY DEF IInv, Types
<1>2. ASSUME NEW c \in Calls
      PROVE  /\ pc[c] \in [phase : Phases, at : 1..Last] /\ args[c] \in Writers
             /\ outcome[c] \in Outcome \cup {None} /\ clock[c] \in Nat
             /\ context[c] \in Reference \cup {None} /\ token[c] \in Reference \cup {None}
             /\ entries[c] \in 1..MaxEntries[c]
  BY DEF IInv, Types, CallOK
<1>3. ASSUME NEW c \in Calls, NEW i \in 1..Len(exec[c])
      PROVE  exec[c][i] \in Execution /\ (exec[c][i].settled <=> exec[c][i].took # None)
  BY <1>1, ExecutionTyped DEF IInv, CallOK, ExecutionsOK
<1>4. ASSUME NEW c \in Calls
      PROVE  /\ \A i \in 1..Len(records[c]) : records[c][i] \in Account
             /\ \A i \in 1..Len(runs[c]) : runs[c][i] \in Account
  <2>1. records[c] \in Seq(Account) /\ runs[c] \in Seq(Account)
    BY <1>1 DEF Types
  <2>2. QED
    BY <2>1
<1>5. QED
  BY <1>1, <1>2, <1>3, <1>4 DEF TypeOK

\* Without its last element an extended sequence is what it was.
LEMMA AllButTheLast ==
  ASSUME NEW S, NEW s \in Seq(S), NEW e \in S
  PROVE  /\ Append(s, e) # <<>>
         /\ s = SubSeq(Append(s, e), 1, Len(Append(s, e)) - 1)
<1>1. /\ Len(Append(s, e)) = Len(s) + 1 /\ Len(s) \in Nat /\ Append(s, e) \in Seq(S)
      /\ \A i \in 1..Len(s) : Append(s, e)[i] = s[i]
  BY AppendProperties
<1>2. QED
  BY <1>1

\* that the record lags by one run at most, and only while that run is on its way,
LEMMA Recorded == IInv => OneRecordPerRun
<1> SUFFICES ASSUME IInv, NEW c \in Calls, records[c] # runs[c]
             PROVE  /\ pc[c].phase \notin {"idle", "wrap", "done"}
                    /\ runs[c] # <<>>
                    /\ records[c] = SubSeq(runs[c], 1, Len(runs[c]) - 1)
  BY DEF OneRecordPerRun
<1>1. /\ Types /\ LedgerOK(c) /\ ~Even(c) /\ pc[c].phase \in Phases
      /\ records[c] \in Seq(Account) /\ runs[c] \in Seq(Account)
  BY DEF IInv, CallOK, Types, Even
<1>2. /\ pc[c].phase \notin {"idle", "wrap", "done"}
      /\ Returned(c) \/ Heard(c)
  BY <1>1 DEF LedgerOK, HooksInside, HooksOutside, At, Phases, Inward, Outward, Waits, Refused
<1>3. PICK account : Owes(c, account)
  BY <1>1, <1>2 DEF Returned, Heard
<1>4. runs[c] = Append(records[c], account) /\ account \in Account
  <2>1. runs[c] = Append(records[c], account)
    BY <1>3 DEF Owes
  <2>2. Len(runs[c]) = Len(records[c]) + 1 /\ runs[c][Len(runs[c])] = account
    BY <1>1, <2>1, AppendProperties
  <2>3. QED
    BY <1>1, <2>1, <2>2
<1>5. QED
  BY <1>1, <1>2, <1>4, AllButTheLast

\* and that converted failures neither come back nor end the run.
LEMMA Contained == IInv => ConversionComesLast /\ FailuresAreContained
<1> SUFFICES ASSUME IInv, NEW c \in Calls
             PROVE  /\ pc[c].phase = "error" => outcome[c].by # Policy
                    /\ pc[c] = Done =>
                         /\ PolicyEnabled /\ outcome[c].kind \in Failures \ Reraise =>
                              outcome[c].phase \in Unheard
                         /\ outcome[c].by = Policy => Answered(c)
  BY DEF ConversionComesLast, FailuresAreContained, Answered, LastRun
<1>1. OutcomesOK(c)
  BY DEF IInv, CallOK
<1>2. Done.phase = "done"
  BY Places
<1>3. QED
  BY <1>1, <1>2 DEF OutcomesOK, At, Through

\* The state has the types of the attributes of AuditCapability and its executions.
THEOREM TypeCorrect == Spec => []TypeOK
BY Inductive, Typed, PTL

\* audit_capability.py promises one record per execution of the tool: nothing any
\* other capability does loses, repeats, reorders or alters one.
THEOREM RecordIsComplete == Spec => []OneRecordPerRun
BY Inductive, Recorded, PTL

\* tool_failure_policy.py puts itself outermost so that every other error hook sees
\* the original exception: none is handed the redacted copy.
THEOREM PolicyHearsLast == Spec => []ConversionComesLast
BY Inductive, Contained, PTL

\* on_tool_execute_error ends a run with no failure it is handed and not told to
\* reraise, whether the tool's or another capability's.  What it converts never was
\* an answer for the model, an exempt type, or a run the call has recovered from.
THEOREM PolicyContains == Spec => []FailuresAreContained
BY Inductive, Contained, PTL
=============================================================================
