--------------------------- MODULE AgentRunProofs ---------------------------
(***************************************************************************)
(* The properties of a run hold for any tools, names, sources and users.   *)
(* IInv is about the guard: no mutation runs that its user has not         *)
(* approved.  OInv, inductive given IInv, is about what the run offers,    *)
(* explains and hears of the server's refusals.                            *)
(***************************************************************************)
EXTENDS AgentRunProperties, FiniteSetTheorems, SequenceTheorems, TLAPS

RunOK ==
  run # None =>
    run = [user |-> run.user, granted |-> run.granted,
           defs |-> run.defs, seen |-> run.seen, offered |-> run.offered,
           told |-> run.told, steady |-> run.steady]

\* A definition the bridge made of one of the server's tools.
FromServer(d) ==
  \E t \in ServerTools :
    d = Definition(t.name, "server", "function",
                   IF t.hint = "mutates" THEN "destructive" ELSE "none", FALSE)

\* What the guard must hold back.
MustBeApproved(name, source) ==
  /\ GuardEnabled /\ name \notin Exempt
  /\ name \in RequireApproval \/ SaysItMutates(name, source)

\* No tool offered for execution must be approved first.
Guarded(defs) == \A d \in defs : MustBeApproved(d.name, d.source) => d.kind # "function"

\* The agent knows what the registry calls destructive, and keeps knowing it.
AgentKnows ==
  /\ registry \subseteq Specs
  /\ agent = None => run = None /\ ran = None
  /\ agent # None => agent = [functions |-> FunctionsOf(registry), names |-> NamesOf(registry),
                              destructive |-> NamesOf({s \in registry : s.destructive})]

OffersAreGuarded ==
  run # None =>
    /\ run.defs = None \/ \A d \in run.defs : FromServer(d)
    /\ run.offered = None \/ Guarded(run.offered)

IInv == RunOK /\ AgentKnows /\ OffersAreGuarded /\ MutationsAreApproved

-----------------------------------------------------------------------------
(* The guard                                                               *)

\* Every vocabulary a source declares a mutation in, the guard reads.
LEMMA GuardReads ==
  ASSUME agent # None, AgentKnows,
         NEW bridge, \A d \in bridge : FromServer(d)
  PROVE  Guarded(PrepareTools(RegistryTools \cup bridge \cup SpecTools \cup ToolsetTools))
<1> DEFINE all == RegistryTools \cup bridge \cup SpecTools \cup ToolsetTools
<1>1. ASSUME NEW d \in all, MustBeApproved(d.name, d.source), d.kind = "function"
      PROVE  RequiresApproval(d)
  <2>1. CASE d.name \in RequireApproval
    BY <1>1, <2>1 DEF MustBeApproved, RequiresApproval
  <2>2. CASE SaysItMutates(d.name, d.source)
    <3>1. CASE d \in RegistryTools
      <4>1. d.source = "registry" /\ d.name \notin Exempt
        BY <1>1, <3>1 DEF RegistryTools, Definition, MustBeApproved
      <4>2. PICK s \in registry : s.name = d.name /\ s.destructive
        BY <2>2, <4>1 DEF SaysItMutates
      <4>3. agent.destructive = NamesOf({u \in registry : u.destructive})
        BY DEF AgentKnows
      <4>4. d.name \in agent.destructive
        BY <4>2, <4>3 DEF NamesOf
      <4>5. QED
        BY <4>1, <4>4 DEF RequiresApproval
    <3>2. CASE d \in bridge
      <4>1. PICK t \in ServerTools :
              d = [name |-> t.name, source |-> "server", kind |-> "function",
                   metadata |-> IF t.hint = "mutates" THEN "destructive" ELSE "none",
                   stamped |-> FALSE]
        BY <3>2 DEF FromServer, Definition
      <4>2. t.hint = "mutates"
        BY <2>2, <4>1, NamesAssumption DEF SaysItMutates, Apart
      <4>3. QED
        BY <1>1, <4>1, <4>2 DEF RequiresApproval, DeclaresAMutation, MustBeApproved
    <3>3. CASE d \in SpecTools
      <4>1. PICK t \in ServiceSpecs :
              d = [name |-> t.name, source |-> "spec", kind |-> "function",
                   metadata |-> t.hint, stamped |-> FALSE]
        BY <3>3 DEF SpecTools, Definition
      <4>2. t.hint = "mutates"
        BY <2>2, <4>1, NamesAssumption DEF SaysItMutates, Apart
      <4>3. QED
        BY <1>1, <4>1, <4>2 DEF RequiresApproval, DeclaresAMutation, MustBeApproved
    <3>4. CASE d \in ToolsetTools
      <4>1. PICK t \in Toolsets :
              d = [name |-> t.name, source |-> "toolset", kind |-> t.kind,
                   metadata |-> "none", stamped |-> t.stamped]
        BY <3>4 DEF ToolsetTools, Definition
      <4>2. t.stamped
        BY <2>2, <4>1, NamesAssumption DEF SaysItMutates, Apart
      <4>3. QED
        BY <1>1, <4>1, <4>2 DEF RequiresApproval, DeclaresAMutation, MustBeApproved
    <3>5. QED
      BY <3>1, <3>2, <3>3, <3>4
  <2>3. QED
    BY <1>1, <2>1, <2>2 DEF MustBeApproved
<1>2. \A d \in all : d = [name |-> d.name, source |-> d.source, kind |-> d.kind,
                          metadata |-> d.metadata, stamped |-> d.stamped]
  BY DEF RegistryTools, FromServer, SpecTools, ToolsetTools, Definition
<1> HIDE DEF all
<1>3. ASSUME NEW e \in PrepareTools(all), MustBeApproved(e.name, e.source)
      PROVE  e.kind # "function"
  <2>1. PICK d \in all :
          e = IF GuardEnabled /\ d.kind = "function" /\ RequiresApproval(d)
              THEN [d EXCEPT !.kind = "unapproved"] ELSE d
    BY <1>3 DEF PrepareTools
  <2>2. e.name = d.name /\ e.source = d.source
    BY <1>2, <2>1
  <2>3. CASE d.kind = "function"
    <3>1. GuardEnabled /\ RequiresApproval(d)
      BY <1>1, <1>3, <2>2, <2>3 DEF MustBeApproved
    <3>2. QED
      BY <1>2, <2>1, <2>3, <3>1
  <2>4. CASE d.kind # "function"
    BY <2>1, <2>4
  <2>5. QED
    BY <2>3, <2>4
<1>4. QED
  BY <1>3 DEF Guarded, all

\* The bridge's definitions are all the server's.
LEMMA LoadsFromServer == \A d \in LoadToolDefs : FromServer(d)
BY DEF LoadToolDefs, Listed, FromServer

\* The outcome of a call, and the conditions, say nothing of a mutation.
LEMMA RanIsApproved ==
  ASSUME NEW d, run # None, RunOK, MustBeApproved(d.name, d.source) => d.kind # "function",
         Executable(d), Runs(d), registry' = registry
  PROVE  MutationsAreApproved'
<1>1. ran' = [name |-> d.name, source |-> d.source, approved |-> d.name \in run.granted]
  BY DEF Runs
<1>2. ASSUME MustBeApproved(d.name, d.source) PROVE d.name \in run.granted
  BY <1>2 DEF Executable
<1>3. QED
  BY <1>1, <1>2 DEF MutationsAreApproved, MustBeApproved, SaysItMutates

-----------------------------------------------------------------------------
(* The steps                                                               *)

\* Nothing is registered and nothing has run at first.
LEMMA Initial == Init => IInv
BY DEF Init, IInv, RunOK, AgentKnows, OffersAreGuarded, MutationsAreApproved

\* The history of the last tool stays true while the registry and it stay.
LEMMA RanStays ==
  ASSUME MutationsAreApproved, UNCHANGED <<registry, ran>>
  PROVE  MutationsAreApproved'
BY DEF MutationsAreApproved, SaysItMutates

\* What the agent knows of the registry stays true while both stay.
LEMMA AgentStays ==
  ASSUME AgentKnows, UNCHANGED <<registry, agent>>, agent = None => run' = None /\ ran' = None
  PROVE  AgentKnows'
BY DEF AgentKnows, NamesOf, FunctionsOf

\* A tool is registered before there is an agent, or a run of it.
LEMMA RegisterPreserves ==
  ASSUME IInv, NEW spec \in Specs, Register(spec) PROVE IInv'
<1>1. agent = None /\ run = None /\ ran = None
  BY DEF IInv, AgentKnows, Register
<1>2. agent' = None /\ run' = None /\ ran' = None /\ registry' \subseteq Specs
  BY <1>1 DEF IInv, AgentKnows, Register
<1>3. QED
  BY <1>2 DEF IInv, RunOK, AgentKnows, OffersAreGuarded, MutationsAreApproved

\* The agent is built of the names, and the destructive names, registered so far.
LEMMA BuildAgentPreserves ==
  ASSUME IInv, BuildAgent PROVE IInv'
<1>1. run' = None /\ ran' = None /\ registry' = registry /\ registry \subseteq Specs
  BY DEF IInv, AgentKnows, BuildAgent
<1>2. agent' = [functions |-> FunctionsOf(registry'), names |-> NamesOf(registry'),
                destructive |-> NamesOf({s \in registry' : s.destructive})]
  BY <1>1 DEF BuildAgent
<1>3. NamesOf(registry') \subseteq STRING /\ FunctionsOf(registry') \subseteq STRING
  BY <1>1, AgentRunAssumption DEF NamesOf, FunctionsOf
<1>4. NamesOf({s \in registry' : s.destructive}) \subseteq STRING
  BY <1>3 DEF NamesOf
<1>5. agent' # None
  BY <1>2, <1>3, <1>4, AgentRunAssumption
<1>6. QED
  BY <1>1, <1>2, <1>5 DEF IInv, RunOK, AgentKnows, OffersAreGuarded, MutationsAreApproved

\* A request arrives with nothing offered.
LEMMA ArrivePreserves ==
  ASSUME IInv, NEW endpoint \in Endpoints, NEW user \in Users, Arrive(endpoint, user)
  PROVE  IInv'
<1>1. PICK granted : run' = Request(user, granted)
  BY DEF Arrive
<1>2. UNCHANGED <<registry, agent, ran>> /\ agent # None
  BY DEF Arrive
<1>3. RunOK' /\ OffersAreGuarded'
  BY <1>1 DEF RunOK, OffersAreGuarded, Request
<1>4. QED
  BY <1>2, <1>3, AgentStays, RanStays DEF IInv

\* What get_tools offers has gone through the guard.
LEMMA GetToolsPreserves ==
  ASSUME IInv, GetTools PROVE IInv'
<1> DEFINE defs == Definitions
           bridge == {d \in defs : d.name \notin UnavailableTools}
           offers == PrepareTools(RegistryTools \cup bridge \cup SpecTools \cup ToolsetTools)
           seen == IF run.defs = None THEN NamesOf(Listed) \ agent.names ELSE run.seen
<1>1. run # None /\ UNCHANGED <<registry, agent, ran>>
  BY DEF GetTools
<1>2. agent # None
  BY <1>1 DEF IInv, AgentKnows
<1>3. \A d \in defs : FromServer(d)
  BY <1>1, LoadsFromServer DEF IInv, OffersAreGuarded, Definitions
<1>4. \A d \in bridge : FromServer(d)
  BY <1>3
<1>5. run' = [run EXCEPT !.defs = defs, !.seen = seen, !.offered = offers]
  BY DEF GetTools, Collected
<1> HIDE DEF defs, bridge
<1>6. Guarded(offers)
  BY <1>2, <1>4, GuardReads DEF IInv
<1> HIDE DEF offers, seen
<1>7. run' = [user |-> run.user, granted |-> run.granted,
              defs |-> defs, seen |-> seen, offered |-> offers, told |-> run.told,
              steady |-> run.steady]
  BY <1>1, <1>5 DEF IInv, RunOK
<1>8. RunOK' /\ OffersAreGuarded'
  BY <1>1, <1>3, <1>6, <1>7 DEF IInv, RunOK, OffersAreGuarded, FromServer, Guarded,
     MustBeApproved, SaysItMutates
<1>9. QED
  BY <1>1, <1>2, <1>8, AgentStays, RanStays DEF IInv

\* A step that ends the run, or keeps what it offers and who it acts for.
Keeps ==
  \/ run' = None
  \/ /\ run # None /\ run' # None /\ RunOK'
     /\ run'.user = run.user /\ run'.defs = run.defs
     /\ run'.offered \in {run.offered, None}

\* A step that keeps the run keeps IInv, if the tool it ran was approved.
LEMMA KeepsPreserves ==
  ASSUME IInv, UNCHANGED <<registry, agent>>, Keeps, MutationsAreApproved',
         agent = None => ran' = None
  PROVE  IInv'
<1>1. RunOK'
  BY DEF Keeps, RunOK
<1>2. OffersAreGuarded'
  BY DEF IInv, Keeps, OffersAreGuarded, FromServer, Guarded, MustBeApproved, SaysItMutates
<1>3. agent = None => run' = None
  BY DEF IInv, AgentKnows, Keeps
<1>4. QED
  BY <1>1, <1>2, <1>3, AgentStays DEF IInv

\* The fields a step changes that neither property reads.
LEMMA FieldsKeep ==
  ASSUME RunOK, run # None, run' # None, NEW granted, NEW told, NEW steady,
         NEW offered \in {run.offered, None},
         run' = [user |-> run.user, granted |-> granted,
                 defs |-> run.defs, seen |-> run.seen, offered |-> offered,
                 told |-> told, steady |-> steady]
  PROVE  Keeps
BY DEF Keeps, RunOK

\* A step that runs no tool and keeps the run keeps IInv.
LEMMA KeepsStep ==
  ASSUME IInv, UNCHANGED <<registry, agent, ran>>, Keeps
  PROVE  IInv'
<1>1. MutationsAreApproved' /\ (agent = None => ran' = None)
  BY RanStays DEF IInv, AgentKnows
<1>2. QED
  BY <1>1, KeepsPreserves

\* Steps that leave the run as it is.
LEMMA RunStays ==
  ASSUME IInv, run # None => run' = run, run = None => run' = None
  PROVE  Keeps
BY DEF IInv, Keeps, RunOK

\* Instructions change what the run tells alone.
LEMMA GetInstructionsPreserves ==
  ASSUME IInv, GetInstructions PROVE IInv'
<1> DEFINE told == UnavailableTools
<1>1. /\ run # None /\ UNCHANGED <<registry, agent, ran>>
      /\ run' = [run EXCEPT !.told = told]
  BY DEF GetInstructions
<1> HIDE DEF told
<1>2. run' = [user |-> run.user, granted |-> run.granted,
              defs |-> run.defs, seen |-> run.seen, offered |-> run.offered,
              told |-> told, steady |-> run.steady]
  BY <1>1 DEF IInv, RunOK
<1>3. run' = None \/ Keeps
  BY <1>1, <1>2, FieldsKeep DEF IInv
<1>4. QED
  BY <1>1, <1>3, KeepsStep DEF Keeps

\* A change of the server touches no more of the run than whether it is steady.
LEMMA FlipsPreserve ==
  ASSUME IInv, Flips, UNCHANGED <<registry, agent, ran>> PROVE IInv'
<1>1. CASE run = None
  BY <1>1, KeepsStep DEF Flips, Keeps
<1>2. CASE run # None
  <2>1. run' = [user |-> run.user, granted |-> run.granted,
                defs |-> run.defs, seen |-> run.seen, offered |-> run.offered,
                told |-> run.told, steady |-> FALSE]
    BY <1>2 DEF IInv, RunOK, Flips
  <2>2. run' = None \/ Keeps
    BY <1>2, <2>1, FieldsKeep DEF IInv
  <2>3. QED
    BY <2>2, KeepsStep DEF Keeps
<1>3. QED
  BY <1>1, <1>2

\* The next step offers nothing yet.
LEMMA NextStepPreserves ==
  ASSUME IInv, NextStep PROVE IInv'
<1>1. /\ run # None /\ UNCHANGED <<registry, agent, ran>>
      /\ run' = [run EXCEPT !.offered = None, !.told = None, !.steady = TRUE]
  BY DEF NextStep, ModelTurn
<1>2. run' = [user |-> run.user, granted |-> run.granted,
              defs |-> run.defs, seen |-> run.seen, offered |-> None,
              told |-> None, steady |-> TRUE]
  BY <1>1 DEF IInv, RunOK
<1>3. run' = None \/ Keeps
  BY <1>1, <1>2, FieldsKeep DEF IInv
<1>4. QED
  BY <1>1, <1>3, KeepsStep DEF Keeps

\* A call spends the approval it had.
LEMMA SpendKeeps ==
  ASSUME IInv, run # None, NEW name, run' = [run EXCEPT !.granted = @ \ {name}]
  PROVE  run' = None \/ Keeps
<1> DEFINE granted == run.granted \ {name}
<1>1. run' = [user |-> run.user, granted |-> granted,
              defs |-> run.defs, seen |-> run.seen, offered |-> run.offered,
              told |-> run.told, steady |-> run.steady]
  BY DEF IInv, RunOK
<1> HIDE DEF granted
<1>2. QED
  BY <1>1, FieldsKeep DEF IInv

\* A tool executed in process is one the guard let through, or is approved.
LEMMA ExecutePreserves ==
  ASSUME IInv, Execute PROVE IInv'
<1>1. /\ run # None /\ run.offered # None /\ UNCHANGED <<registry, agent>>
  BY DEF Execute, ModelTurn
<1>2. PICK d \in run.offered :
        Executable(d) /\ Runs(d) /\ run' = [run EXCEPT !.granted = @ \ {d.name}]
  BY DEF Execute
<1>3. MustBeApproved(d.name, d.source) => d.kind # "function"
  BY <1>1, <1>2 DEF IInv, OffersAreGuarded, Guarded
<1>4. MutationsAreApproved'
  BY <1>1, <1>2, <1>3, RanIsApproved DEF IInv
<1>5. Keeps
  BY <1>1, <1>2, SpendKeeps DEF Keeps
<1>6. agent # None
  BY <1>1 DEF IInv, AgentKnows
<1>7. QED
  BY <1>1, <1>4, <1>5, <1>6, KeepsPreserves

\* A call that acted ran a tool, one that did not leaves the history alone.
LEMMA CallServerPreserves ==
  ASSUME IInv, CallServer PROVE IInv'
<1>1. /\ run # None /\ run.offered # None /\ UNCHANGED <<registry, agent>>
  BY DEF CallServer, ModelTurn
<1>2. PICK d \in run.offered :
        /\ Executable(d) /\ (Runs(d) \/ ran' = ran)
        /\ run' = None \/ run' = [run EXCEPT !.granted = @ \ {d.name}]
  BY DEF CallServer
<1>3. MustBeApproved(d.name, d.source) => d.kind # "function"
  BY <1>1, <1>2 DEF IInv, OffersAreGuarded, Guarded
<1>4. MutationsAreApproved'
  BY <1>1, <1>2, <1>3, RanIsApproved, RanStays DEF IInv
<1>5. Keeps
  BY <1>1, <1>2, SpendKeeps DEF Keeps
<1>6. agent # None
  BY <1>1 DEF IInv, AgentKnows
<1>7. QED
  BY <1>1, <1>4, <1>5, <1>6, KeepsPreserves

\* Every step keeps IInv.
LEMMA Preserved == IInv /\ [Next]_vars => IInv'
<1> SUFFICES ASSUME IInv, [Next]_vars PROVE IInv'
  OBVIOUS
<1>1. CASE \E spec \in Specs : Register(spec)
  BY <1>1, RegisterPreserves
<1>2. CASE BuildAgent
  BY <1>2, BuildAgentPreserves
<1>3. CASE \E endpoint \in Endpoints, user \in Users : Arrive(endpoint, user)
  BY <1>3, ArrivePreserves
<1>4. CASE GetTools
  BY <1>4, GetToolsPreserves
<1>5. CASE ListFails
  BY <1>5, KeepsStep DEF ListFails, Keeps
<1>6. CASE GetInstructions
  BY <1>6, GetInstructionsPreserves
<1>7. CASE \E name \in Conditional : ConditionFlips(name)
  BY <1>7, FlipsPreserve DEF ConditionFlips
<1>8. CASE \E name \in Restricted : PermissionFlips(name)
  BY <1>8, FlipsPreserve DEF PermissionFlips
<1>9. CASE Defer
  BY <1>9, RunStays, KeepsStep DEF Defer
<1>10. CASE Execute
  BY <1>10, ExecutePreserves
<1>11. CASE CallServer
  BY <1>11, CallServerPreserves
<1>12. CASE NextStep
  BY <1>12, NextStepPreserves
<1>13. CASE Finish
  BY <1>13, KeepsStep DEF Finish, Keeps
<1>14. CASE NamesClash
  BY <1>14, KeepsStep DEF NamesClash, Keeps
<1>15. CASE UNCHANGED vars
  BY <1>15, RunStays, KeepsStep DEF vars
<1>16. QED
  BY <1>1, <1>2, <1>3, <1>4, <1>5, <1>6, <1>7, <1>8, <1>9, <1>10, <1>11, <1>12, <1>13,
     <1>14, <1>15 DEF Next

\* IInv holds of every behaviour.
LEMMA Inductive == Spec => []IInv
BY Initial, Preserved, PTL DEF Spec

-----------------------------------------------------------------------------
(* The registry                                                            *)

\* Tools a finite set of names tells apart are as many as their names.
LEMMA ApartCount ==
  ASSUME NEW tools, NEW N, IsFiniteSet(N), NamesOf(tools) \subseteq N, Apart(tools)
  PROVE  Cardinality(NamesOf(tools)) = Cardinality(tools)
<1> DEFINE f == [t \in tools |-> t.name]
<1>1. IsFiniteSet(NamesOf(tools))
  BY FS_Subset
<1>2. f \in [tools -> NamesOf(tools)]
  BY DEF NamesOf
<1>3. IsInjective(f)
  BY DEF Apart, IsInjective
<1>4. \A n \in NamesOf(tools) : \E t \in tools : f[t] = n
  BY DEF NamesOf
<1> HIDE DEF f
<1>5. f \in Bijection(tools, NamesOf(tools))
  BY <1>2, <1>3, <1>4 DEF Bijection, Injection, Surjection
<1>6. IsFiniteSet(tools)
  BY <1>1, <1>5, FS_Injection DEF Bijection
<1>7. QED
  BY <1>5, <1>6, FS_Bijection DEF ExistsBijection

\* The names of finitely many tools are finitely many.
LEMMA NamesFinite ==
  ASSUME NEW tools, IsFiniteSet(tools)
  PROVE  IsFiniteSet(NamesOf(tools))
<1> DEFINE f == [t \in tools |-> t.name]
<1>1. f \in Surjection(tools, NamesOf(tools))
  BY DEF NamesOf, Surjection
<1>2. QED
  BY <1>1, FS_Surjection

\* So are those of their functions.
LEMMA FunctionsFinite == IsFiniteSet(FunctionsOf(Specs))
<1> DEFINE f == [s \in Specs |-> s.fn]
<1>1. f \in Surjection(Specs, FunctionsOf(Specs))
  BY DEF FunctionsOf, Surjection
<1>2. IsFiniteSet(Specs)
  BY AgentRunAssumption
<1>3. QED
  BY <1>1, <1>2, FS_Surjection

AllNames ==
  NamesOf(Specs) \cup FunctionsOf(Specs) \cup NamesOf(ServerTools)
    \cup NamesOf(ServiceSpecs) \cup NamesOf(Toolsets)

\* The sources name finitely many tools, by strings.
LEMMA AllNamesFinite == IsFiniteSet(AllNames) /\ AllNames \subseteq STRING
<1>1. /\ IsFiniteSet(NamesOf(Specs)) /\ IsFiniteSet(NamesOf(ServerTools))
      /\ IsFiniteSet(NamesOf(ServiceSpecs)) /\ IsFiniteSet(NamesOf(Toolsets))
  BY AgentRunAssumption, NamesFinite
<1>2. IsFiniteSet(AllNames)
  BY <1>1, FunctionsFinite, FS_Union DEF AllNames
<1>3. QED
  BY <1>2, AgentRunAssumption DEF AllNames

-----------------------------------------------------------------------------
(* The calls of the server                                                 *)

\* What the outcome of a call says of its answer, and the model hears of it.
Heard(answer, outcome) ==
  LET error == IF answer.kind = "error" THEN answer.error ELSE answer
  IN  /\ outcome.verdict = "retry" =>
           /\ ~answer.acted
           /\ DetailNames(error.detail) \subseteq outcome.text
           /\ answer.kind = "error" => error.requested \subseteq outcome.text
      /\ outcome.verdict = "result" => answer.kind = "content"
      /\ outcome.verdict = "abort" <=>
           answer.kind = "jsonrpc" /\ answer.code # "INVALID_PARAMS"

\* A retry of an advertised tool says every name of the detail.
LEMMA DetailIsSaid ==
  ASSUME NEW message, NEW detail
  PROVE  DetailNames(detail) \subseteq RetryMessage(message, detail, None)
BY DEF RetryMessage, MessageSays, DetailNames

\* What the bridge makes of any answer of the server to a tool it advertised.
LEMMA AnswersAreHeard ==
  ASSUME NEW d, NEW defs, AdvertisedNames(defs, d.name) = None, NEW answer \in Answers(d)
  PROVE  Heard(answer, CallTool(defs, d.name, answer))
<1> DEFINE outcome == CallTool(defs, d.name, answer)
<1>1. CASE d.name \in hidden
  <2>1. /\ answer.kind = "jsonrpc" /\ answer.code = "INVALID_PARAMS" /\ answer.acted = FALSE
    BY <1>1 DEF Answers
  <2>2. outcome = Outcome("retry", RetryMessage(answer.message, answer.detail, None))
    BY <2>1 DEF CallTool, OnJsonRpcError
  <2>3. outcome.verdict = "retry" /\ DetailNames(answer.detail) \subseteq outcome.text
    BY <2>2, DetailIsSaid DEF Outcome
  <2>4. QED
    BY <2>1, <2>3 DEF Heard
<1>2. CASE d.name \notin hidden /\ d.name \in Conditional \ open
  <2>1. /\ answer.kind = "error" /\ answer.acted = FALSE
        /\ answer.error = [Unread EXCEPT !.type = "service_error", !.labels = {"code"}]
    BY <1>2 DEF Answers
  <2>2. ParseToolError(answer).type \in {"service_error", "unknown"}
    BY <2>1 DEF ParseToolError, Unread
  <2>3. outcome.verdict = "failed"
    BY <2>1, <2>2 DEF CallTool, OnToolError, Outcome
  <2>4. QED
    BY <2>1, <2>3 DEF Heard
<1>3. CASE d.name \notin hidden /\ d.name \notin Conditional \ open
  <2> DEFINE Acted(e) == ParseToolError([error |-> e]).type
                           \notin {"validation_error", "input_required"}
  <2>0. \/ answer = [kind |-> "content", acted |-> TRUE]
        \/ answer = [kind |-> "jsonrpc", code |-> "INTERNAL_ERROR", message |-> {},
                     detail |-> {}, acted |-> FALSE]
        \/ \E e \in Errors : answer = [kind |-> "error", error |-> e, acted |-> Acted(e)]
    <3>1. answer \in {[kind |-> "content", acted |-> TRUE],
                     [kind |-> "jsonrpc", code |-> "INTERNAL_ERROR", message |-> {},
                      detail |-> {}, acted |-> FALSE]}
                    \cup {[kind |-> "error", error |-> e, acted |-> Acted(e)] : e \in Errors}
      BY <1>3 DEF Answers
    <3> HIDE DEF Acted
    <3>2. QED
      BY <3>1
  <2> HIDE DEF Acted
  <2>1. CASE answer.kind = "content"
    <3>1. outcome.verdict = "result"
      BY <2>1 DEF CallTool, Outcome
    <3>2. QED
      BY <2>1, <3>1 DEF Heard
  <2>2. CASE answer.kind = "jsonrpc"
    <3>1. answer.code = "INTERNAL_ERROR"
      BY <2>0, <2>2
    <3>2. outcome.verdict = "abort"
      BY <2>2, <3>1 DEF CallTool, OnJsonRpcError, Outcome
    <3>3. QED
      BY <2>2, <3>1, <3>2 DEF Heard
  <2>3. CASE answer.kind = "error"
    <3>1. PICK e \in Errors : answer.error = e /\ answer.acted = Acted(e)
      BY <2>0, <2>3
    <3>2. ParseToolError([error |-> e]) = ParseToolError(answer)
      BY <3>1 DEF ParseToolError
    <3> DEFINE error == ParseToolError(answer)
    <3>3. outcome = OnToolError(error)
      BY <2>3 DEF CallTool
    <3>4. CASE error.type = "validation_error"
      <4>1. error = e /\ e \in Errors \ {None} /\ ~answer.acted
        BY <3>1, <3>2, <3>4 DEF ParseToolError, Unread, Acted
      <4>2. outcome = Outcome("retry", RetryMessage(e.message, e.detail, None))
        BY <3>3, <3>4, <4>1 DEF OnToolError
      <4>3. outcome.verdict = "retry" /\ DetailNames(e.detail) \subseteq outcome.text
        BY <4>2, DetailIsSaid DEF Outcome
      <4>4. e.requested = {}
        BY <3>4, <4>1, ErrorsAssumption
      <4>5. QED
        BY <2>3, <3>1, <4>1, <4>3, <4>4 DEF Heard
    <3>5. CASE error.type = "input_required"
      <4>1. error = e /\ e \in Errors \ {None} /\ ~answer.acted
        BY <3>1, <3>2, <3>5 DEF ParseToolError, Unread, Acted
      <4>2. outcome = Outcome("retry", e.message \cup e.requested)
        BY <3>3, <3>5, <4>1 DEF OnToolError
      <4>3. outcome.verdict = "retry" /\ e.requested \subseteq outcome.text
        BY <4>2 DEF Outcome
      <4>4. DetailNames(e.detail) = {}
        BY <3>5, <4>1, ErrorsAssumption DEF DetailNames
      <4>5. QED
        BY <2>3, <3>1, <4>1, <4>3, <4>4 DEF Heard
    <3>6. CASE error.type \notin {"validation_error", "input_required"}
      <4>1. outcome.verdict = "failed"
        BY <3>3, <3>6 DEF OnToolError, Outcome
      <4>2. QED
        BY <2>3, <4>1 DEF Heard
    <3>7. QED
      BY <3>4, <3>5, <3>6
  <2>4. answer.kind \in {"content", "jsonrpc", "error"}
    BY <2>0
  <2>5. QED
    BY <2>1, <2>2, <2>3, <2>4
<1>4. QED
  BY <1>1, <1>2, <1>3

-----------------------------------------------------------------------------
(* The tools of a step                                                     *)

\* The card of a tool is labelled after the tool's source, or the tool renamed.
Carded(d) ==
  \/ d.source = "toolset"
  \/ d.source = "registry" /\ d.name \in Renamed
  \/ Catalog(d.name) = d.source

\* Tools the catalog labels after their source, and no two of one name.
Labelled(tools) ==
  Apart(tools) /\ NamesOf(tools) \subseteq AllNames /\ \A d \in tools : Carded(d)

\* The names that two sources may claim.
Contested == NamesOf(Toolsets) \cup (Renamed \ agent.names)

FromBridge(tools) == NamesOf({d \in tools : d.source = "server"})

\* Each source leaves out the names of those before it, and keeps its own apart.
LEMMA SourcesAreLabelled ==
  ASSUME agent # None, AgentKnows, NEW bridge, \A d \in bridge : FromServer(d),
         NamesOf(bridge) \cap agent.names = {},
         NEW all, all = RegistryTools \cup bridge \cup SpecTools \cup ToolsetTools
  PROVE  /\ NamesOf(all) \subseteq AllNames /\ \A d \in all : Carded(d)
         /\ \A d, e \in all : d.name = e.name => d = e \/ d.name \in Contested
         /\ FromBridge(all) = NamesOf(bridge)
         /\ \A d \in all : d = Definition(d.name, d.source, d.kind, d.metadata, d.stamped)
<1>1. /\ agent.names = NamesOf(registry) /\ agent.functions = FunctionsOf(registry)
      /\ registry \subseteq Specs
  BY DEF AgentKnows
<1>2. ASSUME NEW d \in RegistryTools
      PROVE  /\ d = Definition(d.name, "registry", "function", "none", FALSE)
             /\ d.source = "registry" /\ d.name \in FunctionsOf(Specs)
             /\ d.name \in agent.names \/ d.name \in Renamed
  <2>1. PICK n \in agent.functions : d = Definition(n, "registry", "function", "none", FALSE)
    BY DEF RegistryTools
  <2>2. PICK s \in registry : n = s.fn
    BY <1>1 DEF FunctionsOf
  <2>3. n \in agent.names \/ n \in Renamed
    BY <1>1, <2>2 DEF NamesOf, Renamed, FunctionsOf
  <2>4. n \in FunctionsOf(Specs)
    BY <1>1, <2>2 DEF FunctionsOf
  <2>5. QED
    BY <2>1, <2>3, <2>4 DEF Definition
<1>3. ASSUME NEW d \in bridge
      PROVE  /\ \E t \in ServerTools : d = Definition(t.name, "server", "function",
                   IF t.hint = "mutates" THEN "destructive" ELSE "none", FALSE)
             /\ d.source = "server" /\ d.name \in NamesOf(ServerTools) \ agent.names
  <2>1. PICK t \in ServerTools : d = Definition(t.name, "server", "function",
                   IF t.hint = "mutates" THEN "destructive" ELSE "none", FALSE)
    BY DEF FromServer
  <2>2. d.source = "server" /\ d.name = t.name
    BY <2>1 DEF Definition
  <2>3. QED
    BY <2>1, <2>2 DEF NamesOf
<1>4. ASSUME NEW d \in SpecTools
      PROVE  /\ \E t \in ServiceSpecs :
                  d = Definition(t.name, "spec", "function", t.hint, FALSE)
             /\ d.source = "spec"
             /\ d.name \in NamesOf(ServiceSpecs) \ (agent.names \cup NamesOf(ServerTools))
  <2>1. PICK t \in ServiceSpecs : /\ d = Definition(t.name, "spec", "function", t.hint, FALSE)
                                  /\ t.name \notin SpecsExclude
    BY DEF SpecTools
  <2>2. d.source = "spec" /\ d.name = t.name
    BY <2>1 DEF Definition
  <2>3. QED
    BY <2>1, <2>2 DEF NamesOf, SpecsExclude
<1>5. ASSUME NEW d \in ToolsetTools
      PROVE  /\ \E t \in Toolsets : d = Definition(t.name, "toolset", t.kind, "none", t.stamped)
             /\ d.source = "toolset" /\ d.name \in NamesOf(Toolsets)
  <2>1. PICK t \in Toolsets : d = Definition(t.name, "toolset", t.kind, "none", t.stamped)
    BY DEF ToolsetTools
  <2>2. d.source = "toolset" /\ d.name = t.name
    BY <2>1 DEF Definition
  <2>3. d.name \in NamesOf(Toolsets)
    BY <2>2 DEF NamesOf
  <2>4. QED
    BY <2>1, <2>2, <2>3
<1>6. ASSUME NEW d \in all
      PROVE  d \in RegistryTools \/ d \in bridge \/ d \in SpecTools \/ d \in ToolsetTools
  OBVIOUS
<1>7. NamesOf(all) \subseteq AllNames
  <2>1. \A d \in all : d.name \in AllNames
    BY <1>2, <1>3, <1>4, <1>5, <1>6 DEF AllNames
  <2>2. QED
    BY <2>1 DEF NamesOf
<1>8. ASSUME NEW d \in all PROVE Carded(d)
  <2>1. d \in RegistryTools => Carded(d)
    BY <1>2 DEF Carded, Catalog
  <2>2. d \in bridge => Carded(d)
    BY <1>3 DEF Carded, Catalog
  <2>3. d \in SpecTools => Carded(d)
    BY <1>4 DEF Carded, Catalog
  <2>4. d \in ToolsetTools => Carded(d)
    BY <1>5 DEF Carded
  <2>5. QED
    BY <1>6, <2>1, <2>2, <2>3, <2>4
<1>9. ASSUME NEW d \in all, NEW e \in all, d.name = e.name, d.name \notin Contested
      PROVE  d = e
  <2>0. d \notin ToolsetTools /\ e \notin ToolsetTools
    BY <1>5, <1>9 DEF Contested
  <2>1. /\ d \in RegistryTools <=> d.name \in agent.names
        /\ e \in RegistryTools <=> e.name \in agent.names
    BY <1>2, <1>3, <1>4, <1>6, <1>9, <2>0 DEF Contested
  <2>2. CASE d \in RegistryTools /\ e \in RegistryTools
    BY <1>2, <1>9, <2>2
  <2>3. CASE d \in bridge /\ e \in bridge
    <3>1. PICK t \in ServerTools : d = Definition(t.name, "server", "function",
                   IF t.hint = "mutates" THEN "destructive" ELSE "none", FALSE)
      BY <1>3, <2>3
    <3>2. PICK u \in ServerTools : e = Definition(u.name, "server", "function",
                   IF u.hint = "mutates" THEN "destructive" ELSE "none", FALSE)
      BY <1>3, <2>3
    <3>3. t.name = u.name
      BY <1>9, <3>1, <3>2 DEF Definition
    <3>4. QED
      BY <3>1, <3>2, <3>3, NamesAssumption DEF Apart
  <2>4. CASE d \in SpecTools /\ e \in SpecTools
    <3>1. PICK t \in ServiceSpecs : d = Definition(t.name, "spec", "function", t.hint, FALSE)
      BY <1>4, <2>4
    <3>2. PICK u \in ServiceSpecs : e = Definition(u.name, "spec", "function", u.hint, FALSE)
      BY <1>4, <2>4
    <3>3. t.name = u.name
      BY <1>9, <3>1, <3>2 DEF Definition
    <3>4. QED
      BY <3>1, <3>2, <3>3, NamesAssumption DEF Apart
  <2>5. CASE (d \in bridge /\ e \in SpecTools) \/ (d \in SpecTools /\ e \in bridge)
    BY <1>3, <1>4, <1>9, <2>5
  <2>6. QED
    BY <1>6, <1>9, <2>0, <2>1, <2>2, <2>3, <2>4, <2>5
<1>10. \A d \in all : d.source = "server" <=> d \in bridge
  BY <1>2, <1>3, <1>4, <1>5, <1>6
<1>11. FromBridge(all) = NamesOf(bridge)
  BY <1>10 DEF FromBridge, NamesOf
<1>12. \A d \in all : d = Definition(d.name, d.source, d.kind, d.metadata, d.stamped)
  BY <1>2, <1>3, <1>4, <1>5, <1>6 DEF Definition
<1>13. QED
  BY <1>7, <1>8, <1>9, <1>11, <1>12

\* The guard changes the kind of a tool, and neither its name nor its source.
LEMMA GuardKeepsNames ==
  ASSUME NEW all,
         \A d \in all : d = Definition(d.name, d.source, d.kind, d.metadata, d.stamped)
  PROVE  /\ Labelled(all) => Labelled(PrepareTools(all))
         /\ FromBridge(PrepareTools(all)) = FromBridge(all)
<1> DEFINE G(d) == IF GuardEnabled /\ d.kind = "function" /\ RequiresApproval(d)
                   THEN [d EXCEPT !.kind = "unapproved"] ELSE d
<1>1. \A d \in all : G(d).name = d.name /\ G(d).source = d.source
  BY DEF Definition
<1>2. PrepareTools(all) = {G(d) : d \in all}
  BY DEF PrepareTools
<1> HIDE DEF G
<1>3. ASSUME Labelled(all) PROVE Labelled(PrepareTools(all))
  <2>1. NamesOf(PrepareTools(all)) \subseteq AllNames
    BY <1>1, <1>2, <1>3 DEF Labelled, NamesOf
  <2>2. Apart(PrepareTools(all))
    BY <1>1, <1>2, <1>3 DEF Labelled, Apart
  <2>3. \A e \in PrepareTools(all) : Carded(e)
    BY <1>1, <1>2, <1>3 DEF Labelled, Carded
  <2>4. QED
    BY <2>1, <2>2, <2>3 DEF Labelled
<1>4. FromBridge(PrepareTools(all)) = FromBridge(all)
  BY <1>1, <1>2 DEF FromBridge, NamesOf
<1>5. QED
  BY <1>3, <1>4

-----------------------------------------------------------------------------
(* What a step offers, as the inductive invariant has it                   *)

\* What a step offers and tells is what the server's list and conditions say.
StepOK ==
  run # None =>
    /\ run.defs # None =>
         run.seen = NamesOf(run.defs) /\ NamesOf(run.defs) \cap agent.names = {}
    /\ run.offered # None =>
         /\ Labelled(run.offered) /\ FromBridge(run.offered) \subseteq run.seen
         /\ run.steady => FromBridge(run.offered) = run.seen \ UnavailableTools
    /\ run.told # None /\ run.steady => run.told = UnavailableTools

\* Where the parts of the state range.
RangesOK ==
  /\ Apart(registry) /\ open \subseteq Conditional /\ hidden \subseteq Restricted
  /\ \A x \in waiting : x.user \in Users /\ x.name \in STRING
  /\ run # None => /\ run.user \in Users /\ run.granted \subseteq STRING
                    /\ run.steady \in BOOLEAN

HeardOK == last # None => Heard(last.answer, last.outcome)

OInv == StepOK /\ RangesOK /\ HeardOK

\* No run, call or answer is there at first.
LEMMA OffersInitial == Init => OInv
BY DEF Init, OInv, StepOK, RangesOK, HeardOK, Apart

\* What the server says is unavailable changes only with it.
LEMMA UnavailableStays ==
  ASSUME UNCHANGED <<agent, open, hidden>> PROVE UnavailableTools' = UnavailableTools
BY DEF UnavailableTools, Listed, Closed, ServerExcludes

\* A run that keeps its definitions, offers them or not, and tells what holds.
LEMMA StepStays ==
  ASSUME StepOK, run # None, UNCHANGED <<registry, agent>>,
         run'.defs = run.defs, run'.seen = run.seen, run'.offered \in {run.offered, None},
         run'.steady => /\ UNCHANGED <<open, hidden>>
                        /\ run.steady \/ (run'.offered = None /\ run'.told = None),
         run'.told \in {run.told, UnavailableTools, None}
  PROVE  StepOK'
<1> SUFFICES ASSUME run' # None PROVE StepOK'
  BY DEF StepOK
<1>1. run'.defs # None => run'.seen = NamesOf(run'.defs)
                          /\ NamesOf(run'.defs) \cap agent'.names = {}
  BY DEF StepOK
<1>2. ASSUME run'.offered # None
      PROVE  /\ Labelled(run.offered)' /\ FromBridge(run'.offered) \subseteq run'.seen
             /\ run'.steady => FromBridge(run'.offered) = run'.seen \ UnavailableTools'
  <2>1. run'.offered = run.offered /\ run.offered # None
    BY <1>2
  <2>2. Labelled(run.offered)
    BY <2>1 DEF StepOK
  <2>3. Labelled(run.offered)'
    BY <2>1, <2>2 DEF Labelled, Carded, Renamed, Catalog, Apart, NamesOf, FunctionsOf, AllNames
  <2>4. FromBridge(run'.offered) \subseteq run'.seen
    BY <2>1 DEF StepOK
  <2>5. ASSUME run'.steady PROVE FromBridge(run'.offered) = run'.seen \ UnavailableTools'
    BY <1>2, <2>1, <2>5, UnavailableStays DEF StepOK
  <2>6. QED
    BY <2>3, <2>4, <2>5
<1>3. run'.told # None /\ run'.steady => run'.told = UnavailableTools'
  BY UnavailableStays DEF StepOK
<1>4. QED
  BY <1>1, <1>2, <1>3 DEF StepOK, FromBridge, NamesOf

\* The bridge's definitions are the server's, under names no tool is registered by.
LEMMA DefinitionsAreTheServers ==
  ASSUME IInv, OInv, run # None
  PROVE  /\ \A d \in Definitions : FromServer(d)
         /\ NamesOf(Definitions) \cap agent.names = {}
         /\ run.defs = None => NamesOf(Definitions) = NamesOf(Listed) \ agent.names
         /\ run.defs # None => NamesOf(Definitions) = run.seen
<1>1. \A d \in Definitions : FromServer(d)
  BY LoadsFromServer DEF IInv, OffersAreGuarded, Definitions
<1>2. NamesOf(LoadToolDefs) = NamesOf(Listed) \ agent.names
  <2> DEFINE D(t) == Definition(t.name, "server", "function",
                       IF t.hint = "mutates" THEN "destructive" ELSE "none", FALSE)
  <2>1. \A t : D(t).name = t.name
    BY DEF Definition
  <2>2. LoadToolDefs = {D(t) : t \in {u \in Listed : u.name \notin agent.names}}
    BY DEF LoadToolDefs, ServerExcludes
  <2> HIDE DEF D
  <2>3. QED
    BY <2>1, <2>2 DEF NamesOf
<1>3. QED
  BY <1>1, <1>2 DEF OInv, StepOK, Definitions

\* What a step collects, as the lemma on the sources has it.
LEMMA CollectedIsLabelled ==
  ASSUME IInv, OInv, run # None
  PROVE  /\ Apart(Collected) => Labelled(Collected)
         /\ \A d, e \in Collected : d.name = e.name => d = e \/ d.name \in Contested
         /\ FromBridge(Collected) = NamesOf(Definitions) \ UnavailableTools
         /\ \A d \in Collected : d = Definition(d.name, d.source, d.kind, d.metadata, d.stamped)
<1> DEFINE bridge == {d \in Definitions : d.name \notin UnavailableTools}
<1>1. agent # None /\ AgentKnows
  BY DEF IInv, AgentKnows
<1>2. /\ \A d \in bridge : FromServer(d)
      /\ NamesOf(bridge) \cap agent.names = {}
      /\ NamesOf(bridge) = NamesOf(Definitions) \ UnavailableTools
  BY DefinitionsAreTheServers DEF NamesOf
<1>3. Collected = RegistryTools \cup bridge \cup SpecTools \cup ToolsetTools
  BY DEF Collected
<1> HIDE DEF bridge
<1>4. QED
  BY <1>1, <1>2, <1>3, SourcesAreLabelled DEF Labelled

\* The tools that get_tools offers.
LEMMA GetToolsOffers ==
  ASSUME IInv, OInv, GetTools PROVE StepOK'
<1> DEFINE defs == Definitions
           all == Collected
           seen == IF run.defs = None THEN NamesOf(Listed) \ agent.names ELSE run.seen
           offers == PrepareTools(all)
<1>1. run # None /\ Apart(all) /\ UNCHANGED <<registry, agent, open, hidden>>
  BY DEF GetTools
<1>2. run' = [run EXCEPT !.defs = defs, !.seen = seen, !.offered = offers]
  BY DEF GetTools
<1>3. seen = NamesOf(defs) /\ NamesOf(defs) \cap agent.names = {}
  BY <1>1, DefinitionsAreTheServers
<1>4. /\ Labelled(all) /\ FromBridge(all) = NamesOf(defs) \ UnavailableTools
      /\ \A d \in all : d = Definition(d.name, d.source, d.kind, d.metadata, d.stamped)
  BY <1>1, CollectedIsLabelled
<1> HIDE DEF defs, all
<1>5. FromBridge(offers) = seen \ UnavailableTools
  BY <1>3, <1>4, GuardKeepsNames
<1>7. Labelled(offers)
  BY <1>4, GuardKeepsNames
<1> HIDE DEF defs, all, seen, offers
<1>8. /\ run'.defs = defs /\ run'.seen = seen /\ run'.offered = offers
      /\ run'.told = run.told /\ run'.steady = run.steady
  BY <1>1, <1>2 DEF IInv, RunOK
<1>9. UnavailableTools' = UnavailableTools
  BY <1>1, UnavailableStays
<1>10. Labelled(run.offered)'
  BY <1>1, <1>7, <1>8 DEF Labelled, Carded, Renamed, Catalog, Apart, NamesOf, FunctionsOf,
                          AllNames
<1>11. /\ run'.offered # None => /\ FromBridge(run.offered)' \subseteq run'.seen
                                 /\ FromBridge(run.offered)' = run'.seen \ UnavailableTools'
  <2>1. FromBridge(run.offered)' = FromBridge(offers)
    BY <1>8 DEF FromBridge, NamesOf
  <2>2. QED
    BY <1>5, <1>8, <1>9, <2>1
<1>12. NamesOf(run.defs)' = NamesOf(defs)
  BY <1>8 DEF NamesOf
<1>13. run'.told # None /\ run'.steady => run'.told = UnavailableTools'
  BY <1>1, <1>8, <1>9 DEF OInv, StepOK
<1>14. QED
  BY <1>1, <1>3, <1>8, <1>10, <1>11, <1>12, <1>13 DEF StepOK

\* A step of a run that keeps its definitions, as StepStays has them.
LEMMA FlipsOffer ==
  ASSUME IInv, OInv, Flips, UNCHANGED <<registry, agent, waiting, last>>,
         open' \subseteq Conditional, hidden' \subseteq Restricted
  PROVE  OInv'
<1>1. HeardOK'
  BY DEF OInv, HeardOK, Heard, DetailNames
<1>2. CASE run = None
  BY <1>1, <1>2 DEF OInv, Flips, StepOK, RangesOK, Apart
<1>3. CASE run # None
  <2>1. run' = [run EXCEPT !.steady = FALSE]
    BY <1>3 DEF Flips
  <2>2. /\ run'.defs = run.defs /\ run'.seen = run.seen /\ run'.offered = run.offered
        /\ run'.told = run.told /\ run'.steady = FALSE /\ run'.granted = run.granted
        /\ run'.user = run.user
    BY <1>3, <2>1 DEF IInv, RunOK
  <2>3. StepOK'
    BY <1>3, <2>2, StepStays DEF OInv
  <2>4. RangesOK'
    BY <1>3, <2>2 DEF OInv, RangesOK, Apart
  <2>5. QED
    BY <1>1, <2>3, <2>4 DEF OInv
<1>4. QED
  BY <1>2, <1>3

\* Steps that end the run, or find none.
LEMMA NoRunOffers ==
  ASSUME OInv, run' = None, UNCHANGED <<open, hidden, waiting>>, Apart(registry)', HeardOK'
  PROVE  OInv'
BY DEF OInv, StepOK, RangesOK

\* What was heard stays heard until the next call.
LEMMA HeardStays ==
  ASSUME HeardOK, UNCHANGED last PROVE HeardOK'
BY DEF HeardOK, Heard, DetailNames

\* A name is registered once.
LEMMA RegisterOffers ==
  ASSUME IInv, OInv, NEW spec \in Specs, Register(spec) PROVE OInv'
<1>1. run' = None /\ UNCHANGED <<open, hidden, waiting, last>>
  BY DEF IInv, AgentKnows, Register
<1>2. Apart(registry)'
  <2>1. /\ registry' = registry \cup {spec} /\ spec.name \notin NamesOf(registry)
        /\ Apart(registry)
    BY DEF Register, Refuses, OInv, RangesOK
  <2>2. \A t \in registry : t.name # spec.name
    BY <2>1 DEF NamesOf
  <2>3. QED
    BY <2>1, <2>2 DEF Apart
<1>3. QED
  BY <1>1, <1>2, NoRunOffers, HeardStays DEF OInv

\* Building the agent starts no run.
LEMMA BuildAgentOffers ==
  ASSUME IInv, OInv, BuildAgent PROVE OInv'
<1>1. run' = None /\ UNCHANGED <<open, hidden, waiting, last>> /\ Apart(registry)'
  BY DEF IInv, OInv, RangesOK, AgentKnows, BuildAgent, Apart
<1>2. QED
  BY <1>1, NoRunOffers, HeardStays DEF OInv

\* A run starts with nothing offered, and the approvals of its own user.
LEMMA ArriveOffers ==
  ASSUME OInv, NEW endpoint \in Endpoints, NEW user \in Users, Arrive(endpoint, user)
  PROVE  OInv'
<1>1. PICK granted \in SUBSET {x.name : x \in {y \in waiting : y.user = user}} :
        run' = Request(user, granted)
  BY DEF Arrive
<1>2. UNCHANGED <<registry, open, hidden, last>> /\ waiting' \subseteq waiting
  BY DEF Arrive
<1>3. granted \subseteq STRING
  BY <1>1 DEF OInv, RangesOK
<1>4. /\ run'.granted = granted /\ run'.steady = TRUE /\ run'.defs = None
      /\ run'.offered = None /\ run'.told = None /\ run'.user = user
  BY <1>1 DEF Request
<1>5. StepOK'
  BY <1>4 DEF StepOK
<1>6. RangesOK'
  BY <1>2, <1>3, <1>4 DEF OInv, RangesOK, Apart
<1>7. QED
  BY <1>2, <1>5, <1>6, HeardStays DEF OInv

\* What StepStays leaves to show of a step of the run.
LEMMA RangesStay ==
  ASSUME OInv, run # None, UNCHANGED <<registry, open, hidden, waiting>>,
         run'.user = run.user, run'.granted \subseteq run.granted,
         run'.steady \in {run.steady, TRUE}
  PROVE  RangesOK'
BY DEF OInv, RangesOK, Apart

\* What get_tools offers is as StepOK has it.
LEMMA GetToolsKeepsOffers ==
  ASSUME IInv, OInv, GetTools PROVE OInv'
<1>1. run # None /\ UNCHANGED <<registry, open, hidden, waiting, last>>
  BY DEF GetTools
<1>2. run'.granted = run.granted /\ run'.steady = run.steady /\ run'.user = run.user
  BY <1>1 DEF GetTools, IInv, RunOK
<1>3. QED
  BY <1>1, <1>2, RangesStay, HeardStays, GetToolsOffers DEF OInv

\* What the instructions tell is what is unavailable now.
LEMMA GetInstructionsOffers ==
  ASSUME IInv, OInv, GetInstructions PROVE OInv'
<1> DEFINE told == UnavailableTools
<1>1. /\ run # None /\ UNCHANGED <<registry, agent, open, hidden, waiting, last>>
      /\ run' = [run EXCEPT !.told = told]
  BY DEF GetInstructions
<1>2. told = UnavailableTools
  OBVIOUS
<1> HIDE DEF told
<1>3. /\ run'.defs = run.defs /\ run'.seen = run.seen /\ run'.offered = run.offered
      /\ run'.told = told /\ run'.steady = run.steady /\ run'.granted = run.granted
      /\ run'.user = run.user
  BY <1>1 DEF IInv, RunOK
<1>4. StepOK'
  BY <1>1, <1>2, <1>3, StepStays DEF OInv
<1>5. QED
  BY <1>1, <1>3, <1>4, RangesStay, HeardStays DEF OInv

\* The next step starts steady, with nothing offered or told.
LEMMA NextStepOffers ==
  ASSUME IInv, OInv, NextStep PROVE OInv'
<1>1. /\ run # None /\ UNCHANGED <<registry, agent, open, hidden, waiting>> /\ last' = None
      /\ run' = [run EXCEPT !.offered = None, !.told = None, !.steady = TRUE]
  BY DEF NextStep, ModelTurn
<1>2. /\ run'.defs = run.defs /\ run'.seen = run.seen /\ run'.offered = None
      /\ run'.told = None /\ run'.steady = TRUE /\ run'.granted = run.granted
      /\ run'.user = run.user
  BY <1>1 DEF IInv, RunOK
<1>3. StepOK'
  BY <1>1, <1>2, StepStays DEF OInv
<1>4. HeardOK'
  BY <1>1 DEF HeardOK
<1>5. QED
  BY <1>1, <1>2, <1>3, <1>4, RangesStay DEF OInv

\* A call spends its approval and keeps what the step offers.
LEMMA SpendOffers ==
  ASSUME IInv, OInv, run # None, UNCHANGED <<registry, agent, open, hidden, waiting>>,
         HeardOK', NEW name, run' = [run EXCEPT !.granted = @ \ {name}]
  PROVE  OInv'
<1>1. /\ run'.defs = run.defs /\ run'.seen = run.seen /\ run'.offered = run.offered
      /\ run'.told = run.told /\ run'.steady = run.steady
      /\ run'.granted = run.granted \ {name} /\ run'.user = run.user
  BY DEF IInv, RunOK
<1>2. StepOK'
  BY <1>1, StepStays DEF OInv
<1>3. QED
  BY <1>1, <1>2, RangesStay DEF OInv

\* A tool executed in process leaves the offers and the last answer.
LEMMA ExecuteOffers ==
  ASSUME IInv, OInv, Execute PROVE OInv'
<1>1. run # None /\ UNCHANGED <<registry, agent, open, hidden, waiting, last>>
  BY DEF Execute, ModelTurn
<1>2. PICK name : run' = [run EXCEPT !.granted = @ \ {name}]
  BY DEF Execute
<1>3. QED
  BY <1>1, <1>2, SpendOffers, HeardStays DEF OInv

\* The server is called for a tool it listed.
LEMMA CallServerOffers ==
  ASSUME IInv, OInv, CallServer PROVE OInv'
<1>1. run # None /\ run.offered # None /\ UNCHANGED <<registry, agent, open, hidden, waiting>>
  BY DEF CallServer, ModelTurn
<1>2. PICK d \in run.offered : \E answer \in Answers(d) :
        LET outcome == CallTool(run.defs, d.name, answer)
        IN  /\ d.source = "server" /\ last' = [answer |-> answer, outcome |-> outcome]
            /\ run' = IF outcome.verdict = "abort" THEN None
                      ELSE [run EXCEPT !.granted = @ \ {d.name}]
  BY DEF CallServer
<1>3. PICK answer \in Answers(d) :
        LET outcome == CallTool(run.defs, d.name, answer)
        IN  /\ d.source = "server" /\ last' = [answer |-> answer, outcome |-> outcome]
            /\ run' = IF outcome.verdict = "abort" THEN None
                      ELSE [run EXCEPT !.granted = @ \ {d.name}]
  BY <1>2
<1> DEFINE outcome == CallTool(run.defs, d.name, answer)
<1>4. AdvertisedNames(run.defs, d.name) = None
  <2>1. d.name \in run.seen
    BY <1>1, <1>3 DEF OInv, StepOK, FromBridge, NamesOf
  <2>2. run.defs = None \/ d.name \in NamesOf(run.defs)
    BY <1>1, <2>1 DEF OInv, StepOK
  <2>3. QED
    BY <2>2 DEF AdvertisedNames, NamesOf
<1>5. Heard(answer, outcome)
  BY <1>4, AnswersAreHeard
<1>6. last' = [answer |-> answer, outcome |-> outcome]
  BY <1>3
<1>7. run' = None \/ run' = [run EXCEPT !.granted = @ \ {d.name}]
  BY <1>3
<1> HIDE DEF outcome
<1>8. HeardOK'
  <2>1. last'.answer = answer /\ last'.outcome = outcome
    BY <1>6
  <2>2. QED
    BY <1>5, <2>1 DEF HeardOK, Heard, DetailNames
<1>9. Apart(registry)'
  BY <1>1 DEF OInv, RangesOK, Apart
<1>10. QED
  BY <1>1, <1>7, <1>8, <1>9, NoRunOffers, SpendOffers

\* A deferred call is of an offered tool, for the user of the run.
LEMMA DeferOffers ==
  ASSUME IInv, OInv, Defer PROVE OInv'
<1>1. /\ run # None /\ run.offered # None
      /\ UNCHANGED <<registry, agent, open, hidden, run, last>>
  BY DEF Defer, ModelTurn
<1>2. PICK d \in run.offered : waiting' = waiting \cup {[user |-> run.user, name |-> d.name]}
  BY DEF Defer
<1>3. d.name \in STRING
  BY <1>1, AllNamesFinite DEF OInv, StepOK, Labelled, NamesOf
<1>4. run.user \in Users
  BY <1>1 DEF OInv, RangesOK
<1>5. StepOK'
  BY <1>1, StepStays DEF OInv
<1>6. RangesOK'
  BY <1>1, <1>2, <1>3, <1>4 DEF OInv, RangesOK, Apart
<1>7. QED
  BY <1>1, <1>5, <1>6, HeardStays DEF OInv

\* Every step keeps OInv, in states where IInv holds.
LEMMA OffersPreserved == IInv /\ OInv /\ [Next]_vars => OInv'
<1> SUFFICES ASSUME IInv, OInv, [Next]_vars PROVE OInv'
  OBVIOUS
<1>1. CASE \E spec \in Specs : Register(spec)
  BY <1>1, RegisterOffers
<1>2. CASE BuildAgent
  BY <1>2, BuildAgentOffers
<1>3. CASE \E endpoint \in Endpoints, user \in Users : Arrive(endpoint, user)
  BY <1>3, ArriveOffers
<1>4. CASE GetTools
  BY <1>4, GetToolsKeepsOffers
<1>5. CASE ListFails
  <2>1. /\ run' = None /\ UNCHANGED <<open, hidden, waiting>> /\ Apart(registry)' /\ HeardOK'
    BY <1>5 DEF ListFails, OInv, RangesOK, Apart, HeardOK
  <2>2. QED
    BY <2>1, NoRunOffers
<1>6. CASE GetInstructions
  BY <1>6, GetInstructionsOffers
<1>7. CASE \E name \in Conditional : ConditionFlips(name)
  BY <1>7, FlipsOffer DEF ConditionFlips, OInv, RangesOK
<1>8. CASE \E name \in Restricted : PermissionFlips(name)
  BY <1>8, FlipsOffer DEF PermissionFlips, OInv, RangesOK
<1>9. CASE Defer
  BY <1>9, DeferOffers
<1>10. CASE Execute
  BY <1>10, ExecuteOffers
<1>11. CASE CallServer
  BY <1>11, CallServerOffers
<1>12. CASE NextStep
  BY <1>12, NextStepOffers
<1>13. CASE Finish
  <2>1. /\ run' = None /\ UNCHANGED <<open, hidden, waiting>> /\ Apart(registry)' /\ HeardOK'
    BY <1>13 DEF Finish, OInv, RangesOK, Apart, HeardOK
  <2>2. QED
    BY <2>1, NoRunOffers
<1>14. CASE NamesClash
  <2>1. /\ run' = None /\ UNCHANGED <<open, hidden, waiting>> /\ Apart(registry)' /\ HeardOK'
    BY <1>14 DEF NamesClash, OInv, RangesOK, Apart, HeardOK
  <2>2. QED
    BY <2>1, NoRunOffers
<1>15. CASE UNCHANGED vars
  <2>1. UNCHANGED <<registry, agent, open, hidden, run, waiting, last>>
    BY <1>15 DEF vars
  <2>2. StepOK'
    BY <2>1, StepStays DEF OInv, StepOK
  <2>3. RangesOK' /\ HeardOK'
    BY <2>1, HeardStays DEF OInv, RangesOK, Apart
  <2>4. QED
    BY <2>2, <2>3 DEF OInv
<1>16. QED
  BY <1>1, <1>2, <1>3, <1>4, <1>5, <1>6, <1>7, <1>8, <1>9, <1>10, <1>11, <1>12, <1>13,
     <1>14, <1>15 DEF Next

\* OInv holds of every behaviour.
LEMMA OffersInductive == Spec => []OInv
BY Inductive, OffersInitial, OffersPreserved, PTL DEF Spec

-----------------------------------------------------------------------------
(* The arguments of a registered tool                                      *)

\* The assumption on signatures, a conjunct at a time.
LEMMA SignatureShape ==
  ASSUME NEW spec \in Specs, NEW sig, sig = spec.sig
  PROVE  /\ Len(sig) \in Nat /\ (sig # <<>> => 1 \in 1..Len(sig))
         /\ \A i \in 1..Len(sig) : sig[i].name \in STRING
         /\ sig # <<>> /\ sig[1].type = "context" => sig[1].kind # "args"
         /\ \A sent \in SUBSET {sig[i].name : i \in 1..Len(sig)} :
              None \notin [sent -> {"model", "run"}]
<1> DEFINE S == {sig[i] : i \in 1..Len(sig)}
           named == {sig[i].name : i \in 1..Len(sig)}
<1>1. /\ sig \in Seq(S) /\ named \subseteq STRING
      /\ sig # <<>> /\ sig[1].type = "context" => sig[1].kind # "args"
      /\ \A sent \in SUBSET named : None \notin [sent -> {"model", "run"}]
  <2>1. /\ spec.sig \in Seq({spec.sig[i] : i \in 1..Len(spec.sig)})
        /\ {spec.sig[i].name : i \in 1..Len(spec.sig)} \subseteq STRING
        /\ spec.sig # <<>> /\ spec.sig[1].type = "context" => spec.sig[1].kind # "args"
        /\ \A sent \in SUBSET {spec.sig[i].name : i \in 1..Len(spec.sig)} :
             None \notin [sent -> {"model", "run"}]
    BY SignaturesAssumption, Zenon
  <2>2. QED
    BY <2>1
<1>2. \A i \in 1..Len(sig) : sig[i].name \in STRING
  BY <1>1
<1> HIDE DEF S, named
<1>3. Len(sig) \in Nat /\ (sig # <<>> => Len(sig) \in Nat \ {0})
  BY <1>1, EmptySeq, LenProperties
<1>4. sig # <<>> => 1 \in 1..Len(sig)
  BY <1>3
<1>5. QED
  BY <1>1, <1>2, <1>3, <1>4 DEF named

\* What a call may rely on that sends these arguments and these of its own invention.
BindsRight(sig, sent, invented) ==
  LET param == ContextParameter(sig)
      bound == Bind(sig, [n \in sent \cup invented |-> "model"], "run")
  IN  /\ (sent \cup {param}) \cap PositionalOnly(sig) = {} =>
           /\ bound # None
           /\ \A n \in DOMAIN bound : bound[n] = IF n = param THEN "run" ELSE "model"
           /\ param # None => param \in DOMAIN bound
      /\ (\E i \in 1..Len(sig) : sig[i].kind = "positional" /\ ~sig[i].default) => bound = None

\* What the schema advertises binds, with the run's own context, unless it goes to a
\* parameter that only takes it by position; where one needs that, nothing binds.
LEMMA SchemaBinds ==
  ASSUME NEW spec \in Specs, NEW sig, sig = spec.sig,
         NEW sent \in SUBSET InputSchema(sig).properties,
         InputSchema(sig).required \subseteq sent,
         NEW invented \in SUBSET ({ContextParameter(sig)} \ {None})
  PROVE  BindsRight(sig, sent, invented)
<1> DEFINE param == ContextParameter(sig)
           arguments == [n \in sent \cup invented |-> "model"]
           all == IF param = None THEN arguments
                  ELSE [n \in DOMAIN arguments \cup {param} |->
                         IF n = param THEN "run" ELSE arguments[n]]
           keywords == sent \cup invented \cup ({param} \ {None})
           named == {sig[i].name : i \in 1..Len(sig)}
<1>1. /\ Len(sig) \in Nat /\ (sig # <<>> => 1 \in 1..Len(sig))
      /\ \A i \in 1..Len(sig) : sig[i].name \in STRING
      /\ sig # <<>> /\ sig[1].type = "context" => sig[1].kind # "args"
      /\ \A names \in SUBSET named : None \notin [names -> {"model", "run"}]
  BY SignatureShape
<1>2. None \notin STRING
  BY AgentRunAssumption
<1>3. param # None => /\ sig # <<>> /\ 1 \in 1..Len(sig) /\ param = sig[1].name
                      /\ sig[1].type = "context"
  BY <1>1 DEF ContextParameter
<1> DEFINE free == {i \in 1..Len(sig) : sig[i].name # param /\ sig[i].kind \notin Variadic}
<1>4. /\ InputSchema(sig).properties = {sig[i].name : i \in free}
      /\ InputSchema(sig).required = {sig[i].name : i \in {j \in free : ~sig[j].default}}
  BY DEF InputSchema
<1>5. param \notin sent /\ sent \subseteq named /\ sent \subseteq STRING
  BY <1>1, <1>4
<1>6. keywords \subseteq named
  BY <1>3, <1>5
<1> HIDE DEF param
<1>7. DOMAIN all = keywords
  OBVIOUS
<1>8. \A n \in keywords : all[n] = IF n = param THEN "run" ELSE "model"
  BY <1>2, <1>5
<1>9. all \in [keywords -> {"model", "run"}]
  BY <1>2, <1>5
<1> HIDE DEF all, arguments
<1>10. all # None
  BY <1>1, <1>6, <1>9
<1> DEFINE bound == Bind(sig, arguments, "run")
<1>11. bound = IF Takes(sig, keywords) THEN all ELSE None
  <2>1. bound =
          IF (param # None => "run" # None) /\ Takes(sig, DOMAIN all) THEN all ELSE None
    BY DEF Bind, all, param
  <2>2. "run" # None
    BY AgentRunAssumption
  <2>3. bound = IF Takes(sig, DOMAIN all) THEN all ELSE None
    BY <2>1, <2>2
  <2>4. Takes(sig, DOMAIN all) <=> Takes(sig, keywords)
    BY <1>7, Zenon
  <2>5. QED
    BY <2>3, <2>4
<1>12. ASSUME NEW i \in 1..Len(sig), sig[i].kind \notin Variadic, ~sig[i].default
       PROVE  sig[i].name \in keywords
  BY <1>1, <1>2, <1>4, <1>12
<1>13. param # None => param \in keywords
  OBVIOUS
<1>14. ASSUME (sent \cup {param}) \cap PositionalOnly(sig) = {} PROVE Takes(sig, keywords)
  <2>1. keywords \cap PositionalOnly(sig) = {}
    BY <1>14 DEF param
  <2>2. CASE \E i \in 1..Len(sig) : sig[i].kind = "kwargs"
    BY <1>12, <2>1, <2>2 DEF Takes
  <2>3. CASE ~ \E i \in 1..Len(sig) : sig[i].kind = "kwargs"
    <3>1. sent \subseteq {sig[i].name : i \in {j \in 1..Len(sig) : sig[j].kind \notin Variadic}}
      BY <1>4
    <3>2. param # None => sig[1].kind \notin Variadic
      BY <1>1, <1>3, <2>3 DEF Variadic
    <3>3. keywords \subseteq {sig[i].name : i \in {j \in 1..Len(sig) : sig[j].kind \notin Variadic}}
      BY <1>3, <3>1, <3>2 DEF param
    <3>4. QED
      BY <1>12, <2>1, <3>3 DEF Takes
  <2>4. QED
    BY <2>2, <2>3
<1>15. ASSUME NEW i \in 1..Len(sig), sig[i].kind = "positional", ~sig[i].default
       PROVE  ~Takes(sig, keywords)
  <2>1. sig[i].name \in keywords
    BY <1>12, <1>15 DEF Variadic
  <2>2. sig[i].name \in PositionalOnly(sig)
    BY <1>15 DEF PositionalOnly
  <2>3. QED
    BY <2>1, <2>2 DEF Takes
<1> HIDE DEF bound, keywords
<1>16. (sent \cup {param}) \cap PositionalOnly(sig) = {} =>
         /\ bound # None
         /\ \A n \in DOMAIN bound : bound[n] = IF n = param THEN "run" ELSE "model"
         /\ param # None => param \in DOMAIN bound
  BY <1>7, <1>8, <1>10, <1>11, <1>13, <1>14
<1>17. (\E i \in 1..Len(sig) : sig[i].kind = "positional" /\ ~sig[i].default) => bound = None
  BY <1>11, <1>15
<1>18. QED
  BY <1>16, <1>17 DEF BindsRight, param, arguments, bound

-----------------------------------------------------------------------------
(* The theorems                                                            *)

\* No tool runs unapproved that its source calls a mutation under the name it runs
\* by, in whichever vocabulary, or that the project holds under that name.  A
\* registry tool says so only by its function's own name: of one registered under
\* another, the documented defect, this claims what require_approval does
\* (tool_guard.py:28, docs/moving.md:95).
THEOREM MutationsWait == Spec => []MutationsAreApproved
<1>1. IInv => MutationsAreApproved
  BY DEF IInv
<1>2. QED
  BY <1>1, Inductive, PTL

\* The registry is a dictionary by name, a run serves one request, and what the
\* model knows of the server's tools it has from the server.
THEOREM TypeCorrect == Spec => []TypeOK
<1>1. ASSUME IInv, OInv PROVE TypeOK
  <2>1. registry \subseteq Specs /\ Apart(registry)
    BY <1>1 DEF IInv, AgentKnows, OInv, RangesOK
  <2>2. Cardinality(NamesOf(registry)) = Cardinality(registry)
    <3>1. NamesOf(registry) \subseteq AllNames
      BY <2>1 DEF NamesOf, AllNames
    <3>2. QED
      BY <2>1, <3>1, AllNamesFinite, ApartCount
  <2>3. agent # None => agent.destructive \subseteq agent.names
    BY <1>1 DEF IInv, AgentKnows, NamesOf
  <2>4. run # None => (run.defs # None => NamesOf(run.defs) \subseteq NamesOf(ServerTools))
    BY <1>1 DEF IInv, OffersAreGuarded, FromServer, NamesOf, Definition
  <2>5. QED
    BY <1>1, <2>1, <2>2, <2>3, <2>4 DEF OInv, RangesOK, TypeOK
<1>2. QED
  BY <1>1, Inductive, OffersInductive, PTL

\* Two sources of an agent claim one name only where the project composed a toolset
\* of that name or renamed a registry tool, whatever else is registered, served,
\* hidden and available (drf_mcp.py:83, build_spec_capability.py:57).
THEOREM NamesAreApart == Spec => []SourcesKeepApart
<1>1. ASSUME IInv, OInv PROVE SourcesKeepApart
  BY <1>1, CollectedIsLabelled DEF SourcesKeepApart, Contested
<1>2. QED
  BY <1>1, Inductive, OffersInductive, PTL

\* A tool is carded after the source it comes from, unless it is a registry tool
\* whose function has another name (build_tool_catalog.py:36).
THEOREM CardsAreRight == Spec => []CardsNameTheToolThatRuns
<1>1. ASSUME OInv PROVE CardsNameTheToolThatRuns
  BY <1>1 DEF OInv, StepOK, Labelled, Carded, CardsNameTheToolThatRuns
<1>2. QED
  BY <1>1, OffersInductive, PTL

\* A server tool the user may see is offered in a step or explained in it, never
\* both, unless the server changed during the step (drf_mcp.py:118, :140).
THEOREM ToolsAreExplained == Spec => []OfferedOrExplained
<1>1. ASSUME OInv PROVE OfferedOrExplained
  <2> SUFFICES ASSUME ModelTurn, run.steady, NEW n \in run.seen \ hidden
               PROVE  (\E d \in run.offered : d.name = n /\ d.source = "server")
                        # (n \in run.told)
    BY DEF OfferedOrExplained
  <2>1. /\ FromBridge(run.offered) = run.seen \ UnavailableTools
        /\ run.told = UnavailableTools
    BY <1>1 DEF ModelTurn, OInv, StepOK
  <2>2. (\E d \in run.offered : d.name = n /\ d.source = "server") <=> n \notin run.told
    BY <2>1 DEF FromBridge, NamesOf
  <2>3. QED
    BY <2>2, Zenon
<1>2. QED
  BY <1>1, OffersInductive, PTL

\* A call the model is told to make again has not acted, and only a fault it
\* cannot correct ends the run (drf_mcp.py:63).
THEOREM RetriesHaveNotActed == Spec => []RetriesAreSafe
<1>1. OInv => RetriesAreSafe
  BY DEF OInv, HeardOK, Heard, RetriesAreSafe
<1>2. QED
  BY <1>1, OffersInductive, PTL

\* The model hears every name a refusal's detail carries and every input it asks
\* for (drf_mcp.py:396).
THEOREM RetriesTell == Spec => []RetriesSayEverything
<1>1. OInv => RetriesSayEverything
  BY DEF OInv, HeardOK, Heard, RetriesSayEverything
<1>2. QED
  BY <1>1, OffersInductive, PTL

\* A call binds what the schema of its tool lets the model send, with the run's own
\* context in the context parameter, unless a positional-only parameter is among
\* it; a tool that needs one is advertised and never called (tool_registry.py:113,
\* build_input_schema.py:50).
THEOREM ArgumentsBind == Spec => []AdvertisedArgumentsBind
<1>1. ASSUME IInv PROVE AdvertisedArgumentsBind
  <2>1. registry \subseteq Specs
    BY <1>1 DEF IInv, AgentKnows
  <2> SUFFICES
        ASSUME NEW spec \in registry,
               NEW sent \in SUBSET InputSchema(spec.sig).properties,
               NEW invented \in SUBSET ({ContextParameter(spec.sig)} \ {None}),
               InputSchema(spec.sig).required \subseteq sent
        PROVE  BindsRight(spec.sig, sent, invented)
    BY DEF AdvertisedArgumentsBind, BindsRight
  <2>2. QED
    BY <2>1, SchemaBinds
<1>2. QED
  BY <1>1, Inductive, PTL
=============================================================================
