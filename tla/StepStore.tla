----------------------------- MODULE StepStore -----------------------------
(***************************************************************************)
(* DefaultStepStore: the runs, step events, snapshots and tool effects of  *)
(* agent runs, in four tables every query filters by owner.  The harness   *)
(* calls it from the run (external, as its protocol documents it): a call's *)
(* effect is recorded started before the tool runs and ended after, a      *)
(* snapshot is complete where no call is open and interrupted elsewhere.   *)
(* A run is resumed only when the process that ran it is gone.             *)
(***************************************************************************)
EXTENDS Naturals, Sequences, FiniteSets

CONSTANTS
  Workers,      \* they serve one request after another, each with a store
  Owners,
  NoOwner,      \* a refused anonymous request
  RunIds, CallIds,  \* ids the harness and the model choose: they may repeat
  None,
  MaxSnapshots, MaxEvents,  \* bounds on the rows
  MaxStarts     \* bound on the runs registered

ASSUME StepStoreAssumption ==
  /\ NoOwner \notin Owners
  /\ None \notin RunIds
  /\ MaxSnapshots \in Nat /\ MaxEvents \in Nat /\ MaxStarts \in Nat

VARIABLES
  storedRuns,      \* StoredRun, by owner and run id
  storedEvents,    \* StoredStepEvent, in the order of their ids
  storedSnapshots, \* StoredSnapshot, in the order of their ids
  storedEffects,   \* StoredToolEffect, by owner, run id and tool call id
  worker,          \* worker[w]: the run the request serves
  starts,          \* the clock: how many runs were registered
  (* history *)
  landed,          \* the calls whose effect is in the world
  boundary,        \* the snapshot saved last where no call was open
  appended,        \* how many events a run appended
  latest           \* the run an owner started last

tables  == <<storedRuns, storedEvents, storedSnapshots, storedEffects>>
history == <<landed, boundary, appended, latest>>
vars    == <<tables, worker, starts, history>>

RunKeys  == Owners \X RunIds
CallKeys == Owners \X RunIds \X CallIds

StoredRun        == [startedAt : 1..MaxStarts, id : Nat \ {0}]
StoredStepEvent  == [owner : Owners, run : RunIds]
StoredSnapshot   == [owner : Owners, run : RunIds, state : {"complete", "interrupted"}]
StoredToolEffect == [status : {"started", "completed", "failed"}]

\* Where a call is in its life, as the request that makes it knows.
CallStates == {"new", "started", "ran"}

Idle == [owner |-> NoOwner, run |-> None, calls |-> [k \in CallIds |-> "new"], resumed |-> None]

Caller(w) == worker[w].owner

Persists(w) == Caller(w) # NoOwner

Open(w) == {k \in CallIds : worker[w].calls[k] # "new"}

-----------------------------------------------------------------------------
(* The reads, for the owner and the run asked about.                       *)

Upserted(table, key, row) == [x \in DOMAIN table \cup {key} |-> IF x = key THEN row ELSE table[x]]

RunsOf(o) == {r \in RunIds : <<o, r>> \in DOMAIN storedRuns}

RankSlip(o, r) == storedRuns[<<o, r>>].id

Rank(o, r) == storedRuns[<<o, r>>].startedAt

\* list_runs(...)[-1], the run a caller resumes.
LastListed(o) ==
  CHOOSE r \in RunsOf(o) : \A q \in RunsOf(o) : Rank(o, q) <= Rank(o, r)

OwnSlip(table, o, r) == {i \in 1..Len(table) : table[i].run = r}

Own(table, o, r) == {i \in 1..Len(table) : table[i].owner = o /\ table[i].run = r}

ListEvents(o, r) == Own(storedEvents, o, r)

Newest(ids) == CHOOSE i \in ids : \A j \in ids : j <= i

LatestSnapshotSlip(o, r) ==
  LET ids == Own(storedSnapshots, o, r)
  IN  IF ids # {} /\ storedSnapshots[Newest(ids)].state = "complete"
      THEN Newest(ids) ELSE None

LatestSnapshot(o, r) ==
  LET ids == {i \in Own(storedSnapshots, o, r) : storedSnapshots[i].state = "complete"}
  IN  IF ids = {} THEN None ELSE Newest(ids)

Unresolved(o, r) ==
  {k \in CallIds : <<o, r, k>> \in DOMAIN storedEffects
                     /\ storedEffects[<<o, r, k>>].status = "started"}

EffectKeySlip(o, r, k) == <<o, CHOOSE q \in RunIds : TRUE, k>>

EffectKey(o, r, k) == <<o, r, k>>

-----------------------------------------------------------------------------
Init ==
  /\ storedRuns = <<>>
  /\ storedEvents = <<>>
  /\ storedSnapshots = <<>>
  /\ storedEffects = <<>>
  /\ worker = [w \in Workers |-> Idle]
  /\ starts = 0
  /\ landed = {}
  /\ boundary = [x \in RunKeys |-> None]
  /\ appended = [x \in RunKeys |-> 0]
  /\ latest = [o \in Owners |-> None]

Serves(w) == worker[w].run # None

\* _register_run for the request of owner o, then the snapshot a resume reads.
RegisterRun(w, o, r) ==
  /\ ~Serves(w)
  /\ \A v \in Workers : Caller(v) = o => worker[v].run # r
  /\ starts < MaxStarts
  /\ starts' = starts + 1
  /\ IF o = NoOwner
     THEN /\ worker' = [worker EXCEPT ![w] = [Idle EXCEPT !.run = r]]
          /\ UNCHANGED <<storedRuns, latest>>
     ELSE LET id == IF <<o, r>> \in DOMAIN storedRuns THEN storedRuns[<<o, r>>].id
                    ELSE Cardinality(DOMAIN storedRuns) + 1
          IN  /\ storedRuns' = Upserted(storedRuns, <<o, r>>,
                                        [startedAt |-> starts + 1, id |-> id])
              /\ worker' = [worker EXCEPT ![w] = [Idle EXCEPT
                   !.owner = o, !.run = r, !.resumed = LatestSnapshot(o, r)]]
              /\ latest' = [latest EXCEPT ![o] = r]
  /\ UNCHANGED <<storedEvents, storedSnapshots, storedEffects, landed, boundary, appended>>

AppendEvent(w) ==
  /\ Serves(w) /\ Len(storedEvents) < MaxEvents
  /\ storedEvents' = IF Persists(w)
                     THEN Append(storedEvents, [owner |-> Caller(w), run |-> worker[w].run])
                     ELSE storedEvents
  /\ appended' = IF Persists(w) THEN [appended EXCEPT ![<<Caller(w), worker[w].run>>] = @ + 1]
                 ELSE appended
  /\ UNCHANGED <<storedRuns, storedSnapshots, storedEffects, worker, starts, landed, boundary, latest>>

SaveSnapshot(w) ==
  /\ Serves(w) /\ Len(storedSnapshots) < MaxSnapshots
  /\ storedSnapshots' =
       IF Persists(w)
       THEN Append(storedSnapshots,
              [owner |-> Caller(w), run |-> worker[w].run,
               state |-> IF Open(w) = {} THEN "complete" ELSE "interrupted"])
       ELSE storedSnapshots
  /\ boundary' = IF Persists(w) /\ Open(w) = {}
                 THEN [boundary EXCEPT ![<<Caller(w), worker[w].run>>] = Len(storedSnapshots) + 1]
                 ELSE boundary
  /\ UNCHANGED <<storedRuns, storedEvents, storedEffects, worker, starts, landed, appended, latest>>

RecordToolEffectSlip(w, k, status) ==
  storedEffects' =
    Upserted(storedEffects, EffectKey(Caller(w), worker[w].run, k), [status |-> status])

\* _record_tool_effect: an upsert on the owner, the run and the tool call.
RecordToolEffect(w, k, status) ==
  storedEffects' =
    IF Persists(w)
    THEN Upserted(storedEffects, EffectKey(Caller(w), worker[w].run, k), [status |-> status])
    ELSE storedEffects

StartCall(w, k) ==
  /\ Serves(w) /\ worker[w].calls[k] = "new"
  /\ RecordToolEffect(w, k, "started")
  /\ worker' = [worker EXCEPT ![w].calls[k] = "started"]
  /\ UNCHANGED <<storedRuns, storedEvents, storedSnapshots, starts, history>>

\* The tool acts on the world, once more each time it is called.
RunTool(w, k) ==
  /\ Serves(w) /\ worker[w].calls[k] = "started"
  /\ worker' = [worker EXCEPT ![w].calls[k] = "ran"]
  /\ landed' = landed \cup {<<Caller(w), worker[w].run, k>>}
  /\ UNCHANGED <<tables, starts, boundary, appended, latest>>

EndCall(w, k) ==
  /\ Serves(w) /\ worker[w].calls[k] = "ran"
  /\ \E status \in {"completed", "failed"} : RecordToolEffect(w, k, status)
  /\ worker' = [worker EXCEPT ![w].calls[k] = "new"]
  /\ UNCHANGED <<storedRuns, storedEvents, storedSnapshots, starts, history>>

Finish(w) ==
  /\ Serves(w) /\ Open(w) = {}
  /\ worker' = [worker EXCEPT ![w] = Idle]
  /\ UNCHANGED <<tables, starts, history>>

\* The process is gone, between any two of the calls above.
Crash(w) ==
  /\ Serves(w)
  /\ worker' = [worker EXCEPT ![w] = Idle]
  /\ UNCHANGED <<tables, starts, history>>

Next ==
  \E w \in Workers :
    \/ \E o \in Owners \cup {NoOwner}, r \in RunIds : RegisterRun(w, o, r)
    \/ AppendEvent(w) \/ SaveSnapshot(w) \/ Finish(w) \/ Crash(w)
    \/ \E k \in CallIds : StartCall(w, k) \/ RunTool(w, k) \/ EndCall(w, k)

Spec == Init /\ [][Next]_vars
=============================================================================
