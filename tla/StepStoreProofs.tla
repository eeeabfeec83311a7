-------------------------- MODULE StepStoreProofs --------------------------
(***************************************************************************)
(* The properties of the step store hold for any workers, owners, ids and  *)
(* bounds.  Besides TypeOK the inductive invariant says what the checked   *)
(* properties leave implicit: no two requests serve one owner's run, a     *)
(* tool that ran has landed, the newest complete snapshot is the boundary, *)
(* and the run an owner started last ranks above its others.               *)
(***************************************************************************)
EXTENDS StepStoreProperties, TLAPS, FiniteSetTheorems

\* What the history variables hold, and how many runs there are.
HistoryOK ==
  /\ boundary \in [RunKeys -> Nat \cup {None}]
  /\ appended \in [RunKeys -> Nat]
  /\ latest \in [Owners -> RunIds \cup {None}]
  /\ IsFiniteSet(DOMAIN storedRuns)

\* A run whose process lives is not registered again by its owner.
RunsAreExclusive ==
  \A v, w \in Workers :
    v # w /\ Persists(v) /\ Caller(v) = Caller(w) => worker[v].run # worker[w].run

ServedIsNamed == \A w \in Workers : Persists(w) => Serves(w)

RanHasLanded ==
  \A w \in Workers, k \in CallIds :
    Serves(w) /\ worker[w].calls[k] = "ran" => <<Caller(w), worker[w].run, k>> \in landed

BoundaryIsNewest ==
  \A o \in Owners, r \in RunIds : boundary[<<o, r>>] = LatestSnapshot(o, r)

LatestRanksHighest ==
  /\ \A x \in DOMAIN storedRuns : storedRuns[x].startedAt <= starts
  /\ \A x \in DOMAIN storedRuns :
       /\ <<x[1], latest[x[1]]>> \in DOMAIN storedRuns
       /\ x[2] # latest[x[1]]
            => storedRuns[x].startedAt < storedRuns[<<x[1], latest[x[1]]>>].startedAt

IInv ==
  /\ TypeOK /\ HistoryOK
  /\ EffectsAreAccountedFor /\ RunsAreExclusive /\ ServedIsNamed /\ RanHasLanded
  /\ BoundaryIsNewest
  /\ EventsAreTheOwners
  /\ LatestRanksHighest

-----------------------------------------------------------------------------
(* The operators of the store                                              *)

\* The rows of a run after an append: one more if the row is the run's.
LEMMA OwnAfterAppend ==
  ASSUME NEW R, NEW table \in Seq(R), NEW row \in R, NEW o, NEW r
  PROVE  /\ Own(table, o, r) \subseteq 1..Len(table)
         /\ Own(Append(table, row), o, r) =
              IF row.owner = o /\ row.run = r
              THEN Own(table, o, r) \cup {Len(table) + 1} ELSE Own(table, o, r)
         /\ \A i \in 1..Len(table) : Append(table, row)[i] = table[i]
         /\ Append(table, row)[Len(table) + 1] = row
<1>1. /\ Len(table) \in Nat /\ Len(Append(table, row)) = Len(table) + 1
      /\ \A i \in 1..Len(table) : Append(table, row)[i] = table[i]
      /\ Append(table, row)[Len(table) + 1] = row
  OBVIOUS
<1>2. QED
  BY <1>1 DEF Own

\* Newest names the greatest of a set that has one.
LEMMA NewestIsGreatest ==
  ASSUME NEW ids \in SUBSET Nat, NEW m \in ids, \A j \in ids : j <= m
  PROVE  Newest(ids) = m
<1> DEFINE n == CHOOSE i \in ids : \A j \in ids : j <= i
<1>1. n \in ids /\ \A j \in ids : j <= n
  OBVIOUS
<1> HIDE DEF n
<1>2. n = m
  BY <1>1
<1>3. QED
  BY <1>2 DEF Newest, n

\* The complete snapshots of a run.
Complete(table, o, r) == {i \in Own(table, o, r) : table[i].state = "complete"}

\* The read of latest_snapshot, as the newest complete snapshot.
LEMMA LatestSnapshotIs ==
  ASSUME NEW o, NEW r
  PROVE  LatestSnapshot(o, r) =
           IF Complete(storedSnapshots, o, r) = {} THEN None
           ELSE Newest(Complete(storedSnapshots, o, r))
BY DEF LatestSnapshot, Complete

\* The complete snapshots of a run after an append.
LEMMA CompleteAfterAppend ==
  ASSUME NEW R, NEW table \in Seq(R), NEW row \in R, NEW o, NEW r
  PROVE  Complete(Append(table, row), o, r) =
           IF row.owner = o /\ row.run = r /\ row.state = "complete"
           THEN Complete(table, o, r) \cup {Len(table) + 1} ELSE Complete(table, o, r)
<1>1. Len(table) \in Nat
  OBVIOUS
<1>2. QED
  BY <1>1, OwnAfterAppend DEF Complete

-----------------------------------------------------------------------------
(* The initial states                                                      *)

\* The empty tables satisfy the invariant.
LEMMA Initial == Init => IInv
<1> SUFFICES ASSUME Init PROVE IInv
  OBVIOUS
<1> USE DEF Init
<1>1. DOMAIN storedRuns = {} /\ DOMAIN storedEffects = {}
  OBVIOUS
<1>2. Len(storedEvents) = 0 /\ Len(storedSnapshots) = 0
  OBVIOUS
<1>3. TypeOK
  BY <1>1, StepStoreAssumption DEF TypeOK, Idle, CallStates
<1>4. HistoryOK
  BY <1>1, FS_EmptySet DEF HistoryOK
<1>5. EffectsAreAccountedFor /\ RunsAreExclusive /\ ServedIsNamed /\ RanHasLanded
  BY <1>1 DEF EffectsAreAccountedFor, RunsAreExclusive, ServedIsNamed, RanHasLanded,
              Idle, Serves, Persists, Caller, CallKeys
<1>6. \A o, r : Own(storedSnapshots, o, r) = {} /\ Own(storedEvents, o, r) = {}
  BY <1>2 DEF Own
<1>7. BoundaryIsNewest
  <2> SUFFICES ASSUME NEW o \in Owners, NEW r \in RunIds
               PROVE  boundary[<<o, r>>] = LatestSnapshot(o, r)
    BY DEF BoundaryIsNewest
  <2>1. Complete(storedSnapshots, o, r) = {}
    BY <1>6 DEF Complete
  <2>2. QED
    BY <2>1, LatestSnapshotIs DEF RunKeys
<1>8. EventsAreTheOwners
  BY <1>6, FS_EmptySet DEF EventsAreTheOwners, ListEvents
<1>9. LatestRanksHighest
  BY <1>1 DEF LatestRanksHighest
<1>10. QED
  BY <1>3, <1>4, <1>5, <1>7, <1>8, <1>9 DEF IInv

-----------------------------------------------------------------------------
(* What a step leaves alone                                                *)

\* No snapshot and no boundary changes.
LEMMA SnapshotsUntouched ==
  ASSUME BoundaryIsNewest, UNCHANGED <<storedSnapshots, boundary>>
  PROVE  BoundaryIsNewest'
<1> SUFFICES ASSUME NEW o \in Owners, NEW r \in RunIds
             PROVE  boundary'[<<o, r>>] = LatestSnapshot(o, r)'
  BY DEF BoundaryIsNewest
<1>1. LatestSnapshot(o, r)' = IF Complete(storedSnapshots', o, r) = {} THEN None
                              ELSE Newest(Complete(storedSnapshots', o, r))
  BY DEF LatestSnapshot, Complete
<1>2. LatestSnapshot(o, r)' = LatestSnapshot(o, r)
  BY <1>1, LatestSnapshotIs
<1>3. QED
  BY <1>2 DEF BoundaryIsNewest

\* No event is appended.
LEMMA EventsUntouched ==
  ASSUME EventsAreTheOwners, UNCHANGED <<storedEvents, appended>>
  PROVE  EventsAreTheOwners'
BY DEF EventsAreTheOwners, ListEvents, Own

\* No run is registered.
LEMMA RunsUntouched ==
  ASSUME LatestRanksHighest, UNCHANGED <<storedRuns, latest, starts>>
  PROVE  LatestRanksHighest'
BY DEF LatestRanksHighest

\* Neither the runs nor the history of them change.
LEMMA HistoryUntouched ==
  ASSUME HistoryOK, UNCHANGED <<storedRuns, boundary, appended, latest>>
  PROVE  HistoryOK'
BY DEF HistoryOK

\* No request moves and no effect is recorded.
LEMMA RequestsUntouched ==
  ASSUME EffectsAreAccountedFor, RunsAreExclusive, ServedIsNamed, RanHasLanded,
         UNCHANGED <<storedEffects, landed, worker>>
  PROVE  EffectsAreAccountedFor' /\ RunsAreExclusive' /\ ServedIsNamed' /\ RanHasLanded'
BY DEF EffectsAreAccountedFor, RunsAreExclusive, ServedIsNamed, RanHasLanded,
       Serves, Persists, Caller, Open, Unresolved

-----------------------------------------------------------------------------
(* The steps                                                               *)

\* A request that ends takes nothing with it.
LEMMA LeaveStep ==
  ASSUME IInv, NEW w \in Workers, worker' = [worker EXCEPT ![w] = Idle],
         UNCHANGED <<tables, starts, history>>
  PROVE  IInv'
<1> USE DEF IInv, tables, history
<1>1. TypeOK'
  BY StepStoreAssumption DEF TypeOK, Idle, CallStates
<1>2. \A v \in Workers : v # w => worker'[v] = worker[v]
  BY DEF TypeOK
<1>3. worker'[w] = Idle
  BY DEF TypeOK
<1>4. RunsAreExclusive' /\ ServedIsNamed' /\ RanHasLanded'
  BY <1>2, <1>3 DEF RunsAreExclusive, ServedIsNamed, RanHasLanded, Idle, Serves, Persists, Caller
<1>5. EffectsAreAccountedFor'
  BY <1>2, <1>3 DEF EffectsAreAccountedFor, Idle, Serves, Persists, Caller, Open, Unresolved
<1>6. QED
  BY <1>1, <1>4, <1>5, SnapshotsUntouched, EventsUntouched, RunsUntouched, HistoryUntouched

\* Registering starts a request of a run nobody serves, and puts it on top.
LEMMA RegisterRunStep ==
  ASSUME IInv, NEW w \in Workers, NEW o \in Owners \cup {NoOwner}, NEW r \in RunIds,
         RegisterRun(w, o, r)
  PROVE  IInv'
<1> DEFINE mine == worker'[w]
<1>1. /\ ~Serves(w) /\ \A v \in Workers : Caller(v) = o => worker[v].run # r
      /\ starts < MaxStarts /\ starts' = starts + 1
      /\ UNCHANGED <<storedEvents, storedSnapshots, storedEffects, landed, boundary, appended>>
  BY DEF RegisterRun
<1>2. /\ TypeOK /\ HistoryOK /\ BoundaryIsNewest /\ EventsAreTheOwners /\ LatestRanksHighest
      /\ EffectsAreAccountedFor /\ RunsAreExclusive /\ ServedIsNamed /\ RanHasLanded
  BY DEF IInv
<1>3. /\ \A v \in Workers : v # w => worker'[v] = worker[v]
      /\ mine \in [owner : Owners \cup {NoOwner}, run : RunIds \cup {None},
                   calls : [CallIds -> CallStates], resumed : Nat \cup {None}]
      /\ mine.owner = o /\ mine.run = r /\ \A k \in CallIds : mine.calls[k] = "new"
  <2>1. CASE o = NoOwner
    BY <1>2, <2>1 DEF RegisterRun, TypeOK, Idle, CallStates
  <2>2. CASE o # NoOwner
    <3>1. LatestSnapshot(o, r) \in Nat \cup {None}
      <4>1. boundary[<<o, r>>] = LatestSnapshot(o, r)
        BY <1>2, <2>2 DEF BoundaryIsNewest
      <4>2. <<o, r>> \in RunKeys
        BY <2>2 DEF RunKeys
      <4>3. QED
        BY <1>2, <4>1, <4>2 DEF HistoryOK
    <3>2. worker' = [worker EXCEPT ![w] =
                       [owner |-> o, run |-> r, calls |-> [k \in CallIds |-> "new"],
                        resumed |-> LatestSnapshot(o, r)]]
      BY <2>2 DEF RegisterRun, Idle
    <3>3. QED
      BY <1>2, <3>1, <3>2 DEF TypeOK, CallStates
  <2>3. QED
    BY <2>1, <2>2
<1>4. worker' \in [Workers -> [owner : Owners \cup {NoOwner}, run : RunIds \cup {None},
                              calls : [CallIds -> CallStates], resumed : Nat \cup {None}]]
  <2>1. worker' = [worker EXCEPT ![w] = mine]
    BY <1>2 DEF RegisterRun, TypeOK
  <2>2. QED
    BY <1>2, <1>3, <2>1 DEF TypeOK
<1>5. RunsAreExclusive' /\ ServedIsNamed' /\ RanHasLanded'
  <2>1. RunsAreExclusive'
    BY <1>1, <1>2, <1>3 DEF RunsAreExclusive, Persists, Caller
  <2>2. ServedIsNamed' /\ RanHasLanded'
    BY <1>1, <1>2, <1>3, StepStoreAssumption
       DEF ServedIsNamed, RanHasLanded, Serves, Persists, Caller
  <2>3. QED
    BY <2>1, <2>2
<1>6. EffectsAreAccountedFor'
  BY <1>1, <1>2, <1>3
     DEF EffectsAreAccountedFor, Serves, Persists, Caller, Open, Unresolved
<1>7. CASE o = NoOwner
  <2>1. UNCHANGED <<storedRuns, latest>>
    BY <1>7 DEF RegisterRun
  <2>2. LatestRanksHighest'
    BY <1>1, <1>2, <2>1 DEF LatestRanksHighest, TypeOK, StoredRun
  <2>3. TypeOK'
    BY <1>1, <1>2, <1>4, <2>1, StepStoreAssumption DEF TypeOK
  <2>4. QED
    BY <1>1, <1>2, <1>5, <1>6, <2>1, <2>2, <2>3, SnapshotsUntouched, EventsUntouched,
       HistoryUntouched DEF IInv
<1>8. CASE o # NoOwner
  <2> DEFINE id  == IF <<o, r>> \in DOMAIN storedRuns THEN storedRuns[<<o, r>>].id
                    ELSE Cardinality(DOMAIN storedRuns) + 1
             row == [startedAt |-> starts + 1, id |-> id]
  <2>1. /\ storedRuns' = Upserted(storedRuns, <<o, r>>, row)
        /\ latest' = [latest EXCEPT ![o] = r]
    BY <1>8 DEF RegisterRun
  <2>2. <<o, r>> \in RunKeys
    BY <1>8 DEF RunKeys
  <2>3. row \in StoredRun
    <3>1. id \in Nat \ {0}
      BY <1>2, FS_CardinalityType DEF TypeOK, StoredRun, HistoryOK
    <3>2. starts + 1 \in 1..MaxStarts
      BY <1>1, <1>2, StepStoreAssumption DEF TypeOK
    <3>3. QED
      BY <3>1, <3>2 DEF StoredRun
  <2> HIDE DEF row
  <2>4. /\ DOMAIN storedRuns' = DOMAIN storedRuns \cup {<<o, r>>}
        /\ storedRuns'[<<o, r>>] = row
        /\ \A x \in DOMAIN storedRuns : x # <<o, r>> => storedRuns'[x] = storedRuns[x]
    BY <2>1 DEF Upserted
  <2>5. TypeOK'
    <3>1. \A x \in DOMAIN storedRuns' : x \in RunKeys /\ storedRuns'[x] \in StoredRun
      BY <1>2, <2>2, <2>3, <2>4 DEF TypeOK
    <3>2. QED
      BY <1>1, <1>2, <1>4, <3>1, StepStoreAssumption DEF TypeOK
  <2>6. HistoryOK'
    <3>1. IsFiniteSet(DOMAIN storedRuns')
      <4>1. IsFiniteSet(DOMAIN storedRuns)
        BY <1>2 DEF HistoryOK
      <4>2. IsFiniteSet(DOMAIN storedRuns \cup {<<o, r>>})
        BY <4>1, FS_AddElement
      <4>3. QED
        BY <2>4, <4>2
    <3>2. QED
      BY <1>1, <1>2, <2>1, <3>1 DEF HistoryOK
  <2>7. LatestRanksHighest'
    <3>1. row.startedAt = starts'
      BY <1>1 DEF row
    <3>2. /\ latest'[o] = r
          /\ \A p \in Owners : p # o => latest'[p] = latest[p]
      BY <1>2, <1>8, <2>1 DEF HistoryOK
    <3>3. \A x \in DOMAIN storedRuns : storedRuns[x].startedAt < starts'
      BY <1>1, <1>2 DEF TypeOK, StoredRun, LatestRanksHighest
    <3>4. \A x \in DOMAIN storedRuns' : storedRuns'[x].startedAt <= starts'
      <4>1. starts' \in Nat
        BY <1>1, <1>2 DEF TypeOK
      <4>2. \A x \in DOMAIN storedRuns : storedRuns[x].startedAt \in Nat
        BY <1>2 DEF TypeOK, StoredRun
      <4>3. QED
        BY <2>4, <3>1, <3>3, <4>1, <4>2
    <3>5. ASSUME NEW x \in DOMAIN storedRuns'
          PROVE  LET top == <<x[1], latest'[x[1]]>>
                 IN  /\ top \in DOMAIN storedRuns'
                     /\ x[2] # latest'[x[1]]
                          => storedRuns'[x].startedAt < storedRuns'[top].startedAt
      <4>1. x \in Owners \X RunIds
        BY <1>2, <2>2, <2>4 DEF TypeOK, RunKeys
      <4>2. CASE x[1] = o
        <5>1. <<x[1], latest'[x[1]]>> = <<o, r>>
          BY <3>2, <4>2
        <5>2. x[2] # r => x \in DOMAIN storedRuns /\ x # <<o, r>>
          BY <2>4, <4>1, <4>2
        <5>3. QED
          BY <2>4, <3>1, <3>2, <3>3, <4>2, <5>1, <5>2
      <4>3. CASE x[1] # o
        <5>1. x \in DOMAIN storedRuns /\ x # <<o, r>>
          BY <2>4, <4>1, <4>3
        <5>2. latest'[x[1]] = latest[x[1]]
          BY <3>2, <4>1, <4>3
        <5>3. /\ <<x[1], latest[x[1]]>> \in DOMAIN storedRuns
              /\ x[2] # latest[x[1]]
                   => storedRuns[x].startedAt < storedRuns[<<x[1], latest[x[1]]>>].startedAt
          BY <1>2, <5>1 DEF LatestRanksHighest
        <5>4. <<x[1], latest[x[1]]>> # <<o, r>>
          BY <4>3
        <5>5. QED
          BY <2>4, <5>1, <5>2, <5>3, <5>4
      <4>4. QED
        BY <4>2, <4>3
    <3>6. QED
      BY <3>4, <3>5 DEF LatestRanksHighest
  <2>8. QED
    BY <1>1, <1>2, <1>5, <1>6, <2>5, <2>6, <2>7, SnapshotsUntouched, EventsUntouched DEF IInv
<1>9. QED
  BY <1>7, <1>8

\* An appended event is one more of its run's, and of no other.
LEMMA AppendEventStep ==
  ASSUME IInv, NEW w \in Workers, AppendEvent(w)
  PROVE  IInv'
<1> USE DEF IInv
<1>1. UNCHANGED <<storedRuns, storedSnapshots, storedEffects, worker, starts, landed,
                  boundary, latest>>
  BY DEF AppendEvent
<1>2. CASE ~Persists(w)
  <2>1. UNCHANGED <<storedEvents, appended>>
    BY <1>2 DEF AppendEvent
  <2>2. TypeOK'
    BY <1>1, <2>1 DEF TypeOK
  <2>3. QED
    BY <1>1, <2>1, <2>2, SnapshotsUntouched, EventsUntouched, RunsUntouched,
       HistoryUntouched, RequestsUntouched
<1>3. CASE Persists(w)
  <2> DEFINE key == <<Caller(w), worker[w].run>>
             row == [owner |-> Caller(w), run |-> worker[w].run]
  <2>1. /\ storedEvents' = Append(storedEvents, row)
        /\ appended' = [appended EXCEPT ![key] = @ + 1]
    BY <1>3 DEF AppendEvent
  <2>2. Caller(w) \in Owners /\ worker[w].run \in RunIds
    BY <1>3 DEF TypeOK, ServedIsNamed, Serves, Persists, Caller
  <2>3. row \in StoredStepEvent /\ key \in RunKeys /\ storedEvents \in Seq(StoredStepEvent)
    BY <2>2 DEF StoredStepEvent, RunKeys, TypeOK
  <2>r. row.owner = Caller(w) /\ row.run = worker[w].run
    OBVIOUS
  <2> HIDE DEF row
  <2>4. TypeOK'
    BY <1>1, <2>1, <2>3 DEF TypeOK
  <2>5. HistoryOK'
    BY <1>1, <2>1, <2>3 DEF HistoryOK
  <2>6. EventsAreTheOwners'
    <3> SUFFICES ASSUME NEW o \in Owners, NEW r \in RunIds
                 PROVE  Cardinality(Own(storedEvents', o, r)) = appended'[<<o, r>>]
      BY DEF EventsAreTheOwners, ListEvents, RunKeys
    <3> DEFINE old == Own(storedEvents, o, r)
               top == Len(storedEvents) + 1
    <3>1. old \subseteq 1..Len(storedEvents) /\ Len(storedEvents) \in Nat
      BY <2>3, OwnAfterAppend
    <3>2. Own(storedEvents', o, r) =
            IF row.owner = o /\ row.run = r THEN old \cup {top} ELSE old
      <4>1. Own(Append(storedEvents, row), o, r) =
              IF row.owner = o /\ row.run = r THEN old \cup {top} ELSE old
        BY <2>3, OwnAfterAppend
      <4>2. QED
        BY <2>1, <4>1
    <3>3. Cardinality(old) = appended[<<o, r>>] /\ appended[<<o, r>>] \in Nat
      BY DEF EventsAreTheOwners, ListEvents, HistoryOK, RunKeys
    <3> HIDE DEF old
    <3>4. CASE key = <<o, r>>
      <4>1. Own(storedEvents', o, r) = old \cup {top}
        BY <2>r, <3>2, <3>4
      <4>2. IsFiniteSet(old) /\ top \notin old
        <5>1. IsFiniteSet(1..Len(storedEvents))
          BY <3>1, FS_Interval
        <5>2. IsFiniteSet(old)
          BY <3>1, <5>1, FS_Subset
        <5>3. top \notin 1..Len(storedEvents)
          BY <3>1
        <5>4. QED
          BY <3>1, <5>2, <5>3
      <4>3. Cardinality(old \cup {top}) = Cardinality(old) + 1
        BY <4>2, FS_AddElement
      <4>4. appended'[<<o, r>>] = appended[<<o, r>>] + 1
        BY <2>1, <2>3, <3>4 DEF HistoryOK
      <4>5. QED
        BY <3>3, <4>1, <4>3, <4>4
    <3>5. CASE key # <<o, r>>
      <4>1. ~(row.owner = o /\ row.run = r)
        BY <2>r, <3>5 DEF RunKeys
      <4>2. appended'[<<o, r>>] = appended[<<o, r>>]
        BY <2>1, <3>5 DEF HistoryOK, RunKeys
      <4>3. QED
        BY <3>2, <3>3, <4>1, <4>2
    <3>6. QED
      BY <3>4, <3>5
  <2>7. QED
    BY <1>1, <2>4, <2>5, <2>6, SnapshotsUntouched, RunsUntouched, RequestsUntouched
<1>4. QED
  BY <1>2, <1>3

\* A snapshot between calls is the new boundary, any other changes none.
LEMMA SaveSnapshotStep ==
  ASSUME IInv, NEW w \in Workers, SaveSnapshot(w)
  PROVE  IInv'
<1> USE DEF IInv
<1>1. UNCHANGED <<storedRuns, storedEvents, storedEffects, worker, starts, landed,
                  appended, latest>>
  BY DEF SaveSnapshot
<1>2. CASE ~Persists(w)
  <2>1. UNCHANGED <<storedSnapshots, boundary>>
    BY <1>2 DEF SaveSnapshot
  <2>2. TypeOK'
    BY <1>1, <2>1 DEF TypeOK
  <2>3. QED
    BY <1>1, <2>1, <2>2, SnapshotsUntouched, EventsUntouched, RunsUntouched,
       HistoryUntouched, RequestsUntouched
<1>3. CASE Persists(w)
  <2> DEFINE key == <<Caller(w), worker[w].run>>
             row == [owner |-> Caller(w), run |-> worker[w].run,
                     state |-> IF Open(w) = {} THEN "complete" ELSE "interrupted"]
             top == Len(storedSnapshots) + 1
  <2>1. /\ storedSnapshots' = Append(storedSnapshots, row)
        /\ boundary' = IF Open(w) = {} THEN [boundary EXCEPT ![key] = top] ELSE boundary
    BY <1>3 DEF SaveSnapshot
  <2>2. Caller(w) \in Owners /\ worker[w].run \in RunIds
    BY <1>3 DEF TypeOK, ServedIsNamed, Serves, Persists, Caller
  <2>3. /\ row \in StoredSnapshot /\ key \in RunKeys
        /\ storedSnapshots \in Seq(StoredSnapshot) /\ Len(storedSnapshots) \in Nat
    BY <2>2 DEF StoredSnapshot, RunKeys, TypeOK
  <2>r. /\ row.owner = Caller(w) /\ row.run = worker[w].run
        /\ row.state = "complete" <=> Open(w) = {}
    OBVIOUS
  <2> HIDE DEF row
  <2>4. TypeOK'
    BY <1>1, <2>1, <2>3 DEF TypeOK
  <2>5. HistoryOK'
    BY <1>1, <2>1, <2>3 DEF HistoryOK
  <2>6. ASSUME NEW o \in Owners, NEW r \in RunIds
        PROVE  boundary'[<<o, r>>] = LatestSnapshot(o, r)'
    <3> DEFINE old == Complete(storedSnapshots, o, r)
               new == Complete(storedSnapshots', o, r)
    <3>1. old \subseteq 1..Len(storedSnapshots)
      BY <2>3, OwnAfterAppend DEF Complete
    <3>2. new = IF row.owner = o /\ row.run = r /\ row.state = "complete"
                THEN old \cup {top} ELSE old
      <4>1. Complete(Append(storedSnapshots, row), o, r) =
              IF row.owner = o /\ row.run = r /\ row.state = "complete"
              THEN old \cup {top} ELSE old
        BY <2>3, CompleteAfterAppend
      <4>2. QED
        BY <2>1, <4>1
    <3>3. LatestSnapshot(o, r)' = IF new = {} THEN None ELSE Newest(new)
      BY DEF LatestSnapshot, Complete
    <3>4. boundary[<<o, r>>] = IF old = {} THEN None ELSE Newest(old)
      BY LatestSnapshotIs DEF BoundaryIsNewest
    <3> HIDE DEF old, new
    <3>5. CASE Open(w) = {} /\ key = <<o, r>>
      <4>1. new = old \cup {top}
        BY <2>r, <3>2, <3>5
      <4>2. /\ new \in SUBSET Nat /\ top \in new /\ \A j \in new : j <= top
        <5>1. top \in Nat /\ \A j \in old : j \in Nat /\ j <= top
          BY <2>3, <3>1
        <5>2. QED
          BY <4>1, <5>1
      <4>3. Newest(new) = top
        BY <4>2, NewestIsGreatest
      <4>4. boundary'[<<o, r>>] = top
        BY <2>1, <2>3, <3>5 DEF HistoryOK
      <4>5. QED
        BY <3>3, <4>2, <4>3, <4>4
    <3>6. CASE Open(w) # {} \/ key # <<o, r>>
      <4>1. new = old
        BY <2>r, <3>2, <3>6
      <4>2. boundary'[<<o, r>>] = boundary[<<o, r>>]
        BY <2>1, <3>6 DEF HistoryOK, RunKeys
      <4>3. QED
        BY <3>3, <3>4, <4>1, <4>2
    <3>7. QED
      BY <3>5, <3>6
  <2>7. BoundaryIsNewest'
    BY <2>6 DEF BoundaryIsNewest
  <2>8. QED
    BY <1>1, <2>4, <2>5, <2>7, EventsUntouched, RunsUntouched, RequestsUntouched
<1>4. QED
  BY <1>2, <1>3

\* What recording an effect does to the table, and what it leaves alone.
LEMMA RecordedEffect ==
  ASSUME TypeOK, ServedIsNamed, NEW w \in Workers, NEW k \in CallIds,
         NEW status \in {"started", "completed", "failed"}, RecordToolEffect(w, k, status)
  PROVE  /\ Persists(w) => LET key == <<Caller(w), worker[w].run, k>>
                            IN  /\ key \in CallKeys
                                /\ DOMAIN storedEffects' = DOMAIN storedEffects \cup {key}
                                /\ storedEffects'[key] = [status |-> status]
                                /\ \A x \in DOMAIN storedEffects :
                                     x # key => storedEffects'[x] = storedEffects[x]
         /\ ~Persists(w) => storedEffects' = storedEffects
<1>1. CASE Persists(w)
  <2> DEFINE key == <<Caller(w), worker[w].run, k>>
  <2>1. key \in CallKeys
    BY <1>1 DEF TypeOK, ServedIsNamed, Serves, Persists, Caller, CallKeys
  <2>2. storedEffects' = Upserted(storedEffects, key, [status |-> status])
    BY <1>1 DEF RecordToolEffect, EffectKey
  <2>3. QED
    BY <1>1, <2>1, <2>2 DEF Upserted
<1>2. CASE ~Persists(w)
  BY <1>2 DEF RecordToolEffect
<1>3. QED
  BY <1>1, <1>2

\* What the request of w knows of call k becomes s.
Becomes(w, k, s) == worker' = [worker EXCEPT ![w].calls[k] = s]

\* A call that moves leaves the requests as they are otherwise.
LEMMA CallMoves ==
  ASSUME TypeOK, NEW w \in Workers, NEW k \in CallIds, NEW s \in CallStates, Becomes(w, k, s)
  PROVE  /\ worker' \in [Workers -> [owner : Owners \cup {NoOwner}, run : RunIds \cup {None},
                             calls : [CallIds -> CallStates], resumed : Nat \cup {None}]]
         /\ \A v \in Workers :
              /\ worker'[v].owner = worker[v].owner /\ worker'[v].run = worker[v].run
              /\ \A j \in CallIds : worker'[v].calls[j] =
                   IF v = w /\ j = k THEN s ELSE worker[v].calls[j]
BY DEF TypeOK, Becomes

\* A step that records an effect and moves its call keeps the invariant, if the
\* call was started, or had landed before it ended.
LEMMA EffectKept ==
  ASSUME IInv, NEW w \in Workers, NEW k \in CallIds, NEW s \in CallStates,
         NEW status \in {"started", "completed", "failed"},
         RecordToolEffect(w, k, status), Becomes(w, k, s),
         UNCHANGED <<storedRuns, storedEvents, storedSnapshots, starts, history>>,
         s = "new" /\ Persists(w) => <<Caller(w), worker[w].run, k>> \in landed,
         s # "new" => s = "started" /\ status = "started"
  PROVE  IInv'
<1> DEFINE key == <<Caller(w), worker[w].run, k>>
<1>1. /\ TypeOK /\ HistoryOK /\ BoundaryIsNewest /\ EventsAreTheOwners /\ LatestRanksHighest
      /\ EffectsAreAccountedFor /\ RunsAreExclusive /\ ServedIsNamed /\ RanHasLanded
  BY DEF IInv
<1>2. UNCHANGED <<storedRuns, storedEvents, storedSnapshots, starts,
                  landed, boundary, appended, latest>>
  BY DEF history
<1>3. /\ Persists(w) => /\ key \in CallKeys
                         /\ DOMAIN storedEffects' = DOMAIN storedEffects \cup {key}
                         /\ storedEffects'[key] = [status |-> status]
                         /\ \A x \in DOMAIN storedEffects :
                              x # key => storedEffects'[x] = storedEffects[x]
      /\ ~Persists(w) => storedEffects' = storedEffects
  BY <1>1, RecordedEffect
<1>4. /\ worker' \in [Workers -> [owner : Owners \cup {NoOwner}, run : RunIds \cup {None},
                              calls : [CallIds -> CallStates], resumed : Nat \cup {None}]]
      /\ \A v \in Workers :
           /\ worker'[v].owner = worker[v].owner /\ worker'[v].run = worker[v].run
           /\ \A j \in CallIds : worker'[v].calls[j] =
                IF v = w /\ j = k THEN s ELSE worker[v].calls[j]
  BY <1>1, CallMoves
<1>5. TypeOK'
  <2>1. \A x \in DOMAIN storedEffects' : x \in CallKeys /\ storedEffects'[x] \in StoredToolEffect
    <3>1. [status |-> status] \in StoredToolEffect
      BY DEF StoredToolEffect
    <3>2. \A x \in DOMAIN storedEffects : x \in CallKeys /\ storedEffects[x] \in StoredToolEffect
      BY <1>1 DEF TypeOK
    <3>3. QED
      BY <1>3, <3>1, <3>2
  <2>2. QED
    BY <1>1, <1>2, <1>4, <2>1 DEF TypeOK
<1>6. RunsAreExclusive' /\ ServedIsNamed' /\ RanHasLanded'
  BY <1>1, <1>2, <1>4
     DEF RunsAreExclusive, ServedIsNamed, RanHasLanded, Serves, Persists, Caller
<1>7. EffectsAreAccountedFor'
  <2>1. \A c \in CallKeys : c \in landed' => c \in DOMAIN storedEffects'
    BY <1>1, <1>2, <1>3 DEF EffectsAreAccountedFor
  <2>2. \A c \in DOMAIN storedEffects' : storedEffects'[c].status # "started" => c \in landed'
    BY <1>1, <1>2, <1>3 DEF EffectsAreAccountedFor, CallStates
  <2>3. ASSUME NEW v \in Workers, worker'[v].run # None, worker'[v].owner # NoOwner,
               NEW j \in CallIds, worker'[v].calls[j] # "new"
        PROVE  LET its == <<worker'[v].owner, worker'[v].run, j>>
               IN  its \in DOMAIN storedEffects' /\ storedEffects'[its].status = "started"
    <3> DEFINE its == <<worker[v].owner, worker[v].run, j>>
    <3>1. worker'[v].owner = worker[v].owner /\ worker'[v].run = worker[v].run
      BY <1>4
    <3>2. CASE v = w /\ j = k
      BY <1>3, <1>4, <2>3, <3>1, <3>2 DEF Persists, Caller
    <3>3. CASE ~(v = w /\ j = k)
      <4>1. worker[v].calls[j] # "new"
        BY <1>4, <2>3, <3>3
      <4>2. its \in DOMAIN storedEffects /\ storedEffects[its].status = "started"
        BY <1>1, <2>3, <3>1, <4>1
           DEF EffectsAreAccountedFor, Serves, Persists, Caller, Open, Unresolved
      <4>3. Persists(w) => its # key
        BY <1>1, <2>3, <3>1, <3>3 DEF RunsAreExclusive, Persists, Caller
      <4>4. QED
        BY <1>3, <3>1, <4>2, <4>3
    <3>4. QED
      BY <3>2, <3>3
  <2>4. QED
    BY <2>1, <2>2, <2>3
       DEF EffectsAreAccountedFor, Serves, Persists, Caller, Open, Unresolved
<1>8. QED
  BY <1>1, <1>2, <1>5, <1>6, <1>7, SnapshotsUntouched, EventsUntouched, RunsUntouched,
     HistoryUntouched DEF IInv

\* An effect is recorded as started before the call is.
LEMMA StartCallStep ==
  ASSUME IInv, NEW w \in Workers, NEW k \in CallIds, StartCall(w, k)
  PROVE  IInv'
BY EffectKept DEF StartCall, Becomes, CallStates

\* An effect is recorded as ended after the tool has run.
LEMMA EndCallStep ==
  ASSUME IInv, NEW w \in Workers, NEW k \in CallIds, EndCall(w, k)
  PROVE  IInv'
<1>1. PICK status \in {"completed", "failed"} : RecordToolEffect(w, k, status)
  BY DEF EndCall
<1>2. <<Caller(w), worker[w].run, k>> \in landed
  BY DEF EndCall, IInv, RanHasLanded
<1>3. QED
  BY <1>1, <1>2, EffectKept DEF EndCall, Becomes, CallStates

\* The tool acts: its effect was recorded as started before.
LEMMA RunToolStep ==
  ASSUME IInv, NEW w \in Workers, NEW k \in CallIds, RunTool(w, k)
  PROVE  IInv'
<1> DEFINE key == <<Caller(w), worker[w].run, k>>
<1>1. /\ TypeOK /\ HistoryOK /\ BoundaryIsNewest /\ EventsAreTheOwners /\ LatestRanksHighest
      /\ EffectsAreAccountedFor /\ RunsAreExclusive /\ ServedIsNamed /\ RanHasLanded
  BY DEF IInv
<1>2. /\ UNCHANGED <<storedRuns, storedEvents, storedSnapshots, storedEffects, starts,
                     boundary, appended, latest>>
      /\ landed' = landed \cup {key}
      /\ Serves(w) /\ worker[w].calls[k] = "started"
      /\ Becomes(w, k, "ran")
  BY DEF RunTool, tables, Becomes
<1>3. /\ worker' \in [Workers -> [owner : Owners \cup {NoOwner}, run : RunIds \cup {None},
                              calls : [CallIds -> CallStates], resumed : Nat \cup {None}]]
      /\ \A v \in Workers :
           /\ worker'[v].owner = worker[v].owner /\ worker'[v].run = worker[v].run
           /\ \A j \in CallIds : worker'[v].calls[j] =
                IF v = w /\ j = k THEN "ran" ELSE worker[v].calls[j]
  BY <1>1, <1>2, CallMoves DEF CallStates
<1>4. TypeOK'
  BY <1>1, <1>2, <1>3 DEF TypeOK
<1>5. RunsAreExclusive' /\ ServedIsNamed' /\ RanHasLanded'
  <2>1. RunsAreExclusive' /\ ServedIsNamed'
    BY <1>1, <1>3 DEF RunsAreExclusive, ServedIsNamed, Serves, Persists, Caller
  <2>2. ASSUME NEW v \in Workers, NEW j \in CallIds, Serves(v)', worker'[v].calls[j] = "ran"
        PROVE  <<worker'[v].owner, worker'[v].run, j>> \in landed'
    <3>1. worker'[v].owner = worker[v].owner /\ worker'[v].run = worker[v].run
      BY <1>3
    <3>2. CASE v = w /\ j = k
      BY <1>2, <3>1, <3>2 DEF Caller
    <3>3. CASE ~(v = w /\ j = k)
      BY <1>1, <1>2, <1>3, <2>2, <3>1, <3>3 DEF RanHasLanded, Serves, Caller
    <3>4. QED
      BY <3>2, <3>3
  <2>3. QED
    BY <2>1, <2>2 DEF RanHasLanded, Caller
<1>6. EffectsAreAccountedFor'
  <2>1. key \in CallKeys => key \in DOMAIN storedEffects
    BY <1>1, <1>2, StepStoreAssumption
       DEF EffectsAreAccountedFor, CallKeys, Persists, Open, Unresolved
  <2>2. \A v \in Workers, j \in CallIds :
          worker'[v].calls[j] # "new" => worker[v].calls[j] # "new"
    BY <1>2, <1>3
  <2>3. \A c \in CallKeys : c \in landed' => c \in DOMAIN storedEffects'
    BY <1>1, <1>2, <2>1 DEF EffectsAreAccountedFor
  <2>4. \A c \in DOMAIN storedEffects' : storedEffects'[c].status # "started" => c \in landed'
    BY <1>1, <1>2 DEF EffectsAreAccountedFor
  <2>5. ASSUME NEW v \in Workers, Serves(v)', Persists(v)'
        PROVE  Open(v)' \subseteq Unresolved(Caller(v), worker[v].run)'
    <3>1. Serves(v) /\ Persists(v) /\ Open(v)' \subseteq Open(v)
      BY <1>3, <2>2, <2>5 DEF Serves, Persists, Caller, Open
    <3>2. Unresolved(Caller(v), worker[v].run)' = Unresolved(Caller(v), worker[v].run)
      BY <1>2, <1>3 DEF Unresolved, Caller
    <3>3. QED
      BY <1>1, <3>1, <3>2 DEF EffectsAreAccountedFor
  <2>6. QED
    BY <2>3, <2>4, <2>5 DEF EffectsAreAccountedFor
<1>7. QED
  BY <1>1, <1>2, <1>4, <1>5, <1>6, SnapshotsUntouched, EventsUntouched, RunsUntouched,
     HistoryUntouched DEF IInv

\* A step that changes nothing keeps the invariant.
LEMMA Stutters == ASSUME IInv, UNCHANGED vars PROVE IInv'
<1> USE DEF IInv, vars, tables, history
<1>1. TypeOK'
  BY DEF TypeOK
<1>2. QED
  BY <1>1, SnapshotsUntouched, EventsUntouched, RunsUntouched, HistoryUntouched,
     RequestsUntouched

\* Every step keeps the invariant.
LEMMA Inductive == IInv /\ [Next]_vars => IInv'
<1> SUFFICES ASSUME IInv, [Next]_vars PROVE IInv'
  OBVIOUS
<1>1. ASSUME NEW w \in Workers, NEW o \in Owners \cup {NoOwner}, NEW r \in RunIds,
             RegisterRun(w, o, r)
      PROVE  IInv'
  BY <1>1, RegisterRunStep
<1>2. ASSUME NEW w \in Workers, AppendEvent(w) PROVE IInv'
  BY <1>2, AppendEventStep
<1>3. ASSUME NEW w \in Workers, SaveSnapshot(w) PROVE IInv'
  BY <1>3, SaveSnapshotStep
<1>4. ASSUME NEW w \in Workers, Finish(w) \/ Crash(w) PROVE IInv'
  BY <1>4, LeaveStep DEF Finish, Crash
<1>5. ASSUME NEW w \in Workers, NEW k \in CallIds, StartCall(w, k) PROVE IInv'
  BY <1>5, StartCallStep
<1>6. ASSUME NEW w \in Workers, NEW k \in CallIds, RunTool(w, k) PROVE IInv'
  BY <1>6, RunToolStep
<1>7. ASSUME NEW w \in Workers, NEW k \in CallIds, EndCall(w, k) PROVE IInv'
  BY <1>7, EndCallStep
<1>8. CASE UNCHANGED vars
  BY <1>8, Stutters
<1>9. QED
  BY <1>1, <1>2, <1>3, <1>4, <1>5, <1>6, <1>7, <1>8 DEF Next

\* The invariant holds throughout.
LEMMA Invariance == Spec => []IInv
BY Initial, Inductive, PTL DEF Spec

-----------------------------------------------------------------------------
(* The properties                                                          *)

\* The state stays well typed.
THEOREM StepTypesHold == Spec => []TypeOK
<1>1. IInv => TypeOK
  BY DEF IInv
<1>2. QED
  BY <1>1, Invariance, PTL

\* Wherever processes die, a call that may have acted is on record.
THEOREM EffectsAccounted == Spec => []EffectsAreAccountedFor
<1>1. IInv => EffectsAreAccountedFor
  BY DEF IInv
<1>2. QED
  BY <1>1, Invariance, PTL

\* An owner reads the events of its own runs, each once.
THEOREM EventsPartitioned == Spec => []EventsAreTheOwners
<1>1. IInv => EventsAreTheOwners
  BY DEF IInv
<1>2. QED
  BY <1>1, Invariance, PTL

\* The last run listed is the one its owner started last.
THEOREM LastRunIsLatest == Spec => []LastListedIsLatest
<1>1. ASSUME IInv PROVE LastListedIsLatest
  <2> SUFFICES ASSUME NEW o \in Owners, RunsOf(o) # {} PROVE LastListed(o) = latest[o]
    BY DEF LastListedIsLatest
  <2> DEFINE top == latest[o]
             IsTop(q) == \A p \in RunsOf(o) : Rank(o, p) <= Rank(o, q)
  <2>1. /\ \A r \in RunsOf(o) : Rank(o, r) \in Nat
        /\ top \in RunsOf(o)
        /\ \A r \in RunsOf(o) : r # top => Rank(o, r) < Rank(o, top)
    <3>1. PICK p \in RunIds : <<o, p>> \in DOMAIN storedRuns
      BY DEF RunsOf
    <3>2. <<o, top>> \in DOMAIN storedRuns
      BY <1>1, <3>1 DEF IInv, LatestRanksHighest
    <3>3. top \in RunsOf(o)
      BY <1>1, <3>2 DEF IInv, TypeOK, RunsOf, RunKeys
    <3>4. \A r \in RunsOf(o) : storedRuns[<<o, r>>] \in StoredRun
      BY <1>1 DEF IInv, TypeOK, RunsOf
    <3>5. \A r \in RunsOf(o) : Rank(o, r) \in Nat
      BY <3>4 DEF Rank, StoredRun
    <3>6. ASSUME NEW r \in RunsOf(o), r # top PROVE Rank(o, r) < Rank(o, top)
      BY <1>1, <3>6 DEF IInv, LatestRanksHighest, RunsOf, Rank
    <3>7. QED
      BY <3>3, <3>5, <3>6
  <2>2. IsTop(top)
    BY <2>1
  <2>3. \A q \in RunsOf(o) : IsTop(q) => q = top
    BY <2>1
  <2>4. QED
    BY <2>1, <2>2, <2>3 DEF LastListed
<1>2. QED
  BY <1>1, Invariance, PTL

\* A run is resumed from the last boundary its owner saved.
THEOREM RunsResumeAtTheBoundary == Spec => ResumesAtTheBoundary
<1>1. IInv /\ [Next]_vars => [\A w \in Workers : Resumes(w)]_vars
  <2> SUFFICES ASSUME IInv, [Next]_vars, NEW v \in Workers, ~Serves(v), worker'[v].run # None
               PROVE  worker'[v].resumed =
                        IF worker'[v].owner # NoOwner
                        THEN boundary[<<worker'[v].owner, worker'[v].run>>] ELSE None
    BY DEF Resumes, Serves, Persists, Caller
  <2>1. PICK w \in Workers, o \in Owners \cup {NoOwner}, r \in RunIds : RegisterRun(w, o, r)
    <3>1. worker[v].run = None
      BY DEF Serves
    <3>2. ASSUME NEW w \in Workers, worker' = [worker EXCEPT ![w] = Idle] PROVE FALSE
      BY <3>1, <3>2 DEF IInv, TypeOK, Idle
    <3>3. ASSUME NEW w \in Workers, NEW k \in CallIds, NEW s \in CallStates, Becomes(w, k, s)
          PROVE  FALSE
      BY <3>1, <3>3, CallMoves DEF IInv
    <3>4. worker' # worker
      BY <3>1
    <3>5. QED
      BY <3>2, <3>3, <3>4
         DEF Next, vars, AppendEvent, SaveSnapshot, Finish, Crash, StartCall, RunTool, EndCall,
             Becomes, CallStates
  <2>2. worker \in [Workers -> [owner : Owners \cup {NoOwner}, run : RunIds \cup {None},
                               calls : [CallIds -> CallStates], resumed : Nat \cup {None}]]
    BY DEF IInv, TypeOK
  <2>3. CASE o = NoOwner
    BY <2>1, <2>2, <2>3 DEF RegisterRun, Idle, Serves
  <2>4. CASE o # NoOwner
    <3>1. worker' = [worker EXCEPT ![w] =
                       [owner |-> o, run |-> r, calls |-> [k \in CallIds |-> "new"],
                        resumed |-> LatestSnapshot(o, r)]]
      BY <2>1, <2>4 DEF RegisterRun, Idle
    <3>2. boundary[<<o, r>>] = LatestSnapshot(o, r)
      BY <2>4 DEF IInv, BoundaryIsNewest
    <3>3. QED
      BY <2>2, <2>4, <3>1, <3>2 DEF Serves
  <2>5. QED
    BY <2>3, <2>4
<1>2. QED
  BY <1>1, Invariance, PTL DEF Spec, ResumesAtTheBoundary
=============================================================================
