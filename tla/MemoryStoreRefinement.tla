----------------------- MODULE MemoryStoreRefinement -----------------------
(***************************************************************************)
(* MemoryStore implements VersionedFiles, keeps rows with their owner, and *)
(* exceeds a ceiling on files by no more than its workers.                 *)
(***************************************************************************)
EXTENDS MemoryStoreProofs, FiniteSetTheorems, WellFoundedInduction

-----------------------------------------------------------------------------
(* What the refinement needs beyond IInv.                                  *)

\* A call past its compare holds the version it expected.
CompareHolds ==
  \A w \in Workers :
    txn[w].pc \in {"count", "sum", "store", "record", "commit"} =>
      VersionOf(txn[w].row) = txn[w].expected

\* Every write under way can still draw its version.
VersionsSuffice == minted + Cardinality(Drawing) <= VersionBound

\* Calls and rows are the owner's that _owner answers for their path.
OwnersMatch ==
  /\ \A w \in Workers : txn[w].pc # "idle" => txn[w].owner = Owner(w, txn[w].path)
  /\ \A k \in Keys : memory[k] # NoRow => \E w \in Workers : k[1] = Owner(w, k[2])

RInv == CompareHolds /\ VersionsSuffice /\ OwnersMatch

\* They hold before the first call.
LEMMA RInit == Init => RInv
<1> SUFFICES ASSUME Init PROVE RInv
  OBVIOUS
<1>1. Drawing = {}
  BY DEF Init, Drawing, IdleTxn
<1>2. VersionsSuffice
  BY <1>1, FS_EmptySet, CeilingAssumption DEF Init, VersionsSuffice
<1>3. CompareHolds /\ OwnersMatch
  BY DEF Init, CompareHolds, OwnersMatch, IdleTxn
<1>4. QED
  BY <1>2, <1>3 DEF RInv

\* Only finitely many writes are under way.
LEMMA DrawingFinite == IsFiniteSet(Drawing) /\ Cardinality(Drawing) \in Nat
BY FS_Subset, FS_CardinalityType, FiniteAssumption DEF Drawing

\* What a step of w does to the set of writes under way.
LEMMA DrawingStep ==
  ASSUME NEW w \in Workers, IInv,
         \A x \in Workers \ {w} : txn'[x] = txn[x]
  PROVE  /\ w \in Drawing /\ w \notin Drawing' => Cardinality(Drawing') = Cardinality(Drawing) - 1
         /\ w \notin Drawing /\ w \in Drawing' => Cardinality(Drawing') = Cardinality(Drawing) + 1
         /\ (w \in Drawing <=> w \in Drawing') => Cardinality(Drawing') = Cardinality(Drawing)
<1>1. CASE w \in Drawing /\ w \notin Drawing'
  <2>1. Drawing' = Drawing \ {w}
    BY <1>1 DEF Drawing
  <2>2. QED
    BY <1>1, <2>1, DrawingFinite, FS_RemoveElement
<1>2. CASE w \notin Drawing /\ w \in Drawing'
  <2>1. Drawing' = Drawing \cup {w}
    BY <1>2 DEF Drawing
  <2>2. QED
    BY <1>2, <2>1, DrawingFinite, FS_AddElement
<1>3. CASE w \in Drawing <=> w \in Drawing'
  <2>1. Drawing' = Drawing
    BY <1>3 DEF Drawing
  <2>2. QED
    BY <1>3, <2>1
<1>4. QED
  BY <1>1, <1>2, <1>3

\* What each action does to the worker that takes it.
LEMMA CallOf ==
  ASSUME IInv, NEW w \in Workers, Call(w)
  PROVE  /\ txn[w].pc = "idle" /\ txn'[w].pc \in {"receipt", "select"}
         /\ txn'[w].owner = Owner(w, txn'[w].path)
         /\ txn'[w].kind = "write" => VersionLeft
         /\ \A x \in Workers \ {w} : txn'[x] = txn[x]
         /\ UNCHANGED <<memory, receipts, shown, minted>>
BY DEF Call, tables, history, IInv, TypeOK

\* A step that moves w on within its call.
Moves(w) ==
  /\ txn[w].pc # "idle" /\ txn'[w].pc # "idle"
  /\ txn'[w].owner = txn[w].owner /\ txn'[w].path = txn[w].path
  /\ txn'[w].kind = txn[w].kind /\ txn'[w].content = txn[w].content
  /\ txn'[w].expected = txn[w].expected /\ txn'[w].op = txn[w].op
  /\ \A x \in Workers \ {w} : txn'[x] = txn[x]
  /\ UNCHANGED <<memory, receipts, shown>>

\* Before the version is drawn.
LEMMA MovesBefore ==
  ASSUME IInv, NEW w \in Workers,
         NoReceiptFound(w) \/ SelectForUpdate(w) \/ CountFiles(w) \/ SumChars(w),
         ~ Leave(w)
  PROVE  /\ Moves(w) /\ minted' = minted
         /\ txn'[w].pc \in {"select", "count", "sum", "store", "record", "commit"}
         /\ txn[w].kind = "write" => txn'[w].pc \in {"select", "count", "sum", "store"}
         /\ txn[w].kind = "write" => txn[w].pc \in {"receipt", "select", "count", "sum"}
         /\ txn'[w].pc # "select" /\ txn[w].pc = "select" =>
              VersionOf(txn'[w].row) = txn[w].expected
         /\ txn'[w].pc # "select" => txn[w].pc = "select" \/ txn'[w].row = txn[w].row
         /\ txn'[w].pc # "select" => txn[w].pc \in {"select", "count", "sum"}
<1> USE DEF IInv, TypeOK, tables, history, Txn, LocalsOK, TxnOK
<1>1. CASE NoReceiptFound(w)
  BY <1>1 DEF NoReceiptFound, Goto, Moves
<1>2. CASE SelectForUpdate(w)
  BY <1>2 DEF SelectForUpdate, AfterStore, Moves, Kinds
<1>3. CASE CountFiles(w) \/ SumChars(w)
  BY <1>3 DEF CountFiles, SumChars, Goto, Moves
<1>4. QED
  BY <1>1, <1>2, <1>3

\* From the statement that draws it on.
LEMMA MovesAfter ==
  ASSUME IInv, NEW w \in Workers,
         CreateRow(w) \/ UpdateRow(w) \/ DeleteRow(w) \/ Record(w), ~ Leave(w)
  PROVE  /\ Moves(w)
         /\ txn[w].pc \in {"store", "record"} /\ txn'[w].pc \in {"record", "commit"}
         /\ txn'[w].row = txn[w].row
         /\ txn[w].pc = "store" /\ txn[w].kind = "write" => minted' = minted + 1
         /\ ~ (txn[w].pc = "store" /\ txn[w].kind = "write") => minted' = minted
<1> USE DEF IInv, TypeOK, tables, history, Txn
<1>1. CASE CreateRow(w) \/ UpdateRow(w)
  BY <1>1 DEF CreateRow, UpdateRow, AfterStore, Moves
<1>2. CASE DeleteRow(w)
  BY <1>2 DEF DeleteRow, Goto, AfterStore, Moves
<1>3. CASE Record(w)
  BY <1>3 DEF Record, Goto, Moves
<1>4. QED
  BY <1>1, <1>2, <1>3

\* A step that ends the call of w.
Ends(w) ==
  /\ txn[w].pc # "idle" /\ txn'[w] = IdleTxn
  /\ \A x \in Workers \ {w} : txn'[x] = txn[x]

\* Without an effect; a colliding insert has drawn its version in vain.
LEMMA EndsQuietly ==
  ASSUME IInv, NEW w \in Workers,
         \/ Replay(w) \/ RefuseReusedId(w) \/ RefuseStale(w) \/ CreateCollides(w) \/ Abort(w)
         \/ (CountFiles(w) \/ SumChars(w) \/ Record(w)) /\ Leave(w)
  PROVE  /\ Ends(w) /\ UNCHANGED <<memory, receipts, shown>>
         /\ minted' = minted \/ (minted' = minted + 1 /\ w \in Drawing)
BY DEF Replay, RefuseReusedId, RefuseStale, CreateCollides, Abort, CountFiles, SumChars,
       Record, Leave, Ends, Drawing, tables, history, IInv, TypeOK

\* A commit ends the call.
LEMMA CommitEnds ==
  ASSUME IInv, NEW w \in Workers, Commit(w)
  PROVE  Ends(w) /\ minted' = minted /\ txn[w].pc = "commit"
BY DEF Commit, Leave, Ends, IInv, TypeOK

\* A statement ends the call quietly, moves it on, or commits it.
LEMMA StatementCases ==
  ASSUME IInv, NEW w \in Workers, Statement(w)
  PROVE  \/ \/ Replay(w) \/ RefuseReusedId(w) \/ RefuseStale(w) \/ CreateCollides(w) \/ Abort(w)
            \/ (CountFiles(w) \/ SumChars(w) \/ Record(w)) /\ Leave(w)
         \/ /\ NoReceiptFound(w) \/ SelectForUpdate(w) \/ CountFiles(w) \/ SumChars(w)
            /\ ~ Leave(w)
         \/ /\ CreateRow(w) \/ UpdateRow(w) \/ DeleteRow(w) \/ Record(w)
            /\ ~ Leave(w)
         \/ Commit(w)
<1>1. ~ ((NoReceiptFound(w) \/ SelectForUpdate(w) \/ DeleteRow(w)) /\ Leave(w))
  BY DEF IInv, TypeOK, NoReceiptFound, SelectForUpdate, DeleteRow, Leave, Goto, AfterStore, IdleTxn
<1>2. ~ ((CreateRow(w) \/ UpdateRow(w)) /\ Leave(w))
  BY DEF IInv, TypeOK, CreateRow, UpdateRow, Leave, AfterStore, IdleTxn
<1>3. QED
  BY <1>1, <1>2 DEF Statement

\* To the caller there are three kinds of step: an end without effect, a move
\* towards the end, and the commit.
LEMMA StatementKinds ==
  ASSUME IInv, NEW w \in Workers, Statement(w) \/ Abort(w)
  PROVE  \/ Ends(w) /\ UNCHANGED <<memory, receipts, shown>>
         \/ Moves(w)
         \/ Commit(w)
BY StatementCases, EndsQuietly, MovesBefore, MovesAfter

\* Calls that end leave the three conditions true of the others.
LEMMA EndsStep ==
  ASSUME IInv, RInv, NEW w \in Workers, Ends(w),
         minted' = minted \/ (minted' = minted + 1 /\ w \in Drawing),
         \A k \in Keys : memory'[k] # NoRow => \E x \in Workers : k[1] = Owner(x, k[2])
  PROVE  RInv'
<1>1. CompareHolds'
  BY DEF RInv, CompareHolds, Ends, IdleTxn
<1>2. VersionsSuffice'
  <2>1. w \notin Drawing'
    BY DEF Drawing, Ends, IdleTxn
  <2>2. \/ Cardinality(Drawing') = Cardinality(Drawing) /\ w \notin Drawing
        \/ Cardinality(Drawing') = Cardinality(Drawing) - 1
    BY <2>1, DrawingStep DEF Ends
  <2>3. QED
    BY <2>2, DrawingFinite, CeilingAssumption DEF RInv, VersionsSuffice, IInv, TypeOK
<1>3. OwnersMatch'
  BY DEF RInv, OwnersMatch, Ends, IdleTxn, Owner
<1>4. QED
  BY <1>1, <1>2, <1>3 DEF RInv

\* Calls that move on leave them true too.
LEMMA MovesStep ==
  ASSUME IInv, RInv, NEW w \in Workers, Moves(w),
         \/ minted' = minted /\ (w \in Drawing' => w \in Drawing)
         \/ minted' = minted + 1 /\ w \in Drawing /\ w \notin Drawing',
         txn'[w].pc \in {"count", "sum", "store", "record", "commit"} =>
           VersionOf(txn'[w].row) = txn'[w].expected
  PROVE  RInv'
<1>1. CompareHolds'
  BY DEF RInv, CompareHolds, Moves, VersionOf
<1>2. VersionsSuffice'
  <2>1. \/ Cardinality(Drawing') = Cardinality(Drawing) /\ (w \in Drawing <=> w \in Drawing')
        \/ Cardinality(Drawing') = Cardinality(Drawing) - 1
    BY DrawingStep DEF Moves
  <2>2. QED
    BY <2>1, DrawingFinite, CeilingAssumption DEF RInv, VersionsSuffice, IInv, TypeOK
<1>3. OwnersMatch'
  BY DEF RInv, OwnersMatch, Moves, Owner
<1>4. QED
  BY <1>1, <1>2, <1>3 DEF RInv

\* Every step of the store preserves the three conditions.
LEMMA RStep == IInv /\ RInv /\ [Next]_vars => RInv'
<1> SUFFICES ASSUME IInv, RInv, [Next]_vars
             PROVE  RInv'
  OBVIOUS
<1> USE DEF IInv, TypeOK
<1>1. ASSUME NEW w \in Workers, Call(w)
      PROVE  RInv'
  <2>1. CompareHolds'
    BY <1>1, CallOf DEF RInv, CompareHolds, VersionOf
  <2>2. VersionsSuffice'
    <3>1. w \notin Drawing /\ (w \in Drawing' => VersionLeft)
      BY <1>1, CallOf DEF Drawing
    <3>2. \/ Cardinality(Drawing') = Cardinality(Drawing)
          \/ Cardinality(Drawing') = Cardinality(Drawing) + 1 /\ VersionLeft
      BY <1>1, <3>1, CallOf, DrawingStep
    <3>3. QED
      BY <1>1, <3>2, CallOf, DrawingFinite, CeilingAssumption
         DEF RInv, VersionsSuffice, VersionLeft
  <2>3. OwnersMatch'
    BY <1>1, CallOf DEF RInv, OwnersMatch, Owner
  <2>4. QED
    BY <2>1, <2>2, <2>3 DEF RInv
<1>2. ASSUME NEW w \in Workers, UnpersistedWrite(w)
      PROVE  RInv'
  <2>1. UNCHANGED <<memory, txn>> /\ minted' = minted + 1 /\ VersionLeft
    BY <1>2 DEF UnpersistedWrite, tables
  <2>2. Drawing' = Drawing
    BY <2>1 DEF Drawing
  <2>3. QED
    BY <2>1, <2>2, DrawingFinite, CeilingAssumption
       DEF RInv, CompareHolds, VersionsSuffice, VersionLeft, OwnersMatch, Owner, VersionOf
<1>3. ASSUME NEW w \in Workers,
             \/ Replay(w) \/ RefuseReusedId(w) \/ RefuseStale(w) \/ CreateCollides(w) \/ Abort(w)
             \/ (CountFiles(w) \/ SumChars(w) \/ Record(w)) /\ Leave(w)
      PROVE  RInv'
  <2>1. Ends(w) /\ memory' = memory /\ (minted' = minted \/ (minted' = minted + 1 /\ w \in Drawing))
    BY <1>3, EndsQuietly
  <2>2. \A k \in Keys : memory'[k] # NoRow => \E x \in Workers : k[1] = Owner(x, k[2])
    BY <2>1 DEF RInv, OwnersMatch
  <2>3. QED
    BY <2>1, <2>2, EndsStep
<1>4. ASSUME NEW w \in Workers,
             NoReceiptFound(w) \/ SelectForUpdate(w) \/ CountFiles(w) \/ SumChars(w),
             ~ Leave(w)
      PROVE  RInv'
  <2>1. txn'[w].pc \in {"count", "sum", "store", "record", "commit"} =>
          VersionOf(txn'[w].row) = txn'[w].expected
    BY <1>4, MovesBefore DEF Moves, RInv, CompareHolds
  <2>2. w \in Drawing' => w \in Drawing
    BY <1>4, MovesBefore DEF Moves, Drawing
  <2>3. QED
    BY <1>4, <2>1, <2>2, MovesBefore, MovesStep
<1>5. ASSUME NEW w \in Workers,
             CreateRow(w) \/ UpdateRow(w) \/ DeleteRow(w) \/ Record(w), ~ Leave(w)
      PROVE  RInv'
  <2>1. VersionOf(txn'[w].row) = txn'[w].expected
    BY <1>5, MovesAfter DEF Moves, RInv, CompareHolds
  <2>2. w \notin Drawing' /\ (txn[w].pc = "store" /\ txn[w].kind = "write" => w \in Drawing)
    BY <1>5, MovesAfter DEF Moves, Drawing
  <2>3. QED
    BY <1>5, <2>1, <2>2, MovesAfter, MovesStep
<1>6. ASSUME NEW w \in Workers, Commit(w)
      PROVE  RInv'
  <2>1. Key(w) \in Keys /\ txn[w].owner = Owner(w, txn[w].path)
    BY <1>6, CommitEnds DEF LocalsOK, TxnOK, Key, Keys, RInv, OwnersMatch
  <2>2. \A k \in Keys : memory'[k] # NoRow => memory[k] # NoRow \/ k = Key(w)
    BY <1>6 DEF Commit, MemoryAfter
  <2>3. \A k \in Keys : memory'[k] # NoRow => \E x \in Workers : k[1] = Owner(x, k[2])
    BY <2>1, <2>2 DEF RInv, OwnersMatch, Key
  <2>4. QED
    BY <1>6, <2>3, CommitEnds, EndsStep
<1>7. ASSUME NEW o \in Owners, PurgeReceipts(o) \/ PurgeRows(o)
      PROVE  RInv'
  <2>1. /\ UNCHANGED <<txn, minted>>
        /\ \A k \in Keys : memory'[k] # NoRow => memory[k] # NoRow
    BY <1>7 DEF PurgeReceipts, PurgeRows, history
  <2>2. Drawing' = Drawing
    BY <2>1 DEF Drawing
  <2>3. QED
    BY <2>1, <2>2 DEF RInv, CompareHolds, VersionsSuffice, OwnersMatch, Owner, VersionOf
<1>8. CASE UNCHANGED vars
  <2>1. Drawing' = Drawing
    BY <1>8 DEF vars, Drawing
  <2>2. QED
    BY <1>8, <2>1
       DEF vars, RInv, CompareHolds, VersionsSuffice, OwnersMatch, Owner, VersionOf
<1>9. ASSUME NEW w \in Workers, Statement(w)
      PROVE  RInv'
  BY <1>9, <1>3, <1>4, <1>5, <1>6, StatementCases
<1>10. QED
  BY <1>1, <1>2, <1>3, <1>7, <1>8, <1>9 DEF Next

\* The three conditions hold at every point of every run of the store.
THEOREM RInvariance == Spec => [](IInv /\ RInv)
<1>1. Init => IInv /\ RInv
  BY TypeInit, CoreInit, RInit DEF IInv
<1>2. IInv /\ RInv /\ [Next]_vars => (IInv /\ RInv)'
  BY InvStep, RStep
<1>3. QED
  BY <1>1, <1>2, PTL DEF Spec

\* A request-bound store keeps every file under an owner some request resolves
\* to, whatever the paths begin with.
THEOREM OwnersAreUsers == ASSUME RequestBound PROVE Spec => []OwnerIsTheUser
<1>1. IInv /\ RInv => OwnerIsTheUser
  BY DEF RInv, OwnersMatch, Owner, OwnerIsTheUser
<1>2. QED
  BY <1>1, RInvariance, PTL

-----------------------------------------------------------------------------
(* The refinement.                                                         *)

Asked == [w \in Workers |-> Outstanding(w)]

\* A step of w alone replaces w's request alone.
LEMMA AskedStep ==
  ASSUME NEW w \in Workers, \A x \in Workers \ {w} : txn'[x] = txn[x]
  PROVE  Asked' = [Asked EXCEPT ![w] = Outstanding(w)']
<1>1. \A x \in Workers \ {w} : Outstanding(x)' = Outstanding(x)
  BY DEF Outstanding
<1>2. QED
  BY <1>1 DEF Asked

\* When a call ends, its request is no longer outstanding.
LEMMA EndedStep ==
  ASSUME NEW w \in Workers, Ends(w)
  PROVE  Asked' = [Asked EXCEPT ![w] = NoRequest]
<1>1. Outstanding(w)' = NoRequest
  BY DEF Ends, Outstanding, IdleTxn
<1>2. QED
  BY <1>1, AskedStep DEF Ends

\* A call that moves on changes nothing the abstract store knows of.
LEMMA MoveStutters ==
  ASSUME NEW w \in Workers, Moves(w)
  PROVE  UNCHANGED Abstract!vars
<1>1. Outstanding(w)' = Outstanding(w)
  BY DEF Moves, Outstanding
<1>2. \A x \in Workers : Outstanding(x)' = Outstanding(x)
  BY <1>1 DEF Moves, Outstanding
<1>3. QED
  BY <1>2 DEF Moves, Abstract!vars

\* A call begins as a request.
LEMMA AskStep ==
  ASSUME IInv, NEW w \in Workers, Call(w)
  PROVE  Abstract!Ask(w)
<1>1. /\ txn[w].pc = "idle" /\ txn'[w].pc # "idle"
      /\ \A x \in Workers \ {w} : txn'[x] = txn[x]
      /\ UNCHANGED <<memory, receipts, shown>>
  BY CallOf
<1>2. Asked' = [Asked EXCEPT ![w] = Outstanding(w)']
  BY <1>1, AskedStep
<1>3. Asked[w] = NoRequest /\ Asked'[w] = Outstanding(w)'
  BY <1>1, <1>2 DEF Asked, Outstanding
<1>4. TypeOK'
  BY TypeStep DEF IInv, Next
<1>5. LocalsOK'
  BY TypeStep DEF IInv, Next
<1>6. Outstanding(w)' \in Requests
  BY <1>1, <1>4, <1>5 DEF TypeOK, Txn, LocalsOK, TxnOK, Outstanding, Requests
<1>7. QED
  BY <1>1, <1>2, <1>3, <1>6 DEF Asked, Abstract!Ask

\* The request under way, field by field.
LEMMA AskedFields ==
  ASSUME IInv, NEW w \in Workers, txn[w].pc # "idle"
  PROVE  /\ Asked[w] # NoRequest
         /\ Asked[w].kind = txn[w].kind /\ Asked[w].content = txn[w].content
         /\ Asked[w].owner = txn[w].owner /\ Asked[w].path = txn[w].path
         /\ Asked[w].expected = txn[w].expected /\ Asked[w].op = txn[w].op
<1>1. Asked[w] = [kind |-> txn[w].kind, owner |-> txn[w].owner, path |-> txn[w].path,
                  content |-> txn[w].content, expected |-> txn[w].expected,
                  op |-> txn[w].op]
  BY DEF Asked, Outstanding
<1>2. Asked[w] \in Requests
  BY <1>1 DEF Requests, Txn, LocalsOK, TxnOK, IInv, TypeOK
<1>3. QED
  BY <1>1, <1>2, NoRequestAssumption

\* What a commit finds: the row it looked at, or, on an insert, no row.
LEMMA CommitFinds ==
  ASSUME IInv, RInv, NEW w \in Workers, Commit(w)
  PROVE  /\ txn[w].kind = "write" \/ txn[w].row # NoRow => memory[Key(w)] = txn[w].row
         /\ VersionOf(txn[w].row) = txn[w].expected
         /\ txn[w].op # NoOp => receipts[OpKey(w)] = NoReceipt
         /\ txn[w].kind = "write" => txn[w].version \in Versions \ shown
         /\ txn[w].kind # "write" => txn[w].kind = "delete" /\ txn[w].version = NoVersion
<1> USE DEF IInv, TypeOK
<1>1. txn[w].pc = "commit" /\ txn[w] \in Txn
  BY DEF Commit
<1>2. txn[w].kind = "write" \/ txn[w].row # NoRow => memory[Key(w)] = txn[w].row
  <2>1. CASE txn[w].row # NoRow
    BY <2>1 DEF Core, LockedRowIsCurrent
  <2>2. CASE txn[w].row = NoRow /\ txn[w].kind = "write"
    BY <1>1, <2>2 DEF Core, InsertsAreExclusive, Inserting
  <2>3. QED
    BY <2>1, <2>2
<1>3. VersionOf(txn[w].row) = txn[w].expected
  BY <1>1 DEF RInv, CompareHolds
<1>4. txn[w].op # NoOp => receipts[OpKey(w)] = NoReceipt
  BY <1>1 DEF Core, ReceiptsAreExclusive
<1>5. txn[w].kind = "write" => txn[w].version \in Versions \ shown
  <2>1. minted <= VersionBound
    BY DrawingFinite, CeilingAssumption DEF RInv, VersionsSuffice
  <2>2. txn[w].kind = "write" => txn[w].version \in 1..minted /\ txn[w].version \notin shown
    BY <1>1 DEF Core, PendingVersionsAreFresh, Minting
  <2>3. QED
    BY <2>1, <2>2, CeilingAssumption DEF Versions
<1>6. txn[w].kind # "write" => txn[w].kind = "delete" /\ txn[w].version = NoVersion
  BY <1>1 DEF Txn, Kinds, LocalsOK, TxnOK
<1>7. QED
  BY <1>2, <1>3, <1>4, <1>5, <1>6

\* The receipt a commit leaves is the one the abstract store leaves.
LEMMA CommitReceipt ==
  ASSUME IInv, RInv, NEW w \in Workers, Commit(w)
  PROVE  Abstract!Receipt(Asked[w], txn[w].version, txn[w].row # NoRow)
<1>1. receipts' = ReceiptsAfter(w)
  BY DEF Commit
<1>2. /\ Asked[w].op = txn[w].op /\ <<Asked[w].owner, Asked[w].op>> = OpKey(w)
      /\ <<Asked[w].kind, Asked[w].path, Asked[w].content>> = Fingerprint(w)
  BY CommitEnds, AskedFields DEF Fingerprint, OpKey
<1>3. txn[w].op # NoOp => receipts[OpKey(w)] = NoReceipt
  BY CommitFinds
<1>4. CASE txn[w].op = NoOp
  BY <1>1, <1>2, <1>4, Zenon DEF Abstract!Receipt, ReceiptsAfter
<1>5. CASE txn[w].op # NoOp
  BY <1>1, <1>2, <1>3, <1>5, Zenon DEF Abstract!Receipt, ReceiptsAfter
<1>6. QED
  BY <1>4, <1>5

\* A commit is the whole effect of its call: _write and _delete in one step.
LEMMA CommitIsAnEffect ==
  ASSUME IInv, RInv, NEW w \in Workers, Commit(w)
  PROVE  Abstract!Write(w) \/ Abstract!Delete(w) \/ Abstract!NoteAbsent(w)
<1> DEFINE q == Asked[w]
<1>1. Asked' = [Asked EXCEPT ![w] = NoRequest]
  BY CommitEnds, EndedStep
<1>2. /\ memory' = MemoryAfter(w)
      /\ shown' = IF txn[w].kind = "write" THEN shown \cup {txn[w].version} ELSE shown
  BY DEF Commit
<1>3. /\ q # NoRequest /\ q.kind = txn[w].kind /\ q.content = txn[w].content
      /\ q.expected = txn[w].expected /\ q.op = txn[w].op
      /\ <<q.owner, q.path>> = Key(w)
  BY CommitEnds, AskedFields DEF Key
<1>4. CASE txn[w].kind = "write"
  <2>1. memory[Key(w)] = txn[w].row /\ Abstract!VersionAt(Key(w)) = q.expected
    BY <1>3, <1>4, CommitFinds DEF Abstract!VersionAt, VersionOf
  <2>2. Abstract!Receipt(q, txn[w].version, memory[Key(w)] # NoRow)
    BY <2>1, CommitReceipt
  <2>3. /\ txn[w].version \in Versions \ shown
        /\ shown' = shown \cup {txn[w].version}
        /\ memory' = [memory EXCEPT ![Key(w)] =
             [content |-> Escape[q.content], version |-> txn[w].version, op |-> q.op]]
    BY <1>2, <1>3, <1>4, CommitFinds DEF MemoryAfter
  <2>4. QED
    BY <1>1, <1>3, <1>4, <2>1, <2>2, <2>3 DEF Abstract!Write, Asked
<1>5. CASE txn[w].kind # "write" /\ txn[w].row # NoRow
  <2>1. /\ memory[Key(w)] # NoRow /\ Abstract!VersionAt(Key(w)) = q.expected
        /\ q.kind = "delete"
    BY <1>3, <1>5, CommitFinds DEF Abstract!VersionAt, VersionOf
  <2>2. Abstract!Receipt(q, NoVersion, TRUE)
    BY <1>5, CommitReceipt, CommitFinds
  <2>3. memory' = [memory EXCEPT ![Key(w)] = NoRow] /\ shown' = shown
    BY <1>2, <1>5 DEF MemoryAfter
  <2>4. QED
    BY <1>1, <1>3, <2>1, <2>2, <2>3 DEF Abstract!Delete, Asked
<1>6. CASE txn[w].kind # "write" /\ txn[w].row = NoRow
  <2>1. q.kind = "delete" /\ q.expected = NoVersion
    BY <1>3, <1>6, CommitFinds DEF VersionOf
  <2>2. Abstract!Receipt(q, NoVersion, FALSE)
    BY <1>6, CommitReceipt, CommitFinds
  <2>3. UNCHANGED <<memory, shown>>
    BY <1>2, <1>6 DEF MemoryAfter
  <2>4. QED
    BY <1>1, <1>3, <2>1, <2>2, <2>3 DEF Abstract!NoteAbsent, Asked
<1>7. QED
  BY <1>4, <1>5, <1>6

\* The steps of no call: made-up versions and the two halves of a purge.
LEMMA OtherSteps ==
  ASSUME IInv
  PROVE  /\ \A w \in Workers : UnpersistedWrite(w) => Abstract!Fabricate
         /\ \A o \in Owners : PurgeReceipts(o) => Abstract!ForgetReceipts(o)
         /\ \A o \in Owners : PurgeRows(o) => Abstract!ForgetFiles(o)
<1>1. ASSUME txn' = txn PROVE Asked' = Asked
  BY <1>1 DEF Asked, Outstanding
<1>2. ASSUME NEW w \in Workers, UnpersistedWrite(w)
      PROVE  Abstract!Fabricate
  <2>1. /\ shown' = shown \cup {minted + 1} /\ VersionLeft
        /\ UNCHANGED <<memory, receipts, txn>>
    BY <1>2 DEF UnpersistedWrite, tables
  <2>2. minted + 1 \in Versions
    BY <2>1, DrawingFinite, CeilingAssumption DEF Versions, VersionLeft, IInv, TypeOK
  <2>3. minted + 1 \notin shown
    BY DEF IInv, TypeOK, Core, PendingVersionsAreFresh
  <2>4. QED
    BY <1>1, <2>1, <2>2, <2>3 DEF Abstract!Fabricate, Asked
<1>3. ASSUME NEW o \in Owners, PurgeReceipts(o)
      PROVE  Abstract!ForgetReceipts(o)
  BY <1>1, <1>3 DEF PurgeReceipts, Abstract!ForgetReceipts, Asked, OpKeys
<1>4. ASSUME NEW o \in Owners, PurgeRows(o)
      PROVE  Abstract!ForgetFiles(o)
  BY <1>1, <1>4 DEF PurgeRows, Abstract!ForgetFiles, Asked, Keys, history
<1>5. QED
  BY <1>2, <1>3, <1>4

\* Every step of the transactions is a step of the abstract store or a stutter.
LEMMA StepImplements ==
  IInv /\ RInv /\ [Next]_vars => [Abstract!Next]_(Abstract!vars)
<1> SUFFICES ASSUME IInv, RInv, [Next]_vars
             PROVE  [Abstract!Next]_(Abstract!vars)
  OBVIOUS
<1>1. ASSUME NEW w \in Workers, Ends(w), UNCHANGED <<memory, receipts, shown>>
      PROVE  Abstract!Next
  <2>1. Abstract!AnswerOnly(w)
    BY <1>1, EndedStep DEF Abstract!AnswerOnly, Asked
  <2>2. QED
    BY <2>1 DEF Abstract!Next
<1>2. ASSUME NEW w \in Workers, Statement(w) \/ Abort(w)
      PROVE  [Abstract!Next]_(Abstract!vars)
  <2>1. \/ Ends(w) /\ UNCHANGED <<memory, receipts, shown>>
        \/ Moves(w)
        \/ Commit(w)
    BY <1>2, StatementKinds
  <2>2. Commit(w) => Abstract!Next
    BY CommitIsAnEffect DEF Abstract!Next
  <2>3. QED
    BY <1>1, <2>1, <2>2, MoveStutters
<1>3. ASSUME NEW w \in Workers, Call(w) \/ UnpersistedWrite(w)
      PROVE  Abstract!Next
  BY <1>3, AskStep, OtherSteps DEF Abstract!Next
<1>4. ASSUME NEW o \in Owners, PurgeReceipts(o) \/ PurgeRows(o)
      PROVE  Abstract!Next
  BY <1>4, OtherSteps DEF Abstract!Next
<1>5. CASE UNCHANGED vars
  BY <1>5 DEF vars, Abstract!vars, Outstanding
<1>6. QED
  BY <1>2, <1>3, <1>4, <1>5 DEF Next

\* Every behaviour of the transactions is one of atomic compare-and-set files
\* with receipts: each call takes effect in one step, or not at all.
THEOREM Implements == Spec => Promise
<1>1. Init => Abstract!Init
  BY DEF Init, Abstract!Init, Keys, OpKeys, Outstanding, IdleTxn
<1>2. IInv /\ RInv /\ [Next]_vars => [Abstract!Next]_(Abstract!vars)
  BY StepImplements
<1>3. QED
  BY <1>1, <1>2, RInvariance, PTL DEF Spec, Promise, Abstract!Spec

-----------------------------------------------------------------------------
(* How far concurrent creates can exceed max_files.  The count in          *)
(* _check_ceilings takes no lock, so what it bounds is not the number of   *)
(* files, but the files together with the creates that have passed it.     *)

\* w has passed the count and may add a file.
Creating(w) ==
  /\ txn[w].kind = "write" /\ txn[w].row = NoRow
  /\ txn[w].pc \in {"sum", "store", "record", "commit"}

\* The files of o, and those its calls may yet add.
Claimed(o) ==
  {k \in Keys : k[1] = o /\ (memory[k] # NoRow \/ \E w \in Workers : Creating(w) /\ Key(w) = k)}

ClaimsAreBounded ==
  \A o \in Owners : Cardinality(Claimed(o)) <= MaxFiles + Cardinality(Workers) - 1

\* Owners have finitely many files and claims.
LEMMA ClaimedFinite ==
  \A o \in Owners : IsFiniteSet(Claimed(o)) /\ Cardinality(Claimed(o)) \in Nat
<1>1. IsFiniteSet(Keys)
  BY FS_Product, FiniteAssumption DEF Keys
<1>2. QED
  BY <1>1, FS_Subset, FS_CardinalityType DEF Claimed

\* Fewer claims keep the bound.
LEMMA FewerClaims ==
  ASSUME ClaimsAreBounded, \A o \in Owners : Claimed(o)' \subseteq Claimed(o)
  PROVE  ClaimsAreBounded'
<1> SUFFICES ASSUME NEW o \in Owners
             PROVE  Cardinality(Claimed(o)') <= MaxFiles + Cardinality(Workers) - 1
  BY DEF ClaimsAreBounded
<1>1. Cardinality(Claimed(o)') <= Cardinality(Claimed(o)) /\ Cardinality(Claimed(o)') \in Nat
  BY ClaimedFinite, FS_Subset, FS_CardinalityType
<1>2. QED
  BY <1>1, ClaimedFinite, FiniteAssumption, CeilingAssumption, FS_CardinalityType
     DEF ClaimsAreBounded

\* Steps that add neither a file nor a create past its count.
LEMMA NoNewClaims ==
  ASSUME ClaimsAreBounded,
         \A k \in Keys : memory'[k] # NoRow =>
           memory[k] # NoRow \/ \E x \in Workers : Creating(x) /\ Key(x) = k,
         \A x \in Workers : Creating(x)' => Creating(x) /\ Key(x)' = Key(x)
  PROVE  ClaimsAreBounded'
<1>1. \A o \in Owners : Claimed(o)' \subseteq Claimed(o)
  BY DEF Claimed
<1>2. QED
  BY <1>1, FewerClaims

\* The one step that adds a claim: it counted the other files first, and at
\* most one claim comes from each other worker.
LEMMA CountStep ==
  ASSUME IInv, ClaimsAreBounded, NEW w \in Workers, CountFiles(w), ~ Leave(w)
  PROVE  ClaimsAreBounded'
<1> DEFINE Rest == {Key(x) : x \in Workers \ {w}}
<1>1. /\ txn[w].pc = "count" /\ Moves(w) /\ ~ FileTooMany(w)
      /\ memory' = memory
  BY MovesBefore DEF CountFiles, Goto, Moves
<1>2. \A x \in Workers : x # w /\ Creating(x)' => Creating(x) /\ Key(x)' = Key(x)
  BY <1>1 DEF Moves, Creating, Key
<1>3. Key(w)' = Key(w)
  BY <1>1 DEF Moves, Key
<1>4. SUFFICES ASSUME NEW o \in Owners
               PROVE  Cardinality(Claimed(o)') <= MaxFiles + Cardinality(Workers) - 1
  BY DEF ClaimsAreBounded
<1>5. CASE o # txn[w].owner
  <2>1. Claimed(o)' \subseteq Claimed(o)
    BY <1>1, <1>2, <1>3, <1>5 DEF Claimed, Key
  <2>2. Cardinality(Claimed(o)') <= Cardinality(Claimed(o)) /\ Cardinality(Claimed(o)') \in Nat
    BY <2>1, ClaimedFinite, FS_Subset, FS_CardinalityType
  <2>3. QED
    BY <2>2, ClaimedFinite, FiniteAssumption, CeilingAssumption, FS_CardinalityType
       DEF ClaimsAreBounded
<1>6. CASE o = txn[w].owner
  <2> DEFINE Old == Others(w) \cup {Key(w)}
  <2>1. Claimed(o)' \subseteq Old \cup Rest
    BY <1>1, <1>2, <1>3, <1>6 DEF Claimed, Others
  <2>2. IsFiniteSet(Others(w)) /\ Cardinality(Others(w)) \in Nat
    <3>1. Others(w) \subseteq Claimed(o)
      BY <1>6 DEF Others, Claimed
    <3>2. QED
      BY <3>1, ClaimedFinite, FS_Subset, FS_CardinalityType
  <2>3. IsFiniteSet(Old) /\ Cardinality(Old) <= MaxFiles /\ Cardinality(Old) \in Nat
    <3>1. Key(w) \notin Others(w)
      BY DEF Others
    <3>2. IsFiniteSet(Old) /\ Cardinality(Old) = Cardinality(Others(w)) + 1
      BY <2>2, <3>1, FS_AddElement
    <3>3. QED
      BY <1>1, <2>2, <3>2, CeilingAssumption DEF FileTooMany
  <2>4. IsFiniteSet(Rest) /\ Cardinality(Rest) <= Cardinality(Workers) - 1
        /\ Cardinality(Rest) \in Nat
    <3>1. /\ IsFiniteSet(Workers \ {w})
          /\ Cardinality(Workers \ {w}) = Cardinality(Workers) - 1
      BY FS_RemoveElement, FiniteAssumption
    <3>2. [x \in Workers \ {w} |-> Key(x)] \in Surjection(Workers \ {w}, Rest)
      BY DEF Surjection
    <3>3. IsFiniteSet(Rest) /\ Cardinality(Rest) <= Cardinality(Workers \ {w})
      BY <3>1, <3>2, FS_Surjection
    <3>4. QED
      BY <3>1, <3>3, FS_CardinalityType
  <2>5. IsFiniteSet(Old \cup Rest)
        /\ Cardinality(Old \cup Rest) <= Cardinality(Old) + Cardinality(Rest)
        /\ Cardinality(Old \cup Rest) \in Nat
    <3>1. IsFiniteSet(Old \cup Rest)
          /\ Cardinality(Old \cup Rest)
               = Cardinality(Old) + Cardinality(Rest) - Cardinality(Old \cap Rest)
      BY <2>3, <2>4, FS_Union
    <3>2. Cardinality(Old \cap Rest) \in Nat /\ Cardinality(Old \cup Rest) \in Nat
      BY <2>3, <3>1, FS_Intersection, FS_CardinalityType
    <3>3. QED
      BY <2>3, <2>4, <3>1, <3>2
  <2>6. Cardinality(Claimed(o)') <= Cardinality(Old \cup Rest) /\ Cardinality(Claimed(o)') \in Nat
    BY <2>1, <2>5, FS_Subset, FS_CardinalityType
  <2>7. QED
    BY <2>3, <2>4, <2>5, <2>6, FiniteAssumption, CeilingAssumption, FS_CardinalityType
<1>7. QED
  BY <1>5, <1>6

\* Every step of the store keeps the bound on claims.
LEMMA ClaimsStep == IInv /\ RInv /\ ClaimsAreBounded /\ [Next]_vars => ClaimsAreBounded'
<1> SUFFICES ASSUME IInv, RInv, ClaimsAreBounded, [Next]_vars
             PROVE  ClaimsAreBounded'
  OBVIOUS
<1>1. ASSUME NEW w \in Workers, Ends(w), memory' = memory
      PROVE  ClaimsAreBounded'
  BY <1>1, NoNewClaims DEF Ends, Creating, Key, IdleTxn
<1>2. ASSUME NEW w \in Workers, Moves(w), Creating(w)' => Creating(w)
      PROVE  ClaimsAreBounded'
  BY <1>2, NoNewClaims DEF Moves, Creating, Key
<1>3. ASSUME NEW w \in Workers, Statement(w)
      PROVE  ClaimsAreBounded'
  <2>1. CASE NoReceiptFound(w)
    BY <2>1, NoNewClaims DEF NoReceiptFound, Goto, Creating, Key, tables, IInv, TypeOK, Txn
  <2>2. CASE SelectForUpdate(w)
    BY <2>2, NoNewClaims DEF SelectForUpdate, Creating, Key, AfterStore, tables, IInv, TypeOK, Txn
  <2>3. CASE CountFiles(w) /\ ~ Leave(w)
    BY <2>3, CountStep
  <2>4. CASE SumChars(w) /\ ~ Leave(w)
    BY <2>4, NoNewClaims DEF SumChars, Goto, Creating, Key, tables, IInv, TypeOK, Txn
  <2>5. CASE (CreateRow(w) \/ UpdateRow(w) \/ DeleteRow(w) \/ Record(w)) /\ ~ Leave(w)
    <3>1. Creating(w)' => Creating(w)
      BY <2>5, MovesAfter DEF Moves, Creating
    <3>2. QED
      BY <2>5, <3>1, <1>2, MovesAfter
  <2>6. CASE Commit(w)
    <3>1. Ends(w) /\ memory' = MemoryAfter(w) /\ txn[w].pc = "commit"
      BY <2>6, CommitEnds DEF Commit
    <3>2. txn[w].kind = "write" => memory[Key(w)] # NoRow \/ Creating(w)
      BY <2>6, <3>1, CommitFinds DEF Creating
    <3>3. \A k \in Keys : memory'[k] # NoRow =>
            memory[k] # NoRow \/ \E x \in Workers : Creating(x) /\ Key(x) = k
      BY <3>1, <3>2 DEF MemoryAfter, IInv, TypeOK
    <3>4. \A x \in Workers : Creating(x)' => Creating(x) /\ Key(x)' = Key(x)
      BY <3>1 DEF Ends, Creating, Key, IdleTxn
    <3>5. QED
      BY <3>3, <3>4, NoNewClaims
  <2>7. QED
    BY <1>1, <1>3, <2>1, <2>2, <2>3, <2>4, <2>5, <2>6, StatementCases, EndsQuietly
<1>4. ASSUME NEW w \in Workers, Call(w)
      PROVE  ClaimsAreBounded'
  BY <1>4, CallOf, NoNewClaims DEF Creating, Key
<1>5. ASSUME NEW w \in Workers, Abort(w)
      PROVE  ClaimsAreBounded'
  BY <1>1, <1>5, EndsQuietly
<1>6. CASE UNCHANGED <<memory, txn>>
  BY <1>6, NoNewClaims DEF Creating, Key
<1>7. ASSUME NEW o \in Owners, PurgeRows(o)
      PROVE  ClaimsAreBounded'
  BY <1>7, NoNewClaims DEF PurgeRows, Creating, Key
<1>8. (\E w \in Workers : UnpersistedWrite(w)) \/ (\E o \in Owners : PurgeReceipts(o))
        \/ UNCHANGED vars => UNCHANGED <<memory, txn>>
  BY DEF UnpersistedWrite, PurgeReceipts, tables, vars
<1>9. QED
  BY <1>3, <1>4, <1>5, <1>6, <1>7, <1>8 DEF Next

\* Concurrent creates exceed the file ceiling by at most one file for each
\* worker but one.
THEOREM OvershootBound == Workers # {} => (Spec => []OvershootIsBounded)
<1> SUFFICES ASSUME Workers # {} PROVE Spec => []OvershootIsBounded
  OBVIOUS
<1>1. Cardinality(Workers) \in Nat \ {0}
  BY FS_CardinalityType, FS_EmptySet, FiniteAssumption
<1>2. Init => ClaimsAreBounded
  <2> SUFFICES ASSUME Init, NEW o \in Owners
               PROVE  Cardinality(Claimed(o)) <= MaxFiles + Cardinality(Workers) - 1
    BY DEF ClaimsAreBounded
  <2>1. Claimed(o) = {}
    BY DEF Init, Claimed, Creating, IdleTxn
  <2>2. QED
    BY <1>1, <2>1, FS_EmptySet, CeilingAssumption
<1>3. ClaimsAreBounded => OvershootIsBounded
  <2> SUFFICES ASSUME ClaimsAreBounded, NEW o \in Owners
               PROVE  Cardinality({k \in Keys : k[1] = o /\ memory[k] # NoRow})
                        <= MaxFiles + Cardinality(Workers) - 1
    BY DEF OvershootIsBounded
  <2> DEFINE held == {k \in Keys : k[1] = o /\ memory[k] # NoRow}
  <2>1. held \subseteq Claimed(o)
    BY DEF Claimed
  <2>2. Cardinality(held) <= Cardinality(Claimed(o)) /\ Cardinality(held) \in Nat
    BY <2>1, ClaimedFinite, FS_Subset, FS_CardinalityType
  <2>3. QED
    BY <1>1, <2>2, ClaimedFinite, CeilingAssumption DEF ClaimsAreBounded
<1>4. IInv /\ RInv /\ ClaimsAreBounded /\ [Next]_vars => ClaimsAreBounded'
  BY ClaimsStep
<1>5. QED
  BY <1>2, <1>3, <1>4, RInvariance, PTL DEF Spec

-----------------------------------------------------------------------------
(* Counting characters.  The model's sum is a fold, that is, a recursive   *)
(* function; what it computes is proved by taking a smallest set for which *)
(* a claim about it would be false.                                        *)

\* The fold of Chars picks a key, and goes on with the others.
Picked(s) == CHOOSE k \in s : TRUE
Chunk(rows, k) == Length[rows[k].content]
NextSum(f, s, rows) == IF s = {} THEN 0 ELSE Chunk(rows, Picked(s)) + f[s \ {Picked(s)}]

\* f gives the sum of each subset of S.
Sums(f, S, rows) == f = [s \in SUBSET S |-> NextSum(f, s, rows)]

Measured(rows, S) == IsFiniteSet(S) /\ \A k \in S : Chunk(rows, k) \in Nat

\* Among some subsets of a finite set one has no other below it: this stands
\* for induction, the sets of interest being those a claim fails for.
LEMMA LeastSet ==
  ASSUME NEW S, IsFiniteSet(S), NEW T \in SUBSET (SUBSET S), T # {}
  PROVE  \E s \in T : \A t \in T : t \subseteq s => t = s
<1>1. IsWellFoundedOn(StrictSubsetOrdering(S), SUBSET S)
  BY FS_StrictSubsetOrderingWellFounded, FS_FiniteSubsetsOfFinite
<1>2. PICK s \in T : \A t \in T : ~ (<<t, s>> \in StrictSubsetOrdering(S))
  BY <1>1, WFMin
<1>3. QED
  BY <1>2 DEF StrictSubsetOrdering

LEMMA LeastNumber ==
  ASSUME NEW T \in SUBSET Nat, T # {}
  PROVE  \E n \in T : \A m \in T : n <= m
<1>1. PICK n \in T : \A m \in T : ~ (<<m, n>> \in OpToRel(<, Nat))
  BY NatLessThanWellFounded, WFMin
<1>2. ASSUME NEW m \in T PROVE ~ (m < n)
  BY <1>1 DEF OpToRel
<1>3. QED
  BY <1>2

LEMMA PickedIsIn == ASSUME NEW s, s # {} PROVE Picked(s) \in s
BY DEF Picked

\* The recursion of the fold has a solution
LEMMA SumsExist ==
  ASSUME NEW rows, NEW S, Measured(rows, S)
  PROVE  \E f : Sums(f, S, rows)
<1> DEFINE Upto(n) == {s \in SUBSET S : Cardinality(s) <= n}
           Good(f, n) == f \in [SUBSET S -> Nat] /\ \A s \in Upto(n) : f[s] = NextSum(f, s, rows)
           Bad == {n \in Nat : ~ \E f : Good(f, n)}
<1>0. \A s \in SUBSET S : IsFiniteSet(s) /\ Cardinality(s) \in Nat /\ Cardinality(s) <= Cardinality(S)
  BY FS_Subset, FS_CardinalityType DEF Measured
<1>1. \A s \in SUBSET S : s # {} =>
        /\ Picked(s) \in S /\ s \ {Picked(s)} \in SUBSET S
        /\ Cardinality(s \ {Picked(s)}) = Cardinality(s) - 1
        /\ Cardinality(s) # 0
  BY <1>0, PickedIsIn, FS_RemoveElement, FS_EmptySet
<1>2. ASSUME NEW f, f \in [SUBSET S -> Nat], NEW s \in SUBSET S
      PROVE  NextSum(f, s, rows) \in Nat
  BY <1>1, <1>2 DEF NextSum, Measured
<1>3. Bad = {}
  <2> SUFFICES ASSUME Bad # {} PROVE FALSE
    OBVIOUS
  <2>0. Bad \in SUBSET Nat
    OBVIOUS
  <2>1. PICK n \in Bad : \A m \in Bad : n <= m
    <3> HIDE DEF Bad
    <3>1. QED
      BY <2>0, LeastNumber
  <2>2. CASE n = 0
    <3> DEFINE zero == [s \in SUBSET S |-> 0]
    <3>1. ASSUME NEW s \in Upto(0) PROVE zero[s] = NextSum(zero, s, rows)
      <4>1. Cardinality(s) = 0
        BY <1>0
      <4>2. s = {}
        BY <4>1, <1>1
      <4>3. QED
        BY <4>2 DEF NextSum
    <3>2. zero \in [SUBSET S -> Nat]
      OBVIOUS
    <3>3. Good(zero, 0)
      BY <3>1, <3>2
    <3> HIDE DEF Good
    <3>4. QED
      BY <3>3, <2>1, <2>2
  <2>3. CASE n # 0
    <3>1. n - 1 \in Nat /\ n - 1 \notin Bad
      <4> HIDE DEF Bad
      <4>1. QED
        BY <2>0, <2>1, <2>3
    <3>2. PICK f : Good(f, n - 1)
      BY <3>1
    <3> DEFINE g == [s \in SUBSET S |-> NextSum(f, s, rows)]
    <3>3. g \in [SUBSET S -> Nat]
      BY <1>2, <3>2
    <3>4. ASSUME NEW s \in Upto(n) PROVE g[s] = NextSum(g, s, rows)
      <4>1. CASE s = {}
        BY <4>1 DEF NextSum
      <4>2. CASE s # {}
        <5>1. s \ {Picked(s)} \in Upto(n - 1)
          BY <4>2, <1>0, <1>1, <3>1
        <5>2. g[s \ {Picked(s)}] = f[s \ {Picked(s)}]
          BY <5>1, <3>2
        <5>3. QED
          BY <5>2, <4>2 DEF NextSum
      <4>3. QED BY <4>1, <4>2
    <3>5. Good(g, n)
      BY <3>3, <3>4
    <3>6. QED
      BY <3>5, <2>1
  <2>4. QED
    BY <2>2, <2>3
<1>4. PICK f : Good(f, Cardinality(S))
  BY <1>3, FS_CardinalityType DEF Measured
<1>5. f = [s \in SUBSET S |-> NextSum(f, s, rows)]
  BY <1>4, <1>0
<1>6. QED
  BY <1>5 DEF Sums

LEMMA CharsIsASum ==
  ASSUME NEW rows, NEW S, Measured(rows, S)
  PROVE  \E f : Sums(f, S, rows) /\ Chars(rows, S) = f[S]
<1>1. Chars(rows, S) = (CHOOSE f : Sums(f, S, rows))[S]
  BY DEF Chars, MapThenSumSet, MapThenFoldSet, Sums, NextSum, Picked, Chunk
<1>2. Sums(CHOOSE f : Sums(f, S, rows), S, rows)
  BY SumsExist
<1>3. QED
  BY <1>1, <1>2

LEMMA SumsAreNumbers ==
  ASSUME NEW rows, NEW S, Measured(rows, S), NEW f, Sums(f, S, rows)
  PROVE  \A s \in SUBSET S : f[s] \in Nat
<1> DEFINE Bad == {s \in SUBSET S : f[s] \notin Nat}
<1> SUFFICES ASSUME Bad # {} PROVE FALSE
  OBVIOUS
<1>0. Bad \in SUBSET (SUBSET S)
  OBVIOUS
<1>1. PICK s \in Bad : \A t \in Bad : t \subseteq s => t = s
  <2> HIDE DEF Bad
  <2>1. QED
    BY <1>0, LeastSet DEF Measured
<1>2. f[s] = NextSum(f, s, rows)
  BY DEF Sums
<1>3. s # {}
  BY <1>1, <1>2 DEF NextSum
<1>4. f[s \ {Picked(s)}] \in Nat
  BY <1>1, <1>3, PickedIsIn
<1>5. QED
  BY <1>1, <1>2, <1>3, <1>4, PickedIsIn DEF NextSum, Measured

\* Any key may be taken first.
LEMMA SumsInAnyOrder ==
  ASSUME NEW rows, NEW S, Measured(rows, S), NEW f, Sums(f, S, rows)
  PROVE  \A s \in SUBSET S : \A k \in s : f[s] = Chunk(rows, k) + f[s \ {k}]
<1> DEFINE Bad == {s \in SUBSET S : \E k \in s : f[s] # Chunk(rows, k) + f[s \ {k}]}
<1> SUFFICES ASSUME Bad # {} PROVE FALSE
  OBVIOUS
<1>0. Bad \in SUBSET (SUBSET S)
  OBVIOUS
<1>1. PICK s \in Bad : \A t \in Bad : t \subseteq s => t = s
  <2> HIDE DEF Bad
  <2>1. QED
    BY <1>0, LeastSet DEF Measured
<1>2. PICK k \in s : f[s] # Chunk(rows, k) + f[s \ {k}]
  BY <1>1
<1> DEFINE c == Picked(s)
<1>3. c \in s /\ f[s] = Chunk(rows, c) + f[s \ {c}]
  BY <1>2, PickedIsIn DEF Sums, NextSum
<1>4. k # c
  BY <1>2, <1>3
<1>5. s \ {c} \notin Bad /\ s \ {k} \notin Bad
  BY <1>1, <1>3, <1>2
<1>6. f[s \ {c}] = Chunk(rows, k) + f[(s \ {c}) \ {k}]
  BY <1>5, <1>4, <1>2
<1>7. f[s \ {k}] = Chunk(rows, c) + f[(s \ {k}) \ {c}]
  BY <1>5, <1>4, <1>3
<1>8. (s \ {c}) \ {k} = (s \ {k}) \ {c}
  OBVIOUS
<1>9. f[(s \ {k}) \ {c}] \in Nat /\ Chunk(rows, k) \in Nat /\ Chunk(rows, c) \in Nat
  BY SumsAreNumbers, <1>2, <1>3 DEF Measured
<1>10. f[s] = Chunk(rows, c) + (Chunk(rows, k) + f[(s \ {k}) \ {c}])
  BY <1>3, <1>6, <1>8, Zenon
<1>11. f[s] = Chunk(rows, k) + (Chunk(rows, c) + f[(s \ {k}) \ {c}])
  BY <1>10, <1>9
<1>12. QED
  BY <1>2, <1>7, <1>11, Zenon

\* Sums are of the keys' own rows.
LEMMA SumsAgree ==
  ASSUME NEW rows, NEW S, Measured(rows, S), NEW f, Sums(f, S, rows),
         NEW others, NEW T, S \subseteq T, NEW g, Sums(g, T, others),
         \A k \in S : Chunk(others, k) = Chunk(rows, k)
  PROVE  \A s \in SUBSET S : f[s] = g[s]
<1> DEFINE Bad == {s \in SUBSET S : f[s] # g[s]}
<1> SUFFICES ASSUME Bad # {} PROVE FALSE
  OBVIOUS
<1>0. Bad \in SUBSET (SUBSET S)
  OBVIOUS
<1>1. PICK s \in Bad : \A t \in Bad : t \subseteq s => t = s
  <2> HIDE DEF Bad
  <2>1. QED
    BY <1>0, LeastSet DEF Measured
<1>2. f[s] = NextSum(f, s, rows) /\ g[s] = NextSum(g, s, others)
  BY DEF Sums
<1>3. s # {}
  BY <1>1, <1>2 DEF NextSum
<1>4. f[s \ {Picked(s)}] = g[s \ {Picked(s)}]
  BY <1>1, <1>3, PickedIsIn
<1>5. Chunk(others, Picked(s)) = Chunk(rows, Picked(s))
  BY <1>3, PickedIsIn
<1>6. QED
  BY <1>1, <1>2, <1>3, <1>4, <1>5 DEF NextSum

\* What a count of characters depends on, and what one more file adds to it.
LEMMA CharsSame ==
  ASSUME NEW rows, NEW others, NEW S, Measured(rows, S),
         \A k \in S : others[k] = rows[k]
  PROVE  Chars(others, S) = Chars(rows, S) /\ Chars(rows, S) \in Nat
<1>1. Measured(others, S) /\ \A k \in S : Chunk(others, k) = Chunk(rows, k)
  BY DEF Measured, Chunk
<1>2. PICK f : Sums(f, S, rows) /\ Chars(rows, S) = f[S]
  BY CharsIsASum
<1>3. PICK g : Sums(g, S, others) /\ Chars(others, S) = g[S]
  BY CharsIsASum, <1>1
<1>4. f[S] = g[S] /\ f[S] \in Nat
  <2>1. \A s \in SUBSET S : f[s] = g[s]
    BY SumsAgree, <1>1, <1>2, <1>3
  <2>2. \A s \in SUBSET S : f[s] \in Nat
    BY SumsAreNumbers, <1>2
  <2>3. S \in SUBSET S
    OBVIOUS
  <2>. QED BY <2>1, <2>2, <2>3
<1>5. QED
  BY <1>2, <1>3, <1>4

LEMMA CharsAdd ==
  ASSUME NEW rows, NEW S, NEW k, k \notin S, Measured(rows, S \cup {k})
  PROVE  Chars(rows, S \cup {k}) = Chars(rows, S) + Chunk(rows, k)
<1> DEFINE T == S \cup {k}
<1>1. Measured(rows, S) /\ (T \ {k}) = S /\ S \in SUBSET T /\ T \in SUBSET T /\ S \in SUBSET S
  BY FS_Subset DEF Measured
<1>2. PICK f : Sums(f, T, rows) /\ Chars(rows, T) = f[T]
  BY CharsIsASum
<1>3. PICK g : Sums(g, S, rows) /\ Chars(rows, S) = g[S]
  BY CharsIsASum, <1>1
<1>4. \A s \in SUBSET S : g[s] = f[s]
  BY SumsAgree, <1>1, <1>2, <1>3
<1>5. f[T] = Chunk(rows, k) + f[T \ {k}]
  BY SumsInAnyOrder, <1>2, <1>1
<1>6. f[S] \in Nat /\ Chunk(rows, k) \in Nat
  BY SumsAreNumbers, <1>1, <1>2 DEF Measured
<1>7. Chars(rows, T) = Chunk(rows, k) + f[S]
  BY <1>1, <1>2, <1>5
<1>8. Chars(rows, S) = f[S]
  BY <1>1, <1>3, <1>4
<1>9. QED
  BY <1>6, <1>7, <1>8

LEMMA CharsNone == ASSUME NEW rows PROVE Chars(rows, {}) = 0
<1>1. Measured(rows, {})
  BY FS_EmptySet DEF Measured
<1>2. QED
  BY <1>1, CharsIsASum DEF Sums, NextSum

-----------------------------------------------------------------------------
(* One caller at a time.                                                   *)

\* At most one worker is ever let in.
OneCaller ==
  \A v, w \in Workers :
    (\E p \in Paths : Owner(v, p) # NoOwner) /\ (\E p \in Paths : Owner(w, p) # NoOwner) => v = w

Held(o) == {k \in Keys : k[1] = o /\ memory[k] # NoRow}

\* What the two checks have established still holds when the call commits.
Fits ==
  \A w \in Workers :
    txn[w].kind = "write" =>
      /\ (txn[w].row = NoRow /\ txn[w].pc \in {"sum", "store", "record", "commit"}) =>
           Cardinality(Others(w)) + 1 <= MaxFiles
      /\ txn[w].pc \in {"store", "record", "commit"} =>
           Chars(memory, Others(w)) + Length[Escape[txn[w].content]] <= MaxTotalChars

\* Two calls are never under way.
LEMMA CallersMeet ==
  ASSUME OneCaller, IInv, RInv,
         NEW v \in Workers, NEW w \in Workers, txn[v].pc # "idle", txn[w].pc # "idle"
  PROVE  v = w
<1>1. \A x \in {v, w} : txn[x].path \in Paths /\ Owner(x, txn[x].path) # NoOwner
  BY SentinelAssumption DEF IInv, LocalsOK, TxnOK, RInv, OwnersMatch
<1>2. QED
  BY <1>1 DEF OneCaller

\* Stored files are finitely many, and their lengths numbers.
LEMMA FilesAreMeasured ==
  ASSUME TypeOK, NEW S \in SUBSET Keys, \A k \in S : memory[k] # NoRow
  PROVE  Measured(memory, S) /\ Cardinality(S) \in Nat
<1>1. IsFiniteSet(Keys)
  BY FS_Product, FiniteAssumption DEF Keys
<1>2. IsFiniteSet(S) /\ Cardinality(S) \in Nat
  BY <1>1, FS_Subset, FS_CardinalityType
<1>3. \A k \in S : memory[k].content \in Contents
  BY DEF TypeOK, Row
<1>4. QED
  BY <1>2, <1>3, CeilingAssumption DEF Measured, Chunk

\* A step that leaves the files as they are, and w where the checks put it.
LEMMA FitsStep ==
  ASSUME Fits, WithinCeilings, NEW w \in Workers, memory' = memory,
         \A x \in Workers \ {w} : txn'[x] = txn[x],
         txn'[w].kind = "write" /\ txn'[w].row = NoRow
           /\ txn'[w].pc \in {"sum", "store", "record", "commit"} =>
             Cardinality(Others(w)') + 1 <= MaxFiles,
         txn'[w].kind = "write" /\ txn'[w].pc \in {"store", "record", "commit"} =>
             Chars(memory', Others(w)') + Length[Escape[txn'[w].content]] <= MaxTotalChars
  PROVE  Fits' /\ WithinCeilings'
<1>1. \A x \in Workers \ {w} : Others(x)' = Others(x)
  BY DEF Others, Key
<1>2. WithinCeilings'
  BY DEF WithinCeilings
<1>3. Fits'
  BY <1>1 DEF Fits
<1>4. QED
  BY <1>2, <1>3

\* The statements before the commit: the two checks, and those that keep what
\* they established.
LEMMA CheckStep ==
  ASSUME IInv, RInv, Fits, WithinCeilings, NEW w \in Workers, Moves(w), Statement(w)
  PROVE  Fits' /\ WithinCeilings'
<1>1. Others(w)' = Others(w) /\ memory' = memory /\ txn'[w].content = txn[w].content
      /\ txn'[w].kind = txn[w].kind /\ \A x \in Workers \ {w} : txn'[x] = txn[x]
  BY DEF Moves, Others, Key
<1>2. txn[w] \in Txn /\ txn'[w].pc # "idle" /\ txn \in [Workers -> Txn]
  BY DEF IInv, TypeOK, Moves
<1>3. /\ txn'[w].kind = "write" /\ txn'[w].row = NoRow
           /\ txn'[w].pc \in {"sum", "store", "record", "commit"} =>
             Cardinality(Others(w)) + 1 <= MaxFiles
      /\ txn'[w].kind = "write" /\ txn'[w].pc \in {"store", "record", "commit"} =>
             Chars(memory, Others(w)) + Length[Escape[txn[w].content]] <= MaxTotalChars
  <2>1. CASE NoReceiptFound(w)
    BY <2>1, <1>2 DEF NoReceiptFound, Goto, Txn
  <2>2. CASE SelectForUpdate(w)
    BY <2>2, <1>1, <1>2 DEF SelectForUpdate, Txn
  <2>3. CASE CountFiles(w) /\ ~ Leave(w)
    <3>1. ~ FileTooMany(w) /\ txn'[w].pc = "sum"
      BY <2>3, <1>2 DEF CountFiles, Goto, Txn
    <3>2. Others(w) \in SUBSET Keys /\ \A k \in Others(w) : memory[k] # NoRow
      BY DEF Others
    <3>3. Cardinality(Others(w)) \in Nat
      BY <3>2, FilesAreMeasured DEF IInv
    <3>4. QED
      BY <3>1, <3>3, CeilingAssumption DEF FileTooMany
  <2>4. CASE SumChars(w) /\ ~ Leave(w)
    <3>1. ~ TotalTooLong(w) /\ txn[w].pc = "sum" /\ txn'[w].row = txn[w].row
      BY <2>4, <1>2 DEF SumChars, Goto, Txn
    <3>2. Others(w) \in SUBSET Keys /\ \A k \in Others(w) : memory[k] # NoRow
      BY DEF Others
    <3>3. Chars(memory, Others(w)) \in Nat
      BY <3>2, FilesAreMeasured, CharsSame DEF IInv
    <3>4. txn[w].kind = "write" => txn[w].content \in Contents
      BY <3>1 DEF IInv, LocalsOK, TxnOK
    <3>5. txn[w].kind = "write" => Length[Escape[txn[w].content]] \in Nat
      BY <3>4, CeilingAssumption
    <3>6. txn[w].kind = "write" =>
            Chars(memory, Others(w)) + Length[Escape[txn[w].content]] <= MaxTotalChars
      BY <3>1, <3>3, <3>5, CeilingAssumption DEF TotalTooLong
    <3>7. QED
      BY <3>1, <3>6, <1>1 DEF Fits
  <2>5. CASE (CreateRow(w) \/ UpdateRow(w) \/ DeleteRow(w) \/ Record(w)) /\ ~ Leave(w)
    <3>1. txn[w].pc \in {"store", "record"} /\ txn'[w].row = txn[w].row
      BY <2>5, <1>2 DEF CreateRow, UpdateRow, DeleteRow, Record, Goto, Txn
    <3>2. QED
      BY <3>1, <1>1 DEF Fits
  <2>6. ~ Ends(w)
    BY DEF Ends, Moves, IdleTxn
  <2>7. QED
    BY <2>1, <2>2, <2>3, <2>4, <2>5, <2>6, StatementCases, EndsQuietly, CommitEnds
<1>4. QED
  BY <1>1, <1>3, FitsStep

\* A commit, the one step that adds files and characters.
LEMMA CommitFits ==
  ASSUME OneCaller, IInv, RInv, Fits, WithinCeilings, NEW w \in Workers, Commit(w)
  PROVE  Fits' /\ WithinCeilings'
<1>0. PICK o \in Owners : o = txn[w].owner
  BY DEF Commit, IInv, LocalsOK, TxnOK
<1> DEFINE K == Key(w)
           R == Others(w)
<1>1. /\ Ends(w) /\ memory' = MemoryAfter(w) /\ txn[w].pc = "commit"
      /\ K \in Keys /\ K[1] = o
  BY <1>0, CommitEnds DEF Commit, IInv, LocalsOK, TxnOK, Key, Keys
<1>2. Fits'
  BY <1>1, CallersMeet DEF Fits, Ends, IdleTxn
<1>3. R \in SUBSET Keys /\ K \notin R /\ \A k \in R : memory[k] # NoRow
  BY DEF Others
<1>4. Measured(memory, R) /\ Cardinality(R) \in Nat
  BY <1>3, FilesAreMeasured DEF IInv
<1>5. \A k \in Keys \ {K} : memory'[k] = memory[k]
  BY <1>1 DEF MemoryAfter, IInv, TypeOK
<1>6. Chars(memory', R) = Chars(memory, R) /\ Chars(memory, R) \in Nat
  BY <1>3, <1>4, <1>5, CharsSame
<1>7. ASSUME NEW q \in Owners, q # o
      PROVE  Cardinality(Held(q)') <= MaxFiles /\ Chars(memory', Held(q)') <= MaxTotalChars
  <2>1. Held(q)' = Held(q) /\ \A k \in Held(q) : memory'[k] = memory[k]
    BY <1>1, <1>5, <1>7 DEF Held
  <2>2. Measured(memory, Held(q))
    BY FilesAreMeasured DEF Held, IInv
  <2>3. Chars(memory', Held(q)) = Chars(memory, Held(q))
    BY <2>1, <2>2, CharsSame
  <2>4. QED
    BY <2>1, <2>3 DEF WithinCeilings, Held
<1>8. Cardinality(Held(o)) <= MaxFiles /\ Chars(memory, Held(o)) <= MaxTotalChars
  BY <1>1 DEF WithinCeilings, Held
<1>9. txn[w].row # NoRow => Held(o) = R \cup {K}
  BY <1>0, <1>1, <1>3 DEF Held, Others, IInv, Core, LockedRowIsCurrent
<1>10. IsFiniteSet(R) /\ Cardinality(R \cup {K}) = Cardinality(R) + 1
  BY <1>3, <1>4, FS_AddElement DEF Measured
<1>11. CASE txn[w].kind = "write"
  <2>1. memory'[K] = [content |-> Escape[txn[w].content], version |-> txn[w].version, op |-> txn[w].op]
    BY <1>1, <1>11 DEF MemoryAfter, IInv, TypeOK
  <2>2. txn[w].content \in Contents
    BY <1>1, <1>11 DEF IInv, LocalsOK, TxnOK
  <2>3. Chunk(memory', K) = Length[Escape[txn[w].content]] /\ Chunk(memory', K) \in Nat
    BY <2>1, <2>2, CeilingAssumption DEF Chunk
  <2>4. memory'[K] # NoRow
    BY <1>1, <1>11, <2>1, <2>2, SentinelAssumption, CeilingAssumption
       DEF IInv, TypeOK, Txn, Row
  <2>5. Held(o)' = R \cup {K}
    BY <1>0, <1>1, <1>3, <1>5, <2>4 DEF Held, Others
  <2>6. Cardinality(R \cup {K}) <= MaxFiles
    BY <1>1, <1>8, <1>9, <1>10, <1>11 DEF Fits
  <2>7. Measured(memory', R \cup {K})
    BY <1>3, <1>4, <1>5, <1>10, <2>3, FS_AddElement DEF Measured, Chunk
  <2>8. Chars(memory', R \cup {K}) = Chars(memory', R) + Chunk(memory', K)
    BY <1>3, <2>7, CharsAdd
  <2>9. Chars(memory', R \cup {K}) <= MaxTotalChars
    BY <1>1, <1>6, <1>11, <2>3, <2>8 DEF Fits
  <2>10. QED
    BY <1>2, <1>7, <2>5, <2>6, <2>9 DEF WithinCeilings, Held
<1>12. CASE txn[w].kind # "write" /\ txn[w].row # NoRow
  <2>1. memory'[K] = NoRow
    BY <1>1, <1>12 DEF MemoryAfter, IInv, TypeOK
  <2>2. Held(o)' = R
    BY <1>0, <1>1, <1>3, <1>5, <2>1 DEF Held, Others
  <2>3. Measured(memory, R \cup {K})
    BY <1>9, <1>12, FilesAreMeasured DEF Held, IInv
  <2>4. Chars(memory, R \cup {K}) = Chars(memory, R) + Chunk(memory, K) /\ Chunk(memory, K) \in Nat
    BY <1>3, <2>3, CharsAdd DEF Measured
  <2>5. Cardinality(R) + 1 <= MaxFiles /\ Chars(memory, R) + Chunk(memory, K) <= MaxTotalChars
    BY <1>8, <1>9, <1>10, <1>12, <2>4, Zenon
  <2>6. Cardinality(R) <= MaxFiles /\ Chars(memory', R) <= MaxTotalChars
    BY <1>4, <1>6, <2>4, <2>5, CeilingAssumption
  <2>7. QED
    BY <1>2, <1>7, <2>2, <2>6 DEF WithinCeilings, Held
<1>13. CASE txn[w].kind # "write" /\ txn[w].row = NoRow
  <2>1. memory' = memory
    BY <1>1, <1>13 DEF MemoryAfter
  <2>2. QED
    BY <1>2, <2>1 DEF WithinCeilings
<1>14. QED
  BY <1>11, <1>12, <1>13

\* A purge only takes files away.
LEMMA PurgeFits ==
  ASSUME IInv, Fits, WithinCeilings, NEW o \in Owners, PurgeRows(o)
  PROVE  Fits' /\ WithinCeilings'
<1>1. /\ memory' = [k \in Keys |-> IF k[1] = o THEN NoRow ELSE memory[k]]
      /\ txn' = txn
  BY DEF PurgeRows, history
<1>2. \A S \in SUBSET Keys :
        (\A k \in S : memory[k] # NoRow /\ k[1] # o) => Chars(memory', S) = Chars(memory, S)
  <2> SUFFICES ASSUME NEW S \in SUBSET Keys, \A k \in S : memory[k] # NoRow /\ k[1] # o
               PROVE  Chars(memory', S) = Chars(memory, S)
    OBVIOUS
  <2>1. Measured(memory, S) /\ \A k \in S : memory'[k] = memory[k]
    BY <1>1, FilesAreMeasured DEF IInv
  <2>2. QED
    BY <2>1, CharsSame
<1>3. WithinCeilings'
  <2> SUFFICES ASSUME NEW q \in Owners
               PROVE  Cardinality(Held(q)') <= MaxFiles /\ Chars(memory', Held(q)') <= MaxTotalChars
    BY DEF WithinCeilings, Held
  <2>1. CASE q = o
    <3>1. Held(q)' = {}
      BY <1>1, <2>1 DEF Held
    <3>2. QED
      BY <3>1, CharsNone, FS_EmptySet, CeilingAssumption
  <2>2. CASE q # o
    <3>1. Held(q)' = Held(q)
      BY <1>1, <2>2 DEF Held
    <3>2. Chars(memory', Held(q)) = Chars(memory, Held(q))
      BY <1>2, <2>2 DEF Held
    <3>3. QED
      BY <3>1, <3>2 DEF WithinCeilings, Held
  <2>3. QED
    BY <2>1, <2>2
<1>4. Fits'
  <2> SUFFICES ASSUME NEW w \in Workers, txn[w].kind = "write"
               PROVE  /\ (txn[w].row = NoRow /\ txn[w].pc \in {"sum", "store", "record", "commit"}) =>
                           Cardinality(Others(w)') + 1 <= MaxFiles
                      /\ txn[w].pc \in {"store", "record", "commit"} =>
                           Chars(memory', Others(w)') + Length[Escape[txn[w].content]] <= MaxTotalChars
    BY <1>1 DEF Fits
  <2>1. CASE txn[w].owner = o
    <3>1. Others(w)' = {}
      BY <1>1, <2>1 DEF Others, Key
    <3>2. Measured(memory, Others(w)) /\ Cardinality(Others(w)) \in Nat
      BY FilesAreMeasured DEF Others, IInv
    <3>3. Chars(memory, Others(w)) \in Nat
      BY <3>2, CharsSame
    <3>4. Chars(memory', {}) = 0 /\ Cardinality({}) = 0
      BY CharsNone, FS_EmptySet
    <3>5. txn[w].pc \in {"store", "record", "commit"} => Length[Escape[txn[w].content]] \in Nat
      BY CeilingAssumption DEF IInv, LocalsOK, TxnOK
    <3>6. QED
      BY <3>1, <3>2, <3>3, <3>4, <3>5, CeilingAssumption DEF Fits
  <2>2. CASE txn[w].owner # o
    <3>1. Others(w)' = Others(w)
      BY <1>1, <2>2 DEF Others, Key
    <3>2. Chars(memory', Others(w)) = Chars(memory, Others(w))
      BY <1>2, <2>2 DEF Others
    <3>3. QED
      BY <3>1, <3>2 DEF Fits
  <2>3. QED
    BY <2>1, <2>2
<1>5. QED
  BY <1>3, <1>4

\* Every step of a store with one caller.
LEMMA CeilingsStep ==
  ASSUME OneCaller, IInv, RInv, Fits, WithinCeilings, [Next]_vars
  PROVE  Fits' /\ WithinCeilings'
<1>1. ASSUME NEW w \in Workers, Ends(w), memory' = memory
      PROVE  Fits' /\ WithinCeilings'
  BY <1>1, FitsStep DEF Ends, IdleTxn
<1>2. ASSUME NEW w \in Workers, Statement(w)
      PROVE  Fits' /\ WithinCeilings'
  BY <1>1, <1>2, CheckStep, CommitFits, StatementKinds, EndsQuietly
<1>3. ASSUME NEW w \in Workers, Call(w)
      PROVE  Fits' /\ WithinCeilings'
  BY <1>3, CallOf, FitsStep
<1>4. ASSUME NEW w \in Workers, Abort(w)
      PROVE  Fits' /\ WithinCeilings'
  BY <1>1, <1>4, EndsQuietly
<1>5. CASE UNCHANGED <<memory, txn>>
  BY <1>5 DEF Fits, WithinCeilings, Others, Key
<1>6. (\E w \in Workers : UnpersistedWrite(w)) \/ (\E o \in Owners : PurgeReceipts(o))
        \/ UNCHANGED vars => UNCHANGED <<memory, txn>>
  BY DEF UnpersistedWrite, PurgeReceipts, tables, vars
<1>7. QED
  BY <1>2, <1>3, <1>4, <1>5, <1>6, PurgeFits DEF Next

\* One caller at a time never holds more than max_files files, nor more than
\* max_total_chars characters as they are stored; _check_ceilings counts the
\* content after it is escaped.
THEOREM CeilingsHold == ASSUME OneCaller PROVE Spec => []WithinCeilings
<1>1. Init => Fits /\ WithinCeilings
  <2> SUFFICES ASSUME Init PROVE Fits /\ WithinCeilings
    OBVIOUS
  <2>1. Fits
    BY DEF Init, Fits, IdleTxn
  <2>2. \A o \in Owners : {k \in Keys : k[1] = o /\ memory[k] # NoRow} = {}
    BY DEF Init
  <2>3. QED
    BY <2>1, <2>2, CharsNone, FS_EmptySet, CeilingAssumption DEF WithinCeilings
<1>2. (IInv /\ RInv) /\ (Fits /\ WithinCeilings) /\ [Next]_vars => (Fits /\ WithinCeilings)'
  BY CeilingsStep
<1>3. QED
  BY <1>1, <1>2, RInvariance, PTL DEF Spec
=============================================================================
