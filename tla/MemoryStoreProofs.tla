------------------------- MODULE MemoryStoreProofs -------------------------
(***************************************************************************)
(* Proofs about MemoryStore, for any finite sets of workers, owners and    *)
(* paths, any contents and any ceilings.                                   *)
(***************************************************************************)
EXTENDS MemoryStoreProperties, TLAPS

-----------------------------------------------------------------------------
(* The inductive invariant.                                                *)

\* What each label of a call implies of the call's locals.
TxnOK(t) ==
  /\ t.pc = "idle" => t = IdleTxn
  /\ t.pc # "idle" =>
       /\ t.owner \in Owners /\ t.path \in Paths
       /\ t.kind = "write" => t.content \in Contents
  /\ t.pc \in {"receipt", "record"} => t.op # NoOp
  /\ t.pc \in {"receipt", "select", "count"} => t.row = NoRow
  /\ t.pc \in {"count", "sum"} => t.kind = "write"
  /\ (t.pc = "store" /\ t.kind = "delete") => t.row # NoRow
  /\ ~ (t.kind = "write" /\ t.pc \in {"record", "commit"}) => t.version = NoVersion

LocalsOK == \A w \in Workers : TxnOK(txn[w])

\* w has inserted a row and not committed it.
Inserting(w) ==
  txn[w].pc \in {"record", "commit"} /\ txn[w].kind = "write" /\ txn[w].row = NoRow

\* The key of an uncommitted insert is vacant, and nobody else is inserting it.
InsertsAreExclusive ==
  \A w \in Workers :
    Inserting(w) =>
      /\ memory[Key(w)] = NoRow
      /\ \A x \in Workers \ {w} : Inserting(x) => Key(x) # Key(w)

\* The same of the key of an uncommitted receipt.
ReceiptsAreExclusive ==
  \A w \in Workers :
    (txn[w].pc = "commit" /\ txn[w].op # NoOp) =>
      /\ receipts[OpKey(w)] = NoReceipt
      /\ \A x \in Workers \ {w} : ~ StagedReceipt(x, OpKey(w))

\* w holds a version it has written and not committed.
Minting(w) == txn[w].kind = "write" /\ txn[w].pc \in {"record", "commit"}

\* Uncommitted versions were drawn, are known to no caller, and differ.
PendingVersionsAreFresh ==
  /\ \A v \in shown : v <= minted
  /\ \A w \in Workers :
       Minting(w) =>
         /\ txn[w].version \in 1..minted
         /\ txn[w].version \notin shown
         /\ \A x \in Workers \ {w} : Minting(x) => txn[x].version # txn[w].version

\* Each answer given under an operation id is the one its receipt records.
AnswersAreRecorded ==
  \A a \in answers :
    /\ receipts[a.key] # NoReceipt
    /\ receipts[a.key].fingerprint = a.fingerprint
    /\ receipts[a.key].version = a.version

Core ==
  /\ LockedRowIsCurrent
  /\ InsertsAreExclusive
  /\ ReceiptsAreExclusive
  /\ PendingVersionsAreFresh
  /\ RowHasItsReceipt
  /\ AnswersAreRecorded

IInv == TypeOK /\ LocalsOK /\ Core

-----------------------------------------------------------------------------
(* Types.                                                                  *)

\* The idle record is a transaction record, and well formed.
LEMMA IdleOK == IdleTxn \in Txn /\ TxnOK(IdleTxn)
BY DEF IdleTxn, Txn, TxnOK, Pcs, Kinds, NoVersion

\* Before the first call all tables are empty and all workers idle.
LEMMA TypeInit == Init => TypeOK /\ LocalsOK
BY IdleOK DEF Init, TypeOK, LocalsOK

\* Every action keeps every variable in its type and every call's locals well
\* formed.
LEMMA TypeStep ==
  ASSUME TypeOK, LocalsOK, [Next]_vars
  PROVE  TypeOK' /\ LocalsOK'
<1> USE DEF TypeOK, LocalsOK, tables, history
<1>a. CASE UNCHANGED vars
  BY <1>a DEF vars
<1>b. ASSUME NEW w \in Workers, Call(w)
      PROVE  TypeOK' /\ LocalsOK'
  <2>1. PICK kind \in Kinds, p \in Paths, c \in Contents \cup {NoContent},
             e \in shown \cup {NoVersion}, op \in OpIds \cup {NoOp} :
           /\ (kind = "write") <=> (c # NoContent)
           /\ Owner(w, p) # NoOwner
           /\ txn' = [txn EXCEPT ![w] =
                [pc |-> IF op = NoOp THEN "select" ELSE "receipt",
                 kind |-> kind, owner |-> Owner(w, p), path |-> p, content |-> c,
                 expected |-> e, op |-> op, row |-> NoRow, version |-> NoVersion]]
    BY <1>b DEF Call
  <2> DEFINE t == [pc |-> IF op = NoOp THEN "select" ELSE "receipt",
                   kind |-> kind, owner |-> Owner(w, p), path |-> p, content |-> c,
                   expected |-> e, op |-> op, row |-> NoRow, version |-> NoVersion]
  <2>2. Owner(w, p) \in Owners
    BY <2>1, ModeAssumption DEF Owner
  <2>3. e \in Nat /\ NoVersion \in Nat
    BY DEF NoVersion
  <2>4. t \in Txn
    BY <2>2, <2>3 DEF Txn, Pcs
  <2>5. TxnOK(t)
    BY <2>1, <2>2 DEF TxnOK
  <2>6. QED
    BY <1>b, <2>1, <2>4, <2>5 DEF Call
<1>c. ASSUME NEW w \in Workers, UnpersistedWrite(w)
      PROVE  TypeOK' /\ LocalsOK'
  BY <1>c DEF UnpersistedWrite
<1>d. ASSUME NEW w \in Workers,
             Leave(w), UNCHANGED <<memory, receipts, purging, shown>>, minted' \in Nat,
             answers' \subseteq [key : OpKeys, fingerprint : Fingerprints, version : Nat]
      PROVE  TypeOK' /\ LocalsOK'
  BY <1>d, IdleOK DEF Leave
<1>e. ASSUME NEW w \in Workers, Replay(w)
      PROVE  TypeOK' /\ LocalsOK'
  <2>1. OpKey(w) \in OpKeys /\ Fingerprint(w) \in Fingerprints
    BY <1>e DEF Replay, OpKey, OpKeys, Fingerprint, Fingerprints, Txn, TxnOK
  <2>2. receipts[OpKey(w)].version \in Nat
    BY <1>e, <2>1 DEF Replay, Receipt
  <2>3. QED
    BY <1>d, <1>e, <2>1, <2>2 DEF Replay
<1>f. ASSUME NEW w \in Workers, RefuseReusedId(w) \/ RefuseStale(w) \/ Abort(w)
      PROVE  TypeOK' /\ LocalsOK'
  BY <1>d, <1>f DEF RefuseReusedId, RefuseStale, Abort
<1>g. ASSUME NEW w \in Workers, NoReceiptFound(w)
      PROVE  TypeOK' /\ LocalsOK'
  BY <1>g DEF NoReceiptFound, Goto, Txn, TxnOK, Pcs
<1>h. ASSUME NEW w \in Workers, SelectForUpdate(w)
      PROVE  TypeOK' /\ LocalsOK'
  <2>1. Key(w) \in Keys
    BY <1>h DEF SelectForUpdate, Key, Keys, Txn, TxnOK
  <2> DEFINE row == memory[Key(w)]
             next == IF txn[w].kind = "delete"
                     THEN IF row = NoRow THEN AfterStore(w) ELSE "store"
                     ELSE IF row = NoRow THEN "count" ELSE "sum"
             t == [txn[w] EXCEPT !.pc = next, !.row = row]
  <2>2. row \in Row \cup {NoRow}
    BY <2>1
  <2>3. txn' = [txn EXCEPT ![w] = t]
    <3>1. txn' = [txn EXCEPT ![w].pc = next, ![w].row = row]
      BY <1>h DEF SelectForUpdate
    <3>2. txn \in [Workers -> Txn]
      OBVIOUS
    <3> HIDE DEF next, row
    <3>3. QED
      BY <3>1, <3>2
  <2>4. /\ next \in {"count", "sum", "store", "record", "commit"}
        /\ next = "record" => txn[w].op # NoOp
        /\ next = "count" => row = NoRow
        /\ next \in {"count", "sum"} => txn[w].kind = "write"
        /\ txn[w].kind = "write" => next \in {"count", "sum"}
        /\ (next = "store" /\ txn[w].kind = "delete") => row # NoRow
    BY <1>h DEF SelectForUpdate, AfterStore, Txn, Kinds
  <2> HIDE DEF next, row
  <2>5. t \in Txn
    <3> DEFINE moved == [txn[w] EXCEPT !.pc = next]
    <3>1. moved \in Txn
      BY <2>4 DEF Txn, Pcs
    <3>2. t = [moved EXCEPT !.row = row]
      OBVIOUS
    <3> HIDE DEF moved, t
    <3>3. QED
      BY <2>2, <3>1, <3>2 DEF Txn
  <2>6. TxnOK(t)
    BY <1>h, <2>4 DEF SelectForUpdate, TxnOK, Txn, NoVersion
  <2>7. UNCHANGED <<memory, receipts, purging, minted, shown, answers>>
    BY <1>h DEF SelectForUpdate, tables, history
  <2>8. QED
    BY <2>3, <2>5, <2>6, <2>7
<1>i. ASSUME NEW w \in Workers, CountFiles(w) \/ SumChars(w)
      PROVE  TypeOK' /\ LocalsOK'
  <2>1. CASE Leave(w)
    BY <1>d, <1>i, <2>1 DEF CountFiles, SumChars
  <2>2. CASE ~ Leave(w)
    BY <1>i, <2>2 DEF CountFiles, SumChars, Goto, Txn, TxnOK, Pcs, Kinds
  <2>3. QED
    BY <2>1, <2>2
<1>j. ASSUME NEW w \in Workers, CreateRow(w) \/ UpdateRow(w)
      PROVE  TypeOK' /\ LocalsOK'
  BY <1>j DEF CreateRow, UpdateRow, FreshVersion, AfterStore, Txn, TxnOK, Pcs
<1>k. ASSUME NEW w \in Workers, CreateCollides(w)
      PROVE  TypeOK' /\ LocalsOK'
  BY <1>d, <1>k DEF CreateCollides
<1>l. ASSUME NEW w \in Workers, DeleteRow(w)
      PROVE  TypeOK' /\ LocalsOK'
  BY <1>l DEF DeleteRow, Goto, AfterStore, Txn, TxnOK, Pcs
<1>m. ASSUME NEW w \in Workers, Record(w)
      PROVE  TypeOK' /\ LocalsOK'
  <2>1. CASE Leave(w)
    BY <1>d, <1>m, <2>1 DEF Record
  <2>2. CASE ~ Leave(w)
    BY <1>m, <2>2 DEF Record, Goto, Txn, TxnOK, Pcs
  <2>3. QED
    BY <2>1, <2>2
<1>n. ASSUME NEW w \in Workers, Commit(w)
      PROVE  TypeOK' /\ LocalsOK'
  <2>1. MemoryAfter(w) \in [Keys -> Row \cup {NoRow}]
    BY <1>n, CeilingAssumption DEF Commit, MemoryAfter, Row, Txn, TxnOK
  <2>2. ReceiptsAfter(w) \in [OpKeys -> Receipt \cup {NoReceipt}]
    BY <1>n DEF Commit, ReceiptsAfter, Receipt, Fingerprint, Fingerprints, Txn, TxnOK
  <2>3. txn[w].op # NoOp => OpKey(w) \in OpKeys /\ Fingerprint(w) \in Fingerprints
    BY <1>n DEF Commit, OpKey, OpKeys, Fingerprint, Fingerprints, Txn, TxnOK
  <2>4. txn[w].version \in Nat
    BY DEF Txn
  <2>5. answers' \subseteq [key : OpKeys, fingerprint : Fingerprints, version : Nat]
    BY <1>n, <2>3, <2>4 DEF Commit
  <2>6. shown' \subseteq Nat
    BY <1>n, <2>4 DEF Commit
  <2>7. txn' \in [Workers -> Txn] /\ LocalsOK'
    BY <1>n, IdleOK DEF Commit, Leave
  <2>8. QED
    BY <1>n, <2>1, <2>2, <2>5, <2>6, <2>7 DEF Commit
<1>o. ASSUME NEW o \in Owners, PurgeReceipts(o) \/ PurgeRows(o)
      PROVE  TypeOK' /\ LocalsOK'
  BY <1>o DEF PurgeReceipts, PurgeRows
<1>p. QED
  BY <1>a, <1>b, <1>c, <1>e, <1>f, <1>g, <1>h, <1>i, <1>j, <1>k, <1>l, <1>m, <1>n, <1>o
     DEF Next, Statement

-----------------------------------------------------------------------------
(* The inductive invariant is inductive.                                   *)

\* Empty tables and idle workers satisfy the core.
LEMMA CoreInit == Init => Core
BY DEF Init, Core, LockedRowIsCurrent, InsertsAreExclusive, Inserting,
       ReceiptsAreExclusive, StagedReceipt, PendingVersionsAreFresh, Minting,
       RowHasItsReceipt, AnswersAreRecorded, IdleTxn

\* A step of w that changes no table, takes no lock and stages nothing.
LEMMA QuietStep ==
  ASSUME IInv, NEW w \in Workers, NEW t \in Txn,
         txn' = [txn EXCEPT ![w] = t],
         UNCHANGED <<memory, receipts, purging, shown, answers>>,
         minted' \in Nat, minted <= minted',
         t.row # NoRow => t.row = txn[w].row /\ <<t.owner, t.path>> = Key(w),
         t.pc \notin {"record", "commit"}
  PROVE  Core'
<1> USE DEF IInv, TypeOK
<1>1. txn'[w] = t /\ \A x \in Workers \ {w} : txn'[x] = txn[x]
  OBVIOUS
<1>2. LockedRowIsCurrent'
  BY <1>1 DEF Core, LockedRowIsCurrent, Locks, Key
<1>3. InsertsAreExclusive'
  BY <1>1 DEF Core, InsertsAreExclusive, Inserting, Key
<1>4. ReceiptsAreExclusive'
  BY <1>1 DEF Core, ReceiptsAreExclusive, StagedReceipt, OpKey
<1>5. PendingVersionsAreFresh'
  <2>1. \A v \in shown' : v <= minted'
    BY DEF Core, PendingVersionsAreFresh
  <2>2. \A x \in Workers : Minting(x)' => x # w /\ Minting(x) /\ txn'[x] = txn[x]
    BY <1>1 DEF Minting
  <2>3. \A x \in Workers : Minting(x) => txn[x].version \in 1..minted'
    BY DEF Core, PendingVersionsAreFresh
  <2>4. QED
    BY <2>1, <2>2, <2>3 DEF Core, PendingVersionsAreFresh
<1>6. RowHasItsReceipt'
  BY DEF Core, RowHasItsReceipt
<1>7. AnswersAreRecorded'
  BY DEF Core, AnswersAreRecorded
<1>8. QED
  BY <1>2, <1>3, <1>4, <1>5, <1>6, <1>7 DEF Core

\* In particular a call that ends without committing.
LEMMA LeaveStep ==
  ASSUME IInv, NEW w \in Workers, Leave(w),
         UNCHANGED <<memory, receipts, purging, shown, answers>>,
         minted' \in Nat, minted <= minted'
  PROVE  Core'
BY QuietStep, IdleOK DEF Leave, IdleTxn

\* The locking read: the row was free, so w alone holds it, and it is current.
LEMMA SelectStep ==
  ASSUME IInv, NEW w \in Workers, SelectForUpdate(w)
  PROVE  Core'
<1> USE DEF IInv, TypeOK, tables, history
<1> DEFINE t == txn'[w]
<1>1. /\ UNCHANGED <<memory, receipts, purging, minted, shown, answers>>
      /\ \A x \in Workers \ {w} : txn'[x] = txn[x]
      /\ t.row = memory[Key(w)]
      /\ t.owner = txn[w].owner /\ t.path = txn[w].path /\ t.kind = txn[w].kind
      /\ t.op = txn[w].op
      /\ t.pc \in {"record", "commit"} => t.kind = "delete"
      /\ txn[w].pc = "select"
  BY DEF SelectForUpdate, Txn, AfterStore, Kinds
<1>2. LockedRowIsCurrent'
  <2>1. \A x \in Workers \ {w} : ~ Locks(x, Key(w))
    BY DEF SelectForUpdate, RowIsFree
  <2>2. QED
    BY <1>1, <2>1 DEF Core, LockedRowIsCurrent, Locks, Key
<1>3. InsertsAreExclusive'
  BY <1>1 DEF Core, InsertsAreExclusive, Inserting, Key
<1>4. ReceiptsAreExclusive'
  <2>1. t.pc = "commit" => t.op = NoOp
    BY <1>1 DEF SelectForUpdate, Txn, AfterStore
  <2>2. QED
    BY <1>1, <2>1 DEF Core, ReceiptsAreExclusive, StagedReceipt, OpKey
<1>5. PendingVersionsAreFresh'
  <2>1. \A x \in Workers : Minting(x)' => x # w /\ Minting(x) /\ txn'[x] = txn[x]
    BY <1>1 DEF Minting
  <2>2. QED
    BY <1>1, <2>1 DEF Core, PendingVersionsAreFresh
<1>6. RowHasItsReceipt'
  BY <1>1 DEF Core, RowHasItsReceipt
<1>7. AnswersAreRecorded'
  BY <1>1 DEF Core, AnswersAreRecorded
<1>8. QED
  BY <1>2, <1>3, <1>4, <1>5, <1>6, <1>7 DEF Core

\* Writing the row: the version is new, and an insert found its key vacant and
\* nobody else inserting it.
LEMMA StoreStep ==
  ASSUME IInv, NEW w \in Workers, CreateRow(w) \/ UpdateRow(w) \/ DeleteRow(w)
  PROVE  Core'
<1> USE DEF IInv, TypeOK, tables, history
<1> DEFINE t == txn'[w]
<1>1. /\ UNCHANGED <<memory, receipts, purging, shown, answers>>
      /\ \A x \in Workers \ {w} : txn'[x] = txn[x]
      /\ t.row = txn[w].row /\ t.owner = txn[w].owner /\ t.path = txn[w].path
      /\ t.kind = txn[w].kind /\ t.op = txn[w].op
      /\ t.pc = AfterStore(w)
      /\ txn[w].pc = "store"
  BY DEF CreateRow, UpdateRow, DeleteRow, Goto, Txn
<1>2. LockedRowIsCurrent'
  BY <1>1 DEF Core, LockedRowIsCurrent, Locks, Key
<1>3. InsertsAreExclusive'
  <2>1. ASSUME t.kind = "write", t.row = NoRow
        PROVE  /\ memory[Key(w)] = NoRow
               /\ \A x \in Workers \ {w} : Inserting(x) => Key(x) # Key(w)
    BY <2>1, <1>1 DEF CreateRow, UpdateRow, DeleteRow, IndexIsFree, Staged, Inserting
  <2>2. QED
    BY <1>1, <2>1 DEF Core, InsertsAreExclusive, Inserting, Key
<1>4. ReceiptsAreExclusive'
  <2>1. t.pc = "commit" => t.op = NoOp
    BY <1>1 DEF AfterStore
  <2>2. QED
    BY <1>1, <2>1 DEF Core, ReceiptsAreExclusive, StagedReceipt, OpKey
<1>5. PendingVersionsAreFresh'
  <2>1. CASE DeleteRow(w)
    <3>1. minted' = minted /\ t.kind = "delete"
      BY <2>1, <1>1 DEF DeleteRow
    <3>2. \A x \in Workers : Minting(x)' => x # w /\ Minting(x) /\ txn'[x] = txn[x]
      BY <1>1, <3>1 DEF Minting
    <3>3. QED
      BY <1>1, <3>1, <3>2 DEF Core, PendingVersionsAreFresh
  <2>2. CASE CreateRow(w) \/ UpdateRow(w)
    <3>1. minted' = minted + 1 /\ t.version = minted + 1
      BY <2>2 DEF CreateRow, UpdateRow, FreshVersion, Txn
    <3>2. \A x \in Workers \ {w} : Minting(x)' => Minting(x) /\ txn'[x] = txn[x]
      BY <1>1 DEF Minting
    <3>3. \A v \in shown : v <= minted /\ v \in Nat
      BY DEF Core, PendingVersionsAreFresh
    <3>4. t.version \notin shown
      BY <3>1, <3>3
    <3>5. \A x \in Workers \ {w} : Minting(x) => txn[x].version \in 1..minted
      BY DEF Core, PendingVersionsAreFresh
    <3>6. QED
      BY <1>1, <3>1, <3>2, <3>3, <3>4, <3>5 DEF Core, PendingVersionsAreFresh
  <2>3. QED
    BY <2>1, <2>2
<1>6. RowHasItsReceipt'
  BY <1>1 DEF Core, RowHasItsReceipt
<1>7. AnswersAreRecorded'
  BY <1>1 DEF Core, AnswersAreRecorded
<1>8. QED
  BY <1>2, <1>3, <1>4, <1>5, <1>6, <1>7 DEF Core

\* Inserting the receipt: no committed or uncommitted one has its key.
LEMMA RecordStep ==
  ASSUME IInv, NEW w \in Workers, Record(w), ~ Leave(w)
  PROVE  Core'
<1> USE DEF IInv, TypeOK, tables, history
<1> DEFINE t == txn'[w]
<1>1. /\ UNCHANGED <<memory, receipts, purging, minted, shown, answers>>
      /\ \A x \in Workers \ {w} : txn'[x] = txn[x]
      /\ t.row = txn[w].row /\ t.owner = txn[w].owner /\ t.path = txn[w].path
      /\ t.kind = txn[w].kind /\ t.op = txn[w].op /\ t.version = txn[w].version
      /\ t.pc = "commit" /\ txn[w].pc = "record"
  BY DEF Record, Goto, Txn
<1>2. LockedRowIsCurrent'
  BY <1>1 DEF Core, LockedRowIsCurrent, Locks, Key
<1>3. InsertsAreExclusive'
  BY <1>1 DEF Core, InsertsAreExclusive, Inserting, Key
<1>4. ReceiptsAreExclusive'
  <2>1. /\ receipts[OpKey(w)] = NoReceipt
        /\ \A x \in Workers \ {w} : ~ StagedReceipt(x, OpKey(w))
    BY DEF Record, ReceiptIsFree
  <2>2. QED
    BY <1>1, <2>1 DEF Core, ReceiptsAreExclusive, StagedReceipt, OpKey
<1>5. PendingVersionsAreFresh'
  BY <1>1 DEF Core, PendingVersionsAreFresh, Minting
<1>6. RowHasItsReceipt'
  BY <1>1 DEF Core, RowHasItsReceipt
<1>7. AnswersAreRecorded'
  BY <1>1 DEF Core, AnswersAreRecorded
<1>8. QED
  BY <1>2, <1>3, <1>4, <1>5, <1>6, <1>7 DEF Core

\* The commit: w alone holds the row it replaces, alone inserts the row it
\* creates, and its operation id has no receipt, so no other row carries it.
LEMMA CommitStep ==
  ASSUME IInv, NEW w \in Workers, Commit(w)
  PROVE  Core'
<1> USE DEF IInv, TypeOK
<1>1. /\ txn' = [txn EXCEPT ![w] = IdleTxn]
      /\ \A x \in Workers \ {w} : txn'[x] = txn[x]
      /\ txn'[w] = IdleTxn /\ txn[w].pc = "commit"
      /\ memory' = MemoryAfter(w) /\ receipts' = ReceiptsAfter(w)
      /\ purging' = purging /\ minted' = minted
  BY DEF Commit, Leave
<1>2. \A k \in Keys : k # Key(w) => memory'[k] = memory[k]
  BY <1>1 DEF MemoryAfter
<1>3. \A r \in OpKeys : (r # OpKey(w) \/ txn[w].op = NoOp) => receipts'[r] = receipts[r]
  BY <1>1 DEF ReceiptsAfter
<1>4. Key(w) \in Keys /\ (txn[w].op # NoOp => OpKey(w) \in OpKeys)
  BY <1>1 DEF LocalsOK, TxnOK, Txn, Key, Keys, OpKey, OpKeys
<1>5. LockedRowIsCurrent'
  <2> SUFFICES ASSUME NEW x \in Workers \ {w}, txn[x].row # NoRow
               PROVE  /\ memory'[Key(x)] = txn[x].row
                      /\ \A y \in Workers \ {x} : ~ Locks(y, Key(x))'
    BY <1>1 DEF LockedRowIsCurrent, Locks, Key, IdleTxn
  <2>1. memory[Key(x)] = txn[x].row /\ \A y \in Workers \ {x} : ~ Locks(y, Key(x))
    BY DEF Core, LockedRowIsCurrent
  <2>2. txn[w].row # NoRow => Key(x) # Key(w)
    BY <2>1 DEF Locks
  <2>3. Inserting(w) => Key(x) # Key(w)
    BY <2>1 DEF Core, InsertsAreExclusive
  <2>4. Key(x) = Key(w) => memory' = memory
    BY <1>1, <2>2, <2>3 DEF MemoryAfter, Inserting
  <2>5. Key(x) \in Keys
    <3>1. txn[x].pc # "idle"
      BY DEF LocalsOK, TxnOK, IdleTxn
    <3>2. QED
      BY <3>1 DEF LocalsOK, TxnOK, Key, Keys
  <2>6. memory'[Key(x)] = txn[x].row
    BY <1>2, <2>1, <2>4, <2>5
  <2>7. QED
    BY <1>1, <2>1, <2>6 DEF Locks, Key, IdleTxn
<1>6. InsertsAreExclusive'
  <2> SUFFICES ASSUME NEW x \in Workers \ {w}, Inserting(x)
               PROVE  /\ memory'[Key(x)] = NoRow
                      /\ \A y \in Workers \ {x} : Inserting(y)' => Key(y)' # Key(x)
    BY <1>1 DEF InsertsAreExclusive, Inserting, Key, IdleTxn
  <2>1. /\ memory[Key(x)] = NoRow
        /\ \A y \in Workers \ {x} : Inserting(y) => Key(y) # Key(x)
    BY DEF Core, InsertsAreExclusive
  <2>2. Key(x) = Key(w) => txn[w].row = NoRow
    BY <2>1 DEF Core, LockedRowIsCurrent
  <2>3. Key(x) = Key(w) => memory' = memory
    BY <1>1, <2>1, <2>2 DEF MemoryAfter, Inserting
  <2>4. Key(x) \in Keys
    BY DEF LocalsOK, TxnOK, Key, Keys, Inserting
  <2>5. QED
    BY <1>1, <1>2, <2>1, <2>3, <2>4 DEF Inserting, Key, IdleTxn
<1>7. ReceiptsAreExclusive'
  <2> SUFFICES ASSUME NEW x \in Workers \ {w}, txn[x].pc = "commit", txn[x].op # NoOp
               PROVE  /\ receipts'[OpKey(x)] = NoReceipt
                      /\ \A y \in Workers \ {x} : ~ StagedReceipt(y, OpKey(x))'
    BY <1>1 DEF ReceiptsAreExclusive, StagedReceipt, OpKey, IdleTxn
  <2>1. /\ receipts[OpKey(x)] = NoReceipt
        /\ \A y \in Workers \ {x} : ~ StagedReceipt(y, OpKey(x))
    BY DEF Core, ReceiptsAreExclusive
  <2>2. txn[w].op # NoOp => OpKey(x) # OpKey(w)
    BY <1>1, <2>1 DEF StagedReceipt
  <2>3. OpKey(x) \in OpKeys
    BY DEF LocalsOK, TxnOK, Txn, OpKey, OpKeys
  <2>4. QED
    BY <1>1, <1>3, <2>1, <2>2, <2>3 DEF StagedReceipt, OpKey, IdleTxn
<1>8. PendingVersionsAreFresh'
  <2>1. shown' = IF txn[w].kind = "write" THEN shown \cup {txn[w].version} ELSE shown
    BY DEF Commit
  <2>2. txn[w].kind = "write" => Minting(w)
    BY <1>1 DEF Minting
  <2>3. \A v \in shown' : v <= minted
    BY <2>1, <2>2 DEF Core, PendingVersionsAreFresh
  <2>4. \A x \in Workers : Minting(x)' => x # w /\ Minting(x) /\ txn'[x] = txn[x]
    BY <1>1 DEF Minting, IdleTxn
  <2>5. QED
    BY <1>1, <2>1, <2>2, <2>3, <2>4 DEF Core, PendingVersionsAreFresh
<1>9. RowHasItsReceipt'
  <2> SUFFICES ASSUME NEW k \in Keys, memory'[k] # NoRow, memory'[k].op # NoOp,
                      k[1] \notin purging
               PROVE  LET r == receipts'[<<k[1], memory'[k].op>>]
                      IN  /\ r # NoReceipt
                          /\ r.version = memory'[k].version
                          /\ \E c \in Contents :
                               /\ r.fingerprint = <<"write", k[2], c>>
                               /\ Escape[c] = memory'[k].content
    BY <1>1 DEF RowHasItsReceipt
  <2>1. CASE k = Key(w) /\ txn[w].kind = "write"
    <3>1. memory'[k] = [content |-> Escape[txn[w].content],
                        version |-> txn[w].version, op |-> txn[w].op]
      BY <1>1, <1>4, <2>1 DEF MemoryAfter
    <3>2. /\ txn[w].op # NoOp
          /\ <<k[1], memory'[k].op>> = OpKey(w)
          /\ k[2] = txn[w].path
      BY <2>1, <3>1 DEF Key, OpKey
    <3>3. receipts'[OpKey(w)] = [fingerprint |-> Fingerprint(w),
             version |-> txn[w].version, existed |-> txn[w].row # NoRow]
      BY <1>1, <1>4, <3>2 DEF ReceiptsAfter
    <3>4. receipts'[OpKey(w)] \in Receipt
      <4>1. Fingerprint(w) \in Fingerprints
        BY <1>1 DEF Fingerprint, Fingerprints, LocalsOK, TxnOK, Txn
      <4>2. txn[w].version \in Nat
        BY DEF Txn
      <4>3. QED
        BY <3>3, <4>1, <4>2 DEF Receipt
    <3>5. receipts'[OpKey(w)] # NoReceipt
      BY <3>4, SentinelAssumption
    <3>6. /\ txn[w].content \in Contents
          /\ Fingerprint(w) = <<"write", k[2], txn[w].content>>
      BY <1>1, <2>1, <3>2 DEF Fingerprint, LocalsOK, TxnOK
    <3>7. QED
      BY <3>1, <3>2, <3>3, <3>5, <3>6
  <2>2. CASE ~ (k = Key(w) /\ txn[w].kind = "write")
    <3>1. memory'[k] = memory[k]
      BY <1>1, <2>2 DEF MemoryAfter
    <3>2. <<k[1], memory[k].op>> \in OpKeys
      BY <3>1 DEF Keys, OpKeys, Row
    <3>3. receipts[<<k[1], memory[k].op>>] # NoReceipt
      BY <3>1 DEF Core, RowHasItsReceipt
    <3>4. txn[w].op # NoOp => receipts[OpKey(w)] = NoReceipt
      BY <1>1 DEF Core, ReceiptsAreExclusive
    <3>5. receipts'[<<k[1], memory[k].op>>] = receipts[<<k[1], memory[k].op>>]
      BY <1>3, <3>2, <3>3, <3>4
    <3>6. QED
      BY <3>1, <3>5 DEF Core, RowHasItsReceipt
  <2>3. QED
    BY <2>1, <2>2
<1>10. AnswersAreRecorded'
  <2> SUFFICES ASSUME NEW a \in answers'
               PROVE  /\ receipts'[a.key] # NoReceipt
                      /\ receipts'[a.key].fingerprint = a.fingerprint
                      /\ receipts'[a.key].version = a.version
    BY DEF AnswersAreRecorded
  <2>1. CASE a \in answers
    <3>1. /\ receipts[a.key] # NoReceipt
          /\ receipts[a.key].fingerprint = a.fingerprint
          /\ receipts[a.key].version = a.version
          /\ a.key \in OpKeys
      BY <2>1 DEF Core, AnswersAreRecorded
    <3>2. txn[w].op # NoOp => a.key # OpKey(w)
      BY <1>1, <3>1 DEF Core, ReceiptsAreExclusive
    <3>3. QED
      BY <1>3, <3>1, <3>2
  <2>2. CASE a \notin answers
    <3>1. /\ txn[w].op # NoOp
          /\ a = [key |-> OpKey(w), fingerprint |-> Fingerprint(w), version |-> txn[w].version]
      BY <2>2 DEF Commit
    <3>2. receipts'[OpKey(w)] = [fingerprint |-> Fingerprint(w),
             version |-> txn[w].version, existed |-> txn[w].row # NoRow]
      BY <1>1, <1>4, <3>1 DEF ReceiptsAfter
    <3>3. receipts'[OpKey(w)] \in Receipt
      <4>1. Fingerprint(w) \in Fingerprints
        BY <1>1 DEF Fingerprint, Fingerprints, LocalsOK, TxnOK, Txn
      <4>2. txn[w].version \in Nat
        BY DEF Txn
      <4>3. QED
        BY <3>2, <4>1, <4>2 DEF Receipt
    <3>4. QED
      BY <3>1, <3>2, <3>3, SentinelAssumption
  <2>3. QED
    BY <2>1, <2>2
<1>11. QED
  BY <1>5, <1>6, <1>7, <1>8, <1>9, <1>10 DEF Core

\* A replay adds the answer its receipt records.
LEMMA ReplayStep ==
  ASSUME IInv, NEW w \in Workers, Replay(w)
  PROVE  Core'
<1> USE DEF IInv, TypeOK, tables
<1> DEFINE new == [key |-> OpKey(w), fingerprint |-> Fingerprint(w),
                   version |-> receipts[OpKey(w)].version]
<1>1. /\ Leave(w) /\ UNCHANGED <<memory, receipts, purging, minted, shown>>
      /\ answers' = answers \cup {new}
      /\ receipts[OpKey(w)] # NoReceipt
      /\ receipts[OpKey(w)].fingerprint = Fingerprint(w)
  BY DEF Replay
<1>2. txn'[w] = IdleTxn /\ \A x \in Workers \ {w} : txn'[x] = txn[x]
  BY <1>1 DEF Leave
<1>3. LockedRowIsCurrent'
  BY <1>1, <1>2 DEF Core, LockedRowIsCurrent, Locks, Key, IdleTxn
<1>4. InsertsAreExclusive'
  BY <1>1, <1>2 DEF Core, InsertsAreExclusive, Inserting, Key, IdleTxn
<1>5. ReceiptsAreExclusive'
  BY <1>1, <1>2 DEF Core, ReceiptsAreExclusive, StagedReceipt, OpKey, IdleTxn
<1>6. PendingVersionsAreFresh'
  <2>1. \A x \in Workers : Minting(x)' => x # w /\ Minting(x) /\ txn'[x] = txn[x]
    BY <1>2 DEF Minting, IdleTxn
  <2>2. QED
    BY <1>1, <2>1 DEF Core, PendingVersionsAreFresh
<1>7. RowHasItsReceipt'
  BY <1>1 DEF Core, RowHasItsReceipt
<1>8. AnswersAreRecorded'
  BY <1>1 DEF Core, AnswersAreRecorded
<1>9. QED
  BY <1>3, <1>4, <1>5, <1>6, <1>7, <1>8 DEF Core

\* A purge takes answers away with their receipts, keeps the owner among the
\* purging until its rows are gone too, and takes no row somebody holds.
LEMMA PurgeStep ==
  ASSUME IInv, NEW o \in Owners, PurgeReceipts(o) \/ PurgeRows(o)
  PROVE  Core'
<1> USE DEF IInv, TypeOK, history
<1>1. CASE PurgeReceipts(o)
  <2>1. /\ \A r \in OpKeys : receipts'[r] = IF r[1] = o THEN NoReceipt ELSE receipts[r]
        /\ UNCHANGED <<memory, txn, minted, shown>>
        /\ purging' = purging \cup {o}
        /\ answers' = {a \in answers : a.key[1] # o}
    BY <1>1 DEF PurgeReceipts
  <2>2. LockedRowIsCurrent'
    BY <2>1 DEF Core, LockedRowIsCurrent, Locks, Key
  <2>3. InsertsAreExclusive'
    BY <2>1 DEF Core, InsertsAreExclusive, Inserting, Key
  <2>4. ReceiptsAreExclusive'
    <3>1. \A x \in Workers : txn[x].pc = "commit" /\ txn[x].op # NoOp => OpKey(x) \in OpKeys
      BY DEF LocalsOK, TxnOK, Txn, OpKey, OpKeys
    <3>2. QED
      BY <2>1, <3>1 DEF Core, ReceiptsAreExclusive, StagedReceipt, OpKey
  <2>5. PendingVersionsAreFresh'
    BY <2>1 DEF Core, PendingVersionsAreFresh, Minting
  <2>6. RowHasItsReceipt'
    <3> SUFFICES ASSUME NEW k \in Keys, memory[k] # NoRow, memory[k].op # NoOp,
                        k[1] \notin purging, k[1] # o
                 PROVE  receipts'[<<k[1], memory[k].op>>] = receipts[<<k[1], memory[k].op>>]
      BY <2>1 DEF Core, RowHasItsReceipt
    <3>1. <<k[1], memory[k].op>> \in OpKeys
      BY DEF Keys, OpKeys, Row
    <3>2. QED
      BY <2>1, <3>1
  <2>7. AnswersAreRecorded'
    BY <2>1 DEF Core, AnswersAreRecorded
  <2>8. QED
    BY <2>2, <2>3, <2>4, <2>5, <2>6, <2>7 DEF Core
<1>2. CASE PurgeRows(o)
  <2>1. /\ \A k \in Keys : memory'[k] = IF k[1] = o THEN NoRow ELSE memory[k]
        /\ UNCHANGED <<receipts, txn, minted, shown, answers>>
        /\ purging' = purging \ {o}
        /\ \A k \in Keys, w \in Workers : Locks(w, k) => k[1] # o
    BY <1>2 DEF PurgeRows
  <2>2. \A w \in Workers : txn[w].pc # "idle" => Key(w) \in Keys
    BY DEF LocalsOK, TxnOK, Key, Keys
  <2>3. LockedRowIsCurrent'
    <3>1. \A w \in Workers : txn[w].row # NoRow => Key(w) \in Keys /\ Key(w)[1] # o
      BY <2>1, <2>2 DEF Locks, LocalsOK, TxnOK, IdleTxn
    <3>2. QED
      BY <2>1, <3>1 DEF Core, LockedRowIsCurrent, Locks, Key
  <2>4. InsertsAreExclusive'
    BY <2>1, <2>2 DEF Core, InsertsAreExclusive, Inserting, Key
  <2>5. ReceiptsAreExclusive'
    BY <2>1 DEF Core, ReceiptsAreExclusive, StagedReceipt, OpKey
  <2>6. PendingVersionsAreFresh'
    BY <2>1 DEF Core, PendingVersionsAreFresh, Minting
  <2>7. RowHasItsReceipt'
    BY <2>1 DEF Core, RowHasItsReceipt
  <2>8. AnswersAreRecorded'
    BY <2>1 DEF Core, AnswersAreRecorded
  <2>9. QED
    BY <2>3, <2>4, <2>5, <2>6, <2>7, <2>8 DEF Core
<1>3. QED
  BY <1>1, <1>2

\* Every step of the store preserves the inductive invariant.
LEMMA InvStep == IInv /\ [Next]_vars => IInv'
<1> SUFFICES ASSUME IInv, [Next]_vars
             PROVE  Core'
  BY TypeStep DEF IInv
<1>1. minted \in Nat /\ minted <= minted /\ minted <= minted + 1
  BY DEF IInv, TypeOK
<1>2. ASSUME NEW w \in Workers, Call(w)
      PROVE  Core'
  <2>1. TypeOK' /\ txn'[w] \in Txn
    BY TypeStep DEF IInv, TypeOK
  <2>2. /\ txn' = [txn EXCEPT ![w] = txn'[w]]
        /\ txn'[w].row = NoRow /\ txn'[w].pc \notin {"record", "commit"}
    BY <1>2 DEF Call, IInv, TypeOK
  <2>3. QED
    BY <1>1, <1>2, <2>1, <2>2, QuietStep DEF Call, tables, history
<1>3. ASSUME NEW w \in Workers, UnpersistedWrite(w)
      PROVE  Core'
  <2>1. /\ UNCHANGED <<memory, receipts, txn, purging, answers>>
        /\ minted' = minted + 1 /\ shown' = shown \cup {minted + 1}
    BY <1>3 DEF UnpersistedWrite, tables
  <2>2. PendingVersionsAreFresh'
    <3>1. \A v \in shown' : v <= minted'
      BY <2>1 DEF IInv, Core, TypeOK, PendingVersionsAreFresh
    <3>2. \A x \in Workers : Minting(x) =>
            txn[x].version \in 1..minted' /\ txn[x].version # minted + 1
      BY <2>1 DEF IInv, Core, TypeOK, PendingVersionsAreFresh
    <3>3. \A x \in Workers : Minting(x)' <=> Minting(x)
      BY <2>1 DEF Minting
    <3>4. QED
      BY <2>1, <3>1, <3>2, <3>3 DEF IInv, Core, PendingVersionsAreFresh
  <2>3. QED
    BY <2>1, <2>2 DEF IInv, Core, LockedRowIsCurrent, Locks, Key, InsertsAreExclusive,
       Inserting, ReceiptsAreExclusive, StagedReceipt, OpKey, RowHasItsReceipt,
       AnswersAreRecorded
<1>4. ASSUME NEW w \in Workers, RefuseReusedId(w) \/ RefuseStale(w) \/ Abort(w)
                                \/ CreateCollides(w)
      PROVE  Core'
  BY <1>1, <1>4, LeaveStep
     DEF RefuseReusedId, RefuseStale, Abort, CreateCollides, tables, history
<1>5. ASSUME NEW w \in Workers, NoReceiptFound(w)
      PROVE  Core'
  <2>1. txn'[w] \in Txn
    BY TypeStep DEF IInv, TypeOK
  <2>2. /\ txn' = [txn EXCEPT ![w] = txn'[w]] /\ txn'[w].pc = "select"
        /\ txn'[w].row = txn[w].row /\ <<txn'[w].owner, txn'[w].path>> = Key(w)
    BY <1>5 DEF NoReceiptFound, Goto, IInv, TypeOK, Txn, Key
  <2>3. QED
    BY <1>1, <1>5, <2>1, <2>2, QuietStep DEF NoReceiptFound, tables, history
<1>6. ASSUME NEW w \in Workers, CountFiles(w) \/ SumChars(w)
      PROVE  Core'
  <2>1. CASE Leave(w)
    BY <1>1, <1>6, <2>1, LeaveStep DEF CountFiles, SumChars, tables, history
  <2>2. CASE ~ Leave(w)
    <3>1. txn'[w] \in Txn
      BY TypeStep DEF IInv, TypeOK
    <3>2. /\ txn' = [txn EXCEPT ![w] = txn'[w]] /\ txn'[w].pc \in {"sum", "store"}
          /\ txn'[w].row = txn[w].row /\ <<txn'[w].owner, txn'[w].path>> = Key(w)
      BY <1>6, <2>2 DEF CountFiles, SumChars, Goto, IInv, TypeOK, Txn, Key
    <3>3. QED
      BY <1>1, <1>6, <3>1, <3>2, QuietStep DEF CountFiles, SumChars, tables, history
  <2>3. QED
    BY <2>1, <2>2
<1>7. ASSUME NEW w \in Workers, Record(w)
      PROVE  Core'
  BY <1>1, <1>7, LeaveStep, RecordStep DEF Record, tables, history
<1>8. CASE UNCHANGED vars
  BY <1>8 DEF vars, IInv, Core, LockedRowIsCurrent, Locks, Key, InsertsAreExclusive,
     Inserting, ReceiptsAreExclusive, StagedReceipt, OpKey, PendingVersionsAreFresh,
     Minting, RowHasItsReceipt, AnswersAreRecorded
<1>9. QED
  BY <1>2, <1>3, <1>4, <1>5, <1>6, <1>7, <1>8, ReplayStep, SelectStep, StoreStep,
     CommitStep, PurgeStep DEF Next, Statement

-----------------------------------------------------------------------------
(* The theorems.                                                           *)

\* The inductive invariant holds at every point of every run of the store.
THEOREM Invariance == Spec => []IInv
<1>1. Init => IInv
  BY TypeInit, CoreInit DEF IInv
<1>2. QED
  BY <1>1, InvStep, PTL DEF Spec

\* Every table and every call keep their types.
THEOREM TypeCorrect == Spec => []TypeOK
<1>1. IInv => TypeOK
  BY DEF IInv
<1>2. QED
  BY <1>1, Invariance, PTL

\* A row read with select_for_update is held by one call and stays the committed
\* row until that call ends: no write, delete or purge is lost under it.
THEOREM LocksHold == Spec => []LockedRowIsCurrent
<1>1. IInv => LockedRowIsCurrent
  BY DEF IInv, Core
<1>2. QED
  BY <1>1, Invariance, PTL

\* A row written under an operation id has a receipt that tells of this row and
\* no other, unless a purge of its owner is half done.
THEOREM ReceiptsMatchRows == Spec => []RowHasItsReceipt
<1>1. IInv => RowHasItsReceipt
  BY DEF IInv, Core
<1>2. QED
  BY <1>1, Invariance, PTL

\* All the answers given under one operation id are the same answer.
THEOREM RetriesAgree == Spec => []AnswersAgree
<1>1. IInv => AnswersAgree
  BY DEF IInv, Core, TypeOK, AnswersAreRecorded, AnswersAgree
<1>2. QED
  BY <1>1, Invariance, PTL

\* No version a caller may know is ever given to a file again.
THEOREM NoABA == Spec => VersionsNeverReturn
<1> DEFINE Fresh ==
      \A k \in Keys :
        (memory'[k] # memory[k] /\ memory'[k] # NoRow) => memory'[k].version \notin shown
<1>1. IInv /\ [Next]_vars => [Fresh]_vars
  <2> SUFFICES ASSUME IInv, Next PROVE Fresh
    OBVIOUS
  <2>1. ASSUME NEW w \in Workers, Commit(w)
        PROVE  Fresh
    <3>1. memory' = MemoryAfter(w) /\ txn[w].pc = "commit"
      BY <2>1 DEF Commit
    <3>2. txn[w].kind = "write" => txn[w].version \notin shown
      BY <3>1 DEF IInv, Core, PendingVersionsAreFresh, Minting
    <3>3. QED
      BY <3>1, <3>2 DEF MemoryAfter, IInv, TypeOK
  <2>2. ASSUME NEW o \in Owners, PurgeRows(o)
        PROVE  Fresh
    BY <2>2 DEF PurgeRows
  <2>3. CASE memory' = memory
    BY <2>3
  <2>4. QED
    BY <2>1, <2>2, <2>3 DEF Next, Statement, Call, UnpersistedWrite, Replay,
       RefuseReusedId, NoReceiptFound, RefuseStale, SelectForUpdate, CountFiles, SumChars,
       CreateRow, CreateCollides, UpdateRow, DeleteRow, Record, Abort, PurgeReceipts, tables
<1>2. QED
  BY <1>1, Invariance, PTL DEF Spec, VersionsNeverReturn
=============================================================================
