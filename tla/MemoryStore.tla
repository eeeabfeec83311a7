---------------------------- MODULE MemoryStore ----------------------------
(***************************************************************************)
(* contrib/store/default_memory_store.py over the two tables of models.py: *)
(* StoredMemory (unique on owner, path) and StoredMemoryOperation (unique  *)
(* on owner, operation_id).                                                *)
(*                                                                         *)
(* Each worker runs one write or delete at a time, as the statements of    *)
(* its transaction.atomic() block, one action per statement, at the        *)
(* READ COMMITTED level Django opens on a server database: a statement     *)
(* sees what has been committed, a row read by select_for_update stays     *)
(* locked until its transaction ends, and an insert waits for the          *)
(* uncommitted insert of the same unique key.  What a transaction has      *)
(* staged lives in its txn record until Commit.  purge runs beside them,   *)
(* as two statements with no transaction around them.                      *)
(*                                                                         *)
(* A definition named ...Slip is a plausible mistake in the one after it;  *)
(* nothing uses it, and the property it would break is in PROJECT.json.    *)
(***************************************************************************)
EXTENDS Naturals, FiniteSets, FiniteSetsExt

CONSTANTS
  Workers,        \* threads of the web processes, one call each at a time
  Owners,         \* owner_id values
  Paths,
  Contents,
  OpIds,          \* MemoryOperation.id values
  NoOwner, NoPath, NoContent, NoOp, NoRow, NoReceipt,
  RequestBound,   \* was the store built with a request?
  RequestOwner,   \* then: what resolve_owner_id says of it (NoOwner: refused)
  Namespace,      \* else: the leading segment of each path
  Escape,         \* _FENCE_TAG_RE.sub(_escape_tag, content)
  Length,         \* len(content)
  MaxFiles, MaxTotalChars,
  VersionBound    \* bound on the versions minted

NoVersion == 0
Kinds == {"write", "delete"}
Versions == 1..VersionBound
Keys == Owners \X Paths
OpKeys == Owners \X OpIds

Row == [content : Contents, version : Nat, op : OpIds \cup {NoOp}]
Fingerprints == Kinds \X Paths \X (Contents \cup {NoContent})
Receipt == [fingerprint : Fingerprints, version : Nat, existed : BOOLEAN]

ASSUME SentinelAssumption ==
  /\ NoOwner \notin Owners
  /\ NoPath \notin Paths
  /\ NoContent \notin Contents
  /\ NoOp \notin OpIds
  /\ NoRow \notin Row
  /\ NoReceipt \notin Receipt

ASSUME ModeAssumption ==
  /\ RequestBound \in BOOLEAN
  /\ RequestOwner \in [Workers -> Owners \cup {NoOwner}]
  /\ Namespace \in [Paths -> Owners]

ASSUME FiniteAssumption ==
  IsFiniteSet(Workers) /\ IsFiniteSet(Owners) /\ IsFiniteSet(Paths)

ASSUME CeilingAssumption ==
  /\ Escape \in [Contents -> Contents]
  /\ \A c \in Contents : Escape[Escape[c]] = Escape[c]
  /\ Length \in [Contents -> Nat]
  /\ MaxFiles \in Nat
  /\ MaxTotalChars \in Nat
  /\ VersionBound \in Nat

VARIABLES
  memory,     \* StoredMemory: [Keys -> Row \cup {NoRow}], committed
  receipts,   \* StoredMemoryOperation: [OpKeys -> Receipt \cup {NoReceipt}], committed
  txn,        \* [Workers -> the call a worker is in and what it holds]
  purging,    \* owners whose receipts a purge deleted, and their rows not yet
  minted,     \* how many times uuid4 was drawn: the versions are 1..minted
  shown,      \* history: versions a reply or a read may have told a caller
  answers     \* history: what was answered under each operation id

vars == <<memory, receipts, txn, purging, minted, shown, answers>>
tables == <<memory, receipts>>
history == <<minted, shown, answers>>

Pcs == {"idle", "receipt", "select", "count", "sum", "store", "record", "commit"}

Txn ==
  [pc : Pcs, kind : Kinds, owner : Owners \cup {NoOwner}, path : Paths \cup {NoPath},
   content : Contents \cup {NoContent}, expected : Nat, op : OpIds \cup {NoOp},
   row : Row \cup {NoRow}, version : Nat]

IdleTxn ==
  [pc |-> "idle", kind |-> "write", owner |-> NoOwner, path |-> NoPath,
   content |-> NoContent, expected |-> NoVersion, op |-> NoOp,
   row |-> NoRow, version |-> NoVersion]

Init ==
  /\ memory = [k \in Keys |-> NoRow]
  /\ receipts = [r \in OpKeys |-> NoReceipt]
  /\ txn = [w \in Workers |-> IdleTxn]
  /\ purging = {}
  /\ minted = 0
  /\ shown = {}
  /\ answers = {}

-----------------------------------------------------------------------------
(* The owner, the locks and the pending index entries.                     *)

OwnerSlip(w, p) ==    \* fall back on the path when the request has no owner
  IF RequestBound /\ RequestOwner[w] # NoOwner THEN RequestOwner[w] ELSE Namespace[p]

\* Namespace-scoped without a request; the request's own owner with one.
Owner(w, p) == IF RequestBound THEN RequestOwner[w] ELSE Namespace[p]

Key(w) == <<txn[w].owner, txn[w].path>>
OpKey(w) == <<txn[w].owner, txn[w].op>>
Fingerprint(w) == <<txn[w].kind, txn[w].path, txn[w].content>>

VersionOf(row) == IF row = NoRow THEN NoVersion ELSE row.version

\* select_for_update locks the row it returned, and nothing when there was none.
Locks(w, k) == txn[w].row # NoRow /\ Key(w) = k

\* w has changed the row of key k and not committed yet.
Staged(w, k) ==
  /\ txn[w].pc \in {"record", "commit"}
  /\ txn[w].kind = "write" \/ txn[w].row # NoRow
  /\ Key(w) = k

StagedReceipt(w, r) == txn[w].pc = "commit" /\ txn[w].op # NoOp /\ OpKey(w) = r

Goto(w, label) == txn' = [txn EXCEPT ![w].pc = label]

LeaveSlip(w) == Goto(w, "idle")    \* the row stays locked

\* The call is over: it returned or raised, and what it staged is rolled back.
Leave(w) == txn' = [txn EXCEPT ![w] = IdleTxn]

AfterStore(w) == IF txn[w].op = NoOp THEN "commit" ELSE "record"

-----------------------------------------------------------------------------
(* One write or delete, statement by statement.                            *)

\* A write draws one version; it starts only if the bound leaves one for it.
Drawing == {w \in Workers : txn[w].kind = "write" /\ txn[w].pc \notin {"idle", "record", "commit"}}

VersionLeft == minted + Cardinality(Drawing) < VersionBound

Call(w) ==
  /\ txn[w].pc = "idle"
  /\ \E kind \in Kinds, p \in Paths, c \in Contents \cup {NoContent},
        e \in shown \cup {NoVersion}, op \in OpIds \cup {NoOp} :
       /\ (kind = "write") <=> (c # NoContent)
       /\ kind = "write" => VersionLeft
       /\ Owner(w, p) # NoOwner
       /\ txn' = [txn EXCEPT ![w] =
            [pc |-> IF op = NoOp THEN "select" ELSE "receipt",
             kind |-> kind, owner |-> Owner(w, p), path |-> p, content |-> c,
             expected |-> e, op |-> op, row |-> NoRow, version |-> NoVersion]]
  /\ UNCHANGED <<tables, purging, history>>

\* A refused anonymous caller's write is not kept; it gets a made-up version.
UnpersistedWrite(w) ==
  /\ txn[w].pc = "idle"
  /\ VersionLeft
  /\ \E p \in Paths : Owner(w, p) = NoOwner
  /\ minted' = minted + 1
  /\ shown' = shown \cup {minted'}
  /\ UNCHANGED <<tables, txn, purging, answers>>

\* A known id with the same fingerprint is a replay of the recorded result.
Replay(w) ==
  LET r == receipts[OpKey(w)]
  IN  /\ txn[w].pc = "receipt"
      /\ r # NoReceipt
      /\ r.fingerprint = Fingerprint(w)
      /\ answers' = answers \cup
           {[key |-> OpKey(w), fingerprint |-> Fingerprint(w), version |-> r.version]}
      /\ Leave(w)
      /\ UNCHANGED <<tables, purging, minted, shown>>

\* MemoryOperationConflictError: the id was used with other arguments.
RefuseReusedId(w) ==
  /\ txn[w].pc = "receipt"
  /\ receipts[OpKey(w)] # NoReceipt
  /\ receipts[OpKey(w)].fingerprint # Fingerprint(w)
  /\ Leave(w)
  /\ UNCHANGED <<tables, purging, history>>

NoReceiptFound(w) ==
  /\ txn[w].pc = "receipt"
  /\ receipts[OpKey(w)] = NoReceipt
  /\ Goto(w, "select")
  /\ UNCHANGED <<tables, purging, history>>

RowIsFreeSlip(w) == w \in Workers    \* a bare read

\* The locking read waits while another transaction holds the row.
RowIsFree(w) == \A x \in Workers \ {w} : ~ Locks(x, Key(w))

\* MemoryConflictError: the file is not at the version the caller expected.
RefuseStale(w) ==
  /\ txn[w].pc = "select"
  /\ RowIsFree(w)
  /\ VersionOf(memory[Key(w)]) # txn[w].expected
  /\ Leave(w)
  /\ UNCHANGED <<tables, purging, history>>

SelectForUpdateSlip(w) ==    \* no compare before the set
  LET row == memory[Key(w)]
  IN  /\ txn[w].pc = "select"
      /\ RowIsFree(w)
      /\ txn' = [txn EXCEPT ![w].row = row,
            ![w].pc = IF txn[w].kind = "write"
                      THEN IF row = NoRow THEN "count" ELSE "sum"
                      ELSE IF row = NoRow THEN AfterStore(w) ELSE "store"]
      /\ UNCHANGED <<tables, purging, history>>

\* The version matches; what is next depends on the call and on the row.
SelectForUpdate(w) ==
  LET row == memory[Key(w)]
      next == IF txn[w].kind = "delete"
              THEN IF row = NoRow THEN AfterStore(w) ELSE "store"
              ELSE IF row = NoRow THEN "count" ELSE "sum"
  IN  /\ txn[w].pc = "select"
      /\ RowIsFree(w)
      /\ VersionOf(row) = txn[w].expected
      /\ txn' = [txn EXCEPT ![w].pc = next, ![w].row = row]
      /\ UNCHANGED <<tables, purging, history>>

\* _check_ceilings: the owner's other files, as committed when it looks.
Others(w) == {k \in Keys : k[1] = txn[w].owner /\ k # Key(w) /\ memory[k] # NoRow}

FileTooManySlip(w) == Cardinality(Others(w)) > MaxFiles

FileTooMany(w) == Cardinality(Others(w)) + 1 > MaxFiles

\* sum(len(content)) of the files with these keys.
Chars(rows, keys) == MapThenSumSet(LAMBDA k : Length[rows[k].content], keys)

TotalTooLongSlip(w) ==    \* measures the content before it is escaped
  Chars(memory, Others(w)) + Length[txn[w].content] > MaxTotalChars

TotalTooLong(w) == Chars(memory, Others(w)) + Length[Escape[txn[w].content]] > MaxTotalChars

CountFiles(w) ==
  /\ txn[w].pc = "count"
  /\ IF FileTooMany(w) THEN Leave(w) ELSE Goto(w, "sum")
  /\ UNCHANGED <<tables, purging, history>>

SumChars(w) ==
  /\ txn[w].pc = "sum"
  /\ IF TotalTooLong(w) THEN Leave(w) ELSE Goto(w, "store")
  /\ UNCHANGED <<tables, purging, history>>

FreshVersionSlip(w) == VersionOf(txn[w].row) + 1    \* a counter

FreshVersion(w) == minted + 1

\* The unique index on (owner, path): an insert waits for the transaction
\* that has an uncommitted change of that row, then fails if the row is there.
IndexIsFree(w) == \A x \in Workers \ {w} : ~ Staged(x, Key(w))

CreateRow(w) ==
  /\ txn[w].pc = "store" /\ txn[w].kind = "write" /\ txn[w].row = NoRow
  /\ IndexIsFree(w)
  /\ memory[Key(w)] = NoRow
  /\ txn' = [txn EXCEPT ![w].pc = AfterStore(w), ![w].version = FreshVersion(w)]
  /\ minted' = minted + 1
  /\ UNCHANGED <<tables, purging, shown, answers>>

\* IntegrityError: the transaction rolls back and the error reaches the caller.
CreateCollides(w) ==
  /\ txn[w].pc = "store" /\ txn[w].kind = "write" /\ txn[w].row = NoRow
  /\ IndexIsFree(w)
  /\ memory[Key(w)] # NoRow
  /\ Leave(w)
  /\ minted' = minted + 1
  /\ UNCHANGED <<tables, purging, shown, answers>>

UpdateRow(w) ==
  /\ txn[w].pc = "store" /\ txn[w].kind = "write" /\ txn[w].row # NoRow
  /\ txn' = [txn EXCEPT ![w].pc = AfterStore(w), ![w].version = FreshVersion(w)]
  /\ minted' = minted + 1
  /\ UNCHANGED <<tables, purging, shown, answers>>

DeleteRow(w) ==
  /\ txn[w].pc = "store" /\ txn[w].kind = "delete"
  /\ Goto(w, AfterStore(w))
  /\ UNCHANGED <<tables, purging, history>>

\* _record inserts the receipt, under the unique index on (owner, operation_id).
ReceiptIsFree(w) == \A x \in Workers \ {w} : ~ StagedReceipt(x, OpKey(w))

RecordSlip(w) ==    \* update_or_create: a second receipt replaces the first
  /\ txn[w].pc = "record"
  /\ ReceiptIsFree(w)
  /\ Goto(w, "commit")
  /\ UNCHANGED <<tables, purging, history>>

Record(w) ==
  /\ txn[w].pc = "record"
  /\ ReceiptIsFree(w)
  /\ IF receipts[OpKey(w)] = NoReceipt THEN Goto(w, "commit") ELSE Leave(w)
  /\ UNCHANGED <<tables, purging, history>>

MemoryAfterSlip(w) ==    \* the update leaves operation_id as it was
  IF txn[w].kind = "write"
  THEN [memory EXCEPT ![Key(w)] =
          [content |-> Escape[txn[w].content], version |-> txn[w].version,
           op |-> IF txn[w].row = NoRow THEN txn[w].op ELSE txn[w].row.op]]
  ELSE IF txn[w].row # NoRow THEN [memory EXCEPT ![Key(w)] = NoRow] ELSE memory

MemoryAfter(w) ==
  IF txn[w].kind = "write"
  THEN [memory EXCEPT ![Key(w)] =
          [content |-> Escape[txn[w].content], version |-> txn[w].version, op |-> txn[w].op]]
  ELSE IF txn[w].row # NoRow THEN [memory EXCEPT ![Key(w)] = NoRow] ELSE memory

ReceiptsAfterSlip(w) ==    \* existed holds the row
  IF txn[w].op = NoOp
  THEN receipts
  ELSE [receipts EXCEPT ![OpKey(w)] =
          [fingerprint |-> Fingerprint(w), version |-> txn[w].version,
           existed |-> txn[w].row]]

ReceiptsAfter(w) ==
  IF txn[w].op = NoOp
  THEN receipts
  ELSE [receipts EXCEPT ![OpKey(w)] =
          [fingerprint |-> Fingerprint(w), version |-> txn[w].version,
           existed |-> txn[w].row # NoRow]]

\* The atomic block ends: row and receipt become visible together, and the
\* caller is answered.
Commit(w) ==
  /\ txn[w].pc = "commit"
  /\ memory' = MemoryAfter(w)
  /\ receipts' = ReceiptsAfter(w)
  /\ shown' = IF txn[w].kind = "write" THEN shown \cup {txn[w].version} ELSE shown
  /\ answers' = IF txn[w].op = NoOp THEN answers
                ELSE answers \cup {[key |-> OpKey(w), fingerprint |-> Fingerprint(w),
                                    version |-> txn[w].version]}
  /\ Leave(w)
  /\ UNCHANGED <<purging, minted>>

\* The process or its connection dies inside the block: all is rolled back.
Abort(w) ==
  /\ txn[w].pc # "idle"
  /\ Leave(w)
  /\ UNCHANGED <<tables, purging, history>>

-----------------------------------------------------------------------------
(* purge(owner_id): two statements, each committed on its own.  A purge    *)
(* that dies in between is one that never takes its second step, and one   *)
(* that is run again starts over.                                          *)

PurgeReceipts(o) ==
  /\ receipts' = [r \in OpKeys |-> IF r[1] = o THEN NoReceipt ELSE receipts[r]]
  /\ purging' = purging \cup {o}
  /\ answers' = {a \in answers : a.key[1] # o}
  /\ UNCHANGED <<memory, txn, minted, shown>>

PurgeRows(o) ==
  /\ o \in purging
  /\ \A k \in Keys, w \in Workers : Locks(w, k) => k[1] # o
  /\ memory' = [k \in Keys |-> IF k[1] = o THEN NoRow ELSE memory[k]]
  /\ purging' = purging \ {o}
  /\ UNCHANGED <<receipts, txn, history>>

-----------------------------------------------------------------------------
\* The statements of a call that is under way.
Statement(w) ==
  \/ Replay(w) \/ RefuseReusedId(w) \/ NoReceiptFound(w)
  \/ RefuseStale(w) \/ SelectForUpdate(w)
  \/ CountFiles(w) \/ SumChars(w)
  \/ CreateRow(w) \/ CreateCollides(w) \/ UpdateRow(w) \/ DeleteRow(w)
  \/ Record(w) \/ Commit(w)

Next ==
  \/ \E w \in Workers : Call(w) \/ UnpersistedWrite(w) \/ Statement(w) \/ Abort(w)
  \/ \E o \in Owners : PurgeReceipts(o) \/ PurgeRows(o)

Spec == Init /\ [][Next]_vars

\* The database grants a lock to its waiters in turn, so a statement that is
\* enabled again and again is eventually run: strong fairness.
Fairness == \A w \in Workers : SF_vars(Statement(w))

FairSpec == Spec /\ Fairness
=============================================================================
