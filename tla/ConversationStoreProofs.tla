---------------------- MODULE ConversationStoreProofs ----------------------
(***************************************************************************)
(* What the attachment and conversation tables promise with any number of  *)
(* workers whose steps interleave, of owners, uploads and conversations,   *)
(* with crashes and lost blobs.                                            *)
(*                                                                         *)
(* An operation reads rows and uses what it read several steps later, so   *)
(* the invariant says of each such reading what is still true of it when   *)
(* it is used: the stored name an upload adopts is claimed for one owner   *)
(* and one file by everybody who claims it, and a blob under a claimed     *)
(* name holds those bytes or none.                                         *)
(***************************************************************************)
EXTENDS ConversationStoreProperties, TLAPS, FiniteSetTheorems

\* Where an upload and an operation on a conversation have their locals set.
UploadPcs == {"twins", "probe", "insert"}

ThreadPcs ==
  {"get", "update", "resolve", "linked", "missing", "link", "collect", "erase", "strip"}

\* What an operation's locals hold where its next steps use them.
Fits(x) ==
  /\ x.pc \in UploadPcs => x.id \in Ids /\ x.owner \in Owners /\ x.digest \in Digests
  /\ x.pc \in {"insert", "shared", "unlink"} => x.file \in Ids
  /\ x.pc = "hash" => x.id \in Ids /\ x.digest \in Digests
  /\ x.pc \in ThreadPcs => x.thread \in Threads
  /\ x.pc \in {"update", "resolve", "linked", "missing", "link"} => x.pk \in 1..PkBound

LocalsOK == \A w \in Workers : Fits(op[w])

Types == TypeOK /\ LocalsOK

-----------------------------------------------------------------------------
(* Types                                                                   *)

\* A worker without an operation has well-formed locals,
LEMMA IdleOK == Idle \in Operation
BY ConversationAssumption DEF Idle, Operation

\* and none that mean anything.
LEMMA IdleFits == Fits(Idle)
BY DEF Fits, UploadPcs, ThreadPcs, Idle

\* One local changed to another value of its kind leaves an operation one.
LEMMA FieldsFit ==
  ASSUME NEW o \in Operation
  PROVE  /\ \A x \in {"idle", "twins", "probe", "insert", "delete", "shared", "unlink", "get",
                      "update", "resolve", "linked", "missing", "link", "raised", "collect",
                      "erase", "orphans", "hash", "strip"} : [o EXCEPT !.pc = x] \in Operation
         /\ \A x \in Owners \cup {NoOwner} : [o EXCEPT !.owner = x] \in Operation
         /\ \A x \in Digests \cup {NoDigest} : [o EXCEPT !.digest = x] \in Operation
         /\ \A x \in Ids \cup {NoFile} : [o EXCEPT !.id = x] \in Operation
         /\ \A x \in Ids \cup {NoFile} : [o EXCEPT !.file = x] \in Operation
         /\ \A x \in SUBSET Ids : [o EXCEPT !.names = x] \in Operation
         /\ \A x \in SUBSET Ids : [o EXCEPT !.quoted = x] \in Operation
         /\ \A x \in SUBSET Ids : [o EXCEPT !.found = x] \in Operation
         /\ \A x \in SUBSET Ids : [o EXCEPT !.drop = x] \in Operation
         /\ \A x \in SUBSET (Ids \X (Ids \cup {NoFile})) : [o EXCEPT !.todo = x] \in Operation
         /\ \A x \in Nat : [o EXCEPT !.freed = x] \in Operation
         /\ \A x \in Nat : [o EXCEPT !.forecast = x] \in Operation
         /\ \A x \in Threads \cup {NoThread} : [o EXCEPT !.thread = x] \in Operation
         /\ \A x \in 0..PkBound : [o EXCEPT !.pk = x] \in Operation
         /\ \A x \in BOOLEAN : [o EXCEPT !.inline = x] \in Operation
<1>1. \A x \in {"idle", "twins", "probe", "insert", "delete", "shared", "unlink", "get",
              "update", "resolve", "linked", "missing", "link", "raised", "collect",
              "erase", "orphans", "hash", "strip"} : [o EXCEPT !.pc = x] \in Operation
  BY DEF Operation
<1>2. \A x \in Owners \cup {NoOwner} : [o EXCEPT !.owner = x] \in Operation
  BY DEF Operation
<1>3. \A x \in Digests \cup {NoDigest} : [o EXCEPT !.digest = x] \in Operation
  BY DEF Operation
<1>4. \A x \in Ids \cup {NoFile} : [o EXCEPT !.id = x] \in Operation
  BY DEF Operation
<1>5. \A x \in Ids \cup {NoFile} : [o EXCEPT !.file = x] \in Operation
  BY DEF Operation
<1>6. \A x \in SUBSET Ids : [o EXCEPT !.names = x] \in Operation
  BY DEF Operation
<1>7. \A x \in SUBSET Ids : [o EXCEPT !.quoted = x] \in Operation
  BY DEF Operation
<1>8. \A x \in SUBSET Ids : [o EXCEPT !.found = x] \in Operation
  BY DEF Operation
<1>9. \A x \in SUBSET Ids : [o EXCEPT !.drop = x] \in Operation
  BY DEF Operation
<1>10. \A x \in SUBSET (Ids \X (Ids \cup {NoFile})) : [o EXCEPT !.todo = x] \in Operation
  BY DEF Operation
<1>11. \A x \in Nat : [o EXCEPT !.freed = x] \in Operation
  BY DEF Operation
<1>12. \A x \in Nat : [o EXCEPT !.forecast = x] \in Operation
  BY DEF Operation
<1>13. \A x \in Threads \cup {NoThread} : [o EXCEPT !.thread = x] \in Operation
  BY DEF Operation
<1>14. \A x \in 0..PkBound : [o EXCEPT !.pk = x] \in Operation
  BY DEF Operation
<1>15. \A x \in BOOLEAN : [o EXCEPT !.inline = x] \in Operation
  BY DEF Operation
<1>. QED
  BY <1>1, <1>2, <1>3, <1>4, <1>5, <1>6, <1>7, <1>8, <1>9, <1>10, <1>11, <1>12, <1>13, <1>14, <1>15

\* The tables hold what earlier releases stored, and the workers are idle.
LEMMA TypeInit == Init => Types
<1> SUFFICES ASSUME Init PROVE Types
  OBVIOUS
<1>1. op = [w \in Workers |-> Idle]
  BY DEF Init, AttachmentInit
<1>2. LocalsOK
  BY <1>1, IdleFits DEF LocalsOK
<1>3. rows \in [Ids -> Row \cup {NoRow}] /\ blobs \in [Ids -> Digests \cup {NoDigest}]
      /\ links = {} /\ issued \subseteq Ids
  <2>1. PICK stored \in [Legacy -> LegacyRow] :
       /\ rows = [i \in Ids |-> IF i \in Legacy THEN stored[i] ELSE NoRow]
       /\ blobs = [i \in Ids |-> IF i \in Legacy /\ stored[i].file = i
                                 THEN stored[i].holds ELSE NoDigest]
    BY DEF Init, AttachmentInit
  <2>2. \A i \in Legacy : stored[i] \in Row /\ stored[i].holds \in Digests
    BY <2>1 DEF LegacyRow, Row
  <2>3. QED
    BY <2>1, <2>2, AttachmentAssumption DEF Init, AttachmentInit
<1>4. QED
  BY <1>1, <1>2, <1>3, IdleOK, ConversationAssumption DEF Init, Types, TypeOK

\* A worker moves on to well-formed locals.
LEMMA MoveTypes ==
  ASSUME Types, NEW w \in Workers, NEW to \in Operation, op' = [op EXCEPT ![w] = to], Fits(to)
  PROVE  op' \in [Workers -> Operation] /\ LocalsOK'
<1>1. op \in [Workers -> Operation]
  BY DEF Types, TypeOK
<1>2. op' \in [Workers -> Operation]
  BY <1>1
<1>3. ASSUME NEW v \in Workers
      PROVE  op'[v] = IF v = w THEN to ELSE op[v]
  BY <1>1
<1>4. LocalsOK'
  BY <1>3 DEF Types, LocalsOK, Fits
<1>5. QED
  BY <1>2, <1>4

\* An operation starts with locals that name its call.
LEMMA StartTypes ==
  ASSUME Types, NEW w \in Workers, NEW from \in Operation, Fits(from),
         NEW call \in {"upload", "remove", "save", "drop", "prune", "backfill", "strip"},
         Start(w, call, from)
  PROVE  op' \in [Workers -> Operation] /\ LocalsOK'
<1> DEFINE to == [from EXCEPT !.call = call]
<1>1. to \in Operation
  BY DEF Operation
<1>2. /\ to.pc = from.pc /\ to.id = from.id /\ to.owner = from.owner
      /\ to.digest = from.digest /\ to.file = from.file /\ to.thread = from.thread
      /\ to.pk = from.pk
  BY DEF Operation
<1>3. op' = [op EXCEPT ![w] = to]
  BY DEF Start
<1> HIDE DEF to
<1>4. Fits(to)
  BY <1>2 DEF Fits
<1>5. QED
  BY <1>1, <1>3, <1>4, MoveTypes

\* The types of the operations and of the tables, put together.
LEMMA TypeOfMove ==
  ASSUME Types, NEW w \in Workers, op' \in [Workers -> Operation], LocalsOK',
         rows' \in [Ids -> Row \cup {NoRow}], blobs' \in [Ids -> Digests \cup {NoDigest}],
         links' \subseteq (1..PkBound) \X Ids, issued' \subseteq Ids,
         conversations' \in [Threads -> Conversation \cup {NoConversation}],
         lastPk' \in 0..PkBound
  PROVE  Types'
BY DEF Types, TypeOK

\* A worker's operation is one.
LEMMA OpTyped ==
  ASSUME Types, NEW w \in Workers
  PROVE  op[w] \in Operation /\ op \in [Workers -> Operation]
BY DEF Types, TypeOK

\* A row that is there has its columns.
LEMMA RowTyped ==
  ASSUME Types, NEW i \in Ids, Exists(i)
  PROVE  /\ rows[i] \in Row
         /\ rows[i].owner \in Owners /\ rows[i].sha256 \in Digests \cup {NoDigest}
         /\ rows[i].file \in Ids \cup {NoFile} /\ rows[i].holds \in Digests
BY DEF Types, TypeOK, Exists, Row

\* So has a conversation.
LEMMA ConversationTyped ==
  ASSUME Types, NEW t \in Threads, Stored(t)
  PROVE  /\ conversations[t] \in Conversation
         /\ conversations[t].pk \in 1..PkBound /\ conversations[t].quoted \subseteq Ids
         /\ conversations[t].inline \in BOOLEAN
BY DEF Types, TypeOK, Stored, Conversation

\* An operation that returns leaves well-formed locals,
LEMMA ReturnTypes ==
  ASSUME Types, NEW w \in Workers, Return(w)
  PROVE  op' \in [Workers -> Operation] /\ LocalsOK'
BY IdleOK, IdleFits, MoveTypes DEF Return

\* and so do the steps of an upload,
LEMMA UploadTypes ==
  ASSUME Types, NEW w \in Workers,
         Upload(w) \/ FindTwins(w) \/ Probe(w) \/ WriteBlob(w) \/ InsertRow(w)
  PROVE  op' \in [Workers -> Operation] /\ LocalsOK'
<1>0. op[w] \in Operation /\ Fits(op[w])
  BY OpTyped DEF Types, LocalsOK
<1> USE DEF UploadPcs
<1>1. CASE Upload(w)
  <2>1. PICK i \in Ids, o \in Owners, d \in Digests :
          Start(w, "upload", [Idle EXCEPT !.pc = "twins", !.id = i, !.owner = o, !.digest = d])
    BY <1>1 DEF Upload
  <2> DEFINE from == [Idle EXCEPT !.pc = "twins", !.id = i, !.owner = o, !.digest = d]
  <2>2. from \in Operation
    BY IdleOK, FieldsFit
  <2>3. from.pc = "twins" /\ from.id = i /\ from.owner = o /\ from.digest = d
    BY DEF Idle
  <2> HIDE DEF from
  <2>4. Fits(from)
    BY <2>3 DEF Fits, ThreadPcs
  <2>5. QED
    BY <2>1, <2>2, <2>4, StartTypes DEF from
<1>2. CASE FindTwins(w)
  <2> DEFINE names == Names(Twins(op[w].owner, op[w].digest))
             to == [op[w] EXCEPT !.pc = "probe", !.names = names]
  <2>1. names \subseteq Ids
    BY RowTyped DEF Names, Twins
  <2>2. op' = [op EXCEPT ![w] = to]
    BY <1>2 DEF FindTwins
  <2> HIDE DEF names
  <2>3. to \in Operation
    BY <1>0, <2>1, FieldsFit
  <2>4. /\ to.pc = "probe" /\ to.id = op[w].id /\ to.owner = op[w].owner
        /\ to.digest = op[w].digest
    BY <1>0 DEF Operation
  <2> HIDE DEF to
  <2>5. QED
    BY <1>0, <1>2, <2>2, <2>3, <2>4, MoveTypes DEF FindTwins, Fits, ThreadPcs
<1>3. CASE Probe(w)
  <2>1. PICK n \in op[w].names :
       op' = IF Adopts(n)
             THEN [op EXCEPT ![w].pc = "insert", ![w].file = n, ![w].names = {}]
             ELSE [op EXCEPT ![w].names = @ \ {n}]
    BY <1>3 DEF Probe
  <2>2. n \in Ids
    BY <1>0, <2>1 DEF Operation
  <2>3. CASE Adopts(n)
    <3> DEFINE to == [op[w] EXCEPT !.pc = "insert", !.file = n, !.names = {}]
    <3>1. op' = [op EXCEPT ![w] = to]
      BY <2>1, <2>3
    <3>2. to \in Operation
      BY <1>0, <2>2, FieldsFit
    <3>3. /\ to.pc = "insert" /\ to.id = op[w].id /\ to.owner = op[w].owner
          /\ to.digest = op[w].digest /\ to.file = n
      BY <1>0 DEF Operation
    <3> HIDE DEF to
    <3>4. QED
      BY <1>3, <2>2, <3>1, <3>2, <3>3, <1>0, MoveTypes DEF Probe, Fits, ThreadPcs
  <2>4. CASE ~ Adopts(n)
    <3> DEFINE names == op[w].names \ {n}
               to == [op[w] EXCEPT !.names = names]
    <3>1. op' = [op EXCEPT ![w] = to]
      BY <2>1, <2>4
    <3>2. names \subseteq Ids
      BY <1>0 DEF Operation
    <3> HIDE DEF names
    <3>3. to \in Operation
      BY <1>0, <3>2, FieldsFit
    <3>4. /\ to.pc = op[w].pc /\ to.id = op[w].id /\ to.owner = op[w].owner
          /\ to.digest = op[w].digest /\ to.file = op[w].file
      BY <1>0 DEF Operation
    <3> HIDE DEF to
    <3>5. QED
      BY <1>3, <3>1, <3>3, <3>4, <1>0, MoveTypes DEF Probe, Fits, ThreadPcs
  <2>5. QED
    BY <2>3, <2>4
<1>4. CASE WriteBlob(w)
  <2> DEFINE to == [op[w] EXCEPT !.pc = "insert", !.file = op[w].id]
  <2>1. op' = [op EXCEPT ![w] = to]
    BY <1>4 DEF WriteBlob
  <2>2. op[w].id \in Ids /\ op[w].owner \in Owners /\ op[w].digest \in Digests
    BY <1>0, <1>4 DEF WriteBlob, Fits
  <2>3. to \in Operation
    BY <1>0, <2>2, FieldsFit
  <2>4. /\ to.pc = "insert" /\ to.id = op[w].id /\ to.owner = op[w].owner
        /\ to.digest = op[w].digest /\ to.file = op[w].id
    BY <1>0 DEF Operation
  <2> HIDE DEF to
  <2>5. QED
    BY <2>1, <2>2, <2>3, <2>4, MoveTypes DEF Fits, ThreadPcs
<1>5. CASE InsertRow(w)
  BY <1>5, ReturnTypes DEF InsertRow
<1>6. QED
  BY <1>1, <1>2, <1>3, <1>4, <1>5

\* of a deletion, and a crash,
LEMMA DeletionTypes ==
  ASSUME Types, NEW w \in Workers,
         \/ Remove(w) \/ DeleteRow(w) \/ CheckShared(w) \/ DeleteBlob(w) \/ Deleted(w)
         \/ Crash(w)
  PROVE  op' \in [Workers -> Operation] /\ LocalsOK'
<1>0. op[w] \in Operation /\ Fits(op[w])
  BY OpTyped DEF Types, LocalsOK
<1> USE DEF Fits, UploadPcs, ThreadPcs
<1>1. CASE Remove(w)
  <2>1. PICK i \in issued : Exists(i) /\ Start(w, "remove", [Idle EXCEPT !.pc = "delete", !.todo = Loaded({i})])
    BY <1>1 DEF Remove
  <2> DEFINE todo == Loaded({i})
             from == [Idle EXCEPT !.pc = "delete", !.todo = todo]
  <2>2. i \in Ids
    BY DEF Types, TypeOK
  <2>3. todo \subseteq Ids \X (Ids \cup {NoFile})
    BY <2>1, <2>2, RowTyped DEF Loaded
  <2> HIDE DEF todo
  <2>4. from \in Operation
    BY <2>3, IdleOK, FieldsFit
  <2>5. from.pc = "delete"
    BY DEF Idle
  <2>6. Start(w, "remove", from)
    BY <2>1 DEF todo
  <2> HIDE DEF from
  <2>7. QED
    BY <2>4, <2>5, <2>6, StartTypes
<1>2. CASE DeleteRow(w)
  <2>1. PICK a \in op[w].todo :
          op' = [op EXCEPT ![w].pc = IF a[2] = NoFile THEN "delete" ELSE "shared",
                           ![w].todo = @ \ {a}, ![w].file = a[2]]
    BY <1>2 DEF DeleteRow
  <2> DEFINE todo == op[w].todo \ {a}
             file == a[2]
  <2>2. todo \subseteq Ids \X (Ids \cup {NoFile}) /\ file \in Ids \cup {NoFile}
    BY <1>0, <2>1 DEF Operation
  <2>3. CASE file = NoFile
    <3> DEFINE to == [op[w] EXCEPT !.pc = "delete", !.todo = todo, !.file = file]
    <3>1. op' = [op EXCEPT ![w] = to]
      BY <2>1, <2>3
    <3> HIDE DEF todo, file
    <3>2. to \in Operation
      BY <1>0, <2>2, FieldsFit
    <3>3. to.pc = "delete"
      BY <1>0 DEF Operation
    <3> HIDE DEF to
    <3>4. QED
      BY <3>1, <3>2, <3>3, MoveTypes
  <2>4. CASE file # NoFile
    <3> DEFINE to == [op[w] EXCEPT !.pc = "shared", !.todo = todo, !.file = file]
    <3>1. op' = [op EXCEPT ![w] = to]
      BY <2>1, <2>4
    <3> HIDE DEF todo, file
    <3>2. to \in Operation
      BY <1>0, <2>2, FieldsFit
    <3>3. to.pc = "shared" /\ to.file = file
      BY <1>0 DEF Operation
    <3> HIDE DEF to
    <3>4. QED
      BY <2>2, <2>4, <3>1, <3>2, <3>3, MoveTypes
  <2>5. QED
    BY <2>3, <2>4
<1>3. CASE CheckShared(w)
  <2> DEFINE pc == IF Shared(op[w].file) THEN "delete" ELSE "unlink"
             to == [op[w] EXCEPT !.pc = pc]
  <2>1. op' = [op EXCEPT ![w] = to]
    BY <1>3 DEF CheckShared
  <2>2. pc \in {"delete", "unlink"}
    OBVIOUS
  <2> HIDE DEF pc
  <2>3. to \in Operation
    BY <1>0, <2>2, FieldsFit
  <2>4. to.pc = pc /\ to.file = op[w].file
    BY <1>0 DEF Operation
  <2> HIDE DEF to
  <2>5. QED
    BY <1>0, <1>3, <2>1, <2>2, <2>3, <2>4, MoveTypes DEF CheckShared
<1>4. CASE DeleteBlob(w)
  <2> DEFINE freed == op[w].freed + 1
             to == [op[w] EXCEPT !.pc = "delete", !.freed = freed]
  <2>1. op' = [op EXCEPT ![w] = to]
    BY <1>4 DEF DeleteBlob
  <2>2. freed \in Nat
    BY <1>0 DEF Operation
  <2> HIDE DEF freed
  <2>3. to \in Operation
    BY <1>0, <2>2, FieldsFit
  <2>4. to.pc = "delete"
    BY <1>0 DEF Operation
  <2> HIDE DEF to
  <2>5. QED
    BY <2>1, <2>3, <2>4, MoveTypes
<1>5. CASE Deleted(w)
  BY <1>5, ReturnTypes DEF Deleted
<1>6. CASE Crash(w)
  BY <1>6, ReturnTypes DEF Crash
<1>7. QED
  BY <1>1, <1>2, <1>3, <1>4, <1>5, <1>6

\* of a save,
LEMMA SaveTypes ==
  ASSUME Types, NEW w \in Workers,
         \/ Save(w) \/ GetConversation(w) \/ CreateConversation(w) \/ UpdateMessages(w)
         \/ Resolve(w) \/ ReadLinks(w) \/ FindMissing(w) \/ SetLinks(w) \/ SetLinksFails(w)
         \/ Raise(w)
  PROVE  op' \in [Workers -> Operation] /\ LocalsOK'
<1>0. op[w] \in Operation /\ Fits(op[w])
  BY OpTyped DEF Types, LocalsOK
<1> USE DEF Fits, UploadPcs, ThreadPcs
<1>1. CASE Save(w)
  <2>1. PICK t \in Threads, q \in SUBSET issued, b \in InlineParts :
          Start(w, "save", [Idle EXCEPT !.pc = "get", !.thread = t, !.quoted = q, !.inline = b])
    BY <1>1 DEF Save
  <2> DEFINE from == [Idle EXCEPT !.pc = "get", !.thread = t, !.quoted = q, !.inline = b]
  <2>2. q \subseteq Ids /\ b \in BOOLEAN
    BY ConversationAssumption DEF Types, TypeOK
  <2>3. from \in Operation
    BY <2>2, IdleOK, FieldsFit
  <2>4. from.pc = "get" /\ from.thread = t
    BY DEF Idle
  <2> HIDE DEF from
  <2>5. QED
    BY <2>1, <2>3, <2>4, StartTypes DEF from
<1>2. CASE GetConversation(w)
  <2> DEFINE pk == conversations[op[w].thread].pk
             to == [op[w] EXCEPT !.pc = "update", !.pk = pk]
  <2>1. op' = [op EXCEPT ![w] = to]
    BY <1>2 DEF GetConversation
  <2>2. op[w].thread \in Threads /\ pk \in 1..PkBound
    BY <1>0, <1>2, ConversationTyped DEF GetConversation
  <2> HIDE DEF pk
  <2>3. pk \in 0..PkBound
    BY <2>2, ConversationAssumption
  <2>4. to \in Operation
    BY <1>0, <2>3, FieldsFit
  <2>5. to.pc = "update" /\ to.thread = op[w].thread /\ to.pk = pk
    BY <1>0 DEF Operation
  <2> HIDE DEF to
  <2>6. QED
    BY <2>1, <2>2, <2>4, <2>5, MoveTypes
<1>3. CASE CreateConversation(w)
  <2> DEFINE pk == lastPk + 1
             to == [op[w] EXCEPT !.pc = "resolve", !.pk = pk]
  <2>1. op' = [op EXCEPT ![w] = to]
    BY <1>3 DEF CreateConversation
  <2>2. op[w].thread \in Threads /\ pk \in 1..PkBound
    BY <1>0, <1>3, ConversationAssumption DEF CreateConversation, Types, TypeOK
  <2> HIDE DEF pk
  <2>3. pk \in 0..PkBound
    BY <2>2, ConversationAssumption
  <2>4. to \in Operation
    BY <1>0, <2>3, FieldsFit
  <2>5. to.pc = "resolve" /\ to.thread = op[w].thread /\ to.pk = pk
    BY <1>0 DEF Operation
  <2> HIDE DEF to
  <2>6. QED
    BY <2>1, <2>2, <2>4, <2>5, MoveTypes
<1>4. CASE UpdateMessages(w)
  <2> DEFINE to == [op[w] EXCEPT !.pc = "resolve"]
  <2>1. op' = [op EXCEPT ![w] = to]
    BY <1>4 DEF UpdateMessages
  <2>2. to \in Operation
    BY <1>0, FieldsFit
  <2>3. to.pc = "resolve" /\ to.thread = op[w].thread /\ to.pk = op[w].pk
    BY <1>0 DEF Operation
  <2> HIDE DEF to
  <2>4. QED
    BY <1>0, <1>4, <2>1, <2>2, <2>3, MoveTypes DEF UpdateMessages
<1>5. CASE Resolve(w)
  <2> DEFINE found == Resolvable(op[w].thread, op[w].quoted)
             to == [op[w] EXCEPT !.pc = "linked", !.found = found]
  <2>1. op' = [op EXCEPT ![w] = to]
    BY <1>5 DEF Resolve
  <2>2. found \subseteq Ids
    BY <1>0 DEF Operation, Resolvable
  <2> HIDE DEF found
  <2>3. to \in Operation
    BY <1>0, <2>2, FieldsFit
  <2>4. to.pc = "linked" /\ to.thread = op[w].thread /\ to.pk = op[w].pk
    BY <1>0 DEF Operation
  <2> HIDE DEF to
  <2>5. QED
    BY <1>0, <1>5, <2>1, <2>3, <2>4, MoveTypes DEF Resolve
<1>6. CASE ReadLinks(w)
  <2> DEFINE drop == Linked(op[w].pk) \ op[w].found
             found == op[w].found \ Linked(op[w].pk)
             to == [op[w] EXCEPT !.pc = "missing", !.drop = drop, !.found = found]
  <2>1. op' = [op EXCEPT ![w] = to]
    BY <1>6 DEF ReadLinks
  <2>2. drop \subseteq Ids /\ found \subseteq Ids
    BY <1>0 DEF Operation, Linked, LinksOf, Types, TypeOK
  <2> HIDE DEF drop, found
  <2>3. to \in Operation
    BY <1>0, <2>2, FieldsFit
  <2>4. to.pc = "missing" /\ to.thread = op[w].thread /\ to.pk = op[w].pk
    BY <1>0 DEF Operation
  <2> HIDE DEF to
  <2>5. QED
    BY <1>0, <1>6, <2>1, <2>3, <2>4, MoveTypes DEF ReadLinks
<1>7. CASE FindMissing(w)
  <2> DEFINE found == op[w].found \ Linked(op[w].pk)
             to == [op[w] EXCEPT !.pc = "link", !.found = found]
  <2>1. op' = [op EXCEPT ![w] = to]
    BY <1>7 DEF FindMissing
  <2>2. found \subseteq Ids
    BY <1>0 DEF Operation
  <2> HIDE DEF found
  <2>3. to \in Operation
    BY <1>0, <2>2, FieldsFit
  <2>4. to.pc = "link" /\ to.thread = op[w].thread /\ to.pk = op[w].pk
    BY <1>0 DEF Operation
  <2> HIDE DEF to
  <2>5. QED
    BY <1>0, <1>7, <2>1, <2>3, <2>4, MoveTypes DEF FindMissing
<1>8. CASE SetLinks(w) \/ Raise(w)
  BY <1>8, ReturnTypes DEF SetLinks, Raise
<1>9. CASE SetLinksFails(w)
  <2> DEFINE to == [op[w] EXCEPT !.pc = "raised"]
  <2>1. op' = [op EXCEPT ![w] = to]
    BY <1>9 DEF SetLinksFails
  <2>2. to \in Operation
    BY <1>0, FieldsFit
  <2>3. to.pc = "raised"
    BY <1>0 DEF Operation
  <2> HIDE DEF to
  <2>4. QED
    BY <2>1, <2>2, <2>3, MoveTypes
<1>10. QED
  BY <1>1, <1>2, <1>3, <1>4, <1>5, <1>6, <1>7, <1>8, <1>9

\* of the removal of a thread,
LEMMA DropTypes ==
  ASSUME Types, NEW w \in Workers,
         Drop(w) \/ CollectReferenced(w) \/ EraseConversation(w) \/ SelectOrphans(w)
  PROVE  op' \in [Workers -> Operation] /\ LocalsOK'
<1>0. op[w] \in Operation /\ Fits(op[w])
  BY OpTyped DEF Types, LocalsOK
<1> USE DEF Fits, UploadPcs, ThreadPcs
<1>1. CASE Drop(w)
  <2>1. PICK t \in Threads : Start(w, "drop", [Idle EXCEPT !.pc = "collect", !.thread = t])
    BY <1>1 DEF Drop
  <2> DEFINE from == [Idle EXCEPT !.pc = "collect", !.thread = t]
  <2>2. from \in Operation
    BY IdleOK, FieldsFit
  <2>3. from.pc = "collect" /\ from.thread = t
    BY DEF Idle
  <2> HIDE DEF from
  <2>4. QED
    BY <2>1, <2>2, <2>3, StartTypes DEF from
<1>2. CASE CollectReferenced(w)
  <2> DEFINE found == IF Stored(op[w].thread) THEN Linked(conversations[op[w].thread].pk) ELSE {}
             to == [op[w] EXCEPT !.pc = "erase", !.found = found]
  <2>1. op' = [op EXCEPT ![w] = to]
    BY <1>2 DEF CollectReferenced
  <2>2. found \subseteq Ids
    BY DEF Linked, LinksOf, Types, TypeOK
  <2> HIDE DEF found
  <2>3. to \in Operation
    BY <1>0, <2>2, FieldsFit
  <2>4. to.pc = "erase" /\ to.thread = op[w].thread
    BY <1>0 DEF Operation
  <2> HIDE DEF to
  <2>5. QED
    BY <1>0, <1>2, <2>1, <2>3, <2>4, MoveTypes DEF CollectReferenced
<1>3. CASE EraseConversation(w)
  <2> DEFINE to == [op[w] EXCEPT !.pc = "orphans"]
  <2>1. op' = [op EXCEPT ![w] = to]
    BY <1>3 DEF EraseConversation
  <2>2. to \in Operation
    BY <1>0, FieldsFit
  <2>3. to.pc = "orphans"
    BY <1>0 DEF Operation
  <2> HIDE DEF to
  <2>4. QED
    BY <2>1, <2>2, <2>3, MoveTypes
<1>4. CASE SelectOrphans(w)
  <2> DEFINE todo == Loaded(Unreferenced(op[w].found))
             to == [op[w] EXCEPT !.pc = "delete", !.found = {}, !.todo = todo]
  <2>1. op' = [op EXCEPT ![w] = to]
    BY <1>4 DEF SelectOrphans
  <2>2. Unreferenced(op[w].found) \subseteq {i \in Ids : Exists(i)}
    BY <1>0 DEF Operation, Unreferenced
  <2>3. todo \subseteq Ids \X (Ids \cup {NoFile})
    BY <2>2, RowTyped DEF Loaded
  <2> HIDE DEF todo
  <2>4. to \in Operation
    BY <1>0, <2>3, FieldsFit
  <2>5. to.pc = "delete"
    BY <1>0 DEF Operation
  <2> HIDE DEF to
  <2>6. QED
    BY <2>1, <2>4, <2>5, MoveTypes
<1>5. QED
  BY <1>1, <1>2, <1>3, <1>4

\* The number of files a dry run forecasts is a number.
LEMMA PreviewTyped ==
  ASSUME Types, NEW S \in SUBSET Ids, \A i \in S : Exists(i)
  PROVE  Preview(S) \in Nat
<1> DEFINE files == Names(S) \ Names({i \in Ids \ S : Exists(i)})
<1>1. files \subseteq Ids
  BY RowTyped DEF Names
<1>2. IsFiniteSet(files)
  BY <1>1, AttachmentAssumption, FS_Subset
<1>3. QED
  BY <1>2, FS_CardinalityType DEF Preview

\* and of the commands.
LEMMA CommandTypes ==
  ASSUME Types, NEW w \in Workers,
         Prune(w) \/ HashBlob(w) \/ SaveHash(w) \/ ReadInline(w) \/ WriteStripped(w)
  PROVE  op' \in [Workers -> Operation] /\ LocalsOK'
<1> USE DEF Fits, UploadPcs, ThreadPcs
<1>1. CASE Prune(w)
  <2> DEFINE candidates == {i \in Unreferenced(Ids) : rows[i].old}
             todo == Loaded(candidates)
             forecast == Preview(candidates)
             from == [Idle EXCEPT !.pc = "delete", !.todo = todo, !.forecast = forecast]
  <2>1. Start(w, "prune", from)
    BY <1>1 DEF Prune
  <2>2. candidates \subseteq Ids /\ \A i \in candidates : Exists(i)
    BY DEF Unreferenced
  <2> HIDE DEF candidates
  <2>3. todo \subseteq Ids \X (Ids \cup {NoFile})
    BY <2>2, RowTyped DEF Loaded
  <2>4. forecast \in Nat
    BY <2>2, PreviewTyped
  <2> HIDE DEF todo, forecast
  <2>5. from \in Operation
    BY <2>3, <2>4, IdleOK, FieldsFit
  <2>6. from.pc = "delete"
    BY DEF Idle
  <2> HIDE DEF from
  <2>7. QED
    BY <2>1, <2>5, <2>6, StartTypes
<1>2. CASE HashBlob(w)
  <2>1. PICK i \in Ids :
          /\ Exists(i) /\ rows[i].file # NoFile /\ blobs[rows[i].file] # NoDigest
          /\ Start(w, "backfill", [Idle EXCEPT !.pc = "hash", !.id = i, !.digest = blobs[rows[i].file]])
    BY <1>2 DEF HashBlob
  <2> DEFINE digest == blobs[rows[i].file]
             from == [Idle EXCEPT !.pc = "hash", !.id = i, !.digest = digest]
  <2>2. rows[i].file \in Ids
    BY <2>1, RowTyped
  <2>3. digest \in Digests
    BY <2>1, <2>2 DEF Types, TypeOK
  <2>4. Start(w, "backfill", from)
    BY <2>1
  <2> HIDE DEF digest
  <2>5. from \in Operation
    BY <2>3, IdleOK, FieldsFit
  <2>6. from.pc = "hash" /\ from.id = i /\ from.digest = digest
    BY DEF Idle
  <2> HIDE DEF from
  <2>7. QED
    BY <2>3, <2>4, <2>5, <2>6, StartTypes
<1>3. CASE SaveHash(w) \/ WriteStripped(w)
  BY <1>3, ReturnTypes DEF SaveHash, WriteStripped
<1>4. CASE ReadInline(w)
  <2>1. PICK t \in Threads :
          /\ Stored(t)
          /\ Start(w, "strip", [Idle EXCEPT !.pc = "strip", !.thread = t,
                             !.pk = conversations[t].pk, !.quoted = conversations[t].quoted])
    BY <1>4 DEF ReadInline
  <2> DEFINE pk == conversations[t].pk
             quoted == conversations[t].quoted
             from == [Idle EXCEPT !.pc = "strip", !.thread = t, !.pk = pk, !.quoted = quoted]
  <2>2. pk \in 0..PkBound /\ quoted \subseteq Ids
    BY <2>1, ConversationTyped, ConversationAssumption
  <2>3. Start(w, "strip", from)
    BY <2>1
  <2> HIDE DEF pk, quoted
  <2>4. from \in Operation
    BY <2>2, IdleOK, FieldsFit
  <2>5. from.pc = "strip" /\ from.thread = t
    BY DEF Idle
  <2> HIDE DEF from
  <2>6. QED
    BY <2>3, <2>4, <2>5, StartTypes
<1>5. QED
  BY <1>1, <1>2, <1>3, <1>4

Tables ==
  /\ rows \in [Ids -> Row \cup {NoRow}] /\ blobs \in [Ids -> Digests \cup {NoDigest}]
  /\ links \subseteq (1..PkBound) \X Ids /\ issued \subseteq Ids
  /\ conversations \in [Threads -> Conversation \cup {NoConversation}]
  /\ lastPk \in 0..PkBound

\* A row that changes one column it has a value for is a row.
LEMMA RowColumns ==
  ASSUME NEW r \in Row, NEW d \in Digests
  PROVE  [r EXCEPT !.sha256 = d] \in Row /\ [r EXCEPT !.old = TRUE] \in Row
BY DEF Row

\* A conversation that is rewritten is a conversation.
LEMMA RewriteTypes ==
  ASSUME Types, NEW t \in Threads, NEW pk, NEW quoted \in SUBSET Ids, NEW inline \in BOOLEAN,
         Rewrite(t, pk, quoted, inline)
  PROVE  conversations' \in [Threads -> Conversation \cup {NoConversation}]
<1>0. conversations \in [Threads -> Conversation \cup {NoConversation}]
  BY DEF Types, TypeOK
<1>1. CASE HasPk(t, pk)
  <2> DEFINE c == [conversations[t] EXCEPT !.quoted = quoted, !.inline = inline]
  <2>1. conversations' = [conversations EXCEPT ![t] = c]
    BY <1>1 DEF Rewrite
  <2>2. conversations[t] \in Conversation
    BY <1>1, ConversationTyped DEF HasPk
  <2>3. c \in Conversation
    BY <2>2 DEF Conversation
  <2> HIDE DEF c
  <2>4. QED
    BY <1>0, <2>1, <2>3
<1>2. CASE ~ HasPk(t, pk)
  BY <1>0, <1>2 DEF Rewrite
<1>3. QED
  BY <1>1, <1>2

\* Every step keeps the columns of the tables.
LEMMA TablesStep == ASSUME Types, Next PROVE Tables'
<1>0. Tables
  BY DEF Types, TypeOK, Tables
<1> USE <1>0 DEF Tables, attachmentTables
<1>1. ASSUME Age \/ LoseBlob, UNCHANGED <<conversations, lastPk>>
      PROVE  Tables'
  <2>1. CASE Age
    <3>1. PICK i \in Ids : Exists(i) /\ rows' = [rows EXCEPT ![i].old = TRUE]
      BY <2>1 DEF Age
    <3>2. [rows[i] EXCEPT !.old = TRUE] \in Row
      BY <3>1, RowTyped DEF Row
    <3>3. QED
      BY <1>1, <2>1, <3>1, <3>2 DEF Age
  <2>2. CASE LoseBlob
    BY <1>1, <2>2 DEF LoseBlob
  <2>3. QED
    BY <1>1, <2>1, <2>2
<1>2. ASSUME NEW w \in Workers, AttachmentStep(w), UNCHANGED <<conversations, lastPk>>
      PROVE  Tables'
  <2>0. op[w] \in Operation /\ Fits(op[w])
    BY OpTyped DEF Types, LocalsOK
  <2>1. CASE Upload(w) \/ FindTwins(w) \/ Probe(w) \/ Remove(w) \/ CheckShared(w) \/ Deleted(w) \/ Crash(w)
    BY <1>2, <2>1 DEF Upload, FindTwins, Probe, Remove, CheckShared, Deleted, Crash
  <2>2. CASE WriteBlob(w)
    BY <1>2, <2>0, <2>2 DEF WriteBlob, Fits, UploadPcs
  <2>3. CASE InsertRow(w)
    <3> DEFINE row == [owner |-> op[w].owner, sha256 |-> op[w].digest, file |-> op[w].file,
                       old |-> FALSE, holds |-> op[w].digest]
    <3>1. /\ op[w].id \in Ids /\ op[w].owner \in Owners /\ op[w].digest \in Digests
          /\ op[w].file \in Ids
      BY <2>0, <2>3 DEF InsertRow, Fits, UploadPcs
    <3>2. row \in Row
      BY <3>1 DEF Row
    <3>3. rows' = [rows EXCEPT ![op[w].id] = row]
      BY <2>3 DEF InsertRow
    <3> HIDE DEF row
    <3>4. QED
      BY <1>2, <2>3, <3>1, <3>2, <3>3 DEF InsertRow
  <2>4. CASE DeleteRow(w)
    BY <1>2, <2>4 DEF DeleteRow
  <2>5. CASE DeleteBlob(w)
    BY <1>2, <2>5 DEF DeleteBlob
  <2>6. QED
    BY <1>2, <2>1, <2>2, <2>3, <2>4, <2>5 DEF AttachmentStep
<1>3. ASSUME NEW w \in Workers, ConversationStep(w)
      PROVE  Tables'
  <2>0. op[w] \in Operation /\ Fits(op[w])
    BY OpTyped DEF Types, LocalsOK
  <2>1. CASE \/ Save(w) \/ GetConversation(w) \/ Resolve(w) \/ ReadLinks(w) \/ FindMissing(w)
             \/ SetLinksFails(w) \/ Raise(w) \/ Drop(w) \/ CollectReferenced(w)
             \/ SelectOrphans(w) \/ Prune(w) \/ HashBlob(w) \/ ReadInline(w)
    BY <2>1 DEF Save, GetConversation, Resolve, ReadLinks, FindMissing, SetLinksFails, Raise,
                Drop, CollectReferenced, SelectOrphans, Prune, HashBlob, ReadInline
  <2>2. CASE CreateConversation(w)
    <3> DEFINE c == [pk |-> lastPk', quoted |-> op[w].quoted, inline |-> op[w].inline]
    <3>1. lastPk' \in 1..PkBound
      BY <2>2, ConversationAssumption DEF CreateConversation
    <3>2. c \in Conversation
      BY <2>0, <3>1 DEF Conversation, Operation
    <3>3. conversations' = [conversations EXCEPT ![op[w].thread] = c]
      BY <2>2 DEF CreateConversation
    <3> HIDE DEF c
    <3>4. conversations' \in [Threads -> Conversation \cup {NoConversation}]
      BY <3>2, <3>3
    <3>5. lastPk' \in 0..PkBound
      BY <3>1, ConversationAssumption
    <3>6. QED
      BY <2>2, <3>4, <3>5 DEF CreateConversation
  <2>3. CASE UpdateMessages(w)
    <3>1. op[w].thread \in Threads /\ op[w].quoted \in SUBSET Ids /\ op[w].inline \in BOOLEAN
      BY <2>0, <2>3 DEF UpdateMessages, Fits, ThreadPcs, Operation
    <3>2. QED
      BY <2>3, <3>1, RewriteTypes DEF UpdateMessages
  <2>4. CASE SetLinks(w)
    <3>1. op[w].pk \in 1..PkBound /\ op[w].found \subseteq Ids
      BY <2>0, <2>4 DEF SetLinks, Fits, Operation
    <3>2. links' \subseteq (1..PkBound) \X Ids
      BY <2>4, <3>1 DEF SetLinks, LinksAfter
    <3>3. QED
      BY <2>4, <3>2 DEF SetLinks
  <2>5. CASE EraseConversation(w)
    BY <2>5 DEF EraseConversation
  <2>6. CASE SaveHash(w)
    <3>1. CASE Exists(op[w].id)
      <4>1. op[w].id \in Ids /\ op[w].digest \in Digests
        BY <2>0, <2>6 DEF SaveHash, Fits
      <4>2. [rows[op[w].id] EXCEPT !.sha256 = op[w].digest] \in Row
        BY <3>1, <4>1, RowTyped, RowColumns
      <4>3. rows' = [rows EXCEPT ![op[w].id].sha256 = op[w].digest]
        BY <2>6, <3>1 DEF SaveHash
      <4>4. rows' \in [Ids -> Row \cup {NoRow}]
        BY <4>2, <4>3
      <4>5. QED
        BY <2>6, <4>4 DEF SaveHash
    <3>2. CASE ~ Exists(op[w].id)
      BY <2>6, <3>2 DEF SaveHash
    <3>3. QED
      BY <3>1, <3>2
  <2>7. CASE WriteStripped(w)
    <3>1. op[w].thread \in Threads /\ op[w].quoted \in SUBSET Ids
      BY <2>0, <2>7 DEF WriteStripped, Fits, ThreadPcs, Operation
    <3>2. QED
      BY <2>7, <3>1, RewriteTypes DEF WriteStripped
  <2>8. QED
    BY <1>3, <2>1, <2>2, <2>3, <2>4, <2>5, <2>6, <2>7 DEF ConversationStep
<1>4. QED
  BY <1>1, <1>2, <1>3 DEF Next

\* Every step keeps the types.
LEMMA TypeStep == Types /\ [Next]_vars => Types'
<1> SUFFICES ASSUME Types, [Next]_vars PROVE Types'
  OBVIOUS
<1>1. CASE UNCHANGED vars
  BY <1>1 DEF vars, Types, TypeOK, LocalsOK, Fits
<1>2. CASE Next
  <2>1. Tables'
    BY <1>2, TablesStep
  <2>2. op' \in [Workers -> Operation] /\ LocalsOK'
    <3>1. ASSUME NEW w \in Workers, AttachmentStep(w) \/ ConversationStep(w)
          PROVE  op' \in [Workers -> Operation] /\ LocalsOK'
      BY <3>1, UploadTypes, DeletionTypes, SaveTypes, DropTypes, CommandTypes
         DEF AttachmentStep, ConversationStep
    <3>2. CASE Age \/ LoseBlob
      BY <3>2 DEF Age, LoseBlob, Types, TypeOK, LocalsOK, Fits
    <3>3. QED
      BY <1>2, <3>1, <3>2 DEF Next
  <2>3. QED
    BY <2>1, <2>2 DEF Tables, Types, TypeOK
<1>3. QED
  BY <1>1, <1>2

-----------------------------------------------------------------------------
(* The inductive invariant                                                 *)

Uploading(w) == op[w].pc \in UploadPcs

\* The stored names an upload is about to try, or has chosen.
Named(w) ==
  IF op[w].pc = "probe" THEN op[w].names
  ELSE IF op[w].pc = "insert" THEN {op[w].file} ELSE {}

\* Somebody takes the bytes under n for owner o's upload of d.
RowClaims(n, o, d) ==
  \E i \in Ids : Exists(i) /\ rows[i].file = n /\ rows[i].owner = o /\ rows[i].holds = d

UploadClaims(n, o, d) ==
  \E w \in Workers : n \in Named(w) /\ op[w].owner = o /\ op[w].digest = d

Claims(n, o, d) == RowClaims(n, o, d) \/ UploadClaims(n, o, d)

ClaimsAgree ==
  \A n \in Ids, o, p \in Owners, d, e \in Digests :
    Claims(n, o, d) /\ Claims(n, p, e) => o = p /\ d = e

ClaimsAreTrue ==
  \A n \in Ids, o \in Owners, d \in Digests : Claims(n, o, d) => blobs[n] \in {d, NoDigest}

\* Only an upload's own name may be one that no client knows yet.
NamesAreIssued ==
  /\ \A i \in Ids : Exists(i) /\ rows[i].file # NoFile => rows[i].file \in issued
  /\ \A w \in Workers : \A n \in Named(w) :
       n \in issued \/ (op[w].pc = "insert" /\ n = op[w].id)

HashesAreTrue == \A i \in Ids : Exists(i) => rows[i].sha256 \in {rows[i].holds, NoDigest}

RowsAreIssued == \A i \in Ids : Exists(i) => i \in issued

UploadsAreNew ==
  \A w \in Workers : Uploading(w) =>
    /\ op[w].id \notin issued
    /\ \A v \in Workers : Uploading(v) /\ op[v].id = op[w].id => v = w

\* What was read of a row some steps ago is still so if the row is still there.
LoadedIsCurrent ==
  \A w \in Workers : \A a \in op[w].todo :
    a[1] \in issued /\ (Exists(a[1]) => rows[a[1]].file = a[2])

HashIsCurrent ==
  \A w \in Workers : op[w].pc = "hash" =>
    op[w].id \in issued /\ (Exists(op[w].id) => rows[op[w].id].holds = op[w].digest)

FoundIsTheOwners ==
  \A w \in Workers : op[w].pc \in {"linked", "missing", "link"} =>
    \A i \in op[w].found :
      i \in issued /\ (Exists(i) => rows[i].owner = ThreadOwner[op[w].thread])

PksAreUnique ==
  \A t \in Threads : Stored(t) =>
    /\ conversations[t].pk <= lastPk
    /\ \A u \in Threads : HasPk(u, conversations[t].pk) => u = t

\* A link joins a conversation to an attachment of its owner.
LinksJoin ==
  \A l \in links :
    Exists(l[2]) /\ \E t \in Threads : HasPk(t, l[1]) /\ ThreadOwner[t] = rows[l[2]].owner

IInv ==
  /\ Types
  /\ RowsAreIssued /\ UploadsAreNew
  /\ ClaimsAgree /\ ClaimsAreTrue /\ NamesAreIssued /\ HashesAreTrue
  /\ LoadedIsCurrent /\ HashIsCurrent /\ FoundIsTheOwners
  /\ PksAreUnique /\ LinksJoin

-----------------------------------------------------------------------------
(* What a step does to the operations                                      *)

WorkerStep(w) ==
  \/ AttachmentStep(w) /\ UNCHANGED <<conversations, lastPk>>
  \/ ConversationStep(w)

OthersStay(w) == \A v \in Workers \ {w} : op'[v] = op[v]

\* Which steps write which table.
LEMMA TablesMove ==
  ASSUME NEW w \in Workers, WorkerStep(w)
  PROVE  /\ \/ rows' = rows /\ issued' = issued
            \/ InsertRow(w) \/ DeleteRow(w) \/ SaveHash(w)
         /\ blobs' = blobs \/ WriteBlob(w) \/ DeleteBlob(w)
         /\ links' = links \/ SetLinks(w) \/ DeleteRow(w) \/ EraseConversation(w)
         /\ \/ conversations' = conversations /\ lastPk' = lastPk
            \/ CreateConversation(w) \/ UpdateMessages(w) \/ EraseConversation(w)
            \/ WriteStripped(w)
BY DEF WorkerStep, AttachmentStep, ConversationStep, attachmentTables, Upload, FindTwins, Probe,
   WriteBlob, InsertRow, Remove, DeleteRow, CheckShared, DeleteBlob, Deleted, Crash, Save,
   GetConversation, CreateConversation, UpdateMessages, Resolve, ReadLinks, FindMissing, SetLinks,
   SetLinksFails, Raise, Drop, CollectReferenced, EraseConversation, SelectOrphans, Prune,
   HashBlob, SaveHash, ReadInline, WriteStripped

\* An operation starts with the locals it was given.
LEMMA StartMoves ==
  ASSUME Types, NEW w \in Workers, NEW from \in Operation,
         NEW call \in {"upload", "remove", "save", "drop", "prune", "backfill", "strip"},
         Start(w, call, from)
  PROVE  /\ OthersStay(w) /\ op[w].pc = "idle"
         /\ op'[w].pc = from.pc /\ op'[w].id = from.id /\ op'[w].owner = from.owner
         /\ op'[w].digest = from.digest /\ op'[w].todo = from.todo
         /\ op'[w].thread = from.thread /\ op'[w].pk = from.pk
         /\ op'[w].quoted = from.quoted /\ op'[w].freed = from.freed
         /\ op'[w].forecast = from.forecast /\ op'[w].call = call
<1>1. op \in [Workers -> Operation]
  BY DEF Types, TypeOK
<1>2. op' = [op EXCEPT ![w] = [from EXCEPT !.call = call]]
  BY DEF Start
<1>3. QED
  BY <1>1, <1>2 DEF Start, Operation, OthersStay

\* An operation that returns keeps nothing.
LEMMA ReturnMoves ==
  ASSUME Types, NEW w \in Workers, Return(w)
  PROVE  /\ OthersStay(w) /\ op'[w].pc = "idle" /\ op'[w].todo = {}
         /\ op'[w].quoted = {}
<1>1. op \in [Workers -> Operation]
  BY DEF Types, TypeOK
<1>2. QED
  BY <1>1 DEF Return, Idle, OthersStay

\* An upload starts with an id nobody has.
LEMMA UploadMoves ==
  ASSUME Types, NEW w \in Workers, Upload(w)
  PROVE  /\ OthersStay(w) /\ op'[w].pc = "twins" /\ op'[w].todo = {}
         /\ op'[w].id \in Ids /\ Unused(op'[w].id)
<1>1. PICK i \in Ids, o \in Owners, d \in Digests :
        /\ Unused(i)
        /\ Start(w, "upload", [Idle EXCEPT !.pc = "twins", !.id = i, !.owner = o, !.digest = d])
  BY DEF Upload
<1> DEFINE from == [Idle EXCEPT !.pc = "twins", !.id = i, !.owner = o, !.digest = d]
<1>2. from \in Operation
  BY IdleOK, FieldsFit
<1>3. /\ from.pc = "twins" /\ from.id = i /\ from.owner = o /\ from.digest = d
      /\ from.todo = {}
  BY DEF Idle
<1>4. Start(w, "upload", from)
  BY <1>1
<1> HIDE DEF from
<1>5. QED
  BY <1>1, <1>2, <1>3, <1>4, StartMoves

\* An upload's own locals last as long as it does.
Persists(w) ==
  /\ op'[w].id = op[w].id /\ op'[w].owner = op[w].owner /\ op'[w].digest = op[w].digest
  /\ op'[w].todo = op[w].todo

\* It lists the stored names of its twins,
LEMMA FindTwinsMoves ==
  ASSUME Types, NEW w \in Workers, FindTwins(w)
  PROVE  /\ OthersStay(w) /\ Persists(w) /\ op'[w].pc = "probe"
         /\ op'[w].names = Names(Twins(op[w].owner, op[w].digest))
<1>1. op \in [Workers -> Operation]
  BY DEF Types, TypeOK
<1>2. QED
  BY <1>1 DEF FindTwins, Operation, OthersStay, Persists

\* tries them, and adopts one of them
LEMMA ProbeMoves ==
  ASSUME Types, NEW w \in Workers, Probe(w)
  PROVE  /\ OthersStay(w) /\ Persists(w)
         /\ \E n \in op[w].names :
              \/ op'[w].pc = "insert" /\ op'[w].file = n /\ Adopts(n)
              \/ op'[w].pc = "probe" /\ op'[w].names = op[w].names \ {n}
<1>1. op \in [Workers -> Operation]
  BY DEF Types, TypeOK
<1>2. QED
  BY <1>1 DEF Probe, Operation, OthersStay, Persists

\* or writes its own.
LEMMA WriteBlobMoves ==
  ASSUME Types, NEW w \in Workers, WriteBlob(w)
  PROVE  /\ OthersStay(w) /\ Persists(w) /\ op'[w].pc = "insert"
         /\ op'[w].file = op[w].id
<1>1. op \in [Workers -> Operation]
  BY DEF Types, TypeOK
<1>2. QED
  BY <1>1 DEF WriteBlob, Operation, OthersStay, Persists

\* A user's deletion loads one row.
LEMMA RemoveMoves ==
  ASSUME Types, NEW w \in Workers, Remove(w)
  PROVE  /\ OthersStay(w) /\ op'[w].pc = "delete"
         /\ \E i \in issued : Exists(i) /\ op'[w].todo = Loaded({i})
<1>1. PICK i \in issued :
        Exists(i) /\ Start(w, "remove", [Idle EXCEPT !.pc = "delete", !.todo = Loaded({i})])
  BY DEF Remove
<1> DEFINE todo == Loaded({i})
           from == [Idle EXCEPT !.pc = "delete", !.todo = todo]
<1>2. todo \subseteq Ids \X (Ids \cup {NoFile})
  BY <1>1, RowTyped DEF Loaded, Types, TypeOK
<1>3. Start(w, "remove", from)
  BY <1>1
<1> HIDE DEF todo
<1>4. from \in Operation
  BY <1>2, IdleOK, FieldsFit
<1>5. from.pc = "delete" /\ from.todo = todo
  BY DEF Idle
<1> HIDE DEF from
<1>6. op'[w].pc = "delete" /\ op'[w].todo = todo /\ OthersStay(w)
  BY <1>3, <1>4, <1>5, StartMoves
<1>7. QED
  BY <1>1, <1>6 DEF todo

\* A deletion takes one row it loaded, and its links.
LEMMA DeleteRowMoves ==
  ASSUME Types, NEW w \in Workers, DeleteRow(w)
  PROVE  /\ OthersStay(w)
         /\ \E a \in op[w].todo :
              /\ rows' = [rows EXCEPT ![a[1]] = NoRow] /\ links' = {l \in links : l[2] # a[1]}
              /\ op'[w].pc = IF a[2] = NoFile THEN "delete" ELSE "shared"
              /\ op'[w].todo = op[w].todo \ {a} /\ op'[w].file = a[2]
<1>1. op \in [Workers -> Operation]
  BY DEF Types, TypeOK
<1>2. PICK a \in op[w].todo :
        /\ rows' = [rows EXCEPT ![a[1]] = NoRow] /\ links' = {l \in links : l[2] # a[1]}
        /\ op' = [op EXCEPT ![w].pc = IF a[2] = NoFile THEN "delete" ELSE "shared",
                            ![w].todo = @ \ {a}, ![w].file = a[2]]
  BY DEF DeleteRow
<1>3. /\ op'[w].pc = IF a[2] = NoFile THEN "delete" ELSE "shared"
      /\ op'[w].todo = op[w].todo \ {a} /\ op'[w].file = a[2]
  BY <1>1, <1>2 DEF Operation
<1>4. QED
  BY <1>1, <1>2, <1>3 DEF OthersStay

\* The other steps of a deletion keep what it loaded.
LEMMA DeletionMoves ==
  ASSUME Types, NEW w \in Workers, CheckShared(w) \/ DeleteBlob(w)
  PROVE  /\ OthersStay(w) /\ op'[w].todo = op[w].todo /\ op'[w].file = op[w].file
         /\ op'[w].pc \in {"delete", "unlink"}
         /\ op'[w].pc = "delete" => DeleteBlob(w) \/ Shared(op[w].file)
<1>1. op \in [Workers -> Operation]
  BY DEF Types, TypeOK
<1>2. CASE CheckShared(w)
  BY <1>1, <1>2 DEF CheckShared, Operation, OthersStay
<1>3. CASE DeleteBlob(w)
  BY <1>1, <1>3 DEF DeleteBlob, Operation, OthersStay
<1>4. QED
  BY <1>2, <1>3

\* The first steps of a save load no attachments,
LEMMA SaveMoves ==
  ASSUME Types, NEW w \in Workers,
         Save(w) \/ GetConversation(w) \/ CreateConversation(w) \/ UpdateMessages(w)
  PROVE  /\ OthersStay(w) /\ op'[w].todo \subseteq op[w].todo
         /\ op'[w].pc \in {"get", "update", "resolve"}
<1>1. op \in [Workers -> Operation]
  BY DEF Types, TypeOK
<1>2. CASE Save(w)
  <2>1. PICK t \in Threads, q \in SUBSET issued, b \in InlineParts :
          Start(w, "save", [Idle EXCEPT !.pc = "get", !.thread = t, !.quoted = q, !.inline = b])
    BY <1>2 DEF Save
  <2> DEFINE from == [Idle EXCEPT !.pc = "get", !.thread = t, !.quoted = q, !.inline = b]
  <2>2. q \subseteq Ids /\ b \in BOOLEAN
    BY ConversationAssumption DEF Types, TypeOK
  <2>3. from \in Operation
    BY <2>2, IdleOK, FieldsFit
  <2>4. from.pc = "get" /\ from.todo = {}
    BY DEF Idle
  <2> HIDE DEF from
  <2>5. QED
    BY <2>1, <2>3, <2>4, StartMoves DEF from
<1>3. CASE GetConversation(w)
  BY <1>1, <1>3 DEF GetConversation, Operation, OthersStay
<1>4. CASE CreateConversation(w)
  BY <1>1, <1>4 DEF CreateConversation, Operation, OthersStay
<1>5. CASE UpdateMessages(w)
  BY <1>1, <1>5 DEF UpdateMessages, Operation, OthersStay
<1>6. QED
  BY <1>2, <1>3, <1>4, <1>5

\* A save's attachments, once resolved, only get fewer.
LEMMA LinkingMoves ==
  ASSUME Types, NEW w \in Workers,
         Resolve(w) \/ ReadLinks(w) \/ FindMissing(w) \/ SetLinksFails(w)
  PROVE  /\ OthersStay(w) /\ op'[w].todo = op[w].todo /\ op'[w].thread = op[w].thread
         /\ \/ Resolve(w) /\ op'[w].found = Resolvable(op[w].thread, op[w].quoted)
            \/ op[w].pc \in {"linked", "missing", "link"} /\ op'[w].found \subseteq op[w].found
         /\ op'[w].pc \in {"linked", "missing", "link", "raised"}
<1>1. op \in [Workers -> Operation]
  BY DEF Types, TypeOK
<1>2. CASE Resolve(w)
  BY <1>1, <1>2 DEF Resolve, Operation, OthersStay
<1>3. CASE ReadLinks(w)
  BY <1>1, <1>3 DEF ReadLinks, Operation, OthersStay
<1>4. CASE FindMissing(w)
  BY <1>1, <1>4 DEF FindMissing, Operation, OthersStay
<1>5. CASE SetLinksFails(w)
  BY <1>1, <1>5 DEF SetLinksFails, Operation, OthersStay
<1>6. QED
  BY <1>2, <1>3, <1>4, <1>5

\* nor do those of a removal before it selects the orphans.
LEMMA DropMoves ==
  ASSUME Types, NEW w \in Workers, Drop(w) \/ CollectReferenced(w) \/ EraseConversation(w)
  PROVE  /\ OthersStay(w) /\ op'[w].todo \subseteq op[w].todo
         /\ op'[w].pc \in {"collect", "erase", "orphans"}
<1>1. op \in [Workers -> Operation]
  BY DEF Types, TypeOK
<1>2. CASE Drop(w)
  <2>1. PICK t \in Threads : Start(w, "drop", [Idle EXCEPT !.pc = "collect", !.thread = t])
    BY <1>2 DEF Drop
  <2> DEFINE from == [Idle EXCEPT !.pc = "collect", !.thread = t]
  <2>2. from \in Operation
    BY IdleOK, FieldsFit
  <2>3. from.pc = "collect" /\ from.todo = {}
    BY DEF Idle
  <2> HIDE DEF from
  <2>4. QED
    BY <2>1, <2>2, <2>3, StartMoves DEF from
<1>3. CASE CollectReferenced(w)
  BY <1>1, <1>3 DEF CollectReferenced, Operation, OthersStay
<1>4. CASE EraseConversation(w)
  BY <1>1, <1>4 DEF EraseConversation, Operation, OthersStay
<1>5. QED
  BY <1>2, <1>3, <1>4

\* What a collector is about to delete is unreferenced when it is listed.
LEMMA CollectMoves ==
  ASSUME Types, NEW w \in Workers, SelectOrphans(w) \/ Prune(w)
  PROVE  /\ OthersStay(w) /\ op'[w].pc = "delete"
         /\ \E S \in SUBSET Unreferenced(Ids) : op'[w].todo = Loaded(S)
<1>1. op \in [Workers -> Operation]
  BY DEF Types, TypeOK
<1>2. CASE SelectOrphans(w)
  <2>1. Unreferenced(op[w].found) \subseteq Unreferenced(Ids)
    BY <1>1 DEF Unreferenced, Operation
  <2>2. OthersStay(w) /\ op'[w].pc = "delete" /\ op'[w].todo = Loaded(Unreferenced(op[w].found))
    BY <1>1, <1>2 DEF SelectOrphans, Operation, OthersStay
  <2>3. QED
    BY <2>1, <2>2
<1>3. CASE Prune(w)
  <2> DEFINE candidates == {i \in Unreferenced(Ids) : rows[i].old}
             todo == Loaded(candidates)
             forecast == Preview(candidates)
             from == [Idle EXCEPT !.pc = "delete", !.todo = todo, !.forecast = forecast]
  <2>1. Start(w, "prune", from)
    BY <1>3 DEF Prune
  <2>2. candidates \subseteq Unreferenced(Ids)
    OBVIOUS
  <2>3. candidates \subseteq Ids /\ \A i \in candidates : Exists(i)
    BY DEF Unreferenced
  <2> HIDE DEF candidates
  <2>4. todo \subseteq Ids \X (Ids \cup {NoFile})
    BY <2>3, RowTyped DEF Loaded
  <2>5. forecast \in Nat
    BY <2>3, PreviewTyped
  <2>6. todo = Loaded(candidates)
    OBVIOUS
  <2> HIDE DEF todo, forecast
  <2>7. from \in Operation
    BY <2>4, <2>5, IdleOK, FieldsFit
  <2>8. from.pc = "delete" /\ from.todo = todo
    BY DEF Idle
  <2> HIDE DEF from
  <2>9. QED
    BY <2>1, <2>2, <2>6, <2>7, <2>8, StartMoves
<1>4. QED
  BY <1>2, <1>3

\* The backfill reads the bytes under an unhashed row's name.
LEMMA HashBlobMoves ==
  ASSUME Types, NEW w \in Workers, HashBlob(w)
  PROVE  /\ OthersStay(w) /\ op'[w].pc = "hash" /\ op'[w].todo = {}
         /\ op'[w].id \in Ids /\ Exists(op'[w].id) /\ rows[op'[w].id].file \in Ids
         /\ op'[w].digest = blobs[rows[op'[w].id].file] /\ op'[w].digest \in Digests
<1>1. PICK i \in Ids :
        /\ Exists(i) /\ rows[i].file # NoFile /\ blobs[rows[i].file] # NoDigest
        /\ Start(w, "backfill", [Idle EXCEPT !.pc = "hash", !.id = i, !.digest = blobs[rows[i].file]])
  BY DEF HashBlob
<1> DEFINE digest == blobs[rows[i].file]
           from == [Idle EXCEPT !.pc = "hash", !.id = i, !.digest = digest]
<1>2. rows[i].file \in Ids
  BY <1>1, RowTyped
<1>3. digest \in Digests
  BY <1>1, <1>2 DEF Types, TypeOK
<1>4. Start(w, "backfill", from) /\ digest = blobs[rows[i].file]
  BY <1>1
<1> HIDE DEF digest
<1>5. from \in Operation
  BY <1>3, IdleOK, FieldsFit
<1>6. from.pc = "hash" /\ from.id = i /\ from.digest = digest /\ from.todo = {}
  BY DEF Idle
<1> HIDE DEF from
<1>7. OthersStay(w) /\ op'[w].pc = "hash" /\ op'[w].todo = {} /\ op'[w].id = i /\ op'[w].digest = digest
  BY <1>4, <1>5, <1>6, StartMoves
<1>8. QED
  BY <1>1, <1>2, <1>3, <1>4, <1>7

\* The strip command loads no attachments.
LEMMA ReadInlineMoves ==
  ASSUME Types, NEW w \in Workers, ReadInline(w)
  PROVE  OthersStay(w) /\ op'[w].pc = "strip" /\ op'[w].todo = {}
<1>1. PICK t \in Threads :
        /\ Stored(t)
        /\ Start(w, "strip", [Idle EXCEPT !.pc = "strip", !.thread = t,
                           !.pk = conversations[t].pk, !.quoted = conversations[t].quoted])
  BY DEF ReadInline
<1> DEFINE pk == conversations[t].pk
           quoted == conversations[t].quoted
           from == [Idle EXCEPT !.pc = "strip", !.thread = t, !.pk = pk, !.quoted = quoted]
<1>2. pk \in 0..PkBound /\ quoted \subseteq Ids
  BY <1>1, ConversationTyped, ConversationAssumption
<1>3. Start(w, "strip", from)
  BY <1>1
<1> HIDE DEF pk, quoted
<1>4. from \in Operation
  BY <1>2, IdleOK, FieldsFit
<1>5. from.pc = "strip" /\ from.todo = {}
  BY DEF Idle
<1> HIDE DEF from
<1>6. QED
  BY <1>3, <1>4, <1>5, StartMoves

Linking == {"linked", "missing", "link"}

\* Which locals a step may give a meaning to, and where they come from.
LEMMA StepMoves ==
  ASSUME Types, NEW w \in Workers, WorkerStep(w)
  PROVE  /\ OthersStay(w)
         /\ Uploading(w)' => Upload(w) \/ (Uploading(w) /\ Persists(w))
         /\ op'[w].pc = "hash" => HashBlob(w)
         /\ \/ op'[w].todo \subseteq op[w].todo
            \/ \E S \in SUBSET {i \in Ids : Exists(i)} : op'[w].todo = Loaded(S)
         /\ op'[w].pc \in Linking =>
              /\ op'[w].thread = op[w].thread
              /\ \/ Resolve(w) /\ op'[w].found = Resolvable(op[w].thread, op[w].quoted)
                 \/ op[w].pc \in Linking /\ op'[w].found \subseteq op[w].found
<1> USE DEF Uploading, UploadPcs, Linking
<1>1. CASE Return(w)
  BY <1>1, ReturnMoves
<1>2. CASE Upload(w)
  <2>1. OthersStay(w) /\ op'[w].pc = "twins" /\ op'[w].todo = {}
    BY <1>2, UploadMoves
  <2>2. QED
    BY <1>2, <2>1
<1>3. CASE FindTwins(w)
  BY <1>3, FindTwinsMoves DEF FindTwins, Persists
<1>4. CASE Probe(w)
  BY <1>4, ProbeMoves DEF Probe, Persists
<1>5. CASE WriteBlob(w)
  BY <1>5, WriteBlobMoves DEF WriteBlob, Persists
<1>6. CASE Remove(w)
  <2>1. PICK i \in issued : Exists(i) /\ op'[w].todo = Loaded({i})
    BY <1>6, RemoveMoves
  <2>2. {i} \in SUBSET {j \in Ids : Exists(j)}
    BY <2>1 DEF Types, TypeOK
  <2>3. QED
    BY <1>6, <2>1, <2>2, RemoveMoves
<1>7. CASE DeleteRow(w)
  BY <1>7, DeleteRowMoves
<1>8. CASE CheckShared(w) \/ DeleteBlob(w)
  BY <1>8, DeletionMoves
<1>9. CASE Save(w) \/ GetConversation(w) \/ CreateConversation(w) \/ UpdateMessages(w)
  BY <1>9, SaveMoves
<1>10. CASE Resolve(w) \/ ReadLinks(w) \/ FindMissing(w) \/ SetLinksFails(w)
  BY <1>10, LinkingMoves
<1>11. CASE Drop(w) \/ CollectReferenced(w) \/ EraseConversation(w)
  BY <1>11, DropMoves
<1>12. CASE SelectOrphans(w) \/ Prune(w)
  <2>1. Unreferenced(Ids) \subseteq {i \in Ids : Exists(i)}
    BY DEF Unreferenced
  <2>2. QED
    BY <1>12, <2>1, CollectMoves
<1>13. CASE HashBlob(w)
  BY <1>13, HashBlobMoves
<1>14. CASE ReadInline(w)
  BY <1>14, ReadInlineMoves
<1>15. QED
  BY <1>1, <1>2, <1>3, <1>4, <1>5, <1>6, <1>7, <1>8, <1>9, <1>10, <1>11, <1>12, <1>13, <1>14
     DEF WorkerStep, AttachmentStep, ConversationStep, InsertRow, Deleted, Crash, SetLinks,
         Raise, SaveHash, WriteStripped

\* What a row was uploaded as does not change while the row is there.
SameRow(i) ==
  rows'[i].owner = rows[i].owner /\ rows'[i].file = rows[i].file /\ rows'[i].holds = rows[i].holds

\* A step drops rows or inserts an upload's; what a row was uploaded as, it stays.
LEMMA RowsMove ==
  ASSUME Types, NEW w \in Workers, WorkerStep(w) \/ Age \/ LoseBlob
  PROVE  \/ /\ issued' = issued
            /\ \A i \in Ids : Exists(i)' => Exists(i) /\ SameRow(i)
         \/ /\ InsertRow(w)
            /\ issued' = issued \cup {op[w].id}
            /\ \A i \in Ids \ {op[w].id} : rows'[i] = rows[i]
<1>0. rows \in [Ids -> Row \cup {NoRow}]
  BY DEF Types, TypeOK
<1> USE DEF Exists, SameRow
<1>1. CASE UNCHANGED <<rows, issued>>
  BY <1>1
<1>2. CASE DeleteRow(w)
  <2>1. PICK a \in op[w].todo : rows' = [rows EXCEPT ![a[1]] = NoRow]
    BY <1>2, DeleteRowMoves
  <2>2. issued' = issued
    BY <1>2 DEF DeleteRow
  <2>3. QED
    BY <1>0, <2>1, <2>2
<1>3. CASE InsertRow(w)
  BY <1>0, <1>3 DEF InsertRow
<1>4. CASE SaveHash(w)
  <2>1. CASE Exists(op[w].id)
    <3>1. issued' = issued /\ rows' = [rows EXCEPT ![op[w].id].sha256 = op[w].digest]
      BY <1>4, <2>1 DEF SaveHash
    <3>2. op[w].id \in Ids
      BY <1>4 DEF SaveHash, Types, LocalsOK, Fits
    <3>3. rows[op[w].id] \in Row
      BY <2>1, <3>2, RowTyped
    <3>4. QED
      BY <1>0, <2>1, <3>1, <3>3 DEF Row
  <2>2. CASE ~ Exists(op[w].id)
    BY <1>4, <2>2 DEF SaveHash
  <2>3. QED
    BY <2>1, <2>2
<1>5. CASE Age
  <2>1. PICK i \in Ids : Exists(i) /\ rows' = [rows EXCEPT ![i].old = TRUE]
    BY <1>5 DEF Age
  <2>2. rows[i] \in Row
    BY <2>1, RowTyped
  <2>3. issued' = issued
    BY <1>5 DEF Age
  <2>4. QED
    BY <1>0, <2>1, <2>2, <2>3 DEF Row
<1>6. QED
  BY <1>1, <1>2, <1>3, <1>4, <1>5, TablesMove DEF LoseBlob

-----------------------------------------------------------------------------
(* Every step preserves the invariant                                      *)

\* The invariant holds of what earlier releases left.
LEMMA Initial == Init => IInv
<1> SUFFICES ASSUME Init PROVE IInv
  OBVIOUS
<1>1. Types
  BY TypeInit
<1>2. \A w \in Workers : op[w] = Idle
  BY DEF Init, AttachmentInit
<1>3. PICK stored \in [Legacy -> LegacyRow] :
        /\ \A i \in Legacy : stored[i].file \in {i, NoFile}
        /\ rows = [i \in Ids |-> IF i \in Legacy THEN stored[i] ELSE NoRow]
        /\ blobs = [i \in Ids |-> IF i \in Legacy /\ stored[i].file = i
                                  THEN stored[i].holds ELSE NoDigest]
  BY DEF Init, AttachmentInit
<1>4. \A i \in Ids : Exists(i) =>
        /\ i \in Legacy /\ rows[i] = stored[i] /\ rows[i].file \in {i, NoFile}
        /\ rows[i].owner = LegacyOwner /\ rows[i].sha256 \in {rows[i].holds, NoDigest}
        /\ rows[i].file = i => blobs[i] = rows[i].holds
  BY <1>3 DEF Exists, LegacyRow
<1>5. issued = Legacy /\ links = {} /\ \A t \in Threads : ~ Stored(t)
  BY DEF Init, AttachmentInit, Stored
<1>6. \A n, o, d : ~ UploadClaims(n, o, d)
  BY <1>2 DEF UploadClaims, Named, Idle
<1>7. ClaimsAgree /\ ClaimsAreTrue
  <2>1. ASSUME NEW n \in Ids, NEW o, NEW d, Claims(n, o, d)
        PROVE  n \in Legacy /\ o = LegacyOwner /\ d = rows[n].holds /\ blobs[n] = d
    <3>1. RowClaims(n, o, d)
      BY <1>6, <2>1 DEF Claims
    <3>2. PICK i \in Ids : Exists(i) /\ rows[i].file = n /\ rows[i].owner = o /\ rows[i].holds = d
      BY <3>1 DEF RowClaims
    <3>3. QED
      BY <1>4, <3>2, AttachmentAssumption
  <2>2. QED
    BY <1>5, <2>1 DEF ClaimsAgree, ClaimsAreTrue
<1>8. HashesAreTrue /\ RowsAreIssued /\ NamesAreIssued
  <2>1. \A w \in Workers : Named(w) = {}
    BY <1>2 DEF Named, Idle
  <2>2. QED
    BY <1>4, <1>5, <2>1 DEF HashesAreTrue, RowsAreIssued, NamesAreIssued
<1>9. UploadsAreNew /\ LoadedIsCurrent /\ HashIsCurrent /\ FoundIsTheOwners
  BY <1>2 DEF UploadsAreNew, Uploading, UploadPcs, LoadedIsCurrent, HashIsCurrent, FoundIsTheOwners, Idle
<1>10. PksAreUnique /\ LinksJoin
  BY <1>5 DEF PksAreUnique, LinksJoin
<1>11. QED
  BY <1>1, <1>7, <1>8, <1>9, <1>10 DEF IInv

\* A new row's id is issued; an upload's own is not, and nobody else's.
LEMMA FreshStep ==
  ASSUME IInv, NEW w \in Workers, WorkerStep(w)
  PROVE  RowsAreIssued' /\ UploadsAreNew'
<1>1. Types /\ RowsAreIssued /\ UploadsAreNew
  BY DEF IInv
<1>2. OthersStay(w) /\ (Uploading(w)' => Upload(w) \/ (Uploading(w) /\ Persists(w)))
  BY <1>1, StepMoves
<1>3. CASE InsertRow(w)
  <2>1. /\ issued' = issued \cup {op[w].id} /\ \A i \in Ids \ {op[w].id} : rows'[i] = rows[i]
        /\ op[w].pc = "insert"
    BY <1>3 DEF InsertRow, Types, TypeOK
  <2>2. RowsAreIssued'
    BY <1>1, <2>1 DEF RowsAreIssued, Exists
  <2>3. op'[w].pc = "idle"
    BY <1>1, <1>3, ReturnMoves DEF InsertRow
  <2>4. ASSUME NEW v \in Workers, Uploading(v)'
        PROVE  v # w /\ Uploading(v) /\ op'[v].id = op[v].id
    BY <1>2, <2>3, <2>4 DEF OthersStay, Uploading, UploadPcs
  <2>5. UploadsAreNew'
    BY <1>1, <2>1, <2>4 DEF UploadsAreNew, Uploading, UploadPcs
  <2>6. QED
    BY <2>2, <2>5
<1>4. CASE ~ InsertRow(w)
  <2>1. issued' = issued /\ \A i \in Ids : Exists(i)' => Exists(i)
    BY <1>1, <1>4, RowsMove
  <2>2. RowsAreIssued'
    BY <1>1, <2>1 DEF RowsAreIssued
  <2>3. CASE Upload(w)
    <3>1. Unused(op'[w].id)
      BY <1>1, <2>3, UploadMoves
    <3>2. op'[w].id \notin issued /\ \A x \in Workers : op[x].id # op'[w].id
      BY <3>1 DEF Unused
    <3>3. UploadsAreNew'
      BY <1>1, <1>2, <2>1, <3>2 DEF UploadsAreNew, OthersStay, Uploading
    <3>4. QED
      BY <2>2, <3>3
  <2>4. CASE ~ Upload(w)
    BY <1>1, <1>2, <2>1, <2>2, <2>4 DEF UploadsAreNew, OthersStay, Uploading, Persists
  <2>5. QED
    BY <2>3, <2>4
<1>5. QED
  BY <1>3, <1>4

\* What an issued id's row was uploaded as, it stays.
LEMMA IssuedRowsStay ==
  ASSUME IInv, NEW w \in Workers, WorkerStep(w) \/ Age \/ LoseBlob
  PROVE  /\ issued \subseteq issued'
         /\ \A i \in issued : Exists(i)' => Exists(i) /\ SameRow(i)
<1>1. Types /\ UploadsAreNew
  BY DEF IInv
<1>2. CASE InsertRow(w) /\ issued' = issued \cup {op[w].id} /\ \A i \in Ids \ {op[w].id} : rows'[i] = rows[i]
  <2>1. op[w].id \notin issued
    BY <1>1, <1>2 DEF InsertRow, UploadsAreNew, Uploading, UploadPcs
  <2>2. \A i \in issued : rows'[i] = rows[i]
    BY <1>1, <1>2, <2>1 DEF Types, TypeOK
  <2>3. QED
    BY <1>2, <2>2 DEF Exists, SameRow
<1>3. CASE issued' = issued /\ \A i \in Ids : Exists(i)' => Exists(i) /\ SameRow(i)
  BY <1>1, <1>3 DEF Types, TypeOK
<1>4. QED
  BY <1>1, <1>2, <1>3, RowsMove

\* So what an operation read of it before stays true.
LEMMA ReadsStep ==
  ASSUME IInv, NEW w \in Workers, WorkerStep(w)
  PROVE  LoadedIsCurrent' /\ HashIsCurrent' /\ FoundIsTheOwners'
<1>1. /\ Types /\ RowsAreIssued /\ LoadedIsCurrent /\ HashIsCurrent /\ FoundIsTheOwners
      /\ ClaimsAreTrue
  BY DEF IInv
<1>2. /\ issued \subseteq issued'
      /\ \A i \in issued : rows'[i] # NoRow => Exists(i) /\ SameRow(i)
  BY IssuedRowsStay DEF Exists
<1>3. OthersStay(w)
  BY <1>1, StepMoves
<1>4. ASSUME NEW v \in Workers \ {w}
      PROVE  /\ \A a \in op'[v].todo : a[1] \in issued' /\ (rows'[a[1]] # NoRow => rows'[a[1]].file = a[2])
             /\ op'[v].pc = "hash" =>
                  op'[v].id \in issued' /\ (rows'[op'[v].id] # NoRow => rows'[op'[v].id].holds = op'[v].digest)
             /\ op'[v].pc \in Linking => \A i \in op'[v].found :
                  i \in issued' /\ (rows'[i] # NoRow => rows'[i].owner = ThreadOwner[op'[v].thread])
  BY <1>1, <1>2, <1>3 DEF OthersStay, LoadedIsCurrent, HashIsCurrent, FoundIsTheOwners, SameRow, Linking
<1>5. \A a \in op'[w].todo : a[1] \in issued' /\ (rows'[a[1]] # NoRow => rows'[a[1]].file = a[2])
  <2>1. CASE op'[w].todo \subseteq op[w].todo
    BY <1>1, <1>2, <2>1 DEF LoadedIsCurrent, SameRow
  <2>2. ASSUME NEW S \in SUBSET {i \in Ids : Exists(i)}, op'[w].todo = Loaded(S)
        PROVE  \A a \in op'[w].todo : a[1] \in issued' /\ (rows'[a[1]] # NoRow => rows'[a[1]].file = a[2])
    <3> SUFFICES ASSUME NEW a \in Loaded(S)
                 PROVE  a[1] \in issued' /\ (rows'[a[1]] # NoRow => rows'[a[1]].file = a[2])
      BY <2>2
    <3>1. PICK i \in S : a = <<i, rows[i].file>>
      BY DEF Loaded
    <3>2. i \in issued
      BY <1>1 DEF RowsAreIssued
    <3>3. QED
      BY <1>2, <3>1, <3>2 DEF SameRow
  <2>3. QED
    BY <1>1, <2>1, <2>2, StepMoves
<1>6. ASSUME op'[w].pc = "hash"
      PROVE  op'[w].id \in issued' /\ (rows'[op'[w].id] # NoRow => rows'[op'[w].id].holds = op'[w].digest)
  <2> DEFINE i == op'[w].id
             n == rows[i].file
  <2>1. i \in Ids /\ Exists(i) /\ n \in Ids /\ op'[w].digest = blobs[n] /\ blobs[n] \in Digests
    BY <1>1, <1>6, StepMoves, HashBlobMoves
  <2>2. i \in issued
    BY <1>1, <2>1 DEF RowsAreIssued
  <2>3. rows[i].owner \in Owners /\ rows[i].holds \in Digests
    BY <1>1, <2>1, RowTyped
  <2>4. Claims(n, rows[i].owner, rows[i].holds)
    BY <2>1 DEF Claims, RowClaims
  <2>5. blobs[n] = rows[i].holds
    BY <1>1, <2>1, <2>3, <2>4, AttachmentAssumption DEF ClaimsAreTrue
  <2>6. QED
    BY <1>2, <2>1, <2>2, <2>5 DEF SameRow
<1>7. ASSUME op'[w].pc \in Linking
      PROVE  \A i \in op'[w].found :
               i \in issued' /\ (rows'[i] # NoRow => rows'[i].owner = ThreadOwner[op'[w].thread])
  <2>1. op'[w].thread = op[w].thread
    BY <1>1, <1>7, StepMoves
  <2>2. CASE op'[w].found = Resolvable(op[w].thread, op[w].quoted) /\ Resolve(w)
    <3>1. op[w].quoted \subseteq Ids
      BY <1>1, OpTyped DEF Operation
    <3>2. QED
      BY <1>1, <1>2, <2>1, <2>2, <3>1 DEF Resolvable, RowsAreIssued, SameRow
  <2>3. CASE op[w].pc \in Linking /\ op'[w].found \subseteq op[w].found
    BY <1>1, <1>2, <2>1, <2>3 DEF FoundIsTheOwners, SameRow, Linking
  <2>4. QED
    BY <1>1, <1>7, <2>2, <2>3, StepMoves
<1>8. LoadedIsCurrent'
  BY <1>4, <1>5 DEF LoadedIsCurrent, Exists
<1>9. HashIsCurrent'
  BY <1>4, <1>6 DEF HashIsCurrent, Exists
<1>10. FoundIsTheOwners'
  BY <1>4, <1>7 DEF FoundIsTheOwners, Linking, Exists
<1>11. QED
  BY <1>8, <1>9, <1>10

\* Where the names an upload tries next come from.
LEMMA NamedMoves ==
  ASSUME Types, NEW w \in Workers, WorkerStep(w), NEW n \in Named(w)'
  PROVE  /\ Persists(w)
         /\ \/ FindTwins(w) /\ n \in Names(Twins(op[w].owner, op[w].digest))
            \/ Probe(w) /\ n \in Named(w)
            \/ WriteBlob(w) /\ n = op[w].id
<1>1. Uploading(w)' /\ op'[w].pc # "twins"
  BY DEF Named, Uploading, UploadPcs
<1>2. Uploading(w) /\ Persists(w)
  BY <1>1, StepMoves, UploadMoves
<1>3. CASE FindTwins(w)
  BY <1>2, <1>3, FindTwinsMoves DEF Named
<1>4. CASE Probe(w)
  BY <1>2, <1>4, ProbeMoves DEF Named, Probe
<1>5. CASE WriteBlob(w)
  BY <1>2, <1>5, WriteBlobMoves DEF Named
<1>6. CASE ~ (FindTwins(w) \/ Probe(w) \/ WriteBlob(w))
  <2>1. Return(w)
    BY <1>2, <1>6 DEF Uploading, UploadPcs, WorkerStep, AttachmentStep, ConversationStep,
       Upload, InsertRow, Remove, DeleteRow, CheckShared, DeleteBlob, Deleted, Crash, Start,
       Save, GetConversation, CreateConversation, UpdateMessages, Resolve, ReadLinks,
       FindMissing, SetLinks, SetLinksFails, Raise, Drop, CollectReferenced,
       EraseConversation, SelectOrphans, Prune, HashBlob, SaveHash, ReadInline, WriteStripped
  <2>2. QED
    BY <1>1, <2>1, ReturnMoves DEF Uploading, UploadPcs
<1>7. QED
  BY <1>3, <1>4, <1>5, <1>6

\* Stored names come from rows, or are the upload's own.
LEMMA NamesStep ==
  ASSUME IInv, NEW w \in Workers, WorkerStep(w)
  PROVE  NamesAreIssued'
<1>1. Types /\ NamesAreIssued /\ UploadsAreNew
  BY DEF IInv
<1>2. OthersStay(w)
  BY <1>1, StepMoves
<1>3. issued \subseteq issued'
  BY IssuedRowsStay
<1>4. ASSUME NEW i \in Ids, rows'[i] # NoRow, rows'[i].file # NoFile
      PROVE  rows'[i].file \in issued'
  <2>1. CASE Exists(i) /\ SameRow(i)
    BY <1>1, <1>3, <1>4, <2>1 DEF NamesAreIssued, SameRow
  <2>2. CASE InsertRow(w) /\ issued' = issued \cup {op[w].id} /\ i # op[w].id /\ rows'[i] = rows[i]
    BY <1>1, <1>4, <2>2 DEF NamesAreIssued, Exists
  <2>3. CASE InsertRow(w) /\ issued' = issued \cup {op[w].id} /\ i = op[w].id
    <3>1. rows'[i].file = op[w].file /\ op[w].pc = "insert" /\ op[w].file \in Named(w)
      BY <1>1, <2>3 DEF InsertRow, Types, TypeOK, Named
    <3>2. QED
      BY <1>1, <2>3, <3>1 DEF NamesAreIssued
  <2>4. QED
    BY <1>1, <1>4, <2>1, <2>2, <2>3, RowsMove DEF Exists
<1>5. ASSUME NEW v \in Workers, NEW n \in Named(v)'
      PROVE  n \in issued' \/ (op'[v].pc = "insert" /\ n = op'[v].id)
  <2>1. CASE v # w
    BY <1>1, <1>2, <1>3, <2>1 DEF NamesAreIssued, Named, OthersStay
  <2>2. CASE v = w
    <3>1. CASE FindTwins(w) /\ n \in Names(Twins(op[w].owner, op[w].digest))
      BY <1>1, <1>3, <3>1 DEF Names, Twins, NamesAreIssued
    <3>2. CASE Probe(w) /\ n \in Named(w)
      BY <1>1, <1>3, <3>2 DEF Probe, NamesAreIssued
    <3>3. CASE WriteBlob(w) /\ n = op[w].id
      BY <1>1, <2>2, <3>3, WriteBlobMoves DEF Persists
    <3>4. QED
      BY <1>1, <2>2, <3>1, <3>2, <3>3, NamedMoves
  <2>3. QED
    BY <2>1, <2>2
<1>6. QED
  BY <1>4, <1>5 DEF NamesAreIssued, Exists

\* Nobody takes a stored name for bytes it was not written with.
LEMMA ClaimsMove ==
  ASSUME IInv, NEW w \in Workers, WorkerStep(w),
         NEW n \in Ids, NEW o \in Owners, NEW d \in Digests, Claims(n, o, d)'
  PROVE  \/ Claims(n, o, d)
         \/ WriteBlob(w) /\ n = op[w].id /\ o = op[w].owner /\ d = op[w].digest
<1>1. Types /\ HashesAreTrue
  BY DEF IInv
<1>2. OthersStay(w)
  BY <1>1, StepMoves
<1>3. CASE RowClaims(n, o, d)'
  <2>1. PICK i \in Ids : rows'[i] # NoRow /\ rows'[i].file = n /\ rows'[i].owner = o /\ rows'[i].holds = d
    BY <1>3 DEF RowClaims, Exists
  <2>2. CASE Exists(i) /\ SameRow(i)
    BY <2>1, <2>2 DEF Claims, RowClaims, SameRow
  <2>3. CASE InsertRow(w) /\ i # op[w].id /\ rows'[i] = rows[i]
    BY <2>1, <2>3 DEF Claims, RowClaims, Exists
  <2>4. CASE InsertRow(w) /\ i = op[w].id
    <3>1. /\ rows'[i].file = op[w].file /\ rows'[i].owner = op[w].owner
          /\ rows'[i].holds = op[w].digest /\ op[w].pc = "insert"
      BY <1>1, <2>4 DEF InsertRow, Types, TypeOK
    <3>2. QED
      BY <2>1, <3>1 DEF Claims, UploadClaims, Named
  <2>5. QED
    BY <1>1, <2>1, <2>2, <2>3, <2>4, RowsMove DEF Exists
<1>4. CASE UploadClaims(n, o, d)'
  <2>1. PICK v \in Workers : n \in Named(v)' /\ op'[v].owner = o /\ op'[v].digest = d
    BY <1>4 DEF UploadClaims
  <2>2. CASE v # w
    BY <1>2, <2>1, <2>2 DEF Claims, UploadClaims, Named, OthersStay
  <2>3. CASE v = w
    <3>1. op[w].owner = o /\ op[w].digest = d
      BY <1>1, <2>1, <2>3, NamedMoves DEF Persists
    <3>2. CASE FindTwins(w) /\ n \in Names(Twins(o, d))
      <4>1. PICK i \in Ids : Exists(i) /\ rows[i].owner = o /\ rows[i].sha256 = d /\ rows[i].file = n
        BY <3>2 DEF Names, Twins
      <4>2. rows[i].holds = d
        BY <1>1, <4>1, AttachmentAssumption DEF HashesAreTrue
      <4>3. QED
        BY <4>1, <4>2 DEF Claims, RowClaims
    <3>3. CASE Probe(w) /\ n \in Named(w)
      BY <3>1, <3>3 DEF Claims, UploadClaims
    <3>4. CASE WriteBlob(w) /\ n = op[w].id
      BY <3>1, <3>4
    <3>5. QED
      BY <1>1, <2>1, <2>3, <3>1, <3>2, <3>3, <3>4, NamedMoves
  <2>4. QED
    BY <2>2, <2>3
<1>5. QED
  BY <1>3, <1>4 DEF Claims

\* A claim is on what a row or an upload has: a stored name.
LEMMA OwnNameIsUnclaimed ==
  ASSUME IInv, NEW w \in Workers, WriteBlob(w), NEW o, NEW d
  PROVE  ~ Claims(op[w].id, o, d)
<1>1. Types /\ NamesAreIssued /\ UploadsAreNew /\ op[w].pc = "probe"
  BY DEF IInv, WriteBlob
<1>2. op[w].id \in Ids /\ op[w].id # NoFile /\ op[w].id \notin issued
  BY <1>1, AttachmentAssumption DEF Types, LocalsOK, Fits, UploadsAreNew, Uploading, UploadPcs
<1>3. ~ RowClaims(op[w].id, o, d)
  BY <1>1, <1>2 DEF RowClaims, NamesAreIssued
<1>4. ASSUME NEW v \in Workers, op[w].id \in Named(v)
      PROVE  FALSE
  <2>1. op[v].pc = "insert" /\ op[w].id = op[v].id
    BY <1>1, <1>2, <1>4 DEF NamesAreIssued
  <2>2. QED
    BY <1>1, <2>1 DEF UploadsAreNew, Uploading, UploadPcs
<1>5. QED
  BY <1>3, <1>4 DEF Claims, UploadClaims

\* Blobs are written by uploads, under their own name, or go.
LEMMA BlobsMove ==
  ASSUME Types, NEW w \in Workers, WorkerStep(w) \/ Age \/ LoseBlob, NEW n \in Ids
  PROVE  \/ blobs'[n] \in {blobs[n], NoDigest}
         \/ WriteBlob(w) /\ n = op[w].id /\ blobs'[n] = op[w].digest
<1>1. blobs \in [Ids -> Digests \cup {NoDigest}]
  BY DEF Types, TypeOK
<1>2. CASE blobs' = blobs
  BY <1>2
<1>3. CASE WriteBlob(w)
  BY <1>1, <1>3 DEF WriteBlob
<1>4. CASE DeleteBlob(w)
  BY <1>1, <1>4 DEF DeleteBlob
<1>5. CASE LoseBlob
  BY <1>1, <1>5 DEF LoseBlob
<1>6. QED
  BY <1>2, <1>3, <1>4, <1>5, TablesMove DEF Age

\* One owner's one file under each stored name, and those bytes or none.
LEMMA ClaimsStep ==
  ASSUME IInv, NEW w \in Workers, WorkerStep(w)
  PROVE  ClaimsAgree' /\ ClaimsAreTrue'
<1>1. Types /\ ClaimsAgree /\ ClaimsAreTrue
  BY DEF IInv
<1>2. ASSUME NEW n \in Ids, NEW o \in Owners, NEW p \in Owners, NEW d \in Digests,
             NEW e \in Digests, Claims(n, o, d)', Claims(n, p, e)'
      PROVE  o = p /\ d = e
  <2>1. CASE Claims(n, o, d) /\ Claims(n, p, e)
    BY <1>1, <2>1 DEF ClaimsAgree
  <2>2. CASE ~ Claims(n, o, d) \/ ~ Claims(n, p, e)
    <3>1. WriteBlob(w) /\ n = op[w].id
      BY <1>2, <2>2, ClaimsMove
    <3>2. ~ Claims(n, o, d) /\ ~ Claims(n, p, e)
      BY <3>1, OwnNameIsUnclaimed
    <3>3. QED
      BY <1>2, <3>2, ClaimsMove
  <2>3. QED
    BY <2>1, <2>2
<1>3. ASSUME NEW n \in Ids, NEW o \in Owners, NEW d \in Digests, Claims(n, o, d)'
      PROVE  blobs'[n] \in {d, NoDigest}
  <2>1. CASE WriteBlob(w) /\ n = op[w].id
    <3>1. d = op[w].digest
      BY <1>3, <2>1, ClaimsMove, OwnNameIsUnclaimed
    <3>2. QED
      BY <1>1, <2>1, <3>1 DEF WriteBlob, Types, TypeOK
  <2>2. CASE ~ (WriteBlob(w) /\ n = op[w].id)
    <3>1. Claims(n, o, d)
      BY <1>3, <2>2, ClaimsMove
    <3>2. blobs[n] \in {d, NoDigest}
      BY <1>1, <3>1 DEF ClaimsAreTrue
    <3>3. QED
      BY <1>1, <2>2, <3>2, BlobsMove
  <2>3. QED
    BY <2>1, <2>2
<1>4. ClaimsAgree'
  BY <1>2 DEF ClaimsAgree
<1>5. ClaimsAreTrue'
  BY <1>3 DEF ClaimsAreTrue
<1>6. QED
  BY <1>4, <1>5

\* A hash is written with its row, or computed from the row's bytes.
LEMMA HashesStep ==
  ASSUME IInv, NEW w \in Workers, WorkerStep(w)
  PROVE  HashesAreTrue'
<1>1. Types /\ HashesAreTrue /\ HashIsCurrent
  BY DEF IInv
<1>2. rows \in [Ids -> Row \cup {NoRow}]
  BY <1>1 DEF Types, TypeOK
<1> SUFFICES ASSUME NEW i \in Ids, rows'[i] # NoRow
             PROVE  rows'[i].sha256 \in {rows'[i].holds, NoDigest}
  BY DEF HashesAreTrue, Exists
<1>3. CASE rows' = rows
  BY <1>1, <1>3 DEF HashesAreTrue, Exists
<1>4. CASE DeleteRow(w)
  <2>1. PICK a \in op[w].todo : rows' = [rows EXCEPT ![a[1]] = NoRow]
    BY <1>1, <1>4, DeleteRowMoves
  <2>2. rows'[i] = rows[i]
    BY <1>2, <2>1
  <2>3. QED
    BY <1>1, <2>2 DEF HashesAreTrue, Exists
<1>5. CASE InsertRow(w)
  BY <1>1, <1>2, <1>5 DEF HashesAreTrue, Exists, InsertRow
<1>6. CASE SaveHash(w)
  <2>1. CASE Exists(op[w].id)
    <3>1. op[w].pc = "hash" /\ rows' = [rows EXCEPT ![op[w].id].sha256 = op[w].digest]
      BY <1>6, <2>1 DEF SaveHash
    <3>2. op[w].id \in Ids /\ rows[op[w].id].holds = op[w].digest
      BY <1>1, <2>1, <3>1 DEF HashIsCurrent, Types, LocalsOK, Fits
    <3>3. rows[op[w].id] \in Row
      BY <1>1, <2>1, <3>2, RowTyped
    <3>4. QED
      BY <1>1, <1>2, <3>1, <3>2, <3>3 DEF HashesAreTrue, Exists, Row
  <2>2. CASE ~ Exists(op[w].id)
    BY <1>3, <1>6, <2>2 DEF SaveHash
  <2>3. QED
    BY <2>1, <2>2
<1>7. QED
  BY <1>3, <1>4, <1>5, <1>6, TablesMove

\* A conversation keeps its key; a new one has a key of its own.
LEMMA ConversationsMove ==
  ASSUME Types, NEW w \in Workers, WorkerStep(w), NEW t \in Threads
  PROVE  /\ lastPk' \in Nat /\ lastPk <= lastPk'
         /\ conversations'[t] # NoConversation =>
              \/ Stored(t) /\ conversations'[t].pk = conversations[t].pk
              \/ /\ CreateConversation(w) /\ t = op[w].thread /\ ~ Stored(t)
                 /\ conversations'[t].pk = lastPk + 1 /\ lastPk' = lastPk + 1
         /\ Stored(t) /\ conversations'[t] = NoConversation =>
              EraseConversation(w) /\ t = op[w].thread
<1>1. /\ conversations \in [Threads -> Conversation \cup {NoConversation}]
      /\ lastPk \in Nat
  BY ConversationAssumption DEF Types, TypeOK
<1> USE DEF Stored
<1>2. CASE conversations' = conversations /\ lastPk' = lastPk
  BY <1>1, <1>2
<1>3. CASE CreateConversation(w)
  <2>1. t # op[w].thread => conversations'[t] = conversations[t]
    BY <1>1, <1>3 DEF CreateConversation
  <2>2. /\ ~ Stored(op[w].thread) /\ lastPk' = lastPk + 1
        /\ t = op[w].thread => conversations'[t].pk = lastPk'
    BY <1>1, <1>3 DEF CreateConversation
  <2>3. QED
    BY <1>1, <1>3, <2>1, <2>2
<1>4. CASE UpdateMessages(w) \/ WriteStripped(w)
  <2>0. op[w].quoted \in SUBSET Ids /\ op[w].inline \in BOOLEAN
    BY OpTyped DEF Operation
  <2> DEFINE u == op[w].thread
             pk == op[w].pk
  <2>1. PICK quoted \in SUBSET Ids, inline \in BOOLEAN : Rewrite(u, pk, quoted, inline)
    BY <1>4, <2>0 DEF UpdateMessages, WriteStripped
  <2>2. lastPk' = lastPk
    BY <1>4 DEF UpdateMessages, WriteStripped
  <2>3. CASE Stored(t) /\ u = t /\ HasPk(u, pk)
    <3>1. conversations'[t] = [conversations[t] EXCEPT !.quoted = quoted, !.inline = inline]
      BY <1>1, <2>1, <2>3 DEF Rewrite
    <3>2. conversations[t] \in Conversation
      BY <2>3, ConversationTyped
    <3>3. conversations'[t].pk = conversations[t].pk
      BY <3>1, <3>2 DEF Conversation
    <3>4. conversations'[t] \in Conversation
      BY <3>1, <3>2 DEF Conversation
    <3>5. conversations'[t] # NoConversation
      BY <3>4, ConversationAssumption
    <3>6. QED
      BY <1>1, <2>2, <2>3, <3>3, <3>5
  <2>4. CASE ~ (u = t /\ HasPk(u, pk))
    <3>1. conversations'[t] = conversations[t]
      BY <1>1, <2>1, <2>4 DEF Rewrite
    <3>2. QED
      BY <1>1, <2>2, <3>1
  <2>5. QED
    BY <2>3, <2>4 DEF HasPk
<1>5. CASE EraseConversation(w)
  BY <1>1, <1>5 DEF EraseConversation
<1>6. QED
  BY <1>2, <1>3, <1>4, <1>5, TablesMove

\* Keys are not given twice.
LEMMA PksStep ==
  ASSUME IInv, NEW w \in Workers, WorkerStep(w)
  PROVE  PksAreUnique'
<1>1. Types /\ PksAreUnique /\ lastPk \in Nat
  BY ConversationAssumption DEF IInv, Types, TypeOK
<1>2. ASSUME NEW t \in Threads, Stored(t)
      PROVE  conversations[t].pk \in Nat /\ conversations[t].pk <= lastPk
  BY <1>1, <1>2, ConversationTyped, ConversationAssumption DEF PksAreUnique
<1>3. ASSUME NEW t \in Threads, conversations'[t] # NoConversation
      PROVE  conversations'[t].pk <= lastPk'
  BY <1>1, <1>2, <1>3, ConversationsMove
<1>4. ASSUME NEW t \in Threads, NEW u \in Threads, conversations'[t] # NoConversation,
             conversations'[u] # NoConversation, conversations'[u].pk = conversations'[t].pk
      PROVE  u = t
  <2>1. CASE Stored(t) /\ Stored(u)
    BY <1>1, <1>4, <2>1, ConversationsMove DEF PksAreUnique, HasPk
  <2>2. CASE ~ Stored(t) \/ ~ Stored(u)
    BY <1>1, <1>2, <1>4, <2>2, ConversationsMove
  <2>3. QED
    BY <2>1, <2>2
<1>5. QED
  BY <1>3, <1>4 DEF PksAreUnique, Stored, HasPk

\* What an upload inserts.
LEMMA InsertedRow ==
  ASSUME Types, NEW w \in Workers, InsertRow(w)
  PROVE  op[w].id \in Ids /\ rows'[op[w].id] \in Row /\ rows'[op[w].id] # NoRow
<1> DEFINE row == [owner |-> op[w].owner, sha256 |-> op[w].digest, file |-> op[w].file,
                   old |-> FALSE, holds |-> op[w].digest]
<1>1. /\ op[w].id \in Ids /\ op[w].owner \in Owners /\ op[w].digest \in Digests
      /\ op[w].file \in Ids
  BY DEF InsertRow, Types, LocalsOK, Fits, UploadPcs
<1>2. row \in Row
  BY <1>1 DEF Row
<1>3. rows'[op[w].id] = row
  BY <1>1 DEF InsertRow, Types, TypeOK
<1>4. QED
  BY <1>1, <1>2, <1>3, AttachmentAssumption

\* Only a deletion takes a row, and the links to it go with it.
LEMMA RowsGo ==
  ASSUME Types, NEW w \in Workers, WorkerStep(w), NEW i \in Ids, Exists(i), rows'[i] = NoRow
  PROVE  DeleteRow(w) /\ \A l \in links' : l[2] # i
<1>1. rows \in [Ids -> Row \cup {NoRow}]
  BY DEF Types, TypeOK
<1>2. CASE DeleteRow(w)
  <2>1. PICK a \in op[w].todo :
          rows' = [rows EXCEPT ![a[1]] = NoRow] /\ links' = {k \in links : k[2] # a[1]}
    BY <1>2, DeleteRowMoves
  <2>2. a[1] = i
    BY <1>1, <2>1 DEF Exists
  <2>3. QED
    BY <1>2, <2>1, <2>2
<1>3. CASE InsertRow(w)
  <2>1. rows'[op[w].id] # NoRow
    BY <1>3, InsertedRow
  <2>2. i # op[w].id => rows'[i] = rows[i]
    BY <1>1, <1>3 DEF InsertRow
  <2>3. QED
    BY <2>1, <2>2 DEF Exists
<1>4. CASE SaveHash(w)
  <2>1. op[w].id \in Ids /\ op[w].digest \in Digests
    BY <1>4 DEF SaveHash, Types, LocalsOK, Fits
  <2>2. Exists(op[w].id) => [rows[op[w].id] EXCEPT !.sha256 = op[w].digest] \in Row
    BY <2>1, RowTyped, RowColumns
  <2>3. QED
    BY <1>1, <1>4, <2>1, <2>2, AttachmentAssumption DEF SaveHash, Exists
<1>5. QED
  BY <1>2, <1>3, <1>4, TablesMove DEF Exists

\* A row goes with the links to it, a conversation with the links out of it, and
\* a new link finds the rows at both of its ends.
LEMMA LinksStep ==
  ASSUME IInv, NEW w \in Workers, WorkerStep(w)
  PROVE  LinksJoin'
<1>1. /\ Types /\ LinksJoin /\ RowsAreIssued /\ UploadsAreNew /\ FoundIsTheOwners
      /\ PksAreUnique
  BY DEF IInv
<1>2. /\ rows \in [Ids -> Row \cup {NoRow}] /\ links \subseteq (1..PkBound) \X Ids
  BY <1>1 DEF Types, TypeOK
<1> SUFFICES ASSUME NEW l \in links'
             PROVE  /\ rows'[l[2]] # NoRow
                    /\ \E t \in Threads : /\ conversations'[t] # NoConversation
                                         /\ conversations'[t].pk = l[1]
                                         /\ ThreadOwner[t] = rows'[l[2]].owner
  BY DEF LinksJoin, Exists, HasPk, Stored
<1>3. CASE l \in links
  <2>1. l[2] \in Ids /\ l[2] \in issued /\ Exists(l[2])
    BY <1>1, <1>2, <1>3 DEF LinksJoin, RowsAreIssued
  <2>2. PICK t \in Threads : HasPk(t, l[1]) /\ ThreadOwner[t] = rows[l[2]].owner
    BY <1>1, <1>3 DEF LinksJoin
  <2>3. rows'[l[2]] # NoRow
    BY <1>1, <2>1, RowsGo
  <2>4. rows'[l[2]].owner = rows[l[2]].owner
    BY <2>1, <2>3, IssuedRowsStay DEF Exists, SameRow
  <2>5. ~ (EraseConversation(w) /\ t = op[w].thread)
    <3>1. ASSUME EraseConversation(w), t = op[w].thread
          PROVE  l \notin links'
      <4>1. links' = links \ LinksOf(conversations[t].pk) /\ conversations[t].pk = l[1]
        BY <2>2, <3>1 DEF EraseConversation, HasPk
      <4>2. QED
        BY <4>1 DEF LinksOf
    <3>2. QED
      BY <3>1
  <2>6. conversations'[t] # NoConversation /\ conversations'[t].pk = l[1]
    BY <1>1, <2>2, <2>5, ConversationsMove DEF HasPk
  <2>7. QED
    BY <2>2, <2>3, <2>4, <2>6
<1>4. CASE l \notin links
  <2>1. SetLinks(w)
    BY <1>4, TablesMove DEF DeleteRow, EraseConversation
  <2>2. l[1] = op[w].pk /\ l[2] \in op[w].found
    BY <1>4, <2>1 DEF SetLinks, LinksAfter
  <2>3. Exists(l[2]) /\ HasPk(op[w].thread, l[1])
    BY <2>1, <2>2 DEF SetLinks, Linkable
  <2>4. op[w].thread \in Threads /\ rows[l[2]].owner = ThreadOwner[op[w].thread]
    BY <1>1, <2>1, <2>2, <2>3 DEF SetLinks, FoundIsTheOwners, Types, LocalsOK, Fits, ThreadPcs
  <2>5. rows' = rows /\ conversations' = conversations
    BY <2>1 DEF SetLinks
  <2>6. QED
    BY <2>3, <2>4, <2>5 DEF Exists, HasPk, Stored
<1>5. QED
  BY <1>3, <1>4

\* Around the program, a row only gets older.
LEMMA AroundRows ==
  ASSUME Types, Age \/ LoseBlob
  PROVE  \A i \in Ids : /\ Exists(i)' <=> Exists(i)
                        /\ Exists(i) => SameRow(i) /\ rows'[i].sha256 = rows[i].sha256
<1>1. CASE LoseBlob
  BY <1>1 DEF LoseBlob, Exists, SameRow
<1>2. CASE Age
  <2>1. PICK i \in Ids : Exists(i) /\ rows' = [rows EXCEPT ![i].old = TRUE]
    BY <1>2 DEF Age
  <2>2. rows[i] \in Row /\ [rows[i] EXCEPT !.old = TRUE] \in Row
    BY <2>1, RowTyped DEF Row
  <2>3. rows \in [Ids -> Row \cup {NoRow}]
    BY DEF Types, TypeOK
  <2>4. ASSUME NEW j \in Ids, j # i
        PROVE  rows'[j] = rows[j]
    BY <2>1, <2>3, <2>4
  <2>5. rows'[i] = [rows[i] EXCEPT !.old = TRUE]
    BY <2>1, <2>3
  <2>6. rows'[i] # NoRow
    BY <2>2, <2>5, AttachmentAssumption
  <2>7. SameRow(i) /\ rows'[i].sha256 = rows[i].sha256
    BY <2>2, <2>5 DEF SameRow, Row
  <2>8. QED
    BY <2>1, <2>4, <2>6, <2>7 DEF Exists, SameRow
<1>3. QED
  BY <1>1, <1>2

\* Nor does what happens around the program break any of it.
LEMMA AroundStep ==
  ASSUME IInv, (Age \/ LoseBlob) /\ UNCHANGED <<conversations, lastPk>>, Types'
  PROVE  IInv'
<1>1. /\ Types /\ RowsAreIssued /\ UploadsAreNew /\ ClaimsAgree /\ ClaimsAreTrue
      /\ NamesAreIssued /\ HashesAreTrue /\ LoadedIsCurrent /\ HashIsCurrent
      /\ FoundIsTheOwners /\ PksAreUnique /\ LinksJoin
  BY DEF IInv
<1>2. /\ op' = op /\ issued' = issued /\ links' = links
      /\ conversations' = conversations /\ lastPk' = lastPk
  BY DEF Age, LoseBlob
<1>3. \A i \in Ids : /\ Exists(i)' <=> Exists(i)
                     /\ Exists(i) => SameRow(i) /\ rows'[i].sha256 = rows[i].sha256
  BY <1>1, AroundRows
<1>4. \A n \in Ids : blobs'[n] \in {blobs[n], NoDigest}
  <2>1. CASE LoseBlob
    BY <1>1, <2>1 DEF LoseBlob, Types, TypeOK
  <2>2. CASE Age
    BY <2>2 DEF Age
  <2>3. QED
    BY <2>1, <2>2
<1>5. \A n, o, d : Claims(n, o, d)' => Claims(n, o, d)
  BY <1>2, <1>3 DEF Claims, RowClaims, UploadClaims, Named, SameRow
<1>6. ClaimsAgree' /\ ClaimsAreTrue'
  <2>1. ClaimsAgree'
    BY <1>1, <1>5 DEF ClaimsAgree
  <2>2. ClaimsAreTrue'
    BY <1>1, <1>4, <1>5 DEF ClaimsAreTrue
  <2>3. QED
    BY <2>1, <2>2
<1>7. RowsAreIssued' /\ UploadsAreNew' /\ NamesAreIssued' /\ HashesAreTrue'
  BY <1>1, <1>2, <1>3 DEF RowsAreIssued, UploadsAreNew, Uploading, NamesAreIssued, Named,
                          HashesAreTrue, SameRow
<1>8. LoadedIsCurrent' /\ HashIsCurrent' /\ FoundIsTheOwners'
  <2>1. issued \subseteq Ids
    BY <1>1 DEF Types, TypeOK
  <2>2. QED
    BY <1>1, <1>2, <1>3, <2>1 DEF LoadedIsCurrent, HashIsCurrent, FoundIsTheOwners, SameRow
<1>9. PksAreUnique' /\ LinksJoin'
  <2>1. \A l \in links : l[2] \in Ids
    BY <1>1 DEF Types, TypeOK
  <2>2. QED
    BY <1>1, <1>2, <1>3, <2>1 DEF PksAreUnique, LinksJoin, HasPk, Stored, SameRow
<1>10. QED
  BY <1>6, <1>7, <1>8, <1>9 DEF IInv

\* Every step preserves the invariant.
LEMMA Step == IInv /\ [Next]_vars => IInv'
<1> SUFFICES ASSUME IInv, [Next]_vars PROVE IInv'
  OBVIOUS
<1>1. Types'
  BY TypeStep DEF IInv
<1>2. ASSUME NEW w \in Workers, WorkerStep(w)
      PROVE  IInv'
  BY <1>1, <1>2, FreshStep, ClaimsStep, NamesStep, HashesStep, ReadsStep, PksStep, LinksStep DEF IInv
<1>3. CASE (Age \/ LoseBlob) /\ UNCHANGED <<conversations, lastPk>>
  BY <1>1, <1>3, AroundStep
<1>4. CASE UNCHANGED vars
  BY <1>4 DEF vars, IInv, Types, TypeOK, LocalsOK, Fits, RowsAreIssued, Exists, UploadsAreNew, Uploading,
     ClaimsAgree, ClaimsAreTrue, Claims, RowClaims, UploadClaims, Named, NamesAreIssued,
     HashesAreTrue, LoadedIsCurrent, HashIsCurrent, FoundIsTheOwners, PksAreUnique, Stored, HasPk, LinksJoin
<1>5. QED
  BY <1>2, <1>3, <1>4 DEF Next, WorkerStep

\* It holds of every execution.
LEMMA Inductive == Spec => []IInv
BY Initial, Step, PTL DEF Spec

\* With nothing cut short, an operation that holds a stored name goes on with it.
LEMMA HoldersMove ==
  ASSUME NEW w \in Workers, WorkerStep(w), op[w].pc \in {"insert", "shared", "unlink"}
  PROVE  InsertRow(w) \/ CheckShared(w) \/ DeleteBlob(w) \/ op[w].call \in MayCrash
BY DEF WorkerStep, AttachmentStep, ConversationStep, Start, Upload, FindTwins, Probe, WriteBlob,
   Remove, DeleteRow, Deleted, Crash, Save, GetConversation, CreateConversation, UpdateMessages,
   Resolve, ReadLinks, FindMissing, SetLinks, SetLinksFails, Raise, Drop, CollectReferenced,
   EraseConversation, SelectOrphans, Prune, HashBlob, SaveHash, ReadInline, WriteStripped

\* The bytes under n are held by an operation that is about to give them a row
\* or to take them away.
Holds(w, n) == op[w].file = n /\ op[w].pc \in {"insert", "shared", "unlink"}

\* Without crashes, a step that takes the last row from a blob is on its way to it.
LEMMA ReclaimStep ==
  ASSUME IInv, MayCrash = {}, BlobsAreReclaimed, NEW w \in Workers, WorkerStep(w)
  PROVE  BlobsAreReclaimed'
<1>1. Types /\ LoadedIsCurrent /\ RowsAreIssued /\ UploadsAreNew
  BY DEF IInv
<1>2. OthersStay(w)
  BY <1>1, StepMoves
<1>3. rows \in [Ids -> Row \cup {NoRow}] /\ blobs \in [Ids -> Digests \cup {NoDigest}]
  BY <1>1 DEF Types, TypeOK
<1> SUFFICES ASSUME NEW n \in Ids, blobs'[n] # NoDigest
             PROVE  \/ \E i \in Ids : rows'[i] # NoRow /\ rows'[i].file = n
                    \/ \E v \in Workers : Holds(v, n)'
  BY DEF BlobsAreReclaimed, Exists, Holds
<1>4. CASE WriteBlob(w) /\ n = op[w].id
  BY <1>1, <1>4, WriteBlobMoves DEF Holds
<1>5. CASE \E i \in Ids : Exists(i) /\ rows[i].file = n
  <2>1. PICK i \in Ids : Exists(i) /\ rows[i].file = n
    BY <1>5
  <2>2. CASE rows'[i] # NoRow
    BY <1>1, <2>1, <2>2, IssuedRowsStay DEF Exists, SameRow, RowsAreIssued
  <2>3. CASE rows'[i] = NoRow
    <3>1. DeleteRow(w)
      BY <1>1, <2>1, <2>3, RowsGo
    <3>2. PICK a \in op[w].todo :
            /\ rows' = [rows EXCEPT ![a[1]] = NoRow] /\ op'[w].file = a[2]
            /\ op'[w].pc = IF a[2] = NoFile THEN "delete" ELSE "shared"
      BY <1>1, <3>1, DeleteRowMoves
    <3>3. a[1] = i
      BY <1>3, <2>1, <2>3, <3>2 DEF Exists
    <3>4. a[2] = n
      BY <1>1, <2>1, <3>2, <3>3 DEF LoadedIsCurrent
    <3>5. QED
      BY <3>2, <3>4, AttachmentAssumption DEF Holds
  <2>4. QED
    BY <2>2, <2>3
<1>6. CASE blobs[n] # NoDigest /\ \E v \in Workers : Holds(v, n)
  <2>1. PICK v \in Workers : Holds(v, n)
    BY <1>6
  <2>2. CASE v # w
    BY <1>2, <2>1, <2>2 DEF OthersStay, Holds
  <2>3. CASE v = w
    <3>1. CASE InsertRow(w)
      <4>1. op[w].id \in Ids /\ rows'[op[w].id].file = n
        BY <1>1, <1>3, <2>1, <2>3, <3>1 DEF InsertRow, Holds, Types, LocalsOK, Fits, UploadPcs
      <4>2. rows'[op[w].id] # NoRow
        BY <1>1, <3>1, InsertedRow
      <4>3. QED
        BY <4>1, <4>2
    <3>2. CASE CheckShared(w)
      <4>1. CASE Shared(n)
        BY <1>5, <4>1 DEF Shared
      <4>2. CASE ~ Shared(n)
        <5>1. op'[w].file = n /\ op'[w].pc = "unlink"
          BY <1>1, <2>1, <2>3, <3>2, <4>2, DeletionMoves DEF Holds, CheckShared, DeleteBlob
        <5>2. QED
          BY <5>1 DEF Holds
      <4>3. QED
        BY <4>1, <4>2
    <3>3. CASE DeleteBlob(w)
      BY <1>3, <2>1, <2>3, <3>3 DEF DeleteBlob, Holds
    <3>4. QED
      BY <2>1, <2>3, <3>1, <3>2, <3>3, HoldersMove DEF Holds
  <2>4. QED
    BY <2>2, <2>3
<1>7. QED
  BY <1>1, <1>4, <1>5, <1>6, BlobsMove DEF BlobsAreReclaimed, Holds

-----------------------------------------------------------------------------
\* The columns and locals of default_attachment_store.py,
\* default_conversation_store.py and the commands hold what the code takes them for.
THEOREM TypeCorrect == Spec => []TypeOK
<1>1. IInv => TypeOK
  BY DEF IInv, Types
<1>2. QED
  BY <1>1, Inductive, PTL

\* Deduplication in _save never makes two owners, or two different files, share a
\* stored file, whatever uploads, deletions and backfills run at the same time.
THEOREM SharedBlobs == Spec => []SharedBlobsAreTwins
<1>1. IInv => SharedBlobsAreTwins
  <2> SUFFICES ASSUME IInv, NEW i \in Ids, NEW j \in Ids, Exists(i), Exists(j),
                      rows[i].file = rows[j].file, rows[i].file # NoFile
               PROVE  rows[i].owner = rows[j].owner /\ rows[i].holds = rows[j].holds
    BY DEF SharedBlobsAreTwins
  <2>1. Types /\ ClaimsAgree
    BY DEF IInv
  <2>2. /\ rows[i].file \in Ids
        /\ rows[i].owner \in Owners /\ rows[i].holds \in Digests
        /\ rows[j].owner \in Owners /\ rows[j].holds \in Digests
    BY <2>1, RowTyped
  <2>3. /\ Claims(rows[i].file, rows[i].owner, rows[i].holds)
        /\ Claims(rows[i].file, rows[j].owner, rows[j].holds)
    BY DEF Claims, RowClaims
  <2>4. QED
    BY <2>1, <2>2, <2>3 DEF ClaimsAgree
<1>2. QED
  BY <1>1, Inductive, PTL

\* What an attachment's row refers to is what its user uploaded, or gone: no upload,
\* adoption or backfilled hash mixes up bytes.
THEOREM Bytes == Spec => []BytesAreTheUploads
<1>1. IInv => BytesAreTheUploads
  <2> SUFFICES ASSUME IInv, NEW i \in Ids, Exists(i)
               PROVE  /\ rows[i].file # NoFile => blobs[rows[i].file] \in {rows[i].holds, NoDigest}
                      /\ rows[i].sha256 \in {rows[i].holds, NoDigest}
    BY DEF BytesAreTheUploads
  <2>1. Types /\ ClaimsAreTrue /\ HashesAreTrue
    BY DEF IInv
  <2>2. /\ rows[i].file \in Ids \cup {NoFile}
        /\ rows[i].owner \in Owners /\ rows[i].holds \in Digests
    BY <2>1, RowTyped
  <2>3. Claims(rows[i].file, rows[i].owner, rows[i].holds)
    BY DEF Claims, RowClaims
  <2>4. QED
    BY <2>1, <2>2, <2>3 DEF ClaimsAreTrue, HashesAreTrue
<1>2. QED
  BY <1>1, Inductive, PTL

\* The reconciliation resolves only the owner's attachments, several steps before it writes
\* the links; no step in between makes one point elsewhere.
THEOREM Links == Spec => []LinksStayWithinOwner
<1>1. IInv => LinksStayWithinOwner
  <2> SUFFICES ASSUME IInv, NEW l \in links
               PROVE  Exists(l[2]) /\ OwnerOfPk(l[1]) = {rows[l[2]].owner}
    BY DEF LinksStayWithinOwner
  <2>1. PICK t \in Threads : HasPk(t, l[1]) /\ ThreadOwner[t] = rows[l[2]].owner /\ Exists(l[2])
    BY DEF IInv, LinksJoin
  <2>2. \A u \in Threads : HasPk(u, l[1]) <=> u = t
    BY <2>1 DEF IInv, PksAreUnique, HasPk
  <2>3. QED
    BY <2>1, <2>2 DEF OwnerOfPk
<1>2. QED
  BY <1>1, Inductive, PTL

\* delete_attachments asks whether a name is shared after the row is gone, so of two
\* deletions of twins the last one takes the bytes: without a crash none are left.
THEOREM Reclaimed ==
  ASSUME MayCrash = {}
  PROVE  Spec => []BlobsAreReclaimed
<1>1. Init => BlobsAreReclaimed
  <2> SUFFICES ASSUME Init, NEW n \in Ids, blobs[n] # NoDigest
               PROVE  \E i \in Ids : Exists(i) /\ rows[i].file = n
    BY DEF BlobsAreReclaimed
  <2>1. PICK stored \in [Legacy -> LegacyRow] :
          /\ rows = [i \in Ids |-> IF i \in Legacy THEN stored[i] ELSE NoRow]
          /\ blobs = [i \in Ids |-> IF i \in Legacy /\ stored[i].file = i
                                    THEN stored[i].holds ELSE NoDigest]
    BY DEF Init, AttachmentInit
  <2>2. n \in Legacy /\ stored[n].file = n /\ stored[n] \in Row
    BY <2>1 DEF LegacyRow
  <2>3. QED
    BY <2>1, <2>2, AttachmentAssumption DEF Exists
<1>2. IInv /\ BlobsAreReclaimed /\ [Next]_vars => BlobsAreReclaimed'
  <2> SUFFICES ASSUME IInv, BlobsAreReclaimed, [Next]_vars PROVE BlobsAreReclaimed'
    OBVIOUS
  <2>1. ASSUME NEW w \in Workers, WorkerStep(w) PROVE BlobsAreReclaimed'
    BY <2>1, ReclaimStep
  <2>2. CASE Age \/ LoseBlob
    <3>1. \A i \in Ids : /\ Exists(i)' <=> Exists(i)
                         /\ Exists(i) => SameRow(i) /\ rows'[i].sha256 = rows[i].sha256
      BY <2>2, AroundRows DEF IInv
    <3>2. op' = op /\ \A n \in Ids : blobs'[n] \in {blobs[n], NoDigest}
      BY <2>2 DEF Age, LoseBlob, IInv, Types, TypeOK
    <3>3. QED
      BY <3>1, <3>2 DEF BlobsAreReclaimed, SameRow
  <2>3. CASE UNCHANGED vars
    BY <2>3 DEF vars, BlobsAreReclaimed, Exists
  <2>4. QED
    BY <2>1, <2>2, <2>3 DEF Next, WorkerStep
<1>3. QED
  BY <1>1, <1>2, Inductive, PTL DEF Spec
=============================================================================
