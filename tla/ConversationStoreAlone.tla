----------------------- MODULE ConversationStoreAlone -----------------------
(***************************************************************************)
(* What the attachment and conversation tables promise while one operation *)
(* follows another, cut short or not: a user's requests one at a time, a   *)
(* command run while nobody uses the site.                                 *)
(*                                                                         *)
(* Nothing of this holds between two workers (see the run that loses       *)
(* bytes): each reading is still true when it is used only because nobody  *)
(* else has moved since.                                                   *)
(***************************************************************************)
EXTENDS ConversationStoreProofs

Alone == \A v, w \in Workers : v = w

-----------------------------------------------------------------------------
(* Where a step leads, and what it carries along                           *)

Carried(w) ==
  \/ FindTwins(w) \/ Probe(w) \/ WriteBlob(w) \/ DeleteRow(w) \/ CheckShared(w) \/ DeleteBlob(w)
  \/ GetConversation(w) \/ CreateConversation(w) \/ UpdateMessages(w) \/ Resolve(w)
  \/ ReadLinks(w) \/ FindMissing(w) \/ SetLinksFails(w) \/ CollectReferenced(w)
  \/ EraseConversation(w) \/ SelectOrphans(w)

Started(w) ==
  \/ Upload(w) \/ Remove(w) \/ Save(w) \/ Drop(w) \/ Prune(w) \/ HashBlob(w) \/ ReadInline(w)

\* An operation starts, goes on, or returns.
LEMMA StepKinds ==
  ASSUME NEW w \in Workers, WorkerStep(w)
  PROVE  Started(w) \/ Carried(w) \/ Return(w)
BY DEF WorkerStep, AttachmentStep, ConversationStep, Started, Carried, InsertRow, Deleted, Crash,
   SetLinks, Raise, SaveHash, WriteStripped

\* While it goes on it is the same call, on the same thread, about the same messages.
LEMMA Carries ==
  ASSUME Types, NEW w \in Workers, Carried(w)
  PROVE  /\ op'[w].call = op[w].call /\ op'[w].thread = op[w].thread
         /\ op'[w].quoted = op[w].quoted /\ op'[w].forecast = op[w].forecast
         /\ op'[w].freed = IF DeleteBlob(w) THEN op[w].freed + 1 ELSE op[w].freed
<1>1. op \in [Workers -> Operation]
  BY DEF Types, TypeOK
<1>2. CASE FindTwins(w)
  BY <1>1, <1>2 DEF FindTwins, DeleteBlob, Operation
<1>3. CASE Probe(w)
  BY <1>1, <1>3 DEF Probe, DeleteBlob, Operation
<1>4. CASE WriteBlob(w)
  BY <1>1, <1>4 DEF WriteBlob, DeleteBlob, Operation
<1>5. CASE DeleteRow(w)
  BY <1>1, <1>5 DEF DeleteRow, DeleteBlob, Operation
<1>6. CASE CheckShared(w)
  BY <1>1, <1>6 DEF CheckShared, DeleteBlob, Operation
<1>7. CASE DeleteBlob(w)
  BY <1>1, <1>7 DEF DeleteBlob, Operation
<1>8. CASE GetConversation(w)
  BY <1>1, <1>8 DEF GetConversation, DeleteBlob, Operation
<1>9. CASE CreateConversation(w)
  BY <1>1, <1>9 DEF CreateConversation, DeleteBlob, Operation
<1>10. CASE UpdateMessages(w)
  BY <1>1, <1>10 DEF UpdateMessages, DeleteBlob, Operation
<1>11. CASE Resolve(w)
  BY <1>1, <1>11 DEF Resolve, DeleteBlob, Operation
<1>12. CASE ReadLinks(w)
  BY <1>1, <1>12 DEF ReadLinks, DeleteBlob, Operation
<1>13. CASE FindMissing(w)
  BY <1>1, <1>13 DEF FindMissing, DeleteBlob, Operation
<1>14. CASE SetLinksFails(w)
  BY <1>1, <1>14 DEF SetLinksFails, DeleteBlob, Operation
<1>15. CASE CollectReferenced(w)
  BY <1>1, <1>15 DEF CollectReferenced, DeleteBlob, Operation
<1>16. CASE EraseConversation(w)
  BY <1>1, <1>16 DEF EraseConversation, DeleteBlob, Operation
<1>17. CASE SelectOrphans(w)
  BY <1>1, <1>17 DEF SelectOrphans, DeleteBlob, Operation
<1>18. QED
  BY <1>2, <1>3, <1>4, <1>5, <1>6, <1>7, <1>8, <1>9, <1>10, <1>11, <1>12, <1>13, <1>14,
     <1>15, <1>16, <1>17 DEF Carried

\* A save is of a thread and quotes what some client was given.
LEMMA SaveStarts ==
  ASSUME Types, NEW w \in Workers, Save(w)
  PROVE  /\ op'[w].pc = "get" /\ op'[w].call = "save" /\ op'[w].todo = {}
         /\ op'[w].quoted \subseteq issued
<1>1. PICK t \in Threads, q \in SUBSET issued, b \in InlineParts :
        Start(w, "save", [Idle EXCEPT !.pc = "get", !.thread = t, !.quoted = q, !.inline = b])
  BY DEF Save
<1> DEFINE from == [Idle EXCEPT !.pc = "get", !.thread = t, !.quoted = q, !.inline = b]
<1>2. q \subseteq Ids /\ b \in BOOLEAN
  BY ConversationAssumption DEF Types, TypeOK
<1>3. from \in Operation
  BY <1>2, IdleOK, FieldsFit
<1>4. from.pc = "get" /\ from.quoted = q /\ from.todo = {}
  BY DEF Idle
<1>5. Start(w, "save", from)
  BY <1>1
<1> HIDE DEF from
<1>6. QED
  BY <1>3, <1>4, <1>5, StartMoves

\* The strip command has read the conversation it will write.
LEMMA StripStarts ==
  ASSUME Types, NEW w \in Workers, ReadInline(w)
  PROVE  /\ op'[w].pc = "strip" /\ op'[w].call = "strip" /\ op'[w].todo = {}
         /\ op'[w].thread \in Threads /\ HasPk(op'[w].thread, op'[w].pk)
         /\ op'[w].quoted = conversations[op'[w].thread].quoted
<1>1. PICK t \in Threads :
        /\ Stored(t)
        /\ Start(w, "strip", [Idle EXCEPT !.pc = "strip", !.thread = t,
                           !.pk = conversations[t].pk, !.quoted = conversations[t].quoted])
  BY DEF ReadInline
<1> DEFINE pk == conversations[t].pk
           quoted == conversations[t].quoted
           from == [Idle EXCEPT !.pc = "strip", !.thread = t, !.pk = pk, !.quoted = quoted]
<1>2. pk \in 0..PkBound /\ quoted \subseteq Ids
  BY <1>1, ConversationTyped, ConversationAssumption
<1>3. Start(w, "strip", from) /\ pk = conversations[t].pk /\ quoted = conversations[t].quoted
  BY <1>1
<1> HIDE DEF pk, quoted
<1>4. from \in Operation
  BY <1>2, IdleOK, FieldsFit
<1>5. from.pc = "strip" /\ from.todo = {} /\ from.thread = t /\ from.pk = pk /\ from.quoted = quoted
  BY DEF Idle
<1> HIDE DEF from
<1>6. /\ op'[w].pc = "strip" /\ op'[w].call = "strip" /\ op'[w].todo = {}
      /\ op'[w].thread = t /\ op'[w].pk = pk /\ op'[w].quoted = quoted
  BY <1>3, <1>4, <1>5, StartMoves
<1>7. QED
  BY <1>1, <1>3, <1>6 DEF HasPk

\* The prune command has forecast what it will free, and freed nothing.
LEMMA PruneStarts ==
  ASSUME Types, NEW w \in Workers, Prune(w)
  PROVE  /\ op'[w].pc = "delete" /\ op'[w].call = "prune" /\ op'[w].quoted = {}
         /\ op'[w].freed = 0
         /\ \E S \in SUBSET Ids : /\ \A i \in S : Exists(i)
                                  /\ op'[w].todo = Loaded(S) /\ op'[w].forecast = Preview(S)
<1> DEFINE candidates == {i \in Unreferenced(Ids) : rows[i].old}
           todo == Loaded(candidates)
           forecast == Preview(candidates)
           from == [Idle EXCEPT !.pc = "delete", !.todo = todo, !.forecast = forecast]
<1>1. Start(w, "prune", from)
  BY DEF Prune
<1>2. candidates \subseteq Ids /\ \A i \in candidates : Exists(i)
  BY DEF Unreferenced
<1> HIDE DEF candidates
<1>3. todo \subseteq Ids \X (Ids \cup {NoFile})
  BY <1>2, RowTyped DEF Loaded
<1>4. forecast \in Nat
  BY <1>2, PreviewTyped
<1>5. todo = Loaded(candidates) /\ forecast = Preview(candidates)
  OBVIOUS
<1> HIDE DEF todo, forecast
<1>6. from \in Operation
  BY <1>3, <1>4, IdleOK, FieldsFit
<1>7. /\ from.pc = "delete" /\ from.todo = todo /\ from.forecast = forecast
      /\ from.freed = 0 /\ from.quoted = {}
  BY DEF Idle
<1> HIDE DEF from
<1>8. /\ op'[w].pc = "delete" /\ op'[w].call = "prune" /\ op'[w].quoted = {}
      /\ op'[w].freed = 0 /\ op'[w].todo = todo /\ op'[w].forecast = forecast
  BY <1>1, <1>6, <1>7, StartMoves
<1>9. QED
  BY <1>2, <1>5, <1>8

\* A user's deletion is one of a single attachment.
LEMMA RemoveStarts ==
  ASSUME Types, NEW w \in Workers, Remove(w)
  PROVE  op'[w].call = "remove" /\ op'[w].quoted = {}
<1>1. PICK i \in issued :
        Exists(i) /\ Start(w, "remove", [Idle EXCEPT !.pc = "delete", !.todo = Loaded({i})])
  BY DEF Remove
<1> DEFINE todo == Loaded({i})
           from == [Idle EXCEPT !.pc = "delete", !.todo = todo]
<1>2. todo \subseteq Ids \X (Ids \cup {NoFile})
  BY <1>1, RowTyped DEF Loaded, Types, TypeOK
<1>3. Start(w, "remove", from)
  BY <1>1
<1> HIDE DEF todo
<1>4. from \in Operation
  BY <1>2, IdleOK, FieldsFit
<1>5. from.quoted = {}
  BY DEF Idle
<1> HIDE DEF from
<1>6. QED
  BY <1>3, <1>4, <1>5, StartMoves

\* The others quote no messages and delete nothing yet.
LEMMA OthersStart ==
  ASSUME Types, NEW w \in Workers, Upload(w) \/ Drop(w) \/ HashBlob(w)
  PROVE  /\ op'[w].pc \in {"twins", "collect", "hash"} /\ op'[w].quoted = {} /\ op'[w].todo = {}
         /\ op'[w].pc = "collect" => op'[w].call = "drop"
<1>1. PICK from \in Operation, call \in {"upload", "drop", "backfill"} :
        /\ Start(w, call, from)
        /\ from.pc \in {"twins", "collect", "hash"} /\ from.quoted = {} /\ from.todo = {}
        /\ from.pc = "collect" => call = "drop"
  <2>1. CASE Upload(w)
    <3>1. PICK i \in Ids, o \in Owners, d \in Digests :
            Start(w, "upload", [Idle EXCEPT !.pc = "twins", !.id = i, !.owner = o, !.digest = d])
      BY <2>1 DEF Upload
    <3> DEFINE x == [Idle EXCEPT !.pc = "twins", !.id = i, !.owner = o, !.digest = d]
    <3>2. x \in Operation
      BY IdleOK, FieldsFit
    <3>3. x.pc = "twins" /\ x.quoted = {} /\ x.todo = {}
      BY DEF Idle
    <3>4. Start(w, "upload", x)
      BY <3>1
    <3> HIDE DEF x
    <3>5. QED
      BY <3>2, <3>3, <3>4
  <2>2. CASE Drop(w)
    <3>1. PICK t \in Threads : Start(w, "drop", [Idle EXCEPT !.pc = "collect", !.thread = t])
      BY <2>2 DEF Drop
    <3> DEFINE x == [Idle EXCEPT !.pc = "collect", !.thread = t]
    <3>2. x \in Operation
      BY IdleOK, FieldsFit
    <3>3. x.pc = "collect" /\ x.quoted = {} /\ x.todo = {}
      BY DEF Idle
    <3>4. Start(w, "drop", x)
      BY <3>1
    <3> HIDE DEF x
    <3>5. QED
      BY <3>2, <3>3, <3>4
  <2>3. CASE HashBlob(w)
    <3>1. PICK i \in Ids :
            /\ Exists(i) /\ rows[i].file # NoFile /\ blobs[rows[i].file] # NoDigest
            /\ Start(w, "backfill",
                     [Idle EXCEPT !.pc = "hash", !.id = i, !.digest = blobs[rows[i].file]])
      BY <2>3 DEF HashBlob
    <3> DEFINE d == blobs[rows[i].file]
               x == [Idle EXCEPT !.pc = "hash", !.id = i, !.digest = d]
    <3>2. d \in Digests
      BY <3>1, RowTyped DEF Types, TypeOK
    <3>3. Start(w, "backfill", x)
      BY <3>1
    <3> HIDE DEF d
    <3>4. x \in Operation
      BY <3>2, IdleOK, FieldsFit
    <3>5. x.pc = "hash" /\ x.quoted = {} /\ x.todo = {}
      BY DEF Idle
    <3> HIDE DEF x
    <3>6. QED
      BY <3>3, <3>4, <3>5
  <2>4. QED
    BY <2>1, <2>2, <2>3
<1>2. QED
  BY <1>1, StartMoves

\* Where each place in an operation is reached from.
LEMMA Origins ==
  ASSUME Types, NEW w \in Workers, WorkerStep(w)
  PROVE  /\ op'[w].pc = "insert" => Probe(w) \/ WriteBlob(w)
         /\ op'[w].pc = "delete" => \/ Remove(w) \/ SelectOrphans(w) \/ Prune(w) \/ DeleteRow(w)
                                    \/ CheckShared(w) \/ DeleteBlob(w)
         /\ op'[w].pc = "shared" => DeleteRow(w)
         /\ op'[w].pc = "unlink" => CheckShared(w)
         /\ op'[w].pc = "get" => Save(w)
         /\ op'[w].pc = "update" => GetConversation(w)
         /\ op'[w].pc = "resolve" => CreateConversation(w) \/ UpdateMessages(w)
         /\ op'[w].pc = "linked" => Resolve(w)
         /\ op'[w].pc = "missing" => ReadLinks(w)
         /\ op'[w].pc = "link" => FindMissing(w)
         /\ op'[w].pc = "raised" => SetLinksFails(w)
         /\ op'[w].pc = "strip" => ReadInline(w)
         /\ op'[w].pc = "collect" => Drop(w)
         /\ op'[w].pc = "erase" => CollectReferenced(w)
         /\ op'[w].pc = "orphans" => EraseConversation(w)
<1>1. op \in [Workers -> Operation]
  BY DEF Types, TypeOK
<1>2. CASE Return(w)
  BY <1>2, ReturnMoves
<1>3. CASE Upload(w)
  BY <1>3, UploadMoves
<1>4. CASE FindTwins(w)
  BY <1>4, FindTwinsMoves
<1>5. CASE Probe(w)
  BY <1>5, ProbeMoves
<1>6. CASE WriteBlob(w)
  BY <1>6, WriteBlobMoves
<1>7. CASE Remove(w)
  BY <1>7, RemoveMoves
<1>8. CASE DeleteRow(w)
  BY <1>8, DeleteRowMoves
<1>9. CASE CheckShared(w)
  BY <1>1, <1>9 DEF CheckShared, Operation
<1>10. CASE DeleteBlob(w)
  BY <1>1, <1>10 DEF DeleteBlob, Operation
<1>11. CASE Save(w)
  BY <1>11, SaveStarts
<1>12. CASE GetConversation(w)
  BY <1>1, <1>12 DEF GetConversation, Operation
<1>13. CASE CreateConversation(w) \/ UpdateMessages(w)
  BY <1>1, <1>13 DEF CreateConversation, UpdateMessages, Operation
<1>14. CASE Resolve(w)
  BY <1>1, <1>14 DEF Resolve, Operation
<1>15. CASE ReadLinks(w)
  BY <1>1, <1>15 DEF ReadLinks, Operation
<1>16. CASE FindMissing(w)
  BY <1>1, <1>16 DEF FindMissing, Operation
<1>17. CASE SetLinksFails(w)
  BY <1>1, <1>17 DEF SetLinksFails, Operation
<1>18. CASE CollectReferenced(w)
  BY <1>1, <1>18 DEF CollectReferenced, Operation
<1>19. CASE SelectOrphans(w) \/ Prune(w)
  BY <1>19, CollectMoves
<1>20. CASE HashBlob(w)
  BY <1>20, HashBlobMoves
<1>21. CASE ReadInline(w)
  BY <1>21, ReadInlineMoves
<1>22. CASE EraseConversation(w)
  BY <1>1, <1>22 DEF EraseConversation, Operation
<1>23. CASE Drop(w)
  BY <1>23, OthersStart, DropMoves
<1>24. QED
  BY <1>2, <1>3, <1>4, <1>5, <1>6, <1>7, <1>8, <1>9, <1>10, <1>11, <1>12, <1>13, <1>14, <1>15,
     <1>16, <1>17, <1>18, <1>19, <1>20, <1>21, <1>22, <1>23, StepKinds DEF Started, Carried

\* The places of a save and of a removal are places of nothing else.
PlacesOK ==
  \A w \in Workers :
    /\ op[w].pc \in {"get", "update", "resolve", "linked", "missing", "link"} => op[w].call = "save"
    /\ op[w].pc \in {"collect", "erase", "orphans"} => op[w].call = "drop"

\* They are only reached from one another.
LEMMA PlacesStep ==
  ASSUME Types, PlacesOK, NEW w \in Workers, WorkerStep(w)
  PROVE  PlacesOK'
<1>1. OthersStay(w)
  BY StepMoves
<1>2. ASSUME op'[w].pc \in {"get", "update", "resolve", "linked", "missing", "link"}
      PROVE  op'[w].call = "save"
  <2>1. CASE Save(w)
    BY <2>1, SaveStarts
  <2>2. CASE \/ GetConversation(w) \/ CreateConversation(w) \/ UpdateMessages(w) \/ Resolve(w)
             \/ ReadLinks(w) \/ FindMissing(w)
    <3>1. op'[w].call = op[w].call
      BY <2>2, Carries DEF Carried
    <3>2. op[w].pc \in {"get", "update", "resolve", "linked", "missing", "link"}
      BY <2>2 DEF GetConversation, CreateConversation, UpdateMessages, Resolve, ReadLinks, FindMissing
    <3>3. QED
      BY <3>1, <3>2 DEF PlacesOK
  <2>3. QED
    BY <1>2, <2>1, <2>2, Origins
<1>3. ASSUME op'[w].pc \in {"collect", "erase", "orphans"}
      PROVE  op'[w].call = "drop"
  <2>1. CASE Drop(w)
    BY <1>3, <2>1, OthersStart
  <2>2. CASE CollectReferenced(w) \/ EraseConversation(w)
    <3>1. op'[w].call = op[w].call
      BY <2>2, Carries DEF Carried
    <3>2. op[w].pc \in {"collect", "erase"}
      BY <2>2 DEF CollectReferenced, EraseConversation
    <3>3. QED
      BY <3>1, <3>2 DEF PlacesOK
  <2>3. QED
    BY <1>3, <2>1, <2>2, Origins
<1>4. QED
  BY <1>1, <1>2, <1>3 DEF PlacesOK, OthersStay

-----------------------------------------------------------------------------
(* Bytes                                                                   *)

\* An upload about to write its row has bytes to refer to, and a deletion about
\* to take some has no row left that needs them.
BytesAtHand ==
  \A w \in Workers :
    /\ op[w].pc = "insert" => blobs[op[w].file] # NoDigest
    /\ op[w].pc = "unlink" => ~ Shared(op[w].file)

\* Nobody else moves between the look and the leap,
LEMMA BytesStep ==
  ASSUME IInv, Alone, NEW w \in Workers, WorkerStep(w)
  PROVE  BytesAtHand'
<1>1. Types /\ op \in [Workers -> Operation] /\ blobs \in [Ids -> Digests \cup {NoDigest}]
  BY DEF IInv, Types, TypeOK
<1> SUFFICES /\ op'[w].pc = "insert" => blobs'[op'[w].file] # NoDigest
             /\ op'[w].pc = "unlink" => ~ Shared(op[w].file)'
  BY DEF Alone, BytesAtHand
<1>2. ASSUME op'[w].pc = "insert" PROVE blobs'[op'[w].file] # NoDigest
  <2>1. CASE Probe(w)
    <3>1. blobs' = blobs
      BY <2>1 DEF Probe
    <3>2. QED
      BY <1>1, <1>2, <2>1, <3>1, ProbeMoves DEF Adopts
  <2>2. CASE WriteBlob(w)
    <3>1. op'[w].file = op[w].id
      BY <1>1, <2>2, WriteBlobMoves
    <3>2. op[w].id \in Ids /\ op[w].digest \in Digests /\ blobs' = [blobs EXCEPT ![op[w].id] = op[w].digest]
      BY <1>1, <2>2 DEF WriteBlob, Types, LocalsOK, Fits, UploadPcs
    <3>3. QED
      BY <1>1, <3>1, <3>2, AttachmentAssumption
  <2>3. QED
    BY <1>1, <1>2, <2>1, <2>2, Origins
<1>3. ASSUME op'[w].pc = "unlink" PROVE ~ Shared(op[w].file)'
  <2>1. CheckShared(w)
    BY <1>1, <1>3, Origins
  <2>2. op'[w].file = op[w].file /\ rows' = rows
    BY <1>1, <2>1, DeletionMoves DEF CheckShared
  <2>3. ~ Shared(op[w].file)
    BY <1>1, <1>3, <2>1 DEF CheckShared, Operation
  <2>4. QED
    BY <2>2, <2>3 DEF Shared, Exists
<1>4. QED
  BY <1>2, <1>3

\* and the storage loses bytes only between operations.
LEMMA BytesAround ==
  ASSUME IInv, BytesAtHand, Age \/ LoseBlob
  PROVE  BytesAtHand'
<1>1. \A i \in Ids : Exists(i)' <=> Exists(i)
  BY AroundRows DEF IInv
<1>2. \A i \in Ids : Exists(i) => rows'[i].file = rows[i].file
  BY AroundRows DEF IInv, SameRow
<1>3. op' = op
  BY DEF Age, LoseBlob
<1>4. \A n : Shared(n)' <=> Shared(n)
  BY <1>1, <1>2 DEF Shared
<1>5. CASE Age
  BY <1>3, <1>4, <1>5 DEF Age, BytesAtHand
<1>6. CASE LoseBlob
  BY <1>3, <1>6 DEF LoseBlob, BytesAtHand
<1>7. QED
  BY <1>5, <1>6

-----------------------------------------------------------------------------
(* Deletions                                                               *)

\* What a deletion listed is there until it comes to it, and a collector's list
\* is of attachments no conversation refers to.
TodoIsThere ==
  \A w \in Workers : \A a \in op[w].todo :
    /\ Exists(a[1])
    /\ op[w].call \in {"drop", "prune"} => \A l \in links : l[2] # a[1]

\* Nobody takes a row from a list, or links to it, while it is worked off.
LEMMA TodoStep ==
  ASSUME IInv, Alone, TodoIsThere, NEW w \in Workers, WorkerStep(w)
  PROVE  TodoIsThere'
<1>1. Types /\ LoadedIsCurrent /\ RowsAreIssued /\ op[w] \in Operation
      /\ rows \in [Ids -> Row \cup {NoRow}]
  BY OpTyped DEF IInv, Types, TypeOK
<1> SUFFICES ASSUME NEW a \in op'[w].todo
             PROVE  /\ rows'[a[1]] # NoRow
                    /\ op'[w].call \in {"drop", "prune"} => \A l \in links' : l[2] # a[1]
  BY DEF Alone, TodoIsThere, Exists
<1>2. CASE Remove(w)
  <2>1. rows' = rows /\ op'[w].call = "remove"
    BY <1>1, <1>2, RemoveStarts DEF Remove
  <2>2. PICK i \in issued : Exists(i) /\ op'[w].todo = Loaded({i})
    BY <1>1, <1>2, RemoveMoves
  <2>3. a[1] = i
    BY <2>2 DEF Loaded
  <2>4. QED
    BY <2>1, <2>2, <2>3 DEF Exists
<1>3. CASE SelectOrphans(w) \/ Prune(w)
  <2>1. rows' = rows /\ links' = links
    BY <1>3 DEF SelectOrphans, Prune, attachmentTables
  <2>2. PICK S \in SUBSET Unreferenced(Ids) : op'[w].todo = Loaded(S)
    BY <1>1, <1>3, CollectMoves
  <2>3. a[1] \in S
    BY <2>2 DEF Loaded
  <2>4. QED
    BY <2>1, <2>2, <2>3 DEF Unreferenced, Exists
<1>4. CASE DeleteRow(w)
  <2>1. PICK b \in op[w].todo :
          /\ rows' = [rows EXCEPT ![b[1]] = NoRow] /\ links' = {l \in links : l[2] # b[1]}
          /\ op'[w].todo = op[w].todo \ {b}
    BY <1>1, <1>4, DeleteRowMoves
  <2>2. /\ a \in op[w].todo /\ a # b
        /\ a \in Ids \X (Ids \cup {NoFile}) /\ b \in Ids \X (Ids \cup {NoFile})
    BY <1>1, <2>1 DEF Operation
  <2>3. Exists(a[1]) /\ Exists(b[1])
    BY <2>1, <2>2 DEF TodoIsThere
  <2>4. rows[a[1]].file = a[2] /\ rows[b[1]].file = b[2]
    BY <1>1, <2>1, <2>2, <2>3 DEF LoadedIsCurrent
  <2>5. a[1] # b[1]
    BY <2>2, <2>4
  <2>6. rows'[a[1]] = rows[a[1]]
    BY <1>1, <2>1, <2>2, <2>5
  <2>7. op'[w].call = op[w].call
    BY <1>1, <1>4, Carries DEF Carried
  <2>8. QED
    BY <2>1, <2>2, <2>3, <2>6, <2>7 DEF TodoIsThere, Exists
<1>5. CASE Carried(w) /\ ~ DeleteRow(w) /\ ~ SelectOrphans(w)
  <2>1. op'[w].call = op[w].call /\ a \in op[w].todo
    BY <1>1, <1>5, Carries, FindTwinsMoves, ProbeMoves, WriteBlobMoves, DeletionMoves, SaveMoves,
       LinkingMoves, DropMoves DEF Carried, Persists
  <2>2. rows' = rows /\ links' \subseteq links
    BY <1>5 DEF Carried, FindTwins, Probe, WriteBlob, CheckShared, DeleteBlob, GetConversation,
       CreateConversation, UpdateMessages, Resolve, ReadLinks, FindMissing, SetLinksFails,
       CollectReferenced, EraseConversation, attachmentTables
  <2>3. QED
    BY <2>1, <2>2 DEF TodoIsThere, Exists
<1>6. CASE \/ Return(w) \/ Upload(w) \/ Drop(w) \/ HashBlob(w) \/ Save(w) \/ ReadInline(w)
  BY <1>1, <1>6, ReturnMoves, OthersStart, SaveStarts, StripStarts
<1>7. QED
  BY <1>2, <1>3, <1>4, <1>5, <1>6, StepKinds DEF Started

\* Time takes none either.
LEMMA TodoAround ==
  ASSUME IInv, TodoIsThere, Age \/ LoseBlob
  PROVE  TodoIsThere'
<1>1. op' = op /\ links' = links
  BY DEF Age, LoseBlob
<1>2. \A i \in Ids : Exists(i)' <=> Exists(i)
  BY AroundRows DEF IInv
<1>3. ASSUME NEW w \in Workers, NEW a \in op[w].todo PROVE a[1] \in Ids
  BY <1>3, OpTyped DEF IInv, Operation
<1>4. QED
  BY <1>1, <1>2, <1>3 DEF TodoIsThere

-----------------------------------------------------------------------------
(* The forecast                                                            *)

ListedIds(w) == {a[1] : a \in op[w].todo}

ListedFiles(w) ==
  {a[2] : a \in op[w].todo} \cup (IF op[w].pc \in {"shared", "unlink"} THEN {op[w].file} ELSE {})

\* The stored files a deletion has yet to take: those it lists, or is at, which no
\* row outside its list refers to.
Survivors(w) == {i \in Ids : Exists(i) /\ i \notin ListedIds(w)}

Doomed(w) == (ListedFiles(w) \ {NoFile}) \ Names(Survivors(w))

\* What is freed and what is doomed add up to the forecast.
Foretold ==
  \A w \in Workers : op[w].call = "prune" /\ op[w].pc \in {"delete", "shared", "unlink"} =>
    op[w].freed + Cardinality(Doomed(w)) = op[w].forecast

\* Those files are finitely many.
LEMMA DoomedFinite ==
  ASSUME Types, NEW w \in Workers
  PROVE  IsFiniteSet(Doomed(w)) /\ Cardinality(Doomed(w)) \in Nat
<1>1. op[w] \in Operation
  BY OpTyped
<1>2. Doomed(w) \subseteq Ids \cup {NoFile}
  BY <1>1 DEF Doomed, ListedFiles, Operation
<1>3. Doomed(w) \subseteq Ids
  BY <1>2 DEF Doomed
<1>4. QED
  BY <1>3, AttachmentAssumption, FS_Subset, FS_CardinalityType

\* The command starts with the dry run's forecast.
LEMMA PruneForetells ==
  ASSUME Types, NEW w \in Workers, Prune(w)
  PROVE  op'[w].freed + Cardinality(Doomed(w)') = op'[w].forecast
<1>1. PICK S \in SUBSET Ids : /\ \A i \in S : Exists(i)
                              /\ op'[w].todo = Loaded(S) /\ op'[w].forecast = Preview(S)
  BY PruneStarts
<1>2. op'[w].pc = "delete" /\ op'[w].freed = 0 /\ rows' = rows
  BY PruneStarts DEF Prune, attachmentTables
<1>3. ListedIds(w)' = S /\ ListedFiles(w)' = {rows[i].file : i \in S}
  <2>1. op'[w].todo = {<<i, rows[i].file>> : i \in S}
    BY <1>1 DEF Loaded
  <2>2. ASSUME NEW i \in S
        PROVE  <<i, rows[i].file>> \in op'[w].todo
    BY <2>1
  <2>3. ASSUME NEW a \in op'[w].todo
        PROVE  \E i \in S : a[1] = i /\ a[2] = rows[i].file
    BY <2>1
  <2>4. {a[1] : a \in op'[w].todo} = S
    BY <2>2, <2>3
  <2>5. {a[2] : a \in op'[w].todo} = {rows[i].file : i \in S}
    BY <2>2, <2>3
  <2>6. QED
    BY <1>2, <2>4, <2>5 DEF ListedIds, ListedFiles
<1>4. Survivors(w)' = {i \in Ids \ S : Exists(i)}
  BY <1>2, <1>3 DEF Survivors, Exists
<1>5. Names(Survivors(w))' = Names({i \in Ids \ S : Exists(i)})
  BY <1>2, <1>4 DEF Names
<1>6. Doomed(w)' = Names(S) \ Names({i \in Ids \ S : Exists(i)})
  BY <1>3, <1>5 DEF Doomed, Names
<1>7. Preview(S) \in Nat
  BY <1>1, PreviewTyped
<1>8. QED
  BY <1>1, <1>2, <1>6, <1>7 DEF Preview

\* Taking a row moves its file from the list to the hand.
LEMMA DeleteRowKeepsDoomed ==
  ASSUME IInv, TodoIsThere, NEW w \in Workers, DeleteRow(w)
  PROVE  Doomed(w)' = Doomed(w)
<1>1. Types /\ LoadedIsCurrent /\ op[w] \in Operation /\ rows \in [Ids -> Row \cup {NoRow}]
  BY OpTyped DEF IInv, Types, TypeOK
<1>2. PICK b \in op[w].todo :
        /\ rows' = [rows EXCEPT ![b[1]] = NoRow]
        /\ op'[w].pc = IF b[2] = NoFile THEN "delete" ELSE "shared"
        /\ op'[w].todo = op[w].todo \ {b} /\ op'[w].file = b[2]
  BY <1>1, DeleteRowMoves
<1>3. op[w].pc = "delete"
  BY DEF DeleteRow
<1>4. \A a \in op[w].todo : /\ a \in Ids \X (Ids \cup {NoFile}) /\ Exists(a[1])
                            /\ rows[a[1]].file = a[2]
  BY <1>1 DEF Operation, TodoIsThere, LoadedIsCurrent
<1>5. ListedIds(w)' = ListedIds(w) \ {b[1]}
  BY <1>2, <1>4 DEF ListedIds
<1>6. b[1] \in ListedIds(w) /\ b[1] \in Ids
  BY <1>2, <1>4 DEF ListedIds
<1>7. \A i \in Ids : Exists(i)' <=> Exists(i) /\ i # b[1]
  BY <1>1, <1>2 DEF Exists
<1>8. Survivors(w)' = Survivors(w)
  BY <1>5, <1>6, <1>7 DEF Survivors
<1>9. \A i \in Survivors(w) : rows'[i] = rows[i]
  BY <1>1, <1>2, <1>6 DEF Survivors
<1>10. Names(Survivors(w))' = Names(Survivors(w))
  BY <1>8, <1>9 DEF Names
<1>11. ListedFiles(w)' \ {NoFile} = ListedFiles(w) \ {NoFile}
  BY <1>2, <1>3 DEF ListedFiles
<1>12. QED
  BY <1>10, <1>11 DEF Doomed

\* A file that is shared is still listed, or was not doomed.
LEMMA CheckKeepsDoomed ==
  ASSUME IInv, NEW w \in Workers, CheckShared(w)
  PROVE  Doomed(w)' = Doomed(w)
<1>1. Types /\ LoadedIsCurrent /\ op[w] \in Operation /\ Fits(op[w])
  BY OpTyped DEF IInv, Types, LocalsOK
<1>2. /\ rows' = rows /\ op'[w].todo = op[w].todo /\ op'[w].file = op[w].file
      /\ op[w].pc = "shared"
      /\ op'[w].pc = IF Shared(op[w].file) THEN "delete" ELSE "unlink"
  BY <1>1, DeletionMoves DEF CheckShared, Types, TypeOK, Operation
<1>3. Survivors(w)' = Survivors(w) /\ Names(Survivors(w))' = Names(Survivors(w))
  BY <1>2 DEF Survivors, Exists, ListedIds, Names
<1>4. CASE ~ Shared(op[w].file)
  BY <1>2, <1>3, <1>4 DEF Doomed, ListedFiles
<1>5. CASE Shared(op[w].file)
  <2>1. PICK i \in Ids : Exists(i) /\ rows[i].file = op[w].file
    BY <1>5 DEF Shared
  <2>2. op[w].file # NoFile
    BY <1>1, <1>2, AttachmentAssumption DEF Fits
  <2>3. CASE i \in ListedIds(w)
    <3>1. op[w].file \in {a[2] : a \in op[w].todo}
      BY <1>1, <2>1, <2>3 DEF ListedIds, LoadedIsCurrent
    <3>2. QED
      BY <1>2, <1>3, <1>5, <3>1 DEF Doomed, ListedFiles
  <2>4. CASE i \notin ListedIds(w)
    <3>1. op[w].file \in Names(Survivors(w))
      BY <2>1, <2>2, <2>4 DEF Names, Survivors
    <3>2. QED
      BY <1>2, <1>3, <1>5, <3>1 DEF Doomed, ListedFiles
  <2>5. QED
    BY <2>3, <2>4
<1>6. QED
  BY <1>4, <1>5

\* Taking the bytes takes one of the doomed.
LEMMA UnlinkTakesOne ==
  ASSUME IInv, BytesAtHand, TodoIsThere, NEW w \in Workers, DeleteBlob(w)
  PROVE  op[w].file \in Doomed(w) /\ Doomed(w)' = Doomed(w) \ {op[w].file}
<1>1. Types /\ LoadedIsCurrent /\ op[w] \in Operation /\ Fits(op[w])
  BY OpTyped DEF IInv, Types, LocalsOK
<1>2. /\ rows' = rows /\ op'[w].todo = op[w].todo /\ op'[w].file = op[w].file
      /\ op[w].pc = "unlink" /\ op'[w].pc = "delete"
  BY <1>1, DeletionMoves DEF DeleteBlob, Types, TypeOK, Operation
<1>3. Survivors(w)' = Survivors(w) /\ Names(Survivors(w))' = Names(Survivors(w))
  BY <1>2 DEF Survivors, Exists, ListedIds, Names
<1>4. ~ Shared(op[w].file) /\ op[w].file # NoFile
  BY <1>1, <1>2, AttachmentAssumption DEF BytesAtHand, Fits
<1>5. op[w].file \notin Names(Survivors(w))
  BY <1>4 DEF Shared, Names, Survivors
<1>6. \A a \in op[w].todo : a[1] \in Ids /\ Exists(a[1]) /\ rows[a[1]].file = a[2]
  BY <1>1 DEF Operation, TodoIsThere, LoadedIsCurrent
<1>7. op[w].file \notin {a[2] : a \in op[w].todo}
  BY <1>4, <1>6 DEF Shared
<1>8. QED
  BY <1>2, <1>3, <1>4, <1>5, <1>7 DEF Doomed, ListedFiles

\* The sum stays what it was.
LEMMA ForetoldStep ==
  ASSUME IInv, Alone, PlacesOK, BytesAtHand, TodoIsThere, Foretold, NEW w \in Workers, WorkerStep(w)
  PROVE  Foretold'
<1>1. Types /\ op[w] \in Operation
  BY OpTyped DEF IInv
<1> SUFFICES ASSUME op'[w].call = "prune", op'[w].pc \in {"delete", "shared", "unlink"}
             PROVE  op'[w].freed + Cardinality(Doomed(w)') = op'[w].forecast
  BY DEF Alone, Foretold
<1>2. CASE Prune(w)
  BY <1>1, <1>2, PruneForetells
<1>3. CASE DeleteRow(w) \/ CheckShared(w)
  <2>1. Doomed(w)' = Doomed(w)
    BY <1>3, DeleteRowKeepsDoomed, CheckKeepsDoomed
  <2>2. op[w].pc \in {"delete", "shared"} /\ ~ DeleteBlob(w)
    BY <1>3 DEF DeleteRow, CheckShared, DeleteBlob
  <2>3. op[w].call = "prune" /\ op'[w].freed = op[w].freed /\ op'[w].forecast = op[w].forecast
    BY <1>1, <1>3, <2>2, Carries DEF Carried
  <2>4. QED
    BY <2>1, <2>2, <2>3 DEF Foretold
<1>4. CASE DeleteBlob(w)
  <2>1. op[w].file \in Doomed(w) /\ Doomed(w)' = Doomed(w) \ {op[w].file}
    BY <1>4, UnlinkTakesOne
  <2>2. IsFiniteSet(Doomed(w)) /\ Cardinality(Doomed(w)) \in Nat
    BY <1>1, DoomedFinite
  <2>3. Cardinality(Doomed(w)') = Cardinality(Doomed(w)) - 1
    <3> DEFINE doomed == Doomed(w)
               file == op[w].file
    <3>1. file \in doomed /\ IsFiniteSet(doomed)
      BY <2>1, <2>2
    <3> HIDE DEF doomed, file
    <3>2. Cardinality(doomed \ {file}) = Cardinality(doomed) - 1
      BY <3>1, FS_RemoveElement
    <3>3. QED
      BY <2>1, <3>2 DEF doomed, file
  <2>4. op[w].call = "prune" /\ op'[w].freed = op[w].freed + 1 /\ op'[w].forecast = op[w].forecast
    BY <1>1, <1>4, Carries DEF Carried
  <2>5. op[w].freed + Cardinality(Doomed(w)) = op[w].forecast
    BY <1>4, <2>4 DEF Foretold, DeleteBlob
  <2>6. op[w].freed \in Nat
    BY <1>1 DEF Operation
  <2>7. QED
    BY <2>2, <2>3, <2>4, <2>5, <2>6
<1>5. CASE Remove(w)
  BY <1>1, <1>5, RemoveStarts
<1>6. CASE SelectOrphans(w)
  <2>1. op[w].call = "prune" /\ op[w].pc = "orphans"
    BY <1>1, <1>6, Carries DEF Carried, SelectOrphans
  <2>2. QED
    BY <2>1 DEF PlacesOK
<1>7. QED
  BY <1>1, <1>2, <1>3, <1>4, <1>5, <1>6, Origins

\* Nothing happens to it around the program.
LEMMA ForetoldAround ==
  ASSUME IInv, Foretold, Age \/ LoseBlob
  PROVE  Foretold'
<1>1. op' = op
  BY DEF Age, LoseBlob
<1>2. \A i \in Ids : /\ Exists(i)' <=> Exists(i)
                     /\ Exists(i) => rows'[i].file = rows[i].file
  BY AroundRows DEF IInv, SameRow
<1>3. ASSUME NEW w \in Workers PROVE Doomed(w)' = Doomed(w)
  <2>1. Survivors(w)' = Survivors(w) /\ ListedFiles(w)' = ListedFiles(w)
    BY <1>1, <1>2 DEF Survivors, ListedIds, ListedFiles
  <2>2. \A i \in Survivors(w) : rows'[i].file = rows[i].file
    BY <1>2 DEF Survivors
  <2>3. Names(Survivors(w))' = Names(Survivors(w))
    BY <2>1, <2>2 DEF Names
  <2>4. QED
    BY <2>1, <2>3 DEF Doomed
<1>4. QED
  BY <1>1, <1>3 DEF Foretold

-----------------------------------------------------------------------------
(* Links and messages                                                      *)

Reconciling(w) == op[w].pc \in {"resolve", "linked", "missing", "link"}

Describes(t) == Linked(conversations[t].pk) = Resolvable(t, conversations[t].quoted)

\* What the links will be once the save is through.
Wanted(w) == Resolvable(op[w].thread, op[w].quoted)

\* Messages quote what some client was given, so no upload to come.
QuotedIsIssued ==
  /\ \A w \in Workers : op[w].quoted \subseteq issued
  /\ \A t \in Threads : Stored(t) => conversations[t].quoted \subseteq issued

\* A save, or the strip command, finds the conversation as it left it, and what a
\* save resolved, read and found missing is still so.
SaveIsUnderWay ==
  \A w \in Workers :
    /\ op[w].pc \in {"update", "strip"} \/ Reconciling(w) => HasPk(op[w].thread, op[w].pk)
    /\ op[w].pc = "strip" \/ Reconciling(w) => conversations[op[w].thread].quoted = op[w].quoted
    /\ op[w].pc = "linked" => op[w].found = Wanted(w)
    /\ op[w].pc \in {"missing", "link"} =>
         /\ op[w].found = Wanted(w) \ Linked(op[w].pk)
         /\ op[w].drop = Linked(op[w].pk) \ Wanted(w)
    /\ op[w].pc # "raised"

Described ==
  \A t \in Threads :
    Stored(t) => Describes(t) \/ \E w \in Workers : Reconciling(w) /\ op[w].thread = t

\* Only a save and the strip command write messages, and each writes those it holds.
LEMMA MessagesMove ==
  ASSUME Types, NEW w \in Workers, WorkerStep(w), NEW t \in Threads, conversations'[t] # NoConversation
  PROVE  \/ Stored(t) /\ conversations'[t].quoted = conversations[t].quoted
         \/ /\ CreateConversation(w) \/ UpdateMessages(w) \/ WriteStripped(w)
            /\ t = op[w].thread /\ conversations'[t].quoted = op[w].quoted
<1>1. conversations \in [Threads -> Conversation \cup {NoConversation}]
  BY DEF Types, TypeOK
<1>2. CASE conversations' = conversations
  BY <1>2 DEF Stored
<1>3. CASE CreateConversation(w)
  <2>1. CASE t = op[w].thread
    <3> DEFINE c == [pk |-> lastPk', quoted |-> op[w].quoted, inline |-> op[w].inline]
    <3>1. conversations'[t] = c
      BY <1>1, <1>3, <2>1 DEF CreateConversation
    <3>2. QED
      BY <1>3, <2>1, <3>1
  <2>2. CASE t # op[w].thread
    BY <1>1, <1>3, <2>2 DEF CreateConversation, Stored
  <2>3. QED
    BY <2>1, <2>2
<1>4. CASE UpdateMessages(w) \/ WriteStripped(w)
  <2> DEFINE u == op[w].thread
             quoted == op[w].quoted
  <2>1. PICK inline : Rewrite(u, op[w].pk, quoted, inline)
    BY <1>4 DEF UpdateMessages, WriteStripped
  <2>2. CASE t = u /\ HasPk(u, op[w].pk)
    <3>1. conversations[t] \in Conversation
      BY <2>2, ConversationTyped DEF HasPk
    <3>2. conversations'[t] = [conversations[t] EXCEPT !.quoted = quoted, !.inline = inline]
      BY <1>1, <2>1, <2>2 DEF Rewrite
    <3>3. conversations'[t].quoted = quoted
      BY <3>1, <3>2 DEF Conversation
    <3>4. QED
      BY <1>4, <2>2, <3>3
  <2>3. CASE ~ (t = u /\ HasPk(u, op[w].pk))
    <3>1. conversations'[t] = conversations[t]
      BY <1>1, <2>1, <2>3 DEF Rewrite
    <3>2. QED
      BY <3>1 DEF Stored
  <2>4. QED
    BY <2>2, <2>3
<1>5. CASE EraseConversation(w)
  BY <1>1, <1>5 DEF EraseConversation, Stored
<1>6. QED
  BY <1>2, <1>3, <1>4, <1>5, TablesMove

\* Ids once issued stay so.
LEMMA QuotedStep ==
  ASSUME IInv, QuotedIsIssued, NEW w \in Workers, WorkerStep(w)
  PROVE  QuotedIsIssued'
<1>1. Types /\ issued \subseteq issued' /\ OthersStay(w)
  BY IssuedRowsStay, StepMoves DEF IInv
<1>2. op'[w].quoted \subseteq issued'
  <2>1. CASE Return(w)
    BY <1>1, <2>1, ReturnMoves
  <2>2. CASE Carried(w)
    BY <1>1, <2>2, Carries DEF QuotedIsIssued
  <2>3. CASE Save(w)
    BY <1>1, <2>3, SaveStarts
  <2>4. CASE ReadInline(w)
    BY <1>1, <2>4, StripStarts DEF QuotedIsIssued, HasPk
  <2>5. CASE Upload(w) \/ Drop(w) \/ HashBlob(w) \/ Remove(w) \/ Prune(w)
    BY <1>1, <2>5, OthersStart, RemoveStarts, PruneStarts
  <2>6. QED
    BY <2>1, <2>2, <2>3, <2>4, <2>5, StepKinds DEF Started
<1>3. ASSUME NEW t \in Threads, conversations'[t] # NoConversation
      PROVE  conversations'[t].quoted \subseteq issued'
  BY <1>1, <1>3, MessagesMove DEF QuotedIsIssued
<1>4. QED
  BY <1>1, <1>2, <1>3 DEF QuotedIsIssued, OthersStay, Stored

\* The steps of a save that only read.
LEMMA ReadingMoves ==
  ASSUME Types, NEW w \in Workers, Resolve(w) \/ ReadLinks(w) \/ FindMissing(w)
  PROVE  /\ op'[w].pk = op[w].pk /\ UNCHANGED <<rows, links, conversations>>
         /\ Resolve(w) => op'[w].found = Wanted(w)
         /\ ReadLinks(w) => /\ op'[w].found = op[w].found \ Linked(op[w].pk)
                            /\ op'[w].drop = Linked(op[w].pk) \ op[w].found
         /\ FindMissing(w) => /\ op'[w].found = op[w].found \ Linked(op[w].pk)
                              /\ op'[w].drop = op[w].drop
<1>1. op \in [Workers -> Operation]
  BY DEF Types, TypeOK
<1>2. CASE Resolve(w)
  BY <1>1, <1>2 DEF Resolve, ReadLinks, FindMissing, Operation, Wanted, attachmentTables
<1>3. CASE ReadLinks(w)
  BY <1>1, <1>3 DEF Resolve, ReadLinks, FindMissing, Operation, attachmentTables
<1>4. CASE FindMissing(w)
  BY <1>1, <1>4 DEF Resolve, ReadLinks, FindMissing, Operation, attachmentTables
<1>5. QED
  BY <1>2, <1>3, <1>4

\* With nobody else at work the links' insert cannot fail.
LEMMA InsertSucceeds ==
  ASSUME SaveIsUnderWay, NEW w \in Workers
  PROVE  ~ SetLinksFails(w)
<1>1. ASSUME op[w].pc = "link" PROVE Linkable(w)
  <2>1. HasPk(op[w].thread, op[w].pk) /\ op[w].found = Wanted(w) \ Linked(op[w].pk)
    BY <1>1 DEF SaveIsUnderWay, Reconciling
  <2>2. ASSUME NEW i \in op[w].found
        PROVE  Exists(i) /\ <<op[w].pk, i>> \notin links
    BY <2>1, <2>2 DEF Wanted, Resolvable, Linked, LinksOf
  <2>3. QED
    BY <2>1, <2>2 DEF Linkable
<1>2. QED
  BY <1>1 DEF SetLinksFails

\* A save proceeds on what it has read.
LEMMA SaveStep ==
  ASSUME IInv, Alone, SaveIsUnderWay, NEW w \in Workers, WorkerStep(w)
  PROVE  SaveIsUnderWay'
<1>1. Types /\ op \in [Workers -> Operation]
      /\ conversations \in [Threads -> Conversation \cup {NoConversation}]
  BY DEF IInv, Types, TypeOK
<1>2. CASE GetConversation(w)
  <2>1. op'[w].pk = conversations[op[w].thread].pk /\ op'[w].pc = "update"
    BY <1>1, <1>2 DEF GetConversation, Operation
  <2>2. op'[w].thread = op[w].thread /\ conversations' = conversations /\ Stored(op[w].thread)
    BY <1>1, <1>2, Carries DEF GetConversation, Carried
  <2>3. QED
    BY <2>1, <2>2 DEF Alone, SaveIsUnderWay, HasPk, Stored, Reconciling
<1>3. CASE CreateConversation(w) \/ UpdateMessages(w)
  <2>1. op'[w].pc = "resolve"
    BY <1>1, <1>3 DEF CreateConversation, UpdateMessages, Operation
  <2>2. op'[w].thread = op[w].thread /\ op'[w].quoted = op[w].quoted
    BY <1>1, <1>3, Carries DEF Carried
  <2>3. op[w].thread \in Threads
    BY <1>1, <1>3 DEF CreateConversation, UpdateMessages, Types, LocalsOK, Fits, ThreadPcs
  <2>4. /\ conversations'[op[w].thread] # NoConversation
        /\ conversations'[op[w].thread].pk = op'[w].pk
        /\ conversations'[op[w].thread].quoted = op[w].quoted
    <3>1. CASE CreateConversation(w)
      <4> DEFINE c == [pk |-> lastPk', quoted |-> op[w].quoted, inline |-> op[w].inline]
      <4>1. conversations'[op[w].thread] = c /\ op'[w].pk = lastPk'
        BY <1>1, <2>3, <3>1 DEF CreateConversation, Operation
      <4>2. c \in Conversation
        BY <1>1, <3>1, ConversationAssumption DEF CreateConversation, Conversation, Operation, Types, TypeOK
      <4>3. QED
        BY <4>1, <4>2, ConversationAssumption DEF HasPk, Stored
    <3>2. CASE UpdateMessages(w)
      <4> DEFINE u == op[w].thread
                 c == [conversations[u] EXCEPT !.quoted = op[w].quoted, !.inline = op[w].inline]
      <4>1. HasPk(u, op[w].pk) /\ op'[w].pk = op[w].pk
        BY <1>1, <3>2 DEF UpdateMessages, SaveIsUnderWay, Operation
      <4>2. conversations[u] \in Conversation /\ op[w] \in Operation
        BY <1>1, <2>3, <4>1, ConversationTyped DEF HasPk
      <4>3. conversations'[u] = c
        BY <1>1, <2>3, <3>2, <4>1 DEF UpdateMessages, Rewrite
      <4>4. c \in Conversation /\ c.pk = conversations[u].pk /\ c.quoted = op[w].quoted
        BY <4>2 DEF Conversation, Operation
      <4> HIDE DEF c
      <4>5. QED
        BY <4>1, <4>3, <4>4, ConversationAssumption DEF HasPk, Stored
    <3>3. QED
      BY <1>3, <3>1, <3>2
  <2>5. QED
    BY <2>1, <2>2, <2>4 DEF Alone, SaveIsUnderWay, Reconciling, HasPk, Stored
<1>4. CASE Resolve(w) \/ ReadLinks(w) \/ FindMissing(w)
  <2>1. /\ op'[w].pk = op[w].pk /\ UNCHANGED <<rows, links, conversations>>
        /\ op'[w].thread = op[w].thread /\ op'[w].quoted = op[w].quoted
    BY <1>1, <1>4, ReadingMoves, Carries DEF Carried
  <2>2. /\ Linked(op[w].pk)' = Linked(op[w].pk) /\ Wanted(w)' = Wanted(w)
        /\ HasPk(op[w].thread, op[w].pk)' <=> HasPk(op[w].thread, op[w].pk)
    BY <2>1 DEF Linked, LinksOf, Wanted, Resolvable, Exists, HasPk, Stored
  <2>3. Reconciling(w) /\ HasPk(op[w].thread, op[w].pk) /\ conversations[op[w].thread].quoted = op[w].quoted
    BY <1>4 DEF Resolve, ReadLinks, FindMissing, Reconciling, SaveIsUnderWay
  <2>4. /\ op'[w].pc = "linked" => op'[w].found = Wanted(w)
        /\ op'[w].pc \in {"missing", "link"} =>
             /\ op'[w].found = Wanted(w) \ Linked(op[w].pk)
             /\ op'[w].drop = Linked(op[w].pk) \ Wanted(w)
        /\ op'[w].pc \in {"linked", "missing", "link"}
    <3>1. CASE Resolve(w)
      <4>1. op \in [Workers -> Operation]
        BY <1>1 DEF Types, TypeOK
      <4>2. op'[w].pc = "linked"
        BY <3>1, <4>1 DEF Resolve, Operation
      <4>3. QED
        BY <1>1, <3>1, <4>2, ReadingMoves
    <3>2. CASE ReadLinks(w)
      <4>1. op[w].found = Wanted(w) /\ op'[w].pc = "missing"
        BY <1>1, <3>2 DEF ReadLinks, SaveIsUnderWay, Operation
      <4>2. QED
        BY <1>1, <3>2, <4>1, ReadingMoves
    <3>3. CASE FindMissing(w)
      <4>1. /\ op[w].found = Wanted(w) \ Linked(op[w].pk)
            /\ op[w].drop = Linked(op[w].pk) \ Wanted(w) /\ op'[w].pc = "link"
        BY <1>1, <3>3 DEF FindMissing, SaveIsUnderWay, Operation
      <4>2. op'[w].found = op[w].found \ Linked(op[w].pk) /\ op'[w].drop = op[w].drop
        BY <1>1, <3>3, ReadingMoves
      <4>3. QED
        BY <4>1, <4>2
    <3>4. QED
      BY <1>4, <3>1, <3>2, <3>3
  <2>5. QED
    BY <2>1, <2>2, <2>3, <2>4 DEF Alone, SaveIsUnderWay, Reconciling
<1>5. ~ SetLinksFails(w)
  BY InsertSucceeds
<1>6. CASE ReadInline(w)
  <2>1. /\ op'[w].pc = "strip" /\ HasPk(op'[w].thread, op'[w].pk)
        /\ op'[w].quoted = conversations[op'[w].thread].quoted
    BY <1>1, <1>6, StripStarts
  <2>2. conversations' = conversations
    BY <1>6 DEF ReadInline
  <2>3. QED
    BY <2>1, <2>2 DEF Alone, SaveIsUnderWay, Reconciling, HasPk, Stored
<1>7. CASE op'[w].pc \notin {"update", "resolve", "linked", "missing", "link", "raised", "strip"}
  BY <1>7 DEF Alone, SaveIsUnderWay, Reconciling
<1>8. QED
  BY <1>1, <1>2, <1>3, <1>4, <1>5, <1>6, <1>7, Origins

\* The links out of a conversation go with the rows they point at; only its own save
\* adds or drops others.
LEMMA LinkedMoves ==
  ASSUME IInv, NEW w \in Workers, WorkerStep(w), NEW t \in Threads, Stored(t),
         conversations'[t] # NoConversation, ~ (SetLinks(w) /\ op[w].pk = conversations[t].pk)
  PROVE  Linked(conversations[t].pk)' = {i \in Linked(conversations[t].pk) : rows'[i] # NoRow}
<1>1. Types /\ LinksJoin /\ PksAreUnique /\ links \subseteq (1..PkBound) \X Ids
      /\ rows \in [Ids -> Row \cup {NoRow}]
      /\ conversations \in [Threads -> Conversation \cup {NoConversation}]
  BY DEF IInv, Types, TypeOK
<1>2. LinksJoin' /\ conversations'[t].pk = conversations[t].pk
  BY <1>1, LinksStep, ConversationsMove
<1> DEFINE pk == conversations[t].pk
<1>3. ASSUME NEW i, <<pk, i>> \in links' PROVE <<pk, i>> \in links /\ rows'[i] # NoRow
  <2>1. rows'[i] # NoRow
    BY <1>2, <1>3 DEF LinksJoin, Exists
  <2>2. <<pk, i>> \in links
    <3>1. CASE SetLinks(w)
      BY <1>3, <3>1 DEF SetLinks, LinksAfter
    <3>2. CASE ~ SetLinks(w)
      BY <1>3, <3>2, TablesMove DEF DeleteRow, EraseConversation
    <3>3. QED
      BY <3>1, <3>2
  <2>3. QED
    BY <2>1, <2>2
<1>4. ASSUME NEW i, <<pk, i>> \in links, rows'[i] # NoRow PROVE <<pk, i>> \in links'
  <2>1. CASE links' = links
    BY <1>4, <2>1
  <2>2. CASE SetLinks(w)
    BY <1>4, <2>2 DEF SetLinks, LinksAfter
  <2>3. CASE DeleteRow(w)
    <3>1. PICK b \in op[w].todo :
            rows' = [rows EXCEPT ![b[1]] = NoRow] /\ links' = {l \in links : l[2] # b[1]}
      BY <1>1, <2>3, DeleteRowMoves
    <3>2. i # b[1]
      BY <1>1, <1>4, <3>1
    <3>3. QED
      BY <1>4, <3>1, <3>2
  <2>4. CASE EraseConversation(w)
    <3>1. t # op[w].thread
      BY <1>1, <2>4 DEF EraseConversation
    <3>2. Stored(op[w].thread) => conversations[op[w].thread].pk # pk
      BY <1>1, <2>4, <3>1 DEF PksAreUnique, HasPk, EraseConversation, Types, LocalsOK, Fits, ThreadPcs
    <3>3. QED
      BY <1>4, <2>4, <3>2 DEF EraseConversation, LinksOf
  <2>5. QED
    BY <2>1, <2>2, <2>3, <2>4, TablesMove
<1>5. \A i : <<pk, i>> \in links' <=> <<pk, i>> \in links /\ rows'[i] # NoRow
  BY <1>3, <1>4
<1>6. links' \subseteq (1..PkBound) \X Ids
  BY TypeStep DEF IInv, Types, TypeOK, Next, WorkerStep
<1>7. Linked(pk) = {i \in Ids : <<pk, i>> \in links}
  BY <1>1 DEF Linked, LinksOf
<1>8. Linked(pk)' = {i \in Ids : <<pk, i>> \in links'}
  BY <1>2, <1>6 DEF Linked, LinksOf
<1>9. QED
  BY <1>5, <1>7, <1>8

\* What issued ids resolve to loses only the rows that go.
LEMMA ResolvableMoves ==
  ASSUME IInv, NEW w \in Workers, WorkerStep(w), NEW t \in Threads, NEW q \in SUBSET issued
  PROVE  {i \in q : rows'[i] # NoRow /\ rows'[i].owner = ThreadOwner[t]}
         = {i \in Resolvable(t, q) : rows'[i] # NoRow}
<1>1. \A i \in issued : rows'[i] # NoRow => Exists(i) /\ rows'[i].owner = rows[i].owner
  BY IssuedRowsStay DEF Exists, SameRow
<1>2. QED
  BY <1>1 DEF Resolvable

\* A save that is reconciling goes on, sets the links, fails or is cut short.
LEMMA ReconcilersMove ==
  ASSUME NEW w \in Workers, WorkerStep(w), Reconciling(w)
  PROVE  \/ Resolve(w) \/ ReadLinks(w) \/ FindMissing(w) \/ SetLinks(w) \/ SetLinksFails(w)
         \/ op[w].call \in MayCrash
BY DEF Reconciling, WorkerStep, AttachmentStep, ConversationStep, Start, Upload, FindTwins, Probe,
   WriteBlob, InsertRow, Remove, DeleteRow, CheckShared, DeleteBlob, Deleted, Crash, Save,
   GetConversation, CreateConversation, UpdateMessages, Raise, Drop, CollectReferenced,
   EraseConversation, SelectOrphans, Prune, HashBlob, SaveHash, ReadInline, WriteStripped

\* The links a save sets are those it wanted.
LEMMA SetLinksDescribes ==
  ASSUME IInv, SaveIsUnderWay, NEW w \in Workers, SetLinks(w), NEW t \in Threads, t = op[w].thread
  PROVE  Describes(t)'
<1> DEFINE pk == op[w].pk
<1>1. /\ HasPk(t, pk) /\ conversations[t].quoted = op[w].quoted
      /\ op[w].found = Wanted(w) \ Linked(pk) /\ op[w].drop = Linked(pk) \ Wanted(w)
  BY DEF SetLinks, SaveIsUnderWay, Reconciling
<1>2. /\ links' = (links \ ({pk} \X op[w].drop)) \cup ({pk} \X op[w].found)
      /\ rows' = rows /\ conversations' = conversations
  BY DEF SetLinks, LinksAfter
<1>3. links \subseteq (1..PkBound) \X Ids
  BY DEF IInv, Types, TypeOK
<1>4. \A i : i \in Linked(pk) <=> <<pk, i>> \in links
  BY <1>3 DEF Linked, LinksOf
<1>5. pk \in 1..PkBound /\ op[w].found \subseteq Ids
  BY OpTyped DEF SetLinks, IInv, Types, LocalsOK, Fits, Operation
<1>6. links' \subseteq (1..PkBound) \X Ids
  BY <1>2, <1>3, <1>5
<1>7. \A i : i \in {l[2] : l \in {k \in links' : k[1] = pk}} <=> <<pk, i>> \in links'
  BY <1>6
<1>8. \A i : <<pk, i>> \in links' <=> (<<pk, i>> \in links /\ i \notin op[w].drop) \/ i \in op[w].found
  BY <1>2
<1>9. {l[2] : l \in {k \in links' : k[1] = pk}} = Wanted(w)
  BY <1>1, <1>4, <1>7, <1>8
<1>10. conversations'[t].pk = pk /\ conversations'[t].quoted = op[w].quoted
  BY <1>1, <1>2 DEF HasPk
<1> HIDE DEF pk
<1>11. Wanted(w) = {i \in op[w].quoted : rows'[i] # NoRow /\ rows'[i].owner = ThreadOwner[t]}
  BY <1>2 DEF Wanted, Resolvable, Exists
<1>12. {l[2] : l \in {k \in links' : k[1] = conversations'[t].pk}}
       = {i \in conversations'[t].quoted : rows'[i] # NoRow /\ rows'[i].owner = ThreadOwner[t]}
  BY <1>9, <1>10, <1>11
<1>13. QED
  BY <1>12 DEF Describes, Linked, LinksOf, Resolvable, Exists

\* Between saves, links and messages agree; during one they are about to.
LEMMA DescribedStep ==
  ASSUME IInv, Alone, "save" \notin MayCrash, PlacesOK, QuotedIsIssued, SaveIsUnderWay, Described,
         NEW w \in Workers, WorkerStep(w)
  PROVE  Described'
<1>1. Types /\ PksAreUnique
  BY DEF IInv
<1> SUFFICES ASSUME NEW t \in Threads, conversations'[t] # NoConversation,
                    ~ (Reconciling(w)' /\ op'[w].thread = t)
             PROVE  Describes(t)'
  BY DEF Described, Stored
<1>2. CASE SetLinks(w) /\ t = op[w].thread
  BY <1>2, SetLinksDescribes
<1>3. ~ ((CreateConversation(w) \/ UpdateMessages(w)) /\ t = op[w].thread)
  <2>1. ASSUME CreateConversation(w) \/ UpdateMessages(w) PROVE op'[w].pc = "resolve"
    BY <1>1, <2>1 DEF CreateConversation, UpdateMessages, Types, TypeOK, Operation
  <2>2. CreateConversation(w) \/ UpdateMessages(w) => op'[w].thread = op[w].thread
    BY <1>1, Carries DEF Carried
  <2>3. QED
    BY <2>1, <2>2 DEF Reconciling
<1>4. CASE ~ (SetLinks(w) /\ t = op[w].thread)
  <2>1. Stored(t) /\ conversations'[t].pk = conversations[t].pk
    BY <1>1, <1>3, ConversationsMove
  <2>2. conversations'[t].quoted = conversations[t].quoted
    BY <1>1, <1>3, MessagesMove DEF WriteStripped, SaveIsUnderWay
  <2>3. Describes(t)
    <3>1. ASSUME Reconciling(w), op[w].thread = t PROVE FALSE
      <4>1. Resolve(w) \/ ReadLinks(w) \/ FindMissing(w)
        <5>1. ~ SetLinksFails(w)
          BY InsertSucceeds
        <5>2. op[w].call = "save"
          BY <3>1 DEF PlacesOK, Reconciling
        <5>3. QED
          BY <1>4, <3>1, <5>1, <5>2, ReconcilersMove
      <4>2. op'[w].thread = t
        BY <1>1, <3>1, <4>1, Carries DEF Carried
      <4>3. Reconciling(w)'
        BY <1>1, <4>1 DEF Reconciling, Resolve, ReadLinks, FindMissing, Types, TypeOK, Operation
      <4>4. QED
        BY <4>2, <4>3
    <3>2. QED
      BY <2>1, <3>1 DEF Described, Alone
  <2>4. ~ (SetLinks(w) /\ op[w].pk = conversations[t].pk)
    <3>1. ASSUME SetLinks(w), op[w].pk = conversations[t].pk PROVE FALSE
      <4>1. HasPk(op[w].thread, op[w].pk) /\ op[w].thread \in Threads
        BY <1>1, <3>1 DEF SetLinks, SaveIsUnderWay, Reconciling, Types, LocalsOK, Fits, ThreadPcs
      <4>2. op[w].thread = t
        BY <1>1, <2>1, <3>1, <4>1 DEF PksAreUnique
      <4>3. QED
        BY <1>4, <3>1, <4>2
    <3>2. QED
      BY <3>1
  <2>5. Linked(conversations[t].pk)' = {i \in Linked(conversations[t].pk) : rows'[i] # NoRow}
    BY <2>1, <2>4, LinkedMoves
  <2>6. Resolvable(t, conversations[t].quoted)'
        = {i \in Resolvable(t, conversations[t].quoted) : rows'[i] # NoRow}
    <3>1. conversations[t].quoted \in SUBSET issued
      BY <2>1 DEF QuotedIsIssued
    <3>2. {i \in conversations[t].quoted : rows'[i] # NoRow /\ rows'[i].owner = ThreadOwner[t]}
          = {i \in Resolvable(t, conversations[t].quoted) : rows'[i] # NoRow}
      BY <3>1, ResolvableMoves
    <3>3. QED
      BY <2>2, <3>2 DEF Resolvable, Exists
  <2>7. QED
    BY <2>3, <2>5, <2>6 DEF Describes
<1>5. QED
  BY <1>2, <1>4

-----------------------------------------------------------------------------
(* One operation at a time                                                 *)

AloneInv == PlacesOK /\ BytesAtHand /\ TodoIsThere /\ Foretold /\ QuotedIsIssued

SaveInv == SaveIsUnderWay /\ Described

\* Nothing is under way at first, and nothing is linked.
LEMMA AloneInitial == Init => AloneInv /\ SaveInv
<1> SUFFICES ASSUME Init PROVE AloneInv /\ SaveInv
  OBVIOUS
<1>1. op = [w \in Workers |-> Idle] /\ \A t \in Threads : ~ Stored(t)
  BY DEF Init, AttachmentInit, Stored
<1>2. \A w \in Workers : /\ op[w].pc = "idle" /\ op[w].todo = {} /\ op[w].quoted = {}
                         /\ op[w].call = "none"
  BY <1>1 DEF Idle
<1>3. QED
  BY <1>1, <1>2 DEF AloneInv, SaveInv, PlacesOK, BytesAtHand, TodoIsThere, Foretold, QuotedIsIssued,
     SaveIsUnderWay, Described, Reconciling

\* Around the program no row changes hands.
LEMMA SaveAround ==
  ASSUME IInv, SaveInv, (Age \/ LoseBlob) /\ UNCHANGED <<conversations, lastPk>>
  PROVE  SaveInv'
<1>1. op' = op /\ links' = links /\ conversations' = conversations
  BY DEF Age, LoseBlob
<1>2. \A i \in Ids : /\ Exists(i)' <=> Exists(i)
                     /\ Exists(i) => rows'[i].owner = rows[i].owner
  BY AroundRows DEF IInv, SameRow
<1>3. ASSUME NEW t, NEW q \in SUBSET Ids PROVE Resolvable(t, q)' = Resolvable(t, q)
  BY <1>2 DEF Resolvable
<1>4. ASSUME NEW w \in Workers
      PROVE  /\ Wanted(w)' = Wanted(w) /\ Linked(op[w].pk)' = Linked(op[w].pk)
             /\ HasPk(op[w].thread, op[w].pk)' <=> HasPk(op[w].thread, op[w].pk)
             /\ Reconciling(w)' <=> Reconciling(w)
  <2>1. op[w].quoted \in SUBSET Ids
    BY OpTyped DEF IInv, Operation
  <2>2. Resolvable(op[w].thread, op[w].quoted)' = Resolvable(op[w].thread, op[w].quoted)
    BY <1>1, <1>2, <2>1 DEF Resolvable
  <2>3. QED
    BY <1>1, <2>2 DEF Wanted, Linked, LinksOf, HasPk, Stored, Reconciling
<1>5. SaveIsUnderWay'
  BY <1>1, <1>4 DEF SaveInv, SaveIsUnderWay
<1>6. ASSUME NEW t \in Threads, Stored(t) PROVE Describes(t)' <=> Describes(t)
  <2>1. conversations[t].quoted \in SUBSET Ids
    BY <1>6, ConversationTyped DEF IInv
  <2>2. Resolvable(t, conversations[t].quoted)' = Resolvable(t, conversations[t].quoted)
    BY <1>1, <1>2, <2>1 DEF Resolvable
  <2>3. Linked(conversations[t].pk)' = Linked(conversations[t].pk)
    BY <1>1 DEF Linked, LinksOf
  <2>4. QED
    BY <2>2, <2>3 DEF Describes
<1>7. Described'
  BY <1>1, <1>4, <1>6 DEF SaveInv, Described, Stored
<1>8. QED
  BY <1>5, <1>7 DEF SaveInv

\* With one worker, what it has looked at stays as it saw it.
LEMMA AloneStep ==
  ASSUME Alone, IInv, AloneInv, [Next]_vars
  PROVE  AloneInv'
<1>1. ASSUME NEW w \in Workers, WorkerStep(w)
      PROVE  AloneInv'
  BY <1>1, PlacesStep, BytesStep, TodoStep, ForetoldStep, QuotedStep DEF AloneInv, IInv
<1>2. CASE (Age \/ LoseBlob) /\ UNCHANGED <<conversations, lastPk>>
  <2>1. op' = op /\ issued' = issued
    BY <1>2 DEF Age, LoseBlob
  <2>2. PlacesOK' /\ QuotedIsIssued'
    BY <1>2, <2>1 DEF AloneInv, PlacesOK, QuotedIsIssued, Stored
  <2>3. QED
    BY <1>2, <2>2, BytesAround, TodoAround, ForetoldAround DEF AloneInv
<1>3. CASE UNCHANGED vars
  BY <1>3 DEF vars, AloneInv, PlacesOK, BytesAtHand, Shared, TodoIsThere, Exists, Foretold, Doomed,
     ListedFiles, Survivors, ListedIds, Names, QuotedIsIssued, Stored
<1>4. QED
  BY <1>1, <1>2, <1>3 DEF Next, WorkerStep

\* Together with the types and issued ids of IInv, they are inductive.
LEMMA AloneInductive ==
  ASSUME Alone
  PROVE  Spec => []AloneInv
<1>1. IInv /\ AloneInv /\ [Next]_vars => AloneInv'
  BY AloneStep
<1>2. QED
  BY <1>1, AloneInitial, Inductive, PTL DEF Spec

\* If a save is not cut short, so do links and messages.
LEMMA SaveInductive ==
  ASSUME Alone, "save" \notin MayCrash
  PROVE  Spec => []SaveInv
<1>1. IInv /\ AloneInv /\ SaveInv /\ [Next]_vars => SaveInv'
  <2> SUFFICES ASSUME IInv, AloneInv, SaveInv, [Next]_vars PROVE SaveInv'
    OBVIOUS
  <2>1. ASSUME NEW w \in Workers, WorkerStep(w) PROVE SaveInv'
    BY <2>1, SaveStep, DescribedStep DEF AloneInv, SaveInv
  <2>2. CASE (Age \/ LoseBlob) /\ UNCHANGED <<conversations, lastPk>>
    BY <2>2, SaveAround
  <2>3. CASE UNCHANGED vars
    BY <2>3 DEF vars, SaveInv, SaveIsUnderWay, Described, Describes, Wanted, Reconciling, Linked,
       LinksOf, HasPk, Stored, Resolvable, Exists
  <2>4. QED
    BY <2>1, <2>2, <2>3 DEF Next, WorkerStep
<1>2. QED
  BY <1>1, AloneInitial, Inductive, AloneInductive, PTL DEF Spec

-----------------------------------------------------------------------------
\* delete_attachments takes no bytes an attachment still needs: between asking who
\* shares them and unlinking them, nobody adopts them.
THEOREM RowsKeep ==
  ASSUME Alone
  PROVE  Spec => RowsKeepTheirBytes
<1>1. IInv /\ AloneInv /\ [Next]_vars =>
        [op' # op => \A i \in Ids : (Readable(i) /\ rows'[i] # NoRow) => Readable(i)']_vars
  <2> SUFFICES ASSUME IInv, AloneInv, Next, op' # op,
                      NEW i \in Ids, Readable(i), rows'[i] # NoRow
               PROVE  Readable(i)'
    OBVIOUS
  <2>1. PICK w \in Workers : WorkerStep(w)
    BY DEF Next, WorkerStep, Age, LoseBlob
  <2>2. Types /\ RowsAreIssued /\ blobs \in [Ids -> Digests \cup {NoDigest}]
    BY DEF IInv, Types, TypeOK
  <2>3. rows'[i].file = rows[i].file
    BY <2>1, <2>2, IssuedRowsStay DEF Readable, RowsAreIssued, Exists, SameRow
  <2>4. rows[i].file \in Ids /\ rows[i].file # NoFile /\ blobs[rows[i].file] # NoDigest
    BY <2>2, RowTyped DEF Readable
  <2>5. blobs'[rows[i].file] # NoDigest
    <3>1. CASE blobs' = blobs
      BY <2>4, <3>1
    <3>2. CASE WriteBlob(w)
      <4>1. op[w].digest \in Digests /\ blobs' = [blobs EXCEPT ![op[w].id] = op[w].digest]
        BY <2>2, <3>2 DEF WriteBlob, Types, LocalsOK, Fits, UploadPcs
      <4>2. QED
        BY <2>2, <2>4, <4>1, AttachmentAssumption
    <3>3. CASE DeleteBlob(w)
      <4>1. ~ Shared(op[w].file)
        BY <3>3 DEF DeleteBlob, AloneInv, BytesAtHand
      <4>2. op[w].file # rows[i].file
        BY <4>1 DEF Shared, Readable
      <4>3. QED
        BY <2>2, <2>4, <3>3, <4>2 DEF DeleteBlob
    <3>4. QED
      BY <2>1, <3>1, <3>2, <3>3, TablesMove
  <2>6. QED
    BY <2>3, <2>4, <2>5 DEF Readable, Exists
<1>2. QED
  BY <1>1, Inductive, AloneInductive, PTL DEF Spec, RowsKeepTheirBytes

\* _save adopts a twin's bytes only where they are, whatever names of lost ones it
\* tries before; what it returns can be opened.
THEOREM UploadsOpen ==
  ASSUME Alone
  PROVE  Spec => UploadsAreReadable
<1>1. IInv /\ AloneInv /\ [Next]_vars =>
        [\A i \in Ids : (~ Exists(i) /\ rows'[i] # NoRow) => Readable(i)']_vars
  <2> SUFFICES ASSUME IInv, AloneInv, Next, NEW i \in Ids, ~ Exists(i), rows'[i] # NoRow
               PROVE  Readable(i)'
    OBVIOUS
  <2>1. Types /\ rows \in [Ids -> Row \cup {NoRow}]
    BY DEF IInv, Types, TypeOK
  <2>2. ~ (Age \/ LoseBlob)
    BY <2>1, AroundRows DEF Exists
  <2>3. PICK w \in Workers : WorkerStep(w)
    BY <2>2 DEF Next, WorkerStep
  <2>4. InsertRow(w) /\ i = op[w].id
    BY <2>1, <2>3, RowsMove DEF Exists
  <2>5. rows'[i].file = op[w].file /\ blobs' = blobs /\ op[w].pc = "insert"
    BY <2>1, <2>4 DEF InsertRow
  <2>6. op[w].file \in Ids /\ blobs[op[w].file] # NoDigest
    BY <2>1, <2>5 DEF Types, LocalsOK, Fits, AloneInv, BytesAtHand
  <2>7. QED
    BY <2>5, <2>6, AttachmentAssumption DEF Readable, Exists
<1>2. QED
  BY <1>1, Inductive, AloneInductive, PTL DEF Spec, UploadsAreReadable

\* The cascade of a deleted conversation and the prune command delete, from lists
\* they made before, no attachment that a conversation refers to.
THEOREM CollectorsSpare ==
  ASSUME Alone
  PROVE  Spec => CollectorsSpareReferenced
<1>1. IInv /\ AloneInv /\ [Next]_vars =>
        [\A w \in Workers : op[w].call \in {"drop", "prune"} =>
           \A i \in Ids : (Exists(i) /\ rows'[i] = NoRow /\ op'[w] # op[w]) =>
                            \A l \in links : l[2] # i]_vars
  <2> SUFFICES ASSUME IInv, AloneInv, Next, NEW w \in Workers, op[w].call \in {"drop", "prune"},
                      NEW i \in Ids, Exists(i), rows'[i] = NoRow
               PROVE  \A l \in links : l[2] # i
    OBVIOUS
  <2>1. Types /\ rows \in [Ids -> Row \cup {NoRow}]
    BY DEF IInv, Types, TypeOK
  <2>2. ~ (Age \/ LoseBlob)
    BY <2>1, AroundRows DEF Exists
  <2>3. WorkerStep(w)
    BY <2>2 DEF Next, WorkerStep, Alone
  <2>4. DeleteRow(w)
    BY <2>1, <2>3, RowsGo
  <2>5. PICK a \in op[w].todo : rows' = [rows EXCEPT ![a[1]] = NoRow]
    BY <2>4 DEF DeleteRow
  <2>6. a[1] = i
    BY <2>1, <2>5 DEF Exists
  <2>7. QED
    BY <2>5, <2>6 DEF AloneInv, TodoIsThere
<1>2. QED
  BY <1>1, Inductive, AloneInductive, PTL DEF Spec, CollectorsSpareReferenced

\* preview_attachment_deletion counts the stored files delete_attachments will take
\* row by row, shared ones and blank paths included.
THEOREM ForecastIsExact ==
  ASSUME Alone
  PROVE  Spec => []PreviewIsExact
<1>1. IInv /\ AloneInv => PreviewIsExact
  <2> SUFFICES ASSUME IInv, AloneInv, NEW w \in Workers,
                      op[w].call = "prune", op[w].pc = "delete", op[w].todo = {}
               PROVE  op[w].freed = op[w].forecast
    BY DEF PreviewIsExact
  <2>1. Doomed(w) = {}
    BY DEF Doomed, ListedFiles
  <2>2. op[w].freed + Cardinality(Doomed(w)) = op[w].forecast
    BY DEF AloneInv, Foretold
  <2>3. op[w].freed \in Nat
    BY OpTyped DEF IInv, Operation
  <2>4. QED
    BY <2>1, <2>2, <2>3, FS_EmptySet
<1>2. QED
  BY <1>1, Inductive, AloneInductive, PTL

\* reconcile_conversation_attachments leaves the links that the messages call for, and
\* no deletion, upload or command between saves makes the two disagree.
THEOREM LinksDescribe ==
  ASSUME Alone, "save" \notin MayCrash
  PROVE  Spec => []LinksDescribeMessages
<1>1. SaveInv => LinksDescribeMessages
  BY DEF SaveInv, Described, LinksDescribeMessages, Settled, Describes
<1>2. QED
  BY <1>1, SaveInductive, PTL
=============================================================================
