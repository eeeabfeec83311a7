--------------------- MODULE ConversationStoreProperties ---------------------
(* What must hold of the attachment and conversation stores.               *)
EXTENDS ConversationStore

Operation ==
  [call : {"none", "upload", "remove", "save", "drop", "prune", "backfill", "strip"},
   pc : {"idle", "twins", "probe", "insert", "delete", "shared", "unlink", "get", "update",
         "resolve", "linked", "missing", "link", "raised", "collect", "erase", "orphans", "hash", "strip"},
   owner : Owners \cup {NoOwner}, id : Ids \cup {NoFile}, digest : Digests \cup {NoDigest},
   names : SUBSET Ids, file : Ids \cup {NoFile},
   todo : SUBSET (Ids \X (Ids \cup {NoFile})), freed : Nat, forecast : Nat,
   thread : Threads \cup {NoThread}, pk : 0..PkBound,
   quoted : SUBSET Ids, inline : BOOLEAN, found : SUBSET Ids, drop : SUBSET Ids]

\* Rows, blobs, links and conversations hold values of their columns, and an
\* operation's locals are what the code takes them for: no blank path is ever
\* asked of the storage.
TypeOK ==
  /\ rows \in [Ids -> Row \cup {NoRow}]
  /\ blobs \in [Ids -> Digests \cup {NoDigest}]
  /\ links \subseteq (1..PkBound) \X Ids
  /\ issued \subseteq Ids
  /\ conversations \in [Threads -> Conversation \cup {NoConversation}]
  /\ lastPk \in 0..PkBound
  /\ op \in [Workers -> Operation]

OwnerOfPk(pk) == {ThreadOwner[t] : t \in {u \in Threads : HasPk(u, pk)}}

-----------------------------------------------------------------------------
(* With concurrent workers.                                                *)

\* Two rows share a stored file only if one owner uploaded the same bytes
\* twice: never across owners, never across different bytes.
SharedBlobsAreTwins ==
  \A i, j \in Ids :
    (Exists(i) /\ Exists(j) /\ rows[i].file = rows[j].file /\ rows[i].file # NoFile) =>
      rows[i].owner = rows[j].owner /\ rows[i].holds = rows[j].holds

\* What storage keeps under a row's name is what its user uploaded, or nothing;
\* and a content hash is the hash of those bytes.
BytesAreTheUploads ==
  \A i \in Ids : Exists(i) =>
    /\ rows[i].file # NoFile => blobs[rows[i].file] \in {rows[i].holds, NoDigest}
    /\ rows[i].sha256 \in {rows[i].holds, NoDigest}

\* No link ever points at another owner's attachment, at a deleted one, or out
\* of a deleted conversation.
LinksStayWithinOwner ==
  \A l \in links : Exists(l[2]) /\ OwnerOfPk(l[1]) = {rows[l[2]].owner}

\* However deletions of rows that share bytes interleave with each other and
\* with uploads that adopt them, stored bytes no row points at are about to get
\* a row or about to be deleted: short of a crash, storage does not leak.
BlobsAreReclaimed ==
  \A n \in Ids : blobs[n] # NoDigest =>
    \/ \E i \in Ids : Exists(i) /\ rows[i].file = n
    \/ \E w \in Workers : op[w].file = n /\ op[w].pc \in {"insert", "shared", "unlink"}

-----------------------------------------------------------------------------
(* With one worker: operations follow one another, and may be cut short.   *)

Readable(i) == Exists(i) /\ rows[i].file # NoFile /\ blobs[rows[i].file] # NoDigest

\* An attachment that could be opened can be opened until it is deleted: no
\* operation takes bytes a row still needs. Only the storage itself may.
RowsKeepTheirBytes ==
  [][op' # op => \A i \in Ids : (Readable(i) /\ rows'[i] # NoRow) => Readable(i)']_vars

\* After a storage loss a re-upload heals: an upload never returns a reference
\* to bytes that are not there, whatever dead twins it finds.
UploadsAreReadable ==
  [][\A i \in Ids : (~ Exists(i) /\ rows'[i] # NoRow) => Readable(i)']_vars

Settled(t) == \A w \in Workers : op[w].thread # t

\* "The relation always describes the conversation as it stands": exactly the
\* owner's existing attachments that the messages quote.
LinksDescribeMessages ==
  \A t \in Threads :
    (Stored(t) /\ Settled(t)) =>
      Linked(conversations[t].pk) = Resolvable(t, conversations[t].quoted)

\* The cascade and the prune command delete no attachment that some
\* conversation refers to at that moment.
CollectorsSpareReferenced ==
  [][\A w \in Workers : op[w].call \in {"drop", "prune"} =>
       \A i \in Ids : (Exists(i) /\ rows'[i] = NoRow /\ op'[w] # op[w]) =>
                        \A l \in links : l[2] # i]_vars

\* The prune command's dry run tells how many stored files the run deletes.
PreviewIsExact ==
  \A w \in Workers :
    (op[w].call = "prune" /\ op[w].pc = "delete" /\ op[w].todo = {}) =>
      op[w].freed = op[w].forecast

=============================================================================
