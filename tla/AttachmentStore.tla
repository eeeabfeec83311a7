--------------------------- MODULE AttachmentStore ---------------------------
(***************************************************************************)
(* contrib/store/default_attachment_store.py and the deletion helpers of   *)
(* contrib/store/utils.py: uploads deduplicated by content hash within one *)
(* owner, rows in a table, bytes in a Django Storage, and the deletion     *)
(* that takes the bytes with the last row.                                 *)
(*                                                                         *)
(* None of it runs in a transaction: every query and every Storage call is *)
(* a step of its own, and any two workers' steps interleave.  The module   *)
(* is completed by ConversationStore, which adds the conversations that    *)
(* refer to attachments and the management commands.                       *)
(*                                                                         *)
(* A definition named ...Slip is a plausible mistake in the one after it;  *)
(* nothing uses it, and the property it would break is in PROJECT.json.    *)
(***************************************************************************)
EXTENDS Naturals, FiniteSets

CONSTANTS
  Workers,      \* threads of the web processes and of the commands
  Owners,
  Ids,          \* attachment ids; bounds how many uploads there are
  Digests,      \* the bytes of a file, as its SHA-256
  Legacy,       \* ids of rows stored by earlier releases
  LegacyOwner,  \* whose they are
  NoRow, NoFile, NoDigest, NoOwner, NoThread, NoConversation,
  Calls,        \* the operations workers are asked for
  MayCrash,     \* those of them that a dying process may cut short
  MayLose       \* may the storage lose a blob?

\* A StoredAttachment row. The public attachment_id is the row's key here. A
\* blob is named after the id it was uploaded under. holds is not a column: it
\* remembers the bytes the user uploaded. old says that created_at is past the
\* prune command's cutoff.
Row == [owner : Owners, sha256 : Digests \cup {NoDigest}, file : Ids \cup {NoFile},
        old : BOOLEAN, holds : Digests]

ASSUME AttachmentAssumption ==
  /\ NoFile \notin Ids /\ NoDigest \notin Digests /\ NoRow \notin Row
  /\ Legacy \subseteq Ids /\ LegacyOwner \in Owners
  /\ IsFiniteSet(Ids)

VARIABLES
  rows,     \* StoredAttachment: [Ids -> Row \cup {NoRow}]
  blobs,    \* Storage: [Ids -> the bytes under that name, or NoDigest]
  links,    \* ConversationAttachment: a set of <<conversation pk, id>>
  issued,   \* history: the ids an upload has returned to a client
  op        \* [Workers -> the operation a worker is in, and its locals]

\* Not every field means something in every operation.
Idle ==
  [call |-> "none", pc |-> "idle",
   owner |-> NoOwner, id |-> NoFile, digest |-> NoDigest,   \* upload, backfill
   names |-> {}, file |-> NoFile,                          \* upload, delete
   todo |-> {}, freed |-> 0, forecast |-> 0,               \* delete
   thread |-> NoThread, pk |-> 0,                          \* conversations
   quoted |-> {}, inline |-> FALSE, found |-> {}, drop |-> {}]

\* A row from before the sha256 column is hashed once the backfill command has
\* seen it; one whose write failed after the INSERT has no path.
LegacyRow == {r \in Row : r.owner = LegacyOwner /\ r.sha256 \in {r.holds, NoDigest} /\ r.old}

AttachmentInit ==
  /\ \E stored \in [Legacy -> LegacyRow] :
       /\ \A i \in Legacy : stored[i].file \in {i, NoFile}
       /\ rows = [i \in Ids |-> IF i \in Legacy THEN stored[i] ELSE NoRow]
       /\ blobs = [i \in Ids |-> IF i \in Legacy /\ stored[i].file = i
                                 THEN stored[i].holds ELSE NoDigest]
  /\ links = {}
  /\ issued = Legacy
  /\ op = [w \in Workers |-> Idle]

Exists(i) == rows[i] # NoRow

Start(w, call, fields) ==
  /\ call \in Calls
  /\ op[w].pc = "idle"
  /\ op' = [op EXCEPT ![w] = [fields EXCEPT !.call = call]]

Return(w) == op' = [op EXCEPT ![w] = Idle]

-----------------------------------------------------------------------------
(* _save: one upload.                                                      *)

\* uuid4 draws an id nobody has.
Unused(i) ==
  /\ rows[i] = NoRow /\ i \notin issued /\ blobs[i] = NoDigest
  /\ \A x \in Workers : op[x].id # i

Upload(w) ==
  /\ \E i \in Ids, o \in Owners, d \in Digests :
       /\ Unused(i)
       /\ Start(w, "upload", [Idle EXCEPT !.pc = "twins", !.id = i, !.owner = o, !.digest = d])
  /\ UNCHANGED <<rows, blobs, links, issued>>

TwinsOfAnyOwnerSlip(o, d) == {i \in Ids : Exists(i) /\ rows[i].sha256 = d}

TwinsOfAnyBytesSlip(o, d) == {i \in Ids : Exists(i) /\ rows[i].owner = o}

\* The rows of this owner with this digest.
Twins(o, d) == {i \in Ids : Exists(i) /\ rows[i].owner = o /\ rows[i].sha256 = d}

NamesSlip(S) == {rows[i].file : i \in S}    \* takes a blank path for a name

Names(S) == {rows[i].file : i \in S} \ {NoFile}

FindTwins(w) ==
  /\ op[w].pc = "twins"
  /\ op' = [op EXCEPT ![w].pc = "probe", ![w].names = Names(Twins(op[w].owner, op[w].digest))]
  /\ UNCHANGED <<rows, blobs, links, issued>>

AdoptsSlip(n) == n \in Ids    \* takes the row's word for its bytes

Adopts(n) == blobs[n] # NoDigest

\* One storage.exists; the first name that is there is adopted. The code tries
\* the newest first, which decides how many calls it costs and not which bytes
\* are found: any order is allowed here.
Probe(w) ==
  /\ op[w].pc = "probe"
  /\ \E n \in op[w].names :
       op' = IF Adopts(n)
             THEN [op EXCEPT ![w].pc = "insert", ![w].file = n, ![w].names = {}]
             ELSE [op EXCEPT ![w].names = @ \ {n}]
  /\ UNCHANGED <<rows, blobs, links, issued>>

\* No live twin: the bytes are written under this upload's own name.
WriteBlob(w) ==
  /\ op[w].pc = "probe" /\ op[w].names = {}
  /\ blobs' = [blobs EXCEPT ![op[w].id] = op[w].digest]
  /\ op' = [op EXCEPT ![w].pc = "insert", ![w].file = op[w].id]
  /\ UNCHANGED <<rows, links, issued>>

InsertRow(w) ==
  /\ op[w].pc = "insert"
  /\ rows' = [rows EXCEPT ![op[w].id] =
       [owner |-> op[w].owner, sha256 |-> op[w].digest, file |-> op[w].file,
        old |-> FALSE, holds |-> op[w].digest]]
  /\ issued' = issued \cup {op[w].id}
  /\ Return(w)
  /\ UNCHANGED <<blobs, links>>

-----------------------------------------------------------------------------
(* delete_attachments: op.todo is the list of rows it was given, each as   *)
(* the pair <<id, file name>> it was loaded with.                          *)

Loaded(S) == {<<i, rows[i].file>> : i \in S}

\* preview_attachment_deletion: how many stored files would go.
PreviewSlip(S) == Cardinality({i \in S : rows[i].file # NoFile})

Preview(S) == Cardinality(Names(S) \ Names({i \in Ids \ S : Exists(i)}))

\* _remove: the user deletes one attachment.
Remove(w) ==
  /\ \E i \in issued :
       /\ Exists(i)
       /\ Start(w, "remove", [Idle EXCEPT !.pc = "delete", !.todo = Loaded({i})])
  /\ UNCHANGED <<rows, blobs, links, issued>>

\* attachment.delete(): the row, and by cascade the links to it. The row may be
\* gone already; the call does not mind.
DeleteRow(w) ==
  /\ op[w].pc = "delete"
  /\ \E a \in op[w].todo :
       /\ rows' = [rows EXCEPT ![a[1]] = NoRow]
       /\ links' = {l \in links : l[2] # a[1]}
       /\ op' = [op EXCEPT ![w].pc = IF a[2] = NoFile THEN "delete" ELSE "shared",
            ![w].todo = @ \ {a}, ![w].file = a[2]]
  /\ UNCHANGED <<blobs, issued>>

SharedIsUnaskedSlip(n) == n = NoFile

SharedByDigestSlip(n) ==    \* compares digests, not stored names
  \E i \in Ids : Exists(i) /\ rows[i].sha256 = blobs[n]

Shared(n) == \E i \in Ids : Exists(i) /\ rows[i].file = n

CheckShared(w) ==
  /\ op[w].pc = "shared"
  /\ op' = [op EXCEPT ![w].pc = IF Shared(op[w].file) THEN "delete" ELSE "unlink"]
  /\ UNCHANGED <<rows, blobs, links, issued>>

\* file.delete(save=False): Storage drops the bytes, if they are there.
DeleteBlob(w) ==
  /\ op[w].pc = "unlink"
  /\ blobs' = [blobs EXCEPT ![op[w].file] = NoDigest]
  /\ op' = [op EXCEPT ![w].pc = "delete", ![w].freed = @ + 1]
  /\ UNCHANGED <<rows, links, issued>>

Deleted(w) ==
  /\ op[w].pc = "delete" /\ op[w].todo = {}
  /\ Return(w)
  /\ UNCHANGED <<rows, blobs, links, issued>>

-----------------------------------------------------------------------------
(* What happens around the program.                                        *)

\* Time passes: an attachment gets older than the prune command's threshold.
Age ==
  /\ \E i \in Ids : /\ Exists(i) /\ ~ rows[i].old
                    /\ rows' = [rows EXCEPT ![i].old = TRUE]
  /\ UNCHANGED <<blobs, links, issued, op>>

\* A lifecycle rule, a restored dump, a migrated backend: between operations.
LoseBlob ==
  /\ MayLose
  /\ \A w \in Workers : op[w].pc = "idle"
  /\ \E n \in Ids : blobs[n] # NoDigest /\ blobs' = [blobs EXCEPT ![n] = NoDigest]
  /\ UNCHANGED <<rows, links, issued, op>>

Crash(w) ==
  /\ op[w].pc # "idle" /\ op[w].call \in MayCrash
  /\ Return(w)
  /\ UNCHANGED <<rows, blobs, links, issued>>

AttachmentStep(w) ==
  \/ Upload(w) \/ FindTwins(w) \/ Probe(w) \/ WriteBlob(w) \/ InsertRow(w)
  \/ Remove(w) \/ DeleteRow(w) \/ CheckShared(w) \/ DeleteBlob(w) \/ Deleted(w)
  \/ Crash(w)
=============================================================================
