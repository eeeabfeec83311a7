-------------------------- MODULE ConversationStore --------------------------
(***************************************************************************)
(* contrib/store/default_conversation_store.py with its reconciliation of  *)
(* the attachments a conversation quotes, and the management commands that *)
(* prune, backfill and strip, all over the tables of AttachmentStore.      *)
(*                                                                         *)
(* A conversation's messages are abstracted to the attachment ids they     *)
(* quote and to whether they carry inline bytes.  Each queryset call is a  *)
(* step; a row's delete() with its cascade and get_or_create are one step  *)
(* each.  attachments.set(...) is one transaction whose reads come before  *)
(* its writes: at READ COMMITTED they are steps of their own.              *)
(***************************************************************************)
EXTENDS AttachmentStore

CONSTANTS
  Threads,       \* the conversations' keys: an owner and a thread id
  ThreadOwner,   \* [Threads -> Owners]
  InlineParts,   \* do posted messages carry inline bytes? a set of BOOLEANs
  PkBound        \* bound on the conversation rows ever created

VARIABLES
  conversations, \* StoredConversation: [Threads -> a row, or NoConversation]
  lastPk         \* the last primary key given to one

Conversation == [pk : 1..PkBound, quoted : SUBSET Ids, inline : BOOLEAN]

ASSUME ConversationAssumption ==
  /\ ThreadOwner \in [Threads -> Owners]
  /\ InlineParts \subseteq BOOLEAN
  /\ PkBound \in Nat
  /\ NoConversation \notin Conversation

vars == <<rows, blobs, links, issued, op, conversations, lastPk>>
attachmentTables == <<rows, blobs, links, issued>>

Init ==
  /\ AttachmentInit
  /\ conversations = [t \in Threads |-> NoConversation]
  /\ lastPk = 0

Stored(t) == conversations[t] # NoConversation
HasPk(t, pk) == Stored(t) /\ conversations[t].pk = pk

-----------------------------------------------------------------------------
(* _store: get or create, update, reconcile.                               *)

\* The client quotes ids it was given; its own, or another owner's.
Save(w) ==
  /\ \E t \in Threads, q \in SUBSET issued, b \in InlineParts :
       Start(w, "save", [Idle EXCEPT !.pc = "get", !.thread = t, !.quoted = q, !.inline = b])
  /\ UNCHANGED <<attachmentTables, conversations, lastPk>>

GetConversation(w) ==
  LET t == op[w].thread
  IN  /\ op[w].pc = "get"
      /\ Stored(t)
      /\ op' = [op EXCEPT ![w].pc = "update", ![w].pk = conversations[t].pk]
      /\ UNCHANGED <<attachmentTables, conversations, lastPk>>

CreateConversation(w) ==
  LET t == op[w].thread
  IN  /\ op[w].pc = "get"
      /\ ~ Stored(t)
      /\ lastPk < PkBound
      /\ lastPk' = lastPk + 1
      /\ conversations' = [conversations EXCEPT ![t] =
           [pk |-> lastPk', quoted |-> op[w].quoted, inline |-> op[w].inline]]
      /\ op' = [op EXCEPT ![w].pc = "resolve", ![w].pk = lastPk']
      /\ UNCHANGED attachmentTables

\* filter(pk=row.pk).update(...) touches no row when it was deleted meanwhile.
Rewrite(t, pk, quoted, inline) ==
  conversations' = IF HasPk(t, pk)
                   THEN [conversations EXCEPT ![t].quoted = quoted, ![t].inline = inline]
                   ELSE conversations

UpdateMessages(w) ==
  /\ op[w].pc = "update"
  /\ Rewrite(op[w].thread, op[w].pk, op[w].quoted, op[w].inline)
  /\ op' = [op EXCEPT ![w].pc = "resolve"]
  /\ UNCHANGED <<attachmentTables, lastPk>>

ResolvableSlip(t, quoted) == {i \in quoted : Exists(i)}    \* of any owner

Resolvable(t, quoted) == {i \in quoted : Exists(i) /\ rows[i].owner = ThreadOwner[t]}

Resolve(w) ==
  /\ op[w].pc = "resolve"
  /\ op' = [op EXCEPT ![w].pc = "linked", ![w].found = Resolvable(op[w].thread, op[w].quoted)]
  /\ UNCHANGED <<attachmentTables, conversations, lastPk>>

LinksOf(pk) == {l \in links : l[1] = pk}
Linked(pk) == {l[2] : l \in LinksOf(pk)}

\* attachments.set(...) opens a transaction and reads what is linked now; the
\* rest of it is to go.
ReadLinks(w) ==
  /\ op[w].pc = "linked"
  /\ op' = [op EXCEPT ![w].pc = "missing", ![w].drop = Linked(op[w].pk) \ op[w].found,
                      ![w].found = @ \ Linked(op[w].pk)]
  /\ UNCHANGED <<attachmentTables, conversations, lastPk>>

\* Its add(...) asks again which of the new ones are missing.
FindMissing(w) ==
  /\ op[w].pc = "missing"
  /\ op' = [op EXCEPT ![w].pc = "link", ![w].found = @ \ Linked(op[w].pk)]
  /\ UNCHANGED <<attachmentTables, conversations, lastPk>>

LinksAfterSlip(pk, drop, add) == links \cup ({pk} \X add)    \* appends

LinksAfter(pk, drop, add) == (links \ ({pk} \X drop)) \cup ({pk} \X add)

\* A new link needs both of its rows, and the unique index has no such link yet.
Linkable(w) ==
  \A i \in op[w].found :
    Exists(i) /\ HasPk(op[w].thread, op[w].pk) /\ <<op[w].pk, i>> \notin links

SetLinks(w) ==
  /\ op[w].pc = "link"
  /\ Linkable(w)
  /\ links' = LinksAfter(op[w].pk, op[w].drop, op[w].found)
  /\ Return(w)
  /\ UNCHANGED <<rows, blobs, issued, conversations, lastPk>>

\* IntegrityError out of attachments.set(...), and out of the save.
SetLinksFails(w) ==
  /\ op[w].pc = "link"
  /\ ~ Linkable(w)
  /\ op' = [op EXCEPT ![w].pc = "raised"]
  /\ UNCHANGED <<attachmentTables, conversations, lastPk>>

Raise(w) ==
  /\ op[w].pc = "raised"
  /\ Return(w)
  /\ UNCHANGED <<attachmentTables, conversations, lastPk>>

-----------------------------------------------------------------------------
(* _remove: delete a thread and the attachments nothing else refers to.    *)

Drop(w) ==
  /\ \E t \in Threads :
       Start(w, "drop", [Idle EXCEPT !.pc = "collect", !.thread = t])
  /\ UNCHANGED <<attachmentTables, conversations, lastPk>>

CollectReferenced(w) ==
  LET t == op[w].thread
  IN  /\ op[w].pc = "collect"
      /\ op' = [op EXCEPT ![w].pc = "erase",
           ![w].found = IF Stored(t) THEN Linked(conversations[t].pk) ELSE {}]
      /\ UNCHANGED <<attachmentTables, conversations, lastPk>>

\* rows.delete(): the conversation row, and by cascade its links.
EraseConversation(w) ==
  LET t == op[w].thread
  IN  /\ op[w].pc = "erase"
      /\ conversations' = [conversations EXCEPT ![t] = NoConversation]
      /\ links' = IF Stored(t) THEN links \ LinksOf(conversations[t].pk) ELSE links
      /\ op' = [op EXCEPT ![w].pc = "orphans"]
      /\ UNCHANGED <<rows, blobs, issued, lastPk>>

UnreferencedSlip(S) == {i \in S : Exists(i)}

Unreferenced(S) == {i \in S : Exists(i) /\ \A l \in links : l[2] # i}

SelectOrphans(w) ==
  /\ op[w].pc = "orphans"
  /\ op' = [op EXCEPT ![w].pc = "delete", ![w].found = {},
                      ![w].todo = Loaded(Unreferenced(op[w].found))]
  /\ UNCHANGED <<attachmentTables, conversations, lastPk>>

-----------------------------------------------------------------------------
(* The commands.                                                           *)

\* agent_store_prune_attachments lists its candidates once, then deletes them.
Prune(w) ==
  LET candidates == {i \in Unreferenced(Ids) : rows[i].old}
  IN  /\ Start(w, "prune", [Idle EXCEPT !.pc = "delete", !.todo = Loaded(candidates),
                                        !.forecast = Preview(candidates)])
      /\ UNCHANGED <<attachmentTables, conversations, lastPk>>

\* agent_store_backfill_hashes reads one unhashed blob after another; a row
\* whose bytes are gone is skipped.
HashBlob(w) ==
  /\ \E i \in Ids :
       /\ Exists(i) /\ rows[i].sha256 = NoDigest
       /\ rows[i].file # NoFile /\ blobs[rows[i].file] # NoDigest
       /\ Start(w, "backfill",
            [Idle EXCEPT !.pc = "hash", !.id = i, !.digest = blobs[rows[i].file]])
  /\ UNCHANGED <<attachmentTables, conversations, lastPk>>

SaveHash(w) ==
  /\ op[w].pc = "hash"
  /\ rows' = IF Exists(op[w].id)
             THEN [rows EXCEPT ![op[w].id].sha256 = op[w].digest] ELSE rows
  /\ Return(w)
  /\ UNCHANGED <<blobs, links, issued, conversations, lastPk>>

\* agent_store_strip_inline_bytes reads a conversation, drops its inline bytes
\* and writes the messages it read back.
ReadInline(w) ==
  /\ \E t \in Threads :
       /\ Stored(t) /\ conversations[t].inline
       /\ Start(w, "strip", [Idle EXCEPT !.pc = "strip", !.thread = t,
                             !.pk = conversations[t].pk, !.quoted = conversations[t].quoted])
  /\ UNCHANGED <<attachmentTables, conversations, lastPk>>

WriteStripped(w) ==
  /\ op[w].pc = "strip"
  /\ Rewrite(op[w].thread, op[w].pk, op[w].quoted, FALSE)
  /\ Return(w)
  /\ UNCHANGED <<attachmentTables, lastPk>>

-----------------------------------------------------------------------------
ConversationStep(w) ==
  \/ Save(w) \/ GetConversation(w) \/ CreateConversation(w) \/ UpdateMessages(w)
  \/ Resolve(w) \/ ReadLinks(w) \/ FindMissing(w) \/ SetLinks(w) \/ SetLinksFails(w) \/ Raise(w)
  \/ Drop(w) \/ CollectReferenced(w) \/ EraseConversation(w) \/ SelectOrphans(w)
  \/ Prune(w) \/ HashBlob(w) \/ SaveHash(w) \/ ReadInline(w) \/ WriteStripped(w)

Next ==
  \/ \E w \in Workers : \/ AttachmentStep(w) /\ UNCHANGED <<conversations, lastPk>>
                        \/ ConversationStep(w)
  \/ (Age \/ LoseBlob) /\ UNCHANGED <<conversations, lastPk>>

Spec == Init /\ [][Next]_vars
=============================================================================
