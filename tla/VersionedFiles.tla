--------------------------- MODULE VersionedFiles ---------------------------
(***************************************************************************)
(* What the memory store promises its callers, with no transactions, locks *)
(* or statements in it.  A caller has one request outstanding at a time.   *)
(* It is answered in one atomic step, either with no effect at all, or     *)
(* with its whole effect: the file it names still has the version the      *)
(* caller expected, the operation id is unused and gets its receipt, and   *)
(* the new version is one no caller has ever seen.                         *)
(* MemoryStore implements this module: PROPERTY Promise.                   *)
(***************************************************************************)
CONSTANTS
  Workers, Owners, Paths, OpIds,
  Versions,    \* the version strings uuid4 may hand out
  Requests,    \* [kind, owner, path, content, expected, op]
  Escape,      \* what a content is stored as
  NoRequest, NoOp, NoRow, NoReceipt, NoVersion

VARIABLES
  files,     \* [Owners \X Paths -> a file's row, or NoRow]
  done,      \* [Owners \X OpIds -> a receipt, or NoReceipt]
  shown,     \* every version some caller may have learned
  request    \* [Workers -> the request being served, or NoRequest]

vars == <<files, done, shown, request>>

Init ==
  /\ files = [k \in Owners \X Paths |-> NoRow]
  /\ done = [r \in Owners \X OpIds |-> NoReceipt]
  /\ shown = {}
  /\ request = [w \in Workers |-> NoRequest]

VersionAt(k) == IF files[k] = NoRow THEN NoVersion ELSE files[k].version

Ask(w) ==
  /\ request[w] = NoRequest
  /\ request'[w] \in Requests
  /\ request' = [request EXCEPT ![w] = request'[w]]
  /\ UNCHANGED <<files, done, shown>>

\* Replayed, refused, conflicting, or cut off: no effect.
AnswerOnly(w) ==
  /\ request' = [request EXCEPT ![w] = NoRequest]
  /\ UNCHANGED <<files, done, shown>>

Receipt(q, v, existed) ==
  IF q.op = NoOp
  THEN UNCHANGED done
  ELSE LET r == <<q.owner, q.op>>
       IN  /\ done[r] = NoReceipt
           /\ done' = [done EXCEPT ![r] =
                [fingerprint |-> <<q.kind, q.path, q.content>>,
                 version |-> v, existed |-> existed]]

Write(w) ==
  LET q == request[w]
      k == <<q.owner, q.path>>
  IN  /\ q # NoRequest
      /\ q.kind = "write"
      /\ VersionAt(k) = q.expected
      /\ \E v \in Versions \ shown :
           /\ files' = [files EXCEPT ![k] =
                [content |-> Escape[q.content], version |-> v, op |-> q.op]]
           /\ shown' = shown \cup {v}
           /\ Receipt(q, v, files[k] # NoRow)
      /\ request' = [request EXCEPT ![w] = NoRequest]

Delete(w) ==
  LET q == request[w]
      k == <<q.owner, q.path>>
  IN  /\ q # NoRequest
      /\ q.kind = "delete"
      /\ files[k] # NoRow
      /\ VersionAt(k) = q.expected
      /\ files' = [files EXCEPT ![k] = NoRow]
      /\ Receipt(q, NoVersion, TRUE)
      /\ request' = [request EXCEPT ![w] = NoRequest]
      /\ UNCHANGED shown

\* A delete that expected nothing and found nothing leaves only its receipt.
\* The file may have come into being since it looked.
NoteAbsent(w) ==
  LET q == request[w]
  IN  /\ q # NoRequest
      /\ q.kind = "delete"
      /\ q.expected = NoVersion
      /\ Receipt(q, NoVersion, FALSE)
      /\ request' = [request EXCEPT ![w] = NoRequest]
      /\ UNCHANGED <<files, shown>>

\* A version made up for a caller whose write is not kept.
Fabricate ==
  /\ \E v \in Versions \ shown : shown' = shown \cup {v}
  /\ UNCHANGED <<files, done, request>>

\* Erasing an owner takes two steps: its receipts, then its files.
ForgetReceipts(o) ==
  /\ done' = [r \in Owners \X OpIds |-> IF r[1] = o THEN NoReceipt ELSE done[r]]
  /\ UNCHANGED <<files, shown, request>>

ForgetFiles(o) ==
  /\ files' = [k \in Owners \X Paths |-> IF k[1] = o THEN NoRow ELSE files[k]]
  /\ UNCHANGED <<done, shown, request>>

Next ==
  \/ \E w \in Workers : Ask(w) \/ AnswerOnly(w) \/ Write(w) \/ Delete(w) \/ NoteAbsent(w)
  \/ Fabricate
  \/ \E o \in Owners : ForgetReceipts(o) \/ ForgetFiles(o)

Spec == Init /\ [][Next]_vars
=============================================================================
