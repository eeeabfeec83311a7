----------------------- MODULE MemoryStoreProperties -----------------------
(* What must hold of MemoryStore, for TLC (MCMemory*.cfg) and for the      *)
(* proofs of MemoryStoreProofs.                                            *)
EXTENDS MemoryStore

\* Every table, every transaction and every history variable holds values of
\* its column or local variable.
TypeOK ==
  /\ memory \in [Keys -> Row \cup {NoRow}]
  /\ receipts \in [OpKeys -> Receipt \cup {NoReceipt}]
  /\ txn \in [Workers -> Txn]
  /\ purging \subseteq Owners
  /\ minted \in Nat
  /\ shown \subseteq Nat
  /\ answers \subseteq [key : OpKeys, fingerprint : Fingerprints, version : Nat]

-----------------------------------------------------------------------------
(* Safety of concurrent calls.                                             *)

\* Two calls never hold the same row, and a row read under select_for_update
\* is the committed row until the call that locked it ends, whatever other
\* writes, deletes and purges do meanwhile.
LockedRowIsCurrent ==
  \A w \in Workers :
    txn[w].row # NoRow =>
      /\ memory[Key(w)] = txn[w].row
      /\ \A x \in Workers \ {w} : ~ Locks(x, Key(w))

\* A row written under an operation id and that id's receipt tell the same
\* story: same version, and a fingerprint that names this very file and a
\* content stored as this very content. Only an unfinished purge of the owner
\* may have taken the receipt away.
RowHasItsReceipt ==
  \A k \in Keys :
    (memory[k] # NoRow /\ memory[k].op # NoOp /\ k[1] \notin purging) =>
      LET r == receipts[<<k[1], memory[k].op>>]
      IN  /\ r # NoReceipt
          /\ r.version = memory[k].version
          /\ \E c \in Contents :
               /\ r.fingerprint = <<"write", k[2], c>>
               /\ Escape[c] = memory[k].content

\* However often a call is retried under one operation id, and however its
\* attempts overlap, all the answers it gets agree on the request that was
\* answered and on the version it produced.
AnswersAgree ==
  \A a, b \in answers : a.key = b.key => a = b

\* No ABA: a file never takes on a version some caller may already know, not
\* even after it was deleted and created again (models.py: the version is
\* random so that a stale writer cannot pass the compare-and-set).
VersionsNeverReturn ==
  [][\A k \in Keys :
       (memory'[k] # memory[k] /\ memory'[k] # NoRow) => memory'[k].version \notin shown]_vars

\* Concurrent creates can overshoot the file ceiling, by at most one file for
\* each worker but one.
OvershootIsBounded ==
  \A o \in Owners :
    Cardinality({k \in Keys : k[1] = o /\ memory[k] # NoRow})
      <= MaxFiles + Cardinality(Workers) - 1

-----------------------------------------------------------------------------
(* The abstract store.                                                     *)

CONSTANT NoRequest    \* a worker has no call under way

Requests ==
  [kind : Kinds, owner : Owners, path : Paths, content : Contents \cup {NoContent},
   expected : Nat, op : OpIds \cup {NoOp}]

ASSUME NoRequestAssumption == NoRequest \notin Requests

Outstanding(w) ==
  IF txn[w].pc = "idle"
  THEN NoRequest
  ELSE [kind |-> txn[w].kind, owner |-> txn[w].owner, path |-> txn[w].path,
        content |-> txn[w].content, expected |-> txn[w].expected, op |-> txn[w].op]

Abstract == INSTANCE VersionedFiles WITH
  files <- memory, done <- receipts,
  request <- [w \in Workers |-> Outstanding(w)]

\* The transactions implement atomic compare-and-set files with receipts: a
\* call takes effect in one step, on the version its caller named, once per
\* operation id, or not at all.
Promise == Abstract!Spec

-----------------------------------------------------------------------------
(* One caller at a time, and progress.                                     *)

\* Without concurrent calls no owner ever holds more files than MaxFiles, or
\* more characters, as stored, than MaxTotalChars.
WithinCeilings ==
  \A o \in Owners :
    LET held == {k \in Keys : k[1] = o /\ memory[k] # NoRow}
    IN  /\ Cardinality(held) <= MaxFiles
        /\ Chars(memory, held) <= MaxTotalChars

\* No lock wait is for ever: every call ends.
EveryCallEnds == \A w \in Workers : txn[w].pc # "idle" ~> txn[w].pc = "idle"

-----------------------------------------------------------------------------
(* Ownership.                                                              *)

\* Every stored file belongs to a user the request names, never to whatever
\* the path begins with. Holds of a request-bound store, refused anonymous
\* callers included; a namespace-scoped store keys its rows on the path.
OwnerIsTheUser ==
  \A k \in Keys : memory[k] # NoRow => \E w \in Workers : RequestOwner[w] = k[1]

=============================================================================
