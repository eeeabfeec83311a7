------------------------------ MODULE MCMemory ------------------------------
(* Instances of MemoryStore for TLC.                                       *)
EXTENDS MemoryStoreProperties, TLC

CONSTANTS w1, w2, o1, o2, p1, p2, p3, plain, fence, escaped

\* One owner's namespace holds every path.
OneNamespace == [p \in Paths |-> o1]
TwoNamespaces == [p \in Paths |-> IF p = p1 THEN o1 ELSE o2]

NobodyBound == [w \in Workers |-> NoOwner]

\* One worker serves a signed-in user, the other a refused anonymous caller.
OneAnonymous == (w1 :> o1) @@ (w2 :> NoOwner)

\* Both workers serve the user o2, whose namespace is o1.
AllSecond == [w \in Workers |-> o2]

\* A fence tag is escaped into something longer.
EscapeFence == [c \in Contents |-> IF c = fence THEN escaped ELSE c]
Lengths == [c \in Contents |-> IF c = escaped THEN 2 ELSE 1]

Symmetry == Permutations(Workers) \cup Permutations(OpIds) \cup Permutations(Paths)
=============================================================================
