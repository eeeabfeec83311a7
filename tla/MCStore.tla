------------------------------- MODULE MCStore -------------------------------
(* Instances of ConversationStore for TLC.                                 *)
EXTENDS ConversationStoreProperties, TLC

CONSTANTS w1, w2, a, b, i1, i2, i3, t1, t2, d1, d2

AllOfOneOwner == [t \in Threads |-> a]
OwnerOfThread == [t \in Threads |-> IF t = t1 THEN a ELSE b]

Symmetry == Permutations(Workers) \cup Permutations(Ids \ Legacy) \cup Permutations(Digests)
=============================================================================
