--------------------------- MODULE MCSessionStore ---------------------------
(* Scopes and thread ids with and without a colon.                         *)
EXTENDS SessionStoreProperties, TLC

MCScopes == {<<"a">>, <<"b">>, <<"a", "b">>}
MCThreads == {<<"t">>, <<"b", "t">>}

Symmetry == Permutations(Workers) \cup Permutations(Sessions)
=============================================================================
