---------------------------- MODULE SessionStore ----------------------------
(***************************************************************************)
(* DjangoSessionConversationStore behind ScopedConversationStore: the      *)
(* threads of every endpoint in one dictionary of the browser's session,   *)
(* told apart by a prefix of their key.  Django loads a session once for a *)
(* request and writes the whole of it back with the response if it was     *)
(* modified; requests of one session may overlap.                          *)
(*                                                                         *)
(* A string is the sequence of its parts between colons: "a:b" is          *)
(* <<"a", "b">>, and f"{scope}:{thread_id}" is a concatenation.            *)
(***************************************************************************)
EXTENDS Naturals, Sequences, FiniteSets

CONSTANTS
  Workers, Sessions,
  Scopes,     \* the scopes the project tries to mount, as strings
  Threads,    \* the thread ids clients choose, as strings
  Contents,   \* the messages of a conversation
  Titles,     \* the titles a user renames a thread to
  None,
  MaxTime     \* bound on the saves

ASSUME SessionStoreAssumption ==
  /\ \A s \in Scopes : s \in Seq(STRING) /\ Len(s) >= 1
  /\ \A t \in Threads : t \in Seq(STRING) /\ Len(t) >= 1
  /\ None \notin Sessions \cup Titles
  /\ MaxTime \in Nat

VARIABLES
  stored,   \* stored[s]: the session's dictionary in the session backend
  held,     \* held[w]: the request's session, if any, its dictionary, whether modified
  clock,    \* the time
  renamed   \* history, as held and stored: the title a user last chose

vars == <<stored, held, clock, renamed>>

-----------------------------------------------------------------------------
(* ScopedConversationStore *)

MountableSlip(scope) == TRUE

\* A scope holding a colon is refused at construction.
Mountable(scope) == Len(scope) = 1

Mounts == {s \in Scopes : Mountable(s)}

Key(scope, t) == scope \o t

HasPrefix(key, scope) == Len(key) > Len(scope) /\ SubSeq(key, 1, Len(scope)) = scope

Unkey(scope, key) ==
  IF HasPrefix(key, scope) THEN SubSeq(key, Len(scope) + 1, Len(key)) ELSE key

-----------------------------------------------------------------------------
(* The dictionary of a session *)

Has(dict, key) == key \in DOMAIN dict

With(dict, key, entry) ==
  [k \in DOMAIN dict \cup {key} |-> IF k = key THEN entry ELSE dict[k]]

Without(dict, key) == [k \in DOMAIN dict \ {key} |-> dict[k]]

\* _save stores the messages and the time, and starts a new entry.
SavedSlip(messages, time) == [messages |-> messages, title |-> None, updatedAt |-> 0]

Saved(messages, time) == [messages |-> messages, title |-> None, updatedAt |-> time]

\* _list: newest first, cut at the limit.
RankSlip(dict, k) == Cardinality({j \in DOMAIN dict : dict[j].updatedAt < dict[k].updatedAt})

Rank(dict, k) == Cardinality({j \in DOMAIN dict : dict[j].updatedAt > dict[k].updatedAt})

Listed(dict, limit) == {k \in DOMAIN dict : Rank(dict, k) < limit}

\* ScopedConversationStore.list filters what the inner store's limit left.
List(dict, scope, limit) ==
  {Unkey(scope, k) : k \in {k \in Listed(dict, limit) : HasPrefix(k, scope)}}

\* _meta: a stored title wins over the derived one, which is None here.
TitleShown(dict, key) == dict[key].title

-----------------------------------------------------------------------------
Idle == [session |-> None, dict |-> <<>>, modified |-> FALSE, renamed |-> <<>>]

Serves(w) == held[w].session # None

Init ==
  /\ stored = [s \in Sessions |-> <<>>]
  /\ held = [w \in Workers |-> Idle]
  /\ clock = 0
  /\ renamed = [s \in Sessions |-> <<>>]

\* The first access of a request to its session.
Open(w, s) ==
  /\ ~Serves(w)
  /\ held' = [held EXCEPT ![w] = [session |-> s, dict |-> stored[s],
                                  modified |-> FALSE, renamed |-> renamed[s]]]
  /\ UNCHANGED <<stored, clock, renamed>>

\* A request puts its dictionary back into its session and marks it modified.
Puts(w, dict, titles) ==
  held' = [held EXCEPT ![w] = [session |-> held[w].session, dict |-> dict,
                               modified |-> TRUE, renamed |-> titles]]

Save(w, scope, t, messages) ==
  /\ Serves(w) /\ clock < MaxTime
  /\ clock' = clock + 1
  /\ Puts(w, With(held[w].dict, Key(scope, t), Saved(messages, clock + 1)), held[w].renamed)
  /\ UNCHANGED <<stored, renamed>>

Delete(w, scope, t) ==
  /\ Serves(w)
  /\ Has(held[w].dict, Key(scope, t))
  /\ Puts(w, Without(held[w].dict, Key(scope, t)), Without(held[w].renamed, Key(scope, t)))
  /\ UNCHANGED <<stored, clock, renamed>>

Rename(w, scope, t, title) ==
  /\ Serves(w)
  /\ Has(held[w].dict, Key(scope, t))
  /\ Puts(w, [held[w].dict EXCEPT ![Key(scope, t)].title = title],
             With(held[w].renamed, Key(scope, t), title))
  /\ UNCHANGED <<stored, clock, renamed>>

\* SessionMiddleware: a modified session is written back as a whole.
Respond(w) ==
  /\ Serves(w)
  /\ IF held[w].modified
     THEN /\ stored' = [stored EXCEPT ![held[w].session] = held[w].dict]
          /\ renamed' = [renamed EXCEPT ![held[w].session] = held[w].renamed]
     ELSE UNCHANGED <<stored, renamed>>
  /\ held' = [held EXCEPT ![w] = Idle]
  /\ UNCHANGED clock

\* It writes nothing for a request that ended in a server error.
Fail(w) ==
  /\ Serves(w)
  /\ held' = [held EXCEPT ![w] = Idle]
  /\ UNCHANGED <<stored, clock, renamed>>

Next ==
  \E w \in Workers :
    \/ \E s \in Sessions : Open(w, s)
    \/ \E scope \in Mounts, t \in Threads :
         \/ \E m \in Contents : Save(w, scope, t, m)
         \/ Delete(w, scope, t)
         \/ \E title \in Titles : Rename(w, scope, t, title)
    \/ Respond(w) \/ Fail(w)

Spec == Init /\ [][Next]_vars
=============================================================================
