----------------------- MODULE SessionStoreProperties -----------------------
(* What the endpoints that share a session store may rely on.              *)
EXTENDS SessionStore

Entry == [messages : Contents, title : Titles \cup {None}, updatedAt : 1..MaxTime]

Keys == {Key(m, t) : m \in Mounts, t \in Threads}

Dictionary(dict) == \A k \in DOMAIN dict : k \in Keys /\ dict[k] \in Entry

\* Every key is a mount's, every value an entry that _list and _load can read.
TypeOK ==
  /\ \A s \in Sessions : Dictionary(stored[s])
  /\ \A w \in Workers :
       /\ held[w].session \in Sessions \cup {None} /\ held[w].modified \in BOOLEAN
       /\ Dictionary(held[w].dict)
  /\ clock \in 0..MaxTime

\* A mount's view of a dictionary: what load answers for each thread id.
View(dict, scope) ==
  [t \in Threads |-> IF Has(dict, Key(scope, t)) THEN dict[Key(scope, t)] ELSE None]

ViewOfEach(dict) == [m \in Mounts |-> View(dict, m)]

Mounted ==
  INSTANCE MountedThreads WITH
    Entries <- Entry,
    kept    <- [s \in Sessions |-> ViewOfEach(stored[s])],
    working <- [w \in Workers |-> [session |-> held[w].session,
                                   threads |-> ViewOfEach(held[w].dict)]]

\* One dictionary with prefixed keys gives every mount its own threads, whatever
\* ids clients choose (scoped_conversation_store.py:17, :46).
Partition == Mounted!Spec

\* Whatever the limit, a mount lists threads of its own only, and never an older
\* one in place of a newer (scoped_conversation_store.py:91,
\* django_session_conversation_store.py:75).
ListsTheNewest ==
  \A w \in Workers :
    \A m \in Mounts, limit \in 0..Cardinality(DOMAIN held[w].dict) :
      LET shown == List(held[w].dict, m, limit)
          own   == {t \in Threads : Has(held[w].dict, Key(m, t))}
          age(t) == held[w].dict[Key(m, t)].updatedAt
      IN  /\ shown \subseteq own
          /\ \A t \in shown, u \in own \ shown : age(u) < age(t)
          /\ limit = Cardinality(DOMAIN held[w].dict) => shown = own

\* An explicit rename wins over the derived title, for as long as the thread
\* exists (django_session_conversation_store.py:95).
RenamesWin ==
  \A s \in Sessions : \A k \in DOMAIN stored[s] :
    k \in DOMAIN renamed[s] => TitleShown(stored[s], k) = renamed[s][k]
=============================================================================
