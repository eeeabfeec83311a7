------------------------- MODULE SessionStoreProofs -------------------------
(***************************************************************************)
(* One dictionary with prefixed keys implements a store for each mount,    *)
(* for any scopes, thread ids, sessions and requests.  What carries it is  *)
(* that Key is injective on mounts and thread ids, which it owes to the    *)
(* refusal of a scope that holds a colon.                                  *)
(***************************************************************************)
EXTENDS SessionStoreProperties, TLAPS, FiniteSetTheorems, SequenceTheorems

\* The shape of the state, which TypeOK leaves implicit.
ShapeOK ==
  /\ stored = [s \in Sessions |-> stored[s]]
  /\ held = [w \in Workers |-> held[w]]
  /\ \A w \in Workers :
       held[w] = [session |-> held[w].session, dict |-> held[w].dict,
                  modified |-> held[w].modified, renamed |-> held[w].renamed]
  /\ \A s \in Sessions : IsFiniteSet(DOMAIN stored[s])
  /\ \A w \in Workers : IsFiniteSet(DOMAIN held[w].dict)

IInv == TypeOK /\ ShapeOK

-----------------------------------------------------------------------------
(* Keys                                                                    *)

\* What a scope and a thread id are made of.
LEMMA Parts ==
  ASSUME NEW m \in Mounts, NEW t \in Threads
  PROVE  /\ m \in Seq(STRING) /\ Len(m) = 1
         /\ t \in Seq(STRING) /\ Len(t) \in Nat /\ Len(t) >= 1
BY SessionStoreAssumption DEF Mounts, Mountable

\* A key says its mount and its thread.
LEMMA KeyParts ==
  ASSUME NEW m \in Mounts, NEW t \in Threads
  PROVE  /\ Key(m, t) \in Seq(STRING) /\ Len(Key(m, t)) = Len(t) + 1
         /\ Key(m, t)[1] = m[1]
         /\ \A i \in 1..Len(t) : Key(m, t)[i + 1] = t[i]
<1>1. /\ m \in Seq(STRING) /\ Len(m) = 1
      /\ t \in Seq(STRING) /\ Len(t) \in Nat /\ Len(t) >= 1
  BY Parts
<1>2. /\ m \o t \in Seq(STRING)
      /\ Len(m \o t) = Len(m) + Len(t)
      /\ \A i \in 1 .. Len(m) + Len(t) :
           (m \o t)[i] = IF i <= Len(m) THEN m[i] ELSE t[i - Len(m)]
  BY <1>1, ConcatProperties
<1>3. (m \o t)[1] = m[1]
  BY <1>1, <1>2
<1>4. ASSUME NEW i \in 1..Len(t) PROVE (m \o t)[i + 1] = t[i]
  <2>1. i + 1 \in 1 .. Len(m) + Len(t) /\ ~(i + 1 <= Len(m)) /\ (i + 1) - Len(m) = i
    BY <1>1
  <2>2. QED
    BY <1>2, <2>1
<1>5. QED
  BY <1>1, <1>2, <1>3, <1>4 DEF Key

\* A mount's scope has one part only.
LEMMA ScopesDiffer ==
  ASSUME NEW m \in Mounts, NEW n \in Mounts, m[1] = n[1]
  PROVE  m = n
<1>1. m \in Seq(STRING) /\ n \in Seq(STRING) /\ Len(m) = 1 /\ Len(n) = 1
  BY SessionStoreAssumption DEF Mounts, Mountable
<1>2. QED
  BY <1>1, SeqEqual

\* No two threads of the mounts share a key.
LEMMA KeysDiffer ==
  ASSUME NEW m \in Mounts, NEW n \in Mounts, NEW t \in Threads, NEW u \in Threads,
         Key(m, t) = Key(n, u)
  PROVE  m = n /\ t = u
<1>1. /\ Len(Key(m, t)) = Len(t) + 1 /\ Key(m, t)[1] = m[1]
      /\ \A i \in 1..Len(t) : Key(m, t)[i + 1] = t[i]
  BY KeyParts
<1>2. /\ Len(Key(n, u)) = Len(u) + 1 /\ Key(n, u)[1] = n[1]
      /\ \A i \in 1..Len(u) : Key(n, u)[i + 1] = u[i]
  BY KeyParts
<1>3. m = n
  BY <1>1, <1>2, ScopesDiffer
<1>4. t \in Seq(STRING) /\ u \in Seq(STRING) /\ Len(t) \in Nat /\ Len(u) \in Nat
  BY Parts
<1>5. Len(t) = Len(u) /\ \A i \in 1..Len(t) : t[i] = u[i]
  BY <1>1, <1>2, <1>4
<1>6. t = u
  BY <1>4, <1>5, SeqEqual
<1>7. QED
  BY <1>3, <1>6

\* The prefix of a key is its mount's and what follows is its thread id.
LEMMA PrefixOfKey ==
  ASSUME NEW m \in Mounts, NEW n \in Mounts, NEW t \in Threads
  PROVE  /\ HasPrefix(Key(n, t), m) <=> m = n
         /\ m = n => Unkey(m, Key(n, t)) = t
<1> DEFINE key == Key(n, t)
<1>1. /\ key \in Seq(STRING) /\ Len(key) = Len(t) + 1 /\ key[1] = n[1]
      /\ \A i \in 1..Len(t) : key[i + 1] = t[i]
  BY KeyParts
<1>2. /\ m \in Seq(STRING) /\ Len(m) = 1
      /\ t \in Seq(STRING) /\ Len(t) \in Nat /\ Len(t) >= 1
  BY Parts
<1> HIDE DEF key
<1>3. /\ SubSeq(key, 1, 1) \in Seq(STRING) /\ Len(SubSeq(key, 1, 1)) = 1
      /\ SubSeq(key, 1, 1)[1] = key[1]
  <2>1. \A i \in 1..1 : key[i] \in STRING
    BY <1>1, <1>2, ElementOfSeq
  <2>2. /\ SubSeq(key, 1, 1) \in Seq(STRING)
        /\ Len(SubSeq(key, 1, 1)) = IF 1 <= 1 THEN 1 - 1 + 1 ELSE 0
        /\ \A i \in 1 .. 1 - 1 + 1 : SubSeq(key, 1, 1)[i] = key[1 + i - 1]
    BY <2>1, SubSeqProperties
  <2>3. SubSeq(key, 1, 1)[1] = key[1 + 1 - 1]
    BY <2>2
  <2>4. QED
    BY <2>2, <2>3
<1>4. HasPrefix(key, m) <=> m = n
  <2>1. HasPrefix(key, m) <=> SubSeq(key, 1, 1) = m
    BY <1>1, <1>2 DEF HasPrefix
  <2>2. SubSeq(key, 1, 1) = m <=> key[1] = m[1]
    BY <1>2, <1>3, SeqEqual
  <2>3. QED
    BY <1>1, <2>1, <2>2, ScopesDiffer
<1>5. SubSeq(key, 2, Len(key)) = t
  <2> DEFINE rest == SubSeq(key, 2, Len(key))
  <2>1. \A i \in 2..Len(key) : key[i] \in STRING
    BY <1>1, <1>2, ElementOfSeq
  <2>2. /\ rest \in Seq(STRING)
        /\ Len(rest) = IF 2 <= Len(key) THEN Len(key) - 2 + 1 ELSE 0
        /\ \A i \in 1 .. Len(key) - 2 + 1 : rest[i] = key[2 + i - 1]
    BY <1>1, <1>2, <2>1, SubSeqProperties
  <2> HIDE DEF rest
  <2>3. Len(rest) = Len(t)
    BY <1>1, <1>2, <2>2
  <2>4. ASSUME NEW i \in 1..Len(t) PROVE rest[i] = t[i]
    <3>1. i \in 1 .. Len(key) - 2 + 1 /\ 2 + i - 1 = i + 1
      BY <1>1, <1>2
    <3>2. QED
      BY <1>1, <2>2, <3>1
  <2>5. rest = t
    BY <1>2, <2>2, <2>3, <2>4, SeqEqual
  <2>6. QED
    BY <2>5 DEF rest
<1>6. QED
  BY <1>2, <1>4, <1>5 DEF Unkey, key

-----------------------------------------------------------------------------
(* What the mounts see of a changed dictionary                             *)

\* A stored entry is one thread of one mount changed.
LEMMA WithIsPut ==
  ASSUME NEW dict, NEW m \in Mounts, NEW t \in Threads, NEW e
  PROVE  ViewOfEach(With(dict, Key(m, t), e)) = [ViewOfEach(dict) EXCEPT ![m][t] = e]
<1> DEFINE key == Key(m, t)
           new == With(dict, key, e)
<1>1. ASSUME NEW n \in Mounts, NEW u \in Threads
      PROVE  View(new, n)[u] = IF n = m /\ u = t THEN e ELSE View(dict, n)[u]
  <2>1. Key(n, u) = key <=> n = m /\ u = t
    BY KeysDiffer
  <2> HIDE DEF key
  <2>2. QED
    BY <2>1 DEF View, With, Has
<1> HIDE DEF new
<1>2. ASSUME NEW n \in Mounts
      PROVE  View(new, n) = IF n = m THEN [View(dict, n) EXCEPT ![t] = e] ELSE View(dict, n)
  BY <1>1 DEF View
<1>3. ViewOfEach(new) = [ViewOfEach(dict) EXCEPT ![m] = [View(dict, m) EXCEPT ![t] = e]]
  BY <1>2 DEF ViewOfEach
<1>4. QED
  BY <1>3 DEF ViewOfEach, new

\* A deleted entry is one thread of one mount gone.
LEMMA WithoutIsPut ==
  ASSUME NEW dict, NEW m \in Mounts, NEW t \in Threads
  PROVE  ViewOfEach(Without(dict, Key(m, t))) = [ViewOfEach(dict) EXCEPT ![m][t] = None]
<1> DEFINE key == Key(m, t)
           new == Without(dict, key)
<1>1. ASSUME NEW n \in Mounts, NEW u \in Threads
      PROVE  View(new, n)[u] = IF n = m /\ u = t THEN None ELSE View(dict, n)[u]
  <2>1. Key(n, u) = key <=> n = m /\ u = t
    BY KeysDiffer
  <2> HIDE DEF key
  <2>2. QED
    BY <2>1 DEF View, Without, Has
<1> HIDE DEF new
<1>2. ASSUME NEW n \in Mounts
      PROVE  View(new, n) = IF n = m THEN [View(dict, n) EXCEPT ![t] = None] ELSE View(dict, n)
  BY <1>1 DEF View
<1>3. ViewOfEach(new) = [ViewOfEach(dict) EXCEPT ![m] = [View(dict, m) EXCEPT ![t] = None]]
  BY <1>2 DEF ViewOfEach
<1>4. QED
  BY <1>3 DEF ViewOfEach, new

\* A dictionary with an entry more is one.
LEMMA WithIsDictionary ==
  ASSUME NEW dict, Dictionary(dict), IsFiniteSet(DOMAIN dict),
         NEW m \in Mounts, NEW t \in Threads, NEW e \in Entry
  PROVE  /\ Dictionary(With(dict, Key(m, t), e))
         /\ IsFiniteSet(DOMAIN With(dict, Key(m, t), e))
<1> DEFINE key == Key(m, t)
<1>1. key \in Keys
  BY DEF Keys
<1> HIDE DEF key
<1>2. DOMAIN With(dict, key, e) = DOMAIN dict \cup {key}
  BY DEF With
<1>3. IsFiniteSet(DOMAIN dict \cup {key})
  BY FS_AddElement
<1>4. Dictionary(With(dict, key, e))
  BY <1>1 DEF Dictionary, With
<1>5. QED
  BY <1>2, <1>3, <1>4 DEF key

\* A shortened dictionary is one.
LEMMA WithoutIsDictionary ==
  ASSUME NEW dict, Dictionary(dict), IsFiniteSet(DOMAIN dict), NEW key
  PROVE  /\ Dictionary(Without(dict, key))
         /\ IsFiniteSet(DOMAIN Without(dict, key))
<1>1. DOMAIN Without(dict, key) = DOMAIN dict \ {key}
  BY DEF Without
<1>2. IsFiniteSet(DOMAIN dict \ {key})
  BY FS_RemoveElement
<1>3. Dictionary(Without(dict, key))
  BY DEF Dictionary, Without
<1>4. QED
  BY <1>1, <1>2, <1>3

-----------------------------------------------------------------------------
(* Steps of a request on its own copy                                      *)

\* The request w serves goes on with the dictionary d.
Works(w, d) ==
  /\ Serves(w)
  /\ UNCHANGED stored
  /\ \E r : Puts(w, d, r)

\* Such a step keeps the invariant.
LEMMA WorkKeeps ==
  ASSUME IInv, NEW w \in Workers, NEW d, Works(w, d), Dictionary(d), IsFiniteSet(DOMAIN d),
         clock' \in 0..MaxTime
  PROVE  IInv'
<1> PICK r : Puts(w, d, r)
  BY DEF Works
<1>0. held' = [held EXCEPT ![w] = [session |-> held[w].session, dict |-> d,
                                   modified |-> TRUE, renamed |-> r]]
  BY DEF Puts
<1>1. /\ held'[w] = [session |-> held[w].session, dict |-> d, modified |-> TRUE, renamed |-> r]
      /\ \A v \in Workers : v # w => held'[v] = held[v]
      /\ held' = [v \in Workers |-> held'[v]]
  BY <1>0 DEF IInv, ShapeOK
<1>2. TypeOK'
  <2>1. \A v \in Workers : /\ held'[v].session \in Sessions \cup {None}
                          /\ held'[v].modified \in BOOLEAN
                          /\ Dictionary(held'[v].dict)
    <3>1. /\ held'[w].session = held[w].session /\ held'[w].modified = TRUE
          /\ held'[w].dict = d
      BY <1>1
    <3>2. QED
      BY <1>1, <3>1 DEF IInv, TypeOK
  <2>2. \A s \in Sessions : Dictionary(stored'[s])
    BY DEF IInv, TypeOK, Works
  <2>3. QED
    BY <2>1, <2>2 DEF TypeOK
<1>3. ShapeOK'
  BY <1>1 DEF IInv, ShapeOK, Works
<1>4. QED
  BY <1>2, <1>3 DEF IInv

\* Such a step changes one thread of one mount.
LEMMA WorkIsPut ==
  ASSUME IInv, NEW w \in Workers, NEW d, Works(w, d),
         NEW m \in Mounts, NEW t \in Threads, NEW e \in Entry \cup {None},
         ViewOfEach(d) = [ViewOfEach(held[w].dict) EXCEPT ![m][t] = e]
  PROVE  Mounted!Put(w, m, t)
<1> PICK r : Puts(w, d, r)
  BY DEF Works
<1>0. held' = [held EXCEPT ![w] = [session |-> held[w].session, dict |-> d,
                                   modified |-> TRUE, renamed |-> r]]
  BY DEF Puts
<1> DEFINE working(v)  == [session |-> held[v].session, threads |-> ViewOfEach(held[v].dict)]
           working1(v) == [session |-> held'[v].session, threads |-> ViewOfEach(held'[v].dict)]
<1>1. /\ held'[w].session = held[w].session /\ held'[w].dict = d
      /\ \A v \in Workers : v # w => held'[v] = held[v]
  BY <1>0 DEF IInv, ShapeOK
<1>2. working1(w) = [working(w) EXCEPT !.threads = [@ EXCEPT ![m][t] = e]]
  BY <1>1
<1>3. \A v \in Workers : v # w => working1(v) = working(v)
  BY <1>1
<1>4. [v \in Workers |-> working1(v)]
        = [[v \in Workers |-> working(v)] EXCEPT ![w].threads[m][t] = e]
  BY <1>2, <1>3
<1>5. [v \in Workers |-> working(v)][w].session # None
  BY DEF Works, Serves
<1>6. QED
  BY <1>4, <1>5 DEF Mounted!Put, Mounted!Serves, Works

\* What a work step gives: the invariant, and a change of one thread.
LEMMA WorkStep ==
  ASSUME IInv, NEW w \in Workers, NEW d, Works(w, d),
         NEW m \in Mounts, NEW t \in Threads, NEW e \in Entry \cup {None},
         \/ e \in Entry /\ d = With(held[w].dict, Key(m, t), e)
         \/ e = None /\ d = Without(held[w].dict, Key(m, t)),
         clock' \in 0..MaxTime
  PROVE  IInv' /\ Mounted!Next
<1>1. Dictionary(held[w].dict) /\ IsFiniteSet(DOMAIN held[w].dict)
  BY DEF IInv, TypeOK, ShapeOK
<1>2. Dictionary(d) /\ IsFiniteSet(DOMAIN d)
  BY <1>1, WithIsDictionary, WithoutIsDictionary
<1>3. ViewOfEach(d) = [ViewOfEach(held[w].dict) EXCEPT ![m][t] = e]
  BY WithIsPut, WithoutIsPut
<1>4. IInv'
  BY <1>2, WorkKeeps
<1>5. Mounted!Put(w, m, t)
  BY <1>3, WorkIsPut
<1>6. QED
  BY <1>4, <1>5 DEF Mounted!Next

\* _save, as a step of the mounts.
LEMMA SaveStep ==
  ASSUME IInv, NEW w \in Workers, NEW m \in Mounts, NEW t \in Threads, NEW msgs \in Contents,
         Save(w, m, t, msgs)
  PROVE  IInv' /\ Mounted!Next
<1> DEFINE e == Saved(msgs, clock + 1)
           d == With(held[w].dict, Key(m, t), e)
<1>1. clock' \in 1..MaxTime /\ clock' = clock + 1
  BY SessionStoreAssumption DEF IInv, TypeOK, Save
<1>2. e \in Entry
  BY <1>1 DEF Entry, Saved
<1> HIDE DEF e
<1>3. Works(w, d)
  BY DEF Works, Save, e
<1>4. QED
  BY <1>1, <1>2, <1>3, WorkStep

\* _delete, as a step of the mounts.
LEMMA DeleteStep ==
  ASSUME IInv, NEW w \in Workers, NEW m \in Mounts, NEW t \in Threads, Delete(w, m, t)
  PROVE  IInv' /\ Mounted!Next
<1> DEFINE d == Without(held[w].dict, Key(m, t))
<1>1. clock' \in 0..MaxTime
  BY DEF IInv, TypeOK, Delete
<1>2. Works(w, d)
  BY DEF Works, Delete
<1>3. QED
  BY <1>1, <1>2, WorkStep

\* _rename, as a step of the mounts.
LEMMA RenameStep ==
  ASSUME IInv, NEW w \in Workers, NEW m \in Mounts, NEW t \in Threads, NEW title \in Titles,
         Rename(w, m, t, title)
  PROVE  IInv' /\ Mounted!Next
<1> DEFINE key == Key(m, t)
           e   == [held[w].dict[key] EXCEPT !.title = title]
           d   == [held[w].dict EXCEPT ![key] = e]
<1>1. clock' \in 0..MaxTime /\ key \in DOMAIN held[w].dict
  BY DEF IInv, TypeOK, Rename, Has
<1>2. held[w].dict[key] \in Entry
  BY <1>1 DEF IInv, TypeOK, Dictionary
<1>3. e \in Entry
  BY <1>2 DEF Entry
<1>4. Works(w, d)
  BY DEF Works, Rename
<1> HIDE DEF e
<1>5. d = With(held[w].dict, key, e)
  <2> HIDE DEF key
  <2>1. DOMAIN held[w].dict \cup {key} = DOMAIN held[w].dict
    BY <1>1
  <2>2. QED
    BY <2>1 DEF With
<1> HIDE DEF d
<1>6. QED
  BY <1>1, <1>3, <1>4, <1>5, WorkStep

-----------------------------------------------------------------------------
(* Sessions loaded and written back                                        *)

\* A new session holds no threads.
LEMMA EmptyDictionary ==
  Dictionary(<<>>) /\ IsFiniteSet(DOMAIN <<>>) /\ ViewOfEach(<<>>) = Mounted!NoThreads
<1>1. DOMAIN <<>> = {}
  OBVIOUS
<1>2. QED
  BY <1>1, FS_EmptySet DEF Dictionary, ViewOfEach, View, Has, Mounted!NoThreads

\* Empty sessions satisfy the invariant and are the mounts' initial state.
LEMMA Initial == Init => IInv /\ Mounted!Init
<1> SUFFICES ASSUME Init PROVE IInv /\ Mounted!Init
  OBVIOUS
<1>1. Dictionary(<<>>) /\ IsFiniteSet(DOMAIN <<>>) /\ ViewOfEach(<<>>) = Mounted!NoThreads
  BY EmptyDictionary
<1>2. /\ stored = [s \in Sessions |-> <<>>] /\ held = [w \in Workers |-> Idle] /\ clock = 0
      /\ Idle.session = None /\ Idle.dict = <<>> /\ Idle.modified = FALSE
      /\ Idle = [session |-> Idle.session, dict |-> Idle.dict,
                 modified |-> Idle.modified, renamed |-> Idle.renamed]
  BY DEF Init, Idle
<1>3. TypeOK
  <2>1. clock \in 0..MaxTime
    BY <1>2, SessionStoreAssumption
  <2>2. QED
    BY <1>1, <1>2, <2>1 DEF TypeOK
<1>4. ShapeOK
  BY <1>1, <1>2 DEF ShapeOK
<1>5. Mounted!Idle = [session |-> Idle.session, threads |-> ViewOfEach(Idle.dict)]
  BY <1>1, <1>2 DEF Mounted!Idle
<1>6. Mounted!Init
  BY <1>1, <1>2, <1>5 DEF Mounted!Init
<1>7. QED
  BY <1>3, <1>4, <1>6 DEF IInv

\* A request that loads its session, as a step of the mounts.
LEMMA OpenStep ==
  ASSUME IInv, NEW w \in Workers, NEW s \in Sessions, Open(w, s)
  PROVE  IInv' /\ Mounted!Next
<1> DEFINE new == [session |-> s, dict |-> stored[s], modified |-> FALSE, renamed |-> renamed[s]]
<1>1. /\ held' = [held EXCEPT ![w] = new] /\ UNCHANGED <<stored, clock>>
      /\ held[w].session = None
  BY DEF Open, Serves
<1>2. /\ held'[w] = new /\ \A v \in Workers : v # w => held'[v] = held[v]
      /\ held' = [v \in Workers |-> held'[v]]
  BY <1>1 DEF IInv, ShapeOK
<1>3. TypeOK'
  BY <1>1, <1>2 DEF IInv, TypeOK
<1>4. ShapeOK'
  BY <1>1, <1>2 DEF IInv, ShapeOK
<1> DEFINE working(v)  == [session |-> held[v].session, threads |-> ViewOfEach(held[v].dict)]
           working1(v) == [session |-> held'[v].session, threads |-> ViewOfEach(held'[v].dict)]
<1>5. /\ working1(w) = [session |-> s, threads |-> ViewOfEach(stored[s])]
      /\ \A v \in Workers : v # w => working1(v) = working(v)
  BY <1>2
<1>6. [v \in Workers |-> working1(v)] = [[v \in Workers |-> working(v)] EXCEPT ![w] =
                                           [session |-> s, threads |-> ViewOfEach(stored[s])]]
  <2> HIDE DEF working, working1
  <2>1. QED
    BY <1>5
<1>7. Mounted!Open(w, s)
  BY <1>1, <1>6 DEF Mounted!Open, Mounted!Serves
<1>8. QED
  BY <1>3, <1>4, <1>7 DEF IInv, Mounted!Next

\* The response puts the copy back, or nothing.
LEMMA CloseStep ==
  ASSUME IInv, NEW w \in Workers, Respond(w) \/ Fail(w)
  PROVE  IInv' /\ Mounted!Next
<1>1. /\ held' = [held EXCEPT ![w] = Idle] /\ UNCHANGED clock
      /\ held[w].session \in Sessions
      /\ stored' \in {stored, [stored EXCEPT ![held[w].session] = held[w].dict]}
  BY DEF Respond, Fail, Serves, IInv, TypeOK
<1>2. /\ held'[w] = Idle /\ \A v \in Workers : v # w => held'[v] = held[v]
      /\ held' = [v \in Workers |-> held'[v]]
  BY <1>1 DEF IInv, ShapeOK
<1>3. Dictionary(<<>>) /\ IsFiniteSet(DOMAIN <<>>) /\ ViewOfEach(<<>>) = Mounted!NoThreads
  BY EmptyDictionary
<1>4. \A s \in Sessions : Dictionary(stored'[s]) /\ IsFiniteSet(DOMAIN stored'[s])
  BY <1>1 DEF IInv, TypeOK, ShapeOK
<1>5. TypeOK'
  BY <1>1, <1>2, <1>3, <1>4 DEF IInv, TypeOK, Idle
<1>6. ShapeOK'
  BY <1>1, <1>2, <1>3, <1>4 DEF IInv, ShapeOK, Idle
<1> DEFINE working(v)  == [session |-> held[v].session, threads |-> ViewOfEach(held[v].dict)]
           working1(v) == [session |-> held'[v].session, threads |-> ViewOfEach(held'[v].dict)]
<1>7. /\ working1(w) = Mounted!Idle
      /\ \A v \in Workers : v # w => working1(v) = working(v)
  BY <1>2, <1>3 DEF Idle, Mounted!Idle
<1>8. [v \in Workers |-> working1(v)] = [[v \in Workers |-> working(v)] EXCEPT ![w] = Mounted!Idle]
  <2> HIDE DEF working, working1
  <2>1. QED
    BY <1>7
<1>9. [s \in Sessions |-> ViewOfEach(stored'[s])]
        \in {[s \in Sessions |-> ViewOfEach(stored[s])],
            [[s \in Sessions |-> ViewOfEach(stored[s])]
               EXCEPT ![held[w].session] = ViewOfEach(held[w].dict)]}
  BY <1>1 DEF IInv, ShapeOK
<1>10. Mounted!Close(w)
  <2>1. Serves(w)
    BY DEF Respond, Fail
  <2>2. QED
    BY <1>8, <1>9, <2>1 DEF Mounted!Close, Mounted!Serves, Serves
<1>11. QED
  BY <1>5, <1>6, <1>10 DEF IInv, Mounted!Next

\* A step that changes nothing keeps the invariant.
LEMMA Stutters == ASSUME IInv, UNCHANGED vars PROVE IInv' /\ UNCHANGED Mounted!vars
BY DEF IInv, TypeOK, ShapeOK, vars, Mounted!vars

\* Every step keeps the invariant and is a step of the mounts, or none.
LEMMA EveryStep == IInv /\ [Next]_vars => IInv' /\ [Mounted!Next]_(Mounted!vars)
<1> SUFFICES ASSUME IInv, [Next]_vars PROVE IInv' /\ [Mounted!Next]_(Mounted!vars)
  OBVIOUS
<1>1. ASSUME NEW w \in Workers, NEW s \in Sessions, Open(w, s) PROVE IInv' /\ Mounted!Next
  BY <1>1, OpenStep
<1>2. ASSUME NEW w \in Workers, NEW m \in Mounts, NEW t \in Threads, NEW c \in Contents,
             Save(w, m, t, c)
      PROVE  IInv' /\ Mounted!Next
  BY <1>2, SaveStep
<1>3. ASSUME NEW w \in Workers, NEW m \in Mounts, NEW t \in Threads, Delete(w, m, t)
      PROVE  IInv' /\ Mounted!Next
  BY <1>3, DeleteStep
<1>4. ASSUME NEW w \in Workers, NEW m \in Mounts, NEW t \in Threads, NEW title \in Titles,
             Rename(w, m, t, title)
      PROVE  IInv' /\ Mounted!Next
  BY <1>4, RenameStep
<1>5. ASSUME NEW w \in Workers, Respond(w) \/ Fail(w) PROVE IInv' /\ Mounted!Next
  BY <1>5, CloseStep
<1>6. CASE UNCHANGED vars
  BY <1>6, Stutters
<1>7. QED
  BY <1>1, <1>2, <1>3, <1>4, <1>5, <1>6 DEF Next

\* The invariant holds throughout.
LEMMA Invariance == Spec => []IInv
<1>1. IInv /\ [Next]_vars => IInv'
  BY EveryStep
<1>2. QED
  BY <1>1, Initial, PTL DEF Spec

-----------------------------------------------------------------------------
(* The properties                                                          *)

\* Every key is a mount's and every value an entry.
THEOREM DictionariesHold == Spec => []TypeOK
<1>1. IInv => TypeOK
  BY DEF IInv
<1>2. QED
  BY <1>1, Invariance, PTL

\* Mounts that share a dictionary have a store each.
THEOREM MountsAreApart == Spec => Partition
BY Initial, EveryStep, Invariance, PTL DEF Spec, Partition, Mounted!Spec

\* A limited list shows the newest of a mount's own threads.
THEOREM ListsAreNewest == Spec => []ListsTheNewest
<1>1. ASSUME IInv PROVE ListsTheNewest
  <2> SUFFICES ASSUME NEW w \in Workers, NEW m \in Mounts,
                      NEW limit \in 0..Cardinality(DOMAIN held[w].dict)
               PROVE  LET dict  == held[w].dict
                          shown == List(dict, m, limit)
                          own   == {t \in Threads : Has(dict, Key(m, t))}
                      IN  /\ shown \subseteq own
                          /\ \A t \in shown, u \in own \ shown :
                               dict[Key(m, u)].updatedAt < dict[Key(m, t)].updatedAt
                          /\ limit = Cardinality(DOMAIN dict) => shown = own
    BY DEF ListsTheNewest
  <2> DEFINE dict  == held[w].dict
             shown == List(dict, m, limit)
             own   == {t \in Threads : Has(dict, Key(m, t))}
             newer(k) == {j \in DOMAIN dict : dict[j].updatedAt > dict[k].updatedAt}
  <2>1. Dictionary(dict) /\ IsFiniteSet(DOMAIN dict)
    BY <1>1 DEF IInv, TypeOK, ShapeOK
  <2> HIDE DEF dict
  <2>0. limit \in Nat
    BY <2>1, FS_CardinalityType DEF dict
  <2>2. \A k \in DOMAIN dict : dict[k].updatedAt \in Int
    BY <2>1 DEF Dictionary, Entry
  <2>3. \A k \in DOMAIN dict :
          IsFiniteSet(newer(k)) /\ Cardinality(newer(k)) \in Nat /\ Rank(dict, k) = Cardinality(newer(k))
    BY <2>1, FS_Subset, FS_CardinalityType DEF Rank
  <2>4. \A t \in Threads :
          t \in shown <=> Key(m, t) \in DOMAIN dict /\ Rank(dict, Key(m, t)) < limit
    BY <2>1, PrefixOfKey DEF List, Listed, Dictionary, Keys
  <2>5. shown \subseteq own
    BY <2>1, <2>4, PrefixOfKey DEF List, Listed, Dictionary, Keys, Has
  <2>6. ASSUME NEW t \in shown, NEW u \in own \ shown
        PROVE  dict[Key(m, u)].updatedAt < dict[Key(m, t)].updatedAt
    <3>1. /\ Key(m, t) \in DOMAIN dict /\ Key(m, u) \in DOMAIN dict
          /\ Rank(dict, Key(m, t)) < limit /\ ~(Rank(dict, Key(m, u)) < limit)
      BY <2>4, <2>5 DEF Has
    <3>2. ASSUME ~(dict[Key(m, u)].updatedAt < dict[Key(m, t)].updatedAt) PROVE FALSE
      <4>1. newer(Key(m, u)) \subseteq newer(Key(m, t))
        BY <2>2, <3>1, <3>2
      <4>2. Cardinality(newer(Key(m, u))) <= Cardinality(newer(Key(m, t)))
        BY <2>3, <3>1, <4>1, FS_Subset
      <4>3. /\ Rank(dict, Key(m, t)) = Cardinality(newer(Key(m, t)))
            /\ Rank(dict, Key(m, u)) = Cardinality(newer(Key(m, u)))
            /\ Cardinality(newer(Key(m, t))) \in Nat /\ Cardinality(newer(Key(m, u))) \in Nat
        BY <2>3, <3>1
      <4> HIDE DEF newer
      <4>4. QED
        BY <2>0, <3>1, <4>2, <4>3
    <3>3. QED
      BY <3>2
  <2>7. ASSUME limit = Cardinality(DOMAIN dict) PROVE own \subseteq shown
    <3> SUFFICES ASSUME NEW t \in own PROVE Rank(dict, Key(m, t)) < limit
      BY <2>4 DEF Has
    <3> DEFINE k == Key(m, t)
    <3>1. k \in DOMAIN dict
      BY DEF Has
    <3>2. newer(k) \subseteq DOMAIN dict /\ k \notin newer(k)
      BY <2>2, <3>1
    <3>3. Cardinality(newer(k)) <= Cardinality(DOMAIN dict) /\ newer(k) # DOMAIN dict
      BY <2>1, <3>1, <3>2, FS_Subset
    <3>4. Cardinality(newer(k)) # Cardinality(DOMAIN dict)
      BY <2>1, <3>2, <3>3, FS_Subset
    <3>5. QED
      BY <2>1, <2>3, <2>7, <3>1, <3>3, <3>4, FS_CardinalityType
  <2>8. QED
    BY <2>5, <2>6, <2>7 DEF dict
<1>2. QED
  BY <1>1, Invariance, PTL
=============================================================================
