--------------------------- MODULE MountedThreads ---------------------------
(***************************************************************************)
(* What two endpoints sharing one session store may expect: each has the   *)
(* threads of each browser session to itself.  A request works on a copy   *)
(* of its session and a response puts the copy back as a whole.            *)
(***************************************************************************)
CONSTANTS
  Workers, Sessions, Mounts, Threads,
  Entries,  \* what a thread may hold
  None

VARIABLES
  kept,     \* kept[s][m][t]: the threads of a session as last written back
  working   \* working[w]: the session a request serves, if any, and its copy

vars == <<kept, working>>

NoThreads == [m \in Mounts |-> [t \in Threads |-> None]]

Idle == [session |-> None, threads |-> NoThreads]

Serves(w) == working[w].session # None

Init ==
  /\ kept = [s \in Sessions |-> NoThreads]
  /\ working = [w \in Workers |-> Idle]

Open(w, s) ==
  /\ ~Serves(w)
  /\ working' = [working EXCEPT ![w] = [session |-> s, threads |-> kept[s]]]
  /\ UNCHANGED kept

\* One thread of one mount is saved, renamed or deleted.
Put(w, m, t) ==
  /\ Serves(w)
  /\ \E e \in Entries \cup {None} :
       working' = [working EXCEPT ![w].threads[m][t] = e]
  /\ UNCHANGED kept

Close(w) ==
  /\ Serves(w)
  /\ kept' \in {kept, [kept EXCEPT ![working[w].session] = working[w].threads]}
  /\ working' = [working EXCEPT ![w] = Idle]

Next ==
  \E w \in Workers :
    \/ \E s \in Sessions : Open(w, s)
    \/ \E m \in Mounts, t \in Threads : Put(w, m, t)
    \/ Close(w)

Spec == Init /\ [][Next]_vars
=============================================================================
