------------------------ MODULE StepStoreProperties ------------------------
(* What a resumed run may rely on.                                         *)
EXTENDS StepStore

\* The tables hold rows of the models, at most one for each unique constraint.
TypeOK ==
  /\ \A x \in DOMAIN storedRuns : x \in RunKeys /\ storedRuns[x] \in StoredRun
  /\ storedEvents \in Seq(StoredStepEvent)
  /\ storedSnapshots \in Seq(StoredSnapshot)
  /\ \A x \in DOMAIN storedEffects : x \in CallKeys /\ storedEffects[x] \in StoredToolEffect
  /\ worker \in [Workers -> [owner : Owners \cup {NoOwner}, run : RunIds \cup {None},
                             calls : [CallIds -> CallStates], resumed : Nat \cup {None}]]
  /\ starts \in 0..MaxStarts

\* Wherever a process dies, a call that may have acted on the world has a
\* record, one that is open or was cut short is listed as unresolved, and one
\* recorded as ended did run (models.py:249).
EffectsAreAccountedFor ==
  /\ \A c \in CallKeys : c \in landed => c \in DOMAIN storedEffects
  /\ \A c \in DOMAIN storedEffects : storedEffects[c].status # "started" => c \in landed
  /\ \A w \in Workers :
       Serves(w) /\ Persists(w) => Open(w) \subseteq Unresolved(Caller(w), worker[w].run)

\* A request that starts has read the boundary of the run it resumes.
Resumes(w) ==
  ~Serves(w) /\ Serves(w)' =>
    worker'[w].resumed =
      IF Persists(w)' THEN boundary[<<Caller(w)', worker'[w].run>>] ELSE None

\* A run continues from the last boundary its owner saved, however many
\* interrupted snapshots and other owners' runs of its id came after
\* (default_step_store.py:205).
ResumesAtTheBoundary == [][\A w \in Workers : Resumes(w)]_vars

\* An owner reads the events its own runs appended, each once, and a refused
\* anonymous request leaves none (default_step_store.py:34, :44).
EventsAreTheOwners ==
  \A x \in RunKeys : Cardinality(ListEvents(x[1], x[2])) = appended[x]

\* The last run listed is the one started last, a resumed one included
\* (default_step_store.py:78).
LastListedIsLatest ==
  \A o \in Owners : RunsOf(o) # {} => LastListed(o) = latest[o]
=============================================================================
