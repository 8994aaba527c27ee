---------------------------- MODULE OpenMPSearch ----------------------------
(***************************************************************************)
(* The multicore backend (backend_openmp.c): one parallel loop per object  *)
(* over its placements.  Threads take chunks of keys from the dynamic      *)
(* schedule, skip a key that an unlocked read of the shared minimum shows  *)
(* to be useless, and lower the minimum inside a critical section.         *)
(*                                                                         *)
(* The read is not ordered with the store in the critical section, so it   *)
(* may return any value the minimum has had in this loop.                  *)
(***************************************************************************)
EXTENDS SearchProblem

CONSTANTS
    Threads,    \* the team that runs a parallel loop
    Chunk,      \* MSEARCH_OMP_CHUNK
    NoThread    \* nobody is in the critical section

ASSUME TeamAssumption == Threads # {} /\ NoThread \notin Threads
ASSUME ChunkAssumption == Chunk \in Nat \ {0}

VARIABLES
    k,          \* index of the object being tried
    inRegion,   \* is the parallel loop of object k running?
    best,       \* the shared minimum
    held,       \* every value best has had in this loop
    next,       \* the first key the schedule has not handed out
    pc,         \* where each thread is in the loop
    key,        \* the iteration each thread is at
    last,       \* the end of its chunk
    owner,      \* the thread in the critical section
    out,        \* the Match to fill
    returned    \* "no", then the status

threadVars == <<pc, key, last>>
searchVars == <<m, hits, out, returned>>
vars == <<searchVars, k, inRegion, best, held, next, threadVars, owner>>

Init ==
    /\ ValidProblem
    /\ k = 0
    /\ inRegion = FALSE
    /\ best = NoPlacement
    /\ held = {NoPlacement}
    /\ next = 0
    /\ pc = [t \in Threads |-> "done"]
    /\ key = [t \in Threads |-> 0]
    /\ last = [t \in Threads |-> 0]
    /\ owner = NoThread
    /\ out = NoMatch
    /\ returned = "no"

-----------------------------------------------------------------------------
(* The calling thread: openmp_search *)

\* Defect: the object loop does not advance.
SameObject == k
NextObject == k + 1

Searching == returned = "no" /\ ~inRegion

SkipObject ==
    /\ Searching /\ k < K
    /\ Placements(k) = 0
    /\ k' = NextObject
    /\ UNCHANGED <<searchVars, inRegion, best, held, next, threadVars, owner>>

EnterRegion ==
    /\ Searching /\ k < K
    /\ Placements(k) > 0
    /\ inRegion' = TRUE
    /\ best' = NoPlacement
    /\ held' = {NoPlacement}
    /\ next' = 0
    /\ pc' = [t \in Threads |-> "fetch"]
    /\ UNCHANGED <<searchVars, k, key, last, owner>>

\* Defect: the caller goes on while threads still work.
SomeThreadDone == \E t \in Threads : pc[t] = "done"
TeamDone == \A t \in Threads : pc[t] = "done"

\* The barrier at the end of the loop, and what the caller makes of best.
LeaveRegion ==
    /\ inRegion
    /\ TeamDone
    /\ inRegion' = FALSE
    /\ \/ /\ best = NoPlacement
          /\ k' = NextObject
          /\ UNCHANGED <<out, returned>>
       \/ /\ best # NoPlacement
          /\ out' = Answer(k, best)
          /\ returned' = "OK"
          /\ UNCHANGED k
    /\ UNCHANGED <<m, hits, best, held, next, threadVars, owner>>

NothingFound ==
    /\ Searching
    /\ k = K
    /\ returned' = "OK"
    /\ UNCHANGED <<m, hits, out, k, inRegion, best, held, next, threadVars,
                   owner>>

-----------------------------------------------------------------------------
(* A thread of the team: lowest_matching_placement *)

Goto(t, label) == pc' = [pc EXCEPT ![t] = label] /\ UNCHANGED <<key, last>>

\* The thread is through with its key and turns to the next of its chunk.
NextKey(t) ==
    \/ /\ key[t] < last[t]
       /\ key' = [key EXCEPT ![t] = @ + 1]
       /\ pc' = [pc EXCEPT ![t] = "read"]
       /\ UNCHANGED last
    \/ /\ key[t] >= last[t]
       /\ Goto(t, "fetch")

LastKey == Placements(k) - 1

\* The end of the chunk that starts at "next".
ChunkEnd == IF next + Chunk - 1 < LastKey THEN next + Chunk - 1 ELSE LastKey

FetchChunk(t) ==
    /\ inRegion
    /\ pc[t] = "fetch"
    /\ \/ /\ next <= LastKey
          /\ key' = [key EXCEPT ![t] = next]
          /\ last' = [last EXCEPT ![t] = ChunkEnd]
          /\ next' = ChunkEnd + 1
          /\ pc' = [pc EXCEPT ![t] = "read"]
       \/ /\ next > LastKey
          /\ Goto(t, "done")
          /\ UNCHANGED next
    /\ UNCHANGED <<searchVars, k, inRegion, best, held, owner>>

Useless(t, snapshot) == key[t] >= snapshot

\* snapshot = best, unlocked; "continue" if the key cannot lower it.
ReadBest(t) ==
    /\ inRegion
    /\ pc[t] = "read"
    /\ \E snapshot \in held :
           \/ Useless(t, snapshot) /\ NextKey(t)
           \/ ~Useless(t, snapshot) /\ Goto(t, "score")
    /\ UNCHANGED <<searchVars, k, inRegion, best, held, next, owner>>

Score(t) ==
    /\ inRegion
    /\ pc[t] = "score"
    /\ \/ IsHit(k, key[t]) /\ Goto(t, "lock")
       \/ ~IsHit(k, key[t]) /\ NextKey(t)
    /\ UNCHANGED <<searchVars, k, inRegion, best, held, next, owner>>

\* Defect: compare and store are not protected.
NoCritical == TRUE
CriticalFree == owner = NoThread

EnterCritical(t) ==
    /\ inRegion
    /\ pc[t] = "lock"
    /\ CriticalFree
    /\ owner' = t
    /\ Goto(t, "compare")
    /\ UNCHANGED <<searchVars, k, inRegion, best, held, next>>

Lower(t) == key[t] < best

Compare(t) ==
    /\ inRegion
    /\ pc[t] = "compare"
    /\ \/ Lower(t) /\ Goto(t, "store") /\ UNCHANGED owner
       \/ ~Lower(t) /\ NextKey(t) /\ owner' = NoThread
    /\ UNCHANGED <<searchVars, k, inRegion, best, held, next>>

Store(t) ==
    /\ inRegion
    /\ pc[t] = "store"
    /\ best' = key[t]
    /\ held' = held \cup {key[t]}
    /\ owner' = NoThread
    /\ NextKey(t)
    /\ UNCHANGED <<searchVars, k, inRegion, next>>

-----------------------------------------------------------------------------
ThreadStep(t) ==
    \/ FetchChunk(t)
    \/ ReadBest(t)
    \/ Score(t)
    \/ EnterCritical(t)
    \/ Compare(t)
    \/ Store(t)

CallerStep == SkipObject \/ EnterRegion \/ LeaveRegion \/ NothingFound

Returned == returned # "no" /\ UNCHANGED vars

Next == CallerStep \/ (\E t \in Threads : ThreadStep(t)) \/ Returned

Spec == Init /\ [][Next]_vars

\* Threads are scheduled, and the critical section is entered again and
\* again, at most once per matching placement: weak fairness suffices, since
\* a thread at the lock waits for a section that others enter finitely often.
FairSpec ==
    /\ Spec
    /\ WF_vars(CallerStep)
    /\ \A t \in Threads : WF_vars(ThreadStep(t))

-----------------------------------------------------------------------------
(* Properties *)

Labels == {"fetch", "read", "score", "lock", "compare", "store", "done"}

\* Every variable has its type; the keys of a thread are placements of the
\* object whose loop is running.
TypeOK ==
    /\ ValidProblem
    /\ k \in 0 .. K
    /\ inRegion \in BOOLEAN
    /\ inRegion => k < K /\ Placements(k) > 0
    /\ best \in Int
    /\ held \subseteq Int
    /\ next \in Nat
    /\ pc \in [Threads -> Labels]
    /\ key \in [Threads -> Nat]
    /\ last \in [Threads -> Nat]
    /\ \A t \in Threads :
           inRegion /\ pc[t] \notin {"fetch", "done"} =>
               key[t] <= last[t] /\ last[t] < Placements(k)
    /\ owner \in Threads \cup {NoThread}
    /\ returned \in {"no", "OK"}

\* Thread t is still to try key h of its chunk.
WillTry(t, h) ==
    \/ pc[t] \in {"read", "score", "lock", "compare", "store"} /\ h = key[t]
    \/ pc[t] \notin {"fetch", "done"} /\ key[t] < h /\ h <= last[t]

\* While a loop runs, no matching placement is forgotten: it is not handed out
\* yet, or a thread is still to try it, or it is no better than the minimum.
NoHitDropped ==
    inRegion =>
        \A h \in HitKeys(k) :
            \/ next <= h
            \/ \E t \in Threads : WillTry(t, h)
            \/ best <= h

\* The minimum that a reader may act on is the key of a match, and never below
\* the least matching key: a stale read skips only what is useless anyway.
HeldValuesAreHits ==
    inRegion =>
        /\ best \in held
        /\ \A b \in held : best <= b /\ (b = NoPlacement \/ b \in HitKeys(k))

\* Within a loop the shared minimum only falls.
BestOnlyFalls == [][inRegion /\ inRegion' => best' <= best]_vars

\* A thread past the scoring of its key has a match in hand; one inside the
\* critical section owns it, and decided to store on the current minimum.
Locking ==
    \A t \in Threads :
        /\ pc[t] \in {"lock", "compare", "store"} => key[t] \in HitKeys(k)
        /\ pc[t] \in {"compare", "store"} => owner = t
        /\ pc[t] = "store" => key[t] < best

\* The caller and the team: no thread works outside a loop, a thread is done
\* only when all keys were handed out, objects already tried do not occur.
Progress ==
    /\ ~inRegion => \A t \in Threads : pc[t] = "done"
    /\ inRegion => \A t \in Threads : pc[t] = "done" => next > LastKey
    /\ \A j \in Objects : j < k => hits[j] = {}
    /\ returned = "no" => out = NoMatch
    /\ inRegion => returned = "no"

\* Inductive: what each step relies on.
IInv == TypeOK /\ NoHitDropped /\ HeldValuesAreHits /\ Locking /\ Progress

\* Whatever the schedule, the team answers what the reference scan answers.
Contract == INSTANCE CanonicalSearch WITH MayFail <- FALSE

ContractSpec == Contract!Spec

\* Every search ends, for every schedule that is fair to the threads.
Termination == <>(returned = "OK")

=============================================================================
