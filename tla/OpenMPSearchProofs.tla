------------------------- MODULE OpenMPSearchProofs -------------------------
(***************************************************************************)
(* Proofs about the OpenMP backend, for every team, chunk size, picture    *)
(* and set of objects.                                                     *)
(***************************************************************************)
EXTENDS OpenMPSearch, SearchProblemProofs

-----------------------------------------------------------------------------
(* Facts about keys *)

\* A step that leaves the problem and the object alone keeps what is derived
\* from them.
LEMMA SameObjectFrame ==
    ASSUME UNCHANGED <<m, hits, k>>
    PROVE  /\ ValidProblem' = ValidProblem
           /\ Placements(k)' = Placements(k)
           /\ HitKeys(k)' = HitKeys(k)
           /\ LastKey' = LastKey
BY DEF ValidProblem, Cells, Placements, HitKeys, IsHit, Cell, Span, LastKey

\* What NextKey does to the thread that calls it.
LEMMA NextKeyEffect ==
    ASSUME TypeOK, NEW t \in Threads, NextKey(t)
    PROVE  /\ last' = last
           /\ pc' = [pc EXCEPT ![t] = pc'[t]]
           /\ key' = [key EXCEPT ![t] = key'[t]]
           /\ \/ pc'[t] = "read" /\ key'[t] = key[t] + 1 /\ key'[t] <= last[t]
              \/ pc'[t] = "fetch" /\ key'[t] = key[t] /\ key[t] >= last[t]
<1>1. key \in [Threads -> Nat] /\ last \in [Threads -> Nat] /\ pc \in [Threads -> Labels]
    BY DEF TypeOK
<1> QED
    BY <1>1 DEF NextKey, Goto

\* What Goto does to it.
LEMMA GotoEffect ==
    ASSUME TypeOK, NEW t \in Threads, NEW label, Goto(t, label)
    PROVE  /\ last' = last
           /\ key' = key
           /\ pc'[t] = label
           /\ pc' = [pc EXCEPT ![t] = label]
BY DEF TypeOK, Goto

\* Turning to the next key drops only the key itself.
LEMMA NextKeyDropsOneKey ==
    ASSUME TypeOK, NEW t \in Threads, NextKey(t),
           NEW u \in Threads, NEW h \in Nat, WillTry(u, h), u # t \/ h # key[t]
    PROVE  WillTry(u, h)'
<1> USE NextKeyEffect DEF WillTry
<1>1. key \in [Threads -> Nat] /\ last \in [Threads -> Nat] /\ pc \in [Threads -> Labels]
    BY DEF TypeOK
<1>2. CASE u # t
    BY <1>1, <1>2
<1>3. CASE u = t
    BY <1>1, <1>3
<1> QED
    BY <1>2, <1>3

\* Moving on with a key drops none.
LEMMA GotoDropsNoKey ==
    ASSUME TypeOK, NEW t \in Threads, NEW label,
           pc[t] \notin {"fetch", "done"}, label \in Labels \ {"fetch", "done"},
           Goto(t, label),
           NEW u \in Threads, NEW h \in Nat, WillTry(u, h)
    PROVE  WillTry(u, h)'
BY GotoEffect DEF WillTry, TypeOK, Labels

-----------------------------------------------------------------------------
(* The invariant holds initially *)

LEMMA InitInvariant == Init => IInv
<1> SUFFICES ASSUME Init PROVE IInv
    OBVIOUS
<1> USE DEF Init
<1>1. K \in Nat /\ 0 \in 0 .. K
    BY ObjectsAssumption
<1>2. TypeOK
    <2>1. /\ pc \in [Threads -> Labels] /\ key \in [Threads -> Nat]
          /\ last \in [Threads -> Nat]
        BY DEF Labels
    <2>2. /\ best \in Int /\ held \subseteq Int /\ next \in Nat
          /\ k \in 0 .. K
        BY <1>1 DEF NoPlacement
    <2>3. inRegion \in BOOLEAN /\ ~inRegion
        BY Zenon
    <2> QED
        BY <2>1, <2>2, <2>3 DEF TypeOK
<1>3. Locking /\ Progress
    BY <1>1 DEF Locking, Progress, Objects
<1> QED
    BY <1>2, <1>3 DEF IInv, NoHitDropped, HeldValuesAreHits

-----------------------------------------------------------------------------
(* The steps of a thread *)

LEMMA FetchChunkInvariant ==
    ASSUME IInv, NEW t \in Threads, FetchChunk(t)
    PROVE  IInv'
<1> USE DEF IInv
<1>1. /\ UNCHANGED <<m, hits, k, out, returned, inRegion, best, held, owner>>
      /\ inRegion /\ pc[t] = "fetch"
    BY DEF FetchChunk, searchVars
<1>2. /\ pc \in [Threads -> Labels] /\ key \in [Threads -> Nat]
      /\ last \in [Threads -> Nat] /\ next \in Nat
      /\ ValidProblem /\ k \in Objects /\ Placements(k) > 0 /\ Chunk \in Nat \ {0}
    BY <1>1, ObjectsAssumption, ChunkAssumption DEF TypeOK, Objects
<1>3. Placements(k) \in Nat /\ \A h \in HitKeys(k) : h \in Nat /\ h < Placements(k)
    BY <1>2, KeyTypes
<1>4. /\ ValidProblem' /\ Placements(k)' = Placements(k)
      /\ HitKeys(k)' = HitKeys(k) /\ LastKey' = LastKey
    BY <1>1, <1>2, SameObjectFrame
<1>5. \/ /\ next <= LastKey
         /\ key' = [key EXCEPT ![t] = next]
         /\ last' = [last EXCEPT ![t] = ChunkEnd]
         /\ next' = ChunkEnd + 1
         /\ pc' = [pc EXCEPT ![t] = "read"]
      \/ /\ next > LastKey
         /\ pc' = [pc EXCEPT ![t] = "done"]
         /\ UNCHANGED <<key, last, next>>
    BY DEF FetchChunk, Goto
<1>6. /\ LastKey \in Int /\ LastKey = Placements(k) - 1
      /\ next <= LastKey => ChunkEnd \in Nat /\ next <= ChunkEnd /\ ChunkEnd <= LastKey
    BY <1>2, <1>3 DEF LastKey, ChunkEnd
<1> HIDE DEF IInv
<1>7. TypeOK'
    <2>1. TypeOK
        BY DEF IInv
    <2>2. next' \in Nat /\ pc' \in [Threads -> Labels] /\ key' \in [Threads -> Nat]
          /\ last' \in [Threads -> Nat]
        BY <1>2, <1>5, <1>6 DEF Labels
    <2>3. ASSUME NEW u \in Threads, pc'[u] \notin {"fetch", "done"}
          PROVE  key'[u] <= last'[u] /\ last'[u] < Placements(k)
        <3>1. CASE u = t
            BY <1>2, <1>3, <1>5, <1>6, <2>3, <3>1
        <3>2. CASE u # t
            BY <1>1, <1>2, <1>5, <2>1, <2>3, <3>2 DEF TypeOK
        <3> QED
            BY <3>1, <3>2
    <2> QED
        BY <1>1, <1>4, <2>1, <2>2, <2>3 DEF TypeOK
<1>8. NoHitDropped'
    <2> SUFFICES ASSUME NEW h \in HitKeys(k)
                 PROVE  \/ next' <= h
                        \/ \E u \in Threads : WillTry(u, h)'
                        \/ best <= h
        BY <1>1, <1>4 DEF NoHitDropped
    <2>1. \/ next <= h
          \/ \E u \in Threads : WillTry(u, h)
          \/ best <= h
        BY <1>1 DEF IInv, NoHitDropped
    <2>2. ASSUME NEW u \in Threads, WillTry(u, h) PROVE WillTry(u, h)'
        <3>1. u # t
            BY <1>1, <2>2 DEF WillTry
        <3> QED
            BY <1>2, <1>5, <2>2, <3>1 DEF WillTry
    <2>3. ASSUME next <= h PROVE next' <= h \/ WillTry(t, h)'
        <3>1. next <= LastKey
            BY <1>2, <1>3, <1>6, <2>3
        <3>2. pc'[t] = "read" /\ key'[t] = next /\ last'[t] = ChunkEnd /\ next' = ChunkEnd + 1
            BY <1>2, <1>5, <1>6, <3>1
        <3> QED
            BY <1>2, <1>3, <1>6, <2>3, <3>1, <3>2 DEF WillTry
    <2> QED
        BY <2>1, <2>2, <2>3
<1>9. HeldValuesAreHits'
    BY <1>1, <1>4 DEF IInv, HeldValuesAreHits
<1>10. Locking'
    <2> SUFFICES ASSUME NEW u \in Threads
                 PROVE  /\ pc'[u] \in {"lock", "compare", "store"} => key'[u] \in HitKeys(k)
                        /\ pc'[u] \in {"compare", "store"} => owner = u
                        /\ pc'[u] = "store" => key'[u] < best
        BY <1>1, <1>4 DEF Locking
    <2>1. CASE u = t
        BY <1>2, <1>5, <2>1
    <2>2. CASE u # t
        BY <1>2, <1>5, <2>2 DEF IInv, Locking
    <2> QED
        BY <2>1, <2>2
<1>11. Progress'
    <2>1. \A u \in Threads : pc'[u] = "done" => next' > LastKey
        <3> SUFFICES ASSUME NEW u \in Threads, pc'[u] = "done" PROVE next' > LastKey
            OBVIOUS
        <3>1. next > LastKey
            BY <1>1, <1>2, <1>5 DEF IInv, Progress
        <3> QED
            BY <1>2, <1>5, <1>6, <3>1
    <2> QED
        BY <1>1, <1>4, <2>1 DEF IInv, Progress
<1> QED
    BY <1>7, <1>8, <1>9, <1>10, <1>11 DEF IInv

\* The steps of a thread within its chunk: it keeps its key or turns to the
\* next, and leaves the problem, the object and the schedule alone.
ChunkStep(t) ==
    /\ inRegion
    /\ pc[t] \notin {"fetch", "done"}
    /\ NextKey(t) \/ \E label \in Labels \ {"fetch", "done"} : Goto(t, label)
    /\ UNCHANGED <<m, hits, k, out, returned, inRegion, next>>

LEMMA ChunkStepFrame ==
    ASSUME IInv, NEW t \in Threads, ChunkStep(t)
    PROVE  /\ pc' \in [Threads -> Labels] /\ key' \in [Threads -> Nat]
           /\ last' \in [Threads -> Nat]
           /\ \A u \in Threads :
                  pc'[u] \notin {"fetch", "done"} =>
                      key'[u] <= last'[u] /\ last'[u] < Placements(k)
           /\ \A u \in Threads \ {t} : pc'[u] = pc[u] /\ key'[u] = key[u]
           /\ Progress'
<1> USE DEF ChunkStep
<1>1. /\ TypeOK /\ Progress
      /\ pc \in [Threads -> Labels] /\ key \in [Threads -> Nat]
      /\ last \in [Threads -> Nat]
    BY DEF IInv, TypeOK
<1>2. \A u \in Threads :
          pc[u] \notin {"fetch", "done"} => key[u] <= last[u] /\ last[u] < Placements(k)
    BY <1>1 DEF TypeOK
<1>3. /\ last' = last
      /\ pc' = [pc EXCEPT ![t] = pc'[t]]
      /\ key' = [key EXCEPT ![t] = key'[t]]
      /\ \/ pc'[t] = "read" /\ key'[t] = key[t] + 1 /\ key'[t] <= last[t]
         \/ pc'[t] = "fetch" /\ key'[t] = key[t]
         \/ pc'[t] \in Labels \ {"fetch", "done"} /\ key'[t] = key[t]
    <2>1. CASE NextKey(t)
        BY <1>1, <2>1, NextKeyEffect
    <2>2. CASE \E label \in Labels \ {"fetch", "done"} : Goto(t, label)
        BY <1>1, <2>2, GotoEffect
    <2> QED
        BY <2>1, <2>2
<1>4. pc'[t] \in Labels \ {"done"} /\ key'[t] \in Nat
    BY <1>1, <1>3 DEF Labels
<1>5. pc' \in [Threads -> Labels] /\ key' \in [Threads -> Nat] /\ last' \in [Threads -> Nat]
    BY <1>1, <1>3, <1>4
<1>6. \A u \in Threads \ {t} : pc'[u] = pc[u] /\ key'[u] = key[u]
    BY <1>1, <1>3
<1>7. ASSUME NEW u \in Threads, pc'[u] \notin {"fetch", "done"}
      PROVE  key'[u] <= last'[u] /\ last'[u] < Placements(k)
    <2>1. CASE u = t
        BY <1>1, <1>2, <1>3, <1>7, <2>1
    <2>2. CASE u # t
        BY <1>2, <1>3, <1>6, <1>7, <2>2
    <2> QED
        BY <2>1, <2>2
<1>8. Progress'
    <2>1. LastKey' = LastKey
        BY SameObjectFrame
    <2>2. \A u \in Threads : pc'[u] = "done" => pc[u] = "done"
        BY <1>4, <1>6
    <2> QED
        BY <1>1, <2>1, <2>2 DEF Progress
<1> QED
    BY <1>5, <1>6, <1>7, <1>8

\* Such a step keeps types, and what it says of the locks, if the thread itself
\* does so.
LEMMA ChunkStepInvariant ==
    ASSUME IInv, NEW t \in Threads, ChunkStep(t),
           best' \in Int, held' \subseteq Int, owner' \in Threads \cup {NoThread},
           \A h \in HitKeys(k) :
               \/ best' <= h
               \/ next > h /\ best > h /\ (NextKey(t) => h # key[t])
               \/ next <= h,
           HeldValuesAreHits',
           \A u \in Threads \ {t} :
               /\ pc[u] \in {"compare", "store"} => owner' = u
               /\ pc[u] = "store" => key[u] < best',
           /\ pc'[t] \in {"lock", "compare", "store"} => key'[t] \in HitKeys(k)
           /\ pc'[t] \in {"compare", "store"} => owner' = t
           /\ pc'[t] = "store" => key'[t] < best'
    PROVE  IInv'
<1>1. TypeOK /\ NoHitDropped /\ Locking /\ inRegion
    BY DEF IInv, ChunkStep
<1>2. /\ ValidProblem' = ValidProblem /\ Placements(k)' = Placements(k)
      /\ HitKeys(k)' = HitKeys(k)
      /\ UNCHANGED <<k, inRegion, next, returned>>
    BY SameObjectFrame DEF ChunkStep
<1>3. TypeOK'
    BY <1>1, <1>2, ChunkStepFrame DEF TypeOK
<1>4. NoHitDropped'
    <2> SUFFICES ASSUME NEW h \in HitKeys(k)
                 PROVE  next <= h \/ (\E u \in Threads : WillTry(u, h)') \/ best' <= h
        BY <1>1, <1>2 DEF NoHitDropped
    <2>1. CASE next > h /\ best > h /\ (NextKey(t) => h # key[t])
        <3>1. h \in Nat /\ next \in Nat /\ best \in Int
            BY <1>1, KeyTypes, ObjectsAssumption DEF TypeOK, Objects
        <3>2. PICK u \in Threads : WillTry(u, h)
            BY <1>1, <2>1, <3>1 DEF NoHitDropped
        <3>3. CASE NextKey(t)
            BY <1>1, <2>1, <3>1, <3>2, <3>3, NextKeyDropsOneKey
        <3>4. CASE \E label \in Labels \ {"fetch", "done"} : Goto(t, label)
            BY <1>1, <3>1, <3>2, <3>4, GotoDropsNoKey DEF ChunkStep
        <3> QED
            BY <3>3, <3>4 DEF ChunkStep
    <2> QED
        BY <2>1
<1>5. Locking'
    <2> SUFFICES ASSUME NEW u \in Threads
                 PROVE  /\ pc'[u] \in {"lock", "compare", "store"} => key'[u] \in HitKeys(k)
                        /\ pc'[u] \in {"compare", "store"} => owner' = u
                        /\ pc'[u] = "store" => key'[u] < best'
        BY <1>2 DEF Locking
    <2>1. CASE u = t
        BY <2>1
    <2>2. CASE u # t
        BY <1>1, <2>2, ChunkStepFrame DEF Locking
    <2> QED
        BY <2>1, <2>2
<1> QED
    BY <1>3, <1>4, <1>5, ChunkStepFrame DEF IInv

LEMMA ReadBestInvariant ==
    ASSUME IInv, NEW t \in Threads, ReadBest(t)
    PROVE  IInv'
<1>1. /\ TypeOK /\ HeldValuesAreHits /\ Locking /\ inRegion
      /\ k \in Objects /\ best \in Int /\ key[t] \in Nat /\ next \in Nat
    BY ObjectsAssumption DEF IInv, TypeOK, Objects, ReadBest
<1>2. \A h \in HitKeys(k) : h \in Nat /\ h < NoPlacement
    BY <1>1, KeyTypes DEF TypeOK
<1>3. HitKeys(k)' = HitKeys(k)
    BY SameObjectFrame DEF ReadBest, searchVars
<1>4. UNCHANGED <<k, inRegion, best, held, owner>> /\ pc[t] = "read"
    BY DEF ReadBest
<1>5. PICK snapshot \in held :
          \/ Useless(t, snapshot) /\ NextKey(t)
          \/ ~Useless(t, snapshot) /\ Goto(t, "score")
    BY DEF ReadBest
<1>6. best <= snapshot /\ snapshot \in Int
    BY <1>1, <1>5 DEF HeldValuesAreHits, TypeOK
<1>7. ChunkStep(t)
    BY <1>1, <1>4, <1>5 DEF ChunkStep, ReadBest, searchVars, Labels
<1>8. pc'[t] \in {"read", "fetch", "score"} /\ (NextKey(t) => best <= key[t])
    <2>1. CASE Useless(t, snapshot) /\ NextKey(t)
        BY <1>1, <1>6, <2>1, NextKeyEffect DEF Useless
    <2>2. CASE Goto(t, "score")
        BY <1>1, <2>2, NextKeyEffect, GotoEffect
    <2> QED
        BY <1>5, <2>1, <2>2
<1>9. HeldValuesAreHits'
    BY <1>1, <1>3, <1>4 DEF HeldValuesAreHits
<1>10. \A h \in HitKeys(k) :
          \/ best' <= h
          \/ next > h /\ best > h /\ (NextKey(t) => h # key[t])
          \/ next <= h
    BY <1>1, <1>2, <1>4, <1>8
<1>11. /\ best' \in Int /\ held' \subseteq Int /\ owner' \in Threads \cup {NoThread}
      /\ \A u \in Threads \ {t} :
             /\ pc[u] \in {"compare", "store"} => owner' = u
             /\ pc[u] = "store" => key[u] < best'
    BY <1>1, <1>4 DEF TypeOK, Locking
<1> QED
    BY <1>7, <1>8, <1>9, <1>10, <1>11, ChunkStepInvariant

LEMMA ScoreInvariant ==
    ASSUME IInv, NEW t \in Threads, Score(t)
    PROVE  IInv'
<1>1. /\ TypeOK /\ HeldValuesAreHits /\ Locking /\ inRegion
      /\ k \in Objects /\ best \in Int /\ key[t] \in Nat /\ next \in Nat
    BY ObjectsAssumption DEF IInv, TypeOK, Objects, Score
<1>2. \A h \in HitKeys(k) : h \in Nat /\ h < NoPlacement
    BY <1>1, KeyTypes DEF TypeOK
<1>3. HitKeys(k)' = HitKeys(k)
    BY SameObjectFrame DEF Score, searchVars
<1>4. UNCHANGED <<k, inRegion, best, held, owner>> /\ pc[t] = "score"
    BY DEF Score
<1>5. \/ IsHit(k, key[t]) /\ Goto(t, "lock")
      \/ ~IsHit(k, key[t]) /\ NextKey(t)
    BY DEF Score
<1>6. ChunkStep(t)
    BY <1>1, <1>4, <1>5 DEF ChunkStep, Score, searchVars, Labels
<1>7. key[t] \in 0 .. Placements(k) - 1
    BY <1>1, <1>4, KeyTypes DEF TypeOK
<1>8. \/ pc'[t] = "lock" /\ key'[t] = key[t] /\ key[t] \in HitKeys(k) /\ ~NextKey(t)
      \/ pc'[t] \in {"read", "fetch"} /\ key[t] \notin HitKeys(k)
    <2>1. CASE IsHit(k, key[t]) /\ Goto(t, "lock")
        BY <1>1, <1>7, <2>1, NextKeyEffect, GotoEffect DEF HitKeys
    <2>2. CASE ~IsHit(k, key[t]) /\ NextKey(t)
        BY <1>1, <2>2, NextKeyEffect DEF HitKeys
    <2> QED
        BY <1>5, <2>1, <2>2
<1>9. HeldValuesAreHits'
    BY <1>1, <1>3, <1>4 DEF HeldValuesAreHits
<1>10. \A h \in HitKeys(k) :
          \/ best' <= h
          \/ next > h /\ best > h /\ (NextKey(t) => h # key[t])
          \/ next <= h
    BY <1>1, <1>2, <1>4, <1>8
<1>11. /\ best' \in Int /\ held' \subseteq Int /\ owner' \in Threads \cup {NoThread}
      /\ \A u \in Threads \ {t} :
             /\ pc[u] \in {"compare", "store"} => owner' = u
             /\ pc[u] = "store" => key[u] < best'
    BY <1>1, <1>4 DEF TypeOK, Locking
<1> QED
    BY <1>6, <1>8, <1>9, <1>10, <1>11, ChunkStepInvariant

LEMMA EnterCriticalInvariant ==
    ASSUME IInv, NEW t \in Threads, EnterCritical(t)
    PROVE  IInv'
<1>1. /\ TypeOK /\ HeldValuesAreHits /\ Locking /\ inRegion
      /\ k \in Objects /\ best \in Int /\ key[t] \in Nat /\ next \in Nat
    BY ObjectsAssumption DEF IInv, TypeOK, Objects, EnterCritical
<1>2. \A h \in HitKeys(k) : h \in Nat /\ h < NoPlacement
    BY <1>1, KeyTypes DEF TypeOK
<1>3. HitKeys(k)' = HitKeys(k)
    BY SameObjectFrame DEF EnterCritical, searchVars
<1>4. /\ UNCHANGED <<k, inRegion, best, held>> /\ pc[t] = "lock"
      /\ owner = NoThread /\ owner' = t /\ Goto(t, "compare")
    BY DEF EnterCritical, CriticalFree
<1>5. ChunkStep(t)
    BY <1>1, <1>4 DEF ChunkStep, EnterCritical, searchVars, Labels
<1>6. pc'[t] = "compare" /\ key'[t] = key[t] /\ ~NextKey(t) /\ key[t] \in HitKeys(k)
    BY <1>1, <1>4, NextKeyEffect, GotoEffect DEF Locking
<1>7. HeldValuesAreHits'
    BY <1>1, <1>3, <1>4 DEF HeldValuesAreHits
<1>8. \A h \in HitKeys(k) :
          \/ best' <= h
          \/ next > h /\ best > h /\ (NextKey(t) => h # key[t])
          \/ next <= h
    BY <1>1, <1>2, <1>4, <1>6
<1>9. \A u \in Threads \ {t} : pc[u] \notin {"compare", "store"}
    BY <1>1, <1>4, TeamAssumption DEF Locking
<1>10. best' \in Int /\ held' \subseteq Int /\ owner' \in Threads \cup {NoThread}
    BY <1>1, <1>4 DEF TypeOK
<1> QED
    BY <1>4, <1>5, <1>6, <1>7, <1>8, <1>9, <1>10, ChunkStepInvariant

LEMMA CompareInvariant ==
    ASSUME IInv, NEW t \in Threads, Compare(t)
    PROVE  IInv'
<1>1. /\ TypeOK /\ HeldValuesAreHits /\ Locking /\ inRegion
      /\ k \in Objects /\ best \in Int /\ key[t] \in Nat /\ next \in Nat
    BY ObjectsAssumption DEF IInv, TypeOK, Objects, Compare
<1>2. \A h \in HitKeys(k) : h \in Nat /\ h < NoPlacement
    BY <1>1, KeyTypes DEF TypeOK
<1>3. HitKeys(k)' = HitKeys(k)
    BY SameObjectFrame DEF Compare, searchVars
<1>4. /\ UNCHANGED <<k, inRegion, best, held>> /\ pc[t] = "compare"
      /\ owner = t /\ key[t] \in HitKeys(k)
    BY <1>1 DEF Compare, Locking
<1>5. \/ key[t] < best /\ Goto(t, "store") /\ owner' = owner
      \/ ~(key[t] < best) /\ NextKey(t) /\ owner' = NoThread
    BY DEF Compare, Lower
<1>6. ChunkStep(t)
    BY <1>1, <1>4, <1>5 DEF ChunkStep, Compare, searchVars, Labels
<1>7. \/ /\ pc'[t] = "store" /\ key'[t] = key[t] /\ ~NextKey(t)
         /\ key[t] < best /\ owner' = t
      \/ pc'[t] \in {"read", "fetch"} /\ best <= key[t] /\ owner' = NoThread
    <2>1. CASE key[t] < best /\ Goto(t, "store") /\ owner' = owner
        BY <1>1, <1>4, <2>1, NextKeyEffect, GotoEffect
    <2>2. CASE ~(key[t] < best) /\ NextKey(t) /\ owner' = NoThread
        BY <1>1, <2>2, NextKeyEffect
    <2> QED
        BY <1>5, <2>1, <2>2
<1>8. HeldValuesAreHits'
    BY <1>1, <1>3, <1>4 DEF HeldValuesAreHits
<1>9. \A h \in HitKeys(k) :
          \/ best' <= h
          \/ next > h /\ best > h /\ (NextKey(t) => h # key[t])
          \/ next <= h
    BY <1>1, <1>2, <1>4, <1>7
<1>10. \A u \in Threads \ {t} : pc[u] \notin {"compare", "store"}
    BY <1>1, <1>4 DEF Locking
<1>11. best' \in Int /\ held' \subseteq Int /\ owner' \in Threads \cup {NoThread}
    BY <1>1, <1>4, <1>7 DEF TypeOK
<1> QED
    BY <1>4, <1>6, <1>7, <1>8, <1>9, <1>10, <1>11, ChunkStepInvariant

LEMMA StoreInvariant ==
    ASSUME IInv, NEW t \in Threads, Store(t)
    PROVE  IInv'
<1>1. /\ TypeOK /\ HeldValuesAreHits /\ Locking /\ inRegion
      /\ k \in Objects /\ best \in Int /\ key[t] \in Nat /\ next \in Nat
    BY ObjectsAssumption DEF IInv, TypeOK, Objects, Store
<1>2. \A h \in HitKeys(k) : h \in Nat /\ h < NoPlacement
    BY <1>1, KeyTypes DEF TypeOK
<1>3. HitKeys(k)' = HitKeys(k)
    BY SameObjectFrame DEF Store, searchVars
<1>4. /\ UNCHANGED <<k, inRegion>> /\ pc[t] = "store"
      /\ best' = key[t] /\ held' = held \cup {key[t]} /\ owner' = NoThread
      /\ NextKey(t)
    BY DEF Store
<1>5. owner = t /\ key[t] \in HitKeys(k) /\ key[t] < best
    BY <1>1, <1>4 DEF Locking
<1>6. ChunkStep(t)
    BY <1>1, <1>4 DEF ChunkStep, Store, searchVars
<1>7. pc'[t] \in {"read", "fetch"}
    BY <1>1, <1>4, NextKeyEffect
<1>8. HeldValuesAreHits'
    <2>1. ASSUME NEW b \in held PROVE key[t] <= b /\ (b = NoPlacement \/ b \in HitKeys(k))
        <3>1. best <= b /\ b \in Int /\ (b = NoPlacement \/ b \in HitKeys(k))
            BY <1>1 DEF HeldValuesAreHits, TypeOK
        <3> QED
            BY <1>1, <1>5, <3>1
    <2> QED
        BY <1>1, <1>3, <1>4, <1>5, <2>1 DEF HeldValuesAreHits
<1>9. \A h \in HitKeys(k) :
          \/ best' <= h
          \/ next > h /\ best > h /\ (NextKey(t) => h # key[t])
          \/ next <= h
    BY <1>1, <1>2, <1>4, <1>5
<1>10. \A u \in Threads \ {t} : pc[u] \notin {"compare", "store"}
    BY <1>1, <1>5 DEF Locking
<1>11. best' \in Int /\ held' \subseteq Int /\ owner' \in Threads \cup {NoThread}
    <2>1. held \subseteq Int
        BY <1>1 DEF TypeOK
    <2>2. held' = held \cup {key[t]} /\ key[t] \in Int
        BY <1>1, <1>4
    <2>3. held' \subseteq Int
        BY ONLY <2>1, <2>2
    <2> QED
        BY <1>1, <1>4, <2>3
<1> QED
    BY <1>4, <1>6, <1>7, <1>8, <1>9, <1>10, <1>11, ChunkStepInvariant

-----------------------------------------------------------------------------
(* The steps of the caller *)

LEMMA SkipObjectInvariant ==
    ASSUME IInv, SkipObject
    PROVE  IInv'
<1>1. /\ TypeOK /\ Locking /\ Progress /\ ~inRegion /\ k \in Objects /\ K \in Nat
      /\ Placements(k) = 0 /\ k' = k + 1
      /\ UNCHANGED <<m, hits, inRegion, best, held, next, pc, key, last, owner, out, returned>>
    BY ObjectsAssumption
    DEF IInv, TypeOK, Objects, SkipObject, Searching, NextObject, searchVars, threadVars
<1>2. hits[k] = {}
    <2>1. HitKeys(k) = {}
        BY <1>1 DEF HitKeys
    <2> QED
        BY <1>1, <2>1, NoKeysNoHits DEF TypeOK
<1>3. \A t \in Threads : pc[t] = "done"
    BY <1>1 DEF Progress
<1>4. ValidProblem' = ValidProblem
    BY <1>1 DEF ValidProblem, Cells, Span
<1>5. TypeOK'
    BY <1>1, <1>4 DEF TypeOK, Objects
<1>6. Locking'
    BY <1>1, <1>3 DEF Locking
<1>7. Progress'
    BY <1>1, <1>2 DEF Progress, Objects
<1> QED
    BY <1>1, <1>5, <1>6, <1>7 DEF IInv, NoHitDropped, HeldValuesAreHits

LEMMA EnterRegionInvariant ==
    ASSUME IInv, EnterRegion
    PROVE  IInv'
<1>1. /\ TypeOK /\ Progress /\ k \in Objects /\ Placements(k) > 0
      /\ best' = NoPlacement /\ held' = {NoPlacement} /\ next' = 0
      /\ pc' = [t \in Threads |-> "fetch"]
      /\ returned = "no"
      /\ UNCHANGED <<m, hits, k, key, last, owner, out, returned>>
    BY ObjectsAssumption
    DEF IInv, TypeOK, Objects, EnterRegion, Searching, searchVars
<1>2. inRegion' /\ inRegion' \in BOOLEAN
    BY Zenon DEF EnterRegion
<1>3. /\ ValidProblem' = ValidProblem /\ Placements(k)' = Placements(k)
      /\ HitKeys(k)' = HitKeys(k)
    BY <1>1, SameObjectFrame
<1>4. \A h \in HitKeys(k) : h \in Nat
    BY <1>1, KeyTypes DEF TypeOK
<1>5. pc' \in [Threads -> Labels] /\ \A t \in Threads : pc'[t] = "fetch"
    BY <1>1 DEF Labels
<1>6. TypeOK'
    <2>1. best' \in Int /\ held' \subseteq Int /\ next' \in Nat
        BY <1>1 DEF NoPlacement
    <2>2. ValidProblem' /\ k' \in 0 .. K /\ k' < K /\ Placements(k)' > 0
        BY <1>1, <1>3, ObjectsAssumption DEF TypeOK, Objects
    <2>3. /\ key' \in [Threads -> Nat] /\ last' \in [Threads -> Nat]
          /\ owner' \in Threads \cup {NoThread} /\ returned' \in {"no", "OK"}
        BY <1>1 DEF TypeOK
    <2> QED
        BY <1>2, <1>5, <2>1, <2>2, <2>3 DEF TypeOK
<1>7. NoHitDropped' /\ HeldValuesAreHits'
    <2>1. NoPlacement \in Int
        BY DEF NoPlacement
    <2> QED
        BY <1>1, <1>3, <1>4, <2>1 DEF NoHitDropped, HeldValuesAreHits
<1>8. Locking' /\ Progress'
    BY <1>1, <1>2, <1>5 DEF Locking, Progress
<1> QED
    BY <1>6, <1>7, <1>8 DEF IInv

\* At the end of a loop the minimum is exact: every key was handed out, and no
\* thread is still at work.
LEMMA RegionMinimum ==
    ASSUME IInv, inRegion, TeamDone
    PROVE  /\ \A h \in HitKeys(k) : best <= h
           /\ best = NoPlacement => hits[k] = {}
           /\ best # NoPlacement => best \in HitKeys(k)
<1>1. /\ TypeOK /\ NoHitDropped /\ HeldValuesAreHits /\ Progress
      /\ k \in Objects /\ best \in Int /\ next \in Nat
    BY ObjectsAssumption DEF IInv, TypeOK, Objects
<1>2. /\ Placements(k) \in Nat
      /\ \A h \in HitKeys(k) : h \in Nat /\ h < Placements(k) /\ h < NoPlacement
    BY <1>1, KeyTypes DEF TypeOK
<1>3. next > LastKey
    BY <1>1, TeamAssumption DEF Progress, TeamDone
<1>4. \A h \in HitKeys(k) : best <= h
    BY <1>1, <1>2, <1>3 DEF NoHitDropped, WillTry, TeamDone, LastKey
<1>5. best = NoPlacement => HitKeys(k) = {}
    BY <1>2, <1>4 DEF NoPlacement
<1>6. best # NoPlacement => best \in HitKeys(k)
    BY <1>1 DEF HeldValuesAreHits
<1> QED
    BY <1>1, <1>4, <1>5, <1>6, NoKeysNoHits DEF TypeOK

LEMMA LeaveRegionInvariant ==
    ASSUME IInv, LeaveRegion
    PROVE  IInv'
<1>1. /\ TypeOK /\ Locking /\ Progress /\ k \in Objects /\ K \in Nat
      /\ UNCHANGED <<m, hits, best, held, next, pc, key, last, owner>>
      /\ TeamDone
    BY ObjectsAssumption
    DEF IInv, TypeOK, Objects, LeaveRegion, threadVars
<1>2. inRegion /\ ~inRegion' /\ inRegion' \in BOOLEAN
    BY Zenon DEF LeaveRegion
<1>3. \/ best = NoPlacement /\ k' = k + 1 /\ UNCHANGED <<out, returned>>
      \/ best # NoPlacement /\ k' = k /\ returned' = "OK"
    BY DEF LeaveRegion, NextObject
<1>4. best = NoPlacement => hits[k] = {}
    BY <1>2, <1>1, RegionMinimum
<1>5. \A t \in Threads : pc[t] = "done"
    BY <1>1 DEF TeamDone
<1>6. ValidProblem' = ValidProblem
    BY <1>1 DEF ValidProblem, Cells, Span
<1>7. TypeOK'
    BY <1>1, <1>2, <1>3, <1>6 DEF TypeOK, Objects
<1>8. Locking'
    BY <1>1, <1>5 DEF Locking
<1>9. Progress'
    <2>1. \A j \in Objects : j < k' => hits[j] = {}
        BY <1>1, <1>3, <1>4 DEF Progress, Objects
    <2> QED
        BY <1>1, <1>2, <1>3, <1>5, <2>1 DEF Progress
<1> QED
    BY <1>2, <1>7, <1>8, <1>9 DEF IInv, NoHitDropped, HeldValuesAreHits

LEMMA NothingFoundInvariant ==
    ASSUME IInv, NothingFound
    PROVE  IInv'
<1>1. /\ TypeOK /\ Locking /\ Progress /\ ~inRegion /\ returned' = "OK"
      /\ UNCHANGED <<m, hits, k, inRegion, best, held, next, pc, key, last, owner, out>>
    BY DEF IInv, NothingFound, Searching, threadVars
<1>2. /\ ValidProblem' = ValidProblem /\ Placements(k)' = Placements(k)
      /\ HitKeys(k)' = HitKeys(k)
    BY <1>1, SameObjectFrame
<1>3. TypeOK'
    BY <1>1, <1>2 DEF TypeOK
<1>4. Locking' /\ Progress'
    BY <1>1, <1>2 DEF Locking, Progress
<1> QED
    BY <1>1, <1>3, <1>4 DEF IInv, NoHitDropped, HeldValuesAreHits

-----------------------------------------------------------------------------
(* Theorems *)

LEMMA StutterInvariant ==
    ASSUME IInv, UNCHANGED vars
    PROVE  IInv'
<1>1. UNCHANGED <<m, hits, out, returned, k, inRegion, best, held, next, pc, key, last, owner>>
    BY DEF vars, searchVars, threadVars
<1>2. /\ ValidProblem' = ValidProblem /\ Placements(k)' = Placements(k)
      /\ HitKeys(k)' = HitKeys(k) /\ LastKey' = LastKey
    BY <1>1, SameObjectFrame
<1>3. TypeOK'
    BY <1>1, <1>2 DEF IInv, TypeOK
<1>4. NoHitDropped' /\ HeldValuesAreHits'
    BY <1>1, <1>2 DEF IInv, NoHitDropped, HeldValuesAreHits, WillTry
<1>5. Locking' /\ Progress'
    BY <1>1, <1>2 DEF IInv, Locking, Progress
<1> QED
    BY <1>3, <1>4, <1>5 DEF IInv

LEMMA StepInvariant == IInv /\ [Next]_vars => IInv'
<1> SUFFICES ASSUME IInv, [Next]_vars PROVE IInv'
    OBVIOUS
<1>1. CASE CallerStep
    BY <1>1, SkipObjectInvariant, EnterRegionInvariant, LeaveRegionInvariant,
       NothingFoundInvariant DEF CallerStep
<1>2. ASSUME NEW t \in Threads, ThreadStep(t) PROVE IInv'
    BY <1>2, FetchChunkInvariant, ReadBestInvariant, ScoreInvariant,
       EnterCriticalInvariant, CompareInvariant, StoreInvariant DEF ThreadStep
<1>3. CASE UNCHANGED vars
    BY <1>3, StutterInvariant
<1> QED
    BY <1>1, <1>2, <1>3 DEF Next, Returned

\* IInv is inductive: for any team, chunk size and schedule.
THEOREM Invariance == Spec => []IInv
<1> QED
    BY InitInvariant, StepInvariant, PTL DEF Spec

\* The variables of openmp_search keep their types; in particular the keys a
\* thread works on are placements of the object.
THEOREM TypeCorrectness == Spec => []TypeOK
<1>1. IInv => TypeOK
    BY DEF IInv
<1> QED
    BY <1>1, Invariance, PTL

\* The early exit and the dynamic schedule drop no matching placement.
THEOREM NoHitIsDropped == Spec => []NoHitDropped
<1>1. IInv => NoHitDropped
    BY DEF IInv
<1> QED
    BY <1>1, Invariance, PTL

\* What the unlocked read of the minimum returns, however stale, is a match.
THEOREM StaleReadsAreHarmless == Spec => []HeldValuesAreHits
<1>1. IInv => HeldValuesAreHits
    BY DEF IInv
<1> QED
    BY <1>1, Invariance, PTL

\* Nobody raises the minimum: compare and store in the critical section are one.
THEOREM MinimumOnlyFalls == Spec => BestOnlyFalls
<1>1. IInv /\ [Next]_vars => [inRegion /\ inRegion' => best' <= best]_vars
    <2> SUFFICES ASSUME IInv, Next, inRegion PROVE best' <= best
        BY DEF vars
    <2>1. best \in Int /\ Locking
        BY DEF IInv, TypeOK
    <2>2. ASSUME NEW t \in Threads, Store(t) PROVE best' <= best
        <3>1. best' = key[t] /\ key[t] < best /\ key[t] \in Nat
            BY <2>1, <2>2 DEF Store, Locking, IInv, TypeOK
        <3> QED
            BY <2>1, <3>1
    <2>3. best' = best => best' <= best
        BY <2>1
    <2>4. ASSUME NEW t \in Threads, ThreadStep(t) PROVE best' <= best
        <3>1. CASE FetchChunk(t)
            BY <2>3, <3>1 DEF FetchChunk
        <3>2. CASE ReadBest(t)
            BY <2>3, <3>2 DEF ReadBest
        <3>3. CASE Score(t)
            BY <2>3, <3>3 DEF Score
        <3>4. CASE EnterCritical(t)
            BY <2>3, <3>4 DEF EnterCritical
        <3>5. CASE Compare(t)
            BY <2>3, <3>5 DEF Compare
        <3> QED
            BY <2>2, <2>4, <3>1, <3>2, <3>3, <3>4, <3>5 DEF ThreadStep
    <2>5. CASE CallerStep
        BY <2>3, <2>5
        DEF CallerStep, SkipObject, EnterRegion, NothingFound, Searching, LeaveRegion
    <2>6. CASE Returned
        BY <2>3, <2>6 DEF Returned, vars
    <2> QED
        BY <2>4, <2>5, <2>6 DEF Next
<1> QED
    BY <1>1, Invariance, PTL DEF Spec, BestOnlyFalls

LEMMA ContractReadsTheSame ==
    /\ Contract!ValidProblem <=> ValidProblem
    /\ \A match : Contract!IsCanonical(match) <=> IsCanonical(match)
    /\ Contract!NoMatch = NoMatch
<1>1. Contract!Objects = Objects
    BY DEF Contract!Objects, Objects
<1>2. \A j : Contract!Cells(j) = Cells(j)
    BY DEF Contract!Cells, Cells, Contract!Span, Span
<1>3. Contract!NoMatch = NoMatch
    BY DEF Contract!NoMatch, NoMatch
<1>4. \A j, p : Contract!MatchAt(j, p) = MatchAt(j, p)
    BY DEF Contract!MatchAt, MatchAt
<1>5. \A p, q : Contract!RowMajorBefore(p, q) <=> RowMajorBefore(p, q)
    BY DEF Contract!RowMajorBefore, RowMajorBefore
<1> QED
    BY <1>1, <1>2, <1>3, <1>4, <1>5
    DEF Contract!ValidProblem, ValidProblem, Contract!IsCanonical, IsCanonical

\* openmp_search keeps the determinism contract of backend.h: under every
\* schedule, with every stale read, it answers the canonical match.
THEOREM ImplementsContract == Spec => ContractSpec
<1>1. Init => Contract!Init
    BY ContractReadsTheSame DEF Init, Contract!Init
<1>2. IInv /\ [Next]_vars => [Contract!Next]_Contract!searchVars
    <2> SUFFICES ASSUME IInv, [Next]_vars PROVE [Contract!Next]_Contract!searchVars
        OBVIOUS
    <2>1. /\ Progress /\ ValidProblem /\ k \in 0 .. K /\ K \in Nat
          /\ \A j \in Objects : j < k => hits[j] = {}
        BY ObjectsAssumption DEF IInv, Progress, TypeOK
    <2>2. ASSUME UNCHANGED <<m, hits, out, returned>>
          PROVE  [Contract!Next]_Contract!searchVars
        BY <2>2 DEF Contract!searchVars
    <2>3. CASE LeaveRegion
        <3>1. inRegion /\ TeamDone /\ UNCHANGED <<m, hits>> /\ returned = "no"
            BY <2>1, <2>3 DEF LeaveRegion, Progress
        <3>2. CASE best = NoPlacement
            BY <2>2, <2>3, <3>1, <3>2 DEF LeaveRegion
        <3>3. CASE best # NoPlacement
            <4>1. out' = Answer(k, best) /\ returned' = "OK"
                BY <2>3, <3>3 DEF LeaveRegion
            <4>2. k \in Objects
                BY <3>1, ObjectsAssumption DEF IInv, TypeOK, Objects
            <4>3. best \in HitKeys(k) /\ \A h \in HitKeys(k) : best <= h
                BY <3>1, <3>3, RegionMinimum
            <4>4. IsCanonical(out')
                BY <2>1, <4>1, <4>2, <4>3, LeastKeyIsCanonical
            <4> QED
                BY <3>1, <4>1, <4>4, ContractReadsTheSame
                DEF Contract!Next, Contract!Succeed, Contract!problem
        <3> QED
            BY <3>2, <3>3
    <2>4. CASE NothingFound
        <3>1. /\ UNCHANGED <<m, hits, out>> /\ returned = "no" /\ returned' = "OK"
              /\ k = K
            BY <2>4 DEF NothingFound, Searching
        <3>2. out' = NoMatch
            BY <2>1, <3>1 DEF Progress
        <3>3. \A j \in Objects : hits[j] = {}
            BY <2>1, <3>1 DEF Objects
        <3>4. IsCanonical(out')
            BY <3>2, <3>3 DEF IsCanonical
        <3> QED
            BY <3>1, <3>4, ContractReadsTheSame
            DEF Contract!Next, Contract!Succeed, Contract!problem
    <2>5. CASE SkipObject \/ EnterRegion
        BY <2>2, <2>5 DEF SkipObject, EnterRegion, searchVars
    <2>6. ASSUME NEW t \in Threads, ThreadStep(t)
          PROVE  [Contract!Next]_Contract!searchVars
        <3>1. UNCHANGED searchVars
            BY <2>6 DEF ThreadStep, FetchChunk, ReadBest, Score, EnterCritical, Compare, Store
        <3> QED
            BY <2>2, <3>1 DEF searchVars
    <2>7. CASE UNCHANGED vars
        BY <2>2, <2>7 DEF vars, searchVars
    <2> QED
        BY <2>3, <2>4, <2>5, <2>6, <2>7 DEF Next, CallerStep, Returned
<1> QED
    BY <1>1, <1>2, Invariance, PTL DEF Spec, ContractSpec, Contract!Spec

=============================================================================
