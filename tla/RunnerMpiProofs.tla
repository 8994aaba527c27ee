--------------------------- MODULE RunnerMpiProofs ---------------------------
(***************************************************************************)
(* The safety properties of RunnerMpi hold for every number of ranks and   *)
(* of pictures, every canonical result and every choice of failures.       *)
(*                                                                         *)
(* They follow from one inductive invariant, IInv.  Its parts say where a  *)
(* rank that has entered a collective can be (Phases), that the counter is *)
(* only touched once it is zeroed and passes every index it handed out     *)
(* (ClaimsBelowCounter), and what a status, a contribution to the          *)
(* reduction and the root's array mean at each stage (Verdicts).           *)
(***************************************************************************)
EXTENDS RunnerMpi, FiniteSetTheorems, TLAPS

PastAllreduce == {"cleanup", "returned"}
FromAllreduce == PastAllreduce \cup {"Allreduce"}
FromGatherv == FromAllreduce \cup {"Gatherv"}
FromWinFree == FromGatherv \cup {"Gather", "gather_records", "Win_free"}
PastBarrier == FromWinFree \cup {"claim", "flush", "search"}
FromBarrier == PastBarrier \cup {"Barrier"}

\* Which collectives a rank has entered can be read off its pc, and a rank is
\* past the barrier or the reduction only when all ranks have entered it.
Phases ==
    \A r \in Ranks :
        /\ r \in entered["Barrier"] <=> pc[r] \in FromBarrier
        /\ r \in entered["Win_free"] <=> pc[r] \in FromWinFree
        /\ r \in entered["Gatherv"] => pc[r] \in FromGatherv
        /\ r \in entered["Allreduce"] <=> pc[r] \in FromAllreduce
        /\ pc[r] \in PastBarrier => entered["Barrier"] = Ranks
        /\ pc[r] \in PastAllreduce => entered["Allreduce"] = Ranks

\* A claim is under way only in the loop, and only by a rank that is well; a
\* picture that is searched exists; nothing is recorded before the barrier, and
\* a rank that has returned has closed its context.
Claiming ==
    /\ \A r \in pending : pc[r] = "flush"
    /\ \A r \in Ranks :
           /\ pc[r] \in {"claim", "flush", "search"} =>
                  status[r] = "OK" /\ ctx[r] = "open"
           /\ /\ pc[r] \in {"records", "Win_allocate", "init_counter", "Barrier"}
              /\ status[r] = "OK"
              => ctx[r] = "open"
           /\ pc[r] = "create" => status[r] = "OK"
           /\ pc[r] = "returned" => ctx[r] # "open"
           /\ pc[r] = "search" => index[r] \in Pictures
           /\ pc[r] = "flush" => index[r] \in Nat
           /\ pc[r] \notin PastBarrier => records[r] = <<>>
           /\ \A k \in DOMAIN records[r] :
                  records[r][k].match = Canonical[records[r][k].index]

\* The counter is past every index it has handed out.
ClaimsBelowCounter ==
    \A r \in Ranks :
        /\ Holding(r) => index[r] < counter
        /\ \A k \in DOMAIN records[r] : records[r][k].index < counter

\* What a rank contributed is what it knew; a rank that has its verdict has
\* the reduction of all contributions; the root's array is canonical unless
\* some rank failed.
Verdicts ==
    /\ \A r \in Ranks :
           /\ pc[r] = "Allreduce" => (localFailed[r] <=> status[r] # "OK")
           /\ pc[r] \in PastAllreduce =>
                  (status[r] = "OK" <=> \A s \in Ranks : ~localFailed[s])
    /\ pc[Root] \in FromAllreduce =>
           matches = Canonical \/ \E r \in Ranks : status[r] # "OK"

IInv ==
    /\ TypeOK
    /\ Phases
    /\ Claiming
    /\ ClaimsBelowCounter
    /\ ClaimsExclusive
    /\ NothingLost
    /\ Verdicts

-----------------------------------------------------------------------------
(* Types *)

LEMMA RootIsRank == Root \in Ranks
BY WorldAssumption DEF Root, Ranks

LEMMA CanonicalIsMatch == \A i \in Pictures : Canonical[i] \in Matches
BY DEF Matches

\* The scattered array holds matches only: every gathered record is a Record.
LEMMA ScatteredType == TypeOK => Scattered \in [Pictures -> Results]
<1> SUFFICES ASSUME TypeOK, NEW i \in Pictures
             PROVE  Scattered[i] \in Results /\ Scattered = [j \in Pictures |-> Scattered[j]]
  BY DEF Scattered
<1>1. \A rec \in Gathered : rec \in Records
  BY DEF Gathered, TypeOK
<1>2. CASE \E rec \in Gathered : rec.index = i
  <2>1. (CHOOSE rec \in Gathered : rec.index = i) \in Gathered
    BY <1>2
  <2> QED
    BY <1>1, <1>2, <2>1 DEF Scattered, Records, Results
<1>3. CASE ~ \E rec \in Gathered : rec.index = i
  BY <1>3 DEF Scattered, Results, Matches
<1> QED
  BY <1>2, <1>3

\* No step takes a variable out of its type.
LEMMA TypeStep == TypeOK /\ Claiming /\ [Next]_vars => TypeOK'
<1> SUFFICES ASSUME TypeOK, Claiming, [Next]_vars
             PROVE  TypeOK'
  OBVIOUS
<1> USE DEF TypeOK, Goto, Enter, Labels, Collectives, Statuses
<1>1. ASSUME NEW r \in Ranks, ApplyFetch(r)
      PROVE  TypeOK'
  BY <1>1 DEF ApplyFetch
<1>2. ASSUME NEW r \in Ranks, RankStep(r)
      PROVE  TypeOK'
  <2>1. CASE CreateSucceeds(r)
    BY <2>1 DEF CreateSucceeds
  <2>2. CASE CreateFails(r)
    BY <2>2 DEF CreateFails
  <2>3. CASE AllocRecords(r)
    BY <2>3 DEF AllocRecords
  <2>4. CASE WinAllocated(r)
    BY <2>4 DEF WinAllocated
  <2>5. CASE InitCounter(r)
    <3>1. counter' \in Nat
      BY <2>5 DEF InitCounter, InitialCount
    <3> QED
      BY <2>5, <3>1 DEF InitCounter
  <2>6. CASE PassBarrier(r)
    BY <2>6 DEF PassBarrier
  <2>7. CASE FetchAndOp(r)
    BY <2>7 DEF FetchAndOp
  <2>8. CASE FlushDone(r)
    BY <2>8 DEF FlushDone, StopClaiming
  <2>9. CASE SearchSucceeds(r)
    <3>1. [index |-> index[r], match |-> Canonical[index[r]]] \in Records
      BY <2>9, CanonicalIsMatch DEF SearchSucceeds, Claiming, Records
    <3>2. records' \in [Ranks -> Seq(Records)]
      BY <2>9, <3>1 DEF SearchSucceeds
    <3> QED
      BY <2>9, <3>2 DEF SearchSucceeds
  <2>10. CASE SearchFails(r)
    BY <2>10 DEF SearchFails, GiveUpClaiming
  <2>11. CASE WinFreed(r)
    BY <2>11 DEF WinFreed
  <2>12. CASE BeginGather(r)
    BY <2>12 DEF BeginGather
  <2>13. CASE GatherBuffersFail(r)
    BY <2>13 DEF GatherBuffersFail, MergeStatus, EnterAllreduce, LocalFailure
  <2>14. CASE GatherCounts(r)
    BY <2>14 DEF GatherCounts
  <2>15. CASE GatherRecords(r)
    BY <2>15, ScatteredType
       DEF GatherRecords, MergeStatus, EnterAllreduce, LocalFailure
  <2>16. CASE AgreeOnStatus(r)
    BY <2>16 DEF AgreeOnStatus
  <2>17. CASE Cleanup(r)
    BY <2>17 DEF Cleanup
  <2> QED
    BY <1>2, <2>1, <2>2, <2>3, <2>4, <2>5, <2>6, <2>7, <2>8, <2>9, <2>10,
       <2>11, <2>12, <2>13, <2>14, <2>15, <2>16, <2>17 DEF RankStep
<1>3. CASE UNCHANGED vars
  BY <1>3 DEF vars
<1> QED
  BY <1>1, <1>2, <1>3 DEF Next, Terminated

\* A rank enters a collective exactly when its pc moves to it.
LEMMA PhasesStep ==
    TypeOK /\ Phases /\ [Next]_vars => Phases'
<1> SUFFICES ASSUME TypeOK, Phases, [Next]_vars
             PROVE  Phases'
  OBVIOUS
<1> USE DEF TypeOK, Phases, Goto, Enter, AllArrived, PastAllreduce,
            FromAllreduce, FromGatherv, FromWinFree, PastBarrier, FromBarrier,
            Collectives
<1>1. ASSUME NEW r \in Ranks, ApplyFetch(r)
      PROVE  Phases'
  BY <1>1 DEF ApplyFetch
<1>2. ASSUME NEW r \in Ranks, RankStep(r)
      PROVE  Phases'
  <2>1. CASE CreateSucceeds(r)
    BY <2>1 DEF CreateSucceeds
  <2>2. CASE CreateFails(r)
    BY <2>2 DEF CreateFails
  <2>3. CASE AllocRecords(r)
    BY <2>3 DEF AllocRecords
  <2>4. CASE WinAllocated(r)
    BY <2>4 DEF WinAllocated
  <2>5. CASE InitCounter(r)
    BY <2>5 DEF InitCounter, InitialCount
  <2>6. CASE PassBarrier(r)
    BY <2>6 DEF PassBarrier, BarrierDone, MayClaim
  <2>7. CASE FetchAndOp(r)
    BY <2>7 DEF FetchAndOp
  <2>8. CASE FlushDone(r)
    BY <2>8 DEF FlushDone, StopClaiming
  <2>9. CASE SearchSucceeds(r)
    BY <2>9 DEF SearchSucceeds
  <2>10. CASE SearchFails(r)
    BY <2>10 DEF SearchFails, GiveUpClaiming
  <2>11. CASE WinFreed(r)
    BY <2>11 DEF WinFreed
  <2>12. CASE BeginGather(r)
    BY <2>12 DEF BeginGather
  <2>13. CASE GatherBuffersFail(r)
    BY <2>13 DEF GatherBuffersFail, MergeStatus, EnterAllreduce, LocalFailure
  <2>14. CASE GatherCounts(r)
    BY <2>14 DEF GatherCounts, GatherDone
  <2>15. CASE GatherRecords(r)
    BY <2>15 DEF GatherRecords, MergeStatus, EnterAllreduce, LocalFailure,
                 GatherDone
  <2>16. CASE AgreeOnStatus(r)
    BY <2>16 DEF AgreeOnStatus, AnyFailed
  <2>17. CASE Cleanup(r)
    BY <2>17 DEF Cleanup
  <2> QED
    BY <1>2, <2>1, <2>2, <2>3, <2>4, <2>5, <2>6, <2>7, <2>8, <2>9, <2>10,
       <2>11, <2>12, <2>13, <2>14, <2>15, <2>16, <2>17 DEF RankStep
<1>3. CASE UNCHANGED vars
  BY <1>3 DEF vars
<1> QED
  BY <1>1, <1>2, <1>3 DEF Next, Terminated

\* A rank claims only while it is well, and records what the search returned.
LEMMA ClaimingStep ==
    TypeOK /\ Phases /\ Claiming /\ [Next]_vars => Claiming'
<1> SUFFICES ASSUME TypeOK, Phases, Claiming, [Next]_vars
             PROVE  Claiming'
  OBVIOUS
<1> USE DEF TypeOK, Claiming, Goto, Enter, PastAllreduce, FromAllreduce,
            FromGatherv, FromWinFree, PastBarrier, FromBarrier
<1>1. ASSUME NEW r \in Ranks, ApplyFetch(r)
      PROVE  Claiming'
  BY <1>1 DEF ApplyFetch
<1>2. ASSUME NEW r \in Ranks, RankStep(r)
      PROVE  Claiming'
  <2>1. CASE CreateSucceeds(r)
    BY <2>1 DEF CreateSucceeds
  <2>2. CASE CreateFails(r)
    BY <2>2 DEF CreateFails
  <2>3. CASE AllocRecords(r)
    BY <2>3 DEF AllocRecords
  <2>4. CASE WinAllocated(r)
    BY <2>4 DEF WinAllocated
  <2>5. CASE InitCounter(r)
    BY <2>5 DEF InitCounter, InitialCount
  <2>6. CASE PassBarrier(r)
    BY <2>6 DEF PassBarrier, BarrierDone, MayClaim
  <2>7. CASE FetchAndOp(r)
    BY <2>7 DEF FetchAndOp
  <2>8. CASE FlushDone(r)
    <3>1. pc'[r] = "search" => index[r] \in Pictures
      BY <2>8, PicturesAssumption DEF FlushDone, StopClaiming, Exhausted, Pictures
    <3> QED
      BY <2>8, <3>1 DEF FlushDone, StopClaiming, FlushComplete
  <2>9. CASE SearchSucceeds(r)
    BY <2>9 DEF SearchSucceeds
  <2>10. CASE SearchFails(r)
    BY <2>10 DEF SearchFails, GiveUpClaiming
  <2>11. CASE WinFreed(r)
    BY <2>11 DEF WinFreed
  <2>12. CASE BeginGather(r)
    BY <2>12 DEF BeginGather
  <2>13. CASE GatherBuffersFail(r)
    BY <2>13 DEF GatherBuffersFail, MergeStatus, EnterAllreduce, LocalFailure
  <2>14. CASE GatherCounts(r)
    BY <2>14 DEF GatherCounts, GatherDone
  <2>15. CASE GatherRecords(r)
    BY <2>15 DEF GatherRecords, MergeStatus, EnterAllreduce, LocalFailure,
                 GatherDone
  <2>16. CASE AgreeOnStatus(r)
    BY <2>16 DEF AgreeOnStatus, AnyFailed
  <2>17. CASE Cleanup(r)
    BY <2>17 DEF Cleanup
  <2> QED
    BY <1>2, <2>1, <2>2, <2>3, <2>4, <2>5, <2>6, <2>7, <2>8, <2>9, <2>10,
       <2>11, <2>12, <2>13, <2>14, <2>15, <2>16, <2>17 DEF RankStep
<1>3. CASE UNCHANGED vars
  BY <1>3 DEF vars
<1> QED
  BY <1>1, <1>2, <1>3 DEF Next, Terminated

\* A recorded index is an index, and a rank's index is a number.
LEMMA IndexTypes ==
    TypeOK => \A r \in Ranks :
                  /\ index[r] \in Int
                  /\ \A k \in DOMAIN records[r] : records[r][k].index \in Nat
<1> SUFFICES ASSUME TypeOK, NEW r \in Ranks
             PROVE  /\ index[r] \in Int
                    /\ \A k \in DOMAIN records[r] : records[r][k].index \in Nat
  OBVIOUS
<1>1. records[r] \in Seq(Records)
  BY DEF TypeOK
<1>2. \A k \in DOMAIN records[r] : records[r][k] \in Records
  BY <1>1
<1> QED
  BY <1>2, PicturesAssumption DEF TypeOK, NoIndex, Records, Pictures

\* While the root has not reached the barrier, nobody has claimed anything.
LEMMA NoEarlyClaim ==
    ASSUME Phases, Claiming, pc[Root] = "init_counter"
    PROVE  \A r \in Ranks : ~Holding(r) /\ records[r] = <<>>
<1>1. \A r \in Ranks : pc[r] \notin PastBarrier
  BY RootIsRank DEF Phases, FromBarrier, PastBarrier, FromWinFree, FromGatherv,
     FromAllreduce, PastAllreduce
<1> QED
  BY <1>1 DEF Claiming, Holding, PastBarrier

\* The counter only grows once an index was handed out: it is zeroed before the
\* root reaches the barrier, and nobody claims until then.
LEMMA BelowCounterStep ==
    TypeOK /\ Phases /\ Claiming /\ ClaimsBelowCounter /\ [Next]_vars => ClaimsBelowCounter'
<1> SUFFICES ASSUME TypeOK, Phases, Claiming, ClaimsBelowCounter, [Next]_vars
             PROVE  ClaimsBelowCounter'
  OBVIOUS
<1> USE RootIsRank, IndexTypes DEF TypeOK, ClaimsBelowCounter, Claiming,
                                   Holding, Goto, Enter
<1>1. ASSUME NEW r \in Ranks, ApplyFetch(r)
      PROVE  ClaimsBelowCounter'
  BY <1>1 DEF ApplyFetch
<1>2. ASSUME NEW r \in Ranks, RankStep(r)
      PROVE  ClaimsBelowCounter'
  <2>1. CASE CreateSucceeds(r)
    BY <2>1 DEF CreateSucceeds
  <2>2. CASE CreateFails(r)
    BY <2>2 DEF CreateFails
  <2>3. CASE AllocRecords(r)
    BY <2>3 DEF AllocRecords
  <2>4. CASE WinAllocated(r)
    BY <2>4 DEF WinAllocated
  <2>5. CASE InitCounter(r)
    BY <2>5, NoEarlyClaim DEF InitCounter, InitialCount
  <2>6. CASE PassBarrier(r)
    BY <2>6 DEF PassBarrier, BarrierDone, MayClaim
  <2>7. CASE FetchAndOp(r)
    BY <2>7 DEF FetchAndOp
  <2>8. CASE FlushDone(r)
    BY <2>8 DEF FlushDone, StopClaiming, FlushComplete
  <2>9. CASE SearchSucceeds(r)
    BY <2>9 DEF SearchSucceeds
  <2>10. CASE SearchFails(r)
    BY <2>10 DEF SearchFails, GiveUpClaiming
  <2>11. CASE WinFreed(r)
    BY <2>11 DEF WinFreed
  <2>12. CASE BeginGather(r)
    BY <2>12 DEF BeginGather
  <2>13. CASE GatherBuffersFail(r)
    BY <2>13 DEF GatherBuffersFail, MergeStatus, EnterAllreduce, LocalFailure
  <2>14. CASE GatherCounts(r)
    BY <2>14 DEF GatherCounts, GatherDone
  <2>15. CASE GatherRecords(r)
    BY <2>15 DEF GatherRecords, MergeStatus, EnterAllreduce, LocalFailure,
                 GatherDone
  <2>16. CASE AgreeOnStatus(r)
    BY <2>16 DEF AgreeOnStatus, AnyFailed
  <2>17. CASE Cleanup(r)
    BY <2>17 DEF Cleanup
  <2> QED
    BY <1>2, <2>1, <2>2, <2>3, <2>4, <2>5, <2>6, <2>7, <2>8, <2>9, <2>10,
       <2>11, <2>12, <2>13, <2>14, <2>15, <2>16, <2>17 DEF RankStep
<1>3. CASE UNCHANGED vars
  BY <1>3 DEF vars
<1> QED
  BY <1>1, <1>2, <1>3 DEF Next, Terminated

\* A step that records nothing and leaves a rank holding only what it held
\* keeps the claims exclusive.
LEMMA ExclusiveFrame ==
    ASSUME ClaimsExclusive, UNCHANGED records,
           \A s \in Ranks : Holding(s)' => Holding(s) /\ index'[s] = index[s]
    PROVE  ClaimsExclusive'
BY DEF ClaimsExclusive, Recorded

\* A claim returns an index nobody was given before, and moves to the records of
\* the rank that holds it.
LEMMA ExclusiveStep ==
    TypeOK /\ Claiming /\ ClaimsBelowCounter /\ ClaimsExclusive /\ [Next]_vars => ClaimsExclusive'
<1> SUFFICES ASSUME TypeOK, Claiming, ClaimsBelowCounter, ClaimsExclusive, [Next]_vars
             PROVE  ClaimsExclusive'
  OBVIOUS
<1> USE DEF TypeOK, Goto, Enter
<1>1. ASSUME NEW r \in Ranks, ApplyFetch(r)
      PROVE  ClaimsExclusive'
  <2>1. \A s \in Ranks : Holding(s)' => s = r \/ (Holding(s) /\ index'[s] = index[s])
    BY <1>1 DEF ApplyFetch, Holding
  <2>2. index'[r] = counter /\ UNCHANGED records
    BY <1>1 DEF ApplyFetch
  <2>3. \A s \in Ranks : ~Recorded(s, counter)
    BY IndexTypes DEF ClaimsBelowCounter, Recorded
  <2>4. \A s \in Ranks : Holding(s) => index[s] # counter
    BY IndexTypes DEF ClaimsBelowCounter
  <2>5. ASSUME NEW s \in Ranks, Holding(s)', NEW t \in Ranks
        PROVE  /\ ~Recorded(t, index'[s])
               /\ (Holding(t)' /\ index'[t] = index'[s]) => t = s
    <3>1. CASE s = r
      BY <2>1, <2>2, <2>3, <2>4, <3>1
    <3>2. CASE s # r
      BY <2>1, <2>2, <2>4, <2>5, <3>2 DEF ClaimsExclusive
    <3> QED
      BY <3>1, <3>2
  <2> QED
    BY <2>2, <2>5 DEF ClaimsExclusive, Recorded
<1>2. ASSUME NEW r \in Ranks, RankStep(r)
      PROVE  ClaimsExclusive'
  <2>1. CASE CreateSucceeds(r)
    BY <2>1, ExclusiveFrame DEF CreateSucceeds, Holding
  <2>2. CASE CreateFails(r)
    BY <2>2, ExclusiveFrame DEF CreateFails, Holding
  <2>3. CASE AllocRecords(r)
    BY <2>3, ExclusiveFrame DEF AllocRecords, Holding
  <2>4. CASE WinAllocated(r)
    BY <2>4, ExclusiveFrame DEF WinAllocated, Holding
  <2>5. CASE InitCounter(r)
    BY <2>5, ExclusiveFrame DEF InitCounter, Holding
  <2>6. CASE PassBarrier(r)
    BY <2>6, ExclusiveFrame DEF PassBarrier, Holding
  <2>7. CASE FetchAndOp(r)
    <3>1. \A s \in Ranks : Holding(s)' => Holding(s) /\ index'[s] = index[s]
      BY <2>7 DEF FetchAndOp, Holding
    <3> QED
      BY <2>7, <3>1, ExclusiveFrame DEF FetchAndOp
  <2>8. CASE FlushDone(r)
    BY <2>8, ExclusiveFrame DEF FlushDone, Holding, FlushComplete, StopClaiming
  <2>9. CASE SearchSucceeds(r)
    <3> DEFINE new == [index |-> index[r], match |-> Canonical[index[r]]]
    <3>1. /\ Holding(r)
          /\ \A s \in Ranks : Holding(s)' => s # r /\ Holding(s)
          /\ UNCHANGED index
      BY <2>9 DEF SearchSucceeds, Holding
    <3>0. /\ records[r] \in Seq(Records)
          /\ records'[r] = Append(records[r], new)
      BY <2>9 DEF SearchSucceeds
    <3>2. \A s \in Ranks : s # r => records'[s] = records[s]
      BY <2>9 DEF SearchSucceeds
    <3>3. /\ Len(records[r]) \in Nat
          /\ DOMAIN records[r] = 1 .. Len(records[r])
          /\ DOMAIN records'[r] = 1 .. Len(records[r]) + 1
          /\ \A k \in DOMAIN records[r] : records'[r][k] = records[r][k]
          /\ records'[r][Len(records[r]) + 1] = new
      BY <3>0
    <3>4. \A k \in DOMAIN records'[r] :
             k \in DOMAIN records[r] \/ k = Len(records[r]) + 1
      BY <3>3
    <3> HIDE DEF new
    <3>5. new.index = index[r]
      BY DEF new
    <3>6. \A s \in Ranks : \A k \in DOMAIN records'[s] :
             \/ k \in DOMAIN records[s] /\ records'[s][k] = records[s][k]
             \/ s = r /\ k = Len(records[r]) + 1 /\ records'[s][k].index = index[r]
      BY <3>2, <3>3, <3>4, <3>5
    <3>7. \A s \in Ranks : \A k \in DOMAIN records[s] :
             records[s][k].index # index[r]
      BY <3>1 DEF ClaimsExclusive, Recorded
    <3>8. ASSUME NEW s \in Ranks, NEW k \in DOMAIN records'[s],
                 NEW t \in Ranks, NEW l \in DOMAIN records'[t],
                 records'[s][k].index = records'[t][l].index
          PROVE  s = t /\ k = l
      <4>1. CASE k \in DOMAIN records[s] /\ records'[s][k] = records[s][k]
        BY <3>6, <3>7, <3>8, <4>1 DEF ClaimsExclusive
      <4>2. CASE s = r /\ k = Len(records[r]) + 1 /\ records'[s][k].index = index[r]
        BY <3>6, <3>7, <3>8, <4>2
      <4> QED
        BY <3>6, <4>1, <4>2
    <3>9. ASSUME NEW s \in Ranks, Holding(s)', NEW t \in Ranks
          PROVE  /\ ~Recorded(t, index[s])'
                 /\ (Holding(t)' /\ index[t] = index[s]) => t = s
      <4>1. Holding(s) /\ s # r /\ index[s] # index[r]
        BY <3>1, <3>9 DEF ClaimsExclusive
      <4>2. ~Recorded(t, index[s])'
        BY <3>1, <3>6, <4>1 DEF ClaimsExclusive, Recorded
      <4> QED
        BY <3>1, <4>1, <4>2 DEF ClaimsExclusive
    <3> QED
      BY <3>1, <3>8, <3>9 DEF ClaimsExclusive, Recorded
  <2>10. CASE SearchFails(r)
    BY <2>10, ExclusiveFrame DEF SearchFails, Holding, GiveUpClaiming
  <2>11. CASE WinFreed(r)
    BY <2>11, ExclusiveFrame DEF WinFreed, Holding
  <2>12. CASE BeginGather(r)
    BY <2>12, ExclusiveFrame DEF BeginGather, Holding
  <2>13. CASE GatherBuffersFail(r)
    BY <2>13, ExclusiveFrame DEF GatherBuffersFail, Holding, EnterAllreduce
  <2>14. CASE GatherCounts(r)
    BY <2>14, ExclusiveFrame DEF GatherCounts, Holding
  <2>15. CASE GatherRecords(r)
    BY <2>15, ExclusiveFrame DEF GatherRecords, Holding, EnterAllreduce
  <2>16. CASE AgreeOnStatus(r)
    BY <2>16, ExclusiveFrame DEF AgreeOnStatus, Holding
  <2>17. CASE Cleanup(r)
    <3>1. \A s, t \in Ranks : \A i \in Int : Recorded(s, i)' => Recorded(s, i)
      BY <2>17 DEF Cleanup, Recorded
    <3>2. \A s \in Ranks : Holding(s)' => Holding(s) /\ index'[s] = index[s]
      BY <2>17 DEF Cleanup, Holding
    <3>3. \A s \in Ranks : \A k \in DOMAIN records'[s] :
             k \in DOMAIN records[s] /\ records'[s][k] = records[s][k]
      <4>1. DOMAIN <<>> = {}
        OBVIOUS
      <4>2. \A s \in Ranks : records'[s] = records[s] \/ records'[s] = <<>>
        BY <2>17 DEF Cleanup
      <4> QED
        BY <4>1, <4>2
    <3>4. \A s, t \in Ranks :
             \A k \in DOMAIN records'[s], l \in DOMAIN records'[t] :
                 records'[s][k].index = records'[t][l].index => s = t /\ k = l
      BY <3>3 DEF ClaimsExclusive
    <3> QED
      BY <3>1, <3>2, <3>4, IndexTypes DEF ClaimsExclusive
  <2> QED
    BY <1>2, <2>1, <2>2, <2>3, <2>4, <2>5, <2>6, <2>7, <2>8, <2>9, <2>10,
       <2>11, <2>12, <2>13, <2>14, <2>15, <2>16, <2>17 DEF RankStep
<1>3. CASE UNCHANGED vars
  BY <1>3, ExclusiveFrame DEF vars, Holding
<1> QED
  BY <1>1, <1>2, <1>3 DEF Next, Terminated

\* A step that leaves the counter alone keeps every claim if whatever a rank
\* owned it, or another, still owns.
LEMMA KeptFrame ==
    ASSUME ClaimsKept, UNCHANGED counter,
           Root \in (entered["Barrier"])' => Root \in entered["Barrier"],
           \A s \in Ranks : Finished(s) => Finished(s)',
           \A s \in Ranks : \A i \in Pictures : Owns(s, i) => Owns(s, i)'
    PROVE  ClaimsKept'
BY DEF ClaimsKept

\* Once a rank has its verdict the claim is void: its records are on their way
\* out.
LEMMA KeptAfterVerdict ==
    ASSUME NEW r \in Ranks, Finished(r)'
    PROVE  ClaimsKept'
BY DEF ClaimsKept

\* Whatever the counter has passed stays with a rank until the verdicts are out.
LEMMA KeptStep ==
    TypeOK /\ Claiming /\ ClaimsExclusive /\ ClaimsKept /\ [Next]_vars => ClaimsKept'
<1> SUFFICES ASSUME TypeOK, Claiming, ClaimsExclusive, ClaimsKept, [Next]_vars
             PROVE  ClaimsKept'
  OBVIOUS
<1> USE DEF TypeOK, Goto, Enter, Collectives
<1>1. ASSUME NEW r \in Ranks, ApplyFetch(r)
      PROVE  ClaimsKept'
  <2>1. \A s \in Ranks : \A i \in Pictures : Owns(s, i) => Owns(s, i)'
    BY <1>1 DEF ApplyFetch, Owns, Holding, LostAt, Recorded, Claiming
  <2>2. Holding(r)' /\ index'[r] = counter /\ counter' = counter + 1
    BY <1>1 DEF ApplyFetch, Holding, Claiming
  <2>3. UNCHANGED <<entered, pc>>
    BY <1>1 DEF ApplyFetch
  <2>4. ASSUME NEW i \in Pictures, i < counter', ~(i < counter)
        PROVE  Owns(r, i)'
    BY <2>2, <2>4, PicturesAssumption DEF Owns, Pictures
  <2> QED
    BY <2>1, <2>2, <2>3, <2>4 DEF ClaimsKept, Finished
<1>2. ASSUME NEW r \in Ranks, RankStep(r)
      PROVE  ClaimsKept'
  <2>1. CASE CreateSucceeds(r)
    <3>1. \A s \in Ranks : \A i \in Pictures : Owns(s, i) => Owns(s, i)'
      BY <2>1 DEF CreateSucceeds, Owns, Holding, LostAt, Recorded
    <3>2. \A s \in Ranks : Finished(s) => Finished(s)'
      BY <2>1 DEF CreateSucceeds, Finished
    <3> QED
      BY <2>1, <3>1, <3>2, KeptFrame DEF CreateSucceeds
  <2>2. CASE CreateFails(r)
    <3>1. \A s \in Ranks : \A i \in Pictures : Owns(s, i) => Owns(s, i)'
      BY <2>2 DEF CreateFails, Owns, Holding, LostAt, Recorded
    <3>2. \A s \in Ranks : Finished(s) => Finished(s)'
      BY <2>2 DEF CreateFails, Finished
    <3> QED
      BY <2>2, <3>1, <3>2, KeptFrame DEF CreateFails
  <2>3. CASE AllocRecords(r)
    <3>1. \A s \in Ranks : \A i \in Pictures : Owns(s, i) => Owns(s, i)'
      BY <2>3 DEF AllocRecords, Owns, Holding, LostAt, Recorded
    <3>2. \A s \in Ranks : Finished(s) => Finished(s)'
      BY <2>3 DEF AllocRecords, Finished
    <3> QED
      BY <2>3, <3>1, <3>2, KeptFrame DEF AllocRecords
  <2>4. CASE WinAllocated(r)
    <3>1. \A s \in Ranks : \A i \in Pictures : Owns(s, i) => Owns(s, i)'
      BY <2>4 DEF WinAllocated, Owns, Holding, LostAt, Recorded
    <3>2. \A s \in Ranks : Finished(s) => Finished(s)'
      BY <2>4 DEF WinAllocated, Finished
    <3> QED
      BY <2>4, <3>1, <3>2, KeptFrame DEF WinAllocated
  <2>5. CASE InitCounter(r)
    <3>1. CASE r = Root
      <4>1. counter' = 0
        BY <2>5, <3>1 DEF InitCounter, InitialCount
      <4> QED
        BY <4>1, PicturesAssumption DEF ClaimsKept, Pictures
    <3>2. CASE r # Root
      <4>1. \A s \in Ranks : \A i \in Pictures : Owns(s, i) => Owns(s, i)'
        BY <2>5 DEF InitCounter, Owns, Holding, LostAt, Recorded
      <4>2. \A s \in Ranks : Finished(s) => Finished(s)'
        BY <2>5 DEF InitCounter, Finished
      <4> QED
        BY <2>5, <3>2, <4>1, <4>2, KeptFrame DEF InitCounter
    <3> QED
      BY <3>1, <3>2
  <2>6. CASE PassBarrier(r)
    <3>1. \A s \in Ranks : \A i \in Pictures : Owns(s, i) => Owns(s, i)'
      BY <2>6 DEF PassBarrier, Owns, Holding, LostAt, Recorded
    <3>2. \A s \in Ranks : Finished(s) => Finished(s)'
      BY <2>6 DEF PassBarrier, Finished
    <3> QED
      BY <2>6, <3>1, <3>2, KeptFrame DEF PassBarrier
  <2>7. CASE FetchAndOp(r)
    <3>1. \A s \in Ranks : \A i \in Pictures : Owns(s, i) => Owns(s, i)'
      BY <2>7 DEF FetchAndOp, Owns, Holding, LostAt, Recorded, Claiming
    <3>2. \A s \in Ranks : Finished(s) => Finished(s)'
      BY <2>7 DEF FetchAndOp, Finished, Claiming
    <3> QED
      BY <2>7, <3>1, <3>2, KeptFrame DEF FetchAndOp, Claiming
  <2>8. CASE FlushDone(r)
    <3>1. \A s \in Ranks : \A i \in Pictures : Owns(s, i) => Owns(s, i)'
      BY <2>8, PicturesAssumption, IndexTypes DEF FlushDone, Owns, Holding, LostAt, Recorded, FlushComplete, StopClaiming, Exhausted, Pictures
    <3>2. \A s \in Ranks : Finished(s) => Finished(s)'
      BY <2>8 DEF FlushDone, Finished, FlushComplete, StopClaiming, Exhausted, Pictures
    <3> QED
      BY <2>8, <3>1, <3>2, KeptFrame DEF FlushDone, FlushComplete, StopClaiming, Exhausted, Pictures
  <2>9. CASE SearchSucceeds(r)
    <3> DEFINE new == [index |-> index[r], match |-> Canonical[index[r]]]
    <3>1. /\ records[r] \in Seq(Records)
          /\ records'[r] = Append(records[r], new)
      BY <2>9 DEF SearchSucceeds
    <3>2. \A k \in DOMAIN records[r] :
             k \in DOMAIN records'[r] /\ records'[r][k] = records[r][k]
      BY <3>1
    <3>3. /\ Len(records[r]) + 1 \in DOMAIN records'[r]
          /\ records'[r][Len(records[r]) + 1].index = index[r]
      BY <3>1
    <3>4. \A i \in Pictures : Owns(r, i) => Recorded(r, i)'
      BY <2>9, <3>2, <3>3 DEF SearchSucceeds, Owns, Holding, LostAt, Recorded, Claiming
    <3>5. \A s \in Ranks : s # r => \A i \in Pictures : Owns(s, i) => Owns(s, i)'
      BY <2>9 DEF SearchSucceeds, Owns, Holding, LostAt, Recorded
    <3>6. \A s \in Ranks : Finished(s) => Finished(s)'
      BY <2>9 DEF SearchSucceeds, Finished
    <3> QED
      BY <2>9, <3>4, <3>5, <3>6, KeptFrame DEF SearchSucceeds, Owns
  <2>10. CASE SearchFails(r)
    <3>1. \A s \in Ranks : \A i \in Pictures : Owns(s, i) => Owns(s, i)'
      BY <2>10 DEF SearchFails, Owns, Holding, LostAt, Recorded, GiveUpClaiming, ClaimsExclusive
    <3>2. \A s \in Ranks : Finished(s) => Finished(s)'
      BY <2>10 DEF SearchFails, Finished, GiveUpClaiming, ClaimsExclusive
    <3> QED
      BY <2>10, <3>1, <3>2, KeptFrame DEF SearchFails, GiveUpClaiming, ClaimsExclusive
  <2>11. CASE WinFreed(r)
    <3>1. \A s \in Ranks : \A i \in Pictures : Owns(s, i) => Owns(s, i)'
      BY <2>11 DEF WinFreed, Owns, Holding, LostAt, Recorded
    <3>2. \A s \in Ranks : Finished(s) => Finished(s)'
      BY <2>11 DEF WinFreed, Finished
    <3> QED
      BY <2>11, <3>1, <3>2, KeptFrame DEF WinFreed
  <2>12. CASE BeginGather(r)
    <3>1. \A s \in Ranks : \A i \in Pictures : Owns(s, i) => Owns(s, i)'
      BY <2>12 DEF BeginGather, Owns, Holding, LostAt, Recorded
    <3>2. \A s \in Ranks : Finished(s) => Finished(s)'
      BY <2>12 DEF BeginGather, Finished
    <3> QED
      BY <2>12, <3>1, <3>2, KeptFrame DEF BeginGather
  <2>13. CASE GatherBuffersFail(r)
    <3>1. \A s \in Ranks : \A i \in Pictures : Owns(s, i) => Owns(s, i)'
      BY <2>13 DEF GatherBuffersFail, Owns, Holding, LostAt, Recorded, MergeStatus, EnterAllreduce
    <3>2. \A s \in Ranks : Finished(s) => Finished(s)'
      BY <2>13 DEF GatherBuffersFail, Finished, MergeStatus, EnterAllreduce
    <3> QED
      BY <2>13, <3>1, <3>2, KeptFrame DEF GatherBuffersFail, MergeStatus, EnterAllreduce
  <2>14. CASE GatherCounts(r)
    <3>1. \A s \in Ranks : \A i \in Pictures : Owns(s, i) => Owns(s, i)'
      BY <2>14 DEF GatherCounts, Owns, Holding, LostAt, Recorded
    <3>2. \A s \in Ranks : Finished(s) => Finished(s)'
      BY <2>14 DEF GatherCounts, Finished
    <3> QED
      BY <2>14, <3>1, <3>2, KeptFrame DEF GatherCounts
  <2>15. CASE GatherRecords(r)
    <3>1. \A s \in Ranks : \A i \in Pictures : Owns(s, i) => Owns(s, i)'
      BY <2>15 DEF GatherRecords, Owns, Holding, LostAt, Recorded, MergeStatus, EnterAllreduce
    <3>2. \A s \in Ranks : Finished(s) => Finished(s)'
      BY <2>15 DEF GatherRecords, Finished, MergeStatus, EnterAllreduce
    <3> QED
      BY <2>15, <3>1, <3>2, KeptFrame DEF GatherRecords, MergeStatus, EnterAllreduce
  <2>16. CASE AgreeOnStatus(r)
    BY <2>16, KeptAfterVerdict DEF AgreeOnStatus, Finished
  <2>17. CASE Cleanup(r)
    BY <2>17, KeptAfterVerdict DEF Cleanup, Finished
  <2> QED
    BY <1>2, <2>1, <2>2, <2>3, <2>4, <2>5, <2>6, <2>7, <2>8, <2>9, <2>10,
       <2>11, <2>12, <2>13, <2>14, <2>15, <2>16, <2>17 DEF RankStep
<1>3. CASE UNCHANGED vars
  BY <1>3 DEF vars, ClaimsKept, Owns, Holding, LostAt, Recorded, Finished
<1> QED
  BY <1>1, <1>2, <1>3 DEF Next, Terminated

\* A healthy rank stops only on an index past the last picture.
LEMMA DrainedStep ==
    TypeOK /\ Phases /\ ClaimsBelowCounter /\ Drained /\ [Next]_vars => Drained'
<1> SUFFICES ASSUME TypeOK, Phases, ClaimsBelowCounter, Drained, [Next]_vars
             PROVE  Drained'
  OBVIOUS
<1> USE RootIsRank DEF TypeOK, Drained, Goto, Enter, Collectives
<1>1. ASSUME NEW r \in Ranks, ApplyFetch(r)
      PROVE  Drained'
  BY <1>1, PicturesAssumption DEF ApplyFetch
<1>2. ASSUME NEW r \in Ranks, RankStep(r)
      PROVE  Drained'
  <2>1. CASE CreateSucceeds(r)
    BY <2>1 DEF CreateSucceeds
  <2>2. CASE CreateFails(r)
    BY <2>2 DEF CreateFails
  <2>3. CASE AllocRecords(r)
    BY <2>3 DEF AllocRecords
  <2>4. CASE WinAllocated(r)
    BY <2>4 DEF WinAllocated
  <2>5. CASE InitCounter(r)
    <3>1. CASE r = Root
      <4>1. (entered["Win_free"])' = {}
        BY <2>5, <3>1 DEF InitCounter, Phases, FromBarrier, PastBarrier, FromWinFree,
           FromGatherv, FromAllreduce, PastAllreduce
      <4> QED
        BY <4>1
    <3>2. CASE r # Root
      BY <2>5, <3>2 DEF InitCounter
    <3> QED
      BY <3>1, <3>2
  <2>6. CASE PassBarrier(r)
    BY <2>6 DEF PassBarrier, BarrierDone, MayClaim
  <2>7. CASE FetchAndOp(r)
    BY <2>7 DEF FetchAndOp
  <2>8. CASE FlushDone(r)
    <3>1. CASE Exhausted(index[r])
      <4>1. index[r] < counter
        BY <2>8 DEF FlushDone, FlushComplete, ClaimsBelowCounter, Holding
      <4> QED
        BY <2>8, <3>1, <4>1, PicturesAssumption, IndexTypes DEF FlushDone, Exhausted
    <3>2. CASE ~Exhausted(index[r])
      BY <2>8, <3>2 DEF FlushDone
    <3> QED
      BY <3>1, <3>2
  <2>9. CASE SearchSucceeds(r)
    BY <2>9 DEF SearchSucceeds
  <2>10. CASE SearchFails(r)
    BY <2>10 DEF SearchFails, GiveUpClaiming
  <2>11. CASE WinFreed(r)
    BY <2>11 DEF WinFreed
  <2>12. CASE BeginGather(r)
    BY <2>12 DEF BeginGather
  <2>13. CASE GatherBuffersFail(r)
    BY <2>13 DEF GatherBuffersFail, MergeStatus, EnterAllreduce, LocalFailure
  <2>14. CASE GatherCounts(r)
    BY <2>14 DEF GatherCounts, GatherDone
  <2>15. CASE GatherRecords(r)
    BY <2>15 DEF GatherRecords, MergeStatus, EnterAllreduce, LocalFailure,
                 GatherDone
  <2>16. CASE AgreeOnStatus(r)
    BY <2>16 DEF AgreeOnStatus, AnyFailed
  <2>17. CASE Cleanup(r)
    BY <2>17 DEF Cleanup
  <2> QED
    BY <1>2, <2>1, <2>2, <2>3, <2>4, <2>5, <2>6, <2>7, <2>8, <2>9, <2>10,
       <2>11, <2>12, <2>13, <2>14, <2>15, <2>16, <2>17 DEF RankStep
<1>3. CASE UNCHANGED vars
  BY <1>3 DEF vars
<1> QED
  BY <1>1, <1>2, <1>3 DEF Next, Terminated

\* When everybody has come to the second gather in good health, each picture is
\* in somebody's records, with its canonical match.
LEMMA ScatterComplete ==
    ASSUME TypeOK, Phases, Claiming, NothingLost,
           pc[Root] = "Gatherv", entered["Gatherv"] = Ranks,
           \A r \in Ranks : status[r] = "OK"
    PROVE  Scattered = Canonical
<1> USE DEF FromBarrier, PastBarrier, FromWinFree, FromGatherv, FromAllreduce,
            PastAllreduce
<1>1. \A r \in Ranks : ~Finished(r)
  BY RootIsRank DEF Phases, Finished
<1>2. counter >= P
  BY RootIsRank DEF Phases, NothingLost, Drained
<1>3. Root \in entered["Barrier"]
  BY RootIsRank DEF Phases
<1>4. \A i \in Pictures : i < counter
  BY <1>2, PicturesAssumption DEF TypeOK, Pictures
<1>5. \A i \in Pictures : \E r \in Ranks : Owns(r, i)
  BY <1>1, <1>3, <1>4 DEF NothingLost, ClaimsKept
<1>6. \A r \in Ranks : ~Holding(r)
  BY DEF Phases, Holding
<1>7. \A i \in Pictures : \E r \in Ranks : Recorded(r, i)
  BY <1>5, <1>6 DEF Owns, LostAt
<1>8. \A i \in Pictures : \E rec \in Gathered : rec.index = i
  BY <1>7 DEF Gathered, Recorded
<1>9. \A rec \in Gathered : rec.match = Canonical[rec.index]
  BY DEF Gathered, Claiming
<1>10. ASSUME NEW i \in Pictures
       PROVE  Scattered[i] = Canonical[i]
  <2>1. (CHOOSE rec \in Gathered : rec.index = i) \in Gathered
        /\ (CHOOSE rec \in Gathered : rec.index = i).index = i
    BY <1>8
  <2> QED
    BY <1>8, <1>9, <2>1 DEF Scattered
<1> QED
  BY <1>10, CanonicalAssumption DEF Scattered

\* Nobody has a verdict while a rank has yet to enter the reduction.
LEMMA NoEarlyVerdict ==
    ASSUME Phases, NEW r \in Ranks, pc[r] \notin FromAllreduce
    PROVE  \A s \in Ranks : pc[s] \notin PastAllreduce
BY DEF Phases

\* The reduction turns what each rank knows into one verdict.
LEMMA VerdictsStep ==
    TypeOK /\ Phases /\ Claiming /\ NothingLost /\ Verdicts /\ [Next]_vars => Verdicts'
<1> SUFFICES ASSUME TypeOK, Phases, Claiming, NothingLost, Verdicts, [Next]_vars
             PROVE  Verdicts'
  OBVIOUS
<1> USE RootIsRank DEF TypeOK, Verdicts, Goto, Enter, PastAllreduce,
                       FromAllreduce
<1>1. ASSUME NEW r \in Ranks, ApplyFetch(r)
      PROVE  Verdicts'
  BY <1>1 DEF ApplyFetch
<1>2. ASSUME NEW r \in Ranks, RankStep(r)
      PROVE  Verdicts'
  <2>1. CASE CreateSucceeds(r)
    BY <2>1 DEF CreateSucceeds
  <2>2. CASE CreateFails(r)
    BY <2>2 DEF CreateFails
  <2>3. CASE AllocRecords(r)
    BY <2>3 DEF AllocRecords
  <2>4. CASE WinAllocated(r)
    BY <2>4 DEF WinAllocated
  <2>5. CASE InitCounter(r)
    BY <2>5 DEF InitCounter, InitialCount
  <2>6. CASE PassBarrier(r)
    BY <2>6 DEF PassBarrier, BarrierDone, MayClaim
  <2>7. CASE FetchAndOp(r)
    BY <2>7 DEF FetchAndOp
  <2>8. CASE FlushDone(r)
    BY <2>8 DEF FlushDone, StopClaiming
  <2>9. CASE SearchSucceeds(r)
    BY <2>9 DEF SearchSucceeds
  <2>10. CASE SearchFails(r)
    BY <2>10 DEF SearchFails, GiveUpClaiming
  <2>11. CASE WinFreed(r)
    BY <2>11 DEF WinFreed
  <2>12. CASE BeginGather(r)
    BY <2>12 DEF BeginGather
  <2>13. CASE GatherBuffersFail(r)
    <3>1. \A s \in Ranks : pc[s] \notin PastAllreduce
      BY <2>13, NoEarlyVerdict DEF GatherBuffersFail
    <3>2. \A s \in Ranks : status[s] # "OK" => status'[s] # "OK"
      BY <2>13 DEF GatherBuffersFail, MergeStatus
    <3>3. localFailed'[r] <=> status'[r] # "OK"
      BY <2>13 DEF GatherBuffersFail, EnterAllreduce, LocalFailure
    <3>4. \A s \in Ranks : s # r =>
             UNCHANGED <<pc[s], status[s], localFailed[s]>>
      BY <2>13 DEF GatherBuffersFail, MergeStatus, EnterAllreduce
    <3>5. pc' = [pc EXCEPT ![r] = "Allreduce"]
      BY <2>13 DEF GatherBuffersFail, EnterAllreduce
    <3>6. status'[r] # "OK"
      BY <2>13 DEF GatherBuffersFail, MergeStatus
    <3> QED
      BY <3>1, <3>2, <3>3, <3>4, <3>5, <3>6
  <2>14. CASE GatherCounts(r)
    BY <2>14 DEF GatherCounts, GatherDone
  <2>15. CASE GatherRecords(r)
    <3>1. \A s \in Ranks : pc[s] \notin PastAllreduce
      BY <2>15, NoEarlyVerdict DEF GatherRecords
    <3>2. \A s \in Ranks : status[s] # "OK" => status'[s] # "OK"
      BY <2>15 DEF GatherRecords, MergeStatus
    <3>3. localFailed'[r] <=> status'[r] # "OK"
      BY <2>15 DEF GatherRecords, EnterAllreduce, LocalFailure
    <3>4. \A s \in Ranks : s # r =>
             UNCHANGED <<pc[s], status[s], localFailed[s]>>
      BY <2>15 DEF GatherRecords, MergeStatus, EnterAllreduce
    <3>5. pc' = [pc EXCEPT ![r] = "Allreduce"]
      BY <2>15 DEF GatherRecords, EnterAllreduce
    <3>6. pc'[Root] \in FromAllreduce =>
             matches' = Canonical \/ \E s \in Ranks : status'[s] # "OK"
      <4>1. CASE r # Root
        BY <2>15, <3>2, <3>5, <4>1 DEF GatherRecords
      <4>2. CASE r = Root
        <5>1. entered["Gatherv"] = Ranks /\ matches' = Scattered
          BY <2>15, <4>2 DEF GatherRecords, GatherDone, AllArrived
        <5> QED
          BY <2>15, <3>2, <4>2, <5>1, ScatterComplete DEF GatherRecords
      <4> QED
        BY <4>1, <4>2
    <3> QED
      BY <3>1, <3>2, <3>3, <3>4, <3>5, <3>6
  <2>16. CASE AgreeOnStatus(r)
    BY <2>16 DEF AgreeOnStatus, AnyFailed
  <2>17. CASE Cleanup(r)
    BY <2>17 DEF Cleanup
  <2> QED
    BY <1>2, <2>1, <2>2, <2>3, <2>4, <2>5, <2>6, <2>7, <2>8, <2>9, <2>10,
       <2>11, <2>12, <2>13, <2>14, <2>15, <2>16, <2>17 DEF RankStep
<1>3. CASE UNCHANGED vars
  BY <1>3 DEF vars
<1> QED
  BY <1>1, <1>2, <1>3 DEF Next, Terminated

-----------------------------------------------------------------------------
(* The invariant and the theorems *)

LEMMA InitInvariant == Init => IInv
<1> SUFFICES ASSUME Init
             PROVE  IInv
  OBVIOUS
<1> USE DEF Init
<1>1. TypeOK
  BY PicturesAssumption
     DEF TypeOK, Labels, Collectives, Statuses, NoIndex, Results
<1>2. Phases
  BY DEF Phases, FromBarrier, PastBarrier, FromWinFree, FromGatherv,
     FromAllreduce, PastAllreduce, Collectives
<1>3. /\ Claiming
      /\ ClaimsBelowCounter
      /\ ClaimsExclusive
  BY DEF Claiming, ClaimsBelowCounter, ClaimsExclusive, Holding, PastBarrier,
     FromWinFree, FromGatherv, FromAllreduce, PastAllreduce
<1>4. NothingLost
  BY DEF NothingLost, ClaimsKept, Drained, Collectives
<1>5. Verdicts
  BY RootIsRank DEF Verdicts, FromAllreduce, PastAllreduce
<1> QED
  BY <1>1, <1>2, <1>3, <1>4, <1>5 DEF IInv

LEMMA StepInvariant == IInv /\ [Next]_vars => IInv'
BY TypeStep, PhasesStep, ClaimingStep, BelowCounterStep, ExclusiveStep,
   KeptStep, DrainedStep, VerdictsStep DEF IInv, NothingLost

\* The conjunction of the parts is inductive: it holds initially and every step
\* of every rank, of the RMA library and of the collectives preserves it.
THEOREM Invariance == Spec => []IInv
BY InitInvariant, StepInvariant, PTL DEF Spec

\* Every variable keeps its type, for any number of ranks and pictures.
THEOREM TypeCorrectness == Spec => []TypeOK
<1>1. IInv => TypeOK
  BY DEF IInv
<1> QED
  BY <1>1, Invariance, PTL

\* However the fetch-and-adds interleave, no picture is handed out twice
\* (process_claimed_pictures).
THEOREM ExclusiveClaims == Spec => []ClaimsExclusive
<1>1. IInv => ClaimsExclusive
  BY DEF IInv
<1> QED
  BY <1>1, Invariance, PTL

\* Whatever ranks fail, and wherever, no claimed picture disappears silently and
\* a healthy rank leaves the loop only when all pictures were claimed.
THEOREM CompleteDrain == Spec => []NothingLost
<1>1. IInv => NothingLost
  BY DEF IInv
<1> QED
  BY <1>1, Invariance, PTL

\* The buffers that nothing checks suffice: the records that all ranks hold at
\* any time, which the root gathers, are no more than the pictures, since no
\* two of them are of one picture.
THEOREM BuffersSuffice == Spec => []GatherBufferFits
<1>1. IInv => GatherBufferFits
    <2> SUFFICES ASSUME IInv PROVE Cardinality(RecordsHeld) <= P
        BY DEF GatherBufferFits
    <2> DEFINE f == [h \in RecordsHeld |-> records[h[1]][h[2]].index]
    <2>1. \A h \in RecordsHeld :
              /\ h = <<h[1], h[2]>> /\ h[1] \in Ranks /\ h[2] \in DOMAIN records[h[1]]
              /\ records[h[1]][h[2]].index \in Pictures
        <3> SUFFICES ASSUME NEW r \in Ranks, NEW k \in DOMAIN records[r]
                     PROVE  records[r][k].index \in Pictures
            BY DEF RecordsHeld
        <3>1. records[r] \in Seq(Records)
            BY DEF IInv, TypeOK
        <3>2. records[r][k] \in Records
            BY <3>1
        <3> QED
            BY <3>2 DEF Records
    <2>2. \A g, h \in RecordsHeld : f[g] = f[h] => g = h
        BY <2>1 DEF IInv, ClaimsExclusive
    <2>3. f \in Injection(RecordsHeld, Pictures)
        <3>1. f \in [RecordsHeld -> Pictures]
            BY <2>1
        <3> QED
            BY <2>2, <3>1 DEF Injection, IsInjective
    <2>4. IsFiniteSet(Pictures) /\ Cardinality(Pictures) = P
        <3> DEFINE b == P - 1
        <3>1. b \in Int /\ (IF 0 > b THEN 0 ELSE b - 0 + 1) = P
            BY PicturesAssumption
        <3> HIDE DEF b
        <3>2. IsFiniteSet(0 .. b) /\ Cardinality(0 .. b) = IF 0 > b THEN 0 ELSE b - 0 + 1
            BY <3>1, FS_Interval
        <3> QED
            BY <3>1, <3>2 DEF b, Pictures
    <2> HIDE DEF f
    <2> QED
        BY <2>3, <2>4, FS_Injection
<1> QED
    BY <1>1, Invariance, PTL

\* A rank searches only with an open context and a record buffer, and returns
\* without leaking the context.
THEOREM ContextIsDisciplined == Spec => []ContextDiscipline
<1>1. IInv => ContextDiscipline
  BY DEF IInv, Claiming, ContextDiscipline
<1> QED
  BY <1>1, Invariance, PTL

\* The invariant makes an "OK" verdict mean that no rank failed at all.
LEMMA OkMeansNoFault ==
    ASSUME IInv, NEW r \in Ranks, Finished(r), status[r] = "OK"
    PROVE  (\A s \in Ranks : status[s] = "OK") /\ matches = Canonical
<1>1. pc[r] \in PastAllreduce
  BY DEF Finished, PastAllreduce
<1>2. \A s \in Ranks : ~localFailed[s]
  BY <1>1 DEF IInv, Verdicts
<1>3. \A s \in Ranks : pc[s] \in FromAllreduce
  BY <1>1 DEF IInv, Phases
<1>4. \A s \in Ranks : status[s] = "OK"
  BY <1>2, <1>3 DEF IInv, Verdicts, FromAllreduce
<1> QED
  BY <1>3, <1>4, RootIsRank DEF IInv, Verdicts

\* All ranks return the same verdict, and when it is "OK" the root holds the
\* canonical match of every picture.
THEOREM VerdictsAgree == Spec => []VerdictAgreement
<1>1. IInv => VerdictAgreement
  BY OkMeansNoFault DEF VerdictAgreement
<1> QED
  BY <1>1, Invariance, PTL

-----------------------------------------------------------------------------
(* Refinement of SearchJob *)

Faulted == \E r \in Ranks : status[r] # "OK"

Verdict == [r \in Ranks |-> IF ~Finished(r) THEN "none"
                            ELSE IF status[r] = "OK" THEN "ok" ELSE "failed"]

\* A step is seen by SearchJob in one of four ways.
Unseen ==
    /\ UNCHANGED <<status, matches>>
    /\ \A r \in Ranks : Finished(r)' <=> Finished(r)

NewFault ==
    /\ \A r \in Ranks : ~Finished(r) /\ ~Finished(r)'
    /\ Faulted'
    /\ UNCHANGED matches

NewArray ==
    /\ \A r \in Ranks : ~Finished(r) /\ ~Finished(r)'
    /\ UNCHANGED status
    /\ matches' \in [Pictures -> Results]

\* Every step but a return is unseen, a fault, or a store of the array.
LEMMA StepShape ==
    IInv /\ [Next]_vars =>
        \/ Unseen \/ NewFault \/ NewArray
        \/ \E r \in Ranks : AgreeOnStatus(r)
<1> SUFFICES ASSUME IInv, [Next]_vars
             PROVE  \/ Unseen \/ NewFault \/ NewArray
                    \/ \E r \in Ranks : AgreeOnStatus(r)
  OBVIOUS
<1> USE DEF IInv, TypeOK, Goto, Enter, Finished
<1>1. ASSUME NEW r \in Ranks, pc[r] \notin FromAllreduce, UNCHANGED matches,
             status'[r] # "OK",
             pc'[r] \notin PastAllreduce,
             \A s \in Ranks : s # r => pc'[s] = pc[s]
      PROVE  NewFault
  <2>1. \A s \in Ranks : pc[s] \notin PastAllreduce
    BY <1>1, NoEarlyVerdict
  <2> QED
    BY <1>1, <2>1 DEF NewFault, Faulted, PastAllreduce
<1>2. ASSUME NEW r \in Ranks, RankStep(r)
      PROVE  \/ Unseen \/ NewFault \/ NewArray
             \/ \E s \in Ranks : AgreeOnStatus(s)
  <2>1. CASE CreateSucceeds(r)
    BY <2>1 DEF CreateSucceeds, Unseen
  <2>2. CASE CreateFails(r)
    BY <1>1, <2>2 DEF CreateFails, FromAllreduce, PastAllreduce
  <2>3. CASE AllocRecords(r)
    <3>1. CASE UNCHANGED status
      BY <2>3, <3>1 DEF AllocRecords, Unseen
    <3>2. CASE status' = [status EXCEPT ![r] = "NOMEM"]
      BY <1>1, <2>3, <3>2 DEF AllocRecords, FromAllreduce, PastAllreduce
    <3> QED
      BY <2>3, <3>1, <3>2 DEF AllocRecords
  <2>4. CASE WinAllocated(r)
    BY <2>4 DEF WinAllocated, Unseen
  <2>5. CASE InitCounter(r)
    BY <2>5 DEF InitCounter, Unseen
  <2>6. CASE PassBarrier(r)
    BY <2>6 DEF PassBarrier, Unseen, MayClaim
  <2>7. CASE FetchAndOp(r)
    BY <2>7 DEF FetchAndOp, Unseen
  <2>8. CASE FlushDone(r)
    BY <2>8 DEF FlushDone, Unseen, StopClaiming
  <2>9. CASE SearchSucceeds(r)
    BY <2>9 DEF SearchSucceeds, Unseen
  <2>10. CASE SearchFails(r)
    BY <1>1, <2>10 DEF SearchFails, GiveUpClaiming, FromAllreduce, PastAllreduce
  <2>11. CASE WinFreed(r)
    BY <2>11 DEF WinFreed, Unseen
  <2>12. CASE BeginGather(r)
    BY <2>12 DEF BeginGather, Unseen
  <2>13. CASE GatherBuffersFail(r)
    BY <1>1, <2>13 DEF GatherBuffersFail, MergeStatus, EnterAllreduce, FromAllreduce, PastAllreduce
  <2>14. CASE GatherCounts(r)
    BY <2>14 DEF GatherCounts, Unseen
  <2>15. CASE GatherRecords(r)
    <3>1. \A rec \in Gathered : rec.index \in Pictures
      <4>1. \A rec \in Gathered : rec \in Records
        BY DEF Gathered
      <4> QED
        BY <4>1 DEF Records
    <3>2. UNCHANGED status
      BY <2>15, <3>1 DEF GatherRecords, MergeStatus
    <3>3. CASE r # Root
      BY <2>15, <3>2, <3>3 DEF GatherRecords, EnterAllreduce, Unseen
    <3>4. CASE r = Root
      <4>1. \A s \in Ranks : ~Finished(s)
        BY <2>15, NoEarlyVerdict DEF GatherRecords, FromAllreduce, PastAllreduce
      <4> QED
        BY <2>15, <3>2, <3>4, <4>1, ScatteredType
           DEF GatherRecords, EnterAllreduce, NewArray
    <3> QED
      BY <3>3, <3>4
  <2>16. CASE AgreeOnStatus(r)
    BY <2>16
  <2>17. CASE Cleanup(r)
    BY <2>17 DEF Cleanup, Unseen
  <2> QED
    BY <1>2, <2>1, <2>2, <2>3, <2>4, <2>5, <2>6, <2>7, <2>8, <2>9, <2>10,
       <2>11, <2>12, <2>13, <2>14, <2>15, <2>16, <2>17 DEF RankStep
<1>3. ASSUME NEW r \in Ranks, ApplyFetch(r)
      PROVE  Unseen
  BY <1>3 DEF ApplyFetch, Unseen
<1>4. CASE UNCHANGED vars
  BY <1>4 DEF vars, Unseen
<1> QED
  BY <1>2, <1>3, <1>4 DEF Next, Terminated

\* A rank leaves the reduction with "OK" only if nobody failed, and otherwise
\* somebody did.
LEMMA ReturnShape ==
    ASSUME IInv, NEW r \in Ranks, AgreeOnStatus(r)
    PROVE  Job!ReturnOk(r) \/ Job!ReturnFailure(r)
<1>1. /\ pc[r] = "Allreduce"
      /\ pc' = [pc EXCEPT ![r] = "cleanup"]
      /\ UNCHANGED matches
      /\ \A s \in Ranks : s # r => status'[s] = status[s]
      /\ status[r] # "OK" => status'[r] # "OK"
  BY DEF AgreeOnStatus, Goto, IInv, TypeOK
<1>2. Finished(r)' /\ ~Finished(r)
  BY <1>1 DEF Finished, IInv, TypeOK
<1>3. \A s \in Ranks : s # r => (Finished(s)' <=> Finished(s))
  BY <1>1 DEF Finished, IInv, TypeOK
<1>4. CASE status'[r] = "OK"
  <2>1. \A s \in Ranks : ~localFailed[s] /\ pc[s] \in FromAllreduce
    BY <1>1, <1>4 DEF AgreeOnStatus, AnyFailed, AllArrived, IInv, TypeOK, Phases
  <2>2. \A s \in Ranks : status[s] = "OK"
    BY <2>1 DEF IInv, Verdicts, FromAllreduce
  <2>3. Verdict' = [Verdict EXCEPT ![r] = "ok"]
    BY <1>1, <1>2, <1>3, <1>4 DEF Verdict
  <2>4. Verdict[r] = "none"
    BY <1>2 DEF Verdict
  <2>5. matches = Canonical /\ UNCHANGED Faulted
    <3>1. \A s \in Ranks : status'[s] = status[s]
      BY <1>1, <1>4, <2>2
    <3> QED
      BY <2>1, <2>2, <3>1, RootIsRank DEF IInv, Verdicts, Faulted
  <2> QED
    BY <1>1, <2>2, <2>3, <2>4, <2>5 DEF Job!ReturnOk, Verdict, Faulted
<1>5. CASE status'[r] # "OK"
  <2>1. \E s \in Ranks : status[s] # "OK"
    <3>1. CASE status[r] # "OK"
      BY <3>1
    <3>2. CASE status[r] = "OK"
      <4>1. PICK s \in Ranks : localFailed[s]
        BY <1>5, <3>2 DEF AgreeOnStatus, AnyFailed, IInv, TypeOK
      <4>2. pc[s] \in FromAllreduce
        BY DEF AgreeOnStatus, AllArrived, IInv, Phases
      <4> QED
        BY <4>1, <4>2 DEF IInv, Verdicts, FromAllreduce
    <3> QED
      BY <3>1, <3>2
  <2>2. \E s \in Ranks : status'[s] # "OK"
    BY <1>5
  <2>3. Verdict' = [Verdict EXCEPT ![r] = "failed"]
    BY <1>1, <1>2, <1>3, <1>5 DEF Verdict
  <2>4. Verdict[r] = "none"
    BY <1>2 DEF Verdict
  <2> QED
    BY <1>1, <2>1, <2>2, <2>3, <2>4 DEF Job!ReturnFailure, Verdict
<1> QED
  BY <1>4, <1>5

LEMMA StepRefines == IInv /\ [Next]_vars => [Job!Next]_(Job!jobVars)
<1> SUFFICES ASSUME IInv, [Next]_vars
             PROVE  [Job!Next]_(Job!jobVars)
  OBVIOUS
<1>1. CASE Unseen
  <2>1. Verdict' = Verdict
    BY <1>1 DEF Unseen, Verdict
  <2>2. Faulted' <=> Faulted
    BY <1>1 DEF Unseen, Faulted
  <2> QED
    BY <1>1, <2>1, <2>2 DEF Job!jobVars, Unseen, Verdict, Faulted
<1>2. CASE NewFault
  <2>1. matches' \in [Pictures -> Results]
    BY <1>2 DEF NewFault, IInv, TypeOK
  <2> QED
    BY <1>2, <2>1 DEF NewFault, Faulted, Job!Next, Job!Fault, Job!Pending
<1>3. CASE NewArray
  BY <1>3 DEF NewArray, Job!Next, Job!Store, Job!Pending
<1>4. ASSUME NEW r \in Ranks, AgreeOnStatus(r)
      PROVE  Job!Next
  BY <1>4, ReturnShape DEF Job!Next
<1> QED
  BY <1>1, <1>2, <1>3, <1>4, StepShape

\* msearch_run_mpi keeps the promise of a runtime: whatever the interleaving,
\* the failures and the number of ranks, it behaves like one search job with
\* one outcome.
THEOREM ImplementsSearchJob == Spec => JobSpec
<1>1. Init => Job!Init
  BY DEF Init, Job!Init, Results, Finished
<1> QED
  BY <1>1, StepRefines, Invariance, PTL DEF Spec, JobSpec, Job!Spec

-----------------------------------------------------------------------------
(* The counter does not run away *)

\* Ranks whose last claim has been paid for: they hold an index past the last
\* picture, or have left the loop.
Spent == {r \in Ranks : \/ r \in entered["Win_free"]
                        \/ Holding(r) /\ index[r] >= P}

CounterInv == Root \in entered["Barrier"] => counter <= P + Cardinality(Spent)

LEMMA RanksFinite == IsFiniteSet(Ranks) /\ Cardinality(Ranks) = R
<1>1. IsFiniteSet(0 .. R - 1) /\ Cardinality(0 .. R - 1) = R
  BY FS_Interval, WorldAssumption
<1> QED
  BY <1>1 DEF Ranks

LEMMA SubsetOfRanks ==
    ASSUME NEW S \in SUBSET Ranks
    PROVE  IsFiniteSet(S) /\ Cardinality(S) \in Nat /\ Cardinality(S) <= R
BY RanksFinite, FS_Subset, FS_CardinalityType

\* A step that leaves the counter alone and no rank unpaid.
LEMMA CounterFrame ==
    ASSUME CounterInv, counter \in Nat, UNCHANGED counter,
           Root \in (entered["Barrier"])' => Root \in entered["Barrier"],
           Spent \subseteq Spent'
    PROVE  CounterInv'
<1>1. Spent \in SUBSET Ranks /\ Spent' \in SUBSET Ranks
  BY DEF Spent
<1>2. Cardinality(Spent) <= Cardinality(Spent')
  BY <1>1, SubsetOfRanks, FS_Subset
<1>3. Cardinality(Spent) \in Nat /\ Cardinality(Spent') \in Nat
  BY <1>1, SubsetOfRanks
<1> QED
  BY <1>2, <1>3, PicturesAssumption DEF CounterInv

\* Each rank pays for one claim past the last picture, then leaves the loop.
LEMMA CounterStep ==
    TypeOK /\ Phases /\ Claiming /\ CounterInv /\ [Next]_vars => CounterInv'
<1> SUFFICES ASSUME TypeOK, Phases, Claiming, CounterInv, [Next]_vars
             PROVE  CounterInv'
  OBVIOUS
<1> USE DEF TypeOK, Goto, Enter, Collectives
<1>1. ASSUME NEW r \in Ranks, ApplyFetch(r)
      PROVE  CounterInv'
  <2>1. /\ index' = [index EXCEPT ![r] = counter]
        /\ counter' = counter + 1
        /\ pending' = pending \ {r}
        /\ UNCHANGED <<pc, entered>>
        /\ pc[r] = "flush"
    BY <1>1 DEF ApplyFetch, Claiming
  <2>2. r \notin Spent
    BY <1>1, <2>1 DEF ApplyFetch, Spent, Holding, Phases, FromWinFree, FromGatherv,
       FromAllreduce, PastAllreduce
  <2>3. Spent \in SUBSET Ranks /\ Spent' \in SUBSET Ranks
    BY DEF Spent
  <2>4. /\ IsFiniteSet(Spent)
        /\ Cardinality(Spent) \in Nat
        /\ Cardinality(Spent') \in Nat
    BY <2>3, SubsetOfRanks
  <2>5. CASE counter < P
    BY <2>1, <2>4, <2>5, PicturesAssumption DEF CounterInv
  <2>6. CASE counter >= P
    <3>1. Spent' = Spent \cup {r}
      BY <2>1, <2>2, <2>6 DEF Spent, Holding
    <3>2. Cardinality(Spent') = Cardinality(Spent) + 1
      BY <2>2, <2>4, <3>1, FS_AddElement
    <3> QED
      BY <2>1, <2>4, <3>2, PicturesAssumption DEF CounterInv
  <2> QED
    BY <2>5, <2>6, PicturesAssumption
<1>2. ASSUME NEW r \in Ranks, RankStep(r)
      PROVE  CounterInv'
  <2>1. CASE CreateSucceeds(r)
    <3>1. Spent \subseteq Spent'
      BY <2>1 DEF CreateSucceeds, Spent, Holding
    <3> QED
      BY <2>1, <3>1, CounterFrame DEF CreateSucceeds
  <2>2. CASE CreateFails(r)
    <3>1. Spent \subseteq Spent'
      BY <2>2 DEF CreateFails, Spent, Holding
    <3> QED
      BY <2>2, <3>1, CounterFrame DEF CreateFails
  <2>3. CASE AllocRecords(r)
    <3>1. Spent \subseteq Spent'
      BY <2>3 DEF AllocRecords, Spent, Holding
    <3> QED
      BY <2>3, <3>1, CounterFrame DEF AllocRecords
  <2>4. CASE WinAllocated(r)
    <3>1. Spent \subseteq Spent'
      BY <2>4 DEF WinAllocated, Spent, Holding
    <3> QED
      BY <2>4, <3>1, CounterFrame DEF WinAllocated
  <2>5. CASE InitCounter(r)
    <3>1. CASE r = Root
      <4>1. counter' = 0
        BY <2>5, <3>1 DEF InitCounter, InitialCount
      <4>2. Cardinality(Spent') \in Nat
        <5>1. Spent' \in SUBSET Ranks
          BY DEF Spent
        <5> QED
          BY <5>1, SubsetOfRanks
      <4> QED
        BY <4>1, <4>2, PicturesAssumption DEF CounterInv
    <3>2. CASE r # Root
      <4>1. Spent \subseteq Spent'
        BY <2>5 DEF InitCounter, Spent, Holding
      <4> QED
        BY <2>5, <3>2, <4>1, CounterFrame DEF InitCounter
    <3> QED
      BY <3>1, <3>2
  <2>6. CASE PassBarrier(r)
    <3>1. Spent \subseteq Spent'
      BY <2>6 DEF PassBarrier, Spent, Holding
    <3> QED
      BY <2>6, <3>1, CounterFrame DEF PassBarrier
  <2>7. CASE FetchAndOp(r)
    <3>1. Spent \subseteq Spent'
      BY <2>7 DEF FetchAndOp, Spent, Holding
    <3> QED
      BY <2>7, <3>1, CounterFrame DEF FetchAndOp
  <2>8. CASE FlushDone(r)
    <3>1. Spent \subseteq Spent'
      BY <2>8 DEF FlushDone, Spent, Holding, FlushComplete, StopClaiming, Exhausted
    <3> QED
      BY <2>8, <3>1, CounterFrame DEF FlushDone, FlushComplete, StopClaiming, Exhausted
  <2>9. CASE SearchSucceeds(r)
    <3>1. Spent \subseteq Spent'
      BY <2>9, PicturesAssumption DEF SearchSucceeds, Spent, Holding, Claiming, Pictures
    <3> QED
      BY <2>9, <3>1, CounterFrame DEF SearchSucceeds, Claiming, Pictures
  <2>10. CASE SearchFails(r)
    <3>1. Spent \subseteq Spent'
      BY <2>10 DEF SearchFails, Spent, Holding, GiveUpClaiming
    <3> QED
      BY <2>10, <3>1, CounterFrame DEF SearchFails, GiveUpClaiming
  <2>11. CASE WinFreed(r)
    <3>1. Spent \subseteq Spent'
      BY <2>11 DEF WinFreed, Spent, Holding
    <3> QED
      BY <2>11, <3>1, CounterFrame DEF WinFreed
  <2>12. CASE BeginGather(r)
    <3>1. Spent \subseteq Spent'
      BY <2>12 DEF BeginGather, Spent, Holding
    <3> QED
      BY <2>12, <3>1, CounterFrame DEF BeginGather
  <2>13. CASE GatherBuffersFail(r)
    <3>1. Spent \subseteq Spent'
      BY <2>13 DEF GatherBuffersFail, Spent, Holding, EnterAllreduce
    <3> QED
      BY <2>13, <3>1, CounterFrame DEF GatherBuffersFail, EnterAllreduce
  <2>14. CASE GatherCounts(r)
    <3>1. Spent \subseteq Spent'
      BY <2>14 DEF GatherCounts, Spent, Holding
    <3> QED
      BY <2>14, <3>1, CounterFrame DEF GatherCounts
  <2>15. CASE GatherRecords(r)
    <3>1. Spent \subseteq Spent'
      BY <2>15 DEF GatherRecords, Spent, Holding, EnterAllreduce
    <3> QED
      BY <2>15, <3>1, CounterFrame DEF GatherRecords, EnterAllreduce
  <2>16. CASE AgreeOnStatus(r)
    <3>1. Spent \subseteq Spent'
      BY <2>16 DEF AgreeOnStatus, Spent, Holding
    <3> QED
      BY <2>16, <3>1, CounterFrame DEF AgreeOnStatus
  <2>17. CASE Cleanup(r)
    <3>1. Spent \subseteq Spent'
      BY <2>17 DEF Cleanup, Spent, Holding
    <3> QED
      BY <2>17, <3>1, CounterFrame DEF Cleanup
  <2> QED
    BY <1>2, <2>1, <2>2, <2>3, <2>4, <2>5, <2>6, <2>7, <2>8, <2>9, <2>10,
       <2>11, <2>12, <2>13, <2>14, <2>15, <2>16, <2>17 DEF RankStep
<1>3. CASE UNCHANGED vars
  BY <1>3, CounterFrame DEF vars, Spent, Holding
<1> QED
  BY <1>1, <1>2, <1>3 DEF Next, Terminated

\* The shared int counter never exceeds the number of pictures by more than the
\* number of ranks.
THEOREM CounterIsBounded == Spec => []CounterBounded
<1>1. Init => CounterInv
  BY DEF Init, CounterInv, Collectives
<1>2. IInv /\ CounterInv /\ [Next]_vars => CounterInv'
  BY CounterStep DEF IInv
<1>3. IInv /\ CounterInv => CounterBounded
  <2>1. Spent \in SUBSET Ranks
    BY DEF Spent
  <2>2. Cardinality(Spent) \in Nat /\ Cardinality(Spent) <= R
    BY <2>1, SubsetOfRanks
  <2> QED
    BY <2>2, WorldAssumption, PicturesAssumption
       DEF IInv, TypeOK, CounterInv, CounterBounded
<1> QED
  BY <1>1, <1>2, <1>3, Invariance, PTL DEF Spec

-----------------------------------------------------------------------------
(* Only the root ever leaves collectives out *)

FromGather == FromGatherv \cup {"Gather"}

\* Which collectives a rank has entered can be read off its pc, but for the
\* root's gathers, of which it has entered both or none when it is past them.
StepsTaken ==
    \A r \in Ranks :
        /\ r \in entered["Win_allocate"] <=> pc[r] \notin {"create", "records"}
        /\ r \in entered["Gather"] => pc[r] \in FromGather
        /\ pc[r] \in {"Gather", "Gatherv"} => r \in entered["Gather"]
        /\ r \in entered["Gatherv"] => pc[r] \in FromGatherv
        /\ pc[r] = "Gatherv" => r \in entered["Gatherv"]
        /\ pc[r] \in FromAllreduce =>
               \/ r \in entered["Gather"] /\ r \in entered["Gatherv"]
               \/ r = Root /\ r \notin entered["Gather"] /\ r \notin entered["Gatherv"]

\* Every way out of a phase leads to the next collective.
LEMMA StepsTakenStep ==
    TypeOK /\ StepsTaken /\ [Next]_vars => StepsTaken'
<1> SUFFICES ASSUME TypeOK, StepsTaken, [Next]_vars
             PROVE  StepsTaken'
  OBVIOUS
<1> USE DEF TypeOK, StepsTaken, Goto, Enter, Collectives, PastAllreduce,
            FromAllreduce, FromGatherv, FromGather
<1>1. ASSUME NEW r \in Ranks, ApplyFetch(r)
      PROVE  StepsTaken'
  BY <1>1 DEF ApplyFetch
<1>2. ASSUME NEW r \in Ranks, RankStep(r)
      PROVE  StepsTaken'
  <2>1. CASE CreateSucceeds(r)
    BY <2>1 DEF CreateSucceeds
  <2>2. CASE CreateFails(r)
    BY <2>2 DEF CreateFails
  <2>3. CASE AllocRecords(r)
    BY <2>3 DEF AllocRecords
  <2>4. CASE WinAllocated(r)
    BY <2>4 DEF WinAllocated
  <2>5. CASE InitCounter(r)
    BY <2>5 DEF InitCounter, InitialCount
  <2>6. CASE PassBarrier(r)
    BY <2>6 DEF PassBarrier, BarrierDone, MayClaim
  <2>7. CASE FetchAndOp(r)
    BY <2>7 DEF FetchAndOp
  <2>8. CASE FlushDone(r)
    BY <2>8 DEF FlushDone, StopClaiming
  <2>9. CASE SearchSucceeds(r)
    BY <2>9 DEF SearchSucceeds
  <2>10. CASE SearchFails(r)
    BY <2>10 DEF SearchFails, GiveUpClaiming
  <2>11. CASE WinFreed(r)
    BY <2>11 DEF WinFreed
  <2>12. CASE BeginGather(r)
    BY <2>12 DEF BeginGather
  <2>13. CASE GatherBuffersFail(r)
    BY <2>13 DEF GatherBuffersFail, MergeStatus, EnterAllreduce, LocalFailure
  <2>14. CASE GatherCounts(r)
    BY <2>14 DEF GatherCounts, GatherDone
  <2>15. CASE GatherRecords(r)
    BY <2>15 DEF GatherRecords, MergeStatus, EnterAllreduce, LocalFailure,
                 GatherDone
  <2>16. CASE AgreeOnStatus(r)
    BY <2>16 DEF AgreeOnStatus, AnyFailed
  <2>17. CASE Cleanup(r)
    BY <2>17 DEF Cleanup
  <2> QED
    BY <1>2, <2>1, <2>2, <2>3, <2>4, <2>5, <2>6, <2>7, <2>8, <2>9, <2>10,
       <2>11, <2>12, <2>13, <2>14, <2>15, <2>16, <2>17 DEF RankStep
<1>3. CASE UNCHANGED vars
  BY <1>3 DEF vars
<1> QED
  BY <1>1, <1>2, <1>3 DEF Next, Terminated

\* Whatever fails on whichever rank, only the root ever leaves a collective
\* out, and then both gathers and nothing else.
THEOREM OnlyTheRootSkips == Spec => []OnlyRootSkips
<1>1. Init => StepsTaken
  BY DEF Init, StepsTaken, Collectives, FromGather, FromGatherv,
     FromAllreduce, PastAllreduce
<1>2. IInv /\ StepsTaken /\ [Next]_vars => StepsTaken'
  BY StepsTakenStep DEF IInv
<1>3. IInv /\ StepsTaken => OnlyRootSkips
  <2> SUFFICES ASSUME IInv, StepsTaken
               PROVE  OnlyRootSkips
    OBVIOUS
  <2>1. \A c \in Collectives : entered[c] \subseteq Ranks
    BY DEF IInv, TypeOK
  <2>2. \A r \in entered["Allreduce"] :
            \/ r \in entered["Gather"] /\ r \in entered["Gatherv"]
            \/ r = Root /\ RootSkipsGathers
    BY <2>1 DEF IInv, Phases, StepsTaken, RootSkipsGathers, Collectives
  <2>3. entered["Gatherv"] \subseteq entered["Gather"]
    BY <2>1 DEF StepsTaken, Collectives, FromGatherv, FromAllreduce, PastAllreduce
  <2>4. /\ entered["Allreduce"] \cup entered["Gather"] \subseteq entered["Win_free"]
        /\ entered["Win_free"] \subseteq entered["Barrier"]
        /\ entered["Barrier"] \subseteq entered["Win_allocate"]
    BY <2>1 DEF IInv, Phases, StepsTaken, Collectives, FromBarrier,
       PastBarrier, FromWinFree, FromGather, FromGatherv, FromAllreduce,
       PastAllreduce
  <2>5. /\ entered["Allreduce"] \subseteq Accounted("Gather")
        /\ entered["Allreduce"] \subseteq Accounted("Gatherv")
    BY <2>2 DEF Accounted
  <2>6. \A c \in Collectives : entered[c] \subseteq Accounted(c)
    BY DEF Accounted
  <2> QED
    BY <2>3, <2>4, <2>5, <2>6 DEF OnlyRootSkips, CallOrder, Collectives
<1> QED
  BY <1>1, <1>2, <1>3, Invariance, PTL DEF Spec

=============================================================================
