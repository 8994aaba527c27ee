------------------------------ MODULE RunnerMpi ------------------------------
(***************************************************************************)
(* msearch_run_mpi (runtime/runner_mpi.c) called by every rank of a world  *)
(* of two or more: dynamic claiming of pictures through a counter that     *)
(* rank 0 hosts in an RMA window, the gather of the result records on      *)
(* rank 0, and the reduction that makes every rank return the same verdict.*)
(*                                                                         *)
(* A rank is a process; "pc" says which call it is in.  A rank whose pc is *)
(* the name of a collective has entered it, and leaves it when MPI lets    *)
(* it.  The search of a picture is one step: by the determinism contract   *)
(* (backend.h) it yields the picture's canonical match, or it fails.       *)
(***************************************************************************)
EXTENDS Integers, Sequences, FiniteSets

CONSTANTS
    R,              \* world_size
    P,              \* problem->num_pictures
    Canonical,      \* the canonical match of each picture index
    NoMatch,        \* msearch_match_none
    Zeroed,         \* an entry of the caller's calloc'ed array
    FaultSites      \* where a local failure may strike a rank

Root == 0
Ranks == 0 .. R - 1
Pictures == 0 .. P - 1
AllFaultSites == {"create", "records", "search", "gather"}

ASSUME WorldAssumption == R \in Nat /\ R >= 2
ASSUME PicturesAssumption == P \in Nat
ASSUME CanonicalAssumption == Canonical = [i \in Pictures |-> Canonical[i]]
ASSUME FaultAssumption == FaultSites \subseteq AllFaultSites

Matches == {Canonical[i] : i \in Pictures} \cup {NoMatch}
Results == Matches \cup {Zeroed}
Records == [index : Pictures, match : Matches]
NoIndex == -1       \* "index" is not in scope before the claim loop
Statuses == {"OK", "NOMEM", "BACKEND"}
Collectives == {"Win_allocate", "Barrier", "Win_free", "Gather", "Gatherv",
                "Allreduce"}

VARIABLES
    pc,          \* the call each rank is in
    status,      \* the local "status" of msearch_run_mpi
    ctx,         \* the backend context: "null", "open" or "destroyed"
    records,     \* the records a rank has appended, records[0 .. count - 1]
    index,       \* the local "index" of the claim loop
    pending,     \* ranks whose Fetch_and_op the target has not applied yet
    counter,     \* the shared counter in rank 0's window
    entered,     \* for each collective, the ranks that have called it
    localFailed, \* the value each rank contributes to the Allreduce
    matches      \* the result array of the root

vars == <<pc, status, ctx, records, index, pending, counter, entered,
          localFailed, matches>>

-----------------------------------------------------------------------------
(* Moving a rank to its next call. *)

Goto(r, label) == pc' = [pc EXCEPT ![r] = label] /\ UNCHANGED entered

\* The rank calls collective c and is inside it from now on.
Enter(r, c) ==
    /\ pc' = [pc EXCEPT ![r] = c]
    /\ entered' = [entered EXCEPT ![c] = @ \cup {r}]

\* A collective through which data flows from every rank to every rank.
AllArrived(c) == entered[c] = Ranks

\* A gather: the root needs everybody's data; another rank may be let go as
\* soon as it has handed over its own.
GatherDone(r, c) == r = Root => AllArrived(c)

\* Nothing obliges MPI to let it go before the root is there.
HeldByRoot(r) ==
    pc[r] \in {"Gather", "Gatherv"} /\ r # Root /\ Root \notin entered[pc[r]]

\* Rank 0 is inside an MPI call, so the library has to serve its window.
TargetProgress == pc[Root] \in Collectives \cup {"flush"}

-----------------------------------------------------------------------------
Init ==
    /\ pc = [r \in Ranks |-> "create"]
    /\ status = [r \in Ranks |-> "OK"]
    /\ ctx = [r \in Ranks |-> "null"]
    /\ records = [r \in Ranks |-> <<>>]
    /\ index = [r \in Ranks |-> NoIndex]
    /\ pending = {}
    /\ counter \in 0 .. P          \* window memory before it is initialised
    /\ entered = [c \in Collectives |-> {}]
    /\ localFailed = [r \in Ranks |-> FALSE]
    /\ matches = [i \in Pictures |-> Zeroed]

\* backend->create: a failing one leaves ctx NULL.
CreateSucceeds(r) ==
    /\ pc[r] = "create"
    /\ ctx' = [ctx EXCEPT ![r] = "open"]
    /\ Goto(r, "records")
    /\ UNCHANGED <<status, records, index, pending, counter, localFailed,
                   matches>>

CreateFails(r) ==
    /\ pc[r] = "create"
    /\ "create" \in FaultSites
    /\ status' = [status EXCEPT ![r] = "BACKEND"]
    /\ Goto(r, "records")
    /\ UNCHANGED <<ctx, records, index, pending, counter, localFailed,
                   matches>>

\* The record buffer is allocated only for a healthy rank with pictures to
\* search; healthy or not, the rank then calls MPI_Win_allocate.
AllocRecords(r) ==
    /\ pc[r] = "records"
    /\ \/ UNCHANGED status
       \/ /\ status[r] = "OK" /\ P > 0
          /\ "records" \in FaultSites
          /\ status' = [status EXCEPT ![r] = "NOMEM"]
    /\ Enter(r, "Win_allocate")
    /\ UNCHANGED <<ctx, records, index, pending, counter, localFailed,
                   matches>>

\* The window exists once every rank has exchanged its share of it.
WinAllocated(r) ==
    /\ pc[r] = "Win_allocate"
    /\ AllArrived("Win_allocate")
    /\ Goto(r, "init_counter")
    /\ UNCHANGED <<status, ctx, records, index, pending, counter, localFailed,
                   matches>>

InitialCount == 0

InitCounter(r) ==
    /\ pc[r] = "init_counter"
    /\ counter' = IF r = Root THEN InitialCount ELSE counter
    /\ Enter(r, "Barrier")
    /\ UNCHANGED <<status, ctx, records, index, pending, localFailed, matches>>

\* Defect: no barrier between zeroing the counter and the first claim.
NoBarrier == TRUE
BarrierDone == AllArrived("Barrier")

MayClaim(r) == status[r] = "OK"

\* After the barrier and lock_all, only a healthy rank claims; an unhealthy
\* one unlocks at once and waits in MPI_Win_free.
PassBarrier(r) ==
    /\ pc[r] = "Barrier"
    /\ BarrierDone
    /\ \/ MayClaim(r) /\ Goto(r, "claim")
       \/ ~MayClaim(r) /\ Enter(r, "Win_free")
    /\ UNCHANGED <<status, ctx, records, index, pending, counter, localFailed,
                   matches>>

-----------------------------------------------------------------------------
(* process_claimed_pictures *)

FetchAndOp(r) ==
    /\ pc[r] = "claim"
    /\ index' = [index EXCEPT ![r] = 0]
    /\ pending' = pending \cup {r}
    /\ Goto(r, "flush")
    /\ UNCHANGED <<status, ctx, records, counter, localFailed, matches>>

\* The target applies one fetch-and-add; MPI makes it atomic, in any order.
ApplyFetch(r) ==
    /\ r \in pending
    /\ index' = [index EXCEPT ![r] = counter]
    /\ counter' = counter + 1
    /\ pending' = pending \ {r}
    /\ UNCHANGED <<pc, status, ctx, records, entered, localFailed, matches>>

\* Defect: the fetched index is read without a flush.
NoFlush(r) == TRUE
FlushComplete(r) == r \notin pending

\* Defect: the last picture counts as past the end.
ExhaustedTooEarly(i) == i >= P - 1
Exhausted(i) == i >= P

StopClaiming(r) == Enter(r, "Win_free")

\* MPI_Win_flush returns once the operation is complete at the target; an
\* index past the last picture ends the loop and the access epoch.
FlushDone(r) ==
    /\ pc[r] = "flush"
    /\ FlushComplete(r)
    /\ \/ Exhausted(index[r]) /\ StopClaiming(r)
       \/ ~Exhausted(index[r]) /\ Goto(r, "search")
    /\ UNCHANGED <<status, ctx, records, index, pending, counter, localFailed,
                   matches>>

SearchSucceeds(r) ==
    /\ pc[r] = "search"
    /\ records' = [records EXCEPT ![r] =
           Append(@, [index |-> index[r], match |-> Canonical[index[r]]])]
    /\ Goto(r, "claim")
    /\ UNCHANGED <<status, ctx, index, pending, counter, localFailed, matches>>

\* Defect: a failed search is tried again for ever.
RetrySearch(r) == Goto(r, "flush") /\ UNCHANGED status

\* "Stop claiming, but do not abort".
GiveUpClaiming(r) ==
    Enter(r, "Win_free") /\ status' = [status EXCEPT ![r] = "BACKEND"]

SearchFails(r) ==
    /\ pc[r] = "search"
    /\ "search" \in FaultSites
    /\ GiveUpClaiming(r)
    /\ UNCHANGED <<ctx, records, index, pending, counter, localFailed, matches>>

-----------------------------------------------------------------------------
(* gather_records *)

WinFreed(r) ==
    /\ pc[r] = "Win_free"
    /\ AllArrived("Win_free")
    /\ Goto(r, "gather_records")
    /\ UNCHANGED <<status, ctx, records, index, pending, counter, localFailed,
                   matches>>

\* Defect: local_failed is computed before the gather's status is merged in.
StaleFailure(r) == status[r] # "OK"

\* The failure a rank contributes includes that of its gather.
LocalFailure(r) == status'[r] # "OK"

EnterAllreduce(r) ==
    /\ Enter(r, "Allreduce")
    /\ localFailed' = [localFailed EXCEPT ![r] = LocalFailure(r)]

\* Failure of gather_records: it shows unless the rank failed before.
MergeStatus(r, gatherStatus) ==
    status' = [status EXCEPT ![r] = IF @ = "OK" THEN gatherStatus ELSE @]

BeginGather(r) ==
    /\ pc[r] = "gather_records"
    /\ Enter(r, "Gather")
    /\ UNCHANGED <<status, ctx, records, index, pending, counter, localFailed,
                   matches>>

\* The root cannot allocate counts, displs or gathered: "goto done" skips
\* both gathers.
GatherBuffersFail(r) ==
    /\ pc[r] = "gather_records"
    /\ r = Root /\ "gather" \in FaultSites
    /\ MergeStatus(r, "NOMEM")
    /\ EnterAllreduce(r)
    /\ UNCHANGED <<ctx, records, index, pending, counter, matches>>

GatherCounts(r) ==
    /\ pc[r] = "Gather"
    /\ GatherDone(r, "Gather")
    /\ Enter(r, "Gatherv")
    /\ UNCHANGED <<status, ctx, records, index, pending, counter, localFailed,
                   matches>>

\* Every record of every rank, as the root receives them.
Gathered == UNION {{records[s][k] : k \in DOMAIN records[s]} : s \in Ranks}

\* The root's array starts as all "none" and takes the gathered records.
Scattered ==
    [i \in Pictures |->
        IF \E rec \in Gathered : rec.index = i
        THEN (CHOOSE rec \in Gathered : rec.index = i).match
        ELSE NoMatch]

GatherRecords(r) ==
    /\ pc[r] = "Gatherv"
    /\ GatherDone(r, "Gatherv")
    /\ IF r # Root
       THEN MergeStatus(r, "OK") /\ UNCHANGED matches
       ELSE /\ matches' = Scattered
            /\ MergeStatus(r, IF \E rec \in Gathered : rec.index \notin Pictures
                              THEN "BACKEND" ELSE "OK")
    /\ EnterAllreduce(r)
    /\ UNCHANGED <<ctx, records, index, pending, counter>>

-----------------------------------------------------------------------------
\* MPI_Allreduce(MAX) of the contributions.
AnyFailed(r) == \E s \in Ranks : localFailed[s]

\* A rank that was fine itself learns of another's failure.
AgreeOnStatus(r) ==
    /\ pc[r] = "Allreduce"
    /\ AllArrived("Allreduce")
    /\ status' = [status EXCEPT ![r] =
           IF AnyFailed(r) /\ @ = "OK" THEN "BACKEND" ELSE @]
    /\ Goto(r, "cleanup")
    /\ UNCHANGED <<ctx, records, index, pending, counter, localFailed, matches>>

\* free(records), destroy the context if there is one, return.
Cleanup(r) ==
    /\ pc[r] = "cleanup"
    /\ ctx' = [ctx EXCEPT ![r] = IF @ = "open" THEN "destroyed" ELSE @]
    /\ records' = [records EXCEPT ![r] = <<>>]
    /\ Goto(r, "returned")
    /\ UNCHANGED <<status, index, pending, counter, localFailed, matches>>

RankStep(r) ==
    \/ CreateSucceeds(r) \/ CreateFails(r) \/ AllocRecords(r)
    \/ WinAllocated(r) \/ InitCounter(r) \/ PassBarrier(r)
    \/ FetchAndOp(r) \/ FlushDone(r) \/ SearchSucceeds(r) \/ SearchFails(r)
    \/ WinFreed(r) \/ BeginGather(r) \/ GatherBuffersFail(r)
    \/ GatherCounts(r) \/ GatherRecords(r)
    \/ AgreeOnStatus(r) \/ Cleanup(r)

\* The call has returned everywhere.
Terminated ==
    /\ \A r \in Ranks : pc[r] = "returned"
    /\ UNCHANGED vars

Next == (\E r \in Ranks : RankStep(r) \/ ApplyFetch(r)) \/ Terminated

Spec == Init /\ [][Next]_vars

\* Every rank is a process that keeps running: the backend's search is a
\* finite loop, MPI completes a collective all ranks have called, and it
\* serves an RMA operation while its target stays inside the library.  A gather
\* left early and a claim served while rank 0 computes may happen, no more.
Fairness ==
    \A r \in Ranks :
        /\ WF_vars(~HeldByRoot(r) /\ RankStep(r))
        /\ WF_vars(TargetProgress /\ ApplyFetch(r))

FairSpec == Spec /\ Fairness

-----------------------------------------------------------------------------
(* Correctness *)

Labels == Collectives \cup {"create", "records", "init_counter", "claim",
              "flush", "search", "gather_records", "cleanup", "returned"}

\* Every variable stays within the values the code can give it.
TypeOK ==
    /\ pc \in [Ranks -> Labels]
    /\ status \in [Ranks -> Statuses]
    /\ ctx \in [Ranks -> {"null", "open", "destroyed"}]
    /\ records \in [Ranks -> Seq(Records)]
    /\ index \in [Ranks -> Nat \cup {NoIndex}]
    /\ pending \subseteq Ranks
    /\ counter \in Nat
    /\ entered \in [Collectives -> SUBSET Ranks]
    /\ localFailed \in [Ranks -> BOOLEAN]
    /\ matches \in [Pictures -> Results]

\* The rank has the outcome of the reduction and is on its way out.
Finished(r) == pc[r] \in {"cleanup", "returned"}

\* The rank has been given index[r] and has not yet dealt with it.
Holding(r) == pc[r] = "search" \/ (pc[r] = "flush" /\ r \notin pending)

Recorded(r, i) == \E k \in DOMAIN records[r] : records[r][k].index = i

\* The rank was searching picture i when its backend failed.
LostAt(r, i) ==
    status[r] # "OK" /\ index[r] = i /\ ~Recorded(r, i)

\* No picture is claimed twice: the counter hands an index to one rank, once,
\* although every rank adds to it concurrently (the fetch-and-add with its
\* flush, and the barrier between zeroing the counter and the first claim).
ClaimsExclusive ==
    /\ \A r, s \in Ranks : \A k \in DOMAIN records[r], l \in DOMAIN records[s] :
           records[r][k].index = records[s][l].index => r = s /\ k = l
    /\ \A r \in Ranks : Holding(r) =>
           \A s \in Ranks :
               /\ ~Recorded(s, index[r])
               /\ (Holding(s) /\ index[s] = index[r]) => s = r

\* No claimed picture is dropped: until the call ends, each index the counter
\* has passed is recorded, being searched, or was lost by a failed rank; and a
\* rank that ran dry while healthy means that the counter passed them all
\* ("healthy ranks still drain every index").
Owns(r, i) ==
    \/ Recorded(r, i)
    \/ Holding(r) /\ index[r] = i
    \/ LostAt(r, i)

ClaimsKept ==
    (Root \in entered["Barrier"] /\ \A r \in Ranks : ~Finished(r)) =>
        \A i \in Pictures : i < counter => \E r \in Ranks : Owns(r, i)

Drained ==
    (\E r \in entered["Win_free"] : status[r] = "OK") => counter >= P

NothingLost == ClaimsKept /\ Drained

\* The root's gather buffer is sized for num_pictures records: what the ranks
\* send it always fits, and no rank overruns its own buffer of that size.
RecordsHeld == UNION {{r} \X DOMAIN records[r] : r \in Ranks}

GatherBufferFits == Cardinality(RecordsHeld) <= P

\* The counter is an int: it outruns the pictures by at most one claim of each
\* rank, so it cannot climb towards INT_MAX however long the drain lasts.
CounterBounded == Root \in entered["Barrier"] => counter <= P + R

\* A rank uses the backend and its record buffer only when it could set both
\* up; whatever happened to it, it returns without an open context.
ContextDiscipline ==
    \A r \in Ranks :
        /\ pc[r] \in {"claim", "flush", "search"} =>
               ctx[r] = "open" /\ status[r] = "OK"
        /\ pc[r] = "returned" => ctx[r] # "open"

\* Ranks make the same collective calls in the same order: nobody is past a
\* collective that another rank has called and it has skipped ("a rank that
\* fails stops claiming work but still reaches the collectives").
CallOrder == <<"Win_allocate", "Barrier", "Win_free", "Gather", "Gatherv",
               "Allreduce">>

CollectivesInStep ==
    \A j, k \in 1 .. 6 : j < k =>
        (entered[CallOrder[j]] # {} =>
            entered[CallOrder[k]] \subseteq entered[CallOrder[j]])

\* Whatever fails on whichever rank, only the root ever leaves a collective
\* out, and then both gathers and nothing else.
RootSkipsGathers == Root \in entered["Allreduce"] \ entered["Gather"]

Accounted(c) ==
    IF RootSkipsGathers /\ c \in {"Gather", "Gatherv"} THEN entered[c] \cup {Root}
    ELSE entered[c]

OnlyRootSkips ==
    \A j, k \in 1 .. 6 : j < k =>
        (entered[CallOrder[j]] # {} =>
            entered[CallOrder[k]] \subseteq Accounted(CallOrder[j]))

\* "Every rank must agree on success or the caller's control flow diverges",
\* and success means that the root holds the canonical match of each picture.
VerdictAgreement ==
    /\ \A r, s \in Ranks :
           Finished(r) /\ Finished(s) => (status[r] = "OK" <=> status[s] = "OK")
    /\ \A r \in Ranks : Finished(r) /\ status[r] = "OK" => matches = Canonical

\* The distributed runtime keeps the promise of a runtime (SearchJob): the
\* verdict of a rank is what it returns, a fault is a status that is not OK.
Job == INSTANCE SearchJob WITH
    faulted <- \E r \in Ranks : status[r] # "OK",
    verdict <- [r \in Ranks |-> IF ~Finished(r) THEN "none"
                                ELSE IF status[r] = "OK" THEN "ok" ELSE "failed"]

JobSpec == Job!Spec

\* The call returns on every rank, failures or not, unless the root leaves the
\* others in the gathers.
Termination == <>(RootSkipsGathers \/ \A r \in Ranks : pc[r] = "returned")

=============================================================================
