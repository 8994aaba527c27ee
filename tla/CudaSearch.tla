----------------------------- MODULE CudaSearch -----------------------------
(***************************************************************************)
(* cuda_search (backend_cuda.cu).  The host queues the upload of the       *)
(* picture, the reset of the results, one kernel per object and the copy   *)
(* back on one stream, and waits once.  The device executes the stream in  *)
(* order, beside the host; the threads of a kernel run in any order and    *)
(* lower the result of its object with atomicMin.                          *)
(*                                                                         *)
(* The buffers outlive a search: when one starts they hold what creation   *)
(* or an earlier picture left in them.                                     *)
(***************************************************************************)
EXTENDS SearchProblem, Sequences

CONSTANTS
    Block,      \* MSEARCH_CUDA_BLOCK
    MaxBlocks,  \* max_blocks of the device
    MayFail     \* can a CUDA call fail?

\* Without objects cuda_search returns before its first CUDA call.
ASSUME SomeObject == K > 0
ASSUME GridAssumption == Block \in Nat \ {0} /\ MaxBlocks \in Nat \ {0}
ASSUME FailureAssumption == MayFail \in BOOLEAN

VARIABLES
    host,       \* the call the host is in
    k,          \* object whose kernel the host queues next
    stream,     \* what is queued on the stream, the head being executed
    fresh,      \* does d_picture hold this picture?
    dResults,   \* d_results
    hResults,   \* h_results
    pc,         \* where each thread of the running kernel is
    key,        \* the placement it is at
    held,       \* every value the running kernel's result has had
    out,        \* the Match to fill
    returned    \* "no", then the status

hostVars == <<host, k>>
kernelVars == <<pc, key, held>>
searchVars == <<m, hits, out, returned>>
vars == <<searchVars, hostVars, stream, fresh, dResults, hResults, kernelVars>>

Copy(what) == [op |-> what]
Kernel(j) == [op |-> "kernel", object |-> j]

\* want = ceil(placements / block), capped
Blocks(j) ==
    LET want == (Placements(j) + Block - 1) \div Block
    IN  IF want > MaxBlocks THEN MaxBlocks ELSE want

Stride(j) == Blocks(j) * Block
GridThreads(j) == 0 .. Stride(j) - 1
AllThreads == 0 .. MaxBlocks * Block - 1

Init ==
    /\ ValidProblem
    /\ host = "picture"
    /\ k = 0
    /\ stream = <<>>
    /\ fresh = FALSE
    /\ dResults \in [Objects -> {0, NoPlacement}]
    /\ hResults = dResults
    /\ pc = [t \in AllThreads |-> "done"]
    /\ key = [t \in AllThreads |-> 0]
    /\ held = {}
    /\ out = NoMatch
    /\ returned = "no"

-----------------------------------------------------------------------------
(* The host *)

Call(label) == returned = "no" /\ host = label

HostRests == UNCHANGED <<m, hits, fresh, dResults, kernelVars>>

QueuePicture ==
    /\ Call("picture")
    /\ stream' = Append(stream, Copy("picture"))
    /\ host' = "reset"
    /\ UNCHANGED <<out, returned, k, hResults>>
    /\ HostRests

\* Defect: the results of the earlier picture are left in place.
ResultsKept == hResults
Sentinels == [j \in Objects |-> NoPlacement]

QueueReset ==
    /\ Call("reset")
    /\ hResults' = Sentinels
    /\ stream' = Append(stream, Copy("reset"))
    /\ host' = "launch"
    /\ UNCHANGED <<out, returned, k>>
    /\ HostRests

QueueKernel ==
    /\ Call("launch")
    /\ k < K
    /\ \/ Placements(k) = 0 /\ UNCHANGED stream
       \/ Placements(k) > 0 /\ stream' = Append(stream, Kernel(k))
    /\ k' = k + 1
    /\ UNCHANGED <<out, returned, host, hResults>>
    /\ HostRests

QueueCopyBack ==
    /\ Call("launch")
    /\ k = K
    /\ stream' = Append(stream, Copy("results"))
    /\ host' = "sync"
    /\ UNCHANGED <<out, returned, k, hResults>>
    /\ HostRests

\* Defect: the host goes on when it has queued its work.
NoSync == TRUE
StreamDrained == stream = <<>>

\* cudaStreamSynchronize, then the first object with a result.
Pick ==
    /\ Call("sync")
    /\ StreamDrained
    /\ \/ /\ \A j \in Objects : hResults[j] = NoPlacement
          /\ UNCHANGED out
       \/ \E j \in Objects :
              /\ hResults[j] # NoPlacement
              /\ \A i \in Objects : i < j => hResults[i] = NoPlacement
              /\ out' = Answer(j, hResults[j])
    /\ returned' = "OK"
    /\ UNCHANGED <<hostVars, stream, hResults>>
    /\ HostRests

\* CUDA_CHECK: any call may report an error; what is queued still runs.
CallFails ==
    /\ returned = "no"
    /\ MayFail
    /\ returned' = "BACKEND"
    /\ UNCHANGED <<out, hostVars, stream, hResults>>
    /\ HostRests

HostStep ==
    \/ QueuePicture
    \/ QueueReset
    \/ QueueKernel
    \/ QueueCopyBack
    \/ Pick

-----------------------------------------------------------------------------
(* The stream *)

HeadIs(op) == stream # <<>> /\ Head(stream).op = op

DeviceRests == UNCHANGED <<searchVars, hostVars>>

CopyPicture ==
    /\ HeadIs("picture")
    /\ fresh' = TRUE
    /\ stream' = Tail(stream)
    /\ UNCHANGED <<dResults, hResults, kernelVars>>
    /\ DeviceRests

ResetResults ==
    /\ HeadIs("reset")
    /\ dResults' = hResults
    /\ stream' = Tail(stream)
    /\ UNCHANGED <<fresh, hResults, kernelVars>>
    /\ DeviceRests

CopyBack ==
    /\ HeadIs("results")
    /\ hResults' = dResults
    /\ stream' = Tail(stream)
    /\ UNCHANGED <<fresh, dResults, kernelVars>>
    /\ DeviceRests

-----------------------------------------------------------------------------
(* The kernel of the object at the head of the stream *)

Current == Head(stream).object

KernelRuns == held # {}

StartKernel ==
    /\ HeadIs("kernel")
    /\ ~KernelRuns
    /\ pc' = [t \in AllThreads |->
                 IF t \in GridThreads(Current) THEN "check" ELSE "done"]
    /\ key' = [t \in AllThreads |-> t]
    /\ held' = {dResults[Current]}
    /\ UNCHANGED <<stream, fresh, dResults, hResults>>
    /\ DeviceRests

Goto(t, label) == pc' = [pc EXCEPT ![t] = label] /\ UNCHANGED key

ThreadAt(t, label) == KernelRuns /\ pc[t] = label

KernelRests == UNCHANGED <<stream, fresh, hResults>> /\ DeviceRests

\* Defect: the stride is forgotten.
NoStep == 0

\* key += stride
KeyStep == Stride(Current)

InRange(next) == next < Placements(Current)

\* The head of the loop: "key < placements", else the thread is done.
LoopFrom(t, next) ==
    /\ key' = [key EXCEPT ![t] = next]
    /\ pc' = [pc EXCEPT ![t] = IF InRange(next) THEN "read" ELSE "done"]

EarlierObjectMatched == \E j \in Objects : j < Current /\ dResults[j] # NoPlacement

\* earlier_object_matched: results of earlier kernels, all complete.
CheckEarlier(t) ==
    /\ ThreadAt(t, "check")
    /\ \/ EarlierObjectMatched /\ Goto(t, "done")
       \/ ~EarlierObjectMatched /\ LoopFrom(t, key[t])
    /\ UNCHANGED <<dResults, held>>
    /\ KernelRests

\* The volatile read of the minimum: "return" if no later key can improve it.
ReadBest(t) ==
    /\ ThreadAt(t, "read")
    /\ \E snapshot \in held :
           \/ key[t] >= snapshot /\ Goto(t, "done")
           \/ key[t] < snapshot /\ Goto(t, "score")
    /\ UNCHANGED <<dResults, held>>
    /\ KernelRests

\* Only the fresh picture has these hits: in another one, any cell may match.
Matches(t) ==
    IF fresh THEN {IsHit(Current, key[t])} ELSE BOOLEAN

Score(t) ==
    /\ ThreadAt(t, "score")
    /\ \E matches \in Matches(t) :
           \/ matches /\ Goto(t, "min")
           \/ ~matches /\ LoopFrom(t, key[t] + KeyStep)
    /\ UNCHANGED <<dResults, held>>
    /\ KernelRests

Lowered(t) == IF key[t] < dResults[Current] THEN key[t] ELSE dResults[Current]

AtomicMin(t) ==
    /\ ThreadAt(t, "min")
    /\ dResults' = [dResults EXCEPT ![Current] = Lowered(t)]
    /\ held' = held \cup {Lowered(t)}
    /\ LoopFrom(t, key[t] + KeyStep)
    /\ KernelRests

EndKernel ==
    /\ KernelRuns
    /\ \A t \in AllThreads : pc[t] = "done"
    /\ held' = {}
    /\ stream' = Tail(stream)
    /\ UNCHANGED <<fresh, dResults, hResults, pc, key>>
    /\ DeviceRests

ThreadStep(t) == CheckEarlier(t) \/ ReadBest(t) \/ Score(t) \/ AtomicMin(t)

StreamStep ==
    \/ CopyPicture
    \/ ResetResults
    \/ CopyBack
    \/ StartKernel
    \/ EndKernel

-----------------------------------------------------------------------------
Returned == returned # "no" /\ UNCHANGED vars

Next ==
    \/ HostStep
    \/ CallFails
    \/ StreamStep
    \/ \E t \in AllThreads : ThreadStep(t)
    \/ Returned

Spec == Init /\ [][Next]_vars

\* The host runs, the device works off its stream and schedules its threads;
\* nothing obliges a call to fail.
FairSpec ==
    /\ Spec
    /\ WF_vars(HostStep)
    /\ WF_vars(StreamStep)
    /\ \A t \in AllThreads : WF_vars(ThreadStep(t))

-----------------------------------------------------------------------------
(* Properties *)

\* The least matching key of object j, or none: it does not occur, or its
\* kernel gave way to an object before it.
ResultFinal(j) ==
    \/ dResults[j] \in HitKeys(j) /\ \A h \in HitKeys(j) : dResults[j] <= h
    \/ /\ dResults[j] = NoPlacement
       /\ HitKeys(j) = {} \/ \E i \in Objects : i < j /\ HitKeys(i) # {}

\* The early exit across kernels relies on stream order: when a kernel runs, the
\* picture is in place, the result of each earlier object is final, and that of
\* each later one is the sentinel; its threads stay within its placements.
KernelsInOrder ==
    KernelRuns =>
        /\ fresh
        /\ \A j \in Objects : j < Current => ResultFinal(j)
        /\ \A j \in Objects : j > Current => dResults[j] = NoPlacement
        /\ \A t \in AllThreads :
               pc[t] \in {"read", "score", "min"} => key[t] < Placements(Current)

\* Whatever the order of threads, blocks and copies, a search that succeeds
\* answers the canonical match.
Contract == INSTANCE CanonicalSearch

ContractSpec == Contract!Spec

\* The host returns from every search.
Termination == <>(returned # "no")

=============================================================================
