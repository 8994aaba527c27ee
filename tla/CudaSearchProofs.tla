-------------------------- MODULE CudaSearchProofs --------------------------
(***************************************************************************)
(* Proofs about the CUDA backend, for every picture, set of objects, block *)
(* size and grid: the order of the one stream makes the early exit across  *)
(* kernels sound, whatever the threads and the host do meanwhile.          *)
(*                                                                         *)
(* The argument numbers the operations of a search in the order in which   *)
(* the host queues them.  DeviceRank is the first one not executed yet;    *)
(* everything the host and the kernels rely on is a function of it.        *)
(***************************************************************************)
EXTENDS CudaSearch, SearchProblemProofs

-----------------------------------------------------------------------------
(* The inductive invariant *)

QueuedObjects == {j \in Objects : Placements(j) > 0}

Ops == {Copy("picture"), Copy("reset"), Copy("results")}
           \cup {Kernel(j) : j \in QueuedObjects}

\* The place of an operation in the host's program.
Rank(op) ==
    IF op.op = "picture" THEN 0
    ELSE IF op.op = "reset" THEN 1
    ELSE IF op.op = "kernel" THEN 2 + op.object
    ELSE 2 + K

\* The next operation that the host queues ...
HostRank ==
    IF host = "picture" THEN 0
    ELSE IF host = "reset" THEN 1
    ELSE IF host = "launch" THEN 2 + k
    ELSE 3 + K

\* ... and the next that the device completes.
DeviceRank == IF stream = <<>> THEN HostRank ELSE Rank(Head(stream))

\* An object without placements gets no kernel.
Skipped(r) == \E j \in Objects : r = 2 + j /\ Placements(j) = 0

Queued(r) == \E n \in 1 .. Len(stream) : Rank(stream[n]) = r

Labels == {"check", "read", "score", "min", "done"}

TypeOK ==
    /\ ValidProblem
    /\ host \in {"picture", "reset", "launch", "sync"}
    /\ k \in 0 .. K
    /\ host \in {"picture", "reset"} => k = 0
    /\ stream \in Seq(Ops)
    /\ fresh \in BOOLEAN
    /\ dResults \in [Objects -> Nat]
    /\ hResults \in [Objects -> Nat]
    /\ pc \in [AllThreads -> Labels]
    /\ key \in [AllThreads -> Nat]
    /\ held \subseteq Nat
    /\ returned \in {"no", "OK", "BACKEND"}

\* The stream is the rest of the host's program: in its order, and complete
\* but for the objects without placements.
StreamInOrder ==
    /\ \A n \in 1 .. Len(stream) : Rank(stream[n]) < HostRank
    /\ \A i, n \in 1 .. Len(stream) : i < n => Rank(stream[i]) < Rank(stream[n])
    /\ \A r \in Nat : DeviceRank <= r /\ r < HostRank => Queued(r) \/ Skipped(r)

\* The result of object j when its kernel has completed: its least matching
\* key, or none because it does not occur or an earlier object has a result.
Settled(j) ==
    \/ dResults[j] \in HitKeys(j) /\ \A h \in HitKeys(j) : dResults[j] <= h
    \/ /\ dResults[j] = NoPlacement
       /\ HitKeys(j) = {} \/ \E i \in Objects : i < j /\ dResults[i] # NoPlacement

\* What is in the buffers, by how far the device has come.
Buffers ==
    /\ DeviceRank > 0 => fresh
    /\ \A j \in Objects : DeviceRank > 2 + j => Settled(j)
    /\ \A j \in Objects :
           /\ 1 < DeviceRank /\ DeviceRank <= 2 + j
           /\ KernelRuns => j # Current
           => dResults[j] = NoPlacement
    /\ HostRank > 1 /\ DeviceRank < 3 + K => hResults = Sentinels
    /\ DeviceRank = 3 + K => hResults = dResults
    /\ returned = "no" => out = NoMatch

\* Thread t will come to placement h if it goes on.
WillTry(t, h) ==
    /\ pc[t] # "done"
    /\ \E q \in Nat : h = key[t] + q * Stride(Current)

\* The running kernel: its threads stay within the placements and past the
\* scoring hold a match; every value of the result so far is a match or the
\* sentinel, and none is below the present one.
Threads ==
    KernelRuns =>
        /\ HeadIs("kernel")
        /\ dResults[Current] \in held
        /\ \A b \in held :
               dResults[Current] <= b /\ (b = NoPlacement \/ b \in HitKeys(Current))
        /\ \A t \in AllThreads :
               /\ pc[t] \in {"read", "score", "min"} => key[t] < Placements(Current)
               /\ pc[t] = "min" => key[t] \in HitKeys(Current)

\* Either every thread gives way to an earlier object, or no match is forgotten.
NoHitDropped ==
    KernelRuns =>
        /\ EarlierObjectMatched =>
               /\ dResults[Current] = NoPlacement
               /\ \A t \in AllThreads : pc[t] \in {"check", "done"}
        /\ ~EarlierObjectMatched =>
               \A h \in HitKeys(Current) :
                   dResults[Current] <= h \/ \E t \in AllThreads : WillTry(t, h)

IInv == TypeOK /\ StreamInOrder /\ Buffers /\ Threads /\ NoHitDropped

-----------------------------------------------------------------------------
(* The stream *)

LEMMA RankTypes ==
    ASSUME TypeOK
    PROVE  /\ \A op \in Ops : Rank(op) \in 0 .. 2 + K
           /\ HostRank \in 0 .. 3 + K
           /\ DeviceRank \in 0 .. 3 + K
           /\ \A n \in 1 .. Len(stream) : stream[n] \in Ops /\ Rank(stream[n]) \in Nat
           /\ stream # <<>> => Head(stream) \in Ops
<1>1. K \in Nat
    BY ObjectsAssumption
<1>2. ASSUME NEW op \in Ops PROVE Rank(op) \in 0 .. 2 + K
    <2>1. CASE op \in {Copy("picture"), Copy("reset"), Copy("results")}
        BY <1>1, <2>1 DEF Copy, Rank
    <2>2. CASE \E j \in QueuedObjects : op = Kernel(j)
        <3>1. PICK j \in Objects : op = Kernel(j)
            BY <2>2 DEF QueuedObjects
        <3> QED
            BY <1>1, <3>1 DEF Kernel, Rank, Objects
    <2> QED
        BY <2>1, <2>2 DEF Ops
<1>3. HostRank \in 0 .. 3 + K
    BY <1>1 DEF TypeOK, HostRank
<1>4. stream \in Seq(Ops)
    BY DEF TypeOK
<1>5. \A n \in 1 .. Len(stream) : stream[n] \in Ops
    BY <1>4
<1>6. stream # <<>> => Head(stream) \in Ops
    BY <1>4
<1>7. DeviceRank \in 0 .. 3 + K
    BY <1>1, <1>2, <1>3, <1>6 DEF DeviceRank
<1> QED
    BY <1>1, <1>2, <1>3, <1>5, <1>6, <1>7

\* The operation at the head, by its kind.
LEMMA HeadRank ==
    ASSUME TypeOK
    PROVE  /\ HeadIs("picture") => DeviceRank = 0
           /\ HeadIs("reset") => DeviceRank = 1
           /\ HeadIs("results") => DeviceRank = 2 + K
           /\ HeadIs("kernel") =>
                  /\ Current \in Objects /\ Placements(Current) > 0
                  /\ DeviceRank = 2 + Current
<1>1. stream # <<>> => Head(stream) \in Ops
    BY RankTypes
<1>2. ASSUME HeadIs("kernel")
      PROVE  Current \in Objects /\ Placements(Current) > 0 /\ DeviceRank = 2 + Current
    <2>1. stream # <<>> /\ Head(stream) \in Ops /\ Head(stream).op = "kernel"
        BY <1>1, <1>2 DEF HeadIs
    <2>2. Head(stream) \notin {Copy("picture"), Copy("reset"), Copy("results")}
        BY <2>1 DEF Copy
    <2>3. PICK j \in QueuedObjects : Head(stream) = Kernel(j)
        BY <2>1, <2>2 DEF Ops
    <2>4. Current = j /\ Rank(Head(stream)) = 2 + j
        BY <2>3 DEF Current, Kernel, Rank
    <2> QED
        BY <2>1, <2>3, <2>4 DEF DeviceRank, QueuedObjects
<1> QED
    BY <1>2 DEF HeadIs, DeviceRank, Rank

LEMMA ProblemFrame ==
    ASSUME UNCHANGED <<m, hits>>
    PROVE  /\ ValidProblem' = ValidProblem
           /\ Ops' = Ops
           /\ \A j : /\ Placements(j)' = Placements(j)
                     /\ HitKeys(j)' = HitKeys(j)
                     /\ Stride(j)' = Stride(j)
           /\ \A r : Skipped(r)' = Skipped(r)
<1>1. \A j : Span(j)' = Span(j)
    BY DEF Span
<1>2. \A j : Placements(j)' = Placements(j)
    BY <1>1 DEF Placements
<1>3. \A j : Stride(j)' = Stride(j)
    BY <1>2 DEF Stride, Blocks
<1>4. \A j : HitKeys(j)' = HitKeys(j)
    BY <1>1, <1>2 DEF HitKeys, IsHit, Cell
<1>5. ValidProblem' = ValidProblem
    BY <1>1 DEF ValidProblem, Cells
<1>6. Ops' = Ops
    BY <1>2 DEF Ops, QueuedObjects
<1>7. \A r : Skipped(r)' = Skipped(r)
    BY <1>2 DEF Skipped
<1> QED
    BY <1>2, <1>3, <1>4, <1>5, <1>6, <1>7

\* The host queues the operation that is due.
LEMMA Push ==
    ASSUME TypeOK, StreamInOrder, UNCHANGED <<m, hits>>,
           NEW op \in Ops, Rank(op) = HostRank, HostRank' = HostRank + 1,
           stream' = Append(stream, op)
    PROVE  /\ StreamInOrder'
           /\ stream' \in Seq(Ops)
           /\ DeviceRank' = DeviceRank
           /\ stream' # <<>>
           /\ stream # <<>> => Head(stream') = Head(stream)
<1>1. /\ stream \in Seq(Ops) /\ Len(stream) \in Nat
      /\ \A n \in 1 .. Len(stream) : Rank(stream[n]) \in Nat
      /\ HostRank \in Nat /\ DeviceRank \in Nat
    BY RankTypes, ObjectsAssumption DEF TypeOK
<1>2. /\ stream' \in Seq(Ops) /\ stream' # <<>>
      /\ Len(stream') = Len(stream) + 1
      /\ \A n \in 1 .. Len(stream) : stream'[n] = stream[n]
      /\ stream'[Len(stream) + 1] = op
    BY <1>1
<1>3. stream # <<>> => Head(stream') = Head(stream)
    BY <1>1, <1>2
<1>4. DeviceRank' = DeviceRank
    <2>1. CASE stream = <<>>
        <3>1. Head(stream') = op
            BY <1>2, <2>1
        <3> QED
            BY <1>2, <2>1, <3>1 DEF DeviceRank
    <2>2. CASE stream # <<>>
        BY <1>2, <1>3, <2>2 DEF DeviceRank
    <2> QED
        BY <2>1, <2>2
<1>5. \A n \in 1 .. Len(stream') : n \in 1 .. Len(stream) \/ n = Len(stream) + 1
    BY <1>1, <1>2
<1>6. \A n \in 1 .. Len(stream') : Rank(stream'[n]) < HostRank'
    <2> SUFFICES ASSUME NEW n \in 1 .. Len(stream') PROVE Rank(stream'[n]) < HostRank'
        OBVIOUS
    <2>1. CASE n \in 1 .. Len(stream)
        BY <1>1, <1>2, <2>1 DEF StreamInOrder
    <2>2. CASE n = Len(stream) + 1
        BY <1>1, <1>2, <2>2
    <2> QED
        BY <1>5, <2>1, <2>2
<1>7. ASSUME NEW i \in 1 .. Len(stream'), NEW n \in 1 .. Len(stream'), i < n
      PROVE  Rank(stream'[i]) < Rank(stream'[n])
    <2>1. i \in 1 .. Len(stream)
        BY <1>1, <1>2, <1>7
    <2>2. CASE n \in 1 .. Len(stream)
        BY <1>2, <1>7, <2>1, <2>2 DEF StreamInOrder
    <2>3. CASE n = Len(stream) + 1
        BY <1>2, <2>1, <2>3 DEF StreamInOrder
    <2> QED
        BY <1>5, <2>2, <2>3
<1>8. ASSUME NEW r \in Nat, DeviceRank' <= r, r < HostRank'
      PROVE  Queued(r)' \/ Skipped(r)'
    <2>1. CASE r = HostRank
        <3>1. Len(stream) + 1 \in 1 .. Len(stream')
            BY <1>1, <1>2
        <3> QED
            BY <1>2, <2>1, <3>1 DEF Queued
    <2>2. CASE r < HostRank
        <3>1. Queued(r) \/ Skipped(r)
            BY <1>4, <1>8, <2>2 DEF StreamInOrder
        <3>2. ASSUME Queued(r) PROVE Queued(r)'
            BY <1>1, <1>2, <3>2 DEF Queued
        <3> QED
            BY <3>1, <3>2, ProblemFrame
    <2> QED
        BY <1>1, <1>8, <2>1, <2>2
<1> QED
    BY <1>2, <1>3, <1>4, <1>6, <1>7, <1>8 DEF StreamInOrder

\* The device completes the head: what it passes over has no placements.
LEMMA Pop ==
    ASSUME TypeOK, StreamInOrder, UNCHANGED <<m, hits, host, k>>,
           stream # <<>>, stream' = Tail(stream)
    PROVE  /\ StreamInOrder'
           /\ stream' \in Seq(Ops)
           /\ HostRank' = HostRank
           /\ DeviceRank \in Nat /\ DeviceRank' \in Nat
           /\ DeviceRank < DeviceRank'
           /\ DeviceRank' <= HostRank
           /\ \A r \in Nat : DeviceRank < r /\ r < DeviceRank' => Skipped(r)
<1>1. /\ stream \in Seq(Ops) /\ Len(stream) \in Nat /\ Len(stream) > 0
      /\ \A n \in 1 .. Len(stream) : Rank(stream[n]) \in Nat
      /\ HostRank \in Nat /\ DeviceRank \in Nat
    BY RankTypes, ObjectsAssumption DEF TypeOK
<1>2. /\ stream' \in Seq(Ops)
      /\ Len(stream') = Len(stream) - 1
      /\ \A n \in 1 .. Len(stream') : stream'[n] = stream[n + 1] /\ n + 1 \in 1 .. Len(stream)
    BY <1>1
<1>3. HostRank' = HostRank
    BY DEF HostRank
<1>4. DeviceRank = Rank(stream[1]) /\ 1 \in 1 .. Len(stream)
    BY <1>1 DEF DeviceRank
<1>5. \/ Len(stream) = 1 /\ DeviceRank' = HostRank
      \/ Len(stream) > 1 /\ DeviceRank' = Rank(stream[2]) /\ 2 \in 1 .. Len(stream)
    <2>1. CASE Len(stream) = 1
        <3>1. stream' = <<>>
            BY <1>1, <1>2, <2>1
        <3> QED
            BY <1>3, <2>1, <3>1 DEF DeviceRank
    <2>2. CASE Len(stream) > 1
        <3>1. stream' # <<>> /\ Head(stream') = stream[2]
            BY <1>1, <1>2, <2>2
        <3> QED
            BY <1>1, <2>2, <3>1 DEF DeviceRank
    <2>3. \A n \in Nat : n > 0 => n = 1 \/ n > 1
        OBVIOUS
    <2>4. Len(stream) = 1 \/ Len(stream) > 1
        BY ONLY <1>1, <2>3, Zenon
    <2> QED
        BY <2>1, <2>2, <2>4, Zenon
<1>6. /\ DeviceRank < DeviceRank' /\ DeviceRank' <= HostRank /\ DeviceRank' \in Nat
    BY <1>1, <1>4, <1>5 DEF StreamInOrder
<1>7. \A n \in 1 .. Len(stream') : Rank(stream'[n]) < HostRank'
    BY <1>2, <1>3 DEF StreamInOrder
<1>8. \A i, n \in 1 .. Len(stream') : i < n => Rank(stream'[i]) < Rank(stream'[n])
    <2> SUFFICES ASSUME NEW i \in 1 .. Len(stream'), NEW n \in 1 .. Len(stream'), i < n
                 PROVE  Rank(stream'[i]) < Rank(stream'[n])
        OBVIOUS
    <2>1. i + 1 < n + 1 /\ i + 1 \in 1 .. Len(stream) /\ n + 1 \in 1 .. Len(stream)
        BY <1>2
    <2> QED
        BY <1>2, <2>1 DEF StreamInOrder
<1>9. ASSUME NEW r \in Nat, DeviceRank < r, r < HostRank
      PROVE  \/ DeviceRank' <= r /\ Queued(r)'
             \/ Skipped(r)
    <2>1. Queued(r) \/ Skipped(r)
        BY <1>1, <1>9 DEF StreamInOrder
    <2>2. ASSUME Queued(r) PROVE DeviceRank' <= r /\ Queued(r)'
        <3>1. PICK n \in 1 .. Len(stream) : Rank(stream[n]) = r
            BY <2>2 DEF Queued
        <3>2. n # 1
            BY <1>1, <1>4, <1>9, <3>1
        <3>3. n - 1 \in 1 .. Len(stream') /\ stream'[n - 1] = stream[n]
            BY <1>1, <1>2, <3>2
        <3>4. DeviceRank' <= r
            <4>1. DeviceRank' = Rank(stream[2]) /\ 2 \in 1 .. Len(stream)
                BY <1>1, <1>5, <3>2
            <4>2. n = 2 \/ 2 < n
                BY <1>1, <3>2
            <4> QED
                BY <1>1, <3>1, <4>1, <4>2 DEF StreamInOrder
        <3> QED
            BY <3>1, <3>3, <3>4 DEF Queued
    <2> QED
        BY <2>1, <2>2
<1>10. \A r \in Nat : DeviceRank' <= r /\ r < HostRank' => Queued(r)' \/ Skipped(r)'
    BY <1>1, <1>3, <1>6, <1>9, ProblemFrame
<1>11. \A r \in Nat : DeviceRank < r /\ r < DeviceRank' => Skipped(r)
    BY <1>1, <1>6, <1>9
<1> QED
    BY <1>1, <1>2, <1>3, <1>6, <1>7, <1>8, <1>10, <1>11 DEF StreamInOrder

-----------------------------------------------------------------------------
(* Frames *)

LEMMA DeviceBehindHost ==
    ASSUME TypeOK, StreamInOrder
    PROVE  /\ DeviceRank <= HostRank
           /\ DeviceRank \in 0 .. 3 + K /\ HostRank \in 0 .. 3 + K /\ K \in Nat
<1>1. DeviceRank \in 0 .. 3 + K /\ HostRank \in 0 .. 3 + K /\ K \in Nat
    BY RankTypes, ObjectsAssumption
<1>2. CASE stream = <<>>
    BY <1>1, <1>2 DEF DeviceRank
<1>3. CASE stream # <<>>
    <2>1. stream \in Seq(Ops)
        BY DEF TypeOK
    <2>2. Head(stream) = stream[1] /\ 1 \in 1 .. Len(stream)
        BY <1>3, <2>1
    <2> QED
        BY <1>1, <1>3, <2>2 DEF StreamInOrder, DeviceRank
<1> QED
    BY <1>1, <1>2, <1>3

LEMMA SettledFrame ==
    ASSUME UNCHANGED <<m, hits, dResults>>
    PROVE  \A j \in Objects : Settled(j)' = Settled(j)
BY ProblemFrame DEF Settled

\* The kernel does not notice what is queued behind it.
LEMMA KernelFrame ==
    ASSUME Threads, NoHitDropped, UNCHANGED <<m, hits, dResults, kernelVars>>,
           KernelRuns => stream' # <<>> /\ Head(stream') = Head(stream)
    PROVE  /\ Threads' /\ NoHitDropped'
           /\ KernelRuns' = KernelRuns
           /\ KernelRuns => Current' = Current
<1>1. UNCHANGED <<pc, key, held, dResults, m, hits>>
    BY DEF kernelVars
<1>2. KernelRuns' = KernelRuns
    BY <1>1 DEF KernelRuns
<1>3. KernelRuns => Current' = Current
    BY DEF Current
<1>4. Threads'
    BY <1>1, <1>2, <1>3, ProblemFrame DEF Threads, HeadIs
<1>5. NoHitDropped'
    <2> SUFFICES ASSUME KernelRuns
                 PROVE  /\ EarlierObjectMatched' =>
                            /\ dResults'[Current'] = NoPlacement
                            /\ \A t \in AllThreads : pc'[t] \in {"check", "done"}
                        /\ ~EarlierObjectMatched' =>
                            \A h \in HitKeys(Current) :
                                \/ dResults'[Current'] <= h
                                \/ \E t \in AllThreads : WillTry(t, h)'
        BY <1>2, <1>3, ProblemFrame DEF NoHitDropped
    <2>1. EarlierObjectMatched' = EarlierObjectMatched
        BY <1>1, <1>3 DEF EarlierObjectMatched
    <2>2. Stride(Current)' = Stride(Current)
        BY <1>3, ProblemFrame DEF Stride, Blocks, Placements, Span
    <2>3. \A t, h : WillTry(t, h)' = WillTry(t, h)
        BY <1>1, <2>2 DEF WillTry
    <2> QED
        BY <1>1, <1>3, <2>1, <2>3 DEF NoHitDropped
<1> QED
    BY <1>2, <1>3, <1>4, <1>5

\* A step that changes at most what the caller sees.
LEMMA ReturnInvariant ==
    ASSUME IInv,
           UNCHANGED <<m, hits, host, k, stream, fresh, dResults, hResults, pc, key, held>>,
           returned' \in {"no", "OK", "BACKEND"},
           returned' = "no" => UNCHANGED <<out, returned>>
    PROVE  IInv'
<1>1. TypeOK'
    BY ProblemFrame DEF IInv, TypeOK
<1>2. HostRank' = HostRank /\ DeviceRank' = DeviceRank
    BY DEF HostRank, DeviceRank
<1>3. StreamInOrder'
    BY <1>2, ProblemFrame DEF IInv, StreamInOrder, Queued
<1>4. Threads' /\ NoHitDropped' /\ KernelRuns' = KernelRuns /\ Current' = Current
    <2>1. UNCHANGED <<m, hits, dResults, kernelVars>>
        BY DEF kernelVars
    <2>2. KernelRuns => stream' # <<>> /\ Head(stream') = Head(stream)
        BY DEF IInv, Threads, HeadIs
    <2> QED
        BY <2>1, <2>2, KernelFrame DEF IInv, Current
<1>5. Buffers'
    BY <1>2, <1>4, SettledFrame DEF IInv, Buffers
<1> QED
    BY <1>1, <1>3, <1>4, <1>5 DEF IInv

-----------------------------------------------------------------------------
(* The host *)

LEMMA InitInvariant == Init => IInv
<1> SUFFICES ASSUME Init PROVE IInv
    OBVIOUS
<1>1. K \in Nat
    BY ObjectsAssumption
<1>2. /\ ValidProblem /\ host = "picture" /\ k = 0 /\ stream = <<>>
      /\ dResults \in [Objects -> {0, NoPlacement}] /\ hResults = dResults
      /\ pc = [t \in AllThreads |-> "done"] /\ key = [t \in AllThreads |-> 0]
      /\ held = {} /\ out = NoMatch /\ returned = "no"
    BY DEF Init
<1>3. fresh \in BOOLEAN
    BY Zenon DEF Init
<1>4. HostRank = 0 /\ DeviceRank = 0 /\ Len(stream) = 0
    BY <1>2 DEF HostRank, DeviceRank
<1>5. TypeOK
    <2>1. 0 \in Nat /\ NoPlacement \in Nat
        BY DEF NoPlacement
    <2>2. dResults \in [Objects -> Nat] /\ hResults \in [Objects -> Nat]
        BY <1>2, <2>1
    <2>3. /\ pc \in [AllThreads -> Labels] /\ key \in [AllThreads -> Nat]
          /\ held \subseteq Nat /\ k \in 0 .. K
        BY <1>1, <1>2 DEF Labels
    <2>4. stream \in Seq(Ops)
        BY <1>2
    <2> QED
        BY <1>2, <1>3, <2>2, <2>3, <2>4 DEF TypeOK
<1>6. StreamInOrder
    BY <1>4 DEF StreamInOrder
<1>7. Buffers
    BY <1>1, <1>2, <1>4 DEF Buffers, Objects
<1>8. ~KernelRuns
    BY <1>2 DEF KernelRuns
<1> QED
    BY <1>5, <1>6, <1>7, <1>8 DEF IInv, Threads, NoHitDropped

\* The host goes one operation further; if the device waits for it, and the
\* operation is a kernel without placements, the device is one further as well.
LEMMA HostInvariant ==
    ASSUME IInv, returned = "no", HostRests, UNCHANGED <<out, returned>>,
           TypeOK', StreamInOrder',
           stream # <<>> => stream' # <<>> /\ Head(stream') = Head(stream),
           \/ DeviceRank' = DeviceRank
           \/ /\ stream = <<>> /\ Skipped(DeviceRank)
              /\ DeviceRank' = DeviceRank + 1
           ,
           HostRank < 3 + K,
           HostRank' > 1 => hResults' = Sentinels
    PROVE  IInv'
<1> USE DEF IInv
<1>1. /\ DeviceRank <= HostRank /\ DeviceRank \in Nat /\ HostRank \in Nat
      /\ K \in Nat
    BY DeviceBehindHost
<1>2. UNCHANGED <<m, hits, fresh, dResults, kernelVars, out, returned>>
    BY DEF HostRests
<1>3. KernelRuns => stream # <<>>
    BY DEF Threads, HeadIs
<1>4. /\ Threads' /\ NoHitDropped' /\ KernelRuns' = KernelRuns
      /\ KernelRuns => Current' = Current
    BY <1>2, <1>3, KernelFrame
<1>5. DeviceRank' < 3 + K /\ DeviceRank' \in Nat
    <2>1. Skipped(DeviceRank) => DeviceRank < 2 + K
        BY <1>1 DEF Skipped, Objects
    <2> QED
        BY <1>1, <2>1
<1>6. DeviceRank' > 0 => fresh'
    <2>1. Skipped(DeviceRank) => DeviceRank > 0
        BY <1>1 DEF Skipped, Objects
    <2> QED
        BY <1>1, <1>2, <2>1 DEF Buffers
<1>7. ASSUME NEW j \in Objects, DeviceRank' > 2 + j PROVE Settled(j)'
    <2>1. j \in Nat
        BY <1>1 DEF Objects
    <2>2. CASE DeviceRank > 2 + j
        BY <1>2, <2>2, SettledFrame DEF Buffers
    <2>3. CASE DeviceRank = 2 + j /\ stream = <<>> /\ Skipped(DeviceRank)
        <3>1. dResults[j] = NoPlacement
            BY <1>1, <1>3, <2>1, <2>3 DEF Buffers
        <3>2. Placements(j) = 0
            BY <1>1, <2>1, <2>3 DEF Skipped, Objects
        <3>3. HitKeys(j) = {}
            BY <3>2 DEF HitKeys
        <3> QED
            BY <1>2, <3>1, <3>3, SettledFrame DEF Settled
    <2> QED
        BY <1>1, <1>7, <2>1, <2>2, <2>3
<1>8. ASSUME NEW j \in Objects, 1 < DeviceRank', DeviceRank' <= 2 + j,
             KernelRuns' => j # Current'
      PROVE  dResults'[j] = NoPlacement
    <2>1. j \in Nat
        BY <1>1 DEF Objects
    <2>2. 1 < DeviceRank /\ DeviceRank <= 2 + j
        <3>1. Skipped(DeviceRank) => DeviceRank > 1
            BY <1>1 DEF Skipped, Objects
        <3> QED
            BY <1>1, <1>8, <2>1, <3>1
    <2> QED
        BY <1>2, <1>4, <1>8, <2>2 DEF Buffers
<1>9. Buffers'
    BY <1>1, <1>2, <1>5, <1>6, <1>7, <1>8 DEF Buffers
<1> QED
    BY <1>4, <1>9

LEMMA QueuePictureInvariant ==
    ASSUME IInv, QueuePicture
    PROVE  IInv'
<1>1. /\ TypeOK /\ StreamInOrder /\ host = "picture" /\ returned = "no"
      /\ stream' = Append(stream, Copy("picture")) /\ host' = "reset"
      /\ UNCHANGED <<out, returned, k, hResults, m, hits, fresh, dResults, pc, key, held>>
      /\ HostRests
    BY DEF IInv, QueuePicture, Call, HostRests, kernelVars
<1>2. HostRank = 0 /\ HostRank' = 1 /\ Copy("picture") \in Ops /\ Rank(Copy("picture")) = 0
    BY <1>1 DEF HostRank, Ops, Rank, Copy
<1>3. /\ StreamInOrder' /\ stream' \in Seq(Ops) /\ DeviceRank' = DeviceRank
      /\ stream' # <<>> /\ (stream # <<>> => Head(stream') = Head(stream))
    BY <1>1, <1>2, Push
<1>4. TypeOK'
    BY <1>1, <1>3, ProblemFrame DEF TypeOK
<1>5. HostRank < 3 + K
    BY <1>2, ObjectsAssumption
<1> QED
    BY <1>1, <1>2, <1>3, <1>4, <1>5, HostInvariant

LEMMA QueueResetInvariant ==
    ASSUME IInv, QueueReset
    PROVE  IInv'
<1>1. /\ TypeOK /\ StreamInOrder /\ host = "reset" /\ returned = "no"
      /\ stream' = Append(stream, Copy("reset")) /\ host' = "launch"
      /\ hResults' = Sentinels
      /\ UNCHANGED <<out, returned, k, m, hits, fresh, dResults, pc, key, held>>
      /\ HostRests
    BY DEF IInv, QueueReset, Call, HostRests, kernelVars
<1>2. HostRank = 1 /\ Copy("reset") \in Ops /\ Rank(Copy("reset")) = 1
    BY <1>1 DEF HostRank, Ops, Rank, Copy
<1>3. k = 0 /\ HostRank' = 2
    BY <1>1 DEF TypeOK, HostRank
<1>4. /\ StreamInOrder' /\ stream' \in Seq(Ops) /\ DeviceRank' = DeviceRank
      /\ stream' # <<>> /\ (stream # <<>> => Head(stream') = Head(stream))
    BY <1>1, <1>2, <1>3, Push
<1>5. TypeOK'
    <2>1. hResults' \in [Objects -> Nat]
        BY <1>1 DEF Sentinels, NoPlacement
    <2> QED
        BY <1>1, <1>4, <2>1, ProblemFrame DEF TypeOK
<1>6. HostRank < 3 + K
    BY <1>2, ObjectsAssumption
<1> QED
    BY <1>1, <1>4, <1>5, <1>6, HostInvariant

LEMMA QueueKernelInvariant ==
    ASSUME IInv, QueueKernel
    PROVE  IInv'
<1>1. /\ TypeOK /\ StreamInOrder /\ Buffers /\ host = "launch" /\ returned = "no"
      /\ k \in Objects /\ k \in Nat /\ k < K /\ k' = k + 1 /\ host' = host
      /\ UNCHANGED <<out, returned, hResults, m, hits, fresh, dResults, pc, key, held>>
      /\ HostRests /\ K \in Nat
    BY ObjectsAssumption
    DEF IInv, QueueKernel, Call, HostRests, kernelVars, TypeOK, Objects
<1>2. HostRank = 2 + k /\ HostRank' = HostRank + 1 /\ HostRank < 3 + K
    BY <1>1 DEF HostRank
<1>3. DeviceRank <= HostRank /\ DeviceRank \in Nat
    BY <1>1, DeviceBehindHost
<1>4. hResults' = Sentinels
    BY <1>1, <1>2, <1>3 DEF Buffers
<1>5. CASE Placements(k) > 0 /\ stream' = Append(stream, Kernel(k))
    <2>1. Kernel(k) \in Ops /\ Rank(Kernel(k)) = 2 + k
        BY <1>1, <1>5 DEF Ops, QueuedObjects, Kernel, Rank
    <2>2. /\ StreamInOrder' /\ stream' \in Seq(Ops) /\ DeviceRank' = DeviceRank
          /\ stream' # <<>> /\ (stream # <<>> => Head(stream') = Head(stream))
        BY <1>1, <1>2, <1>5, <2>1, Push
    <2>3. TypeOK'
        BY <1>1, <2>2, ProblemFrame DEF TypeOK
    <2> QED
        BY <1>1, <1>2, <1>4, <2>2, <2>3, HostInvariant
<1>6. CASE Placements(k) = 0 /\ UNCHANGED stream
    <2>1. Skipped(HostRank)
        BY <1>1, <1>2, <1>6 DEF Skipped
    <2>2. TypeOK'
        BY <1>1, <1>6, ProblemFrame DEF TypeOK
    <2>3. \/ DeviceRank' = DeviceRank
          \/ stream = <<>> /\ Skipped(DeviceRank) /\ DeviceRank' = DeviceRank + 1
        BY <1>2, <1>6, <2>1 DEF DeviceRank
    <2>4. StreamInOrder'
        <3>1. \A n \in 1 .. Len(stream') : Rank(stream'[n]) < HostRank'
            <4>1. \A n \in 1 .. Len(stream) : Rank(stream[n]) \in Nat /\ Rank(stream[n]) < HostRank
                BY <1>1, RankTypes DEF StreamInOrder
            <4> QED
                BY <1>1, <1>2, <1>6, <4>1
        <3>2. \A i, n \in 1 .. Len(stream') : i < n => Rank(stream'[i]) < Rank(stream'[n])
            BY <1>1, <1>6 DEF StreamInOrder
        <3>3. ASSUME NEW r \in Nat, DeviceRank' <= r, r < HostRank'
              PROVE  Queued(r)' \/ Skipped(r)'
            <4>1. CASE r = HostRank
                BY <1>1, <2>1, <4>1, ProblemFrame
            <4>2. CASE r < HostRank
                <5>1. DeviceRank <= r
                    BY <1>3, <2>3, <3>3
                <5>2. Queued(r) \/ Skipped(r)
                    BY <1>1, <4>2, <5>1 DEF StreamInOrder
                <5>3. Queued(r)' = Queued(r)
                    BY <1>6 DEF Queued
                <5> QED
                    BY <1>1, <5>2, <5>3, ProblemFrame
            <4> QED
                BY <1>1, <1>2, <3>3, <4>1, <4>2
        <3> QED
            BY <3>1, <3>2, <3>3 DEF StreamInOrder
    <2> QED
        BY <1>1, <1>2, <1>4, <1>6, <2>2, <2>3, <2>4, HostInvariant
<1> QED
    BY <1>1, <1>5, <1>6 DEF QueueKernel

LEMMA QueueCopyBackInvariant ==
    ASSUME IInv, QueueCopyBack
    PROVE  IInv'
<1>1. /\ TypeOK /\ StreamInOrder /\ Buffers /\ host = "launch" /\ returned = "no"
      /\ k = K /\ K \in Nat /\ host' = "sync" /\ k' = k
      /\ stream' = Append(stream, Copy("results"))
      /\ UNCHANGED <<out, returned, hResults, m, hits, fresh, dResults, pc, key, held>>
      /\ HostRests
    BY ObjectsAssumption
    DEF IInv, QueueCopyBack, Call, HostRests, kernelVars
<1>2. HostRank = 2 + K /\ HostRank' = HostRank + 1 /\ HostRank < 3 + K
    BY <1>1 DEF HostRank
<1>3. DeviceRank <= HostRank /\ DeviceRank \in Nat
    BY <1>1, DeviceBehindHost
<1>4. hResults' = Sentinels
    BY <1>1, <1>2, <1>3 DEF Buffers
<1>5. Copy("results") \in Ops /\ Rank(Copy("results")) = 2 + K
    BY DEF Ops, Copy, Rank
<1>6. /\ StreamInOrder' /\ stream' \in Seq(Ops) /\ DeviceRank' = DeviceRank
      /\ stream' # <<>> /\ (stream # <<>> => Head(stream') = Head(stream))
    BY <1>1, <1>2, <1>5, Push
<1>7. TypeOK'
    BY <1>1, <1>6, ProblemFrame DEF TypeOK
<1> QED
    BY <1>1, <1>2, <1>4, <1>6, <1>7, HostInvariant

-----------------------------------------------------------------------------
(* The copies of the device *)

\* What every completion of the head has in common.
LEMMA DeviceFrame ==
    ASSUME IInv, DeviceRests, stream # <<>>, stream' = Tail(stream)
    PROVE  /\ StreamInOrder' /\ stream' \in Seq(Ops)
           /\ UNCHANGED <<m, hits, out, returned, host, k>>
           /\ HostRank' = HostRank
           /\ DeviceRank \in Nat /\ DeviceRank' \in Nat /\ HostRank \in Nat /\ K \in Nat
           /\ DeviceRank < DeviceRank' /\ DeviceRank' <= HostRank /\ HostRank <= 3 + K
           /\ \A r \in Nat : DeviceRank < r /\ r < DeviceRank' => Skipped(r)
<1>1. TypeOK /\ StreamInOrder
    BY DEF IInv
<1>2. UNCHANGED <<m, hits, out, returned, host, k>>
    BY DEF DeviceRests, searchVars, hostVars
<1>3. HostRank \in Nat /\ HostRank <= 3 + K /\ K \in Nat
    BY <1>1, DeviceBehindHost
<1> QED
    BY <1>1, <1>2, <1>3, Pop

\* Objects that the device passes over do not fit the picture.
LEMMA SkippedObject ==
    ASSUME NEW j \in Objects, Skipped(2 + j)
    PROVE  HitKeys(j) = {}
<1>1. PICK i \in Objects : 2 + j = 2 + i /\ Placements(i) = 0
    BY DEF Skipped
<1>2. i = j
    BY <1>1, ObjectsAssumption DEF Objects
<1> QED
    BY <1>1, <1>2 DEF HitKeys

LEMMA CopyPictureInvariant ==
    ASSUME IInv, CopyPicture
    PROVE  IInv'
<1>1. /\ TypeOK /\ Buffers /\ stream # <<>> /\ stream' = Tail(stream)
      /\ UNCHANGED <<dResults, hResults, pc, key, held>> /\ DeviceRests
      /\ DeviceRank = 0 /\ ~KernelRuns
    BY HeadRank DEF IInv, CopyPicture, HeadIs, kernelVars, Threads
<1>2. fresh' /\ fresh' \in BOOLEAN
    BY Zenon DEF CopyPicture
<1>3. /\ StreamInOrder' /\ stream' \in Seq(Ops)
      /\ UNCHANGED <<m, hits, out, returned, host, k>>
      /\ HostRank' = HostRank /\ DeviceRank' \in Nat /\ K \in Nat
      /\ DeviceRank' > 0
      /\ \A r \in Nat : DeviceRank < r /\ r < DeviceRank' => Skipped(r)
    BY <1>1, DeviceFrame
<1>4. TypeOK'
    BY <1>1, <1>2, <1>3, ProblemFrame DEF TypeOK
<1>5. ~KernelRuns'
    BY <1>1 DEF KernelRuns
<1>6. ~Skipped(1)
    BY <1>3 DEF Skipped, Objects
<1>7. DeviceRank' = 1
    BY <1>1, <1>3, <1>6
<1>8. Buffers'
    <2>1. \A j \in Objects : j \in Nat
        BY <1>3 DEF Objects
    <2> QED
        BY <1>1, <1>2, <1>3, <1>7, <2>1 DEF Buffers
<1> QED
    BY <1>3, <1>4, <1>5, <1>8 DEF IInv, Threads, NoHitDropped

LEMMA ResetResultsInvariant ==
    ASSUME IInv, ResetResults
    PROVE  IInv'
<1>1. /\ TypeOK /\ Buffers /\ stream # <<>> /\ stream' = Tail(stream)
      /\ dResults' = hResults
      /\ UNCHANGED <<fresh, hResults, pc, key, held>> /\ DeviceRests
      /\ DeviceRank = 1 /\ ~KernelRuns
    BY HeadRank DEF IInv, ResetResults, HeadIs, kernelVars, Threads
<1>2. /\ StreamInOrder' /\ stream' \in Seq(Ops)
      /\ UNCHANGED <<m, hits, out, returned, host, k>>
      /\ HostRank' = HostRank /\ DeviceRank' \in Nat /\ K \in Nat /\ HostRank \in Nat
      /\ DeviceRank' > 1 /\ HostRank > 1
      /\ \A r \in Nat : DeviceRank < r /\ r < DeviceRank' => Skipped(r)
    BY <1>1, DeviceFrame
<1>3. TypeOK'
    BY <1>1, <1>2, ProblemFrame DEF TypeOK
<1>4. ~KernelRuns'
    BY <1>1 DEF KernelRuns
<1>5. hResults = Sentinels
    BY <1>1, <1>2 DEF Buffers
<1>6. \A j \in Objects : dResults'[j] = NoPlacement
    BY <1>1, <1>5 DEF Sentinels
<1>7. ASSUME NEW j \in Objects, DeviceRank' > 2 + j PROVE Settled(j)'
    <2>1. j \in Nat
        BY <1>2 DEF Objects
    <2>2. Skipped(2 + j)
        BY <1>1, <1>2, <1>7, <2>1
    <2> QED
        BY <1>2, <1>6, <2>2, SkippedObject, ProblemFrame DEF Settled
<1>8. Buffers'
    BY <1>1, <1>2, <1>5, <1>6, <1>7 DEF Buffers
<1> QED
    BY <1>2, <1>3, <1>4, <1>8 DEF IInv, Threads, NoHitDropped

LEMMA CopyBackInvariant ==
    ASSUME IInv, CopyBack
    PROVE  IInv'
<1>1. /\ TypeOK /\ Buffers /\ stream # <<>> /\ stream' = Tail(stream)
      /\ hResults' = dResults
      /\ UNCHANGED <<fresh, dResults, pc, key, held>> /\ DeviceRests
      /\ DeviceRank = 2 + K /\ ~KernelRuns
    BY HeadRank DEF IInv, CopyBack, HeadIs, kernelVars, Threads
<1>2. /\ StreamInOrder' /\ stream' \in Seq(Ops)
      /\ UNCHANGED <<m, hits, out, returned, host, k>>
      /\ HostRank' = HostRank /\ K \in Nat
      /\ DeviceRank' = 3 + K
    BY <1>1, DeviceFrame
<1>3. TypeOK'
    BY <1>1, <1>2, ProblemFrame DEF TypeOK
<1>4. ~KernelRuns'
    BY <1>1 DEF KernelRuns
<1>5. \A j \in Objects : j \in Nat /\ j < K
    BY <1>2 DEF Objects
<1>6. \A j \in Objects : Settled(j)'
    BY <1>1, <1>2, <1>5, SettledFrame DEF Buffers
<1>7. Buffers'
    BY <1>1, <1>2, <1>5, <1>6 DEF Buffers
<1> QED
    BY <1>2, <1>3, <1>4, <1>7 DEF IInv, Threads, NoHitDropped

-----------------------------------------------------------------------------
(* The kernels *)

\* The grid of a kernel is on the device and its threads cover all residues.
LEMMA Grid ==
    ASSUME ValidProblem, NEW j \in Objects, Placements(j) > 0
    PROVE  /\ Stride(j) \in Nat /\ Stride(j) > 0
           /\ GridThreads(j) \subseteq AllThreads
           /\ \A h \in Nat : \E t \in GridThreads(j), q \in Nat : h = t + q * Stride(j)
<1> DEFINE a == Placements(j) + Block - 1
<1> DEFINE want == a \div Block
<1>1. Block \in Nat /\ Block > 0 /\ MaxBlocks \in Nat /\ MaxBlocks > 0
    BY GridAssumption
<1>2. a \in Nat /\ a >= Block
    BY <1>1, KeyTypes
<1>3. want \in Nat /\ a % Block < Block /\ a % Block \in Nat /\ a = want * Block + (a % Block)
    <2> HIDE DEF a
    <2> QED
        BY <1>1, <1>2, DivMod
<1>4. want > 0
    <2> HIDE DEF a, want
    <2> SUFFICES ASSUME want = 0 PROVE FALSE
        BY <1>3
    <2> QED
        BY <1>1, <1>2, <1>3
<1>5. Blocks(j) \in Nat /\ Blocks(j) > 0 /\ Blocks(j) <= MaxBlocks
    <2>1. Blocks(j) = IF want > MaxBlocks THEN MaxBlocks ELSE want
        BY DEF Blocks
    <2> HIDE DEF want
    <2> QED
        BY <1>1, <1>3, <1>4, <2>1
<1>6. Stride(j) = Blocks(j) * Block
    BY DEF Stride
<1>7. Stride(j) \in Nat /\ Block <= Stride(j) /\ Stride(j) <= MaxBlocks * Block
    <2>1. 1 * Block <= Blocks(j) * Block
        BY <1>1, <1>5, ProductMonotone
    <2>2. Blocks(j) * Block <= MaxBlocks * Block
        BY <1>1, <1>5, ProductMonotone
    <2>3. Blocks(j) * Block \in Nat
        BY <1>1, <1>5
    <2> QED
        BY <1>1, <1>6, <2>1, <2>2, <2>3
<1>8. MaxBlocks * Block \in Nat
    BY <1>1
<1>9. GridThreads(j) \subseteq AllThreads
    BY <1>7, <1>8 DEF GridThreads, AllThreads
<1>10. ASSUME NEW h \in Nat
       PROVE  \E t \in GridThreads(j), q \in Nat : h = t + q * Stride(j)
    <2> DEFINE s == Stride(j)
    <2>1. s \in Nat /\ s > 0
        BY <1>1, <1>7
    <2> HIDE DEF s
    <2>2. /\ h \div s \in Nat /\ h % s \in 0 .. s - 1
          /\ h = (h \div s) * s + (h % s)
        BY <2>1, DivMod
    <2>3. h = (h % s) + (h \div s) * s
        BY <2>1, <2>2
    <2> QED
        BY <2>2, <2>3 DEF GridThreads, s
<1> QED
    BY <1>1, <1>7, <1>9, <1>10

\* A thread that goes a stride further leaves out the placement it was at, and
\* those at or beyond the last.
LEMMA StrideDropsOneKey ==
    ASSUME NEW s \in Nat, NEW a \in Nat, NEW h \in Nat, h # a,
           NEW q \in Nat, h = a + q * s
    PROVE  /\ q - 1 \in Nat
           /\ h = (a + s) + (q - 1) * s
           /\ a + s <= h
<1>1. q # 0
    <2> SUFFICES ASSUME q = 0 PROVE FALSE
        OBVIOUS
    <2>1. q * s = 0
        OBVIOUS
    <2> QED
        BY <2>1
<1>2. q - 1 \in Nat
    BY <1>1
<1>3. (q - 1) * s = q * s - s /\ (q - 1) * s \in Nat /\ q * s \in Nat
    BY <1>2
<1> QED
    BY <1>2, <1>3

LEMMA Reachable ==
    ASSUME NEW s \in Nat, NEW a \in Nat, NEW q \in Nat
    PROVE  a <= a + q * s
<1>1. q * s \in Nat
    OBVIOUS
<1> QED
    BY <1>1

LEMMA StartKernelInvariant ==
    ASSUME IInv, StartKernel
    PROVE  IInv'
<1>1. /\ TypeOK /\ StreamInOrder /\ Buffers /\ stream # <<>> /\ ~KernelRuns
      /\ UNCHANGED <<stream, fresh, dResults, hResults, m, hits, out, returned, host, k>>
      /\ HeadIs("kernel")
      /\ pc' = [t \in AllThreads |->
                    IF t \in GridThreads(Current) THEN "check" ELSE "done"]
      /\ key' = [t \in AllThreads |-> t]
      /\ held' = {dResults[Current]}
    BY DEF IInv, StartKernel, HeadIs, DeviceRests, searchVars, hostVars
<1>2. /\ Current \in Objects /\ Placements(Current) > 0 /\ DeviceRank = 2 + Current
      /\ Current \in Nat /\ K \in Nat
    BY <1>1, HeadRank, ObjectsAssumption DEF Objects
<1>3. dResults[Current] = NoPlacement
    BY <1>1, <1>2 DEF Buffers
<1>4. /\ HostRank' = HostRank /\ DeviceRank' = DeviceRank /\ Current' = Current
      /\ HeadIs("kernel")'
    BY <1>1 DEF HostRank, DeviceRank, Current, HeadIs
<1>5. \A t \in AllThreads : t \in Nat
    BY GridAssumption DEF AllThreads
<1>6. TypeOK'
    <2>1. pc' \in [AllThreads -> Labels] /\ key' \in [AllThreads -> Nat] /\ held' \subseteq Nat
        BY <1>1, <1>3, <1>5 DEF Labels, NoPlacement
    <2> QED
        BY <1>1, <2>1, ProblemFrame DEF TypeOK
<1>7. StreamInOrder'
    BY <1>1, <1>4, ProblemFrame DEF StreamInOrder, Queued
<1>8. Buffers'
    <2>1. \A j \in Objects : DeviceRank' > 2 + j => Settled(j)'
        BY <1>1, <1>4, SettledFrame DEF Buffers
    <2> QED
        BY <1>1, <1>4, <2>1 DEF Buffers
<1>9. Threads'
    <2>1. NoPlacement \in Nat
        BY DEF NoPlacement
    <2> QED
        BY <1>1, <1>3, <1>4, <2>1 DEF Threads
<1>10. NoHitDropped'
    <2>1. \A t \in AllThreads : pc'[t] \in {"check", "done"}
        BY <1>1
    <2>2. ASSUME NEW h \in HitKeys(Current)
          PROVE  \E t \in AllThreads : WillTry(t, h)'
        <3>1. h \in Nat
            BY <1>1, <1>2, <2>2, KeyTypes DEF TypeOK
        <3>2. PICK t \in GridThreads(Current), q \in Nat : h = t + q * Stride(Current)
            BY <1>1, <1>2, <3>1, Grid DEF TypeOK
        <3>3. t \in AllThreads /\ pc'[t] = "check" /\ key'[t] = t
            BY <1>1, <1>2, <3>2, Grid DEF TypeOK
        <3>4. Stride(Current)' = Stride(Current)
            BY <1>1, <1>4 DEF Stride, Blocks, Placements, Span
        <3> QED
            BY <3>2, <3>3, <3>4 DEF WillTry
    <2>3. HitKeys(Current)' = HitKeys(Current)
        BY <1>1, <1>4 DEF HitKeys, IsHit, Cell, Placements, Span
    <2> QED
        BY <1>1, <1>3, <1>4, <2>1, <2>2, <2>3 DEF NoHitDropped
<1> QED
    BY <1>6, <1>7, <1>8, <1>9, <1>10 DEF IInv

\* When all threads are done the result of the object is settled.
LEMMA KernelSettles ==
    ASSUME IInv, KernelRuns, \A t \in AllThreads : pc[t] = "done"
    PROVE  Settled(Current)
<1>1. /\ TypeOK /\ Threads /\ NoHitDropped
      /\ Current \in Objects /\ HeadIs("kernel")
    BY HeadRank DEF IInv, Threads
<1>2. \A h \in HitKeys(Current) : h \in Nat /\ h < NoPlacement
    BY <1>1, KeyTypes DEF TypeOK
<1>3. dResults[Current] \in Nat
    BY <1>1 DEF TypeOK
<1>4. CASE EarlierObjectMatched
    BY <1>1, <1>4 DEF NoHitDropped, EarlierObjectMatched, Settled
<1>5. CASE ~EarlierObjectMatched
    <2>1. \A h \in HitKeys(Current) : dResults[Current] <= h
        BY <1>1, <1>5 DEF NoHitDropped, WillTry
    <2>2. dResults[Current] = NoPlacement => HitKeys(Current) = {}
        BY <1>2, <2>1 DEF NoPlacement
    <2>3. dResults[Current] = NoPlacement \/ dResults[Current] \in HitKeys(Current)
        BY <1>1 DEF Threads
    <2> QED
        BY <2>1, <2>2, <2>3 DEF Settled
<1> QED
    BY <1>4, <1>5

LEMMA EndKernelInvariant ==
    ASSUME IInv, EndKernel
    PROVE  IInv'
<1>1. /\ TypeOK /\ Buffers /\ KernelRuns /\ HeadIs("kernel")
      /\ stream # <<>> /\ stream' = Tail(stream) /\ held' = {}
      /\ UNCHANGED <<fresh, dResults, hResults, pc, key>> /\ DeviceRests
      /\ Settled(Current)
    BY KernelSettles DEF IInv, EndKernel, HeadIs, Threads
<1>2. /\ Current \in Objects /\ DeviceRank = 2 + Current /\ Current \in Nat
    BY <1>1, HeadRank, ObjectsAssumption DEF Objects
<1>3. /\ StreamInOrder' /\ stream' \in Seq(Ops)
      /\ UNCHANGED <<m, hits, out, returned, host, k>>
      /\ HostRank' = HostRank /\ K \in Nat /\ HostRank \in Nat /\ HostRank <= 3 + K
      /\ DeviceRank' \in Nat /\ DeviceRank < DeviceRank' /\ DeviceRank' <= HostRank
      /\ \A r \in Nat : DeviceRank < r /\ r < DeviceRank' => Skipped(r)
    BY <1>1, DeviceFrame
<1>4. TypeOK'
    BY <1>1, <1>3, ProblemFrame DEF TypeOK
<1>5. ~KernelRuns'
    BY <1>1 DEF KernelRuns
<1>6. \A j \in Objects : j \in Nat /\ j < K
    BY <1>3 DEF Objects
<1>7. DeviceRank' < 3 + K
    <2>1. ~Skipped(2 + K)
        BY <1>3, <1>6 DEF Skipped
    <2> QED
        BY <1>2, <1>3, <1>6, <2>1
<1>8. ASSUME NEW j \in Objects, DeviceRank' > 2 + j PROVE Settled(j)'
    <2>1. CASE j < Current
        BY <1>1, <1>2, <1>3, <1>6, <2>1, SettledFrame DEF Buffers
    <2>2. CASE j = Current
        BY <1>1, <1>3, <2>2, SettledFrame
    <2>3. CASE j > Current
        <3>1. dResults[j] = NoPlacement
            BY <1>1, <1>2, <1>6, <2>3 DEF Buffers
        <3>2. Skipped(2 + j)
            BY <1>2, <1>3, <1>6, <1>8, <2>3
        <3> QED
            BY <1>1, <1>3, <3>1, <3>2, SkippedObject, SettledFrame DEF Settled
    <2> QED
        BY <1>2, <1>6, <2>1, <2>2, <2>3
<1>9. ASSUME NEW j \in Objects, DeviceRank' <= 2 + j PROVE dResults'[j] = NoPlacement
    BY <1>1, <1>2, <1>3, <1>6, <1>9 DEF Buffers
<1>10. Buffers'
    BY <1>1, <1>2, <1>3, <1>7, <1>8, <1>9 DEF Buffers
<1> QED
    BY <1>3, <1>4, <1>5, <1>10 DEF IInv, Threads, NoHitDropped

\* What holds of the running kernel while a thread takes a step.
LEMMA InKernel ==
    ASSUME IInv, KernelRuns
    PROVE  /\ TypeOK /\ Threads /\ NoHitDropped /\ Buffers /\ HeadIs("kernel")
           /\ Current \in Objects /\ Placements(Current) \in Nat
           /\ DeviceRank = 2 + Current /\ Current \in Nat
           /\ fresh
           /\ dResults[Current] \in Nat /\ held \subseteq Nat
           /\ pc \in [AllThreads -> Labels] /\ key \in [AllThreads -> Nat]
           /\ Stride(Current) \in Nat
           /\ \A h \in HitKeys(Current) : h \in Nat /\ h < Placements(Current)
<1>1. /\ TypeOK /\ Threads /\ NoHitDropped /\ Buffers /\ HeadIs("kernel")
    BY DEF IInv, Threads
<1>2. /\ Current \in Objects /\ Placements(Current) > 0 /\ DeviceRank = 2 + Current
    BY <1>1, HeadRank
<1>3. Current \in Nat
    BY <1>2, ObjectsAssumption DEF Objects
<1>4. fresh
    BY <1>1, <1>2, <1>3 DEF Buffers
<1>5. ValidProblem
    BY <1>1 DEF TypeOK
<1>6. Stride(Current) \in Nat
    BY <1>2, <1>5, Grid
<1>7. dResults[Current] \in Nat /\ held \subseteq Nat
      /\ pc \in [AllThreads -> Labels] /\ key \in [AllThreads -> Nat]
    BY <1>1, <1>2 DEF TypeOK
<1>8. /\ Placements(Current) \in Nat
      /\ \A h \in HitKeys(Current) : h \in Nat /\ h < Placements(Current)
    BY <1>2, <1>5, KeyTypes
<1> QED
    BY <1>1, <1>2, <1>3, <1>4, <1>6, <1>7, <1>8

\* What the head of the loop does to the thread that comes to it.
LEMMA LoopFromEffect ==
    ASSUME IInv, KernelRuns, NEW t \in AllThreads, NEW next \in Nat, LoopFrom(t, next)
    PROVE  /\ pc' = [pc EXCEPT ![t] = pc'[t]]
           /\ key' = [key EXCEPT ![t] = key'[t]]
           /\ key'[t] = next
           /\ \/ pc'[t] = "read" /\ next < Placements(Current)
              \/ pc'[t] = "done" /\ next >= Placements(Current)
<1>1. pc \in [AllThreads -> Labels] /\ key \in [AllThreads -> Nat] /\ Placements(Current) \in Nat
    BY InKernel
<1> QED
    BY <1>1 DEF LoopFrom, InRange

LEMMA GotoEffect ==
    ASSUME IInv, KernelRuns, NEW t \in AllThreads, NEW label, Goto(t, label)
    PROVE  /\ pc' = [pc EXCEPT ![t] = pc'[t]]
           /\ key' = [key EXCEPT ![t] = key'[t]]
           /\ key'[t] = key[t]
           /\ pc'[t] = label
<1>1. pc \in [AllThreads -> Labels] /\ key \in [AllThreads -> Nat]
    BY InKernel
<1> QED
    BY <1>1 DEF Goto

\* Going a stride further drops only the key the thread was at.
LEMMA LoopDropsOneKey ==
    ASSUME IInv, KernelRuns, NEW t \in AllThreads,
           LoopFrom(t, key[t] + KeyStep), UNCHANGED <<m, hits, stream>>,
           NEW h \in HitKeys(Current), WillTry(t, h), h # key[t]
    PROVE  WillTry(t, h)'
<1> DEFINE s == Stride(Current)
<1>1. /\ key[t] \in Nat /\ s \in Nat /\ h \in Nat /\ h < Placements(Current)
      /\ Placements(Current) \in Nat
    BY InKernel
<1>2. PICK q \in Nat : h = key[t] + q * s
    BY DEF WillTry
<1> HIDE DEF s
<1>3. q - 1 \in Nat /\ h = (key[t] + s) + (q - 1) * s /\ key[t] + s <= h
    BY <1>1, <1>2, StrideDropsOneKey
<1>4. key[t] + s \in Nat
    BY <1>1
<1>5. LoopFrom(t, key[t] + s)
    BY DEF KeyStep, s
<1>6. key'[t] = key[t] + s /\ pc'[t] = "read"
    BY <1>1, <1>3, <1>4, <1>5, LoopFromEffect
<1>7. Stride(Current)' = s
    BY DEF Current, Stride, Blocks, Placements, Span, s
<1> QED
    BY <1>3, <1>6, <1>7 DEF WillTry

\* A thread step keeps the invariant if it does so for the thread itself, and
\* lowers the result at most to a match.
LEMMA ThreadInvariant ==
    ASSUME IInv, KernelRuns, KernelRests, NEW t \in AllThreads,
           pc' = [pc EXCEPT ![t] = pc'[t]], pc'[t] \in Labels,
           key' = [key EXCEPT ![t] = key'[t]], key'[t] \in Nat,
           pc'[t] \in {"read", "score", "min"} => key'[t] < Placements(Current),
           pc'[t] = "min" => key'[t] \in HitKeys(Current),
           NEW new \in Nat,
           dResults' = [dResults EXCEPT ![Current] = new],
           held' = held \cup {new},
           new <= dResults[Current],
           new = dResults[Current] \/ new \in HitKeys(Current),
           EarlierObjectMatched => pc'[t] = "done" /\ new = dResults[Current],
           ~EarlierObjectMatched =>
               \A h \in HitKeys(Current) :
                   WillTry(t, h) => new <= h \/ WillTry(t, h)'
    PROVE  IInv'
<1>1. /\ TypeOK /\ Threads /\ NoHitDropped /\ Buffers /\ HeadIs("kernel")
      /\ Current \in Objects /\ Placements(Current) \in Nat
      /\ DeviceRank = 2 + Current /\ Current \in Nat
      /\ dResults[Current] \in Nat /\ held \subseteq Nat
      /\ pc \in [AllThreads -> Labels] /\ key \in [AllThreads -> Nat]
      /\ \A h \in HitKeys(Current) : h \in Nat /\ h < Placements(Current)
      /\ dResults \in [Objects -> Nat]
    BY InKernel DEF TypeOK
<1>2. UNCHANGED <<stream, fresh, hResults, m, hits, out, returned, host, k>>
    BY DEF KernelRests, DeviceRests, searchVars, hostVars
<1>3. /\ HostRank' = HostRank /\ DeviceRank' = DeviceRank /\ Current' = Current
      /\ HeadIs("kernel")'
    BY <1>1, <1>2 DEF HostRank, DeviceRank, Current, HeadIs
<1>4. KernelRuns'
    BY DEF KernelRuns
<1>5. /\ dResults' \in [Objects -> Nat] /\ dResults'[Current] = new
      /\ \A j \in Objects : j # Current => dResults'[j] = dResults[j]
    BY <1>1
<1>6. \A u \in AllThreads : u # t => pc'[u] = pc[u] /\ key'[u] = key[u]
    BY <1>1
<1>7. TypeOK'
    <2>1. pc' \in [AllThreads -> Labels] /\ key' \in [AllThreads -> Nat] /\ held' \subseteq Nat
        BY <1>1
    <2> QED
        BY <1>1, <1>2, <1>5, <2>1, ProblemFrame DEF TypeOK
<1>8. StreamInOrder'
    BY <1>2, <1>3, ProblemFrame DEF IInv, StreamInOrder, Queued
<1>9. Buffers'
    <2>1. ASSUME NEW j \in Objects, DeviceRank' > 2 + j PROVE Settled(j)'
        <3>1. j \in Nat /\ j < Current
            BY <1>1, <1>3, <2>1, ObjectsAssumption DEF Objects
        <3>2. Settled(j)
            BY <1>3, <2>1, <1>1 DEF Buffers
        <3>3. \A i \in Objects : i <= j => dResults'[i] = dResults[i]
            BY <1>1, <1>5, <3>1
        <3>4. \A i \in Objects : i < j => i <= j
            BY ObjectsAssumption, <3>1 DEF Objects
        <3>5. dResults'[j] = dResults[j]
            BY <3>1, <3>3
        <3>6. HitKeys(j)' = HitKeys(j)
            BY <1>2, ProblemFrame
        <3> QED
            BY <3>2, <3>3, <3>4, <3>5, <3>6 DEF Settled
    <2>2. ASSUME NEW j \in Objects, 1 < DeviceRank', DeviceRank' <= 2 + j, j # Current
          PROVE  dResults'[j] = NoPlacement
        BY <1>1, <1>3, <1>5, <2>2 DEF Buffers
    <2>3. DeviceRank < 3 + K
        BY <1>1, ObjectsAssumption DEF Objects
    <2> QED
        BY <1>1, <1>2, <1>3, <1>4, <2>1, <2>2, <2>3, ObjectsAssumption DEF Buffers
<1>10. Threads'
    <2>1. dResults'[Current] \in held'
        BY <1>5
    <2>2. ASSUME NEW b \in held'
          PROVE  new <= b /\ (b = NoPlacement \/ b \in HitKeys(Current))
        <3>1. CASE b \in held
            BY <1>1, <2>2, <3>1 DEF Threads
        <3>2. CASE b = new
            BY <1>1, <3>2 DEF Threads
        <3> QED
            BY <2>2, <3>1, <3>2
    <2>3. ASSUME NEW u \in AllThreads
          PROVE  /\ pc'[u] \in {"read", "score", "min"} => key'[u] < Placements(Current)
                 /\ pc'[u] = "min" => key'[u] \in HitKeys(Current)
        <3>1. CASE u = t
            BY <3>1
        <3>2. CASE u # t
            BY <1>1, <1>6, <3>2 DEF Threads
        <3> QED
            BY <3>1, <3>2
    <2> QED
        BY <1>2, <1>3, <1>5, <2>1, <2>2, <2>3, ProblemFrame DEF Threads
<1>11. NoHitDropped'
    <2>1. EarlierObjectMatched' = EarlierObjectMatched
        BY <1>1, <1>3, <1>5 DEF EarlierObjectMatched, Objects
    <2>2. Stride(Current)' = Stride(Current) /\ HitKeys(Current)' = HitKeys(Current)
        BY <1>2, <1>3 DEF Stride, Blocks, HitKeys, IsHit, Cell, Placements, Span
    <2>3. ASSUME EarlierObjectMatched
          PROVE  /\ dResults'[Current] = NoPlacement
                 /\ \A u \in AllThreads : pc'[u] \in {"check", "done"}
        BY <1>1, <1>5, <1>6, <2>3 DEF NoHitDropped
    <2>4. ASSUME ~EarlierObjectMatched, NEW h \in HitKeys(Current)
          PROVE  new <= h \/ \E u \in AllThreads : WillTry(u, h)'
        <3>1. h \in Nat
            BY <1>1
        <3>2. CASE dResults[Current] <= h
            BY <1>1, <3>1, <3>2
        <3>3. ASSUME NEW u \in AllThreads, u # t, WillTry(u, h) PROVE WillTry(u, h)'
            BY <1>6, <2>2, <3>3 DEF WillTry
        <3> QED
            BY <1>1, <2>4, <3>2, <3>3 DEF NoHitDropped
    <2> QED
        BY <1>3, <1>5, <2>1, <2>2, <2>3, <2>4 DEF NoHitDropped
<1> QED
    BY <1>7, <1>8, <1>9, <1>10, <1>11 DEF IInv

\* The same for a step that leaves the result alone.
LEMMA QuietThreadInvariant ==
    ASSUME IInv, KernelRuns, KernelRests, NEW t \in AllThreads,
           UNCHANGED <<dResults, held>>,
           pc' = [pc EXCEPT ![t] = pc'[t]], pc'[t] \in Labels,
           key' = [key EXCEPT ![t] = key'[t]], key'[t] \in Nat,
           pc'[t] \in {"read", "score", "min"} => key'[t] < Placements(Current),
           pc'[t] = "min" => key'[t] \in HitKeys(Current),
           EarlierObjectMatched => pc'[t] = "done",
           ~EarlierObjectMatched =>
               \A h \in HitKeys(Current) :
                   WillTry(t, h) => dResults[Current] <= h \/ WillTry(t, h)'
    PROVE  IInv'
<1> DEFINE new == dResults[Current]
<1>1. /\ new \in Nat /\ new \in held /\ dResults \in [Objects -> Nat]
      /\ Current \in Objects
    BY InKernel DEF TypeOK, Threads
<1>2. dResults' = [dResults EXCEPT ![Current] = new] /\ held' = held \cup {new}
      /\ new <= dResults[Current]
    BY <1>1
<1> HIDE DEF new
<1>3. new = dResults[Current]
    BY DEF new
<1> QED
    BY <1>1, <1>2, <1>3, ThreadInvariant

\* A thread that has left the check did not find an earlier object's match.
LEMMA PastTheCheck ==
    ASSUME IInv, KernelRuns, NEW t \in AllThreads, pc[t] \in {"read", "score", "min"}
    PROVE  ~EarlierObjectMatched /\ key[t] < Placements(Current)
BY DEF IInv, NoHitDropped, Threads

LEMMA CheckEarlierInvariant ==
    ASSUME IInv, NEW t \in AllThreads, CheckEarlier(t)
    PROVE  IInv'
<1>1. /\ KernelRuns /\ pc[t] = "check" /\ UNCHANGED <<dResults, held>> /\ KernelRests
      /\ UNCHANGED <<m, hits, stream>>
    BY DEF CheckEarlier, ThreadAt, KernelRests, DeviceRests, searchVars
<1>2. /\ key[t] \in Nat /\ Placements(Current) \in Nat /\ Stride(Current) \in Nat
      /\ \A h \in HitKeys(Current) : h \in Nat /\ h < Placements(Current)
    BY <1>1, InKernel
<1>3. Stride(Current)' = Stride(Current)
    BY <1>1 DEF Current, Stride, Blocks, Placements, Span
<1>4. CASE EarlierObjectMatched /\ Goto(t, "done")
    BY <1>1, <1>2, <1>4, GotoEffect, QuietThreadInvariant DEF Labels
<1>5. CASE ~EarlierObjectMatched /\ LoopFrom(t, key[t])
    <2>1. /\ pc' = [pc EXCEPT ![t] = pc'[t]] /\ key' = [key EXCEPT ![t] = key'[t]]
          /\ key'[t] = key[t]
          /\ \/ pc'[t] = "read" /\ key[t] < Placements(Current)
             \/ pc'[t] = "done" /\ key[t] >= Placements(Current)
        BY <1>1, <1>2, <1>5, LoopFromEffect
    <2>2. ASSUME NEW h \in HitKeys(Current), WillTry(t, h) PROVE WillTry(t, h)'
        <3>1. PICK q \in Nat : h = key[t] + q * Stride(Current)
            BY <2>2 DEF WillTry
        <3>2. key[t] <= h
            BY <1>2, <3>1, Reachable
        <3>3. pc'[t] = "read"
            BY <1>2, <2>1, <3>2
        <3> QED
            BY <1>3, <2>1, <3>1, <3>3 DEF WillTry
    <2> QED
        BY <1>1, <1>2, <1>5, <2>1, <2>2, QuietThreadInvariant DEF Labels
<1> QED
    BY <1>4, <1>5 DEF CheckEarlier

LEMMA ReadBestInvariant ==
    ASSUME IInv, NEW t \in AllThreads, ReadBest(t)
    PROVE  IInv'
<1>1. /\ KernelRuns /\ pc[t] = "read" /\ UNCHANGED <<dResults, held>> /\ KernelRests
      /\ UNCHANGED <<m, hits, stream>>
    BY DEF ReadBest, ThreadAt, KernelRests, DeviceRests, searchVars
<1>2. /\ key[t] \in Nat /\ Placements(Current) \in Nat /\ Stride(Current) \in Nat
      /\ dResults[Current] \in Nat /\ held \subseteq Nat
      /\ \A h \in HitKeys(Current) : h \in Nat /\ h < Placements(Current)
    BY <1>1, InKernel
<1>3. ~EarlierObjectMatched /\ key[t] < Placements(Current)
    BY <1>1, PastTheCheck
<1>4. PICK snapshot \in held : \/ key[t] >= snapshot /\ Goto(t, "done")
                               \/ key[t] < snapshot /\ Goto(t, "score")
    BY DEF ReadBest
<1>5. dResults[Current] <= snapshot /\ snapshot \in Nat
    BY <1>1, <1>2, <1>4 DEF IInv, Threads
<1>6. CASE key[t] >= snapshot /\ Goto(t, "done")
    <2>1. ASSUME NEW h \in HitKeys(Current), WillTry(t, h) PROVE dResults[Current] <= h
        <3>1. PICK q \in Nat : h = key[t] + q * Stride(Current)
            BY <2>1 DEF WillTry
        <3>2. key[t] <= h
            BY <1>2, <3>1, Reachable
        <3> QED
            BY <1>2, <1>5, <1>6, <3>2
    <2> QED
        BY <1>1, <1>2, <1>3, <1>6, <2>1, GotoEffect, QuietThreadInvariant DEF Labels
<1>7. CASE Goto(t, "score")
    <2>1. /\ pc' = [pc EXCEPT ![t] = pc'[t]] /\ key' = [key EXCEPT ![t] = key'[t]]
          /\ key'[t] = key[t] /\ pc'[t] = "score"
        BY <1>1, <1>7, GotoEffect
    <2>2. Stride(Current)' = Stride(Current)
        BY <1>1 DEF Current, Stride, Blocks, Placements, Span
    <2>3. \A h : WillTry(t, h) => WillTry(t, h)'
        BY <2>1, <2>2 DEF WillTry
    <2> QED
        BY <1>1, <1>2, <1>3, <2>1, <2>3, QuietThreadInvariant DEF Labels
<1> QED
    BY <1>4, <1>6, <1>7

LEMMA ScoreInvariant ==
    ASSUME IInv, NEW t \in AllThreads, Score(t)
    PROVE  IInv'
<1>1. /\ KernelRuns /\ pc[t] = "score" /\ UNCHANGED <<dResults, held>> /\ KernelRests
      /\ UNCHANGED <<m, hits, stream>>
    BY DEF Score, ThreadAt, KernelRests, DeviceRests, searchVars
<1>2. /\ key[t] \in Nat /\ Placements(Current) \in Nat /\ Stride(Current) \in Nat
      /\ dResults[Current] \in Nat
    BY <1>1, InKernel
<1>3. ~EarlierObjectMatched /\ key[t] < Placements(Current)
    BY <1>1, PastTheCheck
<1>4. \/ IsHit(Current, key[t]) /\ Goto(t, "min")
      \/ ~IsHit(Current, key[t]) /\ LoopFrom(t, key[t] + KeyStep)
    <2>1. fresh
        BY <1>1, InKernel
    <2>2. Matches(t) = {IsHit(Current, key[t])}
        BY <2>1 DEF Matches
    <2>3. PICK matches \in Matches(t) :
              \/ matches /\ Goto(t, "min")
              \/ ~matches /\ LoopFrom(t, key[t] + KeyStep)
        BY DEF Score
    <2>4. matches = IsHit(Current, key[t])
        BY <2>2, <2>3
    <2> QED
        BY <2>3, <2>4, Zenon
<1>5. CASE IsHit(Current, key[t]) /\ Goto(t, "min")
    <2>1. /\ pc' = [pc EXCEPT ![t] = pc'[t]] /\ key' = [key EXCEPT ![t] = key'[t]]
          /\ key'[t] = key[t] /\ pc'[t] = "min"
        BY <1>1, <1>5, GotoEffect
    <2>2. key[t] \in HitKeys(Current)
        BY <1>2, <1>3, <1>5 DEF HitKeys
    <2>3. Stride(Current)' = Stride(Current)
        BY <1>1 DEF Current, Stride, Blocks, Placements, Span
    <2>4. \A h : WillTry(t, h) => WillTry(t, h)'
        BY <2>1, <2>3 DEF WillTry
    <2> QED
        BY <1>1, <1>2, <1>3, <2>1, <2>2, <2>4, QuietThreadInvariant DEF Labels
<1>6. CASE ~IsHit(Current, key[t]) /\ LoopFrom(t, key[t] + KeyStep)
    <2>1. key[t] + KeyStep \in Nat
        BY <1>2 DEF KeyStep
    <2>2. /\ pc' = [pc EXCEPT ![t] = pc'[t]] /\ key' = [key EXCEPT ![t] = key'[t]]
          /\ key'[t] = key[t] + KeyStep
          /\ \/ pc'[t] = "read" /\ key'[t] < Placements(Current)
             \/ pc'[t] = "done"
        BY <1>1, <1>6, <2>1, LoopFromEffect
    <2>3. ASSUME NEW h \in HitKeys(Current), WillTry(t, h) PROVE WillTry(t, h)'
        <3>1. h # key[t]
            BY <1>6 DEF HitKeys
        <3> QED
            BY <1>1, <1>6, <2>3, <3>1, LoopDropsOneKey
    <2> QED
        BY <1>1, <1>2, <1>3, <2>1, <2>2, <2>3, QuietThreadInvariant DEF Labels
<1> QED
    BY <1>4, <1>5, <1>6

LEMMA AtomicMinInvariant ==
    ASSUME IInv, NEW t \in AllThreads, AtomicMin(t)
    PROVE  IInv'
<1> DEFINE new == Lowered(t)
<1>1. /\ KernelRuns /\ pc[t] = "min" /\ KernelRests /\ UNCHANGED <<m, hits, stream>>
      /\ dResults' = [dResults EXCEPT ![Current] = new] /\ held' = held \cup {new}
      /\ LoopFrom(t, key[t] + KeyStep)
    BY DEF AtomicMin, ThreadAt, KernelRests, DeviceRests, searchVars
<1>2. /\ key[t] \in Nat /\ Placements(Current) \in Nat /\ Stride(Current) \in Nat
      /\ dResults[Current] \in Nat
    BY <1>1, InKernel
<1>3. ~EarlierObjectMatched
    BY <1>1, PastTheCheck
<1>4. key[t] \in HitKeys(Current)
    BY <1>1 DEF IInv, Threads
<1>5. /\ new \in Nat /\ new <= dResults[Current] /\ new <= key[t]
      /\ new = dResults[Current] \/ new \in HitKeys(Current)
    BY <1>2, <1>4 DEF Lowered
<1>6. key[t] + KeyStep \in Nat
    BY <1>2 DEF KeyStep
<1>7. /\ pc' = [pc EXCEPT ![t] = pc'[t]] /\ key' = [key EXCEPT ![t] = key'[t]]
      /\ key'[t] = key[t] + KeyStep
      /\ \/ pc'[t] = "read" /\ key'[t] < Placements(Current)
         \/ pc'[t] = "done"
    BY <1>1, <1>6, LoopFromEffect
<1>8. ASSUME NEW h \in HitKeys(Current), WillTry(t, h)
      PROVE  new <= h \/ WillTry(t, h)'
    BY <1>1, <1>5, <1>8, LoopDropsOneKey
<1> HIDE DEF new
<1> QED
    BY <1>1, <1>3, <1>5, <1>6, <1>7, <1>8, ThreadInvariant DEF Labels

-----------------------------------------------------------------------------
(* Theorems *)

LEMMA StepInvariant == IInv /\ [Next]_vars => IInv'
<1> SUFFICES ASSUME IInv, [Next]_vars PROVE IInv'
    OBVIOUS
<1>1. returned \in {"no", "OK", "BACKEND"}
    BY DEF IInv, TypeOK
<1>2. CASE Pick
    BY <1>2, ReturnInvariant DEF Pick, HostRests, hostVars, kernelVars
<1>3. CASE CallFails
    BY <1>3, ReturnInvariant DEF CallFails, HostRests, hostVars, kernelVars
<1>4. CASE UNCHANGED vars
    BY <1>1, <1>4, ReturnInvariant DEF vars, searchVars, hostVars, kernelVars
<1>5. CASE HostStep
    BY <1>2, <1>5, QueuePictureInvariant, QueueResetInvariant, QueueKernelInvariant,
       QueueCopyBackInvariant DEF HostStep
<1>6. CASE StreamStep
    BY <1>6, CopyPictureInvariant, ResetResultsInvariant, CopyBackInvariant,
       StartKernelInvariant, EndKernelInvariant DEF StreamStep
<1>7. ASSUME NEW t \in AllThreads, ThreadStep(t) PROVE IInv'
    BY <1>7, CheckEarlierInvariant, ReadBestInvariant, ScoreInvariant,
       AtomicMinInvariant DEF ThreadStep
<1> QED
    BY <1>3, <1>4, <1>5, <1>6, <1>7 DEF Next, Returned

\* For any picture, objects, block size and grid: the stream, the buffers and
\* the running kernel are what cuda_search relies on.
THEOREM Invariance == Spec => []IInv
<1> QED
    BY InitInvariant, StepInvariant, PTL DEF Spec

\* A completed kernel leaves the least matching key of its object, or none.
LEMMA SettledIsFinal ==
    ASSUME IInv, NEW j \in Objects, DeviceRank > 2 + j
    PROVE  ResultFinal(j)
<1>1. TypeOK /\ Buffers /\ StreamInOrder
    BY DEF IInv
<1>2. Settled(j)
    BY <1>1 DEF Buffers
<1>3. ASSUME NEW i \in Objects, i < j, dResults[i] # NoPlacement PROVE HitKeys(i) # {}
    <2>1. DeviceRank > 2 + i
        BY <1>1, <1>3, DeviceBehindHost DEF Objects
    <2>2. Settled(i)
        BY <1>1, <2>1 DEF Buffers
    <2> QED
        BY <1>3, <2>2 DEF Settled
<1> QED
    BY <1>2, <1>3 DEF Settled, ResultFinal

\* When a kernel runs, the picture was copied and the results were reset
\* before, the result of each earlier object is final and that of each later
\* one is the sentinel: all by the order of the stream, with no other wait.
THEOREM KernelsRunInOrder == Spec => []KernelsInOrder
<1>1. IInv => KernelsInOrder
    <2> SUFFICES ASSUME IInv, KernelRuns
                 PROVE  /\ fresh
                        /\ \A j \in Objects : j < Current => ResultFinal(j)
                        /\ \A j \in Objects : j > Current => dResults[j] = NoPlacement
                        /\ \A t \in AllThreads :
                               pc[t] \in {"read", "score", "min"} =>
                                   key[t] < Placements(Current)
        BY DEF KernelsInOrder
    <2>1. /\ fresh /\ Threads /\ Buffers /\ Current \in Nat /\ DeviceRank = 2 + Current
        BY InKernel
    <2>2. \A j \in Objects : j \in Nat
        BY ObjectsAssumption DEF Objects
    <2>3. \A j \in Objects : j < Current => ResultFinal(j)
        BY <2>1, <2>2, SettledIsFinal
    <2>4. \A j \in Objects : j > Current => dResults[j] = NoPlacement
        BY <2>1, <2>2 DEF Buffers
    <2> QED
        BY <2>1, <2>3, <2>4 DEF Threads
<1> QED
    BY <1>1, Invariance, PTL

\* What the host picks from, after its one wait.
LEMMA PickIsCanonical ==
    ASSUME IInv, Pick
    PROVE  IsCanonical(out')
<1>1. /\ TypeOK /\ Buffers /\ StreamInOrder /\ host = "sync" /\ returned = "no"
      /\ stream = <<>> /\ ValidProblem /\ K \in Nat
    BY ObjectsAssumption DEF IInv, TypeOK, Pick, Call, StreamDrained
<1>2. DeviceRank = 3 + K
    BY <1>1 DEF DeviceRank, HostRank
<1>3. hResults = dResults /\ out = NoMatch
    BY <1>1, <1>2 DEF Buffers
<1>4. \A j \in Objects : j \in Nat /\ Settled(j)
    BY <1>1, <1>2 DEF Buffers, Objects
<1>5. ASSUME NEW j \in Objects,
             \A i \in Objects : i < j => dResults[i] = NoPlacement
      PROVE  \A i \in Objects : i < j => hits[i] = {}
    <2>1. ASSUME NEW i \in Objects, i < j PROVE HitKeys(i) = {}
        <3>1. \A l \in Objects : l < i => l < j
            BY <1>4, <2>1
        <3>2. dResults[i] = NoPlacement /\ NoPlacement \notin HitKeys(i)
            BY <1>1, <1>5, <2>1, KeyTypes DEF NoPlacement
        <3> QED
            BY <1>4, <1>5, <3>1, <3>2 DEF Settled
    <2> QED
        BY <1>1, <2>1, NoKeysNoHits
<1>6. CASE (\A j \in Objects : hResults[j] = NoPlacement) /\ UNCHANGED out
    <2>1. ASSUME NEW j \in Objects PROVE HitKeys(j) = {}
        <3>1. NoPlacement \notin HitKeys(j)
            BY <1>1, KeyTypes DEF NoPlacement
        <3> QED
            BY <1>3, <1>4, <1>6, <3>1 DEF Settled
    <2>2. \A j \in Objects : hits[j] = {}
        BY <1>1, <2>1, NoKeysNoHits
    <2> QED
        BY <1>3, <1>6, <2>2 DEF IsCanonical
<1>7. ASSUME NEW j \in Objects, hResults[j] # NoPlacement,
             \A i \in Objects : i < j => hResults[i] = NoPlacement,
             out' = Answer(j, hResults[j])
      PROVE  IsCanonical(out')
    <2>1. dResults[j] \in HitKeys(j) /\ \A h \in HitKeys(j) : dResults[j] <= h
        BY <1>3, <1>4, <1>7 DEF Settled
    <2> QED
        BY <1>1, <1>3, <1>5, <1>7, <2>1, LeastKeyIsCanonical
<1> QED
    BY <1>6, <1>7 DEF Pick

LEMMA ContractReadsTheSame ==
    /\ Contract!ValidProblem <=> ValidProblem
    /\ \A match : Contract!IsCanonical(match) <=> IsCanonical(match)
    /\ Contract!NoMatch = NoMatch
<1>1. Contract!Objects = Objects
    BY DEF Contract!Objects, Objects
<1>2. \A j : Contract!Cells(j) = Cells(j)
    BY DEF Contract!Cells, Cells, Contract!Span, Span
<1>3. Contract!NoMatch = NoMatch
    BY DEF Contract!NoMatch, NoMatch
<1>4. \A j, p : Contract!MatchAt(j, p) = MatchAt(j, p)
    BY DEF Contract!MatchAt, MatchAt
<1>5. \A p, q : Contract!RowMajorBefore(p, q) <=> RowMajorBefore(p, q)
    BY DEF Contract!RowMajorBefore, RowMajorBefore
<1> QED
    BY <1>1, <1>2, <1>3, <1>4, <1>5
    DEF Contract!ValidProblem, ValidProblem, Contract!IsCanonical, IsCanonical

\* cuda_search keeps the determinism contract of backend.h: whatever the order
\* of threads, blocks and copies, whatever the buffers held before, a search
\* that succeeds answers the canonical match, and one that fails none.
THEOREM ImplementsContract == Spec => ContractSpec
<1>1. Init => Contract!Init
    BY ContractReadsTheSame DEF Init, Contract!Init
<1>2. IInv /\ [Next]_vars => [Contract!Next]_Contract!searchVars
    <2> SUFFICES ASSUME IInv, [Next]_vars PROVE [Contract!Next]_Contract!searchVars
        OBVIOUS
    <2>1. ASSUME UNCHANGED <<m, hits, out, returned>>
          PROVE  [Contract!Next]_Contract!searchVars
        BY <2>1 DEF Contract!searchVars
    <2>2. CASE Pick
        <3>1. IsCanonical(out')
            BY <2>2, PickIsCanonical
        <3>2. UNCHANGED <<m, hits>> /\ returned = "no" /\ returned' = "OK"
            BY <2>2 DEF Pick, Call, HostRests
        <3> QED
            BY <3>1, <3>2, ContractReadsTheSame
            DEF Contract!Next, Contract!Succeed, Contract!problem
    <2>3. CASE CallFails
        BY <2>3 DEF CallFails, HostRests, Contract!Next, Contract!Fail
    <2>4. CASE QueuePicture \/ QueueReset \/ QueueKernel \/ QueueCopyBack
        BY <2>1, <2>4 DEF QueuePicture, QueueReset, QueueKernel, QueueCopyBack, HostRests
    <2>5. CASE StreamStep
        BY <2>1, <2>5
        DEF StreamStep, CopyPicture, ResetResults, CopyBack, StartKernel, EndKernel,
            DeviceRests, searchVars
    <2>6. ASSUME NEW t \in AllThreads, ThreadStep(t)
          PROVE  [Contract!Next]_Contract!searchVars
        BY <2>1, <2>6
        DEF ThreadStep, CheckEarlier, ReadBest, Score, AtomicMin, KernelRests,
            DeviceRests, searchVars
    <2>7. CASE UNCHANGED vars
        BY <2>1, <2>7 DEF vars, searchVars
    <2> QED
        BY <2>2, <2>3, <2>4, <2>5, <2>6, <2>7 DEF Next, HostStep, Returned
<1> QED
    BY <1>1, <1>2, Invariance, PTL DEF Spec, ContractSpec, Contract!Spec

=============================================================================
