---------------------------- MODULE VerifyProofs ----------------------------
(***************************************************************************)
(* The local runtime implements SearchJob, for every number of pictures,   *)
(* every canonical result and every content of the caller's array; and     *)
(* --verify, which calls it once for each backend, tells of each what it   *)
(* did, and leaves nothing of a CUDA context behind.  Last, the metric all *)
(* backends share, for every object, picture and threshold.                *)
(***************************************************************************)
EXTENDS Verify, Metric, SequenceTheorems, WellFoundedInduction, TLAPS

-----------------------------------------------------------------------------
(* The local runtime by itself *)

Types ==
    /\ pc \in {"create", "loop", "destroy", "return", "returned"}
    /\ status \in {"OK", "BACKEND"}
    /\ i \in 1 .. P + 1
    /\ matches \in [Pictures -> Results]
    /\ before \in [Pictures -> Results]

\* A call that is well has not been broken off: past the loop all is searched.
Outcome ==
    /\ pc \in {"create", "loop"} => status = "OK"
    /\ pc \notin {"create", "loop"} /\ status = "OK" => i = P + 1
    /\ pc = "create" => ctx = "null"
    /\ pc = "return" => ctx # "open"

IInv == Types /\ Outcome /\ ResultsUpToFailure /\ ContextDiscipline

LEMMA CanonicalIsAResult ==
    /\ \A j \in Pictures : Canonical[j] \in Results
    /\ NoMatch \in Results
BY DEF Results

LEMMA InitIInv == Init => IInv
BY PicturesAssumption DEF Init, IInv, Types, Outcome, ResultsUpToFailure, SearchFailed,
   ContextDiscipline, Pictures

LEMMA StepIInv == IInv /\ [Next]_vars => IInv'
<1> SUFFICES ASSUME IInv, [Next]_vars PROVE IInv'
    OBVIOUS
<1> USE PicturesAssumption DEF IInv, Types, Outcome, ContextDiscipline
<1>1. CASE CreateSucceeds
    BY <1>1 DEF CreateSucceeds, ResultsUpToFailure, SearchFailed
<1>2. CASE CreateFails
    BY <1>2 DEF CreateFails, ResultsUpToFailure, SearchFailed
<1>3. CASE SearchSucceeds
    <2>1. i \in Pictures /\ i' = i + 1
        BY <1>3 DEF SearchSucceeds, SearchReturns, Pictures, NextPicture
    <2>2. Canonical[i] \in Results
        BY <2>1, CanonicalIsAResult
    <2>3. matches' \in [Pictures -> Results]
        BY <1>3, <2>2 DEF SearchSucceeds, SearchReturns
    <2>4. ResultsUpToFailure'
        BY <1>3, <2>1 DEF SearchSucceeds, SearchReturns, ResultsUpToFailure, SearchFailed,
           Pictures
    <2> QED
        BY <1>3, <2>1, <2>3, <2>4 DEF SearchSucceeds, SearchReturns, Pictures
<1>4. CASE SearchFails
    <2>1. /\ i \in Pictures /\ i' = i /\ UNCHANGED <<ctx, before>> /\ ctx = "open"
          /\ status = "OK" /\ status' = "BACKEND" /\ pc' = "destroy"
          /\ matches' = [matches EXCEPT ![i] = NoMatch]
        BY <1>4 DEF SearchFails, Break, Pictures
    <2>2. matches' \in [Pictures -> Results]
        BY <2>1, CanonicalIsAResult
    <2>3. ResultsUpToFailure'
        <3>1. ASSUME NEW j \in Pictures
              PROVE  matches'[j] = IF j < i THEN Canonical[j]
                                   ELSE IF j = i THEN NoMatch ELSE before[j]
            BY <2>1 DEF ResultsUpToFailure, SearchFailed, Pictures
        <3>2. SearchFailed'
            BY <2>1 DEF SearchFailed
        <3> QED
            BY <2>1, <3>1, <3>2 DEF ResultsUpToFailure
    <2> QED
        BY <2>1, <2>2, <2>3
<1>5. CASE LoopEnds
    BY <1>5 DEF LoopEnds, ResultsUpToFailure, SearchFailed
<1>6. CASE Destroy
    BY <1>6 DEF Destroy, ResultsUpToFailure, SearchFailed
<1>7. CASE Return
    BY <1>7 DEF Return, ResultsUpToFailure, SearchFailed
<1>8. CASE UNCHANGED vars
    BY <1>8 DEF vars, ResultsUpToFailure, SearchFailed
<1> QED
    BY <1>1, <1>2, <1>3, <1>4, <1>5, <1>6, <1>7, <1>8
    DEF Next, Proceed, Returned

\* The invariant of the loop and of the clean-up, from which the rest follows.
THEOREM Invariance == Spec => []IInv
BY InitIInv, StepIInv, PTL DEF Spec

\* A call that fails leaves results up to the picture that failed, "none" for
\* that one, and the caller's old values behind it; all are old if the context
\* could not be created.
THEOREM PartialResults == Spec => []ResultsUpToFailure
<1>1. IInv => ResultsUpToFailure
    BY DEF IInv
<1> QED
    BY <1>1, Invariance, PTL

\* The backend is called with an open context only, and none is left open,
\* whichever way the call ends.
THEOREM NoContextLeaks == Spec => []ContextDiscipline
<1>1. IInv => ContextDiscipline
    BY DEF IInv
<1> QED
    BY <1>1, Invariance, PTL

-----------------------------------------------------------------------------
(* The refinement of SearchJob *)

LEMMA InitRefines == Init => Job!Init
BY DEF Init, Job!Init

\* Before the call returns its verdict is pending.
LEMMA PendingBeforeReturn == pc # "returned" => Job!Pending
BY DEF Job!Pending

LEMMA StepRefines == IInv /\ IInv' /\ [Next]_vars => [Job!Next]_(Job!jobVars)
<1> SUFFICES ASSUME IInv, IInv', [Next]_vars PROVE [Job!Next]_(Job!jobVars)
    OBVIOUS
<1> USE DEF IInv, Types
<1>1. CASE CreateSucceeds \/ LoopEnds \/ Destroy
    BY <1>1 DEF CreateSucceeds, LoopEnds, Destroy, Job!jobVars
<1>2. CASE CreateFails \/ SearchFails
    <2>1. /\ pc # "returned" /\ pc' # "returned"
          /\ status' = "BACKEND" /\ matches' \in [Pictures -> Results]
        BY <1>2 DEF CreateFails, SearchFails, Break
    <2>2. Job!Fault
        BY <2>1, PendingBeforeReturn DEF Job!Fault
    <2> QED
        BY <2>2 DEF Job!Next
<1>3. CASE SearchSucceeds
    <2>1. /\ pc # "returned" /\ pc' = pc
          /\ status = "OK" /\ status' = "OK"
        BY <1>3 DEF SearchSucceeds, SearchReturns, Outcome
    <2>2. Job!Store
        BY <2>1, PendingBeforeReturn DEF Job!Store
    <2> QED
        BY <2>2 DEF Job!Next
<1>4. CASE Return
    <2>1. /\ pc = "return" /\ pc' = "returned"
          /\ UNCHANGED <<status, matches>>
        BY <1>4 DEF Return
    <2>2. CASE status = "OK"
        <3>1. matches = Canonical
            BY <2>1, <2>2, CanonicalAssumption, PicturesAssumption
            DEF Outcome, ResultsUpToFailure, SearchFailed, Pictures
        <3>2. Job!ReturnOk(0)
            BY <2>1, <2>2, <3>1 DEF Job!ReturnOk
        <3> QED
            BY <3>2 DEF Job!Next
    <2>3. CASE status # "OK"
        <3>1. Job!ReturnFailure(0)
            BY <2>1, <2>3 DEF Job!ReturnFailure
        <3> QED
            BY <3>1 DEF Job!Next
    <2> QED
        BY <2>2, <2>3
<1>5. CASE UNCHANGED vars
    BY <1>5 DEF vars, Job!jobVars
<1> QED
    BY <1>1, <1>2, <1>3, <1>4, <1>5 DEF Next, Proceed, Returned

\* The local runtime keeps the promise of a runtime in a world of one: "ok"
\* means that the array holds the canonical match of every picture, and a
\* failure of any search is told.
THEOREM ImplementsJob == Spec => JobSpec
BY Invariance, InitRefines, StepRefines, PTL DEF Spec, JobSpec, Job!Spec

-----------------------------------------------------------------------------
(* The calls of the local runtime *)

\* What RunnerLocal's own invariant says, of backends that may answer anything.
CallTypes ==
    /\ pc \in {"create", "loop", "destroy", "return", "returned"}
    /\ status \in {"OK", "BACKEND"}
    /\ i \in 1 .. P + 1
    /\ matches \in [Pictures -> Results]
    /\ phase \in {"allocate", "reference", "loop", "run", "done"}
    /\ b \in 1 .. Len(kBackends(compiled)) + 1
    /\ compiled \subseteq Optional
    /\ outcome \in [Backends -> {"", "right", "wrong", "failed"}]
    /\ report \in [Backends -> {"", "skipped", "OK", "MISMATCH", "FAILED"}]
    /\ failures \in Nat
    /\ exitCode \in {0, 1}
    /\ phase = "run" => b \in DOMAIN kBackends(compiled) /\ Current # "serial"

\* What the call has done so far is what "outcome" tells of its backend: a
\* failure is never lost, and a wrong match is still in the array.
CallTold ==
    InCall =>
        /\ pc \in {"create", "loop"} => status = "OK"
        /\ pc \notin {"create", "loop"} /\ status = "OK" => i = P + 1
        /\ pc = "create" => i = 1
        /\ status # "OK" => outcome[Current] = "failed"
        /\ status = "OK" =>
               \/ /\ outcome[Current] = "right"
                  /\ \A n \in Pictures : n < i => matches[n] = Canonical[n]
               \/ /\ outcome[Current] = "wrong" /\ Current # "serial"
                  /\ \E n \in Pictures : n < i /\ matches[n] # Canonical[n]

\* In the loop the reference is right, and it is the serial backend that made it.
ReferenceRight ==
    phase \in {"loop", "run"} =>
        outcome["serial"] = "right" /\ reference = Canonical

\* What the loop has left behind, and what it has not come to.
LoopTold ==
    /\ \A be \in Backends :
           /\ report[be] = "OK" => outcome[be] = "right"
           /\ report[be] = "MISMATCH" => outcome[be] = "wrong"
           /\ report[be] = "FAILED" => outcome[be] = "failed"
    /\ report["serial"] = ""
    /\ phase \in {"allocate", "reference"} => b = 1
    /\ \A n \in DOMAIN kBackends(compiled) : n >= b => report[kBackends(compiled)[n]] = ""
    /\ \A n \in DOMAIN kBackends(compiled) :
           LET be == kBackends(compiled)[n]
           IN  n < b /\ be # "serial" /\ Available(be, deviceCount) =>
                   report[be] \in {"OK", "MISMATCH", "FAILED"}
    /\ failures > 0 <=> \E be \in compiled : report[be] \in {"MISMATCH", "FAILED"}

ExitTold ==
    /\ phase = "allocate" => outcome["serial"] = ""
    /\ phase # "done" => exitCode = 0
    /\ phase = "done" =>
           \/ exitCode = 1 /\ outcome["serial"] # "right"
           \/ /\ outcome["serial"] = "right" /\ b > Len(kBackends(compiled))
              /\ exitCode = IF failures > 0 THEN 1 ELSE 0

VerdictInv == CallTypes /\ CallTold /\ ReferenceRight /\ LoopTold /\ ExitTold

-----------------------------------------------------------------------------
(* The context of the CUDA backend *)

\* The steps of cuda_create that come before the uploads, if there are objects.
FirstUpload == 6

\* How many objects have been uploaded when create is at step s.
UploadsBefore(s) ==
    IF s <= FirstUpload \/ Cuda!K = 0 THEN 0
    ELSE IF s <= FirstUpload + Cuda!K THEN s - FirstUpload ELSE Cuda!K

CudaTypes ==
    /\ Cuda!K \in Nat /\ sides \in [1 .. Cuda!K -> Sides]
    /\ deviceCount \in Nat /\ requested \in {Cuda!FromRank} \cup Nat
    /\ step \in 1 .. Len(Cuda!Steps) + 1
    /\ cudaPc \in {"create", "fail", "returned"}
    /\ cudaCtx \in {"null", "open", "destroyed"}
    /\ cudaPc # "returned" => cudaCtx = "null"
    /\ held \subseteq Cuda!Resources

\* All that the steps behind it acquire is held, until it is given back.
CudaHolds ==
    /\ cudaCtx = "open" => step = Len(Cuda!Steps) + 1
    /\ cudaPc = "create" \/ cudaCtx = "open" =>
           /\ \A n \in 1 .. step - 1 : Cuda!Steps[n] \in Cuda!Resources => Cuda!Steps[n] \in held
           /\ step > 2 => device \in 0 .. deviceCount - 1
    /\ cudaPc = "create" /\ step = 1 => held = {}
    /\ cudaPc = "returned" /\ cudaCtx # "open" => held = {}

\* The objects lie one behind the other.
CudaPacks ==
    /\ objOffset \in Seq(Nat) /\ Len(objOffset) = UploadsBefore(step)
    /\ offset = Cuda!TotalUpTo[Len(objOffset)]
    /\ \A n \in 1 .. Len(objOffset) : objOffset[n] = Cuda!TotalUpTo[n - 1]

ContextInv == CudaTypes /\ CudaHolds /\ CudaPacks

\* A context lives within the call of the local runtime that asked for it.
InCudaCall == InCall /\ Current = "cuda"

CudaCalled ==
    /\ ~InCudaCall => held = {}
    /\ InCudaCall /\ pc \in {"return", "returned"} => held = {}
    /\ InCudaCall /\ pc \in {"loop", "destroy"} => cudaCtx = "open"

-----------------------------------------------------------------------------
(* The backends of the build *)

LEMMA Registered ==
    ASSUME compiled \subseteq Optional
    PROVE  /\ Len(kBackends(compiled)) \in Nat
           /\ DOMAIN kBackends(compiled) = 1 .. Len(kBackends(compiled))
           /\ \A n \in DOMAIN kBackends(compiled) :
                  /\ kBackends(compiled)[n] \in Backends
                  /\ kBackends(compiled)[n] # "serial" => kBackends(compiled)[n] \in compiled
           /\ \A n, o \in DOMAIN kBackends(compiled) :
                  kBackends(compiled)[n] = kBackends(compiled)[o] => n = o
           /\ \A be \in compiled :
                  \E n \in DOMAIN kBackends(compiled) : kBackends(compiled)[n] = be
<1> DEFINE L == kBackends(compiled)
<1>1. /\ <<"cuda">> \in Seq(Backends) /\ Len(<<"cuda">>) = 1
      /\ <<"openmp">> \in Seq(Backends) /\ Len(<<"openmp">>) = 1
      /\ <<"serial">> \in Seq(Backends) /\ Len(<<"serial">>) = 1
      /\ <<>> \in Seq(Backends) /\ Len(<<>>) = 0
    BY DEF Backends, Optional
<1>2. L \in Seq(Backends)
    BY <1>1, ConcatProperties DEF kBackends
<1>3. \/ /\ compiled = {"cuda", "openmp"} /\ Len(L) = 3
         /\ L[1] = "cuda" /\ L[2] = "openmp" /\ L[3] = "serial"
      \/ compiled = {"cuda"} /\ Len(L) = 2 /\ L[1] = "cuda" /\ L[2] = "serial"
      \/ compiled = {"openmp"} /\ Len(L) = 2 /\ L[1] = "openmp" /\ L[2] = "serial"
      \/ compiled = {} /\ Len(L) = 1 /\ L[1] = "serial"
    <2>1. CASE compiled = {"cuda", "openmp"}
        <3>1. L = (<<"cuda">> \o <<"openmp">>) \o <<"serial">>
            BY <2>1 DEF kBackends
        <3>2. /\ <<"cuda">> \o <<"openmp">> \in Seq(Backends)
              /\ Len(<<"cuda">> \o <<"openmp">>) = 2
              /\ (<<"cuda">> \o <<"openmp">>)[1] = "cuda"
              /\ (<<"cuda">> \o <<"openmp">>)[2] = "openmp"
            BY <1>1, ConcatProperties
        <3> QED
            BY <1>1, <2>1, <3>1, <3>2, ConcatProperties
    <2>2. CASE compiled = {"cuda"}
        <3>1. L = (<<"cuda">> \o <<>>) \o <<"serial">>
            BY <2>2 DEF kBackends
        <3>2. <<"cuda">> \o <<>> = <<"cuda">>
            BY <1>1, ConcatEmptySeq
        <3> QED
            BY <1>1, <2>2, <3>1, <3>2, ConcatProperties
    <2>3. CASE compiled = {"openmp"}
        <3>1. L = (<<>> \o <<"openmp">>) \o <<"serial">>
            BY <2>3 DEF kBackends
        <3>2. <<>> \o <<"openmp">> = <<"openmp">>
            BY <1>1, ConcatEmptySeq
        <3> QED
            BY <1>1, <2>3, <3>1, <3>2, ConcatProperties
    <2>4. CASE compiled = {}
        BY <2>4 DEF kBackends
    <2> QED
        BY <2>1, <2>2, <2>3, <2>4 DEF Optional
<1> HIDE DEF L
<1>4. DOMAIN L = 1 .. Len(L) /\ Len(L) \in Nat
    BY <1>2
<1>5. \A n \in 1 .. Len(L) : n = 1 \/ (n = 2 /\ Len(L) >= 2) \/ (n = 3 /\ Len(L) = 3)
    BY <1>3, <1>4
<1>6. \A n \in DOMAIN L : L[n] \in Backends /\ (L[n] # "serial" => L[n] \in compiled)
    BY <1>3, <1>4, <1>5 DEF Backends, Optional
<1>7. \A n, o \in DOMAIN L : L[n] = L[o] => n = o
    BY <1>3, <1>4, <1>5
<1>8. \A be \in compiled : \E n \in DOMAIN L : L[n] = be
    BY <1>3, <1>4
<1> QED
    BY <1>4, <1>6, <1>7, <1>8 DEF L

-----------------------------------------------------------------------------
(* Sums *)

\* The natural numbers are well ordered.
LEMMA LeastNatural ==
    ASSUME NEW T \in SUBSET Nat, T # {}
    PROVE  \E n \in T : \A o \in T : n <= o
<1> DEFINE R == {ss \in Nat \X Nat : ss[1] < ss[2]}
<1>1. IsWellFoundedOn(R, Nat)
    BY NatLessThanWellFounded DEF OpToRel
<1>2. PICK n \in T : \A o \in T : ~(<<o, n>> \in R)
    <2> HIDE DEF R
    <2> QED
        BY <1>1, WFMin
<1>3. \A o \in T : n <= o
    <2> TAKE o \in T
    <2>1. n \in Nat /\ o \in Nat /\ ~(<<o, n>> \in R)
        BY <1>2
    <2> QED
        BY <2>1
<1> QED
    BY <1>3

\* The partial sums of a finite sequence exist.
LEMMA SumsExist ==
    ASSUME NEW n \in Nat, NEW e \in [1 .. n -> Nat]
    PROVE  \E f \in [0 .. n -> Nat] :
               \A o \in 0 .. n : f[o] = IF o = 0 THEN 0 ELSE f[o - 1] + e[o]
<1> DEFINE Sums(top) ==
        \E f \in [0 .. top -> Nat] :
            \A o \in 0 .. top : f[o] = IF o = 0 THEN 0 ELSE f[o - 1] + e[o]
           T == {top \in 0 .. n : ~Sums(top)}
<1> SUFFICES ASSUME T # {} PROVE FALSE
    <2>1. n \in 0 .. n
        OBVIOUS
    <2> HIDE DEF Sums
    <2>2. T = {} => Sums(n)
        BY <2>1
    <2> QED
        BY <2>2 DEF Sums
<1>1. PICK top \in T : \A o \in T : top <= o
    <2>1. T \in SUBSET Nat
        OBVIOUS
    <2> HIDE DEF T
    <2> QED
        BY <2>1, LeastNatural
<1>2. top # 0
    <2> SUFFICES ASSUME top = 0 PROVE FALSE
        OBVIOUS
    <2> DEFINE f == [o \in 0 .. 0 |-> 0]
    <2>1. f \in [0 .. 0 -> Nat] /\ \A o \in 0 .. 0 : f[o] = 0 /\ o = 0
        OBVIOUS
    <2>2. Sums(0)
        BY <2>1
    <2> QED
        BY <2>2
<1>3. top \in 1 .. n /\ top - 1 \in 0 .. n /\ top - 1 \notin T
    <2>1. top \in 0 .. n
        OBVIOUS
    <2>2. ~(top <= top - 1) /\ top \in 1 .. n /\ top - 1 \in 0 .. n
        BY <1>2, <2>1
    <2> HIDE DEF T
    <2> QED
        BY <1>1, <2>2
<1>4. PICK f \in [0 .. top - 1 -> Nat] :
          \A o \in 0 .. top - 1 : f[o] = IF o = 0 THEN 0 ELSE f[o - 1] + e[o]
    BY <1>3
<1> DEFINE g == [o \in 0 .. top |-> IF o = top THEN f[top - 1] + e[top] ELSE f[o]]
<1>5. g \in [0 .. top -> Nat]
    <2>1. f[top - 1] \in Nat /\ e[top] \in Nat
        BY <1>3, <1>4
    <2>2. \A o \in 0 .. top : o # top => o \in 0 .. top - 1
        BY <1>3
    <2> QED
        BY <1>4, <2>1, <2>2
<1>6. ASSUME NEW o \in 0 .. top
      PROVE  g[o] = IF o = 0 THEN 0 ELSE g[o - 1] + e[o]
    <2>1. CASE o = top
        <3>1. g[o] = f[top - 1] + e[top] /\ g[o - 1] = f[top - 1] /\ o # 0
            BY <1>3, <2>1
        <3> QED
            BY <2>1, <3>1
    <2>2. CASE o # top
        <3>1. o \in 0 .. top - 1 /\ (o # 0 => o - 1 \in 0 .. top - 1 /\ o - 1 # top)
            BY <1>3, <2>2
        <3>2. g[o] = f[o] /\ (o # 0 => g[o - 1] = f[o - 1])
            BY <1>3, <2>2, <3>1
        <3> QED
            BY <1>4, <3>1, <3>2
    <2> QED
        BY <2>1, <2>2
<1> HIDE DEF g
<1>7. Sums(top)
    BY <1>5, <1>6
<1> QED
    BY <1>1, <1>7

\* The sizes of the objects add up as TotalUpTo says.
LEMMA Totals ==
    ASSUME Cuda!K \in Nat, sides \in [1 .. Cuda!K -> Nat]
    PROVE  /\ Cuda!TotalUpTo \in [0 .. Cuda!K -> Nat]
           /\ Cuda!TotalUpTo[0] = 0
           /\ \A n \in 1 .. Cuda!K :
                  Cuda!TotalUpTo[n] = Cuda!TotalUpTo[n - 1] + Cuda!Elements(n)
<1> DEFINE top == Cuda!K
           e == [n \in 1 .. top |-> sides[n] * sides[n]]
           Eq(f) == f = [o \in 0 .. top |-> IF o = 0 THEN 0 ELSE f[o - 1] + Cuda!Elements(o)]
<1> HIDE DEF top
<1>1. top \in Nat /\ e \in [1 .. top -> Nat]
    BY DEF top
<1>2. PICK f \in [0 .. top -> Nat] :
          \A o \in 0 .. top : f[o] = IF o = 0 THEN 0 ELSE f[o - 1] + e[o]
    <2> HIDE DEF e
    <2> QED
        BY <1>1, SumsExist
<1>3. \A o \in 0 .. top : o # 0 => e[o] = Cuda!Elements(o) /\ Cuda!Elements(o) \in Nat
                                   /\ o - 1 \in 0 .. top
    <2> TAKE o \in 0 .. top
    <2>1. o # 0 => o \in 1 .. top /\ o - 1 \in 0 .. top
        BY <1>1
    <2>2. o # 0 => sides[o] \in Nat /\ e[o] = sides[o] * sides[o]
        BY <2>1 DEF top
    <2>3. o # 0 => sides[o] * sides[o] \in Nat
        BY <2>2
    <2> QED
        BY <2>1, <2>2, <2>3 DEF Cuda!Elements
<1> HIDE DEF e
<1>4. Eq(f)
    BY <1>2, <1>3
<1>5. Eq(Cuda!TotalUpTo)
    <2>1. Cuda!TotalUpTo = CHOOSE h : Eq(h)
        BY Zenon DEF Cuda!TotalUpTo, top
    <2> HIDE DEF Eq
    <2> QED
        BY <1>4, <2>1
<1>6. \A o \in 0 .. top : Cuda!TotalUpTo[o]
          = IF o = 0 THEN 0 ELSE Cuda!TotalUpTo[o - 1] + Cuda!Elements(o)
    BY <1>5
<1>7. Cuda!TotalUpTo \in [0 .. top -> Nat]
    <2> DEFINE T == {o \in 0 .. top : Cuda!TotalUpTo[o] \notin Nat}
    <2>1. T = {}
        <3> SUFFICES ASSUME T # {} PROVE FALSE
            OBVIOUS
        <3>1. T \in SUBSET Nat
            OBVIOUS
        <3>2. PICK o \in T : \A q \in T : o <= q
            <4> HIDE DEF T
            <4> QED
                BY <3>1, LeastNatural
        <3>3. o \in 0 .. top /\ o \in Nat /\ Cuda!TotalUpTo[o] \notin Nat
            BY <3>1, <3>2
        <3>4. o # 0 /\ o - 1 \in 0 .. top /\ Cuda!Elements(o) \in Nat
            BY <1>3, <1>6, <3>3
        <3>5. o - 1 \notin T
            <4>1. ~(o <= o - 1)
                BY <3>3
            <4> HIDE DEF T
            <4> QED
                BY <3>2, <4>1
        <3>6. Cuda!TotalUpTo[o - 1] \in Nat
            BY <3>4, <3>5
        <3> QED
            BY <1>6, <3>3, <3>4, <3>6
    <2>2. DOMAIN Cuda!TotalUpTo = 0 .. top
        BY <1>5
    <2>3. Cuda!TotalUpTo = [o \in 0 .. top |-> Cuda!TotalUpTo[o]]
        BY <1>5
    <2> QED
        BY <2>1, <2>3
<1> QED
    BY <1>1, <1>6, <1>7 DEF top

LEMMA TotalsGrow ==
    ASSUME Cuda!K \in Nat, sides \in [1 .. Cuda!K -> Nat],
           NEW n \in 0 .. Cuda!K, NEW o \in 0 .. Cuda!K, n <= o
    PROVE  Cuda!TotalUpTo[n] <= Cuda!TotalUpTo[o]
<1> DEFINE top == Cuda!K
           total == Cuda!TotalUpTo
           T == {q \in n .. top : ~(total[n] <= total[q])}
<1>1. /\ top \in Nat /\ total \in [0 .. top -> Nat]
      /\ \A q \in 1 .. top : total[q] = total[q - 1] + Cuda!Elements(q)
    BY Totals
<1>2. \A q \in 1 .. top : Cuda!Elements(q) \in Nat
    <2> TAKE q \in 1 .. top
    <2>1. sides[q] \in Nat
        OBVIOUS
    <2> QED
        BY <2>1 DEF Cuda!Elements
<1> HIDE DEF top, total
<1>3. T = {}
    <2> SUFFICES ASSUME T # {} PROVE FALSE
        OBVIOUS
    <2>1. T \in SUBSET Nat
        BY <1>1 DEF top
    <2>2. PICK q \in T : \A p \in T : q <= p
        <3> HIDE DEF T
        <3> QED
            BY <2>1, LeastNatural
    <2>3. q \in n .. top /\ ~(total[n] <= total[q]) /\ q \in Nat /\ n \in Nat
        BY <2>1, <2>2 DEF top
    <2>4. q # n /\ q - 1 \in n .. top /\ q \in 1 .. top
        <3>1. total[n] \in Nat
            BY <1>1 DEF top
        <3>2. q # n
            BY <2>3, <3>1
        <3>3. q >= n /\ q <= top /\ n >= 0
            BY <1>1, <2>3
        <3> QED
            BY <1>1, <2>3, <3>2, <3>3
    <2>5. total[n] <= total[q - 1]
        <3>1. ~(q <= q - 1)
            BY <2>3
        <3>2. q - 1 \notin T
            <4> HIDE DEF T
            <4> QED
                BY <2>2, <3>1
        <3> QED
            BY <2>4, <3>2
    <2>6. total[n] \in Nat /\ total[q - 1] \in Nat /\ Cuda!Elements(q) \in Nat
        <3>1. n \in 0 .. top /\ q - 1 \in 0 .. top
            BY <1>1, <2>3, <2>4 DEF top
        <3> QED
            BY <1>1, <1>2, <2>4, <3>1
    <2> QED
        BY <1>1, <2>3, <2>4, <2>5, <2>6
<1>4. o \in n .. top
    BY DEF top
<1> QED
    BY <1>3, <1>4 DEF total

-----------------------------------------------------------------------------
(* The steps of cuda_create *)

\* Where the steps for the objects end.
ObjectSteps == IF Cuda!K = 0 THEN 3 ELSE 7 + Cuda!K

LEMMA StepsShape ==
    ASSUME Cuda!K \in Nat
    PROVE  /\ Len(Cuda!Steps) \in Nat
           /\ DOMAIN Cuda!Steps = 1 .. Len(Cuda!Steps)
           /\ Len(Cuda!Steps) = IF P > 0 THEN ObjectSteps + 2 ELSE ObjectSteps
           /\ Cuda!Steps[1] = "context" /\ Cuda!Steps[2] = "device" /\ Cuda!Steps[3] = "stream"
           /\ Cuda!K # 0 =>
                  /\ Cuda!Steps[4] = "obj_offset" /\ Cuda!Steps[5] = "d_objects"
                  /\ \A n \in 1 .. Cuda!K : Cuda!Steps[n + 5] = "upload"
                  /\ Cuda!Steps[Cuda!K + 6] = "d_results"
                  /\ Cuda!Steps[Cuda!K + 7] = "h_results"
           /\ P > 0 =>
                  /\ Cuda!Steps[ObjectSteps + 1] = "d_picture"
                  /\ Cuda!Steps[ObjectSteps + 2] = "h_picture"
<1> DEFINE k == Cuda!K
           S == Cuda!Resources \cup {"device", "upload"}
           s1 == <<"context", "device", "stream">>
           s2 == <<"obj_offset", "d_objects">>
           s3 == [n \in 1 .. k |-> "upload"]
           s4 == <<"d_results", "h_results">>
           s5 == <<"d_picture", "h_picture">>
           obj == IF k > 0 THEN (s2 \o s3) \o s4 ELSE <<>>
           pic == IF P > 0 THEN s5 ELSE <<>>
<1>1. Cuda!Steps = (s1 \o obj) \o pic
    BY DEF Cuda!Steps
<1> USE DEF Cuda!Resources
<1>2. /\ s1 \in Seq(S) /\ Len(s1) = 3
      /\ s1[1] = "context" /\ s1[2] = "device" /\ s1[3] = "stream"
    OBVIOUS
<1>3. s2 \in Seq(S) /\ Len(s2) = 2 /\ s2[1] = "obj_offset" /\ s2[2] = "d_objects"
    OBVIOUS
<1>4. s3 \in Seq(S) /\ Len(s3) = k /\ \A n \in 1 .. k : s3[n] = "upload"
    <2>1. s3 \in [1 .. k -> S]
        OBVIOUS
    <2>2. s3 \in Seq(S)
        BY <2>1, IsASeq
    <2>3. DOMAIN s3 = 1 .. k
        OBVIOUS
    <2> HIDE DEF s3
    <2>4. Len(s3) = k
        BY <2>2, <2>3, LenProperties
    <2> QED
        BY <2>2, <2>4 DEF s3
<1>5. s4 \in Seq(S) /\ Len(s4) = 2 /\ s4[1] = "d_results" /\ s4[2] = "h_results"
    OBVIOUS
<1>6. s5 \in Seq(S) /\ Len(s5) = 2 /\ s5[1] = "d_picture" /\ s5[2] = "h_picture"
    OBVIOUS
<1>7. k \in Nat /\ P \in Nat /\ <<>> \in Seq(S) /\ Len(<<>>) = 0
    BY PicturesAssumption
<1> HIDE DEF k, S, s1, s2, s3, s4, s5, Cuda!Resources
<1>8. /\ s2 \o s3 \in Seq(S) /\ Len(s2 \o s3) = k + 2
      /\ (s2 \o s3)[1] = "obj_offset" /\ (s2 \o s3)[2] = "d_objects"
      /\ \A n \in 1 .. k : (s2 \o s3)[n + 2] = "upload"
    <2>1. /\ s2 \o s3 \in Seq(S) /\ Len(s2 \o s3) = 2 + k
          /\ \A n \in 1 .. 2 + k : (s2 \o s3)[n] = IF n <= 2 THEN s2[n] ELSE s3[n - 2]
        <3>1. /\ s2 \o s3 \in Seq(S) /\ Len(s2 \o s3) = Len(s2) + Len(s3)
              /\ \A n \in 1 .. Len(s2) + Len(s3) :
                     (s2 \o s3)[n] = IF n <= Len(s2) THEN s2[n] ELSE s3[n - Len(s2)]
            BY <1>3, <1>4, ConcatProperties
        <3> QED
            BY <1>3, <1>4, <3>1
    <2> QED
        BY <1>3, <1>4, <1>7, <2>1
<1>9. /\ obj \in Seq(S) /\ Len(obj) = IF k = 0 THEN 0 ELSE k + 4
      /\ k # 0 => /\ obj[1] = "obj_offset" /\ obj[2] = "d_objects"
                  /\ \A n \in 1 .. k : obj[n + 2] = "upload"
                  /\ obj[k + 3] = "d_results" /\ obj[k + 4] = "h_results"
    <2>1. CASE k = 0
        BY <1>7, <2>1
    <2>2. CASE k # 0
        <3>1. obj = (s2 \o s3) \o s4
            BY <1>7, <2>2
        <3>2. /\ obj \in Seq(S) /\ Len(obj) = k + 2 + 2
              /\ \A n \in 1 .. k + 2 + 2 :
                     obj[n] = IF n <= k + 2 THEN (s2 \o s3)[n] ELSE s4[n - (k + 2)]
            <4> DEFINE s23 == s2 \o s3
            <4> HIDE DEF s23
            <4>1. /\ s23 \o s4 \in Seq(S) /\ Len(s23 \o s4) = Len(s23) + Len(s4)
                  /\ \A n \in 1 .. Len(s23) + Len(s4) :
                         (s23 \o s4)[n] = IF n <= Len(s23) THEN s23[n] ELSE s4[n - Len(s23)]
                BY <1>5, <1>8, ConcatProperties DEF s23
            <4> QED
                BY <1>5, <1>8, <3>1, <4>1 DEF s23
        <3> QED
            BY <1>5, <1>7, <1>8, <2>2, <3>2
    <2> QED
        BY <2>1, <2>2
<1>10. pic \in Seq(S) /\ Len(pic) \in Nat /\ Len(pic) = IF P > 0 THEN 2 ELSE 0
    <2>1. CASE P > 0
        BY <1>6, <2>1
    <2>2. CASE ~(P > 0)
        BY <1>7, <2>2
    <2> QED
        BY <2>1, <2>2
<1> DEFINE front == s1 \o obj
<1> HIDE DEF obj
<1>11. /\ front \in Seq(S) /\ Len(front) = ObjectSteps /\ ObjectSteps \in Nat
       /\ ObjectSteps >= 3
       /\ \A n \in 1 .. ObjectSteps : front[n] = IF n <= 3 THEN s1[n] ELSE obj[n - 3]
    <2>1. /\ front \in Seq(S) /\ Len(front) = 3 + Len(obj)
          /\ \A n \in 1 .. 3 + Len(obj) : front[n] = IF n <= 3 THEN s1[n] ELSE obj[n - 3]
        <3>1. /\ s1 \o obj \in Seq(S) /\ Len(s1 \o obj) = Len(s1) + Len(obj)
              /\ \A n \in 1 .. Len(s1) + Len(obj) :
                     (s1 \o obj)[n] = IF n <= Len(s1) THEN s1[n] ELSE obj[n - Len(s1)]
            <4>1. s1 \in Seq(S) /\ obj \in Seq(S)
                BY <1>2, <1>9
            <4> QED
                BY <4>1, ConcatProperties
        <3> QED
            BY <1>2, <3>1 DEF front
    <2>2. 3 + Len(obj) = ObjectSteps
        BY <1>7, <1>9 DEF ObjectSteps, k
    <2>3. ObjectSteps \in Nat /\ ObjectSteps >= 3
        BY <1>7 DEF ObjectSteps, k
    <2> QED
        BY <2>1, <2>2, <2>3
<1> HIDE DEF front, pic
<1>12. /\ Cuda!Steps \in Seq(S) /\ Len(Cuda!Steps) = ObjectSteps + Len(pic)
       /\ \A n \in 1 .. ObjectSteps + Len(pic) :
              Cuda!Steps[n] = IF n <= ObjectSteps THEN front[n] ELSE pic[n - ObjectSteps]
    <2>1. /\ front \o pic \in Seq(S) /\ Len(front \o pic) = Len(front) + Len(pic)
          /\ \A n \in 1 .. Len(front) + Len(pic) :
                 (front \o pic)[n] = IF n <= Len(front) THEN front[n] ELSE pic[n - Len(front)]
        BY <1>10, <1>11, ConcatProperties
    <2>2. Cuda!Steps = front \o pic
        BY <1>1 DEF front
    <2> QED
        BY <1>11, <2>1, <2>2
<1>13. \A n \in 1 .. ObjectSteps : Cuda!Steps[n] = IF n <= 3 THEN s1[n] ELSE obj[n - 3]
    <2>1. \A n \in 1 .. ObjectSteps : n \in 1 .. ObjectSteps + Len(pic) /\ n <= ObjectSteps
        BY <1>10, <1>11
    <2> QED
        BY <1>11, <1>12, <2>1
<1>14. Cuda!Steps[1] = "context" /\ Cuda!Steps[2] = "device" /\ Cuda!Steps[3] = "stream"
    BY <1>2, <1>11, <1>13
<1>15. ASSUME k # 0
       PROVE  /\ Cuda!Steps[4] = "obj_offset" /\ Cuda!Steps[5] = "d_objects"
              /\ \A n \in 1 .. k : Cuda!Steps[n + 5] = "upload"
              /\ Cuda!Steps[k + 6] = "d_results" /\ Cuda!Steps[k + 7] = "h_results"
    <2>1. ObjectSteps = k + 7
        BY <1>7, <1>15 DEF ObjectSteps, k
    <2>2. \A n \in 1 .. k + 4 : Cuda!Steps[n + 3] = obj[n]
        <3> TAKE n \in 1 .. k + 4
        <3>1. n + 3 \in 1 .. ObjectSteps /\ ~(n + 3 <= 3) /\ n + 3 - 3 = n
            BY <1>7, <2>1
        <3> QED
            BY <1>13, <3>1
    <2>3. /\ 1 \in 1 .. k + 4 /\ 2 \in 1 .. k + 4 /\ k + 3 \in 1 .. k + 4 /\ k + 4 \in 1 .. k + 4
          /\ 1 + 3 = 4 /\ 2 + 3 = 5 /\ k + 3 + 3 = k + 6 /\ k + 4 + 3 = k + 7
        BY <1>7
    <2>4. \A n \in 1 .. k : n + 2 \in 1 .. k + 4 /\ n + 2 + 3 = n + 5
        BY <1>7
    <2>5. Cuda!Steps[4] = "obj_offset" /\ Cuda!Steps[5] = "d_objects"
        BY <1>9, <1>15, <2>2, <2>3
    <2>6. Cuda!Steps[k + 6] = "d_results" /\ Cuda!Steps[k + 7] = "h_results"
        BY <1>9, <1>15, <2>2, <2>3
    <2>7. \A n \in 1 .. k : Cuda!Steps[n + 5] = "upload"
        BY <1>9, <1>15, <2>2, <2>4
    <2> QED
        BY <2>5, <2>6, <2>7
<1>16. ASSUME P > 0
       PROVE  /\ Cuda!Steps[ObjectSteps + 1] = "d_picture"
              /\ Cuda!Steps[ObjectSteps + 2] = "h_picture"
    <2>1. pic = s5 /\ Len(pic) = 2
        BY <1>10, <1>16 DEF pic
    <2>2. /\ Cuda!Steps[ObjectSteps + 1] = pic[1]
          /\ Cuda!Steps[ObjectSteps + 2] = pic[2]
        <3>1. ASSUME NEW n \in 1 .. ObjectSteps + Len(pic), ~(n <= ObjectSteps)
              PROVE  Cuda!Steps[n] = pic[n - ObjectSteps]
            BY <1>12, <3>1
        <3> DEFINE first == ObjectSteps + 1
                   second == ObjectSteps + 2
        <3>2. /\ first \in 1 .. ObjectSteps + Len(pic) /\ ~(first <= ObjectSteps)
              /\ second \in 1 .. ObjectSteps + Len(pic) /\ ~(second <= ObjectSteps)
              /\ first - ObjectSteps = 1 /\ second - ObjectSteps = 2
            BY <1>11, <2>1
        <3> HIDE DEF first, second
        <3>3. Cuda!Steps[first] = pic[1] /\ Cuda!Steps[second] = pic[2]
            BY <3>1, <3>2
        <3> QED
            BY <3>3 DEF first, second
    <2> QED
        BY <1>6, <2>1, <2>2
<1>17. /\ Len(Cuda!Steps) \in Nat /\ DOMAIN Cuda!Steps = 1 .. Len(Cuda!Steps)
       /\ Len(Cuda!Steps) = IF P > 0 THEN ObjectSteps + 2 ELSE ObjectSteps
    BY <1>7, <1>10, <1>11, <1>12, LenProperties
<1> QED
    BY <1>14, <1>15, <1>16, <1>17 DEF k

\* Which step is where.
LEMMA StepsTold ==
    ASSUME Cuda!K \in Nat
    PROVE  \A n \in 1 .. Len(Cuda!Steps) :
               /\ Cuda!Steps[n] = "context" => n = 1
               /\ Cuda!Steps[n] = "device" <=> n = 2
               /\ Cuda!Steps[n] = "upload" <=> Cuda!K # 0 /\ n \in FirstUpload .. Cuda!K + 5
<1> DEFINE k == Cuda!K
           S == Cuda!Steps
           z == ObjectSteps
<1>1. /\ k \in Nat /\ P \in Nat /\ z \in Nat /\ Len(S) \in Nat
      /\ Len(S) = IF P > 0 THEN z + 2 ELSE z
      /\ z = IF k = 0 THEN 3 ELSE 7 + k
    <2>1. z = IF k = 0 THEN 3 ELSE 7 + k
        BY DEF ObjectSteps
    <2>2. z \in Nat
        BY <2>1
    <2>3. Len(S) \in Nat /\ Len(S) = IF P > 0 THEN z + 2 ELSE z
        BY StepsShape
    <2> QED
        BY <2>1, <2>2, <2>3, PicturesAssumption
<1>2. /\ S[1] = "context" /\ S[2] = "device" /\ S[3] = "stream"
      /\ k # 0 => /\ S[4] = "obj_offset" /\ S[5] = "d_objects"
                  /\ \A n \in 1 .. k : S[n + 5] = "upload"
                  /\ S[k + 6] = "d_results" /\ S[k + 7] = "h_results"
      /\ P > 0 => S[z + 1] = "d_picture" /\ S[z + 2] = "h_picture"
    BY StepsShape
<1> HIDE DEF k, S, z
<1>3. ASSUME NEW n \in 1 .. Len(S)
      PROVE  \/ n = 1 \/ n = 2 \/ n = 3
             \/ k # 0 /\ (n = 4 \/ n = 5 \/ n \in 6 .. k + 5 \/ n = k + 6 \/ n = k + 7)
             \/ P > 0 /\ n > 3 /\ (n = z + 1 \/ n = z + 2)
    BY <1>1
<1>4. \A n \in 6 .. k + 5 : k # 0 => S[n] = "upload"
    <2> TAKE n \in 6 .. k + 5
    <2>1. n - 5 \in 1 .. k /\ n - 5 + 5 = n
        BY <1>1
    <2> QED
        BY <1>2, <2>1
<1>5. ASSUME NEW n \in 1 .. Len(S)
      PROVE  /\ S[n] = "context" => n = 1
             /\ S[n] = "device" <=> n = 2
             /\ S[n] = "upload" <=> k # 0 /\ n \in 6 .. k + 5
    <2>1. n \in Nat
        OBVIOUS
    <2>2. CASE n = 1 \/ n = 2 \/ n = 3
        BY <1>2, <2>2
    <2>3. CASE k # 0 /\ (n = 4 \/ n = 5 \/ n = k + 6 \/ n = k + 7)
        <3>1. n # 1 /\ n # 2 /\ ~(n \in 6 .. k + 5)
            BY <1>1, <2>3
        <3>2. S[n] \in {"obj_offset", "d_objects", "d_results", "h_results"}
            BY <1>2, <2>3
        <3> QED
            BY <3>1, <3>2
    <2>4. CASE k # 0 /\ n \in 6 .. k + 5
        BY <1>4, <2>4
    <2>5. CASE P > 0 /\ n > 3 /\ (n = z + 1 \/ n = z + 2)
        <3>1. n # 1 /\ n # 2 /\ ~(k # 0 /\ n \in 6 .. k + 5)
            BY <1>1, <2>5
        <3>2. S[n] \in {"d_picture", "h_picture"}
            BY <1>2, <2>5
        <3> QED
            BY <3>1, <3>2
    <2> QED
        BY <1>3, <2>2, <2>3, <2>4, <2>5
<1> QED
    BY <1>5 DEF S, k, FirstUpload

-----------------------------------------------------------------------------
(* The context keeps its invariant *)

\* The node and the objects stay as they are.
LEMMA ContextInputs ==
    ASSUME UNCHANGED Cuda!inputs
    PROVE  /\ UNCHANGED <<sides, deviceCount, requested>>
           /\ Cuda!K' = Cuda!K /\ Cuda!Steps' = Cuda!Steps
           /\ Cuda!TotalUpTo' = Cuda!TotalUpTo
           /\ \A s : UploadsBefore(s)' = UploadsBefore(s)
BY DEF Cuda!inputs, Cuda!K, Cuda!Steps, Cuda!TotalUpTo, Cuda!Elements, UploadsBefore

LEMMA ContextFrame ==
    ASSUME ContextInv, UNCHANGED cudaVars
    PROVE  ContextInv'
<1>1. UNCHANGED <<step, device, held, objOffset, offset, cudaCtx, cudaPc>>
    BY DEF cudaVars
<1>2. /\ UNCHANGED <<sides, deviceCount, requested>>
      /\ Cuda!K' = Cuda!K /\ Cuda!Steps' = Cuda!Steps
      /\ Cuda!TotalUpTo' = Cuda!TotalUpTo
      /\ \A s : UploadsBefore(s)' = UploadsBefore(s)
    BY ContextInputs DEF cudaVars, Cuda!inputs
<1>3. CudaTypes'
    BY <1>1, <1>2 DEF ContextInv, CudaTypes
<1>4. CudaHolds'
    BY <1>1, <1>2 DEF ContextInv, CudaHolds
<1>5. CudaPacks'
    BY <1>1, <1>2 DEF ContextInv, CudaPacks
<1> QED
    BY <1>3, <1>4, <1>5 DEF ContextInv

LEMMA ContextInit ==
    ASSUME Cuda!Init
    PROVE  ContextInv /\ held = {}
<1>1. PICK n \in 0 .. MaxObjects : sides \in [1 .. n -> Sides]
    BY DEF Cuda!Init
<1>2. n \in Nat /\ Len(sides) = n
    <2>1. n \in Nat
        BY ObjectsAssumption
    <2>2. sides \in Seq(Sides)
        BY <1>1, <2>1, IsASeq
    <2> QED
        BY <1>1, <2>1, <2>2, LenProperties
<1>3. Cuda!K = n
    BY <1>2 DEF Cuda!K
<1>4. Len(Cuda!Steps) \in Nat
    BY <1>2, <1>3, StepsShape
<1>5. CudaTypes
    BY <1>1, <1>2, <1>3, <1>4, DevicesAssumption DEF CudaTypes, Cuda!Init, Cuda!FromRank
<1>6. CudaHolds
    BY DEF CudaHolds, Cuda!Init
<1>7. CudaPacks
    <2>1. sides \in [1 .. Cuda!K -> Nat]
        BY <1>1, <1>3, ObjectsAssumption
    <2>2. Cuda!TotalUpTo[0] = 0
        BY <1>2, <1>3, <2>1, Totals
    <2>3. objOffset = <<>> /\ offset = 0 /\ step = 1
        BY DEF Cuda!Init
    <2>4. UploadsBefore(1) = 0
        BY DEF UploadsBefore, FirstUpload
    <2>5. objOffset \in Seq(Nat) /\ Len(objOffset) = 0
        BY <2>3
    <2> QED
        BY <2>2, <2>3, <2>4, <2>5 DEF CudaPacks
<1> QED
    BY <1>5, <1>6, <1>7 DEF ContextInv, Cuda!Init

\* How the offsets grow.
LEMMA UploadCount ==
    ASSUME CudaTypes, step <= Len(Cuda!Steps)
    PROVE  /\ UploadsBefore(step) \in Nat
           /\ Cuda!Steps[step] # "upload" => UploadsBefore(step + 1) = UploadsBefore(step)
           /\ Cuda!Steps[step] = "upload" =>
                  /\ UploadsBefore(step + 1) = UploadsBefore(step) + 1
                  /\ UploadsBefore(step) + 1 \in 1 .. Cuda!K
<1>1. Cuda!K \in Nat /\ step \in Nat /\ step >= 1 /\ step \in 1 .. Len(Cuda!Steps)
    BY StepsShape DEF CudaTypes
<1>2. Cuda!Steps[step] = "upload" <=> Cuda!K # 0 /\ step \in 6 .. Cuda!K + 5
    BY <1>1, StepsTold DEF FirstUpload
<1> QED
    BY <1>1, <1>2 DEF UploadsBefore, FirstUpload

\* A step of create that succeeds leads to the next one.
LEMMA CreateAdvances ==
    ASSUME ContextInv, Cuda!Creating, UNCHANGED Cuda!inputs,
           step' = step + 1, UNCHANGED <<cudaCtx, cudaPc>>,
           held' \subseteq Cuda!Resources, held \subseteq held',
           Cuda!Steps[step] \in Cuda!Resources => Cuda!Steps[step] \in held',
           Cuda!Steps[step] = "device" => device' \in 0 .. deviceCount - 1,
           Cuda!Steps[step] # "device" => device' = device
    PROVE  CudaTypes' /\ CudaHolds'
<1>1. /\ UNCHANGED <<sides, deviceCount, requested>>
      /\ Cuda!K' = Cuda!K /\ Cuda!Steps' = Cuda!Steps
    BY ContextInputs
<1>2. /\ cudaPc = "create" /\ cudaCtx = "null" /\ Cuda!K \in Nat
      /\ step \in 1 .. Len(Cuda!Steps) /\ Len(Cuda!Steps) \in Nat
    BY StepsShape DEF ContextInv, CudaTypes, Cuda!Creating
<1>3. CudaTypes'
    <2>1. step' \in 1 .. Len(Cuda!Steps) + 1
        BY <1>2
    <2> QED
        BY <1>1, <1>2, <2>1 DEF ContextInv, CudaTypes, Cuda!Resources
<1>4. ASSUME NEW n \in 1 .. step' - 1, Cuda!Steps[n] \in Cuda!Resources
      PROVE  Cuda!Steps[n] \in held'
    <2>1. n = step \/ n \in 1 .. step - 1
        BY <1>2
    <2> QED
        BY <1>2, <1>4, <2>1 DEF ContextInv, CudaHolds
<1>5. step' > 2 => device' \in 0 .. deviceCount - 1
    <2>1. Cuda!Steps[step] = "device" <=> step = 2
        BY <1>2, StepsTold
    <2>2. step > 2 => device \in 0 .. deviceCount - 1
        BY <1>2 DEF ContextInv, CudaHolds
    <2>3. step' > 2 => step > 2 \/ step = 2
        BY <1>2
    <2>4. step > 2 => step # 2
        BY <1>2
    <2> QED
        BY <2>1, <2>2, <2>3, <2>4
<1>6. step' # 1
    BY <1>2
<1> QED
    BY <1>1, <1>2, <1>3, <1>4, <1>5, <1>6 DEF CudaHolds

LEMMA AcquireKeeps ==
    ASSUME ContextInv, Cuda!Acquire
    PROVE  ContextInv'
<1>1. /\ Cuda!Creating /\ UNCHANGED Cuda!inputs /\ Cuda!Steps[step] \in Cuda!Resources
      /\ held' = held \cup {Cuda!Steps[step]} /\ step' = step + 1
      /\ UNCHANGED <<device, objOffset, offset, cudaCtx, cudaPc>>
    BY DEF Cuda!Acquire, Cuda!inputs
<1>2. Cuda!Steps[step] # "device" /\ Cuda!Steps[step] # "upload"
    BY <1>1 DEF Cuda!Resources
<1>3. CudaTypes' /\ CudaHolds'
    <2>1. held' \subseteq Cuda!Resources
        BY <1>1 DEF ContextInv, CudaTypes
    <2> QED
        BY <1>1, <1>2, <2>1, CreateAdvances
<1>4. CudaPacks'
    <2>1. UploadsBefore(step + 1) = UploadsBefore(step)
        BY <1>1, <1>2, UploadCount DEF ContextInv, Cuda!Creating
    <2>2. UploadsBefore(step)' = UploadsBefore(step + 1)
        BY <1>1, ContextInputs
    <2> QED
        BY <1>1, <2>1, <2>2, ContextInputs DEF ContextInv, CudaPacks
<1> QED
    BY <1>3, <1>4 DEF ContextInv

LEMMA ChooseDeviceKeeps ==
    ASSUME ContextInv, Cuda!ChooseDevice
    PROVE  ContextInv'
<1>1. /\ Cuda!Creating /\ UNCHANGED Cuda!inputs /\ Cuda!Steps[step] = "device"
      /\ deviceCount > 0 /\ Cuda!DeviceFor(0) < deviceCount /\ device' = Cuda!DeviceFor(0)
      /\ step' = step + 1
      /\ UNCHANGED <<held, objOffset, offset, cudaCtx, cudaPc>>
    BY DEF Cuda!ChooseDevice, Cuda!inputs, Cuda!DeviceVisible
<1>2. device' \in 0 .. deviceCount - 1
    <2>1. deviceCount \in Nat /\ requested \in {-1} \cup Nat
        BY DEF ContextInv, CudaTypes, Cuda!FromRank
    <2>2. Cuda!DeviceFor(0) \in Nat
        BY <1>1, <2>1 DEF Cuda!DeviceFor, Cuda!FromRank
    <2> QED
        BY <1>1, <2>1, <2>2
<1>3. CudaTypes' /\ CudaHolds'
    <2>1. held \subseteq Cuda!Resources /\ ~("device" \in Cuda!Resources)
        BY DEF ContextInv, CudaTypes, Cuda!Resources
    <2> QED
        BY <1>1, <1>2, <2>1, CreateAdvances
<1>4. CudaPacks'
    <2>1. UploadsBefore(step + 1) = UploadsBefore(step)
        BY <1>1, UploadCount DEF ContextInv, Cuda!Creating
    <2>2. UploadsBefore(step)' = UploadsBefore(step + 1)
        BY <1>1, ContextInputs
    <2> QED
        BY <1>1, <2>1, <2>2, ContextInputs DEF ContextInv, CudaPacks
<1> QED
    BY <1>3, <1>4 DEF ContextInv

LEMMA UploadKeeps ==
    ASSUME ContextInv, Cuda!Upload
    PROVE  ContextInv'
<1> DEFINE len == Len(objOffset)
<1>1. /\ Cuda!Creating /\ UNCHANGED Cuda!inputs /\ Cuda!Steps[step] = "upload"
      /\ objOffset' = Append(objOffset, offset)
      /\ offset' = offset + Cuda!Elements(len + 1)
      /\ step' = step + 1
      /\ UNCHANGED <<held, device, cudaCtx, cudaPc>>
    BY DEF Cuda!Upload, Cuda!inputs, Cuda!Advance
<1>2. CudaTypes' /\ CudaHolds'
    <2>1. held \subseteq Cuda!Resources /\ ~("upload" \in Cuda!Resources)
        BY DEF ContextInv, CudaTypes, Cuda!Resources
    <2> QED
        BY <1>1, <2>1, CreateAdvances
<1>3. CudaPacks'
    <2>1. /\ objOffset \in Seq(Nat) /\ len = UploadsBefore(step) /\ len \in Nat
          /\ offset = Cuda!TotalUpTo[len]
          /\ \A n \in 1 .. len : objOffset[n] = Cuda!TotalUpTo[n - 1]
        BY DEF ContextInv, CudaPacks
    <2>2. UploadsBefore(step)' = len + 1 /\ len + 1 \in 1 .. Cuda!K
        <3>1. UploadsBefore(step + 1) = len + 1 /\ len + 1 \in 1 .. Cuda!K
            BY <1>1, <2>1, UploadCount DEF ContextInv, Cuda!Creating
        <3> QED
            BY <1>1, <3>1, ContextInputs
    <2>3. /\ Cuda!TotalUpTo \in [0 .. Cuda!K -> Nat]
          /\ Cuda!TotalUpTo[len + 1] = Cuda!TotalUpTo[len] + Cuda!Elements(len + 1)
        <3>1. sides \in [1 .. Cuda!K -> Nat] /\ Cuda!K \in Nat
            BY ObjectsAssumption DEF ContextInv, CudaTypes
        <3>2. \A n \in 1 .. Cuda!K :
                  Cuda!TotalUpTo[n] = Cuda!TotalUpTo[n - 1] + Cuda!Elements(n)
            BY <3>1, Totals
        <3>3. len + 1 - 1 = len
            BY <2>1
        <3>4. Cuda!TotalUpTo[len + 1] = Cuda!TotalUpTo[len + 1 - 1] + Cuda!Elements(len + 1)
            BY <2>2, <3>2
        <3> QED
            BY <3>1, <3>3, <3>4, Totals
    <2>4. offset \in Nat
        <3>1. len \in 0 .. Cuda!K
            <4>1. Cuda!K \in Nat
                BY DEF ContextInv, CudaTypes
            <4> HIDE DEF len
            <4> QED
                BY <2>1, <2>2, <4>1
        <3> QED
            BY <2>1, <2>3, <3>1
    <2>5. /\ objOffset' \in Seq(Nat) /\ Len(objOffset') = len + 1
          /\ \A n \in 1 .. len : objOffset'[n] = objOffset[n]
          /\ objOffset'[len + 1] = offset
        BY <1>1, <2>1, <2>4, AppendProperties
    <2>6. \A n \in 1 .. len + 1 : objOffset'[n] = Cuda!TotalUpTo[n - 1]
        <3> TAKE n \in 1 .. len + 1
        <3>1. CASE n = len + 1
            BY <2>1, <2>5, <3>1
        <3>2. CASE n # len + 1
            <4>1. n \in 1 .. len
                BY <2>1, <3>2
            <4> QED
                BY <2>1, <2>5, <4>1
        <3> QED
            BY <3>1, <3>2
    <2>7. offset' = Cuda!TotalUpTo[len + 1]
        BY <1>1, <2>1, <2>3
    <2> HIDE DEF len
    <2> QED
        BY <1>1, <2>2, <2>5, <2>6, <2>7, ContextInputs DEF CudaPacks
<1> QED
    BY <1>2, <1>3 DEF ContextInv

\* A step that fails, the hand-over, the clean-up and the end of the context.
LEMMA EndKeeps ==
    ASSUME ContextInv, Cuda!StepFails \/ Cuda!Publish \/ Cuda!CleanUp \/ Cuda!Destroy
    PROVE  ContextInv'
<1>1. /\ UNCHANGED Cuda!inputs /\ UNCHANGED <<step, device, objOffset, offset>>
    BY DEF Cuda!StepFails, Cuda!Publish, Cuda!CleanUp, Cuda!Destroy, Cuda!inputs
<1>2. /\ UNCHANGED <<sides, deviceCount, requested>>
      /\ Cuda!K' = Cuda!K /\ Cuda!Steps' = Cuda!Steps
      /\ Cuda!TotalUpTo' = Cuda!TotalUpTo
      /\ \A s : UploadsBefore(s)' = UploadsBefore(s)
    BY <1>1, ContextInputs
<1>3. CudaPacks'
    BY <1>1, <1>2 DEF ContextInv, CudaPacks
<1>4. CudaTypes /\ CudaHolds /\ Len(Cuda!Steps) \in Nat
    BY StepsShape DEF ContextInv, CudaTypes
<1>5. CASE Cuda!StepFails
    <2>1. /\ cudaPc = "create" /\ step \in 1 .. Len(Cuda!Steps)
          /\ cudaPc' = IF Cuda!Steps[step] = "context" THEN "returned" ELSE "fail"
          /\ UNCHANGED <<held, cudaCtx>> /\ cudaCtx = "null"
        BY <1>4, <1>5 DEF Cuda!StepFails, Cuda!Creating, CudaTypes
    <2>2. Cuda!Steps[step] = "context" => held = {}
        BY <1>4, <2>1, StepsTold DEF CudaTypes, CudaHolds
    <2>3. CudaTypes'
        BY <1>1, <1>2, <1>4, <2>1 DEF CudaTypes, Cuda!Resources
    <2>4. CudaHolds'
        BY <1>1, <1>2, <2>1, <2>2 DEF CudaHolds
    <2> QED
        BY <1>3, <2>3, <2>4 DEF ContextInv
<1>6. CASE Cuda!Publish
    <2>1. /\ cudaPc = "create" /\ step = Len(Cuda!Steps) + 1
          /\ cudaPc' = "returned" /\ cudaCtx' = "open" /\ held' = held
        BY <1>4, <1>6 DEF Cuda!Publish, CudaTypes
    <2>2. CudaTypes'
        BY <1>1, <1>2, <1>4, <2>1 DEF CudaTypes, Cuda!Resources
    <2>3. CudaHolds'
        BY <1>1, <1>2, <1>4, <2>1 DEF CudaHolds, Cuda!Resources
    <2> QED
        BY <1>3, <2>2, <2>3 DEF ContextInv
<1>7. CASE Cuda!CleanUp \/ Cuda!Destroy
    <2>1. cudaPc' = "returned" /\ held' = {} /\ cudaCtx' \in {"null", "destroyed"}
        BY <1>4, <1>7 DEF Cuda!CleanUp, Cuda!Destroy, Cuda!Released, CudaTypes
    <2>2. CudaTypes'
        BY <1>1, <1>2, <1>4, <2>1 DEF CudaTypes, Cuda!Resources
    <2>3. CudaHolds'
        BY <1>1, <1>2, <2>1 DEF CudaHolds
    <2> QED
        BY <1>3, <2>2, <2>3 DEF ContextInv
<1> QED
    BY <1>5, <1>6, <1>7

\* What is promised of a context follows.
LEMMA ContextPromises ==
    ASSUME ContextInv
    PROVE  Cuda!NothingLeaks /\ Cuda!ReadyWhenHandedOut /\ Cuda!ObjectsPacked
<1>1. Cuda!NothingLeaks
    BY DEF ContextInv, CudaHolds, Cuda!NothingLeaks
<1>2. /\ CudaTypes /\ CudaHolds /\ CudaPacks /\ Cuda!K \in Nat /\ P \in Nat
      /\ sides \in [1 .. Cuda!K -> Nat]
    BY ObjectsAssumption, PicturesAssumption DEF ContextInv, CudaTypes
<1>3. ASSUME cudaCtx = "open"
      PROVE  /\ \A n \in 1 .. Len(Cuda!Steps) :
                    Cuda!Steps[n] \in Cuda!Resources => Cuda!Steps[n] \in held
             /\ step = Len(Cuda!Steps) + 1 /\ Len(Cuda!Steps) \in Nat
             /\ device \in 0 .. deviceCount - 1
    <2>1. step = Len(Cuda!Steps) + 1 /\ Len(Cuda!Steps) \in Nat /\ Len(Cuda!Steps) >= 3
        <3>1. step = Len(Cuda!Steps) + 1
            BY <1>2, <1>3 DEF CudaHolds
        <3>2. ObjectSteps \in Nat /\ ObjectSteps >= 3
            BY <1>2 DEF ObjectSteps
        <3>3. /\ Len(Cuda!Steps) \in Nat
              /\ Len(Cuda!Steps) = IF P > 0 THEN ObjectSteps + 2 ELSE ObjectSteps
            BY <1>2, StepsShape
        <3> QED
            BY <3>1, <3>2, <3>3
    <2>2. step - 1 = Len(Cuda!Steps) /\ step > 2
        BY <2>1
    <2> QED
        BY <1>2, <1>3, <2>1, <2>2 DEF CudaHolds
<1>4. Cuda!ReadyWhenHandedOut
    <2> SUFFICES ASSUME cudaCtx = "open"
                 PROVE  /\ {"context", "stream"} \subseteq held
                        /\ Cuda!K > 0 =>
                               {"obj_offset", "d_objects", "d_results", "h_results"} \subseteq held
                        /\ P > 0 => {"d_picture", "h_picture"} \subseteq held
                        /\ device \in 0 .. deviceCount - 1
                        /\ requested = Cuda!FromRank =>
                               \A r, s \in 0 .. deviceCount - 1 :
                                   Cuda!DeviceFor(r) = Cuda!DeviceFor(s) => r = s
        BY DEF Cuda!ReadyWhenHandedOut
    <2> DEFINE len == Len(Cuda!Steps)
               z == ObjectSteps
    <2>1. /\ len \in Nat /\ len = IF P > 0 THEN z + 2 ELSE z
          /\ z = IF Cuda!K = 0 THEN 3 ELSE 7 + Cuda!K
        BY <1>2, StepsShape DEF ObjectSteps
    <2> HIDE DEF len, z
    <2>2. 1 \in 1 .. len /\ 3 \in 1 .. len
        BY <1>2, <2>1
    <2>3. Cuda!K > 0 => /\ 4 \in 1 .. len /\ 5 \in 1 .. len
                        /\ Cuda!K + 6 \in 1 .. len /\ Cuda!K + 7 \in 1 .. len
                        /\ Cuda!K # 0
        BY <1>2, <2>1
    <2>4. P > 0 => z + 1 \in 1 .. len /\ z + 2 \in 1 .. len
        BY <1>2, <2>1
    <2>5. \A n \in 1 .. len : Cuda!Steps[n] \in Cuda!Resources => Cuda!Steps[n] \in held
        BY <1>3 DEF len
    <2>6. {"context", "stream"} \subseteq held
        BY <1>2, <2>2, <2>5, StepsShape DEF Cuda!Resources
    <2>7. Cuda!K > 0 => {"obj_offset", "d_objects", "d_results", "h_results"} \subseteq held
        BY <1>2, <2>3, <2>5, StepsShape DEF Cuda!Resources
    <2>8. P > 0 => {"d_picture", "h_picture"} \subseteq held
        <3>1. P > 0 => Cuda!Steps[z + 1] = "d_picture" /\ Cuda!Steps[z + 2] = "h_picture"
            BY <1>2, StepsShape DEF z
        <3> QED
            BY <2>4, <2>5, <3>1 DEF Cuda!Resources
    <2>9. ASSUME requested = Cuda!FromRank,
                 NEW r \in 0 .. deviceCount - 1, NEW s \in 0 .. deviceCount - 1,
                 Cuda!DeviceFor(r) = Cuda!DeviceFor(s)
          PROVE  r = s
        <3>1. deviceCount \in Nat
            BY <1>2 DEF CudaTypes
        <3>2. r % deviceCount = r /\ s % deviceCount = s
            BY <3>1
        <3> QED
            BY <2>9, <3>2 DEF Cuda!DeviceFor
    <2> QED
        BY <1>3, <2>6, <2>7, <2>8, <2>9
<1>5. Cuda!ObjectsPacked
    <2> DEFINE len == Len(objOffset)
               total == Cuda!TotalUpTo
    <2>1. /\ objOffset \in Seq(Nat) /\ DOMAIN objOffset = 1 .. len /\ len \in Nat
          /\ len = UploadsBefore(step)
          /\ \A n \in 1 .. len : objOffset[n] = total[n - 1]
        BY <1>2 DEF CudaPacks
    <2>2. len <= Cuda!K
        <3>1. step \in Int
            BY <1>2, StepsShape DEF CudaTypes
        <3> QED
            BY <1>2, <2>1, <3>1 DEF UploadsBefore, FirstUpload
    <2>3. /\ total \in [0 .. Cuda!K -> Nat]
          /\ \A n \in 1 .. Cuda!K : total[n] = total[n - 1] + Cuda!Elements(n)
        BY <1>2, Totals
    <2>4. \A n \in 1 .. Cuda!K : Cuda!Elements(n) \in Nat
        <3> TAKE n \in 1 .. Cuda!K
        <3>1. sides[n] \in Nat
            BY <1>2
        <3> QED
            BY <3>1 DEF Cuda!Elements
    <2> HIDE DEF len, total
    <2>5. ASSUME NEW n \in 0 .. Cuda!K, NEW o \in 0 .. Cuda!K, n <= o
          PROVE  total[n] <= total[o]
        BY <1>2, <2>3, <2>4, <2>5, TotalsGrow DEF total
    <2>6. ASSUME NEW n \in 1 .. len
          PROVE  objOffset[n] + Cuda!Elements(n) = total[n] /\ n \in 1 .. Cuda!K
        <3>1. n \in 1 .. Cuda!K
            BY <1>2, <2>1, <2>2
        <3> QED
            BY <2>1, <2>3, <3>1
    <2>7. ASSUME NEW n \in 1 .. len, NEW o \in 1 .. len, n < o
          PROVE  objOffset[n] + Cuda!Elements(n) <= objOffset[o]
        <3>1. n \in 0 .. Cuda!K /\ o - 1 \in 0 .. Cuda!K /\ n <= o - 1
            BY <1>2, <2>1, <2>2, <2>7
        <3> QED
            BY <2>1, <2>5, <2>6, <3>1
    <2>8. ASSUME NEW n \in 1 .. len
          PROVE  objOffset[n] + Cuda!Elements(n) <= total[Cuda!K]
        <3>1. n \in 0 .. Cuda!K /\ Cuda!K \in 0 .. Cuda!K /\ n <= Cuda!K
            BY <1>2, <2>1, <2>2
        <3> QED
            BY <2>5, <2>6, <3>1
    <2>9. cudaCtx = "open" => len = Cuda!K
        <3> SUFFICES ASSUME cudaCtx = "open" PROVE len = Cuda!K
            OBVIOUS
        <3>1. /\ step = Len(Cuda!Steps) + 1 /\ Len(Cuda!Steps) \in Nat
              /\ Cuda!K # 0 => Len(Cuda!Steps) >= 7 + Cuda!K
            <4>1. Cuda!K # 0 => ObjectSteps = 7 + Cuda!K
                BY <1>2 DEF ObjectSteps
            <4>2. /\ Len(Cuda!Steps) \in Nat
                  /\ Len(Cuda!Steps) = IF P > 0 THEN ObjectSteps + 2 ELSE ObjectSteps
                BY <1>2, StepsShape
            <4> QED
                BY <1>2, <1>3, <4>1, <4>2
        <3> QED
            BY <1>2, <2>1, <3>1 DEF UploadsBefore, FirstUpload
    <2> QED
        BY <2>1, <2>7, <2>8, <2>9 DEF Cuda!ObjectsPacked, total
<1> QED
    BY <1>1, <1>4, <1>5

-----------------------------------------------------------------------------
(* The run of --verify: contexts *)

\* Every step of the run is one of the context's, or leaves it alone.
LEMMA ContextStep ==
    ASSUME ContextInv, [VerifyNext]_verifyVars
    PROVE  ContextInv'
<1>1. CASE UNCHANGED cudaVars
    BY <1>1, ContextFrame
<1>2. CASE CudaStep
    BY <1>2, AcquireKeeps, ChooseDeviceKeeps, UploadKeeps, EndKeeps DEF CudaStep
<1>3. CASE DestroyContext /\ ~UNCHANGED cudaVars
    BY <1>3, EndKeeps DEF DestroyContext
<1>4. \/ UNCHANGED cudaVars \/ CudaStep \/ DestroyContext
    BY DEF VerifyNext, LocalStep, AllocateBuffers, BuffersFail, ReferenceReturned,
       CallSucceeds, CreateReturnsError, SearchReturnsMatch, SearchReturnsError,
       SkipSerial, SkipUnavailable, TryBackend, Judge, Finish, Done, verifyVars
<1> QED
    BY <1>1, <1>2, <1>3, <1>4

\* The context is given back within the call.
LEMMA CalledStep ==
    ASSUME ContextInv, ContextInv', CudaCalled, VerifyNext
    PROVE  CudaCalled'
<1> USE DEF CudaCalled, InCudaCall, InCall, Current
<1>1. CASE AllocateBuffers
    BY <1>1 DEF AllocateBuffers, Call, cudaVars
<1>2. CASE BuffersFail
    BY <1>2 DEF BuffersFail, cudaVars
<1>3. CASE CudaStep
    BY <1>3 DEF CudaStep, vars, loopVars
<1>4. CASE CallSucceeds
    <2>1. UNCHANGED <<phase, b, compiled, held, cudaCtx>> /\ InCall
        BY <1>4 DEF CallSucceeds, loopVars, cudaVars
    <2>2. \/ pc = "create" /\ pc' = "loop" /\ (Current = "cuda" => cudaCtx = "open")
          \/ pc = "loop" /\ pc' = "destroy"
          \/ pc = "return" /\ pc' = "returned"
        BY <1>4 DEF CallSucceeds, CreateSucceeds, LoopEnds, Return
    <2> QED
        BY <2>1, <2>2
<1>5. CASE CreateReturnsError
    BY <1>5 DEF CreateReturnsError, CreateFails, loopVars, cudaVars, ContextInv, CudaHolds
<1>6. CASE SearchReturnsMatch
    <2>1. UNCHANGED <<phase, b, compiled, held, cudaCtx>> /\ pc' = pc
        BY <1>6 DEF SearchReturnsMatch, SearchReturns, loopVars, cudaVars
    <2> QED
        BY <2>1
<1>7. CASE SearchReturnsError
    <2>1. /\ UNCHANGED <<phase, b, compiled, held, cudaCtx>>
          /\ pc = "loop" /\ pc' = "destroy" /\ InCall /\ Current = "cuda"
        BY <1>7 DEF SearchReturnsError, SearchFails, Break, loopVars, cudaVars
    <2> QED
        BY <2>1
<1>8. CASE DestroyContext
    <2>1. UNCHANGED <<phase, b, compiled>> /\ InCall /\ pc' = "return"
        BY <1>8 DEF DestroyContext, Destroy, loopVars
    <2>2. CASE Current = "cuda"
        <3>1. held' = held \ Cuda!Released
            BY <1>8, <2>2 DEF DestroyContext, Cuda!Destroy
        <3>2. held' = {}
            BY <3>1 DEF ContextInv, CudaTypes, Cuda!Released
        <3> QED
            BY <2>1, <2>2, <3>2
    <2>3. CASE Current # "cuda"
        <3>1. UNCHANGED <<held, cudaCtx>>
            BY <1>8, <2>3 DEF DestroyContext, cudaVars
        <3> QED
            BY <2>1, <2>3, <3>1
    <2> QED
        BY <2>2, <2>3
<1>9. CASE ReferenceReturned
    BY <1>9 DEF ReferenceReturned, cudaVars
<1>10. CASE SkipSerial \/ SkipUnavailable
    BY <1>10 DEF SkipSerial, SkipUnavailable, AtBackend, cudaVars
<1>11. CASE TryBackend
    BY <1>11 DEF TryBackend, AtBackend, Call, cudaVars
<1>12. CASE Judge
    BY <1>12 DEF Judge, cudaVars
<1>13. CASE Finish
    BY <1>13 DEF Finish, cudaVars
<1>14. CASE Done
    <2>1. UNCHANGED <<phase, b, compiled, held, cudaCtx, pc>>
        BY <1>14 DEF Done, verifyVars, vars, loopVars, cudaVars
    <2> QED
        BY <2>1
<1> QED
    BY <1>1, <1>2, <1>3, <1>4, <1>5, <1>6, <1>7, <1>8, <1>9, <1>10, <1>11, <1>12,
       <1>13, <1>14 DEF VerifyNext, LocalStep

\* Contexts are well kept throughout the run, however many objects and devices
\* there are.
THEOREM ContextInvariance == VerifySpec => [](ContextInv /\ CudaCalled)
<1>1. VerifyInit => ContextInv /\ CudaCalled
    BY ContextInit DEF VerifyInit, CudaCalled, InCudaCall, InCall
<1>2. ContextInv /\ CudaCalled /\ [VerifyNext]_verifyVars => (ContextInv /\ CudaCalled)'
    <2> SUFFICES ASSUME ContextInv, CudaCalled, [VerifyNext]_verifyVars
                 PROVE  ContextInv' /\ CudaCalled'
        OBVIOUS
    <2>1. ContextInv'
        BY ContextStep
    <2>2. CASE VerifyNext
        BY <2>1, <2>2, CalledStep
    <2>3. CASE UNCHANGED verifyVars
        <3>1. UNCHANGED <<phase, b, compiled, held, cudaCtx, pc>>
            BY <2>3 DEF verifyVars, vars, loopVars, cudaVars
        <3> QED
            BY <2>1, <3>1 DEF CudaCalled, InCudaCall, InCall, Current
    <2> QED
        BY <2>1, <2>2, <2>3
<1> QED
    BY <1>1, <1>2, PTL DEF VerifySpec

\* Nothing that cuda_create has acquired outlives the call of the local runtime
\* that asked for it, however far it came and whatever failed afterwards.
THEOREM ContextsAreGivenBack == VerifySpec => []NothingLeaks
<1>1. ContextInv /\ CudaCalled => NothingLeaks
    BY ContextPromises DEF NothingLeaks, CudaCalled, InCudaCall, InCall
<1> QED
    BY <1>1, ContextInvariance, PTL

\* A search on the device has a context with all it uses, on a device that
\* exists, with the objects packed into one buffer without overlap, whatever
\* their sides and their number.
THEOREM SearchesAreReady == VerifySpec => []ReadyToSearch
<1>1. ContextInv /\ CudaCalled => ReadyToSearch
    BY ContextPromises DEF ReadyToSearch, CudaCalled, InCudaCall
<1> QED
    BY <1>1, ContextInvariance, PTL

-----------------------------------------------------------------------------
(* The run of --verify: verdicts *)

\* What is known of the backend that is searching.
LEMMA CurrentKnown ==
    ASSUME VerdictInv, InCall
    PROVE  /\ Current \in Backends
           /\ report[Current] = ""
           /\ phase = "reference" => Current = "serial"
           /\ phase = "run" => Current # "serial" /\ Current \in compiled
                               /\ b \in DOMAIN kBackends(compiled)
                               /\ Current = kBackends(compiled)[b]
<1>1. CASE phase = "reference"
    BY <1>1 DEF VerdictInv, LoopTold, Current, Backends
<1>2. CASE phase = "run"
    <2>1. b \in DOMAIN kBackends(compiled) /\ Current = kBackends(compiled)[b]
          /\ Current # "serial" /\ compiled \subseteq Optional
        BY <1>2 DEF VerdictInv, CallTypes, Current
    <2>2. Current \in Backends /\ Current \in compiled
        BY <2>1, Registered
    <2>3. b \in Int
        BY <2>1, Registered
    <2>4. report[kBackends(compiled)[b]] = ""
        <3>1. \A n \in DOMAIN kBackends(compiled) :
                  n >= b => report[kBackends(compiled)[n]] = ""
            BY DEF VerdictInv, LoopTold
        <3>2. b >= b
            BY <2>3
        <3> QED
            BY <2>1, <3>1, <3>2
    <2> QED
        BY <1>2, <2>1, <2>2, <2>4
<1> QED
    BY <1>1, <1>2 DEF InCall

\* A step of the call tells only of the backend that is called.
LEMMA CallFrame ==
    ASSUME VerdictInv, InCall, UNCHANGED <<loopVars, deviceCount>>,
           pc' \in {"create", "loop", "destroy", "return", "returned"},
           status' \in {"OK", "BACKEND"}, i' \in 1 .. P + 1,
           matches' \in [Pictures -> Results],
           NEW w \in {"right", "wrong", "failed"},
           outcome' = [outcome EXCEPT ![Current] = w],
           CallTold'
    PROVE  VerdictInv'
<1>1. UNCHANGED <<compiled, phase, b, reference, failures, report, exitCode, deviceCount>>
    BY DEF loopVars
<1>2. /\ Current \in Backends /\ report[Current] = ""
      /\ phase = "run" => Current # "serial"
      /\ phase = "reference" \/ phase = "run"
    BY CurrentKnown DEF InCall
<1>3. /\ outcome \in [Backends -> {"", "right", "wrong", "failed"}]
      /\ outcome' \in [Backends -> {"", "right", "wrong", "failed"}]
    BY <1>2 DEF VerdictInv, CallTypes
<1>4. CallTypes'
    BY <1>1, <1>3 DEF VerdictInv, CallTypes, Current
<1>5. ReferenceRight'
    <2>1. phase = "run" => outcome'["serial"] = outcome["serial"]
        BY <1>2, <1>3 DEF Backends
    <2> QED
        BY <1>1, <1>2, <2>1 DEF VerdictInv, ReferenceRight
<1>6. LoopTold'
    <2>1. \A be \in Backends : be # Current => outcome'[be] = outcome[be]
        BY <1>3
    <2>2. \A be \in Backends :
              /\ report[be] = "OK" => outcome'[be] = "right"
              /\ report[be] = "MISMATCH" => outcome'[be] = "wrong"
              /\ report[be] = "FAILED" => outcome'[be] = "failed"
        BY <1>2, <2>1 DEF VerdictInv, LoopTold
    <2> QED
        BY <1>1, <2>2 DEF VerdictInv, LoopTold
<1>7. ExitTold'
    BY <1>1, <1>2 DEF VerdictInv, ExitTold
<1> QED
    BY <1>4, <1>5, <1>6, <1>7 DEF VerdictInv

\* Where nothing of the run changes, nothing is told.
LEMMA VerdictFrame ==
    ASSUME VerdictInv, UNCHANGED <<vars, loopVars, outcome, deviceCount>>
    PROVE  VerdictInv'
<1>1. /\ UNCHANGED <<pc, i, ctx, status, matches, before>>
      /\ UNCHANGED <<compiled, phase, b, reference, failures, report, exitCode>>
      /\ UNCHANGED <<outcome, deviceCount>>
    BY DEF vars, loopVars
<1>2. CallTypes'
    BY <1>1 DEF VerdictInv, CallTypes, Current
<1>3. CallTold'
    BY <1>1 DEF VerdictInv, CallTold, InCall, Current
<1>4. ReferenceRight' /\ ExitTold'
    BY <1>1 DEF VerdictInv, ReferenceRight, ExitTold
<1>5. LoopTold'
    BY <1>1 DEF VerdictInv, LoopTold
<1> QED
    BY <1>2, <1>3, <1>4, <1>5 DEF VerdictInv

LEMMA CudaStepTells ==
    ASSUME VerdictInv, CudaStep
    PROVE  VerdictInv'
<1>1. UNCHANGED <<vars, loopVars, outcome>>
    BY DEF CudaStep
<1>2. UNCHANGED deviceCount
    BY DEF CudaStep, Cuda!Acquire, Cuda!ChooseDevice, Cuda!Upload, Cuda!StepFails,
       Cuda!Publish, Cuda!CleanUp, Cuda!inputs
<1> QED
    BY <1>1, <1>2, VerdictFrame

\* The steps that leave the outcome alone.
LEMMA CallProceeds ==
    ASSUME VerdictInv, CallSucceeds \/ DestroyContext
    PROVE  VerdictInv'
<1>1. UNCHANGED <<loopVars, outcome, status, matches, i>> /\ InCall
    BY DEF CallSucceeds, CreateSucceeds, LoopEnds, Return, DestroyContext, Destroy
<1>2. UNCHANGED deviceCount
    BY DEF CallSucceeds, DestroyContext, cudaVars, Cuda!Destroy, Cuda!inputs
<1>3. \/ pc = "create" /\ pc' = "loop"
      \/ pc = "loop" /\ i > P /\ pc' = "destroy"
      \/ pc = "return" /\ pc' = "returned"
      \/ pc = "destroy" /\ pc' = "return"
    BY DEF CallSucceeds, CreateSucceeds, LoopEnds, Return, DestroyContext, Destroy
<1>4. UNCHANGED <<phase, b, compiled>>
    BY <1>1 DEF loopVars
<1>5. i \in 1 .. P + 1 /\ P \in Nat /\ CallTold /\ CallTypes
    BY PicturesAssumption DEF VerdictInv, CallTypes
<1>6. i > P => i = P + 1
    BY <1>5
<1>7. CallTold'
    <2>1. pc' # "create" /\ InCall' /\ Current' = Current
        BY <1>1, <1>3, <1>4 DEF InCall, Current
    <2>2. pc' = "loop" => status' = "OK"
        BY <1>1, <1>3, <1>5 DEF CallTold
    <2>3. pc' # "loop" /\ status' = "OK" => i' = P + 1
        BY <1>1, <1>3, <1>5, <1>6 DEF CallTold
    <2> QED
        BY <1>1, <1>5, <2>1, <2>2, <2>3 DEF CallTold
<1>8. outcome[Current] \in {"right", "wrong", "failed"}
    BY <1>1, <1>5 DEF CallTold, CallTypes
<1>9. outcome' = [outcome EXCEPT ![Current] = outcome[Current]]
    BY <1>1, <1>5 DEF CallTypes
<1>10. pc' \in {"create", "loop", "destroy", "return", "returned"}
    BY <1>3
<1>11. status' \in {"OK", "BACKEND"} /\ i' \in 1 .. P + 1 /\ matches' \in [Pictures -> Results]
    BY <1>1, <1>5 DEF CallTypes
<1> QED
    BY <1>1, <1>2, <1>7, <1>8, <1>9, <1>10, <1>11, CallFrame

\* The steps that fail.
LEMMA CallFails ==
    ASSUME VerdictInv, CreateReturnsError \/ SearchReturnsError
    PROVE  VerdictInv'
<1>1. /\ UNCHANGED <<loopVars, cudaVars, i>> /\ InCall
      /\ status' = "BACKEND" /\ pc' \in {"return", "destroy"}
      /\ matches' = matches \/ matches' = [matches EXCEPT ![i] = NoMatch]
      /\ outcome' = [outcome EXCEPT ![Current] = "failed"]
    BY DEF CreateReturnsError, CreateFails, SearchReturnsError, SearchFails, Break, Did
<1>2. UNCHANGED <<phase, b, compiled, deviceCount>>
    BY <1>1 DEF loopVars, cudaVars
<1>3. CallTypes /\ Current \in Backends
    BY <1>1, CurrentKnown DEF VerdictInv
<1>4. CallTold'
    <2>1. Current' = Current /\ outcome'[Current] = "failed"
        BY <1>1, <1>2, <1>3 DEF Current, CallTypes
    <2> QED
        BY <1>1, <2>1 DEF CallTold
<1>5. /\ pc' \in {"create", "loop", "destroy", "return", "returned"}
      /\ status' \in {"OK", "BACKEND"} /\ i' \in 1 .. P + 1
      /\ matches' \in [Pictures -> Results]
    BY <1>1, <1>3, CanonicalIsAResult DEF CallTypes
<1> QED
    BY <1>1, <1>2, <1>4, <1>5, CallFrame

\* A wrong match is told from the right ones, and stays in the array.
LEMMA SearchTells ==
    ASSUME VerdictInv, SearchReturnsMatch
    PROVE  VerdictInv'
<1>1. PICK match \in Results :
          /\ SearchReturns(match)
          /\ Current = "serial" => match = Canonical[i]
          /\ IF match = Canonical[i] THEN UNCHANGED outcome ELSE Did("wrong")
    BY DEF SearchReturnsMatch
<1>2. /\ InCall /\ UNCHANGED <<loopVars, cudaVars>>
      /\ pc = "loop" /\ pc' = "loop" /\ i <= P /\ i' = i + 1 /\ status' = "OK"
      /\ matches' = [matches EXCEPT ![i] = match]
    BY <1>1 DEF SearchReturnsMatch, SearchReturns, NextPicture
<1>3. UNCHANGED <<phase, b, compiled, deviceCount>>
    BY <1>2 DEF loopVars, cudaVars
<1>4. CallTypes /\ CallTold /\ Current \in Backends /\ P \in Nat
    BY <1>2, CurrentKnown, PicturesAssumption DEF VerdictInv
<1>5. /\ i \in Pictures /\ i' \in 1 .. P + 1 /\ matches' \in [Pictures -> Results]
      /\ i \in 1 .. P + 1
    <2>1. i \in 1 .. P + 1 /\ i \in Pictures
        <3>1. i \in 1 .. P + 1
            BY <1>4 DEF CallTypes
        <3>2. i <= P /\ P \in Nat
            BY <1>2, <1>4
        <3> QED
            BY <3>1, <3>2 DEF Pictures
    <2>2. i' \in 1 .. P + 1
        BY <1>2, <1>4, <2>1 DEF Pictures
    <2> QED
        BY <1>1, <1>2, <1>4, <2>1, <2>2 DEF CallTypes
<1>6. status = "OK"
    BY <1>2, <1>4 DEF CallTold
<1>7. /\ matches'[i] = match
      /\ \A n \in Pictures : n # i => matches'[n] = matches[n]
      /\ \A n \in Pictures : n < i' <=> n < i \/ n = i
    <2>1. matches \in [Pictures -> Results]
        BY <1>4 DEF CallTypes
    <2> QED
        BY <1>2, <1>5, <2>1 DEF Pictures
<1>8. Current' = Current /\ InCall'
    BY <1>2, <1>3 DEF Current, InCall
<1> DEFINE w == IF match = Canonical[i] THEN outcome[Current] ELSE "wrong"
<1>9. outcome' = [outcome EXCEPT ![Current] = w] /\ outcome'[Current] = w
    <2>1. outcome \in [Backends -> {"", "right", "wrong", "failed"}]
        BY <1>4 DEF CallTypes
    <2> QED
        BY <1>1, <1>4, <2>1 DEF Did
<1>10. w \in {"right", "wrong", "failed"}
    BY <1>2, <1>4, <1>6 DEF CallTold
<1>11. \/ /\ w = "right"
          /\ \A n \in Pictures : n < i' => matches'[n] = Canonical[n]
       \/ /\ w = "wrong" /\ Current # "serial"
          /\ \E n \in Pictures : n < i' /\ matches'[n] # Canonical[n]
    <2>1. CASE match # Canonical[i]
        <3>1. w = "wrong" /\ Current # "serial" /\ i < i' /\ matches'[i] # Canonical[i]
            BY <1>1, <1>5, <1>7, <2>1
        <3> QED
            BY <1>5, <3>1
    <2>2. CASE match = Canonical[i] /\ outcome[Current] = "right"
        <3>1. \A n \in Pictures : n < i => matches[n] = Canonical[n]
            BY <1>2, <1>4, <1>6, <2>2 DEF CallTold
        <3>2. \A n \in Pictures : n < i' => matches'[n] = Canonical[n]
            BY <1>7, <2>2, <3>1
        <3> QED
            BY <2>2, <3>2
    <2>3. CASE match = Canonical[i] /\ outcome[Current] # "right"
        <3>1. /\ outcome[Current] = "wrong" /\ Current # "serial"
              /\ \E n \in Pictures : n < i /\ matches[n] # Canonical[n]
            BY <1>2, <1>4, <1>6, <2>3 DEF CallTold
        <3>2. PICK n \in Pictures : n < i /\ matches[n] # Canonical[n]
            BY <3>1
        <3>3. n # i /\ n < i'
            BY <1>5, <1>7, <3>2 DEF Pictures
        <3>4. matches'[n] # Canonical[n]
            BY <1>7, <3>2, <3>3
        <3> QED
            BY <2>3, <3>1, <3>3, <3>4
    <2> QED
        BY <2>1, <2>2, <2>3
<1> HIDE DEF w
<1>12. CallTold'
    BY <1>2, <1>8, <1>9, <1>11 DEF CallTold
<1> QED
    BY <1>2, <1>3, <1>5, <1>9, <1>10, <1>12, CallFrame

-----------------------------------------------------------------------------
(* The run of --verify: the loop *)

LEMMA NothingIsToldYet ==
    ASSUME VerifyInit
    PROVE  VerdictInv
<1>1. /\ pc = "create" /\ i = 1 /\ status = "OK" /\ matches \in [Pictures -> Results]
      /\ compiled \subseteq Optional /\ phase = "allocate" /\ b = 1 /\ failures = 0
      /\ report = [be \in Backends |-> ""] /\ outcome = [be \in Backends |-> ""]
      /\ exitCode = 0
    BY DEF VerifyInit, Init
<1>2. /\ Len(kBackends(compiled)) \in Nat
      /\ DOMAIN kBackends(compiled) = 1 .. Len(kBackends(compiled))
      /\ \A n \in DOMAIN kBackends(compiled) : kBackends(compiled)[n] \in Backends
    BY <1>1, Registered
<1>3. CallTypes
    <2>1. i \in 1 .. P + 1 /\ b \in 1 .. Len(kBackends(compiled)) + 1
        <3>1. 1 \in 1 .. P + 1 /\ 1 \in 1 .. Len(kBackends(compiled)) + 1
            BY <1>2, PicturesAssumption
        <3>2. i = 1 /\ b = 1
            BY <1>1
        <3> QED
            BY <3>1, <3>2
    <2>2. failures \in Nat
        BY <1>1
    <2> QED
        BY <1>1, <2>1, <2>2 DEF CallTypes
<1>4. CallTold /\ ReferenceRight /\ ExitTold
    <2>1. outcome["serial"] = ""
        BY <1>1 DEF Backends
    <2> QED
        BY <1>1, <2>1 DEF CallTold, InCall, ReferenceRight, ExitTold
<1>5. LoopTold
    <2>1. \A be \in Backends : report[be] = ""
        BY <1>1
    <2>2. "serial" \in Backends /\ compiled \subseteq Backends
        BY <1>1 DEF Backends
    <2>3. \A n \in DOMAIN kBackends(compiled) : ~(n < b)
        <3>1. \A n \in 1 .. Len(kBackends(compiled)) : ~(n < 1)
            BY <1>2
        <3> QED
            BY <1>1, <1>2, <3>1
    <2>4. \A n \in DOMAIN kBackends(compiled) : report[kBackends(compiled)[n]] = ""
        BY <1>2, <2>1
    <2>5. ~(failures > 0)
        <3>1. failures = 0
            BY <1>1
        <3> QED
            BY <3>1
    <2> QED
        BY <1>1, <2>1, <2>2, <2>3, <2>4, <2>5 DEF LoopTold
<1> QED
    BY <1>3, <1>4, <1>5 DEF VerdictInv

\* The reference is made with the serial backend, before any other is called.
LEMMA AllocationTells ==
    ASSUME VerdictInv, AllocateBuffers
    PROVE  VerdictInv'
<1>1. /\ phase = "allocate" /\ phase' = "reference" /\ pc' = "create" /\ i' = 1
      /\ status' = "OK" /\ outcome' = [outcome EXCEPT !["serial"] = "right"]
      /\ UNCHANGED <<matches, compiled, b, reference, failures, report, exitCode, deviceCount>>
    BY DEF AllocateBuffers, Call, cudaVars
<1>2. CallTypes /\ LoopTold /\ P \in Nat
    BY PicturesAssumption DEF VerdictInv
<1>3. /\ outcome' \in [Backends -> {"", "right", "wrong", "failed"}]
      /\ outcome'["serial"] = "right"
      /\ \A be \in Backends : be # "serial" => outcome'[be] = outcome[be]
    BY <1>1, <1>2 DEF CallTypes, Backends
<1>4. CallTypes'
    <2>1. i' \in 1 .. P + 1
        BY <1>1, <1>2
    <2> QED
        BY <1>1, <1>2, <1>3, <2>1 DEF CallTypes, Current
<1>5. CallTold'
    <2>1. Current' = "serial" /\ \A n \in Pictures : ~(n < i')
        BY <1>1 DEF Current, Pictures
    <2> QED
        BY <1>1, <1>3, <2>1 DEF CallTold
<1>6. LoopTold'
    <2>1. \A be \in Backends :
              /\ report[be] = "OK" => outcome'[be] = "right"
              /\ report[be] = "MISMATCH" => outcome'[be] = "wrong"
              /\ report[be] = "FAILED" => outcome'[be] = "failed"
        BY <1>2, <1>3 DEF LoopTold
    <2> QED
        BY <1>1, <1>2, <2>1 DEF LoopTold
<1>7. ReferenceRight' /\ ExitTold'
    BY <1>1 DEF VerdictInv, ReferenceRight, ExitTold
<1> QED
    BY <1>4, <1>5, <1>6, <1>7 DEF VerdictInv

LEMMA ExitOnBuffersTells ==
    ASSUME VerdictInv, BuffersFail
    PROVE  VerdictInv'
<1>1. /\ phase' = "done" /\ exitCode' = 1 /\ phase = "allocate"
      /\ UNCHANGED <<pc, i, status, matches, compiled, b, reference, failures, report, outcome,
                     deviceCount>>
    BY DEF BuffersFail, vars, cudaVars
<1>2. CallTypes'
    BY <1>1 DEF VerdictInv, CallTypes
<1>3. LoopTold'
    BY <1>1 DEF VerdictInv, LoopTold
<1>4. CallTold' /\ ReferenceRight'
    BY <1>1 DEF CallTold, InCall, ReferenceRight
<1> QED
    BY <1>1, <1>2, <1>3, <1>4 DEF VerdictInv, ExitTold

LEMMA Following ==
    ASSUME NEW l \in Nat, NEW n \in 1 .. l
    PROVE  n + 1 \in 1 .. l + 1 /\ n >= n /\ n \in Int
OBVIOUS

LEMMA Within ==
    ASSUME NEW l \in Nat, NEW n \in 1 .. l + 1, n <= l
    PROVE  n \in 1 .. l /\ n >= n
OBVIOUS

LEMMA Behind ==
    ASSUME NEW l \in Nat, NEW n \in 1 .. l, NEW o \in 1 .. l + 1, o > l
    PROVE  n < o
OBVIOUS

LEMMA Order ==
    ASSUME NEW n \in Int, NEW o \in Int
    PROVE  /\ o >= n + 1 <=> o >= n /\ o # n
           /\ o < n + 1 <=> o < n \/ o = n
OBVIOUS

LEMMA OneMore ==
    ASSUME NEW n \in Nat
    PROVE  n + 1 \in Nat /\ n + 1 > 0
OBVIOUS

\* The loop goes on to the next backend, and what it has told of this one stays.
LEMMA LoopAdvances ==
    ASSUME VerdictInv, phase \in {"loop", "run"}, b \in DOMAIN kBackends(compiled),
           NEW what \in {"", "skipped", "OK", "MISMATCH", "FAILED"},
           NEW at, at = kBackends(compiled)[b],
           report' = [report EXCEPT ![at] = what],
           phase' = "loop", b' = b + 1,
           UNCHANGED <<pc, i, status, matches, compiled, outcome, deviceCount, reference,
                       exitCode>>,
           at = "serial" => what = "",
           at # "serial" /\ Available(at, deviceCount) => what \in {"OK", "MISMATCH", "FAILED"},
           what = "OK" => outcome[at] = "right",
           what = "MISMATCH" => outcome[at] = "wrong",
           what = "FAILED" => outcome[at] = "failed",
           failures' = IF what \in {"MISMATCH", "FAILED"} THEN failures + 1 ELSE failures
    PROVE  VerdictInv'
<1> DEFINE L == kBackends(compiled)
<1>1. CallTypes /\ LoopTold /\ compiled \subseteq Optional
    BY DEF VerdictInv, CallTypes
<1>2. /\ Len(L) \in Nat /\ DOMAIN L = 1 .. Len(L)
      /\ \A n \in DOMAIN L : L[n] \in Backends /\ (L[n] # "serial" => L[n] \in compiled)
      /\ \A n, o \in DOMAIN L : L[n] = L[o] => n = o
    BY <1>1, Registered
<1>3. at \in Backends /\ (at # "serial" => at \in compiled) /\ b \in DOMAIN L /\ at = L[b]
    BY <1>2
<1>4. b \in 1 .. Len(L) /\ b' \in 1 .. Len(L) + 1
    <2>1. b \in 1 .. Len(L)
        BY <1>2, <1>3
    <2> QED
        BY <1>2, <2>1, Following
<1>5. kBackends(compiled)' = L
    BY DEF kBackends
<1>6. report[at] = ""
    <2>1. \A n \in DOMAIN L : n >= b => report[L[n]] = ""
        BY <1>1 DEF LoopTold
    <2>2. b >= b
        BY <1>2, <1>4, Following
    <2> QED
        BY <1>3, <2>1, <2>2
<1>7. /\ report' \in [Backends -> {"", "skipped", "OK", "MISMATCH", "FAILED"}]
      /\ report'[at] = what
      /\ \A be \in Backends : be # at => report'[be] = report[be]
    <2>1. report \in [Backends -> {"", "skipped", "OK", "MISMATCH", "FAILED"}]
        BY <1>1 DEF CallTypes
    <2> QED
        BY <1>3, <2>1
<1>8. failures \in Nat /\ failures' \in Nat
    BY <1>1, OneMore DEF CallTypes
<1>9. \A n \in DOMAIN L : (n >= b' <=> n >= b /\ n # b) /\ (n < b' <=> n < b \/ n = b)
    <2>1. \A n \in 1 .. Len(L) : /\ n >= b + 1 <=> n >= b /\ n # b
                                 /\ n < b + 1 <=> n < b \/ n = b
        <3>1. b \in Int /\ \A n \in 1 .. Len(L) : n \in Int
            BY <1>2, <1>4, Following
        <3> QED
            BY <3>1, Order
    <2> QED
        BY <1>2, <2>1
<1> HIDE DEF L
<1>10. CallTypes'
    BY <1>1, <1>4, <1>5, <1>7, <1>8 DEF CallTypes
<1>11. CallTold' /\ ReferenceRight'
    BY DEF VerdictInv, CallTold, InCall, ReferenceRight
<1>12. ExitTold'
    <2>1. exitCode = 0
        BY DEF VerdictInv, ExitTold
    <2> QED
        BY <2>1 DEF ExitTold
<1>13. LoopTold'
    <2>1. ASSUME NEW be \in Backends
          PROVE  /\ report'[be] = "OK" => outcome[be] = "right"
                 /\ report'[be] = "MISMATCH" => outcome[be] = "wrong"
                 /\ report'[be] = "FAILED" => outcome[be] = "failed"
        BY <1>1, <1>7 DEF LoopTold
    <2>2. report'["serial"] = ""
        BY <1>1, <1>7 DEF LoopTold, Backends
    <2>3. ASSUME NEW n \in DOMAIN L, n >= b'
          PROVE  report'[L[n]] = ""
        <3>1. L[n] # at /\ n >= b
            BY <1>2, <1>3, <1>9, <2>3
        <3>2. report[L[n]] = ""
            BY <1>1, <3>1 DEF LoopTold, L
        <3> QED
            BY <1>2, <1>7, <3>1, <3>2
    <2>4. ASSUME NEW n \in DOMAIN L, n < b', L[n] # "serial", Available(L[n], deviceCount)
          PROVE  report'[L[n]] \in {"OK", "MISMATCH", "FAILED"}
        <3>1. CASE n = b
            BY <1>3, <1>7, <2>4, <3>1
        <3>2. CASE n # b
            <4>1. n < b /\ L[n] # at
                BY <1>2, <1>3, <1>9, <2>4, <3>2
            <4>2. report[L[n]] \in {"OK", "MISMATCH", "FAILED"}
                BY <1>1, <2>4, <4>1 DEF LoopTold, L
            <4> QED
                BY <1>2, <1>7, <4>1, <4>2
        <3> QED
            BY <3>1, <3>2
    <2>5. failures' > 0 <=> \E be \in compiled : report'[be] \in {"MISMATCH", "FAILED"}
        <3>1. failures > 0 <=> \E be \in compiled : report[be] \in {"MISMATCH", "FAILED"}
            BY <1>1 DEF LoopTold
        <3>2. compiled \subseteq Backends
            BY <1>1 DEF Backends
        <3>3. CASE what \in {"MISMATCH", "FAILED"}
            <4>1. failures' > 0
                BY <1>8, <3>3, OneMore
            <4>2. at \in compiled
                BY <1>3, <3>3
            <4> QED
                BY <1>7, <3>3, <4>1, <4>2
        <3>4. CASE what \notin {"MISMATCH", "FAILED"}
            <4>1. \A be \in compiled : report'[be] \in {"MISMATCH", "FAILED"}
                                       <=> report[be] \in {"MISMATCH", "FAILED"}
                BY <1>6, <1>7, <3>2, <3>4
            <4>2. failures' = failures
                BY <3>4
            <4> QED
                BY <3>1, <4>1, <4>2
        <3> QED
            BY <3>3, <3>4
    <2>6. phase' \notin {"allocate", "reference"}
        OBVIOUS
    <2> QED
        BY <1>5, <2>1, <2>2, <2>3, <2>4, <2>5, <2>6 DEF LoopTold, L
<1> QED
    BY <1>10, <1>11, <1>12, <1>13 DEF VerdictInv

LEMMA SkipTells ==
    ASSUME VerdictInv, SkipSerial \/ SkipUnavailable
    PROVE  VerdictInv'
<1>1. /\ phase = "loop" /\ phase' = "loop" /\ b <= Len(kBackends(compiled)) /\ b' = b + 1
      /\ UNCHANGED <<pc, i, status, matches, compiled, outcome, deviceCount, reference,
                     exitCode, failures>>
    BY DEF SkipSerial, SkipUnavailable, AtBackend, vars, cudaVars
<1> DEFINE at == kBackends(compiled)[b]
<1>2. CallTypes /\ LoopTold /\ compiled \subseteq Optional
    BY DEF VerdictInv, CallTypes
<1>3. b \in DOMAIN kBackends(compiled) /\ at \in Backends /\ Current = at
    <2>1. /\ Len(kBackends(compiled)) \in Nat
          /\ DOMAIN kBackends(compiled) = 1 .. Len(kBackends(compiled))
          /\ \A n \in DOMAIN kBackends(compiled) : kBackends(compiled)[n] \in Backends
        BY <1>2, Registered
    <2>2. b \in 1 .. Len(kBackends(compiled)) + 1
        BY <1>2 DEF CallTypes
    <2>3. b \in 1 .. Len(kBackends(compiled))
        BY <1>1, <2>1, <2>2, Within
    <2> QED
        BY <1>1, <2>1, <2>3 DEF Current
<1>4. report \in [Backends -> {"", "skipped", "OK", "MISMATCH", "FAILED"}]
    BY <1>2 DEF CallTypes
<1>5. CASE SkipSerial
    <2>1. at = "serial" /\ report' = report
        BY <1>3, <1>5 DEF SkipSerial
    <2>2. report["serial"] = ""
        BY <1>2 DEF LoopTold
    <2>3. report' = [report EXCEPT ![at] = ""]
        BY <1>4, <2>1, <2>2
    <2> HIDE DEF at
    <2> QED
        BY <1>1, <1>3, <2>1, <2>3, LoopAdvances DEF at
<1>6. CASE SkipUnavailable
    <2>1. ~Available(at, deviceCount) /\ report' = [report EXCEPT ![at] = "skipped"]
        BY <1>3, <1>6 DEF SkipUnavailable
    <2>2. at # "serial"
        BY <2>1 DEF Available
    <2> HIDE DEF at
    <2> QED
        BY <1>1, <1>3, <2>1, <2>2, LoopAdvances DEF at
<1> QED
    BY <1>5, <1>6

\* The verdict on a backend is what it really did: the reference is the
\* canonical result of every picture.
LEMMA JudgeTells ==
    ASSUME VerdictInv, Judge
    PROVE  VerdictInv'
<1> DEFINE verdict == IF RunFailed THEN "FAILED"
                      ELSE IF matches = reference THEN "OK" ELSE "MISMATCH"
<1>1. /\ phase = "run" /\ pc = "returned" /\ phase' = "loop" /\ b' = b + 1
      /\ UNCHANGED <<pc, i, status, matches, compiled, outcome, deviceCount, reference,
                     exitCode>>
      /\ report' = [report EXCEPT ![Current] = verdict]
      /\ failures' = IF verdict = "OK" THEN failures ELSE failures + 1
    BY DEF Judge, vars, cudaVars
<1>2. /\ Current \in Backends /\ Current # "serial" /\ InCall
      /\ b \in DOMAIN kBackends(compiled) /\ Current = kBackends(compiled)[b]
    BY <1>1, CurrentKnown DEF InCall
<1>3. CallTypes /\ CallTold /\ reference = Canonical /\ P \in Nat
    BY <1>1, PicturesAssumption DEF VerdictInv, ReferenceRight
<1>4. CASE status # "OK"
    <2>1. outcome[Current] = "failed" /\ verdict = "FAILED"
        BY <1>2, <1>3, <1>4 DEF CallTold, RunFailed
    <2> HIDE DEF verdict
    <2> QED
        BY <1>1, <1>2, <2>1, LoopAdvances
<1>5. CASE status = "OK"
    <2>1. i = P + 1 /\ \A n \in Pictures : n < i
        <3>1. i = P + 1
            BY <1>1, <1>2, <1>3, <1>5 DEF CallTold
        <3> QED
            BY <1>3, <3>1 DEF Pictures
    <2>2. \/ outcome[Current] = "right" /\ matches = Canonical
          \/ outcome[Current] = "wrong" /\ matches # Canonical
        <3>1. matches = [n \in Pictures |-> matches[n]]
            BY <1>3 DEF CallTypes
        <3>2. CASE /\ outcome[Current] = "right"
                   /\ \A n \in Pictures : n < i => matches[n] = Canonical[n]
            <4>1. \A n \in Pictures : matches[n] = Canonical[n]
                BY <2>1, <3>2
            <4> QED
                BY <3>1, <3>2, <4>1, CanonicalAssumption
        <3>3. CASE /\ outcome[Current] = "wrong"
                   /\ \E n \in Pictures : n < i /\ matches[n] # Canonical[n]
            BY <3>3
        <3> QED
            BY <1>2, <1>3, <1>5, <3>2, <3>3 DEF CallTold
    <2>3. CASE outcome[Current] = "right"
        <3>1. verdict = "OK"
            BY <1>3, <1>5, <2>2, <2>3 DEF RunFailed
        <3> HIDE DEF verdict
        <3> QED
            BY <1>1, <1>2, <2>3, <3>1, LoopAdvances
    <2>4. CASE outcome[Current] = "wrong"
        <3>1. verdict = "MISMATCH"
            BY <1>3, <1>5, <2>2, <2>4 DEF RunFailed
        <3> HIDE DEF verdict
        <3> QED
            BY <1>1, <1>2, <2>4, <3>1, LoopAdvances
    <2> QED
        BY <2>2, <2>3, <2>4
<1> QED
    BY <1>4, <1>5

\* The array of an earlier backend is handed to the next one.
LEMMA TryTells ==
    ASSUME VerdictInv, TryBackend
    PROVE  VerdictInv'
<1> DEFINE at == kBackends(compiled)[b]
<1>1. /\ phase = "loop" /\ phase' = "run" /\ pc' = "create" /\ i' = 1 /\ status' = "OK"
      /\ b <= Len(kBackends(compiled)) /\ Current = at /\ at # "serial"
      /\ outcome' = [outcome EXCEPT ![at] = "right"]
      /\ UNCHANGED <<matches, compiled, b, reference, failures, report, exitCode, deviceCount>>
    BY DEF TryBackend, AtBackend, Call, cudaVars, Current
<1>2. CallTypes /\ LoopTold /\ compiled \subseteq Optional /\ P \in Nat
    BY PicturesAssumption DEF VerdictInv, CallTypes
<1>3. b \in DOMAIN kBackends(compiled) /\ at \in Backends /\ b >= b
    <2>1. /\ Len(kBackends(compiled)) \in Nat
          /\ DOMAIN kBackends(compiled) = 1 .. Len(kBackends(compiled))
          /\ \A n \in DOMAIN kBackends(compiled) : kBackends(compiled)[n] \in Backends
        BY <1>2, Registered
    <2>2. b \in 1 .. Len(kBackends(compiled)) + 1
        BY <1>2 DEF CallTypes
    <2>3. b \in 1 .. Len(kBackends(compiled)) /\ b >= b
        BY <1>1, <2>1, <2>2, Within
    <2> QED
        BY <2>1, <2>3
<1>4. Current' = at
    BY <1>1 DEF Current
<1>5. report[at] = ""
    BY <1>2, <1>3 DEF LoopTold
<1> HIDE DEF at
<1>6. /\ outcome' \in [Backends -> {"", "right", "wrong", "failed"}]
      /\ outcome'[at] = "right"
      /\ \A be \in Backends : be # at => outcome'[be] = outcome[be]
    <2>1. outcome \in [Backends -> {"", "right", "wrong", "failed"}]
        BY <1>2 DEF CallTypes
    <2> QED
        BY <1>1, <1>3, <2>1
<1>7. CallTypes'
    <2>1. i' \in 1 .. P + 1
        <3>1. 1 \in 1 .. P + 1
            BY <1>2
        <3> QED
            BY <1>1, <3>1
    <2> QED
        BY <1>1, <1>2, <1>3, <1>4, <1>6, <2>1 DEF CallTypes
<1>8. CallTold'
    <2>1. \A n \in Pictures : ~(n < i')
        <3>1. \A n \in Pictures : ~(n < 1)
            BY <1>2 DEF Pictures
        <3> QED
            BY <1>1, <3>1
    <2> QED
        BY <1>1, <1>4, <1>6, <2>1 DEF CallTold
<1>9. LoopTold'
    <2>1. \A be \in Backends :
              /\ report[be] = "OK" => outcome'[be] = "right"
              /\ report[be] = "MISMATCH" => outcome'[be] = "wrong"
              /\ report[be] = "FAILED" => outcome'[be] = "failed"
        BY <1>2, <1>5, <1>6 DEF LoopTold
    <2> QED
        BY <1>1, <1>2, <2>1 DEF LoopTold
<1>10. ReferenceRight' /\ ExitTold'
    <2>1. outcome'["serial"] = outcome["serial"]
        BY <1>1, <1>6 DEF Backends
    <2> QED
        BY <1>1, <2>1 DEF VerdictInv, ReferenceRight, ExitTold
<1> QED
    BY <1>7, <1>8, <1>9, <1>10 DEF VerdictInv

\* The loop starts with the canonical results as the reference, or not at all.
LEMMA ReferenceTells ==
    ASSUME VerdictInv, ReferenceReturned
    PROVE  VerdictInv'
<1>1. /\ phase = "reference" /\ pc = "returned" /\ reference' = matches
      /\ matches' = Cleared
      /\ UNCHANGED <<pc, i, status, compiled, b, failures, report, outcome, deviceCount>>
    BY DEF ReferenceReturned, cudaVars
<1>2. CallTypes /\ CallTold /\ LoopTold /\ P \in Nat /\ exitCode = 0
    BY <1>1, PicturesAssumption DEF VerdictInv, ExitTold
<1>3. Current = "serial" /\ InCall
    BY <1>1 DEF Current, InCall
<1>4. matches' \in [Pictures -> Results]
    BY <1>1 DEF Cleared, Results
<1>5. CASE status = "OK"
    <2>1. phase' = "loop" /\ exitCode' = 0
        BY <1>2, <1>5 DEF ReferenceReturned
    <2>2. i = P + 1 /\ \A n \in Pictures : n < i
        <3>1. i = P + 1
            BY <1>1, <1>2, <1>3, <1>5 DEF CallTold
        <3> QED
            BY <1>2, <3>1 DEF Pictures
    <2>3. outcome["serial"] = "right" /\ \A n \in Pictures : matches[n] = Canonical[n]
        BY <1>2, <1>3, <1>5, <2>2 DEF CallTold
    <2>4. reference' = Canonical
        <3>1. matches = [n \in Pictures |-> matches[n]]
            BY <1>2 DEF CallTypes
        <3> QED
            BY <1>1, <2>3, <3>1, CanonicalAssumption
    <2>5. CallTypes'
        BY <1>1, <1>2, <1>4, <2>1 DEF CallTypes
    <2>6. CallTold' /\ ReferenceRight' /\ ExitTold'
        BY <1>1, <2>1, <2>3, <2>4 DEF CallTold, InCall, ReferenceRight, ExitTold
    <2>7. LoopTold'
        BY <1>1, <1>2, <2>1 DEF LoopTold
    <2> QED
        BY <2>5, <2>6, <2>7 DEF VerdictInv
<1>6. CASE status # "OK"
    <2>1. phase' = "done" /\ exitCode' = 1
        BY <1>6 DEF ReferenceReturned
    <2>2. outcome["serial"] = "failed"
        BY <1>2, <1>3, <1>6 DEF CallTold
    <2>3. CallTypes'
        BY <1>1, <1>2, <1>4, <2>1 DEF CallTypes
    <2>4. CallTold' /\ ReferenceRight' /\ ExitTold'
        BY <1>1, <2>1, <2>2 DEF CallTold, InCall, ReferenceRight, ExitTold
    <2>5. LoopTold'
        BY <1>1, <1>2, <2>1 DEF LoopTold
    <2> QED
        BY <2>3, <2>4, <2>5 DEF VerdictInv
<1> QED
    BY <1>5, <1>6

LEMMA FinishTells ==
    ASSUME VerdictInv, Finish
    PROVE  VerdictInv'
<1>1. /\ phase = "loop" /\ phase' = "done" /\ b > Len(kBackends(compiled))
      /\ exitCode' = IF failures > 0 THEN 1 ELSE 0
      /\ UNCHANGED <<pc, i, status, matches, compiled, b, reference, failures, report, outcome,
                     deviceCount>>
    BY DEF Finish, vars, cudaVars
<1>2. CallTypes /\ LoopTold /\ outcome["serial"] = "right"
    BY <1>1 DEF VerdictInv, ReferenceRight
<1>3. CallTypes'
    BY <1>1, <1>2 DEF CallTypes
<1>4. LoopTold'
    BY <1>1, <1>2 DEF LoopTold
<1>5. CallTold' /\ ReferenceRight' /\ ExitTold'
    BY <1>1, <1>2 DEF CallTold, InCall, ReferenceRight, ExitTold
<1> QED
    BY <1>3, <1>4, <1>5 DEF VerdictInv

LEMMA VerdictStep ==
    ASSUME VerdictInv, [VerifyNext]_verifyVars
    PROVE  VerdictInv'
<1>1. CASE CudaStep
    BY <1>1, CudaStepTells
<1>2. CASE LocalStep
    BY <1>2, CallProceeds, CallFails, SearchTells DEF LocalStep
<1>3. CASE AllocateBuffers \/ BuffersFail
    BY <1>3, AllocationTells, ExitOnBuffersTells
<1>4. CASE ReferenceReturned
    BY <1>4, ReferenceTells
<1>5. CASE SkipSerial \/ SkipUnavailable
    BY <1>5, SkipTells
<1>6. CASE TryBackend
    BY <1>6, TryTells
<1>7. CASE Judge
    BY <1>7, JudgeTells
<1>8. CASE Finish
    BY <1>8, FinishTells
<1>9. CASE Done \/ UNCHANGED verifyVars
    <2>1. UNCHANGED <<vars, loopVars, outcome, deviceCount>>
        BY <1>9 DEF Done, verifyVars, cudaVars
    <2> QED
        BY <2>1, VerdictFrame
<1> QED
    BY <1>1, <1>2, <1>3, <1>4, <1>5, <1>6, <1>7, <1>8, <1>9 DEF VerifyNext

\* At the end every backend that can be used has been told of.
LEMMA VerdictsMean ==
    ASSUME VerdictInv
    PROVE  VerdictTells
<1> DEFINE L == kBackends(compiled)
<1>1. CallTypes /\ LoopTold /\ ExitTold /\ compiled \subseteq Optional
    BY DEF VerdictInv, CallTypes
<1>2. /\ Len(L) \in Nat /\ DOMAIN L = 1 .. Len(L)
      /\ \A be \in compiled : \E n \in DOMAIN L : L[n] = be
    BY <1>1, Registered
<1>3. \A be \in compiled : be \in Backends /\ be # "serial"
    BY <1>1 DEF Backends, Optional
<1>4. ASSUME phase = "done", exitCode = 0
      PROVE  /\ outcome["serial"] = "right"
             /\ \A be \in compiled : Available(be, deviceCount) => outcome[be] = "right"
    <2>1. outcome["serial"] = "right" /\ b > Len(L) /\ ~(failures > 0)
        BY <1>1, <1>4 DEF ExitTold
    <2>2. ASSUME NEW be \in compiled, Available(be, deviceCount)
          PROVE  outcome[be] = "right"
        <3>1. PICK n \in DOMAIN L : L[n] = be
            BY <1>2
        <3>2. n < b
            <4>1. b \in 1 .. Len(L) + 1
                BY <1>1 DEF CallTypes
            <4>2. n \in 1 .. Len(L)
                BY <1>2
            <4> HIDE DEF L
            <4> QED
                BY <1>2, <2>1, <4>1, <4>2, Behind
        <3>3. report[be] \in {"OK", "MISMATCH", "FAILED"}
            BY <1>1, <1>3, <2>2, <3>1, <3>2 DEF LoopTold
        <3>4. report[be] \notin {"MISMATCH", "FAILED"}
            BY <1>1, <2>1 DEF LoopTold
        <3> QED
            BY <1>1, <1>3, <3>3, <3>4 DEF LoopTold
    <2> QED
        BY <2>1, <2>2
<1>5. ASSUME phase = "done", exitCode = 1, outcome["serial"] = "right"
      PROVE  \E be \in compiled : outcome[be] \in {"wrong", "failed"}
    <2>1. failures > 0
        BY <1>1, <1>5 DEF ExitTold
    <2>2. PICK be \in compiled : report[be] \in {"MISMATCH", "FAILED"}
        BY <1>1, <2>1 DEF LoopTold
    <2> QED
        BY <1>1, <1>3, <2>2 DEF LoopTold
<1> QED
    BY <1>1, <1>4, <1>5 DEF VerdictTells, LoopTold

\* The report of --verify tells of each backend what it did in this run, though
\* it was given an array with the answers of the one before, and exit code 0
\* means that every backend of the build that can be used on the node found the
\* canonical match of every picture, for every number of pictures and objects.
THEOREM VerdictsTell == VerifySpec => []VerdictTells
<1>1. VerifyInit => VerdictInv
    BY NothingIsToldYet
<1>2. VerdictInv /\ [VerifyNext]_verifyVars => VerdictInv'
    BY VerdictStep
<1>3. VerdictInv => VerdictTells
    BY VerdictsMean
<1> QED
    BY <1>1, <1>2, <1>3, PTL DEF VerifySpec

-----------------------------------------------------------------------------
(* The metric that the backends share *)

\* f holds the sums of the first terms of t, from none to K of them.
AddsUp(f, t, K) ==
    f = [e \in 0 .. K |-> IF e = 0 THEN 0 ELSE f[e - 1] + t[e - 1]]

\* There are partial sums of any list of terms: none is the first place up to
\* which there are not, for one more place can be added to those before.
LEMMA PartialSumsExist ==
    ASSUME NEW K \in Nat, NEW t \in [0 .. K - 1 -> Int]
    PROVE  \E f : AddsUp(f, t, K)
<1> DEFINE Without == {c \in 0 .. K : ~ \E f : AddsUp(f, t, c)}
<1> SUFFICES ASSUME Without # {} PROVE FALSE
    <2>1. K \in 0 .. K
        OBVIOUS
    <2> QED
        BY <2>1
<1>1. Without \in SUBSET Nat
    OBVIOUS
<1>2. PICK c \in Without : \A o \in Without : c <= o
    <2> HIDE DEF Without
    <2> QED
        BY <1>1, LeastNatural
<1>3. c \in 0 .. K /\ c \in Nat /\ ~ \E f : AddsUp(f, t, c)
    OBVIOUS
<1>4. CASE c = 0
    <2>1. AddsUp([e \in 0 .. 0 |-> 0], t, 0)
        BY DEF AddsUp
    <2> QED
        BY <1>3, <1>4, <2>1
<1>5. CASE c > 0
    <2>1. c - 1 \in 0 .. K /\ c - 1 < c
        BY <1>3, <1>5
    <2>2. c - 1 \notin Without
        <3> HIDE DEF Without
        <3>1. c - 1 \in Int /\ c \in Int
            BY <1>3
        <3> QED
            BY <1>2, <2>1, <3>1
    <2>3. PICK f : AddsUp(f, t, c - 1)
        BY <2>1, <2>2
    <2> DEFINE g == [e \in 0 .. c |-> IF e = 0 THEN 0 ELSE f[e - 1] + t[e - 1]]
    <2>4. \A e \in 0 .. c - 1 : g[e] = f[e]
        <3>1. \A e \in 0 .. c - 1 : e \in 0 .. c
            BY <1>3
        <3>2. \A e \in 0 .. c - 1 : f[e] = IF e = 0 THEN 0 ELSE f[e - 1] + t[e - 1]
            BY <2>3 DEF AddsUp
        <3> QED
            BY <3>1, <3>2
    <2>5. \A e \in 1 .. c : e - 1 \in 0 .. c - 1
        BY <1>3
    <2>6. \A e \in 0 .. c : e = 0 \/ e \in 1 .. c
        BY <1>3
    <2>7. g = [e \in 0 .. c |-> IF e = 0 THEN 0 ELSE g[e - 1] + t[e - 1]]
        <3>1. ASSUME NEW e \in 0 .. c
              PROVE  (IF e = 0 THEN 0 ELSE f[e - 1] + t[e - 1])
                     = (IF e = 0 THEN 0 ELSE g[e - 1] + t[e - 1])
            <4> HIDE DEF g
            <4> QED
                BY <2>4, <2>5, <2>6
        <3> QED
            BY <3>1
    <2> HIDE DEF g
    <2> QED
        BY <1>3, <2>7 DEF AddsUp
<1> QED
    BY <1>3, <1>4, <1>5

Terms == [e \in Places |-> Term(patch[e], object[e])]

LEMMA SumIsDefined ==
    ASSUME m \in Nat, Terms \in [0 .. m * m - 1 -> Int]
    PROVE  AddsUp(SumOfFirst, Terms, m * m)
<1> DEFINE K == m * m
<1>1. K \in Nat /\ Terms \in [0 .. K - 1 -> Int]
    OBVIOUS
<1>2. \E f : AddsUp(f, Terms, K)
    <2> HIDE DEF K
    <2> QED
        BY <1>1, PartialSumsExist
<1>3. ASSUME NEW f
      PROVE  AddsUp(f, Terms, K) <=>
             f = [e \in 0 .. K |-> IF e = 0 THEN 0
                                   ELSE f[e - 1] + Term(patch[e - 1], object[e - 1])]
    <2>1. \A e \in 0 .. K : e # 0 => e - 1 \in Places
        BY <1>1 DEF Places
    <2>2. \A e \in 0 .. K : e # 0 => Terms[e - 1] = Term(patch[e - 1], object[e - 1])
        BY <2>1 DEF Terms
    <2>3. [e \in 0 .. K |-> IF e = 0 THEN 0 ELSE f[e - 1] + Terms[e - 1]]
          = [e \in 0 .. K |-> IF e = 0 THEN 0
                              ELSE f[e - 1] + Term(patch[e - 1], object[e - 1])]
        <3> HIDE DEF K
        <3> QED
            BY <2>2
    <2> QED
        BY <2>3 DEF AddsUp
<1> DEFINE Def(f) == f = [e \in 0 .. K |-> IF e = 0 THEN 0
                                   ELSE f[e - 1] + Term(patch[e - 1], object[e - 1])]
<1>4. SumOfFirst = CHOOSE f : Def(f)
    BY DEF SumOfFirst
<1>5. \E f : Def(f)
    BY <1>2, <1>3
<1>6. Def(SumOfFirst)
    <2> HIDE DEF Def
    <2> QED
        BY <1>4, <1>5
<1> QED
    BY <1>3, <1>6

\* Sums of terms that are not negative grow with every term.
LEMMA SumsGrow ==
    ASSUME NEW K \in Nat, NEW t \in [0 .. K - 1 -> Nat], NEW f, AddsUp(f, t, K)
    PROVE  \A e \in 0 .. K : f[e] \in Nat /\ \A j \in 0 .. e : f[j] <= f[e]
<1> DEFINE Grown(e) == f[e] \in Nat /\ \A j \in 0 .. e : f[j] <= f[e]
           Rest == {e \in 0 .. K : ~Grown(e)}
<1> SUFFICES ASSUME Rest # {} PROVE FALSE
    OBVIOUS
<1>1. Rest \in SUBSET Nat
    OBVIOUS
<1>2. PICK e \in Rest : \A o \in Rest : e <= o
    <2> HIDE DEF Rest
    <2> QED
        BY <1>1, LeastNatural
<1>3. e \in 0 .. K /\ ~Grown(e)
    <2> HIDE DEF Grown
    <2> QED
        BY <1>2
<1>4. f[e] = IF e = 0 THEN 0 ELSE f[e - 1] + t[e - 1]
    BY <1>3 DEF AddsUp
<1>5. CASE e = 0
    <2>1. f[e] = 0 /\ \A j \in 0 .. e : j = e
        BY <1>3, <1>4, <1>5
    <2>2. f[e] \in Nat
        BY <2>1
    <2>3. \A j \in 0 .. e : f[j] <= f[e]
        <3>1. \A j \in 0 .. e : f[j] = 0
            BY <2>1
        <3> QED
            BY <2>1, <3>1
    <2> QED
        BY <1>3, <2>2, <2>3
<1>6. CASE e > 0
    <2>1. e - 1 \in 0 .. K - 1 /\ e - 1 \in 0 .. K /\ e - 1 < e /\ e \in Int
        BY <1>3, <1>6
    <2>2. Grown(e - 1)
        <3> HIDE DEF Grown
        <3>1. e - 1 \notin Rest
            <4> HIDE DEF Rest
            <4> QED
                BY <1>2, <2>1
        <3> QED
            BY <2>1, <3>1
    <2>3. f[e - 1] \in Nat /\ t[e - 1] \in Nat /\ f[e] = f[e - 1] + t[e - 1]
        BY <1>4, <1>6, <2>1, <2>2
    <2>4. f[e] \in Nat /\ f[e - 1] <= f[e]
        BY <2>3
    <2>5. ASSUME NEW j \in 0 .. e PROVE f[j] <= f[e]
        <3>1. j = e \/ j \in 0 .. e - 1
            BY <2>1
        <3>2. ASSUME j \in 0 .. e - 1 PROVE f[j] <= f[e - 1] /\ f[j] \in Nat
            <4>1. j \in 0 .. K /\ j < e
                BY <1>3, <3>2
            <4>2. Grown(j)
                <5> HIDE DEF Grown
                <5>1. j \notin Rest
                    <6> HIDE DEF Rest
                    <6> QED
                        BY <1>2, <2>1, <4>1
                <5> QED
                    BY <4>1, <5>1
            <4> QED
                BY <2>2, <3>2, <4>2
        <3> QED
            BY <2>3, <2>4, <3>1, <3>2
    <2> QED
        BY <1>3, <2>4, <2>5
<1> QED
    BY <1>3, <1>5, <1>6

\* Sums of no difference at all stay zero.
LEMMA SumsVanish ==
    ASSUME NEW K \in Nat, NEW t, \A e \in 0 .. K - 1 : t[e] = 0,
           NEW f, AddsUp(f, t, K)
    PROVE  \A e \in 0 .. K : f[e] = 0
<1> DEFINE Rest == {e \in 0 .. K : f[e] # 0}
<1> SUFFICES ASSUME Rest # {} PROVE FALSE
    OBVIOUS
<1>1. Rest \in SUBSET Nat
    OBVIOUS
<1>2. PICK e \in Rest : \A o \in Rest : e <= o
    <2> HIDE DEF Rest
    <2> QED
        BY <1>1, LeastNatural
<1>3. f[e] = IF e = 0 THEN 0 ELSE f[e - 1] + t[e - 1]
    BY <1>2 DEF AddsUp
<1>4. e \in 1 .. K /\ f[e] # 0
    BY <1>2, <1>3
<1>5. e - 1 \in 0 .. K - 1 /\ e - 1 \in 0 .. K /\ e - 1 < e /\ e \in Int /\ e # 0
    BY <1>4
<1>6. f[e - 1] = 0
    <2>1. e - 1 \notin Rest
        <3> HIDE DEF Rest
        <3> QED
            BY <1>2, <1>5
    <2> QED
        BY <1>5, <2>1
<1> QED
    BY <1>3, <1>4, <1>5, <1>6

\* msearch_term: "always >= 0", and 0 for equal elements, zeros included.
LEMMA TermIsNatural ==
    ASSUME NEW p \in Int, NEW o \in Int
    PROVE  Term(p, o) \in Nat /\ (p = o => Term(p, o) = 0)
<1>1. \A e \in Int : Abs(e) \in Nat /\ (e # 0 => Abs(e) > 0) /\ Abs(0) = 0
    BY DEF Abs
<1>2. Scale \in Nat /\ InvZeroEps \in Nat
    BY ScaleAssumption
<1>3. \A a, d \in Nat : a * d \in Nat
    OBVIOUS
<1>4. \A a, d \in Nat : d > 0 => a \div d \in Nat
    OBVIOUS
<1>5. \A a \in Nat : 0 * a = 0
    OBVIOUS
<1>6. CASE p # 0
    <2>1. Abs(p) \in Nat /\ Abs(p) > 0 /\ Abs(p - o) \in Nat
        BY <1>1, <1>6
    <2>2. Scale \div Abs(p) \in Nat
        BY <1>2, <1>4, <2>1
    <2>3. p = o => Abs(p - o) = 0
        BY <1>1
    <2> HIDE DEF Abs
    <2> QED
        BY <1>3, <1>5, <1>6, <2>1, <2>2, <2>3 DEF Term
<1>7. CASE p = 0
    <2>1. Abs(o) \in Nat /\ Abs(o) * Scale \in Nat /\ (o = 0 => Abs(o) = 0)
        BY <1>1, <1>2, <1>3
    <2> QED
        BY <1>2, <1>3, <1>5, <1>7, <2>1 DEF Term
<1> QED
    BY <1>6, <1>7

MetricTypes ==
    /\ m \in Nat \ {0}
    /\ patch \in [Places -> Values]
    /\ object \in [Places -> Values]
    /\ threshold \in Int
    /\ y \in 0 .. m - 1
    /\ x \in 0 .. m

MetricInv ==
    /\ MetricTypes
    /\ sum = SumOfFirst[y * m + x]
    /\ score # -1 => score = sum /\ x = m /\ (GivenUp(sum) \/ y + 1 = m)

LEMMA SumFacts ==
    ASSUME MetricTypes
    PROVE  /\ Terms \in [0 .. m * m - 1 -> Nat]
           /\ AddsUp(SumOfFirst, Terms, m * m)
           /\ patch = object => \A e \in 0 .. m * m - 1 : Terms[e] = 0
<1>1. \A e \in Places : patch[e] \in Int /\ object[e] \in Int
    BY ScaleAssumption DEF MetricTypes
<1>2. \A e \in Places : Term(patch[e], object[e]) \in Nat
    BY <1>1, TermIsNatural
<1>3. Terms \in [Places -> Nat]
    BY <1>2 DEF Terms
<1>4. Terms \in [0 .. m * m - 1 -> Nat] /\ Terms \in [0 .. m * m - 1 -> Int]
    BY <1>3 DEF Places
<1>5. m \in Nat
    BY DEF MetricTypes
<1>6. patch = object => \A e \in 0 .. m * m - 1 : Terms[e] = 0
    BY <1>1, TermIsNatural DEF Terms, Places
<1> QED
    BY <1>4, <1>5, <1>6, SumIsDefined

\* Where the sum stands within the object.
LEMMA Position ==
    ASSUME NEW w \in Nat \ {0}, NEW r \in 0 .. w - 1, NEW c \in 0 .. w
    PROVE  /\ r * w + c \in 0 .. w * w
           /\ c < w => r * w + c \in 0 .. w * w - 1 /\ r * w + c + 1 \in 1 .. w * w
           /\ (r + 1) * w = r * w + w
<1>1. r * w \in Nat /\ r * w <= (w - 1) * w
    OBVIOUS
<1>2. (w - 1) * w = w * w - w /\ w * w \in Nat
    OBVIOUS
<1> QED
    BY <1>1, <1>2

LEMMA ScoreInitInv == ScoreInit => MetricInv
<1> SUFFICES ASSUME ScoreInit PROVE MetricInv
    OBVIOUS
<1>1. MetricTypes
    BY WidthsAssumption, ThresholdsAssumption DEF ScoreInit, MetricTypes
<1>2. y * m + x = 0 /\ 0 \in 0 .. m * m
    BY <1>1 DEF ScoreInit, MetricTypes
<1>3. SumOfFirst[0] = 0
    BY <1>1, <1>2, SumFacts DEF AddsUp
<1> QED
    BY <1>1, <1>2, <1>3 DEF ScoreInit, MetricInv

LEMMA SumsStay == UNCHANGED input => SumOfFirst' = SumOfFirst
BY DEF SumOfFirst, input

LEMMA ScoreStepInv == MetricInv /\ [ScoreNext]_scoreVars => MetricInv'
<1> SUFFICES ASSUME MetricInv, [ScoreNext]_scoreVars PROVE MetricInv'
    OBVIOUS
<1>0. MetricTypes /\ m \in Nat \ {0} /\ y \in 0 .. m - 1 /\ x \in 0 .. m
    BY DEF MetricInv, MetricTypes
<1>1. UNCHANGED input /\ SumOfFirst' = SumOfFirst /\ m' = m /\ threshold' = threshold
    <2>1. UNCHANGED input
        BY DEF ScoreNext, AddTerm, EndRow, ScoreStands, scoreVars
    <2> QED
        BY <2>1, SumsStay DEF input
<1>2. y' \in 0 .. m - 1 /\ x' \in 0 .. m => MetricTypes'
    BY <1>0, <1>1 DEF MetricTypes, input, Places
<1>3. CASE AddTerm
    <2>1. /\ score = -1 /\ score' = score /\ y' = y /\ x' = x + 1 /\ x < m
          /\ sum' = sum + Term(patch[y * m + x], object[y * m + x])
        BY <1>3 DEF AddTerm
    <2>2. x' \in 0 .. m
        BY <1>0, <2>1
    <2> DEFINE e == y * m + x
    <2>3. e + 1 \in 1 .. m * m /\ e \in 0 .. m * m - 1 /\ e + 1 - 1 = e
        <3>1. e + 1 \in 1 .. m * m /\ e \in 0 .. m * m - 1
            BY <1>0, <2>1, Position
        <3> HIDE DEF e
        <3> QED
            BY <3>1
    <2>4. y' * m' + x' = e + 1
        <3>1. y * m \in Int
            BY <1>0
        <3> QED
            BY <1>0, <1>1, <2>1, <3>1
    <2> HIDE DEF e
    <2>5. SumOfFirst[e + 1] = SumOfFirst[e] + Terms[e]
        <3>1. \A j \in 0 .. m * m :
                  SumOfFirst[j] = IF j = 0 THEN 0 ELSE SumOfFirst[j - 1] + Terms[j - 1]
            BY <1>0, SumFacts DEF AddsUp
        <3>2. e + 1 \in 0 .. m * m /\ e + 1 # 0
            BY <1>0, <2>3
        <3>3. PICK j \in 0 .. m * m : j = e + 1 /\ j # 0
            BY <3>2
        <3>4. j - 1 = e
            BY <2>3, <3>3
        <3>5. SumOfFirst[j] = SumOfFirst[j - 1] + Terms[j - 1]
            BY <3>1, <3>3
        <3> QED
            BY <3>3, <3>4, <3>5
    <2>6. Terms[e] = Term(patch[e], object[e])
        BY <2>3 DEF Terms, Places
    <2>7. sum = SumOfFirst[e] /\ sum' = sum + Term(patch[e], object[e])
        BY <2>1 DEF MetricInv, e
    <2>8. sum' = SumOfFirst'[y' * m' + x']
        BY <1>1, <2>4, <2>5, <2>6, <2>7
    <2> QED
        BY <1>0, <1>2, <2>1, <2>2, <2>8 DEF MetricInv
<1>4. CASE EndRow
    <2>1. score = -1 /\ x = m /\ sum' = sum
        BY <1>4 DEF EndRow
    <2>2. CASE (GivenUp(sum) \/ y + 1 = m) /\ score' = sum /\ UNCHANGED <<y, x>>
        <3>1. GivenUp(sum)' = GivenUp(sum)
            BY <1>1, <2>1 DEF GivenUp
        <3> QED
            BY <1>0, <1>1, <1>2, <2>1, <2>2, <3>1 DEF MetricInv
    <2>3. CASE y + 1 < m /\ y' = y + 1 /\ x' = 0 /\ score' = score
        <3>1. y' \in 0 .. m - 1 /\ x' \in 0 .. m
            BY <1>0, <2>3
        <3>2. y' * m' + x' = y * m + x
            <4>1. (y + 1) * m = y * m + m /\ y * m \in Int /\ (y + 1) * m \in Int
                BY <1>0, Position
            <4> QED
                BY <1>0, <1>1, <2>1, <2>3, <4>1
        <3> QED
            BY <1>1, <1>2, <2>1, <2>3, <3>1, <3>2 DEF MetricInv
    <2> QED
        BY <1>4, <2>2, <2>3 DEF EndRow
<1>5. CASE UNCHANGED scoreVars
    <2>1. y' = y /\ x' = x /\ sum' = sum /\ score' = score
        BY <1>5 DEF scoreVars
    <2> QED
        BY <1>0, <1>1, <1>2, <2>1 DEF MetricInv, GivenUp
<1> QED
    BY <1>3, <1>4, <1>5 DEF ScoreNext, ScoreStands

LEMMA ImpliesDecision == MetricInv => DecisionUnchanged
<1> SUFFICES ASSUME MetricInv, score # -1
             PROVE  /\ score < threshold <=> Total < threshold
                    /\ score < threshold => score = Total
                    /\ score <= Total
                    /\ patch = object /\ threshold > 0 => score < threshold
    BY DEF DecisionUnchanged
<1>0. /\ MetricTypes /\ m \in Nat \ {0} /\ y \in 0 .. m - 1 /\ x \in 0 .. m
      /\ threshold \in Int
    BY DEF MetricInv, MetricTypes
<1> DEFINE e == y * m + x
           K == m * m
<1>1. K \in Nat /\ e \in 0 .. K /\ K \in 0 .. K
    BY <1>0, Position
<1>2. /\ Terms \in [0 .. K - 1 -> Nat]
      /\ AddsUp(SumOfFirst, Terms, K)
      /\ patch = object => \A j \in 0 .. K - 1 : Terms[j] = 0
    BY <1>0, SumFacts
<1>3. score = SumOfFirst[e] /\ Total = SumOfFirst[K]
    BY DEF MetricInv, Total
<1>4. score >= threshold \/ e = K
    <2>1. GivenUp(score) \/ (y + 1 = m /\ x = m)
        BY DEF MetricInv
    <2>2. (y + 1) * m = y * m + m
        BY <1>0, Position
    <2> QED
        BY <2>1, <2>2 DEF GivenUp
<1> HIDE DEF e, K
<1>5. score \in Nat /\ Total \in Nat /\ score <= Total
    BY <1>1, <1>2, <1>3, SumsGrow
<1>6. patch = object => score = 0
    BY <1>1, <1>2, <1>3, SumsVanish
<1>7. score >= threshold \/ score = Total
    BY <1>3, <1>4
<1> QED
    BY <1>0, <1>5, <1>6, <1>7

\* msearch_score_at, for every object, picture and threshold: leaving after a
\* row that takes the sum to the threshold changes no comparison with it, and a
\* score below it is exact.
THEOREM EarlyExitDecidesRight == ScoreSpec => []DecisionUnchanged
<1>1. ScoreSpec => []MetricInv
    BY ScoreInitInv, ScoreStepInv, PTL DEF ScoreSpec
<1> QED
    BY <1>1, ImpliesDecision, PTL

=============================================================================
