------------------------------- MODULE Verify -------------------------------
(***************************************************************************)
(* msearch --verify (run_verify in cli/main.c): the serial backend fills   *)
(* the reference, then every other backend of the build that can be used   *)
(* searches the same pictures and is compared with it.  All candidates     *)
(* share one array.                                                        *)
(*                                                                         *)
(* Each search is a call of the local runtime (RunnerLocal), step by step, *)
(* and the CUDA backend is created and destroyed as in CudaContext.  The   *)
(* serial backend is trusted; any other may answer anything, for that is   *)
(* what the comparison is there to find out.                               *)
(***************************************************************************)
EXTENDS RunnerLocal, Registry

CONSTANTS MaxDevices, MaxObjects, Sides     \* bounds of CudaContext

ASSUME DevicesAssumption == MaxDevices \in Nat
ASSUME ObjectsAssumption == MaxObjects \in Nat /\ Sides \subseteq Nat

VARIABLES
    compiled,   \* the optional backends of the build
    phase,      \* "allocate", "reference", "loop", "run" or "done"
    b,          \* index of the backend the loop is at
    reference,  \* what the serial backend found
    failures,   \* backends that failed or disagreed
    report,     \* what is printed of each backend
    exitCode,   \* main's exit code
    outcome,    \* what each backend really did ("" before it is called)
    deviceCount, requested, sides,                              \* CudaContext
    step, device, held, objOffset, offset, cudaCtx, cudaPc      \* CudaContext

cudaVars == <<deviceCount, requested, sides, step, device, held, objOffset, offset,
              cudaCtx, cudaPc>>
loopVars == <<compiled, phase, b, reference, failures, report, exitCode>>
verifyVars == <<vars, loopVars, outcome, cudaVars>>

\* --verify runs in a world of one rank.
Cuda == INSTANCE CudaContext WITH
    MaxRanks <- 1, nodeRank <- 0, pictures <- P > 0, pc <- cudaPc, ctx <- cudaCtx

Backends == Optional \cup {"serial"}
Cleared == [j \in Pictures |-> Zeroed]

\* The backend that is searching, or that the loop is at.
Current == IF phase = "reference" THEN "serial" ELSE kBackends(compiled)[b]

VerifyInit ==
    /\ Init /\ matches = Cleared
    /\ compiled \in SUBSET Optional
    /\ phase = "allocate"
    /\ b = 1
    /\ reference = Cleared
    /\ failures = 0
    /\ report = [be \in Backends |-> ""]
    /\ exitCode = 0
    /\ outcome = [be \in Backends |-> ""]
    /\ Cuda!Init

\* The backend is called; "right" is what it is until it does something else.
Call(backend) ==
    /\ pc' = "create" /\ i' = 1 /\ ctx' = "null" /\ status' = "OK"
    /\ before' = matches'
    /\ outcome' = [outcome EXCEPT ![backend] = "right"]

AllocateBuffers ==
    /\ phase = "allocate"
    /\ phase' = "reference"
    /\ UNCHANGED matches /\ Call("serial")
    /\ UNCHANGED <<compiled, b, reference, failures, report, exitCode, cudaVars>>

\* main turns every failure of run_verify into exit code 1.
BuffersFail ==
    /\ phase = "allocate"
    /\ phase' = "done" /\ exitCode' = 1
    /\ UNCHANGED <<vars, compiled, b, reference, failures, report, outcome, cudaVars>>

-----------------------------------------------------------------------------
(* msearch_run_local with the current backend *)

InCall == phase \in {"reference", "run"}

Did(what) == outcome' = [outcome EXCEPT ![Current] = what]

\* cuda_create at work.
CudaStep ==
    /\ InCall /\ Current = "cuda" /\ pc = "create"
    /\ \/ Cuda!Acquire \/ Cuda!ChooseDevice \/ Cuda!Upload \/ Cuda!StepFails
       \/ Cuda!Publish \/ Cuda!CleanUp
    /\ UNCHANGED <<vars, loopVars, outcome>>

CallSucceeds ==
    /\ InCall
    /\ \/ CreateSucceeds /\ (Current = "cuda" => cudaCtx = "open")
       \/ LoopEnds
       \/ Return
    /\ UNCHANGED <<loopVars, outcome, cudaVars>>

\* The other backends allocate their context in one piece.
CreateReturnsError ==
    /\ InCall /\ CreateFails
    /\ Current = "cuda" => cudaPc = "returned" /\ cudaCtx = "null"
    /\ Did("failed")
    /\ UNCHANGED <<loopVars, cudaVars>>

SearchReturnsMatch ==
    /\ InCall
    /\ \E match \in Results :
           /\ SearchReturns(match)
           /\ Current = "serial" => match = Canonical[i]
           /\ IF match = Canonical[i] THEN UNCHANGED outcome ELSE Did("wrong")
    /\ UNCHANGED <<loopVars, cudaVars>>

\* Only a search on a device can fail, and only if there is an object to look for.
SearchReturnsError ==
    /\ InCall /\ Current = "cuda" /\ Cuda!K > 0
    /\ SearchFails
    /\ Did("failed")
    /\ UNCHANGED <<loopVars, cudaVars>>

DestroyContext ==
    /\ InCall /\ Destroy
    /\ IF Current = "cuda" THEN Cuda!Destroy ELSE UNCHANGED cudaVars
    /\ UNCHANGED <<loopVars, outcome>>

LocalStep ==
    \/ CallSucceeds \/ CreateReturnsError \/ SearchReturnsMatch
    \/ SearchReturnsError \/ DestroyContext

-----------------------------------------------------------------------------
(* The loop over the backends *)

\* The reference is filled, and the second array becomes the callee's.
ReferenceReturned ==
    /\ phase = "reference" /\ pc = "returned"
    /\ IF status = "OK" THEN phase' = "loop" /\ UNCHANGED exitCode
                        ELSE phase' = "done" /\ exitCode' = 1
    /\ reference' = matches
    /\ matches' = Cleared
    /\ UNCHANGED <<pc, i, ctx, status, before, compiled, b, failures, report, outcome,
                   cudaVars>>

AtBackend == phase = "loop" /\ b <= Len(kBackends(compiled))

SkipSerial ==
    /\ AtBackend /\ Current = "serial"
    /\ b' = b + 1
    /\ UNCHANGED <<vars, compiled, phase, reference, failures, report, exitCode, outcome,
                   cudaVars>>

SkipUnavailable ==
    /\ AtBackend /\ ~Available(Current, deviceCount)
    /\ report' = [report EXCEPT ![Current] = "skipped"]
    /\ b' = b + 1
    /\ UNCHANGED <<vars, compiled, phase, reference, failures, exitCode, outcome, cudaVars>>

TryBackend ==
    /\ AtBackend /\ Current # "serial" /\ Available(Current, deviceCount)
    /\ phase' = "run"
    /\ UNCHANGED matches /\ Call(Current)
    /\ UNCHANGED <<compiled, b, reference, failures, report, exitCode, cudaVars>>

\* Defect: the array is compared whatever the call returned.
NobodyFails == FALSE
RunFailed == status # "OK"

Judge ==
    /\ phase = "run" /\ pc = "returned"
    /\ LET verdict == IF RunFailed THEN "FAILED"
                      ELSE IF matches = reference THEN "OK" ELSE "MISMATCH"
       IN  /\ report' = [report EXCEPT ![Current] = verdict]
           /\ failures' = IF verdict = "OK" THEN failures ELSE failures + 1
    /\ b' = b + 1
    /\ phase' = "loop"
    /\ UNCHANGED <<vars, compiled, reference, exitCode, outcome, cudaVars>>

Finish ==
    /\ phase = "loop" /\ b > Len(kBackends(compiled))
    /\ exitCode' = IF failures > 0 THEN 1 ELSE 0
    /\ phase' = "done"
    /\ UNCHANGED <<vars, compiled, b, reference, failures, report, outcome, cudaVars>>

Done == phase = "done" /\ UNCHANGED verifyVars

VerifyNext ==
    \/ AllocateBuffers \/ BuffersFail \/ CudaStep \/ LocalStep \/ ReferenceReturned
    \/ SkipSerial \/ SkipUnavailable \/ TryBackend \/ Judge \/ Finish \/ Done

VerifySpec == VerifyInit /\ [][VerifyNext]_verifyVars

-----------------------------------------------------------------------------
(* Correctness *)

\* The report tells of each backend what it did in this run, though it was
\* given an array with the answers of the one before: "OK" means that it
\* searched every picture and found what it should.  Exit code 0 means that
\* every backend of the build that can be used on the node did so.
VerdictTells ==
    /\ \A be \in Backends :
           /\ report[be] = "OK" => outcome[be] = "right"
           /\ report[be] = "MISMATCH" => outcome[be] = "wrong"
           /\ report[be] = "FAILED" => outcome[be] = "failed"
    /\ phase = "done" /\ exitCode = 0 =>
           /\ outcome["serial"] = "right"
           /\ \A be \in compiled : Available(be, deviceCount) => outcome[be] = "right"
    /\ phase = "done" /\ exitCode = 1 =>
           \/ outcome["serial"] # "right"
           \/ \E be \in compiled : outcome[be] \in {"wrong", "failed"}

\* Nothing that cuda_create has acquired outlives the call of the local runtime
\* that asked for it, however far it came and whatever failed afterwards.
NothingLeaks ==
    /\ Cuda!NothingLeaks
    /\ phase = "done" \/ pc = "returned" => held = {}

\* A search on the device has a context with all it uses, on a device that
\* exists, with the objects packed into one buffer without overlap.
ReadyToSearch ==
    /\ InCall /\ Current = "cuda" /\ pc = "loop" => cudaCtx = "open"
    /\ Cuda!ReadyWhenHandedOut
    /\ Cuda!ObjectsPacked

=============================================================================
