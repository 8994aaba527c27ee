------------------------------- MODULE Msearch -------------------------------
(***************************************************************************)
(* The process lifetime of msearch (cli/main.c) on every rank of an MPI    *)
(* world, with the broadcast of the problem (runtime/runner_mpi.c).  The   *)
(* runtime that a repetition calls is SearchJob, the promise that          *)
(* RunnerMpi and RunnerLocal are shown to keep.                            *)
(*                                                                         *)
(* MPI matches collective calls on a communicator by their order alone, so *)
(* "calls" keeps the kinds of the calls each rank has made, and a          *)
(* broadcast delivers whatever the root passed to the call with the same   *)
(* number: that it is the right piece of the problem is for the code to    *)
(* ensure.                                                                 *)
(*                                                                         *)
(* All ranks run with the same command line, but not on the same node: a   *)
(* node has CUDA devices of its own, or none.                              *)
(***************************************************************************)
EXTENDS Options

CONSTANTS
    R,          \* topo.world_size
    P,          \* pictures in the input
    K,          \* objects in the input
    NodeOf,     \* the node each rank runs on
    ArgLists,   \* the command lines to try
    Canonical,  \* the canonical match of each picture
    NoMatch,    \* msearch_match_none
    Zeroed      \* an entry of the calloc'ed result array

Root == 0
Ranks == 0 .. R - 1
Pictures == 1 .. P
Results == {Canonical[i] : i \in Pictures} \cup {NoMatch, Zeroed}

ASSUME WorldAssumption == R \in Nat \ {0}
ASSUME SizesAssumption == P \in Nat /\ K \in Nat
ASSUME ArgListsAssumption == ArgLists \subseteq Seq(STRING)
ASSUME CanonicalAssumption == Canonical = [i \in Pictures |-> Canonical[i]]

\* The pieces of the problem, in the order they are broadcast.
Header == 1
Threshold == 2
Shapes == 3
LastPiece == Shapes + P + K
Pieces == Header .. LastPiece
Missing == 0

VARIABLES
    argv,       \* the command line
    parsed,     \* what each rank makes of it: status, early action, configuration
    nodeRanks,  \* config->node_ranks of each rank
    pc,         \* where main is on each rank
    calls,      \* kinds of the collective calls each rank has made
    wire,       \* the pieces the root has passed to its broadcasts
    problem,    \* for each rank, what is stored in the place of each piece
    piece,      \* the piece a rank is to send or receive next
    rep,        \* repetitions a rank has begun
    exitCode,   \* the local "exit_code"
    aborts,     \* codes some rank has passed to MPI_Abort
    output,     \* the lines the root has written
    faulted,    \* SearchJob: has a rank failed in the runtime?
    matches,    \* SearchJob: the root's result array
    verdict     \* SearchJob: what the current repetition returned

hostVars == <<argv, parsed, nodeRanks>>
commVars == <<wire, problem, piece>>
jobVars == <<faulted, matches, verdict>>
vars == <<argv, parsed, nodeRanks, pc, calls, wire, problem, piece, rep, exitCode, aborts,
          output, faulted, matches, verdict>>

Job == INSTANCE SearchJob

config == parsed.config
reps == IF config.bench_reps > 0 THEN config.bench_reps ELSE 1
Searches == parsed.status = "OK" /\ parsed.action = "none" /\ ~config.verify

-----------------------------------------------------------------------------
(* Calls of MPI *)

Goto(r, label) == pc' = [pc EXCEPT ![r] = label] /\ UNCHANGED calls

\* The rank makes a collective call and waits in it.
Enter(r, kind, label) ==
    /\ pc' = [pc EXCEPT ![r] = label]
    /\ calls' = [calls EXCEPT ![r] = Append(@, kind)]

\* All ranks have made the call this rank is in.
AllArrived(r) == \A s \in Ranks : Len(calls[s]) >= Len(calls[r])

BroadcastsMade(r) == Cardinality({n \in DOMAIN calls[r] : calls[r][n] = "Bcast"})

\* Defect: the rank just leaves, as in a build without MPI.
ExitAlone(r, code) ==
    /\ pc' = [pc EXCEPT ![r] = "killed"]
    /\ UNCHANGED <<calls, aborts>>

\* Defect: the rank heads for MPI_Finalize instead.
FinalizeOnError(r, code) == Enter(r, "Finalize", "finalize") /\ UNCHANGED aborts

\* abort_all: the rank is gone, and MPI sets out to kill the others.
abort_all(r, code) ==
    /\ pc' = [pc EXCEPT ![r] = "killed"]
    /\ aborts' = aborts \cup {code}
    /\ UNCHANGED calls

Stopped(r) == pc[r] \in {"exited", "killed"}

Killed(r) ==
    /\ aborts # {} /\ ~Stopped(r)
    /\ Goto(r, "killed")
    /\ UNCHANGED <<hostVars, commVars, rep, exitCode, aborts, output, jobVars>>

-----------------------------------------------------------------------------
Init ==
    /\ argv \in ArgLists
    /\ parsed = msearch_config_parse(argv)
    /\ nodeRanks = [r \in Ranks |-> 1]
    /\ pc = [r \in Ranks |-> "parse"]
    /\ calls = [r \in Ranks |-> <<>>]
    /\ wire = <<>>
    /\ problem = [r \in Ranks |-> [p \in Pieces |-> Missing]]
    /\ piece = [r \in Ranks |-> Header]
    /\ rep = [r \in Ranks |-> 0]
    /\ exitCode = [r \in Ranks |-> 0]
    /\ aborts = {}
    /\ output = <<>>
    /\ faulted = FALSE
    /\ matches = [i \in Pictures |-> Zeroed]
    /\ verdict = [r \in Ranks |-> "none"]

\* The command line is parsed; otherwise compute_node_topology splits the
\* world into nodes.
Parse(r) ==
    /\ pc[r] = "parse"
    /\ IF parsed.status # "OK" \/ parsed.action # "none"
         THEN Enter(r, "Finalize", "finalize")
         ELSE Enter(r, "Split", "split")
    /\ exitCode' = [exitCode EXCEPT ![r] = IF parsed.status # "OK" THEN 2 ELSE 0]
    /\ UNCHANGED <<hostVars, commVars, rep, aborts, output, jobVars>>

NodeMates(r) == {s \in Ranks : NodeOf[s] = NodeOf[r]}

TopologyKnown(r) ==
    /\ pc[r] = "split" /\ AllArrived(r)
    /\ nodeRanks' = [nodeRanks EXCEPT ![r] = Cardinality(NodeMates(r))]
    /\ Goto(r, IF r = Root THEN "read" ELSE "prepare")
    /\ UNCHANGED <<argv, parsed, commVars, rep, exitCode, aborts, output, jobVars>>

\* msearch_read_problem, on the root only.
ReadProblem(r) ==
    /\ pc[r] = "read"
    /\ problem' = [problem EXCEPT ![r] = [p \in Pieces |-> p]]
    /\ Goto(r, "prepare")
    /\ UNCHANGED <<hostVars, wire, piece, rep, exitCode, aborts, output, jobVars>>

ReadFails(r) ==
    /\ pc[r] = "read"
    /\ abort_all(r, 2)
    /\ UNCHANGED <<hostVars, commVars, rep, exitCode, output, jobVars>>

-----------------------------------------------------------------------------
(* msearch_broadcast_problem *)

\* Defect: the root leaves out the header.
RootSkipsHeader(r) == IF r = Root THEN Threshold ELSE Header
FirstPiece(r) == Header

\* The buffer that takes a piece is allocated just before its broadcast: the
\* packed shapes on every rank, a matrix on the ranks that receive it.  (The
\* arrays that problem_alloc sizes are allocated before the packed shapes.)
Allocates(r) == (piece[r] = Shapes /\ P + K > 0) \/ (piece[r] > Shapes /\ r # Root)

\* The rank passes its own copy of the piece; only the root's travels.
Broadcast(r) ==
    /\ pc[r] = "prepare"
    /\ Enter(r, "Bcast", "bcast")
    /\ piece' = [piece EXCEPT ![r] = IF @ = Header THEN FirstPiece(r) ELSE @]
    /\ wire' = IF r = Root THEN Append(wire, problem[Root][piece'[Root]]) ELSE wire
    /\ UNCHANGED <<hostVars, problem, rep, exitCode, aborts, output, jobVars>>

AllocationFails(r) ==
    /\ pc[r] = "prepare" /\ Allocates(r)
    /\ abort_all(r, 3)
    /\ UNCHANGED <<hostVars, commVars, rep, exitCode, output, jobVars>>

\* After the last piece the receivers validate the problem, which the root has
\* done when it read it.
TakePiece(r) ==
    /\ problem' = IF r = Root THEN problem
                  ELSE [problem EXCEPT ![r][piece[r]] = wire[BroadcastsMade(r)]]
    /\ piece' = [piece EXCEPT ![r] = @ + 1]
    /\ Goto(r, IF piece[r] = LastPiece THEN "mode" ELSE "prepare")
    /\ UNCHANGED <<hostVars, wire, rep, exitCode, aborts, output, jobVars>>

\* A receiver needs the root's data; the root can count on being let go only
\* when all ranks are there, but MPI may let it go before.
Received(r) ==
    /\ pc[r] = "bcast"
    /\ IF r = Root THEN AllArrived(r) ELSE Len(wire) >= BroadcastsMade(r)
    /\ TakePiece(r)

RootLeavesEarly(r) ==
    /\ pc[r] = "bcast" /\ r = Root /\ ~AllArrived(r)
    /\ TakePiece(r)

-----------------------------------------------------------------------------
(* The rest of main *)

\* --verify compares backends in one process, or is refused.
Verify(r) ==
    /\ pc[r] = "mode" /\ config.verify
    /\ \E code \in IF R > 1 THEN {2} ELSE {0, 1} :
           exitCode' = [exitCode EXCEPT ![r] = code]
    /\ Enter(r, "Finalize", "finalize")
    /\ UNCHANGED <<hostVars, commVars, rep, aborts, output, jobVars>>

\* The backend a rank settles on when its node has so many devices: by the name
\* it was given, or the best there is, which may differ from rank to rank.
Backend(devices) ==
    IF config.backend_name = "auto" THEN msearch_backend_auto(Compiled, devices)
    ELSE msearch_backend_find(Compiled, config.backend_name)

\* Defect: every rank takes the cores of the node for itself.
WholeNode(r, cores) == cores
Share(r, cores) == cores \div nodeRanks[r]

\* The threads a rank's OpenMP backend takes on a node with so many cores, when
\* the environment leaves the choice to it.
resolve_thread_count(r, cores) ==
    IF config.threads > 0 THEN config.threads
    ELSE IF Share(r, cores) > 0 THEN Share(r, cores) ELSE 1

ChooseBackend(r) ==
    /\ pc[r] = "mode" /\ ~config.verify
    /\ \E devices \in {0, 1} : Available(Backend(devices), devices)
    /\ Goto(r, "buffers")
    /\ UNCHANGED <<hostVars, commVars, rep, exitCode, aborts, output, jobVars>>

BackendUnusable(r) ==
    /\ pc[r] = "mode" /\ ~config.verify
    /\ \E devices \in {0, 1} : ~Available(Backend(devices), devices)
    /\ abort_all(r, 4)
    /\ UNCHANGED <<hostVars, commVars, rep, exitCode, output, jobVars>>

BuffersFail(r) ==
    /\ pc[r] = "buffers"
    /\ abort_all(r, 5)
    /\ UNCHANGED <<hostVars, commVars, rep, exitCode, output, jobVars>>

\* Defect: the verdict of the repetition is not looked at.
NeverFailed(r) == FALSE
SearchFailed(r) == verdict[r] = "failed"

\* A repetition begins: run_search, from its first barrier.
BeginRep(r) ==
    /\ \/ pc[r] = "buffers"
       \/ pc[r] = "after" /\ AllArrived(r) /\ ~SearchFailed(r) /\ rep[r] < reps
    /\ rep' = [rep EXCEPT ![r] = @ + 1]
    /\ verdict' = [verdict EXCEPT ![r] = "none"]
    /\ Enter(r, "Barrier", "before")
    /\ UNCHANGED <<hostVars, commVars, exitCode, aborts, output, faulted, matches>>

\* The distributed runtime clears the root's array, the local one does not.
CallRuntime(r) ==
    /\ pc[r] = "before" /\ AllArrived(r)
    /\ matches' \in IF r = Root THEN {matches, [i \in Pictures |-> NoMatch]}
                    ELSE {matches}
    /\ Enter(r, "Runtime", "runtime")
    /\ UNCHANGED <<hostVars, commVars, rep, exitCode, aborts, output, faulted,
                   verdict>>

\* Inside the runtime: a picture is done, or a rank meets a fault.
StoreResult(r) ==
    /\ pc[r] = "runtime"
    /\ Job!Store
    /\ \E i \in Pictures :
           /\ matches[i] # Canonical[i]
           /\ matches' = [matches EXCEPT ![i] = Canonical[i]]
    /\ UNCHANGED <<hostVars, commVars, pc, calls, rep, exitCode, aborts, output>>

\* The local runtime lets a search that fails write "none" into its entry.
MeetFault(r) ==
    /\ pc[r] = "runtime" /\ ~faulted
    /\ Job!Fault
    /\ matches' \in {matches} \cup {[matches EXCEPT ![i] = NoMatch] : i \in Pictures}
    /\ UNCHANGED <<hostVars, commVars, pc, calls, rep, exitCode, aborts, output>>

\* A verdict rests on all ranks, so every rank has called the runtime; the
\* second barrier of run_search follows.
RuntimeReturns(r) ==
    /\ pc[r] = "runtime" /\ AllArrived(r)
    /\ Job!ReturnOk(r) \/ Job!ReturnFailure(r)
    /\ Enter(r, "Barrier", "after")
    /\ UNCHANGED <<hostVars, commVars, rep, exitCode, aborts, output>>

GiveUp(r) ==
    /\ pc[r] = "after" /\ AllArrived(r) /\ SearchFailed(r)
    /\ abort_all(r, 6)
    /\ UNCHANGED <<hostVars, commVars, rep, exitCode, output, jobVars>>

EndReps(r) ==
    /\ pc[r] = "after" /\ AllArrived(r) /\ ~SearchFailed(r) /\ rep[r] = reps
    /\ IF r = Root THEN Goto(r, "write") ELSE Enter(r, "Finalize", "finalize")
    /\ UNCHANGED <<hostVars, commVars, rep, exitCode, aborts, output, jobVars>>

\* Defect: a failed write is logged and forgotten.
WriteErrorLost == 0
WriteError == 1

\* msearch_write_results, one line per picture in input order: it may fail when
\* it opens the file, at any line, or when it closes the file.  Standard output
\* is not closed, and what its buffer loses when the process exits goes unseen.
Lines(n) == [i \in 1 .. n |-> matches[i]]
ToStdout == config.output_path = "-"

WriteResults(r) ==
    /\ pc[r] = "write"
    /\ \/ /\ \E n \in IF ToStdout THEN 0 .. P ELSE {P} : output' = Lines(n)
          /\ UNCHANGED exitCode
       \/ /\ \E n \in 0 .. P : output' = Lines(n)
          /\ exitCode' = [exitCode EXCEPT ![r] = WriteError]
    /\ Enter(r, "Finalize", "finalize")
    /\ UNCHANGED <<hostVars, commVars, rep, aborts, jobVars>>

Finalized(r) ==
    /\ pc[r] = "finalize" /\ AllArrived(r)
    /\ Goto(r, "exited")
    /\ UNCHANGED <<hostVars, commVars, rep, exitCode, aborts, output, jobVars>>

\* What a rank does unless it is hindered, and what may go wrong on it.
Proceed(r) ==
    \/ Parse(r) \/ TopologyKnown(r) \/ ReadProblem(r)
    \/ Broadcast(r) \/ Received(r)
    \/ Verify(r) \/ ChooseBackend(r)
    \/ BeginRep(r) \/ CallRuntime(r) \/ StoreResult(r) \/ RuntimeReturns(r)
    \/ GiveUp(r) \/ EndReps(r) \/ WriteResults(r) \/ Finalized(r)

Fails(r) ==
    \/ ReadFails(r) \/ AllocationFails(r) \/ BackendUnusable(r) \/ BuffersFail(r)
    \/ MeetFault(r)

Next ==
    \E r \in Ranks : Proceed(r) \/ RootLeavesEarly(r) \/ Fails(r) \/ Killed(r)

Spec == Init /\ [][Next]_vars

\* Every rank is a process that keeps running, MPI completes a collective that
\* all have called, a runtime comes to its verdict (Termination of RunnerMpi),
\* and an abort reaches every rank.  Nothing obliges a call to fail, or MPI to
\* let the root leave a broadcast early.
Fairness == \A r \in Ranks : WF_vars(Proceed(r)) /\ WF_vars(Killed(r))

FairSpec == Spec /\ Fairness

-----------------------------------------------------------------------------
(* Correctness *)

\* The command line means what it says, read as a whole: which of its words are
\* values of options, the last setting of each field, the loudness counted from
\* the last "-q", and the first argument that asks for help or cannot be used,
\* which hides all that follow.  A world that exits has done what it says.
CommandLineMeant ==
    /\ \A r \in Ranks : pc[r] = "parse" => SaysOf(argv, parsed)
    /\ \A r \in Ranks : pc[r] = "exited" =>
           /\ exitCode[r] = 2 <=>
                  parsed.status # "OK" \/ (parsed.action = "none" /\ config.verify /\ R > 1)
           /\ rep[r] = IF Searches THEN reps ELSE 0

\* "Dividing the node's cores by the number of ranks sharing it makes the default
\* safe": the ranks that search on a node have a thread each and, together, no
\* more threads than cores, unless they outnumber the cores or the user asks for
\* more.
SearchingMates(r) == {s \in NodeMates(r) : pc[s] = "runtime"}

\* The threads of the ranks that search on the node of rank r, if it has so
\* many cores.
NodeThreads(r, cores) ==
    UNION {{s} \X (1 .. resolve_thread_count(s, cores)) : s \in SearchingMates(r)}

NodeHolds(r, cores) ==
    /\ \A s \in SearchingMates(r) : <<s, 1>> \in NodeThreads(r, cores)
    /\ Cardinality(NodeThreads(r, cores)) <= Max({cores, Cardinality(NodeMates(r))})

NodeNotOversubscribed ==
    \A r \in Ranks : pc[r] = "runtime" /\ config.threads = 0 =>
        \A cores \in 1 .. 2 * R : NodeHolds(r, cores)

\* The ranks make the same collective calls in the same order, whatever goes
\* wrong and however their error paths differ: the n-th calls of any two ranks
\* are of one kind, so none ever meets a call of another kind in MPI.
CollectivesMatch ==
    \A r, s \in Ranks : \A n \in DOMAIN calls[r] \cap DOMAIN calls[s] :
        calls[r][n] = calls[s][n]

\* Each broadcast delivers the piece its receiver has made room for: what a
\* rank has received is what the root read, piece by piece, and nobody searches
\* with less than the whole problem.
SameProblem ==
    \A r \in Ranks :
        /\ r # Root => \A p \in Header .. piece[r] - 1 : problem[r][p] = problem[Root][p]
        /\ pc[r] \in {"before", "runtime", "after"} =>
               \A p \in Pieces : problem[r][p] = p

\* Results are written only when every rank has been through every repetition
\* with success and the world is not being aborted; what is written is a
\* beginning of the canonical results, though the result array is reused from
\* one repetition to the next.
OutputOnlyAfterSuccess ==
    (output # <<>> \/ pc[Root] = "write") =>
        /\ aborts = {}
        /\ \A r \in Ranks : rep[r] = reps /\ verdict[r] = "ok"
        /\ \A i \in DOMAIN output : output[i] = Canonical[i]

\* What the launcher is told: ranks that exit agree on their exit code, but for
\* the root after a failed write or verification; and when all exit with 0
\* after a search, all results have been written, if to a file.  (Of results on
\* standard output exit code 0 says nothing.)
ExitCodesTell ==
    (\A r \in Ranks : pc[r] = "exited") =>
        /\ \A r \in Ranks : r = Root \/ exitCode[r] \in {0, exitCode[Root]}
        /\ \A r \in Ranks : exitCode[r] = 2 <=> exitCode[Root] = 2
        /\ Searches /\ ~ToStdout /\ exitCode[Root] = 0 =>
               output = [i \in Pictures |-> Canonical[i]]

\* No rank is left waiting: the world exits or is aborted as a whole.
Termination ==
    <>(\/ \A r \in Ranks : pc[r] = "exited"
       \/ \A r \in Ranks : pc[r] = "killed")

=============================================================================
