# A verification project for mpi-local-lab

TLA+ models, model-checking configurations and machine-checked proofs for the
programs of this repository: `msearch`, the hybrid MPI / OpenMP / CUDA object
matcher in `examples/hybrid-object-matching` (HOM below), the small MPI examples,
and the scripts that run them on a container cluster.

## 1. Inventory

### msearch

| Component | State it keeps | Operations | Hard part |
|---|---|---|---|
| **Distributed runtime** `runtime/runner_mpi.c` | per rank: status, backend context, result records, claimed index; shared: a counter in rank 0's RMA window; root: result array | `msearch_run_mpi`: create backend, allocate, claim by fetch-and-add, search, gather, reduce status | concurrent claims, six collectives that every rank must call in order on every error path, one verdict for all |
| **Problem broadcast** `runner_mpi.c` | the problem on every rank | `msearch_broadcast_problem`: header, threshold, shapes, one broadcast per matrix, re-validation | a rank that fails leaves collectives others are in; the caller aborts the world |
| **Local runtime** `runtime/runner_local.c` | context, loop index | search pictures in order, stop at the first failure | partial results on failure |
| **Composition root** `cli/main.c` | configuration, problem, result array, exit code | parse, read on rank 0, broadcast, choose backend, repeat search, report, write, abort | decisions every rank must take alike; who writes; exit codes; aborts |
| **Serial backend** `backends/backend_serial.c` | a context that points at the problem | scan objects by id, placements in row-major order | it *defines* the canonical match |
| **OpenMP backend** `backends/backend_openmp.c` | the shared minimum `best` | parallel loop over placements, dynamic chunks, unlocked read, locked update | a race-free minimum with an unlocked early exit |
| **CUDA backend** `backends/backend_cuda.cu` | device buffers, one result slot per object | one kernel per object on one stream, grid-stride threads, `atomicMin` | early exit across kernels and inside a kernel; clean-up of a half-built context |
| **Metric** `include/msearch/metric.h` | none | score with a per-row early exit | exit must not change the comparison with the threshold |
| **Problem model** `core/problem.c` | pictures, objects sorted by id | allocate, validate, sort, free | stable sort, size bounds, ownership after a failed allocation |
| **Parser** `core/parser.c` | lexer position and line, the problem being built | tokens, matrices, counts, error clean-up | line numbers in diagnostics, limits, freeing a partial problem |
| **Writer** `core/writer.c`, **log** `core/log.c` | output stream; log level and rank | one line per picture in input order | what counts as "found" |
| **Options** `cli/options.c`, **registry** `backends/registry.c` | configuration | parse arguments, find and choose a backend | verbosity, early actions |

How they interact: `main` hands rank 0's problem to the broadcast, chooses a
backend from the registry and calls a runtime `reps` times between two barriers.
A runtime calls `create`, `search` per picture and `destroy` of the backend
through a table of function pointers. All backends call the one metric. Only
rank 0 reads input and writes results.

### The other examples and the cluster

* `distributed-sum`, `matrix-multiply`: block decomposition of `n` items over the
  ranks (`base`, `remainder`, `share`, `offset`), scatter, local work, reduce or
  gather.
* `ping-pong`: two ranks bounce one buffer between two barriers and check it at the end.
* `hello-mpi`: prints a line per rank.
* `scripts/`, `docker/`: start the nodes, wait until they are healthy, build on
  node 1, regenerate a host file by DNS, `mpirun`.

### What makes each component correct

* Runtime: each picture is searched exactly once while some rank is well; all
  ranks return the same verdict; "ok" means that the root holds the canonical
  match of every picture; the call returns; buffers suffice.
* Backends: each returns the canonical match, whatever the thread schedule.
* Composition root: every rank takes the same branch; results are written by the
  root only, and only after a run that succeeded everywhere; the report of
  `--verify` tells what each backend did.
* Options: the command line means what it says when read as a whole. Registry: the
  best backend the node can use.
* Problem model, parser: what is accepted satisfies the bounds the backends rely
  on; the error path frees what was built. With the writer: the output names the
  lowest id that occurs.
* Examples: the blocks tile the items, answers do not depend on the rank count, exit
  code 0 means a right answer, no rank is left waiting.
* Scripts: a cluster called ready takes a launch; a launch reads the host file of
  its own run; the scripts end whatever becomes of the nodes.

## 2. Plan

Modules in the order they are written, the most important behaviour first:

1. `SearchJob` (what a runtime promises) and `RunnerMpi` (the distributed runtime),
   its instances, and `RunnerMpiProofs`. *Done.*
2. `CanonicalSearch` (the contract of `search`), and the three backends that
   implement it: `SerialSearch`, `OpenMPSearch`, `CudaSearch`; `CudaContext` for
   `cuda_create` and `cuda_destroy`; the `Metric`; `SearchProblemProofs`,
   `OpenMPSearchProofs`, `CudaSearchProofs`. *Done.*
3. `Msearch`: the composition root over many ranks, with the broadcast, on top of
   `SearchJob`, and `MsearchProofs`; `RunnerLocal`. *Done.*
4. The input: `InputLimits`, `Lexer`, `Parser`, `ObjectSort`; the command line:
   `Options` and `Registry`. *Done*; the proofs are in `LoadAndSearchProofs` and
   `MsearchProofs`.
5. Compositions: `Verify` (`--verify` over `RunnerLocal`, `CudaContext` and
   `Registry`) with `VerifyProofs`, and `LoadAndSearch` (from the sort over the search
   to the line of output) with `LoadAndSearchProofs`. *Done.*
6. The examples: `MpiWorld`, `Decomposition`, `BlockPrograms`, `PingPong`, put
   together by `Examples`, with `ExamplesProofs`. *Done.*
7. `Cluster`: the scripts; the proofs are in `ExamplesProofs`. *Done.*

Every invariant that a passing run checks is proved for every value of the constants,
and so are the refinements. Four properties that the repository's documents promise are
false of the code (`CollectivesInStep`, `LowestIdWins`, `MessageNamesLine` and
`CleanupIsSafe`); a run of its own refutes each, and a theorem says that nothing else
can break it: `OnlyTheRootSkips`, `LineNamesLowestId`, `NamesLineUntilBreak` and `ReaderCleansUp`.
What is left to the runs is what TLAPS cannot express or its provers cannot do: liveness under fairness
and `ENABLED`. Induction over data (a sum, a pass over arguments, an ascending list) is done by
least counterexamples throughout: the least number for which a statement fails exists
(`LeastNatural`), and is refuted by what holds below it.

Which module stands on which: `Msearch` calls a runtime as `SearchJob` promises
it; `RunnerMpi` and `RunnerLocal` implement `SearchJob` and use a canonical result
per picture; `SerialSearch`, `OpenMPSearch` and `CudaSearch` implement
`CanonicalSearch`, which says what that result is; they rely on the order that
`ObjectSort` makes, and on the bounds that `Parser` enforces. `Options` stands on
`Registry`, and `Msearch` on both; `Verify` runs `RunnerLocal` and `CudaContext`,
`LoadAndSearch` runs `ObjectSort` and `SerialSearch`.

Abstract specifications: `SearchJob` for the runtimes, `CanonicalSearch` for the
backends. Theorems: type correctness and safety of each concurrent component,
refinement of the abstract specification, and the bounds that keep the packed
placement key and the block offsets inside their integer types.

## 3. The distributed runtime

### Model

`RunnerMpi` models `msearch_run_mpi` as called by every rank of a world of two or
more. A rank is a process whose `pc` names the call it is in; a rank whose `pc` is
the name of a collective has entered it. The correspondence with the code:

| Action | Code in `runner_mpi.c` |
|---|---|
| `CreateSucceeds`, `CreateFails`, `AllocRecords` | `backend->create`, the `malloc` of `records` |
| `WinAllocated`, `InitCounter`, `PassBarrier` | `MPI_Win_allocate`, `*counter = 0`, `MPI_Barrier`, `MPI_Win_lock_all` |
| `FetchAndOp`, `ApplyFetch`, `FlushDone` | the claim: issued, applied by the target, flushed |
| `SearchSucceeds`, `SearchFails` | `backend->search` and the record, or the `break` |
| `WinFreed`, `BeginGather`, `GatherBuffersFail`, `GatherCounts`, `GatherRecords` | `MPI_Win_free`, `gather_records` |
| `AgreeOnStatus`, `Cleanup` | `MPI_Allreduce`, `free`, `destroy`, `return` |

The operations of MPI are modelled by what the standard lets a program rely on.
A fetch-and-add takes effect atomically at some moment between its issue and the
end of the flush; MPI *has* to serve it only while rank 0 is inside an MPI call
(`TargetProgress`). Barrier, reduction and window creation and destruction let a
rank go when all have arrived. In a gather the root waits for everybody; another
rank may be let go at once, but can count on it only when the root is there
(`HeldByRoot`). What MPI may do and what it must do differ in the fairness, not in
the steps. The window memory holds any value before rank 0 zeroes it.

A record is the pair of a picture index and its match. The root's gather buffer is
the set of the records of all ranks; that the set has no two records for one
picture is an invariant, not an assumption.

### Properties

* `ClaimsExclusive`: no picture is claimed twice. `NothingLost`: until the verdict
  is out every index the counter has passed is recorded, being searched, or lost
  to a rank that failed; a healthy rank stops only when all were claimed.
* `GatherBufferFits`: the buffers that nothing checks.
* The refinement `JobSpec` of `SearchJob`: one verdict for all ranks, "ok" only with
  the canonical matches.
* `Termination` under fairness.
* `CollectivesInStep`, which the design document promises: the ranks are in the same
  collective. It fails; see the finding.

Four more are proved, and checked by no run: `CounterBounded`; `ContextDiscipline`
(only a rank that is well searches, and no context leaks); `VerdictAgreement`; and
`OnlyRootSkips`: whatever fails, the only rank that ever leaves a collective out is
the root, and it leaves out both gathers and nothing else.

### Runs

| Run | Instance | Shows |
|---|---|---|
| `runner_mpi` | 3 ranks, 3 pictures, every fault | all of the above but `CollectivesInStep` |
| `runner_mpi_gather_nomem` | 2 ranks, 1 picture, fault in the root's gather buffers | finding: `CollectivesInStep` fails |

Three ranks are enough for the root, a rank that fails and one that does not;
three pictures for a rank to hold several records, for one to be claimed while
another is searched and for claims past the end. Model values stand for results.
The odd pictures match nothing, so a "none" record is told from a missing one.

### Fairness

Every rank is a process that keeps running, its search is a finite loop, MPI
completes a collective that all ranks have entered and applies an operation whose
target stays inside the library: weak fairness of each rank's step, unless a gather
holds it, and of each `ApplyFetch` while the target makes progress. No strong
fairness is needed: a rank 0 that keeps computing may delay the others' claims, but
it ends in `MPI_Win_free`, where it serves them.

`Termination` excepts the run in which the root has left the gathers out: then the
others may wait for it for good.

### Finding

`gather_records` on rank 0 jumps past `MPI_Gather` and `MPI_Gatherv` when it cannot
allocate its buffers (`runner_mpi.c:182`), while all other ranks enter them. The
design document says that a failing rank "still reaches the collectives". If the
gathers wait for the root the ranks block for good; if they do not, all ranks
still agree on failure. `OnlyTheRootSkips` proves that nothing else can take the
ranks out of step.

### Proofs

`RunnerMpiProofs` proves, for every number of ranks (two or more) and pictures,
every canonical result and every choice of faults: type correctness,
`ClaimsExclusive`, `NothingLost`, `ContextDiscipline`, `CounterBounded`,
`VerdictAgreement`, `OnlyRootSkips`, and the refinement `Spec => JobSpec`.

None of these is inductive by itself. The invariant `IInv` adds: `Phases`, which
collectives a rank has entered as a function of its `pc`, and that a rank past the
barrier or the reduction implies that all have entered it (so nobody claims before
the counter is zeroed, and nobody changes its contribution after the reduction);
`Claiming`, the state of a rank in the loop; `ClaimsBelowCounter`, which makes the
next index fresh; `Verdicts`, what a contribution and a verdict say about the
statuses and the root's array. The counter bound needs one more invariant, that
each claim past the end is charged to a rank that is done claiming; `OnlyRootSkips`
needs `StepsTaken`, which reads the collectives off the `pc`.

`GatherBufferFits` follows from `TypeOK` and `ClaimsExclusive`: every record is of a
picture and no two are of one, so the records map injectively into the pictures and
are no more than those, however they are spread over the ranks.

Liveness is model-checked only.

## 4. The backends

### Models

`SearchProblem` is one picture and its objects in array order. Which placements
match is part of the input (`hits`), so that the backends are checked for every
set of matches; `Metric` is about how a match is decided. An object stands for its
index: objects are sorted by id before any backend sees them. `CanonicalSearch` is
the promise of `backend.h`: one answer, the canonical match, or a failure without
one. All three backends are shown to implement it.

| Module | Code | One step is |
|---|---|---|
| `SerialSearch` | `serial_search` | one placement, or one object exhausted |
| `OpenMPSearch` | `openmp_search`, `lowest_matching_placement` | of the caller: entering or leaving the loop of an object; of a thread: taking a chunk, the unlocked read with its `continue`, scoring, entering the critical section, comparing, storing |
| `CudaSearch` | `cuda_search`, `k_search_thread_per_placement` | of the host: one queued operation; of the stream: one copy, start or end of a kernel; of a thread: the check of earlier objects, the volatile read, scoring, `atomicMin` |
| `Metric` | `msearch_term`, `msearch_score_at` | one term of the sum, or the check at the end of a row |

The unlocked reads (`omp atomic read` beside a plain store in a critical section;
a `volatile` read beside `atomicMin`) return *any* value the minimum has had in
this loop or kernel: `held` collects them. The schedule of chunks and stream order
belong to the OpenMP and CUDA runtimes and are marked external. In `CudaSearch` the
buffers start with what an earlier picture may have left, any call of the host may
fail while the device goes on with what was queued, and a kernel that ran before
its picture arrived would see arbitrary matches. A picture without objects, where
`cuda_search` returns at once, is left out (`SomeObject`). `Metric` computes
exactly, in units of `1 / Scale`: it shows the algorithm, not the rounding of
doubles, which is monotone and the same in every backend.

### Properties

* `ContractSpec`: the refinement of `CanonicalSearch`.
* `NoHitDropped`: while a loop runs every matching key is still to be handed out,
  in a thread's hands, or no better than the minimum. Proved beside it, and checked
  by no run: `HeldValuesAreHits` (what a stale read returns is a match, never below
  the present minimum) and `BestOnlyFalls` (no update is lost).
* `KernelsInOrder`: when a kernel runs, the picture is there, earlier results are
  final, later ones hold the sentinel, and its threads stay within its placements.
* `DecisionUnchanged`: the early exit keeps the decision, and zeros do not lose a
  match of equal cells.
* `Termination` of the two concurrent backends.

### Runs

| Run | Instance | Shows |
|---|---|---|
| `openmp` | 3 threads, chunks of 3, 2 objects of sides 1 to 3 in 2 x 2 | contract, the loop invariants, termination; a short last chunk |
| `cuda` | 2 threads, 2 objects of sides 1 to 3 in 2 x 2, any call failing | contract, stream order, strides, termination |
| `verify`, its second part | metric: sides 1 and 2, elements -1, 0, 2, four thresholds | decisions |

The serial backend is checked in `input` (section 6). Every run ranges over
every set of matching placements. Sides go from one cell to more than the picture's;
two objects are the least for one to shadow another; two rows of two tell row-major
from column-major; four placements make a thread stride and leave a chunk of three
with a rest. The proofs hold for every size. The numeric edge, a side for which the packed
key would reach the sentinel, is out of reach of any run; `PlacementsBelowSentinel` below
covers it.

### Fairness

Each OpenMP thread and each CUDA thread is scheduled (weak fairness of its step),
the device works off its stream, the host runs. Nothing obliges a CUDA call to
fail. The critical section needs no strong fairness: it is entered at most once
per matching placement, so a waiting thread finds it free for good.

### Proofs

`SearchProblemProofs`, for every picture up to the maximal side: a placement count
stays below the sentinel (`PlacementsBelowSentinel`, the reason for
`MSEARCH_MAX_SIDE`), keys number the placements in row-major order, hence
`LeastKeyIsCanonical`; and `CanonicalMatchIsUnique`, so that backends which keep the
contract agree with each other.

`OpenMPSearchProofs`, for every team, chunk size, picture and set of objects: the
safety properties above, type correctness and `Spec => ContractSpec`. The inductive invariant `IInv`
adds to them `Locking` (a thread past scoring has a match, one in the critical
section owns it, and one about to store still improves the minimum: this is why no
update is lost) and `Progress` (a thread is done only when all keys were handed
out; objects already tried do not occur). The refinement follows at the end of a
loop, where `RegionMinimum` makes the minimum exact.

`CudaSearchProofs`, for every picture, set of objects, block and grid, and any
failing call: `KernelsInOrder` and `Spec => ContractSpec`. The operations of a search are
numbered in the order in which the host queues them (`Rank`); `HostRank` is the next
to be queued, `DeviceRank` the first not executed yet. `StreamInOrder` says that the
stream is what lies between the two, but for objects larger than the picture, which
get no kernel. `Buffers` then reads off `DeviceRank` what each buffer holds: the results of kernels before it are `Settled` (the least
matching key, or none because an earlier object occurs), those after it hold the
sentinel, and the host's copy is good only behind the last operation. Within a kernel,
`NoHitDropped` says that a match that could still improve the result lies on the way
of a thread: it is the thread's key plus a multiple of the stride (`WillTry`). The
refinement follows where the host reads its copy: the first settled result that is
not the sentinel is the canonical match.

That the serial scan keeps the contract is proved in `LoadAndSearchProofs` (section 6),
on the array that the sort hands over.

That the early exit of the metric changes no decision is proved in `VerifyProofs`
(section 6). Termination is model-checked only.

## 5. The program around the runtime

### Models

`Msearch` is `main` on every rank. A rank is a process with a `pc`; the command
line, the same on all ranks, is chosen at the start and parsed by `Options`. The
ranks run on nodes (`NodeOf`); what a rank knows of its node is the number of ranks
it shares it with, and its devices come up when it chooses a backend: `auto` may
settle on different backends on different nodes, which the contract of the backends
makes harmless.

| Action | Code in `main.c` and `runner_mpi.c` |
|---|---|
| `Parse`, `TopologyKnown` | `msearch_config_parse`, the early exits, `compute_node_topology` |
| `ReadProblem`, `ReadFails` | `msearch_read_problem` on rank 0, else code 2 |
| `Broadcast`, `Received`, `AllocationFails` | `msearch_broadcast_problem`, one `MPI_Bcast` at a time, else code 3 |
| `Verify` | `--verify`: refused with several ranks, else 0 or 1 |
| `ChooseBackend`, `BackendUnusable`, `BuffersFail` | the registry (code 4), the result arrays (code 5) |
| `resolve_thread_count` | the threads of a rank's OpenMP backend (`backend_openmp.c`) |
| `BeginRep`, `CallRuntime`, `RuntimeReturns`, `GiveUp`, `EndReps` | the loop over `reps`: barrier, runtime, barrier, code 6 |
| `StoreResult`, `MeetFault` | a step inside the runtime, as `SearchJob` allows it |
| `WriteResults`, `Finalized` | `msearch_write_results` on rank 0, `MPI_Finalize` |
| `abort_all`, `Killed` | `MPI_Abort`: the caller stops, the others are killed some time later |

MPI pairs collective calls by their order, so each rank keeps the kinds of the
calls it has made, and a broadcast hands over whatever the root passed to the call
with the same number. That the pieces fall into place is a property, not built in.
The root may leave a broadcast early (`RootLeavesEarly`), and can count on leaving
it only when all ranks are there. A rank's share of its node is computed for every
number of cores up to twice the ranks. `Missing`, `Zeroed` and `NoMatch` are what buffers hold before real data.

`Options` is `msearch_config_parse`: one pass over the arguments with the state the
code keeps, the option that waits for its value, the verbosity and the settings so
far (`Pass`, a function of the number of arguments taken). Arguments are whole texts;
which of them are numbers is given (`NumberOf`, `PositiveTexts`). Beside it stands a
definition of what a command line says *without* a pass (`SaysOf`): which positions hold
values, the last setter of each field, the first argument that ends the parsing. `CommandLineMeant` compares the two.
`Registry` is the table of backends of a build.

`RunnerLocal` is `msearch_run_local`, one step per call of the backend, from every
content the caller's array may have: `--bench` and `--verify` reuse it. A search that
fails has written "no match" into the entry it was handed: `cuda_search`, the only one
that can fail, does so before anything else (`backend_cuda.cu:252`). `SearchJob` leaves
open what the result array holds after a failure.

`Lexer` reads every file made of four classes of characters: a line break, any
other white space, `#`, anything else. One step is one character. `Parser` takes
any sequence of tokens: a token may be unreadable, a count or a side out of bounds,
the threshold not positive, and an allocation may fail at a site in `FaultSites`. The
`heap` is the set of live blocks. Its last step sorts the objects by what the sort
promises: of all `Arrangements` of what has been read, the one that is `Ascending` by
id and place in the input. `ObjectSort`, the insertion sort of `sort_objects_by_id`, is
proved to make just that (`SortedStably`), one comparison or move per step; its arrays
start at 1 where the code's start at 0. `InputLimits` holds the constants that the
modules of the input share. The lexer counts lines as the code does (`lineNo`); the
line it should name is the number of line breaks before the token.

`CudaContext` is `cuda_create` as a list of steps that each acquire one resource and
may fail, with the choice of the device and the packing of the objects into one
buffer, and `cuda_destroy`, which the error path uses too. It is checked inside
`Verify` (section 6), where the local runtime calls it.

### Properties

* `CommandLineMeant`: see above, and a world that exits has done what the command
  line says. `NodeNotOversubscribed`: the ranks of a node have a thread each and
  together no more threads than the node has cores, or than it has ranks.
* `CollectivesMatch`: however error paths differ, the n-th calls of two ranks are of
  one kind. `SameProblem`: each broadcast delivers the piece its receiver made room
  for, and nobody searches with less than the whole problem.
  `OutputOnlyAfterSuccess`, `ExitCodesTell`: who writes, what, and what the launcher
  learns. `Termination`: no rank is left in a collective; the world exits as a whole
  or is killed as a whole.
* `FindsAllTokens`: the lexer against a definition of the format that does not lex;
  it refuses a file only for a token that is too long. `MessageNamesLine`, which the
  header promises: the message about a token names its line. It fails; see the findings.
* `AcceptedIsSound`: what the parser accepts satisfies the bounds of the backends,
  complete and in order; `NothingLeaks`. `CleanupIsSafe`, which a comment promises: the
  clean-up after a failure never crashes. It fails; see the findings.
* Proved, and checked by no run: `JobSpec` and `ResultsUpToFailure` of `RunnerLocal`.

### Runs

| Run | Instance | Shows |
|---|---|---|
| `msearch` | 3 ranks on 2 nodes, 2 pictures, 1 object, up to 2 repetitions, every failure; all command lines of up to two of eleven arguments, and 16 longer or rarer ones | the first two points above |
| `input`, its first part | every file of up to 6 characters, tokens of up to 2 | tokens |
| `lexer_line` | every file of up to 4 characters | finding: `MessageNamesLine` fails |
| `input`, its second part | up to 2 pictures and 2 objects of sides 1 and 2, every fault | bounds, leaks |
| `parser_cleanup` | 1 picture and 1 object of side 1, every fault | finding: `CleanupIsSafe` fails |

Two runs put together modules that share no state: `MCInput` the lexer, the reader and
`LoadAndSearch` (section 6), `MCVerify` `Verify` and the metric. `part` says at the start
which of them moves; the others rest in an initial state of theirs, where nothing is
claimed of them, so that a run has the behaviours of each and not of their product. The
reader is held to `MaxRead` matrices of a kind.

Three ranks give the root, one that fails and one that knows nothing of it, and two
that share a node; two arguments suffice for an option with a value, an option
without one, and an error hidden by an early action, and the longer command lines
repeat a setting and change the loudness up and down; a second repetition is the first that finds old results; two matrices of each kind are
the least for clean-up to meet one that is complete, one that failed and one that
was never reached. Six characters suffice for a comment between two tokens, and a
buffer of three for a token that fits and one that does not.

### Fairness

Every rank keeps running, MPI completes a collective that all ranks have called, a
runtime comes to its verdict (`Termination` of `RunnerMpi`, unless the root has left the
gathers out), and an abort reaches every rank: weak fairness of `Proceed` and
`Killed` for each. No failing call is ever forced. The sequential components are
bounded loops without waiting; their modules state safety only.

### Findings

* **The clean-up of a problem whose picture array cannot be allocated reads through
  a null pointer.** `msearch_problem_alloc` sets the counts before the arrays
  (`problem.c:50`); when the first `calloc` fails, `msearch_problem_free` loops over
  `num_pictures` entries of an array that is not there (`problem.c:32`). The parser's
  comment on this very call promises that "any failure below is cleaned up by a single
  msearch_problem_free" (`parser.c:185-188`). Run `parser_cleanup` refutes
  `CleanupIsSafe`. `ReaderCleansUp` proves that no other failure leads there: the array
  of objects is counted only after it has been allocated.
* **Diagnostics name the wrong line.** A line break that ends a token is taken back
  from the count and never counted again (`parser.c:80-82`), so each line that ends
  directly after a token is lost. `io.h:27` promises a "path:line: message" diagnostic,
  and the table of tests "the right error *and* location" (HOM `README.md:507`). Run
  `lexer_line` refutes `MessageNamesLine` with two tokens on two lines;
  `NamesLineUntilBreak` proves that a message is right exactly until a line ends with a
  token, and how far it is off after that.

The third finding about the input, `LowestIdWins`, is in section 6, where ids, matches
and output meet.

### What else the models showed

Three observations about what the program says of itself:

* With `-o -`, exit code 0 says nothing about the results: `msearch_write_results`
  neither flushes nor closes standard output, so what is lost when the process exits
  goes unseen (`writer.c:58`). `ExitCodesTell` is limited to files for this reason.
* A single `-v` sets the level that is the default already (`options.c:192`), and
  the messages about single pictures are debug messages (`runner_local.c:19`,
  `runner_mpi.c:164`); the usage text promises "per-picture progress" for `-v`
  (`options.c:54`).
* An early action hides every error after it, and an error every action after it;
  `CommandLineMeant` has it as it is in the code.

One reading of the format is worth knowing, and is in the model as it is in the
code: `#` starts a comment at the start of a token only, so `7#c` is one token.

### Proofs

`MsearchProofs`, for any number of ranks, pictures and objects, any command lines and
any placement of the ranks on nodes: `CollectivesMatch`, `SameProblem`,
`OutputOnlyAfterSuccess`, `ExitCodesTell`, `NodeNotOversubscribed` and
`CommandLineMeant`. For all but the last nothing is assumed of what the parser makes of a
command line; it is enough that it makes the same on every rank. The invariant `IInv` is
built of:

* `CallsOf`: how many calls a rank has made is a function of its `pc`, its piece and its
  repetition, and the kind of the n-th is a function of n and of the command line
  (`KindAt`). `CollectivesMatch` is then immediate, though the ranks may be
  anywhere in `main`, dead or alive.
* `Wire`: the n-th broadcast carries piece n, and a rank that has come to piece n has
  all before it: `SameProblem`.
* `Verdicts` and `Aborted`: a verdict is one for all, and the world is aborted only by a
  rank that gave up before its first repetition or after a failed one. Hence `Done`:
  where the root is past its last repetition nobody has aborted and every rank has the
  verdict "ok" of that same repetition, which gives `OutputOnlyAfterSuccess` and
  `ExitCodesTell`.

`NodeNotOversubscribed` needs a second invariant, that a rank past the split knows how
many ranks share its node, and arithmetic about shares: `n` ranks with
`max(1, cores / n)` threads each have at most `max(cores, n)`.

`CommandLineMeant` (`CommandLineIsMeant`) holds for command lines of any length over any
texts. `Tells` says what the state of the one pass is after the first i arguments, in terms
of the command line read as a whole: which option waits for its value, how loud the
program is, which setter of each field was the last. `GoesOn` and `HasEnded` say whether
the pass still runs. The first number of arguments for which that fails is refuted by one
argument more, one case per kind of argument. `ParseSays` then compares the end of the
pass with `SaysOf`, and the rest follows what the root does with the settings to its exit.

The local runtime and the CUDA context are proved about in `VerifyProofs`; the sort, the
reader and the lexer in `LoadAndSearchProofs` (section 6). Liveness is model-checked only.

## 6. Two compositions of msearch

### Verify

`Verify` is `run_verify`: the serial backend fills the reference, and every other
backend of the build that can be used fills the *one* candidate array in turn. It
extends `RunnerLocal`, whose steps are those of each call, and instantiates
`CudaContext`, whose steps are those of `create` and `destroy` when the backend is
CUDA; the node's devices, the build and the objects are chosen at the start.

| Action | Code |
|---|---|
| `AllocateBuffers`, `BuffersFail`, `ReferenceReturned` | `main.c:88-104` |
| `SkipSerial`, `SkipUnavailable`, `TryBackend`, `Judge`, `Finish` | the loop, `main.c:108-152` |
| `CudaStep`, `CreateReturnsError`, `DestroyContext` | `cuda_create`, `cuda_destroy` |
| `CallSucceeds`, `SearchReturnsMatch`, `SearchReturnsError` | `msearch_run_local` |

The serial backend is trusted; the others may answer anything and CUDA may fail
anywhere, for that is what the comparison is there to find out. `outcome` keeps
what each backend really did. Only a world of one rank gets here, so the node rank
is 0.

* `VerdictTells`: the report and the exit code tell what each backend did in this
  run, though it was handed an array with the answers of the one before.
* `NothingLeaks`: what `cuda_create` acquired is gone when the call of the runtime
  returns, whatever failed on the way. `ReadyToSearch`: a search on the device has all
  it uses, on a device that exists, with the objects packed without overlap.

Run `verify`, its first part: three pictures, up to three devices and three objects of sides 1 and
2, every build. One canonical match equals an entry of a cleared array, so an
untouched array may look right; another is "no match", so the entry that a failed search
leaves may look right too. Three devices and three objects are the least for
a choice of device that is neither first nor last, and for an offset that is the
sum of two sizes.

`VerifyProofs` proves all three, what `RunnerLocal` promises by itself, and that the
backends' early exit is harmless.

* `RunnerLocal`, for every number of pictures, every canonical result and every earlier
  content of the array: `ResultsUpToFailure` (results before the failing picture, "no
  match" for that one, the caller's old entries after it), `ContextDiscipline` and
  `Spec => JobSpec`. The invariant ties the status to the place in the code: it is "OK" as
  long as the loop runs, and a loop left with "OK" has gone past the last picture.
* `NothingLeaks` and `ReadyToSearch`, for any number of devices, objects and sides.
  `ContextInv` says that `cuda_create` holds everything that the steps behind it acquire
  and has packed the objects one behind the other; that the running total, a recursive
  function, never falls is proved by a least counterexample. `CudaCalled` places the
  context within one call of the local runtime, so that nothing is held outside it.
* `VerdictTells`, whatever the backends answer. `CallTold` follows one call: what
  `outcome` says of the current backend is what its array and its status show, a wrong
  match being still in the array when the call returns. `ReferenceRight` keeps the
  reference through later calls, `LoopTold` reads the reports off the outcomes of the
  backends passed, which needs that no backend is listed twice in the registry.
* `DecisionUnchanged` of `Metric` (`EarlyExitDecidesRight`), for sides, elements,
  thresholds and scales of any size. `MetricInv` says that the sum is that of the places
  passed (row times side plus column), and that a score is returned at the end of a row
  only, past the threshold or past the last row. Terms are never negative, so the sums of
  the first terms never fall: what has reached the threshold stays there.

### LoadAndSearch

`LoadAndSearch` follows the objects of an input through the stable sort
(`ObjectSort`), the reference scan of the sorted array (an instance of
`SerialSearch`) and the writer's line. Only here do ids, places in the input and
matches meet.

* `SortedStably`. `SerialKeepsContract`: on the sorted objects the scan keeps
  `CanonicalSearch`.
* `LowestIdAnswered`: the backend's answer is the lowest id that occurs in the picture,
  of its objects the first in the input that occurs, and its first placement in row-major
  order, whatever the sign of the id.
* `LowestIdWins`, which `backend.h:16` and the design document promise: that answer is
  what the line tells, and "No Objects were found" is told only where none occurs. It
  fails; see the finding.

Run `input`, its third part: three objects with ids from -1, 0, 2 and sides from 1 to 3, on
a picture of 2 x 2, for every set of matching placements: ties, objects larger than
the picture, and placements in the second row are all there. Run
`load_and_search_negative_id`: two objects and a picture of one cell suffice.

Finding: the parser accepts negative ids, the sort puts them first, and
`msearch_match_found` (`types.h:67`) takes a match of one for none. The picture is
reported as "No Objects were found", even when an object with another id occurs in it,
where the contract of the backends asks for "the object with the lowest id that occurs
anywhere in the picture" (`backend.h:16`, `docs/ARCHITECTURE.md:36`).

`LoadAndSearchProofs` proves the three that hold, for every input of any length, any ids, and
pictures and objects up to the maximal side of the parser (`Serial!MaxSide`, for which
the keys fit; `PictureAssumption`, `SidesAssumption`), and that the sort loses nothing at
any step.

* The sort's `IInv` has an invariant for each loop. Outside, the prefix is sorted by id
  and place, and *holds the objects of the input's prefix*: this is what makes the key,
  which comes from further on, fall behind its equals. Inside, the hole splits the
  prefix, everything above it is greater than the key, and the rest of the array is
  untouched.
* `Scanned`: no object before the current one occurs, and no placement of it before the
  current one matches. What the scan returns is then canonical by the facts about keys of
  `SearchProblemProofs`, instantiated with the sorted objects.
* `LowestIdAnswered` brings the two together: the first object of the sorted array that
  occurs is, of the input's objects that occur, the least by id and place.
* `LowestIdWins` holds whenever that least id is not negative (`LineNamesLowestId`), so
  nothing but the sign of an id keeps a match out of the output.

The module also proves what comes before the sort.

* `Parser`, for every sequence of tokens, every bound on counts and sides, and whatever
  allocations fail: `NothingLeaks`, `AcceptedIsSound`, and `CleanupIsSafe` but for the one
  case of the finding (`CountedInVain`). `Building` says
  of each step of the reader which blocks are live and which matrices are complete
  (`HasData`, `FullUpTo`), so that counts, arrays and sizes fit together whenever a token
  or an allocation fails; `GivenUp`, that `msearch_problem_free` then frees all that is
  live, and that its loops find their arrays unless the pictures have been counted in
  vain; `ReaderReturned`, what a result stands for.
* `Lexer`, for every file and every size of the token buffer: `FindsAllTokens`, and when
  `MessageNamesLine` holds (`NamesLineUntilBreak`). The invariant `LexerInv` compares the automaton with the format at the
  present character: outside tokens and comments (`Outside`), in a comment (`InRemark`), or
  in a token whose first character is known (`InToken`), with every token before it
  returned in order (`InSequence`). The line number is compared by cardinalities: it is
  the number of line breaks behind it less those that ended a token.

## 7. The examples

### Models

`MpiWorld` is what the programs share: ranks that enter collectives, abort, and
exit after `MPI_Finalize`. All ranks make the same collectives in the same order in
these programs, so the number of calls a rank has made names the call it is in.

`Decomposition` is the loop that lays out the blocks; `BlockPrograms` adds the rest of
`distributed-sum` and `matrix-multiply`, which differ in the size of a unit, in the
broadcast of B and in what is collected:

| Action | `distributed-sum/main.c` | `matrix-multiply/main.c` |
|---|---|---|
| `ComputeTables` | 70-78 | 87-96 |
| `Allocate`, `AllocationFails` | 62-68, 84-103 | 78-85, 98-125 |
| `PassBarrier` | 105 | 127 |
| `ReceiveB`, `ReceiveBlock` | 108 | 131-133 |
| `Work` | 110-113 | 140-148 |
| `Collect`, `HandOver` | 116-149 | 150-195 |

An element is known by its place in the array, so that a block that ends up in the
wrong place is told from one in the right place, and `Garbage` is anything that
nothing right was written to; it is assumed never to be right by accident. An
element of the product is right when all of its row of A and its column of B have
arrived. Sizes are computed in `long` and cast to an `int` from `-IntMax - 1` to `IntMax`;
a negative count is refused by MPI, whose default is to end the world. `long` and
`long long` are taken to be wide enough for every size and sum. `matrix-multiply` is restricted
to numbers of rows that an `int` can hold: no machine stores a larger matrix.

`PingPong` models a send that may wait for its receiver (rendezvous) or return at
once (eager), as the library pleases, and a message that may be corrupted on its
way. Message tags are left out: every send and receive that can meet has the same one.

### Properties

* `BlocksTile`: with any number of ranks, dividing `n` or exceeding it.
* `AnswerIndependentOfRanks`: as long as sizes fit an `int`, a run that is not aborted
  is right, and it is aborted for memory only. `SuccessIsRight`: beyond that, exit code
  0 still means a right answer: the closed form vouches for every element of the sum,
  and one corner for all of the product.
* `OneBall`: the two take turns, however sends behave, and no message is left over.
  `CorruptionIsTold`: one corrupted message on any trip and in either direction shows in
  the exit code, because each rank passes on what it received.
* `Termination`: the world exits or is aborted as a whole.

### Run, fairness, proof

Run `examples`: one to four ranks, an `int` of four bits (-8 to 7), `n` from 1 to 17 on
both sides of what it holds: fewer units than ranks, a remainder, element counts that
wrap around to negative and to positive values. Two round trips, so that the ball comes
back once.

Every rank keeps running; a collective completes when all ranks are in it, a send
when its receiver has come, an abort reaches everyone: weak fairness of `Proceed`.
Neither an eager send nor an early return from a broadcast is ever obliged
(`Waits`).

`ExamplesProofs` proves, for every number of ranks, units and round trips:

* `BlocksTile`, of the loop (`Tiling`) and of the two programs as they run
  (`ProgramsTile`). The invariant says of the blocks laid out so far that each begins
  where the one before ends, and that the running offset is
  `next * base + min(next, remainder)`. The programs implement the loop: no other step
  of theirs touches the tables.
* `OneBall` and `CorruptionIsTold`. An abort may leave players anywhere, so the invariant
  `PingInv` speaks of where each rank is or was when it was killed (`at`). `Exchange`
  counts: what a player has sent, a function of its position and its round trip, is what
  the other has received or what is on its way. So the ball is in one place (`Ball`),
  and `Judged` says that it is corrupt just if a message has been corrupted.

* `AnswerIndependentOfRanks` and `SuccessIsRight`, for every `IntMax` as well. `BlockInv`
  says what each rank holds after each of its calls, counted by `calls`, so that it holds
  of killed ranks too: room for the block its tables name, B as far as an `int` can say
  how long it is, the block that the casts of the tables make (`BlockOf`), and what it
  makes of that. `Answered` says when the root's answer is right. Two arguments carry it:
  * A cast never makes a size larger (`SizesAsInt`). So what a rank adds up is at most
    what its block would contribute to the closed form, and equal to it only if its count
    and its displacement are what they were before the cast (`LocalSumWithin`): if the
    total is right, all casts were `Exact`, and each element has come to one place
    (`EachElementOnce`). Sums are compared by doubling: twice the sum up to v is `v * (v + 1)`.
  * The last element of the product needs the last column of B, hence the whole of it. A
    rank other than the root has received no more of B than an `int` can say, and the root's
    own block, which starts at 0, holds the last row only if it holds all of A. So a right
    corner means that all elements can be counted by an `int` (`CornerTells`), and then
    nothing was cast wrongly and all of the product is right (`ProductIsRight`).

Termination is model-checked only.

## 8. The cluster scripts

`Cluster` models `start-cluster.sh` and any number of invocations of `run-mpi.sh`, one
step per command that looks at the cluster or writes the host file. Between two
commands nodes become healthy, die, or are scaled by somebody else, up to
`MaxChanges` times. All invocations share `/build/hostfile`.

| Action | Code |
|---|---|
| `Up`, `List`, `Inspect`, `Judge` | `start-cluster.sh:36-59` |
| `Require`, `Count` | `lib.sh:53-57`, `run-mpi.sh:54-56` |
| `LookUp`, `Truncate`, `AppendLine` | `make-hostfile.sh:25-35` |
| `Launch`, `BuildFails`, `HeadGone` | `run-mpi.sh:62-105`; any command on node 1 fails without it |

* `ReadyMeansLaunchable`: a launch after `start-cluster.sh` is done has all the nodes asked
  for, each taking connections, unless somebody changes the cluster.
* `HostFileIsOfThisRun`: `mpirun` reads the nodes this run found, each once and in order.
* `SlotsAgree`: oversubscription is asked for just when the file has too few slots.
* `ScriptsEnd`, under weak fairness of each script's next command: nothing obliges a node
  to become healthy, and the deadline ends the wait.

All but the last are stated of runs that no other run disturbed: two runs that write
the host file at the same time may mix their lines, and each may launch with the
other's. A change of the cluster between lookup and launch leaves names of departed
nodes in the file; the scripts do not look again, and no property says they do.

Run `cluster`: two nodes of two slots, two runs with 3 ranks or the default, a wait of
two rounds, one change by somebody else. Two runs are the least that share the file,
three ranks fit on two nodes and not on one, and one change hits every gap between
two commands. What `docker compose ps` and the sorted lookup return is, of all lists of the
running nodes, the ascending one without repetitions (`Listings`).

`ExamplesProofs` proves the three invariants, for every number of nodes, slots, runs and
changes. `ClusterInv` has two parts. `Written` says, of a run that no other has disturbed,
that the lines in the host file are those it has written so far. `Waited` says what
`start-cluster.sh` knows as long as nobody changes the cluster: the nodes are those asked
for (`AsWanted`), what a round of the wait has found healthy still is (`RoundStands`,
`ReadyStands`), and a run that starts after it looks up all of them (`LateRuns`). That an
ascending list of w of the numbers up to w is the list of all of them
(`AscendingIsIdentity`) is the fact that makes a count of nodes enough. `ScriptsEnd` is
model-checked only.

## 9. Not modelled

* `report_bench` and the timing of repetitions, the wording of results and of log
  lines, the usage text: output that nothing reads.
* `OMP_NUM_THREADS`, which takes the choice of threads away from `resolve_thread_count`.
* Option parsing in the shell scripts, `status.sh`, `shell.sh`, the SLURM scripts, Docker
  files and images, build files and CI: declarative or straight-line code around tools
  that are not part of the repository. `hello-mpi`, the input generator and the
  benchmark driver keep no state to speak of.
