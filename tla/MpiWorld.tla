------------------------------ MODULE MpiWorld ------------------------------
(***************************************************************************)
(* What the example programs share: ranks that call collectives, abort the *)
(* world when an allocation fails, and exit after MPI_Finalize.  All ranks *)
(* of these programs make the same collectives in the same order, so the   *)
(* number of calls a rank has made tells which one it is in.               *)
(***************************************************************************)
EXTENDS Integers

CONSTANTS
    IntMax      \* INT_MAX; an int has as many negative values as others

VARIABLES
    program,    \* which of the programs all ranks run
    world,      \* world_size
    pc,         \* where main is on each rank
    calls,      \* collectives each rank has entered
    aborted,    \* has MPI been told to abort the world?
    exitCode    \* what main returns on each rank

worldVars == <<pc, calls, aborted, exitCode>>

Root == 0
Ranks == 0 .. world - 1

\* The value of a long in an int.
ToInt(x) == LET half == IntMax + 1 IN ((x + half) % (2 * half)) - half

WorldInit(entry) ==
    /\ pc = [r \in Ranks |-> entry]
    /\ calls = [r \in Ranks |-> 0]
    /\ aborted = FALSE
    /\ exitCode = [r \in Ranks |-> 0]

At(r, label) == pc[r] = label

Goto(r, label) ==
    /\ pc' = [pc EXCEPT ![r] = label]
    /\ UNCHANGED <<calls, aborted, exitCode>>

\* The rank makes a collective call and waits in it.
Enter(r, label) ==
    /\ pc' = [pc EXCEPT ![r] = label]
    /\ calls' = [calls EXCEPT ![r] = @ + 1]
    /\ UNCHANGED <<aborted, exitCode>>

HasEntered(s, r) == calls[s] >= calls[r]
AllArrived(r) == \A s \in Ranks : HasEntered(s, r)

\* MPI_Abort(MPI_COMM_WORLD, 2); MPI itself ends the world so when a call is
\* refused, the errors of a communicator being fatal by default.
MPI_Abort(r) ==
    /\ pc' = [pc EXCEPT ![r] = "killed"]
    /\ aborted' = TRUE
    /\ UNCHANGED <<calls, exitCode>>

Stopped(r) == pc[r] \in {"exited", "killed"}

Killed(r) ==
    /\ aborted /\ ~Stopped(r)
    /\ Goto(r, "killed")

\* MPI_Finalize, and the return from main.
Finalize(r, code) ==
    /\ pc' = [pc EXCEPT ![r] = "finalize"]
    /\ calls' = [calls EXCEPT ![r] = @ + 1]
    /\ exitCode' = [exitCode EXCEPT ![r] = code]
    /\ UNCHANGED aborted

Finalized(r) ==
    /\ At(r, "finalize") /\ AllArrived(r)
    /\ Goto(r, "exited")

=============================================================================
