------------------------------ MODULE Examples ------------------------------
(***************************************************************************)
(* The example programs of the lab on one world of ranks: all ranks run    *)
(* the same program, with the same arguments.                              *)
(***************************************************************************)
EXTENDS BlockPrograms, PingPong

CONSTANTS
    MaxWorld,   \* bound on the number of ranks
    Units,      \* values of n
    Payloads    \* numbers of bytes

ASSUME WidthAssumption == IntMax \in Nat
ASSUME GarbageAssumption == Garbage \notin Int
ASSUME ArgumentsAssumption ==
    /\ MaxWorld \in Nat \ {0} /\ MaxTrips \in Nat \ {0}
    /\ Units \subseteq Nat \ {0} /\ Payloads \subseteq Nat \ {0}

vars == <<program, n, worldVars, world, blockVars, pingVars>>

\* parse_positive gives what the arguments say or a default, never zero.  No
\* machine has room for a matrix of more rows than an int can count.
Init ==
    /\ program \in {"distributed-sum", "matrix-multiply", "ping-pong"}
    /\ world \in 1 .. MaxWorld
    /\ n \in IF PlaysBall THEN {1} ELSE Units
    /\ Matrices => n <= IntMax
    /\ payload \in IF PlaysBall THEN Payloads ELSE {1}
    /\ WorldInit(IF PlaysBall THEN "begin" ELSE "tables")
    /\ BlockInit
    /\ trips \in 1 .. IF PlaysBall THEN MaxTrips ELSE 1
    /\ PingInit

Next ==
    /\ UNCHANGED program
    /\ IF PlaysBall THEN PingNext /\ UNCHANGED <<n, world, blockVars>>
       ELSE BlockNext /\ UNCHANGED <<n, world, pingVars>>

Proceed(r) ==
    /\ UNCHANGED program
    /\ IF PlaysBall THEN PingProceed(r) /\ UNCHANGED <<n, world, blockVars>>
       ELSE BlockProceed(r) /\ UNCHANGED <<n, world, pingVars>>

\* A call may return before all ranks have come to it, but nothing obliges it.
Waits(r) == ~aborted /\ pc[r] \in {"bcast", "scatterv"} /\ ~AllArrived(r)

Spec == Init /\ [][Next]_vars

\* Every rank keeps running, a collective completes when all ranks are in it, a
\* send when its receiver has come, and an abort reaches everyone.
Fairness == \A r \in 0 .. MaxWorld - 1 : WF_vars(r \in Ranks /\ ~Waits(r) /\ Proceed(r))

FairSpec == Spec /\ Fairness

\* No rank is left waiting, with any number of ranks and in whatever mode the
\* library sends: the world exits or is aborted as a whole.
Termination ==
    <>(\/ \A r \in Ranks : pc[r] = "exited"
       \/ aborted /\ \A r \in Ranks : Stopped(r))

=============================================================================
