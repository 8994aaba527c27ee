---------------------------- MODULE BlockPrograms ----------------------------
(***************************************************************************)
(* distributed-sum and matrix-multiply: the root scatters blocks of its    *)
(* items (the elements of an array, the rows of a matrix), every rank      *)
(* works on its own block, and the root puts the parts together and checks *)
(* the answer.                                                             *)
(*                                                                         *)
(* An item's element is known by its place, from 1, in row-major order: e  *)
(* stands for the e-th element of the array, of A or of C, and Garbage for *)
(* whatever memory holds that nothing right was written to.  Sizes are     *)
(* computed in long and passed to MPI as int; long and long long are taken *)
(* to be wide enough for every size and sum.                               *)
(***************************************************************************)
EXTENDS Decomposition, FiniteSets

CONSTANTS
    Garbage     \* a value that is not the right one

VARIABLES
    haveB,      \* leading elements of B that a rank has
    slice,      \* the block of items a rank has: "slice", "a_rows"
    part,       \* what it makes of them: "local", "c_rows"
    answer      \* the root's "total", "c_whole"

blockVars == <<loopVars, haveB, slice, part, answer>>

BlockProgram == program \in {"distributed-sum", "matrix-multiply"}
Matrices == program = "matrix-multiply"

\* A unit of the decomposition is a row of n elements, or one element.
UnitSize == IF Matrices THEN n ELSE 1
Elements == n * UnitSize

\* counts[r] and displs[r]; elem_counts[r] and elem_displs[r].
Counts(r) == ToInt(shares[r] * UnitSize)
\* Defect: a displacement in rows.
UnitDispls(r) == ToInt(offsets[r])
Displs(r) == ToInt(offsets[r] * UnitSize)

\* What a rank allocates room for: my_count of one, my_rows times n of the other.
Room(r) == LET mine == ToInt(shares[r])
           IN  IF mine > 0 THEN mine * UnitSize ELSE 1

BlockInit ==
    /\ DecompositionInit
    /\ haveB = [r \in Ranks |-> 0]
    /\ slice = [r \in Ranks |-> <<>>]
    /\ part = [r \in Ranks |-> Garbage]
    /\ answer = Garbage

\* Every rank computes the tables, from the same two numbers and on its own:
\* the loop is done once here, before any of them goes on.
ComputeTables ==
    /\ next < world
    /\ TakeShare
    /\ UNCHANGED <<worldVars, haveB, slice, part, answer>>

\* The tables and the operands; the root fills in the whole.
Allocate(r) ==
    /\ At(r, "tables") /\ next = world
    /\ slice' = [slice EXCEPT ![r] = [j \in 1 .. Room(r) |-> Garbage]]
    /\ haveB' = [haveB EXCEPT ![r] = IF Matrices /\ r = Root THEN Elements ELSE 0]
    /\ Enter(r, "barrier")
    /\ UNCHANGED <<loopVars, part, answer>>

AllocationFails(r) ==
    /\ At(r, "tables")
    /\ MPI_Abort(r)
    /\ UNCHANGED blockVars

PassBarrier(r) ==
    /\ At(r, "barrier") /\ AllArrived(r)
    /\ Enter(r, IF Matrices THEN "bcast" ELSE "scatterv")
    /\ UNCHANGED blockVars

\* A count that is negative as an int is an error of the call: the root passes
\* all counts, the others their own.
Refused(r) ==
    \/ At(r, "bcast") /\ ToInt(Elements) < 0
    \/ At(r, "scatterv") /\ \E s \in IF r = Root THEN Ranks ELSE {r} : Counts(s) < 0

CallRefused(r) ==
    /\ Refused(r)
    /\ MPI_Abort(r)
    /\ UNCHANGED blockVars

\* MPI_Bcast of B, from the root's buffer.
ReceiveB(r) ==
    /\ At(r, "bcast") /\ ~Refused(r) /\ HasEntered(Root, r)
    /\ haveB' = [haveB EXCEPT ![r] = IF r = Root THEN @ ELSE ToInt(Elements)]
    /\ Enter(r, "scatterv")
    /\ UNCHANGED <<loopVars, slice, part, answer>>

\* The e-th element of the root's array, which it may ask for out of bounds.
Whole(e) == IF e \in 1 .. Elements THEN e ELSE Garbage

\* MPI_Scatterv; a root with small blocks may be let go before all are there.
ReceiveBlock(r) ==
    /\ At(r, "scatterv") /\ ~Refused(r) /\ HasEntered(Root, r)
    /\ slice' = [slice EXCEPT ![r] =
                    [j \in DOMAIN @ |-> IF j <= Counts(r) THEN Whole(Displs(r) + j)
                                        ELSE Garbage]]
    /\ Goto(r, "work")
    /\ UNCHANGED <<loopVars, haveB, part, answer>>

\* terms[1] + ... + terms[count]
SumOf(terms, count) ==
    LET sum[j \in 0 .. count] == IF j = 0 THEN 0 ELSE sum[j - 1] + terms[j]
    IN  sum[count]

\* The elements of the array are 1..n, stored as int.
LocalSum(r) ==
    IF Garbage \in {slice[r][j] : j \in 1 .. Counts(r)} THEN Garbage
    ELSE SumOf([j \in 1 .. Counts(r) |-> ToInt(slice[r][j])], Counts(r))

\* Element (i, j) of the block's product needs all of row i of the block of A,
\* and all of column j of B: it is then right for the row it belongs to.
Product(r) ==
    [e \in 1 .. ToInt(shares[r]) * n |->
        LET i == (e - 1) \div n
            j == (e - 1) % n
            first == slice[r][i * n + 1]
        IN  IF /\ first # Garbage
               /\ \A k \in 1 .. n : slice[r][i * n + k] = first + k - 1
               /\ (n - 1) * n + j + 1 <= haveB[r]
              THEN first + j
              ELSE Garbage]

\* Threads share out the rows of a product but write no element in common.
Work(r) ==
    /\ At(r, "work")
    /\ part' = [part EXCEPT ![r] = IF Matrices THEN Product(r) ELSE LocalSum(r)]
    /\ Enter(r, "collect")
    /\ UNCHANGED <<loopVars, haveB, slice, answer>>

\* MPI_Reduce with MPI_SUM.
Sum ==
    IF Garbage \in {part[r] : r \in Ranks} THEN Garbage
    ELSE SumOf([r \in 1 .. world |-> part[r - 1]], world)

\* MPI_Gatherv: each part goes to the place its rank's displacement says; what
\* two parts are written to, or none, holds nothing certain.
Writers(e) == {r \in Ranks : e - Displs(r) \in 1 .. Counts(r)}

Gathered ==
    [e \in 1 .. Elements |->
        IF Cardinality(Writers(e)) = 1
          THEN LET r == CHOOSE r \in Writers(e) : TRUE IN part[r][e - Displs(r)]
          ELSE Garbage]

\* The sum is known in closed form; of the product one corner is recomputed.
Expected == (n * (n + 1)) \div 2

\* Defect: the corner checked is the first one.
FirstCorner == 1
Corner == Elements

Passed == IF Matrices THEN answer'[Corner] = Corner ELSE answer' = Expected

Collect ==
    /\ At(Root, "collect") /\ AllArrived(Root)
    /\ answer' = IF Matrices THEN Gathered ELSE Sum
    /\ Finalize(Root, IF Passed THEN 0 ELSE 1)
    /\ UNCHANGED <<loopVars, haveB, slice, part>>

\* The others are done when they have handed over their part.
HandOver(r) ==
    /\ At(r, "collect") /\ r # Root
    /\ Finalize(r, 0)
    /\ UNCHANGED blockVars

Exit(r) == Finalized(r) /\ UNCHANGED blockVars

Die(r) == Killed(r) /\ UNCHANGED blockVars

BlockProceed(r) ==
    \/ Allocate(r) \/ PassBarrier(r) \/ CallRefused(r) \/ ReceiveB(r)
    \/ ReceiveBlock(r) \/ Work(r) \/ HandOver(r) \/ Exit(r) \/ Die(r)
    \/ r = Root /\ (ComputeTables \/ Collect)

BlockNext == \E r \in Ranks : BlockProceed(r) \/ AllocationFails(r)

-----------------------------------------------------------------------------
(* Correctness *)

Places == UNION {{r} \X (1 .. Counts(r)) : r \in Ranks}

Right ==
    IF Matrices THEN answer = [e \in 1 .. Elements |-> e]
    ELSE /\ answer = Expected
         /\ \A e \in 1 .. n : Cardinality({p \in Places : slice[p[1]][p[2]] = e}) = 1

\* While all sizes fit an int the answer does not depend on the number of
\* ranks, dividing n or exceeding it: a run that is not aborted is right on the
\* root and exits with 0 everywhere, and it is aborted for memory only.
AnswerIndependentOfRanks ==
    BlockProgram /\ Elements <= IntMax =>
        /\ \A r \in Ranks : ~Refused(r)
        /\ At(Root, "exited") => Right /\ exitCode = [r \in Ranks |-> 0]

\* Beyond that the programs may be aborted or fail, but exit code 0 still means
\* what it says: one corner of the product vouches for all of it, and the sum
\* for every element.
SuccessIsRight ==
    BlockProgram /\ At(Root, "exited") /\ exitCode[Root] = 0 => Right

=============================================================================
