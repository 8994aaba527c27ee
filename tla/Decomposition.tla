--------------------------- MODULE Decomposition ---------------------------
(***************************************************************************)
(* The block decomposition of distributed-sum and matrix-multiply: a loop  *)
(* that gives n units (elements, or rows of a matrix) to the ranks of a    *)
(* world in contiguous blocks, the remainder spread over the leading       *)
(* ranks.  It computes in long; what the casts to int make of its tables   *)
(* is for BlockPrograms.                                                   *)
(***************************************************************************)
EXTENDS MpiWorld

VARIABLES
    n,          \* units to share out
    next,       \* the loop's "r"
    offset,     \* the local "offset" ("row_offset")
    shares,     \* the share of each rank
    offsets     \* the first unit of each rank, from 0

loopVars == <<next, offset, shares, offsets>>

DecompositionInit ==
    /\ next = 0
    /\ offset = 0
    /\ shares = [r \in Ranks |-> 0]
    /\ offsets = [r \in Ranks |-> 0]

base == n \div world
remainder == n % world

\* Defect: the remainder goes to one rank too few.
OneUnitLost(r) == base + (IF r + 1 < remainder THEN 1 ELSE 0)
Share(r) == base + (IF r < remainder THEN 1 ELSE 0)

TakeShare ==
    /\ next < world
    /\ shares' = [shares EXCEPT ![next] = Share(next)]
    /\ offsets' = [offsets EXCEPT ![next] = offset]
    /\ offset' = offset + Share(next)
    /\ next' = next + 1
    /\ UNCHANGED <<n, world>>

DecompositionSpec ==
    /\ n \in Nat \ {0} /\ world \in Nat \ {0}
    /\ DecompositionInit
    /\ [][TakeShare]_<<n, world, loopVars>>

-----------------------------------------------------------------------------
(* Correctness *)

\* The blocks tile the units, whether or not the rank count divides them and
\* even when there are more ranks than units: each block begins where the one
\* before ends, the last one ends at n, and no two differ by more than one
\* ("the largest and smallest slice never differ by more than one").
BlocksTile ==
    next = world =>
        /\ offsets[0] = 0
        /\ \A r \in 0 .. world - 2 : offsets[r + 1] = offsets[r] + shares[r]
        /\ offsets[world - 1] + shares[world - 1] = n
        /\ \A r, s \in Ranks : shares[r] <= shares[s] + 1

=============================================================================
