------------------------------- MODULE Parser -------------------------------
(***************************************************************************)
(* msearch_read_problem_stream (core/parser.c) with the allocation,        *)
(* validation and release of a problem (core/problem.c).  The file is any  *)
(* sequence of tokens: each token asked for is a number of interest, a     *)
(* number out of bounds, or no number at all.  An allocation may fail.     *)
(*                                                                         *)
(* Pictures and objects are handled alike but for their arrays, so the     *)
(* state is indexed by the kind of matrix.  "heap" is the set of blocks    *)
(* that are allocated: <<kind, 0>> the array, <<kind, n>> the data of its  *)
(* n-th matrix.                                                            *)
(***************************************************************************)
EXTENDS InputLimits, Sequences, Functions

CONSTANTS
    LargestSide,    \* MSEARCH_MAX_SIDE
    FaultSites      \* allocations that may fail

Kinds == {"pictures", "objects"}
AllFaultSites == {"pictures", "objects", "matrix"}

ASSUME MaxSideAssumption == LargestSide \in Nat
ASSUME FaultAssumption == FaultSites \subseteq AllFaultSites

\* A size as it may stand in the file: below, within and above the bounds.
Sizes == 0 .. LargestSide + 1

VARIABLES
    readerPc,   \* the token expected next, or where the function is
    kind,       \* which kind of matrix is being read
    at,         \* which one of them
    threshold,  \* out->threshold: "unset", "positive" or "not positive"
    num,        \* out->num_pictures and out->num_objects
    matrices,   \* out->pictures and out->objects
    heap,       \* blocks that are allocated
    status      \* the status to be returned

readerVars == <<readerPc, kind, at, threshold, num, matrices, heap, status>>

\* An entry of a calloc'ed array.  "place" tells the matrices of the file apart
\* and names their data, "filled" counts the elements that have been read.
Blank(n) == [id |-> 0, side |-> 0, filled |-> 0, place |-> n]
BlankArray(n) == [k \in 1 .. n |-> Blank(k)]

ReaderInit ==
    /\ readerPc = "threshold"
    /\ kind = "pictures"
    /\ at = 1
    /\ threshold = "unset"
    /\ num = [k \in Kinds |-> 0]
    /\ matrices = [k \in Kinds |-> <<>>]
    /\ heap = {}
    /\ status = "OK"

GotoFail(s) == readerPc' = "fail" /\ status' = s

\* expect_int, expect_double: the file ends, or the token is no number.
Unreadable ==
    /\ readerPc \in {"threshold", "count", "id", "size", "element"}
    /\ GotoFail("PARSE")
    /\ UNCHANGED <<kind, at, threshold, num, matrices, heap>>

ReadThreshold ==
    /\ readerPc = "threshold"
    /\ threshold' \in {"positive", "not positive"}
    /\ readerPc' = "count"
    /\ UNCHANGED <<kind, at, num, matrices, heap, status>>

\* read_count bounds a count before anything is allocated for it.
CountRefused ==
    /\ readerPc = "count"
    /\ GotoFail("INVALID")
    /\ UNCHANGED <<kind, at, threshold, num, matrices, heap>>

\* What follows when n matrices of a kind have been read.
AfterLast(k) == IF k = "pictures" THEN "count" ELSE "validate"

CountedBeforeAllocation == {"pictures"}

\* msearch_problem_alloc for the pictures, and the calloc of the objects: the
\* one sets its count before it allocates, the other after.
ReadCount(n) ==
    /\ readerPc = "count"
    /\ num' = [num EXCEPT ![kind] = n]
    /\ matrices' = [matrices EXCEPT ![kind] = BlankArray(n)]
    /\ heap' = IF n > 0 THEN heap \cup {<<kind, 0>>} ELSE heap
    /\ at' = 1
    /\ readerPc' = IF n > 0 THEN "id" ELSE AfterLast(kind)
    /\ kind' = IF n = 0 THEN "objects" ELSE kind
    /\ UNCHANGED <<threshold, status>>

ArrayAllocationFails(n) ==
    /\ readerPc = "count" /\ n > 0 /\ kind \in FaultSites
    /\ num' = [num EXCEPT ![kind] = IF kind \in CountedBeforeAllocation THEN n ELSE @]
    /\ GotoFail("NOMEM")
    /\ UNCHANGED <<kind, at, threshold, matrices, heap>>

ReadId(id) ==
    /\ readerPc = "id"
    /\ matrices' = [matrices EXCEPT ![kind][at].id = id]
    /\ readerPc' = "size"
    /\ UNCHANGED <<kind, at, threshold, num, heap, status>>

SideAllowed(n) == n \in 1 .. LargestSide

\* msearch_picture_alloc, msearch_object_alloc: alloc_matrix bounds the size,
\* so that its square fits an int, and allocates the elements.
ReadSize(n) ==
    /\ readerPc = "size" /\ SideAllowed(n)
    /\ matrices' = [matrices EXCEPT ![kind][at].side = n, ![kind][at].filled = 0]
    /\ heap' = heap \cup {<<kind, at>>}
    /\ readerPc' = "element"
    /\ UNCHANGED <<kind, at, threshold, num, status>>

MatrixRefused(n) ==
    /\ readerPc = "size"
    /\ matrices' = [matrices EXCEPT ![kind][at].side = n]
    /\ \/ ~SideAllowed(n) /\ GotoFail("INVALID")
       \/ SideAllowed(n) /\ "matrix" \in FaultSites /\ GotoFail("NOMEM")
    /\ UNCHANGED <<kind, at, threshold, num, heap>>

ElementsOf(n) == n * n

NextMatrix == at + 1

\* read_matrix, and on to the next matrix after the last element.
ReadElement ==
    /\ readerPc = "element"
    /\ LET current == matrices[kind][at]
           last    == current.filled + 1 >= ElementsOf(current.side)
       IN  /\ matrices' = [matrices EXCEPT ![kind][at].filled = @ + 1]
           /\ IF ~last THEN UNCHANGED <<readerPc, kind, at>>
              ELSE IF at < num[kind]
                THEN readerPc' = "id" /\ at' = NextMatrix /\ UNCHANGED kind
                ELSE readerPc' = AfterLast(kind) /\ kind' = "objects" /\ UNCHANGED at
    /\ UNCHANGED <<threshold, num, heap, status>>

-----------------------------------------------------------------------------
(* msearch_problem_validate *)

\* Defect: the objects keep the order of the file.
NoOrder(x, y) == x.place < y.place
SortsBefore(x, y) == x.id < y.id \/ (x.id = y.id /\ x.place < y.place)

Arrangements(array) ==
    {[n \in DOMAIN array |-> array[p[n]]] : p \in Bijection(DOMAIN array, DOMAIN array)}

Ascending(array) == \A m, n \in DOMAIN array : m < n => SortsBefore(array[m], array[n])

\* Sizes and data have been checked as they were read; what remains are the
\* threshold, and the sort: of all arrangements ObjectSort makes the one that is
\* in order.  Trailing tokens are ignored.
Validate ==
    /\ readerPc = "validate" /\ threshold = "positive"
    /\ \E sorted \in Arrangements(matrices["objects"]) :
           Ascending(sorted) /\ matrices' = [matrices EXCEPT !["objects"] = sorted]
    /\ readerPc' = "returned"
    /\ UNCHANGED <<kind, at, threshold, num, heap, status>>

ThresholdRefused ==
    /\ readerPc = "validate" /\ threshold = "not positive"
    /\ GotoFail("INVALID")
    /\ UNCHANGED <<kind, at, threshold, num, matrices, heap>>

-----------------------------------------------------------------------------
(* msearch_problem_free *)

\* The loops over the matrices read an array that is there.
FreeReadsArrays == \A k \in Kinds : num[k] > 0 => <<k, 0>> \in heap

\* Defect: the data of the matrix that failed is left.
FreedUpToCurrent ==
    {<<k, 0>> : k \in Kinds} \cup
    UNION {{<<k, n>> : n \in {x \in 1 .. num[k] : k = "pictures" \/ x < at}} : k \in Kinds}

\* What it frees: the data of num_pictures and num_objects matrices, then the
\* arrays.
Freed ==
    {<<k, 0>> : k \in Kinds} \cup
    UNION {{<<k, n>> : n \in 1 .. num[k]} : k \in Kinds}

Free ==
    /\ readerPc = "fail" /\ FreeReadsArrays
    /\ heap' = heap \ Freed
    /\ num' = [k \in Kinds |-> 0]
    /\ matrices' = [k \in Kinds |-> <<>>]
    /\ threshold' = "unset"
    /\ readerPc' = "returned"
    /\ UNCHANGED <<kind, at, status>>

\* A loop that reads through a null pointer is undefined: the process dies.
FreeCrashes ==
    /\ readerPc = "fail" /\ ~FreeReadsArrays
    /\ readerPc' = "crashed"
    /\ UNCHANGED <<kind, at, threshold, num, matrices, heap, status>>

Ended == readerPc \in {"returned", "crashed"} /\ UNCHANGED readerVars

Proceed ==
    \/ ReadThreshold \/ ReadElement \/ Validate \/ ThresholdRefused \/ Free \/ FreeCrashes
    \/ \E n \in 0 .. MaxCount : ReadCount(n)
    \/ \E id \in Ids : ReadId(id)
    \/ \E n \in Sizes : ReadSize(n)

Fails ==
    \/ Unreadable \/ CountRefused
    \/ \E n \in 0 .. MaxCount : ArrayAllocationFails(n)
    \/ \E n \in Sizes : MatrixRefused(n)

ReaderNext == Proceed \/ Fails \/ Ended

ReaderSpec == ReaderInit /\ [][ReaderNext]_readerVars

-----------------------------------------------------------------------------
(* Correctness *)

\* Whatever has been allocated, msearch_problem_free would free it, at every
\* moment ("keeps ownership with out from the very first element"), and after
\* a failure nothing is left.
NothingLeaks ==
    /\ heap \subseteq Freed
    /\ readerPc = "returned" /\ status # "OK" => heap = {}

\* A problem that is accepted is what the backends rely on: a positive
\* threshold, every matrix within the bounds, allocated and read to its last
\* element, the objects by ascending id and in the order of the file where ids
\* are equal.
AcceptedIsSound ==
    readerPc = "returned" /\ status = "OK" =>
        /\ threshold = "positive"
        /\ heap = {b \in Freed : b[2] > 0 \/ num[b[1]] > 0}
        /\ \A k \in Kinds :
               /\ Len(matrices[k]) = num[k]
               /\ \A n \in 1 .. num[k] :
                      /\ matrices[k][n].side \in 1 .. LargestSide
                      /\ matrices[k][n].filled = matrices[k][n].side * matrices[k][n].side
        /\ \A m, n \in 1 .. num["objects"] : m < n =>
               \/ matrices["objects"][m].id < matrices["objects"][n].id
               \/ /\ matrices["objects"][m].id = matrices["objects"][n].id
                  /\ matrices["objects"][m].place < matrices["objects"][n].place

\* Wherever reading fails, msearch_problem_free cleans up and returns: its loops
\* never index an array that is not there.  They do when it is the pictures'
\* array that could not be allocated, because its matrices are counted before.
CleanupIsSafe == readerPc # "crashed"

=============================================================================
