---------------------------- MODULE SearchProblem ----------------------------
(***************************************************************************)
(* One picture and the objects to look for in it, as every backend of      *)
(* msearch sees them: objects in array order (sorted by id), placements of *)
(* an object numbered by a packed key, and the match that the determinism  *)
(* contract of backend.h asks for.                                         *)
(*                                                                         *)
(* Which placements match is the metric's business; here it is part of the *)
(* input, the set "hits" of matching <<row, col>> of each object.          *)
(***************************************************************************)
EXTENDS Integers

CONSTANTS
    N,          \* picture->n
    K,          \* problem->num_objects
    MaxM        \* bound on the sides of objects, for enumeration

MaxSide == 46340                \* MSEARCH_MAX_SIDE
NoPlacement == 2147483647       \* MSEARCH_NO_PLACEMENT

ASSUME PictureAssumption == N \in 1 .. MaxSide
ASSUME ObjectsAssumption == K \in Nat /\ MaxM \in 1 .. MaxSide

Objects == 0 .. K - 1

VARIABLES
    m,          \* the side of each object
    hits        \* the placements where each object matches

problem == <<m, hits>>

Span(k) == N - m[k] + 1

\* msearch_placement_count: an object larger than the picture has none.
Placements(k) == IF Span(k) > 0 THEN Span(k) * Span(k) ELSE 0

Cells(k) == (0 .. Span(k) - 1) \X (0 .. Span(k) - 1)

\* What validation leaves possible: any sides, any matching cells.
ValidProblem ==
    /\ m \in [Objects -> 1 .. MaxM]
    /\ hits \in [Objects -> SUBSET ((0 .. N - 1) \X (0 .. N - 1))]
    /\ \A k \in Objects : hits[k] \subseteq Cells(k)

-----------------------------------------------------------------------------
(* Packed placement keys *)

\* Defect: row and column come out of the key the wrong way round.
CellTransposed(k, key) == <<key % Span(k), key \div Span(k)>>

Cell(k, key) == <<key \div Span(k), key % Span(k)>>

\* msearch_score_at(...) < threshold for the placement with this key.
IsHit(k, key) == Cell(k, key) \in hits[k]

HitKeys(k) == {key \in 0 .. Placements(k) - 1 : IsHit(k, key)}

-----------------------------------------------------------------------------
(* The canonical match *)

NoMatch == [object |-> -1, row |-> -1, col |-> -1]

MatchAt(k, cell) == [object |-> k, row |-> cell[1], col |-> cell[2]]

\* What a backend writes for a key it has settled on.
Answer(k, key) == MatchAt(k, Cell(k, key))

RowMajorBefore(p, q) == p[1] < q[1] \/ (p[1] = q[1] /\ p[2] <= q[2])

\* "The object with the lowest id that occurs anywhere in the picture; then
\* the row-major-first placement of that object".
IsCanonical(match) ==
    \/ match = NoMatch /\ \A k \in Objects : hits[k] = {}
    \/ \E k \in Objects : \E p \in hits[k] :
           /\ \A j \in Objects : j < k => hits[j] = {}
           /\ \A q \in hits[k] : RowMajorBefore(p, q)
           /\ match = MatchAt(k, p)

=============================================================================
