------------------------- MODULE SearchProblemProofs -------------------------
(***************************************************************************)
(* What the backends rely on about packed placement keys: they fit below   *)
(* the sentinel, they number the placements, and their order is row-major  *)
(* order, so that the least matching key is the canonical match.           *)
(***************************************************************************)
EXTENDS SearchProblem, TLAPS

-----------------------------------------------------------------------------
(* Arithmetic *)

LEMMA ProductMonotone ==
    ASSUME NEW a \in Nat, NEW b \in Nat, NEW c \in Nat, a <= b
    PROVE  a * c <= b * c
OBVIOUS

LEMMA DivMod ==
    ASSUME NEW a \in Nat, NEW s \in Nat, s > 0
    PROVE  /\ a \div s \in Nat
           /\ a % s \in 0 .. s - 1
           /\ a = (a \div s) * s + (a % s)
OBVIOUS

LEMMA DivModUnique ==
    ASSUME NEW q \in Nat, NEW r \in Nat, NEW s \in Nat, r < s
    PROVE  /\ (q * s + r) \div s = q
           /\ (q * s + r) % s = r
OBVIOUS

-----------------------------------------------------------------------------
(* Keys and cells of one object *)

LEMMA SpanType ==
    ASSUME ValidProblem, NEW j \in Objects
    PROVE  Span(j) \in Int /\ Span(j) <= N
<1>1. m[j] \in 1 .. MaxM
    BY DEF ValidProblem
<1>2. MaxSide \in Nat
    BY DEF MaxSide
<1>3. N \in Nat /\ MaxM \in Nat
    BY <1>2, PictureAssumption, ObjectsAssumption
<1> QED
    BY <1>1, <1>3 DEF Span

\* msearch_placement_count never reaches MSEARCH_NO_PLACEMENT (types.h): the
\* cast of a key to int is exact, and no key is taken for "no match".
THEOREM PlacementsBelowSentinel ==
    ASSUME ValidProblem, NEW j \in Objects
    PROVE  Placements(j) \in Nat /\ Placements(j) < NoPlacement
<1>1. MaxSide \in Nat /\ NoPlacement \in Nat /\ MaxSide * MaxSide < NoPlacement
    BY DEF MaxSide, NoPlacement
<1>2. N \in Nat /\ N <= MaxSide
    BY <1>1, PictureAssumption
<1>3. Span(j) \in Int /\ Span(j) <= MaxSide
    BY <1>1, <1>2, SpanType
<1>4. CASE Span(j) <= 0
    <2>1. Placements(j) = 0
        BY <1>3, <1>4 DEF Placements
    <2>2. 0 < NoPlacement
        BY DEF NoPlacement
    <2> QED
        BY <2>1, <2>2
<1>5. CASE Span(j) > 0
    <2>1. Span(j) \in Nat /\ Placements(j) = Span(j) * Span(j)
        BY <1>3, <1>5 DEF Placements
    <2>2. Span(j) * Span(j) <= MaxSide * Span(j)
        BY <1>1, <1>3, <2>1, ProductMonotone
    <2>3. MaxSide * Span(j) <= MaxSide * MaxSide
        <3>1. Span(j) * MaxSide <= MaxSide * MaxSide
            BY <1>1, <1>3, <2>1, ProductMonotone
        <3> QED
            BY <1>1, <2>1, <3>1
    <2>4. Span(j) * Span(j) \in Nat
        BY <2>1
    <2>5. MaxSide * Span(j) \in Nat /\ MaxSide * MaxSide \in Nat
        BY <1>1, <2>1
    <2> QED
        BY <1>1, <2>1, <2>2, <2>3, <2>4, <2>5
<1> QED
    BY <1>3, <1>4, <1>5

LEMMA KeyTypes ==
    ASSUME ValidProblem, NEW j \in Objects
    PROVE  /\ Placements(j) \in Nat
           /\ \A h \in HitKeys(j) : h \in Nat /\ h < Placements(j) /\ h < NoPlacement
<1>1. Placements(j) \in Nat /\ Placements(j) < NoPlacement
    BY PlacementsBelowSentinel
<1> QED
    BY <1>1 DEF HitKeys, NoPlacement

LEMMA CellOfKey ==
    ASSUME ValidProblem, NEW j \in Objects, NEW h \in 0 .. Placements(j) - 1
    PROVE  /\ Span(j) \in Nat /\ Span(j) > 0
           /\ Cell(j, h) \in Cells(j)
<1>1. Placements(j) > 0
    BY PlacementsBelowSentinel
<1>2. Span(j) \in Nat /\ Span(j) > 0 /\ Placements(j) = Span(j) * Span(j)
    BY <1>1, SpanType DEF Placements
<1> DEFINE s == Span(j)
<1> DEFINE q == h \div s
<1>3. h \in Nat /\ h < s * s
    BY <1>2
<1>4. q \in Nat /\ h % s \in 0 .. s - 1 /\ h = q * s + (h % s)
    BY <1>2, <1>3, DivMod
<1>5. q < s
    <2> HIDE DEF s, q
    <2> SUFFICES ASSUME q >= s PROVE FALSE
        BY <1>2, <1>4 DEF s
    <2>1. s * s <= q * s
        BY <1>2, <1>4, ProductMonotone DEF s
    <2>2. q * s \in Nat /\ s * s \in Nat
        BY <1>2, <1>4 DEF s
    <2> QED
        BY <1>2, <1>3, <1>4, <2>1, <2>2 DEF s
<1> QED
    BY <1>2, <1>4, <1>5 DEF Cell, Cells

LEMMA KeyOfCell ==
    ASSUME ValidProblem, NEW j \in Objects, NEW p \in Cells(j)
    PROVE  \E h \in 0 .. Placements(j) - 1 : Cell(j, h) = p
<1> DEFINE s == Span(j)
<1> DEFINE r == p[1]
<1> DEFINE c == p[2]
<1>1. s \in Int
    BY SpanType
<1>2. r \in 0 .. s - 1 /\ c \in 0 .. s - 1 /\ p = <<r, c>>
    BY DEF Cells
<1>3. s \in Nat /\ s > 0 /\ Placements(j) = s * s
    BY <1>1, <1>2 DEF Placements
<1> DEFINE h == r * s + c
<1> HIDE DEF s, r, c
<1>4. r * s <= (s - 1) * s
    BY <1>2, <1>3, ProductMonotone
<1>5. h \in 0 .. s * s - 1
    <2>1. (s - 1) * s = s * s - s
        BY <1>3
    <2>2. r * s \in Nat /\ s * s \in Nat
        BY <1>2, <1>3
    <2> QED
        BY <1>2, <1>3, <1>4, <2>1, <2>2
<1>6. h \div s = r /\ h % s = c
    <2>1. r \in Nat /\ c \in Nat /\ c < s
        BY <1>2, <1>3
    <2>2. (r * s + c) \div s = r /\ (r * s + c) % s = c
        BY ONLY <2>1, <1>3, DivModUnique
    <2> QED
        BY <2>2
<1> HIDE DEF h
<1>7. Cell(j, h) = p
    BY <1>2, <1>6 DEF Cell, s
<1> QED
    BY <1>3, <1>5, <1>7

LEMMA KeysInRowMajorOrder ==
    ASSUME ValidProblem, NEW j \in Objects,
           NEW a \in 0 .. Placements(j) - 1, NEW b \in 0 .. Placements(j) - 1,
           a <= b
    PROVE  RowMajorBefore(Cell(j, a), Cell(j, b))
<1> DEFINE s == Span(j)
<1> DEFINE qa == a \div s
<1> DEFINE qb == b \div s
<1>1. s \in Nat /\ s > 0 /\ a \in Nat /\ b \in Nat
    BY CellOfKey, PlacementsBelowSentinel
<1>2. qa \in Nat /\ a % s \in 0 .. s - 1 /\ a = qa * s + (a % s)
    BY <1>1, DivMod
<1>3. qb \in Nat /\ b % s \in 0 .. s - 1 /\ b = qb * s + (b % s)
    BY <1>1, DivMod
<1>4. Cell(j, a) = <<qa, a % s>> /\ Cell(j, b) = <<qb, b % s>>
    BY DEF Cell
<1> HIDE DEF s, qa, qb
<1>5. qa <= qb
    <2> SUFFICES ASSUME qb + 1 <= qa PROVE FALSE
        BY <1>2, <1>3
    <2>1. (qb + 1) * s <= qa * s
        BY <1>1, <1>2, <1>3, ProductMonotone
    <2>2. (qb + 1) * s = qb * s + s
        BY <1>1, <1>3
    <2>3. qa * s \in Nat /\ qb * s \in Nat
        BY <1>1, <1>2, <1>3
    <2> QED
        BY <1>1, <1>2, <1>3, <2>1, <2>2, <2>3
<1>6. qa = qb => a % s <= b % s
    <2>1. qa * s \in Nat
        BY <1>1, <1>2
    <2> QED
        BY <1>1, <1>2, <1>3, <2>1
<1> QED
    BY <1>2, <1>3, <1>4, <1>5, <1>6 DEF RowMajorBefore

-----------------------------------------------------------------------------
(* The canonical match *)

LEMMA EveryHitHasAKey ==
    ASSUME ValidProblem, NEW j \in Objects, NEW p \in hits[j]
    PROVE  \E h \in HitKeys(j) : Cell(j, h) = p
<1>1. p \in Cells(j)
    BY DEF ValidProblem
<1>2. PICK h \in 0 .. Placements(j) - 1 : Cell(j, h) = p
    BY <1>1, KeyOfCell
<1> QED
    BY <1>2 DEF HitKeys, IsHit

\* An object none of whose keys matches does not occur in the picture.
LEMMA NoKeysNoHits ==
    ASSUME ValidProblem, NEW j \in Objects, HitKeys(j) = {}
    PROVE  hits[j] = {}
BY EveryHitHasAKey

\* Rule (2) of the determinism contract is "a minimum over the packed
\* placement key": the least matching key of the first object that has one is
\* the canonical match.
THEOREM LeastKeyIsCanonical ==
    ASSUME ValidProblem, NEW j \in Objects,
           \A i \in Objects : i < j => hits[i] = {},
           NEW h \in HitKeys(j), \A g \in HitKeys(j) : h <= g
    PROVE  IsCanonical(Answer(j, h))
<1>1. h \in 0 .. Placements(j) - 1 /\ Cell(j, h) \in hits[j]
    BY DEF HitKeys, IsHit
<1>2. ASSUME NEW q \in hits[j] PROVE RowMajorBefore(Cell(j, h), q)
    <2>1. PICK g \in HitKeys(j) : Cell(j, g) = q
        BY EveryHitHasAKey
    <2>2. g \in 0 .. Placements(j) - 1 /\ h <= g
        BY DEF HitKeys
    <2> QED
        BY <1>1, <2>1, <2>2, KeysInRowMajorOrder
<1> QED
    BY <1>1, <1>2 DEF IsCanonical, Answer

\* The contract leaves a backend no choice: any two answers that keep it are
\* equal, which is what --verify and the equivalence tests compare.
THEOREM CanonicalMatchIsUnique ==
    ASSUME ValidProblem, NEW a, NEW b, IsCanonical(a), IsCanonical(b)
    PROVE  a = b
<1>1. CASE a = NoMatch \/ b = NoMatch
    <2>1. ASSUME NEW i \in Objects, NEW p PROVE MatchAt(i, p) # NoMatch
        <3>1. MatchAt(i, p).object = i /\ NoMatch.object = -1 /\ i >= 0
            BY ObjectsAssumption DEF MatchAt, NoMatch, Objects
        <3> QED
            BY <3>1, ObjectsAssumption DEF Objects
    <2> QED
        BY <1>1, <2>1 DEF IsCanonical
<1>2. CASE a # NoMatch /\ b # NoMatch
    <2>1. PICK i \in Objects : \E p \in hits[i] :
              /\ \A l \in Objects : l < i => hits[l] = {}
              /\ \A q \in hits[i] : RowMajorBefore(p, q)
              /\ a = MatchAt(i, p)
        BY <1>2 DEF IsCanonical
    <2>2. PICK j \in Objects : \E p \in hits[j] :
              /\ \A l \in Objects : l < j => hits[l] = {}
              /\ \A q \in hits[j] : RowMajorBefore(p, q)
              /\ b = MatchAt(j, p)
        BY <1>2 DEF IsCanonical
    <2>3. i = j
        BY <2>1, <2>2, ObjectsAssumption DEF Objects
    <2>4. PICK p \in hits[i] : (\A q \in hits[i] : RowMajorBefore(p, q))
                               /\ a = MatchAt(i, p)
        BY <2>1
    <2>5. PICK q \in hits[i] : (\A r \in hits[i] : RowMajorBefore(q, r))
                               /\ b = MatchAt(i, q)
        BY <2>2, <2>3
    <2>6. RowMajorBefore(p, q) /\ RowMajorBefore(q, p)
        BY <2>4, <2>5
    <2>7. p \in (0 .. N - 1) \X (0 .. N - 1) /\ q \in (0 .. N - 1) \X (0 .. N - 1)
        BY <2>4, <2>5 DEF ValidProblem
    <2>8. p = q
        BY <2>6, <2>7, PictureAssumption DEF RowMajorBefore
    <2> QED
        BY <2>4, <2>5, <2>8
<1> QED
    BY <1>1, <1>2

=============================================================================
