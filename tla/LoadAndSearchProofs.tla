------------------------- MODULE LoadAndSearchProofs -------------------------
(***************************************************************************)
(* From the objects of an input to the line that is told: the insertion    *)
(* sort is stable and loses nothing, the scan of the sorted array keeps    *)
(* the determinism contract, and the line names the lowest id that occurs, *)
(* for every picture, number of objects and order of the input.  The other *)
(* parts are about where the objects come from: the reader accepts nothing *)
(* that is incomplete and leaves nothing behind, wherever it fails; and    *)
(* the lexer under it finds the tokens of the file.                        *)
(***************************************************************************)
EXTENDS LoadAndSearch, Parser, Lexer, FiniteSetTheorems, WellFoundedInduction, TLAPS

-----------------------------------------------------------------------------
(* The sort by itself *)

Size == Len(ids)
Object == [id : Ids, pos : 1 .. Size]

Types ==
    /\ Size \in 0 .. MaxCount
    /\ ids \in [1 .. Size -> Ids]
    /\ objects \in [1 .. Size -> Object]
    /\ pc \in {"outer", "inner", "done"}
    /\ i \in 2 .. Size + 1 \/ i = 2
    /\ j \in 0 .. Size \/ j = 1
    /\ pc = "inner" => /\ key \in Object
                       /\ i \in 2 .. Size /\ j \in 0 .. i - 1
    /\ pc = "done" => i > Size

\* The outer index has not reached this far: the objects beyond are where the
\* input has them, and those before it come from before it.
Untouched(from) ==
    \A a \in 1 .. Size : a >= from => objects[a] = Input(ids)[a]

\* In the outer loop the prefix is sorted, and it holds the objects of the
\* input's prefix, which is what makes ties fall right.
OuterOrder ==
    pc # "inner" =>
        /\ Untouched(i)
        /\ \A a \in 1 .. Size : a < i => objects[a].pos < i
        /\ \A a, b \in 1 .. Size : a < b /\ b < i => Before(objects[a], objects[b])

\* In the inner loop the hole at j + 1 splits the sorted prefix; all that has
\* been shifted up is greater than the key.
InnerOrder ==
    pc = "inner" =>
        /\ Untouched(i + 1)
        /\ key = Input(ids)[i]
        /\ \A a \in 1 .. Size : a <= i /\ a # j + 1 => objects[a].pos < i
        /\ \A a, b \in 1 .. Size :
               a < b /\ b <= i /\ a # j + 1 /\ b # j + 1 => Before(objects[a], objects[b])
        /\ \A b \in 1 .. Size : j + 1 < b /\ b <= i => key.id < objects[b].id

IInv == Types /\ NothingLost /\ OuterOrder /\ InnerOrder

-----------------------------------------------------------------------------

LEMMA ArrayHasInputSize == Types => Count = Size /\ DOMAIN objects = 1 .. Size
BY DEF Types, Count, Size

LEMMA InputEntries ==
    ASSUME Types
    PROVE  /\ DOMAIN Input(ids) = 1 .. Size
           /\ \A a \in 1 .. Size : /\ Input(ids)[a] \in Object
                                   /\ Input(ids)[a].pos = a
BY DEF Types, Input, Object

LEMMA InitIInv == Init => IInv
<1> SUFFICES ASSUME Init PROVE IInv
    OBVIOUS
<1>1. PICK n \in 0 .. MaxCount : ids \in [1 .. n -> Ids]
    BY DEF Init
<1>2. Size = n
    BY <1>1, CountAssumption DEF Size
<1>3. objects \in [1 .. Size -> Object]
    BY <1>1, <1>2 DEF Init, Input, Object
<1>4. Types
    BY <1>1, <1>2, <1>3, CountAssumption DEF Types, Init
<1>5. NothingLost
    BY DEF NothingLost, Init
<1>6. OuterOrder /\ InnerOrder
    BY <1>2, <1>4, InputEntries, CountAssumption
    DEF OuterOrder, InnerOrder, Untouched, Init, Types
<1> QED
    BY <1>4, <1>5, <1>6 DEF IInv

LEMMA TakeKeyIInv == IInv /\ TakeKey => IInv'
<1> SUFFICES ASSUME IInv, TakeKey PROVE IInv'
    OBVIOUS
<1>1. Types /\ Types' /\ Count = Size /\ Size' = Size /\ i \in 2 .. Size
    <2>1. Types /\ Count = Size /\ i \in 2 .. Size
        BY ArrayHasInputSize, CountAssumption DEF IInv, Types, TakeKey
    <2> QED
        BY <2>1, CountAssumption DEF Types, TakeKey, Size, Object
<1>2. objects[i] = Input(ids)[i]
    BY <1>1 DEF IInv, OuterOrder, Untouched, TakeKey
<1>3. NothingLost'
    <2>1. [objects EXCEPT ![i] = objects[i]] = objects
        BY <1>1 DEF Types
    <2>2. j' + 1 = i /\ key' = objects[i] /\ objects' = objects /\ ids' = ids
          /\ pc' = "inner" /\ pc = "outer"
        BY <1>1 DEF TakeKey
    <2> QED
        BY <2>1, <2>2 DEF IInv, NothingLost
<1>4. InnerOrder'
    BY <1>1, <1>2, CountAssumption
    DEF IInv, Types, OuterOrder, InnerOrder, Untouched, TakeKey, Size
<1>5. OuterOrder'
    BY DEF OuterOrder, TakeKey
<1> QED
    BY <1>1, <1>3, <1>4, <1>5 DEF IInv

LEMMA ShiftUpIInv == IInv /\ ShiftUp => IInv'
<1> SUFFICES ASSUME IInv, ShiftUp PROVE IInv'
    OBVIOUS
<1> DEFINE old == [objects EXCEPT ![j + 1] = key]
           new == [objects' EXCEPT ![j] = key]
<1>1. /\ Types /\ Size' = Size /\ Size \in Nat
      /\ i \in 2 .. Size /\ j \in 1 .. i - 1 /\ j + 1 \in 1 .. Size
      /\ j \in 1 .. Size
    BY CountAssumption DEF IInv, Types, ShiftUp, InArray, Size
<1>2. /\ objects' = [objects EXCEPT ![j + 1] = objects[j]]
      /\ j' = j - 1 /\ UNCHANGED <<ids, i, key, pc>> /\ pc = "inner"
      /\ objects[j].id > key.id
    BY DEF ShiftUp, Greater
<1>3. Types'
    <2>1. objects' \in [1 .. Size -> Object]
        BY <1>1, <1>2 DEF Types
    <2> QED
        BY <1>1, <1>2, <2>1 DEF Types, Size, Object
<1>4. NothingLost'
    <2>1. old \in [1 .. Size -> Object] /\ new \in [1 .. Size -> Object]
        BY <1>1, <1>2, <1>3 DEF Types
    <2>2. /\ new[j] = old[j + 1] /\ new[j + 1] = old[j]
          /\ \A a \in 1 .. Size : a # j /\ a # j + 1 => new[a] = old[a]
        BY <1>1, <1>2 DEF Types
    <2>3. Elements(new) = Elements(old)
        BY <1>1, <2>1, <2>2 DEF Elements
    <2>4. Elements(old) = Elements(Input(ids))
        BY <1>2 DEF IInv, NothingLost
    <2>5. j' + 1 = j
        BY <1>1, <1>2
    <2> QED
        BY <1>2, <2>3, <2>4, <2>5 DEF NothingLost
<1>5. \A a \in 1 .. Size : objects'[a] = IF a = j + 1 THEN objects[j] ELSE objects[a]
    BY <1>1, <1>2 DEF Types
<1>6. InnerOrder'
    <2>1. Untouched(i + 1)' /\ key' = Input(ids')[i']
        BY <1>1, <1>2, <1>5 DEF IInv, InnerOrder, Untouched
    <2>2. \A a \in 1 .. Size : a <= i /\ a # j => objects'[a].pos < i
        BY <1>1, <1>2, <1>5 DEF IInv, InnerOrder
    <2>3. \A a, b \in 1 .. Size : a < b /\ b <= i /\ a # j /\ b # j =>
              Before(objects'[a], objects'[b])
        BY <1>1, <1>2, <1>5 DEF IInv, InnerOrder
    <2>4. \A b \in 1 .. Size : j < b /\ b <= i => key.id < objects'[b].id
        BY <1>1, <1>2, <1>5 DEF IInv, InnerOrder
    <2>5. j' + 1 = j
        BY <1>1, <1>2
    <2> QED
        BY <1>1, <1>2, <2>1, <2>2, <2>3, <2>4, <2>5 DEF InnerOrder
<1>7. OuterOrder'
    BY <1>2 DEF OuterOrder
<1> QED
    BY <1>3, <1>4, <1>6, <1>7 DEF IInv

LEMMA InsertIInv == IInv /\ Insert => IInv'
<1> SUFFICES ASSUME IInv, Insert PROVE IInv'
    OBVIOUS
<1>1. /\ Types /\ Size' = Size /\ Size \in Nat
      /\ i \in 2 .. Size /\ j \in 0 .. i - 1 /\ j + 1 \in 1 .. Size
    BY CountAssumption DEF IInv, Types, Insert, Size
<1>2. /\ objects' = [objects EXCEPT ![j + 1] = key]
      /\ i' = i + 1 /\ UNCHANGED <<ids, j, key>> /\ pc = "inner" /\ pc' = "outer"
      /\ j >= 1 => objects[j].id <= key.id
    <2>1. j >= 1 => ~(objects[j].id > key.id)
        BY DEF Insert, InArray, Greater
    <2>2. j >= 1 => objects[j] \in Object
        <3>1. j >= 1 => j \in 1 .. Size
            BY <1>1
        <3> QED
            BY <1>1, <3>1 DEF Types
    <2>3. key \in Object
        BY <1>1 DEF Types, Insert
    <2>4. j >= 1 => objects[j].id \in Int /\ key.id \in Int
        BY <2>2, <2>3, IdsAssumption DEF Object
    <2> QED
        BY <1>1, <2>1, <2>4 DEF Insert, Hole, NextIndex
<1>3. Types'
    <2>1. objects' \in [1 .. Size -> Object]
        BY <1>1, <1>2 DEF Types
    <2> QED
        BY <1>1, <1>2, <2>1 DEF Types, Size, Object
<1>4. NothingLost'
    BY <1>2 DEF IInv, NothingLost
<1>5. \A a \in 1 .. Size : objects'[a] = IF a = j + 1 THEN key ELSE objects[a]
    BY <1>1, <1>2 DEF Types
<1>6. key = Input(ids)[i] /\ key.pos = i
    BY <1>1, <1>2, InputEntries DEF IInv, InnerOrder
<1>7. OuterOrder'
    <2>1. Untouched(i)'
        BY <1>1, <1>2, <1>5 DEF IInv, InnerOrder, Untouched
    <2>2. \A a \in 1 .. Size : a < i + 1 => objects'[a].pos < i + 1
        <3>1. \A a \in 1 .. Size : a <= i /\ a # j + 1 => objects[a].pos < i
            BY <1>2 DEF IInv, InnerOrder
        <3>2. \A a \in 1 .. Size : objects[a].pos \in Int
            BY <1>1 DEF Types, Object
        <3> QED
            BY <1>1, <1>5, <1>6, <3>1, <3>2
    <2>3. ASSUME NEW a \in 1 .. Size, NEW b \in 1 .. Size, a < b, b < i + 1
          PROVE  Before(objects'[a], objects'[b])
        <3>1. CASE a # j + 1 /\ b # j + 1
            BY <1>1, <1>2, <1>5, <2>3, <3>1 DEF IInv, InnerOrder
        <3>2. CASE a = j + 1
            BY <1>1, <1>2, <1>5, <2>3, <3>2 DEF IInv, InnerOrder, Before
        <3>3. CASE b = j + 1
            <4>1. a <= j /\ j >= 1 /\ j \in 1 .. Size /\ a # j + 1 /\ j # j + 1 /\ j <= i
                BY <1>1, <2>3, <3>3
            <4>2. objects[a].id <= objects[j].id
                <5>1. a # j => Before(objects[a], objects[j])
                    BY <1>1, <1>2, <4>1 DEF IInv, InnerOrder
                <5>2. objects[a].id \in Int /\ objects[j].id \in Int
                    BY <1>1, <4>1, IdsAssumption DEF Types, Object
                <5> QED
                    BY <5>1, <5>2 DEF Before
            <4>3. objects[a].id <= key.id
                <5>1. /\ objects[a].id \in Int /\ objects[j].id \in Int
                      /\ key.id \in Int
                    BY <1>1, <1>2, <4>1, IdsAssumption DEF Types, Object
                <5> QED
                    BY <1>2, <4>1, <4>2, <5>1
            <4>4. objects[a].pos < key.pos
                BY <1>1, <1>2, <1>6, <2>3, <4>1 DEF IInv, InnerOrder
            <4>5. objects[a].id \in Int /\ key.id \in Int
                BY <1>1, <1>2, IdsAssumption DEF Types, Object
            <4> QED
                BY <1>5, <2>3, <3>3, <4>1, <4>3, <4>4, <4>5 DEF Before
        <3> QED
            BY <3>1, <3>2, <3>3
    <2>4. \A a, b \in 1 .. Size : a < b /\ b < i + 1 =>
              Before(objects'[a], objects'[b])
        BY <2>3
    <2>5. i' = i + 1 /\ Size' = Size
        BY <1>1, <1>2
    <2> QED
        BY <2>1, <2>2, <2>4, <2>5 DEF OuterOrder
<1>8. InnerOrder'
    BY <1>2 DEF InnerOrder
<1> QED
    BY <1>3, <1>4, <1>7, <1>8 DEF IInv

LEMMA StepIInv == IInv /\ [Next]_vars => IInv'
<1> SUFFICES ASSUME IInv, [Next]_vars PROVE IInv'
    OBVIOUS
<1>1. CASE Finish
    <2>1. Count = Size
        BY ArrayHasInputSize DEF IInv
    <2> QED
        BY <1>1, <2>1 DEF Finish, IInv, Types, NothingLost, OuterOrder, InnerOrder,
           Untouched, Size, Object
<1>2. CASE UNCHANGED vars
    BY <1>2 DEF vars, IInv, Types, NothingLost, OuterOrder, InnerOrder, Untouched,
       Size, Object
<1> QED
    BY <1>1, <1>2, TakeKeyIInv, ShiftUpIInv, InsertIInv DEF Next, Sort, Sorted

\* The invariant of both loops, from which the rest follows.
THEOREM Invariance == Spec => []IInv
BY InitIInv, StepIInv, PTL DEF Spec

\* No object is lost or doubled, in the middle of a shift included.
THEOREM ShiftsLoseNothing == Spec => []NothingLost
<1>1. IInv => NothingLost
    BY DEF IInv
<1> QED
    BY <1>1, Invariance, PTL

LEMMA SortedIsStable == IInv => SortedStably
<1> SUFFICES ASSUME IInv, pc = "done"
             PROVE  InOrder(objects) /\ Elements(objects) = Elements(Input(ids))
    BY DEF SortedStably
<1>1. DOMAIN objects = 1 .. Size /\ i > Size /\ i \in Int /\ Size \in Int
    BY ArrayHasInputSize, CountAssumption DEF IInv, Types
<1>2. InOrder(objects)
    BY <1>1 DEF IInv, OuterOrder, InOrder
<1>3. Elements(objects) = Elements(Input(ids))
    BY DEF IInv, NothingLost
<1> QED
    BY <1>2, <1>3

\* The caller gets the objects of the input in the order of the determinism
\* contract, ties in input order, whatever the ids and their number.
THEOREM SortIsStable == Spec => []SortedStably
BY SortedIsStable, Invariance, PTL

-----------------------------------------------------------------------------
(* The scan of the sorted array *)

\* The facts about placement keys, of the objects in their sorted order.
Keys == INSTANCE SearchProblemProofs WITH
    m <- [o \in 0 .. K - 1 |-> side[objects[o + 1].pos]],
    hits <- [o \in 0 .. K - 1 |-> cells[objects[o + 1].pos]]

LEMMA SidesAreNumbers == N \in Nat /\ MaxM \in Nat
<1>1. Serial!MaxSide \in Nat
    BY DEF Serial!MaxSide
<1> QED
    BY <1>1, PictureAssumption, SidesAssumption

\* What LoadInit says of the input, and no step changes.
Inputs ==
    /\ Size = K
    /\ side \in [1 .. K -> 1 .. MaxM]
    /\ cells \in [1 .. K -> SUBSET ((0 .. N - 1) \X (0 .. N - 1))]
    /\ \A n \in 1 .. K : cells[n] \subseteq (0 .. N - side[n]) \X (0 .. N - side[n])

\* Nothing is searched before all is sorted.
SearchIsYetToCome ==
    pc # "done" =>
        /\ k = 0 /\ placement = 0
        /\ out = Serial!NoMatch /\ returned = "no" /\ line = Unwritten

\* No object before the k-th occurs, and of the k-th no placement before the
\* current one matches; what is returned is canonical.
Scanned ==
    /\ k \in 0 .. K /\ placement \in Nat
    /\ \A o \in Serial!Objects : o < k => cells[objects[o + 1].pos] = {}
    /\ k < K => \A h \in Serial!HitKeys(k) : placement <= h
    /\ \/ returned = "no" /\ out = Serial!NoMatch
       \/ returned = "OK" /\ Serial!IsCanonical(out)

\* What the line says is still what the answer says.
Told ==
    line # Unwritten =>
        /\ returned = "OK"
        /\ line = IF Found THEN <<"found Object", ObjectId, out.row, out.col>> ELSE NotFound

LoadInv ==
    /\ IInv
    /\ Inputs
    /\ SearchIsYetToCome
    /\ pc = "done" => Scanned
    /\ Told

\* The words of the scan and those of the facts about keys are the same.
LEMMA SameWords ==
    /\ Serial!ValidProblem = Keys!ValidProblem
    /\ Serial!Objects = Keys!Objects /\ Serial!Objects = 0 .. K - 1
    /\ \A o, h : /\ Serial!Placements(o) = Keys!Placements(o)
                 /\ Serial!IsHit(o, h) = Keys!IsHit(o, h)
                 /\ Serial!Answer(o, h) = Keys!Answer(o, h)
    /\ \A o : Serial!HitKeys(o) = Keys!HitKeys(o)
    /\ \A match : Serial!IsCanonical(match) = Keys!IsCanonical(match)
    /\ \A match : Serial!Contract!IsCanonical(match) = Keys!IsCanonical(match)
<1> USE DEF Serial!Objects, Keys!Objects, Serial!Contract!Objects,
        Serial!Span, Keys!Span
<1>1. Serial!ValidProblem = Keys!ValidProblem
    BY DEF Serial!ValidProblem, Keys!ValidProblem, Serial!Cells, Keys!Cells
<1>2. \A o : Serial!Placements(o) = Keys!Placements(o)
    BY DEF Serial!Placements, Keys!Placements
<1>3. \A o, h : Serial!IsHit(o, h) = Keys!IsHit(o, h)
    BY DEF Serial!IsHit, Keys!IsHit, Serial!Cell, Keys!Cell
<1>4. \A o, h : Serial!Answer(o, h) = Keys!Answer(o, h)
    BY DEF Serial!Answer, Keys!Answer, Serial!MatchAt, Keys!MatchAt,
       Serial!Cell, Keys!Cell
<1>5. \A o : Serial!HitKeys(o) = Keys!HitKeys(o)
    BY <1>2, <1>3 DEF Serial!HitKeys, Keys!HitKeys
<1>6. \A match : Serial!IsCanonical(match) = Keys!IsCanonical(match)
    BY DEF Serial!IsCanonical, Keys!IsCanonical, Serial!NoMatch, Keys!NoMatch,
       Serial!MatchAt, Keys!MatchAt, Serial!RowMajorBefore, Keys!RowMajorBefore
<1>7. \A match : Serial!Contract!IsCanonical(match) = Keys!IsCanonical(match)
    BY DEF Serial!Contract!IsCanonical, Keys!IsCanonical,
       Serial!Contract!NoMatch, Keys!NoMatch,
       Serial!Contract!MatchAt, Keys!MatchAt,
       Serial!Contract!RowMajorBefore, Keys!RowMajorBefore
<1> QED
    BY <1>1, <1>2, <1>3, <1>4, <1>5, <1>6, <1>7

\* The n-th object of the sorted array comes from some place of the input.
LEMMA SortedObjects ==
    ASSUME IInv, Inputs
    PROVE  /\ \A o \in 0 .. K - 1 : objects[o + 1] \in Object
           /\ \A o \in 0 .. K - 1 : objects[o + 1].pos \in 1 .. K
           /\ DOMAIN objects = 1 .. K
<1>1. objects \in [1 .. K -> Object] /\ K \in Nat /\ Size = K
    BY CountAssumption DEF IInv, Types, Inputs, K
<1>2. \A o \in 0 .. K - 1 : o + 1 \in 1 .. K
    BY <1>1
<1>3. \A o \in 0 .. K - 1 : objects[o + 1] \in Object
    BY <1>1, <1>2
<1> QED
    BY <1>1, <1>3 DEF Object

LEMMA ProblemIsValid ==
    ASSUME IInv, Inputs
    PROVE  Serial!ValidProblem
<1>1. Serial!Objects = 0 .. K - 1
    BY DEF Serial!Objects
<1>2. ASSUME NEW o \in 0 .. K - 1
      PROVE  /\ side[objects[o + 1].pos] \in 1 .. MaxM
             /\ cells[objects[o + 1].pos] \in SUBSET ((0 .. N - 1) \X (0 .. N - 1))
             /\ cells[objects[o + 1].pos] \subseteq Serial!Cells(o)
    <2>1. objects[o + 1].pos \in 1 .. K
        BY SortedObjects
    <2>2. side[objects[o + 1].pos] \in 1 .. MaxM
        BY <2>1 DEF Inputs
    <2>3. Serial!Span(o) = N - side[objects[o + 1].pos] + 1
        BY DEF Serial!Span
    <2>4. Serial!Span(o) - 1 = N - side[objects[o + 1].pos]
        BY <2>2, <2>3, SidesAreNumbers
    <2>5. Serial!Cells(o)
              = (0 .. N - side[objects[o + 1].pos]) \X (0 .. N - side[objects[o + 1].pos])
        BY <2>4 DEF Serial!Cells
    <2> QED
        BY <2>1, <2>2, <2>5 DEF Inputs
<1> QED
    BY <1>1, <1>2 DEF Serial!ValidProblem

\* The assumptions under which the facts about keys hold.
LEMMA AssumptionsOfKeys ==
    /\ N \in 1 .. Keys!MaxSide
    /\ K \in Nat /\ MaxM \in 1 .. Keys!MaxSide
<1>1. Keys!MaxSide = Serial!MaxSide
    BY DEF Keys!MaxSide, Serial!MaxSide
<1> QED
    BY <1>1, PictureAssumption, SidesAssumption, CountAssumption DEF K

\* The facts about keys that the scan rests on.
LEMMA KeysOfObject ==
    ASSUME IInv, Inputs, NEW o \in Serial!Objects
    PROVE  /\ Serial!Placements(o) \in Nat
           /\ \A h \in Serial!HitKeys(o) : h \in Nat /\ h < Serial!Placements(o)
           /\ Serial!HitKeys(o) = {} => cells[objects[o + 1].pos] = {}
<1>1. /\ Keys!ValidProblem /\ o \in Keys!Objects /\ o \in 0 .. K - 1
      /\ Keys!Objects = 0 .. K - 1
    BY SameWords, ProblemIsValid
<1>2. /\ N \in 1 .. Keys!MaxSide /\ K \in Nat /\ MaxM \in 1 .. Keys!MaxSide
    BY AssumptionsOfKeys
<1>3. /\ Keys!Placements(o) \in Nat
      /\ \A h \in Keys!HitKeys(o) : h \in Nat /\ h < Keys!Placements(o)
    BY <1>1, <1>2, Keys!KeyTypes
<1>4. Keys!HitKeys(o) = {} =>
          [n \in 0 .. K - 1 |-> cells[objects[n + 1].pos]][o] = {}
    BY <1>1, <1>2, Keys!NoKeysNoHits
<1> QED
    BY <1>1, <1>3, <1>4, SameWords

\* The least matching key of the first object that occurs is the answer.
LEMMA FirstHitIsCanonical ==
    ASSUME IInv, Inputs, NEW o \in Serial!Objects,
           \A l \in Serial!Objects : l < o => cells[objects[l + 1].pos] = {},
           NEW h \in Serial!HitKeys(o), \A g \in Serial!HitKeys(o) : h <= g
    PROVE  Serial!IsCanonical(Serial!Answer(o, h))
<1>1. /\ Keys!ValidProblem /\ o \in Keys!Objects /\ o \in 0 .. K - 1
      /\ Keys!Objects = 0 .. K - 1
      /\ h \in Keys!HitKeys(o) /\ \A g \in Keys!HitKeys(o) : h <= g
    BY SameWords, ProblemIsValid
<1>2. /\ N \in 1 .. Keys!MaxSide /\ K \in Nat /\ MaxM \in 1 .. Keys!MaxSide
    BY AssumptionsOfKeys
<1>3. \A l \in Keys!Objects : l < o =>
          [n \in 0 .. K - 1 |-> cells[objects[n + 1].pos]][l] = {}
    BY <1>1, SameWords
<1>4. Keys!IsCanonical(Keys!Answer(o, h))
    BY <1>1, <1>2, <1>3, Keys!LeastKeyIsCanonical
<1> QED
    BY <1>4, SameWords

-----------------------------------------------------------------------------
(* The invariant of the whole *)

LEMMA LoadInitInv == LoadInit => LoadInv
<1> SUFFICES ASSUME LoadInit PROVE LoadInv
    OBVIOUS
<1>1. IInv
    BY InitIInv DEF LoadInit
<1>2. /\ Size = K /\ K \in Nat
      /\ side \in [1 .. K -> 1 .. MaxM]
      /\ cells \in [1 .. K -> SUBSET ((0 .. N - 1) \X (0 .. N - 1))]
      /\ objects = Input(ids) /\ pc = "outer" /\ line = Unwritten
      /\ k = 0 /\ placement = 0 /\ out = Serial!NoMatch /\ returned = "no"
    BY CountAssumption DEF LoadInit, Init, Serial!Init, K, Size
<1>3. ASSUME NEW n \in 1 .. K
      PROVE  cells[n] \subseteq (0 .. N - side[n]) \X (0 .. N - side[n])
    <2>1. n - 1 \in 0 .. K - 1 /\ n - 1 \in Serial!Objects /\ n - 1 + 1 = n
        BY <1>2 DEF Serial!Objects
    <2>2. objects[n].pos = n
        BY <1>1, <1>2, InputEntries DEF IInv
    <2>3. /\ [o \in 0 .. K - 1 |-> cells[objects[o + 1].pos]][n - 1] = cells[n]
          /\ [o \in 0 .. K - 1 |-> side[objects[o + 1].pos]][n - 1] = side[n]
        BY <2>1, <2>2
    <2>4. cells[n] \subseteq Serial!Cells(n - 1)
        BY <2>1, <2>3 DEF LoadInit, Serial!Init, Serial!ValidProblem
    <2>5. Serial!Span(n - 1) - 1 = N - side[n]
        <3>1. side[n] \in Int /\ N \in Int
            BY <1>2, SidesAreNumbers
        <3> QED
            BY <2>3, <3>1 DEF Serial!Span
    <2> QED
        BY <2>4, <2>5 DEF Serial!Cells
<1> QED
    BY <1>1, <1>2, <1>3 DEF LoadInv, Inputs, SearchIsYetToCome, Told

LEMMA SortStepInv ==
    ASSUME LoadInv, SortStep
    PROVE  LoadInv'
<1>1. IInv'
    BY StepIInv DEF LoadInv, SortStep, Next
<1>2. Inputs' /\ K \in Nat
    <2>1. ids' = ids /\ UNCHANGED <<side, cells>>
        BY DEF SortStep, Sort, TakeKey, ShiftUp, Insert, Finish
    <2> QED
        BY <2>1, CountAssumption DEF LoadInv, Inputs, Size, K
<1>3. /\ k' = 0 /\ placement' = 0 /\ out' = Serial!NoMatch /\ returned' = "no"
      /\ line' = Unwritten
    <2>1. pc # "done"
        BY DEF SortStep, Sort, TakeKey, ShiftUp, Insert, Finish
    <2> QED
        BY <2>1 DEF LoadInv, SearchIsYetToCome, SortStep, searchVars
<1>4. Scanned'
    <2>1. \A h \in Serial!HitKeys(0)' : 0 <= h
        BY DEF Serial!HitKeys
    <2>2. \A o \in Serial!Objects : ~(o < 0)
        BY <1>2 DEF Serial!Objects
    <2> QED
        BY <1>2, <1>3, <2>1, <2>2 DEF Scanned, Serial!Objects
<1> QED
    BY <1>1, <1>2, <1>3, <1>4 DEF LoadInv, SearchIsYetToCome, Told

\* What a step of the scan leaves alone.
LEMMA ScanFrame ==
    ASSUME LoadInv, UNCHANGED <<sortVars, side, cells>>
    PROVE  /\ IInv' /\ Inputs'
           /\ UNCHANGED <<ids, objects, pc>>
           /\ \A o : /\ Serial!Placements(o)' = Serial!Placements(o)
                     /\ Serial!HitKeys(o)' = Serial!HitKeys(o)
           /\ \A match : Serial!IsCanonical(match)' = Serial!IsCanonical(match)
<1>1. IInv'
    BY StepIInv DEF LoadInv, sortVars, vars
<1> QED
    BY <1>1 DEF LoadInv, Inputs, sortVars, Size, Serial!Placements, Serial!HitKeys, Serial!IsHit,
       Serial!Cell, Serial!Span, Serial!IsCanonical

LEMMA NextObjectInv ==
    ASSUME LoadInv, pc = "done", UNCHANGED <<sortVars, side, cells, line>>,
           Serial!NextObject
    PROVE  Scanned'
<1>1. /\ returned = "no" /\ k < K /\ placement >= Serial!Placements(k)
      /\ k' = k + 1 /\ placement' = 0 /\ UNCHANGED <<out, returned>>
    BY DEF Serial!NextObject, Serial!ObjectExhausted, Serial!FollowingObject
<1>2. Scanned /\ k \in 0 .. K /\ K \in Nat /\ IInv /\ Inputs /\ UNCHANGED objects
    BY CountAssumption DEF LoadInv, Scanned, K, sortVars
<1>3. k \in Serial!Objects
    BY <1>1, <1>2 DEF Serial!Objects
<1>4. Serial!HitKeys(k) = {}
    <2> SUFFICES ASSUME NEW h \in Serial!HitKeys(k) PROVE FALSE
        OBVIOUS
    <2>1. h \in Nat /\ h < Serial!Placements(k) /\ Serial!Placements(k) \in Nat
        BY <1>2, <1>3, KeysOfObject
    <2>2. placement <= h /\ placement \in Nat
        BY <1>1, <1>2 DEF Scanned
    <2> QED
        BY <1>1, <2>1, <2>2
<1>5. cells[objects[k + 1].pos] = {}
    BY <1>2, <1>3, <1>4, KeysOfObject
<1>6. \A o \in Serial!Objects : o < k + 1 => cells[objects[o + 1].pos] = {}
    <2>1. \A o \in Serial!Objects : o < k + 1 => o < k \/ o = k
        BY <1>2 DEF Serial!Objects
    <2> QED
        BY <1>2, <1>5, <2>1 DEF Scanned
<1>7. \A h \in Serial!HitKeys(k)' : 0 <= h
    BY DEF Serial!HitKeys
<1>8. k + 1 \in 0 .. K
    BY <1>1, <1>2
<1>9. returned' = "no" /\ out' = Serial!NoMatch
    BY <1>1, <1>2 DEF Scanned
<1>10. UNCHANGED <<cells, objects>>
    BY <1>2
<1> QED
    BY <1>1, <1>6, <1>7, <1>8, <1>9, <1>10 DEF Scanned, Serial!Objects

LEMMA MissInv ==
    ASSUME LoadInv, pc = "done", UNCHANGED <<sortVars, side, cells, line>>,
           Serial!Miss
    PROVE  Scanned'
<1>1. /\ returned = "no" /\ k < K /\ ~Serial!IsHit(k, placement)
      /\ placement' = placement + 1 /\ UNCHANGED <<k, out, returned>>
    BY DEF Serial!Miss
<1>2. /\ Scanned /\ k \in 0 .. K /\ K \in Nat /\ placement \in Nat
      /\ IInv /\ Inputs /\ UNCHANGED objects
    BY CountAssumption DEF LoadInv, Scanned, K, sortVars
<1>3. k \in Serial!Objects
    BY <1>1, <1>2 DEF Serial!Objects
<1>4. ASSUME NEW h \in Serial!HitKeys(k) PROVE placement + 1 <= h
    <2>1. h \in Nat
        BY <1>2, <1>3, KeysOfObject
    <2>2. placement <= h /\ h # placement
        BY <1>1, <1>2 DEF Scanned, Serial!HitKeys
    <2> QED
        BY <1>2, <2>1, <2>2
<1>5. Serial!HitKeys(k)' = Serial!HitKeys(k)
    BY <1>1, ScanFrame
<1>6. returned' = "no" /\ out' = Serial!NoMatch
    BY <1>1, <1>2 DEF Scanned
<1>7. \A o \in Serial!Objects : o < k => cells[objects[o + 1].pos] = {}
    BY <1>2 DEF Scanned
<1>8. UNCHANGED <<cells, objects>>
    BY <1>2
<1>9. placement + 1 \in Nat
    BY <1>2
<1> QED
    BY <1>1, <1>2, <1>4, <1>5, <1>6, <1>7, <1>8, <1>9 DEF Scanned, Serial!Objects

\* The first hit of the scan is the canonical match.
LEMMA HitIsCanonical ==
    ASSUME LoadInv, pc = "done", Serial!Hit
    PROVE  /\ returned = "no" /\ returned' = "OK"
           /\ Serial!IsCanonical(out')
<1>1. /\ returned = "no" /\ k < K /\ Serial!IsHit(k, placement)
      /\ ~(placement >= Serial!Placements(k))
      /\ out' = Serial!Answer(k, placement) /\ returned' = "OK"
    BY DEF Serial!Hit, Serial!ObjectExhausted
<1>2. /\ Scanned /\ k \in 0 .. K /\ K \in Nat /\ placement \in Nat
      /\ IInv /\ Inputs
    BY CountAssumption DEF LoadInv, Scanned, K
<1>3. k \in Serial!Objects
    BY <1>1, <1>2 DEF Serial!Objects
<1>4. placement \in Serial!HitKeys(k)
    <2>1. Serial!Placements(k) \in Nat
        BY <1>2, <1>3, KeysOfObject
    <2>2. placement \in 0 .. Serial!Placements(k) - 1
        BY <1>1, <1>2, <2>1
    <2> QED
        BY <1>1, <2>2 DEF Serial!HitKeys
<1>5. \A g \in Serial!HitKeys(k) : placement <= g
    BY <1>1, <1>2 DEF Scanned
<1>6. \A l \in Serial!Objects : l < k => cells[objects[l + 1].pos] = {}
    BY <1>2 DEF Scanned
<1>7. Serial!IsCanonical(Serial!Answer(k, placement))
    BY <1>2, <1>3, <1>4, <1>5, <1>6, FirstHitIsCanonical
<1> QED
    BY <1>1, <1>7

\* So is its silence when no object is left.
LEMMA SilenceIsCanonical ==
    ASSUME LoadInv, pc = "done", Serial!NothingFound
    PROVE  /\ returned = "no" /\ returned' = "OK" /\ out' = out
           /\ Serial!IsCanonical(out)
<1>1. returned = "no" /\ k = K /\ returned' = "OK" /\ out' = out
    BY DEF Serial!NothingFound
<1>2. Scanned /\ K \in Nat
    BY CountAssumption DEF LoadInv, K
<1>3. out = Serial!NoMatch
    BY <1>1, <1>2 DEF Scanned
<1>4. \A o \in Serial!Objects : o < K
    BY <1>2 DEF Serial!Objects
<1>5. \A o \in Serial!Objects : [n \in 0 .. K - 1 |-> cells[objects[n + 1].pos]][o] = {}
    BY <1>1, <1>2, <1>4 DEF Scanned, Serial!Objects
<1> QED
    BY <1>1, <1>3, <1>5 DEF Serial!IsCanonical

LEMMA SearchStepInv ==
    ASSUME LoadInv, SearchStep
    PROVE  LoadInv'
<1>1. /\ pc = "done" /\ Serial!Next
      /\ UNCHANGED <<sortVars, side, cells, line>>
    BY DEF SearchStep
<1>2. IInv' /\ Inputs' /\ pc' = pc
    BY <1>1, ScanFrame
<1>3. returned = "no"
    BY <1>1 DEF Serial!Next, Serial!NextObject, Serial!Miss, Serial!Hit,
       Serial!NothingFound
<1>4. line' = Unwritten
    BY <1>1, <1>3 DEF LoadInv, Told
<1>5. Scanned'
    <2>1. CASE Serial!NextObject
        BY <1>1, <2>1, NextObjectInv
    <2>2. CASE Serial!Miss
        BY <1>1, <2>2, MissInv
    <2>3. CASE Serial!Hit \/ Serial!NothingFound
        <3>1. returned' = "OK" /\ Serial!IsCanonical(out')
            BY <1>1, <2>3, HitIsCanonical, SilenceIsCanonical
        <3>2. Serial!IsCanonical(out)'
            BY <1>1, <3>1, ScanFrame DEF LoadInv
        <3>3. UNCHANGED <<k, placement, cells, objects>>
            BY <1>1, <2>3, ScanFrame DEF Serial!Hit, Serial!NothingFound
        <3>4. \A o : Serial!HitKeys(o)' = Serial!HitKeys(o)
            BY <1>1, ScanFrame
        <3> QED
            BY <1>1, <3>1, <3>2, <3>3, <3>4 DEF LoadInv, Scanned, Serial!Objects
    <2> QED
        BY <1>1, <2>1, <2>2, <2>3 DEF Serial!Next
<1> QED
    BY <1>1, <1>2, <1>4, <1>5 DEF LoadInv, SearchIsYetToCome, Told

LEMMA WriteLineInv ==
    ASSUME LoadInv, WriteLine
    PROVE  LoadInv'
<1>1. /\ returned = "OK" /\ UNCHANGED <<sortVars, side, cells, searchVars>>
      /\ line' = IF Found THEN <<"found Object", ObjectId, out.row, out.col>> ELSE NotFound
    BY DEF WriteLine
<1>2. pc = "done"
    BY <1>1 DEF LoadInv, SearchIsYetToCome
<1>3. /\ IInv' /\ Inputs' /\ pc' = pc
      /\ UNCHANGED <<k, placement, out, returned, objects, cells>>
    BY <1>1, ScanFrame DEF searchVars
<1>4. Scanned'
    BY <1>1, <1>2, <1>3, ScanFrame DEF LoadInv, Scanned, Serial!Objects
<1>5. Told'
    BY <1>1, <1>3 DEF Told, Found, ObjectId
<1> QED
    BY <1>2, <1>3, <1>4, <1>5 DEF LoadInv, SearchIsYetToCome

LEMMA LoadStepInv == LoadInv /\ [LoadNext]_loadVars => LoadInv'
<1> SUFFICES ASSUME LoadInv, [LoadNext]_loadVars PROVE LoadInv'
    OBVIOUS
<1>1. CASE UNCHANGED loadVars
    <2>1. UNCHANGED <<sortVars, side, cells, searchVars, line>>
        BY <1>1 DEF loadVars, sortVars, searchVars
    <2>2. /\ IInv' /\ Inputs' /\ pc' = pc
          /\ UNCHANGED <<k, placement, out, returned, objects, cells, line>>
        BY <2>1, ScanFrame DEF searchVars
    <2>3. pc = "done" => Scanned'
        BY <2>1, <2>2, ScanFrame DEF LoadInv, Scanned, Serial!Objects
    <2>4. SearchIsYetToCome' /\ Told'
        BY <2>2 DEF LoadInv, SearchIsYetToCome, Told, Found, ObjectId
    <2> QED
        BY <2>2, <2>3, <2>4 DEF LoadInv
<1> QED
    BY <1>1, SortStepInv, SearchStepInv, WriteLineInv DEF LoadNext, Written

\* The sort, the scan and the line together keep what has been scanned, and
\* nothing is searched before all is sorted.
THEOREM LoadInvariance == LoadSpec => []LoadInv
BY LoadInitInv, LoadStepInv, PTL DEF LoadSpec

\* What the sort promises by itself, it keeps in the program.
THEOREM SortedBeforeSearch == LoadSpec => []SortedStably
<1>1. LoadInv => SortedStably
    BY SortedIsStable DEF LoadInv
<1> QED
    BY <1>1, LoadInvariance, PTL

\* The reference backend keeps the determinism contract that it defines for the
\* others: it answers once, with the canonical match of the picture.
THEOREM SerialIsTheReference == LoadSpec => SerialKeepsContract
<1>1. ASSUME LoadInv, [LoadNext]_loadVars
      PROVE  [pc = "done" => \/ Serial!Contract!Next
                             \/ UNCHANGED Serial!Contract!searchVars]_loadVars
    <2> SUFFICES ASSUME pc = "done", LoadNext
                 PROVE  \/ Serial!Contract!Next
                        \/ UNCHANGED Serial!Contract!searchVars
        BY <1>1
    <2>1. CASE SortStep
        BY <2>1 DEF SortStep, Sort, TakeKey, ShiftUp, Insert, Finish
    <2>2. CASE SearchStep
        <3>1. Serial!Next /\ UNCHANGED <<objects, side, cells>>
            BY <2>2 DEF SearchStep, sortVars
        <3>2. CASE Serial!NextObject \/ Serial!Miss
            BY <3>1, <3>2 DEF Serial!NextObject, Serial!Miss, Serial!Contract!searchVars
        <3>3. CASE Serial!Hit \/ Serial!NothingFound
            <4>1. returned = "no" /\ returned' = "OK" /\ Serial!IsCanonical(out')
                BY <1>1, <3>3, HitIsCanonical, SilenceIsCanonical
            <4>2. Serial!Contract!IsCanonical(out')
                BY <4>1, SameWords
            <4> QED
                BY <3>1, <4>1, <4>2
                DEF Serial!Contract!Next, Serial!Contract!Succeed, Serial!Contract!problem
        <3> QED
            BY <3>1, <3>2, <3>3 DEF Serial!Next
    <2>3. CASE WriteLine \/ Written
        BY <2>3 DEF WriteLine, Written, loadVars, sortVars, searchVars,
           Serial!Contract!searchVars
    <2> QED
        BY <2>1, <2>2, <2>3 DEF LoadNext
<1> QED
    BY <1>1, LoadInvariance, PTL DEF LoadSpec, SerialKeepsContract

-----------------------------------------------------------------------------
(* The line *)

\* An object of the input has a place in the sorted array, and the other way
\* round.
LEMMA PlacesInTheArray ==
    ASSUME IInv, Inputs, pc = "done"
    PROVE  /\ \A n \in 1 .. K : \E o \in 0 .. K - 1 : objects[o + 1] = Input(ids)[n]
           /\ \A o \in 0 .. K - 1 : objects[o + 1] = Input(ids)[objects[o + 1].pos]
           /\ \A n \in 1 .. K : Input(ids)[n].pos = n /\ Input(ids)[n].id = ids[n]
                                /\ ids[n] \in Int
<1>1. /\ DOMAIN objects = 1 .. K /\ DOMAIN Input(ids) = 1 .. K /\ K \in Nat
      /\ \A o \in 0 .. K - 1 : objects[o + 1].pos \in 1 .. K
    BY SortedObjects, InputEntries, CountAssumption DEF IInv, Inputs, K
<1>2. \A n \in 1 .. K : /\ Input(ids)[n].pos = n /\ Input(ids)[n].id = ids[n]
                        /\ ids[n] \in Int
    BY <1>1, IdsAssumption DEF IInv, Types, Inputs, Input
<1>3. \A n \in 1 .. K : \E o \in 0 .. K - 1 : objects[o + 1] = Input(ids)[n]
    <2> TAKE n \in 1 .. K
    <2>1. Input(ids)[n] \in Elements(objects)
        BY <1>1, SortedIsStable DEF SortedStably, Elements
    <2>2. PICK a \in 1 .. K : objects[a] = Input(ids)[n]
        BY <1>1, <2>1 DEF Elements
    <2>3. a - 1 \in 0 .. K - 1 /\ a - 1 + 1 = a
        BY <1>1
    <2> QED
        BY <2>2, <2>3
<1>4. ASSUME NEW o \in 0 .. K - 1
      PROVE  objects[o + 1] = Input(ids)[objects[o + 1].pos]
    <2>1. objects[o + 1] \in Elements(objects)
        BY <1>1 DEF Elements
    <2>2. PICK n \in 1 .. K : objects[o + 1] = Input(ids)[n]
        BY <1>1, <2>1, SortedIsStable DEF SortedStably, Elements
    <2> QED
        BY <1>2, <2>2
<1> QED
    BY <1>2, <1>3, <1>4

\* The canonical match is that of the winner: of the objects that occur, the
\* first in the order of the contract.
LEMMA FirstObjectWins ==
    ASSUME LoadInv, pc = "done",
           NEW o \in 0 .. K - 1, cells[objects[o + 1].pos] # {},
           \A l \in 0 .. K - 1 : l < o => cells[objects[l + 1].pos] = {}
    PROVE  /\ Winner = objects[o + 1].pos
           /\ Winner \in Occurring
           /\ objects[o + 1].id = ids[Winner]
<1> DEFINE w == objects[o + 1].pos
<1>1. IInv /\ Inputs /\ InOrder(objects) /\ Elements(objects) = Elements(Input(ids))
    BY SortedIsStable DEF LoadInv, SortedStably
<1>2. /\ w \in 1 .. K /\ w \in Occurring /\ objects[o + 1] = Input(ids)[w]
      /\ DOMAIN objects = 1 .. K /\ K \in Nat
    BY <1>1, SortedObjects, PlacesInTheArray, CountAssumption DEF Occurring, K
<1>3. ASSUME NEW n \in Occurring, n # w
      PROVE  Before(Input(ids)[w], Input(ids)[n])
    <2>1. n \in 1 .. K /\ cells[n] # {}
        BY DEF Occurring
    <2>2. PICK l \in 0 .. K - 1 : objects[l + 1] = Input(ids)[n]
        BY <1>1, <2>1, PlacesInTheArray
    <2>3. objects[l + 1].pos = n
        BY <1>1, <2>1, <2>2, PlacesInTheArray
    <2>4. o + 1 < l + 1
        <3>1. l # o /\ ~(l < o)
            BY <1>3, <2>1, <2>3
        <3> QED
            BY <1>2, <3>1
    <2>5. o + 1 \in DOMAIN objects /\ l + 1 \in DOMAIN objects
        BY <1>2
    <2> QED
        BY <1>1, <1>2, <2>2, <2>4, <2>5 DEF InOrder
<1>4. ASSUME NEW n \in Occurring,
             \A other \in Occurring \ {n} : Before(Input(ids)[n], Input(ids)[other])
      PROVE  n = w
    <2> SUFFICES ASSUME n # w PROVE FALSE
        OBVIOUS
    <2>1. Before(Input(ids)[n], Input(ids)[w]) /\ Before(Input(ids)[w], Input(ids)[n])
        BY <1>2, <1>3, <1>4
    <2>2. n \in 1 .. K
        BY DEF Occurring
    <2>3. /\ Input(ids)[n].pos = n /\ Input(ids)[n].id \in Int
          /\ Input(ids)[w].pos = w /\ Input(ids)[w].id \in Int
        BY <1>1, <1>2, <2>2, PlacesInTheArray
    <2> QED
        BY <1>2, <2>1, <2>2, <2>3 DEF Before
<1>5. Winner = w
    <2> HIDE DEF w
    <2> QED
        BY <1>2, <1>3, <1>4 DEF Winner
<1> QED
    BY <1>1, <1>2, <1>5, PlacesInTheArray

\* What is returned is the lowest id that occurs, of the first object of the
\* input that has it and occurs, at its first placement.
LEMMA AnswerIsWinner ==
    ASSUME LoadInv, returned = "OK"
    PROVE  IF Occurring = {} THEN out = Serial!NoMatch
           ELSE /\ Winner \in Occurring
                /\ ObjectId = ids[Winner]
                /\ <<out.row, out.col>> \in cells[Winner]
                /\ \A other \in cells[Winner] :
                       Serial!RowMajorBefore(<<out.row, out.col>>, other)
<1>1. pc = "done" /\ IInv /\ Inputs /\ Serial!IsCanonical(out)
    BY DEF LoadInv, SearchIsYetToCome, Scanned
<1>2. Serial!Objects = 0 .. K - 1
    BY SameWords
<1>3. CASE out = Serial!NoMatch /\ \A l \in 0 .. K - 1 : cells[objects[l + 1].pos] = {}
    <2>1. Occurring = {}
        <3> SUFFICES ASSUME NEW n \in 1 .. K PROVE cells[n] = {}
            BY DEF Occurring
        <3>1. PICK l \in 0 .. K - 1 : objects[l + 1] = Input(ids)[n]
            BY <1>1, PlacesInTheArray
        <3>2. objects[l + 1].pos = n
            BY <1>1, <3>1, PlacesInTheArray
        <3> QED
            BY <1>3, <3>2
    <2> QED
        BY <1>3, <2>1
<1>4. ASSUME NEW o \in 0 .. K - 1, NEW p \in cells[objects[o + 1].pos],
             \A l \in 0 .. K - 1 : l < o => cells[objects[l + 1].pos] = {},
             \A q \in cells[objects[o + 1].pos] : Serial!RowMajorBefore(p, q),
             out = Serial!MatchAt(o, p)
      PROVE  /\ Occurring # {} /\ Winner \in Occurring
             /\ ObjectId = ids[Winner]
             /\ <<out.row, out.col>> \in cells[Winner]
             /\ \A other \in cells[Winner] :
                    Serial!RowMajorBefore(<<out.row, out.col>>, other)
    <2>1. /\ Winner = objects[o + 1].pos /\ Winner \in Occurring
          /\ objects[o + 1].id = ids[Winner]
        BY <1>1, <1>4, FirstObjectWins
    <2>2. out.object = o /\ out.row = p[1] /\ out.col = p[2] /\ out # Serial!NoMatch
        <3>1. out.object = o /\ out.row = p[1] /\ out.col = p[2]
            BY <1>4 DEF Serial!MatchAt
        <3>2. Serial!NoMatch.object = -1 /\ o # -1
            BY CountAssumption DEF Serial!NoMatch, K
        <3> QED
            BY <3>1, <3>2
    <2>3. ObjectId = ids[Winner]
        BY <2>1, <2>2 DEF ObjectId
    <2>4. p = <<out.row, out.col>>
        <3>1. Winner \in 1 .. K /\ p \in cells[Winner]
            BY <2>1, <1>4 DEF Occurring
        <3>2. p \in (0 .. N - 1) \X (0 .. N - 1)
            BY <1>1, <3>1 DEF Inputs
        <3> QED
            BY <2>2, <3>2
    <2> QED
        BY <1>4, <2>1, <2>3, <2>4
<1>5. \/ out = Serial!NoMatch /\ \A l \in 0 .. K - 1 : cells[objects[l + 1].pos] = {}
      \/ \E o \in 0 .. K - 1 : \E p \in cells[objects[o + 1].pos] :
             /\ \A l \in 0 .. K - 1 : l < o => cells[objects[l + 1].pos] = {}
             /\ \A q \in cells[objects[o + 1].pos] : Serial!RowMajorBefore(p, q)
             /\ out = Serial!MatchAt(o, p)
    <2> DEFINE hitsOf == [n \in 0 .. K - 1 |-> cells[objects[n + 1].pos]]
    <2>1. \A l \in 0 .. K - 1 : hitsOf[l] = cells[objects[l + 1].pos]
        OBVIOUS
    <2>2. \/ out = Serial!NoMatch /\ \A l \in 0 .. K - 1 : hitsOf[l] = {}
          \/ \E o \in 0 .. K - 1 : \E p \in hitsOf[o] :
                 /\ \A l \in 0 .. K - 1 : l < o => hitsOf[l] = {}
                 /\ \A q \in hitsOf[o] : Serial!RowMajorBefore(p, q)
                 /\ out = Serial!MatchAt(o, p)
        BY <1>1, <1>2, Zenon DEF Serial!IsCanonical
    <2> HIDE DEF hitsOf
    <2> QED
        BY <2>1, <2>2
<1> QED
    BY <1>3, <1>4, <1>5

\* Whatever the order of the input, the backend answers with the lowest id that
\* occurs, of the objects that share it with the first in the input that occurs,
\* and with its first placement in row-major order.
THEOREM AnswerNamesLowestId == LoadSpec => []LowestIdAnswered
<1>1. LoadInv => LowestIdAnswered
    BY AnswerIsWinner DEF LowestIdAnswered
<1> QED
    BY <1>1, LoadInvariance, PTL

\* The object that should be named has an id that reads as "no match".
NegativeWins == Occurring # {} /\ ids[Winner] < 0

\* That answer is also what the line tells, unless the lowest id that occurs is
\* negative: msearch_match_found has nothing but the id to go by.  Nothing else
\* keeps the writer from naming it.
THEOREM LineNamesLowestId == LoadSpec => [](NegativeWins \/ LowestIdWins)
<1>1. LoadInv => NegativeWins \/ LowestIdWins
    <2> SUFFICES ASSUME LoadInv, ~NegativeWins, line # Unwritten
                 PROVE  IF Occurring = {} THEN line = NotFound
                        ELSE \E cell \in cells[Winner] :
                                 /\ line = <<"found Object", ids[Winner], cell[1], cell[2]>>
                                 /\ \A other \in cells[Winner] :
                                        Serial!RowMajorBefore(cell, other)
        BY DEF LowestIdWins
    <2>1. /\ pc = "done" /\ returned = "OK" /\ IInv /\ Inputs
          /\ line = IF Found THEN <<"found Object", ObjectId, out.row, out.col>> ELSE NotFound
        BY DEF LoadInv, SearchIsYetToCome, Told
    <2>2. CASE Occurring = {}
        <3>1. out = Serial!NoMatch
            BY <2>1, <2>2, AnswerIsWinner
        <3>2. ~Found
            BY <3>1 DEF Found, ObjectId
        <3> QED
            BY <2>1, <2>2, <3>2
    <2>3. CASE Occurring # {}
        <3>1. /\ ObjectId = ids[Winner] /\ <<out.row, out.col>> \in cells[Winner]
              /\ \A other \in cells[Winner] :
                     Serial!RowMajorBefore(<<out.row, out.col>>, other)
            BY <2>1, <2>3, AnswerIsWinner
        <3>2. ids[Winner] \in Int
            BY <2>1, <2>3, AnswerIsWinner, PlacesInTheArray DEF Occurring
        <3>3. Found
            BY <2>3, <3>1, <3>2 DEF NegativeWins, Found
        <3>4. line = <<"found Object", ids[Winner], out.row, out.col>>
            BY <2>1, <3>1, <3>3
        <3> DEFINE cell == <<out.row, out.col>>
        <3>5. cell[1] = out.row /\ cell[2] = out.col
            OBVIOUS
        <3> QED
            BY <2>3, <3>1, <3>4, <3>5
    <2> QED
        BY <2>2, <2>3
<1> QED
    BY <1>1, LoadInvariance, PTL

-----------------------------------------------------------------------------
(* Where the problem comes from: the reader, for every bound on the counts and *)
(* the sides and for all allocations that may fail.                            *)

ReaderSteps == {"threshold", "count", "id", "size", "element", "validate"}
ReadEntry == [id : Int, side : Int, filled : Nat, place : Nat]

ReaderTypes ==
    /\ readerPc \in ReaderSteps \cup {"fail", "returned", "crashed"}
    /\ kind \in Kinds /\ at \in Nat \ {0}
    /\ threshold \in {"unset", "positive", "not positive"}
    /\ num \in [Kinds -> Nat]
    /\ matrices \in [Kinds -> Seq(ReadEntry)]
    /\ heap \subseteq Kinds \X Nat
    /\ status \in {"OK", "PARSE", "INVALID", "NOMEM"}

\* The array of a kind is there, and the data of its first matrices.
HasData(w, last) ==
    /\ Len(matrices[w]) = num[w]
    /\ last \in 0 .. num[w]
    /\ {b \in heap : b[1] = w} = IF num[w] = 0 THEN {} ELSE {w} \X (0 .. last)

\* A matrix within the bounds that has been read to its last element.
FullMatrix(x) == x.side \in 1 .. LargestSide /\ x.filled = ElementsOf(x.side)
FullUpTo(w, last) == \A n \in 1 .. last : FullMatrix(matrices[w][n])

Complete(w) == HasData(w, num[w]) /\ FullUpTo(w, num[w])

Building ==
    readerPc \in ReaderSteps =>
        /\ status = "OK"
        /\ threshold = "unset" <=> readerPc = "threshold"
        /\ kind = "pictures" => num["objects"] = 0 /\ Complete("objects")
        /\ kind = "objects" => Complete("pictures")
        /\ readerPc = "threshold" => kind = "pictures"
        /\ readerPc \in {"threshold", "count"} => num[kind] = 0 /\ Complete(kind)
        /\ readerPc \in {"id", "size"} =>
               at <= num[kind] /\ HasData(kind, at - 1) /\ FullUpTo(kind, at - 1)
        /\ readerPc = "element" =>
               /\ at <= num[kind] /\ HasData(kind, at) /\ FullUpTo(kind, at - 1)
               /\ matrices[kind][at].side \in 1 .. LargestSide
               /\ matrices[kind][at].filled < ElementsOf(matrices[kind][at].side)
        /\ readerPc = "validate" => kind = "objects" /\ Complete("objects")

\* The pictures have been counted, and their array could not be allocated.
CountedInVain ==
    /\ "pictures" \in FaultSites
    /\ status = "NOMEM" /\ heap = {} /\ num["pictures"] > 0

GivenUp ==
    /\ readerPc \in {"fail", "crashed"} => status # "OK" /\ heap \subseteq Freed
    /\ readerPc = "fail" => FreeReadsArrays \/ CountedInVain
    /\ readerPc = "crashed" => CountedInVain

ReaderReturned ==
    readerPc = "returned" =>
        IF status = "OK"
          THEN /\ threshold = "positive"
               /\ Complete("pictures") /\ Complete("objects")
               /\ Ascending(matrices["objects"])
          ELSE heap = {} /\ num = [w \in Kinds |-> 0]

ReaderInv == ReaderTypes /\ Building /\ GivenUp /\ ReaderReturned

\* There are pictures and objects, and nothing else.
LEMMA TwoKinds == \A w : w \in Kinds <=> w = "pictures" \/ w = "objects"
BY DEF Kinds

\* A matrix that is allowed has an element at least.
LEMMA Squares ==
    ASSUME NEW n \in Nat
    PROVE  ElementsOf(n) \in Nat /\ (n > 0 => ElementsOf(n) > 0)
BY DEF ElementsOf

\* A blank array of n matrices.
LEMMA BlankArrays ==
    ASSUME NEW n \in Nat
    PROVE  BlankArray(n) \in Seq(ReadEntry) /\ Len(BlankArray(n)) = n
<1>1. \A w \in 1 .. n : Blank(w) \in ReadEntry
    BY DEF Blank, ReadEntry
<1>2. BlankArray(n) \in [1 .. n -> ReadEntry]
    BY <1>1 DEF BlankArray
<1> QED
    BY <1>2

\* msearch_read_problem_stream clears *out before it reads.
LEMMA ReaderStart == ReaderInit => ReaderInv
<1> SUFFICES ASSUME ReaderInit PROVE ReaderInv
    OBVIOUS
<1>1. ReaderTypes
    BY DEF ReaderInit, ReaderTypes, ReaderSteps, Kinds
<1>2. \A w \in Kinds : Complete(w) /\ num[w] = 0
    BY DEF ReaderInit, Complete, HasData, FullUpTo
<1>3. Building
    BY <1>2, TwoKinds DEF ReaderInit, Building, ReaderSteps
<1> QED
    BY <1>1, <1>3 DEF ReaderInv, GivenUp, ReaderReturned, ReaderInit

\* Whatever is being read, all blocks are within the counts of the matrices, and
\* clean-up finds the arrays that were counted.
LEMMA DataIsOwned ==
    ASSUME ReaderTypes, NEW P, NEW O, HasData("pictures", P), HasData("objects", O)
    PROVE  /\ heap \subseteq Freed
           /\ \A w \in Kinds : num[w] > 0 => <<w, 0>> \in heap
<1>1. ASSUME NEW w \in Kinds, NEW last, HasData(w, last)
      PROVE  /\ \A b \in heap : b[1] = w => b \in {<<w, 0>>} \cup {<<w, n>> : n \in 1 .. num[w]}
             /\ num[w] > 0 => <<w, 0>> \in heap
    <2>1. num[w] \in Nat /\ last \in 0 .. num[w]
          /\ {b \in heap : b[1] = w} = IF num[w] = 0 THEN {} ELSE {w} \X (0 .. last)
        BY <1>1 DEF HasData, ReaderTypes
    <2>2. ASSUME NEW b \in heap, b[1] = w
          PROVE  b \in {<<w, 0>>} \cup {<<w, n>> : n \in 1 .. num[w]}
        <3>1. b \in {w} \X (0 .. last)
            BY <2>1, <2>2
        <3>2. PICK n \in 0 .. last : b = <<w, n>>
            BY <3>1
        <3>3. n = 0 \/ n \in 1 .. num[w]
            BY <2>1, <3>2
        <3> QED
            BY <3>2, <3>3
    <2>3. ASSUME num[w] > 0 PROVE <<w, 0>> \in heap
        <3>1. <<w, 0>> \in {w} \X (0 .. last)
            BY <2>1
        <3> QED
            BY <2>1, <2>3, <3>1
    <2> QED
        BY <2>2, <2>3
<1>2. ASSUME NEW b \in heap PROVE b \in Freed
    <2>1. PICK w \in Kinds : b[1] = w
        BY DEF ReaderTypes
    <2>2. PICK last : HasData(w, last)
        BY TwoKinds
    <2>3. b \in {<<w, 0>>} \cup {<<w, n>> : n \in 1 .. num[w]}
        BY <1>1, <2>1, <2>2
    <2> QED
        BY <2>3 DEF Freed
<1>3. \A w \in Kinds : num[w] > 0 => <<w, 0>> \in heap
    BY <1>1, TwoKinds
<1> QED
    BY <1>2, <1>3

\* So it is at every step of the reading.
LEMMA WhatIsReadIsOwned ==
    ASSUME ReaderTypes, Building, readerPc \in ReaderSteps
    PROVE  /\ heap \subseteq Freed
           /\ \A w \in Kinds : num[w] > 0 => <<w, 0>> \in heap
<1>1. kind = "pictures" => \E P, O : HasData("pictures", P) /\ HasData("objects", O)
    BY DEF Building, ReaderSteps, Complete
<1>2. kind = "objects" => \E P, O : HasData("pictures", P) /\ HasData("objects", O)
    BY DEF Building, ReaderSteps, Complete
<1>3. \E P, O : HasData("pictures", P) /\ HasData("objects", O)
    BY <1>1, <1>2, TwoKinds DEF ReaderTypes
<1> QED
    BY <1>3, DataIsOwned

\* Giving up keeps all that has been allocated.
LEMMA GivesUp ==
    ASSUME ReaderInv, readerPc \in ReaderSteps,
           NEW s \in {"PARSE", "INVALID", "NOMEM"}, GotoFail(s),
           UNCHANGED <<kind, at, threshold, num, heap>>,
           matrices' \in [Kinds -> Seq(ReadEntry)]
    PROVE  ReaderInv'
<1>1. /\ heap \subseteq Freed
      /\ \A w \in Kinds : num[w] > 0 => <<w, 0>> \in heap
    BY WhatIsReadIsOwned DEF ReaderInv
<1>2. ReaderTypes'
    BY DEF ReaderInv, ReaderTypes, GotoFail
<1>3. readerPc' = "fail" /\ status' # "OK"
    BY DEF GotoFail
<1>4. heap' \subseteq Freed' /\ FreeReadsArrays'
    BY <1>1 DEF Freed, FreeReadsArrays
<1> QED
    BY <1>2, <1>3, <1>4 DEF ReaderInv, Building, ReaderSteps, GivenUp, ReaderReturned

\* What holds of the next values of kind and at.
LEMMA Primed ==
    ASSUME NEW w, w = kind', NEW last, last = at' - 1, HasData(w, last)', FullUpTo(w, last)'
    PROVE  HasData(kind, at - 1)' /\ FullUpTo(kind, at - 1)'
BY DEF HasData, FullUpTo

\* The matrices of a kind are not touched.
LEMMA OtherKind ==
    ASSUME NEW w \in Kinds, num'[w] = num[w], matrices'[w] = matrices[w],
           {b \in heap' : b[1] = w} = {b \in heap : b[1] = w}
    PROVE  /\ \A last : HasData(w, last) => HasData(w, last)'
           /\ \A last : FullUpTo(w, last) => FullUpTo(w, last)'
           /\ Complete(w) => Complete(w)'
<1>1. \A last : HasData(w, last) => HasData(w, last)'
    BY DEF HasData
<1>2. \A last : FullUpTo(w, last) => FullUpTo(w, last)'
    BY DEF FullUpTo, FullMatrix
<1> QED
    BY <1>1, <1>2 DEF Complete

\* No matrix is touched.
LEMMA SameOwned ==
    ASSUME UNCHANGED <<num, heap, matrices>>
    PROVE  /\ \A w, last : HasData(w, last) => HasData(w, last)'
           /\ \A w, last : FullUpTo(w, last) => FullUpTo(w, last)'
           /\ \A w : Complete(w) => Complete(w)'
<1>1. \A w, last : HasData(w, last) => HasData(w, last)'
    BY DEF HasData
<1>2. \A w, last : FullUpTo(w, last) => FullUpTo(w, last)'
    BY DEF FullUpTo, FullMatrix
<1> QED
    BY <1>1, <1>2 DEF Complete

\* The threshold is read before there is anything to own.
LEMMA ThresholdRead ==
    ASSUME ReaderInv, ReadThreshold
    PROVE  ReaderInv'
<1>1. ReaderTypes'
    BY DEF ReaderInv, ReaderTypes, ReadThreshold, ReaderSteps
<1>2. /\ readerPc = "threshold" /\ readerPc' = "count" /\ status' = status /\ kind' = kind
      /\ num' = num /\ threshold' # "unset"
      /\ UNCHANGED <<num, heap, matrices>>
    BY DEF ReadThreshold
<1>3. /\ status = "OK" /\ kind = "pictures" /\ num["objects"] = 0 /\ Complete("objects")
      /\ num["pictures"] = 0 /\ Complete("pictures")
    BY <1>2 DEF ReaderInv, Building, ReaderSteps
<1>4. Complete("objects")' /\ Complete("pictures")'
    BY <1>2, <1>3, SameOwned
<1>5. Building'
    BY <1>2, <1>3, <1>4 DEF Building
<1> QED
    BY <1>1, <1>2, <1>5 DEF ReaderInv, GivenUp, ReaderReturned

\* What is known when a count is read.
LEMMA BeforeCount ==
    ASSUME ReaderInv, readerPc = "count"
    PROVE  /\ status = "OK" /\ threshold # "unset" /\ kind \in Kinds
           /\ num[kind] = 0 /\ Complete(kind)
           /\ {b \in heap : b[1] = kind} = {}
           /\ kind = "pictures" => num["objects"] = 0 /\ Complete("objects")
           /\ kind = "objects" => Complete("pictures")
<1>1. /\ status = "OK" /\ threshold # "unset" /\ kind \in Kinds
      /\ num[kind] = 0 /\ Complete(kind)
      /\ kind = "pictures" => num["objects"] = 0 /\ Complete("objects")
      /\ kind = "objects" => Complete("pictures")
    BY DEF ReaderInv, ReaderTypes, Building, ReaderSteps
<1>2. {b \in heap : b[1] = kind} = {}
    BY <1>1 DEF Complete, HasData
<1> QED
    BY <1>1, <1>2

\* Reading a count allocates the array, or ends the kind when there is none.
LEMMA CountRead ==
    ASSUME ReaderInv, NEW n \in 0 .. MaxCount, ReadCount(n)
    PROVE  ReaderInv'
<1>1. /\ status = "OK" /\ threshold # "unset" /\ kind \in Kinds
      /\ num[kind] = 0 /\ Complete(kind)
      /\ {b \in heap : b[1] = kind} = {}
      /\ kind = "pictures" => num["objects"] = 0 /\ Complete("objects")
      /\ kind = "objects" => Complete("pictures")
    BY BeforeCount DEF ReadCount
<1>2. /\ n \in Nat /\ num \in [Kinds -> Nat] /\ matrices \in [Kinds -> Seq(ReadEntry)]
      /\ heap \subseteq Kinds \X Nat
    <2>1. n \in Nat
        BY CountAssumption, MaxSideAssumption
    <2> QED
        BY <2>1 DEF ReaderInv, ReaderTypes
<1>3. /\ num' = [num EXCEPT ![kind] = n]
      /\ matrices' = [matrices EXCEPT ![kind] = BlankArray(n)]
      /\ heap' = IF n > 0 THEN heap \cup {<<kind, 0>>} ELSE heap
      /\ at' = 1 /\ threshold' = threshold /\ status' = status
      /\ readerPc' = IF n > 0 THEN "id" ELSE AfterLast(kind)
      /\ kind' = IF n = 0 THEN "objects" ELSE kind
    BY DEF ReadCount
<1>4. ReaderTypes'
    <2>1. num' \in [Kinds -> Nat] /\ matrices' \in [Kinds -> Seq(ReadEntry)]
        BY <1>1, <1>2, <1>3, BlankArrays
    <2>2. heap' \subseteq Kinds \X Nat
        BY <1>1, <1>2, <1>3
    <2>3. readerPc' \in ReaderSteps /\ kind' \in Kinds /\ at' \in Nat \ {0}
        BY <1>1, <1>3, TwoKinds DEF ReaderSteps, AfterLast
    <2> QED
        BY <1>1, <1>3, <2>1, <2>2, <2>3 DEF ReaderInv, ReaderTypes
<1>5. \A l \in {kind} : HasData(l, 0)' /\ FullUpTo(l, 0)'
    <2>1. num'[kind] = n /\ matrices'[kind] = BlankArray(n)
        BY <1>1, <1>2, <1>3
    <2>2. {b \in heap' : b[1] = kind} = IF n = 0 THEN {} ELSE {<<kind, 0>>}
        BY <1>1, <1>2, <1>3
    <2>3. {<<kind, 0>>} = {kind} \X (0 .. 0)
        OBVIOUS
    <2>4. \A l \in {kind} : HasData(l, 0)'
        BY <1>2, <2>1, <2>2, <2>3, BlankArrays DEF HasData
    <2> QED
        BY <2>4 DEF FullUpTo
<1>6. ASSUME NEW w \in Kinds, w # kind, Complete(w) PROVE Complete(w)' /\ num'[w] = num[w]
    <2>1. num'[w] = num[w] /\ matrices'[w] = matrices[w]
        BY <1>2, <1>3, <1>6
    <2>2. {b \in heap' : b[1] = w} = {b \in heap : b[1] = w}
        BY <1>3, <1>6
    <2> QED
        BY <1>6, <2>1, <2>2, OtherKind
<1>7. num'[kind] = n
    BY <1>1, <1>2, <1>3
<1>8. CASE n > 0
    <2>1. readerPc' = "id" /\ kind' = kind /\ at' = 1 /\ 1 <= num'[kind]
        BY <1>2, <1>3, <1>7, <1>8
    <2>2. (kind = "pictures" => num'["objects"] = 0 /\ Complete("objects")')
          /\ (kind = "objects" => Complete("pictures")')
        BY <1>1, <1>6, TwoKinds
    <2>3. HasData(kind, at - 1)' /\ FullUpTo(kind, at - 1)'
        <3>1. at' - 1 = 0
            BY <2>1
        <3> QED
            BY <1>5, <2>1, <3>1, Primed
    <2>4. Building'
        BY <1>1, <1>3, <2>1, <2>2, <2>3 DEF Building
    <2> QED
        BY <1>4, <2>1, <2>4 DEF ReaderInv, GivenUp, ReaderReturned
<1>9. CASE n = 0
    <2>1. readerPc' = AfterLast(kind) /\ kind' = "objects"
        BY <1>3, <1>9
    <2>2. \A l \in {kind} : Complete(l)'
        <3>1. \A l \in {kind} : num'[l] = 0
            BY <1>7, <1>9
        <3> QED
            BY <1>5, <3>1 DEF Complete
    <2>3. Complete("pictures")' /\ Complete("objects")'
        BY <1>1, <1>6, <2>2, TwoKinds
    <2>4. kind = "pictures" => num'["objects"] = 0
        BY <1>1, <1>6, TwoKinds
    <2>5. readerPc' \in {"count", "validate"} /\ (readerPc' = "count" => num'["objects"] = 0)
        BY <1>1, <2>1, <2>4, TwoKinds DEF AfterLast
    <2>6. Building'
        BY <1>1, <1>3, <2>1, <2>3, <2>5 DEF Building
    <2> QED
        BY <1>4, <2>5, <2>6 DEF ReaderInv, GivenUp, ReaderReturned
<1> QED
    BY <1>2, <1>8, <1>9

\* What reading makes of an entry.
LEMMA EntryUpdates ==
    ASSUME NEW x \in ReadEntry, NEW n \in Nat
    PROVE  /\ [x EXCEPT !.side = n, !.filled = 0] \in ReadEntry
           /\ [x EXCEPT !.side = n, !.filled = 0].side = n
           /\ [x EXCEPT !.side = n, !.filled = 0].filled = 0
           /\ [x EXCEPT !.filled = @ + 1] \in ReadEntry
           /\ [x EXCEPT !.filled = @ + 1].side = x.side
           /\ [x EXCEPT !.filled = @ + 1].filled = x.filled + 1
<1>1. x = [id |-> x.id, side |-> x.side, filled |-> x.filled, place |-> x.place]
      /\ x.id \in Int /\ x.side \in Int /\ x.filled \in Nat /\ x.place \in Nat
    BY DEF ReadEntry
<1>2. \A m \in Nat : /\ [x EXCEPT !.filled = m] \in ReadEntry
                     /\ [x EXCEPT !.filled = m].side = x.side
                     /\ [x EXCEPT !.filled = m].filled = m
    BY <1>1 DEF ReadEntry
<1>3. x.filled + 1 \in Nat
    BY <1>1
<1>4. [x EXCEPT !.filled = @ + 1] = [x EXCEPT !.filled = x.filled + 1]
    OBVIOUS
<1> DEFINE y == [x EXCEPT !.side = n]
<1>5. y \in ReadEntry /\ y.side = n
    <2>1. n \in Int
        OBVIOUS
    <2> QED
        BY <1>1, <2>1 DEF ReadEntry
<1>6. [x EXCEPT !.side = n, !.filled = 0] = [y EXCEPT !.filled = 0]
    OBVIOUS
<1>7. [y EXCEPT !.filled = 0] \in ReadEntry /\ [y EXCEPT !.filled = 0].side = y.side
      /\ [y EXCEPT !.filled = 0].filled = 0
    <2> HIDE DEF y
    <2> QED
        BY <1>5 DEF ReadEntry
<1>8. /\ [x EXCEPT !.side = n, !.filled = 0] \in ReadEntry
      /\ [x EXCEPT !.side = n, !.filled = 0].side = n
      /\ [x EXCEPT !.side = n, !.filled = 0].filled = 0
    <2> HIDE DEF y
    <2> QED
        BY <1>5, <1>6, <1>7
<1> QED
    BY <1>2, <1>3, <1>4, <1>8

\* One entry of the array that is being read is written.
LEMMA EntryWritten ==
    ASSUME ReaderTypes, at <= Len(matrices[kind]), NEW e \in ReadEntry,
           matrices' = [matrices EXCEPT ![kind] = [matrices[kind] EXCEPT ![at] = e]]
    PROVE  /\ matrices' \in [Kinds -> Seq(ReadEntry)]
           /\ Len(matrices'[kind]) = Len(matrices[kind])
           /\ matrices'[kind][at] = e
           /\ \A n \in 1 .. at - 1 : matrices'[kind][n] = matrices[kind][n]
           /\ \A w \in Kinds : w # kind => matrices'[w] = matrices[w]
<1>1. /\ matrices \in [Kinds -> Seq(ReadEntry)] /\ kind \in Kinds /\ at \in Nat \ {0}
      /\ matrices[kind] \in Seq(ReadEntry)
    BY DEF ReaderTypes
<1> DEFINE new == [matrices[kind] EXCEPT ![at] = e]
<1>2. /\ new \in Seq(ReadEntry) /\ Len(new) = Len(matrices[kind]) /\ new[at] = e
      /\ \A n \in 1 .. at - 1 : new[n] = matrices[kind][n]
    <2>1. at \in 1 .. Len(matrices[kind])
        BY <1>1
    <2> QED
        BY <1>1, <2>1
<1>3. matrices' = [matrices EXCEPT ![kind] = new]
    OBVIOUS
<1> HIDE DEF new
<1> QED
    BY <1>1, <1>2, <1>3

\* What is known of the matrix that is being read.
LEMMA WithinMatrix ==
    ASSUME ReaderInv, readerPc \in {"id", "size", "element"}
    PROVE  /\ status = "OK" /\ threshold # "unset" /\ kind \in Kinds
           /\ at \in Nat \ {0} /\ at <= num[kind] /\ at <= Len(matrices[kind])
           /\ num[kind] \in Nat /\ num[kind] = Len(matrices[kind])
           /\ FullUpTo(kind, at - 1)
           /\ matrices[kind] \in Seq(ReadEntry) /\ matrices[kind][at] \in ReadEntry
           /\ kind = "pictures" => num["objects"] = 0 /\ Complete("objects")
           /\ kind = "objects" => Complete("pictures")
<1>1. /\ status = "OK" /\ threshold # "unset" /\ kind \in Kinds
      /\ at \in Nat \ {0} /\ at <= num[kind]
      /\ num[kind] \in Nat /\ num[kind] = Len(matrices[kind])
      /\ FullUpTo(kind, at - 1)
      /\ matrices[kind] \in Seq(ReadEntry)
      /\ kind = "pictures" => num["objects"] = 0 /\ Complete("objects")
      /\ kind = "objects" => Complete("pictures")
    BY DEF ReaderInv, ReaderTypes, Building, ReaderSteps, HasData
<1>2. at \in 1 .. Len(matrices[kind])
    BY <1>1
<1>3. matrices[kind][at] \in ReadEntry
    BY <1>1, <1>2
<1> QED
    BY <1>1, <1>2, <1>3

\* Reading on in one matrix, or giving it its data, leaves the rest alone.
LEMMA MatrixGoesOn ==
    ASSUME ReaderInv, readerPc \in {"id", "size", "element"},
           NEW e \in ReadEntry,
           matrices' = [matrices EXCEPT ![kind] = [matrices[kind] EXCEPT ![at] = e]],
           UNCHANGED <<kind, at, threshold, num, status>>,
           heap' \subseteq Kinds \X Nat,
           \A w \in Kinds : w # kind =>
               {b \in heap' : b[1] = w} = {b \in heap : b[1] = w},
           NEW last, HasData(kind, last)', last = IF readerPc' = "element" THEN at ELSE at - 1,
           readerPc' \in {"size", "element"},
           readerPc' = "element" => e.side \in 1 .. LargestSide /\ e.filled < ElementsOf(e.side)
    PROVE  ReaderInv'
<1>1. /\ status = "OK" /\ threshold # "unset" /\ kind \in Kinds
      /\ at \in Nat \ {0} /\ at <= num[kind] /\ at <= Len(matrices[kind])
      /\ FullUpTo(kind, at - 1)
      /\ kind = "pictures" => num["objects"] = 0 /\ Complete("objects")
      /\ kind = "objects" => Complete("pictures")
    BY WithinMatrix
<1>2. /\ matrices' \in [Kinds -> Seq(ReadEntry)]
      /\ matrices'[kind][at] = e
      /\ \A n \in 1 .. at - 1 : matrices'[kind][n] = matrices[kind][n]
      /\ \A w \in Kinds : w # kind => matrices'[w] = matrices[w]
    BY <1>1, EntryWritten DEF ReaderInv
<1>3. ReaderTypes'
    BY <1>2 DEF ReaderInv, ReaderTypes, ReaderSteps
<1>4. FullUpTo(kind, at - 1)'
    <2>1. kind' = kind /\ at' - 1 = at - 1
        OBVIOUS
    <2> QED
        BY <1>1, <1>2, <2>1 DEF FullUpTo, FullMatrix
<1>5. (kind = "pictures" => Complete("objects")') /\ (kind = "objects" => Complete("pictures")')
    BY <1>1, <1>2, OtherKind, TwoKinds
<1>6. readerPc' = "size" => HasData(kind, at - 1)'
    BY DEF HasData
<1>7. readerPc' = "element" => HasData(kind, at)'
    BY DEF HasData
<1>8. readerPc' = "element" =>
          /\ matrices'[kind'][at'].side \in 1 .. LargestSide
          /\ matrices'[kind'][at'].filled < ElementsOf(matrices'[kind'][at'].side)
    BY <1>2
<1>9. Building'
    BY <1>1, <1>4, <1>5, <1>6, <1>7, <1>8 DEF Building
<1> QED
    BY <1>3, <1>9 DEF ReaderInv, GivenUp, ReaderReturned

\* Reading an id changes neither size nor data.
LEMMA IdRead ==
    ASSUME ReaderInv, NEW id \in Ids, ReadId(id)
    PROVE  ReaderInv'
<1>1. /\ readerPc = "id" /\ readerPc' = "size"
      /\ matrices' = [matrices EXCEPT ![kind][at].id = id]
      /\ UNCHANGED <<kind, at, threshold, num, heap, status>>
    BY DEF ReadId
<1>2. matrices[kind][at] \in ReadEntry /\ at <= Len(matrices[kind])
    BY <1>1, WithinMatrix
<1> DEFINE e == [matrices[kind][at] EXCEPT !.id = id]
<1>3. e \in ReadEntry
    BY <1>2, IdsAssumption DEF ReadEntry
<1>4. matrices' = [matrices EXCEPT ![kind] = [matrices[kind] EXCEPT ![at] = e]]
    BY <1>1
<1>5. HasData(kind, at - 1)'
    <2>1. HasData(kind, at - 1)
        BY <1>1 DEF ReaderInv, Building, ReaderSteps
    <2>2. Len(matrices'[kind]) = Len(matrices[kind])
        BY <1>2, <1>3, <1>4, EntryWritten DEF ReaderInv
    <2> QED
        BY <1>1, <2>1, <2>2 DEF HasData
<1> HIDE DEF e
<1>6. heap' \subseteq Kinds \X Nat
    BY <1>1 DEF ReaderInv, ReaderTypes
<1>7. \A l \in {at - 1} : HasData(kind, l)'
    BY <1>1, <1>5 DEF HasData
<1> QED
    BY <1>1, <1>3, <1>4, <1>6, <1>7, MatrixGoesOn

\* Reading a size gives the matrix its data, which nobody has filled yet.
LEMMA SizeRead ==
    ASSUME ReaderInv, NEW n \in Sizes, ReadSize(n)
    PROVE  ReaderInv'
<1>1. /\ readerPc = "size" /\ readerPc' = "element" /\ n \in 1 .. LargestSide
      /\ matrices' = [matrices EXCEPT ![kind][at].side = n, ![kind][at].filled = 0]
      /\ heap' = heap \cup {<<kind, at>>}
      /\ UNCHANGED <<kind, at, threshold, num, status>>
    BY DEF ReadSize, SideAllowed
<1>2. /\ matrices[kind][at] \in ReadEntry /\ at <= Len(matrices[kind]) /\ kind \in Kinds
      /\ at \in Nat \ {0} /\ at <= num[kind] /\ num[kind] \in Nat
      /\ matrices[kind] \in Seq(ReadEntry) /\ n \in Nat /\ n > 0
    <2>1. n \in Nat /\ n > 0
        BY <1>1
    <2> QED
        BY <1>1, <2>1, WithinMatrix
<1> DEFINE e == [matrices[kind][at] EXCEPT !.side = n, !.filled = 0]
<1>3. e \in ReadEntry /\ e.side = n /\ e.filled = 0
    BY <1>2, EntryUpdates
<1>4. matrices' = [matrices EXCEPT ![kind] = [matrices[kind] EXCEPT ![at] = e]]
    <2>1. matrices \in [Kinds -> Seq(ReadEntry)]
        BY DEF ReaderInv, ReaderTypes
    <2>2. at \in 1 .. Len(matrices[kind])
        BY <1>2
    <2> QED
        BY <1>1, <1>2, <2>1, <2>2
<1> HIDE DEF e
<1>5. /\ {b \in heap' : b[1] = kind} = {b \in heap : b[1] = kind} \cup {<<kind, at>>}
      /\ \A w \in Kinds : w # kind => {b \in heap' : b[1] = w} = {b \in heap : b[1] = w}
      /\ heap' \subseteq Kinds \X Nat
    <2>1. heap \subseteq Kinds \X Nat
        BY DEF ReaderInv, ReaderTypes
    <2>2. <<kind, at>> \in Kinds \X Nat /\ <<kind, at>>[1] = kind
        BY <1>2
    <2> QED
        BY <1>1, <2>1, <2>2
<1>6. HasData(kind, at)'
    <2>1. HasData(kind, at - 1)
        BY <1>1 DEF ReaderInv, Building, ReaderSteps
    <2>2. Len(matrices'[kind]) = num[kind]
        BY <1>2, <1>3, <1>4, <2>1, EntryWritten DEF ReaderInv, HasData
    <2>3. {b \in heap : b[1] = kind} = {kind} \X (0 .. at - 1)
        BY <1>2, <2>1 DEF HasData
    <2>4. {kind} \X (0 .. at) = ({kind} \X (0 .. at - 1)) \cup {<<kind, at>>}
        <3>1. 0 .. at = (0 .. at - 1) \cup {at}
            BY <1>2
        <3> QED
            BY <3>1
    <2>5. num'[kind'] # 0 /\ at' \in 0 .. num'[kind'] /\ Len(matrices'[kind']) = num'[kind']
        BY <1>1, <1>2, <2>2
    <2>6. {b \in heap' : b[1] = kind'} = {kind'} \X (0 .. at')
        BY <1>1, <1>5, <2>3, <2>4
    <2> QED
        BY <2>5, <2>6 DEF HasData
<1>7. \A l \in {at} : HasData(kind, l)'
    BY <1>1, <1>6 DEF HasData
<1>8. e.filled < ElementsOf(e.side)
    BY <1>2, <1>3, Squares
<1> QED
    BY <1>1, <1>3, <1>4, <1>5, <1>7, <1>8, MatrixGoesOn

\* A size out of bounds, or data that cannot be allocated: the size stays
\* written, and msearch_problem_free does not look at it.
LEMMA MatrixRefusedStep ==
    ASSUME ReaderInv, NEW n \in Sizes, MatrixRefused(n)
    PROVE  ReaderInv'
<1>1. /\ readerPc = "size" /\ matrices' = [matrices EXCEPT ![kind][at].side = n]
      /\ \E s \in {"PARSE", "INVALID", "NOMEM"} : GotoFail(s)
      /\ UNCHANGED <<kind, at, threshold, num, heap>>
    BY DEF MatrixRefused
<1>2. /\ matrices[kind][at] \in ReadEntry /\ at <= Len(matrices[kind]) /\ kind \in Kinds
      /\ at \in Nat \ {0} /\ n \in Nat
    <2>1. n \in Nat
        BY CountAssumption, MaxSideAssumption DEF Sizes
    <2> QED
        BY <1>1, <2>1, WithinMatrix
<1> DEFINE e == [matrices[kind][at] EXCEPT !.side = n]
<1>3. e \in ReadEntry
    BY <1>2 DEF ReadEntry
<1>4. matrices' = [matrices EXCEPT ![kind] = [matrices[kind] EXCEPT ![at] = e]]
    BY <1>1
<1> HIDE DEF e
<1>5. matrices' \in [Kinds -> Seq(ReadEntry)]
    BY <1>2, <1>3, <1>4, EntryWritten DEF ReaderInv
<1>6. readerPc \in ReaderSteps
    BY <1>1 DEF ReaderSteps
<1> QED
    BY <1>1, <1>5, <1>6, GivesUp

\* Reading an element goes on within the matrix, to the next matrix, or past the
\* last one of its kind.
LEMMA ElementRead ==
    ASSUME ReaderInv, ReadElement
    PROVE  ReaderInv'
<1> DEFINE current == matrices[kind][at]
           last    == current.filled + 1 >= ElementsOf(current.side)
<1>1. /\ readerPc = "element"
      /\ matrices' = [matrices EXCEPT ![kind][at].filled = @ + 1]
      /\ UNCHANGED <<threshold, num, heap, status>>
      /\ ~last => UNCHANGED <<readerPc, kind, at>>
      /\ last /\ at < num[kind] => readerPc' = "id" /\ at' = at + 1 /\ kind' = kind
      /\ last /\ ~(at < num[kind]) =>
             readerPc' = AfterLast(kind) /\ kind' = "objects" /\ at' = at
    BY DEF ReadElement, NextMatrix
<1>2. /\ status = "OK" /\ threshold # "unset" /\ kind \in Kinds
      /\ at \in Nat \ {0} /\ at <= num[kind] /\ at <= Len(matrices[kind])
      /\ num[kind] \in Nat /\ num[kind] = Len(matrices[kind])
      /\ FullUpTo(kind, at - 1)
      /\ matrices[kind] \in Seq(ReadEntry) /\ current \in ReadEntry
      /\ kind = "pictures" => num["objects"] = 0 /\ Complete("objects")
      /\ kind = "objects" => Complete("pictures")
    BY <1>1, WithinMatrix
<1>3. /\ HasData(kind, at) /\ current.side \in 1 .. LargestSide
      /\ current.filled < ElementsOf(current.side)
      /\ current.side \in Nat /\ current.filled \in Nat /\ ElementsOf(current.side) \in Nat
    <2>1. HasData(kind, at) /\ current.side \in 1 .. LargestSide
          /\ current.filled < ElementsOf(current.side)
        BY <1>1 DEF ReaderInv, Building, ReaderSteps
    <2>2. current.side \in Nat /\ current.filled \in Nat
        BY <1>2, <2>1 DEF ReadEntry
    <2> QED
        BY <2>1, <2>2, Squares
<1> DEFINE e == [current EXCEPT !.filled = @ + 1]
<1>4. e \in ReadEntry /\ e.side = current.side /\ e.filled = current.filled + 1
    <2> HIDE DEF current
    <2> QED
        BY <1>2, <1>3, EntryUpdates
<1>5. matrices' = [matrices EXCEPT ![kind] = [matrices[kind] EXCEPT ![at] = e]]
    BY <1>1
<1> HIDE DEF e
<1>6. /\ matrices' \in [Kinds -> Seq(ReadEntry)]
      /\ Len(matrices'[kind]) = Len(matrices[kind])
      /\ matrices'[kind][at] = e
      /\ \A n \in 1 .. at - 1 : matrices'[kind][n] = matrices[kind][n]
      /\ \A w \in Kinds : w # kind => matrices'[w] = matrices[w]
    BY <1>2, <1>4, <1>5, EntryWritten DEF ReaderInv
<1>7. \A w \in {kind} : HasData(w, at)
    BY <1>3
<1>8. \A w \in {kind}, l \in {at} : HasData(w, l)'
    BY <1>1, <1>3, <1>6 DEF HasData
<1>9. heap' \subseteq Kinds \X Nat
    BY <1>1 DEF ReaderInv, ReaderTypes
<1>10. CASE ~last
    <2>1. readerPc' = "element" /\ UNCHANGED <<kind, at, threshold, num, status>>
        BY <1>1, <1>10
    <2>2. e.side \in 1 .. LargestSide /\ e.filled < ElementsOf(e.side)
        <3> HIDE DEF current
        <3>1. ~(current.filled + 1 >= ElementsOf(current.side))
            BY <1>10
        <3> QED
            BY <1>3, <1>4, <3>1
    <2>3. \A l \in {at} : HasData(kind, l)'
        BY <1>8, <2>1 DEF HasData
    <2> QED
        BY <1>1, <1>4, <1>5, <1>9, <2>1, <2>2, <2>3, MatrixGoesOn
<1>11. CASE last
    <2>1. e.side \in 1 .. LargestSide /\ e.filled = ElementsOf(e.side)
        <3> HIDE DEF current
        <3>1. current.filled + 1 >= ElementsOf(current.side)
            BY <1>11
        <3> QED
            BY <1>3, <1>4, <3>1
    <2>2. \A w \in {kind}, l \in {at} : FullUpTo(w, l)'
        <3>1. ASSUME NEW n \in 1 .. at PROVE FullMatrix(matrices'[kind][n])
            <4>1. CASE n = at
                BY <1>6, <2>1, <4>1 DEF FullMatrix
            <4>2. CASE n # at
                <5>1. n \in 1 .. at - 1
                    BY <1>2, <4>2
                <5> QED
                    BY <1>2, <1>6, <5>1 DEF FullUpTo
            <4> QED
                BY <4>1, <4>2
        <3> QED
            BY <3>1 DEF FullUpTo, FullMatrix
    <2>3. (kind = "pictures" => Complete("objects")' /\ num'["objects"] = 0)
          /\ (kind = "objects" => Complete("pictures")')
        BY <1>1, <1>2, <1>6, OtherKind, TwoKinds
    <2>4. CASE at < num[kind]
        <3>1. readerPc' = "id" /\ at' = at + 1 /\ kind' = kind
            BY <1>1, <1>11, <2>4
        <3>2. HasData(kind, at - 1)' /\ FullUpTo(kind, at - 1)'
            <4>1. at = at' - 1
                BY <1>2, <3>1
            <4> QED
                BY <1>8, <2>2, <3>1, <4>1, Primed
        <3>3. ReaderTypes'
            <4>1. at' \in Nat \ {0}
                BY <1>2, <3>1
            <4> QED
                BY <1>1, <1>6, <3>1, <4>1 DEF ReaderInv, ReaderTypes, ReaderSteps
        <3>4. at' <= num'[kind']
            BY <1>1, <1>2, <2>4, <3>1
        <3>5. Building'
            BY <1>1, <1>2, <2>3, <3>1, <3>2, <3>4 DEF Building
        <3> QED
            BY <3>1, <3>3, <3>5 DEF ReaderInv, GivenUp, ReaderReturned
    <2>5. CASE ~(at < num[kind])
        <3>1. readerPc' = AfterLast(kind) /\ at' = at /\ kind' = "objects" /\ at = num[kind]
            BY <1>1, <1>2, <1>11, <2>5
        <3>2. \A w \in {kind} : Complete(w)'
            <4>1. \A w \in {kind} : num'[w] = at
                BY <1>1, <3>1
            <4> QED
                BY <1>8, <2>2, <4>1 DEF Complete
        <3>3. Complete("pictures")' /\ Complete("objects")'
            BY <1>2, <2>3, <3>2, TwoKinds
        <3>4. readerPc' \in {"count", "validate"} /\ (readerPc' = "count" => num'["objects"] = 0)
            BY <1>2, <2>3, <3>1, TwoKinds DEF AfterLast
        <3>5. ReaderTypes'
            BY <1>1, <1>2, <1>6, <3>1, <3>4 DEF ReaderInv, ReaderTypes, ReaderSteps, Kinds
        <3>6. Building'
            BY <1>1, <1>2, <3>1, <3>3, <3>4 DEF Building
        <3> QED
            BY <3>4, <3>5, <3>6 DEF ReaderInv, GivenUp, ReaderReturned
    <2> QED
        BY <2>4, <2>5
<1> QED
    BY <1>10, <1>11

\* A token that is missing, no number or out of bounds gives up at once.
LEMMA ReadingStops ==
    ASSUME ReaderInv, Unreadable \/ CountRefused \/ ThresholdRefused
    PROVE  ReaderInv'
<1>1. /\ readerPc \in ReaderSteps /\ UNCHANGED <<kind, at, threshold, num, heap>>
      /\ matrices' = matrices
      /\ \E s \in {"PARSE", "INVALID", "NOMEM"} : GotoFail(s)
    BY DEF Unreadable, CountRefused, ThresholdRefused, ReaderSteps
<1>2. matrices' \in [Kinds -> Seq(ReadEntry)]
    BY <1>1 DEF ReaderInv, ReaderTypes
<1> QED
    BY <1>1, <1>2, GivesUp

\* The array of the pictures is the first block there is: when it cannot be
\* allocated there is nothing to free.
LEMMA ArrayRefused ==
    ASSUME ReaderInv, NEW n \in 0 .. MaxCount, ArrayAllocationFails(n)
    PROVE  ReaderInv'
<1>1. /\ readerPc = "count" /\ n > 0 /\ kind \in FaultSites
      /\ num' = [num EXCEPT ![kind] = IF kind \in {"pictures"} THEN n ELSE num[kind]]
      /\ GotoFail("NOMEM")
      /\ UNCHANGED <<kind, at, threshold, matrices, heap>>
    BY DEF ArrayAllocationFails, CountedBeforeAllocation
<1>2. /\ num \in [Kinds -> Nat] /\ kind \in Kinds
      /\ heap \subseteq Kinds \X Nat
      /\ matrices \in [Kinds -> Seq(ReadEntry)]
    BY DEF ReaderInv, ReaderTypes
<1>3. CASE kind = "objects"
    <2>1. num' = num
        BY <1>1, <1>2, <1>3
    <2>2. readerPc \in ReaderSteps /\ matrices' \in [Kinds -> Seq(ReadEntry)]
        BY <1>1, <1>2 DEF ReaderSteps
    <2> QED
        BY <1>1, <2>1, <2>2, GivesUp
<1>4. CASE kind = "pictures"
    <2>1. /\ {b \in heap : b[1] = "pictures"} = {}
          /\ num["objects"] = 0 /\ Complete("objects")
        BY <1>1, <1>4, BeforeCount
    <2>2. {b \in heap : b[1] = "objects"} = {}
        BY <2>1 DEF Complete, HasData
    <2>3. heap = {}
        BY <1>2, <2>1, <2>2, TwoKinds
    <2>4. n \in Nat
        BY CountAssumption, MaxSideAssumption
    <2>5. /\ num' \in [Kinds -> Nat] /\ num'["objects"] = 0
        BY <1>1, <1>2, <1>4, <2>1, <2>4, TwoKinds
    <2>6. readerPc' = "fail" /\ status' = "NOMEM" /\ heap' = {}
        BY <1>1, <2>3 DEF GotoFail
    <2>7. ReaderTypes'
        BY <1>1, <2>5, <2>6 DEF ReaderInv, ReaderTypes
    <2>8. CountedInVain'
        BY <1>1, <1>2, <1>4, <2>4, <2>6 DEF CountedInVain
    <2> QED
        BY <2>6, <2>7, <2>8 DEF ReaderInv, Building, ReaderSteps, GivenUp, ReaderReturned
<1> QED
    BY <1>2, <1>3, <1>4, TwoKinds

\* Sorting moves the entries of the objects but loses none and adds none.
LEMMA ArrangementKeeps ==
    ASSUME NEW array \in Seq(ReadEntry), NEW sorted \in Arrangements(array)
    PROVE  /\ sorted \in Seq(ReadEntry) /\ Len(sorted) = Len(array)
           /\ (\A n \in 1 .. Len(array) : FullMatrix(array[n])) =>
                  \A n \in 1 .. Len(array) : FullMatrix(sorted[n])
<1>1. Len(array) \in Nat /\ DOMAIN array = 1 .. Len(array)
      /\ \A n \in 1 .. Len(array) : array[n] \in ReadEntry
    OBVIOUS
<1>2. PICK p \in Bijection(1 .. Len(array), 1 .. Len(array)) :
          sorted = [n \in 1 .. Len(array) |-> array[p[n]]]
    BY <1>1 DEF Arrangements
<1>3. \A n \in 1 .. Len(array) : p[n] \in 1 .. Len(array)
    BY <1>2 DEF Bijection, Injection, Surjection
<1>4. sorted \in [1 .. Len(array) -> ReadEntry]
    BY <1>1, <1>2, <1>3
<1>5. sorted \in Seq(ReadEntry) /\ Len(sorted) = Len(array)
    BY <1>1, <1>4
<1>6. \A n \in 1 .. Len(array) : sorted[n] = array[p[n]]
    BY <1>2
<1> QED
    BY <1>3, <1>5, <1>6

\* Validation sorts what has been read to its last element.
LEMMA Validated ==
    ASSUME ReaderInv, Validate
    PROVE  ReaderInv'
<1>1. PICK sorted \in Arrangements(matrices["objects"]) :
          Ascending(sorted) /\ matrices' = [matrices EXCEPT !["objects"] = sorted]
    BY DEF Validate
<1>2. /\ readerPc = "validate" /\ threshold = "positive" /\ readerPc' = "returned"
      /\ UNCHANGED <<kind, at, threshold, num, heap, status>>
    BY DEF Validate
<1>3. /\ status = "OK" /\ kind = "objects" /\ Complete("pictures") /\ Complete("objects")
    BY <1>2 DEF ReaderInv, Building, ReaderSteps
<1>4. matrices \in [Kinds -> Seq(ReadEntry)] /\ matrices["objects"] \in Seq(ReadEntry)
    BY TwoKinds DEF ReaderInv, ReaderTypes
<1>5. /\ sorted \in Seq(ReadEntry) /\ Len(sorted) = Len(matrices["objects"])
      /\ (\A n \in 1 .. Len(matrices["objects"]) : FullMatrix(matrices["objects"][n])) =>
             \A n \in 1 .. Len(matrices["objects"]) : FullMatrix(sorted[n])
    BY <1>4, ArrangementKeeps
<1>6. /\ matrices' \in [Kinds -> Seq(ReadEntry)]
      /\ matrices'["objects"] = sorted /\ matrices'["pictures"] = matrices["pictures"]
    BY <1>1, <1>4, <1>5, TwoKinds
<1>7. ReaderTypes'
    BY <1>2, <1>6 DEF ReaderInv, ReaderTypes
<1>8. Complete("pictures")'
    <2>1. "pictures" \in Kinds
        BY TwoKinds
    <2> QED
        BY <1>2, <1>3, <1>6, <2>1, OtherKind
<1>9. Complete("objects")'
    <2>1. Len(matrices["objects"]) = num["objects"]
        BY <1>3 DEF Complete, HasData
    <2>2. HasData("objects", num["objects"])'
        BY <1>2, <1>3, <1>5, <1>6 DEF Complete, HasData
    <2>3. FullUpTo("objects", num["objects"])'
        BY <1>2, <1>3, <1>5, <1>6, <2>1 DEF Complete, FullUpTo, FullMatrix
    <2> QED
        BY <2>2, <2>3 DEF Complete
<1>10. Ascending(matrices["objects"])'
    BY <1>1, <1>6 DEF Ascending, SortsBefore
<1> QED
    BY <1>2, <1>3, <1>7, <1>8, <1>9, <1>10
       DEF ReaderInv, Building, ReaderSteps, GivenUp, ReaderReturned

\* msearch_problem_free leaves nothing of what has been allocated.
LEMMA AllFreed ==
    ASSUME ReaderInv, Free
    PROVE  ReaderInv'
<1>1. /\ readerPc = "fail" /\ readerPc' = "returned" /\ heap' = heap \ Freed
      /\ num' = [w \in Kinds |-> 0] /\ matrices' = [w \in Kinds |-> <<>>]
      /\ threshold' = "unset" /\ UNCHANGED <<kind, at, status>>
    BY DEF Free
<1>2. status # "OK" /\ heap \subseteq Freed
    BY <1>1 DEF ReaderInv, GivenUp
<1>3. heap' = {}
    BY <1>1, <1>2
<1>4. ReaderTypes'
    <2>1. num' \in [Kinds -> Nat] /\ matrices' \in [Kinds -> Seq(ReadEntry)]
        BY <1>1
    <2>2. heap' \subseteq Kinds \X Nat
        BY <1>3
    <2> QED
        BY <1>1, <2>1, <2>2 DEF ReaderInv, ReaderTypes
<1> QED
    BY <1>1, <1>2, <1>3, <1>4 DEF ReaderInv, Building, ReaderSteps, GivenUp, ReaderReturned

\* A crash in msearch_problem_free changes nothing that was owned.
LEMMA FreeingCrashes ==
    ASSUME ReaderInv, FreeCrashes
    PROVE  ReaderInv'
<1>1. readerPc = "fail" /\ readerPc' = "crashed" /\ ~FreeReadsArrays
      /\ UNCHANGED <<kind, at, threshold, num, matrices, heap, status>>
    BY DEF FreeCrashes
<1>2. ReaderTypes'
    BY <1>1 DEF ReaderInv, ReaderTypes
<1>3. status' # "OK" /\ heap' \subseteq Freed' /\ CountedInVain'
    BY <1>1 DEF ReaderInv, GivenUp, Freed, CountedInVain
<1> QED
    BY <1>1, <1>2, <1>3 DEF ReaderInv, Building, ReaderSteps, GivenUp, ReaderReturned

\* A reader that has returned stays as it is.
LEMMA ReaderStutters ==
    ASSUME ReaderInv, UNCHANGED readerVars
    PROVE  ReaderInv'
<1>1. UNCHANGED <<readerPc, kind, at, threshold, num, matrices, heap, status>>
    BY DEF readerVars
<1>2. ReaderTypes'
    BY <1>1 DEF ReaderInv, ReaderTypes
<1>3. Building'
    BY <1>1 DEF ReaderInv, Building, Complete, HasData, FullUpTo, FullMatrix
<1>4. GivenUp'
    BY <1>1 DEF ReaderInv, GivenUp, Freed, FreeReadsArrays, CountedInVain
<1>5. ReaderReturned'
    BY <1>1
       DEF ReaderInv, ReaderReturned, Complete, HasData, FullUpTo, FullMatrix,
           Ascending, SortsBefore
<1> QED
    BY <1>2, <1>3, <1>4, <1>5 DEF ReaderInv

\* What is allocated, counted and read fits together at every token of the file
\* and at every failure, for every bound on counts and sides.
THEOREM ReaderInvariant == ReaderSpec => []ReaderInv
<1>1. ReaderInv /\ [ReaderNext]_readerVars => ReaderInv'
    <2> SUFFICES ASSUME ReaderInv, [ReaderNext]_readerVars PROVE ReaderInv'
        OBVIOUS
    <2>1. CASE Proceed
        BY <2>1, ThresholdRead, ElementRead, Validated, ReadingStops, AllFreed, FreeingCrashes,
           CountRead, IdRead, SizeRead DEF Proceed
    <2>2. CASE Fails
        BY <2>2, ReadingStops, ArrayRefused, MatrixRefusedStep DEF Fails
    <2>3. CASE UNCHANGED readerVars
        BY <2>3, ReaderStutters
    <2> QED
        BY <2>1, <2>2, <2>3 DEF ReaderNext, Ended
<1> QED
    BY <1>1, ReaderStart, PTL DEF ReaderSpec

\* The one clean-up path of msearch_read_problem_stream frees every block there
\* is, wherever reading failed.
THEOREM ReaderLeaksNothing == ReaderSpec => []NothingLeaks
<1>1. ReaderInv => NothingLeaks
    <2> SUFFICES ASSUME ReaderInv PROVE NothingLeaks
        OBVIOUS
    <2>1. ASSUME readerPc \in ReaderSteps PROVE heap \subseteq Freed
        BY <2>1, WhatIsReadIsOwned DEF ReaderInv
    <2>2. ASSUME readerPc \in {"fail", "crashed"} PROVE heap \subseteq Freed
        BY <2>2 DEF ReaderInv, GivenUp
    <2>3. ASSUME readerPc = "returned", status = "OK" PROVE heap \subseteq Freed
        BY <2>3, DataIsOwned DEF ReaderInv, ReaderReturned, Complete
    <2>4. ASSUME readerPc = "returned", status # "OK" PROVE heap = {}
        BY <2>4 DEF ReaderInv, ReaderReturned
    <2> QED
        BY <2>1, <2>2, <2>3, <2>4 DEF NothingLeaks, ReaderInv, ReaderTypes
<1> QED
    BY <1>1, ReaderInvariant, PTL

\* The loops of msearch_problem_free read null pointers in one case only: the
\* pictures have been counted, their array could not be allocated, and nothing
\* else has been.  Where that allocation cannot fail, no clean-up crashes.
THEOREM ReaderCleansUp == ReaderSpec => [](CountedInVain \/ CleanupIsSafe)
<1>1. ReaderInv => CountedInVain \/ CleanupIsSafe
    BY DEF ReaderInv, GivenUp, CleanupIsSafe
<1> QED
    BY <1>1, ReaderInvariant, PTL

\* The blocks of a problem that has been read are those that it is made of.
LEMMA BlocksOfProblem ==
    ASSUME ReaderTypes, Complete("pictures"), Complete("objects")
    PROVE  heap = {b \in Freed : b[2] > 0 \/ num[b[1]] > 0}
<1>1. ASSUME NEW w \in Kinds
      PROVE  /\ num[w] \in Nat
             /\ {b \in heap : b[1] = w} = IF num[w] = 0 THEN {} ELSE {w} \X (0 .. num[w])
    BY TwoKinds DEF ReaderTypes, Complete, HasData
<1>2. \A b : b \in Freed <=> \E w \in Kinds : \E n \in 0 .. num[w] : b = <<w, n>>
    <2>1. ASSUME NEW b \in Freed
          PROVE  \E w \in Kinds : \E n \in 0 .. num[w] : b = <<w, n>>
        <3>1. \/ \E w \in Kinds : b = <<w, 0>>
              \/ \E w \in Kinds : \E n \in 1 .. num[w] : b = <<w, n>>
            BY DEF Freed
        <3>2. \A w \in Kinds : 0 \in 0 .. num[w] /\ \A n \in 1 .. num[w] : n \in 0 .. num[w]
            BY <1>1
        <3> QED
            BY <3>1, <3>2
    <2>2. ASSUME NEW w \in Kinds, NEW n \in 0 .. num[w] PROVE <<w, n>> \in Freed
        <3>1. n = 0 \/ n \in 1 .. num[w]
            BY <1>1
        <3> QED
            BY <3>1 DEF Freed
    <2> QED
        BY <2>1, <2>2
<1>3. ASSUME NEW b \in heap PROVE b \in Freed /\ (b[2] > 0 \/ num[b[1]] > 0)
    <2>1. PICK w \in Kinds : b[1] = w
        BY DEF ReaderTypes
    <2>2. num[w] # 0 /\ b \in {w} \X (0 .. num[w])
        BY <1>1, <2>1
    <2>3. PICK n \in 0 .. num[w] : b = <<w, n>>
        BY <2>2
    <2>4. num[b[1]] > 0
        BY <1>1, <2>1, <2>2
    <2> QED
        BY <1>2, <2>3, <2>4
<1>4. ASSUME NEW w \in Kinds, NEW n \in 0 .. num[w], n > 0 \/ num[w] > 0
      PROVE  <<w, n>> \in heap
    <2>1. num[w] # 0
        BY <1>1, <1>4
    <2>2. <<w, n>> \in {w} \X (0 .. num[w])
        OBVIOUS
    <2> QED
        BY <1>1, <2>1, <2>2
<1>5. ASSUME NEW b \in Freed, b[2] > 0 \/ num[b[1]] > 0 PROVE b \in heap
    <2>1. PICK w \in Kinds : \E n \in 0 .. num[w] : b = <<w, n>>
        BY <1>2
    <2> QED
        BY <1>4, <1>5, <2>1
<1> QED
    BY <1>3, <1>5

\* A problem that is accepted is whole, within the bounds and in order.
THEOREM ReaderAcceptsSound == ReaderSpec => []AcceptedIsSound
<1>1. ReaderInv => AcceptedIsSound
    <2> SUFFICES ASSUME ReaderInv, readerPc = "returned", status = "OK" PROVE AcceptedIsSound
        BY DEF AcceptedIsSound
    <2>1. /\ ReaderTypes /\ threshold = "positive"
          /\ Complete("pictures") /\ Complete("objects")
          /\ Ascending(matrices["objects"])
        BY DEF ReaderInv, ReaderReturned
    <2>2. heap = {b \in Freed : b[2] > 0 \/ num[b[1]] > 0}
        BY <2>1, BlocksOfProblem
    <2>3. \A w \in Kinds :
              /\ Len(matrices[w]) = num[w]
              /\ \A n \in 1 .. num[w] :
                     /\ matrices[w][n].side \in 1 .. LargestSide
                     /\ matrices[w][n].filled = matrices[w][n].side * matrices[w][n].side
        BY <2>1, TwoKinds DEF Complete, HasData, FullUpTo, FullMatrix, ElementsOf
    <2>4. DOMAIN matrices["objects"] = 1 .. num["objects"]
        BY <2>1, TwoKinds DEF Complete, HasData, ReaderTypes
    <2>5. \A m, n \in 1 .. num["objects"] : m < n =>
              \/ matrices["objects"][m].id < matrices["objects"][n].id
              \/ /\ matrices["objects"][m].id = matrices["objects"][n].id
                 /\ matrices["objects"][m].place < matrices["objects"][n].place
        BY <2>1, <2>4 DEF Ascending, SortsBefore
    <2> QED
        BY <2>1, <2>2, <2>3, <2>5 DEF AcceptedIsSound
<1> QED
    BY <1>1, ReaderInvariant, PTL

-----------------------------------------------------------------------------
(* Where the tokens come from: the lexer, for every file and token buffer      *)

Token == [first : Nat, last : Nat]

LexerTypes ==
    /\ file \in Seq(Classes)
    /\ pos \in 0 .. Len(file)
    /\ lineNo \in Int
    /\ c \in Classes \cup {EOF}
    /\ len \in Nat
    /\ tokens \in Seq(Token)
    /\ lexerPc \in {"skip", "comment", "token", "returned", "too long", "end"}

Listed == {tokens[n] : n \in DOMAIN tokens}

\* A comment goes on after the first p characters.
Open(p) ==
    \E q \in 1 .. p :
        Starts(q) /\ file[q] = "hash" /\ \A x \in q .. p : file[x] # "newline"

\* The tokens that start within the first p characters have been returned.
AllListed(p) == \A t \in TokensOfFile : t.first <= p => t \in Listed
EndBy(p) == \A t \in Listed : t.last <= p

\* What has been returned is right.
InSequence ==
    /\ Listed \subseteq TokensOfFile
    /\ \A n, o \in DOMAIN tokens : n < o => tokens[n].last < tokens[o].first
    /\ \A n \in DOMAIN tokens : tokens[n].last - tokens[n].first + 1 < TokenMax

Outside ==
    lexerPc \in {"skip", "returned"} =>
        /\ pos = 0 \/ pos = Len(file) \/ file[pos] \in Space
        /\ ~Open(pos) /\ AllListed(pos) /\ EndBy(pos)

InRemark == lexerPc = "comment" => Open(pos) /\ AllListed(pos) /\ EndBy(pos)

FirstOfToken == LastOfToken - len + 1

InToken ==
    lexerPc = "token" =>
        /\ FirstOfToken \in 1 .. Len(file)
        /\ Starts(FirstOfToken) /\ ~InComment(FirstOfToken)
        /\ \A x \in FirstOfToken .. LastOfToken : file[x] \notin Space
        /\ AllListed(FirstOfToken - 1) /\ EndBy(FirstOfToken - 1)
        /\ len < TokenMax
        /\ len = 0 => c \notin Space \cup {EOF}
        /\ IF c = EOF THEN pos = Len(file) ELSE pos > 0 /\ c = file[pos]

AtEnd == lexerPc = "end" => AllListed(Len(file))

Refused ==
    lexerPc = "too long" =>
        \E t \in TokensOfFile : t.last >= pos /\ t.last - t.first + 1 >= TokenMax

LexerInv ==
    /\ LexerTypes /\ InSequence
    /\ Outside /\ InRemark /\ InToken /\ AtEnd /\ Refused

\* A comment starts or goes on.
LEMMA CommentsGoOn ==
    ASSUME NEW p \in Nat
    PROVE  /\ InComment(p + 1) <=> Open(p) \/ (Starts(p + 1) /\ file[p + 1] = "hash")
           /\ Open(p + 1) <=> InComment(p + 1) /\ file[p + 1] # "newline"
<1>1. InComment(p + 1) => Open(p) \/ (Starts(p + 1) /\ file[p + 1] = "hash")
    <2> SUFFICES ASSUME NEW q \in 1 .. p + 1,
                        Starts(q) /\ file[q] = "hash",
                        \A x \in q .. p + 1 - 1 : file[x] # "newline"
                 PROVE  Open(p) \/ (Starts(p + 1) /\ file[p + 1] = "hash")
        BY DEF InComment
    <2>1. CASE q = p + 1
        BY <2>1
    <2>2. CASE q # p + 1
        <3>1. q \in 1 .. p /\ \A x \in q .. p : x \in q .. p + 1 - 1
            BY <2>2
        <3>2. \A x \in q .. p : file[x] # "newline"
            BY <3>1
        <3> QED
            BY <3>1, <3>2 DEF Open
    <2> QED
        BY <2>1, <2>2
<1>2. Open(p) => InComment(p + 1)
    <2> SUFFICES ASSUME NEW q \in 1 .. p,
                        Starts(q) /\ file[q] = "hash",
                        \A x \in q .. p : file[x] # "newline"
                 PROVE  InComment(p + 1)
        BY DEF Open
    <2>1. q \in 1 .. p + 1 /\ \A x \in q .. p + 1 - 1 : x \in q .. p
        OBVIOUS
    <2> QED
        BY <2>1 DEF InComment
<1>3. Starts(p + 1) /\ file[p + 1] = "hash" => InComment(p + 1)
    <2>1. p + 1 \in 1 .. p + 1 /\ (p + 1) .. (p + 1 - 1) = {}
        OBVIOUS
    <2> QED
        BY <2>1 DEF InComment
<1>4. Open(p + 1) => InComment(p + 1) /\ file[p + 1] # "newline"
    <2> SUFFICES ASSUME NEW q \in 1 .. p + 1,
                        Starts(q) /\ file[q] = "hash",
                        \A x \in q .. p + 1 : file[x] # "newline"
                 PROVE  InComment(p + 1) /\ file[p + 1] # "newline"
        BY DEF Open
    <2>1. p + 1 \in q .. p + 1 /\ \A x \in q .. p + 1 - 1 : x \in q .. p + 1
        OBVIOUS
    <2> QED
        BY <2>1 DEF InComment
<1>5. InComment(p + 1) /\ file[p + 1] # "newline" => Open(p + 1)
    <2> SUFFICES ASSUME file[p + 1] # "newline",
                        NEW q \in 1 .. p + 1,
                        Starts(q) /\ file[q] = "hash",
                        \A x \in q .. p + 1 - 1 : file[x] # "newline"
                 PROVE  Open(p + 1)
        BY DEF InComment
    <2>1. \A x \in q .. p + 1 : x = p + 1 \/ x \in q .. p + 1 - 1
        OBVIOUS
    <2> QED
        BY <2>1 DEF Open
<1> QED
    BY <1>1, <1>2, <1>3, <1>4, <1>5

\* A character of white space, or one in a comment, starts no token.
LEMMA NothingStarts ==
    ASSUME LexerTypes, NEW p \in Nat, AllListed(p), EndBy(p),
           file[p + 1] \in Space \/ InComment(p + 1)
    PROVE  AllListed(p + 1) /\ EndBy(p + 1)
<1>1. ASSUME NEW t \in TokensOfFile, t.first <= p + 1 PROVE t \in Listed
    <2>1. t.first \in Int /\ Starts(t.first) /\ ~InComment(t.first)
        BY DEF TokensOfFile, Stretches, IsToken
    <2>2. t.first # p + 1
        BY <2>1 DEF Starts
    <2>3. t.first <= p
        BY <1>1, <2>1, <2>2
    <2> QED
        BY <2>3 DEF AllListed
<1>2. ASSUME NEW t \in Listed PROVE t.last <= p + 1
    <2>1. t.last \in Nat /\ t.last <= p
        <3>1. PICK n \in DOMAIN tokens : t = tokens[n]
            BY DEF Listed
        <3>2. tokens \in Seq(Token)
            BY DEF LexerTypes
        <3>3. tokens[n] \in Token
            BY <3>2
        <3> QED
            BY <3>1, <3>3 DEF EndBy, Token
    <2> QED
        BY <2>1
<1> QED
    BY <1>1, <1>2 DEF AllListed, EndBy


\* The file does not change while it is read.
LEMMA SameFile ==
    ASSUME file' = file
    PROVE  /\ \A p : (Starts(p) <=> Starts(p)') /\ (InComment(p) <=> InComment(p)')
           /\ \A p : Open(p) <=> Open(p)'
           /\ TokensOfFile' = TokensOfFile
<1>1. \A p : Starts(p) <=> Starts(p)'
    BY DEF Starts
<1>2. \A p : InComment(p) <=> InComment(p)'
    BY <1>1 DEF InComment
<1>3. \A p : Open(p) <=> Open(p)'
    BY <1>1 DEF Open
<1>4. \A t : IsToken(t) <=> IsToken(t)'
    BY <1>1, <1>2 DEF IsToken
<1>5. TokensOfFile' = TokensOfFile
    BY <1>4 DEF TokensOfFile, Stretches
<1> QED
    BY <1>1, <1>2, <1>3, <1>5

\* What is known up to a place is known when the lexer is there.
LEMMA SameTokens ==
    ASSUME file' = file, tokens' = tokens, NEW p, AllListed(p), EndBy(p)
    PROVE  AllListed(p)' /\ EndBy(p)' /\ (p = pos' => AllListed(pos)' /\ EndBy(pos)')
<1>1. Listed' = Listed /\ TokensOfFile' = TokensOfFile
    BY SameFile DEF Listed
<1> QED
    BY <1>1 DEF AllListed, EndBy

\* What has been returned stays right.
LEMMA SameSequence ==
    ASSUME file' = file, tokens' = tokens, InSequence
    PROVE  InSequence'
<1>1. Listed' = Listed /\ TokensOfFile' = TokensOfFile
    BY SameFile DEF Listed
<1> QED
    BY <1>1 DEF InSequence

\* Nothing has been read, and nothing returned.
LEMMA LexerStart == LexerInit => LexerInv
<1> SUFFICES ASSUME LexerInit PROVE LexerInv
    OBVIOUS
<1>1. file \in Seq(Classes)
    <2>1. PICK n \in 0 .. MaxLength : file \in [1 .. n -> Classes]
        BY DEF LexerInit
    <2>2. n \in Nat
        BY LengthAssumption
    <2> QED
        BY <2>1, <2>2
<1>2. pos = 0 /\ lineNo = 1 /\ c = EOF /\ len = 0 /\ tokens = <<>> /\ lexerPc = "skip"
    BY DEF LexerInit
<1>3. LexerTypes
    BY <1>1, <1>2 DEF LexerTypes
<1>4. Listed = {} /\ InSequence
    BY <1>2 DEF Listed, InSequence
<1>5. ~Open(0) /\ AllListed(0) /\ EndBy(0)
    <2>1. \A t \in TokensOfFile : ~(t.first <= 0)
        BY DEF TokensOfFile, Stretches
    <2> QED
        BY <1>4, <2>1 DEF Open, AllListed, EndBy
<1> QED
    BY <1>2, <1>3, <1>4, <1>5
       DEF LexerInv, Outside, InRemark, InToken, AtEnd, Refused

\* The next character, or the end of the file.
LEMMA NextCharacter ==
    ASSUME LexerTypes, Getc
    PROVE  /\ pos' \in 0 .. Len(file) /\ c' \in Classes \cup {EOF} /\ lineNo' \in Int
           /\ \/ pos < Len(file) /\ pos' = pos + 1 /\ c' = file[pos + 1] /\ c' # EOF
                 /\ c' \in Classes
              \/ pos = Len(file) /\ pos' = pos /\ c' = EOF
<1>1. /\ pos \in Nat /\ Len(file) \in Nat /\ pos <= Len(file) /\ lineNo \in Int
      /\ DOMAIN file = 1 .. Len(file) /\ \A p \in DOMAIN file : file[p] \in Classes
    <2>1. file \in Seq(Classes) /\ pos \in 0 .. Len(file) /\ lineNo \in Int
        BY DEF LexerTypes
    <2>2. Len(file) \in Nat /\ DOMAIN file = 1 .. Len(file)
          /\ \A p \in DOMAIN file : file[p] \in Classes
        BY <2>1
    <2> QED
        BY <2>1, <2>2
<1>0. lineNo' \in Int
    BY <1>1 DEF Getc
<1>2. CASE pos < Len(file)
    <2>1. pos + 1 \in DOMAIN file
        BY <1>1, <1>2
    <2>2. c' = file[pos + 1] /\ pos' = pos + 1
        BY <1>2, <2>1 DEF Getc, Char
    <2>3. file[pos + 1] \in Classes
        BY <1>1, <2>1
    <2>4. pos' \in 0 .. Len(file)
        BY <1>1, <1>2, <2>2
    <2> QED
        BY <1>0, <1>2, <2>2, <2>3, <2>4 DEF Classes, EOF
<1>3. CASE pos = Len(file)
    <2>1. pos + 1 \notin DOMAIN file
        BY <1>1, <1>3
    <2>2. c' = EOF
        BY <2>1 DEF Getc, Char
    <2>3. ~(pos < Len(file))
        BY <1>1, <1>3
    <2>4. pos' = pos
        BY <2>3 DEF Getc
    <2> QED
        BY <1>0, <1>1, <1>3, <2>2, <2>4
<1>4. pos < Len(file) \/ pos = Len(file)
    <2>1. pos \in Nat /\ Len(file) \in Nat /\ pos <= Len(file)
        BY <1>1
    <2> QED
        BY <2>1
<1> QED
    BY <1>2, <1>3, <1>4

\* Between tokens.
LEMMA SpaceSkipped ==
    ASSUME LexerInv, SkipSpace
    PROVE  LexerInv'
<1>1. /\ lexerPc = "skip" /\ Getc /\ len' = 0 /\ file' = file /\ tokens' = tokens
      /\ lexerPc' = IF c' = EOF THEN "end"
                    ELSE IF c' = "hash" THEN "comment"
                    ELSE IF c' \in Space THEN "skip" ELSE "token"
    BY DEF SkipSpace
<1>2. /\ LexerTypes /\ InSequence
      /\ pos = 0 \/ pos = Len(file) \/ file[pos] \in Space
      /\ ~Open(pos) /\ AllListed(pos) /\ EndBy(pos) /\ pos \in Nat
    BY <1>1 DEF LexerInv, LexerTypes, Outside
<1>3. InSequence'
    BY <1>1, <1>2, SameSequence
<1>4. LexerTypes'
    BY <1>1, <1>2, NextCharacter DEF LexerTypes
<1>5. CASE c' = EOF
    <2>1. pos = Len(file) /\ lexerPc' = "end"
        BY <1>1, <1>2, <1>5, NextCharacter DEF Classes, EOF
    <2>2. \A p \in {pos} : AllListed(p)'
        BY <1>1, <1>2, SameTokens
    <2>3. AllListed(Len(file))'
        BY <1>1, <2>1, <2>2 DEF AllListed
    <2> QED
        BY <1>3, <1>4, <2>1, <2>3
           DEF LexerInv, Outside, InRemark, InToken, AtEnd, Refused
<1>6. CASE c' # EOF
    <2>1. pos < Len(file) /\ pos' = pos + 1 /\ c' = file[pos + 1] /\ c' \in Classes
        BY <1>1, <1>2, <1>6, NextCharacter
    <2>2. c' \notin Space => Starts(pos + 1)
        BY <1>2, <2>1 DEF Starts
    <2>3. /\ InComment(pos + 1) <=> c' = "hash"
          /\ Open(pos + 1) <=> c' = "hash"
        <3>1. "hash" \notin Space /\ "newline" # "hash"
            BY DEF Space
        <3> QED
            BY <1>2, <2>1, <2>2, <3>1, CommentsGoOn
    <2>4. ASSUME NEW p, p = pos + 1 PROVE (Open(p) <=> Open(pos)')
        BY <1>1, <2>1, <2>4, SameFile DEF Open
    <2>5. Open(pos)' <=> c' = "hash"
        BY <2>3, <2>4
    <2>6. c' \in Space \/ c' = "hash" => AllListed(pos)' /\ EndBy(pos)'
        <3> SUFFICES ASSUME c' \in Space \/ c' = "hash" PROVE AllListed(pos)' /\ EndBy(pos)'
            OBVIOUS
        <3>1. AllListed(pos + 1) /\ EndBy(pos + 1)
            BY <1>2, <2>1, <2>3, NothingStarts
        <3> QED
            BY <1>1, <2>1, <3>1, SameTokens
    <2>7. CASE c' = "hash"
        <3>1. lexerPc' = "comment"
            BY <1>1, <1>6, <2>7
        <3> QED
            BY <1>3, <1>4, <2>5, <2>6, <2>7, <3>1
               DEF LexerInv, Outside, InRemark, InToken, AtEnd, Refused
    <2>8. CASE c' \in Space
        <3>1. lexerPc' = "skip" /\ c' # "hash"
            BY <1>1, <1>6, <2>8 DEF Space
        <3>2. file'[pos'] \in Space
            BY <1>1, <2>1, <2>8
        <3> QED
            BY <1>3, <1>4, <2>5, <2>6, <2>8, <3>1, <3>2
               DEF LexerInv, Outside, InRemark, InToken, AtEnd, Refused
    <2>9. CASE c' # "hash" /\ c' \notin Space
        <3>1. lexerPc' = "token"
            BY <1>1, <1>6, <2>9
        <3>2. LastOfToken' = pos /\ FirstOfToken' = pos + 1
            BY <1>1, <1>2, <1>6, <2>1 DEF LastOfToken, FirstOfToken
        <3>3. \A p \in {pos + 1} : Starts(p)' /\ ~InComment(p)'
            BY <1>1, <2>2, <2>3, <2>9, SameFile
        <3>4. Starts(FirstOfToken)' /\ ~InComment(FirstOfToken)'
            BY <3>2, <3>3 DEF Starts, InComment
        <3>5. \A p \in {pos} : AllListed(p)' /\ EndBy(p)'
            BY <1>1, <1>2, SameTokens
        <3>6. AllListed(FirstOfToken - 1)' /\ EndBy(FirstOfToken - 1)'
            <4>1. FirstOfToken' - 1 = pos
                BY <1>2, <3>2
            <4> QED
                BY <3>5, <4>1 DEF AllListed, EndBy
        <3>7. FirstOfToken' \in 1 .. Len(file') /\ FirstOfToken' .. LastOfToken' = {}
            BY <1>1, <1>2, <2>1, <3>2
        <3>8. len' < TokenMax
            BY <1>1, TokenAssumption
        <3>9. InToken'
            BY <1>1, <1>2, <1>6, <2>1, <2>9, <3>4, <3>6, <3>7, <3>8 DEF InToken
        <3> QED
            BY <1>3, <1>4, <3>1, <3>9 DEF LexerInv, Outside, InRemark, AtEnd, Refused
    <2> QED
        BY <2>7, <2>8, <2>9
<1> QED
    BY <1>5, <1>6


\* Within a comment.
LEMMA CommentSkipped ==
    ASSUME LexerInv, SkipComment
    PROVE  LexerInv'
<1>1. /\ lexerPc = "comment" /\ Getc /\ file' = file /\ tokens' = tokens /\ len' = len
      /\ lexerPc' = IF c' = EOF THEN "end" ELSE IF c' = "newline" THEN "skip" ELSE "comment"
    BY DEF SkipComment, CommentOver
<1>2. /\ LexerTypes /\ InSequence
      /\ Open(pos) /\ AllListed(pos) /\ EndBy(pos) /\ pos \in Nat
    BY <1>1 DEF LexerInv, LexerTypes, InRemark
<1>3. InSequence'
    BY <1>1, <1>2, SameSequence
<1>4. LexerTypes'
    BY <1>1, <1>2, NextCharacter DEF LexerTypes
<1>5. CASE c' = EOF
    <2>1. pos = Len(file) /\ lexerPc' = "end"
        BY <1>1, <1>2, <1>5, NextCharacter DEF Classes, EOF
    <2>2. \A p \in {pos} : AllListed(p)'
        BY <1>1, <1>2, SameTokens
    <2>3. AllListed(Len(file))'
        BY <1>1, <2>1, <2>2 DEF AllListed
    <2> QED
        BY <1>3, <1>4, <2>1, <2>3
           DEF LexerInv, Outside, InRemark, InToken, AtEnd, Refused
<1>6. CASE c' # EOF
    <2>1. pos < Len(file) /\ pos' = pos + 1 /\ c' = file[pos + 1] /\ c' \in Classes
        BY <1>1, <1>2, <1>6, NextCharacter
    <2>2. InComment(pos + 1) /\ (Open(pos + 1) <=> c' # "newline")
        BY <1>2, <2>1, CommentsGoOn
    <2>3. ASSUME NEW p, p = pos + 1 PROVE (Open(p) <=> Open(pos)')
        BY <1>1, <2>1, <2>3, SameFile DEF Open
    <2>4. Open(pos)' <=> c' # "newline"
        BY <2>2, <2>3
    <2>5. AllListed(pos)' /\ EndBy(pos)'
        <3>1. AllListed(pos + 1) /\ EndBy(pos + 1)
            BY <1>2, <2>2, NothingStarts
        <3> QED
            BY <1>1, <2>1, <3>1, SameTokens
    <2>6. c' = "newline" => file'[pos'] \in Space
        BY <1>1, <2>1 DEF Space
    <2> QED
        BY <1>1, <1>3, <1>4, <1>6, <2>4, <2>5, <2>6
           DEF LexerInv, Outside, InRemark, InToken, AtEnd, Refused
<1> QED
    BY <1>5, <1>6

\* Where the characters of the token are.
LEMMA TokenSpan ==
    ASSUME LexerTypes, LexerInv, lexerPc = "token"
    PROVE  /\ pos \in Nat /\ Len(file) \in Nat /\ pos <= Len(file) /\ len \in Nat
           /\ FirstOfToken \in 1 .. Len(file) /\ FirstOfToken \in Nat
           /\ LastOfToken \in Nat /\ LastOfToken = FirstOfToken + len - 1
           /\ c = EOF => LastOfToken = pos /\ pos = Len(file)
           /\ c # EOF => LastOfToken = pos - 1 /\ pos > 0 /\ c = file[pos]
<1>1. pos \in Nat /\ Len(file) \in Nat /\ pos <= Len(file) /\ len \in Nat
    <2>1. file \in Seq(Classes) /\ pos \in 0 .. Len(file) /\ len \in Nat
        BY DEF LexerTypes
    <2>2. Len(file) \in Nat
        BY <2>1
    <2> QED
        BY <2>1, <2>2
<1>2. /\ FirstOfToken \in 1 .. Len(file)
      /\ IF c = EOF THEN pos = Len(file) ELSE pos > 0 /\ c = file[pos]
    BY DEF LexerInv, InToken
<1>3. LastOfToken = IF c = EOF THEN pos ELSE pos - 1
    BY DEF LastOfToken
<1>4. FirstOfToken = LastOfToken - len + 1
    BY DEF FirstOfToken
<1>5. LastOfToken \in Nat
    BY <1>1, <1>2, <1>3
<1>6. LastOfToken = FirstOfToken + len - 1 /\ FirstOfToken \in Nat
    BY <1>1, <1>2, <1>4, <1>5
<1> QED
    BY <1>1, <1>2, <1>3, <1>5, <1>6

\* The natural numbers are well ordered.
LEMMA LeastNatural ==
    ASSUME NEW T \in SUBSET Nat, T # {}
    PROVE  \E n \in T : \A o \in T : n <= o
<1> DEFINE R == {ss \in Nat \X Nat : ss[1] < ss[2]}
<1>1. IsWellFoundedOn(R, Nat)
    BY NatLessThanWellFounded DEF OpToRel
<1>2. PICK n \in T : \A o \in T : ~(<<o, n>> \in R)
    <2> HIDE DEF R
    <2> QED
        BY <1>1, WFMin
<1>3. \A o \in T : n <= o
    <2> TAKE o \in T
    <2>1. n \in Nat /\ o \in Nat /\ ~(<<o, n>> \in R)
        BY <1>2
    <2> QED
        BY <2>1
<1> QED
    BY <1>3

\* A stretch without white space goes on to the end of a token.
LEMMA TokensEnd ==
    ASSUME LexerTypes, NEW f \in 1 .. Len(file), NEW p \in f .. Len(file),
           Starts(f), ~InComment(f),
           \A x \in f .. p : file[x] \notin Space
    PROVE  \E t \in TokensOfFile : t.first = f /\ t.last >= p
<1>1. Len(file) \in Nat /\ f \in Nat /\ p \in Nat /\ f <= p /\ p <= Len(file) /\ f > 0
    <2>1. file \in Seq(Classes)
        BY DEF LexerTypes
    <2>2. Len(file) \in Nat
        BY <2>1
    <2> QED
        BY <2>2
<1> DEFINE Ends == {e \in p .. Len(file) : e = Len(file) \/ file[e + 1] \in Space}
<1>2. Ends \in SUBSET Nat /\ Ends # {}
    <2>1. Len(file) \in Ends
        BY <1>1
    <2> QED
        BY <1>1, <2>1
<1>3. PICK e \in Ends : \A o \in Ends : e <= o
    <2> HIDE DEF Ends
    <2> QED
        BY <1>2, LeastNatural
<1>4. /\ e \in Nat /\ p <= e /\ e <= Len(file)
      /\ e = Len(file) \/ file[e + 1] \in Space
    BY <1>1
<1>5. ASSUME NEW x \in f .. e PROVE file[x] \notin Space
    <2>1. x \in Nat /\ f <= x /\ x <= e
        BY <1>1, <1>4
    <2>2. CASE x <= p
        BY <1>1, <2>1, <2>2
    <2>3. CASE x > p
        <3>1. x - 1 \in p .. Len(file) /\ x - 1 < e /\ x - 1 + 1 = x
            BY <1>1, <1>4, <2>1, <2>3
        <3>2. x - 1 \notin Ends
            <4> HIDE DEF Ends
            <4>1. x - 1 \in Ends => e <= x - 1
                BY <1>3
            <4> QED
                BY <1>4, <2>1, <3>1, <4>1
        <3> QED
            BY <3>1, <3>2
    <2> QED
        BY <1>1, <2>1, <2>2, <2>3
<1> DEFINE t == [first |-> f, last |-> e]
<1>6. t \in Stretches /\ t.first <= t.last
    BY <1>1, <1>4 DEF Stretches
<1>7. IsToken(t)
    BY <1>4, <1>5 DEF IsToken
<1> QED
    BY <1>4, <1>6, <1>7 DEF TokensOfFile

\* Within a token.
LEMMA CharAppended ==
    ASSUME LexerInv, AppendChar
    PROVE  LexerInv'
<1>1. /\ lexerPc = "token" /\ c # EOF /\ c \notin Space
      /\ file' = file /\ tokens' = tokens
      /\ LexerTypes /\ InSequence /\ InToken
    BY DEF AppendChar, LexerInv
<1>2. /\ pos \in Nat /\ Len(file) \in Nat /\ pos <= Len(file) /\ len \in Nat
      /\ FirstOfToken \in 1 .. Len(file) /\ FirstOfToken \in Nat
      /\ LastOfToken = FirstOfToken + len - 1
      /\ LastOfToken = pos - 1 /\ pos > 0 /\ c = file[pos]
    BY <1>1, TokenSpan
<1>3. /\ Starts(FirstOfToken) /\ ~InComment(FirstOfToken)
      /\ AllListed(FirstOfToken - 1) /\ EndBy(FirstOfToken - 1)
    BY <1>1 DEF InToken
<1>4. \A x \in FirstOfToken .. pos : file[x] \notin Space
    <2>1. \A x \in FirstOfToken .. pos : x \in FirstOfToken .. LastOfToken \/ x = pos
        BY <1>2
    <2> QED
        BY <1>1, <1>2, <2>1 DEF InToken
<1>5. InSequence'
    BY <1>1, SameSequence
<1>6. CASE BufferFull
    <2>1. lexerPc' = "too long" /\ UNCHANGED <<c, pos, lineNo, len>>
        BY <1>6 DEF AppendChar
    <2>2. LexerTypes'
        BY <1>1, <2>1 DEF LexerTypes
    <2>3. FirstOfToken <= pos /\ pos - FirstOfToken + 1 >= TokenMax
        BY <1>2, <1>6, TokenAssumption DEF BufferFull
    <2>4. PICK t \in TokensOfFile : t.first = FirstOfToken /\ t.last >= pos
        <3>1. pos \in FirstOfToken .. Len(file)
            BY <1>2, <2>3
        <3> QED
            BY <1>1, <1>2, <1>3, <1>4, <3>1, TokensEnd
    <2>5. t.last - t.first + 1 >= TokenMax
        <3>1. t.last \in Int
            BY DEF TokensOfFile, Stretches
        <3> QED
            BY <1>2, <2>3, <2>4, <3>1, TokenAssumption
    <2>6. t \in TokensOfFile'
        BY <1>1, SameFile
    <2>7. Refused'
        BY <2>1, <2>4, <2>5, <2>6 DEF Refused
    <2> QED
        BY <1>5, <2>1, <2>2, <2>7 DEF LexerInv, Outside, InRemark, InToken, AtEnd
<1>7. CASE ~BufferFull
    <2>1. len' = len + 1 /\ Getc /\ lexerPc' = "token"
        BY <1>1, <1>7 DEF AppendChar
    <2>2. /\ pos' \in 0 .. Len(file) /\ c' \in Classes \cup {EOF} /\ lineNo' \in Int
          /\ \/ pos < Len(file) /\ pos' = pos + 1 /\ c' = file[pos + 1] /\ c' # EOF
                /\ c' \in Classes
             \/ pos = Len(file) /\ pos' = pos /\ c' = EOF
        BY <1>1, <2>1, NextCharacter
    <2>3. LexerTypes'
        BY <1>1, <1>2, <2>1, <2>2 DEF LexerTypes
    <2>4. LastOfToken' = pos
        <3>1. LastOfToken' = IF c' = EOF THEN pos' ELSE pos' - 1
            BY DEF LastOfToken
        <3>2. CASE c' = EOF
            BY <2>2, <3>1, <3>2
        <3>3. CASE c' # EOF
            <4>1. pos' = pos + 1
                BY <2>2, <3>3
            <4> QED
                BY <1>2, <3>1, <3>3, <4>1
        <3> QED
            BY <3>2, <3>3
    <2>5. FirstOfToken' = FirstOfToken
        <3>1. FirstOfToken' = LastOfToken' - len' + 1
            BY DEF FirstOfToken
        <3> QED
            BY <1>2, <2>1, <2>4, <3>1
    <2>6. ASSUME NEW f, f = FirstOfToken
          PROVE  /\ Starts(f)' /\ ~InComment(f)'
                 /\ AllListed(f - 1)' /\ EndBy(f - 1)'
        BY <1>1, <1>3, <2>6, SameFile, SameTokens
    <2>7. \A f \in {FirstOfToken} :
              /\ Starts(f)' /\ ~InComment(f)'
              /\ AllListed(f - 1)' /\ EndBy(f - 1)'
        BY <2>6
    <2>8. /\ Starts(FirstOfToken)' /\ ~InComment(FirstOfToken)'
          /\ AllListed(FirstOfToken - 1)' /\ EndBy(FirstOfToken - 1)'
        BY <2>5, <2>7 DEF Starts, InComment, AllListed, EndBy
    <2>9. FirstOfToken' \in 1 .. Len(file')
          /\ \A x \in FirstOfToken' .. LastOfToken' : file'[x] \notin Space
        BY <1>1, <1>2, <1>4, <2>4, <2>5
    <2>10. len' < TokenMax /\ len' # 0
        BY <1>2, <1>7, <2>1, TokenAssumption DEF BufferFull
    <2>11. IF c' = EOF THEN pos' = Len(file') ELSE pos' > 0 /\ c' = file'[pos']
        BY <1>1, <1>2, <2>2
    <2>12. InToken'
        BY <2>8, <2>9, <2>10, <2>11 DEF InToken
    <2> QED
        BY <1>5, <2>1, <2>3, <2>12 DEF LexerInv, Outside, InRemark, AtEnd, Refused
<1> QED
    BY <1>6, <1>7


\* Two tokens of a file do not start at one place.
LEMMA TokensDiffer ==
    ASSUME NEW t \in TokensOfFile, NEW u \in TokensOfFile, t.first = u.first
    PROVE  t = u
<1>1. /\ t.first \in Int /\ t.last \in Int /\ t.first <= t.last
      /\ u.first \in Int /\ u.last \in Int /\ u.first <= u.last
      /\ t = [first |-> t.first, last |-> t.last]
      /\ u = [first |-> u.first, last |-> u.last]
      /\ IsToken(t) /\ IsToken(u)
    BY DEF TokensOfFile, Stretches
<1>2. \A a, b \in TokensOfFile : a.first = b.first /\ a.first <= a.last => ~(a.last < b.last)
    <2> SUFFICES ASSUME NEW a \in TokensOfFile, NEW b \in TokensOfFile,
                        a.first = b.first, a.first <= a.last, a.last < b.last
                 PROVE  FALSE
        OBVIOUS
    <2>1. /\ a.first \in Int /\ a.last \in Int /\ a.first = b.first
          /\ b.last \in Int /\ b.last <= Len(file) /\ IsToken(a) /\ IsToken(b)
        BY DEF TokensOfFile, Stretches
    <2>2. a.last + 1 \in b.first .. b.last
        BY <2>1
    <2>3. file[a.last + 1] \notin Space
        BY <2>1, <2>2 DEF IsToken
    <2>4. a.last # Len(file)
        BY <2>1
    <2> QED
        BY <2>1, <2>3, <2>4 DEF IsToken
<1>3. t.last = u.last
    <2>1. ~(t.last < u.last) /\ ~(u.last < t.last)
        BY <1>1, <1>2
    <2> QED
        BY <1>1, <2>1
<1> QED
    BY <1>1, <1>3

\* The white space or the end of the file after a token.
LEMMA TokenEnded ==
    ASSUME LexerInv, EndToken
    PROVE  LexerInv'
<1> DEFINE f == FirstOfToken
           t == [first |-> f, last |-> LastOfToken]
<1>1. /\ lexerPc = "token" /\ (c = EOF \/ c \in Space)
      /\ lineNo' = LineOfToken /\ tokens' = Append(tokens, t)
      /\ lexerPc' = "returned" /\ UNCHANGED <<file, pos, c, len>>
      /\ LexerTypes /\ InSequence /\ InToken
    BY DEF EndToken, LexerInv, FirstOfToken
<1>2. /\ pos \in Nat /\ Len(file) \in Nat /\ pos <= Len(file) /\ len \in Nat
      /\ f \in 1 .. Len(file) /\ f \in Nat
      /\ LastOfToken \in Nat /\ LastOfToken = f + len - 1
      /\ c = EOF => LastOfToken = pos /\ pos = Len(file)
      /\ c # EOF => LastOfToken = pos - 1 /\ pos > 0 /\ c = file[pos]
    BY <1>1, TokenSpan
<1>3. /\ Starts(f) /\ ~InComment(f)
      /\ \A x \in f .. LastOfToken : file[x] \notin Space
      /\ AllListed(f - 1) /\ EndBy(f - 1)
      /\ len < TokenMax /\ len # 0
    BY <1>1 DEF InToken
<1>4. /\ f <= LastOfToken /\ LastOfToken <= Len(file) /\ LastOfToken <= pos
      /\ LastOfToken - f + 1 < TokenMax
    <2>1. LastOfToken <= pos
        BY <1>2
    <2>2. len >= 1
        BY <1>2, <1>3
    <2> HIDE DEF f
    <2>3. f <= LastOfToken /\ LastOfToken <= Len(file)
        BY <1>2, <2>1, <2>2
    <2>4. LastOfToken - f + 1 = len
        BY <1>2
    <2> QED
        BY <1>3, <2>1, <2>3, <2>4
<1>5. t \in TokensOfFile
    <2>1. t \in Stretches
        BY <1>2, <1>4 DEF Stretches
    <2>2. LastOfToken = Len(file) \/ file[LastOfToken + 1] \in Space
        BY <1>1, <1>2
    <2>3. IsToken(t)
        BY <1>3, <2>2 DEF IsToken
    <2> QED
        BY <1>4, <2>1, <2>3 DEF TokensOfFile
<1> HIDE DEF f
<1>6. \A q \in f + 1 .. pos : ~Starts(q)
    <2> SUFFICES ASSUME NEW q \in f + 1 .. pos, Starts(q) PROVE FALSE
        OBVIOUS
    <2>1. q \in Int /\ q # 1 /\ file[q] \notin Space /\ file[q - 1] \in Space
        BY <1>2 DEF Starts
    <2>2. ~(q - 1 \in f .. LastOfToken)
        BY <1>3, <2>1
    <2>3. q = pos /\ c # EOF
        BY <1>2, <2>1, <2>2
    <2> QED
        BY <1>1, <1>2, <2>1, <2>3
<1>7. ~Open(pos)
    <2> SUFFICES ASSUME NEW q \in 1 .. pos, Starts(q), file[q] = "hash",
                        \A x \in q .. pos : file[x] # "newline"
                 PROVE  FALSE
        BY DEF Open
    <2>1. q <= f
        BY <1>2, <1>6
    <2>2. q \in 1 .. f /\ \A x \in q .. f - 1 : x \in q .. pos
        BY <1>2, <1>4, <2>1
    <2>3. InComment(f)
        BY <2>2 DEF InComment
    <2> QED
        BY <1>3, <2>3
<1>8. \A u \in TokensOfFile : u.first <= pos => u \in Listed \cup {t}
    <2> SUFFICES ASSUME NEW u \in TokensOfFile, u.first <= pos PROVE u \in Listed \cup {t}
        OBVIOUS
    <2>1. u.first \in Int /\ Starts(u.first)
        BY DEF TokensOfFile, Stretches, IsToken
    <2>2. u.first <= f
        BY <1>2, <1>6, <2>1
    <2>3. CASE u.first = f
        BY <1>5, <2>3, TokensDiffer
    <2>4. CASE u.first <= f - 1
        BY <1>3, <2>4 DEF AllListed
    <2> QED
        BY <1>2, <2>1, <2>2, <2>3, <2>4
<1>9. /\ Len(tokens) \in Nat /\ DOMAIN tokens = 1 .. Len(tokens)
      /\ DOMAIN tokens' = 1 .. Len(tokens) + 1
      /\ \A n \in DOMAIN tokens : tokens'[n] = tokens[n] /\ tokens[n] \in Token
      /\ tokens'[Len(tokens) + 1] = t
      /\ tokens' \in Seq(Token)
    <2>1. tokens \in Seq(Token)
        BY <1>1 DEF LexerTypes
    <2>2. t \in Token
        BY <1>2 DEF Token
    <2> HIDE DEF t
    <2> QED
        BY <1>1, <2>1, <2>2
<1>10. Listed' = Listed \cup {t}
    <2> HIDE DEF t
    <2>1. \A n \in DOMAIN tokens' : n \in DOMAIN tokens \/ n = Len(tokens) + 1
        BY <1>9
    <2>2. \A n \in DOMAIN tokens : n \in DOMAIN tokens'
        BY <1>9
    <2>3. Len(tokens) + 1 \in DOMAIN tokens'
        BY <1>9
    <2> QED
        BY <1>9, <2>1, <2>2, <2>3 DEF Listed
<1>11. \A u \in Listed : u.last <= f - 1 /\ u.last \in Nat
    <2> SUFFICES ASSUME NEW n \in DOMAIN tokens
                 PROVE  tokens[n].last <= f - 1 /\ tokens[n].last \in Nat
        BY DEF Listed
    <2> QED
        BY <1>3, <1>9 DEF EndBy, Listed, Token
<1>12. InSequence'
    <2>1. Listed' \subseteq TokensOfFile'
        BY <1>1, <1>5, <1>10, SameFile DEF InSequence
    <2>2. ASSUME NEW n \in DOMAIN tokens', NEW o \in DOMAIN tokens', n < o
          PROVE  tokens'[n].last < tokens'[o].first
        <3>1. n \in 1 .. Len(tokens)
            BY <1>9, <2>2
        <3>2. CASE o = Len(tokens) + 1
            <4>1. tokens'[o].first = f /\ tokens'[n] \in Listed
                BY <1>9, <3>1, <3>2 DEF Listed
            <4> QED
                BY <1>2, <1>11, <4>1, <1>9, <3>1
        <3>3. CASE o \in 1 .. Len(tokens)
            BY <1>1, <1>9, <2>2, <3>1, <3>3 DEF InSequence
        <3> QED
            BY <1>9, <3>2, <3>3
    <2>3. ASSUME NEW n \in DOMAIN tokens'
          PROVE  tokens'[n].last - tokens'[n].first + 1 < TokenMax
        <3>1. CASE n = Len(tokens) + 1
            BY <1>4, <1>9, <3>1
        <3>2. CASE n \in 1 .. Len(tokens)
            BY <1>1, <1>9, <3>2 DEF InSequence
        <3> QED
            BY <1>9, <3>1, <3>2
    <2> QED
        BY <2>1, <2>2, <2>3 DEF InSequence
<1>13. AllListed(pos)' /\ EndBy(pos)' /\ ~Open(pos)'
    <2>1. ASSUME NEW p, p = pos PROVE AllListed(p)' /\ EndBy(p)' /\ ~Open(p)'
        <3>1. AllListed(p)'
            BY <1>1, <1>8, <1>10, <2>1, SameFile DEF AllListed
        <3>2. \A u \in Listed \cup {t} : u.last <= pos
            <4>1. \A u \in Listed : u.last <= pos
                BY <1>2, <1>4, <1>11
            <4> QED
                BY <1>4, <4>1
        <3>3. EndBy(p)'
            BY <1>10, <2>1, <3>2 DEF EndBy
        <3>4. ~Open(p)'
            BY <1>1, <1>7, <2>1, SameFile
        <3> QED
            BY <3>1, <3>3, <3>4
    <2> QED
        BY <1>1, <2>1 DEF AllListed, EndBy, Open
<1>14. LexerTypes'
    <2>1. lineNo' \in Int
        BY <1>1 DEF LexerTypes, LineOfToken
    <2> QED
        BY <1>1, <1>9, <2>1 DEF LexerTypes
<1>15. pos' = Len(file') \/ file'[pos'] \in Space
    BY <1>1, <1>2
<1> QED
    BY <1>1, <1>12, <1>13, <1>14, <1>15
       DEF LexerInv, Outside, InRemark, InToken, AtEnd, Refused

\* Asking for the next token, or not asking again, reads nothing.
LEMMA NothingRead ==
    ASSUME LexerInv, NextToken \/ UNCHANGED lexerVars
    PROVE  LexerInv'
<1>1. /\ UNCHANGED <<file, pos, lineNo, c, len, tokens>>
      /\ \/ lexerPc = "returned" /\ lexerPc' = "skip"
         \/ lexerPc' = lexerPc
    BY DEF NextToken, lexerVars
<1>2. LexerTypes'
    BY <1>1 DEF LexerInv, LexerTypes
<1>3. InSequence'
    BY <1>1, SameSequence DEF LexerInv
<1>4. \A p : /\ (Open(p) <=> Open(p)') /\ (AllListed(p) <=> AllListed(p)')
             /\ (EndBy(p) <=> EndBy(p)') /\ (Starts(p) <=> Starts(p)')
             /\ (InComment(p) <=> InComment(p)')
    BY <1>1, SameFile DEF AllListed, EndBy, Listed
<1>5. /\ Open(pos) <=> Open(pos)'
      /\ AllListed(pos) <=> AllListed(pos)'
      /\ EndBy(pos) <=> EndBy(pos)'
    BY <1>1, <1>4 DEF Open, AllListed, EndBy
<1>6. Outside'
    BY <1>1, <1>5 DEF LexerInv, Outside
<1>7. InRemark'
    BY <1>1, <1>5 DEF LexerInv, InRemark
<1>8. InToken'
    <2>1. FirstOfToken' = FirstOfToken /\ LastOfToken' = LastOfToken
        BY <1>1 DEF FirstOfToken, LastOfToken
    <2>2. /\ Starts(FirstOfToken) <=> Starts(FirstOfToken)'
          /\ InComment(FirstOfToken) <=> InComment(FirstOfToken)'
          /\ AllListed(FirstOfToken - 1) <=> AllListed(FirstOfToken - 1)'
          /\ EndBy(FirstOfToken - 1) <=> EndBy(FirstOfToken - 1)'
        BY <1>4, <2>1 DEF Starts, InComment, AllListed, EndBy
    <2> QED
        BY <1>1, <2>1, <2>2 DEF LexerInv, InToken
<1>9. AtEnd'
    <2>1. AllListed(Len(file)) <=> AllListed(Len(file))'
        BY <1>1, <1>4 DEF AllListed
    <2> QED
        BY <1>1, <2>1 DEF LexerInv, AtEnd
<1>10. Refused'
    <2>1. TokensOfFile' = TokensOfFile
        BY <1>1, SameFile
    <2> QED
        BY <1>1, <2>1 DEF LexerInv, Refused
<1> QED
    BY <1>2, <1>3, <1>6, <1>7, <1>8, <1>9, <1>10 DEF LexerInv

\* At every character lexer_next knows where it is: outside, in a comment, or in
\* a token whose start it could name; and it has returned all tokens before.
THEOREM LexerInvariant == LexerSpec => []LexerInv
<1>1. LexerInv /\ [LexerNext]_lexerVars => LexerInv'
    BY SpaceSkipped, CommentSkipped, CharAppended, TokenEnded, NothingRead
       DEF LexerNext, Read, NoToken
<1> QED
    BY <1>1, LexerStart, PTL DEF LexerSpec

\* lexer_next returns the tokens of the file, all of them and in order, and
\* refuses one only when its buffer cannot hold it, for every file and buffer.
THEOREM AllTokensAreFound == LexerSpec => []FindsAllTokens
<1>1. LexerInv => FindsAllTokens
    <2> SUFFICES ASSUME LexerInv PROVE FindsAllTokens
        OBVIOUS
    <2>1. ASSUME lexerPc = "end", NEW t \in TokensOfFile PROVE t \in Listed
        <3>1. t.first <= Len(file)
            <4>1. file \in Seq(Classes)
                BY DEF LexerInv, LexerTypes
            <4>2. t.first \in 1 .. Len(file)
                BY DEF TokensOfFile, Stretches
            <4>3. Len(file) \in Nat
                BY <4>1
            <4> QED
                BY <4>2, <4>3
        <3> QED
            BY <2>1, <3>1 DEF LexerInv, AtEnd, AllListed
    <2> QED
        BY <2>1 DEF LexerInv, InSequence, Listed, Refused, FindsAllTokens
<1> QED
    BY <1>1, LexerInvariant, PTL

-----------------------------------------------------------------------------
(* The lines of the lexer's messages                                           *)

\* A token whose delimiter is the line break.
EndsLine(t) == t.last < Len(file) /\ file[t.last + 1] = "newline"

\* How far lexer->line is behind the line of the token that is returned.
LineFallsShort ==
    lexerPc = "returned" =>
        LET n == Len(tokens)
        IN  lineNo = LineOf(tokens[n].first)
                         - Cardinality({m \in 1 .. n - 1 : EndsLine(tokens[m])})

Breaks(p) == {q \in 1 .. p : file[q] = "newline"}
Shortfall == {n \in DOMAIN tokens : EndsLine(tokens[n])}

\* The counter is behind by one for each token that ends its line, at all times.
\* Of the last token, what it is behind for is not on the token's line.
Lines ==
    /\ lineNo = LineOf(pos + 1) - Cardinality(Shortfall)
    /\ lexerPc = "returned" =>
           /\ tokens # <<>>
           /\ LET t == tokens[Len(tokens)]
              IN  LineOf(pos + 1) = LineOf(t.first) + (IF EndsLine(t) THEN 1 ELSE 0)

\* A line break begins a new line.
LEMMA LinesAreCounted ==
    ASSUME NEW p \in Nat
    PROVE  /\ LineOf(p + 1) = 1 + Cardinality(Breaks(p))
           /\ IsFiniteSet(Breaks(p)) /\ Cardinality(Breaks(p)) \in Nat
           /\ LineOf(p + 2) = LineOf(p + 1) + (IF file[p + 1] = "newline" THEN 1 ELSE 0)
<1>1. \A n \in Nat : IsFiniteSet(Breaks(n)) /\ Cardinality(Breaks(n)) \in Nat
    <2> SUFFICES ASSUME NEW n \in Nat
                 PROVE  IsFiniteSet(Breaks(n)) /\ Cardinality(Breaks(n)) \in Nat
        OBVIOUS
    <2>1. IsFiniteSet(1 .. n) /\ Breaks(n) \in SUBSET (1 .. n)
        BY FS_Interval DEF Breaks
    <2> QED
        BY <2>1, FS_Subset, FS_CardinalityType
<1>2. \A n \in Nat : LineOf(n + 1) = 1 + Cardinality(Breaks(n))
    <2> SUFFICES ASSUME NEW n \in Nat PROVE LineOf(n + 1) = 1 + Cardinality(Breaks(n))
        OBVIOUS
    <2>1. n + 1 - 1 = n
        OBVIOUS
    <2> QED
        BY <2>1 DEF LineOf, Breaks
<1>3. p + 1 \in Nat /\ p + 2 = p + 1 + 1
    OBVIOUS
<1>4. LineOf(p + 2) = 1 + Cardinality(Breaks(p + 1))
    BY <1>2, <1>3
<1>5. CASE file[p + 1] = "newline"
    <2>1. Breaks(p + 1) = Breaks(p) \cup {p + 1} /\ p + 1 \notin Breaks(p)
        <3>1. \A q : q \in 1 .. p + 1 <=> q \in 1 .. p \/ q = p + 1
            OBVIOUS
        <3>2. p + 1 \notin 1 .. p
            OBVIOUS
        <3> QED
            BY <1>5, <3>1, <3>2 DEF Breaks
    <2>2. Cardinality(Breaks(p + 1)) = Cardinality(Breaks(p)) + 1
        BY <1>1, <2>1, FS_AddElement
    <2> QED
        BY <1>1, <1>2, <1>4, <1>5, <2>2
<1>6. CASE file[p + 1] # "newline"
    <2>1. Breaks(p + 1) = Breaks(p)
        <3>1. \A q : q \in 1 .. p + 1 <=> q \in 1 .. p \/ q = p + 1
            OBVIOUS
        <3> QED
            BY <1>6, <3>1 DEF Breaks
    <2> QED
        BY <1>1, <1>2, <1>4, <1>6, <2>1
<1> QED
    BY <1>1, <1>2, <1>5, <1>6

\* There is no line break within a token.
LEMMA TokensKeepTheLine ==
    ASSUME NEW f \in Nat, NEW p \in Nat, 0 < f, f <= p + 1,
           \A x \in f .. p : file[x] \notin Space
    PROVE  LineOf(p + 1) = LineOf(f)
<1>1. p + 1 - 1 = p /\ f - 1 \in Nat /\ f - 1 <= p
    OBVIOUS
<1>2. ASSUME NEW q \in 1 .. p, file[q] = "newline" PROVE q \in 1 .. f - 1
    <2>1. ~(q \in f .. p)
        BY <1>2 DEF Space
    <2> QED
        BY <2>1
<1>3. \A q \in 1 .. f - 1 : q \in 1 .. p
    BY <1>1
<1>4. {q \in 1 .. p : file[q] = "newline"} = {q \in 1 .. f - 1 : file[q] = "newline"}
    BY <1>2, <1>3
<1>5. 1 .. p + 1 - 1 = 1 .. p
    BY <1>1
<1> DEFINE after  == {q \in 1 .. p + 1 - 1 : file[q] = "newline"}
           before == {q \in 1 .. f - 1 : file[q] = "newline"}
<1>6. after = before
    BY <1>4, <1>5
<1>7. LineOf(p + 1) = 1 + Cardinality(after) /\ LineOf(f) = 1 + Cardinality(before)
    BY DEF LineOf
<1> HIDE DEF after, before
<1> QED
    BY <1>6, <1>7

\* What the counter is behind by is a number.
LEMMA ShortfallIsFinite ==
    ASSUME LexerTypes
    PROVE  IsFiniteSet(Shortfall) /\ Cardinality(Shortfall) \in Nat
<1>1. DOMAIN tokens = 1 .. Len(tokens) /\ Len(tokens) \in Nat
    <2>1. tokens \in Seq(Token)
        BY DEF LexerTypes
    <2> QED
        BY <2>1
<1>2. IsFiniteSet(1 .. Len(tokens)) /\ Shortfall \in SUBSET (1 .. Len(tokens))
    BY <1>1, FS_Interval DEF Shortfall
<1> QED
    BY <1>2, FS_Subset, FS_CardinalityType

\* Reading a character counts its line break.
LEMMA CharacterCounted ==
    ASSUME LexerTypes, Lines, Getc, file' = file, tokens' = tokens, lexerPc' # "returned"
    PROVE  Lines'
<1>1. \/ pos < Len(file) /\ pos' = pos + 1 /\ c' = file[pos + 1] /\ c' # EOF
      \/ pos = Len(file) /\ pos' = pos /\ c' = EOF
    BY NextCharacter
<1>2. pos \in Nat /\ lineNo \in Int
    <2>1. file \in Seq(Classes) /\ pos \in 0 .. Len(file) /\ lineNo \in Int
        BY DEF LexerTypes
    <2>2. Len(file) \in Nat
        BY <2>1
    <2> QED
        BY <2>1, <2>2
<1>3. \A p : LineOf(p) = LineOf(p)'
    BY DEF LineOf
<1>4. Shortfall' = Shortfall
    BY DEF Shortfall, EndsLine
<1>5. Cardinality(Shortfall) \in Nat /\ LineOf(pos + 1) \in Nat
    <2>1. LineOf(pos + 1) = 1 + Cardinality(Breaks(pos)) /\ Cardinality(Breaks(pos)) \in Nat
        BY <1>2, LinesAreCounted
    <2> QED
        BY <2>1, ShortfallIsFinite
<1>6. lineNo' = IF c' = "newline" THEN lineNo + 1 ELSE lineNo
    BY DEF Getc
<1>7. lineNo = LineOf(pos + 1) - Cardinality(Shortfall)
    BY DEF Lines
<1>8. CASE pos' = pos + 1 /\ c' = file[pos + 1]
    <2>1. LineOf(pos + 2) = LineOf(pos + 1) + (IF file[pos + 1] = "newline" THEN 1 ELSE 0)
        BY <1>2, LinesAreCounted
    <2>2. lineNo' = LineOf(pos + 2) - Cardinality(Shortfall)
        BY <1>2, <1>5, <1>6, <1>7, <1>8, <2>1
    <2>3. pos' + 1 = pos + 2
        BY <1>2, <1>8
    <2>4. \A p \in {pos + 2} : lineNo' = LineOf(p)' - Cardinality(Shortfall)'
        BY <1>3, <1>4, <2>2
    <2> QED
        BY <2>3, <2>4 DEF Lines, LineOf
<1>9. CASE pos' = pos /\ c' = EOF
    <2>1. lineNo' = lineNo
        BY <1>6, <1>9 DEF EOF
    <2>2. \A p \in {pos + 1} : lineNo' = LineOf(p)' - Cardinality(Shortfall)'
        BY <1>3, <1>4, <1>7, <2>1
    <2> QED
        BY <1>9, <2>2 DEF Lines, LineOf
<1> QED
    BY <1>1, <1>8, <1>9

\* Taking back the line break that ends a token.
LEMMA BreakTakenBack ==
    ASSUME LexerInv, Lines, EndToken
    PROVE  Lines'
<1> DEFINE f == FirstOfToken
           t == [first |-> f, last |-> LastOfToken]
<1>1. /\ lexerPc = "token" /\ (c = EOF \/ c \in Space)
      /\ lineNo' = LineOfToken /\ tokens' = Append(tokens, t)
      /\ lexerPc' = "returned" /\ UNCHANGED <<file, pos, c, len>>
      /\ LexerTypes /\ InToken
    BY DEF EndToken, LexerInv, FirstOfToken
<1>2. /\ pos \in Nat /\ Len(file) \in Nat /\ pos <= Len(file) /\ len \in Nat
      /\ f \in 1 .. Len(file) /\ f \in Nat
      /\ LastOfToken \in Nat /\ LastOfToken = f + len - 1
      /\ c = EOF => LastOfToken = pos /\ pos = Len(file)
      /\ c # EOF => LastOfToken = pos - 1 /\ pos > 0 /\ c = file[pos]
    BY <1>1, TokenSpan
<1>3. \A x \in f .. LastOfToken : file[x] \notin Space
    BY <1>1 DEF InToken
<1> HIDE DEF f
<1>4. EndsLine(t) <=> c = "newline"
    <2>1. CASE c = EOF
        <3>1. ~(LastOfToken < Len(file))
            BY <1>2, <2>1
        <3> QED
            BY <2>1, <3>1 DEF EndsLine, EOF
    <2>2. CASE c # EOF
        <3>1. LastOfToken < Len(file) /\ LastOfToken + 1 = pos
            BY <1>2, <2>2
        <3> QED
            BY <1>2, <2>2, <3>1 DEF EndsLine
    <2> QED
        BY <2>1, <2>2
<1>5. LineOf(LastOfToken + 1) = LineOf(f)
    <2>1. 0 < f /\ f <= LastOfToken + 1
        BY <1>2
    <2> QED
        BY <1>2, <1>3, <2>1, TokensKeepTheLine
<1>6. LineOf(f) \in Nat
    <2>1. LineOf(LastOfToken + 1) = 1 + Cardinality(Breaks(LastOfToken))
          /\ Cardinality(Breaks(LastOfToken)) \in Nat
        BY <1>2, LinesAreCounted
    <2> QED
        BY <1>5, <2>1
<1>7. LineOf(pos + 1) = LineOf(f) + (IF c = "newline" THEN 1 ELSE 0)
    <2>1. CASE c = EOF
        <3>1. LineOf(f) = LineOf(f) + 0
            BY <1>6
        <3> QED
            BY <1>2, <1>5, <2>1, <3>1 DEF EOF
    <2>2. CASE c # EOF
        <3>1. pos + 1 = LastOfToken + 2 /\ pos = LastOfToken + 1
            BY <1>2, <2>2
        <3>2. LineOf(LastOfToken + 2) =
                  LineOf(LastOfToken + 1) + (IF file[LastOfToken + 1] = "newline" THEN 1 ELSE 0)
            BY <1>2, LinesAreCounted
        <3> QED
            BY <1>2, <1>5, <2>2, <3>1, <3>2
    <2> QED
        BY <2>1, <2>2
<1>8. /\ Len(tokens) \in Nat /\ DOMAIN tokens = 1 .. Len(tokens)
      /\ DOMAIN tokens' = 1 .. Len(tokens) + 1 /\ Len(tokens') = Len(tokens) + 1
      /\ \A n \in DOMAIN tokens : tokens'[n] = tokens[n]
      /\ tokens'[Len(tokens) + 1] = t /\ tokens' # <<>>
    <2>1. tokens \in Seq(Token)
        BY <1>1 DEF LexerTypes
    <2>2. t \in Token
        BY <1>2 DEF Token
    <2> HIDE DEF t
    <2> QED
        BY <1>1, <2>1, <2>2
<1> HIDE DEF t
<1>9. \A s : EndsLine(s) <=> EndsLine(s)'
    BY <1>1 DEF EndsLine
<1>10. Shortfall' = IF EndsLine(t) THEN Shortfall \cup {Len(tokens) + 1} ELSE Shortfall
    <2>1. \A n : n \in DOMAIN tokens' <=> n \in DOMAIN tokens \/ n = Len(tokens) + 1
        BY <1>8
    <2>2. Shortfall' = {n \in DOMAIN tokens' : EndsLine(tokens'[n])}
        BY <1>1 DEF Shortfall, EndsLine
    <2> QED
        BY <1>8, <2>1, <2>2 DEF Shortfall
<1>11. Len(tokens) + 1 \notin Shortfall
    BY <1>8 DEF Shortfall
<1>12. /\ Cardinality(Shortfall) \in Nat
       /\ Cardinality(Shortfall') = Cardinality(Shortfall) + (IF EndsLine(t) THEN 1 ELSE 0)
    <2>1. IsFiniteSet(Shortfall) /\ Cardinality(Shortfall) \in Nat
        BY <1>1, ShortfallIsFinite
    <2>2. CASE EndsLine(t)
        BY <1>10, <1>11, <2>1, <2>2, FS_AddElement
    <2>3. CASE ~EndsLine(t)
        BY <1>10, <2>1, <2>3
    <2> QED
        BY <2>1, <2>2, <2>3
<1>13. lineNo = LineOf(pos + 1) - Cardinality(Shortfall) /\ LineOf(pos + 1) \in Nat
    BY <1>6, <1>7 DEF Lines
<1>14. lineNo' = LineOf(pos + 1) - Cardinality(Shortfall')
    <2>1. lineNo' = IF c = "newline" THEN lineNo - 1 ELSE lineNo
        BY <1>1 DEF LineOfToken
    <2> QED
        BY <1>4, <1>12, <1>13, <2>1
<1>15. \A p : LineOf(p) = LineOf(p)'
    BY <1>1 DEF LineOf
<1>16. LineOf(pos + 1)' = LineOf(pos + 1)
    BY <1>1 DEF LineOf
<1>17. t.first = f
    BY DEF t
<1>19. \A s \in {t} : LineOf(pos + 1)' = LineOf(s.first)' + (IF EndsLine(s)' THEN 1 ELSE 0)
    <2> SUFFICES ASSUME NEW s \in {t}
                 PROVE  LineOf(pos + 1)' = LineOf(s.first)' + (IF EndsLine(s)' THEN 1 ELSE 0)
        OBVIOUS
    <2>1. LineOf(s.first)' = LineOf(f)
        BY <1>15, <1>17
    <2>2. EndsLine(s)' <=> c = "newline"
        BY <1>4, <1>9
    <2>3. CASE c = "newline"
        BY <1>7, <1>16, <2>1, <2>2, <2>3
    <2>4. CASE c # "newline"
        BY <1>7, <1>16, <2>1, <2>2, <2>4
    <2> QED
        BY <2>3, <2>4
<1>20. tokens'[Len(tokens')] \in {t}
    BY <1>8
<1>21. LET s == tokens[Len(tokens)]
       IN  (LineOf(pos + 1) = LineOf(s.first) + (IF EndsLine(s) THEN 1 ELSE 0))'
    BY <1>19, <1>20 DEF LineOf, EndsLine
<1> QED
    BY <1>8, <1>14, <1>16, <1>21 DEF Lines


\* The first line is number one.
LEMMA LinesStart == LexerInit => Lines
<1> SUFFICES ASSUME LexerInit PROVE Lines
    OBVIOUS
<1>1. pos = 0 /\ lineNo = 1 /\ tokens = <<>> /\ lexerPc = "skip"
    BY DEF LexerInit
<1>2. Cardinality({}) = 0
    BY FS_EmptySet
<1>3. Shortfall = {}
    BY <1>1 DEF Shortfall
<1>4. Breaks(0) = {}
    BY DEF Breaks
<1>5. LineOf(0 + 1) = 1 + Cardinality(Breaks(0))
    BY LinesAreCounted
<1>6. LineOf(pos + 1) = 1
    <2>1. LineOf(pos + 1) = LineOf(0 + 1)
        BY <1>1
    <2>2. LineOf(0 + 1) = 1 + 0
        BY <1>2, <1>4, <1>5
    <2> QED
        BY <2>1, <2>2
<1> QED
    BY <1>1, <1>2, <1>3, <1>6 DEF Lines

\* Every step keeps the account of the lines.
LEMMA LinesKept ==
    ASSUME LexerInv, Lines, [LexerNext]_lexerVars
    PROVE  Lines'
<1>1. CASE SkipSpace
    <2>1. Getc /\ file' = file /\ tokens' = tokens /\ lexerPc' # "returned"
        BY <1>1 DEF SkipSpace
    <2> QED
        BY <2>1, CharacterCounted DEF LexerInv
<1>2. CASE SkipComment
    <2>1. Getc /\ file' = file /\ tokens' = tokens /\ lexerPc' # "returned"
        BY <1>2 DEF SkipComment
    <2> QED
        BY <2>1, CharacterCounted DEF LexerInv
<1>3. CASE AppendChar /\ ~BufferFull
    <2>1. Getc /\ file' = file /\ tokens' = tokens /\ lexerPc' # "returned"
        BY <1>3 DEF AppendChar
    <2> QED
        BY <2>1, CharacterCounted DEF LexerInv
<1>4. CASE EndToken
    BY <1>4, BreakTakenBack
<1>5. CASE (AppendChar /\ BufferFull) \/ NextToken \/ UNCHANGED lexerVars
    <2>1. /\ UNCHANGED <<file, pos, lineNo, tokens>>
          /\ lexerPc' # "returned" \/ lexerPc' = lexerPc
        BY <1>5 DEF AppendChar, NextToken, lexerVars
    <2> QED
        BY <2>1 DEF Lines, LineOf, Shortfall, EndsLine
<1> QED
    BY <1>1, <1>2, <1>3, <1>4, <1>5 DEF LexerNext, Read, NoToken

\* What precedes the last token is finite, and its line is a number.
LEMMA LastIsOnALine ==
    ASSUME LexerInv, Lines, lexerPc = "returned"
    PROVE  /\ Len(tokens) \in Nat /\ Len(tokens) > 0 /\ DOMAIN tokens = 1 .. Len(tokens)
           /\ LineOf(tokens[Len(tokens)].first) \in Nat
           /\ LET earlier == {m \in 1 .. Len(tokens) - 1 : EndsLine(tokens[m])}
              IN  IsFiniteSet(earlier) /\ Cardinality(earlier) \in Nat
<1> DEFINE last == tokens[Len(tokens)]
           earlier == {m \in 1 .. Len(tokens) - 1 : EndsLine(tokens[m])}
<1>1. tokens # <<>>
    BY DEF Lines
<1>2. Len(tokens) \in Nat /\ Len(tokens) > 0 /\ DOMAIN tokens = 1 .. Len(tokens)
      /\ last.first \in Nat /\ last.first > 0
    <2>1. tokens \in Seq(Token)
        BY DEF LexerInv, LexerTypes
    <2>2. Len(tokens) \in Nat /\ Len(tokens) > 0 /\ DOMAIN tokens = 1 .. Len(tokens)
        BY <1>1, <2>1
    <2>3. last \in Listed
        BY <2>2 DEF Listed
    <2>4. last.first \in 1 .. Len(file)
        BY <2>3 DEF LexerInv, InSequence, TokensOfFile, Stretches
    <2> QED
        BY <2>2, <2>4
<1>3. IsFiniteSet(earlier) /\ Cardinality(earlier) \in Nat
    <2>1. IsFiniteSet(1 .. Len(tokens)) /\ earlier \in SUBSET (1 .. Len(tokens))
        BY <1>2, FS_Interval
    <2> QED
        BY <2>1, FS_Subset, FS_CardinalityType
<1>4. LineOf(last.first) \in Nat
    <2>1. last.first - 1 \in Nat /\ last.first - 1 + 1 = last.first
        BY <1>2
    <2>2. LineOf(last.first) = 1 + Cardinality(Breaks(last.first - 1))
          /\ Cardinality(Breaks(last.first - 1)) \in Nat
        <3>1. \A p \in Nat : LineOf(p + 1) = 1 + Cardinality(Breaks(p))
                             /\ Cardinality(Breaks(p)) \in Nat
            BY LinesAreCounted
        <3> HIDE DEF last
        <3> QED
            BY <2>1, <3>1
    <2> QED
        BY <2>2
<1> QED
    BY <1>2, <1>3, <1>4

\* The line that lexer->line gives a token is short of the token's own line by
\* exactly the number of earlier tokens that end their lines, for every file.
LEMMA FallsShort == LexerInv /\ Lines => LineFallsShort
<1> SUFFICES ASSUME LexerInv, Lines, lexerPc = "returned"
             PROVE  lineNo = LineOf(tokens[Len(tokens)].first)
                        - Cardinality({m \in 1 .. Len(tokens) - 1 : EndsLine(tokens[m])})
    BY DEF LineFallsShort
<1> DEFINE last == tokens[Len(tokens)]
           earlier == {m \in 1 .. Len(tokens) - 1 : EndsLine(tokens[m])}
<1>1. /\ tokens # <<>> /\ lineNo = LineOf(pos + 1) - Cardinality(Shortfall)
      /\ LineOf(pos + 1) = LineOf(last.first) + (IF EndsLine(last) THEN 1 ELSE 0)
    BY DEF Lines
<1>2. /\ Len(tokens) \in Nat /\ Len(tokens) > 0 /\ DOMAIN tokens = 1 .. Len(tokens)
      /\ LineOf(last.first) \in Nat
      /\ IsFiniteSet(earlier) /\ Cardinality(earlier) \in Nat
    BY LastIsOnALine
<1>3. \A m : m \in DOMAIN tokens <=> m \in 1 .. Len(tokens) - 1 \/ m = Len(tokens)
    BY <1>2
<1>4. Len(tokens) \notin 1 .. Len(tokens) - 1
    BY <1>2
<1>5. CASE EndsLine(last)
    <2>1. Shortfall = earlier \cup {Len(tokens)} /\ Len(tokens) \notin earlier
        BY <1>3, <1>4, <1>5 DEF Shortfall
    <2>2. Cardinality(Shortfall) = Cardinality(earlier) + 1
        BY <1>2, <2>1, FS_AddElement
    <2> HIDE DEF last, earlier
    <2>3. lineNo = LineOf(last.first) - Cardinality(earlier)
        BY <1>1, <1>2, <1>5, <2>2
    <2> QED
        BY <2>3 DEF last, earlier
<1>6. CASE ~EndsLine(last)
    <2>1. Shortfall = earlier
        BY <1>3, <1>6 DEF Shortfall
    <2> HIDE DEF last, earlier
    <2>2. lineNo = LineOf(last.first) - Cardinality(earlier)
        BY <1>1, <1>2, <1>6, <2>1
    <2> QED
        BY <2>2 DEF last, earlier
<1> QED
    BY <1>5, <1>6

\* The message about a token names the token's line exactly as long as no earlier
\* token has ended its line; then it is behind by the number of those tokens,
\* for every file and buffer.
THEOREM NamesLineUntilBreak ==
    LexerSpec =>
        [](/\ LineFallsShort
           /\ lexerPc = "returned" =>
                  (MessageNamesLine
                      <=> \A n \in 1 .. Len(tokens) - 1 : ~EndsLine(tokens[n])))
<1>1. LexerInv /\ Lines =>
          (/\ LineFallsShort
           /\ lexerPc = "returned" =>
                  (MessageNamesLine
                      <=> \A n \in 1 .. Len(tokens) - 1 : ~EndsLine(tokens[n])))
    <2> SUFFICES ASSUME LexerInv, Lines, lexerPc = "returned"
                 PROVE  MessageNamesLine
                            <=> \A n \in 1 .. Len(tokens) - 1 : ~EndsLine(tokens[n])
        BY FallsShort
    <2> DEFINE earlier == {n \in 1 .. Len(tokens) - 1 : EndsLine(tokens[n])}
               lineOfLast == LineOf(tokens[Len(tokens)].first)
    <2>1. lineNo = lineOfLast - Cardinality(earlier)
        BY FallsShort DEF LineFallsShort
    <2>2. lineOfLast \in Nat /\ IsFiniteSet(earlier) /\ Cardinality(earlier) \in Nat
        BY LastIsOnALine
    <2>3. Cardinality(earlier) = 0 <=> earlier = {}
        BY <2>2, FS_EmptySet
    <2>4. MessageNamesLine <=> lineNo = lineOfLast
        BY DEF MessageNamesLine
    <2>5. MessageNamesLine <=> earlier = {}
        <3> HIDE DEF earlier, lineOfLast
        <3> QED
            BY <2>1, <2>2, <2>3, <2>4
    <2> QED
        BY <2>5
<1>2. LexerInv /\ Lines /\ [LexerNext]_lexerVars => Lines'
    BY LinesKept
<1> QED
    BY <1>1, <1>2, LinesStart, LexerInvariant, PTL DEF LexerSpec

=============================================================================
