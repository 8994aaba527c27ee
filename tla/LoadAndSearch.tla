--------------------------- MODULE LoadAndSearch ---------------------------
(***************************************************************************)
(* From the objects of an input to a line of the output: validation sorts  *)
(* the objects (ObjectSort), the reference backend scans the sorted array  *)
(* (SerialSearch), and the writer tells what it finds (core/writer.c).     *)
(* Only here do the ids of the objects, their places in the input and the  *)
(* match meet: the sort knows no pictures, and the backends know objects   *)
(* by their index in the sorted array.                                     *)
(***************************************************************************)
EXTENDS ObjectSort

CONSTANTS
    N,          \* picture->n
    MaxM        \* bound on the sides of objects

K == MaxCount

VARIABLES
    side,       \* the side of each object, in the order of the input
    cells,      \* where each object matches, in the order of the input
    k,          \* serial_search: index of the object being tried
    placement,  \* serial_search: its "key"
    out,        \* the Match to fill, with the object's index
    returned,   \* "no", then the status of the search
    line        \* what the writer has told of the picture

sortVars == <<ids, objects, i, j, key, pc>>
searchVars == <<k, placement, out, returned>>
loadVars == <<ids, objects, i, j, key, pc, side, cells, k, placement, out, returned, line>>

\* problem->objects as the backends see it.
Serial == INSTANCE SerialSearch WITH
    key <- placement,
    m <- [o \in 0 .. K - 1 |-> side[objects[o + 1].pos]],
    hits <- [o \in 0 .. K - 1 |-> cells[objects[o + 1].pos]]

\* The parser keeps to the maximal side.
ASSUME PictureAssumption == N \in 1 .. Serial!MaxSide
ASSUME SidesAssumption == MaxM \in 1 .. Serial!MaxSide

Unwritten == <<>>
NotFound == <<"No Objects were found">>

LoadInit ==
    /\ Init /\ Len(ids) = K
    /\ side \in [1 .. K -> 1 .. MaxM]
    /\ cells \in [1 .. K -> SUBSET ((0 .. N - 1) \X (0 .. N - 1))]
    /\ Serial!Init
    /\ line = Unwritten

SortStep ==
    /\ Sort
    /\ UNCHANGED <<side, cells, searchVars, line>>

SearchStep ==
    /\ pc = "done"
    /\ UNCHANGED <<sortVars, side, cells, line>>
    /\ Serial!Next

\* Defect: the index of the object is told for its id.
IndexTold == out.object

\* What the backend puts into out->object_id.
ObjectId == IF out = Serial!NoMatch THEN -1 ELSE objects[out.object + 1].id

\* msearch_match_found: there is no flag beside the id.
Found == ObjectId >= 0

WriteLine ==
    /\ returned = "OK" /\ line = Unwritten
    /\ line' = IF Found THEN <<"found Object", ObjectId, out.row, out.col>> ELSE NotFound
    /\ UNCHANGED <<sortVars, side, cells, searchVars>>

Written == line # Unwritten /\ UNCHANGED loadVars

LoadNext == SortStep \/ SearchStep \/ WriteLine \/ Written

LoadSpec == LoadInit /\ [][LoadNext]_loadVars

-----------------------------------------------------------------------------
(* Correctness *)

\* Once the objects are sorted, the scan keeps the contract that it defines for
\* the other backends: it answers once, its first hit is the canonical match,
\* and it touches neither objects nor pictures.
SerialKeepsContract ==
    [][pc = "done" => Serial!Contract!Next \/ UNCHANGED Serial!Contract!searchVars]_loadVars

\* The objects of the input that occur in the picture, and the one that the
\* contract asks for: the lowest id, and of equal ids the first in the input.
Occurring == {n \in 1 .. K : cells[n] # {}}

Winner ==
    CHOOSE n \in Occurring : \A o \in Occurring \ {n} : Before(Input(ids)[n], Input(ids)[o])

\* The backend's answer is "the object with the lowest id that occurs anywhere in
\* the picture", of the objects with that id the first in the input that occurs,
\* and its first placement in row-major order, in whatever order the input
\* gives the objects and whatever ids it gives them.
LowestIdAnswered ==
    returned = "OK" =>
        IF Occurring = {} THEN out = Serial!NoMatch
        ELSE /\ ObjectId = ids[Winner]
             /\ <<out.row, out.col>> \in cells[Winner]
             /\ \A other \in cells[Winner] :
                    Serial!RowMajorBefore(<<out.row, out.col>>, other)

\* That answer is what the user is told: the line written of a picture names the
\* lowest id that occurs, and says "No Objects were found" only where none does.
\* It is not so of negative ids, which the parser accepts and the writer takes
\* for the mark of a missing match.
LowestIdWins ==
    line # Unwritten =>
        IF Occurring = {} THEN line = NotFound
        ELSE \E cell \in cells[Winner] :
                 /\ line = <<"found Object", ids[Winner], cell[1], cell[2]>>
                 /\ \A other \in cells[Winner] : Serial!RowMajorBefore(cell, other)

=============================================================================
