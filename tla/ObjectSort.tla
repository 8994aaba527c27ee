----------------------------- MODULE ObjectSort -----------------------------
(***************************************************************************)
(* sort_objects_by_id (core/problem.c): the insertion sort that puts the   *)
(* objects in the order the determinism contract speaks of.  It runs on    *)
(* the root when a problem is read, and once more on every rank that       *)
(* receives it.  An object is its id and its place in the input.           *)
(***************************************************************************)
EXTENDS InputLimits, Sequences

\* The objects of an input whose n-th object has id ids[n].
Input(ids) == [n \in DOMAIN ids |-> [id |-> ids[n], pos |-> n]]

\* x comes before y: a lower id, or the same id earlier in the input.
Before(x, y) == x.id < y.id \/ (x.id = y.id /\ x.pos < y.pos)

InOrder(s) == \A a, b \in DOMAIN s : a < b => Before(s[a], s[b])

Elements(s) == {s[n] : n \in DOMAIN s}

VARIABLES
    ids,        \* the ids in the order of the input
    objects,    \* the array being sorted
    i,          \* the outer index, from 0 in the code and from 1 here
    j,          \* the inner index; 0 is before the array
    key,        \* the object being inserted
    pc          \* "outer", "inner" or "done"

vars == <<ids, objects, i, j, key, pc>>
Count == Len(objects)

Init ==
    /\ \E n \in 0 .. MaxCount : ids \in [1 .. n -> Ids]
    /\ objects = Input(ids)
    /\ i = 2
    /\ j = 1
    /\ key = [id |-> 0, pos |-> 0]
    /\ pc = "outer"

TakeKey ==
    /\ pc = "outer" /\ i <= Count
    /\ key' = objects[i]
    /\ j' = i - 1
    /\ pc' = "inner"
    /\ UNCHANGED <<ids, objects, i>>

\* Defect: equal ids change places.
NotLess == objects[j].id >= key.id
Greater == objects[j].id > key.id

InArray == j >= 1

ShiftUp ==
    /\ pc = "inner" /\ InArray /\ Greater
    /\ objects' = [objects EXCEPT ![j + 1] = objects[j]]
    /\ j' = j - 1
    /\ UNCHANGED <<ids, i, key, pc>>

Hole == j + 1

NextIndex == i + 1

Insert ==
    /\ pc = "inner" /\ ~(InArray /\ Greater)
    /\ objects' = [objects EXCEPT ![Hole] = key]
    /\ i' = NextIndex
    /\ pc' = "outer"
    /\ UNCHANGED <<ids, j, key>>

Finish ==
    /\ pc = "outer" /\ i > Count
    /\ pc' = "done"
    /\ UNCHANGED <<ids, objects, i, j, key>>

Sorted == pc = "done" /\ UNCHANGED vars

Sort == TakeKey \/ ShiftUp \/ Insert \/ Finish
Next == Sort \/ Sorted

Spec == Init /\ [][Next]_vars

-----------------------------------------------------------------------------
(* Correctness *)

\* No object is lost or doubled while others are shifted: with the key in the
\* hole, the array always holds the objects of the input.
NothingLost ==
    LET array == IF pc = "inner" THEN [objects EXCEPT ![j + 1] = key] ELSE objects
    IN  Elements(array) = Elements(Input(ids))

\* The caller gets the objects of the input in the contract's order, of which
\* there is only one: the sort is stable ("it fixes the tie-break for
\* duplicate ids to input order"), and all ranks agree however often they sort.
SortedStably ==
    pc = "done" => InOrder(objects) /\ Elements(objects) = Elements(Input(ids))

=============================================================================
