---------------------------- MODULE SerialSearch ----------------------------
(***************************************************************************)
(* The reference backend (backend_serial.c): objects in array order,       *)
(* placements in key order, stop at the first hit.                         *)
(***************************************************************************)
EXTENDS SearchProblem

VARIABLES
    k,          \* index of the object being tried
    key,        \* placement being tried
    out,        \* the Match to fill
    returned    \* "no", then the status

vars == <<m, hits, k, key, out, returned>>

Init ==
    /\ ValidProblem
    /\ k = 0
    /\ key = 0
    /\ out = NoMatch
    /\ returned = "no"

\* The object does not fit, or none of its placements matched.
ObjectExhausted == key >= Placements(k)

FollowingObject == k + 1

NextObject ==
    /\ returned = "no" /\ k < K
    /\ ObjectExhausted
    /\ k' = FollowingObject
    /\ key' = 0
    /\ UNCHANGED <<m, hits, out, returned>>

Miss ==
    /\ returned = "no" /\ k < K
    /\ ~ObjectExhausted
    /\ ~IsHit(k, key)
    /\ key' = key + 1
    /\ UNCHANGED <<m, hits, k, out, returned>>

Hit ==
    /\ returned = "no" /\ k < K
    /\ ~ObjectExhausted
    /\ IsHit(k, key)
    /\ out' = Answer(k, key)
    /\ returned' = "OK"
    /\ UNCHANGED <<m, hits, k, key>>

NothingFound ==
    /\ returned = "no"
    /\ k = K
    /\ returned' = "OK"
    /\ UNCHANGED <<m, hits, k, key, out>>

Next == NextObject \/ Miss \/ Hit \/ NothingFound

Spec == Init /\ [][Next]_vars

-----------------------------------------------------------------------------
\* The contract that the scan defines for the other backends.
Contract == INSTANCE CanonicalSearch WITH MayFail <- FALSE

=============================================================================
