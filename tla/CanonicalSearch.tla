--------------------------- MODULE CanonicalSearch ---------------------------
(***************************************************************************)
(* What "search" of a backend promises (backend.h, "the determinism        *)
(* contract"): it answers once, and the answer is the canonical match of   *)
(* the picture; a backend that can fail may instead report a failure, with *)
(* no match.                                                               *)
(***************************************************************************)
EXTENDS SearchProblem

CONSTANT MayFail    \* can a search of this backend fail?

VARIABLES
    out,        \* the Match the caller passed in
    returned    \* what the call returned, "no" before it does

searchVars == <<m, hits, out, returned>>

Init ==
    /\ ValidProblem
    /\ out = NoMatch
    /\ returned = "no"

Succeed ==
    /\ returned = "no"
    /\ returned' = "OK"
    /\ IsCanonical(out')
    /\ UNCHANGED problem

Fail ==
    /\ returned = "no"
    /\ MayFail
    /\ returned' = "BACKEND"
    /\ UNCHANGED <<m, hits, out>>

Next == Succeed \/ Fail

Spec == Init /\ [][Next]_searchVars

=============================================================================
