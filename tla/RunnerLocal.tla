---------------------------- MODULE RunnerLocal ----------------------------
(***************************************************************************)
(* msearch_run_local (runtime/runner_local.c): one process searches the    *)
(* pictures in order and stops at the first failure.  It serves a build    *)
(* without MPI, a world of one rank, and each backend that --verify tries. *)
(* The caller's array may hold the results of an earlier call, which       *)
(* --bench and --verify reuse.                                             *)
(***************************************************************************)
EXTENDS Naturals

CONSTANTS
    P,          \* problem->num_pictures
    Canonical,  \* the canonical match of each picture
    NoMatch,    \* msearch_match_none, what is told of a picture without a match
    Zeroed      \* an entry of a calloc'ed array

Pictures == 1 .. P
Results == {Canonical[i] : i \in Pictures} \cup {NoMatch, Zeroed}

ASSUME PicturesAssumption == P \in Nat
ASSUME CanonicalAssumption == Canonical = [i \in Pictures |-> Canonical[i]]

VARIABLES
    pc,         \* "create", "loop", "destroy", "return", "returned"
    i,          \* the picture the loop is at
    ctx,        \* the backend context: "null", "open" or "destroyed"
    status,     \* the local "status"
    matches,    \* the caller's array
    before      \* what it held when the call was made

vars == <<pc, i, ctx, status, matches, before>>

Init ==
    /\ pc = "create"
    /\ i = 1
    /\ ctx = "null"
    /\ status = "OK"
    /\ matches \in [Pictures -> Results]
    /\ before = matches

CreateSucceeds ==
    /\ pc = "create"
    /\ ctx' = "open"
    /\ pc' = "loop"
    /\ UNCHANGED <<i, status, matches, before>>

\* A failing create leaves no context, and nothing is left to do but return.
CreateFails ==
    /\ pc = "create"
    /\ status' = "BACKEND"
    /\ pc' = "return"
    /\ UNCHANGED <<i, ctx, matches, before>>

NextPicture == i + 1

\* "status" is assigned by every search.
SearchReturns(match) ==
    /\ pc = "loop" /\ i <= P
    /\ matches' = [matches EXCEPT ![i] = match]
    /\ status' = "OK"
    /\ i' = NextPicture
    /\ UNCHANGED <<pc, ctx, before>>

\* A backend that keeps its contract; --verify is there for those that do not.
SearchSucceeds == SearchReturns(Canonical[i])

Break == pc' = "destroy" /\ UNCHANGED i

\* The search is handed the entry itself.  The one that can fail (cuda_search)
\* writes "none" into it before its first call that may fail.
SearchFails ==
    /\ pc = "loop" /\ i <= P
    /\ matches' = [matches EXCEPT ![i] = NoMatch]
    /\ status' = "BACKEND"
    /\ Break
    /\ UNCHANGED <<ctx, before>>

LoopEnds ==
    /\ pc = "loop" /\ i > P
    /\ pc' = "destroy"
    /\ UNCHANGED <<i, ctx, status, matches, before>>

Destroy ==
    /\ pc = "destroy"
    /\ ctx' = "destroyed"
    /\ pc' = "return"
    /\ UNCHANGED <<i, status, matches, before>>

Return ==
    /\ pc = "return"
    /\ pc' = "returned"
    /\ UNCHANGED <<i, ctx, status, matches, before>>

Returned == pc = "returned" /\ UNCHANGED vars

Proceed == CreateSucceeds \/ SearchSucceeds \/ LoopEnds \/ Destroy \/ Return

Next == Proceed \/ CreateFails \/ SearchFails \/ Returned

Spec == Init /\ [][Next]_vars

-----------------------------------------------------------------------------
(* Correctness *)

\* The local runtime keeps the promise of a runtime (SearchJob) in a world of
\* one: a failure of any picture is not lost by a later success, and "ok" means
\* that the array holds the canonical match of every picture.
Job == INSTANCE SearchJob WITH
    Ranks <- {0},
    faulted <- status # "OK",
    verdict <- [r \in {0} |-> IF pc # "returned" THEN "none"
                              ELSE IF status = "OK" THEN "ok" ELSE "failed"]

JobSpec == Job!Spec

\* A call that fails leaves results up to the picture that failed, "none" for
\* that one, and the caller's old values behind it: what --verify finds in its
\* reused array.  If it is "create" that failed, all values are the old ones.
SearchFailed == status # "OK" /\ ctx # "null"

ResultsUpToFailure ==
    \A j \in Pictures :
        matches[j] = IF j < i THEN Canonical[j]
                     ELSE IF j = i /\ SearchFailed THEN NoMatch ELSE before[j]

\* The backend is called with an open context only, and none is left open.
ContextDiscipline ==
    /\ pc \in {"loop", "destroy"} => ctx = "open"
    /\ pc = "returned" => ctx # "open"

=============================================================================
