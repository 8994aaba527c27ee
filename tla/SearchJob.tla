----------------------------- MODULE SearchJob -----------------------------
(***************************************************************************)
(* What a runtime of msearch promises its caller, whatever the number of   *)
(* ranks (runtime.h): every rank is handed a verdict, all verdicts agree,  *)
(* and when they are "ok" the root holds the canonical match of every      *)
(* picture, the one a serial scan of the objects would have produced       *)
(* (backend.h, "the determinism contract").  A job fails only when some    *)
(* rank really met a fault: an allocation or a backend call that failed.   *)
(***************************************************************************)
EXTENDS Naturals

CONSTANTS
    Ranks,      \* the ranks that call the runtime
    Pictures,   \* indices of the pictures of the problem
    Results,    \* every value an entry of the caller's array may hold
    Canonical   \* [Pictures -> Results], the canonical match of each picture

VARIABLES
    faulted,    \* has some rank met a local failure?
    matches,    \* the root's result array
    verdict     \* what the call returned on each rank, "none" before that

jobVars == <<faulted, matches, verdict>>

Pending == \A r \in Ranks : verdict[r] = "none"

Init ==
    /\ faulted = FALSE
    /\ matches \in [Pictures -> Results]
    /\ verdict = [r \in Ranks |-> "none"]

\* A fault can strike as long as nobody has been told an outcome.  What fails may
\* have written to the array.
Fault ==
    /\ Pending
    /\ faulted' = TRUE
    /\ matches' \in [Pictures -> Results]
    /\ UNCHANGED verdict

\* Until then the array may hold anything, a partial result included.
Store ==
    /\ Pending
    /\ matches' \in [Pictures -> Results]
    /\ UNCHANGED <<faulted, verdict>>

ReturnOk(r) ==
    /\ verdict[r] = "none"
    /\ ~faulted
    /\ matches = Canonical
    /\ verdict' = [verdict EXCEPT ![r] = "ok"]
    /\ UNCHANGED <<faulted, matches>>

ReturnFailure(r) ==
    /\ verdict[r] = "none"
    /\ faulted
    /\ verdict' = [verdict EXCEPT ![r] = "failed"]
    /\ UNCHANGED <<faulted, matches>>

Next ==
    \/ Fault
    \/ Store
    \/ \E r \in Ranks : ReturnOk(r) \/ ReturnFailure(r)

Spec == Init /\ [][Next]_jobVars

=============================================================================
