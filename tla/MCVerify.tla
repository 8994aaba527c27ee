------------------------------ MODULE MCVerify ------------------------------
(***************************************************************************)
(* Small instances of Verify, where a canonical match may be all zeros, or *)
(* none, and of Metric, which decides the matches that Verify compares.    *)
(* They share no state: a behaviour is one of the one or of the other.     *)
(***************************************************************************)
EXTENDS Verify, Metric

MCCanonical == [j \in 1 .. P |-> j % P]
MCValues == {-1, 0, 2}

VARIABLE part   \* which of the two it is

VerifyAtRest ==
    /\ compiled = {} /\ deviceCount = 0 /\ requested = -1 /\ sides = <<>>
    /\ VerifyInit

MetricAtRest ==
    /\ m = 1 /\ threshold = 0 /\ patch = [p \in {0} |-> 0] /\ object = patch
    /\ ScoreInit

MCInit ==
    \/ part = "verify" /\ VerifyInit /\ MetricAtRest
    \/ part = "metric" /\ VerifyAtRest /\ ScoreInit

MCNext ==
    /\ UNCHANGED part
    /\ \/ part = "verify" /\ VerifyNext /\ UNCHANGED scoreVars
       \/ part = "metric" /\ ScoreNext /\ UNCHANGED verifyVars

MCSpec == MCInit /\ [][MCNext]_<<part, verifyVars, scoreVars>>

=============================================================================
