------------------------------- MODULE Metric -------------------------------
(***************************************************************************)
(* msearch_score_at (metric.h): the score of one placement, summed term by *)
(* term and given up after the first row that takes it to the threshold.   *)
(*                                                                         *)
(* Scores are integers, in units of 1 / Scale: with elements whose         *)
(* absolute values divide Scale, and 1 / zero_eps an integer, every term   *)
(* is exact, so that the model shows the algorithm and not the rounding of *)
(* doubles (which is monotone, and the same in every backend).             *)
(***************************************************************************)
EXTENDS Integers

CONSTANTS
    Widths,     \* sides of objects to try
    Values,     \* elements of pictures and objects
    Thresholds, \* in units of 1 / Scale
    Scale,      \* a multiple of every nonzero element
    InvZeroEps  \* 1 / zero_eps

ASSUME WidthsAssumption == Widths \subseteq Nat \ {0}
ASSUME ThresholdsAssumption == Thresholds \subseteq Int
ASSUME ScaleAssumption ==
    /\ Values \subseteq Int
    /\ Scale \in Nat \ {0} /\ InvZeroEps \in Nat \ {0}
    /\ \A e \in Values : e # 0 => \E q \in -Scale .. Scale : e * q = Scale

VARIABLES
    m,          \* object->m
    patch,      \* the m * m elements of the picture under the object, in rows
    object,     \* the elements of the object, in rows
    threshold,
    y,          \* the row
    x,          \* terms of the row that are in the sum
    sum,
    score       \* the value returned, -1 before that

input == <<m, patch, object, threshold>>
scoreVars == <<input, y, x, sum, score>>

Places == 0 .. m * m - 1

Abs(i) == IF i < 0 THEN -i ELSE i

\* msearch_term: zero_eps stands in for a zero of the picture.
Term(p, o) ==
    IF p # 0 THEN Abs(p - o) * (Scale \div Abs(p)) ELSE Abs(o) * Scale * InvZeroEps

ScoreInit ==
    /\ m \in Widths
    /\ patch \in [Places -> Values]
    /\ object \in [Places -> Values]
    /\ threshold \in Thresholds
    /\ y = 0 /\ x = 0
    /\ sum = 0
    /\ score = -1

AddTerm ==
    /\ score = -1 /\ x < m
    /\ sum' = sum + Term(patch[y * m + x], object[y * m + x])
    /\ x' = x + 1
    /\ UNCHANGED <<input, y, score>>

\* Defect: a placement is given up when half the threshold is spent.
GivenUpEarly(s) == 2 * s >= threshold /\ s > 0
GivenUp(s) == s >= threshold

\* The check is made once per row.
EndRow ==
    /\ score = -1 /\ x = m
    /\ \/ /\ GivenUp(sum) \/ y + 1 = m
          /\ score' = sum
          /\ UNCHANGED <<y, x>>
       \/ /\ ~GivenUp(sum) /\ y + 1 < m
          /\ y' = y + 1 /\ x' = 0
          /\ UNCHANGED score
    /\ UNCHANGED <<input, sum>>

ScoreStands == score # -1 /\ UNCHANGED scoreVars

ScoreNext == AddTerm \/ EndRow \/ ScoreStands

ScoreSpec == ScoreInit /\ [][ScoreNext]_scoreVars

-----------------------------------------------------------------------------
(* Properties *)

\* The score by its definition: the sum of the terms at all places.
SumOfFirst[i \in 0 .. m * m] ==
    IF i = 0 THEN 0 ELSE SumOfFirst[i - 1] + Term(patch[i - 1], object[i - 1])

Total == SumOfFirst[m * m]

\* The early exit never changes a decision, and a score below the threshold is
\* exact; one at or above it is a lower bound (metric.h).  A placement whose
\* elements equal the object's matches under any positive threshold, zeros of the
\* picture included.
DecisionUnchanged ==
    score # -1 =>
        /\ score < threshold <=> Total < threshold
        /\ score < threshold => score = Total
        /\ score <= Total
        /\ patch = object /\ threshold > 0 => score < threshold

=============================================================================
