---------------------------- MODULE InputLimits ----------------------------
(***************************************************************************)
(* What an input may hold, for the modules that follow it from the reader  *)
(* to the search.                                                          *)
(***************************************************************************)
EXTENDS Integers

CONSTANTS
    Ids,        \* the ids an input may use
    MaxCount    \* MSEARCH_MAX_COUNT

ASSUME IdsAssumption == Ids \subseteq Int
ASSUME CountAssumption == MaxCount \in Nat

=============================================================================
