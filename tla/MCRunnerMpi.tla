---------------------------- MODULE MCRunnerMpi ----------------------------
(* Small instances of RunnerMpi: odd pictures match nothing. *)
EXTENDS RunnerMpi

MCCanonical == [i \in 0 .. P - 1 |-> IF i % 2 = 1 THEN NoMatch ELSE i]

=============================================================================
