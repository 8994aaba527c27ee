-------------------------- MODULE MCLoadAndSearch --------------------------
(* Small instances of LoadAndSearch: ids may be negative. *)
EXTENDS LoadAndSearch

MCIds == {-1, 0, 2}

=============================================================================
