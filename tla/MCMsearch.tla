----------------------------- MODULE MCMsearch -----------------------------
(* Small instances of Msearch: the last picture matches nothing, and two of *)
(* the ranks share a node.  Short command lines are all tried.              *)
EXTENDS Msearch

MCCanonical == [i \in 1 .. P |-> IF i = P THEN NoMatch ELSE i]

MCNodeOf == [r \in 0 .. R - 1 |-> IF r < 2 THEN "node1" ELSE "node2"]

MCNumberOf == ("0" :> 0) @@ ("2" :> 2) @@ ("2000000" :> 2000000)

Arguments == {"-h", "--verify", "-v", "-q", "-o", "-b", "--bench", "--bogus", "-", "cuda", "2"}

MCArgLists ==
    UNION {[1 .. n -> Arguments] : n \in 0 .. 2} \cup
    {<<"-v", "-q", "-v">>, <<"-q", "-v", "-v">>, <<"-i", "-h", "-i", "x">>,
     <<"--bench", "2000000">>, <<"-b", "cuda", "-b", "auto">>, <<"-b", "openmp">>,
     <<"-b", "none", "-h">>, <<"-d", "0", "-t", "2">>, <<"-t", "0">>, <<"-d", "2", "-h">>,
     <<"--zero-eps", "0.5">>, <<"--zero-eps", "0">>, <<"-o", "-", "--bench", "2">>,
     <<"--verify", "--list-backends">>, <<"-V", "--bogus">>, <<"-b", "serial", "-o", "--bogus">>}

=============================================================================
