------------------------------ MODULE Registry ------------------------------
(***************************************************************************)
(* The backends of a build (backends/registry.c): which of them a build    *)
(* has is decided when it is compiled, which of them can be used depends   *)
(* on the node it runs on.                                                 *)
(***************************************************************************)
EXTENDS Naturals, Sequences

\* The backends a build may leave out.
Optional == {"cuda", "openmp"}

NotRegistered == "NULL"

\* kBackends of a build with the given optional backends, best first.
kBackends(compiled) ==
    LET ifdef(name) == IF name \in compiled THEN <<name>> ELSE <<>>
    IN  ifdef("cuda") \o ifdef("openmp") \o <<"serial">>

msearch_backend_find(compiled, name) ==
    IF \E n \in DOMAIN kBackends(compiled) : kBackends(compiled)[n] = name THEN name
    ELSE NotRegistered

\* A backend that is compiled in can be used, but for CUDA without a device.
Available(backend, devices) == backend = "cuda" => devices > 0

\* The first one that can be used; the serial backend always can.
msearch_backend_auto(compiled, devices) ==
    SelectSeq(kBackends(compiled), LAMBDA b : Available(b, devices))[1]

=============================================================================
