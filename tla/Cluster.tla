------------------------------ MODULE Cluster ------------------------------
(***************************************************************************)
(* The scripts that run the lab's containers: start-cluster.sh scales the  *)
(* service and waits for its nodes; run-mpi.sh builds a program on node 1, *)
(* has it write a host file from what the service's name resolves to       *)
(* (make-hostfile.sh) and launches mpirun there.  Several invocations of   *)
(* run-mpi.sh may be under way, all with the one host file on the shared   *)
(* volume, and the cluster may change between any two commands: a node     *)
(* dies, somebody else scales or stops the service.                        *)
(*                                                                         *)
(* Node k stands for the container of index k and for its address.         *)
(***************************************************************************)
EXTENDS Integers, Sequences, FiniteSets

CONSTANTS
    MaxNodes,   \* bound on the nodes
    Slots,      \* what nproc says, alike on all nodes
    Runs,       \* invocations of run-mpi.sh
    RankCounts, \* values of -n, Default where it is not given
    Deadline,   \* seconds that start-cluster.sh waits
    MaxChanges  \* bound on the changes that others make to the cluster

Default == 0
Nodes == 1 .. MaxNodes
HeadNode == 1

ASSUME NodesAssumption == MaxNodes \in Nat \ {0} /\ Slots \in Nat \ {0}
ASSUME BoundsAssumption == Deadline \in Nat /\ MaxChanges \in Nat
ASSUME RanksAssumption == RankCounts \subseteq Nat

VARIABLES
    node,       \* each node: "absent", "starting", "healthy" or "dead"
    hostfile,   \* the lines of /build/hostfile
    \* start-cluster.sh
    startPc,    \* "up", "list", "inspect", "ready" or "died"
    wanted,     \* NODES
    ids,        \* the nodes listed
    total,      \* how many of them have been inspected
    ready,      \* how many of those were healthy
    clock,      \* seconds since the wait began
    \* run-mpi.sh, for each invocation
    scriptPc,   \* the next command, or "launched", "died"
    ranks,      \* RANKS
    ips,        \* the addresses found
    count,      \* how many of them have been written
    hosts,      \* the host file as mpirun has read it
    \* what the properties tell apart
    changes,    \* changes by others so far
    mixed,      \* invocations whose host file another wrote to before launch
    afterReady  \* invocations that began when start-cluster.sh was done

startVars == <<startPc, wanted, ids, total, ready, clock>>
runVars == <<scriptPc, ranks, ips, count, hosts, mixed, afterReady>>
clusterVars == <<node, hostfile, startVars, runVars, changes>>

Running == {k \in Nodes : node[k] \in {"starting", "healthy"}}

\* The nodes that run in the order of their addresses: the one list there is.
Listings ==
    {listing \in [1 .. Cardinality(Running) -> Running] :
        \A a, b \in DOMAIN listing : a < b => listing[a] < listing[b]}

\* docker compose up --scale: what runs is kept, what is missing is started.
Scaled(n) ==
    [k \in Nodes |-> IF k > n THEN "absent"
                     ELSE IF k \in Running THEN node[k] ELSE "starting"]

\* The host file is what an earlier run left.
ClusterInit ==
    /\ \E n \in 0 .. MaxNodes :
           node = [k \in Nodes |-> IF k <= n THEN "healthy" ELSE "absent"]
    /\ hostfile = [k \in Nodes |-> k]
    /\ startPc = "up"
    /\ wanted \in Nodes
    /\ ids = <<>> /\ total = 0 /\ ready = 0 /\ clock = 0
    /\ scriptPc = [u \in Runs |-> "require"]
    /\ ranks = [u \in Runs |-> Default]
    /\ ips = [u \in Runs |-> <<>>]
    /\ count = [u \in Runs |-> 0]
    /\ hosts = [u \in Runs |-> <<>>]
    /\ changes = 0 /\ mixed = {} /\ afterReady = {}

-----------------------------------------------------------------------------
(* The cluster *)

BecomesHealthy(k) ==
    /\ node[k] = "starting"
    /\ node' = [node EXCEPT ![k] = "healthy"]
    /\ UNCHANGED <<hostfile, startVars, runVars, changes>>

\* A container lives as long as its sshd, and nothing restarts it.
NodeDies(k) ==
    /\ k \in Running /\ changes < MaxChanges
    /\ node' = [node EXCEPT ![k] = "dead"]
    /\ changes' = changes + 1
    /\ UNCHANGED <<hostfile, startVars, runVars>>

\* Another start-cluster.sh, or stop-cluster.sh.
SomebodyScales(n) ==
    /\ changes < MaxChanges
    /\ node' = Scaled(n) /\ node' # node
    /\ changes' = changes + 1
    /\ UNCHANGED <<hostfile, startVars, runVars>>

-----------------------------------------------------------------------------
(* start-cluster.sh *)

Up ==
    /\ startPc = "up"
    /\ node' = Scaled(wanted)
    /\ startPc' = "list"
    /\ UNCHANGED <<hostfile, wanted, ids, total, ready, clock, runVars, changes>>

List ==
    /\ startPc = "list"
    /\ ids' \in Listings
    /\ total' = 0 /\ ready' = 0
    /\ startPc' = "inspect"
    /\ UNCHANGED <<node, hostfile, wanted, clock, runVars, changes>>

\* The nodes are inspected one after the other; one that has gone since it was
\* listed counts, but not as healthy.
Inspect ==
    /\ startPc = "inspect" /\ total < Len(ids)
    /\ total' = total + 1
    /\ ready' = IF node[ids[total']] = "healthy" THEN ready + 1 ELSE ready
    /\ UNCHANGED <<node, hostfile, startPc, wanted, ids, clock, runVars, changes>>

\* Defect: the containers are there, which is what "up -d" waits for.
AllCreated == total = wanted
AllReady == total = wanted /\ ready = wanted

\* Defect: the deadline is set anew in each round.
MovingDeadline == FALSE
DeadlinePassed == clock >= Deadline

\* The verdict of a round, or a second's sleep before the next.
Judge ==
    /\ startPc = "inspect" /\ total = Len(ids)
    /\ \/ AllReady /\ startPc' = "ready" /\ UNCHANGED clock
       \/ ~AllReady /\ DeadlinePassed /\ startPc' = "died" /\ UNCHANGED clock
       \/ /\ ~AllReady /\ ~DeadlinePassed
          /\ startPc' = "list"
          /\ clock' = IF clock < Deadline THEN clock + 1 ELSE clock
    /\ UNCHANGED <<node, hostfile, wanted, ids, total, ready, runVars, changes>>

StartStep == Up \/ List \/ Inspect \/ Judge

-----------------------------------------------------------------------------
(* run-mpi.sh *)

GoesTo(u, label) == scriptPc' = [scriptPc EXCEPT ![u] = label]

\* require_cluster.
Require(u) ==
    /\ scriptPc[u] = "require"
    /\ GoesTo(u, IF Running = {} THEN "died" ELSE "count")
    /\ afterReady' = IF startPc = "ready" THEN afterReady \cup {u} ELSE afterReady
    /\ UNCHANGED <<node, hostfile, startVars, ranks, ips, count, hosts, changes,
                   mixed>>

\* The nodes are counted for the default of -n, which must not be zero.
Count(u) ==
    /\ scriptPc[u] = "count"
    /\ \E n \in RankCounts :
           ranks' = [ranks EXCEPT
                         ![u] = IF n = Default THEN Cardinality(Running) ELSE n]
    /\ GoesTo(u, IF ranks'[u] >= 1 THEN "build" ELSE "died")
    /\ UNCHANGED <<node, hostfile, startVars, ips, count, hosts, changes, mixed,
                   afterReady>>

OnHead(u, label) == scriptPc[u] = label /\ HeadNode \in Running

\* The program has been built; the service's name resolves to all nodes that
\* run, sshd listening or not.
LookUp(u) ==
    /\ OnHead(u, "build")
    /\ \E listing \in Listings : ips' = [ips EXCEPT ![u] = listing]
    /\ GoesTo(u, "truncate")
    /\ UNCHANGED <<node, hostfile, startVars, ranks, count, hosts, changes, mixed,
                   afterReady>>

\* Those who have begun a host file and not launched yet find this one's writes.
Disturb(u) ==
    mixed' = mixed \cup {v \in Runs \ {u} : scriptPc[v] = "append"}

\* Defect: the new lines are added to those of the last run.
OldLines == hostfile
NoLines == <<>>

Truncate(u) ==
    /\ OnHead(u, "truncate")
    /\ hostfile' = NoLines
    /\ Disturb(u)
    /\ GoesTo(u, "append")
    /\ UNCHANGED <<node, startVars, ranks, ips, count, hosts, changes, afterReady>>

AppendLine(u) ==
    /\ OnHead(u, "append") /\ count[u] < Len(ips[u])
    /\ hostfile' = Append(hostfile, ips[u][count[u] + 1])
    /\ count' = [count EXCEPT ![u] = @ + 1]
    /\ Disturb(u)
    /\ UNCHANGED <<node, startVars, scriptPc, ranks, ips, hosts, changes, afterReady>>

\* Defect: the slots of the nodes that run, whatever the host file says.
SlotsRunning(u) == Cardinality(Running) * Slots
TotalSlots(u) == count[u] * Slots

Oversubscribe(u) == ranks[u] > TotalSlots(u)

Launch(u) ==
    /\ OnHead(u, "append") /\ count[u] = Len(ips[u])
    /\ hosts' = [hosts EXCEPT ![u] = hostfile]
    /\ GoesTo(u, "launched")
    /\ UNCHANGED <<node, hostfile, startVars, ranks, ips, count, changes, mixed,
                   afterReady>>

\* Any command fails when node 1 is gone, and the script ends with it.
HeadGone(u) ==
    /\ scriptPc[u] \in {"build", "truncate", "append"}
    /\ HeadNode \notin Running
    /\ GoesTo(u, "died")
    /\ UNCHANGED <<node, hostfile, startVars, ranks, ips, count, hosts, changes,
                   mixed, afterReady>>

\* build-example.sh may fail, or leave no program: --no-build never makes one.
BuildFails(u) ==
    /\ OnHead(u, "build")
    /\ GoesTo(u, "died")
    /\ UNCHANGED <<node, hostfile, startVars, ranks, ips, count, hosts, changes,
                   mixed, afterReady>>

RunStep(u) ==
    \/ Require(u) \/ Count(u) \/ LookUp(u) \/ Truncate(u) \/ AppendLine(u)
    \/ Launch(u) \/ HeadGone(u)

-----------------------------------------------------------------------------
ClusterNext ==
    \/ \E k \in Nodes : BecomesHealthy(k) \/ NodeDies(k)
    \/ \E n \in 0 .. MaxNodes : SomebodyScales(n)
    \/ StartStep
    \/ \E u \in Runs : RunStep(u) \/ BuildFails(u)

ClusterSpec == ClusterInit /\ [][ClusterNext]_clusterVars

\* A script goes on as long as it has a next command; nothing says that a node
\* ever becomes healthy.
ClusterFairSpec ==
    /\ ClusterSpec
    /\ WF_clusterVars(StartStep)
    /\ \A u \in Runs : WF_clusterVars(RunStep(u))

-----------------------------------------------------------------------------
(* Correctness *)

Undisturbed(u) == scriptPc[u] = "launched" /\ u \notin mixed

\* What start-cluster.sh waits for: a launch from when it is done on has all
\* the nodes that were asked for and every one of them takes its connection,
\* unless somebody changes the cluster.
ReadyMeansLaunchable ==
    \A u \in afterReady : Undisturbed(u) /\ changes = 0 =>
        /\ hosts[u] = [k \in 1 .. wanted |-> k]
        /\ \A k \in 1 .. wanted : node[k] = "healthy"

\* "The hostfile is regenerated every run": mpirun reads what this run found,
\* each node once and in order, and nothing of an earlier run, as long as no
\* other run writes the file between.
HostFileIsOfThisRun ==
    \A u \in Runs : Undisturbed(u) =>
        /\ hosts[u] = ips[u]
        /\ \A a, b \in DOMAIN hosts[u] : a < b => hosts[u][a] < hosts[u][b]

\* mpirun is told to oversubscribe just when the host file it reads has fewer
\* slots than ranks, though the nodes may have changed since they were counted;
\* otherwise it would refuse to launch, or pile up ranks where there is room.
SlotsAgree ==
    \A u \in Runs : Undisturbed(u) =>
        (Oversubscribe(u) <=> ranks[u] > Len(hosts[u]) * Slots)

\* start-cluster.sh comes to a verdict and run-mpi.sh to a launch or an error,
\* whatever becomes of the nodes meanwhile.
ScriptsEnd ==
    <>(/\ startPc \in {"ready", "died"}
       /\ \A u \in Runs : scriptPc[u] \in {"launched", "died"})

=============================================================================
