---------------------------- MODULE CudaContext ----------------------------
(***************************************************************************)
(* The life of a context of the CUDA backend: cuda_create, which chooses a *)
(* device and acquires a context, a stream and six buffers one after the   *)
(* other, any of which may fail, and cuda_destroy, which is also its only  *)
(* clean-up (backends/backend_cuda.cu).                                    *)
(***************************************************************************)
EXTENDS Integers, Sequences

CONSTANTS
    MaxDevices,     \* bound on the devices of a node
    MaxRanks,       \* bound on the ranks of a node
    MaxObjects,     \* bound on problem->num_objects
    Sides           \* sides an object may have

FromRank == -1      \* config->device when the command line names none
NoDevice == -1

VARIABLES
    deviceCount, requested, nodeRank,   \* the node, the command line, the rank
    sides, pictures,                    \* the objects; are there pictures?
    step,       \* how far create has come, as an index of its steps
    device,     \* c->device
    held,       \* what has been acquired and not been released
    objOffset,  \* c->obj_offset[k] for the objects uploaded so far
    offset,     \* the local "offset"
    ctx,        \* what the caller has: "null", "open" or "destroyed"
    pc          \* "create", "fail", "returned"

inputs == <<deviceCount, requested, nodeRank, sides, pictures>>
vars == <<deviceCount, requested, nodeRank, sides, pictures, step, device, held,
          objOffset, offset, ctx, pc>>

K == Len(sides)
Elements(k) == sides[k] * sides[k]

\* The fallible steps of cuda_create, in order.
Steps ==
    <<"context", "device", "stream">>
    \o (IF K > 0 THEN <<"obj_offset", "d_objects">> \o [k \in 1 .. K |-> "upload"]
                      \o <<"d_results", "h_results">>
        ELSE <<>>)
    \o (IF pictures THEN <<"d_picture", "h_picture">> ELSE <<>>)

Resources == {"context", "stream", "obj_offset", "d_objects", "d_results",
              "h_results", "d_picture", "h_picture"}

Init ==
    /\ deviceCount \in 0 .. MaxDevices
    /\ requested \in {FromRank} \cup 0 .. MaxDevices
    /\ nodeRank \in 0 .. MaxRanks - 1
    /\ \E n \in 0 .. MaxObjects : sides \in [1 .. n -> Sides]
    /\ pictures \in BOOLEAN
    /\ step = 1
    /\ device = NoDevice
    /\ held = {}
    /\ objOffset = <<>>
    /\ offset = 0
    /\ ctx = "null"
    /\ pc = "create"

Creating == pc = "create" /\ step <= Len(Steps)

Acquire ==
    /\ Creating /\ Steps[step] \in Resources
    /\ held' = held \cup {Steps[step]}
    /\ step' = step + 1
    /\ UNCHANGED <<inputs, device, objOffset, offset, ctx, pc>>

\* config->device, or the devices in turn for the ranks of a node.
DeviceFor(r) == IF requested # FromRank THEN requested ELSE r % deviceCount

DeviceVisible == DeviceFor(nodeRank) < deviceCount

ChooseDevice ==
    /\ Creating /\ Steps[step] = "device"
    /\ deviceCount > 0 /\ DeviceVisible
    /\ device' = DeviceFor(nodeRank)
    /\ step' = step + 1
    /\ UNCHANGED <<inputs, held, objOffset, offset, ctx, pc>>

\* Defect: the offset grows by the side of the object.
SideOf(k) == sides[k]
Advance(k) == Elements(k)

\* cudaMemcpy of one object to its place in the packed buffer.
Upload ==
    /\ Creating /\ Steps[step] = "upload"
    /\ LET k == Len(objOffset) + 1
       IN  /\ objOffset' = Append(objOffset, offset)
           /\ offset' = offset + Advance(k)
    /\ step' = step + 1
    /\ UNCHANGED <<inputs, device, held, ctx, pc>>

\* Any call may fail, and a device may be refused; without a context there is
\* nothing to clean up.
StepFails ==
    /\ Creating
    /\ pc' = IF Steps[step] = "context" THEN "returned" ELSE "fail"
    /\ UNCHANGED <<inputs, step, device, held, objOffset, offset, ctx>>

Publish ==
    /\ pc = "create" /\ step > Len(Steps)
    /\ ctx' = "open"
    /\ pc' = "returned"
    /\ UNCHANGED <<inputs, step, device, held, objOffset, offset>>

\* Defect: pinned host memory is left to the end of the process.
DeviceMemoryOnly == Resources \ {"h_results", "h_picture"}
Released == Resources

\* cuda_destroy releases all it finds; a null pointer is released silently.
CleanUp ==
    /\ pc = "fail"
    /\ held' = held \ Released
    /\ pc' = "returned"
    /\ UNCHANGED <<inputs, step, device, objOffset, offset, ctx>>

\* The runtime is done with the context.
Destroy ==
    /\ pc = "returned" /\ ctx = "open"
    /\ held' = held \ Released
    /\ ctx' = "destroyed"
    /\ UNCHANGED <<inputs, step, device, objOffset, offset, pc>>

Gone == pc = "returned" /\ ctx # "open" /\ UNCHANGED vars

Next ==
    \/ Acquire \/ ChooseDevice \/ Upload \/ StepFails \/ Publish \/ CleanUp
    \/ Destroy \/ Gone

Spec == Init /\ [][Next]_vars

-----------------------------------------------------------------------------
(* Correctness *)

\* However far create came, a failure gives back everything it had acquired
\* and no context to the caller; and so does the end of a context.
NothingLeaks == pc = "returned" /\ ctx # "open" => held = {}

\* A context that is handed out has all that cuda_search uses for the problem,
\* and a device that exists; ranks of a node that do not outnumber its devices
\* have a device each, unless the user names one.
ReadyWhenHandedOut ==
    ctx = "open" =>
        /\ {"context", "stream"} \subseteq held
        /\ K > 0 => {"obj_offset", "d_objects", "d_results", "h_results"} \subseteq held
        /\ pictures => {"d_picture", "h_picture"} \subseteq held
        /\ device \in 0 .. deviceCount - 1
        /\ requested = FromRank =>
               \A r, s \in 0 .. deviceCount - 1 : DeviceFor(r) = DeviceFor(s) => r = s

\* The objects share one buffer without overlap, and none reaches beyond the
\* sum of their sizes that the buffer was allocated with.
TotalUpTo[k \in 0 .. K] == IF k = 0 THEN 0 ELSE TotalUpTo[k - 1] + Elements(k)

ObjectsPacked ==
    /\ \A j, k \in DOMAIN objOffset : j < k => objOffset[j] + Elements(j) <= objOffset[k]
    /\ \A k \in DOMAIN objOffset : objOffset[k] + Elements(k) <= TotalUpTo[K]
    /\ ctx = "open" => DOMAIN objOffset = 1 .. K

=============================================================================
