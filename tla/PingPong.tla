------------------------------ MODULE PingPong ------------------------------
(***************************************************************************)
(* ping-pong: ranks 0 and 1 bounce one buffer with blocking calls, the     *)
(* others wait in the barrier.  A send may wait for its receiver           *)
(* (rendezvous) or leave the message with MPI and return (eager), as the   *)
(* library sees fit.  The program checks a pattern at the end, so a        *)
(* message may be corrupted on its way.                                    *)
(***************************************************************************)
EXTENDS MpiWorld

CONSTANTS
    MaxTrips    \* bound on the iterations

VARIABLES
    trips,      \* iterations asked for
    payload,    \* bytes asked for
    trip,       \* round trips each of the two has finished
    buffer,     \* what its buffer holds: "pattern", "corrupt"
    wire,       \* the message on its way to a rank, or NoMessage
    spoilt      \* has a message been corrupted?

pingVars == <<trips, payload, trip, buffer, wire, spoilt>>

PlaysBall == program = "ping-pong"
Players == {0, 1}
Peer(r) == 1 - r
NoMessage == "none"

PingInit ==
    /\ trip = [r \in Players |-> 0]
    /\ buffer = [r \in Players |-> "pattern"]
    /\ wire = [r \in Players |-> NoMessage]
    /\ spoilt = FALSE

\* One rank cannot play, and says so after MPI_Finalize.
TooFewRanks(r) ==
    /\ At(r, "begin") /\ world < 2
    /\ Finalize(r, 1)
    /\ UNCHANGED pingVars

PrepareBuffer(r) ==
    /\ At(r, "begin") /\ world >= 2
    /\ Enter(r, "start")
    /\ UNCHANGED pingVars

BufferFails(r) ==
    /\ At(r, "begin") /\ world >= 2
    /\ MPI_Abort(r)
    /\ UNCHANGED pingVars

\* Defects: both begin with a receive, or both with a send.
BothReceive(r) == "receive"
BothSend(r) == "send"
FirstCall(r) == IF r = 0 THEN "send" ELSE "receive"

Start(r) ==
    /\ At(r, "start") /\ AllArrived(r)
    /\ IF r \in Players THEN Goto(r, FirstCall(r)) ELSE Enter(r, "stop")
    /\ UNCHANGED pingVars

\* A byte count that is negative as an int is an error of the call.
CountRefused(r) ==
    /\ pc[r] \in {"send", "receive"} /\ ToInt(payload) < 0
    /\ MPI_Abort(r)
    /\ UNCHANGED pingVars

\* Defect: the pattern is laid down afresh for every message.
FreshPattern(r) == "pattern"
BytesOf(r) == buffer[r]

Send(r) ==
    /\ At(r, "send") /\ ToInt(payload) >= 0
    /\ \E bytes \in {BytesOf(r), "corrupt"} :
           /\ wire' = [wire EXCEPT ![Peer(r)] = bytes]
           /\ spoilt' = (spoilt \/ bytes # BytesOf(r))
    /\ Goto(r, "sending")
    /\ UNCHANGED <<trips, payload, trip, buffer>>

\* Rank 1 ends an iteration with its send, rank 0 with its receive.
EndTrip(r) ==
    /\ trip' = [trip EXCEPT ![r] = @ + 1]
    /\ Goto(r, IF trip'[r] < trips THEN FirstCall(r) ELSE "played")

Sent(r) ==
    /\ At(r, "sending")
    /\ IF r = 0 THEN Goto(r, "receive") /\ UNCHANGED trip ELSE EndTrip(r)
    /\ UNCHANGED <<trips, payload, buffer, wire, spoilt>>

\* The receiver has taken the message, or MPI keeps it for the receiver.
SendReturns(r) == wire[Peer(r)] = NoMessage /\ Sent(r)
SendIsEager(r) == wire[Peer(r)] # NoMessage /\ Sent(r)

Receive(r) ==
    /\ At(r, "receive") /\ ToInt(payload) >= 0 /\ wire[r] # NoMessage
    /\ buffer' = [buffer EXCEPT ![r] = wire[r]]
    /\ wire' = [wire EXCEPT ![r] = NoMessage]
    /\ IF r = 0 THEN EndTrip(r) ELSE Goto(r, "send") /\ UNCHANGED trip
    /\ UNCHANGED <<trips, payload, spoilt>>

Played(r) ==
    /\ At(r, "played")
    /\ Enter(r, "stop")
    /\ UNCHANGED pingVars

\* Only rank 0 looks at its buffer.
Stop(r) ==
    /\ At(r, "stop") /\ AllArrived(r)
    /\ Finalize(r, IF r = 0 /\ buffer[0] = "corrupt" THEN 1 ELSE 0)
    /\ UNCHANGED pingVars

PingExit(r) == Finalized(r) /\ UNCHANGED pingVars

PingDie(r) == Killed(r) /\ UNCHANGED pingVars

PingProceed(r) ==
    \/ TooFewRanks(r) \/ PrepareBuffer(r) \/ Start(r) \/ CountRefused(r)
    \/ Stop(r) \/ PingExit(r) \/ PingDie(r)
    \/ r \in Players /\ (Send(r) \/ SendReturns(r) \/ Receive(r) \/ Played(r))

PingNext ==
    \E r \in Ranks :
        PingProceed(r) \/ BufferFails(r) \/ (r \in Players /\ SendIsEager(r))

-----------------------------------------------------------------------------
(* Correctness *)

\* The two take turns whatever the library does with a send: who is to send
\* finds no message on its way, neither gets more than a trip ahead, and when
\* the final barrier has let a rank go every message has been received.
OneBall ==
    PlaysBall =>
        /\ \A r \in Ranks : At(r, "send") => \A s \in Players : wire[s] = NoMessage
        /\ \A r, s \in Players : trip[r] <= trip[s] + 1
        /\ world >= 2 /\ (\E r \in Ranks : pc[r] \in {"finalize", "exited"}) =>
               \A r \in Players : trip[r] = trips /\ wire[r] = NoMessage

\* "A known pattern, so a corrupted round trip is detectable": one corrupted
\* message, ping or pong and on any trip, is told by the exit code at the end,
\* since each rank passes on what it has received.
CorruptionIsTold ==
    PlaysBall /\ world >= 2 /\ At(0, "exited") => (exitCode[0] = 1 <=> spoilt)

=============================================================================
