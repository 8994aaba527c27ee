--------------------------- MODULE ExamplesProofs ---------------------------
(***************************************************************************)
(* The example programs, for every number of ranks: the blocks that        *)
(* distributed-sum and matrix-multiply share out tile the units, their     *)
(* answers do not depend on the number of ranks and exit code 0 vouches    *)
(* for them, and the two players of ping-pong bounce one ball and tell of  *)
(* its corruption.  Last, for every number of nodes and of invocations,    *)
(* the scripts that start the cluster and launch these programs on it.     *)
(***************************************************************************)
EXTENDS Examples, Cluster, FiniteSetTheorems, WellFoundedInduction, TLAPS

-----------------------------------------------------------------------------
(* The decomposition *)

\* Where the block of rank r begins: the leading ranks have one unit more.
StartOf(r) == r * base + (IF r < remainder THEN r ELSE remainder)

Types ==
    /\ n \in Nat \ {0}
    /\ world \in Nat \ {0}
    /\ next \in 0 .. world
    /\ offset \in Int
    /\ shares \in [Ranks -> Int]
    /\ offsets \in [Ranks -> Int]

\* The loop keeps the offset at the start of the next block.
Progress ==
    /\ offset = StartOf(next)
    /\ \A r \in 0 .. next - 1 : shares[r] = Share(r) /\ offsets[r] = StartOf(r)

IInv == Types /\ Progress

decompositionVars == <<n, world, loopVars>>

LEMMA Division ==
    ASSUME Types
    PROVE  base \in Nat /\ remainder \in 0 .. world - 1 /\ n = world * base + remainder
BY Z3 DEF Types, base, remainder

\* The end of a block is the start of the next.
LEMMA BlocksMeet ==
    ASSUME Types, NEW r \in Ranks
    PROVE  /\ Share(r) \in Nat
           /\ StartOf(r) \in Nat
           /\ StartOf(r) + Share(r) = StartOf(r + 1)
<1>1. base \in Nat /\ remainder \in Nat /\ r \in Nat
    BY Division DEF Types, Ranks
<1>2. (r + 1) * base = r * base + base /\ r * base \in Nat
    BY <1>1
<1>3. Share(r) \in Nat
    BY <1>1 DEF Share
<1>4. StartOf(r) \in Nat
    BY <1>1, <1>2 DEF StartOf
<1>5. CASE r + 1 < remainder \/ r + 1 = remainder
    BY <1>1, <1>2, <1>5 DEF Share, StartOf
<1>6. CASE r + 1 > remainder
    BY <1>1, <1>2, <1>6 DEF Share, StartOf
<1> QED
    BY <1>1, <1>3, <1>4, <1>5, <1>6

LEMMA InitIInv ==
    n \in Nat \ {0} /\ world \in Nat \ {0} /\ DecompositionInit => IInv
<1> SUFFICES ASSUME n \in Nat \ {0}, world \in Nat \ {0}, DecompositionInit
             PROVE  IInv
    OBVIOUS
<1>1. Types
    BY DEF Types, DecompositionInit, Ranks
<1>2. base \in Nat /\ remainder \in Nat
    BY <1>1, Division
<1>3. StartOf(0) = 0
    BY <1>2 DEF StartOf
<1> QED
    BY <1>1, <1>3 DEF IInv, Progress, DecompositionInit

LEMMA StepIInv == IInv /\ [TakeShare]_decompositionVars => IInv'
<1> SUFFICES ASSUME IInv, [TakeShare]_decompositionVars PROVE IInv'
    OBVIOUS
<1> USE DEF IInv
<1>1. CASE TakeShare
    <2>1. /\ n' = n /\ world' = world /\ next' = next + 1
          /\ next \in Ranks
          /\ offset' = offset + Share(next)
          /\ shares' = [shares EXCEPT ![next] = Share(next)]
          /\ offsets' = [offsets EXCEPT ![next] = offset]
        BY <1>1 DEF TakeShare, Types, Ranks
    <2>2. Ranks' = Ranks /\ base' = base /\ remainder' = remainder
        BY <2>1 DEF Ranks, base, remainder
    <2>3. /\ Share(next) \in Nat /\ StartOf(next) \in Nat
          /\ StartOf(next) + Share(next) = StartOf(next + 1)
        BY <2>1, BlocksMeet
    <2>4. Types'
        BY <2>1, <2>2, <2>3 DEF Types, Ranks
    <2>5. offset' = StartOf(next)'
        BY <2>1, <2>2, <2>3 DEF Progress, StartOf
    <2>6. ASSUME NEW r \in 0 .. next
          PROVE  shares'[r] = Share(r) /\ offsets'[r] = StartOf(r)
        <3>1. CASE r = next
            BY <2>1, <3>1 DEF Progress, Types
        <3>2. CASE r # next
            <4>1. r \in 0 .. next - 1 /\ r \in Ranks
                BY <3>2, <2>1 DEF Ranks, Types
            <4> QED
                BY <2>1, <3>2, <4>1 DEF Progress, Types
        <3> QED
            BY <3>1, <3>2
    <2>7. ASSUME NEW r \in 0 .. next
          PROVE  Share(r)' = Share(r) /\ StartOf(r)' = StartOf(r)
        BY <2>2 DEF Share, StartOf
    <2>8. (\A r \in 0 .. next - 1 : shares[r] = Share(r) /\ offsets[r] = StartOf(r))'
        BY <2>1, <2>6, <2>7 DEF Types
    <2> QED
        BY <2>4, <2>5, <2>8 DEF Progress
<1>2. CASE UNCHANGED decompositionVars
    BY <1>2 DEF decompositionVars, loopVars, Types, Progress, Ranks, Share, StartOf, base,
        remainder
<1> QED
    BY <1>1, <1>2

THEOREM Invariance == DecompositionSpec => []IInv
BY InitIInv, StepIInv, PTL DEF DecompositionSpec, decompositionVars

\* When the loop is done the blocks tile the units, and their sizes differ by
\* at most one, for every number of units and every number of ranks.
THEOREM Tiling == DecompositionSpec => []BlocksTile
<1>1. IInv => BlocksTile
    <2> SUFFICES ASSUME IInv, next = world PROVE BlocksTile
        BY DEF BlocksTile
    <2> USE DEF IInv
    <2>1. \A r \in Ranks : shares[r] = Share(r) /\ offsets[r] = StartOf(r)
        BY DEF Progress, Ranks
    <2>2. /\ base \in Nat /\ remainder \in 0 .. world - 1
          /\ n = world * base + remainder /\ world \in Nat \ {0}
        BY Division DEF Types
    <2>3. offsets[0] = 0
        BY <2>1, <2>2 DEF Ranks, StartOf
    <2>4. \A r \in 0 .. world - 2 : offsets[r + 1] = offsets[r] + shares[r]
        BY <2>1, <2>2, BlocksMeet DEF Ranks
    <2>5. offsets[world - 1] + shares[world - 1] = n
        <3>1. world - 1 \in Ranks
            BY <2>2 DEF Ranks
        <3>2. StartOf(world - 1) + Share(world - 1) = StartOf(world)
            BY <3>1, <2>2, BlocksMeet
        <3>3. StartOf(world) = n
            BY <2>2 DEF StartOf
        <3> QED
            BY <3>1, <3>2, <3>3, <2>1
    <2>6. ASSUME NEW r \in Ranks, NEW s \in Ranks
          PROVE  shares[r] <= shares[s] + 1
        BY <2>1, <2>2 DEF Share
    <2> QED
        BY <2>3, <2>4, <2>5, <2>6 DEF BlocksTile
<1> QED
    BY <1>1, Invariance, PTL

-----------------------------------------------------------------------------
(* ping-pong *)

\* Where main may be on a rank that has not been killed.
Over == {"stop", "finalize", "exited"}
OnCourt == {"send", "sending", "receive"}
Labels == {"begin", "start", "played"} \cup OnCourt \cup Over

\* The collective calls a rank has made when it comes to a label.
CallsAt(label) ==
    IF label = "begin" THEN 0
    ELSE IF label \in {"start", "played"} \cup OnCourt THEN 1
    ELSE IF label = "stop" THEN 2 ELSE 3

PingTypes ==
    /\ world \in Nat \ {0} /\ trips \in Nat \ {0}
    /\ pc \in [Ranks -> Labels \cup {"killed"}]
    /\ calls \in [Ranks -> Nat]
    /\ exitCode \in [Ranks -> {0, 1}]
    /\ trip \in [Players -> Nat]
    /\ buffer \in [Players -> {"pattern", "corrupt"}]
    /\ wire \in [Players -> {"pattern", "corrupt", NoMessage}]
    /\ spoilt \in BOOLEAN

\* One rank does not play.
Alone ==
    /\ \A r \in Ranks : pc[r] \in {"begin", "finalize", "exited", "killed"}
    /\ \A p \in Players : trip[p] = 0

\* The game is described by where the ranks are, or were when they were killed.
Positions(at) ==
    /\ \A r \in Ranks : pc[r] # "killed" => pc[r] = at[r]
    /\ \A r \in Ranks : calls[r] = CallsAt(at[r])
    /\ \A r \in Ranks : r \notin Players => at[r] \notin OnCourt
    /\ (\E r \in Ranks : at[r] \in {"finalize", "exited"}) => \A r \in Ranks : at[r] \in Over

Trips(at) ==
    \A p \in Players :
        /\ at[p] \in {"begin", "start"} => trip[p] = 0
        /\ at[p] \in OnCourt => trip[p] < trips
        /\ at[p] \in {"played"} \cup Over => trip[p] = trips

\* The messages a player has sent, and those it has received.
Sends(at, p) ==
    IF at[p] = "sending" \/ (p = 0 /\ at[p] = "receive") THEN trip[p] + 1 ELSE trip[p]
Receives(at, p) ==
    IF p = 1 /\ at[p] \in {"send", "sending"} THEN trip[p] + 1 ELSE trip[p]

OnTheWay(p) == IF wire[p] = NoMessage THEN 0 ELSE 1

\* What has been sent has been received or is on its way.
Exchange(at) ==
    \A p \in Players : Sends(at, Peer(p)) = Receives(at, p) + OnTheWay(p)

\* The ball is on its way, or with the player that has received it last.
Ball(at) ==
    IF wire[1] # NoMessage THEN wire[1]
    ELSE IF wire[0] # NoMessage THEN wire[0]
    ELSE IF Receives(at, 1) > Receives(at, 0) THEN buffer[1] ELSE buffer[0]

Judged(at) ==
    /\ spoilt <=> Ball(at) = "corrupt"
    /\ at[0] \in {"finalize", "exited"} =>
           exitCode[0] = IF buffer[0] = "corrupt" THEN 1 ELSE 0

Game(at) == Positions(at) /\ Trips(at) /\ Exchange(at) /\ Judged(at)

PingInv ==
    PlaysBall =>
        /\ PingTypes
        /\ IF world < 2 THEN Alone ELSE \E at \in [Ranks -> Labels] : Game(at)

\* In a world of two or more there are both players.
LEMMA PlayersAreRanks ==
    ASSUME world \in Nat \ {0}, ~(world < 2)
    PROVE  Players \subseteq Ranks /\ 0 \in Ranks /\ 1 \in Ranks
BY DEF Players, Ranks

\* A player is never more than one message behind the other.
LEMMA Turns ==
    ASSUME PingTypes, NEW at \in [Ranks -> Labels], ~(world < 2), Game(at)
    PROVE  /\ Receives(at, 0) = trip[0] /\ Sends(at, 0) \in {trip[0], trip[0] + 1}
           /\ Receives(at, 1) \in {trip[1], trip[1] + 1}
           /\ Sends(at, 1) \in {trip[1], Receives(at, 1)}
           /\ Sends(at, 1) \in Int /\ Sends(at, 1) <= Receives(at, 1)
           /\ Sends(at, 0) = Receives(at, 1) + OnTheWay(1)
           /\ Sends(at, 1) = Receives(at, 0) + OnTheWay(0)
           /\ OnTheWay(0) \in {0, 1} /\ OnTheWay(1) \in {0, 1}
           /\ trip[0] \in Nat /\ trip[1] \in Nat
<1>1. trip[0] \in Nat /\ trip[1] \in Nat
    BY DEF PingTypes, Players
<1>2. /\ Receives(at, 0) = trip[0] /\ Sends(at, 0) \in {trip[0], trip[0] + 1}
      /\ Receives(at, 1) \in {trip[1], trip[1] + 1}
    BY DEF Receives, Sends
<1>3. Sends(at, 1) \in {trip[1], Receives(at, 1)}
    BY DEF Receives, Sends
<1>4. Sends(at, 1) <= Receives(at, 1) /\ Sends(at, 1) \in Int
    BY <1>1, <1>2, <1>3
<1>5. /\ Sends(at, 0) = Receives(at, 1) + OnTheWay(1)
      /\ Sends(at, 1) = Receives(at, 0) + OnTheWay(0)
    <2>1. Peer(0) = 1 /\ Peer(1) = 0 /\ 0 \in Players /\ 1 \in Players
        BY DEF Peer, Players
    <2> QED
        BY <2>1 DEF Game, Exchange
<1>6. OnTheWay(0) \in {0, 1} /\ OnTheWay(1) \in {0, 1}
    BY DEF OnTheWay
<1> QED
    BY <1>1, <1>2, <1>3, <1>4, <1>5, <1>6

\* What the properties promise follows from the game.
LEMMA PingPromises ==
    ASSUME PingInv
    PROVE  OneBall /\ CorruptionIsTold
<1> SUFFICES ASSUME PlaysBall PROVE OneBall /\ CorruptionIsTold
    BY DEF OneBall, CorruptionIsTold
<1>1. PingTypes
    BY DEF PingInv
<1>2. CASE world < 2
    <2>1. Alone
        BY <1>2 DEF PingInv
    <2>2. \A r \in Ranks : ~At(r, "send")
        BY <2>1 DEF Alone, At
    <2>3. \A r, s \in Players : trip[r] <= trip[s] + 1
        BY <2>1 DEF Alone
    <2>4. ~(world >= 2)
        BY <1>1, <1>2 DEF PingTypes
    <2> QED
        BY <2>2, <2>3, <2>4 DEF OneBall, CorruptionIsTold
<1>3. CASE ~(world < 2)
    <2>1. PICK at \in [Ranks -> Labels] : Game(at)
        BY <1>3 DEF PingInv
    <2>2. Players \subseteq Ranks /\ 0 \in Ranks /\ 1 \in Ranks
        BY <1>1, <1>3, PlayersAreRanks DEF PingTypes
    <2>3. /\ Receives(at, 0) = trip[0] /\ Sends(at, 0) \in {trip[0], trip[0] + 1}
          /\ Receives(at, 1) \in {trip[1], trip[1] + 1}
          /\ Sends(at, 1) \in {trip[1], Receives(at, 1)}
          /\ Sends(at, 1) \in Int /\ Sends(at, 1) <= Receives(at, 1)
          /\ Sends(at, 0) = Receives(at, 1) + OnTheWay(1)
          /\ Sends(at, 1) = Receives(at, 0) + OnTheWay(0)
          /\ OnTheWay(0) \in {0, 1} /\ OnTheWay(1) \in {0, 1}
          /\ trip[0] \in Nat /\ trip[1] \in Nat
        BY <1>1, <1>3, <2>1, Turns
    <2>4. ASSUME OnTheWay(0) = 0, OnTheWay(1) = 0
          PROVE  \A p \in Players : wire[p] = NoMessage
        BY <2>4 DEF OnTheWay, Players
    <2>5. ASSUME NEW r \in Ranks, At(r, "send")
          PROVE  \A p \in Players : wire[p] = NoMessage
        <3>1. at[r] = "send" /\ r \in Players
            BY <2>1, <2>5 DEF Game, Positions, At, OnCourt
        <3>2. CASE r = 0
            <4>1. Sends(at, 0) = trip[0]
                BY <3>1, <3>2 DEF Sends
            <4> QED
                BY <2>3, <2>4, <4>1
        <3>3. CASE r = 1
            <4>1. Sends(at, 1) = trip[1] /\ Receives(at, 1) = trip[1] + 1
                BY <3>1, <3>3 DEF Sends, Receives
            <4> QED
                BY <2>3, <2>4, <4>1
        <3> QED
            BY <3>1, <3>2, <3>3 DEF Players
    <2>6. \A r, s \in Players : trip[r] <= trip[s] + 1
        <3>1. trip[0] <= trip[1] + 1 /\ trip[1] <= trip[0] + 1
            BY <2>3
        <3>2. trip[0] <= trip[0] + 1 /\ trip[1] <= trip[1] + 1
            BY <2>3
        <3> QED
            BY <3>1, <3>2 DEF Players
    <2>7. ASSUME \E r \in Ranks : pc[r] \in {"finalize", "exited"}
          PROVE  /\ \A r \in Players : trip[r] = trips /\ wire[r] = NoMessage
                 /\ Receives(at, 0) = trip[0] /\ Receives(at, 1) = trip[0]
        <3>1. \A r \in Ranks : at[r] \in Over
            BY <2>1, <2>7 DEF Game, Positions
        <3>2. at[0] \in Over /\ at[1] \in Over
            BY <2>2, <3>1
        <3>3. trip[0] = trips /\ trip[1] = trips
            BY <2>1, <3>2 DEF Game, Trips, Players
        <3>4. Sends(at, 0) = trip[0] /\ Receives(at, 1) = trip[1]
            BY <3>2 DEF Sends, Receives, Over
        <3> QED
            BY <2>3, <2>4, <3>3, <3>4 DEF Players
    <2>8. OneBall
        BY <2>5, <2>6, <2>7 DEF OneBall
    <2>9. ASSUME At(0, "exited")
          PROVE  exitCode[0] = 1 <=> spoilt
        <3>1. at[0] = "exited" /\ pc[0] = "exited"
            BY <2>1, <2>2, <2>9 DEF Game, Positions, At
        <3>2. /\ wire[0] = NoMessage /\ wire[1] = NoMessage
              /\ Receives(at, 0) = trip[0] /\ Receives(at, 1) = trip[0]
            BY <2>2, <2>7, <3>1 DEF Players
        <3>3. Ball(at) = buffer[0]
            <4>1. ~(trip[0] > trip[0])
                BY <2>3
            <4> QED
                BY <3>2, <4>1 DEF Ball
        <3>4. exitCode[0] = IF buffer[0] = "corrupt" THEN 1 ELSE 0
            BY <2>1, <3>1 DEF Game, Judged
        <3> QED
            BY <2>1, <3>3, <3>4 DEF Game, Judged
    <2> QED
        BY <2>8, <2>9 DEF CorruptionIsTold
<1> QED
    BY <1>2, <1>3

\* A rank that goes on to another label makes the collective calls it says.
LEMMA PositionsMove ==
    ASSUME PingTypes, NEW at \in [Ranks -> Labels], Positions(at),
           NEW r \in Ranks, NEW l \in Labels, UNCHANGED world,
           pc' = [pc EXCEPT ![r] = l],
           calls' = [calls EXCEPT ![r] = CallsAt(l)],
           r \notin Players => l \notin OnCourt,
           at[r] \in Over => l \in Over,
           l \in {"finalize", "exited"} => \A s \in Ranks : at[s] \in Over
    PROVE  /\ [at EXCEPT ![r] = l] \in [Ranks -> Labels]
           /\ Positions([at EXCEPT ![r] = l])'
<1> DEFINE to == [at EXCEPT ![r] = l]
<1>1. /\ to \in [Ranks -> Labels] /\ to[r] = l
      /\ \A s \in Ranks : s # r => to[s] = at[s]
    OBVIOUS
<1>2. Ranks' = Ranks
    BY DEF Ranks
<1>3. pc \in [Ranks -> Labels \cup {"killed"}] /\ calls \in [Ranks -> Nat]
    BY DEF PingTypes
<1>4. \A s \in Ranks : IF s = r THEN pc'[s] = l /\ calls'[s] = CallsAt(l)
                                ELSE pc'[s] = pc[s] /\ calls'[s] = calls[s]
    BY <1>3
<1> HIDE DEF to
<1>5. \A s \in Ranks : pc'[s] # "killed" => pc'[s] = to[s]
    BY <1>1, <1>4 DEF Positions
<1>6. \A s \in Ranks : calls'[s] = CallsAt(to[s])
    BY <1>1, <1>4 DEF Positions
<1>7. \A s \in Ranks : s \notin Players => to[s] \notin OnCourt
    BY <1>1 DEF Positions
<1>8. ASSUME \E s \in Ranks : to[s] \in {"finalize", "exited"}
      PROVE  \A s \in Ranks : to[s] \in Over
    <2>1. \A s \in Ranks : at[s] \in Over
        BY <1>1, <1>8 DEF Positions
    <2> QED
        BY <1>1, <2>1
<1>9. Positions(to)'
    BY <1>2, <1>5, <1>6, <1>7, <1>8 DEF Positions, Players, CallsAt
<1> QED
    BY <1>1, <1>9 DEF to

\* A rank that is killed has been where it was.
LEMMA PositionsStay ==
    ASSUME PingTypes, NEW at \in [Ranks -> Labels], Positions(at),
           NEW r \in Ranks, UNCHANGED <<world, calls>>,
           pc' = [pc EXCEPT ![r] = "killed"]
    PROVE  Positions(at)'
<1>1. Ranks' = Ranks
    BY DEF Ranks
<1>2. \A s \in Ranks : pc'[s] # "killed" => pc'[s] = at[s]
    BY DEF PingTypes, Positions
<1> QED
    BY <1>1, <1>2 DEF Positions, Players, CallsAt

\* Where the ball is not touched, the game goes on as it stands.
LEMMA BallStays ==
    ASSUME PingTypes, NEW at \in [Ranks -> Labels], ~(world < 2), Game(at),
           NEW r \in Ranks, NEW l \in Labels, UNCHANGED <<world, pingVars>>,
           LET to == [at EXCEPT ![r] = l]
           IN  /\ Positions(to)'
               /\ r \in Players =>
                      /\ Sends(to, r) = Sends(at, r) /\ Receives(to, r) = Receives(at, r)
                      /\ l \in {"begin", "start"} => trip[r] = 0
                      /\ l \in OnCourt => trip[r] < trips
                      /\ l \in {"played"} \cup Over => trip[r] = trips,
           at[0] \in {"finalize", "exited"} => exitCode'[0] = exitCode[0],
           at[0] \notin {"finalize", "exited"} /\ r = 0 /\ l \in {"finalize", "exited"} =>
               exitCode'[0] = IF buffer[0] = "corrupt" THEN 1 ELSE 0
    PROVE  Game([at EXCEPT ![r] = l])'
<1> DEFINE to == [at EXCEPT ![r] = l]
<1>1. /\ Positions(to)'
      /\ r \in Players =>
             /\ Sends(to, r) = Sends(at, r) /\ Receives(to, r) = Receives(at, r)
             /\ l \in {"begin", "start"} => trip[r] = 0
             /\ l \in OnCourt => trip[r] < trips
             /\ l \in {"played"} \cup Over => trip[r] = trips
    OBVIOUS
<1>2. /\ to[r] = l /\ \A s \in Ranks : s # r => to[s] = at[s]
      /\ Players \subseteq Ranks /\ 0 \in Players /\ 1 \in Players
    BY PlayersAreRanks DEF Players, PingTypes
<1> HIDE DEF to
<1>3. UNCHANGED <<trips, payload, trip, buffer, wire, spoilt>>
    BY DEF pingVars
<1>4. \A p \in Players : Sends(to, p) = Sends(at, p) /\ Receives(to, p) = Receives(at, p)
    <2>1. \A p \in Players : p # r => Sends(to, p) = Sends(at, p) /\ Receives(to, p) = Receives(at, p)
        BY <1>2 DEF Sends, Receives
    <2> QED
        BY <1>1, <2>1
<1>5. \A p \in Players : Sends(to, p)' = Sends(to, p) /\ Receives(to, p)' = Receives(to, p)
                         /\ OnTheWay(p)' = OnTheWay(p)
    BY <1>3 DEF Sends, Receives, OnTheWay, NoMessage
<1>6. Trips(to)'
    BY <1>1, <1>2, <1>3 DEF Game, Trips, Players
<1>7. Exchange(to)'
    <2>1. \A p \in Players : Peer(p) \in Players
        BY DEF Peer, Players
    <2> QED
        BY <1>4, <1>5, <2>1 DEF Game, Exchange, Players, Peer
<1>8. Ball(to)' = Ball(at)
    BY <1>2, <1>3, <1>4, <1>5 DEF Ball, NoMessage
<1>9. Judged(to)'
    <2>1. spoilt' <=> Ball(to)' = "corrupt"
        BY <1>3, <1>8 DEF Game, Judged
    <2>2. ASSUME to[0] \in {"finalize", "exited"}
          PROVE  exitCode'[0] = IF buffer'[0] = "corrupt" THEN 1 ELSE 0
        <3>1. CASE at[0] \in {"finalize", "exited"}
            <4>1. exitCode'[0] = exitCode[0]
                BY <1>2, <2>2, <3>1
            <4> QED
                BY <1>3, <3>1, <4>1 DEF Game, Judged
        <3>2. CASE at[0] \notin {"finalize", "exited"}
            <4>1. r = 0 /\ l \in {"finalize", "exited"}
                BY <1>2, <2>2, <3>2
            <4> QED
                BY <1>3, <3>2, <4>1
        <3> QED
            BY <3>1, <3>2
    <2> QED
        BY <2>1, <2>2 DEF Judged
<1> QED
    BY <1>1, <1>6, <1>7, <1>9 DEF Game, to

LEMMA PingTypesStep ==
    ASSUME PingTypes, NEW r \in Ranks, UNCHANGED world,
           \/ PingProceed(r) \/ BufferFails(r) \/ (r \in Players /\ SendIsEager(r))
    PROVE  PingTypes'
<1> USE DEF At, Labels, OnCourt, Over
<1>1. Ranks' = Ranks
    BY DEF Ranks
<1>2. /\ pc \in [Ranks -> Labels \cup {"killed"}] /\ calls \in [Ranks -> Nat]
      /\ exitCode \in [Ranks -> {0, 1}] /\ world \in Nat \ {0} /\ trips \in Nat \ {0}
      /\ trip \in [Players -> Nat] /\ buffer \in [Players -> {"pattern", "corrupt"}]
      /\ wire \in [Players -> {"pattern", "corrupt", NoMessage}] /\ spoilt \in BOOLEAN
    BY DEF PingTypes
<1>3. ASSUME NEW l \in Labels \cup {"killed"}, NEW more \in Nat, NEW code \in {0, 1},
             pc' = [pc EXCEPT ![r] = l],
             calls' = [calls EXCEPT ![r] = more] \/ UNCHANGED calls,
             exitCode' = [exitCode EXCEPT ![r] = code] \/ UNCHANGED exitCode
      PROVE  /\ pc' \in [Ranks' -> Labels \cup {"killed"}] /\ calls' \in [Ranks' -> Nat]
             /\ exitCode' \in [Ranks' -> {0, 1}]
    <2>1. pc' \in [Ranks -> Labels \cup {"killed"}] /\ calls' \in [Ranks -> Nat]
        BY <1>2, <1>3
    <2>2. exitCode' \in [Ranks -> {0, 1}]
        BY <1>2, <1>3
    <2> QED
        BY <1>1, <2>1, <2>2
<1>4. calls[r] + 1 \in Nat /\ calls[r] \in Nat /\ exitCode[r] \in {0, 1}
    BY <1>2
<1>5. ASSUME NEW l \in Labels \cup {"killed"}, NEW code \in {0, 1},
             Goto(r, l) \/ Enter(r, l) \/ (l = "killed" /\ MPI_Abort(r))
                        \/ (l = "finalize" /\ Finalize(r, code))
      PROVE  /\ pc' \in [Ranks' -> Labels \cup {"killed"}] /\ calls' \in [Ranks' -> Nat]
             /\ exitCode' \in [Ranks' -> {0, 1}]
    BY <1>3, <1>4, <1>5 DEF Goto, Enter, MPI_Abort, Finalize
<1>6. ASSUME UNCHANGED pingVars, NEW l \in Labels \cup {"killed"}, NEW code \in {0, 1},
             Goto(r, l) \/ Enter(r, l) \/ (l = "killed" /\ MPI_Abort(r))
                        \/ (l = "finalize" /\ Finalize(r, code))
      PROVE  PingTypes'
    <2>1. UNCHANGED <<trips, trip, buffer, wire, spoilt>>
        BY <1>6 DEF pingVars
    <2> QED
        BY <1>2, <1>5, <1>6, <2>1 DEF PingTypes, NoMessage, Players
<1>7. CASE TooFewRanks(r) \/ Stop(r)
    <2>1. UNCHANGED pingVars /\ (Finalize(r, 0) \/ Finalize(r, 1))
        BY <1>7 DEF TooFewRanks, Stop
    <2> QED
        BY <1>6, <2>1
<1>8. CASE PrepareBuffer(r) \/ Played(r)
    BY <1>6, <1>8 DEF PrepareBuffer, Played
<1>9. CASE CountRefused(r) \/ BufferFails(r)
    BY <1>6, <1>9 DEF CountRefused, BufferFails
<1>10. CASE Start(r)
    BY <1>6, <1>10 DEF Start, FirstCall
<1>11. CASE PingExit(r) \/ PingDie(r)
    BY <1>6, <1>11 DEF PingExit, PingDie, Finalized, Killed
<1>12. CASE r \in Players /\ Send(r)
    <2>1. PICK bytes \in {BytesOf(r), "corrupt"} :
              /\ wire' = [wire EXCEPT ![Peer(r)] = bytes]
              /\ spoilt' = (spoilt \/ bytes # BytesOf(r))
        BY <1>12 DEF Send
    <2>2. bytes \in {"pattern", "corrupt"} /\ Goto(r, "sending")
          /\ UNCHANGED <<trips, trip, buffer>>
        BY <1>2, <1>12, <2>1 DEF BytesOf, Send
    <2>3. wire' \in [Players -> {"pattern", "corrupt", NoMessage}]
        BY <1>2, <2>1, <2>2
    <2>4. spoilt' \in BOOLEAN
        BY <2>1
    <2> QED
        BY <1>2, <1>5, <2>2, <2>3, <2>4 DEF PingTypes, NoMessage, Players
<1>13. ASSUME r \in Players, EndTrip(r)
       PROVE  /\ trip' \in [Players -> Nat]
              /\ \E l \in Labels : Goto(r, l)
    <2>1. trip[r] + 1 \in Nat
        BY <1>2, <1>13
    <2> QED
        BY <1>2, <1>13, <2>1 DEF EndTrip, FirstCall
<1>14. CASE r \in Players /\ (SendReturns(r) \/ SendIsEager(r))
    <2>1. Sent(r) /\ UNCHANGED <<trips, buffer, wire, spoilt>>
        BY <1>14 DEF SendReturns, SendIsEager, Sent
    <2>2. trip' \in [Players -> Nat] /\ \E l \in Labels : Goto(r, l)
        BY <1>2, <1>13, <1>14, <2>1 DEF Sent
    <2> QED
        BY <1>2, <1>5, <2>1, <2>2 DEF PingTypes, NoMessage, Players
<1>15. CASE r \in Players /\ Receive(r)
    <2>1. /\ buffer' = [buffer EXCEPT ![r] = wire[r]] /\ wire' = [wire EXCEPT ![r] = NoMessage]
          /\ wire[r] # NoMessage /\ UNCHANGED <<trips, spoilt>>
        BY <1>15 DEF Receive
    <2>2. trip' \in [Players -> Nat] /\ \E l \in Labels : Goto(r, l)
        BY <1>2, <1>13, <1>15 DEF Receive
    <2>3. wire[r] \in {"pattern", "corrupt"}
        BY <1>2, <1>15, <2>1
    <2>4. /\ buffer' \in [Players -> {"pattern", "corrupt"}]
          /\ wire' \in [Players -> {"pattern", "corrupt", NoMessage}]
        BY <1>2, <2>1, <2>3
    <2> QED
        BY <1>2, <1>5, <2>1, <2>2, <2>4 DEF PingTypes, NoMessage, Players
<1> QED
    BY <1>7, <1>8, <1>9, <1>10, <1>11, <1>12, <1>14, <1>15 DEF PingProceed

\* A rank that is alone says so and leaves.
LEMMA AloneStep ==
    ASSUME PingTypes, Alone, world < 2, NEW r \in Ranks, UNCHANGED world,
           \/ PingProceed(r) \/ BufferFails(r) \/ (r \in Players /\ SendIsEager(r))
    PROVE  Alone'
<1>1. Ranks' = Ranks
    BY DEF Ranks
<1>2. /\ pc[r] \in {"begin", "finalize", "exited", "killed"} /\ ~(world >= 2)
      /\ pc \in [Ranks -> Labels \cup {"killed"}]
    BY DEF Alone, PingTypes
<1>3. /\ ~At(r, "start") /\ ~At(r, "send") /\ ~At(r, "sending") /\ ~At(r, "receive")
      /\ ~At(r, "played") /\ ~At(r, "stop") /\ ~(pc[r] \in {"send", "receive"})
    BY <1>2 DEF At
<1>4. TooFewRanks(r) \/ PingExit(r) \/ PingDie(r)
    BY <1>2, <1>3 DEF PingProceed, PrepareBuffer, Start, CountRefused, Stop, Send, SendReturns,
       Sent, SendIsEager, Receive, Played, BufferFails
<1>5. PICK l \in {"finalize", "exited", "killed"} : pc' = [pc EXCEPT ![r] = l]
    BY <1>4 DEF TooFewRanks, PingExit, PingDie, Finalize, Finalized, Killed, Goto
<1>6. UNCHANGED trip
    BY <1>4 DEF TooFewRanks, PingExit, PingDie, pingVars
<1> QED
    BY <1>1, <1>2, <1>5, <1>6 DEF Alone, Players

LEMMA GoesOn ==
    ASSUME PingTypes, NEW at \in [Ranks -> Labels], Positions(at),
           NEW r \in Ranks, NEW l \in Labels,
           \/ Goto(r, l) /\ CallsAt(l) = CallsAt(at[r])
           \/ Enter(r, l) /\ CallsAt(l) = CallsAt(at[r]) + 1
           \/ l = "finalize" /\ (Finalize(r, 0) \/ Finalize(r, 1)) /\ at[r] = "stop"
    PROVE  /\ pc' = [pc EXCEPT ![r] = l]
           /\ calls' = [calls EXCEPT ![r] = CallsAt(l)]
<1>1. calls \in [Ranks -> Nat] /\ calls[r] = CallsAt(at[r])
    BY DEF PingTypes, Positions
<1>2. CASE Goto(r, l) /\ CallsAt(l) = CallsAt(at[r])
    BY <1>1, <1>2 DEF Goto
<1>3. CASE Enter(r, l) /\ CallsAt(l) = CallsAt(at[r]) + 1
    BY <1>1, <1>3 DEF Enter
<1>4. CASE l = "finalize" /\ (Finalize(r, 0) \/ Finalize(r, 1)) /\ at[r] = "stop"
    <2>1. CallsAt("stop") + 1 = CallsAt("finalize")
        BY DEF CallsAt, OnCourt
    <2> QED
        BY <1>1, <1>4, <2>1 DEF Finalize
<1> QED
    BY <1>2, <1>3, <1>4

\* When all have come to the final barrier the game is over.
LEMMA AllAreThere ==
    ASSUME PingTypes, NEW at \in [Ranks -> Labels], Positions(at),
           NEW r \in Ranks, at[r] \in Over, AllArrived(r)
    PROVE  \A s \in Ranks : at[s] \in Over
<1> SUFFICES ASSUME NEW s \in Ranks PROVE at[s] \in Over
    OBVIOUS
<1>1. calls[s] >= calls[r] /\ calls[s] = CallsAt(at[s]) /\ calls[r] = CallsAt(at[r])
    BY DEF AllArrived, HasEntered, Positions
<1>2. CallsAt(at[r]) >= 2
    BY DEF CallsAt, Over, OnCourt
<1>3. at[s] \notin Over => CallsAt(at[s]) \in {0, 1}
    BY DEF CallsAt, Over, OnCourt, Labels
<1>4. CallsAt(at[r]) \in {2, 3}
    BY DEF CallsAt, Over, OnCourt
<1> QED
    BY <1>1, <1>3, <1>4

\* A rank that goes on without the ball.
LEMMA WalksOn ==
    ASSUME PingTypes, NEW at \in [Ranks -> Labels], ~(world < 2), Game(at),
           NEW r \in Ranks, UNCHANGED world,
           \/ PrepareBuffer(r) \/ Start(r) \/ Stop(r) \/ PingExit(r)
           \/ r \in Players /\ Played(r)
           \/ r = 0 /\ (SendReturns(r) \/ SendIsEager(r))
    PROVE  \E to \in [Ranks -> Labels] : Game(to)'
<1> USE DEF At
<1>1. Positions(at) /\ Trips(at) /\ 0 \in Players /\ 1 \in Players /\ Players = {0, 1}
    BY DEF Game, Players
<1>2. ASSUME NEW l \in Labels, UNCHANGED pingVars,
             \/ Goto(r, l) /\ CallsAt(l) = CallsAt(at[r])
             \/ Enter(r, l) /\ CallsAt(l) = CallsAt(at[r]) + 1,
             r \notin Players => l \notin OnCourt,
             at[r] \in Over => l \in Over /\ \A s \in Ranks : at[s] \in Over,
             at[r] \notin Over => l \notin {"finalize", "exited"},
             r \in Players =>
                 /\ Sends([at EXCEPT ![r] = l], r) = Sends(at, r)
                 /\ Receives([at EXCEPT ![r] = l], r) = Receives(at, r)
                 /\ l \in {"begin", "start"} => trip[r] = 0
                 /\ l \in OnCourt => trip[r] < trips
                 /\ l \in {"played"} \cup Over => trip[r] = trips,
             at[0] \notin {"finalize", "exited"} /\ r = 0 => l \notin {"finalize", "exited"}
      PROVE  \E to \in [Ranks -> Labels] : Game(to)'
    <2>1. pc' = [pc EXCEPT ![r] = l] /\ calls' = [calls EXCEPT ![r] = CallsAt(l)]
        BY <1>1, <1>2, GoesOn
    <2>2. /\ [at EXCEPT ![r] = l] \in [Ranks -> Labels]
          /\ Positions([at EXCEPT ![r] = l])'
        BY <1>1, <1>2, <2>1, PositionsMove
    <2>3. UNCHANGED exitCode
        BY <1>2 DEF Goto, Enter
    <2>4. Game([at EXCEPT ![r] = l])'
        BY <1>2, <2>2, <2>3, BallStays
    <2> QED
        BY <2>2, <2>4
<1>3. \A l \in Labels : [at EXCEPT ![r] = l][r] = l
    OBVIOUS
<1>4. r \in Players =>
          /\ at[r] \in {"begin", "start"} => trip[r] = 0
          /\ at[r] \in OnCourt => trip[r] < trips
          /\ at[r] \in {"played"} \cup Over => trip[r] = trips
    BY <1>1 DEF Trips
<1>5. trips \in Nat \ {0}
    BY DEF PingTypes
<1>6. CASE PrepareBuffer(r)
    <2>1. pc[r] = "begin" /\ Enter(r, "start") /\ UNCHANGED pingVars
        BY <1>6 DEF PrepareBuffer
    <2>2. at[r] = "begin"
        BY <1>1, <2>1 DEF Positions
    <2> QED
        BY <1>2, <1>3, <1>4, <2>1, <2>2 DEF CallsAt, Labels, Over, OnCourt, Sends, Receives
<1>7. CASE Start(r)
    <2>1. pc[r] = "start" /\ UNCHANGED pingVars
        BY <1>7 DEF Start
    <2>2. at[r] = "start"
        BY <1>1, <2>1 DEF Positions
    <2>3. CASE r \in Players
        <3>1. Goto(r, FirstCall(r)) /\ FirstCall(r) \in OnCourt /\ FirstCall(r) \in Labels
            BY <1>7, <2>3 DEF Start, FirstCall, OnCourt, Labels
        <3>2. trip[r] = 0 /\ 0 < trips
            BY <1>4, <1>5, <2>2, <2>3
        <3>3. /\ Sends([at EXCEPT ![r] = FirstCall(r)], r) = Sends(at, r)
              /\ Receives([at EXCEPT ![r] = FirstCall(r)], r) = Receives(at, r)
            BY <1>3, <2>2, <3>1 DEF Sends, Receives, FirstCall
        <3>4. /\ FirstCall(r) \notin {"begin", "start"} /\ FirstCall(r) \notin {"played"} \cup Over
              /\ CallsAt(FirstCall(r)) = CallsAt(at[r])
              /\ at[r] \notin Over
            BY <2>2, <3>1 DEF OnCourt, Over, CallsAt
        <3>5. FirstCall(r) \notin {"finalize", "exited"}
            BY <3>4 DEF Over
        <3> QED
            BY <1>2, <2>1, <2>3, <3>1, <3>2, <3>3, <3>4, <3>5
    <2>4. CASE r \notin Players
        <3>1. Enter(r, "stop") /\ r # 0
            BY <1>1, <1>7, <2>4 DEF Start
        <3> QED
            BY <1>2, <2>1, <2>2, <2>4, <3>1 DEF CallsAt, Labels, Over, OnCourt
    <2> QED
        BY <2>3, <2>4
<1>8. CASE r \in Players /\ Played(r)
    <2>1. pc[r] = "played" /\ Enter(r, "stop") /\ UNCHANGED pingVars
        BY <1>8 DEF Played
    <2>2. at[r] = "played"
        BY <1>1, <2>1 DEF Positions
    <2> QED
        BY <1>2, <1>3, <1>4, <2>1, <2>2 DEF CallsAt, Labels, Over, OnCourt, Sends, Receives
<1>9. CASE r = 0 /\ (SendReturns(r) \/ SendIsEager(r))
    <2>1. /\ pc[r] = "sending" /\ Goto(r, "receive")
          /\ UNCHANGED <<trips, payload, trip, buffer, wire, spoilt>>
        BY <1>9 DEF SendReturns, SendIsEager, Sent
    <2>2. at[r] = "sending" /\ UNCHANGED pingVars
        BY <1>1, <2>1 DEF Positions, pingVars
    <2> QED
        BY <1>1, <1>2, <1>3, <1>4, <1>9, <2>1, <2>2
        DEF CallsAt, Labels, Over, OnCourt, Sends, Receives
<1>10. CASE PingExit(r)
    <2>1. pc[r] = "finalize" /\ Goto(r, "exited") /\ UNCHANGED pingVars
        BY <1>10 DEF PingExit, Finalized
    <2>2. at[r] = "finalize"
        BY <1>1, <2>1 DEF Positions
    <2>3. \A s \in Ranks : at[s] \in Over
        BY <1>1, <2>2 DEF Positions
    <2> QED
        BY <1>2, <1>3, <1>4, <2>1, <2>2, <2>3
        DEF CallsAt, Labels, Over, OnCourt, Sends, Receives
<1>11. CASE Stop(r)
    <2>1. /\ pc[r] = "stop" /\ AllArrived(r) /\ UNCHANGED pingVars
          /\ Finalize(r, IF r = 0 /\ buffer[0] = "corrupt" THEN 1 ELSE 0)
        BY <1>11 DEF Stop
    <2>2. at[r] = "stop" /\ "finalize" \in Labels /\ "finalize" \in Over /\ "stop" \in Over
        BY <1>1, <2>1 DEF Positions, Labels, Over
    <2>3. \A s \in Ranks : at[s] \in Over
        BY <1>1, <2>1, <2>2, AllAreThere
    <2>4. Finalize(r, 0) \/ Finalize(r, 1)
        BY <2>1
    <2>5. pc' = [pc EXCEPT ![r] = "finalize"] /\ calls' = [calls EXCEPT ![r] = CallsAt("finalize")]
        BY <1>1, <2>2, <2>4, GoesOn
    <2>6. "finalize" \notin OnCourt /\ "finalize" \notin {"begin", "start"}
        BY DEF OnCourt
    <2>7. /\ [at EXCEPT ![r] = "finalize"] \in [Ranks -> Labels]
          /\ Positions([at EXCEPT ![r] = "finalize"])'
        BY <1>1, <2>2, <2>3, <2>5, <2>6, PositionsMove
    <2>8. exitCode' = [exitCode EXCEPT ![r] = IF r = 0 /\ buffer[0] = "corrupt" THEN 1 ELSE 0]
        BY <2>1 DEF Finalize
    <2>9. /\ at[0] \in {"finalize", "exited"} => exitCode'[0] = exitCode[0]
          /\ r = 0 => exitCode'[0] = IF buffer[0] = "corrupt" THEN 1 ELSE 0
        BY <2>2, <2>8 DEF PingTypes
    <2>10. r \in Players =>
               /\ Sends([at EXCEPT ![r] = "finalize"], r) = Sends(at, r)
               /\ Receives([at EXCEPT ![r] = "finalize"], r) = Receives(at, r)
               /\ trip[r] = trips
        BY <1>3, <1>4, <2>2 DEF Sends, Receives
    <2>11. Game([at EXCEPT ![r] = "finalize"])'
        BY <2>1, <2>2, <2>6, <2>7, <2>9, <2>10, BallStays
    <2> QED
        BY <2>7, <2>11
<1> QED
    BY <1>6, <1>7, <1>8, <1>9, <1>10, <1>11

\* A rank that is killed leaves the ball where it is.
LEMMA WalksOff ==
    ASSUME PingTypes, NEW at \in [Ranks -> Labels], ~(world < 2), Game(at),
           NEW r \in Ranks, UNCHANGED world,
           CountRefused(r) \/ BufferFails(r) \/ PingDie(r)
    PROVE  Game(at)'
<1>1. /\ pc' = [pc EXCEPT ![r] = "killed"]
      /\ UNCHANGED <<calls, exitCode, trips, payload, trip, buffer, wire, spoilt>>
    BY DEF CountRefused, BufferFails, PingDie, MPI_Abort, Killed, Goto, pingVars
<1>2. Positions(at)'
    BY <1>1, PositionsStay DEF Game
<1>3. Trips(at)'
    BY <1>1 DEF Game, Trips, Players
<1>4. \A p \in Players : Sends(at, p)' = Sends(at, p) /\ Receives(at, p)' = Receives(at, p)
                         /\ OnTheWay(p)' = OnTheWay(p)
    BY <1>1 DEF Sends, Receives, OnTheWay, NoMessage
<1>5. Exchange(at)'
    <2>1. \A p \in Players : Peer(p) \in Players
        BY DEF Peer, Players
    <2> QED
        BY <1>4, <2>1 DEF Game, Exchange, Players, Peer
<1>6. Judged(at)'
    <2>1. Ball(at)' = Ball(at)
        BY <1>1, <1>4 DEF Ball, NoMessage, Players
    <2> QED
        BY <1>1, <2>1 DEF Game, Judged
<1> QED
    BY <1>2, <1>3, <1>5, <1>6 DEF Game

\* A player that plays the ball is on court, and comes to the next label.
LEMMA Plays ==
    ASSUME PingTypes, NEW at \in [Ranks -> Labels], ~(world < 2), Game(at),
           NEW r \in Players, NEW l \in Labels, UNCHANGED world,
           pc[r] \in OnCourt, l \in OnCourt \cup {"played"}, Goto(r, l)
    PROVE  /\ [at EXCEPT ![r] = l] \in [Ranks -> Labels]
           /\ Positions([at EXCEPT ![r] = l])'
           /\ at[r] = pc[r] /\ r \in Ranks
           /\ at[r] \notin Over
           /\ at[0] \notin {"finalize", "exited"}
<1>1. r \in Ranks /\ 0 \in Ranks
    BY PlayersAreRanks DEF PingTypes
<1>2. Positions(at)
    BY DEF Game
<1>3. at[r] = pc[r] /\ at[r] \notin Over
    BY <1>1, <1>2 DEF Positions, OnCourt, Over
<1>4. CallsAt(l) = 1 /\ CallsAt(at[r]) = 1
    BY <1>3 DEF CallsAt, OnCourt
<1>5. pc' = [pc EXCEPT ![r] = l] /\ calls' = [calls EXCEPT ![r] = CallsAt(l)]
    BY <1>1, <1>2, <1>4, GoesOn
<1>6. l \notin {"finalize", "exited"}
    BY DEF OnCourt
<1>7. /\ [at EXCEPT ![r] = l] \in [Ranks -> Labels]
      /\ Positions([at EXCEPT ![r] = l])'
    BY <1>1, <1>2, <1>3, <1>5, <1>6, PositionsMove
<1>8. at[0] \notin {"finalize", "exited"}
    BY <1>1, <1>2, <1>3 DEF Positions
<1> QED
    BY <1>1, <1>3, <1>7, <1>8

\* The ball is sent by the player that has it, and may be corrupted.
LEMMA SendsBall ==
    ASSUME PingTypes, NEW at \in [Ranks -> Labels], ~(world < 2), Game(at),
           NEW r \in Players, UNCHANGED world, Send(r)
    PROVE  \E to \in [Ranks -> Labels] : Game(to)'
<1> DEFINE to == [at EXCEPT ![r] = "sending"]
<1>1. /\ pc[r] = "send" /\ Goto(r, "sending")
      /\ UNCHANGED <<trips, payload, trip, buffer, exitCode>>
    BY DEF Send, At, Goto
<1>2. PICK bytes \in {buffer[r], "corrupt"} :
          /\ wire' = [wire EXCEPT ![Peer(r)] = bytes]
          /\ spoilt' = (spoilt \/ bytes # buffer[r])
    BY DEF Send, BytesOf
<1>3. "send" \in OnCourt /\ "sending" \in OnCourt /\ "sending" \in Labels
    BY DEF OnCourt, Labels
<1>4. /\ to \in [Ranks -> Labels] /\ Positions(to)' /\ at[r] = "send" /\ r \in Ranks
      /\ at[0] \notin {"finalize", "exited"}
    BY <1>1, <1>3, Plays
<1>5. to[r] = "sending" /\ \A s \in Players : s # r => to[s] = at[s]
    BY <1>4, PlayersAreRanks DEF PingTypes
<1> HIDE DEF to
<1>6. r = 0 \/ r = 1
    BY DEF Players
<1>7. /\ wire[0] = NoMessage /\ wire[1] = NoMessage
      /\ trip[0] \in Nat /\ trip[1] \in Nat
      /\ r = 0 => trip[0] = Receives(at, 1)
      /\ r = 1 => trip[1] = trip[0]
    <2>1. /\ Receives(at, 0) = trip[0] /\ Sends(at, 0) \in {trip[0], trip[0] + 1}
          /\ Receives(at, 1) \in {trip[1], trip[1] + 1}
          /\ Sends(at, 1) \in {trip[1], Receives(at, 1)}
          /\ Sends(at, 1) \in Int /\ Sends(at, 1) <= Receives(at, 1)
          /\ Sends(at, 0) = Receives(at, 1) + OnTheWay(1)
          /\ Sends(at, 1) = Receives(at, 0) + OnTheWay(0)
          /\ OnTheWay(0) \in {0, 1} /\ OnTheWay(1) \in {0, 1}
          /\ trip[0] \in Nat /\ trip[1] \in Nat
        BY Turns
    <2>2. r = 0 => Sends(at, 0) = trip[0]
        BY <1>4 DEF Sends
    <2>3. r = 1 => Sends(at, 1) = trip[1] /\ Receives(at, 1) = trip[1] + 1
        BY <1>4 DEF Sends, Receives
    <2>4. /\ OnTheWay(0) = 0 /\ OnTheWay(1) = 0
          /\ r = 0 => trip[0] = Receives(at, 1)
          /\ r = 1 => trip[1] = trip[0]
        BY <1>6, <2>1, <2>2, <2>3
    <2> QED
        BY <2>1, <2>4 DEF OnTheWay
<1>8. bytes \in {"pattern", "corrupt"} /\ bytes # NoMessage
    BY <1>2 DEF PingTypes, NoMessage
<1>9. /\ wire'[Peer(r)] = bytes /\ wire'[r] = NoMessage
      /\ Peer(r) \in Players /\ Peer(r) # r
    BY <1>2, <1>6, <1>7 DEF PingTypes, Peer, Players
<1>10. Trips(to)'
    <2>1. trip[r] < trips
        BY <1>3, <1>4 DEF Game, Trips
    <2>2. \A p \in Players : p # r =>
              /\ to[p] \in {"begin", "start"} => trip[p] = 0
              /\ to[p] \in OnCourt => trip[p] < trips
              /\ to[p] \in {"played"} \cup Over => trip[p] = trips
        BY <1>5 DEF Game, Trips
    <2> QED
        BY <1>1, <1>5, <2>1, <2>2 DEF Trips, Players, OnCourt, Over
<1>11. CASE r = 0
    <2>1. /\ Sends(to, 0)' = trip[0] + 1 /\ Receives(to, 0)' = trip[0]
          /\ Sends(to, 1)' = Sends(at, 1) /\ Receives(to, 1)' = Receives(at, 1)
        BY <1>1, <1>5, <1>11 DEF Sends, Receives, Players
    <2>2. Sends(at, 1) = trip[0] /\ Receives(at, 1) = trip[0]
        <3>1. Sends(at, 1) = Receives(at, 0) + OnTheWay(0) /\ Receives(at, 0) = trip[0]
            BY Turns
        <3>2. OnTheWay(0) = 0
            BY <1>7 DEF OnTheWay
        <3> QED
            BY <1>7, <1>11, <3>1, <3>2
    <2>3. OnTheWay(1)' = 1 /\ OnTheWay(0)' = 0 /\ Peer(0) = 1 /\ Peer(1) = 0
        BY <1>8, <1>9, <1>11 DEF OnTheWay, Peer, NoMessage
    <2>4. Exchange(to)'
        <3>1. /\ Sends(to, 1)' = Receives(to, 0)' + OnTheWay(0)'
              /\ Sends(to, 0)' = Receives(to, 1)' + OnTheWay(1)'
            BY <1>7, <2>1, <2>2, <2>3
        <3> QED
            BY <2>3, <3>1 DEF Exchange, Players, Peer
    <2>5. Ball(at) = buffer[0] /\ Ball(to)' = bytes
        <3>1. ~(Receives(at, 1) > Receives(at, 0))
            <4>1. Receives(at, 0) = trip[0]
                BY DEF Receives
            <4> QED
                BY <1>7, <2>2, <4>1
        <3> QED
            BY <1>7, <1>8, <1>9, <1>11, <3>1 DEF Ball, Peer, NoMessage
    <2> QED
        BY <1>1, <1>2, <1>4, <1>5, <1>10, <1>11, <2>4, <2>5 DEF Game, Judged
<1>12. CASE r = 1
    <2>1. /\ Sends(to, 1)' = trip[1] + 1 /\ Receives(to, 1)' = trip[1] + 1
          /\ Sends(to, 0)' = Sends(at, 0) /\ Receives(to, 0)' = trip[0]
        BY <1>1, <1>5, <1>12 DEF Sends, Receives, Players
    <2>2. Receives(at, 1) = trip[1] + 1 /\ Sends(at, 0) = trip[1] + 1
        <3>1. Sends(at, 0) = Receives(at, 1) + OnTheWay(1)
            BY Turns
        <3>2. OnTheWay(1) = 0
            BY <1>7 DEF OnTheWay
        <3>3. Receives(at, 1) = trip[1] + 1
            BY <1>4, <1>12 DEF Receives
        <3> QED
            BY <1>7, <3>1, <3>2, <3>3
    <2>3. OnTheWay(0)' = 1 /\ OnTheWay(1)' = 0 /\ Peer(0) = 1 /\ Peer(1) = 0
        BY <1>8, <1>9, <1>12 DEF OnTheWay, Peer, NoMessage
    <2>4. Exchange(to)'
        <3>1. /\ Sends(to, 1)' = Receives(to, 0)' + OnTheWay(0)'
              /\ Sends(to, 0)' = Receives(to, 1)' + OnTheWay(1)'
            BY <1>7, <1>12, <2>1, <2>2, <2>3
        <3> QED
            BY <2>3, <3>1 DEF Exchange, Players, Peer
    <2>5. Ball(at) = buffer[1] /\ Ball(to)' = bytes
        <3>1. Receives(at, 1) > Receives(at, 0)
            <4>1. Receives(at, 0) = trip[0]
                BY DEF Receives
            <4> QED
                BY <1>7, <1>12, <2>2, <4>1
        <3> QED
            BY <1>7, <1>8, <1>9, <1>12, <3>1 DEF Ball, Peer, NoMessage
    <2>6. to[0] \notin {"finalize", "exited"}
        BY <1>4, <1>5, <1>12 DEF Players
    <2> QED
        BY <1>1, <1>2, <1>4, <1>10, <1>12, <2>4, <2>5, <2>6 DEF Game, Judged
<1> QED
    BY <1>6, <1>11, <1>12

\* At the end of a round trip rank r goes to label l, to play on or to stop.
TripOver(at, r, l) ==
    LET to == [at EXCEPT ![r] = l]
    IN  /\ l = FirstCall(r) \/ l = "played"
        /\ to \in [Ranks -> Labels] /\ Positions(to)' /\ Trips(to)'
        /\ to[r] = l /\ \A s \in Players : s # r => to[s] = at[s]
        /\ at[r] = pc[r]
        /\ to[0] \notin {"finalize", "exited"}
        /\ trip'[r] = trip[r] + 1 /\ \A s \in Players : s # r => trip'[s] = trip[s]

\* The end of a round trip leaves the counts of messages as they are.
LEMMA TripEnds ==
    ASSUME PingTypes, NEW at \in [Ranks -> Labels], ~(world < 2), Game(at),
           NEW r \in Players, UNCHANGED <<world, trips>>,
           pc[r] \in OnCourt, EndTrip(r)
    PROVE  \E l \in OnCourt \cup {"played"} : TripOver(at, r, l)
<1>1. /\ trip \in [Players -> Nat] /\ trips \in Nat \ {0}
      /\ trip' = [trip EXCEPT ![r] = @ + 1]
    BY DEF PingTypes, EndTrip
<1>2. trip'[r] = trip[r] + 1 /\ \A s \in Players : s # r => trip'[s] = trip[s]
    BY <1>1
<1>3. PICK l \in OnCourt \cup {"played"} :
          Goto(r, l) /\ l = IF trip'[r] < trips THEN FirstCall(r) ELSE "played"
    BY DEF EndTrip, FirstCall, OnCourt
<1>4. (l = FirstCall(r) \/ l = "played") /\ (l = "played" <=> ~(trip'[r] < trips))
    BY <1>3 DEF FirstCall
<1> DEFINE to == [at EXCEPT ![r] = l]
<1>5. l \in Labels
    BY <1>3 DEF Labels
<1>6. /\ to \in [Ranks -> Labels] /\ Positions(to)' /\ at[r] = pc[r] /\ r \in Ranks
      /\ at[0] \notin {"finalize", "exited"}
    <2>1. UNCHANGED world
        OBVIOUS
    <2>2. /\ [at EXCEPT ![r] = l] \in [Ranks -> Labels]
          /\ Positions([at EXCEPT ![r] = l])'
          /\ at[r] = pc[r] /\ r \in Ranks
          /\ at[0] \notin {"finalize", "exited"}
        BY <1>3, <1>5, <2>1, Plays
    <2> QED
        BY <2>2
<1>7. to[r] = l /\ \A s \in Players : s # r => to[s] = at[s]
    BY <1>5, <1>6, PlayersAreRanks DEF PingTypes
<1>8. to[0] \notin {"finalize", "exited"}
    BY <1>3, <1>6, <1>7 DEF OnCourt, Players
<1>9. Trips(to)'
    <2>1. trip[r] < trips /\ trip[r] \in Nat
        BY <1>1, <1>6 DEF Game, Trips
    <2>2. l = "played" => trip'[r] = trips
        BY <1>1, <1>2, <1>4, <2>1
    <2>3. l \in OnCourt => trip'[r] < trips
        BY <1>4 DEF OnCourt
    <2>4. l \notin {"begin", "start"} /\ l \notin Over
        BY <1>3 DEF OnCourt, Over
    <2>5. trips' = trips
        OBVIOUS
    <2>6. \A p \in Players : p # r =>
              /\ to[p] \in {"begin", "start"} => trip'[p] = 0
              /\ to[p] \in OnCourt => trip'[p] < trips
              /\ to[p] \in {"played"} \cup Over => trip'[p] = trips
        BY <1>2, <1>7 DEF Game, Trips
    <2> HIDE DEF to
    <2> QED
        BY <1>7, <2>2, <2>3, <2>4, <2>5, <2>6 DEF Trips, Players, OnCourt, Over
<1>10. /\ l = FirstCall(r) \/ l = "played"
       /\ to \in [Ranks -> Labels] /\ Positions(to)' /\ Trips(to)'
       /\ to[r] = l /\ \A s \in Players : s # r => to[s] = at[s]
       /\ at[r] = pc[r]
       /\ to[0] \notin {"finalize", "exited"}
       /\ trip'[r] = trip[r] + 1 /\ \A s \in Players : s # r => trip'[s] = trip[s]
    BY <1>2, <1>4, <1>6, <1>7, <1>8, <1>9
<1>11. TripOver(at, r, l)
    BY <1>10 DEF TripOver
<1> QED
    BY <1>3, <1>11

\* Rank 1 goes on when its message has gone, wherever that is by then.
LEMMA PongIsSent ==
    ASSUME PingTypes, NEW at \in [Ranks -> Labels], ~(world < 2), Game(at),
           UNCHANGED world, SendReturns(1) \/ SendIsEager(1)
    PROVE  \E to \in [Ranks -> Labels] : Game(to)'
<1>1. /\ pc[1] = "sending" /\ EndTrip(1) /\ pc[1] \in OnCourt /\ 1 \in Players
      /\ UNCHANGED <<trips, payload, buffer, wire, spoilt, exitCode>>
    BY DEF SendReturns, SendIsEager, Sent, At, EndTrip, Goto, OnCourt, Players
<1>2. PICK l \in OnCourt \cup {"played"} : TripOver(at, 1, l)
    BY <1>1, TripEnds
<1> DEFINE to == [at EXCEPT ![1] = l]
<1>3. /\ l = "receive" \/ l = "played"
      /\ to \in [Ranks -> Labels] /\ Positions(to)' /\ Trips(to)'
      /\ to[1] = l /\ to[0] = at[0] /\ at[1] = "sending"
      /\ to[0] \notin {"finalize", "exited"}
      /\ trip'[1] = trip[1] + 1 /\ trip'[0] = trip[0]
    BY <1>1, <1>2 DEF TripOver, FirstCall, Players
<1> HIDE DEF to
<1>4. /\ Sends(to, 0)' = Sends(at, 0) /\ Receives(to, 0)' = Receives(at, 0)
      /\ Sends(to, 1)' = Sends(at, 1) /\ Receives(to, 1)' = Receives(at, 1)
    BY <1>3 DEF Sends, Receives
<1>5. OnTheWay(0)' = OnTheWay(0) /\ OnTheWay(1)' = OnTheWay(1)
    BY <1>1 DEF OnTheWay, NoMessage
<1>6. Exchange(to)'
    BY <1>4, <1>5 DEF Game, Exchange, Players, Peer
<1>7. Judged(to)'
    <2>1. Ball(to)' = Ball(at)
        BY <1>1, <1>4 DEF Ball, NoMessage
    <2> QED
        BY <1>1, <1>3, <2>1 DEF Game, Judged
<1> QED
    BY <1>3, <1>6, <1>7 DEF Game

\* Rank 1 has the ball.
LEMMA PingIsReceived ==
    ASSUME PingTypes, NEW at \in [Ranks -> Labels], ~(world < 2), Game(at),
           UNCHANGED world, Receive(1)
    PROVE  \E to \in [Ranks -> Labels] : Game(to)'
<1> DEFINE to == [at EXCEPT ![1] = "send"]
<1>1. /\ pc[1] = "receive" /\ Goto(1, "send") /\ wire[1] # NoMessage
      /\ buffer' = [buffer EXCEPT ![1] = wire[1]] /\ wire' = [wire EXCEPT ![1] = NoMessage]
      /\ UNCHANGED <<trips, payload, trip, spoilt, exitCode>>
    BY DEF Receive, At, Goto
<1>2. "send" \in OnCourt /\ "receive" \in OnCourt /\ 1 \in Players /\ "send" \in Labels
    BY DEF OnCourt, Players, Labels
<1>3. /\ to \in [Ranks -> Labels] /\ Positions(to)' /\ at[1] = "receive" /\ 1 \in Ranks
      /\ at[0] \notin {"finalize", "exited"}
    BY <1>1, <1>2, Plays
<1>4. to[1] = "send" /\ to[0] = at[0]
    BY <1>3, PlayersAreRanks DEF PingTypes
<1> HIDE DEF to
<1>5. /\ wire'[1] = NoMessage /\ wire'[0] = wire[0] /\ buffer'[1] = wire[1]
    BY <1>1 DEF PingTypes, Players
<1>6. /\ trip[0] \in Nat /\ trip[1] = trip[0] /\ wire[0] = NoMessage
      /\ Sends(at, 0) = trip[1] + 1 /\ Receives(at, 0) = trip[0] /\ Sends(at, 1) = trip[1]
    <2>1. /\ Receives(at, 0) = trip[0] /\ Sends(at, 0) \in {trip[0], trip[0] + 1}
          /\ Sends(at, 0) = Receives(at, 1) + OnTheWay(1)
          /\ Sends(at, 1) = Receives(at, 0) + OnTheWay(0)
          /\ OnTheWay(0) \in {0, 1} /\ OnTheWay(1) \in {0, 1}
          /\ trip[0] \in Nat /\ trip[1] \in Nat
        BY Turns
    <2>2. Receives(at, 1) = trip[1] /\ Sends(at, 1) = trip[1] /\ OnTheWay(1) = 1
        BY <1>1, <1>3 DEF Receives, Sends, OnTheWay
    <2>3. OnTheWay(0) = 0 /\ trip[1] = trip[0]
        BY <2>1, <2>2
    <2> QED
        BY <2>1, <2>2, <2>3 DEF OnTheWay
<1>7. /\ Sends(to, 0)' = Sends(at, 0) /\ Receives(to, 0)' = trip[0]
      /\ Sends(to, 1)' = trip[1] /\ Receives(to, 1)' = trip[1] + 1
      /\ OnTheWay(0)' = 0 /\ OnTheWay(1)' = 0
    BY <1>1, <1>4, <1>5, <1>6 DEF Sends, Receives, OnTheWay, NoMessage
<1>8. Trips(to)'
    BY <1>1, <1>2, <1>3, <1>4 DEF Game, Trips, Players, OnCourt, Over
<1>9. Exchange(to)'
    <2>1. /\ Sends(to, 1)' = Receives(to, 0)' + OnTheWay(0)'
          /\ Sends(to, 0)' = Receives(to, 1)' + OnTheWay(1)'
        BY <1>6, <1>7
    <2> QED
        BY <2>1 DEF Exchange, Players, Peer
<1>10. Judged(to)'
    <2>1. Ball(at) = wire[1]
        BY <1>1 DEF Ball
    <2>2. Ball(to)' = wire[1]
        <3>1. Receives(to, 1)' > Receives(to, 0)'
            BY <1>6, <1>7
        <3> QED
            BY <1>5, <1>6, <3>1 DEF Ball, NoMessage
    <2> QED
        BY <1>1, <1>3, <1>4, <2>1, <2>2 DEF Game, Judged
<1> QED
    BY <1>3, <1>8, <1>9, <1>10 DEF Game

\* Rank 0 has the ball back, and the round trip ends.
LEMMA PongIsReceived ==
    ASSUME PingTypes, NEW at \in [Ranks -> Labels], ~(world < 2), Game(at),
           UNCHANGED world, Receive(0)
    PROVE  \E to \in [Ranks -> Labels] : Game(to)'
<1>1. /\ pc[0] = "receive" /\ EndTrip(0) /\ wire[0] # NoMessage
      /\ pc[0] \in OnCourt /\ 0 \in Players
      /\ buffer' = [buffer EXCEPT ![0] = wire[0]] /\ wire' = [wire EXCEPT ![0] = NoMessage]
      /\ UNCHANGED <<trips, payload, spoilt>>
    BY DEF Receive, At, OnCourt, Players
<1>2. PICK l \in OnCourt \cup {"played"} : TripOver(at, 0, l)
    BY <1>1, TripEnds
<1> DEFINE to == [at EXCEPT ![0] = l]
<1>3. /\ l = "send" \/ l = "played"
      /\ to \in [Ranks -> Labels] /\ Positions(to)' /\ Trips(to)'
      /\ to[0] = l /\ to[1] = at[1] /\ at[0] = "receive"
      /\ to[0] \notin {"finalize", "exited"}
      /\ trip'[0] = trip[0] + 1 /\ trip'[1] = trip[1]
    BY <1>1, <1>2 DEF TripOver, FirstCall, Players
<1> HIDE DEF to
<1>4. /\ wire'[0] = NoMessage /\ wire'[1] = wire[1] /\ buffer'[0] = wire[0]
    BY <1>1 DEF PingTypes, Players
<1>5. /\ trip[0] \in Nat /\ wire[1] = NoMessage
      /\ Receives(at, 1) = trip[0] + 1 /\ Sends(at, 1) = trip[0] + 1
    <2>1. /\ Receives(at, 0) = trip[0]
          /\ Receives(at, 1) \in {trip[1], trip[1] + 1}
          /\ Sends(at, 1) \in Int /\ Sends(at, 1) <= Receives(at, 1)
          /\ Sends(at, 0) = Receives(at, 1) + OnTheWay(1)
          /\ Sends(at, 1) = Receives(at, 0) + OnTheWay(0)
          /\ OnTheWay(0) \in {0, 1} /\ OnTheWay(1) \in {0, 1}
          /\ trip[0] \in Nat /\ trip[1] \in Nat
        BY Turns
    <2>2. Sends(at, 0) = trip[0] + 1 /\ OnTheWay(0) = 1
        BY <1>1, <1>3 DEF Sends, OnTheWay
    <2>3. OnTheWay(1) = 0 /\ Receives(at, 1) = trip[0] + 1 /\ Sends(at, 1) = trip[0] + 1
        BY <2>1, <2>2
    <2> QED
        BY <2>1, <2>3 DEF OnTheWay
<1>6. /\ Sends(to, 0)' = trip[0] + 1 /\ Receives(to, 0)' = trip[0] + 1
      /\ Sends(to, 1)' = Sends(at, 1) /\ Receives(to, 1)' = Receives(at, 1)
      /\ OnTheWay(0)' = 0 /\ OnTheWay(1)' = 0
    BY <1>3, <1>4, <1>5 DEF Sends, Receives, OnTheWay, NoMessage
<1>7. Exchange(to)'
    <2>1. /\ Sends(to, 1)' = Receives(to, 0)' + OnTheWay(0)'
          /\ Sends(to, 0)' = Receives(to, 1)' + OnTheWay(1)'
        BY <1>5, <1>6
    <2> QED
        BY <2>1 DEF Exchange, Players, Peer
<1>8. Judged(to)'
    <2>1. Ball(at) = wire[0]
        BY <1>1, <1>5 DEF Ball
    <2>2. Ball(to)' = wire[0]
        <3>1. ~(Receives(to, 1)' > Receives(to, 0)')
            BY <1>5, <1>6
        <3> QED
            BY <1>4, <1>5, <3>1 DEF Ball, NoMessage
    <2> QED
        BY <1>1, <1>3, <2>1, <2>2 DEF Game, Judged
<1> QED
    BY <1>3, <1>7, <1>8 DEF Game

LEMMA PingStep ==
    ASSUME PingInv, [Next]_vars
    PROVE  PingInv'
<1>1. program' = program
    BY DEF Next, vars
<1> SUFFICES ASSUME PlaysBall PROVE PingInv'
    BY <1>1 DEF PingInv, PlaysBall
<1>2. PingTypes
    BY DEF PingInv
<1>3. CASE UNCHANGED vars
    <2>1. UNCHANGED <<world, pc, calls, exitCode, trips, trip, buffer, wire, spoilt>>
        BY <1>3 DEF vars, worldVars, pingVars
    <2>2. Ranks' = Ranks
        BY <2>1 DEF Ranks
    <2>3. PingTypes'
        BY <1>2, <2>1, <2>2 DEF PingTypes, NoMessage, Players, Labels, OnCourt, Over
    <2>4. CASE world < 2
        <3>1. Alone
            BY <2>4 DEF PingInv
        <3>2. Alone'
            BY <2>1, <2>2, <3>1 DEF Alone, Players
        <3> QED
            BY <1>1, <2>1, <2>3, <2>4, <3>2 DEF PingInv
    <2>5. CASE ~(world < 2)
        <3>1. PICK at \in [Ranks -> Labels] : Game(at)
            BY <2>5 DEF PingInv
        <3>2. Positions(at)' /\ Trips(at)'
            BY <2>1, <2>2, <3>1 DEF Game, Positions, Trips, Players, OnCourt, Over, CallsAt
        <3>3. \A p \in Players : Sends(at, p)' = Sends(at, p) /\ Receives(at, p)' = Receives(at, p)
                                 /\ OnTheWay(p)' = OnTheWay(p)
            BY <2>1 DEF Sends, Receives, OnTheWay, NoMessage
        <3>4. Exchange(at)'
            BY <3>1, <3>3 DEF Game, Exchange, Players, Peer
        <3>5. Judged(at)'
            <4>1. Ball(at)' = Ball(at)
                BY <2>1, <3>3 DEF Ball, NoMessage, Players
            <4> QED
                BY <2>1, <3>1, <4>1 DEF Game, Judged
        <3>6. \E to \in [Ranks' -> Labels] : Game(to)'
            BY <2>2, <3>2, <3>4, <3>5 DEF Game
        <3> QED
            BY <2>1, <2>3, <2>5, <3>6 DEF PingInv
    <2> QED
        BY <2>4, <2>5
<1>4. CASE Next
    <2>1. UNCHANGED world /\ Ranks' = Ranks
        BY <1>4 DEF Next, Ranks
    <2>2. PICK r \in Ranks :
              PingProceed(r) \/ BufferFails(r) \/ (r \in Players /\ SendIsEager(r))
        BY <1>4 DEF Next, PingNext
    <2>3. PingTypes'
        BY <1>2, <2>1, <2>2, PingTypesStep
    <2>4. CASE world < 2
        <3>1. Alone
            BY <2>4 DEF PingInv
        <3>2. Alone'
            BY <1>2, <2>1, <2>2, <2>4, <3>1, AloneStep
        <3> QED
            BY <2>1, <2>3, <2>4, <3>2 DEF PingInv
    <2>5. CASE ~(world < 2)
        <3>1. PICK at \in [Ranks -> Labels] : Game(at)
            BY <2>5 DEF PingInv
        <3>2. \E to \in [Ranks -> Labels] : Game(to)'
            <4>1. ~TooFewRanks(r)
                BY <2>5 DEF TooFewRanks
            <4>2. r \in Players => r = 0 \/ r = 1
                BY DEF Players
            <4>3. CASE CountRefused(r) \/ BufferFails(r) \/ PingDie(r)
                BY <1>2, <2>1, <2>5, <3>1, <4>3, WalksOff
            <4>4. CASE \/ PrepareBuffer(r) \/ Start(r) \/ Stop(r) \/ PingExit(r)
                       \/ r \in Players /\ Played(r)
                       \/ r = 0 /\ (SendReturns(r) \/ SendIsEager(r))
                BY <1>2, <2>1, <2>5, <3>1, <4>4, WalksOn
            <4>5. CASE r \in Players /\ Send(r)
                BY <1>2, <2>1, <2>5, <3>1, <4>5, SendsBall
            <4>6. CASE r = 1 /\ (SendReturns(r) \/ SendIsEager(r))
                BY <1>2, <2>1, <2>5, <3>1, <4>6, PongIsSent
            <4>7. CASE r \in Players /\ Receive(r)
                <5>1. CASE r = 0
                    BY <1>2, <2>1, <2>5, <3>1, <4>7, <5>1, PongIsReceived
                <5>2. CASE r = 1
                    BY <1>2, <2>1, <2>5, <3>1, <4>7, <5>2, PingIsReceived
                <5> QED
                    BY <4>2, <4>7, <5>1, <5>2
            <4> QED
                BY <2>2, <3>1, <4>1, <4>2, <4>3, <4>4, <4>5, <4>6, <4>7 DEF PingProceed
        <3>3. \E to \in [Ranks' -> Labels] : Game(to)'
            BY <2>1, <3>2
        <3> QED
            BY <2>1, <2>3, <2>5, <3>3 DEF PingInv
    <2> QED
        BY <2>4, <2>5
<1> QED
    BY <1>3, <1>4

LEMMA PingStart ==
    ASSUME Init
    PROVE  PingInv
<1> SUFFICES ASSUME PlaysBall PROVE PingInv
    BY DEF PingInv
<1>1. /\ world \in Nat \ {0} /\ trips \in Nat \ {0}
      /\ pc = [r \in Ranks |-> "begin"] /\ calls = [r \in Ranks |-> 0]
      /\ exitCode = [r \in Ranks |-> 0]
      /\ trip = [r \in Players |-> 0] /\ buffer = [r \in Players |-> "pattern"]
      /\ wire = [r \in Players |-> NoMessage] /\ spoilt = FALSE
    BY ArgumentsAssumption DEF Init, WorldInit, PingInit
<1>2. PingTypes
    BY <1>1 DEF PingTypes, Labels
<1>3. Alone
    BY <1>1 DEF Alone
<1> DEFINE at == [r \in Ranks |-> "begin"]
<1>4. ASSUME ~(world < 2) PROVE Game(at)
    <2>1. /\ 0 \in Players /\ 1 \in Players /\ 0 \in Ranks /\ 1 \in Ranks
          /\ \A r \in Ranks : at[r] = "begin"
        BY <1>1, <1>4, PlayersAreRanks DEF Players
    <2>2. at[0] = "begin" /\ at[1] = "begin"
        BY <2>1
    <2> HIDE DEF at
    <2>3. Positions(at)
        BY <1>1, <2>1 DEF Positions, CallsAt, OnCourt
    <2>4. Trips(at)
        BY <1>1, <2>2 DEF Trips, OnCourt, Over, Players
    <2>5. Exchange(at)
        BY <1>1, <2>1, <2>2 DEF Exchange, Sends, Receives, OnTheWay, Peer, Players
    <2>6. Judged(at)
        BY <1>1, <2>1, <2>2 DEF Judged, Ball
    <2> QED
        BY <2>3, <2>4, <2>5, <2>6 DEF Game
<1>5. at \in [Ranks -> Labels]
    BY DEF Labels
<1> HIDE DEF at
<1> QED
    BY <1>2, <1>3, <1>4, <1>5 DEF PingInv

\* The ranks of ping-pong are where the messages sent and received say, also
\* those that have been killed.
THEOREM GameInvariance == Spec => []PingInv
BY PingStart, PingStep, PTL DEF Spec

\* The two players take turns whatever the library does with a send, for any
\* number of ranks and of round trips: who is to send finds no message on its
\* way, and past the final barrier every message has been received.
THEOREM OneBallIsPlayed == Spec => []OneBall
BY GameInvariance, PingPromises, PTL

\* One corrupted message, ping or pong and on any trip, is told by rank 0's exit
\* code, and nothing else is.
THEOREM CorruptionShows == Spec => []CorruptionIsTold
BY GameInvariance, PingPromises, PTL

-----------------------------------------------------------------------------
(* The decomposition in the programs *)

\* The programs begin as the decomposition does.
LEMMA TablesBegin ==
    ASSUME Init
    PROVE  n \in Nat \ {0} /\ world \in Nat \ {0} /\ DecompositionInit
<1>1. world \in Nat \ {0} /\ DecompositionInit
    BY ArgumentsAssumption DEF Init, BlockInit
<1>2. n \in Nat \ {0}
    <2>1. n \in IF PlaysBall THEN {1} ELSE Units
        BY DEF Init
    <2> QED
        BY <2>1, ArgumentsAssumption
<1> QED
    BY <1>1, <1>2

\* Whatever a rank does, the tables are left alone or get one more share.
LEMMA TablesGrow ==
    ASSUME [Next]_vars
    PROVE  [TakeShare]_decompositionVars
<1>1. CASE UNCHANGED vars
    BY <1>1 DEF vars, blockVars, decompositionVars
<1>2. CASE Next /\ PlaysBall
    BY <1>2 DEF Next, blockVars, decompositionVars
<1>3. CASE Next /\ ~PlaysBall
    <2>1. UNCHANGED <<n, world>> /\ BlockNext
        BY <1>3 DEF Next
    <2>2. PICK r \in Ranks : BlockProceed(r) \/ AllocationFails(r)
        BY <2>1 DEF BlockNext
    <2>3. TakeShare \/ UNCHANGED loopVars
        BY <2>2 DEF BlockProceed, AllocationFails, ComputeTables, Collect, Allocate,
           PassBarrier, CallRefused, ReceiveB, ReceiveBlock, Work, HandOver, Exit, Die,
           blockVars
    <2> QED
        BY <2>1, <2>3 DEF decompositionVars
<1> QED
    BY <1>1, <1>2, <1>3

\* distributed-sum and matrix-multiply compute their tables as the decomposition
\* does, before any rank goes on; so the blocks tile the units there, for every
\* number of ranks and units.
THEOREM ProgramsTile == Spec => []BlocksTile
<1>1. Spec => DecompositionSpec
    BY TablesBegin, TablesGrow, PTL DEF Spec, DecompositionSpec, decompositionVars
<1> QED
    BY <1>1, Tiling, PTL

-----------------------------------------------------------------------------
(* The least of some numbers *)

LEMMA LeastNatural ==
    ASSUME NEW T \in SUBSET Nat, T # {}
    PROVE  \E t \in T : \A o \in T : t <= o
<1> DEFINE R == {ss \in Nat \X Nat : ss[1] < ss[2]}
<1>1. IsWellFoundedOn(R, Nat)
    BY NatLessThanWellFounded DEF OpToRel
<1>2. PICK t \in T : \A o \in T : ~(<<o, t>> \in R)
    <2> HIDE DEF R
    <2> QED
        BY <1>1, WFMin
<1>3. \A o \in T : t <= o
    <2> TAKE o \in T
    <2>1. t \in Nat /\ o \in Nat /\ ~(<<o, t>> \in R)
        BY <1>2
    <2> QED
        BY <2>1
<1> QED
    BY <1>3

-----------------------------------------------------------------------------
(* Sums, and sizes as int *)

\* What an int makes of a size is the size, if it fits, and otherwise less.
LEMMA SizesAsInt ==
    ASSUME NEW v \in Nat
    PROVE  /\ ToInt(v) \in Int /\ ToInt(v) <= v /\ ToInt(v) <= IntMax
           /\ v <= IntMax => ToInt(v) = v
<1> DEFINE h == IntMax + 1
<1>1. h \in Nat /\ h # 0 /\ IntMax = h - 1
    BY WidthAssumption
<1>2. ToInt(v) = ((v + h) % (2 * h)) - h
    BY DEF ToInt
<1> HIDE DEF h
<1>3. (v + h) % (2 * h) \in 0 .. 2 * h - 1
    BY <1>1
<1>4. v < h => (v + h) % (2 * h) = v + h
    BY <1>1
<1>5. v >= h => (v + h) % (2 * h) <= v + h
    BY <1>1
<1> QED
    BY <1>1, <1>2, <1>3, <1>4, <1>5

\* f holds the sums of the first of the terms.
AddsUp(f, terms, last) ==
    f = [j \in 0 .. last |-> IF j = 0 THEN 0 ELSE f[j - 1] + terms[j]]

\* There are partial sums of any terms: none is the first number of terms for
\* which there are not, for one more term can be added.
LEMMA PartialSumsExist ==
    ASSUME NEW l \in Nat, NEW t
    PROVE  \E f : AddsUp(f, t, l)
<1> DEFINE Without == {c \in 0 .. l : ~ \E f : AddsUp(f, t, c)}
<1> SUFFICES ASSUME Without # {} PROVE FALSE
    <2>1. l \in 0 .. l
        OBVIOUS
    <2> QED
        BY <2>1
<1>1. Without \in SUBSET Nat
    OBVIOUS
<1>2. PICK c \in Without : \A o \in Without : c <= o
    <2> HIDE DEF Without
    <2> QED
        BY <1>1, LeastNatural
<1>3. c \in 0 .. l /\ c \in Nat /\ ~ \E f : AddsUp(f, t, c)
    OBVIOUS
<1>4. CASE c = 0
    <2>1. AddsUp([e \in 0 .. 0 |-> 0], t, 0)
        BY DEF AddsUp
    <2> QED
        BY <1>3, <1>4, <2>1
<1>5. CASE c > 0
    <2>1. c - 1 \in 0 .. l /\ c - 1 < c
        BY <1>3, <1>5
    <2>2. c - 1 \notin Without
        <3> HIDE DEF Without
        <3>1. c - 1 \in Int /\ c \in Int
            BY <1>3
        <3> QED
            BY <1>2, <2>1, <3>1
    <2>3. PICK f : AddsUp(f, t, c - 1)
        BY <2>1, <2>2
    <2> DEFINE g == [e \in 0 .. c |-> IF e = 0 THEN 0 ELSE f[e - 1] + t[e]]
    <2>4. \A e \in 0 .. c - 1 : g[e] = f[e]
        <3>1. \A e \in 0 .. c - 1 : e \in 0 .. c
            BY <1>3
        <3>2. \A e \in 0 .. c - 1 : f[e] = IF e = 0 THEN 0 ELSE f[e - 1] + t[e]
            BY <2>3 DEF AddsUp
        <3> QED
            BY <3>1, <3>2
    <2>5. \A e \in 1 .. c : e - 1 \in 0 .. c - 1
        BY <1>3
    <2>6. \A e \in 0 .. c : e = 0 \/ e \in 1 .. c
        BY <1>3
    <2>7. g = [e \in 0 .. c |-> IF e = 0 THEN 0 ELSE g[e - 1] + t[e]]
        <3>1. ASSUME NEW e \in 0 .. c
              PROVE  (IF e = 0 THEN 0 ELSE f[e - 1] + t[e])
                     = (IF e = 0 THEN 0 ELSE g[e - 1] + t[e])
            <4> HIDE DEF g
            <4> QED
                BY <2>4, <2>5, <2>6
        <3> QED
            BY <3>1
    <2> HIDE DEF g
    <2> QED
        BY <1>3, <2>7 DEF AddsUp
<1> QED
    BY <1>3, <1>4, <1>5

\* SumOf adds the terms up.
LEMMA SumIsDefined ==
    ASSUME NEW l \in Nat, NEW t
    PROVE  \E f : AddsUp(f, t, l) /\ SumOf(t, l) = f[l]
<1> DEFINE Def(f) == f = [j \in 0 .. l |-> IF j = 0 THEN 0 ELSE f[j - 1] + t[j]]
           sum == CHOOSE f : Def(f)
<1>1. \E f : Def(f)
    BY PartialSumsExist DEF AddsUp
<1>2. Def(sum)
    <2> HIDE DEF Def
    <2> QED
        BY <1>1
<1>3. SumOf(t, l) = sum[l]
    BY DEF SumOf
<1>4. AddsUp(sum, t, l)
    <2> HIDE DEF sum
    <2> QED
        BY <1>2 DEF AddsUp
<1> HIDE DEF sum
<1> QED
    BY <1>3, <1>4

LEMMA OneMoreTerm ==
    ASSUME NEW a \in Int, NEW v \in Int, NEW p \in Int, NEW q \in Int,
           2 * a <= p, 2 * v <= q - p
    PROVE  /\ a + v \in Int /\ 2 * (a + v) <= q
           /\ 2 * (a + v) = q <=> 2 * a = p /\ 2 * v = q - p
OBVIOUS

LEMMA LastPlace ==
    ASSUME NEW c \in Nat, c > 0
    PROVE  \A j : j \in 1 .. c <=> j \in 1 .. c - 1 \/ j = c
OBVIOUS

\* Where each term is at most half of what a bound grows by, the sum is at most
\* half of the bound, and reaches it just if each term reaches its share.
LEMMA SumWithin ==
    ASSUME NEW l \in Nat, NEW t \in [1 .. l -> Int], NEW g \in [0 .. l -> Int], g[0] = 0,
           \A j \in 1 .. l : 2 * t[j] <= g[j] - g[j - 1]
    PROVE  /\ SumOf(t, l) \in Int /\ 2 * SumOf(t, l) <= g[l]
           /\ 2 * SumOf(t, l) = g[l] <=> \A j \in 1 .. l : 2 * t[j] = g[j] - g[j - 1]
<1>1. PICK f : AddsUp(f, t, l) /\ SumOf(t, l) = f[l]
    BY SumIsDefined
<1> DEFINE Holds(c) ==
        /\ f[c] \in Int /\ 2 * f[c] <= g[c]
        /\ 2 * f[c] = g[c] <=> \A j \in 1 .. c : 2 * t[j] = g[j] - g[j - 1]
    Rest == {c \in 0 .. l : ~Holds(c)}
<1>2. Rest = {}
    <2> SUFFICES ASSUME Rest # {} PROVE FALSE
        OBVIOUS
    <2>1. Rest \in SUBSET Nat
        OBVIOUS
    <2>2. PICK c \in Rest : \A o \in Rest : c <= o
        <3> HIDE DEF Rest
        <3> QED
            BY <2>1, LeastNatural
    <2>3. c \in 0 .. l /\ c \in Nat /\ ~Holds(c)
        <3> HIDE DEF Holds
        <3> QED
            OBVIOUS
    <2>4. f[c] = IF c = 0 THEN 0 ELSE f[c - 1] + t[c]
        BY <1>1, <2>3 DEF AddsUp
    <2>5. CASE c = 0
        <3>1. f[c] = 0 /\ g[c] = 0 /\ \A j \in 1 .. c : FALSE
            BY <2>4, <2>5
        <3>2. f[c] \in Int /\ 2 * f[c] <= g[c] /\ 2 * f[c] = g[c]
            BY <3>1
        <3> QED
            BY <2>3, <3>1, <3>2
    <2>6. CASE c > 0
        <3>1. c - 1 \in 0 .. l /\ c - 1 < c /\ c - 1 \in Int /\ c \in 1 .. l
            BY <2>3, <2>6
        <3>2. Holds(c - 1)
            <4> HIDE DEF Holds
            <4>1. c - 1 \notin Rest
                <5> HIDE DEF Rest
                <5> QED
                    BY <2>2, <2>3, <3>1
            <4> QED
                BY <3>1, <4>1
        <3>3. /\ f[c - 1] \in Int /\ g[c - 1] \in Int /\ g[c] \in Int /\ t[c] \in Int
              /\ 2 * f[c - 1] <= g[c - 1] /\ 2 * t[c] <= g[c] - g[c - 1]
              /\ f[c] = f[c - 1] + t[c]
            BY <2>3, <2>4, <2>6, <3>1, <3>2
        <3>4. /\ f[c] \in Int /\ 2 * f[c] <= g[c]
              /\ 2 * f[c] = g[c] <=>
                     2 * f[c - 1] = g[c - 1] /\ 2 * t[c] = g[c] - g[c - 1]
            <4>1. /\ f[c - 1] + t[c] \in Int /\ 2 * (f[c - 1] + t[c]) <= g[c]
                  /\ 2 * (f[c - 1] + t[c]) = g[c] <=>
                         2 * f[c - 1] = g[c - 1] /\ 2 * t[c] = g[c] - g[c - 1]
                <5> DEFINE a == f[c - 1]
                           v == t[c]
                           p == g[c - 1]
                           q == g[c]
                <5>1. /\ a \in Int /\ v \in Int /\ p \in Int /\ q \in Int
                      /\ 2 * a <= p /\ 2 * v <= q - p
                    BY <3>3
                <5> HIDE DEF Rest, Holds, a, v, p, q
                <5>2. /\ a + v \in Int /\ 2 * (a + v) <= q
                      /\ 2 * (a + v) = q <=> 2 * a = p /\ 2 * v = q - p
                    BY <5>1, OneMoreTerm
                <5> QED
                    BY <5>2 DEF a, v, p, q
            <4> QED
                BY <3>3, <4>1
        <3>5. \A j : j \in 1 .. c <=> j \in 1 .. c - 1 \/ j = c
            BY <2>3, <2>6, LastPlace
        <3>6. (\A j \in 1 .. c : 2 * t[j] = g[j] - g[j - 1])
              <=> /\ \A j \in 1 .. c - 1 : 2 * t[j] = g[j] - g[j - 1]
                  /\ 2 * t[c] = g[c] - g[c - 1]
            BY <3>5
        <3>7. 2 * f[c - 1] = g[c - 1]
              <=> \A j \in 1 .. c - 1 : 2 * t[j] = g[j] - g[j - 1]
            BY <3>2
        <3> QED
            BY <2>3, <3>4, <3>6, <3>7
    <2> QED
        BY <2>3, <2>5, <2>6
<1>3. Holds(l)
    <2> HIDE DEF Holds
    <2>1. l \in 0 .. l
        OBVIOUS
    <2> QED
        BY <1>2, <2>1
<1> QED
    BY <1>1, <1>3

-----------------------------------------------------------------------------
(* The blocks of elements *)

\* Marks that do not fall from one to the next do not fall at all.
LEMMA MarksRise ==
    ASSUME NEW w \in Nat, NEW o \in [0 .. w -> Nat], \A r \in 0 .. w - 1 : o[r] <= o[r + 1]
    PROVE  \A a, b \in 0 .. w : a <= b => o[a] <= o[b]
<1> SUFFICES ASSUME NEW a \in 0 .. w, NEW z \in 0 .. w, a <= z, ~(o[a] <= o[z])
             PROVE  FALSE
    OBVIOUS
<1> DEFINE Below == {b \in 0 .. w : a <= b /\ ~(o[a] <= o[b])}
<1>1. Below \in SUBSET Nat /\ z \in Below
    OBVIOUS
<1>2. PICK b \in Below : \A c \in Below : b <= c
    <2> HIDE DEF Below
    <2> QED
        BY <1>1, LeastNatural
<1>3. b \in 0 .. w /\ a <= b /\ ~(o[a] <= o[b])
    OBVIOUS
<1>4. b # a
    BY <1>3
<1>5. b - 1 \in 0 .. w /\ a <= b - 1 /\ b - 1 \in 0 .. w - 1 /\ b - 1 + 1 = b
    BY <1>3, <1>4
<1>6. b - 1 \notin Below
    <2> HIDE DEF Below
    <2> QED
        BY <1>2, <1>3, <1>5
<1>7. o[a] <= o[b - 1] /\ o[b - 1] <= o[b]
    BY <1>5, <1>6
<1>8. o[a] \in Nat /\ o[b - 1] \in Nat /\ o[b] \in Nat
    BY <1>3, <1>5
<1> QED
    BY <1>3, <1>7, <1>8

\* Between rising marks from 0 on, each number up to the last mark lies in one
\* interval, and in one only.
LEMMA OneInterval ==
    ASSUME NEW w \in Nat, NEW o \in [0 .. w -> Nat], o[0] = 0,
           \A r \in 0 .. w - 1 : o[r] <= o[r + 1], NEW e \in 1 .. o[w]
    PROVE  \E r \in 0 .. w - 1 :
               /\ o[r] < e /\ e <= o[r + 1]
               /\ \A q \in 0 .. w - 1 : o[q] < e /\ e <= o[q + 1] => q = r
<1> DEFINE Past == {b \in 0 .. w : e <= o[b]}
<1>1. w \in 0 .. w /\ o[w] \in Nat /\ e \in Nat
    OBVIOUS
<1>2. Past \in SUBSET Nat /\ w \in Past
    BY <1>1
<1>3. PICK b \in Past : \A c \in Past : b <= c
    <2> HIDE DEF Past
    <2> QED
        BY <1>2, LeastNatural
<1>4. b \in 0 .. w /\ e <= o[b]
    OBVIOUS
<1>5. b # 0
    BY <1>1, <1>4
<1>6. b - 1 \in 0 .. w - 1 /\ b - 1 \in 0 .. w /\ b - 1 + 1 = b
    BY <1>4, <1>5
<1>7. b - 1 \notin Past
    <2> HIDE DEF Past
    <2> QED
        BY <1>3, <1>4, <1>6
<1>8. o[b - 1] < e
    <2>1. ~(e <= o[b - 1]) /\ o[b - 1] \in Nat
        BY <1>6, <1>7
    <2> QED
        BY <1>1, <2>1
<1>9. ASSUME NEW q \in 0 .. w - 1, o[q] < e, e <= o[q + 1] PROVE q = b - 1
    <2>1. q \in 0 .. w /\ q + 1 \in 0 .. w /\ q \in Int /\ b \in Int
        BY <1>4
    <2>2. o[q] \in Nat /\ o[q + 1] \in Nat /\ o[b] \in Nat /\ o[b - 1] \in Nat
        BY <1>4, <1>6, <2>1
    <2>3. ~(b <= q)
        <3>1. b <= q => o[b] <= o[q]
            BY <1>4, <2>1, MarksRise
        <3> QED
            BY <1>1, <1>4, <1>9, <2>2, <3>1
    <2>4. ~(q + 1 <= b - 1)
        <3>1. q + 1 <= b - 1 => o[q + 1] <= o[b - 1]
            BY <1>6, <2>1, MarksRise
        <3> QED
            BY <1>1, <1>8, <1>9, <2>2, <3>1
    <2> QED
        BY <2>1, <2>3, <2>4
<1> QED
    BY <1>4, <1>6, <1>8, <1>9

\* Where the block of rank r begins and how long it is, in elements.
Begin(r) == StartOf(r) * UnitSize
Length(r) == Share(r) * UnitSize

LEMMA UnitsOfElements ==
    ASSUME Types
    PROVE  UnitSize \in Nat \ {0} /\ Elements \in Nat \ {0} /\ Elements = n * UnitSize
<1>1. n \in Nat \ {0} /\ UnitSize \in Nat \ {0}
    BY DEF Types, UnitSize
<1>2. \A a, b \in Nat \ {0} : a * b \in Nat \ {0}
    OBVIOUS
<1> QED
    BY <1>1, <1>2 DEF Elements

\* What the tables hold before the casts.
LEMMA BlocksLaidOut ==
    ASSUME IInv, next = world
    PROVE  /\ \A r \in 0 .. world : Begin(r) \in Nat
           /\ Begin(0) = 0 /\ Begin(world) = Elements
           /\ \A r \in Ranks :
                  /\ shares[r] = Share(r) /\ Share(r) \in Nat
                  /\ Counts(r) = ToInt(Length(r)) /\ Displs(r) = ToInt(Begin(r))
                  /\ Length(r) \in Nat
                  /\ Begin(r + 1) = Begin(r) + Length(r)
<1>1. /\ base \in Nat /\ remainder \in 0 .. world - 1
      /\ n = world * base + remainder /\ world \in Nat \ {0} /\ n \in Nat
    BY Division DEF IInv, Types
<1>2. UnitSize \in Nat /\ Elements = n * UnitSize
    BY UnitsOfElements DEF IInv
<1>3. StartOf(0) = 0 /\ StartOf(world) = n
    BY <1>1 DEF StartOf
<1>4. ASSUME NEW r \in Ranks
      PROVE  /\ Share(r) \in Nat /\ StartOf(r) \in Nat /\ StartOf(r + 1) \in Nat
             /\ StartOf(r + 1) = StartOf(r) + Share(r)
    BY BlocksMeet DEF IInv
<1>5. \A r \in 0 .. world : StartOf(r) \in Nat
    <2> TAKE r \in 0 .. world
    <2>1. r \in Ranks \/ r = world
        BY <1>1 DEF Ranks
    <2> QED
        BY <1>1, <1>3, <1>4, <2>1
<1>6. \A a, b \in Nat : a * b \in Nat
    OBVIOUS
<1>7. ASSUME NEW r \in Ranks
      PROVE  /\ shares[r] = Share(r) /\ Share(r) \in Nat
             /\ Counts(r) = ToInt(Length(r)) /\ Displs(r) = ToInt(Begin(r))
             /\ Length(r) \in Nat
             /\ Begin(r + 1) = Begin(r) + Length(r)
    <2>1. shares[r] = Share(r) /\ offsets[r] = StartOf(r)
        BY DEF IInv, Progress, Ranks
    <2>2. Length(r) \in Nat
        BY <1>2, <1>4, <1>6 DEF Length
    <2>3. \A a, b, u \in Nat : (a + b) * u = a * u + b * u
        OBVIOUS
    <2>4. Begin(r + 1) = Begin(r) + Length(r)
        BY <1>2, <1>4, <2>3 DEF Begin, Length
    <2> QED
        BY <1>4, <2>1, <2>2, <2>4 DEF Counts, Displs, Begin, Length
<1>8. Begin(0) = 0
    BY <1>2, <1>3 DEF Begin
<1>9. Begin(world) = Elements
    BY <1>2, <1>3 DEF Begin
<1>10. \A r \in 0 .. world : Begin(r) \in Nat
    BY <1>2, <1>5, <1>6 DEF Begin
<1> QED
    BY <1>7, <1>8, <1>9, <1>10

-----------------------------------------------------------------------------
(* What the casts make of the tables *)

\* The blocks begin one where the other ends, so none goes beyond the end.
LEMMA BlocksEnd ==
    ASSUME IInv, next = world, NEW r \in Ranks
    PROVE  Begin(r) \in Nat /\ Length(r) \in Nat /\ Begin(r) + Length(r) <= Elements
<1> DEFINE o == [q \in 0 .. world |-> Begin(q)]
<1>1. world \in Nat \ {0} /\ Ranks = 0 .. world - 1
    BY DEF IInv, Types, Ranks
<1>2. /\ r \in 0 .. world /\ r + 1 \in 0 .. world /\ world \in 0 .. world
      /\ r + 1 <= world
    BY <1>1
<1>3. o \in [0 .. world -> Nat]
    BY BlocksLaidOut
<1>4. \A q \in 0 .. world - 1 : o[q] <= o[q + 1]
    <2> TAKE q \in 0 .. world - 1
    <2>1. q \in Ranks /\ q \in 0 .. world /\ q + 1 \in 0 .. world
        BY <1>1
    <2>2. Begin(q) \in Nat /\ Length(q) \in Nat /\ Begin(q + 1) = Begin(q) + Length(q)
        BY <2>1, BlocksLaidOut
    <2>3. o[q] = Begin(q) /\ o[q + 1] = Begin(q + 1)
        BY <2>1
    <2> QED
        BY <2>2, <2>3
<1>5. o[r + 1] = Begin(r + 1) /\ o[world] = Begin(world)
    BY <1>2
<1> HIDE DEF o
<1>6. o[r + 1] <= o[world]
    BY <1>1, <1>2, <1>3, <1>4, MarksRise
<1>7. /\ Begin(r) \in Nat /\ Length(r) \in Nat /\ Begin(r + 1) = Begin(r) + Length(r)
      /\ Begin(world) = Elements
    BY <1>2, BlocksLaidOut
<1> QED
    BY <1>5, <1>6, <1>7

LEMMA CastBlocks ==
    ASSUME IInv, next = world, NEW r \in Ranks
    PROVE  /\ Counts(r) \in Int /\ Counts(r) <= Length(r) /\ Counts(r) <= IntMax
           /\ Displs(r) \in Int /\ Displs(r) <= Begin(r)
           /\ Elements <= IntMax => Counts(r) = Length(r) /\ Displs(r) = Begin(r)
<1>1. Counts(r) = ToInt(Length(r)) /\ Displs(r) = ToInt(Begin(r))
    BY BlocksLaidOut
<1>2. /\ Begin(r) \in Nat /\ Length(r) \in Nat /\ Begin(r) + Length(r) <= Elements
      /\ Elements \in Nat
    BY BlocksEnd, UnitsOfElements DEF IInv
<1>3. /\ ToInt(Length(r)) \in Int /\ ToInt(Length(r)) <= Length(r)
      /\ ToInt(Length(r)) <= IntMax
      /\ Length(r) <= IntMax => ToInt(Length(r)) = Length(r)
    BY <1>2, SizesAsInt
<1>4. /\ ToInt(Begin(r)) \in Int /\ ToInt(Begin(r)) <= Begin(r)
      /\ Begin(r) <= IntMax => ToInt(Begin(r)) = Begin(r)
    BY <1>2, SizesAsInt
<1>5. Elements <= IntMax => Length(r) <= IntMax /\ Begin(r) <= IntMax
    BY <1>2, WidthAssumption
<1> QED
    BY <1>1, <1>3, <1>4, <1>5

\* No rank gets more units than there are.
LEMMA ShareOfUnits ==
    ASSUME Types, NEW r \in Ranks
    PROVE  Share(r) \in Nat /\ Share(r) <= n
<1>1. /\ base \in Nat /\ remainder \in 0 .. world - 1
      /\ n = world * base + remainder /\ world \in Nat \ {0} /\ r \in Nat
    BY Division DEF Types, Ranks
<1>2. world * base >= base
    <2>1. \A a, b \in Nat : a > 0 => a * b >= b
        OBVIOUS
    <2> QED
        BY <1>1, <2>1
<1>3. world * base \in Nat
    <2>1. \A a, b \in Nat : a * b \in Nat
        OBVIOUS
    <2> QED
        BY <1>1, <2>1
<1>4. CASE r < remainder
    BY <1>1, <1>2, <1>3, <1>4 DEF Share
<1>5. CASE ~(r < remainder)
    BY <1>1, <1>2, <1>3, <1>5 DEF Share
<1> QED
    BY <1>4, <1>5

\* A matrix has no more rows than an int can count (Examples!Init).
RowsFit == Matrices => n <= IntMax

\* What a rank receives fits into the buffer it has allocated.
LEMMA BlockFits ==
    ASSUME IInv, next = world, RowsFit, NEW r \in Ranks
    PROVE  /\ Counts(r) <= Room(r) /\ Room(r) \in Nat
           /\ Matrices => ToInt(shares[r]) = Share(r) /\ Length(r) = Share(r) * n
<1>1. shares[r] = Share(r) /\ Share(r) \in Nat /\ Share(r) <= n /\ n \in Nat
    BY BlocksLaidOut, ShareOfUnits DEF IInv, Types
<1>2. /\ Counts(r) = ToInt(Length(r))
      /\ Counts(r) \in Int /\ Counts(r) <= Length(r)
    BY BlocksLaidOut, CastBlocks
<1>3. ToInt(Share(r)) \in Int
    BY <1>1, SizesAsInt
<1>4. CASE ~Matrices
    <2>1. Length(r) = Share(r) /\ UnitSize = 1
        BY <1>1, <1>4 DEF Length, UnitSize
    <2>2. Room(r) = IF ToInt(Share(r)) > 0 THEN ToInt(Share(r)) ELSE 1
        BY <1>1, <1>3, <2>1 DEF Room
    <2> QED
        BY <1>2, <1>3, <1>4, <2>1, <2>2
<1>5. CASE Matrices
    <2>1. Share(r) <= IntMax
        BY <1>1, <1>5, WidthAssumption DEF RowsFit
    <2>2. ToInt(shares[r]) = Share(r)
        BY <1>1, <2>1, SizesAsInt
    <2>3. Length(r) = Share(r) * n /\ UnitSize = n
        BY <1>5 DEF Length, UnitSize
    <2>4. Room(r) = IF Share(r) > 0 THEN Share(r) * n ELSE 1
        BY <2>2, <2>3 DEF Room
    <2>5. Share(r) = 0 => Share(r) * n = 0
        BY <1>1
    <2>6. \A a, b \in Nat : a * b \in Nat
        OBVIOUS
    <2>7. Share(r) * n \in Nat
        BY <1>1, <2>6
    <2> QED
        BY <1>1, <1>2, <2>2, <2>3, <2>4, <2>5, <2>7
<1> QED
    BY <1>4, <1>5

\* The casts lose nothing, but for the places of empty blocks.
Exact ==
    \A r \in Ranks : /\ Counts(r) = Length(r)
                     /\ Counts(r) > 0 => Displs(r) = Begin(r)

LEMMA SmallIsExact ==
    ASSUME IInv, next = world, Elements <= IntMax
    PROVE  Exact
BY CastBlocks DEF Exact

\* Each element then lies in one block.
LEMMA OneBlock ==
    ASSUME IInv, next = world, Exact, NEW e \in 1 .. Elements
    PROVE  \E r \in Ranks :
               /\ e - Begin(r) \in 1 .. Counts(r)
               /\ \A q \in Ranks : e - Begin(q) \in 1 .. Counts(q) => q = r
<1> DEFINE o == [q \in 0 .. world |-> Begin(q)]
<1>1. world \in Nat \ {0} /\ Ranks = 0 .. world - 1 /\ Elements \in Nat
    BY UnitsOfElements DEF IInv, Types, Ranks
<1>2. ASSUME NEW q \in Ranks
      PROVE  /\ o[q] = Begin(q) /\ o[q + 1] = Begin(q) + Counts(q)
             /\ Begin(q) \in Nat /\ Counts(q) \in Nat
    <2>1. q \in 0 .. world /\ q + 1 \in 0 .. world
        BY <1>1
    <2>2. /\ Begin(q) \in Nat /\ Length(q) \in Nat
          /\ Begin(q + 1) = Begin(q) + Length(q) /\ Counts(q) = Length(q)
        BY <2>1, BlocksLaidOut DEF Exact
    <2> QED
        BY <2>1, <2>2
<1>3. o \in [0 .. world -> Nat] /\ o[0] = 0 /\ o[world] = Elements
    <2>1. 0 \in 0 .. world /\ world \in 0 .. world
        BY <1>1
    <2> QED
        BY <2>1, BlocksLaidOut
<1> HIDE DEF o
<1>4. \A q \in 0 .. world - 1 : o[q] <= o[q + 1]
    BY <1>1, <1>2
<1>5. PICK r \in 0 .. world - 1 :
          /\ o[r] < e /\ e <= o[r + 1]
          /\ \A q \in 0 .. world - 1 : o[q] < e /\ e <= o[q + 1] => q = r
    BY <1>1, <1>3, <1>4, OneInterval
<1>6. ASSUME NEW q \in Ranks
      PROVE  o[q] < e /\ e <= o[q + 1] <=> e - Begin(q) \in 1 .. Counts(q)
    <2>1. /\ o[q] = Begin(q) /\ o[q + 1] = Begin(q) + Counts(q)
          /\ Begin(q) \in Int /\ Counts(q) \in Int /\ e \in Int
        BY <1>1, <1>2
    <2>2. \A a, c \in Int : a < e /\ e <= a + c <=> e - a \in 1 .. c
        BY <2>1
    <2> QED
        BY <2>1, <2>2
<1> QED
    BY <1>1, <1>5, <1>6

\* What a rank has received of the root's array.
BlockOf(r) ==
    [j \in 1 .. Room(r) |-> IF j <= Counts(r) THEN Whole(Displs(r) + j) ELSE Garbage]

LEMMA ExactBlocks ==
    ASSUME IInv, next = world, RowsFit, Exact, NEW r \in Ranks, slice[r] = BlockOf(r),
           NEW j \in 1 .. Counts(r)
    PROVE  slice[r][j] = Begin(r) + j /\ Begin(r) + j \in 1 .. Elements
<1>1. /\ Counts(r) \in Int /\ Counts(r) <= Room(r) /\ Room(r) \in Nat
      /\ Counts(r) = Length(r)
    BY CastBlocks, BlockFits DEF Exact
<1>2. /\ Begin(r) \in Nat /\ Length(r) \in Nat /\ Begin(r) + Length(r) <= Elements
      /\ Elements \in Nat
    BY BlocksEnd, UnitsOfElements DEF IInv
<1>3. j \in 1 .. Room(r) /\ j <= Counts(r) /\ Counts(r) > 0 /\ j \in Nat /\ j > 0
    BY <1>1
<1>4. Displs(r) = Begin(r)
    BY <1>3 DEF Exact
<1>5. Begin(r) + j \in 1 .. Elements
    BY <1>1, <1>2, <1>3
<1>6. slice[r][j] = Whole(Begin(r) + j)
    BY <1>3, <1>4 DEF BlockOf
<1> QED
    BY <1>5, <1>6 DEF Whole

\* So that each element is in one place on one rank.
LEMMA EachElementOnce ==
    ASSUME IInv, next = world, RowsFit, Exact,
           \A r \in Ranks : slice[r] = BlockOf(r), NEW e \in 1 .. Elements
    PROVE  Cardinality({p \in Places : slice[p[1]][p[2]] = e}) = 1
<1>1. PICK r \in Ranks : /\ e - Begin(r) \in 1 .. Counts(r)
                         /\ \A q \in Ranks : e - Begin(q) \in 1 .. Counts(q) => q = r
    BY OneBlock
<1> DEFINE place == <<r, e - Begin(r)>>
           There == {p \in Places : slice[p[1]][p[2]] = e}
<1>2. ASSUME NEW q \in Ranks, NEW j \in 1 .. Counts(q)
      PROVE  slice[q][j] = e <=> <<q, j>> = place
    <2>1. slice[q][j] = Begin(q) + j
        BY ExactBlocks
    <2>2. Begin(q) \in Nat /\ Begin(r) \in Nat /\ j \in Int /\ e \in Int
        BY BlocksEnd, UnitsOfElements DEF IInv
    <2>3. ASSUME slice[q][j] = e PROVE <<q, j>> = place
        <3>1. j = e - Begin(q)
            BY <2>1, <2>2, <2>3
        <3>2. q = r
            BY <1>1, <3>1
        <3> QED
            BY <3>1, <3>2
    <2>4. ASSUME <<q, j>> = place PROVE slice[q][j] = e
        <3>1. q = r /\ j = e - Begin(r)
            BY <2>4
        <3> QED
            BY <2>1, <2>2, <3>1
    <2> QED
        BY <2>3, <2>4
<1>3. place \in Places
    BY <1>1 DEF Places
<1>4. ASSUME NEW p \in Places PROVE p \in There <=> p = place
    <2>1. PICK q \in Ranks : p \in {q} \X (1 .. Counts(q))
        BY DEF Places
    <2>2. p = <<q, p[2]>> /\ p[1] = q /\ p[2] \in 1 .. Counts(q)
        BY <2>1
    <2>3. slice[q][p[2]] = e <=> p = place
        BY <1>2, <2>2
    <2> QED
        BY <2>2, <2>3
<1>5. There = {place}
    <2> HIDE DEF place
    <2>1. There \subseteq Places
        OBVIOUS
    <2> HIDE DEF There
    <2> QED
        BY <1>3, <1>4, <2>1
<1> HIDE DEF There
<1>6. Cardinality(There) = 1
    BY <1>5, FS_Singleton
<1> QED
    BY <1>6 DEF There

-----------------------------------------------------------------------------
(* The sum of the array *)

\* Twice the sum of the numbers up to v.
Twice(v) == v * (v + 1)

LEMMA TwiceGrows ==
    /\ Twice(0) = 0
    /\ \A v \in Nat : /\ Twice(v) \in Nat
                      /\ Twice(v + 1) = Twice(v) + 2 * (v + 1)
                      /\ 2 * (Twice(v) \div 2) = Twice(v)
    /\ \A v, w \in Nat : v <= w => Twice(v) <= Twice(w) /\ (Twice(v) = Twice(w) => v = w)
<1>1. Twice(0) = 0
    BY DEF Twice
<1>2. ASSUME NEW v \in Nat
      PROVE  /\ Twice(v) \in Nat
             /\ Twice(v + 1) = Twice(v) + 2 * (v + 1)
             /\ 2 * (Twice(v) \div 2) = Twice(v)
    <2>1. \A a, b \in Nat : a * b \in Nat
        OBVIOUS
    <2>2. v \in Nat /\ v + 1 \in Nat
        OBVIOUS
    <2>3. Twice(v) \in Nat
        BY <2>1, <2>2 DEF Twice
    <2>4. (v + 1) * (v + 1 + 1) = v * (v + 1) + 2 * (v + 1)
        OBVIOUS
    <2>5. PICK k \in Nat : v = 2 * k \/ v = 2 * k + 1
        <3>1. v \div 2 \in Nat /\ (v = 2 * (v \div 2) \/ v = 2 * (v \div 2) + 1)
            OBVIOUS
        <3> QED
            BY <3>1
    <2>6. \A m \in Nat : 2 * ((2 * m) \div 2) = 2 * m
        OBVIOUS
    <2>7. CASE v = 2 * k
        <3>1. Twice(v) = 2 * (k * (v + 1))
            BY <2>7 DEF Twice
        <3>2. k * (v + 1) \in Nat
            BY <2>1, <2>2
        <3> QED
            BY <2>3, <2>4, <2>6, <3>1, <3>2 DEF Twice
    <2>8. CASE v = 2 * k + 1
        <3>1. Twice(v) = 2 * (v * (k + 1))
            BY <2>8 DEF Twice
        <3>2. v * (k + 1) \in Nat
            BY <2>1, <2>2
        <3> QED
            BY <2>3, <2>4, <2>6, <3>1, <3>2 DEF Twice
    <2> QED
        BY <2>5, <2>7, <2>8
<1>3. ASSUME NEW v \in Nat, NEW w \in Nat, v <= w
      PROVE  Twice(v) <= Twice(w) /\ (Twice(v) = Twice(w) => v = w)
    <2>1. PICK d \in Nat : w = v + d
        <3>1. w - v \in Nat /\ w = v + (w - v)
            BY <1>3
        <3> QED
            BY <3>1
    <2>2. Twice(w) = Twice(v) + (d * v + d * v + d * d + d)
        BY <2>1 DEF Twice
    <2>3. \A a, b \in Nat : a * b \in Nat
        OBVIOUS
    <2>4. d * v \in Nat /\ d * d \in Nat /\ Twice(v) \in Nat
        BY <1>2, <2>3
    <2> QED
        BY <2>1, <2>2, <2>4
<1> QED
    BY <1>1, <1>2, <1>3

\* A local sum is at most what the block would add to the whole, and no less
\* than that only if the block has arrived as it was meant.
LEMMA LocalSumWithin ==
    ASSUME IInv, next = world, RowsFit, ~Matrices, NEW r \in Ranks,
           Counts(r) >= 0, slice[r] = BlockOf(r),
           \A j \in 1 .. Counts(r) : slice[r][j] # Garbage
    PROVE  /\ LocalSum(r) \in Int
           /\ 2 * LocalSum(r) <= Twice(Begin(r + 1)) - Twice(Begin(r))
           /\ 2 * LocalSum(r) = Twice(Begin(r + 1)) - Twice(Begin(r)) =>
                  Counts(r) = Length(r) /\ (Counts(r) > 0 => Displs(r) = Begin(r))
           /\ Elements <= IntMax =>
                  2 * LocalSum(r) = Twice(Begin(r + 1)) - Twice(Begin(r))
<1> DEFINE b == Begin(r)
           c == Counts(r)
           d == Displs(r)
           t == [j \in 1 .. c |-> ToInt(slice[r][j])]
           g == [j \in 0 .. c |-> Twice(b + j) - Twice(b)]
<1>1. /\ b \in Nat /\ Length(r) \in Nat /\ Begin(r + 1) = b + Length(r)
      /\ b + Length(r) <= Elements /\ Elements \in Nat
    BY BlocksLaidOut, BlocksEnd, UnitsOfElements DEF IInv
<1>2. /\ c \in Nat /\ c <= Length(r) /\ d \in Int /\ d <= b /\ c <= Room(r)
      /\ Room(r) \in Nat
      /\ Elements <= IntMax => c = Length(r) /\ d = b
    BY CastBlocks, BlockFits
<1>3. LocalSum(r) = SumOf(t, c) /\ \A j \in 1 .. c : slice[r][j] # Garbage
    BY DEF LocalSum
<1>4. ASSUME NEW j \in 1 .. c
      PROVE  /\ d + j \in 1 .. Elements /\ slice[r][j] = d + j
             /\ t[j] = ToInt(d + j)
    <2>1. slice[r][j] = Whole(d + j)
        BY <1>2 DEF BlockOf
    <2>2. slice[r][j] # Garbage
        BY <1>3
    <2> QED
        BY <2>1, <2>2 DEF Whole
<1>5. ASSUME NEW j \in 1 .. c
      PROVE  /\ t[j] \in Int /\ t[j] <= d + j
             /\ Elements <= IntMax => t[j] = b + j
    <2>1. d + j \in Nat /\ d + j <= Elements /\ j \in Nat
        BY <1>1, <1>2, <1>4
    <2>2. /\ ToInt(d + j) \in Int /\ ToInt(d + j) <= d + j
          /\ d + j <= IntMax => ToInt(d + j) = d + j
        BY <2>1, SizesAsInt
    <2>3. IntMax \in Int
        BY WidthAssumption
    <2>4. t[j] = ToInt(d + j)
        BY <1>4
    <2> HIDE DEF t
    <2> QED
        BY <1>1, <1>2, <2>1, <2>2, <2>3, <2>4
<1>6. ASSUME NEW j \in 1 .. c PROVE g[j] - g[j - 1] = 2 * (b + j)
    <2>1. j \in 0 .. c /\ j - 1 \in 0 .. c /\ j - 1 \in Nat
        BY <1>2
    <2>2. b + (j - 1) \in Nat /\ b + (j - 1) + 1 = b + j
        BY <1>1, <2>1
    <2>3. /\ Twice(b + j) = Twice(b + (j - 1)) + 2 * (b + j)
          /\ Twice(b + (j - 1)) \in Nat /\ Twice(b) \in Nat
        BY <1>1, <2>2, TwiceGrows
    <2>4. g[j] = Twice(b + j) - Twice(b) /\ g[j - 1] = Twice(b + (j - 1)) - Twice(b)
        BY <2>1
    <2> HIDE DEF g
    <2> QED
        BY <1>1, <2>1, <2>3, <2>4
<1>7. g \in [0 .. c -> Int] /\ g[0] = 0 /\ g[c] = Twice(b + c) - Twice(b)
    <2>1. \A j \in 0 .. c : b + j \in Nat
        BY <1>1, <1>2
    <2>2. \A j \in 0 .. c : Twice(b + j) - Twice(b) \in Int
        <3>1. Twice(b) \in Nat /\ \A j \in 0 .. c : Twice(b + j) \in Nat
            BY <1>1, <2>1, TwiceGrows
        <3> HIDE DEF b, c
        <3> QED
            BY <3>1
    <2>3. 0 \in 0 .. c /\ c \in 0 .. c /\ b + 0 = b
        BY <1>1, <1>2
    <2>4. Twice(b) - Twice(b) = 0
        BY <1>1, TwiceGrows
    <2> QED
        BY <2>2, <2>3, <2>4
<1>8. t \in [1 .. c -> Int]
    BY <1>5
<1> HIDE DEF b, c, d, t, g
<1>9. \A j \in 1 .. c : 2 * t[j] <= g[j] - g[j - 1]
    <2> TAKE j \in 1 .. c
    <2>1. t[j] \in Int /\ t[j] <= d + j /\ g[j] - g[j - 1] = 2 * (b + j) /\ j \in Int
        BY <1>2, <1>5, <1>6
    <2>2. 2 * t[j] <= 2 * (b + j)
        BY <1>1, <1>2, <2>1
    <2> QED
        BY <2>1, <2>2
<1>10. /\ SumOf(t, c) \in Int /\ 2 * SumOf(t, c) <= g[c]
       /\ 2 * SumOf(t, c) = g[c] <=> \A j \in 1 .. c : 2 * t[j] = g[j] - g[j - 1]
    BY <1>2, <1>7, <1>8, <1>9, SumWithin
<1>11. /\ Twice(b + c) <= Twice(b + Length(r)) /\ Twice(b + c) \in Nat
       /\ Twice(b + Length(r)) \in Nat /\ Twice(b) \in Nat
       /\ Twice(b + c) = Twice(b + Length(r)) => b + c = b + Length(r)
    <2>1. b + c \in Nat /\ b + Length(r) \in Nat /\ b + c <= b + Length(r)
        BY <1>1, <1>2
    <2> QED
        BY <1>1, <2>1, TwiceGrows
<1>12. ASSUME 2 * SumOf(t, c) = Twice(b + Length(r)) - Twice(b)
       PROVE  c = Length(r) /\ (c > 0 => d = b)
    <2>1. 2 * SumOf(t, c) = g[c] /\ c = Length(r)
        BY <1>1, <1>2, <1>7, <1>10, <1>11, <1>12
    <2>2. ASSUME c > 0 PROVE d = b
        <3>1. 1 \in 1 .. c
            BY <1>2, <2>2
        <3>2. t[1] \in Int /\ t[1] <= d + 1 /\ 2 * t[1] = 2 * (b + 1)
            BY <1>5, <1>6, <1>10, <2>1, <3>1
        <3> QED
            BY <1>1, <1>2, <3>2
    <2> QED
        BY <2>1, <2>2
<1>13. ASSUME Elements <= IntMax
       PROVE  2 * SumOf(t, c) = Twice(b + Length(r)) - Twice(b)
    <2>1. \A j \in 1 .. c : 2 * t[j] = g[j] - g[j - 1]
        BY <1>5, <1>6, <1>13
    <2> QED
        BY <1>2, <1>7, <1>10, <1>13, <2>1
<1>14. 2 * SumOf(t, c) <= Twice(b + Length(r)) - Twice(b)
    BY <1>7, <1>10, <1>11
<1> QED
    BY <1>1, <1>3, <1>10, <1>12, <1>13, <1>14 DEF b, c, d

\* While the array can be counted by an int each rank has a sum, and a sum is
\* known only of elements that are.
LEMMA LocalSumIsKnown ==
    ASSUME IInv, next = world, RowsFit, ~Matrices, NEW r \in Ranks,
           Counts(r) >= 0, slice[r] = BlockOf(r)
    PROVE  /\ LocalSum(r) # Garbage <=> \A j \in 1 .. Counts(r) : slice[r][j] # Garbage
           /\ Elements <= IntMax => LocalSum(r) # Garbage
<1>1. ASSUME \A j \in 1 .. Counts(r) : slice[r][j] # Garbage
      PROVE  LocalSum(r) # Garbage
    BY <1>1, LocalSumWithin, GarbageAssumption
<1>2. ASSUME NEW j \in 1 .. Counts(r), slice[r][j] = Garbage
      PROVE  LocalSum(r) = Garbage
    <2>1. Garbage \in {slice[r][i] : i \in 1 .. Counts(r)}
        BY <1>2
    <2> QED
        BY <2>1 DEF LocalSum
<1>3. ASSUME Elements <= IntMax, NEW j \in 1 .. Counts(r)
      PROVE  slice[r][j] # Garbage
    <2>1. Exact
        BY <1>3, SmallIsExact
    <2>2. slice[r][j] \in Int
        BY <2>1, ExactBlocks, UnitsOfElements DEF IInv
    <2> QED
        BY <2>2, GarbageAssumption
<1> QED
    BY <1>1, <1>2, <1>3

\* The closed form vouches for every element: it is reached just if all blocks
\* have arrived as they were meant.
LEMMA SumTells ==
    ASSUME IInv, next = world, RowsFit, ~Matrices,
           \A r \in Ranks : /\ Counts(r) >= 0 /\ slice[r] = BlockOf(r)
                            /\ part[r] = LocalSum(r)
    PROVE  /\ Sum = Expected => Exact
           /\ Elements <= IntMax => Sum = Expected
<1>1. n \in Nat /\ world \in Nat \ {0} /\ Ranks = 0 .. world - 1 /\ Elements = n
    BY UnitsOfElements DEF IInv, Types, Ranks, UnitSize
<1>2. Expected = Twice(n) \div 2 /\ 2 * Expected = Twice(n) /\ Expected \in Int
    BY <1>1, TwiceGrows DEF Expected, Twice
<1> DEFINE t == [r \in 1 .. world |-> part[r - 1]]
           g == [r \in 0 .. world |-> Twice(Begin(r))]
<1>3. CASE Garbage \in {part[r] : r \in Ranks}
    <2>1. Sum # Expected
        BY <1>2, <1>3, GarbageAssumption DEF Sum
    <2>2. ~(Elements <= IntMax)
        BY <1>3, LocalSumIsKnown
    <2> QED
        BY <2>1, <2>2
<1>4. CASE Garbage \notin {part[r] : r \in Ranks}
    <2>1. Sum = SumOf(t, world)
        BY <1>4 DEF Sum
    <2>2. ASSUME NEW r \in 1 .. world
          PROVE  /\ r - 1 \in Ranks /\ r - 1 + 1 = r
                 /\ t[r] = LocalSum(r - 1) /\ LocalSum(r - 1) # Garbage
                 /\ g[r] - g[r - 1] = Twice(Begin(r - 1 + 1)) - Twice(Begin(r - 1))
        <3>1. r - 1 \in Ranks /\ r - 1 + 1 = r /\ r \in 0 .. world /\ r - 1 \in 0 .. world
            BY <1>1
        <3>2. t[r] = part[r - 1] /\ part[r - 1] = LocalSum(r - 1)
            BY <3>1
        <3>3. part[r - 1] # Garbage
            BY <1>4, <3>1
        <3> QED
            BY <3>1, <3>2, <3>3
    <2>3. ASSUME NEW r \in 1 .. world
          PROVE  /\ t[r] \in Int /\ 2 * t[r] <= g[r] - g[r - 1]
                 /\ 2 * t[r] = g[r] - g[r - 1] =>
                        /\ Counts(r - 1) = Length(r - 1)
                        /\ Counts(r - 1) > 0 => Displs(r - 1) = Begin(r - 1)
                 /\ Elements <= IntMax => 2 * t[r] = g[r] - g[r - 1]
        <3> HIDE DEF t, g
        <3>1. \A j \in 1 .. Counts(r - 1) : slice[r - 1][j] # Garbage
            BY <2>2, LocalSumIsKnown
        <3> QED
            BY <2>2, <3>1, LocalSumWithin
    <2>4. g \in [0 .. world -> Int] /\ g[0] = 0 /\ g[world] = Twice(n)
        <3>1. 0 \in 0 .. world /\ world \in 0 .. world
            BY <1>1
        <3>2. \A r \in 0 .. world : Twice(Begin(r)) \in Int
            BY BlocksLaidOut, TwiceGrows
        <3> QED
            BY <1>1, <3>1, <3>2, BlocksLaidOut, TwiceGrows
    <2>5. t \in [1 .. world -> Int]
        BY <2>3
    <2> HIDE DEF t, g
    <2>6. /\ SumOf(t, world) \in Int
          /\ 2 * SumOf(t, world) = g[world]
             <=> \A r \in 1 .. world : 2 * t[r] = g[r] - g[r - 1]
        BY <1>1, <2>3, <2>4, <2>5, SumWithin
    <2>7. ASSUME Sum = Expected PROVE Exact
        <3>1. \A r \in 1 .. world : 2 * t[r] = g[r] - g[r - 1]
            BY <1>2, <2>1, <2>4, <2>6, <2>7
        <3>2. ASSUME NEW r \in Ranks
              PROVE  Counts(r) = Length(r) /\ (Counts(r) > 0 => Displs(r) = Begin(r))
            <4>1. PICK q \in 1 .. world : q - 1 = r
                BY <1>1
            <4>2. 2 * t[q] = g[q] - g[q - 1]
                BY <3>1
            <4> QED
                BY <2>3, <4>1, <4>2
        <3> QED
            BY <3>2 DEF Exact
    <2>8. ASSUME Elements <= IntMax PROVE Sum = Expected
        <3>1. 2 * SumOf(t, world) = Twice(n)
            BY <2>3, <2>4, <2>6, <2>8
        <3> QED
            BY <1>2, <2>1, <2>6, <3>1
    <2> QED
        BY <2>7, <2>8
<1> QED
    BY <1>3, <1>4

-----------------------------------------------------------------------------
(* The product of the matrices *)

\* How often b goes into a, and what is left.
Fits(a, b) == a \div b
LeftOver(a, b) == a % b

LEMMA Quotient ==
    ASSUME NEW a \in Nat, NEW b \in Nat \ {0}
    PROVE  Fits(a, b) \in Nat /\ LeftOver(a, b) \in 0 .. b - 1 /\ a = b * Fits(a, b) + LeftOver(a, b)
<1> SUFFICES ASSUME NEW i, NEW j, i = a \div b, j = a % b
             PROVE  i \in Nat /\ j \in 0 .. b - 1 /\ a = b * i + j
    BY Zenon DEF Fits, LeftOver
<1> QED
    OBVIOUS

\* The place of an element gives its row and its column.
LEMMA RowAndColumn ==
    ASSUME NEW w \in Nat \ {0}, NEW m \in Nat, NEW q \in 1 .. m * w,
           NEW i, NEW j, i = Fits(q - 1, w), j = LeftOver(q - 1, w)
    PROVE  /\ i \in 0 .. m - 1 /\ j \in 0 .. w - 1
           /\ q = i * w + j + 1 /\ i * w + w <= m * w
<1>1. q - 1 \in Nat /\ m * w \in Nat
    OBVIOUS
<1>2. i \in Nat /\ j \in 0 .. w - 1 /\ q - 1 = i * w + j
    <2>1. i \in Nat /\ j \in 0 .. w - 1 /\ q - 1 = w * i + j
        BY <1>1, Quotient
    <2>2. w * i = i * w
        BY <2>1
    <2> QED
        BY <2>1, <2>2
<1>3. i < m
    <2> SUFFICES ASSUME i >= m PROVE FALSE
        BY <1>2
    <2>1. PICK d \in Nat : i = m + d
        <3>1. i - m \in Nat /\ i = m + (i - m)
            BY <1>2
        <3> QED
            BY <3>1
    <2>2. i * w = m * w + d * w /\ d * w \in Nat
        BY <2>1
    <2> QED
        BY <1>1, <1>2, <2>2
<1>4. PICK d \in Nat : m = i + 1 + d
    <2>1. m - i - 1 \in Nat /\ m = i + 1 + (m - i - 1)
        BY <1>2, <1>3
    <2> QED
        BY <2>1
<1>5. m * w = i * w + w + d * w /\ d * w \in Nat /\ i * w \in Nat
    BY <1>2, <1>4
<1>6. i * w + w <= m * w
    BY <1>5
<1>7. q = i * w + j + 1
    BY <1>2, <1>5
<1> QED
    BY <1>2, <1>3, <1>6, <1>7

\* Where the parts of the product come from.
Multiplied ==
    /\ IInv /\ next = world /\ RowsFit /\ Matrices
    /\ \A r \in Ranks : /\ Counts(r) >= 0
                        /\ slice[r] = BlockOf(r) /\ part[r] = Product(r)
                        /\ haveB[r] = IF r = Root THEN Elements ELSE ToInt(Elements)

\* An element of a part is what its row and its column make it, or Garbage.
LEMMA PartsOfProduct ==
    ASSUME Multiplied, NEW r \in Ranks, NEW q \in 1 .. Counts(r)
    PROVE  \E i \in Nat, j \in 0 .. n - 1 :
               /\ q = i * n + j + 1 /\ i * n \in Nat /\ i * n + n <= Length(r)
               /\ part[r][q] =
                      IF /\ slice[r][i * n + 1] # Garbage
                         /\ \A k \in 1 .. n :
                                slice[r][i * n + k] = slice[r][i * n + 1] + k - 1
                         /\ (n - 1) * n + j + 1 <= haveB[r]
                        THEN slice[r][i * n + 1] + j
                        ELSE Garbage
<1> DEFINE i == (q - 1) \div n
           j == (q - 1) % n
           m == Share(r)
<1>1. /\ n \in Nat \ {0} /\ m \in Nat /\ ToInt(shares[r]) = m
      /\ Length(r) = m * n /\ Counts(r) \in Int /\ Counts(r) <= Length(r)
      /\ Length(r) \in Nat
    BY BlocksLaidOut, BlockFits, CastBlocks DEF Multiplied, IInv, Types
<1>2. q \in 1 .. m * n
    BY <1>1
<1>3. i \in 0 .. m - 1 /\ j \in 0 .. n - 1 /\ q = i * n + j + 1 /\ i * n + n <= m * n
    <2>1. i = Fits(q - 1, n) /\ j = LeftOver(q - 1, n)
        BY DEF Fits, LeftOver
    <2>2. n \in Nat \ {0} /\ m \in Nat
        BY <1>1
    <2> HIDE DEF m, i, j
    <2> QED
        BY <1>2, <2>1, <2>2, RowAndColumn
<1>4. part[r] = Product(r)
    BY DEF Multiplied
<1>5. part[r][q] =
          IF /\ slice[r][i * n + 1] # Garbage
             /\ \A k \in 1 .. n : slice[r][i * n + k] = slice[r][i * n + 1] + k - 1
             /\ (n - 1) * n + j + 1 <= haveB[r]
            THEN slice[r][i * n + 1] + j
            ELSE Garbage
    BY <1>1, <1>2, <1>4 DEF Product
<1> HIDE DEF i, j, m
<1>6. i \in Nat
    BY <1>1, <1>3
<1>7. i * n \in Nat
    <2>1. \A a, b \in Nat : a * b \in Nat
        OBVIOUS
    <2> QED
        BY <1>1, <1>6, <2>1
<1> QED
    BY <1>1, <1>3, <1>5, <1>6, <1>7

\* While the matrix fits, each part holds the elements of its own block.
LEMMA PartIsRight ==
    ASSUME Multiplied, Elements <= IntMax, NEW r \in Ranks, NEW q \in 1 .. Counts(r)
    PROVE  part[r][q] = Begin(r) + q
<1>1. PICK i \in Nat, j \in 0 .. n - 1 :
          /\ q = i * n + j + 1 /\ i * n \in Nat /\ i * n + n <= Length(r)
          /\ part[r][q] =
                 IF /\ slice[r][i * n + 1] # Garbage
                    /\ \A k \in 1 .. n :
                           slice[r][i * n + k] = slice[r][i * n + 1] + k - 1
                    /\ (n - 1) * n + j + 1 <= haveB[r]
                   THEN slice[r][i * n + 1] + j
                   ELSE Garbage
    BY PartsOfProduct
<1>2. /\ n \in Nat \ {0} /\ Elements \in Nat /\ Elements = n * n
      /\ Begin(r) \in Nat /\ Exact /\ Counts(r) = Length(r) /\ Length(r) \in Nat
    BY UnitsOfElements, BlocksEnd, SmallIsExact DEF Multiplied, IInv, Types, UnitSize, Exact
<1> DEFINE row == i * n
           b == Begin(r)
<1>3. \A k \in 1 .. n : row + k \in 1 .. Counts(r)
    BY <1>1, <1>2
<1>4. ASSUME NEW k \in 1 .. n PROVE slice[r][row + k] = b + (row + k)
    <2> HIDE DEF row
    <2>1. IInv /\ next = world /\ RowsFit /\ slice[r] = BlockOf(r)
        BY DEF Multiplied
    <2> DEFINE l == row + k
    <2>2. l \in 1 .. Counts(r)
        BY <1>3
    <2> HIDE DEF l
    <2>3. slice[r][l] = Begin(r) + l
        BY <1>2, <2>1, <2>2, ExactBlocks
    <2> QED
        BY <2>3 DEF l
<1>5. haveB[r] = Elements
    BY <1>2, SizesAsInt DEF Multiplied
<1>6. (n - 1) * n + j + 1 <= haveB[r]
    <2>1. (n - 1) * n = n * n - n /\ n * n \in Nat
        BY <1>2
    <2> QED
        BY <1>2, <1>5, <2>1
<1> HIDE DEF row, b
<1>7. b \in Nat /\ row \in Nat /\ 1 \in 1 .. n
    BY <1>1, <1>2 DEF row, b
<1>8. slice[r][row + 1] = b + (row + 1)
    BY <1>4, <1>7
<1>9. slice[r][row + 1] # Garbage
    BY <1>7, <1>8, GarbageAssumption
<1>10. \A k \in 1 .. n : slice[r][row + k] = slice[r][row + 1] + k - 1
    BY <1>4, <1>7, <1>8
<1>11. part[r][q] = slice[r][row + 1] + j
    BY <1>1, <1>6, <1>9, <1>10 DEF row
<1>12. q = row + j + 1
    BY <1>1 DEF row
<1>13. part[r][q] = b + q
    BY <1>7, <1>8, <1>11, <1>12
<1> QED
    BY <1>13 DEF b

\* And so does the root, once it has put them together.
LEMMA ProductIsRight ==
    ASSUME Multiplied, Elements <= IntMax
    PROVE  Gathered = [e \in 1 .. Elements |-> e]
<1> SUFFICES ASSUME NEW e \in 1 .. Elements
             PROVE  (IF Cardinality(Writers(e)) = 1
                       THEN LET r == CHOOSE r \in Writers(e) : TRUE
                            IN  part[r][e - Displs(r)]
                       ELSE Garbage) = e
    BY DEF Gathered
<1>1. IInv /\ next = world /\ RowsFit /\ Exact
    BY SmallIsExact DEF Multiplied
<1>2. PICK r \in Ranks : /\ e - Begin(r) \in 1 .. Counts(r)
                         /\ \A q \in Ranks : e - Begin(q) \in 1 .. Counts(q) => q = r
    BY <1>1, OneBlock
<1>3. \A q \in Ranks : Displs(q) = Begin(q) /\ Begin(q) \in Nat
    BY <1>1, CastBlocks, BlocksEnd
<1>4. Writers(e) = {r}
    BY <1>2, <1>3 DEF Writers
<1>5. Cardinality(Writers(e)) = 1
    BY <1>4, FS_Singleton
<1>6. (CHOOSE s \in Writers(e) : TRUE) = r
    BY <1>4
<1>7. part[r][e - Displs(r)] = Begin(r) + (e - Begin(r))
    BY <1>2, <1>3, PartIsRight
<1>8. Begin(r) + (e - Begin(r)) = e
    BY <1>3
<1> QED
    BY <1>5, <1>6, <1>7, <1>8

\* The last element of the product is right only if the matrix fits: it takes
\* the whole of B, which then has been broadcast, or is the root's own and goes
\* with a block of A that is the whole of it.
LEMMA CornerTells ==
    ASSUME Multiplied, Gathered[Corner] = Corner
    PROVE  Elements <= IntMax
<1>1. /\ n \in Nat \ {0} /\ Elements \in Nat \ {0} /\ Elements = n * n
      /\ Corner = Elements /\ IInv /\ next = world /\ RowsFit /\ Matrices
    BY UnitsOfElements DEF Multiplied, IInv, Types, UnitSize, Corner
<1>2. Elements \in 1 .. Elements /\ Elements # Garbage
    BY <1>1, GarbageAssumption
<1> DEFINE s == CHOOSE r \in Writers(Elements) : TRUE
<1>3. Cardinality(Writers(Elements)) = 1 /\ part[s][Elements - Displs(s)] = Elements
    BY <1>1, <1>2 DEF Gathered
<1>4. Writers(Elements) # {}
    BY <1>3, FS_EmptySet
<1>5. s \in Writers(Elements)
    BY <1>4
<1> HIDE DEF s
<1> DEFINE q == Elements - Displs(s)
<1>6. s \in Ranks /\ q \in 1 .. Counts(s) /\ part[s][q] = Elements
    BY <1>3, <1>5 DEF Writers
<1> HIDE DEF q
<1>7. PICK i \in Nat, j \in 0 .. n - 1 :
          /\ i * n \in Nat /\ i * n + n <= Length(s)
          /\ part[s][q] =
                 IF /\ slice[s][i * n + 1] # Garbage
                    /\ \A k \in 1 .. n :
                           slice[s][i * n + k] = slice[s][i * n + 1] + k - 1
                    /\ (n - 1) * n + j + 1 <= haveB[s]
                   THEN slice[s][i * n + 1] + j
                   ELSE Garbage
    BY <1>6, PartsOfProduct
<1> DEFINE row == i * n
           first == slice[s][row + 1]
<1>8. /\ first # Garbage /\ first + j = Elements
      /\ \A k \in 1 .. n : slice[s][row + k] = first + k - 1
      /\ (n - 1) * n + j + 1 <= haveB[s]
    BY <1>2, <1>6, <1>7
<1>9. row \in Nat /\ row + n <= Length(s) /\ row + 1 <= row + n
    BY <1>1, <1>7
<1> HIDE DEF row
<1>10. /\ slice[s] = BlockOf(s) /\ Counts(s) \in Int /\ Counts(s) <= IntMax
       /\ Displs(s) \in Int /\ Length(s) \in Nat
    BY <1>1, <1>6, CastBlocks, BlocksEnd DEF Multiplied
<1>11. Room(s) = Length(s)
    <2>1. /\ ToInt(shares[s]) = Share(s) /\ Length(s) = Share(s) * n
          /\ Share(s) \in Nat /\ UnitSize = n
        BY <1>1, <1>6, BlockFits, BlocksLaidOut DEF UnitSize
    <2>2. Share(s) # 0
        <3>1. Length(s) > 0
            BY <1>1, <1>9, <1>10
        <3> QED
            BY <1>1, <2>1, <3>1
    <2> QED
        BY <2>1, <2>2 DEF Room
\* What is known of the block is where it should be in the root's array.
<1>12. ASSUME NEW k \in 1 .. n, slice[s][row + k] # Garbage
       PROVE  /\ slice[s][row + k] = Displs(s) + (row + k)
              /\ Displs(s) + (row + k) \in 1 .. Elements /\ row + k <= Counts(s)
    <2>1. row + k \in 1 .. Room(s)
        BY <1>1, <1>9, <1>10, <1>11
    <2>2. slice[s][row + k] =
              IF row + k <= Counts(s) THEN Whole(Displs(s) + (row + k)) ELSE Garbage
        BY <1>10, <2>1 DEF BlockOf
    <2> QED
        BY <1>12, <2>2 DEF Whole
<1>13. first = Displs(s) + (row + 1) /\ first \in Int
    <2>1. 1 \in 1 .. n
        BY <1>1
    <2>2. Displs(s) + (row + 1) \in Int
        BY <1>9, <1>10
    <2> QED
        BY <1>8, <1>12, <2>1, <2>2
<1> HIDE DEF first
<1>14. /\ row + n <= Counts(s) /\ Displs(s) + (row + n) <= Elements
    <2>1. n \in 1 .. n /\ slice[s][row + n] = first + n - 1
        BY <1>1, <1>8
    <2>2. slice[s][row + n] # Garbage
        BY <1>1, <1>13, <2>1, GarbageAssumption
    <2>3. Displs(s) + (row + n) \in 1 .. Elements
        BY <1>12, <2>1, <2>2
    <2> QED
        BY <1>12, <2>1, <2>2, <2>3
<1>15. j = n - 1 /\ Displs(s) + (row + n) = Elements
    BY <1>1, <1>8, <1>9, <1>10, <1>13, <1>14
<1>16. CASE s = Root
    <2>1. Displs(s) = 0
        <3>1. Begin(0) = 0 /\ 0 \in Ranks
            BY <1>1, <1>6, <1>16, BlocksLaidOut DEF Root
        <3>2. Displs(0) = ToInt(0) /\ 0 \in Nat /\ 0 <= IntMax
            BY <1>1, <3>1, BlocksLaidOut, WidthAssumption
        <3> QED
            BY <1>16, <3>2, SizesAsInt DEF Root
    <2> QED
        BY <1>1, <1>9, <1>10, <1>14, <1>15, <2>1, WidthAssumption
<1>17. CASE s # Root
    <2>1. haveB[s] = ToInt(Elements)
        BY <1>6, <1>17 DEF Multiplied
    <2>2. (n - 1) * n + (n - 1) + 1 = n * n
        BY <1>1
    <2>3. ToInt(Elements) \in Int /\ ToInt(Elements) <= IntMax
        BY <1>1, SizesAsInt
    <2> QED
        BY <1>1, <1>8, <1>15, <2>1, <2>2, <2>3, WidthAssumption
<1> QED
    BY <1>16, <1>17

-----------------------------------------------------------------------------
(* What the ranks of the two programs hold, and what the root makes of it *)

Stations ==
    {"tables", "barrier", "bcast", "scatterv", "work", "collect", "finalize", "exited"}

\* The number of the scatter among the collective calls, and the number of calls
\* a rank has made when it comes to a label.
ScatterCall == IF Matrices THEN 3 ELSE 2
CallsIn(label) ==
    IF label = "tables" THEN 0
    ELSE IF label = "barrier" THEN 1
    ELSE IF label = "bcast" THEN 2
    ELSE IF label \in {"scatterv", "work"} THEN ScatterCall
    ELSE IF label = "collect" THEN ScatterCall + 1 ELSE ScatterCall + 2

BlockTypes ==
    /\ pc \in [Ranks -> Stations \cup {"killed"}]
    /\ calls \in [Ranks -> Nat]
    /\ exitCode \in [Ranks -> {0, 1}]
    /\ DOMAIN haveB = Ranks /\ DOMAIN slice = Ranks /\ DOMAIN part = Ranks

\* Nobody makes a call before the tables are done.
Position(r) ==
    /\ pc[r] # "killed" => calls[r] = CallsIn(pc[r])
    /\ pc[r] = "bcast" => Matrices
    /\ calls[r] > 0 => next = world

\* What a rank has of B, and what it has received of the root's array.
Holds(r) ==
    calls[r] > 0 =>
        /\ DOMAIN slice[r] = 1 .. Room(r)
        /\ Matrices /\ r = Root => haveB[r] = Elements
        /\ Matrices /\ r # Root /\ calls[r] >= ScatterCall => haveB[r] = ToInt(Elements)
        /\ pc[r] = "work" \/ calls[r] > ScatterCall =>
               Counts(r) >= 0 /\ slice[r] = BlockOf(r)

Worked(r) ==
    calls[r] > ScatterCall => part[r] = IF Matrices THEN Product(r) ELSE LocalSum(r)

\* The root has an answer when all have worked: it is as it should be while all
\* sizes fit an int, and whenever the check of it has passed.
Answered ==
    /\ \A r \in Ranks : r # Root => exitCode[r] = 0
    /\ calls[Root] = ScatterCall + 2 =>
           /\ \A r \in Ranks : calls[r] > ScatterCall
           /\ Elements <= IntMax => exitCode[Root] = 0
           /\ exitCode[Root] = 0 =>
                  IF Matrices THEN answer = [e \in 1 .. Elements |-> e]
                  ELSE answer = Expected /\ Exact

BlockInv ==
    /\ IInv
    /\ program \in {"distributed-sum", "matrix-multiply", "ping-pong"}
    /\ ~PlaysBall =>
           /\ BlockTypes /\ RowsFit
           /\ \A r \in Ranks : Position(r) /\ Holds(r) /\ Worked(r)
           /\ Answered

\* What the tables say stays so while they and what they are made from do.
Settled == UNCHANGED <<program, n, world, next, shares, offsets>>

LEMMA TablesStay ==
    ASSUME Settled
    PROVE  /\ Ranks' = Ranks /\ Matrices' = Matrices /\ ScatterCall' = ScatterCall
           /\ UnitSize' = UnitSize /\ Elements' = Elements /\ Expected' = Expected
           /\ RowsFit' = RowsFit /\ Exact' = Exact
           /\ \A r : /\ Counts(r)' = Counts(r) /\ Displs(r)' = Displs(r)
                     /\ Room(r)' = Room(r) /\ BlockOf(r)' = BlockOf(r)
<1>1. Ranks' = Ranks /\ Matrices' = Matrices /\ n' = n /\ base' = base /\ remainder' = remainder
    BY DEF Settled, Ranks, Matrices, base, remainder
<1>2. ScatterCall' = ScatterCall /\ UnitSize' = UnitSize
    BY <1>1 DEF ScatterCall, UnitSize
<1>3. Elements' = Elements /\ Expected' = Expected
    BY <1>1, <1>2 DEF Elements, Expected
<1>4. ASSUME NEW r
      PROVE  Counts(r)' = Counts(r) /\ Displs(r)' = Displs(r) /\ Room(r)' = Room(r)
    BY <1>2 DEF Settled, Counts, Displs, Room
<1>5. ASSUME NEW r PROVE BlockOf(r)' = BlockOf(r)
    <2>1. \A e : Whole(e)' = Whole(e)
        BY <1>3 DEF Whole
    <2> QED
        BY <1>4, <2>1 DEF BlockOf
<1>6. RowsFit' = RowsFit
    BY <1>1 DEF RowsFit
<1>7. ASSUME NEW r PROVE Length(r)' = Length(r) /\ Begin(r)' = Begin(r)
    <2>1. Share(r)' = Share(r) /\ StartOf(r)' = StartOf(r)
        BY <1>1 DEF Share, StartOf
    <2> QED
        BY <1>2, <2>1 DEF Length, Begin
<1>8. Exact' = Exact
    BY <1>1, <1>4, <1>7 DEF Exact
<1> QED
    BY <1>1, <1>2, <1>3, <1>4, <1>5, <1>6, <1>8

\* And so does what a rank makes of what it has.
LEMMA WorkStays ==
    ASSUME Settled, NEW r, slice'[r] = slice[r], haveB'[r] = haveB[r]
    PROVE  Product(r)' = Product(r) /\ LocalSum(r)' = LocalSum(r)
<1>1. Counts(r)' = Counts(r) /\ n' = n /\ shares' = shares
    BY TablesStay DEF Settled
<1>2. Product(r)' = Product(r)
    BY <1>1 DEF Product
<1>3. LocalSum(r)' = LocalSum(r)
    BY <1>1 DEF LocalSum
<1> QED
    BY <1>2, <1>3

\* A rank that a step leaves alone, kills or lets go is as it was.
LEMMA RankStays ==
    ASSUME Settled, NEW r, Position(r) /\ Holds(r) /\ Worked(r),
           \/ pc'[r] = pc[r] \/ pc'[r] = "killed"
           \/ pc[r] = "finalize" /\ pc'[r] = "exited",
           calls'[r] = calls[r], haveB'[r] = haveB[r], slice'[r] = slice[r],
           part'[r] = part[r]
    PROVE  (Position(r) /\ Holds(r) /\ Worked(r))'
<1>1. /\ Matrices' = Matrices /\ ScatterCall' = ScatterCall /\ Elements' = Elements
      /\ Counts(r)' = Counts(r) /\ Room(r)' = Room(r) /\ BlockOf(r)' = BlockOf(r)
      /\ Product(r)' = Product(r) /\ LocalSum(r)' = LocalSum(r)
      /\ next' = next /\ world' = world
    BY TablesStay, WorkStays DEF Settled
<1>2. \A label : CallsIn(label)' = CallsIn(label)
    BY <1>1 DEF CallsIn
<1>3. CallsIn("finalize") = CallsIn("exited")
    BY DEF CallsIn
<1>4. Position(r)'
    BY <1>1, <1>2, <1>3 DEF Position
<1>5. Holds(r)'
    BY <1>1 DEF Holds
<1>6. Worked(r)'
    BY <1>1 DEF Worked
<1> QED
    BY <1>4, <1>5, <1>6

\* The calls a rank has made while it is not killed.
LEMMA CallsKnown ==
    ASSUME NEW r, Position(r)
    PROVE  /\ ScatterCall \in {2, 3}
           /\ At(r, "tables") => calls[r] = 0
           /\ At(r, "barrier") => calls[r] = 1
           /\ At(r, "bcast") => calls[r] = 2 /\ Matrices /\ ScatterCall = 3
           /\ At(r, "scatterv") \/ At(r, "work") => calls[r] = ScatterCall
           /\ At(r, "collect") => calls[r] = ScatterCall + 1
           /\ At(r, "finalize") \/ At(r, "exited") => calls[r] = ScatterCall + 2
           /\ calls[r] > 0 => next = world
<1>1. ScatterCall \in {2, 3} /\ (Matrices => ScatterCall = 3)
    BY DEF ScatterCall
<1>2. \A label : pc[r] = label /\ label # "killed" => calls[r] = CallsIn(label)
    BY DEF Position
<1> QED
    BY <1>1, <1>2 DEF Position, At, CallsIn

-----------------------------------------------------------------------------
(* The steps of the two programs *)

\* What a state of the two programs is.
Underway ==
    /\ IInv /\ ~PlaysBall /\ BlockTypes /\ RowsFit
    /\ \A r \in Ranks : Position(r) /\ Holds(r) /\ Worked(r)
    /\ Answered

\* A step of a rank that makes no call and moves no data.
LEMMA StopsOrGoesOn ==
    ASSUME Underway, Settled, NEW r \in Ranks,
           UNCHANGED <<calls, exitCode, haveB, slice, part, answer>>,
           \E label \in {"killed", "exited"} :
               pc' = [pc EXCEPT ![r] = label] /\ (label = "exited" => At(r, "finalize"))
    PROVE  /\ BlockTypes'
           /\ \A s \in Ranks : (Position(s) /\ Holds(s) /\ Worked(s))'
           /\ Answered'
<1>1. /\ Ranks' = Ranks /\ Matrices' = Matrices /\ ScatterCall' = ScatterCall
      /\ Elements' = Elements /\ Expected' = Expected /\ Exact' = Exact
    BY TablesStay
<1>2. BlockTypes'
    BY <1>1 DEF Underway, BlockTypes, Stations
<1>3. ASSUME NEW s \in Ranks PROVE (Position(s) /\ Holds(s) /\ Worked(s))'
    <2>1. \/ pc'[s] = pc[s] \/ pc'[s] = "killed"
          \/ pc[s] = "finalize" /\ pc'[s] = "exited"
        BY DEF Underway, BlockTypes, At
    <2>2. Position(s) /\ Holds(s) /\ Worked(s)
        BY DEF Underway
    <2> QED
        BY <2>1, <2>2, RankStays
<1>4. Answered'
    BY <1>1 DEF Underway, Answered
<1> QED
    BY <1>2, <1>3, <1>4

\* A step of a rank, but for the root's last call, changes nothing for the others.
LEMMA RankMoves ==
    ASSUME Underway, Settled, NEW r \in Ranks, NEW label \in Stations,
           pc' = [pc EXCEPT ![r] = label], calls' \in [Ranks -> Nat],
           calls'[r] >= calls[r], r = Root => calls'[r] <= ScatterCall + 1,
           DOMAIN haveB' = Ranks, DOMAIN slice' = Ranks, DOMAIN part' = Ranks,
           \A s \in Ranks : s # r => /\ calls'[s] = calls[s] /\ haveB'[s] = haveB[s]
                                     /\ slice'[s] = slice[s] /\ part'[s] = part[s],
           UNCHANGED <<exitCode, answer>>,
           (Position(r) /\ Holds(r) /\ Worked(r))'
    PROVE  /\ BlockTypes'
           /\ \A s \in Ranks : (Position(s) /\ Holds(s) /\ Worked(s))'
           /\ Answered'
<1>1. /\ Ranks' = Ranks /\ Matrices' = Matrices /\ ScatterCall' = ScatterCall
      /\ Elements' = Elements /\ Expected' = Expected /\ Exact' = Exact
    BY TablesStay
<1>2. BlockTypes'
    BY <1>1 DEF Underway, BlockTypes
<1>3. ASSUME NEW s \in Ranks PROVE (Position(s) /\ Holds(s) /\ Worked(s))'
    <2>1. CASE s = r
        BY <2>1
    <2>2. CASE s # r
        <3>1. pc'[s] = pc[s]
            BY <2>2 DEF Underway, BlockTypes
        <3>2. Position(s) /\ Holds(s) /\ Worked(s)
            BY DEF Underway
        <3> QED
            BY <2>2, <3>1, <3>2, RankStays
    <2> QED
        BY <2>1, <2>2
<1>4. /\ ScatterCall \in {2, 3} /\ calls \in [Ranks -> Nat] /\ 0 \in Ranks
    <2>1. 0 \in Ranks
        BY DEF Underway, IInv, Types, Ranks
    <2> QED
        BY <2>1 DEF ScatterCall, Underway, BlockTypes
<1>5. \A s \in Ranks : calls'[s] >= calls[s]
    BY <1>4
<1>6. ASSUME calls'[Root] = ScatterCall + 2
      PROVE  /\ calls[Root] = ScatterCall + 2
             /\ \A s \in Ranks : calls[s] > ScatterCall => calls'[s] > ScatterCall
    <2>1. Root # r /\ Root \in Ranks
        BY <1>4, <1>6 DEF Root
    <2> QED
        BY <1>4, <1>5, <1>6, <2>1
<1>7. Answered'
    BY <1>1, <1>6 DEF Underway, Answered
<1> QED
    BY <1>2, <1>3, <1>7

\* A rank that allocates: the block has the room that the tables say.
LEMMA AllocateKeeps ==
    ASSUME Underway, NEW r \in Ranks, UNCHANGED <<program, n, world>>, Allocate(r)
    PROVE  /\ BlockTypes'
           /\ \A s \in Ranks : (Position(s) /\ Holds(s) /\ Worked(s))'
           /\ Answered'
<1>1. Settled /\ UNCHANGED <<exitCode, answer, part>> /\ next = world
    BY DEF Allocate, Enter, loopVars, Settled
<1>2. /\ pc' = [pc EXCEPT ![r] = "barrier"] /\ calls' = [calls EXCEPT ![r] = @ + 1]
      /\ slice' = [slice EXCEPT ![r] = [j \in 1 .. Room(r) |-> Garbage]]
      /\ haveB' = [haveB EXCEPT ![r] = IF Matrices /\ r = Root THEN Elements ELSE 0]
    BY DEF Allocate, Enter
<1>3. BlockTypes /\ Position(r)
    BY DEF Underway
<1>4. calls[r] = 0 /\ ScatterCall \in {2, 3}
    BY <1>3, CallsKnown DEF Allocate
<1>5. /\ calls'[r] = 1 /\ pc'[r] = "barrier" /\ calls' \in [Ranks -> Nat]
      /\ slice'[r] = [j \in 1 .. Room(r) |-> Garbage]
      /\ Matrices /\ r = Root => haveB'[r] = Elements
    BY <1>2, <1>3, <1>4 DEF BlockTypes
<1>6. /\ Matrices' = Matrices /\ ScatterCall' = ScatterCall /\ Elements' = Elements
      /\ Room(r)' = Room(r)
    BY <1>1, TablesStay
<1>7. Position(r)'
    BY <1>1, <1>5, <1>6 DEF Position, CallsIn, Settled
<1>8. Holds(r)'
    BY <1>4, <1>5, <1>6 DEF Holds
<1>9. Worked(r)'
    BY <1>4, <1>5, <1>6 DEF Worked
<1>10. /\ DOMAIN haveB' = Ranks /\ DOMAIN slice' = Ranks /\ DOMAIN part' = Ranks
       /\ \A s \in Ranks : s # r => /\ calls'[s] = calls[s] /\ haveB'[s] = haveB[s]
                                    /\ slice'[s] = slice[s] /\ part'[s] = part[s]
    BY <1>1, <1>2, <1>3 DEF BlockTypes
<1>11. calls'[r] >= calls[r] /\ calls'[r] <= ScatterCall + 1 /\ "barrier" \in Stations
    BY <1>4, <1>5 DEF Stations
<1> QED
    BY <1>1, <1>2, <1>5, <1>7, <1>8, <1>9, <1>10, <1>11, RankMoves

LEMMA PassBarrierKeeps ==
    ASSUME Underway, NEW r \in Ranks, UNCHANGED <<program, n, world>>, PassBarrier(r)
    PROVE  /\ BlockTypes'
           /\ \A s \in Ranks : (Position(s) /\ Holds(s) /\ Worked(s))'
           /\ Answered'
<1> DEFINE label == IF Matrices THEN "bcast" ELSE "scatterv"
<1>1. Settled /\ UNCHANGED <<exitCode, haveB, slice, part, answer>>
    BY DEF PassBarrier, Enter, blockVars, loopVars, Settled
<1>2. pc' = [pc EXCEPT ![r] = label] /\ calls' = [calls EXCEPT ![r] = @ + 1]
    BY DEF PassBarrier, Enter
<1>3. BlockTypes /\ Position(r) /\ Holds(r) /\ Worked(r)
    BY DEF Underway
<1>4. calls[r] = 1 /\ ScatterCall \in {2, 3} /\ next = world
    BY <1>3, CallsKnown DEF PassBarrier
<1>5. calls'[r] = 2 /\ pc'[r] = label /\ calls' \in [Ranks -> Nat]
    BY <1>2, <1>3, <1>4 DEF BlockTypes
<1>6. /\ Matrices' = Matrices /\ ScatterCall' = ScatterCall /\ Elements' = Elements
      /\ Room(r)' = Room(r)
    BY <1>1, TablesStay
<1>7. ScatterCall = IF Matrices THEN 3 ELSE 2
    BY DEF ScatterCall
<1>8. Position(r)'
    BY <1>1, <1>4, <1>5, <1>6, <1>7 DEF Position, CallsIn, Settled
<1>9. Holds(r)'
    <2>1. pc'[r] # "work" /\ ~(calls'[r] > ScatterCall)
        BY <1>4, <1>5
    <2>2. Matrices => ~(calls'[r] >= ScatterCall)
        BY <1>5, <1>7
    <2>3. calls[r] > 0
        BY <1>4
    <2> QED
        BY <1>1, <1>3, <1>6, <2>1, <2>2, <2>3 DEF Holds
<1>10. Worked(r)'
    BY <1>4, <1>5, <1>6 DEF Worked
<1>11. /\ DOMAIN haveB' = Ranks /\ DOMAIN slice' = Ranks /\ DOMAIN part' = Ranks
       /\ \A s \in Ranks : s # r => /\ calls'[s] = calls[s] /\ haveB'[s] = haveB[s]
                                    /\ slice'[s] = slice[s] /\ part'[s] = part[s]
    BY <1>1, <1>2, <1>3 DEF BlockTypes
<1>12. calls'[r] >= calls[r] /\ calls'[r] <= ScatterCall + 1 /\ label \in Stations
    BY <1>4, <1>5 DEF Stations
<1> HIDE DEF label
<1> QED
    BY <1>1, <1>2, <1>5, <1>8, <1>9, <1>10, <1>11, <1>12, RankMoves

\* B has arrived: all of it, as far as an int can say how long it is.
LEMMA ReceiveBKeeps ==
    ASSUME Underway, NEW r \in Ranks, UNCHANGED <<program, n, world>>, ReceiveB(r)
    PROVE  /\ BlockTypes'
           /\ \A s \in Ranks : (Position(s) /\ Holds(s) /\ Worked(s))'
           /\ Answered'
<1>1. Settled /\ UNCHANGED <<exitCode, slice, part, answer>>
    BY DEF ReceiveB, Enter, loopVars, Settled
<1>2. /\ pc' = [pc EXCEPT ![r] = "scatterv"] /\ calls' = [calls EXCEPT ![r] = @ + 1]
      /\ haveB' = [haveB EXCEPT ![r] = IF r = Root THEN @ ELSE ToInt(Elements)]
    BY DEF ReceiveB, Enter
<1>3. BlockTypes /\ Position(r) /\ Holds(r) /\ Worked(r)
    BY DEF Underway
<1>4. calls[r] = 2 /\ ScatterCall = 3 /\ next = world /\ Matrices
    BY <1>3, CallsKnown DEF ReceiveB
<1>5. /\ calls'[r] = 3 /\ pc'[r] = "scatterv" /\ calls' \in [Ranks -> Nat]
      /\ haveB'[r] = IF r = Root THEN haveB[r] ELSE ToInt(Elements)
    BY <1>2, <1>3, <1>4 DEF BlockTypes
<1>6. /\ Matrices' = Matrices /\ ScatterCall' = ScatterCall /\ Elements' = Elements
      /\ Room(r)' = Room(r)
    BY <1>1, TablesStay
<1>7. Position(r)'
    BY <1>1, <1>4, <1>5, <1>6 DEF Position, CallsIn, Settled
<1>8. Holds(r)'
    <2>1. /\ pc'[r] # "work" /\ ~(calls'[r] > ScatterCall) /\ calls[r] > 0
          /\ Matrices /\ r = Root => haveB'[r] = Elements
          /\ Matrices /\ r # Root => haveB'[r] = ToInt(Elements)
        BY <1>3, <1>4, <1>5 DEF Holds
    <2> QED
        BY <1>1, <1>3, <1>6, <2>1 DEF Holds
<1>9. Worked(r)'
    BY <1>4, <1>5, <1>6 DEF Worked
<1>10. /\ DOMAIN haveB' = Ranks /\ DOMAIN slice' = Ranks /\ DOMAIN part' = Ranks
       /\ \A s \in Ranks : s # r => /\ calls'[s] = calls[s] /\ haveB'[s] = haveB[s]
                                    /\ slice'[s] = slice[s] /\ part'[s] = part[s]
    BY <1>1, <1>2, <1>3 DEF BlockTypes
<1>11. calls'[r] >= calls[r] /\ calls'[r] <= ScatterCall + 1 /\ "scatterv" \in Stations
    BY <1>4, <1>5 DEF Stations
<1> QED
    BY <1>1, <1>2, <1>5, <1>7, <1>8, <1>9, <1>10, <1>11, RankMoves

\* The block has arrived, into room for all of it.
LEMMA ReceiveBlockKeeps ==
    ASSUME Underway, NEW r \in Ranks, UNCHANGED <<program, n, world>>, ReceiveBlock(r)
    PROVE  /\ BlockTypes'
           /\ \A s \in Ranks : (Position(s) /\ Holds(s) /\ Worked(s))'
           /\ Answered'
<1>1. Settled /\ UNCHANGED <<calls, exitCode, haveB, part, answer>>
    BY DEF ReceiveBlock, Goto, loopVars, Settled
<1>2. /\ pc' = [pc EXCEPT ![r] = "work"]
      /\ slice' = [slice EXCEPT ![r] =
                      [j \in DOMAIN @ |-> IF j <= Counts(r) THEN Whole(Displs(r) + j)
                                          ELSE Garbage]]
    BY DEF ReceiveBlock, Goto
<1>3. BlockTypes /\ Position(r) /\ Holds(r) /\ Worked(r)
    BY DEF Underway
<1>4. calls[r] = ScatterCall /\ ScatterCall \in {2, 3} /\ next = world
    BY <1>3, CallsKnown DEF ReceiveBlock
<1>5. pc'[r] = "work" /\ calls' \in [Ranks -> Nat]
    BY <1>1, <1>2, <1>3 DEF BlockTypes
<1>6. slice'[r] = BlockOf(r)
    <2>1. DOMAIN slice[r] = 1 .. Room(r)
        BY <1>3, <1>4 DEF Holds
    <2>2. slice'[r] = [j \in DOMAIN slice[r] |->
                          IF j <= Counts(r) THEN Whole(Displs(r) + j) ELSE Garbage]
        BY <1>2, <1>3 DEF BlockTypes
    <2> QED
        BY <2>1, <2>2 DEF BlockOf
<1>7. Counts(r) >= 0
    <2>1. ~Refused(r) /\ At(r, "scatterv")
        BY DEF ReceiveBlock
    <2>2. r \in IF r = Root THEN Ranks ELSE {r}
        OBVIOUS
    <2>3. ~(Counts(r) < 0)
        BY <2>1, <2>2 DEF Refused
    <2>4. Counts(r) \in Int
        BY <1>4, CastBlocks DEF Underway
    <2> QED
        BY <2>3, <2>4
<1>8. /\ Matrices' = Matrices /\ ScatterCall' = ScatterCall /\ Elements' = Elements
      /\ Room(r)' = Room(r) /\ Counts(r)' = Counts(r) /\ BlockOf(r)' = BlockOf(r)
    BY <1>1, TablesStay
<1>9. Position(r)'
    BY <1>1, <1>4, <1>5, <1>8 DEF Position, CallsIn, Settled
<1>10. Holds(r)'
    <2>1. calls[r] > 0 /\ DOMAIN slice'[r] = 1 .. Room(r)
        BY <1>4, <1>6 DEF BlockOf
    <2> QED
        BY <1>1, <1>3, <1>6, <1>7, <1>8, <2>1 DEF Holds
<1>11. Worked(r)'
    BY <1>1, <1>4, <1>8 DEF Worked
<1>12. /\ DOMAIN haveB' = Ranks /\ DOMAIN slice' = Ranks /\ DOMAIN part' = Ranks
       /\ \A s \in Ranks : s # r => /\ calls'[s] = calls[s] /\ haveB'[s] = haveB[s]
                                    /\ slice'[s] = slice[s] /\ part'[s] = part[s]
    BY <1>1, <1>2, <1>3 DEF BlockTypes
<1>13. calls'[r] >= calls[r] /\ calls'[r] <= ScatterCall + 1 /\ "work" \in Stations
    BY <1>1, <1>4 DEF Stations
<1> QED
    BY <1>1, <1>2, <1>5, <1>9, <1>10, <1>11, <1>12, <1>13, RankMoves

\* The part is made of what has arrived.
LEMMA WorkKeeps ==
    ASSUME Underway, NEW r \in Ranks, UNCHANGED <<program, n, world>>, Work(r)
    PROVE  /\ BlockTypes'
           /\ \A s \in Ranks : (Position(s) /\ Holds(s) /\ Worked(s))'
           /\ Answered'
<1>1. Settled /\ UNCHANGED <<exitCode, haveB, slice, answer>>
    BY DEF Work, Enter, loopVars, Settled
<1>2. /\ pc' = [pc EXCEPT ![r] = "collect"] /\ calls' = [calls EXCEPT ![r] = @ + 1]
      /\ part' = [part EXCEPT ![r] = IF Matrices THEN Product(r) ELSE LocalSum(r)]
    BY DEF Work, Enter
<1>3. BlockTypes /\ Position(r) /\ Holds(r) /\ Worked(r)
    BY DEF Underway
<1>4. /\ calls[r] = ScatterCall /\ ScatterCall \in {2, 3} /\ next = world
      /\ pc[r] = "work"
    BY <1>3, CallsKnown DEF Work, At
<1>5. /\ calls'[r] = ScatterCall + 1 /\ pc'[r] = "collect" /\ calls' \in [Ranks -> Nat]
      /\ part'[r] = IF Matrices THEN Product(r) ELSE LocalSum(r)
    BY <1>2, <1>3, <1>4 DEF BlockTypes
<1>6. /\ Matrices' = Matrices /\ ScatterCall' = ScatterCall /\ Elements' = Elements
      /\ Room(r)' = Room(r) /\ Counts(r)' = Counts(r) /\ BlockOf(r)' = BlockOf(r)
      /\ Product(r)' = Product(r) /\ LocalSum(r)' = LocalSum(r)
    BY <1>1, TablesStay, WorkStays
<1>7. Position(r)'
    BY <1>1, <1>4, <1>5, <1>6 DEF Position, CallsIn, Settled
<1>8. Holds(r)'
    <2>1. calls[r] > 0 /\ calls[r] >= ScatterCall
        BY <1>4
    <2> QED
        BY <1>1, <1>3, <1>4, <1>6, <2>1 DEF Holds
<1>9. Worked(r)'
    BY <1>5, <1>6 DEF Worked
<1>10. /\ DOMAIN haveB' = Ranks /\ DOMAIN slice' = Ranks /\ DOMAIN part' = Ranks
       /\ \A s \in Ranks : s # r => /\ calls'[s] = calls[s] /\ haveB'[s] = haveB[s]
                                    /\ slice'[s] = slice[s] /\ part'[s] = part[s]
    BY <1>1, <1>2, <1>3 DEF BlockTypes
<1>11. calls'[r] >= calls[r] /\ calls'[r] <= ScatterCall + 1 /\ "collect" \in Stations
    BY <1>4, <1>5 DEF Stations
<1> QED
    BY <1>1, <1>2, <1>5, <1>7, <1>8, <1>9, <1>10, <1>11, RankMoves

\* One more share, which nobody has made use of yet.
LEMMA ComputeTablesKeeps ==
    ASSUME Underway, UNCHANGED <<program, n, world>>, ComputeTables
    PROVE  /\ BlockTypes'
           /\ \A s \in Ranks : (Position(s) /\ Holds(s) /\ Worked(s))'
           /\ Answered'
<1>1. /\ UNCHANGED <<pc, calls, exitCode, haveB, slice, part, answer>>
      /\ next < world
    BY DEF ComputeTables, worldVars
<1>2. Ranks' = Ranks /\ Matrices' = Matrices /\ ScatterCall' = ScatterCall
    BY DEF Ranks, Matrices, ScatterCall
<1>3. ScatterCall \in {2, 3} /\ world \in Nat \ {0} /\ next \in Int /\ calls \in [Ranks -> Nat]
    BY DEF ScatterCall, Underway, IInv, Types, BlockTypes
<1>4. ASSUME NEW s \in Ranks PROVE calls[s] = 0
    <2>1. calls[s] > 0 => next = world
        BY DEF Underway, Position
    <2> QED
        BY <1>1, <1>3, <2>1
<1>5. BlockTypes'
    BY <1>1, <1>2 DEF Underway, BlockTypes
<1>6. ASSUME NEW s \in Ranks PROVE (Position(s) /\ Holds(s) /\ Worked(s))'
    <2>1. \A label : CallsIn(label)' = CallsIn(label)
        BY <1>2 DEF CallsIn
    <2>2. Position(s) /\ calls'[s] = 0
        BY <1>1, <1>4 DEF Underway
    <2>3. Position(s)'
        BY <1>1, <1>2, <2>1, <2>2 DEF Position
    <2>4. Holds(s)'
        BY <2>2 DEF Holds
    <2>5. Worked(s)'
        BY <1>2, <1>3, <2>2 DEF Worked
    <2> QED
        BY <2>3, <2>4, <2>5
<1>7. Answered'
    <2>1. Root \in Ranks
        BY <1>3 DEF Root, Ranks
    <2>2. calls'[Root] = 0
        BY <1>1, <1>4, <2>1
    <2>3. calls'[Root] # ScatterCall + 2
        BY <1>3, <2>2
    <2> QED
        BY <1>1, <1>2, <2>3 DEF Underway, Answered
<1> QED
    BY <1>5, <1>6, <1>7

\* A rank that is done when it has handed over its part.
LEMMA HandOverKeeps ==
    ASSUME Underway, NEW r \in Ranks, UNCHANGED <<program, n, world>>, HandOver(r)
    PROVE  /\ BlockTypes'
           /\ \A s \in Ranks : (Position(s) /\ Holds(s) /\ Worked(s))'
           /\ Answered'
<1>1. Settled /\ UNCHANGED <<haveB, slice, part, answer>> /\ r # Root
    BY DEF HandOver, blockVars, loopVars, Settled
<1>2. /\ pc' = [pc EXCEPT ![r] = "finalize"] /\ calls' = [calls EXCEPT ![r] = @ + 1]
      /\ exitCode' = [exitCode EXCEPT ![r] = 0]
    BY DEF HandOver, Finalize
<1>3. BlockTypes /\ Position(r) /\ Holds(r) /\ Worked(r) /\ exitCode[r] = 0
    BY <1>1 DEF Underway, Answered
<1>4. calls[r] = ScatterCall + 1 /\ ScatterCall \in {2, 3} /\ next = world
    BY <1>3, CallsKnown DEF HandOver
<1>5. calls'[r] = ScatterCall + 2 /\ pc'[r] = "finalize" /\ calls' \in [Ranks -> Nat]
    BY <1>2, <1>3, <1>4 DEF BlockTypes
<1>6. exitCode' = exitCode
    BY <1>2, <1>3 DEF BlockTypes
<1>7. /\ Matrices' = Matrices /\ ScatterCall' = ScatterCall /\ Elements' = Elements
      /\ Room(r)' = Room(r) /\ Counts(r)' = Counts(r) /\ BlockOf(r)' = BlockOf(r)
      /\ Product(r)' = Product(r) /\ LocalSum(r)' = LocalSum(r)
    BY <1>1, TablesStay, WorkStays
<1>8. Position(r)'
    BY <1>1, <1>4, <1>5, <1>7 DEF Position, CallsIn, Settled
<1>9. calls[r] > 0 /\ calls[r] > ScatterCall /\ calls[r] >= ScatterCall
    BY <1>4
<1>10. Holds(r)'
    BY <1>1, <1>3, <1>7, <1>9 DEF Holds
<1>11. Worked(r)'
    BY <1>1, <1>3, <1>7, <1>9 DEF Worked
<1>12. /\ DOMAIN haveB' = Ranks /\ DOMAIN slice' = Ranks /\ DOMAIN part' = Ranks
       /\ \A s \in Ranks : s # r => /\ calls'[s] = calls[s] /\ haveB'[s] = haveB[s]
                                    /\ slice'[s] = slice[s] /\ part'[s] = part[s]
    BY <1>1, <1>2, <1>3 DEF BlockTypes
<1>13. calls'[r] >= calls[r] /\ "finalize" \in Stations
    BY <1>4, <1>5 DEF Stations
<1> QED
    BY <1>1, <1>2, <1>5, <1>6, <1>8, <1>10, <1>11, <1>12, <1>13, RankMoves

\* What the root puts together, when all have worked, is right while all sizes
\* fit an int, and whenever the check of it passes.
LEMMA RootTells ==
    ASSUME Underway, next = world, \A r \in Ranks : calls[r] > ScatterCall
    PROVE  IF Matrices
             THEN /\ Elements <= IntMax => Gathered = [e \in 1 .. Elements |-> e]
                  /\ Elements <= IntMax => Gathered[Corner] = Corner
                  /\ Gathered[Corner] = Corner => Elements <= IntMax
             ELSE /\ Sum = Expected => Exact
                  /\ Elements <= IntMax => Sum = Expected
<1>1. IInv /\ RowsFit /\ ScatterCall \in {2, 3} /\ calls \in [Ranks -> Nat]
    BY DEF Underway, ScatterCall, BlockTypes
<1>2. ASSUME NEW r \in Ranks
      PROVE  /\ Counts(r) >= 0 /\ slice[r] = BlockOf(r)
             /\ part[r] = IF Matrices THEN Product(r) ELSE LocalSum(r)
             /\ Matrices => haveB[r] = IF r = Root THEN Elements ELSE ToInt(Elements)
    <2>1. Holds(r) /\ Worked(r)
        BY DEF Underway
    <2>2. calls[r] > 0 /\ calls[r] >= ScatterCall
        BY <1>1
    <2> QED
        BY <2>1, <2>2 DEF Holds, Worked
<1>3. CASE Matrices
    <2>1. Multiplied
        BY <1>1, <1>2, <1>3 DEF Multiplied
    <2>2. Corner \in 1 .. Elements
        BY <1>1, UnitsOfElements DEF IInv, Corner
    <2>3. Elements <= IntMax => Gathered = [e \in 1 .. Elements |-> e]
        BY <2>1, ProductIsRight
    <2>4. Elements <= IntMax => Gathered[Corner] = Corner
        BY <2>2, <2>3
    <2> QED
        BY <1>3, <2>1, <2>3, <2>4, CornerTells
<1>4. CASE ~Matrices
    <2>1. \A r \in Ranks : /\ Counts(r) >= 0 /\ slice[r] = BlockOf(r)
                           /\ part[r] = LocalSum(r)
        BY <1>2, <1>4
    <2> QED
        BY <1>1, <1>4, <2>1, SumTells
<1> QED
    BY <1>3, <1>4

\* The root answers last.
LEMMA CollectKeeps ==
    ASSUME Underway, UNCHANGED <<program, n, world>>, Collect
    PROVE  /\ BlockTypes'
           /\ \A s \in Ranks : (Position(s) /\ Holds(s) /\ Worked(s))'
           /\ Answered'
<1>1. Settled /\ UNCHANGED <<haveB, slice, part>>
    BY DEF Collect, loopVars, Settled
<1>2. /\ pc' = [pc EXCEPT ![Root] = "finalize"] /\ calls' = [calls EXCEPT ![Root] = @ + 1]
      /\ exitCode' = [exitCode EXCEPT ![Root] = IF Passed THEN 0 ELSE 1]
      /\ answer' = IF Matrices THEN Gathered ELSE Sum
    BY DEF Collect, Finalize
<1>3. Root \in Ranks
    BY DEF Underway, IInv, Types, Root, Ranks
<1>4. BlockTypes /\ \A r \in Ranks : Position(r) /\ Holds(r) /\ Worked(r)
    BY DEF Underway
<1>5. calls[Root] = ScatterCall + 1 /\ ScatterCall \in {2, 3} /\ next = world
    BY <1>3, <1>4, CallsKnown DEF Collect
<1>6. \A r \in Ranks : calls[r] > ScatterCall
    <2>1. \A r \in Ranks : calls[r] >= calls[Root] /\ calls[r] \in Nat
        BY <1>4 DEF Collect, AllArrived, HasEntered, BlockTypes
    <2> QED
        BY <1>5, <2>1
<1>7. /\ calls'[Root] = ScatterCall + 2 /\ pc'[Root] = "finalize"
      /\ exitCode'[Root] = IF Passed THEN 0 ELSE 1
      /\ \A r \in Ranks : r # Root => /\ pc'[r] = pc[r] /\ calls'[r] = calls[r]
                                      /\ exitCode'[r] = exitCode[r]
      /\ calls' \in [Ranks -> Nat] /\ exitCode' \in [Ranks -> {0, 1}]
    <2>1. (IF Passed THEN 0 ELSE 1) \in {0, 1}
        OBVIOUS
    <2> HIDE DEF Passed
    <2> QED
        BY <1>2, <1>3, <1>4, <1>5, <2>1 DEF BlockTypes
<1>8. /\ Ranks' = Ranks /\ Matrices' = Matrices /\ ScatterCall' = ScatterCall
      /\ Elements' = Elements /\ Expected' = Expected /\ Exact' = Exact
      /\ \A r : /\ Counts(r)' = Counts(r) /\ Room(r)' = Room(r)
                /\ BlockOf(r)' = BlockOf(r)
    BY <1>1, TablesStay
<1>9. BlockTypes'
    BY <1>1, <1>2, <1>4, <1>7, <1>8 DEF BlockTypes, Stations
<1>10. ASSUME NEW r \in Ranks PROVE (Position(r) /\ Holds(r) /\ Worked(r))'
    <2>1. CASE r # Root
        <3>1. Position(r) /\ Holds(r) /\ Worked(r)
            BY <1>4
        <3> QED
            BY <1>1, <1>7, <2>1, <3>1, RankStays
    <2>2. CASE r = Root
        <3>1. Product(r)' = Product(r) /\ LocalSum(r)' = LocalSum(r)
            BY <1>1, WorkStays
        <3>2. Holds(r) /\ Worked(r) /\ calls[r] > 0 /\ calls[r] > ScatterCall
            BY <1>4, <1>5, <2>2
        <3>3. Position(r)'
            BY <1>1, <1>5, <1>7, <1>8, <2>2 DEF Position, CallsIn, Settled
        <3>4. Holds(r)'
            BY <1>1, <1>8, <2>2, <3>2 DEF Holds
        <3>5. Worked(r)'
            BY <1>1, <1>8, <3>1, <3>2 DEF Worked
        <3> QED
            BY <3>3, <3>4, <3>5
    <2> QED
        BY <2>1, <2>2
<1>11. \A r \in Ranks : calls'[r] > ScatterCall
    <2>1. \A r \in Ranks : r = Root \/ calls'[r] > ScatterCall
        BY <1>6, <1>7
    <2>2. calls'[Root] > ScatterCall
        BY <1>5, <1>7
    <2> QED
        BY <2>1, <2>2
<1>12. /\ Elements <= IntMax => exitCode'[Root] = 0
       /\ exitCode'[Root] = 0 =>
              IF Matrices THEN answer' = [e \in 1 .. Elements |-> e]
              ELSE answer' = Expected /\ Exact
    <2>1. exitCode'[Root] = 0 <=> Passed
        BY <1>7
    <2>2. CASE Matrices
        <3>1. /\ Elements <= IntMax => answer' = [e \in 1 .. Elements |-> e]
              /\ Elements <= IntMax => answer'[Corner] = Corner
              /\ answer'[Corner] = Corner => Elements <= IntMax
            BY <1>2, <1>5, <1>6, <2>2, RootTells
        <3>2. Passed <=> answer'[Corner] = Corner
            BY <2>2 DEF Passed
        <3> QED
            BY <2>1, <2>2, <3>1, <3>2
    <2>3. CASE ~Matrices
        <3>1. /\ answer' = Expected => Exact
              /\ Elements <= IntMax => answer' = Expected
            BY <1>2, <1>5, <1>6, <2>3, RootTells
        <3>2. Passed <=> answer' = Expected
            BY <2>3 DEF Passed
        <3> QED
            BY <2>1, <2>3, <3>1, <3>2
    <2> QED
        BY <2>2, <2>3
<1>13. \A r \in Ranks : r # Root => exitCode'[r] = 0
    BY <1>7 DEF Underway, Answered
<1>14. Answered'
    BY <1>8, <1>11, <1>12, <1>13 DEF Answered
<1> QED
    BY <1>9, <1>10, <1>14

LEMMA BlockStart ==
    ASSUME Init
    PROVE  BlockInv
<1>1. IInv
    BY TablesBegin, InitIInv
<1>2. program \in {"distributed-sum", "matrix-multiply", "ping-pong"}
    BY DEF Init
<1>3. ASSUME ~PlaysBall
      PROVE  /\ BlockTypes /\ RowsFit
             /\ \A r \in Ranks : Position(r) /\ Holds(r) /\ Worked(r)
             /\ Answered
    <2>1. /\ pc = [r \in Ranks |-> "tables"] /\ calls = [r \in Ranks |-> 0]
          /\ exitCode = [r \in Ranks |-> 0]
          /\ haveB = [r \in Ranks |-> 0] /\ slice = [r \in Ranks |-> <<>>]
          /\ part = [r \in Ranks |-> Garbage]
        BY <1>3 DEF Init, WorldInit, BlockInit
    <2>2. BlockTypes
        BY <2>1 DEF BlockTypes, Stations
    <2>3. RowsFit
        BY DEF Init, RowsFit
    <2>4. ScatterCall \in {2, 3}
        BY DEF ScatterCall
    <2>5. ASSUME NEW r \in Ranks PROVE Position(r) /\ Holds(r) /\ Worked(r)
        <3>1. pc[r] = "tables" /\ calls[r] = 0
            BY <2>1
        <3> QED
            BY <2>4, <3>1 DEF Position, Holds, Worked, CallsIn
    <2>6. Answered
        <3>1. Root \in Ranks
            BY <1>1 DEF IInv, Types, Root, Ranks
        <3>2. calls[Root] = 0 /\ \A r \in Ranks : exitCode[r] = 0
            BY <2>1, <3>1
        <3>3. calls[Root] # ScatterCall + 2
            BY <2>4, <3>2
        <3> QED
            BY <3>2, <3>3 DEF Answered
    <2> QED
        BY <2>2, <2>3, <2>5, <2>6
<1> QED
    BY <1>1, <1>2, <1>3 DEF BlockInv

\* One step of a rank of the two programs.
LEMMA BlockMoves ==
    ASSUME Underway, NEW r \in Ranks, UNCHANGED <<program, n, world>>,
           BlockProceed(r) \/ AllocationFails(r)
    PROVE  /\ BlockTypes'
           /\ \A s \in Ranks : (Position(s) /\ Holds(s) /\ Worked(s))'
           /\ Answered'
<1>1. CASE Allocate(r)
    BY <1>1, AllocateKeeps
<1>2. CASE PassBarrier(r)
    BY <1>2, PassBarrierKeeps
<1>3. CASE CallRefused(r)
    <2>1. /\ Settled /\ UNCHANGED <<calls, exitCode, haveB, slice, part, answer>>
          /\ pc' = [pc EXCEPT ![r] = "killed"]
        BY <1>3 DEF CallRefused, MPI_Abort, blockVars, loopVars, Settled
    <2> QED
        BY <2>1, StopsOrGoesOn
<1>4. CASE ReceiveB(r)
    BY <1>4, ReceiveBKeeps
<1>5. CASE ReceiveBlock(r)
    BY <1>5, ReceiveBlockKeeps
<1>6. CASE Work(r)
    BY <1>6, WorkKeeps
<1>7. CASE HandOver(r)
    BY <1>7, HandOverKeeps
<1>8. CASE Exit(r)
    <2>1. /\ Settled /\ UNCHANGED <<calls, exitCode, haveB, slice, part, answer>>
          /\ pc' = [pc EXCEPT ![r] = "exited"] /\ At(r, "finalize")
        BY <1>8 DEF Exit, Finalized, Goto, blockVars, loopVars, Settled
    <2> QED
        BY <2>1, StopsOrGoesOn
<1>9. CASE Die(r)
    <2>1. /\ Settled /\ UNCHANGED <<calls, exitCode, haveB, slice, part, answer>>
          /\ pc' = [pc EXCEPT ![r] = "killed"]
        BY <1>9 DEF Die, Killed, Goto, blockVars, loopVars, Settled
    <2> QED
        BY <2>1, StopsOrGoesOn
<1>10. CASE ComputeTables
    BY <1>10, ComputeTablesKeeps
<1>11. CASE Collect
    BY <1>11, CollectKeeps
<1>12. CASE AllocationFails(r)
    <2>1. /\ Settled /\ UNCHANGED <<calls, exitCode, haveB, slice, part, answer>>
          /\ pc' = [pc EXCEPT ![r] = "killed"]
        BY <1>12 DEF AllocationFails, MPI_Abort, blockVars, loopVars, Settled
    <2> QED
        BY <2>1, StopsOrGoesOn
<1> QED
    BY <1>1, <1>2, <1>3, <1>4, <1>5, <1>6, <1>7, <1>8, <1>9, <1>10, <1>11, <1>12
    DEF BlockProceed

LEMMA BlockStep ==
    ASSUME BlockInv, [Next]_vars
    PROVE  BlockInv'
<1>1. IInv'
    BY TablesGrow, StepIInv DEF BlockInv
<1>2. program' = program
    BY DEF Next, vars
<1>3. ASSUME ~PlaysBall'
      PROVE  /\ BlockTypes' /\ RowsFit'
             /\ \A r \in Ranks' : (Position(r) /\ Holds(r) /\ Worked(r))'
             /\ Answered'
    <2>1. ~PlaysBall /\ Underway
        BY <1>2, <1>3 DEF PlaysBall, BlockInv, Underway
    <2>2. UNCHANGED <<n, world>>
        BY <2>1 DEF Next, vars
    <2>3. Ranks' = Ranks /\ RowsFit' = RowsFit
        BY <1>2, <2>2 DEF Ranks, RowsFit, Matrices
    <2>4. /\ BlockTypes'
          /\ \A s \in Ranks : (Position(s) /\ Holds(s) /\ Worked(s))'
          /\ Answered'
        <3>1. CASE UNCHANGED vars
            <4>1. /\ Settled
                  /\ UNCHANGED <<pc, calls, exitCode, haveB, slice, part, answer>>
                BY <3>1 DEF vars, worldVars, blockVars, loopVars, Settled
            <4>2. \A s \in Ranks : (Position(s) /\ Holds(s) /\ Worked(s))'
                BY <2>1, <4>1, RankStays DEF Underway
            <4>3. /\ Matrices' = Matrices /\ ScatterCall' = ScatterCall
                  /\ Elements' = Elements /\ Expected' = Expected /\ Exact' = Exact
                BY <4>1, TablesStay
            <4>4. BlockTypes'
                BY <2>1, <2>3, <4>1 DEF Underway, BlockTypes
            <4>5. Answered'
                BY <2>1, <2>3, <4>1, <4>3 DEF Underway, Answered
            <4> QED
                BY <4>2, <4>4, <4>5
        <3>2. CASE Next
            <4>1. PICK r \in Ranks : BlockProceed(r) \/ AllocationFails(r)
                BY <2>1, <3>2 DEF Next, BlockNext
            <4> QED
                BY <1>2, <2>1, <2>2, <4>1, BlockMoves
        <3> QED
            BY <3>1, <3>2
    <2>5. RowsFit'
        BY <2>1, <2>3 DEF Underway
    <2> QED
        BY <2>3, <2>4, <2>5
<1> QED
    BY <1>1, <1>2, <1>3 DEF BlockInv

\* Each rank of distributed-sum and of matrix-multiply holds, after every call,
\* what the tables say, killed ranks included, and the root's answer is made of
\* that.
THEOREM BlockInvariance == Spec => []BlockInv
BY BlockStart, BlockStep, PTL DEF Spec

\* What the root has when it exits.
LEMMA RootHasExited ==
    ASSUME BlockInv, BlockProgram, At(Root, "exited")
    PROVE  /\ Elements <= IntMax => exitCode = [r \in Ranks |-> 0]
           /\ Elements <= IntMax \/ exitCode[Root] = 0 => Right
<1>1. Underway
    BY DEF BlockInv, BlockProgram, PlaysBall, Underway
<1>2. Root \in Ranks
    BY <1>1 DEF Underway, IInv, Types, Root, Ranks
<1>3. calls[Root] = ScatterCall + 2 /\ next = world /\ ScatterCall \in {2, 3}
    <2>1. Position(Root)
        BY <1>1, <1>2 DEF Underway
    <2>2. calls[Root] = ScatterCall + 2 /\ ScatterCall \in {2, 3}
        BY <2>1, CallsKnown
    <2>3. calls[Root] > 0
        BY <2>2
    <2> QED
        BY <2>1, <2>2, <2>3 DEF Position
<1>4. Answered
    BY <1>1 DEF Underway
<1>5. /\ \A r \in Ranks : calls[r] > ScatterCall
      /\ Elements <= IntMax => exitCode[Root] = 0
      /\ exitCode[Root] = 0 =>
             IF Matrices THEN answer = [e \in 1 .. Elements |-> e]
             ELSE answer = Expected /\ Exact
    BY <1>3, <1>4 DEF Answered
<1>6. ASSUME exitCode[Root] = 0 PROVE Right
    <2>1. CASE Matrices
        BY <1>5, <1>6, <2>1 DEF Right
    <2>2. CASE ~Matrices
        <3>1. Exact /\ answer = Expected /\ Elements = n /\ IInv /\ RowsFit
            BY <1>1, <1>5, <1>6, <2>2, UnitsOfElements DEF Underway, IInv, Types, UnitSize
        <3>2. ASSUME NEW r \in Ranks PROVE slice[r] = BlockOf(r)
            <4>1. Holds(r) /\ calls[r] > ScatterCall /\ calls[r] \in Nat
                BY <1>1, <1>5 DEF Underway, BlockTypes
            <4>2. calls[r] > 0
                BY <1>3, <4>1
            <4> QED
                BY <4>1, <4>2 DEF Holds
        <3>3. \A e \in 1 .. n : Cardinality({p \in Places : slice[p[1]][p[2]] = e}) = 1
            BY <1>3, <3>1, <3>2, EachElementOnce
        <3> QED
            BY <2>2, <3>1, <3>3 DEF Right
    <2> QED
        BY <2>1, <2>2
<1>7. ASSUME Elements <= IntMax PROVE exitCode = [r \in Ranks |-> 0]
    <2>1. \A r \in Ranks : exitCode[r] = 0
        BY <1>4, <1>5, <1>7 DEF Answered
    <2> QED
        BY <1>1, <2>1 DEF Underway, BlockTypes
<1> QED
    BY <1>5, <1>6, <1>7

\* No call is refused while all sizes fit an int.
LEMMA NothingIsRefused ==
    ASSUME BlockInv, BlockProgram, Elements <= IntMax, NEW r \in Ranks
    PROVE  ~Refused(r)
<1>1. Underway
    BY DEF BlockInv, BlockProgram, PlaysBall, Underway
<1>2. Elements \in Nat /\ ToInt(Elements) = Elements
    BY <1>1, UnitsOfElements, SizesAsInt DEF Underway, IInv
<1>3. ASSUME At(r, "scatterv"), NEW s \in Ranks PROVE ~(Counts(s) < 0)
    <2>1. Position(r) /\ IInv
        BY <1>1 DEF Underway
    <2>2. calls[r] = ScatterCall /\ ScatterCall \in {2, 3}
        BY <1>3, <2>1, CallsKnown
    <2>3. calls[r] > 0
        BY <2>2
    <2>4. next = world
        BY <2>1, <2>3 DEF Position
    <2>5. Counts(s) = Length(s) /\ Length(s) \in Nat
        BY <2>1, <2>4, CastBlocks, BlocksEnd
    <2> QED
        BY <2>5
<1>4. ~(ToInt(Elements) < 0)
    BY <1>2
<1>5. (IF r = Root THEN Ranks ELSE {r}) \subseteq Ranks
    OBVIOUS
<1> QED
    BY <1>3, <1>4, <1>5 DEF Refused

\* While the elements can be counted by an int, the two programs give the right
\* answer for every number of ranks and every n: no call is refused, and a run
\* that nobody aborts for memory exits with 0 everywhere, its root with the whole
\* product or with a sum to which each element has come once.
THEOREM AnswersAreIndependent == Spec => []AnswerIndependentOfRanks
<1>1. BlockInv => AnswerIndependentOfRanks
    BY RootHasExited, NothingIsRefused DEF AnswerIndependentOfRanks
<1> QED
    BY <1>1, BlockInvariance, PTL

\* And whatever the sizes, when casts to int have spoilt counts or places, exit
\* code 0 of the root vouches for the answer: the one corner that is recomputed
\* for all of the product, the closed form for every element of the array.
THEOREM SuccessVouches == Spec => []SuccessIsRight
<1>1. BlockInv => SuccessIsRight
    BY RootHasExited DEF SuccessIsRight
<1> QED
    BY <1>1, BlockInvariance, PTL

-----------------------------------------------------------------------------
(* The cluster that the programs are launched on *)

Conditions == {"absent", "starting", "healthy", "dead"}
Commands == {"require", "count", "build", "truncate", "append", "launched", "died"}

ClusterTypes ==
    /\ node \in [Nodes -> Conditions]
    /\ hostfile \in Seq(Nodes)
    /\ startPc \in {"up", "list", "inspect", "ready", "died"}
    /\ wanted \in Nodes
    /\ ids \in Seq(Nodes)
    /\ total \in 0 .. Len(ids)
    /\ ready \in 0 .. total
    /\ clock \in Nat
    /\ scriptPc \in [Runs -> Commands]
    /\ ranks \in [Runs -> Nat]
    /\ ips \in [Runs -> Seq(Nodes)]
    /\ count \in [Runs -> Nat]
    /\ hosts \in [Runs -> Seq(Nodes)]
    /\ changes \in Nat
    /\ mixed \in SUBSET Runs
    /\ afterReady \in SUBSET Runs

\* A run that nobody disturbs finds in the host file the lines it has written.
Written(u) ==
    /\ scriptPc[u] \in {"require", "count", "build", "truncate"} => count[u] = 0
    /\ count[u] <= Len(ips[u])
    /\ \A a, b \in DOMAIN ips[u] : a < b => ips[u][a] < ips[u][b]
    /\ scriptPc[u] = "append" /\ u \notin mixed =>
           /\ Len(hostfile) = count[u]
           /\ \A m \in 1 .. count[u] : hostfile[m] = ips[u][m]
    /\ Undisturbed(u) => hosts[u] = ips[u] /\ count[u] = Len(ips[u])

AllWritten == \A u \in Runs : Written(u)

\* The nodes that were asked for, in order.
WantedNodes == [k \in 1 .. wanted |-> k]

\* As long as nobody changes the cluster it has just the nodes asked for.
AsWanted ==
    changes = 0 /\ startPc # "up" =>
        \A k \in Nodes : node[k] \in IF k <= wanted THEN {"starting", "healthy"}
                                                     ELSE {"absent"}

\* What a round of the wait has found still holds.
RoundStands ==
    changes = 0 /\ startPc = "inspect" =>
        /\ ids = WantedNodes
        /\ ready = total => \A k \in 1 .. total : node[k] = "healthy"

ReadyStands ==
    changes = 0 /\ startPc = "ready" => \A k \in 1 .. wanted : node[k] = "healthy"

LateRun(u) ==
    /\ startPc = "ready"
    /\ changes = 0 /\ scriptPc[u] \in {"truncate", "append", "launched"} =>
           ips[u] = WantedNodes

LateRuns == \A u \in afterReady : LateRun(u)

Waited == AsWanted /\ RoundStands /\ ReadyStands /\ LateRuns

ClusterInv == ClusterTypes /\ AllWritten /\ Waited

-----------------------------------------------------------------------------
(* The listings of the nodes *)

LEMMA Mirror ==
    ASSUME NEW w \in Nat, NEW m \in Int, NEW v \in 1 .. w, v > w - m
    PROVE  w - v \in 0 .. w - 1 /\ w - (w - v) = v /\ w - v < m
OBVIOUS

\* An ascending list of the numbers up to w, of that length, has each in its
\* place: the first too small would be below its predecessor, and w minus the
\* last too large is a least one too.
LEMMA AscendingIsIdentity ==
    ASSUME NEW w \in Nat, NEW s \in [1 .. w -> 1 .. w],
           \A a, b \in 1 .. w : a < b => s[a] < s[b]
    PROVE  s = [k \in 1 .. w |-> k]
<1>1. \A k \in 1 .. w : s[k] >= k
    <2> DEFINE Low == {k \in 1 .. w : s[k] < k}
    <2> SUFFICES ASSUME Low # {} PROVE FALSE
        <3>1. \A k \in 1 .. w : s[k] \in Int /\ k \in Int
            OBVIOUS
        <3> QED
            BY <3>1
    <2>1. Low \in SUBSET Nat
        OBVIOUS
    <2>2. PICK k \in Low : \A o \in Low : k <= o
        <3> HIDE DEF Low
        <3> QED
            BY <2>1, LeastNatural
    <2>3. k \in 1 .. w /\ s[k] \in 1 .. w /\ s[k] < k
        OBVIOUS
    <2>4. s[k] \in 1 .. w /\ s[s[k]] \in 1 .. w /\ s[s[k]] < s[k]
        BY <2>3
    <2>5. s[k] \in Low
        BY <2>4
    <2> QED
        BY <2>2, <2>3, <2>5
<1>2. \A k \in 1 .. w : s[k] <= k
    <2> DEFINE High == {m \in 0 .. w - 1 : s[w - m] > w - m}
    <2> SUFFICES ASSUME High # {} PROVE FALSE
        <3> SUFFICES ASSUME NEW k \in 1 .. w, s[k] > k PROVE High # {}
            <4>1. \A k \in 1 .. w : s[k] \in Int /\ k \in Int
                OBVIOUS
            <4> QED
                BY <4>1
        <3>1. w - k \in 0 .. w - 1 /\ w - (w - k) = k
            OBVIOUS
        <3> QED
            BY <3>1
    <2>1. High \in SUBSET Nat
        OBVIOUS
    <2>2. PICK m \in High : \A o \in High : m <= o
        <3> HIDE DEF High
        <3> QED
            BY <2>1, LeastNatural
    <2> DEFINE k == w - m
    <2>3. m \in 0 .. w - 1 /\ k \in 1 .. w /\ s[k] \in 1 .. w /\ s[k] > k
        OBVIOUS
    <2>4. s[s[k]] \in 1 .. w /\ s[s[k]] > s[k]
        BY <2>3
    <2> DEFINE o == w - s[k]
    <2>5. o \in 0 .. w - 1 /\ w - o = s[k] /\ o < m
        <3>1. m \in Int
            BY <2>3
        <3>2. s[k] \in 1 .. w /\ s[k] > w - m
            BY <2>3
        <3>3. PICK v \in 1 .. w : v = s[k] /\ v > w - m
            BY <3>2
        <3>4. w - v \in 0 .. w - 1 /\ w - (w - v) = v /\ w - v < m
            BY <3>1, <3>3, Mirror
        <3>5. o = w - v
            BY <3>3
        <3> HIDE DEF o, k
        <3> QED
            BY <3>3, <3>4, <3>5
    <2>6. o \in High
        <3> HIDE DEF k, o
        <3> QED
            BY <2>4, <2>5
    <2>7. o \in Int /\ m \in Int
        BY <2>5, <2>3
    <2> HIDE DEF High, k, o
    <2> QED
        BY <2>2, <2>5, <2>6, <2>7
<1>3. \A k \in 1 .. w : s[k] = k
    <2>1. \A k \in 1 .. w : s[k] \in Int /\ k \in Int
        OBVIOUS
    <2> QED
        BY <1>1, <1>2, <2>1
<1> QED
    BY <1>3

LEMMA RunningIsFinite == IsFiniteSet(Running) /\ Cardinality(Running) \in Nat
<1>1. IsFiniteSet(Nodes)
    BY FS_Interval, NodesAssumption DEF Nodes
<1>2. Running \subseteq Nodes
    BY DEF Running
<1> QED
    BY <1>1, <1>2, FS_Subset, FS_CardinalityType

LEMMA ListingIsAscending ==
    ASSUME NEW listing \in Listings
    PROVE  /\ listing \in Seq(Nodes)
           /\ \A a, b \in DOMAIN listing : a < b => listing[a] < listing[b]
<1>1. /\ listing \in [1 .. Cardinality(Running) -> Running]
      /\ \A a, b \in DOMAIN listing : a < b => listing[a] < listing[b]
    BY DEF Listings
<1>2. listing \in [1 .. Cardinality(Running) -> Nodes]
    BY <1>1 DEF Running
<1> QED
    BY <1>1, <1>2, RunningIsFinite

LEMMA ListingOfWanted ==
    ASSUME ClusterTypes, AsWanted, changes = 0, startPc # "up",
           NEW listing \in Listings
    PROVE  listing = WantedNodes
<1>1. wanted \in Nat /\ wanted \in Nodes
    BY NodesAssumption DEF ClusterTypes, Nodes
<1>2. Running = 1 .. wanted
    <2>1. ASSUME NEW k \in Nodes PROVE k \in Running <=> k <= wanted
        BY DEF Running, AsWanted
    <2>2. \A k : k \in 1 .. wanted <=> k \in Nodes /\ k <= wanted
        BY <1>1, NodesAssumption DEF Nodes
    <2>3. Running \subseteq Nodes
        BY DEF Running
    <2> QED
        BY <2>1, <2>2, <2>3
<1>3. Cardinality(Running) = wanted
    BY <1>1, <1>2, FS_Interval
<1>4. /\ listing \in [1 .. wanted -> 1 .. wanted]
      /\ \A a, b \in 1 .. wanted : a < b => listing[a] < listing[b]
    BY <1>2, <1>3 DEF Listings
<1> QED
    BY <1>1, <1>4, AscendingIsIdentity DEF WantedNodes

-----------------------------------------------------------------------------
(* The steps of the scripts and of the nodes *)

LEMMA ClusterInitTypes == ClusterInit => ClusterTypes
<1> SUFFICES ASSUME ClusterInit PROVE ClusterTypes
    OBVIOUS
<1>1. node \in [Nodes -> Conditions]
    BY DEF ClusterInit, Conditions
<1>2. hostfile \in Seq(Nodes)
    <2>1. hostfile \in [1 .. MaxNodes -> Nodes]
        BY DEF ClusterInit, Nodes
    <2> QED
        BY <2>1, NodesAssumption
<1>3. ids = <<>> /\ Len(ids) = 0 /\ total = 0 /\ ready = 0
    BY DEF ClusterInit
<1>4. ids \in Seq(Nodes) /\ total \in 0 .. Len(ids) /\ ready \in 0 .. total
    BY <1>3
<1>5. \A e \in {<<>>} : e \in Seq(Nodes)
    OBVIOUS
<1> QED
    BY <1>1, <1>2, <1>4, <1>5 DEF ClusterInit, ClusterTypes, Commands, Default

LEMMA ScaledTypes ==
    ASSUME ClusterTypes, NEW m \in Nat
    PROVE  Scaled(m) \in [Nodes -> Conditions]
BY DEF ClusterTypes, Scaled, Conditions

\* The cluster and start-cluster.sh leave the invocations of run-mpi.sh alone.
LEMMA OthersKeepTypes ==
    ASSUME ClusterTypes,
           \/ \E k \in Nodes : BecomesHealthy(k) \/ NodeDies(k)
           \/ \E m \in 0 .. MaxNodes : SomebodyScales(m)
           \/ StartStep
    PROVE  ClusterTypes' /\ UNCHANGED <<hostfile, runVars>>
<1>1. ASSUME NEW k \in Nodes, BecomesHealthy(k) \/ NodeDies(k)
      PROVE  ClusterTypes' /\ UNCHANGED <<hostfile, runVars>>
    <2>1. \/ node' = [node EXCEPT ![k] = "healthy"]
          \/ node' = [node EXCEPT ![k] = "dead"]
        BY <1>1 DEF BecomesHealthy, NodeDies
    <2>2. node' \in [Nodes -> Conditions]
        BY <2>1 DEF ClusterTypes, Conditions
    <2>3. changes' \in Nat
        BY <1>1 DEF BecomesHealthy, NodeDies, ClusterTypes
    <2>4. UNCHANGED <<hostfile, startVars, runVars>>
        BY <1>1 DEF BecomesHealthy, NodeDies
    <2> QED
        BY <2>2, <2>3, <2>4 DEF ClusterTypes, startVars, runVars
<1>2. ASSUME NEW m \in 0 .. MaxNodes, SomebodyScales(m)
      PROVE  ClusterTypes' /\ UNCHANGED <<hostfile, runVars>>
    <2>1. node' \in [Nodes -> Conditions]
        BY <1>2, ScaledTypes DEF SomebodyScales
    <2> QED
        BY <1>2, <2>1 DEF SomebodyScales, ClusterTypes, startVars, runVars
<1>3. CASE Up
    <2>1. node' \in [Nodes -> Conditions]
        BY <1>3, ScaledTypes DEF Up, ClusterTypes, Nodes
    <2> QED
        BY <1>3, <2>1 DEF Up, ClusterTypes, runVars
<1>4. CASE List
    <2>1. ids' \in Seq(Nodes)
        BY <1>4, ListingIsAscending DEF List
    <2>2. total' = 0 /\ ready' = 0 /\ Len(ids') \in Nat
        BY <1>4, <2>1 DEF List
    <2>3. total' \in 0 .. Len(ids') /\ ready' \in 0 .. total'
        BY <2>2
    <2> QED
        BY <1>4, <2>1, <2>3 DEF List, ClusterTypes, runVars
<1>5. CASE Inspect
    <2>1. ids' = ids /\ ids \in Seq(Nodes) /\ total \in 0 .. Len(ids) /\ ready \in 0 .. total
        BY <1>5 DEF Inspect, ClusterTypes
    <2>2. Len(ids) \in Nat
        BY <2>1
    <2>3. total' = total + 1 /\ total < Len(ids) /\ (ready' = ready \/ ready' = ready + 1)
        BY <1>5 DEF Inspect
    <2>4. total' \in 0 .. Len(ids') /\ ready' \in 0 .. total'
        BY <2>1, <2>2, <2>3
    <2> QED
        BY <1>5, <2>1, <2>4 DEF Inspect, ClusterTypes, runVars
<1>6. CASE Judge
    <2>1. clock' \in Nat
        BY <1>6 DEF Judge, ClusterTypes
    <2>2. startPc' \in {"ready", "died", "list"}
        BY <1>6 DEF Judge
    <2> QED
        BY <1>6, <2>1, <2>2 DEF Judge, ClusterTypes, runVars
<1> QED
    BY <1>1, <1>2, <1>3, <1>4, <1>5, <1>6 DEF StartStep

\* Where a command leads to.
LEMMA GoesToTypes ==
    ASSUME ClusterTypes, NEW u \in Runs, NEW label \in Commands, GoesTo(u, label)
    PROVE  /\ scriptPc' \in [Runs -> Commands]
           /\ scriptPc'[u] = label
           /\ \A v \in Runs \ {u} : scriptPc'[v] = scriptPc[v]
BY DEF ClusterTypes, GoesTo

LEMMA RunKeepsTypes ==
    ASSUME ClusterTypes, NEW u \in Runs, RunStep(u) \/ BuildFails(u)
    PROVE  ClusterTypes' /\ UNCHANGED <<node, startVars, changes>>
<1>1. CASE Require(u)
    <2>1. scriptPc' \in [Runs -> Commands]
        BY <1>1, GoesToTypes DEF Require, Commands
    <2>2. afterReady' \in SUBSET Runs
        BY <1>1 DEF Require, ClusterTypes
    <2> QED
        BY <1>1, <2>1, <2>2 DEF Require, ClusterTypes, startVars
<1>2. CASE Count(u)
    <2>1. scriptPc' \in [Runs -> Commands]
        BY <1>2, GoesToTypes DEF Count, Commands
    <2>2. ranks' \in [Runs -> Nat]
        BY <1>2, RunningIsFinite, RanksAssumption DEF Count, ClusterTypes
    <2> QED
        BY <1>2, <2>1, <2>2 DEF Count, ClusterTypes, startVars
<1>3. CASE LookUp(u)
    <2>1. scriptPc' \in [Runs -> Commands]
        BY <1>3, GoesToTypes DEF LookUp, Commands
    <2>2. ips' \in [Runs -> Seq(Nodes)]
        BY <1>3, ListingIsAscending DEF LookUp, ClusterTypes
    <2> QED
        BY <1>3, <2>1, <2>2 DEF LookUp, ClusterTypes, startVars
<1>4. CASE Truncate(u)
    <2>1. scriptPc' \in [Runs -> Commands]
        BY <1>4, GoesToTypes DEF Truncate, Commands
    <2>2. hostfile' \in Seq(Nodes)
        BY <1>4 DEF Truncate, NoLines
    <2>3. mixed' \in SUBSET Runs
        BY <1>4 DEF Truncate, Disturb, ClusterTypes
    <2> QED
        BY <1>4, <2>1, <2>2, <2>3 DEF Truncate, ClusterTypes, startVars
<1>5. CASE AppendLine(u)
    <2>1. ips[u] \in Seq(Nodes) /\ count[u] \in Nat /\ count[u] < Len(ips[u])
        BY <1>5 DEF AppendLine, ClusterTypes
    <2>2. Len(ips[u]) \in Nat
        BY <2>1
    <2>3. count[u] + 1 \in 1 .. Len(ips[u]) /\ count[u] + 1 \in Nat
        BY <2>1, <2>2
    <2>4. ips[u][count[u] + 1] \in Nodes
        BY <2>1, <2>3
    <2>5. hostfile' \in Seq(Nodes)
        BY <1>5, <2>4 DEF AppendLine, ClusterTypes
    <2>6. count' \in [Runs -> Nat]
        BY <1>5, <2>3 DEF AppendLine, ClusterTypes
    <2>7. mixed' \in SUBSET Runs
        BY <1>5 DEF AppendLine, Disturb, ClusterTypes
    <2> QED
        BY <1>5, <2>5, <2>6, <2>7 DEF AppendLine, ClusterTypes, startVars
<1>6. CASE Launch(u)
    <2>1. scriptPc' \in [Runs -> Commands]
        BY <1>6, GoesToTypes DEF Launch, Commands
    <2>2. hosts' \in [Runs -> Seq(Nodes)]
        BY <1>6 DEF Launch, ClusterTypes
    <2> QED
        BY <1>6, <2>1, <2>2 DEF Launch, ClusterTypes, startVars
<1>7. CASE HeadGone(u) \/ BuildFails(u)
    <2>1. scriptPc' \in [Runs -> Commands]
        BY <1>7, GoesToTypes DEF HeadGone, BuildFails, Commands
    <2> QED
        BY <1>7, <2>1 DEF HeadGone, BuildFails, ClusterTypes, startVars
<1> QED
    BY <1>1, <1>2, <1>3, <1>4, <1>5, <1>6, <1>7 DEF RunStep

\* An invocation keeps what is its own when another takes a step, and is
\* noted when the other writes to the host file it is writing.
LEMMA Apart ==
    ASSUME ClusterTypes, NEW u \in Runs, NEW v \in Runs, u # v,
           RunStep(v) \/ BuildFails(v)
    PROVE  /\ scriptPc'[u] = scriptPc[u] /\ ips'[u] = ips[u]
           /\ count'[u] = count[u] /\ hosts'[u] = hosts[u]
           /\ u \in mixed => u \in mixed'
           /\ hostfile' = hostfile \/ (scriptPc[u] = "append" => u \in mixed')
<1>1. CASE Require(v)
    BY <1>1 DEF Require, GoesTo, ClusterTypes
<1>2. CASE Count(v)
    BY <1>2 DEF Count, GoesTo, ClusterTypes
<1>3. CASE LookUp(v)
    BY <1>3 DEF LookUp, GoesTo, ClusterTypes
<1>4. CASE Truncate(v)
    BY <1>4 DEF Truncate, Disturb, GoesTo, ClusterTypes
<1>5. CASE AppendLine(v)
    BY <1>5 DEF AppendLine, Disturb, ClusterTypes
<1>6. CASE Launch(v)
    BY <1>6 DEF Launch, GoesTo, ClusterTypes
<1>7. CASE HeadGone(v) \/ BuildFails(v)
    BY <1>7 DEF HeadGone, BuildFails, GoesTo, ClusterTypes
<1> QED
    BY <1>1, <1>2, <1>3, <1>4, <1>5, <1>6, <1>7 DEF RunStep

\* The one step of an invocation that lists or writes.
LEMMA OwnStepWrites ==
    ASSUME ClusterTypes, NEW u \in Runs, Written(u), RunStep(u) \/ BuildFails(u)
    PROVE  Written(u)'
<1>0. /\ ips[u] \in Seq(Nodes) /\ count[u] \in Nat /\ hosts[u] \in Seq(Nodes)
      /\ hostfile \in Seq(Nodes)
    BY DEF ClusterTypes
<1>n. Len(ips[u]) \in Nat /\ Len(hostfile) \in Nat
    BY <1>0
<1>1. CASE Require(u)
    <2>1. scriptPc'[u] \in {"died", "count"} /\ scriptPc[u] = "require"
        BY <1>1 DEF Require, GoesTo, ClusterTypes
    <2> QED
        BY <1>1, <2>1 DEF Require, Written, Undisturbed
<1>2. CASE Count(u)
    <2>1. scriptPc'[u] \in {"died", "build"} /\ scriptPc[u] = "count"
        BY <1>2 DEF Count, GoesTo, ClusterTypes
    <2> QED
        BY <1>2, <2>1 DEF Count, Written, Undisturbed
<1>3. CASE LookUp(u)
    <2>1. scriptPc'[u] = "truncate" /\ scriptPc[u] = "build" /\ ips'[u] \in Listings
        BY <1>3 DEF LookUp, OnHead, GoesTo, ClusterTypes
    <2>2. /\ ips'[u] \in Seq(Nodes)
          /\ \A a, b \in DOMAIN ips'[u] : a < b => ips'[u][a] < ips'[u][b]
        BY <2>1, ListingIsAscending
    <2>3. Len(ips'[u]) \in Nat
        BY <2>2
    <2>4. count'[u] = 0 /\ count'[u] <= Len(ips'[u])
        BY <1>3, <2>1, <2>3 DEF LookUp, Written
    <2> QED
        BY <2>1, <2>2, <2>4 DEF Written, Undisturbed
<1>4. CASE Truncate(u)
    <2>1. scriptPc'[u] = "append" /\ scriptPc[u] = "truncate"
        BY <1>4 DEF Truncate, OnHead, GoesTo, ClusterTypes
    <2>2. count'[u] = 0 /\ hostfile' = <<>> /\ ips' = ips /\ count' = count
        BY <1>4, <2>1 DEF Truncate, NoLines, Written
    <2>3. Len(hostfile') = 0 /\ 1 .. count'[u] = {}
        BY <2>2
    <2> QED
        BY <2>1, <2>2, <2>3 DEF Written, Undisturbed
<1>5. CASE AppendLine(u)
    <2>1. /\ scriptPc'[u] = "append" /\ scriptPc[u] = "append" /\ ips' = ips
          /\ count'[u] = count[u] + 1 /\ count[u] < Len(ips[u])
          /\ hostfile' = Append(hostfile, ips[u][count[u] + 1])
          /\ u \notin mixed' => u \notin mixed
        BY <1>5 DEF AppendLine, OnHead, ClusterTypes, Disturb
    <2>2. count'[u] <= Len(ips'[u])
        BY <1>0, <1>n, <2>1
    <2>3. ASSUME u \notin mixed'
          PROVE  /\ Len(hostfile') = count'[u]
                 /\ \A m \in 1 .. count'[u] : hostfile'[m] = ips'[u][m]
        <3>1. /\ Len(hostfile) = count[u]
              /\ \A m \in 1 .. count[u] : hostfile[m] = ips[u][m]
            BY <2>1, <2>3 DEF Written
        <3>2. Len(hostfile') = count'[u]
            BY <1>0, <2>1, <3>1
        <3>3. ASSUME NEW m \in 1 .. count'[u] PROVE hostfile'[m] = ips[u][m]
            <4>1. hostfile'[count[u] + 1] = ips[u][count[u] + 1]
                BY <1>0, <2>1, <3>1
            <4>2. m = count[u] + 1 \/ m \in 1 .. count[u]
                BY <1>0, <2>1
            <4>3. ASSUME m \in 1 .. count[u] PROVE hostfile'[m] = hostfile[m]
                BY <1>0, <2>1, <3>1, <4>3
            <4> QED
                BY <3>1, <4>1, <4>2, <4>3
        <3> QED
            BY <2>1, <3>2, <3>3
    <2> QED
        BY <2>1, <2>2, <2>3 DEF Written, Undisturbed
<1>6. CASE Launch(u)
    <2>1. /\ scriptPc'[u] = "launched" /\ scriptPc[u] = "append"
          /\ count[u] = Len(ips[u])
          /\ hosts'[u] = hostfile /\ ips' = ips /\ count' = count /\ mixed' = mixed
        BY <1>6 DEF Launch, OnHead, GoesTo, ClusterTypes
    <2>2. ASSUME u \notin mixed PROVE hostfile = ips[u]
        <3>1. /\ Len(hostfile) = Len(ips[u])
              /\ \A m \in 1 .. Len(ips[u]) : hostfile[m] = ips[u][m]
            BY <2>1, <2>2 DEF Written
        <3> QED
            BY <1>0, <3>1
    <2> QED
        BY <2>1, <2>2 DEF Written, Undisturbed
<1>7. CASE HeadGone(u) \/ BuildFails(u)
    <2>1. scriptPc'[u] = "died"
        BY <1>7 DEF HeadGone, BuildFails, GoesTo, ClusterTypes
    <2>2. ips' = ips /\ count' = count
        BY <1>7 DEF HeadGone, BuildFails
    <2> QED
        BY <2>1, <2>2 DEF Written, Undisturbed
<1> QED
    BY <1>1, <1>2, <1>3, <1>4, <1>5, <1>6, <1>7 DEF RunStep

LEMMA RunKeepsWritten ==
    ASSUME ClusterTypes, AllWritten, NEW v \in Runs, RunStep(v) \/ BuildFails(v)
    PROVE  AllWritten'
<1> SUFFICES ASSUME NEW u \in Runs PROVE Written(u)'
    BY DEF AllWritten
<1>1. Written(u)
    BY DEF AllWritten
<1>2. CASE u = v
    BY <1>1, <1>2, OwnStepWrites
<1>3. CASE u # v
    <2>1. /\ scriptPc'[u] = scriptPc[u] /\ ips'[u] = ips[u]
          /\ count'[u] = count[u] /\ hosts'[u] = hosts[u]
          /\ u \in mixed => u \in mixed'
          /\ hostfile' = hostfile \/ (scriptPc[u] = "append" => u \in mixed')
        BY <1>3, Apart
    <2> QED
        BY <1>1, <2>1 DEF Written, Undisturbed
<1> QED
    BY <1>2, <1>3

LEMMA OthersKeepWritten ==
    ASSUME AllWritten, UNCHANGED <<hostfile, runVars>>
    PROVE  AllWritten'
BY DEF AllWritten, Written, Undisturbed, runVars

\* A round of the wait: the listing names the nodes asked for, and what has
\* been seen healthy stays so as long as nobody changes the cluster.
LEMMA StartKeepsWaited ==
    ASSUME ClusterTypes, ClusterTypes', Waited, StartStep
    PROVE  Waited'
<1>0. /\ wanted' = wanted /\ changes' = changes /\ ips' = ips
      /\ scriptPc' = scriptPc /\ afterReady' = afterReady
    BY DEF StartStep, Up, List, Inspect, Judge, runVars
<1>w. wanted \in Nat /\ 1 .. wanted \subseteq Nodes /\ WantedNodes' = WantedNodes
    BY <1>0, NodesAssumption DEF ClusterTypes, Nodes, WantedNodes
<1>1. startPc # "ready" /\ afterReady = {} /\ LateRuns'
    <2>1. startPc # "ready"
        BY DEF StartStep, Up, List, Inspect, Judge
    <2>2. afterReady = {}
        BY <2>1 DEF Waited, LateRuns, LateRun
    <2> QED
        BY <1>0, <2>1, <2>2 DEF LateRuns
<1>2. CASE Up
    <2>1. startPc' = "list" /\ node' = Scaled(wanted)
        BY <1>2 DEF Up
    <2>2. AsWanted'
        <3>1. ASSUME NEW k \in Nodes
              PROVE  node'[k] \in IF k <= wanted THEN {"starting", "healthy"}
                                                 ELSE {"absent"}
            <4>1. k > wanted <=> ~(k <= wanted)
                BY <1>w DEF Nodes
            <4>2. node'[k] = IF k > wanted THEN "absent"
                             ELSE IF k \in Running THEN node[k] ELSE "starting"
                BY <2>1 DEF Scaled
            <4> QED
                BY <4>1, <4>2 DEF Running
        <3> QED
            BY <1>0, <3>1 DEF AsWanted
    <2> QED
        BY <1>1, <2>1, <2>2 DEF Waited, RoundStands, ReadyStands
<1>3. CASE List
    <2>1. /\ startPc' = "inspect" /\ startPc = "list" /\ node' = node
          /\ ids' \in Listings /\ total' = 0
        BY <1>3 DEF List
    <2>2. AsWanted'
        BY <1>0, <2>1 DEF AsWanted, Waited
    <2>3. changes = 0 => ids' = WantedNodes
        BY <2>1, ListingOfWanted DEF Waited
    <2>4. 1 .. total' = {}
        BY <2>1
    <2> QED
        BY <1>0, <1>1, <1>w, <2>1, <2>2, <2>3, <2>4 DEF Waited, RoundStands, ReadyStands
<1>4. CASE Inspect
    <2>1. /\ startPc' = "inspect" /\ startPc = "inspect" /\ node' = node
          /\ ids' = ids /\ total' = total + 1 /\ total < Len(ids)
          /\ ready' = IF node[ids[total']] = "healthy" THEN ready + 1 ELSE ready
        BY <1>4 DEF Inspect
    <2>2. AsWanted'
        BY <1>0, <2>1 DEF AsWanted, Waited
    <2>3. ready \in Int /\ total \in Nat /\ ready <= total
        <3>1. ids \in Seq(Nodes) /\ total \in 0 .. Len(ids) /\ ready \in 0 .. total
            BY DEF ClusterTypes
        <3>2. Len(ids) \in Nat
            BY <3>1
        <3> QED
            BY <3>1, <3>2
    <2>4. ASSUME changes = 0, ready' = total'
          PROVE  \A k \in 1 .. total' : node[k] = "healthy"
        <3>1. ids = WantedNodes
            BY <2>1, <2>4 DEF Waited, RoundStands
        <3>2. Len(ids) = wanted
            BY <1>w, <3>1 DEF WantedNodes
        <3>3. total + 1 \in 1 .. wanted /\ ids[total + 1] = total + 1
            BY <1>w, <2>1, <2>3, <3>1, <3>2 DEF WantedNodes
        <3>4. ready = total /\ node[ids[total + 1]] = "healthy"
            BY <2>1, <2>3, <2>4
        <3>5. \A k \in 1 .. total : node[k] = "healthy"
            BY <2>1, <2>4, <3>4 DEF Waited, RoundStands
        <3>6. \A k \in 1 .. total' : k \in 1 .. total \/ k = total + 1
            BY <2>1, <2>3
        <3> QED
            BY <3>3, <3>4, <3>5, <3>6
    <2>5. RoundStands'
        BY <1>0, <1>w, <2>1, <2>4 DEF Waited, RoundStands
    <2> QED
        BY <1>1, <2>1, <2>2, <2>5 DEF Waited, ReadyStands
<1>5. CASE Judge
    <2>1. /\ startPc = "inspect" /\ startPc' \in {"ready", "died", "list"}
          /\ node' = node /\ ids' = ids /\ total' = total /\ ready' = ready
          /\ startPc' = "ready" => total = wanted /\ ready = wanted
        BY <1>5 DEF Judge, AllReady
    <2>2. AsWanted'
        BY <1>0, <2>1 DEF AsWanted, Waited
    <2>3. ReadyStands'
        BY <1>0, <2>1 DEF Waited, RoundStands, ReadyStands
    <2> QED
        BY <1>1, <2>1, <2>2, <2>3 DEF Waited, RoundStands
<1> QED
    BY <1>2, <1>3, <1>4, <1>5 DEF StartStep

\* A change by others takes every claim back; a node that becomes healthy
\* takes none.
LEMMA ChangesKeepWaited ==
    ASSUME ClusterTypes, Waited,
           \/ \E k \in Nodes : BecomesHealthy(k) \/ NodeDies(k)
           \/ \E m \in 0 .. MaxNodes : SomebodyScales(m)
    PROVE  Waited'
<1>1. ASSUME NEW k \in Nodes, BecomesHealthy(k) PROVE Waited'
    <2>1. /\ UNCHANGED <<startVars, runVars, changes>>
          /\ node' = [node EXCEPT ![k] = "healthy"] /\ node[k] = "starting"
        BY <1>1 DEF BecomesHealthy
    <2>2. node \in [Nodes -> Conditions] /\ wanted \in Nat /\ 1 .. wanted \subseteq Nodes
        BY NodesAssumption DEF ClusterTypes, Nodes
    <2>3. WantedNodes' = WantedNodes
        BY <2>1 DEF WantedNodes, startVars
    <2>4. \A o : node[o] = "healthy" /\ o \in Nodes => node'[o] = "healthy"
        BY <2>1, <2>2
    <2>5. AsWanted'
        BY <2>1, <2>2 DEF Waited, AsWanted, startVars
    <2>6. RoundStands'
        <3>1. ASSUME changes = 0, startPc = "inspect"
              PROVE  1 .. total \subseteq Nodes
            <4>1. Len(ids) = wanted
                BY <2>2, <3>1 DEF Waited, RoundStands, WantedNodes
            <4> QED
                BY <2>2, <4>1 DEF ClusterTypes
        <3> QED
            BY <2>1, <2>3, <2>4, <3>1 DEF Waited, RoundStands, startVars
    <2>7. ReadyStands'
        BY <2>1, <2>2, <2>4 DEF Waited, ReadyStands, startVars
    <2>8. LateRuns'
        BY <2>1, <2>3 DEF Waited, LateRuns, LateRun, startVars, runVars
    <2> QED
        BY <2>5, <2>6, <2>7, <2>8 DEF Waited
<1>2. ASSUME \/ \E k \in Nodes : NodeDies(k)
             \/ \E m \in 0 .. MaxNodes : SomebodyScales(m)
      PROVE  Waited'
    <2>1. changes' = changes + 1 /\ UNCHANGED <<startVars, runVars>>
        BY <1>2 DEF NodeDies, SomebodyScales
    <2>2. changes' # 0
        BY <2>1 DEF ClusterTypes
    <2> QED
        BY <2>1, <2>2
        DEF Waited, AsWanted, RoundStands, ReadyStands, LateRuns, LateRun,
            startVars, runVars
<1> QED
    BY <1>1, <1>2

LEMMA RunKeepsWaited ==
    ASSUME ClusterTypes, Waited, NEW v \in Runs, RunStep(v) \/ BuildFails(v)
    PROVE  Waited'
<1>0. UNCHANGED <<node, startVars, changes>>
    BY RunKeepsTypes
<1>1. WantedNodes' = WantedNodes /\ startPc' = startPc /\ changes' = changes
    BY <1>0 DEF WantedNodes, startVars
<1>2. AsWanted' /\ RoundStands' /\ ReadyStands'
    BY <1>0, <1>1 DEF Waited, AsWanted, RoundStands, ReadyStands, startVars
<1>3. ASSUME NEW u \in afterReady' PROVE LateRun(u)'
    <2>1. u \in Runs /\ (u \in afterReady \/ (startPc = "ready" /\ Require(v) /\ u = v))
        BY <1>3 DEF RunStep, Require, Count, LookUp, Truncate, AppendLine, Launch,
                    HeadGone, BuildFails, ClusterTypes
    <2>2. startPc = "ready"
        BY <2>1 DEF Waited, LateRuns, LateRun
    <2>3. CASE u # v
        <3>1. scriptPc'[u] = scriptPc[u] /\ ips'[u] = ips[u]
            BY <2>1, <2>3, Apart
        <3>2. LateRun(u)
            BY <2>1, <2>3 DEF Waited, LateRuns
        <3> QED
            BY <1>1, <3>1, <3>2 DEF LateRun
    <2>4. CASE Require(u) \/ Count(u) \/ HeadGone(u) \/ BuildFails(u)
        <3>1. scriptPc'[u] \in {"count", "build", "died"}
            BY <2>1, <2>4 DEF Require, Count, HeadGone, BuildFails, GoesTo, ClusterTypes
        <3> QED
            BY <1>1, <2>2, <3>1 DEF LateRun
    <2>5. CASE LookUp(u)
        <3>1. ips'[u] \in Listings
            BY <2>1, <2>5 DEF LookUp, ClusterTypes
        <3>2. changes = 0 => ips'[u] = WantedNodes
            BY <2>2, <3>1, ListingOfWanted DEF Waited
        <3> QED
            BY <1>1, <2>2, <3>2 DEF LateRun
    <2>6. CASE Truncate(u) \/ AppendLine(u) \/ Launch(u)
        <3>1. ~Require(u)
            BY <2>6 DEF Require, Truncate, AppendLine, Launch, OnHead
        <3>2. scriptPc[u] \in {"truncate", "append"} /\ ips' = ips
            BY <2>6 DEF Truncate, AppendLine, Launch, OnHead
        <3>3. LateRun(u)
            BY <2>1, <3>1 DEF Waited, LateRuns
        <3> QED
            BY <1>1, <2>2, <3>2, <3>3 DEF LateRun
    <2> QED
        BY <2>3, <2>4, <2>5, <2>6 DEF RunStep
<1> QED
    BY <1>2, <1>3 DEF Waited, LateRuns

-----------------------------------------------------------------------------
(* What the scripts keep *)

LEMMA ClusterInitInv == ClusterInit => ClusterInv
<1> SUFFICES ASSUME ClusterInit PROVE ClusterInv
    OBVIOUS
<1>1. AllWritten
    <2> SUFFICES ASSUME NEW u \in Runs PROVE Written(u)
        BY DEF AllWritten
    <2>1. scriptPc[u] = "require" /\ count[u] = 0 /\ ips[u] = <<>>
        BY DEF ClusterInit
    <2>2. Len(ips[u]) = 0 /\ DOMAIN ips[u] = {}
        BY <2>1
    <2> QED
        BY <2>1, <2>2 DEF Written, Undisturbed
<1>2. Waited
    BY DEF ClusterInit, Waited, AsWanted, RoundStands, ReadyStands, LateRuns
<1> QED
    BY <1>1, <1>2, ClusterInitTypes DEF ClusterInv

LEMMA ClusterStepInv == ClusterInv /\ [ClusterNext]_clusterVars => ClusterInv'
<1> SUFFICES ASSUME ClusterInv, [ClusterNext]_clusterVars PROVE ClusterInv'
    OBVIOUS
<1> USE DEF ClusterInv
<1>1. CASE \/ \E k \in Nodes : BecomesHealthy(k) \/ NodeDies(k)
           \/ \E m \in 0 .. MaxNodes : SomebodyScales(m)
    BY <1>1, OthersKeepTypes, OthersKeepWritten, ChangesKeepWaited
<1>2. CASE StartStep
    BY <1>2, OthersKeepTypes, OthersKeepWritten, StartKeepsWaited
<1>3. ASSUME NEW u \in Runs, RunStep(u) \/ BuildFails(u) PROVE ClusterInv'
    BY <1>3, RunKeepsTypes, RunKeepsWritten, RunKeepsWaited
<1>4. CASE UNCHANGED clusterVars
    BY <1>4 DEF clusterVars, startVars, runVars, ClusterTypes, AllWritten, Written,
                Undisturbed, Waited, AsWanted, RoundStands, ReadyStands, LateRuns,
                LateRun, WantedNodes
<1> QED
    BY <1>1, <1>2, <1>3, <1>4 DEF ClusterNext

LEMMA ImpliesHostFile == ClusterInv => HostFileIsOfThisRun
BY DEF ClusterInv, AllWritten, Written, HostFileIsOfThisRun

LEMMA ImpliesSlots == ClusterInv => SlotsAgree
BY DEF ClusterInv, AllWritten, Written, SlotsAgree, Oversubscribe, TotalSlots

LEMMA ImpliesReady == ClusterInv => ReadyMeansLaunchable
<1> SUFFICES ASSUME ClusterInv, NEW u \in afterReady, Undisturbed(u), changes = 0
             PROVE  /\ hosts[u] = [k \in 1 .. wanted |-> k]
                    /\ \A k \in 1 .. wanted : node[k] = "healthy"
    BY DEF ReadyMeansLaunchable
<1>1. u \in Runs /\ Written(u)
    BY DEF ClusterInv, ClusterTypes, AllWritten
<1>2. startPc = "ready" /\ ips[u] = WantedNodes
    BY DEF ClusterInv, Waited, LateRuns, LateRun, Undisturbed
<1>3. hosts[u] = ips[u]
    BY <1>1 DEF Written
<1>4. \A k \in 1 .. wanted : node[k] = "healthy"
    BY <1>2 DEF ClusterInv, Waited, ReadyStands
<1> QED
    BY <1>2, <1>3, <1>4 DEF WantedNodes

\* Throughout start-cluster.sh, any number of invocations of run-mpi.sh and
\* whatever happens to the nodes: the host file holds the lines written so far,
\* and what the wait has found stands until somebody changes the cluster.
THEOREM ClusterInvariant == ClusterSpec => []ClusterInv
<1> QED
    BY ClusterInitInv, ClusterStepInv, PTL DEF ClusterSpec

\* make-hostfile.sh: mpirun reads the addresses that this run found, each once
\* and in order, unless another run writes the file before it is launched.
THEOREM HostFileIsFresh == ClusterSpec => []HostFileIsOfThisRun
<1> QED
    BY ClusterInvariant, ImpliesHostFile, PTL

\* run-mpi.sh compares the ranks with the slots of the very host file that
\* mpirun reads, however the nodes have changed since they were counted.
THEOREM SlotsAreThoseOfTheHostFile == ClusterSpec => []SlotsAgree
<1> QED
    BY ClusterInvariant, ImpliesSlots, PTL

\* The loop of start-cluster.sh: once it says that all nodes are ready, a launch
\* has all of them and each is healthy, as long as nobody changes the cluster.
THEOREM ReadyClusterLaunches == ClusterSpec => []ReadyMeansLaunchable
<1> QED
    BY ClusterInvariant, ImpliesReady, PTL

=============================================================================
