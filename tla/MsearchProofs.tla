--------------------------- MODULE MsearchProofs ---------------------------
(***************************************************************************)
(* Proofs about the process lifetime of msearch, for any number of ranks,  *)
(* pictures and objects, any command lines and any placement of the ranks  *)
(* on nodes.  A rank's collective calls are a function of where it is in   *)
(* main and of the command line, which all ranks share; from this follow   *)
(* the agreement of the calls, of the pieces of the problem and, with the  *)
(* verdicts of the runtime, of what is written and returned.               *)
(*                                                                         *)
(* Up to the section on the command line, what the parser makes of it      *)
(* stays open: nothing is assumed of it, not even that the number of       *)
(* repetitions is a number.  That section shows what it does make of it:   *)
(* after any number of arguments the state of the one pass is what these   *)
(* arguments say when they are read as a whole, in any order.              *)
(***************************************************************************)
EXTENDS Msearch, FiniteSetTheorems, WellFoundedInduction, TLAPS

-----------------------------------------------------------------------------
(* The inductive invariant *)

Early == parsed.status # "OK" \/ parsed.action # "none"
Verifies == ~Early /\ config.verify

Labels == {"parse", "split", "read", "prepare", "bcast", "mode", "buffers", "before",
           "runtime", "after", "write", "finalize", "exited", "killed"}
Kinds == {"Split", "Bcast", "Barrier", "Runtime", "Finalize"}

\* The calls made before the first repetition.
Base == LastPiece + 1

\* The kind of the n-th collective call of a rank that comes so far.
KindAt(n) ==
    IF n = 1 THEN IF Early THEN "Finalize" ELSE "Split"
    ELSE IF n <= Base THEN "Bcast"
    ELSE IF Verifies \/ (n - Base - 1) \div 3 = reps THEN "Finalize"
    ELSE IF (n - Base - 1) % 3 = 1 THEN "Runtime" ELSE "Barrier"

TypeOK ==
    /\ pc \in [Ranks -> Labels]
    /\ calls \in [Ranks -> Seq(Kinds)]
    /\ wire \in Seq(Nat)
    /\ problem \in [Ranks -> [Pieces -> Nat]]
    /\ piece \in [Ranks -> 1 .. Base]
    /\ rep \in [Ranks -> Nat]
    /\ exitCode \in [Ranks -> Nat]
    /\ faulted \in BOOLEAN
    /\ verdict \in [Ranks -> {"none", "ok", "failed"}]

\* The calls of rank r, by where it is.
CallsOf(r) ==
    /\ \A n \in 1 .. Len(calls[r]) : calls[r][n] = KindAt(n)
    /\ pc[r] = "parse" => Len(calls[r]) = 0
    /\ pc[r] \in {"split", "read"} => Len(calls[r]) = 1
    /\ pc[r] = "prepare" => Len(calls[r]) = piece[r]
    /\ pc[r] = "bcast" => Len(calls[r]) = piece[r] + 1
    /\ pc[r] \in {"mode", "buffers"} => Len(calls[r]) = Base
    /\ pc[r] = "before" => Len(calls[r]) = Base + 3 * rep[r] - 2
    /\ pc[r] = "runtime" => Len(calls[r]) = Base + 3 * rep[r] - 1
    /\ pc[r] \in {"after", "write"} => Len(calls[r]) = Base + 3 * rep[r]
    /\ pc[r] \in {"finalize", "exited"} =>
           Len(calls[r]) = IF Early THEN 1 ELSE Base + 3 * rep[r] + 1

\* Its way through main.
Progress(r) ==
    /\ Early => pc[r] \in {"parse", "finalize", "exited", "killed"}
    /\ Verifies => pc[r] \notin {"buffers", "before", "runtime", "after", "write"}
    /\ pc[r] \in {"read", "write"} => r = Root
    /\ pc[r] \in {"parse", "split", "read"} => piece[r] = Header
    /\ pc[r] \in {"prepare", "bcast"} => piece[r] <= LastPiece
    /\ pc[r] \in {"mode", "buffers", "before", "runtime", "after", "write"} =>
           piece[r] = Base
    /\ pc[r] \in {"parse", "split", "read", "prepare", "bcast", "mode", "buffers"} =>
           rep[r] = 0
    /\ pc[r] \in {"finalize", "exited"} /\ (Early \/ Verifies) => rep[r] = 0
    /\ pc[r] \in {"before", "runtime"} =>
           rep[r] > 0 /\ rep[r] - 1 # reps /\ verdict[r] = "none"
    /\ pc[r] = "after" => rep[r] > 0 /\ verdict[r] # "none"
    /\ pc[r] \in {"write", "finalize", "exited"} /\ ~Early /\ ~Verifies =>
           rep[r] > 0 /\ rep[r] = reps /\ verdict[r] # "none"
    /\ reps \in Int => rep[r] <= reps

\* The code it would exit with.
Code(r) ==
    /\ pc[r] \notin {"finalize", "exited", "killed"} => exitCode[r] = 0
    /\ pc[r] \in {"finalize", "exited"} =>
           /\ parsed.status # "OK" => exitCode[r] = 2
           /\ parsed.status = "OK" /\ parsed.action # "none" => exitCode[r] = 0
           /\ Verifies => exitCode[r] \in IF R > 1 THEN {2} ELSE {0, 1}
           /\ ~Early /\ ~Verifies =>
                  exitCode[r] \in IF r = Root THEN {0, WriteError} ELSE {0}

\* The pieces travel in order: the n-th broadcast carries piece n, and a rank
\* that has come to piece n has all before it.
Wire ==
    /\ \A n \in 1 .. Len(wire) : wire[n] = n
    /\ pc[Root] \in {"parse", "split", "read"} => Len(wire) = 0
    /\ pc[Root] = "prepare" => Len(wire) = piece[Root] - 1
    /\ pc[Root] = "bcast" => Len(wire) = piece[Root]
    /\ \/ Len(wire) > 0
       \/ pc[Root] \in {"prepare", "bcast", "mode", "buffers", "before", "runtime", "after"}
       => \A p \in Pieces : problem[Root][p] = p
    /\ \A r \in Ranks \ {Root} : \A p \in Pieces :
           p < piece[r] => problem[r][p] = p /\ p <= Len(wire)

\* A verdict is final for all ranks: nobody fails where another succeeds.
Verdicts ==
    /\ \A r \in Ranks : verdict[r] = "ok" => ~faulted
    /\ \A r \in Ranks : verdict[r] = "failed" => faulted
    /\ verdict[Root] = "ok" => matches = Canonical

\* The world is aborted by a rank that gave up before its first repetition, or
\* after a failed one.
Aborted ==
    /\ \A r \in Ranks : pc[r] = "killed" => aborts # {}
    /\ aborts # {} =>
           \E r \in Ranks :
               /\ pc[r] = "killed"
               /\ Len(calls[r]) <= Base \/ verdict[r] = "failed"

\* The root has been through its last repetition.
RootDone == ~Early /\ ~Verifies /\ pc[Root] \in {"write", "finalize", "exited"}

Done ==
    /\ RootDone => aborts = {} /\ \A r \in Ranks : rep[r] = reps /\ verdict[r] = "ok"
    /\ output # <<>> => RootDone
    /\ \A i \in DOMAIN output : output[i] = Canonical[i]
    /\ RootDone /\ pc[Root] # "write" /\ ~ToStdout /\ exitCode[Root] = 0 =>
           output = [i \in Pictures |-> Canonical[i]]

IInv ==
    /\ TypeOK
    /\ \A r \in Ranks : CallsOf(r) /\ Progress(r) /\ Code(r)
    /\ Wire
    /\ Verdicts
    /\ Aborted
    /\ Done

-----------------------------------------------------------------------------
(* Arithmetic of the calls *)

LEMMA Sizes ==
    /\ LastPiece \in Nat /\ LastPiece >= 3
    /\ Base \in Nat /\ Base = LastPiece + 1
    /\ Pieces = 1 .. LastPiece
    /\ Root \in Ranks
BY SizesAssumption, WorldAssumption DEF LastPiece, Shapes, Base, Pieces, Header, Root, Ranks

LEMMA Thirds ==
    ASSUME NEW j \in Nat
    PROVE  /\ (3 * j) \div 3 = j /\ (3 * j) % 3 = 0
           /\ (3 * j + 1) \div 3 = j /\ (3 * j + 1) % 3 = 1
           /\ (3 * j + 2) \div 3 = j /\ (3 * j + 2) % 3 = 2
OBVIOUS

\* There is a repetition, whatever "reps" is.
LEMMA SomeRep == reps # 0
<1> SUFFICES ASSUME reps = 0 PROVE FALSE
    OBVIOUS
<1>1. config.bench_reps > 0 /\ config.bench_reps = 0
    BY DEF reps
<1> QED
    BY <1>1

LEMMA FirstCall == KindAt(1) = IF Early THEN "Finalize" ELSE "Split"
BY DEF KindAt

LEMMA BroadcastCall ==
    ASSUME NEW n \in 2 .. Base
    PROVE  KindAt(n) = "Bcast"
BY Sizes DEF KindAt

\* A call after the broadcasts.
LEMMA LaterCall ==
    ASSUME NEW x \in Nat
    PROVE  KindAt(Base + x + 1) =
               IF Verifies \/ x \div 3 = reps THEN "Finalize"
               ELSE IF x % 3 = 1 THEN "Runtime" ELSE "Barrier"
<1> DEFINE n == Base + x + 1
<1>1. n # 1 /\ ~(n <= Base) /\ n - Base - 1 = x
    BY Sizes
<1> HIDE DEF n
<1>2. KindAt(n) = IF Verifies \/ (n - Base - 1) \div 3 = reps THEN "Finalize"
                  ELSE IF (n - Base - 1) % 3 = 1 THEN "Runtime" ELSE "Barrier"
    BY <1>1, Zenon DEF KindAt
<1>3. KindAt(n) = IF Verifies \/ x \div 3 = reps THEN "Finalize"
                  ELSE IF x % 3 = 1 THEN "Runtime" ELSE "Barrier"
    BY <1>1, <1>2, Zenon
<1> QED
    BY <1>3 DEF n

\* The three calls of repetition j + 1, when there is one.
LEMMA RepetitionCalls ==
    ASSUME NEW j \in Nat, j # reps, ~Verifies
    PROVE  /\ KindAt(Base + 3 * j + 1) = "Barrier"
           /\ KindAt(Base + 3 * j + 2) = "Runtime"
           /\ KindAt(Base + 3 * j + 3) = "Barrier"
<1>1. /\ 3 * j \in Nat /\ 3 * j + 1 \in Nat /\ 3 * j + 2 \in Nat
      /\ Base + (3 * j) + 1 = Base + 3 * j + 1
      /\ Base + (3 * j + 1) + 1 = Base + 3 * j + 2
      /\ Base + (3 * j + 2) + 1 = Base + 3 * j + 3
    BY Sizes
<1>2. KindAt(Base + (3 * j) + 1) = "Barrier"
    BY <1>1, LaterCall, Thirds
<1>3. KindAt(Base + (3 * j + 1) + 1) = "Runtime"
    BY <1>1, LaterCall, Thirds
<1>4. KindAt(Base + (3 * j + 2) + 1) = "Barrier"
    BY <1>1, LaterCall, Thirds
<1> QED
    BY <1>1, <1>2, <1>3, <1>4

\* The last call.
LEMMA FinalCall ==
    /\ Verifies => KindAt(Base + 1) = "Finalize"
    /\ \A j \in Nat : j = reps => KindAt(Base + 3 * j + 1) = "Finalize"
<1>1. Verifies => KindAt(Base + 1) = "Finalize"
    <2>1. Base + 0 + 1 = Base + 1
        BY Sizes
    <2> QED
        BY <2>1, LaterCall
<1>2. ASSUME NEW j \in Nat, j = reps PROVE KindAt(Base + 3 * j + 1) = "Finalize"
    <2>1. 3 * j \in Nat
        OBVIOUS
    <2> QED
        BY <1>2, <2>1, LaterCall, Thirds
<1> QED
    BY <1>1, <1>2

-----------------------------------------------------------------------------
(* Steps of one rank *)

LEMMA EnterEffect ==
    ASSUME TypeOK, NEW r \in Ranks, NEW kind \in Kinds, NEW label, Enter(r, kind, label)
    PROVE  /\ pc' = [pc EXCEPT ![r] = label] /\ pc'[r] = label
           /\ calls' \in [Ranks -> Seq(Kinds)]
           /\ \A u \in Ranks \ {r} : calls'[u] = calls[u] /\ pc'[u] = pc[u]
           /\ Len(calls'[r]) = Len(calls[r]) + 1
           /\ calls'[r][Len(calls[r]) + 1] = kind
           /\ \A n \in 1 .. Len(calls[r]) : calls'[r][n] = calls[r][n]
<1>1. calls \in [Ranks -> Seq(Kinds)] /\ pc \in [Ranks -> Labels]
    BY DEF TypeOK
<1>2. calls' = [calls EXCEPT ![r] = Append(calls[r], kind)] /\ pc' = [pc EXCEPT ![r] = label]
    BY DEF Enter
<1>3. calls[r] \in Seq(Kinds)
    BY <1>1
<1>4. calls'[r] = Append(calls[r], kind)
    BY <1>1, <1>2
<1>5. Append(calls[r], kind) \in Seq(Kinds)
    BY <1>3
<1>6. calls' \in [Ranks -> Seq(Kinds)]
    BY <1>1, <1>2, <1>5
<1>7. /\ Len(calls'[r]) = Len(calls[r]) + 1
      /\ calls'[r][Len(calls[r]) + 1] = kind
      /\ \A n \in 1 .. Len(calls[r]) : calls'[r][n] = calls[r][n]
    BY <1>3, <1>4
<1> QED
    BY <1>1, <1>2, <1>6, <1>7

\* The calls keep their kinds if the new one is of the kind that is due.
LEMMA EnterKinds ==
    ASSUME TypeOK, NEW r \in Ranks, NEW kind \in Kinds, NEW label, Enter(r, kind, label),
           CallsOf(r), parsed' = parsed, kind = KindAt(Len(calls[r]) + 1)
    PROVE  \A n \in 1 .. Len(calls'[r]) : calls'[r][n] = KindAt(n)'
<1>1. \A n : KindAt(n)' = KindAt(n)
    BY DEF KindAt, Early, Verifies, reps, config, Base, LastPiece
<1>2. calls[r] \in Seq(Kinds) /\ Len(calls[r]) \in Nat
    BY DEF TypeOK
<1>3. \A n \in 1 .. Len(calls'[r]) : n \in 1 .. Len(calls[r]) \/ n = Len(calls[r]) + 1
    BY <1>2, EnterEffect
<1> QED
    BY <1>1, <1>3, EnterEffect DEF CallsOf

LEMMA GotoEffect ==
    ASSUME TypeOK, NEW r \in Ranks, NEW label, Goto(r, label)
    PROVE  /\ pc' = [pc EXCEPT ![r] = label] /\ pc'[r] = label
           /\ calls' = calls
           /\ \A u \in Ranks \ {r} : pc'[u] = pc[u]
BY DEF TypeOK, Goto

\* What the command line decides does not change.
LEMMA SameCommandLine ==
    ASSUME parsed' = parsed
    PROVE  /\ \A n : KindAt(n)' = KindAt(n)
           /\ Early' = Early /\ Verifies' = Verifies /\ reps' = reps /\ config' = config
           /\ Base' = Base /\ ToStdout' = ToStdout
BY DEF KindAt, Early, Verifies, reps, config, Base, LastPiece, ToStdout

\* A step of rank r leaves what is said of the others.
LEMMA OthersKeep ==
    ASSUME IInv, NEW r \in Ranks, parsed' = parsed,
           \A u \in Ranks \ {r} :
               /\ pc'[u] = pc[u] /\ calls'[u] = calls[u] /\ piece'[u] = piece[u]
               /\ rep'[u] = rep[u] /\ exitCode'[u] = exitCode[u] /\ verdict'[u] = verdict[u],
           CallsOf(r)', Progress(r)', Code(r)'
    PROVE  \A u \in Ranks : CallsOf(u)' /\ Progress(u)' /\ Code(u)'
<1> SUFFICES ASSUME NEW u \in Ranks, u # r
             PROVE  CallsOf(u)' /\ Progress(u)' /\ Code(u)'
    OBVIOUS
<1>1. CallsOf(u) /\ Progress(u) /\ Code(u)
    BY DEF IInv
<1>2. CallsOf(u)'
    BY <1>1, SameCommandLine DEF CallsOf
<1>3. Progress(u)'
    BY <1>1, SameCommandLine DEF Progress
<1>4. Code(u)'
    BY <1>1, SameCommandLine DEF Code
<1> QED
    BY <1>2, <1>3, <1>4

-----------------------------------------------------------------------------
(* Frames of the parts that relate ranks *)

Late == {"mode", "buffers", "before", "runtime", "after"}

LEMMA WireKept ==
    ASSUME IInv, UNCHANGED <<wire, problem, piece>>,
           \/ pc'[Root] = pc[Root]
           \/ pc'[Root] \in {"write", "finalize", "exited", "killed"}
           \/ pc[Root] \in Late /\ pc'[Root] \in Late
           \/ pc[Root] \in {"parse", "split", "read"} /\ pc'[Root] \in {"parse", "split", "read"}
    PROVE  Wire'
BY DEF IInv, Wire, Late

LEMMA AbortedKept ==
    ASSUME IInv, NEW r \in Ranks, UNCHANGED <<aborts, verdict>>,
           \A u \in Ranks \ {r} : pc'[u] = pc[u] /\ calls'[u] = calls[u],
           pc[r] # "killed", pc'[r] # "killed"
    PROVE  Aborted'
BY DEF IInv, Aborted

LEMMA AbortedNow ==
    ASSUME IInv, NEW r \in Ranks, UNCHANGED <<calls, verdict>>,
           aborts' # {}, pc'[r] = "killed",
           Len(calls[r]) <= Base \/ verdict[r] = "failed"
    PROVE  Aborted'
BY DEF IInv, Aborted, Base, LastPiece

LEMMA DoneKept ==
    ASSUME IInv, parsed' = parsed, UNCHANGED <<aborts, rep, verdict, output>>,
           exitCode'[Root] = exitCode[Root],
           \/ pc'[Root] = pc[Root]
           \/ pc[Root] = "finalize" /\ pc'[Root] = "exited"
           \/ ~RootDone /\ ~RootDone'
    PROVE  Done'
<1>1. reps' = reps /\ ToStdout' = ToStdout /\ Early' = Early /\ Verifies' = Verifies
    BY SameCommandLine
<1>2. CASE ~RootDone /\ ~RootDone'
    BY <1>2 DEF IInv, Done
<1>3. CASE pc'[Root] = pc[Root]
    BY <1>1, <1>3 DEF IInv, Done, RootDone
<1>4. CASE pc[Root] = "finalize" /\ pc'[Root] = "exited"
    BY <1>1, <1>4 DEF IInv, Done, RootDone
<1> QED
    BY <1>2, <1>3, <1>4

LEMMA NotDone ==
    ASSUME IInv, ~RootDone, ~RootDone', output' = output
    PROVE  Done'
BY DEF IInv, Done

LEMMA InitInvariant == Init => IInv
<1> SUFFICES ASSUME Init PROVE IInv
    OBVIOUS
<1>1. /\ pc = [r \in Ranks |-> "parse"]
      /\ calls = [r \in Ranks |-> <<>>]
      /\ wire = <<>>
      /\ problem = [r \in Ranks |-> [p \in Pieces |-> Missing]]
      /\ piece = [r \in Ranks |-> Header]
      /\ rep = [r \in Ranks |-> 0]
      /\ exitCode = [r \in Ranks |-> 0]
      /\ aborts = {} /\ output = <<>>
      /\ matches = [i \in Pictures |-> Zeroed]
      /\ verdict = [r \in Ranks |-> "none"]
    BY DEF Init
<1>2. faulted \in BOOLEAN /\ ~faulted
    BY Zenon DEF Init
<1>3. Header \in 1 .. Base /\ Header = 1 /\ Header <= LastPiece
    BY Sizes DEF Header
<1>4. TypeOK
    <2>1. calls \in [Ranks -> Seq(Kinds)] /\ wire \in Seq(Nat)
        BY <1>1
    <2>2. problem \in [Ranks -> [Pieces -> Nat]]
        BY <1>1 DEF Missing
    <2>3. /\ pc \in [Ranks -> Labels] /\ piece \in [Ranks -> 1 .. Base]
          /\ rep \in [Ranks -> Nat] /\ exitCode \in [Ranks -> Nat]
          /\ verdict \in [Ranks -> {"none", "ok", "failed"}]
        BY <1>1, <1>3 DEF Labels
    <2> QED
        BY <1>2, <2>1, <2>2, <2>3 DEF TypeOK
<1>5. ASSUME NEW r \in Ranks PROVE CallsOf(r) /\ Progress(r) /\ Code(r)
    <2>1. /\ pc[r] = "parse" /\ Len(calls[r]) = 0 /\ piece[r] = Header
          /\ rep[r] = 0 /\ exitCode[r] = 0
        BY <1>1
    <2>2. reps \in Int => 0 <= reps
        BY DEF reps
    <2> QED
        BY <2>1, <2>2 DEF CallsOf, Progress, Code
<1>6. Wire
    <2>1. pc[Root] = "parse" /\ Len(wire) = 0
        BY <1>1, Sizes
    <2>2. \A r \in Ranks : \A p \in Pieces : ~(p < piece[r])
        BY <1>1, <1>3, Sizes
    <2> QED
        BY <2>1, <2>2 DEF Wire
<1>7. Verdicts
    BY <1>1, Sizes DEF Verdicts
<1>8. Aborted
    BY <1>1 DEF Aborted
<1>9. Done
    <2>1. pc[Root] = "parse"
        BY <1>1, Sizes
    <2> QED
        BY <1>1, <2>1 DEF Done, RootDone
<1> QED
    BY <1>4, <1>5, <1>6, <1>7, <1>8, <1>9 DEF IInv

-----------------------------------------------------------------------------
(* Steps that only move a rank on *)

LEMMA QuietInvariant ==
    ASSUME IInv, NEW r \in Ranks, NEW label \in Labels \ {"killed"},
           UNCHANGED <<parsed, wire, problem, piece, rep, aborts, output, faulted,
                       matches, verdict>>,
           pc' = [pc EXCEPT ![r] = label], pc[r] # "killed",
           calls' \in [Ranks -> Seq(Kinds)], exitCode' \in [Ranks -> Nat],
           \A u \in Ranks \ {r} : calls'[u] = calls[u] /\ exitCode'[u] = exitCode[u],
           CallsOf(r)', Progress(r)', Code(r)',
           \/ label \in {"write", "finalize", "exited"}
           \/ pc[r] \in Late /\ label \in Late
           \/ pc[r] \in {"parse", "split", "read"} /\ label \in {"parse", "split", "read"}
           \/ r # Root,
           \/ pc[r] = "finalize" /\ label = "exited" /\ exitCode' = exitCode
           \/ ~RootDone /\ ~RootDone'
           \/ r # Root
    PROVE  IInv'
<1>1. TypeOK /\ Verdicts
    BY DEF IInv
<1>2. pc'[r] = label /\ \A u \in Ranks \ {r} : pc'[u] = pc[u]
    BY <1>1 DEF TypeOK
<1>3. TypeOK'
    BY <1>1 DEF TypeOK
<1>4. \A u \in Ranks : CallsOf(u)' /\ Progress(u)' /\ Code(u)'
    BY <1>2, OthersKeep
<1>5. Wire'
    BY <1>2, Sizes, WireKept
<1>6. Verdicts'
    BY <1>1 DEF Verdicts
<1>7. Aborted'
    BY <1>2, AbortedKept
<1>8. Done'
    <2>1. CASE r = Root
        BY <1>2, <2>1, NotDone, DoneKept
    <2>2. CASE r # Root
        BY <1>2, <2>2, DoneKept, Sizes
    <2> QED
        BY <2>1, <2>2
<1> QED
    BY <1>3, <1>4, <1>5, <1>6, <1>7, <1>8 DEF IInv

LEMMA ParseInvariant ==
    ASSUME IInv, NEW r \in Ranks, Parse(r)
    PROVE  IInv'
<1>1. /\ TypeOK /\ CallsOf(r) /\ Progress(r) /\ Code(r)
      /\ pc[r] = "parse" /\ Len(calls[r]) = 0
      /\ UNCHANGED <<parsed, wire, problem, piece, rep, aborts, output,
                     faulted, matches, verdict>>
      /\ exitCode' = [exitCode EXCEPT ![r] = IF parsed.status # "OK" THEN 2 ELSE 0]
    BY DEF IInv, Parse, CallsOf, hostVars, commVars, jobVars
<1>2. \/ Early /\ Enter(r, "Finalize", "finalize")
      \/ ~Early /\ Enter(r, "Split", "split")
    BY DEF Parse, Early
<1>3. PICK kind \in {"Finalize", "Split"}, label \in {"finalize", "split"} :
          /\ Enter(r, kind, label)
          /\ kind = KindAt(1)
          /\ Early => label = "finalize"
          /\ ~Early => label = "split"
    BY <1>2, FirstCall
<1>4. kind \in Kinds /\ kind = KindAt(Len(calls[r]) + 1)
    BY <1>1, <1>3 DEF Kinds
<1>5. /\ pc' = [pc EXCEPT ![r] = label] /\ pc'[r] = label
      /\ calls' \in [Ranks -> Seq(Kinds)]
      /\ \A u \in Ranks \ {r} : calls'[u] = calls[u] /\ pc'[u] = pc[u]
      /\ Len(calls'[r]) = Len(calls[r]) + 1
    <2>1. TypeOK /\ kind \in Kinds /\ Enter(r, kind, label)
        BY <1>1, <1>3, <1>4
    <2> QED
        BY <2>1, EnterEffect
<1>6. \A n \in 1 .. Len(calls'[r]) : calls'[r][n] = KindAt(n)'
    BY <1>1, <1>3, <1>4, EnterKinds
<1>7. CallsOf(r)'
    <2>1. Len(calls'[r]) = 1
        BY <1>1, <1>5
    <2> QED
        BY <1>1, <1>3, <1>5, <1>6, <2>1, SameCommandLine DEF CallsOf
<1>8. Progress(r)'
    BY <1>1, <1>3, <1>5, SameCommandLine DEF Progress, Verifies
<1>9. /\ exitCode' \in [Ranks -> Nat]
      /\ exitCode'[r] = IF parsed.status # "OK" THEN 2 ELSE 0
      /\ \A u \in Ranks \ {r} : exitCode'[u] = exitCode[u]
    BY <1>1 DEF TypeOK
<1>10. Code(r)'
    BY <1>1, <1>3, <1>5, <1>9, SameCommandLine DEF Code, Verifies, Early
<1>11. r = Root => ~RootDone /\ ~RootDone'
    BY <1>1, <1>3, <1>5, SameCommandLine DEF RootDone
<1>12. label \in Labels \ {"killed"} /\ pc[r] # "killed"
    BY <1>1, <1>3 DEF Labels
<1> QED
    BY <1>1, <1>3, <1>5, <1>7, <1>8, <1>9, <1>10, <1>11, <1>12, QuietInvariant

LEMMA TopologyKnownInvariant ==
    ASSUME IInv, NEW r \in Ranks, TopologyKnown(r)
    PROVE  IInv'
<1>1. /\ TypeOK /\ CallsOf(r) /\ Progress(r) /\ Code(r) /\ Verdicts
      /\ pc[r] = "split"
      /\ UNCHANGED <<argv, parsed, wire, problem, piece, rep, exitCode, aborts, output,
                     faulted, matches, verdict>>
    BY DEF IInv, TopologyKnown, commVars, jobVars
<1>2. PICK label \in {"read", "prepare"} :
          Goto(r, label) /\ (r = Root <=> label = "read")
    BY DEF TopologyKnown
<1>3. /\ pc' = [pc EXCEPT ![r] = label] /\ pc'[r] = label /\ calls' = calls
      /\ \A u \in Ranks \ {r} : pc'[u] = pc[u]
    BY <1>1, <1>2, GotoEffect
<1>4. CallsOf(r)'
    BY <1>1, <1>2, <1>3, SameCommandLine DEF CallsOf, Progress, Header
<1>5. Progress(r)'
    BY <1>1, <1>2, <1>3, SameCommandLine, Sizes DEF Progress, Header
<1>6. Code(r)'
    BY <1>1, <1>2, <1>3, SameCommandLine DEF Code
<1>7. r = Root => ~RootDone /\ ~RootDone'
    BY <1>1, <1>2, <1>3 DEF RootDone
<1>8. label \in Labels \ {"killed"} /\ calls' \in [Ranks -> Seq(Kinds)]
      /\ exitCode' \in [Ranks -> Nat]
    BY <1>1, <1>2, <1>3 DEF Labels, TypeOK
<1> QED
    BY <1>1, <1>2, <1>3, <1>4, <1>5, <1>6, <1>7, <1>8, QuietInvariant

LEMMA VerifyInvariant ==
    ASSUME IInv, NEW r \in Ranks, Verify(r)
    PROVE  IInv'
<1>1. /\ TypeOK /\ CallsOf(r) /\ Progress(r) /\ Code(r)
      /\ pc[r] = "mode" /\ Len(calls[r]) = Base /\ rep[r] = 0
      /\ UNCHANGED <<parsed, wire, problem, piece, rep, aborts, output,
                     faulted, matches, verdict>>
      /\ Enter(r, "Finalize", "finalize")
    BY DEF IInv, Verify, CallsOf, Progress, hostVars, commVars, jobVars
<1>2. Verifies /\ ~Early
    BY <1>1 DEF Verify, Verifies, Progress
<1>3. PICK code \in IF R > 1 THEN {2} ELSE {0, 1} : exitCode' = [exitCode EXCEPT ![r] = code]
    BY DEF Verify
<1>4. "Finalize" \in Kinds /\ "Finalize" = KindAt(Len(calls[r]) + 1)
    BY <1>1, <1>2, FinalCall DEF Kinds
<1>5. /\ pc' = [pc EXCEPT ![r] = "finalize"] /\ pc'[r] = "finalize"
      /\ calls' \in [Ranks -> Seq(Kinds)]
      /\ \A u \in Ranks \ {r} : calls'[u] = calls[u] /\ pc'[u] = pc[u]
      /\ Len(calls'[r]) = Base + 1
    BY <1>1, <1>4, EnterEffect
<1>6. \A n \in 1 .. Len(calls'[r]) : calls'[r][n] = KindAt(n)'
    BY <1>1, <1>4, EnterKinds
<1>7. CallsOf(r)'
    BY <1>1, <1>2, <1>5, <1>6, SameCommandLine, Sizes DEF CallsOf
<1>8. Progress(r)'
    BY <1>1, <1>2, <1>5, SameCommandLine DEF Progress
<1>9. /\ exitCode' \in [Ranks -> Nat] /\ exitCode'[r] = code
      /\ \A u \in Ranks \ {r} : exitCode'[u] = exitCode[u]
    BY <1>1, <1>3 DEF TypeOK
<1>10. Code(r)'
    <2>1. parsed'.status = "OK" /\ parsed'.action = "none" /\ Early' = Early
          /\ Verifies' = Verifies
        BY <1>1, <1>2, SameCommandLine DEF Early
    <2> QED
        BY <1>2, <1>3, <1>5, <1>9, <2>1 DEF Code
<1>11. ~RootDone /\ ~RootDone'
    BY <1>1, <1>2, SameCommandLine DEF RootDone
<1>12. "finalize" \in Labels \ {"killed"} /\ pc[r] # "killed"
    BY <1>1 DEF Labels
<1> QED
    BY <1>1, <1>5, <1>7, <1>8, <1>9, <1>10, <1>11, <1>12, QuietInvariant

LEMMA ChooseBackendInvariant ==
    ASSUME IInv, NEW r \in Ranks, ChooseBackend(r)
    PROVE  IInv'
<1>1. /\ TypeOK /\ CallsOf(r) /\ Progress(r) /\ Code(r) /\ pc[r] = "mode"
      /\ UNCHANGED <<parsed, wire, problem, piece, rep, exitCode, aborts, output,
                     faulted, matches, verdict>>
      /\ Goto(r, "buffers")
    BY DEF IInv, ChooseBackend, hostVars, commVars, jobVars
<1>2. ~Verifies /\ ~Early
    BY <1>1 DEF ChooseBackend, Verifies, Progress
<1>3. /\ pc' = [pc EXCEPT ![r] = "buffers"] /\ pc'[r] = "buffers" /\ calls' = calls
    BY <1>1, GotoEffect
<1>4. CallsOf(r)' /\ Code(r)'
    BY <1>1, <1>3, SameCommandLine DEF CallsOf, Code
<1>5. Progress(r)'
    BY <1>1, <1>2, <1>3, SameCommandLine DEF Progress
<1>6. r = Root => ~RootDone /\ ~RootDone'
    BY <1>1, <1>3 DEF RootDone
<1>7. /\ "buffers" \in Labels \ {"killed"} /\ pc[r] # "killed"
      /\ pc[r] \in Late /\ "buffers" \in Late
      /\ calls' \in [Ranks -> Seq(Kinds)] /\ exitCode' \in [Ranks -> Nat]
    BY <1>1, <1>3 DEF Labels, TypeOK, Late
<1> QED
    BY <1>1, <1>3, <1>4, <1>5, <1>6, <1>7, QuietInvariant

LEMMA FinalizedInvariant ==
    ASSUME IInv, NEW r \in Ranks, Finalized(r)
    PROVE  IInv'
<1>1. /\ TypeOK /\ CallsOf(r) /\ Progress(r) /\ Code(r) /\ pc[r] = "finalize"
      /\ UNCHANGED <<parsed, wire, problem, piece, rep, exitCode, aborts, output,
                     faulted, matches, verdict>>
      /\ Goto(r, "exited")
    BY DEF IInv, Finalized, hostVars, commVars, jobVars
<1>2. /\ pc' = [pc EXCEPT ![r] = "exited"] /\ pc'[r] = "exited" /\ calls' = calls
    BY <1>1, GotoEffect
<1>3. CallsOf(r)' /\ Code(r)'
    BY <1>1, <1>2, SameCommandLine DEF CallsOf, Code
<1>4. Progress(r)'
    BY <1>1, <1>2, SameCommandLine DEF Progress
<1>5. /\ "exited" \in Labels \ {"killed"} /\ pc[r] # "killed"
      /\ calls' \in [Ranks -> Seq(Kinds)] /\ exitCode' \in [Ranks -> Nat]
    BY <1>1, <1>2 DEF Labels, TypeOK
<1> QED
    BY <1>1, <1>2, <1>3, <1>4, <1>5, QuietInvariant

-----------------------------------------------------------------------------
(* Failures *)

\* A rank that is gone, or goes, before the root has been through.
LEMMA AbortInvariant ==
    ASSUME IInv, NEW r \in Ranks, ~RootDone,
           UNCHANGED <<parsed, calls, wire, problem, piece, rep, exitCode, output,
                       faulted, matches, verdict>>,
           pc' = [pc EXCEPT ![r] = "killed"],
           aborts' # {}, aborts \subseteq aborts',
           Len(calls[r]) <= Base \/ verdict[r] = "failed" \/ aborts # {}
    PROVE  IInv'
<1>1. TypeOK /\ Verdicts /\ CallsOf(r) /\ Progress(r)
    BY DEF IInv
<1>2. pc'[r] = "killed" /\ \A u \in Ranks \ {r} : pc'[u] = pc[u]
    BY <1>1 DEF TypeOK
<1>3. TypeOK'
    BY <1>1 DEF TypeOK, Labels
<1>4. CallsOf(r)' /\ Progress(r)' /\ Code(r)'
    <2>1. CallsOf(r)' /\ Code(r)'
        BY <1>1, <1>2, SameCommandLine DEF CallsOf, Code
    <2>2. Progress(r)'
        BY <1>1, <1>2, SameCommandLine DEF Progress
    <2> QED
        BY <2>1, <2>2
<1>5. \A u \in Ranks : CallsOf(u)' /\ Progress(u)' /\ Code(u)'
    BY <1>2, <1>4, OthersKeep
<1>6. Wire'
    BY <1>2, Sizes, WireKept
<1>7. Verdicts'
    BY <1>1 DEF Verdicts
<1>8. Aborted'
    <2>1. CASE Len(calls[r]) <= Base \/ verdict[r] = "failed"
        BY <1>2, <2>1, AbortedNow
    <2>2. CASE aborts # {}
        <3>1. PICK s \in Ranks : pc[s] = "killed" /\ (Len(calls[s]) <= Base \/ verdict[s] = "failed")
            BY <2>2 DEF IInv, Aborted
        <3>2. pc'[s] = "killed"
            BY <1>2, <3>1
        <3> QED
            BY <3>1, <3>2, SameCommandLine DEF Aborted
    <2> QED
        BY <2>1, <2>2
<1>9. Done'
    <2>1. ~RootDone'
        BY <1>2, Sizes, SameCommandLine DEF RootDone
    <2> QED
        BY <2>1, NotDone
<1> QED
    BY <1>3, <1>5, <1>6, <1>7, <1>8, <1>9 DEF IInv

\* After the root's last repetition nobody is left who could fail.
LEMMA NobodyFailsLate ==
    ASSUME IInv, NEW r \in Ranks,
           pc[r] \in {"read", "prepare", "mode", "buffers"} \/ verdict[r] # "ok" \/ aborts # {}
    PROVE  ~RootDone
<1> SUFFICES ASSUME RootDone PROVE FALSE
    OBVIOUS
<1>1. aborts = {} /\ rep[r] = reps /\ verdict[r] = "ok" /\ rep[Root] = reps
    BY Sizes DEF IInv, Done
<1>2. Progress(r) /\ Progress(Root)
    BY Sizes DEF IInv
<1>3. rep[Root] > 0
    BY <1>2 DEF Progress, RootDone
<1>4. rep[r] = 0 => ~(rep[r] > 0)
    OBVIOUS
<1>5. pc[r] \in {"read", "prepare", "mode", "buffers"} => rep[r] = 0
    BY <1>2 DEF Progress
<1> QED
    BY <1>1, <1>3, <1>4, <1>5

LEMMA FailureInvariant ==
    ASSUME IInv, NEW r \in Ranks,
           ReadFails(r) \/ AllocationFails(r) \/ BackendUnusable(r) \/ BuffersFail(r)
               \/ GiveUp(r) \/ Killed(r)
    PROVE  IInv'
<1>1. TypeOK /\ CallsOf(r) /\ Progress(r)
    BY DEF IInv
<1>2. UNCHANGED <<parsed, calls, wire, problem, piece, rep, exitCode, output,
                  faulted, matches, verdict>>
    BY DEF ReadFails, AllocationFails, BackendUnusable, BuffersFail, GiveUp, Killed,
           abort_all, Goto, hostVars, commVars, jobVars
<1>3. pc' = [pc EXCEPT ![r] = "killed"]
    BY DEF ReadFails, AllocationFails, BackendUnusable, BuffersFail, GiveUp, Killed,
           abort_all, Goto
<1>4. aborts' # {} /\ aborts \subseteq aborts'
    BY DEF ReadFails, AllocationFails, BackendUnusable, BuffersFail, GiveUp, Killed,
           abort_all
<1>5. /\ \/ pc[r] \in {"read", "prepare", "mode", "buffers"} /\ Len(calls[r]) <= Base
         \/ verdict[r] = "failed"
         \/ aborts # {}
    <2>1. CASE ReadFails(r)
        <3>1. pc[r] = "read" /\ Len(calls[r]) = 1
            BY <1>1, <2>1 DEF ReadFails, CallsOf
        <3>2. 1 <= Base
            BY Sizes
        <3> QED
            BY <3>1, <3>2
    <2>2. CASE AllocationFails(r)
        BY <1>1, <2>2, Sizes DEF AllocationFails, CallsOf, Progress
    <2>3. CASE BackendUnusable(r) \/ BuffersFail(r)
        BY <1>1, <2>3, Sizes DEF BackendUnusable, BuffersFail, CallsOf
    <2>4. CASE GiveUp(r)
        BY <2>4 DEF GiveUp, SearchFailed
    <2>5. CASE Killed(r)
        BY <2>5 DEF Killed
    <2> QED
        BY <2>1, <2>2, <2>3, <2>4, <2>5
<1>6. ~RootDone
    BY <1>5, NobodyFailsLate
<1> QED
    BY <1>2, <1>3, <1>4, <1>5, <1>6, AbortInvariant

-----------------------------------------------------------------------------
(* The problem and its broadcast *)

LEMMA ReadProblemInvariant ==
    ASSUME IInv, NEW r \in Ranks, ReadProblem(r)
    PROVE  IInv'
<1>1. /\ TypeOK /\ CallsOf(r) /\ Progress(r) /\ Code(r) /\ Verdicts /\ Wire
      /\ pc[r] = "read" /\ r = Root
      /\ UNCHANGED <<parsed, wire, piece, rep, exitCode, aborts, output,
                     faulted, matches, verdict>>
      /\ problem' = [problem EXCEPT ![r] = [p \in Pieces |-> p]]
      /\ Goto(r, "prepare")
    BY DEF IInv, ReadProblem, Progress, hostVars, jobVars
<1>2. /\ pc' = [pc EXCEPT ![r] = "prepare"] /\ pc'[r] = "prepare" /\ calls' = calls
      /\ \A u \in Ranks \ {r} : pc'[u] = pc[u]
    BY <1>1, GotoEffect
<1>3. problem' \in [Ranks -> [Pieces -> Nat]]
    BY <1>1, Sizes DEF TypeOK
<1>4. TypeOK'
    BY <1>1, <1>2, <1>3 DEF TypeOK, Labels
<1>5. CallsOf(r)' /\ Code(r)'
    BY <1>1, <1>2, SameCommandLine DEF CallsOf, Code, Progress, Header
<1>6. Progress(r)'
    BY <1>1, <1>2, SameCommandLine, Sizes DEF Progress, Header
<1>7. \A u \in Ranks : CallsOf(u)' /\ Progress(u)' /\ Code(u)'
    BY <1>1, <1>2, <1>5, <1>6, OthersKeep
<1>8. Wire'
    <2>1. \A p \in Pieces : problem'[Root][p] = p
        BY <1>1 DEF TypeOK
    <2>2. \A u \in Ranks \ {Root} : problem'[u] = problem[u]
        BY <1>1 DEF TypeOK
    <2>3. Len(wire') = piece'[Root] - 1
        BY <1>1 DEF Wire, Progress, Header
    <2> QED
        BY <1>1, <1>2, <2>1, <2>2, <2>3 DEF Wire
<1>9. Verdicts'
    BY <1>1 DEF Verdicts
<1>10. Aborted'
    BY <1>1, <1>2, AbortedKept
<1>11. Done'
    <2>1. ~RootDone /\ ~RootDone'
        BY <1>1, <1>2 DEF RootDone
    <2> QED
        BY <1>1, <2>1, NotDone
<1> QED
    BY <1>4, <1>7, <1>8, <1>9, <1>10, <1>11 DEF IInv

LEMMA Receiving ==
    ASSUME IInv, NEW r \in Ranks, pc[r] \in {"prepare", "bcast"}
    PROVE  /\ piece \in [Ranks -> 1 .. Base] /\ piece[r] \in 1 .. LastPiece
           /\ piece[r] \in Pieces /\ piece[r] \in Nat
           /\ wire \in Seq(Nat) /\ Len(wire) \in Nat
           /\ problem \in [Ranks -> [Pieces -> Nat]]
           /\ ~Early
<1>1. piece \in [Ranks -> 1 .. Base] /\ problem \in [Ranks -> [Pieces -> Nat]]
    BY DEF IInv, TypeOK
<1>2. wire \in Seq(Nat)
    BY DEF IInv, TypeOK
<1>3. piece[r] <= LastPiece /\ ~Early
    BY DEF IInv, Progress
<1>4. piece[r] \in 1 .. Base
    BY <1>1
<1>5. piece[r] \in 1 .. LastPiece
    BY <1>3, <1>4, Sizes
<1> QED
    BY <1>1, <1>2, <1>3, <1>5, Sizes

LEMMA BroadcastInvariant ==
    ASSUME IInv, NEW r \in Ranks, Broadcast(r)
    PROVE  IInv'
<1>1. /\ TypeOK /\ CallsOf(r) /\ Progress(r) /\ Code(r) /\ Verdicts /\ Wire
      /\ pc[r] = "prepare" /\ Len(calls[r]) = piece[r]
      /\ UNCHANGED <<parsed, problem, rep, exitCode, aborts, output,
                     faulted, matches, verdict>>
      /\ Enter(r, "Bcast", "bcast")
    BY DEF IInv, Broadcast, CallsOf, hostVars, jobVars
<1>0. /\ piece \in [Ranks -> 1 .. Base] /\ piece[r] \in 1 .. LastPiece
      /\ wire \in Seq(Nat) /\ problem \in [Ranks -> [Pieces -> Nat]]
    BY <1>1, Receiving
<1>2. piece' = piece
    <2>1. piece' = [piece EXCEPT ![r] = IF piece[r] = Header THEN Header ELSE piece[r]]
        BY DEF Broadcast, FirstPiece
    <2> QED
        BY <1>0, <2>1
<1>3. /\ r = Root => wire' = Append(wire, problem[Root][piece[Root]])
      /\ r # Root => wire' = wire
    BY <1>2 DEF Broadcast
<1>4. "Bcast" \in Kinds /\ "Bcast" = KindAt(Len(calls[r]) + 1)
    <2>1. piece[r] + 1 \in 2 .. Base
        BY <1>0, Sizes
    <2> QED
        BY <1>1, <2>1, BroadcastCall DEF Kinds
<1>5. /\ pc' = [pc EXCEPT ![r] = "bcast"] /\ pc'[r] = "bcast"
      /\ calls' \in [Ranks -> Seq(Kinds)]
      /\ \A u \in Ranks \ {r} : calls'[u] = calls[u] /\ pc'[u] = pc[u]
      /\ Len(calls'[r]) = Len(calls[r]) + 1
    BY <1>1, <1>4, EnterEffect
<1>6. \A n \in 1 .. Len(calls'[r]) : calls'[r][n] = KindAt(n)'
    BY <1>1, <1>4, EnterKinds
<1>7. CallsOf(r)'
    <2>1. Len(calls'[r]) = piece'[r] + 1
        BY <1>1, <1>2, <1>5
    <2> QED
        BY <1>5, <1>6, <2>1 DEF CallsOf
<1>8. Progress(r)' /\ Code(r)'
    BY <1>1, <1>2, <1>5, SameCommandLine DEF Progress, Code
<1>9. \A u \in Ranks : CallsOf(u)' /\ Progress(u)' /\ Code(u)'
    BY <1>1, <1>2, <1>5, <1>7, <1>8, OthersKeep
<1>10. ASSUME r = Root PROVE wire' \in Seq(Nat) /\ Wire'
    <2>1. /\ wire \in Seq(Nat) /\ Len(wire) = piece[Root] - 1
          /\ \A n \in 1 .. Len(wire) : wire[n] = n
          /\ \A p \in Pieces : problem[Root][p] = p
        BY <1>1, <1>0, <1>10 DEF Wire
    <2>2. piece[Root] \in Nat /\ piece[Root] \in Pieces
        BY <1>1, <1>10, Receiving
    <2>3. wire' = Append(wire, piece[Root])
        BY <1>3, <1>10, <2>1, <2>2
    <2>4. /\ wire' \in Seq(Nat) /\ Len(wire') = Len(wire) + 1
          /\ wire'[Len(wire) + 1] = piece[Root]
          /\ \A n \in 1 .. Len(wire) : wire'[n] = wire[n]
        BY <2>1, <2>2, <2>3
    <2>5. Len(wire') = piece'[Root]
        BY <1>2, <2>1, <2>2, <2>4
    <2>6. \A n \in 1 .. Len(wire') : wire'[n] = n
        <3>1. Len(wire) \in Nat
            BY <2>1
        <3>2. \A n \in 1 .. Len(wire') : n \in 1 .. Len(wire) \/ n = Len(wire) + 1
            BY <2>4, <3>1
        <3>3. Len(wire) + 1 = piece[Root]
            BY <2>1, <2>2
        <3> QED
            BY <2>1, <2>4, <3>2, <3>3
    <2>7. \A u \in Ranks \ {Root} : \A p \in Pieces :
              p < piece'[u] => problem'[u][p] = p /\ p <= Len(wire')
        <3>1. ASSUME NEW u \in Ranks \ {Root}, NEW p \in Pieces, p < piece[u]
              PROVE  problem[u][p] = p /\ p <= Len(wire')
            <4>1. problem[u][p] = p /\ p <= Len(wire) /\ p \in Nat /\ Len(wire) \in Nat
                BY <1>1, <2>1, <3>1, Sizes DEF Wire
            <4> QED
                BY <2>4, <4>1
        <3> QED
            BY <1>1, <1>2, <3>1
    <2>8. Wire'
        BY <1>1, <1>5, <1>10, <2>1, <2>5, <2>6, <2>7 DEF Wire
    <2> QED
        BY <2>4, <2>8
<1>11. ASSUME r # Root PROVE wire' \in Seq(Nat) /\ Wire'
    <2>1. wire' = wire /\ pc'[Root] = pc[Root]
        BY <1>3, <1>5, <1>11, Sizes
    <2> QED
        BY <1>1, <1>0, <1>2, <2>1, WireKept
<1>12. TypeOK'
    BY <1>1, <1>2, <1>5, <1>10, <1>11 DEF TypeOK, Labels
<1>13. Verdicts'
    BY <1>1 DEF Verdicts
<1>14. Aborted'
    BY <1>1, <1>5, AbortedKept
<1>15. Done'
    <2>1. \/ pc'[Root] = pc[Root]
          \/ ~RootDone /\ ~RootDone'
        BY <1>1, <1>5, Sizes DEF RootDone
    <2> QED
        BY <1>1, <2>1, DoneKept
<1> QED
    BY <1>9, <1>10, <1>11, <1>12, <1>13, <1>14, <1>15 DEF IInv

\* The broadcast a rank is in has the number of the piece it waits for.
LEMMA BroadcastNumber ==
    ASSUME IInv, NEW r \in Ranks, pc[r] = "bcast"
    PROVE  BroadcastsMade(r) = piece[r]
<1>1. /\ calls[r] \in Seq(Kinds) /\ Len(calls[r]) = piece[r] + 1
      /\ piece[r] \in 1 .. LastPiece /\ ~Early
      /\ \A n \in 1 .. Len(calls[r]) : calls[r][n] = KindAt(n)
    <2>1. piece[r] \in 1 .. LastPiece /\ ~Early
        BY Receiving
    <2> QED
        BY <2>1 DEF IInv, TypeOK, CallsOf
<1>2. DOMAIN calls[r] = 1 .. piece[r] + 1
    BY <1>1
<1>3. KindAt(1) = "Split"
    BY <1>1, FirstCall
<1>4. \A n \in 2 .. piece[r] + 1 : KindAt(n) = "Bcast"
    BY <1>1, Sizes, BroadcastCall
<1>5. {n \in DOMAIN calls[r] : calls[r][n] = "Bcast"} = 2 .. piece[r] + 1
    <2>1. \A n \in 1 .. piece[r] + 1 : calls[r][n] = "Bcast" <=> n \in 2 .. piece[r] + 1
        <3> SUFFICES ASSUME NEW n \in 1 .. piece[r] + 1
                     PROVE  calls[r][n] = "Bcast" <=> n \in 2 .. piece[r] + 1
            OBVIOUS
        <3>1. calls[r][n] = KindAt(n)
            BY <1>1
        <3>2. n = 1 \/ n \in 2 .. piece[r] + 1
            BY <1>1
        <3>3. 1 \notin 2 .. piece[r] + 1
            OBVIOUS
        <3> QED
            BY <1>3, <1>4, <3>1, <3>2, <3>3
    <2>2. 2 .. piece[r] + 1 \subseteq 1 .. piece[r] + 1
        BY <1>1
    <2> QED
        BY <1>2, <2>1, <2>2
<1>6. Cardinality(2 .. piece[r] + 1) = piece[r]
    <2> DEFINE b == piece[r] + 1
    <2>1. b \in Int /\ ~(2 > b) /\ b - 2 + 1 = piece[r]
        BY <1>1, Sizes
    <2> HIDE DEF b
    <2>2. Cardinality(2 .. b) = IF 2 > b THEN 0 ELSE b - 2 + 1
        BY <2>1, FS_Interval
    <2>3. Cardinality(2 .. b) = piece[r]
        BY <2>1, <2>2
    <2> QED
        BY <2>3 DEF b
<1> QED
    BY <1>5, <1>6 DEF BroadcastsMade

LEMMA TakePieceInvariant ==
    ASSUME IInv, NEW r \in Ranks, Received(r) \/ RootLeavesEarly(r)
    PROVE  IInv'
<1>1. /\ TypeOK /\ CallsOf(r) /\ Progress(r) /\ Code(r) /\ Verdicts /\ Wire
      /\ pc[r] = "bcast" /\ Len(calls[r]) = piece[r] + 1
      /\ TakePiece(r)
      /\ r # Root => Len(wire) >= BroadcastsMade(r)
    BY DEF IInv, Received, RootLeavesEarly, CallsOf
<1>0. /\ piece \in [Ranks -> 1 .. Base] /\ piece[r] \in 1 .. LastPiece
      /\ piece[r] \in Pieces /\ piece[r] \in Nat
      /\ wire \in Seq(Nat) /\ Len(wire) \in Nat
      /\ problem \in [Ranks -> [Pieces -> Nat]]
    BY <1>1, Receiving
<1>2. /\ UNCHANGED <<parsed, wire, rep, exitCode, aborts, output,
                     faulted, matches, verdict>>
      /\ piece' = [piece EXCEPT ![r] = piece[r] + 1]
      /\ r = Root => problem' = problem
      /\ r # Root => problem' = [problem EXCEPT ![r][piece[r]] = wire[BroadcastsMade(r)]]
    BY <1>1 DEF TakePiece, hostVars, jobVars
<1>3. PICK label \in {"mode", "prepare"} :
          Goto(r, label) /\ (label = "mode" <=> piece[r] = LastPiece)
    BY <1>1 DEF TakePiece
<1>4. /\ pc' = [pc EXCEPT ![r] = label] /\ pc'[r] = label /\ calls' = calls
      /\ \A u \in Ranks \ {r} : pc'[u] = pc[u]
    BY <1>1, <1>3, GotoEffect
<1>5. /\ piece'[r] = piece[r] + 1 /\ piece'[r] \in 1 .. Base
      /\ piece' \in [Ranks -> 1 .. Base]
      /\ \A u \in Ranks \ {r} : piece'[u] = piece[u]
    BY <1>0, <1>2, Sizes
<1>6. /\ label = "mode" => piece'[r] = Base
      /\ label = "prepare" => piece'[r] <= LastPiece
    BY <1>0, <1>3, <1>5, Sizes
<1>7. /\ CallsOf(r)' /\ Code(r)'
    BY <1>1, <1>2, <1>3, <1>4, <1>5, <1>6, SameCommandLine DEF CallsOf, Code
<1>8. Progress(r)'
    BY <1>1, <1>2, <1>3, <1>4, <1>6, SameCommandLine DEF Progress
<1>9. \A u \in Ranks : CallsOf(u)' /\ Progress(u)' /\ Code(u)'
    BY <1>1, <1>2, <1>4, <1>5, <1>7, <1>8, OthersKeep
<1>10. ASSUME r = Root PROVE Wire' /\ problem' \in [Ranks -> [Pieces -> Nat]]
    <2>1. problem' = problem /\ \A p \in Pieces : problem[Root][p] = p
        BY <1>1, <1>2, <1>10 DEF Wire
    <2>2. Len(wire) = piece[Root] /\ Len(wire') = piece'[Root] - 1
        BY <1>1, <1>0, <1>2, <1>5, <1>10 DEF Wire
    <2>3. Wire'
        BY <1>1, <1>2, <1>3, <1>4, <1>5, <1>10, <2>1, <2>2 DEF Wire
    <2> QED
        BY <1>0, <2>1, <2>3
<1>11. ASSUME r # Root PROVE Wire' /\ problem' \in [Ranks -> [Pieces -> Nat]]
    <2>1. BroadcastsMade(r) = piece[r] /\ piece[r] <= Len(wire)
        BY <1>1, <1>0, <1>11, BroadcastNumber
    <2>2. wire[piece[r]] = piece[r]
        <3>1. piece[r] \in 1 .. Len(wire)
            BY <1>0, <2>1
        <3> QED
            BY <1>1, <3>1 DEF Wire
    <2>3. problem' = [problem EXCEPT ![r][piece[r]] = piece[r]]
        BY <1>2, <1>11, <2>1, <2>2
    <2>4. /\ problem' \in [Ranks -> [Pieces -> Nat]]
          /\ \A u \in Ranks \ {r} : problem'[u] = problem[u]
          /\ problem'[r][piece[r]] = piece[r]
          /\ \A p \in Pieces : p # piece[r] => problem'[r][p] = problem[r][p]
        BY <1>0, <2>3
    <2>5. ASSUME NEW u \in Ranks \ {Root}, NEW p \in Pieces, p < piece'[u]
          PROVE  problem'[u][p] = p /\ p <= Len(wire)
        <3>1. CASE u # r
            <4>1. piece'[u] = piece[u] /\ problem'[u] = problem[u]
                BY <1>5, <2>4, <3>1
            <4> QED
                BY <1>1, <2>5, <4>1 DEF Wire
        <3>2. CASE u = r /\ p = piece[r]
            BY <1>0, <2>1, <2>4, <3>2
        <3>3. CASE u = r /\ p # piece[r]
            <4>1. p < piece[r]
                BY <1>0, <1>5, <2>5, <3>3, Sizes
            <4> QED
                BY <1>1, <1>11, <2>4, <3>3, <4>1 DEF Wire
        <3> QED
            BY <3>1, <3>2, <3>3
    <2>6. pc'[Root] = pc[Root] /\ piece'[Root] = piece[Root] /\ problem'[Root] = problem[Root]
        BY <1>4, <1>5, <1>11, <2>4, Sizes
    <2>7. Wire'
        BY <1>1, <1>2, <2>5, <2>6 DEF Wire
    <2> QED
        BY <2>4, <2>7
<1>12. TypeOK'
    BY <1>1, <1>2, <1>3, <1>4, <1>5, <1>10, <1>11 DEF TypeOK, Labels
<1>13. Verdicts'
    BY <1>1, <1>2 DEF Verdicts
<1>14. Aborted'
    BY <1>1, <1>2, <1>3, <1>4, AbortedKept
<1>15. Done'
    <2>1. \/ pc'[Root] = pc[Root]
          \/ ~RootDone /\ ~RootDone'
        BY <1>1, <1>3, <1>4, Sizes DEF RootDone
    <2> QED
        BY <1>2, <2>1, DoneKept
<1> QED
    BY <1>9, <1>10, <1>11, <1>12, <1>13, <1>14, <1>15 DEF IInv

-----------------------------------------------------------------------------
(* The repetitions *)

\* A step of rank r from one call of the loop to the next.
LEMMA LoopInvariant ==
    ASSUME IInv, NEW r \in Ranks, NEW kind \in Kinds,
           NEW label \in {"before", "runtime", "after"},
           Enter(r, kind, label), kind = KindAt(Len(calls[r]) + 1),
           pc[r] \in Late, ~Early, ~Verifies, ~RootDone,
           UNCHANGED <<parsed, wire, problem, piece, exitCode, aborts, output, faulted>>,
           rep' \in [Ranks -> Nat], verdict' \in [Ranks -> {"none", "ok", "failed"}],
           \A u \in Ranks \ {r} : rep'[u] = rep[u] /\ verdict'[u] = verdict[u],
           label = "before" => Len(calls[r]) + 1 = Base + 3 * rep'[r] - 2,
           label = "runtime" => Len(calls[r]) + 1 = Base + 3 * rep'[r] - 1,
           label = "after" => Len(calls[r]) + 1 = Base + 3 * rep'[r],
           piece[r] = Base, rep'[r] > 0, reps \in Int => rep'[r] <= reps,
           label = "after" <=> verdict'[r] # "none",
           label # "after" => rep'[r] - 1 # reps,
           Verdicts'
    PROVE  IInv'
<1>1. TypeOK /\ CallsOf(r) /\ Progress(r) /\ Code(r)
    BY DEF IInv
<1>2. /\ pc' = [pc EXCEPT ![r] = label] /\ pc'[r] = label
      /\ calls' \in [Ranks -> Seq(Kinds)]
      /\ \A u \in Ranks \ {r} : calls'[u] = calls[u] /\ pc'[u] = pc[u]
      /\ Len(calls'[r]) = Len(calls[r]) + 1
    BY <1>1, EnterEffect
<1>3. \A n \in 1 .. Len(calls'[r]) : calls'[r][n] = KindAt(n)'
    BY <1>1, EnterKinds
<1>4. TypeOK'
    BY <1>1, <1>2 DEF TypeOK, Labels
<1>5. CallsOf(r)'
    BY <1>2, <1>3, SameCommandLine DEF CallsOf
<1>6. Progress(r)'
    BY <1>1, <1>2, SameCommandLine DEF Progress
<1>7. Code(r)'
    BY <1>1, <1>2, SameCommandLine DEF Code, Late
<1>8. \A u \in Ranks : CallsOf(u)' /\ Progress(u)' /\ Code(u)'
    BY <1>2, <1>5, <1>6, <1>7, OthersKeep
<1>9. Wire'
    <2>1. \/ pc'[Root] = pc[Root]
          \/ pc[Root] \in Late /\ pc'[Root] \in Late
        <3>1. CASE r = Root
            BY <1>2, <3>1 DEF Late
        <3>2. CASE r # Root
            <4>1. Root \in Ranks \ {r}
                BY <3>2, Sizes
            <4> QED
                BY <1>2, <4>1
        <3> QED
            BY <3>1, <3>2
    <2> QED
        BY <2>1, WireKept
<1>10. Aborted'
    <2>1. \A u \in Ranks : pc'[u] = "killed" => u # r
        BY <1>2
    <2>2. \A u \in Ranks : pc[u] = "killed" => u # r
        BY DEF Late
    <2> QED
        BY <1>2, <2>1, <2>2, SameCommandLine DEF IInv, Aborted
<1>11. Done'
    <2>1. ~RootDone'
        BY <1>2, Sizes, SameCommandLine DEF RootDone
    <2> QED
        BY <2>1, NotDone
<1> QED
    BY <1>4, <1>8, <1>9, <1>10, <1>11 DEF IInv

LEMMA BeginRepInvariant ==
    ASSUME IInv, NEW r \in Ranks, BeginRep(r)
    PROVE  IInv'
<1>1. /\ TypeOK /\ CallsOf(r) /\ Progress(r) /\ Verdicts
      /\ UNCHANGED <<parsed, wire, problem, piece, exitCode, aborts, output, faulted, matches>>
      /\ rep' = [rep EXCEPT ![r] = rep[r] + 1]
      /\ verdict' = [verdict EXCEPT ![r] = "none"]
      /\ Enter(r, "Barrier", "before")
      /\ pc[r] \in {"buffers", "after"}
    BY DEF IInv, BeginRep, hostVars, commVars
<1>2. rep \in [Ranks -> Nat] /\ verdict \in [Ranks -> {"none", "ok", "failed"}]
    BY <1>1 DEF TypeOK
<1>3. rep[r] \in Nat /\ (pc[r] = "buffers" => rep[r] = 0)
    BY <1>1, <1>2 DEF Progress
<1>4. /\ rep' \in [Ranks -> Nat] /\ rep'[r] = rep[r] + 1
      /\ verdict' \in [Ranks -> {"none", "ok", "failed"}] /\ verdict'[r] = "none"
      /\ \A u \in Ranks \ {r} : rep'[u] = rep[u] /\ verdict'[u] = verdict[u]
    BY <1>1, <1>2, <1>3
<1>5. ~Early /\ ~Verifies /\ piece[r] = Base /\ pc[r] \in Late
    BY <1>1 DEF Progress, Late
<1>6. pc[r] = "after" => rep[r] < reps
    BY <1>1 DEF BeginRep
<1>7. rep[r] # reps
    <2>1. CASE pc[r] = "buffers"
        BY <1>3, <2>1, SomeRep
    <2>2. CASE pc[r] = "after"
        BY <1>3, <1>6, <2>2
    <2> QED
        BY <1>1, <2>1, <2>2
<1>8. reps \in Int => rep'[r] <= reps
    <2>1. CASE pc[r] = "buffers"
        <3>1. reps \in Int => reps >= 1
            BY DEF reps
        <3> QED
            BY <1>3, <1>4, <2>1, <3>1
    <2>2. CASE pc[r] = "after"
        BY <1>3, <1>4, <1>6, <2>2
    <2> QED
        BY <1>1, <2>1, <2>2
<1>9. Len(calls[r]) = Base + 3 * rep[r]
    <2>1. CASE pc[r] = "buffers"
        <3>1. Len(calls[r]) = Base /\ rep[r] = 0
            BY <1>1, <1>3, <2>1 DEF CallsOf
        <3> QED
            BY <3>1, Sizes
    <2>2. CASE pc[r] = "after"
        BY <1>1, <2>2 DEF CallsOf
    <2> QED
        BY <1>1, <2>1, <2>2
<1>10. "Barrier" \in Kinds /\ "Barrier" = KindAt(Len(calls[r]) + 1)
    BY <1>3, <1>5, <1>7, <1>9, RepetitionCalls DEF Kinds
<1>11. ~RootDone
    <2>1. CASE pc[r] = "buffers"
        BY <2>1, NobodyFailsLate
    <2>2. CASE pc[r] = "after"
        BY <1>7 DEF IInv, Done
    <2> QED
        BY <1>1, <2>1, <2>2
<1>12. Verdicts'
    BY <1>1, <1>4, Sizes DEF Verdicts
<1>13. Len(calls[r]) + 1 = Base + 3 * rep'[r] - 2
    <2>1. Base \in Nat /\ rep[r] \in Nat /\ rep'[r] = rep[r] + 1
        BY <1>3, <1>4, Sizes
    <2> QED
        BY <1>9, <2>1
<1>14. rep'[r] > 0 /\ rep'[r] - 1 # reps
    BY <1>3, <1>4, <1>7
<1> QED
    BY <1>1, <1>4, <1>5, <1>8, <1>10, <1>11, <1>12, <1>13, <1>14, LoopInvariant

LEMMA CallRuntimeInvariant ==
    ASSUME IInv, NEW r \in Ranks, CallRuntime(r)
    PROVE  IInv'
<1>1. /\ TypeOK /\ CallsOf(r) /\ Progress(r) /\ Verdicts
      /\ UNCHANGED <<parsed, wire, problem, piece, rep, exitCode, aborts, output,
                     faulted, verdict>>
      /\ r # Root => matches' = matches
      /\ Enter(r, "Runtime", "runtime")
      /\ pc[r] = "before" /\ Len(calls[r]) = Base + 3 * rep[r] - 2
    BY DEF IInv, CallRuntime, CallsOf, hostVars, commVars
<1>2. /\ rep \in [Ranks -> Nat] /\ verdict \in [Ranks -> {"none", "ok", "failed"}]
      /\ rep[r] \in Nat
    BY <1>1 DEF TypeOK
<1>3. /\ ~Early /\ ~Verifies /\ piece[r] = Base /\ pc[r] \in Late
      /\ rep[r] > 0 /\ rep[r] - 1 # reps /\ verdict[r] = "none"
      /\ reps \in Int => rep[r] <= reps
    BY <1>1 DEF Progress, Late
<1>4. /\ rep[r] - 1 \in Nat /\ Len(calls[r]) + 1 = Base + 3 * (rep[r] - 1) + 2
      /\ Len(calls[r]) + 1 = Base + 3 * rep[r] - 1
    <2>1. Len(calls[r]) = Base + 3 * rep[r] - 2 /\ rep[r] \in Nat /\ rep[r] > 0
        BY <1>1, <1>2, <1>3
    <2> QED
        BY <2>1, Sizes
<1>5. "Runtime" \in Kinds /\ "Runtime" = KindAt(Len(calls[r]) + 1)
    BY <1>3, <1>4, RepetitionCalls DEF Kinds
<1>6. ~RootDone
    BY <1>3, NobodyFailsLate
<1>7. Verdicts'
    BY <1>1, <1>3 DEF Verdicts
<1> QED
    BY <1>1, <1>2, <1>3, <1>4, <1>5, <1>6, <1>7, LoopInvariant

LEMMA RuntimeReturnsInvariant ==
    ASSUME IInv, NEW r \in Ranks, RuntimeReturns(r)
    PROVE  IInv'
<1>1. /\ TypeOK /\ CallsOf(r) /\ Progress(r) /\ Verdicts
      /\ UNCHANGED <<parsed, wire, problem, piece, rep, exitCode, aborts, output,
                     faulted, matches>>
      /\ Enter(r, "Barrier", "after")
      /\ pc[r] = "runtime" /\ Len(calls[r]) = Base + 3 * rep[r] - 1
    BY DEF IInv, RuntimeReturns, CallsOf, hostVars, commVars, Job!ReturnOk, Job!ReturnFailure
<1>2. PICK v \in {"ok", "failed"} :
          /\ verdict' = [verdict EXCEPT ![r] = v]
          /\ v = "ok" => ~faulted /\ matches = Canonical
          /\ v = "failed" => faulted
    BY DEF RuntimeReturns, Job!ReturnOk, Job!ReturnFailure
<1>3. /\ rep \in [Ranks -> Nat] /\ verdict \in [Ranks -> {"none", "ok", "failed"}]
      /\ rep[r] \in Nat
    BY <1>1 DEF TypeOK
<1>4. /\ verdict' \in [Ranks -> {"none", "ok", "failed"}] /\ verdict'[r] = v
      /\ \A u \in Ranks \ {r} : verdict'[u] = verdict[u]
    BY <1>2, <1>3
<1>5. /\ ~Early /\ ~Verifies /\ piece[r] = Base /\ pc[r] \in Late
      /\ rep[r] > 0 /\ rep[r] - 1 # reps /\ verdict[r] = "none"
      /\ reps \in Int => rep[r] <= reps
    BY <1>1 DEF Progress, Late
<1>6. /\ rep[r] - 1 \in Nat /\ Len(calls[r]) + 1 = Base + 3 * (rep[r] - 1) + 3
      /\ Len(calls[r]) + 1 = Base + 3 * rep[r]
    BY <1>1, <1>3, <1>5, Sizes
<1>7. "Barrier" \in Kinds /\ "Barrier" = KindAt(Len(calls[r]) + 1)
    BY <1>5, <1>6, RepetitionCalls DEF Kinds
<1>8. ~RootDone
    BY <1>5, NobodyFailsLate
<1>9. Verdicts'
    BY <1>1, <1>2, <1>4, Sizes DEF Verdicts
<1> QED
    BY <1>1, <1>3, <1>4, <1>5, <1>6, <1>7, <1>8, <1>9, LoopInvariant

\* Inside the runtime only the result array and "faulted" change, and only as
\* long as no rank has a verdict.
LEMMA InRuntimeInvariant ==
    ASSUME IInv, NEW r \in Ranks, StoreResult(r) \/ MeetFault(r)
    PROVE  IInv'
<1>1. /\ TypeOK /\ Wire /\ Verdicts /\ Aborted
      /\ \A u \in Ranks : CallsOf(u) /\ Progress(u) /\ Code(u)
      /\ UNCHANGED <<parsed, wire, problem, piece, pc, calls, rep, exitCode, aborts, output,
                     verdict>>
    BY DEF IInv, StoreResult, MeetFault, Job!Store, Job!Fault, hostVars, commVars
<1>2. \A u \in Ranks : verdict[u] = "none"
    BY DEF StoreResult, MeetFault, Job!Store, Job!Fault, Job!Pending
<1>3. faulted' \in BOOLEAN
    <2>1. CASE StoreResult(r)
        BY <1>1, <2>1, Zenon DEF StoreResult, Job!Store, TypeOK
    <2>2. CASE MeetFault(r)
        BY <2>2, Zenon DEF MeetFault, Job!Fault
    <2> QED
        BY <2>1, <2>2
<1>4. TypeOK'
    BY <1>1, <1>3 DEF TypeOK
<1>5. \A u \in Ranks : CallsOf(u)' /\ Progress(u)' /\ Code(u)'
    BY <1>1, SameCommandLine DEF CallsOf, Progress, Code
<1>6. Wire' /\ Aborted'
    BY <1>1, SameCommandLine DEF Wire, Aborted
<1>7. Verdicts'
    BY <1>1, <1>2, Sizes DEF Verdicts
<1>8. Done'
    <2>1. ~RootDone
        BY <1>2, NobodyFailsLate
    <2>2. ~RootDone'
        BY <1>1, <2>1, SameCommandLine DEF RootDone
    <2> QED
        BY <1>1, <2>1, <2>2, NotDone
<1> QED
    BY <1>4, <1>5, <1>6, <1>7, <1>8 DEF IInv

-----------------------------------------------------------------------------
(* The end *)

\* When the root has ended its last repetition, so has every rank, with success.
LEMMA AllSucceeded ==
    ASSUME IInv, pc[Root] = "after", AllArrived(Root), verdict[Root] = "ok",
           rep[Root] = reps
    PROVE  aborts = {} /\ \A r \in Ranks : rep[r] = reps /\ verdict[r] = "ok"
<1>1. /\ TypeOK /\ Verdicts /\ Aborted
      /\ CallsOf(Root) /\ Progress(Root) /\ Root \in Ranks
    BY Sizes DEF IInv
<1>2. ~Early /\ ~Verifies /\ rep[Root] > 0 /\ ~faulted /\ rep[Root] \in Nat
    BY <1>1 DEF Progress, Verdicts, TypeOK
<1>3. Len(calls[Root]) = Base + 3 * reps /\ reps \in Nat /\ reps > 0
    BY <1>1, <1>2 DEF CallsOf
<1>4. ASSUME NEW r \in Ranks PROVE Len(calls[r]) >= Base + 3 * reps
    BY <1>3 DEF AllArrived
<1>5. \A r \in Ranks : verdict[r] \in {"none", "ok"}
    BY <1>1, <1>2 DEF Verdicts, TypeOK
<1>6. aborts = {}
    <2> SUFFICES ASSUME aborts # {} PROVE FALSE
        OBVIOUS
    <2>1. PICK s \in Ranks : Len(calls[s]) <= Base \/ verdict[s] = "failed"
        BY <1>1 DEF Aborted
    <2>2. Len(calls[s]) <= Base /\ Len(calls[s]) >= Base + 3 * reps /\ Len(calls[s]) \in Nat
        <3>1. verdict[s] # "failed"
            BY <1>5
        <3>2. Len(calls[s]) \in Nat
            BY <1>1 DEF TypeOK
        <3> QED
            BY <1>4, <2>1, <3>1, <3>2
    <2> QED
        BY <1>3, <2>2, Sizes
<1>7. ASSUME NEW r \in Ranks PROVE rep[r] = reps /\ verdict[r] = "ok"
    <2>1. /\ CallsOf(r) /\ Progress(r) /\ pc[r] # "killed" /\ rep[r] \in Nat
          /\ pc[r] \in Labels /\ piece[r] \in 1 .. Base /\ Len(calls[r]) \in Nat
        BY <1>1, <1>6 DEF IInv, Aborted, TypeOK
    <2>2. Len(calls[r]) >= Base + 3 * reps /\ Len(calls[r]) > Base /\ Len(calls[r]) > 1
        BY <1>3, <1>4, <2>1, Sizes
    <2>3. rep[r] <= reps
        BY <1>3, <2>1 DEF Progress
    <2>4. pc[r] \notin {"parse", "split", "read", "mode", "buffers"}
        BY <2>1, <2>2, Sizes DEF CallsOf
    <2>5. pc[r] \notin {"prepare", "bcast"}
        <3> SUFFICES ASSUME pc[r] \in {"prepare", "bcast"} PROVE FALSE
            OBVIOUS
        <3>1. Len(calls[r]) <= piece[r] + 1 /\ piece[r] <= LastPiece
            BY <2>1 DEF CallsOf, Progress
        <3> QED
            BY <2>1, <2>2, <3>1, Sizes
    <2>6. pc[r] # "before"
        <3> SUFFICES ASSUME pc[r] = "before" PROVE FALSE
            OBVIOUS
        <3>1. Len(calls[r]) = Base + 3 * rep[r] - 2
            BY <2>1 DEF CallsOf
        <3> QED
            BY <1>3, <2>1, <2>2, <2>3, <3>1, Sizes
    <2>7. pc[r] # "runtime"
        <3> SUFFICES ASSUME pc[r] = "runtime" PROVE FALSE
            OBVIOUS
        <3>1. Len(calls[r]) = Base + 3 * rep[r] - 1
            BY <2>1 DEF CallsOf
        <3> QED
            BY <1>3, <2>1, <2>2, <2>3, <3>1, Sizes
    <2>8. CASE pc[r] \in {"after", "write"}
        <3>1. Len(calls[r]) = Base + 3 * rep[r]
            BY <2>1, <2>8 DEF CallsOf
        <3>2. rep[r] = reps
            BY <1>3, <2>1, <2>2, <2>3, <3>1, Sizes
        <3>3. verdict[r] # "none"
            BY <1>2, <2>1, <2>8 DEF Progress
        <3> QED
            BY <1>5, <3>2, <3>3
    <2>9. CASE pc[r] \in {"finalize", "exited"}
        BY <1>2, <1>5, <2>1, <2>9 DEF Progress
    <2> QED
        BY <2>1, <2>4, <2>5, <2>6, <2>7, <2>8, <2>9 DEF Labels
<1> QED
    BY <1>6, <1>7

LEMMA EndRepsInvariant ==
    ASSUME IInv, NEW r \in Ranks, EndReps(r)
    PROVE  IInv'
<1>1. /\ TypeOK /\ CallsOf(r) /\ Progress(r) /\ Code(r) /\ Verdicts
      /\ UNCHANGED <<parsed, wire, problem, piece, rep, exitCode, aborts, output,
                     faulted, matches, verdict>>
      /\ pc[r] = "after" /\ AllArrived(r) /\ verdict[r] # "failed" /\ rep[r] = reps
    BY DEF IInv, EndReps, SearchFailed, hostVars, commVars, jobVars
<1>2. /\ ~Early /\ ~Verifies /\ piece[r] = Base /\ rep[r] > 0 /\ verdict[r] = "ok"
      /\ rep[r] \in Nat /\ Len(calls[r]) = Base + 3 * rep[r] /\ exitCode[r] = 0
    BY <1>1 DEF Progress, TypeOK, CallsOf, Code
<1>3. ASSUME r # Root PROVE IInv'
    <2>1. Enter(r, "Finalize", "finalize")
        BY <1>3 DEF EndReps
    <2>2. "Finalize" \in Kinds /\ "Finalize" = KindAt(Len(calls[r]) + 1)
        BY <1>1, <1>2, FinalCall DEF Kinds
    <2>3. /\ pc' = [pc EXCEPT ![r] = "finalize"] /\ pc'[r] = "finalize"
          /\ calls' \in [Ranks -> Seq(Kinds)]
          /\ \A u \in Ranks \ {r} : calls'[u] = calls[u] /\ pc'[u] = pc[u]
          /\ Len(calls'[r]) = Len(calls[r]) + 1
        BY <1>1, <2>1, <2>2, EnterEffect
    <2>4. \A n \in 1 .. Len(calls'[r]) : calls'[r][n] = KindAt(n)'
        BY <1>1, <2>1, <2>2, EnterKinds
    <2>5. CallsOf(r)'
        <3>1. Len(calls'[r]) = Base + 3 * rep[r] + 1
            BY <1>2, <2>3
        <3> QED
            BY <1>1, <1>2, <2>3, <2>4, <3>1, SameCommandLine DEF CallsOf
    <2>6. Progress(r)'
        BY <1>1, <1>2, <2>3, SameCommandLine DEF Progress
    <2>7. Code(r)'
        BY <1>1, <1>2, <1>3, <2>3, SameCommandLine DEF Code, Early
    <2>8. "finalize" \in Labels \ {"killed"} /\ exitCode' \in [Ranks -> Nat]
        BY <1>1 DEF Labels, TypeOK
    <2> QED
        BY <1>1, <1>3, <2>3, <2>5, <2>6, <2>7, <2>8, QuietInvariant
<1>4. ASSUME r = Root PROVE IInv'
    <2>1. Goto(r, "write")
        BY <1>4 DEF EndReps
    <2>2. /\ pc' = [pc EXCEPT ![r] = "write"] /\ pc'[r] = "write" /\ calls' = calls
          /\ \A u \in Ranks \ {r} : pc'[u] = pc[u]
        BY <1>1, <2>1, GotoEffect
    <2>3. TypeOK'
        BY <1>1, <2>2 DEF TypeOK, Labels
    <2>4. CallsOf(r)' /\ Code(r)'
        BY <1>1, <1>2, <2>2, SameCommandLine DEF CallsOf, Code
    <2>5. Progress(r)'
        BY <1>1, <1>2, <1>4, <2>2, SameCommandLine DEF Progress
    <2>6. \A u \in Ranks : CallsOf(u)' /\ Progress(u)' /\ Code(u)'
        BY <1>1, <2>2, <2>4, <2>5, OthersKeep
    <2>7. Wire'
        BY <1>1, <1>4, <2>2, WireKept
    <2>8. Verdicts'
        BY <1>1 DEF Verdicts
    <2>9. Aborted'
        BY <1>1, <2>2, AbortedKept
    <2>10. Done'
        <3>1. aborts = {} /\ \A u \in Ranks : rep[u] = reps /\ verdict[u] = "ok"
            BY <1>1, <1>2, <1>4, AllSucceeded
        <3>2. output = <<>>
            BY <1>1, <1>4 DEF IInv, Done, RootDone
        <3>3. pc'[Root] = "write"
            BY <1>4, <2>2
        <3>4. DOMAIN output' = {}
            BY <1>1, <3>2
        <3> QED
            BY <1>1, <3>1, <3>2, <3>3, <3>4, SameCommandLine DEF Done, RootDone
    <2> QED
        BY <2>3, <2>6, <2>7, <2>8, <2>9, <2>10 DEF IInv
<1> QED
    BY <1>3, <1>4

LEMMA WriteResultsInvariant ==
    ASSUME IInv, NEW r \in Ranks, WriteResults(r)
    PROVE  IInv'
<1>1. /\ TypeOK /\ CallsOf(r) /\ Progress(r) /\ Code(r) /\ Verdicts
      /\ UNCHANGED <<parsed, wire, problem, piece, rep, aborts, faulted, matches, verdict>>
      /\ pc[r] = "write" /\ Enter(r, "Finalize", "finalize")
    BY DEF IInv, WriteResults, hostVars, commVars, jobVars
<1>2. /\ r = Root /\ ~Early /\ ~Verifies /\ rep[r] > 0 /\ rep[r] = reps /\ rep[r] \in Nat
      /\ Len(calls[r]) = Base + 3 * rep[r] /\ verdict[r] # "none"
    BY <1>1 DEF Progress, TypeOK, CallsOf
<1>3. aborts = {} /\ \A u \in Ranks : rep[u] = reps /\ verdict[u] = "ok"
    BY <1>1, <1>2 DEF IInv, Done, RootDone
<1>4. matches = Canonical
    BY <1>1, <1>2, <1>3 DEF Verdicts
<1>5. /\ exitCode[r] = 0
      /\ \/ exitCode' = exitCode
         \/ exitCode' = [exitCode EXCEPT ![r] = WriteError]
    BY <1>1 DEF WriteResults, Code
<1>6. exitCode \in [Ranks -> Nat] /\ WriteError \in Nat
    BY <1>1 DEF TypeOK, WriteError
<1>7. /\ exitCode' \in [Ranks -> Nat] /\ exitCode'[r] \in {0, WriteError}
      /\ \A u \in Ranks \ {r} : exitCode'[u] = exitCode[u]
    BY <1>5, <1>6
<1>8. PICK n \in 0 .. P :
          /\ output' = Lines(n)
          /\ ~ToStdout /\ exitCode'[r] = 0 => n = P
    <2>1. P \in Nat /\ P \in 0 .. P
        BY SizesAssumption
    <2>2. CASE (\E n \in IF ToStdout THEN 0 .. P ELSE {P} : output' = Lines(n))
               /\ UNCHANGED exitCode
        BY <2>1, <2>2
    <2>3. CASE (\E n \in 0 .. P : output' = Lines(n))
               /\ exitCode' = [exitCode EXCEPT ![r] = WriteError]
        <3>1. exitCode'[r] # 0
            BY <1>6, <2>3 DEF WriteError
        <3> QED
            BY <2>3, <3>1
    <2> QED
        BY <2>2, <2>3 DEF WriteResults
<1>9. "Finalize" \in Kinds /\ "Finalize" = KindAt(Len(calls[r]) + 1)
    BY <1>2, FinalCall DEF Kinds
<1>10. /\ pc' = [pc EXCEPT ![r] = "finalize"] /\ pc'[r] = "finalize"
       /\ calls' \in [Ranks -> Seq(Kinds)]
       /\ \A u \in Ranks \ {r} : calls'[u] = calls[u] /\ pc'[u] = pc[u]
       /\ Len(calls'[r]) = Len(calls[r]) + 1
    BY <1>1, <1>9, EnterEffect
<1>11. \A m \in 1 .. Len(calls'[r]) : calls'[r][m] = KindAt(m)'
    BY <1>1, <1>9, EnterKinds
<1>12. TypeOK'
    BY <1>1, <1>7, <1>10 DEF TypeOK, Labels
<1>13. CallsOf(r)'
    <2>1. Len(calls'[r]) = Base + 3 * rep[r] + 1
        BY <1>2, <1>10
    <2> QED
        BY <1>1, <1>2, <1>10, <1>11, <2>1, SameCommandLine DEF CallsOf
<1>14. Progress(r)'
    BY <1>1, <1>2, <1>10, SameCommandLine DEF Progress
<1>15. Code(r)'
    BY <1>1, <1>2, <1>7, <1>10, SameCommandLine DEF Code, Early, WriteError
<1>16. \A u \in Ranks : CallsOf(u)' /\ Progress(u)' /\ Code(u)'
    BY <1>1, <1>7, <1>10, <1>13, <1>14, <1>15, OthersKeep
<1>17. Wire'
    BY <1>1, <1>2, <1>10, WireKept
<1>18. Verdicts'
    BY <1>1 DEF Verdicts
<1>19. Aborted'
    BY <1>1, <1>10, AbortedKept
<1>20. Done'
    <2>1. output' = [i \in 1 .. n |-> Canonical[i]]
        BY <1>4, <1>8 DEF Lines
    <2>2. \A i \in DOMAIN output' : output'[i] = Canonical[i]
        BY <2>1
    <2>3. ~ToStdout /\ exitCode'[r] = 0 => output' = [i \in Pictures |-> Canonical[i]]
        BY <1>8, <2>1 DEF Pictures
    <2>4. pc'[Root] = "finalize" /\ RootDone'
        BY <1>2, <1>10, <1>1, SameCommandLine DEF RootDone
    <2> QED
        BY <1>1, <1>2, <1>3, <2>2, <2>3, <2>4, SameCommandLine DEF Done
<1> QED
    BY <1>12, <1>16, <1>17, <1>18, <1>19, <1>20 DEF IInv

-----------------------------------------------------------------------------
(* The theorems *)

LEMMA StepInvariant == IInv /\ [Next]_vars => IInv'
<1> SUFFICES ASSUME IInv, [Next]_vars PROVE IInv'
    OBVIOUS
<1>1. ASSUME NEW r \in Ranks, Proceed(r) PROVE IInv'
    BY <1>1, ParseInvariant, TopologyKnownInvariant, ReadProblemInvariant,
       BroadcastInvariant, TakePieceInvariant, VerifyInvariant, ChooseBackendInvariant,
       BeginRepInvariant, CallRuntimeInvariant, InRuntimeInvariant,
       RuntimeReturnsInvariant, FailureInvariant, EndRepsInvariant,
       WriteResultsInvariant, FinalizedInvariant, Zenon DEF Proceed
<1>2. ASSUME NEW r \in Ranks, RootLeavesEarly(r) PROVE IInv'
    BY <1>2, TakePieceInvariant
<1>3. ASSUME NEW r \in Ranks, Fails(r) PROVE IInv'
    BY <1>3, FailureInvariant, InRuntimeInvariant, Zenon DEF Fails
<1>4. ASSUME NEW r \in Ranks, Killed(r) PROVE IInv'
    BY <1>4, FailureInvariant
<1>5. CASE UNCHANGED vars
    <2>1. /\ TypeOK /\ Wire /\ Verdicts /\ Aborted /\ Done
          /\ \A u \in Ranks : CallsOf(u) /\ Progress(u) /\ Code(u)
        BY DEF IInv
    <2>2. /\ UNCHANGED <<parsed, pc, calls, wire, problem, piece, rep, exitCode, aborts>>
          /\ UNCHANGED <<output, faulted, matches, verdict>>
        BY <1>5 DEF vars
    <2>3. TypeOK' /\ Wire' /\ Verdicts' /\ Aborted'
        BY <2>1, <2>2, SameCommandLine DEF TypeOK, Wire, Verdicts, Aborted
    <2>4. \A u \in Ranks : CallsOf(u)' /\ Progress(u)' /\ Code(u)'
        BY <2>1, <2>2, SameCommandLine DEF CallsOf, Progress, Code
    <2>5. Done'
        BY <2>1, <2>2, SameCommandLine DEF Done, RootDone
    <2> QED
        BY <2>3, <2>4, <2>5 DEF IInv
<1> QED
    BY <1>1, <1>2, <1>3, <1>4, <1>5 DEF Next

\* What the proofs below rest on: a rank's calls follow from where it is in
\* main, and whoever has a verdict shares it with all.
THEOREM Invariance == Spec => []IInv
<1>1. Init => IInv
    BY InitInvariant
<1>2. IInv /\ [Next]_vars => IInv'
    BY StepInvariant
<1> QED
    BY <1>1, <1>2, PTL DEF Spec

\* The n-th collective calls of any two ranks are of the same kind: none of
\* main's paths, error paths included, makes, leaves out or reorders a
\* collective call that another rank relies on.
THEOREM CallsAgree == Spec => []CollectivesMatch
<1>1. IInv => CollectivesMatch
    <2> SUFFICES ASSUME IInv, NEW r \in Ranks, NEW s \in Ranks,
                        NEW n \in DOMAIN calls[r] \cap DOMAIN calls[s]
                 PROVE  calls[r][n] = calls[s][n]
        BY DEF CollectivesMatch
    <2>1. /\ calls[r] \in Seq(Kinds) /\ calls[s] \in Seq(Kinds)
          /\ CallsOf(r) /\ CallsOf(s)
        BY DEF IInv, TypeOK
    <2>2. n \in 1 .. Len(calls[r]) /\ n \in 1 .. Len(calls[s])
        BY <2>1
    <2> QED
        BY <2>1, <2>2 DEF CallsOf
<1> QED
    BY <1>1, Invariance, PTL

\* msearch_broadcast_problem delivers every piece into the place it is meant
\* for, whatever the number of pictures and objects, and no rank is searching
\* before it has all of them.
THEOREM ProblemIsShared == Spec => []SameProblem
<1>1. IInv => SameProblem
    <2> SUFFICES ASSUME IInv, NEW r \in Ranks
                 PROVE  /\ r # Root => \A p \in Header .. piece[r] - 1 :
                                           problem[r][p] = problem[Root][p]
                        /\ pc[r] \in {"before", "runtime", "after"} =>
                               \A p \in Pieces : problem[r][p] = p
        BY DEF SameProblem
    <2>1. Wire /\ piece[r] \in 1 .. Base /\ wire \in Seq(Nat) /\ Progress(r)
        BY DEF IInv, TypeOK
    <2>2. ASSUME r # Root, NEW p \in Header .. piece[r] - 1
          PROVE  problem[r][p] = problem[Root][p]
        <3>1. p \in Pieces /\ p < piece[r] /\ p \in Nat /\ p > 0
            BY <2>1, Sizes DEF Header
        <3>2. problem[r][p] = p /\ p <= Len(wire)
            BY <2>1, <2>2, <3>1 DEF Wire
        <3>3. Len(wire) > 0
            BY <2>1, <3>1, <3>2
        <3> QED
            BY <2>1, <3>1, <3>2, <3>3 DEF Wire
    <2>3. ASSUME pc[r] \in {"before", "runtime", "after"}, NEW p \in Pieces
          PROVE  problem[r][p] = p
        <3>1. CASE r = Root
            BY <2>1, <2>3, <3>1 DEF Wire
        <3>2. CASE r # Root
            <4>1. piece[r] = Base
                BY <2>1, <2>3 DEF Progress
            <4>2. p < piece[r]
                BY <2>3, <4>1, Sizes
            <4> QED
                BY <2>1, <3>2, <4>2 DEF Wire
        <3> QED
            BY <3>1, <3>2
    <2> QED
        BY <2>2, <2>3
<1> QED
    BY <1>1, Invariance, PTL

\* When the root writes, every rank has been through all repetitions with
\* success and nobody aborts the world; and what it writes is a beginning of
\* the canonical results, for any number of ranks and repetitions.
THEOREM WrittenAfterSuccess == Spec => []OutputOnlyAfterSuccess
<1>1. IInv => OutputOnlyAfterSuccess
    <2> SUFFICES ASSUME IInv, output # <<>> \/ pc[Root] = "write"
                 PROVE  /\ aborts = {}
                        /\ \A r \in Ranks : rep[r] = reps /\ verdict[r] = "ok"
                        /\ \A i \in DOMAIN output : output[i] = Canonical[i]
        BY DEF OutputOnlyAfterSuccess
    <2>1. Done /\ Progress(Root)
        BY Sizes DEF IInv
    <2>2. RootDone
        BY <2>1 DEF Done, Progress, RootDone
    <2> QED
        BY <2>1, <2>2 DEF Done
<1> QED
    BY <1>1, Invariance, PTL

\* When all ranks have come to the end of main, their exit codes agree but for
\* a failed write or verification on the root, and exit code 0 after a search
\* means that the file holds all results.
THEOREM ExitCodesAgree == Spec => []ExitCodesTell
<1>1. IInv => ExitCodesTell
    <2> SUFFICES ASSUME IInv, \A r \in Ranks : pc[r] = "exited"
                 PROVE  /\ \A r \in Ranks : r = Root \/ exitCode[r] \in {0, exitCode[Root]}
                        /\ \A r \in Ranks : exitCode[r] = 2 <=> exitCode[Root] = 2
                        /\ Searches /\ ~ToStdout /\ exitCode[Root] = 0 =>
                               output = [i \in Pictures |-> Canonical[i]]
        BY DEF ExitCodesTell
    <2>1. Done /\ Root \in Ranks /\ pc[Root] = "exited" /\ Code(Root)
        BY Sizes DEF IInv
    <2>2. ASSUME NEW r \in Ranks
          PROVE  /\ r = Root \/ exitCode[r] \in {0, exitCode[Root]}
                 /\ exitCode[r] = 2 <=> exitCode[Root] = 2
        <3>1. Code(r) /\ pc[r] = "exited"
            BY DEF IInv
        <3>2. R > 1 \/ r = Root
            BY WorldAssumption DEF Ranks, Root
        <3> QED
            BY <2>1, <3>1, <3>2 DEF Code, Early, Verifies, WriteError
    <2>3. Searches => RootDone
        BY <2>1 DEF Searches, RootDone, Early, Verifies
    <2> QED
        BY <2>1, <2>2, <2>3 DEF Done
<1> QED
    BY <1>1, Invariance, PTL

-----------------------------------------------------------------------------
(* The cores of a node *)

OnItsNode == {"read", "prepare", "bcast", "mode", "buffers", "before", "runtime", "after",
              "write"}

\* A rank that has split the world knows how many share its node.
NodeKnown ==
    /\ DOMAIN nodeRanks = Ranks
    /\ \A r \in Ranks : pc[r] \in OnItsNode => nodeRanks[r] = Cardinality(NodeMates(r))

LEMMA NodeKnownStep == TypeOK /\ NodeKnown /\ [Next]_vars => NodeKnown'
<1> SUFFICES ASSUME TypeOK, NodeKnown, [Next]_vars PROVE NodeKnown'
    OBVIOUS
<1>1. \A u \in Ranks : NodeMates(u)' = NodeMates(u)
    BY DEF NodeMates
<1>2. ASSUME UNCHANGED nodeRanks,
             \A u \in Ranks : pc'[u] \in OnItsNode => pc[u] \in OnItsNode
      PROVE  NodeKnown'
    BY <1>1, <1>2 DEF NodeKnown
<1>3. pc \in [Ranks -> Labels]
    BY DEF TypeOK
<1>4. ASSUME NEW r \in Ranks, UNCHANGED nodeRanks, NEW label,
             pc' = [pc EXCEPT ![r] = label],
             label \in OnItsNode => pc[r] \in OnItsNode
      PROVE  NodeKnown'
    BY <1>2, <1>3, <1>4
<1>5. ASSUME NEW r \in Ranks, TopologyKnown(r) PROVE NodeKnown'
    <2>1. PICK label : pc' = [pc EXCEPT ![r] = label]
        BY <1>5 DEF TopologyKnown, Goto
    <2>2. nodeRanks' = [nodeRanks EXCEPT ![r] = Cardinality(NodeMates(r))]
        BY <1>5 DEF TopologyKnown
    <2> QED
        BY <1>1, <1>3, <2>1, <2>2 DEF NodeKnown
<1>6. ASSUME NEW r \in Ranks,
             Parse(r) \/ Verify(r) \/ GiveUp(r) \/ Finalized(r) \/ ReadFails(r)
                 \/ AllocationFails(r) \/ BackendUnusable(r) \/ BuffersFail(r) \/ Killed(r)
                 \/ WriteResults(r)
      PROVE  NodeKnown'
    <2>1. UNCHANGED nodeRanks
        BY <1>6 DEF Parse, Verify, GiveUp, Finalized, ReadFails, AllocationFails,
           BackendUnusable, BuffersFail, Killed, WriteResults, hostVars
    <2>2. PICK label \in {"finalize", "exited", "killed", "split"} :
              pc' = [pc EXCEPT ![r] = label]
        BY <1>6 DEF Parse, Verify, GiveUp, Finalized, ReadFails, AllocationFails,
           BackendUnusable, BuffersFail, Killed, WriteResults, Enter, Goto, abort_all
    <2> QED
        BY <1>4, <2>1, <2>2 DEF OnItsNode
<1>7. ASSUME NEW r \in Ranks,
             ReadProblem(r) \/ Broadcast(r) \/ Received(r) \/ RootLeavesEarly(r)
                 \/ ChooseBackend(r)
      PROVE  NodeKnown'
    <2>1. UNCHANGED nodeRanks /\ pc[r] \in OnItsNode
        BY <1>7 DEF ReadProblem, Broadcast, Received, RootLeavesEarly, TakePiece,
           ChooseBackend, hostVars, OnItsNode
    <2>2. PICK label : pc' = [pc EXCEPT ![r] = label]
        BY <1>7 DEF ReadProblem, Broadcast, Received, RootLeavesEarly, TakePiece,
           ChooseBackend, Enter, Goto
    <2> QED
        BY <1>4, <2>1, <2>2
<1>8. ASSUME NEW r \in Ranks,
             BeginRep(r) \/ CallRuntime(r) \/ RuntimeReturns(r) \/ EndReps(r)
      PROVE  NodeKnown'
    <2>1. UNCHANGED nodeRanks /\ pc[r] \in OnItsNode
        BY <1>8 DEF BeginRep, CallRuntime, RuntimeReturns, EndReps, hostVars, OnItsNode
    <2>2. PICK label : pc' = [pc EXCEPT ![r] = label]
        BY <1>8 DEF BeginRep, CallRuntime, RuntimeReturns, EndReps, Enter, Goto
    <2> QED
        BY <1>4, <2>1, <2>2
<1>9. ASSUME NEW r \in Ranks, StoreResult(r) \/ MeetFault(r) PROVE NodeKnown'
    <2>1. UNCHANGED <<nodeRanks, pc>>
        BY <1>9 DEF StoreResult, MeetFault, hostVars
    <2> QED
        BY <1>2, <2>1
<1>10. CASE UNCHANGED vars
    <2>1. UNCHANGED <<nodeRanks, pc>>
        BY <1>10 DEF vars
    <2> QED
        BY <1>2, <2>1
<1> QED
    BY <1>5, <1>6, <1>7, <1>8, <1>9, <1>10, Zenon DEF Next, Proceed, Fails

LEMMA LargerOfTwo ==
    ASSUME NEW a \in Int, NEW b \in Int
    PROVE  Max({a, b}) \in {a, b} /\ Max({a, b}) >= a /\ Max({a, b}) >= b
<1>1. \E x \in {a, b} : \A y \in {a, b} : x >= y
    BY a >= b \/ b >= a
<1>2. Max({a, b}) \in {a, b} /\ \A y \in {a, b} : Max({a, b}) >= y
    BY <1>1 DEF Max
<1> QED
    BY <1>2

\* A share of the cores for each, or a thread each, is no more than there is.
LEMMA SharesFit ==
    ASSUME NEW cores \in Nat, NEW all \in Nat \ {0}, NEW some \in 0 .. all, NEW t \in Nat,
           t = IF cores \div all > 0 THEN cores \div all ELSE 1
    PROVE  some * t <= cores \/ some * t <= all
<1> DEFINE share == cores \div all
<1>1. share \in Nat /\ all * share <= cores
    BY Z3
<1> HIDE DEF share
<1>2. CASE share > 0
    <2>1. t = share
        BY <1>2 DEF share
    <2>2. some * share <= all * share
        <3>1. PICK d \in Nat : all = some + d
            BY all - some \in Nat, all = some + (all - some)
        <3>2. all * share = some * share + d * share
            BY <1>1, <3>1
        <3>3. d * share \in Nat /\ some * share \in Nat
            BY <1>1, <3>1
        <3> QED
            BY <3>2, <3>3
    <2>3. some * share \in Nat /\ all * share \in Nat
        BY <1>1
    <2> QED
        BY <1>1, <2>1, <2>2, <2>3
<1>3. CASE ~(share > 0)
    <2>1. t = 1
        BY <1>3 DEF share
    <2> QED
        BY <2>1
<1> QED
    BY <1>2, <1>3

LEMMA MatesCounted ==
    ASSUME NEW r \in Ranks
    PROVE  /\ IsFiniteSet(NodeMates(r)) /\ IsFiniteSet(SearchingMates(r))
           /\ Cardinality(NodeMates(r)) \in Nat \ {0}
           /\ Cardinality(SearchingMates(r)) \in 0 .. Cardinality(NodeMates(r))
<1>1. IsFiniteSet(Ranks)
    <2> DEFINE b == R - 1
    <2>1. b \in Int
        BY WorldAssumption
    <2> HIDE DEF b
    <2>2. IsFiniteSet(0 .. b)
        BY <2>1, FS_Interval
    <2> QED
        BY <2>2 DEF b, Ranks
<1>2. NodeMates(r) \in SUBSET Ranks
    BY DEF NodeMates
<1>3. SearchingMates(r) \in SUBSET NodeMates(r)
    BY DEF SearchingMates
<1>4. IsFiniteSet(NodeMates(r))
    BY <1>1, <1>2, FS_Subset
<1>5. /\ IsFiniteSet(SearchingMates(r))
      /\ Cardinality(SearchingMates(r)) <= Cardinality(NodeMates(r))
    BY <1>3, <1>4, FS_Subset
<1>6. Cardinality(NodeMates(r)) \in Nat /\ Cardinality(SearchingMates(r)) \in Nat
    BY <1>4, <1>5, FS_CardinalityType
<1>7. Cardinality(NodeMates(r)) # 0
    <2>1. r \in NodeMates(r)
        BY DEF NodeMates
    <2> QED
        BY <1>4, <2>1, FS_EmptySet
<1> QED
    BY <1>4, <1>5, <1>6, <1>7

LEMMA NodeHoldsThreads ==
    ASSUME NodeKnown, NEW r \in Ranks, NEW cores \in Nat \ {0}, config.threads = 0
    PROVE  NodeHolds(r, cores)
<1> DEFINE all == Cardinality(NodeMates(r))
           some == Cardinality(SearchingMates(r))
           share == cores \div all
           t == IF share > 0 THEN share ELSE 1
<1>1. /\ all \in Nat \ {0} /\ some \in 0 .. all /\ IsFiniteSet(SearchingMates(r))
    BY MatesCounted
<1>2. share \in Int
    BY <1>1
<1>3. t \in Nat \ {0}
    BY <1>2
<1>4. ASSUME NEW s \in SearchingMates(r) PROVE resolve_thread_count(s, cores) = t
    <2>1. s \in Ranks /\ NodeMates(s) = NodeMates(r) /\ pc[s] = "runtime"
        BY DEF SearchingMates, NodeMates
    <2>2. nodeRanks[s] = all
        BY <2>1 DEF NodeKnown, OnItsNode
    <2>3. ~(config.threads > 0)
        BY ~(0 > 0)
    <2> QED
        BY <2>2, <2>3 DEF resolve_thread_count, Share
<1> HIDE DEF t
<1>5. NodeThreads(r, cores) = SearchingMates(r) \X (1 .. t)
    BY <1>4 DEF NodeThreads
<1>6. \A s \in SearchingMates(r) : <<s, 1>> \in NodeThreads(r, cores)
    BY <1>3, <1>5
<1>7. IsFiniteSet(1 .. t) /\ Cardinality(1 .. t) = t
    <2>1. IsFiniteSet(1 .. t) /\ Cardinality(1 .. t) = IF 1 > t THEN 0 ELSE t - 1 + 1
        BY <1>3, FS_Interval
    <2> QED
        BY <1>3, <2>1
<1>8. Cardinality(NodeThreads(r, cores)) = some * t
    BY <1>1, <1>5, <1>7, FS_Product
<1>9. some * t <= cores \/ some * t <= all
    <2>1. t = IF cores \div all > 0 THEN cores \div all ELSE 1
        BY DEF t
    <2> HIDE DEF all, some
    <2> QED
        BY <1>1, <1>3, <2>1, SharesFit
<1>10. /\ Max({cores, all}) >= cores /\ Max({cores, all}) >= all
       /\ Max({cores, all}) \in Int
    <2>1. cores \in Int /\ all \in Int
        BY <1>1
    <2> HIDE DEF all
    <2>2. /\ Max({cores, all}) \in {cores, all}
          /\ Max({cores, all}) >= cores
          /\ Max({cores, all}) >= all
        BY <2>1, LargerOfTwo
    <2>3. Max({cores, all}) \in Int
        BY <2>1, <2>2, Zenon
    <2> QED
        BY <2>2, <2>3
<1>11. some * t <= Max({cores, all})
    <2> HIDE DEF all, some
    <2>1. some * t \in Int
        BY <1>1, <1>3
    <2> QED
        BY <1>1, <1>9, <1>10, <2>1
<1> QED
    BY <1>6, <1>8, <1>11 DEF NodeHolds

\* Dividing the cores of a node by the ranks that share it is safe, whatever
\* their number: the ranks that search have a thread each and together no more
\* than the node has cores, or than it has ranks.
THEOREM NodesNotOversubscribed == Spec => []NodeNotOversubscribed
<1>1. Init => NodeKnown
    BY DEF Init, NodeKnown, OnItsNode
<1>2. IInv /\ NodeKnown /\ [Next]_vars => NodeKnown'
    BY NodeKnownStep DEF IInv
<1>3. NodeKnown => NodeNotOversubscribed
    <2> SUFFICES ASSUME NodeKnown, NEW r \in Ranks, config.threads = 0,
                        NEW cores \in 1 .. 2 * R
                 PROVE  NodeHolds(r, cores)
        BY DEF NodeNotOversubscribed
    <2>1. cores \in Nat \ {0}
        BY WorldAssumption
    <2> QED
        BY <2>1, NodeHoldsThreads
<1> QED
    BY <1>1, <1>2, <1>3, Invariance, PTL DEF Spec

-----------------------------------------------------------------------------
(* The command line *)

\* A set of numbers that is not empty has a least one: the proofs that a pass over
\* the arguments needs look at the first argument where a claim would fail.
LEMMA LeastNatural ==
    ASSUME NEW T \in SUBSET Nat, T # {}
    PROVE  \E t \in T : \A o \in T : t <= o
<1> DEFINE D == {ss \in Nat \X Nat : ss[1] < ss[2]}
<1>1. IsWellFoundedOn(D, Nat)
    BY NatLessThanWellFounded DEF OpToRel
<1>2. PICK t \in T : \A o \in T : ~(<<o, t>> \in D)
    <2> HIDE DEF D
    <2> QED
        BY <1>1, WFMin
<1>3. \A o \in T : t <= o
    <2> TAKE o \in T
    <2>1. t \in Nat /\ o \in Nat /\ ~(<<o, t>> \in D)
        BY <1>2
    <2> QED
        BY <2>1
<1> QED
    BY <1>3

\* f is what the loop makes of the first arguments of the line, up to the c-th.
IsPass(f, line, c) ==
    f = [p \in 0 .. c |-> IF p = 0 THEN Start ELSE TakeArgument(f[p - 1], line[p])]

\* There is such a function for every number of arguments.
LEMMA PassExists ==
    ASSUME NEW line, NEW l \in Nat
    PROVE  \E f : IsPass(f, line, l)
<1> DEFINE Without == {c \in 0 .. l : ~ \E f : IsPass(f, line, c)}
<1> SUFFICES ASSUME Without # {} PROVE FALSE
    <2>1. l \in 0 .. l
        OBVIOUS
    <2> QED
        BY <2>1
<1>1. Without \in SUBSET Nat
    OBVIOUS
<1>2. PICK c \in Without : \A o \in Without : c <= o
    <2> HIDE DEF Without
    <2> QED
        BY <1>1, LeastNatural
<1>3. c \in 0 .. l /\ c \in Nat /\ ~ \E f : IsPass(f, line, c)
    OBVIOUS
<1>4. CASE c = 0
    <2>1. IsPass([p \in 0 .. 0 |-> Start], line, 0)
        BY DEF IsPass
    <2> QED
        BY <1>3, <1>4, <2>1
<1>5. CASE c > 0
    <2>1. c - 1 \in 0 .. l /\ c - 1 < c
        BY <1>3, <1>5
    <2>2. c - 1 \notin Without
        <3> HIDE DEF Without
        <3>1. c - 1 \in Int /\ c \in Int
            BY <1>3
        <3> QED
            BY <1>2, <2>1, <3>1
    <2>3. PICK f : IsPass(f, line, c - 1)
        BY <2>1, <2>2
    <2> DEFINE g == [p \in 0 .. c |-> IF p = 0 THEN Start ELSE TakeArgument(f[p - 1], line[p])]
    <2>4. \A p \in 0 .. c - 1 : g[p] = f[p]
        <3>1. \A p \in 0 .. c - 1 : p \in 0 .. c
            BY <1>3
        <3>2. \A p \in 0 .. c - 1 :
                  f[p] = IF p = 0 THEN Start ELSE TakeArgument(f[p - 1], line[p])
            BY <2>3 DEF IsPass
        <3> QED
            BY <3>1, <3>2
    <2>5. \A p \in 1 .. c : p - 1 \in 0 .. c - 1
        BY <1>3
    <2>6. \A p \in 0 .. c : p = 0 \/ p \in 1 .. c
        BY <1>3
    <2>7. g = [p \in 0 .. c |-> IF p = 0 THEN Start ELSE TakeArgument(g[p - 1], line[p])]
        <3>1. ASSUME NEW p \in 0 .. c
              PROVE  (IF p = 0 THEN Start ELSE TakeArgument(f[p - 1], line[p]))
                     = (IF p = 0 THEN Start ELSE TakeArgument(g[p - 1], line[p]))
            <4> HIDE DEF g
            <4> QED
                BY <2>4, <2>5, <2>6
        <3> QED
            BY <3>1
    <2> HIDE DEF g
    <2> QED
        BY <1>3, <2>7 DEF IsPass
<1> QED
    BY <1>3, <1>4, <1>5

\* The loop of msearch_config_parse begins with the defaults and takes the
\* arguments one after the other.
LEMMA PassIsDefined ==
    ASSUME NEW line \in Seq(STRING)
    PROVE  /\ Pass(line)[0] = Start
           /\ \A p \in 1 .. Len(line) :
                  Pass(line)[p] = TakeArgument(Pass(line)[p - 1], line[p])
<1>1. Len(line) \in Nat
    OBVIOUS
<1> DEFINE Def(f) == f = [p \in 0 .. Len(line) |->
                          IF p = 0 THEN Start ELSE TakeArgument(f[p - 1], line[p])]
<1>2. \E f : Def(f)
    BY <1>1, PassExists DEF IsPass
<1>3. Pass(line) = CHOOSE f : Def(f)
    BY DEF Pass
<1>4. Def(Pass(line))
    <2> HIDE DEF Def
    <2> QED
        BY <1>2, <1>3
<1>5. \A p \in 0 .. Len(line) :
          Pass(line)[p] = IF p = 0 THEN Start ELSE TakeArgument(Pass(line)[p - 1], line[p])
    BY <1>4
<1>6. 0 \in 0 .. Len(line) /\ \A p \in 1 .. Len(line) : p \in 0 .. Len(line) /\ p # 0
    BY <1>1
<1> QED
    BY <1>5, <1>6

-----------------------------------------------------------------------------
(* Values and words *)

\* V holds the positions of the values among the first c arguments.
HoldsValues(V, line, c) ==
    \A p \in 1 .. c : p \in V <=> p - 1 \in (1 .. c) \ V /\ line[p - 1] \in ValueOptions

\* The words of a line and the values of its options can be told apart, up to any
\* argument.
LEMMA ValuesExist ==
    ASSUME NEW line, NEW l \in Nat
    PROVE  \E V \in SUBSET (1 .. l) : HoldsValues(V, line, l)
<1> DEFINE Good(c) == \E V \in SUBSET (1 .. c) : HoldsValues(V, line, c)
           Without == {c \in 0 .. l : ~Good(c)}
<1> SUFFICES ASSUME Without # {} PROVE FALSE
    <2>1. l \in 0 .. l
        OBVIOUS
    <2> QED
        BY <2>1
<1>1. Without \in SUBSET Nat
    OBVIOUS
<1>2. PICK c \in Without : \A o \in Without : c <= o
    <2> HIDE DEF Without
    <2> QED
        BY <1>1, LeastNatural
<1>3. c \in 0 .. l /\ c \in Nat /\ ~Good(c)
    <2> HIDE DEF Good
    <2> QED
        BY <1>2
<1>4. CASE c = 0
    <2>1. HoldsValues({}, line, 0) /\ {} \in SUBSET (1 .. 0)
        BY DEF HoldsValues
    <2> QED
        BY <1>3, <1>4, <2>1
<1>5. CASE c > 0
    <2>1. c - 1 \in 0 .. l /\ c - 1 < c
        BY <1>3, <1>5
    <2>2. Good(c - 1)
        <3> HIDE DEF Good
        <3>1. c - 1 \notin Without
            <4> HIDE DEF Without
            <4>1. c - 1 \in Int /\ c \in Int
                BY <1>3
            <4> QED
                BY <1>2, <2>1, <4>1
        <3> QED
            BY <2>1, <3>1
    <2>3. PICK V \in SUBSET (1 .. c - 1) : HoldsValues(V, line, c - 1)
        BY <2>2
    <2> DEFINE New == c - 1 \in (1 .. c) \ V /\ line[c - 1] \in ValueOptions
               W == V \cup {p \in {c} : New}
    <2>4. W \in SUBSET (1 .. c) /\ \A p \in 1 .. c - 1 : p \in W <=> p \in V
        <3>1. (\A p \in V : p \in 1 .. c - 1) /\ c \in 1 .. c
            BY <1>3, <1>5, <2>3
        <3>2. \A p \in 1 .. c - 1 : p \in 1 .. c /\ p # c
            BY <1>3
        <3> HIDE DEF New
        <3> QED
            BY <3>1, <3>2
    <2>5. c \in W <=> New
        BY <1>3, <2>3
    <2>6. ASSUME NEW p \in 1 .. c
          PROVE  p \in W <=> p - 1 \in (1 .. c) \ W /\ line[p - 1] \in ValueOptions
        <3>1. p - 1 \in 1 .. c - 1 <=> p - 1 \in 1 .. c
            BY <1>3
        <3>2. p - 1 \in (1 .. c) \ W <=> p - 1 \in (1 .. c) \ V
            <4> HIDE DEF W
            <4> QED
                BY <2>4, <3>1
        <3>3. CASE p = c
            <4>1. p \in W <=> p - 1 \in (1 .. c) \ V /\ line[p - 1] \in ValueOptions
                <5> HIDE DEF W
                <5> QED
                    BY <2>5, <3>3
            <4> HIDE DEF W, New
            <4> QED
                BY <3>2, <4>1
        <3>4. CASE p # c
            <4>1. p \in 1 .. c - 1
                BY <1>3, <3>4
            <4>2. p - 1 \in (1 .. c - 1) \ V <=> p - 1 \in (1 .. c) \ V
                BY <3>1
            <4>3. p \in V <=> p - 1 \in (1 .. c - 1) \ V /\ line[p - 1] \in ValueOptions
                BY <2>3, <4>1 DEF HoldsValues
            <4> HIDE DEF W, New
            <4> QED
                BY <2>4, <3>2, <4>1, <4>2, <4>3
        <3> QED
            BY <3>3, <3>4
    <2> HIDE DEF W, New
    <2> QED
        BY <1>3, <2>4, <2>6 DEF HoldsValues
<1> QED
    BY <1>3, <1>4, <1>5

\* A position is a value just when the one before is a word, and that an option
\* which takes a value.
LEMMA WordsAlternate ==
    ASSUME NEW line \in Seq(STRING)
    PROVE  /\ Words(line) \subseteq 1 .. Len(line)
           /\ 1 .. Len(line) # {} => 1 \in Words(line)
           /\ \A p \in 1 .. Len(line) - 1 :
                  p + 1 \in Words(line)
                  <=> ~(p \in Words(line) /\ line[p] \in ValueOptions)
<1>1. Len(line) \in Nat /\ DOMAIN line = 1 .. Len(line)
    OBVIOUS
<1> DEFINE V == ValuePositions(line)
           l == Len(line)
<1>2. V \in SUBSET (1 .. l) /\ HoldsValues(V, line, l)
    <2>1. \E W \in SUBSET (1 .. l) : HoldsValues(W, line, l)
        BY <1>1, ValuesExist
    <2>2. V = CHOOSE W \in SUBSET (1 .. l) : HoldsValues(W, line, l)
        BY <1>1 DEF ValuePositions, HoldsValues
    <2> HIDE DEF V, l
    <2> QED
        BY <2>1, <2>2
<1>3. Words(line) = (1 .. l) \ V
    BY <1>1 DEF Words
<1> HIDE DEF V
<1>4. ASSUME 1 \in 1 .. l PROVE 1 \in Words(line)
    <2>1. 1 - 1 \notin 1 .. l
        BY <1>1
    <2> QED
        BY <1>2, <1>3, <1>4, <2>1 DEF HoldsValues
<1>5. 1 .. l # {} => 1 \in 1 .. l
    BY <1>1
<1>6. ASSUME NEW p \in 1 .. l - 1
      PROVE  p + 1 \in Words(line) <=> ~(p \in Words(line) /\ line[p] \in ValueOptions)
    <2>1. p + 1 \in 1 .. l /\ p + 1 - 1 = p
        BY <1>1
    <2>2. p + 1 \in V <=> p \in (1 .. l) \ V /\ line[p] \in ValueOptions
        BY <1>2, <2>1 DEF HoldsValues
    <2> QED
        BY <1>3, <2>1, <2>2
<1> QED
    BY <1>3, <1>4, <1>5, <1>6

-----------------------------------------------------------------------------
(* What the loop has made of the arguments so far *)

Fields == DOMAIN Defaults
Contents == STRING \cup Int \cup BOOLEAN \cup {Defaults[field] : field \in Fields}

Passes == [
    config : [Fields -> Contents], verbosity : -1 .. 2,
    action : {"none"} \cup EarlyActions, status : {"OK", "INVALID"},
    option : {NoOption} \cup ValueOptions, returned : BOOLEAN]

\* Where a word has its effect: at the value, if it takes one.
EffectAt(line, p) == IF line[p] \in ValueOptions THEN p + 1 ELSE p

\* What a word sets its field to.
Made(line, p) ==
    IF line[p] \in ValueOptions THEN ValueOf(line[p], line[p + 1]) ELSE line[p]

SetFields == {Setting[option] : option \in ValueOptions}
SettersBy(line, c, field) == {p \in Setters(line, field) : EffectAt(line, p) <= c}

FieldTells(line, s, c, field) ==
    \/ SettersBy(line, c, field) = {} /\ s.config[field] = Defaults[field]
    \/ \E p \in SettersBy(line, c, field) :
           /\ \A q \in SettersBy(line, c, field) : q <= p
           /\ s.config[field] = Made(line, p)

Quiet(line, c) == {p \in Words(line) : p <= c /\ line[p] = "-q"}
Loud(line, c) ==
    {p \in Words(line) : p <= c /\ line[p] = "-v" /\ \A q \in Quiet(line, c) : q < p}

VerbosityTells(line, s, c) ==
    s.verbosity = IF Loud(line, c) = {} THEN IF Quiet(line, c) = {} THEN 0 ELSE -1
                  ELSE IF \E a, b \in Loud(line, c) : a # b THEN 2 ELSE 1

GoesOn(line, s, c) ==
    /\ s.status = "OK" /\ s.action = "none"
    /\ \A p \in Endings(line) : EffectAt(line, p) > c
    /\ s.option = IF c \in Words(line) /\ line[c] \in ValueOptions THEN line[c]
                                                                    ELSE NoOption
    /\ \A field \in SetFields : FieldTells(line, s, c, field)
    /\ s.config.verify <=> \E p \in Words(line) : p <= c /\ line[p] = "--verify"
    /\ VerbosityTells(line, s, c)

HasEnded(line, s) ==
    \E p \in Endings(line) :
        /\ \A q \in Endings(line) : p <= q
        /\ IF Unusable(line, p) THEN s.status = "INVALID"
                                ELSE s.status = "OK" /\ s.action = line[p]

Tells(line, s, c) ==
    /\ s \in Passes
    /\ IF s.returned THEN HasEnded(line, s) ELSE GoesOn(line, s, c)

\* The fields of the configuration that options and other words set.
LEMMA FieldsOfConfig ==
    /\ SetFields \subseteq Fields
    /\ "verify" \in Fields /\ "input_path" \in SetFields /\ "verify" \notin SetFields
    /\ "log_level" \in Fields /\ "log_level" \notin SetFields
    /\ \A option \in ValueOptions : Setting[option] \in SetFields
<1>1. Fields = {"input_path", "output_path", "backend_name", "threads", "device",
                "zero_eps", "bench_reps", "verify", "log_level"}
    BY DEF Fields, Defaults
<1>2. \A option \in ValueOptions : Setting[option] \in
          {"input_path", "output_path", "backend_name", "threads", "device", "bench_reps",
           "zero_eps"}
    BY DEF Setting, ValueOptions
<1>3. Setting["-i"] = "input_path" /\ "-i" \in ValueOptions
    BY DEF Setting, ValueOptions
<1> QED
    BY <1>1, <1>2, <1>3 DEF SetFields

\* Before the first argument nothing has been said.
LEMMA StartTells ==
    ASSUME NEW line \in Seq(STRING)
    PROVE  Tells(line, Start, 0)
<1>1. Words(line) \subseteq 1 .. Len(line) /\ Len(line) \in Nat
    BY WordsAlternate
<1>2. \A p \in Words(line) : 
          p \in Nat /\ p > 0 /\ EffectAt(line, p) \in Nat /\ EffectAt(line, p) > 0
    BY <1>1 DEF EffectAt
<1>3. Start \in Passes
    <2>1. Defaults \in [Fields -> Contents]
        BY DEF Contents, Defaults, Fields
    <2> QED
        BY <2>1 DEF Start, Passes
<1>4. ~Start.returned /\ Start.status = "OK" /\ Start.action = "none"
      /\ Start.option = NoOption /\ Start.config = Defaults /\ Start.verbosity = 0
    BY DEF Start
<1>5. \A field : SettersBy(line, 0, field) = {}
    BY <1>2 DEF SettersBy, Setters
<1>6. Quiet(line, 0) = {} /\ Loud(line, 0) = {}
    BY <1>2 DEF Quiet, Loud
<1>7. \A p \in Endings(line) : EffectAt(line, p) > 0
    BY <1>2 DEF Endings
<1>8. 0 \notin Words(line) /\ ~ \E p \in Words(line) : p <= 0
    BY <1>2
<1>9. Defaults.verify = FALSE
    BY DEF Defaults
<1> QED
    BY <1>3, <1>4, <1>5, <1>6, <1>7, <1>8, <1>9
    DEF Tells, GoesOn, FieldTells, VerbosityTells

\* Which words the next argument adds to those that have had their effect: the
\* option that has waited for it, or itself.
LEMMA NextArgument ==
    ASSUME NEW line \in Seq(STRING), NEW c \in 0 .. Len(line) - 1
    PROVE  /\ c \in Int /\ c + 1 \in 1 .. Len(line) /\ line[c + 1] \in STRING
           /\ \A p \in Words(line) : p \in Int /\ EffectAt(line, p) \in Int
           /\ \A p \in Words(line) : p <= EffectAt(line, p) /\ EffectAt(line, p) <= p + 1
           /\ c \in Words(line) /\ line[c] \in ValueOptions =>
                  /\ c + 1 \notin Words(line) /\ c \in 1 .. Len(line) - 1
                  /\ \A p \in Words(line) : p <= c + 1 <=> p <= c
                  /\ \A p \in Words(line) :
                         EffectAt(line, p) <= c + 1 <=> EffectAt(line, p) <= c \/ p = c
           /\ ~(c \in Words(line) /\ line[c] \in ValueOptions) =>
                  /\ c + 1 \in Words(line)
                  /\ \A p \in Words(line) : p <= c + 1 <=> p <= c \/ p = c + 1
                  /\ \A p \in Words(line) :
                         EffectAt(line, p) <= c + 1
                         <=> \/ EffectAt(line, p) <= c
                             \/ p = c + 1 /\ line[p] \notin ValueOptions
<1>1. /\ Len(line) \in Nat
      /\ Words(line) \subseteq 1 .. Len(line)
      /\ 1 .. Len(line) # {} => 1 \in Words(line)
      /\ \A p \in 1 .. Len(line) - 1 :
             p + 1 \in Words(line) <=> ~(p \in Words(line) /\ line[p] \in ValueOptions)
    BY WordsAlternate
<1>2. c \in Int /\ c + 1 \in 1 .. Len(line)
    BY <1>1
<1>3. line[c + 1] \in STRING
    BY <1>2
<1>4. \A p \in Words(line) : /\ p \in Int /\ p > 0 /\ p <= Len(line)
                             /\ EffectAt(line, p) \in Int
                             /\ p <= EffectAt(line, p) /\ EffectAt(line, p) <= p + 1
    BY <1>1 DEF EffectAt
<1>5. c + 1 \in Words(line) <=> ~(c \in Words(line) /\ line[c] \in ValueOptions)
    <2>1. CASE c = 0
        BY <1>1, <1>2, <1>4, <2>1
    <2>2. CASE c # 0
        <3>1. c \in 1 .. Len(line) - 1
            BY <1>1, <2>2
        <3> QED
            BY <1>1, <3>1
    <2> QED
        BY <2>1, <2>2
<1>6. ASSUME c \in Words(line), line[c] \in ValueOptions
      PROVE  /\ c \in 1 .. Len(line) - 1
             /\ \A p \in Words(line) : p <= c + 1 <=> p <= c
             /\ \A p \in Words(line) :
                    EffectAt(line, p) <= c + 1 <=> EffectAt(line, p) <= c \/ p = c
    <2>1. c + 1 \notin Words(line)
        BY <1>5, <1>6
    <2>2. ASSUME NEW p \in Words(line) PROVE p <= c + 1 <=> p <= c
        <3>1. p # c + 1
            BY <2>1
        <3> QED
            BY <1>2, <1>4, <3>1
    <2>3. ASSUME NEW p \in Words(line)
          PROVE  EffectAt(line, p) <= c + 1 <=> EffectAt(line, p) <= c \/ p = c
        <3>1. p # c + 1
            BY <2>1
        <3>2. p = c => EffectAt(line, p) = c + 1
            BY <1>6 DEF EffectAt
        <3>3. EffectAt(line, p) \in {p, p + 1}
            BY DEF EffectAt
        <3> QED
            BY <1>2, <1>4, <3>1, <3>2, <3>3
    <2> QED
        BY <1>1, <1>2, <1>4, <1>6, <2>2, <2>3
<1>7. ASSUME ~(c \in Words(line) /\ line[c] \in ValueOptions)
      PROVE  /\ \A p \in Words(line) : p <= c + 1 <=> p <= c \/ p = c + 1
             /\ \A p \in Words(line) :
                    EffectAt(line, p) <= c + 1
                    <=> \/ EffectAt(line, p) <= c
                        \/ p = c + 1 /\ line[p] \notin ValueOptions
    <2>1. \A p \in Words(line) : p <= c + 1 <=> p <= c \/ p = c + 1
        BY <1>2, <1>4
    <2>2. ASSUME NEW p \in Words(line)
          PROVE  EffectAt(line, p) <= c + 1
                 <=> \/ EffectAt(line, p) <= c
                     \/ p = c + 1 /\ line[p] \notin ValueOptions
        <3>1. CASE line[p] \in ValueOptions
            <4>1. EffectAt(line, p) = p + 1 /\ p # c
                BY <1>7, <3>1 DEF EffectAt
            <4> QED
                BY <1>2, <1>4, <3>1, <4>1
        <3>2. CASE line[p] \notin ValueOptions
            <4>1. EffectAt(line, p) = p
                BY <3>2 DEF EffectAt
            <4> QED
                BY <1>2, <1>4, <3>2, <4>1
        <3> QED
            BY <3>1, <3>2
    <2> QED
        BY <2>1, <2>2
<1> QED
    BY <1>2, <1>3, <1>4, <1>5, <1>6, <1>7

\* What an argument does not concern stays as it was told.
LEMMA FieldStays ==
    ASSUME NEW line, NEW s, NEW t, NEW c, NEW field,
           FieldTells(line, s, c, field), t.config[field] = s.config[field],
           \A p \in Setters(line, field) :
               EffectAt(line, p) <= c + 1 <=> EffectAt(line, p) <= c
    PROVE  FieldTells(line, t, c + 1, field)
<1>1. SettersBy(line, c + 1, field) = SettersBy(line, c, field)
    BY DEF SettersBy
<1> QED
    BY <1>1 DEF FieldTells

\* A field that an argument sets holds what that argument makes of it.
LEMMA FieldIsSet ==
    ASSUME NEW line \in Seq(STRING), NEW t, NEW c \in 0 .. Len(line) - 1, NEW field,
           NEW p \in Setters(line, field),
           EffectAt(line, p) <= c + 1, p = c \/ p = c + 1,
           t.config[field] = Made(line, p),
           \A q \in Setters(line, field) :
               EffectAt(line, q) <= c + 1 => EffectAt(line, q) <= c \/ q = p
    PROVE  FieldTells(line, t, c + 1, field)
<1>1. \A q \in Setters(line, field) :
          q \in Int /\ q <= EffectAt(line, q) /\ EffectAt(line, q) \in Int
    BY NextArgument DEF Setters
<1>2. c \in Int
    BY NextArgument
<1>3. \A q \in SettersBy(line, c + 1, field) : q <= p
    BY <1>1, <1>2 DEF SettersBy
<1>4. p \in SettersBy(line, c + 1, field)
    BY DEF SettersBy
<1> QED
    BY <1>3, <1>4 DEF FieldTells

\* The loudness stays as it was told, if the argument is neither "-q" nor "-v".
LEMMA VerbosityStays ==
    ASSUME NEW line, NEW s, NEW t, NEW c,
           VerbosityTells(line, s, c), t.verbosity = s.verbosity,
           \A p \in Words(line) :
               line[p] \in {"-q", "-v"} => (p <= c + 1 <=> p <= c)
    PROVE  VerbosityTells(line, t, c + 1)
<1>1. Quiet(line, c + 1) = Quiet(line, c)
    BY DEF Quiet
<1>2. Loud(line, c + 1) = Loud(line, c)
    BY <1>1 DEF Loud
<1> QED
    BY <1>1, <1>2 DEF VerbosityTells

\* The argument is the value that the word before it waits for.
LEMMA ValueTells ==
    ASSUME NEW line \in Seq(STRING), NEW c \in 0 .. Len(line) - 1,
           NEW s \in Passes, ~s.returned, GoesOn(line, s, c),
           c \in Words(line), line[c] \in ValueOptions
    PROVE  Tells(line, TakeArgument(s, line[c + 1]), c + 1)
<1> DEFINE text == line[c + 1]
           option == line[c]
           t == TakeArgument(s, text)
<1>1. /\ c \in Int /\ text \in STRING /\ c + 1 \notin Words(line)
      /\ c \in 1 .. Len(line) - 1
      /\ \A p \in Words(line) : p \in Int /\ EffectAt(line, p) \in Int
      /\ \A p \in Words(line) : p <= EffectAt(line, p) /\ EffectAt(line, p) <= p + 1
      /\ \A p \in Words(line) : p <= c + 1 <=> p <= c
      /\ \A p \in Words(line) :
             EffectAt(line, p) <= c + 1 <=> EffectAt(line, p) <= c \/ p = c
    BY NextArgument
<1>2. s.option = option /\ option # NoOption
    BY DEF GoesOn, ValueOptions, NoOption
<1>3. t = TakeValue(s, text)
    BY <1>2 DEF TakeArgument
<1>4. Unusable(line, c) <=> ~Usable(option, text)
    <2>1. c # Len(line)
        BY <1>1
    <2> QED
        BY <2>1, UnknownAssumption DEF Unusable
<1>5. option \notin EarlyActions /\ option \notin Switches
    BY DEF ValueOptions, EarlyActions, Switches
<1>6. CASE Usable(option, text)
    <2> DEFINE field == Setting[option]
               value == ValueOf(option, text)
    <2>1. field \in SetFields /\ field \in Fields
        BY FieldsOfConfig
    <2>2. value \in Contents
        <3>1. option \in Numeric => NumberOf[text] \in Int
            BY <1>6 DEF Usable, Numeric, parse_int_arg
        <3> QED
            BY <1>1, <3>1 DEF ValueOf, Contents
    <2>3. t = [s EXCEPT !.config[field] = value, !.option = NoOption]
        BY <1>2, <1>3, <1>6 DEF TakeValue
    <2>4. s.config \in [Fields -> Contents]
        BY DEF Passes
    <2> HIDE DEF t, field, value
    <2>5. /\ t.config = [s.config EXCEPT ![field] = value] /\ t.option = NoOption
          /\ t.status = s.status /\ t.action = s.action /\ t.verbosity = s.verbosity
          /\ t.returned = s.returned
        BY <2>3 DEF Passes
    <2>6. t \in Passes
        BY <2>1, <2>2, <2>3, <2>4 DEF Passes
    <2>7. \A p \in Endings(line) : EffectAt(line, p) > c + 1
        <3>1. c \notin Endings(line)
            BY <1>4, <1>5, <1>6 DEF Endings
        <3> TAKE p \in Endings(line)
        <3>2. p \in Words(line) /\ EffectAt(line, p) > c /\ p # c
            BY <3>1 DEF Endings, GoesOn
        <3>3. /\ EffectAt(line, p) \in Int /\ c \in Int
              /\ EffectAt(line, p) <= c + 1 <=> EffectAt(line, p) <= c \/ p = c
            BY <1>1, <3>2
        <3> QED
            BY <3>2, <3>3
    <2>8. ASSUME NEW f \in SetFields PROVE FieldTells(line, t, c + 1, f)
        <3>1. \A p \in Setters(line, f) : p \in Words(line)
            BY DEF Setters
        <3>2. CASE f = field
            <4>1. t.config[f] = value
                BY <2>1, <2>4, <2>5, <3>2
            <4>2. c \in Setters(line, f) /\ Made(line, c) = value
                BY <3>2 DEF Setters, Made, field, value
            <4>3. EffectAt(line, c) <= c + 1
                BY <1>1
            <4> QED
                BY <1>1, <3>1, <4>1, <4>2, <4>3, FieldIsSet
        <3>3. CASE f # field
            <4>1. t.config[f] = s.config[f]
                BY <2>1, <2>4, <2>5, <3>3, FieldsOfConfig
            <4>2. c \notin Setters(line, f)
                BY <3>3 DEF Setters, field
            <4>3. FieldTells(line, s, c, f)
                BY DEF GoesOn
            <4> QED
                BY <1>1, <3>1, <4>1, <4>2, <4>3, FieldStays
        <3> QED
            BY <3>2, <3>3
    <2>9. t.config.verify = s.config.verify
        <3>1. field # "verify"
            BY <2>1, FieldsOfConfig
        <3> QED
            BY <2>1, <2>4, <2>5, <3>1, FieldsOfConfig
    <2>10. VerbosityTells(line, t, c + 1)
        BY <1>1, <2>5, VerbosityStays DEF GoesOn
    <2> QED
        BY <1>1, <2>5, <2>6, <2>7, <2>8, <2>9, <2>10 DEF Tells, GoesOn, t
<1>7. CASE ~Usable(option, text)
    <2>1. t = Refuse(s)
        BY <1>2, <1>3, <1>7 DEF TakeValue
    <2>2. t \in Passes /\ t.returned /\ t.status = "INVALID"
        BY <2>1 DEF Refuse, Passes
    <2>3. c \in Endings(line) /\ Unusable(line, c)
        BY <1>4, <1>7 DEF Endings
    <2>4. ASSUME NEW q \in Endings(line) PROVE c <= q
        <3>1. q \in Words(line) /\ EffectAt(line, q) > c
            BY DEF Endings, GoesOn
        <3> QED
            BY <1>1, <3>1
    <2> QED
        BY <2>2, <2>3, <2>4 DEF Tells, HasEnded, t
<1> QED
    BY <1>6, <1>7

\* What a word that is neither an ending nor an option that takes a value leaves
\* as it was told: all but the field it sets and the loudness.
LEMMA PlainWordTells ==
    ASSUME NEW line \in Seq(STRING), NEW c \in 0 .. Len(line) - 1,
           NEW s \in Passes, ~s.returned, GoesOn(line, s, c),
           ~(c \in Words(line) /\ line[c] \in ValueOptions),
           line[c + 1] \notin ValueOptions, line[c + 1] \notin EarlyActions,
           line[c + 1] \notin UnknownOptions,
           NEW t \in Passes, ~t.returned,
           t.status = s.status, t.action = s.action, t.option = NoOption,
           \A field \in SetFields :
               IF field = "input_path" /\ line[c + 1] \notin Switches
               THEN t.config[field] = line[c + 1]
               ELSE t.config[field] = s.config[field],
           t.config.verify <=> s.config.verify \/ line[c + 1] = "--verify",
           VerbosityTells(line, t, c + 1)
    PROVE  Tells(line, t, c + 1)
<1> DEFINE word == line[c + 1]
<1>1. /\ c \in Int /\ c + 1 \in Words(line)
      /\ \A p \in Words(line) : p \in Int /\ EffectAt(line, p) \in Int
      /\ \A p \in Words(line) : p <= c + 1 <=> p <= c \/ p = c + 1
      /\ \A p \in Words(line) :
             EffectAt(line, p) <= c + 1
             <=> \/ EffectAt(line, p) <= c
                 \/ p = c + 1 /\ line[p] \notin ValueOptions
    BY NextArgument
<1>2. \A p \in Endings(line) : EffectAt(line, p) > c + 1
    <2>1. c + 1 \notin Endings(line)
        BY DEF Endings, Unusable
    <2> TAKE p \in Endings(line)
    <2>2. p \in Words(line) /\ EffectAt(line, p) > c /\ p # c + 1
        BY <2>1 DEF Endings, GoesOn
    <2>3. /\ EffectAt(line, p) \in Int
          /\ EffectAt(line, p) <= c + 1 <=> EffectAt(line, p) <= c
        BY <1>1, <2>2
    <2> QED
        BY <1>1, <2>2, <2>3
<1>3. ASSUME NEW f \in SetFields PROVE FieldTells(line, t, c + 1, f)
    <2>1. \A p \in Setters(line, f) : p \in Words(line)
        BY DEF Setters
    <2>2. CASE f = "input_path" /\ word \notin Switches
        <3>1. c + 1 \in Setters(line, f) /\ Made(line, c + 1) = word
            BY <1>1, <2>2 DEF Setters, Made
        <3>2. t.config[f] = Made(line, c + 1)
            BY <2>2, <3>1
        <3>3. EffectAt(line, c + 1) <= c + 1
            BY <1>1
        <3>4. \A q \in Setters(line, f) :
                  EffectAt(line, q) <= c + 1 => EffectAt(line, q) <= c \/ q = c + 1
            BY <1>1, <2>1
        <3> QED
            BY <3>1, <3>2, <3>3, <3>4, FieldIsSet
    <2>3. CASE ~(f = "input_path" /\ word \notin Switches)
        <3>1. c + 1 \notin Setters(line, f)
            BY <2>3 DEF Setters
        <3>2. \A p \in Setters(line, f) :
                  EffectAt(line, p) <= c + 1 <=> EffectAt(line, p) <= c
            BY <1>1, <2>1, <3>1
        <3>3. FieldTells(line, s, c, f) /\ t.config[f] = s.config[f]
            BY <2>3 DEF GoesOn
        <3> QED
            BY <3>2, <3>3, FieldStays
    <2> QED
        BY <2>2, <2>3
<1>4. t.config.verify <=> \E p \in Words(line) : p <= c + 1 /\ line[p] = "--verify"
    BY <1>1 DEF GoesOn
<1>5. t.option = IF c + 1 \in Words(line) /\ line[c + 1] \in ValueOptions
                   THEN line[c + 1] ELSE NoOption
    OBVIOUS
<1> QED
    BY <1>2, <1>3, <1>4, <1>5 DEF Tells, GoesOn

\* "-q" starts the count of "-v" again.
LEMMA QuietTells ==
    ASSUME NEW line \in Seq(STRING), NEW c \in 0 .. Len(line) - 1, NEW t,
           c + 1 \in Words(line), line[c + 1] = "-q", t.verbosity = -1
    PROVE  VerbosityTells(line, t, c + 1)
<1>1. c \in Int /\ \A p \in Words(line) : p \in Int
    BY NextArgument
<1>2. c + 1 \in Quiet(line, c + 1)
    BY <1>1 DEF Quiet
<1>3. Loud(line, c + 1) = {}
    BY <1>1, <1>2 DEF Loud
<1> QED
    BY <1>2, <1>3 DEF VerbosityTells

\* "-v" counts one more since the last "-q", but not beyond two.
LEMMA LouderTells ==
    ASSUME NEW line \in Seq(STRING), NEW c \in 0 .. Len(line) - 1, NEW s, NEW t,
           ~(c \in Words(line) /\ line[c] \in ValueOptions), line[c + 1] = "-v",
           VerbosityTells(line, s, c), t.verbosity = Louder(s.verbosity)
    PROVE  VerbosityTells(line, t, c + 1)
<1>1. /\ c \in Int /\ c + 1 \in Words(line)
      /\ \A p \in Words(line) : p \in Int
      /\ \A p \in Words(line) : p <= c + 1 <=> p <= c \/ p = c + 1
    BY NextArgument
<1>2. Quiet(line, c + 1) = Quiet(line, c)
    BY <1>1 DEF Quiet
<1>3. \A q \in Quiet(line, c) : q < c + 1
    BY <1>1 DEF Quiet
<1>4. Loud(line, c + 1) = Loud(line, c) \cup {c + 1}
    BY <1>1, <1>2, <1>3 DEF Loud
<1>5. c + 1 \notin Loud(line, c)
    BY <1>1 DEF Loud
<1>6. CASE Loud(line, c) = {}
    <2>1. s.verbosity < 1
        BY <1>6 DEF VerbosityTells
    <2>2. t.verbosity = 1
        BY <2>1 DEF Louder
    <2>3. Loud(line, c + 1) # {} /\ ~ \E a, b \in Loud(line, c + 1) : a # b
        BY <1>4, <1>6
    <2> QED
        BY <2>2, <2>3 DEF VerbosityTells
<1>7. CASE Loud(line, c) # {}
    <2>1. s.verbosity \in {1, 2}
        BY <1>7 DEF VerbosityTells
    <2>2. t.verbosity = 2
        BY <2>1 DEF Louder
    <2>3. Loud(line, c + 1) # {} /\ \E a, b \in Loud(line, c + 1) : a # b
        BY <1>4, <1>5, <1>7
    <2> QED
        BY <2>2, <2>3 DEF VerbosityTells
<1> QED
    BY <1>6, <1>7

\* The argument is a word of its own.
LEMMA WordTells ==
    ASSUME NEW line \in Seq(STRING), NEW c \in 0 .. Len(line) - 1,
           NEW s \in Passes, ~s.returned, GoesOn(line, s, c),
           ~(c \in Words(line) /\ line[c] \in ValueOptions)
    PROVE  Tells(line, TakeArgument(s, line[c + 1]), c + 1)
<1> DEFINE word == line[c + 1]
           t == TakeArgument(s, word)
<1>1. /\ c \in Int /\ word \in STRING /\ c + 1 \in Words(line)
      /\ \A p \in Words(line) : p \in Int /\ EffectAt(line, p) \in Int
      /\ \A p \in Words(line) : p <= EffectAt(line, p) /\ EffectAt(line, p) <= p + 1
      /\ \A p \in Words(line) : p <= c + 1 <=> p <= c \/ p = c + 1
      /\ \A p \in Words(line) :
             EffectAt(line, p) <= c + 1
             <=> \/ EffectAt(line, p) <= c
                 \/ p = c + 1 /\ line[p] \notin ValueOptions
    BY NextArgument
<1>2. s.option = NoOption /\ t = TakeWord(s, word)
    BY DEF GoesOn, TakeArgument
<1>3. ASSUME NEW q \in Endings(line) PROVE c + 1 <= q
    <2>1. q \in Words(line) /\ EffectAt(line, q) > c
        BY DEF Endings, GoesOn
    <2>2. q = c => EffectAt(line, q) = c
        BY <2>1 DEF EffectAt
    <2> QED
        BY <1>1, <2>1, <2>2
<1>4. s.config \in [Fields -> Contents] /\ s.verbosity \in -1 .. 2
    BY DEF Passes
<1>5. CASE word \in EarlyActions
    <2>0. word \notin ValueOptions \cup UnknownOptions \cup Switches
        BY <1>5, UnknownAssumption DEF EarlyActions, ValueOptions, Switches
    <2>1. t = [s EXCEPT !.action = word, !.returned = TRUE]
        BY <1>2, <1>5, <2>0 DEF TakeWord, Switches
    <2>2. t \in Passes /\ t.returned /\ t.action = word /\ t.status = "OK"
        BY <1>5, <2>1 DEF Passes, GoesOn
    <2>3. c + 1 \in Endings(line)
        BY <1>1, <1>5 DEF Endings
    <2>4. ~Unusable(line, c + 1)
        BY <1>5, UnknownAssumption DEF Unusable, EarlyActions, ValueOptions
    <2> QED
        BY <1>3, <2>2, <2>3, <2>4 DEF Tells, HasEnded, t
<1>6. CASE word \in UnknownOptions
    <2>1. t = Refuse(s)
        BY <1>2, <1>6, UnknownAssumption DEF TakeWord, Switches
    <2>2. t \in Passes /\ t.returned /\ t.status = "INVALID"
        BY <2>1 DEF Refuse, Passes
    <2>3. c + 1 \in Endings(line) /\ Unusable(line, c + 1)
        BY <1>1, <1>6 DEF Endings, Unusable
    <2> QED
        BY <1>3, <2>2, <2>3 DEF Tells, HasEnded, t
<1>7. CASE word \in ValueOptions
    <2>1. word \notin EarlyActions \cup Switches \cup UnknownOptions
        BY <1>7, UnknownAssumption DEF ValueOptions, EarlyActions, Switches
    <2>2. t = [s EXCEPT !.option = word]
        BY <1>2, <1>7, <2>1 DEF TakeWord, Switches
    <2>3. /\ t \in Passes /\ t.option = word /\ t.config = s.config /\ t.status = s.status
          /\ t.action = s.action /\ t.verbosity = s.verbosity /\ ~t.returned
        BY <1>7, <2>2 DEF Passes
    <2> HIDE DEF t
    <2>4. \A p \in Words(line) : EffectAt(line, p) <= c + 1 <=> EffectAt(line, p) <= c
        BY <1>1, <1>7
    <2>5. \A p \in Endings(line) : EffectAt(line, p) > c + 1
        <3> TAKE p \in Endings(line)
        <3>1. p \in Words(line) /\ EffectAt(line, p) > c /\ EffectAt(line, p) \in Int
            BY <1>1 DEF Endings, GoesOn
        <3>2. ~(EffectAt(line, p) <= c + 1)
            BY <1>1, <2>4, <3>1
        <3> QED
            BY <1>1, <3>1, <3>2
    <2>6. ASSUME NEW f \in SetFields PROVE FieldTells(line, t, c + 1, f)
        <3>1. FieldTells(line, s, c, f) /\ \A p \in Setters(line, f) : p \in Words(line)
            BY DEF GoesOn, Setters
        <3> QED
            BY <2>3, <2>4, <3>1, FieldStays
    <2>7. t.config.verify <=> \E p \in Words(line) : p <= c + 1 /\ line[p] = "--verify"
        <3>1. word # "--verify"
            BY <2>1 DEF Switches
        <3> QED
            BY <1>1, <2>3, <3>1 DEF GoesOn
    <2>8. VerbosityTells(line, t, c + 1)
        <3>1. word \notin {"-q", "-v"}
            BY <2>1 DEF Switches
        <3>2. \A p \in Words(line) : line[p] \in {"-q", "-v"} => (p <= c + 1 <=> p <= c)
            BY <1>1, <3>1
        <3> QED
            BY <2>3, <3>2, VerbosityStays DEF GoesOn
    <2> QED
        BY <1>1, <1>7, <2>3, <2>5, <2>6, <2>7, <2>8 DEF Tells, GoesOn, t
<1>8. CASE word \notin EarlyActions \cup UnknownOptions \cup ValueOptions
    <2>1. CASE word = "--verify"
        <3>1. t = [s EXCEPT !.config.verify = TRUE]
            BY <1>2, <1>8, <2>1 DEF TakeWord
        <3>2. t = [s EXCEPT !.config = [s.config EXCEPT !["verify"] = TRUE]]
            BY <3>1
        <3> HIDE DEF t
        <3>3. [s.config EXCEPT !["verify"] = TRUE] \in [Fields -> Contents]
            BY <1>4 DEF Contents
        <3>4. /\ t \in Passes /\ t.option = NoOption /\ t.status = s.status
              /\ t.config = [s.config EXCEPT !["verify"] = TRUE]
              /\ t.action = s.action /\ t.verbosity = s.verbosity /\ ~t.returned
            BY <1>2, <3>2, <3>3 DEF Passes
        <3>5. t.config.verify /\ \A f \in SetFields : t.config[f] = s.config[f]
            BY <1>4, <3>4, FieldsOfConfig
        <3>6. VerbosityTells(line, t, c + 1)
            <4>1. \A p \in Words(line) : line[p] \in {"-q", "-v"} => (p <= c + 1 <=> p <= c)
                BY <1>1, <2>1
            <4> QED
                BY <3>4, <4>1, VerbosityStays DEF GoesOn
        <3>7. word \in Switches
            BY <2>1 DEF Switches
        <3>8. Tells(line, t, c + 1)
            BY <1>8, <2>1, <3>4, <3>5, <3>6, <3>7, PlainWordTells
        <3> QED
            BY <3>8 DEF t
    <2>2. CASE word = "-q"
        <3>1. t = [s EXCEPT !.verbosity = -1]
            BY <1>2, <1>8, <2>2 DEF TakeWord
        <3>2. /\ t.option = NoOption /\ t.status = s.status
              /\ t.config = s.config /\ t.action = s.action /\ t.verbosity = -1
              /\ ~t.returned
            BY <1>2, <3>1 DEF Passes
        <3>m. -1 \in -1 .. 2
            OBVIOUS
        <3>p. t \in Passes
            BY <3>1, <3>m DEF Passes
        <3>3. VerbosityTells(line, t, c + 1)
            BY <1>1, <2>2, <3>2, QuietTells
        <3>4. word \in Switches /\ word # "--verify"
            BY <2>2 DEF Switches
        <3> HIDE DEF t
        <3>5. Tells(line, t, c + 1)
            BY <1>8, <3>2, <3>p, <3>3, <3>4, PlainWordTells
        <3> QED
            BY <3>5 DEF t
    <2>3. CASE word = "-v"
        <3>1. t = [s EXCEPT !.verbosity = Louder(@)]
            BY <1>2, <1>8, <2>3 DEF TakeWord
        <3>2. /\ t \in Passes /\ t.option = NoOption /\ t.status = s.status
              /\ t.config = s.config /\ t.action = s.action
              /\ t.verbosity = Louder(s.verbosity) /\ ~t.returned
            BY <1>2, <1>4, <3>1 DEF Passes, Louder
        <3>3. VerbosityTells(line, t, c + 1)
            BY <2>3, <3>2, LouderTells DEF GoesOn
        <3>4. word \in Switches /\ word # "--verify"
            BY <2>3 DEF Switches
        <3> HIDE DEF t
        <3>5. Tells(line, t, c + 1)
            BY <1>8, <3>2, <3>3, <3>4, PlainWordTells
        <3> QED
            BY <3>5 DEF t
    <2>4. CASE word \notin Switches
        <3>1. t = [s EXCEPT !.config.input_path = word]
            BY <1>2, <1>8, <2>4 DEF TakeWord, Switches
        <3>2. t = [s EXCEPT !.config = [s.config EXCEPT !["input_path"] = word]]
            BY <3>1
        <3> HIDE DEF t
        <3>3. [s.config EXCEPT !["input_path"] = word] \in [Fields -> Contents]
            BY <1>1, <1>4 DEF Contents
        <3>4. /\ t \in Passes /\ t.option = NoOption /\ t.status = s.status
              /\ t.config = [s.config EXCEPT !["input_path"] = word]
              /\ t.action = s.action /\ t.verbosity = s.verbosity /\ ~t.returned
            BY <1>2, <3>2, <3>3 DEF Passes
        <3>5. /\ t.config.verify = s.config.verify
              /\ \A f \in SetFields :
                     t.config[f] = IF f = "input_path" THEN word ELSE s.config[f]
            BY <1>4, <3>4, FieldsOfConfig
        <3>6. VerbosityTells(line, t, c + 1)
            <4>1. \A p \in Words(line) : line[p] \in {"-q", "-v"} => (p <= c + 1 <=> p <= c)
                BY <1>1, <2>4 DEF Switches
            <4> QED
                BY <3>4, <4>1, VerbosityStays DEF GoesOn
        <3>7. word # "--verify"
            BY <2>4 DEF Switches
        <3>8. Tells(line, t, c + 1)
            BY <1>8, <2>4, <3>4, <3>5, <3>6, <3>7, PlainWordTells
        <3> QED
            BY <3>8 DEF t
    <2> QED
        BY <2>1, <2>2, <2>3, <2>4 DEF Switches
<1> QED
    BY <1>5, <1>6, <1>7, <1>8

\* Whatever the next argument is, the state of the loop goes on to tell what the
\* arguments say.
LEMMA EachArgumentTells ==
    ASSUME NEW line \in Seq(STRING), NEW c \in 0 .. Len(line) - 1,
           NEW s, Tells(line, s, c)
    PROVE  Tells(line, TakeArgument(s, line[c + 1]), c + 1)
<1>1. CASE s.returned
    <2>1. TakeArgument(s, line[c + 1]) = s
        BY <1>1 DEF TakeArgument
    <2> QED
        BY <1>1, <2>1 DEF Tells
<1>2. CASE ~s.returned
    <2>1. s \in Passes /\ GoesOn(line, s, c)
        BY <1>2 DEF Tells
    <2> QED
        BY <1>2, <2>1, ValueTells, WordTells
<1> QED
    BY <1>1, <1>2

\* So it does at the end of the line.
LEMMA PassTells ==
    ASSUME NEW line \in Seq(STRING)
    PROVE  Tells(line, Pass(line)[Len(line)], Len(line))
<1> DEFINE Good(c) == Tells(line, Pass(line)[c], c)
           Without == {c \in 0 .. Len(line) : ~Good(c)}
<1>0. Len(line) \in Nat
    OBVIOUS
<1> SUFFICES ASSUME Without # {} PROVE FALSE
    <2>1. Len(line) \in 0 .. Len(line)
        BY <1>0
    <2> QED
        BY <2>1
<1>1. Without \in SUBSET Nat
    OBVIOUS
<1>2. PICK c \in Without : \A o \in Without : c <= o
    <2> HIDE DEF Without
    <2> QED
        BY <1>1, LeastNatural
<1>3. c \in 0 .. Len(line) /\ c \in Nat /\ ~Good(c)
    <2> HIDE DEF Good
    <2> QED
        BY <1>2
<1>4. CASE c = 0
    BY <1>3, <1>4, StartTells, PassIsDefined
<1>5. CASE c > 0
    <2>1. /\ c - 1 \in 0 .. Len(line) /\ c - 1 \in 0 .. Len(line) - 1 /\ c - 1 < c
          /\ c \in 1 .. Len(line) /\ c - 1 \in Int /\ c \in Int /\ c - 1 + 1 = c
        BY <1>0, <1>3, <1>5
    <2>2. c - 1 \notin Without
        <3> HIDE DEF Without
        <3> QED
            BY <1>2, <2>1
    <2>3. Good(c - 1)
        <3> HIDE DEF Good
        <3> QED
            BY <2>1, <2>2
    <2>4. Tells(line, TakeArgument(Pass(line)[c - 1], line[c - 1 + 1]), c - 1 + 1)
        BY <2>1, <2>3, EachArgumentTells
    <2>5. Pass(line)[c] = TakeArgument(Pass(line)[c - 1], line[c])
        BY <2>1, PassIsDefined
    <2> QED
        BY <1>3, <2>1, <2>4, <2>5
<1> QED
    BY <1>3, <1>4, <1>5

-----------------------------------------------------------------------------
(* What the parser returns *)

\* The maximum of a set is the element that no other exceeds.
LEMMA MaxIs ==
    ASSUME NEW S \in SUBSET Int, NEW p \in S, \A q \in S : q <= p
    PROVE  Max(S) = p
<1>1. Max(S) \in S /\ \A q \in S : Max(S) >= q
    BY DEF Max
<1>2. Max(S) \in Int /\ p \in Int /\ Max(S) >= p /\ Max(S) <= p
    BY <1>1
<1> QED
    BY <1>2

\* The minimum of a set is the element that exceeds no other.
LEMMA MinIs ==
    ASSUME NEW S \in SUBSET Int, NEW p \in S, \A q \in S : p <= q
    PROVE  Min(S) = p
<1>1. Min(S) \in S /\ \A q \in S : Min(S) <= q
    BY DEF Min
<1>2. Min(S) \in Int /\ p \in Int /\ Min(S) <= p /\ p <= Min(S)
    BY <1>1
<1> QED
    BY <1>2

\* "-v" once or twice: the first and the last are the same, or not.
LEMMA LevelTells ==
    ASSUME NEW line \in Seq(STRING), NEW s, VerbosityTells(line, s, Len(line))
    PROVE  LogLevel(s.verbosity) = LevelOf(line)
<1> DEFINE quiet == {p \in Words(line) : line[p] = "-q"}
           louder == {p \in Words(line) : line[p] = "-v" /\ \A q \in quiet : q < p}
<1>1. Len(line) \in Nat /\ \A p \in Words(line) : p \in Nat /\ p <= Len(line)
    BY WordsAlternate
<1>2. Quiet(line, Len(line)) = quiet
    BY <1>1 DEF Quiet
<1>3. Loud(line, Len(line)) = louder
    BY <1>1, <1>2 DEF Loud
<1>4. LevelOf(line) = IF louder # {} THEN IF Min(louder) = Max(louder) THEN "info" ELSE "debug"
                      ELSE IF quiet # {} THEN "error" ELSE "info"
    BY DEF LevelOf
<1>5. louder \in SUBSET Nat
    BY <1>1
<1> HIDE DEF quiet, louder
<1>6. CASE louder = {}
    <2>1. s.verbosity = IF quiet = {} THEN 0 ELSE -1
        BY <1>2, <1>3, <1>6 DEF VerbosityTells
    <2>2. LogLevel(0) = "info" /\ LogLevel(-1) = "error"
        BY DEF LogLevel
    <2> QED
        BY <1>4, <1>6, <2>1, <2>2
<1>7. CASE louder # {} /\ ~ \E a, b \in louder : a # b
    <2>1. s.verbosity = 1
        BY <1>2, <1>3, <1>7 DEF VerbosityTells
    <2>2. LogLevel(1) = "info"
        BY DEF LogLevel
    <2>3. PICK p \in louder : louder = {p}
        BY <1>7
    <2>4. p \in Int /\ \A q \in louder : q = p
        BY <1>5, <2>3
    <2>5. Max(louder) = p /\ Min(louder) = p
        BY <1>5, <2>4, MaxIs, MinIs
    <2> QED
        BY <1>4, <1>7, <2>1, <2>2, <2>5
<1>8. CASE \E a, b \in louder : a # b
    <2>1. s.verbosity = 2 /\ louder # {}
        BY <1>2, <1>3, <1>8 DEF VerbosityTells
    <2>2. LogLevel(2) = "debug"
        BY DEF LogLevel
    <2>3. PICK a \in louder, d \in louder : a # d
        BY <1>8
    <2>4. Min(louder) # Max(louder)
        <3> SUFFICES ASSUME Min(louder) = Max(louder) PROVE FALSE
            OBVIOUS
        <3>1. PICK low \in louder : \A q \in louder : low <= q
            BY <1>5, <2>1, LeastNatural
        <3>2. Min(louder) = low
            BY <1>5, <3>1, MinIs
        <3>3. \E high \in louder : \A q \in louder : q <= high
            <4>1. \A q \in louder : q <= Len(line)
                BY <1>1, <1>3 DEF Loud
            <4> DEFINE Bounds == {u \in Nat : \A q \in louder : q <= u}
            <4>2. Len(line) \in Bounds /\ Bounds \in SUBSET Nat
                BY <1>1, <4>1
            <4>3. PICK u \in Bounds : \A o \in Bounds : u <= o
                <5> HIDE DEF Bounds
                <5> QED
                    BY <4>2, LeastNatural
            <4>4. u \in Nat /\ \A q \in louder : q <= u
                OBVIOUS
            <4>5. CASE u \in louder
                BY <4>4, <4>5
            <4>6. CASE u \notin louder
                <5>1. \A q \in louder : q \in Nat /\ q < u
                    BY <1>5, <4>4, <4>6
                <5>2. u - 1 \in Nat /\ \A q \in louder : q <= u - 1
                    BY <2>3, <4>4, <5>1
                <5>3. u - 1 \in Bounds /\ ~(u <= u - 1)
                    BY <4>4, <5>2
                <5> QED
                    BY <4>3, <5>3
            <4> QED
                BY <4>5, <4>6
        <3>4. PICK high \in louder : \A q \in louder : q <= high
            BY <3>3
        <3>5. Max(louder) = high
            BY <1>5, <3>4, MaxIs
        <3>6. low = high
            BY <3>2, <3>5
        <3>7. a \in Nat /\ d \in Nat /\ low \in Nat /\ low <= a /\ a <= low /\ low <= d /\ d <= low
            BY <1>5, <2>3, <3>1, <3>4, <3>6
        <3> QED
            BY <2>3, <3>7
    <2> QED
        BY <1>4, <2>1, <2>2, <2>4
<1> QED
    BY <1>6, <1>7, <1>8

\* msearch_config_parse makes of every command line what the line says, read as
\* a whole.
LEMMA ParseSays ==
    ASSUME NEW line \in Seq(STRING)
    PROVE  SaysOf(line, msearch_config_parse(line))
<1> DEFINE s == Pass(line)[Len(line)]
           end == IF s.returned \/ s.option = NoOption THEN s ELSE Refuse(s)
           result == msearch_config_parse(line)
<1>1. Tells(line, s, Len(line))
    BY PassTells
<1> HIDE DEF s
<1>2. /\ result.status = end.status /\ result.action = end.action
      /\ result.config = IF end.returned THEN end.config
                         ELSE [end.config EXCEPT !.log_level = LogLevel(end.verbosity)]
    BY DEF msearch_config_parse, s
<1> HIDE DEF result
<1>3. /\ Len(line) \in Nat /\ Words(line) \subseteq 1 .. Len(line)
      /\ \A p \in Words(line) : EffectAt(line, p) \in {p, p + 1}
    BY WordsAlternate DEF EffectAt
<1>4. Endings(line) \in SUBSET Int
    BY <1>3 DEF Endings
<1>5. s \in Passes
    BY <1>1 DEF Tells
<1>6. ASSUME s.returned PROVE SaysOf(line, result)
    <2>1. PICK p \in Endings(line) :
              /\ \A q \in Endings(line) : p <= q
              /\ IF Unusable(line, p) THEN s.status = "INVALID"
                                      ELSE s.status = "OK" /\ s.action = line[p]
        BY <1>1, <1>6 DEF Tells, HasEnded
    <2>2. Min(Endings(line)) = p
        BY <1>4, <2>1, MinIs
    <2> QED
        <3>1. Endings(line) # {}
            BY <2>1
        <3>2. IF Unusable(line, p) THEN result.status = "INVALID"
              ELSE result.status = "OK" /\ result.action = line[p]
            BY <1>2, <1>6, <2>1
        <3> QED
            BY <2>2, <3>1, <3>2 DEF SaysOf
<1>7. ASSUME ~s.returned PROVE SaysOf(line, result)
    <2>1. GoesOn(line, s, Len(line))
        BY <1>1, <1>7 DEF Tells
    <2>2. CASE s.option # NoOption
        <3> DEFINE p == Len(line)
        <3>1. p \in Words(line) /\ line[p] \in ValueOptions
            BY <2>1, <2>2 DEF GoesOn
        <3>2. p \in Endings(line) /\ Unusable(line, p)
            BY <3>1 DEF Endings, Unusable
        <3>3. \A q \in Endings(line) : p <= q
            <4> TAKE q \in Endings(line)
            <4>1. q \in Words(line) /\ EffectAt(line, q) > p
                BY <2>1 DEF Endings, GoesOn
            <4> QED
                BY <1>3, <4>1
        <3>4. Min(Endings(line)) = p
            BY <1>4, <3>2, <3>3, MinIs
        <3>5. result.status = "INVALID"
            BY <1>2, <1>5, <1>7, <2>2 DEF Refuse, Passes
        <3> QED
            BY <3>2, <3>4, <3>5 DEF SaysOf
    <2>3. CASE s.option = NoOption
        <3>1. ~(Len(line) \in Words(line) /\ line[Len(line)] \in ValueOptions)
            BY <2>1, <2>3 DEF GoesOn, ValueOptions, NoOption
        <3>2. \A p \in Words(line) : /\ p \in Int /\ p <= Len(line)
                                     /\ EffectAt(line, p) <= Len(line)
            <4> TAKE p \in Words(line)
            <4>1. p \in Int /\ p <= Len(line)
                BY <1>3
            <4>2. p = Len(line) => EffectAt(line, p) = p
                BY <3>1 DEF EffectAt
            <4> QED
                BY <1>3, <4>1, <4>2
        <3>3. Endings(line) = {}
            <4>1. \A p \in Endings(line) : p \in Words(line) /\ EffectAt(line, p) > Len(line)
                BY <2>1 DEF Endings, GoesOn
            <4>2. \A p \in Words(line) : ~(EffectAt(line, p) > Len(line))
                BY <1>3, <3>2
            <4> QED
                BY <4>1, <4>2
        <3>4. /\ result.status = "OK" /\ result.action = "none"
              /\ result.config = [s.config EXCEPT !["log_level"] = LogLevel(s.verbosity)]
            BY <1>2, <1>7, <2>1, <2>3 DEF GoesOn
        <3>5. s.config \in [Fields -> Contents]
            BY <1>5 DEF Passes
        <3>6. ASSUME NEW f \in SetFields PROVE result.config[f] = SettingOf(line, f)
            <4>1. result.config[f] = s.config[f]
                BY <3>4, <3>5, FieldsOfConfig
            <4>2. SettersBy(line, Len(line), f) = Setters(line, f)
                BY <3>2 DEF SettersBy, Setters
            <4>3. FieldTells(line, s, Len(line), f)
                BY <2>1 DEF GoesOn
            <4>4. CASE Setters(line, f) = {}
                BY <4>1, <4>2, <4>3, <4>4 DEF FieldTells, SettingOf
            <4>5. CASE Setters(line, f) # {}
                <5>1. PICK p \in Setters(line, f) :
                          /\ \A q \in Setters(line, f) : q <= p
                          /\ s.config[f] = Made(line, p)
                    BY <4>2, <4>3, <4>5 DEF FieldTells
                <5>2. Setters(line, f) \in SUBSET Int
                    BY <3>2 DEF Setters
                <5>3. Max(Setters(line, f)) = p
                    BY <5>1, <5>2, MaxIs
                <5> QED
                    BY <4>1, <4>5, <5>1, <5>3 DEF SettingOf, Made
            <4> QED
                BY <4>4, <4>5
        <3>7. result.config.verify <=> \E p \in Words(line) : line[p] = "--verify"
            <4>1. result.config.verify = s.config.verify
                BY <3>4, <3>5, FieldsOfConfig
            <4> QED
                BY <2>1, <3>2, <4>1 DEF GoesOn
        <3>8. result.config.log_level = LevelOf(line)
            <4>1. result.config.log_level = LogLevel(s.verbosity)
                BY <3>4, <3>5, FieldsOfConfig
            <4> QED
                BY <2>1, <4>1, LevelTells DEF GoesOn
        <3> QED
            BY <3>3, <3>4, <3>6, <3>7, <3>8 DEF SaysOf, SetFields
    <2> QED
        BY <2>2, <2>3
<1> QED
    BY <1>6, <1>7 DEF result

\* The ranks keep to the command line they were started with.
SameLine == argv \in Seq(STRING) /\ parsed = msearch_config_parse(argv)

\* On every rank the parser makes of any command line what it says, read as a
\* whole; and a rank that exits has done it: it has been through all repetitions
\* if it was to search and through none if not, and exits with code 2 exactly
\* when the line was refused, or asks many ranks for a verification.
THEOREM CommandLineIsMeant == Spec => []CommandLineMeant
<1>1. Init => SameLine
    BY ArgListsAssumption DEF Init, SameLine
<1>2. SameLine /\ [Next]_vars => SameLine'
    <2> SUFFICES ASSUME SameLine, [Next]_vars PROVE SameLine'
        OBVIOUS
    <2>1. UNCHANGED <<argv, parsed>>
        BY DEF Next, Proceed, Fails, vars, hostVars, Parse, TopologyKnown, ReadProblem,
           Broadcast, Received, TakePiece, Verify, ChooseBackend, BeginRep, CallRuntime,
           StoreResult, RuntimeReturns, GiveUp, EndReps, WriteResults, Finalized,
           RootLeavesEarly, ReadFails, AllocationFails, BackendUnusable, BuffersFail,
           MeetFault, Killed
    <2> QED
        BY <2>1 DEF SameLine
<1>3. SameLine /\ IInv => CommandLineMeant
    <2> SUFFICES ASSUME SameLine, IInv PROVE CommandLineMeant
        OBVIOUS
    <2>1. SaysOf(argv, parsed)
        BY ParseSays DEF SameLine
    <2>2. ASSUME NEW r \in Ranks, pc[r] = "exited"
          PROVE  /\ exitCode[r] = 2 <=>
                        \/ parsed.status # "OK"
                        \/ parsed.action = "none" /\ config.verify /\ R > 1
                 /\ rep[r] = IF Searches THEN reps ELSE 0
        <3>1. Progress(r) /\ Code(r)
            BY DEF IInv
        <3>2. rep[r] = IF Searches THEN reps ELSE 0
            BY <2>2, <3>1 DEF Progress, Searches, Early, Verifies
        <3>3. exitCode[r] = 2 <=>
                  \/ parsed.status # "OK"
                  \/ parsed.action = "none" /\ config.verify /\ R > 1
            BY <2>2, <3>1 DEF Code, Early, Verifies, WriteError
        <3> QED
            BY <3>2, <3>3
    <2> QED
        BY <2>1, <2>2 DEF CommandLineMeant
<1> QED
    BY <1>1, <1>2, <1>3, Invariance, PTL DEF Spec

==============================================================================
