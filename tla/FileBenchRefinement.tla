------------------------- MODULE FileBenchRefinement -------------------------
(***************************************************************************)
(* FileBench implements CorpusFingerprint: where no path is cut off, what  *)
(* the bench reports is, for every tree, number of workers, interleaving   *)
(* and failure, the sum of the digests of the files hashed, each counted   *)
(* once, and every file under the root is either hashed or passed over for *)
(* a call that failed.                                                     *)
(***************************************************************************)
EXTENDS FileBenchProofs

(* The bytes hashed *)

\* BytesBy, for any counters of bytes.
BytesOf(b) == CHOOSE f : f = [k \in 0..Threads |-> IF k = 0 THEN 0 ELSE f[k - 1] + b[k]]

\* f sums up the first n numbers of b.
SumsUp(f, b, n) ==
    f \in [0..n -> Nat] /\ f[0] = 0 /\ \A k \in 1..n : f[k] = f[k - 1] + b[k]

LEMMA SumExists ==
    ASSUME NEW b \in [Workers -> Nat]
    PROVE  \E f : SumsUp(f, b, Threads)
<1> DEFINE T == {n \in 0..Threads : ~\E f : SumsUp(f, b, n)}
<1>0. Threads \in Nat /\ Workers = 1..Threads
  BY ThreadsAssumption DEF Workers
<1>1. T = {}
  <2> SUFFICES ASSUME T # {} PROVE FALSE
    OBVIOUS
  <2>1. T \in SUBSET Nat
    BY <1>0
  <2>2. PICK n \in T : \A l \in T : n <= l
    <3> HIDE DEF T
    <3> QED BY <2>1, LeastNatural
  <2>3. n \in 0..Threads /\ ~\E f : SumsUp(f, b, n)
    OBVIOUS
  <2>4. CASE n = 0
    <3> DEFINE f == [k \in 0..0 |-> 0]
    <3>1. SumsUp(f, b, 0)
      BY DEF SumsUp
    <3> QED BY <2>3, <2>4, <3>1
  <2>5. CASE n # 0
    <3>1. n - 1 \in 0..Threads /\ n - 1 \notin T /\ n \in Nat
      <4>1. n - 1 \in 0..Threads /\ ~(n <= n - 1) /\ n \in Nat
        BY <1>0, <2>3, <2>5
      <4> HIDE DEF T
      <4> QED BY <2>2, <4>1
    <3>2. PICK f : SumsUp(f, b, n - 1)
      BY <3>1
    <3> DEFINE g == [k \in 0..n |-> IF k = n THEN f[n - 1] + b[n] ELSE f[k]]
    <3>3. /\ f \in [0..n - 1 -> Nat] /\ f[0] = 0
          /\ \A k \in 1..n - 1 : f[k] = f[k - 1] + b[k]
      BY <3>2 DEF SumsUp
    <3>4. b[n] \in Nat /\ f[n - 1] \in Nat /\ n \in 1..Threads
      BY <1>0, <2>3, <2>5, <3>1, <3>3
    <3>5. \A k \in 0..n : g[k] = IF k = n THEN f[n - 1] + b[n] ELSE f[k]
      OBVIOUS
    <3>6. g \in [0..n -> Nat]
      BY <3>1, <3>3, <3>4
    <3> HIDE DEF g
    <3>7. g[0] = 0
      BY <2>5, <3>1, <3>3, <3>5
    <3>8. ASSUME NEW k \in 1..n PROVE g[k] = g[k - 1] + b[k]
      <4>1. k \in 0..n /\ k - 1 \in 0..n /\ k - 1 # n
        BY <3>1
      <4>2. g[k - 1] = f[k - 1]
        BY <3>5, <4>1
      <4> QED BY <3>1, <3>3, <3>5, <4>1, <4>2
    <3>9. SumsUp(g, b, n)
      BY <3>6, <3>7, <3>8 DEF SumsUp
    <3> QED BY <2>3, <3>9
  <2> QED BY <2>4, <2>5
<1>2. Threads \in 0..Threads
  BY <1>0
<1>3. \A n \in 0..Threads : \E f : SumsUp(f, b, n)
  BY <1>1
<1> QED BY <1>2, <1>3

\* The recursion of BytesBy sums up.
LEMMA BytesSumUp ==
    ASSUME NEW b \in [Workers -> Nat]
    PROVE  SumsUp(BytesOf(b), b, Threads)
<1> DEFINE g == BytesOf(b)
<1>0. Threads \in Nat /\ Workers = 1..Threads
  BY ThreadsAssumption DEF Workers
<1>1. PICK f : SumsUp(f, b, Threads)
  BY SumExists
<1>2. f = [k \in 0..Threads |-> IF k = 0 THEN 0 ELSE f[k - 1] + b[k]]
  <2>1. /\ f \in [0..Threads -> Nat] /\ f[0] = 0
        /\ \A k \in 1..Threads : f[k] = f[k - 1] + b[k]
    BY <1>1 DEF SumsUp
  <2>2. \A k \in 0..Threads : f[k] = IF k = 0 THEN 0 ELSE f[k - 1] + b[k]
    BY <1>0, <2>1
  <2> QED BY <2>1, <2>2
<1>3. g = [k \in 0..Threads |-> IF k = 0 THEN 0 ELSE g[k - 1] + b[k]]
  BY <1>2 DEF BytesOf
<1> HIDE DEF g
<1>4. \A k \in 0..Threads : g[k] = IF k = 0 THEN 0 ELSE g[k - 1] + b[k]
  BY <1>3
<1> DEFINE T == {k \in 0..Threads : g[k] \notin Nat}
<1>5. T = {}
  <2> SUFFICES ASSUME T # {} PROVE FALSE
    OBVIOUS
  <2>1. T \in SUBSET Nat
    BY <1>0
  <2>2. PICK n \in T : \A l \in T : n <= l
    <3> HIDE DEF T
    <3> QED BY <2>1, LeastNatural
  <2>3. n \in 0..Threads /\ g[n] \notin Nat
    OBVIOUS
  <2>4. n # 0
    BY <1>4, <2>3
  <2>5. n - 1 \in 0..Threads /\ ~(n <= n - 1) /\ n \in 1..Threads
    BY <1>0, <2>3, <2>4
  <2>6. n - 1 \notin T
    <3> HIDE DEF T
    <3> QED BY <2>2, <2>5
  <2>7. g[n - 1] \in Nat /\ b[n] \in Nat
    BY <1>0, <2>5, <2>6
  <2> QED BY <1>4, <2>3, <2>4, <2>7
<1>6. \A k \in 0..Threads : g[k] \in Nat
  BY <1>5
<1>7. g \in [0..Threads -> Nat]
  BY <1>3, <1>6
<1>8. g[0] = 0
  BY <1>0, <1>4
<1>9. \A k \in 1..Threads : g[k] = g[k - 1] + b[k]
  BY <1>0, <1>4
<1>10. SumsUp(g, b, Threads)
  BY <1>7, <1>8, <1>9 DEF SumsUp
<1> QED BY <1>10 DEF g

\* One worker's bytes are added to the sum.
LEMMA BytesAdded ==
    ASSUME NEW b \in [Workers -> Nat], NEW w \in Workers, NEW n \in Nat
    PROVE  BytesOf([b EXCEPT ![w] = @ + n])[Threads] = BytesOf(b)[Threads] + n
<1> DEFINE c == [b EXCEPT ![w] = @ + n]
           f == BytesOf(b)
           g == BytesOf(c)
           more(k) == IF k >= w THEN f[k] + n ELSE f[k]
<1>0. Threads \in Nat /\ Workers = 1..Threads /\ w \in Nat /\ w >= 1 /\ w <= Threads
  BY ThreadsAssumption DEF Workers
<1>1. /\ c \in [Workers -> Nat]
      /\ \A k \in Workers : c[k] = IF k = w THEN b[k] + n ELSE b[k]
  OBVIOUS
<1> HIDE DEF c
<1>2. SumsUp(f, b, Threads) /\ SumsUp(g, c, Threads)
  BY <1>1, BytesSumUp
<1> HIDE DEF f, g
<1>3. /\ f \in [0..Threads -> Nat] /\ f[0] = 0
      /\ \A k \in 1..Threads : f[k] = f[k - 1] + b[k]
  BY <1>2 DEF SumsUp
<1>4. /\ g \in [0..Threads -> Nat] /\ g[0] = 0
      /\ \A k \in 1..Threads : g[k] = g[k - 1] + c[k]
  BY <1>2 DEF SumsUp
<1> DEFINE T == {k \in 0..Threads : g[k] # more(k)}
<1>5. T = {}
  <2> SUFFICES ASSUME T # {} PROVE FALSE
    OBVIOUS
  <2>1. T \in SUBSET Nat
    BY <1>0
  <2>2. PICK k \in T : \A l \in T : k <= l
    <3> HIDE DEF T
    <3> QED BY <2>1, LeastNatural
  <2>3. k \in 0..Threads /\ g[k] # more(k)
    OBVIOUS
  <2>4. k # 0
    BY <1>0, <1>3, <1>4, <2>3
  <2>5. k - 1 \in 0..Threads /\ ~(k <= k - 1) /\ k \in 1..Threads /\ k \in Nat
    BY <1>0, <2>3, <2>4
  <2>6. k - 1 \notin T
    <3> HIDE DEF T
    <3> QED BY <2>2, <2>5
  <2>7. g[k - 1] = more(k - 1)
    BY <2>5, <2>6
  <2>8. /\ g[k] = g[k - 1] + c[k] /\ f[k] = f[k - 1] + b[k]
        /\ c[k] = IF k = w THEN b[k] + n ELSE b[k]
        /\ f[k - 1] \in Nat /\ b[k] \in Nat
    BY <1>0, <1>1, <1>3, <1>4, <2>5
  <2>9. CASE k = w
    <3>1. g[k - 1] = f[k - 1]
      BY <1>0, <2>5, <2>7, <2>9
    <3> QED BY <2>3, <2>8, <2>9, <3>1, <1>0
  <2>10. CASE k < w
    <3>1. g[k - 1] = f[k - 1] /\ k # w /\ ~(k >= w)
      BY <1>0, <2>5, <2>7, <2>10
    <3> QED BY <2>3, <2>8, <3>1
  <2>11. CASE k > w
    <3>1. g[k - 1] = f[k - 1] + n /\ k # w /\ k >= w
      BY <1>0, <2>5, <2>7, <2>11
    <3> QED BY <2>3, <2>8, <3>1
  <2> QED BY <1>0, <2>5, <2>9, <2>10, <2>11
<1>6. g[Threads] = more(Threads)
  BY <1>0, <1>5
<1> QED BY <1>0, <1>6 DEF g, f, c

LEMMA BytesByIs == BytesBy = BytesOf(bytes_hashed)
  BY DEF BytesBy, BytesOf
-----------------------------------------------------------------------------
(* What the main thread has added up *)

\* The XOR of the first k workers' accumulators.
SumsOf(k) == [i \in Active |-> XorOver(1..k, LAMBDA w : fingerprint[w][i])]

LEMMA XorOverElements ==
    ASSUME NEW S \in SUBSET Workers, NEW i, NEW d
    PROVE  d \in XorOver(S, LAMBDA w : fingerprint[w][i]) <=>
             Cardinality({w \in S : d \in fingerprint[w][i]}) % 2 = 1
<1> DEFINE H == {w \in S : d \in fingerprint[w][i]}
           X == XorOver(S, LAMBDA w : fingerprint[w][i])
<1>1. X = {e \in UNION {fingerprint[w][i] : w \in S} :
             Cardinality({w \in S : e \in fingerprint[w][i]}) % 2 = 1}
  BY DEF XorOver
<1>2. d \notin UNION {fingerprint[w][i] : w \in S} => H = {}
  OBVIOUS
<1>3. Cardinality({}) % 2 # 1
  BY FS_EmptySet
<1> HIDE DEF X
<1>4. d \in X <=> Cardinality(H) % 2 = 1
  BY <1>1, <1>2, <1>3
<1> QED BY <1>4 DEF X

\* Nothing adds up to nothing.
LEMMA SumsOfNone == SumsOf(0) = [i \in Active |-> {}]
<1>1. 1..0 = {}
  OBVIOUS
<1>2. ASSUME NEW i \in Active PROVE SumsOf(0)[i] = {}
  BY <1>1 DEF SumsOf, XorOver
<1> QED BY <1>2 DEF SumsOf

\* The loop over the workers adds one of them at a time.
LEMMA SumsMore ==
    ASSUME NEW k \in Workers
    PROVE  SumsOf(k) = [i \in Active |-> Xor(SumsOf(k - 1)[i], fingerprint[k][i])]
<1>0. Workers = 1..Threads /\ Threads \in Nat /\ k \in Nat /\ k >= 1
  BY ThreadsAssumption DEF Workers
<1>1. ASSUME NEW i \in Active
      PROVE  SumsOf(k)[i] = Xor(SumsOf(k - 1)[i], fingerprint[k][i])
  <2>1. ASSUME NEW d
        PROVE  d \in SumsOf(k)[i] <=> d \in Xor(SumsOf(k - 1)[i], fingerprint[k][i])
    <3> DEFINE H == {w \in 1..k : d \in fingerprint[w][i]}
               G == {w \in 1..k - 1 : d \in fingerprint[w][i]}
    <3>1. /\ 1..k \in SUBSET Workers /\ 1..k - 1 \in SUBSET Workers
          /\ 1..k = (1..k - 1) \cup {k} /\ k \notin 1..k - 1
      BY <1>0
    <3>2. d \in SumsOf(k)[i] <=> Cardinality(H) % 2 = 1
      <4>1. SumsOf(k)[i] = XorOver(1..k, LAMBDA w : fingerprint[w][i])
        BY DEF SumsOf
      <4>2. d \in XorOver(1..k, LAMBDA w : fingerprint[w][i]) <=> Cardinality(H) % 2 = 1
        BY <3>1, XorOverElements
      <4> QED BY <4>1, <4>2
    <3>3. d \in SumsOf(k - 1)[i] <=> Cardinality(G) % 2 = 1
      <4>1. SumsOf(k - 1)[i] = XorOver(1..k - 1, LAMBDA w : fingerprint[w][i])
        BY DEF SumsOf
      <4>2. d \in XorOver(1..k - 1, LAMBDA w : fingerprint[w][i]) <=> Cardinality(G) % 2 = 1
        BY <3>1, XorOverElements
      <4> QED BY <4>1, <4>2
    <3>4. IsFiniteSet(G) /\ Cardinality(G) \in Nat
      <4>1. G \in SUBSET Workers
        BY <3>1
      <4> QED BY <4>1, WorkersFinite
    <3>5. CASE d \in fingerprint[k][i]
      <4>1. H = G \cup {k} /\ k \notin G
        BY <3>1, <3>5
      <4> HIDE DEF G, H
      <4>2. Cardinality(H) = Cardinality(G) + 1
        BY <3>4, <4>1, OneMore
      <4>3. Cardinality(H) % 2 = 1 <=> ~(Cardinality(G) % 2 = 1)
        BY <3>4, <4>2
      <4> QED BY <3>2, <3>3, <3>5, <4>3, XorElements
    <3>6. CASE d \notin fingerprint[k][i]
      <4>1. H = G
        BY <3>1, <3>6
      <4> HIDE DEF G, H
      <4> QED BY <3>2, <3>3, <3>6, <4>1, XorElements
    <3> QED BY <3>5, <3>6
  <2>2. \A x, y : (\A d : d \in x <=> d \in y) => x = y
    OBVIOUS
  <2> QED BY <2>1, <2>2
<1>2. SumsOf(k) = [i \in Active |-> SumsOf(k)[i]]
  BY DEF SumsOf
<1> QED BY <1>1, <1>2

\* agg holds what the first k workers have done.
AddedUp(k) == agg.fingerprint = SumsOf(k) /\ agg.bytes = BytesBy[k]

Aggregated ==
    /\ agg = [fingerprint |-> agg.fingerprint, files |-> agg.files, bytes |-> agg.bytes]
    /\ main \notin {"sum", "report", "reported", "crashed"} =>
         agg.fingerprint = [i \in Active |-> {}] /\ agg.bytes = 0
    /\ main = "sum" => AddedUp(turn - 1)
    /\ main \in {"report", "reported"} => AddedUp(Threads)

LEMMA OnlyStays ==
    ASSUME [Next]_vars
    PROVE  only' = only /\ Active' = Active
<1>1. only' = only
  BY DEF Next, Worker, Setup, Claim, Open, OpenFails, UseNoContext, ReadChunk,
     TakeDigests, Count, Exit, Crash, vars, mainVars, Main, Select, TakeWalk, EndWalk,
     Spawn, Join, JoinNoThread, JoinTwice, Aggregate, Report
<1> QED BY <1>1 DEF Active

LEMMA AggregatedStep ==
    ASSUME Shapes, Phases, Aggregated, Next
    PROVE  Aggregated'
<1>0. /\ turn \in Workers /\ Workers = 1..Threads /\ Threads \in Nat \ {0}
      /\ bytes_hashed \in [Workers -> Nat]
  BY ThreadsAssumption DEF Shapes, Workers
<1>1. Active' = Active
  BY OnlyStays
<1>2. BytesBy[0] = 0 /\ \A k \in Workers : BytesBy[k] = BytesBy[k - 1] + bytes_hashed[k]
  BY <1>0, BytesSumUp, BytesByIs DEF SumsUp
<1>3. ASSUME NEW w \in Workers, Worker(w) PROVE Aggregated'
  <2>1. pc[w] \notin {"unborn", "exited"}
    BY <1>3 DEF Worker, Setup, Claim, Open, OpenFails, UseNoContext, ReadChunk,
         TakeDigests, Count, Exit
  <2>2. main \notin {"sum", "report", "reported", "crashed"}
    BY <1>3, <2>1 DEF Phases, Over, Worker
  <2>3. UNCHANGED agg /\ (UNCHANGED main \/ main' = "crashed")
    BY <1>3 DEF Worker, Setup, Claim, Open, OpenFails, UseNoContext, ReadChunk,
       TakeDigests, Count, Exit, Crash, mainVars
  <2> QED BY <1>1, <2>2, <2>3 DEF Aggregated
<1>4. ASSUME Main PROVE Aggregated'
  <2>1. UNCHANGED <<fingerprint, bytes_hashed>>
    BY <1>4 DEF Main, Select, TakeWalk, EndWalk, Spawn, Join, JoinNoThread, JoinTwice,
       Aggregate, Report, Crash, workerVars, counters
  <2>2. \A k : SumsOf(k)' = SumsOf(k)
    BY <1>1, <2>1 DEF SumsOf, XorOver
  <2>3. BytesBy' = BytesBy
    BY <2>1 DEF BytesBy
  <2>4. CASE Aggregate
    <3>1. /\ main = "sum"
          /\ agg' = [fingerprint |-> [i \in Active |-> Xor(agg.fingerprint[i], fingerprint[turn][i])],
                     files |-> agg.files + files_hashed[turn],
                     bytes |-> agg.bytes + bytes_hashed[turn]]
      BY <2>4 DEF Aggregate
    <3>2. AddedUp(turn - 1)
      BY <3>1 DEF Aggregated
    <3>3. agg'.fingerprint = SumsOf(turn)
      BY <1>0, <3>1, <3>2, SumsMore DEF AddedUp
    <3>4. agg'.bytes = BytesBy[turn]
      BY <1>0, <1>2, <3>1, <3>2 DEF AddedUp
    <3>5. \/ turn' = turn + 1 /\ main' = "sum"
          \/ turn = Threads /\ main' = "report"
      BY <1>0, <2>4, <3>1 DEF Aggregate, Advance
    <3>6. agg' = [fingerprint |-> agg'.fingerprint, files |-> agg'.files, bytes |-> agg'.bytes]
      BY <3>1
    <3>7. CASE turn' = turn + 1 /\ main' = "sum"
      <4>1. PICK k \in Workers : k = turn
        BY <1>0
      <4>2. turn' - 1 = k
        BY <1>0, <3>7, <4>1
      <4>3. agg'.fingerprint = SumsOf(k)' /\ agg'.bytes = BytesBy'[k]
        BY <2>2, <2>3, <3>3, <3>4, <4>1
      <4>4. AddedUp(turn - 1)'
        BY <4>2, <4>3 DEF AddedUp
      <4> QED BY <3>6, <3>7, <4>4 DEF Aggregated
    <3>8. CASE turn = Threads /\ main' = "report"
      <4>1. AddedUp(Threads)'
        BY <2>2, <2>3, <3>3, <3>4, <3>8 DEF AddedUp
      <4> QED BY <3>6, <3>8, <4>1 DEF Aggregated
    <3> QED BY <3>5, <3>7, <3>8
  <2>5. CASE ~Aggregate
    <3>1. agg' = agg
      BY <1>4, <2>5 DEF Main, Select, TakeWalk, EndWalk, Spawn, Join, JoinNoThread,
         JoinTwice, Report, Crash
    <3>2. ASSUME main' \notin {"sum", "report", "reported", "crashed"}
          PROVE  agg'.fingerprint = [i \in Active' |-> {}] /\ agg'.bytes = 0
      <4>1. main \notin {"sum", "report", "reported", "crashed"}
        BY <1>4, <2>5, <3>2 DEF Main, Select, TakeWalk, EndWalk, Spawn, Join,
           JoinNoThread, JoinTwice, Report, Crash, Advance
      <4> QED BY <1>1, <3>1, <4>1 DEF Aggregated
    <3>3. ASSUME main' = "sum" PROVE turn' = 1 /\ AddedUp(0)'
      <4>1. main = "join" /\ turn' = 1
        BY <1>4, <2>5, <3>3 DEF Main, Select, TakeWalk, EndWalk, Spawn, Join,
           JoinNoThread, JoinTwice, Report, Crash, Advance
      <4>2. agg.fingerprint = SumsOf(0) /\ agg.bytes = BytesBy[0]
        BY <1>2, <4>1, SumsOfNone DEF Aggregated
      <4> QED BY <2>2, <2>3, <3>1, <4>1, <4>2 DEF AddedUp
    <3>4. ASSUME main' \in {"report", "reported"} PROVE AddedUp(Threads)'
      <4>1. main = "report"
        BY <1>4, <2>5, <3>4 DEF Main, Select, TakeWalk, EndWalk, Spawn, Join,
           JoinNoThread, JoinTwice, Report, Crash, Advance
      <4> QED BY <2>2, <2>3, <3>1, <4>1 DEF Aggregated, AddedUp
    <3>5. main' = "sum" => AddedUp(turn - 1)'
      <4>1. ASSUME main' = "sum" PROVE AddedUp(turn - 1)'
        <5>1. turn' = 1 /\ turn' - 1 = 0 /\ AddedUp(0)'
          BY <3>3, <4>1
        <5> QED BY <5>1 DEF AddedUp
      <4> QED BY <4>1
    <3> QED BY <1>1, <3>1, <3>2, <3>4, <3>5 DEF Aggregated
  <2> QED BY <2>4, <2>5
<1> QED BY <1>3, <1>4 DEF Next
-----------------------------------------------------------------------------
(* The walk is over before a file is hashed *)

Stages ==
    /\ walk = "done" => dirs = << >>
    /\ main \in {"spawn", "join", "sum", "report", "reported"} => walk = "done"
    /\ \A p \in Hashed : items[p + 1] \in Walk!Files

LEMMA WalkDone ==
    ASSUME WalkInv, Walk!Next, walk' = "done"
    PROVE  dirs' = << >>
<1>1. walk = "walking" /\ Walk!Leave /\ Len(dirs) = 1
  BY DEF Walk!Next, Walk!OpenRoot, Walk!Walk, Walk!Leave, Walk!ReaddirFails, Walk!PassOver,
     Walk!LstatFails, Walk!Descend, Walk!Collect
<1>2. dirs \in Seq(Frames) /\ dirs # << >>
  BY <1>1, TopFrame
<1>3. dirs' = Walk!Front(dirs)
  BY <1>1 DEF Walk!Leave
<1>4. dirs' \in Seq(Frames) /\ Len(dirs') = 0
  BY <1>1, <1>2, <1>3, Pops DEF Popped
<1> QED BY <1>4

LEMMA StagesStep ==
    ASSUME WalkInv, Shapes, Phases, ClaimedOnce, Reading, Stages, Next
    PROVE  Stages'
<1> DEFINE Late == {"spawn", "join", "sum", "report", "reported"}
<1>1. ASSUME walk' = "done" PROVE dirs' = << >>
  <2>1. CASE Walk!Next
    BY <1>1, <2>1, WalkDone
  <2>2. CASE UNCHANGED walkVars
    BY <1>1, <2>2 DEF walkVars, Stages
  <2> QED BY <2>1, <2>2, WalkOrNot
<1>2. ASSUME main' \in Late PROVE walk' = "done"
  <2>1. CASE main \in Late
    BY <2>1, WalkOrNot DEF Stages, walkVars
  <2>2. CASE main \notin Late
    <3>1. main = "walk" /\ EndWalk
      <4>1. ASSUME NEW w \in Workers, Worker(w) PROVE main' = main \/ main' = "crashed"
        BY <4>1 DEF Worker, Setup, Claim, Open, OpenFails, UseNoContext, ReadChunk,
           TakeDigests, Count, Exit, Crash, mainVars
      <4>2. Main
        BY <1>2, <2>2, <4>1 DEF Next
      <4> QED BY <1>2, <2>2, <4>2 DEF Main, Select, TakeWalk, EndWalk, Spawn, Join,
                  JoinNoThread, JoinTwice, Aggregate, Report, Crash, Advance
    <3>2. walk = "done" /\ walk' = walk
      BY <1>2, <3>1 DEF EndWalk, walkVars
    <3> QED BY <3>2
  <2> QED BY <2>1, <2>2
<1>3. ASSUME NEW p \in Hashed' PROVE items'[p + 1] \in Walk!Files
  <2>1. CASE main = "walk" /\ Idle /\ UNCHANGED <<only, main, turn, agg, report, workerVars>>
    <3>1. Hashed' = {}
      BY <2>1 DEF workerVars, Hashed, Idle
    <3> QED BY <1>3, <3>1
  <2>2. CASE items' = items
    <3>1. ASSUME NEW w \in Workers, TakeDigests(w), Hop(w, "read", "count")
          PROVE  items[idx[w] + 1] \in Walk!Files
      <4>1. Path(w) \in DOMAIN Content
        BY <3>1, DigestTaken DEF Hop, TakeDigests, Shapes
      <4>2. DOMAIN Content = Walk!Files
        BY ContentAssumption DEF Walk!Files, Walk!Nodes
      <4> QED BY <4>1, <4>2 DEF Path
    <3>2. p \in Hashed \/ \E w \in Workers : TakeDigests(w) /\ Hop(w, "read", "count") /\ p = idx[w]
      <4>1. CASE Main
        BY <1>3, <4>1, MainCounts
      <4>2. ASSUME NEW w \in Workers, Worker(w)
            PROVE  p \in Hashed \/ (TakeDigests(w) /\ Hop(w, "read", "count") /\ p = idx[w])
        BY <1>3, <4>2, WorkerCounts
      <4> QED BY <4>1, <4>2 DEF Next
    <3> QED BY <2>2, <3>1, <3>2 DEF Stages
  <2> QED BY <2>1, <2>2, PathsGrow
<1> QED BY <1>1, <1>2, <1>3 DEF Stages
-----------------------------------------------------------------------------
(* The steps that matter to the abstract specification *)

SumsHold ==
    \A i \in Active : \A d : d \in Sums[i] <=> Cardinality(Holders(i, d)) % 2 = 1

\* All that is known at any moment where no path is cut off.
Known ==
    /\ BenchInv /\ TreeKept /\ Aggregated /\ Stages
    /\ SumsHold /\ ReportsAll /\ LosesOnlyFailures

LEMMA SumsAreHeld == SumsHold
<1> SUFFICES ASSUME NEW i \in Active, NEW d
             PROVE  d \in Sums[i] <=> Cardinality(Holders(i, d)) % 2 = 1
  BY DEF SumsHold
<1>1. Sums[i] = XorOver(Workers, LAMBDA w : fingerprint[w][i])
  BY DEF Sums
<1>2. d \in XorOver(Workers, LAMBDA w : fingerprint[w][i]) <=>
        Cardinality({w \in Workers : d \in fingerprint[w][i]}) % 2 = 1
  <2>1. Workers \in SUBSET Workers
    OBVIOUS
  <2> QED BY <2>1, XorOverElements
<1> QED BY <1>1, <1>2 DEF Holders

Passed == Walk!Lost \cup PathsAt(DOMAIN outcome \ Hashed)

LEMMA PathsElements ==
    ASSUME NEW I, NEW x
    PROVE  x \in PathsAt(I) <=> x # NULL /\ \E p \in I : x = items[p + 1]
  BY DEF PathsAt

LEMMA LostSame ==
    ASSUME UNCHANGED walkVars
    PROVE  Walk!Lost' = Walk!Lost
  BY DEF walkVars, Walk!Lost, Walk!Collected, Walk!Ahead, Walk!AllUnder

\* A path a worker works on is of a file under the root, not accounted for yet.
LEMMA AtWork ==
    ASSUME NoPathIsCut, Known, NEW w \in Workers, InProgress(w), main # "crashed"
    PROVE  /\ report = NoReport /\ main # "walk"
           /\ idx[w] \in Nat /\ idx[w] \notin DOMAIN outcome
           /\ Path(w) # NULL => /\ Path(w) \in Walk!Under[Root] /\ Path(w) \notin Walk!Lost
                                /\ Path(w) \notin PathsAt(DOMAIN outcome)
<1>1. /\ WalkInv /\ Shapes /\ Phases /\ Claims /\ ClaimedOnce /\ Stages
  BY DEF Known, BenchInv
<1>2. PICK length : PathsFit(length) /\ TreeInv(length)
  BY DEF Known, TreeKept, NoPathIsCut
<1>3. pc[w] \notin {"unborn", "exited"}
  BY DEF InProgress
<1>4. main \in {"spawn", "join"} /\ walk = "done"
  BY <1>1, <1>3 DEF Phases, Over, Idle, Shapes, Stages
<1>5. Account /\ Walk!ListedOnce
  BY <1>2, <1>4 DEF TreeInv
<1>6. items \in Seq(Walk!Files \cup {NULL}) /\ Len(items) \in Nat
  BY <1>1 DEF WalkInv, Walk!TypeOK
<1>7. /\ idx[w] \in Nat /\ idx[w] < Len(items) /\ idx[w] \notin DOMAIN outcome
  BY <1>1 DEF Claims, Shapes, ClaimedOnce
<1>8. idx[w] + 1 \in DOMAIN items
  BY <1>6, <1>7
<1>9. ASSUME Path(w) # NULL
      PROVE  /\ Path(w) \in Walk!Under[Root] /\ Path(w) \notin Walk!Lost
             /\ Path(w) \notin PathsAt(DOMAIN outcome)
  <2>1. Path(w) \in Walk!Collected
    BY <1>8, <1>9 DEF Path, Walk!Collected
  <2>2. Path(w) \in Walk!Under[Root]
    BY <1>5, <2>1 DEF Account
  <2>3. ASSUME NEW p \in DOMAIN outcome, Path(w) = items[p + 1] PROVE FALSE
    <3>1. p \in 0..Len(items) - 1
      BY <1>1, ClaimedElements
    <3>2. p + 1 \in DOMAIN items /\ p \in Nat
      BY <1>6, <3>1
    <3>3. p + 1 = idx[w] + 1
      BY <1>5, <1>8, <1>9, <2>3, <3>2 DEF Walk!ListedOnce, Path
    <3>4. p = idx[w]
      BY <1>7, <3>2, <3>3
    <3> QED BY <1>7, <3>4
  <2>4. Path(w) \notin PathsAt(DOMAIN outcome)
    BY <2>3, PathsElements
  <2> QED BY <2>1, <2>2, <2>4 DEF Walk!Lost
<1> QED BY <1>1, <1>4, <1>7, <1>9 DEF Phases

\* Where nothing that the specification sees changes, the step is a stutter.
LEMMA SumsSame ==
    ASSUME UNCHANGED <<only, fingerprint, bytes_hashed>>
    PROVE  Sums' = Sums /\ BytesBy' = BytesBy
<1>1. Active' = Active
  BY DEF Active
<1> QED BY <1>1 DEF Sums, XorOver, BytesBy

\* The digests of a file go into the accumulators.
LEMMA HashRefines ==
    ASSUME NoPathIsCut, Known, Known', NEW w \in Workers, Worker(w), TakeDigests(w)
    PROVE  Promise!Next
<1> DEFINE f == Path(w)
           m == SubSeq(Content[f], 1, pos[w])
<1>1. /\ WalkInv /\ Shapes /\ Phases /\ ClaimedOnce /\ Reading /\ Len(items) \in Nat
  BY DEF Known, BenchInv, WalkInv, Walk!TypeOK
<1>2. /\ Hop(w, "read", "count") /\ hstate[w] # NULL /\ pc[w] = "read" /\ InProgress(w)
      /\ main # "crashed" /\ pos[w] \in Nat
  BY <1>1, WorkerMoves DEF TakeDigests, Worker, Hop, InProgress, Shapes
<1>3. /\ f \in DOMAIN Content /\ m # NULL
      /\ \A i \in Active : Digested(g_hashes[i], hstate[w][i]) = DigestOf(i, m)
  BY <1>1, <1>2, DigestTaken
<1>4. f \in Walk!Files /\ f # NULL /\ Content[f] \in Seq(Byte)
  BY <1>3, ContentAssumption, WalkAssumption DEF Walk!Files, Walk!Nodes, Walk!TreeAssumption
<1>5. /\ report = NoReport /\ idx[w] \notin DOMAIN outcome
      /\ f \in Walk!Under[Root] /\ f \notin Walk!Lost /\ f \notin PathsAt(DOMAIN outcome)
  BY <1>2, <1>4, AtWork
<1>6. /\ UNCHANGED <<mainVars, idx, pos>> /\ Settle(w, m)
  BY DEF TakeDigests
<1>7. /\ Hashed' = Hashed \cup {idx[w]}
      /\ DOMAIN outcome' = DOMAIN outcome \cup {idx[w]}
  BY <1>3, <1>5, <1>6, HashedSettled DEF Settle
<1>8. UNCHANGED <<only, report, walkVars, items>>
  BY <1>6 DEF mainVars, walkVars
<1>9. Walk!Lost' = Walk!Lost
  BY <1>8, LostSame
<1>10. Hashed \subseteq DOMAIN outcome
  BY DEF Hashed
<1>11. PathsAt(Hashed)' = PathsAt(Hashed) \cup {f}
  <2>1. ASSUME NEW x PROVE x \in PathsAt(Hashed)' <=> x \in PathsAt(Hashed) \/ x = f
    <3>1. x \in PathsAt(Hashed)' <=> x # NULL /\ \E p \in Hashed' : x = items[p + 1]
      BY <1>8 DEF PathsAt
    <3> QED BY <1>4, <1>7, <3>1, PathsElements DEF Path
  <2> QED BY <2>1
<1>12. Passed' = Passed
  <2>1. DOMAIN outcome' \ Hashed' = DOMAIN outcome \ Hashed
    BY <1>5, <1>7, <1>10
  <2>2. PathsAt(DOMAIN outcome \ Hashed)' = PathsAt(DOMAIN outcome \ Hashed)
    BY <1>8, <2>1 DEF PathsAt
  <2> QED BY <1>9, <2>2 DEF Passed
<1>13. f \notin PathsAt(Hashed) /\ f \notin Passed
  <2>1. f \notin PathsAt(Hashed) /\ f \notin PathsAt(DOMAIN outcome \ Hashed)
    BY <1>5, <1>10, PathsElements
  <2> QED BY <1>5, <2>1 DEF Passed
<1>14. m \in Prefixes(Content[f]) /\ Len(m) = pos[w]
  <2>1. pos[w] <= Len(Content[f])
    BY <1>1, <1>2 DEF Reading
  <2>2. pos[w] \in 0..Len(Content[f])
    BY <1>2, <1>4, <2>1
  <2> QED BY <1>4, <2>2, Split DEF Prefixes
<1>15. Active' = Active
  BY <1>8 DEF Active
<1> HIDE DEF m
<1>16. Sums' = [h \in DOMAIN Sums |-> Promise!Xor(Sums[h], {DigestOf(h, m)})]
  <2>1. ASSUME NEW i \in Active
        PROVE  Sums'[i] = Promise!Xor(Sums[i], {DigestOf(i, m)})
    <3>1. ASSUME NEW d
          PROVE  d \in Sums'[i] <=> d \in Promise!Xor(Sums[i], {DigestOf(i, m)})
      <4>1. /\ d \in Sums[i] <=> Cardinality(Holders(i, d)) % 2 = 1
            /\ d \in Sums'[i] <=> Cardinality(Holders(i, d)') % 2 = 1
        BY <1>15 DEF Known, SumsHold
      <4>2. \A u \in Workers : d \in fingerprint'[u][i] <=>
              IF u = w /\ d = DigestOf(i, m) THEN d \notin fingerprint[u][i]
              ELSE d \in fingerprint[u][i]
        <5>1. /\ fingerprint'[w][i] = Xor(fingerprint[w][i], {DigestOf(i, m)})
              /\ \A u \in Workers : u # w => fingerprint'[u] = fingerprint[u]
          BY <1>1, <1>3 DEF TakeDigests, Shapes
        <5> QED BY <5>1 DEF Xor
      <4>3. IsFiniteSet(Holders(i, d)) /\ Cardinality(Holders(i, d)) \in Nat
        <5>1. Holders(i, d) \in SUBSET Workers
          BY DEF Holders
        <5> QED BY <5>1, WorkersFinite
      <4>4. d \in Promise!Xor(Sums[i], {DigestOf(i, m)}) <=>
              IF d = DigestOf(i, m) THEN d \notin Sums[i] ELSE d \in Sums[i]
        BY DEF Promise!Xor
      <4>5. CASE d # DigestOf(i, m)
        <5>1. Holders(i, d)' = Holders(i, d)
          BY <4>2, <4>5 DEF Holders
        <5> QED BY <4>1, <4>4, <4>5, <5>1
      <4>6. CASE d = DigestOf(i, m) /\ w \in Holders(i, d)
        <5>1. Holders(i, d)' = Holders(i, d) \ {w}
          BY <4>2, <4>6 DEF Holders
        <5>2. Cardinality(Holders(i, d)') = Cardinality(Holders(i, d)) - 1
          BY <4>3, <4>6, <5>1, OneLess
        <5>3. Cardinality(Holders(i, d)') % 2 = 1 <=> ~(Cardinality(Holders(i, d)) % 2 = 1)
          BY <4>3, <5>2
        <5> QED BY <4>1, <4>4, <4>6, <5>3
      <4>7. CASE d = DigestOf(i, m) /\ w \notin Holders(i, d)
        <5>1. Holders(i, d)' = Holders(i, d) \cup {w}
          BY <4>2, <4>7 DEF Holders
        <5>2. Cardinality(Holders(i, d)') = Cardinality(Holders(i, d)) + 1
          BY <4>3, <4>7, <5>1, OneMore
        <5>3. Cardinality(Holders(i, d)') % 2 = 1 <=> ~(Cardinality(Holders(i, d)) % 2 = 1)
          BY <4>3, <5>2
        <5> QED BY <4>1, <4>4, <4>7, <5>3
      <4> QED BY <4>5, <4>6, <4>7
    <3>2. \A x, y : (\A d : d \in x <=> d \in y) => x = y
      OBVIOUS
    <3> QED BY <3>1, <3>2
  <2>2. Sums = [i \in Active |-> Sums[i]] /\ Sums' = [i \in Active |-> Sums'[i]]
    BY <1>15 DEF Sums
  <2> QED BY <2>1, <2>2
<1>17. BytesBy'[Threads] = BytesBy[Threads] + Len(m)
  <2>1. bytes_hashed \in [Workers -> Nat] /\ bytes_hashed' = [bytes_hashed EXCEPT ![w] = @ + pos[w]]
    BY <1>1 DEF Shapes, TakeDigests
  <2>2. BytesBy' = BytesOf(bytes_hashed')
    BY DEF BytesBy, BytesOf
  <2> QED BY <1>2, <1>14, <2>1, <2>2, BytesAdded, BytesByIs DEF m
<1>18. m \in Prefixes(Content[f])
  BY <1>14 DEF m
<1> HIDE DEF f
<1>19. Promise!Hash(f)
  BY <1>5, <1>8, <1>11, <1>12, <1>13, <1>16, <1>17, <1>18 DEF Promise!Hash, Passed
<1> QED BY <1>5, <1>19 DEF Promise!Next, f

\* A file that cannot be opened, or whose path was not copied, is passed over.
LEMMA OpenFailsRefines ==
    ASSUME NoPathIsCut, Known, NEW w \in Workers, Worker(w), OpenFails(w)
    PROVE  Promise!Next
<1> DEFINE S == {Path(w)} \ {NULL}
<1>1. /\ pc[w] = "open" /\ InProgress(w) /\ main # "crashed" /\ Settle(w, NULL)
      /\ UNCHANGED <<mainVars, counters>>
  BY DEF OpenFails, InProgress, Worker
<1>2. UNCHANGED <<only, report, walkVars, items, fingerprint, bytes_hashed>>
  BY <1>1 DEF mainVars, walkVars, counters
<1>3. /\ report = NoReport /\ idx[w] \notin DOMAIN outcome
      /\ Path(w) # NULL => /\ Path(w) \in Walk!Under[Root] /\ Path(w) \notin Walk!Lost
                           /\ Path(w) \notin PathsAt(DOMAIN outcome)
  BY <1>1, AtWork
<1>4. /\ Hashed' = Hashed /\ DOMAIN outcome' = DOMAIN outcome \cup {idx[w]}
      /\ Hashed \subseteq DOMAIN outcome
  BY <1>1, <1>3, HashedSettled DEF Settle, Hashed
<1>5. PathsAt(Hashed)' = PathsAt(Hashed)
  BY <1>2, <1>4 DEF PathsAt
<1>6. Walk!Lost' = Walk!Lost
  BY <1>2, LostSame
<1>7. Passed' = Passed \cup S
  <2>1. ASSUME NEW x
        PROVE  x \in PathsAt(DOMAIN outcome \ Hashed)' <=>
                 x \in PathsAt(DOMAIN outcome \ Hashed) \/ x \in S
    <3>1. x \in PathsAt(DOMAIN outcome \ Hashed)' <=>
            x # NULL /\ \E p \in DOMAIN outcome' \ Hashed' : x = items[p + 1]
      BY <1>2 DEF PathsAt
    <3>2. DOMAIN outcome' \ Hashed' = (DOMAIN outcome \ Hashed) \cup {idx[w]}
      BY <1>3, <1>4
    <3> QED BY <3>1, <3>2, PathsElements DEF Path
  <2>2. PathsAt(DOMAIN outcome \ Hashed)' = PathsAt(DOMAIN outcome \ Hashed) \cup S
    BY <2>1
  <2> QED BY <1>6, <2>2 DEF Passed
<1>8. S \subseteq Walk!Under[Root] \ (PathsAt(Hashed) \cup Passed)
  <2>1. ASSUME NEW x \in S PROVE x \in Walk!Under[Root] /\ x \notin PathsAt(Hashed) /\ x \notin Passed
    <3>1. x \in Walk!Under[Root] /\ x \notin Walk!Lost /\ x \notin PathsAt(DOMAIN outcome)
      BY <1>3
    <3>2. x \notin PathsAt(Hashed) /\ x \notin PathsAt(DOMAIN outcome \ Hashed)
      BY <1>4, <3>1, PathsElements
    <3> QED BY <3>1, <3>2 DEF Passed
  <2> QED BY <2>1
<1>9. Sums' = Sums /\ BytesBy' = BytesBy
  BY <1>2, SumsSame
<1> HIDE DEF S
<1>10. Promise!Skip(S) /\ S \in SUBSET Walk!Under[Root]
  BY <1>2, <1>3, <1>5, <1>7, <1>8, <1>9 DEF Promise!Skip, Passed
<1> QED BY <1>10 DEF Promise!Next

LEMMA AheadElementsNext ==
    WalkInv' /\ walk' # "opening" => \A x : x \in Walk!Ahead' <=> \E i, e : At(i, e, x)'
<1>1. (WalkInv /\ walk # "opening" => \A x : x \in Walk!Ahead <=> \E i, e : At(i, e, x))'
  BY AheadElements, PTL
<1> QED BY <1>1

\* A file the walk has passed by is not come to again.
LEMMA LostGrows ==
    ASSUME NoPathIsCut, Known, Known', Walk!Next
    PROVE  Walk!Lost \subseteq Walk!Lost'
<1>1. WalkInv /\ WalkInv' /\ LosesOnlyFailures /\ LosesOnlyFailures'
  BY DEF Known, BenchInv
<1>2. CASE walk = "opening"
  BY <1>2 DEF Walk!Lost, Walk!Ahead
<1>3. CASE walk = "walking" /\ walk' \in {"walking", "done"}
  <2>1. Walk!Lost = failed /\ Walk!Lost' = failed'
    BY <1>1, <1>3 DEF LosesOnlyFailures, Walk!LosesOnlyFailures
  <2>2. failed \subseteq failed'
    BY <1>3 DEF Walk!Next, Walk!OpenRoot, Walk!Walk, Walk!Leave, Walk!ReaddirFails,
       Walk!PassOver, Walk!LstatFails, Walk!Descend, Walk!Collect
  <2> QED BY <2>1, <2>2
<1>4. CASE walk = "walking" /\ walk' \notin {"walking", "done"}
  <2>1. PICK name \in Walk!Top.todo : Walk!Collect(name)
    BY <1>4 DEF Walk!Next, Walk!OpenRoot, Walk!Walk, Walk!Leave, Walk!ReaddirFails,
       Walk!PassOver, Walk!LstatFails, Walk!Descend
  <2>2. dirs' = Walk!Past(name) /\ items' = items /\ walk' = "crashed"
    BY <1>4, <2>1 DEF Walk!Collect
  <2> DEFINE T == Walk!Top.todo \ {name}
  <2>3. Shrunk(dirs, T, dirs')
    BY <1>1, <1>4, <2>2, PastShrinks
  <2>4. \A i, e, x : At(i, e, x)' => At(i, e, x)
    <3>1. T \in SUBSET Walk!Top.todo
      OBVIOUS
    <3> HIDE DEF T
    <3> QED BY <1>1, <1>4, <2>3, <3>1, AtShrunk
  <2>5. Walk!Ahead' \subseteq Walk!Ahead
    BY <1>1, <1>4, <2>2, <2>4, AheadElements, AheadElementsNext
  <2>6. Walk!Collected' = Walk!Collected
    BY <2>2 DEF Walk!Collected
  <2> QED BY <2>5, <2>6 DEF Walk!Lost
<1>5. walk \in {"opening", "walking"}
  BY DEF Walk!Next, Walk!OpenRoot, Walk!Walk
<1> QED BY <1>2, <1>3, <1>4, <1>5

\* The walk passes over what a call fails for.
LEMMA WalkRefines ==
    ASSUME NoPathIsCut, Known, Known', TakeWalk
    PROVE  Promise!Next
<1> DEFINE S == Walk!Lost' \ Walk!Lost
<1>1. main = "walk" /\ Walk!Next /\ UNCHANGED <<only, main, turn, agg, report, workerVars>>
  BY DEF TakeWalk
<1>2. report = NoReport /\ DOMAIN outcome = {} /\ DOMAIN outcome' = {}
  BY <1>1 DEF Known, BenchInv, Phases, Idle, workerVars
<1>3. Hashed = {} /\ Hashed' = {}
  BY <1>2 DEF Hashed
<1>4. /\ PathsAt(Hashed) = {} /\ PathsAt(Hashed)' = {}
      /\ PathsAt(DOMAIN outcome \ Hashed) = {} /\ PathsAt(DOMAIN outcome \ Hashed)' = {}
  BY <1>2, <1>3 DEF PathsAt
<1>5. Passed = Walk!Lost /\ Passed' = Walk!Lost'
  BY <1>4 DEF Passed
<1>6. Walk!Lost \subseteq Walk!Lost' /\ Walk!Lost' \subseteq Walk!Under[Root]
  BY <1>1, LostGrows DEF Walk!Lost
<1>7. Sums' = Sums /\ BytesBy' = BytesBy
  BY <1>1, SumsSame DEF workerVars, counters
<1>8. Passed' = Passed \cup S /\ S \subseteq Walk!Under[Root] \ (PathsAt(Hashed) \cup Passed)
  BY <1>4, <1>5, <1>6
<1>9. report' = report
  BY <1>1
<1> HIDE DEF S
<1>10. Promise!Skip(S) /\ S \in SUBSET Walk!Under[Root]
  BY <1>2, <1>4, <1>7, <1>8, <1>9 DEF Promise!Skip, Passed
<1> QED BY <1>10 DEF Promise!Next

\* The paths of the files hashed are all different.
LEMMA PathsCounted ==
    ASSUME WalkInv, ClaimedOnce, Stages, Walk!ListedOnce
    PROVE  Cardinality(PathsAt(Hashed)) = Cardinality(Hashed)
<1> DEFINE f == [p \in Hashed |-> items[p + 1]]
<1>1. /\ items \in Seq(Walk!Files \cup {NULL}) /\ Len(items) \in Nat
      /\ DOMAIN items = 1..Len(items)
  BY DEF WalkInv, Walk!TypeOK
<1>2. NULL \notin Walk!Files
  BY WalkAssumption DEF Walk!TreeAssumption, Walk!Files
<1>3. ASSUME NEW p \in Hashed
      PROVE  p \in Nat /\ p + 1 \in DOMAIN items /\ items[p + 1] # NULL
  <2>1. p \in 0..Len(items) - 1
    BY ClaimedElements DEF Hashed
  <2> QED BY <1>1, <1>2, <2>1 DEF Stages
<1>4. IsFiniteSet(Hashed)
  BY <1>1, HashedFinite
<1>5. f \in [Hashed -> PathsAt(Hashed)]
  BY <1>3, PathsElements
<1>6. ASSUME NEW p \in Hashed, NEW q \in Hashed, f[p] = f[q] PROVE p = q
  <2>1. items[p + 1] = items[q + 1]
    BY <1>6
  <2>2. p + 1 = q + 1
    BY <1>3, <2>1 DEF Walk!ListedOnce
  <2> QED BY <1>3, <2>2
<1>7. ASSUME NEW x \in PathsAt(Hashed) PROVE \E p \in Hashed : f[p] = x
  BY <1>7, PathsElements
<1> HIDE DEF f
<1>8. f \in Bijection(Hashed, PathsAt(Hashed))
  BY <1>5, <1>6, <1>7 DEF Bijection, Injection, Surjection, IsInjective
<1>9. ExistsBijection(Hashed, PathsAt(Hashed))
  BY <1>8 DEF ExistsBijection
<1> QED BY <1>4, <1>9, FS_Bijection

\* What is printed is what the specification says, and leaves out nothing.
LEMMA ReportRefines ==
    ASSUME NoPathIsCut, Known, Known', Report
    PROVE  Promise!Next
<1>1. /\ main = "report" /\ main' = "reported" /\ report' = agg
      /\ UNCHANGED <<only, walkVars, items, turn, agg, workerVars>>
  BY DEF Report, walkVars
<1>2. UNCHANGED <<outcome, fingerprint, bytes_hashed>>
  BY <1>1 DEF workerVars, counters
<1>3. /\ WalkInv /\ Shapes /\ Phases /\ ClaimedOnce /\ Stages /\ Aggregated
      /\ walk = "done" /\ dirs = << >> /\ report = NoReport
  BY <1>1 DEF Known, BenchInv, Stages, Phases
<1>4. Account /\ Walk!ListedOnce
  BY <1>3 DEF Known, TreeKept, NoPathIsCut, TreeInv
<1>5. Hashed' = Hashed /\ PathsAt(Hashed)' = PathsAt(Hashed)
  BY <1>1, <1>2 DEF Hashed, PathsAt
<1>6. Passed' = Passed
  <2>1. PathsAt(DOMAIN outcome \ Hashed)' = PathsAt(DOMAIN outcome \ Hashed)
    BY <1>1, <1>2, <1>5 DEF PathsAt
  <2> QED BY <1>1, <2>1, LostSame DEF Passed
<1>7. Sums' = Sums /\ BytesBy' = BytesBy
  BY <1>1, <1>2, SumsSame
<1>8. agg.fingerprint = Sums /\ agg.bytes = BytesBy[Threads]
  <2>1. SumsOf(Threads) = Sums
    BY DEF SumsOf, Sums, Workers
  <2> QED BY <1>1, <1>3, <2>1 DEF Aggregated, AddedUp
<1>9. agg.files = Cardinality(PathsAt(Hashed))
  <2>1. report'.files = Cardinality(Hashed')
    <3>1. ReportsAll'
      BY DEF Known
    <3>2. files_done' = Cardinality(Hashed)' /\ report'.files = files_done'
      BY <1>1, <3>1 DEF ReportsAll
    <3> QED BY <3>2
  <2> QED BY <1>1, <1>3, <1>4, <1>5, <2>1, PathsCounted
<1>10. report' = [fingerprint |-> Sums, files |-> Cardinality(PathsAt(Hashed)),
                  bytes |-> BytesBy[Threads]]
  BY <1>1, <1>3, <1>8, <1>9 DEF Aggregated
<1>11. PathsAt(Hashed) \cup Passed = Walk!Under[Root] \/ PathsAt(Hashed) = {}
  <2>1. DOMAIN outcome = {} \/ DOMAIN outcome = 0..Len(items) - 1
    <3>1. next' = next /\ outcome' = outcome /\ items' = items
      BY <1>1, <1>2 DEF workerVars, counters
    <3>2. next = 0 \/ DOMAIN outcome = 0..Len(items) - 1
      BY <1>1, <3>1 DEF Known, ReportsAll
    <3>3. ASSUME next = 0 PROVE DOMAIN outcome = {}
      <4>1. \A i : i \in DOMAIN outcome => i \in 0..Len(items) - 1 /\ i < next
        BY <1>3, ClaimedElements
      <4>2. Len(items) \in Nat
        BY <1>3 DEF WalkInv, Walk!TypeOK
      <4>3. \A i : i \notin DOMAIN outcome
        BY <3>3, <4>1, <4>2
      <4> QED BY <4>3
    <3> QED BY <3>2, <3>3
  <2>2. CASE DOMAIN outcome = {}
    BY <2>2 DEF Hashed, PathsAt
  <2>3. CASE DOMAIN outcome = 0..Len(items) - 1
    <3>1. items \in Seq(Walk!Files \cup {NULL}) /\ Len(items) \in Nat /\ DOMAIN items = 1..Len(items)
      BY <1>3 DEF WalkInv, Walk!TypeOK
    <3>2. Walk!Ahead = {}
      BY <1>3 DEF Walk!Ahead
    <3>3. ASSUME NEW x
          PROVE  x \in Walk!Collected <=>
                   x \in PathsAt(Hashed) \/ x \in PathsAt(DOMAIN outcome \ Hashed)
      <4>1. x \in Walk!Collected <=> x # NULL /\ \E p \in DOMAIN outcome : x = items[p + 1]
        <5>1. ASSUME NEW i \in DOMAIN items, x = items[i]
              PROVE  \E p \in DOMAIN outcome : x = items[p + 1]
          <6>1. i - 1 \in DOMAIN outcome /\ (i - 1) + 1 = i
            BY <2>3, <3>1
          <6> QED BY <5>1, <6>1
        <5>2. ASSUME NEW p \in DOMAIN outcome PROVE p + 1 \in DOMAIN items
          BY <2>3, <3>1
        <5> QED BY <5>1, <5>2 DEF Walk!Collected
      <4>2. \A p : p \in DOMAIN outcome <=> p \in Hashed \/ p \in DOMAIN outcome \ Hashed
        BY DEF Hashed
      <4> QED BY <4>1, <4>2, PathsElements
    <3>4. \A x : x \in Walk!Collected => x \in Walk!Under[Root]
      BY <1>4 DEF Account
    <3>5. ASSUME NEW x PROVE x \in PathsAt(Hashed) \/ x \in Passed <=> x \in Walk!Under[Root]
      <4>1. x \in Walk!Lost <=> x \in Walk!Under[Root] /\ x \notin Walk!Collected
        BY <3>2 DEF Walk!Lost
      <4> QED BY <3>3, <3>4, <4>1 DEF Passed
    <3> QED BY <3>5
  <2> QED BY <2>1, <2>2, <2>3
<1>12. Promise!Report
  <2>1. \A S : Promise!Cardinality(S) = Cardinality(S)
    BY DEF Promise!Cardinality, Cardinality
  <2> QED BY <1>3, <1>5, <1>6, <1>7, <1>10, <1>11, <2>1 DEF Promise!Report, Passed
<1> QED BY <1>12 DEF Promise!Next
-----------------------------------------------------------------------------
(* Every other step is one the specification does not see *)

LEMMA Unseen ==
    ASSUME UNCHANGED <<only, walkVars, fingerprint, bytes_hashed, outcome, report>>
    PROVE  UNCHANGED Promise!vars
<1>1. Hashed' = Hashed /\ items' = items
  BY DEF Hashed, walkVars
<1>2. /\ PathsAt(Hashed)' = PathsAt(Hashed)
      /\ PathsAt(DOMAIN outcome \ Hashed)' = PathsAt(DOMAIN outcome \ Hashed)
  BY <1>1 DEF PathsAt
<1>3. Walk!Lost' = Walk!Lost
  BY LostSame
<1>4. Sums' = Sums /\ BytesBy' = BytesBy
  BY SumsSame
<1> QED BY <1>2, <1>3, <1>4 DEF Promise!vars

LEMMA StepRefines ==
    ASSUME NoPathIsCut, Known, Known', [Next]_vars
    PROVE  [Promise!Next]_(Promise!vars)
<1> DEFINE Seen == <<only, walkVars, fingerprint, bytes_hashed, outcome, report>>
<1>1. ASSUME NEW w \in Workers, Worker(w) PROVE [Promise!Next]_(Promise!vars)
  <2>1. CASE TakeDigests(w)
    BY <1>1, <2>1, HashRefines
  <2>2. CASE OpenFails(w)
    BY <1>1, <2>2, OpenFailsRefines
  <2>3. CASE ~TakeDigests(w) /\ ~OpenFails(w)
    <3>1. UNCHANGED Seen
      BY <1>1, <2>3 DEF Worker, Setup, Claim, Open, UseNoContext, ReadChunk, Count, Exit,
         Crash, mainVars, workerVars, counters
    <3> QED BY <3>1, Unseen
  <2> QED BY <2>1, <2>2, <2>3
<1>2. ASSUME Main PROVE [Promise!Next]_(Promise!vars)
  <2>1. CASE TakeWalk
    BY <2>1, WalkRefines
  <2>2. CASE Report
    BY <2>2, ReportRefines
  <2>3. CASE ~TakeWalk /\ ~Report
    <3>1. UNCHANGED Seen
      BY <1>2, <2>3 DEF Main, Select, EndWalk, Spawn, Join, JoinNoThread, JoinTwice,
         Aggregate, Crash, workerVars, counters
    <3> QED BY <3>1, Unseen
  <2> QED BY <2>1, <2>2, <2>3
<1>3. CASE UNCHANGED vars
  BY <1>3, Unseen DEF vars, mainVars, workerVars, counters
<1> QED BY <1>1, <1>2, <1>3 DEF Next
-----------------------------------------------------------------------------
(* The refinement *)

LEMMA RefineInit ==
    ASSUME Init
    PROVE  Promise!Init /\ Aggregated /\ Stages
<1>1. /\ main = "options" /\ outcome = << >> /\ report = NoReport /\ Walk!Init
      /\ fingerprint = [w \in Workers |-> [i \in Active |-> {}]]
      /\ bytes_hashed = [w \in Workers |-> 0]
      /\ agg = [fingerprint |-> [i \in Active |-> {}], files |-> 0, bytes |-> 0]
  BY DEF Init
<1>2. DOMAIN outcome = {} /\ Hashed = {}
  BY <1>1 DEF Hashed
<1>3. PathsAt(Hashed) = {} /\ PathsAt(DOMAIN outcome \ Hashed) = {}
  BY <1>2 DEF PathsAt
<1>4. Walk!Lost = {}
  BY <1>1 DEF Walk!Init, Walk!Lost, Walk!Ahead
<1>5. Sums = [i \in Active |-> {}]
  <2>1. ASSUME NEW i \in Active PROVE XorOver(Workers, LAMBDA w : fingerprint[w][i]) = {}
    BY <1>1, <2>1 DEF XorOver
  <2> QED BY <2>1 DEF Sums
<1>6. BytesBy[Threads] = 0
  <2>1. Threads \in Nat /\ Workers = 1..Threads /\ bytes_hashed \in [Workers -> Nat]
    BY <1>1, ThreadsAssumption DEF Workers
  <2> DEFINE f == BytesBy
             T == {k \in 0..Threads : f[k] # 0}
  <2>2. SumsUp(f, bytes_hashed, Threads)
    BY <2>1, BytesSumUp, BytesByIs
  <2> HIDE DEF f
  <2>3. f[0] = 0 /\ \A k \in 1..Threads : f[k] = f[k - 1] + 0
    BY <1>1, <2>1, <2>2 DEF SumsUp
  <2>4. T = {}
    <3> SUFFICES ASSUME T # {} PROVE FALSE
      OBVIOUS
    <3>1. T \in SUBSET Nat
      BY <2>1
    <3>2. PICK k \in T : \A l \in T : k <= l
      <4> HIDE DEF T
      <4> QED BY <3>1, LeastNatural
    <3>3. k \in 0..Threads /\ f[k] # 0 /\ k # 0
      BY <2>3
    <3>4. k - 1 \in 0..Threads /\ ~(k <= k - 1) /\ k \in 1..Threads
      BY <2>1, <3>3
    <3>5. k - 1 \notin T
      <4> HIDE DEF T
      <4> QED BY <3>2, <3>4
    <3> QED BY <2>3, <3>3, <3>4, <3>5
  <2>5. Threads \in 0..Threads
    BY <2>1
  <2>6. f[Threads] = 0
    BY <2>4, <2>5
  <2> QED BY <2>6 DEF f
<1>7. Promise!Init
  <2>1. Active \in SUBSET DOMAIN g_hashes
    BY DEF Active
  <2> QED BY <1>1, <1>3, <1>4, <1>5, <1>6, <2>1 DEF Promise!Init
<1>8. Aggregated
  BY <1>1 DEF Aggregated
<1>9. Stages
  BY <1>1, <1>2 DEF Stages, Walk!Init
<1> QED BY <1>7, <1>8, <1>9

LEMMA StuttersKeep ==
    ASSUME Aggregated, Stages, UNCHANGED vars
    PROVE  Aggregated' /\ Stages'
<1>1. /\ UNCHANGED <<only, main, turn, agg, fingerprint, bytes_hashed, outcome, items>>
      /\ UNCHANGED walkVars
  BY DEF vars, mainVars, walkVars, workerVars, counters
<1>2. Active' = Active /\ BytesBy' = BytesBy /\ \A k : SumsOf(k)' = SumsOf(k)
  BY <1>1 DEF Active, BytesBy, SumsOf, XorOver
<1>3. Aggregated'
  <2>1. AddedUp(Threads)' <=> AddedUp(Threads)
    BY <1>1, <1>2 DEF AddedUp
  <2>2. AddedUp(turn - 1)' <=> AddedUp(turn - 1)
    BY <1>1, <1>2 DEF AddedUp
  <2> QED BY <1>1, <1>2, <2>1, <2>2 DEF Aggregated
<1>4. Stages'
  BY <1>1 DEF Stages, Hashed, walkVars
<1> QED BY <1>3, <1>4

LEMMA AlwaysKnown ==
    ASSUME NoPathIsCut
    PROVE  Spec => []Known
<1>1. Init => Aggregated /\ Stages
  BY RefineInit
<1>2. BenchInv /\ Aggregated /\ Stages /\ [Next]_vars => Aggregated' /\ Stages'
  BY AggregatedStep, StagesStep, StuttersKeep DEF BenchInv
<1>3. Spec => [](Aggregated /\ Stages)
  BY <1>1, <1>2, BenchAlways, PTL DEF Spec
<1>4. BenchInv /\ TreeKept /\ (Aggregated /\ Stages) /\ SumsHold /\ ReportsAll /\ LosesOnlyFailures
        => Known
  BY DEF Known
<1> QED BY <1>3, <1>4, BenchAlways, TreeAlways, SumsAreHeld, ReportIsComplete,
           WalkLosesOnlyFailures, PTL

\* Where no path is cut off, the bench reports for each selected hash the XOR of
\* the digests of the files it hashed, each file under the root taken once and
\* none left out but for a call that failed, however many workers there are and
\* in whatever order they take the files.
THEOREM BenchKeepsPromise ==
    ASSUME NoPathIsCut
    PROVE  Spec => KeepsPromise
<1>1. Init => Promise!Init
  BY RefineInit
<1>2. Known /\ Known' /\ [Next]_vars => [Promise!Next]_(Promise!vars)
  BY StepRefines
<1> QED BY <1>1, <1>2, AlwaysKnown, PTL DEF Spec, KeepsPromise, Promise!Spec
=============================================================================
