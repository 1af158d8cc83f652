-------------------------- MODULE MicroBenchProofs --------------------------
(***************************************************************************)
(* The type invariant of MicroBench, that its calls stay inside the pool,  *)
(* that they go round it, and that they take the time asked for, for every *)
(* list of sizes, pool, clock and cost of a call.                          *)
(***************************************************************************)
EXTENDS MicroBench, WellFoundedInduction, TLAPS

(* Arithmetic *)

\* The helper Larger returns the larger of two numbers.
LEMMA LargerNat ==
    ASSUME NEW a \in Nat, NEW b \in Nat
    PROVE  Larger(a, b) \in Nat /\ Larger(a, b) >= a /\ Larger(a, b) >= b
                                /\ Larger(a, b) \in {a, b}
  BY DEF Larger

\* A quotient of natural numbers is one, and fits into the dividend.
LEMMA Quotient ==
    ASSUME NEW a \in Nat, NEW b \in Nat \ {0}
    PROVE  a \div b \in Nat /\ (a \div b) * b <= a
  BY SMT

\* As many regions of size b as n_buffers says fit into a >= b bytes.
LEMMA RegionsFit ==
    ASSUME NEW a \in Nat, NEW b \in Nat \ {0}, b <= a,
           NEW r \in Nat, r + 1 <= Larger(a \div b, 1)
    PROVE  (r + 1) * b <= a
  <1>1. a \div b \in Nat /\ (a \div b) * b <= a
    BY Quotient
  <1>2. CASE a \div b > 1
    <2>1. r + 1 <= a \div b
      BY <1>1, <1>2 DEF Larger
    <2>2. (r + 1) * b <= (a \div b) * b
      <3> DEFINE q == a \div b
      <3>1. q \in Nat /\ r + 1 <= q
        BY <1>1, <2>1
      <3> HIDE DEF q
      <3>2. (r + 1) * b <= q * b
        BY <3>1, SMTT(30)
      <3> QED
        BY <3>2 DEF q
    <2>3. (r + 1) * b \in Nat /\ (a \div b) * b \in Nat
      BY <1>1
    <2> QED
      BY <1>1, <2>2, <2>3
  <1>3. CASE ~(a \div b > 1)
    <2>1. r = 0
      BY <1>1, <1>3 DEF Larger
    <2> QED
      BY <2>1
  <1> QED
    BY <1>2, <1>3
-----------------------------------------------------------------------------
(* The invariant *)

\* What is known of the options.
OptsOK ==
    /\ opts \in [only : Only, only_size : OnlySize, cold : Cold, min_sec : MinSec]

\* The buffer is as large as the pool and the largest input, and all of it set.
PoolFilled ==
    pc \notin {"options", "failed"} =>
        /\ alloc_size = Larger(opts.cold, max_size)
        /\ filled = alloc_size

\* In a loop, the size is one of kSizes, and every region before the next one has
\* had one call more than it and those after it.
Rotation ==
    InLoop =>
        /\ si \in DOMAIN kSizes
        /\ bi \in 0..n_buffers - 1
        /\ phase \in 0..RES - 1
        /\ visits \in [0..n_buffers - 1 -> Nat]
        /\ \A r \in 0..n_buffers - 1 :
             visits[r] = IF r < bi THEN visits[n_buffers - 1] + 1
                                   ELSE visits[n_buffers - 1]

MicroInv ==
    /\ OptsOK /\ alloc_size \in Nat /\ filled \in Nat
    /\ TypeOK /\ PoolFilled /\ Rotation
-----------------------------------------------------------------------------
(* Facts the steps share *)

\* The sizes are positive, the last of them the largest.
LEMMA SizesFacts ==
    /\ Len(kSizes) \in Nat \ {0} /\ DOMAIN kSizes = 1..Len(kSizes)
    /\ \A k \in DOMAIN kSizes : kSizes[k] \in Nat \ {0} /\ kSizes[k] <= max_size
    /\ max_size \in Nat \ {0}
  <1>1. Len(kSizes) \in Nat \ {0} /\ DOMAIN kSizes = 1..Len(kSizes)
    BY SizesAssumption
  <1>2. \A k \in DOMAIN kSizes : kSizes[k] \in Nat \ {0}
    BY SizesAssumption
  <1>3. ASSUME NEW k \in DOMAIN kSizes PROVE kSizes[k] <= max_size
    <2>1. CASE k = Len(kSizes)
      BY <1>1, <1>2, <2>1 DEF max_size
    <2>2. CASE k < Len(kSizes)
      BY <1>1, <1>2, <2>2, SizesAssumption DEF max_size
    <2> QED
      BY <1>1, <2>1, <2>2
  <1> QED
    BY <1>1, <1>2, <1>3 DEF max_size

\* There is at least one region.
LEMMA RegionsNat ==
    ASSUME MicroInv, si \in DOMAIN kSizes
    PROVE  n_buffers \in Nat \ {0} /\ n \in Nat \ {0}
  <1>1. n \in Nat \ {0}
    BY SizesFacts DEF n
  <1>2. alloc_size \div n \in Nat
    BY <1>1, Quotient DEF MicroInv
  <1>3. Larger(alloc_size \div n, 1) \in Nat /\ Larger(alloc_size \div n, 1) >= 1
    BY <1>2, LargerNat
  <1> QED
    BY <1>1, <1>3 DEF n_buffers

\* What BeginLoop establishes when the loop it begins has a natural number of
\* calls, for the hash and size reached.
LEMMA LoopBegins ==
    ASSUME MicroInv, si \in DOMAIN kSizes, NEW calls \in Nat, BeginLoop(calls),
           UNCHANGED <<opts, alloc_size, filled, hi, si>>, t' \in Nat,
           pc' \in {"calibrate", "measure"}, pc \notin {"options", "failed"}
    PROVE  MicroInv'
  <1>1. n_buffers \in Nat \ {0} /\ n_buffers' = n_buffers
    BY RegionsNat DEF n_buffers, n
  <1>2. /\ iters' = calls /\ i' = 0 /\ bi' = 0 /\ phase' \in 0..RES - 1
        /\ visits' = [r \in 0..n_buffers - 1 |-> 0] /\ cost' \in Costs
    BY DEF BeginLoop
  <1>3. TypeOK'
    <2>1. DOMAIN visits' = 0..n_buffers - 1 /\ 0 \in 0..n_buffers - 1
      BY <1>1, <1>2
    <2>2. bi' \in DOMAIN visits'
      BY <1>2, <2>1
    <2> QED
      BY <1>2, <2>2 DEF MicroInv, TypeOK, InLoop
  <1>4. Rotation'
    <2>1. bi' \in 0..n_buffers - 1
      BY <1>1, <1>2
    <2>2. visits' \in [0..n_buffers - 1 -> Nat]
      BY <1>2
    <2>3. \A r \in 0..n_buffers - 1 : visits'[r] = 0 /\ ~(r < bi')
      BY <1>1, <1>2
    <2>4. n_buffers - 1 \in 0..n_buffers - 1
      BY <1>1
    <2> QED
      BY <1>1, <1>2, <2>1, <2>2, <2>3, <2>4 DEF Rotation, InLoop
  <1> QED
    BY <1>3, <1>4 DEF MicroInv, OptsOK, PoolFilled

\* The clock never shows a negative time.
LEMMA ElapsedNat ==
    ASSUME MicroInv, InLoop
    PROVE  elapsed \in Nat
  <1>1. phase \in Nat /\ cost \in Nat /\ i \in Nat /\ RES \in Nat \ {0}
    <2>1. RES \in Nat \ {0} /\ Costs \subseteq Nat
      BY TimeAssumption
    <2>2. phase \in 0..RES - 1
      BY DEF MicroInv, Rotation
    <2>3. cost \in Costs /\ i \in Nat
      BY DEF MicroInv, TypeOK
    <2> QED
      BY <2>1, <2>2, <2>3
  <1>2. i * cost \in Nat
    BY <1>1
  <1>3. phase + i * cost \in Nat
    BY <1>1, <1>2
  <1>4. (phase + i * cost) \div RES \in Nat
    BY <1>1, <1>3, Quotient
  <1> QED
    BY <1>1, <1>4 DEF elapsed

\* The loop that is measured has a natural number of calls.
LEMMA ScaledNat ==
    ASSUME MicroInv, NEW calls \in Nat, NEW time \in Nat
    PROVE  scaled(calls, time) \in Nat
  <1>1. min_sec \in Nat
    BY TimeAssumption DEF MicroInv, OptsOK, min_sec
  <1>2. Larger(time, 1) \in Nat \ {0}
    BY LargerNat
  <1>3. calls * min_sec \in Nat
    BY <1>1
  <1>4. (calls * min_sec) \div Larger(time, 1) \in Nat
    BY <1>2, <1>3, Quotient
  <1> QED
    BY <1>4, LargerNat DEF scaled
-----------------------------------------------------------------------------
(* MicroInv is inductive *)

\* The initial states satisfy the invariant.
LEMMA MicroInit == Init => MicroInv
  <1> SUFFICES ASSUME Init PROVE MicroInv
    OBVIOUS
  <1>1. hi \in 1..Len(Hashes) + 1 /\ si \in 1..Len(kSizes) + 1
    BY SizesAssumption, SizesFacts DEF Init
  <1> QED
    BY <1>1 DEF Init, MicroInv, OptsOK, TypeOK, PoolFilled, Rotation, InLoop

\* Every step keeps it.
LEMMA MicroStep == MicroInv /\ [Next]_vars => MicroInv'
  <1> SUFFICES ASSUME MicroInv, [Next]_vars PROVE MicroInv'
    OBVIOUS
  <1> USE SizesFacts
  <1>1. CASE Allocate
    <2>1. opts.cold \in Nat
      BY TimeAssumption DEF MicroInv, OptsOK
    <2>2. Larger(opts.cold, max_size) \in Nat
      BY <2>1, LargerNat
    <2>3. /\ pc' \in {"next", "failed"} /\ alloc_size' \in Nat /\ filled' \in Nat
          /\ filled' <= alloc_size'
          /\ pc' = "next" => /\ alloc_size' = Larger(opts.cold, max_size)
                             /\ filled' = alloc_size'
      BY <1>1, <2>2 DEF Allocate, fill_random, MicroInv, TypeOK
    <2>4. UNCHANGED <<opts, hi, si, loopVars, t>>
      BY <1>1 DEF Allocate
    <2> QED
      BY <2>3, <2>4
      DEF loopVars, MicroInv, OptsOK, TypeOK, PoolFilled, Rotation, InLoop
  <1>2. CASE NextHash
    <2>1. hi' \in 1..Len(Hashes) + 1 /\ si' \in 1..Len(kSizes) + 1
      BY <1>2, SizesAssumption DEF NextHash, MicroInv, TypeOK
    <2> QED
      BY <1>2, <2>1
      DEF NextHash, loopVars, MicroInv, OptsOK, TypeOK, PoolFilled, Rotation, InLoop
  <1>3. CASE SkipSize
    <2>1. si' \in 1..Len(kSizes) + 1
      BY <1>3 DEF SkipSize, Asked, MicroInv, TypeOK
    <2> QED
      BY <1>3, <2>1
      DEF SkipSize, loopVars, MicroInv, OptsOK, TypeOK, PoolFilled, Rotation, InLoop
  <1>4. CASE Calibrate
    <2>1. si \in DOMAIN kSizes
      BY <1>4 DEF Calibrate, Asked, MicroInv, TypeOK
    <2>2. t' \in Nat
      BY <1>4 DEF Calibrate, MicroInv, TypeOK
    <2> QED
      BY <1>4, <2>1, <2>2, LoopBegins DEF Calibrate
  <1>5. CASE Call
    <2>1. InLoop /\ i < iters /\ UNCHANGED <<opts, pc, alloc_size, filled, hi, si, iters, cost, phase, t>>
      BY <1>5 DEF Call, InLoop
    <2>2. n_buffers \in Nat \ {0} /\ n_buffers' = n_buffers
      BY <2>1, RegionsNat DEF MicroInv, Rotation, n_buffers, n
    <2> DEFINE N == n_buffers
    <2>3. /\ N \in Nat \ {0} /\ bi \in 0..N - 1 /\ visits \in [0..N - 1 -> Nat]
          /\ \A r \in 0..N - 1 : visits[r] = IF r < bi THEN visits[N - 1] + 1 ELSE visits[N - 1]
      BY <2>1, <2>2 DEF MicroInv, Rotation
    <2>4. /\ bi' = IF bi + 1 >= N THEN 0 ELSE bi + 1
          /\ visits' = [visits EXCEPT ![bi] = @ + 1]
          /\ i' = i + 1
      BY <1>5 DEF Call, turn
    <2>5. /\ bi' \in 0..N - 1 /\ visits' \in [0..N - 1 -> Nat]
          /\ \A r \in 0..N - 1 : visits'[r] = IF r < bi' THEN visits'[N - 1] + 1 ELSE visits'[N - 1]
      <3> HIDE DEF N
      <3> QED
        BY <2>3, <2>4
    <2>6. Rotation'
      BY <2>1, <2>2, <2>5 DEF MicroInv, Rotation, InLoop
    <2>7. TypeOK'
      <3>1. i' \in Nat /\ i' <= iters'
        BY <2>1, <2>4 DEF MicroInv, TypeOK
      <3>2. bi' \in DOMAIN visits'
        BY <2>5
      <3> QED
        BY <2>1, <3>1, <3>2 DEF MicroInv, TypeOK, InLoop
    <2> QED
      BY <2>1, <2>6, <2>7 DEF MicroInv, OptsOK, PoolFilled
  <1>6. CASE SizeUp
    <2>1. InLoop /\ si \in DOMAIN kSizes
      BY <1>6 DEF SizeUp, InLoop, MicroInv, Rotation
    <2>2. t' \in Nat
      BY <1>6, <2>1, ElapsedNat DEF SizeUp
    <2>3. more(iters) \in Nat
      BY DEF more, MicroInv, TypeOK
    <2> QED
      BY <1>6, <2>1, <2>2, <2>3, LoopBegins DEF SizeUp
  <1>7. CASE Measure
    <2>1. InLoop /\ si \in DOMAIN kSizes
      BY <1>7 DEF Measure, InLoop, MicroInv, Rotation
    <2>2. elapsed \in Nat /\ iters \in Nat /\ iters * 4 \in Nat
      BY <2>1, ElapsedNat DEF MicroInv, TypeOK
    <2>3. /\ scaled(iters, elapsed) \in Nat
          /\ scaled(iters * 4, elapsed) \in Nat
      BY <2>2, ScaledNat
    <2>4. PICK calls \in Nat : BeginLoop(calls)
      BY <1>7, <2>3 DEF Measure
    <2>5. t' \in Nat
      BY <1>7, <2>2 DEF Measure
    <2> QED
      BY <1>7, <2>1, <2>4, <2>5, LoopBegins DEF Measure
  <1>8. CASE Report
    <2>1. si' \in 1..Len(kSizes) + 1
      BY <1>8 DEF Report, MicroInv, TypeOK, Rotation, InLoop
    <2> QED
      BY <1>8, <2>1
      DEF Report, loopVars, MicroInv, OptsOK, TypeOK, PoolFilled, Rotation, InLoop
  <1>9. CASE Finish
    BY <1>9
    DEF Finish, loopVars, MicroInv, OptsOK, TypeOK, PoolFilled, Rotation, InLoop
  <1>10. CASE UNCHANGED vars
    BY <1>10
    DEF vars, loopVars, MicroInv, OptsOK, TypeOK, PoolFilled, Rotation, InLoop,
        n_buffers, n
  <1> QED
    BY <1>1, <1>2, <1>3, <1>4, <1>5, <1>6, <1>7, <1>8, <1>9, <1>10 DEF Next

\* MicroInv is an invariant of bench/micro.c, for every list of sizes, pool,
\* duration, cost of a call and clock.
THEOREM MicroCorrect == Spec => []MicroInv
  BY MicroInit, MicroStep, PTL DEF Spec

\* The variables of run_micro and of its loops keep their types.
THEOREM MicroTypes == Spec => []TypeOK
  <1>1. MicroInv => TypeOK
    BY DEF MicroInv
  <1> QED
    BY <1>1, MicroCorrect, PTL

\* No call of bench_one_size or bench_one_size_cold reads outside what
\* fill_random has set, whatever the pool asked for.
THEOREM CallsStayInPool == Spec => []RegionsInPool
  <1>1. ASSUME MicroInv, InLoop, i < iters
        PROVE  (bi + 1) * n <= filled
    <2>1. si \in DOMAIN kSizes /\ bi \in 0..n_buffers - 1
      BY <1>1 DEF MicroInv, Rotation
    <2>2. n_buffers \in Nat \ {0} /\ n \in Nat \ {0}
      BY <1>1, <2>1, RegionsNat
    <2>3. n <= max_size
      BY <2>1, SizesFacts DEF n
    <2>4. /\ filled = alloc_size /\ alloc_size \in Nat
          /\ alloc_size = Larger(opts.cold, max_size)
      BY <1>1 DEF MicroInv, PoolFilled, InLoop
    <2>5. opts.cold \in Nat
      BY <1>1, TimeAssumption DEF MicroInv, OptsOK
    <2>6. max_size <= alloc_size /\ max_size \in Nat
      BY <2>4, <2>5, LargerNat, SizesFacts
    <2>7. n <= alloc_size
      BY <2>2, <2>3, <2>4, <2>6
    <2>8. CASE opts.cold > 0
      <3>1. bi \in Nat /\ bi + 1 <= Larger(alloc_size \div n, 1)
        BY <2>1, <2>2, <2>8 DEF n_buffers
      <3> QED
        BY <2>2, <2>4, <2>7, <3>1, RegionsFit
    <2>9. CASE ~(opts.cold > 0)
      <3>1. bi = 0
        BY <2>1, <2>9 DEF n_buffers
      <3> QED
        BY <2>2, <2>4, <2>7, <3>1
    <2> QED
      BY <2>8, <2>9
  <1>2. MicroInv => RegionsInPool
    BY <1>1 DEF RegionsInPool
  <1> QED
    BY <1>2, MicroCorrect, PTL

\* bench_one_size_cold uses every region of the pool once before it uses any
\* of them again.
THEOREM CallsGoRound == Spec => []GoesRound
  <1>1. ASSUME MicroInv, InLoop, NEW r \in DOMAIN visits, NEW s \in DOMAIN visits
        PROVE  visits[r] <= visits[s] + 1
    <2>1. n_buffers \in Nat \ {0}
      BY <1>1, RegionsNat DEF MicroInv, Rotation
    <2>2. /\ r \in 0..n_buffers - 1 /\ s \in 0..n_buffers - 1
          /\ visits[n_buffers - 1] \in Nat
      BY <1>1, <2>1 DEF MicroInv, Rotation
    <2>3. /\ visits[r] \in {visits[n_buffers - 1], visits[n_buffers - 1] + 1}
          /\ visits[s] \in {visits[n_buffers - 1], visits[n_buffers - 1] + 1}
      BY <1>1, <2>2 DEF MicroInv, Rotation
    <2> QED
      BY <2>2, <2>3
  <1>2. MicroInv => GoesRound
    BY <1>1 DEF GoesRound
  <1> QED
    BY <1>2, MicroCorrect, PTL
-----------------------------------------------------------------------------
(* The time the measured loop takes *)

\* Products of natural numbers are monotonic, and positive factors cancel.
LEMMA Monotonic ==
    ASSUME NEW a \in Nat, NEW b \in Nat, NEW c \in Nat, a <= b
    PROVE  a * c <= b * c /\ c * a <= c * b
  BY SMTT(30)

LEMMA Cancels ==
    ASSUME NEW a \in Nat, NEW b \in Nat, NEW c \in Nat \ {0}, a * c <= b * c
    PROVE  a <= b
  <1>1. CASE b + 1 <= a
    <2>1. (b + 1) * c <= a * c
      BY <1>1, Monotonic
    <2>2. (b + 1) * c = b * c + c /\ b * c \in Nat /\ a * c \in Nat
      BY SMTT(30)
    <2> QED
      BY <2>1, <2>2
  <1> QED
    BY <1>1

\* A quotient is the largest number of times the divisor fits.
LEMMA QuotientTight ==
    ASSUME NEW a \in Nat, NEW b \in Nat \ {0}
    PROVE  a \div b \in Nat /\ (a \div b) * b <= a /\ a < (a \div b) * b + b
  BY SMTT(30)

\* The clock is less than a tick off, and shows nothing or a tick at least.
LEMMA ClockBounds ==
    ASSUME NEW p \in Nat, NEW x \in Nat, NEW r \in Nat \ {0}, p <= r - 1
    PROVE  LET e == r * ((p + x) \div r)
           IN e \in Nat /\ e <= x + r - 1 /\ x <= e + r - 1 /\ (e = 0 \/ e >= r)
  <1> DEFINE q == (p + x) \div r
             e == r * q
  <1>1. q \in Nat /\ q * r <= p + x /\ p + x < q * r + r
    BY QuotientTight
  <1> HIDE DEF q
  <1>2. q * r = e /\ e \in Nat
    BY <1>1, SMTT(30)
  <1>3. q = 0 \/ 1 * r <= q * r
    BY <1>1, Monotonic
  <1> HIDE DEF e
  <1>4. e = 0 \/ e >= r
    BY <1>2, <1>3 DEF e
  <1>5. e \in Nat /\ e <= x + r - 1 /\ x <= e + r - 1
    BY <1>1, <1>2
  <1> QED
    BY <1>4, <1>5 DEF e, q

\* A loop of k calls, scaled to m from calls that showed e, is a call short of m
\* at most when they took that long, and less than that by the tick by which the
\* clock may have shown too much.
LEMMA EnoughCalls ==
    ASSUME NEW calls \in Nat, NEW e \in Nat, NEW m \in Nat, NEW c \in Nat, NEW r \in Nat \ {0},
           NEW k \in Nat, calls * m <= (k + 1) * e,
           e <= calls * c + r - 1, e >= r
    PROVE  m * (e - (r - 1)) <= c * ((k + 1) * e)
  <1> DEFINE d == e - (r - 1)
  <1>1. d \in Nat /\ d <= calls * c /\ calls * c \in Nat
    <2>1. calls * c \in Nat
      BY SMTT(30)
    <2> QED
      BY <2>1
  <1> HIDE DEF d
  <1>2. m * d <= m * (calls * c)
    BY <1>1, Monotonic
  <1>3. calls * m \in Nat /\ (k + 1) * e \in Nat
    BY SMTT(30)
  <1>4. c * (calls * m) <= c * ((k + 1) * e)
    BY <1>3, Monotonic
  <1>5. m * (calls * c) = c * (calls * m)
    BY SMTT(30)
  <1>6. m * d \in Nat /\ c * (calls * m) \in Nat /\ c * ((k + 1) * e) \in Nat
    BY <1>1, <1>3
  <1>7. m * d <= c * ((k + 1) * e)
    BY <1>2, <1>4, <1>5, <1>6
  <1> QED
    BY <1>7 DEF d

\* A loop scaled from one that showed at least a tenth of m is at most twice m
\* when its calls take c, no more than those of the other did.
LEMMA NotTooMany ==
    ASSUME NEW calls \in Nat, NEW e \in Nat, NEW m \in Nat, NEW c \in Nat, NEW r \in Nat \ {0},
           NEW k \in Nat, k * Larger(e, 1) <= calls * m,
           c * calls <= e + r - 1, e = 0 \/ e >= r, e * 10 >= m
    PROVE  c * k <= 2 * m
  <1>1. CASE e = 0
    <2>1. m = 0 /\ Larger(e, 1) = 1
      BY <1>1 DEF Larger
    <2>2. k = 0
      BY <2>1
    <2> QED
      BY <2>2
  <1>2. CASE e >= r
    <2>1. Larger(e, 1) = e /\ e \in Nat \ {0} /\ e + r - 1 <= 2 * e
      BY <1>2 DEF Larger
    <2>2. k * e \in Nat /\ calls * m \in Nat /\ c * calls \in Nat /\ c * k \in Nat
      BY SMTT(30)
    <2>3. c * (k * e) <= c * (calls * m)
      BY <2>1, <2>2, Monotonic
    <2>4. (c * calls) * m <= (2 * e) * m
      <3>1. c * calls <= 2 * e /\ 2 * e \in Nat
        BY <2>1, <2>2
      <3> QED
        BY <2>2, <3>1, Monotonic
    <2>5. /\ c * (k * e) = (c * k) * e /\ c * (calls * m) = (c * calls) * m
          /\ (2 * e) * m = (2 * m) * e
      BY SMTT(30)
    <2>6. (c * k) * e <= (2 * m) * e
      <3>1. {(c * k) * e, (c * calls) * m, (2 * m) * e} \subseteq Nat
        BY <2>2
      <3> QED
        BY <2>3, <2>4, <2>5, <3>1
    <2> QED
      BY <2>1, <2>2, <2>6, Cancels
  <1> QED
    BY <1>1, <1>2

\* There are a least and a largest cost of a call.
LEMMA CostFacts ==
    /\ CMin \in Nat \ {0} /\ CMax \in Nat \ {0} /\ RES \in Nat \ {0} /\ CAP \in Nat \ {0}
    /\ \A c \in Costs : c \in Nat \ {0} /\ CMin <= c /\ c <= CMax
  <1>1. Costs \subseteq Nat \ {0} /\ \E c \in Costs : \A d \in Costs : d <= c
    BY TimeAssumption
  <1>2. \E c \in Costs : \A d \in Costs : c <= d
    <2>1. PICK c \in Costs : \A d \in Costs : <<d, c>> \notin OpToRel(<, Nat)
      BY <1>1, NatLessThanWellFounded, WFMin
    <2>2. \A d \in Costs : ~(d < c)
      BY <1>1, <2>1 DEF OpToRel
    <2> QED
      BY <1>1, <2>2
  <1>3. \E c \in Costs : \A d \in Costs : c >= d
    BY <1>1
  <1>4. CMin \in Costs /\ \A d \in Costs : CMin <= d
    BY <1>2 DEF CMin
  <1>5. CMax \in Costs /\ \A d \in Costs : CMax >= d
    BY <1>3 DEF CMax
  <1>6. RES \in Nat \ {0} /\ CAP \in Nat \ {0}
    BY TimeAssumption
  <1>7. \A c \in Costs : c \in Nat \ {0} /\ CMin <= c /\ c <= CMax
    BY <1>1, <1>4, <1>5
  <1> QED
    BY <1>1, <1>4, <1>5, <1>6, <1>7

\* The longest the measured loop may take, of calls of the cheapest kind.
Allowed == Larger(CMax, Larger(2 * min_sec, min_sec + 4 * RES))

\* A loop of the calibration is the first, or the one before it showed less than
\* a tenth of the time asked for; the loop that is measured is long enough.
Timed ==
    /\ pc = "calibrate" =>
         /\ iters >= 1
         /\ \/ iters = 1
            \/ t * 10 < min_sec /\ \E c \in Costs : c * iters <= 4 * (t + RES - 1)
    /\ pc = "measure" =>
         /\ t = 0 \/ t >= RES
         /\ t >= RES => min_sec * (t - (RES - 1)) <= CMax * ((iters + 1) * t)
         /\ t * 10 >= min_sec => CMin * iters <= Allowed

\* What the clock shows at the end of a loop, and what it took.
LEMMA LoopElapsed ==
    ASSUME MicroInv, InLoop, i = iters
    PROVE  /\ elapsed \in Nat /\ (elapsed = 0 \/ elapsed >= RES)
           /\ cost \in Costs /\ iters \in Nat /\ iters * cost \in Nat
           /\ elapsed <= iters * cost + RES - 1
           /\ iters * cost <= elapsed + RES - 1
  <1>1. cost \in Costs /\ iters \in Nat /\ phase \in 0..RES - 1
    BY DEF MicroInv, TypeOK, Rotation
  <1>2. cost \in Nat /\ RES \in Nat \ {0} /\ phase \in Nat /\ phase <= RES - 1
    BY <1>1, CostFacts
  <1>3. iters * cost \in Nat
    BY <1>1, <1>2
  <1> QED
    BY <1>1, <1>2, <1>3, ClockBounds DEF elapsed

\* The loop that Measure begins, scaled from calls that showed a tick at least, is
\* long enough, whether calls is what the calibration made or four times that.
LEMMA ScaledEnough ==
    ASSUME NEW calls \in Nat, NEW time \in Nat, min_sec \in Nat,
           time >= RES, time <= calls * CMax + RES - 1
    PROVE  min_sec * (time - (RES - 1)) <= CMax * ((scaled(calls, time) + 1) * time)
  <1> DEFINE m == min_sec
             q == (calls * m) \div time
             k == scaled(calls, time)
  <1>1. CMax \in Nat /\ RES \in Nat \ {0} /\ time \in Nat \ {0} /\ Larger(time, 1) = time
    BY CostFacts DEF Larger
  <1>2. calls * m \in Nat
    OBVIOUS
  <1> HIDE DEF m
  <1>3. q \in Nat /\ calls * m < q * time + time
    BY <1>1, <1>2, QuotientTight
  <1>4. k = Larger(calls, q)
    BY <1>1 DEF scaled, m
  <1> HIDE DEF q, k
  <1>5. k \in Nat /\ q <= k
    BY <1>3, <1>4, LargerNat
  <1>6. q * time <= k * time /\ q * time \in Nat /\ k * time \in Nat
    BY <1>1, <1>3, <1>5, Monotonic
  <1>7. (k + 1) * time = k * time + time
    BY <1>1, <1>5, SMTT(30)
  <1>8. calls * m <= (k + 1) * time
    BY <1>1, <1>2, <1>3, <1>6, <1>7
  <1>9. m * (time - (RES - 1)) <= CMax * ((k + 1) * time)
    BY <1>1, <1>5, <1>8, EnoughCalls DEF m
  <1> QED
    BY <1>9 DEF k, m

\* Nor is it too long, when the calibration ended because it showed a tenth of
\* the time asked for.
LEMMA ScaledNotTooMany ==
    ASSUME MicroInv, Timed, pc = "calibrate", i = iters, elapsed * 10 >= min_sec
    PROVE  CMin * scaled(iters, elapsed) <= Allowed
  <1> DEFINE m == min_sec
             e == elapsed
             T == Larger(e, 1)
             q == (iters * m) \div T
             k == scaled(iters, e)
  <1>1. m \in Nat
    BY TimeAssumption DEF MicroInv, OptsOK, min_sec
  <1>2. /\ e \in Nat /\ (e = 0 \/ e >= RES) /\ e * 10 >= m
        /\ cost \in Costs /\ iters \in Nat /\ iters * cost \in Nat
        /\ iters * cost <= e + RES - 1
    BY LoopElapsed DEF InLoop
  <1>3. /\ CMin \in Nat \ {0} /\ CMax \in Nat \ {0} /\ RES \in Nat \ {0}
        /\ cost \in Nat /\ CMin <= cost /\ CMin <= CMax
    BY <1>2, CostFacts
  <1>4. /\ Allowed \in Nat /\ CMax <= Allowed /\ 2 * m <= Allowed /\ m + 4 * RES <= Allowed
    BY <1>1, <1>3 DEF Allowed, Larger
  <1>5. T \in Nat \ {0}
    BY <1>2, LargerNat
  <1>6. iters * m \in Nat
    BY <1>1, <1>2
  <1>7. \/ iters = 1
        \/ t * 10 < m /\ \E c \in Costs : c * iters <= 4 * (t + RES - 1)
    BY DEF Timed
  <1>8. t \in Nat
    BY DEF MicroInv, TypeOK
  <1> HIDE DEF m, e, T
  <1>9. q \in Nat /\ q * T <= iters * m
    BY <1>5, <1>6, QuotientTight
  <1>10. k = Larger(iters, q)
    BY DEF scaled, T, m
  <1> HIDE DEF q, k
  <1>11. CMin * q <= 2 * m
    <2>1. CMin * iters <= cost * iters
      BY <1>2, <1>3, Monotonic
    <2>2. cost * iters = iters * cost /\ CMin * iters \in Nat
      BY <1>2, <1>3, SMTT(30)
    <2>3. CMin * iters <= e + RES - 1
      BY <1>2, <1>3, <2>1, <2>2
    <2>4. q * Larger(e, 1) <= iters * m
      BY <1>9 DEF T
    <2> QED
      BY <1>1, <1>2, <1>3, <1>9, <2>3, <2>4, NotTooMany
  <1>12. CMin * iters <= Allowed
    <2>1. CASE iters = 1
      BY <1>3, <1>4, <2>1
    <2>2. CASE t * 10 < m /\ \E c \in Costs : c * iters <= 4 * (t + RES - 1)
      <3>1. PICK c \in Costs : c * iters <= 4 * (t + RES - 1)
        BY <2>2
      <3>2. c \in Nat /\ CMin <= c
        BY CostFacts
      <3>3. CMin * iters <= c * iters /\ CMin * iters \in Nat /\ c * iters \in Nat
        BY <1>2, <1>3, <3>2, Monotonic
      <3> QED
        BY <1>1, <1>3, <1>4, <1>8, <2>2, <3>1, <3>3
    <2> QED
      BY <1>7, <2>1, <2>2
  <1>13. k = iters \/ k = q
    BY <1>2, <1>9, <1>10, LargerNat
  <1>14. CMin * q \in Nat
    BY <1>3, <1>9
  <1>15. CMin * k <= Allowed
    BY <1>1, <1>4, <1>11, <1>12, <1>13, <1>14
  <1> QED
    BY <1>15 DEF k, e

\* Every step keeps Timed.
LEMMA TimedStep == MicroInv /\ Timed /\ [Next]_vars => Timed'
  <1> SUFFICES ASSUME MicroInv, Timed, [Next]_vars PROVE Timed'
    OBVIOUS
  <1>1. min_sec \in Nat /\ min_sec' = min_sec /\ Allowed' = Allowed
    <2>1. opts' = opts
      BY DEF Next, vars, Allocate, NextHash, SkipSize, Calibrate, Call, SizeUp,
             Measure, Report, Finish
    <2> QED
      BY <2>1, TimeAssumption DEF MicroInv, OptsOK, min_sec, Allowed
  <1>2. CASE Calibrate
    BY <1>2 DEF Calibrate, BeginLoop, Timed
  <1>3. CASE SizeUp
    <2>1. /\ elapsed \in Nat /\ cost \in Costs /\ iters \in Nat /\ iters * cost \in Nat
          /\ iters * cost <= elapsed + RES - 1
      BY <1>3, LoopElapsed DEF SizeUp, InLoop
    <2>2. t' = elapsed /\ iters' = iters * 4 /\ elapsed * 10 < min_sec /\ pc' = pc
          /\ pc = "calibrate"
      BY <1>3 DEF SizeUp, BeginLoop, more
    <2>3. iters >= 1
      BY <2>2 DEF Timed
    <2>4. cost \in Nat /\ RES \in Nat \ {0}
      BY <2>1, CostFacts
    <2>5. cost * (iters * 4) = 4 * (iters * cost)
      BY <2>1, <2>4, SMTT(30)
    <2>6. cost * iters' <= 4 * (t' + RES - 1)
      BY <2>1, <2>2, <2>4, <2>5
    <2> QED
      BY <1>1, <2>1, <2>2, <2>3, <2>6 DEF Timed
  <1>4. CASE Measure
    <2>1. /\ elapsed \in Nat /\ cost \in Costs /\ iters \in Nat /\ iters * cost \in Nat
          /\ elapsed <= iters * cost + RES - 1
      BY <1>4, LoopElapsed DEF Measure, InLoop
    <2>2. iters \in Nat \ {0} /\ iters * 4 \in Nat \ {0}
      BY <1>4, <2>1 DEF Measure, Timed
    <2>3. elapsed = 0 \/ elapsed >= RES
      BY <1>4, LoopElapsed DEF Measure, InLoop
    <2>4. /\ elapsed <= iters * CMax + RES - 1
          /\ elapsed <= (iters * 4) * CMax + RES - 1
      <3>1. /\ cost \in Nat /\ CMax \in Nat /\ RES \in Nat \ {0} /\ cost <= CMax
        BY <2>1, CostFacts
      <3>2. iters * cost <= iters * CMax /\ iters * CMax \in Nat
        BY <2>1, <3>1, Monotonic
      <3>3. (iters * 4) * CMax = 4 * (iters * CMax)
        BY <2>1, <3>1, SMTT(30)
      <3> QED
        BY <2>1, <3>1, <3>2, <3>3
    <2>5. ASSUME NEW calls \in {iters, iters * 4}, elapsed >= RES
          PROVE  min_sec * (elapsed - (RES - 1)) <= CMax * ((scaled(calls, elapsed) + 1) * elapsed)
      <3>1. calls \in Nat /\ elapsed <= calls * CMax + RES - 1
        BY <2>1, <2>2, <2>4
      <3> QED
        BY <1>1, <2>1, <2>5, <3>1, ScaledEnough
    <2>6. t' = elapsed /\ pc' = "measure"
      BY <1>4 DEF Measure
    <2>7. CASE elapsed * 10 >= min_sec /\ BeginLoop(scaled(iters, elapsed))
      <3>1. iters' = scaled(iters, elapsed)
        BY <2>7 DEF BeginLoop
      <3>2. CMin * scaled(iters, elapsed) <= Allowed
        BY <1>4, <2>7, ScaledNotTooMany DEF Measure
      <3> QED
        BY <1>1, <2>3, <2>5, <2>6, <3>1, <3>2 DEF Timed
    <2>8. CASE elapsed * 10 < min_sec /\ BeginLoop(scaled(iters * 4, elapsed))
      <3>1. iters' = scaled(iters * 4, elapsed)
        BY <2>8 DEF BeginLoop
      <3>2. ~(t' * 10 >= min_sec)
        BY <1>1, <2>1, <2>6, <2>8
      <3> QED
        BY <1>1, <2>3, <2>5, <2>6, <3>1, <3>2 DEF Timed
    <2> QED
      BY <1>4, <2>7, <2>8 DEF Measure
  <1>5. CASE Call
    BY <1>1, <1>5 DEF Call, Timed
  <1>6. CASE UNCHANGED vars
    BY <1>1, <1>6 DEF vars, loopVars, Timed
  <1>7. CASE Allocate \/ NextHash \/ SkipSize \/ Report \/ Finish
    BY <1>7 DEF Allocate, NextHash, SkipSize, Report, Finish, Timed
  <1> QED
    BY <1>2, <1>3, <1>4, <1>5, <1>6, <1>7 DEF Next

\* However coarse the clock and however unlike the two loops, the measured loop
\* falls short of the time asked for by no more than the spread of the costs, one
\* call, and the share that the clock's error may have in what the calibration
\* showed; unless that gave up, it is not much longer either.
THEOREM LoopsTakeTheirTime == Spec => []TakesItsTime
  <1>1. Init => Timed
    BY DEF Init, Timed
  <1>2. ASSUME MicroInv, Timed, pc = "measure", i = iters
        PROVE  /\ CMax * t * (i + 1) * cost >= CMin * min_sec * (t - (RES - 1))
               /\ t * 10 >= min_sec => CMin * i * cost <= CMax * Allowed
    <2>1. /\ cost \in Costs /\ iters \in Nat /\ min_sec \in Nat /\ t \in Nat
          /\ t = 0 \/ t >= RES
          /\ t >= RES => min_sec * (t - (RES - 1)) <= CMax * ((iters + 1) * t)
          /\ t * 10 >= min_sec => CMin * iters <= Allowed
      BY <1>2, TimeAssumption DEF MicroInv, TypeOK, InLoop, Timed, OptsOK, min_sec
    <2>2. /\ cost \in Nat /\ CMin \in Nat /\ CMax \in Nat \ {0} /\ RES \in Nat \ {0}
          /\ CMin <= cost /\ cost <= CMax
      BY <2>1, CostFacts
    <2>3. Allowed \in Nat
      BY <2>1, <2>2 DEF Allowed, Larger
    <2> HIDE DEF Allowed
    <2>4. CMax * t * (iters + 1) * cost >= CMin * min_sec * (t - (RES - 1))
      <3>1. CASE t = 0
        <4>1. CMin * min_sec \in Nat /\ RES - 1 \in Nat
          BY <2>1, <2>2
        <4>2. (CMin * min_sec) * (RES - 1) \in Nat
          BY <4>1
        <4>3. CMin * min_sec * (t - (RES - 1)) = 0 - (CMin * min_sec) * (RES - 1)
          BY <2>1, <2>2, <3>1, <4>1, SMTT(30)
        <4>4. CMax * t * (iters + 1) * cost = 0
          BY <2>1, <2>2, <3>1, SMTT(30)
        <4> QED
          BY <4>2, <4>3, <4>4
      <3>2. CASE t >= RES
        <4> DEFINE d == t - (RES - 1)
                   X == (iters + 1) * t
        <4>1. d \in Nat /\ X \in Nat /\ min_sec * d <= CMax * X
          BY <2>1, <2>2, <3>2
        <4> HIDE DEF d, X
        <4>2. min_sec * d \in Nat /\ CMax * X \in Nat
          BY <2>1, <2>2, <4>1
        <4>3. CMin * (min_sec * d) <= CMin * (CMax * X)
          BY <2>2, <4>1, <4>2, Monotonic
        <4>4. CMin * (CMax * X) <= cost * (CMax * X)
          BY <2>2, <4>2, Monotonic
        <4>5. CMin * (min_sec * d) <= cost * (CMax * X)
          <5>1. /\ CMin * (min_sec * d) \in Nat /\ CMin * (CMax * X) \in Nat
                /\ cost * (CMax * X) \in Nat
            BY <2>2, <4>2
          <5> QED
            BY <4>3, <4>4, <5>1
        <4>6. CMin * (min_sec * d) = CMin * min_sec * d
          BY <2>1, <2>2, <4>1, SMTT(30)
        <4>7. cost * (CMax * X) = CMax * t * (iters + 1) * cost
          <5>1. CMax * X = CMax * t * (iters + 1)
            BY <2>1, <2>2, SMTT(30) DEF X
          <5>2. cost * (CMax * X) = (CMax * X) * cost
            BY <2>2, <4>2, SMTT(30)
          <5> QED
            BY <5>1, <5>2
        <4>8. CMin * min_sec * d <= CMax * t * (iters + 1) * cost
          BY <4>5, <4>6, <4>7
        <4>9. CMin * min_sec * d \in Int /\ CMax * t * (iters + 1) * cost \in Int
          BY <2>1, <2>2, <4>1, SMTT(30)
        <4> QED
          BY <4>8, <4>9 DEF d
      <3> QED
        BY <2>1, <3>1, <3>2
    <2>5. ASSUME t * 10 >= min_sec PROVE CMin * iters * cost <= CMax * Allowed
      <3>1. CMin * iters <= Allowed /\ CMin * iters \in Nat
        BY <2>1, <2>2, <2>5
      <3>2. (CMin * iters) * cost <= Allowed * cost
        BY <2>2, <2>3, <3>1, Monotonic
      <3>3. Allowed * cost <= Allowed * CMax
        BY <2>2, <2>3, Monotonic
      <3>4. Allowed * CMax = CMax * Allowed
        BY <2>2, <2>3, SMTT(30)
      <3>5. (CMin * iters) * cost \in Nat /\ Allowed * cost \in Nat /\ Allowed * CMax \in Nat
        BY <2>2, <2>3, <3>1
      <3> QED
        BY <3>2, <3>3, <3>4, <3>5
    <2> QED
      BY <1>2, <2>4, <2>5
  <1>3. MicroInv /\ Timed => TakesItsTime
    BY <1>2 DEF TakesItsTime, Allowed
  <1> QED
    BY <1>1, <1>3, TimedStep, MicroCorrect, PTL DEF Spec
=============================================================================
