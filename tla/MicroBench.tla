----------------------------- MODULE MicroBench -----------------------------
(***************************************************************************)
(* bench/micro.c: for every selected hash and size, run_micro sizes a loop *)
(* of calls up until it takes a tenth of the time asked for, scales it to  *)
(* that time, and runs it for real, on one buffer (bench_one_size) or      *)
(* around the regions of a pool (bench_one_size_cold).                     *)
(*                                                                         *)
(* Time is in nanoseconds, of which the clock shows multiples of RES.  A   *)
(* call takes a time within Costs, and not the same in every loop: nothing *)
(* pins the thread or its frequency.                                       *)
(***************************************************************************)
EXTENDS Integers, Sequences, FiniteSets

CONSTANTS
    Hashes,       \* the names in g_hashes, in order
    kSizes,       \* the sizes, in increasing order
    Only, OnlySize, Cold, MinSec,
                  \* the values of --hash, --size, --cold (a pool size) and
                  \* --seconds; NULL, 0 and 0 when not given
    Costs,        \* the times a call may take
    RES,          \* the resolution of CLOCK_MONOTONIC
    CAP,          \* 2^40, where the calibration gives up
    NULL

ASSUME SizesAssumption ==
    /\ Hashes \in Seq(STRING)
    /\ kSizes \in Seq(Nat \ {0}) /\ Len(kSizes) > 0
    /\ \A k, l \in DOMAIN kSizes : k < l => kSizes[k] < kSizes[l]
ASSUME TimeAssumption ==
    /\ MinSec \subseteq Nat /\ Cold \subseteq Nat /\ OnlySize \subseteq Nat
    /\ Costs \subseteq Nat \ {0} /\ \E c \in Costs : \A d \in Costs : d <= c
    /\ RES \in Nat \ {0} /\ CAP \in Nat \ {0}

VARIABLES
    opts,              \* the options, fixed at the start
    pc,                \* "options", "next", "calibrate", "measure", "done" or "failed"
    alloc_size, filled,   \* the size of the buffer and how much of it is set
    hi, si,            \* the hash and the size the two loops have reached
    iters,             \* the calls the loop of calls is to make
    i,                 \* the calls it has made
    bi,                \* the region the next call is for
    visits,            \* history: how often it was given each region
    cost, phase,       \* what a call takes in this loop, and how long before
                       \* its start the clock last ticked
    t                  \* the calibration's last measurement

loopVars == <<iters, i, bi, visits, cost, phase>>
vars == <<opts, pc, alloc_size, filled, hi, si, loopVars, t>>

Larger(m, n) == IF m > n THEN m ELSE n

max_size == kSizes[Len(kSizes)]
n == kSizes[si]
min_sec == opts.min_sec

Init ==
    /\ opts \in [only : Only, only_size : OnlySize, cold : Cold, min_sec : MinSec]
    /\ pc = "options" /\ alloc_size = 0 /\ filled = 0
    /\ hi = 1 /\ si = 1
    /\ iters = 0 /\ i = 0 /\ bi = 0 /\ visits = << >> /\ cost = 0 /\ phase = 0
    /\ t = 0
-----------------------------------------------------------------------------
\* As fill_random, of what the largest input needs.
fill_input(size) == max_size

\* How many bytes are set.
fill_random(size) == size

\* Without memory the bench gives up.
Allocate ==
    /\ pc = "options"
    /\ \/ /\ alloc_size' = Larger(opts.cold, max_size)
          /\ filled' = fill_random(alloc_size')
          /\ pc' = "next"
       \/ pc' = "failed" /\ UNCHANGED <<alloc_size, filled>>
    /\ UNCHANGED <<opts, hi, si, loopVars, t>>

\* How many regions the calls go round: one when the buffer is hot.
n_buffers == IF opts.cold > 0 THEN Larger(alloc_size \div n, 1) ELSE 1

\* A loop of so many calls begins at the first region.
BeginLoop(calls) ==
    /\ iters' = calls /\ i' = 0 /\ bi' = 0
    /\ visits' = [r \in 0..n_buffers - 1 |-> 0]
    /\ cost' \in Costs /\ phase' \in 0..RES - 1

\* The next hash or size, or one that was not asked for.
NextHash ==
    /\ pc = "next" /\ hi <= Len(Hashes)
    /\ si > Len(kSizes) \/ opts.only \notin {NULL, Hashes[hi]}
    /\ hi' = hi + 1 /\ si' = 1
    /\ UNCHANGED <<opts, pc, alloc_size, filled, loopVars, t>>

Asked ==
    /\ hi <= Len(Hashes) /\ si <= Len(kSizes)
    /\ opts.only \in {NULL, Hashes[hi]}

SkipSize ==
    /\ pc = "next" /\ Asked /\ opts.only_size \notin {0, n}
    /\ si' = si + 1
    /\ UNCHANGED <<opts, pc, alloc_size, filled, hi, loopVars, t>>

Calibrate ==
    /\ pc = "next" /\ Asked /\ opts.only_size \in {0, n}
    /\ pc' = "calibrate" /\ BeginLoop(1)
    /\ UNCHANGED <<opts, alloc_size, filled, hi, si, t>>

\* As turn, a region late, and without turning at all.
turn_late(b) == IF b + 1 > n_buffers THEN 0 ELSE b + 1
stay(b) == b

\* The region after b.
turn(b) == IF b + 1 >= n_buffers THEN 0 ELSE b + 1

\* One call of one_shot.
Call ==
    /\ pc \in {"calibrate", "measure"} /\ i < iters
    /\ i' = i + 1 /\ bi' = turn(bi)
    /\ visits' = [visits EXCEPT ![bi] = @ + 1]
    /\ UNCHANGED <<opts, pc, alloc_size, filled, hi, si, iters, cost, phase, t>>

\* What the clock makes of the time the calls have taken.
elapsed == RES * ((phase + i * cost) \div RES)

\* As more, going on with the loop it has.
no_more(calls) == calls
more(calls) == calls * 4

\* The loop was too short; its successor is longer.
SizeUp ==
    /\ pc = "calibrate" /\ i = iters
    /\ elapsed * 10 < min_sec /\ iters * 4 <= CAP
    /\ t' = elapsed /\ BeginLoop(more(iters))
    /\ UNCHANGED <<opts, pc, alloc_size, filled, hi, si>>

\* As scaled, from one call instead of the loop that was measured.
scaled_once(calls, time) == Larger(calls, min_sec \div Larger(time, 1))

\* calls took time: how many will take min_sec.
scaled(calls, time) == Larger(calls, (calls * min_sec) \div Larger(time, 1))

\* The loop took long enough, or the next would have too many calls, with which
\* the time of a quarter of them is then compared.
Measure ==
    /\ pc = "calibrate" /\ i = iters
    /\ \/ elapsed * 10 >= min_sec /\ BeginLoop(scaled(iters, elapsed))
       \/ /\ elapsed * 10 < min_sec /\ iters * 4 > CAP
          /\ BeginLoop(scaled(iters * 4, elapsed))
    /\ t' = elapsed /\ pc' = "measure"
    /\ UNCHANGED <<opts, alloc_size, filled, hi, si>>

\* The cell's line of the table.
Report ==
    /\ pc = "measure" /\ i = iters
    /\ pc' = "next" /\ si' = si + 1
    /\ UNCHANGED <<opts, alloc_size, filled, hi, loopVars, t>>

Finish ==
    /\ pc = "next" /\ hi > Len(Hashes)
    /\ pc' = "done"
    /\ UNCHANGED <<opts, alloc_size, filled, hi, si, loopVars, t>>

Next ==
    \/ Allocate \/ NextHash \/ SkipSize \/ Calibrate \/ Call
    \/ SizeUp \/ Measure \/ Report \/ Finish

\* The process keeps running.
Spec == Init /\ [][Next]_vars /\ WF_vars(Next)
-----------------------------------------------------------------------------
(* Correctness *)

InLoop == pc \in {"calibrate", "measure"}

TypeOK ==
    /\ pc \in {"options", "next", "calibrate", "measure", "done", "failed"}
    /\ filled <= alloc_size
    /\ hi \in 1..Len(Hashes) + 1 /\ si \in 1..Len(kSizes) + 1
    /\ {iters, i, t} \subseteq Nat /\ i <= iters
    /\ InLoop => bi \in DOMAIN visits /\ cost \in Costs

\* Every call reads inside the buffer, and only what fill_random has set,
\* whatever pool was asked for.
RegionsInPool == InLoop /\ i < iters => (bi + 1) * n <= filled

\* The calls go round the whole pool before they come back to a region: none is
\* given an input that fewer than the other regions' calls may have pushed out
\* of the cache.
GoesRound ==
    InLoop => \A r, s \in DOMAIN visits : visits[r] <= visits[s] + 1

CMin == CHOOSE c \in Costs : \A d \in Costs : c <= d
CMax == CHOOSE c \in Costs : \A d \in Costs : c >= d

\* The measured loop falls short of the time asked for by three errors at most:
\* the calls it makes may be cheaper than those of the calibration, it is a call
\* short of a whole number of them, and the time t that the calibration showed may
\* be RES - 1 too much, which weighs in as its share of t (all of it, and the bound
\* says nothing, when t = 0).  Unless the calibration gave up, it is too long by the
\* costs of the calls and a clock that showed too little: not longer than twice the
\* time asked for, or four ticks more than it, or a single call.
TakesItsTime ==
    pc = "measure" /\ i = iters =>
        /\ CMax * t * (i + 1) * cost >= CMin * min_sec * (t - (RES - 1))
        /\ t * 10 >= min_sec =>
             CMin * i * cost <= CMax * Larger(CMax, Larger(2 * min_sec, min_sec + 4 * RES))

\* The calibration of every cell comes to an end, and with it the bench.
Ends == <>(pc \in {"done", "failed"})
-----------------------------------------------------------------------------
(* A claim of a comment that the code does not keep *)

\* bench/micro.c:4-5: "hashed in a tight loop until at least `min_seconds` of
\* wall time elapses".
AtLeastMinSeconds == pc = "measure" /\ i = iters => i * cost >= min_sec
=============================================================================
