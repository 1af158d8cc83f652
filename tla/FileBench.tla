----------------------------- MODULE FileBench -----------------------------
(***************************************************************************)
(* bench/file.c: run_file selects the hashes, walks the tree (FileWalk)    *)
(* and spawns the workers, each of which claims paths through the atomic   *)
(* counter, feeds each file it can open to every selected hash, a chunk at *)
(* a time, and XORs the digests into accumulators of its own, one for each *)
(* hash, until run_file has joined all of them and adds them up.           *)
(*                                                                         *)
(* The loops of a worker over the hashes touch nothing another thread      *)
(* sees, so that each is one step.  XOR is symmetric difference of sets of *)
(* digests, so that two files with the same bytes cancel as they do in the *)
(* program.                                                                *)
(***************************************************************************)
EXTENDS Registry, FiniteSets, Functions, TLC

CONSTANTS
    Root, Kind, Entries, Target, ROOT_LEN, PATH_MAX, FIRST_CAP, MaxOpen,
                   \* the tree: see FileWalk
    Content,       \* what each regular file holds
    Only,          \* the values of --hash, NULL when it is not given
    Threads,       \* the value of --threads
    CHUNK,         \* READ_CHUNK
    NULL, NoReport

ASSUME ThreadsAssumption == Threads \in Nat \ {0}
ASSUME ChunkAssumption == CHUNK \in Nat \ {0}

Byte == UNION {Range(Content[f]) : f \in DOMAIN Content}

ASSUME ContentAssumption == Content \in [{n \in DOMAIN Kind : Kind[n] = "reg"} -> Seq(Byte)]

\* Neither stands for something the bench works with.
ASSUME MarkAssumption ==
    /\ NULL \notin Seq(Byte)
    /\ Junk \notin [maker : Vtables, spent : BOOLEAN,
                    lanes : Seq(Byte), buf : Seq(Byte), total_bytes : Nat]
    /\ Junk \notin [maker : Vtables, spent : BOOLEAN, msg : Seq(Byte)]

Workers == 1..Threads

VARIABLES
    only,          \* --hash, fixed at the start
    main,          \* run_file: "options", "walk", "spawn", "join", "sum",
                   \* "report", "reported"; "failed" or "crashed"
    walk, dirs, items, cap, failed,       \* see FileWalk; items is job.paths
    turn,          \* the worker its current loop has reached
    agg,           \* agg_fp, total_bytes and total_files
    report,        \* what is printed
    next,          \* job.next, the index of the next path to claim
    files_done,    \* job.files_done
    pc,            \* pc[w]: where worker w is
    idx,           \* idx[w]: the path it has claimed
    pos,           \* pos[w]: fbytes, the bytes of it read so far
    hstate,        \* hstate[w]: its hash contexts, NULL if memory ran out
    fingerprint, bytes_hashed, files_hashed,   \* the counters of worker_t
    outcome        \* history: of each path dealt with, the bytes its digests
                   \* are of, NULL if it could not be opened

walkVars == <<walk, dirs, items, cap, failed>>
mainVars == <<only, main, walkVars, turn, agg, report>>
counters == <<fingerprint, bytes_hashed, files_hashed>>
workerVars == <<next, files_done, pc, idx, pos, hstate, counters, outcome>>
vars == <<mainVars, workerVars>>

Walk == INSTANCE FileWalk

ASSUME WalkAssumption == Walk!TreeAssumption /\ Walk!SizesAssumption

\* The active list: the registered hashes, or the one that was asked for.
Active == {i \in DOMAIN g_hashes : only = NULL \/ g_hashes[i].name = only}

\* As Xor, with |= and with = for ^=.
Or(x, y) == x \cup y
Overwrite(x, y) == y

\* The loops that XOR digest bytes into an accumulator.
Xor(x, y) == (x \ y) \cup (y \ x)

Goto(w, l) == pc' = [pc EXCEPT ![w] = l]

\* Worker w is done with the path it has claimed.
Settle(w, m) == outcome' = [i \in DOMAIN outcome \cup {idx[w]} |->
                              IF i = idx[w] THEN m ELSE outcome[i]]

Init ==
    /\ only \in Only
    /\ main = "options" /\ Walk!Init
    /\ turn = 1
    /\ agg = [fingerprint |-> [i \in Active |-> {}], files |-> 0, bytes |-> 0]
    /\ report = NoReport
    /\ next = 0 /\ files_done = 0
    /\ pc = [w \in Workers |-> "unborn"]
    /\ idx = [w \in Workers |-> 0]
    /\ pos = [w \in Workers |-> 0]
    /\ hstate = [w \in Workers |-> NULL]
    /\ fingerprint = [w \in Workers |-> [i \in Active |-> {}]]
    /\ bytes_hashed = [w \in Workers |-> 0]
    /\ files_hashed = [w \in Workers |-> 0]
    /\ outcome = << >>
-----------------------------------------------------------------------------
(* worker_main *)

\* A context of each hash; NULL when one of the allocations failed, which is
\* found out when that context is used.
Contexts == {[i \in Active |-> new_state(g_hashes[i].new_state)], NULL}

\* The path worker w has claimed.
Path(w) == items[idx[w] + 1]

\* As Setup, trying again until there is a buffer.
SetupRetries(w) ==
    /\ pc[w] = "born"
    /\ \E c \in Contexts : hstate' = [hstate EXCEPT ![w] = c]
    /\ Goto(w, "claim") \/ Goto(w, "born")
    /\ UNCHANGED <<mainVars, next, files_done, idx, pos, counters, outcome>>

\* The contexts and the read buffer; without a buffer the worker gives up.
Setup(w) ==
    /\ pc[w] = "born"
    /\ \E c \in Contexts : hstate' = [hstate EXCEPT ![w] = c]
    /\ Goto(w, "claim") \/ Goto(w, "done")
    /\ UNCHANGED <<mainVars, next, files_done, idx, pos, counters, outcome>>

\* As Claim, from the wrong counter.
ClaimByFilesDone(w) ==
    /\ pc[w] = "claim"
    /\ idx' = [idx EXCEPT ![w] = files_done]
    /\ next' = next + 1
    /\ Goto(w, IF files_done >= Len(items) THEN "done" ELSE "open")
    /\ UNCHANGED <<mainVars, files_done, pos, hstate, counters, outcome>>

\* atomic_fetch_add on job.next.
Claim(w) ==
    /\ pc[w] = "claim"
    /\ idx' = [idx EXCEPT ![w] = next]
    /\ next' = next + 1
    /\ Goto(w, IF next >= Len(items) THEN "done" ELSE "open")
    /\ UNCHANGED <<mainVars, files_done, pos, hstate, counters, outcome>>

OpenFails(w) ==
    /\ pc[w] = "open"
    /\ Settle(w, NULL)
    /\ Goto(w, "claim")
    /\ UNCHANGED <<mainVars, next, files_done, idx, pos, hstate, counters>>

\* As Open, reusing the contexts of the previous file.
OpenReusing(w) ==
    /\ pc[w] = "open" /\ Path(w) # NULL
    /\ pos' = [pos EXCEPT ![w] = 0]
    /\ Goto(w, "read")
    /\ UNCHANGED <<mainVars, next, files_done, idx, hstate, counters, outcome>>

\* fopen succeeds, and the contexts of the previous file are freed and replaced.
Open(w) ==
    /\ pc[w] = "open" /\ Path(w) # NULL
    /\ \E c \in Contexts : hstate' = [hstate EXCEPT ![w] = c]
    /\ pos' = [pos EXCEPT ![w] = 0]
    /\ Goto(w, "read")
    /\ UNCHANGED <<mainVars, next, files_done, idx, counters, outcome>>

\* What is used unchecked is not there, and the process ends.
Crash ==
    /\ main' = "crashed"
    /\ UNCHANGED <<only, walkVars, turn, agg, report, workerVars>>

UseNoContext(w) == pc[w] = "read" /\ hstate[w] = NULL /\ Crash

\* fread returns a full chunk, less at the end of the file or on an error, and
\* every hash is fed the bytes.
ReadChunk(w) ==
    /\ pc[w] = "read" /\ hstate[w] # NULL
    /\ \E got \in 1..CHUNK :
        /\ pos[w] + got <= Len(Content[Path(w)])
        /\ LET bytes == SubSeq(Content[Path(w)], pos[w] + 1, pos[w] + got)
           IN hstate' = [hstate EXCEPT ![w] =
                [i \in Active |-> update(g_hashes[i].update, @[i], bytes)]]
        /\ pos' = [pos EXCEPT ![w] = @ + got]
    /\ UNCHANGED <<mainVars, next, files_done, pc, idx, counters, outcome>>

\* fread returns 0, at the end of the file or on an error, which the loop does
\* not tell apart; the digests of what was read go into the accumulators.
TakeDigests(w) ==
    /\ pc[w] = "read" /\ hstate[w] # NULL
    /\ hstate' = [hstate EXCEPT ![w] = [i \in Active |-> Spent(@[i])]]
    /\ fingerprint' = [fingerprint EXCEPT ![w] = [i \in Active |->
           Xor(@[i], {Digested(g_hashes[i], hstate[w][i])})]]
    /\ bytes_hashed' = [bytes_hashed EXCEPT ![w] = @ + pos[w]]
    /\ files_hashed' = [files_hashed EXCEPT ![w] = @ + 1]
    /\ Settle(w, SubSeq(Content[Path(w)], 1, pos[w]))
    /\ Goto(w, "count")
    /\ UNCHANGED <<mainVars, next, files_done, idx, pos>>

\* atomic_fetch_add on job.files_done.
Count(w) ==
    /\ pc[w] = "count"
    /\ files_done' = files_done + 1
    /\ Goto(w, "claim")
    /\ UNCHANGED <<mainVars, next, idx, pos, hstate, counters, outcome>>

\* The contexts are freed and the thread ends.
Exit(w) ==
    /\ pc[w] = "done"
    /\ hstate' = [hstate EXCEPT ![w] = NULL]
    /\ Goto(w, "exited")
    /\ UNCHANGED <<mainVars, next, files_done, idx, pos, counters, outcome>>
-----------------------------------------------------------------------------
(* run_file *)

Select ==
    /\ main = "options"
    /\ main' = IF Active = {} THEN "failed" ELSE "walk"
    /\ UNCHANGED <<only, walkVars, turn, agg, report, workerVars>>

TakeWalk ==
    /\ main = "walk" /\ Walk!Next
    /\ UNCHANGED <<only, main, turn, agg, report, workerVars>>

\* No root, no paths, or no memory for the workers.
EndWalk ==
    /\ main = "walk"
    /\ \/ walk = "failed" /\ main' = "failed"
       \/ walk = "crashed" /\ main' = "crashed"
       \/ walk = "done" /\ items = << >> /\ main' = "failed"
       \/ walk = "done" /\ items # << >> /\ main' \in {"spawn", "crashed"}
    /\ UNCHANGED <<only, walkVars, turn, agg, report, workerVars>>

\* As Advance, one worker too many.
AdvancePastEnd(l) ==
    IF turn <= Threads
    THEN turn' = turn + 1 /\ UNCHANGED main
    ELSE turn' = 1 /\ main' = l

\* The loop over the workers moves on, or, after the last one, ends.
Advance(l) ==
    IF turn < Threads
    THEN turn' = turn + 1 /\ UNCHANGED main
    ELSE turn' = 1 /\ main' = l

\* pthread_create, whose result is not looked at.
Spawn ==
    /\ main = "spawn"
    /\ Goto(turn, "born") \/ UNCHANGED pc
    /\ Advance("join")
    /\ UNCHANGED <<only, walkVars, agg, report, next, files_done, idx, pos,
                   hstate, counters, outcome>>

\* As Join, without waiting.
JoinAtOnce ==
    /\ main = "join"
    /\ Advance("sum")
    /\ UNCHANGED <<only, walkVars, agg, report, workerVars>>

Join ==
    /\ main = "join" /\ pc[turn] = "exited"
    /\ Advance("sum")
    /\ UNCHANGED <<only, walkVars, agg, report, workerVars>>

\* What pthread_create leaves as the handle of a thread it has failed to create
\* is undefined: the 0 of calloc, through which the join ends the process; that
\* of a thread given up, for which it does not wait; or that of a thread created
\* later in the same memory, which is Join again as soon as that one has exited.
JoinNoThread ==
    /\ main = "join" /\ pc[turn] = "unborn"
    /\ \/ Crash
       \/ Advance("sum") /\ UNCHANGED <<only, walkVars, agg, report, workerVars>>

\* The thread has been joined before, by the handle of one not created.
JoinTwice ==
    /\ main = "join" /\ pc[turn] = "exited"
    /\ \E w \in 1..turn - 1 : pc[w] = "unborn"
    /\ Crash

Aggregate ==
    /\ main = "sum"
    /\ agg' = [fingerprint |-> [i \in Active |->
                                  Xor(agg.fingerprint[i], fingerprint[turn][i])],
               files |-> agg.files + files_hashed[turn],
               bytes |-> agg.bytes + bytes_hashed[turn]]
    /\ Advance("report")
    /\ UNCHANGED <<only, walkVars, report, workerVars>>

Report ==
    /\ main = "report"
    /\ main' = "reported"
    /\ report' = agg
    /\ UNCHANGED <<only, walkVars, turn, agg, workerVars>>
-----------------------------------------------------------------------------
Worker(w) ==
    /\ main # "crashed"
    /\ \/ Setup(w) \/ Claim(w) \/ Open(w) \/ OpenFails(w) \/ UseNoContext(w)
       \/ ReadChunk(w) \/ TakeDigests(w) \/ Count(w) \/ Exit(w)

Main ==
    \/ Select \/ TakeWalk \/ EndWalk
    \/ Spawn \/ Join \/ JoinNoThread \/ JoinTwice \/ Aggregate \/ Report

Next == Main \/ \E w \in Workers : Worker(w)

\* The operating system keeps running every thread that can take a step.
Spec == Init /\ [][Next]_vars /\ WF_vars(Main) /\ \A w \in Workers : WF_vars(Worker(w))
-----------------------------------------------------------------------------
(* Correctness *)

Prefixes(s) == {SubSeq(s, 1, n) : n \in 0..Len(s)}

Messages == UNION {Prefixes(Content[f]) : f \in DOMAIN Content}

\* The digest of message m under hash i, whoever computes it.
DigestOf(i, m) == one_shot(g_hashes[i].one_shot, m)

TypeOK ==
    /\ only \in Only
    /\ main \in {"options", "walk", "spawn", "join", "sum", "report",
                 "reported", "failed", "crashed"}
    /\ Walk!TypeOK
    /\ turn \in Workers
    /\ report \in {agg, NoReport}
    /\ next \in 0..Len(items) + Threads
    /\ pc \in [Workers -> {"unborn", "born", "claim", "open", "read", "count",
                           "done", "exited"}]
    /\ idx \in [Workers -> 0..Len(items) + Threads]
    /\ \A w \in Workers : hstate[w] = NULL \/ DOMAIN hstate[w] = Active
    /\ \A w \in Workers : \A i \in Active :
         fingerprint[w][i] \subseteq {DigestOf(i, m) : m \in Messages}
    /\ {agg.files, agg.bytes, files_done} \subseteq Nat
    /\ \A w \in Workers : {pos[w], bytes_hashed[w], files_hashed[w]} \subseteq Nat
    /\ outcome \in [DOMAIN outcome -> Messages \cup {NULL}]

InProgress(w) == pc[w] \in {"open", "read"}

Hashed == {i \in DOMAIN outcome : outcome[i] # NULL}

\* Each path is claimed by one worker and dealt with once: the claimed paths
\* are those being worked on and those done with, with no overlap.
ClaimedOnce ==
    /\ \A w, u \in Workers :
        InProgress(w) /\ InProgress(u) /\ idx[w] = idx[u] => w = u
    /\ \A w \in Workers : InProgress(w) => idx[w] \notin DOMAIN outcome
    /\ {i \in 0..Len(items) - 1 : i < next} =
           {idx[w] : w \in {u \in Workers : InProgress(u)}} \cup DOMAIN outcome

\* Whatever a worker did before, each of its contexts would now yield the
\* digest its hash has, in one shot, of exactly what was read of this file:
\* nothing of the file before, nothing of another plugin's, no chunk lost; and
\* it will be freed by the plugin that made it.
FreshPerFile ==
    \A w \in Workers : pc[w] = "read" /\ hstate[w] # NULL =>
        \A i \in Active :
            /\ Digested(g_hashes[i], hstate[w][i]) =
                 DigestOf(i, SubSeq(Content[Path(w)], 1, pos[w]))
            /\ hstate[w][i].maker = g_hashes[i].free_state

\* The XOR of the sets F[x] of digests, x in S.
XorOver(S, F(_)) ==
    {d \in UNION {F(x) : x \in S} : Cardinality({x \in S : d \in F(x)}) % 2 = 1}

Sums == [i \in Active |-> XorOver(Workers, LAMBDA w : fingerprint[w][i])]

\* Together the accumulators hold the XOR of the digests of the files hashed,
\* at any moment and whoever hashed them.
Accumulated ==
    \A i \in Active :
        Sums[i] = XorOver(Hashed, LAMBDA p : {DigestOf(i, outcome[p])})

\* The report follows the last write of the last worker, whichever threads could
\* not be created: those that were have ended, all claimed files are finished and
\* counted, and, if any worker has ever claimed, no path was left unclaimed.
ReportsAll ==
    main = "reported" =>
        /\ \A w \in Workers : pc[w] \in {"unborn", "exited"}
        /\ files_done = Cardinality(Hashed) /\ report.files = files_done
        /\ next = 0 \/ DOMAIN outcome = 0..Len(items) - 1

\* The walk loses only files a call has failed for.
LosesOnlyFailures == Walk!LosesOnlyFailures

\* The vector of paths is never written past its end, however it grew.
InCapacity == Walk!InCapacity

\* The workers are given no file twice, be it through a link.
ListedOnce == Walk!ListedOnce

\* The bench ends, in a report, with an error or in the failure of something
\* it does not check.
Ends == <>(main \in {"reported", "failed", "crashed"})

\* The bytes the first k workers have hashed.
BytesBy[k \in 0..Threads] == IF k = 0 THEN 0 ELSE BytesBy[k - 1] + bytes_hashed[k]

\* The files behind a set of indices into the vector.
PathsAt(I) == {items[i + 1] : i \in I} \ {NULL}

\* Walk and workers implement the sum of the digests of the files under the
\* root, in some order.
Promise == INSTANCE CorpusFingerprint WITH
    Hashes   <- DOMAIN g_hashes,
    Files    <- Walk!Under[Root],
    Readable <- LAMBDA f : Prefixes(Content[f]),
    hashed   <- PathsAt(Hashed),
    skipped  <- Walk!Lost \cup PathsAt(DOMAIN outcome \ Hashed),
    sum      <- Sums,
    bytes    <- BytesBy[Threads]

KeepsPromise == Promise!Spec
-----------------------------------------------------------------------------
(* A claim of a comment that the code does not keep *)

\* bench/file.c:2: "walks a directory, reads each regular file once": a file
\* that nothing failed for is listed exactly once.
EachFileOnce == Walk!EachFileOnce
=============================================================================
