--------------------------- MODULE FileBenchProofs ---------------------------
(***************************************************************************)
(* The file bench for every tree, every content, any number of workers and *)
(* every size of a read: what the contexts hold while a file is read, and  *)
(* how the claims, the counters and the accumulators stay together.        *)
(***************************************************************************)
EXTENDS FileWalkProofs

-----------------------------------------------------------------------------
(* The backends stream *)

Aesni == {"v1", "v2", "v3", "v6", "v15"}

BlockOf(b) == IF b = "v1" THEN BLOCK_V1 ELSE BLOCK_V2

AesniContexts(b) == [maker : {b}, spent : {FALSE}, lanes : Seq(Byte), buf : Seq(Byte),
                     total_bytes : Nat]

\* A context of an AES-NI backend with block size B has taken in message m.
AesniStreams(b, B, c, m) ==
    /\ c \in AesniContexts(b)
    /\ c.lanes \o c.buf = m /\ c.total_bytes = Len(m)
    /\ \E q \in Nat : Len(c.lanes) = q * B
    /\ Len(c.buf) < B

\* Context c of backend b has taken in message m.
Streams(b, c, m) ==
    IF b \in Aesni THEN AesniStreams(b, BlockOf(b), c, m)
    ELSE c = [maker |-> b, spent |-> FALSE, msg |-> m]

LEMMA BlockEuclid ==
    ASSUME NEW B \in Nat \ {0}, NEW a \in Nat
    PROVE  /\ a \div B \in Nat /\ a % B \in 0..B - 1
           /\ a = B * (a \div B) + (a % B)
  OBVIOUS

LEMMA BlockRemainder ==
    ASSUME NEW B \in Nat \ {0}, NEW q \in Nat, NEW r \in 0..B - 1, NEW a \in Nat,
           a = q * B + r
    PROVE  a % B = r
  OBVIOUS

\* A sequence falls into what is before and what is after a place in it.
LEMMA Split ==
    ASSUME NEW S, NEW s \in Seq(S), NEW n \in 0..Len(s)
    PROVE  /\ SubSeq(s, 1, n) \in Seq(S) /\ Len(SubSeq(s, 1, n)) = n
           /\ SubSeq(s, n + 1, Len(s)) \in Seq(S)
           /\ Len(SubSeq(s, n + 1, Len(s))) = Len(s) - n
           /\ SubSeq(s, 1, n) \o SubSeq(s, n + 1, Len(s)) = s
<1> DEFINE x == SubSeq(s, 1, n)
           y == SubSeq(s, n + 1, Len(s))
<1>1. /\ x \in Seq(S) /\ Len(x) = n
      /\ \A i \in 1..n : x[i] = s[i]
  OBVIOUS
<1>2. /\ y \in Seq(S) /\ Len(y) = Len(s) - n
      /\ \A i \in 1..Len(s) - n : y[i] = s[n + i]
  OBVIOUS
<1> HIDE DEF x, y
<1>3. /\ x \o y \in Seq(S) /\ Len(x \o y) = Len(s)
      /\ \A i \in 1..Len(s) : (x \o y)[i] = IF i <= n THEN x[i] ELSE y[i - n]
  <2>1. /\ x \o y \in Seq(S) /\ Len(x \o y) = Len(x) + Len(y)
        /\ \A i \in 1..Len(x) + Len(y) :
             (x \o y)[i] = IF i <= Len(x) THEN x[i] ELSE y[i - Len(x)]
    BY <1>1, <1>2, ConcatProperties, Zenon
  <2>2. Len(x) = n /\ Len(x) + Len(y) = Len(s)
    BY <1>1, <1>2
  <2> QED BY <2>1, <2>2
<1>4. \A i \in 1..Len(s) : (x \o y)[i] = s[i]
  BY <1>1, <1>2, <1>3
<1>5. x \o y = s
  BY <1>3, <1>4, SeqEqual
<1> QED BY <1>1, <1>2, <1>5 DEF x, y

\* A read takes the next bytes of a file.
LEMMA NextBytes ==
    ASSUME NEW S, NEW s \in Seq(S), NEW n \in Nat, NEW k \in Nat, n + k <= Len(s)
    PROVE  /\ SubSeq(s, n + 1, n + k) \in Seq(S)
           /\ SubSeq(s, 1, n) \o SubSeq(s, n + 1, n + k) = SubSeq(s, 1, n + k)
<1> DEFINE x == SubSeq(s, 1, n) \o SubSeq(s, n + 1, n + k)
           y == SubSeq(s, 1, n + k)
<1>1. x \in Seq(S) /\ y \in Seq(S) /\ Len(x) = n + k /\ Len(y) = n + k
      /\ SubSeq(s, n + 1, n + k) \in Seq(S)
  OBVIOUS
<1>2. \A i \in 1..n + k : x[i] = s[i] /\ y[i] = s[i]
  OBVIOUS
<1> QED BY <1>1, <1>2, SeqEqual

Associate(r, s, t) == (r \o s) \o t = r \o (s \o t)

LEMMA ConcatAssociates ==
    ASSUME NEW S, NEW r \in Seq(S), NEW s \in Seq(S), NEW t \in Seq(S)
    PROVE  Associate(r, s, t)
  BY ConcatAssociative DEF Associate

LEMMA AbsorbStreams ==
    ASSUME NEW b \in Aesni, NEW B \in Nat \ {0}, NEW c, NEW m \in Seq(Byte),
           NEW data \in Seq(Byte), AesniStreams(b, B, c, m)
    PROVE  AesniStreams(b, B, Absorb(b, B, c, data), m \o data)
<1> DEFINE Fields(l, f, n) == [maker |-> b, spent |-> FALSE, lanes |-> l, buf |-> f,
                               total_bytes |-> n]
<1>1. PICK lanes \in Seq(Byte), buf \in Seq(Byte) :
        /\ c = Fields(lanes, buf, Len(m)) /\ lanes \o buf = m
        /\ \E q \in Nat : Len(lanes) = q * B
  BY DEF AesniStreams, AesniContexts
<1> DEFINE pending == buf \o data
           whole == B * (Len(pending) \div B)
           head == SubSeq(pending, 1, whole)
           tail == SubSeq(pending, whole + 1, Len(pending))
<1>2. Absorb(b, B, c, data) = Fields(lanes \o head, tail, Len(m) + Len(data))
  BY <1>1 DEF Absorb
<1>3. pending \in Seq(Byte) /\ Len(pending) \in Nat
  OBVIOUS
<1> HIDE DEF pending
<1>4. /\ whole \in 0..Len(pending)
      /\ Len(pending) - whole < B
      /\ Len(pending) \div B \in Nat
  <2>1. /\ Len(pending) \div B \in Nat /\ Len(pending) % B \in 0..B - 1
        /\ Len(pending) = B * (Len(pending) \div B) + (Len(pending) % B)
    BY <1>3, BlockEuclid
  <2>2. whole \in Nat
    BY <2>1
  <2> HIDE DEF whole
  <2>3. Len(pending) = whole + (Len(pending) % B)
    BY <2>1 DEF whole
  <2> QED BY <2>1, <2>2, <2>3, <1>3
<1> HIDE DEF whole
<1>5. /\ head \in Seq(Byte) /\ Len(head) = whole /\ tail \in Seq(Byte)
      /\ Len(tail) < B /\ head \o tail = pending
  BY <1>3, <1>4, Split
<1> HIDE DEF head, tail
<1>6. (lanes \o head) \o tail = m \o data
  <2>1. head \in Seq(Byte) /\ tail \in Seq(Byte)
    BY <1>5
  <2>2. Associate(lanes, head, tail) /\ Associate(lanes, buf, data)
    BY <2>1, ConcatAssociates
  <2> QED BY <1>1, <1>5, <2>2 DEF pending, Associate
<1>7. lanes \o head \in Seq(Byte) /\ Len(lanes \o head) = Len(lanes) + whole
  BY <1>5, ConcatProperties
<1>8. \E q \in Nat : Len(lanes \o head) = q * B
  <2>1. PICK q \in Nat : Len(lanes) = q * B
    BY <1>1
  <2>2. Len(lanes \o head) = q * B + B * (Len(pending) \div B)
    BY <1>7, <2>1 DEF whole
  <2>3. q * B + B * (Len(pending) \div B) = (q + (Len(pending) \div B)) * B
    BY <1>4, <2>1
  <2>4. q + (Len(pending) \div B) \in Nat
    BY <1>4
  <2> QED BY <2>2, <2>3, <2>4
<1>9. Len(m) + Len(data) = Len(m \o data) /\ Len(m) + Len(data) \in Nat
  BY ConcatProperties
<1> DEFINE d == Fields(lanes \o head, tail, Len(m) + Len(data))
<1>10. d \in AesniContexts(b)
  BY <1>5, <1>7, <1>9 DEF AesniContexts
<1>11. AesniStreams(b, B, d, m \o data)
  BY <1>5, <1>6, <1>8, <1>9, <1>10 DEF AesniStreams
<1> QED BY <1>2, <1>11

LEMMA FinalizeStreams ==
    ASSUME NEW b \in Aesni, NEW B \in Nat \ {0}, NEW c, NEW m \in Seq(Byte),
           AesniStreams(b, B, c, m)
    PROVE  Finalize(b, B, c) = OneShot(b, B, m)
<1>1. PICK q \in Nat : Len(c.lanes) = q * B
  BY DEF AesniStreams
<1>2. c.lanes \in Seq(Byte) /\ c.buf \in Seq(Byte)
  BY DEF AesniStreams, AesniContexts
<1>4. Len(m) = Len(c.lanes) + Len(c.buf)
  <2>1. c.lanes \o c.buf = m
    BY DEF AesniStreams
  <2>2. Len(c.lanes \o c.buf) = Len(c.lanes) + Len(c.buf)
    BY <1>2, ConcatProperties
  <2> QED BY <2>1, <2>2
<1>5. Len(m) = q * B + Len(c.buf) /\ Len(c.buf) \in 0..B - 1
  BY <1>1, <1>2, <1>4 DEF AesniStreams
<1>3. Len(m) % B = Len(c.buf)
  <2> DEFINE r == Len(c.buf)
             a == Len(m)
  <2>a. a \in Nat
    OBVIOUS
  <2>b. r \in 0..B - 1
    BY <1>5
  <2>c. a = q * B + r
    BY <1>5
  <2>1. a \in Nat /\ r \in 0..B - 1 /\ a = q * B + r
    BY <2>a, <2>b, <2>c
  <2> HIDE DEF a, r
  <2>2. a % B = r
    BY <2>1, BlockRemainder
  <2> QED BY <2>2 DEF a, r
<1> QED BY <1>3 DEF AesniStreams, AesniContexts, Finalize, OneShot

\* A new context has taken in nothing.
LEMMA NewStreams ==
    ASSUME NEW b \in Vtables
    PROVE  Streams(b, new_state(b), << >>)
<1>1. CASE b \in Aesni
  <2>1. new_state(b) = Context(b)
    BY <1>1 DEF Aesni, new_state, v1_new, v2_new, v3_new, v6_new, v15_new
  <2>2. Context(b) \in AesniContexts(b)
    BY DEF Context, AesniContexts
  <2>3. << >> \o << >> = << >> /\ Len(<< >>) = 0 * BlockOf(b) /\ Len(<< >>) < BlockOf(b)
    BY BlockAssumption DEF BlockOf
  <2> QED BY <1>1, <2>1, <2>2, <2>3 DEF Streams, AesniStreams, Context
<1>2. CASE b \notin Aesni
  BY <1>2 DEF Vtables, Aesni, Streams, new_state, other_new
<1> QED BY <1>1, <1>2

\* A context that streams is one, and not the mark of a misread one.
LEMMA StreamsIsContext ==
    ASSUME NEW b \in Vtables, NEW c, NEW m \in Seq(Byte), Streams(b, c, m)
    PROVE  c # Junk /\ c.maker = b /\ c.spent = FALSE
<1>2. CASE b \in Aesni
  BY <1>2, MarkAssumption DEF Streams, AesniStreams, AesniContexts
<1>3. CASE b \notin Aesni
  <2>1. c = [maker |-> b, spent |-> FALSE, msg |-> m]
    BY <1>3 DEF Streams
  <2>2. c \in [maker : Vtables, spent : BOOLEAN, msg : Seq(Byte)]
    BY <2>1
  <2>3. c.maker = b /\ c.spent = FALSE
    BY <2>1
  <2> QED BY <2>2, <2>3, MarkAssumption
<1> QED BY <1>2, <1>3

\* update appends to what a context has taken in.
LEMMA UpdateStreams ==
    ASSUME NEW b \in Vtables, NEW c, NEW m \in Seq(Byte), NEW data \in Seq(Byte),
           Streams(b, c, m)
    PROVE  Streams(b, update(b, c, data), m \o data)
<1>1. c # Junk /\ c.maker = b /\ c.spent = FALSE
  BY StreamsIsContext
<1>2. CASE b \in Aesni
  <2>1. BlockOf(b) \in Nat \ {0}
    BY BlockAssumption DEF BlockOf
  <2>2. update(b, c, data) = Absorb(b, BlockOf(b), c, data)
    BY <1>1, <1>2 DEF Aesni, BlockOf, update, v1_update, v2_update, v3_update, v6_update,
       v15_update
  <2>3. AesniStreams(b, BlockOf(b), c, m)
    BY <1>2 DEF Streams
  <2>4. AesniStreams(b, BlockOf(b), Absorb(b, BlockOf(b), c, data), m \o data)
    BY <1>2, <2>1, <2>3, AbsorbStreams
  <2> QED BY <1>2, <2>2, <2>4 DEF Streams
<1>3. CASE b \notin Aesni
  <2>1. update(b, c, data) = other_update(b, c, data)
    BY <1>1, <1>3 DEF Aesni, update
  <2>2. c = [maker |-> b, spent |-> FALSE, msg |-> m]
    BY <1>3 DEF Streams
  <2>3. other_update(b, c, data) = [maker |-> b, spent |-> FALSE, msg |-> m \o data]
    BY <2>2 DEF other_update
  <2> QED BY <1>3, <2>1, <2>3 DEF Streams
<1> QED BY <1>2, <1>3

\* The digest of a context is the one-shot digest of what it has taken in.
LEMMA DigestStreams ==
    ASSUME NEW b \in Vtables, NEW c, NEW m \in Seq(Byte), Streams(b, c, m)
    PROVE  finalize(b, c) = one_shot(b, m)
<1>1. c # Junk /\ c.maker = b /\ c.spent = FALSE
  BY StreamsIsContext
<1>2. CASE b \in Aesni
  <2>1. BlockOf(b) \in Nat \ {0}
    BY BlockAssumption DEF BlockOf
  <2>2. finalize(b, c) = Finalize(b, BlockOf(b), c)
    BY <1>1, <1>2 DEF Aesni, BlockOf, finalize, v1_finalize, v2_finalize, v3_finalize,
       v6_finalize, v15_finalize
  <2>3. one_shot(b, m) = OneShot(b, BlockOf(b), m)
    BY <1>2 DEF Aesni, BlockOf, one_shot, v1_one_shot, v2_one_shot, v3_one_shot,
       v6_one_shot, v15_one_shot
  <2>4. AesniStreams(b, BlockOf(b), c, m)
    BY <1>2 DEF Streams
  <2> QED BY <1>2, <2>1, <2>2, <2>3, <2>4, FinalizeStreams
<1>3. CASE b \notin Aesni
  <2>1. finalize(b, c) = other_digest(b, c) /\ one_shot(b, m) = other_one_shot(b, m)
    BY <1>1, <1>3 DEF Aesni, finalize, one_shot
  <2> QED BY <1>1, <1>3, <2>1 DEF Streams, other_digest, other_one_shot
<1> QED BY <1>2, <1>3

\* The functions of plugin h all go to backend b, which writes what is read.
Forwards(h, b) ==
    /\ h.one_shot = b /\ h.new_state = b /\ h.update = b /\ h.digest = b
    /\ h.free_state = b /\ ~(h.output_bits > Width(b))

LEMMA Plugins ==
    ASSUME NEW i \in DOMAIN g_hashes
    PROVE  \E b \in Vtables : Forwards(g_hashes[i], b)
<1>1. i \in 1..10
  BY DEF g_hashes
<1> USE DEF Forwards, Vtables, Aesni, Width, hash_impl
<1>2. CASE i = 1 BY <1>2 DEF g_hashes, xxh3_128
<1>3. CASE i = 2 BY <1>3, ServedAssumption DEF g_hashes, river5_impl
<1>4. CASE i = 3 BY <1>4 DEF g_hashes, river5_v15_impl
<1>5. CASE i = 4 BY <1>5 DEF g_hashes, river5_v6_impl
<1>6. CASE i = 5 BY <1>6 DEF g_hashes, river5_v3_impl
<1>7. CASE i = 6 BY <1>7 DEF g_hashes, river5_v2_impl
<1>8. CASE i = 7 BY <1>8 DEF g_hashes, river5_v1_impl
<1>9. CASE i = 8 BY <1>9 DEF g_hashes, blake3_impl
<1>10. CASE i = 9 BY <1>10 DEF g_hashes, metrohash_impl
<1>11. CASE i = 10 BY <1>11 DEF g_hashes, meow_impl
<1> QED BY <1>1, <1>2, <1>3, <1>4, <1>5, <1>6, <1>7, <1>8, <1>9, <1>10, <1>11

-----------------------------------------------------------------------------
(* The inductive invariant *)

Labels == {"unborn", "born", "claim", "open", "read", "count", "done", "exited"}

AllDigests == UNION {{DigestOf(i, m) : m \in Messages} : i \in Active}

Shapes ==
    /\ only \in Only
    /\ main \in {"options", "walk", "spawn", "join", "sum", "report",
                 "reported", "failed", "crashed"}
    /\ turn \in Workers /\ next \in Nat /\ files_done \in Nat
    /\ pc \in [Workers -> Labels]
    /\ idx \in [Workers -> Nat] /\ pos \in [Workers -> Nat]
    /\ hstate = [w \in Workers |-> hstate[w]]
    /\ \A w \in Workers : hstate[w] = NULL \/ DOMAIN hstate[w] = Active
    /\ fingerprint \in [Workers -> [Active -> SUBSET AllDigests]]
    /\ \A w \in Workers : \A i \in Active :
         fingerprint[w][i] \subseteq {DigestOf(i, m) : m \in Messages}
    /\ bytes_hashed \in [Workers -> Nat] /\ files_hashed \in [Workers -> Nat]
    /\ outcome \in [DOMAIN outcome -> Messages \cup {NULL}]
    /\ agg.files \in Nat /\ agg.bytes \in Nat

\* No worker has done anything.
Idle ==
    /\ turn = 1 /\ next = 0 /\ files_done = 0 /\ DOMAIN outcome = {}
    /\ \A w \in Workers :
        /\ pc[w] = "unborn" /\ idx[w] = 0 /\ files_hashed[w] = 0
        /\ \A i \in Active : fingerprint[w][i] = {}

\* Where a worker does nothing more: it has ended, or it was never created.
Over(at) == at \in {"unborn", "exited"}

\* What run_file's place says of the workers.
Phases ==
    /\ main = "options" => walk = "opening"
    /\ main \in {"options", "walk", "failed"} => Idle
    /\ main = "spawn" => \A w \in Workers : w >= turn => pc[w] = "unborn"
    /\ main = "join" => \A w \in Workers : w < turn => Over(pc[w])
    /\ main \in {"sum", "report", "reported"} => \A w \in Workers : Over(pc[w])
    /\ main # "reported" => report = NoReport
    /\ main = "reported" => report = agg

Gone == {w \in Workers : pc[w] \in {"done", "exited"}}

Busy(w) == pc[w] \in {"claim", "open", "read", "count"}

\* The counter runs past the paths at most once for each worker, and has reached
\* their number unless some worker is still to look at it again.
Claims ==
    /\ \A w \in Workers : InProgress(w) => idx[w] < Len(items)
    /\ next <= Len(items) + Cardinality(Gone)
    /\ \A w \in Workers : idx[w] <= Len(items) + Threads
    /\ next > 0 => next >= Len(items) \/ \E w \in Workers : Busy(w)

\* A worker's contexts have taken in what it has read of its file.
Reading ==
    \A w \in Workers : pc[w] = "read" =>
        /\ Path(w) \in DOMAIN Content /\ pos[w] <= Len(Content[Path(w)])
        /\ hstate[w] # NULL => \A i \in Active : \E b \in Vtables :
             /\ Forwards(g_hashes[i], b)
             /\ Streams(b, hstate[w][i], SubSeq(Content[Path(w)], 1, pos[w]))

Counting == {w \in Workers : pc[w] = "count"}

\* sum[k] is how many files the first k workers have hashed.
PrefixSums(sum) ==
    /\ sum \in [0..Threads -> Nat] /\ sum[0] = 0
    /\ \A k \in Workers : sum[k] = sum[k - 1] + files_hashed[k]
    /\ sum[Threads] = Cardinality(Hashed)
    /\ main \notin {"sum", "report", "reported", "crashed"} => agg.files = 0
    /\ main = "sum" => agg.files = sum[turn - 1]
    /\ main \in {"report", "reported"} => agg.files = sum[Threads]

Counts ==
    /\ files_done + Cardinality(Counting) = Cardinality(Hashed)
    /\ \E sum : PrefixSums(sum)

\* An odd number of accumulators hold a digest when an odd number of files had it.
Parity ==
    \A i \in Active : \A d :
        Cardinality({w \in Workers : d \in fingerprint[w][i]}) % 2 =
          Cardinality({p \in Hashed : d = DigestOf(i, outcome[p])}) % 2

BenchInv ==
    /\ WalkInv /\ Shapes /\ Phases /\ Claims /\ ClaimedOnce
    /\ Reading /\ Counts /\ Parity

\* Only TakeWalk takes a step of the walk.
LEMMA WalkSame ==
    ASSUME WalkInv, UNCHANGED walkVars
    PROVE  WalkInv'
  BY DEF WalkInv, walkVars, Walk!TypeOK, Walk!InCapacity

LEMMA WalkOrNot ==
    ASSUME Next
    PROVE  (main = "walk" /\ Walk!Next) \/ UNCHANGED walkVars
<1>1. ASSUME NEW w \in Workers, Worker(w) PROVE UNCHANGED walkVars
  BY <1>1 DEF Worker, Setup, Claim, Open, OpenFails, UseNoContext, ReadChunk, TakeDigests,
     Count, Exit, Crash, mainVars
<1>2. ASSUME Main PROVE (main = "walk" /\ Walk!Next) \/ UNCHANGED walkVars
  BY <1>2 DEF Main, Select, TakeWalk, EndWalk, Spawn, Join, JoinNoThread, JoinTwice,
     Aggregate, Report, Crash
<1> QED BY <1>1, <1>2 DEF Next

LEMMA WalkKept ==
    ASSUME WalkInv, Next
    PROVE  WalkInv'
  BY WalkOrNot, WalkStep, WalkSame

\* Once the walk has ended the paths stay, and before no worker has started.
LEMMA PathsGrow ==
    ASSUME WalkInv, Phases, Next
    PROVE  /\ Len(items) \in Nat /\ Len(items') \in Nat
           /\ items \in Seq(Walk!Files \cup {NULL})
           /\ items' = items \/ (main = "walk" /\ Idle /\ UNCHANGED <<only, main, turn, agg, report, workerVars>>)
<1>1. WalkInv'
  BY WalkKept
<1>2. /\ items \in Seq(Walk!Files \cup {NULL}) /\ items' \in Seq(Walk!Files \cup {NULL})
  BY <1>1 DEF WalkInv, Walk!TypeOK
<1>3. Len(items) \in Nat /\ Len(items') \in Nat
  BY <1>2
<1>4. CASE main = "walk" /\ Walk!Next
  <2>1. Idle
    BY <1>4 DEF Phases
  <2>2. TakeWalk \/ UNCHANGED items
    <3>1. \A w \in Workers : ~Worker(w)
      BY <2>1 DEF Idle, Worker, Setup, Claim, Open, OpenFails, UseNoContext, ReadChunk,
         TakeDigests, Count, Exit
    <3> QED BY <1>4, <3>1 DEF Next, Main, Select, EndWalk, Spawn, Join, JoinNoThread,
       JoinTwice, Aggregate, Report, walkVars
  <2> QED BY <1>2, <1>3, <1>4, <2>1, <2>2 DEF TakeWalk
<1>5. CASE UNCHANGED walkVars
  BY <1>2, <1>3, <1>5 DEF walkVars
<1> QED BY <1>4, <1>5, WalkOrNot

\* A worker goes to another place, and no other worker does.
LEMMA Goes ==
    ASSUME pc \in [Workers -> Labels], NEW w \in Workers, NEW l \in Labels, Goto(w, l)
    PROVE  /\ pc' \in [Workers -> Labels] /\ pc'[w] = l
           /\ \A u \in Workers : u # w => pc'[u] = pc[u]
  BY DEF Goto

\* The steps of a worker that is not done, by where they start and end.
Hop(w, from, to) ==
    /\ pc[w] = from /\ pc' \in [Workers -> Labels] /\ pc'[w] = to
    /\ \A u \in Workers : u # w => pc'[u] = pc[u]

LEMMA WorkerMoves ==
    ASSUME Shapes, NEW w \in Workers, Worker(w)
    PROVE  /\ Setup(w) => Hop(w, "born", "claim") \/ Hop(w, "born", "done")
           /\ Claim(w) => IF next >= Len(items) THEN Hop(w, "claim", "done")
                          ELSE Hop(w, "claim", "open")
           /\ Open(w) => Hop(w, "open", "read")
           /\ OpenFails(w) => Hop(w, "open", "claim")
           /\ ReadChunk(w) => Hop(w, "read", "read")
           /\ TakeDigests(w) => Hop(w, "read", "count")
           /\ Count(w) => Hop(w, "count", "claim")
           /\ Exit(w) => Hop(w, "done", "exited")
           /\ UseNoContext(w) => UNCHANGED pc /\ main' = "crashed" /\ main # "crashed"
<1>1. pc \in [Workers -> Labels]
  BY DEF Shapes
<1>2. ASSUME NEW from, NEW to \in Labels, pc[w] = from, Goto(w, to) PROVE Hop(w, from, to)
  BY <1>1, <1>2, Goes DEF Hop
<1>l. \A l \in {"claim", "done", "open", "read", "count", "exited"} : l \in Labels
  BY DEF Labels
<1>3. Setup(w) => Hop(w, "born", "claim") \/ Hop(w, "born", "done")
  BY <1>2, <1>l DEF Setup
<1>4. Claim(w) => IF next >= Len(items) THEN Hop(w, "claim", "done")
                  ELSE Hop(w, "claim", "open")
  BY <1>2, <1>l DEF Claim
<1>5. /\ Open(w) => Hop(w, "open", "read")
      /\ OpenFails(w) => Hop(w, "open", "claim")
      /\ TakeDigests(w) => Hop(w, "read", "count")
      /\ Count(w) => Hop(w, "count", "claim")
      /\ Exit(w) => Hop(w, "done", "exited")
  BY <1>2, <1>l DEF Open, OpenFails, TakeDigests, Count, Exit
<1>6. ReadChunk(w) => Hop(w, "read", "read")
  BY <1>1 DEF ReadChunk, Hop
<1>7. UseNoContext(w) => UNCHANGED pc /\ main' = "crashed" /\ main # "crashed"
  BY DEF UseNoContext, Crash, workerVars, Worker
<1> QED BY <1>3, <1>4, <1>5, <1>6, <1>7
-----------------------------------------------------------------------------
(* run_file's place and the workers' *)

\* run_file moves a worker only to start it.
LEMMA SpawnsOnly ==
    ASSUME Shapes, Phases, Main
    PROVE  \A u \in Workers : pc'[u] = pc[u] \/ (pc[u] = "unborn" /\ pc'[u] = "born")
<1>1. CASE UNCHANGED pc
  BY <1>1
<1>2. CASE Spawn /\ Goto(turn, "born")
  <2>1. turn \in Workers /\ pc[turn] = "unborn"
    BY <1>2 DEF Spawn, Phases, Shapes, Workers
  <2>2. pc'[turn] = "born" /\ \A u \in Workers : u # turn => pc'[u] = pc[u]
    BY <1>2, <2>1 DEF Goto, Shapes
  <2> QED BY <2>1, <2>2
<1> QED BY <1>1, <1>2 DEF Main, Select, TakeWalk, EndWalk, Spawn, Join,
      JoinNoThread, JoinTwice, Aggregate, Report, Crash, workerVars

LEMMA PhasesStep ==
    ASSUME WalkInv, Shapes, Phases, Next
    PROVE  Phases'
<1>1. ASSUME NEW w \in Workers, Worker(w) PROVE Phases'
  <2>1. pc[w] \notin {"unborn", "exited"}
    BY <1>1 DEF Worker, Setup, Claim, Open, OpenFails, UseNoContext, ReadChunk,
         TakeDigests, Count, Exit
  <2>2. main \notin {"options", "walk", "failed", "sum", "report", "reported"}
    BY <2>1 DEF Phases, Idle, Over
  <2>3. CASE UseNoContext(w)
    BY <2>2, <2>3 DEF UseNoContext, Crash, Phases
  <2>4. CASE ~UseNoContext(w)
    <3>1. UNCHANGED <<main, turn, report>>
      BY <1>1, <2>4 DEF Worker, Setup, Claim, Open, OpenFails, ReadChunk,
         TakeDigests, Count, Exit, mainVars
    <3>2. \A u \in Workers : u # w => pc'[u] = pc[u]
      BY <1>1, <2>4, WorkerMoves DEF Worker, Hop
    <3>3. main = "spawn" => \A u \in Workers : u >= turn => pc'[u] = "unborn"
      BY <2>1, <3>2 DEF Phases
    <3>4. main = "join" => \A u \in Workers : u < turn => Over(pc'[u])
      BY <2>1, <3>2 DEF Phases, Over
    <3> QED BY <2>2, <3>1, <3>3, <3>4 DEF Phases
  <2> QED BY <2>3, <2>4
<1>2. turn \in Workers /\ Workers = 1..Threads /\ Threads \in Nat \ {0}
  BY ThreadsAssumption DEF Shapes, Workers
<1>3. CASE Select
  <2>1. Idle' <=> Idle
    BY <1>3 DEF Select, workerVars, counters, Idle, Active
  <2> QED BY <1>3, <2>1 DEF Select, Phases
<1>4. CASE TakeWalk
  <2>1. Idle' <=> Idle
    BY <1>4 DEF TakeWalk, workerVars, counters, Idle, Active
  <2> QED BY <1>4, <2>1 DEF TakeWalk, Phases
<1>5. CASE EndWalk
  <2>1. Idle' <=> Idle
    BY <1>5 DEF EndWalk, workerVars, counters, Idle, Active
  <2>2. pc' = pc
    BY <1>5 DEF EndWalk, workerVars
  <2> QED BY <1>5, <2>1, <2>2 DEF EndWalk, Phases, Idle
<1>6. CASE Spawn
  <2>1. \A u \in Workers : u # turn => pc'[u] = pc[u]
    BY <1>6 DEF Spawn, Goto, Shapes
  <2>2. /\ main = "spawn" /\ report' = report
        /\ \/ main' = main /\ turn' = turn + 1
           \/ main' = "join" /\ turn' = 1
    BY <1>6 DEF Spawn, Advance
  <2>3. \A u \in Workers : u >= turn + 1 => pc'[u] = "unborn"
    BY <1>2, <2>1, <2>2 DEF Phases, Workers
  <2> QED BY <1>2, <2>2, <2>3 DEF Phases, Workers
<1>7. ASSUME main = "join", Over(pc[turn]), Advance("sum"), report' = report, pc' = pc
      PROVE  Phases'
  <2>1. \/ main' = main /\ turn' = turn + 1
        \/ main' = "sum" /\ turn' = 1 /\ turn = Threads
    BY <1>2, <1>7 DEF Advance
  <2>2. \A u \in Workers : u < turn + 1 => Over(pc'[u])
    BY <1>2, <1>7 DEF Phases, Workers
  <2> QED BY <1>2, <1>7, <2>1, <2>2 DEF Phases, Workers
<1>8. CASE Join
  BY <1>7, <1>8 DEF Join, Over, workerVars
<1>9. CASE JoinNoThread
  <2>1. CASE Crash
    BY <1>9, <2>1 DEF JoinNoThread, Crash, Phases
  <2> QED BY <1>7, <1>9, <2>1 DEF JoinNoThread, Over, workerVars
<1>10. CASE JoinTwice
  BY <1>10 DEF JoinTwice, Crash, Phases
<1>11. CASE Aggregate
  BY <1>11 DEF Aggregate, Advance, workerVars, Phases
<1>12. CASE Report
  BY <1>12 DEF Report, workerVars, Phases
<1> QED BY <1>1, <1>3, <1>4, <1>5, <1>6, <1>8, <1>9, <1>10, <1>11, <1>12 DEF Next, Main

\* What a digest is of, when it is taken.
LEMMA DigestTaken ==
    ASSUME Reading, NEW w \in Workers, pc[w] = "read", hstate[w] # NULL,
           pos[w] \in Nat
    PROVE  /\ Path(w) \in DOMAIN Content
           /\ SubSeq(Content[Path(w)], 1, pos[w]) \in Messages
           /\ SubSeq(Content[Path(w)], 1, pos[w]) \in Seq(Byte)
           /\ SubSeq(Content[Path(w)], 1, pos[w]) # NULL
           /\ \A i \in Active :
                Digested(g_hashes[i], hstate[w][i]) =
                  DigestOf(i, SubSeq(Content[Path(w)], 1, pos[w]))
<1> DEFINE m == SubSeq(Content[Path(w)], 1, pos[w])
<1>1. Path(w) \in DOMAIN Content /\ pos[w] <= Len(Content[Path(w)])
  BY DEF Reading
<1>2. Content[Path(w)] \in Seq(Byte)
  BY <1>1, ContentAssumption
<1>3. m \in Seq(Byte)
  BY <1>1, <1>2
<1>4. m \in Messages
  <2>1. pos[w] \in 0..Len(Content[Path(w)])
    BY <1>1, <1>2
  <2>2. m \in Prefixes(Content[Path(w)])
    BY <2>1 DEF Prefixes
  <2> QED BY <1>1, <2>2 DEF Messages
<1>5. m # NULL
  BY <1>3, MarkAssumption
<1>6. ASSUME NEW i \in Active
      PROVE  Digested(g_hashes[i], hstate[w][i]) = DigestOf(i, m)
  <2>1. PICK b \in Vtables : Forwards(g_hashes[i], b) /\ Streams(b, hstate[w][i], m)
    BY DEF Reading
  <2>2. finalize(b, hstate[w][i]) = one_shot(b, m)
    BY <1>3, <2>1, DigestStreams
  <2> QED BY <2>1, <2>2 DEF Forwards, Digested, DigestOf
<1> QED BY <1>1, <1>3, <1>4, <1>5, <1>6

LEMMA XorElements ==
    ASSUME NEW x, NEW y, NEW d
    PROVE  d \in Xor(x, y) <=> (d \in x /\ d \notin y) \/ (d \notin x /\ d \in y)
  BY DEF Xor

LEMMA ShapesStep ==
    ASSUME WalkInv, Shapes, Phases, Reading, Next
    PROVE  Shapes'
<1>0. turn \in Workers /\ Workers = 1..Threads /\ Threads \in Nat \ {0}
  BY ThreadsAssumption DEF Shapes, Workers
<1>1. ASSUME NEW w \in Workers, Worker(w) PROVE Shapes'
  <2>1. UNCHANGED <<only, turn, agg>>
    BY <1>1 DEF Worker, Setup, Claim, Open, OpenFails, UseNoContext, ReadChunk,
       TakeDigests, Count, Exit, Crash, mainVars
  <2>2. UNCHANGED main \/ main' = "crashed"
    BY <1>1 DEF Worker, Setup, Claim, Open, OpenFails, UseNoContext, ReadChunk,
       TakeDigests, Count, Exit, Crash, mainVars
  <2>3. pc' \in [Workers -> Labels]
    BY <1>1, WorkerMoves DEF Worker, Hop, Shapes
  <2>4. /\ next' \in Nat /\ files_done' \in Nat
        /\ idx' \in [Workers -> Nat] /\ pos' \in [Workers -> Nat]
    <3>a. UNCHANGED next \/ next' = next + 1
      BY <1>1 DEF Worker, Setup, Claim, Open, OpenFails, UseNoContext, ReadChunk,
         TakeDigests, Count, Exit, Crash, workerVars
    <3>b. UNCHANGED files_done \/ files_done' = files_done + 1
      BY <1>1 DEF Worker, Setup, Claim, Open, OpenFails, UseNoContext, ReadChunk,
         TakeDigests, Count, Exit, Crash, workerVars
    <3>c. UNCHANGED idx \/ idx' = [idx EXCEPT ![w] = next]
      BY <1>1 DEF Worker, Setup, Claim, Open, OpenFails, UseNoContext, ReadChunk,
         TakeDigests, Count, Exit, Crash, workerVars
    <3>d. UNCHANGED pos \/ pos' = [pos EXCEPT ![w] = 0] \/ ReadChunk(w)
      BY <1>1 DEF Worker, Setup, Claim, Open, OpenFails, UseNoContext,
         TakeDigests, Count, Exit, Crash, workerVars
    <3>1. /\ next \in Nat /\ files_done \in Nat
          /\ idx \in [Workers -> Nat] /\ pos \in [Workers -> Nat]
      BY DEF Shapes
    <3>2. ASSUME ReadChunk(w) PROVE pos' \in [Workers -> Nat]
      <4>1. PICK got \in 1..CHUNK : pos' = [pos EXCEPT ![w] = @ + got]
        BY <3>2 DEF ReadChunk
      <4>2. got \in Nat
        BY ChunkAssumption
      <4> QED BY <3>1, <4>1, <4>2
    <3> QED BY <3>a, <3>b, <3>c, <3>d, <3>1, <3>2
  <2>5. hstate' = [u \in Workers |-> hstate'[u]]
    BY <1>1 DEF Worker, Setup, Claim, Open, OpenFails, UseNoContext, ReadChunk,
       TakeDigests, Count, Exit, Crash, workerVars, Shapes
  <2>6. ASSUME NEW u \in Workers PROVE hstate'[u] = NULL \/ DOMAIN hstate'[u] = Active
    <3>1. hstate[u] = NULL \/ DOMAIN hstate[u] = Active
      BY DEF Shapes
    <3>2. u # w => hstate'[u] = hstate[u]
      BY <1>1 DEF Worker, Setup, Claim, Open, OpenFails, UseNoContext, ReadChunk,
         TakeDigests, Count, Exit, Crash, workerVars, Shapes
    <3>3. hstate'[w] = NULL \/ DOMAIN hstate'[w] = Active \/ hstate'[w] = hstate[w]
      <4>1. ASSUME NEW c \in Contexts, hstate' = [hstate EXCEPT ![w] = c]
            PROVE  hstate'[w] = NULL \/ DOMAIN hstate'[w] = Active
        BY <4>1 DEF Contexts, Shapes
      <4>2. CASE Setup(w) \/ Open(w)
        BY <4>1, <4>2 DEF Setup, Open
      <4>3. CASE ReadChunk(w) \/ TakeDigests(w) \/ Exit(w)
        BY <4>3 DEF ReadChunk, TakeDigests, Exit, Shapes
      <4> QED BY <1>1, <4>2, <4>3 DEF Worker, Claim, OpenFails, UseNoContext, Count, Crash,
                workerVars
    <3> QED BY <3>1, <3>2, <3>3
  <2>7. /\ bytes_hashed' \in [Workers -> Nat] /\ files_hashed' \in [Workers -> Nat]
    <3>1. /\ UNCHANGED bytes_hashed \/ bytes_hashed' = [bytes_hashed EXCEPT ![w] = @ + pos[w]]
          /\ UNCHANGED files_hashed \/ files_hashed' = [files_hashed EXCEPT ![w] = @ + 1]
      BY <1>1 DEF Worker, Setup, Claim, Open, OpenFails, UseNoContext, ReadChunk,
         TakeDigests, Count, Exit, Crash, workerVars, counters
    <3>2. /\ pos[w] \in Nat /\ bytes_hashed \in [Workers -> Nat]
          /\ files_hashed \in [Workers -> Nat]
      BY DEF Shapes
    <3> QED BY <3>1, <3>2
  <2>8. CASE TakeDigests(w)
    <3> DEFINE m == SubSeq(Content[Path(w)], 1, pos[w])
    <3>1. /\ pc[w] = "read" /\ hstate[w] # NULL /\ pos[w] \in Nat
      BY <2>8 DEF TakeDigests, Shapes
    <3>2. /\ m \in Messages
          /\ \A i \in Active : Digested(g_hashes[i], hstate[w][i]) = DigestOf(i, m)
      BY <3>1, DigestTaken
    <3>3. Settle(w, m)
      BY <2>8 DEF TakeDigests
    <3> HIDE DEF m
    <3>4. outcome' \in [DOMAIN outcome' -> Messages \cup {NULL}]
      BY <3>2, <3>3 DEF Settle, Shapes
    <3> DEFINE x(i) == Xor(fingerprint[w][i], {Digested(g_hashes[i], hstate[w][i])})
    <3>5. ASSUME NEW i \in Active
          PROVE  x(i) \in SUBSET AllDigests /\ x(i) \subseteq {DigestOf(i, k) : k \in Messages}
      <4>1. fingerprint[w][i] \subseteq {DigestOf(i, k) : k \in Messages}
        BY DEF Shapes
      <4>2. x(i) \subseteq {DigestOf(i, k) : k \in Messages}
        BY <3>2, <4>1 DEF Xor
      <4> HIDE DEF x
      <4> QED BY <4>2 DEF AllDigests
    <3>6. /\ fingerprint \in [Workers -> [Active -> SUBSET AllDigests]]
          /\ fingerprint' = [fingerprint EXCEPT ![w] = [i \in Active |-> x(i)]]
      BY <2>8 DEF TakeDigests, Shapes
    <3> HIDE DEF x
    <3>7. /\ fingerprint' \in [Workers -> [Active -> SUBSET AllDigests]]
          /\ \A u \in Workers : \A i \in Active :
               fingerprint'[u][i] = IF u = w THEN x(i) ELSE fingerprint[u][i]
      BY <3>5, <3>6
    <3>8. \A u \in Workers : \A i \in Active :
            fingerprint'[u][i] \subseteq {DigestOf(i, k) : k \in Messages}
      BY <3>5, <3>7 DEF Shapes
    <3>9. Active' = Active
      BY <2>1 DEF Active
    <3>10. AllDigests' = AllDigests
      BY <3>9 DEF AllDigests
    <3> QED BY <2>1, <2>2, <2>3, <2>4, <2>5, <2>6, <2>7, <3>4, <3>7, <3>8, <3>9, <3>10
            DEF Shapes
  <2>9. CASE ~TakeDigests(w)
    <3>1. UNCHANGED fingerprint
      BY <1>1, <2>9 DEF Worker, Setup, Claim, Open, OpenFails, UseNoContext, ReadChunk,
         Count, Exit, Crash, workerVars, counters
    <3>2. outcome' \in [DOMAIN outcome' -> Messages \cup {NULL}]
      <4>1. UNCHANGED outcome \/ Settle(w, NULL)
        BY <1>1, <2>9 DEF Worker, Setup, Claim, Open, OpenFails, UseNoContext, ReadChunk,
           Count, Exit, Crash, workerVars
      <4> QED BY <4>1 DEF Settle, Shapes
    <3>3. Active' = Active
      BY <2>1 DEF Active
    <3>4. AllDigests' = AllDigests
      BY <3>3 DEF AllDigests
    <3> QED BY <2>1, <2>2, <2>3, <2>4, <2>5, <2>6, <2>7, <3>1, <3>2, <3>3, <3>4 DEF Shapes
  <2> QED BY <2>8, <2>9
<1>2. ASSUME Main PROVE Shapes'
  <2>1. /\ UNCHANGED <<only, next, files_done, idx, pos, hstate, counters, outcome>>
    BY <1>2 DEF Main, Select, TakeWalk, EndWalk, Spawn, Join, JoinNoThread, JoinTwice,
       Aggregate, Report, Crash, workerVars
  <2>2. main' \in {"options", "walk", "spawn", "join", "sum", "report",
                   "reported", "failed", "crashed"}
    BY <1>2 DEF Main, Select, TakeWalk, EndWalk, Spawn, Join, JoinNoThread, JoinTwice,
       Aggregate, Report, Crash, Advance, Shapes
  <2>3. turn' \in Workers
    <3>1. turn' = turn \/ turn' = 1 \/ (turn < Threads /\ turn' = turn + 1)
      BY <1>2 DEF Main, Select, TakeWalk, EndWalk, Spawn, Join, JoinNoThread,
         JoinTwice, Aggregate, Report, Crash, Advance
    <3> QED BY <1>0, <3>1
  <2>4. pc' \in [Workers -> Labels]
    <3>1. UNCHANGED pc \/ Goto(turn, "born")
      BY <1>2 DEF Main, Select, TakeWalk, EndWalk, Spawn, Join, JoinNoThread,
         JoinTwice, Aggregate, Report, Crash, workerVars
    <3>2. "born" \in Labels /\ pc \in [Workers -> Labels]
      BY DEF Labels, Shapes
    <3> QED BY <1>0, <3>1, <3>2, Goes
  <2>5. agg'.files \in Nat /\ agg'.bytes \in Nat
    <3>1. CASE Aggregate
      <4>1. /\ agg.files \in Nat /\ files_hashed[turn] \in Nat
            /\ agg.bytes \in Nat /\ bytes_hashed[turn] \in Nat
        BY <1>0 DEF Shapes
      <4>2. /\ agg'.files = agg.files + files_hashed[turn]
            /\ agg'.bytes = agg.bytes + bytes_hashed[turn]
        BY <3>1 DEF Aggregate
      <4> QED BY <4>1, <4>2
    <3>2. CASE ~Aggregate
      <4>1. agg' = agg
        BY <1>2, <3>2 DEF Main, Select, TakeWalk, EndWalk, Spawn, Join, JoinNoThread,
           JoinTwice, Report, Crash
      <4> QED BY <4>1 DEF Shapes
    <3> QED BY <3>1, <3>2
  <2>6. Active' = Active
    BY <2>1 DEF Active
  <2>7. AllDigests' = AllDigests
    BY <2>6 DEF AllDigests
  <2> QED BY <2>1, <2>2, <2>3, <2>4, <2>5, <2>6, <2>7 DEF Shapes, counters
<1> QED BY <1>1, <1>2 DEF Next
-----------------------------------------------------------------------------
(* The claims *)

LEMMA WorkersFinite ==
    /\ IsFiniteSet(Workers) /\ Cardinality(Workers) = Threads /\ Threads \in Nat
    /\ \A S \in SUBSET Workers : IsFiniteSet(S) /\ Cardinality(S) \in Nat /\ Cardinality(S) <= Threads
<1>1. Threads \in Nat /\ 1 \in Int /\ Threads \in Int /\ 1 <= Threads
  BY ThreadsAssumption
<1>2. IsFiniteSet(1..Threads) /\ Cardinality(1..Threads) = IF 1 > Threads THEN 0 ELSE Threads - 1 + 1
  BY <1>1, FS_Interval
<1>3. IsFiniteSet(Workers) /\ Cardinality(Workers) = Threads
  BY <1>1, <1>2 DEF Workers
<1>4. ASSUME NEW S \in SUBSET Workers
      PROVE  IsFiniteSet(S) /\ Cardinality(S) \in Nat /\ Cardinality(S) <= Threads
  BY <1>3, FS_Subset, FS_CardinalityType
<1> QED BY <1>1, <1>3, <1>4

\* A set that gains an element it did not have, or keeps its elements.
LEMMA OneMore ==
    ASSUME NEW S, IsFiniteSet(S), NEW x, x \notin S, NEW R, R = S \cup {x}
    PROVE  IsFiniteSet(R) /\ Cardinality(R) = Cardinality(S) + 1
  BY FS_AddElement

LEMMA OneLess ==
    ASSUME NEW S, IsFiniteSet(S), NEW x \in S, NEW R, R = S \ {x}
    PROVE  IsFiniteSet(R) /\ Cardinality(R) = Cardinality(S) - 1
  BY FS_RemoveElement

\* The workers that have given up, after a step of one.
LEMMA GoneHop ==
    ASSUME NEW w \in Workers, NEW from, NEW to, Hop(w, from, to)
    PROVE  /\ from \notin {"done", "exited"} /\ to \in {"done", "exited"} =>
                Cardinality(Gone') = Cardinality(Gone) + 1
           /\ from \notin {"done", "exited"} /\ to \notin {"done", "exited"} => Gone' = Gone
           /\ from \in {"done", "exited"} /\ to \in {"done", "exited"} => Gone' = Gone
<1>1. IsFiniteSet(Gone)
  BY WorkersFinite DEF Gone
<1>2. ASSUME from \notin {"done", "exited"}, to \in {"done", "exited"}
      PROVE  Cardinality(Gone') = Cardinality(Gone) + 1
  <2>1. w \notin Gone /\ Gone' = Gone \cup {w}
    BY <1>2 DEF Gone, Hop
  <2> QED BY <1>1, <2>1, OneMore
<1>3. ASSUME (from \in {"done", "exited"}) <=> (to \in {"done", "exited"}) PROVE Gone' = Gone
  BY <1>3 DEF Gone, Hop
<1> QED BY <1>2, <1>3

LEMMA IdleClaims ==
    ASSUME Idle', next' = 0, Len(items') \in Nat
    PROVE  Claims'
<1>1. Cardinality(Gone') \in Nat
  <2>1. Gone' \in SUBSET Workers
    BY DEF Gone
  <2> QED BY <2>1, WorkersFinite
<1>2. \A w \in Workers : pc'[w] = "unborn" /\ idx'[w] = 0
  BY DEF Idle
<1>3. Threads \in Nat
  BY WorkersFinite
<1> QED BY <1>1, <1>2, <1>3 DEF Claims, InProgress

LEMMA ClaimsStep ==
    ASSUME WalkInv, Shapes, Phases, Claims, Next
    PROVE  Claims'
<1>1. Len(items) \in Nat
  BY PathsGrow
<1>2. CASE main = "walk" /\ Idle /\ UNCHANGED <<only, main, turn, agg, report, workerVars>>
  <2>1. Idle' /\ next' = 0 /\ Len(items') \in Nat
    BY <1>2, PathsGrow DEF Idle, workerVars, counters, Active
  <2> QED BY <2>1, IdleClaims
<1>3. CASE items' = items
  <2>0. /\ next \in Nat /\ Gone \in SUBSET Workers /\ Cardinality(Gone) \in Nat
        /\ Cardinality(Gone) <= Threads /\ Threads \in Nat
        /\ idx \in [Workers -> Nat] /\ pc \in [Workers -> Labels]
    <3>1. Gone \in SUBSET Workers
      BY DEF Gone
    <3> QED BY <3>1, WorkersFinite DEF Shapes
  <2>1. ASSUME NEW w \in Workers, NEW from, NEW to, Hop(w, from, to),
               UNCHANGED <<next, idx>>, InProgress(w)' => InProgress(w),
               Busy(w) => Busy(w)', Cardinality(Gone') >= Cardinality(Gone),
               Cardinality(Gone') \in Nat
        PROVE  Claims'
    <3>1. ASSUME NEW u \in Workers, InProgress(u)' PROVE idx'[u] < Len(items')
      BY <1>3, <2>1, <3>1 DEF Hop, InProgress, Claims
    <3>2. next' <= Len(items') + Cardinality(Gone')
      BY <1>1, <1>3, <2>0, <2>1 DEF Claims
    <3>3. ASSUME next' > 0 PROVE next' >= Len(items') \/ \E u \in Workers : Busy(u)'
      <4>1. CASE next >= Len(items)
        BY <1>3, <2>1, <4>1
      <4>2. CASE \E u \in Workers : Busy(u)
        <5>1. PICK u \in Workers : Busy(u)
          BY <4>2
        <5>2. Busy(u)'
          BY <2>1, <5>1 DEF Hop, Busy
        <5> QED BY <5>2
      <4> QED BY <2>1, <3>3, <4>1, <4>2 DEF Claims
    <3> QED BY <1>3, <2>1, <3>1, <3>2, <3>3 DEF Claims
  <2>2. ASSUME NEW w \in Workers, NEW from \in {"born", "open", "read", "count", "done"}, NEW to,
               \/ from = "born" /\ to \in {"claim", "done"}
               \/ from = "open" /\ to \in {"read", "claim"}
               \/ from = "read" /\ to \in {"read", "count"}
               \/ from = "count" /\ to = "claim"
               \/ from = "done" /\ to = "exited",
               Hop(w, from, to), UNCHANGED <<next, idx>>
        PROVE  Claims'
    <3>1. InProgress(w)' => InProgress(w)
      BY <2>2 DEF Hop, InProgress
    <3>2. Busy(w) => Busy(w)'
      BY <2>2 DEF Hop, Busy
    <3>3. Cardinality(Gone') >= Cardinality(Gone) /\ Cardinality(Gone') \in Nat
      BY <2>0, <2>2, GoneHop
    <3> QED BY <2>1, <2>2, <3>1, <3>2, <3>3
  <2>3. ASSUME NEW w \in Workers, Worker(w) PROVE Claims'
    <3>1. CASE Claim(w)
      <4>1. pc[w] = "claim" /\ next' = next + 1 /\ idx' = [idx EXCEPT ![w] = next]
        BY <3>1 DEF Claim
      <4>2. /\ idx'[w] = next /\ \A u \in Workers : u # w => idx'[u] = idx[u]
        BY <2>0, <4>1
      <4>3. ASSUME NEW u \in Workers PROVE idx'[u] <= Len(items') + Threads
        BY <1>1, <1>3, <2>0, <4>2 DEF Claims
      <4>4. CASE next >= Len(items)
        <5>1. Hop(w, "claim", "done")
          BY <2>3, <3>1, <4>4, WorkerMoves
        <5>2. Cardinality(Gone') = Cardinality(Gone) + 1
          BY <5>1, GoneHop
        <5>3. ASSUME NEW u \in Workers, InProgress(u)' PROVE idx'[u] < Len(items')
          BY <1>3, <4>2, <5>1, <5>3 DEF Hop, InProgress, Claims
        <5>4. next' <= Len(items') + Cardinality(Gone') /\ next' >= Len(items')
          BY <1>1, <1>3, <2>0, <4>1, <4>4, <5>2 DEF Claims
        <5> QED BY <4>3, <5>3, <5>4 DEF Claims
      <4>5. CASE ~(next >= Len(items))
        <5>1. Hop(w, "claim", "open")
          BY <2>3, <3>1, <4>5, WorkerMoves
        <5>2. Gone' = Gone
          BY <5>1, GoneHop
        <5>3. ASSUME NEW u \in Workers, InProgress(u)' PROVE idx'[u] < Len(items')
          BY <1>1, <1>3, <2>0, <4>2, <4>5, <5>1, <5>3 DEF Hop, InProgress, Claims
        <5>4. next' <= Len(items') + Cardinality(Gone')
          BY <1>1, <1>3, <2>0, <4>1, <4>5, <5>2
        <5>5. Busy(w)'
          BY <5>1 DEF Hop, Busy
        <5> QED BY <4>3, <5>3, <5>4, <5>5 DEF Claims
      <4> QED BY <4>4, <4>5
    <3>2. CASE UseNoContext(w)
      BY <1>3, <3>2 DEF UseNoContext, Crash, workerVars, Claims, InProgress, Gone, Busy
    <3>3. CASE ~Claim(w) /\ ~UseNoContext(w)
      <4>1. UNCHANGED <<next, idx>>
        BY <2>3, <3>3 DEF Worker, Setup, Open, OpenFails, ReadChunk, TakeDigests, Count, Exit
      <4>2. \/ Hop(w, "born", "claim") \/ Hop(w, "born", "done") \/ Hop(w, "open", "read")
            \/ Hop(w, "open", "claim") \/ Hop(w, "read", "read") \/ Hop(w, "read", "count")
            \/ Hop(w, "count", "claim") \/ Hop(w, "done", "exited")
        BY <2>3, <3>3, WorkerMoves DEF Worker
      <4> QED BY <2>2, <4>1, <4>2
    <3> QED BY <3>1, <3>2, <3>3
  <2>4. ASSUME Main PROVE Claims'
    <3>1. UNCHANGED <<next, idx>>
      BY <2>4 DEF Main, Select, TakeWalk, EndWalk, Spawn, Join, JoinNoThread,
         JoinTwice, Aggregate, Report, Crash, workerVars
    <3>2. \A u \in Workers : pc'[u] = pc[u] \/ (pc[u] = "unborn" /\ pc'[u] = "born")
      BY <2>4, SpawnsOnly
    <3>3. \A u \in Workers : (InProgress(u)' <=> InProgress(u)) /\ (Busy(u)' <=> Busy(u))
      BY <3>2 DEF InProgress, Busy
    <3>4. Gone' = Gone
      BY <3>2 DEF Gone
    <3> QED BY <1>3, <3>1, <3>3, <3>4 DEF Claims
  <2> QED BY <2>3, <2>4 DEF Next
<1> QED BY <1>2, <1>3, PathsGrow

\* The first conjuncts of ClaimedOnce, element by element.
LEMMA ClaimedElements ==
    ClaimedOnce <=>
      /\ \A w, u \in Workers : InProgress(w) /\ InProgress(u) /\ idx[w] = idx[u] => w = u
      /\ \A w \in Workers : InProgress(w) => idx[w] \notin DOMAIN outcome
      /\ \A i : i \in 0..Len(items) - 1 /\ i < next <=>
                  (\E w \in Workers : InProgress(w) /\ i = idx[w]) \/ i \in DOMAIN outcome
<1>1. ASSUME NEW i
      PROVE  /\ i \in {j \in 0..Len(items) - 1 : j < next} <=> i \in 0..Len(items) - 1 /\ i < next
             /\ i \in {idx[w] : w \in {u \in Workers : InProgress(u)}} \cup DOMAIN outcome <=>
                  (\E w \in Workers : InProgress(w) /\ i = idx[w]) \/ i \in DOMAIN outcome
  OBVIOUS
<1> QED BY <1>1 DEF ClaimedOnce

LEMMA ClaimedElementsNext ==
    ASSUME \A w, u \in Workers : InProgress(w)' /\ InProgress(u)' /\ idx'[w] = idx'[u] => w = u,
           \A w \in Workers : InProgress(w)' => idx'[w] \notin DOMAIN outcome',
           \A i : i \in 0..Len(items') - 1 /\ i < next' <=>
                  (\E w \in Workers : InProgress(w)' /\ i = idx'[w]) \/ i \in DOMAIN outcome'
    PROVE  ClaimedOnce'
<1>1. ASSUME NEW i
      PROVE  /\ i \in {j \in 0..Len(items') - 1 : j < next'} <=> i \in 0..Len(items') - 1 /\ i < next'
             /\ i \in {idx'[w] : w \in {u \in Workers : InProgress(u)'}} \cup DOMAIN outcome' <=>
                  (\E w \in Workers : InProgress(w)' /\ i = idx'[w]) \/ i \in DOMAIN outcome'
  OBVIOUS
<1> QED BY <1>1 DEF ClaimedOnce

LEMMA ClaimedOnceStep ==
    ASSUME WalkInv, Shapes, Phases, Claims, ClaimedOnce, Next
    PROVE  ClaimedOnce'
<1>1. Len(items) \in Nat /\ next \in Nat
  BY PathsGrow DEF Shapes
<1>2. CASE main = "walk" /\ Idle /\ UNCHANGED <<only, main, turn, agg, report, workerVars>>
  <2>1. /\ next' = 0 /\ DOMAIN outcome' = {} /\ \A w \in Workers : pc'[w] = "unborn"
    BY <1>2 DEF Idle, workerVars
  <2>2. \A w \in Workers : ~InProgress(w)'
    BY <2>1 DEF InProgress
  <2>3. Len(items') \in Nat
    BY PathsGrow
  <2> QED BY <2>1, <2>2, <2>3, ClaimedElementsNext
<1>3. CASE items' = items
  <2>0. /\ idx \in [Workers -> Nat] /\ pc \in [Workers -> Labels]
        /\ \A w, u \in Workers : InProgress(w) /\ InProgress(u) /\ idx[w] = idx[u] => w = u
        /\ \A w \in Workers : InProgress(w) => idx[w] \notin DOMAIN outcome
        /\ \A i : i \in 0..Len(items) - 1 /\ i < next <=>
                  (\E w \in Workers : InProgress(w) /\ i = idx[w]) \/ i \in DOMAIN outcome
    BY ClaimedElements DEF Shapes
  <2>1. ASSUME \A u \in Workers : InProgress(u)' <=> InProgress(u),
               UNCHANGED <<next, idx, outcome>>
        PROVE  ClaimedOnce'
    BY <1>3, <2>0, <2>1, ClaimedElementsNext
  <2>2. ASSUME NEW w \in Workers, Worker(w) PROVE ClaimedOnce'
    <3>1. CASE Claim(w)
      <4>1. /\ pc[w] = "claim" /\ next' = next + 1 /\ idx'[w] = next /\ outcome' = outcome
            /\ \A u \in Workers : u # w => idx'[u] = idx[u]
        BY <2>0, <3>1 DEF Claim
      <4>2. CASE next >= Len(items)
        <5>1. Hop(w, "claim", "done")
          BY <2>2, <3>1, <4>2, WorkerMoves
        <5>2. \A u \in Workers : (InProgress(u)' <=> InProgress(u)) /\ (InProgress(u) => u # w)
          BY <5>1 DEF Hop, InProgress
        <5>3. \A i : i \in 0..Len(items) - 1 /\ i < next' <=> i \in 0..Len(items) - 1 /\ i < next
          BY <1>1, <4>1, <4>2
        <5> QED BY <1>3, <2>0, <4>1, <5>2, <5>3, ClaimedElementsNext
      <4>3. CASE ~(next >= Len(items))
        <5>1. Hop(w, "claim", "open")
          BY <2>2, <3>1, <4>3, WorkerMoves
        <5>2. InProgress(w)' /\ ~InProgress(w)
              /\ \A u \in Workers : u # w => (InProgress(u)' <=> InProgress(u))
          BY <5>1 DEF Hop, InProgress
        <5>3. \A i : i \in 0..Len(items) - 1 /\ i < next' <=>
                       (i \in 0..Len(items) - 1 /\ i < next) \/ i = next
          BY <1>1, <4>1, <4>3
        <5>4. next \notin DOMAIN outcome /\ \A u \in Workers : InProgress(u) => idx[u] # next
          BY <1>1, <2>0
        <5>5. \A u, v \in Workers : InProgress(u)' /\ InProgress(v)' /\ idx'[u] = idx'[v] => u = v
          BY <2>0, <4>1, <5>2, <5>4
        <5>6. \A u \in Workers : InProgress(u)' => idx'[u] \notin DOMAIN outcome'
          BY <2>0, <4>1, <5>2, <5>4
        <5>7. ASSUME NEW i
              PROVE  (\E u \in Workers : InProgress(u)' /\ i = idx'[u]) <=>
                       (\E u \in Workers : InProgress(u) /\ i = idx[u]) \/ i = next
          BY <4>1, <5>2
        <5>8. \A i : i \in 0..Len(items') - 1 /\ i < next' <=>
                  (\E u \in Workers : InProgress(u)' /\ i = idx'[u]) \/ i \in DOMAIN outcome'
          BY <1>3, <2>0, <4>1, <5>3, <5>7
        <5> QED BY <5>5, <5>6, <5>8, ClaimedElementsNext
      <4> QED BY <4>2, <4>3
    <3>2. ASSUME NEW m, Settle(w, m), InProgress(w), ~InProgress(w)',
                 \A u \in Workers : u # w => (InProgress(u)' <=> InProgress(u)),
                 UNCHANGED <<next, idx>>
          PROVE  ClaimedOnce'
      <4>1. DOMAIN outcome' = DOMAIN outcome \cup {idx[w]}
        BY <3>2 DEF Settle
      <4>2. \A u, v \in Workers : InProgress(u)' /\ InProgress(v)' /\ idx'[u] = idx'[v] => u = v
        BY <2>0, <3>2
      <4>3. \A u \in Workers : InProgress(u)' => idx'[u] \notin DOMAIN outcome'
        BY <2>0, <3>2, <4>1
      <4>4. ASSUME NEW i
            PROVE  (\E u \in Workers : InProgress(u)' /\ i = idx'[u]) \/ i \in DOMAIN outcome' <=>
                   (\E u \in Workers : InProgress(u) /\ i = idx[u]) \/ i \in DOMAIN outcome
        BY <3>2, <4>1
      <4> QED BY <1>3, <2>0, <3>2, <4>2, <4>3, <4>4, ClaimedElementsNext
    <3>3. CASE OpenFails(w)
      <4>1. Hop(w, "open", "claim")
        BY <2>2, <3>3, WorkerMoves
      <4> QED BY <3>2, <3>3, <4>1 DEF OpenFails, Hop, InProgress
    <3>4. CASE TakeDigests(w)
      <4>1. Hop(w, "read", "count")
        BY <2>2, <3>4, WorkerMoves
      <4>2. /\ Settle(w, SubSeq(Content[Path(w)], 1, pos[w])) /\ UNCHANGED <<next, idx>>
        BY <3>4 DEF TakeDigests
      <4> QED BY <3>2, <4>1, <4>2 DEF Hop, InProgress
    <3>5. CASE UseNoContext(w)
      BY <2>1, <3>5 DEF UseNoContext, Crash, workerVars, InProgress
    <3>6. CASE ~Claim(w) /\ ~OpenFails(w) /\ ~TakeDigests(w) /\ ~UseNoContext(w)
      <4>1. UNCHANGED <<next, idx, outcome>>
        BY <2>2, <3>6 DEF Worker, Setup, Open, ReadChunk, Count, Exit
      <4>2. \/ Hop(w, "born", "claim") \/ Hop(w, "born", "done") \/ Hop(w, "open", "read")
            \/ Hop(w, "read", "read") \/ Hop(w, "count", "claim") \/ Hop(w, "done", "exited")
        BY <2>2, <3>6, WorkerMoves DEF Worker
      <4>3. \A u \in Workers : InProgress(u)' <=> InProgress(u)
        BY <4>2 DEF Hop, InProgress
      <4> QED BY <2>1, <4>1, <4>3
    <3> QED BY <3>1, <3>3, <3>4, <3>5, <3>6
  <2>3. ASSUME Main PROVE ClaimedOnce'
    <3>1. UNCHANGED <<next, idx, outcome>>
      BY <2>3 DEF Main, Select, TakeWalk, EndWalk, Spawn, Join, JoinNoThread,
         JoinTwice, Aggregate, Report, Crash, workerVars
    <3>2. \A u \in Workers : InProgress(u)' <=> InProgress(u)
      BY <2>3, SpawnsOnly DEF InProgress
    <3> QED BY <2>1, <3>1, <3>2
  <2> QED BY <2>2, <2>3 DEF Next
<1> QED BY <1>2, <1>3, PathsGrow
-----------------------------------------------------------------------------
(* What is read *)

\* A worker's contexts have taken in the first n bytes of what path p names.
ReadSoFar(p, n, h) ==
    /\ p \in DOMAIN Content /\ n <= Len(Content[p])
    /\ h # NULL => \A i \in Active : \E b \in Vtables :
         Forwards(g_hashes[i], b) /\ Streams(b, h[i], SubSeq(Content[p], 1, n))

LEMMA ReadFromStart ==
    ASSUME WalkInv, Claims, NEW w \in Workers, pc[w] = "open", idx[w] \in Nat,
           Path(w) # NULL, NEW c \in Contexts
    PROVE  ReadSoFar(Path(w), 0, c)
<1>1. idx[w] + 1 \in 1..Len(items) /\ items \in Seq(Walk!Files \cup {NULL})
  BY DEF Claims, InProgress, WalkInv, Walk!TypeOK
<1>2. Path(w) \in Walk!Files
  BY <1>1 DEF Path
<1>3. Path(w) \in DOMAIN Content /\ Content[Path(w)] \in Seq(Byte)
  BY <1>2, ContentAssumption DEF Walk!Files, Walk!Nodes
<1>4. Len(Content[Path(w)]) >= 0 /\ SubSeq(Content[Path(w)], 1, 0) = << >>
  BY <1>3
<1>5. ASSUME NEW i \in Active, c # NULL
      PROVE  \E b \in Vtables : Forwards(g_hashes[i], b) /\ Streams(b, c[i], << >>)
  <2>1. PICK b \in Vtables : Forwards(g_hashes[i], b)
    BY Plugins DEF Active
  <2>2. c[i] = new_state(g_hashes[i].new_state)
    BY <1>5 DEF Contexts
  <2> QED BY <2>1, <2>2, NewStreams DEF Forwards
<1> QED BY <1>3, <1>4, <1>5 DEF ReadSoFar

LEMMA ReadOn ==
    ASSUME NEW p, NEW n \in Nat, NEW h, h # NULL, ReadSoFar(p, n, h),
           NEW k \in Nat, n + k <= Len(Content[p])
    PROVE  ReadSoFar(p, n + k, [i \in Active |-> update(g_hashes[i].update, h[i],
                                                        SubSeq(Content[p], n + 1, n + k))])
<1> DEFINE g == [i \in Active |-> update(g_hashes[i].update, h[i],
                                         SubSeq(Content[p], n + 1, n + k))]
           bytes == SubSeq(Content[p], n + 1, n + k)
<1>1. Content[p] \in Seq(Byte) /\ p \in DOMAIN Content
  BY ContentAssumption DEF ReadSoFar
<1>2. /\ bytes \in Seq(Byte) /\ SubSeq(Content[p], 1, n) \in Seq(Byte)
      /\ SubSeq(Content[p], 1, n) \o bytes = SubSeq(Content[p], 1, n + k)
  <2>1. SubSeq(Content[p], 1, n) \in Seq(Byte)
    BY <1>1 DEF ReadSoFar
  <2> QED BY <1>1, <2>1, NextBytes
<1>3. \A i \in Active : g[i] = update(g_hashes[i].update, h[i], bytes)
  OBVIOUS
<1> HIDE DEF g, bytes
<1>4. ASSUME NEW i \in Active
      PROVE  \E b \in Vtables : /\ Forwards(g_hashes[i], b)
                                /\ Streams(b, g[i], SubSeq(Content[p], 1, n + k))
  <2>1. PICK b \in Vtables : /\ Forwards(g_hashes[i], b)
                             /\ Streams(b, h[i], SubSeq(Content[p], 1, n))
    BY DEF ReadSoFar
  <2>2. g[i] = update(b, h[i], bytes)
    BY <1>3, <2>1 DEF Forwards
  <2>3. Streams(b, update(b, h[i], bytes), SubSeq(Content[p], 1, n) \o bytes)
    BY <1>2, <2>1, UpdateStreams
  <2> QED BY <1>2, <2>1, <2>2, <2>3
<1>5. ReadSoFar(p, n + k, g)
  BY <1>1, <1>4 DEF ReadSoFar
<1> QED BY <1>5 DEF g, bytes

LEMMA ReadingStep ==
    ASSUME WalkInv, Shapes, Phases, Claims, Reading, Next
    PROVE  Reading'
<1>1. CASE main = "walk" /\ Idle /\ UNCHANGED <<only, main, turn, agg, report, workerVars>>
  <2>1. \A w \in Workers : pc'[w] = "unborn"
    BY <1>1 DEF Idle, workerVars
  <2> QED BY <2>1 DEF Reading
<1>2. CASE items' = items
  <2>0. /\ idx \in [Workers -> Nat] /\ pos \in [Workers -> Nat]
        /\ hstate = [w \in Workers |-> hstate[w]] /\ pc \in [Workers -> Labels]
    BY DEF Shapes
  <2>1. only' = only /\ Active' = Active
    <3>1. only' = only
      BY DEF Next, Worker, Setup, Claim, Open, OpenFails, UseNoContext, ReadChunk,
         TakeDigests, Count, Exit, Crash, mainVars, Main, Select, TakeWalk, EndWalk, Spawn,
         Join, JoinNoThread, JoinTwice, Aggregate, Report
    <3> QED BY <3>1 DEF Active
  <2>2. Reading <=> \A u \in Workers : pc[u] = "read" => ReadSoFar(Path(u), pos[u], hstate[u])
    BY DEF Reading, ReadSoFar
  <2>3. ASSUME \A u \in Workers : pc'[u] = "read" => ReadSoFar(Path(u)', pos'[u], hstate'[u])
        PROVE  Reading'
    BY <2>1, <2>3 DEF Reading, ReadSoFar
  <2>4. \A u \in Workers : idx'[u] = idx[u] => Path(u)' = Path(u)
    BY <1>2 DEF Path
  <2>5. ASSUME NEW w \in Workers, Worker(w) PROVE Reading'
    <3>1. CASE UseNoContext(w)
      BY <2>2, <2>3, <2>4, <3>1 DEF UseNoContext, Crash, workerVars
    <3>2. CASE ~UseNoContext(w)
      <4>1. ASSUME NEW u \in Workers, u # w
            PROVE  idx'[u] = idx[u] /\ pos'[u] = pos[u] /\ hstate'[u] = hstate[u] /\ pc'[u] = pc[u]
        <5>1. pc'[u] = pc[u]
          BY <2>5, <3>2, <4>1, WorkerMoves DEF Worker, Hop
        <5>2. idx'[u] = idx[u]
          BY <2>0, <2>5, <3>2, <4>1 DEF Worker, Setup, Claim, Open, OpenFails, ReadChunk,
             TakeDigests, Count, Exit
        <5>3. hstate'[u] = hstate[u]
          BY <2>0, <2>5, <3>2, <4>1 DEF Worker, Setup, Claim, Open, OpenFails, ReadChunk,
             TakeDigests, Count, Exit
        <5>4. pos'[u] = pos[u]
          BY <2>0, <2>5, <3>2, <4>1 DEF Worker, Setup, Claim, Open, OpenFails, ReadChunk,
             TakeDigests, Count, Exit
        <5> QED BY <5>1, <5>2, <5>3, <5>4
      <4>2. ASSUME pc'[w] = "read" PROVE ReadSoFar(Path(w)', pos'[w], hstate'[w])
        <5>1. Open(w) \/ ReadChunk(w)
          BY <2>5, <3>2, <4>2, WorkerMoves DEF Worker, Hop
        <5>2. CASE Open(w)
          <6>1. PICK c \in Contexts : hstate' = [hstate EXCEPT ![w] = c]
            BY <5>2 DEF Open
          <6>2. hstate'[w] = c
            BY <2>0, <6>1
          <6>3. pos'[w] = 0 /\ Path(w)' = Path(w) /\ pc[w] = "open" /\ Path(w) # NULL
            BY <2>0, <2>4, <5>2 DEF Open
          <6> QED BY <2>0, <6>2, <6>3, ReadFromStart
        <5>3. CASE ReadChunk(w)
          <6> DEFINE bytes(k) == SubSeq(Content[Path(w)], pos[w] + 1, pos[w] + k)
                     fed(k) == [i \in Active |-> update(g_hashes[i].update, hstate[w][i], bytes(k))]
          <6>1. PICK k \in 1..CHUNK : /\ pos[w] + k <= Len(Content[Path(w)])
                                      /\ hstate' = [hstate EXCEPT ![w] = fed(k)]
                                      /\ pos' = [pos EXCEPT ![w] = @ + k]
            BY <5>3 DEF ReadChunk
          <6>2. k \in Nat
            BY ChunkAssumption
          <6>3. pos'[w] = pos[w] + k
            BY <2>0, <6>1
          <6>4. /\ pc[w] = "read" /\ hstate[w] # NULL /\ Path(w)' = Path(w)
                /\ ReadSoFar(Path(w), pos[w], hstate[w])
            BY <2>2, <2>4, <5>3 DEF ReadChunk
          <6>5. ReadSoFar(Path(w), pos[w] + k, fed(k))
            BY <2>0, <6>1, <6>2, <6>4, ReadOn
          <6> HIDE DEF fed
          <6>6. hstate'[w] = fed(k)
            BY <2>0, <6>1
          <6> QED BY <6>3, <6>4, <6>5, <6>6
        <5> QED BY <5>1, <5>2, <5>3
      <4> QED BY <2>2, <2>3, <2>4, <4>1, <4>2
    <3> QED BY <3>1, <3>2
  <2>6. ASSUME Main PROVE Reading'
    <3>1. UNCHANGED <<idx, pos, hstate>>
      BY <2>6 DEF Main, Select, TakeWalk, EndWalk, Spawn, Join, JoinNoThread,
         JoinTwice, Aggregate, Report, Crash, workerVars
    <3>2. \A u \in Workers : pc'[u] = "read" => pc[u] = "read"
      BY <2>6, SpawnsOnly
    <3> QED BY <2>2, <2>3, <2>4, <3>1, <3>2
  <2> QED BY <2>5, <2>6 DEF Next
<1> QED BY <1>1, <1>2, PathsGrow
-----------------------------------------------------------------------------
(* What is counted *)

LEMMA HashedFinite ==
    ASSUME ClaimedOnce, Len(items) \in Nat
    PROVE  IsFiniteSet(Hashed) /\ Cardinality(Hashed) \in Nat
<1>1. Hashed \subseteq 0..Len(items) - 1
  BY ClaimedElements DEF Hashed
<1>2. IsFiniteSet(0..Len(items) - 1)
  BY FS_Interval
<1> QED BY <1>1, <1>2, FS_Subset, FS_CardinalityType

\* A file that was hashed is one more; one that could not be opened is not.
LEMMA HashedSettled ==
    ASSUME NEW w \in Workers, NEW m, Settle(w, m), idx[w] \notin DOMAIN outcome
    PROVE  /\ m # NULL => Hashed' = Hashed \cup {idx[w]} /\ idx[w] \notin Hashed
           /\ m = NULL => Hashed' = Hashed
           /\ \A p \in Hashed : outcome'[p] = outcome[p]
           /\ outcome'[idx[w]] = m
<1>1. /\ DOMAIN outcome' = DOMAIN outcome \cup {idx[w]} /\ outcome'[idx[w]] = m
      /\ \A p \in DOMAIN outcome : outcome'[p] = outcome[p]
  BY DEF Settle
<1>2. ASSUME NEW p
      PROVE  p \in Hashed' <=> p \in Hashed \/ (p = idx[w] /\ m # NULL)
  BY <1>1 DEF Hashed
<1> QED BY <1>1, <1>2 DEF Hashed

LEMMA CountingHop ==
    ASSUME NEW w \in Workers, NEW from, NEW to, Hop(w, from, to)
    PROVE  /\ Cardinality(Counting) \in Nat
           /\ from # "count" /\ to = "count" => Cardinality(Counting') = Cardinality(Counting) + 1
           /\ from = "count" /\ to # "count" => Cardinality(Counting') = Cardinality(Counting) - 1
           /\ from # "count" /\ to # "count" => Counting' = Counting
<1>1. IsFiniteSet(Counting) /\ Cardinality(Counting) \in Nat
  BY WorkersFinite DEF Counting
<1>2. ASSUME from # "count", to = "count"
      PROVE  Cardinality(Counting') = Cardinality(Counting) + 1
  <2>1. w \notin Counting /\ Counting' = Counting \cup {w}
    BY <1>2 DEF Counting, Hop
  <2> QED BY <1>1, <2>1, OneMore
<1>3. ASSUME from = "count", to # "count"
      PROVE  Cardinality(Counting') = Cardinality(Counting) - 1
  <2>1. w \in Counting /\ Counting' = Counting \ {w}
    BY <1>3 DEF Counting, Hop
  <2> QED BY <1>1, <2>1, OneLess
<1>4. ASSUME from # "count", to # "count" PROVE Counting' = Counting
  BY <1>4 DEF Counting, Hop
<1> QED BY <1>1, <1>2, <1>3, <1>4

\* The workers' steps, by what becomes of the files hashed.
LEMMA WorkerCounts ==
    ASSUME WalkInv, Shapes, ClaimedOnce, Reading, NEW w \in Workers, Worker(w)
    PROVE  \/ /\ TakeDigests(w) /\ Hop(w, "read", "count") /\ UNCHANGED files_done
              /\ files_hashed' = [files_hashed EXCEPT ![w] = @ + 1]
              /\ Settle(w, SubSeq(Content[Path(w)], 1, pos[w]))
              /\ idx[w] \notin Hashed /\ Hashed' = Hashed \cup {idx[w]}
              /\ outcome'[idx[w]] = SubSeq(Content[Path(w)], 1, pos[w])
              /\ \A p \in Hashed : outcome'[p] = outcome[p]
           \/ /\ UNCHANGED <<files_hashed, fingerprint>> /\ Hashed' = Hashed
              /\ \A p \in Hashed : outcome'[p] = outcome[p]
              /\ \/ Hop(w, "count", "claim") /\ files_done' = files_done + 1
                 \/ Counting' = Counting /\ UNCHANGED files_done
<1>1. CASE TakeDigests(w)
  <2> DEFINE m == SubSeq(Content[Path(w)], 1, pos[w])
  <2>1. /\ Hop(w, "read", "count") /\ UNCHANGED files_done /\ hstate[w] # NULL
        /\ files_hashed' = [files_hashed EXCEPT ![w] = @ + 1] /\ Settle(w, m)
    BY <1>1, WorkerMoves DEF TakeDigests
  <2>2. pc[w] = "read" /\ pos[w] \in Nat
    BY <2>1 DEF Hop, Shapes
  <2>3. m # NULL
    BY <2>1, <2>2, DigestTaken
  <2>4. idx[w] \notin DOMAIN outcome
    BY <2>2 DEF ClaimedOnce, InProgress
  <2> HIDE DEF m
  <2>5. /\ Hashed' = Hashed \cup {idx[w]} /\ idx[w] \notin Hashed /\ outcome'[idx[w]] = m
        /\ \A p \in Hashed : outcome'[p] = outcome[p]
    BY <2>1, <2>3, <2>4, HashedSettled
  <2> QED BY <1>1, <2>1, <2>5 DEF m
<1>2. CASE OpenFails(w)
  <2>1. /\ UNCHANGED <<files_hashed, fingerprint, files_done>> /\ Settle(w, NULL)
        /\ Hop(w, "open", "claim")
    BY <1>2, WorkerMoves DEF OpenFails, counters
  <2>2. idx[w] \notin DOMAIN outcome
    BY <2>1 DEF Hop, ClaimedOnce, InProgress
  <2>3. Hashed' = Hashed /\ \A p \in Hashed : outcome'[p] = outcome[p]
    BY <2>1, <2>2, HashedSettled
  <2>4. Counting' = Counting
    BY <2>1, CountingHop
  <2> QED BY <2>1, <2>3, <2>4
<1>3. CASE ~TakeDigests(w) /\ ~OpenFails(w)
  <2>1. UNCHANGED <<files_hashed, fingerprint, outcome>>
    BY <1>3 DEF Worker, Setup, Claim, Open, UseNoContext, ReadChunk, Count, Exit, Crash,
       workerVars, counters
  <2>2. Hashed' = Hashed /\ \A p \in Hashed : outcome'[p] = outcome[p]
    BY <2>1 DEF Hashed
  <2>3. CASE Count(w)
    BY <2>1, <2>2, <2>3, WorkerMoves DEF Count
  <2>4. CASE UseNoContext(w)
    BY <2>1, <2>2, <2>4 DEF UseNoContext, Crash, workerVars, Counting
  <2>5. CASE ~Count(w) /\ ~UseNoContext(w)
    <3>1. UNCHANGED files_done
      BY <1>3, <2>5 DEF Worker, Setup, Claim, Open, ReadChunk, Exit
    <3>2. \/ Hop(w, "born", "claim") \/ Hop(w, "born", "done") \/ Hop(w, "open", "read")
          \/ Hop(w, "read", "read") \/ Hop(w, "done", "exited")
          \/ Hop(w, "claim", "done") \/ Hop(w, "claim", "open")
      BY <1>3, <2>5, WorkerMoves DEF Worker
    <3>3. Counting' = Counting
      BY <3>2, CountingHop
    <3> QED BY <2>1, <2>2, <3>1, <3>3
  <2> QED BY <2>3, <2>4, <2>5
<1> QED BY <1>1, <1>2, <1>3

LEMMA MainCounts ==
    ASSUME Shapes, Phases, Main
    PROVE  /\ UNCHANGED <<files_done, files_hashed, fingerprint, outcome>>
           /\ Hashed' = Hashed /\ Counting' = Counting
<1>1. UNCHANGED <<files_done, files_hashed, fingerprint, outcome>>
  BY DEF Main, Select, TakeWalk, EndWalk, Spawn, Join, JoinNoThread, JoinTwice,
     Aggregate, Report, Crash, workerVars, counters
<1>2. \A u \in Workers : pc'[u] = "count" <=> pc[u] = "count"
  BY SpawnsOnly
<1> QED BY <1>1, <1>2 DEF Hashed, Counting

LEMMA DoneStep ==
    ASSUME WalkInv, Shapes, Phases, ClaimedOnce, Reading, Next,
           files_done + Cardinality(Counting) = Cardinality(Hashed)
    PROVE  files_done' + Cardinality(Counting') = Cardinality(Hashed')
<1>1. /\ files_done \in Nat /\ IsFiniteSet(Hashed) /\ Cardinality(Hashed) \in Nat
      /\ Cardinality(Counting) \in Nat
  <2>1. Len(items) \in Nat
    BY PathsGrow
  <2>2. Cardinality(Counting) \in Nat
    BY WorkersFinite DEF Counting
  <2> QED BY <2>1, <2>2, HashedFinite DEF Shapes
<1>2. ASSUME NEW w \in Workers, Worker(w)
      PROVE  files_done' + Cardinality(Counting') = Cardinality(Hashed')
  <2>1. CASE /\ Hop(w, "read", "count") /\ UNCHANGED files_done
             /\ idx[w] \notin Hashed /\ Hashed' = Hashed \cup {idx[w]}
    <3>1. Cardinality(Hashed') = Cardinality(Hashed) + 1
      BY <1>1, <2>1, OneMore
    <3>2. Cardinality(Counting') = Cardinality(Counting) + 1
      BY <2>1, CountingHop
    <3> QED BY <1>1, <2>1, <3>1, <3>2
  <2>2. CASE Hop(w, "count", "claim") /\ files_done' = files_done + 1 /\ Hashed' = Hashed
    <3>1. Cardinality(Counting') = Cardinality(Counting) - 1
      BY <2>2, CountingHop
    <3> QED BY <1>1, <2>2, <3>1
  <2>3. CASE Counting' = Counting /\ UNCHANGED files_done /\ Hashed' = Hashed
    BY <2>3
  <2> QED BY <1>2, <2>1, <2>2, <2>3, WorkerCounts
<1>3. ASSUME Main PROVE files_done' + Cardinality(Counting') = Cardinality(Hashed')
  BY <1>3, MainCounts
<1> QED BY <1>2, <1>3 DEF Next

LEMMA SumsStep ==
    ASSUME WalkInv, Shapes, Phases, ClaimedOnce, Reading, Next, NEW sum, PrefixSums(sum)
    PROVE  \E s : PrefixSums(s)'
<1>0. /\ turn \in Workers /\ Workers = 1..Threads /\ Threads \in Nat \ {0}
      /\ IsFiniteSet(Hashed) /\ Cardinality(Hashed) \in Nat
      /\ files_hashed \in [Workers -> Nat]
  <2>1. Len(items) \in Nat
    BY PathsGrow
  <2> QED BY <2>1, HashedFinite, ThreadsAssumption DEF Shapes, Workers
<1>1. ASSUME NEW w \in Workers, Worker(w) PROVE \E s : PrefixSums(s)'
  <2>1. pc[w] \notin {"unborn", "exited"}
    BY <1>1 DEF Worker, Setup, Claim, Open, OpenFails, UseNoContext, ReadChunk,
         TakeDigests, Count, Exit
  <2>2. main \notin {"sum", "report", "reported", "crashed"}
    BY <1>1, <2>1 DEF Phases, Over, Worker
  <2>3. agg.files = 0
    BY <2>2 DEF PrefixSums
  <2>4. UNCHANGED agg /\ (UNCHANGED main \/ main' = "crashed")
    BY <1>1 DEF Worker, Setup, Claim, Open, OpenFails, UseNoContext, ReadChunk,
       TakeDigests, Count, Exit, Crash, mainVars
  <2>5. CASE files_hashed' = files_hashed /\ Hashed' = Hashed
    <3>1. PrefixSums(sum)'
      BY <2>2, <2>3, <2>4, <2>5 DEF PrefixSums
    <3> QED BY <3>1
  <2>6. CASE /\ files_hashed' = [files_hashed EXCEPT ![w] = @ + 1]
             /\ idx[w] \notin Hashed /\ Hashed' = Hashed \cup {idx[w]}
    <3> DEFINE more == [k \in 0..Threads |-> IF k >= w THEN sum[k] + 1 ELSE sum[k]]
    <3>1. Cardinality(Hashed') = Cardinality(Hashed) + 1
      BY <1>0, <2>6, OneMore
    <3>2. /\ w \in Nat /\ w >= 1 /\ w <= Threads /\ Threads \in Nat
          /\ sum \in [0..Threads -> Nat] /\ sum[0] = 0 /\ sum[Threads] = Cardinality(Hashed)
      BY <1>0 DEF PrefixSums
    <3>3. more \in [0..Threads -> Nat] /\ more[0] = 0 /\ more[Threads] = Cardinality(Hashed')
      BY <3>1, <3>2
    <3>4. \A k \in 0..Threads : more[k] = IF k >= w THEN sum[k] + 1 ELSE sum[k]
      OBVIOUS
    <3> HIDE DEF more
    <3>5. ASSUME NEW k \in Workers PROVE more[k] = more[k - 1] + files_hashed'[k]
      <4>1. /\ k \in 0..Threads /\ k - 1 \in 0..Threads /\ k \in Nat
            /\ sum[k] = sum[k - 1] + files_hashed[k]
            /\ sum[k] \in Nat /\ sum[k - 1] \in Nat /\ files_hashed[k] \in Nat
        BY <1>0, <3>2 DEF PrefixSums
      <4>2. files_hashed'[k] = IF k = w THEN files_hashed[k] + 1 ELSE files_hashed[k]
        BY <1>0, <2>6
      <4>3. CASE k < w
        BY <3>2, <3>4, <4>1, <4>2, <4>3
      <4>4. CASE k = w
        BY <3>2, <3>4, <4>1, <4>2, <4>4
      <4>5. CASE k > w
        <5>1. k >= w /\ k - 1 >= w /\ k # w
          BY <3>2, <4>1, <4>5
        <5>2. more[k] = sum[k] + 1 /\ more[k - 1] = sum[k - 1] + 1
          BY <3>4, <4>1, <5>1
        <5>3. files_hashed'[k] = files_hashed[k]
          BY <4>2, <5>1
        <5> QED BY <4>1, <5>2, <5>3
      <4> QED BY <3>2, <4>1, <4>3, <4>4, <4>5
    <3>6. PrefixSums(more)'
      BY <2>2, <2>3, <2>4, <3>3, <3>5 DEF PrefixSums
    <3> QED BY <3>6
  <2> QED BY <1>1, <2>5, <2>6, WorkerCounts
<1>2. ASSUME Main PROVE PrefixSums(sum)'
  <2>1. files_hashed' = files_hashed /\ Hashed' = Hashed
    BY <1>2, MainCounts
  <2>2. ASSUME main' \notin {"sum", "report", "reported", "crashed"} PROVE agg'.files = 0
    <3>1. main \notin {"sum", "report", "reported", "crashed"} /\ agg' = agg
      BY <1>2, <2>2 DEF Main, Select, TakeWalk, EndWalk, Spawn, Join, JoinNoThread,
         JoinTwice, Aggregate, Report, Crash, Advance
    <3> QED BY <3>1 DEF PrefixSums
  <2>3. CASE Aggregate
    <3>1. agg'.files = agg.files + files_hashed[turn] /\ main = "sum"
      BY <2>3 DEF Aggregate
    <3>2. agg'.files = sum[turn]
      BY <3>1 DEF PrefixSums, Shapes
    <3>3. \/ turn' = turn + 1 /\ main' = "sum"
          \/ turn = Threads /\ main' = "report"
      BY <1>0, <2>3 DEF Aggregate, Advance
    <3>4. main' = "sum" => agg'.files = sum[turn' - 1]
      BY <1>0, <3>2, <3>3
    <3> QED BY <2>1, <2>2, <3>2, <3>3, <3>4 DEF PrefixSums
  <2>4. CASE ~Aggregate
    <3>1. ASSUME main' = "sum" PROVE agg'.files = sum[turn' - 1]
      <4>1. main = "join" /\ agg' = agg /\ turn' = 1
        BY <1>2, <2>4, <3>1 DEF Main, Select, TakeWalk, EndWalk, Spawn, Join,
           JoinNoThread, JoinTwice, Report, Crash, Advance
      <4> QED BY <4>1 DEF PrefixSums
    <3>2. ASSUME main' \in {"report", "reported"} PROVE agg'.files = sum[Threads]
      <4>1. main = "report" /\ agg' = agg
        BY <1>2, <2>4, <3>2 DEF Main, Select, TakeWalk, EndWalk, Spawn, Join,
           JoinNoThread, JoinTwice, Report, Crash, Advance
      <4> QED BY <4>1 DEF PrefixSums
    <3> QED BY <2>1, <2>2, <3>1, <3>2 DEF PrefixSums
  <2> QED BY <2>3, <2>4
<1> QED BY <1>1, <1>2 DEF Next

\* The workers whose accumulator for hash i holds d, and the files that had it.
Holders(i, d) == {w \in Workers : d \in fingerprint[w][i]}
Sources(i, d) == {p \in Hashed : d = DigestOf(i, outcome[p])}

LEMMA ParityStep ==
    ASSUME WalkInv, Shapes, Phases, ClaimedOnce, Reading, Parity, Next
    PROVE  Parity'
<1>0. /\ IsFiniteSet(Hashed) /\ Cardinality(Hashed) \in Nat
  <2>1. Len(items) \in Nat
    BY PathsGrow
  <2> QED BY <2>1, HashedFinite
<1>1. only' = only /\ Active' = Active
  <2>1. only' = only
    BY DEF Next, Worker, Setup, Claim, Open, OpenFails, UseNoContext, ReadChunk,
       TakeDigests, Count, Exit, Crash, mainVars, Main, Select, TakeWalk, EndWalk, Spawn,
       Join, JoinNoThread, JoinTwice, Aggregate, Report
  <2> QED BY <2>1 DEF Active
<1>2. \A i \in Active : \A d :
        Cardinality(Holders(i, d)) % 2 = Cardinality(Sources(i, d)) % 2
  BY DEF Parity, Holders, Sources
<1>3. ASSUME \A i \in Active : \A d :
                Cardinality(Holders(i, d)') % 2 = Cardinality(Sources(i, d)') % 2
      PROVE  Parity'
  BY <1>1, <1>3 DEF Parity, Holders, Sources
<1>4. ASSUME NEW i \in Active, NEW d
      PROVE  /\ IsFiniteSet(Holders(i, d)) /\ Cardinality(Holders(i, d)) \in Nat
             /\ IsFiniteSet(Sources(i, d)) /\ Cardinality(Sources(i, d)) \in Nat
  <2>1. Holders(i, d) \in SUBSET Workers /\ Sources(i, d) \subseteq Hashed
    BY DEF Holders, Sources
  <2>2. IsFiniteSet(Sources(i, d)) /\ Cardinality(Sources(i, d)) \in Nat
    BY <1>0, <2>1, FS_Subset, FS_CardinalityType
  <2> QED BY <2>1, <2>2, WorkersFinite
<1>5. ASSUME UNCHANGED fingerprint, Hashed' = Hashed, \A p \in Hashed : outcome'[p] = outcome[p]
      PROVE  Parity'
  <2>1. \A i, d : Holders(i, d)' = Holders(i, d) /\ Sources(i, d)' = Sources(i, d)
    BY <1>5 DEF Holders, Sources
  <2> QED BY <1>2, <1>3, <2>1
<1>6. ASSUME NEW w \in Workers, TakeDigests(w), Hop(w, "read", "count"),
             NEW m, m = SubSeq(Content[Path(w)], 1, pos[w]),
             idx[w] \notin Hashed, Hashed' = Hashed \cup {idx[w]}, outcome'[idx[w]] = m,
             \A p \in Hashed : outcome'[p] = outcome[p]
      PROVE  Parity'
  <2>1. ASSUME NEW i \in Active, NEW d
        PROVE  Cardinality(Holders(i, d)') % 2 = Cardinality(Sources(i, d)') % 2
    <3>1. Digested(g_hashes[i], hstate[w][i]) = DigestOf(i, m)
      BY <1>6, DigestTaken DEF Hop, Shapes, TakeDigests
    <3>2. /\ fingerprint'[w][i] = Xor(fingerprint[w][i], {DigestOf(i, m)})
          /\ \A u \in Workers : u # w => fingerprint'[u] = fingerprint[u]
      BY <1>6, <3>1 DEF TakeDigests, Shapes
    <3>3. \A u \in Workers : d \in fingerprint'[u][i] <=>
            IF u = w /\ d = DigestOf(i, m) THEN d \notin fingerprint[u][i]
            ELSE d \in fingerprint[u][i]
      BY <3>2 DEF Xor
    <3>4. CASE d # DigestOf(i, m)
      <4>1. Holders(i, d)' = Holders(i, d)
        BY <3>3, <3>4 DEF Holders
      <4>2. Sources(i, d)' = Sources(i, d)
        BY <1>6, <3>4 DEF Sources
      <4> QED BY <1>2, <4>1, <4>2
    <3>5. CASE d = DigestOf(i, m)
      <4>1. Sources(i, d)' = Sources(i, d) \cup {idx[w]} /\ idx[w] \notin Sources(i, d)
        BY <1>6, <3>5 DEF Sources
      <4>2. Cardinality(Sources(i, d)') = Cardinality(Sources(i, d)) + 1
        BY <1>4, <4>1, OneMore
      <4>3. CASE w \in Holders(i, d)
        <5>1. Holders(i, d)' = Holders(i, d) \ {w}
          BY <3>3, <3>5, <4>3 DEF Holders
        <5>2. Cardinality(Holders(i, d)') = Cardinality(Holders(i, d)) - 1
          BY <1>4, <4>3, <5>1, OneLess
        <5> QED BY <1>2, <1>4, <4>2, <5>2
      <4>4. CASE w \notin Holders(i, d)
        <5>1. Holders(i, d)' = Holders(i, d) \cup {w}
          BY <3>3, <3>5, <4>4 DEF Holders
        <5>2. Cardinality(Holders(i, d)') = Cardinality(Holders(i, d)) + 1
          BY <1>4, <4>4, <5>1, OneMore
        <5> QED BY <1>2, <1>4, <4>2, <5>2
      <4> QED BY <4>3, <4>4
    <3> QED BY <3>4, <3>5
  <2> QED BY <1>3, <2>1
<1>7. ASSUME NEW w \in Workers, Worker(w) PROVE Parity'
  BY <1>5, <1>6, <1>7, WorkerCounts
<1>8. ASSUME Main PROVE Parity'
  <2>1. UNCHANGED fingerprint /\ Hashed' = Hashed /\ UNCHANGED outcome
    BY <1>8, MainCounts
  <2> QED BY <1>5, <2>1
<1> QED BY <1>7, <1>8 DEF Next
-----------------------------------------------------------------------------
(* The invariant holds *)

LEMMA BenchInit == Init => BenchInv
<1> SUFFICES ASSUME Init PROVE BenchInv
  OBVIOUS
<1>1. WalkInv /\ items = << >> /\ Len(items) = 0 /\ walk = "opening"
  BY WalkInit DEF Init, Walk!Init
<1>2. Threads \in Nat \ {0} /\ Workers = 1..Threads /\ 1 \in Workers
  BY ThreadsAssumption DEF Workers
<1>3. /\ DOMAIN outcome = {} /\ outcome \in [DOMAIN outcome -> Messages \cup {NULL}]
      /\ Hashed = {}
  BY DEF Init, Hashed
<1>4. Idle
  BY <1>3 DEF Init, Idle
<1>5. Shapes
  <2>1. pc \in [Workers -> Labels]
    BY DEF Init, Labels
  <2>2. /\ fingerprint \in [Workers -> [Active -> SUBSET AllDigests]]
        /\ \A w \in Workers : \A i \in Active : fingerprint[w][i] = {}
    BY DEF Init
  <2>3. /\ hstate = [w \in Workers |-> hstate[w]] /\ \A w \in Workers : hstate[w] = NULL
    BY DEF Init
  <2>4. /\ agg.files \in Nat /\ agg.bytes \in Nat
    BY DEF Init
  <2>5. /\ only \in Only /\ main = "options" /\ turn \in Workers /\ next \in Nat
        /\ files_done \in Nat /\ idx \in [Workers -> Nat] /\ pos \in [Workers -> Nat]
        /\ bytes_hashed \in [Workers -> Nat] /\ files_hashed \in [Workers -> Nat]
    BY <1>2 DEF Init
  <2> QED BY <1>3, <2>1, <2>2, <2>3, <2>4, <2>5 DEF Shapes
<1>6. Phases
  BY <1>1, <1>4 DEF Init, Phases
<1>7. \A w \in Workers : ~InProgress(w) /\ ~Busy(w) /\ pc[w] # "read"
  BY <1>4 DEF Idle, InProgress, Busy
<1>8. Claims
  <2>1. Cardinality(Gone) \in Nat
    <3>1. Gone \in SUBSET Workers
      BY DEF Gone
    <3> QED BY <3>1, WorkersFinite
  <2> QED BY <1>1, <1>2, <1>4, <1>7, <2>1 DEF Idle, Claims
<1>9. ClaimedOnce
  BY <1>1, <1>3, <1>4, <1>7, ClaimedElements DEF Idle
<1>10. Reading
  BY <1>7 DEF Reading
<1>11. Cardinality(Hashed) = 0 /\ IsFiniteSet(Hashed)
  BY <1>3, FS_EmptySet
<1>12. Counts
  <2>1. Counting = {}
    BY <1>4 DEF Idle, Counting
  <2>2. files_done + Cardinality(Counting) = Cardinality(Hashed)
    BY <1>4, <1>11, <2>1, FS_EmptySet DEF Idle
  <2> DEFINE sum == [k \in 0..Threads |-> 0]
  <2>3. /\ sum \in [0..Threads -> Nat] /\ sum[0] = 0 /\ sum[Threads] = 0
        /\ \A k \in Workers : sum[k] = sum[k - 1] + 0
    BY <1>2
  <2> HIDE DEF sum
  <2>4. /\ \A k \in Workers : files_hashed[k] = 0
        /\ agg.files = 0 /\ main = "options"
    BY DEF Init
  <2>5. PrefixSums(sum)
    BY <1>11, <2>3, <2>4 DEF PrefixSums
  <2> QED BY <2>2, <2>5 DEF Counts
<1>13. Parity
  <2>1. ASSUME NEW i \in Active, NEW d
        PROVE  {w \in Workers : d \in fingerprint[w][i]} = {}
    BY <1>4 DEF Idle
  <2>2. \A i, d : {p \in Hashed : d = DigestOf(i, outcome[p])} = {}
    BY <1>3
  <2> QED BY <2>1, <2>2 DEF Parity
<1> QED BY <1>1, <1>5, <1>6, <1>8, <1>9, <1>10, <1>12, <1>13 DEF BenchInv

LEMMA BenchStep == BenchInv /\ [Next]_vars => BenchInv'
<1> SUFFICES ASSUME BenchInv, [Next]_vars PROVE BenchInv'
  OBVIOUS
<1>1. CASE Next
  <2>1. WalkInv /\ Shapes /\ Phases /\ Claims /\ ClaimedOnce /\ Reading /\ Counts /\ Parity
    BY DEF BenchInv
  <2>2. WalkInv' /\ Shapes' /\ Phases'
    BY <1>1, <2>1, WalkKept, ShapesStep, PhasesStep
  <2>3. Claims' /\ ClaimedOnce'
    BY <1>1, <2>1, ClaimsStep, ClaimedOnceStep
  <2>4. Reading' /\ Parity'
    BY <1>1, <2>1, ReadingStep, ParityStep
  <2>5. Counts'
    <3>1. files_done + Cardinality(Counting) = Cardinality(Hashed)
      BY <2>1 DEF Counts
    <3>2. files_done' + Cardinality(Counting') = Cardinality(Hashed')
      BY <1>1, <2>1, <3>1, DoneStep
    <3>3. PICK sum : PrefixSums(sum)
      BY <2>1 DEF Counts
    <3>4. \E s : PrefixSums(s)'
      BY <1>1, <2>1, <3>3, SumsStep
    <3> QED BY <3>2, <3>4 DEF Counts
  <2> QED BY <2>2, <2>3, <2>4, <2>5 DEF BenchInv
<1>2. CASE UNCHANGED vars
  <2>1. UNCHANGED <<only, main, walk, dirs, items, cap, failed, turn, agg, report>>
    BY <1>2 DEF vars, mainVars, walkVars
  <2>2. UNCHANGED <<next, files_done, pc, idx, pos, hstate, fingerprint, bytes_hashed,
                    files_hashed, outcome>>
    BY <1>2 DEF vars, workerVars, counters
  <2>3. WalkInv' /\ Active' = Active
    BY <2>1, WalkSame DEF BenchInv, walkVars, Active
  <2>4. Shapes' /\ Phases'
    <3>1. AllDigests' = AllDigests
      BY <2>3 DEF AllDigests
    <3> QED BY <2>1, <2>2, <2>3, <3>1 DEF BenchInv, Shapes, Phases, Idle
  <2>5. Claims' /\ ClaimedOnce'
    BY <2>1, <2>2 DEF BenchInv, Claims, ClaimedOnce, InProgress, Gone, Busy
  <2>6. Reading' /\ Parity'
    <3>1. \A w \in Workers : Path(w)' = Path(w)
      BY <2>1, <2>2 DEF Path
    <3>2. Hashed' = Hashed
      BY <2>2 DEF Hashed
    <3>3. Reading'
      BY <2>2, <2>3, <3>1 DEF BenchInv, Reading
    <3>4. Parity'
      <4>1. \A i, d : Holders(i, d)' = Holders(i, d) /\ Sources(i, d)' = Sources(i, d)
        BY <2>2, <3>2 DEF Holders, Sources
      <4>2. \A i \in Active : \A d :
              Cardinality(Holders(i, d)) % 2 = Cardinality(Sources(i, d)) % 2
        BY DEF BenchInv, Parity, Holders, Sources
      <4>3. \A i \in Active : \A d :
              Cardinality(Holders(i, d)') % 2 = Cardinality(Sources(i, d)') % 2
        BY <4>1, <4>2
      <4> QED BY <2>3, <4>3 DEF Parity, Holders, Sources
    <3> QED BY <3>3, <3>4
  <2>7. Counts'
    BY <2>1, <2>2 DEF BenchInv, Counts, Counting, Hashed, PrefixSums
  <2> QED BY <2>3, <2>4, <2>5, <2>6, <2>7 DEF BenchInv
<1> QED BY <1>1, <1>2

LEMMA BenchAlways == Spec => []BenchInv
  BY BenchInit, BenchStep, PTL DEF Spec
-----------------------------------------------------------------------------
(* What follows from it *)

\* Every variable keeps its type; in particular the counter of claims never
\* goes more than one past the paths for each worker, and an accumulator holds
\* only digests of beginnings of files.
THEOREM BenchTypes == Spec => []TypeOK
<1>1. BenchInv => TypeOK
  <2> SUFFICES ASSUME BenchInv PROVE TypeOK
    OBVIOUS
  <2>1. WalkInv /\ Shapes /\ Phases /\ Claims
    BY DEF BenchInv
  <2>2. Len(items) \in Nat
    BY <2>1 DEF WalkInv, Walk!TypeOK
  <2>3. Threads \in Nat /\ Cardinality(Gone) \in Nat /\ Cardinality(Gone) <= Threads
    <3>1. Gone \in SUBSET Workers
      BY DEF Gone
    <3> QED BY <3>1, WorkersFinite
  <2>4. next \in 0..Len(items) + Threads
    BY <2>1, <2>2, <2>3 DEF Shapes, Claims
  <2>5. idx \in [Workers -> 0..Len(items) + Threads]
    <3>1. idx \in [Workers -> Nat] /\ \A w \in Workers : idx[w] <= Len(items) + Threads
      BY <2>1 DEF Shapes, Claims
    <3>2. \A w \in Workers : idx[w] \in 0..Len(items) + Threads
      BY <2>2, <2>3, <3>1
    <3> QED BY <3>1, <3>2
  <2>6. report \in {agg, NoReport}
    BY <2>1 DEF Phases
  <2>7. pc \in [Workers -> {"unborn", "born", "claim", "open", "read", "count",
                            "done", "exited"}]
    BY <2>1 DEF Shapes, Labels
  <2>8. \A w \in Workers : {pos[w], bytes_hashed[w], files_hashed[w]} \subseteq Nat
    BY <2>1 DEF Shapes
  <2>9. {agg.files, agg.bytes, files_done} \subseteq Nat
    BY <2>1 DEF Shapes
  <2>10. Walk!TypeOK
    BY <2>1 DEF WalkInv
  <2> QED BY <2>1, <2>4, <2>5, <2>6, <2>7, <2>8, <2>9, <2>10 DEF TypeOK, Shapes
<1> QED BY <1>1, BenchAlways, PTL

\* atomic_fetch_add on job.next hands each path to one worker, and the paths
\* handed out are those being worked on and those dealt with.
THEOREM ClaimsOnce == Spec => []ClaimedOnce
<1>1. BenchInv => ClaimedOnce
  BY DEF BenchInv
<1> QED BY <1>1, BenchAlways, PTL

\* Before each fread returns, every context of the worker is one of the right
\* plugin that has taken in what was read of this file and nothing else.
THEOREM FreshContexts == Spec => []FreshPerFile
<1>1. BenchInv => FreshPerFile
  <2> SUFFICES ASSUME BenchInv, NEW w \in Workers, pc[w] = "read", hstate[w] # NULL,
                      NEW i \in Active
               PROVE  /\ Digested(g_hashes[i], hstate[w][i]) =
                           DigestOf(i, SubSeq(Content[Path(w)], 1, pos[w]))
                      /\ hstate[w][i].maker = g_hashes[i].free_state
    BY DEF FreshPerFile
  <2>1. Reading /\ pos[w] \in Nat
    BY DEF BenchInv, Shapes
  <2>2. PICK b \in Vtables : /\ Forwards(g_hashes[i], b)
                             /\ Streams(b, hstate[w][i], SubSeq(Content[Path(w)], 1, pos[w]))
    BY <2>1 DEF Reading
  <2>3. SubSeq(Content[Path(w)], 1, pos[w]) \in Seq(Byte)
    BY <2>1, DigestTaken
  <2>4. hstate[w][i].maker = b
    BY <2>2, <2>3, StreamsIsContext
  <2> QED BY <2>1, <2>2, <2>4, DigestTaken DEF Forwards
<1> QED BY <1>1, BenchAlways, PTL

\* At any moment the workers' accumulators together are the XOR of the digests
\* of the files hashed, however the files were shared out.
THEOREM AccumulatorsAddUp == Spec => []Accumulated
<1>1. BenchInv => Accumulated
  <2> SUFFICES ASSUME BenchInv, NEW i \in Active
               PROVE  Sums[i] = XorOver(Hashed, LAMBDA p : {DigestOf(i, outcome[p])})
    BY DEF Accumulated
  <2> DEFINE X == XorOver(Hashed, LAMBDA p : {DigestOf(i, outcome[p])})
  <2>1. Len(items) \in Nat /\ ClaimedOnce /\ Parity
    BY DEF BenchInv, WalkInv, Walk!TypeOK
  <2>2. ASSUME NEW d
        PROVE  d \in Sums[i] <=> Cardinality(Holders(i, d)) % 2 = 1
    <3>1. Sums[i] = {e \in UNION {fingerprint[w][i] : w \in Workers} :
                       Cardinality({w \in Workers : e \in fingerprint[w][i]}) % 2 = 1}
      BY DEF Sums, XorOver
    <3>2. d \notin UNION {fingerprint[w][i] : w \in Workers} => Holders(i, d) = {}
      BY DEF Holders
    <3>3. Cardinality({}) % 2 # 1
      BY FS_EmptySet
    <3> QED BY <3>1, <3>2, <3>3 DEF Holders
  <2>3. ASSUME NEW d
        PROVE  d \in X <=> Cardinality(Sources(i, d)) % 2 = 1
    <3>1. X = {e \in UNION {{DigestOf(i, outcome[p])} : p \in Hashed} :
                 Cardinality({p \in Hashed : e \in {DigestOf(i, outcome[p])}}) % 2 = 1}
      BY DEF XorOver
    <3>2. {p \in Hashed : d \in {DigestOf(i, outcome[p])}} = Sources(i, d)
      BY DEF Sources
    <3>3. d \notin UNION {{DigestOf(i, outcome[p])} : p \in Hashed} => Sources(i, d) = {}
      BY DEF Sources
    <3>4. Cardinality({}) % 2 # 1
      BY FS_EmptySet
    <3> QED BY <3>1, <3>2, <3>3, <3>4
  <2>4. \A d : Cardinality(Holders(i, d)) % 2 = Cardinality(Sources(i, d)) % 2
    BY <2>1 DEF Parity, Holders, Sources
  <2> HIDE DEF X
  <2>5. \A d : d \in Sums[i] <=> d \in X
    BY <2>2, <2>3, <2>4
  <2>6. Sums[i] = X
    <3>1. Sums[i] = XorOver(Workers, LAMBDA w : fingerprint[w][i])
      BY DEF Sums
    <3> QED BY <2>5, <3>1 DEF X, XorOver
  <2> QED BY <2>6 DEF X
<1> QED BY <1>1, BenchAlways, PTL

\* The report is made when every thread that was created has ended, whatever the
\* joins of those that were not have done; it counts each file hashed, and leaves
\* out a path only when no worker ever claimed one.
THEOREM ReportIsComplete == Spec => []ReportsAll
<1>1. BenchInv => ReportsAll
  <2> SUFFICES ASSUME BenchInv, main = "reported"
               PROVE  /\ \A w \in Workers : pc[w] \in {"unborn", "exited"}
                      /\ files_done = Cardinality(Hashed) /\ report.files = files_done
                      /\ next = 0 \/ DOMAIN outcome = 0..Len(items) - 1
    BY DEF ReportsAll
  <2>1. /\ \A w \in Workers : pc[w] \in {"unborn", "exited"}
        /\ report = agg
    BY DEF BenchInv, Phases, Over
  <2>2. files_done = Cardinality(Hashed)
    <3>1. Counting = {}
      BY <2>1 DEF Counting
    <3>2. files_done + 0 = Cardinality(Hashed) /\ files_done \in Nat
      BY <3>1, FS_EmptySet DEF BenchInv, Counts, Shapes
    <3> QED BY <3>2
  <2>3. report.files = Cardinality(Hashed)
    BY <2>1 DEF BenchInv, Counts, PrefixSums
  <2>4. \A w \in Workers : ~InProgress(w) /\ ~Busy(w)
    BY <2>1 DEF InProgress, Busy
  <2>5. /\ next \in Nat /\ Len(items) \in Nat
        /\ next > 0 => next >= Len(items)
    BY <2>4 DEF BenchInv, Claims, Shapes, WalkInv, Walk!TypeOK
  <2>6. ASSUME next # 0 PROVE DOMAIN outcome = 0..Len(items) - 1
    <3>1. \A i : i \in 0..Len(items) - 1 /\ i < next <=>
                  (\E w \in Workers : InProgress(w) /\ i = idx[w]) \/ i \in DOMAIN outcome
      BY ClaimedElements DEF BenchInv
    <3>2. \A i : i \in DOMAIN outcome <=> i \in 0..Len(items) - 1
      BY <2>4, <2>5, <2>6, <3>1
    <3> QED BY <3>2
  <2> QED BY <2>1, <2>2, <2>3, <2>6
<1> QED BY <1>1, BenchAlways, PTL

\* pv_push has room for the path it writes.
THEOREM VectorHasRoom == Spec => []InCapacity
<1>1. BenchInv => InCapacity
  BY DEF BenchInv, WalkInv, InCapacity
<1> QED BY <1>1, BenchAlways, PTL
-----------------------------------------------------------------------------
(* The walk as the bench runs it *)

TreeKept == \A length : PathsFit(length) => TreeInv(length)

LEMMA TreeAlways == Spec => []TreeKept
<1>1. Init => TreeKept
  BY TreeInit DEF Init, TreeKept
<1>2. ASSUME TreeKept, [Next]_vars PROVE TreeKept'
  <2> SUFFICES ASSUME NEW length, PathsFit(length) PROVE TreeInv(length)'
    BY DEF TreeKept
  <2>1. TreeInv(length)
    BY <1>2 DEF TreeKept
  <2>2. CASE Walk!Next
    BY <2>1, <2>2, TreeStep
  <2>3. CASE UNCHANGED walkVars
    <3>1. WalkInv'
      BY <2>1, <2>3, WalkSame DEF TreeInv
    <3>2. UNCHANGED <<walk, dirs, items, cap, failed>>
      BY <2>3 DEF walkVars
    <3>3. /\ Walk!ListedOnce' <=> Walk!ListedOnce
          /\ (Walk!Collected)' = Walk!Collected
          /\ failed' = failed
      BY <3>2 DEF Walk!ListedOnce, Walk!Collected
    <3>4. \A i, e, x : At(i, e, x)' <=> At(i, e, x)
      BY <3>2 DEF At
    <3>5. Account' <=> Account
      BY <3>3, <3>4 DEF Account
    <3> QED BY <2>1, <3>1, <3>2, <3>3, <3>5 DEF TreeInv
  <2> QED BY <1>2, <2>2, <2>3, WalkOrNot DEF vars, mainVars
<1> QED BY <1>1, <1>2, PTL DEF Spec

\* Where no path is cut off, the walk collects no file twice, links included.
THEOREM WalkListsOnce ==
    ASSUME NoPathIsCut
    PROVE  Spec => []ListedOnce
<1>1. TreeKept => ListedOnce
  BY DEF NoPathIsCut, TreeKept, TreeInv, ListedOnce
<1> QED BY <1>1, TreeAlways, PTL

\* Where no path is cut off, a file is passed by without being collected only
\* when a call failed for it or for a directory above it.
THEOREM WalkLosesOnlyFailures ==
    ASSUME NoPathIsCut
    PROVE  Spec => []LosesOnlyFailures
<1>1. TreeKept => LosesOnlyFailures
  BY AccountLoses DEF NoPathIsCut, TreeKept, LosesOnlyFailures
<1> QED BY <1>1, TreeAlways, PTL
=============================================================================
