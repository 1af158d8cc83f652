------------------------- MODULE AesniStreamProofs -------------------------
(***************************************************************************)
(* Proofs about AesniStream, for every block size, secret, set of inputs   *)
(* and variant of the update loop.                                         *)
(***************************************************************************)
EXTENDS AesniStream, SequenceTheorems, TLAPS

-----------------------------------------------------------------------------
(* Arithmetic of whole blocks *)

\* Division with remainder by the block size.
LEMMA Euclid ==
    ASSUME NEW a \in Nat
    PROVE  /\ a \div BLOCK \in Nat
           /\ a % BLOCK \in 0..BLOCK - 1
           /\ a = (a \div BLOCK) * BLOCK + (a % BLOCK)
  BY BlockAssumption

\* The remainder is the only number below BLOCK that completes a multiple.
LEMMA RemainderUnique ==
    ASSUME NEW q \in Nat, NEW r \in 0..BLOCK - 1, NEW a \in Nat,
           a = q * BLOCK + r
    PROVE  a % BLOCK = r
  BY BlockAssumption

\* What follows whole blocks is the remainder, if it is less than a block.
LEMMA RestOfBlocks ==
    ASSUME NEW a \in Nat, a % BLOCK = 0, NEW r \in 0..BLOCK - 1
    PROVE  (a + r) % BLOCK = r
<1>1. a = (a \div BLOCK) * BLOCK /\ a \div BLOCK \in Nat
  BY Euclid, BlockAssumption
<1> QED BY <1>1, RemainderUnique, BlockAssumption

\* One more block after whole blocks makes whole blocks.
LEMMA OneMoreBlock ==
    ASSUME NEW a \in Nat, a % BLOCK = 0
    PROVE  (a + BLOCK) % BLOCK = 0
<1>1. a = (a \div BLOCK) * BLOCK /\ a \div BLOCK \in Nat
  BY Euclid, BlockAssumption
<1>2. a + BLOCK = ((a \div BLOCK) + 1) * BLOCK + 0
  BY <1>1, BlockAssumption
<1>3. /\ (a \div BLOCK) + 1 \in Nat
      /\ 0 \in 0..BLOCK - 1
      /\ a + BLOCK \in Nat
  BY <1>1, BlockAssumption
<1> QED BY ONLY <1>2, <1>3, RemainderUnique

\* No bytes at all are whole blocks.
LEMMA NoBlocks == 0 % BLOCK = 0
<1>1. 0 = 0 * BLOCK + 0 /\ 0 \in 0..BLOCK - 1
  BY BlockAssumption
<1> QED BY <1>1, RemainderUnique
-----------------------------------------------------------------------------
(* Memory and lanes *)

\* A load inside the input gives bytes of the input, in order.
LEMMA LoadBytes ==
    ASSUME NEW d \in Seq(Bytes), NEW off \in Nat, NEW n \in Nat,
           off + n <= Len(d)
    PROVE  /\ Load(d, off, n) \in Seq(Bytes)
           /\ Len(Load(d, off, n)) = n
           /\ Agree(Load(d, off, n), 0, d, off, n)
  BY DEF Load, Agree

\* A store into a block-sized buffer leaves a block-sized buffer.
LEMMA StoreCells ==
    ASSUME NEW b \in [1..BLOCK -> Cell], NEW off \in Nat, NEW src \in Seq(Cell)
    PROVE  Store(b, off, src) \in [1..BLOCK -> Cell]
<1>1. ASSUME NEW i \in 1..BLOCK
      PROVE  (IF i - off \in 1..Len(src) THEN src[i - off] ELSE b[i]) \in Cell
  <2>1. CASE i - off \in 1..Len(src)
    BY <2>1
  <2>2. CASE i - off \notin 1..Len(src)
    BY <2>2
  <2> QED BY <2>1, <2>2
<1> QED BY <1>1 DEF Store

\* A store leaves what is below its offset and writes its source above it.
LEMMA StoreEffect ==
    ASSUME NEW b, NEW off \in Nat, NEW src, Len(src) \in Nat,
           off + Len(src) <= BLOCK
    PROVE  /\ Agree(Store(b, off, src), 0, b, 0, off)
           /\ Agree(Store(b, off, src), off, src, 0, Len(src))
<1>1. ASSUME NEW k \in 1..off
      PROVE  Store(b, off, src)[k] = b[k]
  BY BlockAssumption DEF Store
<1>2. ASSUME NEW k \in 1..Len(src)
      PROVE  Store(b, off, src)[off + k] = src[k]
  BY BlockAssumption DEF Store
<1> QED BY <1>1, <1>2 DEF Agree

\* Concatenation, element by element.
LEMMA ConcatElements ==
    ASSUME NEW S, NEW s \in Seq(S), NEW t \in Seq(S)
    PROVE  /\ s \o t \in Seq(S)
           /\ Len(s \o t) = Len(s) + Len(t)
           /\ Agree(s \o t, 0, s, 0, Len(s))
           /\ Agree(s \o t, Len(s), t, 0, Len(t))
  BY DEF Agree

\* Agreement is transitive, and holds of a stretch when of its two parts.
LEMMA AgreeTransitive ==
    ASSUME NEW s, NEW t, NEW u, NEW i \in Nat, NEW j \in Nat, NEW k \in Nat,
           NEW n \in Nat, Agree(s, i, t, j, n), Agree(t, j, u, k, n)
    PROVE  Agree(s, i, u, k, n)
  BY DEF Agree

LEMMA AgreeJoin ==
    ASSUME NEW s, NEW t, NEW i \in Nat, NEW j \in Nat, NEW n \in Nat,
           NEW i2 \in Nat, NEW j2 \in Nat, NEW m \in Nat, NEW nm \in Nat,
           i2 = i + n, j2 = j + n, nm = n + m,
           Agree(s, i, t, j, n), Agree(s, i2, t, j2, m)
    PROVE  Agree(s, i, t, j, nm)
<1> SUFFICES ASSUME NEW k \in 1..nm
             PROVE  s[i + k] = t[j + k]
  BY DEF Agree
<1>1. CASE k <= n
  BY <1>1 DEF Agree
<1>2. CASE k > n
  <2>1. k - n \in 1..m /\ i + k = i2 + (k - n) /\ j + k = j2 + (k - n)
    BY <1>2
  <2> QED BY <2>1 DEF Agree
<1> QED BY <1>1, <1>2

\* Part of an agreeing stretch agrees.
LEMMA AgreePart ==
    ASSUME NEW s, NEW t, NEW i \in Nat, NEW j \in Nat, NEW n \in Nat,
           NEW i2 \in Nat, NEW j2 \in Nat, NEW m \in Nat,
           i <= i2, i2 - i = j2 - j, (i2 - i) + m <= n, Agree(s, i, t, j, n)
    PROVE  Agree(s, i2, t, j2, m)
<1> SUFFICES ASSUME NEW l \in 1..m
             PROVE  s[i2 + l] = t[j2 + l]
  BY DEF Agree
<1> DEFINE k == (i2 - i) + l
<1>1. k \in 1..n /\ i2 + l = i + k /\ j2 + l = j + k
  OBVIOUS
<1> QED BY <1>1 DEF Agree

LEMMA AgreeShorter ==
    ASSUME NEW s, NEW t, NEW i, NEW j, NEW n \in Nat, NEW m \in Nat,
           m <= n, Agree(s, i, t, j, n)
    PROVE  Agree(s, i, t, j, m)
<1> SUFFICES ASSUME NEW k \in 1..m
             PROVE  s[i + k] = t[j + k]
  BY DEF Agree
<1>1. k \in 1..n
  OBVIOUS
<1> QED BY <1>1 DEF Agree

\* Agreement with a message outlives what is appended to the message.
LEMMA AgreeAppended ==
    ASSUME NEW s, NEW m, NEW m2, NEW i \in Nat, NEW j \in Nat, NEW n \in Nat,
           NEW l \in Nat, j + n <= l, Agree(s, i, m, j, n), Agree(m2, 0, m, 0, l)
    PROVE  Agree(s, i, m2, j, n)
<1> SUFFICES ASSUME NEW k \in 1..n
             PROVE  s[i + k] = m2[j + k]
  BY DEF Agree
<1>1. j + k \in 1..l /\ 0 + (j + k) = j + k
  OBVIOUS
<1>2. m2[j + k] = m[j + k]
  BY <1>1 DEF Agree
<1> QED BY <1>2 DEF Agree

\* Bytes found among the n first of a message of bytes are bytes.
LEMMA AgreeBytes ==
    ASSUME NEW s, NEW m \in Seq(Bytes), NEW i \in Nat, NEW j \in Nat,
           NEW n \in Nat, j + n <= Len(m), Agree(s, i, m, j, n)
    PROVE  \A k \in 1..n : s[i + k] \in Bytes
<1> SUFFICES ASSUME NEW k \in 1..n
             PROVE  s[i + k] \in Bytes
  OBVIOUS
<1>1. j + k \in 1..Len(m) /\ s[i + k] = m[j + k]
  BY DEF Agree
<1> QED BY <1>1

\* What process_block does to the lanes.
LEMMA AbsorbedBlock ==
    ASSUME NEW l \in LaneVectors, NEW block \in Seq(Bytes)
    PROVE  /\ process_block(l, block) \in LaneVectors
           /\ process_block(l, block).key = l.key
           /\ process_block(l, block).mixed = l.mixed
           /\ process_block(l, block).fed = l.fed \o block
<1>1. l.fed \o block \in Seq(Bytes)
  BY DEF LaneVectors
<1> QED BY <1>1 DEF process_block, LaneVectors
-----------------------------------------------------------------------------
(* The inductive invariant *)

\* The invariant holds before any call.
LEMMA InvInit == Init => StreamInv
<1> SUFFICES ASSUME Init PROVE StreamInv
  OBVIOUS
<1> USE DEF Init
<1>1. TypeOK
  BY BlockAssumption DEF TypeOK, Uninitialized, Cell
<1>2. ReadsWithinInput /\ NothingLost /\ EagerBlocks /\ OneShotWalk
  BY DEF ReadsWithinInput, NothingLost, EagerBlocks, OneShotWalk
<1>3. UnmixedUntilSpent
  BY DEF UnmixedUntilSpent, Updating
<1> QED BY <1>1, <1>2, <1>3 DEF StreamInv

\* A new context has absorbed nothing.
LEMMA InvNew ==
    ASSUME StreamInv, NEW s \in Seeds, New(s)
    PROVE  StreamInv'
<1> USE DEF StreamInv, New, callVars
<1>1. init_lanes(s) \in LaneVectors
  BY DEF init_lanes, LaneVectors
<1>2. TypeOK'
  BY <1>1, BlockAssumption DEF TypeOK, Uninitialized, Cell
<1>3. ReadsWithinInput' /\ OneShotWalk'
  BY DEF ReadsWithinInput, OneShotWalk
<1>4. Absorbed' = << >> /\ Unread' = 0
  BY DEF Absorbed, Unread, Updating, init_lanes
<1>5. NothingLost'
  BY <1>4 DEF NothingLost, Agree
<1>6. EagerBlocks'
  BY <1>4, NoBlocks DEF EagerBlocks
<1>7. UnmixedUntilSpent'
  BY DEF UnmixedUntilSpent, Updating, init_lanes
<1> QED BY <1>2, <1>3, <1>5, <1>6, <1>7

\* Nothing is claimed of a context that is gone.
LEMMA InvFree ==
    ASSUME StreamInv, Free
    PROVE  StreamInv'
<1> USE DEF StreamInv, Free, NoContext, callVars
<1>1. TypeOK'
  BY BlockAssumption DEF TypeOK, Uninitialized, Cell
<1>2. ReadsWithinInput' /\ OneShotWalk' /\ NothingLost' /\ EagerBlocks'
  BY DEF ReadsWithinInput, OneShotWalk, NothingLost, EagerBlocks
<1>3. UnmixedUntilSpent'
  BY DEF UnmixedUntilSpent, Updating
<1> QED BY <1>1, <1>2, <1>3

\* The fast path appends to a buffer that stays short of a block.
LEMMA InvUpdateFast ==
    ASSUME StreamInv, NEW d \in Inputs, UpdateFast(d)
    PROVE  StreamInv'
<1> USE DEF StreamInv, UpdateFast, callVars
<1>1. /\ d \in Seq(Bytes) /\ Len(d) \in Nat
      /\ d \in Seq(Cell)
  BY InputsAssumption DEF Cell
<1>2. /\ buf \in [1..BLOCK -> Cell] /\ buf_len \in Nat
      /\ buf_len + Len(d) < BLOCK
      /\ msg \in Seq(Bytes) /\ total_bytes \in Nat
      /\ lane \in LaneVectors /\ lane.fed \in Seq(Bytes)
  BY BlockAssumption DEF TypeOK, CompletesNoBlock, LaneVectors
<1>3. buf' \in [1..BLOCK -> Cell]
  BY <1>1, <1>2, StoreCells
<1>4. /\ msg' \in Seq(Bytes) /\ Len(msg') = Len(msg) + Len(d)
      /\ Agree(msg', 0, msg, 0, Len(msg))
      /\ Agree(msg', Len(msg), d, 0, Len(d))
  BY <1>1, <1>2, ConcatElements
<1>5. /\ Agree(buf', 0, buf, 0, buf_len)
      /\ Agree(buf', buf_len, d, 0, Len(d))
  BY <1>1, <1>2, StoreEffect, BlockAssumption
<1>6. TypeOK'
  BY <1>1, <1>2, <1>3, <1>4, BlockAssumption DEF TypeOK
<1>7. ReadsWithinInput' /\ OneShotWalk'
  BY DEF ReadsWithinInput, OneShotWalk
<1>8. Absorbed' = Absorbed /\ Absorbed = lane.fed /\ Unread' = 0 /\ Unread = 0
  BY DEF Absorbed, Unread, Updating
<1>9. NothingLost'
  <2>1. /\ total_bytes = Len(msg) /\ Len(msg) = Len(lane.fed) + buf_len
        /\ Agree(lane.fed, 0, msg, 0, Len(lane.fed))
        /\ Agree(buf, 0, msg, Len(lane.fed), buf_len)
    BY <1>2, <1>8 DEF NothingLost
  <2>2. total_bytes' = Len(msg') /\ Len(msg') = Len(lane.fed) + buf_len'
    BY <1>1, <1>2, <1>4, <2>1
  <2>3. Agree(lane.fed, 0, msg', 0, Len(lane.fed))
    BY <1>2, <1>4, <2>1, AgreeAppended
  <2>4. Agree(buf', 0, msg', Len(lane.fed), buf_len)
    <3>1. Agree(buf, 0, msg', Len(lane.fed), buf_len)
      BY <1>2, <1>4, <2>1, AgreeAppended
    <3> QED BY <3>1, <1>2, <1>5, AgreeTransitive
  <2>5. Agree(buf', buf_len, msg', Len(msg), Len(d))
    BY <1>1, <1>2, <1>4, <1>5 DEF Agree
  <2>6. Agree(buf', 0, msg', Len(lane.fed), buf_len')
    <3>1. /\ buf_len \in Nat /\ Len(d) \in Nat /\ Len(lane.fed) \in Nat
          /\ buf_len' \in Nat /\ Len(msg) \in Nat
          /\ buf_len = 0 + buf_len /\ buf_len' = buf_len + Len(d)
          /\ Len(msg) = Len(lane.fed) + buf_len
      BY <1>1, <1>2, <2>1
    <3> QED BY ONLY <2>4, <2>5, <3>1, AgreeJoin
  <2>7. Agree(data', p', msg', Len(lane.fed) + buf_len', 0)
    BY DEF Agree
  <2>8. Len(lane.fed) + buf_len' + 0 = Len(lane.fed) + buf_len'
    BY <1>1, <1>2
  <2>9. Absorbed' = lane.fed /\ Unread' = 0
    BY <1>8
  <2> QED BY ONLY <2>2, <2>3, <2>6, <2>7, <2>8, <2>9 DEF NothingLost
<1>10. EagerBlocks'
  BY <1>8 DEF EagerBlocks
<1>11. UnmixedUntilSpent'
  BY DEF UnmixedUntilSpent, Updating
<1> QED BY <1>6, <1>7, <1>9, <1>10, <1>11

\* The slow path begins with the whole input unread and a copy of the lanes.
LEMMA InvUpdateSlow ==
    ASSUME StreamInv, NEW d \in Inputs, UpdateSlow(d)
    PROVE  StreamInv'
<1> USE DEF StreamInv, UpdateSlow
<1>1. d \in Seq(Bytes) /\ Len(d) \in Nat
  BY InputsAssumption
<1>2. /\ buf_len \in Nat /\ msg \in Seq(Bytes) /\ total_bytes \in Nat
      /\ lane \in LaneVectors /\ lane.fed \in Seq(Bytes)
  BY BlockAssumption DEF TypeOK, LaneVectors
<1>3. /\ msg' \in Seq(Bytes) /\ Len(msg') = Len(msg) + Len(d)
      /\ Agree(msg', 0, msg, 0, Len(msg))
      /\ Agree(msg', Len(msg), d, 0, Len(d))
  BY <1>1, <1>2, ConcatElements
<1>4. TypeOK'
  BY <1>1, <1>2, <1>3 DEF TypeOK
<1>5. ReadsWithinInput' /\ OneShotWalk'
  BY <1>1 DEF ReadsWithinInput, OneShotWalk
<1>6. /\ Absorbed' = lane.fed /\ Absorbed = lane.fed
      /\ Unread' = Len(d) /\ Unread = 0
  BY DEF Absorbed, Unread, Updating
<1>7. NothingLost'
  <2>1. /\ total_bytes = Len(msg) /\ Len(msg) = Len(lane.fed) + buf_len
        /\ Agree(lane.fed, 0, msg, 0, Len(lane.fed))
        /\ Agree(buf, 0, msg, Len(lane.fed), buf_len)
    BY <1>2, <1>6 DEF NothingLost
  <2>2. /\ total_bytes' = Len(msg')
        /\ Len(msg') = Len(lane.fed) + buf_len' + Len(d)
    BY <1>1, <1>2, <1>3, <2>1
  <2>3. Agree(lane.fed, 0, msg', 0, Len(lane.fed))
    BY <1>2, <1>3, <2>1, AgreeAppended
  <2>4. Agree(buf', 0, msg', Len(lane.fed), buf_len')
    BY <1>2, <1>3, <2>1, AgreeAppended
  <2>5. Agree(data', p', msg', Len(lane.fed) + buf_len', Len(d))
    BY <1>1, <1>2, <1>3, <2>1 DEF Agree
  <2> QED BY <1>6, <2>2, <2>3, <2>4, <2>5 DEF NothingLost
<1>8. EagerBlocks'
  BY <1>6 DEF EagerBlocks
<1>9. UnmixedUntilSpent'
  BY DEF UnmixedUntilSpent, Updating
<1> QED BY <1>4, <1>5, <1>7, <1>8, <1>9

\* The top-up of the buffer moves bytes from the input to the buffer and, when
\* they complete the block, from the buffer to the lanes.
LEMMA InvFill ==
    ASSUME StreamInv, Fill
    PROVE  StreamInv'
<1>1. /\ ctx = "live" /\ ctx' = ctx /\ pc = "fill" /\ pc' = "loop"
      /\ UNCHANGED <<lane, total_bytes, data, out, seed, msg>>
      /\ lane.mixed = FALSE /\ lane.key = seed
  BY DEF Fill, StreamInv, UnmixedUntilSpent, Updating
<1>2. /\ BLOCK \in Nat \ {0} /\ buf_len \in 0..BLOCK - 1 /\ buf_len \in Nat
      /\ Len(data) \in Nat /\ len \in Nat /\ p \in Nat /\ p + len = Len(data)
      /\ Len(local.fed) \in Nat /\ Len(msg) \in Nat
      /\ Len(msg) = Len(local.fed) + buf_len + len
  BY <1>1, BlockAssumption
     DEF StreamInv, TypeOK, LaneVectors, ReadsWithinInput, NothingLost,
         Absorbed, Unread, Updating
<1>3. /\ buf \in [1..BLOCK -> Cell] /\ data \in Seq(Bytes) /\ msg \in Seq(Bytes)
      /\ local \in LaneVectors /\ local.fed \in Seq(Bytes)
      /\ local.mixed = FALSE /\ local.key = seed
  BY <1>1 DEF StreamInv, TypeOK, LaneVectors, UnmixedUntilSpent, Updating
<1>4. /\ Absorbed = local.fed /\ Absorbed' = local'.fed
      /\ Unread = len /\ Unread' = len'
  BY <1>1 DEF Absorbed, Unread, Updating
<1>5. /\ total_bytes = Len(msg)
      /\ Agree(local.fed, 0, msg, 0, Len(local.fed))
      /\ Agree(buf, 0, msg, Len(local.fed), buf_len)
      /\ Agree(data, p, msg, Len(local.fed) + buf_len, len)
      /\ Len(local.fed) % BLOCK = 0
  BY <1>1, <1>4 DEF StreamInv, NothingLost, EagerBlocks
<1>6. CASE buf_len = 0
  <2>1. UNCHANGED <<buf, buf_len, local, p, len>>
    BY <1>6 DEF Fill
  <2>2. TypeOK'
    BY <1>1, <1>3, <2>1 DEF StreamInv, TypeOK
  <2>3. ReadsWithinInput' /\ OneShotWalk'
    BY <1>1, <1>2, <2>1 DEF ReadsWithinInput, OneShotWalk
  <2>4. NothingLost'
    BY <1>1, <1>2, <1>4, <1>5, <2>1 DEF NothingLost
  <2>5. EagerBlocks'
    BY <1>4, <1>5, <1>6, <2>1 DEF EagerBlocks
  <2>6. UnmixedUntilSpent'
    BY <1>1, <1>3, <2>1 DEF UnmixedUntilSpent, Updating
  <2> QED BY <2>2, <2>3, <2>4, <2>5, <2>6 DEF StreamInv
<1>7. CASE buf_len > 0
  <2>1. PICK take \in Nat :
           /\ take <= len /\ buf_len + take <= BLOCK
           /\ buf_len + take # BLOCK => take = len
           /\ buf' = Store(buf, buf_len, Load(data, p, take))
           /\ buf_len' = IF buf_len + take = BLOCK THEN 0 ELSE buf_len + take
           /\ local' = IF buf_len + take = BLOCK
                       THEN process_block(local, buf') ELSE local
           /\ p' = p + take
           /\ len' = len - take
    <3>1. /\ Take \in Nat /\ Take <= len /\ buf_len + Take <= BLOCK
          /\ buf_len + Take # BLOCK => Take = len
      BY <1>2 DEF Take
    <3> QED BY <1>7, <3>1 DEF Fill
  <2>2. take <= len /\ buf_len + take <= BLOCK
    BY <2>1
  <2> DEFINE used == Len(local.fed)
  <2>3. PICK lo \in Nat, filled \in Nat, hi \in Nat, next \in Nat, rest \in Nat :
            /\ lo = used + buf_len /\ filled = buf_len + take
            /\ hi = lo + take /\ hi = used + filled
            /\ next = p + take /\ rest = len - take
    BY <1>2, <2>2
  <2>4. /\ next <= Len(data) /\ next + rest = Len(data) /\ take + rest = len
         /\ Len(msg) = hi + rest /\ filled <= BLOCK
    BY <1>2, <2>2, <2>3
  <2>6. p' = next /\ len' = rest
    BY <2>1, <2>3
  <2>7. PICK piece \in Seq(Bytes) :
           /\ piece = Load(data, p, take)
           /\ Len(piece) = take
           /\ Agree(piece, 0, data, p, take)
    BY <1>2, <1>3, <2>3, <2>4, LoadBytes
  <2>8. /\ buf' \in [1..BLOCK -> Cell]
        /\ Agree(buf', 0, buf, 0, buf_len)
        /\ Agree(buf', buf_len, piece, 0, take)
    <3>1. buf' = Store(buf, buf_len, piece)
      BY <2>1, <2>7
    <3>2. piece \in Seq(Cell)
      BY DEF Cell
    <3>3. buf' \in [1..BLOCK -> Cell]
      BY <1>2, <1>3, <3>1, <3>2, StoreCells
    <3>4. Len(piece) \in Nat /\ buf_len + Len(piece) <= BLOCK
      BY <2>2, <2>7
    <3>5. /\ Agree(buf', 0, buf, 0, buf_len)
          /\ Agree(buf', buf_len, piece, 0, Len(piece))
      BY <1>2, <3>1, <3>4, StoreEffect
    <3> QED BY <2>7, <3>3, <3>5
  <2>9. Agree(buf', 0, msg, used, filled)
    <3>1. Agree(buf', 0, msg, used, buf_len)
      BY <1>2, <1>5, <2>8, AgreeTransitive
    <3>2. Agree(data, p, msg, lo, take)
      BY <1>2, <1>5, <2>2, <2>3, AgreeShorter
    <3>3. Agree(buf', buf_len, data, p, take)
      BY <1>2, <2>7, <2>8, AgreeTransitive
    <3>4. Agree(buf', buf_len, msg, lo, take)
      BY <1>2, <3>2, <3>3, AgreeTransitive
    <3>5. buf_len = 0 + buf_len /\ buf_len \in Nat /\ used \in Nat
      BY <1>2
    <3> HIDE DEF used
    <3> QED BY ONLY <2>3, <3>1, <3>4, <3>5, AgreeJoin
  <2>10. Agree(data', p', msg', hi, len')
    <3>1. Agree(data, p, msg, lo, len)
      BY <1>5, <2>3
    <3>2. /\ len \in Nat /\ p \in Nat /\ p <= next
          /\ next - p = hi - lo /\ (next - p) + rest <= len
      BY <1>2, <2>3, <2>4
    <3>3. Agree(data, next, msg, hi, rest)
      BY <3>1, <3>2, AgreePart
    <3> QED BY <1>1, <2>6, <3>3
  <2>11. /\ p' \in 0..Len(data') /\ len' \in Nat /\ p' + len' = Len(data')
        /\ buf_len' \in 0..BLOCK - 1
    <3>1. p' \in 0..Len(data) /\ len' \in Nat /\ p' + len' = Len(data)
      BY <1>2, <2>6, <2>4
    <3>2. buf_len' \in 0..BLOCK - 1
      BY <1>2, <2>1, <2>2
    <3> QED BY <1>1, <3>1, <3>2
  <2>12. ReadsWithinInput' /\ OneShotWalk'
    <3>1. p' <= Len(data')
      BY <1>1, <2>4, <2>6
    <3> QED BY <1>1, <2>11, <3>1 DEF ReadsWithinInput, OneShotWalk
  <2>13. CASE buf_len + take = BLOCK
    <3>1. buf' \in Seq(Bytes) /\ Len(buf') = BLOCK
      <4>1. \A k \in 1..BLOCK : buf'[0 + k] \in Bytes
        <5>1. Agree(buf', 0, msg, Len(local.fed), BLOCK)
          BY <2>3, <2>9, <2>13
        <5>2. Len(local.fed) + BLOCK <= Len(msg)
          BY <1>2, <2>3, <2>4, <2>13
        <5> QED BY <1>2, <1>3, <5>1, <5>2, AgreeBytes
      <4>2. buf' \in [1..BLOCK -> Bytes]
        BY <1>2, <2>8, <4>1
      <4> QED BY <1>2, <4>2
    <3>2. local' = process_block(local, buf') /\ buf_len' = 0
      BY <2>1, <2>13
    <3>3. /\ local' \in LaneVectors /\ local'.fed = local.fed \o buf'
          /\ local'.key = local.key /\ local'.mixed = local.mixed
      BY <1>3, <3>1, <3>2, AbsorbedBlock
    <3>4. /\ Len(local'.fed) = Len(local.fed) + BLOCK
          /\ Agree(local'.fed, 0, local.fed, 0, Len(local.fed))
          /\ Agree(local'.fed, Len(local.fed), buf', 0, BLOCK)
      BY <1>3, <3>1, <3>3, ConcatElements
    <3>5. TypeOK'
      BY <1>1, <1>3, <2>8, <2>11, <3>3 DEF StreamInv, TypeOK
    <3>6. NothingLost'
      <4>1. Agree(local'.fed, 0, msg, 0, Len(local'.fed))
        <5>1. Agree(local'.fed, 0, msg, 0, Len(local.fed))
          BY <1>2, <1>5, <3>4, AgreeTransitive
        <5>2. Agree(local'.fed, Len(local.fed), msg, Len(local.fed), BLOCK)
          BY <1>2, <2>9, <2>13, <2>3, <3>4, AgreeTransitive
        <5>3. Len(local'.fed) \in Nat /\ Len(local.fed) = 0 + Len(local.fed)
          BY <1>2, <3>4
        <5> QED BY <1>2, <3>4, <5>1, <5>2, <5>3, AgreeJoin
      <4>2. /\ Len(local'.fed) + buf_len' = hi
            /\ Len(msg) = Len(local'.fed) + buf_len' + len'
        <5>1. Len(local'.fed) + buf_len' = hi
          <6>1. hi = Len(local.fed) + BLOCK
            BY <1>2, <2>13, <2>3
          <6>2. Len(local'.fed) = Len(local.fed) + BLOCK /\ buf_len' = 0
            BY <3>2, <3>4
          <6> QED BY <1>2, <6>1, <6>2
        <5>2. Len(msg) = hi + len'
          BY <2>6, <2>4
        <5> QED BY <5>1, <5>2
      <4>3. Agree(buf', 0, msg, Len(local'.fed), buf_len')
        BY <3>2 DEF Agree
      <4> QED BY <1>1, <1>4, <1>5, <2>10, <4>1, <4>2, <4>3 DEF NothingLost
    <3>7. EagerBlocks'
      <4>1. Len(local'.fed) % BLOCK = 0
        BY <1>2, <1>5, <3>4, OneMoreBlock
      <4> QED BY <1>4, <3>2, <4>1 DEF EagerBlocks
    <3>8. UnmixedUntilSpent'
      BY <1>1, <1>3, <3>3 DEF UnmixedUntilSpent, Updating
    <3> QED BY <2>12, <3>5, <3>6, <3>7, <3>8 DEF StreamInv
  <2>14. CASE buf_len + take # BLOCK
    <3>1. local' = local /\ buf_len' = buf_len + take /\ len' = 0
      BY <1>2, <2>1, <2>14
    <3>2. TypeOK'
      BY <1>1, <1>3, <2>8, <2>11, <3>1 DEF StreamInv, TypeOK
    <3>3. NothingLost'
      <4>1. /\ Len(msg) = Len(local.fed) + buf_len' + len'
            /\ Len(local.fed) + buf_len' = hi /\ buf_len' = filled
        <5>1. buf_len' = filled
          BY <2>3, <3>1
        <5>2. Len(msg) = hi + len'
          BY <2>6, <2>4
        <5> QED BY <2>3, <5>1, <5>2
      <4> QED BY <1>1, <1>4, <1>5, <2>9, <2>10, <3>1, <4>1 DEF NothingLost
    <3>4. EagerBlocks'
      BY <1>4, <1>5, <3>1 DEF EagerBlocks
    <3>5. UnmixedUntilSpent'
      BY <1>1, <1>3, <3>1 DEF UnmixedUntilSpent, Updating
    <3> QED BY <2>12, <3>2, <3>3, <3>4, <3>5 DEF StreamInv
  <2> QED BY <2>13, <2>14
<1> QED BY <1>2, <1>6, <1>7

\* What the two block loops share: a block of the input, loaded within its
\* bounds, goes into the lanes and the cursor moves past it.
LEMMA BlockAbsorbed ==
    ASSUME StreamInv, AbsorbBlock, pc # "idle", len >= BLOCK
    PROVE  /\ local' \in LaneVectors
           /\ local'.key = local.key /\ local'.mixed = local.mixed
           /\ local'.fed \in Seq(Bytes)
           /\ Len(local'.fed) = Len(local.fed) + BLOCK
           /\ Agree(local'.fed, 0, local.fed, 0, Len(local.fed))
           /\ Agree(local'.fed, Len(local.fed), data, p, BLOCK)
           /\ p' = p + BLOCK /\ p' \in 0..Len(data)
           /\ len' = len - BLOCK /\ len' \in Nat
           /\ p' + len' = Len(data)
<1>1. /\ BLOCK \in Nat \ {0} /\ len \in Nat /\ p \in Nat /\ Len(data) \in Nat
      /\ p + len = Len(data)
  BY BlockAssumption DEF StreamInv, TypeOK, ReadsWithinInput
<1>2. data \in Seq(Bytes) /\ local \in LaneVectors /\ local.fed \in Seq(Bytes)
  BY DEF StreamInv, TypeOK, LaneVectors
<1>3. p + BLOCK <= Len(data) /\ p + BLOCK + (len - BLOCK) = Len(data)
  BY <1>1
<1>4. PICK piece \in Seq(Bytes) :
         /\ piece = Load(data, p, BLOCK)
         /\ Len(piece) = BLOCK /\ Agree(piece, 0, data, p, BLOCK)
  BY <1>1, <1>2, <1>3, LoadBytes
<1>5. local' = process_block(local, piece)
  BY <1>4 DEF AbsorbBlock
<1>6. /\ local' \in LaneVectors /\ local'.fed = local.fed \o piece
      /\ local'.key = local.key /\ local'.mixed = local.mixed
  BY <1>2, <1>5, AbsorbedBlock
<1>7. /\ local'.fed \in Seq(Bytes)
      /\ Len(local'.fed) = Len(local.fed) + BLOCK
      /\ Agree(local'.fed, 0, local.fed, 0, Len(local.fed))
      /\ Agree(local'.fed, Len(local.fed), piece, 0, BLOCK)
  BY <1>2, <1>4, <1>6, ConcatElements
<1>8. Agree(local'.fed, Len(local.fed), data, p, BLOCK)
  <2>1. Len(local.fed) \in Nat
    BY <1>2
  <2> QED BY <1>1, <1>4, <1>7, <2>1, AgreeTransitive
<1>9. p' = p + BLOCK /\ len' = len - BLOCK
  BY DEF AbsorbBlock
<1>10. p' \in 0..Len(data) /\ len' \in Nat /\ p' + len' = Len(data)
  BY <1>1, <1>3, <1>9
<1> QED BY <1>6, <1>7, <1>8, <1>9, <1>10

\* A block of v15_update's loops goes from the unread input to the lanes,
\* past a buffer that is empty by then.
LEMMA InvUpdateBlock ==
    ASSUME StreamInv, pc = "loop", len >= BLOCK, AbsorbBlock
    PROVE  StreamInv'
<1>1. UNCHANGED <<pc, data, ctx, lane, total_bytes, buf_len, buf, out, seed, msg>>
  BY DEF AbsorbBlock, ctxVars
<1>2. /\ ctx = "live" /\ lane.mixed = FALSE /\ lane.key = seed
      /\ local.mixed = FALSE /\ local.key = seed
  BY DEF StreamInv, UnmixedUntilSpent, Updating
<1>3. /\ BLOCK \in Nat \ {0} /\ len \in Nat /\ p \in Nat /\ Len(msg) \in Nat
      /\ Len(local.fed) \in Nat
  BY BlockAssumption DEF StreamInv, TypeOK, LaneVectors
<1>4. /\ Absorbed = local.fed /\ Absorbed' = local'.fed
      /\ Unread = len /\ Unread' = len'
  BY <1>1 DEF Absorbed, Unread, Updating
<1>5. /\ buf_len = 0 /\ total_bytes = Len(msg)
      /\ Len(msg) = Len(local.fed) + buf_len + len
      /\ Agree(local.fed, 0, msg, 0, Len(local.fed))
      /\ Agree(data, p, msg, Len(local.fed) + buf_len, len)
      /\ Len(local.fed) % BLOCK = 0
  <2>1. len > 0
    BY <1>3
  <2> QED BY <1>2, <1>4, <2>1 DEF StreamInv, NothingLost, EagerBlocks
<1>6. /\ local' \in LaneVectors
      /\ local'.key = local.key /\ local'.mixed = local.mixed
      /\ Len(local'.fed) = Len(local.fed) + BLOCK
      /\ Agree(local'.fed, 0, local.fed, 0, Len(local.fed))
      /\ Agree(local'.fed, Len(local.fed), data, p, BLOCK)
      /\ p' = p + BLOCK /\ p' \in 0..Len(data)
      /\ len' = len - BLOCK /\ len' \in Nat
      /\ p' + len' = Len(data)
  BY BlockAbsorbed
<1>7. TypeOK'
  BY <1>1, <1>6 DEF StreamInv, TypeOK
<1>8. ReadsWithinInput' /\ OneShotWalk'
  BY <1>1, <1>6 DEF ReadsWithinInput, OneShotWalk
<1>9. NothingLost'
  <2>1. PICK used \in Nat, hi \in Nat, next \in Nat, rest \in Nat :
           /\ used = Len(local.fed) /\ hi = used + BLOCK
           /\ next = p + BLOCK /\ rest = len - BLOCK
    BY <1>3
  <2>2. /\ Agree(data, p, msg, used, len)
        /\ BLOCK <= len /\ BLOCK \in Nat /\ Len(local'.fed) = hi
        /\ p <= next /\ next - p = hi - used /\ (next - p) + rest <= len
        /\ Len(msg) = hi + rest
    <3>1. Agree(data, p, msg, used, len)
      <4>1. used = Len(local.fed) + buf_len
        BY <1>5, <2>1
      <4> QED BY <1>5, <4>1
    <3>2. Len(local'.fed) = hi
      BY <1>6, <2>1
    <3>3. Len(msg) = hi + rest
      BY <1>3, <1>5, <2>1
    <3>4. /\ BLOCK <= len /\ BLOCK \in Nat
          /\ p <= next /\ next - p = hi - used /\ (next - p) + rest <= len
      BY <1>3, <2>1
    <3> QED BY <3>1, <3>2, <3>3, <3>4
  <2>3. Agree(local'.fed, 0, msg, 0, hi)
    <3>1. Agree(local'.fed, 0, msg, 0, used)
      BY <1>5, <1>6, <2>1, AgreeTransitive
    <3>2. Agree(data, p, msg, used, BLOCK)
      BY <1>3, <2>2, AgreeShorter
    <3>3. Agree(local'.fed, used, msg, used, BLOCK)
      BY <1>3, <1>6, <2>1, <3>2, AgreeTransitive
    <3>4. used = 0 + used
      BY <2>1
    <3> QED BY <1>3, <2>1, <3>1, <3>3, <3>4, AgreeJoin
  <2>4. Agree(data, next, msg, hi, rest)
    BY <1>3, <2>1, <2>2, AgreePart
  <2>5. p' = next /\ len' = rest /\ hi + 0 = hi
    BY <1>6, <2>1
  <2>6. Agree(buf', 0, msg, hi, 0)
    BY DEF Agree
  <2> QED BY <1>1, <1>4, <1>5, <2>2, <2>3, <2>4, <2>5, <2>6 DEF NothingLost
<1>10. EagerBlocks'
  <2>1. Len(local'.fed) % BLOCK = 0
    BY <1>3, <1>5, <1>6, OneMoreBlock
  <2> QED BY <1>1, <1>4, <1>5, <2>1 DEF EagerBlocks
<1>11. UnmixedUntilSpent'
  BY <1>1, <1>2, <1>6 DEF UnmixedUntilSpent, Updating
<1> QED BY <1>7, <1>8, <1>9, <1>10, <1>11 DEF StreamInv

\* The return from v15_update: what is left, less than a block, goes to an
\* empty buffer, and the lanes go back to the context.
LEMMA InvUpdateTail ==
    ASSUME StreamInv, UpdateTail
    PROVE  StreamInv'
<1>1. /\ pc = "loop" /\ pc' = "idle" /\ len < BLOCK
      /\ UNCHANGED <<ctx, total_bytes, out, seed, msg>>
      /\ lane' = local /\ data' = << >> /\ p' = 0 /\ len' = 0 /\ local' = Junk
  BY DEF UpdateTail, EndCall
<1>2. ctx = "live" /\ local.mixed = FALSE /\ local.key = seed
  BY <1>1 DEF StreamInv, UnmixedUntilSpent, Updating
<1>3. /\ BLOCK \in Nat \ {0} /\ len \in Nat /\ p \in Nat /\ Len(msg) \in Nat
      /\ p + len = Len(data) /\ Len(data) \in Nat
      /\ Len(local.fed) \in Nat /\ buf_len \in 0..BLOCK - 1
  BY <1>1, BlockAssumption DEF StreamInv, TypeOK, LaneVectors, ReadsWithinInput
<1>4. /\ data \in Seq(Bytes) /\ local \in LaneVectors
      /\ buf \in [1..BLOCK -> Cell]
  BY <1>1 DEF StreamInv, TypeOK
<1>5. /\ Absorbed = local.fed /\ Absorbed' = local.fed
      /\ Unread = len /\ Unread' = 0
  BY <1>1 DEF Absorbed, Unread, Updating
<1>6. /\ total_bytes = Len(msg)
      /\ Len(msg) = Len(local.fed) + buf_len + len
      /\ Agree(local.fed, 0, msg, 0, Len(local.fed))
      /\ Agree(buf, 0, msg, Len(local.fed), buf_len)
      /\ Agree(data, p, msg, Len(local.fed) + buf_len, len)
      /\ Len(local.fed) % BLOCK = 0
      /\ len > 0 => buf_len = 0
  BY <1>1, <1>2, <1>5 DEF StreamInv, NothingLost, EagerBlocks
<1>7. /\ buf' \in [1..BLOCK -> Cell] /\ buf_len' \in 0..BLOCK - 1
      /\ Len(msg) = Len(local.fed) + buf_len'
      /\ Agree(buf', 0, msg, Len(local.fed), buf_len')
  <2>1. CASE len > 0
    <3>1. PICK piece \in Seq(Bytes) :
             /\ piece = Load(data, p, len)
             /\ Len(piece) = len /\ Agree(piece, 0, data, p, len)
      BY <1>3, <1>4, LoadBytes
    <3>2. piece \in Seq(Cell)
      BY DEF Cell
    <3>3. buf' = Store(buf, 0, piece) /\ buf_len' = len
      BY <2>1, <3>1 DEF UpdateTail
    <3>4. buf' \in [1..BLOCK -> Cell]
      BY <1>4, <3>2, <3>3, StoreCells
    <3>5. Len(piece) \in Nat /\ 0 + Len(piece) <= BLOCK
      BY <1>1, <1>3, <3>1
    <3>6. Agree(buf', 0, piece, 0, len)
      BY <3>1, <3>3, <3>5, StoreEffect
    <3>7. Agree(data, p, msg, Len(local.fed), len)
      BY <1>3, <1>6, <2>1
    <3>8. Agree(buf', 0, data, p, len)
      BY <1>3, <3>1, <3>6, AgreeTransitive
    <3>9. Agree(buf', 0, msg, Len(local.fed), len)
      BY <1>3, <3>7, <3>8, AgreeTransitive
    <3>10. len \in 0..BLOCK - 1 /\ Len(msg) = Len(local.fed) + len
      BY <1>1, <1>3, <1>6, <2>1
    <3> QED BY <3>3, <3>4, <3>9, <3>10
  <2>2. CASE len = 0
    <3>1. UNCHANGED <<buf, buf_len>>
      BY <2>2 DEF UpdateTail
    <3> QED BY <1>3, <1>4, <1>6, <2>2, <3>1
  <2> QED BY <1>3, <2>1, <2>2
<1>8. TypeOK'
  BY <1>1, <1>2, <1>4, <1>7 DEF StreamInv, TypeOK
<1>9. ReadsWithinInput' /\ OneShotWalk'
  BY <1>1 DEF ReadsWithinInput, OneShotWalk
<1>10. NothingLost'
  <2>1. /\ Len(local.fed) + buf_len' \in Nat
        /\ Len(msg) = Len(local.fed) + buf_len' + 0
    BY <1>3, <1>7
  <2>2. Agree(data', p', msg', Len(local.fed) + buf_len', 0)
    BY DEF Agree
  <2> QED BY <1>1, <1>5, <1>6, <1>7, <2>1, <2>2 DEF NothingLost
<1>11. EagerBlocks'
  BY <1>1, <1>5, <1>6 DEF EagerBlocks
<1>12. UnmixedUntilSpent'
  BY <1>1, <1>2 DEF UnmixedUntilSpent, Updating
<1> QED BY <1>8, <1>9, <1>10, <1>11, <1>12 DEF StreamInv
-----------------------------------------------------------------------------
(* The secret padding *)

\* The part of the secret that completes n bytes of a block.
LEMMA SecretTail ==
    ASSUME NEW n \in 1..BLOCK - 1
    PROVE  /\ SubSeq(Secret, n + 1, BLOCK) \in Seq(Bytes)
           /\ Len(SubSeq(Secret, n + 1, BLOCK)) = BLOCK - n
           /\ \A k \in 1..BLOCK - n : SubSeq(Secret, n + 1, BLOCK)[k] = Secret[n + k]
<1>1. BLOCK \in Int /\ n + 1 \in Int /\ n + 1 <= BLOCK /\ n \in Nat
  BY BlockAssumption
<1>2. \A i \in n + 1..BLOCK : Secret[i] \in Bytes
  BY <1>1, SecretAssumption
<1>3. /\ SubSeq(Secret, n + 1, BLOCK) \in Seq(Bytes)
      /\ Len(SubSeq(Secret, n + 1, BLOCK)) = BLOCK - (n + 1) + 1
      /\ \A k \in 1..BLOCK - (n + 1) + 1 :
            SubSeq(Secret, n + 1, BLOCK)[k] = Secret[(n + 1) + k - 1]
  BY <1>1, <1>2, SubSeqProperties
<1>4. BLOCK - (n + 1) + 1 = BLOCK - n
  BY <1>1
<1>5. ASSUME NEW k \in 1..BLOCK - n
      PROVE  (n + 1) + k - 1 = n + k
  BY <1>1
<1> QED BY <1>3, <1>4, <1>5

\* Padding a partial block of bytes gives a block of bytes: the bytes that
\* were there, then the secret's.
LEMMA PaddedBlock ==
    ASSUME NEW b \in [1..BLOCK -> Cell], NEW n \in 1..BLOCK - 1,
           \A k \in 1..n : b[k] \in Bytes
    PROVE  /\ PadTail(b, n) \in Seq(Bytes)
           /\ Len(PadTail(b, n)) = BLOCK
           /\ Agree(PadTail(b, n), 0, b, 0, n)
           /\ \A k \in n + 1..BLOCK : PadTail(b, n)[k] = Secret[k]
<1>1. BLOCK \in Nat \ {0} /\ n \in Nat /\ n + 1 \in 1..BLOCK
  BY BlockAssumption
<1>3. PICK src \in Seq(Bytes) :
         /\ src = SubSeq(Secret, n + 1, BLOCK)
         /\ Len(src) = BLOCK - n
         /\ \A k \in 1..BLOCK - n : src[k] = Secret[n + k]
  BY SecretTail
<1>4. src \in Seq(Cell) /\ Len(src) \in Nat /\ n + Len(src) <= BLOCK
  BY <1>1, <1>3 DEF Cell
<1>5. PICK tail \in [1..BLOCK -> Cell] :
         /\ tail = PadTail(b, n)
         /\ Agree(tail, 0, b, 0, n)
         /\ Agree(tail, n, src, 0, Len(src))
  <2>1. PadTail(b, n) = Store(b, n, src)
    BY <1>3 DEF PadTail
  <2> QED BY <1>1, <1>4, <2>1, StoreCells, StoreEffect
<1>6. \A k \in n + 1..BLOCK : tail[k] = Secret[k]
  <2> SUFFICES ASSUME NEW k \in n + 1..BLOCK
               PROVE  tail[k] = Secret[k]
    OBVIOUS
  <2>1. PICK l \in 1..BLOCK - n : k = n + l /\ l = 0 + l
    BY <1>1
  <2>2. tail[n + l] = src[0 + l]
    BY <1>3, <1>5, <2>1 DEF Agree
  <2> QED BY <1>3, <2>1, <2>2
<1>7. \A k \in 1..BLOCK : tail[k] \in Bytes
  <2> SUFFICES ASSUME NEW k \in 1..BLOCK
               PROVE  tail[k] \in Bytes
    OBVIOUS
  <2>1. CASE k <= n
    <3>1. k \in 1..n /\ 0 + k = k
      BY <1>1, <2>1
    <3> QED BY <1>5, <3>1 DEF Agree
  <2>2. CASE k > n
    <3>1. k \in n + 1..BLOCK
      BY <1>1, <2>2
    <3> QED BY <1>6, <3>1, SecretAssumption
  <2> QED BY <1>1, <2>1, <2>2
<1>8. tail \in Seq(Bytes) /\ Len(tail) = BLOCK
  BY <1>1, <1>7
<1> QED BY <1>5, <1>6, <1>8

\* Whole blocks of a message followed by its padded rest are the message with
\* its padding.
LEMMA PaddedMessage ==
    ASSUME NEW m \in Seq(Bytes), NEW fed \in Seq(Bytes), NEW block \in Seq(Bytes),
           NEW n \in 1..BLOCK - 1,
           Len(fed) % BLOCK = 0, Len(m) = Len(fed) + n, Len(block) = BLOCK,
           Agree(fed, 0, m, 0, Len(fed)), Agree(block, 0, m, Len(fed), n),
           \A k \in n + 1..BLOCK : block[k] = Secret[k]
    PROVE  fed \o block = Padded(m)
<1>1. BLOCK \in Nat \ {0} /\ n \in Nat /\ n \in 0..BLOCK - 1 /\ n + 1 \in 1..BLOCK
  BY BlockAssumption
<1>3. TailLen(m) = n
  BY <1>1, RestOfBlocks DEF TailLen
<1>4. PICK src \in Seq(Bytes) :
         /\ src = SubSeq(Secret, n + 1, BLOCK)
         /\ Len(src) = BLOCK - n
         /\ \A k \in 1..BLOCK - n : src[k] = Secret[n + k]
  BY SecretTail
<1>5. Padded(m) = m \o src
  BY <1>1, <1>3, <1>4 DEF Padded
<1>6. PICK one \in Seq(Bytes) :
         /\ one = fed \o block
         /\ Len(one) = Len(fed) + BLOCK
         /\ Agree(one, 0, fed, 0, Len(fed))
         /\ Agree(one, Len(fed), block, 0, BLOCK)
  BY ConcatElements
<1>7. PICK two \in Seq(Bytes) :
         /\ two = m \o src
         /\ Len(two) = Len(m) + Len(src)
         /\ Agree(two, 0, m, 0, Len(m))
         /\ Agree(two, Len(m), src, 0, Len(src))
  BY ConcatElements
<1>8. PICK a \in Nat : a = Len(fed)
  OBVIOUS
<1>9. Len(one) = a + BLOCK /\ Len(two) = a + BLOCK /\ Len(m) = a + n
  BY <1>1, <1>4, <1>6, <1>7, <1>8
<1>10. ASSUME NEW k \in 1..a + BLOCK
       PROVE  one[k] = two[k]
  <2>1. CASE k <= a
    <3>1. k \in 1..a /\ k \in 1..Len(m) /\ 0 + k = k
      BY <1>1, <1>9, <2>1
    <3>2. one[k] = fed[k] /\ fed[k] = m[k] /\ two[k] = m[k]
      BY <1>6, <1>7, <1>8, <3>1 DEF Agree
    <3> QED BY <3>2
  <2>2. CASE k > a /\ k <= a + n
    <3>1. PICK l \in 1..n : k = a + l /\ l \in 1..BLOCK /\ 0 + l = l
      BY <1>1, <2>2
    <3>2. one[a + l] = block[l] /\ block[l] = m[a + l]
      BY <1>6, <1>8, <3>1 DEF Agree
    <3>3. k \in 1..Len(m) /\ 0 + k = k
      BY <1>9, <2>2
    <3>4. two[k] = m[k]
      BY <1>7, <3>3 DEF Agree
    <3> QED BY <3>1, <3>2, <3>4
  <2>3. CASE k > a + n
    <3>1. PICK l \in 1..BLOCK - n :
             /\ k = (a + n) + l /\ 0 + l = l
             /\ n + l \in n + 1..BLOCK /\ n + l \in 1..BLOCK /\ k = a + (n + l)
             /\ 0 + (n + l) = n + l
      BY <1>1, <2>3
    <3>2. one[a + (n + l)] = block[n + l] /\ block[n + l] = Secret[n + l]
      BY <1>6, <1>8, <3>1 DEF Agree
    <3>3. two[(a + n) + l] = src[0 + l]
      <4>1. Agree(two, a + n, src, 0, BLOCK - n)
        BY <1>4, <1>7, <1>9
      <4> QED BY <4>1 DEF Agree
    <3>4. src[l] = Secret[n + l]
      BY <1>4
    <3>5. one[k] = Secret[n + l]
      BY <3>1, <3>2
    <3>6. two[k] = Secret[n + l]
      BY <3>1, <3>3, <3>4
    <3> QED BY <3>5, <3>6
  <2>4. k <= a \/ (k > a /\ k <= a + n) \/ k > a + n
    BY <1>1
  <2> QED BY ONLY <2>1, <2>2, <2>3, <2>4
<1>11. one = two
  <2>1. \A k \in 1..Len(one) : one[k] = two[k]
    BY <1>9, <1>10
  <2> QED BY <1>9, <2>1, SeqEqual
<1> QED BY <1>5, <1>6, <1>7, <1>11

\* A message of whole blocks needs no padding.
LEMMA UnpaddedMessage ==
    ASSUME NEW m \in Seq(Bytes), NEW fed \in Seq(Bytes),
           Len(fed) % BLOCK = 0, Len(m) = Len(fed), Agree(fed, 0, m, 0, Len(fed))
    PROVE  fed = Padded(m)
<1>1. TailLen(m) = 0
  BY DEF TailLen
<1>2. \A k \in 1..Len(fed) : fed[k] = m[k]
  BY DEF Agree
<1>3. fed = m
  BY <1>2, SeqEqual
<1> QED BY <1>1, <1>3 DEF Padded
-----------------------------------------------------------------------------
(* The digests *)

\* Lanes that have absorbed a padded message finalize to its digest.
LEMMA FinalDigest ==
    ASSUME NEW l \in LaneVectors, NEW m \in Seq(Bytes), NEW n \in Nat,
           n = Len(m), l.fed = Padded(m)
    PROVE  /\ butterfly_mix(l) \in LaneVectors
           /\ finalize_state(l, n) \in Digests
           /\ finalize_state(l, n) = ReferenceHash(l.key, m)
<1>1. l.key \in Seeds /\ l.fed \in Seq(Bytes)
  BY DEF LaneVectors
<1>2. PICK mix \in LaneVectors :
         /\ mix = butterfly_mix(l)
         /\ mix.key = l.key /\ mix.fed = l.fed /\ mix.mixed = TRUE
  <2>1. /\ butterfly_mix(l) \in LaneVectors
        /\ butterfly_mix(l).key = l.key
        /\ butterfly_mix(l).fed = l.fed
        /\ butterfly_mix(l).mixed = TRUE
    BY DEF butterfly_mix, LaneVectors
  <2> QED BY <2>1
<1>3. mix = [key |-> l.key, fed |-> l.fed, mixed |-> TRUE]
  <2>1. mix = [key |-> mix.key, fed |-> mix.fed, mixed |-> mix.mixed]
    BY DEF LaneVectors
  <2> QED BY <1>2, <2>1
<1>4. finalize_state(l, n) = [lanes |-> mix, length |-> n]
  BY <1>2 DEF finalize_state
<1>5. finalize_state(l, n) \in Digests
  BY <1>4 DEF Digests
<1>6. ReferenceHash(l.key, m) =
          [lanes |-> [key |-> l.key, fed |-> l.fed, mixed |-> TRUE], length |-> n]
  BY DEF ReferenceHash
<1>7. finalize_state(l, n) = ReferenceHash(l.key, m)
  BY <1>3, <1>4, <1>6
<1> QED BY <1>2, <1>5, <1>7

\* v15_finalize pads the partial block, if there is one, and returns the
\* digest of the whole message.
LEMMA InvFinalize ==
    ASSUME StreamInv, Finalize
    PROVE  StreamInv' /\ out' = ReferenceHash(seed, msg)
<1>1. /\ pc = "idle" /\ pc' = "idle" /\ ctx = "live" /\ ctx' = "spent"
      /\ buf_len' = 0
      /\ UNCHANGED <<total_bytes, data, p, len, local, seed, msg>>
  BY DEF Finalize, callVars
<1>2. lane.mixed = FALSE /\ lane.key = seed
  BY <1>1 DEF StreamInv, UnmixedUntilSpent
<1>3. /\ BLOCK \in Nat \ {0} /\ buf_len \in 0..BLOCK - 1 /\ buf_len \in Nat
      /\ Len(msg) \in Nat /\ Len(lane.fed) \in Nat
  BY <1>1, BlockAssumption DEF StreamInv, TypeOK, LaneVectors
<1>4. /\ buf \in [1..BLOCK -> Cell] /\ msg \in Seq(Bytes) /\ seed \in Seeds
      /\ lane \in LaneVectors /\ lane.fed \in Seq(Bytes)
  BY <1>1 DEF StreamInv, TypeOK, LaneVectors
<1>5. /\ total_bytes = Len(msg)
      /\ Len(msg) = Len(lane.fed) + buf_len
      /\ Agree(lane.fed, 0, msg, 0, Len(lane.fed))
      /\ Agree(buf, 0, msg, Len(lane.fed), buf_len)
      /\ Len(lane.fed) % BLOCK = 0
  <2>1. Absorbed = lane.fed /\ Unread = 0
    BY <1>1 DEF Absorbed, Unread, Updating
  <2>2. /\ total_bytes = Len(msg)
        /\ Len(msg) = Len(lane.fed) + buf_len + 0
        /\ Agree(lane.fed, 0, msg, 0, Len(lane.fed))
        /\ Agree(buf, 0, msg, Len(lane.fed), buf_len)
        /\ Len(lane.fed) % BLOCK = 0
    BY <1>1, <2>1 DEF StreamInv, NothingLost, EagerBlocks
  <2>3. Len(lane.fed) + buf_len + 0 = Len(lane.fed) + buf_len
    BY <1>3
  <2> QED BY <2>2, <2>3
<1>6. /\ out' = ReferenceHash(seed, msg) /\ out' \in Digests
      /\ lane' \in LaneVectors /\ buf' \in [1..BLOCK -> Cell]
  <2>1. CASE buf_len > 0
    <3>1. buf_len \in 1..BLOCK - 1
      BY <1>3, <2>1
    <3>2. \A k \in 1..buf_len : buf[k] \in Bytes
      <4>1. Len(lane.fed) + buf_len <= Len(msg) /\ 0 \in Nat
        BY <1>3, <1>5
      <4>2. \A k \in 1..buf_len : buf[0 + k] \in Bytes
        BY ONLY <1>3, <1>4, <1>5, <4>1, AgreeBytes
      <4>3. \A k \in 1..buf_len : 0 + k = k
        BY <1>3
      <4> QED BY <4>2, <4>3
    <3>3. PICK tail \in Seq(Bytes) :
             /\ tail = PadTail(buf, buf_len)
             /\ Len(tail) = BLOCK
             /\ Agree(tail, 0, buf, 0, buf_len)
             /\ \A k \in buf_len + 1..BLOCK : tail[k] = Secret[k]
      BY <1>4, <3>1, <3>2, PaddedBlock
    <3>4. buf' = tail
      BY <2>1, <3>3 DEF Finalize
    <3>5. tail \in [1..BLOCK -> Cell]
      BY <3>3 DEF Cell
    <3>6. Agree(tail, 0, msg, Len(lane.fed), buf_len)
      BY <1>3, <1>5, <3>3, AgreeTransitive
    <3>7. lane.fed \o tail = Padded(msg)
      <4>1. /\ Len(lane.fed) % BLOCK = 0 /\ Len(msg) = Len(lane.fed) + buf_len
            /\ Agree(lane.fed, 0, msg, 0, Len(lane.fed))
        BY <1>5
      <4>2. Len(tail) = BLOCK /\ \A k \in buf_len + 1..BLOCK : tail[k] = Secret[k]
        BY <3>3
      <4>3. tail \in Seq(Bytes) /\ msg \in Seq(Bytes) /\ lane.fed \in Seq(Bytes)
        BY <1>4, <3>3
      <4> QED BY ONLY <3>1, <3>6, <4>1, <4>2, <4>3, PaddedMessage
    <3>8. PICK l \in LaneVectors :
             l = process_block(lane, tail) /\ l.key = seed /\ l.fed = Padded(msg)
      <4>1. /\ process_block(lane, tail) \in LaneVectors
            /\ process_block(lane, tail).key = lane.key
            /\ process_block(lane, tail).fed = lane.fed \o tail
        BY <1>4, AbsorbedBlock
      <4>2. lane.key = seed
        BY <1>2, <1>4
      <4> QED BY <3>7, <4>1, <4>2
    <3>9. lane' = butterfly_mix(l) /\ out' = finalize_state(l, total_bytes)
      BY <2>1, <3>4, <3>8 DEF Finalize
    <3> QED BY <1>3, <1>4, <1>5, <3>4, <3>5, <3>8, <3>9, FinalDigest
  <2>2. CASE buf_len = 0
    <3>1. /\ lane' = butterfly_mix(lane) /\ out' = finalize_state(lane, total_bytes)
          /\ buf' = buf
      BY <2>2 DEF Finalize
    <3>2. Len(msg) = Len(lane.fed)
      BY <1>3, <1>5, <2>2
    <3>3. lane.fed = Padded(msg)
      BY <1>4, <1>5, <3>2, UnpaddedMessage
    <3> QED BY <1>2, <1>3, <1>4, <1>5, <3>1, <3>3, FinalDigest
  <2> QED BY <1>3, <2>1, <2>2
<1>10. TypeOK'
  BY <1>1, <1>3, <1>6 DEF StreamInv, TypeOK
<1>11. ReadsWithinInput' /\ NothingLost' /\ EagerBlocks' /\ OneShotWalk'
  BY <1>1 DEF ReadsWithinInput, NothingLost, EagerBlocks, OneShotWalk
<1>12. UnmixedUntilSpent'
  BY <1>1 DEF UnmixedUntilSpent, Updating
<1> QED BY <1>6, <1>10, <1>11, <1>12 DEF StreamInv

\* v15_one_shot starts on lanes of its own and leaves the context alone.
LEMMA InvOneShot ==
    ASSUME StreamInv, NEW s \in Seeds, NEW d \in Inputs, OneShot(s, d)
    PROVE  StreamInv'
<1>1. /\ pc = "idle" /\ pc' = "hash" /\ data' = d /\ p' = 0 /\ len' = Len(d)
      /\ local' = init_lanes(s) /\ out' = NoDigest
      /\ UNCHANGED <<ctx, lane, total_bytes, buf_len, buf, seed, msg>>
  BY DEF OneShot, ctxVars
<1>2. d \in Seq(Bytes) /\ Len(d) \in Nat
  BY InputsAssumption
<1>3. local' \in LaneVectors /\ local'.fed = << >> /\ local'.mixed = FALSE
  BY <1>1 DEF init_lanes, LaneVectors
<1>4. TypeOK'
  BY <1>1, <1>2, <1>3 DEF StreamInv, TypeOK
<1>5. ReadsWithinInput'
  BY <1>1, <1>2 DEF ReadsWithinInput
<1>6. Absorbed' = Absorbed /\ Unread' = 0 /\ Unread = 0
  BY <1>1 DEF Absorbed, Unread, Updating
<1>7. NothingLost'
  <2>1. Agree(data', p', msg', Len(Absorbed') + buf_len', Unread')
    BY <1>6 DEF Agree
  <2> QED BY <1>1, <1>6, <2>1 DEF StreamInv, NothingLost
<1>8. EagerBlocks'
  BY <1>1, <1>6 DEF StreamInv, EagerBlocks
<1>9. OneShotWalk'
  BY <1>1, <1>3, NoBlocks DEF OneShotWalk, Agree
<1>10. UnmixedUntilSpent'
  BY <1>1, <1>3 DEF StreamInv, UnmixedUntilSpent, Updating
<1> QED BY <1>4, <1>5, <1>7, <1>8, <1>9, <1>10 DEF StreamInv

\* A block of v15_one_shot's loops.
LEMMA InvHashBlock ==
    ASSUME StreamInv, pc = "hash", len >= BLOCK, AbsorbBlock
    PROVE  StreamInv'
<1>1. UNCHANGED <<pc, data, ctx, lane, total_bytes, buf_len, buf, out, seed, msg>>
  BY DEF AbsorbBlock, ctxVars
<1>2. /\ local' \in LaneVectors
      /\ local'.key = local.key /\ local'.mixed = local.mixed
      /\ Len(local'.fed) = Len(local.fed) + BLOCK
      /\ Agree(local'.fed, 0, local.fed, 0, Len(local.fed))
      /\ Agree(local'.fed, Len(local.fed), data, p, BLOCK)
      /\ p' = p + BLOCK /\ p' \in 0..Len(data)
      /\ len' = len - BLOCK /\ len' \in Nat
      /\ p' + len' = Len(data)
  BY BlockAbsorbed
<1>3. /\ Len(local.fed) = p /\ Agree(local.fed, 0, data, 0, p) /\ p % BLOCK = 0
      /\ data \in Inputs /\ local.mixed = FALSE
  BY DEF StreamInv, OneShotWalk, UnmixedUntilSpent
<1>4. BLOCK \in Nat \ {0} /\ p \in Nat
  BY BlockAssumption DEF StreamInv, TypeOK
<1>5. TypeOK'
  BY <1>1, <1>2 DEF StreamInv, TypeOK
<1>6. ReadsWithinInput'
  BY <1>1, <1>2 DEF ReadsWithinInput
<1>7. Absorbed' = Absorbed /\ Unread' = 0 /\ Unread = 0
  BY <1>1 DEF Absorbed, Unread, Updating
<1>8. NothingLost'
  <2>1. Agree(data', p', msg', Len(Absorbed') + buf_len', Unread')
    BY <1>7 DEF Agree
  <2> QED BY <1>1, <1>7, <2>1 DEF StreamInv, NothingLost
<1>9. EagerBlocks'
  BY <1>1, <1>7 DEF StreamInv, EagerBlocks
<1>10. OneShotWalk'
  <2>1. PICK next \in Nat : next = p + BLOCK
    BY <1>4
  <2>2. p' = next /\ Len(local'.fed) = next /\ next % BLOCK = 0
    BY <1>2, <1>3, <1>4, <2>1, OneMoreBlock
  <2>3. Agree(local'.fed, 0, data, 0, p)
    BY <1>2, <1>3, <1>4, AgreeTransitive
  <2>4. Agree(local'.fed, p, data, p, BLOCK)
    BY <1>2, <1>3
  <2>5. p = 0 + p
    BY <1>4
  <2>6. Agree(local'.fed, 0, data, 0, next)
    BY <1>4, <2>1, <2>3, <2>4, <2>5, AgreeJoin
  <2> QED BY <1>1, <1>3, <2>2, <2>6 DEF OneShotWalk
<1>11. UnmixedUntilSpent'
  BY <1>1, <1>2, <1>3 DEF StreamInv, UnmixedUntilSpent, Updating
<1> QED BY <1>5, <1>6, <1>8, <1>9, <1>10, <1>11 DEF StreamInv

\* The padded rest and the digest of v15_one_shot.
LEMMA InvHashTail ==
    ASSUME StreamInv, HashTail
    PROVE  StreamInv' /\ out' = ReferenceHash(local.key, data)
<1>1. /\ pc = "hash" /\ pc' = "idle" /\ len < BLOCK
      /\ data' = << >> /\ p' = 0 /\ len' = 0 /\ local' = Junk
      /\ UNCHANGED <<ctx, lane, total_bytes, buf_len, buf, seed, msg>>
  BY DEF HashTail, EndCall, ctxVars
<1>2. /\ BLOCK \in Nat \ {0} /\ len \in Nat /\ p \in Nat /\ Len(data) \in Nat
      /\ p + len = Len(data)
  BY <1>1, BlockAssumption DEF StreamInv, TypeOK, ReadsWithinInput
<1>3. /\ data \in Seq(Bytes) /\ local \in LaneVectors /\ local.fed \in Seq(Bytes)
      /\ local.mixed = FALSE /\ local.key \in Seeds
  BY <1>1 DEF StreamInv, TypeOK, LaneVectors, UnmixedUntilSpent
<1>4. /\ Len(local.fed) = p /\ Agree(local.fed, 0, data, 0, p) /\ p % BLOCK = 0
  BY <1>1 DEF StreamInv, OneShotWalk
<1>5. out' = ReferenceHash(local.key, data) /\ out' \in Digests
  <2>1. CASE len > 0
    <3>1. PICK piece \in Seq(Bytes) :
             /\ piece = Load(data, p, len)
             /\ Len(piece) = len /\ Agree(piece, 0, data, p, len)
      BY <1>2, <1>3, LoadBytes
    <3>2. piece \in Seq(Cell) /\ Len(piece) \in Nat /\ 0 + Len(piece) <= BLOCK
          /\ len \in 1..BLOCK - 1
      BY <1>1, <1>2, <2>1, <3>1 DEF Cell
    <3>3. Uninitialized \in [1..BLOCK -> Cell]
      BY DEF Uninitialized, Cell
    <3>4. PICK b \in [1..BLOCK -> Cell] :
             b = Store(Uninitialized, 0, piece) /\ Agree(b, 0, piece, 0, len)
      BY <3>1, <3>2, <3>3, StoreCells, StoreEffect
    <3>5. \A k \in 1..len : b[k] \in Bytes
      <4>1. \A k \in 1..len : 0 + k = k /\ piece[k] \in Bytes
        BY <1>2, <3>1
      <4> QED BY <3>4, <4>1 DEF Agree
    <3>6. PICK tail \in Seq(Bytes) :
             /\ tail = PadTail(b, len)
             /\ Len(tail) = BLOCK
             /\ Agree(tail, 0, b, 0, len)
             /\ \A k \in len + 1..BLOCK : tail[k] = Secret[k]
      BY <3>2, <3>5, PaddedBlock
    <3>7. Agree(tail, 0, data, Len(local.fed), len)
      <4>1. Agree(tail, 0, piece, 0, len)
        BY <1>2, <3>4, <3>6, AgreeTransitive
      <4>2. Agree(tail, 0, data, p, len)
        BY <1>2, <3>1, <4>1, AgreeTransitive
      <4> QED BY <1>4, <4>2
    <3>8. /\ Len(data) = Len(local.fed) + len /\ Len(local.fed) % BLOCK = 0
          /\ Agree(local.fed, 0, data, 0, Len(local.fed))
      BY <1>2, <1>4
    <3>9. local.fed \o tail = Padded(data)
      <4>1. /\ data \in Seq(Bytes) /\ local.fed \in Seq(Bytes)
            /\ len \in 1..BLOCK - 1 /\ Len(tail) = BLOCK
            /\ \A k \in len + 1..BLOCK : tail[k] = Secret[k]
        BY <1>3, <3>2, <3>6
      <4> QED BY ONLY <4>1, <3>6, <3>7, <3>8, PaddedMessage
    <3>10. PICK l \in LaneVectors :
              /\ l = process_block(local, tail)
              /\ l.key = local.key /\ l.fed = Padded(data)
      <4>1. /\ process_block(local, tail) \in LaneVectors
            /\ process_block(local, tail).key = local.key
            /\ process_block(local, tail).fed = local.fed \o tail
        BY <1>3, AbsorbedBlock
      <4> QED BY <3>9, <4>1
    <3>11. out' = finalize_state(l, Len(data))
      BY <2>1, <3>1, <3>4, <3>6, <3>10 DEF HashTail
    <3> QED BY <1>2, <1>3, <3>10, <3>11, FinalDigest
  <2>2. CASE len = 0
    <3>1. /\ Len(data) = Len(local.fed) /\ Len(local.fed) % BLOCK = 0
          /\ Agree(local.fed, 0, data, 0, Len(local.fed))
      BY <1>2, <1>4, <2>2
    <3>2. local.fed = Padded(data)
      BY <1>3, <3>1, UnpaddedMessage
    <3>3. out' = finalize_state(local, Len(data))
      BY <2>2 DEF HashTail
    <3> QED BY <1>2, <1>3, <3>2, <3>3, FinalDigest
  <2> QED BY <1>2, <2>1, <2>2
<1>9. TypeOK'
  BY <1>1, <1>5 DEF StreamInv, TypeOK
<1>10. ReadsWithinInput' /\ OneShotWalk'
  BY <1>1 DEF ReadsWithinInput, OneShotWalk
<1>11. Absorbed' = Absorbed /\ Unread' = 0 /\ Unread = 0
  BY <1>1 DEF Absorbed, Unread, Updating
<1>12. NothingLost'
  <2>1. Agree(data', p', msg', Len(Absorbed') + buf_len', Unread')
    BY <1>11 DEF Agree
  <2> QED BY <1>1, <1>11, <2>1 DEF StreamInv, NothingLost
<1>13. EagerBlocks'
  BY <1>1, <1>11 DEF StreamInv, EagerBlocks
<1>14. UnmixedUntilSpent'
  BY <1>1 DEF StreamInv, UnmixedUntilSpent, Updating
<1> QED BY <1>5, <1>9, <1>10, <1>12, <1>13, <1>14 DEF StreamInv
-----------------------------------------------------------------------------
(* The theorems *)

\* The invariant survives every step of the backend.
LEMMA InvNext == StreamInv /\ [Next]_vars => StreamInv'
<1> SUFFICES ASSUME StreamInv, [Next]_vars PROVE StreamInv'
  OBVIOUS
<1>1. ASSUME NEW s \in Seeds, New(s) PROVE StreamInv'
  BY <1>1, InvNew
<1>2. ASSUME NEW d \in Inputs, UpdateFast(d) PROVE StreamInv'
  BY <1>2, InvUpdateFast
<1>3. ASSUME NEW d \in Inputs, UpdateSlow(d) PROVE StreamInv'
  BY <1>3, InvUpdateSlow
<1>4. CASE Finalize
  BY <1>4, InvFinalize
<1>5. CASE Free
  BY <1>5, InvFree
<1>6. ASSUME NEW s \in Seeds, NEW d \in Inputs, OneShot(s, d) PROVE StreamInv'
  BY <1>6, InvOneShot
<1>7. CASE Fill
  BY <1>7, InvFill
<1>8. len >= BLOCK * 2 => len >= BLOCK
  BY BlockAssumption DEF StreamInv, TypeOK
<1>9. CASE UpdateLookAhead \/ UpdateBlock
  <2>1. pc = "loop" /\ len >= BLOCK /\ AbsorbBlock
    BY <1>8, <1>9 DEF UpdateLookAhead, UpdateBlock
  <2> QED BY <2>1, InvUpdateBlock
<1>10. CASE UpdateTail
  BY <1>10, InvUpdateTail
<1>11. CASE HashLookAhead \/ HashBlock
  <2>1. pc = "hash" /\ len >= BLOCK /\ AbsorbBlock
    BY <1>8, <1>11 DEF HashLookAhead, HashBlock
  <2> QED BY <2>1, InvHashBlock
<1>12. CASE HashTail
  BY <1>12, InvHashTail
<1>13. CASE UNCHANGED vars
  <2>1. UNCHANGED <<ctx, lane, total_bytes, buf_len, buf, pc, data, p, len,
                    local, out, seed, msg>>
    BY <1>13 DEF vars, ctxVars, callVars
  <2> QED BY <2>1 DEF StreamInv, TypeOK, ReadsWithinInput, NothingLost,
             EagerBlocks, OneShotWalk, UnmixedUntilSpent, Absorbed, Unread, Updating
<1> QED BY <1>1, <1>2, <1>3, <1>4, <1>5, <1>6, <1>7, <1>9, <1>10, <1>11, <1>12,
           <1>13 DEF Next, Call, Return

\* At every step of every call the buffer, the lanes and the unread input are
\* the message the caller has given, cut where v15_update is.
THEOREM StreamCorrect == Spec => []StreamInv
<1>1. Init => StreamInv
  BY InvInit
<1>2. StreamInv /\ [Next]_vars => StreamInv'
  BY InvNext
<1> QED BY <1>1, <1>2, PTL DEF Spec

\* The fields of the context and the locals of a call stay in their ranges:
\* buf_len never reaches a block, no indeterminate byte reaches a lane.
THEOREM TypeCorrect == Spec => []TypeOK
<1>1. StreamInv => TypeOK
  BY DEF StreamInv
<1> QED BY <1>1, StreamCorrect, PTL

\* Both paths of v15_update and the one-shot loops read the caller's input and
\* nothing past it.
THEOREM ReadsStayInside == Spec => []ReadsWithinInput
<1>1. StreamInv => ReadsWithinInput
  BY DEF StreamInv
<1> QED BY <1>1, StreamCorrect, PTL

\* v15_update loses, repeats and moves no byte.
THEOREM NothingIsLost == Spec => []NothingLost
<1>1. StreamInv => NothingLost
  BY DEF StreamInv
<1> QED BY <1>1, StreamCorrect, PTL

\* The lanes absorb whole blocks, as soon as they are complete.
THEOREM BlocksAreEager == Spec => []EagerBlocks
<1>1. StreamInv => EagerBlocks
  BY DEF StreamInv
<1> QED BY <1>1, StreamCorrect, PTL

\* Every step of the backend is a step the C interface promises, or none.
LEMMA StepsKeepPromise ==
    StreamInv /\ [Next]_vars => [Promise!Next]_(Promise!vars)
<1> SUFFICES ASSUME StreamInv, [Next]_vars
             PROVE  [Promise!Next]_(Promise!vars)
  OBVIOUS
<1> USE DEF Promise!Next, Promise!vars
<1>1. ASSUME NEW s \in Seeds, New(s) PROVE Promise!Next
  <2>1. Promise!Open(s)
    BY <1>1 DEF New, Promise!Open
  <2> QED BY <2>1
<1>2. ASSUME NEW d \in Inputs, UpdateFast(d) \/ UpdateSlow(d) PROVE Promise!Next
  <2>1. Promise!Update(d)
    BY <1>2 DEF UpdateFast, UpdateSlow, Promise!Update
  <2> QED BY <2>1
<1>3. CASE Finalize
  <2>1. out' = ReferenceHash(seed, msg)
    BY <1>3, InvFinalize
  <2>2. ctx = "live" /\ ctx' = "spent" /\ UNCHANGED <<seed, msg>>
    BY <1>3 DEF Finalize
  <2>3. Promise!Finalize
    BY <2>1, <2>2 DEF Promise!Finalize
  <2> QED BY <2>3
<1>4. CASE Free
  <2>1. Promise!Close
    BY <1>4 DEF Free, NoContext, Promise!Close
  <2> QED BY <2>1
<1>5. ASSUME NEW s \in Seeds, NEW d \in Inputs, OneShot(s, d) PROVE Promise!Next
  <2>1. Promise!Begin
    BY <1>5 DEF OneShot, ctxVars, Promise!Begin
  <2> QED BY <2>1
<1>6. CASE HashTail
  <2>1. out' = ReferenceHash(local.key, data)
    BY <1>6, InvHashTail
  <2>2. local.key \in Seeds /\ data \in Inputs
    BY <1>6 DEF HashTail, StreamInv, TypeOK, LaneVectors, OneShotWalk
  <2>3. UNCHANGED <<ctx, seed, msg>>
    BY <1>6 DEF HashTail, ctxVars
  <2>4. Promise!OneShot(local.key, data)
    BY <2>1, <2>3 DEF Promise!OneShot
  <2> QED BY <2>2, <2>4
<1>7. CASE Fill \/ UpdateLookAhead \/ UpdateBlock \/ UpdateTail
           \/ HashLookAhead \/ HashBlock \/ UNCHANGED vars
  BY <1>7 DEF Fill, UpdateLookAhead, UpdateBlock, UpdateTail, HashLookAhead,
              HashBlock, AbsorbBlock, vars, ctxVars
<1> QED BY <1>1, <1>2, <1>3, <1>4, <1>5, <1>6, <1>7 DEF Next, Call, Return

\* The backend implements the C interface: river5_finalize of a message given
\* in any number of river5_update calls and river5_hash of the whole message
\* return one digest, that of the message cut into blocks and padded.
THEOREM Implements == Spec => KeepsPromise
<1>1. Init => Promise!Init
  BY DEF Init, Promise!Init
<1>2. StreamInv /\ [Next]_vars => [Promise!Next]_(Promise!vars)
  BY StepsKeepPromise
<1> QED BY <1>1, <1>2, StreamCorrect, PTL DEF Spec, KeepsPromise, Promise!Spec

\* The digest keeps two messages, and two seeds, apart: a message that ends in
\* the bytes of the secret and one that is padded with them have different
\* lengths, and the length fold of finalize_state is what tells them apart.
THEOREM DigestDeterminesMessage ==
    ASSUME NEW s \in Seeds, NEW s2 \in Seeds,
           NEW m \in Seq(Bytes), NEW m2 \in Seq(Bytes),
           ReferenceHash(s, m) = ReferenceHash(s2, m2)
    PROVE  s = s2 /\ m = m2
<1>1. s = s2 /\ Len(m) = Len(m2) /\ Padded(m) = Padded(m2)
  BY DEF ReferenceHash
<1>2. ASSUME NEW x \in Seq(Bytes), NEW k \in 1..Len(x)
      PROVE  Padded(x)[k] = x[k]
  <2>1. CASE TailLen(x) = 0
    BY <2>1 DEF Padded
  <2>2. CASE TailLen(x) # 0
    <3>1. TailLen(x) \in 1..BLOCK - 1
      <4>1. Len(x) \in Nat
        OBVIOUS
      <4>2. Len(x) % BLOCK \in 0..BLOCK - 1
        BY <4>1, Euclid
      <4>3. Len(x) % BLOCK # 0
        BY <2>2 DEF TailLen
      <4> QED BY <4>2, <4>3 DEF TailLen
    <3>2. PICK src \in Seq(Bytes) : src = SubSeq(Secret, TailLen(x) + 1, BLOCK)
      BY <3>1, SecretTail
    <3>3. Padded(x) = x \o src
      BY <2>2, <3>2 DEF Padded
    <3>4. 0 + k = k /\ Agree(x \o src, 0, x, 0, Len(x))
      BY ConcatElements
    <3> QED BY <3>3, <3>4 DEF Agree
  <2> QED BY <2>1, <2>2
<1>3. \A k \in 1..Len(m) : m[k] = m2[k]
  BY <1>1, <1>2
<1>4. m = m2
  BY <1>1, <1>3, SeqEqual
<1> QED BY <1>1, <1>4
=============================================================================
