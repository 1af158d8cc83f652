---------------------------- MODULE AesniStream ----------------------------
(***************************************************************************)
(* The default backend, csrc/river5_aesni_v15.c, at the grain of its loop  *)
(* iterations: the context of struct river5_ctx, the partial-block buffer, *)
(* the stack copy of the lanes that v15_update works on, the one-shot path *)
(* and the secret padding of the last block.  The historical variants v2,  *)
(* v3 and v6 run the same code without the fast path of v15_update, v1     *)
(* without the fast path and without the look-ahead loop; FastPath and     *)
(* LookAhead select between them.                                          *)
(*                                                                         *)
(* The sixteen 128-bit lanes are a free term.  Lane i is a chain of AESENC *)
(* rounds keyed by the i-th sixteenth of each block, so the lane vector is *)
(* known exactly by its seed and the bytes fed to it, block after block,   *)
(* in order: two lane vectors of the model are equal only when the same    *)
(* blocks were mixed in, in the same order, under the same seed.  What the *)
(* AES rounds themselves do to the bits is not looked at here.             *)
(***************************************************************************)
EXTENDS Integers, Sequences

CONSTANTS
    BLOCK,        \* BLOCK_V15, the bytes of a block
    Bytes,        \* the values of a byte
    Secret,       \* RIVER5_V15_SECRET, one byte per position of a block
    Seeds,        \* seeds a caller can pass, the NULL of the default key included
    Inputs,       \* the byte sequences a caller passes in one call
    MaxTotal,     \* bound of the model on the bytes given to one context
    FastPath,     \* v15_update returns early when no block is completed
    LookAhead,    \* the first of the two block loops, with its prefetch
    Junk,         \* an indeterminate value: memory never written or no longer
                  \* in use, a byte past the end of the input
    NoDigest      \* the result of a call that returns no digest

ASSUME BlockAssumption == BLOCK \in Nat \ {0}
ASSUME SecretAssumption == Secret \in [1..BLOCK -> Bytes]
ASSUME InputsAssumption == Inputs \subseteq Seq(Bytes)
ASSUME JunkAssumption == Junk \notin Bytes
ASSUME BoundAssumption == MaxTotal \in Nat
ASSUME VariantAssumption == FastPath \in BOOLEAN /\ LookAhead \in BOOLEAN

VARIABLES
    \* struct river5_ctx, and whether it exists
    ctx,          \* "none", "live" or "spent"
    lane,         \* lane[]
    total_bytes,
    buf_len,
    buf,          \* buf[BLOCK]; Junk where nothing was written since new
    \* the call in progress: its arguments and the callee's locals
    pc,           \* "idle", "fill" and "loop" in update, "hash" in one_shot
    data,         \* the caller's input
    p,            \* offset of the next byte of data to be read
    len,          \* bytes of data left (len in update, remaining in one_shot)
    local,        \* the lane[] on the callee's stack
    out,          \* the digest the last call returned, NoDigest if none
    \* history: what the caller has asked for
    seed,         \* the seed given when the context was made
    msg           \* all bytes given to the context

ctxVars == <<ctx, lane, total_bytes, buf_len, buf>>
callVars == <<pc, data, p, len, local>>
vars == <<ctxVars, callVars, out, seed, msg>>

Cell == Bytes \cup {Junk}
-----------------------------------------------------------------------------
(* The lanes *)

\* init_lanes: the secret, or the secret mixed with the seed.
init_lanes(s) == [key |-> s, fed |-> << >>, mixed |-> FALSE]

\* process_block: byte j of the block's i-th sixteenth goes into lane i.
process_block(l, block) == [l EXCEPT !.fed = @ \o block]

\* butterfly_mix: every lane absorbs its partner eight lanes away.
butterfly_mix(l) == [l EXCEPT !.mixed = TRUE]

\* finalize_state: the butterfly, the tree over the lanes and the length fold.
finalize_state(l, n) == [lanes |-> butterfly_mix(l), length |-> n]

(* Memory *)

\* n bytes of the input from offset off on; past its end they are whatever
\* happens to be there.
Load(d, off, n) ==
    [i \in 1..n |-> IF off + i \in 1..Len(d) THEN d[off + i] ELSE Junk]

\* memcpy of the sequence src to offset off of a block-sized buffer.
Store(b, off, src) ==
    [i \in 1..BLOCK |->
        IF i - off \in 1..Len(src) THEN src[i - off] ELSE b[i]]

\* As PadTail, from the start of the secret: the same pad for every length.
PadTailFromStart(b, n) == Store(b, n, SubSeq(Secret, 1, BLOCK - n))

\* The secret padding: bytes n.. of the buffer come from the secret.
PadTail(b, n) == Store(b, n, SubSeq(Secret, n + 1, BLOCK))

Uninitialized == [i \in 1..BLOCK |-> Junk]
-----------------------------------------------------------------------------
\* What is known of the context's memory while there is no context.
NoContext ==
    /\ ctx' = "none"
    /\ lane' = Junk
    /\ total_bytes' = 0
    /\ buf_len' = 0
    /\ buf' = Uninitialized

Init ==
    /\ ctx = "none"
    /\ seed \in Seeds
    /\ lane = Junk
    /\ total_bytes = 0
    /\ buf_len = 0
    /\ buf = Uninitialized
    /\ pc = "idle"
    /\ data = << >>
    /\ p = 0
    /\ len = 0
    /\ local = Junk
    /\ out = NoDigest
    /\ msg = << >>

\* v15_new, when the allocation succeeds, and v15_init_in: neither touches
\* buf[], which keeps what the memory held before.
New(s) ==
    /\ pc = "idle" /\ ctx = "none"
    /\ ctx' = "live"
    /\ lane' = init_lanes(s)
    /\ total_bytes' = 0
    /\ buf_len' = 0
    /\ buf' = Uninitialized
    /\ seed' = s
    /\ msg' = << >>
    /\ out' = NoDigest
    /\ UNCHANGED callVars

\* v15_free, or the end of the caller-owned storage: the memory is gone.
Free ==
    /\ pc = "idle" /\ ctx # "none"
    /\ NoContext
    /\ msg' = << >>
    /\ out' = NoDigest
    /\ UNCHANGED <<callVars, seed>>
-----------------------------------------------------------------------------
\* The callee returns and its locals are gone.
EndCall ==
    /\ pc' = "idle"
    /\ data' = << >>
    /\ p' = 0
    /\ len' = 0
    /\ local' = Junk

(* v15_update *)

\* As CompletesNoBlock, counting a full buffer as an incomplete block.
CompletesNoBlockOrOne(n) == buf_len + n <= BLOCK

CompletesNoBlock(n) == buf_len + n < BLOCK

\* The call that only appends to the tail buffer.
UpdateFast(d) ==
    /\ pc = "idle" /\ ctx = "live"
    /\ Len(msg) + Len(d) <= MaxTotal
    /\ FastPath /\ CompletesNoBlock(Len(d))
    /\ total_bytes' = total_bytes + Len(d)
    /\ buf' = Store(buf, buf_len, d)
    /\ buf_len' = buf_len + Len(d)
    /\ msg' = msg \o d
    /\ out' = NoDigest
    /\ UNCHANGED <<ctx, lane, callVars, seed>>

\* The call that goes on to process blocks on a stack copy of the lanes.
UpdateSlow(d) ==
    /\ pc = "idle" /\ ctx = "live"
    /\ Len(msg) + Len(d) <= MaxTotal
    /\ ~(FastPath /\ CompletesNoBlock(Len(d)))
    /\ total_bytes' = total_bytes + Len(d)
    /\ pc' = "fill"
    /\ data' = d
    /\ p' = 0
    /\ len' = Len(d)
    /\ local' = lane
    /\ msg' = msg \o d
    /\ out' = NoDigest
    /\ UNCHANGED <<ctx, lane, buf_len, buf, seed>>

\* As Take, stopping a byte short of the block.
TakeOneShort == IF len < BLOCK - buf_len - 1 THEN len ELSE BLOCK - buf_len - 1

\* The bytes that complete the partial block, or all there are.
Take == IF len < BLOCK - buf_len THEN len ELSE BLOCK - buf_len

\* Top up a buffer that holds a partial block, and process it once full.
Fill ==
    /\ pc = "fill"
    /\ pc' = "loop"
    /\ IF buf_len > 0
       THEN LET full == buf_len + Take = BLOCK
            IN /\ buf' = Store(buf, buf_len, Load(data, p, Take))
               /\ buf_len' = IF full THEN 0 ELSE buf_len + Take
               /\ local' = IF full THEN process_block(local, buf') ELSE local
               /\ p' = p + Take
               /\ len' = len - Take
       ELSE UNCHANGED <<buf, buf_len, local, p, len>>
    /\ UNCHANGED <<ctx, lane, total_bytes, data, out, seed, msg>>

\* As AbsorbBlock, without getting anywhere.
AbsorbNothing == UNCHANGED vars

\* One block straight from the input, as the body of both loops does it.
AbsorbBlock ==
    /\ local' = process_block(local, Load(data, p, BLOCK))
    /\ p' = p + BLOCK
    /\ len' = len - BLOCK
    /\ UNCHANGED <<pc, data, ctxVars, out, seed, msg>>

\* The loop that still has a whole block ahead of it to prefetch.
UpdateLookAhead ==
    /\ pc = "loop" /\ LookAhead /\ len >= BLOCK * 2
    /\ AbsorbBlock

\* As UpdateBlock, while any input is left.
UpdateBlockPastEnd ==
    /\ pc = "loop" /\ ~(LookAhead /\ len >= BLOCK * 2) /\ len > 0
    /\ AbsorbBlock

\* The loop over what the first one leaves.
UpdateBlock ==
    /\ pc = "loop" /\ ~(LookAhead /\ len >= BLOCK * 2) /\ len >= BLOCK
    /\ AbsorbBlock

\* As UpdateTail, without the copy of the lanes back into the context.
UpdateTailNoCopyBack ==
    /\ pc = "loop" /\ len < BLOCK
    /\ IF len > 0
       THEN /\ buf' = Store(buf, 0, Load(data, p, len))
            /\ buf_len' = len
       ELSE UNCHANGED <<buf, buf_len>>
    /\ EndCall
    /\ UNCHANGED <<ctx, lane, total_bytes, out, seed, msg>>

\* Keep the rest for the next call and write the lanes back.
UpdateTail ==
    /\ pc = "loop" /\ len < BLOCK
    /\ IF len > 0
       THEN /\ buf' = Store(buf, 0, Load(data, p, len))
            /\ buf_len' = len
       ELSE UNCHANGED <<buf, buf_len>>
    /\ lane' = local
    /\ EndCall
    /\ UNCHANGED <<ctx, total_bytes, out, seed, msg>>
-----------------------------------------------------------------------------
\* As Finalize, with the block processed as it is, stale bytes included.
FinalizeUnpadded ==
    /\ pc = "idle" /\ ctx = "live"
    /\ ctx' = "spent"
    /\ buf_len' = 0
    /\ LET l == IF buf_len > 0 THEN process_block(lane, buf) ELSE lane
       IN /\ lane' = butterfly_mix(l)
          /\ out' = finalize_state(l, total_bytes)
    /\ UNCHANGED <<total_bytes, buf, callVars, seed, msg>>

\* v15_finalize.
Finalize ==
    /\ pc = "idle" /\ ctx = "live"
    /\ ctx' = "spent"
    /\ buf' = IF buf_len > 0 THEN PadTail(buf, buf_len) ELSE buf
    /\ buf_len' = 0
    /\ LET l == IF buf_len > 0 THEN process_block(lane, buf') ELSE lane
       IN /\ lane' = butterfly_mix(l)
          /\ out' = finalize_state(l, total_bytes)
    /\ UNCHANGED <<total_bytes, callVars, seed, msg>>
-----------------------------------------------------------------------------
(* v15_one_shot *)

OneShot(s, d) ==
    /\ pc = "idle"
    /\ pc' = "hash"
    /\ local' = init_lanes(s)
    /\ data' = d
    /\ p' = 0
    /\ len' = Len(d)
    /\ out' = NoDigest
    /\ UNCHANGED <<ctxVars, seed, msg>>

\* As HashLookAhead, processing the block it should only prefetch.
HashPrefetched ==
    /\ pc = "hash" /\ LookAhead /\ len >= BLOCK * 2
    /\ local' = process_block(local, Load(data, p + BLOCK, BLOCK))
    /\ p' = p + BLOCK
    /\ len' = len - BLOCK
    /\ UNCHANGED <<pc, data, ctxVars, out, seed, msg>>

HashLookAhead ==
    /\ pc = "hash" /\ LookAhead /\ len >= BLOCK * 2
    /\ AbsorbBlock

HashBlock ==
    /\ pc = "hash" /\ ~(LookAhead /\ len >= BLOCK * 2) /\ len >= BLOCK
    /\ AbsorbBlock

\* The padded last block, on a buffer of the callee's own, and the digest.
HashTail ==
    /\ pc = "hash" /\ len < BLOCK
    /\ LET tail == PadTail(Store(Uninitialized, 0, Load(data, p, len)), len)
           l == IF len > 0 THEN process_block(local, tail) ELSE local
       IN out' = finalize_state(l, Len(data))
    /\ EndCall
    /\ UNCHANGED <<ctxVars, seed, msg>>
-----------------------------------------------------------------------------
\* The steps of a call in progress, and the calls a caller may make.
Return ==
    \/ Fill \/ UpdateLookAhead \/ UpdateBlock \/ UpdateTail
    \/ HashLookAhead \/ HashBlock \/ HashTail

Call ==
    \/ \E s \in Seeds : New(s)
    \/ \E d \in Inputs : UpdateFast(d) \/ UpdateSlow(d)
    \/ Finalize
    \/ Free
    \/ \E s \in Seeds, d \in Inputs : OneShot(s, d)

Next == Call \/ Return

\* Nothing obliges the caller to call; a call once made keeps executing.
Spec == Init /\ [][Next]_vars /\ WF_vars(Return)
-----------------------------------------------------------------------------
(* Correctness *)

LaneVectors == [key : Seeds, fed : Seq(Bytes), mixed : BOOLEAN]

Digests == [lanes : LaneVectors, length : Nat]

TypeOK ==
    /\ ctx \in {"none", "live", "spent"}
    /\ lane \in IF ctx = "none" THEN {Junk} ELSE LaneVectors
    /\ total_bytes \in Nat
    /\ buf_len \in 0..BLOCK - 1
    /\ buf \in [1..BLOCK -> Cell]
    /\ pc \in {"idle", "fill", "loop", "hash"}
    /\ data \in Seq(Bytes)
    /\ p \in 0..Len(data)
    /\ len \in Nat
    /\ local \in IF pc = "idle" THEN {Junk} ELSE LaneVectors
    /\ out \in Digests \cup {NoDigest}
    /\ seed \in Seeds
    /\ msg \in Seq(Bytes)

\* Every load is within the caller's input: reading stops at its end, and what
\* has been read and what is left make up the whole of it.
ReadsWithinInput == pc # "idle" => p <= Len(data) /\ p + len = Len(data)

\* The n elements of s after its first i are those of t after its first j.
Agree(s, i, t, j, n) == \A k \in 1..n : s[i + k] = t[j + k]

Updating == pc \in {"fill", "loop"}

\* What the lanes have absorbed, as the code in progress sees them, and how
\* many bytes of the current call are still to be read.
Absorbed == IF Updating THEN local.fed ELSE lane.fed

Unread == IF Updating THEN len ELSE 0

\* No byte given to a context is lost, repeated or moved, at any point of
\* v15_update: the blocks in the lanes, the partial block in buf and the
\* unread input are the message so far, in this order.
NothingLost ==
    ctx = "live" =>
        /\ total_bytes = Len(msg)
        /\ Len(msg) = Len(Absorbed) + buf_len + Unread
        /\ Agree(Absorbed, 0, msg, 0, Len(Absorbed))
        /\ Agree(buf, 0, msg, Len(Absorbed), buf_len)
        /\ Agree(data, p, msg, Len(Absorbed) + buf_len, Unread)

\* The lanes absorb whole blocks only, and as soon as they are complete:
\* between calls the buffer holds the incomplete block and nothing else, and
\* the copy of the tail into buf never overwrites bytes waiting there.
EagerBlocks ==
    ctx = "live" =>
        /\ Len(Absorbed) % BLOCK = 0
        /\ pc = "loop" /\ len > 0 => buf_len = 0

\* The one-shot path walks the caller's input in order, a block at a time.
OneShotWalk ==
    pc = "hash" =>
        /\ data \in Inputs
        /\ Len(local.fed) = p
        /\ Agree(local.fed, 0, data, 0, p)
        /\ p % BLOCK = 0

\* A live context and a call in progress have lanes no butterfly has touched:
\* the butterfly of finalize_state is applied once, to a context that is
\* consumed by it.
UnmixedUntilSpent ==
    /\ ctx = "live" => lane.mixed = FALSE /\ lane.key = seed
    /\ pc # "idle" => local.mixed = FALSE
    /\ Updating => ctx = "live" /\ local.key = seed

\* The inductive invariant: at every step of every call the state of the
\* backend is a function of what the caller asked for.
StreamInv ==
    /\ TypeOK
    /\ ReadsWithinInput
    /\ NothingLost
    /\ EagerBlocks
    /\ OneShotWalk
    /\ UnmixedUntilSpent

\* Every call returns: both block loops and the top-up of the buffer end.
CallsReturn == pc # "idle" ~> pc = "idle"
-----------------------------------------------------------------------------
(* A digest of a whole message, with no calls, buffers or loops: the message *)
(* is cut into blocks, the secret completes the last one, and the length of  *)
(* the message goes in last.                                                 *)

TailLen(m) == Len(m) % BLOCK

Padded(m) ==
    IF TailLen(m) = 0 THEN m ELSE m \o SubSeq(Secret, TailLen(m) + 1, BLOCK)

ReferenceHash(s, m) ==
    [lanes  |-> [key |-> s, fed |-> Padded(m), mixed |-> TRUE],
     length |-> Len(m)]

\* The backend keeps the promise of the C interface with that digest: however
\* a message is cut into river5_update calls, river5_finalize returns what
\* river5_hash returns for it in one call, and the buffered tail, the fast
\* path and the two loops are invisible to the caller.
Promise == INSTANCE StreamingHash WITH Hash <- ReferenceHash

KeepsPromise == Promise!Spec
=============================================================================
