------------------------------ MODULE Backends ------------------------------
(***************************************************************************)
(* The backends the bench can reach, call by call: the five AES-NI ones,   *)
(* each with a vtable of its own (csrc/river5_aesni.c, _v2.c, _v3.c,       *)
(* _v6.c and _v15.c), the stub, and the third-party hashes.                *)
(*                                                                         *)
(* A context is its maker's private struct.  Its lanes are the bytes they  *)
(* have absorbed, whole blocks at a time; its buffer is the rest, up to    *)
(* buf_len.  That the loops of update come to this is shown in AesniStream *)
(* at the grain of a loop iteration, and that no seed is given is how the  *)
(* bench calls them.                                                       *)
(***************************************************************************)
EXTENDS Integers, Sequences

CONSTANTS
    BLOCK_V1,      \* BLOCK_BYTES of v1
    BLOCK_V2,      \* BLOCK_V2, and BLOCK_V3, BLOCK_V6, BLOCK_V15, as large
    Secret,        \* RIVER5_SECRET, of which every backend has a copy
    Served,        \* the backend behind the public API: "v15" or "stub"
    Junk           \* what comes of reading a context as what it is not

ASSUME BlockAssumption ==
    /\ BLOCK_V1 \in Nat \ {0} /\ BLOCK_V2 \in Nat \ {0}
    /\ Len(Secret) >= BLOCK_V1 /\ Len(Secret) >= BLOCK_V2
ASSUME ServedAssumption == Served \in {"v15", "stub"}

-----------------------------------------------------------------------------
(* What the AES-NI backends share *)

Context(b) ==
    [maker |-> b, spent |-> FALSE, lanes |-> << >>, buf |-> << >>, total_bytes |-> 0]

\* finalize leaves a context that is only good for being freed.
Spent(c) == [c EXCEPT !.spent = TRUE]

\* Of len bytes that came in since the last whole block, the rest of the block.
Padding(block, len) == IF len = 0 THEN << >> ELSE SubSeq(Secret, len + 1, block)

Digest(b, lanes, len) == [by |-> b, lanes |-> lanes, len |-> len]

\* Whole blocks straight from the input, the tail with padding.
OneShot(b, block, input) ==
    Digest(b, input \o Padding(block, Len(input) % block), Len(input))

\* As Absorb, dropping what was buffered when the input fills a block itself.
AbsorbInputOnly(b, block, c, data) ==
    LET pending == IF Len(data) >= block THEN data ELSE c.buf \o data
        whole == block * (Len(pending) \div block)
    IN IF c.maker # b \/ c.spent THEN Junk
       ELSE [c EXCEPT !.lanes = @ \o SubSeq(pending, 1, whole),
                      !.buf = SubSeq(pending, whole + 1, Len(pending)),
                      !.total_bytes = @ + Len(data)]

\* The buffer is topped up, whole blocks go into the lanes, the rest is kept.
Absorb(b, block, c, data) ==
    LET pending == c.buf \o data
        whole == block * (Len(pending) \div block)
    IN IF c.maker # b \/ c.spent THEN Junk
       ELSE [c EXCEPT !.lanes = @ \o SubSeq(pending, 1, whole),
                      !.buf = SubSeq(pending, whole + 1, Len(pending)),
                      !.total_bytes = @ + Len(data)]

Finalize(b, block, c) ==
    IF c.maker # b \/ c.spent THEN Junk
    ELSE Digest(b, c.lanes \o c.buf \o Padding(block, Len(c.buf)), c.total_bytes)
-----------------------------------------------------------------------------
(* The AES-NI backends *)

v1_one_shot(input) == OneShot("v1", BLOCK_V1, input)
v1_new == Context("v1")
v1_update(c, data) == Absorb("v1", BLOCK_V1, c, data)
v1_finalize(c) == Finalize("v1", BLOCK_V1, c)

v2_one_shot(input) == OneShot("v2", BLOCK_V2, input)
v2_new == Context("v2")
v2_update(c, data) == Absorb("v2", BLOCK_V2, c, data)
v2_finalize(c) == Finalize("v2", BLOCK_V2, c)

v3_one_shot(input) == OneShot("v3", BLOCK_V2, input)
v3_new == Context("v3")
v3_update(c, data) == Absorb("v3", BLOCK_V2, c, data)
v3_finalize(c) == Finalize("v3", BLOCK_V2, c)

v6_one_shot(input) == OneShot("v6", BLOCK_V2, input)
v6_new == Context("v6")
v6_update(c, data) == Absorb("v6", BLOCK_V2, c, data)
v6_finalize(c) == Finalize("v6", BLOCK_V2, c)

v15_one_shot(input) == OneShot("v15", BLOCK_V2, input)
v15_new == Context("v15")
\* Its fast path, too, appends to the buffer.
v15_update(c, data) == Absorb("v15", BLOCK_V2, c, data)
v15_finalize(c) == Finalize("v15", BLOCK_V2, c)

(* The stub, the XXH3 plugin and the wrappers of BLAKE3, MetroHash and Meow      *)
(* forward every call: what is behind them is taken to stream as it hashes in   *)
(* one shot.  A digest spends the context, as MetroHash's does.                 *)

other_one_shot(b, input) == [by |-> b, msg |-> input]
other_new(b) == [maker |-> b, spent |-> FALSE, msg |-> << >>]
other_update(b, c, data) ==
    IF c.maker # b \/ c.spent THEN Junk ELSE [c EXCEPT !.msg = @ \o data]
other_digest(b, c) == IF c.maker # b \/ c.spent THEN Junk ELSE [by |-> b, msg |-> c.msg]
-----------------------------------------------------------------------------
(* A call through the function of vtable or wrapper b *)

Vtables == {"v1", "v2", "v3", "v6", "v15", "stub", "xxh3", "blake3", "metro", "meow"}

one_shot(b, input) ==
    CASE b = "v1" -> v1_one_shot(input) [] b = "v2" -> v2_one_shot(input)
      [] b = "v3" -> v3_one_shot(input) [] b = "v6" -> v6_one_shot(input)
      [] b = "v15" -> v15_one_shot(input)
      [] OTHER -> other_one_shot(b, input)

new_state(b) ==
    CASE b = "v1" -> v1_new [] b = "v2" -> v2_new [] b = "v3" -> v3_new
      [] b = "v6" -> v6_new [] b = "v15" -> v15_new
      [] OTHER -> other_new(b)

update(b, c, data) ==
    CASE c = Junk -> Junk
      [] b = "v1" -> v1_update(c, data) [] b = "v2" -> v2_update(c, data)
      [] b = "v3" -> v3_update(c, data) [] b = "v6" -> v6_update(c, data)
      [] b = "v15" -> v15_update(c, data)
      [] OTHER -> other_update(b, c, data)

finalize(b, c) ==
    CASE c = Junk -> Junk
      [] b = "v1" -> v1_finalize(c) [] b = "v2" -> v2_finalize(c)
      [] b = "v3" -> v3_finalize(c) [] b = "v6" -> v6_finalize(c)
      [] b = "v15" -> v15_finalize(c)
      [] OTHER -> other_digest(b, c)
=============================================================================
