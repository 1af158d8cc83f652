----------------------------- MODULE LaneMixing -----------------------------
(***************************************************************************)
(* How far a changed byte of a block, of the seed or of the length spreads *)
(* through the lanes of the five AES-NI backends: init_lanes and the       *)
(* hand-unrolled process_block and finalize_state of river5_aesni.c (v1),  *)
(* _v2.c, _v3.c, _v6.c and _v15.c, at their real sizes.                    *)
(*                                                                         *)
(* A 128-bit value is modelled by the set of its bytes that can differ     *)
(* when that one byte does.  XOR unites such sets, PSHUFB permutes         *)
(* them, and an AES round spreads a byte over one column.  A byte outside  *)
(* the set is certain not to depend on the input byte; one inside depends  *)
(* on it unless contributions happen to cancel, which AES is built to make *)
(* rare and a set cannot tell.                                             *)
(***************************************************************************)
EXTENDS Integers, FiniteSets

CONSTANTS
    Backends,     \* those of "v1", "v2", "v3", "v6", "v15" to look at
    MaxFurther    \* bound of the model on blocks absorbed after the change

ASSUME BackendsAssumption == Backends \subseteq {"v1", "v2", "v3", "v6", "v15"}
ASSUME FurtherAssumption == MaxFurther \in Nat

VARIABLES
    backend,
    where,      \* "block", "seed" or "length": where the changed byte is
    byte,       \* its position there
    further,    \* how many blocks have followed the first, or the changed one
    lane,       \* lane[i], and in the tree its reductions a, b, c, d
    stage       \* "fresh", "absorbing", "mixed", "tree" or "done"

vars == <<backend, where, byte, further, lane, stage>>
change == <<backend, where, byte>>

Positions == 0..15

Lanes(b) == IF b = "v1" THEN 8 ELSE 16

Unchanged(n) == [i \in 0..n - 1 |-> {}]

Places(b) == [block |-> 0..16 * Lanes(b) - 1, seed |-> 0..31, length |-> 0..7]

(* Instructions *)

\* One AES round: byte b lies in column b \div 4, which ShiftRows fills with
\* one byte of each column and MixColumns mixes; then the key is added.
aesenc(x, key) ==
    {b \in Positions : \E r \in 0..3 : r + 4 * ((b \div 4 + r) % 4) \in x} \cup key

\* PSHUFB: byte j of the result is byte pattern[j] of x.
shuffle_epi8(x, pattern) == {j \in Positions : pattern[j + 1] \in x}

\* RIVER5_V15_SHUFFLE, the same table as RIVER5_V6_SHUFFLE.
SHUFFLE == <<
    << 0, 1, 2, 3, 4, 5, 6, 7, 8, 9,10,11,12,13,14,15>>,
    << 1, 0, 3, 2, 5, 4, 7, 6, 9, 8,11,10,13,12,15,14>>,
    << 2, 3, 0, 1, 6, 7, 4, 5,10,11, 8, 9,14,15,12,13>>,
    << 3, 2, 1, 0, 7, 6, 5, 4,11,10, 9, 8,15,14,13,12>>,
    << 4, 5, 6, 7, 0, 1, 2, 3,12,13,14,15, 8, 9,10,11>>,
    << 5, 4, 7, 6, 1, 0, 3, 2,13,12,15,14, 9, 8,11,10>>,
    << 6, 7, 4, 5, 2, 3, 0, 1,14,15,12,13,10,11, 8, 9>>,
    << 7, 6, 5, 4, 3, 2, 1, 0,15,14,13,12,11,10, 9, 8>>,
    << 8, 9,10,11,12,13,14,15, 0, 1, 2, 3, 4, 5, 6, 7>>,
    << 9, 8,11,10,13,12,15,14, 1, 0, 3, 2, 5, 4, 7, 6>>,
    <<10,11, 8, 9,14,15,12,13, 2, 3, 0, 1, 6, 7, 4, 5>>,
    <<11,10, 9, 8,15,14,13,12, 3, 2, 1, 0, 7, 6, 5, 4>>,
    <<12,13,14,15, 8, 9,10,11, 4, 5, 6, 7, 0, 1, 2, 3>>,
    <<13,12,15,14, 9, 8,11,10, 5, 4, 7, 6, 1, 0, 3, 2>>,
    <<14,15,12,13,10,11, 8, 9, 6, 7, 4, 5, 2, 3, 0, 1>>,
    <<15,14,13,12,11,10, 9, 8, 7, 6, 5, 4, 3, 2, 1, 0>> >>
-----------------------------------------------------------------------------
(* The seed: its halves go into every lane alike *)

s0 == IF where = "seed" THEN {byte} \cap Positions ELSE {}
s1 == IF where = "seed" THEN {byte - 16} \cap Positions ELSE {}

\* v1 keeps the second half in keys of the blocks and of the tree.
round_key == s1
cross_key == aesenc(round_key \cup s0, round_key)

\* As init_lanes, with s0 for the key.
init_lanes_once(b) == [i \in 0..Lanes(b) - 1 |-> IF b = "v1" THEN s0 ELSE aesenc(s0, s0)]

init_lanes(b) == [i \in 0..Lanes(b) - 1 |-> IF b = "v1" THEN s0 ELSE aesenc(s0, s1)]

(* Blocks: l is the vector of lanes, b the vector of 16-byte slices *)

v1_process_block(l, b) == [i \in 0..7 |-> aesenc(l[i] \cup b[i], round_key)]

v2_process_block(l, b) == [i \in 0..15 |-> aesenc(l[i], b[i])]

\* As butterfly_mix, with a neighbour for the partner.
butterfly_mix_near(l) == [i \in 0..15 |-> aesenc(l[i], l[(i + 4) % 16])]

\* Each lane takes in the old value of its partner, eight lanes away.
butterfly_mix(l) == [i \in 0..15 |-> aesenc(l[i], l[(i + 8) % 16])]

v3_process_block(l, b) == butterfly_mix(v2_process_block(l, b))

\* As shuffled, one byte off.
shuffled_off(b) == [i \in 0..15 |-> {j + 1 : j \in shuffle_epi8(b[i], SHUFFLE[i + 1])}]

\* Lane i sees its slice in the order of row i.
shuffled(b) == [i \in 0..15 |-> shuffle_epi8(b[i], SHUFFLE[i + 1])]

v6_process_block(l, b) == v3_process_block(l, shuffled(b))

v15_process_block(l, b) == v2_process_block(l, shuffled(b))

process_block(l, b) ==
    CASE backend = "v1"  -> v1_process_block(l, b)
      [] backend = "v2"  -> v2_process_block(l, b)
      [] backend = "v3"  -> v3_process_block(l, b)
      [] backend = "v6"  -> v6_process_block(l, b)
      [] backend = "v15" -> v15_process_block(l, b)

\* The first block, which is the one with the changed byte if a block has it.
Changed == [i \in 0..Lanes(backend) - 1 |->
               IF where = "block" /\ byte \div 16 = i THEN {byte % 16} ELSE {}]

Init ==
    /\ backend \in Backends
    /\ where \in {"block", "seed", "length"} /\ byte \in Places(backend)[where]
    /\ further = 0
    /\ lane = init_lanes(backend)
    /\ stage = "fresh"

Absorb ==
    /\ stage = "fresh"
    /\ lane' = process_block(lane, Changed)
    /\ stage' = "absorbing"
    /\ UNCHANGED <<change, further>>

\* A later block, with nothing changed in it.
AbsorbFurther ==
    /\ stage = "absorbing" /\ further < MaxFurther
    /\ lane' = process_block(lane, Unchanged(Lanes(backend)))
    /\ further' = further + 1
    /\ UNCHANGED <<change, stage>>
-----------------------------------------------------------------------------
(* finalize_state *)

\* v3, v6 and v15 mix partner lanes once more before the tree, be there any
\* blocks or not.
PreMix ==
    /\ stage = "absorbing" \/ (stage = "fresh" /\ where # "block")
    /\ lane' = IF backend \in {"v3", "v6", "v15"} THEN butterfly_mix(lane) ELSE lane
    /\ stage' = "mixed"
    /\ UNCHANGED <<change, further>>

\* As v2_halve, pairing each lower lane with itself.
v2_halve_low(l, n) == [i \in 0..n - 1 |-> aesenc(l[i], l[i])]

\* A round of the tree: the upper half of the lanes goes into the lower half,
\* in v1 by XOR before the round, in the others as its key.
v1_halve(l, n) == [i \in 0..n - 1 |-> aesenc(l[i] \cup l[i + n], cross_key)]

v2_halve(l, n) == [i \in 0..n - 1 |-> aesenc(l[i], l[i + n])]

Halve ==
    LET n == Cardinality(DOMAIN lane) \div 2 IN
    /\ stage \in {"mixed", "tree"} /\ n > 0
    /\ lane' = IF backend = "v1" THEN v1_halve(lane, n) ELSE v2_halve(lane, n)
    /\ stage' = "tree"
    /\ UNCHANGED <<change, further>>

\* As len_blk, of the length in the seed's stead.
len_blk_other == s0

\* The length and its complement.
len_blk == IF where = "length" THEN {byte, 8 + byte} ELSE {}

\* The round that adds the length, in v1 as input, in the others as key.
LengthFold ==
    /\ stage = "tree" /\ DOMAIN lane = {0}
    /\ lane' = [lane EXCEPT ![0] =
           IF backend = "v1" THEN aesenc(@ \cup len_blk, cross_key) ELSE aesenc(@, len_blk)]
    /\ stage' = "done"
    /\ UNCHANGED <<change, further>>

Next == Absorb \/ AbsorbFurther \/ PreMix \/ Halve \/ LengthFold

\* Straight-line code: it runs to its end.
Spec == Init /\ [][Next]_vars /\ WF_vars(Next)
-----------------------------------------------------------------------------
(* Correctness *)

\* The lanes are as many as the stage of the backend leaves, of sixteen bytes.
TypeOK ==
    /\ backend \in Backends
    /\ where \in {"block", "seed", "length"} /\ byte \in Places(backend)[where]
    /\ further \in 0..MaxFurther
    /\ stage \in {"fresh", "absorbing", "mixed", "tree", "done"}
    /\ \E n \in {1, 2, 4, 8, 16} : lane \in [0..n - 1 -> SUBSET Positions]

Digest == lane[0]

\* Every byte of a block and of the seed can change every byte of the digest,
\* that of the empty message included: no lane is left out of the unrolled
\* code, no pattern drops a byte, and the rounds after the last block are deep
\* enough.  Only v2 needs another block after a changed one.
FullDiffusion ==
    stage = "done" /\ where # "length" =>
        Digest = Positions \/ (backend = "v2" /\ where = "block" /\ further = 0)

\* Messages that fill the lanes alike, one of them ending in the bytes the
\* other is padded with, have digests of their own: no later round can make
\* up for the length, which changes two bytes of the digest or, in v1, two
\* whole columns, and nothing else.
LengthTells ==
    stage = "done" /\ where = "length" =>
        /\ Digest # {}
        /\ backend # "v1" => Digest = {byte, 8 + byte}
        /\ backend = "v1" => Cardinality(Digest) = 8

\* The lanes that can have changed.
Reached == {i \in DOMAIN lane : lane[i] # {}}

\* Until the tree a slice of the input stays in its own lane, from which its
\* chain never loses it, and in the partner of that lane where there is a
\* butterfly: sixteen independent AES chains, or eight pairs of them.  The
\* seed is in every chain from the first block on, the length in none.
OwnLanesOnly ==
    LET own == byte \div 16
        pair == {own, (own + 8) % 16}
        mixing == backend \in {"v3", "v6"} \/ (backend = "v15" /\ stage = "mixed")
    IN /\ stage \in {"absorbing", "mixed"} /\ where = "block" =>
              Reached = IF mixing THEN pair ELSE {own}
       /\ stage = "absorbing" /\ where = "seed" => Reached = DOMAIN lane
       /\ stage # "done" /\ where = "length" => Reached = {}
-----------------------------------------------------------------------------
(* A claim of a comment that the code does not keep *)

\* river5_aesni_v2.c:177-178: "every output bit ends up depending on every
\* input bit through these 4 dependent AESENC layers + the length fold."
V2Diffuses == backend = "v2" /\ where = "block" /\ stage = "done" => Digest = Positions
=============================================================================
