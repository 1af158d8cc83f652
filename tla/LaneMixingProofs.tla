-------------------------- MODULE LaneMixingProofs --------------------------
(***************************************************************************)
(* How far a changed byte spreads, for messages of any number of blocks.   *)
(***************************************************************************)
EXTENDS LaneMixing, FiniteSetTheorems, TLAPS

(* One round *)

Column(c) == {b \in Positions : b \div 4 = c}

\* A value that a round fills: a whole column of it can have changed.
Wide(x) == \E c \in 0..3 : Column(c) \subseteq x

LEMMA RoundKeeps ==
    ASSUME NEW x \in SUBSET Positions, NEW key \in SUBSET Positions
    PROVE  /\ aesenc(x, key) \in SUBSET Positions
           /\ key \subseteq aesenc(x, key)
  BY DEF aesenc

\* In each row ShiftRows takes every column to every other.
LEMMA ShiftReaches ==
    \A c, d \in 0..3 : /\ \E r \in 0..3 : (d + r) % 4 = c
                       /\ \A r \in 0..3 : \E e \in 0..3 : (e + r) % 4 = c
<1> SUFFICES ASSUME NEW c \in 0..3, NEW d \in 0..3
             PROVE  /\ \E r \in 0..3 : (d + r) % 4 = c
                    /\ \A r \in 0..3 : \E e \in 0..3 : (e + r) % 4 = c
  OBVIOUS
<1>1. ASSUME NEW e \in 0..3 PROVE ((c + 4 - e) % 4) \in 0..3 /\ (((c + 4 - e) % 4) + e) % 4 = c
  OBVIOUS
<1>2. ASSUME NEW e \in 0..3 PROVE ((c + 4 - e) % 4) + e = e + ((c + 4 - e) % 4)
  OBVIOUS
<1> QED BY <1>1, <1>2

\* A byte spreads over the column that ShiftRows takes it to.
LEMMA RoundWidens ==
    ASSUME NEW x \in SUBSET Positions, x # {}, NEW key \in SUBSET Positions
    PROVE  Wide(aesenc(x, key))
<1>1. PICK p \in x : p \in Positions
  OBVIOUS
<1>2. PICK r \in 0..3, c \in 0..3 : p = r + 4 * c
  <2>1. p % 4 \in 0..3 /\ p \div 4 \in 0..3 /\ p = (p % 4) + 4 * (p \div 4)
    BY <1>1 DEF Positions
  <2> QED BY <2>1
<1>3. PICK d \in 0..3 : (d + r) % 4 = c
  BY ShiftReaches
<1>4. ASSUME NEW b \in Column(d) PROVE b \in aesenc(x, key)
  <2>1. b \in Positions /\ r + 4 * ((b \div 4 + r) % 4) \in x
    BY <1>1, <1>2, <1>3 DEF Column
  <2> QED BY <2>1 DEF aesenc
<1> QED BY <1>4 DEF Wide

\* ShiftRows takes the bytes of a column to all four.
LEMMA RoundFills ==
    ASSUME NEW x \in SUBSET Positions, Wide(x), NEW key \in SUBSET Positions
    PROVE  aesenc(x, key) = Positions
<1>1. PICK c \in 0..3 : Column(c) \subseteq x
  BY DEF Wide
<1>2. ASSUME NEW b \in Positions PROVE b \in aesenc(x, key)
  <2>1. PICK d \in 0..3 : d = b \div 4
    BY DEF Positions
  <2>2. PICK r \in 0..3 : (d + r) % 4 = c
    BY ShiftReaches
  <2>3. r + 4 * c \in Column(c)
    BY DEF Column, Positions
  <2> QED BY <1>1, <2>1, <2>2, <2>3 DEF aesenc
<1> QED BY <1>2, RoundKeeps

LEMMA WideFacts ==
    /\ Wide(Positions)
    /\ \A x : Wide(x) => x # {}
    /\ \A x, y : Wide(x) /\ x \subseteq y => Wide(y)
<1>1. Column(0) \subseteq Positions
  BY DEF Column
<1>2. \A c \in 0..3 : 4 * c \in Column(c)
  BY DEF Column, Positions
<1> QED BY <1>1, <1>2 DEF Wide

\* What a round makes of what is known of its input and its key.
LEMMA Round ==
    ASSUME NEW x \in SUBSET Positions, NEW key \in SUBSET Positions
    PROVE  /\ aesenc(x, key) \in SUBSET Positions
           /\ aesenc(x, key) = {} <=> x = {} /\ key = {}
           /\ x # {} \/ Wide(key) => Wide(aesenc(x, key))
           /\ Wide(x) => aesenc(x, key) = Positions
<1>1. aesenc({}, {}) = {}
  BY DEF aesenc
<1>2. x # {} => Wide(aesenc(x, key))
  BY RoundWidens
<1>3. Wide(key) => Wide(aesenc(x, key))
  BY RoundKeeps, WideFacts
<1> QED BY <1>1, <1>2, <1>3, RoundKeeps, RoundFills, WideFacts
-----------------------------------------------------------------------------
(* Shuffles *)

\* A pattern that loses no byte.
Permutes(pattern) == \A p \in Positions : \E j \in Positions : pattern[j + 1] = p

LEMMA RowsPermute == \A i \in 0..15 : Permutes(SHUFFLE[i + 1])
<1>1. \A i \in 0..15 : \A p \in 0..15 :
        SHUFFLE[i + 1][p + 1] \in 0..15 /\ SHUFFLE[i + 1][SHUFFLE[i + 1][p + 1] + 1] = p
  BY SMTT(60) DEF SHUFFLE
<1> QED BY <1>1 DEF Permutes, Positions

LEMMA Shuffled ==
    ASSUME NEW x \in SUBSET Positions, NEW i \in 0..15
    PROVE  /\ shuffle_epi8(x, SHUFFLE[i + 1]) \in SUBSET Positions
           /\ shuffle_epi8(x, SHUFFLE[i + 1]) = {} <=> x = {}
<1>1. Permutes(SHUFFLE[i + 1])
  BY RowsPermute
<1> QED BY <1>1 DEF Permutes, shuffle_epi8
-----------------------------------------------------------------------------
(* Stages of the code, lane by lane *)

Vectors(n) == [0..n - 1 -> SUBSET Positions]

Partner(i) == (i + 8) % 16

LEMMA PartnerFacts ==
    \A i \in 0..15 : Partner(i) \in 0..15 /\ Partner(Partner(i)) = i /\ Partner(i) # i
  BY DEF Partner

LEMMA Butterfly ==
    ASSUME NEW l \in Vectors(16)
    PROVE  /\ butterfly_mix(l) \in Vectors(16)
           /\ \A i \in 0..15 :
                /\ butterfly_mix(l)[i] = {} <=> l[i] = {} /\ l[Partner(i)] = {}
                /\ l[i] # {} => Wide(butterfly_mix(l)[i])
<1>1. ASSUME NEW i \in 0..15
      PROVE  /\ butterfly_mix(l)[i] \in SUBSET Positions
             /\ butterfly_mix(l)[i] = {} <=> l[i] = {} /\ l[Partner(i)] = {}
             /\ l[i] # {} => Wide(butterfly_mix(l)[i])
  <2>1. Partner(i) \in 0..15
    BY PartnerFacts
  <2>2. l[i] \in SUBSET Positions /\ l[Partner(i)] \in SUBSET Positions
    BY <2>1 DEF Vectors
  <2>3. butterfly_mix(l)[i] = aesenc(l[i], l[Partner(i)])
    BY DEF butterfly_mix, Partner
  <2> QED BY <2>2, <2>3, Round
<1>2. butterfly_mix(l) = [i \in 0..15 |-> butterfly_mix(l)[i]]
  BY DEF butterfly_mix
<1> QED BY <1>1, <1>2 DEF Vectors

Mixing(b) == b \in {"v3", "v6"}

\* Nothing that has changed gets into lane i of v2's loop, or that of v1.
Untouched(l, b, i) == l[i] = {} /\ b[i] = {} /\ (backend = "v1" => round_key = {})

LEMMA Keys ==
    /\ s0 \in SUBSET Positions /\ round_key \in SUBSET Positions
    /\ cross_key \in SUBSET Positions
    /\ s1 \in SUBSET Positions
<1>1. s0 \in SUBSET Positions /\ s1 \in SUBSET Positions
  BY DEF s0, s1
<1> QED BY <1>1, Round DEF round_key, cross_key

\* What a block does to the lanes.
LEMMA BlockMixes ==
    ASSUME backend \in {"v1", "v2", "v3", "v6", "v15"},
           NEW l \in Vectors(Lanes(backend)), NEW b \in Vectors(Lanes(backend))
    PROVE  /\ process_block(l, b) \in Vectors(Lanes(backend))
           /\ \A i \in 0..Lanes(backend) - 1 :
                /\ process_block(l, b)[i] = {} <=>
                     /\ Untouched(l, b, i)
                     /\ Mixing(backend) => Untouched(l, b, Partner(i))
                /\ l[i] # {} => Wide(process_block(l, b)[i])
                /\ b[i] # {} /\ (backend = "v1" \/ Mixing(backend)) =>
                     Wide(process_block(l, b)[i])
<1> DEFINE R(r) ==
      /\ r \in Vectors(Lanes(backend))
      /\ \A i \in 0..Lanes(backend) - 1 :
           /\ r[i] = {} <=>
                Untouched(l, b, i) /\ (Mixing(backend) => Untouched(l, b, Partner(i)))
           /\ l[i] # {} => Wide(r[i])
           /\ b[i] # {} /\ (backend = "v1" \/ Mixing(backend)) => Wide(r[i])
<1>1. CASE backend = "v1"
  <2> DEFINE r == v1_process_block(l, b)
  <2>0. Lanes(backend) = 8 /\ ~Mixing(backend)
    BY <1>1 DEF Lanes, Mixing
  <2>1. ASSUME NEW i \in 0..7
        PROVE  /\ r[i] \in SUBSET Positions
               /\ r[i] = {} <=> Untouched(l, b, i)
               /\ l[i] # {} \/ b[i] # {} => Wide(r[i])
    <3>1. l[i] \cup b[i] \in SUBSET Positions /\ r[i] = aesenc(l[i] \cup b[i], round_key)
      BY <2>0 DEF Vectors, v1_process_block
    <3>2. l[i] \cup b[i] = {} <=> l[i] = {} /\ b[i] = {}
      OBVIOUS
    <3>3. /\ aesenc(l[i] \cup b[i], round_key) \in SUBSET Positions
          /\ aesenc(l[i] \cup b[i], round_key) = {} <=> l[i] \cup b[i] = {} /\ round_key = {}
          /\ l[i] \cup b[i] # {} => Wide(aesenc(l[i] \cup b[i], round_key))
      BY <3>1, Keys, Round
    <3> HIDE DEF r
    <3> QED BY <1>1, <3>1, <3>2, <3>3 DEF Untouched
  <2>2. r = [i \in 0..7 |-> r[i]]
    BY DEF v1_process_block
  <2> HIDE DEF r
  <2>3. R(r)
    BY <2>0, <2>1, <2>2 DEF Vectors
  <2> QED BY <1>1, <2>3 DEF process_block, r
<1>2. ASSUME backend # "v1" PROVE R(process_block(l, b))
  <2>0. Lanes(backend) = 16 /\ l \in Vectors(16) /\ b \in Vectors(16)
    BY <1>2 DEF Lanes
  <2> DEFINE c == IF backend \in {"v2", "v3"} THEN b ELSE shuffled(b)
             m == v2_process_block(l, c)
  <2>1. ASSUME NEW i \in 0..15 PROVE c[i] \in SUBSET Positions /\ (c[i] = {} <=> b[i] = {})
    <3>1. b[i] \in SUBSET Positions /\ shuffled(b)[i] = shuffle_epi8(b[i], SHUFFLE[i + 1])
      BY <2>0 DEF Vectors, shuffled
    <3> QED BY <3>1, Shuffled
  <2> HIDE DEF c
  <2>2. ASSUME NEW i \in 0..15
        PROVE  /\ m[i] \in SUBSET Positions
               /\ m[i] = {} <=> Untouched(l, b, i)
               /\ l[i] # {} => Wide(m[i])
    <3>1. l[i] \in SUBSET Positions /\ m[i] = aesenc(l[i], c[i])
      BY <2>0 DEF Vectors, v2_process_block
    <3>2. c[i] \in SUBSET Positions /\ (c[i] = {} <=> b[i] = {})
      BY <2>1
    <3>3. /\ aesenc(l[i], c[i]) \in SUBSET Positions
          /\ aesenc(l[i], c[i]) = {} <=> l[i] = {} /\ c[i] = {}
          /\ l[i] # {} => Wide(aesenc(l[i], c[i]))
      BY <3>1, <3>2, Round
    <3> HIDE DEF m
    <3> QED BY <1>2, <3>1, <3>2, <3>3 DEF Untouched
  <2>3. m \in Vectors(16)
    <3>1. m = [i \in 0..15 |-> m[i]]
      BY DEF v2_process_block
    <3> QED BY <2>2, <3>1 DEF Vectors
  <2>4. CASE ~Mixing(backend)
    <3>1. process_block(l, b) = m
      BY <1>2, <2>4 DEF process_block, c, v15_process_block, Mixing
    <3> HIDE DEF m
    <3> QED BY <1>2, <2>0, <2>2, <2>3, <2>4, <3>1
  <2>5. CASE Mixing(backend)
    <3>1. process_block(l, b) = butterfly_mix(m)
      BY <2>5 DEF process_block, c, v3_process_block, v6_process_block, Mixing
    <3> HIDE DEF m
    <3>2. /\ butterfly_mix(m) \in Vectors(16)
          /\ \A i \in 0..15 :
               /\ butterfly_mix(m)[i] = {} <=> m[i] = {} /\ m[Partner(i)] = {}
               /\ m[i] # {} => Wide(butterfly_mix(m)[i])
      BY <2>3, Butterfly
    <3>3. \A i \in 0..15 : m[i] = {} <=> Untouched(l, b, i)
      BY <2>2
    <3>4. \A i \in 0..15 : m[Partner(i)] = {} <=> Untouched(l, b, Partner(i))
      BY <3>3, PartnerFacts
    <3>5. \A i \in 0..15 : l[i] # {} \/ b[i] # {} => m[i] # {}
      BY <3>3 DEF Untouched
    <3> QED BY <2>0, <2>5, <3>1, <3>2, <3>3, <3>4, <3>5
  <2> QED BY <2>4, <2>5
<1> QED BY <1>1, <1>2

\* The keys made from the seed, with and without a change in it.
LEMMA NoSeedByte ==
    ASSUME where # "seed"
    PROVE  s0 = {} /\ s1 = {} /\ round_key = {} /\ cross_key = {}
<1>1. s0 = {} /\ s1 = {} /\ round_key = {}
  BY DEF s0, s1, round_key
<1>2. cross_key = aesenc({}, {})
  BY <1>1 DEF cross_key
<1> QED BY <1>1, <1>2, Round

LEMMA SeedByte ==
    ASSUME where = "seed", byte \in 0..31
    PROVE  (s0 # {} \/ s1 # {}) /\ Wide(cross_key)
<1>1. byte \in Positions \/ byte - 16 \in Positions
  BY DEF Positions
<1>2. s0 # {} \/ s1 # {}
  BY <1>1 DEF s0, s1
<1>3. round_key \cup s0 \in SUBSET Positions /\ round_key \cup s0 # {}
  BY <1>2, Keys DEF round_key
<1> QED BY <1>2, <1>3, Keys, Round DEF cross_key

\* The slices of the block with the changed byte, and of one without.
LEMMA Slices ==
    ASSUME where = "block" => byte \in 0..16 * Lanes(backend) - 1
    PROVE  /\ Changed \in Vectors(Lanes(backend))
           /\ \A i \in 0..Lanes(backend) - 1 :
                Changed[i] # {} <=> where = "block" /\ byte \div 16 = i
           /\ Unchanged(Lanes(backend)) \in Vectors(Lanes(backend))
           /\ \A i \in 0..Lanes(backend) - 1 : Unchanged(Lanes(backend))[i] = {}
<1> DEFINE n == Lanes(backend)
<1>1. n \in Nat
  BY DEF Lanes
<1>2. where = "block" => byte % 16 \in Positions
  <2>1. ASSUME where = "block" PROVE byte \in Int
    BY <1>1, <2>1
  <2> QED BY <2>1 DEF Positions
<1>3. \A i \in 0..n - 1 :
        Changed[i] = IF where = "block" /\ byte \div 16 = i THEN {byte % 16} ELSE {}
  BY DEF Changed
<1>4. Changed = [i \in 0..n - 1 |-> Changed[i]]
  BY DEF Changed
<1>5. Changed \in Vectors(n)
  BY <1>2, <1>3, <1>4 DEF Vectors
<1>6. Unchanged(n) \in Vectors(n) /\ \A i \in 0..n - 1 : Unchanged(n)[i] = {}
  BY DEF Unchanged, Vectors
<1> QED BY <1>3, <1>5, <1>6
-----------------------------------------------------------------------------
(* The inductive invariant *)

\* The lane a changed byte of the block is in.
Own == byte \div 16

\* The stages at which a lane has taken in its partner.
Paired == Mixing(backend) \/ (backend = "v15" /\ stage = "mixed")

\* Only v2 leaves the last block to the tree.
Spared == backend = "v2" /\ further = 0

Shape ==
    /\ backend \in Backends
    /\ where \in {"block", "seed", "length"} /\ byte \in Places(backend)[where]
    /\ further \in 0..MaxFurther
    /\ stage \in {"fresh", "absorbing", "mixed", "tree", "done"}
    /\ stage = "fresh" => further = 0
    /\ stage \in {"fresh", "absorbing", "mixed"} => lane \in Vectors(Lanes(backend))
    /\ stage = "tree" => \E n \in {1, 2, 4, 8} : lane \in Vectors(n)
    /\ stage = "done" => lane \in Vectors(1)

SpreadOfBlock ==
    /\ stage \in {"absorbing", "mixed"} =>
         \A i \in DOMAIN lane : lane[i] # {} <=> i = Own \/ (Paired /\ i = Partner(Own))
    /\ stage = "absorbing" /\ (backend = "v1" \/ Mixing(backend) \/ further > 0) =>
         \E i \in DOMAIN lane : Wide(lane[i])
    /\ stage \in {"mixed", "tree"} => (\E i \in DOMAIN lane : Wide(lane[i])) \/ Spared
    /\ stage = "done" => lane[0] = Positions \/ Spared

SpreadOfSeed ==
    /\ stage = "fresh" /\ backend = "v1" => \A i \in DOMAIN lane : lane[i] = s0
    /\ stage = "absorbing" \/ (stage \in {"fresh", "mixed"} /\ backend # "v1") =>
         \A i \in DOMAIN lane : lane[i] # {}
    /\ stage = "tree" => \A i \in DOMAIN lane : Wide(lane[i])
    /\ stage = "done" => lane[0] = Positions

SpreadOfLength ==
    /\ stage # "done" => \A i \in DOMAIN lane : lane[i] = {}
    /\ stage = "done" => lane[0] = IF backend = "v1" THEN aesenc(len_blk, {}) ELSE len_blk

LaneInv ==
    /\ Shape
    /\ stage = "fresh" /\ where # "seed" => \A i \in DOMAIN lane : lane[i] = {}
    /\ where = "block" => SpreadOfBlock
    /\ where = "seed" => SpreadOfSeed
    /\ where = "length" => SpreadOfLength

LEMMA ShapeFacts ==
    ASSUME Shape
    PROVE  /\ backend \in {"v1", "v2", "v3", "v6", "v15"}
           /\ where = "block" => byte \in 0..16 * Lanes(backend) - 1
                                 /\ Own \in 0..Lanes(backend) - 1
           /\ where = "seed" => byte \in 0..31
           /\ where = "length" => byte \in 0..7
           /\ Lanes(backend) \in {8, 16} /\ (backend = "v1" <=> Lanes(backend) = 8)
<1>1. /\ backend \in {"v1", "v2", "v3", "v6", "v15"}
      /\ Lanes(backend) \in {8, 16} /\ (backend = "v1" <=> Lanes(backend) = 8)
  BY BackendsAssumption DEF Shape, Lanes
<1>2. /\ where = "block" => byte \in 0..16 * Lanes(backend) - 1
      /\ where = "seed" => byte \in 0..31
      /\ where = "length" => byte \in 0..7
  <2>1. byte \in Places(backend)[where]
    BY DEF Shape
  <2>2. /\ Places(backend)["block"] = 0..16 * Lanes(backend) - 1
        /\ Places(backend)["seed"] = 0..31 /\ Places(backend)["length"] = 0..7
    BY DEF Places
  <2> QED BY <2>1, <2>2
<1>3. where = "block" => Own \in 0..Lanes(backend) - 1
  BY <1>1, <1>2 DEF Own
<1> QED BY <1>1, <1>2, <1>3

LEMMA LaneInit == Init => LaneInv
<1> SUFFICES ASSUME Init PROVE LaneInv
  OBVIOUS
<1>1. /\ backend \in Backends /\ where \in {"block", "seed", "length"}
      /\ byte \in Places(backend)[where] /\ further = 0 /\ stage = "fresh"
      /\ lane = init_lanes(backend)
  BY DEF Init
<1>2. ASSUME NEW i \in 0..Lanes(backend) - 1
      PROVE  /\ lane[i] = IF backend = "v1" THEN s0 ELSE aesenc(s0, s1)
             /\ lane[i] \in SUBSET Positions
  <2>1. lane[i] = IF backend = "v1" THEN s0 ELSE aesenc(s0, s1)
    BY <1>1 DEF init_lanes
  <2> QED BY <2>1, Keys, Round
<1>3. lane \in Vectors(Lanes(backend)) /\ DOMAIN lane = 0..Lanes(backend) - 1
  BY <1>1, <1>2 DEF init_lanes, Vectors
<1>4. Shape
  BY <1>1, <1>3, FurtherAssumption DEF Shape
<1>5. aesenc(s0, s1) = {} <=> s0 = {} /\ s1 = {}
  BY Keys, Round
<1>6. where # "seed" => \A i \in DOMAIN lane : lane[i] = {}
  BY <1>2, <1>3, <1>5, NoSeedByte
<1>7. where = "seed" => SpreadOfSeed
  BY <1>1, <1>2, <1>3, <1>4, <1>5, SeedByte, ShapeFacts DEF SpreadOfSeed
<1> QED BY <1>1, <1>4, <1>6, <1>7 DEF LaneInv, SpreadOfBlock, SpreadOfLength
-----------------------------------------------------------------------------
(* The steps *)

LEMMA AbsorbStep ==
    ASSUME LaneInv, Absorb
    PROVE  LaneInv'
<1> DEFINE n == Lanes(backend)
<1>1. /\ stage = "fresh" /\ stage' = "absorbing" /\ lane' = process_block(lane, Changed)
      /\ UNCHANGED <<backend, where, byte, further>>
  BY DEF Absorb, change
<1>2. /\ Shape /\ lane \in Vectors(n) /\ DOMAIN lane = 0..n - 1
  BY <1>1 DEF LaneInv, Shape, Vectors
<1>3. /\ backend \in {"v1", "v2", "v3", "v6", "v15"} /\ n \in {8, 16}
      /\ backend = "v1" <=> n = 8
      /\ where = "block" => Own \in 0..n - 1
  BY <1>2, ShapeFacts
<1>4. /\ Changed \in Vectors(n)
      /\ \A i \in 0..n - 1 : Changed[i] # {} <=> where = "block" /\ Own = i
  BY <1>2, ShapeFacts, Slices DEF Own
<1>5. /\ lane' \in Vectors(n) /\ DOMAIN lane' = 0..n - 1
      /\ \A i \in 0..n - 1 :
           /\ lane'[i] = {} <=>
                /\ Untouched(lane, Changed, i)
                /\ Mixing(backend) => Untouched(lane, Changed, Partner(i))
           /\ Changed[i] # {} /\ (backend = "v1" \/ Mixing(backend)) => Wide(lane'[i])
  BY <1>1, <1>2, <1>3, <1>4, BlockMixes DEF Vectors
<1>6. Shape'
  BY <1>1, <1>2, <1>5 DEF Shape
<1>7. \A i \in 0..n - 1 : Mixing(backend) => Partner(i) \in 0..n - 1
  BY <1>3, PartnerFacts DEF Mixing
<1>8. ASSUME where # "seed", NEW i \in 0..n - 1
      PROVE  lane'[i] # {} <=> where = "block" /\ (i = Own \/ (Mixing(backend) /\ i = Partner(Own)))
  <2>1. \A j \in 0..n - 1 : lane[j] = {}
    BY <1>1, <1>2, <1>8 DEF LaneInv
  <2>2. \A j \in 0..n - 1 : Untouched(lane, Changed, j) <=> ~(where = "block" /\ Own = j)
    BY <1>4, <1>8, <2>1, NoSeedByte DEF Untouched
  <2>3. lane'[i] = {} <=>
          /\ ~(where = "block" /\ Own = i)
          /\ Mixing(backend) => ~(where = "block" /\ Own = Partner(i))
    BY <1>5, <1>7, <2>2
  <2>4. Mixing(backend) /\ where = "block" => (Own = Partner(i) <=> i = Partner(Own))
    BY <1>3, PartnerFacts DEF Mixing
  <2> QED BY <2>3, <2>4
<1>9. ASSUME where = "block" PROVE SpreadOfBlock'
  <2>1. Own' = Own /\ Paired' = Mixing(backend) /\ Spared' = Spared /\ further' = 0
    BY <1>1, <1>2 DEF Own, Paired, Spared, Mixing, Shape
  <2>2. \A i \in 0..n - 1 : lane'[i] # {} <=> i = Own \/ (Paired' /\ i = Partner(Own))
    BY <1>8, <1>9, <2>1
  <2>3. backend = "v1" \/ Mixing(backend) => Wide(lane'[Own])
    BY <1>3, <1>4, <1>5, <1>9
  <2> QED BY <1>1, <1>3, <1>5, <1>9, <2>1, <2>2, <2>3 DEF SpreadOfBlock, Mixing
<1>10. ASSUME where = "seed" PROVE SpreadOfSeed'
  <2>1. ASSUME NEW i \in 0..n - 1 PROVE lane'[i] # {}
    <3>1. SpreadOfSeed
      BY <1>10 DEF LaneInv
    <3>2. backend = "v1" => lane[i] = s0 /\ round_key = s1
      BY <1>1, <1>2, <3>1 DEF SpreadOfSeed, round_key
    <3>3. backend # "v1" => lane[i] # {}
      BY <1>1, <1>2, <3>1 DEF SpreadOfSeed
    <3>4. s0 # {} \/ s1 # {}
      BY <1>2, <1>10, ShapeFacts, SeedByte
    <3>5. ~Untouched(lane, Changed, i)
      BY <3>2, <3>3, <3>4 DEF Untouched
    <3> QED BY <1>5, <3>5
  <2> QED BY <1>1, <1>5, <2>1 DEF SpreadOfSeed
<1>11. ASSUME where = "length" PROVE SpreadOfLength'
  BY <1>1, <1>5, <1>8, <1>11 DEF SpreadOfLength
<1> QED BY <1>1, <1>6, <1>9, <1>10, <1>11 DEF LaneInv

LEMMA AbsorbFurtherStep ==
    ASSUME LaneInv, AbsorbFurther
    PROVE  LaneInv'
<1> DEFINE n == Lanes(backend)
           b == Unchanged(n)
<1>1. /\ stage = "absorbing" /\ stage' = "absorbing" /\ lane' = process_block(lane, b)
      /\ further < MaxFurther /\ further' = further + 1
      /\ UNCHANGED <<backend, where, byte>>
  BY DEF AbsorbFurther, change
<1>2. /\ Shape /\ lane \in Vectors(n) /\ DOMAIN lane = 0..n - 1
  BY <1>1 DEF LaneInv, Shape, Vectors
<1>3. /\ backend \in {"v1", "v2", "v3", "v6", "v15"} /\ n \in {8, 16}
      /\ backend = "v1" <=> n = 8
      /\ where = "block" => Own \in 0..n - 1
  BY <1>2, ShapeFacts
<1>4. b \in Vectors(n) /\ \A i \in 0..n - 1 : b[i] = {}
  BY <1>2, ShapeFacts, Slices
<1> HIDE DEF b
<1>5. /\ lane' \in Vectors(n) /\ DOMAIN lane' = 0..n - 1
      /\ \A i \in 0..n - 1 :
           /\ lane'[i] = {} <=>
                Untouched(lane, b, i) /\ (Mixing(backend) => Untouched(lane, b, Partner(i)))
           /\ lane[i] # {} => Wide(lane'[i])
  BY <1>1, <1>2, <1>3, <1>4, BlockMixes DEF Vectors
<1>6. further \in Nat /\ further' \in 0..MaxFurther /\ further' > 0
  BY <1>1, <1>2, FurtherAssumption DEF Shape
<1>7. Shape'
  BY <1>1, <1>2, <1>5, <1>6 DEF Shape
<1>8. \A i \in 0..n - 1 : Mixing(backend) => Partner(i) \in 0..n - 1
  BY <1>3, PartnerFacts DEF Mixing
<1>9. ASSUME where # "seed", NEW i \in 0..n - 1
      PROVE  lane'[i] = {} <=> lane[i] = {} /\ (Mixing(backend) => lane[Partner(i)] = {})
  <2>1. \A j \in 0..n - 1 : Untouched(lane, b, j) <=> lane[j] = {}
    BY <1>4, <1>9, NoSeedByte DEF Untouched
  <2> QED BY <1>5, <1>8, <2>1
<1>10. ASSUME where = "block" PROVE SpreadOfBlock'
  <2>1. Own' = Own /\ Paired' = Mixing(backend) /\ Paired = Mixing(backend)
    BY <1>1 DEF Own, Paired, Mixing
  <2>2. \A i \in 0..n - 1 : lane[i] # {} <=> i = Own \/ (Mixing(backend) /\ i = Partner(Own))
    BY <1>1, <1>2, <1>10, <2>1 DEF LaneInv, SpreadOfBlock
  <2>3. \A i \in 0..n - 1 : lane'[i] # {} <=> i = Own \/ (Mixing(backend) /\ i = Partner(Own))
    <3>1. Mixing(backend) => n = 16 /\ Own \in 0..15
      BY <1>3, <1>10 DEF Mixing
    <3> QED BY <1>8, <1>9, <1>10, <2>2, <3>1, PartnerFacts
  <2>4. Wide(lane'[Own])
    BY <1>3, <1>5, <1>10, <2>2
  <2> QED BY <1>1, <1>3, <1>5, <1>10, <2>1, <2>3, <2>4 DEF SpreadOfBlock
<1>11. ASSUME where = "seed" PROVE SpreadOfSeed'
  <2>1. \A i \in 0..n - 1 : lane[i] # {}
    BY <1>1, <1>2, <1>11 DEF LaneInv, SpreadOfSeed
  <2>2. \A i \in 0..n - 1 : lane'[i] # {}
    BY <1>5, <2>1, WideFacts
  <2> QED BY <1>1, <1>5, <2>2 DEF SpreadOfSeed
<1>12. ASSUME where = "length" PROVE SpreadOfLength'
  <2>1. \A i \in 0..n - 1 : lane[i] = {}
    BY <1>1, <1>2, <1>12 DEF LaneInv, SpreadOfLength
  <2>2. \A i \in 0..n - 1 : lane'[i] = {}
    BY <1>8, <1>9, <1>12, <2>1
  <2> QED BY <1>1, <1>5, <2>2 DEF SpreadOfLength
<1> QED BY <1>1, <1>7, <1>10, <1>11, <1>12 DEF LaneInv

LEMMA PreMixStep ==
    ASSUME LaneInv, PreMix
    PROVE  LaneInv'
<1> DEFINE n == Lanes(backend)
           Mixed == Mixing(backend) \/ backend = "v15"
<1>1. /\ stage = "absorbing" \/ (stage = "fresh" /\ where # "block")
      /\ stage' = "mixed"
      /\ lane' = IF Mixed THEN butterfly_mix(lane) ELSE lane
      /\ UNCHANGED <<backend, where, byte, further>>
  BY DEF PreMix, change, Mixing
<1>2. /\ Shape /\ lane \in Vectors(n) /\ DOMAIN lane = 0..n - 1
  BY <1>1 DEF LaneInv, Shape, Vectors
<1>3. /\ backend \in {"v1", "v2", "v3", "v6", "v15"} /\ n \in {8, 16}
      /\ backend = "v1" <=> n = 8
      /\ where = "block" => Own \in 0..n - 1
  BY <1>2, ShapeFacts
<1>4. Mixed => n = 16
  BY <1>3 DEF Mixing
<1>5. /\ lane' \in Vectors(n) /\ DOMAIN lane' = 0..n - 1
      /\ Mixed => \A i \in 0..n - 1 :
           /\ lane'[i] = {} <=> lane[i] = {} /\ lane[Partner(i)] = {}
           /\ lane[i] # {} => Wide(lane'[i])
  <2>1. CASE Mixed
    <3>1. lane \in Vectors(16) /\ lane' = butterfly_mix(lane)
      BY <1>1, <1>2, <1>4, <2>1
    <3>2. /\ lane' \in Vectors(16)
          /\ \A i \in 0..15 :
               /\ lane'[i] = {} <=> lane[i] = {} /\ lane[Partner(i)] = {}
               /\ lane[i] # {} => Wide(lane'[i])
      BY <3>1, Butterfly
    <3>3. n = 16 /\ DOMAIN lane' = 0..15
      BY <1>4, <2>1, <3>2 DEF Vectors
    <3> QED BY <3>2, <3>3
  <2>2. CASE ~Mixed
    BY <1>1, <1>2, <2>2
  <2> QED BY <2>1, <2>2
<1>6. ~Mixed => lane' = lane
  BY <1>1
<1>7. Shape'
  BY <1>1, <1>2, <1>5 DEF Shape
<1>8. \A i \in 0..n - 1 : Mixed => Partner(i) \in 0..n - 1
  BY <1>4, PartnerFacts
<1>9. ASSUME where = "block" PROVE SpreadOfBlock'
  <2>1. Own' = Own /\ Paired' = Mixed /\ Paired = Mixing(backend) /\ Spared' = Spared
    BY <1>1, <1>9 DEF Own, Paired, Mixing, Spared
  <2>2. \A i \in 0..n - 1 : lane[i] # {} <=> i = Own \/ (Mixing(backend) /\ i = Partner(Own))
    BY <1>1, <1>2, <1>9, <2>1 DEF LaneInv, SpreadOfBlock
  <2>3. \A i \in 0..n - 1 : lane'[i] # {} <=> i = Own \/ (Mixed /\ i = Partner(Own))
    <3>1. CASE Mixed
      <4>1. Own \in 0..15 /\ n = 16
        BY <1>3, <1>4, <1>9, <3>1
      <4> QED BY <1>5, <1>8, <2>2, <3>1, <4>1, PartnerFacts
    <3>2. CASE ~Mixed
      BY <1>6, <2>2, <3>2
    <3> QED BY <3>1, <3>2
  <2>4. (\E i \in 0..n - 1 : Wide(lane'[i])) \/ Spared
    <3>1. CASE Mixed
      <4>1. Wide(lane'[Own])
        BY <1>3, <1>5, <1>9, <2>2, <3>1
      <4> QED BY <1>3, <1>9, <4>1
    <3>2. CASE ~Mixed
      <4>1. further \in Nat
        BY <1>2, FurtherAssumption DEF Shape
      <4>2. backend = "v1" \/ further > 0 \/ Spared
        BY <1>3, <3>2, <4>1 DEF Mixing, Spared
      <4>3. (\E i \in 0..n - 1 : Wide(lane[i])) \/ Spared
        BY <1>1, <1>2, <1>9, <4>2 DEF LaneInv, SpreadOfBlock
      <4> QED BY <1>6, <3>2, <4>3
    <3> QED BY <3>1, <3>2
  <2> QED BY <1>1, <1>5, <2>1, <2>3, <2>4 DEF SpreadOfBlock
<1>10. ASSUME where = "seed" PROVE SpreadOfSeed'
  <2>1. backend # "v1" => \A i \in 0..n - 1 : lane[i] # {}
    BY <1>1, <1>2, <1>10 DEF LaneInv, SpreadOfSeed
  <2>2. backend # "v1" => \A i \in 0..n - 1 : lane'[i] # {}
    BY <1>5, <1>6, <2>1, WideFacts
  <2> QED BY <1>1, <1>5, <2>2 DEF SpreadOfSeed
<1>11. ASSUME where = "length" PROVE SpreadOfLength'
  <2>1. \A i \in 0..n - 1 : lane[i] = {}
    BY <1>1, <1>2, <1>11 DEF LaneInv, SpreadOfLength
  <2>2. \A i \in 0..n - 1 : lane'[i] = {}
    BY <1>5, <1>6, <1>8, <2>1
  <2> QED BY <1>1, <1>5, <2>2 DEF SpreadOfLength
<1> QED BY <1>1, <1>7, <1>9, <1>10, <1>11 DEF LaneInv

\* A round of the tree, lane by lane.
LEMMA Halved ==
    ASSUME NEW n \in {1, 2, 4, 8}, lane \in Vectors(2 * n),
           lane' = IF backend = "v1" THEN v1_halve(lane, n) ELSE v2_halve(lane, n)
    PROVE  /\ lane' \in Vectors(n)
           /\ \A i \in 0..n - 1 :
                /\ Wide(lane[i]) \/ Wide(lane[i + n]) => Wide(lane'[i])
                /\ lane[i] # {} => Wide(lane'[i])
                /\ backend = "v1" /\ Wide(cross_key) => Wide(lane'[i])
                /\ lane[i] = {} /\ lane[i + n] = {} /\ cross_key = {} => lane'[i] = {}
<1>1. ASSUME NEW i \in 0..n - 1
      PROVE  /\ lane'[i] \in SUBSET Positions
             /\ Wide(lane[i]) \/ Wide(lane[i + n]) => Wide(lane'[i])
             /\ lane[i] # {} => Wide(lane'[i])
             /\ backend = "v1" /\ Wide(cross_key) => Wide(lane'[i])
             /\ lane[i] = {} /\ lane[i + n] = {} /\ cross_key = {} => lane'[i] = {}
  <2> DEFINE x == lane[i]
             y == lane[i + n]
  <2>1. x \in SUBSET Positions /\ y \in SUBSET Positions
    <3>1. i \in 0..2 * n - 1 /\ i + n \in 0..2 * n - 1
      OBVIOUS
    <3> QED BY <3>1 DEF Vectors
  <2>2. lane'[i] = IF backend = "v1" THEN aesenc(x \cup y, cross_key) ELSE aesenc(x, y)
    BY DEF v1_halve, v2_halve
  <2> HIDE DEF x, y
  <2>3. x \cup y \in SUBSET Positions /\ (x \cup y = {} <=> x = {} /\ y = {})
    BY <2>1
  <2>4. /\ aesenc(x \cup y, cross_key) \in SUBSET Positions
        /\ aesenc(x \cup y, cross_key) = {} <=> x \cup y = {} /\ cross_key = {}
        /\ x \cup y # {} \/ Wide(cross_key) => Wide(aesenc(x \cup y, cross_key))
    BY <2>3, Keys, Round
  <2>5. /\ aesenc(x, y) \in SUBSET Positions
        /\ aesenc(x, y) = {} <=> x = {} /\ y = {}
        /\ x # {} \/ Wide(y) => Wide(aesenc(x, y))
    BY <2>1, Round
  <2>6. (Wide(x) => x # {}) /\ (Wide(y) => y # {})
    BY WideFacts
  <2>7. CASE backend = "v1"
    BY <2>2, <2>3, <2>4, <2>6, <2>7 DEF x, y
  <2>8. CASE backend # "v1"
    BY <2>2, <2>5, <2>6, <2>8 DEF x, y
  <2> QED BY <2>7, <2>8
<1>2. lane' = [i \in 0..n - 1 |-> lane'[i]]
  BY DEF v1_halve, v2_halve
<1> QED BY <1>1, <1>2 DEF Vectors

LEMMA HalveStep ==
    ASSUME LaneInv, Halve
    PROVE  LaneInv'
<1>1. /\ stage \in {"mixed", "tree"} /\ stage' = "tree" /\ Shape
      /\ UNCHANGED <<backend, where, byte, further>>
  BY DEF Halve, change, LaneInv
<1>2. /\ backend \in {"v1", "v2", "v3", "v6", "v15"}
      /\ Lanes(backend) \in {8, 16}
      /\ where = "seed" => byte \in 0..31
  BY <1>1, ShapeFacts
<1>3. PICK m \in {1, 2, 4, 8, 16} : lane \in Vectors(m)
  BY <1>1, <1>2 DEF Shape
<1>4. DOMAIN lane = 0..m - 1 /\ Cardinality(DOMAIN lane) = m
  <2>1. Cardinality(0..m - 1) = m
    BY FS_Interval
  <2> QED BY <1>3, <2>1 DEF Vectors
<1>5. PICK n \in {1, 2, 4, 8} : m = 2 * n /\ n = m \div 2
  <2>1. m \div 2 > 0
    BY <1>4 DEF Halve
  <2> QED BY <2>1
<1>6. lane \in Vectors(2 * n) /\ DOMAIN lane = 0..2 * n - 1
  BY <1>3, <1>4, <1>5
<1>7. lane' = IF backend = "v1" THEN v1_halve(lane, n) ELSE v2_halve(lane, n)
  BY <1>4, <1>5 DEF Halve
<1>8. /\ lane' \in Vectors(n) /\ DOMAIN lane' = 0..n - 1
      /\ \A i \in 0..n - 1 :
           /\ Wide(lane[i]) \/ Wide(lane[i + n]) => Wide(lane'[i])
           /\ lane[i] # {} => Wide(lane'[i])
           /\ backend = "v1" /\ Wide(cross_key) => Wide(lane'[i])
           /\ lane[i] = {} /\ lane[i + n] = {} /\ cross_key = {} => lane'[i] = {}
  BY <1>6, <1>7, Halved DEF Vectors
<1>9. Shape'
  BY <1>1, <1>8 DEF Shape
<1>10. \A i \in 0..n - 1 : i \in 0..2 * n - 1 /\ i + n \in 0..2 * n - 1
  OBVIOUS
<1>11. ASSUME where = "block" PROVE SpreadOfBlock'
  <2>1. Spared' = Spared
    BY <1>1 DEF Spared
  <2>2. (\E j \in 0..2 * n - 1 : Wide(lane[j])) \/ Spared
    BY <1>1, <1>6, <1>11 DEF LaneInv, SpreadOfBlock
  <2>3. ASSUME NEW j \in 0..2 * n - 1, Wide(lane[j])
        PROVE  \E i \in 0..n - 1 : Wide(lane'[i])
    <3>1. CASE j < n
      <4>1. j \in 0..n - 1
        BY <3>1
      <4> QED BY <1>8, <2>3, <4>1
    <3>2. CASE j >= n
      <4>1. j - n \in 0..n - 1 /\ (j - n) + n = j
        BY <3>2
      <4> QED BY <1>8, <2>3, <4>1
    <3> QED BY <3>1, <3>2
  <2> QED BY <1>1, <1>8, <2>1, <2>2, <2>3 DEF SpreadOfBlock
<1>12. ASSUME where = "seed" PROVE SpreadOfSeed'
  <2>1. backend # "v1" => \A i \in 0..2 * n - 1 : lane[i] # {}
    BY <1>1, <1>6, <1>12, WideFacts DEF LaneInv, SpreadOfSeed
  <2>2. Wide(cross_key)
    BY <1>2, <1>12, SeedByte
  <2>3. \A i \in 0..n - 1 : Wide(lane'[i])
    BY <1>8, <1>10, <2>1, <2>2
  <2> QED BY <1>1, <1>8, <2>3 DEF SpreadOfSeed
<1>13. ASSUME where = "length" PROVE SpreadOfLength'
  <2>1. cross_key = {}
    BY <1>13, NoSeedByte
  <2>2. \A i \in 0..2 * n - 1 : lane[i] = {}
    BY <1>1, <1>6, <1>13 DEF LaneInv, SpreadOfLength
  <2>3. \A i \in 0..n - 1 : lane'[i] = {}
    BY <1>8, <1>10, <2>1, <2>2
  <2> QED BY <1>1, <1>8, <2>3 DEF SpreadOfLength
<1> QED BY <1>1, <1>9, <1>11, <1>12, <1>13 DEF LaneInv

LEMMA LengthFoldStep ==
    ASSUME LaneInv, LengthFold
    PROVE  LaneInv'
<1> DEFINE x == lane[0]
           y == lane'[0]
<1>1. /\ stage = "tree" /\ stage' = "done" /\ DOMAIN lane = {0} /\ Shape
      /\ lane' = [lane EXCEPT ![0] =
           IF backend = "v1" THEN aesenc(@ \cup len_blk, cross_key) ELSE aesenc(@, len_blk)]
      /\ UNCHANGED <<backend, where, byte, further>>
  BY DEF LengthFold, change, LaneInv
<1>2. where = "length" => byte \in 0..7
  BY <1>1, ShapeFacts
<1>3. len_blk \in SUBSET Positions /\ (where # "length" => len_blk = {})
  BY <1>2 DEF len_blk, Positions
<1>4. lane = [i \in {0} |-> lane[i]] /\ x \in SUBSET Positions
  <2>1. PICK n \in {1, 2, 4, 8} : lane \in Vectors(n)
    BY <1>1 DEF Shape
  <2>2. 0 \in 0..n - 1
    OBVIOUS
  <2> QED BY <1>1, <2>1, <2>2 DEF Vectors
<1>5. /\ lane' = [i \in {0} |-> y]
      /\ y = IF backend = "v1" THEN aesenc(x \cup len_blk, cross_key) ELSE aesenc(x, len_blk)
  BY <1>1, <1>4
<1>6. len_blk' = len_blk
  BY <1>1 DEF len_blk
<1> HIDE DEF x, y
<1>7. /\ x \cup len_blk \in SUBSET Positions
      /\ Wide(x) => Wide(x \cup len_blk)
  BY <1>3, <1>4, WideFacts
<1>8. /\ aesenc(x \cup len_blk, cross_key) \in SUBSET Positions
      /\ Wide(x \cup len_blk) => aesenc(x \cup len_blk, cross_key) = Positions
  BY <1>7, Keys, Round
<1>9. /\ aesenc(x, len_blk) \in SUBSET Positions
      /\ Wide(x) => aesenc(x, len_blk) = Positions
  BY <1>3, <1>4, Round
<1>10. y \in SUBSET Positions /\ (Wide(x) => y = Positions)
  BY <1>5, <1>7, <1>8, <1>9
<1>11. lane' \in Vectors(1)
  <2>1. 0..1 - 1 = {0}
    OBVIOUS
  <2> QED BY <1>5, <1>10, <2>1 DEF Vectors
<1>12. Shape'
  BY <1>1, <1>11 DEF Shape
<1>13. ASSUME where = "block" PROVE SpreadOfBlock'
  <2>1. Spared' = Spared /\ (Wide(x) \/ Spared)
    BY <1>1, <1>13 DEF LaneInv, SpreadOfBlock, Spared, x
  <2> QED BY <1>1, <1>10, <2>1 DEF SpreadOfBlock, y
<1>14. ASSUME where = "seed" PROVE SpreadOfSeed'
  <2>1. Wide(x)
    BY <1>1, <1>14 DEF LaneInv, SpreadOfSeed, x
  <2> QED BY <1>1, <1>10, <2>1 DEF SpreadOfSeed, y
<1>15. ASSUME where = "length" PROVE SpreadOfLength'
  <2>1. x = {} /\ cross_key = {}
    BY <1>1, <1>15, NoSeedByte DEF LaneInv, SpreadOfLength, x
  <2>2. aesenc({}, len_blk) = len_blk
    BY <1>3 DEF aesenc
  <2>3. x \cup len_blk = len_blk
    BY <2>1
  <2>4. y = IF backend = "v1" THEN aesenc(len_blk, {}) ELSE len_blk
    BY <1>5, <2>1, <2>2, <2>3
  <2> QED BY <1>1, <1>6, <2>4 DEF SpreadOfLength, y
<1> QED BY <1>1, <1>12, <1>13, <1>14, <1>15 DEF LaneInv

LEMMA LaneStep == LaneInv /\ [Next]_vars => LaneInv'
<1> SUFFICES ASSUME LaneInv, [Next]_vars PROVE LaneInv'
  OBVIOUS
<1>1. CASE UNCHANGED vars
  BY <1>1 DEF vars, change, LaneInv, Shape, SpreadOfBlock, SpreadOfSeed, SpreadOfLength,
     Own, Paired, Spared, s0, len_blk, Places
<1> QED BY <1>1, AbsorbStep, AbsorbFurtherStep, PreMixStep, HalveStep, LengthFoldStep DEF Next

LEMMA LaneAlways == Spec => []LaneInv
  BY LaneInit, LaneStep, PTL DEF Spec
-----------------------------------------------------------------------------
(* The properties *)

\* The lanes keep the number that the stage of the backend leaves.
THEOREM LaneTypes == Spec => []TypeOK
<1>1. LaneInv => TypeOK
  <2> SUFFICES ASSUME LaneInv PROVE TypeOK
    OBVIOUS
  <2>1. Shape /\ Lanes(backend) \in {8, 16}
    BY ShapeFacts DEF LaneInv
  <2>2. \E n \in {1, 2, 4, 8, 16} : lane \in Vectors(n)
    BY <2>1 DEF Shape
  <2> QED BY <2>1, <2>2 DEF Shape, TypeOK, Vectors
<1> QED BY <1>1, LaneAlways, PTL

\* However many blocks follow, a byte of a block or of the seed can change every
\* byte of the digest.
THEOREM EveryByteSpreads == Spec => []FullDiffusion
<1>1. LaneInv => FullDiffusion
  BY DEF LaneInv, Shape, SpreadOfBlock, SpreadOfSeed, Spared, FullDiffusion, Digest
<1> QED BY <1>1, LaneAlways, PTL

\* Until the tree a byte of the block stays in its own lane and the partner it
\* is mixed into, however many blocks follow.
THEOREM LanesStayApart == Spec => []OwnLanesOnly
<1>1. LaneInv => OwnLanesOnly
  <2> SUFFICES ASSUME LaneInv PROVE OwnLanesOnly
    OBVIOUS
  <2> DEFINE n == Lanes(backend)
             pair == {Own, (Own + 8) % 16}
             mixing == backend \in {"v3", "v6"} \/ (backend = "v15" /\ stage = "mixed")
  <2>1. /\ Shape /\ n \in {8, 16}
        /\ backend = "v1" <=> n = 8
        /\ where = "block" => Own \in 0..n - 1
    BY ShapeFacts DEF LaneInv
  <2>2. stage \in {"absorbing", "mixed"} => DOMAIN lane = 0..n - 1
    BY <2>1 DEF Shape, Vectors
  <2>3. ASSUME stage \in {"absorbing", "mixed"}, where = "block"
        PROVE  Reached = IF mixing THEN pair ELSE {Own}
    <3>1. \A i \in 0..n - 1 : lane[i] # {} <=> i = Own \/ (mixing /\ i = Partner(Own))
      BY <2>2, <2>3 DEF LaneInv, SpreadOfBlock, Paired, Mixing
    <3>2. mixing => Partner(Own) \in 0..n - 1
      <4>1. mixing => n = 16 /\ Own \in 0..15
        BY <2>1, <2>3
      <4> QED BY <4>1, PartnerFacts
    <3>3. Partner(Own) = (Own + 8) % 16
      BY DEF Partner
    <3> HIDE DEF mixing
    <3>4. \A i : i \in Reached <=> i = Own \/ (mixing /\ i = Partner(Own))
      BY <2>1, <2>2, <2>3, <3>1, <3>2 DEF Reached
    <3> QED BY <3>3, <3>4
  <2>4. stage = "absorbing" /\ where = "seed" => Reached = DOMAIN lane
    BY DEF LaneInv, SpreadOfSeed, Reached
  <2>5. stage # "done" /\ where = "length" => Reached = {}
    BY DEF LaneInv, SpreadOfLength, Reached
  <2> QED BY <2>3, <2>4, <2>5 DEF OwnLanesOnly, Own
<1> QED BY <1>1, LaneAlways, PTL

LEMMA ColumnSize ==
    ASSUME NEW d \in 0..3, NEW e \in 0..3, d # e
    PROVE  Cardinality(Column(d) \cup Column(e)) = 8
<1>1. ASSUME NEW c \in 0..3
      PROVE  Column(c) = 4 * c..4 * c + 3 /\ IsFiniteSet(Column(c)) /\ Cardinality(Column(c)) = 4
  <2>1. \A b : b \in Column(c) <=> b \in 4 * c..4 * c + 3
    BY DEF Column, Positions
  <2>2. Column(c) = 4 * c..4 * c + 3
    BY <2>1
  <2> QED BY <2>2, FS_Interval
<1>2. Column(d) \cap Column(e) = {}
  BY DEF Column
<1>3. Cardinality(Column(d) \cup Column(e)) = 4 + 4 - Cardinality({})
  BY <1>1, <1>2, FS_Union
<1> QED BY <1>3, FS_EmptySet

\* The length shows in the digest: in two bytes, or in v1 in two columns.
THEOREM LengthShows == Spec => []LengthTells
<1>1. LaneInv => LengthTells
  <2> SUFFICES ASSUME LaneInv, stage = "done", where = "length"
               PROVE  /\ Digest # {}
                      /\ backend # "v1" => Digest = {byte, 8 + byte}
                      /\ backend = "v1" => Cardinality(Digest) = 8
    BY DEF LengthTells
  <2>1. byte \in 0..7
    BY ShapeFacts DEF LaneInv
  <2>2. Digest = IF backend = "v1" THEN aesenc(len_blk, {}) ELSE len_blk
    BY DEF LaneInv, SpreadOfLength, Digest
  <2>3. len_blk = {byte, 8 + byte}
    BY DEF len_blk
  <2>4. PICK r \in 0..3, c \in 0..1 : byte = r + 4 * c
    <3>1. byte % 4 \in 0..3 /\ byte \div 4 \in 0..1 /\ byte = (byte % 4) + 4 * (byte \div 4)
      BY <2>1
    <3> QED BY <3>1
  <2>5. PICK d \in 0..3 : (d + r) % 4 = c
    BY ShiftReaches
  <2>6. PICK e \in 0..3 : (e + r) % 4 = c + 2
    BY ShiftReaches
  <2>7. aesenc(len_blk, {}) = Column(d) \cup Column(e)
    <3>1. ASSUME NEW b \in Positions
          PROVE  b \in aesenc(len_blk, {}) <=> b \div 4 = d \/ b \div 4 = e
      <4>1. PICK k \in 0..3 : k = b \div 4
        BY DEF Positions
      <4>2. b \in aesenc(len_blk, {}) <=>
              \E q \in 0..3 : q + 4 * ((k + q) % 4) \in {r + 4 * c, r + 4 * (c + 2)}
        BY <2>3, <2>4, <4>1 DEF aesenc
      <4>3. ASSUME NEW q \in 0..3
            PROVE  q + 4 * ((k + q) % 4) \in {r + 4 * c, r + 4 * (c + 2)} <=>
                     q = r /\ (k + r) % 4 \in {c, c + 2}
        <5>1. PICK h \in 0..3 : h = (k + q) % 4
          OBVIOUS
        <5>2. q + 4 * h \in {r + 4 * c, r + 4 * (c + 2)} <=> q = r /\ h \in {c, c + 2}
          OBVIOUS
        <5> QED BY <5>1, <5>2
      <4>4. (k + r) % 4 = c <=> k = d
        BY <2>5
      <4>5. (k + r) % 4 = c + 2 <=> k = e
        BY <2>6
      <4> QED BY <4>1, <4>2, <4>3, <4>4, <4>5
    <3>2. \A b : b \in aesenc(len_blk, {}) => b \in Positions
      BY DEF aesenc
    <3> QED BY <3>1, <3>2 DEF Column
  <2>8. d # e
    BY <2>5, <2>6
  <2>9. Cardinality(aesenc(len_blk, {})) = 8
    BY <2>7, <2>8, ColumnSize
  <2>10. aesenc(len_blk, {}) # {}
    BY <2>9, FS_EmptySet
  <2> QED BY <2>2, <2>3, <2>9, <2>10
<1> QED BY <1>1, LaneAlways, PTL
=============================================================================
