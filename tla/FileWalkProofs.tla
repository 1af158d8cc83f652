--------------------------- MODULE FileWalkProofs ---------------------------
(***************************************************************************)
(* The walk of bench/file.c, as FileBench instantiates it, for every tree, *)
(* every length of a path and every capacity.                              *)
(***************************************************************************)
EXTENDS FileBench, FiniteSetTheorems, SequenceTheorems, WellFoundedInduction, TLAPS

Frames == [dir : Walk!Dirs, len : 1..PATH_MAX, todo : SUBSET Walk!Names]

\* A directory is open while the walk goes on, and readdir hands out only what
\* is in it.
WalkInv ==
    /\ Walk!TypeOK /\ Walk!InCapacity
    /\ walk = "opening" => dirs = << >> /\ items = << >>
    /\ walk = "walking" => dirs # << >>
    /\ \A i \in 1..Len(dirs) : dirs[i].todo \subseteq DOMAIN Entries[dirs[i].dir]

-----------------------------------------------------------------------------
(* The files under a node *)

\* The equation of Under, for a function f.
UnderStep(f, n) ==
    IF Kind[n] = "reg" THEN {n}
    ELSE IF Kind[n] = "dir" THEN UNION {f[Entries[n][e]] : e \in DOMAIN Entries[n]}
    ELSE {}

LEMMA UnderStepElements ==
    ASSUME NEW f, NEW n, NEW x
    PROVE  x \in UnderStep(f, n) <=>
             \/ Kind[n] = "reg" /\ x = n
             \/ Kind[n] = "dir" /\ \E e \in DOMAIN Entries[n] : x \in f[Entries[n][e]]
  BY DEF UnderStep

LEMMA EntriesAreNodes ==
    ASSUME NEW d \in Walk!Nodes, Kind[d] = "dir", NEW e \in DOMAIN Entries[d]
    PROVE  Entries[d][e] \in Walk!Nodes
  BY WalkAssumption DEF Walk!TreeAssumption, Walk!Dirs

\* A function into the files that holds all its equation asks for.
Closed(g) ==
    /\ g \in [Walk!Nodes -> SUBSET Walk!Files]
    /\ \A n \in Walk!Nodes : UnderStep(g, n) \subseteq g[n]

\* The least such function solves the equation.
LEMMA UnderExists == \E f : f = [n \in Walk!Nodes |-> UnderStep(f, n)]
<1> DEFINE F == [n \in Walk!Nodes |-> {x \in Walk!Files : \A g : Closed(g) => x \in g[n]}]
           H == [n \in Walk!Nodes |-> UnderStep(F, n)]
<1>1. \A n \in Walk!Nodes : \A x : x \in F[n] <=> x \in Walk!Files /\ \A g : Closed(g) => x \in g[n]
  OBVIOUS
<1> HIDE DEF F
<1>2. ASSUME NEW n \in Walk!Nodes, NEW x \in UnderStep(F, n) PROVE x \in Walk!Files
  <2>1. CASE Kind[n] = "reg" /\ x = n
    BY <2>1 DEF Walk!Files
  <2>2. CASE Kind[n] = "dir" /\ \E e \in DOMAIN Entries[n] : x \in F[Entries[n][e]]
    BY <1>1, <2>2, EntriesAreNodes
  <2> QED BY <1>2, <2>1, <2>2, UnderStepElements
<1>3. ASSUME NEW n \in Walk!Nodes, NEW x \in UnderStep(F, n), NEW g, Closed(g)
      PROVE  x \in g[n]
  <2>1. x \in UnderStep(g, n)
    <3>1. CASE Kind[n] = "reg" /\ x = n
      BY <3>1, UnderStepElements
    <3>2. CASE Kind[n] = "dir" /\ \E e \in DOMAIN Entries[n] : x \in F[Entries[n][e]]
      <4>1. PICK e \in DOMAIN Entries[n] : x \in F[Entries[n][e]]
        BY <3>2
      <4>2. x \in g[Entries[n][e]]
        BY <1>1, <1>3, <3>2, <4>1, EntriesAreNodes
      <4> QED BY <3>2, <4>2, UnderStepElements
    <3> QED BY <1>3, <3>1, <3>2, UnderStepElements
  <2> QED BY <1>3, <2>1 DEF Closed
<1>4. \A n \in Walk!Nodes : UnderStep(F, n) \subseteq F[n]
  BY <1>1, <1>2, <1>3
<1>5. \A n \in Walk!Nodes : H[n] = UnderStep(F, n)
  OBVIOUS
<1>6. Closed(H)
  <2>1. H \in [Walk!Nodes -> SUBSET Walk!Files]
    BY <1>2
  <2> HIDE DEF H
  <2>2. ASSUME NEW n \in Walk!Nodes, NEW x \in UnderStep(H, n) PROVE x \in H[n]
    <3>1. CASE Kind[n] = "reg" /\ x = n
      BY <1>5, <3>1, UnderStepElements
    <3>2. CASE Kind[n] = "dir" /\ \E e \in DOMAIN Entries[n] : x \in H[Entries[n][e]]
      <4>1. PICK e \in DOMAIN Entries[n] : x \in H[Entries[n][e]]
        BY <3>2
      <4>2. x \in F[Entries[n][e]]
        BY <1>4, <1>5, <3>2, <4>1, EntriesAreNodes
      <4> QED BY <1>5, <3>2, <4>2, UnderStepElements
    <3> QED BY <2>2, <3>1, <3>2, UnderStepElements
  <2> QED BY <2>1, <2>2 DEF Closed
<1>7. \A n \in Walk!Nodes : F[n] = UnderStep(F, n)
  <2> HIDE DEF H
  <2>1. ASSUME NEW n \in Walk!Nodes, NEW x \in F[n] PROVE x \in UnderStep(F, n)
    BY <1>1, <1>5, <1>6, <2>1
  <2> QED BY <1>4, <2>1
<1>8. F = [n \in Walk!Nodes |-> UnderStep(F, n)]
  <2>1. F = [n \in Walk!Nodes |-> F[n]]
    BY DEF F
  <2> QED BY <1>7, <2>1
<1> QED BY <1>8

\* What is under a file, a directory, and anything else.
LEMMA UnderNode ==
    ASSUME NEW n \in Walk!Nodes, NEW x
    PROVE  x \in Walk!Under[n] <=>
             \/ Kind[n] = "reg" /\ x = n
             \/ /\ Kind[n] = "dir"
                /\ \E e \in DOMAIN Entries[n] : x \in Walk!Under[Entries[n][e]]
<1>1. Walk!Under = CHOOSE f : f = [k \in Walk!Nodes |-> UnderStep(f, k)]
  BY DEF Walk!Under, UnderStep
<1>2. Walk!Under = [k \in Walk!Nodes |-> UnderStep(Walk!Under, k)]
  BY <1>1, UnderExists
<1>3. Walk!Under[n] = UnderStep(Walk!Under, n)
  BY <1>2
<1> QED BY <1>3, UnderStepElements

\* A set of natural numbers has a least element, on which proofs by the least
\* counterexample rest.
LEMMA LeastNatural ==
    ASSUME NEW T \in SUBSET Nat, T # {}
    PROVE  \E k \in T : \A l \in T : k <= l
<1>1. PICK k \in T : \A l \in T : <<l, k>> \notin OpToRel(<, Nat)
  BY NatLessThanWellFounded, WFMin
<1>2. \A l \in T : ~(l < k)
  BY <1>1 DEF OpToRel
<1> QED BY <1>2

\* depth[n] is how many directories node n is inside.
IsDepth(depth) ==
    /\ depth \in [Walk!Nodes -> 0..Cardinality(Walk!Nodes)]
    /\ \A d \in Walk!Dirs : \A e \in DOMAIN Entries[d] :
         depth[Entries[d][e]] = depth[d] + 1

LEMMA DepthExists ==
    /\ Cardinality(Walk!Nodes) \in Nat
    /\ \E depth : IsDepth(depth)
<1>1. IsFiniteSet(Walk!Nodes)
  <2>1. Walk!IsFiniteSet(Walk!Nodes)
    BY WalkAssumption DEF Walk!TreeAssumption
  <2> QED BY <2>1 DEF Walk!IsFiniteSet, IsFiniteSet
<1>2. \E depth : IsDepth(depth)
  <2>1. Walk!Cardinality(Walk!Nodes) = Cardinality(Walk!Nodes)
    BY DEF Walk!Cardinality, Cardinality
  <2> QED BY <2>1, WalkAssumption DEF Walk!TreeAssumption, IsDepth
<1> QED BY <1>1, <1>2, FS_CardinalityType

\* What is under a node is a file, and deeper unless it is the node itself.
LEMMA UnderIsDeeper ==
    ASSUME NEW depth, IsDepth(depth), NEW n \in Walk!Nodes, NEW x \in Walk!Under[n]
    PROVE  x \in Walk!Files /\ (x = n \/ depth[x] > depth[n])
<1> DEFINE N == Cardinality(Walk!Nodes)
           Fine(m, y) == y \in Walk!Files /\ (y = m \/ depth[y] > depth[m])
           Bad(k) == \E m \in Walk!Nodes : \E y \in Walk!Under[m] :
                       k = N - depth[m] /\ ~Fine(m, y)
           T == {k \in Nat : Bad(k)}
<1>1. N \in Nat /\ \A m \in Walk!Nodes : depth[m] \in Nat /\ N - depth[m] \in Nat
  BY DepthExists DEF IsDepth
<1> HIDE DEF N
<1> SUFFICES T = {}
  BY <1>1
<1> SUFFICES ASSUME T # {} PROVE FALSE
  OBVIOUS
<1>2. PICK k \in T : \A l \in T : k <= l
  BY LeastNatural
<1>a. PICK m \in Walk!Nodes : \E y \in Walk!Under[m] : k = N - depth[m] /\ ~Fine(m, y)
  BY <1>2
<1>3. PICK y \in Walk!Under[m] : k = N - depth[m] /\ ~Fine(m, y)
  BY <1>a
<1>4. PICK e \in DOMAIN Entries[m] : Kind[m] = "dir" /\ y \in Walk!Under[Entries[m][e]]
  BY <1>3, UnderNode DEF Walk!Files
<1>5. /\ Entries[m][e] \in Walk!Nodes /\ depth[Entries[m][e]] = depth[m] + 1
  BY <1>4, EntriesAreNodes DEF IsDepth, Walk!Dirs
<1>6. Fine(Entries[m][e], y)
  <2>1. N - depth[Entries[m][e]] \in Nat /\ N - depth[Entries[m][e]] < k
    BY <1>1, <1>3, <1>5
  <2> QED BY <1>2, <1>4, <1>5, <2>1
<1>7. depth[y] > depth[m]
  <2>1. y \in Walk!Nodes
    BY <1>6 DEF Walk!Files
  <2> QED BY <1>1, <1>5, <1>6, <2>1
<1> QED BY <1>3, <1>6, <1>7

\* Nothing is under two nodes of one depth.
LEMMA UnderIsApart ==
    ASSUME NEW depth, IsDepth(depth), NEW n \in Walk!Nodes, NEW o \in Walk!Nodes,
           depth[n] = depth[o], NEW x \in Walk!Under[n], x \in Walk!Under[o]
    PROVE  n = o
<1> DEFINE N == Cardinality(Walk!Nodes)
           Bad(k) == \E m, p \in Walk!Nodes : \E y \in Walk!Under[m] :
                       /\ k = N - depth[m] /\ depth[m] = depth[p]
                       /\ y \in Walk!Under[p] /\ m # p
           T == {k \in Nat : Bad(k)}
<1>1. N \in Nat /\ \A m \in Walk!Nodes : depth[m] \in Nat /\ N - depth[m] \in Nat
  BY DepthExists DEF IsDepth
<1> HIDE DEF N
<1> SUFFICES T = {}
  BY <1>1
<1> SUFFICES ASSUME T # {} PROVE FALSE
  OBVIOUS
<1>2. PICK k \in T : \A l \in T : k <= l
  BY LeastNatural
<1>a. PICK m \in Walk!Nodes, p \in Walk!Nodes :
        \E y \in Walk!Under[m] : /\ k = N - depth[m] /\ depth[m] = depth[p]
                                 /\ y \in Walk!Under[p] /\ m # p
  BY <1>2
<1>3. PICK y \in Walk!Under[m] : /\ k = N - depth[m] /\ depth[m] = depth[p]
                                /\ y \in Walk!Under[p] /\ m # p
  BY <1>a
<1>4. y \in Walk!Files /\ (y = m \/ depth[y] > depth[m]) /\ (y = p \/ depth[y] > depth[p])
  BY <1>3, UnderIsDeeper
<1>5. y # m /\ y # p
  BY <1>1, <1>3, <1>4
<1>6. PICK e \in DOMAIN Entries[m] : Kind[m] = "dir" /\ y \in Walk!Under[Entries[m][e]]
  BY <1>3, <1>5, UnderNode
<1>7. PICK f \in DOMAIN Entries[p] : Kind[p] = "dir" /\ y \in Walk!Under[Entries[p][f]]
  BY <1>3, <1>5, UnderNode
<1>8. /\ Entries[m][e] \in Walk!Nodes /\ Entries[p][f] \in Walk!Nodes
      /\ depth[Entries[m][e]] = depth[m] + 1 /\ depth[Entries[p][f]] = depth[p] + 1
  BY <1>6, <1>7, EntriesAreNodes DEF IsDepth, Walk!Dirs
<1>9. Entries[m][e] = Entries[p][f]
  <2>1. N - depth[Entries[m][e]] \in Nat /\ N - depth[Entries[m][e]] < k
    BY <1>1, <1>3, <1>8
  <2> QED BY <1>2, <1>3, <1>6, <1>7, <1>8, <2>1
<1>10. m = p
  <2>1. /\ m \in Walk!Dirs /\ e \in DOMAIN Entries[m]
        /\ p \in Walk!Dirs /\ f \in DOMAIN Entries[p]
    BY <1>6, <1>7 DEF Walk!Dirs
  <2>2. \A d \in Walk!Dirs : \A name \in DOMAIN Entries[d] :
          \A a \in Walk!Dirs : \A other \in DOMAIN Entries[a] :
             Entries[a][other] = Entries[d][name] => <<a, other>> = <<d, name>>
    BY WalkAssumption DEF Walk!TreeAssumption
  <2>3. <<p, f>> = <<m, e>>
    BY <1>9, <2>1, <2>2
  <2> QED BY <2>3
<1> QED BY <1>3, <1>10

\* The entries of a directory share no file.
LEMMA EntriesApart ==
    ASSUME NEW d \in Walk!Nodes, Kind[d] = "dir",
           NEW e \in DOMAIN Entries[d], NEW f \in DOMAIN Entries[d],
           NEW x \in Walk!Under[Entries[d][e]], x \in Walk!Under[Entries[d][f]]
    PROVE  e = f
<1>1. PICK depth : IsDepth(depth)
  BY DepthExists
<1>2. depth[Entries[d][e]] = depth[Entries[d][f]]
  BY <1>1 DEF IsDepth, Walk!Dirs
<1>3. Entries[d][e] = Entries[d][f]
  BY <1>1, <1>2, UnderIsApart, EntriesAreNodes
<1>4. <<d, e>> = <<d, f>>
  BY <1>3, WalkAssumption DEF Walk!TreeAssumption, Walk!Dirs
<1> QED BY <1>4

LEMMA UnderFiles ==
    /\ \A n \in Walk!Nodes : Walk!Under[n] \subseteq Walk!Files
    /\ \A S \in SUBSET Walk!Nodes : Walk!AllUnder(S) \subseteq Walk!Files
<1>1. PICK depth : IsDepth(depth)
  BY DepthExists
<1>2. \A n \in Walk!Nodes : \A x \in Walk!Under[n] : x \in Walk!Files
  BY <1>1, UnderIsDeeper
<1> QED BY <1>2 DEF Walk!AllUnder
-----------------------------------------------------------------------------
(* The three things that happen to the stack *)

\* e is stack s with entries T left in the directory on top.
Shrunk(s, T, e) ==
    /\ e \in Seq(Frames) /\ Len(e) = Len(s)
    /\ \A i \in 1..Len(s) :
        /\ e[i].dir = s[i].dir /\ e[i].len = s[i].len
        /\ e[i].todo = IF i = Len(s) THEN T ELSE s[i].todo

\* e is stack s with frame f on top.
Pushed(s, f, e) ==
    /\ e \in Seq(Frames) /\ Len(e) = Len(s) + 1
    /\ \A i \in 1..Len(s) : e[i] = s[i]
    /\ e[Len(e)] = f

\* e is stack s without its top.
Popped(s, e) ==
    /\ e \in Seq(Frames) /\ Len(e) = Len(s) - 1
    /\ \A i \in 1..Len(e) : e[i] = s[i]

LEMMA Shrinks ==
    ASSUME NEW s \in Seq(Frames), s # << >>, NEW T \in SUBSET Walk!Names
    PROVE  Shrunk(s, T, [s EXCEPT ![Len(s)].todo = T])
<1> DEFINE n == Len(s)
           f == [s[n] EXCEPT !.todo = T]
           e == [s EXCEPT ![n] = f]
<1>1. n \in Nat /\ n >= 1 /\ s \in [1..n -> Frames] /\ s[n] \in Frames
  OBVIOUS
<1>2. f \in Frames /\ f.dir = s[n].dir /\ f.len = s[n].len /\ f.todo = T
  BY <1>1 DEF Frames
<1> HIDE DEF f
<1>3. e \in Seq(Frames) /\ Len(e) = n
  BY <1>1, <1>2
<1>4. \A i \in 1..n : e[i] = IF i = n THEN f ELSE s[i]
  BY <1>1
<1>6. [s EXCEPT ![Len(s)].todo = T] = e
  BY DEF f
<1> HIDE DEF e
<1>7. ASSUME NEW i \in 1..n
      PROVE  /\ e[i].dir = s[i].dir /\ e[i].len = s[i].len
             /\ e[i].todo = IF i = n THEN T ELSE s[i].todo
  <2>1. CASE i = n
    BY <1>2, <1>4, <2>1
  <2>2. CASE i # n
    BY <1>4, <2>2
  <2> QED BY <2>1, <2>2
<1>5. Shrunk(s, T, e)
  BY <1>3, <1>7 DEF Shrunk
<1> QED BY <1>5, <1>6

LEMMA Pushes ==
    ASSUME NEW s \in Seq(Frames), NEW f \in Frames
    PROVE  Pushed(s, f, Append(s, f))
  BY DEF Pushed

LEMMA Pops ==
    ASSUME NEW s \in Seq(Frames), s # << >>
    PROVE  Popped(s, Walk!Front(s))
<1> DEFINE n == Len(s) - 1
<1>1. n \in Nat /\ \A i \in 1..n : s[i] \in Frames
  OBVIOUS
<1>2. /\ SubSeq(s, 1, n) \in Seq(Frames) /\ Len(SubSeq(s, 1, n)) = n
      /\ \A i \in 1..n : SubSeq(s, 1, n)[i] = s[i]
  <2>1. 1 \in Int /\ n \in Int /\ n - 1 + 1 = n
    BY <1>1
  <2>2. /\ SubSeq(s, 1, n) \in Seq(Frames)
        /\ Len(SubSeq(s, 1, n)) = IF 1 <= n THEN n - 1 + 1 ELSE 0
        /\ \A i \in 1..n - 1 + 1 : SubSeq(s, 1, n)[i] = s[1 + i - 1]
    BY <1>1, <2>1, SubSeqProperties
  <2>3. \A i \in 1..n : 1 + i - 1 = i
    OBVIOUS
  <2> QED BY <1>1, <2>1, <2>2, <2>3
<1> QED BY <1>2 DEF Popped, Walk!Front

-----------------------------------------------------------------------------
(* The walk keeps its types and the vector its room *)

LEMMA WalkInit ==
    ASSUME Walk!Init
    PROVE  WalkInv
  BY DEF Walk!Init, WalkInv, Walk!TypeOK, Walk!InCapacity

\* The directory on top of the stack and what is in it.
LEMMA TopFrame ==
    ASSUME WalkInv, walk = "walking"
    PROVE  /\ dirs \in Seq(Frames) /\ Len(dirs) \in Nat /\ Len(dirs) >= 1
           /\ Walk!Top \in Frames
           /\ Walk!Top.todo \subseteq DOMAIN Entries[Walk!Top.dir]
           /\ Walk!Top.dir \in Walk!Dirs /\ Walk!Top.len \in 1..PATH_MAX
           /\ \A e \in Walk!Top.todo : Entries[Walk!Top.dir][e] \in Walk!Nodes
<1>1. dirs \in Seq(Frames) /\ dirs # << >>
  BY DEF WalkInv, Walk!TypeOK, Frames
<1>2. Len(dirs) \in Nat /\ Len(dirs) >= 1 /\ Walk!Top \in Frames
  BY <1>1 DEF Walk!Top
<1>3. Walk!Top.dir \in Walk!Dirs /\ Walk!Top.len \in 1..PATH_MAX
  BY <1>2 DEF Frames
<1>4. Walk!Top.todo \subseteq DOMAIN Entries[Walk!Top.dir]
  BY <1>2 DEF WalkInv, Walk!Top
<1>5. \A e \in Walk!Top.todo : Entries[Walk!Top.dir][e] \in Walk!Nodes
  BY <1>3, <1>4, WalkAssumption DEF Walk!TreeAssumption
<1> QED BY <1>1, <1>2, <1>3, <1>4, <1>5

LEMMA OpenedFrame ==
    ASSUME NEW d \in Walk!Dirs, NEW len \in 1..PATH_MAX
    PROVE  /\ Walk!Opened(d, len) \in Frames
           /\ Walk!Opened(d, len).todo \subseteq DOMAIN Entries[d]
           /\ Walk!Opened(d, len).dir = d /\ Walk!Opened(d, len).len = len
<1>1. DOMAIN Entries[d] \subseteq Walk!Names
  BY DEF Walk!Names
<1> QED BY <1>1 DEF Walk!Opened, Frames

LEMMA NameLength ==
    ASSUME NEW d \in Walk!Dirs, NEW name \in DOMAIN Entries[d]
    PROVE  Len(name) \in Nat \ {0} /\ SubSeq(name, 1, Len(name)) = name
<1>1. name \in Seq(Walk!Range(name)) /\ name # << >>
  BY WalkAssumption DEF Walk!TreeAssumption
<1> QED BY <1>1, SubSeqFull

\* What a path that is found stands for.
LEMMA NamedNode ==
    ASSUME WalkInv, walk = "walking", NEW name \in Walk!Top.todo
    PROVE  /\ Walk!Named(name) \in Walk!Nodes \cup {NULL}
           /\ Walk!PathLen(name) \in 1..PATH_MAX
<1>1. /\ Walk!Top.dir \in Walk!Dirs /\ Walk!Top.len \in 1..PATH_MAX
      /\ name \in DOMAIN Entries[Walk!Top.dir]
  BY TopFrame
<1>2. Len(name) \in Nat \ {0} /\ PATH_MAX \in Nat
  BY <1>1, WalkAssumption, NameLength DEF Walk!SizesAssumption
<1>3. Walk!PathLen(name) \in 1..PATH_MAX
  BY <1>1, <1>2 DEF Walk!PathLen, Walk!Smaller
<1>4. Walk!Top.dir \in Walk!Nodes
  BY <1>1 DEF Walk!Dirs
<1>5. \A rest \in DOMAIN Entries[Walk!Top.dir] : Entries[Walk!Top.dir][rest] \in Walk!Nodes
  BY <1>1, WalkAssumption DEF Walk!TreeAssumption
<1> QED BY <1>3, <1>4, <1>5 DEF Walk!Named

\* readdir hands out an entry, or gives up: less is left on top.
LEMMA ShrinkKeeps ==
    ASSUME WalkInv, walk = "walking", NEW T \in SUBSET Walk!Top.todo,
           Shrunk(dirs, T, dirs'), walk' \in {"walking", "crashed"},
           items' \in Seq(Walk!Files \cup {NULL}), cap' \in Nat, Len(items') <= cap',
           failed' \in SUBSET Walk!Files
    PROVE  WalkInv'
<1>1. dirs' \in Seq(Frames) /\ Len(dirs') = Len(dirs) /\ Len(dirs) >= 1
  BY TopFrame DEF Shrunk
<1>2. ASSUME NEW i \in 1..Len(dirs)
      PROVE  dirs'[i].todo \subseteq DOMAIN Entries[dirs'[i].dir]
  <2>1. dirs[i].todo \subseteq DOMAIN Entries[dirs[i].dir]
    BY DEF WalkInv
  <2>2. i = Len(dirs) => T \subseteq dirs[i].todo
    BY DEF Walk!Top
  <2>3. /\ dirs'[i].dir = dirs[i].dir
        /\ dirs'[i].todo = IF i = Len(dirs) THEN T ELSE dirs[i].todo
    BY DEF Shrunk
  <2> QED BY <2>1, <2>2, <2>3
<1>3. Walk!TypeOK'
  BY <1>1 DEF WalkInv, Walk!TypeOK, Frames
<1>4. walk' = "walking" => dirs' # << >>
  BY <1>1
<1> QED BY <1>1, <1>2, <1>3, <1>4 DEF WalkInv, Walk!InCapacity

LEMMA PastShrinks ==
    ASSUME WalkInv, walk = "walking", NEW name \in Walk!Top.todo
    PROVE  Shrunk(dirs, Walk!Top.todo \ {name}, Walk!Past(name))
<1>1. dirs \in Seq(Frames) /\ dirs # << >> /\ Walk!Top \in Frames
  BY TopFrame
<1>2. Walk!Top.todo \ {name} \in SUBSET Walk!Names
  BY <1>1 DEF Frames
<1>3. Walk!Past(name) = [dirs EXCEPT ![Len(dirs)].todo = Walk!Top.todo \ {name}]
  BY DEF Walk!Past, Walk!Top
<1> QED BY <1>1, <1>2, <1>3, Shrinks

LEMMA WalkStep ==
    ASSUME WalkInv, Walk!Next
    PROVE  WalkInv'
<1>1. CASE Walk!OpenRoot
  <2>1. Root \in Walk!Dirs /\ ROOT_LEN \in 1..PATH_MAX
    BY WalkAssumption DEF Walk!TreeAssumption, Walk!SizesAssumption
  <2>2. Walk!Opened(Root, ROOT_LEN) \in Frames
    BY <2>1, OpenedFrame
  <2>3. CASE walk' = "walking" /\ dirs' = <<Walk!Opened(Root, ROOT_LEN)>>
    <3>1. /\ dirs' \in Seq(Frames) /\ Len(dirs') = 1 /\ dirs' # << >>
          /\ dirs'[1] = Walk!Opened(Root, ROOT_LEN)
      BY <2>2, <2>3
    <3>2. \A i \in 1..Len(dirs') : dirs'[i].todo \subseteq DOMAIN Entries[dirs'[i].dir]
      BY <2>1, <3>1, OpenedFrame
    <3> QED BY <1>1, <2>3, <3>1, <3>2
            DEF WalkInv, Walk!OpenRoot, Walk!TypeOK, Walk!InCapacity, Frames
  <2>4. CASE walk' = "failed" /\ UNCHANGED dirs
    BY <1>1, <2>4 DEF WalkInv, Walk!OpenRoot, Walk!TypeOK, Walk!InCapacity
  <2> QED BY <1>1, <2>3, <2>4 DEF Walk!OpenRoot
<1>2. CASE walk = "walking" /\ Walk!Leave
  <2>1. Popped(dirs, dirs')
    BY <1>2, TopFrame, Pops DEF Walk!Leave
  <2>2. \A i \in 1..Len(dirs') : dirs'[i].todo \subseteq DOMAIN Entries[dirs'[i].dir]
    BY <1>2, <2>1, TopFrame DEF Popped, WalkInv
  <2>3. dirs' \in Seq(Frames) /\ walk' \in {"walking", "done"}
        /\ (walk' = "walking" => dirs' # << >>)
    BY <1>2, <2>1, TopFrame DEF Popped, Walk!Leave
  <2> QED BY <1>2, <2>2, <2>3 DEF WalkInv, Walk!Leave, Walk!TypeOK, Walk!InCapacity, Frames
<1>3. CASE walk = "walking" /\ Walk!Top.todo # {} /\ Walk!ReaddirFails
  <2>1. Shrunk(dirs, {}, dirs')
    <3>1. dirs \in Seq(Frames) /\ dirs # << >> /\ {} \in SUBSET Walk!Names
      BY <1>3, TopFrame
    <3> QED BY <1>3, <3>1, Shrinks DEF Walk!ReaddirFails
  <2>2. failed' \in SUBSET Walk!Files
    <3> DEFINE R == {Entries[Walk!Top.dir][e] : e \in Walk!Top.todo}
    <3>1. R \in SUBSET Walk!Nodes
      BY <1>3, TopFrame
    <3>2. Walk!AllUnder(R) \subseteq Walk!Files
      BY <3>1, UnderFiles
    <3>3. failed' = failed \cup Walk!AllUnder(R)
      BY <1>3 DEF Walk!ReaddirFails
    <3> HIDE DEF R
    <3> QED BY <3>2, <3>3 DEF WalkInv, Walk!TypeOK
  <2> QED BY <1>3, <2>1, <2>2, ShrinkKeeps
          DEF Walk!ReaddirFails, WalkInv, Walk!TypeOK, Walk!InCapacity
<1>4. ASSUME walk = "walking", NEW name \in Walk!Top.todo,
             \/ Walk!PassOver(name) \/ Walk!LstatFails(name)
             \/ Walk!Descend(name) \/ Walk!Collect(name)
      PROVE  WalkInv'
  <2>1. Shrunk(dirs, Walk!Top.todo \ {name}, Walk!Past(name))
    BY <1>4, PastShrinks
  <2>2. Walk!Named(name) \in Walk!Nodes \cup {NULL} /\ Walk!PathLen(name) \in 1..PATH_MAX
    BY <1>4, NamedNode
  <2>3. /\ items \in Seq(Walk!Files \cup {NULL}) /\ cap \in Nat /\ Len(items) <= cap
        /\ failed \in SUBSET Walk!Files
    BY DEF WalkInv, Walk!TypeOK, Walk!InCapacity
  <2>4. CASE Walk!PassOver(name)
    BY <1>4, <2>1, <2>3, <2>4, ShrinkKeeps DEF Walk!PassOver
  <2>5. CASE Walk!LstatFails(name)
    <3>1. Walk!Under[Walk!Named(name)] \subseteq Walk!Files
      BY <2>2, <2>5, UnderFiles DEF Walk!LstatFails
    <3>2. failed' \in SUBSET Walk!Files
      BY <2>3, <2>5, <3>1 DEF Walk!LstatFails
    <3> QED BY <1>4, <2>1, <2>3, <2>5, <3>2, ShrinkKeeps DEF Walk!LstatFails
  <2>6. CASE Walk!Descend(name)
    <3>1. Walk!Named(name) \in Walk!Dirs
      BY <2>2, <2>6 DEF Walk!Descend, Walk!Finds, Walk!lstat, Walk!Dirs
    <3>2. CASE dirs' = Walk!Past(name) /\ failed' = failed \cup Walk!Under[Walk!Named(name)]
      <4>1. failed' \in SUBSET Walk!Files
        BY <2>3, <3>1, <3>2, UnderFiles DEF Walk!Dirs
      <4> QED BY <1>4, <2>1, <2>3, <2>6, <3>2, <4>1, ShrinkKeeps DEF Walk!Descend
    <3>3. CASE /\ dirs' = Append(Walk!Past(name),
                                 Walk!Opened(Walk!lstat(Walk!Named(name)), Walk!PathLen(name)))
               /\ UNCHANGED failed
      <4> DEFINE f == Walk!Opened(Walk!Named(name), Walk!PathLen(name))
      <4>1. f \in Frames /\ f.todo \subseteq DOMAIN Entries[f.dir]
        BY <2>2, <3>1, OpenedFrame
      <4>2. Pushed(Walk!Past(name), f, dirs')
        BY <2>1, <3>3, <4>1, Pushes DEF Shrunk, Walk!lstat
      <4> HIDE DEF f
      <4>3. ASSUME NEW i \in 1..Len(dirs')
            PROVE  dirs'[i].todo \subseteq DOMAIN Entries[dirs'[i].dir]
        <5>1. CASE i = Len(dirs')
          BY <4>1, <4>2, <5>1 DEF Pushed
        <5>2. CASE i \in 1..Len(dirs)
          <6>1. dirs'[i] = Walk!Past(name)[i]
            BY <2>1, <4>2, <5>2 DEF Pushed, Shrunk
          <6>2. /\ dirs'[i].dir = dirs[i].dir
                /\ dirs'[i].todo = IF i = Len(dirs) THEN Walk!Top.todo \ {name} ELSE dirs[i].todo
            BY <2>1, <5>2, <6>1 DEF Shrunk
          <6>3. dirs[i].todo \subseteq DOMAIN Entries[dirs[i].dir]
            BY <5>2 DEF WalkInv
          <6> QED BY <6>2, <6>3 DEF Walk!Top
        <5>3. Len(dirs') = Len(dirs) + 1 /\ Len(dirs) \in Nat
          BY <1>4, <2>1, <4>2, TopFrame DEF Pushed, Shrunk
        <5> QED BY <5>1, <5>2, <5>3
      <4>4. dirs' \in Seq(Frames) /\ dirs' # << >>
        BY <1>4, <2>1, <4>2, TopFrame DEF Pushed, Shrunk
      <4> QED BY <1>4, <2>3, <2>6, <3>3, <4>3, <4>4
              DEF WalkInv, Walk!Descend, Walk!TypeOK, Walk!InCapacity, Frames
    <3> QED BY <2>6, <3>2, <3>3 DEF Walk!Descend
  <2>7. CASE Walk!Collect(name)
    <3>1. Walk!Named(name) \in Walk!Files
      BY <2>2, <2>7 DEF Walk!Collect, Walk!Finds, Walk!lstat, Walk!Files
    <3>2. Walk!grown \in Nat /\ Walk!grown >= Len(items) + 1
      BY <2>3, WalkAssumption DEF Walk!grown, Walk!SizesAssumption
    <3>3. CASE walk' = "crashed" /\ UNCHANGED <<items, cap, failed>>
      BY <1>4, <2>1, <2>3, <2>7, <3>3, ShrinkKeeps DEF Walk!Collect
    <3>4. ASSUME NEW x \in Walk!Files \cup {NULL}, items' = Append(items, x),
                 cap' = Walk!grown, UNCHANGED walk, failed' \in SUBSET Walk!Files
          PROVE  WalkInv'
      <4>1. items' \in Seq(Walk!Files \cup {NULL}) /\ Len(items') = Len(items) + 1
        BY <2>3, <3>4
      <4> QED BY <1>4, <2>1, <2>7, <3>2, <3>4, <4>1, ShrinkKeeps DEF Walk!Collect
    <3>5. failed \cup Walk!Under[Walk!Named(name)] \in SUBSET Walk!Files
      BY <2>3, <3>1, UnderFiles DEF Walk!Files
    <3> QED BY <2>3, <2>7, <3>1, <3>3, <3>4, <3>5 DEF Walk!Collect, Walk!lstat
  <2> QED BY <1>4, <2>4, <2>5, <2>6, <2>7
<1> QED BY <1>1, <1>2, <1>3, <1>4 DEF Walk!Next, Walk!Walk
-----------------------------------------------------------------------------
(* Every file is accounted for, where no path is cut off *)

\* length[d] is the length of the path of directory d, and every path fits.
PathsFit(length) ==
    /\ length \in [Walk!Dirs -> 1..PATH_MAX] /\ length[Root] = ROOT_LEN
    /\ \A d \in Walk!Dirs : \A e \in DOMAIN Entries[d] :
        /\ length[d] + 1 + Len(e) <= PATH_MAX
        /\ Entries[d][e] \in Walk!Dirs => length[Entries[d][e]] = length[d] + 1 + Len(e)

NoPathIsCut == \E length \in [Walk!Dirs -> 1..PATH_MAX] : PathsFit(length)

\* File x is under entry e of the i-th open directory, still to be returned.
At(i, e, x) ==
    i \in 1..Len(dirs) /\ e \in dirs[i].todo /\ x \in Walk!Under[Entries[dirs[i].dir][e]]

\* A file is in one of three places, and in one only: collected, ahead, or
\* passed by in a call that failed.
Account ==
    /\ \A x : x \in Walk!Under[Root] <=>
         x \in Walk!Collected \/ (\E i, e : At(i, e, x)) \/ x \in failed
    /\ \A x \in Walk!Collected : x \notin failed
    /\ \A i, e, x : At(i, e, x) => x \notin Walk!Collected /\ x \notin failed
    /\ \A i, e, j, f, x : At(i, e, x) /\ At(j, f, x) => i = j /\ e = f

TreeInv(length) ==
    /\ WalkInv /\ Walk!ListedOnce
    /\ \A i \in 1..Len(dirs) : dirs[i].len = length[dirs[i].dir]
    /\ walk = "opening" => failed = {}
    /\ walk \in {"walking", "done"} => Account

LEMMA TreeInit ==
    ASSUME NEW length, PathsFit(length), Walk!Init
    PROVE  TreeInv(length)
<1>1. WalkInv
  BY WalkInit
<1> QED BY <1>1 DEF Walk!Init, TreeInv, Walk!ListedOnce

\* An entry's path names the entry.
LEMMA NamedEntry ==
    ASSUME NEW length, PathsFit(length), TreeInv(length), walk = "walking",
           NEW name \in Walk!Top.todo
    PROVE  /\ Walk!Named(name) = Entries[Walk!Top.dir][name]
           /\ Walk!PathLen(name) = Walk!Top.len + 1 + Len(name)
           /\ Walk!Top.len + 1 + Len(name) <= PATH_MAX
           /\ Walk!Top.len = length[Walk!Top.dir]
<1>1. WalkInv
  BY DEF TreeInv
<1>2. /\ Walk!Top.dir \in Walk!Dirs /\ Walk!Top.len \in 1..PATH_MAX
      /\ name \in DOMAIN Entries[Walk!Top.dir] /\ Len(dirs) \in 1..Len(dirs)
  BY <1>1, TopFrame
<1>3. Len(name) \in Nat \ {0} /\ SubSeq(name, 1, Len(name)) = name /\ PATH_MAX \in Nat
  BY <1>2, NameLength, WalkAssumption DEF Walk!SizesAssumption
<1>4. Walk!Top.len = length[Walk!Top.dir]
  BY <1>2 DEF TreeInv, Walk!Top
<1>5. Walk!Top.len + 1 + Len(name) <= PATH_MAX
  BY <1>2, <1>4 DEF PathsFit
<1>6. Walk!Smaller(PATH_MAX - (Walk!Top.len + 1), Len(name)) = Len(name)
  BY <1>2, <1>3, <1>5 DEF Walk!Smaller
<1>7. ~(Walk!Top.len + 1 >= PATH_MAX)
  BY <1>2, <1>3, <1>5
<1>8. Walk!Named(name) = Entries[Walk!Top.dir][name]
  BY <1>2, <1>3, <1>6, <1>7 DEF Walk!Named
<1>9. Walk!PathLen(name) = Walk!Top.len + 1 + Len(name)
  BY <1>2, <1>3, <1>5 DEF Walk!PathLen, Walk!Smaller
<1> QED BY <1>4, <1>5, <1>8, <1>9

\* The files under the entries of the top directory that are not in T.
Dropped(T, x) == \E e \in Walk!Top.todo \ T : x \in Walk!Under[Entries[Walk!Top.dir][e]]

LEMMA AtShrunk ==
    ASSUME WalkInv, walk = "walking", NEW T \in SUBSET Walk!Top.todo,
           Shrunk(dirs, T, dirs'), NEW i, NEW e, NEW x
    PROVE  At(i, e, x)' <=> At(i, e, x) /\ (i = Len(dirs) => e \in T)
<1>1. Len(dirs') = Len(dirs) /\ Len(dirs) \in Nat
  BY TopFrame DEF Shrunk
<1>2. CASE i \in 1..Len(dirs)
  <2>1. /\ dirs'[i].dir = dirs[i].dir
        /\ dirs'[i].todo = IF i = Len(dirs) THEN T ELSE dirs[i].todo
    BY <1>2 DEF Shrunk
  <2>2. i = Len(dirs) => T \subseteq dirs[i].todo
    BY DEF Walk!Top
  <2> QED BY <1>1, <1>2, <2>1, <2>2 DEF At
<1>3. CASE i \notin 1..Len(dirs)
  BY <1>1, <1>3 DEF At
<1> QED BY <1>2, <1>3

LEMMA DroppedIsAhead ==
    ASSUME WalkInv, walk = "walking", NEW T, NEW x
    PROVE  Dropped(T, x) <=> \E e : At(Len(dirs), e, x) /\ e \notin T
  BY TopFrame DEF Dropped, At, Walk!Top

\* What was ahead under entries that are dropped becomes collected or lost.
LEMMA AccountShrunk ==
    ASSUME WalkInv, walk = "walking", Account, NEW T \in SUBSET Walk!Top.todo,
           Shrunk(dirs, T, dirs'), NEW P, NEW Q,
           \A x : Dropped(T, x) <=> x \in P \/ x \in Q,
           \A x : ~(x \in P /\ x \in Q),
           \A x : x \in Walk!Collected' <=> x \in Walk!Collected \/ x \in P,
           \A x : x \in failed' <=> x \in failed \/ x \in Q
    PROVE  Account'
<1>1. \A i, e, x : At(i, e, x)' <=> At(i, e, x) /\ (i = Len(dirs) => e \in T)
  BY AtShrunk
<1>2. \A x : (x \in P \/ x \in Q) <=> \E e : At(Len(dirs), e, x) /\ e \notin T
  BY DroppedIsAhead
<1>3. ASSUME NEW x
      PROVE  x \in Walk!Under[Root] <=>
               x \in Walk!Collected' \/ (\E i, e : At(i, e, x)') \/ x \in failed'
  <2>1. x \in Walk!Under[Root] <=>
          x \in Walk!Collected \/ (\E i, e : At(i, e, x)) \/ x \in failed
    BY DEF Account
  <2>2. (\E i, e : At(i, e, x)) <=>
          (\E i, e : At(i, e, x)') \/ \E e : At(Len(dirs), e, x) /\ e \notin T
    BY <1>1
  <2> QED BY <1>2, <2>1, <2>2
<1>4. ASSUME NEW x \in Walk!Collected' PROVE x \notin failed'
  BY <1>2, <1>4 DEF Account
<1>5. ASSUME NEW i, NEW e, NEW x, At(i, e, x)'
      PROVE  x \notin Walk!Collected' /\ x \notin failed'
  <2>1. At(i, e, x) /\ x \notin Walk!Collected /\ x \notin failed
    BY <1>1, <1>5 DEF Account
  <2>2. \A f : At(Len(dirs), f, x) => f \in T
    <3>1. \A f : At(Len(dirs), f, x) => i = Len(dirs) /\ e = f
      BY <2>1 DEF Account
    <3> QED BY <1>1, <1>5, <3>1
  <2> QED BY <1>2, <2>1, <2>2
<1>6. ASSUME NEW i, NEW e, NEW j, NEW f, NEW x, At(i, e, x)', At(j, f, x)'
      PROVE  i = j /\ e = f
  BY <1>1, <1>6 DEF Account
<1> QED BY <1>3, <1>4, <1>5, <1>6 DEF Account

LEMMA TreeShrunk ==
    ASSUME NEW length, TreeInv(length), walk = "walking", WalkInv', Walk!ListedOnce',
           NEW T \in SUBSET Walk!Top.todo, Shrunk(dirs, T, dirs'),
           walk' \in {"walking", "crashed"}, NEW P, NEW Q,
           \A x : Dropped(T, x) <=> x \in P \/ x \in Q,
           \A x : ~(x \in P /\ x \in Q),
           \A x : x \in Walk!Collected' <=> x \in Walk!Collected \/ x \in P,
           \A x : x \in failed' <=> x \in failed \/ x \in Q
    PROVE  TreeInv(length)'
<1>1. WalkInv /\ Account
  BY DEF TreeInv
<1>2. Account'
  BY <1>1, AccountShrunk
<1>3. Len(dirs') = Len(dirs) /\ \A i \in 1..Len(dirs) :
        dirs'[i].dir = dirs[i].dir /\ dirs'[i].len = dirs[i].len
  BY DEF Shrunk
<1>4. \A i \in 1..Len(dirs') : dirs'[i].len = length[dirs'[i].dir]
  BY <1>3 DEF TreeInv
<1> QED BY <1>2, <1>4 DEF TreeInv

\* One more path is collected, if it is one.
LEMMA CollectedMore ==
    ASSUME items \in Seq(Walk!Files \cup {NULL}), NEW y, items' = Append(items, y), NEW x
    PROVE  x \in Walk!Collected' <=> x \in Walk!Collected \/ (x = y /\ y # NULL)
<1>1. /\ DOMAIN items = 1..Len(items) /\ DOMAIN items' = 1..Len(items) + 1
      /\ Len(items) \in Nat /\ items'[Len(items) + 1] = y
      /\ \A i \in 1..Len(items) : items'[i] = items[i]
  OBVIOUS
<1>2. x \in Walk!Collected <=> x # NULL /\ \E i \in 1..Len(items) : x = items[i]
  BY <1>1 DEF Walk!Collected
<1>3. x \in Walk!Collected' <=> x # NULL /\ \E i \in 1..Len(items) + 1 : x = items'[i]
  BY <1>1 DEF Walk!Collected
<1>4. (\E i \in 1..Len(items) + 1 : x = items'[i]) <=>
        (\E i \in 1..Len(items) : x = items[i]) \/ x = y
  BY <1>1
<1> QED BY <1>2, <1>3, <1>4

LEMMA ListedMore ==
    ASSUME items \in Seq(Walk!Files \cup {NULL}), Walk!ListedOnce, NEW y,
           items' = Append(items, y), y = NULL \/ y \notin Walk!Collected
    PROVE  Walk!ListedOnce'
<1>1. /\ DOMAIN items = 1..Len(items) /\ DOMAIN items' = 1..Len(items) + 1
      /\ Len(items) \in Nat /\ items'[Len(items) + 1] = y
      /\ \A i \in 1..Len(items) : items'[i] = items[i]
  OBVIOUS
<1>2. ASSUME NEW i \in 1..Len(items), items[i] = y PROVE y = NULL
  BY <1>1, <1>2 DEF Walk!Collected
<1>3. ASSUME NEW i \in 1..Len(items) + 1, NEW j \in 1..Len(items) + 1, items'[i] = items'[j]
      PROVE  i = j \/ items'[i] = NULL
  <2>1. CASE i \in 1..Len(items) /\ j \in 1..Len(items)
    BY <1>1, <1>3, <2>1 DEF Walk!ListedOnce
  <2>2. CASE i = Len(items) + 1 /\ j \in 1..Len(items)
    BY <1>1, <1>2, <1>3, <2>2
  <2>3. CASE j = Len(items) + 1 /\ i \in 1..Len(items)
    BY <1>1, <1>2, <1>3, <2>3
  <2>4. CASE i = Len(items) + 1 /\ j = Len(items) + 1
    BY <2>4
  <2> QED BY <1>1, <2>1, <2>2, <2>3, <2>4
<1> QED BY <1>1, <1>3 DEF Walk!ListedOnce

LEMMA TreeOpenRoot ==
    ASSUME NEW length, PathsFit(length), TreeInv(length), WalkInv', Walk!OpenRoot
    PROVE  TreeInv(length)'
<1>1. Root \in Walk!Dirs /\ ROOT_LEN \in 1..PATH_MAX /\ Root \in Walk!Nodes
      /\ Kind[Root] = "dir"
  BY WalkAssumption DEF Walk!TreeAssumption, Walk!SizesAssumption, Walk!Dirs
<1>2. /\ items = << >> /\ items' = items /\ failed = {} /\ failed' = failed
      /\ dirs = << >> /\ Walk!ListedOnce /\ walk' \in {"walking", "failed"}
  BY DEF TreeInv, WalkInv, Walk!OpenRoot
<1>3. Walk!ListedOnce'
  BY <1>2 DEF Walk!ListedOnce
<1>4. CASE walk' = "failed" /\ UNCHANGED dirs
  BY <1>2, <1>3, <1>4 DEF TreeInv
<1>5. CASE walk' = "walking" /\ dirs' = <<Walk!Opened(Root, ROOT_LEN)>>
  <2>1. /\ Len(dirs') = 1 /\ dirs'[1].dir = Root /\ dirs'[1].len = ROOT_LEN
        /\ dirs'[1].todo = DOMAIN Entries[Root]
    BY <1>5 DEF Walk!Opened
  <2>2. \A i, e, x : At(i, e, x)' <=>
          i = 1 /\ e \in DOMAIN Entries[Root] /\ x \in Walk!Under[Entries[Root][e]]
    BY <2>1 DEF At
  <2>3. \A x : x \notin Walk!Collected' /\ x \notin failed'
    BY <1>2 DEF Walk!Collected
  <2>4. ASSUME NEW x
        PROVE  x \in Walk!Under[Root] <=> \E i, e : At(i, e, x)'
    BY <1>1, <2>2, UnderNode
  <2>5. ASSUME NEW i, NEW e, NEW j, NEW f, NEW x, At(i, e, x)', At(j, f, x)'
        PROVE  i = j /\ e = f
    BY <1>1, <2>2, <2>5, EntriesApart
  <2>6. Account'
    BY <2>3, <2>4, <2>5 DEF Account
  <2>7. \A i \in 1..Len(dirs') : dirs'[i].len = length[dirs'[i].dir]
    BY <2>1 DEF PathsFit
  <2> QED BY <1>3, <1>5, <2>6, <2>7 DEF TreeInv
<1> QED BY <1>4, <1>5 DEF Walk!OpenRoot

LEMMA TreeLeave ==
    ASSUME NEW length, TreeInv(length), WalkInv', walk = "walking", Walk!Leave
    PROVE  TreeInv(length)'
<1>1. WalkInv /\ Account /\ Walk!ListedOnce
  BY DEF TreeInv
<1>2. Popped(dirs, dirs')
  BY <1>1, TopFrame, Pops DEF Walk!Leave
<1>3. /\ Len(dirs) \in Nat /\ Len(dirs) >= 1 /\ Len(dirs') = Len(dirs) - 1
      /\ \A i \in 1..Len(dirs') : dirs'[i] = dirs[i]
  BY <1>1, <1>2, TopFrame DEF Popped
<1>4. dirs[Len(dirs)].todo = {}
  BY DEF Walk!Leave, Walk!Top
<1>5. \A i, e, x : At(i, e, x)' <=> At(i, e, x)
  BY <1>3, <1>4 DEF At
<1>6. (Walk!Collected)' = Walk!Collected /\ failed' = failed
      /\ Walk!ListedOnce' /\ walk' \in {"walking", "done"}
  BY <1>1 DEF Walk!Leave, Walk!Collected, Walk!ListedOnce
<1>7. Account'
  BY <1>1, <1>5, <1>6 DEF Account
<1>8. \A i \in 1..Len(dirs') : dirs'[i].len = length[dirs'[i].dir]
  BY <1>3 DEF TreeInv
<1> QED BY <1>6, <1>7, <1>8 DEF TreeInv

\* The files under one entry that is done with.
LEMMA DroppedOne ==
    ASSUME NEW name \in Walk!Top.todo, NEW x
    PROVE  Dropped(Walk!Top.todo \ {name}, x) <=> x \in Walk!Under[Entries[Walk!Top.dir][name]]
  BY DEF Dropped

LEMMA TreeReaddirFails ==
    ASSUME NEW length, TreeInv(length), WalkInv', walk = "walking", Walk!ReaddirFails
    PROVE  TreeInv(length)'
<1> DEFINE R == {Entries[Walk!Top.dir][e] : e \in Walk!Top.todo}
<1>1. dirs \in Seq(Frames) /\ dirs # << >> /\ WalkInv
  BY TopFrame DEF TreeInv
<1>2. Shrunk(dirs, {}, dirs')
  BY <1>1, Shrinks DEF Walk!ReaddirFails
<1>3. /\ (Walk!Collected)' = Walk!Collected /\ Walk!ListedOnce' /\ walk' = "walking"
      /\ failed' = failed \cup Walk!AllUnder(R)
  BY DEF Walk!ReaddirFails, TreeInv, Walk!Collected, Walk!ListedOnce
<1>4. \A x : Dropped({}, x) <=> x \in Walk!AllUnder(R)
  BY DEF Dropped, Walk!AllUnder
<1>5. \A x : x \in failed' <=> x \in failed \/ x \in Walk!AllUnder(R)
  BY <1>3
<1> HIDE DEF R
<1>6. \A x : x \in Walk!Collected' <=> x \in Walk!Collected \/ x \in {}
  BY <1>3
<1>7. \A x : Dropped({}, x) <=> x \in {} \/ x \in Walk!AllUnder(R)
  BY <1>4
<1>8. Walk!ListedOnce' /\ walk' \in {"walking", "crashed"} /\ {} \in SUBSET Walk!Top.todo
  BY <1>3
<1>9. \A x : ~(x \in {} /\ x \in Walk!AllUnder(R))
  OBVIOUS
<1> QED BY <1>2, <1>5, <1>6, <1>7, <1>8, <1>9, TreeShrunk

LEMMA TreeEntryFails ==
    ASSUME NEW length, PathsFit(length), TreeInv(length), WalkInv', walk = "walking",
           NEW name \in Walk!Top.todo, dirs' = Walk!Past(name),
           failed' = failed \cup Walk!Under[Walk!Named(name)], walk' = walk,
           \A x : x \in Walk!Collected' <=> x \in Walk!Collected, Walk!ListedOnce'
    PROVE  TreeInv(length)'
<1> DEFINE n == Entries[Walk!Top.dir][name]
           T == Walk!Top.todo \ {name}
           P == {}
           Q == Walk!Under[n]
<1>1. Shrunk(dirs, T, dirs') /\ T \in SUBSET Walk!Top.todo
  BY PastShrinks DEF TreeInv
<1>2. failed' = failed \cup Q
  BY NamedEntry
<1>3. \A x : Dropped(T, x) <=> x \in P \/ x \in Q
  BY DroppedOne
<1>4. \A x : x \in failed' <=> x \in failed \/ x \in Q
  BY <1>2
<1>5. \A x : x \in Walk!Collected' <=> x \in Walk!Collected \/ x \in P
  OBVIOUS
<1>6. \A x : ~(x \in P /\ x \in Q)
  OBVIOUS
<1>7. walk' \in {"walking", "crashed"}
  OBVIOUS
<1> HIDE DEF n, T, P, Q
<1> QED BY <1>1, <1>3, <1>4, <1>5, <1>6, <1>7, TreeShrunk

LEMMA TreePassOver ==
    ASSUME NEW length, PathsFit(length), TreeInv(length), WalkInv', walk = "walking",
           NEW name \in Walk!Top.todo, Walk!PassOver(name)
    PROVE  TreeInv(length)'
<1> DEFINE n == Entries[Walk!Top.dir][name]
           T == Walk!Top.todo \ {name}
           P == {}
<1>1. Shrunk(dirs, T, dirs') /\ T \in SUBSET Walk!Top.todo
  BY PastShrinks DEF TreeInv, Walk!PassOver
<1>2. n \in Walk!Nodes
  BY TopFrame DEF TreeInv
<1>3. Kind[n] \in {"lnk", "other"}
  <2>1. Walk!Named(name) = n
    BY NamedEntry
  <2>2. n # NULL
    BY <1>2, WalkAssumption DEF Walk!TreeAssumption
  <2>3. Walk!Named(name) = NULL \/ Walk!Finds(name, {"lnk", "other"})
    BY DEF Walk!PassOver
  <2>4. Walk!Finds(name, {"lnk", "other"})
    BY <2>1, <2>2, <2>3
  <2> QED BY <2>1, <2>4 DEF Walk!Finds, Walk!lstat
<1>4. \A x : ~Dropped(T, x)
  <2>1. ASSUME NEW x PROVE x \notin Walk!Under[n]
    BY <1>2, <1>3, UnderNode
  <2>2. ASSUME NEW x PROVE Dropped(T, x) <=> x \in Walk!Under[n]
    BY DroppedOne
  <2> QED BY <2>1, <2>2
<1>5. /\ (Walk!Collected)' = Walk!Collected /\ Walk!ListedOnce' /\ walk' = walk
      /\ failed' = failed
  BY DEF Walk!PassOver, TreeInv, Walk!Collected, Walk!ListedOnce
<1>6. /\ \A x : Dropped(T, x) <=> x \in P \/ x \in P
      /\ \A x : x \in Walk!Collected' <=> x \in Walk!Collected \/ x \in P
      /\ \A x : x \in failed' <=> x \in failed \/ x \in P
      /\ \A x : ~(x \in P /\ x \in P)
  BY <1>4, <1>5
<1>7. walk' \in {"walking", "crashed"}
  BY <1>5
<1> HIDE DEF n, T, P
<1> QED BY <1>1, <1>5, <1>6, <1>7, TreeShrunk

\* A directory is opened: what was ahead under its entry is ahead in it.
LEMMA TreeOpenDir ==
    ASSUME NEW length, PathsFit(length), TreeInv(length), WalkInv', walk = "walking",
           NEW name \in Walk!Top.todo, Walk!Finds(name, {"dir"}),
           dirs' = Append(Walk!Past(name),
                          Walk!Opened(Walk!lstat(Walk!Named(name)), Walk!PathLen(name))),
           UNCHANGED <<walk, items, cap, failed>>
    PROVE  TreeInv(length)'
<1> DEFINE n == Entries[Walk!Top.dir][name]
           T == Walk!Top.todo \ {name}
           f == Walk!Opened(n, Walk!PathLen(name))
           s == Walk!Past(name)
<1>1. WalkInv /\ Account /\ Walk!ListedOnce
  BY DEF TreeInv
<1>2. /\ Walk!Top.dir \in Walk!Dirs /\ name \in DOMAIN Entries[Walk!Top.dir]
      /\ n \in Walk!Nodes /\ Len(dirs) \in Nat /\ Len(dirs) >= 1
  BY <1>1, TopFrame
<1>3. /\ Walk!Named(name) = n /\ Walk!PathLen(name) = length[Walk!Top.dir] + 1 + Len(name)
      /\ Walk!PathLen(name) \in 1..PATH_MAX
  BY <1>1, NamedEntry, NamedNode
<1>4. n \in Walk!Dirs /\ Kind[n] = "dir"
  BY <1>2, <1>3 DEF Walk!Finds, Walk!lstat, Walk!Dirs
<1>5. /\ f \in Frames /\ f.dir = n /\ f.todo = DOMAIN Entries[n]
      /\ f.len = Walk!PathLen(name)
  BY <1>3, <1>4, OpenedFrame DEF Walk!Opened
<1>6. f.len = length[n]
  BY <1>2, <1>3, <1>4, <1>5 DEF PathsFit
<1>7. Shrunk(dirs, T, s) /\ s \in Seq(Frames)
  BY <1>1, PastShrinks DEF Shrunk
<1>8. Pushed(s, f, dirs')
  BY <1>3, <1>5, <1>7, Pushes DEF Walk!lstat
<1>d. \A x : Dropped(T, x) <=> x \in Walk!Under[n]
  BY DroppedOne
<1>9. \A x : x \in Walk!Under[n] <=>
               \E e \in DOMAIN Entries[n] : x \in Walk!Under[Entries[n][e]]
  BY <1>2, <1>4, UnderNode
<1>t. T \subseteq dirs[Len(dirs)].todo
  BY DEF Walk!Top
<1> HIDE DEF f, s, n, T
<1>10. /\ Len(s) = Len(dirs) /\ Len(dirs') = Len(dirs) + 1 /\ dirs'[Len(dirs) + 1] = f
       /\ \A i \in 1..Len(dirs) :
            /\ dirs'[i].dir = dirs[i].dir /\ dirs'[i].len = dirs[i].len
            /\ dirs'[i].todo = IF i = Len(dirs) THEN T ELSE dirs[i].todo
  BY <1>7, <1>8 DEF Shrunk, Pushed
<1>11. ASSUME NEW i, NEW e, NEW x
       PROVE  At(i, e, x)' <=>
                \/ At(i, e, x) /\ (i = Len(dirs) => e \in T)
                \/ /\ i = Len(dirs) + 1 /\ e \in DOMAIN Entries[n]
                   /\ x \in Walk!Under[Entries[n][e]]
  <2>1. CASE i \in 1..Len(dirs)
    BY <1>2, <1>10, <1>t, <2>1 DEF At
  <2>2. CASE i = Len(dirs) + 1
    BY <1>2, <1>5, <1>10, <2>2 DEF At
  <2>3. CASE i \notin 1..Len(dirs) + 1
    BY <1>2, <1>10, <2>3 DEF At
  <2> QED BY <1>2, <2>1, <2>2, <2>3
<1>12. \A x : x \in Walk!Under[n] <=> \E e : At(Len(dirs), e, x) /\ e \notin T
  BY <1>1, <1>d, DroppedIsAhead
<1>13. (Walk!Collected)' = Walk!Collected /\ failed' = failed
       /\ Walk!ListedOnce'
  BY <1>1 DEF Walk!Collected, Walk!ListedOnce
<1>14. ASSUME NEW x PROVE (\E i, e : At(i, e, x)') <=> \E i, e : At(i, e, x)
  <2>1. (\E i, e : At(i, e, x)) <=>
          \/ \E i, e : At(i, e, x) /\ (i = Len(dirs) => e \in T)
          \/ \E e : At(Len(dirs), e, x) /\ e \notin T
    OBVIOUS
  <2>2. (\E i, e : At(i, e, x)') <=>
          \/ \E i, e : At(i, e, x) /\ (i = Len(dirs) => e \in T)
          \/ \E e \in DOMAIN Entries[n] : x \in Walk!Under[Entries[n][e]]
    BY <1>11
  <2> QED BY <1>9, <1>12, <2>1, <2>2
<1>15. ASSUME NEW x
       PROVE  x \in Walk!Under[Root] <=>
               x \in Walk!Collected' \/ (\E i, e : At(i, e, x)') \/ x \in failed'
  <2>1. x \in Walk!Under[Root] <=>
          x \in Walk!Collected \/ (\E i, e : At(i, e, x)) \/ x \in failed
    BY <1>1 DEF Account
  <2> QED BY <1>13, <1>14, <2>1
<1>16. ASSUME NEW i, NEW e, NEW x, At(i, e, x)'
       PROVE  x \notin Walk!Collected /\ x \notin failed
  <2>1. \E j, k : At(j, k, x)
    BY <1>14, <1>16
  <2> QED BY <1>1, <2>1 DEF Account
<1>17. ASSUME NEW i, NEW e, NEW j, NEW k, NEW x, At(i, e, x)', At(j, k, x)'
       PROVE  i = j /\ e = k
  <2>1. ASSUME NEW a, NEW b, At(a, b, x), a = Len(dirs) => b \in T,
               x \in Walk!Under[n]
        PROVE  FALSE
    <3>1. PICK c : At(Len(dirs), c, x) /\ c \notin T
      BY <1>12, <2>1
    <3>2. a = Len(dirs) /\ b = c
      BY <1>1, <2>1, <3>1 DEF Account
    <3> QED BY <2>1, <3>1, <3>2
  <2>2. CASE x \in Walk!Under[n]
    <3>1. /\ i = Len(dirs) + 1 /\ e \in DOMAIN Entries[n] /\ x \in Walk!Under[Entries[n][e]]
          /\ j = Len(dirs) + 1 /\ k \in DOMAIN Entries[n] /\ x \in Walk!Under[Entries[n][k]]
      BY <1>11, <1>17, <2>1, <2>2
    <3> QED BY <1>2, <1>4, <3>1, EntriesApart
  <2>3. CASE x \notin Walk!Under[n]
    <3>1. At(i, e, x) /\ At(j, k, x)
      BY <1>9, <1>11, <1>17, <2>3
    <3> QED BY <1>1, <3>1 DEF Account
  <2> QED BY <2>2, <2>3
<1>18. Account'
  BY <1>1, <1>13, <1>15, <1>16, <1>17 DEF Account
<1>19. ASSUME NEW i \in 1..Len(dirs') PROVE dirs'[i].len = length[dirs'[i].dir]
  <2>1. CASE i \in 1..Len(dirs)
    BY <1>10, <2>1 DEF TreeInv
  <2>2. CASE i = Len(dirs) + 1
    BY <1>5, <1>6, <1>10, <2>2
  <2> QED BY <1>2, <1>10, <2>1, <2>2
<1> QED BY <1>13, <1>18, <1>19 DEF TreeInv

\* A regular file is collected, or its path cannot be copied, or the vector
\* cannot grow.
LEMMA TreeCollect ==
    ASSUME NEW length, PathsFit(length), TreeInv(length), WalkInv', walk = "walking",
           NEW name \in Walk!Top.todo, Walk!Collect(name)
    PROVE  TreeInv(length)'
<1> DEFINE n == Entries[Walk!Top.dir][name]
           T == Walk!Top.todo \ {name}
           P == {n}
           Q == {}
<1>1. WalkInv /\ Account /\ Walk!ListedOnce /\ items \in Seq(Walk!Files \cup {NULL})
  BY DEF TreeInv, WalkInv, Walk!TypeOK
<1>2. dirs' = Walk!Past(name) /\ Shrunk(dirs, T, dirs') /\ T \in SUBSET Walk!Top.todo
  BY <1>1, PastShrinks DEF Walk!Collect
<1>3. Walk!Named(name) = n /\ n \in Walk!Nodes
  BY <1>1, NamedEntry, TopFrame
<1>4. Kind[n] = "reg" /\ n # NULL
  BY <1>3 DEF Walk!Collect, Walk!Finds, Walk!lstat
<1>5. \A x : x \in Walk!Under[n] <=> x = n
  BY <1>3, <1>4, UnderNode
<1>6. \A x : Dropped(T, x) <=> x = n
  BY <1>5, DroppedOne
<1>7. CASE cap' = Walk!grown /\ items' = Append(items, n) /\ UNCHANGED <<failed, walk>>
  <2>1. n \notin Walk!Collected
    <3>1. Dropped(T, n)
      BY <1>6
    <3>2. \E e : At(Len(dirs), e, n)
      BY <1>1, <3>1, DroppedIsAhead
    <3> QED BY <1>1, <3>2 DEF Account
  <2>2. Walk!ListedOnce'
    BY <1>1, <1>7, <2>1, ListedMore
  <2>3. \A x : x \in Walk!Collected' <=> x \in Walk!Collected \/ x \in P
    BY <1>1, <1>4, <1>7, CollectedMore
  <2>4. failed' = failed /\ walk' \in {"walking", "crashed"}
    BY <1>7
  <2>5. /\ \A x : Dropped(T, x) <=> x \in P \/ x \in Q
        /\ \A x : x \in failed' <=> x \in failed \/ x \in Q
        /\ \A x : ~(x \in P /\ x \in Q)
    BY <1>6, <2>4
  <2> HIDE DEF n, T, P, Q
  <2> QED BY <1>2, <2>2, <2>3, <2>4, <2>5, TreeShrunk
<1>8. CASE /\ cap' = Walk!grown /\ items' = Append(items, NULL)
           /\ failed' = failed \cup Walk!Under[n] /\ UNCHANGED walk
  <2>1. Walk!ListedOnce'
    BY <1>1, <1>8, ListedMore
  <2>2. \A x : x \in Walk!Collected' <=> x \in Walk!Collected
    BY <1>1, <1>8, CollectedMore
  <2>3. failed' = failed \cup Walk!Under[Walk!Named(name)]
    BY <1>3, <1>8
  <2> QED BY <1>2, <1>8, <2>1, <2>2, <2>3, TreeEntryFails
<1>9. CASE walk' = "crashed" /\ UNCHANGED <<items, cap, failed>>
  <2>1. Walk!ListedOnce'
    BY <1>1, <1>9 DEF Walk!ListedOnce
  <2>2. ASSUME NEW i \in 1..Len(dirs') PROVE dirs'[i].len = length[dirs'[i].dir]
    BY <1>2 DEF Shrunk, TreeInv
  <2> QED BY <1>9, <2>1, <2>2 DEF TreeInv
<1> QED BY <1>3, <1>7, <1>8, <1>9 DEF Walk!Collect, Walk!lstat

LEMMA TreeStep ==
    ASSUME NEW length, PathsFit(length), TreeInv(length), Walk!Next
    PROVE  TreeInv(length)'
<1>1. WalkInv'
  BY WalkStep DEF TreeInv
<1>2. CASE Walk!OpenRoot
  BY <1>1, <1>2, TreeOpenRoot
<1>3. CASE walk = "walking" /\ Walk!Leave
  BY <1>1, <1>3, TreeLeave
<1>4. CASE walk = "walking" /\ Walk!ReaddirFails
  BY <1>1, <1>4, TreeReaddirFails
<1>5. ASSUME walk = "walking", NEW name \in Walk!Top.todo,
             dirs' = Walk!Past(name), failed' = failed \cup Walk!Under[Walk!Named(name)],
             UNCHANGED <<walk, items, cap>>
      PROVE  TreeInv(length)'
  <2>1. (Walk!Collected)' = Walk!Collected /\ Walk!ListedOnce'
    BY <1>5 DEF TreeInv, Walk!Collected, Walk!ListedOnce
  <2> QED BY <1>1, <1>5, <2>1, TreeEntryFails
<1>6. ASSUME walk = "walking", NEW name \in Walk!Top.todo,
             \/ Walk!PassOver(name) \/ Walk!LstatFails(name)
             \/ Walk!Descend(name) \/ Walk!Collect(name)
      PROVE  TreeInv(length)'
  <2>1. CASE Walk!PassOver(name)
    BY <1>1, <1>6, <2>1, TreePassOver
  <2>2. CASE Walk!LstatFails(name)
    BY <1>5, <1>6, <2>2 DEF Walk!LstatFails
  <2>3. CASE Walk!Descend(name)
    <3>1. CASE dirs' = Walk!Past(name) /\ failed' = failed \cup Walk!Under[Walk!Named(name)]
      BY <1>5, <1>6, <2>3, <3>1 DEF Walk!Descend
    <3>2. CASE /\ dirs' = Append(Walk!Past(name),
                                 Walk!Opened(Walk!lstat(Walk!Named(name)), Walk!PathLen(name)))
               /\ UNCHANGED failed
      BY <1>1, <1>6, <2>3, <3>2, TreeOpenDir DEF Walk!Descend
    <3> QED BY <2>3, <3>1, <3>2 DEF Walk!Descend
  <2>4. CASE Walk!Collect(name)
    BY <1>1, <1>6, <2>4, TreeCollect
  <2> QED BY <1>6, <2>1, <2>2, <2>3, <2>4
<1> QED BY <1>2, <1>3, <1>4, <1>6 DEF Walk!Next, Walk!Walk

\* The files ahead are those under the entries still to be returned.
LEMMA AheadElements ==
    WalkInv /\ walk # "opening" => \A x : x \in Walk!Ahead <=> \E i, e : At(i, e, x)
<1> SUFFICES ASSUME WalkInv, walk # "opening", NEW x
             PROVE  x \in Walk!Ahead <=> \E i, e : At(i, e, x)
  OBVIOUS
<1>1. dirs \in Seq(Frames)
  BY DEF WalkInv, Walk!TypeOK, Frames
<1>2. DOMAIN dirs = 1..Len(dirs)
  BY <1>1
<1>3. \A i : x \in Walk!AllUnder({Entries[dirs[i].dir][e] : e \in dirs[i].todo}) <=>
               \E e \in dirs[i].todo : x \in Walk!Under[Entries[dirs[i].dir][e]]
  BY DEF Walk!AllUnder
<1>4. x \in Walk!Ahead <=>
        \E i \in DOMAIN dirs :
          x \in Walk!AllUnder({Entries[dirs[i].dir][e] : e \in dirs[i].todo})
  BY DEF Walk!Ahead
<1>5. x \in Walk!Ahead <=>
        \E i \in 1..Len(dirs) : \E e \in dirs[i].todo :
          x \in Walk!Under[Entries[dirs[i].dir][e]]
  BY <1>2, <1>3, <1>4
<1> QED BY <1>5 DEF At

\* What the account says of the files lost.
LEMMA AccountLoses ==
    ASSUME NEW length, TreeInv(length)
    PROVE  Walk!LosesOnlyFailures
<1> SUFFICES ASSUME walk \in {"walking", "done"}
             PROVE  Walk!Lost = failed /\ Walk!Collected \cap Walk!Ahead = {}
  BY DEF Walk!LosesOnlyFailures
<1>1. Account /\ WalkInv
  BY DEF TreeInv
<1>2. ASSUME NEW x PROVE x \in Walk!Ahead <=> \E i, e : At(i, e, x)
  BY <1>1, AheadElements
<1>3. ASSUME NEW x PROVE x \in Walk!Lost <=> x \in failed
  BY <1>1, <1>2 DEF Account, Walk!Lost
<1>4. ASSUME NEW x PROVE ~(x \in Walk!Collected /\ x \in Walk!Ahead)
  BY <1>1, <1>2 DEF Account
<1> QED BY <1>3, <1>4
=============================================================================
