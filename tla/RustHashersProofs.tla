-------------------------- MODULE RustHashersProofs --------------------------
(***************************************************************************)
(* Proofs about RustHashers, for any number of threads, values and blocks, *)
(* any build and any size of the storage in a value: the crate makes only  *)
(* the calls include/river5.h allows, each value finds its own context     *)
(* wherever it is moved, and no context is left behind.                    *)
(***************************************************************************)
EXTENDS RustHashers, DispatchProofs

-----------------------------------------------------------------------------
(* The inductive invariant *)

\* The value at p has its context: not while it is being made, nor once that
\* has been freed.
Backed(p) ==
    /\ value[p] # NULL
    /\ \A t \in Threads : self[t] = p =>
        /\ method[t] = "init_in" => pc[t] = "idle" /\ result[t] # NULL
        /\ method[t] # "fallback"
        /\ method[t] = "drop" => pc[t] # "idle"

\* river5_new has just returned the context at c to the method that is making
\* the value at p.
Receives(p, c) ==
    \E t \in Threads :
        /\ self[t] = p /\ method[t] \in {"Hasher::new", "fallback"}
        /\ pc[t] = "idle" /\ c # NULL /\ result[t] = c

Owns(p, c) == (Backed(p) /\ c = ctx_ptr(p)) \/ Receives(p, c)

\* The value at p is finalized, and will not be used but to drop it.
Leaving(p) ==
    \E t \in Threads :
        /\ self[t] = p
        /\ method[t] = "drop" \/ (method[t] = "finalize" /\ pc[t] = "idle")

\* Each context is owned by one value, at its place, and is finalized only when
\* that value is on its way out.
Ownership ==
    /\ \A c \in Addresses : ctx[c] # NULL <=> \E p \in Places : Owns(p, c)
    /\ \A p, q \in Places, c \in Addresses : Owns(p, c) /\ Owns(q, c) => p = q
    /\ \A p \in Places, c \in Addresses : Owns(p, c) /\ ctx[c].spent => Leaving(p)

\* What thread t is at, from the first C call of its method to the last.
InMethod(t) ==
    /\ method[t] = NULL => pc[t] = "idle"
    /\ method[t] \in {"hash", "Hasher::new", "fallback"} /\ pc[t] # "idle" =>
          arg[t] = NULL /\ op[t] = IF method[t] = "hash" THEN "hash" ELSE "new"
    /\ method[t] \in {"Hasher::new", "fallback"} /\ pc[t] = "idle" =>
          result[t] \in Blocks \cup {NULL}
    /\ method[t] = "Hasher::new" => value[self[t]] = NULL
    /\ method[t] \in {"init_in", "fallback"} =>
          value[self[t]] = [type |-> "StackHasher", backing |-> "InPlace"]
    /\ method[t] = "init_in" /\ pc[t] # "idle" => op[t] = "init_in" /\ arg[t] = self[t]
    /\ method[t] = "init_in" /\ pc[t] = "idle" => result[t] \in {NULL, self[t]}
    /\ method[t] \in {"update", "finalize", "drop"} => value[self[t]] # NULL
    /\ method[t] \in {"update", "finalize", "drop"} /\ pc[t] # "idle" =>
          /\ op[t] = IF method[t] = "drop" THEN "free" ELSE method[t]
          /\ arg[t] = ctx_ptr(self[t])
    /\ method[t] = "drop" => Heaped(self[t])

\* One thread at a time works on a value.
Apart == \A t, u \in Threads : t # u /\ self[t] = self[u] => self[t] = NULL

Methodical == Apart /\ \A t \in Threads : InMethod(t)

RustInv == DispatchInv /\ HeapInv /\ RustTypeOK /\ Methodical /\ Ownership

-----------------------------------------------------------------------------
(* What the C API does *)

\* The context at c is neither made, released nor finalized by the step.
Untouched(c) ==
    /\ ctx'[c] = NULL <=> ctx[c] = NULL
    /\ ctx[c] # NULL => ctx'[c].spent = ctx[c].spent

\* The step makes a context at c.
Appears(c) == ctx[c] = NULL /\ ctx'[c] # NULL /\ ~ctx'[c].spent

\* A C call that does not return yet touches no context.
GoesOn(t) ==
    /\ pc'[t] # "idle" /\ op'[t] = op[t] /\ arg'[t] = arg[t]
    /\ \A c \in Addresses : Untouched(c)

\* A C call returns, having done what its function promises.
Ends(t) ==
    /\ pc'[t] = "idle"
    /\ op[t] \in {"hash", "update"} => \A c \in Addresses : Untouched(c)
    /\ op[t] = "finalize" =>
          /\ ctx'[arg[t]] # NULL
          /\ \A c \in Addresses : c # arg[t] => Untouched(c)
    /\ op[t] \in {"new", "init_in"} =>
          /\ \A c \in Addresses : c # result'[t] => Untouched(c)
          /\ result'[t] # NULL => result'[t] \in Addresses /\ Appears(result'[t])
    /\ op[t] = "new" => result'[t] \in Blocks \cup {NULL}
    /\ op[t] = "init_in" => result'[t] \in {NULL, arg[t]}
    /\ op[t] = "free" =>
          /\ ctx'[arg[t]] = NULL
          /\ \A c \in Addresses : c # arg[t] => Untouched(c)

\* The call of one thread leaves what the others are at.
OthersWait(t) ==
    \A u \in Threads : u # t =>
        pc'[u] = pc[u] /\ op'[u] = op[u] /\ arg'[u] = arg[u] /\ result'[u] = result[u]

\* What a return leaves behind.
LEMMA ReturnEffects ==
    ASSUME DispatchInv, NEW t \in Threads, NEW r, Return(t, r)
    PROVE  OthersWait(t) /\ pc'[t] = "idle" /\ result'[t] = r
  BY DEF DispatchInv, TypeOK, Return, Goto, OthersWait

\* Every step of the C code is inside its call or returns from it.
LEMMA StepEffects ==
    ASSUME DispatchInv, HeapInv, NEW t \in Threads, Step(t)
    PROVE  pc[t] # "idle" /\ OthersWait(t) /\ (GoesOn(t) \/ Ends(t))
<1>1. ctx \in [Addresses -> Contexts \cup {NULL}]
  BY HeapTypes
<1>2. CASE ReadCached(t) \/ Resolve(t) \/ Publish(t)
  BY <1>2 DEF ReadCached, Resolve, Publish, Goto, DispatchInv, TypeOK, OthersWait,
              GoesOn, Untouched
<1>3. CASE Pure(t) \/ AllocFails(t)
  <2>1. /\ Return(t, NULL) /\ ctx' = ctx /\ pc[t] = "run"
        /\ op[t] \in {"hash", "update", "new"}
    BY <1>3 DEF Pure, AllocFails, Running
  <2> QED BY <2>1, ReturnEffects, DisjointAssumption DEF Ends, Untouched
<1>4. CASE Finalize(t)
  <2>1. /\ Return(t, NULL) /\ ctx' = [ctx EXCEPT ![arg[t]].spent = TRUE]
        /\ pc[t] = "run" /\ op[t] = "finalize"
    BY <1>4 DEF Finalize, Running
  <2>2. arg[t] \in Addresses /\ ctx[arg[t]] \in Contexts
    BY <2>1, HeapTypes DEF DispatchInv, Exclusive, Addresses
  <2>3. /\ ctx'[arg[t]] # NULL
        /\ \A c \in Addresses : c # arg[t] => ctx'[c] = ctx[c]
    BY <1>1, <2>1, <2>2, Updated
  <2> QED BY <2>1, <2>3, ReturnEffects DEF Ends, Untouched
<1>5. CASE InitIn(t)
  <2>1. pc[t] = "run" /\ op[t] = "init_in"
    BY <1>5 DEF InitIn, Running
  <2>2. arg[t] \in Addresses /\ ctx[arg[t]] = NULL /\ arg[t] # NULL
    BY <2>1, StorageAssumption, DisjointAssumption DEF HeapInv, CallsHold, Addresses
  <2>3. CASE StorageSize[arg[t]] >= ctx_bytes_required(v[t]) /\ v[t] = "v15"
    <3>1. /\ Return(t, arg[t]) /\ ctx' = [ctx EXCEPT ![arg[t]] = NewContext("v15", NULL)]
      BY <1>5, <2>3 DEF InitIn
    <3>2. PICK x : x = NewContext("v15", NULL) /\ x # NULL /\ x.spent = FALSE
      <4>1. "v15" \in Backends /\ NULL \in Blocks \cup {NULL}
        BY DEF Backends
      <4>2. NewContext("v15", NULL) # NULL /\ NewContext("v15", NULL).spent = FALSE
        BY <4>1, Fresh
      <4> QED BY <4>2
    <3>3. \A c \in Addresses : ctx'[c] = IF c = arg[t] THEN x ELSE ctx[c]
      <4>1. ctx' = [ctx EXCEPT ![arg[t]] = x]
        BY <3>1, <3>2
      <4> QED BY <1>1, <4>1
    <3>4. Appears(arg[t]) /\ \A c \in Addresses : c # arg[t] => Untouched(c)
      BY <2>2, <3>2, <3>3 DEF Appears, Untouched
    <3> QED BY <2>1, <2>2, <3>1, <3>4, ReturnEffects DEF Ends
  <2>4. CASE ~(StorageSize[arg[t]] >= ctx_bytes_required(v[t]) /\ v[t] = "v15")
    <3>1. Return(t, NULL) /\ ctx' = ctx
      BY <1>5, <2>4 DEF InitIn
    <3> QED BY <2>1, <3>1, ReturnEffects DEF Ends, Untouched
  <2> QED BY <2>3, <2>4
<1>6. ASSUME NEW a \in Blocks, V15New(t, a) \/ StubCreateState(t, a)
      PROVE  pc[t] # "idle" /\ OthersWait(t) /\ Ends(t)
  <2>1. PICK r \in Blocks, b \in Backends, y \in Blocks \cup {NULL} :
           /\ Return(t, r) /\ ctx' = [ctx EXCEPT ![r] = NewContext(b, y)]
           /\ ctx[r] = NULL
    <3>1. CASE V15New(t, a)
      <4>1. Return(t, a) /\ ctx' = [ctx EXCEPT ![a] = NewContext("v15", NULL)] /\ ctx[a] = NULL
        BY <3>1, FreeBlock DEF V15New
      <4> QED BY <4>1 DEF Backends
    <3>2. CASE StubCreateState(t, a)
      <4>1. /\ Return(t, block[t]) /\ ctx' = [ctx EXCEPT ![block[t]] = NewContext("stub", a)]
            /\ block[t] \in Blocks
        BY <3>2 DEF StubCreateState, DispatchInv, Exclusive
      <4>2. ctx[block[t]] = NULL
        BY <4>1 DEF HeapInv, Ledger, Holds, Addresses
      <4> QED BY <4>1, <4>2 DEF Backends
    <3> QED BY <1>6, <3>1, <3>2
  <2>2. pc[t] \in {"run", "create"} /\ op[t] = "new"
    BY <1>6 DEF V15New, StubCreateState, Running, DispatchInv, Exclusive
  <2>3. PICK x : x = NewContext(b, y) /\ x # NULL /\ x.spent = FALSE
    <3>1. b \in Backends /\ y \in Blocks \cup {NULL}
      BY <2>1
    <3>2. NewContext(b, y) # NULL /\ NewContext(b, y).spent = FALSE
      BY <3>1, Fresh, Zenon
    <3> QED BY <3>2
  <2>4. r \in Addresses /\ r # NULL
    BY DisjointAssumption DEF Addresses
  <2>5. \A c \in Addresses : ctx'[c] = IF c = r THEN x ELSE ctx[c]
    BY <1>1, <2>1, <2>3
  <2>6. Appears(r) /\ \A c \in Addresses : c # r => Untouched(c)
    BY <2>1, <2>3, <2>4, <2>5 DEF Appears, Untouched
  <2> QED BY <2>1, <2>2, <2>4, <2>6, ReturnEffects DEF Ends
<1>7. CASE V15Free(t) \/ StubFree(t)
  <2>1. /\ pc[t] \in {"run", "release"} /\ op[t] = "free"
        /\ Return(t, NULL) /\ ctx' = [ctx EXCEPT ![arg[t]] = NULL]
    BY <1>7 DEF V15Free, StubFree, Running, DispatchInv, Exclusive
  <2>2. arg[t] \in Addresses
    BY <2>1 DEF HeapInv, CallsHold, Addresses
  <2>3. \A c \in Addresses : ctx'[c] = IF c = arg[t] THEN NULL ELSE ctx[c]
    BY <1>1, <2>1
  <2> QED BY <2>1, <2>2, <2>3, ReturnEffects DEF Ends, Untouched
<1>8. ASSUME NEW a \in Blocks, StubMalloc(t, a)
      PROVE  pc[t] # "idle" /\ OthersWait(t) /\ GoesOn(t)
  BY <1>8 DEF StubMalloc, Running, Goto, DispatchInv, TypeOK, OthersWait, GoesOn, Untouched
<1>9. CASE StubCreateFails(t)
  <2>1. Return(t, NULL) /\ ctx' = ctx /\ pc[t] = "create" /\ op[t] = "new"
    BY <1>9 DEF StubCreateFails, DispatchInv, Exclusive
  <2> QED BY <2>1, ReturnEffects DEF Ends, Untouched
<1>10. CASE StubFreeState(t)
  <2>1. /\ ctx' = [ctx EXCEPT ![arg[t]].xxh = NULL] /\ pc[t] = "run" /\ op[t] = "free"
        /\ pc' = [pc EXCEPT ![t] = "release"] /\ UNCHANGED <<op, arg, result>>
    BY <1>10 DEF StubFreeState, Running, Goto
  <2>2. arg[t] \in Addresses /\ ctx[arg[t]] \in Contexts /\ ctx[arg[t]] # NULL
    BY <2>1, HeapTypes DEF DispatchInv, Exclusive, Addresses
  <2>3. PICK x : /\ x = [ctx[arg[t]] EXCEPT !.xxh = NULL] /\ x # NULL
                /\ x.spent = ctx[arg[t]].spent
    BY <2>2, Updated
  <2>4. \A c \in Addresses : ctx'[c] = IF c = arg[t] THEN x ELSE ctx[c]
    BY <1>1, <2>1, <2>3
  <2>5. \A c \in Addresses : Untouched(c)
    BY <2>2, <2>3, <2>4 DEF Untouched
  <2>6. pc'[t] = "release" /\ OthersWait(t)
    BY <2>1 DEF DispatchInv, TypeOK, OthersWait
  <2> QED BY <2>1, <2>5, <2>6 DEF GoesOn
<1> QED BY <1>2, <1>3, <1>4, <1>5, <1>6, <1>7, <1>8, <1>9, <1>10 DEF Step

\* Contexts move between storages that no call is using, or end with them: the
\* C side does not notice.
LEMMA StoragesChange ==
    ASSUME DispatchInv, HeapInv, NEW S \in SUBSET Storages,
           UNCHANGED <<CpuHasAesni, cached, knows, pc, op, arg, v, block, result,
                       heap, served>>,
           ctx' \in [Addresses -> Contexts \cup {NULL}],
           \A t \in Threads : pc[t] # "idle" => arg[t] \notin S,
           \A c \in Addresses : c \notin S => ctx'[c] = ctx[c],
           \A s \in S : ctx'[s] = NULL \/ \E r \in S : ctx'[s] = ctx[r]
    PROVE  DispatchInv' /\ HeapInv'
<1>1. \A s \in S : s \in Storages /\ s \in Addresses /\ s \notin Blocks
  BY DisjointAssumption DEF Addresses
<1>2. TypeOK'
  BY DEF DispatchInv, TypeOK, Addresses
<1>3. OneVtable'
  <2>1. \A c \in Addresses : ctx'[c] # NULL => ctx'[c].maker = resolve_vtable
    BY <1>1 DEF DispatchInv, OneVtable, Addresses
  <2>2. resolve_vtable' = resolve_vtable
    BY DEF resolve_vtable
  <2> QED BY <2>1, <2>2 DEF DispatchInv, OneVtable, Addresses
<1>4. ASSUME NEW t \in Threads, arg[t] \in Addresses, pc[t] # "idle"
      PROVE  ctx'[arg[t]] = ctx[arg[t]]
  BY <1>4
<1>5. ASSUME NEW t \in Threads, op[t] # NULL
      PROVE  pc[t] # "idle"
  BY <1>5 DEF DispatchInv, Exclusive
<1>6. Exclusive'
  <2>1. ASSUME NEW t \in Threads, op[t] \in {"update", "finalize", "free"}
        PROVE  ctx'[arg[t]] # NULL
    <3>1. arg[t] \in Addresses /\ ctx[arg[t]] # NULL /\ pc[t] # "idle"
      BY <1>5, <2>1, DisjointAssumption DEF DispatchInv, Exclusive, Addresses
    <3> QED BY <1>4, <3>1
  <2> QED BY <2>1 DEF DispatchInv, Exclusive
<1>7. Ledger'
  <2>1. ASSUME NEW c \in Addresses, NEW a \in Blocks PROVE Holds(c, a)' <=> Holds(c, a)
    <3>1. CASE c \notin S
      BY <3>1 DEF Holds
    <3>2. CASE c \in S
      <4>1. \A s \in S : ctx[s] # NULL => ctx[s].xxh = NULL
        BY <1>1 DEF HeapInv, InPlaceIsV15
      <4>2. ctx'[c] # NULL => ctx'[c].xxh = NULL
        BY <3>2, <4>1
      <4>3. a # NULL /\ c # a
        BY <1>1, <3>2, DisjointAssumption
      <4> QED BY <3>2, <4>1, <4>2, <4>3 DEF Holds
    <3> QED BY <3>1, <3>2
  <2>2. \A c \in Blocks : ctx'[c] # NULL => ctx'[c].xxh # c
    BY <1>1 DEF HeapInv, Ledger, Addresses
  <2> QED BY <2>1, <2>2, LedgerSame DEF HeapInv
<1>8. CallsHold'
  <2>1. ASSUME NEW t \in Threads, pc[t] = "release" \/ op[t] = "init_in"
        PROVE  ctx'[arg[t]] = ctx[arg[t]]
    <3>1. arg[t] \in Addresses /\ pc[t] # "idle"
      BY <1>5, <2>1, DisjointAssumption DEF DispatchInv, Exclusive, Addresses
    <3> QED BY <1>4, <3>1
  <2> QED BY <2>1 DEF HeapInv, CallsHold
<1>9. InPlaceIsV15'
  <2>1. \A s \in Storages : s \in Aligned /\ StorageSize[s] = RIVER5_CTX_BYTES
    BY PlaceAssumption DEF Places
  <2>2. \A c \in Addresses : ctx'[c] # NULL /\ ctx'[c].maker = "v15" => ctx'[c].xxh = NULL
    BY <1>1 DEF HeapInv, InPlaceIsV15
  <2>3. \A s \in Storages : ctx'[s] # NULL =>
           ctx'[s].maker = "v15" /\ StorageSize[s] >= V15Bytes
    BY <2>1 DEF HeapInv, InPlaceIsV15, Addresses
  <2> QED BY <2>1, <2>2, <2>3 DEF InPlaceIsV15
<1> QED BY <1>2, <1>3, <1>6, <1>7, <1>8, <1>9 DEF DispatchInv, HeapInv

\* A C call begins, on a context its caller may give it.
LEMMA EnterKeeps ==
    ASSUME DispatchInv, HeapInv, UNCHANGED CpuHasAesni, NEW t \in Threads,
           NEW f \in {"hash", "new", "update", "finalize", "free", "init_in"},
           NEW c \in Addresses \cup {NULL}, Enter(t, f, c), c # NULL => ~Busy(c),
           f \in {"update", "finalize", "free"} => c # NULL /\ ctx[c] # NULL,
           f = "free" => c \in Blocks,
           f = "init_in" => c \in Places /\ ctx[c] = NULL
    PROVE  /\ DispatchInv' /\ HeapInv' /\ OthersWait(t)
           /\ pc[t] = "idle" /\ pc'[t] = "read" /\ op'[t] = f /\ arg'[t] = c
           /\ \A a \in Addresses : Untouched(a)
<1>1. UNCHANGED <<CpuHasAesni, resolve_vtable>>
  BY DEF resolve_vtable
<1>2. DispatchInv'
  BY <1>1, EnterInv DEF Addresses, Places
<1>3. HeapInv'
  BY EnterHeap, PlaceAssumption
<1>4. /\ OthersWait(t) /\ pc[t] = "idle" /\ pc'[t] = "read" /\ op'[t] = f /\ arg'[t] = c
  BY DEF Enter, DispatchInv, TypeOK, OthersWait
<1>5. \A a \in Addresses : Untouched(a)
  BY DEF Enter, Untouched
<1> QED BY <1>2, <1>3, <1>4, <1>5

\* Nothing happens on the C side while the crate's own code runs.
LEMMA QuietKeeps ==
    ASSUME DispatchInv, HeapInv, UNCHANGED <<CpuHasAesni, apiVars>>, NEW t \in Threads
    PROVE  /\ DispatchInv' /\ HeapInv' /\ OthersWait(t)
           /\ pc' = pc /\ result' = result /\ ctx' = ctx
           /\ \A a \in Addresses : Untouched(a)
<1>1. UNCHANGED vars
  BY DEF apiVars, vars, threadVars
<1>2. DispatchInv' /\ HeapInv'
  BY <1>1, DispatchNext, HeapNext
<1>3. OthersWait(t) /\ pc' = pc /\ result' = result /\ ctx' = ctx
  BY DEF apiVars, OthersWait
<1> QED BY <1>2, <1>3 DEF Untouched

-----------------------------------------------------------------------------
(* Values and their contexts *)

\* Where a value looks for its context.
LEMMA Pointer ==
    ASSUME RustTypeOK, NEW p \in Places, value[p] # NULL
    PROVE  /\ ctx_ptr(p) \in Addresses
           /\ Heaped(p) => ctx_ptr(p) \in Blocks
           /\ ~Heaped(p) => ctx_ptr(p) = p
<1>1. value[p] \in Hashers
  BY DEF RustTypeOK
<1>2. value[p].backing \in Blocks \cup {"InPlace"}
  BY <1>1 DEF Hashers
<1> QED BY <1>2 DEF ctx_ptr, Heaped, Addresses, Places

\* The context of the value at p as thread t, at work on it, sees it.
Held(t, p, c) ==
    \/ /\ value[p] # NULL /\ c = ctx_ptr(p)
       /\ method[t] = "init_in" => pc[t] = "idle" /\ result[t] # NULL
       /\ method[t] # "fallback"
       /\ method[t] = "drop" => pc[t] # "idle"
    \/ /\ method[t] \in {"Hasher::new", "fallback"}
       /\ pc[t] = "idle" /\ c # NULL /\ result[t] = c

LEMMA OwnsUsed ==
    ASSUME Apart, NEW t \in Threads, NEW p, p # NULL, self[t] = p
    PROVE  \A c : Owns(p, c) <=> Held(t, p, c)
<1>1. \A u \in Threads : self[u] = p <=> u = t
  BY DEF Apart
<1> QED BY <1>1 DEF Owns, Backed, Receives, Held

LEMMA OwnsUnused ==
    ASSUME NEW p, ~InUse(p)
    PROVE  \A c : Owns(p, c) <=> value[p] # NULL /\ c = ctx_ptr(p)
  BY DEF InUse, Owns, Backed, Receives

\* Thread t works on the value at p, or on none; the others are left alone.
Alone(t, p) ==
    /\ OthersWait(t)
    /\ \A u \in Threads : u # t =>
        /\ method'[u] = method[u] /\ self'[u] = self[u]
        /\ p # NULL => self[u] # p
    /\ \A q \in Places : q # p => value'[q] = value[q]
    /\ self[t] \in {p, NULL} /\ self'[t] \in {p, NULL}

LEMMA Framed ==
    ASSUME RustTypeOK, Methodical, NEW t \in Threads, NEW p \in Places \cup {NULL},
           Alone(t, p), InMethod(t)'
    PROVE  /\ Methodical'
           /\ \A q \in Places : q # p =>
                /\ Leaving(q)' <=> Leaving(q)
                /\ \A c : Owns(q, c)' <=> Owns(q, c)
<1>0. NULL \notin Places
  BY DisjointAssumption DEF Places
<1>1. Apart'
  BY DEF Methodical, Apart, Alone
<1>2. ASSUME NEW u \in Threads PROVE InMethod(u)'
  <2>1. CASE u = t
    BY <2>1
  <2>2. CASE u # t
    <3>1. /\ method'[u] = method[u] /\ self'[u] = self[u] /\ pc'[u] = pc[u]
          /\ op'[u] = op[u] /\ arg'[u] = arg[u] /\ result'[u] = result[u]
      BY <2>2 DEF Alone, OthersWait
    <3>2. method[u] \notin {NULL, "hash"} => value'[self[u]] = value[self[u]]
      <4>1. method[u] \notin {NULL, "hash"} => self[u] \in Places
        BY DEF RustTypeOK
      <4>2. self[u] # NULL => self[u] # p
        BY <2>2 DEF Alone
      <4> QED BY <1>0, <4>1, <4>2 DEF Alone
    <3>3. InMethod(u)
      BY DEF Methodical
    <3>4. method[u] = NULL \/ method[u] = "hash" => method[u] \notin Methods \ {"hash"}
      BY NullAssumption DEF Methods
    <3> QED BY <3>1, <3>2, <3>3, <3>4 DEF InMethod, ctx_ptr, Heaped, Methods
  <2> QED BY <2>1, <2>2
<1>3. ASSUME NEW q \in Places, q # p
      PROVE  /\ Leaving(q)' <=> Leaving(q)
             /\ \A c : Owns(q, c)' <=> Owns(q, c)
  <2>1. \A u \in Threads : self'[u] = q <=> self[u] = q
    BY <1>0, <1>3 DEF Alone
  <2>2. \A u \in Threads : self[u] = q =>
           method'[u] = method[u] /\ pc'[u] = pc[u] /\ result'[u] = result[u]
    BY <1>0, <1>3 DEF Alone, OthersWait
  <2>3. value'[q] = value[q]
    BY <1>3 DEF Alone
  <2>4. Leaving(q)' <=> Leaving(q)
    BY <2>1, <2>2 DEF Leaving
  <2>5. Backed(q)' <=> Backed(q)
    BY <2>1, <2>2, <2>3 DEF Backed
  <2>6. \A c : Receives(q, c)' <=> Receives(q, c)
    BY <2>1, <2>2 DEF Receives
  <2> QED BY <2>3, <2>4, <2>5, <2>6 DEF Owns, ctx_ptr
<1> QED BY <1>1, <1>2, <1>3 DEF Methodical

\* The same in the next state, for the value worked on.
LEMMA OwnsNext ==
    ASSUME NEW t \in Threads, NEW p, p # NULL, Alone(t, p)
    PROVE  /\ self'[t] = p => \A c : Owns(p, c)' <=> Held(t, p, c)'
           /\ self'[t] = NULL =>
                \A c : Owns(p, c)' <=> value'[p] # NULL /\ c = ctx_ptr(p)'
           /\ self'[t] = p /\ method'[t] = "drop" => Leaving(p)'
           /\ self'[t] = p /\ method'[t] = "finalize" /\ pc'[t] = "idle" => Leaving(p)'
<1>1. \A u \in Threads : self'[u] = p => u = t
  BY DEF Alone
<1>2. ASSUME self'[t] = p, NEW c PROVE Owns(p, c)' <=> Held(t, p, c)'
  BY <1>1, <1>2 DEF Owns, Backed, Receives, Held
<1>3. ASSUME self'[t] = NULL, NEW c
      PROVE  Owns(p, c)' <=> value'[p] # NULL /\ c = ctx_ptr(p)'
  BY <1>1, <1>3 DEF Owns, Backed, Receives
<1>4. self'[t] = p /\ method'[t] = "drop" => Leaving(p)'
  BY DEF Leaving
<1>5. self'[t] = p /\ method'[t] = "finalize" /\ pc'[t] = "idle" => Leaving(p)'
  BY DEF Leaving
<1> QED BY <1>2, <1>3, <1>4, <1>5

\* A step of one thread on one value, and on no context but that value's.
LEMMA OneValue ==
    ASSUME RustInv, NEW t \in Threads, NEW p \in Places, Alone(t, p),
           DispatchInv', HeapInv', RustTypeOK', InMethod(t)',
           \A c \in Addresses : Untouched(c) \/ Owns(p, c) \/ Owns(p, c)',
           \A c \in Addresses : Owns(p, c)' =>
              /\ Owns(p, c) \/ ctx[c] = NULL
              /\ ctx'[c] # NULL /\ (ctx'[c].spent => Leaving(p)'),
           \A c \in Addresses : Owns(p, c) => Owns(p, c)' \/ ctx'[c] = NULL
    PROVE  RustInv'
<1>1. /\ Methodical'
      /\ \A q \in Places : q # p =>
           /\ Leaving(q)' <=> Leaving(q)
           /\ \A c : Owns(q, c)' <=> Owns(q, c)
  BY Framed DEF RustInv
<1>2. \A q \in Places, c \in Addresses : q # p => (Owns(q, c)' <=> Owns(q, c))
  BY <1>1
<1>3. \A c \in Addresses : ctx[c] # NULL <=> \E q \in Places : Owns(q, c)
  BY DEF RustInv, Ownership
<1>4. \A q, r \in Places, c \in Addresses : Owns(q, c) /\ Owns(r, c) => q = r
  BY DEF RustInv, Ownership
<1>5. ASSUME NEW q \in Places, NEW r \in Places, NEW c \in Addresses,
             Owns(q, c)', Owns(r, c)'
      PROVE  q = r
  <2>1. Owns(p, c)' => \A s \in Places : s # p => ~Owns(s, c)
    BY <1>3, <1>4
  <2> QED BY <1>2, <1>4, <1>5, <2>1
<1>6. ASSUME NEW c \in Addresses
      PROVE  ctx'[c] # NULL <=> \E q \in Places : Owns(q, c)'
  <2>1. CASE Owns(p, c)'
    BY <2>1
  <2>2. CASE ~Owns(p, c)' /\ Owns(p, c)
    BY <1>2, <1>4, <2>2
  <2>3. CASE ~Owns(p, c)' /\ ~Owns(p, c)
    <3>1. ctx'[c] = NULL <=> ctx[c] = NULL
      BY <2>3 DEF Untouched
    <3>2. (\E q \in Places : Owns(q, c)') <=> \E q \in Places : Owns(q, c)
      BY <1>2, <2>3
    <3> QED BY <1>3, <3>1, <3>2
  <2> QED BY <2>1, <2>2, <2>3
<1>7. ASSUME NEW q \in Places, NEW c \in Addresses, Owns(q, c)', ctx'[c].spent
      PROVE  Leaving(q)'
  <2>1. CASE q = p
    BY <1>7, <2>1
  <2>2. CASE q # p
    <3>1. Owns(q, c) /\ ~Owns(p, c) /\ ~Owns(p, c)'
      BY <1>2, <1>4, <1>5, <1>7, <2>2
    <3>2. ctx[c] # NULL /\ ctx'[c].spent = ctx[c].spent
      BY <1>3, <3>1 DEF Untouched
    <3>3. Leaving(q)
      BY <1>7, <3>1, <3>2 DEF RustInv, Ownership
    <3> QED BY <1>1, <2>2, <3>3
  <2> QED BY <2>1, <2>2
<1>8. Ownership'
  <2>1. Addresses' = Addresses /\ Places' = Places
    BY DEF Addresses, Places
  <2> QED BY <1>5, <1>6, <1>7, <2>1 DEF Ownership
<1> QED BY <1>1, <1>8 DEF RustInv

\* A step of a call that works on no value.
LEMMA NoValue ==
    ASSUME RustInv, NEW t \in Threads, Alone(t, NULL),
           DispatchInv', HeapInv', RustTypeOK', InMethod(t)',
           \A c \in Addresses : Untouched(c)
    PROVE  RustInv'
<1>1. /\ Methodical'
      /\ \A q \in Places : /\ Leaving(q)' <=> Leaving(q)
                           /\ \A c : Owns(q, c)' <=> Owns(q, c)
  <2>1. NULL \notin Places
    BY DisjointAssumption DEF Places
  <2> QED BY <2>1, Framed DEF RustInv
<1>2. \A q \in Places, c \in Addresses : Owns(q, c)' <=> Owns(q, c)
  BY <1>1
<1>3. Ownership'
  <2>1. Addresses' = Addresses /\ Places' = Places
    BY DEF Addresses, Places
  <2>2. \A c \in Addresses : ctx'[c] # NULL <=> \E p \in Places : Owns(p, c)'
    BY <1>2 DEF RustInv, Ownership, Untouched
  <2>3. \A p \in Places, c \in Addresses : Owns(p, c)' /\ ctx'[c].spent => Leaving(p)'
    BY <1>1, <1>2 DEF RustInv, Ownership, Untouched
  <2> QED BY <1>2, <2>1, <2>2, <2>3 DEF RustInv, Ownership
<1> QED BY <1>1, <1>3 DEF RustInv

-----------------------------------------------------------------------------
(* The contract of include/river5.h *)

\* A context belongs to the storage it is in, or else lies in a block.
LEMMA InPlaceOwned ==
    ASSUME RustInv, NEW p \in Places, NEW q \in Places, Owns(q, p)
    PROVE  q = p /\ value[p] # NULL /\ ~Heaped(p) /\ Backed(p)
<1>1. p \notin Blocks /\ NULL \notin Places /\ p # NULL
  BY DisjointAssumption DEF Places
<1>2. ~Receives(q, p)
  BY <1>1 DEF RustInv, Methodical, InMethod, Receives
<1>3. Backed(q) /\ p = ctx_ptr(q) /\ value[q] # NULL
  BY <1>2 DEF Owns, Backed
<1> QED BY <1>1, <1>3, Pointer DEF RustInv

\* The context a C call in progress was given is that of the value its method
\* works on, or the storage that is being initialised.
LEMMA InFlight ==
    ASSUME RustInv, NEW u \in Threads, pc[u] # "idle", arg[u] # NULL
    PROVE  /\ self[u] \in Places
           /\ Owns(self[u], arg[u]) \/ (method[u] = "init_in" /\ arg[u] = self[u])
<1>1. method[u] \in {"init_in", "update", "finalize", "drop"} /\ self[u] \in Places
  BY DEF RustInv, RustTypeOK, Methodical, InMethod, Methods
<1>2. CASE method[u] = "init_in"
  BY <1>1, <1>2 DEF RustInv, Methodical, InMethod
<1>3. CASE method[u] \in {"update", "finalize", "drop"}
  <2>1. value[self[u]] # NULL /\ arg[u] = ctx_ptr(self[u])
    BY <1>3 DEF RustInv, Methodical, InMethod
  <2>2. self[u] # NULL
    BY <1>1, DisjointAssumption DEF Places
  <2>3. Held(u, self[u], arg[u])
    BY <1>3, <2>1 DEF Held
  <2> QED BY <1>1, <2>2, <2>3, OwnsUsed DEF RustInv, Methodical
<1> QED BY <1>1, <1>2, <1>3

\* No call is using the context of a value that no method has given away.
LEMMA NotBusy ==
    ASSUME RustInv, NEW p \in Places, NEW c \in Addresses, Owns(p, c),
           \A u \in Threads : self[u] = p => pc[u] = "idle"
    PROVE  ~Busy(c)
<1> SUFFICES ASSUME NEW u \in Threads, pc[u] # "idle", arg[u] = c PROVE FALSE
  BY DEF Busy
<1>1. c # NULL
  BY HeapTypes DEF RustInv
<1>2. /\ self[u] \in Places
      /\ Owns(self[u], c) \/ (method[u] = "init_in" /\ c = self[u])
  BY <1>1, InFlight
<1>3. CASE Owns(self[u], c)
  BY <1>2, <1>3 DEF RustInv, Ownership
<1>4. CASE method[u] = "init_in" /\ c = self[u]
  <2>1. p = self[u]
    BY <1>2, <1>4, InPlaceOwned
  <2> QED BY <2>1
<1> QED BY <1>2, <1>3, <1>4

\* A storage that no method works in is in no call.
LEMMA PlaceNotBusy ==
    ASSUME RustInv, NEW p \in Places, ~InUse(p)
    PROVE  ~Busy(p) /\ \A u \in Threads : pc[u] # "idle" => arg[u] # p
<1> SUFFICES ASSUME NEW u \in Threads, pc[u] # "idle", arg[u] = p PROVE FALSE
  BY DEF Busy
<1>1. p # NULL
  BY DisjointAssumption DEF Places
<1>2. self[u] \in Places /\ (Owns(self[u], p) \/ p = self[u])
  BY <1>1, InFlight
<1>3. self[u] = p
  BY <1>2, InPlaceOwned
<1> QED BY <1>3 DEF InUse

\* A value at rest has a context that is live and idle.
LEMMA AtRest ==
    ASSUME RustInv, NEW p \in Places, value[p] # NULL, ~InUse(p)
    PROVE  /\ ctx_ptr(p) \in Addresses /\ Owns(p, ctx_ptr(p))
           /\ Live(ctx_ptr(p)) /\ ~Busy(ctx_ptr(p))
           /\ Heaped(p) => ctx_ptr(p) \in Blocks
<1>1. ctx_ptr(p) \in Addresses /\ (Heaped(p) => ctx_ptr(p) \in Blocks)
  BY Pointer DEF RustInv
<1>2. Owns(p, ctx_ptr(p))
  BY OwnsUnused
<1>3. ctx[ctx_ptr(p)] # NULL
  BY <1>1, <1>2 DEF RustInv, Ownership
<1>4. ~Leaving(p)
  BY DEF Leaving, InUse
<1>5. ~ctx[ctx_ptr(p)].spent
  BY <1>1, <1>2, <1>4 DEF RustInv, Ownership
<1>6. ~Busy(ctx_ptr(p))
  BY <1>1, <1>2, NotBusy DEF InUse
<1> QED BY <1>1, <1>2, <1>3, <1>5, <1>6 DEF Live

\* A value that has just been finalized still has its context.
LEMMA AfterFinalize ==
    ASSUME RustInv, NEW t \in Threads, Returned(t, "finalize")
    PROVE  /\ self[t] \in Places /\ value[self[t]] # NULL
           /\ \A c : Owns(self[t], c) <=> c = ctx_ptr(self[t])
           /\ ctx_ptr(self[t]) \in Addresses /\ ctx[ctx_ptr(self[t])] # NULL
           /\ ~Busy(ctx_ptr(self[t]))
           /\ Heaped(self[t]) => ctx_ptr(self[t]) \in Blocks
<1>1. method[t] = "finalize" /\ pc[t] = "idle"
  BY DEF Returned
<1>2. PICK p \in Places : p = self[t] /\ p # NULL
  BY <1>1, NullAssumption, DisjointAssumption DEF RustInv, RustTypeOK, Methods, Places
<1>3. value[p] # NULL
  BY <1>1, <1>2 DEF RustInv, Methodical, InMethod
<1>4. ctx_ptr(p) \in Addresses /\ (Heaped(p) => ctx_ptr(p) \in Blocks)
  BY <1>3, Pointer DEF RustInv
<1>5. \A c : Owns(p, c) <=> c = ctx_ptr(p)
  <2>1. \A c : Owns(p, c) <=> Held(t, p, c)
    BY <1>2, OwnsUsed DEF RustInv, Methodical
  <2> QED BY <1>1, <1>3, <2>1 DEF Held
<1>6. ctx[ctx_ptr(p)] # NULL
  BY <1>4, <1>5 DEF RustInv, Ownership
<1>7. \A u \in Threads : self[u] = p => pc[u] = "idle"
  BY <1>1, <1>2 DEF RustInv, Methodical, Apart
<1>8. ~Busy(ctx_ptr(p))
  BY <1>4, <1>5, <1>7, NotBusy
<1> QED BY <1>2, <1>3, <1>4, <1>5, <1>6, <1>8

\* A place without a value, or whose value has its context elsewhere or not
\* yet, is no context.
LEMMA NoContext ==
    ASSUME RustInv, NEW p \in Places, ~Backed(p) \/ Heaped(p)
    PROVE  ctx[p] = NULL
<1>1. p \in Addresses
  BY DEF Places, Addresses
<1> QED BY <1>1, InPlaceOwned DEF RustInv, Ownership

-----------------------------------------------------------------------------
(* The steps *)

\* Thread t goes to method m at place s.
GoesTo(t, m, s) ==
    /\ method' = [method EXCEPT ![t] = m]
    /\ self' = [self EXCEPT ![t] = s]

\* No value changes but the one at p.
ChangesAt(p) ==
    /\ value' \in [Places -> Hashers \cup {NULL}]
    /\ \A q \in Places : q # p => value'[q] = value[q]

\* Thread t, at the value at p or going to it, stays with that value.
LEMMA Shape ==
    ASSUME RustTypeOK, Methodical, TypeOK', NEW t \in Threads, OthersWait(t),
           NEW m \in Methods \cup {NULL}, NEW s \in Places \cup {NULL},
           s = NULL <=> m \in {NULL, "hash"},
           GoesTo(t, m, s),
           NEW p \in Places \cup {NULL}, self[t] \in {p, NULL}, s \in {p, NULL},
           self[t] = NULL /\ p # NULL => ~InUse(p), ChangesAt(p)
    PROVE  /\ Alone(t, p) /\ RustTypeOK' /\ method'[t] = m /\ self'[t] = s
<1>1. /\ method'[t] = m /\ self'[t] = s
      /\ \A u \in Threads : u # t => method'[u] = method[u] /\ self'[u] = self[u]
  BY DEF RustTypeOK, GoesTo
<1>2. RustTypeOK'
  <2>1. method' \in [Threads -> Methods \cup {NULL}] /\ self' \in [Threads -> Places \cup {NULL}]
    BY DEF RustTypeOK, GoesTo
  <2>2. \A u \in Threads : self'[u] = NULL <=> method'[u] \in {NULL, "hash"}
    BY <1>1 DEF RustTypeOK
  <2>3. Places' = Places /\ Hashers' = Hashers /\ Methods' = Methods
    BY DEF Places, Hashers, Methods
  <2> QED BY <2>1, <2>2, <2>3 DEF RustTypeOK, ChangesAt
<1>3. p # NULL => \A u \in Threads : u # t => self[u] # p
  BY DEF InUse, Methodical, Apart
<1> QED BY <1>1, <1>2, <1>3 DEF Alone, ChangesAt

\* A method makes a C call, its first or another one.
LEMMA CallStarts ==
    ASSUME RustInv, UNCHANGED CpuHasAesni, NEW t \in Threads,
           NEW p \in Places \cup {NULL}, NEW m \in Methods, p = NULL <=> m = "hash",
           GoesTo(t, m, p), ChangesAt(p), self[t] \in {p, NULL},
           self[t] = NULL /\ p # NULL => ~InUse(p),
           NEW f \in {"hash", "new", "update", "finalize", "free", "init_in"},
           NEW c \in Addresses \cup {NULL}, Enter(t, f, c), c # NULL => ~Busy(c),
           f \in {"update", "finalize", "free"} => c # NULL /\ ctx[c] # NULL,
           f = "free" => c \in Blocks,
           f = "init_in" => c \in Places /\ ctx[c] = NULL
    PROVE  /\ DispatchInv' /\ HeapInv' /\ RustTypeOK' /\ Alone(t, p)
           /\ method'[t] = m /\ self'[t] = p
           /\ pc'[t] # "idle" /\ op'[t] = f /\ arg'[t] = c
           /\ \A a \in Addresses : Untouched(a)
<1>1. /\ DispatchInv' /\ HeapInv' /\ OthersWait(t)
      /\ pc'[t] # "idle" /\ op'[t] = f /\ arg'[t] = c
      /\ \A a \in Addresses : Untouched(a)
  BY EnterKeeps DEF RustInv
<1>2. Alone(t, p) /\ RustTypeOK' /\ method'[t] = m /\ self'[t] = p
  <2>1. TypeOK'
    BY <1>1 DEF DispatchInv
  <2>2. p = NULL <=> m \in {NULL, "hash"}
    BY NullAssumption
  <2> QED BY <1>1, <2>1, <2>2, Shape DEF RustInv
<1> QED BY <1>1, <1>2

\* A method returns or panics once its last C call has returned.
LEMMA MethodEnds ==
    ASSUME RustInv, UNCHANGED <<CpuHasAesni, apiVars>>, NEW t \in Threads,
           NEW p \in Places \cup {NULL}, self[t] = p, pc[t] = "idle",
           GoesTo(t, NULL, NULL), ChangesAt(p)
    PROVE  /\ DispatchInv' /\ HeapInv' /\ RustTypeOK' /\ Alone(t, p) /\ InMethod(t)'
           /\ method'[t] = NULL /\ self'[t] = NULL /\ ctx' = ctx
           /\ \A a \in Addresses : Untouched(a)
<1>1. /\ DispatchInv' /\ HeapInv' /\ OthersWait(t) /\ pc' = pc /\ ctx' = ctx
      /\ \A a \in Addresses : Untouched(a)
  BY QuietKeeps DEF RustInv
<1>2. Alone(t, p) /\ RustTypeOK' /\ method'[t] = NULL /\ self'[t] = NULL
  <2>1. TypeOK'
    BY <1>1 DEF DispatchInv
  <2>2. NULL \in Methods \cup {NULL} /\ NULL \in Places \cup {NULL}
    OBVIOUS
  <2>3. self[t] \in {p, NULL} /\ NULL \in {p, NULL}
    OBVIOUS
  <2>4. self[t] = NULL /\ p # NULL => ~InUse(p)
    OBVIOUS
  <2> QED BY <1>1, <2>1, <2>2, <2>3, <2>4, Shape DEF RustInv
<1>3. InMethod(t)'
  BY <1>1, <1>2, NullAssumption DEF InMethod, Methods
<1> QED BY <1>1, <1>2, <1>3

\* The value a method works on.
LEMMA AtWork ==
    ASSUME RustInv, NEW t \in Threads, method[t] \notin {NULL, "hash"}
    PROVE  \E p \in Places :
              /\ p = self[t] /\ p # NULL
              /\ \A c : Owns(p, c) <=> Held(t, p, c)
              /\ method[t] # "drop" /\ ~(method[t] = "finalize" /\ pc[t] = "idle") =>
                    ~Leaving(p)
<1>1. PICK p \in Places : p = self[t] /\ p # NULL
  BY DisjointAssumption DEF RustInv, RustTypeOK, Places
<1>2. \A c : Owns(p, c) <=> Held(t, p, c)
  BY <1>1, OwnsUsed DEF RustInv, Methodical
<1>3. \A u \in Threads : self[u] = p <=> u = t
  BY <1>1 DEF RustInv, Methodical, Apart
<1>4. method[t] # "drop" /\ ~(method[t] = "finalize" /\ pc[t] = "idle") => ~Leaving(p)
  BY <1>3 DEF Leaving
<1> QED BY <1>1, <1>2, <1>4

\* hash, hash_seeded and impl_name work on no value.
LEMMA HashKeeps ==
    ASSUME RustInv, UNCHANGED CpuHasAesni, NEW t \in Threads, Hash(t) \/ HashReturns(t)
    PROVE  RustInv'
<1>1. method[t] \in {NULL, "hash"} => self[t] = NULL
  BY DEF RustInv, RustTypeOK
<1>2. value' = value /\ ChangesAt(NULL)
  BY DEF Hash, HashReturns, ChangesAt, RustInv, RustTypeOK
<1>3. CASE Hash(t)
  <2>1. method[t] = NULL /\ Enter(t, "hash", NULL) /\ GoesTo(t, "hash", NULL)
    BY <1>3 DEF Hash, Begin, GoesTo
  <2>2. /\ DispatchInv' /\ HeapInv' /\ RustTypeOK' /\ Alone(t, NULL)
        /\ method'[t] = "hash" /\ self'[t] = NULL
        /\ pc'[t] # "idle" /\ op'[t] = "hash" /\ arg'[t] = NULL
        /\ \A a \in Addresses : Untouched(a)
    BY <1>1, <1>2, <2>1, CallStarts DEF Methods
  <2>3. InMethod(t)'
    BY <2>2, NullAssumption DEF InMethod, Methods
  <2> QED BY <2>2, <2>3, NoValue
<1>4. CASE HashReturns(t)
  <2>1. /\ self[t] = NULL /\ pc[t] = "idle" /\ UNCHANGED apiVars /\ GoesTo(t, NULL, NULL)
    BY <1>1, <1>4 DEF HashReturns, Returned, End, GoesTo
  <2>2. /\ DispatchInv' /\ HeapInv' /\ RustTypeOK' /\ Alone(t, NULL) /\ InMethod(t)'
        /\ \A a \in Addresses : Untouched(a)
    BY <1>2, <2>1, MethodEnds
  <2> QED BY <2>2, NoValue
<1> QED BY <1>3, <1>4

\* Hasher::new calls river5_new before there is a value.
LEMMA HasherNewKeeps ==
    ASSUME RustInv, UNCHANGED CpuHasAesni, NEW t \in Threads, NEW p \in Places,
           HasherNew(t, p)
    PROVE  RustInv'
<1>1. /\ value[p] = NULL /\ ~InUse(p) /\ method[t] = NULL /\ value' = value
      /\ Enter(t, "new", NULL) /\ GoesTo(t, "Hasher::new", p) /\ p # NULL
  BY DisjointAssumption DEF HasherNew, Begin, GoesTo, Places
<1>2. self[t] = NULL /\ ChangesAt(p)
  BY <1>1 DEF ChangesAt, RustInv, RustTypeOK
<1>3. /\ DispatchInv' /\ HeapInv' /\ RustTypeOK' /\ Alone(t, p)
      /\ method'[t] = "Hasher::new" /\ self'[t] = p
      /\ pc'[t] # "idle" /\ op'[t] = "new" /\ arg'[t] = NULL
      /\ \A a \in Addresses : Untouched(a)
  BY <1>1, <1>2, CallStarts DEF Methods
<1>4. InMethod(t)'
  BY <1>1, <1>3, NullAssumption DEF InMethod, Methods
<1>5. \A c : ~Owns(p, c)
  BY <1>1, OwnsUnused
<1>6. \A c : ~Owns(p, c)'
  BY <1>1, <1>3, OwnsNext DEF Held
<1> QED BY <1>3, <1>4, <1>5, <1>6, OneValue

\* expect() lets no value without a context come into being.
LEMMA HasherNewReturnsKeeps ==
    ASSUME RustInv, UNCHANGED CpuHasAesni, NEW t \in Threads, HasherNewReturns(t)
    PROVE  RustInv'
<1> DEFINE x == [type |-> "Hasher", backing |-> result[t]]
<1>1. /\ method[t] = "Hasher::new" /\ pc[t] = "idle" /\ UNCHANGED apiVars
      /\ value' = IF result[t] = NULL THEN value ELSE [value EXCEPT ![self[t]] = x]
      /\ GoesTo(t, NULL, NULL)
  BY DEF HasherNewReturns, Returned, End, GoesTo
<1>2. PICK p \in Places : /\ p = self[t] /\ p # NULL /\ ~Leaving(p)
                          /\ \A c : Owns(p, c) <=> Held(t, p, c)
  BY <1>1, AtWork, NullAssumption DEF Methods
<1>3. value[p] = NULL /\ result[t] \in Blocks \cup {NULL}
  BY <1>1, <1>2 DEF RustInv, Methodical, InMethod
<1>4. result[t] # NULL => x \in Hashers /\ x # NULL
  BY <1>3, NullAssumption DEF Hashers
<1>5. ChangesAt(p) /\ value'[p] = IF result[t] = NULL THEN NULL ELSE x
  BY <1>1, <1>2, <1>3, <1>4 DEF ChangesAt, RustInv, RustTypeOK
<1>6. /\ DispatchInv' /\ HeapInv' /\ RustTypeOK' /\ Alone(t, p) /\ InMethod(t)'
      /\ method'[t] = NULL /\ self'[t] = NULL /\ ctx' = ctx
      /\ \A a \in Addresses : Untouched(a)
  BY <1>1, <1>2, <1>5, MethodEnds
<1>7. \A c : Owns(p, c) <=> result[t] # NULL /\ c = result[t]
  BY <1>1, <1>2, <1>3 DEF Held
<1>8. \A c : Owns(p, c)' <=> result[t] # NULL /\ c = result[t]
  <2>1. result[t] # NULL => ctx_ptr(p)' = result[t]
    BY <1>3, <1>5, NullAssumption DEF ctx_ptr
  <2>2. \A c : Owns(p, c)' <=> value'[p] # NULL /\ c = ctx_ptr(p)'
    BY <1>2, <1>6, OwnsNext
  <2> QED BY <1>4, <1>5, <2>1, <2>2
<1>9. \A c \in Addresses : Owns(p, c) => ctx[c] # NULL /\ ~ctx[c].spent
  BY <1>2 DEF RustInv, Ownership
<1> HIDE DEF x
<1> QED BY <1>6, <1>7, <1>8, <1>9, OneValue

\* StackHasher's constructor marks the value InPlace before it has a context.
LEMMA StackHasherNewKeeps ==
    ASSUME RustInv, UNCHANGED CpuHasAesni, NEW t \in Threads, NEW p \in Places,
           StackHasherNew(t, p)
    PROVE  RustInv'
<1> DEFINE x == [type |-> "StackHasher", backing |-> "InPlace"]
<1>1. /\ value[p] = NULL /\ ~InUse(p) /\ method[t] = NULL
      /\ value' = [value EXCEPT ![p] = x]
      /\ Enter(t, "init_in", p) /\ GoesTo(t, "init_in", p) /\ p # NULL /\ p \in Addresses
  BY DisjointAssumption DEF StackHasherNew, Begin, GoesTo, Places, Addresses
<1>2. ctx[p] = NULL /\ ~Busy(p)
  BY <1>1, NoContext, PlaceNotBusy DEF Backed
<1>3. x \in Hashers /\ x # NULL
  BY NullAssumption DEF Hashers
<1>4. ChangesAt(p) /\ value'[p] = x /\ self[t] = NULL
  BY <1>1, <1>3 DEF ChangesAt, RustInv, RustTypeOK
<1>5. /\ DispatchInv' /\ HeapInv' /\ RustTypeOK' /\ Alone(t, p)
      /\ method'[t] = "init_in" /\ self'[t] = p
      /\ pc'[t] # "idle" /\ op'[t] = "init_in" /\ arg'[t] = p
      /\ \A a \in Addresses : Untouched(a)
  BY <1>1, <1>2, <1>4, CallStarts DEF Methods
<1>6. InMethod(t)'
  BY <1>4, <1>5, NullAssumption DEF InMethod, Methods
<1>7. \A c : ~Owns(p, c)
  BY <1>1, OwnsUnused
<1>8. \A c : ~Owns(p, c)'
  BY <1>1, <1>5, OwnsNext DEF Held
<1> HIDE DEF x
<1> QED BY <1>5, <1>6, <1>7, <1>8, OneValue

\* The bytes of the value are its context, or the fallback is taken.
LEMMA InitReturnsKeeps ==
    ASSUME RustInv, UNCHANGED CpuHasAesni, NEW t \in Threads, InPlace(t) \/ Fallback(t)
    PROVE  RustInv'
<1>1. method[t] = "init_in" /\ pc[t] = "idle" /\ value' = value
  BY DEF InPlace, Fallback, Returned
<1>2. PICK p \in Places : /\ p = self[t] /\ p # NULL /\ ~Leaving(p)
                          /\ \A c : Owns(p, c) <=> Held(t, p, c)
  BY <1>1, AtWork, NullAssumption DEF Methods
<1>3. /\ value[p] = [type |-> "StackHasher", backing |-> "InPlace"]
      /\ result[t] \in {NULL, p}
  BY <1>1, <1>2 DEF RustInv, Methodical, InMethod
<1>4. value[p] # NULL /\ ctx_ptr(p) = p /\ ctx_ptr(p)' = p /\ ChangesAt(p)
  BY <1>1, <1>3, NullAssumption DEF Hashers, ctx_ptr, ChangesAt, RustInv, RustTypeOK
<1>5. \A c : Owns(p, c) <=> result[t] # NULL /\ c = p
  BY <1>1, <1>2, <1>4 DEF Held
<1>6. \A c \in Addresses : Owns(p, c) => ctx[c] # NULL /\ ~ctx[c].spent
  BY <1>2 DEF RustInv, Ownership
<1>7. CASE InPlace(t)
  <2>1. result[t] # NULL /\ UNCHANGED apiVars /\ GoesTo(t, NULL, NULL)
    BY <1>7 DEF InPlace, End, GoesTo
  <2>2. /\ DispatchInv' /\ HeapInv' /\ RustTypeOK' /\ Alone(t, p) /\ InMethod(t)'
        /\ method'[t] = NULL /\ self'[t] = NULL /\ ctx' = ctx
        /\ \A a \in Addresses : Untouched(a)
    BY <1>1, <1>2, <1>4, <2>1, MethodEnds
  <2>3. \A c : Owns(p, c)' <=> c = p
    BY <1>1, <1>2, <1>4, <2>2, OwnsNext
  <2> QED BY <1>5, <1>6, <2>1, <2>2, <2>3, OneValue
<1>8. CASE Fallback(t)
  <2>1. result[t] = NULL /\ Enter(t, "new", NULL) /\ GoesTo(t, "fallback", p)
    BY <1>2, <1>8 DEF Fallback, Continue, GoesTo, RustInv, RustTypeOK
  <2>2. /\ DispatchInv' /\ HeapInv' /\ RustTypeOK' /\ Alone(t, p)
        /\ method'[t] = "fallback" /\ self'[t] = p
        /\ pc'[t] # "idle" /\ op'[t] = "new" /\ arg'[t] = NULL
        /\ \A a \in Addresses : Untouched(a)
    BY <1>2, <1>4, <2>1, CallStarts DEF Methods
  <2>3. InMethod(t)'
    BY <1>1, <1>3, <2>2, NullAssumption DEF InMethod, Methods
  <2>4. \A c : ~Owns(p, c)'
    BY <1>2, <2>2, OwnsNext DEF Held
  <2> QED BY <1>5, <2>1, <2>2, <2>3, <2>4, OneValue
<1> QED BY <1>7, <1>8

\* The fallback's context is owned by the value, or there is neither.
LEMMA FallbackReturnsKeeps ==
    ASSUME RustInv, UNCHANGED CpuHasAesni, NEW t \in Threads, FallbackReturns(t)
    PROVE  RustInv'
<1> DEFINE x == [type |-> "StackHasher", backing |-> result[t]]
<1>1. /\ method[t] = "fallback" /\ pc[t] = "idle" /\ UNCHANGED apiVars
      /\ GoesTo(t, NULL, NULL)
  BY DEF FallbackReturns, Returned, End, GoesTo
<1>2. PICK p \in Places : /\ p = self[t] /\ p # NULL /\ ~Leaving(p)
                          /\ \A c : Owns(p, c) <=> Held(t, p, c)
  BY <1>1, AtWork, NullAssumption DEF Methods
<1>3. /\ value[p] = [type |-> "StackHasher", backing |-> "InPlace"]
      /\ result[t] \in Blocks \cup {NULL}
  BY <1>1, <1>2 DEF RustInv, Methodical, InMethod
<1>4. result[t] # NULL => x \in Hashers /\ x # NULL
  BY <1>3, NullAssumption DEF Hashers
<1>5. value' = [value EXCEPT ![p] = IF result[t] = NULL THEN NULL ELSE x]
  <2>1. value' = [value EXCEPT ![p] =
                    IF result[t] = NULL THEN NULL ELSE [value[p] EXCEPT !.backing = result[t]]]
    BY <1>2 DEF FallbackReturns, RustInv, RustTypeOK
  <2>2. [value[p] EXCEPT !.backing = result[t]] = x
    BY <1>3
  <2> QED BY <2>1, <2>2
<1>6. ChangesAt(p) /\ value'[p] = IF result[t] = NULL THEN NULL ELSE x
  BY <1>2, <1>4, <1>5 DEF ChangesAt, RustInv, RustTypeOK
<1>7. /\ DispatchInv' /\ HeapInv' /\ RustTypeOK' /\ Alone(t, p) /\ InMethod(t)'
      /\ method'[t] = NULL /\ self'[t] = NULL /\ ctx' = ctx
      /\ \A a \in Addresses : Untouched(a)
  BY <1>1, <1>2, <1>6, MethodEnds
<1>8. \A c : Owns(p, c) <=> result[t] # NULL /\ c = result[t]
  BY <1>1, <1>2, <1>3 DEF Held
<1>9. \A c : Owns(p, c)' <=> result[t] # NULL /\ c = result[t]
  <2>1. result[t] # NULL => ctx_ptr(p)' = result[t]
    BY <1>3, <1>6, NullAssumption DEF ctx_ptr
  <2>2. \A c : Owns(p, c)' <=> value'[p] # NULL /\ c = ctx_ptr(p)'
    BY <1>2, <1>7, OwnsNext
  <2> QED BY <1>4, <1>6, <2>1, <2>2
<1>10. \A c \in Addresses : Owns(p, c) => ctx[c] # NULL /\ ~ctx[c].spent
  BY <1>2 DEF RustInv, Ownership
<1> HIDE DEF x
<1> QED BY <1>7, <1>8, <1>9, <1>10, OneValue

\* A method on a value at rest takes the context that is its own.
LEMMA UseKeeps ==
    ASSUME RustInv, UNCHANGED CpuHasAesni, NEW t \in Threads, NEW p \in Places,
           HasherUpdate(t, p) \/ HasherFinalize(t, p) \/ HasherDrop(t, p)
    PROVE  RustInv'
<1>1. /\ value[p] # NULL /\ ~InUse(p) /\ value' = value /\ p # NULL /\ method[t] = NULL
      /\ HasherDrop(t, p) => Heaped(p)
  BY DisjointAssumption DEF HasherUpdate, HasherFinalize, HasherDrop, Begin, Places
<1>2. PICK m \in {"update", "finalize", "drop"} :
         /\ GoesTo(t, m, p)
         /\ Enter(t, IF m = "drop" THEN "free" ELSE m, ctx_ptr(p))
         /\ m = "drop" => Heaped(p)
  <2>1. CASE HasherUpdate(t, p)
    BY <2>1 DEF HasherUpdate, Begin, GoesTo
  <2>2. CASE HasherFinalize(t, p)
    BY <2>2 DEF HasherFinalize, Begin, GoesTo
  <2>3. CASE HasherDrop(t, p)
    BY <2>3 DEF HasherDrop, Begin, GoesTo
  <2> QED BY <2>1, <2>2, <2>3
<1> DEFINE f == IF m = "drop" THEN "free" ELSE m
<1>3. /\ ctx_ptr(p) \in Addresses /\ Owns(p, ctx_ptr(p)) /\ Live(ctx_ptr(p))
      /\ ~Busy(ctx_ptr(p)) /\ (Heaped(p) => ctx_ptr(p) \in Blocks)
  BY <1>1, AtRest
<1>4. ChangesAt(p) /\ self[t] = NULL /\ ctx_ptr(p)' = ctx_ptr(p)
  BY <1>1 DEF ChangesAt, RustInv, RustTypeOK, ctx_ptr
<1>5. /\ DispatchInv' /\ HeapInv' /\ RustTypeOK' /\ Alone(t, p)
      /\ method'[t] = m /\ self'[t] = p
      /\ pc'[t] # "idle" /\ op'[t] = f /\ arg'[t] = ctx_ptr(p)
      /\ \A a \in Addresses : Untouched(a)
  <2>1. m \in Methods /\ (p = NULL <=> m = "hash")
    BY <1>1 DEF Methods
  <2>2. /\ f \in {"hash", "new", "update", "finalize", "free", "init_in"}
        /\ f = "free" => m = "drop"
        /\ f # "init_in"
    OBVIOUS
  <2>3. Enter(t, f, ctx_ptr(p))
    BY <1>2
  <2> HIDE DEF f
  <2>4. f = "free" => ctx_ptr(p) \in Blocks
    BY <1>2, <1>3, <2>2
  <2>5. ctx_ptr(p) # NULL /\ ctx[ctx_ptr(p)] # NULL
    BY <1>3, HeapTypes DEF Live, RustInv
  <2>6. /\ ctx_ptr(p) \in Addresses \cup {NULL} /\ ~Busy(ctx_ptr(p))
        /\ self[t] \in {p, NULL} /\ p \in Places \cup {NULL}
    BY <1>3, <1>4
  <2> QED BY <1>1, <1>2, <1>4, <2>1, <2>2, <2>3, <2>4, <2>5, <2>6, CallStarts
<1>6. InMethod(t)'
  <2>1. m = "drop" => Heaped(p)'
    BY <1>1, <1>2 DEF Heaped
  <2> QED BY <1>1, <1>4, <1>5, <2>1, NullAssumption DEF InMethod, Methods
<1>7. \A c : Owns(p, c) <=> c = ctx_ptr(p)
  BY <1>1, OwnsUnused
<1>8. \A c : Owns(p, c)' <=> c = ctx_ptr(p)
  BY <1>1, <1>4, <1>5, OwnsNext DEF Held
<1>9. ctx[ctx_ptr(p)] # NULL /\ ctx'[ctx_ptr(p)] # NULL /\ ~ctx'[ctx_ptr(p)].spent
  BY <1>3, <1>5 DEF Live, Untouched
<1> QED BY <1>5, <1>6, <1>7, <1>8, <1>9, OneValue

\* update leaves the value what it was.
LEMMA HasherUpdateReturnsKeeps ==
    ASSUME RustInv, UNCHANGED CpuHasAesni, NEW t \in Threads, HasherUpdateReturns(t)
    PROVE  RustInv'
<1>1. /\ method[t] = "update" /\ pc[t] = "idle" /\ UNCHANGED apiVars /\ value' = value
      /\ GoesTo(t, NULL, NULL)
  BY DEF HasherUpdateReturns, Returned, End, GoesTo
<1>2. PICK p \in Places : /\ p = self[t] /\ p # NULL /\ ~Leaving(p)
                          /\ \A c : Owns(p, c) <=> Held(t, p, c)
  BY <1>1, AtWork, NullAssumption DEF Methods
<1>3. value[p] # NULL /\ ctx_ptr(p)' = ctx_ptr(p) /\ ChangesAt(p)
  BY <1>1, <1>2 DEF RustInv, RustTypeOK, Methodical, InMethod, ctx_ptr, ChangesAt
<1>4. /\ DispatchInv' /\ HeapInv' /\ RustTypeOK' /\ Alone(t, p) /\ InMethod(t)'
      /\ method'[t] = NULL /\ self'[t] = NULL /\ ctx' = ctx
      /\ \A a \in Addresses : Untouched(a)
  BY <1>1, <1>2, <1>3, MethodEnds
<1>5. \A c : Owns(p, c) <=> c = ctx_ptr(p)
  BY <1>1, <1>2, <1>3 DEF Held
<1>6. \A c : Owns(p, c)' <=> c = ctx_ptr(p)
  BY <1>1, <1>2, <1>3, <1>4, OwnsNext
<1>7. \A c \in Addresses : Owns(p, c) => ctx[c] # NULL /\ ~ctx[c].spent
  BY <1>2 DEF RustInv, Ownership
<1> QED BY <1>4, <1>5, <1>6, <1>7, OneValue

\* Once its context is freed the value is gone.
LEMMA HasherDropReturnsKeeps ==
    ASSUME RustInv, UNCHANGED CpuHasAesni, NEW t \in Threads, HasherDropReturns(t)
    PROVE  RustInv'
<1>1. /\ method[t] = "drop" /\ pc[t] = "idle" /\ UNCHANGED apiVars
      /\ value' = [value EXCEPT ![self[t]] = NULL] /\ GoesTo(t, NULL, NULL)
  BY DEF HasherDropReturns, Returned, End, GoesTo
<1>2. PICK p \in Places : /\ p = self[t] /\ p # NULL
                          /\ \A c : Owns(p, c) <=> Held(t, p, c)
  BY <1>1, AtWork, NullAssumption DEF Methods
<1>3. ChangesAt(p) /\ value'[p] = NULL
  BY <1>1, <1>2 DEF RustInv, RustTypeOK, ChangesAt
<1>4. /\ DispatchInv' /\ HeapInv' /\ RustTypeOK' /\ Alone(t, p) /\ InMethod(t)'
      /\ method'[t] = NULL /\ self'[t] = NULL /\ ctx' = ctx
      /\ \A a \in Addresses : Untouched(a)
  BY <1>1, <1>2, <1>3, MethodEnds
<1>5. \A c : ~Owns(p, c)
  BY <1>1, <1>2 DEF Held
<1>6. \A c : ~Owns(p, c)'
  BY <1>2, <1>3, <1>4, OwnsNext
<1> QED BY <1>4, <1>5, <1>6, OneValue

\* The context of a value ends with it when it lies in the value's own bytes.
LEMMA VanishKeeps ==
    ASSUME RustInv, UNCHANGED CpuHasAesni, NEW p \in Places, Vanish(p), ~Busy(p)
    PROVE  /\ DispatchInv' /\ HeapInv' /\ ctx'[p] = NULL
           /\ \A c \in Addresses : c # p => ctx'[c] = ctx[c]
           /\ \A t : OthersWait(t)
           /\ ChangesAt(p) /\ value'[p] = NULL /\ UNCHANGED <<pc, result>>
<1>1. /\ ctx' = [ctx EXCEPT ![p] = NULL] /\ value' = [value EXCEPT ![p] = NULL]
      /\ UNCHANGED <<cached, knows, pc, op, arg, v, block, result, heap, served>>
  BY DEF Vanish
<1>2. ctx \in [Addresses -> Contexts \cup {NULL}] /\ p \in Addresses
  BY HeapTypes DEF RustInv, Places, Addresses
<1>3. /\ ctx' \in [Addresses -> Contexts \cup {NULL}] /\ ctx'[p] = NULL
      /\ \A c \in Addresses : c # p => ctx'[c] = ctx[c]
  BY <1>1, <1>2
<1>4. DispatchInv' /\ HeapInv'
  <2>1. PICK S : S = {p} /\ S \in SUBSET Storages
    BY DEF Places
  <2>2. /\ \A t \in Threads : pc[t] # "idle" => arg[t] \notin S
        /\ \A c \in Addresses : c \notin S => ctx'[c] = ctx[c]
        /\ \A s \in S : ctx'[s] = NULL \/ \E r \in S : ctx'[s] = ctx[r]
    BY <1>3, <2>1 DEF Busy
  <2> QED BY <1>1, <1>3, <2>1, <2>2, StoragesChange DEF RustInv
<1>5. ChangesAt(p) /\ value'[p] = NULL
  BY <1>1 DEF ChangesAt, RustInv, RustTypeOK
<1> QED BY <1>1, <1>3, <1>4, <1>5 DEF OthersWait

\* A finalized value gives back its block, or ends with its context.
LEMMA HasherFinalizeReturnsKeeps ==
    ASSUME RustInv, UNCHANGED CpuHasAesni, NEW t \in Threads, HasherFinalizeReturns(t)
    PROVE  RustInv'
<1>1. Returned(t, "finalize") /\ method[t] = "finalize" /\ pc[t] = "idle"
  BY DEF HasherFinalizeReturns, Returned
<1>2. PICK p \in Places : p = self[t] /\ p # NULL
  BY <1>1, AfterFinalize, DisjointAssumption DEF Places
<1>3. /\ value[p] # NULL /\ (\A c : Owns(p, c) <=> c = ctx_ptr(p))
      /\ ctx_ptr(p) \in Addresses /\ ctx[ctx_ptr(p)] # NULL /\ ~Busy(ctx_ptr(p))
      /\ Heaped(p) => ctx_ptr(p) \in Blocks
  BY <1>1, <1>2, AfterFinalize
<1>4. CASE Heaped(p)
  <2>1. Enter(t, "free", ctx_ptr(p)) /\ value' = value /\ GoesTo(t, "drop", p)
    BY <1>2, <1>4 DEF HasherFinalizeReturns, Continue, GoesTo, RustInv, RustTypeOK
  <2>2. ChangesAt(p) /\ ctx_ptr(p)' = ctx_ptr(p) /\ Heaped(p)'
    BY <1>4, <2>1 DEF ChangesAt, ctx_ptr, Heaped, RustInv, RustTypeOK
  <2>3. /\ DispatchInv' /\ HeapInv' /\ RustTypeOK' /\ Alone(t, p)
        /\ method'[t] = "drop" /\ self'[t] = p
        /\ pc'[t] # "idle" /\ op'[t] = "free" /\ arg'[t] = ctx_ptr(p)
        /\ \A a \in Addresses : Untouched(a)
    <3>1. "drop" \in Methods /\ (p = NULL <=> "drop" = "hash") /\ ctx_ptr(p) # NULL
      BY <1>2, <1>3, HeapTypes DEF Methods, RustInv
    <3> QED BY <1>2, <1>3, <1>4, <2>1, <2>2, <3>1, CallStarts
  <2>4. InMethod(t)'
    BY <1>3, <2>1, <2>2, <2>3, NullAssumption DEF InMethod, Methods
  <2>5. (\A c : Owns(p, c)' <=> c = ctx_ptr(p)) /\ Leaving(p)'
    BY <1>2, <1>3, <2>1, <2>2, <2>3, OwnsNext DEF Held
  <2>6. ctx'[ctx_ptr(p)] # NULL
    BY <1>3, <2>3 DEF Untouched
  <2> QED BY <1>3, <2>3, <2>4, <2>5, <2>6, OneValue
<1>5. CASE ~Heaped(p)
  <2>1. Vanish(p) /\ GoesTo(t, NULL, NULL)
    BY <1>2, <1>5 DEF HasherFinalizeReturns, End, GoesTo
  <2>2. ctx_ptr(p) = p
    BY <1>3, <1>5, Pointer DEF RustInv
  <2>3. /\ DispatchInv' /\ HeapInv' /\ ctx'[p] = NULL
        /\ \A c \in Addresses : c # p => ctx'[c] = ctx[c]
        /\ OthersWait(t) /\ ChangesAt(p) /\ value'[p] = NULL /\ pc' = pc
    BY <1>3, <2>1, <2>2, VanishKeeps
  <2>4. Alone(t, p) /\ RustTypeOK' /\ method'[t] = NULL /\ self'[t] = NULL
    <3>1. TypeOK'
      BY <2>3 DEF DispatchInv
    <3>2. NULL \in Methods \cup {NULL} /\ NULL \in Places \cup {NULL} /\ p \in Places \cup {NULL}
      OBVIOUS
    <3>3. /\ self[t] \in {p, NULL} /\ NULL \in {p, NULL}
          /\ self[t] = NULL /\ p # NULL => ~InUse(p)
      BY <1>2
    <3> QED BY <2>1, <2>3, <3>1, <3>2, <3>3, Shape DEF RustInv
  <2>5. InMethod(t)'
    BY <1>1, <2>3, <2>4, NullAssumption DEF InMethod, Methods
  <2>6. \A c : ~Owns(p, c)'
    BY <1>2, <2>3, <2>4, OwnsNext
  <2>7. \A c \in Addresses : Untouched(c) \/ c = p
    BY <2>3 DEF Untouched
  <2> QED BY <1>3, <2>2, <2>3, <2>4, <2>5, <2>6, <2>7, OneValue
<1> QED BY <1>4, <1>5

\* The values at the places of S, which no method works on, come and go.
LEMMA Resettled ==
    ASSUME RustTypeOK, Methodical, TypeOK', UNCHANGED <<pc, op, arg, result, method, self>>,
           value' \in [Places -> Hashers \cup {NULL}],
           NEW S \in SUBSET Places, \A s \in S : ~InUse(s),
           \A q \in Places : q \notin S => value'[q] = value[q]
    PROVE  /\ RustTypeOK' /\ Methodical'
           /\ \A q \in Places : Leaving(q)' <=> Leaving(q)
           /\ \A q \in Places : q \notin S => \A c : Owns(q, c)' <=> Owns(q, c)
           /\ \A s \in S : \A c : Owns(s, c)' <=> value'[s] # NULL /\ c = ctx_ptr(s)'
<1>1. RustTypeOK'
  BY DEF RustTypeOK, Places, Hashers, Methods
<1>2. ASSUME NEW t \in Threads PROVE InMethod(t)'
  <2>1. method[t] \notin {NULL, "hash"} => value'[self[t]] = value[self[t]]
    <3>1. method[t] \notin {NULL, "hash"} => self[t] \in Places
      BY DEF RustTypeOK
    <3> QED BY <3>1 DEF InUse
  <2>2. InMethod(t)
    BY DEF Methodical
  <2>3. method[t] = NULL \/ method[t] = "hash" => method[t] \notin Methods \ {"hash"}
    BY NullAssumption DEF Methods
  <2> QED BY <2>1, <2>2, <2>3 DEF InMethod, ctx_ptr, Heaped, Methods
<1>3. Methodical'
  BY <1>2 DEF Methodical, Apart
<1>4. \A q \in Places : Leaving(q)' <=> Leaving(q)
  BY DEF Leaving
<1>5. ASSUME NEW q \in Places, q \notin S, NEW c PROVE Owns(q, c)' <=> Owns(q, c)
  BY <1>5 DEF Owns, Backed, Receives, ctx_ptr
<1>6. ASSUME NEW s \in S, NEW c PROVE Owns(s, c)' <=> value'[s] # NULL /\ c = ctx_ptr(s)'
  BY DEF InUse, Owns, Backed, Receives
<1> QED BY <1>1, <1>3, <1>4, <1>5, <1>6

\* A StackHasher goes out of scope, and its context with it.
LEMMA DropInPlaceKeeps ==
    ASSUME RustInv, UNCHANGED CpuHasAesni, NEW p \in Places, DropInPlace(p)
    PROVE  RustInv'
<1>1. value[p] # NULL /\ ~InUse(p) /\ ~Heaped(p) /\ Vanish(p) /\ UNCHANGED <<method, self>>
  BY DEF DropInPlace
<1>2. ctx_ptr(p) = p /\ \A c : Owns(p, c) <=> c = p
  BY <1>1, Pointer, OwnsUnused DEF RustInv
<1>3. ~Busy(p)
  BY <1>1, PlaceNotBusy
<1>4. /\ DispatchInv' /\ HeapInv' /\ ctx'[p] = NULL
      /\ \A c \in Addresses : c # p => ctx'[c] = ctx[c]
      /\ ChangesAt(p) /\ value'[p] = NULL
  BY <1>1, <1>3, VanishKeeps
<1>5. /\ RustTypeOK' /\ Methodical'
      /\ \A q \in Places : Leaving(q)' <=> Leaving(q)
      /\ \A q \in Places : q # p => \A c : Owns(q, c)' <=> Owns(q, c)
      /\ \A c : ~Owns(p, c)'
  <2>1. TypeOK' /\ UNCHANGED <<pc, op, arg, result, method, self>>
    BY <1>1, <1>4 DEF DispatchInv, Vanish
  <2>2. PICK S : S = {p} /\ S \in SUBSET Places
    OBVIOUS
  <2>3. /\ value' \in [Places -> Hashers \cup {NULL}] /\ \A s \in S : ~InUse(s)
        /\ \A q \in Places : q \notin S => value'[q] = value[q]
    BY <1>1, <1>4, <2>2 DEF ChangesAt
  <2>4. /\ RustTypeOK' /\ Methodical'
        /\ \A q \in Places : Leaving(q)' <=> Leaving(q)
        /\ \A q \in Places : q \notin S => \A c : Owns(q, c)' <=> Owns(q, c)
        /\ \A s \in S : \A c : Owns(s, c)' <=> value'[s] # NULL /\ c = ctx_ptr(s)'
    BY <2>1, <2>2, <2>3, Resettled DEF RustInv
  <2> QED BY <1>4, <2>2, <2>4
<1>6. Ownership'
  <2>1. Addresses' = Addresses /\ Places' = Places
    BY DEF Addresses, Places
  <2>2. \A q \in Places, c \in Addresses : Owns(q, c)' <=> Owns(q, c) /\ c # p
    BY <1>2, <1>5 DEF RustInv, Ownership
  <2>3. \A c \in Addresses : ctx'[c] # NULL <=> ctx[c] # NULL /\ c # p
    BY <1>4
  <2>4. \A c \in Addresses : ctx'[c] # NULL <=> \E q \in Places : Owns(q, c)'
    BY <2>2, <2>3 DEF RustInv, Ownership
  <2>5. \A q \in Places, c \in Addresses : Owns(q, c)' /\ ctx'[c].spent => Leaving(q)'
    BY <1>4, <1>5, <2>2 DEF RustInv, Ownership
  <2> QED BY <2>1, <2>2, <2>4, <2>5 DEF RustInv, Ownership
<1> QED BY <1>4, <1>5, <1>6 DEF RustInv

\* A moved value finds the same context, or the copy of it in its own bytes.
LEMMA MoveKeeps ==
    ASSUME RustInv, UNCHANGED CpuHasAesni, NEW p \in Places, NEW q \in Places, Move(p, q)
    PROVE  RustInv'
<1>1. /\ value[p] # NULL /\ ~InUse(p) /\ value[q] = NULL /\ ~InUse(q) /\ p # q
      /\ value' = [value EXCEPT ![q] = value[p], ![p] = NULL]
      /\ ctx' = [ctx EXCEPT ![q] = ctx[p], ![p] = NULL]
      /\ UNCHANGED <<cached, knows, pc, op, arg, v, block, result, heap, served,
                     method, self>>
  BY DEF Move
<1>2. /\ ctx \in [Addresses -> Contexts \cup {NULL}] /\ p \in Addresses /\ q \in Addresses
      /\ value \in [Places -> Hashers \cup {NULL}]
  BY HeapTypes DEF RustInv, RustTypeOK, Places, Addresses
<1>3. /\ ctx' \in [Addresses -> Contexts \cup {NULL}] /\ ctx'[q] = ctx[p] /\ ctx'[p] = NULL
      /\ \A c \in Addresses : c \notin {p, q} => ctx'[c] = ctx[c]
  BY <1>1, <1>2
<1>4. /\ value' \in [Places -> Hashers \cup {NULL}] /\ value'[q] = value[p] /\ value'[p] = NULL
      /\ \A r \in Places : r \notin {p, q} => value'[r] = value[r]
  BY <1>1, <1>2
<1>5. PICK S : S = {p, q} /\ S \in SUBSET Places /\ S \in SUBSET Storages
  BY DEF Places
<1>6. DispatchInv' /\ HeapInv'
  <2>1. \A t \in Threads : pc[t] # "idle" => arg[t] \notin S
    BY <1>1, <1>5, PlaceNotBusy
  <2>2. /\ \A c \in Addresses : c \notin S => ctx'[c] = ctx[c]
        /\ \A s \in S : ctx'[s] = NULL \/ \E r \in S : ctx'[s] = ctx[r]
    BY <1>3, <1>5
  <2> QED BY <1>1, <1>3, <1>5, <2>1, <2>2, StoragesChange DEF RustInv
<1>7. /\ RustTypeOK' /\ Methodical'
      /\ \A r \in Places : Leaving(r)' <=> Leaving(r)
      /\ \A r \in Places : r \notin S => \A c : Owns(r, c)' <=> Owns(r, c)
      /\ \A s \in S : \A c : Owns(s, c)' <=> value'[s] # NULL /\ c = ctx_ptr(s)'
  <2>1. TypeOK' /\ \A s \in S : ~InUse(s)
    BY <1>1, <1>5, <1>6 DEF DispatchInv
  <2>2. \A r \in Places : r \notin S => value'[r] = value[r]
    BY <1>4, <1>5
  <2> QED BY <1>1, <1>4, <1>5, <2>1, <2>2, Resettled DEF RustInv
<1>8. PICK k \in Addresses :
         /\ k = ctx_ptr(p) /\ Live(k)
         /\ \A c : Owns(p, c) <=> c = k
         /\ Heaped(p) => k \in Blocks
         /\ ~Heaped(p) => k = p
  BY <1>1, AtRest, OwnsUnused, Pointer DEF RustInv
<1>9. PICK j : j = IF Heaped(p) THEN k ELSE q
  OBVIOUS
<1>10. j \in Addresses /\ (\A c : Owns(q, c)' <=> c = j) /\ \A c : ~Owns(p, c)'
  <2>1. ctx_ptr(q)' = j
    BY <1>4, <1>8, <1>9 DEF ctx_ptr, Heaped
  <2> QED BY <1>1, <1>2, <1>4, <1>5, <1>7, <1>8, <1>9, <2>1
<1>11. ctx[q] = NULL /\ (Heaped(p) => ctx[p] = NULL)
  BY <1>1, NoContext DEF Backed
<1>12. ctx'[j] # NULL /\ ~ctx'[j].spent
  <2>1. CASE Heaped(p)
    <3>1. j = k /\ j \notin {p, q}
      BY <1>8, <1>9, <2>1, DisjointAssumption DEF Places
    <3> QED BY <1>3, <1>8, <3>1 DEF Live
  <2>2. CASE ~Heaped(p)
    BY <1>3, <1>8, <1>9, <2>2 DEF Live
  <2> QED BY <2>1, <2>2
<1>13. ASSUME NEW c \in Addresses
       PROVE  ctx'[c] # NULL <=> c = j \/ (ctx[c] # NULL /\ c # k)
  <2>1. CASE Heaped(p)
    <3>1. j = k /\ j \notin {p, q}
      BY <1>8, <1>9, <2>1, DisjointAssumption DEF Places
    <3> QED BY <1>3, <1>11, <1>12, <2>1, <3>1
  <2>2. CASE ~Heaped(p)
    BY <1>1, <1>3, <1>8, <1>9, <1>11, <1>12, <2>2
  <2> QED BY <2>1, <2>2
<1>14. ASSUME NEW r \in Places, r \notin S, NEW c \in Addresses, Owns(r, c)
       PROVE  c # j /\ c # k /\ ctx[c] # NULL /\ ctx'[c] = ctx[c]
  <2>1. ctx[c] # NULL
    BY <1>14 DEF RustInv, Ownership
  <2>2. c # k
    BY <1>5, <1>8, <1>14 DEF RustInv, Ownership
  <2> QED BY <1>3, <1>8, <1>9, <1>11, <2>1, <2>2
<1>15. Ownership'
  <2>1. Addresses' = Addresses /\ Places' = Places
    BY DEF Addresses, Places
  <2>2. ASSUME NEW r \in Places, NEW c \in Addresses
        PROVE  Owns(r, c)' <=> (r = q /\ c = j) \/ (r \notin S /\ Owns(r, c))
    BY <1>1, <1>5, <1>7, <1>10
  <2>3. ASSUME NEW c \in Addresses
        PROVE  ctx'[c] # NULL <=> \E r \in Places : Owns(r, c)'
    <3>1. ctx[c] # NULL /\ c # k => \E r \in Places : r \notin S /\ Owns(r, c)
      <4>1. ~Owns(q, c)
        BY <1>1, OwnsUnused
      <4> QED BY <1>5, <1>8, <4>1 DEF RustInv, Ownership
    <3> QED BY <1>13, <1>14, <2>2, <3>1
  <2>4. ASSUME NEW r \in Places, NEW s \in Places, NEW c \in Addresses,
               Owns(r, c)', Owns(s, c)'
        PROVE  r = s
    BY <1>14, <2>2, <2>4 DEF RustInv, Ownership
  <2>5. ASSUME NEW r \in Places, NEW c \in Addresses, Owns(r, c)', ctx'[c].spent
        PROVE  Leaving(r)'
    BY <1>7, <1>12, <1>14, <2>2, <2>5 DEF RustInv, Ownership
  <2> QED BY <2>1, <2>3, <2>4, <2>5 DEF Ownership
<1> QED BY <1>6, <1>7, <1>15 DEF RustInv

\* The C side does what the method called it for, to the context of its value.
LEMMA InsideKeeps ==
    ASSUME RustInv, UNCHANGED CpuHasAesni, NEW t \in Threads, Inside(t)
    PROVE  RustInv'
<1>1. Step(t) /\ UNCHANGED <<value, method, self>>
  BY DEF Inside
<1>2. /\ pc[t] # "idle" /\ OthersWait(t) /\ (GoesOn(t) \/ Ends(t))
  BY <1>1, StepEffects DEF RustInv
<1>3. DispatchInv' /\ HeapInv' /\ RustTypeOK'
  <2>1. UNCHANGED <<CpuHasAesni, resolve_vtable>>
    BY DEF resolve_vtable
  <2>2. [Next]_vars
    BY <1>1 DEF Next
  <2>3. DispatchInv' /\ HeapInv'
    BY <2>2, DispatchNext, HeapNext DEF RustInv
  <2> QED BY <1>1, <2>3 DEF DispatchInv, RustInv, RustTypeOK, Places, Hashers, Methods
<1>4. method[t] # NULL /\ method[t] \in Methods
  BY <1>2 DEF RustInv, RustTypeOK, Methodical, InMethod
<1>5. CASE method[t] = "hash"
  <2>1. self[t] = NULL /\ op[t] = "hash" /\ arg[t] = NULL
    BY <1>2, <1>5 DEF RustInv, RustTypeOK, Methodical, InMethod
  <2>2. Alone(t, NULL)
    BY <1>1, <1>2, <2>1 DEF Alone
  <2>3. \A c \in Addresses : Untouched(c)
    BY <1>2, <2>1 DEF GoesOn, Ends
  <2>4. InMethod(t)'
    BY <1>1, <1>2, <1>5, <2>1, NullAssumption DEF InMethod, GoesOn, Ends, Methods
  <2> QED BY <1>3, <2>2, <2>3, <2>4, NoValue
<1>6. CASE method[t] # "hash"
  <2>1. PICK p \in Places :
           /\ p = self[t] /\ p # NULL
           /\ \A c : Owns(p, c) <=> Held(t, p, c)
           /\ method[t] # "drop" /\ ~(method[t] = "finalize" /\ pc[t] = "idle") => ~Leaving(p)
    BY <1>4, <1>6, AtWork
  <2>2. Alone(t, p) /\ self'[t] = p
    BY <1>1, <1>2, <2>1 DEF Alone, RustInv, Methodical, Apart
  <2>3. /\ \A c : Owns(p, c)' <=> Held(t, p, c)'
        /\ method[t] = "drop" => Leaving(p)'
        /\ method[t] = "finalize" /\ pc'[t] = "idle" => Leaving(p)'
    BY <1>1, <2>1, <2>2, OwnsNext
  <2>4. InMethod(t) /\ ctx_ptr(p)' = ctx_ptr(p) /\ value'[p] = value[p] /\ Heaped(p)' = Heaped(p)
    BY <1>1 DEF RustInv, Methodical, ctx_ptr, Heaped
  <2>5. \A c \in Addresses : Owns(p, c) => ctx[c] # NULL /\ (ctx[c].spent => Leaving(p))
    BY DEF RustInv, Ownership
  <2>6. CASE GoesOn(t)
    <3>1. /\ pc'[t] # "idle" /\ op'[t] = op[t] /\ arg'[t] = arg[t]
          /\ \A c \in Addresses : Untouched(c)
      BY <2>6 DEF GoesOn
    <3>2. InMethod(t)'
      BY <1>1, <1>2, <1>4, <2>1, <2>2, <2>4, <3>1 DEF InMethod
    <3>3. \A c : Owns(p, c)' <=> Owns(p, c)
      BY <1>1, <1>2, <2>1, <2>3, <2>4, <3>1 DEF Held
    <3>4. \A c \in Addresses : Owns(p, c) => ctx'[c] # NULL /\ (ctx'[c].spent => Leaving(p)')
      BY <1>2, <2>1, <2>3, <2>5, <3>1 DEF Untouched
    <3> QED BY <1>3, <2>2, <3>1, <3>2, <3>3, <3>4, OneValue
  <2>7. CASE Ends(t) /\ method[t] \in {"Hasher::new", "fallback"}
    <3>1. /\ op[t] = "new" /\ pc'[t] = "idle" /\ result'[t] \in Blocks \cup {NULL}
          /\ \A c \in Addresses : c # result'[t] => Untouched(c)
          /\ result'[t] # NULL => result'[t] \in Addresses /\ Appears(result'[t])
      BY <1>2, <2>4, <2>7 DEF InMethod, Ends
    <3>2. InMethod(t)'
      BY <1>1, <2>1, <2>2, <2>4, <2>7, <3>1, NullAssumption DEF InMethod, Methods
    <3>3. value[p] # NULL => method[t] = "fallback"
      BY <2>1, <2>4, <2>7 DEF InMethod
    <3>4. \A c : ~Owns(p, c)
      BY <1>2, <2>1, <2>7, <3>3 DEF Held
    <3>5. \A c : Owns(p, c)' <=> c # NULL /\ c = result'[t]
      BY <1>1, <2>3, <2>4, <2>7, <3>1, <3>3 DEF Held
    <3>6. /\ \A c \in Addresses : Untouched(c) \/ Owns(p, c)'
          /\ \A c \in Addresses : Owns(p, c)' => Appears(c)
      BY <3>1, <3>5, HeapTypes DEF RustInv
    <3> QED BY <1>3, <2>2, <3>2, <3>4, <3>6, OneValue DEF Appears
  <2>8. CASE Ends(t) /\ method[t] = "init_in"
    <3>1. /\ op[t] = "init_in" /\ arg[t] = p /\ pc'[t] = "idle" /\ result'[t] \in {NULL, p}
          /\ \A c \in Addresses : c # result'[t] => Untouched(c)
          /\ result'[t] # NULL => Appears(p)
          /\ value[p] = [type |-> "StackHasher", backing |-> "InPlace"]
      BY <1>2, <2>1, <2>4, <2>8 DEF InMethod, Ends
    <3>2. InMethod(t)'
      BY <1>1, <2>1, <2>2, <2>4, <2>8, <3>1, NullAssumption DEF InMethod, Methods
    <3>3. \A c : ~Owns(p, c)
      BY <1>2, <2>1, <2>8 DEF Held
    <3>4. ctx_ptr(p) = p /\ value[p] # NULL
      BY <3>1, NullAssumption DEF ctx_ptr, Hashers
    <3>5. \A c : Owns(p, c)' <=> c = p /\ result'[t] # NULL
      BY <1>1, <2>3, <2>4, <2>8, <3>1, <3>4 DEF Held
    <3>6. \A c \in Addresses : Untouched(c) \/ Owns(p, c)'
      BY <3>1, <3>5, HeapTypes DEF RustInv
    <3> QED BY <1>3, <2>2, <3>1, <3>2, <3>3, <3>5, <3>6, OneValue DEF Appears
  <2>9. CASE Ends(t) /\ method[t] \in {"update", "finalize", "drop"}
    <3>1. /\ op[t] = IF method[t] = "drop" THEN "free" ELSE method[t]
          /\ arg[t] = ctx_ptr(p) /\ value[p] # NULL
      BY <1>2, <2>1, <2>4, <2>9 DEF InMethod
    <3>2. /\ pc'[t] = "idle" /\ \A c \in Addresses : c # ctx_ptr(p) => Untouched(c)
          /\ op[t] = "update" => \A c \in Addresses : Untouched(c)
          /\ op[t] = "finalize" => ctx'[ctx_ptr(p)] # NULL
          /\ op[t] = "free" => ctx'[ctx_ptr(p)] = NULL
      BY <2>9, <3>1 DEF Ends
    <3>3. InMethod(t)'
      BY <1>1, <2>1, <2>2, <2>4, <2>9, <3>2, NullAssumption DEF InMethod, Methods
    <3>4. \A c : Owns(p, c) <=> c = ctx_ptr(p)
      BY <1>2, <2>1, <2>9, <3>1 DEF Held
    <3>5. \A c : Owns(p, c)' <=> c = ctx_ptr(p) /\ method[t] # "drop"
      BY <1>1, <2>3, <2>4, <2>9, <3>1, <3>2 DEF Held
    <3>6. CASE method[t] = "update"
      <4>1. ctx_ptr(p) \in Addresses => ctx'[ctx_ptr(p)] # NULL /\ ~ctx'[ctx_ptr(p)].spent
        BY <2>1, <2>5, <3>1, <3>2, <3>4, <3>6 DEF Untouched
      <4> QED BY <1>3, <2>2, <3>2, <3>3, <3>4, <3>5, <3>6, <4>1, OneValue
    <3>7. CASE method[t] = "finalize"
      BY <1>3, <2>2, <2>3, <3>1, <3>2, <3>3, <3>4, <3>5, <3>7, OneValue
    <3>8. CASE method[t] = "drop"
      BY <1>3, <2>2, <3>1, <3>2, <3>3, <3>4, <3>5, <3>8, OneValue
    <3> QED BY <2>9, <3>6, <3>7, <3>8
  <2> QED BY <1>2, <1>4, <1>6, <2>6, <2>7, <2>8, <2>9 DEF Methods
<1> QED BY <1>5, <1>6

\* Nothing happens.
LEMMA StutterKeeps == RustInv /\ UNCHANGED rustVars => RustInv'
<1> SUFFICES ASSUME RustInv, UNCHANGED rustVars PROVE RustInv'
  OBVIOUS
<1>1. UNCHANGED vars /\ UNCHANGED <<value, method, self, pc, op, arg, result, ctx>>
  BY DEF rustVars, apiVars, vars, threadVars
<1>2. DispatchInv' /\ HeapInv'
  BY <1>1, DispatchNext, HeapNext DEF RustInv
<1>3. RustTypeOK' /\ Methodical'
  BY <1>1, <1>2 DEF RustInv, DispatchInv, RustTypeOK, Methodical, Apart, InMethod,
                    ctx_ptr, Heaped, Places, Hashers, Methods
<1>4. Ownership'
  BY <1>1 DEF RustInv, Ownership, Owns, Backed, Receives, Leaving, ctx_ptr, Places, Addresses
<1> QED BY <1>2, <1>3, <1>4 DEF RustInv

-----------------------------------------------------------------------------
(* The theorems *)

\* Before any method runs there is no value and no context.
LEMMA RustStart == RustInit => RustInv
<1> SUFFICES ASSUME RustInit PROVE RustInv
  OBVIOUS
<1>1. DispatchInv /\ HeapInv
  BY DispatchInit, HeapInit DEF RustInit
<1>2. /\ \A t \in Threads : method[t] = NULL /\ self[t] = NULL /\ pc[t] = "idle"
      /\ \A p \in Places : value[p] = NULL
      /\ \A c \in Addresses : ctx[c] = NULL
  BY DEF RustInit, Init, Addresses
<1>3. RustTypeOK
  BY <1>1 DEF DispatchInv, RustInit, RustTypeOK
<1>4. Methodical
  BY <1>2, NullAssumption DEF Methodical, Apart, InMethod, Methods
<1>5. Ownership
  BY <1>2, NullAssumption DEF Ownership, Owns, Backed, Receives, Methods
<1> QED BY <1>1, <1>3, <1>4, <1>5 DEF RustInv

\* The invariant survives every step of any method, every move and every drop.
LEMMA RustStep == RustInv /\ [RustNext]_rustVars => RustInv'
<1> SUFFICES ASSUME RustInv, RustNext PROVE RustInv'
  BY StutterKeeps
<1>1. UNCHANGED CpuHasAesni
  BY DEF RustNext
<1>2. ASSUME NEW t \in Threads, Use(t) PROVE RustInv'
  <2>1. ASSUME NEW p \in Places, HasherUpdate(t, p) \/ HasherFinalize(t, p) \/ HasherDrop(t, p)
        PROVE  RustInv'
    BY <1>1, <2>1, UseKeeps
  <2> QED BY <1>1, <1>2, <2>1, HashKeeps, HasherNewKeeps, StackHasherNewKeeps DEF Use
<1>3. ASSUME NEW t \in Threads, MethodStep(t) PROVE RustInv'
  BY <1>1, <1>3, InsideKeeps, HashKeeps, HasherNewReturnsKeeps, InitReturnsKeeps,
     FallbackReturnsKeeps, HasherUpdateReturnsKeeps, HasherFinalizeReturnsKeeps,
     HasherDropReturnsKeeps DEF MethodStep
<1>4. ASSUME NEW p \in Places, NEW q \in Places, Move(p, q) PROVE RustInv'
  BY <1>1, <1>4, MoveKeeps
<1>5. ASSUME NEW p \in Places, DropInPlace(p) PROVE RustInv'
  BY <1>1, <1>5, DropInPlaceKeeps
<1> QED BY <1>2, <1>3, <1>4, <1>5 DEF RustNext

\* In every reachable state each context has one owner.
THEOREM RustCorrect == RustSpec => []RustInv
<1> QED BY RustStart, RustStep, PTL DEF RustSpec

\* The values, and what the threads are at, keep their types.
THEOREM RustTypes == RustSpec => []RustTypeOK
<1>1. RustInv => RustTypeOK
  BY DEF RustInv
<1> QED BY <1>1, RustCorrect, PTL

\* Moved however often, a value at rest finds a live context where ctx_ptr
\* looks for it, and no other value's.
THEOREM ValuesOwnContexts == RustSpec => []OwnsContext
<1>1. RustInv => OwnsContext
  <2> SUFFICES ASSUME RustInv, NEW p \in Places, value[p] # NULL, ~InUse(p)
               PROVE  /\ Live(ctx_ptr(p))
                      /\ \A q \in Places \ {p} :
                          value[q] # NULL /\ ~InUse(q) => ctx_ptr(p) # ctx_ptr(q)
    BY DEF OwnsContext
  <2>1. ctx_ptr(p) \in Addresses /\ Owns(p, ctx_ptr(p)) /\ Live(ctx_ptr(p))
    BY AtRest
  <2>2. ASSUME NEW q \in Places \ {p}, value[q] # NULL, ~InUse(q)
        PROVE  ctx_ptr(p) # ctx_ptr(q)
    BY <2>1, <2>2, AtRest DEF RustInv, Ownership
  <2> QED BY <2>1, <2>2
<1> QED BY <1>1, RustCorrect, PTL

\* Between methods the blocks in use are those of the values there are.
THEOREM NothingLeaks == RustSpec => []NoLeak
<1>1. RustInv => NoLeak
  <2> SUFFICES ASSUME RustInv, \A t \in Threads : method[t] = NULL
               PROVE  heap = UNION {Owned(ctx_ptr(p)) : p \in {q \in Places : value[q] # NULL}}
    BY DEF NoLeak
  <2> DEFINE V == {q \in Places : value[q] # NULL}
  <2>1. \A p \in Places : ~InUse(p)
    BY DisjointAssumption DEF RustInv, RustTypeOK, InUse, Places
  <2>2. \A t \in Threads : block[t] = NULL
    BY DEF RustInv, Methodical, InMethod, HeapInv, CallsHold
  <2>3. heap = UNION {Owned(c) : c \in Addresses}
    <3>1. heap = (UNION {Owned(c) : c \in Addresses}) \cup ({block[t] : t \in Threads} \ {NULL})
      BY LedgerAccounts DEF RustInv, HeapInv, HeapAccounted, Addresses
    <3>2. {block[t] : t \in Threads} \ {NULL} = {}
      BY <2>2
    <3> QED BY <3>1, <3>2
  <2>4. \A p \in V : ctx_ptr(p) \in Addresses
    BY Pointer DEF RustInv
  <2>5. ASSUME NEW c \in Addresses, Owned(c) # {} PROVE \E p \in V : c = ctx_ptr(p)
    <3>1. ctx[c] # NULL
      BY <2>5 DEF Owned
    <3>2. PICK p \in Places : Owns(p, c)
      BY <3>1 DEF RustInv, Ownership
    <3> QED BY <2>1, <3>2, OwnsUnused
  <2>6. ASSUME NEW a
        PROVE  a \in UNION {Owned(c) : c \in Addresses} <=> a \in UNION {Owned(ctx_ptr(p)) : p \in V}
    <3>1. ASSUME NEW c \in Addresses, a \in Owned(c) PROVE \E p \in V : a \in Owned(ctx_ptr(p))
      BY <2>5, <3>1
    <3>2. ASSUME NEW p \in V, a \in Owned(ctx_ptr(p)) PROVE \E c \in Addresses : a \in Owned(c)
      BY <2>4, <3>2
    <3> HIDE DEF V
    <3> QED BY <3>1, <3>2
  <2> HIDE DEF V
  <2> QED BY <2>3, <2>6 DEF V
<1> QED BY <1>1, RustCorrect, PTL

\* Hasher and StackHasher hash with one and the same backend.
THEOREM BackendIsShared == RustSpec => []SameBackend
<1>1. RustInv => SameBackend
  BY DEF RustInv, DispatchInv, OneVtable, SameBackend, Places
<1> QED BY <1>1, RustCorrect, PTL

\* The call a thread may be beginning is one include/river5.h allows.
Fits(t) ==
    pc[t] = "idle" /\ pc'[t] = "read" =>
      LET c == arg'[t] IN
      CASE op'[t] \in {"update", "finalize"} -> Live(c) /\ ~Busy(c)
        [] op'[t] = "free" -> c \in Blocks /\ ctx[c] # NULL /\ ~Busy(c)
        [] op'[t] = "init_in" -> ctx[c] = NULL /\ ~Busy(c)
        [] op'[t] \in {"hash", "new"} -> c = NULL

LEMMA EnterFits ==
    ASSUME DispatchInv, NEW t \in Threads, NEW f, NEW c, Enter(t, f, c),
           \/ f \in {"update", "finalize"} /\ Live(c) /\ ~Busy(c)
           \/ f = "free" /\ c \in Blocks /\ ctx[c] # NULL /\ ~Busy(c)
           \/ f = "init_in" /\ ctx[c] = NULL /\ ~Busy(c)
           \/ f \in {"hash", "new"} /\ c = NULL
    PROVE  \A u \in Threads : Fits(u)
<1>1. /\ op'[t] = f /\ arg'[t] = c
      /\ \A u \in Threads : u # t => pc'[u] = pc[u]
  BY DEF Enter, DispatchInv, TypeOK
<1>2. ASSUME NEW u \in Threads, u # t PROVE Fits(u)
  BY <1>1, <1>2 DEF Fits
<1>3. Fits(t)
  <2>1. CASE f \in {"update", "finalize"} /\ Live(c) /\ ~Busy(c)
    BY <1>1, <2>1 DEF Fits
  <2>2. CASE f = "free" /\ c \in Blocks /\ ctx[c] # NULL /\ ~Busy(c)
    BY <1>1, <2>2 DEF Fits
  <2>3. CASE f = "init_in" /\ ctx[c] = NULL /\ ~Busy(c)
    BY <1>1, <2>3 DEF Fits
  <2>4. CASE f \in {"hash", "new"} /\ c = NULL
    BY <1>1, <2>4 DEF Fits
  <2> QED BY <2>1, <2>2, <2>3, <2>4
<1> QED BY <1>2, <1>3

\* The crate makes only the calls include/river5.h allows, each on a context
\* that is there, live and in no other call, however values are moved and
\* whichever call fails.
THEOREM ContractKept == RustSpec => KeepsContract
<1>1. RustInv /\ RustNext => \A t \in Threads : Fits(t)
  <2> SUFFICES ASSUME RustInv, RustNext PROVE \A t \in Threads : Fits(t)
    OBVIOUS
  <2>1. ASSUME pc' = pc PROVE \A t \in Threads : Fits(t)
    BY <2>1 DEF Fits
  <2>2. ASSUME NEW t \in Threads, Hash(t) \/ \E p \in Places : HasherNew(t, p)
        PROVE  \A u \in Threads : Fits(u)
    <3>1. Enter(t, "hash", NULL) \/ Enter(t, "new", NULL)
      BY <2>2 DEF Hash, HasherNew, Begin
    <3> QED BY <3>1, EnterFits DEF RustInv
  <2>3. ASSUME NEW t \in Threads, NEW p \in Places, StackHasherNew(t, p)
        PROVE  \A u \in Threads : Fits(u)
    <3>1. value[p] = NULL /\ ~InUse(p) /\ Enter(t, "init_in", p)
      BY <2>3 DEF StackHasherNew, Begin
    <3>2. ctx[p] = NULL /\ ~Busy(p)
      BY <3>1, NoContext, PlaceNotBusy DEF Backed
    <3> QED BY <3>1, <3>2, EnterFits DEF RustInv
  <2>4. ASSUME NEW t \in Threads, NEW p \in Places,
               HasherUpdate(t, p) \/ HasherFinalize(t, p) \/ HasherDrop(t, p)
        PROVE  \A u \in Threads : Fits(u)
    <3>1. /\ value[p] # NULL /\ ~InUse(p)
          /\ \/ Enter(t, "update", ctx_ptr(p)) \/ Enter(t, "finalize", ctx_ptr(p))
             \/ Enter(t, "free", ctx_ptr(p)) /\ Heaped(p)
      BY <2>4 DEF HasherUpdate, HasherFinalize, HasherDrop, Begin
    <3>2. /\ Live(ctx_ptr(p)) /\ ~Busy(ctx_ptr(p)) /\ ctx[ctx_ptr(p)] # NULL
          /\ Heaped(p) => ctx_ptr(p) \in Blocks
      BY <3>1, AtRest DEF Live
    <3> QED BY <3>1, <3>2, EnterFits DEF RustInv
  <2>5. ASSUME NEW t \in Threads, Fallback(t) PROVE \A u \in Threads : Fits(u)
    <3>1. Enter(t, "new", NULL)
      BY <2>5 DEF Fallback, Continue
    <3> QED BY <3>1, EnterFits DEF RustInv
  <2>6. ASSUME NEW t \in Threads, HasherFinalizeReturns(t) PROVE \A u \in Threads : Fits(u)
    <3>1. CASE Heaped(self[t])
      <4>1. Enter(t, "free", ctx_ptr(self[t])) /\ Returned(t, "finalize")
        BY <2>6, <3>1 DEF HasherFinalizeReturns, Continue
      <4> QED BY <3>1, <4>1, AfterFinalize, EnterFits DEF RustInv
    <3>2. CASE ~Heaped(self[t])
      BY <2>1, <2>6, <3>2 DEF HasherFinalizeReturns, Vanish
    <3> QED BY <3>1, <3>2
  <2>7. ASSUME NEW t \in Threads, Inside(t) PROVE \A u \in Threads : Fits(u)
    BY <2>7, StepEffects DEF Inside, RustInv, OthersWait, Fits
  <2>8. ASSUME NEW t \in Threads,
               \/ HashReturns(t) \/ HasherNewReturns(t) \/ InPlace(t) \/ FallbackReturns(t)
               \/ HasherUpdateReturns(t) \/ HasherDropReturns(t)
        PROVE  \A u \in Threads : Fits(u)
    BY <2>1, <2>8 DEF HashReturns, HasherNewReturns, InPlace, FallbackReturns,
                      HasherUpdateReturns, HasherDropReturns, apiVars
  <2>9. ASSUME NEW p \in Places, DropInPlace(p) \/ \E q \in Places : Move(p, q)
        PROVE  \A u \in Threads : Fits(u)
    BY <2>1, <2>9 DEF DropInPlace, Vanish, Move
  <2> QED BY <2>2, <2>3, <2>4, <2>5, <2>6, <2>7, <2>8, <2>9 DEF RustNext, Use, MethodStep
<1>2. RustInv /\ [RustNext]_rustVars => [\A t \in Threads : Fits(t)]_rustVars
  BY <1>1
<1> QED BY <1>2, RustCorrect, PTL DEF RustSpec, KeepsContract, Fits
=============================================================================
