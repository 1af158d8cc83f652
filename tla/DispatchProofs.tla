--------------------------- MODULE DispatchProofs ---------------------------
(***************************************************************************)
(* Proofs about Dispatch, for any number of threads, blocks and storages   *)
(* and any build.                                                          *)
(***************************************************************************)
EXTENDS Dispatch, FiniteSetTheorems, TLAPS

-----------------------------------------------------------------------------
(* The inductive invariant *)

\* Every pointer to a vtable, in the cache, in a register or remembered by the
\* maker of a context, is the one resolve_vtable gives.
OneVtable ==
    /\ cached \in {NULL, resolve_vtable}
    /\ \A t \in Threads :
        /\ v[t] \in {NULL, resolve_vtable}
        /\ pc[t] \in {"publish", "run", "create", "release"} => v[t] = resolve_vtable
    /\ \A c \in Blocks \cup Storages : ctx[c] # NULL => ctx[c].maker = resolve_vtable
    /\ served \subseteq {resolve_vtable}

\* A call holds the context it was given, alone, until it returns.
Exclusive ==
    /\ \A t \in Threads :
        /\ pc[t] = "idle" => op[t] = NULL
        /\ pc[t] = "create" =>
              op[t] = "new" /\ v[t] = "stub" /\ block[t] \in Blocks
        /\ pc[t] = "release" => op[t] = "free"
        /\ op[t] \in {"update", "finalize", "free"} =>
              arg[t] \in Blocks \cup Storages /\ ctx[arg[t]] # NULL
        /\ op[t] = "init_in" => arg[t] \in Storages
    /\ \A t, u \in Threads :
        t # u /\ pc[t] # "idle" /\ pc[u] # "idle" /\ arg[t] = arg[u] => arg[t] = NULL

DispatchInv == TypeOK /\ OneVtable /\ Exclusive

\* Both outcomes of the resolution are backends.
LEMMA Resolved == resolve_vtable \in Backends /\ resolve_vtable # NULL
  BY DisjointAssumption DEF resolve_vtable, Backends

\* A new context is a context, and is there.
LEMMA Made ==
    ASSUME NEW b \in Backends, NEW x \in Blocks \cup {NULL}
    PROVE  /\ NewContext(b, x) \in Contexts /\ NewContext(b, x) # NULL
           /\ NewContext(b, x).maker = b
<1>1. NewContext(b, x) \in Contexts
  BY DEF NewContext, Contexts
<1>2. NewContext(b, x).maker = b
  BY DEF NewContext
<1> QED BY <1>1, <1>2, DisjointAssumption

\* Finalizing a context, or freeing its XXH3 state, leaves its maker.
LEMMA Marked ==
    ASSUME NEW c \in Contexts
    PROVE  /\ [c EXCEPT !.spent = TRUE] \in Contexts
           /\ [c EXCEPT !.xxh = NULL] \in Contexts
           /\ [c EXCEPT !.spent = TRUE].maker = c.maker
           /\ [c EXCEPT !.xxh = NULL].maker = c.maker
  BY DEF Contexts

\* Before any call nothing is resolved and no context exists.
LEMMA DispatchInit == Init => DispatchInv
  BY DisjointAssumption DEF Init, DispatchInv, TypeOK, OneVtable, Exclusive

\* A call begins, on a context no other call holds.
LEMMA EnterInv ==
    ASSUME DispatchInv, UNCHANGED <<CpuHasAesni, resolve_vtable>>,
           NEW t \in Threads,
           NEW f \in {"hash", "new", "update", "finalize", "free", "init_in"},
           NEW c \in Blocks \cup Storages \cup {NULL},
           Enter(t, f, c), c # NULL => ~Busy(c),
           f \in {"update", "finalize", "free"} => c # NULL /\ ctx[c] # NULL,
           f = "init_in" => c \in Storages
    PROVE  DispatchInv'
<1> USE DEF DispatchInv
<1>1. TypeOK'
  BY DEF Enter, TypeOK
<1>2. OneVtable'
  BY DEF Enter, TypeOK, OneVtable
<1>3. Exclusive'
  <2>1. \A u \in Threads : u # t =>
           pc'[u] = pc[u] /\ op'[u] = op[u] /\ arg'[u] = arg[u]
    BY DEF Enter, TypeOK
  <2>2. pc'[t] = "read" /\ op'[t] = f /\ arg'[t] = c
    BY DEF Enter, TypeOK
  <2>3. UNCHANGED <<v, block, ctx>>
    BY DEF Enter
  <2> QED BY <2>1, <2>2, <2>3 DEF Exclusive, Busy
<1> QED BY <1>1, <1>2, <1>3

\* Every call a caller may make keeps the invariant.
LEMMA CallInv ==
    ASSUME DispatchInv, UNCHANGED <<CpuHasAesni, resolve_vtable>>,
           NEW t \in Threads, Call(t)
    PROVE  DispatchInv'
<1>1. CASE CallGlobal(t)
  BY <1>1, EnterInv DEF CallGlobal
<1>2. CASE RejectStorage(t)
  BY <1>2 DEF RejectStorage, DispatchInv, TypeOK, OneVtable, Exclusive
<1>3. ASSUME NEW c \in Blocks \cup Storages, CallUpdate(t, c) \/ CallFinalize(t, c)
      PROVE  DispatchInv'
  BY <1>3, EnterInv, DisjointAssumption DEF CallUpdate, CallFinalize, Live
<1>4. ASSUME NEW c \in Blocks \cup Storages, CallFree(t, c)
      PROVE  DispatchInv'
  BY <1>4, EnterInv, DisjointAssumption DEF CallFree
<1>5. ASSUME NEW c \in Blocks \cup Storages, CallInitIn(t, c)
      PROVE  DispatchInv'
  BY <1>5, EnterInv, StorageAssumption DEF CallInitIn
<1> QED BY <1>1, <1>2, <1>3, <1>4, <1>5 DEF Call

\* The three steps of vtable() store nothing but the resolved pointer.
LEMMA VtableInv ==
    ASSUME DispatchInv, UNCHANGED <<CpuHasAesni, resolve_vtable>>,
           NEW t \in Threads, ReadCached(t) \/ Resolve(t) \/ Publish(t)
    PROVE  DispatchInv'
<1> USE DEF DispatchInv, Goto
<1>1. CASE ReadCached(t)
  BY <1>1, Resolved, DisjointAssumption
     DEF ReadCached, TypeOK, OneVtable, Exclusive
<1>2. CASE Resolve(t)
  BY <1>2, Resolved DEF Resolve, TypeOK, OneVtable, Exclusive
<1>3. CASE Publish(t)
  BY <1>3, Resolved DEF Publish, TypeOK, OneVtable, Exclusive
<1> QED BY <1>1, <1>2, <1>3

\* A call returns, having released no context but the one it was given.
LEMMA ReturnInv ==
    ASSUME DispatchInv, UNCHANGED <<CpuHasAesni, resolve_vtable>>,
           NEW t \in Threads, NEW r \in Blocks \cup Storages \cup {NULL},
           pc[t] \in {"run", "create", "release"}, Return(t, r),
           heap' \subseteq Blocks,
           ctx' \in [Blocks \cup Storages -> Contexts \cup {NULL}],
           \A c \in Blocks \cup Storages :
              /\ ctx'[c] # NULL => ctx'[c].maker = resolve_vtable
              /\ ctx[c] # NULL /\ ctx'[c] = NULL => c = arg[t]
    PROVE  DispatchInv'
<1> USE DEF DispatchInv
<1>1. v[t] = resolve_vtable
  BY DEF OneVtable
<1>2. /\ pc' = [pc EXCEPT ![t] = "idle"] /\ op' = [op EXCEPT ![t] = NULL]
      /\ arg' = [arg EXCEPT ![t] = NULL] /\ v' = [v EXCEPT ![t] = NULL]
      /\ block' = [block EXCEPT ![t] = NULL]
      /\ result' = [result EXCEPT ![t] = r]
      /\ served' = served \cup {v[t]} /\ cached' = cached /\ knows' = knows
  BY DEF Return, Goto
<1>3. TypeOK'
  BY <1>1, <1>2, Resolved DEF TypeOK
<1>4. OneVtable'
  BY <1>1, <1>2 DEF TypeOK, OneVtable
<1>5. Exclusive'
  <2>1. \A u \in Threads : u # t =>
           /\ pc'[u] = pc[u] /\ op'[u] = op[u] /\ arg'[u] = arg[u]
           /\ v'[u] = v[u] /\ block'[u] = block[u]
    BY <1>2 DEF TypeOK
  <2>2. pc'[t] = "idle" /\ op'[t] = NULL
    BY <1>2 DEF TypeOK
  <2>3. ASSUME NEW u \in Threads, op'[u] \in {"update", "finalize", "free"}
        PROVE  arg'[u] \in Blocks \cup Storages /\ ctx'[arg'[u]] # NULL
    <3>1. u # t /\ op[u] \in {"update", "finalize", "free"}
      BY <2>1, <2>2, <2>3, DisjointAssumption
    <3>2. arg[u] \in Blocks \cup Storages /\ ctx[arg[u]] # NULL /\ pc[u] # "idle"
      BY <3>1, DisjointAssumption DEF Exclusive
    <3>3. arg[u] # arg[t]
      BY <3>1, <3>2, DisjointAssumption DEF Exclusive
    <3> QED BY <2>1, <3>1, <3>2, <3>3
  <2> QED BY <2>1, <2>2, <2>3, DisjointAssumption DEF Exclusive
<1> QED BY <1>3, <1>4, <1>5

\* The code of the two backends, run with the context of its own making.
LEMMA BackendInv ==
    ASSUME DispatchInv, UNCHANGED <<CpuHasAesni, resolve_vtable>>,
           NEW t \in Threads,
           \/ Pure(t) \/ Finalize(t) \/ AllocFails(t) \/ InitIn(t)
           \/ V15Free(t) \/ StubCreateFails(t) \/ StubFreeState(t) \/ StubFree(t)
           \/ \E a \in Blocks :
                V15New(t, a) \/ StubMalloc(t, a) \/ StubCreateState(t, a)
    PROVE  DispatchInv'
<1>1. /\ ctx \in [Blocks \cup Storages -> Contexts \cup {NULL}]
      /\ heap \subseteq Blocks
      /\ \A c \in Blocks \cup Storages : ctx[c] # NULL => ctx[c].maker = resolve_vtable
  BY DEF DispatchInv, TypeOK, OneVtable
<1>2. pc[t] \in {"run", "create", "release"} => v[t] = resolve_vtable
  BY DEF DispatchInv, OneVtable
<1>3. op[t] \in {"update", "finalize", "free"} =>
         arg[t] \in Blocks \cup Storages /\ ctx[arg[t]] # NULL
  BY DEF DispatchInv, Exclusive
<1>4. CASE Pure(t) \/ AllocFails(t)
  <2>1. pc[t] = "run" /\ Return(t, NULL) /\ UNCHANGED <<heap, ctx>>
    BY <1>4 DEF Pure, AllocFails, Running
  <2> QED BY <1>1, <2>1, ReturnInv
<1>5. CASE Finalize(t)
  <2>1. /\ pc[t] = "run" /\ op[t] = "finalize" /\ Return(t, NULL) /\ heap' = heap
        /\ ctx' = [ctx EXCEPT ![arg[t]].spent = TRUE]
    BY <1>5 DEF Finalize, Running
  <2>2. ctx[arg[t]] \in Contexts
    BY <1>1, <1>3, <2>1
  <2>3. PICK x \in Contexts :
           x = [ctx[arg[t]] EXCEPT !.spent = TRUE] /\ x.maker = ctx[arg[t]].maker
    BY <2>2, Marked
  <2>4. ctx' = [ctx EXCEPT ![arg[t]] = x] /\ x # NULL
    BY <2>1, <2>3, DisjointAssumption
  <2>5. /\ heap' \subseteq Blocks
        /\ ctx' \in [Blocks \cup Storages -> Contexts \cup {NULL}]
    <3>1. x \in Contexts \cup {NULL}
      BY <2>3
    <3>2. [ctx EXCEPT ![arg[t]] = x] \in [Blocks \cup Storages -> Contexts \cup {NULL}]
      BY <1>1, <3>1
    <3> QED BY <1>1, <2>1, <2>4, <3>2
  <2>6. \A c \in Blocks \cup Storages :
           /\ ctx'[c] # NULL => ctx'[c].maker = resolve_vtable
           /\ ctx[c] # NULL /\ ctx'[c] = NULL => c = arg[t]
    BY <1>1, <1>3, <2>1, <2>3, <2>4
  <2> QED BY <2>1, <2>5, <2>6, ReturnInv
<1>6. CASE InitIn(t)
  <2>1. pc[t] = "run" /\ op[t] = "init_in" /\ heap' = heap
    BY <1>6 DEF InitIn, Running
  <2>2. arg[t] \in Storages
    BY <2>1 DEF DispatchInv, Exclusive
  <2>3. CASE StorageSize[arg[t]] >= ctx_bytes_required(v[t]) /\ v[t] = "v15"
    <3>1. /\ ctx' = [ctx EXCEPT ![arg[t]] = NewContext("v15", NULL)]
          /\ Return(t, arg[t]) /\ resolve_vtable = "v15"
      BY <1>2, <1>6, <2>1, <2>3 DEF InitIn
    <3>2. PICK x \in Contexts : x = NewContext("v15", NULL) /\ x # NULL /\ x.maker = "v15"
      BY Made DEF Backends
    <3> QED BY <1>1, <2>1, <2>2, <3>1, <3>2, ReturnInv
  <2>4. CASE ~(StorageSize[arg[t]] >= ctx_bytes_required(v[t]) /\ v[t] = "v15")
    <3>1. Return(t, NULL) /\ ctx' = ctx
      BY <1>6, <2>4 DEF InitIn
    <3> QED BY <1>1, <2>1, <3>1, ReturnInv
  <2> QED BY <2>3, <2>4
<1>7. ASSUME NEW a \in Blocks, V15New(t, a) PROVE DispatchInv'
  <2>1. /\ pc[t] = "run" /\ heap' = heap \cup {a} /\ Return(t, a)
        /\ ctx' = [ctx EXCEPT ![a] = NewContext("v15", NULL)]
        /\ resolve_vtable = "v15"
    BY <1>2, <1>7 DEF V15New, Running
  <2>2. PICK x \in Contexts : x = NewContext("v15", NULL) /\ x # NULL /\ x.maker = "v15"
    BY Made DEF Backends
  <2> QED BY <1>1, <2>1, <2>2, ReturnInv
<1>8. CASE V15Free(t) \/ StubFree(t)
  <2>1. /\ pc[t] \in {"run", "release"} /\ op[t] = "free"
        /\ heap' = heap \ {arg[t]} /\ Return(t, NULL)
        /\ ctx' = [ctx EXCEPT ![arg[t]] = NULL]
    BY <1>8 DEF V15Free, StubFree, Running, DispatchInv, Exclusive
  <2> QED BY <1>1, <1>3, <2>1, ReturnInv
<1>9. ASSUME NEW a \in Blocks, StubMalloc(t, a) PROVE DispatchInv'
  <2>1. /\ pc[t] = "run" /\ op[t] = "new" /\ v[t] = "stub"
        /\ heap' = heap \cup {a} /\ block' = [block EXCEPT ![t] = a]
        /\ pc' = [pc EXCEPT ![t] = "create"]
        /\ UNCHANGED <<cached, knows, op, arg, v, result, ctx, served>>
    BY <1>9 DEF StubMalloc, Running, Goto
  <2>2. TypeOK'
    BY <2>1 DEF DispatchInv, TypeOK
  <2>3. OneVtable'
    BY <2>1 DEF DispatchInv, TypeOK, OneVtable
  <2>4. Exclusive'
    BY <2>1 DEF DispatchInv, TypeOK, Exclusive
  <2> QED BY <2>2, <2>3, <2>4 DEF DispatchInv
<1>10. ASSUME NEW a \in Blocks, StubCreateState(t, a) PROVE DispatchInv'
  <2>1. /\ pc[t] = "create" /\ heap' = heap \cup {a} /\ Return(t, block[t])
        /\ ctx' = [ctx EXCEPT ![block[t]] = NewContext("stub", a)]
    BY <1>10 DEF StubCreateState
  <2>2. block[t] \in Blocks /\ resolve_vtable = "stub"
    BY <1>2, <2>1 DEF DispatchInv, Exclusive
  <2>3. PICK x \in Contexts : x = NewContext("stub", a) /\ x # NULL /\ x.maker = "stub"
    BY Made DEF Backends
  <2> QED BY <1>1, <2>1, <2>2, <2>3, ReturnInv
<1>11. CASE StubCreateFails(t)
  <2>1. pc[t] = "create" /\ heap' = heap \ {block[t]} /\ Return(t, NULL) /\ ctx' = ctx
    BY <1>11 DEF StubCreateFails
  <2> QED BY <1>1, <2>1, ReturnInv
<1>12. CASE StubFreeState(t)
  <2>1. /\ pc[t] = "run" /\ op[t] = "free"
        /\ heap' = heap \ {ctx[arg[t]].xxh}
        /\ ctx' = [ctx EXCEPT ![arg[t]].xxh = NULL]
        /\ pc' = [pc EXCEPT ![t] = "release"]
        /\ UNCHANGED <<cached, knows, op, arg, v, block, result, served>>
    BY <1>12 DEF StubFreeState, Running, Goto
  <2>2. ctx[arg[t]] \in Contexts
    BY <1>1, <1>3, <2>1
  <2>3. PICK x \in Contexts :
           x = [ctx[arg[t]] EXCEPT !.xxh = NULL] /\ x.maker = ctx[arg[t]].maker
    BY <2>2, Marked
  <2>4. ctx' = [ctx EXCEPT ![arg[t]] = x] /\ x # NULL
    BY <2>1, <2>3, DisjointAssumption
  <2>5. TypeOK'
    BY <1>1, <1>3, <2>1, <2>4 DEF DispatchInv, TypeOK
  <2>6. OneVtable'
    BY <1>1, <1>2, <1>3, <2>1, <2>3, <2>4 DEF DispatchInv, TypeOK, OneVtable
  <2>7. Exclusive'
    BY <1>1, <1>3, <2>1, <2>4 DEF DispatchInv, TypeOK, Exclusive
  <2> QED BY <2>5, <2>6, <2>7 DEF DispatchInv
<1> QED BY <1>4, <1>5, <1>6, <1>7, <1>8, <1>9, <1>10, <1>11, <1>12
-----------------------------------------------------------------------------
(* The theorems *)

\* The invariant survives every step of any thread.
LEMMA DispatchNext == DispatchInv /\ [Next]_vars => DispatchInv'
<1> SUFFICES ASSUME DispatchInv, [Next]_vars PROVE DispatchInv'
  OBVIOUS
<1>0. UNCHANGED <<CpuHasAesni, resolve_vtable>>
  BY DEF Next, vars, resolve_vtable
<1>1. ASSUME NEW t \in Threads, Call(t) PROVE DispatchInv'
  BY <1>0, <1>1, CallInv
<1>2. ASSUME NEW t \in Threads, Step(t) PROVE DispatchInv'
  BY <1>0, <1>2, VtableInv, BackendInv DEF Step
<1>3. ASSUME NEW s \in Storages, DropStorage(s) PROVE DispatchInv'
  <2>1. /\ \A t \in Threads : pc[t] # "idle" => arg[t] # s
        /\ ctx' = [ctx EXCEPT ![s] = NULL]
        /\ UNCHANGED <<cached, knows, pc, op, arg, v, block, result, heap, served>>
    BY <1>3 DEF DropStorage, Busy, threadVars
  <2>2. TypeOK'
    BY <1>0, <2>1 DEF DispatchInv, TypeOK
  <2>3. OneVtable'
    BY <1>0, <2>1 DEF DispatchInv, TypeOK, OneVtable
  <2>4. Exclusive'
    BY <2>1, DisjointAssumption DEF DispatchInv, TypeOK, Exclusive
  <2> QED BY <2>2, <2>3, <2>4 DEF DispatchInv
<1>4. CASE UNCHANGED vars
  <2>1. UNCHANGED <<cached, knows, pc, op, arg, v, block, result, heap, ctx, served>>
    BY <1>4 DEF vars, threadVars
  <2> QED BY <1>0, <2>1 DEF DispatchInv, TypeOK, OneVtable, Exclusive
<1> QED BY <1>1, <1>2, <1>3, <1>4 DEF Next

\* In every reachable state the vtable pointers agree and calls do not overlap
\* on a context.
THEOREM DispatchCorrect == Spec => []DispatchInv
<1> QED BY DispatchInit, DispatchNext, PTL DEF Spec

\* A context only ever reaches the backend that made it, for any number of
\* threads racing through vtable().
THEOREM MakersHandle == Spec => []MakerHandles
<1>1. DispatchInv => MakerHandles
  BY DEF DispatchInv, OneVtable, Exclusive, MakerHandles
<1> QED BY <1>1, DispatchCorrect, PTL

\* One backend serves the whole process.
THEOREM OneBackendServes == Spec => []OneBackend
<1>1. DispatchInv => OneBackend
  <2> SUFFICES ASSUME DispatchInv PROVE Cardinality(served) <= 1
    BY DEF OneBackend
  <2>1. served = {} \/ served = {resolve_vtable}
    BY DEF DispatchInv, OneVtable
  <2>2. Cardinality({}) = 0 /\ Cardinality({resolve_vtable}) = 1
    BY FS_EmptySet, FS_Singleton
  <2> QED BY <2>1, <2>2
<1> QED BY <1>1, DispatchCorrect, PTL

\* No store to the cached pointer changes the selection.
THEOREM SelectionIsSticky == Spec => SelectionSticks
<1>1. DispatchInv /\ [Next]_vars => [cached # NULL => cached' = cached]_vars
  <2> SUFFICES ASSUME DispatchInv, Next, cached # NULL PROVE cached' = cached
    OBVIOUS
  <2>1. ASSUME NEW t \in Threads, Publish(t) PROVE cached' = cached
    BY <2>1 DEF Publish, DispatchInv, OneVtable
  <2>2. ASSUME NEW t \in Threads, NEW r, Return(t, r) PROVE cached' = cached
    BY <2>2 DEF Return
  <2>3. ASSUME NEW t \in Threads, Call(t) PROVE cached' = cached
    BY <2>3 DEF Call, CallGlobal, CallUpdate, CallFinalize, CallFree, CallInitIn,
                Enter, RejectStorage
  <2>4. ASSUME NEW t \in Threads, ReadCached(t) \/ Resolve(t) \/ StubFreeState(t)
                                  \/ \E a \in Blocks : StubMalloc(t, a)
        PROVE  cached' = cached
    BY <2>4 DEF ReadCached, Resolve, StubFreeState, StubMalloc
  <2>5. ASSUME NEW t \in Threads, Step(t) PROVE cached' = cached
    BY <2>1, <2>2, <2>4, <2>5
       DEF Step, Pure, Finalize, AllocFails, InitIn, V15Free, StubCreateFails,
           StubFree, V15New, StubCreateState
  <2>6. ASSUME NEW s \in Storages, DropStorage(s) PROVE cached' = cached
    BY <2>6 DEF DropStorage
  <2> QED BY <2>3, <2>5, <2>6 DEF Next
<1> QED BY <1>1, DispatchCorrect, PTL DEF Spec, SelectionSticks
-----------------------------------------------------------------------------
(***************************************************************************)
(* The memory: no block leaks, is freed twice or is shared by two          *)
(* contexts, whichever allocation fails and however the calls interleave,  *)
(* and caller-owned storage is not overrun.                                *)
(***************************************************************************)
Addresses == Blocks \cup Storages

\* Block a belongs to the context at c: it is the context, or its XXH3 state.
Holds(c, a) == ctx[c] # NULL /\ (c = a \/ ctx[c].xxh = a)

-----------------------------------------------------------------------------
(* The inductive invariant of the memory *)

\* HeapAccounted block by block.  That a context is not its own XXH3 state is
\* what keeps stub_free from freeing one block twice.
Ledger ==
    /\ \A a \in Blocks :
        a \in heap <=> \/ \E c \in Addresses : Holds(c, a)
                       \/ \E t \in Threads : block[t] = a
    /\ \A a \in Blocks, c, d \in Addresses : Holds(c, a) /\ Holds(d, a) => c = d
    /\ \A t \in Threads, c \in Addresses, a \in Blocks : ~(block[t] = a /\ Holds(c, a))
    /\ \A t, u \in Threads : t # u /\ block[t] = block[u] => block[t] = NULL
    /\ \A c \in Blocks : ctx[c] # NULL => ctx[c].xxh # c

\* What the calls in progress hold of it: only stub_new has a context that is
\* not one yet, stub_free has already given the XXH3 state back when it frees
\* the context, and river5_init_in works on fresh storage.
CallsHold ==
    \A t \in Threads :
        /\ block[t] # NULL => pc[t] = "create"
        /\ pc[t] = "release" => ctx[arg[t]].xxh = NULL
        /\ op[t] = "free" => arg[t] \in Blocks
        /\ op[t] = "init_in" => arg[t] \in Aligned /\ ctx[arg[t]] = NULL

\* A context of v15 is one block, or none at all in storage that it fits.
InPlaceIsV15 ==
    /\ \A c \in Addresses :
        ctx[c] # NULL /\ ctx[c].maker = "v15" => ctx[c].xxh = NULL
    /\ \A s \in Storages :
        ctx[s] # NULL =>
            ctx[s].maker = "v15" /\ s \in Aligned /\ StorageSize[s] >= V15Bytes

HeapInv == Ledger /\ CallsHold /\ InPlaceIsV15

\* The types the steps below need, with the context as one of Contexts.
LEMMA HeapTypes ==
    ASSUME DispatchInv
    PROVE  /\ ctx \in [Addresses -> Contexts \cup {NULL}] /\ heap \subseteq Blocks
           /\ block \in [Threads -> Blocks \cup {NULL}]
           /\ \A c \in Addresses : ctx[c] # NULL =>
                 ctx[c] \in Contexts /\ ctx[c].xxh \in Blocks \cup {NULL}
           /\ NULL \notin Addresses
<1>1. ctx \in [Addresses -> Contexts \cup {NULL}]
  BY DEF DispatchInv, TypeOK, Addresses
<1>2. ASSUME NEW c \in Addresses, ctx[c] # NULL
      PROVE  ctx[c] \in Contexts /\ ctx[c].xxh \in Blocks \cup {NULL}
  BY <1>1, <1>2 DEF Contexts
<1> QED BY <1>1, <1>2, DisjointAssumption DEF DispatchInv, TypeOK, Addresses

\* A new context is there, with what it was made of.
LEMMA Fresh ==
    ASSUME NEW b \in Backends, NEW x \in Blocks \cup {NULL}
    PROVE  /\ NewContext(b, x) # NULL /\ NewContext(b, x).maker = b
           /\ NewContext(b, x).xxh = x /\ NewContext(b, x).spent = FALSE
  BY Made DEF NewContext

\* Finalizing a context, or freeing its XXH3 state, leaves the rest of it.
LEMMA Updated ==
    ASSUME NEW c \in Contexts
    PROVE  /\ [c EXCEPT !.spent = TRUE] # NULL /\ [c EXCEPT !.xxh = NULL] # NULL
           /\ [c EXCEPT !.spent = TRUE].maker = c.maker
           /\ [c EXCEPT !.spent = TRUE].xxh = c.xxh
           /\ [c EXCEPT !.spent = TRUE].spent = TRUE
           /\ [c EXCEPT !.xxh = NULL].maker = c.maker
           /\ [c EXCEPT !.xxh = NULL].xxh = NULL
           /\ [c EXCEPT !.xxh = NULL].spent = c.spent
<1>1. [c EXCEPT !.spent = TRUE] # NULL /\ [c EXCEPT !.xxh = NULL] # NULL
  BY Marked, DisjointAssumption
<1> QED BY <1>1 DEF Contexts

\* Block by block is as good as the union of what is owned.
LEMMA LedgerAccounts ==
    ASSUME DispatchInv, Ledger
    PROVE  HeapAccounted
<1>1. ASSUME NEW c \in Addresses, NEW a
      PROVE  a \in Owned(c) <=> a \in Blocks /\ Holds(c, a)
  <2>1. CASE ctx[c] = NULL
    BY <2>1 DEF Owned, Holds
  <2>2. CASE ctx[c] # NULL
    <3>1. ctx[c].xxh \in Blocks \cup {NULL} /\ NULL \notin Blocks
      BY <2>2, HeapTypes, DisjointAssumption
    <3> QED BY <2>2, <3>1 DEF Owned, Holds
  <2> QED BY <2>1, <2>2
<1>2. heap = (UNION {Owned(c) : c \in Addresses}) \cup ({block[t] : t \in Threads} \ {NULL})
  <2> DEFINE U == UNION {Owned(c) : c \in Addresses}
             V == {block[t] : t \in Threads} \ {NULL}
  <2>1. \A a : a \in U <=> \E c \in Addresses : a \in Owned(c)
    OBVIOUS
  <2>2. \A a : a \in V <=> a # NULL /\ \E t \in Threads : block[t] = a
    OBVIOUS
  <2>3. ASSUME NEW a PROVE a \in heap <=> a \in U \/ a \in V
    <3>1. a \in heap => a \in Blocks
      BY HeapTypes
    <3>2. \A t \in Threads : block[t] = a /\ a # NULL => a \in Blocks
      BY HeapTypes
    <3>3. NULL \notin Blocks
      BY DisjointAssumption
    <3> HIDE DEF U, V
    <3> QED BY <1>1, <2>1, <2>2, <3>1, <3>2, <3>3 DEF Ledger
  <2>4. heap = U \cup V
    <3> HIDE DEF U, V
    <3> QED BY <2>3
  <2> QED BY <2>4
<1>3. \A c, d \in Addresses : c # d => Owned(c) \cap Owned(d) = {}
  BY <1>1 DEF Ledger
<1>4. \A t \in Threads, c \in Addresses : block[t] \notin Owned(c)
  BY <1>1 DEF Ledger
<1> QED BY <1>2, <1>3, <1>4 DEF HeapAccounted, Addresses, Ledger

\* Before any call nothing is allocated.
LEMMA HeapInit == Init => HeapInv
  BY DisjointAssumption
     DEF Init, HeapInv, Ledger, Holds, CallsHold, InPlaceIsV15, Addresses

-----------------------------------------------------------------------------
(* The steps *)

\* The ledger stands as long as nothing changes hands.
LEMMA LedgerSame ==
    ASSUME Ledger, UNCHANGED <<heap, block>>,
           \A c \in Addresses, a \in Blocks : Holds(c, a)' <=> Holds(c, a),
           \A c \in Blocks : ctx'[c] # NULL => ctx'[c].xxh # c
    PROVE  Ledger'
  BY DEF Ledger, Addresses

\* As does all of the invariant but CallsHold when no memory is touched.
LEMMA MemoryUntouched ==
    ASSUME HeapInv, UNCHANGED <<heap, block, ctx>>
    PROVE  Ledger' /\ InPlaceIsV15'
  BY DEF HeapInv, Ledger, Holds, InPlaceIsV15

\* What the other calls hold is not touched when a call returns, having changed
\* nothing but the context it was given and a fresh block.
LEMMA ReturnHolds ==
    ASSUME DispatchInv, CallsHold,
           NEW t \in Threads, NEW r, pc[t] # "idle", Return(t, r),
           \A c \in Addresses :
              ctx'[c] = ctx[c] \/ c = arg[t] \/ (c \in Blocks /\ ctx[c] = NULL)
    PROVE  /\ CallsHold'
           /\ block' = [block EXCEPT ![t] = NULL]
<1>1. /\ block' = [block EXCEPT ![t] = NULL]
      /\ pc'[t] = "idle" /\ op'[t] = NULL /\ block'[t] = NULL
      /\ \A u \in Threads : u # t =>
           /\ pc'[u] = pc[u] /\ op'[u] = op[u] /\ arg'[u] = arg[u]
           /\ block'[u] = block[u]
  BY DEF Return, Goto, DispatchInv, TypeOK
<1>2. ASSUME NEW u \in Threads, u # t, pc[u] = "release"
      PROVE  ctx'[arg[u]] = ctx[arg[u]]
  <2>1. op[u] = "free" /\ arg[u] \in Addresses /\ ctx[arg[u]] # NULL
    BY <1>2 DEF DispatchInv, Exclusive, Addresses
  <2>2. arg[u] # arg[t] /\ arg[u] # NULL
    BY <1>2, <2>1, HeapTypes DEF DispatchInv, Exclusive
  <2> QED BY <2>1, <2>2
<1>3. ASSUME NEW u \in Threads, u # t, op[u] = "init_in"
      PROVE  ctx'[arg[u]] = ctx[arg[u]]
  <2>1. arg[u] \in Storages /\ pc[u] # "idle"
    BY <1>3, DisjointAssumption DEF DispatchInv, Exclusive
  <2>2. arg[u] # arg[t] /\ arg[u] \notin Blocks /\ arg[u] \in Addresses
    BY <1>3, <2>1, DisjointAssumption DEF DispatchInv, Exclusive, Addresses
  <2> QED BY <2>2
<1>4. ASSUME NEW u \in Threads
      PROVE  /\ block'[u] # NULL => pc'[u] = "create"
             /\ pc'[u] = "release" => ctx'[arg'[u]].xxh = NULL
             /\ op'[u] = "free" => arg'[u] \in Blocks
             /\ op'[u] = "init_in" => arg'[u] \in Aligned /\ ctx'[arg'[u]] = NULL
  <2>1. CASE u = t
    BY <1>1, <2>1, DisjointAssumption
  <2>2. CASE u # t
    BY <1>1, <1>2, <1>3, <2>2 DEF CallsHold
  <2> QED BY <2>1, <2>2
<1> QED BY <1>1, <1>4 DEF CallsHold

\* A call begins on what its caller may give it.
LEMMA EnterHeap ==
    ASSUME DispatchInv, HeapInv, NEW t \in Threads, NEW f, NEW c, Enter(t, f, c),
           f = "free" => c \in Blocks,
           f = "init_in" => c \in Aligned /\ ctx[c] = NULL
    PROVE  HeapInv'
<1>1. /\ pc'[t] = "read" /\ op'[t] = f /\ arg'[t] = c
      /\ \A u \in Threads : u # t =>
           pc'[u] = pc[u] /\ op'[u] = op[u] /\ arg'[u] = arg[u]
      /\ pc[t] = "idle" /\ UNCHANGED <<block, heap, ctx>>
  BY DEF Enter, DispatchInv, TypeOK
<1>2. Ledger' /\ InPlaceIsV15'
  BY <1>1, MemoryUntouched
<1>3. CallsHold'
  BY <1>1 DEF HeapInv, CallsHold
<1> QED BY <1>2, <1>3 DEF HeapInv

\* Beginning a call and looking for the vtable touch no memory.
LEMMA CallHeap ==
    ASSUME DispatchInv, HeapInv, NEW t \in Threads,
           Call(t) \/ ReadCached(t) \/ Resolve(t) \/ Publish(t)
    PROVE  HeapInv'
<1>1. CASE CallGlobal(t)
  BY <1>1, EnterHeap DEF CallGlobal
<1>2. ASSUME NEW c \in Addresses, CallUpdate(t, c) \/ CallFinalize(t, c)
      PROVE  HeapInv'
  BY <1>2, EnterHeap DEF CallUpdate, CallFinalize
<1>3. ASSUME NEW c \in Addresses, CallFree(t, c)
      PROVE  HeapInv'
  BY <1>3, EnterHeap DEF CallFree
<1>4. ASSUME NEW c \in Addresses, CallInitIn(t, c)
      PROVE  HeapInv'
  BY <1>4, EnterHeap DEF CallInitIn
<1>5. CASE RejectStorage(t)
  <2>1. UNCHANGED <<pc, op, arg, block, heap, ctx>>
    BY <1>5 DEF RejectStorage
  <2> QED BY <2>1, MemoryUntouched DEF HeapInv, CallsHold
<1>6. CASE ReadCached(t) \/ Resolve(t) \/ Publish(t)
  <2>1. /\ pc[t] \in {"read", "resolve", "publish"}
        /\ pc'[t] \in {"resolve", "publish", "run"}
        /\ \A u \in Threads : u # t => pc'[u] = pc[u]
        /\ UNCHANGED <<op, arg, block, heap, ctx>>
    BY <1>6 DEF ReadCached, Resolve, Publish, Goto, DispatchInv, TypeOK
  <2>2. CallsHold'
    BY <2>1 DEF HeapInv, CallsHold
  <2> QED BY <2>1, <2>2, MemoryUntouched DEF HeapInv
<1> QED BY <1>1, <1>2, <1>3, <1>4, <1>5, <1>6 DEF Call, Addresses

\* A call that changes no memory returns.
LEMMA PlainReturnHeap ==
    ASSUME DispatchInv, HeapInv, NEW t \in Threads, NEW r,
           pc[t] = "run", Return(t, r), UNCHANGED <<heap, ctx>>
    PROVE  HeapInv'
<1>1. CallsHold' /\ block' = [block EXCEPT ![t] = NULL]
  BY ReturnHolds DEF HeapInv
<1>2. block' = block
  BY <1>1, HeapTypes DEF HeapInv, CallsHold
<1> QED BY <1>1, <1>2, MemoryUntouched DEF HeapInv

\* finalize only marks its context.
LEMMA FinalizeHeap ==
    ASSUME DispatchInv, HeapInv, NEW t \in Threads, Finalize(t)
    PROVE  HeapInv'
<1>1. /\ pc[t] = "run" /\ op[t] = "finalize" /\ heap' = heap /\ Return(t, NULL)
      /\ ctx' = [ctx EXCEPT ![arg[t]].spent = TRUE]
  BY DEF Finalize, Running
<1>2. arg[t] \in Addresses /\ ctx[arg[t]] # NULL /\ ctx[arg[t]] \in Contexts
  BY <1>1, HeapTypes DEF DispatchInv, Exclusive, Addresses
<1>3. PICK x : /\ x = [ctx[arg[t]] EXCEPT !.spent = TRUE] /\ x # NULL
              /\ x.maker = ctx[arg[t]].maker /\ x.xxh = ctx[arg[t]].xxh
  BY <1>2, Updated
<1>4. \A c \in Addresses : ctx'[c] = IF c = arg[t] THEN x ELSE ctx[c]
  BY <1>1, <1>2, <1>3, HeapTypes
<1>5. /\ CallsHold' /\ block' = [block EXCEPT ![t] = NULL]
  BY <1>1, <1>4, ReturnHolds DEF HeapInv
<1>6. block' = block
  BY <1>1, <1>5, HeapTypes DEF HeapInv, CallsHold
<1>7. \A c \in Addresses, a \in Blocks : Holds(c, a)' <=> Holds(c, a)
  BY <1>2, <1>3, <1>4 DEF Holds
<1>8. ASSUME NEW c \in Blocks, ctx'[c] # NULL PROVE ctx'[c].xxh # c
  <2>1. ctx[c] # NULL => ctx[c].xxh # c
    BY DEF HeapInv, Ledger
  <2>2. c \in Addresses
    BY DEF Addresses
  <2> QED BY <1>2, <1>3, <1>4, <1>8, <2>1, <2>2
<1>9. Ledger'
  BY <1>1, <1>6, <1>7, <1>8, LedgerSame DEF HeapInv
<1>10. InPlaceIsV15'
  <2>1. Storages \subseteq Addresses
    BY DEF Addresses
  <2>2. /\ \A c \in Addresses :
             ctx[c] # NULL /\ ctx[c].maker = "v15" => ctx[c].xxh = NULL
        /\ \A s \in Storages :
             ctx[s] # NULL =>
                 ctx[s].maker = "v15" /\ s \in Aligned /\ StorageSize[s] >= V15Bytes
    BY DEF HeapInv, InPlaceIsV15
  <2>3. ASSUME NEW c \in Addresses, ctx'[c] # NULL
        PROVE  ctx[c] # NULL /\ ctx'[c].maker = ctx[c].maker /\ ctx'[c].xxh = ctx[c].xxh
    BY <1>2, <1>3, <1>4, <2>3
  <2> QED BY <2>1, <2>2, <2>3 DEF InPlaceIsV15
<1> QED BY <1>5, <1>9, <1>10 DEF HeapInv

\* river5_init_in makes a context that fits its storage and holds no block.
LEMMA InitInHeap ==
    ASSUME DispatchInv, HeapInv, NEW t \in Threads, InitIn(t)
    PROVE  HeapInv'
<1>1. pc[t] = "run" /\ op[t] = "init_in" /\ heap' = heap
  BY DEF InitIn, Running
<1>2. arg[t] \in Storages /\ arg[t] \in Aligned /\ ctx[arg[t]] = NULL
  BY <1>1, StorageAssumption DEF HeapInv, CallsHold
<1>3. CASE ~(StorageSize[arg[t]] >= ctx_bytes_required(v[t]) /\ v[t] = "v15")
  <2>1. Return(t, NULL) /\ ctx' = ctx
    BY <1>3 DEF InitIn
  <2> QED BY <1>1, <2>1, PlainReturnHeap
<1>4. CASE StorageSize[arg[t]] >= ctx_bytes_required(v[t]) /\ v[t] = "v15"
  <2>1. /\ Return(t, arg[t]) /\ ctx' = [ctx EXCEPT ![arg[t]] = NewContext("v15", NULL)]
        /\ StorageSize[arg[t]] >= V15Bytes
    BY <1>4 DEF InitIn, ctx_bytes_required
  <2>2. PICK x : x = NewContext("v15", NULL) /\ x # NULL /\ x.maker = "v15" /\ x.xxh = NULL
    BY Fresh DEF Backends
  <2>3. \A c \in Addresses : ctx'[c] = IF c = arg[t] THEN x ELSE ctx[c]
    BY <2>1, <2>2, HeapTypes
  <2>4. CallsHold' /\ block' = [block EXCEPT ![t] = NULL]
    BY <1>1, <2>1, <2>3, ReturnHolds DEF HeapInv
  <2>5. block' = block
    BY <1>1, <2>4, HeapTypes DEF HeapInv, CallsHold
  <2>6. \A c \in Addresses, a \in Blocks : Holds(c, a)' <=> Holds(c, a)
    BY <1>2, <2>2, <2>3, DisjointAssumption DEF Holds
  <2>7. \A c \in Blocks : ctx'[c] # NULL => ctx'[c].xxh # c
    BY <1>2, <2>3, DisjointAssumption DEF HeapInv, Ledger, Addresses
  <2>8. Ledger'
    BY <1>1, <2>5, <2>6, <2>7, LedgerSame DEF HeapInv
  <2>9. InPlaceIsV15'
    BY <1>2, <2>1, <2>2, <2>3 DEF HeapInv, InPlaceIsV15, Addresses
  <2> QED BY <2>4, <2>8, <2>9 DEF HeapInv
<1> QED BY <1>3, <1>4

\* The end of caller-owned storage releases no block, for there is none.
LEMMA DropHeap ==
    ASSUME DispatchInv, HeapInv, NEW s \in Storages, DropStorage(s)
    PROVE  HeapInv'
<1>1. /\ \A t \in Threads : pc[t] # "idle" => arg[t] # s
      /\ ctx' = [ctx EXCEPT ![s] = NULL] /\ ctx[s] # NULL
      /\ UNCHANGED <<pc, op, arg, block, heap>>
  BY DEF DropStorage, Busy, threadVars
<1>2. \A c \in Addresses : ctx'[c] = IF c = s THEN NULL ELSE ctx[c]
  BY <1>1, HeapTypes
<1>3. s \in Addresses /\ s \notin Blocks /\ ctx[s].xxh = NULL
  BY <1>1, DisjointAssumption DEF HeapInv, InPlaceIsV15, Addresses
<1>4. \A c \in Addresses, a \in Blocks : Holds(c, a)' <=> Holds(c, a)
  BY <1>2, <1>3, DisjointAssumption DEF Holds
<1>5. \A c \in Blocks : ctx'[c] # NULL => ctx'[c].xxh # c
  BY <1>2, <1>3 DEF HeapInv, Ledger, Addresses
<1>6. Ledger'
  BY <1>1, <1>4, <1>5, LedgerSame DEF HeapInv
<1>7. InPlaceIsV15'
  BY <1>2, <1>3 DEF HeapInv, InPlaceIsV15, Addresses
<1>8. ASSUME NEW t \in Threads, pc[t] = "release" \/ op[t] = "init_in"
      PROVE  ctx'[arg[t]] = ctx[arg[t]]
  <2>1. arg[t] \in Addresses /\ pc[t] # "idle"
    BY <1>8, DisjointAssumption DEF DispatchInv, Exclusive, Addresses
  <2> QED BY <1>1, <1>2, <2>1
<1>9. CallsHold'
  BY <1>1, <1>8 DEF HeapInv, CallsHold
<1> QED BY <1>6, <1>7, <1>9 DEF HeapInv

\* A block malloc hands out is nobody's.
LEMMA FreeBlock ==
    ASSUME DispatchInv, HeapInv, NEW a \in Blocks \ heap
    PROVE  /\ a \in Addresses /\ a # NULL /\ a \notin Storages
           /\ \A c \in Addresses : ~Holds(c, a)
           /\ \A t \in Threads : block[t] # a
           /\ ctx[a] = NULL
<1>1. a \in Addresses /\ a # NULL /\ a \notin Storages
  BY DisjointAssumption DEF Addresses
<1>2. (\A c \in Addresses : ~Holds(c, a)) /\ \A t \in Threads : block[t] # a
  BY DEF HeapInv, Ledger
<1> QED BY <1>1, <1>2 DEF Holds

\* v15_new allocates one block and makes a context of it.
LEMMA V15NewHeap ==
    ASSUME DispatchInv, HeapInv, NEW t \in Threads, NEW a \in Blocks, V15New(t, a)
    PROVE  HeapInv'
<1>1. /\ pc[t] = "run" /\ a \in Blocks \ heap /\ heap' = heap \cup {a} /\ Return(t, a)
      /\ ctx' = [ctx EXCEPT ![a] = NewContext("v15", NULL)]
  BY DEF V15New, Running
<1>2. PICK x : x = NewContext("v15", NULL) /\ x # NULL /\ x.maker = "v15" /\ x.xxh = NULL
  BY Fresh DEF Backends
<1>3. \A c \in Addresses : ctx'[c] = IF c = a THEN x ELSE ctx[c]
  BY <1>1, <1>2, HeapTypes
<1>4. /\ a \in Addresses /\ a # NULL /\ a \notin Storages /\ ctx[a] = NULL
      /\ \A c \in Addresses : ~Holds(c, a)
      /\ \A u \in Threads : block[u] # a
  BY <1>1, FreeBlock
<1>5. CallsHold' /\ block' = [block EXCEPT ![t] = NULL]
  BY <1>1, <1>3, <1>4, ReturnHolds DEF HeapInv
<1>6. block' = block
  BY <1>1, <1>5, HeapTypes DEF HeapInv, CallsHold
<1>7. \A c \in Addresses, b \in Blocks :
         Holds(c, b)' <=> Holds(c, b) \/ (c = a /\ b = a)
  BY <1>2, <1>3, <1>4, DisjointAssumption DEF Holds
<1>8. ASSUME NEW c \in Blocks, ctx'[c] # NULL PROVE ctx'[c].xxh # c
  <2>1. c \in Addresses /\ (ctx[c] # NULL => ctx[c].xxh # c)
    BY DEF HeapInv, Ledger, Addresses
  <2> QED BY <1>2, <1>3, <1>4, <1>8, <2>1
<1>9. Ledger'
  <2>1. ASSUME NEW b \in Blocks
        PROVE  b \in heap' <=> \/ \E c \in Addresses : Holds(c, b)'
                               \/ \E u \in Threads : block'[u] = b
    BY <1>1, <1>4, <1>6, <1>7 DEF HeapInv, Ledger
  <2>2. \A b \in Blocks, c, d \in Addresses : Holds(c, b)' /\ Holds(d, b)' => c = d
    BY <1>4, <1>7 DEF HeapInv, Ledger
  <2>3. \A u \in Threads, c \in Addresses, b \in Blocks :
           ~(block'[u] = b /\ Holds(c, b)')
    BY <1>4, <1>6, <1>7 DEF HeapInv, Ledger
  <2> QED BY <1>6, <1>8, <2>1, <2>2, <2>3 DEF HeapInv, Ledger, Addresses
<1>10. InPlaceIsV15'
  BY <1>2, <1>3, <1>4 DEF HeapInv, InPlaceIsV15, Addresses
<1> QED BY <1>5, <1>9, <1>10 DEF HeapInv

\* stub_new's first allocation is in its own hands.
LEMMA StubMallocHeap ==
    ASSUME DispatchInv, HeapInv, NEW t \in Threads, NEW a \in Blocks, StubMalloc(t, a)
    PROVE  HeapInv'
<1>1. /\ pc[t] = "run" /\ op[t] = "new" /\ a \in Blocks \ heap /\ heap' = heap \cup {a}
      /\ block' = [block EXCEPT ![t] = a] /\ pc' = [pc EXCEPT ![t] = "create"]
      /\ UNCHANGED <<op, arg, ctx>>
  BY DEF StubMalloc, Running, Goto
<1>2. /\ a # NULL /\ \A c \in Addresses : ~Holds(c, a)
      /\ \A u \in Threads : block[u] # a
  BY <1>1, FreeBlock
<1>3. /\ \A u \in Threads : block'[u] = IF u = t THEN a ELSE block[u]
      /\ \A u \in Threads : pc'[u] = IF u = t THEN "create" ELSE pc[u]
      /\ block[t] = NULL
  BY <1>1, HeapTypes DEF DispatchInv, TypeOK, HeapInv, CallsHold
<1>4. \A c \in Addresses, b \in Blocks : Holds(c, b)' <=> Holds(c, b)
  BY <1>1 DEF Holds
<1>5. Ledger'
  <2>1. ASSUME NEW b \in Blocks
        PROVE  b \in heap' <=> \/ \E c \in Addresses : Holds(c, b)'
                               \/ \E u \in Threads : block'[u] = b
    <3>1. b \in heap' <=> b \in heap \/ b = a
      BY <1>1
    <3>2. b # NULL
      BY DisjointAssumption
    <3>3. (\E u \in Threads : block'[u] = b) <=> (\E u \in Threads : block[u] = b) \/ b = a
      BY <1>3, <3>2
    <3> QED BY <1>4, <3>1, <3>3 DEF HeapInv, Ledger
  <2>2. \A b \in Blocks, c, d \in Addresses : Holds(c, b)' /\ Holds(d, b)' => c = d
    BY <1>4 DEF HeapInv, Ledger
  <2>3. \A u \in Threads, c \in Addresses, b \in Blocks :
           ~(block'[u] = b /\ Holds(c, b)')
    BY <1>2, <1>3, <1>4 DEF HeapInv, Ledger
  <2>4. \A u, w \in Threads : u # w /\ block'[u] = block'[w] => block'[u] = NULL
    BY <1>2, <1>3 DEF HeapInv, Ledger
  <2>5. \A c \in Blocks : ctx'[c] # NULL => ctx'[c].xxh # c
    BY <1>1 DEF HeapInv, Ledger
  <2> QED BY <2>1, <2>2, <2>3, <2>4, <2>5 DEF Ledger, Addresses
<1>6. CallsHold'
  BY <1>1, <1>3 DEF HeapInv, CallsHold
<1>7. InPlaceIsV15'
  BY <1>1 DEF HeapInv, InPlaceIsV15
<1> QED BY <1>5, <1>6, <1>7 DEF HeapInv

\* Once its XXH3 state exists both blocks go to the context, which is returned.
LEMMA StubCreateStateHeap ==
    ASSUME DispatchInv, HeapInv, NEW t \in Threads, NEW a \in Blocks, StubCreateState(t, a)
    PROVE  HeapInv'
<1>1. /\ pc[t] = "create" /\ a \in Blocks \ heap /\ heap' = heap \cup {a}
      /\ Return(t, block[t]) /\ ctx' = [ctx EXCEPT ![block[t]] = NewContext("stub", a)]
  BY DEF StubCreateState
<1> DEFINE m == block[t]
<1>2. m \in Blocks /\ m \in Addresses /\ m # NULL /\ m \notin Storages
  BY <1>1, DisjointAssumption DEF DispatchInv, Exclusive, Addresses
<1>3. /\ a \in Addresses /\ a # NULL /\ ctx[a] = NULL
      /\ \A c \in Addresses : ~Holds(c, a)
      /\ \A u \in Threads : block[u] # a
  BY <1>1, FreeBlock
<1>4. PICK x : x = NewContext("stub", a) /\ x # NULL /\ x.maker = "stub" /\ x.xxh = a
  BY Fresh DEF Backends
<1>5. \A c \in Addresses : ctx'[c] = IF c = m THEN x ELSE ctx[c]
  BY <1>1, <1>2, <1>4, HeapTypes
<1>6. ctx[m] = NULL /\ m \in heap /\ m # a /\ \A c \in Addresses : ~Holds(c, m)
  <2>1. ~Holds(m, m) /\ \A c \in Addresses : ~Holds(c, m)
    BY <1>2 DEF HeapInv, Ledger
  <2> QED BY <1>2, <1>3, <2>1 DEF Holds, HeapInv, Ledger
<1>7. CallsHold' /\ block' = [block EXCEPT ![t] = NULL]
  BY <1>1, <1>2, <1>5, <1>6, ReturnHolds DEF HeapInv
<1>8. \A u \in Threads : block'[u] = IF u = t THEN NULL ELSE block[u]
  BY <1>7, HeapTypes
<1>9. \A c \in Addresses, b \in Blocks :
         Holds(c, b)' <=> Holds(c, b) \/ (c = m /\ b \in {m, a})
  BY <1>4, <1>5, <1>6 DEF Holds
<1>10. ASSUME NEW c \in Blocks, ctx'[c] # NULL PROVE ctx'[c].xxh # c
  <2>1. c \in Addresses /\ (ctx[c] # NULL => ctx[c].xxh # c)
    BY DEF HeapInv, Ledger, Addresses
  <2> QED BY <1>4, <1>5, <1>6, <1>10, <2>1
<1>11. \A u \in Threads : u # t => block[u] # m
  BY <1>2 DEF HeapInv, Ledger
<1> HIDE DEF m
<1>12. Ledger'
  <2>1. ASSUME NEW b \in Blocks
        PROVE  b \in heap' <=> \/ \E c \in Addresses : Holds(c, b)'
                               \/ \E u \in Threads : block'[u] = b
    <3>1. b \in heap' <=> b \in heap \/ b = a
      BY <1>1
    <3>2. (\E u \in Threads : block[u] = b)
             <=> (\E u \in Threads : block'[u] = b) \/ b = m
      <4>1. b # NULL
        BY DisjointAssumption
      <4> QED BY <1>8, <1>11, <4>1 DEF m
    <3>3. (\E c \in Addresses : Holds(c, b)')
             <=> (\E c \in Addresses : Holds(c, b)) \/ b \in {m, a}
      BY <1>2, <1>9
    <3>4. b \in heap <=> \/ \E c \in Addresses : Holds(c, b)
                         \/ \E u \in Threads : block[u] = b
      BY DEF HeapInv, Ledger
    <3> QED BY <3>1, <3>2, <3>3, <3>4
  <2>2. \A b \in Blocks, c, d \in Addresses : Holds(c, b)' /\ Holds(d, b)' => c = d
    BY <1>3, <1>6, <1>9 DEF HeapInv, Ledger
  <2>3. \A u \in Threads, c \in Addresses, b \in Blocks :
           ~(block'[u] = b /\ Holds(c, b)')
    BY <1>3, <1>8, <1>9, <1>11, DisjointAssumption DEF HeapInv, Ledger
  <2>4. \A u, w \in Threads : u # w /\ block'[u] = block'[w] => block'[u] = NULL
    BY <1>8 DEF HeapInv, Ledger
  <2> QED BY <1>10, <2>1, <2>2, <2>3, <2>4 DEF Ledger, Addresses
<1>13. InPlaceIsV15'
  BY <1>2, <1>4, <1>5 DEF HeapInv, InPlaceIsV15, Addresses
<1> QED BY <1>7, <1>12, <1>13 DEF HeapInv

\* Without an XXH3 state the first allocation is given back.
LEMMA StubCreateFailsHeap ==
    ASSUME DispatchInv, HeapInv, NEW t \in Threads, StubCreateFails(t)
    PROVE  HeapInv'
<1>1. pc[t] = "create" /\ heap' = heap \ {block[t]} /\ Return(t, NULL) /\ ctx' = ctx
  BY DEF StubCreateFails
<1>2. block[t] \in Blocks /\ block[t] # NULL
  BY <1>1, DisjointAssumption DEF DispatchInv, Exclusive
<1>3. CallsHold' /\ block' = [block EXCEPT ![t] = NULL]
  BY <1>1, ReturnHolds DEF HeapInv
<1>4. \A u \in Threads : block'[u] = IF u = t THEN NULL ELSE block[u]
  BY <1>3, HeapTypes
<1>5. \A c \in Addresses, b \in Blocks : Holds(c, b)' <=> Holds(c, b)
  BY <1>1 DEF Holds
<1>6. Ledger'
  <2>1. ASSUME NEW b \in Blocks
        PROVE  b \in heap' <=> \/ \E c \in Addresses : Holds(c, b)'
                               \/ \E u \in Threads : block'[u] = b
    <3>1. (\E u \in Threads : block'[u] = b)
             <=> b # block[t] /\ (\E u \in Threads : block[u] = b)
      <4>1. b # NULL
        BY DisjointAssumption
      <4>2. \A u \in Threads : u # t => block[u] # block[t]
        BY <1>2 DEF HeapInv, Ledger
      <4> QED BY <1>4, <4>1, <4>2
    <3>2. b = block[t] => \A c \in Addresses : ~Holds(c, b)
      BY DEF HeapInv, Ledger
    <3>3. b \in heap <=> \/ \E c \in Addresses : Holds(c, b)
                         \/ \E u \in Threads : block[u] = b
      BY DEF HeapInv, Ledger
    <3> QED BY <1>1, <1>5, <3>1, <3>2, <3>3
  <2>2. \A b \in Blocks, c, d \in Addresses : Holds(c, b)' /\ Holds(d, b)' => c = d
    BY <1>5 DEF HeapInv, Ledger
  <2>3. \A u \in Threads, c \in Addresses, b \in Blocks :
           ~(block'[u] = b /\ Holds(c, b)')
    BY <1>4, <1>5, DisjointAssumption DEF HeapInv, Ledger
  <2>4. \A u, w \in Threads : u # w /\ block'[u] = block'[w] => block'[u] = NULL
    BY <1>4 DEF HeapInv, Ledger
  <2>5. \A c \in Blocks : ctx'[c] # NULL => ctx'[c].xxh # c
    BY <1>1 DEF HeapInv, Ledger
  <2> QED BY <2>1, <2>2, <2>3, <2>4, <2>5 DEF Ledger, Addresses
<1>7. InPlaceIsV15'
  BY <1>1 DEF HeapInv, InPlaceIsV15
<1> QED BY <1>3, <1>6, <1>7 DEF HeapInv

\* stub_free gives the XXH3 state back while it still holds the context.
LEMMA StubFreeStateHeap ==
    ASSUME DispatchInv, HeapInv, NEW t \in Threads, StubFreeState(t)
    PROVE  HeapInv'
<1> DEFINE m == arg[t]
           y == ctx[arg[t]].xxh
<1>1. /\ pc[t] = "run" /\ op[t] = "free" /\ heap' = heap \ {y}
      /\ ctx' = [ctx EXCEPT ![m].xxh = NULL] /\ pc' = [pc EXCEPT ![t] = "release"]
      /\ UNCHANGED <<op, arg, block>>
  BY DEF StubFreeState, Running, Goto
<1>2. m \in Blocks /\ m \in Addresses /\ m \notin Storages
  BY <1>1, DisjointAssumption DEF HeapInv, CallsHold, Addresses
<1>3. ctx[m] # NULL /\ ctx[m] \in Contexts /\ y \in Blocks \cup {NULL} /\ y # m
  BY <1>1, <1>2, HeapTypes DEF DispatchInv, Exclusive, HeapInv, Ledger
<1>4. PICK x : /\ x = [ctx[m] EXCEPT !.xxh = NULL] /\ x # NULL
              /\ x.maker = ctx[m].maker /\ x.xxh = NULL
  BY <1>3, Updated
<1>5. \A c \in Addresses : ctx'[c] = IF c = m THEN x ELSE ctx[c]
  BY <1>1, <1>2, <1>4, HeapTypes
<1>6. /\ \A u \in Threads : pc'[u] = IF u = t THEN "release" ELSE pc[u]
      /\ block[t] = NULL
  BY <1>1, HeapTypes DEF DispatchInv, TypeOK, HeapInv, CallsHold
<1>7. y # NULL => Holds(m, y)
  BY <1>3 DEF Holds
<1>8. \A c \in Addresses, b \in Blocks : Holds(c, b)' <=> Holds(c, b) /\ b # y
  <2>1. ASSUME NEW c \in Addresses, NEW b \in Blocks, c # m
        PROVE  Holds(c, b)' <=> Holds(c, b) /\ b # y
    <3>1. b = y => ~Holds(c, b)
      BY <1>2, <1>7, <2>1, DisjointAssumption DEF HeapInv, Ledger
    <3> QED BY <1>5, <2>1, <3>1 DEF Holds
  <2>2. ASSUME NEW c \in Addresses, NEW b \in Blocks, c = m
        PROVE  Holds(c, b)' <=> Holds(c, b) /\ b # y
    <3>1. b # NULL
      BY DisjointAssumption
    <3>2. Holds(c, b)' <=> b = c
      BY <1>4, <1>5, <2>2, <3>1 DEF Holds
    <3>3. Holds(c, b) <=> b = c \/ b = y
      BY <1>3, <2>2 DEF Holds
    <3> QED BY <1>3, <2>2, <3>2, <3>3
  <2> QED BY <2>1, <2>2
<1>9. \A c \in Addresses : ctx'[c] # NULL => ctx[c] # NULL /\ ctx'[c].xxh \in {NULL, ctx[c].xxh}
  BY <1>3, <1>4, <1>5
<1>10. ASSUME NEW u \in Threads, u # t, pc[u] = "release" \/ op[u] = "init_in"
      PROVE  ctx'[arg[u]] = ctx[arg[u]]
  <2>1. arg[u] \in Addresses /\ pc[u] # "idle"
    BY <1>10, DisjointAssumption DEF DispatchInv, Exclusive, Addresses
  <2>2. arg[u] # m
    BY <1>1, <1>10, <2>1, HeapTypes DEF DispatchInv, Exclusive
  <2> QED BY <1>5, <2>1, <2>2
<1>11. ctx'[m].xxh = NULL
  BY <1>2, <1>4, <1>5
<1> HIDE DEF m
<1>12. CallsHold'
  <2>1. ASSUME NEW u \in Threads
        PROVE  /\ block'[u] # NULL => pc'[u] = "create"
               /\ pc'[u] = "release" => ctx'[arg'[u]].xxh = NULL
               /\ op'[u] = "free" => arg'[u] \in Blocks
               /\ op'[u] = "init_in" => arg'[u] \in Aligned /\ ctx'[arg'[u]] = NULL
    BY <1>1, <1>2, <1>6, <1>10, <1>11 DEF HeapInv, CallsHold, m
  <2> QED BY <2>1 DEF CallsHold
<1> HIDE DEF y
<1>13. \A u \in Threads : block[u] # NULL => block[u] # y
  BY <1>2, <1>3, <1>7, DisjointAssumption DEF HeapInv, Ledger
<1>14. Ledger'
  <2>1. ASSUME NEW b \in Blocks
        PROVE  b \in heap' <=> \/ \E c \in Addresses : Holds(c, b)'
                               \/ \E u \in Threads : block'[u] = b
    <3>1. b # NULL
      BY DisjointAssumption
    <3>2. (\E u \in Threads : block'[u] = b) <=> (\E u \in Threads : block[u] = b) /\ b # y
      BY <1>1, <1>13, <3>1
    <3> QED BY <1>1, <1>8, <3>2 DEF HeapInv, Ledger
  <2>2. \A b \in Blocks, c, d \in Addresses : Holds(c, b)' /\ Holds(d, b)' => c = d
    BY <1>8 DEF HeapInv, Ledger
  <2>3. \A u \in Threads, c \in Addresses, b \in Blocks :
           ~(block'[u] = b /\ Holds(c, b)')
    BY <1>1, <1>8 DEF HeapInv, Ledger
  <2>4. \A u, w \in Threads : u # w /\ block'[u] = block'[w] => block'[u] = NULL
    BY <1>1 DEF HeapInv, Ledger
  <2>5. ASSUME NEW c \in Blocks, ctx'[c] # NULL PROVE ctx'[c].xxh # c
    <3>1. c \in Addresses /\ c # NULL
      BY DisjointAssumption DEF Addresses
    <3> QED BY <1>9, <2>5, <3>1 DEF HeapInv, Ledger
  <2> QED BY <2>1, <2>2, <2>3, <2>4, <2>5 DEF Ledger, Addresses
<1>15. InPlaceIsV15'
  <2>1. \A c \in Addresses : ctx'[c] # NULL /\ ctx'[c].maker = "v15" => ctx'[c].xxh = NULL
    BY <1>3, <1>4, <1>5 DEF HeapInv, InPlaceIsV15
  <2>2. \A s \in Storages : s \in Addresses /\ ctx'[s] = ctx[s]
    BY <1>2, <1>5 DEF Addresses
  <2> QED BY <2>1, <2>2 DEF HeapInv, InPlaceIsV15
<1> QED BY <1>12, <1>14, <1>15 DEF HeapInv

\* The context itself is freed when it holds no block but its own.
LEMMA FreeHeap ==
    ASSUME DispatchInv, HeapInv, NEW t \in Threads, V15Free(t) \/ StubFree(t)
    PROVE  HeapInv'
<1> DEFINE m == arg[t]
<1>1. /\ pc[t] \in {"run", "release"} /\ op[t] = "free" /\ heap' = heap \ {m}
      /\ Return(t, NULL) /\ ctx' = [ctx EXCEPT ![m] = NULL]
  BY DEF V15Free, StubFree, Running, DispatchInv, Exclusive
<1>2. m \in Blocks /\ m \in Addresses /\ m # NULL /\ m \notin Storages
  BY <1>1, DisjointAssumption DEF HeapInv, CallsHold, Addresses
<1>3. ctx[m] # NULL /\ ctx[m].maker = v[t]
  BY <1>1 DEF DispatchInv, Exclusive, OneVtable
<1>4. ctx[m].xxh = NULL
  <2>1. CASE V15Free(t)
    BY <1>2, <1>3, <2>1 DEF V15Free, Running, HeapInv, InPlaceIsV15
  <2>2. CASE StubFree(t)
    BY <2>2 DEF StubFree, HeapInv, CallsHold
  <2> QED BY <2>1, <2>2
<1>5. \A c \in Addresses : ctx'[c] = IF c = m THEN NULL ELSE ctx[c]
  BY <1>1, <1>2, HeapTypes
<1>6. CallsHold' /\ block' = [block EXCEPT ![t] = NULL]
  BY <1>1, <1>5, ReturnHolds DEF HeapInv
<1>7. block' = block
  BY <1>1, <1>6, HeapTypes DEF HeapInv, CallsHold
<1>8. Holds(m, m)
  BY <1>3 DEF Holds
<1>9. \A c \in Addresses, b \in Blocks : Holds(c, b)' <=> Holds(c, b) /\ b # m
  <2>1. ASSUME NEW c \in Addresses, NEW b \in Blocks, c # m
        PROVE  Holds(c, b)' <=> Holds(c, b) /\ b # m
    <3>1. b = m => ~Holds(c, b)
      BY <1>2, <1>8, <2>1 DEF HeapInv, Ledger
    <3> QED BY <1>5, <2>1, <3>1 DEF Holds
  <2>2. ASSUME NEW c \in Addresses, NEW b \in Blocks, c = m
        PROVE  Holds(c, b)' <=> Holds(c, b) /\ b # m
    BY <1>4, <1>5, <2>2, DisjointAssumption DEF Holds
  <2> QED BY <2>1, <2>2
<1>10. \A u \in Threads : block[u] # m
  BY <1>2, <1>8 DEF HeapInv, Ledger
<1> HIDE DEF m
<1>11. Ledger'
  <2>1. ASSUME NEW b \in Blocks
        PROVE  b \in heap' <=> \/ \E c \in Addresses : Holds(c, b)'
                               \/ \E u \in Threads : block'[u] = b
    BY <1>1, <1>7, <1>9, <1>10 DEF HeapInv, Ledger
  <2>2. \A b \in Blocks, c, d \in Addresses : Holds(c, b)' /\ Holds(d, b)' => c = d
    BY <1>9 DEF HeapInv, Ledger
  <2>3. \A u \in Threads, c \in Addresses, b \in Blocks :
           ~(block'[u] = b /\ Holds(c, b)')
    BY <1>7, <1>9 DEF HeapInv, Ledger
  <2>4. \A u, w \in Threads : u # w /\ block'[u] = block'[w] => block'[u] = NULL
    BY <1>7 DEF HeapInv, Ledger
  <2>5. \A c \in Blocks : ctx'[c] # NULL => ctx'[c].xxh # c
    BY <1>5 DEF HeapInv, Ledger, Addresses
  <2> QED BY <2>1, <2>2, <2>3, <2>4, <2>5 DEF Ledger, Addresses
<1>12. InPlaceIsV15'
  <2>1. \A c \in Addresses : ctx'[c] # NULL => ctx'[c] = ctx[c]
    BY <1>5
  <2> QED BY <2>1 DEF HeapInv, InPlaceIsV15, Addresses
<1> QED BY <1>6, <1>11, <1>12 DEF HeapInv

-----------------------------------------------------------------------------
(* The theorems *)

\* The invariant survives every step of any thread.
LEMMA HeapNext == DispatchInv /\ HeapInv /\ [Next]_vars => HeapInv'
<1> SUFFICES ASSUME DispatchInv, HeapInv, [Next]_vars PROVE HeapInv'
  OBVIOUS
<1>1. ASSUME NEW t \in Threads, Call(t) PROVE HeapInv'
  BY <1>1, CallHeap
<1>2. ASSUME NEW t \in Threads, Step(t) PROVE HeapInv'
  <2>1. ASSUME Pure(t) \/ AllocFails(t) PROVE HeapInv'
    <3>1. pc[t] = "run" /\ Return(t, NULL) /\ UNCHANGED <<heap, ctx>>
      BY <2>1 DEF Pure, AllocFails, Running
    <3> QED BY <3>1, PlainReturnHeap
  <2>2. ASSUME NEW a \in Blocks, V15New(t, a) \/ StubMalloc(t, a) \/ StubCreateState(t, a)
        PROVE  HeapInv'
    BY <2>2, V15NewHeap, StubMallocHeap, StubCreateStateHeap
  <2>3. ASSUME ReadCached(t) \/ Resolve(t) \/ Publish(t) PROVE HeapInv'
    BY <2>3, CallHeap
  <2>4. ASSUME \/ Finalize(t) \/ InitIn(t) \/ V15Free(t) \/ StubFree(t)
               \/ StubFreeState(t) \/ StubCreateFails(t)
        PROVE  HeapInv'
    BY <2>4, FinalizeHeap, InitInHeap, FreeHeap, StubFreeStateHeap, StubCreateFailsHeap
  <2> QED BY <1>2, <2>1, <2>2, <2>3, <2>4 DEF Step
<1>3. ASSUME NEW s \in Storages, DropStorage(s) PROVE HeapInv'
  BY <1>3, DropHeap
<1>4. CASE UNCHANGED vars
  <2>1. UNCHANGED <<pc, op, arg, block, heap, ctx>>
    BY <1>4 DEF vars, threadVars
  <2> QED BY <2>1, MemoryUntouched DEF HeapInv, CallsHold
<1> QED BY <1>1, <1>2, <1>3, <1>4 DEF Next

\* The ledger is kept in every reachable state.
THEOREM HeapCorrect == Spec => []HeapInv
<1> QED BY HeapInit, DispatchInit, DispatchNext, HeapNext, PTL DEF Spec

\* Every variable keeps its type, in particular every context is one of a
\* backend's and lives in a block or a storage.
THEOREM DispatchTypes == Spec => []TypeOK
<1>1. DispatchInv => TypeOK
  BY DEF DispatchInv
<1> QED BY <1>1, DispatchCorrect, PTL

\* No block leaks, is used after it is freed or belongs to two contexts,
\* whichever of stub_new's allocations fails.
THEOREM HeapIsAccounted == Spec => []HeapAccounted
<1>1. DispatchInv /\ HeapInv => HeapAccounted
  BY LedgerAccounts DEF HeapInv
<1> QED BY <1>1, DispatchCorrect, HeapCorrect, PTL

\* A context made by river5_init_in fits its storage and needs no block.
THEOREM StorageContains == Spec => []InPlaceContained
<1>1. DispatchInv /\ HeapInv => InPlaceContained
  <2> SUFFICES ASSUME HeapInv, NEW s \in Storages, ctx[s] # NULL
               PROVE  /\ s \in Aligned /\ StorageSize[s] >= V15Bytes
                      /\ Owned(s) = {}
    BY DEF InPlaceContained
  <2>1. s \in Aligned /\ StorageSize[s] >= V15Bytes /\ ctx[s].xxh = NULL
    BY DEF HeapInv, InPlaceIsV15, Addresses
  <2> QED BY <2>1, DisjointAssumption DEF Owned
<1> QED BY <1>1, DispatchCorrect, HeapCorrect, PTL
=============================================================================
