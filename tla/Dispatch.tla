------------------------------ MODULE Dispatch ------------------------------
(***************************************************************************)
(* The public API of csrc/river5.c: the lazily resolved pointer to the     *)
(* backend's vtable, raced for by any number of threads, and what the two  *)
(* backends a public caller can reach, river5_aesni_v15.c and              *)
(* river5_stub.c, do to the heap and to caller-owned storage.  The bytes   *)
(* in a context are the subject of AesniStream; here a context is who made *)
(* it, where it lives, the XXH3 state it points to and whether it has been *)
(* finalized.                                                              *)
(*                                                                         *)
(* struct river5_ctx is defined privately by each backend, so a context    *)
(* handled by another backend than its maker's is read with the wrong      *)
(* layout.  Callers keep the contract of include/river5.h: one call at a   *)
(* time per context, no update or finalize after finalize, one free of a   *)
(* heap context and none of a caller-owned one.                            *)
(***************************************************************************)
EXTENDS FiniteSets, Integers

CONSTANTS
    Threads,
    Blocks,            \* the blocks malloc can hand out
    Storages,          \* caller-owned buffers for river5_init_in
    StorageSize,       \* their storage_size argument
    Aligned,           \* those aligned to RIVER5_CTX_ALIGN
    V15Bytes,          \* sizeof(struct river5_ctx) in river5_aesni_v15.c
    HasAesniSources,   \* the build defines RIVER5_HAS_AESNI
    Cpus,              \* the values bit 25 of ECX of CPUID leaf 1 may have
    NULL

Backends == {"v15", "stub"}
Contexts == [maker : Backends, xxh : Blocks \cup {NULL}, spent : BOOLEAN]

ASSUME StorageAssumption ==
    /\ StorageSize \in [Storages -> Nat]
    /\ Aligned \subseteq Storages
    /\ V15Bytes \in Nat
ASSUME DisjointAssumption ==
    /\ Blocks \cap Storages = {}
    /\ NULL \notin Blocks \cup Storages \cup Backends \cup Contexts
    /\ NULL \notin {"hash", "new", "update", "finalize", "free", "init_in"}
ASSUME BuildAssumption == HasAesniSources \in BOOLEAN /\ Cpus \subseteq BOOLEAN

VARIABLES
    CpuHasAesni,   \* what CPUID answers, the same throughout a run
    cached,    \* the static pointer of vtable(), NULL until first resolved
    knows,     \* the threads that have seen or stored a resolved pointer
    pc,        \* pc[t]: where thread t is in its call
    op,        \* op[t]: the API function t is in
    arg,       \* arg[t]: the context or storage it was given
    v,         \* v[t]: the vtable pointer t's call goes through
    block,     \* block[t]: stub_new's context before its XXH3 state exists
    result,    \* result[t]: the pointer t's last call returned
    heap,      \* the allocated blocks
    ctx,       \* the contexts, by the address they live at
    served     \* history: the backends that have served a call

threadVars == <<pc, op, arg, v, block, result>>
vars == <<CpuHasAesni, cached, knows, threadVars, heap, ctx, served>>

Live(c) == ctx[c] # NULL /\ ~ctx[c].spent
Busy(c) == \E t \in Threads : pc[t] # "idle" /\ arg[t] = c
-----------------------------------------------------------------------------
\* As resolve_vtable, still with the default before v15.
resolve_vtable_v6 == IF HasAesniSources /\ CpuHasAesni THEN "v6" ELSE "stub"

\* resolve_vtable: the stub when the build lacks the AES-NI sources.
resolve_vtable == IF HasAesniSources /\ CpuHasAesni THEN "v15" ELSE "stub"

\* As ctx_bytes_required, left at zero in every vtable.
no_bytes_required(b) == 0

\* 0 is the stub's "init_in unsupported".
ctx_bytes_required(b) == IF b = "v15" THEN V15Bytes ELSE 0

Init ==
    /\ CpuHasAesni \in Cpus
    /\ cached = NULL
    /\ knows = {}
    /\ pc = [t \in Threads |-> "idle"]
    /\ op = [t \in Threads |-> NULL]
    /\ arg = [t \in Threads |-> NULL]
    /\ v = [t \in Threads |-> NULL]
    /\ block = [t \in Threads |-> NULL]
    /\ result = [t \in Threads |-> NULL]
    /\ heap = {}
    /\ ctx = [c \in Blocks \cup Storages |-> NULL]
    /\ served = {}

(* Calls *)

Enter(t, f, c) ==
    /\ pc[t] = "idle"
    /\ pc' = [pc EXCEPT ![t] = "read"]
    /\ op' = [op EXCEPT ![t] = f]
    /\ arg' = [arg EXCEPT ![t] = c]
    /\ result' = [result EXCEPT ![t] = NULL]
    /\ UNCHANGED <<cached, knows, v, block, heap, ctx, served>>

\* river5_hash and river5_impl_name; river5_new and river5_new_seeded.
CallGlobal(t) == \E f \in {"hash", "new"} : Enter(t, f, NULL)

CallUpdate(t, c) == Live(c) /\ ~Busy(c) /\ Enter(t, "update", c)

CallFinalize(t, c) == Live(c) /\ ~Busy(c) /\ Enter(t, "finalize", c)

\* river5_free; of NULL it returns at once, without looking for a vtable.
CallFree(t, c) ==
    /\ c \in Blocks /\ ctx[c] # NULL /\ ~Busy(c)
    /\ Enter(t, "free", c)

CallInitIn(t, s) ==
    /\ s \in Aligned /\ ctx[s] = NULL /\ ~Busy(s)
    /\ Enter(t, "init_in", s)

\* river5_init_in turns NULL and misaligned storage away before it looks for a
\* vtable.
RejectStorage(t) ==
    /\ pc[t] = "idle"
    /\ result' = [result EXCEPT ![t] = NULL]
    /\ UNCHANGED <<cached, knows, pc, op, arg, v, block, heap, ctx, served>>

\* The end of the life of caller-owned storage, which no call accompanies.
DropStorage(s) ==
    /\ s \in Storages /\ ctx[s] # NULL /\ ~Busy(s)
    /\ ctx' = [ctx EXCEPT ![s] = NULL]
    /\ UNCHANGED <<cached, knows, threadVars, heap, served>>
-----------------------------------------------------------------------------
(* vtable() *)

Goto(t, l) == pc' = [pc EXCEPT ![t] = l]

\* As ReadCached, with the stub as a placeholder while the CPU is probed.
ReadCachedPlaceholder(t) ==
    /\ pc[t] = "read"
    /\ v' = [v EXCEPT ![t] = cached]
    /\ cached' = IF cached = NULL THEN "stub" ELSE cached
    /\ knows' = knows \cup {t}
    /\ Goto(t, IF cached = NULL THEN "resolve" ELSE "run")
    /\ UNCHANGED <<op, arg, block, result, heap, ctx, served>>

\* The unsynchronised read: a thread may or may not see another's store, but
\* never goes back behind a pointer it has seen or stored itself.
ReadCached(t) ==
    /\ pc[t] = "read"
    /\ \E seen \in {cached} \cup (IF t \in knows THEN {} ELSE {NULL}) :
        /\ v' = [v EXCEPT ![t] = seen]
        /\ knows' = IF seen = NULL THEN knows ELSE knows \cup {t}
        /\ Goto(t, IF seen = NULL THEN "resolve" ELSE "run")
    /\ UNCHANGED <<cached, op, arg, block, result, heap, ctx, served>>

Resolve(t) ==
    /\ pc[t] = "resolve"
    /\ v' = [v EXCEPT ![t] = resolve_vtable]
    /\ Goto(t, "publish")
    /\ UNCHANGED <<cached, knows, op, arg, block, result, heap, ctx, served>>

Publish(t) ==
    /\ pc[t] = "publish"
    /\ cached' = v[t]
    /\ knows' = knows \cup {t}
    /\ Goto(t, "run")
    /\ UNCHANGED <<op, arg, v, block, result, heap, ctx, served>>
-----------------------------------------------------------------------------
(* The backends *)

\* Thread t runs function f of backend b.
Running(t, f, b) == pc[t] = "run" /\ op[t] = f /\ v[t] = b

\* The call ends and returns r.
Return(t, r) ==
    /\ Goto(t, "idle")
    /\ op' = [op EXCEPT ![t] = NULL]
    /\ arg' = [arg EXCEPT ![t] = NULL]
    /\ v' = [v EXCEPT ![t] = NULL]
    /\ block' = [block EXCEPT ![t] = NULL]
    /\ result' = [result EXCEPT ![t] = r]
    /\ served' = served \cup {v[t]}
    /\ UNCHANGED <<cached, knows>>

NewContext(b, x) == [maker |-> b, xxh |-> x, spent |-> FALSE]

\* one_shot, which touches no context, and update, which changes only bytes.
Pure(t) ==
    /\ \E f \in {"hash", "update"}, b \in Backends : Running(t, f, b)
    /\ Return(t, NULL)
    /\ UNCHANGED <<heap, ctx>>

Finalize(t) ==
    /\ \E b \in Backends : Running(t, "finalize", b)
    /\ ctx' = [ctx EXCEPT ![arg[t]].spent = TRUE]
    /\ Return(t, NULL)
    /\ UNCHANGED heap

\* An allocation of either backend fails, and the call returns NULL.
AllocFails(t) ==
    /\ \E b \in Backends : Running(t, "new", b)
    /\ Return(t, NULL)
    /\ UNCHANGED <<heap, ctx>>

V15New(t, a) ==
    /\ Running(t, "new", "v15") /\ a \in Blocks \ heap
    /\ heap' = heap \cup {a}
    /\ ctx' = [ctx EXCEPT ![a] = NewContext("v15", NULL)]
    /\ Return(t, a)

V15Free(t) ==
    /\ Running(t, "free", "v15")
    /\ heap' = heap \ {arg[t]}
    /\ ctx' = [ctx EXCEPT ![arg[t]] = NULL]
    /\ Return(t, NULL)

\* stub_new allocates the context first, then the XXH3 state.
StubMalloc(t, a) ==
    /\ Running(t, "new", "stub") /\ a \in Blocks \ heap
    /\ heap' = heap \cup {a}
    /\ block' = [block EXCEPT ![t] = a]
    /\ Goto(t, "create")
    /\ UNCHANGED <<cached, knows, op, arg, v, result, ctx, served>>

StubCreateState(t, a) ==
    /\ pc[t] = "create" /\ a \in Blocks \ heap
    /\ heap' = heap \cup {a}
    /\ ctx' = [ctx EXCEPT ![block[t]] = NewContext("stub", a)]
    /\ Return(t, block[t])

\* As StubCreateFails, forgetting the context; and trying again without end.
StubCreateLeaks(t) ==
    /\ pc[t] = "create"
    /\ Return(t, NULL)
    /\ UNCHANGED <<heap, ctx>>

StubCreateRetries(t) ==
    /\ pc[t] = "create"
    /\ UNCHANGED <<cached, knows, threadVars, heap, ctx, served>>

\* No memory for the XXH3 state: the context is given back.
StubCreateFails(t) ==
    /\ pc[t] = "create"
    /\ heap' = heap \ {block[t]}
    /\ Return(t, NULL)
    /\ UNCHANGED ctx

\* stub_free frees the XXH3 state first, then the context.
StubFreeState(t) ==
    /\ Running(t, "free", "stub")
    /\ heap' = heap \ {ctx[arg[t]].xxh}
    /\ ctx' = [ctx EXCEPT ![arg[t]].xxh = NULL]
    /\ Goto(t, "release")
    /\ UNCHANGED <<cached, knows, op, arg, v, block, result, served>>

StubFree(t) ==
    /\ pc[t] = "release"
    /\ heap' = heap \ {arg[t]}
    /\ ctx' = [ctx EXCEPT ![arg[t]] = NULL]
    /\ Return(t, NULL)

\* The size check of river5_init_in, and v15_init_in in the storage.
InitIn(t) ==
    /\ \E b \in Backends : Running(t, "init_in", b)
    /\ IF StorageSize[arg[t]] >= ctx_bytes_required(v[t]) /\ v[t] = "v15"
       THEN /\ ctx' = [ctx EXCEPT ![arg[t]] = NewContext("v15", NULL)]
            /\ Return(t, arg[t])
       ELSE /\ Return(t, NULL)
            /\ UNCHANGED ctx
    /\ UNCHANGED heap
-----------------------------------------------------------------------------
Call(t) ==
    \/ CallGlobal(t) \/ RejectStorage(t)
    \/ \E c \in Blocks \cup Storages :
        CallUpdate(t, c) \/ CallFinalize(t, c) \/ CallFree(t, c) \/ CallInitIn(t, c)

Step(t) ==
    \/ ReadCached(t) \/ Resolve(t) \/ Publish(t)
    \/ Pure(t) \/ Finalize(t) \/ AllocFails(t) \/ InitIn(t)
    \/ V15Free(t) \/ StubCreateFails(t) \/ StubFreeState(t) \/ StubFree(t)
    \/ \E a \in Blocks : V15New(t, a) \/ StubMalloc(t, a) \/ StubCreateState(t, a)

Next ==
    /\ \/ \E t \in Threads : Call(t) \/ Step(t)
       \/ \E s \in Storages : DropStorage(s)
    /\ UNCHANGED CpuHasAesni

\* The operating system keeps running a thread that is in a call.
Spec == Init /\ [][Next]_vars /\ \A t \in Threads : WF_vars(Step(t) /\ UNCHANGED CpuHasAesni)
-----------------------------------------------------------------------------
(* Correctness *)

TypeOK ==
    /\ CpuHasAesni \in Cpus
    /\ cached \in Backends \cup {NULL}
    /\ knows \subseteq Threads
    /\ pc \in [Threads -> {"idle", "read", "resolve", "publish", "run",
                           "create", "release"}]
    /\ op \in [Threads -> {"hash", "new", "update", "finalize", "free",
                           "init_in", NULL}]
    /\ arg \in [Threads -> Blocks \cup Storages \cup {NULL}]
    /\ v \in [Threads -> Backends \cup {NULL}]
    /\ block \in [Threads -> Blocks \cup {NULL}]
    /\ result \in [Threads -> Blocks \cup Storages \cup {NULL}]
    /\ heap \subseteq Blocks
    /\ ctx \in [Blocks \cup Storages -> Contexts \cup {NULL}]
    /\ served \subseteq Backends

\* The race on the cached pointer is benign: however the reads and stores of
\* vtable() interleave, one backend serves the whole process.
OneBackend == Cardinality(served) <= 1

\* "The selection sticks for the process lifetime": no later store of another
\* thread replaces a published pointer by a different one.
SelectionSticks == [][cached # NULL => cached' = cached]_vars

\* A context only ever reaches the code of the backend that made it, whichever
\* thread made it and whichever uses it: the private struct layouts never mix.
MakerHandles ==
    \A t \in Threads :
        pc[t] \in {"run", "release"} /\ op[t] \in {"update", "finalize", "free"}
            => ctx[arg[t]] # NULL /\ ctx[arg[t]].maker = v[t]

\* The blocks a thread or a context answers for.
Owned(c) ==
    IF ctx[c] = NULL THEN {} ELSE ({c} \cap Blocks) \cup ({ctx[c].xxh} \ {NULL})

\* Every allocated block has an owner and is allocated: nothing leaks when
\* the second allocation of stub_new fails, nothing is used after free, and no
\* two contexts share memory.
HeapAccounted ==
    /\ heap = (UNION {Owned(c) : c \in Blocks \cup Storages})
                \cup ({block[t] : t \in Threads} \ {NULL})
    /\ \A c, d \in Blocks \cup Storages : c # d => Owned(c) \cap Owned(d) = {}
    /\ \A t \in Threads, c \in Blocks \cup Storages : block[t] \notin Owned(c)
    /\ \A t, u \in Threads : t # u /\ block[t] = block[u] => block[t] = NULL

\* A context in caller-owned storage fits in it, is aligned and needs no heap,
\* so that dropping the storage without a call releases all of it.
InPlaceContained ==
    \A s \in Storages :
        ctx[s] # NULL =>
            /\ s \in Aligned /\ StorageSize[s] >= V15Bytes
            /\ Owned(s) = {}

\* Every call returns, however often the threads race.
CallsReturn == \A t \in Threads : pc[t] # "idle" ~> pc[t] = "idle"
-----------------------------------------------------------------------------
(* Claims of the documentation that the code does not keep *)

\* bench/hashes.c:54, of the public API: "routes to v15 on AES-NI CPUs".
RoutesToV15 == CpuHasAesni => served \subseteq {"v15"}

\* include/river5.h:44-45: river5_init_in "Returns the same ctx pointer (cast
\* from the storage) on success, NULL on size/alignment error."
InitInSucceeds ==
    [][\A t \in Threads, s \in Aligned :
          op[t] = "init_in" /\ arg[t] = s /\ op'[t] = NULL
              /\ StorageSize[s] >= V15Bytes
                => result'[t] = s]_vars
=============================================================================
