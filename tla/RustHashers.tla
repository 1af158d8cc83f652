----------------------------- MODULE RustHashers -----------------------------
(***************************************************************************)
(* The two hashers of the Rust crate, src/lib.rs, on top of the C API of   *)
(* Dispatch: Hasher, which owns a heap context, and StackHasher, which     *)
(* carries the context in its own bytes where river5_init_in allows it and *)
(* falls back to the heap where it does not.  A value lives at a place (a  *)
(* stack slot, an element of a Vec) and may be moved to another one, or to *)
(* another thread, between any two calls.                                  *)
(*                                                                         *)
(* Dispatch lets callers make only the calls include/river5.h allows.  The *)
(* crate's calls are made here without that guard, whatever the state, and *)
(* that they are allowed is what is to be shown.  What the language itself *)
(* guarantees is assumed: a value is used by one thread at a time, not     *)
(* moved while a method runs on it, and dropped once.                      *)
(***************************************************************************)
EXTENDS Dispatch

CONSTANT RIVER5_CTX_BYTES     \* the size of AlignedCtxStorage

\* A storage is where a value can live.
Places == Storages

\* Each is as large and as aligned as the other: repr(C, align(16)).
ASSUME PlaceAssumption ==
    /\ RIVER5_CTX_BYTES \in Nat
    /\ StorageSize = [p \in Places |-> RIVER5_CTX_BYTES]
    /\ Aligned = Places

VARIABLES
    value,     \* value[p]: the hasher living at place p, NULL if none
    method,    \* method[t]: the crate's function thread t is in, NULL if none
    self       \* self[t]: the place of the value it works on

apiVars == <<cached, knows, pc, op, arg, v, block, result, heap, ctx, served>>
rustVars == <<CpuHasAesni, apiVars, value, method, self>>

Methods == {"hash", "Hasher::new", "init_in", "fallback", "update", "finalize", "drop"}

\* struct Hasher and struct StackHasher; Hasher's ctx is its backing.
Hashers == [type : {"Hasher"}, backing : Blocks]
           \cup [type : {"StackHasher"}, backing : Blocks \cup {"InPlace"}]

ASSUME NullAssumption == "InPlace" \notin Blocks /\ NULL \notin Methods \cup Hashers

InUse(p) == \E t \in Threads : self[t] = p

\* As ctx_ptr, with the address the value was constructed at.
captured_ptr(p) == IF value[p].backing = "InPlace" THEN CHOOSE q \in Places : TRUE
                   ELSE value[p].backing

\* The context pointer, derived anew from where the value lives now.
ctx_ptr(p) == IF value[p].backing = "InPlace" THEN p ELSE value[p].backing

RustInit ==
    /\ Init
    /\ value = [p \in Places |-> NULL]
    /\ method = [t \in Threads |-> NULL]
    /\ self = [t \in Threads |-> NULL]
-----------------------------------------------------------------------------
\* Thread t enters method m on the value at p, and calls f of the C API with c.
Begin(t, m, p, f, c) ==
    /\ method[t] = NULL
    /\ method' = [method EXCEPT ![t] = m]
    /\ self' = [self EXCEPT ![t] = p]
    /\ Enter(t, f, c)

\* The C call that method m of thread t made has returned.
Returned(t, m) == method[t] = m /\ pc[t] = "idle"

\* Method m goes on to another C call.
Continue(t, m, f, c) ==
    /\ method' = [method EXCEPT ![t] = m]
    /\ UNCHANGED self
    /\ Enter(t, f, c)

\* The method returns or panics.
End(t) ==
    /\ method' = [method EXCEPT ![t] = NULL]
    /\ self' = [self EXCEPT ![t] = NULL]

\* hash, hash_seeded and impl_name.
Hash(t) ==
    /\ Begin(t, "hash", NULL, "hash", NULL)
    /\ UNCHANGED value

HashReturns(t) ==
    /\ Returned(t, "hash")
    /\ End(t)
    /\ UNCHANGED <<apiVars, value>>

(* Construction *)

HasherNew(t, p) ==
    /\ value[p] = NULL /\ ~InUse(p)
    /\ Begin(t, "Hasher::new", p, "new", NULL)
    /\ UNCHANGED value

\* As HasherNewReturns, without expect().
HasherNewUnchecked(t) ==
    /\ Returned(t, "Hasher::new")
    /\ value' = [value EXCEPT ![self[t]] = [type |-> "Hasher", backing |-> result[t]]]
    /\ End(t)
    /\ UNCHANGED apiVars

\* Without memory expect() panics before there is a value.
HasherNewReturns(t) ==
    /\ Returned(t, "Hasher::new")
    /\ value' = IF result[t] = NULL THEN value
                ELSE [value EXCEPT ![self[t]] =
                        [type |-> "Hasher", backing |-> result[t]]]
    /\ End(t)
    /\ UNCHANGED apiVars

\* with_seed_opt: a value with zeroed storage and InPlace as a placeholder.
StackHasherNew(t, p) ==
    /\ value[p] = NULL /\ ~InUse(p)
    /\ value' = [value EXCEPT ![p] = [type |-> "StackHasher", backing |-> "InPlace"]]
    /\ Begin(t, "init_in", p, "init_in", p)

InPlace(t) ==
    /\ Returned(t, "init_in") /\ result[t] # NULL
    /\ End(t)
    /\ UNCHANGED <<apiVars, value>>

Fallback(t) ==
    /\ Returned(t, "init_in") /\ result[t] = NULL
    /\ Continue(t, "fallback", "new", NULL)
    /\ UNCHANGED value

\* As FallbackReturns, trying again instead of panicking.
FallbackRetries(t) ==
    /\ Returned(t, "fallback")
    /\ IF result[t] = NULL
       THEN /\ Continue(t, "fallback", "new", NULL)
            /\ UNCHANGED value
       ELSE /\ value' = [value EXCEPT ![self[t]].backing = result[t]]
            /\ End(t)
            /\ UNCHANGED apiVars

\* When expect() panics, the value is dropped while still marked InPlace.
FallbackReturns(t) ==
    /\ Returned(t, "fallback")
    /\ value' = [value EXCEPT ![self[t]] =
                    IF result[t] = NULL THEN NULL ELSE [@ EXCEPT !.backing = result[t]]]
    /\ End(t)
    /\ UNCHANGED apiVars
-----------------------------------------------------------------------------
\* A move copies the bytes of the value, and with them the context in them.
Move(p, q) ==
    /\ value[p] # NULL /\ ~InUse(p)
    /\ value[q] = NULL /\ ~InUse(q)
    /\ value' = [value EXCEPT ![q] = value[p], ![p] = NULL]
    /\ ctx' = [ctx EXCEPT ![q] = ctx[p], ![p] = NULL]
    /\ UNCHANGED <<cached, knows, pc, op, arg, v, block, result, heap, served,
                   method, self>>

HasherUpdate(t, p) ==
    /\ value[p] # NULL /\ ~InUse(p)
    /\ Begin(t, "update", p, "update", ctx_ptr(p))
    /\ UNCHANGED value

HasherUpdateReturns(t) ==
    /\ Returned(t, "update")
    /\ End(t)
    /\ UNCHANGED <<apiVars, value>>

\* finalize consumes the value: it is dropped when the C call has returned.
HasherFinalize(t, p) ==
    /\ value[p] # NULL /\ ~InUse(p)
    /\ Begin(t, "finalize", p, "finalize", ctx_ptr(p))
    /\ UNCHANGED value

(* Drop *)

Heaped(p) == value[p].backing # "InPlace"

\* The value ends, and with it the storage in it.
Vanish(p) ==
    /\ value' = [value EXCEPT ![p] = NULL]
    /\ ctx' = [ctx EXCEPT ![p] = NULL]
    /\ UNCHANGED <<cached, knows, pc, op, arg, v, block, result, heap, served>>

\* As HasherFinalizeReturns, without the drop of a Hasher: the value is forgotten.
FinalizeForgets(t) ==
    /\ Returned(t, "finalize")
    /\ Vanish(self[t])
    /\ End(t)

\* A heap context is freed; one in place goes with the value.
HasherFinalizeReturns(t) ==
    /\ Returned(t, "finalize")
    /\ IF Heaped(self[t])
       THEN /\ Continue(t, "drop", "free", ctx_ptr(self[t]))
            /\ UNCHANGED value
       ELSE /\ Vanish(self[t])
            /\ End(t)

\* A value going out of scope, never finalized.
HasherDrop(t, p) ==
    /\ value[p] # NULL /\ ~InUse(p) /\ Heaped(p)
    /\ Begin(t, "drop", p, "free", ctx_ptr(p))
    /\ UNCHANGED value

DropInPlace(p) ==
    /\ value[p] # NULL /\ ~InUse(p) /\ ~Heaped(p)
    /\ Vanish(p)
    /\ UNCHANGED <<method, self>>

\* As HasherDropReturns, freeing once more.
DropTwice(t) ==
    /\ Returned(t, "drop")
    /\ Continue(t, "drop", "free", ctx_ptr(self[t]))
    /\ UNCHANGED value

HasherDropReturns(t) ==
    /\ Returned(t, "drop")
    /\ value' = [value EXCEPT ![self[t]] = NULL]
    /\ End(t)
    /\ UNCHANGED apiVars
-----------------------------------------------------------------------------
Use(t) ==
    \/ Hash(t)
    \/ \E p \in Places :
        \/ HasherNew(t, p) \/ StackHasherNew(t, p)
        \/ HasherUpdate(t, p) \/ HasherFinalize(t, p) \/ HasherDrop(t, p)

\* The C code of the call in progress.
Inside(t) == Step(t) /\ UNCHANGED <<value, method, self>>

MethodStep(t) ==
    \/ Inside(t)
    \/ HashReturns(t) \/ HasherNewReturns(t)
    \/ InPlace(t) \/ Fallback(t) \/ FallbackReturns(t)
    \/ HasherUpdateReturns(t) \/ HasherFinalizeReturns(t) \/ HasherDropReturns(t)

RustNext ==
    /\ \/ \E t \in Threads : Use(t) \/ MethodStep(t)
       \/ \E p, q \in Places : Move(p, q)
       \/ \E p \in Places : DropInPlace(p)
    /\ UNCHANGED CpuHasAesni

\* A method once called keeps executing; nothing obliges anyone to call one.
RustSpec ==
    /\ RustInit /\ [][RustNext]_rustVars
    /\ \A t \in Threads : WF_rustVars(MethodStep(t) /\ UNCHANGED CpuHasAesni)
-----------------------------------------------------------------------------
(* Correctness *)

\* The values are hashers of one of the two types, and a thread is at a place
\* exactly while it runs a method on the value there.
RustTypeOK ==
    /\ TypeOK
    /\ value \in [Places -> Hashers \cup {NULL}]
    /\ method \in [Threads -> Methods \cup {NULL}]
    /\ self \in [Threads -> Places \cup {NULL}]
    /\ \A t \in Threads : self[t] = NULL <=> method[t] \in {NULL, "hash"}

\* Every call the crate makes is one include/river5.h allows: the context is
\* there and, but for river5_free, not yet finalized; no other call is using
\* it; only heap contexts are freed; only fresh storage is initialised.
KeepsContract ==
    [][\A t \in Threads :
          pc[t] = "idle" /\ pc'[t] = "read" =>
            LET c == arg'[t] IN
            CASE op'[t] \in {"update", "finalize"} -> Live(c) /\ ~Busy(c)
              [] op'[t] = "free" -> c \in Blocks /\ ctx[c] # NULL /\ ~Busy(c)
              [] op'[t] = "init_in" -> ctx[c] = NULL /\ ~Busy(c)
              [] op'[t] \in {"hash", "new"} -> c = NULL]_rustVars

\* However values are moved, each one at rest finds a live context where it
\* looks for it, and no two values share one.
OwnsContext ==
    \A p \in Places :
        value[p] # NULL /\ ~InUse(p) =>
            /\ Live(ctx_ptr(p))
            /\ \A q \in Places \ {p} :
                value[q] # NULL /\ ~InUse(q) => ctx_ptr(p) # ctx_ptr(q)

\* Nothing leaks: when no method runs, the allocated blocks are those of the
\* contexts of the values there are, whichever calls failed or panicked.
NoLeak ==
    (\A t \in Threads : method[t] = NULL) =>
        heap = UNION {Owned(ctx_ptr(p)) : p \in {q \in Places : value[q] # NULL}}

\* "Output and final hash bytes are identical to Hasher": the contexts of both
\* types, in place and on the heap, come from one and the same backend.
SameBackend ==
    \A c, d \in Blocks \cup Places :
        ctx[c] # NULL /\ ctx[d] # NULL => ctx[c].maker = ctx[d].maker

\* Every method returns or panics, fallback and drop included.
MethodsEnd == \A t \in Threads : method[t] # NULL ~> method[t] = NULL
=============================================================================
