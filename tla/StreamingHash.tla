--------------------------- MODULE StreamingHash ---------------------------
(***************************************************************************)
(* What the C interface of include/river5.h promises a caller, with no     *)
(* blocks, buffers or lanes in sight: a context collects the bytes it is   *)
(* given, in order, and river5_finalize hands out the digest of all of     *)
(* them under the context's seed, the very digest river5_hash computes of  *)
(* the same bytes in one call.  How the bytes were cut into calls has no   *)
(* influence on it.                                                        *)
(***************************************************************************)
EXTENDS Sequences

CONSTANTS
    Seeds,        \* seeds a caller can pass, the NULL of the default key included
    Inputs,       \* the byte sequences a caller passes in one call
    NoDigest,     \* the result of a call that returns no digest
    Hash(_, _)    \* the digest of a message under a seed

VARIABLES
    ctx,     \* "none", "live" (open for update) or "spent" (finalized)
    seed,    \* the seed of the context
    msg,     \* every byte given to the context so far, in order
    out      \* the digest the last call returned, NoDigest if it returned none

vars == <<ctx, seed, msg, out>>

Init ==
    /\ ctx = "none"
    /\ seed \in Seeds
    /\ msg = << >>
    /\ out = NoDigest

\* river5_new, river5_new_seeded, river5_init_in.
Open(s) ==
    /\ ctx = "none"
    /\ ctx' = "live"
    /\ seed' = s
    /\ msg' = << >>
    /\ out' = NoDigest

\* river5_update.
Update(d) ==
    /\ ctx = "live"
    /\ msg' = msg \o d
    /\ out' = NoDigest
    /\ UNCHANGED <<ctx, seed>>

\* river5_finalize: once per context, which is consumed by it.
Finalize ==
    /\ ctx = "live"
    /\ ctx' = "spent"
    /\ out' = Hash(seed, msg)
    /\ UNCHANGED <<seed, msg>>

\* river5_free, or the end of the life of the caller's storage.
Close ==
    /\ ctx # "none"
    /\ ctx' = "none"
    /\ msg' = << >>
    /\ out' = NoDigest
    /\ UNCHANGED seed

\* A call of river5_hash has begun and has no result yet.
Begin ==
    /\ out' = NoDigest
    /\ UNCHANGED <<ctx, seed, msg>>

\* river5_hash, which leaves every context alone.
OneShot(s, d) ==
    /\ out' = Hash(s, d)
    /\ UNCHANGED <<ctx, seed, msg>>

Next ==
    \/ \E s \in Seeds : Open(s)
    \/ \E d \in Inputs : Update(d)
    \/ Finalize
    \/ Close
    \/ Begin
    \/ \E s \in Seeds, d \in Inputs : OneShot(s, d)

Spec == Init /\ [][Next]_vars
=============================================================================
