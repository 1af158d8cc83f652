------------------------- MODULE CorpusFingerprint -------------------------
(***************************************************************************)
(* What the file bench promises of its corpus fingerprints (bench/file.c,  *)
(* lines 14-17): for each selected hash the XOR of the digests of the      *)
(* files hashed, each file under the root counted once, with no walk,      *)
(* workers, claims or accumulators in sight, and hence the same whatever   *)
(* the number of workers and the order they took the files.                *)
(*                                                                         *)
(* XOR of digests is modelled as symmetric difference of sets of digests,  *)
(* which keeps what XOR has: it is commutative, and a digest added twice   *)
(* is gone.                                                                *)
(***************************************************************************)
EXTENDS Naturals, Sequences, FiniteSets

CONSTANTS
    Hashes,            \* the registered hashes
    Files,             \* the regular files under the root
    Readable(_),       \* what can be read of a file: an error may cut it short
    DigestOf(_, _),    \* the digest of a message under a hash
    NoReport

VARIABLES
    hashed, skipped,   \* the files dealt with, either way
    sum,               \* sum[h]: the XOR of the digests under h so far, for
                       \* the selected hashes
    bytes,             \* how many bytes these digests are of
    report             \* what is printed at the end

vars == <<hashed, skipped, sum, bytes, report>>

Xor(x, y) == (x \ y) \cup (y \ x)

Init ==
    /\ hashed = {} /\ skipped = {}
    /\ \E selected \in SUBSET Hashes : sum = [h \in selected |-> {}]
    /\ bytes = 0
    /\ report = NoReport

\* Every hash is fed the same bytes of a file.
Hash(f) ==
    /\ report = NoReport /\ f \in Files \ (hashed \cup skipped)
    /\ hashed' = hashed \cup {f}
    /\ \E m \in Readable(f) :
        /\ sum' = [h \in DOMAIN sum |-> Xor(sum[h], {DigestOf(h, m)})]
        /\ bytes' = bytes + Len(m)
    /\ UNCHANGED <<skipped, report>>

\* Files that cannot be found or opened are passed over.
Skip(S) ==
    /\ report = NoReport /\ S \subseteq Files \ (hashed \cup skipped)
    /\ skipped' = skipped \cup S
    /\ UNCHANGED <<hashed, sum, bytes, report>>

\* Files are left out of account only when no worker had the memory to start.
Report ==
    /\ report = NoReport
    /\ hashed \cup skipped = Files \/ hashed = {}
    /\ report' = [fingerprint |-> sum, files |-> Cardinality(hashed), bytes |-> bytes]
    /\ UNCHANGED <<hashed, skipped, sum, bytes>>

Next == (\E f \in Files : Hash(f)) \/ (\E S \in SUBSET Files : Skip(S)) \/ Report

Spec == Init /\ [][Next]_vars
=============================================================================
