--------------------------- MODULE MCAesniStream ---------------------------
(***************************************************************************)
(* AesniStream on blocks of a few bytes, every message over two byte       *)
(* values up to a length that runs both block loops after a partial block. *)
(***************************************************************************)
EXTENDS AesniStream

CONSTANT MaxCall    \* the longest input of one call

\* Both byte values occur in the secret, so that an input can look like padding.
MCSecret == [i \in 1..BLOCK |-> i % 2]

MCInputs == UNION {[1..n -> Bytes] : n \in 0..MaxCall}
=============================================================================
