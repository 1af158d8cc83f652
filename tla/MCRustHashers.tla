--------------------------- MODULE MCRustHashers ---------------------------
(***************************************************************************)
(* RustHashers with two places, each the AlignedCtxStorage of the crate.   *)
(***************************************************************************)
EXTENDS RustHashers

MCStorages == {"p1", "p2"}
MCStorageSize == [p \in MCStorages |-> RIVER5_CTX_BYTES]
=============================================================================
