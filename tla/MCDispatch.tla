---------------------------- MODULE MCDispatch ----------------------------
(***************************************************************************)
(* Dispatch with two threads and caller-owned storage of every kind that   *)
(* river5_init_in tells apart, at the sizes where its check changes.       *)
(***************************************************************************)
EXTENDS Dispatch

\* Large enough, a byte short, and misaligned.
MCStorages == {"fits", "short", "misaligned"}
MCStorageSize == [s \in MCStorages |-> IF s = "short" THEN V15Bytes - 1 ELSE V15Bytes]
MCAligned == {"fits", "short"}
=============================================================================
