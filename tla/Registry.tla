------------------------------ MODULE Registry ------------------------------
(***************************************************************************)
(* The plugins of bench/hashes.c and the table they are registered in.     *)
(* Each plugin forwards its five functions to a vtable, the public API or  *)
(* a wrapper; here it is the record of where each of them goes, which is   *)
(* what a slip in copying one plugin from another gets wrong.              *)
(***************************************************************************)
EXTENDS Backends

\* struct hash_impl, in the order of its initialisers.
hash_impl(name, output_bits, one, new, upd, dig, free) ==
    [name |-> name, output_bits |-> output_bits, one_shot |-> one,
     new_state |-> new, update |-> upd, digest |-> dig, free_state |-> free]

xxh3_128 == hash_impl("xxh3-128", 128, "xxh3", "xxh3", "xxh3", "xxh3", "xxh3")

\* The public API, whose vtable() is the subject of Dispatch.
river5_impl == hash_impl("river5", 128, Served, Served, Served, Served, Served)

river5_v15_impl == hash_impl("river5-v15", 128, "v15", "v15", "v15", "v15", "v15")
river5_v6_impl == hash_impl("river5-v6", 128, "v6", "v6", "v6", "v6", "v6")
river5_v3_impl == hash_impl("river5-v3", 128, "v3", "v3", "v3", "v3", "v3")
river5_v1_impl == hash_impl("river5-v1", 128, "v1", "v1", "v1", "v1", "v1")

\* As river5_v2_impl, with one function still forwarding to the plugin before.
river5_v2_impl_copied == hash_impl("river5-v2", 128, "v2", "v2", "v1", "v2", "v2")

river5_v2_impl == hash_impl("river5-v2", 128, "v2", "v2", "v2", "v2", "v2")

blake3_impl ==
    hash_impl("blake3", 256, "blake3", "blake3", "blake3", "blake3", "blake3")
metrohash_impl ==
    hash_impl("metrohash-128", 128, "metro", "metro", "metro", "metro", "metro")
meow_impl == hash_impl("meow-128", 128, "meow", "meow", "meow", "meow", "meow")

g_hashes == <<xxh3_128, river5_impl, river5_v15_impl, river5_v6_impl,
              river5_v3_impl, river5_v2_impl, river5_v1_impl, blake3_impl,
              metrohash_impl, meow_impl>>

\* How many bits a digest function writes; the bench reads output_bits of them.
Width(b) == IF b = "blake3" THEN 256 ELSE 128

Digested(h, c) == IF h.output_bits > Width(h.digest) THEN Junk ELSE finalize(h.digest, c)
=============================================================================
