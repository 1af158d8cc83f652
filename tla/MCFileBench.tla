---------------------------- MODULE MCFileBench ----------------------------
(***************************************************************************)
(* FileBench on a small tree: root/a, root/d/b, root/d/c and two links,    *)
(* root/d/l to a and root/u to the root itself.  Files a and c hold the    *)
(* same bytes and so cancel in every fingerprint; b is longer than a read, *)
(* and than a block of each backend.                                       *)
(***************************************************************************)
EXTENDS FileBench

MCKind == [r |-> "dir", a |-> "reg", d |-> "dir", b |-> "reg", c |-> "reg",
           l |-> "lnk", u |-> "lnk"]

MCEntries == [r |-> <<"a">> :> "a" @@ <<"d">> :> "d" @@ <<"u">> :> "u",
              d |-> <<"b">> :> "b" @@ <<"c">> :> "c" @@ <<"l">> :> "l"]

MCTarget == [l |-> "a", u |-> "r"]

MCContent == [a |-> <<"x">>, b |-> <<"x", "y", "x">>, c |-> <<"x">>]

MCOnly == {NULL, "md5"}

MCSecret == <<"x", "y", "z">>

(* A name that snprintf cuts off to that of another file. *)

CutKind == [r |-> "dir", a |-> "reg", b |-> "reg"]

CutEntries == [r |-> <<"a">> :> "a" @@ <<"a", "b">> :> "b"]

CutTarget == << >>

CutContent == [a |-> <<"x">>, b |-> <<"y">>]
=============================================================================
