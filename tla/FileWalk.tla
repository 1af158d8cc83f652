------------------------------ MODULE FileWalk ------------------------------
(***************************************************************************)
(* The WALK phase of bench/file.c: walk_collect goes down a directory tree *)
(* and pv_push collects the paths of the regular files in a vector that    *)
(* doubles.  The recursion is a stack of open directories, readdir hands   *)
(* out the entries of each in any order, and every system call may fail.   *)
(*                                                                         *)
(* A path is the directory it was made in, which is what it resolves to up *)
(* to its last "/", and its length: snprintf cuts it off at the size of    *)
(* path[], and what is left may name something else.  The file system does *)
(* not change during the walk, and no name begins with a dot.              *)
(***************************************************************************)
EXTENDS Naturals, Sequences, FiniteSets, Functions

CONSTANTS
    Root,          \* the directory given on the command line
    Kind,          \* Kind[n]: "dir", "reg", "lnk" or "other"
    Entries,       \* Entries[d][name]: what name is in directory d, without
                   \* "." and ".."; a name is a sequence of characters
    Target,        \* Target[n]: what link n points to
    ROOT_LEN,      \* strlen(root)
    PATH_MAX,      \* sizeof path - 1
    FIRST_CAP,     \* the capacity of the vector once it has one
    MaxOpen,       \* how many directories the process may have open
    NULL

Nodes == DOMAIN Kind
Dirs == {n \in Nodes : Kind[n] = "dir"}
Files == {n \in Nodes : Kind[n] = "reg"}

\* A module that instantiates this one assumes the next two.
TreeAssumption ==
    /\ Root \in Dirs /\ NULL \notin Nodes /\ IsFiniteSet(Nodes)
    /\ Target \in [{n \in Nodes : Kind[n] = "lnk"} -> Nodes]
    /\ DOMAIN Entries = Dirs
    /\ \A d \in Dirs : \A name \in DOMAIN Entries[d] :
        /\ name \in Seq(Range(name)) \ {<< >>} /\ Entries[d][name] \in Nodes \ {Root}
        \* A tree: no file has two names.
        /\ \A e \in Dirs : \A other \in DOMAIN Entries[e] :
             Entries[e][other] = Entries[d][name] => <<e, other>> = <<d, name>>
    \* No directory is inside itself.
    /\ \E depth \in [Nodes -> 0..Cardinality(Nodes)] :
         \A d \in Dirs : \A name \in DOMAIN Entries[d] :
           depth[Entries[d][name]] = depth[d] + 1
SizesAssumption ==
    /\ PATH_MAX \in Nat /\ ROOT_LEN \in 1..PATH_MAX
    /\ FIRST_CAP \in Nat \ {0} /\ MaxOpen \in Nat \ {0}

VARIABLES
    walk,      \* "opening", "walking", "done", "failed" or "crashed"
    dirs,      \* the stack of open directories: which, the length of its
               \* path, and the names readdir has still to return
    items,     \* the paths collected, by what they name; NULL if strdup failed
    cap,       \* the capacity of items
    failed     \* history: the files under what a call failed for

vars == <<walk, dirs, items, cap, failed>>

Smaller(m, n) == IF m < n THEN m ELSE n

Front(s) == SubSeq(s, 1, Len(s) - 1)

Opened(d, len) == [dir |-> d, len |-> len, todo |-> DOMAIN Entries[d]]

Init ==
    /\ walk = "opening"
    /\ dirs = << >> /\ items = << >>
    /\ cap = 0 /\ failed = {}
-----------------------------------------------------------------------------
Top == dirs[Len(dirs)]

\* The length of root/name as snprintf leaves it.
PathLen(name) == Smaller(PATH_MAX, Top.len + 1 + Len(name))

\* What root/name names when snprintf is done with it: the directory itself
\* when nothing of the name is left.
Named(name) ==
    LET room == PATH_MAX - (Top.len + 1)
        rest == SubSeq(name, 1, Smaller(room, Len(name)))
    IN IF Top.len + 1 >= PATH_MAX THEN Top.dir
       ELSE IF rest \in DOMAIN Entries[Top.dir] THEN Entries[Top.dir][rest] ELSE NULL

\* The regular files under a node, links not followed.
Under[n \in Nodes] ==
    IF Kind[n] = "reg" THEN {n}
    ELSE IF Kind[n] = "dir" THEN UNION {Under[Entries[n][e]] : e \in DOMAIN Entries[n]}
    ELSE {}

AllUnder(S) == UNION {Under[n] : n \in S}

\* readdir has returned name, and the loop is done with it.
Past(name) == [dirs EXCEPT ![Len(dirs)].todo = @ \ {name}]

OpenRoot ==
    /\ walk = "opening"
    /\ \/ walk' = "walking" /\ dirs' = <<Opened(Root, ROOT_LEN)>>
       \/ walk' = "failed" /\ UNCHANGED dirs
    /\ UNCHANGED <<items, cap, failed>>

\* As lstat, looking through a link.
stat(n) == IF Kind[n] = "lnk" THEN Target[n] ELSE n

\* The node a path that names n is taken for.
lstat(n) == n

Finds(name, kinds) == Named(name) # NULL /\ Kind[lstat(Named(name))] \in kinds

\* Links and special files are passed over, as is what the path cannot find.
PassOver(name) ==
    /\ Named(name) = NULL \/ Finds(name, {"lnk", "other"})
    /\ dirs' = Past(name)
    /\ UNCHANGED <<walk, items, cap, failed>>

LstatFails(name) ==
    /\ Named(name) # NULL
    /\ dirs' = Past(name)
    /\ failed' = failed \cup Under[Named(name)]
    /\ UNCHANGED <<walk, items, cap>>

\* As Descend, giving up where a directory cannot be opened.
DescendOrStop(name) ==
    /\ Finds(name, {"dir"})
    /\ \/ /\ Len(dirs) < MaxOpen
          /\ dirs' = Append(Past(name), Opened(lstat(Named(name)), PathLen(name)))
          /\ UNCHANGED failed
       \/ /\ dirs' = [Past(name) EXCEPT ![Len(dirs)].todo = {}]
          /\ failed' = failed \cup Under[Named(name)]
    /\ UNCHANGED <<walk, items, cap>>

\* The recursive call, whose result is not looked at.
Descend(name) ==
    /\ Finds(name, {"dir"})
    /\ \/ /\ Len(dirs) < MaxOpen
          /\ dirs' = Append(Past(name), Opened(lstat(Named(name)), PathLen(name)))
          /\ UNCHANGED failed
       \/ /\ dirs' = Past(name)
          /\ failed' = failed \cup Under[Named(name)]
    /\ UNCHANGED <<walk, items, cap>>

\* As grown, one path late.
grown_late == IF Len(items) > cap THEN IF cap = 0 THEN FIRST_CAP ELSE cap * 2 ELSE cap

\* The capacity pv_push goes on with.
grown == IF Len(items) = cap THEN IF cap = 0 THEN FIRST_CAP ELSE cap * 2 ELSE cap

\* pv_push.  realloc's result is not checked before it is written through.
Collect(name) ==
    /\ Finds(name, {"reg"})
    /\ dirs' = Past(name)
    /\ \/ /\ cap' = grown
          /\ \/ items' = Append(items, lstat(Named(name))) /\ UNCHANGED failed
             \/ items' = Append(items, NULL) /\ failed' = failed \cup Under[Named(name)]
          /\ UNCHANGED walk
       \/ /\ grown # cap /\ walk' = "crashed"
          /\ UNCHANGED <<items, cap, failed>>

\* readdir fails, which the loop takes for the end of the directory.
ReaddirFails ==
    /\ dirs' = [dirs EXCEPT ![Len(dirs)].todo = {}]
    /\ failed' = failed \cup AllUnder({Entries[Top.dir][name] : name \in Top.todo})
    /\ UNCHANGED <<walk, items, cap>>

\* closedir and return to the directory above.
Leave ==
    /\ Top.todo = {}
    /\ dirs' = Front(dirs)
    /\ walk' = IF Len(dirs) = 1 THEN "done" ELSE walk
    /\ UNCHANGED <<items, cap, failed>>

Walk ==
    /\ walk = "walking"
    /\ \/ Leave
       \/ Top.todo # {} /\ ReaddirFails
       \/ \E name \in Top.todo :
            PassOver(name) \/ LstatFails(name) \/ Descend(name) \/ Collect(name)

Next == OpenRoot \/ Walk

\* The process keeps running.
Spec == Init /\ [][Next]_vars /\ WF_vars(Next)
-----------------------------------------------------------------------------
(* Correctness *)

Collected == {items[i] : i \in DOMAIN items} \ {NULL}

\* The files the walk has still to come to.
Ahead ==
    IF walk = "opening" THEN Under[Root]
    ELSE UNION {AllUnder({Entries[dirs[i].dir][e] : e \in dirs[i].todo}) : i \in DOMAIN dirs}

\* The files the walk has passed by without collecting their path.
Lost == Under[Root] \ (Collected \cup Ahead)

Names == UNION {DOMAIN Entries[d] : d \in Dirs}

TypeOK ==
    /\ walk \in {"opening", "walking", "done", "failed", "crashed"}
    /\ dirs \in Seq([dir : Dirs, len : 1..PATH_MAX, todo : SUBSET Names])
    /\ items \in Seq(Files \cup {NULL})
    /\ cap \in Nat
    /\ failed \subseteq Files

\* Where no path is cut off, the files passed by without being collected are
\* exactly those a call failed for, or for a directory above them, and a file
\* collected is not ahead again.
LosesOnlyFailures ==
    walk \in {"walking", "done"} => Lost = failed /\ Collected \cap Ahead = {}

\* The vector has room for the paths in it, whatever their number.
InCapacity == Len(items) <= cap

\* No path is collected twice.
ListedOnce == \A i, j \in DOMAIN items : items[i] = items[j] => i = j \/ items[i] = NULL
-----------------------------------------------------------------------------
(* A claim of a comment that the code does not keep *)

\* bench/file.c:2: "walks a directory, reads each regular file once": what is
\* under the directory, and nothing failed for, is listed exactly once.
EachFileOnce ==
    walk = "done" /\ failed = {} =>
        \A f \in Under[Root] : Cardinality({i \in DOMAIN items : items[i] = f}) = 1
=============================================================================
