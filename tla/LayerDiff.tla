------------------------------- MODULE LayerDiff -------------------------------
(***************************************************************************)
(* The layer that a build step leaves behind (build.rs), the directory     *)
(* that its extraction gives, and the tree that several of them show when  *)
(* they are mounted (image/layers.rs).                                     *)
(*                                                                         *)
(* A path is a sequence of file names, a name a number; a tree maps paths  *)
(* to entries.  An entry is the contents of a file or the mode of a        *)
(* directory: "dir", which create_dir_all gives it, or "sticky", any       *)
(* other.  In an extracted layer it may also be "hidden": the character    *)
(* device by which overlayfs hides a path of the layers below.             *)
(*                                                                         *)
(* No path has a name that begins with ".wh.", nor is .quilt-layer-ready,  *)
(* the file that marks a layer as extracted (mark_layer_ready): every      *)
(* extracted layer has it at its root, and so has every image.             *)
(***************************************************************************)
EXTENDS Naturals, SequencesExt

CONSTANTS
    DotNames,    \* the names that begin with a dot
    TwoDotNames  \* the names with ".." somewhere in them

\* Some name of p has ".." in it, and so has the text of the path.
HasTwoDots(p) == \E i \in DOMAIN p : p[i] \in TwoDotNames

IsDotfile(p) == Last(p) \in DotNames

IsDir(e) == e \in {"dir", "sticky"}

Above(p) == Prefixes(p) \ {<<>>, p}

EmptyTree == <<>>

\* Only directories have anything in them.
IsTree(t) == \A p \in DOMAIN t : \A q \in Above(p) : q \in DOMAIN t /\ IsDir(t[q])

Trees(paths, entries) ==
    {t \in UNION {[D -> entries] : D \in SUBSET paths} : IsTree(t)}

Files(t) == {<<p, t[p]>> : p \in {q \in DOMAIN t : ~IsDir(t[q])}}

\* p is below something that is no directory: it cannot be created.
Blocked(t, p) == \E q \in Above(p) \cap DOMAIN t : ~IsDir(t[q])

\* What t has goes over what u has.
Over(t, u) == [p \in DOMAIN t \cup DOMAIN u |-> IF p \in DOMAIN t THEN t[p] ELSE u[p]]

\* std::fs::create_dir_all of all that is above p.
WithParents(t, p) == Over(t, [q \in Above(p) |-> "dir"])

\* Whatever was at p is replaced by e; a directory put over one keeps what is in it.
Put(t, p, e) ==
    [q \in {p} \cup {r \in DOMAIN t : IsDir(e) \/ ~IsStrictPrefix(p, r)} |->
        IF q = p THEN e ELSE t[q]]

-----------------------------------------------------------------------------
(***************************************************************************)
(* The layer of a step: an archive of what changed, in the order of paths, *)
(* then a ".wh." file for each path that is gone.                          *)
(***************************************************************************)
PathBefore(p, q) ==
    \/ IsStrictPrefix(p, q)
    \/ \E i \in 1..Len(p) : /\ i <= Len(q) /\ p[i] < q[i]
                            /\ \A j \in 1..(i - 1) : p[j] = q[j]

InOrder(paths) ==
    [i \in 1..Cardinality(paths) |->
        CHOOSE p \in paths : Cardinality({q \in paths : PathBefore(q, p)}) = i - 1]

Changed_FilesOnly(before, after) ==
    {p \in DOMAIN after : ~IsDir(after[p]) /\ (p \notin DOMAIN before \/ before[p] # after[p])}

Changed(before, after) ==
    {p \in DOMAIN after : p \notin DOMAIN before \/ before[p] # after[p]}

Gone_FilesOnly(before, after) == {p \in DOMAIN before \ DOMAIN after : ~IsDir(before[p])}

Gone(before, after) == DOMAIN before \ DOMAIN after

\* Entries of an archive: what a path is now, or that it is "hidden".
Archived(tree, paths) ==
    LET order == InOrder(paths)
    IN  [i \in DOMAIN order |-> [path |-> order[i], entry |-> tree[order[i]]]]

Whiteouts(paths) ==
    LET order == InOrder(paths)
    IN  [i \in DOMAIN order |-> [path |-> order[i], entry |-> "hidden"]]

DiffLayer_NoWhiteouts(before, after) == Archived(after, Changed(before, after))

DiffLayer_WhiteoutsFirst(before, after) ==
    Whiteouts(Gone(before, after)) \o Archived(after, Changed(before, after))

DiffLayer(before, after) ==
    Archived(after, Changed(before, after)) \o Whiteouts(Gone(before, after))

PathsLayer(tree, paths) == Archived(tree, paths)

-----------------------------------------------------------------------------
(***************************************************************************)
(* The extraction of a layer: the entries in their order, then the ".wh."  *)
(* files (of the paths in marks) become devices.  An entry whose path has  *)
(* ".." in its text is passed over, and so is the ".wh." file of a         *)
(* dotfile: ".wh..name" has two dots in a row.                             *)
(***************************************************************************)
PassedOver(item) == HasTwoDots(item.path) \/ (item.entry = "hidden" /\ IsDotfile(item.path))

Unpack(dest, item) ==
    IF PassedOver(item) THEN dest
    ELSE IF ~dest.ok \/ Blocked(dest.tree, item.path)
    THEN [ok |-> FALSE, tree |-> dest.tree, marks |-> dest.marks]
    ELSE LET t == WithParents(dest.tree, item.path) IN
         IF item.entry = "hidden"
         THEN [ok |-> TRUE, tree |-> t, marks |-> dest.marks \cup {item.path}]
         ELSE [ok |-> TRUE,
               tree |-> Put(t, item.path, item.entry),
               marks |-> {m \in dest.marks : IsDir(item.entry) \/ ~IsStrictPrefix(item.path, m)}]

Unpacked(archive) ==
    LET dest[i \in 0..Len(archive)] ==
            IF i = 0 THEN [ok |-> TRUE, tree |-> EmptyTree, marks |-> {}]
            ELSE Unpack(dest[i - 1], archive[i])
    IN  dest[Len(archive)]

Extracts(archive) == Unpacked(archive).ok

\* A device is made where nothing is; a ".wh." file is removed in any case.
ProcessWhiteouts(dest) == Over(dest.tree, [m \in dest.marks |-> "hidden"])

Extracted(archive) == ProcessWhiteouts(Unpacked(archive))

-----------------------------------------------------------------------------
(***************************************************************************)
(* The overlay of directories, the last one on top: a path is looked up    *)
(* from the top down, through directories only.                            *)
(***************************************************************************)
Reaches(dirs, i, p) == \A j \in (i + 1)..Len(dirs) : ~Blocked(dirs[j], p)

Holders(dirs, p) == {i \in 1..Len(dirs) : p \in DOMAIN dirs[i] /\ Reaches(dirs, i, p)}

Shown(dirs, p) == dirs[Max(Holders(dirs, p))][p]

Overlay(dirs) ==
    [p \in {q \in UNION {DOMAIN dirs[i] : i \in 1..Len(dirs)} :
               Holders(dirs, q) # {} /\ Shown(dirs, q) # "hidden"} |-> Shown(dirs, p)]

Mounted(archives) == Overlay([i \in 1..Len(archives) |-> Extracted(archives[i])])

-----------------------------------------------------------------------------
(***************************************************************************)
(* Where the kernel refuses an overlay the directories are copied one onto *)
(* the other, the first at the bottom.  A device is passed over, and a new *)
(* directory has the mode that create_dir_all gives it.                    *)
(***************************************************************************)
Copies(layer) == {p \in DOMAIN layer : layer[p] # "hidden"}

CopyLayer(dest, layer) ==
    [ok |-> dest.ok /\ \A p \in Copies(layer) \cap DOMAIN dest.tree :
                           IsDir(layer[p]) <=> IsDir(dest.tree[p]),
     tree |-> Over([p \in {q \in Copies(layer) : ~IsDir(layer[q])} |-> layer[p]],
                   Over(dest.tree, [p \in Copies(layer) |-> "dir"]))]

MergeLayers(archives) ==
    LET dest[i \in 0..Len(archives)] ==
            IF i = 0 THEN [ok |-> TRUE, tree |-> EmptyTree]
            ELSE CopyLayer(dest[i - 1], Extracted(archives[i]))
    IN  dest[Len(archives)]
=============================================================================
