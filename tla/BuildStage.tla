------------------------------ MODULE BuildStage ------------------------------
(***************************************************************************)
(* One stage of a build (build.rs): the tree the steps work on, the layers *)
(* they leave behind, what a failed step leaves mounted, and the image     *)
(* that is built being the base of another.                                *)
(*                                                                         *)
(* The paths that are set up for RUN and kept out of every layer           *)
(* (is_ephemeral_build_support_path) are not in Paths; what else           *)
(* prepare_build_rootfs adds, a resolver, is among what RUN may change.    *)
(***************************************************************************)
EXTENDS LayerDiff

CONSTANTS
    Paths,      \* the paths of a tree
    Contents,   \* what may be in a file
    AptConf,    \* where RUN puts a file for apt while it runs, 99qbuild-clock-skew.conf
    Bases,      \* trees of base images
    Sources,    \* trees that COPY and ADD take from a context or a stage
    Results,    \* trees that the command of a RUN may leave
    MaxLayers   \* bound on the layers of an image

ASSUME PathsAssumption ==
    /\ IsFiniteSet(Paths)
    /\ \A p \in Paths : p \in Seq(Nat) /\ p # <<>> /\ Above(p) \subseteq Paths
    /\ AptConf \in Paths
ASSUME EntriesAssumption ==
    {"dir", "sticky", "hidden", "override"} \cap Contents = {}

BuildTrees == Trees(Paths, {"dir", "sticky"} \cup Contents)
WorkTrees == Trees(Paths, {"dir", "sticky", "override"} \cup Contents)

ASSUME TreesAssumption ==
    Bases \subseteq BuildTrees /\ Sources \subseteq BuildTrees /\ Results \subseteq BuildTrees
ASSUME BoundAssumption == MaxLayers \in Nat \ {0}

VARIABLES
    pc,      \* the next step of the stage
    rootfs,  \* the tree in the stage's rootfs directory
    before,  \* the snapshot that RUN and ADD take of it
    layers,  \* the archives of the image, the base's first
    held,    \* what exists or is mounted and is to be undone
    cause    \* what the build failed for

vars == <<pc, rootfs, before, layers, held, cause>>

Image == Mounted(layers)
AllExtract(archives) == \A i \in DOMAIN archives : Extracts(archives[i])
Usable == AllExtract(layers)

\* Layers of one digest are one directory, and overlayfs takes none twice.  An archive
\* dates its files by when they were written, a ".wh." file is not dated.
SurelyRepeated == \E i, j \in DOMAIN layers :
    /\ i # j
    /\ layers[i] = layers[j]
    /\ \A k \in DOMAIN layers[i] : layers[i][k].entry = "hidden"

Working == {"apt", "mount", "bind", "exec"}

TypeOK ==
    /\ pc \in {"from", "ready", "prepare", "store", "done", "failed"} \cup Working
    /\ rootfs \in WorkTrees
    /\ before \in BuildTrees
    /\ Len(layers) <= MaxLayers
    /\ held \subseteq {"workspace", "base", "apt", "proc", "devices"}
    /\ "apt" \in held => pc \in Working
    /\ cause \in {"none", "base", "bind", "step"}

Init ==
    /\ pc = "from"
    /\ rootfs = EmptyTree
    /\ before = EmptyTree
    /\ layers = <<>>
    /\ held = {}
    /\ cause = "none"

\* The build returns an error with its trees and layers forgotten, and its guards
\* undo what they hold, except leaving.
FailFor(reason, leaving) ==
    /\ pc' = "failed"
    /\ cause' = reason
    /\ held' = leaving
    /\ rootfs' = EmptyTree
    /\ before' = EmptyTree
    /\ layers' = <<>>

\* The workspace is removed, unless something is mounted in it.
Fail(reason, mounts) ==
    FailFor(reason, IF mounts = {} THEN {} ELSE mounts \cup {"workspace"})

-----------------------------------------------------------------------------
(***************************************************************************)
(* FROM scratch, from an image of one layer, or from the image just built. *)
(***************************************************************************)
BeginStage(archives) ==
    /\ layers' = archives
    /\ rootfs' = Mounted(archives)
    /\ pc' = "ready"
    /\ held' = {"workspace"}
    /\ UNCHANGED <<before, cause>>

FromScratch == pc = "from" /\ BeginStage(<<>>)

FromImage ==
    /\ pc = "from"
    /\ \E t \in Bases : BeginStage(<<DiffLayer(EmptyTree, t)>>)

FromBuilt ==
    /\ pc = "done"
    /\ Usable
    /\ ~SurelyRepeated
    /\ Len(layers) < MaxLayers
    /\ BeginStage(layers)

\* A layer of the base cannot be read, extracted or copied, or, with the directory of
\* the container made, mount_overlay or remove_rootfs fails.
BaseFails ==
    /\ pc \in {"from", "done"}
    /\ FailFor("step", {}) \/ FailFor("base", {"base"})

-----------------------------------------------------------------------------
(***************************************************************************)
(* RUN.  A program to run has come with a layer.                           *)
(***************************************************************************)
SnapshotRootfs ==
    /\ pc = "ready"
    /\ layers # <<>>
    /\ Len(layers) < MaxLayers
    /\ before' = rootfs
    /\ pc' = "prepare"
    /\ UNCHANGED <<rootfs, layers, held, cause>>

PrepareBuildRootfs ==
    /\ pc = "prepare"
    /\ \/ pc' = "apt" /\ UNCHANGED <<rootfs, before, layers, held, cause>>
       \/ Fail("step", {})

\* The override is written where apt is installed and the file does not exist.
InjectAptConf ==
    /\ pc = "apt"
    /\ \/ pc' = "mount" /\ UNCHANGED <<rootfs, before, layers, held, cause>>
       \/ /\ pc' = "mount"
          /\ AptConf \notin DOMAIN rootfs
          /\ Above(AptConf) \subseteq DOMAIN rootfs
          /\ ~Blocked(rootfs, AptConf)
          /\ rootfs' = Put(rootfs, AptConf, "override")
          /\ held' = held \cup {"apt"}
          /\ UNCHANGED <<before, layers, cause>>
       \/ Fail("step", {})

WithoutOverride_Kept(t) == t

\* The drop of BuildAptGuard: the file is unlinked, if it is one by now.
WithoutOverride(t) ==
    IF "apt" \in held /\ AptConf \in DOMAIN t /\ ~IsDir(t[AptConf])
    THEN [p \in DOMAIN t \ {AptConf} |-> t[p]]
    ELSE t

MountProc ==
    /\ pc = "mount"
    /\ \/ /\ pc' = "bind"
          /\ held' \in {held, held \cup {"proc"}}
          /\ UNCHANGED <<rootfs, before, layers, cause>>
       \/ Fail("step", {})

\* The guard that would unmount /proc is not there yet when a device cannot be bound.
BindStandardDevices ==
    /\ pc = "bind"
    /\ \/ /\ pc' = "exec"
          /\ held' = held \cup {"devices"}
          /\ UNCHANGED <<rootfs, before, layers, cause>>
       \/ Fail("bind", held \cap {"proc"})

\* What a command may leave in the tree; the override it may keep, change or remove.
Outcomes == IF "apt" \in held
            THEN Results \cup {Put(t, AptConf, "override") : t \in {u \in Results :
                    Above(AptConf) \subseteq DOMAIN u /\ ~Blocked(u, AptConf)}}
            ELSE Results

Exec_AptHeld ==
    /\ pc = "exec"
    /\ \/ /\ \E t \in Outcomes : rootfs' = t
          /\ pc' = "store"
          /\ held' = held \ {"devices", "proc"}
          /\ UNCHANGED <<before, layers, cause>>
       \/ Fail("step", {})

Exec_ProcHeld ==
    /\ pc = "exec"
    /\ \/ /\ \E t \in Outcomes : rootfs' = WithoutOverride(t)
          /\ pc' = "store"
          /\ held' = held \ {"devices", "proc", "apt"}
          /\ UNCHANGED <<before, layers, cause>>
       \/ Fail("step", held \cap {"proc"})

\* The command runs and both guards are dropped.
Exec ==
    /\ pc = "exec"
    /\ \/ /\ \E t \in Outcomes : rootfs' = WithoutOverride(t)
          /\ pc' = "store"
          /\ held' = held \ {"devices", "proc", "apt"}
          /\ UNCHANGED <<before, layers, cause>>
       \/ Fail("step", {})

StoreLayer ==
    /\ pc = "store"
    /\ \/ /\ layers' = Append(layers, DiffLayer(before, rootfs))
          /\ pc' = "ready"
          /\ before' = EmptyTree
          /\ UNCHANGED <<rootfs, held, cause>>
       \/ Fail("step", {})

-----------------------------------------------------------------------------
(***************************************************************************)
(* COPY, ADD and WORKDIR                                                   *)
(***************************************************************************)
Under(d, s) == [p \in {d \o q : q \in DOMAIN s} |-> s[SubSeq(p, Len(d) + 1, Len(p))]]

MadeDirs(t, d) == {q \in (Above(d) \cup {d}) \ {<<>>} : q \notin DOMAIN t}

CanMakeDirs(t, d) == ~Blocked(t, Append(d, 0))

MakeDirs(t, d) == Over(t, [q \in MadeDirs(t, d) |-> "dir"])

\* A file replaces whatever it is copied onto, a directory no file.
CanCopy(t, s) == \A p \in DOMAIN s \cap DOMAIN t : IsDir(s[p]) => IsDir(t[p])

CopyTree(t, s) == Over(s, [p \in {q \in DOMAIN t : ~Blocked(s, q)} |-> t[p]])

\* The rootfs with directory s copied to d, if nothing is in the way.
Copied(s, d) == CopyTree(MakeDirs(rootfs, d), Under(d, s))

CopyFits(s, d) ==
    /\ \A q \in DOMAIN s : d \o q \in Paths
    /\ d \in Paths \cup {<<>>}
    /\ CanMakeDirs(rootfs, d)
    /\ CanCopy(MakeDirs(rootfs, d), Under(d, s))

LayerOf(paths) == Append(layers, PathsLayer(rootfs', paths \ {<<>>}))

\* The layer of a directory has d itself, that of one file does not.
Copy ==
    /\ pc = "ready"
    /\ Len(layers) < MaxLayers
    /\ \E s \in Sources, d \in Paths \cup {<<>>} :
          /\ CopyFits(s, d)
          /\ rootfs' = Copied(s, d)
          /\ \/ layers' = LayerOf(DOMAIN Under(d, s) \cup {d})
             \/ Cardinality(Files(s)) = Cardinality(DOMAIN s) /\ layers' = LayerOf(DOMAIN Under(d, s))
    /\ UNCHANGED <<pc, before, held, cause>>

\* The directory to copy to is made even when .dockerignore leaves nothing to copy.
CopyIgnored ==
    /\ pc = "ready"
    /\ Len(layers) < MaxLayers
    /\ \E d \in Paths :
          /\ CanMakeDirs(rootfs, d)
          /\ rootfs' = MakeDirs(rootfs, d)
          /\ layers' = LayerOf({})
    /\ UNCHANGED <<pc, before, held, cause>>

Add ==
    /\ pc = "ready"
    /\ Len(layers) < MaxLayers
    /\ before' = rootfs
    /\ \E s \in Sources, d \in Paths \cup {<<>>} : CopyFits(s, d) /\ rootfs' = Copied(s, d)
    /\ pc' = "store"
    /\ UNCHANGED <<layers, held, cause>>

\* WORKDIR makes its directory in the rootfs and no layer.
Workdir ==
    /\ pc = "ready"
    /\ \E d \in Paths : CanMakeDirs(rootfs, d) /\ rootfs' = MakeDirs(rootfs, d)
    /\ UNCHANGED <<pc, before, layers, held, cause>>

\* An instruction that cannot be carried out (nothing to copy, a file in the way), or
\* whose layer cannot be stored, or an image that cannot be stored at the end.
InstructionFails ==
    /\ pc = "ready"
    /\ Fail("step", {})

\* The image is stored under its name and the workspace removed.
FinishBuild ==
    /\ pc = "ready"
    /\ pc' = "done"
    /\ held' = held \ {"workspace"}
    /\ UNCHANGED <<rootfs, before, layers, cause>>

Next ==
    \/ FromScratch \/ FromImage \/ FromBuilt \/ BaseFails
    \/ SnapshotRootfs \/ PrepareBuildRootfs \/ InjectAptConf \/ MountProc
    \/ BindStandardDevices \/ Exec \/ StoreLayer
    \/ Copy \/ CopyIgnored \/ Add \/ Workdir
    \/ InstructionFails \/ FinishBuild

Spec == Init /\ [][Next]_vars

-----------------------------------------------------------------------------
(***************************************************************************)
(* Properties                                                              *)
(***************************************************************************)
\* Some layer has p, or a directory that p is in, taken away.
WasRemoved(p) ==
    \E i \in DOMAIN layers : \E q \in Above(p) \cup {p} :
        LET dir == Extracted(layers[i]) IN q \in DOMAIN dir /\ dir[q] = "hidden"

\* A path is a directory in one layer and a file in another.
KindChanges ==
    \E i, j \in DOMAIN layers :
        LET one == Extracted(layers[i])
            other == Extracted(layers[j])
        IN  \E p \in Paths :
                p \in Copies(one) \cap Copies(other) /\ IsDir(one[p]) /\ ~IsDir(other[p])

\* The files of t that an archive can carry to an image.
CarriedFiles(t) == {f \in Files(t) : ~HasTwoDots(f[1])}

\* The image has every file of the tree the steps worked on, with what was put in it,
\* but those with ".." in their path, and no other file but dotfiles: a layer hides what
\* its step removed, dotfiles excepted, and nothing else (build_layer_from_diff,
\* extract_archive, process_whiteouts, the order of lower directories).  Where the layers
\* are copied for want of overlayfs (merge_layers), it has the same files too, what the
\* steps removed may be back, and the copy fails if and only if a path is a directory in
\* one layer and a file in another.
FilesAgree ==
    pc \in {"ready", "done"} /\ Usable =>
        /\ CarriedFiles(rootfs) \subseteq Files(Image)
        /\ \A f \in Files(Image) \ Files(rootfs) : IsDotfile(f[1])
        /\ LET copy == MergeLayers(layers)
           IN  /\ copy.ok <=> ~KindChanges
               /\ copy.ok =>
                     /\ CarriedFiles(rootfs) \subseteq Files(copy.tree)
                     /\ \A f \in Files(copy.tree) \ Files(rootfs) :
                            IsDotfile(f[1]) \/ WasRemoved(f[1])

\* The tree before the step that is under way.
StepStart == IF pc = "store" THEN before ELSE rootfs

NewLayer == pc \in {"ready", "store"} /\ Len(layers') > Len(layers)

\* p has something in it whose ".wh." file would be unpacked, and is a file at the end.
ReplacedByFile(p) ==
    /\ \E q \in DOMAIN before : IsStrictPrefix(p, q) /\ ~HasTwoDots(q) /\ ~IsDotfile(q)
    /\ p \in DOMAIN rootfs
    /\ ~IsDir(rootfs[p])

\* A layer cannot be extracted if, and only if, RUN or ADD put a file where a
\* directory was with something in it, dotfiles and names with ".." not counted: the
\* ".wh." files of what was in it come after the file.  COPY never leaves such a layer.
BreaksOnlyByReplacement == [][NewLayer =>
    (~Extracts(Last(layers')) <=> pc = "store" /\ \E p \in DOMAIN before : ReplacedByFile(p))]_vars

\* Nothing of the layer is extracted: it has no entry that is not passed over.
GivesNothing(archive) == Extracted(archive) = EmptyTree

\* What a layer leaves out was left out before, or has ".." in its path: a directory is
\* missing from the image only if WORKDIR made it, or a COPY of nothing or of such files.
LayerCarriesStep == [][NewLayer /\ AllExtract(layers') =>
    \/ \A p \in DOMAIN rootfs' \ DOMAIN Mounted(layers') :
           HasTwoDots(p) \/ p \in DOMAIN StepStart \ DOMAIN Image
    \/ pc = "ready" /\ GivesNothing(Last(layers'))]_vars

\* p and what was in it were there before the step and are not any more.
RemovedFull(p, t, u) == p \notin DOMAIN u /\ \E q \in DOMAIN t : IsStrictPrefix(p, q)

\* The paths of tree t that image i has too, with another mode or as something else.
Differs(t, i) == {p \in DOMAIN t \cap DOMAIN i : t[p] # i[p]}

\* The directories that an archive makes without having an entry for them.
Implied(archive) ==
    LET has == {archive[i].path : i \in DOMAIN archive}
    IN  (UNION {Above(p) : p \in has}) \ has

\* A step makes the image differ from the tree in four ways only.  What it removed lingers
\* in the image if it is a dotfile, whose ".wh." file is passed over, or a directory with
\* something in it, whose ".wh." file is lost.  A directory has another mode there when
\* the layer has something below it and no entry of its own: extraction makes it anew.
\* And a COPY whose layer gives nothing may make a directory over what lingers.
DiffersOnlyThere == [][NewLayer /\ AllExtract(layers') =>
    /\ \A p \in DOMAIN Mounted(layers') \ DOMAIN rootfs' :
           \/ p \in DOMAIN StepStart /\ IsDotfile(p)
           \/ RemovedFull(p, StepStart, rootfs')
           \/ p \in DOMAIN Image \ DOMAIN StepStart
    /\ \A p \in Differs(rootfs', Mounted(layers')) :
           \/ p \in Implied(Last(layers')) \cup Differs(StepStart, Image)
           \/ p \in DOMAIN Image \ DOMAIN StepStart /\ GivesNothing(Last(layers'))]_vars

\* The file for apt is in no layer: its guard is dropped before the tree is
\* compared with the snapshot (BuildAptGuard).
OverrideStaysOut == \A i \in DOMAIN layers : \A k \in DOMAIN layers[i] :
    layers[i][k].entry # "override"

\* A build that returns leaves nothing mounted or on disk behind, but /proc and
\* the workspace it is in when a device could not be bound, and the directory of
\* a base image whose layers could not be mounted or whose rootfs could not be removed.
OnlyTwoFailuresLeave == pc \in {"done", "failed"} /\ held # {} =>
    \/ cause = "bind" /\ held = {"proc", "workspace"}
    \/ cause = "base" /\ held = {"base"}
=============================================================================
