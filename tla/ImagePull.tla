------------------------------ MODULE ImagePull ------------------------------
(***************************************************************************)
(* `qbuild pull` and the content store it fills: pulls of one image        *)
(* reference, the tasks that fetch an image's layers, the blob files, the  *)
(* temporary file `<hash>.tmp` every writer of a digest goes through, and  *)
(* the reference file that names the image.                                *)
(*                                                                         *)
(* A writer stores one blob: slot 1 of a pull is its image's config, the   *)
(* last slot the manifest, the slots between are the layers.  A file is an *)
(* inode, named by the writer that created it, because a rename moves the  *)
(* file under the writers that still have it open.                         *)
(***************************************************************************)
EXTENDS Naturals, Sequences, FiniteSets

CONSTANTS
    Digests,       \* the digests of the blobs concerned
    Pulls,         \* the pulls executed
    Image,         \* Image[p]: the blobs of the image pull p resolves to
    Forced,        \* the pulls that were given --force
    MaxConcurrent, \* options.max_concurrent
    Daemon,        \* TRUE: all pulls are requests of one guestd process
    OneAtATime,    \* TRUE: a pull is begun when the last has returned
    Faults         \* the failures the environment may inject

FaultKinds == {"download", "io", "crash"}

ASSUME ImageAssumption ==
    /\ Image \in [Pulls -> Seq(Digests)]
    /\ \A p \in Pulls : Len(Image[p]) >= 2
    \* A digest is the digest of one content: images with the same manifest
    \* are the same.
    /\ \A p, q \in Pulls :
         Image[p][Len(Image[p])] = Image[q][Len(Image[q])] => Image[p] = Image[q]
ASSUME OptionsAssumption ==
    /\ Forced \subseteq Pulls
    /\ MaxConcurrent \in Nat
    /\ Daemon \in BOOLEAN
    /\ OneAtATime \in BOOLEAN
    /\ Faults \subseteq FaultKinds
ASSUME NoneAssumption == {"absent", "torn"} \cap Digests = {}

VARIABLES
    blob,   \* blob[d]: the file at blob_path(d)
    temp,   \* temp[d]: the file at blob_path(d) with extension tmp
    whole,  \* whole[i]: does inode i hold the whole blob?
    ref,    \* the reference file: the digest of a manifest
    stage,  \* stage[p]: where pull p stands
    joined, \* joined[p]: the last slot of pull p whose task was awaited
    pc,     \* pc[w]: the next step of writer w
    held    \* held[w]: the file writer w has open

files == <<blob, temp, whole>>
vars == <<files, ref, stage, joined, pc, held>>

Slots(p) == 1..Len(Image[p])
ManifestSlot(p) == Len(Image[p])
Layers(p) == 2..(Len(Image[p]) - 1)
Manifest(p) == Image[p][ManifestSlot(p)]

Writers == UNION {{<<p, k>> : k \in Slots(p)} : p \in Pulls}
Digest(w) == Image[w[1]][w[2]]
Writer(p, k) == <<p, k>>

\* The blobs of the image whose manifest has digest m.
BlobsOf(m) ==
    UNION {{Image[p][k] : k \in Slots(p)} : p \in {q \in Pulls : Manifest(q) = m}}

\* A blob file from before the pulls is an inode of slot 0.
Old(d) == <<d, 0>>
Inodes == Writers \cup {Old(d) : d \in Digests}
NoFile == <<>>

Steps == {"idle", "queued", "exists", "read", "remove", "download", "open",
          "write", "rename", "done", "failed", "dead"}
Resting == {"idle", "queued", "done", "failed", "dead"}
Stages == {"new", "config", "layers", "manifest", "naming", "ok", "err", "gone"}

TypeOK ==
    /\ blob \in [Digests -> Inodes \cup {NoFile}]
    /\ temp \in [Digests -> Inodes \cup {NoFile}]
    /\ whole \in [Inodes -> BOOLEAN]
    /\ ref \in {Manifest(p) : p \in Pulls} \cup {"absent", "torn"}
    /\ stage \in [Pulls -> Stages]
    /\ joined \in [Pulls -> Nat]
    /\ pc \in [Writers -> Steps]
    /\ held \in [Writers -> Inodes \cup {NoFile}]

\* Blobs of other images may be there, whole or damaged.
Init ==
    /\ blob \in [Digests -> {NoFile} \cup {Old(d) : d \in Digests}]
    /\ \A d \in Digests : blob[d] \in {NoFile, Old(d)}
    /\ temp = [d \in Digests |-> NoFile]
    /\ \E good \in SUBSET {d \in Digests : blob[d] # NoFile} :
         whole = [i \in Inodes |-> i \in {Old(d) : d \in good}]
    /\ ref = "absent"
    /\ stage = [p \in Pulls |-> "new"]
    /\ joined = [p \in Pulls |-> 1]
    /\ pc = [w \in Writers |-> "idle"]
    /\ held = [w \in Writers |-> NoFile]

Stored(d) == blob[d] # NoFile /\ whole[blob[d]]

-----------------------------------------------------------------------------
(* The writers: ContentStore::store_blob and the layer tasks.              *)

Goto(w, step) == pc' = [pc EXCEPT ![w] = step]

\* Mutant: no lower bound.
Permits_Given == MaxConcurrent

\* max_concurrent.max(1)
Permits == IF MaxConcurrent = 0 THEN 1 ELSE MaxConcurrent

\* The layer tasks of a pull that hold one of its permits.
Working(p) == {k \in Layers(p) : pc[Writer(p, k)] \notin Resting}

AcquirePermit(w) ==
    /\ pc[w] = "queued"
    /\ Cardinality(Working(w[1])) < Permits
    /\ Goto(w, IF w[1] \in Forced THEN "download" ELSE "read")
    /\ UNCHANGED <<files, ref, stage, joined, held>>

\* store_blob looks for the file before it reads it; a layer task does not.
CheckExists(w) ==
    /\ pc[w] = "exists"
    /\ Goto(w, IF blob[Digest(w)] = NoFile THEN "open" ELSE "read")
    /\ UNCHANGED <<files, ref, stage, joined, held>>

ReadExisting(w) ==
    /\ pc[w] = "read"
    /\ Goto(w, IF Stored(Digest(w)) THEN "done" ELSE "remove")
    /\ UNCHANGED <<files, ref, stage, joined, held>>

\* remove_file after the read: whatever is there by now.
RemoveExisting(w) ==
    /\ pc[w] = "remove"
    /\ blob' = [blob EXCEPT ![Digest(w)] = NoFile]
    /\ Goto(w, IF w[2] \in Layers(w[1]) THEN "download" ELSE "open")
    /\ UNCHANGED <<temp, whole, ref, stage, joined, held>>

\* get_blob verifies what it received.
Download(w) ==
    /\ pc[w] = "download"
    /\ \/ Goto(w, IF w[2] \in Layers(w[1]) THEN "open" ELSE "exists")
       \/ "download" \in Faults /\ Goto(w, "failed")
    /\ UNCHANGED <<files, ref, stage, joined, held>>

\* Mutant: the blob is written where readers look for it.
OpenTemp_InPlace(w) ==
    LET d == Digest(w) IN
    /\ pc[w] = "open"
    /\ LET file == IF blob[d] = NoFile THEN w ELSE blob[d] IN
        /\ blob' = [blob EXCEPT ![d] = file]
        /\ temp' = [temp EXCEPT ![d] = file]
        /\ whole' = [whole EXCEPT ![file] = FALSE]
        /\ held' = [held EXCEPT ![w] = file]
    /\ Goto(w, "write")
    /\ UNCHANGED <<ref, stage, joined>>

\* fs::write, first half: create the temporary file or truncate the one there.
OpenTemp(w) ==
    LET d == Digest(w)
        file == IF temp[d] = NoFile THEN w ELSE temp[d] IN
    /\ pc[w] = "open"
    /\ temp' = [temp EXCEPT ![d] = file]
    /\ whole' = [whole EXCEPT ![file] = FALSE]
    /\ held' = [held EXCEPT ![w] = file]
    /\ Goto(w, "write")
    /\ UNCHANGED <<blob, ref, stage, joined>>

\* Mutant: an error of the write is dropped.
WriteTemp_IgnoreError(w) ==
    /\ pc[w] = "write"
    /\ \E complete \in BOOLEAN : whole' = [whole EXCEPT ![held[w]] = complete]
    /\ Goto(w, "rename")
    /\ held' = [held EXCEPT ![w] = NoFile]
    /\ UNCHANGED <<blob, temp, ref, stage, joined>>

\* fs::write, second half: into the open file, wherever that is linked by now.
WriteTemp(w) ==
    /\ pc[w] = "write"
    /\ \/ whole' = [whole EXCEPT ![held[w]] = TRUE] /\ Goto(w, "rename")
       \/ "io" \in Faults /\ Goto(w, "failed") /\ UNCHANGED whole
    /\ held' = [held EXCEPT ![w] = NoFile]
    /\ UNCHANGED <<blob, temp, ref, stage, joined>>

\* Mutant: a rename that failed cleans up.
RenameTemp_CleanUp(w) ==
    LET d == Digest(w) IN
    /\ pc[w] = "rename"
    /\ blob' = [blob EXCEPT ![d] = temp[d]]
    /\ temp' = [temp EXCEPT ![d] = NoFile]
    /\ Goto(w, IF temp[d] # NoFile THEN "done" ELSE "failed")
    /\ UNCHANGED <<whole, ref, stage, joined, held>>

RenameTemp(w) ==
    LET d == Digest(w) IN
    /\ pc[w] = "rename"
    /\ IF temp[d] # NoFile
       THEN /\ blob' = [blob EXCEPT ![d] = temp[d]]
            /\ temp' = [temp EXCEPT ![d] = NoFile]
            /\ Goto(w, "done")
       ELSE Goto(w, "failed") /\ UNCHANGED <<blob, temp>>
    /\ UNCHANGED <<whole, ref, stage, joined, held>>

-----------------------------------------------------------------------------
(* The pull.                                                               *)

MoveTo(p, next) == stage' = [stage EXCEPT ![p] = next]

\* The user has been answered: by a process that ended or by the daemon.
Returned(p) == stage[p] \in {"ok", "gone"} \/ (Daemon /\ stage[p] = "err")

\* get_manifest, then the request for the config.
BeginPull(p) ==
    /\ stage[p] = "new"
    /\ OneAtATime => \A q \in Pulls \ {p} : stage[q] = "new" \/ Returned(q)
    /\ \/ MoveTo(p, "config") /\ Goto(Writer(p, 1), "download")
       \/ "download" \in Faults /\ MoveTo(p, "err") /\ UNCHANGED pc
    /\ UNCHANGED <<files, ref, joined, held>>

\* The config is stored: one task for every layer.
SpawnLayers(p) ==
    /\ stage[p] = "config"
    /\ pc[Writer(p, 1)] = "done"
    /\ MoveTo(p, "layers")
    /\ pc' = [w \in Writers |->
                IF w[1] = p /\ w[2] \in Layers(p) THEN "queued" ELSE pc[w]]
    /\ UNCHANGED <<files, ref, joined, held>>

\* The handles are awaited in the layers' order.
AwaitLayer(p) ==
    LET next == joined[p] + 1 IN
    /\ stage[p] = "layers"
    /\ next \in Layers(p)
    /\ pc[Writer(p, next)] = "done"
    /\ joined' = [joined EXCEPT ![p] = next]
    /\ UNCHANGED <<files, ref, stage, pc, held>>

\* Mutant: the tasks are not awaited.
StoreManifest_Unawaited(p) ==
    /\ stage[p] = "layers"
    /\ MoveTo(p, "manifest")
    /\ Goto(Writer(p, ManifestSlot(p)), "exists")
    /\ UNCHANGED <<files, ref, joined, held>>

StoreManifest(p) ==
    /\ stage[p] = "layers"
    /\ joined[p] + 1 = ManifestSlot(p)
    /\ MoveTo(p, "manifest")
    /\ Goto(Writer(p, ManifestSlot(p)), "exists")
    /\ UNCHANGED <<files, ref, joined, held>>

\* `?` on the config, on a layer in its turn, on the manifest: the tasks of
\* the other layers are left alone.
PullFails(p) ==
    /\ \/ stage[p] = "config" /\ pc[Writer(p, 1)] = "failed"
       \/ stage[p] = "layers" /\ joined[p] + 1 \in Layers(p)
            /\ pc[Writer(p, joined[p] + 1)] = "failed"
       \/ stage[p] = "manifest" /\ pc[Writer(p, ManifestSlot(p))] = "failed"
    /\ MoveTo(p, "err")
    /\ UNCHANGED <<files, ref, joined, pc, held>>

\* store_image_ref truncates the file, then writes it.
TruncateRef(p) ==
    /\ stage[p] = "manifest"
    /\ pc[Writer(p, ManifestSlot(p))] = "done"
    /\ ref' = "torn"
    /\ MoveTo(p, "naming")
    /\ UNCHANGED <<files, joined, pc, held>>

WriteRef(p) ==
    /\ stage[p] = "naming"
    /\ \/ ref' = Manifest(p) /\ MoveTo(p, "ok")
       \/ "io" \in Faults /\ MoveTo(p, "err") /\ UNCHANGED ref
    /\ UNCHANGED <<files, joined, pc, held>>

\* The processes that end together with pull p's.
Doomed(p) == IF Daemon THEN Pulls ELSE {p}

End(dying) ==
    /\ stage' = [p \in Pulls |->
                   IF p \in dying /\ stage[p] \notin {"new", "ok"} THEN "gone" ELSE stage[p]]
    /\ pc' = [w \in Writers |->
                IF w[1] \in dying /\ pc[w] \notin {"idle", "done"} THEN "dead" ELSE pc[w]]
    /\ held' = [w \in Writers |-> IF w[1] \in dying THEN NoFile ELSE held[w]]
    /\ UNCHANGED <<files, ref, joined>>

\* A command that failed exits, its remaining tasks with it.
Exit(p) ==
    /\ ~Daemon
    /\ stage[p] = "err"
    /\ End({p})

Crash(p) ==
    /\ "crash" \in Faults
    /\ stage[p] \notin {"new", "ok", "gone"}
    /\ End(Doomed(p))

-----------------------------------------------------------------------------
WriterStep(w) ==
    \/ AcquirePermit(w) \/ CheckExists(w) \/ ReadExisting(w)
    \/ RemoveExisting(w) \/ Download(w)
    \/ OpenTemp(w) \/ WriteTemp(w) \/ RenameTemp(w)

PullStep(p) ==
    \/ SpawnLayers(p) \/ AwaitLayer(p) \/ StoreManifest(p) \/ PullFails(p)
    \/ TruncateRef(p) \/ WriteRef(p) \/ Exit(p)

Next ==
    \/ \E w \in Writers : WriterStep(w)
    \/ \E p \in Pulls : BeginPull(p) \/ PullStep(p) \/ Crash(p)

Spec == Init /\ [][Next]_vars

\* tokio runs every task, requests time out after 300 seconds, a process that
\* is exiting exits.  Nobody has to begin a pull.
Fairness ==
    /\ \A w \in Writers : WF_vars(WriterStep(w))
    /\ \A p \in Pulls : WF_vars(PullStep(p))

FairSpec == Spec /\ Fairness
-----------------------------------------------------------------------------
(* Properties.                                                             *)

\* The reference names an image only when every blob of it is there, whole:
\* whatever failed or died before, and with blobs shared with an image that a
\* later pull of the moved tag brings.  It is what run, push and build rely on
\* when they resolve the reference.
RefNamesWholeImage == ref \in Digests => \A d \in BlobsOf(ref) : Stored(d)

\* A blob that is stored stays stored: no pull takes a verified blob away from
\* the images that have it.
StoredStays == [][\A d \in Digests : Stored(d) => Stored(d)']_vars

\* A file that is not whole, under a blob's own name, is one an earlier run
\* left, or one a writer has open and is about to complete.
TornBlobHasWriter ==
    \A d \in Digests :
        blob[d] \notin {NoFile, Old(d)} /\ ~whole[blob[d]] =>
            \E w \in Writers : pc[w] = "write" /\ held[w] = blob[d]

AllQuiet == \A w \in Writers : pc[w] \in {"idle", "done", "failed", "dead"}

\* Pulls that are requests of one guestd may disturb each other on the way;
\* when all have ended and nothing failed but renames that lost a race, the
\* reference is good.  Of pulls that are processes it is not so: one that ends
\* because of such a rename takes its other tasks with it, one of which may
\* have removed a blob that it was about to write again.
WholeWhenQuiet ==
    AllQuiet /\ ref \in Digests => \A d \in BlobsOf(ref) : Stored(d)

\* A pull that was begun returns.
PullsReturn ==
    \A p \in Pulls : stage[p] # "new" ~> stage[p] \in {"ok", "err", "gone"}
=============================================================================
