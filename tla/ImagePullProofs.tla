--------------------------- MODULE ImagePullProofs ---------------------------
(***************************************************************************)
(* Theorems about ImagePull, for any images, any number of pulls and any   *)
(* max_concurrent:                                                         *)
(*   PullTypeCorrect, RefFollowsPull   whatever runs and fails             *)
(*   TornBlobsHaveWriters,                                                 *)
(*   QuietPullsAreWhole                pulls at the same time, one guestd  *)
(*   ReferenceNamesWholeImage,                                             *)
(*   StoredBlobsStay                   pulls one after the other, failures *)
(*                                     and crashes anywhere                *)
(***************************************************************************)
EXTENDS ImagePull, TLAPS

\* Slots are numbers from 1; writers are their slots; no writer is a file from
\* before.
LEMMA SlotFacts ==
    \A p \in Pulls :
        /\ Len(Image[p]) \in Nat /\ Len(Image[p]) >= 2
        /\ 1 \in Slots(p) /\ ManifestSlot(p) \in Slots(p)
        /\ Layers(p) \subseteq Slots(p) \ {1, ManifestSlot(p)}
        /\ \A k \in Slots(p) : k \in Nat /\ k # 0 /\ Image[p][k] \in Digests
BY ImageAssumption DEF Slots, ManifestSlot, Layers

LEMMA WriterFacts ==
    /\ \A p \in Pulls : \A k \in Slots(p) : Writer(p, k) \in Writers
    /\ \A w \in Writers :
        /\ w[1] \in Pulls /\ w[2] \in Slots(w[1]) /\ w = Writer(w[1], w[2])
        /\ Digest(w) \in Digests
        /\ w # NoFile
        /\ \A d \in Digests : w # Old(d)
<1>1. \A p \in Pulls : \A k \in Slots(p) : Writer(p, k) \in Writers
  BY DEF Writer, Writers
<1>2. ASSUME NEW w \in Writers
      PROVE  /\ w[1] \in Pulls /\ w[2] \in Slots(w[1]) /\ w = Writer(w[1], w[2])
             /\ Digest(w) \in Digests
             /\ w # NoFile
             /\ \A d \in Digests : w # Old(d)
  <2>1. PICK p \in Pulls : \E k \in Slots(p) : w = <<p, k>>
    BY DEF Writers
  <2>2. PICK k \in Slots(p) : w = <<p, k>>
    BY <2>1
  <2>3. w[1] = p /\ w[2] = k
    BY <2>2
  <2>4. w # NoFile
    BY <2>2 DEF NoFile
  <2>5. ASSUME NEW d \in Digests PROVE w # Old(d)
    BY <2>2, SlotFacts DEF Old
  <2> QED
    BY <2>2, <2>3, <2>4, <2>5, SlotFacts DEF Writer, Digest
<1> QED
  BY <1>1, <1>2

LEMMA InodeFacts ==
    /\ Writers \subseteq Inodes
    /\ \A d \in Digests : Old(d) \in Inodes
BY DEF Inodes

\* TypeOK is inductive by itself.
LEMMA TypeInit == Init => TypeOK
BY InodeFacts DEF Init, TypeOK, Stages, Steps

LEMMA TypeStep == TypeOK /\ [Next]_vars => TypeOK'
<1> SUFFICES ASSUME TypeOK, [Next]_vars PROVE TypeOK'
  OBVIOUS
<1> USE SlotFacts, WriterFacts, InodeFacts
<1> USE DEF TypeOK, Stages, Steps, Goto, MoveTo, files
<1>1. ASSUME NEW w \in Writers, AcquirePermit(w) PROVE TypeOK'
  BY <1>1 DEF AcquirePermit
<1>2. ASSUME NEW w \in Writers, CheckExists(w) PROVE TypeOK'
  BY <1>2 DEF CheckExists
<1>3. ASSUME NEW w \in Writers, ReadExisting(w) PROVE TypeOK'
  BY <1>3 DEF ReadExisting
<1>4. ASSUME NEW w \in Writers, RemoveExisting(w) PROVE TypeOK'
  BY <1>4 DEF RemoveExisting
<1>5. ASSUME NEW w \in Writers, Download(w) PROVE TypeOK'
  BY <1>5 DEF Download
<1>6. ASSUME NEW w \in Writers, OpenTemp(w) PROVE TypeOK'
  BY <1>6 DEF OpenTemp
<1>7. ASSUME NEW w \in Writers, WriteTemp(w) PROVE TypeOK'
  BY <1>7 DEF WriteTemp
<1>8. ASSUME NEW w \in Writers, RenameTemp(w) PROVE TypeOK'
  BY <1>8 DEF RenameTemp
<1>9. ASSUME NEW p \in Pulls, BeginPull(p) PROVE TypeOK'
  BY <1>9 DEF BeginPull
<1>10. ASSUME NEW p \in Pulls, SpawnLayers(p) PROVE TypeOK'
  BY <1>10 DEF SpawnLayers
<1>11. ASSUME NEW p \in Pulls, AwaitLayer(p) PROVE TypeOK'
  BY <1>11 DEF AwaitLayer
<1>12. ASSUME NEW p \in Pulls, StoreManifest(p) PROVE TypeOK'
  BY <1>12 DEF StoreManifest
<1>13. ASSUME NEW p \in Pulls, PullFails(p) PROVE TypeOK'
  BY <1>13 DEF PullFails
<1>14. ASSUME NEW p \in Pulls, TruncateRef(p) PROVE TypeOK'
  BY <1>14 DEF TruncateRef
<1>15. ASSUME NEW p \in Pulls, WriteRef(p) PROVE TypeOK'
  <2>1. ref' \in {Manifest(q) : q \in Pulls} \cup {"absent", "torn"}
    BY <1>15 DEF WriteRef
  <2>2. stage' \in [Pulls -> Stages]
    BY <1>15 DEF WriteRef
  <2> QED
    BY <1>15, <2>1, <2>2 DEF WriteRef
<1>16. ASSUME NEW dying, End(dying) PROVE TypeOK'
  BY <1>16 DEF End
<1>17. ASSUME NEW p \in Pulls, Exit(p) \/ Crash(p) PROVE TypeOK'
  BY <1>16, <1>17 DEF Exit, Crash
<1>18. CASE UNCHANGED vars
  BY <1>18 DEF vars
<1> QED
  BY <1>1, <1>2, <1>3, <1>4, <1>5, <1>6, <1>7, <1>8, <1>9, <1>10, <1>11, <1>12, <1>13, <1>14,
     <1>15, <1>17, <1>18
  DEF Next, WriterStep, PullStep

\* Every file, task and pull is always of its type: in particular the reference
\* file is absent, torn, or names a manifest, never anything else.
THEOREM PullTypeCorrect == Spec => []TypeOK
BY TypeInit, TypeStep, PTL DEF Spec

-----------------------------------------------------------------------------
(***************************************************************************)
(* TornBlobHasWriter is not inductive.  A rename puts under a blob's name  *)
(* whatever is under the temporary one, so the same must be known of that  *)
(* file; and a pull that sets its tasks to work must not take one away     *)
(* from the file it has open, so the tasks it has not spawned are idle.    *)
(***************************************************************************)

\* Files come from a writer, or from before the pulls.
FilesHaveOrigin ==
    /\ \A d \in Digests : temp[d] \in Writers \cup {NoFile}
    /\ \A d \in Digests : blob[d] \in Writers \cup {NoFile, Old(d)}

Linked(f) == \E d \in Digests : temp[d] = f \/ blob[d] = f

HasWriter(f) == \E w \in Writers : pc[w] = "write" /\ held[w] = f

WritersHoldFiles == \A w \in Writers : pc[w] = "write" => held[w] \in Writers

TornIsOpen == \A f \in Writers : Linked(f) /\ ~whole[f] => HasWriter(f)

\* The slots of a pull that have not been set to work.
Unspawned(p) == {k \in Slots(p) :
    \/ stage[p] = "new"
    \/ stage[p] = "config" /\ k # 1
    \/ stage[p] = "layers" /\ k = ManifestSlot(p)}

UnspawnedIdle == \A p \in Pulls : \A k \in Unspawned(p) : pc[Writer(p, k)] = "idle"

FileInv == FilesHaveOrigin /\ WritersHoldFiles /\ TornIsOpen

TornInv == FileInv /\ UnspawnedIdle

LEMMA TornInit == Init => TornInv
BY WriterFacts, SlotFacts
DEF Init, TornInv, FileInv, FilesHaveOrigin, WritersHoldFiles, TornIsOpen, Linked,
    UnspawnedIdle, Unspawned

\* A task at work is not idle, and its steps are about no other; a pull sets to
\* work only slots it then no longer counts as unspawned; a process that ends
\* leaves idle tasks and pulls not begun as they are.
LEMMA UnspawnedStep ==
    ASSUME TypeOK, UnspawnedIdle, [Next]_vars
    PROVE  UnspawnedIdle'
<1>1. ASSUME NEW p \in Pulls PROVE Unspawned(p) \subseteq Slots(p)
  BY SlotFacts DEF Unspawned
<1>2. ASSUME NEW w \in Writers, WriterStep(w) PROVE UnspawnedIdle'
  <2>1. /\ pc[w] # "idle" /\ UNCHANGED stage
        /\ \A v \in Writers \ {w} : pc'[v] = pc[v]
    BY <1>2
    DEF TypeOK, WriterStep, AcquirePermit, CheckExists, ReadExisting, RemoveExisting, Download,
        OpenTemp, WriteTemp, RenameTemp, Goto
  <2>2. ASSUME NEW p \in Pulls, NEW k \in Unspawned(p)' PROVE pc'[Writer(p, k)] = "idle"
    <3>1. k \in Unspawned(p)
      BY <2>1, <2>2 DEF Unspawned
    <3>2. Writer(p, k) \in Writers /\ pc[Writer(p, k)] = "idle"
      BY <1>1, <3>1, WriterFacts DEF UnspawnedIdle
    <3> QED
      BY <2>1, <3>2
  <2> QED
    BY <2>2 DEF UnspawnedIdle
<1>3. ASSUME NEW p \in Pulls,
             \A q \in Pulls \ {p} : stage'[q] = stage[q],
             Unspawned(p)' \subseteq Unspawned(p),
             \A q \in Pulls : \A k \in Slots(q) :
                 q # p \/ k \in Unspawned(p)' => pc'[Writer(q, k)] = pc[Writer(q, k)]
      PROVE  UnspawnedIdle'
  <2>1. ASSUME NEW q \in Pulls, NEW k \in Unspawned(q)' PROVE pc'[Writer(q, k)] = "idle"
    <3>1. k \in Unspawned(q)
      <4>1. CASE q = p
        BY <1>3, <2>1, <4>1
      <4>2. CASE q # p
        BY <1>3, <2>1, <4>2 DEF Unspawned
      <4> QED
        BY <4>1, <4>2
    <3>2. k \in Slots(q) /\ pc[Writer(q, k)] = "idle"
      BY <1>1, <3>1 DEF UnspawnedIdle
    <3> QED
      BY <1>3, <2>1, <3>2
  <2> QED
    BY <2>1 DEF UnspawnedIdle
<1>4. \A p, q \in Pulls : \A j \in Slots(p), k \in Slots(q) :
          Writer(p, j) = Writer(q, k) => p = q /\ j = k
  BY DEF Writer
<1>5. ASSUME NEW p \in Pulls, BeginPull(p) PROVE UnspawnedIdle'
  <2>1. /\ \A q \in Pulls \ {p} : stage'[q] = stage[q]
        /\ stage[p] = "new" /\ stage'[p] \in {"config", "err"}
        /\ \A w \in Writers \ {Writer(p, 1)} : pc'[w] = pc[w]
    BY <1>5 DEF BeginPull, Goto, MoveTo, TypeOK
  <2>2. Unspawned(p)' \subseteq Slots(p) \ {1} /\ Unspawned(p) = Slots(p)
    BY <2>1, SlotFacts DEF Unspawned
  <2>3. ASSUME NEW q \in Pulls, NEW k \in Slots(q), q # p \/ k \in Unspawned(p)'
        PROVE  pc'[Writer(q, k)] = pc[Writer(q, k)]
    BY <1>4, <2>1, <2>2, <2>3, WriterFacts, SlotFacts
  <2> QED
    BY <1>3, <2>1, <2>2, <2>3
<1>6. ASSUME NEW p \in Pulls, SpawnLayers(p) PROVE UnspawnedIdle'
  <2>1. /\ \A q \in Pulls \ {p} : stage'[q] = stage[q]
        /\ stage[p] = "config" /\ stage'[p] = "layers"
        /\ \A w \in Writers : ~(w[1] = p /\ w[2] \in Layers(p)) => pc'[w] = pc[w]
    BY <1>6 DEF SpawnLayers, MoveTo, TypeOK
  <2>2. ManifestSlot(p) \in Slots(p) \ {1} /\ ManifestSlot(p) \notin Layers(p)
    BY SlotFacts DEF ManifestSlot
  <2>3. Unspawned(p)' = {ManifestSlot(p)} /\ Unspawned(p) = Slots(p) \ {1}
    BY <2>1, <2>2 DEF Unspawned
  <2>4. ASSUME NEW q \in Pulls, NEW k \in Slots(q), q # p \/ k \in Unspawned(p)'
        PROVE  pc'[Writer(q, k)] = pc[Writer(q, k)]
    BY <2>1, <2>2, <2>3, <2>4, WriterFacts DEF Writer
  <2> QED
    BY <1>3, <2>1, <2>2, <2>3, <2>4
<1>7. ASSUME NEW p \in Pulls, StoreManifest(p) PROVE UnspawnedIdle'
  <2>1. /\ \A q \in Pulls \ {p} : stage'[q] = stage[q]
        /\ stage'[p] = "manifest"
        /\ \A w \in Writers \ {Writer(p, ManifestSlot(p))} : pc'[w] = pc[w]
    BY <1>7 DEF StoreManifest, Goto, MoveTo, TypeOK
  <2>2. Unspawned(p)' = {}
    BY <2>1 DEF Unspawned
  <2>3. ASSUME NEW q \in Pulls, NEW k \in Slots(q), q # p
        PROVE  pc'[Writer(q, k)] = pc[Writer(q, k)]
    BY <1>4, <2>1, <2>3, WriterFacts, SlotFacts
  <2> QED
    BY <1>3, <2>1, <2>2, <2>3
<1>8. ASSUME NEW p \in Pulls, AwaitLayer(p) PROVE UnspawnedIdle'
  BY <1>8 DEF AwaitLayer, UnspawnedIdle, Unspawned
<1>9. ASSUME NEW p \in Pulls, PullFails(p) \/ TruncateRef(p) \/ WriteRef(p)
      PROVE  UnspawnedIdle'
  <2>1. /\ \A q \in Pulls \ {p} : stage'[q] = stage[q]
        /\ stage'[p] \in {"err", "naming", "ok"} /\ UNCHANGED pc
    BY <1>9 DEF PullFails, TruncateRef, WriteRef, MoveTo, TypeOK
  <2>2. Unspawned(p)' = {}
    BY <2>1 DEF Unspawned
  <2> QED
    BY <1>3, <2>1, <2>2
<1>10. ASSUME NEW p \in Pulls, Exit(p) \/ Crash(p) PROVE UnspawnedIdle'
  <2>1. /\ \A q \in Pulls : stage'[q] \in {stage[q], "gone"}
        /\ \A w \in Writers : pc[w] = "idle" => pc'[w] = "idle"
    BY <1>10 DEF Exit, Crash, End, TypeOK
  <2>2. ASSUME NEW q \in Pulls PROVE Unspawned(q)' \subseteq Unspawned(q)
    BY <2>1 DEF Unspawned
  <2> QED
    BY <1>1, <2>1, <2>2, WriterFacts DEF UnspawnedIdle
<1>11. CASE UNCHANGED vars
  BY <1>11 DEF vars, UnspawnedIdle, Unspawned
<1> QED
  BY <1>2, <1>5, <1>6, <1>7, <1>8, <1>9, <1>10, <1>11 DEF Next, PullStep

\* A step that touches no file and sets no writing task to something else, nor
\* another to writing, keeps FileInv.
LEMMA QuietStep ==
    ASSUME TypeOK, FileInv, UNCHANGED <<blob, temp, whole, held>>,
           \A w \in Writers : pc'[w] = "write" <=> pc[w] = "write"
    PROVE  FileInv'
BY DEF FileInv, FilesHaveOrigin, WritersHoldFiles, TornIsOpen, Linked, HasWriter

LEMMA FileStep ==
    ASSUME Daemon, "io" \notin Faults, "crash" \notin Faults,
           TypeOK, FileInv, UnspawnedIdle, [Next]_vars
    PROVE  FileInv'
<1>1. ASSUME NEW w \in Writers,
             AcquirePermit(w) \/ CheckExists(w) \/ ReadExisting(w) \/ Download(w)
      PROVE  FileInv'
  <2>1. /\ UNCHANGED <<blob, temp, whole, held>>
        /\ \A v \in Writers : pc'[v] = "write" <=> pc[v] = "write"
    BY <1>1 DEF AcquirePermit, CheckExists, ReadExisting, Download, Goto, files, TypeOK
  <2> QED
    BY <2>1, QuietStep
<1>2. ASSUME NEW w \in Writers, RemoveExisting(w) PROVE FileInv'
  <2>1. /\ UNCHANGED <<temp, whole, held>>
        /\ \A d \in Digests : blob'[d] = blob[d] \/ blob'[d] = NoFile
        /\ \A v \in Writers : pc'[v] = "write" <=> pc[v] = "write"
    BY <1>2 DEF RemoveExisting, Goto, TypeOK
  <2>2. \A f \in Writers : Linked(f)' => Linked(f)
    BY <2>1, WriterFacts DEF Linked
  <2> QED
    BY <2>1, <2>2
    DEF FileInv, FilesHaveOrigin, WritersHoldFiles, TornIsOpen, HasWriter
<1>3. ASSUME NEW w \in Writers, OpenTemp(w) PROVE FileInv'
  <2> DEFINE d == Digest(w)
             file == IF temp[d] = NoFile THEN w ELSE temp[d]
  <2>1. d \in Digests /\ file \in Writers
    BY WriterFacts DEF FileInv, FilesHaveOrigin
  <2>2. /\ pc[w] = "open" /\ pc'[w] = "write" /\ held'[w] = file
        /\ \A v \in Writers \ {w} : pc'[v] = pc[v] /\ held'[v] = held[v]
        /\ \A f \in Writers \ {file} : whole'[f] = whole[f]
        /\ UNCHANGED blob /\ temp'[d] = file
        /\ \A e \in Digests \ {d} : temp'[e] = temp[e]
    BY <1>3, <2>1, InodeFacts DEF OpenTemp, Goto, TypeOK
  <2>3. ASSUME NEW f \in Writers, Linked(f)', ~whole'[f] PROVE HasWriter(f)'
    <3>1. CASE f = file
      BY <2>2, <3>1 DEF HasWriter
    <3>2. CASE f # file
      <4>1. Linked(f) /\ ~whole[f]
        BY <2>1, <2>2, <2>3, <3>2 DEF Linked
      <4> QED
        BY <2>2, <4>1 DEF FileInv, TornIsOpen, HasWriter
    <3> QED
      BY <3>1, <3>2
  <2>4. WritersHoldFiles' /\ FilesHaveOrigin'
    BY <2>1, <2>2 DEF FileInv, WritersHoldFiles, FilesHaveOrigin
  <2> QED
    BY <2>3, <2>4 DEF FileInv, TornIsOpen
<1>4. ASSUME NEW w \in Writers, WriteTemp(w) PROVE FileInv'
  <2>1. /\ pc[w] = "write" /\ pc'[w] = "rename" /\ whole'[held[w]]
        /\ \A v \in Writers \ {w} : pc'[v] = pc[v] /\ held'[v] = held[v]
        /\ \A f \in Writers \ {held[w]} : whole'[f] = whole[f]
        /\ UNCHANGED <<blob, temp>>
    BY <1>4, InodeFacts DEF WriteTemp, Goto, TypeOK, FileInv, WritersHoldFiles
  <2>2. ASSUME NEW f \in Writers, Linked(f)', ~whole'[f] PROVE HasWriter(f)'
    <3>1. f # held[w] /\ Linked(f) /\ ~whole[f]
      BY <2>1, <2>2 DEF Linked
    <3> QED
      BY <2>1, <3>1 DEF FileInv, TornIsOpen, HasWriter
  <2>3. WritersHoldFiles' /\ FilesHaveOrigin'
    BY <2>1 DEF FileInv, WritersHoldFiles, FilesHaveOrigin
  <2> QED
    BY <2>2, <2>3 DEF FileInv, TornIsOpen
<1>5. ASSUME NEW w \in Writers, RenameTemp(w) PROVE FileInv'
  <2>1. /\ UNCHANGED <<whole, held>>
        /\ \A d \in Digests : temp'[d] \in {temp[d], NoFile}
        /\ \A d \in Digests : blob'[d] = blob[d] \/ (temp[d] # NoFile /\ blob'[d] = temp[d])
        /\ \A v \in Writers : pc'[v] = "write" <=> pc[v] = "write"
    BY <1>5 DEF RenameTemp, Goto, TypeOK
  <2>2. \A f \in Writers : Linked(f)' => Linked(f)
    BY <2>1, WriterFacts DEF Linked
  <2>3. FilesHaveOrigin'
    BY <2>1 DEF FileInv, FilesHaveOrigin
  <2> QED
    BY <2>1, <2>2, <2>3 DEF FileInv, WritersHoldFiles, TornIsOpen, HasWriter
<1>6. ASSUME NEW p \in Pulls, BeginPull(p) \/ SpawnLayers(p) \/ StoreManifest(p)
      PROVE  FileInv'
  <2>1. \A k \in Unspawned(p) : pc[Writer(p, k)] = "idle"
    BY DEF UnspawnedIdle
  <2>2. CASE BeginPull(p)
    <3>1. pc[Writer(p, 1)] = "idle"
      BY <2>1, <2>2, SlotFacts DEF BeginPull, Unspawned
    <3>2. /\ UNCHANGED <<blob, temp, whole, held>>
          /\ \A v \in Writers : pc'[v] = "write" <=> pc[v] = "write"
      BY <2>2, <3>1 DEF BeginPull, Goto, files, TypeOK
    <3> QED
      BY <3>2, QuietStep
  <2>3. CASE SpawnLayers(p)
    <3>1. \A k \in Layers(p) : pc[Writer(p, k)] = "idle"
      BY <2>1, <2>3, SlotFacts DEF SpawnLayers, Unspawned
    <3>2. /\ UNCHANGED <<blob, temp, whole, held>>
          /\ \A v \in Writers : pc'[v] = "write" <=> pc[v] = "write"
      BY <2>3, <3>1, WriterFacts DEF SpawnLayers, files, TypeOK
    <3> QED
      BY <3>2, QuietStep
  <2>4. CASE StoreManifest(p)
    <3>1. pc[Writer(p, ManifestSlot(p))] = "idle"
      BY <2>1, <2>4, SlotFacts DEF StoreManifest, Unspawned
    <3>2. /\ UNCHANGED <<blob, temp, whole, held>>
          /\ \A v \in Writers : pc'[v] = "write" <=> pc[v] = "write"
      BY <2>4, <3>1 DEF StoreManifest, Goto, files, TypeOK
    <3> QED
      BY <3>2, QuietStep
  <2> QED
    BY <1>6, <2>2, <2>3, <2>4
<1>7. ASSUME NEW p \in Pulls,
             AwaitLayer(p) \/ PullFails(p) \/ TruncateRef(p) \/ WriteRef(p)
      PROVE  FileInv'
  <2>1. UNCHANGED <<blob, temp, whole, held>> /\ UNCHANGED pc
    BY <1>7 DEF AwaitLayer, PullFails, TruncateRef, WriteRef, files
  <2> QED
    BY <2>1, QuietStep
<1>8. ASSUME NEW p \in Pulls, Exit(p) \/ Crash(p) PROVE FileInv'
  BY <1>8 DEF Exit, Crash
<1>9. CASE UNCHANGED vars
  BY <1>9, QuietStep DEF vars, files
<1> QED
  BY <1>1, <1>2, <1>3, <1>4, <1>5, <1>6, <1>7, <1>8, <1>9 DEF Next, WriterStep, PullStep

\* Whatever pulls one guestd serves at a time, and whichever of their downloads
\* fail: as long as writing files does not, a blob file that is not whole is one
\* a task still has open and goes on to complete.
THEOREM TornBlobsHaveWriters ==
    ASSUME Daemon, "io" \notin Faults, "crash" \notin Faults
    PROVE  Spec => []TornBlobHasWriter
<1>1. TypeOK /\ TornInv /\ [Next]_vars => TornInv'
  BY UnspawnedStep, FileStep DEF TornInv
<1>2. TornInv => TornBlobHasWriter
  BY DEF TornInv, FileInv, FilesHaveOrigin, TornIsOpen, Linked, HasWriter, TornBlobHasWriter
<1> QED
  BY PullTypeCorrect, TornInit, <1>1, <1>2, PTL DEF Spec
-----------------------------------------------------------------------------
(***************************************************************************)
(* What a reference that names an image promises of the pull that wrote    *)
(* it: the tasks of every one of its slots ended well.  That takes no      *)
(* assumption: it holds of any number of pulls, whatever fails.            *)
(***************************************************************************)

Done(p, k) == pc[Writer(p, k)] = "done"

\* The slots a pull has been through, by the stage it has reached.
Progress ==
    \A p \in Pulls :
        /\ stage[p] \in {"layers", "manifest", "naming", "ok"} => Done(p, 1)
        /\ joined[p] \in 1..(ManifestSlot(p) - 1)
        /\ \A k \in 2..joined[p] : Done(p, k)
        /\ stage[p] \in {"manifest", "naming", "ok"} => joined[p] + 1 = ManifestSlot(p)
        /\ stage[p] \in {"naming", "ok"} => Done(p, ManifestSlot(p))

RefCompleted ==
    ref \in Digests =>
        \E p \in Pulls : Manifest(p) = ref /\ \A k \in Slots(p) : Done(p, k)

ProgressInv == UnspawnedIdle /\ Progress /\ RefCompleted

\* What a pull, or the end of its process, does to tasks and files: it sets
\* idle tasks to work, or kills tasks that have not ended.
LEMMA PullMoves ==
    ASSUME TypeOK, UnspawnedIdle, NEW p \in Pulls, BeginPull(p) \/ PullStep(p) \/ Crash(p)
    PROVE  /\ UNCHANGED files
           /\ \A w \in Writers :
                \/ pc'[w] = pc[w] /\ (pc[w] = "write" => held'[w] = held[w])
                \/ pc[w] = "idle" /\ pc'[w] \in {"download", "queued", "exists"}
                \/ pc[w] \notin {"idle", "done"} /\ pc'[w] = "dead"
<1>0. \A k \in Unspawned(p) : pc[Writer(p, k)] = "idle"
  BY DEF UnspawnedIdle
<1>1. CASE BeginPull(p)
  <2>1. pc[Writer(p, 1)] = "idle"
    BY <1>0, <1>1, SlotFacts DEF BeginPull, Unspawned
  <2> QED
    BY <1>1, <2>1, WriterFacts, SlotFacts DEF BeginPull, Goto, TypeOK
<1>2. CASE SpawnLayers(p)
  <2>1. \A k \in Layers(p) : pc[Writer(p, k)] = "idle"
    BY <1>0, <1>2, SlotFacts DEF SpawnLayers, Unspawned
  <2> QED
    BY <1>2, <2>1, WriterFacts DEF SpawnLayers, TypeOK
<1>3. CASE StoreManifest(p)
  <2>1. pc[Writer(p, ManifestSlot(p))] = "idle"
    BY <1>0, <1>3, SlotFacts DEF StoreManifest, Unspawned
  <2> QED
    BY <1>3, <2>1, WriterFacts, SlotFacts DEF StoreManifest, Goto, TypeOK
<1>4. CASE AwaitLayer(p) \/ PullFails(p) \/ TruncateRef(p) \/ WriteRef(p)
  BY <1>4 DEF AwaitLayer, PullFails, TruncateRef, WriteRef
<1>5. CASE Exit(p) \/ Crash(p)
  BY <1>5 DEF Exit, Crash, End
<1> QED
  BY <1>1, <1>2, <1>3, <1>4, <1>5 DEF PullStep

\* What the step of a task leaves alone.
LEMMA WriterMoves ==
    ASSUME TypeOK, NEW w \in Writers, WriterStep(w)
    PROVE  /\ pc[w] \notin {"idle", "done", "failed", "dead"}
           /\ pc'[w] \notin {"idle", "queued", "dead"}
           /\ \A v \in Writers \ {w} : pc'[v] = pc[v] /\ held'[v] = held[v]
           /\ UNCHANGED <<ref, stage, joined>>
BY DEF TypeOK, WriterStep, AcquirePermit, CheckExists, ReadExisting, RemoveExisting, Download,
       OpenTemp, WriteTemp, RenameTemp, Goto

\* A task that ended well stays so.
LEMMA DoneStays ==
    ASSUME TypeOK, UnspawnedIdle, [Next]_vars
    PROVE  \A w \in Writers : pc[w] = "done" => pc'[w] = "done"
<1>1. ASSUME NEW w \in Writers, WriterStep(w)
      PROVE  \A v \in Writers : pc[v] = "done" => pc'[v] = "done"
  BY <1>1, WriterMoves
<1>2. ASSUME NEW p \in Pulls, BeginPull(p) \/ PullStep(p) \/ Crash(p)
      PROVE  \A v \in Writers : pc[v] = "done" => pc'[v] = "done"
  BY <1>2, PullMoves
<1> QED
  BY <1>1, <1>2 DEF Next, vars

LEMMA ProgressInit == Init => ProgressInv
<1> SUFFICES ASSUME Init PROVE ProgressInv
  OBVIOUS
<1>1. UnspawnedIdle
  BY TornInit DEF TornInv
<1>2. Progress
  BY SlotFacts DEF Init, Progress, ManifestSlot
<1>3. RefCompleted
  BY NoneAssumption DEF Init, RefCompleted
<1> QED
  BY <1>1, <1>2, <1>3 DEF ProgressInv

LEMMA ProgressStep == TypeOK /\ ProgressInv /\ [Next]_vars => ProgressInv'
<1> SUFFICES ASSUME TypeOK, ProgressInv, [Next]_vars PROVE ProgressInv'
  OBVIOUS
<1>0. UnspawnedIdle /\ Progress /\ RefCompleted
  BY DEF ProgressInv
<1>1. UnspawnedIdle'
  BY <1>0, UnspawnedStep
<1>2. \A p \in Pulls : \A k \in Slots(p) : Done(p, k) => Done(p, k)'
  BY <1>0, DoneStays, WriterFacts DEF Done
<1>3. ASSUME NEW q \in Pulls, joined'[q] = joined[q],
             stage'[q] = stage[q] \/ stage'[q] \in {"new", "config", "err", "gone"}
      PROVE  /\ stage'[q] \in {"layers", "manifest", "naming", "ok"} => Done(q, 1)'
             /\ joined'[q] \in 1..(ManifestSlot(q) - 1)
             /\ \A k \in 2..joined'[q] : Done(q, k)'
             /\ stage'[q] \in {"manifest", "naming", "ok"} => joined'[q] + 1 = ManifestSlot(q)
             /\ stage'[q] \in {"naming", "ok"} => Done(q, ManifestSlot(q))'
  <2>1. \A k \in 2..joined[q] : k \in Slots(q)
    BY <1>0, SlotFacts DEF Progress, Slots, ManifestSlot
  <2> QED
    BY <1>0, <1>2, <1>3, <2>1, SlotFacts DEF Progress
<1>4. ASSUME UNCHANGED ref PROVE RefCompleted'
  BY <1>0, <1>2, <1>4 DEF RefCompleted
<1>5. ASSUME \A q \in Pulls : joined'[q] = joined[q],
             \A q \in Pulls :
                 stage'[q] = stage[q] \/ stage'[q] \in {"new", "config", "err", "gone"}
      PROVE  Progress'
  BY <1>3, <1>5 DEF Progress
<1>6. ASSUME NEW p \in Pulls,
             \A q \in Pulls \ {p} : joined'[q] = joined[q] /\ stage'[q] = stage[q],
             /\ stage'[p] \in {"layers", "manifest", "naming", "ok"} => Done(p, 1)'
             /\ joined'[p] \in 1..(ManifestSlot(p) - 1)
             /\ \A k \in 2..joined'[p] : Done(p, k)'
             /\ stage'[p] \in {"manifest", "naming", "ok"} => joined'[p] + 1 = ManifestSlot(p)
             /\ stage'[p] \in {"naming", "ok"} => Done(p, ManifestSlot(p))'
      PROVE  Progress'
  BY <1>3, <1>6 DEF Progress
<1>7. ASSUME NEW p \in Pulls
      PROVE  /\ 1 \in Slots(p) /\ ManifestSlot(p) \in Slots(p)
             /\ \A k \in 2..joined[p] : k \in Slots(p) /\ Done(p, k) /\ Done(p, k)'
             /\ joined[p] \in Nat /\ joined[p] + 1 \in Nat
  <2>1. joined[p] \in 1..(ManifestSlot(p) - 1) /\ \A k \in 2..joined[p] : Done(p, k)
    BY <1>0 DEF Progress
  <2>2. \A k \in 2..joined[p] : k \in Slots(p)
    BY <2>1, SlotFacts DEF Slots, ManifestSlot
  <2> QED
    BY <1>2, <2>1, <2>2, SlotFacts
<1>8. ASSUME NEW w \in Writers, WriterStep(w) PROVE Progress' /\ RefCompleted'
  BY <1>4, <1>5, <1>8, WriterMoves
<1>9. ASSUME NEW p \in Pulls, BeginPull(p) \/ PullFails(p) \/ Exit(p) \/ Crash(p)
      PROVE  Progress' /\ RefCompleted'
  <2>1. /\ UNCHANGED <<ref, joined>>
        /\ \A q \in Pulls : stage'[q] = stage[q] \/ stage'[q] \in {"config", "err", "gone"}
    BY <1>9 DEF BeginPull, PullFails, Exit, Crash, End, MoveTo, TypeOK
  <2> QED
    BY <1>4, <1>5, <2>1
<1>10. ASSUME NEW p \in Pulls, SpawnLayers(p) PROVE Progress' /\ RefCompleted'
  <2>1. /\ UNCHANGED <<ref, joined>> /\ stage'[p] = "layers" /\ Done(p, 1)
        /\ \A q \in Pulls \ {p} : stage'[q] = stage[q]
    BY <1>10 DEF SpawnLayers, MoveTo, TypeOK, Done
  <2>2. joined[p] \in 1..(ManifestSlot(p) - 1)
    BY <1>0 DEF Progress
  <2> QED
    BY <1>2, <1>4, <1>6, <1>7, <2>1, <2>2
<1>11. ASSUME NEW p \in Pulls, AwaitLayer(p) PROVE Progress' /\ RefCompleted'
  <2>1. /\ UNCHANGED <<ref, stage>> /\ stage[p] = "layers"
        /\ joined'[p] = joined[p] + 1 /\ joined[p] + 1 \in Layers(p)
        /\ Done(p, joined[p] + 1)
        /\ \A q \in Pulls \ {p} : joined'[q] = joined[q]
    BY <1>11 DEF AwaitLayer, TypeOK, Done
  <2>2. Done(p, 1)
    BY <1>0, <2>1 DEF Progress
  <2>3. joined[p] + 1 \in Slots(p) /\ joined'[p] \in 1..(ManifestSlot(p) - 1)
    BY <2>1, SlotFacts DEF Layers, ManifestSlot
  <2>4. \A k \in 2..joined'[p] : k \in 2..joined[p] \/ k = joined[p] + 1
    BY <1>7, <2>1
  <2>5. \A k \in 2..joined'[p] : Done(p, k)'
    BY <1>2, <1>7, <2>1, <2>3, <2>4
  <2> QED
    BY <1>2, <1>4, <1>6, <1>7, <2>1, <2>2, <2>3, <2>5
<1>12. ASSUME NEW p \in Pulls, StoreManifest(p) PROVE Progress' /\ RefCompleted'
  <2>1. /\ UNCHANGED <<ref, joined>> /\ stage[p] = "layers" /\ stage'[p] = "manifest"
        /\ joined[p] + 1 = ManifestSlot(p)
        /\ \A q \in Pulls \ {p} : stage'[q] = stage[q]
    BY <1>12 DEF StoreManifest, MoveTo, TypeOK
  <2>2. Done(p, 1) /\ joined[p] \in 1..(ManifestSlot(p) - 1)
    BY <1>0, <2>1 DEF Progress
  <2> QED
    BY <1>2, <1>4, <1>6, <1>7, <2>1, <2>2
<1>13. ASSUME NEW p \in Pulls, TruncateRef(p) PROVE Progress' /\ RefCompleted'
  <2>1. /\ UNCHANGED joined /\ stage[p] = "manifest" /\ stage'[p] = "naming"
        /\ Done(p, ManifestSlot(p)) /\ ref' = "torn"
        /\ \A q \in Pulls \ {p} : stage'[q] = stage[q]
    BY <1>13 DEF TruncateRef, MoveTo, TypeOK, Done
  <2>2. /\ Done(p, 1) /\ joined[p] \in 1..(ManifestSlot(p) - 1)
        /\ joined[p] + 1 = ManifestSlot(p)
    BY <1>0, <2>1 DEF Progress
  <2>3. RefCompleted'
    BY <2>1, NoneAssumption DEF RefCompleted
  <2> QED
    BY <1>2, <1>6, <1>7, <2>1, <2>2, <2>3
<1>14. ASSUME NEW p \in Pulls, WriteRef(p) PROVE Progress' /\ RefCompleted'
  <2>1. /\ UNCHANGED joined /\ stage[p] = "naming" /\ stage'[p] \in {"ok", "err"}
        /\ ref' = Manifest(p) \/ UNCHANGED ref
        /\ \A q \in Pulls \ {p} : stage'[q] = stage[q]
    BY <1>14 DEF WriteRef, MoveTo, TypeOK
  <2>2. /\ Done(p, 1) /\ Done(p, ManifestSlot(p))
        /\ joined[p] \in 1..(ManifestSlot(p) - 1)
        /\ joined[p] + 1 = ManifestSlot(p)
    BY <1>0, <2>1 DEF Progress
  <2>3. \A k \in Slots(p) : k = 1 \/ k = ManifestSlot(p) \/ k \in 2..joined[p]
    BY <2>2, SlotFacts DEF Slots, ManifestSlot
  <2>4. \A k \in Slots(p) : Done(p, k)'
    BY <1>2, <1>7, <2>2, <2>3
  <2>5. RefCompleted'
    BY <1>4, <2>1, <2>4 DEF RefCompleted
  <2> QED
    BY <1>2, <1>6, <1>7, <2>1, <2>2, <2>5
<1>15. ASSUME UNCHANGED vars PROVE Progress' /\ RefCompleted'
  BY <1>4, <1>5, <1>15 DEF vars
<1>16. Progress' /\ RefCompleted'
  BY <1>8, <1>9, <1>10, <1>11, <1>12, <1>13, <1>14, <1>15 DEF Next, PullStep
<1> QED
  BY <1>1, <1>16 DEF ProgressInv

\* With any pulls at once and whatever fails or dies: a reference that names an
\* image was written after every task of one pull of that image ended well.
THEOREM RefFollowsPull == Spec => []ProgressInv
BY PullTypeCorrect, ProgressInit, ProgressStep, PTL DEF Spec

-----------------------------------------------------------------------------
(***************************************************************************)
(* Pulls one after the other, in processes of their own.  A failed pull's  *)
(* tasks end with its process, so at any time the tasks of one pull at     *)
(* most are at work, and if its image names no blob twice, one task at     *)
(* most on any digest.  Then the temporary file is the one its writer      *)
(* opened, and what is removed is what was read and found damaged.         *)
(***************************************************************************)

Active(p) == stage[p] \notin {"new", "ok", "gone"}

OneActive == \A p, q \in Pulls : Active(p) /\ Active(q) => p = q

Busy == {"queued", "exists", "read", "remove", "download", "open", "write", "rename"}

BusyActive == \A w \in Writers : pc[w] \in Busy => Active(w[1])

\* No image names a blob twice.  Of one that does, two tasks write the same
\* temporary file at once, and what is proved here of the files is not so.
BlobsDiffer ==
    \A p \in Pulls : \A j, k \in Slots(p) : Image[p][j] = Image[p][k] => j = k

\* A file is under the names of its own digest only, and under one of them.
FilesFit ==
    \A d \in Digests :
        /\ temp[d] # NoFile =>
             temp[d] \in Writers /\ Digest(temp[d]) = d /\ temp[d] # blob[d]
        /\ blob[d] # NoFile =>
             blob[d] = Old(d) \/ (blob[d] \in Writers /\ Digest(blob[d]) = d)

\* The steps of a writer that has not created its file.
Fresh == {"idle", "queued", "exists", "read", "remove", "download", "open"}

WriterFits(w) ==
    LET d == Digest(w) IN
    /\ pc[w] \in Fresh => temp[d] # w /\ blob[d] # w
    /\ pc[w] = "write" => temp[d] # NoFile /\ held[w] = temp[d]
    /\ pc[w] = "rename" => temp[d] # NoFile /\ whole[temp[d]]
    /\ pc[w] = "remove" => ~Stored(d)
    /\ pc[w] = "done" => Stored(d)

WritersFit == \A w \in Writers : WriterFits(w)

AloneInv == OneActive /\ BusyActive /\ FilesFit /\ WritersFit

LEMMA AloneInit == Init => AloneInv
<1> SUFFICES ASSUME Init PROVE AloneInv
  OBVIOUS
<1>1. OneActive /\ BusyActive
  BY DEF Init, OneActive, Active, BusyActive, Busy
<1>2. FilesFit
  BY DEF Init, FilesFit
<1>3. WritersFit
  BY WriterFacts DEF Init, WritersFit, WriterFits, Fresh
<1> QED
  BY <1>1, <1>2, <1>3 DEF AloneInv

\* One task at most is at work on a digest.
LEMMA AloneOnDigest ==
    ASSUME BlobsDiffer, AloneInv, NEW v \in Writers, NEW w \in Writers,
           pc[v] \in Busy, pc[w] \in Busy, Digest(v) = Digest(w)
    PROVE  v = w
<1>1. v[1] = w[1]
  BY WriterFacts DEF AloneInv, OneActive, BusyActive
<1>2. v[2] = w[2]
  BY <1>1, WriterFacts DEF BlobsDiffer, Digest
<1> QED
  BY <1>1, <1>2, WriterFacts DEF Writer

\* The pull that begins finds none active; no other step makes one active.
LEMMA OneActiveStep ==
    ASSUME ~Daemon, OneAtATime, TypeOK, OneActive, [Next]_vars
    PROVE  OneActive'
<1>1. ASSUME UNCHANGED stage PROVE OneActive'
  BY <1>1 DEF OneActive, Active
<1>2. ASSUME NEW w \in Writers, WriterStep(w) PROVE OneActive'
  BY <1>1, <1>2, WriterMoves
<1>3. ASSUME NEW p \in Pulls, BeginPull(p) PROVE OneActive'
  BY <1>3 DEF BeginPull, Returned, MoveTo, OneActive, Active, TypeOK
<1>4. ASSUME NEW p \in Pulls, PullStep(p) \/ Crash(p) PROVE OneActive'
  <2>1. \A q \in Pulls : Active(q)' => Active(q)
    BY <1>4
    DEF PullStep, SpawnLayers, AwaitLayer, StoreManifest, PullFails, TruncateRef, WriteRef,
        Exit, Crash, End, MoveTo, Active, TypeOK
  <2> QED
    BY <2>1 DEF OneActive
<1> QED
  BY <1>1, <1>2, <1>3, <1>4 DEF Next, vars

\* A pull sets only its own tasks to work, while it is active; when it ends
\* well they are all done, when its process ends they are dead.
LEMMA BusyActiveStep ==
    ASSUME ~Daemon, TypeOK, ProgressInv, BusyActive, [Next]_vars
    PROVE  BusyActive'
<1>0. UnspawnedIdle /\ Progress
  BY DEF ProgressInv
<1>1. ASSUME NEW w \in Writers, WriterStep(w) PROVE BusyActive'
  <2>1. pc[w] \in Busy
    BY <1>1, WriterMoves DEF TypeOK, Steps, Busy
  <2> QED
    BY <1>1, <2>1, WriterMoves DEF BusyActive, Active
<1>2. ASSUME NEW p \in Pulls,
             \A q \in Pulls : Active(q) => Active(q)',
             \A v \in Writers : pc'[v] \in Busy => pc[v] \in Busy \/ (v[1] = p /\ Active(p)')
      PROVE  BusyActive'
  BY <1>2, WriterFacts DEF BusyActive
<1>3. ASSUME NEW p \in Pulls,
             BeginPull(p) \/ SpawnLayers(p) \/ AwaitLayer(p) \/ StoreManifest(p)
             \/ PullFails(p) \/ TruncateRef(p)
      PROVE  BusyActive'
  <2>1. \A q \in Pulls : Active(q) => Active(q)'
    BY <1>3
    DEF BeginPull, SpawnLayers, AwaitLayer, StoreManifest, PullFails, TruncateRef, MoveTo,
        Active, TypeOK
  <2>2. CASE BeginPull(p)
    <3>1. \/ UNCHANGED pc
          \/ stage'[p] = "config" /\ \A v \in Writers \ {Writer(p, 1)} : pc'[v] = pc[v]
      BY <2>2 DEF BeginPull, MoveTo, Goto, TypeOK
    <3> QED
      BY <1>2, <2>1, <3>1 DEF Active, Writer
  <2>3. CASE SpawnLayers(p)
    BY <1>2, <2>1, <2>3 DEF SpawnLayers, MoveTo, Active, TypeOK
  <2>4. CASE StoreManifest(p)
    <3>1. /\ stage'[p] = "manifest"
          /\ \A v \in Writers \ {Writer(p, ManifestSlot(p))} : pc'[v] = pc[v]
      BY <2>4 DEF StoreManifest, MoveTo, Goto, TypeOK
    <3> QED
      BY <1>2, <2>1, <3>1 DEF Active, Writer
  <2>5. CASE AwaitLayer(p) \/ PullFails(p) \/ TruncateRef(p)
    <3>1. UNCHANGED pc
      BY <2>5 DEF AwaitLayer, PullFails, TruncateRef
    <3> QED
      BY <1>2, <2>1, <3>1
  <2> QED
    BY <1>3, <2>2, <2>3, <2>4, <2>5
<1>4. ASSUME NEW p \in Pulls, WriteRef(p) PROVE BusyActive'
  <2>1. /\ UNCHANGED pc /\ stage[p] = "naming"
        /\ \A q \in Pulls \ {p} : stage'[q] = stage[q]
    BY <1>4 DEF WriteRef, MoveTo, TypeOK
  <2>2. /\ Done(p, 1) /\ Done(p, ManifestSlot(p)) /\ \A k \in 2..joined[p] : Done(p, k)
        /\ joined[p] \in Nat /\ joined[p] + 1 = ManifestSlot(p)
    BY <1>0, <2>1, SlotFacts DEF Progress, ManifestSlot
  <2>3. \A k \in Slots(p) : k = 1 \/ k = ManifestSlot(p) \/ k \in 2..joined[p]
    BY <2>2, SlotFacts DEF Slots, ManifestSlot
  <2>4. \A v \in Writers : v[1] = p => pc[v] = "done"
    BY <2>2, <2>3, WriterFacts DEF Done
  <2> QED
    BY <2>1, <2>4, WriterFacts DEF BusyActive, Busy, Active
<1>5. ASSUME NEW p \in Pulls, Exit(p) \/ Crash(p) PROVE BusyActive'
  <2>1. /\ \A q \in Pulls \ {p} : stage'[q] = stage[q]
        /\ \A v \in Writers :
            pc'[v] = IF v[1] = p /\ pc[v] \notin {"idle", "done"} THEN "dead" ELSE pc[v]
    BY <1>5 DEF Exit, Crash, Doomed, End
  <2> QED
    BY <2>1, WriterFacts DEF BusyActive, Busy, Active
<1>6. CASE UNCHANGED vars
  BY <1>6 DEF vars, BusyActive, Active
<1> QED
  BY <1>1, <1>3, <1>4, <1>5, <1>6 DEF Next, PullStep

\* What a task does to the files of its digest does not concern the others: the
\* files of two digests are different inodes.
LEMMA OtherDigests ==
    ASSUME TypeOK, FilesFit, WritersFit, NEW w \in Writers,
           \A v \in Writers \ {w} : pc'[v] = pc[v] /\ held'[v] = held[v],
           \A e \in Digests \ {Digest(w)} : blob'[e] = blob[e] /\ temp'[e] = temp[e],
           \A i \in Inodes :
               i \in {Old(e) : e \in Digests} \/ Digest(i) # Digest(w) => whole'[i] = whole[i]
    PROVE  /\ \A e \in Digests \ {Digest(w)} :
                /\ temp[e] # NoFile => whole'[temp[e]] = whole[temp[e]]
                /\ Stored(e)' <=> Stored(e)
           /\ \A v \in Writers : Digest(v) # Digest(w) => WriterFits(v)'
<1>1. ASSUME NEW e \in Digests \ {Digest(w)}
      PROVE  /\ temp[e] # NoFile => whole'[temp[e]] = whole[temp[e]]
             /\ Stored(e)' <=> Stored(e)
  <2>1. temp[e] # NoFile => whole'[temp[e]] = whole[temp[e]]
    BY InodeFacts DEF FilesFit
  <2>2. blob[e] # NoFile => whole'[blob[e]] = whole[blob[e]]
    BY InodeFacts DEF FilesFit
  <2> QED
    BY <2>1, <2>2 DEF Stored
<1>2. ASSUME NEW v \in Writers, Digest(v) # Digest(w) PROVE WriterFits(v)'
  <2>1. WriterFits(v) /\ v # w /\ Digest(v) \in Digests \ {Digest(w)}
    BY <1>2, WriterFacts DEF WritersFit
  <2>2. /\ blob'[Digest(v)] = blob[Digest(v)] /\ temp'[Digest(v)] = temp[Digest(v)]
        /\ temp[Digest(v)] # NoFile => whole'[temp[Digest(v)]] = whole[temp[Digest(v)]]
        /\ Stored(Digest(v))' <=> Stored(Digest(v))
        /\ pc'[v] = pc[v] /\ held'[v] = held[v]
    BY <1>1, <2>1
  <2> QED
    BY <2>1, <2>2 DEF WriterFits
<1> QED
  BY <1>1, <1>2

\* FilesFit and WritersFit after a step, and what is stored still stored.
StepFits ==
    /\ FilesFit'
    /\ WritersFit'
    /\ \A d \in Digests : Stored(d) => Stored(d)'

LEMMA ReadersFit ==
    ASSUME TypeOK, AloneInv, BlobsDiffer, NEW w \in Writers,
           AcquirePermit(w) \/ CheckExists(w) \/ ReadExisting(w) \/ Download(w)
    PROVE  StepFits
<1>0. FilesFit /\ WritersFit
  BY DEF AloneInv
<1>1. /\ UNCHANGED <<blob, temp, whole, held>>
      /\ pc[w] \in {"queued", "exists", "read", "download"}
      /\ pc'[w] \in {"exists", "read", "download", "open", "remove", "done", "failed"}
      /\ pc'[w] = "remove" => ~Stored(Digest(w))
      /\ pc'[w] = "done" => Stored(Digest(w))
      /\ \A v \in Writers \ {w} : pc'[v] = pc[v]
  BY DEF AcquirePermit, CheckExists, ReadExisting, Download, Goto, files, TypeOK
<1>2. \A d \in Digests : Stored(d)' <=> Stored(d)
  BY <1>1 DEF Stored
<1>3. FilesFit'
  BY <1>0, <1>1 DEF FilesFit
<1>4. ASSUME NEW v \in Writers PROVE WriterFits(v)'
  <2>1. WriterFits(v) /\ Digest(v) \in Digests
    BY <1>0, WriterFacts DEF WritersFit
  <2>2. CASE v = w
    BY <1>1, <1>2, <2>1, <2>2 DEF WriterFits, Fresh
  <2>3. CASE v # w
    BY <1>1, <1>2, <2>1, <2>3 DEF WriterFits
  <2> QED
    BY <2>2, <2>3
<1> QED
  BY <1>1, <1>2, <1>3, <1>4 DEF StepFits, WritersFit

\* The file that is removed is still the damaged one that was read.
LEMMA RemoverFits ==
    ASSUME TypeOK, AloneInv, BlobsDiffer, NEW w \in Writers, RemoveExisting(w)
    PROVE  StepFits
<1> DEFINE d == Digest(w)
<1>0. FilesFit /\ WritersFit /\ d \in Digests
  BY WriterFacts DEF AloneInv
<1>1. /\ UNCHANGED <<temp, whole, held>>
      /\ pc[w] = "remove" /\ pc'[w] \in {"download", "open"}
      /\ \A v \in Writers \ {w} : pc'[v] = pc[v]
      /\ blob'[d] = NoFile /\ \A e \in Digests \ {d} : blob'[e] = blob[e]
  BY <1>0 DEF RemoveExisting, Goto, TypeOK
<1>2. ~Stored(d)
  BY <1>0, <1>1 DEF WritersFit, WriterFits
<1>3. \A e \in Digests : Stored(e) => Stored(e)'
  BY <1>1, <1>2 DEF Stored
<1>4. FilesFit'
  BY <1>0, <1>1 DEF FilesFit
<1>5. \A v \in Writers : Digest(v) # d => WriterFits(v)'
  BY <1>0, <1>1, OtherDigests
<1>6. ASSUME NEW v \in Writers, Digest(v) = d PROVE WriterFits(v)'
  <2>1. WriterFits(v) /\ WriterFits(w)
    BY <1>0 DEF WritersFit
  <2>2. CASE v = w
    BY <1>0, <1>1, <2>1, <2>2, WriterFacts DEF WriterFits, Fresh
  <2>3. CASE v # w
    <3>1. pc[v] \notin Busy /\ pc[v] # "done"
      BY <1>1, <1>2, <1>6, <2>1, <2>3, AloneOnDigest DEF Busy, WriterFits
    <3> QED
      BY <1>0, <1>1, <1>6, <2>1, <2>3, <3>1, WriterFacts DEF WriterFits, Fresh, Busy
  <2> QED
    BY <2>2, <2>3
<1> QED
  BY <1>1, <1>3, <1>4, <1>5, <1>6 DEF StepFits, WritersFit

\* The temporary file that is truncated is under no blob's name.
LEMMA OpenerFits ==
    ASSUME TypeOK, AloneInv, BlobsDiffer, NEW w \in Writers, OpenTemp(w)
    PROVE  StepFits
<1> DEFINE d == Digest(w)
           file == IF temp[d] = NoFile THEN w ELSE temp[d]
<1>0. FilesFit /\ WritersFit /\ d \in Digests /\ WriterFits(w)
  BY WriterFacts DEF AloneInv, WritersFit
<1>1. file \in Writers /\ file # NoFile /\ Digest(file) = d
  BY <1>0, WriterFacts DEF FilesFit
<1>2. /\ UNCHANGED blob
      /\ pc[w] = "open" /\ pc'[w] = "write" /\ held'[w] = file
      /\ \A v \in Writers \ {w} : pc'[v] = pc[v] /\ held'[v] = held[v]
      /\ temp'[d] = file /\ \A e \in Digests \ {d} : temp'[e] = temp[e]
      /\ \A i \in Inodes \ {file} : whole'[i] = whole[i]
  BY <1>0, <1>1, InodeFacts DEF OpenTemp, Goto, TypeOK
<1>3. blob[d] # file
  BY <1>0, <1>2 DEF FilesFit, WriterFits, Fresh
<1>4. \A e \in Digests : file # Old(e)
  BY <1>1, WriterFacts
<1>5. /\ \A e \in Digests \ {d} : Stored(e)' <=> Stored(e)
      /\ \A v \in Writers : Digest(v) # d => WriterFits(v)'
  BY <1>0, <1>1, <1>2, <1>4, OtherDigests
<1>6. Stored(d)' <=> Stored(d)
  <2>1. blob[d] # NoFile => blob[d] \in Inodes
    BY <1>0 DEF TypeOK
  <2> QED
    BY <1>2, <1>3, <2>1 DEF Stored
<1>7. FilesFit'
  BY <1>0, <1>1, <1>2, <1>3 DEF FilesFit
<1>8. ASSUME NEW v \in Writers, Digest(v) = d PROVE WriterFits(v)'
  <2>1. WriterFits(v)
    BY <1>0 DEF WritersFit
  <2>2. CASE v = w
    BY <1>1, <1>2, <2>2 DEF WriterFits, Fresh
  <2>3. CASE v # w
    <3>1. pc[v] \notin Busy
      BY <1>2, <1>8, <2>3, AloneOnDigest DEF Busy
    <3>2. pc[v] \in Fresh => file # v
      BY <1>8, <2>1, <2>3 DEF WriterFits
    <3> QED
      BY <1>2, <1>6, <1>8, <2>1, <2>3, <3>1, <3>2 DEF WriterFits, Fresh, Busy
  <2> QED
    BY <2>2, <2>3
<1> QED
  BY <1>2, <1>5, <1>6, <1>7, <1>8 DEF StepFits, WritersFit

\* The file that is completed is still the temporary one.
LEMMA CompleterFits ==
    ASSUME TypeOK, AloneInv, BlobsDiffer, NEW w \in Writers, WriteTemp(w)
    PROVE  StepFits
<1> DEFINE d == Digest(w)
<1>0. FilesFit /\ WritersFit /\ d \in Digests /\ WriterFits(w)
  BY WriterFacts DEF AloneInv, WritersFit
<1>1. pc[w] = "write" /\ temp[d] # NoFile /\ held[w] = temp[d]
  BY <1>0 DEF WriteTemp, WriterFits
<1>2. temp[d] \in Writers /\ Digest(temp[d]) = d
  BY <1>0, <1>1 DEF FilesFit
<1>3. /\ UNCHANGED <<blob, temp>>
      /\ \/ pc'[w] = "rename" /\ whole'[temp[d]]
         \/ pc'[w] = "failed"
      /\ \A v \in Writers \ {w} : pc'[v] = pc[v] /\ held'[v] = held[v]
      /\ \A i \in Inodes \ {temp[d]} : whole'[i] = whole[i]
      /\ \A i \in Inodes : whole[i] => whole'[i]
  BY <1>1, <1>2, InodeFacts DEF WriteTemp, Goto, TypeOK
<1>4. \A e \in Digests : temp[d] # Old(e)
  BY <1>2, WriterFacts
<1>5. \A e \in Digests : Stored(e) => Stored(e)'
  BY <1>3 DEF Stored, TypeOK
<1>6. \A v \in Writers : Digest(v) # d => WriterFits(v)'
  BY <1>0, <1>2, <1>3, <1>4, OtherDigests
<1>7. FilesFit'
  BY <1>0, <1>3 DEF FilesFit
<1>8. ASSUME NEW v \in Writers, Digest(v) = d PROVE WriterFits(v)'
  <2>1. WriterFits(v)
    BY <1>0 DEF WritersFit
  <2>2. CASE v = w
    BY <1>1, <1>3, <2>2 DEF WriterFits, Fresh
  <2>3. CASE v # w
    <3>1. pc[v] \notin Busy
      BY <1>1, <1>8, <2>3, AloneOnDigest DEF Busy
    <3> QED
      BY <1>0, <1>3, <1>5, <1>8, <2>1, <2>3, <3>1 DEF WriterFits, Fresh, Busy
  <2> QED
    BY <2>2, <2>3
<1> QED
  BY <1>1, <1>3, <1>5, <1>6, <1>7, <1>8 DEF StepFits, WritersFit

\* The temporary file is there to be renamed, and whole.
LEMMA RenamerFits ==
    ASSUME TypeOK, AloneInv, BlobsDiffer, NEW w \in Writers, RenameTemp(w)
    PROVE  StepFits
<1> DEFINE d == Digest(w)
<1>0. FilesFit /\ WritersFit /\ d \in Digests /\ WriterFits(w)
  BY WriterFacts DEF AloneInv, WritersFit
<1>1. pc[w] = "rename" /\ temp[d] # NoFile /\ whole[temp[d]]
  BY <1>0 DEF RenameTemp, WriterFits
<1>2. temp[d] \in Writers /\ Digest(temp[d]) = d
  BY <1>0, <1>1 DEF FilesFit
<1>3. /\ UNCHANGED <<whole, held>>
      /\ pc'[w] = "done" /\ blob'[d] = temp[d] /\ temp'[d] = NoFile
      /\ \A v \in Writers \ {w} : pc'[v] = pc[v]
      /\ \A e \in Digests \ {d} : blob'[e] = blob[e] /\ temp'[e] = temp[e]
  BY <1>0, <1>1 DEF RenameTemp, Goto, TypeOK
<1>4. \A e \in Digests : Stored(e) => Stored(e)'
  BY <1>1, <1>3 DEF Stored
<1>5. Stored(d)'
  BY <1>1, <1>3 DEF Stored
<1>6. \A v \in Writers : Digest(v) # d => WriterFits(v)'
  BY <1>0, <1>3, OtherDigests
<1>7. FilesFit'
  BY <1>0, <1>2, <1>3 DEF FilesFit
<1>8. ASSUME NEW v \in Writers, Digest(v) = d PROVE WriterFits(v)'
  <2>1. WriterFits(v)
    BY <1>0 DEF WritersFit
  <2>2. CASE v = w
    BY <1>3, <1>5, <2>2 DEF WriterFits, Fresh
  <2>3. CASE v # w
    <3>1. pc[v] \notin Busy
      BY <1>1, <1>8, <2>3, AloneOnDigest DEF Busy
    <3>2. v # NoFile
      BY WriterFacts
    <3> QED
      BY <1>3, <1>5, <1>8, <2>1, <2>3, <3>1, <3>2 DEF WriterFits, Fresh, Busy
  <2> QED
    BY <2>2, <2>3
<1> QED
  BY <1>3, <1>4, <1>6, <1>7, <1>8 DEF StepFits, WritersFit

\* Pulls touch no file, and wake only tasks that have not created theirs.
LEMMA PullFits ==
    ASSUME TypeOK, AloneInv, UnspawnedIdle,
           NEW p \in Pulls, BeginPull(p) \/ PullStep(p) \/ Crash(p)
    PROVE  StepFits
<1>0. FilesFit /\ WritersFit
  BY DEF AloneInv
<1>1. UNCHANGED <<blob, temp, whole>>
  BY PullMoves DEF files
<1>2. \A d \in Digests : Stored(d)' <=> Stored(d)
  BY <1>1 DEF Stored
<1>3. FilesFit'
  BY <1>0, <1>1 DEF FilesFit
<1>4. ASSUME NEW v \in Writers PROVE WriterFits(v)'
  <2>1. WriterFits(v) /\ Digest(v) \in Digests
    BY <1>0, WriterFacts DEF WritersFit
  <2>2. \/ pc'[v] = pc[v] /\ (pc[v] = "write" => held'[v] = held[v])
        \/ pc[v] = "idle" /\ pc'[v] \in {"download", "queued", "exists"}
        \/ pc'[v] = "dead"
    BY PullMoves
  <2> QED
    BY <1>1, <1>2, <2>1, <2>2 DEF WriterFits, Fresh
<1> QED
  BY <1>2, <1>3, <1>4 DEF StepFits, WritersFit

LEMMA AloneStep ==
    ASSUME ~Daemon, OneAtATime, BlobsDiffer, TypeOK, ProgressInv, AloneInv, [Next]_vars
    PROVE  AloneInv' /\ StepFits
<1>1. OneActive' /\ BusyActive'
  BY OneActiveStep, BusyActiveStep DEF AloneInv
<1>2. ASSUME NEW w \in Writers, WriterStep(w) PROVE StepFits
  BY <1>2, ReadersFit, RemoverFits, OpenerFits, CompleterFits, RenamerFits DEF WriterStep
<1>3. ASSUME NEW p \in Pulls, BeginPull(p) \/ PullStep(p) \/ Crash(p) PROVE StepFits
  BY <1>3, PullFits DEF ProgressInv
<1>4. ASSUME UNCHANGED vars PROVE StepFits
  <2>1. FilesFit' /\ \A d \in Digests : Stored(d)' <=> Stored(d)
    BY <1>4 DEF vars, files, AloneInv, FilesFit, Stored
  <2>2. WritersFit'
    BY <1>4 DEF vars, files, AloneInv, WritersFit, WriterFits, Stored
  <2> QED
    BY <1>4, <2>1, <2>2 DEF StepFits, vars
<1>5. StepFits
  BY <1>2, <1>3, <1>4 DEF Next
<1> QED
  BY <1>1, <1>5 DEF AloneInv, StepFits

LEMMA AloneCorrect ==
    ASSUME ~Daemon, OneAtATime, BlobsDiffer
    PROVE  Spec => []AloneInv
<1>1. TypeOK /\ ProgressInv /\ AloneInv /\ [Next]_vars => AloneInv'
  BY AloneStep
<1> QED
  BY PullTypeCorrect, RefFollowsPull, AloneInit, <1>1, PTL DEF Spec

\* Pulls one after the other, whatever fails and wherever they die: when the
\* reference names an image, every blob of it is stored, whole.
THEOREM ReferenceNamesWholeImage ==
    ASSUME ~Daemon, OneAtATime, BlobsDiffer
    PROVE  Spec => []RefNamesWholeImage
<1>1. ASSUME ProgressInv, AloneInv PROVE RefNamesWholeImage
  <2>1. SUFFICES ASSUME ref \in Digests, NEW d \in BlobsOf(ref) PROVE Stored(d)
    BY DEF RefNamesWholeImage
  <2>2. PICK p \in Pulls : Manifest(p) = ref /\ \A k \in Slots(p) : Done(p, k)
    BY <1>1, <2>1 DEF ProgressInv, RefCompleted
  <2>3. PICK q \in Pulls : Manifest(q) = ref /\ \E k \in Slots(q) : d = Image[q][k]
    BY <2>1 DEF BlobsOf
  <2>4. Image[q] = Image[p]
    BY <2>2, <2>3, ImageAssumption DEF Manifest, ManifestSlot
  <2>5. PICK k \in Slots(p) : d = Image[p][k]
    BY <2>3, <2>4 DEF Slots
  <2>6. Writer(p, k) \in Writers /\ Digest(Writer(p, k)) = d
    BY <2>5, WriterFacts DEF Writer, Digest
  <2>7. WriterFits(Writer(p, k))
    BY <1>1, <2>6 DEF AloneInv, WritersFit
  <2> QED
    BY <2>2, <2>5, <2>6, <2>7 DEF Done, WriterFits
<1> QED
  BY RefFollowsPull, AloneCorrect, <1>1, PTL

\* No such pull takes a verified blob away, not even a forced one that writes
\* it again, and none that dies half-way.
THEOREM StoredBlobsStay ==
    ASSUME ~Daemon, OneAtATime, BlobsDiffer
    PROVE  Spec => StoredStays
<1>1. TypeOK /\ ProgressInv /\ AloneInv /\ [Next]_vars =>
          [\A d \in Digests : Stored(d) => Stored(d)']_vars
  BY AloneStep DEF StepFits
<1> QED
  BY PullTypeCorrect, RefFollowsPull, AloneCorrect, <1>1, PTL DEF Spec, StoredStays

-----------------------------------------------------------------------------
(***************************************************************************)
(* Pulls at the same time in one guestd.  They do take stored blobs away   *)
(* from each other and make each other's renames fail.  But who removes a  *)
(* file goes on to write one, and a temporary file that is gone from under *)
(* its writer was renamed: a blob some task has seen through is there, or  *)
(* some task is about to put it back.                                      *)
(***************************************************************************)

\* Some task goes on to rename a file to d, or loses that to one that did.
Restoring(d) ==
    \E u \in Writers :
        /\ Digest(u) = d
        /\ \/ pc[u] = "download" /\ u[2] \in Layers(u[1])
           \/ pc[u] = "open"
           \/ pc[u] \in {"write", "rename"} /\ temp[d] # NoFile

RestoredInv ==
    \A w \in Writers : pc[w] = "done" =>
        /\ blob[Digest(w)] = Old(Digest(w)) => whole[Old(Digest(w))]
        /\ blob[Digest(w)] = NoFile => Restoring(Digest(w))

LEMMA RestoredInit == Init => RestoredInv
BY DEF Init, RestoredInv

\* Once it is removed or gone, a file from before does not come back, and is
\* never written.
LEMMA OldStep ==
    ASSUME TypeOK, FileInv, UnspawnedIdle, [Next]_vars
    PROVE  \A d \in Digests :
              /\ whole'[Old(d)] = whole[Old(d)]
              /\ blob'[d] = Old(d) => blob[d] = Old(d)
<1>1. ASSUME NEW w \in Writers, WriterStep(w)
      PROVE  \A d \in Digests :
                /\ whole'[Old(d)] = whole[Old(d)]
                /\ blob'[d] = Old(d) => blob[d] = Old(d)
  <2> DEFINE e == Digest(w)
  <2>0. e \in Digests /\ temp[e] \in Writers \cup {NoFile}
        /\ (pc[w] = "write" => held[w] \in Writers)
    BY WriterFacts DEF FileInv, FilesHaveOrigin, WritersHoldFiles
  <2>1. ASSUME NEW d \in Digests
        PROVE  Old(d) \in Inodes /\ Old(d) \notin Writers /\ Old(d) # NoFile
    BY WriterFacts, InodeFacts DEF Old, NoFile
  <2>2. CASE AcquirePermit(w) \/ CheckExists(w) \/ ReadExisting(w) \/ Download(w)
    BY <2>2 DEF AcquirePermit, CheckExists, ReadExisting, Download, files
  <2>3. CASE RemoveExisting(w)
    BY <2>0, <2>1, <2>3 DEF RemoveExisting, TypeOK
  <2>4. CASE OpenTemp(w)
    <3> DEFINE file == IF temp[e] = NoFile THEN w ELSE temp[e]
    <3>1. file \in Writers /\ whole' = [whole EXCEPT ![file] = FALSE] /\ UNCHANGED blob
      BY <2>0, <2>4 DEF OpenTemp
    <3> QED
      BY <2>1, <3>1, InodeFacts DEF TypeOK
  <2>5. CASE WriteTemp(w)
    <3>1. /\ UNCHANGED blob
          /\ whole' = [whole EXCEPT ![held[w]] = TRUE] \/ UNCHANGED whole
          /\ held[w] \in Writers
      BY <2>0, <2>5 DEF WriteTemp
    <3> QED
      BY <2>1, <3>1, InodeFacts DEF TypeOK
  <2>6. CASE RenameTemp(w)
    BY <2>0, <2>1, <2>6 DEF RenameTemp, TypeOK
  <2> QED
    BY <1>1, <2>2, <2>3, <2>4, <2>5, <2>6 DEF WriterStep
<1>2. ASSUME NEW p \in Pulls, BeginPull(p) \/ PullStep(p) \/ Crash(p)
      PROVE  \A d \in Digests :
                /\ whole'[Old(d)] = whole[Old(d)]
                /\ blob'[d] = Old(d) => blob[d] = Old(d)
  BY <1>2, PullMoves DEF files
<1> QED
  BY <1>1, <1>2 DEF Next, vars, files

\* Whoever is putting a blob back goes on, or it is back.
LEMMA RestoringStep ==
    ASSUME Daemon, Faults = {}, TypeOK, FileInv, UnspawnedIdle, [Next]_vars, NEW d \in Digests
    PROVE  /\ Restoring(d) => Restoring(d)' \/ blob'[d] # NoFile
           /\ blob[d] # NoFile => Restoring(d)' \/ blob'[d] # NoFile
<1>1. ASSUME NEW p \in Pulls, BeginPull(p) \/ PullStep(p) \/ Crash(p)
      PROVE  /\ Restoring(d) => Restoring(d)'
             /\ UNCHANGED blob
  <2>1. UNCHANGED <<blob, temp>>
    BY <1>1, PullMoves DEF files
  <2>2. \A u \in Writers : pc[u] \notin {"idle"} => pc'[u] = pc[u]
    <3>1. CASE Exit(p) \/ Crash(p)
      BY <3>1 DEF Exit, Crash
    <3>2. CASE BeginPull(p) \/ SpawnLayers(p) \/ AwaitLayer(p) \/ StoreManifest(p)
               \/ PullFails(p) \/ TruncateRef(p) \/ WriteRef(p)
      <4>1. \A u \in Writers : pc'[u] # "dead" \/ pc[u] = "dead"
        BY <3>2
        DEF BeginPull, SpawnLayers, AwaitLayer, StoreManifest, PullFails, TruncateRef,
            WriteRef, Goto, TypeOK
      <4> QED
        BY <1>1, <4>1, PullMoves
    <3> QED
      BY <1>1, <3>1, <3>2 DEF PullStep
  <2> QED
    BY <2>1, <2>2 DEF Restoring
<1>2. ASSUME NEW w \in Writers, WriterStep(w)
      PROVE  /\ Restoring(d) => Restoring(d)' \/ blob'[d] # NoFile
             /\ blob[d] # NoFile => Restoring(d)' \/ blob'[d] # NoFile
  <2>0. Digest(w) \in Digests
    BY WriterFacts
  <2>1. \A v \in Writers \ {w} : pc'[v] = pc[v]
    BY <1>2, WriterMoves
  <2>2. CASE AcquirePermit(w) \/ CheckExists(w) \/ ReadExisting(w)
    <3>1. UNCHANGED <<blob, temp>> /\ pc[w] \notin {"download", "open", "write", "rename"}
      BY <2>2 DEF AcquirePermit, CheckExists, ReadExisting, files
    <3> QED
      BY <2>1, <3>1 DEF Restoring
  <2>3. CASE Download(w)
    <3>1. /\ UNCHANGED <<blob, temp>> /\ pc[w] = "download"
          /\ w[2] \in Layers(w[1]) => pc'[w] = "open"
      BY <2>3 DEF Download, Goto, files, TypeOK
    <3> QED
      BY <2>1, <3>1 DEF Restoring
  <2>4. CASE RemoveExisting(w)
    <3>1. /\ UNCHANGED temp /\ pc[w] = "remove"
          /\ w[2] \in Layers(w[1]) => pc'[w] = "download"
          /\ w[2] \notin Layers(w[1]) => pc'[w] = "open"
          /\ d # Digest(w) => blob'[d] = blob[d]
      BY <2>4 DEF RemoveExisting, Goto, TypeOK
    <3>2. d = Digest(w) => Restoring(d)'
      BY <3>1 DEF Restoring
    <3>3. d # Digest(w) /\ Restoring(d) => Restoring(d)'
      BY <2>1, <3>1 DEF Restoring
    <3> QED
      BY <3>1, <3>2, <3>3
  <2>5. CASE OpenTemp(w)
    <3>1. /\ UNCHANGED blob /\ pc[w] = "open" /\ pc'[w] = "write"
          /\ d # Digest(w) => temp'[d] = temp[d]
          /\ temp'[Digest(w)] # NoFile
      BY <2>0, <2>5, WriterFacts DEF OpenTemp, Goto, TypeOK
    <3>2. d = Digest(w) => Restoring(d)'
      BY <3>1 DEF Restoring
    <3>3. d # Digest(w) /\ Restoring(d) => Restoring(d)'
      BY <2>1, <3>1 DEF Restoring
    <3> QED
      BY <3>1, <3>2, <3>3
  <2>6. CASE WriteTemp(w)
    <3>1. UNCHANGED <<blob, temp>> /\ pc[w] = "write" /\ pc'[w] = "rename"
      BY <2>6 DEF WriteTemp, Goto, TypeOK
    <3> QED
      BY <2>1, <3>1 DEF Restoring
  <2>7. CASE RenameTemp(w)
    <3>1. CASE temp[Digest(w)] # NoFile
      <4>1. /\ blob'[Digest(w)] # NoFile
            /\ pc[w] = "rename"
            /\ d # Digest(w) => blob'[d] = blob[d] /\ temp'[d] = temp[d]
        BY <2>0, <2>7, <3>1 DEF RenameTemp, TypeOK
      <4> QED
        BY <2>1, <4>1 DEF Restoring
    <3>2. CASE temp[Digest(w)] = NoFile
      <4>1. UNCHANGED <<blob, temp>> /\ pc[w] = "rename"
        BY <2>7, <3>2 DEF RenameTemp
      <4> QED
        BY <2>1, <3>2, <4>1 DEF Restoring
    <3> QED
      BY <3>1, <3>2
  <2> QED
    BY <1>2, <2>2, <2>3, <2>4, <2>5, <2>6, <2>7 DEF WriterStep
<1>3. ASSUME UNCHANGED vars PROVE (Restoring(d) => Restoring(d)') /\ UNCHANGED blob
  BY <1>3 DEF vars, files, Restoring
<1> QED
  BY <1>1, <1>2, <1>3 DEF Next

LEMMA RestoredStep ==
    ASSUME Daemon, Faults = {}, TypeOK, TornInv, RestoredInv, [Next]_vars
    PROVE  RestoredInv'
<1>0. FileInv /\ UnspawnedIdle
  BY DEF TornInv
<1>1. SUFFICES ASSUME NEW w \in Writers, pc'[w] = "done"
               PROVE  /\ blob'[Digest(w)] = Old(Digest(w)) => whole'[Old(Digest(w))]
                      /\ blob'[Digest(w)] = NoFile => Restoring(Digest(w))'
  BY DEF RestoredInv
<1>2. Digest(w) \in Digests
  BY WriterFacts
<1>3. CASE pc[w] = "done"
  BY <1>0, <1>2, <1>3, OldStep, RestoringStep DEF RestoredInv
<1>4. CASE pc[w] # "done"
  <2>1. ReadExisting(w) \/ RenameTemp(w)
    <3>1. PICK v \in Writers : WriterStep(v)
      <4>1. ASSUME NEW p \in Pulls, BeginPull(p) \/ PullStep(p) \/ Crash(p) PROVE FALSE
        BY <1>0, <1>1, <1>4, <4>1, PullMoves
      <4>2. ~ UNCHANGED vars
        BY <1>1, <1>4 DEF vars
      <4> QED
        BY <4>1, <4>2 DEF Next
    <3>2. v = w
      BY <1>1, <1>4, <3>1, WriterMoves
    <3> QED
      BY <1>1, <1>4, <3>1, <3>2
      DEF WriterStep, AcquirePermit, CheckExists, RemoveExisting, Download, OpenTemp,
          WriteTemp, Goto, TypeOK
  <2>2. CASE ReadExisting(w)
    <3>1. Stored(Digest(w)) /\ UNCHANGED <<blob, whole>>
      BY <1>1, <2>2 DEF ReadExisting, Goto, files, TypeOK
    <3> QED
      BY <3>1 DEF Stored
  <2>3. CASE RenameTemp(w)
    <3>1. blob'[Digest(w)] = temp[Digest(w)] /\ temp[Digest(w)] # NoFile
      BY <1>1, <1>2, <2>3 DEF RenameTemp, Goto, TypeOK
    <3>2. temp[Digest(w)] # Old(Digest(w))
      BY <1>0, <1>2, <3>1, WriterFacts DEF FileInv, FilesHaveOrigin
    <3> QED
      BY <3>1, <3>2
  <2> QED
    BY <2>1, <2>2, <2>3
<1> QED
  BY <1>3, <1>4

\* Whatever pulls one guestd serves at a time: if nothing fails but renames that
\* another pull's rename has made impossible, then once all tasks have ended a
\* reference that names an image names a whole one.
THEOREM QuietPullsAreWhole ==
    ASSUME Daemon, Faults = {}
    PROVE  Spec => []WholeWhenQuiet
<1>1. TypeOK /\ TornInv /\ [Next]_vars => TornInv'
  BY UnspawnedStep, FileStep DEF TornInv
<1>2. TypeOK /\ TornInv /\ RestoredInv /\ [Next]_vars => RestoredInv'
  BY RestoredStep
<1>3. ASSUME TypeOK, TornInv, ProgressInv, RestoredInv PROVE WholeWhenQuiet
  <2>1. SUFFICES ASSUME AllQuiet, ref \in Digests, NEW d \in BlobsOf(ref) PROVE Stored(d)
    BY DEF WholeWhenQuiet
  <2>2. PICK p \in Pulls : Manifest(p) = ref /\ \A k \in Slots(p) : Done(p, k)
    BY <1>3, <2>1 DEF ProgressInv, RefCompleted
  <2>3. PICK w \in Writers : Digest(w) = d /\ pc[w] = "done"
    <3>1. PICK q \in Pulls : Manifest(q) = ref /\ \E k \in Slots(q) : d = Image[q][k]
      BY <2>1 DEF BlobsOf
    <3>2. Image[q] = Image[p]
      BY <2>2, <3>1, ImageAssumption DEF Manifest, ManifestSlot
    <3>3. PICK k \in Slots(p) : d = Image[p][k]
      BY <3>1, <3>2 DEF Slots
    <3> QED
      BY <2>2, <3>3, WriterFacts DEF Writer, Digest, Done
  <2>4. d \in Digests
    BY <2>3, WriterFacts
  <2>5. ~Restoring(d) /\ \A u \in Writers : pc[u] # "write"
    BY <2>1 DEF AllQuiet, Restoring
  <2>6. blob[d] # NoFile /\ (blob[d] = Old(d) => whole[Old(d)])
    BY <1>3, <2>3, <2>5 DEF RestoredInv
  <2>7. blob[d] # Old(d) => whole[blob[d]]
    BY <1>3, <2>4, <2>5, <2>6
    DEF TornInv, FileInv, FilesHaveOrigin, TornIsOpen, Linked, HasWriter
  <2> QED
    BY <2>6, <2>7 DEF Stored
<1> QED
  BY PullTypeCorrect, RefFollowsPull, TornInit, RestoredInit, <1>1, <1>2, <1>3, PTL DEF Spec
=============================================================================
