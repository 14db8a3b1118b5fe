------------------------------ MODULE LayerCache ------------------------------
(***************************************************************************)
(* The cache of extracted layers: any number of processes that extract one *)
(* layer, each into a directory of its own that it renames to the layer's  *)
(* path, and the removal of a directory found there without the marker     *)
(* that tells a finished one.                                              *)
(*                                                                         *)
(* A directory is an inode named by the extraction that made it: a process *)
(* that removes a directory goes on removing it when it is no longer at    *)
(* the path it was opened by.                                              *)
(***************************************************************************)
EXTENDS Naturals

CONSTANTS
    Extractors, \* the processes, or tasks of one, that prepare a rootfs
    Rounds,     \* bound on the times each of them does
    Faults      \* the failures the environment may inject

FaultKinds == {"extract", "crash"}

ASSUME BoundAssumption == Rounds \in Nat /\ Faults \subseteq FaultKinds

VARIABLES
    old,      \* the layer's directory before: none, a ready or an unready one
    turns,    \* does one extraction begin only when the last has ended?
    dir,      \* the directory at layer_path
    files,    \* files[d]: how much of the layer directory d holds
    marker,   \* marker[d]: has it the marker .quilt-layer-ready?
    pc,       \* pc[e]: the next step of extractor e
    round,    \* round[e]: the extractions it has begun
    cached,   \* cached[e]: is the layer in its in-memory cache?
    removing, \* removing[e]: the directory it has opened to remove
    retried   \* retried[e]: has its first rename failed?

setting == <<old, turns>>
disk == <<dir, files, marker>>
vars == <<setting, disk, pc, round, cached, removing, retried>>

NoDir == <<"no directory">>
OldDir == <<"old">>
NewDir(e, n) == <<e, n>>
Dirs == {OldDir} \cup {NewDir(e, n) : e \in Extractors, n \in 1..Rounds}

Steps == {"idle", "recall", "look", "verify", "clear", "unlink", "rmdir", "extract",
          "rename", "reuse", "judge", "record", "using", "broken", "lost", "dead"}
AtRest == {"idle", "using", "broken", "lost", "dead"}

TypeOK ==
    /\ old \in {"none", "ready", "unready"}
    /\ turns \in BOOLEAN
    /\ dir \in Dirs \cup {NoDir}
    /\ files \in [Dirs -> {"none", "part", "all"}]
    /\ marker \in [Dirs -> BOOLEAN]
    /\ pc \in [Extractors -> Steps]
    /\ round \in [Extractors -> 0..Rounds]
    /\ cached \in [Extractors -> BOOLEAN]
    /\ removing \in [Extractors -> Dirs \cup {NoDir}]
    /\ \A e \in Extractors : pc[e] \in {"unlink", "rmdir"} => removing[e] \in Dirs
    /\ retried \in [Extractors -> BOOLEAN]

\* The path may hold a finished layer or what a removal that died has left.
Init ==
    /\ old \in {"none", "ready", "unready"}
    /\ turns \in BOOLEAN
    /\ dir = IF old = "none" THEN NoDir ELSE OldDir
    /\ \E left \in {"none", "part", "all"} :
         files = [d \in Dirs |-> IF d # OldDir THEN "none"
                                 ELSE IF old = "unready" THEN left ELSE "all"]
    /\ marker = [d \in Dirs |-> d = OldDir /\ old = "ready"]
    /\ pc = [e \in Extractors |-> "idle"]
    /\ round = [e \in Extractors |-> 0]
    /\ cached = [e \in Extractors |-> FALSE]
    /\ removing = [e \in Extractors |-> NoDir]
    /\ retried = [e \in Extractors |-> FALSE]

Empty(d) == files[d] = "none" /\ ~marker[d]

\* layer_is_ready(layer_path)
Ready == dir # NoDir /\ marker[dir]

-----------------------------------------------------------------------------
Goto(e, step) == pc' = [pc EXCEPT ![e] = step]

\* A container, or a step of a build, needs the layer.
Begin(e) ==
    /\ pc[e] = "idle"
    /\ round[e] < Rounds
    /\ turns => \A other \in Extractors \ {e} : pc[other] \in AtRest
    /\ round' = [round EXCEPT ![e] = @ + 1]
    /\ Goto(e, IF cached[e] THEN "recall" ELSE "look")
    /\ UNCHANGED <<setting, disk, cached, removing, retried>>

\* What the memory cache says is believed only of a directory that is ready.
Recall(e) ==
    /\ pc[e] = "recall"
    /\ Goto(e, IF Ready THEN "using" ELSE "look")
    /\ UNCHANGED <<setting, disk, round, cached, removing, retried>>

Look(e) ==
    /\ pc[e] = "look"
    /\ Goto(e, IF dir = NoDir THEN "extract" ELSE "verify")
    /\ UNCHANGED <<setting, disk, round, cached, removing, retried>>

Verify(e) ==
    /\ pc[e] = "verify"
    /\ Goto(e, IF Ready THEN "record" ELSE "clear")
    /\ UNCHANGED <<setting, disk, round, cached, removing, retried>>

\* Where a removal goes on; an error of it ends extract_layer, but is dropped
\* by finalize_extracted_layer.
Removed(e) == Goto(e, IF retried[e] THEN "rename" ELSE "extract")
RemovalFailed(e) == Goto(e, IF retried[e] THEN "rename" ELSE "lost")

\* remove_dir_all opens the directory that is at the path by now.
OpenDir(e) ==
    /\ pc[e] = "clear"
    /\ IF dir = NoDir
       THEN RemovalFailed(e) /\ UNCHANGED removing
       ELSE Goto(e, "unlink") /\ removing' = [removing EXCEPT ![e] = dir]
    /\ UNCHANGED <<setting, disk, round, cached, retried>>

\* It unlinks the entries in the order they are listed.
Unlink(e) ==
    LET d == removing[e] IN
    /\ pc[e] = "unlink"
    /\ \/ \E less \in {"part", "none"} :
            /\ files[d] # "none" /\ files[d] # less
            /\ files' = [files EXCEPT ![d] = less]
            /\ UNCHANGED <<marker, pc>>
       \/ /\ marker[d]
          /\ marker' = [marker EXCEPT ![d] = FALSE]
          /\ UNCHANGED <<files, pc>>
       \/ Empty(d) /\ Goto(e, "rmdir") /\ UNCHANGED <<files, marker>>
    /\ UNCHANGED <<setting, dir, round, cached, removing, retried>>

\* And removes what is at the path, if that is empty.
RemoveDir(e) ==
    /\ pc[e] = "rmdir"
    /\ IF dir = NoDir \/ Empty(dir)
       THEN Removed(e) /\ dir' = NoDir
       ELSE RemovalFailed(e) /\ UNCHANGED dir
    /\ removing' = [removing EXCEPT ![e] = NoDir]
    /\ UNCHANGED <<setting, files, marker, round, cached, retried>>

\* Mutant: the marker is written although the archive could not be read.
Extract_MarkTorn(e) ==
    LET new == NewDir(e, round[e]) IN
    /\ pc[e] = "extract"
    /\ \E much \in {"part", "all"} :
         /\ much = "all" \/ "extract" \in Faults
         /\ files' = [files EXCEPT ![new] = much]
    /\ marker' = [marker EXCEPT ![new] = TRUE]
    /\ Goto(e, "rename")
    /\ UNCHANGED <<setting, dir, round, cached, removing, retried>>

\* The archive is unpacked, and the marker written last, in a directory nobody
\* else knows of: process id and nanoseconds are in its name.
Extract(e) ==
    LET new == NewDir(e, round[e]) IN
    /\ pc[e] = "extract"
    /\ \/ /\ files' = [files EXCEPT ![new] = "all"]
          /\ marker' = [marker EXCEPT ![new] = TRUE]
          /\ Goto(e, "rename")
       \/ "extract" \in Faults /\ Goto(e, "broken") /\ UNCHANGED <<files, marker>>
    /\ UNCHANGED <<setting, dir, round, cached, removing, retried>>

\* Mutant: a rename that finds the path taken is an error.
Rename_NoReuse(e) ==
    /\ pc[e] = "rename"
    /\ IF dir = NoDir \/ Empty(dir)
       THEN dir' = NewDir(e, round[e]) /\ Goto(e, "record")
       ELSE Goto(e, "lost") /\ UNCHANGED dir
    /\ UNCHANGED <<setting, files, marker, round, cached, removing, retried>>

\* A directory replaces nothing, or an empty one.
Rename(e) ==
    /\ pc[e] = "rename"
    /\ IF dir = NoDir \/ Empty(dir)
       THEN dir' = NewDir(e, round[e]) /\ Goto(e, "record")
       ELSE Goto(e, IF retried[e] THEN "lost" ELSE "reuse") /\ UNCHANGED dir
    /\ UNCHANGED <<setting, files, marker, round, cached, removing, retried>>

\* Mutant: whatever won the race is removed.
Reuse_Never(e) ==
    /\ pc[e] = "reuse"
    /\ Goto(e, "clear")
    /\ retried' = [retried EXCEPT ![e] = TRUE]
    /\ UNCHANGED <<setting, disk, round, cached, removing>>

\* Another extractor published the layer first.
Reuse(e) ==
    /\ pc[e] = "reuse"
    /\ Goto(e, IF Ready THEN "record" ELSE "judge")
    /\ UNCHANGED <<setting, disk, round, cached, removing, retried>>

\* The path is looked at again: what is there is to be removed, unless it is
\* ready or gone by now, which is taken for an error.
Judge(e) ==
    /\ pc[e] = "judge"
    /\ IF dir # NoDir /\ ~Ready
       THEN Goto(e, "clear") /\ retried' = [retried EXCEPT ![e] = TRUE]
       ELSE Goto(e, "lost") /\ UNCHANGED retried
    /\ UNCHANGED <<setting, disk, round, cached, removing>>

Record(e) ==
    /\ pc[e] = "record"
    /\ cached' = [cached EXCEPT ![e] = TRUE]
    /\ Goto(e, "using")
    /\ UNCHANGED <<setting, disk, round, removing, retried>>

\* The container is gone, or the command that failed; its process goes on.
Release(e) ==
    /\ pc[e] \in {"using", "broken", "lost"}
    /\ Goto(e, "idle")
    /\ retried' = [retried EXCEPT ![e] = FALSE]
    /\ UNCHANGED <<setting, disk, round, cached, removing>>

Crash(e) ==
    /\ "crash" \in Faults
    /\ pc[e] \notin {"idle", "dead"}
    /\ Goto(e, "dead")
    /\ UNCHANGED <<setting, disk, round, cached, removing, retried>>

-----------------------------------------------------------------------------
Next == \E e \in Extractors :
    \/ Begin(e) \/ Recall(e) \/ Look(e) \/ Verify(e)
    \/ OpenDir(e) \/ Unlink(e) \/ RemoveDir(e)
    \/ Extract(e) \/ Rename(e) \/ Reuse(e) \/ Judge(e) \/ Record(e)
    \/ Release(e) \/ Crash(e)

Spec == Init /\ [][Next]_vars
-----------------------------------------------------------------------------
(* Properties.                                                             *)

\* Extractors do not race the removal of an unready directory.
Settled == turns \/ old # "unready"

Available == Ready /\ files[dir] = "all"

Service == INSTANCE LayerService WITH
    Users <- Extractors,
    available <- Available,
    using <- {e \in Extractors : pc[e] = "using"}

\* Extractors that run together, or an unready directory that one at a time
\* replaces, whatever fails: a directory extract_layer returns holds the whole
\* layer, and nobody takes it away from those that mounted it.
LayerIsServed ==
    /\ Settled => Service!Init
    /\ [][Settled => Service!Next \/ UNCHANGED Service!vars]_vars

\* Then an extraction fails only when the archive cannot be unpacked: whoever
\* loses a race uses what the winner published.
ConflictsResolve == Settled => \A e \in Extractors : pc[e] # "lost"

\* Even when they race: a directory that looks ready and is not whole is one
\* that somebody is removing, or was when it died.
TornLayerHasRemover ==
    Ready /\ files[dir] # "all" =>
        \E e \in Extractors : pc[e] \in {"unlink", "dead"} /\ removing[e] = dir
=============================================================================
