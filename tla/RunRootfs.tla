----------------------------- MODULE RunRootfs -----------------------------
(***************************************************************************)
(* The root filesystem of a `qbuild run` (runtime.rs, RunService::run, and *)
(* the overlay half of image/layers.rs).  A run prepares the directory     *)
(* containers/<name> and mounts an overlay on it, creates a cgroup, forks  *)
(* a child that mounts devices and host directories below the root and     *)
(* executes the payload, waits, and takes everything away again.  Nothing  *)
(* reserves the name: two runs of one name work in one directory, and a    *)
(* run that was killed leaves its mounts and files to the next one.        *)
(*                                                                         *)
(* The kernel is external: `kernel.shared' says that mounts propagate from *)
(* the child's mount namespace to the host (no run makes them private),    *)
(* `kernel.overlay' that overlay mounts succeed, `kernel.kill' that a      *)
(* cgroup has a cgroup.kill.  A directory's mounts are a stack, the one a  *)
(* path reaches first at its head.                                         *)
(***************************************************************************)
EXTENDS Naturals, Sequences

CONSTANTS Runs,       \* the runs, one process each
          Names,      \* container names
          Requests    \* what a run may ask for

\* ns: a mount namespace; user, gpu: host directories bound by the user, by the
\* GPU request; limits: a cgroup; bare: the image has no layers.
ASSUME RequestShape ==
  Requests \subseteq [ns : BOOLEAN, user : BOOLEAN, gpu : BOOLEAN,
                      limits : BOOLEAN, bare : BOOLEAN]

VARIABLES kernel,     \* [overlay, shared, kill]
          name,       \* name[r]: the container name of run r
          want,       \* want[r]: its request
          pc,         \* pc[r]: where the run's own process is
          child,      \* child[r]: the forked child, later the payload
          abandoned,  \* runs that returned an error between spawn and wait
          dirs,       \* names whose container directory exists
          written,    \* written[n]: runs with files in that directory
          mounts,     \* mounts[n]: overlays on its rootfs, topmost first
          base,       \* base[n]: runs with binds in the directory itself
          groups,     \* names whose cgroup exists
          members,    \* runs whose payload is in its cgroup
          erased      \* runs whose bound host directory lost its files

runVars == <<kernel, name, want, pc, child, abandoned, dirs, written, mounts,
             base, groups, members, erased>>

fixed == <<kernel, name, want>>
files == <<dirs, written, mounts, base>>
control == <<groups, members>>

Steps == {"idle", "made", "mounted", "ready", "spawning", "spawned", "tracked",
          "waiting", "cleanup", "removing", "swept", "unswept"}
\* clean, left: returned after removing the rootfs, or after a warning that it
\* could not; leaked: returned an error without trying; killed: never returned.
Ended == {"clean", "left", "leaked", "killed"}

Plain(r) == want[r].bare \/ ~kernel.overlay
Reaches(r) == kernel.shared \/ ~want[r].ns
BindsHost(r) == want[r].user \/ want[r].gpu
Binds(r) == want[r].ns \/ BindsHost(r)
Namesakes(r) == {s \in Runs \ {r} : name[s] = name[r]}
\* orphaned: the payload exited and left processes of its own, reaped: so it did,
\* and they are gone.
Live(s) == child[s] \in {"forked", "prepared", "running", "orphaned"}
End(state) == IF state = "orphaned" THEN "reaped" ELSE "exited"

RunInit ==
  /\ kernel \in [overlay : BOOLEAN, shared : BOOLEAN, kill : BOOLEAN]
  /\ name \in [Runs -> Names]
  /\ want \in [Runs -> Requests]
  /\ pc = [r \in Runs |-> "idle"]
  /\ child = [r \in Runs |-> "none"]
  /\ abandoned = {}
  /\ dirs = {} /\ groups = {} /\ members = {} /\ erased = {}
  /\ written = [n \in Names |-> {}]
  /\ mounts = [n \in Names |-> <<>>]
  /\ base = [n \in Names |-> {}]

StepTo(r, step) == pc' = [pc EXCEPT ![r] = step]

----------------------------------------------------------------------------
\* The run's own process.

\* No such image, or a layer that cannot be extracted: nothing was prepared.
Refuse(r) ==
  /\ pc[r] = "idle" /\ StepTo(r, "clean")
  /\ UNCHANGED <<fixed, files, control, child, abandoned, erased>>

MakeDirs(r) ==
  /\ pc[r] = "idle" /\ StepTo(r, "made")
  /\ dirs' = dirs \cup {name[r]}
  /\ UNCHANGED <<fixed, written, mounts, base, control, child, abandoned, erased>>

\* A bare image uses `upper' as it is; without overlay support the layers are
\* copied; otherwise the overlay goes on top of whatever is mounted there.
Overlay(r) ==
  /\ ~Plain(r) /\ name[r] \in dirs
  /\ mounts' = [mounts EXCEPT ![name[r]] = <<[by |-> r, binds |-> {}]>> \o @]
  /\ UNCHANGED <<dirs, written>>

CopyLayers(r) ==
  /\ ~kernel.overlay /\ ~want[r].bare
  /\ dirs' = dirs \cup {name[r]}
  /\ written' = [written EXCEPT ![name[r]] = @ \cup {r}]
  /\ UNCHANGED mounts

MountOverlay(r) ==
  /\ pc[r] = "made" /\ StepTo(r, "mounted")
  /\ \/ Overlay(r)
     \/ CopyLayers(r)
     \/ want[r].bare /\ UNCHANGED <<dirs, written, mounts>>
  /\ UNCHANGED <<fixed, base, control, child, abandoned, erased>>

\* prepare_rootfs fails: run() returns before the code that removes the rootfs.
MountFails(r) ==
  /\ pc[r] = "made" /\ StepTo(r, "leaked")
  /\ \/ CopyLayers(r)
     \/ UNCHANGED <<dirs, written, mounts>>
  /\ UNCHANGED <<fixed, base, control, child, abandoned, erased>>

CreateGroup(r) ==
  /\ pc[r] = "mounted" /\ StepTo(r, "ready")
  /\ groups' = groups \cup {n \in {name[r]} : want[r].limits}
  /\ UNCHANGED <<fixed, files, members, child, abandoned, erased>>

\* `manager.create()?' also returns before the rootfs is removed.
CreateGroupFails(r) ==
  /\ pc[r] = "mounted" /\ want[r].limits /\ StepTo(r, "leaked")
  /\ UNCHANGED <<fixed, files, control, child, abandoned, erased>>

\* Command, GPU request and bind mounts are checked, then the child is forked.
Allowed(r) == ~(want[r].user /\ ~want[r].ns)

Fork(r) ==
  /\ pc[r] = "ready" /\ Allowed(r) /\ StepTo(r, "spawning")
  /\ child' = [child EXCEPT ![r] = "forked"]
  /\ UNCHANGED <<fixed, files, control, abandoned, erased>>

CheckFails(r) ==
  /\ pc[r] = "ready" /\ StepTo(r, "cleanup")
  /\ UNCHANGED <<fixed, files, control, child, abandoned, erased>>

\* spawn() answers when the child has executed the payload, or failed to.
SpawnReturns(r) ==
  /\ pc[r] = "spawning" /\ child[r] \notin {"forked", "prepared"}
  /\ StepTo(r, IF child[r] = "failed" THEN "cleanup" ELSE "spawned")
  /\ UNCHANGED <<fixed, files, control, child, abandoned, erased>>

AddProcess(r) ==
  /\ pc[r] = "spawned" /\ StepTo(r, "tracked")
  /\ want[r].limits => name[r] \in groups
  /\ members' = members \cup {s \in {r} : want[s].limits /\ child[s] = "running"}
  /\ UNCHANGED <<fixed, files, groups, child, abandoned, erased>>

\* The error returns with the payload running: nobody waits for it any more.
AddProcessFails(r) ==
  /\ pc[r] = "spawned" /\ want[r].limits /\ StepTo(r, "cleanup")
  /\ abandoned' = abandoned \cup {r}
  /\ UNCHANGED <<fixed, files, control, child, erased>>

WriteStatus(r) ==
  /\ pc[r] = "tracked" /\ StepTo(r, "waiting")
  /\ UNCHANGED <<fixed, files, control, child, abandoned, erased>>

WriteStatusFails(r) ==
  /\ pc[r] = "tracked" /\ StepTo(r, "cleanup")
  /\ abandoned' = abandoned \cup {r}
  /\ UNCHANGED <<fixed, files, control, child, erased>>

Wait(r) ==
  /\ pc[r] = "waiting" /\ child[r] \in {"exited", "orphaned", "reaped"}
  /\ StepTo(r, "cleanup")
  /\ UNCHANGED <<fixed, files, control, child, abandoned, erased>>

----------------------------------------------------------------------------
\* Cleanup: remove_rootfs, then the cgroup.

\* MNT_DETACH takes the topmost mount of the path with all mounts below it,
\* whoever mounted it; with nothing mounted it fails, which is ignored.
Unmount_Never(r) ==
  /\ pc[r] = "cleanup" /\ StepTo(r, "removing")
  /\ UNCHANGED <<fixed, files, control, child, abandoned, erased>>

Unmount(r) ==
  /\ pc[r] = "cleanup" /\ StepTo(r, "removing")
  /\ mounts' = [mounts EXCEPT ![name[r]] = IF @ = <<>> THEN @ ELSE Tail(@)]
  /\ UNCHANGED <<fixed, dirs, written, base, control, child, abandoned, erased>>

MountPoints(n) == mounts[n] # <<>> \/ base[n] # {}
\* Binds that a walk of the directory meets: the others are under a mount.
Walked(n) == base[n] \cup IF mounts[n] = <<>> THEN {} ELSE Head(mounts[n]).binds

RemoveTree_ErrorIgnored(r) ==
  /\ pc[r] = "removing" /\ StepTo(r, "swept")
  /\ dirs' = IF MountPoints(name[r]) THEN dirs ELSE dirs \ {name[r]}
  /\ written' = [written EXCEPT ![name[r]] = {}]
  /\ UNCHANGED <<fixed, mounts, base, control, child, abandoned, erased>>

RemoveTree(r) ==
  /\ pc[r] = "removing" /\ StepTo(r, "swept")
  /\ ~MountPoints(name[r])
  /\ dirs' = dirs \ {name[r]}
  /\ written' = [written EXCEPT ![name[r]] = {}]
  /\ UNCHANGED <<fixed, mounts, base, control, child, abandoned, erased>>

\* remove_dir_all stops at the first error: a mount point it cannot remove, or
\* a directory somebody still writes into.  What it walked before that is gone,
\* the files of host directories bound below the root included.
Obstructed(r) ==
  \/ MountPoints(name[r])
  \/ name[r] \in dirs /\ Live(r)
  \/ name[r] \in dirs /\ \E s \in Namesakes(r) : Live(s) \/ pc[s] \in {"made", "mounted"}

RemoveTreeFails(r) ==
  /\ pc[r] = "removing" /\ StepTo(r, "unswept")
  /\ Obstructed(r)
  /\ \E kept \in SUBSET written[name[r]] : written' = [written EXCEPT ![name[r]] = kept]
  /\ \E lost \in SUBSET {s \in Walked(name[r]) : BindsHost(s)} : erased' = erased \cup lost
  /\ UNCHANGED <<fixed, dirs, mounts, base, control, child, abandoned>>

\* cgroup.kill, where the kernel has it, ends whatever is in the group of that
\* name; a failed write is ignored.  The directory stays when a process is still
\* in it, dying or not.
InGroup(n) == {s \in members : name[s] = n}

\* Mutant: cgroup.kill is not written where there is one.
DestroyGroup_NoKill(r) ==
  /\ pc[r] \in {"swept", "unswept"}
  /\ StepTo(r, IF pc[r] = "swept" THEN "clean" ELSE "left")
  /\ groups' = IF InGroup(name[r]) # {}
                 THEN groups ELSE groups \ {n \in {name[r]} : want[r].limits}
  /\ UNCHANGED <<fixed, files, members, child, abandoned, erased>>

DestroyGroup(r) ==
  LET there == InGroup(name[r])
      dying == {s \in there : want[r].limits /\ kernel.kill}
  IN /\ pc[r] \in {"swept", "unswept"}
     /\ StepTo(r, IF pc[r] = "swept" THEN "clean" ELSE "left")
     /\ child' = [s \in Runs |-> IF s \in dying THEN End(child[s]) ELSE child[s]]
     /\ members' = members \ dying
     /\ \/ there = dying /\ groups' = groups \ {n \in {name[r]} : want[r].limits}
        \/ there # {} /\ groups' = groups
     /\ UNCHANGED <<fixed, files, abandoned, erased>>

----------------------------------------------------------------------------
\* The child, between fork and exec (the pre_exec closure), and the payload.

\* Namespaces, process group, /dev and /proc: the first files of the container.
PrepareRoot(r) ==
  /\ child[r] = "forked"
  /\ \/ /\ child' = [child EXCEPT ![r] = "prepared"]
        /\ dirs' = dirs \cup {name[r]}
        /\ written' = [written EXCEPT ![name[r]] = @ \cup {r}]
     \/ /\ child' = [child EXCEPT ![r] = "failed"]
        /\ UNCHANGED <<dirs, written>>
  /\ UNCHANGED <<fixed, mounts, base, control, pc, abandoned, erased>>

\* Devices, /dev/shm, bind mounts, chroot, user, exec.  A bind lands on the
\* topmost mount of the root, or in the directory itself.
Place(r) ==
  LET n == name[r]
      under == mounts[n] # <<>> /\ ~want[r].bare
  IN IF ~Binds(r) \/ ~Reaches(r)
       THEN UNCHANGED <<dirs, mounts, base>>
       ELSE /\ dirs' = dirs \cup {n}
            /\ mounts' = IF under THEN [mounts EXCEPT ![n][1].binds = @ \cup {r}] ELSE mounts
            /\ base' = IF under THEN base ELSE [base EXCEPT ![n] = @ \cup {r}]

BindAndExec(r) ==
  /\ child[r] = "prepared"
  /\ \/ child' = [child EXCEPT ![r] = "running"] /\ Place(r)
     \/ child' = [child EXCEPT ![r] = "failed"] /\ Place(r)
     \/ child' = [child EXCEPT ![r] = "failed"] /\ UNCHANGED <<dirs, mounts, base>>
  /\ UNCHANGED <<fixed, written, control, pc, abandoned, erased>>

\* A process that the payload forked before AddProcess is not in the cgroup.
PayloadExits(r) ==
  /\ child[r] = "running"
  /\ \/ child' = [child EXCEPT ![r] = "exited"] /\ members' = members \ {r}
     \/ /\ child' = [child EXCEPT ![r] = "orphaned"]
        /\ \/ UNCHANGED members
           \/ members' = members \ {r}
  /\ UNCHANGED <<fixed, files, groups, pc, abandoned, erased>>

OrphansEnd(r) ==
  /\ child[r] = "orphaned"
  /\ child' = [child EXCEPT ![r] = "reaped"]
  /\ members' = members \ {r}
  /\ UNCHANGED <<fixed, files, groups, pc, abandoned, erased>>

----------------------------------------------------------------------------
\* Faults: the run's process is killed (its child is in a group of its own and
\* goes on); the machine restarts, and only the disk stays.

Kill(r) ==
  /\ pc[r] \in Steps \ {"idle"} /\ StepTo(r, "killed")
  /\ UNCHANGED <<fixed, files, control, child, abandoned, erased>>

Reboot ==
  /\ pc' = [r \in Runs |-> IF pc[r] \in Steps \ {"idle"} THEN "killed" ELSE pc[r]]
  /\ child' = [r \in Runs |-> IF Live(r) THEN End(child[r]) ELSE child[r]]
  /\ mounts' = [n \in Names |-> <<>>]
  /\ base' = [n \in Names |-> {}]
  /\ groups' = {} /\ members' = {}
  /\ UNCHANGED <<fixed, abandoned, dirs, written, erased>>

RunStep(r) ==
  \/ Refuse(r) \/ MakeDirs(r) \/ MountOverlay(r) \/ MountFails(r)
  \/ CreateGroup(r) \/ CreateGroupFails(r) \/ Fork(r) \/ CheckFails(r)
  \/ SpawnReturns(r) \/ AddProcess(r) \/ AddProcessFails(r)
  \/ WriteStatus(r) \/ WriteStatusFails(r) \/ Wait(r)
  \/ Unmount(r) \/ RemoveTree(r) \/ RemoveTreeFails(r) \/ DestroyGroup(r)

ChildStep(r) == PrepareRoot(r) \/ BindAndExec(r) \/ PayloadExits(r) \/ OrphansEnd(r)

RunNext == Reboot \/ \E r \in Runs : RunStep(r) \/ ChildStep(r) \/ Kill(r)

RunSpec == RunInit /\ [][RunNext]_runVars

----------------------------------------------------------------------------
\* Properties.

HasMount(r) ==
  \E i \in 1..Len(mounts[name[r]]) :
    mounts[name[r]][i].by = r \/ r \in mounts[name[r]][i].binds

LeftNothing(r) == r \notin written[name[r]] /\ r \notin base[name[r]] /\ ~HasMount(r)

RunTypeOK ==
  /\ kernel \in [overlay : BOOLEAN, shared : BOOLEAN, kill : BOOLEAN]
  /\ name \in [Runs -> Names] /\ want \in [Runs -> Requests]
  /\ pc \in [Runs -> Steps \cup Ended]
  /\ child \in [Runs -> {"none", "forked", "prepared", "running", "orphaned", "exited",
                      "reaped", "failed"}]
  /\ abandoned \subseteq Runs /\ members \subseteq Runs /\ erased \subseteq Runs
  /\ dirs \subseteq Names /\ groups \subseteq Names
  /\ written \in [Names -> SUBSET Runs] /\ base \in [Names -> SUBSET Runs]
  /\ mounts \in [Names -> Seq([by : Runs, binds : SUBSET Runs])]

\* Removing a rootfs deletes files of a bound host directory only where the bind
\* was visible on the host and lay in the plain directory (no overlay above which
\* the unmount takes it away), or where another run used the name: image/layers.rs,
\* cleanup_container_rootfs, after runtime.rs, apply_bind_mounts.
HostFilesKept ==
  \A r \in erased :
    Reaches(r) /\ (Plain(r) \/ \E s \in Namesakes(r) : pc[s] # "idle")

\* A run that returned after a successful cleanup left nothing under its name, and
\* nothing of it comes back: the next run of the name sees no file and no mount of
\* it, whatever the namesakes did meanwhile (RunService::run, remove_rootfs).
CleanRunsLeaveNothing == \A r \in Runs : pc[r] = "clean" => LeftNothing(r)

\* The cleanup of a run alone under its name fails only over mounts that reached
\* the host in a plain directory, or over processes still writing there, which are a
\* payload the run gave up waiting for or what a payload left behind, killed only
\* after the removal: on an overlay, one umount2 is enough (cleanup_container_rootfs).
AloneLeavesNothing ==
  \A r \in Runs :
    pc[r] = "left" /\ (\A s \in Namesakes(r) : pc[s] = "idle") =>
      \/ r \in abandoned \/ child[r] \in {"orphaned", "reaped"}
      \/ Plain(r) /\ Reaches(r) /\ Binds(r)

\* A run that returned leaves no process in its cgroup; on a kernel without
\* cgroup.kill, only a payload it had given up, or what the payload left behind.
\* A payload that still runs, in the group or not, is one that was given up
\* (CgroupManager::destroy, after the early returns of run_with_rootfs).
NoPayloadInGroup ==
  \A r \in Runs : pc[r] \in {"clean", "left"} =>
    /\ r \in members => ~kernel.kill /\ (r \in abandoned \/ child[r] = "orphaned")
    /\ child[r] = "running" => r \in abandoned
============================================================================
