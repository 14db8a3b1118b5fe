----------------------------- MODULE RunProofs -----------------------------
(***************************************************************************)
(* What a run is given: its root filesystem and cgroup (RunRootfs), and    *)
(* the GPU devices it asked for (GpuDevices).                              *)
(*                                                                         *)
(* For any number of runs, names and requests: types, that a run which     *)
(* says it cleaned up left nothing (CleanRunsLeaveNothing), which          *)
(* processes a run leaves in its cgroup (NoPayloadInGroup), what it takes  *)
(* for a cleanup to fail (AloneLeavesNothing) or to erase files of the     *)
(* host (HostFilesKept).  For any machine and request: what the devices    *)
(* that are granted have to do with the ids (GrantsFollowIds).             *)
(***************************************************************************)
EXTENDS RunRootfs, GpuDevices, FiniteSetTheorems, WellFoundedInduction, TLAPS

Mount == [by : Runs, binds : SUBSET Runs]

\* The three things that happen to a stack of mounts: one goes on top, the top one
\* goes, a bind is added to the top one.
LEMMA Push ==
  ASSUME NEW s \in Seq(Mount), NEW r \in Runs
  PROVE  LET t == <<[by |-> r, binds |-> {}]>> \o s
         IN /\ t \in Seq(Mount) /\ Len(t) = Len(s) + 1
            /\ t[1] = [by |-> r, binds |-> {}]
            /\ \A i \in 2..Len(t) : i - 1 \in 1..Len(s) /\ t[i] = s[i - 1]
<1> DEFINE e == [by |-> r, binds |-> {}]
<1>1. e \in Mount /\ <<e>> \in Seq(Mount) /\ Len(<<e>>) = 1 /\ <<e>>[1] = e
  BY DEF Mount
<1>2. <<e>> \o s \in Seq(Mount) /\ Len(<<e>> \o s) = Len(s) + 1
  BY <1>1
<1>3. (<<e>> \o s)[1] = e /\ \A i \in 2..Len(<<e>> \o s) : (<<e>> \o s)[i] = s[i - 1]
  BY <1>1, <1>2
<1>4. \A i \in 2..Len(<<e>> \o s) : i - 1 \in 1..Len(s)
  BY <1>2
<1> QED BY <1>2, <1>3, <1>4

LEMMA Pop ==
  ASSUME NEW s \in Seq(Mount), s # <<>>
  PROVE  /\ Tail(s) \in Seq(Mount)
         /\ \A i \in 1..Len(Tail(s)) : i + 1 \in 1..Len(s) /\ Tail(s)[i] = s[i + 1]
OBVIOUS

LEMMA BindOnTop ==
  ASSUME NEW s \in Seq(Mount), s # <<>>, NEW r \in Runs
  PROVE  LET t == [s EXCEPT ![1].binds = @ \cup {r}]
         IN /\ t \in Seq(Mount) /\ Len(t) = Len(s)
            /\ \A i \in 1..Len(s) : /\ t[i].by = s[i].by
                                   /\ t[i].binds \subseteq s[i].binds \cup {r}
<1> DEFINE t == [s EXCEPT ![1].binds = @ \cup {r}]
<1>1. 1 \in 1..Len(s) /\ s[1] \in Mount /\ DOMAIN s = 1..Len(s)
  OBVIOUS
<1>2. [s[1] EXCEPT !.binds = @ \cup {r}] \in Mount
  BY <1>1 DEF Mount
<1>3. t = [s EXCEPT ![1] = [s[1] EXCEPT !.binds = @ \cup {r}]]
  OBVIOUS
<1>4. t \in Seq(Mount) /\ Len(t) = Len(s)
  BY <1>1, <1>2, <1>3
<1>5. \A i \in 1..Len(s) : t[i] = IF i = 1 THEN [s[1] EXCEPT !.binds = @ \cup {r}] ELSE s[i]
  BY <1>1, <1>3
<1>6. s[1] = [by |-> s[1].by, binds |-> s[1].binds]
  BY <1>1 DEF Mount
<1>7. \A i \in 1..Len(s) : t[i].by = s[i].by /\ t[i].binds \subseteq s[i].binds \cup {r}
  BY <1>1, <1>2, <1>5, <1>6 DEF Mount
<1> QED BY <1>4, <1>7

----------------------------------------------------------------------------
\* Type correctness.

\* The three changes of `mounts' keep its type.
LEMMA MountsTyped ==
  ASSUME RunTypeOK, NEW r \in Runs
  PROVE  /\ mounts[name[r]] \in Seq(Mount) /\ name[r] \in Names
         /\ Overlay(r) => mounts' \in [Names -> Seq(Mount)]
         /\ Unmount(r) => mounts' \in [Names -> Seq(Mount)]
         /\ Place(r) => /\ mounts' \in [Names -> Seq(Mount)]
                        /\ dirs' \subseteq Names
                        /\ base' \in [Names -> SUBSET Runs]
<1>1. mounts[name[r]] \in Seq(Mount) /\ name[r] \in Names
  BY DEF RunTypeOK, Mount
<1>2. ASSUME Overlay(r) PROVE mounts' \in [Names -> Seq(Mount)]
  BY <1>1, <1>2, Push DEF RunTypeOK, Overlay, Mount
<1>3. ASSUME Unmount(r) PROVE mounts' \in [Names -> Seq(Mount)]
  BY <1>1, <1>3, Pop DEF RunTypeOK, Unmount, Mount
<1>4. ASSUME Place(r)
      PROVE  /\ mounts' \in [Names -> Seq(Mount)]
             /\ dirs' \subseteq Names /\ base' \in [Names -> SUBSET Runs]
  <2>1. CASE ~Binds(r) \/ ~Reaches(r)
    BY <1>4, <2>1 DEF RunTypeOK, Place, Mount
  <2>2. CASE Binds(r) /\ Reaches(r) /\ ~(mounts[name[r]] # <<>> /\ ~want[r].bare)
    <3>1. /\ dirs' = dirs \cup {name[r]} /\ mounts' = mounts
          /\ base' = [base EXCEPT ![name[r]] = @ \cup {r}]
      BY <1>4, <2>2, Zenon DEF Place
    <3> QED BY <1>1, <3>1 DEF RunTypeOK, Mount
  <2>3. CASE Binds(r) /\ Reaches(r) /\ mounts[name[r]] # <<>> /\ ~want[r].bare
    <3>1. mounts' = [mounts EXCEPT ![name[r]] =
                       [mounts[name[r]] EXCEPT ![1].binds = @ \cup {r}]]
      BY <1>1, <1>4, <2>3 DEF Place, RunTypeOK
    <3>2. [mounts[name[r]] EXCEPT ![1].binds = @ \cup {r}] \in Seq(Mount)
      BY <1>1, <2>3, BindOnTop
    <3>3. mounts' \in [Names -> Seq(Mount)]
      BY <3>1, <3>2 DEF RunTypeOK, Mount
    <3>4. dirs' \subseteq Names /\ base' \in [Names -> SUBSET Runs]
      BY <1>1, <1>4, <2>3 DEF Place, RunTypeOK
    <3> QED BY <3>3, <3>4
  <2> QED BY <2>1, <2>2, <2>3
<1> QED BY <1>1, <1>2, <1>3, <1>4

LEMMA WalkedTyped ==
  ASSUME RunTypeOK, NEW r \in Runs
  PROVE  Walked(name[r]) \subseteq Runs
<1> DEFINE s == mounts[name[r]]
<1>1. s \in Seq(Mount) /\ name[r] \in Names /\ base[name[r]] \subseteq Runs
  BY DEF RunTypeOK, Mount
<1>2. s # <<>> => Head(s) \in Mount
  <2> HIDE DEF s
  <2> QED BY <1>1
<1>3. s # <<>> => Head(s).binds \subseteq Runs
  BY <1>2 DEF Mount
<1> QED BY <1>1, <1>3 DEF Walked

LEMMA TypeStep ==
  ASSUME RunTypeOK, [RunNext]_runVars
  PROVE  RunTypeOK'
<1> USE DEF RunTypeOK, Mount, StepTo, Steps, Ended, fixed, files, control
<1>1. ASSUME NEW r \in Runs, RunStep(r) PROVE RunTypeOK'
  <2>1. CASE Refuse(r) BY <2>1 DEF Refuse
  <2>2. CASE MakeDirs(r) BY <2>2 DEF MakeDirs
  <2>3. CASE MountOverlay(r)
    <3>1. CASE Overlay(r) BY <2>3, <3>1, MountsTyped DEF MountOverlay, Overlay
    <3>2. CASE CopyLayers(r) BY <2>3, <3>2 DEF MountOverlay, CopyLayers
    <3>3. CASE want[r].bare /\ UNCHANGED <<dirs, written, mounts>>
      BY <2>3, <3>3 DEF MountOverlay
    <3> QED BY <2>3, <3>1, <3>2, <3>3 DEF MountOverlay
  <2>4. CASE MountFails(r)
    <3>1. CASE CopyLayers(r) BY <2>4, <3>1 DEF MountFails, CopyLayers
    <3>2. CASE UNCHANGED <<dirs, written, mounts>> BY <2>4, <3>2 DEF MountFails
    <3> QED BY <2>4, <3>1, <3>2 DEF MountFails
  <2>5. CASE CreateGroup(r) BY <2>5 DEF CreateGroup
  <2>6. CASE CreateGroupFails(r) BY <2>6 DEF CreateGroupFails
  <2>7. CASE Fork(r) BY <2>7 DEF Fork
  <2>8. CASE CheckFails(r) BY <2>8 DEF CheckFails
  <2>9. CASE SpawnReturns(r) BY <2>9 DEF SpawnReturns
  <2>10. CASE AddProcess(r) BY <2>10 DEF AddProcess
  <2>11. CASE AddProcessFails(r) BY <2>11 DEF AddProcessFails
  <2>12. CASE WriteStatus(r) BY <2>12 DEF WriteStatus
  <2>13. CASE WriteStatusFails(r) BY <2>13 DEF WriteStatusFails
  <2>14. CASE Wait(r) BY <2>14 DEF Wait
  <2>15. CASE Unmount(r) BY <2>15, MountsTyped DEF Unmount
  <2>16. CASE RemoveTree(r) BY <2>16 DEF RemoveTree
  <2>17. CASE RemoveTreeFails(r)
    <3>1. PICK kept \in SUBSET written[name[r]] :
            written' = [written EXCEPT ![name[r]] = kept]
      BY <2>17 DEF RemoveTreeFails
    <3>2. PICK lost \in SUBSET {s \in Walked(name[r]) : BindsHost(s)} :
            erased' = erased \cup lost
      BY <2>17 DEF RemoveTreeFails
    <3>3. name[r] \in Names /\ kept \subseteq Runs
      OBVIOUS
    <3>4. Walked(name[r]) \subseteq Runs
      BY WalkedTyped
    <3>5. written' \in [Names -> SUBSET Runs]
      BY <3>1, <3>3
    <3>6. erased' \subseteq Runs
      BY <3>2, <3>4
    <3>7. pc' \in [Runs -> Steps \cup Ended]
      BY <2>17 DEF RemoveTreeFails
    <3> QED BY <2>17, <3>5, <3>6, <3>7 DEF RemoveTreeFails
  <2>18. CASE DestroyGroup(r) BY <2>18 DEF DestroyGroup, InGroup, End
  <2> QED BY <1>1, <2>1, <2>2, <2>3, <2>4, <2>5, <2>6, <2>7, <2>8, <2>9, <2>10, <2>11,
             <2>12, <2>13, <2>14, <2>15, <2>16, <2>17, <2>18 DEF RunStep
<1>2. ASSUME NEW r \in Runs, ChildStep(r) PROVE RunTypeOK'
  <2>1. CASE PrepareRoot(r)
    <3>1. CASE child' = [child EXCEPT ![r] = "failed"] /\ UNCHANGED <<dirs, written>>
      BY <2>1, <3>1 DEF PrepareRoot
    <3>2. CASE /\ child' = [child EXCEPT ![r] = "prepared"]
               /\ dirs' = dirs \cup {name[r]}
               /\ written' = [written EXCEPT ![name[r]] = @ \cup {r}]
      BY <2>1, <3>2 DEF PrepareRoot
    <3> QED BY <2>1, <3>1, <3>2 DEF PrepareRoot
  <2>2. CASE BindAndExec(r)
    <3>1. CASE Place(r)
      BY <2>2, <3>1, MountsTyped, ZenonT(60) DEF BindAndExec
    <3>2. CASE UNCHANGED <<dirs, mounts, base>> BY <2>2, <3>2 DEF BindAndExec
    <3> QED BY <2>2, <3>1, <3>2 DEF BindAndExec
  <2>3. CASE PayloadExits(r) BY <2>3, ZenonT(60) DEF PayloadExits
  <2>4. CASE OrphansEnd(r) BY <2>4 DEF OrphansEnd
  <2> QED BY <1>2, <2>1, <2>2, <2>3, <2>4 DEF ChildStep
<1>3. ASSUME NEW r \in Runs, Kill(r) PROVE RunTypeOK'
  BY <1>3 DEF Kill
<1>4. CASE Reboot BY <1>4 DEF Reboot, Live, End
<1>5. CASE UNCHANGED runVars BY <1>5 DEF runVars
<1> QED BY <1>1, <1>2, <1>3, <1>4, <1>5 DEF RunNext

\* Every variable keeps its type.
THEOREM RunTypeCorrect == RunSpec => []RunTypeOK
<1>1. RunInit => RunTypeOK
  BY DEF RunInit, RunTypeOK, Steps, Ended
<1>2. RunTypeOK /\ [RunNext]_runVars => RunTypeOK'
  BY TypeStep
<1> QED BY <1>1, <1>2, PTL DEF RunSpec

----------------------------------------------------------------------------
\* CleanRunsLeaveNothing.  There is nothing of a run before it starts and once it has
\* swept, and its child does its mounting while the run is spawning it (or was killed
\* there): so nothing of it can appear again after the directory was removed.

Swept == {"swept", "clean"}
BeforeExec == {"forked", "prepared"}

Settled(r) ==
  /\ pc[r] \notin {"spawning", "killed"} => child[r] \notin BeforeExec
  /\ pc[r] \in Swept \cup {"idle"} => LeftNothing(r)

CleanInv == RunTypeOK /\ \A r \in Runs : Settled(r)

\* What takes files and mounts away, or adds those of another run, leaves nothing of r
\* where there was nothing.
LEMMA StacksKeepNothing ==
  ASSUME RunTypeOK, UNCHANGED fixed, NEW r \in Runs, NEW s \in Runs, ~HasMount(r),
         \/ UNCHANGED mounts
         \/ Unmount(s)
         \/ s # r /\ Overlay(s)
         \/ s # r /\ Place(s)
  PROVE  ~HasMount(r)'
<1>1. mounts[name[r]] \in Seq(Mount) /\ mounts[name[s]] \in Seq(Mount)
  BY DEF RunTypeOK, Mount
<1>2. name' = name /\ name[r] \in Names /\ name[s] \in Names
  BY DEF RunTypeOK, fixed
<1>3. CASE UNCHANGED mounts
  BY <1>2, <1>3 DEF HasMount
<1>4. CASE mounts'[name[r]] = mounts[name[r]]
  BY <1>2, <1>4 DEF HasMount
<1>5. CASE Unmount(s) /\ name[s] = name[r] /\ mounts[name[r]] # <<>>
  <2>1. mounts'[name[r]] = Tail(mounts[name[r]])
    BY <1>2, <1>5 DEF Unmount, RunTypeOK
  <2> QED BY <1>1, <1>2, <2>1, <1>5, Pop DEF HasMount
<1>6. CASE s # r /\ Overlay(s) /\ name[s] = name[r]
  <2> DEFINE t == <<[by |-> s, binds |-> {}]>> \o mounts[name[r]]
  <2>1. mounts'[name[r]] = t
    BY <1>2, <1>6 DEF Overlay, RunTypeOK
  <2>2. \A i \in 1..Len(t) : t[i].by # r /\ r \notin t[i].binds
    <3>1. t[1].by # r /\ r \notin t[1].binds
      BY <1>1, <1>6, Push
    <3>2. \A i \in 2..Len(t) : i - 1 \in 1..Len(mounts[name[r]]) /\ t[i] = mounts[name[r]][i - 1]
      BY <1>1, <1>6, Push
    <3>3. \A i \in 2..Len(t) : t[i].by # r /\ r \notin t[i].binds
      BY <3>2 DEF HasMount
    <3>4. Len(t) \in Nat
      BY <1>1, Push
    <3>5. \A i \in 1..Len(t) : i = 1 \/ i \in 2..Len(t)
      BY <3>4
    <3> QED BY <3>1, <3>3, <3>5
  <2> QED BY <1>2, <2>1, <2>2 DEF HasMount
<1>7. CASE s # r /\ Place(s) /\ name[s] = name[r] /\ mounts' # mounts
  <2> DEFINE t == [mounts[name[s]] EXCEPT ![1].binds = @ \cup {s}]
  <2>1. mounts[name[s]] # <<>> /\ mounts' = [mounts EXCEPT ![name[s]] = t]
    BY <1>7 DEF Place
  <2>2. mounts'[name[r]] = t
    BY <1>2, <1>7, <2>1 DEF RunTypeOK
  <2>3. /\ Len(t) = Len(mounts[name[s]])
        /\ \A i \in 1..Len(mounts[name[s]]) :
             t[i].by = mounts[name[s]][i].by /\ t[i].binds \subseteq mounts[name[s]][i].binds \cup {s}
    BY <1>1, <2>1, BindOnTop
  <2> QED BY <1>2, <1>7, <2>2, <2>3 DEF HasMount
<1>8. \/ UNCHANGED mounts \/ mounts'[name[r]] = mounts[name[r]]
      \/ Unmount(s) /\ name[s] = name[r] /\ mounts[name[r]] # <<>>
      \/ s # r /\ Overlay(s) /\ name[s] = name[r]
      \/ s # r /\ Place(s) /\ name[s] = name[r] /\ mounts' # mounts
  <2>1. CASE UNCHANGED mounts BY <2>1
  <2>2. CASE Unmount(s) BY <1>2, <2>2 DEF Unmount, RunTypeOK
  <2>3. CASE s # r /\ Overlay(s) BY <1>2, <2>3 DEF Overlay, RunTypeOK
  <2>4. CASE s # r /\ Place(s) BY <1>2, <2>4 DEF Place, RunTypeOK
  <2> QED BY <2>1, <2>2, <2>3, <2>4
<1> QED BY <1>3, <1>4, <1>5, <1>6, <1>7, <1>8

\* A step that leaves r's process, its child and everything named r's alone, except
\* for adding what is another run's.
LEMMA OthersStep ==
  ASSUME RunTypeOK, UNCHANGED fixed, NEW r \in Runs, NEW s \in Runs \ {r}, Settled(r),
         pc'[r] = pc[r] \/ pc'[r] = "killed",
         child'[r] = child[r] \/ child'[r] = End(child[r]),
         UNCHANGED mounts \/ Unmount(s) \/ Overlay(s) \/ Place(s),
         written'[name[r]] \subseteq written[name[r]] \cup {s},
         base'[name[r]] \subseteq base[name[r]] \cup {s}
  PROVE  Settled(r)'
<1>1. name' = name BY DEF fixed
<1>2. LeftNothing(r) => LeftNothing(r)'
  BY <1>1, StacksKeepNothing DEF LeftNothing
<1>3. child'[r] \notin BeforeExec \/ child'[r] = child[r]
  BY DEF BeforeExec, End
<1> QED BY <1>2, <1>3 DEF Settled, Swept, BeforeExec

LEMMA CleanStep ==
  ASSUME CleanInv, [RunNext]_runVars
  PROVE  CleanInv'
<1>1. RunTypeOK /\ RunTypeOK'
  BY TypeStep DEF CleanInv
<1> SUFFICES ASSUME NEW r \in Runs PROVE Settled(r)'
  BY <1>1 DEF CleanInv
<1>2. Settled(r)
  BY DEF CleanInv
<1>3. name[r] \in Names /\ pc \in [Runs -> Steps \cup Ended]
  BY <1>1 DEF RunTypeOK
<1>4. ASSUME NEW s \in Runs, s # r, RunStep(s) PROVE Settled(r)'
  <2> USE <1>1, <1>2, <1>4, OthersStep DEF StepTo, RunTypeOK, fixed, files, control
  <2>1. CASE Refuse(s) BY <2>1 DEF Refuse
  <2>2. CASE MakeDirs(s) BY <2>2 DEF MakeDirs
  <2>3. CASE MountOverlay(s)
    <3>1. CASE Overlay(s) BY <2>3, <3>1 DEF MountOverlay, Overlay
    <3>2. CASE CopyLayers(s) BY <2>3, <3>2, <1>3 DEF MountOverlay, CopyLayers
    <3>3. CASE UNCHANGED <<dirs, written, mounts>> BY <2>3, <3>3 DEF MountOverlay
    <3> QED BY <2>3, <3>1, <3>2, <3>3 DEF MountOverlay
  <2>4. CASE MountFails(s)
    <3>1. CASE CopyLayers(s) BY <2>4, <3>1, <1>3 DEF MountFails, CopyLayers
    <3>2. CASE UNCHANGED <<dirs, written, mounts>> BY <2>4, <3>2 DEF MountFails
    <3> QED BY <2>4, <3>1, <3>2 DEF MountFails
  <2>5. CASE CreateGroup(s) BY <2>5 DEF CreateGroup
  <2>6. CASE CreateGroupFails(s) BY <2>6 DEF CreateGroupFails
  <2>7. CASE Fork(s) BY <2>7 DEF Fork
  <2>8. CASE CheckFails(s) BY <2>8 DEF CheckFails
  <2>9. CASE SpawnReturns(s) BY <2>9 DEF SpawnReturns
  <2>10. CASE AddProcess(s) BY <2>10 DEF AddProcess
  <2>11. CASE AddProcessFails(s) BY <2>11 DEF AddProcessFails
  <2>12. CASE WriteStatus(s) BY <2>12 DEF WriteStatus
  <2>13. CASE WriteStatusFails(s) BY <2>13 DEF WriteStatusFails
  <2>14. CASE Wait(s) BY <2>14 DEF Wait
  <2>15. CASE Unmount(s) BY <2>15 DEF Unmount
  <2>16. CASE RemoveTree(s) BY <2>16 DEF RemoveTree
  <2>17. CASE RemoveTreeFails(s) BY <2>17 DEF RemoveTreeFails
  <2>18. CASE DestroyGroup(s) BY <2>18 DEF DestroyGroup
  <2> QED BY <2>1, <2>2, <2>3, <2>4, <2>5, <2>6, <2>7, <2>8, <2>9, <2>10, <2>11,
             <2>12, <2>13, <2>14, <2>15, <2>16, <2>17, <2>18 DEF RunStep
<1>5. ASSUME NEW s \in Runs, s # r, ChildStep(s) PROVE Settled(r)'
  <2> USE <1>1, <1>2, <1>5, OthersStep DEF StepTo, RunTypeOK, fixed, files, control
  <2>1. CASE PrepareRoot(s)
    <3>1. written'[name[r]] \subseteq written[name[r]] \cup {s}
      BY ONLY <2>1, <1>3, RunTypeOK DEF PrepareRoot, RunTypeOK
    <3>2. child'[r] = child[r]
      BY <2>1 DEF PrepareRoot
    <3> QED BY <2>1, <3>1, <3>2 DEF PrepareRoot
  <2>2. CASE BindAndExec(s)
    <3>1. CASE Place(s)
      <4>1. base'[name[r]] \subseteq base[name[r]] \cup {s}
        BY <3>1, <1>3, ZenonT(60) DEF Place
      <4> QED BY <2>2, <3>1, <4>1 DEF BindAndExec
    <3>2. CASE UNCHANGED <<dirs, mounts, base>> BY <2>2, <3>2 DEF BindAndExec
    <3> QED BY <2>2, <3>1, <3>2 DEF BindAndExec
  <2>3. CASE PayloadExits(s) BY <2>3 DEF PayloadExits
  <2>4. CASE OrphansEnd(s) BY <2>4 DEF OrphansEnd
  <2> QED BY <1>5, <2>1, <2>2, <2>3, <2>4 DEF ChildStep
<1>6. ASSUME NEW s \in Runs, s # r, Kill(s) PROVE Settled(r)'
  BY <1>1, <1>2, <1>6, OthersStep DEF Kill, StepTo, RunTypeOK, fixed, files, control
\* r itself: it says it has swept only where it found nothing mounted.
<1>7. ASSUME RunStep(r) PROVE Settled(r)'
  <2> USE <1>2, <1>3 DEF Settled, Swept, BeforeExec, StepTo, Steps, Ended, fixed, files, control
  <2> DEFINE Away == /\ pc'[r] \notin Swept \cup {"idle"}
                     /\ pc'[r] # "spawning" => child'[r] \notin BeforeExec
  <2>1. CASE Refuse(r) BY <2>1 DEF Refuse, LeftNothing, HasMount
  <2>2. CASE RemoveTree(r)
    <3>1. mounts'[name'[r]] = <<>> /\ base'[name'[r]] = {} /\ written'[name'[r]] = {}
      BY <1>1, <2>2 DEF RemoveTree, MountPoints, RunTypeOK
    <3>2. LeftNothing(r)'
      BY <3>1 DEF LeftNothing, HasMount
    <3> QED BY <2>2, <3>2 DEF RemoveTree
  <2>3. CASE DestroyGroup(r)
    <3>1. child'[r] \notin BeforeExec
      BY <2>3 DEF DestroyGroup, End
    <3>2. pc'[r] \in Swept \cup {"idle"} => pc[r] \in Swept
      BY <2>3 DEF DestroyGroup
    <3>3. LeftNothing(r) => LeftNothing(r)'
      BY <2>3 DEF DestroyGroup, LeftNothing, HasMount
    <3> QED BY <3>1, <3>2, <3>3
  <2>4. CASE \/ MakeDirs(r) \/ MountOverlay(r) \/ MountFails(r) \/ CreateGroup(r)
             \/ CreateGroupFails(r)
    <3>1. Away BY <2>4 DEF MakeDirs, MountOverlay, MountFails, CreateGroup, CreateGroupFails
    <3> QED BY <3>1
  <2>5. CASE Fork(r) \/ CheckFails(r) \/ SpawnReturns(r)
    <3>1. Away BY <1>1, <2>5 DEF Fork, CheckFails, SpawnReturns, RunTypeOK
    <3> QED BY <3>1
  <2>6. CASE \/ AddProcess(r) \/ AddProcessFails(r) \/ WriteStatus(r)
             \/ WriteStatusFails(r) \/ Wait(r)
    <3>1. Away BY <2>6 DEF AddProcess, AddProcessFails, WriteStatus, WriteStatusFails, Wait
    <3> QED BY <3>1
  <2>7. CASE Unmount(r) \/ RemoveTreeFails(r)
    <3>1. Away BY <2>7 DEF Unmount, RemoveTreeFails
    <3> QED BY <3>1
  <2> QED BY <1>7, <2>1, <2>2, <2>3, <2>4, <2>5, <2>6, <2>7 DEF RunStep
\* Its child mounts and writes only while r is spawning it, or was killed there.
<1>8. ASSUME ChildStep(r) PROVE Settled(r)'
  <2> USE <1>2, <1>3 DEF Settled, Swept, BeforeExec, fixed, files, control
  <2>1. CASE PrepareRoot(r) \/ BindAndExec(r)
    <3>1. pc' = pc /\ pc[r] \in {"spawning", "killed"}
      BY <2>1 DEF PrepareRoot, BindAndExec
    <3> QED BY <3>1
  <2>2. CASE PayloadExits(r) \/ OrphansEnd(r)
    <3>1. pc' = pc /\ child'[r] \notin BeforeExec
      BY <1>1, <2>2 DEF PayloadExits, OrphansEnd, RunTypeOK
    <3>2. LeftNothing(r) => LeftNothing(r)'
      BY <2>2 DEF PayloadExits, OrphansEnd, LeftNothing, HasMount
    <3> QED BY <3>1, <3>2
  <2> QED BY <1>8, <2>1, <2>2 DEF ChildStep
<1>9. ASSUME Kill(r) PROVE Settled(r)'
  BY <1>2, <1>3, <1>9 DEF Kill, StepTo, Settled, Swept
<1>10. CASE Reboot
  <2>1. child'[r] \notin BeforeExec
    BY <1>10 DEF Reboot, Live, End, BeforeExec
  <2>2. pc'[r] \in Swept \cup {"idle"} => pc[r] \in Swept \cup {"idle"}
    BY <1>3, <1>10 DEF Reboot, Swept, Steps
  <2>3. mounts'[name'[r]] = <<>> /\ base'[name'[r]] = {} /\ written' = written /\ name' = name
    BY <1>3, <1>10 DEF Reboot, fixed
  <2>4. LeftNothing(r) => LeftNothing(r)'
    BY <2>3 DEF LeftNothing, HasMount
  <2> QED BY <1>2, <2>1, <2>2, <2>4 DEF Settled
<1>11. CASE UNCHANGED runVars
  BY <1>2, <1>11 DEF runVars, Settled, LeftNothing, HasMount
<1> QED BY <1>4, <1>5, <1>6, <1>7, <1>8, <1>9, <1>10, <1>11 DEF RunNext

\* A run that says it removed its root filesystem left nothing of its own there.
THEOREM CleanRunsLeftNothing == RunSpec => []CleanRunsLeaveNothing
<1>1. RunInit => CleanInv
  BY DEF RunInit, CleanInv, RunTypeOK, Steps, Ended, Settled, BeforeExec, LeftNothing, HasMount
<1>2. CleanInv /\ [RunNext]_runVars => CleanInv'
  BY CleanStep
<1>3. CleanInv => CleanRunsLeaveNothing
  BY DEF CleanInv, Settled, Swept, CleanRunsLeaveNothing
<1> QED BY <1>1, <1>2, <1>3, PTL DEF RunSpec
----------------------------------------------------------------------------
\* The child and the cgroup.  A run reaches its cleanup with its child waited for,
\* given up, or never there; what is in a cgroup is a payload that still has processes.

Over == {"cleanup", "removing", "swept", "unswept", "clean", "left"}

ChildFits(r) ==
  /\ pc[r] \in {"idle", "made", "mounted", "ready"} => child[r] = "none"
  /\ child[r] \in BeforeExec => pc[r] \in {"spawning", "killed"}
  /\ pc[r] \in Over =>
       child[r] \in {"none", "exited", "orphaned", "reaped", "failed"} \/ r \in abandoned
  /\ r \in members => child[r] \in {"running", "orphaned"} /\ want[r].limits
  /\ pc[r] \in {"clean", "left"} /\ r \in members => ~kernel.kill

ChildInv == \A r \in Runs : ChildFits(r)

\* Another run ends this one's payload when it destroys the cgroup of their name, and
\* leaves its process and its child alone otherwise.
LEMMA OthersChild ==
  ASSUME RunTypeOK, NEW r \in Runs, NEW s \in Runs, s # r,
         RunStep(s) \/ ChildStep(s) \/ Kill(s)
  PROVE  /\ pc'[r] = pc[r] /\ UNCHANGED fixed
         /\ r \in abandoned => r \in abandoned'
         /\ \/ child'[r] = child[r] /\ (r \in members' <=> r \in members)
            \/ child'[r] = End(child[r]) /\ r \in members /\ r \notin members'
<1> USE DEF RunTypeOK, StepTo, fixed, files, control
<1>1. CASE Refuse(s) \/ MakeDirs(s) \/ MountOverlay(s) \/ MountFails(s) \/ CreateGroup(s)
  BY <1>1 DEF Refuse, MakeDirs, MountOverlay, MountFails, CreateGroup
<1>2. CASE \/ CreateGroupFails(s) \/ Fork(s) \/ CheckFails(s) \/ SpawnReturns(s)
           \/ AddProcess(s) \/ AddProcessFails(s)
  BY <1>2 DEF CreateGroupFails, Fork, CheckFails, SpawnReturns, AddProcess, AddProcessFails
<1>3. CASE WriteStatus(s) \/ WriteStatusFails(s) \/ Wait(s) \/ Unmount(s)
  BY <1>3 DEF WriteStatus, WriteStatusFails, Wait, Unmount
<1>4. CASE RemoveTree(s) \/ RemoveTreeFails(s)
  BY <1>4 DEF RemoveTree, RemoveTreeFails
<1>5. CASE DestroyGroup(s)
  BY <1>5 DEF DestroyGroup, InGroup
<1>6. CASE ChildStep(s)
  BY <1>6 DEF ChildStep, PrepareRoot, BindAndExec, PayloadExits, OrphansEnd
<1>7. CASE Kill(s)
  BY <1>7 DEF Kill
<1> QED BY <1>1, <1>2, <1>3, <1>4, <1>5, <1>6, <1>7 DEF RunStep

LEMMA ChildInvStep ==
  ASSUME RunTypeOK, ChildInv, [RunNext]_runVars
  PROVE  ChildInv'
<1> SUFFICES ASSUME NEW r \in Runs PROVE ChildFits(r)'
  BY DEF ChildInv
<1>1. ChildFits(r)
  BY DEF ChildInv
<1>2. ASSUME NEW s \in Runs, s # r, RunStep(s) \/ ChildStep(s) \/ Kill(s)
      PROVE  ChildFits(r)'
  BY <1>1, <1>2, OthersChild DEF ChildFits, BeforeExec, End, fixed
<1> USE DEF RunTypeOK, StepTo, fixed, files, control
<1>3. ASSUME RunStep(r) PROVE ChildFits(r)'
  <2> USE DEF ChildFits, BeforeExec, Over
  <2>1. CASE Refuse(r) \/ MakeDirs(r) \/ MountOverlay(r) \/ MountFails(r) \/ CreateGroup(r)
    <3>1. /\ UNCHANGED <<child, members, abandoned, want, kernel>>
          /\ pc[r] \in {"idle", "made", "mounted"}
          /\ pc'[r] \in {"clean", "made", "mounted", "leaked", "ready"}
      BY <2>1 DEF Refuse, MakeDirs, MountOverlay, MountFails, CreateGroup
    <3> QED BY <1>1, <3>1
  <2>2. CASE CreateGroupFails(r) \/ Fork(r) \/ CheckFails(r)
    BY <1>1, <2>2 DEF CreateGroupFails, Fork, CheckFails
  <2>3. CASE SpawnReturns(r) BY <1>1, <2>3 DEF SpawnReturns
  <2>4. CASE AddProcess(r) BY <1>1, <2>4 DEF AddProcess
  <2>5. CASE AddProcessFails(r) \/ WriteStatus(r) \/ WriteStatusFails(r) \/ Wait(r)
    BY <1>1, <2>5 DEF AddProcessFails, WriteStatus, WriteStatusFails, Wait
  <2>6. CASE Unmount(r) BY <1>1, <2>6 DEF Unmount
  <2>7. CASE RemoveTree(r) \/ RemoveTreeFails(r)
    BY <1>1, <2>7 DEF RemoveTree, RemoveTreeFails
  <2>8. CASE DestroyGroup(r)
    <3>1. /\ UNCHANGED <<abandoned, want>>
          /\ pc[r] \in {"swept", "unswept"} /\ pc'[r] \in {"clean", "left"}
          /\ \/ child'[r] = child[r] /\ r \notin members'
             \/ child'[r] = End(child[r]) /\ r \notin members'
             \/ child'[r] = child[r] /\ r \in members /\ ~kernel.kill /\ UNCHANGED kernel
      <4>1. r \in members => want[r].limits /\ r \in InGroup(name[r])
        BY <1>1 DEF InGroup
      <4> QED BY <2>8, <4>1 DEF DestroyGroup
    <3> QED BY <1>1, <3>1 DEF End
  <2> QED BY <1>3, <2>1, <2>2, <2>3, <2>4, <2>5, <2>6, <2>7, <2>8 DEF RunStep
<1>4. ASSUME ChildStep(r) PROVE ChildFits(r)'
  <2>1. /\ UNCHANGED <<pc, abandoned, want, kernel>>
        /\ \/ child[r] = "forked" /\ child'[r] \in {"prepared", "failed"} /\ UNCHANGED members
           \/ child[r] = "prepared" /\ child'[r] \in {"running", "failed"} /\ UNCHANGED members
           \/ child[r] = "running" /\ child'[r] = "exited" /\ r \notin members'
           \/ child[r] = "running" /\ child'[r] = "orphaned" /\ members' \subseteq members
           \/ child[r] = "orphaned" /\ child'[r] = "reaped" /\ r \notin members'
    BY <1>4 DEF ChildStep, PrepareRoot, BindAndExec, PayloadExits, OrphansEnd
  <2> QED BY <1>1, <2>1 DEF ChildFits, BeforeExec, Over
<1>5. ASSUME Kill(r) PROVE ChildFits(r)'
  BY <1>1, <1>5 DEF Kill, ChildFits, Over
<1>6. CASE Reboot
  <2>1. /\ UNCHANGED abandoned /\ members' = {}
        /\ child'[r] = IF Live(r) THEN End(child[r]) ELSE child[r]
        /\ pc'[r] = IF pc[r] \in Steps \ {"idle"} THEN "killed" ELSE pc[r]
    BY <1>6 DEF Reboot
  <2> QED BY <1>1, <2>1 DEF Live, End, ChildFits, BeforeExec, Over, Steps
<1>7. CASE UNCHANGED runVars
  BY <1>1, <1>7 DEF runVars, ChildFits
<1> QED BY <1>2, <1>3, <1>4, <1>5, <1>6, <1>7 DEF RunNext

LEMMA ChildCorrect == RunSpec => []ChildInv
<1>1. RunInit => ChildInv
  BY DEF RunInit, ChildInv, ChildFits, BeforeExec, Over
<1> QED BY RunTypeCorrect, <1>1, ChildInvStep, PTL DEF RunSpec

\* A run that has returned left no process in its cgroup where the kernel has
\* cgroup.kill, and elsewhere none but a payload it had given up or the payload's own
\* processes; what still runs of it is a payload it had given up.
THEOREM GroupsAreEmptied == RunSpec => []NoPayloadInGroup
<1>1. ChildInv => NoPayloadInGroup
  BY DEF ChildInv, ChildFits, Over, NoPayloadInGroup
<1> QED BY ChildCorrect, <1>1, PTL

----------------------------------------------------------------------------
\* HostFilesKept and AloneLeavesNothing.  What is mounted under a name is its runs',
\* and visible; of a run alone under its name there is at most one mount, put there on
\* nothing and gone when its directory is walked.

Alone(r) == \A s \in Namesakes(r) : pc[s] = "idle"

\* The runs that may have binds under name n.
Theirs(n) == {s \in Runs : name[s] = n /\ pc[s] # "idle" /\ Binds(s) /\ Reaches(s)}

BindsFit(n) ==
  /\ base[n] \subseteq Theirs(n)
  /\ \A i \in 1..Len(mounts[n]) : mounts[n][i].binds \subseteq Theirs(n)

StackFits(r) ==
  LET stack == mounts[name[r]]
  IN /\ Len(stack) <= 1
     /\ Plain(r) => stack = <<>>
     /\ ~Plain(r) => r \notin base[name[r]]
     /\ pc[r] \in {"idle", "made", "removing", "swept", "unswept", "clean", "left"} =>
          stack = <<>>
     /\ ~Plain(r) /\ (pc[r] \in {"mounted", "ready", "spawning"} \/ child[r] \in BeforeExec) =>
          stack # <<>>

Excused(r) ==
  \/ r \in abandoned \/ child[r] \in {"orphaned", "reaped"}
  \/ Plain(r) /\ Reaches(r) /\ Binds(r)

AloneFits(r) ==
  Alone(r) => StackFits(r) /\ (pc[r] \in {"unswept", "left"} => Excused(r))

ErasedFits(r) == r \in erased => Reaches(r) /\ (Plain(r) \/ ~Alone(r))

MountInv ==
  /\ \A n \in Names : BindsFit(n)
  /\ \A r \in Runs : AloneFits(r) /\ ErasedFits(r)

\* Which steps mount or unmount, and when.
LEMMA MountMoves ==
  ASSUME [RunNext]_runVars
  PROVE  /\ UNCHANGED fixed
         /\ \/ UNCHANGED <<mounts, base>>
            \/ Reboot
            \/ \E s \in Runs : Unmount(s) /\ UNCHANGED base
            \/ \E s \in Runs : Overlay(s) /\ pc[s] = "made" /\ UNCHANGED base
            \/ \E s \in Runs : Place(s) /\ child[s] = "prepared"
<1> USE DEF fixed, files, control
<1>1. ASSUME NEW s \in Runs, RunStep(s)
      PROVE  /\ UNCHANGED fixed
             /\ \/ UNCHANGED <<mounts, base>>
                \/ Unmount(s) /\ UNCHANGED base
                \/ Overlay(s) /\ pc[s] = "made" /\ UNCHANGED base
  <2>1. CASE Refuse(s) \/ MakeDirs(s) \/ CreateGroup(s) \/ CreateGroupFails(s) \/ Fork(s)
    BY <2>1 DEF Refuse, MakeDirs, CreateGroup, CreateGroupFails, Fork
  <2>2. CASE MountOverlay(s) \/ MountFails(s)
    BY <2>2 DEF MountOverlay, MountFails, CopyLayers
  <2>3. CASE CheckFails(s) \/ SpawnReturns(s) \/ AddProcess(s) \/ AddProcessFails(s)
    BY <2>3 DEF CheckFails, SpawnReturns, AddProcess, AddProcessFails
  <2>4. CASE WriteStatus(s) \/ WriteStatusFails(s) \/ Wait(s) \/ Unmount(s)
    BY <2>4 DEF WriteStatus, WriteStatusFails, Wait, Unmount
  <2>5. CASE RemoveTree(s) \/ RemoveTreeFails(s) \/ DestroyGroup(s)
    BY <2>5 DEF RemoveTree, RemoveTreeFails, DestroyGroup
  <2> QED BY <1>1, <2>1, <2>2, <2>3, <2>4, <2>5 DEF RunStep
<1>2. ASSUME NEW s \in Runs, ChildStep(s)
      PROVE  /\ UNCHANGED fixed
             /\ \/ UNCHANGED <<mounts, base>>
                \/ Place(s) /\ child[s] = "prepared"
  BY <1>2 DEF ChildStep, PrepareRoot, BindAndExec, PayloadExits, OrphansEnd
<1>3. ASSUME NEW s \in Runs, Kill(s) PROVE UNCHANGED fixed /\ UNCHANGED <<mounts, base>>
  BY <1>3 DEF Kill
<1>4. CASE Reboot BY <1>4 DEF Reboot
<1>5. CASE UNCHANGED runVars BY <1>5 DEF runVars
<1> QED BY <1>1, <1>2, <1>3, <1>4, <1>5 DEF RunNext

\* A run that has begun never is idle again; the run that steps has begun.
LEMMA RunsBegin ==
  ASSUME RunTypeOK, ChildInv, [RunNext]_runVars
  PROVE  /\ \A r \in Runs : pc[r] # "idle" => pc'[r] # "idle"
         /\ \A s \in Runs : RunStep(s) \/ ChildStep(s) \/ Kill(s) => pc'[s] # "idle"
<1>1. ASSUME NEW s \in Runs, RunStep(s) \/ ChildStep(s) \/ Kill(s)
      PROVE  pc'[s] # "idle"
  <2> USE DEF RunTypeOK, StepTo
  <2>1. CASE RunStep(s)
    BY <2>1
    DEF RunStep, Refuse, MakeDirs, MountOverlay, MountFails, CreateGroup, CreateGroupFails,
        Fork, CheckFails, SpawnReturns, AddProcess, AddProcessFails, WriteStatus,
        WriteStatusFails, Wait, Unmount, RemoveTree, RemoveTreeFails, DestroyGroup
  <2>2. CASE ChildStep(s)
    <3>1. child[s] # "none" /\ UNCHANGED pc
      BY <2>2 DEF ChildStep, PrepareRoot, BindAndExec, PayloadExits, OrphansEnd, fixed,
                  files, control
    <3> QED BY <3>1 DEF ChildInv, ChildFits
  <2>3. CASE Kill(s) BY <2>3 DEF Kill
  <2> QED BY <1>1, <2>1, <2>2, <2>3
<1>2. ASSUME NEW r \in Runs, pc[r] # "idle" PROVE pc'[r] # "idle"
  <2>1. ASSUME NEW s \in Runs, RunStep(s) \/ ChildStep(s) \/ Kill(s) PROVE pc'[r] # "idle"
    BY <1>1, <1>2, <2>1, OthersChild
  <2>2. CASE Reboot BY <1>2, <2>2 DEF Reboot, RunTypeOK
  <2>3. CASE UNCHANGED runVars BY <1>2, <2>3 DEF runVars
  <2> QED BY <2>1, <2>2, <2>3 DEF RunNext
<1> QED BY <1>1, <1>2

LEMMA TheirsGrow ==
  ASSUME RunTypeOK, ChildInv, [RunNext]_runVars, NEW n \in Names
  PROVE  Theirs(n) \subseteq Theirs(n)'
BY RunsBegin, MountMoves DEF Theirs, fixed, Binds, BindsHost, Reaches

LEMMA BindsStep ==
  ASSUME RunTypeOK, ChildInv, [RunNext]_runVars, NEW n \in Names, BindsFit(n)
  PROVE  BindsFit(n)'
<1> DEFINE stack == mounts[n]
<1>1. stack \in Seq(Mount) /\ n \in DOMAIN mounts
  BY DEF RunTypeOK, Mount
<1>2. Theirs(n) \subseteq Theirs(n)'
  BY TheirsGrow
<1>3. CASE UNCHANGED <<mounts, base>>
  BY <1>2, <1>3 DEF BindsFit
<1>4. CASE Reboot
  BY <1>4 DEF Reboot, BindsFit
<1>5. ASSUME NEW s \in Runs, Unmount(s), UNCHANGED base PROVE BindsFit(n)'
  <2>1. mounts'[n] = stack \/ (stack # <<>> /\ mounts'[n] = Tail(stack))
    BY <1>1, <1>5 DEF Unmount, RunTypeOK
  <2>2. stack # <<>> => \A i \in 1..Len(Tail(stack)) :
                          i + 1 \in 1..Len(stack) /\ Tail(stack)[i] = stack[i + 1]
    BY <1>1, Pop
  <2>3. \A i \in 1..Len(mounts'[n]) : mounts'[n][i].binds \subseteq Theirs(n)
    BY <2>1, <2>2 DEF BindsFit
  <2> QED BY <1>2, <1>5, <2>3 DEF BindsFit
<1>6. ASSUME NEW s \in Runs, Overlay(s), UNCHANGED base PROVE BindsFit(n)'
  <2> DEFINE t == <<[by |-> s, binds |-> {}]>> \o stack
  <2>1. mounts'[n] = stack \/ mounts'[n] = t
    BY <1>1, <1>6 DEF Overlay, RunTypeOK
  <2>2. /\ Len(t) = Len(stack) + 1 /\ Len(stack) \in Nat
        /\ t[1] = [by |-> s, binds |-> {}]
        /\ \A i \in 2..Len(t) : i - 1 \in 1..Len(stack) /\ t[i] = stack[i - 1]
    BY <1>1, Push
  <2>3. \A i \in 1..Len(t) : t[i].binds \subseteq Theirs(n)
    <3>1. t[1].binds = {}
      BY <2>2
    <3>2. \A i \in 2..Len(t) : t[i].binds \subseteq Theirs(n)
      BY <2>2 DEF BindsFit
    <3>3. \A i \in 1..Len(t) : i = 1 \/ i \in 2..Len(t)
      BY <2>2
    <3> QED BY <3>1, <3>2, <3>3
  <2>4. \A i \in 1..Len(mounts'[n]) : mounts'[n][i].binds \subseteq Theirs(n)
    BY <2>1, <2>3 DEF BindsFit
  <2> QED BY <1>2, <1>6, <2>4 DEF BindsFit
<1>7. ASSUME NEW s \in Runs, Place(s), child[s] = "prepared" PROVE BindsFit(n)'
  <2>1. pc[s] # "idle" /\ name[s] \in Names
    BY <1>7 DEF ChildInv, ChildFits, RunTypeOK
  <2>2. CASE ~Binds(s) \/ ~Reaches(s)
    BY <1>3, <1>7, <2>2 DEF Place
  <2>3. CASE Binds(s) /\ Reaches(s) /\ name[s] # n
    <3>1. mounts'[n] = stack /\ base'[n] = base[n]
      BY <1>1, <1>7, <2>3 DEF Place, RunTypeOK
    <3> QED BY <1>2, <3>1 DEF BindsFit
  <2>4. CASE Binds(s) /\ Reaches(s) /\ name[s] = n
    <3>1. s \in Theirs(n)
      BY <2>1, <2>4 DEF Theirs
    <3>2. base'[n] \subseteq base[n] \cup {s}
      BY <1>7, <2>4 DEF Place, RunTypeOK
    <3>3. CASE ~(stack # <<>> /\ ~want[s].bare)
      <4>1. mounts' = mounts
        BY <1>7, <2>4, <3>3, Zenon DEF Place
      <4> QED BY <1>2, <3>1, <3>2, <4>1 DEF BindsFit
    <3>4. CASE stack # <<>> /\ ~want[s].bare
      <4> DEFINE t == [stack EXCEPT ![1].binds = @ \cup {s}]
      <4>1. mounts'[n] = t
        BY <1>1, <1>7, <2>4, <3>4 DEF Place, RunTypeOK
      <4>2. Len(t) = Len(stack)
            /\ \A i \in 1..Len(stack) : t[i].binds \subseteq stack[i].binds \cup {s}
        BY <1>1, <3>4, BindOnTop
      <4>3. \A i \in 1..Len(mounts'[n]) : mounts'[n][i].binds \subseteq Theirs(n)
        BY <3>1, <4>1, <4>2 DEF BindsFit
      <4> QED BY <1>2, <3>1, <3>2, <4>3 DEF BindsFit
    <3> QED BY <3>3, <3>4
  <2> QED BY <2>2, <2>3, <2>4
<1> QED BY <1>3, <1>4, <1>5, <1>6, <1>7, MountMoves

\* The runs of other names do not touch this name's mounts.
LEMMA OthersMounts ==
  ASSUME RunTypeOK, NEW r \in Runs, NEW s \in Runs, name[s] # name[r],
         RunStep(s) \/ ChildStep(s) \/ Kill(s)
  PROVE  mounts'[name[r]] = mounts[name[r]] /\ base'[name[r]] = base[name[r]]
<1>1. CASE UNCHANGED <<mounts, base>>
  BY <1>1
<1>2. CASE Unmount(s) \/ (Overlay(s) /\ UNCHANGED base) \/ Place(s)
  BY <1>2 DEF Unmount, Overlay, Place, RunTypeOK, files, control, fixed
<1> USE DEF fixed, files, control
<1>3. CASE RunStep(s)
  <2>1. CASE Refuse(s) \/ MakeDirs(s) \/ CreateGroup(s) \/ CreateGroupFails(s) \/ Fork(s)
    BY <1>1, <2>1 DEF Refuse, MakeDirs, CreateGroup, CreateGroupFails, Fork
  <2>2. CASE MountOverlay(s) \/ MountFails(s)
    BY <1>1, <1>2, <2>2 DEF MountOverlay, MountFails, CopyLayers
  <2>3. CASE CheckFails(s) \/ SpawnReturns(s) \/ AddProcess(s) \/ AddProcessFails(s)
    BY <1>1, <2>3 DEF CheckFails, SpawnReturns, AddProcess, AddProcessFails
  <2>4. CASE WriteStatus(s) \/ WriteStatusFails(s) \/ Wait(s) \/ Unmount(s)
    BY <1>1, <1>2, <2>4 DEF WriteStatus, WriteStatusFails, Wait
  <2>5. CASE RemoveTree(s) \/ RemoveTreeFails(s) \/ DestroyGroup(s)
    BY <1>1, <2>5 DEF RemoveTree, RemoveTreeFails, DestroyGroup
  <2> QED BY <1>3, <2>1, <2>2, <2>3, <2>4, <2>5 DEF RunStep
<1>4. CASE ChildStep(s)
  BY <1>1, <1>2, <1>4 DEF ChildStep, PrepareRoot, BindAndExec, PayloadExits, OrphansEnd
<1>5. CASE Kill(s)
  BY <1>1, <1>5 DEF Kill
<1> QED BY <1>3, <1>4, <1>5

\* What a run alone under its name does to the mounts there.
LEMMA StackStep ==
  ASSUME RunTypeOK, ChildInv, NEW r \in Runs, StackFits(r), RunStep(r) \/ ChildStep(r)
  PROVE  StackFits(r)'
<1> DEFINE stack == mounts[name[r]]
<1> USE DEF RunTypeOK, StepTo, fixed, files, control
<1>1. /\ stack \in Seq(Mount) /\ name[r] \in Names /\ ChildFits(r)
      /\ name[r] \in DOMAIN mounts
  BY DEF Mount, ChildInv
<1>2. UNCHANGED fixed
  BY DEF RunStep, ChildStep, Refuse, MakeDirs, MountOverlay, MountFails, CreateGroup,
         CreateGroupFails, Fork, CheckFails, SpawnReturns, AddProcess, AddProcessFails,
         WriteStatus, WriteStatusFails, Wait, Unmount, RemoveTree, RemoveTreeFails,
         DestroyGroup, PrepareRoot, BindAndExec, PayloadExits, OrphansEnd
<1>3. /\ Plain(r)' <=> Plain(r)
      /\ name' = name
  BY <1>2 DEF Plain
<1>4. ASSUME UNCHANGED <<mounts, base>>,
             \/ pc'[r] = pc[r]
             \/ pc'[r] \notin {"idle", "made", "removing", "swept", "unswept", "clean", "left"}
             \/ stack = <<>>,
             \/ pc'[r] \notin {"mounted", "ready", "spawning"}
             \/ pc[r] \in {"mounted", "ready", "spawning"}
             \/ Plain(r),
             child'[r] \in BeforeExec => child[r] \in BeforeExec \/ pc[r] \in {"ready"}
      PROVE  StackFits(r)'
  BY <1>3, <1>4 DEF StackFits
<1>5. CASE \/ Refuse(r) \/ MakeDirs(r) \/ MountFails(r) \/ CreateGroup(r)
           \/ CreateGroupFails(r) \/ Fork(r) \/ CheckFails(r)
  <2>1. /\ UNCHANGED <<mounts, base>>
        /\ pc[r] = "idle" \/ pc'[r] \in {"leaked", "ready", "spawning", "cleanup"}
        /\ pc'[r] \in {"mounted", "ready", "spawning"} => pc[r] \in {"mounted", "ready"}
        /\ child'[r] = child[r] \/ pc[r] = "ready"
    BY <1>5 DEF Refuse, MakeDirs, MountFails, CopyLayers, CreateGroup, CreateGroupFails, Fork,
               CheckFails
  <2> QED BY <1>4, <2>1 DEF StackFits
<1>6. CASE \/ SpawnReturns(r) \/ AddProcess(r) \/ AddProcessFails(r) \/ WriteStatus(r)
           \/ WriteStatusFails(r) \/ Wait(r)
  <2>1. /\ UNCHANGED <<mounts, base, child>>
        /\ pc'[r] \in {"spawned", "cleanup", "tracked", "waiting"}
    BY <1>6 DEF SpawnReturns, AddProcess, AddProcessFails, WriteStatus, WriteStatusFails, Wait
  <2> QED BY <1>4, <2>1
<1>7. CASE MountOverlay(r)
  <2>1. stack = <<>> /\ child[r] = "none"
    BY <1>1, <1>7 DEF MountOverlay, StackFits, ChildFits
  <2>2. pc'[r] = "mounted" /\ UNCHANGED <<base, child>> /\ pc[r] = "made"
    BY <1>7 DEF MountOverlay
  <2>3. CASE Overlay(r)
    <3> DEFINE t == <<[by |-> r, binds |-> {}]>>
    <3>1. ~Plain(r) /\ mounts' = [mounts EXCEPT ![name[r]] = t \o stack]
      BY <2>3 DEF Overlay
    <3>2. t \o stack = t /\ Len(t) = 1 /\ t # <<>>
      BY <2>1
    <3>3. mounts'[name[r]] = t
      BY <1>1, <3>1, <3>2
    <3> QED BY <1>3, <2>2, <3>1, <3>2, <3>3 DEF StackFits
  <2>4. CASE ~Overlay(r)
    <3>1. UNCHANGED mounts /\ Plain(r)
      BY <1>7, <2>4 DEF MountOverlay, CopyLayers, Plain
    <3> QED BY <1>3, <2>1, <2>2, <3>1 DEF StackFits
  <2> QED BY <2>3, <2>4
<1>8. CASE Unmount(r)
  <2>1. pc'[r] = "removing" /\ UNCHANGED <<base, child>> /\ pc[r] = "cleanup"
        /\ mounts'[name[r]] = IF stack = <<>> THEN <<>> ELSE Tail(stack)
    BY <1>1, <1>8 DEF Unmount
  <2>2. stack # <<>> => Tail(stack) = <<>>
    <3> HIDE DEF stack
    <3>1. Len(stack) <= 1
      BY DEF StackFits, stack
    <3> QED BY <1>1, <3>1
  <2>3. mounts'[name[r]] = <<>> /\ Len(<<>>) = 0
    BY <2>1, <2>2
  <2>4. child'[r] \notin BeforeExec
    BY <1>1, <2>1 DEF ChildFits
  <2> QED BY <1>3, <2>1, <2>3, <2>4 DEF StackFits
<1>9. CASE RemoveTree(r) \/ RemoveTreeFails(r)
  <2>1. /\ UNCHANGED <<mounts, base, child>> /\ pc[r] = "removing"
        /\ pc'[r] \in {"swept", "unswept"}
    BY <1>9 DEF RemoveTree, RemoveTreeFails
  <2> QED BY <1>4, <2>1 DEF StackFits
<1>10. CASE DestroyGroup(r)
  <2>1. /\ UNCHANGED <<mounts, base>> /\ pc[r] \in {"swept", "unswept"}
        /\ pc'[r] \in {"clean", "left"}
        /\ child'[r] = child[r] \/ child'[r] = End(child[r])
    BY <1>10 DEF DestroyGroup
  <2> QED BY <1>4, <2>1 DEF StackFits, End, BeforeExec
<1>11. CASE PrepareRoot(r) \/ PayloadExits(r) \/ OrphansEnd(r)
  <2>1. /\ UNCHANGED <<mounts, base, pc>>
        /\ child'[r] \in BeforeExec => child[r] \in BeforeExec
    BY <1>11 DEF PrepareRoot, PayloadExits, OrphansEnd, BeforeExec
  <2> QED BY <1>4, <2>1
<1>12. CASE BindAndExec(r)
  <2>1. UNCHANGED pc /\ child'[r] \in {"running", "failed"} /\ pc[r] \in {"spawning", "killed"}
        /\ child[r] = "prepared"
    BY <1>1, <1>12 DEF BindAndExec, ChildFits, BeforeExec
  <2>2. CASE UNCHANGED <<mounts, base>>
    BY <1>4, <2>1, <2>2 DEF BeforeExec
  <2>3. CASE Place(r) /\ Binds(r) /\ Reaches(r)
    <3>1. CASE stack # <<>> /\ ~want[r].bare
      <4> DEFINE t == [stack EXCEPT ![1].binds = @ \cup {r}]
      <4>1. mounts'[name[r]] = t /\ UNCHANGED base
        BY <1>1, <2>3, <3>1 DEF Place
      <4>2. Len(t) = Len(stack) /\ t # <<>>
        BY <1>1, <3>1, BindOnTop
      <4> QED BY <1>3, <2>1, <3>1, <4>1, <4>2 DEF StackFits, BeforeExec
    <3>2. CASE ~(stack # <<>> /\ ~want[r].bare)
      <4>1. mounts' = mounts
        BY <2>3, <3>2, Zenon DEF Place
      <4>2. Plain(r)
        BY <2>1, <3>2 DEF StackFits, BeforeExec, Plain
      <4> QED BY <1>3, <2>1, <4>1, <4>2 DEF StackFits, BeforeExec
    <3> QED BY <3>1, <3>2
  <2> QED BY <1>12, <2>2, <2>3 DEF BindAndExec, Place
<1> QED BY <1>5, <1>6, <1>7, <1>8, <1>9, <1>10, <1>11, <1>12 DEF RunStep, ChildStep

\* Nobody but r works under the name of an r that stays alone.
LEMMA AloneStays ==
  ASSUME RunTypeOK, ChildInv, [RunNext]_runVars, NEW r \in Runs, Alone(r)'
  PROVE  /\ Alone(r)
         /\ \A s \in Runs : RunStep(s) \/ ChildStep(s) \/ Kill(s) =>
              s = r \/ name[s] # name[r]
         /\ \A s \in Namesakes(r) : ~Live(s) /\ pc[s] = "idle"
<1>1. name' = name
  BY MountMoves DEF fixed
<1>2. Namesakes(r)' = Namesakes(r) /\ Namesakes(r) \subseteq Runs
  BY <1>1 DEF Namesakes
<1>3. Alone(r)
  BY <1>2, RunsBegin DEF Alone
<1>4. ASSUME NEW s \in Runs, RunStep(s) \/ ChildStep(s) \/ Kill(s)
      PROVE  s = r \/ name[s] # name[r]
  BY <1>2, <1>4, RunsBegin DEF Alone, Namesakes
<1>5. \A s \in Namesakes(r) : ~Live(s) /\ pc[s] = "idle"
  BY <1>2, <1>3 DEF Alone, ChildInv, ChildFits, Live
<1> QED BY <1>3, <1>4, <1>5

\* What excuses a run whose cleanup failed goes on to.
LEMMA ExcuseStays ==
  ASSUME RunTypeOK, ChildInv, [RunNext]_runVars, NEW r \in Runs, Excused(r)
  PROVE  Excused(r)'
<1>1. UNCHANGED fixed
  BY MountMoves
<1>2. (Plain(r) /\ Reaches(r) /\ Binds(r)) =>
        (Plain(r) /\ Reaches(r) /\ Binds(r))'
  BY <1>1 DEF fixed, Plain, Reaches, Binds, BindsHost
<1>3. ChildFits(r)
  BY DEF ChildInv
<1>4. child[r] = "reaped" => r \notin members
  BY <1>3 DEF ChildFits
<1>5. ASSUME NEW s \in Runs, s # r, RunStep(s) \/ ChildStep(s) \/ Kill(s)
      PROVE  Excused(r)'
  BY <1>2, <1>4, <1>5, OthersChild DEF Excused, End
<1>6. ASSUME RunStep(r) \/ ChildStep(r) \/ Kill(r)
      PROVE  /\ r \in abandoned => r \in abandoned'
             /\ child[r] \in {"orphaned", "reaped"} => child'[r] \in {"orphaned", "reaped"}
  <2> USE DEF fixed, files, control, RunTypeOK
  <2>1. CASE \/ Refuse(r) \/ MakeDirs(r) \/ MountOverlay(r) \/ MountFails(r)
             \/ CreateGroup(r) \/ CreateGroupFails(r) \/ CheckFails(r) \/ SpawnReturns(r)
    BY <2>1 DEF Refuse, MakeDirs, MountOverlay, MountFails, CreateGroup, CreateGroupFails,
                CheckFails, SpawnReturns
  <2>2. CASE Fork(r)
    BY <1>3, <2>2 DEF Fork, ChildFits
  <2>3. CASE \/ AddProcess(r) \/ AddProcessFails(r) \/ WriteStatus(r) \/ WriteStatusFails(r)
             \/ Wait(r) \/ Unmount(r) \/ RemoveTree(r) \/ RemoveTreeFails(r)
    BY <2>3 DEF AddProcess, AddProcessFails, WriteStatus, WriteStatusFails, Wait, Unmount,
                RemoveTree, RemoveTreeFails
  <2>4. CASE DestroyGroup(r)
    <3>1. /\ UNCHANGED abandoned
          /\ child'[r] = IF r \in InGroup(name[r]) /\ want[r].limits /\ kernel.kill THEN End(child[r])
                         ELSE child[r]
      BY <2>4 DEF DestroyGroup
    <3> QED BY <1>4, <3>1 DEF End, InGroup
  <2>5. CASE ChildStep(r)
    BY <2>5 DEF ChildStep, PrepareRoot, BindAndExec, PayloadExits, OrphansEnd
  <2>6. CASE Kill(r)
    BY <2>6 DEF Kill
  <2> QED BY <1>6, <2>1, <2>2, <2>3, <2>4, <2>5, <2>6 DEF RunStep
<1>7. CASE Reboot
  BY <1>2, <1>7 DEF Reboot, Excused, Live, End, RunTypeOK
<1>8. CASE UNCHANGED runVars
  BY <1>2, <1>8 DEF runVars, Excused
<1> QED BY <1>2, <1>5, <1>6, <1>7, <1>8 DEF RunNext, Excused

LEMMA AloneStep ==
  ASSUME RunTypeOK, ChildInv, MountInv, [RunNext]_runVars, NEW r \in Runs, Alone(r)'
  PROVE  StackFits(r)' /\ (pc'[r] \in {"unswept", "left"} => Excused(r)')
<1> USE DEF RunTypeOK
<1>1. /\ StackFits(r) /\ (pc[r] \in {"unswept", "left"} => Excused(r))
      /\ BindsFit(name[r]) /\ ChildFits(r)
  BY AloneStays DEF MountInv, AloneFits, ChildInv
<1>2. UNCHANGED fixed /\ (Plain(r)' <=> Plain(r))
  BY MountMoves DEF fixed, Plain
<1>3. CASE Reboot
  <2>1. /\ mounts'[name'[r]] = <<>> /\ base'[name'[r]] = {}
        /\ pc'[r] = pc[r] \/ pc'[r] = "killed"
        /\ pc'[r] \notin {"mounted", "ready", "spawning"}
        /\ child'[r] \notin BeforeExec
    BY <1>2, <1>3 DEF Reboot, fixed, Steps, Ended, Live, End, BeforeExec
  <2>2. StackFits(r)'
    BY <2>1 DEF StackFits
  <2> QED BY <1>1, <2>1, <2>2, ExcuseStays
<1>4. CASE UNCHANGED runVars
  <2>1. StackFits(r)'
    BY <1>1, <1>2, <1>4 DEF runVars, StackFits
  <2> QED BY <1>1, <1>4, <2>1, ExcuseStays DEF runVars
<1>5. ASSUME NEW s \in Runs, name[s] # name[r], RunStep(s) \/ ChildStep(s) \/ Kill(s)
      PROVE  StackFits(r)' /\ (pc'[r] \in {"unswept", "left"} => Excused(r)')
  <2>1. /\ mounts'[name[r]] = mounts[name[r]] /\ base'[name[r]] = base[name[r]]
        /\ name' = name /\ pc'[r] = pc[r]
        /\ child'[r] \in BeforeExec => child[r] \in BeforeExec
    BY <1>2, <1>5, OthersMounts, OthersChild DEF fixed, End, BeforeExec
  <2>2. StackFits(r)'
    BY <1>1, <1>2, <2>1 DEF StackFits
  <2> QED BY <1>1, <2>1, <2>2, ExcuseStays
<1>6. CASE Kill(r)
  <2>1. /\ UNCHANGED <<mounts, base, child>> /\ pc'[r] = "killed"
    BY <1>6 DEF Kill, StepTo, files
  <2> QED BY <1>1, <1>2, <2>1 DEF StackFits, fixed
\* A removal that fails meets a bind in the plain directory, or processes of r's own.
<1>7. ASSUME RemoveTreeFails(r) PROVE Excused(r)
  <2>1. pc[r] = "removing" /\ Obstructed(r)
    BY <1>7 DEF RemoveTreeFails
  <2>2. mounts[name[r]] = <<>>
    BY <1>1, <2>1 DEF StackFits
  <2>3. CASE Live(r)
    BY <1>1, <2>1, <2>3 DEF Live, ChildFits, Over, Excused
  <2>4. CASE base[name[r]] # {}
    <3>1. PICK t \in Runs : t \in base[name[r]]
      BY <2>4
    <3>2. t \in Theirs(name[r])
      BY <1>1, <3>1 DEF BindsFit
    <3>3. t = r
      BY <3>2, AloneStays DEF Theirs, Namesakes
    <3> QED BY <1>1, <3>1, <3>2, <3>3 DEF StackFits, Theirs, Excused
  <2>5. Live(r) \/ base[name[r]] # {}
    BY <2>1, <2>2, AloneStays DEF Obstructed, MountPoints, Namesakes
  <2> QED BY <2>3, <2>4, <2>5
<1>8. CASE RunStep(r) \/ ChildStep(r)
  <2>1. StackFits(r)'
    BY <1>1, <1>8, StackStep
  <2>2. pc'[r] \in {"unswept", "left"} => pc[r] \in {"unswept", "left"} \/ RemoveTreeFails(r)
    <3>1. CASE RunStep(r)
      BY <3>1
      DEF RunStep, Refuse, MakeDirs, MountOverlay, MountFails, CreateGroup,
          CreateGroupFails, Fork, CheckFails, SpawnReturns, AddProcess, AddProcessFails,
          WriteStatus, WriteStatusFails, Wait, Unmount, RemoveTree, DestroyGroup, StepTo
    <3>2. CASE ChildStep(r)
      BY <3>2 DEF ChildStep, PrepareRoot, BindAndExec, PayloadExits, OrphansEnd
    <3> QED BY <1>8, <3>1, <3>2
  <2> QED BY <1>1, <1>7, <2>1, <2>2, ExcuseStays
<1> QED BY <1>3, <1>4, <1>5, <1>6, <1>8, AloneStays DEF RunNext

\* Files are lost where a removal walks into a bind.
LEMMA ErasedStep ==
  ASSUME RunTypeOK, ChildInv, MountInv, [RunNext]_runVars, NEW r \in Runs
  PROVE  ErasedFits(r)'
<1>1. SUFFICES ASSUME r \in erased' PROVE Reaches(r)' /\ (Plain(r)' \/ ~Alone(r)')
  BY DEF ErasedFits
<1>2. UNCHANGED fixed /\ (Reaches(r)' <=> Reaches(r)) /\ (Plain(r)' <=> Plain(r))
  BY MountMoves DEF fixed, Reaches, Plain
<1>3. CASE r \in erased
  BY <1>2, <1>3, AloneStays DEF MountInv, ErasedFits
<1>4. CASE r \notin erased
  <2>1. PICK s \in Runs : RemoveTreeFails(s)
    <3>1. ASSUME NEW s \in Runs, RunStep(s) PROVE RemoveTreeFails(s)
      <4> USE <1>1, <1>4
      <4>1. CASE \/ Refuse(s) \/ MakeDirs(s) \/ MountOverlay(s) \/ MountFails(s)
                 \/ CreateGroup(s) \/ CreateGroupFails(s) \/ Fork(s) \/ CheckFails(s)
                 \/ SpawnReturns(s)
        BY <4>1 DEF Refuse, MakeDirs, MountOverlay, MountFails, CreateGroup,
                    CreateGroupFails, Fork, CheckFails, SpawnReturns
      <4>2. CASE \/ AddProcess(s) \/ AddProcessFails(s) \/ WriteStatus(s)
                 \/ WriteStatusFails(s) \/ Wait(s) \/ Unmount(s) \/ RemoveTree(s)
                 \/ DestroyGroup(s)
        BY <4>2 DEF AddProcess, AddProcessFails, WriteStatus, WriteStatusFails, Wait,
                    Unmount, RemoveTree, DestroyGroup
      <4> QED BY <3>1, <4>1, <4>2 DEF RunStep
    <3>2. ASSUME NEW s \in Runs, ChildStep(s) \/ Kill(s) PROVE FALSE
      BY <1>1, <1>4, <3>2
      DEF ChildStep, PrepareRoot, BindAndExec, PayloadExits, OrphansEnd, Kill
    <3>3. ~Reboot /\ ~(UNCHANGED runVars)
      BY <1>1, <1>4 DEF Reboot, runVars
    <3> QED BY <3>1, <3>2, <3>3 DEF RunNext
  <2>2. r \in Walked(name[s]) /\ pc[s] = "removing" /\ name[s] \in Names
    BY <1>1, <1>4, <2>1 DEF RemoveTreeFails, RunTypeOK
  <2>3. mounts[name[s]] \in Seq(Mount)
    BY DEF RunTypeOK, Mount
  <2>4. r \in base[name[s]] \/
        (mounts[name[s]] # <<>> /\ r \in mounts[name[s]][1].binds /\ 1 \in 1..Len(mounts[name[s]]))
    BY <2>2, <2>3 DEF Walked
  <2>5. r \in Theirs(name[s])
    BY <2>2, <2>4 DEF MountInv, BindsFit
  <2>6. ASSUME Alone(r)' PROVE Plain(r)
    <3>1. s = r
      BY <2>2, <2>5, <2>6, AloneStays DEF Theirs, Namesakes
    <3>2. StackFits(r)
      BY <2>6, AloneStays DEF MountInv, AloneFits
    <3> QED BY <2>2, <2>4, <3>1, <3>2 DEF StackFits
  <2> QED BY <1>2, <2>5, <2>6 DEF Theirs
<1> QED BY <1>3, <1>4

LEMMA MountCorrect == RunSpec => []MountInv
<1>1. RunInit => MountInv
  <2> SUFFICES ASSUME RunInit PROVE MountInv
    OBVIOUS
  <2>1. \A r \in Runs : pc[r] = "idle" /\ child[r] = "none" /\ r \notin erased
                        /\ name[r] \in Names
    BY DEF RunInit
  <2>2. \A n \in Names : mounts[n] = <<>> /\ base[n] = {}
    BY DEF RunInit
  <2>3. \A n \in Names : BindsFit(n)
    BY <2>2 DEF BindsFit
  <2>4. ASSUME NEW r \in Runs PROVE StackFits(r)
    <3>1. mounts[name[r]] = <<>> /\ r \notin base[name[r]]
      BY <2>1, <2>2
    <3>2. Len(mounts[name[r]]) = 0
      BY <3>1
    <3>3. pc[r] \notin {"mounted", "ready", "spawning"} /\ child[r] \notin BeforeExec
      BY <2>1 DEF BeforeExec
    <3> QED BY <3>1, <3>2, <3>3 DEF StackFits
  <2> QED BY <2>1, <2>3, <2>4 DEF MountInv, AloneFits, ErasedFits
<1>2. RunTypeOK /\ ChildInv /\ MountInv /\ [RunNext]_runVars => MountInv'
  <2> SUFFICES ASSUME RunTypeOK, ChildInv, MountInv, [RunNext]_runVars PROVE MountInv'
    OBVIOUS
  <2>1. \A n \in Names : BindsFit(n)'
    BY BindsStep DEF MountInv
  <2>2. \A r \in Runs : AloneFits(r)'
    BY AloneStep DEF AloneFits
  <2> QED BY <2>1, <2>2, ErasedStep DEF MountInv
<1> QED BY RunTypeCorrect, ChildCorrect, <1>1, <1>2, PTL DEF RunSpec

\* Host files are lost only from a bind that reached the host and lay in the plain
\* directory of the container, or where another run used the name.
THEOREM HostFilesAreKept == RunSpec => []HostFilesKept
<1>1. RunTypeOK /\ MountInv => HostFilesKept
  BY DEF RunTypeOK, MountInv, ErasedFits, Alone, Namesakes, HostFilesKept
<1> QED BY RunTypeCorrect, MountCorrect, <1>1, PTL

\* The cleanup of a run alone under its name fails only over such a bind, or over
\* processes of its own.
THEOREM AloneRunsCleanUp == RunSpec => []AloneLeavesNothing
<1>1. MountInv => AloneLeavesNothing
  BY DEF MountInv, AloneFits, Alone, Excused, AloneLeavesNothing
<1> QED BY MountCorrect, <1>1, PTL
----------------------------------------------------------------------------
\* GPU devices.  The devices of a host are enumerated without repetition, whatever the
\* minor numbers; that is counting, and the induction is on the least counterexample.

LEMMA LeastNumber ==
  ASSUME NEW S \in SUBSET Nat, S # {}
  PROVE  \E m \in S : \A n \in S : m <= n
<1>1. IsWellFoundedOn(OpToRel(<, Nat), Nat)
  BY NatLessThanWellFounded
<1>2. PICK m \in S : \A n \in S : ~(<<n, m>> \in OpToRel(<, Nat))
  BY <1>1, WFMin
<1>3. \A n \in S : ~(n < m)
  BY <1>2 DEF OpToRel
<1> QED BY <1>3

Below(S, x) == {y \in S : y < x}

LEMMA BelowFacts ==
  ASSUME NEW S \in SUBSET Nat, IsFiniteSet(S), NEW x
  PROVE  /\ IsFiniteSet(Below(S, x)) /\ Cardinality(Below(S, x)) \in Nat
         /\ Cardinality(S) \in Nat
         /\ x \in S => Cardinality(Below(S, x)) < Cardinality(S)
<1>1. Below(S, x) \subseteq S
  BY DEF Below
<1>2. IsFiniteSet(Below(S, x)) /\ Cardinality(Below(S, x)) \in Nat /\ Cardinality(S) \in Nat
  BY <1>1, FS_Subset, FS_CardinalityType
<1>3. x \in S => Below(S, x) # S
  BY DEF Below
<1> QED BY <1>1, <1>2, <1>3, FS_Subset

\* Every rank is that of some element.
LEMMA RankExists ==
  ASSUME NEW S \in SUBSET Nat, IsFiniteSet(S), NEW k \in Nat, k < Cardinality(S)
  PROVE  \E x \in S : Cardinality(Below(S, x)) = k
<1> DEFINE Missing == {n \in Nat : n < Cardinality(S)
                                   /\ ~ \E x \in S : Cardinality(Below(S, x)) = n}
<1>1. SUFFICES ASSUME Missing # {} PROVE FALSE
  OBVIOUS
<1>2. PICK n \in Missing : \A m \in Missing : n <= m
  BY <1>1, LeastNumber
<1>3. Cardinality(S) \in Nat /\ \A y \in S : y \in Nat
  BY FS_CardinalityType
<1>4. CASE n = 0
  <2>1. S # {}
    BY <1>2, <1>3, <1>4, FS_EmptySet
  <2>2. PICK x \in S : \A y \in S : x <= y
    BY <2>1, LeastNumber
  <2>3. \A y \in S : ~(y < x)
    BY <1>3, <2>2
  <2>4. Below(S, x) = {}
    BY <2>3 DEF Below
  <2> QED BY <1>2, <1>4, <2>4, FS_EmptySet
<1>5. CASE n # 0
  <2>1. n - 1 \in Nat /\ n - 1 < Cardinality(S) /\ n - 1 \notin Missing
    BY <1>2, <1>3, <1>5
  <2>2. PICK x \in S : Cardinality(Below(S, x)) = n - 1
    BY <2>1
  <2> DEFINE upTo == Below(S, x) \cup {x}
             above == {y \in S : x < y}
  <2>3. IsFiniteSet(upTo) /\ Cardinality(upTo) = n
    <3> DEFINE below == Below(S, x)
    <3>1. x \notin below /\ IsFiniteSet(below) /\ Cardinality(below) = n - 1
      BY <2>2, BelowFacts DEF Below
    <3> HIDE DEF below
    <3>2. IsFiniteSet(below \cup {x}) /\ Cardinality(below \cup {x}) = Cardinality(below) + 1
      BY <3>1, FS_AddElement
    <3>3. Cardinality(below \cup {x}) = n
      BY <2>1, <3>1, <3>2
    <3> QED BY <3>2, <3>3 DEF below
  <2>4. above # {}
    <3>1. S # upTo
      BY <1>2, <1>3, <2>3
    <3>2. upTo \subseteq S
      BY DEF Below
    <3>3. PICK y \in S : y \notin upTo
      BY <3>1, <3>2
    <3>4. x < y
      BY <1>3, <3>3 DEF Below
    <3> QED BY <3>4
  <2>5. PICK z \in above : \A y \in above : z <= y
    BY <2>4, LeastNumber
  <2>6. ASSUME NEW y \in S PROVE y < z <=> y < x \/ y = x
    BY <1>3, <2>5
  <2>7. Below(S, z) = upTo
    BY <2>6 DEF Below
  <2> QED BY <1>2, <2>3, <2>5, <2>7
<1> QED BY <1>4, <1>5

\* And of no other.
LEMMA RankIsInjective ==
  ASSUME NEW S \in SUBSET Nat, IsFiniteSet(S), NEW x \in S, NEW y \in S,
         Cardinality(Below(S, x)) = Cardinality(Below(S, y))
  PROVE  x = y
<1>1. ASSUME NEW u \in S, NEW v \in S, u < v
      PROVE  Cardinality(Below(S, u)) < Cardinality(Below(S, v))
  <2>1. u \in Nat /\ v \in Nat /\ \A z \in S : z \in Nat
    OBVIOUS
  <2>2. ASSUME NEW z \in Below(S, u) PROVE z \in Below(S, v)
    <3>1. z \in S /\ z < u
      BY DEF Below
    <3>2. z < v
      BY <1>1, <2>1, <3>1
    <3> QED BY <3>1, <3>2 DEF Below
  <2>3. u \in Below(S, v) /\ u \notin Below(S, u)
    BY <1>1, <2>1 DEF Below
  <2> DEFINE B == Below(S, u)
             C == Below(S, v)
  <2>4. IsFiniteSet(C) /\ Cardinality(C) \in Nat /\ Cardinality(B) \in Nat
    BY BelowFacts
  <2>5. B \in SUBSET C /\ B # C
    BY <2>2, <2>3
  <2> HIDE DEF B, C
  <2>6. Cardinality(B) <= Cardinality(C) /\ Cardinality(C) # Cardinality(B)
    BY <2>4, <2>5, FS_Subset
  <2>7. Cardinality(B) < Cardinality(C)
    BY <2>4, <2>6
  <2> QED BY <2>7 DEF B, C
<1>2. x \in Nat /\ y \in Nat
  OBVIOUS
<1>3. Cardinality(Below(S, x)) \in Nat
  BY BelowFacts
<1>4. ~(x < y) /\ ~(y < x)
  BY <1>1, <1>3
<1> QED BY <1>2, <1>4

LEMMA SortedFacts ==
  ASSUME NEW S \in SUBSET Nat, IsFiniteSet(S)
  PROVE  /\ Cardinality(S) \in Nat
         /\ DOMAIN Sorted(S) = 1..Cardinality(S)
         /\ \A i \in 1..Cardinality(S) :
              Sorted(S)[i] \in S /\ Cardinality(Below(S, Sorted(S)[i])) = i - 1
         /\ \A i, j \in 1..Cardinality(S) : Sorted(S)[i] = Sorted(S)[j] => i = j
         /\ \A x \in S : \E i \in 1..Cardinality(S) : Sorted(S)[i] = x
<1>1. Cardinality(S) \in Nat
  BY FS_CardinalityType
<1>2. ASSUME NEW i \in 1..Cardinality(S)
      PROVE  Sorted(S)[i] \in S /\ Cardinality(Below(S, Sorted(S)[i])) = i - 1
  <2>1. \E x \in S : Cardinality(Below(S, x)) = i - 1
    BY <1>1, RankExists
  <2>2. Sorted(S)[i] = CHOOSE x \in S : Cardinality(Below(S, x)) = i - 1
    BY DEF Sorted, Below
  <2> QED BY <2>1, <2>2
<1>3. DOMAIN Sorted(S) = 1..Cardinality(S)
  BY DEF Sorted
<1>4. \A i, j \in 1..Cardinality(S) : Sorted(S)[i] = Sorted(S)[j] => i = j
  BY <1>1, <1>2
<1>5. ASSUME NEW x \in S PROVE \E i \in 1..Cardinality(S) : Sorted(S)[i] = x
  <2> DEFINE rank == Cardinality(Below(S, x))
  <2>1. rank \in Nat /\ rank < Cardinality(S)
    BY BelowFacts
  <2>2. rank + 1 \in 1..Cardinality(S) /\ (rank + 1) - 1 = rank
    BY <1>1, <2>1
  <2> DEFINE y == Sorted(S)[rank + 1]
  <2>3. y \in S /\ Cardinality(Below(S, y)) = rank
    BY <1>2, <2>2
  <2> HIDE DEF y
  <2>4. y = x
    BY <2>3, RankIsInjective
  <2> QED BY <2>2, <2>4 DEF y
<1> QED BY <1>1, <1>2, <1>3, <1>4, <1>5

Devices == [vendor : {"nvidia", "amd"}, index : Nat]

\* What a host has: every device once, an AMD one with its render node or /dev/dxg,
\* the NVIDIA devices before those.
LEMMA DiscoverFacts ==
  ASSUME NEW h \in Machines
  PROVE  /\ Discover(h) \in Seq(Devices)
         /\ \A i, j \in DOMAIN Discover(h) : Discover(h)[i] = Discover(h)[j] => i = j
         /\ \A i \in DOMAIN Discover(h) :
              Discover(h)[i].vendor = "amd" /\ ~h.dxg => Discover(h)[i].index \in 0..(h.render - 1)
         /\ \A x \in h.nvidia : \E i \in DOMAIN Discover(h) :
              /\ Discover(h)[i] = Device("nvidia", x)
              /\ \A j \in DOMAIN Discover(h) : Discover(h)[j].vendor = "amd" => i < j
<1> DEFINE S == h.nvidia
           c == Cardinality(S)
           a == IF h.dxg THEN 1 ELSE h.render
           N == NvidiaDevices(h)
           A == AmdDevices(h)
<1>1. /\ S \in SUBSET Nat /\ IsFiniteSet(S) /\ h.render \in Nat /\ h.dxg \in BOOLEAN
      /\ a \in Nat
  BY MachineShape
<1>2. /\ c \in Nat
      /\ \A i \in 1..c : Sorted(S)[i] \in Nat
      /\ \A i, j \in 1..c : Sorted(S)[i] = Sorted(S)[j] => i = j
      /\ \A x \in S : \E i \in 1..c : Sorted(S)[i] = x
  BY <1>1, SortedFacts
<1>3. N = [i \in 1..c |-> [vendor |-> "nvidia", index |-> Sorted(S)[i]]]
  BY DEF NvidiaDevices, Device
<1>4. A = [i \in 1..a |-> [vendor |-> "amd", index |-> i - 1]]
  BY DEF AmdDevices, Device
<1> HIDE DEF N, A, S, c, a
<1>5. N \in [1..c -> Devices] /\ A \in [1..a -> Devices]
  BY <1>1, <1>2, <1>3, <1>4 DEF Devices
<1>6. /\ N \in Seq(Devices) /\ Len(N) = c
      /\ A \in Seq(Devices) /\ Len(A) = a
  BY <1>1, <1>2, <1>5
<1> DEFINE D == N \o A
<1>7. /\ D \in Seq(Devices) /\ DOMAIN D = 1..(c + a)
      /\ \A i \in 1..(c + a) : i <= c => D[i] = N[i]
      /\ \A i \in 1..(c + a) : i > c => D[i] = A[i - c]
  BY <1>1, <1>2, <1>6
<1>8. Discover(h) = D
  BY DEF Discover, N, A
<1> HIDE DEF D
<1>9. ASSUME NEW i \in 1..(c + a)
      PROVE  \/ i \in 1..c /\ D[i].vendor = "nvidia" /\ D[i].index = Sorted(S)[i]
             \/ i - c \in 1..a /\ D[i].vendor = "amd" /\ D[i].index = i - c - 1
  <2>1. i <= c \/ i > c
    BY <1>1, <1>2
  <2>2. CASE i <= c
    BY <1>2, <1>3, <1>7, <2>2
  <2>3. CASE i > c
    <3>1. i - c \in 1..a
      BY <1>1, <1>2, <2>3
    <3>2. D[i] = A[i - c]
      BY <1>7, <2>3
    <3>3. A[i - c] = [vendor |-> "amd", index |-> (i - c) - 1]
      BY <1>4, <3>1
    <3>4. (i - c) - 1 = i - c - 1
      BY <3>1
    <3> QED BY <3>1, <3>2, <3>3, <3>4
  <2> QED BY <2>1, <2>2, <2>3
<1>10. ASSUME NEW i \in 1..(c + a), NEW j \in 1..(c + a), D[i] = D[j]
       PROVE  i = j
  BY <1>1, <1>2, <1>9, <1>10
<1>11. ASSUME NEW i \in 1..(c + a), D[i].vendor = "amd", ~h.dxg
       PROVE  D[i].index \in 0..(h.render - 1)
  <2>1. i - c \in 1..a /\ D[i].index = i - c - 1
    BY <1>9, <1>11
  <2>2. a = h.render
    BY <1>11 DEF a
  <2> QED BY <1>1, <1>2, <2>1, <2>2
<1>12. ASSUME NEW x \in S
       PROVE  \E i \in 1..(c + a) :
                /\ D[i] = Device("nvidia", x)
                /\ \A j \in 1..(c + a) : D[j].vendor = "amd" => i < j
  <2>1. PICK i \in 1..c : Sorted(S)[i] = x
    BY <1>2
  <2>2. i \in 1..(c + a) /\ i <= c
    BY <1>1, <1>2
  <2>3. D[i] = Device("nvidia", x)
    BY <1>3, <1>7, <2>1, <2>2 DEF Device
  <2>4. ASSUME NEW j \in 1..(c + a), D[j].vendor = "amd" PROVE i < j
    <3>1. j - c \in 1..a
      BY <1>9, <2>4
    <3> QED BY <1>1, <1>2, <2>2, <3>1
  <2> QED BY <2>2, <2>3, <2>4
<1>13. h.nvidia = S
  BY DEF S
<1> QED BY <1>7, <1>8, <1>10, <1>11, <1>12, <1>13

\* The devices of a vendor, in their order, each once.
LEMMA OfVendorFacts ==
  ASSUME NEW devices \in Seq(Devices), NEW vendor,
         \A i, j \in DOMAIN devices : devices[i] = devices[j] => i = j
  PROVE  LET own == OfVendor(devices, vendor)
         IN /\ own \in Seq(Devices)
            /\ \A k \in DOMAIN own : \E i \in DOMAIN devices : own[k] = devices[i]
            /\ \A k, l \in DOMAIN own : own[k] = own[l] => k = l
<1> DEFINE S == {i \in DOMAIN devices : devices[i].vendor = vendor}
           own == OfVendor(devices, vendor)
<1>1. DOMAIN devices = 1..Len(devices) /\ Len(devices) \in Nat
  OBVIOUS
<1>2. S \in SUBSET Nat /\ S \subseteq 1..Len(devices)
  BY <1>1
<1>3. IsFiniteSet(S)
  <2>1. IsFiniteSet(1..Len(devices))
    BY <1>1, FS_Interval
  <2>2. S \in SUBSET (1..Len(devices))
    BY <1>2
  <2> QED BY ONLY <2>1, <2>2, FS_Subset
<1> DEFINE c == Cardinality(S)
<1>4. /\ c \in Nat /\ DOMAIN Sorted(S) = 1..c
      /\ \A k \in 1..c : Sorted(S)[k] \in S
      /\ \A k, l \in 1..c : Sorted(S)[k] = Sorted(S)[l] => k = l
  BY <1>2, <1>3, SortedFacts
<1>5. own = [k \in DOMAIN Sorted(S) |-> devices[Sorted(S)[k]]]
  BY DEF OfVendor
<1>6. \A k \in 1..c : Sorted(S)[k] \in DOMAIN devices
  BY <1>4
<1> HIDE DEF S, own, c
<1>7. own = [k \in 1..c |-> devices[Sorted(S)[k]]]
  BY <1>4, <1>5
<1>8. own \in [1..c -> Devices]
  BY <1>1, <1>6, <1>7
<1>9. own \in Seq(Devices) /\ DOMAIN own = 1..c
  BY <1>4, <1>8
<1>10. \A k \in 1..c : \E i \in DOMAIN devices : own[k] = devices[i]
  BY <1>6, <1>7
<1>11. \A k, l \in 1..c : own[k] = own[l] => k = l
  BY <1>4, <1>6, <1>7
<1> QED BY <1>9, <1>10, <1>11 DEF own

\* d is the first of the devices that an id matches.
IsFirstMatch(d, devices, id) ==
  \E j \in DOMAIN devices :
    /\ d = devices[j] /\ Matches(d, id)
    /\ \A k \in DOMAIN devices : Matches(devices[k], id) => j <= k

GpuRequests(h) == [count : Nat, ids : Seq(Ids(h))]

\* What select_devices answers, if anything.
LEMMA SelectFacts ==
  ASSUME NEW h \in Machines, NEW r \in GpuRequests(h), Valid(r), r.count # 0,
         Select(Discover(h), r) # <<>>
  PROVE  LET selected == Select(Discover(h), r)
         IN /\ DOMAIN selected = 1..r.count
            /\ \A i \in 1..r.count : \E j \in DOMAIN Discover(h) : selected[i] = Discover(h)[j]
            /\ r.ids # <<>> =>
                 \A i \in 1..r.count : IsFirstMatch(selected[i], Discover(h), r.ids[i])
            /\ r.ids = <<>> =>
                 \A i, j \in 1..r.count : selected[i] = selected[j] => i = j
<1> DEFINE all == Discover(h)
           selected == Select(all, r)
<1>1. /\ all \in Seq(Devices)
      /\ \A i, j \in DOMAIN all : all[i] = all[j] => i = j
  BY DiscoverFacts
<1>2. r.count \in Nat /\ r.ids \in Seq(Ids(h))
  BY DEF GpuRequests
<1> HIDE DEF all
<1>3. CASE r.ids = <<>>
  <2>1. PICK vendor \in {"nvidia", "amd"} :
          /\ Len(OfVendor(all, vendor)) >= r.count
          /\ selected = SubSeq(OfVendor(all, vendor), 1, r.count)
    <3>1. SelectCount(all, r.count) # <<>> /\ selected = SelectCount(all, r.count)
      BY <1>3 DEF Select, all
    <3> QED BY <3>1 DEF SelectCount
  <2> DEFINE own == OfVendor(all, vendor)
  <2>2. /\ own \in Seq(Devices)
        /\ \A k \in DOMAIN own : \E i \in DOMAIN all : own[k] = all[i]
        /\ \A k, l \in DOMAIN own : own[k] = own[l] => k = l
    BY <1>1, OfVendorFacts
  <2> HIDE DEF own
  <2>3. /\ DOMAIN SubSeq(own, 1, r.count) = 1..r.count
        /\ \A i \in 1..r.count : i \in DOMAIN own /\ SubSeq(own, 1, r.count)[i] = own[i]
    BY <1>2, <2>1, <2>2 DEF own
  <2>4. selected = SubSeq(own, 1, r.count)
    BY <2>1 DEF own
  <2> HIDE DEF selected
  <2>5. /\ DOMAIN selected = 1..r.count
        /\ \A i \in 1..r.count : i \in DOMAIN own /\ selected[i] = own[i]
    BY <2>3, <2>4
  <2>6. /\ \A i \in 1..r.count : \E j \in DOMAIN all : selected[i] = all[j]
        /\ \A i, j \in 1..r.count : selected[i] = selected[j] => i = j
    BY <2>2, <2>5
  <2> QED BY <1>3, <2>5, <2>6 DEF all, selected
<1>4. CASE r.ids # <<>>
  <2>1. /\ selected = [i \in DOMAIN r.ids |-> FirstMatch(all, r.ids[i])]
        /\ \A i \in DOMAIN r.ids : \E j \in DOMAIN all : Matches(all[j], r.ids[i])
    BY <1>4 DEF Select, all
  <2>2. DOMAIN r.ids = 1..r.count
    BY <1>2, <1>4 DEF Valid
  <2>3. ASSUME NEW i \in 1..r.count
        PROVE  IsFirstMatch(selected[i], all, r.ids[i])
    <3> DEFINE found == {j \in DOMAIN all : Matches(all[j], r.ids[i])}
    <3>1. found \in SUBSET Nat /\ found # {}
      BY <1>1, <2>1, <2>2
    <3>2. \E j \in found : \A k \in found : j <= k
      BY <3>1, LeastNumber
    <3>3. selected[i] = all[CHOOSE j \in found : \A k \in found : j <= k]
      BY <2>1, <2>2 DEF FirstMatch
    <3> QED BY <3>2, <3>3 DEF IsFirstMatch
  <2> HIDE DEF selected
  <2>4. DOMAIN selected = 1..r.count
    BY <2>1, <2>2 DEF selected
  <2>5. \A i \in 1..r.count : \E j \in DOMAIN all : selected[i] = all[j]
    BY <2>3 DEF IsFirstMatch
  <2> QED BY <1>4, <2>3, <2>4, <2>5 DEF all, selected
<1> QED BY <1>3, <1>4

\* The answer is what select_devices said of a request that passed the checks.
AnswerFits ==
  /\ machine \in Machines
  /\ request \in GpuRequests(machine)
  /\ answer.state = "granted" =>
       LET selected == Select(Discover(machine), request)
       IN /\ Valid(request) /\ request.count # 0
          /\ selected # <<>> /\ OneVendor(selected)
          /\ answer = Granted(selected)

LEMMA AnswerInit == GpuInit => AnswerFits
<1> SUFFICES ASSUME GpuInit PROVE AnswerFits
  OBVIOUS
<1>1. PICK count \in 0..MaxCount :
        request \in [count : {count}, ids : UNION {[1..n -> Ids(machine)] : n \in {0, count}}]
  BY DEF GpuInit
<1>2. count \in Nat
  BY MaxCountIsNat
<1>3. PICK n \in {0, count} : request.ids \in [1..n -> Ids(machine)]
  BY <1>1
<1>4. request.ids \in Seq(Ids(machine))
  BY <1>2, <1>3
<1>5. request = [count |-> request.count, ids |-> request.ids] /\ request.count = count
  BY <1>1
<1>6. request \in GpuRequests(machine)
  BY <1>2, <1>4, <1>5 DEF GpuRequests
<1> QED BY <1>6 DEF GpuInit, Unanswered, AnswerFits

LEMMA AnswerStep == AnswerFits /\ [GpuNext]_gpuVars => AnswerFits'
<1> SUFFICES ASSUME AnswerFits, [GpuNext]_gpuVars PROVE AnswerFits'
  OBVIOUS
<1>1. CASE PrepareGpu
  <2> DEFINE selected == Select(Discover(machine), request)
  <2>1. UNCHANGED <<machine, request>>
    BY <1>1 DEF PrepareGpu
  <2>2. selected' = selected /\ Granted(selected)' = Granted(selected)
    BY <2>1 DEF Granted, Nodes, NodeOf
  <2>3. answer'.state = "granted" =>
          /\ Valid(request) /\ request.count # 0 /\ selected # <<>> /\ OneVendor(selected)
          /\ answer' = Granted(selected)
    BY <1>1 DEF PrepareGpu, Unanswered
  <2> HIDE DEF selected
  <2>4. answer'.state = "granted" =>
          (/\ Valid(request) /\ request.count # 0 /\ selected # <<>> /\ OneVendor(selected)
           /\ answer = Granted(selected))'
    BY <2>1, <2>2, <2>3 DEF selected
  <2> QED BY <2>1, <2>4 DEF AnswerFits, selected
<1>2. CASE UNCHANGED gpuVars
  BY <1>2 DEF gpuVars, AnswerFits, Granted, Nodes, NodeOf
<1> QED BY <1>1, <1>2 DEF GpuNext

\* The device an id is given is the one it stands for, or it is a bare index that no
\* NVIDIA device has.
LEMMA IdsName ==
  ASSUME NEW h \in Machines, NEW id \in Ids(h), NEW d, IsFirstMatch(d, Discover(h), id),
         d # Normalized(id)
  PROVE  id.form = "index" /\ id.index \notin h.nvidia
<1> DEFINE all == Discover(h)
<1>1. PICK j \in DOMAIN all :
        /\ d = all[j] /\ Matches(d, id)
        /\ \A k \in DOMAIN all : Matches(all[k], id) => j <= k
  BY DEF IsFirstMatch
<1>2. /\ all \in Seq(Devices)
      /\ \A x \in h.nvidia : \E i \in DOMAIN all :
           /\ all[i] = Device("nvidia", x)
           /\ \A k \in DOMAIN all : all[k].vendor = "amd" => i < k
  BY DiscoverFacts
<1> HIDE DEF all
<1>3. d \in Devices /\ DOMAIN all \subseteq Nat
  BY <1>1, <1>2
<1>4. d = Device(d.vendor, id.index) /\ d.vendor \in {"nvidia", "amd"}
      /\ id.vendor \in {"any", d.vendor}
  BY <1>1, <1>3 DEF Devices, Device, Matches
<1>5. id.form # "index" => id.vendor # "any"
  BY DEF Ids
<1>6. id.form = "index" /\ id.vendor = "any" /\ d.vendor = "amd"
  <2>1. id.form = "index" => id.vendor = "any"
    BY DEF Ids
  <2> QED BY <1>4, <1>5, <2>1 DEF Normalized
<1>7. ASSUME id.index \in h.nvidia PROVE FALSE
  <2>1. PICK i \in DOMAIN all : /\ all[i] = Device("nvidia", id.index)
                               /\ \A k \in DOMAIN all : all[k].vendor = "amd" => i < k
    BY <1>2, <1>7
  <2>2. Matches(all[i], id)
    BY <1>6, <2>1 DEF Matches, Device
  <2>3. j <= i /\ i < j
    BY <1>1, <1>6, <2>1, <2>2
  <2> QED BY <1>3, <2>3
<1> QED BY <1>6, <1>7

\* Of two ids of a valid request that are given one device, one is a name and the
\* other a path, or an index.
LEMMA SpellingsDiffer ==
  ASSUME NEW h, NEW x \in Ids(h), NEW y \in Ids(h), NEW d, x # y, Matches(d, x), Matches(d, y),
         d.vendor \in {"nvidia", "amd"}
  PROVE  x.form # y.form
<1> SUFFICES ASSUME x.form = y.form PROVE FALSE
  OBVIOUS
<1>1. x.index = y.index /\ x.vendor \in {"any", d.vendor} /\ y.vendor \in {"any", d.vendor}
  BY DEF Matches
<1>2. \/ x.form = "index" /\ x.vendor = "any" /\ y.vendor = "any"
      \/ x.vendor # "any" /\ y.vendor # "any"
  BY DEF Ids
<1>3. x.vendor = y.vendor
  BY <1>1, <1>2
<1>4. /\ x = [form |-> x.form, vendor |-> x.vendor, index |-> x.index]
      /\ y = [form |-> y.form, vendor |-> y.vendor, index |-> y.index]
  BY DEF Ids
<1> QED BY <1>1, <1>3, <1>4

\* On any machine, a granted request gets devices of one vendor that its container can
\* reach; fewer than it asked for only for two spellings of one device, and another
\* than an id stands for only for a bare index that no NVIDIA device has.
THEOREM GrantsAreOfTheIds == GpuSpec => []GrantsFollowIds
<1>1. ASSUME AnswerFits PROVE GrantsFollowIds
  <2> SUFFICES ASSUME answer.state = "granted"
               PROVE  GrantsFollowIds
    BY DEF GrantsFollowIds
  <2> DEFINE all == Discover(machine)
             selected == Select(all, request)
             n == request.count
             given == [i \in DOMAIN answer.visible |-> Device(answer.vendor, answer.visible[i])]
  <2>1. /\ machine \in Machines /\ request \in GpuRequests(machine)
        /\ Valid(request) /\ n # 0 /\ selected # <<>> /\ OneVendor(selected)
        /\ answer = Granted(selected)
    BY <1>1 DEF AnswerFits
  <2>2. n \in Nat /\ n # 0 /\ 1 \in 1..n
    BY <2>1 DEF GpuRequests
  <2>3. /\ DOMAIN selected = 1..n
        /\ \A i \in 1..n : \E j \in DOMAIN all : selected[i] = all[j]
        /\ request.ids # <<>> =>
             \A i \in 1..n : IsFirstMatch(selected[i], all, request.ids[i])
        /\ request.ids = <<>> => \A i, j \in 1..n : selected[i] = selected[j] => i = j
    BY <2>1, SelectFacts
  <2>4. /\ all \in Seq(Devices)
        /\ \A i \in DOMAIN all :
             all[i].vendor = "amd" /\ ~machine.dxg => all[i].index \in 0..(machine.render - 1)
    BY <2>1, DiscoverFacts
  <2> HIDE DEF all, selected, n
  <2>5. /\ answer.vendor = selected[1].vendor /\ answer.nodes = Nodes(selected)
        /\ answer.visible = [i \in 1..n |-> selected[i].index]
    BY <2>1, <2>3 DEF Granted
  <2>6. \A i \in 1..n : /\ selected[i] \in Devices
                        /\ selected[i].vendor = answer.vendor
                        /\ selected[i].vendor = "amd" /\ ~machine.dxg =>
                             selected[i].index \in 0..(machine.render - 1)
    BY <2>1, <2>3, <2>4, <2>5 DEF OneVendor
  <2>7. /\ DOMAIN answer.visible = 1..n
        /\ \A i \in 1..n : Device(answer.vendor, answer.visible[i]) = selected[i]
    BY <2>5, <2>6 DEF Device, Devices
  <2>8. DOMAIN given = 1..n /\ \A i \in 1..n : given[i] = selected[i]
    BY <2>7
  <2>9. given \in Seq(Devices) /\ Len(given) = n
    <3>1. given = [i \in 1..n |-> Device(answer.vendor, answer.visible[i])]
      BY <2>7
    <3> HIDE DEF given
    <3>2. given \in [1..n -> Devices]
      BY <2>6, <2>8, <3>1
    <3> QED BY <2>2, <3>2
  <2>10. answer.vendor \in {"nvidia", "amd"}
    BY <2>2, <2>6 DEF Devices
  <2>11. answer.vendor = "nvidia" => answer.nodes = {NodeOf(selected[i]) : i \in 1..n}
    BY <2>3, <2>5 DEF Nodes
  <2>12. ASSUME NEW i \in 1..n PROVE NodeOf(selected[i]) \in answer.nodes
    <3>1. CASE answer.vendor = "nvidia"
      BY <2>11, <3>1
    <3>2. CASE answer.vendor = "amd" /\ machine.dxg
      <4>1. NodeOf(selected[i]) = Node("dxg", 0)
        BY <2>6, <3>2 DEF NodeOf
      <4>2. Node("dxg", 0) \in {Node("dxg", 0) : x \in {y \in {1} : machine.dxg}}
        BY <3>2
      <4> QED BY <2>5, <3>2, <4>1, <4>2 DEF Nodes
    <3>3. CASE answer.vendor = "amd" /\ ~machine.dxg
      <4>1. NodeOf(selected[i]) = Node("render", selected[i].index)
        BY <2>6, <3>3 DEF NodeOf
      <4>2. selected[i].index \in 0..(machine.render - 1)
        BY <2>6, <3>3
      <4> QED BY <2>5, <3>3, <4>1, <4>2 DEF Nodes
    <3> QED BY <2>10, <3>1, <3>2, <3>3
  <2>16. request.ids # <<>> =>
           DOMAIN request.ids = 1..n /\ \A i \in 1..n : request.ids[i] \in Ids(machine)
    <3>1. request.ids \in Seq(Ids(machine))
      BY <2>1 DEF GpuRequests
    <3>2. request.ids # <<>> => Len(request.ids) = n
      BY <2>1 DEF Valid, n
    <3> QED BY <2>2, <3>1, <3>2
  <2>13. answer.vendor = "nvidia" =>
           answer.nodes = {NodeOf(given[i]) : i \in DOMAIN given}
    BY <2>8, <2>11
  <2> HIDE DEF given
  <2>14. \A i \in DOMAIN given :
           /\ \E j \in DOMAIN all : all[j] = given[i]
           /\ NodeOf(given[i]) \in answer.nodes
           /\ request.ids # <<>> /\ given[i] # Normalized(request.ids[i]) =>
                request.ids[i].form = "index" /\ request.ids[i].index \notin machine.nvidia
    <3> SUFFICES ASSUME NEW i \in 1..n
                 PROVE  /\ \E j \in DOMAIN all : all[j] = selected[i]
                        /\ NodeOf(selected[i]) \in answer.nodes
                        /\ request.ids # <<>> /\ selected[i] # Normalized(request.ids[i]) =>
                             /\ request.ids[i].form = "index"
                             /\ request.ids[i].index \notin machine.nvidia
      BY <2>8
    <3>1. ASSUME request.ids # <<>>, selected[i] # Normalized(request.ids[i])
          PROVE  request.ids[i].form = "index" /\ request.ids[i].index \notin machine.nvidia
      <4>1. request.ids[i] \in Ids(machine)
        BY <2>16, <3>1
      <4>2. IsFirstMatch(selected[i], Discover(machine), request.ids[i])
        BY <2>3, <3>1 DEF all
      <4> QED BY <2>1, <3>1, <4>1, <4>2, IdsName
    <3> QED BY <2>3, <2>12, <3>1
  <2>15. \A i, j \in DOMAIN given :
           i # j /\ given[i] = given[j] =>
             request.ids # <<>> /\ request.ids[i].form # request.ids[j].form
    <3> SUFFICES ASSUME NEW i \in 1..n, NEW j \in 1..n, i # j, selected[i] = selected[j]
                 PROVE  request.ids # <<>> /\ request.ids[i].form # request.ids[j].form
      BY <2>8
    <3>1. request.ids # <<>>
      BY <2>3
    <3>2. /\ request.ids[i] \in Ids(machine) /\ request.ids[j] \in Ids(machine)
          /\ request.ids[i] # request.ids[j]
      BY <2>1, <2>16, <3>1 DEF Valid
    <3>3. Matches(selected[i], request.ids[i]) /\ Matches(selected[i], request.ids[j])
      BY <2>3, <3>1 DEF IsFirstMatch
    <3>4. selected[i].vendor \in {"nvidia", "amd"}
      BY <2>6 DEF Devices
    <3> QED BY <3>1, <3>2, <3>3, <3>4, SpellingsDiffer
  <2> QED BY <2>9, <2>13, <2>14, <2>15 DEF GrantsFollowIds, given, all, n
<1> QED BY AnswerInit, AnswerStep, <1>1, PTL DEF GpuSpec
============================================================================
