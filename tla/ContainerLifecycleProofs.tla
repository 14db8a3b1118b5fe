---------------------- MODULE ContainerLifecycleProofs ----------------------
(***************************************************************************)
(* Type correctness of ContainerLifecycle, and what the two files may say: *)
(* nobody is ever told of an exit that has not happened, "running" is only *)
(* said while somebody is left to correct it, and an exit is the last word *)
(* on a run.  All of it holds for every number of clients and runs and     *)
(* whatever failures are injected.                                         *)
(***************************************************************************)
EXTENDS MCContainerLifecycle, FiniteSetTheorems, TLAPS

\* TypeOK is inductive by itself.
LEMMA Values ==
    /\ NoCopy \in Records
    /\ \A r \in Runs : SupervisorPid(r) \in Pids /\ PayloadPid(r) \in Pids
    /\ \A s \in States, p \in Pids \cup {NoPid}, e \in Exits : View(s, p, e) \in Records
    /\ \A s \in {"Running", "Exited", "Torn"}, p \in Pids, e \in Exits :
            View(s, p, e) \in Statuses
    /\ \A v \in Records : v.state \in States /\ v.pid \in Pids \cup {NoPid} /\ v.exit \in Exits
    /\ \A v \in Statuses : v.state \in {"Running", "Exited"} => v \in Records
    /\ Absent.state = "Absent"
    /\ NoExit \in Exits /\ FailureCode \in Exits
    /\ \A p \in Pids : p # NoPid /\ p.run \in Runs
BY ExitAssumption
DEF View, Absent, NoCopy, NoPid, Records, Statuses, States, Exits, Pids,
    SupervisorPid, PayloadPid

LEMMA TypeInit == Init => TypeOK
BY Values, ExitAssumption
DEF Init, TypeOK, NoCopy, Exits, SupervisorStates, PayloadStates, Commands, PCs, Returned

LEMMA TypeStep == TypeOK /\ [Next]_vars => TypeOK'
<1> SUFFICES ASSUME TypeOK, [Next]_vars PROVE TypeOK'
  OBVIOUS
<1> USE Values
<1> USE DEF TypeOK, States, Exits, SupervisorStates, PayloadStates, Preparing, Attending,
            Dead, Unwaited, Commands, PCs, Returned, Goto, Return, SupervisorGoto, Terminate,
            files, procs, clients
<1>1. ASSUME NEW c \in Clients, Begin(c) PROVE TypeOK'
  BY <1>1 DEF Begin
<1>2. ASSUME NEW c \in Clients, Load(c) PROVE TypeOK'
  BY <1>2, ZenonT(60) DEF Load
<1>3. ASSUME NEW c \in Clients, ReadStatus(c) PROVE TypeOK'
  BY <1>3, ZenonT(60) DEF ReadStatus
<1>4. ASSUME NEW c \in Clients, ProbeProcess(c) PROVE TypeOK'
  <2>1. View("Exited", local[c].pid, local[c].exit) \in Records
    OBVIOUS
  <2>2. local' \in [Clients -> Records]
    BY <1>4, <2>1 DEF ProbeProcess
  <2>3. pc' \in [Clients -> PCs]
    BY <1>4 DEF ProbeProcess
  <2> QED
    BY <1>4, <2>2, <2>3 DEF ProbeProcess
<1>5. ASSUME NEW c \in Clients, SaveRecord(c) PROVE TypeOK'
  <2>1. local' \in [Clients -> Records] /\ pc' \in [Clients -> PCs]
    BY <1>5, ZenonT(60) DEF SaveRecord
  <2>2. record' \in Records \cup {Absent}
    BY <1>5 DEF SaveRecord
  <2> QED
    BY <1>5, <2>1, <2>2 DEF SaveRecord
<1>6. ASSUME NEW c \in Clients, PsReturns(c) PROVE TypeOK'
  BY <1>6 DEF PsReturns
<1>7. ASSUME NEW c \in Clients, MarkStarting(c) PROVE TypeOK'
  <2>1. View("Starting", local[c].pid, NoExit) \in Records
    OBVIOUS
  <2>2. local' \in [Clients -> Records] /\ pc' \in [Clients -> PCs]
    BY <1>7, <2>1, ZenonT(60) DEF MarkStarting
  <2>3. record' \in Records \cup {Absent}
    BY <1>7, <2>1 DEF MarkStarting
  <2> QED
    BY <1>7, <2>2, <2>3 DEF MarkStarting
<1>8. ASSUME NEW c \in Clients, SpawnSupervisor(c) PROVE TypeOK'
  <2>1. ASSUME NEW r \in Runs,
               supervisor' = [supervisor EXCEPT ![r] = "boot"],
               local' = [local EXCEPT ![c] = View(@.state, SupervisorPid(r), @.exit)],
               Goto(c, "publish")
        PROVE  /\ supervisor' \in [Runs -> SupervisorStates]
               /\ local' \in [Clients -> Records]
               /\ pc' \in [Clients -> PCs]
    <3>1. View(local[c].state, SupervisorPid(r), local[c].exit) \in Records
      OBVIOUS
    <3> QED
      BY <2>1, <3>1
  <2>2. ASSUME Return(c, "err"), UNCHANGED supervisor
        PROVE  /\ supervisor' \in [Runs -> SupervisorStates]
               /\ local' \in [Clients -> Records]
               /\ pc' \in [Clients -> PCs]
    BY <2>2
  <2>3. /\ supervisor' \in [Runs -> SupervisorStates]
        /\ local' \in [Clients -> Records]
        /\ pc' \in [Clients -> PCs]
    BY <1>8, <2>1, <2>2 DEF SpawnSupervisor
  <2> QED
    BY <1>8, <2>3 DEF SpawnSupervisor
<1>9. ASSUME NEW c \in Clients, PublishPid(c) PROVE TypeOK'
  <2>1. record' \in Records \cup {Absent}
    BY <1>9 DEF PublishPid
  <2>2. local' \in [Clients -> Records] /\ pc' \in [Clients -> PCs]
    BY <1>9 DEF PublishPid
  <2> QED
    BY <1>9, <2>1, <2>2 DEF PublishPid
<1>10. ASSUME NEW c \in Clients, NothingToStop(c) PROVE TypeOK'
  BY <1>10 DEF NothingToStop
<1>11. ASSUME NEW c \in Clients, SendSignal(c) PROVE TypeOK'
  <2>1. local' \in [Clients -> Records] /\ pc' \in [Clients -> PCs]
    <3>1. /\ local' = local \/ local' = [local EXCEPT ![c] = NoCopy]
          /\ \E l \in {"refresh", "err"} : pc' = [pc EXCEPT ![c] = l]
      BY <1>11 DEF SendSignal
    <3> QED
      BY <3>1
  <2>2. cmd' \in [Clients -> Commands \cup {"await"}]
    BY <1>11 DEF SendSignal
  <2>3. \/ UNCHANGED <<supervisor, payload>>
        \/ local[c].pid \in Pids /\ Terminate(local[c].pid.run, "stopped")
    <3>1. NoPid.kind # "supervisor"
      BY DEF NoPid
    <3> QED
      BY <1>11, <3>1 DEF SendSignal
  <2>4. /\ supervisor' \in [Runs -> SupervisorStates]
        /\ payload' \in [Runs -> PayloadStates]
    <3>1. ASSUME NEW r \in Runs, Terminate(r, "stopped")
          PROVE  /\ supervisor' \in [Runs -> SupervisorStates]
                 /\ payload' \in [Runs -> PayloadStates]
      BY <3>1
    <3>2. \A p \in Pids : p.run \in Runs
      OBVIOUS
    <3> QED
      BY <2>3, <3>1, <3>2
  <2> QED
    BY <1>11, <2>1, <2>2, <2>4 DEF SendSignal
<1>12. ASSUME NEW c \in Clients, StopReturns(c) PROVE TypeOK'
  BY <1>12 DEF StopReturns
<1>13. ASSUME NEW c \in Clients, PollAgain(c) PROVE TypeOK'
  BY <1>13 DEF PollAgain
<1>14. ASSUME NEW c \in Clients, StopTimesOut(c) PROVE TypeOK'
  BY <1>14 DEF StopTimesOut
<1>15. ASSUME NEW c \in Clients, UnlinkFirst(c) \/ UnlinkOther(c) PROVE TypeOK'
  BY <1>15, ZenonT(60) DEF UnlinkFirst, UnlinkOther, Unlink
<1>16. ASSUME NEW c \in Clients, RemoveDir(c) PROVE TypeOK'
  BY <1>16, ZenonT(60) DEF RemoveDir
<1>17. ASSUME NEW c \in Clients, ClientDies(c) PROVE TypeOK'
  BY <1>17 DEF ClientDies
<1>18. ASSUME NEW r \in Runs, LoadRecord(r) PROVE TypeOK'
  BY <1>18 DEF LoadRecord
<1>19. ASSUME NEW r \in Runs, WriteRunningStatus(r) PROVE TypeOK'
  <2>1. View("Running", SupervisorPid(r), NoExit) \in Statuses
    OBVIOUS
  <2>2. status' \in Statuses \cup {Absent}
    BY <1>19, <2>1 DEF WriteRunningStatus
  <2>3. supervisor' \in [Runs -> SupervisorStates] /\ writers' \subseteq Runs
    BY <1>19 DEF WriteRunningStatus
  <2> QED
    BY <1>19, <2>2, <2>3 DEF WriteRunningStatus
<1>20. ASSUME NEW r \in Runs, WriteRunningRecord(r) PROVE TypeOK'
  <2>1. View("Running", SupervisorPid(r), result[r]) \in Records
    OBVIOUS
  <2>2. record' \in Records \cup {Absent}
    BY <1>20, <2>1 DEF WriteRunningRecord
  <2>3. supervisor' \in [Runs -> SupervisorStates] /\ writers' \subseteq Runs
    BY <1>20 DEF WriteRunningRecord
  <2> QED
    BY <1>20, <2>2, <2>3 DEF WriteRunningRecord
<1>21. ASSUME NEW r \in Runs, PrepareFails(r) PROVE TypeOK'
  BY <1>21 DEF PrepareFails
<1>22. ASSUME NEW r \in Runs, SpawnPayload(r) PROVE TypeOK'
  BY <1>22 DEF SpawnPayload
<1>23. ASSUME NEW r \in Runs, TruncateStatus(r) PROVE TypeOK'
  BY <1>23 DEF TruncateStatus
<1>24. ASSUME NEW r \in Runs, WriteRuntimeStatus(r) PROVE TypeOK'
  BY <1>24 DEF WriteRuntimeStatus
<1>25. ASSUME NEW r \in Runs, AbandonPayload(r) PROVE TypeOK'
  BY <1>25 DEF AbandonPayload
<1>26. ASSUME NEW r \in Runs, ReapPayload(r) PROVE TypeOK'
  BY <1>26 DEF ReapPayload
<1>27. ASSUME NEW r \in Runs, ReportExit(r) PROVE TypeOK'
  <2>1. View("Exited", SupervisorPid(r), result[r]) \in Statuses
    OBVIOUS
  <2>2. status' \in Statuses \cup {Absent}
    BY <1>27, <2>1 DEF ReportExit
  <2>3. supervisor' \in [Runs -> SupervisorStates] /\ writers' \subseteq Runs
    BY <1>27 DEF ReportExit
  <2> QED
    BY <1>27, <2>2, <2>3 DEF ReportExit
<1>28. ASSUME NEW r \in Runs, PayloadExits(r) PROVE TypeOK'
  BY <1>28 DEF PayloadExits
<1>29. ASSUME NEW r \in Runs, KillSupervisor(r) PROVE TypeOK'
  BY <1>29 DEF KillSupervisor
<1>30. CASE Reboot
  BY <1>30 DEF Reboot, Returned
<1>31. CASE UNCHANGED vars
  BY <1>31 DEF vars
<1> QED
  BY <1>1, <1>2, <1>3, <1>4, <1>5, <1>6, <1>7, <1>8, <1>9, <1>10, <1>11, <1>12, <1>13, <1>14, <1>15, <1>16, <1>17, <1>18, <1>19, <1>20, <1>21, <1>22, <1>23, <1>24, <1>25, <1>26, <1>27, <1>28, <1>29, <1>30, <1>31
  DEF Next, ClientStep, SupervisorStep

\* The files, the process table and every command's copy always hold values of
\* their types: in particular no command ever takes over a torn status.
THEOREM TypeCorrect == Spec => []TypeOK
BY TypeInit, TypeStep, PTL DEF Spec

-----------------------------------------------------------------------------
(***************************************************************************)
(* ReportedExitIsReal is not inductive: ReportExit needs to know that no   *)
(* payload is alive by then, and ProbeProcess that a pid that no longer    *)
(* exists is one whose run got past the spawn of its payload.              *)
(***************************************************************************)

\* A payload its supervisor has not lost has a supervisor attending to it.
AliveIsAttended == \A r \in Runs : payload[r] = "alive" => supervisor[r] \in Attending

\* A supervisor attends only to a payload it has spawned.
AttendedWasSpawned == \A r \in Runs : supervisor[r] \in Attending => payload[r] # "none"

Past(r) == supervisor[r] \in Attending \cup Dead \cup {"reporting"}

\* Nobody knows the pid of a payload before it is spawned.
PidIsKnown(v) == v.pid.kind = "payload" => Past(v.pid.run)

PidsAreKnown ==
    PidIsKnown(record) /\ PidIsKnown(status) /\ \A c \in Clients : PidIsKnown(local[c])

\* A command probes only a pid it has, and spawns only what it marked starting.
CopyFitsStep == \A c \in Clients :
    /\ pc[c] = "probe" => local[c].pid # NoPid
    /\ pc[c] = "spawn" => local[c].state = "Starting"

IInv ==
    /\ AliveIsAttended
    /\ AttendedWasSpawned
    /\ PidsAreKnown
    /\ CopyFitsStep
    /\ ReportedExitIsReal

\* The runs a payload pid may name, and the runs an exit may be reported of.
PastRuns == {r \in Runs : Past(r)}
OverRuns == {r \in Runs : Over(r)}

\* Runs only ever get further, and the two facts about payloads are kept.
LEMMA RunsAdvance ==
    ASSUME TypeOK, AliveIsAttended, AttendedWasSpawned, [Next]_vars
    PROVE  /\ AliveIsAttended' /\ AttendedWasSpawned'
           /\ PastRuns \subseteq PastRuns' /\ OverRuns \subseteq OverRuns'
<1> USE DEF TypeOK, AliveIsAttended, AttendedWasSpawned, PastRuns, OverRuns, Past, Over,
            Attending, Dead, PayloadStates, Unwaited, SupervisorGoto, Terminate
<1>1. ASSUME UNCHANGED procs
      PROVE  /\ AliveIsAttended' /\ AttendedWasSpawned'
             /\ PastRuns \subseteq PastRuns' /\ OverRuns \subseteq OverRuns'
  BY <1>1 DEF procs
<1> DEFINE Advance == /\ AliveIsAttended' /\ AttendedWasSpawned'
                      /\ PastRuns \subseteq PastRuns' /\ OverRuns \subseteq OverRuns'
<1>2. ASSUME NEW r \in Runs, NEW how \in {"stopped", "killed"}, Terminate(r, how)
      PROVE  Advance
  BY <1>2
<1>3. ASSUME NEW c \in Clients, SpawnSupervisor(c) PROVE Advance
  BY <1>3 DEF SpawnSupervisor
<1>4. ASSUME NEW c \in Clients, SendSignal(c) PROVE Advance
  <2>1. \/ UNCHANGED <<supervisor, payload>>
        \/ /\ local[c].pid \in Pids
           /\ Terminate(local[c].pid.run, "stopped")
    <3>1. NoPid.kind # "supervisor"
      BY DEF NoPid
    <3> QED
      BY <1>4, <3>1, Values DEF SendSignal
  <2> QED
    BY <1>2, <2>1, Values
<1>5. ASSUME NEW r \in Runs, LoadRecord(r) PROVE Advance
  BY <1>5 DEF LoadRecord, files, clients
<1>6. ASSUME NEW r \in Runs, WriteRunningStatus(r) PROVE Advance
  BY <1>6 DEF WriteRunningStatus, files, clients
<1>7. ASSUME NEW r \in Runs, WriteRunningRecord(r) PROVE Advance
  BY <1>7 DEF WriteRunningRecord, files, clients
<1>8. ASSUME NEW r \in Runs, PrepareFails(r) PROVE Advance
  BY <1>8 DEF PrepareFails, files, clients
<1>9. ASSUME NEW r \in Runs, SpawnPayload(r) PROVE Advance
  BY <1>9 DEF SpawnPayload, files, clients
<1>10. ASSUME NEW r \in Runs, TruncateStatus(r) PROVE Advance
  BY <1>10 DEF TruncateStatus, files, clients
<1>11. ASSUME NEW r \in Runs, WriteRuntimeStatus(r) PROVE Advance
  BY <1>11 DEF WriteRuntimeStatus, files, clients
<1>12. ASSUME NEW r \in Runs, AbandonPayload(r) PROVE Advance
  BY <1>12 DEF AbandonPayload, files, clients
<1>13. ASSUME NEW r \in Runs, ReapPayload(r) PROVE Advance
  BY <1>13 DEF ReapPayload, files, clients
<1>14. ASSUME NEW r \in Runs, ReportExit(r) PROVE Advance
  BY <1>14 DEF ReportExit, files, clients
<1>15. ASSUME NEW r \in Runs, PayloadExits(r) PROVE Advance
  BY <1>15 DEF PayloadExits, files, clients
<1>16. ASSUME NEW r \in Runs, KillSupervisor(r) PROVE Advance
  BY <1>16 DEF KillSupervisor, files, clients
<1>17. CASE Reboot
  BY <1>17 DEF Reboot
<1>18. ASSUME NEW c \in Clients,
             Begin(c) \/ Load(c) \/ ReadStatus(c) \/ ProbeProcess(c) \/ SaveRecord(c)
             \/ PsReturns(c) \/ MarkStarting(c) \/ PublishPid(c) \/ NothingToStop(c)
             \/ StopReturns(c) \/ PollAgain(c) \/ StopTimesOut(c) \/ UnlinkFirst(c)
             \/ UnlinkOther(c) \/ RemoveDir(c) \/ ClientDies(c)
      PROVE  UNCHANGED procs
  BY <1>18 DEF Begin, Load, ReadStatus, ProbeProcess, SaveRecord, PsReturns, MarkStarting,
              PublishPid, NothingToStop, StopReturns, PollAgain, StopTimesOut, UnlinkFirst, UnlinkOther, Unlink,
              RemoveDir, ClientDies
<1> HIDE DEF Advance
<1> QED
  BY <1>1, <1>2, <1>3, <1>4, <1>5, <1>6, <1>7, <1>8, <1>9, <1>10, <1>11, <1>12, <1>13, <1>14, <1>15, <1>16, <1>17, <1>18 DEF Next, ClientStep, SupervisorStep, vars, Advance

\* What a report may say, in terms of the two sets of runs.
Honest(v) ==
    /\ v.pid.kind = "payload" => v.pid.run \in PastRuns
    /\ v.state = "Exited" => v.pid # NoPid /\ v.pid.run \in OverRuns

AllHonest == Honest(record) /\ Honest(status) /\ \A c \in Clients : Honest(local[c])

LEMMA HonestViews == TypeOK => (PidsAreKnown /\ ReportedExitIsReal <=> AllHonest)
<1> SUFFICES ASSUME TypeOK PROVE PidsAreKnown /\ ReportedExitIsReal <=> AllHonest
  OBVIOUS
<1>1. ASSUME NEW v, v.pid \in Pids \cup {NoPid}
      PROVE  PidIsKnown(v) /\ ExitIsReal(v) <=> Honest(v)
  <2>1. NoPid.kind # "payload"
    BY DEF NoPid
  <2> QED
    BY <1>1, <2>1, Values DEF PidIsKnown, ExitIsReal, Honest, PastRuns, OverRuns
<1>2. /\ record.pid \in Pids \cup {NoPid} /\ status.pid \in Pids \cup {NoPid}
      /\ \A c \in Clients : local[c].pid \in Pids \cup {NoPid}
  BY DEF TypeOK, Records, Statuses, Absent, View
<1> QED
  BY <1>1, <1>2 DEF PidsAreKnown, ReportedExitIsReal, AllHonest

LEMMA HonestStep ==
    ASSUME TypeOK, AllHonest, CopyFitsStep, AttendedWasSpawned, AliveIsAttended, [Next]_vars,
           PastRuns \subseteq PastRuns', OverRuns \subseteq OverRuns'
    PROVE  AllHonest' /\ CopyFitsStep'
<1> DEFINE Kept == AllHonest' /\ CopyFitsStep'
<1> USE DEF TypeOK, AllHonest, Honest, CopyFitsStep, View, NoCopy, Absent, NoPid, PayloadPid,
            SupervisorPid, Goto, Return, files, procs, clients
<1>1. ASSUME NEW c \in Clients, Begin(c) PROVE Kept
  BY <1>1 DEF Begin
<1>2. ASSUME NEW c \in Clients, Load(c) PROVE Kept
  BY <1>2 DEF Load
<1>3. ASSUME NEW c \in Clients, ReadStatus(c) PROVE Kept
  BY <1>3 DEF ReadStatus
<1>4. ASSUME NEW c \in Clients, ProbeProcess(c) PROVE Kept
  <2> DEFINE p == local[c].pid
  <2>1. p \in Pids /\ p.run \in Runs
    BY <1>4, Values DEF ProbeProcess
  <2>2. ASSUME ~ProcessExists(p) PROVE p.run \in OverRuns
    <3>1. CASE p.kind = "supervisor"
      BY <2>1, <2>2, <3>1
      DEF ProcessExists, OverRuns, Over, Dead, Attending, AliveIsAttended
    <3>2. CASE p.kind = "payload"
      <4>1. p.run \in PastRuns
        BY <3>2
      <4> QED
        BY <2>1, <2>2, <3>2, <4>1
        DEF ProcessExists, PastRuns, Past, OverRuns, Over, Dead, Attending, PayloadStates,
            AttendedWasSpawned
    <3> QED
      BY <2>1, <3>1, <3>2 DEF Pids
  <2>3. CASE ProcessExists(p)
    BY <1>4, <2>3 DEF ProbeProcess
  <2>4. CASE ~ProcessExists(p)
    BY <1>4, <2>1, <2>2, <2>4 DEF ProbeProcess
  <2> QED
    BY <2>3, <2>4
<1>5. ASSUME NEW c \in Clients, SaveRecord(c) PROVE Kept
  BY <1>5 DEF SaveRecord
<1>6. ASSUME NEW c \in Clients, PsReturns(c) PROVE Kept
  BY <1>6 DEF PsReturns
<1>7. ASSUME NEW c \in Clients, MarkStarting(c) PROVE Kept
  BY <1>7 DEF MarkStarting
<1>8. ASSUME NEW c \in Clients, SpawnSupervisor(c) PROVE Kept
  BY <1>8 DEF SpawnSupervisor
<1>9. ASSUME NEW c \in Clients, PublishPid(c) PROVE Kept
  BY <1>9 DEF PublishPid
<1>10. ASSUME NEW c \in Clients, NothingToStop(c) PROVE Kept
  BY <1>10 DEF NothingToStop
<1>11. ASSUME NEW c \in Clients, SendSignal(c) PROVE Kept
  BY <1>11 DEF SendSignal
<1>12. ASSUME NEW c \in Clients, StopReturns(c) PROVE Kept
  BY <1>12 DEF StopReturns
<1>13. ASSUME NEW c \in Clients, PollAgain(c) PROVE Kept
  BY <1>13 DEF PollAgain
<1>14. ASSUME NEW c \in Clients, StopTimesOut(c) PROVE Kept
  BY <1>14 DEF StopTimesOut
<1>15. ASSUME NEW c \in Clients, UnlinkFirst(c) \/ UnlinkOther(c) PROVE Kept
  BY <1>15 DEF UnlinkFirst, UnlinkOther, Unlink
<1>16. ASSUME NEW c \in Clients, RemoveDir(c) PROVE Kept
  BY <1>16 DEF RemoveDir
<1>17. ASSUME NEW c \in Clients, ClientDies(c) PROVE Kept
  BY <1>17 DEF ClientDies
<1>18. ASSUME NEW r \in Runs, LoadRecord(r) PROVE Kept
  BY <1>18 DEF LoadRecord
<1>19. ASSUME NEW r \in Runs, WriteRunningStatus(r) PROVE Kept
  BY <1>19 DEF WriteRunningStatus
<1>20. ASSUME NEW r \in Runs, WriteRunningRecord(r) PROVE Kept
  BY <1>20 DEF WriteRunningRecord
<1>21. ASSUME NEW r \in Runs, PrepareFails(r) PROVE Kept
  BY <1>21 DEF PrepareFails
<1>22. ASSUME NEW r \in Runs, SpawnPayload(r) PROVE Kept
  BY <1>22 DEF SpawnPayload
<1>23. ASSUME NEW r \in Runs, TruncateStatus(r) PROVE Kept
  <2>1. r \in PastRuns
    BY <1>23 DEF TruncateStatus, PastRuns, Past, Attending
  <2> QED
    BY <1>23, <2>1 DEF TruncateStatus
<1>24. ASSUME NEW r \in Runs, WriteRuntimeStatus(r) PROVE Kept
  <2>1. r \in PastRuns
    BY <1>24 DEF WriteRuntimeStatus, PastRuns, Past, Attending
  <2> QED
    BY <1>24, <2>1 DEF WriteRuntimeStatus
<1>25. ASSUME NEW r \in Runs, AbandonPayload(r) PROVE Kept
  BY <1>25 DEF AbandonPayload
<1>26. ASSUME NEW r \in Runs, ReapPayload(r) PROVE Kept
  BY <1>26 DEF ReapPayload
<1>27. ASSUME NEW r \in Runs, ReportExit(r) PROVE Kept
  <2>1. r \in OverRuns'
    BY <1>27 DEF ReportExit, OverRuns, Over, Dead, Attending, AliveIsAttended, SupervisorGoto
  <2> QED
    BY <1>27, <2>1 DEF ReportExit
<1>28. ASSUME NEW r \in Runs, PayloadExits(r) PROVE Kept
  BY <1>28 DEF PayloadExits
<1>29. ASSUME NEW r \in Runs, KillSupervisor(r) PROVE Kept
  BY <1>29 DEF KillSupervisor
<1>30. CASE Reboot
  BY <1>30 DEF Reboot, Returned
<1>31. CASE UNCHANGED vars
  BY <1>31 DEF vars
<1> HIDE DEF Kept
<1> QED
  BY <1>1, <1>2, <1>3, <1>4, <1>5, <1>6, <1>7, <1>8, <1>9, <1>10, <1>11, <1>12, <1>13, <1>14, <1>15, <1>16, <1>17, <1>18, <1>19, <1>20, <1>21, <1>22, <1>23, <1>24, <1>25, <1>26, <1>27, <1>28, <1>29, <1>30, <1>31 DEF Next, ClientStep, SupervisorStep, Kept

LEMMA IInvInit == Init => IInv
BY DEF Init, IInv, AliveIsAttended, AttendedWasSpawned, PidsAreKnown, PidIsKnown,
       CopyFitsStep, ReportedExitIsReal, ExitIsReal, View, Absent, NoCopy, NoPid, Attending

LEMMA IInvStep == TypeOK /\ IInv /\ [Next]_vars => IInv'
<1> SUFFICES ASSUME TypeOK, IInv, [Next]_vars PROVE IInv'
  OBVIOUS
<1>1. TypeOK'
  BY TypeStep
<1>2. /\ AliveIsAttended' /\ AttendedWasSpawned'
      /\ PastRuns \subseteq PastRuns' /\ OverRuns \subseteq OverRuns'
  BY RunsAdvance DEF IInv
<1>3. AllHonest
  BY HonestViews DEF IInv
<1>4. AllHonest' /\ CopyFitsStep'
  BY <1>2, <1>3, HonestStep DEF IInv
<1>5. TypeOK' => (PidsAreKnown' /\ ReportedExitIsReal' <=> AllHonest')
  BY HonestViews, PTL
<1> QED
  BY <1>1, <1>2, <1>4, <1>5 DEF IInv

\* Nobody is told of an exit that has not happened: when container.json,
\* status.json or the copy a start, stop, rm or ps acts on says "exited", the
\* supervisor of the run it names has nothing left to wait for.  For any number
\* of commands running at once, any number of restarts, and any failure.
THEOREM ReportedExitsAreReal == Spec => []ReportedExitIsReal
<1>1. TypeOK /\ IInv /\ [Next]_vars => IInv'
  BY IInvStep
<1>2. IInv => ReportedExitIsReal
  BY DEF IInv
<1> QED
  BY TypeCorrect, IInvInit, <1>1, <1>2, PTL DEF Spec

-----------------------------------------------------------------------------
(***************************************************************************)
(* RunningStatusHasWriter needs to know why a supervisor that finds the    *)
(* directory gone may end without a word: its status is gone with it.  And *)
(* who still has a file open that was taken from the path writes to no     *)
(* other.                                                                  *)
(***************************************************************************)
NoStatusWithoutDir == ~dir => status = Absent

OpenIsUnreported == writers # {} => status.state \in {"Running", "Torn"}

WriterInv == RunningStatusHasWriter /\ NoStatusWithoutDir /\ OpenIsUnreported

LEMMA WriterInit == Init => WriterInv
BY DEF Init, WriterInv, RunningStatusHasWriter, NoStatusWithoutDir, OpenIsUnreported, Absent, View

\* A step that writes neither file and ends no supervisor well changes nothing.
LEMMA WriterKept ==
    ASSUME WriterInv, UNCHANGED <<dir, status>>, writers' \subseteq writers,
           \A r \in Runs : supervisor'[r] = supervisor[r]
               \/ supervisor[r] = "none" \/ supervisor'[r] \notin {"none", "boot", "loaded", "done", "unwritten"},
           status.state \in {"Running", "Torn"} => status.pid.run \in Runs
    PROVE  WriterInv'
BY DEF WriterInv, RunningStatusHasWriter, NoStatusWithoutDir, OpenIsUnreported

LEMMA WriterStep == TypeOK /\ WriterInv /\ [Next]_vars => WriterInv'
<1> SUFFICES ASSUME TypeOK, WriterInv, [Next]_vars PROVE WriterInv'
  OBVIOUS
<1>0. status.state \in {"Running", "Torn"} => status.pid.run \in Runs
  BY Values DEF TypeOK, Statuses
<1> USE DEF files, procs, clients, SupervisorGoto, Goto, Return
<1>1. ASSUME NEW c \in Clients,
             Begin(c) \/ Load(c) \/ ReadStatus(c) \/ ProbeProcess(c) \/ SaveRecord(c)
             \/ PsReturns(c) \/ MarkStarting(c) \/ PublishPid(c) \/ NothingToStop(c)
             \/ StopReturns(c) \/ PollAgain(c) \/ StopTimesOut(c) \/ ClientDies(c)
      PROVE  WriterInv'
  <2>1. UNCHANGED <<dir, status, writers, supervisor>>
    BY <1>1 DEF Begin, Load, ReadStatus, ProbeProcess, SaveRecord, PsReturns, MarkStarting,
                PublishPid, NothingToStop, StopReturns, PollAgain, StopTimesOut, ClientDies
  <2> QED
    BY <1>0, <2>1, WriterKept
<1>2. ASSUME NEW c \in Clients, SpawnSupervisor(c) PROVE WriterInv'
  BY <1>0, <1>2, WriterKept DEF SpawnSupervisor, TypeOK
<1>3. ASSUME NEW r \in Runs, NEW how \in {"stopped", "killed"}, Terminate(r, how),
             UNCHANGED <<dir, status>>, writers' \subseteq writers
      PROVE  WriterInv'
  BY <1>0, <1>3, WriterKept DEF Terminate, TypeOK
<1>4. ASSUME NEW c \in Clients, SendSignal(c) PROVE WriterInv'
  <2>1. \/ UNCHANGED <<supervisor, writers>>
        \/ local[c].pid.run \in Runs /\ Terminate(local[c].pid.run, "stopped")
    <3>1. NoPid.kind # "supervisor"
      BY DEF NoPid
    <3> QED
      BY <1>4, <3>1, Values DEF SendSignal, TypeOK
  <2>2. UNCHANGED <<dir, status>>
    BY <1>4 DEF SendSignal
  <2>3. CASE UNCHANGED <<supervisor, writers>>
    BY <1>0, <2>2, <2>3, WriterKept
  <2>4. CASE local[c].pid.run \in Runs /\ Terminate(local[c].pid.run, "stopped")
    BY <1>3, <2>2, <2>4 DEF Terminate
  <2> QED
    BY <2>1, <2>3, <2>4
<1>5. ASSUME NEW c \in Clients, UnlinkFirst(c) \/ UnlinkOther(c) \/ RemoveDir(c) PROVE WriterInv'
  BY <1>5 DEF UnlinkFirst, UnlinkOther, Unlink, RemoveDir, WriterInv, RunningStatusHasWriter, NoStatusWithoutDir, OpenIsUnreported,
              Absent, View
<1>6. ASSUME NEW r \in Runs, LoadRecord(r) PROVE WriterInv'
  BY <1>0, <1>6 DEF LoadRecord, TypeOK, WriterInv, RunningStatusHasWriter, NoStatusWithoutDir, OpenIsUnreported
<1>7. ASSUME NEW r \in Runs,
             WriteRunningStatus(r) \/ WriteRunningRecord(r) \/ ReportExit(r)
      PROVE  WriterInv'
  <2>1. CASE WriteFails /\ supervisor' = [supervisor EXCEPT ![r] = "unwritten"]
             /\ UNCHANGED <<dir, status, writers>>
    BY <2>1 DEF WriteFails, TypeOK, WriterInv, RunningStatusHasWriter, NoStatusWithoutDir, OpenIsUnreported,
                Absent, View
  <2>2. CASE dir /\ WriteRunningStatus(r) /\ status' = View("Running", SupervisorPid(r), NoExit)
             /\ supervisor'[r] = "published" /\ writers' = {}
    BY <2>2 DEF WriteRunningStatus, WriterInv, RunningStatusHasWriter, NoStatusWithoutDir, OpenIsUnreported,
                View, SupervisorPid
  <2>3. CASE /\ UNCHANGED <<dir, status, writers>>
             /\ supervisor' = [supervisor EXCEPT ![r] = "recorded"]
    BY <1>0, <2>3, WriterKept DEF TypeOK
  <2>4. CASE /\ dir /\ ReportExit(r) /\ writers' = {}
             /\ status' = View("Exited", SupervisorPid(r), result[r])
    BY <2>4 DEF ReportExit, WriterInv, RunningStatusHasWriter, NoStatusWithoutDir, OpenIsUnreported, View
  <2> QED
    BY <1>7, <2>1, <2>2, <2>3, <2>4
    DEF WriteRunningStatus, WriteRunningRecord, ReportExit, TypeOK
<1>8. ASSUME NEW r \in Runs,
             PrepareFails(r) \/ SpawnPayload(r) \/ AbandonPayload(r) \/ ReapPayload(r)
             \/ PayloadExits(r)
      PROVE  WriterInv'
  <2>1. /\ UNCHANGED <<dir, status>> /\ writers' \subseteq writers
        /\ \/ UNCHANGED supervisor
           \/ \E l \in {"spawned", "reporting"} : supervisor' = [supervisor EXCEPT ![r] = l]
    BY <1>8 DEF PrepareFails, SpawnPayload, AbandonPayload, ReapPayload, PayloadExits
  <2> QED
    BY <1>0, <2>1, WriterKept DEF TypeOK
<1>9. ASSUME NEW r \in Runs, TruncateStatus(r) PROVE WriterInv'
  BY <1>9 DEF TruncateStatus, TypeOK, WriterInv, RunningStatusHasWriter, NoStatusWithoutDir, OpenIsUnreported,
              View, PayloadPid
<1>10. ASSUME NEW r \in Runs, WriteRuntimeStatus(r) PROVE WriterInv'
  <2>1. CASE r \notin writers
    BY <1>0, <1>10, <2>1, WriterKept DEF WriteRuntimeStatus, TypeOK
  <2>2. CASE r \in writers
    <3>1. dir
      BY <2>2 DEF WriterInv, OpenIsUnreported, NoStatusWithoutDir, Absent, View
    <3>2. /\ status'.state \in {"Running", "Torn"} /\ status'.pid.run = r
          /\ supervisor'[r] = "waiting" /\ dir' = dir
      BY <1>10, <2>2 DEF WriteRuntimeStatus, TypeOK, View, PayloadPid
    <3> QED
      BY <3>1, <3>2 DEF WriterInv, RunningStatusHasWriter, NoStatusWithoutDir, OpenIsUnreported
  <2> QED
    BY <2>1, <2>2
<1>11. ASSUME NEW r \in Runs, KillSupervisor(r) PROVE WriterInv'
  BY <1>3, <1>11 DEF KillSupervisor, Terminate
<1>12. CASE Reboot
  BY <1>0, <1>12, WriterKept DEF Reboot
<1>13. CASE UNCHANGED vars
  BY <1>0, <1>13, WriterKept DEF vars
<1> QED
  BY <1>1, <1>2, <1>4, <1>5, <1>6, <1>7, <1>8, <1>9, <1>10, <1>11, <1>12, <1>13
  DEF Next, ClientStep, SupervisorStep

\* status.json never says "running", and is never left torn, once nobody is
\* left to write it again, unless a signal, a reboot or a write that failed ended
\* the writer.  Where no write fails, run_managed returns on no path, early ones
\* included, that leaves such a file behind.
THEOREM RunningStatusesHaveWriters == Spec => []RunningStatusHasWriter
<1>1. TypeOK /\ WriterInv /\ [Next]_vars => WriterInv'
  BY WriterStep
<1>2. WriterInv => RunningStatusHasWriter
  BY DEF WriterInv
<1> QED
  BY TypeCorrect, WriterInit, <1>1, <1>2, PTL DEF Spec

-----------------------------------------------------------------------------
\* Only the supervisor of a run writes "running" of it or truncates its file,
\* and then the run is not over.
LEMMA OnlyLivingRunsWrite ==
    ASSUME TypeOK, [Next]_vars, status'.state \in {"Running", "Torn"}, status' # status
    PROVE  ~Over(status'.pid.run)
<1> USE DEF files, procs, clients
<1>1. \/ \E c \in Clients : UnlinkFirst(c) \/ UnlinkOther(c)
      \/ \E r \in Runs : \/ WriteRunningStatus(r) \/ TruncateStatus(r)
                         \/ WriteRuntimeStatus(r) \/ ReportExit(r)
  BY DEF Next, ClientStep, SupervisorStep, vars, Begin, Load, ReadStatus, ProbeProcess,
         SaveRecord, PsReturns, MarkStarting, SpawnSupervisor, PublishPid, NothingToStop,
         SendSignal, StopReturns, PollAgain, StopTimesOut, RemoveDir, LoadRecord,
         WriteRunningRecord, PrepareFails, SpawnPayload, AbandonPayload, ReapPayload,
         PayloadExits, KillSupervisor, ClientDies, Reboot
<1>2. ASSUME NEW c \in Clients, UnlinkFirst(c) \/ UnlinkOther(c) PROVE FALSE
  BY <1>2 DEF UnlinkFirst, UnlinkOther, Unlink, Absent, View
<1>3. ASSUME NEW r \in Runs, ReportExit(r) PROVE FALSE
  BY <1>3 DEF ReportExit, View
<1>4. ASSUME NEW r \in Runs, WriteRunningStatus(r) PROVE ~Over(status'.pid.run)
  BY <1>4 DEF WriteRunningStatus, View, SupervisorPid, Over, Dead
<1>5. ASSUME NEW r \in Runs, TruncateStatus(r) PROVE ~Over(status'.pid.run)
  BY <1>5 DEF TruncateStatus, View, PayloadPid, Over, Dead
<1>6. ASSUME NEW r \in Runs, WriteRuntimeStatus(r) PROVE ~Over(status'.pid.run)
  BY <1>6 DEF WriteRuntimeStatus, View, PayloadPid, Over, Dead
<1> QED
  BY <1>1, <1>2, <1>3, <1>4, <1>5, <1>6

\* The exit of a run is the last that status.json says of it: a "running" or a
\* torn file that takes the place of an exit is another run's.
THEOREM ExitsAreFinal == Spec => ExitIsFinal
<1> DEFINE Final == status.state = "Exited" =>
             ~(status'.state \in {"Running", "Torn"} /\ status'.pid.run = status.pid.run)
<1>1. TypeOK /\ ReportedExitIsReal /\ [Next]_vars => [Final]_vars
  <2> SUFFICES ASSUME TypeOK, ReportedExitIsReal, [Next]_vars, status.state = "Exited",
                      status'.state \in {"Running", "Torn"}, status'.pid.run = status.pid.run
               PROVE  FALSE
    OBVIOUS
  <2>1. Over(status.pid.run)
    BY DEF ReportedExitIsReal, ExitIsReal
  <2>2. status' # status
    OBVIOUS
  <2> QED
    BY <2>1, <2>2, OnlyLivingRunsWrite
<1> QED
  BY TypeCorrect, ReportedExitsAreReal, <1>1, PTL DEF Spec, ExitIsFinal
-----------------------------------------------------------------------------
(***************************************************************************)
(* FirstRunExitCode needs that the one run there is has no code before it  *)
(* is over, so that none can be loaded from the record or kept in a copy.  *)
(***************************************************************************)
CodeIsOfFirst(v) ==
    v.exit # NoExit =>
        v.state = "Exited" /\ v.pid.run = 1 /\ supervisor[1] \in Dead /\ v.exit = result[1]

AtWork == {"none"} \cup Preparing \cup Attending

CodeInv == Started \subseteq {1} =>
    /\ supervisor[1] \in AtWork => result[1] = NoExit
    /\ CodeIsOfFirst(record)
    /\ CodeIsOfFirst(status)
    /\ \A c \in Clients : CodeIsOfFirst(local[c])

LEMMA CodeInit == Init => CodeInv
BY RunsAssumption DEF Init, CodeInv, CodeIsOfFirst, View, Absent, NoCopy, Runs

\* What a step that only moves copies and files about keeps.
LEMMA CodeMoved ==
    ASSUME TypeOK, CodeInv, UNCHANGED <<supervisor, result>>,
           record' \in {record, Absent} \cup {local[c] : c \in Clients},
           status' \in {status, Absent},
           \A c \in Clients : local'[c] \in {local[c], record, NoCopy} \cup {status}
    PROVE  CodeInv'
BY DEF CodeInv, CodeIsOfFirst, Started, Absent, NoCopy, View

LEMMA CodeStep == TypeOK /\ CodeInv /\ [Next]_vars => CodeInv'
<1> SUFFICES ASSUME TypeOK, CodeInv, [Next]_vars, Started' \subseteq {1} PROVE CodeInv'
  BY DEF CodeInv
<1> USE DEF files, procs, clients, Goto, Return, SupervisorGoto, TypeOK
<1>0. 1 \in Runs
  BY RunsAssumption DEF Runs
<1>1. ASSUME NEW c \in Clients,
             Begin(c) \/ Load(c) \/ ReadStatus(c) \/ SaveRecord(c) \/ PsReturns(c)
             \/ PublishPid(c) \/ NothingToStop(c) \/ StopReturns(c) \/ PollAgain(c)
             \/ StopTimesOut(c) \/ UnlinkFirst(c) \/ UnlinkOther(c) \/ RemoveDir(c) \/ ClientDies(c)
      PROVE  CodeInv'
  <2>1. /\ UNCHANGED <<supervisor, result>>
        /\ status' \in {status, Absent}
        /\ record' \in {record, Absent} \cup {local[d] : d \in Clients}
    BY <1>1 DEF Begin, Load, ReadStatus, SaveRecord, PsReturns, PublishPid, NothingToStop,
                StopReturns, PollAgain, StopTimesOut, UnlinkFirst, UnlinkOther, Unlink, RemoveDir, ClientDies
  <2>2. \A d \in Clients : local'[d] \in {local[d], record, NoCopy} \cup {status}
    BY <1>1 DEF Begin, Load, ReadStatus, SaveRecord, PsReturns, PublishPid, NothingToStop,
                StopReturns, PollAgain, StopTimesOut, UnlinkFirst, UnlinkOther, Unlink, RemoveDir, ClientDies
  <2> QED
    BY <2>1, <2>2, CodeMoved
<1>2. ASSUME NEW c \in Clients, ProbeProcess(c) PROVE CodeInv'
  BY <1>2 DEF ProbeProcess, CodeInv, CodeIsOfFirst, Started, View
<1>3. ASSUME NEW c \in Clients, MarkStarting(c) PROVE CodeInv'
  BY <1>3 DEF MarkStarting, CodeInv, CodeIsOfFirst, Started, View, NoCopy
<1>4. ASSUME NEW c \in Clients, SpawnSupervisor(c) PROVE CodeInv'
  <2>1. ASSUME UNCHANGED supervisor, Return(c, "err") PROVE CodeInv'
    BY <1>4, <2>1 DEF SpawnSupervisor, CodeInv, CodeIsOfFirst, Started, NoCopy, View
  <2>2. ASSUME NEW r \in Runs, supervisor[r] = "none",
               supervisor' = [supervisor EXCEPT ![r] = "boot"],
               local' = [local EXCEPT ![c] = View(@.state, SupervisorPid(r), @.exit)]
        PROVE  CodeInv'
    <3>1. r = 1 /\ Started \subseteq {1}
      BY <2>2 DEF Started
    <3>2. UNCHANGED <<files, result>>
      BY <1>4 DEF SpawnSupervisor
    <3>3. local[c].exit = NoExit
      BY <2>2, <3>1 DEF CodeInv, CodeIsOfFirst, Dead
    <3> QED
      BY <2>2, <3>1, <3>2, <3>3 DEF CodeInv, CodeIsOfFirst, View, AtWork, Preparing, Dead
  <2> QED
    BY <1>4, <2>1, <2>2 DEF SpawnSupervisor
<1>5. ASSUME NEW c \in Clients, SendSignal(c) PROVE CodeInv'
  <2>1. UNCHANGED <<record, status, result>>
    BY <1>5 DEF SendSignal
  <2>2. \A d \in Clients : local'[d] \in {local[d], NoCopy}
    BY <1>5 DEF SendSignal
  <2>3. CASE UNCHANGED supervisor
    BY <2>1, <2>2, <2>3, CodeMoved
  <2>4. CASE local[c].pid.run \in Runs /\ Terminate(local[c].pid.run, "stopped")
    <3>1. local[c].pid.run = 1 /\ Started \subseteq {1}
      BY <2>4 DEF Terminate, Started
    <3> QED
      BY <1>0, <2>1, <2>2, <2>4, <3>1
      DEF Terminate, CodeInv, CodeIsOfFirst, NoCopy, View, AtWork, Dead, Preparing, Attending
  <2> QED
    <3>1. NoPid.kind # "supervisor"
      BY DEF NoPid
    <3> QED
      BY <1>5, <2>3, <2>4, <3>1, Values DEF SendSignal
<1>6. ASSUME NEW r \in Runs,
             LoadRecord(r) \/ PrepareFails(r) \/ SpawnPayload(r) \/ AbandonPayload(r)
             \/ ReapPayload(r) \/ PayloadExits(r) \/ KillSupervisor(r)
      PROVE  CodeInv'
  <2>1. (r = 1 /\ Started \subseteq {1}) \/ UNCHANGED <<supervisor, result>>
    BY <1>6 DEF LoadRecord, PrepareFails, SpawnPayload, AbandonPayload, ReapPayload,
                PayloadExits, KillSupervisor, Terminate, Started, Dead
  <2> QED
    BY <1>0, <1>6, <2>1
    DEF LoadRecord, PrepareFails, SpawnPayload, AbandonPayload, ReapPayload,
        PayloadExits, KillSupervisor, Terminate, Started, CodeInv, CodeIsOfFirst,
        AtWork, Dead, Preparing, Attending
<1>7. ASSUME NEW r \in Runs,
             WriteRunningStatus(r) \/ WriteRunningRecord(r) \/ TruncateStatus(r)
             \/ WriteRuntimeStatus(r) \/ ReportExit(r)
      PROVE  CodeInv'
  <2>1. r = 1 /\ Started \subseteq {1}
    BY <1>7 DEF WriteRunningStatus, WriteRunningRecord, TruncateStatus, WriteRuntimeStatus,
                ReportExit, Started
  <2> QED
    BY <1>0, <1>7, <2>1
    DEF WriteRunningStatus, WriteRunningRecord, TruncateStatus, WriteRuntimeStatus,
        ReportExit, Started, CodeInv, CodeIsOfFirst, View, SupervisorPid, PayloadPid,
        AtWork, Dead, Preparing, Attending
<1>8. CASE Reboot
  BY <1>0, <1>8 DEF Reboot, Started, CodeInv, CodeIsOfFirst, NoCopy, View, AtWork, Dead,
              Preparing, Attending
<1>9. CASE UNCHANGED vars
  BY <1>9, CodeMoved DEF vars
<1> QED
  BY <1>1, <1>2, <1>3, <1>4, <1>5, <1>6, <1>7, <1>8, <1>9 DEF Next, ClientStep, SupervisorStep

\* As long as a container was started once, the exit code any file or command
\* holds next to "exited" is what its run ended with: no read of an old record
\* or status, however late it is written back, brings another code in.
THEOREM FirstRunsCodeIsOwn == Spec => []FirstRunExitCode
<1>1. CodeInv => FirstRunExitCode
  BY DEF CodeInv, CodeIsOfFirst, FirstRunExitCode, ExitCodeIsOwn
<1> QED
  BY TypeCorrect, CodeInit, CodeStep, <1>1, PTL DEF Spec

-----------------------------------------------------------------------------
(***************************************************************************)
(* One user, one start.  `stop` returns once it has read "exited", and     *)
(* `rm` unlinks the files after reading it, so for one user it is enough   *)
(* that "exited" is only said of a run that has ended.  That is more than  *)
(* ReportedExitIsReal: a supervisor that is about to report must not be    *)
(* taken for gone because its payload is, and it is not, since the pid a   *)
(* command probes is never the payload's; and one that a stop took away    *)
(* from a running payload is not taken for gone either, since it left      *)
(* status.json "running" or torn, so that no pid is probed.                *)
(***************************************************************************)
Underway == {"refresh", "probe", "save", "decide", "spawn", "publish"}
Removing == {"rm_record", "rm_status", "rmdir"}

\* A pid is of a run that was started, an exit of one that has ended, and names
\* its supervisor.
IsPast(v) ==
    /\ v.pid # NoPid => supervisor[v.pid.run] # "none"
    /\ v.state = "Exited" => v.pid.kind = "supervisor" /\ Ended(v.pid.run)

FilesFitFirst ==
    /\ ~dir => record = Absent /\ status = Absent
    /\ Started = {1} => record.state # "Created"
    /\ Started = {1} /\ record = Absent => Ended(1)
    /\ Started = {1} /\ status = Absent /\ payload[1] # "none" => Ended(1)
    /\ IsPast(record) /\ IsPast(status)
    /\ status = Absent => record.pid.kind # "payload"

\* Where the payload nobody waits for comes from, and what status.json says then.
PayloadFits ==
    /\ supervisor[1] = "none" => payload[1] = "none"
    /\ payload[1] = "orphan" => supervisor[1] \in {"stopped", "killed"}
    /\ \/ payload[1] = "orphan" /\ supervisor[1] = "stopped"
       \/ supervisor[1] \in {"published", "recorded"} \cup Attending
       => status.state \in {"Running", "Torn"}

CopyFitsFirst(c) ==
    /\ IsPast(local[c])
    /\ pc[c] \in Underway =>
        /\ dir /\ record # Absent
        /\ Started = {1} => local[c].state # "Created"
        /\ status = Absent \/ pc[c] = "probe" => local[c].pid.kind # "payload"
    /\ pc[c] \in {"refresh", "decide"} /\ local[c].state = "Exited" => record.state = "Exited"
    /\ pc[c] = "probe" => local[c].state # "Exited" /\ (payload[1] = "orphan" => supervisor[1] = "killed")
    /\ pc[c] = "spawn" => record.state # "Created"
    /\ pc[c] \in {"spawn", "publish"} => cmd[c] = "start"
    /\ pc[c] \in Removing => cmd[c] = "rm" /\ (Started = {1} => Ended(1))
    /\ pc[c] = "rm_status" => record = Absent
    /\ Started = {1} /\ Stopped(c) => Ended(1)

FirstInv == OneUser =>
    /\ \A c \in Clients \ users : pc[c] \in Returned
    /\ Started \subseteq {1} =>
          FilesFitFirst /\ PayloadFits /\ \A c \in users : CopyFitsFirst(c)

LEMMA FirstInit == MCInit => FirstInv /\ users \subseteq Clients /\ IsFiniteSet(users)
<1> SUFFICES ASSUME MCInit PROVE FirstInv /\ users \subseteq Clients /\ IsFiniteSet(users)
  OBVIOUS
<1>1. users \subseteq Clients
  BY ClientsAssumption DEF MCInit, AnyClient
<1>2. Started = {} /\ 1 \in Runs
  BY RunsAssumption DEF MCInit, Init, Started, Runs
<1> QED
  BY <1>1, <1>2, ClientsAssumption, FS_Subset
  DEF MCInit, Init, FirstInv, FilesFitFirst, PayloadFits, CopyFitsFirst, IsPast, Underway, Removing,
      Returned, Absent, View, NoPid, NoCopy, Attending, Stopped

\* A supervisor that has ended stays so, as does a run, and none is unstarted again.
LEMMA DeadStay ==
    ASSUME TypeOK, [Next]_vars
    PROVE  \A r \in Runs : /\ supervisor[r] \in Dead => supervisor'[r] \in Dead
                           /\ supervisor[r] # "none" => supervisor'[r] # "none"
                           /\ Ended(r) => Ended(r)'
<1> DEFINE Stay == \A r \in Runs : /\ supervisor[r] \in Dead => supervisor'[r] \in Dead
                                   /\ supervisor[r] # "none" => supervisor'[r] # "none"
                                   /\ Ended(r) => Ended(r)'
<1> USE DEF TypeOK, Dead, Unwaited, SupervisorGoto, Terminate, Ended
<1>1. CASE UNCHANGED procs
  BY <1>1 DEF procs
<1>2. ASSUME NEW c \in Clients, SpawnSupervisor(c) PROVE Stay
  BY <1>2 DEF SpawnSupervisor
<1>3. ASSUME NEW c \in Clients, SendSignal(c) PROVE Stay
  BY <1>3, Values DEF SendSignal
<1>4. ASSUME NEW r \in Runs,
             LoadRecord(r) \/ WriteRunningStatus(r) \/ WriteRunningRecord(r)
             \/ PrepareFails(r) \/ SpawnPayload(r) \/ TruncateStatus(r)
             \/ WriteRuntimeStatus(r)
      PROVE  Stay
  BY <1>4 DEF LoadRecord, WriteRunningStatus, WriteRunningRecord, PrepareFails, SpawnPayload,
              TruncateStatus, WriteRuntimeStatus
<1>41. ASSUME NEW r \in Runs,
             AbandonPayload(r) \/ ReapPayload(r) \/ ReportExit(r)
             \/ PayloadExits(r) \/ KillSupervisor(r)
      PROVE  Stay
  BY <1>41 DEF AbandonPayload, ReapPayload, ReportExit, PayloadExits, KillSupervisor
<1>5. CASE Reboot
  BY <1>5 DEF Reboot
<1>6. ASSUME NEW c \in Clients,
             Begin(c) \/ Load(c) \/ ReadStatus(c) \/ ProbeProcess(c) \/ SaveRecord(c)
             \/ PsReturns(c) \/ MarkStarting(c) \/ PublishPid(c) \/ NothingToStop(c)
             \/ StopReturns(c) \/ PollAgain(c) \/ StopTimesOut(c) \/ UnlinkFirst(c)
             \/ UnlinkOther(c) \/ RemoveDir(c) \/ ClientDies(c)
      PROVE  UNCHANGED procs
  BY <1>6 DEF Begin, Load, ReadStatus, ProbeProcess, SaveRecord, PsReturns, MarkStarting,
              PublishPid, NothingToStop, StopReturns, PollAgain, StopTimesOut, UnlinkFirst,
              UnlinkOther, Unlink, RemoveDir, ClientDies
<1> HIDE DEF Stay
<1> QED
  BY <1>1, <1>2, <1>3, <1>4, <1>41, <1>5, <1>6 DEF Next, ClientStep, SupervisorStep, vars, Stay

\* What the process table and status.json say of the one run fits together, as long as
\* nobody takes status.json away from a run that has not ended.
LEMMA PayloadStep ==
    ASSUME TypeOK, AliveIsAttended, [Next]_vars, 1 \in Runs, Started \subseteq {1}, PayloadFits,
           status' = Absent => status = Absent \/ supervisor[1] = "none" \/ Ended(1)
    PROVE  PayloadFits'
<1> USE DEF files, procs, clients, SupervisorGoto
<1>0. Ended(1) => Ended(1)'
  BY DeadStay
<1>1. ASSUME UNCHANGED procs, status' \in {status, Absent} PROVE PayloadFits'
  <2>1. CASE status' = status
    BY <1>1, <2>1 DEF PayloadFits
  <2>2. CASE Ended(1)
    BY <1>1, <2>2 DEF PayloadFits, Ended, Dead, Attending
  <2>3. CASE status = Absent /\ status' = Absent
    BY <1>1, <2>3 DEF PayloadFits
  <2>4. CASE supervisor[1] = "none"
    BY <1>1, <2>4 DEF PayloadFits, Attending
  <2> QED
    BY <1>1, <2>1, <2>2, <2>3, <2>4
<1>2. ASSUME NEW c \in Clients, SpawnSupervisor(c) PROVE PayloadFits'
  <2>1. supervisor'[1] = supervisor[1] \/ (supervisor[1] = "none" /\ supervisor'[1] = "boot")
    BY <1>2 DEF SpawnSupervisor, TypeOK
  <2>2. UNCHANGED <<payload, status>>
    BY <1>2 DEF SpawnSupervisor
  <2> QED
    BY <2>1, <2>2 DEF PayloadFits, Attending, Dead
<1>3. ASSUME NEW r \in Runs, NEW how \in {"stopped", "killed"}, Terminate(r, how), UNCHANGED status,
             supervisor[r] \notin Dead
      PROVE  PayloadFits'
  <2>1. CASE r # 1
    BY <1>3, <2>1 DEF Terminate, TypeOK, PayloadFits
  <2>2. CASE r = 1
    <3>1. payload[1] # "orphan"
      BY <1>3, <2>2 DEF PayloadFits, Dead
    <3>2. payload[1] = "alive" => status.state \in {"Running", "Torn"}
      BY DEF AliveIsAttended, PayloadFits
    <3> QED
      BY <1>3, <2>2, <3>1, <3>2 DEF Terminate, TypeOK, PayloadFits, Attending
  <2> QED
    BY <2>1, <2>2
<1>4. ASSUME NEW c \in Clients, SendSignal(c) PROVE PayloadFits'
  <2>1. \/ UNCHANGED procs
        \/ /\ local[c].pid.run \in Runs /\ Terminate(local[c].pid.run, "stopped")
           /\ supervisor[local[c].pid.run] \notin Dead
    <3>1. NoPid.kind # "supervisor"
      BY DEF NoPid
    <3> QED
      BY <1>4, <3>1, Values DEF SendSignal, TypeOK
  <2>2. UNCHANGED status
    BY <1>4 DEF SendSignal
  <2> QED
    BY <1>1, <1>3, <2>1, <2>2
<1>5. ASSUME NEW r \in Runs,
             LoadRecord(r) \/ WriteRunningRecord(r) \/ PrepareFails(r) \/ SpawnPayload(r)
             \/ AbandonPayload(r) \/ ReapPayload(r) \/ PayloadExits(r)
      PROVE  PayloadFits'
  BY <1>5 DEF LoadRecord, WriteRunningRecord, PrepareFails, SpawnPayload, AbandonPayload,
              ReapPayload, PayloadExits, TypeOK, AliveIsAttended, PayloadFits, Attending, Unwaited
<1>6. ASSUME NEW r \in Runs, WriteRunningStatus(r) \/ TruncateStatus(r) \/ WriteRuntimeStatus(r)
      PROVE  PayloadFits'
  BY <1>6 DEF WriteRunningStatus, TruncateStatus, WriteRuntimeStatus, TypeOK, PayloadFits,
              Attending, View
<1>7. ASSUME NEW r \in Runs, ReportExit(r) PROVE PayloadFits'
  <2>1. r = 1
    BY <1>7 DEF ReportExit, Started
  <2> QED
    BY <1>7, <2>1 DEF ReportExit, TypeOK, PayloadFits, Attending
<1>8. ASSUME NEW r \in Runs, KillSupervisor(r) PROVE PayloadFits'
  BY <1>3, <1>8 DEF KillSupervisor
<1>9. CASE Reboot
  BY <1>9 DEF Reboot, TypeOK, PayloadFits, Attending
<1>10. ASSUME NEW c \in Clients,
             Begin(c) \/ Load(c) \/ ReadStatus(c) \/ ProbeProcess(c) \/ SaveRecord(c)
             \/ PsReturns(c) \/ MarkStarting(c) \/ PublishPid(c) \/ NothingToStop(c)
             \/ StopReturns(c) \/ PollAgain(c) \/ StopTimesOut(c) \/ UnlinkFirst(c)
             \/ UnlinkOther(c) \/ RemoveDir(c) \/ ClientDies(c)
      PROVE  UNCHANGED procs /\ status' \in {status, Absent}
  BY <1>10 DEF Begin, Load, ReadStatus, ProbeProcess, SaveRecord, PsReturns, MarkStarting,
              PublishPid, NothingToStop, StopReturns, PollAgain, StopTimesOut, UnlinkFirst,
              UnlinkOther, Unlink, RemoveDir, ClientDies
<1>11. CASE UNCHANGED vars
  BY <1>1, <1>11 DEF vars
<1> QED
  BY <1>1, <1>2, <1>4, <1>5, <1>6, <1>7, <1>8, <1>9, <1>10, <1>11
  DEF Next, ClientStep, SupervisorStep

FirstKept(c) == FilesFitFirst' /\ PayloadFits' /\ CopyFitsFirst(c)'

LEMMA FirstStep ==
    ASSUME TypeOK, AliveIsAttended, CopyFitsStep, [Next]_vars, Started' \subseteq {1},
           NEW u \in Clients,
           \A c \in Clients \ {u} : pc[c] \in Returned /\ UNCHANGED pc[c],
           FilesFitFirst, PayloadFits, CopyFitsFirst(u)
    PROVE  FirstKept(u)
<1>0. /\ \A r \in Runs : /\ supervisor[r] \in Dead => supervisor'[r] \in Dead
                         /\ supervisor[r] # "none" => supervisor'[r] # "none"
                         /\ Ended(r) => Ended(r)'
      /\ 1 \in Runs /\ Started \subseteq {1}
      /\ local[u] \in Records /\ record \in Records \cup {Absent}
      /\ status \in Statuses \cup {Absent}
  <2>1. \A r \in Runs : /\ supervisor[r] \in Dead => supervisor'[r] \in Dead
                        /\ supervisor[r] # "none" => supervisor'[r] # "none"
                        /\ Ended(r) => Ended(r)'
    BY DeadStay
  <2>2. Started \subseteq {1}
    BY <2>1 DEF Started
  <2>3. 1 \in Runs
    BY RunsAssumption DEF Runs
  <2>4. /\ local[u] \in Records /\ record \in Records \cup {Absent}
        /\ status \in Statuses \cup {Absent}
    BY DEF TypeOK
  <2> QED
    BY <2>1, <2>2, <2>3, <2>4
<1> USE <1>0, Values
<1> DEFINE Fits == FilesFitFirst' /\ CopyFitsFirst(u)'
<1> USE DEF FilesFitFirst, CopyFitsFirst, IsPast, Stopped, Underway, Removing, Returned, Goto,
            Return, SupervisorGoto, files, procs, clients
<1>00. ASSUME NEW r \in Started, NEW l, l # "none", supervisor' = [supervisor EXCEPT ![r] = l]
       PROVE  Started' = Started
  BY <1>00 DEF Started, TypeOK
<1> DEFINE StillPast(v) ==
             /\ v.pid # NoPid => supervisor'[v.pid.run] # "none"
             /\ v.state = "Exited" => v.pid.kind = "supervisor" /\ Ended(v.pid.run)'
<1>01. StillPast(record) /\ StillPast(status) /\ StillPast(local[u])
  <2>1. \A v : v.pid \in Pids \cup {NoPid} /\ IsPast(v) => StillPast(v)
    BY DEF NoPid
  <2>2. record.pid \in Pids \cup {NoPid} /\ status.pid \in Pids \cup {NoPid}
    BY DEF Statuses, Absent, View
  <2> HIDE DEF StillPast, IsPast
  <2> QED
    BY <2>1, <2>2
\* A run that has ended is the one there is.
<1>02. \A v : v.pid \in Pids \cup {NoPid} /\ IsPast(v) /\ v.state = "Exited" => Ended(1) /\ 1 \in Started
  <2> SUFFICES ASSUME NEW v, v.pid \in Pids \cup {NoPid}, IsPast(v), v.state = "Exited"
               PROVE  Ended(1) /\ 1 \in Started
    OBVIOUS
  <2>1. v.pid.run \in Runs /\ Ended(v.pid.run)
    BY DEF NoPid
  <2>2. v.pid.run \in Started
    BY <2>1 DEF Started, Ended, Dead
  <2> QED
    BY <2>1, <2>2
<1>03. ASSUME UNCHANGED procs PROVE Started' = Started
  BY <1>03 DEF Started
<1>1. ASSUME Begin(u) PROVE Fits
  BY <1>1, <1>01, <1>03 DEF Begin, TypeOK
<1>2. ASSUME Load(u) PROVE Fits
  BY <1>2, <1>01, <1>03 DEF Load, TypeOK, NoCopy, View
<1>3. ASSUME ReadStatus(u) PROVE Fits
  <2>1. CASE /\ status.state \in {"Running", "Exited"}
             /\ local' = [local EXCEPT ![u] = status] /\ Goto(u, "save")
    BY <1>3, <2>1, <1>01, <1>03 DEF ReadStatus, TypeOK, Absent, View
  <2>2. CASE Return(u, "err")
    BY <1>3, <2>2, <1>01, <1>03 DEF ReadStatus, TypeOK, NoCopy, View
  <2>3. CASE status = Absent /\ UNCHANGED local /\ Goto(u, "decide")
    BY <1>3, <2>3, <1>01, <1>03 DEF ReadStatus, TypeOK
  <2>4. CASE status = Absent /\ UNCHANGED local /\ Goto(u, "probe")
    <3>1. payload[1] = "orphan" => supervisor[1] = "killed"
      BY <2>4 DEF PayloadFits, Absent, View
    <3>2. local[u].state # "Exited"
      BY <1>3, <2>4 DEF ReadStatus, TypeOK, Active, Absent, View
    <3> QED
      BY <1>3, <2>4, <3>1, <3>2, <1>01, <1>03 DEF ReadStatus, TypeOK
  <2> QED
    BY <1>3, <2>1, <2>2, <2>3, <2>4 DEF ReadStatus
<1>4. ASSUME ProbeProcess(u) PROVE Fits
  <2>1. local[u].pid \in Pids /\ local[u].pid.kind = "supervisor"
    BY <1>4 DEF ProbeProcess, CopyFitsStep, Pids
  <2>2. local[u].pid.run = 1
    BY <2>1 DEF Started
  <2>3. ~ProcessExists(local[u].pid) => supervisor[1] \in Dead
    BY <2>1, <2>2 DEF ProcessExists, Dead
  <2>4. ~ProcessExists(local[u].pid) => Ended(1)
    <3>1. pc[u] = "probe"
      BY <1>4 DEF ProbeProcess
    <3>2. supervisor[1] \in Dead => payload[1] # "alive"
      BY DEF AliveIsAttended, Dead, Attending
    <3>3. payload[1] \in PayloadStates
      BY DEF TypeOK
    <3>4. supervisor[1] \in Dead => payload[1] \in {"none", "exited", "abandoned"} \/ supervisor[1] = "killed"
      BY <3>1, <3>2, <3>3 DEF PayloadStates, Unwaited
    <3> QED
      BY <2>3, <3>4 DEF Ended
  <2>5. CASE UNCHANGED local
    BY <1>4, <2>5, <1>01, <1>03 DEF ProbeProcess, TypeOK
  <2>6. CASE Ended(1) /\ local' = [local EXCEPT ![u] = View("Exited", @.pid, @.exit)]
    BY <1>4, <2>1, <2>2, <2>6, <1>01, <1>03 DEF ProbeProcess, TypeOK, View
  <2> QED
    BY <1>4, <2>4, <2>5, <2>6 DEF ProbeProcess
<1>5. ASSUME SaveRecord(u) PROVE Fits
  <2>1. CASE record' = local[u] /\ Goto(u, "decide") /\ UNCHANGED local
    <3>1. local[u].state # "Absent" /\ pc'[u] = "decide"
      BY <1>5, <2>1 DEF TypeOK, States
    <3>2. UNCHANGED <<dir, status, procs, cmd>> /\ pc[u] = "save"
      BY <1>5 DEF SaveRecord
    <3> QED
      BY <2>1, <3>1, <3>2, <1>01, <1>03 DEF Absent, View
  <2>2. CASE Return(u, "err") /\ UNCHANGED record
    BY <1>5, <2>2, <1>01, <1>03 DEF SaveRecord, TypeOK, NoCopy, View
  <2> QED
    BY <1>5, <2>1, <2>2 DEF SaveRecord
<1>6. ASSUME PsReturns(u) \/ StopTimesOut(u) \/ ClientDies(u) PROVE Fits
  BY <1>6, <1>01, <1>03 DEF PsReturns, StopTimesOut, ClientDies, TypeOK, NoCopy, View
<1>7. ASSUME MarkStarting(u) PROVE Fits
  <2>1. CASE Return(u, "err") /\ UNCHANGED record
    BY <1>7, <2>1, <1>01, <1>03 DEF MarkStarting, TypeOK, NoCopy, View
  <2>2. CASE ~(Return(u, "err") /\ UNCHANGED record)
    BY <1>7, <2>2, <1>01, <1>03 DEF MarkStarting, TypeOK, View, Absent
  <2> QED
    BY <2>1, <2>2
<1>8. ASSUME SpawnSupervisor(u) PROVE Fits
  <2>1. ASSUME Return(u, "err"), UNCHANGED supervisor PROVE Fits
    <3>1. UNCHANGED procs
      BY <1>8, <2>1 DEF SpawnSupervisor
    <3> QED
      BY <1>8, <2>1, <3>1, <1>01, <1>03 DEF SpawnSupervisor, TypeOK, NoCopy, View
  <2>2. ASSUME NEW r \in Runs, supervisor[r] = "none",
               supervisor' = [supervisor EXCEPT ![r] = "boot"],
               local' = [local EXCEPT ![u] = View(@.state, SupervisorPid(r), @.exit)],
               Goto(u, "publish")
        PROVE  Fits
    <3>1. Started = {} /\ local[u].state = "Starting" /\ r = 1
      BY <1>8, <2>2 DEF SpawnSupervisor, TypeOK, Started, CopyFitsStep
    <3>3. UNCHANGED <<files, payload, cmd>> /\ pc[u] = "spawn"
      BY <1>8 DEF SpawnSupervisor
    <3>4. local'[u] = View("Starting", SupervisorPid(1), local[u].exit) /\ pc'[u] = "publish"
      BY <2>2, <3>1 DEF TypeOK
    <3>5. record # Absent
      BY <3>3
    <3>6. payload[1] = "none"
      BY <2>2, <3>1 DEF PayloadFits
    <3>7. supervisor'[1] = "boot"
      BY <2>2, <3>1 DEF TypeOK
    <3> QED
      BY <3>1, <3>3, <3>4, <3>5, <3>6, <3>7, <1>01 DEF View, SupervisorPid
  <2> QED
    BY <1>8, <2>1, <2>2 DEF SpawnSupervisor
<1>9. ASSUME PublishPid(u) PROVE Fits
  <2>1. CASE record' = local[u] /\ Return(u, "ok")
    <3>1. cmd[u] = "start" /\ local'[u] = NoCopy /\ pc'[u] = "ok"
      BY <1>9, <2>1 DEF PublishPid, TypeOK
    <3>2. UNCHANGED <<dir, status, procs, cmd>> /\ pc[u] = "publish"
      BY <1>9 DEF PublishPid
    <3>3. local[u].state # "Absent"
      BY DEF States
    <3> QED
      BY <2>1, <3>1, <3>2, <3>3, <1>01, <1>03 DEF NoCopy, View, Absent
  <2>2. CASE Return(u, "err") /\ UNCHANGED record
    BY <1>9, <2>2, <1>01, <1>03 DEF PublishPid, TypeOK, NoCopy, View
  <2> QED
    BY <1>9, <2>1, <2>2 DEF PublishPid
\* A copy that is not active tells of the end of the one run there is.
<1>10. ~Active(local[u]) /\ pc[u] = "decide" /\ Started = {1} =>
           Ended(1) /\ record.state = "Exited" /\ record.pid.kind = "supervisor"
  <2> SUFFICES ASSUME ~Active(local[u]), pc[u] = "decide", Started = {1}
               PROVE  Ended(1) /\ record.state = "Exited" /\ record.pid.kind = "supervisor"
    OBVIOUS
  <2>1. local[u].state = "Exited"
    BY DEF Active, States
  <2> QED
    BY <2>1, <1>02
<1>11. ASSUME NothingToStop(u) \/ StopReturns(u) PROVE Fits
  BY <1>10, <1>11, <1>01, <1>03 DEF NothingToStop, StopReturns, TypeOK, NoCopy, View
<1>12. ASSUME SendSignal(u) PROVE Fits
  <2>1. UNCHANGED <<dir, record, status>> /\ pc[u] = "decide" /\ pc'[u] \in {"refresh", "err"}
    BY <1>12 DEF SendSignal, TypeOK
  <2>2. \/ local' = local
        \/ pc'[u] = "err" /\ local' = [local EXCEPT ![u] = NoCopy]
    BY <1>12 DEF SendSignal, TypeOK
  <2>3. \/ UNCHANGED <<supervisor, payload>>
        \/ \E r \in Started : supervisor' = [supervisor EXCEPT ![r] = "stopped"]
    BY <1>12 DEF SendSignal, Terminate, Started
  <2>4. Started' = Started
    BY <1>00, <2>3 DEF Started
  <2>5. payload'[1] = payload[1] \/ payload[1] = "alive"
    BY <1>12 DEF SendSignal, Terminate, TypeOK
  <2> QED
    BY <1>01, <2>1, <2>2, <2>4, <2>5 DEF NoCopy, View, Absent, TypeOK
<1>13. ASSUME PollAgain(u) PROVE Fits
  BY <1>13, <1>01, <1>03 DEF PollAgain, TypeOK, Active
<1>14. ASSUME UnlinkFirst(u) \/ UnlinkOther(u) PROVE Fits
  <2>1. /\ UNCHANGED <<procs, cmd, dir>> /\ Started' = Started
        /\ \/ UNCHANGED local
           \/ pc'[u] = "err" /\ local' = [local EXCEPT ![u] = NoCopy]
    BY <1>14, <1>03 DEF UnlinkFirst, UnlinkOther, TypeOK
  <2>2. record' \in {record, Absent} /\ status' \in {status, Absent}
    BY <1>14 DEF UnlinkFirst, UnlinkOther, Unlink
  <2>3. CASE pc'[u] = "err" /\ UNCHANGED <<record, status>>
    BY <2>1, <2>3, <1>01 DEF NoCopy, View, TypeOK
  <2>4. CASE pc'[u] \in Removing
    <3>1. cmd[u] = "rm" /\ (Started = {1} => Ended(1))
      BY <1>10, <1>14, <2>4 DEF UnlinkFirst, UnlinkOther, TypeOK
    <3>2. CASE record' = Absent
      BY <2>1, <2>2, <2>4, <3>1, <3>2, <1>01 DEF Absent, View, NoPid
    <3>3. CASE record' = record /\ pc'[u] # "rm_status"
      <4>1. record.pid.kind # "payload"
        <5>1. CASE Started = {1} /\ UnlinkFirst(u)
          BY <1>10, <2>4, <5>1 DEF UnlinkFirst, TypeOK
        <5>2. CASE Started = {}
          <6>1. record.pid = NoPid
            BY <5>2 DEF Started, Absent, View
          <6> QED
            BY <6>1 DEF NoPid
        <5>3. CASE UnlinkOther(u)
          BY <2>4, <3>3, <5>3 DEF UnlinkOther, Unlink, Absent, View, NoPid
        <5>4. Started = {} \/ Started = {1}
          OBVIOUS
        <5> QED
          BY <1>14, <5>1, <5>2, <5>3, <5>4
      <4>2. IsPast(status)'
        <5>1. CASE status' = status
          BY <2>1, <5>1, <1>01
        <5>2. CASE status' = Absent
          BY <5>2 DEF Absent, View, NoPid
        <5> QED
          BY <2>2, <5>1, <5>2
      <4>3. local' = local
        BY <2>1, <2>4
      <4>4. ~dir => status' = Absent
        BY <2>2
      <4> QED
        BY <2>1, <2>4, <3>1, <3>3, <4>1, <4>2, <4>3, <4>4, <1>01
    <3>4. pc'[u] = "rm_status" => record' = Absent
      BY <1>14, <2>4 DEF UnlinkFirst, UnlinkOther, Unlink, TypeOK
    <3> QED
      BY <2>2, <3>2, <3>3, <3>4
  <2> QED
    BY <1>14, <2>3, <2>4 DEF UnlinkFirst, UnlinkOther, TypeOK
<1>15. ASSUME RemoveDir(u) PROVE Fits
  BY <1>15, <1>01, <1>03 DEF RemoveDir, TypeOK, NoCopy, View
<1>16. ASSUME NEW r \in Runs,
             LoadRecord(r) \/ PrepareFails(r) \/ SpawnPayload(r) \/ AbandonPayload(r)
             \/ ReapPayload(r) \/ PayloadExits(r) \/ KillSupervisor(r)
      PROVE  Fits
  <2>1. UNCHANGED <<dir, record, status, clients>>
    BY <1>16 DEF LoadRecord, PrepareFails, SpawnPayload, AbandonPayload, ReapPayload,
                 PayloadExits, KillSupervisor
  <2>2. \/ UNCHANGED supervisor
        \/ /\ r \in Started
           /\ \E l \in {"loaded", "done", "reporting", "spawned", "killed"} :
                 supervisor' = [supervisor EXCEPT ![r] = l]
    BY <1>16 DEF LoadRecord, PrepareFails, SpawnPayload, AbandonPayload, ReapPayload,
                 PayloadExits, KillSupervisor, Terminate, Started
  <2>3. Started' = Started
    BY <1>00, <2>2 DEF Started
  <2>4. status # Absent \/ payload'[1] = "none" \/ payload[1] # "none"
    <3>1. ASSUME SpawnPayload(r), r = 1 PROVE status # Absent
      BY <3>1 DEF SpawnPayload, PayloadFits, Absent, View
    <3>2. payload'[1] = payload[1] \/ payload[1] # "none" \/ (SpawnPayload(r) /\ r = 1)
      BY <1>16 DEF LoadRecord, PrepareFails, SpawnPayload, AbandonPayload, ReapPayload,
                   PayloadExits, KillSupervisor, Terminate, TypeOK, Unwaited
    <3> QED
      BY <3>1, <3>2
  <2>5. payload'[1] = "orphan" => payload[1] = "orphan" \/ supervisor'[1] = "killed"
    BY <1>16 DEF LoadRecord, PrepareFails, SpawnPayload, AbandonPayload, ReapPayload,
                 PayloadExits, KillSupervisor, Terminate, TypeOK
  <2>6. supervisor[1] = "killed" /\ payload'[1] = "orphan" => supervisor'[1] = "killed"
    BY <1>16 DEF LoadRecord, PrepareFails, SpawnPayload, AbandonPayload, ReapPayload,
                 PayloadExits, KillSupervisor, Terminate, TypeOK, Dead
  <2> QED
    BY <1>01, <2>1, <2>3, <2>4, <2>5, <2>6 DEF Absent, View
\* A supervisor that is going to write is the one there is, and has not ended.
<1>17. ASSUME NEW r \in Runs,
             WriteRunningStatus(r) \/ WriteRunningRecord(r) \/ TruncateStatus(r)
             \/ WriteRuntimeStatus(r) \/ ReportExit(r)
      PROVE  /\ Started = {1} /\ Started' = {1} /\ r = 1 /\ ~Ended(1)
             /\ UNCHANGED <<dir, payload, clients>> /\ supervisor'[1] # "none"
  <2>1. supervisor[r] \notin Dead \cup {"none"}
    BY <1>17 DEF WriteRunningStatus, WriteRunningRecord, TruncateStatus, WriteRuntimeStatus,
                 ReportExit, Dead
  <2>2. Started = {1} /\ r = 1
    BY <2>1 DEF Started
  <2>3. \E l \in SupervisorStates \ {"none"} : supervisor' = [supervisor EXCEPT ![r] = l]
    BY <1>17 DEF WriteRunningStatus, WriteRunningRecord, TruncateStatus, WriteRuntimeStatus,
                 ReportExit, SupervisorStates, Dead, Preparing, Attending
  <2>4. Started' = Started
    BY <1>00, <2>2, <2>3
  <2>5. UNCHANGED <<dir, payload, clients>>
    BY <1>17 DEF WriteRunningStatus, WriteRunningRecord, TruncateStatus, WriteRuntimeStatus,
                 ReportExit
  <2> QED
    BY <2>1, <2>2, <2>4, <2>5 DEF Ended, Started
\* So no copy tells of an exit yet, and the files are there.
<1>18. ASSUME Started = {1}, ~Ended(1)
       PROVE  /\ local[u].state # "Exited" /\ pc[u] \notin Removing /\ record # Absent
              /\ pc[u] # "rm_status" /\ ~Stopped(u)
  BY <1>18, <1>02
<1>19. ASSUME NEW r \in Runs,
             WriteRunningStatus(r) \/ TruncateStatus(r) \/ WriteRuntimeStatus(r) \/ ReportExit(r)
      PROVE  Fits
  <2>1. /\ Started = {1} /\ Started' = {1} /\ r = 1 /\ ~Ended(1)
        /\ UNCHANGED <<dir, payload, clients>> /\ supervisor'[1] # "none"
    BY <1>17, <1>19
  <2>2. UNCHANGED record
    BY <1>19 DEF WriteRunningStatus, TruncateStatus, WriteRuntimeStatus, ReportExit
  <2>3. IsPast(status)'
    <3>1. CASE status' = status
      BY <1>01, <3>1
    <3>2. CASE status'.state # "Exited" /\ status'.pid.run = 1
      BY <2>1, <3>2
    <3>3. CASE ReportExit(1) /\ status' = View("Exited", SupervisorPid(1), result[1]) /\ supervisor'[1] = "done"
      <4>1. payload[1] \in {"none", "exited", "abandoned"}
        BY <3>3 DEF ReportExit, PayloadFits, AliveIsAttended, TypeOK, PayloadStates, Unwaited, Attending
      <4>2. Ended(1)'
        BY <2>1, <3>3, <4>1 DEF Ended, Dead
      <4> QED
        BY <2>1, <3>3, <4>2 DEF View, SupervisorPid
    <3> QED
      BY <1>19, <2>1, <3>1, <3>2, <3>3
      DEF WriteRunningStatus, TruncateStatus, WriteRuntimeStatus, ReportExit, View,
          SupervisorPid, PayloadPid, TypeOK
  <2>4. status' = Absent => status = Absent
    BY <1>19 DEF WriteRunningStatus, TruncateStatus, WriteRuntimeStatus, ReportExit, View, Absent
  <2>5. ~dir => UNCHANGED status
    BY <1>19, <2>1, <1>18
  <2>6. pc[u] = "probe" /\ payload[1] = "orphan" => FALSE
    BY <2>1 DEF PayloadFits, Ended, Dead
  <2> QED
    BY <2>1, <2>2, <2>3, <2>4, <2>5, <2>6, <1>01, <1>18
<1>20. ASSUME NEW r \in Runs, WriteRunningRecord(r) PROVE Fits
  <2>1. /\ Started = {1} /\ Started' = {1} /\ r = 1 /\ ~Ended(1)
        /\ UNCHANGED <<dir, payload, clients>> /\ supervisor'[1] # "none"
    BY <1>17, <1>20
  <2>2. UNCHANGED status
    BY <1>20 DEF WriteRunningRecord
  <2>3. UNCHANGED record \/ (dir /\ record' = View("Running", SupervisorPid(1), result[1]))
    BY <1>20, <2>1 DEF WriteRunningRecord
  <2>4. pc[u] = "probe" /\ payload[1] = "orphan" => FALSE
    BY <2>1 DEF PayloadFits, Ended, Dead
  <2> QED
    BY <2>1, <2>2, <2>3, <2>4, <1>01, <1>18 DEF View, SupervisorPid, Absent
<1>22. ASSUME Reboot PROVE Fits
  <2>1. UNCHANGED <<dir, record, status>> /\ Started' = Started /\ local'[u] = NoCopy
    BY <1>22 DEF Reboot, TypeOK, Started
  <2>2. pc'[u] \in Returned /\ (pc'[u] = "ok" => pc[u] = "ok") /\ cmd' = cmd
    BY <1>22 DEF Reboot, TypeOK
  <2>3. payload'[1] # "none" => payload[1] # "none"
    BY <1>22 DEF Reboot, TypeOK
  <2> QED
    BY <1>01, <2>1, <2>2, <2>3 DEF NoCopy, View, Absent
<1>23. ASSUME UNCHANGED vars PROVE Fits
  BY <1>23, <1>01, <1>03 DEF vars
<1>24. ASSUME NEW c \in Clients, Begin(c) \/ ClientStep(c) \/ ClientDies(c) PROVE c = u
  BY <1>24 DEF ClientStep, Begin, Load, ReadStatus, ProbeProcess, SaveRecord, PsReturns,
              MarkStarting, SpawnSupervisor, PublishPid, NothingToStop, SendSignal,
              StopReturns, PollAgain, StopTimesOut, UnlinkFirst, UnlinkOther, Unlink, RemoveDir, ClientDies, TypeOK
<1> HIDE DEF FilesFitFirst, CopyFitsFirst, IsPast, Fits
<1>25. ASSUME \E c \in Clients : Begin(c) \/ ClientStep(c) \/ ClientDies(c) PROVE Fits
  <2>1. Begin(u) \/ ClientStep(u) \/ ClientDies(u)
    BY <1>24, <1>25
  <2> QED
    BY <2>1, <1>1, <1>2, <1>3, <1>4, <1>5, <1>6, <1>7, <1>8, <1>9, <1>11, <1>12, <1>13, <1>14, <1>15
    DEF ClientStep
<1>26. ASSUME \E r \in Runs : SupervisorStep(r) \/ PayloadExits(r) \/ KillSupervisor(r) PROVE Fits
  BY <1>16, <1>19, <1>20, <1>26 DEF SupervisorStep
<1>27. Fits
  BY <1>22, <1>23, <1>25, <1>26 DEF Next
\* status.json is taken away only once the run has ended.
<1>28. status' = Absent => status = Absent \/ supervisor[1] = "none" \/ Ended(1)
  <2> SUFFICES ASSUME status' = Absent, status # Absent, supervisor[1] # "none" PROVE Ended(1)
    OBVIOUS
  <2>1. Started = {1}
    BY DEF Started
  <2>2. UnlinkFirst(u) \/ UnlinkOther(u)
    <3>1. ASSUME NEW r \in Runs, SupervisorStep(r) PROVE status' # Absent \/ status' = status
      BY <3>1 DEF SupervisorStep, LoadRecord, WriteRunningStatus, WriteRunningRecord, PrepareFails,
                  SpawnPayload, TruncateStatus, WriteRuntimeStatus, AbandonPayload, ReapPayload,
                  ReportExit, View, Absent
    <3>2. ASSUME Begin(u) \/ Load(u) \/ ReadStatus(u) \/ ProbeProcess(u) \/ SaveRecord(u)
                 \/ PsReturns(u) \/ MarkStarting(u) \/ SpawnSupervisor(u) \/ PublishPid(u)
                 \/ NothingToStop(u) \/ SendSignal(u) \/ StopReturns(u) \/ PollAgain(u)
                 \/ StopTimesOut(u) \/ RemoveDir(u) \/ ClientDies(u)
          PROVE  status' = status
      BY <3>2 DEF Begin, Load, ReadStatus, ProbeProcess, SaveRecord, PsReturns, MarkStarting,
                  SpawnSupervisor, PublishPid, NothingToStop, SendSignal, StopReturns, PollAgain,
                  StopTimesOut, RemoveDir, ClientDies
    <3>3. ASSUME NEW r \in Runs, PayloadExits(r) \/ KillSupervisor(r) \/ Reboot \/ UNCHANGED vars
          PROVE  status' = status
      BY <3>3 DEF PayloadExits, KillSupervisor, Reboot, vars
    <3>4. \A c \in Clients : Begin(c) \/ ClientStep(c) \/ ClientDies(c) => c = u
      BY <1>24
    <3> QED
      BY <3>1, <3>2, <3>3, <3>4 DEF Next, ClientStep
  <2>3. CASE UnlinkFirst(u)
    BY <1>10, <2>1, <2>3 DEF UnlinkFirst
  <2>4. CASE UnlinkOther(u)
    BY <2>1, <2>4 DEF UnlinkOther, CopyFitsFirst, Removing
  <2> QED
    BY <2>2, <2>3, <2>4
<1>29. PayloadFits'
  BY <1>28, PayloadStep
<1> QED
  BY <1>27, <1>29 DEF Fits, FirstKept

SoloInv == FirstInv /\ users \subseteq Clients /\ IsFiniteSet(users)

LEMMA SoloStep == TypeOK /\ IInv /\ SoloInv /\ [MCNext]_<<vars, users>> => SoloInv'
<1> SUFFICES ASSUME TypeOK, IInv, SoloInv, [MCNext]_<<vars, users>> PROVE SoloInv'
  OBVIOUS
<1>1. users' = users
  BY DEF MCNext
<1> SUFFICES ASSUME OneUser
             PROVE  /\ \A c \in Clients \ users : pc'[c] \in Returned
                    /\ Started' \subseteq {1} =>
                          FilesFitFirst' /\ PayloadFits' /\ \A c \in users : CopyFitsFirst(c)'
  BY <1>1 DEF SoloInv, FirstInv, OneUser
<1>2. [Next]_vars /\ \A c \in Clients \ users : UNCHANGED pc[c]
  <2>1. 1 \in Runs
    BY RunsAssumption DEF Runs
  <2>2. CASE UNCHANGED <<vars, users>>
    BY <2>2 DEF vars, clients
  <2>3. CASE One
    BY <1>1, <2>1, <2>3 DEF One, Next, SoloInv
  <2> QED
    BY <2>2, <2>3 DEF MCNext
<1>3. PICK u : users = {u}
  <2>1. Cardinality(users) = 1 /\ IsFiniteSet(users)
    BY DEF OneUser, SoloInv
  <2> QED
    BY <2>1, FS_Singleton
<1>4. u \in Clients
  BY <1>3 DEF SoloInv
<1>5. \A c \in Clients \ {u} : pc[c] \in Returned /\ UNCHANGED pc[c]
  BY <1>2, <1>3 DEF SoloInv, FirstInv
<1>6. ASSUME Started' \subseteq {1} PROVE FilesFitFirst' /\ PayloadFits' /\ CopyFitsFirst(u)'
  <2>1. Started \subseteq {1}
    BY <1>2, <1>6, DeadStay DEF Started
  <2>2. FilesFitFirst /\ PayloadFits /\ CopyFitsFirst(u)
    BY <1>3, <2>1 DEF SoloInv, FirstInv
  <2> QED
    BY <1>2, <1>4, <1>5, <1>6, <2>2, FirstStep DEF IInv, FirstKept
<1> QED
  BY <1>3, <1>5, <1>6

LEMMA Solo == MCSpec => [](TypeOK /\ IInv /\ SoloInv)
<1>1. MCInit => TypeOK /\ IInv /\ SoloInv
  BY FirstInit, TypeInit, IInvInit DEF MCInit, SoloInv
<1>2. ASSUME TypeOK, IInv, SoloInv, [MCNext]_<<vars, users>> PROVE (TypeOK /\ IInv /\ SoloInv)'
  <2>1. [Next]_vars
    <3>1. 1 \in Runs
      BY RunsAssumption DEF Runs
    <3>2. CASE One
      BY <1>2, <3>1, <3>2 DEF One, Next, SoloInv
    <3>3. CASE Several
      BY <3>3 DEF Several, Next
    <3> QED
      BY <1>2, <3>2, <3>3 DEF MCNext, vars
  <2> QED
    BY <1>2, <2>1, TypeStep, IInvStep, SoloStep
<1> QED
  BY <1>1, <1>2, PTL DEF MCSpec

\* For one user and one start: when `stop` returns Ok, the run has ended and stays
\* so, whatever fails meanwhile.  No file and no answer of the process table shows
\* such a user a run under way as one that has ended, and a stop whose own signal
\* left the payload without a supervisor does not return Ok.
THEOREM FirstRunsStop == MCSpec => []FirstRunStopped
<1>1. TypeOK /\ IInv /\ SoloInv => FirstRunStopped
  <2> SUFFICES ASSUME TypeOK, IInv, SoloInv, OneUser, Started \subseteq {1},
                      NEW c \in users, Stopped(c), NEW r \in Started
               PROVE  Ended(r)
    BY DEF FirstRunStopped
  <2>1. r = 1 /\ Started = {1}
    OBVIOUS
  <2> QED
    BY <2>1 DEF SoloInv, FirstInv, CopyFitsFirst
<1> QED
  BY <1>1, Solo, PTL

\* For a user's first run: a file or the directory is gone only once the run has
\* ended, however far an `rm` came, so its supervisor writes no file into a directory
\* that is being emptied.
THEOREM FirstRunsAreOverWhenRemoved == MCSpec => []FirstRunRemovedOnlyWhenOver
<1>1. TypeOK /\ IInv /\ SoloInv => FirstRunRemovedOnlyWhenOver
  BY DEF FirstRunRemovedOnlyWhenOver, SoloInv, FirstInv, FilesFitFirst
<1> QED
  BY <1>1, Solo, PTL
=============================================================================
