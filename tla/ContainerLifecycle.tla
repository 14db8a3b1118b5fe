------------------------- MODULE ContainerLifecycle -------------------------
(***************************************************************************)
(* One persistent container of qbuild: its directory with container.json   *)
(* (the record) and status.json (the status), the `qbuild` commands that   *)
(* read and write them (start, stop, rm, ps), the supervisors that         *)
(* `internal-exec` runs, and the payload processes the supervisors wait    *)
(* for.  Nothing locks the directory, so every file access is a step of    *)
(* its own.                                                                *)
(*                                                                         *)
(* A supervisor and the payload it spawns form a run; runs are numbered in *)
(* the order they were spawned, and a pid is named by what it is the pid   *)
(* of.  A pid is never reused.                                             *)
(***************************************************************************)
EXTENDS Naturals, FiniteSets

CONSTANTS
    Clients,     \* processes executing qbuild commands
    MaxRuns,     \* bound on the number of supervisors ever spawned
    ExitCodes,   \* exit codes a payload may end with
    FailureCode, \* the code recorded for a run that failed (always 1)
    NoExit,      \* exit_code: None
    Reaps,       \* TRUE if dead supervisors are reaped: a CLI start exits and
                 \* leaves its child to init, guestd never waits for it
    Faults       \* the failures the environment may inject

FaultKinds == {"spawn", "post_spawn", "prepare", "write", "kill_supervisor",
               "client_dies", "reboot"}

ASSUME ClientsAssumption == IsFiniteSet(Clients) /\ Clients # {}
ASSUME RunsAssumption == MaxRuns \in Nat \ {0}
ASSUME ExitAssumption == FailureCode \in ExitCodes /\ NoExit \notin ExitCodes
ASSUME ReapAssumption == Reaps \in BOOLEAN
ASSUME FaultAssumption == Faults \subseteq FaultKinds

VARIABLES
    dir,        \* does the container's directory exist?
    record,     \* container.json
    status,     \* status.json
    writers,    \* the runs that have that very status.json open for writing
    supervisor, \* supervisor[r]: where run r's run_managed stands
    result,     \* result[r]: the exit code run r's supervisor holds
    payload,    \* payload[r]: run r's payload process
    cmd,        \* cmd[c]: the command client c is executing
    pc,         \* pc[c]: the next step of that command
    local       \* local[c]: the command's own copy of the record

files == <<dir, record, status, writers>>
procs == <<supervisor, result, payload>>
clients == <<cmd, pc, local>>
vars == <<files, procs, clients>>

Runs == 1..MaxRuns
Exits == ExitCodes \cup {NoExit}

NoPid == [kind |-> "none", run |-> 0]
SupervisorPid(r) == [kind |-> "supervisor", run |-> r]
PayloadPid(r) == [kind |-> "payload", run |-> r]
Pids == [kind : {"supervisor", "payload"}, run : Runs]

\* The fields of ContainerRecord and ExecStatusFile the commands decide on.
View(state, pid, exit) == [state |-> state, pid |-> pid, exit |-> exit]
Absent == View("Absent", NoPid, NoExit)

\* What a client that runs no command holds.
NoCopy == View("Created", NoPid, NoExit)

States == {"Created", "Starting", "Running", "Exited"}
Records == [state : States, pid : Pids \cup {NoPid}, exit : Exits]
Statuses == [state : {"Running", "Exited", "Torn"}, pid : Pids, exit : Exits]

(***************************************************************************)
(* A supervisor: "none" until it is spawned, then the steps of run_managed *)
(* and RunService::run; "done" when it ended by itself, "unwritten" when   *)
(* it ended because it could not write one of the files, "stopped" when    *)
(* the signal of a stop ended it, "killed" when anything else did, "gone"  *)
(* after a reboot.                                                         *)
(***************************************************************************)
Preparing == {"boot", "loaded", "published", "recorded"}
Attending == {"spawned", "truncated", "waiting"}
Dead == {"done", "unwritten", "stopped", "killed", "gone"}
SupervisorStates == {"none", "reporting"} \cup Preparing \cup Attending \cup Dead

\* Running, though no supervisor will ever wait for it: "orphan" when the
\* supervisor was ended by a signal, "abandoned" when it gave the payload up by itself.
Unwaited == {"orphan", "abandoned"}
PayloadStates == {"none", "alive", "exited"} \cup Unwaited

\* "await" is a stop that has sent its signal and now polls the status.
Commands == {"start", "stop", "rm", "ps"}
Returned == {"ok", "err"}
PCs == Returned \cup {"load", "refresh", "probe", "save", "decide", "spawn",
                      "publish", "rm_record", "rm_status", "rmdir"}

TypeOK ==
    /\ dir \in BOOLEAN
    /\ record \in Records \cup {Absent}
    /\ status \in Statuses \cup {Absent}
    /\ writers \subseteq Runs
    /\ supervisor \in [Runs -> SupervisorStates]
    /\ result \in [Runs -> Exits]
    /\ payload \in [Runs -> PayloadStates]
    /\ cmd \in [Clients -> Commands \cup {"await"}]
    /\ pc \in [Clients -> PCs]
    /\ local \in [Clients -> Records]

\* `create` has just returned.
Init ==
    /\ dir = TRUE
    /\ record = View("Created", NoPid, NoExit)
    /\ status = Absent
    /\ writers = {}
    /\ supervisor = [r \in Runs |-> "none"]
    /\ result = [r \in Runs |-> NoExit]
    /\ payload = [r \in Runs |-> "none"]
    /\ cmd = [c \in Clients |-> "ps"]
    /\ pc = [c \in Clients |-> "ok"]
    /\ local = [c \in Clients |-> NoCopy]

-----------------------------------------------------------------------------
(* What the commands ask of a record and of the process table.             *)

\* Mutant: a container that is still starting counts as idle.
Active_RunningOnly(rec) == rec.state = "Running"

Active(rec) == rec.state \in {"Starting", "Running"}

\* kill(pid, 0) succeeds: a process that died but was not yet waited for still
\* answers.
ProcessExists(p) ==
    \/ /\ p.kind = "supervisor"
       /\ supervisor[p.run] \notin (IF Reaps THEN Dead ELSE {"gone"})
    \/ /\ p.kind = "payload"
       /\ \/ payload[p.run] \in {"alive"} \cup Unwaited
          \/ payload[p.run] = "exited" /\ supervisor[p.run] \in Attending

Started == {r \in Runs : supervisor[r] # "none"}

\* The bound: a start is begun only while a run is left for it to use.
StartsLeft ==
    Cardinality(Started)
      + Cardinality({c \in Clients : cmd[c] = "start" /\ pc[c] \notin Returned})
    < MaxRuns

-----------------------------------------------------------------------------
(* Steps every command shares.                                             *)

Goto(c, l) == pc' = [pc EXCEPT ![c] = l]

Return(c, outcome) ==
    /\ Goto(c, outcome)
    /\ local' = [local EXCEPT ![c] = NoCopy]

\* A new command.  resolve_id and load: no container.json, no container.
Begin(c) ==
    /\ pc[c] \in Returned
    /\ \E k \in Commands :
        /\ k = "start" => StartsLeft
        /\ cmd' = [cmd EXCEPT ![c] = k]
    /\ Goto(c, "load")
    /\ UNCHANGED <<files, procs, local>>

Load(c) ==
    /\ pc[c] = "load"
    /\ \/ /\ record # Absent
          /\ local' = [local EXCEPT ![c] = record]
          /\ Goto(c, "refresh")
       \/ /\ record = Absent
          /\ Return(c, "err")
    /\ UNCHANGED <<files, procs, cmd>>

\* refresh_state, first half: a status file is believed whatever the process
\* table says; without one the recorded pid is probed.
ReadStatus(c) ==
    /\ pc[c] = "refresh"
    /\ \/ /\ status.state \in {"Running", "Exited"}
          /\ local' = [local EXCEPT ![c] = status]
          /\ Goto(c, "save")
       \/ /\ status.state = "Torn"
          /\ Return(c, "err")
       \/ /\ status = Absent
          /\ Goto(c, IF Active(local[c]) /\ local[c].pid # NoPid
                     THEN "probe" ELSE "decide")
          /\ UNCHANGED local
    /\ UNCHANGED <<files, procs, cmd>>

\* refresh_state, second half: a run whose process is gone has exited.
ProbeProcess(c) ==
    /\ pc[c] = "probe"
    /\ \/ /\ ProcessExists(local[c].pid)
          /\ Goto(c, "decide")
          /\ UNCHANGED local
       \/ /\ ~ProcessExists(local[c].pid)
          /\ local' = [local EXCEPT ![c] = View("Exited", @.pid, @.exit)]
          /\ Goto(c, "save")
    /\ UNCHANGED <<files, procs, cmd>>

\* A file is written to a temporary one that is renamed into place: one step,
\* which needs the directory and fails without a trace (a full disk).
WriteFails == ~dir \/ "write" \in Faults

SaveRecord(c) ==
    /\ pc[c] = "save"
    /\ \/ dir /\ record' = local[c] /\ Goto(c, "decide") /\ UNCHANGED local
       \/ WriteFails /\ Return(c, "err") /\ UNCHANGED record
    /\ UNCHANGED <<dir, status, writers, procs, cmd>>

-----------------------------------------------------------------------------
(* ps and start.                                                           *)

PsReturns(c) ==
    /\ pc[c] = "decide" /\ cmd[c] = "ps"
    /\ Return(c, "ok")
    /\ UNCHANGED <<files, procs, cmd>>

\* The log files are opened first (ContainerNames has them).  An old
\* status.json stays where it is.
MarkStarting(c) ==
    LET starting == View("Starting", local[c].pid, NoExit) IN
    /\ pc[c] = "decide" /\ cmd[c] = "start"
    /\ \/ /\ ~Active(local[c]) /\ dir
          /\ record' = starting
          /\ local' = [local EXCEPT ![c] = starting]
          /\ Goto(c, "spawn")
       \/ /\ Active(local[c]) \/ WriteFails
          /\ Return(c, "err")
          /\ UNCHANGED record
    /\ UNCHANGED <<dir, status, writers, procs, cmd>>

SpawnSupervisor(c) ==
    /\ pc[c] = "spawn"
    /\ \/ \E r \in Runs :
            /\ supervisor[r] = "none"
            /\ \A q \in Runs : q < r => supervisor[q] # "none"
            /\ supervisor' = [supervisor EXCEPT ![r] = "boot"]
            /\ local' = [local EXCEPT ![c] = View(@.state, SupervisorPid(r), @.exit)]
            /\ Goto(c, "publish")
       \/ /\ "spawn" \in Faults
          /\ Return(c, "err")
          /\ UNCHANGED supervisor
    /\ UNCHANGED <<files, result, payload, cmd>>

PublishPid(c) ==
    /\ pc[c] = "publish"
    /\ \/ dir /\ record' = local[c] /\ Return(c, "ok")
       \/ WriteFails /\ Return(c, "err") /\ UNCHANGED record
    /\ UNCHANGED <<dir, status, writers, procs, cmd>>

-----------------------------------------------------------------------------
(* stop.                                                                   *)

NothingToStop(c) ==
    /\ pc[c] = "decide" /\ cmd[c] = "stop"
    /\ ~Active(local[c])
    /\ Return(c, "ok")
    /\ UNCHANGED <<files, procs, cmd>>

\* Signalled supervisors die; what the payload makes of the signal is its own
\* business (PayloadExits is always enabled).  The supervisor leads a session,
\* its payload a process group of its own: the one signal does not reach both.
Terminate(r, how) ==
    /\ supervisor' = [supervisor EXCEPT ![r] = how]
    /\ payload' = [payload EXCEPT ![r] = IF @ = "alive" THEN "orphan" ELSE @]
    /\ writers' = writers \ {r}

SendSignal(c) ==
    LET p == local[c].pid IN
    /\ pc[c] = "decide" /\ cmd[c] = "stop"
    /\ Active(local[c])
    /\ IF p # NoPid /\ ProcessExists(p)
       THEN /\ cmd' = [cmd EXCEPT ![c] = "await"]
            /\ Goto(c, "refresh")
            /\ IF p.kind = "supervisor" /\ supervisor[p.run] \notin Dead
               THEN Terminate(p.run, "stopped")
               ELSE UNCHANGED <<supervisor, payload, writers>>
            /\ UNCHANGED local
       ELSE Return(c, "err") /\ UNCHANGED <<cmd, supervisor, payload, writers>>
    /\ UNCHANGED <<dir, record, status, result>>

\* wait_for_exit: each poll refreshes the copy, record not reloaded.
StopReturns(c) ==
    /\ pc[c] = "decide" /\ cmd[c] = "await"
    /\ ~Active(local[c])
    /\ Return(c, "ok")
    /\ UNCHANGED <<files, procs, cmd>>

PollAgain(c) ==
    /\ pc[c] = "decide" /\ cmd[c] = "await"
    /\ Active(local[c])
    /\ Goto(c, "refresh")
    /\ UNCHANGED <<files, procs, cmd, local>>

\* Mutant: no deadline.
StopTimesOut_Never(c) == pc[c] = "never" /\ UNCHANGED vars

StopTimesOut(c) ==
    /\ pc[c] = "decide" /\ cmd[c] = "await"
    /\ Active(local[c])
    /\ Return(c, "err")
    /\ UNCHANGED <<files, procs, cmd>>

-----------------------------------------------------------------------------
(* rm: remove_dir_all reads the directory, unlinks what it has read one by *)
(* one, in any order, then removes the directory, which fails if a file    *)
(* was written in between.                                                 *)

Listed == {f \in {"record", "status"} :
             IF f = "record" THEN record # Absent ELSE status # Absent}

Unlink(f) ==
    /\ record' = IF f = "record" THEN Absent ELSE record
    /\ status' = IF f = "status" THEN Absent ELSE status
    /\ writers' = IF f = "status" THEN {} ELSE writers

UnlinkFirst(c) ==
    /\ pc[c] = "decide" /\ cmd[c] = "rm"
    /\ \/ /\ ~Active(local[c]) /\ dir
          /\ \E f \in Listed :
                /\ Unlink(f)
                /\ Goto(c, IF Listed = {f} THEN "rmdir"
                           ELSE IF f = "record" THEN "rm_status" ELSE "rm_record")
          /\ UNCHANGED local
       \/ /\ ~Active(local[c]) /\ dir /\ Listed = {}
          /\ Goto(c, "rmdir")
          /\ UNCHANGED <<record, status, writers, local>>
       \/ /\ Active(local[c]) \/ ~dir
          /\ Return(c, "err")
          /\ UNCHANGED <<record, status, writers>>
    /\ UNCHANGED <<dir, procs, cmd>>

UnlinkOther(c) ==
    /\ \/ pc[c] = "rm_record" /\ Unlink("record")
       \/ pc[c] = "rm_status" /\ Unlink("status")
    /\ Goto(c, "rmdir")
    /\ UNCHANGED <<dir, procs, cmd, local>>

RemoveDir(c) ==
    /\ pc[c] = "rmdir"
    /\ IF dir /\ record = Absent /\ status = Absent
       THEN dir' = FALSE /\ Return(c, "ok")
       ELSE UNCHANGED dir /\ Return(c, "err")
    /\ UNCHANGED <<record, status, writers, procs, cmd>>

-----------------------------------------------------------------------------
(* The supervisor: run_managed and RunService::run.                        *)

SupervisorGoto(r, l) == supervisor' = [supervisor EXCEPT ![r] = l]

LoadRecord(r) ==
    /\ supervisor[r] = "boot"
    /\ SupervisorGoto(r, IF record # Absent THEN "loaded" ELSE "done")
    /\ result' = [result EXCEPT ![r] = IF record # Absent THEN record.exit ELSE @]
    /\ UNCHANGED <<files, payload, clients>>

WriteRunningStatus(r) ==
    /\ supervisor[r] = "loaded"
    /\ \/ /\ dir
          /\ status' = View("Running", SupervisorPid(r), NoExit)
          /\ writers' = {}
          /\ SupervisorGoto(r, "published")
       \/ /\ WriteFails
          /\ SupervisorGoto(r, "unwritten")
          /\ UNCHANGED <<status, writers>>
    /\ UNCHANGED <<dir, record, result, payload, clients>>

\* The exit code loaded with the record is written back with it.  If that
\* fails, status.json stays as it is: running.
WriteRunningRecord(r) ==
    /\ supervisor[r] = "published"
    /\ \/ /\ dir
          /\ record' = View("Running", SupervisorPid(r), result[r])
          /\ SupervisorGoto(r, "recorded")
       \/ /\ WriteFails
          /\ SupervisorGoto(r, "unwritten")
          /\ UNCHANGED record
    /\ UNCHANGED <<dir, status, writers, result, payload, clients>>

\* Image, rootfs, cgroup, command, mounts: any of them may fail the run.
PrepareFails(r) ==
    /\ supervisor[r] = "recorded"
    /\ "prepare" \in Faults
    /\ SupervisorGoto(r, "reporting")
    /\ result' = [result EXCEPT ![r] = FailureCode]
    /\ UNCHANGED <<files, payload, clients>>

SpawnPayload(r) ==
    /\ supervisor[r] = "recorded"
    /\ SupervisorGoto(r, "spawned")
    /\ payload' = [payload EXCEPT ![r] = "alive"]
    /\ UNCHANGED <<files, result, clients>>

\* write_runtime_status opens status.json truncating it, then writes to the
\* open file.
TruncateStatus(r) ==
    /\ supervisor[r] = "spawned"
    /\ dir
    /\ status' = View("Torn", PayloadPid(r), NoExit)
    /\ writers' = writers \cup {r}
    /\ SupervisorGoto(r, "truncated")
    /\ UNCHANGED <<dir, record, result, payload, clients>>

\* The bytes reach status.json unless it was replaced or unlinked since; over
\* what another run wrote to the same file they need not make sense.
WriteRuntimeStatus(r) ==
    /\ supervisor[r] = "truncated"
    /\ \/ r \in writers /\ status' = View("Running", PayloadPid(r), NoExit)
       \/ /\ r \in writers /\ status.state = "Running"
          /\ status' = View("Torn", PayloadPid(r), NoExit)
       \/ r \notin writers /\ UNCHANGED status
    /\ writers' = writers \ {r}
    /\ SupervisorGoto(r, "waiting")
    /\ UNCHANGED <<dir, record, result, payload, clients>>

\* add_process or write_runtime_status failing, the latter before or after it
\* truncated the file, returns without waiting for the payload; destroying the
\* run's cgroup kills it only if it was put there.
AbandonPayload(r) ==
    /\ \/ supervisor[r] = "spawned" /\ ("post_spawn" \in Faults \/ WriteFails)
       \/ supervisor[r] = "truncated" /\ "write" \in Faults
    /\ SupervisorGoto(r, "reporting")
    /\ result' = [result EXCEPT ![r] = FailureCode]
    /\ \E next \in {"abandoned", "exited"} :
        payload' = [payload EXCEPT ![r] = IF @ = "alive" THEN next ELSE @]
    /\ writers' = writers \ {r}
    /\ UNCHANGED <<dir, record, status, clients>>

PayloadExits(r) ==
    /\ payload[r] \in {"alive"} \cup Unwaited
    /\ payload' = [payload EXCEPT ![r] = "exited"]
    /\ UNCHANGED <<files, supervisor, result, clients>>

\* Mutant: try_wait instead of wait.
ReapPayload_TryWait(r) ==
    /\ supervisor[r] = "waiting"
    /\ SupervisorGoto(r, "reporting")
    /\ \E code \in ExitCodes : result' = [result EXCEPT ![r] = code]
    /\ UNCHANGED <<files, payload, clients>>

\* child.wait, then remove_rootfs and the cgroup's destroy.
ReapPayload(r) ==
    /\ supervisor[r] = "waiting"
    /\ payload[r] = "exited"
    /\ SupervisorGoto(r, "reporting")
    /\ \E code \in ExitCodes : result' = [result EXCEPT ![r] = code]
    /\ UNCHANGED <<files, payload, clients>>

\* Mutants: a failed run is not reported; a failed run is tried again; every
\* exit is recorded as a failure.
ReportExit_OkOnly(r) ==
    /\ supervisor[r] = "reporting"
    /\ \/ /\ dir
          /\ status' = IF result[r] # FailureCode
                       THEN View("Exited", SupervisorPid(r), result[r]) ELSE status
          /\ writers' = IF result[r] # FailureCode THEN {} ELSE writers
          /\ SupervisorGoto(r, "done")
       \/ /\ WriteFails
          /\ SupervisorGoto(r, "unwritten")
          /\ UNCHANGED <<status, writers>>
    /\ UNCHANGED <<dir, record, result, payload, clients>>

ReportExit_Retry(r) ==
    /\ supervisor[r] = "reporting"
    /\ dir
    /\ status' = View("Exited", SupervisorPid(r), result[r])
    /\ writers' = {}
    /\ SupervisorGoto(r, IF result[r] = FailureCode THEN "boot" ELSE "done")
    /\ UNCHANGED <<dir, record, result, payload, clients>>

ReportExit_AlwaysFailed(r) ==
    /\ supervisor[r] = "reporting"
    /\ dir
    /\ status' = View("Exited", SupervisorPid(r), FailureCode)
    /\ writers' = {}
    /\ SupervisorGoto(r, "done")
    /\ UNCHANGED <<dir, record, result, payload, clients>>

ReportExit(r) ==
    /\ supervisor[r] = "reporting"
    /\ \/ /\ dir
          /\ status' = View("Exited", SupervisorPid(r), result[r])
          /\ writers' = {}
          /\ SupervisorGoto(r, "done")
       \/ /\ WriteFails
          /\ SupervisorGoto(r, "unwritten")
          /\ UNCHANGED <<status, writers>>
    /\ UNCHANGED <<dir, record, result, payload, clients>>

-----------------------------------------------------------------------------
(* Failures.                                                               *)

KillSupervisor(r) ==
    /\ "kill_supervisor" \in Faults
    /\ supervisor[r] \notin Dead \cup {"none"}
    /\ Terminate(r, "killed")
    /\ UNCHANGED <<dir, record, status, result, clients>>

\* An rm that cannot unlink a file stops in the same way.
ClientDies(c) ==
    /\ "client_dies" \in Faults
    /\ pc[c] \notin Returned
    /\ Return(c, "err")
    /\ UNCHANGED <<files, procs, cmd>>

\* Everything that runs is gone, the files stay.
Reboot ==
    /\ "reboot" \in Faults
    /\ supervisor' = [r \in Runs |->
                        IF supervisor[r] = "none" THEN "none" ELSE "gone"]
    /\ payload' = [r \in Runs |-> IF payload[r] = "none" THEN "none" ELSE "exited"]
    /\ pc' = [c \in Clients |-> IF pc[c] \in Returned THEN pc[c] ELSE "err"]
    /\ local' = [c \in Clients |-> NoCopy]
    /\ writers' = {}
    /\ UNCHANGED <<dir, record, status, result, cmd>>

-----------------------------------------------------------------------------
\* What a client does by itself once it has begun a command.
ClientStep(c) ==
    \/ Load(c) \/ ReadStatus(c) \/ ProbeProcess(c) \/ SaveRecord(c)
    \/ PsReturns(c)
    \/ MarkStarting(c) \/ SpawnSupervisor(c) \/ PublishPid(c)
    \/ NothingToStop(c) \/ SendSignal(c) \/ StopReturns(c) \/ PollAgain(c)
    \/ StopTimesOut(c)
    \/ UnlinkFirst(c) \/ UnlinkOther(c) \/ RemoveDir(c)

SupervisorStep(r) ==
    \/ LoadRecord(r) \/ WriteRunningStatus(r) \/ WriteRunningRecord(r)
    \/ PrepareFails(r) \/ SpawnPayload(r) \/ TruncateStatus(r)
    \/ WriteRuntimeStatus(r) \/ AbandonPayload(r) \/ ReapPayload(r)
    \/ ReportExit(r)

Next ==
    \/ \E c \in Clients : Begin(c) \/ ClientStep(c) \/ ClientDies(c)
    \/ \E r \in Runs : SupervisorStep(r) \/ PayloadExits(r) \/ KillSupervisor(r)
    \/ Reboot

Spec == Init /\ [][Next]_vars

\* The operating system schedules every process; a stop that keeps polling
\* passes its five-second deadline.  Nothing makes a payload exit, a user type
\* another command, or a failure happen.
Fairness ==
    /\ \A c \in Clients : WF_vars(ClientStep(c)) /\ SF_vars(StopTimesOut(c))
    /\ \A r \in Runs : WF_vars(SupervisorStep(r))

FairSpec == Spec /\ Fairness
-----------------------------------------------------------------------------
(* Properties.                                                             *)

\* Run r's supervisor no longer waits for anything: it is about to report the
\* exit, or has ended.
Over(r) == supervisor[r] \in Dead \cup {"reporting"} /\ payload[r] # "alive"

ExitIsReal(v) == v.state = "Exited" => v.pid # NoPid /\ Over(v.pid.run)

\* Whoever says "exited" - either file, or the copy a command acts on - names
\* a run whose supervisor waits for nothing any more, however the commands'
\* reads and writes interleave with the supervisor's and whatever fails.  It does
\* not say that the payload has ended: a supervisor that is killed, or gives its
\* payload up, leaves it running.  This is what makes the checks of start, stop
\* and rm on the refreshed state worth making.
ReportedExitIsReal ==
    ExitIsReal(record) /\ ExitIsReal(status) /\ \A c \in Clients : ExitIsReal(local[c])

ExitCodeIsOwn(v) ==
    v.state = "Exited" /\ v.exit # NoExit => v.exit = result[v.pid.run]

\* An exit code shown next to "exited" is the one of the run that pid belongs
\* to, for a container never started twice; it may be missing, as when the
\* supervisor died, never wrong.
FirstRunExitCode ==
    Started \subseteq {1} =>
        /\ ExitCodeIsOwn(record)
        /\ ExitCodeIsOwn(status)
        /\ \A c \in Clients : ExitCodeIsOwn(local[c])

\* status.json says "running", or is torn, only while the supervisor that
\* wrote it is still going to write it again, unless a signal or a reboot took
\* that supervisor away, or it could not write: run_managed then returns with the
\* file as it is (`?` after write_record and write_status).  No other path through
\* run_managed leaves it so.
RunningStatusHasWriter ==
    status.state \in {"Running", "Torn"} =>
        /\ supervisor[status.pid.run] \notin {"none", "boot", "loaded", "done"}
        /\ supervisor[status.pid.run] = "unwritten" => "write" \in Faults

\* The exit of a run is the last thing status.json ever says about that run,
\* even with another run's supervisor writing the same file.
ExitIsFinal ==
    [][status.state = "Exited" =>
         ~(status'.state \in {"Running", "Torn"} /\ status'.pid.run = status.pid.run)]_vars

Stopped(c) == pc[c] = "ok" /\ cmd[c] \in {"stop", "await"}

\* Every command returns: stop through its deadline even if the status never
\* changes again.
CommandsReturn ==
    \A c \in Clients : pc[c] \notin Returned ~> pc[c] \in Returned

\* Once the payload is gone its exit is reported, unless the supervisor was
\* killed, could not write, or the directory was removed.
ExitIsReported ==
    \A r \in Runs :
        supervisor[r] \in Attending /\ payload[r] = "exited" ~>
            \/ status.state = "Exited" /\ status.pid.run = r
            \/ supervisor[r] \in {"stopped", "killed", "gone", "unwritten"}
            \/ ~dir
=============================================================================
