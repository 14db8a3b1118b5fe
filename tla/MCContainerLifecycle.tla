------------------------ MODULE MCContainerLifecycle ------------------------
(***************************************************************************)
(* Model-checking instances of ContainerLifecycle: one user who may start  *)
(* the container MaxRuns times, or all clients with one start between them.*)
(***************************************************************************)
EXTENDS ContainerLifecycle

VARIABLE users  \* the clients that issue commands

AnyClient == CHOOSE c \in Clients : TRUE

MCInit == Init /\ users \in {Clients, {AnyClient}}

OneUser == Cardinality(users) = 1

\* The bounds.  One user: no ps once something was started (stop and rm write the
\* record back as it does); after a second start no interrupted command, no reboot,
\* and only stops kill supervisors.  Several: the same from the beginning, and no
\* second start once one is begun, that one being AnyClient's (they are alike).
StartBegun == Started # {} \/ \E c \in Clients : cmd[c] = "start" /\ pc[c] \notin Returned

One ==
    /\ \/ \E c \in users : \/ Begin(c) /\ (cmd'[c] = "ps" => Started = {})
                          \/ ClientStep(c)
       \/ \E r \in Runs : SupervisorStep(r) \/ PayloadExits(r)
       \/ /\ Started \subseteq {1}
          /\ Reboot \/ KillSupervisor(1) \/ \E c \in users : ClientDies(c)
    /\ \A c \in Clients \ users : UNCHANGED pc[c]

Several ==
    \/ \E c \in Clients :
          \/ /\ Begin(c) /\ cmd'[c] # "ps"
             /\ cmd'[c] = "start" => c = AnyClient /\ ~StartBegun
          \/ ClientStep(c)
    \/ \E r \in Runs : SupervisorStep(r) \/ PayloadExits(r)

\* A payload that was waited for ends with another code than a failed run's.
ExitsTold ==
    \A r \in Runs :
        supervisor[r] = "waiting" /\ supervisor'[r] = "reporting" => result'[r] # FailureCode

MCNext == UNCHANGED users /\ (IF OneUser THEN One ELSE Several) /\ ExitsTold

MCSpec == MCInit /\ [][MCNext]_<<vars, users>>
MCFairSpec == MCSpec /\ Fairness

\* The run has ended, supervisor and payload.  Two payloads run on and nobody waits
\* for them: the one its supervisor itself gave up, reporting the run as failed
\* (runtime.rs:188, :192), and the one whose supervisor something other than a stop
\* killed, between the look at status.json and the probe of the pid.
Ended(r) ==
    /\ supervisor[r] \in Dead
    /\ \/ payload[r] \in {"none", "exited", "abandoned"}
       \/ supervisor[r] = "killed"

\* For one user, and a container never started twice: when `stop` returns Ok, the
\* run has ended, and so it stays until the next command.  In particular no stop
\* whose own signal took the supervisor away from a running payload says so.
FirstRunStopped ==
    OneUser /\ Started \subseteq {1} =>
        \A c \in users : Stopped(c) => \A r \in Started : Ended(r)

\* For one user, and a container never started twice: `rm` takes a file or the
\* directory away only from a run that has ended, whose supervisor writes none of
\* them again.  rm may stop between any two of its steps, and either file may be
\* the one that is left.
FirstRunRemovedOnlyWhenOver ==
    /\ OneUser /\ Started = {1}
    /\ ~dir \/ record = Absent \/ (status = Absent /\ payload[1] # "none")
    => Ended(1)

\* "Persistent container `stop` now waits for the process to exit, so
\* immediate `rm` after `stop` is race-free" (BENCH.md): when stop has
\* returned Ok, and no command was begun since, no payload of the container is
\* running.
StopWaitsForExit ==
    \A c \in Clients : Stopped(c) => \A r \in Runs : payload[r] # "alive"
=============================================================================
