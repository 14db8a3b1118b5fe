--------------------------- MODULE ContainerNames ---------------------------
(***************************************************************************)
(* The containers of one store, how they get their names and are found by  *)
(* them: create, rm, ps, and the lookup that start, stop and logs begin    *)
(* with (containers.rs).  A container is a directory with container.json   *)
(* in it; a name is looked up by reading one directory after the other,    *)
(* and nothing is locked.                                                  *)
(*                                                                         *)
(* What the record and the status say of a run, and the supervisor, which  *)
(* writes both, are in ContainerLifecycle: here a command writes the       *)
(* record back or does not, and finds the container active or not.         *)
(***************************************************************************)
EXTENDS Naturals, FiniteSets

CONSTANTS
    Clients,   \* processes executing qbuild commands
    Ids,       \* bound on the containers ever made: the ids they get
    Names,     \* names a user gives
    MaxLost,   \* bound on the containers that a failed command has left behind
    Anonymous, \* name: None
    Unborn     \* an id not given to a container yet

ASSUME NamesAssumption ==
    /\ Anonymous \notin Names \cup Ids
    /\ Unborn \notin Names \cup Ids \cup {Anonymous}
ASSUME BoundsAssumption == IsFiniteSet(Ids) /\ MaxLost \in Nat

VARIABLES
    dirs,     \* the directories of the store
    recorded, \* those with container.json in them
    temp,     \* the clients whose temporary file is in the directory in hand
    litter,   \* the directories with a file besides: a log, a status, or a temporary
              \* file that nobody will rename
    name,     \* name[i]: the name that container i was created with
    cmd,      \* cmd[c]: the command client c is executing
    pc,       \* pc[c]: its next step
    arg,      \* arg[c]: the name it creates or the id or name it looks for
    entry,    \* entry[c]: the container in hand
    opened,   \* opened[c]: the directories there were when it began to look
    seen,     \* seen[c]: those it was shown since
    missed,   \* history: those with i's name that were there when its creator began
              \* to look
    lost,     \* history: containers in hand of a command that was killed or could
              \* not write
    refilled  \* history: those that a file was put in while an rm was emptying them

files == <<dirs, recorded, temp, litter>>
locals == <<cmd, pc, arg, entry, opened, seen>>
history == <<missed, lost, refilled>>
vars == <<files, name, locals, history>>

Used == {i \in Ids : name[i] # Unborn}

Commands == {"create", "remove", "show", "list"}
Steps == {"returned", "resolve", "open", "walk", "read", "load", "refresh", "save", "mkdir",
          "write", "unlink", "rmdir"}

TypeOK ==
    /\ dirs \subseteq Used
    /\ recorded \subseteq dirs
    /\ temp \subseteq {c \in Clients : pc[c] = "save" /\ entry[c] \in dirs}
    /\ litter \subseteq dirs
    /\ name \in [Ids -> Names \cup {Anonymous, Unborn}]
    /\ cmd \in [Clients -> Commands]
    /\ pc \in [Clients -> Steps]
    /\ arg \in [Clients -> Names \cup Ids \cup {Anonymous}]
    /\ entry \in [Clients -> Ids \cup {Unborn}]
    /\ opened \in [Clients -> SUBSET Ids]
    /\ seen \in [Clients -> SUBSET Ids]
    /\ missed \in [Ids -> SUBSET Ids]
    /\ lost \cup refilled \subseteq Used

Init ==
    /\ dirs = {}
    /\ recorded = {}
    /\ temp = {}
    /\ litter = {}
    /\ name = [i \in Ids |-> Unborn]
    /\ cmd = [c \in Clients |-> "list"]
    /\ pc = [c \in Clients |-> "returned"]
    /\ arg = [c \in Clients |-> Anonymous]
    /\ entry = [c \in Clients |-> Unborn]
    /\ opened = [c \in Clients |-> {}]
    /\ seen = [c \in Clients |-> {}]
    /\ missed = [i \in Ids |-> {}]
    /\ lost = {}
    /\ refilled = {}

Goto(c, step) == pc' = [pc EXCEPT ![c] = step]

\* The command has its container, or gives up, and looks no more.
StopLooking(c) ==
    /\ arg' = [arg EXCEPT ![c] = Anonymous]
    /\ opened' = [opened EXCEPT ![c] = {}]
    /\ seen' = [seen EXCEPT ![c] = {}]

\* What a command prints, and whether that is an error, is left out.
Return(c) ==
    /\ Goto(c, "returned")
    /\ cmd' = [cmd EXCEPT ![c] = "list"]
    /\ entry' = [entry EXCEPT ![c] = Unborn]
    /\ StopLooking(c)

\* The command goes on to a step, with what it has found or to find more.
GoOn(c, step) ==
    /\ Goto(c, step)
    /\ entry' = IF step = "walk" THEN [entry EXCEPT ![c] = Unborn] ELSE entry
    /\ UNCHANGED <<cmd, arg, opened, seen>>

\* The bound: a create is begun only while an id is left for it.
IdsLeft ==
    Cardinality(Used) + Cardinality({c \in Clients : cmd[c] = "create"
        /\ pc[c] \in {"open", "walk", "read", "mkdir"}}) < Cardinality(Ids)

-----------------------------------------------------------------------------
\* An id that was never there, or is there no more, is looked for like a name
\* that nobody has.
Begin(c) ==
    /\ pc[c] = "returned"
    /\ \/ \E n \in Names \cup {Anonymous} :
            /\ IdsLeft
            /\ cmd' = [cmd EXCEPT ![c] = "create"]
            /\ arg' = [arg EXCEPT ![c] = n]
            /\ Goto(c, IF n = Anonymous THEN "mkdir" ELSE "open")
       \/ \E k \in {"remove", "show"}, x \in Names \cup dirs :
            /\ cmd' = [cmd EXCEPT ![c] = k]
            /\ arg' = [arg EXCEPT ![c] = x]
            /\ Goto(c, "resolve")
       \/ /\ cmd' = [cmd EXCEPT ![c] = "list"]
          /\ arg' = [arg EXCEPT ![c] = Anonymous]
          /\ Goto(c, "open")
    /\ UNCHANGED <<files, name, entry, opened, seen, history>>

\* resolve_id: what is an id is no name.
Resolve(c) ==
    /\ pc[c] = "resolve"
    /\ IF arg[c] \in recorded
       THEN entry' = [entry EXCEPT ![c] = arg[c]] /\ Goto(c, "load") /\ StopLooking(c)
       ELSE GoOn(c, "open")
    /\ UNCHANGED <<files, name, cmd, history>>

-----------------------------------------------------------------------------
(***************************************************************************)
(* read_dir: it shows every directory that is there from the beginning to  *)
(* the end, once, and any of those made or removed meanwhile.              *)
(***************************************************************************)
OpenDir(c) ==
    /\ pc[c] = "open"
    /\ opened' = [opened EXCEPT ![c] = dirs]
    /\ seen' = [seen EXCEPT ![c] = {}]
    /\ Goto(c, "walk")
    /\ UNCHANGED <<files, name, cmd, arg, entry, history>>

NextEntry(c) ==
    /\ pc[c] = "walk"
    /\ \E i \in (opened[c] \cup dirs) \ seen[c] :
        /\ entry' = [entry EXCEPT ![c] = i]
        /\ seen' = [seen EXCEPT ![c] = @ \cup {i}]
    /\ Goto(c, "read")
    /\ UNCHANGED <<files, name, cmd, arg, opened, history>>

EndOfDir(c) ==
    /\ pc[c] = "walk"
    /\ opened[c] \cap dirs \subseteq seen[c]
    /\ \/ cmd[c] = "create" /\ GoOn(c, "mkdir")
       \/ cmd[c] # "create" /\ Return(c)
    /\ UNCHANGED <<files, name, history>>

\* Mutant: a directory without container.json is passed over.
ReadEntry_Skips(c) ==
    /\ pc[c] = "read"
    /\ \/ /\ entry[c] \in recorded
          /\ \/ cmd[c] = "list" /\ GoOn(c, "refresh")
             \/ /\ cmd[c] # "list" /\ name[entry[c]] # arg[c]
                /\ GoOn(c, "walk")
             \/ cmd[c] = "create" /\ name[entry[c]] = arg[c] /\ Return(c)
             \/ /\ cmd[c] \in {"remove", "show"} /\ name[entry[c]] = arg[c]
                /\ Goto(c, "load") /\ StopLooking(c) /\ UNCHANGED <<cmd, entry>>
       \/ entry[c] \notin recorded /\ GoOn(c, "walk")
    /\ UNCHANGED <<files, name, history>>

\* load of what read_dir has shown: a missing container.json ends the command.
ReadEntry(c) ==
    /\ pc[c] = "read"
    /\ \/ /\ entry[c] \in recorded
          /\ \/ cmd[c] = "list" /\ GoOn(c, "refresh")
             \/ /\ cmd[c] # "list" /\ name[entry[c]] # arg[c]
                /\ GoOn(c, "walk")
             \/ cmd[c] = "create" /\ name[entry[c]] = arg[c] /\ Return(c)
             \/ /\ cmd[c] \in {"remove", "show"} /\ name[entry[c]] = arg[c]
                /\ Goto(c, "load") /\ StopLooking(c) /\ UNCHANGED <<cmd, entry>>
       \/ entry[c] \notin recorded /\ Return(c)
    /\ UNCHANGED <<files, name, history>>

-----------------------------------------------------------------------------
(***************************************************************************)
(* create                                                                  *)
(***************************************************************************)
MakeDir(c) ==
    /\ pc[c] = "mkdir"
    /\ \E i \in Ids \ Used :
        /\ dirs' = dirs \cup {i}
        /\ name' = [name EXCEPT ![i] = arg[c]]
        /\ entry' = [entry EXCEPT ![c] = i]
        /\ missed' = [missed EXCEPT ![i] = {j \in opened[c] : name[j] = arg[c]}]
    /\ Goto(c, "write") /\ StopLooking(c)
    /\ UNCHANGED <<recorded, temp, litter, cmd, lost, refilled>>

\* write_record: nobody removes a directory that has no record yet, so what is
\* done in it is one step.
WriteRecord(c) ==
    /\ pc[c] = "write"
    /\ recorded' = recorded \cup {entry[c]}
    /\ Return(c)
    /\ UNCHANGED <<dirs, temp, litter, name, history>>

-----------------------------------------------------------------------------
(***************************************************************************)
(* rm, ps, and what other commands do with the container they found        *)
(***************************************************************************)
LoadRecord(c) ==
    /\ pc[c] = "load"
    /\ \/ entry[c] \in recorded /\ GoOn(c, "refresh")
       \/ entry[c] \notin recorded /\ Return(c)
    /\ UNCHANGED <<files, name, history>>

\* Where the command goes from a refresh that went well.  start and stop, which
\* "show" stands for, write the record more than once.
AfterRefresh(c) ==
    \/ cmd[c] = "list" /\ GoOn(c, "walk")
    \/ cmd[c] = "remove" /\ GoOn(c, "unlink")
    \/ cmd[c] = "show" /\ (GoOn(c, "refresh") \/ Return(c))

\* Mutant: the record's directory is made if it is not there.
Refresh_MakesDir(c) ==
    /\ pc[c] = "refresh"
    /\ \/ UNCHANGED <<dirs, temp>> /\ (AfterRefresh(c) \/ Return(c))
       \/ /\ dirs' = dirs \cup {entry[c]}
          /\ temp' = temp \cup {c}
          /\ GoOn(c, "save")
    /\ UNCHANGED <<recorded, litter, name, history>>

\* refresh_state: the record is written back where there is a status, through a
\* temporary file.  It may also fail, and rm ends with a container that is active.
Refresh(c) ==
    /\ pc[c] = "refresh"
    /\ \/ UNCHANGED temp /\ (AfterRefresh(c) \/ Return(c))
       \/ entry[c] \in dirs /\ temp' = temp \cup {c} /\ GoOn(c, "save")
    /\ UNCHANGED <<dirs, recorded, litter, name, history>>

\* The rename, which fails if rm has taken the temporary file.
SaveRecord(c) ==
    /\ pc[c] = "save"
    /\ \/ c \in temp /\ recorded' = recorded \cup {entry[c]} /\ AfterRefresh(c)
       \/ c \notin temp /\ UNCHANGED recorded /\ Return(c)
    /\ temp' = temp \ {c}
    /\ UNCHANGED <<dirs, litter, name, history>>

\* start makes the log files, a supervisor status.json, in a directory that is
\* there, whatever has become of the record.
LeaveFile(c) ==
    /\ pc[c] = "refresh" /\ cmd[c] = "show"
    /\ entry[c] \in dirs
    /\ litter' = litter \cup {entry[c]}
    /\ refilled' = IF \E d \in Clients : pc[d] \in {"unlink", "rmdir"} /\ entry[d] = entry[c]
                   THEN refilled \cup {entry[c]} ELSE refilled
    /\ UNCHANGED <<dirs, recorded, temp, name, locals, missed, lost>>

SavingIn(i) == {c \in temp : entry[c] = i}

\* remove_dir_all: what it has read in the directory, which need not be what was put
\* there since, then the directory if that is all.
Unlink(c) ==
    /\ pc[c] = "unlink"
    /\ recorded' = recorded \ {entry[c]}
    /\ temp' = temp \ SavingIn(entry[c])
    /\ \/ litter' = litter \ {entry[c]} /\ refilled' = refilled \ {entry[c]}
       \/ entry[c] \in refilled /\ UNCHANGED <<litter, refilled>>
    /\ \/ entry[c] \in dirs /\ GoOn(c, "rmdir")
       \/ entry[c] \notin dirs /\ Return(c)
    /\ UNCHANGED <<dirs, name, missed, lost>>

\* History ends with what it is about.
Forget(i) ==
    /\ missed' = [j \in Ids |-> IF j = i THEN {} ELSE missed[j] \ {i}]
    /\ lost' = lost \ {i}
    /\ refilled' = refilled \ {i}

\* Mutant: rm leaves the directory.
RemoveDir_Kept(c) ==
    /\ pc[c] = "rmdir"
    /\ Return(c)
    /\ UNCHANGED <<files, name, history>>

RemoveDir(c) ==
    /\ pc[c] = "rmdir"
    /\ IF entry[c] \in dirs \ (recorded \cup litter) /\ SavingIn(entry[c]) = {}
       THEN dirs' = dirs \ {entry[c]} /\ Forget(entry[c])
       ELSE UNCHANGED <<dirs, history>>
    /\ Return(c)
    /\ UNCHANGED <<recorded, temp, litter, name>>

-----------------------------------------------------------------------------
Lose(i) ==
    /\ Cardinality(lost) < MaxLost
    /\ lost' = lost \cup {i}
    /\ UNCHANGED <<missed, refilled>>

\* The record cannot be written: the temporary file is removed, a new directory
\* is not.
WriteFails(c) ==
    /\ pc[c] = "write" \/ c \in temp
    /\ temp' = temp \ {c}
    /\ Lose(entry[c])
    /\ Return(c)
    /\ UNCHANGED <<dirs, recorded, litter, name>>

\* A command is killed.
Dies(c) ==
    /\ pc[c] # "returned"
    /\ IF pc[c] \in {"write", "rmdir"} \/ c \in temp
       THEN Lose(entry[c])
       ELSE UNCHANGED history
    /\ temp' = temp \ {c}
    /\ litter' = IF c \in temp THEN litter \cup {entry[c]} ELSE litter
    /\ Return(c)
    /\ UNCHANGED <<dirs, recorded, name>>

Step(c) ==
    \/ Resolve(c) \/ OpenDir(c) \/ NextEntry(c) \/ EndOfDir(c) \/ ReadEntry(c)
    \/ MakeDir(c) \/ WriteRecord(c) \/ LoadRecord(c) \/ Refresh(c)
    \/ SaveRecord(c) \/ LeaveFile(c) \/ Unlink(c) \/ RemoveDir(c)

Next == \E c \in Clients : Begin(c) \/ Step(c) \/ WriteFails(c) \/ Dies(c)

Spec == Init /\ [][Next]_vars

-----------------------------------------------------------------------------
(***************************************************************************)
(* Properties                                                              *)
(***************************************************************************)
\* Two containers get one name only from two creates at once, each of which
\* opened the directory before the other had made its own: a check that is not
\* atomic, but that nothing else gets past (create, find_id_by_name).
SharedNamesOverlapped ==
    \A i \in dirs : missed[i] \cap dirs = {}

\* A directory without container.json, which makes every ps and every lookup by
\* name fail, is in the hands of a command that will remove it or write that
\* file, or comes from one of two accidents: a command was killed or could not
\* write, or a start or a supervisor made a file there while rm was emptying it,
\* so that rm fails (create, start, write_record, refresh_state, remove).
HalfDirHasOwner ==
    dirs \ recorded \subseteq lost \cup refilled \cup
        {entry[c] : c \in temp \cup {d \in Clients : pc[d] \in {"write", "rmdir"}}}

\* What rm has removed does not come back, whoever still holds its record and
\* writes it (refresh_state, write_record).
GoneForGood == [][\A i \in Used \ dirs : i \notin dirs' \cup recorded']_vars
=============================================================================
