------------------------------ MODULE GuestRpc ------------------------------
(***************************************************************************)
(* qbuild on macOS: every command of the host (platform/macos_host.rs)     *)
(* looks for a guest behind one unix socket, starts a supervisor if none   *)
(* answers, waits for it, and sends its request as a line of JSON; the     *)
(* guest daemon (guestd.rs) answers with lines, any number of events and   *)
(* then one response.  Nothing serialises the commands of the host, so two *)
(* may start a guest each.                                                 *)
(*                                                                         *)
(* The supervisor (tools/macos-supervisor, Daemon.run) clears the socket   *)
(* path and boots the guest.  The relay of its socket is a library's: it   *)
(* accepts connections a while before guestd answers them.  A guest bears  *)
(* the name of the command that started it.                                *)
(***************************************************************************)
EXTENDS Integers, Sequences, FiniteSets

CONSTANTS Hosts,     \* commands of the host
          None,      \* no guest, no frame
          Runners,   \* the commands that are a `run': their payload may never end
          MaxEvents  \* events a request emits, at most

ASSUME HostsFinite == IsFiniteSet(Hosts) /\ Runners \subseteq Hosts
ASSUME NoneIsNoHost == None \notin Hosts /\ None \notin Nat
ASSUME MaxEventsIsNat == MaxEvents \in Nat

VARIABLES at,         \* at[h]: where command h is
          guest,      \* guest[h]: the supervisor and guest that h started
          socket,     \* the guest whose socket is at the path, or None
          link,       \* link[h]: the guest h's connection goes to, or None
          task,       \* task[h]: the guest's handler of that connection
          emitted,    \* emitted[h]: events emitted by h's handler
          pending,    \* pending[h]: frames with a task that has yet to write them
          lock,       \* lock[h]: the frame that holds the connection's writer
          stream,     \* stream[h]: what was written and not yet read
          shown,      \* shown[h]: events h printed
          overlapped  \* a command went to start a guest while another was looking for
                      \* one, or one that had been started had not come up yet

rpcVars == <<at, guest, socket, link, task, emitted, pending, lock, stream, shown,
             overlapped>>

connection == <<link, task, emitted, pending, lock, stream, shown>>
frames == <<emitted, pending, lock, stream, shown>>

Returned == {"done", "failed", "garbled"}
Response == 0
Events == 1..MaxEvents

RpcInit ==
  /\ at = [h \in Hosts |-> "idle"]
  /\ guest = [h \in Hosts |-> "none"]
  /\ socket = None
  /\ link = [h \in Hosts |-> None]
  /\ task = [h \in Hosts |-> "none"]
  /\ emitted = [h \in Hosts |-> 0]
  /\ pending = [h \in Hosts |-> {}]
  /\ lock = [h \in Hosts |-> None]
  /\ stream = [h \in Hosts |-> <<>>]
  /\ shown = [h \in Hosts |-> <<>>]
  /\ overlapped = FALSE

Goto(h, step) == at' = [at EXCEPT ![h] = step]
Listens == socket # None /\ guest[socket] \in {"bound", "up"}

----------------------------------------------------------------------------
\* ensure_running: ping, and start a supervisor when nothing answers.

Connect(h) ==
  /\ Listens
  /\ link' = [link EXCEPT ![h] = socket]
  /\ task' = [task EXCEPT ![h] = "queued"]
  /\ UNCHANGED <<frames, guest, socket, overlapped>>

Ping(h) == at[h] \in {"idle", "polling"} /\ Goto(h, "pinging") /\ Connect(h)

Pong(h) ==
  /\ at[h] = "pinging" /\ task[h] = "ended" /\ Goto(h, "calling")
  /\ task' = [task EXCEPT ![h] = "none"] /\ link' = [link EXCEPT ![h] = None]
  /\ UNCHANGED <<frames, guest, socket, overlapped>>

\* Nobody promises that guestd will answer a connection the relay accepted, or that the
\* relay of a guest that still boots does not close it; the reads have no timeout.
Closed(h) == guest[link[h]] \in {"bound", "dead"}

\* No socket, nobody listening, or closed before an answer: no guest.  The first
\* time the command will start one, later it polls again.
Starting(x) ==
  \/ at[x] \in {"stale", "spawning"} \/ (at[x] = "pinging" /\ guest[x] = "none")
  \/ guest[x] \in {"clearing", "booting", "bound"}

Absent(h) ==
  IF guest[h] = "none"
    THEN /\ Goto(h, "stale")
         /\ overlapped' = (overlapped \/ \E x \in Hosts \ {h} : Starting(x))
    ELSE Goto(h, "polling") /\ UNCHANGED overlapped

PingRefused_EvenIfUp(h) ==
  /\ at[h] = "idle" /\ Absent(h)
  /\ UNCHANGED <<connection, guest, socket>>

PingRefused(h) ==
  /\ at[h] = "idle" /\ ~Listens /\ Absent(h)
  /\ UNCHANGED <<connection, guest, socket>>

PingClosed(h) ==
  /\ at[h] = "pinging" /\ Closed(h) /\ Absent(h)
  /\ task' = [task EXCEPT ![h] = "none"] /\ link' = [link EXCEPT ![h] = None]
  /\ UNCHANGED <<frames, guest, socket>>

\* Any other error of the ping ends the command.
PingReset(h) ==
  /\ at[h] = "pinging" /\ Closed(h) /\ Goto(h, "failed")
  /\ UNCHANGED <<connection, guest, socket, overlapped>>

RemoveStale(h) ==
  /\ at[h] = "stale" /\ Goto(h, "spawning")
  /\ socket' = None
  /\ UNCHANGED <<connection, guest, overlapped>>

SpawnSupervisor(h) ==
  /\ at[h] = "spawning"
  /\ \/ Goto(h, "polling") /\ guest' = [guest EXCEPT ![h] = "clearing"]
     \/ Goto(h, "failed") /\ UNCHANGED guest
  /\ UNCHANGED <<connection, socket, overlapped>>


Deadline(h) ==
  /\ at[h] = "polling" /\ Goto(h, "failed")
  /\ UNCHANGED <<connection, guest, socket, overlapped>>

----------------------------------------------------------------------------
\* send_request: one request, lines until the response.

Call(h) == at[h] = "calling" /\ Goto(h, "reading") /\ Connect(h)

CallRefused(h) ==
  /\ at[h] = "calling" /\ ~Listens /\ Goto(h, "failed")
  /\ UNCHANGED <<connection, guest, socket, overlapped>>

\* A line ends at the first newline: a whole frame is one body and its newline.
Body(f) == <<f, "body">>
Newline(f) == <<f, "newline">>
Lines(h) == {i \in 1..Len(stream[h]) : stream[h][i][2] = "newline"}
Whole(h) == stream[h][2][2] = "newline" /\ stream[h][1] = Body(stream[h][2][1])

ReadLine(h) ==
  /\ at[h] = "reading" /\ Lines(h) # {}
  /\ stream' = [stream EXCEPT ![h] = SubSeq(@, 3, Len(@))]
  /\ IF ~Whole(h)
       THEN Goto(h, "garbled") /\ UNCHANGED shown
       ELSE IF stream[h][1][1] = Response
              THEN Goto(h, "done") /\ UNCHANGED shown
              ELSE /\ shown' = [shown EXCEPT ![h] = Append(@, stream[h][1][1])]
                   /\ UNCHANGED at
  /\ UNCHANGED <<guest, socket, link, task, emitted, pending, lock, overlapped>>

\* End of file: at the end of a line, in the middle of the body of a frame, or after a
\* body whose newline did not come, which read_line returns like any other line.  (The
\* read that follows an event finds the end.)
ReadEnd(h) ==
  /\ at[h] = "reading" /\ Closed(h)
  /\ \/ Goto(h, "failed") /\ UNCHANGED shown
     \/ /\ guest[link[h]] = "dead" /\ stream[h] # <<>>
        /\ \/ Goto(h, "garbled") /\ UNCHANGED shown
           \/ stream[h][1][1] = Response /\ Goto(h, "done") /\ UNCHANGED shown
           \/ /\ stream[h][1][1] # Response /\ Goto(h, "failed")
              /\ shown' = [shown EXCEPT ![h] = Append(@, stream[h][1][1])]
  /\ UNCHANGED <<guest, socket, link, task, emitted, pending, lock, stream, overlapped>>

\* The user ends the command: its handler is not told.
Quit(h) ==
  /\ at[h] \notin Returned \cup {"idle"} /\ Goto(h, "failed")
  /\ UNCHANGED <<connection, guest, socket, overlapped>>

----------------------------------------------------------------------------
\* The supervisor that h started, the boot of its guest, and the end of it.

Advance(h, from, to) == guest[h] = from /\ guest' = [guest EXCEPT ![h] = to]

ClearSocket(h) ==
  /\ Advance(h, "clearing", "booting") /\ socket' = None
  /\ UNCHANGED <<connection, at, overlapped>>

Relay(h) ==
  /\ Advance(h, "booting", "bound") /\ socket' = h
  /\ UNCHANGED <<connection, at, overlapped>>

Serve(h) ==
  /\ Advance(h, "bound", "up")
  /\ UNCHANGED <<connection, at, socket, overlapped>>

GuestEnds(h) ==
  /\ guest[h] \notin {"none", "dead"}
  /\ guest' = [guest EXCEPT ![h] = "dead"]
  /\ UNCHANGED <<connection, at, socket, overlapped>>

----------------------------------------------------------------------------
\* guestd: one task per connection, one more per event.  A run waits for its payload
\* in its task, and so holds a thread of the daemon as long as it lasts: the tasks of
\* other connections may go on meanwhile, or may not.

IsRun(h) == h \in Runners /\ at[h] # "pinging"
HeldBy(g) == {h \in Hosts : link[h] = g /\ task[h] = "running"}
Served(h) == link[h] # None /\ guest[link[h]] = "up"

AnswerPing(h) ==
  /\ Served(h) /\ task[h] = "queued" /\ at[h] = "pinging"
  /\ task' = [task EXCEPT ![h] = "ended"]
  /\ UNCHANGED <<frames, at, guest, socket, link, overlapped>>

StartRun(h) ==
  /\ Served(h) /\ task[h] = "queued" /\ at[h] = "reading" /\ IsRun(h)
  /\ task' = [task EXCEPT ![h] = "running"]
  /\ UNCHANGED <<frames, at, guest, socket, link, overlapped>>

\* `emit' spawns the task that writes the event, and does not wait for it.
Emit(h) ==
  /\ Served(h) /\ task[h] = "queued" /\ at[h] = "reading" /\ ~IsRun(h)
  /\ emitted[h] < MaxEvents
  /\ emitted' = [emitted EXCEPT ![h] = @ + 1]
  /\ pending' = [pending EXCEPT ![h] = @ \cup {emitted[h] + 1}]
  /\ UNCHANGED <<at, guest, socket, link, task, lock, stream, shown, overlapped>>

\* execute() has returned: its result, or its error, is a frame to write.
Respond(h) ==
  /\ \/ Served(h) /\ task[h] = "queued" /\ at[h] # "pinging" /\ ~IsRun(h)
     \/ Served(h) /\ task[h] = "running"
  /\ task' = [task EXCEPT ![h] = "ended"]
  /\ pending' = [pending EXCEPT ![h] = @ \cup {Response}]
  /\ UNCHANGED <<at, guest, socket, link, emitted, lock, stream, shown, overlapped>>

\* The writer is locked over the two writes of a frame.  (On a connection that the
\* host has closed the writes fail, unseen.)
MayWrite_Unlocked(h, f) == lock[h] # f
MayWrite(h, f) == lock[h] = None

WriteBody(h) ==
  /\ Served(h) /\ at[h] = "reading"
  /\ \E f \in pending[h] :
       /\ MayWrite(h, f)
       /\ lock' = [lock EXCEPT ![h] = f]
       /\ stream' = [stream EXCEPT ![h] = Append(@, Body(f))]
  /\ UNCHANGED <<at, guest, socket, link, task, emitted, pending, shown, overlapped>>

WriteNewline(h) ==
  /\ Served(h) /\ at[h] = "reading" /\ lock[h] # None
  /\ stream' = [stream EXCEPT ![h] = Append(@, Newline(lock[h]))]
  /\ pending' = [pending EXCEPT ![h] = @ \ {lock[h]}]
  /\ lock' = [lock EXCEPT ![h] = None]
  /\ UNCHANGED <<at, guest, socket, link, task, emitted, shown, overlapped>>

HostStep(h) ==
  \/ Pong(h) \/ PingClosed(h) \/ PingReset(h) \/ RemoveStale(h) \/ SpawnSupervisor(h)
  \/ Deadline(h) \/ Call(h) \/ CallRefused(h) \/ ReadLine(h) \/ ReadEnd(h)

SupervisorStep(h) == ClearSocket(h) \/ Relay(h) \/ Serve(h)

GuestStep(h) ==
  AnswerPing(h) \/ StartRun(h) \/ Emit(h) \/ Respond(h) \/ WriteBody(h) \/ WriteNewline(h)

RpcNext ==
  \E h \in Hosts :
    \/ Ping(h) \/ PingRefused(h) \/ HostStep(h) \/ Quit(h)
    \/ SupervisorStep(h) \/ GuestEnds(h) \/ GuestStep(h)

RpcSpec == RpcInit /\ [][RpcNext]_rpcVars

\* A command runs on, and each turn of its polling looks at the deadline.  tokio
\* schedules the daemon's tasks fairly as long as none of them keeps a thread.  Nobody
\* promises that a command starts, that a guest boots or that a payload ends.
FreeStep(h) == HeldBy(link[h]) = {} /\ GuestStep(h)

RpcFairness ==
  \A h \in Hosts :
    WF_rpcVars(HostStep(h)) /\ SF_rpcVars(Deadline(h)) /\ WF_rpcVars(FreeStep(h))

RpcFairSpec == RpcSpec /\ RpcFairness

----------------------------------------------------------------------------
\* Properties.

RpcTypeOK ==
  /\ at \in [Hosts -> {"idle", "pinging", "stale", "spawning", "polling", "calling",
                       "reading"} \cup Returned]
  /\ guest \in [Hosts -> {"none", "clearing", "booting", "bound", "up", "dead"}]
  /\ socket \in Hosts \cup {None}
  /\ link \in [Hosts -> Hosts \cup {None}]
  /\ task \in [Hosts -> {"none", "queued", "running", "ended"}]
  /\ emitted \in [Hosts -> 0..MaxEvents]
  /\ pending \in [Hosts -> SUBSET (Events \cup {Response})]
  /\ lock \in [Hosts -> Events \cup {Response, None}]
  /\ shown \in [Hosts -> Seq(Events)]
  /\ overlapped \in BOOLEAN

LiveGuests == {h \in Hosts : guest[h] \notin {"none", "dead"}}

\* Two guests never share the one disk, and a guest that is up is the one behind the
\* socket, unless a command once went to start a guest while another was looking for
\* one, or while a guest was still on its way to come up, whether or not the command
\* that started that one was still there: MACOS.md's "one persistent Linux guest" rests
\* on nothing else.
OneGuest ==
  overlapped \/ /\ \A g, h \in LiveGuests : g = h
                /\ \A g \in Hosts : guest[g] = "up" => socket = g

\* A command meets a line it cannot read only where its guest died in the middle of
\* writing it, and it prints no event twice, though every event is written by a task of
\* its own next to the response (handle_stream).
FramesAreWhole ==
  \A h \in Hosts :
    /\ at[h] = "garbled" => guest[link[h]] = "dead"
    /\ \A i, j \in DOMAIN shown[h] : shown[h][i] = shown[h][j] => i = j

\* A command that is no run returns once it has started, unless it is left on a
\* connection to a guest whose daemon is not there yet, or one of whose threads waits
\* for a payload: what bounds the wait for a guest is the deadline of ensure_running,
\* and no read is bounded.
Held(h) == link[h] # None /\ (guest[link[h]] = "bound" \/ HeldBy(link[h]) # {})

============================================================================
