--------------------------- MODULE GuestRpcProofs ---------------------------
(***************************************************************************)
(* For any number of commands of the host: types, that it takes a command  *)
(* that goes to start a guest while another is looking for one, or a guest *)
(* is on its way, to give the machine two (OneGuest), and what the lines a *)
(* command reads are (FramesAreWhole).                                     *)
(***************************************************************************)
EXTENDS GuestRpc, TLAPS

Frame == Events \cup {Response}
Written == Frame \X {"body", "newline"}

\* What a connection's stream carries are pieces of frames.
RpcTyped == RpcTypeOK /\ stream \in [Hosts -> Seq(Written)]

LEMMA InitTyped ==
  ASSUME RpcInit
  PROVE  RpcTyped
<1>1. <<>> \in Seq(Events) /\ <<>> \in Seq(Written) /\ 0 \in 0..MaxEvents
  BY MaxEventsIsNat
<1> QED BY <1>1 DEF RpcInit, RpcTyped, RpcTypeOK

LEMMA TypeStep ==
  ASSUME RpcTyped, [RpcNext]_rpcVars
  PROVE  RpcTyped'
<1> USE NoneIsNoHost, MaxEventsIsNat
    DEF RpcTyped, RpcTypeOK, Goto, connection, frames, Frame, Written, Returned, Response, Events
<1>1. ASSUME NEW h \in Hosts, Connect(h), at' \in [Hosts -> {"pinging", "reading"} \cup {at[x] : x \in Hosts}]
      PROVE  RpcTyped'
  BY <1>1 DEF Connect, Listens
<1>2. ASSUME NEW h \in Hosts, Absent(h)
      PROVE  at' \in [Hosts -> {"idle", "pinging", "stale", "spawning", "polling", "calling",
                       "reading"} \cup Returned] /\ overlapped' \in BOOLEAN
  BY <1>2 DEF Absent, Starting
<1>3. ASSUME NEW h \in Hosts, Ping(h) \/ PingRefused(h) \/ Quit(h) \/ GuestEnds(h) PROVE RpcTyped'
  <2>1. CASE Ping(h) BY <1>1, <2>1 DEF Ping
  <2>2. CASE PingRefused(h) BY <1>2, <2>2 DEF PingRefused
  <2>3. CASE Quit(h) BY <2>3 DEF Quit
  <2>4. CASE GuestEnds(h) BY <2>4 DEF GuestEnds
  <2> QED BY <1>3, <2>1, <2>2, <2>3, <2>4
<1>4. ASSUME NEW h \in Hosts, HostStep(h) PROVE RpcTyped'
  <2>1. CASE Pong(h) BY <2>1 DEF Pong
  <2>2. CASE PingClosed(h) BY <1>2, <2>2 DEF PingClosed
  <2>3. CASE PingReset(h) BY <2>3 DEF PingReset
  <2>4. CASE RemoveStale(h) BY <2>4 DEF RemoveStale
  <2>5. CASE SpawnSupervisor(h) BY <2>5 DEF SpawnSupervisor
  <2>6. CASE Deadline(h) BY <2>6 DEF Deadline
  <2>7. CASE Call(h) BY <1>1, <2>7 DEF Call
  <2>8. CASE CallRefused(h) BY <2>8 DEF CallRefused
  <2>9. CASE ReadLine(h)
    <3>1. Len(stream[h]) \in Nat /\ Len(stream[h]) # 0 /\ stream[h] \in Seq(Written)
      BY <2>9 DEF ReadLine, Lines
    <3>2. stream[h][1] \in Written
      BY <3>1
    <3>3. stream[h][1][1] # Response => stream[h][1][1] \in Events
      BY <3>2
    <3>4. SubSeq(stream[h], 3, Len(stream[h])) \in Seq(Written)
      BY <3>1
    <3>5. stream' \in [Hosts -> Seq(Written)]
      BY <2>9, <3>4 DEF ReadLine
    <3>6. CASE at' = [at EXCEPT ![h] = "garbled"] /\ UNCHANGED shown
      BY <2>9, <3>5, <3>6 DEF ReadLine
    <3>7. CASE at' = [at EXCEPT ![h] = "done"] /\ UNCHANGED shown
      BY <2>9, <3>5, <3>7 DEF ReadLine
    <3>8. CASE /\ stream[h][1][1] # Response /\ UNCHANGED at
               /\ shown' = [shown EXCEPT ![h] = Append(@, stream[h][1][1])]
      BY <2>9, <3>3, <3>5, <3>8, SMTT(30) DEF ReadLine
    <3> QED BY <2>9, <3>6, <3>7, <3>8 DEF ReadLine
  <2>10. CASE ReadEnd(h)
    <3>1. stream[h] # <<>> => stream[h][1] \in Written
      <4>1. stream[h] \in Seq(Written)
        OBVIOUS
      <4> QED BY <4>1
    <3>2. shown' \in [Hosts -> Seq(Events)]
      <4>1. CASE shown' = shown BY <4>1
      <4>2. CASE /\ stream[h] # <<>> /\ stream[h][1][1] # Response
                 /\ shown' = [shown EXCEPT ![h] = Append(@, stream[h][1][1])]
        <5>1. stream[h][1][1] \in Events
          BY <3>1, <4>2
        <5> QED BY <4>2, <5>1
      <4> QED BY <2>10, <4>1, <4>2 DEF ReadEnd
    <3>3. at' \in [Hosts -> Returned \cup {at[x] : x \in Hosts}]
      BY <2>10 DEF ReadEnd
    <3>4. UNCHANGED <<guest, socket, link, task, emitted, pending, lock, stream, overlapped>>
      BY <2>10 DEF ReadEnd
    <3> QED BY <3>2, <3>3, <3>4
  <2> QED BY <1>4, <2>1, <2>2, <2>3, <2>4, <2>5, <2>6, <2>7, <2>8, <2>9, <2>10 DEF HostStep
<1>5. ASSUME NEW h \in Hosts, SupervisorStep(h) PROVE RpcTyped'
  BY <1>5 DEF SupervisorStep, ClearSocket, Relay, Serve, Advance
<1>6. ASSUME NEW h \in Hosts, GuestStep(h) PROVE RpcTyped'
  <2>1. CASE AnswerPing(h) BY <2>1 DEF AnswerPing
  <2>2. CASE StartRun(h) BY <2>2 DEF StartRun
  <2>3. CASE Emit(h)
    <3>1. emitted[h] + 1 \in Events
      BY <2>3 DEF Emit
    <3> QED BY <2>3, <3>1 DEF Emit
  <2>4. CASE Respond(h) BY <2>4 DEF Respond
  <2>5. CASE WriteBody(h)
    <3>1. PICK f \in pending[h] : /\ lock' = [lock EXCEPT ![h] = f]
                                  /\ stream' = [stream EXCEPT ![h] = Append(@, Body(f))]
      BY <2>5 DEF WriteBody
    <3>2. f \in Frame /\ Body(f) \in Written
      BY DEF Body
    <3>3. stream' \in [Hosts -> Seq(Written)]
      BY <3>1, <3>2
    <3> QED BY <2>5, <3>1, <3>2, <3>3 DEF WriteBody
  <2>6. CASE WriteNewline(h)
    <3>1. Newline(lock[h]) \in Written
      BY <2>6 DEF WriteNewline, Newline
    <3>2. stream' \in [Hosts -> Seq(Written)]
      BY <2>6, <3>1 DEF WriteNewline
    <3> QED BY <2>6, <3>2 DEF WriteNewline
  <2> QED BY <1>6, <2>1, <2>2, <2>3, <2>4, <2>5, <2>6 DEF GuestStep
<1>7. CASE UNCHANGED rpcVars BY <1>7 DEF rpcVars
<1> QED BY <1>3, <1>4, <1>5, <1>6, <1>7 DEF RpcNext

\* Every variable keeps its type.
THEOREM RpcTypeCorrect == RpcSpec => []RpcTypeOK
<1>1. RpcInit => RpcTyped
  BY InitTyped
<1>2. RpcTyped /\ [RpcNext]_rpcVars => RpcTyped'
  BY TypeStep
<1>3. RpcTyped => RpcTypeOK
  BY DEF RpcTyped
<1> QED BY <1>1, <1>2, <1>3, PTL DEF RpcSpec

----------------------------------------------------------------------------
\* OneGuest.  A command is at it from its decision to start a guest until that guest
\* is gone.  As long as no two overlapped there is one of them at most; and a command
\* whose ping is unanswered was sent to the guest of the only one there can be.

Guests == {"clearing", "booting", "bound", "up"}
Settled == {"polling", "calling"} \cup Returned
AtIt(h) == at[h] \in {"stale", "spawning"} \/ guest[h] \in Guests

OneAtIt ==
  /\ \A g, h \in Hosts : AtIt(g) /\ AtIt(h) => g = h
  /\ \A h \in Hosts : at[h] \in {"stale", "spawning"} => guest[h] = "none"
  /\ \A h \in Hosts : guest[h] \in {"bound", "up"} => socket = h
  /\ \A h \in Hosts : at[h] = "pinging" => link[h] \in Hosts /\ guest[link[h]] # "none"
  /\ \A g, h \in Hosts : at[h] = "pinging" /\ guest[h] = "none" /\ AtIt(g) => link[h] = g

GuestInv == RpcTyped /\ (overlapped \/ OneAtIt)

LEMMA GuestStepKeeps ==
  ASSUME GuestInv, [RpcNext]_rpcVars
  PROVE  GuestInv'
<1>1. RpcTyped /\ RpcTyped'
  BY TypeStep DEF GuestInv
<1>2. CASE overlapped
  <2>1. overlapped'
    BY <1>2 DEF RpcNext, Ping, PingRefused, HostStep, Quit, SupervisorStep, GuestEnds,
       GuestStep, Pong, PingClosed, PingReset, RemoveStale, SpawnSupervisor, Deadline, Call,
       CallRefused, ReadLine, ReadEnd, ClearSocket, Relay, Serve, AnswerPing, StartRun,
       Emit, Respond, WriteBody, WriteNewline, Connect, Absent, rpcVars
  <2> QED BY <1>1, <2>1 DEF GuestInv
<1>3. CASE ~overlapped
  <2> SUFFICES ASSUME ~overlapped' PROVE OneAtIt'
    BY <1>1 DEF GuestInv
  <2>1. OneAtIt
    BY <1>3 DEF GuestInv
  <2>0. /\ DOMAIN at = Hosts /\ DOMAIN guest = Hosts /\ DOMAIN link = Hosts
        /\ socket \in Hosts \cup {None}
        /\ \A h \in Hosts : guest[h] \in Guests \cup {"none", "dead"}
    BY <1>1 DEF RpcTyped, RpcTypeOK, Guests
  <2> USE <2>0, <2>1, NoneIsNoHost DEF OneAtIt, AtIt, Guests, Goto
  \* What changes neither a guest, nor the socket, nor makes a command start or ping.
  <2>2. ASSUME UNCHANGED <<guest, socket, link>>,
               \A x \in Hosts : at'[x] = at[x] \/ at'[x] \in Settled
        PROVE  OneAtIt'
    BY <2>2 DEF Settled, Returned
  <2>3. ASSUME NEW h \in Hosts, Connect(h),
               \/ Goto(h, "pinging") /\ at[h] \in {"idle", "polling"}
               \/ Goto(h, "reading")
        PROVE  OneAtIt'
    BY <2>3 DEF Connect, Listens
  \* A command that finds no guest, and nobody else at it.
  <2>4. ASSUME NEW h \in Hosts, Absent(h), UNCHANGED <<guest, socket>>,
               \/ at[h] = "idle" /\ ~Listens /\ UNCHANGED link
               \/ /\ at[h] = "pinging" /\ Closed(h)
                  /\ link' = [link EXCEPT ![h] = None]
        PROVE  OneAtIt'
    <3>1. CASE guest[h] # "none" /\ Goto(h, "polling")
      BY <2>4, <3>1
    <3>2. CASE guest[h] = "none" /\ Goto(h, "stale") /\ \A x \in Hosts \ {h} : ~Starting(x)
      <4>1. \A g \in Hosts : ~AtIt(g)
        <5>1. CASE at[h] = "idle" /\ ~Listens /\ UNCHANGED link
          BY <2>4, <3>2, <5>1 DEF Starting, Listens
        <5>2. CASE at[h] = "pinging" /\ Closed(h)
          <6>1. link[h] \in Hosts \ {h} /\ guest[link[h]] \in {"bound", "dead"}
            BY <3>2, <5>2 DEF Closed
          <6>2. guest[link[h]] = "dead"
            BY <3>2, <6>1 DEF Starting
          <6> QED BY <2>4, <3>2, <5>2, <6>1, <6>2 DEF Starting
        <5> QED BY <2>4, <5>1, <5>2
      <4> QED BY <2>4, <3>2, <4>1 DEF Starting
    <3> QED BY <2>4, <3>1, <3>2 DEF Absent
  <2>5. ASSUME NEW h \in Hosts, Ping(h) \/ PingRefused(h) \/ Quit(h) \/ GuestEnds(h)
        PROVE  OneAtIt'
    <3>1. CASE Ping(h) BY <2>3, <3>1 DEF Ping
    <3>2. CASE PingRefused(h)
      <4>1. at[h] = "idle" /\ ~Listens /\ Absent(h) /\ UNCHANGED <<guest, socket, link>>
        BY <3>2 DEF PingRefused, connection
      <4> QED BY <2>4, <4>1
    <3>3. CASE Quit(h) BY <2>2, <3>3 DEF Quit, connection, Settled, Returned
    <3>4. CASE GuestEnds(h)
      <4>1. /\ UNCHANGED <<at, socket, link>> /\ guest[h] # "none"
            /\ \A x \in Hosts : guest'[x] = IF x = h THEN "dead" ELSE guest[x]
        BY <3>4 DEF GuestEnds, connection
      <4> QED BY <4>1
    <3> QED BY <2>5, <3>1, <3>2, <3>3, <3>4
  <2>6. ASSUME NEW h \in Hosts, HostStep(h) PROVE OneAtIt'
    <3>1. CASE Pong(h) BY <3>1 DEF Pong
    <3>2. CASE PingClosed(h) BY <2>4, <3>2 DEF PingClosed
    <3>3. CASE RemoveStale(h) BY <3>3 DEF RemoveStale, connection
    <3>4. CASE SpawnSupervisor(h) BY <3>4 DEF SpawnSupervisor, connection
    <3>5. CASE Call(h) BY <2>3, <3>5 DEF Call
    <3>6. CASE \/ PingReset(h) \/ Deadline(h) \/ CallRefused(h) \/ ReadLine(h) \/ ReadEnd(h)
      BY <2>2, <3>6 DEF PingReset, Deadline, CallRefused, ReadLine, ReadEnd, connection,
           Settled, Returned
    <3> QED BY <2>6, <3>1, <3>2, <3>3, <3>4, <3>5, <3>6 DEF HostStep
  <2>7. ASSUME NEW h \in Hosts, SupervisorStep(h) PROVE OneAtIt'
    <3>1. CASE ClearSocket(h) BY <3>1 DEF ClearSocket, Advance, connection
    <3>2. CASE Relay(h) BY <3>2 DEF Relay, Advance, connection
    <3>3. CASE Serve(h) BY <3>3 DEF Serve, Advance, connection
    <3> QED BY <2>7, <3>1, <3>2, <3>3 DEF SupervisorStep
  <2>8. ASSUME NEW h \in Hosts, GuestStep(h) PROVE OneAtIt'
    BY <2>2, <2>8 DEF GuestStep, AnswerPing, StartRun, Emit, Respond, WriteBody, WriteNewline
  <2>9. CASE UNCHANGED rpcVars
    BY <2>9 DEF rpcVars
  <2> QED BY <2>5, <2>6, <2>7, <2>8, <2>9 DEF RpcNext
<1> QED BY <1>2, <1>3

\* Two guests at once take a command that went to start one while another was looking
\* for a guest, or while a guest was on its way to come up.
THEOREM OneGuestUnlessOverlapped == RpcSpec => []OneGuest
<1>1. RpcInit => GuestInv
  <2>1. RpcInit => RpcTyped
    BY InitTyped
  <2> QED BY <2>1 DEF RpcInit, GuestInv, OneAtIt, AtIt, Guests
<1>2. GuestInv /\ [RpcNext]_rpcVars => GuestInv'
  BY GuestStepKeeps
<1>3. GuestInv => OneGuest
  <2>1. RpcTyped => LiveGuests \subseteq {h \in Hosts : AtIt(h)}
    BY DEF RpcTyped, RpcTypeOK, LiveGuests, AtIt, Guests
  <2> QED BY <2>1 DEF GuestInv, OneAtIt, OneGuest, LiveGuests
<1> QED BY <1>1, <1>2, <1>3, PTL DEF RpcSpec

----------------------------------------------------------------------------
\* FramesAreWhole.  A stream is bodies at the odd places, each with its newline after
\* it, but for the last one while its writer holds the lock; and a frame is in one
\* place: with a task, in the stream, or shown.

Odd(n) == n % 2 = 1

LEMMA Parity ==
  /\ ~Odd(0) /\ Odd(1)
  /\ \A n \in Nat : Odd(n + 1) <=> ~Odd(n)
  /\ \A n \in Nat : Odd(n + 2) <=> Odd(n)
BY DEF Odd

LEMMA Arithmetic ==
  ASSUME NEW n \in Nat
  PROVE  /\ \A i \in 1..n : i = n \/ (i < n /\ i + 1 \in 1..n)
         /\ n >= 2 => 1 \in 1..n /\ n # 1
         /\ n >= 2 => \A i \in 1..(n - 2) : i \in Nat /\ i + 2 \in 1..n /\ i + 2 # 1
         /\ \A i, j \in Nat : (i + 2 = n => i = n - 2) /\ (i + 2 = j + 2 => i = j)
<1>1. \A i \in 1..n : i = n \/ (i < n /\ i + 1 \in 1..n)
  OBVIOUS
<1>2. n >= 2 => 1 \in 1..n /\ n # 1
  OBVIOUS
<1>3. n >= 2 => \A i \in 1..(n - 2) : i \in Nat /\ i + 2 \in 1..n /\ i + 2 # 1
  <2> SUFFICES ASSUME n >= 2, NEW i \in 1..(n - 2)
               PROVE  i \in Nat /\ i + 2 \in 1..n /\ i + 2 # 1
    OBVIOUS
  <2>1. i \in Int /\ i >= 1 /\ i <= n - 2
    OBVIOUS
  <2>2. i + 2 \in Int /\ i + 2 >= 1 /\ i + 2 <= n /\ i + 2 # 1
    BY <2>1
  <2> QED BY <2>1, <2>2
<1>4. \A i, j \in Nat : (i + 2 = n => i = n - 2) /\ (i + 2 = j + 2 => i = j)
  OBVIOUS
<1> QED BY <1>1, <1>2, <1>3, <1>4

Late == {"reading"} \cup Returned
Places(h) == {i \in 1..Len(stream[h]) : Odd(i)}
FrameAt(h, i) == stream[h][i][1]
Answered(h) == Response \in pending[h] \/ \E i \in Places(h) : FrameAt(h, i) = Response

Fresh(h) ==
  /\ emitted[h] = 0 /\ pending[h] = {} /\ lock[h] = None
  /\ stream[h] = <<>> /\ shown[h] = <<>>

Framed(h) ==
  /\ \A i \in Places(h) : stream[h][i] = Body(FrameAt(h, i))
  /\ \A i \in Places(h) : i < Len(stream[h]) => stream[h][i + 1] = Newline(FrameAt(h, i))

Locked(h) ==
  IF lock[h] = None
    THEN ~Odd(Len(stream[h]))
    ELSE /\ Odd(Len(stream[h])) /\ FrameAt(h, Len(stream[h])) = lock[h]
         /\ lock[h] \in pending[h]

\* No frame twice, none numbered above the last one emitted.
Distinct(h) ==
  /\ \A i, j \in DOMAIN shown[h] : shown[h][i] = shown[h][j] => i = j
  /\ \A i, j \in Places(h) : FrameAt(h, i) = FrameAt(h, j) => i = j
  /\ \A i \in DOMAIN shown[h], j \in Places(h) : shown[h][i] # FrameAt(h, j)
  /\ \A i \in DOMAIN shown[h] : shown[h][i] \notin pending[h] /\ shown[h][i] <= emitted[h]
  /\ \A j \in Places(h) :
       /\ FrameAt(h, j) <= emitted[h]
       /\ FrameAt(h, j) \in pending[h] => lock[h] # None /\ j = Len(stream[h])
  /\ \A f \in pending[h] : f <= emitted[h]

\* Before the request, a connection's handler is that of a ping.
Handled(h) == task[h] = "none" \/ (at[h] = "pinging" /\ task[h] # "running")

FrameInv(h) ==
  /\ at[h] \notin Late => Fresh(h) /\ Handled(h)
  /\ at[h] # "garbled"
  /\ Answered(h) => task[h] = "ended"
  /\ Framed(h) /\ Locked(h) /\ Distinct(h)

\* What touches no frame of h, and its handler only before it answered.
LEMMA FramesKept ==
  ASSUME NEW h \in Hosts, FrameInv(h),
         emitted'[h] = emitted[h], pending'[h] = pending[h], lock'[h] = lock[h],
         stream'[h] = stream[h], shown'[h] = shown[h],
         task'[h] = task[h] \/ ~Answered(h) \/ task'[h] = "ended",
         at'[h] = at[h] \/ at[h] \notin Late \/ at'[h] \in Late \ {"garbled"},
         at'[h] # "garbled", at'[h] \notin Late => Handled(h)'
  PROVE  FrameInv(h)'
<1>1. Places(h)' = Places(h) /\ \A i \in Places(h) : FrameAt(h, i)' = FrameAt(h, i)
  BY DEF Places, FrameAt
<1>2. Framed(h)' /\ Locked(h)'
  BY <1>1 DEF FrameInv, Framed, Locked, FrameAt
<1>3. Distinct(h)'
  BY <1>1 DEF FrameInv, Distinct
<1>4. Answered(h)' = Answered(h)
  BY <1>1 DEF Answered
<1>5. at'[h] \notin Late => Fresh(h)'
  BY DEF FrameInv, Fresh
<1> QED BY <1>2, <1>3, <1>4, <1>5 DEF FrameInv

PiecesOf(h) ==
  /\ stream[h] \in Seq(Written) /\ shown[h] \in Seq(Events) /\ emitted[h] \in Nat
  /\ pending[h] \subseteq Frame /\ lock[h] \in Frame \cup {None}
  /\ \A i \in 1..Len(stream[h]) : FrameAt(h, i) \in Frame
  /\ \A i \in DOMAIN shown[h] : shown[h][i] \in Nat \ {Response}
  /\ Len(stream[h]) \in Nat /\ Frame \subseteq Nat /\ Response = 0

LEMMA PiecesTyped ==
  ASSUME RpcTyped, NEW h \in Hosts
  PROVE  PiecesOf(h)
<1>1. stream[h] \in Seq(Written) /\ shown[h] \in Seq(Events) /\ emitted[h] \in Nat
  BY MaxEventsIsNat DEF RpcTyped, RpcTypeOK
<1>2. pending[h] \subseteq Frame /\ lock[h] \in Frame \cup {None}
  BY DEF RpcTyped, RpcTypeOK, Frame
<1>3. \A i \in 1..Len(stream[h]) : stream[h][i] \in Written
  BY <1>1
<1>4. \A i \in DOMAIN shown[h] : shown[h][i] \in Events
  BY <1>1
<1>5. Events \subseteq Nat \ {0}
  BY MaxEventsIsNat DEF Events
<1>6. \A i \in 1..Len(stream[h]) : FrameAt(h, i) \in Frame
  BY <1>3 DEF FrameAt, Written
<1>7. \A i \in DOMAIN shown[h] : shown[h][i] \in Nat \ {Response}
  BY <1>4, <1>5 DEF Response
<1>8. Len(stream[h]) \in Nat /\ Frame \subseteq Nat /\ Response = 0
  BY <1>1, <1>5 DEF Frame, Response
<1> QED BY <1>1, <1>2, <1>6, <1>7, <1>8 DEF PiecesOf

\* The line that ReadLine takes is a whole frame.
LEMMA LinesAreWhole ==
  ASSUME RpcTyped, NEW h \in Hosts, Framed(h), Lines(h) # {}
  PROVE  Whole(h) /\ Len(stream[h]) >= 2
<1> DEFINE s == stream[h]
<1>1. Len(s) \in Nat
  BY PiecesTyped DEF PiecesOf
<1>2. PICK i \in 1..Len(s) : s[i][2] = "newline"
  BY DEF Lines
<1>3. Len(s) # 1
  <2> SUFFICES ASSUME Len(s) = 1 PROVE FALSE
    OBVIOUS
  <2>1. 1 \in Places(h) /\ i = 1
    BY <1>2, Parity DEF Places
  <2>2. s[1] = Body(FrameAt(h, 1))
    BY <2>1 DEF Framed
  <2>3. s[1][2] = "body"
    BY <2>2 DEF Body
  <2> QED BY <1>2, <2>1, <2>3
<1>4. Len(s) >= 2 /\ 1 \in Places(h)
  <2>1. \A n \in Nat : i \in 1..n /\ n # 1 => n >= 2 /\ 1 \in 1..n
    OBVIOUS
  <2>2. Len(s) >= 2 /\ 1 \in 1..Len(s)
    BY <1>1, <1>2, <1>3, <2>1
  <2> QED BY <2>2, Parity DEF Places
<1>5. s[1] = Body(FrameAt(h, 1)) /\ s[2] = Newline(FrameAt(h, 1))
  BY <1>1, <1>4 DEF Framed
<1> QED BY <1>4, <1>5 DEF Whole, Body, Newline

\* The five steps that touch frames, for the command they are of.
LEMMA Emitted ==
  ASSUME RpcTyped, NEW h \in Hosts, FrameInv(h), Emit(h)
  PROVE  FrameInv(h)'
<1> PiecesOf(h)
  BY PiecesTyped
<1> USE DEF PiecesOf
<1>1. /\ stream' = stream /\ shown' = shown /\ lock' = lock /\ at' = at /\ task' = task
      /\ emitted'[h] = emitted[h] + 1 /\ pending'[h] = pending[h] \cup {emitted[h] + 1}
      /\ at[h] = "reading"
  BY DEF Emit, RpcTyped, RpcTypeOK
<1>2. Places(h)' = Places(h) /\ \A i \in Places(h) : FrameAt(h, i)' = FrameAt(h, i)
  BY <1>1 DEF Places, FrameAt
<1>3. Framed(h)' /\ Locked(h)'
  BY <1>1, <1>2 DEF FrameInv, Framed, Locked, FrameAt
<1>4. \A i \in DOMAIN shown[h] : shown[h][i] \in Nat
  OBVIOUS
<1>5. \A j \in Places(h) : FrameAt(h, j) \in Nat
  BY DEF Places
<1>6. Distinct(h)'
  <2> DEFINE e == emitted[h] + 1
  <2>1. \A i \in DOMAIN shown[h] : shown[h][i] \notin pending'[h] /\ shown[h][i] <= emitted'[h]
    <3>1. \A i \in DOMAIN shown[h] : shown[h][i] <= emitted[h] /\ shown[h][i] \notin pending[h]
      BY DEF FrameInv, Distinct
    <3> QED BY <1>1, <1>4, <3>1
  <2>2. \A j \in Places(h) : /\ FrameAt(h, j) <= emitted'[h]
                             /\ FrameAt(h, j) \in pending'[h] => FrameAt(h, j) \in pending[h]
    <3>1. \A j \in Places(h) : FrameAt(h, j) <= emitted[h]
      BY DEF FrameInv, Distinct
    <3> QED BY <1>1, <1>5, <3>1
  <2>3. \A f \in pending'[h] : f <= emitted'[h]
    <3>1. \A f \in pending[h] : f <= emitted[h] /\ f \in Nat
      BY DEF FrameInv, Distinct
    <3>2. \A f \in pending[h] : f <= e
      BY <3>1
    <3> QED BY <1>1, <3>2
  <2>4. \A j \in Places(h) : FrameAt(h, j) \in pending'[h] => lock[h] # None /\ j = Len(stream[h])
    <3>1. ASSUME NEW j \in Places(h), FrameAt(h, j) \in pending[h]
          PROVE  lock[h] # None /\ j = Len(stream[h])
      BY <3>1 DEF FrameInv, Distinct
    <3>2. ASSUME NEW j \in Places(h), FrameAt(h, j) \in pending'[h]
          PROVE  lock[h] # None /\ j = Len(stream[h])
      <4>1. FrameAt(h, j) \in pending[h]
        BY <2>2, <3>2
      <4> QED BY <3>1, <4>1
    <3> QED BY <3>2
  <2>5. /\ \A i, j \in DOMAIN shown[h] : shown[h][i] = shown[h][j] => i = j
        /\ \A i, j \in Places(h) : FrameAt(h, i) = FrameAt(h, j) => i = j
        /\ \A i \in DOMAIN shown[h], j \in Places(h) : shown[h][i] # FrameAt(h, j)
    BY DEF FrameInv, Distinct
  <2>6. \A j \in Places(h)' :
          /\ FrameAt(h, j)' <= emitted'[h]
          /\ FrameAt(h, j)' \in pending'[h] => lock'[h] # None /\ j = Len(stream'[h])
    <3> SUFFICES ASSUME NEW j \in Places(h)
                 PROVE  /\ FrameAt(h, j) <= emitted'[h]
                        /\ FrameAt(h, j) \in pending'[h] => lock'[h] # None /\ j = Len(stream'[h])
      BY <1>2
    <3>1. FrameAt(h, j) <= emitted'[h]
      BY <2>2
    <3>2. FrameAt(h, j) \in pending'[h] => lock'[h] # None /\ j = Len(stream'[h])
      BY <1>1, <2>4
    <3> QED BY <3>1, <3>2
  <2>7. /\ \A i, j \in Places(h)' : FrameAt(h, i)' = FrameAt(h, j)' => i = j
        /\ \A i \in DOMAIN shown'[h], j \in Places(h)' : shown'[h][i] # FrameAt(h, j)'
    BY <1>1, <1>2, <2>5
  <2> QED BY <1>1, <2>1, <2>3, <2>5, <2>6, <2>7 DEF Distinct
<1>7. Answered(h)' => Answered(h)
  BY <1>1, <1>2 DEF Answered
<1> QED BY <1>1, <1>3, <1>6, <1>7 DEF FrameInv, Late

LEMMA Responded ==
  ASSUME RpcTyped, NEW h \in Hosts, FrameInv(h), Respond(h)
  PROVE  FrameInv(h)'
<1>0. at[h] \in Late
  BY DEF Respond, FrameInv, Handled
<1> PiecesOf(h)
  BY PiecesTyped
<1> USE DEF PiecesOf
<1>1. /\ stream' = stream /\ shown' = shown /\ lock' = lock /\ at' = at /\ emitted' = emitted
      /\ task'[h] = "ended" /\ task[h] # "ended" /\ pending'[h] = pending[h] \cup {Response}
  BY DEF Respond, RpcTyped, RpcTypeOK
<1>2. Places(h)' = Places(h) /\ \A i \in Places(h) : FrameAt(h, i)' = FrameAt(h, i)
  BY <1>1 DEF Places, FrameAt
<1>3. Framed(h)' /\ Locked(h)'
  BY <1>1, <1>2 DEF FrameInv, Framed, Locked, FrameAt
<1>4. \A i \in DOMAIN shown[h] : shown[h][i] # Response
  OBVIOUS
<1>5. \A j \in Places(h) : FrameAt(h, j) # Response
  BY <1>1 DEF FrameInv, Answered
<1>6. Distinct(h)'
  BY <1>1, <1>2, <1>4, <1>5 DEF FrameInv, Distinct
<1> QED BY <1>0, <1>1, <1>3, <1>6 DEF FrameInv, Late
LEMMA BodyWritten ==
  ASSUME RpcTyped, NEW h \in Hosts, FrameInv(h), WriteBody(h)
  PROVE  FrameInv(h)'
<1> PiecesOf(h)
  BY PiecesTyped
<1> USE DEF PiecesOf
<1>0. PICK n \in Nat : n = Len(stream[h])
  OBVIOUS
<1>1. PICK f \in pending[h] : /\ MayWrite(h, f)
                              /\ lock' = [lock EXCEPT ![h] = f]
                              /\ stream' = [stream EXCEPT ![h] = Append(@, Body(f))]
  BY DEF WriteBody
<1>2. /\ UNCHANGED <<at, task, emitted, pending, shown>> /\ at[h] = "reading"
      /\ lock[h] = None /\ lock'[h] = f /\ f \in Frame /\ f # None
      /\ stream'[h] = Append(stream[h], Body(f))
  <2>1. f \in Frame /\ f # None
    BY NoneIsNoHost DEF Frame
  <2> QED BY <1>1, <2>1 DEF WriteBody, MayWrite, RpcTyped, RpcTypeOK
<1>3. stream[h] \in Seq(Written) /\ Body(f) \in Written
  BY <1>2 DEF Body, Written
<1>4. /\ Len(stream'[h]) = n + 1
      /\ \A i \in 1..n : stream'[h][i] = stream[h][i]
      /\ stream'[h][n + 1] = Body(f)
  BY <1>0, <1>2, <1>3
<1>5. ~Odd(n) /\ Odd(n + 1)
  BY <1>0, <1>2, <1>4, Parity DEF FrameInv, Locked
<1>6. /\ Places(h)' = Places(h) \cup {n + 1}
      /\ \A i \in Places(h) : i \in 1..n /\ i # n /\ FrameAt(h, i)' = FrameAt(h, i)
      /\ FrameAt(h, n + 1)' = f
  <2>1. \A i \in 1..(n + 1) : i \in 1..n \/ i = n + 1
    BY <1>0, <1>4
  <2> QED BY <1>0, <1>4, <1>5, <2>1 DEF Places, FrameAt, Body
<1>7. \A i \in Places(h) : FrameAt(h, i) # f
  BY <1>0, <1>2 DEF FrameInv, Distinct
<1>8. Framed(h)'
  <2>1. \A i \in Places(h) : i < n /\ i + 1 \in 1..n
    BY <1>0, <1>4, <1>6
  <2>2. \A i \in Places(h) : /\ stream'[h][i] = Body(FrameAt(h, i)')
                             /\ stream'[h][i + 1] = Newline(FrameAt(h, i)')
    BY <1>0, <1>4, <1>6, <2>1 DEF FrameInv, Framed
  <2>3. stream'[h][n + 1] = Body(stream'[h][n + 1][1]) /\ ~(n + 1 < n + 1)
    BY <1>4 DEF Body
  <2> QED BY <1>4, <1>6, <2>2, <2>3 DEF Framed, FrameAt
<1>9. Locked(h)'
  BY <1>0, <1>2, <1>4, <1>5, <1>6 DEF Locked
<1>10. Distinct(h)'
  <2>1. \A i \in DOMAIN shown[h] : shown[h][i] # f
    BY <1>0, <1>2 DEF FrameInv, Distinct
  <2> QED BY <1>0, <1>2, <1>4, <1>6, <1>7, <2>1 DEF FrameInv, Distinct
<1>11. Answered(h)' => Answered(h)
  BY <1>2, <1>6 DEF Answered
<1> QED BY <1>0, <1>2, <1>8, <1>9, <1>10, <1>11 DEF FrameInv, Late

LEMMA NewlineWritten ==
  ASSUME RpcTyped, NEW h \in Hosts, FrameInv(h), WriteNewline(h)
  PROVE  FrameInv(h)'
<1> PiecesOf(h)
  BY PiecesTyped
<1> USE DEF PiecesOf
<1>0. PICK n \in Nat : n = Len(stream[h])
  OBVIOUS
<1>1. /\ UNCHANGED <<at, task, emitted, shown>> /\ at[h] = "reading"
      /\ lock[h] # None /\ lock[h] \in Frame /\ lock'[h] = None
      /\ pending'[h] = pending[h] \ {lock[h]}
      /\ stream'[h] = Append(stream[h], Newline(lock[h]))
  BY DEF WriteNewline, RpcTyped, RpcTypeOK
<1>2. stream[h] \in Seq(Written) /\ Newline(lock[h]) \in Written
  BY <1>1 DEF Newline, Written
<1>3. /\ Len(stream'[h]) = n + 1
      /\ \A i \in 1..n : stream'[h][i] = stream[h][i]
      /\ stream'[h][n + 1] = Newline(lock[h])
  BY <1>0, <1>1, <1>2
<1>4. Odd(n) /\ ~Odd(n + 1) /\ n # 0 /\ FrameAt(h, n) = lock[h]
  BY <1>0, <1>1, <1>3, Parity DEF FrameInv, Locked
<1>5. /\ Places(h)' = Places(h)
      /\ \A i \in Places(h) : i \in 1..n /\ FrameAt(h, i)' = FrameAt(h, i)
  <2>1. \A i \in 1..(n + 1) : i \in 1..n \/ i = n + 1
    BY <1>0, <1>3
  <2>2. 1..n \subseteq 1..(n + 1)
    BY <1>0, <1>3
  <2> QED BY <1>0, <1>3, <1>4, <2>1, <2>2 DEF Places, FrameAt
<1>6. Framed(h)'
  <2>1. \A i \in Places(h) : i = n \/ (i < n /\ i + 1 \in 1..n)
    <3>1. \A i \in 1..n : i = n \/ (i < n /\ i + 1 \in 1..n)
      BY Arithmetic
    <3> QED BY <1>5, <3>1
  <2> QED BY <1>0, <1>3, <1>4, <1>5, <2>1, ZenonT(60) DEF FrameInv, Framed
<1>7. Locked(h)'
  BY <1>0, <1>1, <1>3, <1>4 DEF Locked
<1>8. Distinct(h)'
  BY <1>0, <1>1, <1>4, <1>5 DEF FrameInv, Distinct
<1>9. Answered(h)' => Answered(h)
  BY <1>1, <1>5 DEF Answered
<1> QED BY <1>0, <1>1, <1>6, <1>7, <1>8, <1>9 DEF FrameInv, Late

LEMMA LineRead ==
  ASSUME RpcTyped, NEW h \in Hosts, FrameInv(h), ReadLine(h)
  PROVE  FrameInv(h)'
<1> PiecesOf(h)
  BY PiecesTyped
<1> USE DEF PiecesOf
<1> DEFINE s == stream[h]
<1>0. PICK n \in Nat : n = Len(s)
  OBVIOUS
<1>1. Whole(h) /\ n >= 2 /\ n \in Nat
  BY <1>0, LinesAreWhole DEF ReadLine, FrameInv
<1>2. /\ UNCHANGED <<task, emitted, pending, lock>> /\ at[h] = "reading"
      /\ stream'[h] = SubSeq(s, 3, n)
  BY <1>0 DEF ReadLine, RpcTyped, RpcTypeOK
<1>3. /\ Len(stream'[h]) = n - 2
      /\ \A i \in 1..(n - 2) : i + 2 \in 1..n /\ stream'[h][i] = s[i + 2]
  BY <1>1, <1>2
<1>4. /\ 1 \in Places(h)
      /\ Places(h)' = {i \in 1..(n - 2) : Odd(i)}
      /\ \A i \in Places(h)' : i + 2 \in Places(h) /\ FrameAt(h, i)' = FrameAt(h, i + 2)
  <2>1. 1 \in 1..n /\ Odd(1)
    BY <1>1, Parity
  <2>2. \A i \in 1..(n - 2) : i \in Nat /\ i + 2 \in 1..n /\ (Odd(i + 2) <=> Odd(i))
    BY <1>1, Arithmetic, Parity
  <2>3. Places(h)' = {i \in 1..(n - 2) : Odd(i)}
    BY <1>3 DEF Places
  <2>4. \A i \in 1..(n - 2) : FrameAt(h, i)' = FrameAt(h, i + 2)
    BY <1>3 DEF FrameAt
  <2> QED BY <1>0, <2>1, <2>2, <2>3, <2>4 DEF Places
<1>5. \/ at'[h] = "done" /\ shown'[h] = shown[h]
      \/ /\ at' = at /\ FrameAt(h, 1) \in Events
         /\ shown'[h] = Append(shown[h], FrameAt(h, 1))
  <2>1. FrameAt(h, 1) # Response => FrameAt(h, 1) \in Events
    BY <1>1, <1>4 DEF Frame, Places
  <2> QED BY <1>1, <2>1 DEF ReadLine, FrameAt, Goto, RpcTyped, RpcTypeOK
<1>6. Framed(h)'
  <2> SUFFICES \A i \in Places(h)' :
                 /\ stream'[h][i] = Body(FrameAt(h, i)')
                 /\ i < Len(stream'[h]) => stream'[h][i + 1] = Newline(FrameAt(h, i)')
    BY DEF Framed
  <2> TAKE i \in Places(h)'
  <2>1. i \in 1..(n - 2) /\ i + 2 \in Places(h) /\ FrameAt(h, i)' = FrameAt(h, i + 2)
    BY <1>4
  <2>2. stream'[h][i] = Body(FrameAt(h, i)')
    BY <1>3, <2>1 DEF FrameInv, Framed
  <2>3. i < n - 2 => i + 1 \in 1..(n - 2) /\ i + 2 < n /\ (i + 1) + 2 = (i + 2) + 1
    BY <2>1
  <2>4. i + 2 < n => s[(i + 2) + 1] = Newline(FrameAt(h, i + 2))
    BY <1>0, <2>1 DEF FrameInv, Framed
  <2>5. i < n - 2 => stream'[h][i + 1] = Newline(FrameAt(h, i)')
    BY <1>3, <2>1, <2>3, <2>4
  <2> QED BY <1>3, <2>2, <2>5
<1>7. Locked(h)'
  <2>1. n - 2 \in Nat /\ (n - 2) + 2 = n
    BY <1>1
  <2>2. (Odd(n) <=> Odd(n - 2)) /\ (Odd(n) => n - 2 # 0)
    BY <2>1, Parity
  <2>3. CASE lock[h] = None
    BY <1>0, <1>2, <1>3, <2>2, <2>3 DEF FrameInv, Locked
  <2>4. CASE lock[h] # None
    <3>1. Odd(n) /\ FrameAt(h, n) = lock[h] /\ lock[h] \in pending[h]
      BY <1>0, <2>4 DEF FrameInv, Locked
    <3>2. n - 2 \in 1..(n - 2)
      BY <2>1, <2>2, <3>1
    <3>3. stream'[h][n - 2] = s[n]
      BY <1>3, <2>1, <3>2
    <3> QED BY <1>2, <1>3, <2>2, <2>4, <3>1, <3>3 DEF Locked, FrameAt
  <2> QED BY <2>3, <2>4
<1>8. \A i, j \in Places(h)' :
        i \in Nat /\ i + 2 # 1 /\ (i + 2 = n => i = n - 2) /\ (i + 2 = j + 2 => i = j)
  <2>1. \A i \in Places(h)' : i \in Nat /\ i + 2 # 1
    BY <1>1, <1>4, Arithmetic
  <2> QED BY <2>1, Arithmetic
<1>9. Distinct(h)'
  \* What is still in the stream.
  <2>0. /\ \A i, j \in Places(h)' : FrameAt(h, i)' = FrameAt(h, j)' => i = j
        /\ \A j \in Places(h)' :
             /\ FrameAt(h, j)' <= emitted'[h]
             /\ FrameAt(h, j)' \in pending'[h] => lock'[h] # None /\ j = Len(stream'[h])
             /\ \A i \in DOMAIN shown[h] : shown[h][i] # FrameAt(h, j)'
        /\ \A f \in pending'[h] : f <= emitted'[h]
    <3>1. \A i, j \in Places(h)' : FrameAt(h, i)' = FrameAt(h, j)' => i = j
      <4>1. \A i, j \in Places(h)' : FrameAt(h, i + 2) = FrameAt(h, j + 2) => i + 2 = j + 2
        BY <1>4 DEF FrameInv, Distinct
      <4> QED BY <1>4, <1>8, <4>1
    <3>2. \A j \in Places(h)' :
            /\ FrameAt(h, j + 2) <= emitted[h]
            /\ FrameAt(h, j + 2) \in pending[h] => lock[h] # None /\ j + 2 = n
            /\ \A i \in DOMAIN shown[h] : shown[h][i] # FrameAt(h, j + 2)
      BY <1>0, <1>4 DEF FrameInv, Distinct
    <3>3. \A f \in pending[h] : f <= emitted[h]
      BY DEF FrameInv, Distinct
    <3> QED BY <1>2, <1>3, <1>4, <1>8, <3>1, <3>2, <3>3
  <2>1. CASE shown'[h] = shown[h]
    BY <1>2, <2>0, <2>1 DEF FrameInv, Distinct
  <2>2. CASE /\ shown'[h] = Append(shown[h], FrameAt(h, 1)) /\ FrameAt(h, 1) \in Events
    <3> DEFINE t == shown[h]
               f == FrameAt(h, 1)
    <3>1. t \in Seq(Events)
      OBVIOUS
    <3>2. /\ DOMAIN shown'[h] = 1..(Len(t) + 1) /\ Len(t) \in Nat /\ DOMAIN t = 1..Len(t)
          /\ \A i \in 1..Len(t) : shown'[h][i] = t[i]
          /\ shown'[h][Len(t) + 1] = f
      BY <2>2, <3>1
    <3>3. \A i \in 1..(Len(t) + 1) : i \in 1..Len(t) \/ i = Len(t) + 1
      BY <3>2
    <3>4. f \notin pending[h] /\ f <= emitted[h] /\ \A i \in DOMAIN t : t[i] # f
      <4>1. f \in pending[h] => lock[h] # None /\ 1 = Len(stream[h])
        BY <1>4 DEF FrameInv, Distinct
      <4>2. f <= emitted[h] /\ \A i \in DOMAIN t : t[i] # f
        BY <1>4 DEF FrameInv, Distinct
      <4>3. Len(stream[h]) # 1
        BY <1>0, <1>1, Arithmetic
      <4> QED BY <4>1, <4>2, <4>3
    <3>5. \A j \in Places(h)' : FrameAt(h, j)' # f
      <4>1. \A j \in Places(h)' : FrameAt(h, j + 2) = f => j + 2 = 1
        BY <1>4 DEF FrameInv, Distinct
      <4> QED BY <1>4, <1>8, <4>1
    <3>9. \A i \in DOMAIN t : t[i] \notin pending[h] /\ t[i] <= emitted[h]
      BY DEF FrameInv, Distinct
    <3>6. \A i, j \in DOMAIN shown'[h] : shown'[h][i] = shown'[h][j] => i = j
      BY <3>2, <3>3, <3>4 DEF FrameInv, Distinct
    <3>7. \A i \in DOMAIN shown'[h] : /\ shown'[h][i] \notin pending'[h]
                                      /\ shown'[h][i] <= emitted'[h]
                                      /\ \A j \in Places(h)' : shown'[h][i] # FrameAt(h, j)'
      BY <1>2, <2>0, <3>2, <3>3, <3>4, <3>5, <3>9
    <3> QED BY <2>0, <3>6, <3>7 DEF Distinct
  <2> QED BY <1>5, <2>1, <2>2
<1>10. Answered(h)' => Answered(h)
  BY <1>2, <1>4 DEF Answered
<1> QED BY <1>2, <1>5, <1>6, <1>7, <1>9, <1>10 DEF FrameInv, Late, Returned

----------------------------------------------------------------------------
\* A command that returned reads no more, and what it showed stays as it is.

NoneTwice(h) == \A i, j \in DOMAIN shown[h] : shown[h][i] = shown[h][j] => i = j
GarbledByDeath(h) == at[h] = "garbled" => link[h] \in Hosts /\ guest[link[h]] = "dead"
StartsOnce(h) == at[h] \in {"stale", "spawning"} => guest[h] = "none"
Linked(h) == at[h] = "reading" => link[h] \in Hosts
Ended(h) == NoneTwice(h) /\ GarbledByDeath(h) /\ StartsOnce(h) /\ Linked(h)

FrameInvs ==
  /\ RpcTyped
  /\ \A h \in Hosts : at[h] \notin Returned => FrameInv(h)
  /\ \A h \in Hosts : Ended(h)

LEMMA ReturnedStays ==
  ASSUME RpcTyped, [RpcNext]_rpcVars, NEW h \in Hosts, at'[h] \notin Returned
  PROVE  at[h] \notin Returned
<1> SUFFICES ASSUME at[h] \in Returned PROVE at'[h] = at[h]
  OBVIOUS
<1> DOMAIN at = Hosts
  BY DEF RpcTyped, RpcTypeOK
<1> USE DEF Goto, Returned
<1>1. ASSUME NEW x \in Hosts, Ping(x) \/ PingRefused(x) \/ Quit(x) \/ GuestEnds(x)
      PROVE  at'[h] = at[h]
  BY <1>1 DEF Ping, PingRefused, Absent, Quit, GuestEnds, connection
<1>2. ASSUME NEW x \in Hosts, HostStep(x) PROVE at'[h] = at[h]
  <2>1. CASE Pong(x) \/ PingClosed(x) \/ PingReset(x)
    BY <2>1 DEF Pong, PingClosed, PingReset, Absent
  <2>2. CASE RemoveStale(x) \/ SpawnSupervisor(x) \/ Deadline(x)
    BY <2>2 DEF RemoveStale, SpawnSupervisor, Deadline
  <2>3. CASE Call(x) \/ CallRefused(x) \/ ReadLine(x) \/ ReadEnd(x)
    BY <2>3 DEF Call, CallRefused, ReadLine, ReadEnd
  <2> QED BY <1>2, <2>1, <2>2, <2>3 DEF HostStep
<1>3. ASSUME NEW x \in Hosts, SupervisorStep(x) PROVE at'[h] = at[h]
  BY <1>3 DEF SupervisorStep, ClearSocket, Relay, Serve
<1>4. ASSUME NEW x \in Hosts, GuestStep(x) PROVE at'[h] = at[h]
  BY <1>4 DEF GuestStep, AnswerPing, StartRun, Emit, Respond, WriteBody, WriteNewline
<1>5. CASE UNCHANGED rpcVars
  BY <1>5 DEF rpcVars
<1> QED BY <1>1, <1>2, <1>3, <1>4, <1>5 DEF RpcNext

LEMMA ShownStep ==
  ASSUME FrameInvs, [RpcNext]_rpcVars, NEW h \in Hosts
  PROVE  NoneTwice(h)'
<1>1. RpcTyped /\ NoneTwice(h) /\ DOMAIN shown = Hosts
  BY DEF FrameInvs, Ended, RpcTyped, RpcTypeOK
<1>2. CASE shown'[h] = shown[h]
  BY <1>1, <1>2 DEF NoneTwice
<1>3. CASE ReadLine(h)
  <2>1. FrameInv(h)
    BY <1>3 DEF FrameInvs, ReadLine, Returned
  <2>2. FrameInv(h)'
    BY <1>1, <1>3, <2>1, LineRead
  <2> QED BY <2>2 DEF FrameInv, Distinct, NoneTwice
<1>4. CASE ReadEnd(h) /\ shown'[h] # shown[h]
  <2>1. FrameInv(h)
    BY <1>4 DEF FrameInvs, ReadEnd, Returned
  <2>2. stream[h] # <<>> /\ shown'[h] = Append(shown[h], FrameAt(h, 1))
    BY <1>1, <1>4 DEF ReadEnd, FrameAt
  <2>3. stream[h] \in Seq(Written) /\ shown[h] \in Seq(Events)
    BY <1>1, PiecesTyped DEF PiecesOf
  <2>4. 1 \in Places(h)
    <3>1. 1 \in 1..Len(stream[h])
      BY <2>2, <2>3
    <3> QED BY <3>1, Parity DEF Places
  <2>5. \A i \in DOMAIN shown[h] : shown[h][i] # FrameAt(h, 1)
    BY <2>1, <2>4 DEF FrameInv, Distinct
  <2> DEFINE t == shown[h]
  <2>6. /\ DOMAIN shown'[h] = 1..(Len(t) + 1) /\ Len(t) \in Nat /\ DOMAIN t = 1..Len(t)
        /\ \A i \in 1..Len(t) : shown'[h][i] = t[i]
        /\ shown'[h][Len(t) + 1] = FrameAt(h, 1)
    <3>1. \A f : /\ DOMAIN Append(t, f) = 1..(Len(t) + 1)
                 /\ \A i \in 1..Len(t) : Append(t, f)[i] = t[i]
                 /\ Append(t, f)[Len(t) + 1] = f
      BY <2>3
    <3> QED BY <2>2, <2>3, <3>1
  <2>7. \A i \in 1..(Len(t) + 1) : i \in 1..Len(t) \/ i = Len(t) + 1
    BY <2>6
  <2> QED BY <1>1, <2>5, <2>6, <2>7 DEF NoneTwice
<1>5. shown'[h] = shown[h] \/ ReadLine(h) \/ ReadEnd(h)
  BY <1>1 DEF RpcNext, Ping, PingRefused, HostStep, Quit, SupervisorStep, GuestEnds,
     GuestStep, Pong, PingClosed, PingReset, RemoveStale, SpawnSupervisor, Deadline, Call,
     CallRefused, ReadLine, ReadEnd, ClearSocket, Relay, Serve, AnswerPing, StartRun,
     Emit, Respond, WriteBody, WriteNewline, Connect, connection, frames, rpcVars
<1> QED BY <1>2, <1>3, <1>4, <1>5

LEMMA DeathStep ==
  ASSUME FrameInvs, [RpcNext]_rpcVars, NEW h \in Hosts
  PROVE  GarbledByDeath(h)' /\ StartsOnce(h)' /\ Linked(h)'
<1>0. /\ DOMAIN at = Hosts /\ DOMAIN guest = Hosts /\ DOMAIN link = Hosts
      /\ socket \in Hosts \cup {None}
      /\ \A x \in Hosts : GarbledByDeath(x) /\ StartsOnce(x) /\ Linked(x)
  BY DEF FrameInvs, Ended, RpcTyped, RpcTypeOK
<1> USE <1>0, NoneIsNoHost DEF GarbledByDeath, StartsOnce, Linked, Goto
\* What makes no guest appear, kills no connection, and leaves nobody with half a line.
<1>1. ASSUME UNCHANGED <<guest, link>>,
             \A x \in Hosts : at'[x] = at[x] \/ at'[x] \in {"done", "failed", "calling", "polling", "spawning"},
             \A x \in Hosts : at'[x] = "spawning" /\ at'[x] # at[x] => at[x] = "stale"
      PROVE  GarbledByDeath(h)' /\ StartsOnce(h)' /\ Linked(h)'
  BY <1>1
<1>2. ASSUME NEW x \in Hosts, Absent(x), UNCHANGED guest, link' = link \/ link' = [link EXCEPT ![x] = None],
             at[x] \in {"idle", "pinging"}
      PROVE  GarbledByDeath(h)' /\ StartsOnce(h)' /\ Linked(h)'
  BY <1>2 DEF Absent
<1>3. ASSUME NEW x \in Hosts, Connect(x), 
             (Goto(x, "pinging") /\ at[x] \in {"idle", "polling"}) \/ (Goto(x, "reading") /\ at[x] = "calling")
      PROVE  GarbledByDeath(h)' /\ StartsOnce(h)' /\ Linked(h)'
  BY <1>3 DEF Connect, Listens
\* What becomes of a guest that was started and is not dead.
<1>4. ASSUME NEW x \in Hosts, guest[x] \notin {"none", "dead"}, UNCHANGED <<at, link>>,
             \E v : guest' = [guest EXCEPT ![x] = v]
      PROVE  GarbledByDeath(h)' /\ StartsOnce(h)' /\ Linked(h)'
  BY <1>4
<1>5. ASSUME NEW x \in Hosts, Ping(x) \/ PingRefused(x) \/ Quit(x) \/ GuestEnds(x)
      PROVE  GarbledByDeath(h)' /\ StartsOnce(h)' /\ Linked(h)'
  <2>1. CASE Ping(x) BY <1>3, <2>1 DEF Ping
  <2>2. CASE PingRefused(x) BY <1>2, <2>2 DEF PingRefused, connection
  <2>3. CASE Quit(x) BY <1>1, <2>3 DEF Quit, connection
  <2>4. CASE GuestEnds(x) BY <1>4, <2>4 DEF GuestEnds, connection
  <2> QED BY <1>5, <2>1, <2>2, <2>3, <2>4
<1>6. ASSUME NEW x \in Hosts, HostStep(x)
      PROVE  GarbledByDeath(h)' /\ StartsOnce(h)' /\ Linked(h)'
  <2>1. CASE Pong(x) BY <2>1 DEF Pong
  <2>2. CASE PingClosed(x) BY <1>2, <2>2 DEF PingClosed
  <2>3. CASE PingReset(x) \/ Deadline(x) \/ CallRefused(x) \/ RemoveStale(x)
    BY <1>1, <2>3 DEF PingReset, Deadline, CallRefused, RemoveStale, connection
  <2>4. CASE SpawnSupervisor(x)
    <3>1. at[x] = "spawning" /\ guest[x] = "none" /\ link' = link
      BY <2>4 DEF SpawnSupervisor, connection
    <3>2. \/ Goto(x, "polling") /\ guest' = [guest EXCEPT ![x] = "clearing"]
          \/ Goto(x, "failed") /\ UNCHANGED guest
      BY <2>4 DEF SpawnSupervisor
    <3> QED BY <3>1, <3>2
  <2>5. CASE Call(x) BY <1>3, <2>5 DEF Call
  <2>6. CASE ReadLine(x)
    <3>1. FrameInv(x) /\ RpcTyped
      BY <2>6 DEF FrameInvs, ReadLine, Returned
    <3>2. Whole(x)
      BY <2>6, <3>1, LinesAreWhole DEF ReadLine, FrameInv
    <3>3. UNCHANGED <<guest, link>> /\ (Goto(x, "done") \/ UNCHANGED at)
      BY <2>6, <3>2 DEF ReadLine
    <3> QED BY <1>1, <3>3
  <2>7. CASE ReadEnd(x)
    <3>1. UNCHANGED <<guest, link>> /\ at[x] = "reading" /\ link[x] \in Hosts
      BY <2>7 DEF ReadEnd
    <3>2. CASE Goto(x, "failed") \/ Goto(x, "done")
      BY <1>1, <3>1, <3>2
    <3>3. CASE Goto(x, "garbled") /\ guest[link[x]] = "dead"
      BY <3>1, <3>3
    <3> QED BY <2>7, <3>2, <3>3 DEF ReadEnd
  <2> QED BY <1>6, <2>1, <2>2, <2>3, <2>4, <2>5, <2>6, <2>7 DEF HostStep
<1>7. ASSUME NEW x \in Hosts, SupervisorStep(x)
      PROVE  GarbledByDeath(h)' /\ StartsOnce(h)' /\ Linked(h)'
  BY <1>4, <1>7 DEF SupervisorStep, ClearSocket, Relay, Serve, Advance, connection
<1>8. ASSUME NEW x \in Hosts, GuestStep(x)
      PROVE  GarbledByDeath(h)' /\ StartsOnce(h)' /\ Linked(h)'
  BY <1>1, <1>8 DEF GuestStep, AnswerPing, StartRun, Emit, Respond, WriteBody, WriteNewline
<1>9. CASE UNCHANGED rpcVars
  BY <1>1, <1>9 DEF rpcVars
<1> QED BY <1>5, <1>6, <1>7, <1>8, <1>9 DEF RpcNext

LEMMA FramesStep ==
  ASSUME FrameInvs, [RpcNext]_rpcVars
  PROVE  FrameInvs'
<1>1. RpcTyped /\ RpcTyped'
  BY TypeStep DEF FrameInvs
<1>0. \A h \in Hosts : Ended(h)'
  BY ShownStep, DeathStep DEF Ended
<1> SUFFICES ASSUME NEW h \in Hosts, at'[h] \notin Returned PROVE FrameInv(h)'
  BY <1>0, <1>1 DEF FrameInvs
<1>2. FrameInv(h)
  BY <1>1, ReturnedStays DEF FrameInvs
<1>3. /\ DOMAIN at = Hosts /\ DOMAIN task = Hosts /\ DOMAIN emitted = Hosts
      /\ DOMAIN pending = Hosts /\ DOMAIN lock = Hosts /\ DOMAIN stream = Hosts
      /\ DOMAIN shown = Hosts
  BY <1>1 DEF RpcTyped, RpcTypeOK
<1>10. \A x \in Hosts : at[x] \notin Late => Handled(x)
  BY DEF FrameInvs, FrameInv, Late
\* The steps of x that touch no frame.
<1>4. ASSUME NEW x \in Hosts, UNCHANGED frames,
             \A y \in Hosts \ {x} : at'[y] = at[y] /\ task'[y] = task[y],
             \/ task'[x] = task[x] \/ task[x] # "ended" \/ at[x] \notin Late \/ task'[x] = "ended",
             at'[x] = at[x] \/ at[x] \notin Late \/ at'[x] \in Late \ {"garbled"},
             at'[x] # "garbled" \/ at'[x] = at[x],
             (at'[x] = at[x] /\ task'[x] = task[x]) \/ at'[x] \in Late \/ Handled(x)'
      PROVE  FrameInv(h)'
  <2>1. at[h] \notin Late => ~Answered(h)
    <3>1. at[h] \notin Late => stream[h] = <<>> /\ pending[h] = {}
      BY <1>2 DEF FrameInv, Fresh
    <3> QED BY <3>1 DEF Answered, Places
  <2>2. task[h] # "ended" => ~Answered(h)
    BY <1>2 DEF FrameInv
  <2>3. at[h] # "garbled"
    BY <1>2 DEF FrameInv
  <2>4. /\ emitted'[h] = emitted[h] /\ pending'[h] = pending[h] /\ lock'[h] = lock[h]
        /\ stream'[h] = stream[h] /\ shown'[h] = shown[h]
    BY <1>4 DEF frames
  <2>5. at[h] \notin Late => Handled(h)
    BY <1>2 DEF FrameInv
  <2>6. CASE x # h
    <3>1. at'[h] = at[h] /\ task'[h] = task[h]
      BY <1>4, <2>6
    <3>2. at'[h] \notin Late => Handled(h)'
      BY <2>5, <3>1 DEF Handled
    <3> QED BY <1>2, <2>3, <2>4, <3>1, <3>2, FramesKept
  <2>7. CASE x = h
    <3>1. at'[h] \notin Late => Handled(h)'
      BY <1>4, <2>5, <2>7 DEF Handled
    <3>2. task'[h] = task[h] \/ ~Answered(h) \/ task'[h] = "ended"
      BY <1>4, <2>1, <2>2, <2>7
    <3>3. /\ at'[h] = at[h] \/ at[h] \notin Late \/ at'[h] \in Late \ {"garbled"}
          /\ at'[h] # "garbled"
      BY <1>4, <2>3, <2>7
    <3> QED BY <1>2, <2>4, <3>1, <3>2, <3>3, FramesKept
  <2> QED BY <2>6, <2>7
<1>5. ASSUME NEW x \in Hosts, Ping(x) \/ PingRefused(x) \/ Quit(x) \/ GuestEnds(x)
      PROVE  FrameInv(h)'
  <2> USE <1>3, <1>4 DEF Goto, connection, frames, Late, Returned, Handled
  <2>1. CASE Ping(x) BY <2>1 DEF Ping, Connect
  <2>2. CASE PingRefused(x)
    <3>1. at'[x] \in {"stale", "polling"} /\ \A y \in Hosts \ {x} : at'[y] = at[y]
      BY <2>2 DEF PingRefused, Absent
    <3>2. at[x] = "idle" /\ UNCHANGED <<frames, task>>
      BY <2>2 DEF PingRefused
    <3>3. task[x] = "none" /\ task'[x] = "none"
      BY <1>10, <3>2
    <3> QED BY <3>1, <3>2, <3>3
  <2>3. CASE Quit(x) BY <2>3 DEF Quit
  <2>4. CASE GuestEnds(x) BY <2>4 DEF GuestEnds
  <2> QED BY <1>5, <2>1, <2>2, <2>3, <2>4
<1>6. ASSUME NEW x \in Hosts, HostStep(x) PROVE FrameInv(h)'
  <2>1. CASE ReadLine(x) /\ x = h
    BY <1>1, <1>2, <2>1, LineRead
  <2>2. CASE ReadLine(x) /\ x # h
    <3>1. /\ at'[h] = at[h] /\ task'[h] = task[h] /\ emitted'[h] = emitted[h]
          /\ pending'[h] = pending[h] /\ lock'[h] = lock[h]
          /\ stream'[h] = stream[h] /\ shown'[h] = shown[h]
      BY <1>3, <2>2 DEF ReadLine, Goto
    <3> QED BY <1>2, <3>1, FramesKept DEF FrameInv, Handled
  <2>11. CASE ReadEnd(x)
    <3>1. x # h
      BY <1>3, <2>11 DEF ReadEnd, Goto, Returned
    <3>2. /\ at'[h] = at[h] /\ task'[h] = task[h] /\ emitted'[h] = emitted[h]
          /\ pending'[h] = pending[h] /\ lock'[h] = lock[h]
          /\ stream'[h] = stream[h] /\ shown'[h] = shown[h]
      BY <1>3, <2>11, <3>1 DEF ReadEnd, Goto
    <3> QED BY <1>2, <3>2, FramesKept DEF FrameInv, Handled
  <2> USE <1>3, <1>4 DEF Goto, connection, frames, Late, Returned, Handled
  <2>3. CASE Pong(x) BY <2>3 DEF Pong
  <2>4. CASE PingClosed(x)
    <3>1. at'[x] \in {"stale", "polling"} /\ \A y \in Hosts \ {x} : at'[y] = at[y]
      BY <2>4 DEF PingClosed, Absent
    <3>2. /\ at[x] = "pinging" /\ UNCHANGED frames
          /\ task'[x] = "none" /\ \A y \in Hosts \ {x} : task'[y] = task[y]
      BY <2>4 DEF PingClosed
    <3> QED BY <3>1, <3>2
  <2>5. CASE PingReset(x) BY <2>5 DEF PingReset
  <2>6. CASE RemoveStale(x) BY <1>10, <2>6 DEF RemoveStale
  <2>7. CASE SpawnSupervisor(x) BY <1>10, <2>7 DEF SpawnSupervisor
  <2>8. CASE Deadline(x) BY <2>8 DEF Deadline
  <2>9. CASE Call(x) BY <2>9 DEF Call, Connect
  <2>10. CASE CallRefused(x) BY <2>10 DEF CallRefused
  <2> QED BY <1>6, <2>1, <2>2, <2>3, <2>4, <2>5, <2>6, <2>7, <2>8, <2>9, <2>10, <2>11
          DEF HostStep
<1>7. ASSUME NEW x \in Hosts, SupervisorStep(x) PROVE FrameInv(h)'
  BY <1>3, <1>4, <1>7 DEF SupervisorStep, ClearSocket, Relay, Serve, Advance, connection, frames
<1>8. ASSUME NEW x \in Hosts, GuestStep(x) PROVE FrameInv(h)'
  <2>1. CASE AnswerPing(x) \/ StartRun(x)
    BY <1>3, <1>4, <2>1 DEF AnswerPing, StartRun, frames, Late, Handled
  <2>2. CASE (Emit(x) \/ Respond(x) \/ WriteBody(x) \/ WriteNewline(x)) /\ x # h
    <3>1. /\ emitted'[h] = emitted[h] /\ pending'[h] = pending[h] /\ lock'[h] = lock[h]
          /\ stream'[h] = stream[h] /\ shown'[h] = shown[h] /\ task'[h] = task[h]
          /\ at'[h] = at[h]
      BY <1>3, <2>2 DEF Emit, Respond, WriteBody, WriteNewline
    <3> QED BY <1>2, <3>1, FramesKept DEF FrameInv, Handled
  <2>3. CASE Emit(x) /\ x = h BY <1>1, <1>2, <2>3, Emitted
  <2>4. CASE Respond(x) /\ x = h BY <1>1, <1>2, <2>4, Responded
  <2>5. CASE WriteBody(x) /\ x = h BY <1>1, <1>2, <2>5, BodyWritten
  <2>6. CASE WriteNewline(x) /\ x = h BY <1>1, <1>2, <2>6, NewlineWritten
  <2> QED BY <1>8, <2>1, <2>2, <2>3, <2>4, <2>5, <2>6 DEF GuestStep
<1>9. CASE UNCHANGED rpcVars
  BY <1>2, <1>9, FramesKept DEF rpcVars, FrameInv, Handled
<1> QED BY <1>5, <1>6, <1>7, <1>8, <1>9 DEF RpcNext

\* The lines of an answer are whole frames unless the guest died over one, and no event
\* is shown twice.
THEOREM WholeFrames == RpcSpec => []FramesAreWhole
<1>1. RpcInit => FrameInvs
  <2> SUFFICES ASSUME RpcInit PROVE FrameInvs
    OBVIOUS
  <2>1. RpcTyped
    BY InitTyped
  <2>2. ASSUME NEW h \in Hosts PROVE FrameInv(h)
    <3>1. /\ at[h] = "idle" /\ task[h] = "none" /\ Fresh(h)
      BY DEF RpcInit, Fresh
    <3>2. Places(h) = {} /\ Len(stream[h]) = 0 /\ DOMAIN shown[h] = {}
      BY <3>1 DEF Fresh, Places
    <3> QED BY <3>1, <3>2, Parity DEF FrameInv, Fresh, Framed, Locked, Distinct, Answered, Handled
  <2>3. ASSUME NEW h \in Hosts PROVE Ended(h)
    <3>1. at[h] = "idle" /\ shown[h] = <<>>
      BY DEF RpcInit
    <3> QED BY <3>1 DEF Ended, NoneTwice, GarbledByDeath, StartsOnce, Linked
  <2> QED BY <2>1, <2>2, <2>3 DEF FrameInvs
<1>2. FrameInvs /\ [RpcNext]_rpcVars => FrameInvs'
  BY FramesStep
<1>3. FrameInvs => FramesAreWhole
  BY DEF FrameInvs, Ended, NoneTwice, GarbledByDeath, FramesAreWhole
<1> QED BY <1>1, <1>2, <1>3, PTL DEF RpcSpec
============================================================================
