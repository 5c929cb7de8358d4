---------------------------- MODULE SocketServer ----------------------------
(***************************************************************************)
(* The TCP half of skynet-src/socket_server.c.  Worker threads call        *)
(* socket_server_connect, _listen, _start, _pause, _close, _shutdown,      *)
(* _send and _send_lowpriority; most calls only write a request into the   *)
(* control pipe, which the one socket thread reads between two batches of  *)
(* events.  Two things are done by the worker itself, racing the socket    *)
(* thread: reserve_id takes a slot, and a send may write to the socket     *)
(* directly under dw_lock.                                                 *)
(*                                                                         *)
(* A buffer is a sequence of units <<message, position>>; a message has    *)
(* Units of them, so that a write can stop in the middle.  Left out: UDP,  *)
(* bind, socket options, statistics and the warning of a long buffer.      *)
(***************************************************************************)
EXTENDS Integers, FiniteSets, SequencesExt

CONSTANTS
  Caller,   \* the worker threads
  NoOne,    \* no caller
  NSlot,    \* MAX_SOCKET, the length of ss->slot
  Units,    \* units of a message
  MaxId,    \* bound: alloc_id, which does not wrap here
  MaxSend,  \* bound: messages sent
  MaxCall,  \* bound: calls of the workers
  MaxBatch  \* bound: MAX_EVENT, the events of one wait

ASSUME BoundAssumption ==
  /\ NSlot \in Nat \ {0} /\ Units \in Nat \ {0}
  /\ MaxId \in Nat /\ MaxSend \in Nat /\ MaxCall \in Nat
  /\ MaxBatch \in Nat
ASSUME CallerAssumption == NoOne \notin Caller /\ IsFiniteSet(Caller)

VARIABLES
  alloc,   \* alloc_id
  sock,    \* ss->slot
  pipe,    \* the control pipe
  call,    \* what each worker is doing
  ctl,     \* where socket_server_poll is
  ev,      \* the rest of the batch of events
  fc,      \* the force_close that waits for dw_lock
  wire,    \* the units the kernel took, per socket id
  peer,    \* the other end of each connection
  told,    \* the messages to the service that owns each socket
  known,   \* the ids the services have heard of
  cut,     \* the ids whose unsent data force_close has freed
  sends,   \* the messages sent so far: by whom, to which id, how
  calls,   \* calls made so far
  failed   \* an assert failed, or the socket thread serves a slot that is
           \* only reserved and works on a descriptor not its own

vars == <<alloc, sock, pipe, call, ctl, ev, fc, wire, peer, told, known, cut,
          sends, calls, failed>>

Slot == 0..(NSlot - 1)
Id == 1..MaxId
SlotOf(id) == id % NSlot              \* HASH_ID
Message(m) == [i \in 1..Units |-> <<m, i>>]

Type == {"INVALID", "RESERVE", "PLISTEN", "LISTEN", "CONNECTING",
         "CONNECTED", "HALFCLOSE_READ", "HALFCLOSE_WRITE", "PACCEPT"}
Unit == (1..MaxSend) \X (1..Units)
Socket ==
  [type : Type, id : 0..MaxId, tcp : BOOLEAN, closing : BOOLEAN,
   reading : BOOLEAN, writing : BOOLEAN, tag : 0..MaxId, sending : Nat,
   high : Seq(Unit), low : Seq(Unit), dw : Seq(Unit),
   lock : Caller \cup {NoOne}]
Cmd == {"open", "listen", "start", "pause", "close", "shutdown", "trigger",
        "send", "send_low"}
Request == [cmd : Cmd, id : Id, msg : 0..MaxSend]
Call == [step : {"idle", "fill", "post", "check", "direct", "written", "ref"},
         cmd : Cmd, id : 0..MaxId, msg : 0..MaxSend, n : 0..Units]
Event == [slot : Slot, r : BOOLEAN, w : BOOLEAN, err : BOOLEAN,
          hup : BOOLEAN]
Word == {"open", "accept", "data", "err", "close"}

(* Every variable has its type. *)
TypeOK ==
  /\ alloc \in 0..MaxId
  /\ sock \in [Slot -> Socket]
  /\ pipe \in Seq(Request)
  /\ call \in [Caller -> Call]
  /\ ctl \in {"check", "rest", "fresh", "lock"}
  /\ ev \in Seq(Event)
  /\ fc \in [slot : Slot, tell : BOOLEAN, word : Word,
             back : {"check", "rest"}]
  /\ wire \in [Id -> Seq(Unit)]
  /\ peer \in [Id -> {"up", "fin", "rst"}]
  /\ told \in [Id -> Seq(Word)]
  /\ known \subseteq Id /\ cut \subseteq Id
  /\ sends \in Seq([by : Caller, to : Id, low : BOOLEAN])
  /\ calls \in 0..MaxCall
  /\ failed \in BOOLEAN

NoCall == [step |-> "idle", cmd |-> "open", id |-> 0, msg |-> 0, n |-> 0]

Free ==
  [type |-> "INVALID", id |-> 0, tcp |-> FALSE, closing |-> FALSE,
   reading |-> FALSE, writing |-> FALSE, tag |-> 0, sending |-> 0,
   high |-> <<>>, low |-> <<>>, dw |-> <<>>, lock |-> NoOne]

(* Nothing is under way. *)
Quiet ==
  /\ pipe = <<>> /\ ev = <<>> /\ ctl = "check"
  /\ fc = [slot |-> 0, tell |-> FALSE, word |-> "close", back |-> "check"]
  /\ call = [c \in Caller |-> NoCall]
  /\ wire = [i \in Id |-> <<>>] /\ peer = [i \in Id |-> "up"]
  /\ cut = {} /\ sends = <<>> /\ failed = FALSE

(* socket_server_create. *)
Init ==
  /\ Quiet /\ calls = 0
  /\ alloc = 0 /\ sock = [s \in Slot |-> Free]
  /\ told = [i \in Id |-> <<>>] /\ known = {}

-----------------------------------------------------------------------------
(* The state of a socket.                                                  *)

Invalid(id) == sock[SlotOf(id)].id # id \/ sock[SlotOf(id)].type = "INVALID"
Stray(s) == s.type = "RESERVE"
Empty(s) == s.high = <<>> /\ s.low = <<>>
(* Mutants: a look that misses the rest of a direct write, or the sends in *)
(* flight.                                                                 *)
NoMoreQueued(s) ==
  \/ Empty(s) /\ s.sending = 0
  \/ s.type = "HALFCLOSE_WRITE"
NoMoreKept(s) ==
  \/ Empty(s) /\ s.dw = <<>>
  \/ s.type = "HALFCLOSE_WRITE"

NoMoreSending(s) ==
  \/ Empty(s) /\ s.dw = <<>> /\ s.sending = 0
  \/ s.type = "HALFCLOSE_WRITE"
CanDirect(id) ==
  LET s == sock[SlotOf(id)] IN
  s.id = id /\ NoMoreSending(s) /\ s.type = "CONNECTED"

Put(sl, s) == sock' = [sock EXCEPT ![sl] = s]

(* A message of the socket thread to the owner.  Data is of interest only  *)
(* after the close, and a run of errors counts as one.                     *)
Say(id, word) ==
  told' = [told EXCEPT ![id] =
    IF \/ word = "data" /\ ~Contains(@, "close")
       \/ word = "err" /\ @ # <<>> /\ Last(@) = word
    THEN @ ELSE Append(@, word)]

(* The next free slot, in the order of ids; 0 when every slot is taken.    *)
FreeId ==
  LET free == {k \in 1..NSlot : sock[SlotOf(alloc + k)].type = "INVALID"} IN
  IF free = {} THEN 0 ELSE alloc + Min(free)
MayReserve == alloc + NSlot <= MaxId

-----------------------------------------------------------------------------
(* The worker threads.                                                     *)

Idle(c) == ~failed /\ call[c].step = "idle" /\ calls < MaxCall
Step(c, step) == ~failed /\ call[c].step = step
Goto(c, step) == call' = [call EXCEPT ![c].step = step]
Return(c) == call' = [call EXCEPT ![c] = NoCall]
Write(cmd, id, msg) ==
  pipe' = Append(pipe, [cmd |-> cmd, id |-> id, msg |-> msg])

(* socket_server_connect and _listen: reserve_id moves a free slot from    *)
(* INVALID to RESERVE and only then writes the new id into it.             *)
Reserve(c, cmd) ==
  /\ Idle(c) /\ MayReserve
  /\ calls' = calls + 1
  /\ IF FreeId = 0
     THEN alloc' = alloc + NSlot /\ UNCHANGED <<sock, call>>
     ELSE /\ alloc' = FreeId
          /\ sock' = [sock EXCEPT ![SlotOf(FreeId)].type = "RESERVE"]
          /\ call' = [call EXCEPT ![c] =
                       [NoCall EXCEPT !.step = "fill", !.cmd = cmd,
                                      !.id = FreeId]]
  /\ UNCHANGED <<pipe, ctl, ev, fc, wire, peer, told, known, cut, sends,
                 failed>>

Fill(c) ==
  LET id == call[c].id IN
  /\ Step(c, "fill")
  /\ sock' = [sock EXCEPT ![SlotOf(id)].id = id, ![SlotOf(id)].tcp = FALSE]
  /\ Goto(c, "post")
  /\ UNCHANGED <<alloc, pipe, ctl, ev, fc, wire, peer, told, known, cut,
                 sends, calls, failed>>

(* send_request, at the end of a call of several steps.                    *)
Post(c) ==
  /\ Step(c, "post")
  /\ Write(call[c].cmd, call[c].id, call[c].msg)
  /\ known' = IF call[c].cmd \in {"open", "listen"}
              THEN known \cup {call[c].id} ELSE known
  /\ Return(c)
  /\ UNCHANGED <<alloc, sock, ctl, ev, fc, wire, peer, told, cut, sends,
                 calls, failed>>

(* socket_server_start, _pause, _close and _shutdown only write a request. *)
Order(c, cmd, id) ==
  /\ Idle(c) /\ id \in known
  /\ calls' = calls + 1
  /\ Write(cmd, id, 0)
  /\ UNCHANGED <<alloc, sock, call, ctl, ev, fc, wire, peer, told, known,
                 cut, sends, failed>>

(* socket_server_send and _send_lowpriority, up to the attempt to lock.  A *)
(* service sends once it was told of the socket.                           *)
Send(c, id, low) ==
  LET s == sock[SlotOf(id)] IN
  /\ Idle(c) /\ Len(sends) < MaxSend
  /\ id \in known /\ \E i \in DOMAIN told[id] : told[id][i] = "open"
  /\ calls' = calls + 1
  /\ sends' = Append(sends, [by |-> c, to |-> id, low |-> low])
  /\ IF Invalid(id) \/ (~low /\ s.closing)
     THEN UNCHANGED call
     ELSE call' = [call EXCEPT ![c] =
            [step |-> IF ~low /\ CanDirect(id) THEN "direct" ELSE "ref",
             cmd |-> IF low THEN "send_low" ELSE "send", id |-> id,
             msg |-> Len(sends) + 1, n |-> 0]]
  /\ UNCHANGED <<alloc, sock, pipe, ctl, ev, fc, wire, peer, told, known,
                 cut, failed>>

(* The second look, under dw_lock, and the write; an error counts as       *)
(* nothing written.  Unless all was written the lock is kept until the     *)
(* rest is in dw_buffer.                                                   *)
SendDirect(c) ==
  LET id == call[c].id IN
  /\ Step(c, "direct")
  /\ IF sock[SlotOf(id)].lock # NoOne \/ ~CanDirect(id)
     THEN Goto(c, "ref") /\ UNCHANGED <<sock, wire>>
     ELSE \E n \in IF peer[id] = "rst" THEN {0} ELSE 0..Units :
            /\ wire' = [wire EXCEPT ![id] =
                         @ \o SubSeq(Message(call[c].msg), 1, n)]
            /\ IF n = Units
               THEN Return(c) /\ UNCHANGED sock
               ELSE /\ sock' = [sock EXCEPT ![SlotOf(id)].lock = c]
                    /\ call' = [call EXCEPT ![c].step = "written",
                                            ![c].n = n]
  /\ UNCHANGED <<alloc, pipe, ctl, ev, fc, peer, told, known, cut, sends,
                 calls, failed>>

KeepRest(c) ==
  LET sl == SlotOf(call[c].id) IN
  /\ Step(c, "written")
  /\ sock' = [sock EXCEPT ![sl].lock = NoOne,
                ![sl].dw = SubSeq(Message(call[c].msg), call[c].n + 1, Units)]
  /\ call' = [call EXCEPT ![c] = [NoCall EXCEPT !.step = "post",
                                    !.cmd = "trigger", !.id = call[c].id]]
  /\ UNCHANGED <<alloc, pipe, ctl, ev, fc, wire, peer, told, known, cut,
                 sends, calls, failed>>

(* inc_sending_ref: the count is kept under a tag of the id.  The mutants  *)
(* count no send to a socket half closed, or do not look at the tag.       *)
CountsOpen(s, id) == s.tcp /\ s.tag = id /\ s.type = "CONNECTED"
CountsAny(s, id) == s.tcp
Counts(s, id) == s.tcp /\ s.tag = id

IncSending(c) ==
  LET id == call[c].id IN
  /\ Step(c, "ref")
  /\ sock' = IF Counts(sock[SlotOf(id)], id)
             THEN [sock EXCEPT ![SlotOf(id)].sending = @ + 1]
             ELSE sock
  /\ Goto(c, "post")
  /\ UNCHANGED <<alloc, pipe, ctl, ev, fc, wire, peer, told, known, cut,
                 sends, calls, failed>>

-----------------------------------------------------------------------------
(* The socket thread: how a handler ends.                                  *)

(* clear_closed_event: a slot that is free again loses its event.          *)
Cleared(rest, s, word) ==
  IF word \in {"close", "err"} /\ s.type = "INVALID"
  THEN RemoveFirstMatch(rest, LAMBDA e : e.slot = SlotOf(s.id)) ELSE rest

(* The socket becomes s; its owner is told word, if it is not "none".      *)
Answer(sl, s, word, rest, back, bad) ==
  /\ Put(sl, s)
  /\ IF word = "none" THEN UNCHANGED told ELSE Say(s.id, word)
  /\ ev' = Cleared(rest, s, word)
  /\ ctl' = back
  /\ failed' = bad
  /\ UNCHANGED <<fc, cut>>

(* force_close, up to the lock: the queues are freed.                      *)
ForceClose(sl, s, word, rest, back) ==
  /\ Put(sl, [s EXCEPT !.high = <<>>, !.low = <<>>])
  /\ cut' = IF Empty(s) THEN cut ELSE cut \cup {s.id}
  /\ fc' = [slot |-> sl, tell |-> word # "none",
            word |-> IF word = "none" THEN "close" ELSE word, back |-> back]
  /\ ev' = rest
  /\ ctl' = "lock"
  /\ failed' = Stray(s)
  /\ UNCHANGED told

(* The rest of force_close, and the end of the handler that called it.     *)
LockedClose ==
  LET s == [sock[fc.slot] EXCEPT !.type = "INVALID", !.dw = <<>>] IN
  /\ ~failed /\ ctl = "lock" /\ s.lock = NoOne
  /\ Put(fc.slot, s)
  /\ IF fc.tell THEN Say(s.id, fc.word) ELSE UNCHANGED told
  /\ ev' = IF fc.tell THEN Cleared(ev, s, fc.word) ELSE ev
  /\ ctl' = fc.back
  /\ UNCHANGED <<alloc, pipe, call, fc, wire, peer, known, cut, sends, calls,
                 failed>>

HalfRead(s) == [s EXCEPT !.type = "HALFCLOSE_READ", !.reading = FALSE]

-----------------------------------------------------------------------------
(* ctrl_cmd: requests are read until the pipe is empty.                    *)

TakeRequest(cmds) ==
  /\ ~failed /\ ctl = "check" /\ pipe # <<>> /\ Head(pipe).cmd \in cmds
  /\ pipe' = Tail(pipe)
  /\ UNCHANGED <<alloc, call, wire, peer, known, sends, calls>>

(* new_fd, with its asserts.                                               *)
NewFd(id, type, reading) ==
  [sock[SlotOf(id)] EXCEPT !.type = type, !.id = id, !.tcp = TRUE,
     !.closing = FALSE, !.reading = reading, !.tag = id, !.sending = 0,
     !.writing = (type = "CONNECTING"), !.dw = <<>>]
NewFdFails(s) == s.type # "RESERVE" \/ ~Empty(s)

OpenSocket ==
  LET id == Head(pipe).id
      s == sock[SlotOf(id)] IN
  /\ TakeRequest({"open"})
  /\ \/ Answer(SlotOf(id), [s EXCEPT !.type = "INVALID"], "err", ev, "check",
               FALSE)
     \/ Answer(SlotOf(id), NewFd(id, "CONNECTED", TRUE), "open", ev, "check",
               NewFdFails(s))
     \/ Answer(SlotOf(id), NewFd(id, "CONNECTING", TRUE), "none", ev, "check",
               NewFdFails(s))

ListenSocket ==
  LET id == Head(pipe).id
      s == sock[SlotOf(id)] IN
  /\ TakeRequest({"listen"})
  /\ \/ Answer(SlotOf(id), [s EXCEPT !.type = "INVALID"], "err", ev, "check",
               FALSE)
     \/ Answer(SlotOf(id), NewFd(id, "PLISTEN", FALSE), "open", ev, "check",
               NewFdFails(s))

ResumeSocket ==
  LET id == Head(pipe).id
      s == sock[SlotOf(id)]
      on == [s EXCEPT !.reading = TRUE] IN
  /\ TakeRequest({"start"})
  /\ IF Invalid(id) \/ s.type = "HALFCLOSE_READ"
     THEN Say(id, "err") /\ UNCHANGED <<sock, ev, ctl, fc, cut, failed>>
     ELSE Answer(SlotOf(id),
            [on EXCEPT !.type = CASE @ = "PACCEPT" -> "CONNECTED"
                                  [] @ = "PLISTEN" -> "LISTEN"
                                  [] OTHER -> @],
            IF s.type \in {"PACCEPT", "PLISTEN", "CONNECTED"} THEN "open"
            ELSE "none", ev, "check", Stray(s))

(* pause_socket and trigger_write switch the interest in an event.         *)
SwitchEvent ==
  LET r == Head(pipe)
      s == sock[SlotOf(r.id)] IN
  /\ TakeRequest({"pause", "trigger"})
  /\ IF Invalid(r.id) THEN UNCHANGED <<sock, told, ev, ctl, fc, cut, failed>>
     ELSE Answer(SlotOf(r.id),
            IF r.cmd = "pause" THEN [s EXCEPT !.reading = FALSE]
            ELSE [s EXCEPT !.writing = TRUE], "none", ev, "check", Stray(s))

(* SOCKET_CLOSE is not raised again.  The mutant does.                     *)
RaisedAgain(s) == "close"
Raised(s) == IF s.type = "HALFCLOSE_READ" THEN "none" ELSE "close"

CloseSocket ==
  LET r == Head(pipe)
      s == sock[SlotOf(r.id)]
      half == s.type = "HALFCLOSE_READ"
      closing == [s EXCEPT !.closing = TRUE] IN
  /\ TakeRequest({"close", "shutdown"})
  /\ IF Invalid(r.id) THEN UNCHANGED <<sock, told, ev, ctl, fc, cut, failed>>
     ELSE IF r.cmd = "shutdown" \/ NoMoreSending(s)
     THEN ForceClose(SlotOf(r.id), s, Raised(s), ev, "check")
     ELSE Answer(SlotOf(r.id), IF half THEN closing ELSE HalfRead(closing),
                 Raised(s), ev, "check", Stray(s))

(* send_socket, then dec_sending_ref with its assert.                      *)
SendSocket ==
  LET r == Head(pipe)
      s == sock[SlotOf(r.id)]
      drop == \/ Invalid(r.id) \/ s.closing
              \/ s.type \in {"HALFCLOSE_WRITE", "PACCEPT", "PLISTEN", "LISTEN"}
      queued == IF drop THEN s
                ELSE IF Empty(s)
                THEN [s EXCEPT !.high = Message(r.msg), !.writing = TRUE]
                ELSE IF r.cmd = "send_low"
                THEN [s EXCEPT !.low = @ \o Message(r.msg)]
                ELSE [s EXCEPT !.high = @ \o Message(r.msg)]
      counted == s.id = r.id /\ s.tcp IN
  /\ TakeRequest({"send", "send_low"})
  /\ Answer(SlotOf(r.id),
            [queued EXCEPT !.sending = IF counted THEN @ - 1 ELSE @],
            "none", ev, "check",
            (~drop /\ Stray(s)) \/ (counted /\ s.sending = 0))

NoRequest ==
  /\ ~failed /\ ctl = "check" /\ pipe = <<>>
  /\ ctl' = "rest"
  /\ UNCHANGED <<alloc, sock, pipe, call, ev, fc, wire, peer, told, known,
                 cut, sends, calls, failed>>

-----------------------------------------------------------------------------
(* Events.                                                                 *)

(* What epoll may report of slot sl now.                                   *)
Ready(sl) ==
  LET s == sock[sl]
      p == peer[s.id]
      any == [slot : {sl}, r : BOOLEAN, w : BOOLEAN, err : BOOLEAN,
              hup : BOOLEAN] IN
  CASE s.type \in {"INVALID", "RESERVE", "PLISTEN"} -> {}
    [] s.type = "LISTEN" ->
         {e \in any : s.reading /\ MayReserve /\ e.r
                     /\ ~(e.w \/ e.err \/ e.hup)}
    [] s.type = "CONNECTING" ->
         {e \in any : e.w /\ ~(e.r \/ e.err \/ e.hup)}
    [] OTHER ->
         {e \in any :
            /\ e.hup <=> p = "rst" \/ (p = "fin" /\ s.type = "HALFCLOSE_WRITE")
            /\ e.r => s.reading
            /\ s.reading /\ p # "up" => e.r
            /\ e.w => s.writing
            /\ s.writing /\ p = "rst" => e.w
            /\ e.err => p = "rst"
            /\ e.r \/ e.w \/ e.err \/ e.hup}

(* sp_wait, with an empty batch left and no request seen.  The first event *)
(* is handled before the pipe is looked at, unless it is the pipe's own.   *)
Wait ==
  LET all == UNION {Ready(sl) : sl \in Slot}
      batch == {q \in UNION {[1..n -> all] : n \in 1..MaxBatch} :
                  IsInjective([i \in DOMAIN q |-> q[i].slot])} IN
  /\ ~failed /\ ctl = "rest" /\ ev = <<>>
  /\ \/ ev' \in batch /\ ctl' = "fresh"
     \/ ev' \in batch \cup {<<>>} /\ ctl' = "check" /\ pipe # <<>>
  /\ UNCHANGED <<alloc, sock, pipe, call, fc, wire, peer, told, known, cut,
                 sends, calls, failed>>

Back == IF ctl = "fresh" THEN "check" ELSE "rest"
Pop == Tail(ev)
(* The event stays, to be looked at again without its read flag. *)
Again == <<[Head(ev) EXCEPT !.r = FALSE]>> \o Tail(ev)
AfterRead == IF Head(ev).w THEN Again ELSE Pop

OnEvent(types) ==
  /\ ~failed /\ ctl \in {"rest", "fresh"} /\ ev # <<>>
  /\ sock[Head(ev).slot].type \in types
  /\ UNCHANGED <<pipe, call, peer, sends, calls>>
Open == {"PACCEPT", "PLISTEN", "CONNECTED", "HALFCLOSE_READ",
         "HALFCLOSE_WRITE"}
OnOpen(what) == OnEvent(Open) /\ what /\ UNCHANGED <<alloc, known>>

ReportConnect ==
  LET sl == Head(ev).slot
      s == sock[sl] IN
  /\ OnEvent({"CONNECTING"})
  /\ \/ ForceClose(sl, s, "err", Pop, Back)
     \/ Answer(sl, [s EXCEPT !.type = "CONNECTED",
                             !.writing = @ /\ ~NoMoreSending(s)],
               "open", Pop, Back, FALSE)
  /\ UNCHANGED <<alloc, wire, known>>

(* report_accept: a slot is reserved and filled, or the client turned away *)
ReportAccept ==
  LET l == sock[Head(ev).slot].id IN
  /\ OnEvent({"LISTEN"}) /\ MayReserve
  /\ IF FreeId = 0
     THEN alloc' = alloc + NSlot /\ UNCHANGED <<sock, told, known, failed>>
     ELSE LET s == sock[SlotOf(FreeId)] IN
          /\ alloc' = FreeId
          /\ Put(SlotOf(FreeId), NewFd(FreeId, "PACCEPT", FALSE))
          /\ Say(FreeId, "accept")
          /\ known' = known \cup {FreeId}
          /\ failed' = ~Empty(s)
  /\ ev' = Pop /\ ctl' = Back
  /\ UNCHANGED <<fc, cut, wire>>

(* An event of a slot freed, or freed and taken again, behind the wait.    *)
StaleEvent ==
  /\ OnEvent({"INVALID", "RESERVE"})
  /\ failed' = Stray(sock[Head(ev).slot])
  /\ ev' = Pop /\ ctl' = Back
  /\ UNCHANGED <<alloc, sock, fc, wire, told, known, cut>>

(* forward_message_tcp.                                                    *)
ReadNothing ==
  LET sl == Head(ev).slot
      s == sock[sl] IN
  /\ OnOpen(Head(ev).r) /\ peer[s.id] = "up" /\ s.type # "PLISTEN"
  /\ Answer(sl, s, "none", AfterRead, Back, FALSE)
  /\ UNCHANGED wire

ReadError ==
  LET sl == Head(ev).slot
      s == sock[sl] IN
  /\ OnOpen(Head(ev).r) /\ (peer[s.id] = "rst" \/ s.type = "PLISTEN")
  /\ Answer(sl, s, "err", Pop, Back, FALSE)
  /\ UNCHANGED wire

(* Data; when the buffer was filled (SOCKET_MORE) the event is kept.       *)
ReadData ==
  LET sl == Head(ev).slot
      s == sock[sl] IN
  /\ OnOpen(Head(ev).r) /\ peer[s.id] # "rst" /\ s.type # "PLISTEN"
  /\ IF s.type = "HALFCLOSE_READ"
     THEN Answer(sl, s, "none", AfterRead, Back, FALSE)
     ELSE \E rest \in {AfterRead, ev} : Answer(sl, s, "data", rest, Back,
                                               FALSE)
  /\ UNCHANGED wire

ReadEnd ==
  LET sl == Head(ev).slot
      s == sock[sl] IN
  /\ OnOpen(Head(ev).r) /\ peer[s.id] = "fin" /\ s.type # "PLISTEN"
  /\ IF s.closing
     THEN IF NoMoreSending(s) THEN ForceClose(sl, s, "none", AfterRead, Back)
          ELSE Answer(sl, s, "none", AfterRead, Back, FALSE)
     ELSE CASE s.type = "HALFCLOSE_READ" ->
                 Answer(sl, s, "none", AfterRead, Back, FALSE)
            [] s.type = "HALFCLOSE_WRITE" ->
                 ForceClose(sl, s, "close", Pop, Back)
            [] OTHER -> Answer(sl, HalfRead(s), "close", Pop, Back, FALSE)
  /\ UNCHANGED wire

(* send_list_tcp: n units of list leave; then the write would block, or it *)
(* fails, which it can do only between two messages or at the start.       *)
Written(list) ==
  [n : 0..Len(list), failed : BOOLEAN]
Possible(p, list, o) ==
  /\ o.failed => o.n < Len(list) /\ (o.n = 0 \/ list[o.n + 1][2] = 1)
  /\ p = "rst" => o.n = 0 /\ (list # <<>> => o.failed)
Rest(list, n) == SubSeq(list, n + 1, Len(list))

(* send_buffer: dw_buffer goes before the high list, which goes before the *)
(* low one; a low message sent in part is raised to the high list.  Here   *)
(* force_close is called with the lock held, so that it is one step.       *)
SendBuffer ==
  LET sl == Head(ev).slot
      s == sock[sl]
      high == s.dw \o s.high IN
  /\ OnOpen(~Head(ev).r /\ Head(ev).w) /\ s.lock = NoOne
  /\ \E h \in Written(high), l \in Written(s.low) :
       LET all == h.n = Len(high)
           rest == Rest(s.low, l.n)
           part == rest # <<>> /\ Head(rest)[2] > 1
           \* the units that follow in the message that was sent in part
           cont == IF part THEN Units - Head(rest)[2] + 1 ELSE 0
           t == [s EXCEPT !.dw = <<>>,
                  !.high = IF all THEN SubSeq(rest, 1, cont)
                           ELSE Rest(high, h.n),
                  !.low = IF all THEN Rest(rest, cont) ELSE @]
           gone == [t EXCEPT !.type = "INVALID", !.high = <<>>, !.low = <<>>]
       IN
       /\ Possible(peer[s.id], high, h)
       /\ IF all THEN Possible(peer[s.id], s.low, l)
          ELSE l.n = 0 /\ ~l.failed
       /\ wire' = [wire EXCEPT ![s.id] = @ \o SubSeq(high, 1, h.n)
                                           \o SubSeq(s.low, 1, l.n)]
       /\ IF h.failed \/ l.failed
          THEN \* close_write
               IF s.closing \/ s.type = "HALFCLOSE_READ"
               THEN Answer(sl, gone, "none", Pop, Back, FALSE)
               ELSE IF s.type = "HALFCLOSE_WRITE"
               THEN Answer(sl, t, "none", Pop, Back, FALSE)
               ELSE Answer(sl, [t EXCEPT !.type = "HALFCLOSE_WRITE",
                                         !.writing = FALSE],
                           "err", Pop, Back, FALSE)
          ELSE IF ~Empty(t) THEN Answer(sl, t, "none", Pop, Back, FALSE)
          ELSE IF s.closing THEN Answer(sl, gone, "none", Pop, Back, FALSE)
          ELSE Answer(sl, [t EXCEPT !.writing = FALSE], "none", Pop, Back,
                      FALSE)

(* A direct write holds dw_lock: the event comes again.                    *)
SendBlocked ==
  LET sl == Head(ev).slot IN
  /\ OnOpen(~Head(ev).r /\ Head(ev).w) /\ sock[sl].lock # NoOne
  /\ Answer(sl, sock[sl], "none", Pop, Back, FALSE)
  /\ UNCHANGED wire

(* Neither readable nor writable: an error is reported, a hang-up closes.  *)
ErrorEvent ==
  LET sl == Head(ev).slot IN
  /\ OnOpen(~Head(ev).r /\ ~Head(ev).w)
  /\ Head(ev).err
  /\ Answer(sl, sock[sl], "err", Pop, Back, FALSE)
  /\ UNCHANGED wire

HangUp ==
  LET sl == Head(ev).slot
      s == sock[sl] IN
  /\ OnOpen(~Head(ev).r /\ ~Head(ev).w)
  /\ ~Head(ev).err
  /\ IF Head(ev).hup
     THEN ForceClose(sl, s, Raised(s), Pop, Back)
     ELSE Answer(sl, s, "none", Pop, Back, FALSE)
  /\ UNCHANGED wire

(* The other end of a connection finishes or resets it.                    *)
PeerEnds(id, how) ==
  /\ ~failed
  /\ ~Invalid(id)
  /\ sock[SlotOf(id)].type \in Open \ {"PLISTEN"}
  /\ peer[id] = "up"
  /\ peer' = [peer EXCEPT ![id] = how]
  /\ UNCHANGED <<alloc, sock, pipe, call, ctl, ev, fc, wire, told, known, cut,
                 sends, calls, failed>>

-----------------------------------------------------------------------------
Worker(c) ==
  \/ \E cmd \in {"open", "listen"} : Reserve(c, cmd)
  \/ Fill(c) \/ Post(c) \/ SendDirect(c) \/ KeepRest(c) \/ IncSending(c)
  \/ \E cmd \in {"start", "pause", "close", "shutdown"}, id \in known :
       Order(c, cmd, id)
  \/ \E id \in known, low \in BOOLEAN : Send(c, id, low)

Thread ==
  \/ LockedClose \/ OpenSocket \/ ListenSocket \/ ResumeSocket
  \/ SwitchEvent \/ CloseSocket \/ SendSocket \/ NoRequest \/ Wait
  \/ ReportConnect \/ ReportAccept \/ StaleEvent \/ ReadNothing \/ ReadError
  \/ ReadData \/ ReadEnd \/ SendBuffer \/ SendBlocked \/ ErrorEvent \/ HangUp

Next ==
  \/ \E c \in Caller : Worker(c)
  \/ Thread
  \/ \E id \in known, how \in {"fin", "rst"} : PeerEnds(id, how)

Spec == Init /\ [][Next]_vars

-----------------------------------------------------------------------------
(* Properties.                                                             *)

(* On the wire messages are whole: the units of one follow each other, a   *)
(* message begins only after the one before it has ended, none is sent     *)
(* twice and none reaches another socket than the one it was sent to,      *)
(* whoever wrote the units: a worker directly, the rest of a direct write, *)
(* the high list or the low one.  (Of a socket closed by force with data   *)
(* unsent nothing is claimed: see README.)                                 *)
WireWhole ==
  \A id \in Id \ cut :
    LET w == wire[id] IN
    /\ \A i \in DOMAIN w :
         /\ sends[w[i][1]].to = id
         /\ IF w[i][2] = 1
            THEN i = 1 \/ w[i - 1][2] = Units
            ELSE i > 1 /\ w[i - 1] = <<w[i][1], w[i][2] - 1>>
    /\ IsInjective(w)

(* The messages of one worker to one socket leave in the order sent, but   *)
(* that one of low priority may be overtaken by one that is not.           *)
SendOrder ==
  \A id \in Id : \A i, j \in DOMAIN wire[id] :
    LET m == wire[id][i][1]
        n == wire[id][j][1] IN
    i < j /\ m > n /\ sends[m].by = sends[n].by =>
      sends[n].low /\ ~sends[m].low

(* s->sending of an open socket counts the sends to it that are on their   *)
(* way to the socket thread, and no others: not those to an earlier socket *)
(* of the slot.  close_socket and the direct write decide by it.           *)
SendingCounted ==
  \A sl \in Slot :
    LET s == sock[sl]
        sent(r) == r.cmd \in {"send", "send_low"} /\ r.id = s.id IN
    ~failed /\ s.tcp /\ s.tag = s.id =>
      s.sending = Cardinality({i \in DOMAIN pipe : sent(pipe[i])})
                  + Cardinality({c \in Caller : call[c].step = "post"
                                                /\ sent(call[c])})

(* SOCKET_CLOSE is raised only once for a socket, nothing is reported of   *)
(* it later but errors, and the owner of a socket that is gone was told:   *)
(* of its close, or that it could not be opened.                           *)
ToldOnce ==
  \A id \in known :
    LET t == told[id]
        has(word) == \E i \in DOMAIN t : t[i] = word IN
    ~failed =>
    /\ \A i, j \in DOMAIN t : i < j /\ t[i] = "close" => t[j] = "err"
    /\ Invalid(id) => has("close") \/ (has("err") /\ ~has("open"))
=============================================================================
