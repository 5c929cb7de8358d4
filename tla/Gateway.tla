------------------------------ MODULE Gateway -------------------------------
(***************************************************************************)
(* The client connections of the gateway: service/base/gateway.lua on      *)
(* http/websocket.lua on skynet/socket.lua, and what the socket server     *)
(* does for them.                                                          *)
(*                                                                         *)
(* One service: its coroutines run one at a time, each until it waits or   *)
(* ends; then the coroutines that were woken run in the order they were    *)
(* woken, and only then is the next message of the mailbox dispatched.     *)
(* run is the coroutine that has the service.  Each accepted connection    *)
(* has one coroutine, named like the connection, that reads it;            *)
(* exitfunc runs in the coroutine Exit.                                    *)
(*                                                                         *)
(* The input of a client is a sequence of the pieces read() asks for: the  *)
(* handshake, then for each frame its head and its payload.  No message    *)
(* logs a client in as the code stands (choice_srv_login indexes a field   *)
(* that runconfig does not have), so the connections are those of clients  *)
(* that have not logged in, and gate_players stays empty.                  *)
(***************************************************************************)
EXTENDS Naturals, Sequences, FiniteSets

CONSTANTS
  Conn,      \* connections, by socket id; an id is not used twice
  Exit,      \* the coroutine of exitfunc
  NoOne,     \* no coroutine
  MaxFrame   \* bound: frames a client sends

ASSUME NameAssumption == Exit \notin Conn /\ NoOne \notin Conn \cup {Exit}
ASSUME BoundAssumption == MaxFrame \in Nat

VARIABLES
  (* The socket server, and the messages on their way. *)
  link,      \* state of the socket
  request,   \* commands for it in the pipe to the socket thread
  report,    \* what the service is still to be told about it
  sent,      \* pieces of the client's input that were pushed
  mail,      \* messages of the service to itself
  (* socket_pool of socket.lua. *)
  open,      \* ids in socket_pool
  connected, \* s.connected
  reader,    \* s.co, the coroutine the next event wakes
  closing,   \* s.closing, the coroutine that waits for the reader
  needed,    \* s.read_required: a read waits for data
  buffer,    \* s.buffer
  (* ws_pool of websocket.lua, and the tables of gateway.lua. *)
  ws,        \* ids in ws_pool
  conns,     \* client_conns
  pinged,    \* last_ping_timestamp
  exiting,   \* _in_exiting
  (* The coroutines. *)
  run,       \* the coroutine that runs
  woken,     \* wakeup_queue
  pc,        \* where each coroutine is
  shutting,  \* the connection exitfunc closes
  outcome,   \* how resolve_accept ended, and whether ws was closed then
  seen,      \* connections exitfunc has visited
  alive,     \* the service has not exited
  refused,   \* history: connections for which socket.start returned nil
  failed,    \* history: coroutines in which an assert of socket.lua failed
  closes     \* history: calls of handle.close

serverVars == <<link, request, report, sent>>
poolVars == <<open, connected, reader, closing, needed, buffer>>
tableVars == <<ws, conns, pinged, exiting>>
exitVars == <<shutting, seen, alive>>
coVars == <<run, woken, pc, outcome, exitVars>>
historyVars == <<refused, failed, closes>>
vars == <<serverVars, mail, poolVars, tableVars, coVars, historyVars>>

Coroutine == Conn \cup {Exit}
Link == {"none", "accepted", "up", "error", "half", "gone"}
Report == {"none", "open", "failed", "late", "close"}
Frame == {"control", "close", "ping", "binary"}
Piece == {"handshake", "garbage", "head"} \cup Frame
Note == [t : {"seen", "forget"}, f : Conn] \cup {[t |-> "quit"]}
Step == {"none", "start", "loop", "read", "got", "leave", "shut", "post",
         "next", "over"}
Outcome == [how : {"ok", "socket error", "error"}, closed : BOOLEAN]

(* A client opens with a handshake, or with something else; then a head    *)
(* and a payload for each frame.                                           *)
Pieces(n) == CASE n = 0 -> {"handshake", "garbage"}
               [] n % 2 = 1 -> {"head"}
               [] OTHER -> Frame

(* What one message may bring after n pieces.                              *)
Input(n) ==
  UNION {{data \in [1..k -> Piece] :
            \A i \in 1..k : data[i] \in Pieces(n + i - 1)} :
         k \in 1..(2 * MaxFrame + 1 - n)}

ServerType ==
  /\ link \in [Conn -> Link]
  /\ request \in [Conn -> SUBSET {"start", "close"}]
  /\ report \in [Conn -> Report]
  /\ sent \in [Conn -> 0 .. 2 * MaxFrame + 1]

PoolType ==
  /\ open \subseteq Conn /\ connected \subseteq open /\ needed \subseteq open
  /\ reader \in [Conn -> Coroutine \cup {NoOne}]
  /\ closing \in [Conn -> Coroutine \cup {NoOne}]
  /\ \A f \in Conn \ open : buffer[f] = <<>> /\ reader[f] = NoOne

TableType ==
  /\ ws \subseteq Conn /\ conns \subseteq Conn /\ pinged \subseteq Conn
  /\ exiting \in BOOLEAN

CoType ==
  /\ run \in Coroutine \cup {NoOne}
  /\ pc \in [Coroutine -> Step]
  /\ shutting \in Conn \cup {NoOne}
  /\ outcome \in [Conn -> Outcome]
  /\ seen \subseteq Conn /\ alive \in BOOLEAN

TypeOK ==
  /\ ServerType /\ PoolType /\ TableType /\ CoType
  /\ mail \in Seq(Note)
  /\ buffer \in [Conn -> Seq(Piece)]
  /\ woken \in Seq(Coroutine)
  /\ refused \subseteq Conn /\ failed \subseteq Coroutine
  /\ closes \in [Conn -> Nat]

Fine == [how |-> "ok", closed |-> FALSE]

Init ==
  /\ link = [f \in Conn |-> "none"]
  /\ request = [f \in Conn |-> {}]
  /\ report = [f \in Conn |-> "none"]
  /\ sent = [f \in Conn |-> 0]
  /\ mail = <<>>
  /\ open = {} /\ connected = {} /\ needed = {}
  /\ reader = [f \in Conn |-> NoOne]
  /\ closing = [f \in Conn |-> NoOne]
  /\ buffer = [f \in Conn |-> <<>>]
  /\ ws = {} /\ conns = {} /\ pinged = {} /\ exiting = FALSE
  /\ run = NoOne /\ woken = <<>>
  /\ pc = [c \in Coroutine |-> "none"]
  /\ outcome = [f \in Conn |-> Fine]
  /\ shutting = NoOne /\ seen = {} /\ alive = TRUE
  /\ refused = {} /\ failed = {}
  /\ closes = [f \in Conn |-> 0]

Put(m) == mail' = Append(mail, m)
About(t, f) == [t |-> t, f |-> f]
Ask(f, what) == request' = [request EXCEPT ![f] = @ \cup {what}]

-----------------------------------------------------------------------------
(* The socket thread takes the commands for a socket in order; a second    *)
(* close finds the socket closed and is ignored.  resume_socket: a socket  *)
(* that is gone, or cannot be read, is answered by an error.               *)
ServeStart(f) ==
  /\ "start" \in request[f]
  /\ request' = [request EXCEPT ![f] = @ \ {"start"}]
  /\ \/ /\ link[f] = "accepted"
        /\ link' = [link EXCEPT ![f] = "up"]
        /\ report' = [report EXCEPT ![f] = "open"]
     \/ /\ report' = [report EXCEPT ![f] = "failed"]
        /\ UNCHANGED link
  /\ UNCHANGED <<sent, mail, poolVars, tableVars, coVars, historyVars>>

(* close_socket: the end is reported unless it was before; what was read   *)
(* earlier may still be on its way to the service ("late").  What it does  *)
(* is seen after the answer to start.                                      *)
ServeClose(f) ==
  /\ request[f] = {"close"} /\ report[f] \notin {"open", "failed"}
  /\ request' = [request EXCEPT ![f] = {}]
  /\ link' = [link EXCEPT ![f] = "gone"]
  /\ report' = [report EXCEPT
                  ![f] = CASE link[f] = "up" -> "late"
                           [] link[f] \in {"accepted", "error"} -> "close"
                           [] OTHER -> @]
  /\ UNCHANGED <<sent, mail, poolVars, tableVars, coVars, historyVars>>

-----------------------------------------------------------------------------
(* Messages.  A message is dispatched when no coroutine can run.  When an  *)
(* event of a client was read and queued is left out: it is dispatched at  *)
(* any later time, in the order of its socket.                             *)

Idle == alive /\ run = NoOne /\ woken = <<>>

(* wakeup(s) of socket.lua.                                                *)
WakeReader(f) ==
  /\ woken' = IF reader[f] = NoOne THEN woken ELSE Append(woken, reader[f])
  /\ reader' = [reader EXCEPT ![f] = NoOne]

(* The callback of the listener: websocket.accept, up to the wait in       *)
(* socket.start.                                                           *)
AcceptMessage(f) ==
  /\ Idle /\ link[f] = "none"
  /\ link' = [link EXCEPT ![f] = "accepted"]
  /\ Ask(f, "start")
  /\ open' = open \cup {f}
  /\ reader' = [reader EXCEPT ![f] = f]
  /\ pc' = [pc EXCEPT ![f] = "start"]
  /\ UNCHANGED <<report, sent, mail, connected, closing, needed, buffer,
                 tableVars, run, woken, outcome, exitVars, historyVars>>

OpenMessage(f) ==
  /\ Idle /\ report[f] = "open"
  /\ report' = [report EXCEPT ![f] = "none"]
  /\ IF f \in open
     THEN connected' = connected \cup {f} /\ WakeReader(f)
     ELSE UNCHANGED <<connected, woken, reader>>
  /\ UNCHANGED <<link, request, sent, mail, open, closing, needed, buffer,
                 tableVars, run, pc, outcome, exitVars, historyVars>>

(* The socket thread reads from the socket, or has read before it closed.  *)
Readable(f) ==
  \/ link[f] = "up" /\ report[f] = "none"
  \/ report[f] = "late"

(* Mutant of Pushed: the socket need not be in the pool.                   *)
PushedAlways(f, data) == [buffer EXCEPT ![f] = @ \o data]

(* driver.push, for a socket in the pool; else the data is dropped.        *)
Pushed(f, data) == IF f \in open THEN [buffer EXCEPT ![f] = @ \o data]
                                 ELSE buffer

(* Mutant of DataMessage: s.read_required is not reset.                    *)
DataMessageKeeps(f) ==
  /\ Idle /\ Readable(f)
  /\ \E data \in Input(sent[f]) :
       /\ sent' = IF f \in open THEN [sent EXCEPT ![f] = @ + Len(data)]
                                ELSE sent
       /\ buffer' = Pushed(f, data)
  /\ IF f \in needed THEN WakeReader(f) ELSE UNCHANGED <<woken, reader>>
  /\ UNCHANGED <<link, request, report, mail, open, connected, closing,
                 needed, tableVars, run, pc, outcome, exitVars, historyVars>>

(* Data wakes a coroutine that waits to read; one that waits in            *)
(* socket.close sleeps on.                                                 *)
DataMessage(f) ==
  /\ Idle /\ Readable(f)
  /\ \E data \in Input(sent[f]) :
       /\ sent' = IF f \in open THEN [sent EXCEPT ![f] = @ + Len(data)]
                                ELSE sent
       /\ buffer' = Pushed(f, data)
  /\ needed' = needed \ {f}
  /\ IF f \in needed THEN WakeReader(f) ELSE UNCHANGED <<woken, reader>>
  /\ UNCHANGED <<link, request, report, mail, open, connected, closing,
                 tableVars, run, pc, outcome, exitVars, historyVars>>

(* A CLOSE for an id that is not in the pool is answered by driver.close.  *)
CloseMessage(f) ==
  /\ Idle
  /\ IF f \in open
     THEN /\ connected' = connected \ {f}
          /\ WakeReader(f)
          /\ UNCHANGED request
     ELSE /\ Ask(f, "close")
          /\ UNCHANGED <<connected, woken, reader>>
  /\ UNCHANGED <<sent, mail, open, closing, needed, buffer, tableVars, run, pc,
                 outcome, exitVars, historyVars>>

(* The end of the input (close_read).  A socket that was not started is    *)
(* not read: epoll tells of its end, and it is closed by force.            *)
HangUp(f) ==
  /\ report[f] = "none" /\ link[f] \in {"accepted", "up", "error"}
  /\ link' = [link EXCEPT ![f] = IF @ = "accepted" THEN "gone" ELSE "half"]
  /\ CloseMessage(f)
  /\ UNCHANGED report

(* So it closes one whose input has ended, without another CLOSE.          *)
Lost(f) ==
  /\ link[f] = "half"
  /\ link' = [link EXCEPT ![f] = "gone"]
  /\ UNCHANGED <<request, report, sent, mail, poolVars, tableVars, coVars,
                 historyVars>>

(* The end that close_socket reported.                                     *)
ToldClosed(f) ==
  /\ report[f] \in {"late", "close"}
  /\ report' = [report EXCEPT ![f] = "none"]
  /\ CloseMessage(f)
  /\ UNCHANGED link

(* An ERROR is always answered by driver.shutdown.                         *)
ErrorMessage(f) ==
  /\ Idle
  /\ Ask(f, "close")
  /\ connected' = connected \ {f}
  /\ IF f \in open THEN WakeReader(f) ELSE UNCHANGED <<woken, reader>>
  /\ UNCHANGED <<sent, mail, open, closing, needed, buffer, tableVars, run, pc,
                 outcome, exitVars, historyVars>>

(* report_error: the socket stays as it is until the service closes it; it *)
(* may be accepted and not yet started, or have failed before it closed.   *)
Fails(f) ==
  /\ \/ /\ report[f] = "none"
        /\ link[f] \in {"accepted", "up", "error", "half"}
        /\ link' = [link EXCEPT ![f] = IF @ = "up" THEN "error" ELSE @]
        /\ UNCHANGED report
     \/ /\ report[f] = "late"
        /\ report' = [report EXCEPT ![f] = "close"]
        /\ UNCHANGED link
  /\ ErrorMessage(f)

(* The error that resume_socket reported.                                  *)
ToldFailed(f) ==
  /\ report[f] = "failed"
  /\ report' = [report EXCEPT ![f] = "none"]
  /\ ErrorMessage(f)
  /\ UNCHANGED link

Take(t) ==
  /\ Idle /\ mail # <<>> /\ Head(mail).t = t
  /\ mail' = Tail(mail)

(* set_ping_timestamp, with a time or with nil.                            *)
StampMessage ==
  /\ \/ Take("seen") /\ pinged' = pinged \cup {Head(mail).f}
     \/ Take("forget") /\ pinged' = pinged \ {Head(mail).f}
  /\ UNCHANGED <<serverVars, poolVars, ws, conns, exiting, coVars,
                 historyVars>>

(* check_ping_timestamp, every two seconds.  websocket.close returns at    *)
(* once for an id that is not in ws_pool, and no other is found too old:   *)
(* see StampedIsClosed and its proof.                                      *)
CheckMessage ==
  /\ Idle
  /\ \E old \in SUBSET (pinged \ ws) \ {{}} : pinged' = pinged \ old
  /\ UNCHANGED <<serverVars, mail, poolVars, ws, conns, exiting, coVars,
                 historyVars>>

(* srv_exit, sent by admin.                                                *)
ExitMessage ==
  /\ Idle /\ pc[Exit] = "none"
  /\ exiting' = TRUE
  /\ run' = Exit
  /\ pc' = [pc EXCEPT ![Exit] = "next"]
  /\ UNCHANGED <<serverVars, mail, poolVars, ws, conns, pinged, woken, outcome,
                 exitVars, historyVars>>

(* skynet_exit.                                                            *)
QuitMessage ==
  /\ Take("quit")
  /\ alive' = FALSE
  /\ UNCHANGED <<serverVars, poolVars, tableVars, run, woken, pc, outcome,
                 shutting, seen, historyVars>>

-----------------------------------------------------------------------------
(* The coroutines.  Go(c, step): coroutine c has the service; it gives it  *)
(* up in skynet.wait (run' = NoOne, and pc stays) or at its end.           *)

Go(c, step) == run = c /\ pc[c] = step
GoTo(c, step) == pc' = [pc EXCEPT ![c] = step]

(* The next coroutine of wakeup_queue.                                     *)
Resume(c, step) ==
  /\ alive /\ run = NoOne /\ woken # <<>>
  /\ Head(woken) = c /\ pc[c] = step
  /\ run' = c

(* Mutant of WakeCloser: the tail of suspend() is missing.                 *)
WakeNobody(f) == woken' = Tail(woken)

(* The tail of suspend(): a coroutine that waits in socket.close for this  *)
(* one is woken.                                                           *)
WakeCloser(f) ==
  woken' = IF closing[f] = NoOne THEN Tail(woken)
                                 ELSE Append(Tail(woken), closing[f])

(* socket_pool[id] = nil.                                                  *)
Forget(f) ==
  /\ open' = open \ {f} /\ connected' = connected \ {f}
  /\ needed' = needed \ {f}
  /\ reader' = [reader EXCEPT ![f] = NoOne]
  /\ closing' = [closing EXCEPT ![f] = NoOne]
  /\ buffer' = [buffer EXCEPT ![f] = <<>>]

(* resolve_accept returns or raises.                                       *)
Ends(f, how) ==
  /\ outcome' = [outcome EXCEPT ![f].how = how]
  /\ GoTo(f, "leave")

(* handle.close, for a client that has not logged in.                      *)
HandleClose(f) ==
  /\ conns' = conns \ {f}
  /\ closes' = [closes EXCEPT ![f] = @ + 1]

CanWrite(f) == link[f] # "gone"

(* Mutant of Started: the connection is entered in the table even while    *)
(* exitfunc closes what it finds there.                                    *)
StartedAnyway(f) ==
  /\ Resume(f, "start")
  /\ WakeCloser(f)
  /\ IF f \in connected
     THEN UNCHANGED <<poolVars, refused>>
     ELSE Forget(f) /\ refused' = refused \cup {f}
  /\ ws' = ws \cup {f}
  /\ conns' = conns \cup {f}
  /\ GoTo(f, "read")
  /\ UNCHANGED <<serverVars, mail, pinged, exiting, outcome, exitVars, failed,
                 closes>>

(* socket.start returns, _new_server_ws, handle.connect.  That it returned *)
(* nil, having taken the socket out of the pool, is not looked at.         *)
Started(f) ==
  /\ Resume(f, "start")
  /\ WakeCloser(f)
  /\ IF f \in connected
     THEN UNCHANGED <<poolVars, refused>>
     ELSE Forget(f) /\ refused' = refused \cup {f}
  /\ ws' = ws \cup {f}
  /\ conns' = IF exiting THEN conns ELSE conns \cup {f}
  /\ GoTo(f, "read")
  /\ UNCHANGED <<serverVars, mail, pinged, exiting, outcome, exitVars, failed,
                 closes>>

(* The head of the loop in resolve_accept.                                 *)
Loop(f) ==
  /\ Go(f, "loop")
  /\ IF f \in ws
     THEN GoTo(f, "read") /\ UNCHANGED <<mail, conns, outcome, closes>>
     ELSE Ends(f, "ok") /\ HandleClose(f) /\ Put(About("forget", f))
  /\ UNCHANGED <<serverVars, poolVars, ws, pinged, exiting, run, woken,
                 exitVars, refused, failed>>

(* socket.read, for one piece.  A failed assert is an error of its own.    *)
ReadWait(f) ==
  /\ Go(f, "read")
  /\ f \in open \cap connected /\ buffer[f] = <<>>
  /\ f \notin needed /\ reader[f] = NoOne
  /\ needed' = needed \cup {f}
  /\ reader' = [reader EXCEPT ![f] = f]
  /\ run' = NoOne
  /\ UNCHANGED <<serverVars, mail, open, connected, closing, buffer, tableVars,
                 woken, pc, outcome, exitVars, historyVars>>

ReadNow(f) ==
  /\ Go(f, "read")
  /\ IF f \in open /\ buffer[f] # <<>>
     THEN GoTo(f, "got") /\ UNCHANGED <<outcome, failed>>
     ELSE /\ f \notin open \cap connected \/ f \in needed \/ reader[f] # NoOne
          /\ IF f \in open \ connected
             THEN Ends(f, "socket error") /\ UNCHANGED failed
             ELSE Ends(f, "error") /\ failed' = failed \cup {f}
  /\ UNCHANGED <<serverVars, mail, poolVars, tableVars, run, woken, exitVars,
                 refused, closes>>

ReadResumes(f) ==
  /\ Resume(f, "read")
  /\ WakeCloser(f)
  /\ IF buffer[f] # <<>>
     THEN GoTo(f, "got") /\ UNCHANGED outcome
     ELSE Ends(f, "socket error")
  /\ UNCHANGED <<serverVars, mail, poolVars, tableVars, exitVars, historyVars>>

(* What is read is taken from the buffer.                                  *)
Got(f, pieces) ==
  /\ Go(f, "got") /\ Head(buffer[f]) \in pieces
  /\ buffer' = [buffer EXCEPT ![f] = Tail(@)]
  /\ UNCHANGED <<serverVars, open, connected, reader, closing, needed, ws,
                 pinged, exiting, run, woken, exitVars, refused, failed>>

(* The answer to a good handshake and the pong to a control frame.         *)
GotAnswered(f) ==
  /\ Got(f, {"handshake", "control"})
  /\ IF CanWrite(f) THEN GoTo(f, "loop") /\ UNCHANGED outcome
                    ELSE Ends(f, "socket error")
  /\ UNCHANGED <<mail, conns, closes>>

GotHead(f) ==
  /\ Got(f, {"head"})
  /\ GoTo(f, "read")
  /\ UNCHANGED <<mail, conns, outcome, closes>>

(* Mutant of GotLast: the loop goes on after a close frame.                *)
GotLastLoops(f) ==
  /\ Got(f, {"garbage", "close"})
  /\ IF CanWrite(f)
     THEN /\ GoTo(f, "loop") /\ UNCHANGED outcome
          /\ HandleClose(f) /\ Put(About("forget", f))
     ELSE Ends(f, "socket error") /\ UNCHANGED <<mail, conns, closes>>

(* A handshake that is refused and a close frame end the connection; both  *)
(* are answered before handle.close is called.                             *)
GotLast(f) ==
  /\ Got(f, {"garbage", "close"})
  /\ IF CanWrite(f)
     THEN Ends(f, "ok") /\ HandleClose(f) /\ Put(About("forget", f))
     ELSE Ends(f, "socket error") /\ UNCHANGED <<mail, conns, closes>>

(* The text "ping" is noted, and then websocket.write(fd, "pong", "pong")  *)
(* fails its assert on the format.                                         *)
GotPing(f) ==
  /\ Got(f, {"ping"})
  /\ Put(About("seen", f))
  /\ Ends(f, "error")
  /\ UNCHANGED <<conns, closes>>

(* dispatch: an unknown connection is logged, one that has not logged in   *)
(* fails in choice_srv_login.                                              *)
GotBinary(f) ==
  /\ Got(f, {"binary"})
  /\ IF f \in conns THEN Ends(f, "error")
                    ELSE GoTo(f, "loop") /\ UNCHANGED outcome
  /\ UNCHANGED <<mail, conns, closes>>

(* Mutant of Leave: ws_pool is cleared only when socket.close is not       *)
(* called.                                                                 *)
LeaveLate(f) ==
  /\ Go(f, "leave")
  /\ outcome' = [outcome EXCEPT ![f].closed = f \notin ws]
  /\ GoTo(f, IF f \in ws THEN "shut" ELSE "post")
  /\ UNCHANGED <<serverVars, mail, poolVars, tableVars, run, woken, exitVars,
                 historyVars>>

(* websocket.accept after resolve_accept: _close_websocket unless somebody *)
(* else has called it.                                                     *)
Leave(f) ==
  /\ Go(f, "leave")
  /\ outcome' = [outcome EXCEPT ![f].closed = f \notin ws]
  /\ ws' = ws \ {f}
  /\ GoTo(f, IF f \in ws THEN "shut" ELSE "post")
  /\ UNCHANGED <<serverVars, mail, poolVars, conns, pinged, exiting, run,
                 woken, exitVars, historyVars>>

(* The rest of websocket.accept and of the listener's callback: a socket   *)
(* error calls handle.close only if the web socket was closed by the       *)
(* gateway, an error calls nothing.                                        *)
Finish(f) ==
  /\ Go(f, "post")
  /\ GoTo(f, "over") /\ run' = NoOne
  /\ outcome' = [outcome EXCEPT ![f] = Fine]
  /\ CASE outcome[f] = [how |-> "socket error", closed |-> TRUE] ->
            /\ HandleClose(f)
            /\ mail' = mail \o <<About("forget", f), About("seen", f)>>
       [] outcome[f].how = "error" -> UNCHANGED <<mail, conns, closes>>
       [] OTHER -> Put(About("seen", f)) /\ UNCHANGED <<conns, closes>>
  /\ UNCHANGED <<serverVars, poolVars, ws, pinged, exiting, woken, exitVars,
                 refused, failed>>

-----------------------------------------------------------------------------
(* socket.close in coroutine c.                                            *)

Target(c) == IF c = Exit THEN shutting ELSE c

ShutNow(c) ==
  LET f == Target(c) IN
  /\ Go(c, "shut") /\ f \notin open \cap connected
  /\ IF f \in open THEN Ask(f, "close") ELSE UNCHANGED request
  /\ Forget(f)
  /\ GoTo(c, "post")
  /\ UNCHANGED <<link, report, sent, mail, tableVars, run, woken, outcome,
                 exitVars, historyVars>>

(* It waits until the coroutine that reads has been woken, or in the place *)
(* of a reader.                                                            *)
ShutWait(c) ==
  LET f == Target(c) IN
  /\ Go(c, "shut") /\ f \in open \cap connected
  /\ Ask(f, "close")
  /\ IF reader[f] # NoOne
     THEN /\ closing' = [closing EXCEPT ![f] = c]
          /\ failed' = IF closing[f] = NoOne THEN failed ELSE failed \cup {c}
          /\ UNCHANGED reader
     ELSE /\ reader' = [reader EXCEPT ![f] = c]
          /\ UNCHANGED <<closing, failed>>
  /\ run' = NoOne
  /\ UNCHANGED <<link, report, sent, mail, open, connected, needed, buffer,
                 tableVars, woken, pc, outcome, exitVars, refused, closes>>

ShutResumes(c) ==
  LET f == Target(c) IN
  /\ Resume(c, "shut")
  /\ IF closing[f] = c THEN woken' = Tail(woken) ELSE WakeCloser(f)
  /\ Forget(f)
  /\ GoTo(c, "post")
  /\ UNCHANGED <<serverVars, mail, tableVars, outcome, exitVars, historyVars>>

-----------------------------------------------------------------------------
(* exitfunc: websocket.close for every connection of client_conns, in the  *)
(* order of pairs(); then srv_exit asks its own service to exit.           *)

ExitNext(f) ==
  /\ Go(Exit, "next") /\ f \in conns \ seen
  /\ seen' = seen \cup {f}
  /\ ws' = ws \ {f}
  /\ IF f \in ws THEN GoTo(Exit, "shut") /\ shutting' = f
                 ELSE UNCHANGED <<pc, shutting>>
  /\ UNCHANGED <<serverVars, mail, poolVars, conns, pinged, exiting, run,
                 woken, outcome, alive, historyVars>>

ExitClosed ==
  /\ Go(Exit, "post")
  /\ GoTo(Exit, "next")
  /\ shutting' = NoOne
  /\ UNCHANGED <<serverVars, mail, poolVars, tableVars, run, woken, outcome,
                 seen, alive, historyVars>>

ExitDone ==
  /\ Go(Exit, "next") /\ conns \subseteq seen
  /\ GoTo(Exit, "over") /\ run' = NoOne
  /\ Put([t |-> "quit"])
  /\ UNCHANGED <<serverVars, poolVars, tableVars, woken, outcome, exitVars,
                 historyVars>>

-----------------------------------------------------------------------------
Serve(f) == ServeStart(f) \/ ServeClose(f)

(* What clients, the network, the heartbeat's clock and admin do.          *)
Outside ==
  \/ \E f \in Conn : \/ AcceptMessage(f) \/ DataMessage(f)
                     \/ HangUp(f) \/ Lost(f) \/ Fails(f)
  \/ CheckMessage \/ ExitMessage

Accept(f) ==
  \/ Started(f) \/ Loop(f) \/ ReadWait(f) \/ ReadNow(f) \/ ReadResumes(f)
  \/ GotAnswered(f) \/ GotHead(f) \/ GotLast(f) \/ GotPing(f) \/ GotBinary(f)
  \/ Leave(f) \/ Finish(f)

Shut(c) == ShutNow(c) \/ ShutWait(c) \/ ShutResumes(c)

Service ==
  \/ StampMessage \/ QuitMessage
  \/ ExitClosed \/ ExitDone
  \/ \E f \in Conn : \/ OpenMessage(f) \/ ToldClosed(f) \/ ToldFailed(f)
                     \/ Accept(f) \/ ExitNext(f)
  \/ \E c \in Coroutine : Shut(c)

(* The service has exited.                                                 *)
Exited == ~alive /\ UNCHANGED vars

Next == Service \/ (\E f \in Conn : Serve(f)) \/ Outside \/ Exited

Spec == Init /\ [][Next]_vars

(* Workers run the service, and the socket thread serves its pipe; clients *)
(* promise nothing.                                                        *)
FairSpec ==
  Spec /\ WF_vars(Service) /\ \A f \in Conn : WF_vars(Serve(f))

(* And the heartbeat keeps checking.                                       *)
BeatSpec == FairSpec /\ WF_vars(CheckMessage)

-----------------------------------------------------------------------------
(* Properties.                                                             *)

(* The asserts with which socket.lua guards a socket (s, not s.co, not     *)
(* s.read_required, not s.closing) hold wherever two coroutines use one    *)
(* socket: no coroutine reads a socket that another has closed, or waits   *)
(* where another waits, though accept and exitfunc read and close the same *)
(* sockets.  What remains is assert(s) in a connection whose socket.start  *)
(* returned nil, which websocket.accept reads from all the same.           *)
SocketAsserts == failed \subseteq refused

(* handle.close is called at most once for a connection, whichever of the  *)
(* ends of websocket.accept it takes.                                      *)
ClosedOnce == \A f \in Conn : closes[f] <= 1

(* Once exitfunc is done, no connection of client_conns is open: none is   *)
(* entered behind its traversal, which waits at each connection.           *)
ExitClosesAll == pc[Exit] = "over" => conns \cap ws = {}

(* Until the gateway exits it knows every web socket that is open.         *)
OpenIsKnown == ~exiting /\ run = NoOne => ws \subseteq conns

(* What has a stamp in last_ping_timestamp has been closed: websocket.write *)
(* raises on the format of the answer to "ping".  CheckMessage relies on   *)
(* it; part of the inductive invariant, and proved.                        *)
StampedIsClosed == pinged \cap ws = {}

(* "2秒检查一次心跳，超过5秒断连" (gateway.lua:100): the heartbeat is checked  *)
(* every two seconds and who was silent for five is disconnected.  A       *)
(* client sends no more than MaxFrame frames, so each falls silent.        *)
SilentIsClosed == \A f \in Conn : f \in ws ~> f \notin ws \/ exiting

(* exitfunc, waiting in socket.close for the readers of its connections,   *)
(* ends (suspend() wakes s.closing).                                       *)
ExitReturns == pc[Exit] = "next" ~> pc[Exit] = "over"

(* Every coroutine that waits on a socket can be woken: the socket is in   *)
(* the pool and names it ("socket.close() will wait last socket buffer     *)
(* operation before clear the buffer", socket.lua:55-56).                  *)
WaitersAreKnown ==
  \A c \in Coroutine \ {run} :
    pc[c] \in {"start", "read", "shut"} =>
    \/ c \in {woken[i] : i \in DOMAIN woken}
    \/ \E f \in open : c \in {reader[f], closing[f]}

(* A connection whose coroutine has ended is out of client_conns           *)
(* (gateway.lua:162).                                                      *)
EndedIsForgotten == \A f \in Conn : pc[f] = "over" => f \notin conns
=============================================================================
