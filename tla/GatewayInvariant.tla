-------------------------- MODULE GatewayInvariant --------------------------
(***************************************************************************)
(* The inductive invariant of Gateway.tla.                                 *)
(***************************************************************************)
EXTENDS Gateway

(* One coroutine has the service, and at most one is woken: messages wait  *)
(* until none is, and a coroutine that reads wakes at most exitfunc.       *)
Woken(c) == woken = <<c>>

RunInv ==
  /\ woken = <<>> \/ \E c \in Coroutine : Woken(c)
  /\ run = Exit => pc[Exit] \in {"next", "shut", "post"} /\ woken = <<>>
  /\ run # Exit => pc[Exit] \in {"none", "shut", "over"}
  /\ \A f \in Conn :
       IF run = f
       THEN /\ pc[f] \in {"loop", "read", "got", "leave", "shut", "post"}
            /\ woken = <<>> \/ Woken(Exit)
       ELSE pc[f] \in {"none", "start", "read", "shut", "over"}

(* Only its own coroutine is the reader of a socket, while it waits; and   *)
(* one that waits to read an open web socket is known to its socket.       *)
WakeInv ==
  /\ Woken(Exit) => pc[Exit] = "shut"
  /\ \A f \in Conn :
       /\ Woken(f) =>
            /\ f \in open /\ reader[f] = NoOne
            /\ pc[f] \in {"start", "read", "shut"}
       /\ reader[f] # NoOne =>
            /\ reader[f] = f /\ f # run /\ f \in open
            /\ pc[f] # "start" =>
                 pc[f] \in {"read", "shut"} /\ f \in connected
       /\ pc[f] = "read" /\ f \in ws => f = run \/ Woken(f) \/ reader[f] = f

(* s.read_required is set while the coroutine waits, and stays set only if *)
(* the socket was closed under it; what still reads has its socket, unless *)
(* socket.start returned nil.                                              *)
ReadInv ==
  \A f \in Conn :
    /\ f \in needed =>
         /\ buffer[f] = <<>>
         /\ f \notin connected \/ (reader[f] = f /\ pc[f] = "read")
    /\ run = f /\ pc[f] \in {"loop", "read", "got"} =>
         \/ f \in open \ needed
         \/ f \in refused /\ pc[f] = "read"
    /\ pc[f] = "got" => buffer[f] # <<>>

(* A connection that has not started is in no table: its coroutine is      *)
(* woken, or its socket is refused or resumed in the pool.                 *)
Fresh(f) == f \notin ws \cup conns \cup pinged \cup seen \cup needed

Starting(f) == "start" \in request[f] \/ report[f] \in {"open", "failed"}

Asked(f) ==
  \/ /\ link[f] = "accepted" /\ request[f] = {"start"} /\ report[f] = "none"
  \/ /\ link[f] = "up" /\ request[f] = {} /\ report[f] = "open"
  \/ /\ link[f] = "accepted" /\ request[f] = {} /\ report[f] = "failed"

StartInv ==
  \A f \in Conn :
    /\ link[f] = "none" <=> pc[f] = "none"
    /\ "start" \in request[f] => report[f] = "none"
    /\ Starting(f) => f \notin open \/ pc[f] = "start"
    /\ f \in refused => f \notin open /\ pc[f] \notin {"none", "start"}
    /\ pc[f] = "none" =>
         request[f] = {} /\ report[f] = "none" /\ f \notin open /\ Fresh(f)
    /\ pc[f] = "start" =>
         /\ Fresh(f) /\ f \in open
         /\ \/ Woken(f) /\ (f \in connected => ~Starting(f))
            \/ reader[f] = f /\ f \notin connected /\ Asked(f)

(* exitfunc closes one connection at a time, which it has taken out of     *)
(* ws_pool and which has a coroutine that reads.                           *)
ShutInv ==
  /\ \A f \in Conn : closing[f] # NoOne =>
       closing[f] = Exit /\ shutting = f /\ pc[Exit] = "shut" /\ run # Exit
  /\ pc[Exit] = "shut" => shutting \in seen /\ pc[shutting] # "shut"
  /\ run = Exit /\ pc[Exit] = "shut" => reader[shutting] = shutting
  /\ exiting <=> pc[Exit] # "none"
  /\ seen \cap ws = {}

(* A stamp for the connection is on its way.                               *)
Stamping(f) == \E i \in DOMAIN mail : mail[i] = About("seen", f)

(* A web socket in ws_pool is read; it is in client_conns, or its          *)
(* coroutine is about to take it out; and no stamp of it is on its way.    *)
TableInv ==
  \A f \in Conn :
    /\ f \in ws => pc[f] \in {"loop", "read", "got", "leave"}
    /\ f \in ws \ conns /\ ~exiting => run = f /\ pc[f] = "leave"
    /\ Stamping(f) =>
         /\ pc[f] \notin {"none", "start"}
         /\ f \in ws => run = f /\ pc[f] = "leave"

(* handle.close was called, if at all, on the way out of resolve_accept.   *)
CloseInv ==
  \A f \in Conn :
    /\ pc[f] \in {"none", "start", "loop", "read", "got"} => closes[f] = 0
    /\ pc[f] \in {"leave", "shut", "post"} /\ outcome[f].how # "ok" =>
         closes[f] = 0

GInv ==
  /\ TypeOK /\ RunInv /\ WakeInv /\ ReadInv /\ StartInv /\ ShutInv /\ TableInv
  /\ CloseInv /\ SocketAsserts /\ ClosedOnce /\ ExitClosesAll
  /\ StampedIsClosed
=============================================================================
