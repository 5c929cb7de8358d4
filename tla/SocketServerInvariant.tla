----------------------- MODULE SocketServerInvariant ------------------------
(***************************************************************************)
(* The inductive invariant of SocketServer.tla.  It holds until an assert  *)
(* fails; after that nothing happens any more.                             *)
(***************************************************************************)
EXTENDS SocketServer

IsOpen(r) == r.cmd \in {"open", "listen"}
IsSend(r) == r.cmd \in {"send", "send_low"}
Has(t, word) == \E i \in DOMAIN t : t[i] = word

(* A slot with a socket in it; a worker that has reserved a slot; a worker *)
(* on its way with a message.                                              *)
Live(sl) == sock[sl].type \notin {"INVALID", "RESERVE"}
Opens(c) ==
  call[c].step = "fill" \/ (call[c].step = "post" /\ IsOpen(call[c]))
Carries(c) ==
  \/ call[c].step \in {"direct", "written", "ref"}
  \/ call[c].step = "post" /\ IsSend(call[c])

-----------------------------------------------------------------------------
(* Slots, workers and requests. *)

(* The services have heard of the ids whose request was written, and a     *)
(* slot has the last of those that hash to it.                             *)
IdInv ==
  /\ known \subseteq 1..alloc
  /\ \A id \in known : sock[SlotOf(id)].id >= id
  /\ \A id \in Id \ known : told[id] = <<>> /\ wire[id] = <<>>

(* A socket counts its sends under its own id; while a worker holds        *)
(* dw_lock to keep a rest nothing is kept yet; and only a socket that is   *)
(* half closed waits to be closed.                                         *)
SlotInv(sl) ==
  LET s == sock[sl] IN
  /\ s.id \in 0..alloc /\ (s.id # 0 => SlotOf(s.id) = sl)
  /\ s.tcp => s.tag = s.id /\ s.id # 0
  /\ IF Live(sl) THEN s.tcp /\ s.id \in known
     ELSE Empty(s) /\ s.dw = <<>> /\ s.lock = NoOne
  /\ s.lock # NoOne =>
       /\ s.dw = <<>> /\ call[s.lock].step = "written"
       /\ call[s.lock].id = s.id
  /\ Live(sl) /\ s.closing => s.type = "HALFCLOSE_READ"

(* One worker at a time has reserved a slot; what a worker sends is the    *)
(* last message it has begun to send.                                      *)
CallInv(c) ==
  LET k == call[c]
      s == sock[SlotOf(k.id)] IN
  /\ Opens(c) =>
       /\ IsOpen(k) /\ k.id \in (1..alloc) \ known /\ s.type = "RESERVE"
       /\ IF k.step = "fill" THEN s.id < k.id ELSE s.id = k.id /\ ~s.tcp
       /\ \A d \in Caller :
            Opens(d) /\ SlotOf(call[d].id) = SlotOf(k.id) => d = c
  /\ k.step = "fill" =>
       \A i \in DOMAIN pipe :
         IsOpen(pipe[i]) => SlotOf(pipe[i].id) # SlotOf(k.id)
  /\ k.step = "post" /\ ~IsOpen(k) =>
       k.id \in known /\ (IsSend(k) \/ k.cmd = "trigger")
  /\ Carries(c) =>
       /\ IsSend(k) /\ k.id \in known /\ Has(told[k.id], "open")
       /\ k.msg \in 1..Len(sends)
       /\ sends[k.msg] = [by |-> c, to |-> k.id, low |-> k.cmd = "send_low"]
       /\ \A m \in (k.msg + 1)..Len(sends) : sends[m].by # c
  /\ k.step = "written" => k.n < Units /\ s.id = k.id /\ s.lock = c

(* The request that opens a socket is the first that names it, and finds   *)
(* its slot reserved; those that send are in the order of each worker.     *)
PipeInv(i) ==
  LET r == pipe[i]
      s == sock[SlotOf(r.id)] IN
  /\ r.id \in known
  /\ IsOpen(r) =>
       /\ s.type = "RESERVE" /\ s.id = r.id /\ ~s.tcp
       /\ told[r.id] = <<>> /\ wire[r.id] = <<>>
       /\ \A j \in DOMAIN pipe : pipe[j].id = r.id /\ j # i =>
            j > i /\ ~IsOpen(pipe[j])
  /\ IsSend(r) =>
       /\ Has(told[r.id], "open") /\ r.msg \in 1..Len(sends)
       /\ sends[r.msg].to = r.id
       /\ sends[r.msg].low <=> r.cmd = "send_low"
       /\ \A j \in DOMAIN pipe :
            /\ j > i /\ IsSend(pipe[j])
            /\ sends[pipe[j].msg].by = sends[r.msg].by
            => r.msg < pipe[j].msg
       /\ \A c \in Caller : Carries(c) => call[c].msg # r.msg

StateInv ==
  /\ IdInv /\ (\A sl \in Slot : SlotInv(sl)) /\ (\A c \in Caller : CallInv(c))
  /\ \A i \in DOMAIN pipe : PipeInv(i)

(* s->sending counts the sends to the socket that are on their way.        *)
Posting(id) ==
  {c \in Caller : call[c].step = "post" /\ IsSend(call[c]) /\ call[c].id = id}
Posted(id) == {i \in DOMAIN pipe : IsSend(pipe[i]) /\ pipe[i].id = id}

CountInv ==
  \A sl \in Slot : sock[sl].tcp =>
    sock[sl].sending =
      Cardinality(Posted(sock[sl].id)) + Cardinality(Posting(sock[sl].id))

-----------------------------------------------------------------------------
(* What the owner is told. *)

Ended(t) == Has(t, "close") \/ (Has(t, "err") /\ ~Has(t, "open"))
CloseLast(t) ==
  \A i, j \in DOMAIN t : i < j /\ t[i] = "close" => t[j] = "err"
Opening(id) == \E i \in DOMAIN pipe : IsOpen(pipe[i]) /\ pipe[i].id = id

(* A close was raised for a socket half closed and for no other; who owned *)
(* a socket that is gone was told.                                         *)
ToldInv ==
  /\ \A id \in known :
       LET s == sock[SlotOf(id)] IN
       /\ CloseLast(told[id])
       /\ \/ s.id # id \/ s.type = "INVALID"
          \/ s.type = "RESERVE" /\ ~Opening(id)
          => Ended(told[id])
  /\ \A sl \in Slot :
       LET s == sock[sl] IN
       Live(sl) =>
         /\ Has(told[s.id], "close") <=> s.type = "HALFCLOSE_READ"
         /\ s.type = "CONNECTING" => ~Has(told[s.id], "open")

(* A force_close that waits for dw_lock will tell what is still to tell.   *)
CloseInv ==
  ctl = "lock" =>
    LET s == sock[fc.slot] IN
    /\ Live(fc.slot) /\ Empty(s)
    /\ fc.tell <=> s.type # "HALFCLOSE_READ"
    /\ fc.word \in {"close", "err"}
    /\ fc.word = "err" => s.type = "CONNECTING"

-----------------------------------------------------------------------------
(* Data. *)

(* The rest of a direct write is in dw_buffer or still with its worker.    *)
Kept(sl) ==
  LET c == sock[sl].lock IN
  IF c = NoOne THEN sock[sl].dw
  ELSE SubSeq(Message(call[c].msg), call[c].n + 1, Units)
(* What the socket has sent and goes on with, and all it is to send.       *)
Stream(sl) == wire[sock[sl].id] \o Kept(sl) \o sock[sl].high
Outgoing(sl) == Stream(sl) \o sock[sl].low

(* Every unit is in its place in a message that is all there.              *)
Whole(w) ==
  \A i \in DOMAIN w : \A p \in 1..Units :
    LET k == i + p - w[i][2] IN k \in DOMAIN w /\ w[k] = <<w[i][1], p>>

(* A message of a worker is overtaken only if it is of low priority, by    *)
(* one that is not.                                                        *)
Ordered(w) ==
  \A i, j \in DOMAIN w :
    /\ i < j /\ w[i][1] > w[j][1]
    /\ sends[w[i][1]].by = sends[w[j][1]].by
    => sends[w[j][1]].low /\ ~sends[w[i][1]].low

(* The messages of w were sent to socket id; those of the same worker that *)
(* are still in the pipe come after them; none is still with its worker.   *)
SentTo(w, id) ==
  \A i \in DOMAIN w :
    w[i][1] \in 1..Len(sends) /\ sends[w[i][1]].to = id
Before(w, id) ==
  \A i \in DOMAIN w : \A j \in Posted(id) :
    sends[w[i][1]].by = sends[pipe[j].msg].by => w[i][1] < pipe[j].msg
LetGo(w) ==
  \A i \in DOMAIN w : \A c \in Caller :
    Carries(c) /\ call[c].step # "written" => call[c].msg # w[i][1]
Lower(w) == \A i \in DOMAIN w : sends[w[i][1]].low

StreamInv(sl) ==
  LET id == sock[sl].id
      out == Outgoing(sl) IN
  /\ SentTo(out, id) /\ Before(out, id) /\ LetGo(out) /\ Ordered(out)
  /\ Lower(sock[sl].low) /\ Whole(sock[sl].low)
  /\ id \notin cut => Whole(Stream(sl)) /\ IsInjective(out)

DataInv == \A sl \in Slot : Live(sl) => StreamInv(sl)

Core == StateInv /\ CountInv /\ ToldInv /\ CloseInv /\ DataInv

(* What is on the wire of a socket, one that is gone as well, was sent to  *)
(* it.                                                                     *)
WireSent == \A id \in Id : SentTo(wire[id], id)

IInv ==
  TypeOK /\ WireSent /\ WireWhole /\ SendOrder /\ (~failed => Core)
=============================================================================
