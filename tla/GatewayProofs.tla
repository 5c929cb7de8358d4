--------------------------- MODULE GatewayProofs ---------------------------
(***************************************************************************)
(* The gateway keeps its promises for any number of connections and any    *)
(* input: GInv is an invariant of Gateway.tla and implies them.            *)
(***************************************************************************)
EXTENDS GatewayInvariant, TLAPS

(* wakeup(s), when nobody is woken. *)
WakesReader(f) ==
  /\ reader'[f] = NoOne
  /\ \A g \in Conn \ {f} : reader'[g] = reader[g]
  /\ IF reader[f] = NoOne THEN woken' = <<>> ELSE Woken(f)'

LEMMA WakeEffect ==
  ASSUME TypeOK, WakeInv, NEW f \in Conn, woken = <<>>,
         \/ WakeReader(f)
         \/ f \notin open /\ UNCHANGED <<woken, reader>>
  PROVE  WakesReader(f)
  <1>1. CASE WakeReader(f)
    <2>1. reader' = [reader EXCEPT ![f] = NoOne]
      BY <1>1 DEF WakeReader
    <2>2. woken' = IF reader[f] = NoOne THEN <<>> ELSE <<f>>
      BY <1>1 DEF WakeReader, WakeInv
    <2> QED
      BY <2>1, <2>2 DEF WakesReader, TypeOK, PoolType, Woken
  <1>2. CASE f \notin open /\ UNCHANGED <<woken, reader>>
    BY <1>2 DEF WakesReader, TypeOK, PoolType
  <1> QED
    BY <1>1, <1>2

(* The coroutine that goes on is the only one that was woken. *)
LEMMA ResumeEffect ==
  ASSUME RunInv, NEW c \in Coroutine, NEW s, Resume(c, s)
  PROVE  /\ run = NoOne /\ run' = c /\ pc[c] = s
         /\ Woken(c) /\ Tail(woken) = <<>>
  <1>1. PICK d \in Coroutine : woken = <<d>>
    BY DEF RunInv, Resume, Woken
  <1>2. Head(<<d>>) = d /\ Tail(<<d>>) = <<>>
    OBVIOUS
  <1> QED
    BY <1>1, <1>2 DEF Resume, Woken

(* The tail of suspend(): nobody else is woken, or exitfunc is.            *)
WakesExit(f) ==
  \/ woken' = <<>> /\ closing[f] = NoOne
  \/ /\ Woken(Exit)' /\ closing[f] = Exit
     /\ shutting = f /\ pc[Exit] = "shut"

LEMMA CloserEffect ==
  ASSUME ShutInv, NEW f \in Conn, Tail(woken) = <<>>, WakeCloser(f)
  PROVE  WakesExit(f)
  <1>1. Append(<<>>, closing[f]) = <<closing[f]>>
    OBVIOUS
  <1>2. CASE closing[f] = NoOne
    BY <1>2 DEF WakeCloser, WakesExit
  <1>3. CASE closing[f] # NoOne
    <2>1. woken' = <<closing[f]>>
      BY <1>1, <1>3 DEF WakeCloser
    <2> QED
      BY <1>3, <2>1 DEF ShutInv, Woken, WakesExit
  <1> QED
    BY <1>2, <1>3

LEMMA ForgetEffect ==
  ASSUME TypeOK, NEW f \in Conn, Forget(f)
  PROVE  /\ open' = open \ {f} /\ connected' = connected \ {f}
         /\ needed' = needed \ {f}
         /\ reader'[f] = NoOne /\ closing'[f] = NoOne /\ buffer'[f] = <<>>
         /\ \A g \in Conn \ {f} : /\ reader'[g] = reader[g]
                                  /\ closing'[g] = closing[g]
                                  /\ buffer'[g] = buffer[g]
  BY DEF Forget, TypeOK, PoolType

(* The end of a socket, or an error on it.                                 *)
Ended(f) == HangUp(f) \/ ToldClosed(f) \/ Fails(f) \/ ToldFailed(f)

SameServer(g) ==
  request'[g] = request[g] /\ link'[g] = link[g] /\ report'[g] = report[g]

EndOf(f) ==
  /\ run = NoOne /\ woken = <<>> /\ link[f] # "none" /\ link'[f] # "none"
  /\ connected' = connected \ {f} /\ WakesReader(f)
  /\ \A g \in Conn \ {f} : SameServer(g)
  /\ report'[f] \notin {"open", "failed"}
  /\ "start" \in request'[f] =>
       "start" \in request[f] /\ report'[f] = "none"
  /\ UNCHANGED <<open, closing, needed, buffer, tableVars, run, pc, outcome,
                 exitVars, mail, historyVars>>

LEMMA EndedEffect ==
  ASSUME TypeOK, RunInv, WakeInv, StartInv, NEW f \in Conn, Ended(f)
  PROVE  EndOf(f)
  <1>1. /\ run = NoOne /\ woken = <<>>
        /\ \/ /\ link[f] \in {"accepted", "up", "error", "half"}
              /\ report[f] = "none"
           \/ report[f] \in {"late", "close", "failed"}
    BY DEF Ended, HangUp, ToldClosed, Fails, ToldFailed, ErrorMessage,
           CloseMessage, Idle
  <1>2. link[f] # "none"
    BY <1>1 DEF StartInv
  <1>3. "start" \in request[f] => report[f] = "none"
    BY DEF StartInv
  <1>4. connected' = connected \ {f} /\ WakesReader(f)
    <2>1. CASE ErrorMessage(f)
      BY <1>1, <2>1, WakeEffect DEF ErrorMessage
    <2>2. CASE CloseMessage(f)
      BY <1>1, <2>2, WakeEffect DEF CloseMessage, TypeOK, PoolType
    <2> QED
      BY <2>1, <2>2 DEF Ended, HangUp, ToldClosed, Fails, ToldFailed
  <1>5. UNCHANGED <<open, closing, needed, buffer, tableVars, run, pc, outcome,
                    exitVars, mail, historyVars>>
    BY DEF Ended, HangUp, ToldClosed, Fails, ToldFailed, ErrorMessage,
           CloseMessage
  <1>6. /\ \A g \in Conn \ {f} : request'[g] = request[g]
        /\ "start" \in request'[f] => "start" \in request[f]
    BY DEF Ended, HangUp, ToldClosed, Fails, ToldFailed, ErrorMessage,
           CloseMessage, Ask, TypeOK, ServerType
  <1>7. /\ \A g \in Conn \ {f} : link'[g] = link[g] /\ report'[g] = report[g]
        /\ link'[f] # "none" /\ report'[f] \notin {"open", "failed"}
        /\ report[f] = "none" => report'[f] = "none"
    <2>1. CASE HangUp(f)
      BY <1>2, <2>1 DEF HangUp, TypeOK, ServerType
    <2>2. CASE ToldClosed(f)
      BY <1>2, <2>2 DEF ToldClosed, TypeOK, ServerType
    <2>3. CASE Fails(f)
      BY <1>2, <2>3 DEF Fails, TypeOK, ServerType
    <2>4. CASE ToldFailed(f)
      BY <1>2, <2>4 DEF ToldFailed, TypeOK, ServerType
    <2> QED
      BY <2>1, <2>2, <2>3, <2>4 DEF Ended
  <1> QED
    BY <1>1, <1>2, <1>3, <1>4, <1>5, <1>6, <1>7 DEF EndOf, SameServer

(* Data for a coroutine that reads.                                        *)
DataOf(f) ==
  /\ run = NoOne /\ woken = <<>> /\ pc[f] \notin {"none", "start"}
  /\ needed' = needed \ {f}
  /\ \A g \in Conn \ {f} : buffer'[g] = buffer[g]
  /\ IF f \in needed THEN WakesReader(f) ELSE UNCHANGED <<woken, reader>>
  /\ UNCHANGED <<link, request, report, mail, open, connected, closing,
                 tableVars, run, pc, outcome, exitVars, historyVars>>

LEMMA DataEffect ==
  ASSUME TypeOK, RunInv, WakeInv, StartInv, NEW f \in Conn, DataMessage(f)
  PROVE  DataOf(f)
  <1>1. /\ run = NoOne /\ woken = <<>>
        /\ \/ link[f] = "up" /\ report[f] = "none"
           \/ report[f] = "late"
    BY DEF DataMessage, Idle, Readable
  <1>2. pc[f] \notin {"none", "start"}
    BY <1>1 DEF StartInv, Asked, Woken
  <1>3. \A g \in Conn \ {f} : buffer'[g] = buffer[g]
    BY DEF DataMessage, Pushed, TypeOK
  <1>4. IF f \in needed THEN WakesReader(f) ELSE UNCHANGED <<woken, reader>>
    BY <1>1, WakeEffect DEF DataMessage
  <1> QED
    BY <1>1, <1>2, <1>3, <1>4 DEF DataMessage, DataOf

(* A step of a coroutine that has the service and keeps it.                *)
Runs(f) ==
  \/ Loop(f) \/ ReadNow(f) \/ Leave(f)
  \/ GotAnswered(f) \/ GotHead(f) \/ GotLast(f) \/ GotPing(f) \/ GotBinary(f)

RunOf(f) ==
  /\ run = f
  /\ \A c \in Coroutine \ {f} : pc'[c] = pc[c]
  /\ \/ pc[f] \in {"loop", "got"} /\ pc'[f] \in {"loop", "read"}
     \/ pc[f] = "read" /\ pc'[f] = "got" /\ buffer[f] # <<>>
     \/ pc[f] \in {"loop", "read", "got"} /\ pc'[f] = "leave"
     \/ pc[f] = "leave" /\ pc'[f] \in {"shut", "post"}
  /\ buffer' = buffer \/ pc[f] = "got"
  /\ \A g \in Conn \ {f} : buffer'[g] = buffer[g]
  /\ ws' = IF pc[f] = "leave" THEN ws \ {f} ELSE ws
  /\ pc'[f] = "shut" => f \in ws
  /\ conns' = conns \/ (conns' = conns \ {f} /\ pc'[f] = "leave")
  /\ \/ mail' = mail
     \/ mail' = Append(mail, About("forget", f))
     \/ mail' = Append(mail, About("seen", f)) /\ pc'[f] = "leave"
  /\ \A g \in Conn \ {f} :
       closes'[g] = closes[g] /\ outcome'[g] = outcome[g]
  /\ \/ pc'[f] # "leave" /\ closes'[f] = closes[f]
        /\ outcome'[f].how = outcome[f].how
     \/ pc'[f] = "leave" /\ closes'[f] = closes[f]
     \/ /\ pc'[f] = "leave" /\ closes'[f] = closes[f] + 1
        /\ outcome'[f].how = "ok"
  /\ failed' = failed \/ (failed' = failed \cup {f} /\ f \in refused)
  /\ UNCHANGED <<serverVars, open, connected, reader, closing, needed, pinged,
                 exiting, run, woken, exitVars, refused>>

LEMMA EndsEffect ==
  ASSUME TypeOK, NEW f \in Conn, NEW how, Ends(f, how)
  PROVE  /\ outcome'[f].how = how /\ pc'[f] = "leave"
         /\ \A g \in Conn \ {f} : outcome'[g] = outcome[g]
         /\ \A c \in Coroutine \ {f} : pc'[c] = pc[c]
  <1>1. outcome[f] \in Outcome
    BY DEF TypeOK, CoType
  <1>2. outcome' = [outcome EXCEPT ![f].how = how]
    BY DEF Ends
  <1>3. outcome'[f] = [outcome[f] EXCEPT !.how = how]
    BY <1>2 DEF TypeOK, CoType
  <1>4. outcome'[f].how = how
    BY <1>1, <1>3 DEF Outcome
  <1> QED
    BY <1>2, <1>4 DEF Ends, GoTo, TypeOK, CoType, Coroutine

LEMMA GoToEffect ==
  ASSUME TypeOK, NEW c \in Coroutine, NEW s, GoTo(c, s)
  PROVE  pc'[c] = s /\ \A d \in Coroutine \ {c} : pc'[d] = pc[d]
  BY DEF GoTo, TypeOK, CoType

LEMMA HandleCloseEffect ==
  ASSUME TypeOK, NEW f \in Conn, HandleClose(f)
  PROVE  /\ conns' = conns \ {f} /\ closes'[f] = closes[f] + 1
         /\ \A g \in Conn \ {f} : closes'[g] = closes[g]
  BY DEF HandleClose, TypeOK

LEMMA RunEffect ==
  ASSUME TypeOK, WakeInv, ReadInv, StartInv, NEW f \in Conn, Runs(f)
  PROVE  RunOf(f)
  <1> USE DEF RunOf, serverVars, exitVars
  <1>0. f \in Coroutine
    BY DEF Coroutine
  <1>1. CASE Loop(f)
    BY <1>0, <1>1, EndsEffect, GoToEffect, HandleCloseEffect
    DEF Loop, Go, Put, poolVars
  <1>2. CASE ReadNow(f)
    <2>1. /\ run = f /\ pc[f] = "read"
          /\ UNCHANGED <<serverVars, mail, poolVars, tableVars, run, woken,
                         exitVars, refused, closes>>
      BY <1>2 DEF ReadNow, Go
    <2>2. \/ f \in open \ needed /\ reader[f] = NoOne
          \/ f \in refused
      BY <2>1 DEF ReadInv, WakeInv
    <2>3. f \in refused => f \notin open
      BY DEF StartInv
    <2>4. \/ /\ GoTo(f, "got") /\ UNCHANGED <<outcome, failed>>
             /\ buffer[f] # <<>>
          \/ Ends(f, "socket error") /\ UNCHANGED failed
          \/ /\ Ends(f, "error") /\ f \in refused
             /\ failed' = failed \cup {f}
      BY <1>2, <2>2, <2>3 DEF ReadNow
    <2> QED
      BY <1>0, <2>1, <2>4, EndsEffect, GoToEffect DEF poolVars, tableVars
  <1>3. CASE Leave(f)
    <2>1. outcome'[f].how = outcome[f].how
      <3>1. outcome[f] \in Outcome
        BY DEF TypeOK, CoType
      <3>2. outcome'[f] = [outcome[f] EXCEPT !.closed = f \notin ws]
        BY <1>3 DEF Leave, TypeOK, CoType
      <3> QED
        BY <3>1, <3>2 DEF Outcome
    <2>2. \A g \in Conn \ {f} : outcome'[g] = outcome[g]
      BY <1>3 DEF Leave, TypeOK, CoType
    <2>3. /\ pc'[f] = IF f \in ws THEN "shut" ELSE "post"
          /\ \A c \in Coroutine \ {f} : pc'[c] = pc[c]
      BY <1>0, <1>3, GoToEffect DEF Leave
    <2>4. /\ run = f /\ pc[f] = "leave" /\ ws' = ws \ {f}
          /\ UNCHANGED <<serverVars, mail, poolVars, conns, pinged, exiting,
                         run, woken, exitVars, refused, failed, closes>>
      BY <1>3 DEF Leave, Go, historyVars
    <2> QED
      BY <2>1, <2>2, <2>3, <2>4 DEF poolVars
  <1>4. ASSUME NEW pieces, Got(f, pieces)
        PROVE  /\ run = f /\ pc[f] = "got"
               /\ \A g \in Conn \ {f} : buffer'[g] = buffer[g]
               /\ UNCHANGED <<serverVars, open, connected, reader, closing,
                              needed, ws, pinged, exiting, run, woken,
                              exitVars, refused, failed>>
    BY <1>4 DEF Got, Go, TypeOK
  <1>5. CASE GotAnswered(f)
    BY <1>0, <1>4, <1>5, EndsEffect, GoToEffect DEF GotAnswered
  <1>6. CASE GotHead(f)
    BY <1>0, <1>4, <1>6, GoToEffect DEF GotHead
  <1>7. CASE GotLast(f)
    BY <1>4, <1>7, EndsEffect, HandleCloseEffect DEF GotLast, Put
  <1>8. CASE GotPing(f)
    BY <1>4, <1>8, EndsEffect DEF GotPing, Put
  <1>9. CASE GotBinary(f)
    BY <1>0, <1>4, <1>9, EndsEffect, GoToEffect DEF GotBinary
  <1> QED
    BY <1>1, <1>2, <1>3, <1>5, <1>6, <1>7, <1>8, <1>9 DEF Runs

(* What socket.close and a socket.start that fails leave of a socket.      *)
Forgotten(f) ==
  /\ open' = open \ {f} /\ connected' = connected \ {f}
  /\ needed' = needed \ {f}
  /\ reader'[f] = NoOne /\ closing'[f] = NoOne /\ buffer'[f] = <<>>
  /\ \A g \in Conn \ {f} : /\ reader'[g] = reader[g]
                           /\ closing'[g] = closing[g]
                           /\ buffer'[g] = buffer[g]

(* The coroutine of a connection starts, and nobody closes it: its socket  *)
(* is up, or taken out of the pool.                                        *)
StartOf(f) ==
  /\ run = NoOne /\ run' = f /\ Woken(f) /\ woken' = <<>>
  /\ pc[f] = "start" /\ pc'[f] = "read"
  /\ \A c \in Coroutine \ {f} : pc'[c] = pc[c]
  /\ f \in open /\ Fresh(f)
  /\ reader[f] = NoOne /\ closing[f] = NoOne
  /\ \/ f \in connected /\ ~Starting(f) /\ UNCHANGED <<poolVars, refused>>
     \/ Forgotten(f) /\ refused' = refused \cup {f}
  /\ ws' = ws \cup {f}
  /\ conns' = IF exiting THEN conns ELSE conns \cup {f}
  /\ UNCHANGED <<serverVars, mail, pinged, exiting, outcome, exitVars, failed,
                 closes>>

LEMMA StartEffect ==
  ASSUME NameAssumption, TypeOK, RunInv, WakeInv, StartInv, ShutInv,
         NEW f \in Conn, Started(f)
  PROVE  StartOf(f)
  <1>0. f \in Coroutine
    BY DEF Coroutine
  <1>1. /\ run = NoOne /\ run' = f /\ pc[f] = "start" /\ Woken(f)
        /\ Tail(woken) = <<>>
    BY <1>0, ResumeEffect DEF Started
  <1>2. Fresh(f) /\ f \in open /\ reader[f] = NoOne
    BY <1>1 DEF StartInv, WakeInv
  <1>3. f \in connected => ~Starting(f)
    BY <1>1, <1>2, NameAssumption DEF StartInv
  <1>4. closing[f] = NoOne
    BY <1>2 DEF ShutInv, Fresh
  <1>5. woken' = <<>>
    BY <1>1, <1>4 DEF Started, WakeCloser
  <1>6. pc'[f] = "read" /\ \A c \in Coroutine \ {f} : pc'[c] = pc[c]
    BY <1>0, GoToEffect DEF Started
  <1>7. \/ f \in connected /\ UNCHANGED <<poolVars, refused>>
        \/ Forgotten(f) /\ refused' = refused \cup {f}
    BY ForgetEffect DEF Started, Forgotten
  <1> QED
    BY <1>1, <1>2, <1>3, <1>4, <1>5, <1>6, <1>7 DEF Started, StartOf

(* A coroutine that waited to read goes on.                                *)
ReadOf(f) ==
  /\ run = NoOne /\ run' = f /\ Woken(f) /\ WakesExit(f)
  /\ f \in open /\ reader[f] = NoOne
  /\ pc[f] = "read"
  /\ pc'[f] = IF buffer[f] # <<>> THEN "got" ELSE "leave"
  /\ \A c \in Coroutine \ {f} : pc'[c] = pc[c]
  /\ pc'[f] # "leave" => outcome' = outcome
  /\ \A g \in Conn \ {f} : outcome'[g] = outcome[g]
  /\ UNCHANGED <<serverVars, mail, poolVars, tableVars, exitVars, historyVars>>

LEMMA ReadEffect ==
  ASSUME TypeOK, RunInv, WakeInv, ShutInv, NEW f \in Conn, ReadResumes(f)
  PROVE  ReadOf(f)
  <1>0. f \in Coroutine
    BY DEF Coroutine
  <1>1. /\ run = NoOne /\ run' = f /\ pc[f] = "read" /\ Woken(f)
        /\ Tail(woken) = <<>>
    BY <1>0, ResumeEffect DEF ReadResumes
  <1>2. WakesExit(f)
    BY <1>1, CloserEffect DEF ReadResumes
  <1>3. f \in open /\ reader[f] = NoOne
    BY <1>1 DEF WakeInv
  <1>4. /\ pc'[f] = IF buffer[f] # <<>> THEN "got" ELSE "leave"
        /\ \A c \in Coroutine \ {f} : pc'[c] = pc[c]
        /\ pc'[f] # "leave" => outcome' = outcome
        /\ \A g \in Conn \ {f} : outcome'[g] = outcome[g]
    BY <1>0, EndsEffect, GoToEffect DEF ReadResumes
  <1> QED
    BY <1>1, <1>2, <1>3, <1>4 DEF ReadResumes, ReadOf

(* The coroutine of a connection ends.                                     *)
FinishOf(f) ==
  /\ run = f /\ run' = NoOne
  /\ pc[f] = "post" /\ pc'[f] = "over"
  /\ \A c \in Coroutine \ {f} : pc'[c] = pc[c]
  /\ \A g \in Conn \ {f} :
       closes'[g] = closes[g] /\ outcome'[g] = outcome[g]
  /\ \/ closes' = closes /\ conns' = conns
     \/ /\ outcome[f].how # "ok"
        /\ closes'[f] = closes[f] + 1 /\ conns' = conns \ {f}
  /\ \/ mail' = mail
     \/ mail' = Append(mail, About("seen", f))
     \/ mail' = mail \o <<About("forget", f), About("seen", f)>>
  /\ UNCHANGED <<serverVars, poolVars, ws, pinged, exiting, woken, exitVars,
                 refused, failed>>

LEMMA FinishEffect ==
  ASSUME TypeOK, NEW f \in Conn, Finish(f)
  PROVE  FinishOf(f)
  <1>1. pc'[f] = "over" /\ \A c \in Coroutine \ {f} : pc'[c] = pc[c]
    BY GoToEffect DEF Finish, Coroutine
  <1>2. \A g \in Conn \ {f} : outcome'[g] = outcome[g]
    BY DEF Finish, TypeOK, CoType
  <1>3. /\ \/ closes' = closes /\ conns' = conns
           \/ outcome[f].how # "ok" /\ HandleClose(f)
        /\ \/ mail' = mail
           \/ mail' = Append(mail, About("seen", f))
           \/ mail' = mail \o <<About("forget", f), About("seen", f)>>
    <2>1. CASE outcome[f] = [how |-> "socket error", closed |-> TRUE]
      <3>1. outcome[f].how = "socket error"
        <4>1. [how |-> "socket error", closed |-> TRUE].how = "socket error"
          OBVIOUS
        <4> QED
          BY <2>1, <4>1, Zenon
      <3>2. /\ HandleClose(f)
            /\ mail' = mail \o <<About("forget", f), About("seen", f)>>
        BY <2>1, <3>1 DEF Finish
      <3> QED
        BY <3>1, <3>2
    <2>2. CASE outcome[f] # [how |-> "socket error", closed |-> TRUE]
      <3>1. \/ UNCHANGED <<mail, conns, closes>>
            \/ Put(About("seen", f)) /\ UNCHANGED <<conns, closes>>
        BY <2>2 DEF Finish
      <3> QED
        BY <3>1 DEF Put
    <2> QED
      BY <2>1, <2>2
  <1>4. \/ closes' = closes /\ conns' = conns
        \/ /\ outcome[f].how # "ok"
           /\ closes'[f] = closes[f] + 1 /\ conns' = conns \ {f}
           /\ \A g \in Conn \ {f} : closes'[g] = closes[g]
    BY <1>3, HandleCloseEffect
  <1>5. /\ run = f /\ run' = NoOne /\ pc[f] = "post"
        /\ UNCHANGED <<serverVars, poolVars, ws, pinged, exiting, woken,
                       exitVars, refused, failed>>
    BY DEF Finish, Go
  <1> QED
    BY <1>1, <1>2, <1>3, <1>4, <1>5 DEF FinishOf

(* socket.close returns, to the coroutine that reads the socket.           *)
ShutOf(f) ==
  /\ \/ run = f /\ woken' = woken
     \/ run = NoOne /\ Woken(f) /\ woken' = <<>>
  /\ run' = f
  /\ pc[f] = "shut" /\ pc'[f] = "post"
  /\ \A c \in Coroutine \ {f} : pc'[c] = pc[c]
  /\ Forgotten(f)
  /\ reader[f] = NoOne /\ closing[f] = NoOne
  /\ \A g \in Conn \ {f} : request'[g] = request[g]
  /\ request'[f] \subseteq request[f] \cup {"close"}
  /\ UNCHANGED <<link, report, sent, mail, tableVars, outcome, exitVars,
                 historyVars>>

LEMMA ShutEffect ==
  ASSUME NameAssumption, TypeOK, RunInv, WakeInv, ShutInv, NEW f \in Conn,
         ShutNow(f) \/ ShutResumes(f)
  PROVE  ShutOf(f)
  <1>0. f \in Coroutine /\ f # Exit /\ f # NoOne /\ Target(f) = f
    BY NameAssumption DEF Coroutine, Target
  <1>1. pc[f] = "shut"
    BY <1>0, ResumeEffect DEF ShutNow, ShutResumes, Go
  <1>2. closing[f] = NoOne
    BY <1>1 DEF ShutInv
  <1>3. Forgotten(f)
    BY <1>0, ForgetEffect DEF ShutNow, ShutResumes, Forgotten
  <1>4. pc'[f] = "post" /\ \A c \in Coroutine \ {f} : pc'[c] = pc[c]
    BY <1>0, GoToEffect DEF ShutNow, ShutResumes
  <1>5. /\ \/ run = f /\ woken' = woken
           \/ run = NoOne /\ Woken(f) /\ woken' = <<>>
        /\ run' = f
    <2>1. CASE ShutNow(f)
      BY <2>1 DEF ShutNow, Go
    <2>2. CASE ShutResumes(f)
      <3>1. run = NoOne /\ run' = f /\ Woken(f) /\ Tail(woken) = <<>>
        BY <1>0, <2>2, ResumeEffect DEF ShutResumes
      <3>2. woken' = Tail(woken)
        BY <1>0, <1>2, <2>2 DEF ShutResumes, WakeCloser
      <3> QED
        BY <3>1, <3>2
    <2> QED
      BY <2>1, <2>2
  <1>6. reader[f] = NoOne
    BY <1>5 DEF WakeInv
  <1>7. /\ \A g \in Conn \ {f} : request'[g] = request[g]
        /\ request'[f] \subseteq request[f] \cup {"close"}
    BY <1>0 DEF ShutNow, ShutResumes, Ask, serverVars, TypeOK, ServerType
  <1>8. UNCHANGED <<link, report, sent, mail, tableVars, outcome, exitVars,
                    historyVars>>
    BY DEF ShutNow, ShutResumes, serverVars
  <1> QED
    BY <1>1, <1>2, <1>3, <1>4, <1>5, <1>6, <1>7, <1>8 DEF ShutOf

(* It waits in the place of a reader.                                      *)
WaitOf(f) ==
  /\ run = f /\ run' = NoOne /\ pc[f] = "shut" /\ f \in open \cap connected
  /\ reader[f] = NoOne /\ reader'[f] = f
  /\ \A g \in Conn \ {f} :
       reader'[g] = reader[g] /\ request'[g] = request[g]
  /\ request'[f] \subseteq request[f] \cup {"close"}
  /\ UNCHANGED <<link, report, sent, mail, open, connected, closing, needed,
                 buffer, tableVars, woken, pc, outcome, exitVars,
                 historyVars>>

LEMMA WaitEffect ==
  ASSUME NameAssumption, TypeOK, WakeInv, NEW f \in Conn, ShutWait(f)
  PROVE  WaitOf(f)
  <1>1. Target(f) = f
    BY NameAssumption DEF Target
  <1>2. /\ run = f /\ run' = NoOne /\ pc[f] = "shut"
        /\ f \in open \cap connected
    BY <1>1 DEF ShutWait, Go
  <1>3. reader[f] = NoOne
    BY <1>2 DEF WakeInv
  <1> QED
    BY <1>1, <1>2, <1>3
    DEF ShutWait, WaitOf, Ask, historyVars, TypeOK, ServerType, PoolType

(* exitfunc closes the socket of a coroutine that reads it, and so waits   *)
(* for that coroutine.                                                     *)
LEMMA ExitReads ==
  ASSUME NameAssumption, TypeOK, RunInv, WakeInv, StartInv, ShutInv,
         run = Exit, pc[Exit] = "shut"
  PROVE  /\ shutting \in open \cap connected /\ reader[shutting] = shutting
         /\ shutting \in Conn /\ closing[shutting] = NoOne
         /\ pc[shutting] = "read"
  <1>1. shutting \in seen /\ reader[shutting] = shutting
    BY DEF ShutInv
  <1>2. shutting \in Conn /\ shutting # NoOne
    BY <1>1, NameAssumption DEF TypeOK, CoType
  <1>3. pc[shutting] # "start"
    BY <1>1, <1>2 DEF StartInv, Fresh
  <1> QED
    BY <1>1, <1>2, <1>3 DEF WakeInv, ShutInv

ExitWaitOf(g) ==
  /\ run = Exit /\ run' = NoOne /\ pc[Exit] = "shut" /\ shutting = g
  /\ closing[g] = NoOne /\ closing'[g] = Exit
  /\ g \in open \cap connected /\ reader[g] = g /\ pc[g] = "read"
  /\ \A h \in Conn \ {g} :
       closing'[h] = closing[h] /\ request'[h] = request[h]
  /\ request'[g] \subseteq request[g] \cup {"close"}
  /\ UNCHANGED <<link, report, sent, mail, open, connected, reader, needed,
                 buffer, tableVars, woken, pc, outcome, exitVars,
                 historyVars>>

LEMMA ExitWaitEffect ==
  ASSUME NameAssumption, TypeOK, RunInv, WakeInv, StartInv, ShutInv,
         ShutWait(Exit)
  PROVE  shutting \in Conn /\ ExitWaitOf(shutting)
  <1>1. Target(Exit) = shutting
    BY DEF Target
  <1>2. run = Exit /\ run' = NoOne /\ pc[Exit] = "shut"
    BY DEF ShutWait, Go
  <1>3. /\ shutting \in open \cap connected /\ reader[shutting] = shutting
        /\ shutting \in Conn /\ closing[shutting] = NoOne
        /\ pc[shutting] = "read"
    BY <1>2, ExitReads
  <1>4. shutting # NoOne
    BY <1>3, NameAssumption
  <1> QED
    BY <1>1, <1>2, <1>3, <1>4
    DEF ShutWait, ExitWaitOf, Ask, historyVars, TypeOK, ServerType, PoolType

ExitShutOf(g) ==
  /\ run = NoOne /\ run' = Exit /\ Woken(Exit) /\ woken' = <<>>
  /\ pc[Exit] = "shut" /\ pc'[Exit] = "post" /\ shutting = g
  /\ g \in seen /\ pc[g] # "shut"
  /\ \A c \in Conn : pc'[c] = pc[c]
  /\ Forgotten(g)
  /\ UNCHANGED <<serverVars, mail, tableVars, outcome, exitVars, historyVars>>

LEMMA ExitShutEffect ==
  ASSUME NameAssumption, TypeOK, RunInv, ShutInv, ShutResumes(Exit)
  PROVE  shutting \in Conn /\ ExitShutOf(shutting)
  <1>0. Target(Exit) = shutting /\ Exit \in Coroutine
    BY DEF Target, Coroutine
  <1>1. /\ run = NoOne /\ run' = Exit /\ Woken(Exit) /\ pc[Exit] = "shut"
        /\ Tail(woken) = <<>>
    BY <1>0, ResumeEffect DEF ShutResumes
  <1>2. /\ shutting \in Conn /\ shutting \in seen
        /\ pc[shutting] # "shut"
    BY <1>1 DEF ShutInv, TypeOK, CoType
  <1>3. woken' = <<>>
    <2>1. CASE closing[shutting] = NoOne
      BY <1>0, <1>1, <2>1 DEF ShutResumes, WakeCloser
    <2>2. CASE closing[shutting] # NoOne
      BY <1>0, <1>1, <1>2, <2>2 DEF ShutResumes, ShutInv
    <2> QED
      BY <2>1, <2>2
  <1>4. Forgotten(shutting)
    BY <1>0, <1>2, ForgetEffect DEF ShutResumes, Forgotten
  <1>5. pc'[Exit] = "post" /\ \A c \in Conn : pc'[c] = pc[c]
    BY <1>0, GoToEffect, NameAssumption DEF ShutResumes, Coroutine
  <1> QED
    BY <1>1, <1>2, <1>3, <1>4, <1>5 DEF ShutResumes, ExitShutOf

-----------------------------------------------------------------------------
(* Every step is one of these.                                             *)

OpenOf(f) ==
  /\ run = NoOne /\ woken = <<>>
  /\ report[f] = "open" /\ report'[f] = "none"
  /\ \A g \in Conn \ {f} : report'[g] = report[g]
  /\ \/ /\ pc[f] = "start" /\ link[f] = "up" /\ request[f] = {}
        /\ reader[f] = f /\ Woken(f)' /\ reader'[f] = NoOne
        /\ \A g \in Conn \ {f} : reader'[g] = reader[g]
        /\ connected' = connected \cup {f}
     \/ f \notin open /\ UNCHANGED <<woken, reader, connected>>
  /\ UNCHANGED <<link, request, sent, mail, open, closing, needed, buffer,
                 tableVars, run, pc, outcome, exitVars, historyVars>>

LEMMA OpenEffect ==
  ASSUME NameAssumption, TypeOK, RunInv, WakeInv, StartInv, NEW f \in Conn,
         OpenMessage(f)
  PROVE  OpenOf(f)
  <1>1. /\ run = NoOne /\ woken = <<>>
        /\ report[f] = "open" /\ report'[f] = "none"
        /\ \A g \in Conn \ {f} : report'[g] = report[g]
    BY DEF OpenMessage, Idle, TypeOK, ServerType
  <1>2. CASE f \in open
    <2>1. pc[f] = "start" /\ reader[f] = f /\ link[f] = "up" /\ request[f] = {}
      BY <1>1, <1>2 DEF StartInv, Starting, Asked, Woken
    <2>2. WakesReader(f)
      BY <1>1, <1>2, WakeEffect DEF OpenMessage
    <2>3. /\ reader'[f] = NoOne /\ Woken(f)'
          /\ \A g \in Conn \ {f} : reader'[g] = reader[g]
      BY <2>1, <2>2, NameAssumption DEF WakesReader
    <2> QED
      BY <1>1, <1>2, <2>1, <2>3 DEF OpenMessage, OpenOf
  <1>3. CASE f \notin open
    BY <1>1, <1>3 DEF OpenMessage, OpenOf
  <1> QED
    BY <1>2, <1>3

(* A stamp of one connection, or none, is written.                         *)
StampOf ==
  /\ run = NoOne
  /\ \/ \E f \in Conn : Stamping(f) /\ pinged' = pinged \cup {f}
     \/ pinged' \subseteq pinged
  /\ mail # <<>> /\ mail' = Tail(mail)
  /\ UNCHANGED <<serverVars, poolVars, ws, conns, exiting, coVars,
                 historyVars>>

LEMMA StampEffect ==
  ASSUME TypeOK, StampMessage
  PROVE  StampOf
  <1>1. /\ run = NoOne /\ mail # <<>> /\ mail' = Tail(mail)
        /\ \/ Head(mail).t = "seen" /\ pinged' = pinged \cup {Head(mail).f}
           \/ pinged' \subseteq pinged
    BY DEF StampMessage, Take, Idle
  <1>2. mail \in Seq(Note)
    BY DEF TypeOK
  <1>3. 1 \in DOMAIN mail /\ Head(mail) = mail[1] /\ Head(mail) \in Note
    BY <1>1, <1>2
  <1>4. ASSUME NEW m \in Note, m.t = "seen"
        PROVE  m.f \in Conn /\ m = About("seen", m.f)
    BY <1>4 DEF Note, About
  <1>5. CASE Head(mail).t = "seen"
    BY <1>1, <1>3, <1>4, <1>5 DEF StampMessage, StampOf, Stamping
  <1> QED
    BY <1>1, <1>5 DEF StampMessage, StampOf

SocketStep(f) ==
  \/ ServeStart(f) \/ ServeClose(f) \/ Lost(f) \/ AcceptMessage(f)
  \/ OpenOf(f)
  \/ EndOf(f) \/ DataOf(f) \/ StartOf(f) \/ RunOf(f) \/ ReadWait(f)
  \/ ReadOf(f) \/ FinishOf(f) \/ ShutOf(f) \/ WaitOf(f) \/ ExitNext(f)
  \/ ExitWaitOf(f) \/ ExitShutOf(f)

OtherStep ==
  \/ StampOf \/ CheckMessage \/ ExitMessage \/ QuitMessage
  \/ ExitClosed \/ ExitDone

Moves == (\E f \in Conn : SocketStep(f)) \/ OtherStep \/ UNCHANGED vars

LEMMA MovesCover ==
  ASSUME NameAssumption, TypeOK, RunInv, WakeInv, ReadInv, StartInv, ShutInv,
         [Next]_vars
  PROVE  Moves
  <1>1. ASSUME NEW f \in Conn, Accept(f)
        PROVE  SocketStep(f)
    BY <1>1, StartEffect, RunEffect, ReadEffect, FinishEffect
    DEF Accept, Runs, SocketStep
  <1>2. ASSUME NEW c \in Coroutine, Shut(c)
        PROVE  \E f \in Conn : SocketStep(f)
    <2>1. CASE c \in Conn
      BY <1>2, <2>1, ShutEffect, WaitEffect DEF Shut, SocketStep
    <2>2. CASE c = Exit
      <3>1. CASE ShutNow(Exit)
        <4>1. run = Exit /\ pc[Exit] = "shut"
          BY <3>1 DEF ShutNow, Go
        <4>2. shutting \notin open \cap connected
          BY <3>1 DEF ShutNow, Target
        <4> QED
          BY <4>1, <4>2, ExitReads
      <3>2. CASE ShutWait(Exit)
        BY <3>2, ExitWaitEffect DEF SocketStep
      <3>3. CASE ShutResumes(Exit)
        BY <3>3, ExitShutEffect DEF SocketStep
      <3> QED
        BY <1>2, <2>2, <3>1, <3>2, <3>3 DEF Shut
    <2> QED
      BY <2>1, <2>2 DEF Coroutine
  <1>3. ASSUME Service
        PROVE  Moves
    <2>1. ASSUME NEW f \in Conn,
                 \/ OpenMessage(f) \/ ToldClosed(f) \/ ToldFailed(f)
                 \/ Accept(f) \/ ExitNext(f)
          PROVE  SocketStep(f)
      BY <1>1, <2>1, OpenEffect, EndedEffect DEF SocketStep, Ended
    <2> QED
      BY <1>2, <1>3, <2>1, StampEffect DEF Service, Moves, OtherStep
  <1>4. ASSUME Outside
        PROVE  Moves
    <2>1. ASSUME NEW f \in Conn,
                 \/ AcceptMessage(f) \/ DataMessage(f) \/ HangUp(f)
                 \/ Lost(f) \/ Fails(f)
          PROVE  SocketStep(f)
      BY <2>1, DataEffect, EndedEffect DEF SocketStep, Ended
    <2> QED
      BY <1>4, <2>1 DEF Outside, Moves, OtherStep
  <1> QED
    BY <1>3, <1>4 DEF Next, Exited, Serve, Moves, SocketStep

(* A stamp is sent by a coroutine that leaves resolve_accept, or ends.     *)
LEMMA MailStep ==
  ASSUME TypeOK, Moves, NEW g \in Conn, Stamping(g)'
  PROVE  \/ Stamping(g)
         \/ run = g /\ pc'[g] \in {"leave", "over"}
  <1>1. mail \in Seq(Note)
    BY DEF TypeOK
  <1>2. ASSUME NEW m \in Note, mail' = Append(mail, m)
        PROVE  Stamping(g) \/ m = About("seen", g)
    BY <1>1, <1>2 DEF Stamping
  <1>3. ASSUME mail # <<>>, mail' = Tail(mail)
        PROVE  Stamping(g)
    <2>1. PICK i \in DOMAIN Tail(mail) : Tail(mail)[i] = About("seen", g)
      BY <1>3 DEF Stamping
    <2>2. i + 1 \in DOMAIN mail /\ mail[i + 1] = Tail(mail)[i]
      BY <1>1, <1>3
    <2> QED
      BY <2>1, <2>2 DEF Stamping
  <1>4. /\ \A f \in Conn : About("seen", f) \in Note
        /\ \A f \in Conn : About("forget", f) \in Note
        /\ \A f \in Conn : About("forget", f) # About("seen", g)
        /\ \A f \in Conn : About("seen", f) = About("seen", g) => f = g
        /\ [t |-> "quit"] \in Note /\ [t |-> "quit"] # About("seen", g)
    BY DEF About, Note
  <1>5. ASSUME NEW f \in Conn, RunOf(f)
        PROVE  Stamping(g) \/ (run = g /\ pc'[g] \in {"leave", "over"})
    BY <1>2, <1>4, <1>5 DEF RunOf, Stamping
  <1>6. ASSUME NEW f \in Conn, FinishOf(f)
        PROVE  Stamping(g) \/ (run = g /\ pc'[g] \in {"leave", "over"})
    <2>1. ASSUME mail' = mail \o <<About("forget", f), About("seen", f)>>
          PROVE  Stamping(g) \/ f = g
      <3>1. PICK i \in DOMAIN mail' : mail'[i] = About("seen", g)
        BY DEF Stamping
      <3>2. \/ i \in DOMAIN mail /\ mail'[i] = mail[i]
            \/ mail'[i] \in {About("forget", f), About("seen", f)}
        BY <1>1, <2>1
      <3> QED
        BY <1>4, <3>1, <3>2 DEF Stamping
    <2> QED
      BY <1>2, <1>4, <1>6, <2>1 DEF FinishOf, Stamping
  <1>7. CASE OtherStep
    BY <1>2, <1>3, <1>4, <1>7
    DEF OtherStep, StampOf, CheckMessage, ExitMessage, QuitMessage, Take,
        ExitClosed, ExitDone, Put, Stamping
  <1>8. ASSUME NEW f \in Conn, SocketStep(f), ~RunOf(f), ~FinishOf(f)
        PROVE  mail' = mail
    BY <1>8
    DEF SocketStep, ServeStart, ServeClose, Lost, AcceptMessage, OpenOf, EndOf,
        DataOf, StartOf, ReadWait, ReadOf, ShutOf, WaitOf, ExitNext,
        ExitWaitOf, ExitShutOf
  <1> QED
    BY <1>5, <1>6, <1>7, <1>8 DEF Moves, vars, Stamping

-----------------------------------------------------------------------------
(* Each part of the invariant is preserved by every step.                  *)

LEMMA RunStep ==
  ASSUME NameAssumption, CoType, RunInv, WakeInv, ShutInv, Moves
  PROVE  RunInv'
  <1> USE NameAssumption DEF CoType, RunInv, WakeInv, ShutInv, Woken,
      Coroutine, serverVars, poolVars, tableVars, coVars, exitVars, historyVars
  <1>1. ASSUME NEW f \in Conn, ServeStart(f) PROVE RunInv'
    BY <1>1 DEF ServeStart
  <1>2. ASSUME NEW f \in Conn, ServeClose(f) PROVE RunInv'
    BY <1>2 DEF ServeClose
  <1>3. ASSUME NEW f \in Conn, AcceptMessage(f) PROVE RunInv'
    BY <1>3 DEF AcceptMessage, Idle, Ask
  <1>4. ASSUME NEW f \in Conn, OpenOf(f) PROVE RunInv'
    BY <1>4 DEF OpenOf
  <1>5. ASSUME NEW f \in Conn, EndOf(f) PROVE RunInv'
    BY <1>5 DEF EndOf, WakesReader, SameServer
  <1>6. ASSUME NEW f \in Conn, DataOf(f) PROVE RunInv'
    BY <1>6 DEF DataOf, WakesReader
  <1>7. ASSUME NEW f \in Conn, StartOf(f) PROVE RunInv'
    BY <1>7 DEF StartOf, Forgotten
  <1>8. ASSUME NEW f \in Conn, RunOf(f) PROVE RunInv'
    BY <1>8 DEF RunOf
  <1>9. ASSUME NEW f \in Conn, ReadWait(f) PROVE RunInv'
    BY <1>9 DEF ReadWait, Go
  <1>10. ASSUME NEW f \in Conn, ReadOf(f) PROVE RunInv'
    BY <1>10 DEF ReadOf, WakesExit
  <1>11. ASSUME NEW f \in Conn, FinishOf(f) PROVE RunInv'
    BY <1>11 DEF FinishOf
  <1>12. ASSUME NEW f \in Conn, ShutOf(f) PROVE RunInv'
    BY <1>12 DEF ShutOf, Forgotten, WakesExit
  <1>13. ASSUME NEW f \in Conn, WaitOf(f) PROVE RunInv'
    BY <1>13 DEF WaitOf
  <1>14. ASSUME NEW f \in Conn, ExitNext(f) PROVE RunInv'
    BY <1>14 DEF ExitNext, Go, GoTo
  <1>15. ASSUME NEW f \in Conn, ExitWaitOf(f) PROVE RunInv'
    BY <1>15 DEF ExitWaitOf
  <1>16. ASSUME NEW f \in Conn, ExitShutOf(f) PROVE RunInv'
    BY <1>16 DEF ExitShutOf, Forgotten
  <1>17. CASE StampOf
    BY <1>17 DEF StampOf
  <1>18. CASE CheckMessage
    BY <1>18 DEF CheckMessage, Idle
  <1>19. CASE ExitMessage
    BY <1>19 DEF ExitMessage, Idle
  <1>20. CASE QuitMessage
    BY <1>20 DEF QuitMessage, Take, Idle
  <1>21. CASE ExitClosed
    BY <1>21 DEF ExitClosed, Go, GoTo
  <1>22. CASE ExitDone
    BY <1>22 DEF ExitDone, Go, GoTo
  <1>23. CASE UNCHANGED vars
    BY <1>23 DEF vars
  <1>24. ASSUME NEW f \in Conn, Lost(f) PROVE RunInv'
    BY <1>24 DEF Lost
  <1> HIDE DEF RunInv
  <1> QED
    BY <1>1, <1>2, <1>3, <1>4, <1>5, <1>6, <1>7, <1>8, <1>9, <1>10, <1>11,
       <1>12, <1>13, <1>14, <1>15, <1>16, <1>17, <1>18, <1>19, <1>20, <1>21,
       <1>22, <1>23, <1>24
    DEF Moves, SocketStep, OtherStep

LEMMA WakeStep ==
  ASSUME NameAssumption, CoType, PoolType, RunInv, WakeInv, ReadInv, StartInv,
         ShutInv, TableInv, Moves
  PROVE  WakeInv'
  <1> USE NameAssumption DEF CoType, PoolType, RunInv, WakeInv, ReadInv,
      StartInv, ShutInv, TableInv, Fresh, Starting, Asked, Woken,
      Coroutine, serverVars,
      poolVars, tableVars, coVars, exitVars, historyVars
  <1>1. ASSUME NEW f \in Conn, ServeStart(f) PROVE WakeInv'
    BY <1>1 DEF ServeStart
  <1>2. ASSUME NEW f \in Conn, ServeClose(f) PROVE WakeInv'
    BY <1>2 DEF ServeClose
  <1>3. ASSUME NEW f \in Conn, AcceptMessage(f) PROVE WakeInv'
    BY <1>3 DEF AcceptMessage, Idle, Ask
  <1>4. ASSUME NEW f \in Conn, OpenOf(f) PROVE WakeInv'
    BY <1>4 DEF OpenOf
  <1>5. ASSUME NEW f \in Conn, EndOf(f) PROVE WakeInv'
    BY <1>5 DEF EndOf, WakesReader, SameServer
  <1>6. ASSUME NEW f \in Conn, DataOf(f) PROVE WakeInv'
    BY <1>6 DEF DataOf, WakesReader
  <1>7. ASSUME NEW f \in Conn, StartOf(f) PROVE WakeInv'
    BY <1>7 DEF StartOf, Forgotten
  <1>8. ASSUME NEW f \in Conn, RunOf(f) PROVE WakeInv'
    BY <1>8 DEF RunOf
  <1>9. ASSUME NEW f \in Conn, ReadWait(f) PROVE WakeInv'
    BY <1>9 DEF ReadWait, Go
  <1>10. ASSUME NEW f \in Conn, ReadOf(f) PROVE WakeInv'
    BY <1>10 DEF ReadOf, WakesExit
  <1>11. ASSUME NEW f \in Conn, FinishOf(f) PROVE WakeInv'
    BY <1>11 DEF FinishOf
  <1>12. ASSUME NEW f \in Conn, ShutOf(f) PROVE WakeInv'
    BY <1>12 DEF ShutOf, Forgotten, WakesExit
  <1>13. ASSUME NEW f \in Conn, WaitOf(f) PROVE WakeInv'
    BY <1>13 DEF WaitOf
  <1>14. ASSUME NEW f \in Conn, ExitNext(f) PROVE WakeInv'
    BY <1>14 DEF ExitNext, Go, GoTo
  <1>15. ASSUME NEW f \in Conn, ExitWaitOf(f) PROVE WakeInv'
    BY <1>15 DEF ExitWaitOf
  <1>16. ASSUME NEW f \in Conn, ExitShutOf(f) PROVE WakeInv'
    BY <1>16 DEF ExitShutOf, Forgotten
  <1>17. CASE StampOf
    BY <1>17 DEF StampOf
  <1>18. CASE CheckMessage
    BY <1>18 DEF CheckMessage, Idle
  <1>19. CASE ExitMessage
    BY <1>19 DEF ExitMessage, Idle
  <1>20. CASE QuitMessage
    BY <1>20 DEF QuitMessage, Take, Idle
  <1>21. CASE ExitClosed
    BY <1>21 DEF ExitClosed, Go, GoTo
  <1>22. CASE ExitDone
    BY <1>22 DEF ExitDone, Go, GoTo
  <1>23. CASE UNCHANGED vars
    BY <1>23 DEF vars
  <1>24. ASSUME NEW f \in Conn, Lost(f) PROVE WakeInv'
    BY <1>24 DEF Lost
  <1> HIDE DEF WakeInv
  <1> QED
    BY <1>1, <1>2, <1>3, <1>4, <1>5, <1>6, <1>7, <1>8, <1>9, <1>10, <1>11,
       <1>12, <1>13, <1>14, <1>15, <1>16, <1>17, <1>18, <1>19, <1>20, <1>21,
       <1>22, <1>23, <1>24
    DEF Moves, SocketStep, OtherStep

LEMMA ReadStep ==
  ASSUME NameAssumption, CoType, PoolType, RunInv, WakeInv, ReadInv, StartInv,
         ShutInv, Moves
  PROVE  ReadInv'
  <1> USE NameAssumption DEF CoType, PoolType, RunInv, WakeInv, ReadInv,
      StartInv, ShutInv, Fresh, Starting, Asked, Woken,
      Coroutine, serverVars, poolVars,
      tableVars, coVars, exitVars, historyVars
  <1>1. ASSUME NEW f \in Conn, ServeStart(f) PROVE ReadInv'
    BY <1>1 DEF ServeStart
  <1>2. ASSUME NEW f \in Conn, ServeClose(f) PROVE ReadInv'
    BY <1>2 DEF ServeClose
  <1>3. ASSUME NEW f \in Conn, AcceptMessage(f) PROVE ReadInv'
    BY <1>3 DEF AcceptMessage, Idle, Ask
  <1>4. ASSUME NEW f \in Conn, OpenOf(f) PROVE ReadInv'
    BY <1>4 DEF OpenOf
  <1>5. ASSUME NEW f \in Conn, EndOf(f) PROVE ReadInv'
    BY <1>5 DEF EndOf, WakesReader, SameServer
  <1>6. ASSUME NEW f \in Conn, DataOf(f) PROVE ReadInv'
    BY <1>6 DEF DataOf, WakesReader
  <1>7. ASSUME NEW f \in Conn, StartOf(f) PROVE ReadInv'
    BY <1>7 DEF StartOf, Forgotten
  <1>8. ASSUME NEW f \in Conn, RunOf(f) PROVE ReadInv'
    BY <1>8 DEF RunOf
  <1>9. ASSUME NEW f \in Conn, ReadWait(f) PROVE ReadInv'
    BY <1>9 DEF ReadWait, Go
  <1>10. ASSUME NEW f \in Conn, ReadOf(f) PROVE ReadInv'
    BY <1>10 DEF ReadOf, WakesExit
  <1>11. ASSUME NEW f \in Conn, FinishOf(f) PROVE ReadInv'
    BY <1>11 DEF FinishOf
  <1>12. ASSUME NEW f \in Conn, ShutOf(f) PROVE ReadInv'
    BY <1>12 DEF ShutOf, Forgotten, WakesExit
  <1>13. ASSUME NEW f \in Conn, WaitOf(f) PROVE ReadInv'
    BY <1>13 DEF WaitOf
  <1>14. ASSUME NEW f \in Conn, ExitNext(f) PROVE ReadInv'
    BY <1>14 DEF ExitNext, Go, GoTo
  <1>15. ASSUME NEW f \in Conn, ExitWaitOf(f) PROVE ReadInv'
    BY <1>15 DEF ExitWaitOf
  <1>16. ASSUME NEW f \in Conn, ExitShutOf(f) PROVE ReadInv'
    BY <1>16 DEF ExitShutOf, Forgotten
  <1>17. CASE StampOf
    BY <1>17 DEF StampOf
  <1>18. CASE CheckMessage
    BY <1>18 DEF CheckMessage, Idle
  <1>19. CASE ExitMessage
    BY <1>19 DEF ExitMessage, Idle
  <1>20. CASE QuitMessage
    BY <1>20 DEF QuitMessage, Take, Idle
  <1>21. CASE ExitClosed
    BY <1>21 DEF ExitClosed, Go, GoTo
  <1>22. CASE ExitDone
    BY <1>22 DEF ExitDone, Go, GoTo
  <1>23. CASE UNCHANGED vars
    BY <1>23 DEF vars
  <1>24. ASSUME NEW f \in Conn, Lost(f) PROVE ReadInv'
    BY <1>24 DEF Lost
  <1> HIDE DEF ReadInv
  <1> QED
    BY <1>1, <1>2, <1>3, <1>4, <1>5, <1>6, <1>7, <1>8, <1>9, <1>10, <1>11,
       <1>12, <1>13, <1>14, <1>15, <1>16, <1>17, <1>18, <1>19, <1>20, <1>21,
       <1>22, <1>23, <1>24
    DEF Moves, SocketStep, OtherStep

LEMMA StartStep ==
  ASSUME NameAssumption, ServerType, PoolType, TableType, CoType, RunInv,
         WakeInv, StartInv, TableInv, Moves
  PROVE  StartInv'
  <1> USE NameAssumption DEF ServerType, PoolType, TableType, CoType, RunInv,
      WakeInv, StartInv, TableInv, Fresh, Starting, Asked, Woken,
      Coroutine, serverVars,
      poolVars, tableVars, coVars, exitVars, historyVars
  <1>1. ASSUME NEW f \in Conn, ServeStart(f) PROVE StartInv'
    BY <1>1 DEF ServeStart
  <1>2. ASSUME NEW f \in Conn, ServeClose(f) PROVE StartInv'
    <2>1. /\ request[f] # {} /\ request[f] # {"start"}
          /\ "start" \notin request[f] /\ request'[f] = {}
      <3>1. request[f] = {"close"} /\ request'[f] = {}
        BY <1>2 DEF ServeClose
      <3>2. "close" \in request[f] /\ "start" \notin request[f]
        BY <3>1
      <3> QED
        BY <3>1, <3>2
    <2>2. link[f] # "none" /\ link'[f] # "none"
      <3>1. link'[f] = "gone"
        BY <1>2 DEF ServeClose
      <3> QED
        BY <2>1, <3>1
    <2>3. /\ report[f] \notin {"open", "failed"}
          /\ report'[f] \in {"late", "close", report[f]}
      BY <1>2 DEF ServeClose
    <2>4. \A g \in Conn \ {f} : SameServer(g)
      BY <1>2 DEF ServeClose, SameServer
    <2>5. UNCHANGED <<poolVars, tableVars, coVars, refused>>
      BY <1>2 DEF ServeClose
    <2>6. ~Starting(f)' /\ ~Starting(f)
      BY <2>1, <2>3
    <2>7. /\ pc[f] # "none"
          /\ pc[f] = "start" => Woken(f) /\ Fresh(f) /\ f \in open
      BY <2>1, <2>2, <2>3, <2>6
    <2> QED
      BY <2>1, <2>2, <2>4, <2>5, <2>6, <2>7 DEF SameServer
  <1>3. ASSUME NEW f \in Conn, AcceptMessage(f) PROVE StartInv'
    BY <1>3 DEF AcceptMessage, Idle, Ask
  <1>4. ASSUME NEW f \in Conn, OpenOf(f) PROVE StartInv'
    BY <1>4 DEF OpenOf
  <1>5. ASSUME NEW f \in Conn, EndOf(f) PROVE StartInv'
    BY <1>5 DEF EndOf, WakesReader, SameServer
  <1>6. ASSUME NEW f \in Conn, DataOf(f) PROVE StartInv'
    BY <1>6 DEF DataOf, WakesReader
  <1>7. ASSUME NEW f \in Conn, StartOf(f) PROVE StartInv'
    BY <1>7 DEF StartOf, Forgotten
  <1>8. ASSUME NEW f \in Conn, RunOf(f) PROVE StartInv'
    BY <1>8 DEF RunOf
  <1>9. ASSUME NEW f \in Conn, ReadWait(f) PROVE StartInv'
    BY <1>9 DEF ReadWait, Go
  <1>10. ASSUME NEW f \in Conn, ReadOf(f) PROVE StartInv'
    BY <1>10 DEF ReadOf, WakesExit
  <1>11. ASSUME NEW f \in Conn, FinishOf(f) PROVE StartInv'
    <2>1. /\ conns' \subseteq conns /\ pc[f] = "post" /\ pc'[f] = "over"
          /\ \A c \in Coroutine \ {f} : pc'[c] = pc[c]
          /\ UNCHANGED <<serverVars, poolVars, ws, pinged, woken, seen,
                         refused>>
      BY <1>11 DEF FinishOf
    <2>2. ASSUME NEW g \in Conn
          PROVE  /\ pc'[g] = "start" <=> pc[g] = "start"
                 /\ pc'[g] = "none" <=> pc[g] = "none"
      BY <2>1
    <2>3. ASSUME NEW g \in Conn
          PROVE  /\ Fresh(g) => Fresh(g)'
                 /\ Woken(g)' = Woken(g)
                 /\ Starting(g)' = Starting(g)
                 /\ Asked(g)' = Asked(g)
      BY <2>1
    <2> HIDE DEF Fresh, Starting, Asked, Woken
    <2> QED
      BY <2>1, <2>2, <2>3
  <1>12. ASSUME NEW f \in Conn, ShutOf(f) PROVE StartInv'
    BY <1>12 DEF ShutOf, Forgotten, WakesExit
  <1>13. ASSUME NEW f \in Conn, WaitOf(f) PROVE StartInv'
    BY <1>13 DEF WaitOf
  <1>14. ASSUME NEW f \in Conn, ExitNext(f) PROVE StartInv'
    BY <1>14 DEF ExitNext, Go, GoTo
  <1>15. ASSUME NEW f \in Conn, ExitWaitOf(f) PROVE StartInv'
    <2>1. /\ request[f] \ {"close"} = request'[f] \ {"close"}
          /\ \A g \in Conn \ {f} : request'[g] = request[g]
          /\ pc[f] \notin {"none", "start"}
          /\ UNCHANGED <<link, report, pc, woken, open, reader, connected>>
          /\ UNCHANGED <<ws, conns, pinged, seen, needed, refused>>
      BY <1>15 DEF ExitWaitOf
    <2>2. \A g \in Conn : g # f => request'[g] = request[g]
      BY <2>1
    <2>3. /\ "start" \in request'[f] <=> "start" \in request[f]
          /\ Starting(f)' <=> Starting(f)
      BY <2>1
    <2> QED
      BY <2>1, <2>2, <2>3
  <1>16. ASSUME NEW f \in Conn, ExitShutOf(f) PROVE StartInv'
    BY <1>16 DEF ExitShutOf, Forgotten
  <1>17. CASE StampOf
    BY <1>17 DEF StampOf
  <1>18. CASE CheckMessage
    BY <1>18 DEF CheckMessage, Idle
  <1>19. CASE ExitMessage
    BY <1>19 DEF ExitMessage, Idle
  <1>20. CASE QuitMessage
    BY <1>20 DEF QuitMessage, Take, Idle
  <1>21. CASE ExitClosed
    BY <1>21 DEF ExitClosed, Go, GoTo
  <1>22. CASE ExitDone
    BY <1>22 DEF ExitDone, Go, GoTo
  <1>23. CASE UNCHANGED vars
    BY <1>23 DEF vars
  <1>24. ASSUME NEW f \in Conn, Lost(f) PROVE StartInv'
    BY <1>24 DEF Lost
  <1> HIDE DEF StartInv
  <1> QED
    BY <1>1, <1>2, <1>3, <1>4, <1>5, <1>6, <1>7, <1>8, <1>9, <1>10, <1>11,
       <1>12, <1>13, <1>14, <1>15, <1>16, <1>17, <1>18, <1>19, <1>20, <1>21,
       <1>22, <1>23, <1>24
    DEF Moves, SocketStep, OtherStep

LEMMA ShutStep ==
  ASSUME NameAssumption, CoType, PoolType, TableType, RunInv, WakeInv,
         StartInv, ShutInv, TableInv, Moves
  PROVE  ShutInv'
  <1> USE NameAssumption DEF CoType, PoolType, TableType, RunInv, WakeInv,
      StartInv, ShutInv, TableInv, Fresh, Woken, Coroutine, serverVars,
      poolVars, tableVars, coVars, exitVars, historyVars
  <1>1. ASSUME NEW f \in Conn, ServeStart(f) PROVE ShutInv'
    BY <1>1 DEF ServeStart
  <1>2. ASSUME NEW f \in Conn, ServeClose(f) PROVE ShutInv'
    BY <1>2 DEF ServeClose
  <1>3. ASSUME NEW f \in Conn, AcceptMessage(f) PROVE ShutInv'
    BY <1>3 DEF AcceptMessage, Idle, Ask
  <1>4. ASSUME NEW f \in Conn, OpenOf(f) PROVE ShutInv'
    BY <1>4 DEF OpenOf
  <1>5. ASSUME NEW f \in Conn, EndOf(f) PROVE ShutInv'
    BY <1>5 DEF EndOf, WakesReader, SameServer
  <1>6. ASSUME NEW f \in Conn, DataOf(f) PROVE ShutInv'
    BY <1>6 DEF DataOf, WakesReader
  <1>7. ASSUME NEW f \in Conn, StartOf(f) PROVE ShutInv'
    BY <1>7 DEF StartOf, Forgotten
  <1>8. ASSUME NEW f \in Conn, RunOf(f) PROVE ShutInv'
    BY <1>8 DEF RunOf
  <1>9. ASSUME NEW f \in Conn, ReadWait(f) PROVE ShutInv'
    BY <1>9 DEF ReadWait, Go
  <1>10. ASSUME NEW f \in Conn, ReadOf(f) PROVE ShutInv'
    BY <1>10 DEF ReadOf, WakesExit
  <1>11. ASSUME NEW f \in Conn, FinishOf(f) PROVE ShutInv'
    BY <1>11 DEF FinishOf
  <1>12. ASSUME NEW f \in Conn, ShutOf(f) PROVE ShutInv'
    BY <1>12 DEF ShutOf, Forgotten, WakesExit
  <1>13. ASSUME NEW f \in Conn, WaitOf(f) PROVE ShutInv'
    BY <1>13 DEF WaitOf
  <1>14. ASSUME NEW f \in Conn, ExitNext(f) PROVE ShutInv'
    BY <1>14 DEF ExitNext, Go, GoTo
  <1>15. ASSUME NEW f \in Conn, ExitWaitOf(f) PROVE ShutInv'
    BY <1>15 DEF ExitWaitOf
  <1>16. ASSUME NEW f \in Conn, ExitShutOf(f) PROVE ShutInv'
    BY <1>16 DEF ExitShutOf, Forgotten
  <1>17. CASE StampOf
    BY <1>17 DEF StampOf
  <1>18. CASE CheckMessage
    BY <1>18 DEF CheckMessage, Idle
  <1>19. CASE ExitMessage
    BY <1>19 DEF ExitMessage, Idle
  <1>20. CASE QuitMessage
    BY <1>20 DEF QuitMessage, Take, Idle
  <1>21. CASE ExitClosed
    BY <1>21 DEF ExitClosed, Go, GoTo
  <1>22. CASE ExitDone
    BY <1>22 DEF ExitDone, Go, GoTo
  <1>23. CASE UNCHANGED vars
    BY <1>23 DEF vars
  <1>24. ASSUME NEW f \in Conn, Lost(f) PROVE ShutInv'
    BY <1>24 DEF Lost
  <1> HIDE DEF ShutInv
  <1> QED
    BY <1>1, <1>2, <1>3, <1>4, <1>5, <1>6, <1>7, <1>8, <1>9, <1>10, <1>11,
       <1>12, <1>13, <1>14, <1>15, <1>16, <1>17, <1>18, <1>19, <1>20, <1>21,
       <1>22, <1>23, <1>24
    DEF Moves, SocketStep, OtherStep

LEMMA TableStep ==
  ASSUME NameAssumption, TypeOK, CoType, TableType, RunInv, StartInv, ShutInv,
         TableInv, Moves
  PROVE  TableInv'
  <1> USE NameAssumption DEF CoType, TableType, RunInv, StartInv, ShutInv,
      TableInv, Fresh, Woken, Coroutine, serverVars, poolVars, tableVars,
      coVars, exitVars, historyVars
  <1>0. \A g \in Conn : Stamping(g)' =>
          Stamping(g) \/ (run = g /\ pc'[g] \in {"leave", "over"})
    <2> HIDE DEF TableInv, RunInv, StartInv, CoType
    <2> QED
      BY MailStep
  <1>1. ASSUME NEW f \in Conn, ServeStart(f) PROVE TableInv'
    BY <1>0, <1>1 DEF ServeStart
  <1>2. ASSUME NEW f \in Conn, ServeClose(f) PROVE TableInv'
    BY <1>0, <1>2 DEF ServeClose
  <1>3. ASSUME NEW f \in Conn, AcceptMessage(f) PROVE TableInv'
    BY <1>0, <1>3 DEF AcceptMessage, Idle, Ask
  <1>4. ASSUME NEW f \in Conn, OpenOf(f) PROVE TableInv'
    BY <1>0, <1>4 DEF OpenOf
  <1>5. ASSUME NEW f \in Conn, EndOf(f) PROVE TableInv'
    BY <1>0, <1>5 DEF EndOf, WakesReader, SameServer
  <1>6. ASSUME NEW f \in Conn, DataOf(f) PROVE TableInv'
    BY <1>0, <1>6 DEF DataOf, WakesReader
  <1>7. ASSUME NEW f \in Conn, StartOf(f) PROVE TableInv'
    BY <1>0, <1>7 DEF StartOf, Forgotten
  <1>8. ASSUME NEW f \in Conn, RunOf(f) PROVE TableInv'
    BY <1>0, <1>8 DEF RunOf
  <1>9. ASSUME NEW f \in Conn, ReadWait(f) PROVE TableInv'
    BY <1>0, <1>9 DEF ReadWait, Go
  <1>10. ASSUME NEW f \in Conn, ReadOf(f) PROVE TableInv'
    BY <1>0, <1>10 DEF ReadOf, WakesExit
  <1>11. ASSUME NEW f \in Conn, FinishOf(f) PROVE TableInv'
    BY <1>0, <1>11 DEF FinishOf
  <1>12. ASSUME NEW f \in Conn, ShutOf(f) PROVE TableInv'
    BY <1>0, <1>12 DEF ShutOf, Forgotten, WakesExit
  <1>13. ASSUME NEW f \in Conn, WaitOf(f) PROVE TableInv'
    BY <1>0, <1>13 DEF WaitOf
  <1>14. ASSUME NEW f \in Conn, ExitNext(f) PROVE TableInv'
    BY <1>0, <1>14 DEF ExitNext, Go, GoTo
  <1>15. ASSUME NEW f \in Conn, ExitWaitOf(f) PROVE TableInv'
    BY <1>0, <1>15 DEF ExitWaitOf
  <1>16. ASSUME NEW f \in Conn, ExitShutOf(f) PROVE TableInv'
    BY <1>0, <1>16 DEF ExitShutOf, Forgotten
  <1>17. CASE StampOf
    BY <1>0, <1>17 DEF StampOf
  <1>18. CASE CheckMessage
    BY <1>0, <1>18 DEF CheckMessage, Idle
  <1>19. CASE ExitMessage
    BY <1>0, <1>19 DEF ExitMessage, Idle
  <1>20. CASE QuitMessage
    BY <1>0, <1>20 DEF QuitMessage, Take, Idle
  <1>21. CASE ExitClosed
    BY <1>0, <1>21 DEF ExitClosed, Go, GoTo
  <1>22. CASE ExitDone
    BY <1>0, <1>22 DEF ExitDone, Go, GoTo
  <1>23. CASE UNCHANGED vars
    BY <1>0, <1>23 DEF vars
  <1>24. ASSUME NEW f \in Conn, Lost(f) PROVE TableInv'
    BY <1>0, <1>24 DEF Lost
  <1> HIDE DEF TableInv
  <1> QED
    BY <1>1, <1>2, <1>3, <1>4, <1>5, <1>6, <1>7, <1>8, <1>9, <1>10, <1>11,
       <1>12, <1>13, <1>14, <1>15, <1>16, <1>17, <1>18, <1>19, <1>20, <1>21,
       <1>22, <1>23, <1>24
    DEF Moves, SocketStep, OtherStep

LEMMA CloseStep ==
  ASSUME NameAssumption, CoType, RunInv, StartInv, CloseInv, Moves
  PROVE  CloseInv'
  <1> USE NameAssumption DEF CoType, RunInv, StartInv, CloseInv, Woken,
      Coroutine, serverVars, poolVars, tableVars, coVars, exitVars, historyVars
  <1>1. ASSUME NEW f \in Conn, ServeStart(f) PROVE CloseInv'
    BY <1>1 DEF ServeStart
  <1>2. ASSUME NEW f \in Conn, ServeClose(f) PROVE CloseInv'
    BY <1>2 DEF ServeClose
  <1>3. ASSUME NEW f \in Conn, AcceptMessage(f) PROVE CloseInv'
    BY <1>3 DEF AcceptMessage, Idle, Ask
  <1>4. ASSUME NEW f \in Conn, OpenOf(f) PROVE CloseInv'
    BY <1>4 DEF OpenOf
  <1>5. ASSUME NEW f \in Conn, EndOf(f) PROVE CloseInv'
    BY <1>5 DEF EndOf, WakesReader, SameServer
  <1>6. ASSUME NEW f \in Conn, DataOf(f) PROVE CloseInv'
    BY <1>6 DEF DataOf, WakesReader
  <1>7. ASSUME NEW f \in Conn, StartOf(f) PROVE CloseInv'
    BY <1>7 DEF StartOf, Forgotten
  <1>8. ASSUME NEW f \in Conn, RunOf(f) PROVE CloseInv'
    BY <1>8 DEF RunOf
  <1>9. ASSUME NEW f \in Conn, ReadWait(f) PROVE CloseInv'
    BY <1>9 DEF ReadWait, Go
  <1>10. ASSUME NEW f \in Conn, ReadOf(f) PROVE CloseInv'
    BY <1>10 DEF ReadOf, WakesExit
  <1>11. ASSUME NEW f \in Conn, FinishOf(f) PROVE CloseInv'
    BY <1>11 DEF FinishOf
  <1>12. ASSUME NEW f \in Conn, ShutOf(f) PROVE CloseInv'
    BY <1>12 DEF ShutOf, Forgotten, WakesExit
  <1>13. ASSUME NEW f \in Conn, WaitOf(f) PROVE CloseInv'
    BY <1>13 DEF WaitOf
  <1>14. ASSUME NEW f \in Conn, ExitNext(f) PROVE CloseInv'
    BY <1>14 DEF ExitNext, Go, GoTo
  <1>15. ASSUME NEW f \in Conn, ExitWaitOf(f) PROVE CloseInv'
    BY <1>15 DEF ExitWaitOf
  <1>16. ASSUME NEW f \in Conn, ExitShutOf(f) PROVE CloseInv'
    BY <1>16 DEF ExitShutOf, Forgotten
  <1>17. CASE StampOf
    BY <1>17 DEF StampOf
  <1>18. CASE CheckMessage
    BY <1>18 DEF CheckMessage, Idle
  <1>19. CASE ExitMessage
    BY <1>19 DEF ExitMessage, Idle
  <1>20. CASE QuitMessage
    BY <1>20 DEF QuitMessage, Take, Idle
  <1>21. CASE ExitClosed
    BY <1>21 DEF ExitClosed, Go, GoTo
  <1>22. CASE ExitDone
    BY <1>22 DEF ExitDone, Go, GoTo
  <1>23. CASE UNCHANGED vars
    BY <1>23 DEF vars
  <1>24. ASSUME NEW f \in Conn, Lost(f) PROVE CloseInv'
    BY <1>24 DEF Lost
  <1> HIDE DEF CloseInv
  <1> QED
    BY <1>1, <1>2, <1>3, <1>4, <1>5, <1>6, <1>7, <1>8, <1>9, <1>10, <1>11,
       <1>12, <1>13, <1>14, <1>15, <1>16, <1>17, <1>18, <1>19, <1>20, <1>21,
       <1>22, <1>23, <1>24
    DEF Moves, SocketStep, OtherStep

-----------------------------------------------------------------------------
(* The properties the invariant is for.                                    *)

LEMMA AssertsStep ==
  ASSUME SocketAsserts, Moves
  PROVE  SocketAsserts'
  <1>1. ASSUME NEW f \in Conn, SocketStep(f)
        PROVE  /\ refused \subseteq refused'
               /\ failed' \subseteq failed \cup refused
    BY <1>1
    DEF SocketStep, ServeStart, ServeClose, Lost, AcceptMessage, OpenOf, EndOf,
        DataOf, StartOf, RunOf, ReadWait, ReadOf, FinishOf, ShutOf, WaitOf,
        ExitNext, ExitWaitOf, ExitShutOf,
        historyVars
  <1>2. ASSUME OtherStep \/ UNCHANGED vars
        PROVE  UNCHANGED <<refused, failed>>
    BY <1>2 DEF OtherStep, StampOf, CheckMessage, ExitMessage, QuitMessage,
                ExitClosed, ExitDone, historyVars, vars
  <1> QED
    BY <1>1, <1>2 DEF Moves, SocketAsserts

LEMMA OnceStep ==
  ASSUME ClosedOnce, CloseInv, Moves
  PROVE  ClosedOnce'
  <1>1. ASSUME NEW f \in Conn, RunOf(f)
        PROVE  ClosedOnce'
    BY <1>1 DEF RunOf, CloseInv, ClosedOnce
  <1>2. ASSUME NEW f \in Conn, FinishOf(f)
        PROVE  ClosedOnce'
    BY <1>2 DEF FinishOf, CloseInv, ClosedOnce
  <1>3. ASSUME NEW f \in Conn, SocketStep(f), ~RunOf(f), ~FinishOf(f)
        PROVE  closes' = closes
    BY <1>3
    DEF SocketStep, ServeStart, ServeClose, Lost, AcceptMessage, OpenOf, EndOf,
        DataOf, StartOf, ReadWait, ReadOf, ShutOf, WaitOf, ExitNext,
        ExitWaitOf, ExitShutOf, historyVars
  <1>4. CASE OtherStep \/ UNCHANGED vars
    BY <1>4 DEF OtherStep, StampOf, CheckMessage, ExitMessage, QuitMessage,
                ExitClosed, ExitDone, historyVars, vars, ClosedOnce
  <1> QED
    BY <1>1, <1>2, <1>3, <1>4 DEF Moves, ClosedOnce

(* What is open and known is entered by Started only.                      *)
LEMMA TablesStep ==
  ASSUME Moves
  PROVE  \/ ws' \subseteq ws /\ conns' \subseteq conns
         \/ \E f \in Conn : StartOf(f)
  <1>1. ASSUME NEW f \in Conn, SocketStep(f), ~StartOf(f)
        PROVE  ws' \subseteq ws /\ conns' \subseteq conns
    BY <1>1
    DEF SocketStep, ServeStart, ServeClose, Lost, AcceptMessage, OpenOf, EndOf,
        DataOf, RunOf, ReadWait, ReadOf, FinishOf, ShutOf, WaitOf,
        ExitNext, ExitWaitOf, ExitShutOf,
        tableVars
  <1>2. ASSUME OtherStep \/ UNCHANGED vars
        PROVE  ws' \subseteq ws /\ conns' \subseteq conns
    BY <1>2 DEF OtherStep, StampOf, CheckMessage, ExitMessage, QuitMessage,
                ExitClosed, ExitDone, tableVars, vars
  <1> QED
    BY <1>1, <1>2 DEF Moves

LEMMA ExitClosesStep ==
  ASSUME NameAssumption, CoType, RunInv, ShutInv, ExitClosesAll, Moves
  PROVE  ExitClosesAll'
  <1>1. ASSUME NEW f \in Conn, StartOf(f)
        PROVE  ExitClosesAll'
    BY <1>1, NameAssumption
    DEF StartOf, ShutInv, ExitClosesAll, Fresh, Coroutine
  <1>2. CASE ExitDone
    BY <1>2 DEF ExitDone, ShutInv, ExitClosesAll, tableVars
  <1>3. ASSUME NEW f \in Conn, SocketStep(f)
        PROVE  pc'[Exit] = "over" => pc[Exit] = "over"
    BY <1>3, NameAssumption
    DEF SocketStep, ServeStart, ServeClose, Lost, AcceptMessage, OpenOf, EndOf,
        DataOf, StartOf, RunOf, ReadWait, ReadOf, FinishOf, ShutOf, WaitOf,
        ExitNext, ExitWaitOf, ExitShutOf,
        coVars, Go, GoTo, CoType, Coroutine
  <1>4. ASSUME OtherStep \/ UNCHANGED vars, ~ExitDone
        PROVE  pc'[Exit] = "over" => pc[Exit] = "over"
    BY <1>4, NameAssumption
    DEF OtherStep, StampOf, CheckMessage, ExitMessage, QuitMessage, ExitClosed,
        coVars, vars, Go, GoTo, CoType, Coroutine
  <1> QED
    BY <1>1, <1>2, <1>3, <1>4, TablesStep DEF Moves, ExitClosesAll

LEMMA StampedStep ==
  ASSUME NameAssumption, RunInv, TableInv, StampedIsClosed, Moves
  PROVE  StampedIsClosed'
  <1>1. ASSUME NEW f \in Conn, StartOf(f)
        PROVE  StampedIsClosed'
    BY <1>1 DEF StartOf, Fresh, StampedIsClosed
  <1>2. CASE StampOf
    BY <1>2, NameAssumption DEF StampOf, TableInv, StampedIsClosed
  <1>3. ASSUME NEW f \in Conn, SocketStep(f)
        PROVE  pinged' = pinged
    BY <1>3
    DEF SocketStep, ServeStart, ServeClose, Lost, AcceptMessage, OpenOf, EndOf,
        DataOf, StartOf, RunOf, ReadWait, ReadOf, FinishOf, ShutOf, WaitOf,
        ExitNext, ExitWaitOf, ExitShutOf,
        tableVars
  <1>4. ASSUME OtherStep \/ UNCHANGED vars, ~StampOf
        PROVE  pinged' \subseteq pinged
    BY <1>4 DEF OtherStep, CheckMessage, ExitMessage, QuitMessage, ExitClosed,
                ExitDone, tableVars, vars
  <1> QED
    BY <1>1, <1>2, <1>3, <1>4, TablesStep DEF Moves, StampedIsClosed

-----------------------------------------------------------------------------
(* Type correctness, part by part.                                         *)

LEMMA InputType ==
  ASSUME BoundAssumption, NEW n \in 0 .. 2 * MaxFrame + 1,
         NEW data \in Input(n)
  PROVE  data \in Seq(Piece) /\ n + Len(data) \in 0 .. 2 * MaxFrame + 1
  <1>1. PICK k \in 1 .. (2 * MaxFrame + 1 - n) : data \in [1..k -> Piece]
    BY DEF Input
  <1>2. k \in Nat /\ data \in Seq(Piece) /\ Len(data) = k
    BY <1>1, BoundAssumption
  <1> QED
    BY <1>1, <1>2, BoundAssumption

LEMMA ServerTypeStep ==
  ASSUME NameAssumption, BoundAssumption, TypeOK, ShutInv, [Next]_vars
  PROVE  ServerType'
  <1> USE DEF ServerType, Link, Report
  <1>0. /\ ServerType
        /\ pc[Exit] = "shut" => shutting \in Conn
    BY DEF TypeOK, ShutInv, CoType
  <1>1. ASSUME NEW f \in Conn, Serve(f)
        PROVE  ServerType'
    BY <1>0, <1>1 DEF Serve, ServeStart, ServeClose
  <1>2. ASSUME NEW f \in Conn, AcceptMessage(f) \/ OpenMessage(f)
        PROVE  ServerType'
    BY <1>0, <1>2 DEF AcceptMessage, OpenMessage, Ask
  <1>3. ASSUME NEW f \in Conn, DataMessage(f)
        PROVE  ServerType'
    <2>1. PICK data \in Input(sent[f]) :
            sent' = IF f \in open THEN [sent EXCEPT ![f] = @ + Len(data)]
                                  ELSE sent
      BY <1>3 DEF DataMessage
    <2>2. sent[f] + Len(data) \in 0 .. 2 * MaxFrame + 1
      BY <1>0, InputType, BoundAssumption
    <2> QED
      BY <1>0, <1>3, <2>1, <2>2 DEF DataMessage
  <1>4. ASSUME NEW f \in Conn, Ended(f) \/ Lost(f)
        PROVE  ServerType'
    BY <1>0, <1>4 DEF Ended, HangUp, ToldClosed, Fails, ToldFailed,
                         ErrorMessage, CloseMessage, Lost, Ask, poolVars
  <1>5. ASSUME NEW c \in Coroutine, Shut(c)
        PROVE  ServerType'
    <2>1. PICK f \in Conn : Target(c) = f
      BY <1>0, <1>5 DEF Coroutine, Target, Shut, ShutNow, ShutWait,
                        ShutResumes, Go, Resume
    <2> QED
      BY <1>0, <1>5, <2>1 DEF Shut, ShutNow, ShutWait, ShutResumes, Ask,
                              serverVars
  <1>6. ASSUME NEW f \in Conn, Accept(f) \/ ExitNext(f)
        PROVE  UNCHANGED serverVars
    BY <1>6 DEF Accept, Started, Loop, ReadWait, ReadNow, ReadResumes,
                GotAnswered, GotHead, GotLast, GotPing, GotBinary, Got, Leave,
                Finish, ExitNext
  <1>7. ASSUME \/ StampMessage \/ QuitMessage \/ ExitClosed \/ ExitDone
               \/ CheckMessage \/ ExitMessage
        PROVE  UNCHANGED serverVars
    BY <1>7 DEF StampMessage, QuitMessage, ExitClosed, ExitDone, CheckMessage,
                ExitMessage
  <1>8. UNCHANGED serverVars => ServerType'
    BY <1>0 DEF serverVars
  <1>9. CASE UNCHANGED vars
    BY <1>8, <1>9 DEF vars
  <1> QED
    BY <1>1, <1>2, <1>3, <1>4, <1>5, <1>6, <1>7, <1>8, <1>9
    DEF Next, Service, Outside, Exited, Ended

LEMMA PoolTypeStep ==
  ASSUME NameAssumption, TypeOK, ShutInv, ReadInv, [Next]_vars
  PROVE  PoolType'
  <1> USE DEF PoolType
  <1>0. /\ PoolType /\ buffer \in [Conn -> Seq(Piece)]
        /\ pc[Exit] = "shut" => shutting \in Conn
    BY DEF TypeOK, ShutInv, CoType
  <1>1. ASSUME NEW f \in Conn, AcceptMessage(f)
        PROVE  PoolType'
    BY <1>0, <1>1 DEF AcceptMessage, Coroutine
  <1>2. ASSUME NEW f \in Conn, WakeReader(f) \/ UNCHANGED reader,
               \/ connected' = connected \cup {f} /\ f \in open
               \/ connected' = connected \ {f}
               \/ connected' = connected,
               UNCHANGED <<open, closing, needed, buffer>>
        PROVE  PoolType'
    BY <1>0, <1>2 DEF WakeReader
  <1>3. ASSUME NEW f \in Conn, OpenMessage(f)
        PROVE  PoolType'
    BY <1>2, <1>3 DEF OpenMessage
  <1>4. ASSUME NEW f \in Conn, Ended(f)
        PROVE  PoolType'
    BY <1>2, <1>4 DEF Ended, HangUp, ToldClosed, Fails, ToldFailed,
                         ErrorMessage, CloseMessage
  <1>5. ASSUME NEW f \in Conn, DataMessage(f)
        PROVE  PoolType'
    <2>1. \A g \in Conn \ open : buffer'[g] = buffer[g]
      BY <1>0, <1>5 DEF DataMessage, Pushed
    <2>2. UNCHANGED <<open, connected, closing>> /\ needed' = needed \ {f}
      BY <1>5 DEF DataMessage
    <2>3. WakeReader(f) \/ UNCHANGED reader
      BY <1>5 DEF DataMessage
    <2> QED
      BY <1>0, <2>1, <2>2, <2>3 DEF WakeReader
  <1>6. ASSUME NEW f \in Conn, Forget(f)
        PROVE  PoolType'
    BY <1>0, <1>6 DEF Forget
  <1>7. ASSUME NEW f \in Conn, Started(f)
        PROVE  PoolType'
    BY <1>0, <1>6, <1>7 DEF Started, poolVars
  <1>8. ASSUME NEW f \in Conn, ReadWait(f)
        PROVE  PoolType'
    BY <1>0, <1>8 DEF ReadWait, Coroutine
  <1>9. ASSUME NEW f \in Conn, NEW pieces, Got(f, pieces)
        PROVE  PoolType'
    <2>1. f \in open
      BY <1>9 DEF Got, Go, ReadInv
    <2> QED
      BY <1>0, <1>9, <2>1 DEF Got
  <1>10. ASSUME NEW c \in Coroutine, Shut(c)
         PROVE  PoolType'
    <2>1. PICK f \in Conn : Target(c) = f
      BY <1>0, <1>10 DEF Coroutine, Target, Shut, ShutNow, ShutWait,
                         ShutResumes, Go, Resume
    <2>2. CASE ShutNow(c) \/ ShutResumes(c)
      BY <1>6, <2>1, <2>2 DEF ShutNow, ShutResumes
    <2>3. CASE ShutWait(c)
      BY <1>0, <2>1, <2>3 DEF ShutWait
    <2> QED
      BY <1>10, <2>2, <2>3 DEF Shut
  <1>11. ASSUME NEW f \in Conn, 
                \/ Serve(f) \/ Lost(f) \/ ExitNext(f) \/ Loop(f) \/ ReadNow(f)
                \/ ReadResumes(f) \/ Leave(f) \/ Finish(f)
         PROVE  UNCHANGED poolVars
    BY <1>11 DEF Serve, ServeStart, ServeClose, Lost, ExitNext, Loop, ReadNow,
                 ReadResumes, Leave, Finish
  <1>12. ASSUME \/ StampMessage \/ QuitMessage \/ ExitClosed \/ ExitDone
                \/ CheckMessage \/ ExitMessage
         PROVE  UNCHANGED poolVars
    BY <1>12 DEF StampMessage, QuitMessage, ExitClosed, ExitDone,
                 CheckMessage, ExitMessage
  <1>13. UNCHANGED poolVars => PoolType'
    BY <1>0 DEF poolVars
  <1>14. CASE UNCHANGED vars
    BY <1>13, <1>14 DEF vars
  <1>15. ASSUME NEW f \in Conn, Accept(f)
         PROVE  PoolType'
    BY <1>7, <1>8, <1>9, <1>11, <1>13, <1>15
    DEF Accept, GotAnswered, GotHead, GotLast, GotPing, GotBinary
  <1> QED
    BY <1>1, <1>3, <1>4, <1>5, <1>10, <1>11, <1>12, <1>13, <1>14, <1>15
    DEF Next, Service, Outside, Exited, Ended

BufferType == buffer \in [Conn -> Seq(Piece)]

LEMMA BufferTypeStep ==
  ASSUME BoundAssumption, TypeOK, ReadInv, [Next]_vars
  PROVE  BufferType'
  <1> USE DEF BufferType
  <1>0. BufferType /\ sent \in [Conn -> 0 .. 2 * MaxFrame + 1]
    BY DEF TypeOK, ServerType
  <1>1. ASSUME NEW f \in Conn, DataMessage(f)
        PROVE  BufferType'
    <2>1. PICK data \in Input(sent[f]) : buffer' = Pushed(f, data)
      BY <1>1 DEF DataMessage
    <2>2. data \in Seq(Piece)
      BY <1>0, InputType, BoundAssumption
    <2> QED
      BY <1>0, <2>1, <2>2 DEF Pushed
  <1>2. ASSUME NEW f \in Conn, NEW pieces, Got(f, pieces)
        PROVE  BufferType'
    <2>1. buffer[f] # <<>>
      BY <1>2 DEF Got, Go, ReadInv
    <2>2. Tail(buffer[f]) \in Seq(Piece)
      BY <1>0, <2>1
    <2> QED
      BY <1>0, <1>2, <2>2 DEF Got
  <1>3. ASSUME NEW f, Forget(f)
        PROVE  BufferType'
    <2>1. <<>> \in Seq(Piece)
      OBVIOUS
    <2> QED
      BY <1>0, <1>3, <2>1 DEF Forget
  <1>4. ASSUME NEW c \in Coroutine, Shut(c)
        PROVE  BufferType'
    BY <1>0, <1>3, <1>4 DEF Shut, ShutNow, ShutWait, ShutResumes
  <1>5. ASSUME NEW f \in Conn, Accept(f)
        PROVE  BufferType'
    BY <1>0, <1>2, <1>3, <1>5
    DEF Accept, Started, Loop, ReadWait, ReadNow, ReadResumes, GotAnswered,
        GotHead, GotLast, GotPing, GotBinary, Leave, Finish, poolVars
  <1>6. ASSUME NEW f \in Conn,
               \/ Serve(f) \/ AcceptMessage(f) \/ OpenMessage(f) \/ Ended(f)
               \/ Lost(f) \/ ExitNext(f)
        PROVE  UNCHANGED buffer
    BY <1>6 DEF Serve, ServeStart, ServeClose, AcceptMessage, OpenMessage,
                Ended, HangUp, ToldClosed, Fails, ToldFailed,
                ErrorMessage, CloseMessage, Lost, ExitNext,
                poolVars
  <1>7. ASSUME \/ StampMessage \/ QuitMessage \/ ExitClosed \/ ExitDone
               \/ CheckMessage \/ ExitMessage \/ UNCHANGED vars
        PROVE  UNCHANGED buffer
    BY <1>7 DEF StampMessage, QuitMessage, ExitClosed, ExitDone,
                CheckMessage, ExitMessage, poolVars, vars
  <1> QED
    BY <1>0, <1>1, <1>4, <1>5, <1>6, <1>7
    DEF Next, Service, Outside, Exited, Ended

LEMMA TableTypeStep ==
  ASSUME TypeOK, [Next]_vars
  PROVE  TableType'
  <1> USE DEF TableType
  <1>0. TableType /\ mail \in Seq(Note)
    BY DEF TypeOK
  <1>1. ASSUME NEW f \in Conn, Accept(f) \/ ExitNext(f)
        PROVE  TableType'
    BY <1>0, <1>1
    DEF Accept, Started, Loop, ReadWait, ReadNow, ReadResumes, GotAnswered,
        GotHead, GotLast, GotPing, GotBinary, Got, Leave, Finish, HandleClose,
        ExitNext, tableVars
  <1>2. CASE StampMessage
    <2>1. ASSUME Take("seen")
          PROVE  Head(mail).f \in Conn
      <3>1. Head(mail) \in Note /\ Head(mail).t = "seen"
        BY <1>0, <2>1 DEF Take
      <3> QED
        BY <3>1 DEF Note
    <2> QED
      BY <1>0, <1>2, <2>1 DEF StampMessage
  <1>3. CASE CheckMessage \/ ExitMessage
    BY <1>0, <1>3 DEF CheckMessage, ExitMessage
  <1>4. ASSUME NEW f \in Conn,
               \/ Serve(f) \/ AcceptMessage(f) \/ OpenMessage(f) \/ Ended(f)
               \/ Lost(f) \/ DataMessage(f)
        PROVE  UNCHANGED tableVars
    BY <1>4 DEF Serve, ServeStart, ServeClose, AcceptMessage, OpenMessage,
                Ended, HangUp, ToldClosed, Fails, ToldFailed,
                ErrorMessage, CloseMessage, Lost, DataMessage
  <1>5. ASSUME NEW c \in Coroutine, Shut(c)
        PROVE  UNCHANGED tableVars
    BY <1>5 DEF Shut, ShutNow, ShutWait, ShutResumes
  <1>6. ASSUME QuitMessage \/ ExitClosed \/ ExitDone \/ UNCHANGED vars
        PROVE  UNCHANGED tableVars
    BY <1>6 DEF QuitMessage, ExitClosed, ExitDone, vars
  <1>7. UNCHANGED tableVars => TableType'
    BY <1>0 DEF tableVars
  <1> QED
    BY <1>1, <1>2, <1>3, <1>4, <1>5, <1>6, <1>7
    DEF Next, Service, Outside, Exited, Ended

(* A coroutine goes to a step; how resolve_accept ended is written.        *)
LEMMA CoTypeStep ==
  ASSUME TypeOK, [Next]_vars
  PROVE  CoType'
  <1> USE DEF CoType
  <1>0. CoType
    BY DEF TypeOK
  <1>1. ASSUME NEW f \in Conn, NEW how \in {"ok", "socket error", "error"}
        PROVE  [outcome EXCEPT ![f].how = how] \in [Conn -> Outcome]
    <2>1. [outcome[f] EXCEPT !.how = how] \in Outcome
      BY <1>0, <1>1 DEF Outcome
    <2> QED
      BY <1>0, <2>1
  <1>2. ASSUME NEW f \in Conn, NEW b \in BOOLEAN
        PROVE  [outcome EXCEPT ![f].closed = b] \in [Conn -> Outcome]
    <2>1. [outcome[f] EXCEPT !.closed = b] \in Outcome
      BY <1>0, <1>2 DEF Outcome
    <2> QED
      BY <1>0, <2>1
  <1>3. Fine \in Outcome
    BY DEF Fine, Outcome
  <1>4. ASSUME NEW c, NEW s \in Step, GoTo(c, s)
        PROVE  pc' \in [Coroutine -> Step]
    BY <1>0, <1>4 DEF GoTo
  <1>5. {"start", "loop", "read", "got", "leave", "shut", "post", "next",
         "over"} \subseteq Step
    BY DEF Step
  <1>6. ASSUME NEW f \in Conn, NEW how \in {"ok", "socket error", "error"},
               Ends(f, how)
        PROVE  outcome' \in [Conn -> Outcome] /\ pc' \in [Coroutine -> Step]
    BY <1>1, <1>4, <1>5, <1>6 DEF Ends
  <1>7. ASSUME NEW f \in Conn, Accept(f)
        PROVE  /\ outcome' \in [Conn -> Outcome]
               /\ pc' \in [Coroutine -> Step]
    <2>1. CASE Leave(f)
      BY <1>2, <1>4, <1>5, <2>1 DEF Leave
    <2>2. CASE Finish(f)
      BY <1>0, <1>3, <1>4, <1>5, <2>2 DEF Finish
    <2>3. CASE Started(f) \/ Loop(f) \/ ReadWait(f) \/ ReadNow(f)
      BY <1>0, <1>4, <1>5, <1>6, <2>3 DEF Started, Loop, ReadWait, ReadNow
    <2>4. CASE ReadResumes(f)
      BY <1>0, <1>4, <1>5, <1>6, <2>4 DEF ReadResumes
    <2>5. CASE \/ GotAnswered(f) \/ GotHead(f) \/ GotLast(f) \/ GotPing(f)
               \/ GotBinary(f)
      BY <1>0, <1>4, <1>5, <1>6, <2>5
      DEF GotAnswered, GotHead, GotLast, GotPing, GotBinary
    <2> QED
      BY <1>7, <2>1, <2>2, <2>3, <2>4, <2>5 DEF Accept
  <1>8. ASSUME NEW f \in Conn, Accept(f)
        PROVE  run' \in {run, f, NoOne} /\ UNCHANGED exitVars
    BY <1>8
    DEF Accept, Started, Loop, ReadWait, ReadNow, ReadResumes, GotAnswered,
        GotHead, GotLast, GotPing, GotBinary, Got, Leave, Finish, Resume
  <1>9. ASSUME NEW f \in Conn, Accept(f)
        PROVE  CoType'
    BY <1>0, <1>7, <1>8, <1>9 DEF Coroutine, exitVars
  <1>10. ASSUME NEW c \in Coroutine, Shut(c)
         PROVE  CoType'
    BY <1>0, <1>4, <1>5, <1>10
    DEF Shut, ShutNow, ShutWait, ShutResumes, Resume, exitVars
  <1>11. ASSUME NEW f \in Conn, ExitNext(f)
         PROVE  CoType'
    BY <1>0, <1>4, <1>5, <1>11 DEF ExitNext
  <1>12. CASE ExitClosed \/ ExitDone \/ ExitMessage \/ QuitMessage
    BY <1>0, <1>4, <1>5, <1>12
    DEF ExitClosed, ExitDone, ExitMessage, QuitMessage, Coroutine, exitVars
  <1>13. ASSUME NEW f \in Conn, AcceptMessage(f)
         PROVE  CoType'
    BY <1>0, <1>5, <1>13 DEF AcceptMessage, exitVars
  <1>14. ASSUME NEW f \in Conn,
                \/ Serve(f) \/ OpenMessage(f) \/ Ended(f)
                \/ Lost(f) \/ DataMessage(f)
         PROVE  UNCHANGED <<run, pc, outcome, exitVars>>
    BY <1>14 DEF Serve, ServeStart, ServeClose, OpenMessage, Ended,
                 HangUp, ToldClosed, Fails, ToldFailed, ErrorMessage,
                 CloseMessage, Lost, DataMessage, coVars
  <1>15. ASSUME StampMessage \/ CheckMessage \/ UNCHANGED vars
         PROVE  UNCHANGED <<run, pc, outcome, exitVars>>
    BY <1>15 DEF StampMessage, CheckMessage, coVars, vars
  <1>16. UNCHANGED <<run, pc, outcome, exitVars>> => CoType'
    BY <1>0 DEF exitVars
  <1> QED
    BY <1>9, <1>10, <1>11, <1>12, <1>13, <1>14, <1>15, <1>16
    DEF Next, Service, Outside, Exited, Ended

LEMMA MailTypeStep ==
  ASSUME TypeOK, [Next]_vars
  PROVE  mail' \in Seq(Note)
  <1>0. mail \in Seq(Note)
    BY DEF TypeOK
  <1>1. /\ \A f \in Conn : About("seen", f) \in Note
        /\ \A f \in Conn : About("forget", f) \in Note
        /\ [t |-> "quit"] \in Note
    BY DEF About, Note
  <1>2. ASSUME NEW m \in Note, Put(m)
        PROVE  mail' \in Seq(Note)
    BY <1>0, <1>2 DEF Put
  <1>3. ASSUME NEW t, Take(t)
        PROVE  mail' \in Seq(Note)
    BY <1>0, <1>3 DEF Take
  <1>4. ASSUME NEW f \in Conn, Accept(f)
        PROVE  mail' \in Seq(Note)
    <2>1. CASE Finish(f)
      <3>1. <<About("forget", f), About("seen", f)>> \in Seq(Note)
        BY <1>1
      <3>2. mail \o <<About("forget", f), About("seen", f)>> \in Seq(Note)
        BY <1>0, <3>1
      <3>3. FinishOf(f)
        BY <2>1, FinishEffect
      <3>4. Append(mail, About("seen", f)) \in Seq(Note)
        BY <1>0, <1>1
      <3> QED
        BY <1>0, <3>2, <3>3, <3>4 DEF FinishOf
    <2>2. CASE Loop(f) \/ GotLast(f) \/ GotPing(f)
      BY <1>0, <1>1, <1>2, <2>2 DEF Loop, GotLast, GotPing
    <2> QED
      BY <1>0, <1>4, <2>1, <2>2
      DEF Accept, Started, ReadWait, ReadNow, ReadResumes, GotAnswered,
          GotHead, GotBinary, Leave
  <1>5. CASE StampMessage \/ QuitMessage \/ ExitDone
    BY <1>1, <1>2, <1>3, <1>5 DEF StampMessage, QuitMessage, ExitDone
  <1>6. ASSUME NEW f \in Conn,
               \/ Serve(f) \/ AcceptMessage(f) \/ OpenMessage(f) \/ Ended(f)
               \/ Lost(f) \/ DataMessage(f)
               \/ ExitNext(f)
        PROVE  mail' = mail
    BY <1>6 DEF Serve, ServeStart, ServeClose, AcceptMessage, OpenMessage,
                Ended, HangUp, ToldClosed, Fails, ToldFailed,
                ErrorMessage, CloseMessage, Lost, DataMessage,
                ExitNext
  <1>7. ASSUME NEW c \in Coroutine, Shut(c)
        PROVE  mail' = mail
    BY <1>7 DEF Shut, ShutNow, ShutWait, ShutResumes
  <1>8. ASSUME CheckMessage \/ ExitMessage \/ ExitClosed \/ UNCHANGED vars
        PROVE  mail' = mail
    BY <1>8 DEF CheckMessage, ExitMessage, ExitClosed, vars
  <1> QED
    BY <1>0, <1>4, <1>5, <1>6, <1>7, <1>8
    DEF Next, Service, Outside, Exited, Ended

LEMMA ClosesTypeStep ==
  ASSUME TypeOK, [Next]_vars
  PROVE  closes' \in [Conn -> Nat]
  <1>0. closes \in [Conn -> Nat]
    BY DEF TypeOK
  <1>1. ASSUME NEW f \in Conn, HandleClose(f)
        PROVE  closes' \in [Conn -> Nat]
    BY <1>0, <1>1 DEF HandleClose
  <1>2. ASSUME NEW f \in Conn, Accept(f)
        PROVE  closes' = closes \/ HandleClose(f)
    <2>1. CASE Finish(f)
      BY <2>1 DEF Finish
    <2>2. CASE Loop(f) \/ GotLast(f)
      BY <2>2 DEF Loop, GotLast
    <2> QED
      BY <1>2, <2>1, <2>2
      DEF Accept, Started, ReadWait, ReadNow, ReadResumes, GotAnswered,
          GotHead, GotPing, GotBinary, Leave, historyVars
  <1>3. ASSUME NEW f \in Conn,
               \/ Serve(f) \/ AcceptMessage(f) \/ OpenMessage(f) \/ Ended(f)
               \/ Lost(f) \/ DataMessage(f)
               \/ ExitNext(f)
        PROVE  closes' = closes
    BY <1>3 DEF Serve, ServeStart, ServeClose, AcceptMessage, OpenMessage,
                Ended, HangUp, ToldClosed, Fails, ToldFailed,
                ErrorMessage, CloseMessage, Lost, DataMessage,
                ExitNext, historyVars
  <1>4. ASSUME NEW c \in Coroutine, Shut(c)
        PROVE  closes' = closes
    BY <1>4 DEF Shut, ShutNow, ShutWait, ShutResumes, historyVars
  <1>5. ASSUME \/ StampMessage \/ QuitMessage \/ ExitClosed \/ ExitDone
               \/ CheckMessage \/ ExitMessage \/ UNCHANGED vars
        PROVE  closes' = closes
    BY <1>5 DEF StampMessage, QuitMessage, ExitClosed, ExitDone,
                CheckMessage, ExitMessage, historyVars, vars
  <1> QED
    BY <1>0, <1>1, <1>2, <1>3, <1>4, <1>5
    DEF Next, Service, Outside, Exited, Ended

LEMMA RefusedTypeStep ==
  ASSUME TypeOK, Moves
  PROVE  refused' \subseteq Conn
  <1>0. refused \subseteq Conn
    BY DEF TypeOK
  <1>1. ASSUME NEW f \in Conn, SocketStep(f)
        PROVE  refused' \subseteq refused \cup {f}
    BY <1>1
    DEF SocketStep, ServeStart, ServeClose, Lost, AcceptMessage, OpenOf, EndOf,
        DataOf, StartOf, RunOf, ReadWait, ReadOf, FinishOf, ShutOf, WaitOf,
        ExitNext, ExitWaitOf, ExitShutOf,
        historyVars
  <1>2. ASSUME OtherStep \/ UNCHANGED vars
        PROVE  UNCHANGED refused
    BY <1>2 DEF OtherStep, StampOf, CheckMessage, ExitMessage, QuitMessage,
                ExitClosed, ExitDone, historyVars, vars
  <1> QED
    BY <1>0, <1>1, <1>2 DEF Moves

-----------------------------------------------------------------------------
LEMMA InitInv ==
  ASSUME NameAssumption, BoundAssumption, Init
  PROVE  GInv
  <1>1. ServerType /\ PoolType /\ TableType
    <2>1. 0 \in 0 .. 2 * MaxFrame + 1
      BY BoundAssumption
    <2>2. ServerType
      BY <2>1 DEF Init, ServerType, Link, Report
    <2>3. PoolType
      BY DEF Init, PoolType
    <2>4. TableType
      BY DEF Init, TableType
    <2> QED
      BY <2>2, <2>3, <2>4
  <1>2. CoType
    <2>1. Fine \in Outcome
      BY DEF Fine, Outcome
    <2> QED
      BY <2>1 DEF Init, CoType, Step
  <1>3. TypeOK
    <2>1. <<>> \in Seq(Note) /\ <<>> \in Seq(Piece) /\ <<>> \in Seq(Coroutine)
      OBVIOUS
    <2> QED
      BY <1>1, <1>2, <2>1 DEF Init, TypeOK
  <1>4. RunInv /\ WakeInv /\ ReadInv /\ StartInv /\ ShutInv
    BY NameAssumption
    DEF Init, RunInv, WakeInv, ReadInv, StartInv, ShutInv, Woken, Fresh,
        Starting, Coroutine
  <1>5. TableInv
    BY DEF Init, TableInv, Stamping
  <1>6. CloseInv /\ SocketAsserts /\ ClosedOnce /\ ExitClosesAll
        /\ StampedIsClosed
    BY NameAssumption
    DEF Init, CloseInv, SocketAsserts, ClosedOnce, ExitClosesAll,
        StampedIsClosed, Coroutine
  <1> QED
    BY <1>3, <1>4, <1>5, <1>6 DEF GInv

LEMMA StepInv ==
  ASSUME NameAssumption, BoundAssumption, GInv, [Next]_vars
  PROVE  GInv'
  <1>1. /\ TypeOK /\ RunInv /\ WakeInv /\ ReadInv /\ StartInv /\ ShutInv
        /\ TableInv /\ CloseInv /\ SocketAsserts /\ ClosedOnce
        /\ ExitClosesAll /\ StampedIsClosed
    BY DEF GInv
  <1>2. ServerType /\ PoolType /\ TableType /\ CoType
    BY <1>1 DEF TypeOK
  <1>3. Moves
    BY <1>1, NameAssumption, MovesCover
  <1>4. /\ RunInv' /\ WakeInv' /\ ReadInv' /\ StartInv' /\ ShutInv'
        /\ TableInv' /\ CloseInv'
    BY <1>1, <1>2, <1>3, NameAssumption, RunStep, WakeStep, ReadStep,
       StartStep, ShutStep, TableStep, CloseStep
  <1>5. SocketAsserts' /\ ClosedOnce' /\ ExitClosesAll' /\ StampedIsClosed'
    BY <1>1, <1>2, <1>3, NameAssumption, AssertsStep, OnceStep,
       ExitClosesStep, StampedStep
  <1>6. TypeOK'
    <2>1. ServerType' /\ PoolType' /\ TableType' /\ CoType'
      BY <1>1, NameAssumption, BoundAssumption, ServerTypeStep, PoolTypeStep,
         TableTypeStep, CoTypeStep
    <2>2. /\ mail' \in Seq(Note) /\ closes' \in [Conn -> Nat]
          /\ BufferType'
      BY <1>1, BoundAssumption, MailTypeStep, ClosesTypeStep, BufferTypeStep
    <2>3. woken' \in Seq(Coroutine)
      <3>1. woken' = <<>> \/ \E c \in Coroutine : woken' = <<c>>
        BY <1>4 DEF RunInv, Woken
      <3>2. \A c \in Coroutine : <<c>> \in Seq(Coroutine)
        OBVIOUS
      <3>3. <<>> \in Seq(Coroutine)
        OBVIOUS
      <3> QED
        BY <3>1, <3>2, <3>3
    <2>4. refused' \subseteq Conn /\ failed' \subseteq Coroutine
      BY <1>1, <1>3, <1>5, RefusedTypeStep DEF SocketAsserts, Coroutine
    <2> QED
      BY <2>1, <2>2, <2>3, <2>4 DEF TypeOK, BufferType
  <1> QED
    BY <1>4, <1>5, <1>6 DEF GInv

(* GInv is an invariant of the gateway.                                    *)
THEOREM GatewayInvariance == Spec => []GInv
  <1>1. Init => GInv
    BY InitInv, NameAssumption, BoundAssumption
  <1>2. GInv /\ [Next]_vars => GInv'
    BY StepInv, NameAssumption, BoundAssumption
  <1> QED
    BY <1>1, <1>2, PTL DEF Spec

(* The variables keep their types: no coroutine is lost to the service,    *)
(* and what is not in socket_pool has neither data nor reader.             *)
THEOREM GatewayTypes == Spec => []TypeOK
  <1>1. GInv => TypeOK
    BY DEF GInv
  <1> QED
    BY <1>1, GatewayInvariance, PTL

(* The asserts of socket.lua do not fail, however the coroutines of accept *)
(* and exitfunc meet at a socket, but in a connection whose socket.start   *)
(* returned nil.                                                           *)
THEOREM AssertsHold == Spec => []SocketAsserts
  <1>1. GInv => SocketAsserts
    BY DEF GInv
  <1> QED
    BY <1>1, GatewayInvariance, PTL

(* handle.close is called at most once for each connection.                *)
THEOREM HandleClosedOnce == Spec => []ClosedOnce
  <1>1. GInv => ClosedOnce
    BY DEF GInv
  <1> QED
    BY <1>1, GatewayInvariance, PTL

(* exitfunc leaves no connection of client_conns open.                     *)
THEOREM ExitLeavesNoneOpen == Spec => []ExitClosesAll
  <1>1. GInv => ExitClosesAll
    BY DEF GInv
  <1> QED
    BY <1>1, GatewayInvariance, PTL

(* Until it exits, the gateway knows every open web socket.                *)
THEOREM NoneOpenUnknown == Spec => []OpenIsKnown
  <1>1. GInv => OpenIsKnown
    BY NameAssumption
    DEF GInv, TypeOK, TableType, TableInv, OpenIsKnown
  <1> QED
    BY <1>1, GatewayInvariance, PTL

(* The heartbeat check closes no connection: what has a stamp is closed.   *)
THEOREM HeartbeatClosesNone == Spec => []StampedIsClosed
  <1>1. GInv => StampedIsClosed
    BY DEF GInv
  <1> QED
    BY <1>1, GatewayInvariance, PTL
=============================================================================
