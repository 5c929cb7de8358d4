------------------------------ MODULE Sessions ------------------------------
(***************************************************************************)
(* The sessions and coroutines of Lua services: lualib/skynet.lua, over    *)
(* mailboxes that deliver in order (Kernel.tla shows how).                 *)
(*                                                                         *)
(* A service runs one coroutine at a time, until it yields, ends, raises   *)
(* an error or exits the service.  What follows is up to suspend and       *)
(* dispatch_message: woken coroutines first, then those whose call failed, *)
(* then those forked, then the next message.  What a coroutine does is     *)
(* arbitrary: it may call, sleep, wake another, fork, answer its request   *)
(* at once or leave that to others, raise an error, exit.                  *)
(*                                                                         *)
(* Of a coroutine only the request it serves matters, so that stands for   *)
(* it in all tables.  A call is known by its session; that services number *)
(* their sessions each for itself makes no difference, as an answer goes   *)
(* to the service that asked.  Left out: wait, select, killthread,         *)
(* tracing, messages too large to send, and sessions that wrap; and of a   *)
(* service one coroutine sleeps at a time.                                 *)
(*                                                                         *)
(* A service is called by its handle or by its name (".launcher",          *)
(* ".gateway1"), which goes with its handle when it exits.                 *)
(***************************************************************************)
EXTENDS Integers, FiniteSets, SequencesExt

CONSTANTS
  Service,
  Named,       \* the services that have a name
  Timer,       \* what sessions of sleep are asked of
  First,       \* those whose first coroutine is still to run
  Batch,       \* workers may take several messages a turn (weight >= 0)
  MaxSession,  \* bound: calls and sleeps
  MaxFork,     \* bound: coroutines forked by coroutines
  MaxWake      \* bound: tokens in a wakeup_queue

ASSUME ServiceAssumption ==
  Timer \notin Service /\ First \subseteq Service /\ Named \subseteq Service
ASSUME BoundAssumption ==
  /\ Batch \in BOOLEAN
  /\ MaxSession \in Nat /\ MaxFork \in Nat /\ MaxWake \in Nat

VARIABLES
  calls,      \* for each session: who asked, and whom
  up,         \* the services that have not exited
  mbox,       \* the mailbox of each service
  left,       \* messages left in the turn of the worker that serves it
  phase,      \* what the service is doing
  run,        \* the coroutine that runs
  forkq,      \* fork_queue
  wait,       \* session_id_coroutine
  watching,   \* watching_session
  named,      \* the sessions that watching_session has with a name
  unresponse, \* requests whose answer was left to others
  errorq,     \* error_queue
  token,      \* sleep_session: the sleep that can be woken, 0 for none
  wakeq,      \* the length of wakeup_queue
  timers,     \* sleeps whose time is not over
  forks,      \* coroutines forked so far
  stranded    \* history: calls by name not read when the service exited

vars == <<calls, up, mbox, left, phase, run, forkq, wait, watching, named,
          unresponse, errorq, token, wakeq, timers, forks, stranded>>

Session == 1..MaxSession
Free == 0         \* a coroutine that serves no request
Blank == -1       \* function() end
Break == -2       \* "BREAK" in place of a coroutine
NoCo == -3        \* nothing runs

Message == [kind : {"request", "response", "error", "notice"},
            session : 0..MaxSession, from : Service \cup {Timer}]

TablesType ==
  /\ calls \in Seq([by : Service, to : Service \cup {Timer}])
  /\ Len(calls) <= MaxSession
  /\ up \subseteq Service
  /\ mbox \in [Service -> Seq(Message)]
  /\ left \in [Service -> Nat]
  /\ phase \in [Service -> {"idle", "run", "chain", "forks"}]
  /\ run \in [Service -> Session \cup {Free, Blank, NoCo}]
  /\ forkq \in [Service -> Seq({Free, Blank})]
  /\ wait \in [Service -> UNION {[D -> Session \cup {Free, Break}] :
                                D \in SUBSET Session}]
  /\ watching \in [Service -> SUBSET Session]
  /\ unresponse \in [Service -> SUBSET Session]
  /\ errorq \in [Service -> Seq(Session)]
  /\ token \in [Service -> 0..MaxSession]
  /\ wakeq \in [Service -> 0..MaxWake]
  /\ timers \subseteq Session
  /\ forks \in 0..MaxFork

(* Every variable has its type.  A forked coroutine serves no request.     *)
TypeOK == TablesType /\ named \subseteq Session /\ stranded \subseteq Session

Init ==
  /\ calls = <<>> /\ up = Service /\ timers = {} /\ forks = 0
  /\ named = {} /\ stranded = {}
  /\ mbox = [s \in Service |-> <<>>]
  /\ left = [s \in Service |-> 0]
  /\ phase = [s \in Service |-> "forks"]
  /\ run = [s \in Service |-> NoCo]
  /\ forkq = [s \in Service |-> IF s \in First THEN <<Free>> ELSE <<>>]
  /\ wait = [s \in Service |-> <<>>]
  /\ watching = [s \in Service |-> {}]
  /\ unresponse = [s \in Service |-> {}]
  /\ errorq = [s \in Service |-> <<>>]
  /\ token = [s \in Service |-> 0]
  /\ wakeq = [s \in Service |-> 0]

-----------------------------------------------------------------------------
(* Helpers.                                                                *)

To(kind, n, from) == [kind |-> kind, session |-> n, from |-> from]

(* c.send: it fails, without effect, once the receiver has exited.         *)
Post(t, m) == mbox' = IF t \in up THEN [mbox EXCEPT ![t] = Append(@, m)]
                      ELSE mbox

Enter(s, ph) == phase' = [phase EXCEPT ![s] = ph]
Start(s, co) == Enter(s, "run") /\ run' = [run EXCEPT ![s] = co]
Leave(s, ph) == Enter(s, ph) /\ run' = [run EXCEPT ![s] = NoCo]
Drop(f, n) == [k \in DOMAIN f \ {n} |-> f[k]]
Set(f, n, v) == [k \in DOMAIN f \cup {n} |-> IF k = n THEN v ELSE f[k]]

-----------------------------------------------------------------------------
(* The next message: skynet_context_message_dispatch and                   *)
(* raw_dispatch_message.                                                   *)

(* After the first message a worker of weight w takes (length >> w) - 1    *)
(* more, length being what was queued when it had taken the first; d is    *)
(* 2^w.                                                                    *)
Turn(s) ==
  IF left[s] > 0 THEN {left[s] - 1}
  ELSE {0} \cup {Max({0, (Len(mbox[s]) - 1) \div d - 1}) :
                  d \in IF Batch THEN {1, 2, 4, 8} ELSE {}}

Take(s, kind) ==
  /\ s \in up /\ phase[s] = "idle"
  /\ mbox[s] # <<>> /\ Head(mbox[s]).kind = kind
  /\ \E n \in Turn(s) : left' = [left EXCEPT ![s] = n]
  /\ mbox' = [mbox EXCEPT ![s] = Tail(@)]
  /\ UNCHANGED <<calls, up, forkq, timers, forks, stranded>>

TakeRequest(s) ==
  /\ Take(s, "request")
  /\ Start(s, Head(mbox[s]).session)
  /\ UNCHANGED <<wait, watching, named, unresponse, errorq, token, wakeq>>

(* The coroutine is resumed with the answer, unless it was woken before.   *)
TakeResponse(s) ==
  LET n == Head(mbox[s]).session IN
  /\ Take(s, "response")
  /\ IF n \notin DOMAIN wait[s] \/ wait[s][n] = Break
     THEN Leave(s, "forks") /\ UNCHANGED <<watching, named, token>>
     ELSE /\ Start(s, wait[s][n])
          /\ watching' = [watching EXCEPT ![s] = @ \ {n}]
          /\ named' = named \ {n}
          /\ token' = [token EXCEPT ![s] = IF @ = n THEN 0 ELSE @]
  /\ wait' = [wait EXCEPT ![s] = Drop(@, n)]
  /\ UNCHANGED <<unresponse, errorq, wakeq>>

(* _error_dispatch for one session.                                        *)
TakeError(s) ==
  LET n == Head(mbox[s]).session IN
  /\ Take(s, "error")
  /\ errorq' = [errorq EXCEPT ![s] =
                  IF n \in watching[s] THEN Append(@, n) ELSE @]
  /\ Leave(s, "chain")
  /\ UNCHANGED <<wait, watching, named, unresponse, token, wakeq>>

(* _error_dispatch for all sessions with a service that is down, which it  *)
(* knows by its handle: what was called by a name is not found.            *)
TakeNotice(s) ==
  LET src == Head(mbox[s]).from
      lost == {n \in watching[s] \ named : calls[n].to = src} IN
  /\ Take(s, "notice")
  /\ unresponse' = [unresponse EXCEPT ![s] = {n \in @ : calls[n].by # src}]
  /\ \E q \in SetToSeqs(lost) : errorq' = [errorq EXCEPT ![s] = @ \o q]
  /\ Leave(s, "chain")
  /\ UNCHANGED <<wait, watching, named, token, wakeq>>

-----------------------------------------------------------------------------
(* The coroutines a dispatch leaves ready: dispatch_wakeup,                *)
(* dispatch_error_queue and the loop of dispatch_message.                  *)

Ready(s, ph) ==
  /\ s \in up /\ phase[s] = ph
  /\ UNCHANGED <<calls, up, mbox, left, timers, forks, stranded>>

(* The timer's answer to a sleeper that was woken will find "BREAK".  The  *)
(* mutant forgets the session.                                             *)
Forgotten(f, n) == Drop(f, n)
Woken(f, n) == Set(f, n, Break)

(* A token whose sleeper was woken already is passed over. *)
DispatchWakeup(s) ==
  /\ Ready(s, "chain") /\ wakeq[s] > 0
  /\ wakeq' = [wakeq EXCEPT ![s] = @ - 1]
  /\ IF token[s] = 0 THEN UNCHANGED <<phase, run, wait, token>>
     ELSE /\ Start(s, wait[s][token[s]])
          /\ wait' = [wait EXCEPT ![s] = Woken(@, token[s])]
          /\ token' = [token EXCEPT ![s] = 0]
  /\ UNCHANGED <<forkq, watching, named, unresponse, errorq>>

DispatchError(s) ==
  LET n == Head(errorq[s]) IN
  /\ Ready(s, "chain") /\ wakeq[s] = 0 /\ errorq[s] # <<>>
  /\ errorq' = [errorq EXCEPT ![s] = Tail(@)]
  /\ Start(s, IF n \in DOMAIN wait[s] THEN wait[s][n] ELSE Blank)
  /\ wait' = [wait EXCEPT ![s] = Drop(@, n)]
  /\ watching' = [watching EXCEPT ![s] = @ \ {n}]
  /\ named' = named \ {n}
  /\ UNCHANGED <<forkq, unresponse, token, wakeq>>

EndChain(s) ==
  /\ Ready(s, "chain") /\ wakeq[s] = 0 /\ errorq[s] = <<>>
  /\ Enter(s, "forks")
  /\ UNCHANGED <<run, forkq, wait, watching, named, unresponse, errorq, token,
                 wakeq>>

RunForked(s) ==
  /\ Ready(s, "forks")
  /\ IF forkq[s] = <<>> THEN Enter(s, "idle") /\ UNCHANGED <<run, forkq>>
     ELSE /\ Start(s, Head(forkq[s]))
          /\ forkq' = [forkq EXCEPT ![s] = Tail(@)]
  /\ UNCHANGED <<wait, watching, named, unresponse, errorq, token, wakeq>>

-----------------------------------------------------------------------------
(* What the running coroutine does.                                        *)

Runs(s) ==
  s \in up /\ phase[s] = "run" /\ UNCHANGED <<up, left, stranded>>
Acts(s) == Runs(s) /\ run[s] # Blank
Yield(s, n) ==
  /\ wait' = [wait EXCEPT ![s] = Set(@, n, run[s])]
  /\ Leave(s, "chain")

(* A call of a service that has exited, by handle or by name, raises an    *)
(* error (see Raise).  watching_session keeps the address as it was given. *)
CallService(s, t, byName) ==
  LET n == Len(calls) + 1 IN
  /\ Acts(s) /\ n <= MaxSession /\ t \in up
  /\ byName => t \in Named
  /\ named' = IF byName THEN named \cup {n} ELSE named
  /\ calls' = Append(calls, [by |-> s, to |-> t])
  /\ Post(t, To("request", n, s))
  /\ watching' = [watching EXCEPT ![s] = @ \cup {n}]
  /\ Yield(s, n)
  /\ UNCHANGED <<forkq, unresponse, errorq, token, wakeq, timers, forks>>

Sleep(s) ==
  LET n == Len(calls) + 1 IN
  /\ Acts(s) /\ n <= MaxSession /\ token[s] = 0
  /\ calls' = Append(calls, [by |-> s, to |-> Timer])
  /\ timers' = timers \cup {n}
  /\ token' = [token EXCEPT ![s] = n]
  /\ Yield(s, n)
  /\ UNCHANGED <<mbox, forkq, watching, named, unresponse, errorq, wakeq,
                 forks>>

Wakeup(s) ==
  /\ Acts(s) /\ token[s] # 0 /\ wakeq[s] < MaxWake
  /\ wakeq' = [wakeq EXCEPT ![s] = @ + 1]
  /\ UNCHANGED <<calls, mbox, phase, run, forkq, wait, watching, named,
                 unresponse, errorq, token, timers, forks>>

(* skynet.ret; skynet.response leaves the answer to another coroutine.     *)
Ret(s) ==
  /\ Acts(s) /\ run[s] \in Session
  /\ Post(calls[run[s]].by, To("response", run[s], s))
  /\ run' = [run EXCEPT ![s] = Free]
  /\ UNCHANGED <<calls, phase, forkq, wait, watching, named, unresponse,
                 errorq, token, wakeq, timers, forks>>

Response(s) ==
  /\ Acts(s) /\ run[s] \in Session
  /\ unresponse' = [unresponse EXCEPT ![s] = @ \cup {run[s]}]
  /\ run' = [run EXCEPT ![s] = Free]
  /\ UNCHANGED <<calls, mbox, phase, forkq, wait, watching, named, errorq,
                 token, wakeq, timers, forks>>

Answer(s, n, ok) ==
  /\ Acts(s) /\ n \in unresponse[s]
  /\ Post(calls[n].by, To(IF ok THEN "response" ELSE "error", n, s))
  /\ unresponse' = [unresponse EXCEPT ![s] = @ \ {n}]
  /\ UNCHANGED <<calls, phase, run, forkq, wait, watching, named, errorq,
                 token, wakeq, timers, forks>>

(* The mutant hands the request on to the new coroutine. *)
ForkedOf(co) == co
Forked(co) == Free

Fork(s) ==
  /\ Acts(s) /\ forks < MaxFork
  /\ forks' = forks + 1
  /\ forkq' = [forkq EXCEPT ![s] = Append(@, Forked(run[s]))]
  /\ UNCHANGED <<calls, mbox, phase, run, wait, watching, named, unresponse,
                 errorq, token, wakeq, timers>>

(* service.lua answers every request before its coroutine ends.            *)
End(s) ==
  /\ Runs(s) /\ run[s] \in {Free, Blank}
  /\ Leave(s, "chain")
  /\ UNCHANGED <<calls, mbox, forkq, wait, watching, named, unresponse, errorq,
                 token, wakeq, timers, forks>>

(* The mutant does not fork the empty coroutine. *)
NoTrigger(q) == q
Trigger(q) == Append(q, Blank)

(* An error that nothing catches: the caller is told, and as it cuts the   *)
(* chain of ready coroutines an empty one is forked to take it up again.   *)
Raise(s) ==
  /\ Acts(s)
  /\ IF run[s] \in Session
     THEN Post(calls[run[s]].by, To("error", run[s], s))
     ELSE UNCHANGED mbox
  /\ forkq' = [forkq EXCEPT ![s] = Trigger(@)]
  /\ Leave(s, "forks")
  /\ UNCHANGED <<calls, wait, watching, named, unresponse, errorq, token,
                 wakeq, timers, forks>>

(* The requests a service has not answered.  The mutant forgets those it   *)
(* has left to others.                                                     *)
Served(s) == ({run[s]} \cup {wait[s][n] : n \in DOMAIN wait[s]}) \cap Session
Owed(s) == Served(s) \cup unresponse[s]

Requests(q) ==
  {n \in Session : \E i \in DOMAIN q : q[i].kind = "request"
                                       /\ q[i].session = n}

(* skynet.exit: an error to whoever waits for this service, and a notice   *)
(* to each address it waits for, so two to a service called in both ways.  *)
Exit(s) ==
  LET owed(t) == {n \in Owed(s) : calls[n].by = t}
      errors(t) == LET q == SetToSeq(owed(t)) IN
                   [i \in DOMAIN q |-> To("error", q[i], s)]
      down == <<To("notice", 0, s)>>
      asked(t) == {n \in watching[s] : calls[n].to = t}
      notice(t) == (IF asked(t) \cap named = {} THEN <<>> ELSE down)
                   \o (IF asked(t) \subseteq named THEN <<>> ELSE down) IN
  /\ s \in up /\ phase[s] = "run" /\ run[s] # Blank
  /\ mbox' = [t \in Service |-> IF t \in up THEN mbox[t] \o errors(t)
                                               \o notice(t)
                                ELSE mbox[t]]
  /\ up' = up \ {s}
  /\ stranded' = stranded \cup (named \cap Requests(mbox[s]))
  /\ Leave(s, "idle")
  /\ forkq' = [forkq EXCEPT ![s] = <<>>]
  /\ wait' = [wait EXCEPT ![s] = <<>>]
  /\ watching' = [watching EXCEPT ![s] = {}]
  /\ named' = named \ watching[s]
  /\ unresponse' = [unresponse EXCEPT ![s] = {}]
  /\ errorq' = [errorq EXCEPT ![s] = <<>>]
  /\ token' = [token EXCEPT ![s] = 0] /\ wakeq' = [wakeq EXCEPT ![s] = 0]
  /\ UNCHANGED <<calls, left, timers, forks>>

-----------------------------------------------------------------------------
(* Around the services: the timer, and what becomes of the messages of one *)
(* that has exited.                                                        *)

Around == UNCHANGED <<calls, up, phase, run, forkq, wait, watching, named,
                      unresponse, errorq, token, wakeq, forks, stranded>>

TimeOut(n) ==
  /\ n \in timers
  /\ timers' = timers \ {n}
  /\ Post(calls[n].by, To("response", n, Timer))
  /\ UNCHANGED left /\ Around

(* The rest of the turn goes to the empty callback that exit has set; then *)
(* drop_message tells each sender that the service is down.                *)
Discard(s) ==
  LET m == Head(mbox[s]) IN
  /\ s \notin up /\ mbox[s] # <<>>
  /\ mbox' = [[mbox EXCEPT ![s] = Tail(@)] EXCEPT ![m.from] =
                IF left[s] = 0 /\ m.from \in up
                THEN Append(@, To("notice", 0, s)) ELSE @]
  /\ left' = [left EXCEPT ![s] = Max({0, @ - 1})]
  /\ UNCHANGED timers /\ Around

-----------------------------------------------------------------------------
Dispatch(s) ==
  \/ TakeRequest(s) \/ TakeResponse(s) \/ TakeError(s) \/ TakeNotice(s)
  \/ DispatchWakeup(s) \/ DispatchError(s) \/ EndChain(s) \/ RunForked(s)
  \/ Discard(s)

Program(s) ==
  \/ \E t \in Service, byName \in BOOLEAN : CallService(s, t, byName)
  \/ \E n \in Session, ok \in BOOLEAN : Answer(s, n, ok)
  \/ Sleep(s) \/ Wakeup(s) \/ Ret(s) \/ Response(s) \/ Fork(s)
  \/ End(s) \/ Raise(s) \/ Exit(s)

Next ==
  \/ \E s \in Service : Dispatch(s) \/ Program(s)
  \/ \E n \in Session : TimeOut(n)

Spec == Init /\ [][Next]_vars

(* Services are scheduled, and no coroutine runs for ever.                 *)
FairSpec ==
  Spec /\ \A s \in Service : WF_vars(Dispatch(s)) /\ WF_vars(Program(s))

-----------------------------------------------------------------------------
(* Properties.                                                             *)

(* No caller is forgotten: for every call a service waits for, the request *)
(* is on its way, or served, or kept to be answered; or the answer, an     *)
(* error or the notice that the other is down is on its way back.  Only a  *)
(* call by name is, if its service exits before it has read the request:   *)
(* the notice that comes then is not found to be its own.                  *)
CallAccounted ==
  \A s \in up : \A n \in watching[s] :
    LET t == calls[n].to
        sent(m) == m.kind # "notice" /\ m.session = n
        down(m) == m.kind = "notice" /\ m.from = t /\ n \notin named IN
    \/ \E i \in DOMAIN mbox[t] :
         IF t \in up THEN mbox[t][i].kind = "request" /\ sent(mbox[t][i])
         ELSE mbox[t][i].from = s /\ n \notin named
    \/ run[t] = n \/ n \in unresponse[t]
    \/ \E k \in DOMAIN wait[t] : wait[t][k] = n
    \/ \E i \in DOMAIN mbox[s] : mbox[s][i].kind # "request"
                                 /\ (sent(mbox[s][i]) \/ down(mbox[s][i]))
    \/ Contains(errorq[s], n)
    \/ n \in named \cap stranded

(* A coroutine that yields is resumed once: by its answer, by the failure  *)
(* of its call, or by a wakeup.  Who fails is still there, none fails      *)
(* twice, no response comes for a session nobody knows ("Unknown           *)
(* session"), and what can be woken sleeps.                                *)
ResumedOnce ==
  \A s \in up :
    LET answer(i) == mbox[s][i].kind = "response"
        known == DOMAIN wait[s] IN
    /\ watching[s] \subseteq {n \in known : wait[s][n] # Break}
    /\ ToSet(errorq[s]) \subseteq watching[s] /\ IsInjective(errorq[s])
    /\ \A i \in DOMAIN mbox[s] : answer(i) => mbox[s][i].session \in known
    /\ token[s] # 0 => token[s] \in known /\ wait[s][token[s]] # Break

(* The calls of services that have exited come back, but those made by     *)
(* name and not read.                                                      *)
Orphan(n) ==
  /\ n \in DOMAIN calls /\ calls[n].by \in up /\ calls[n].to \in Service \ up
  /\ n \in watching[calls[n].by] \ stranded
SomeOrphan == \E n \in Session : Orphan(n)
ExitIsNoticed == SomeOrphan ~> ~SomeOrphan
=============================================================================
