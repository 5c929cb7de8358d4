------------------------------- MODULE Kernel -------------------------------
(***************************************************************************)
(* The scheduler of the skynet runtime the game server runs on: the table  *)
(* of handles (skynet_handle.c), the reference-counted service contexts    *)
(* and their creation, dispatch and destruction (skynet_server.c), the     *)
(* per-service message queues and the global queue of queues               *)
(* (skynet_mq.c), and the worker and timer threads (skynet_start.c).       *)
(*                                                                         *)
(* One step is one section of code that runs under a lock (the rwlock of   *)
(* the handle table, the spinlock of a message queue with the global queue *)
(* nested in it, the spinlock of the global queue) or one atomic           *)
(* decrement of a reference count; the threads interleave between steps.   *)
(*                                                                         *)
(* Abstractions.  A handle is the service it was issued to and is issued   *)
(* once.  A message is the index i of its entry in log, and -i is the      *)
(* PTYPE_ERROR the kernel sends back when request i is dropped.  Log and   *)
(* profile output, the overload warning, the endless-loop monitor and the  *)
(* services written in C without a callback are left out.                  *)
(***************************************************************************)
EXTENDS Integers, Sequences, FiniteSets

CONSTANTS
  Worker,    \* the worker threads
  Poster,    \* the threads that only post messages: socket and timer
  Service,   \* the services that may ever be launched
  Boot,      \* <<logger, bootstrap>>: launched before the threads start
  NoOne,     \* no service
  Weight,    \* the weight of each worker, from the table in start()
  Killable,  \* the services that callbacks ask to kill
  MaxMsg,    \* bound: requests ever sent
  MaxAbort   \* bound: calls of the ABORT command

ASSUME ThreadAssumption ==
  /\ Worker \cap Poster = {}
  /\ IsFiniteSet(Worker) /\ IsFiniteSet(Poster)
ASSUME ServiceAssumption ==
  /\ NoOne \notin Service
  /\ Killable \subseteq Service
  /\ Boot \in Seq(Service) /\ Len(Boot) = 2 /\ Boot[1] # Boot[2]
ASSUME WeightAssumption == Weight \in [Worker -> -1..3]
ASSUME BoundAssumption == MaxMsg \in Nat \ {0} /\ MaxAbort \in Nat

VARIABLES
  (* The handle table and the contexts. *)
  slot,      \* services in the handle table
  ref,       \* reference count of each context
  cmem,      \* "none", "live" or "freed": memory of each context
  ready,     \* contexts whose init flag is set
  (* The message queues. *)
  queue,     \* messages of each queue
  qmem,      \* "none", "live" or "freed": memory of each queue
  inGlobal,  \* queues whose in_global flag is 1
  release,   \* queues whose release flag is 1
  gq,        \* the global queue: queues waiting for a worker
  (* thread_worker and skynet_context_message_dispatch. *)
  pc,        \* where each worker is
  wq,        \* q, the queue the worker has in hand
  nq,        \* nq, the next queue while q goes back to the global queue
  ctx,       \* ctx, the context the worker has grabbed
  left,      \* messages left in this turn, -1 before the first
  cur,       \* the message being dispatched, 0 for none
  (* Work in progress inside a call made by a thread. *)
  to,        \* context grabbed by skynet_context_push
  msg,       \* message it is about to push
  rel,       \* context about to be passed to skynet_context_release
  del,       \* context whose last reference went: delete_context is due
  job,       \* step of skynet_context_new or skynet_handle_retireall
  new,       \* service that skynet_context_new is creating
  seen,      \* slots visited in this pass of skynet_handle_retireall
  hit,       \* n # 0 in this pass
  (* The node. *)
  quit,      \* m->quit
  aborts,    \* calls of ABORT so far
  log        \* history: every request with its source, target and fate

tableVars == <<slot, ref, cmem, ready>>
queueVars == <<queue, qmem, inGlobal, release, gq>>
turnVars  == <<pc, wq, nq, ctx, left, cur>>
callVars  == <<to, msg, rel, del>>
jobVars   == <<job, new, seen, hit>>
nodeVars  == <<quit, aborts>>
vars == <<tableVars, queueVars, turnVars, callVars, jobVars, nodeVars, log>>

Thread == Worker \cup Poster
Memory == {"none", "live", "freed"}
Step == {"loop", "grab", "mqrel", "drop", "next", "pop", "len", "exec",
         "turn", "putback", "sleep", "asleep", "exit"}
Job == {"none", "init", "flag", "gpush", "quiet", "log", "retire", "mqrel",
        "drop", "scan"}
Fate == {"sending", "queued", "running", "done", "dropped", "reported",
         "told", "lost"}
Request == [src : Service \cup {NoOne}, dst : Service, fate : Fate]

TableType ==
  /\ slot \subseteq Service
  /\ ref \in [Service -> Int]
  /\ cmem \in [Service -> Memory]
  /\ ready \subseteq Service

QueueType ==
  /\ queue \in [Service -> Seq(Int)]
  /\ qmem \in [Service -> Memory]
  /\ inGlobal \subseteq Service
  /\ release \subseteq Service
  /\ gq \in Seq(Service)

TurnType ==
  /\ pc \in [Worker -> Step]
  /\ wq \in [Worker -> Service \cup {NoOne}]
  /\ nq \in [Worker -> Service \cup {NoOne}]
  /\ ctx \in [Worker -> Service \cup {NoOne}]
  /\ left \in [Worker -> Int]
  /\ cur \in [Worker -> Int]

CallType ==
  /\ to \in [Thread -> Service \cup {NoOne}]
  /\ msg \in [Thread -> Int]
  /\ rel \in [Thread -> Service \cup {NoOne}]
  /\ del \in [Thread -> Service \cup {NoOne}]

JobType ==
  /\ job \in [Worker -> Job]
  /\ new \in [Worker -> Service \cup {NoOne}]
  /\ seen \in [Worker -> SUBSET Service]
  /\ hit \in [Worker -> BOOLEAN]

TypeOK ==
  /\ TableType /\ QueueType /\ TurnType /\ CallType /\ JobType
  /\ quit \in BOOLEAN
  /\ aborts \in Nat
  /\ log \in Seq(Request)

Booted == {Boot[1], Boot[2]}

(* skynet_start: the logger and the bootstrap service are up, the          *)
(* bootstrap service has the message its own init sent to it, and the      *)
(* threads have just been created.                                         *)
Init ==
  /\ slot = Booted
  /\ ref = [s \in Service |-> IF s \in Booted THEN 1 ELSE 0]
  /\ cmem = [s \in Service |-> IF s \in Booted THEN "live" ELSE "none"]
  /\ ready = Booted
  /\ queue = [s \in Service |-> IF s = Boot[2] THEN <<1>> ELSE <<>>]
  /\ qmem = cmem
  /\ inGlobal = Booted
  /\ release = {}
  /\ gq = Boot
  /\ pc = [w \in Worker |-> "loop"]
  /\ wq = [w \in Worker |-> NoOne]
  /\ nq = [w \in Worker |-> NoOne]
  /\ ctx = [w \in Worker |-> NoOne]
  /\ left = [w \in Worker |-> -1]
  /\ cur = [w \in Worker |-> 0]
  /\ to = [t \in Thread |-> NoOne]
  /\ msg = [t \in Thread |-> 0]
  /\ rel = [t \in Thread |-> NoOne]
  /\ del = [t \in Thread |-> NoOne]
  /\ job = [w \in Worker |-> "none"]
  /\ new = [w \in Worker |-> NoOne]
  /\ seen = [w \in Worker |-> {}]
  /\ hit = [w \in Worker |-> FALSE]
  /\ quit = FALSE
  /\ aborts = 0
  /\ log = <<[src |-> Boot[2], dst |-> Boot[2], fate |-> "queued"]>>

-----------------------------------------------------------------------------
(* Calls that any thread may be in the middle of. *)

(* Thread t has no skynet_context_push or skynet_context_release pending. *)
Idle(t) == to[t] = NoOne /\ rel[t] = NoOne /\ del[t] = NoOne

(* Worker w is back in dispatch or in its loop, out of nested calls. *)
At(w, step) == pc[w] = step /\ job[w] = "none" /\ Idle(w)
AtJob(w, step) == job[w] = step /\ Idle(w)

Mark(i, fate) == log' = [log EXCEPT ![i].fate = fate]

(* skynet_globalmq_push. *)
GlobalPush(q) == gq' = Append(gq, q)

(* skynet_send up to the grab in skynet_context_push, for a live target;   *)
(* a target that is gone makes the call return -1 and changes nothing.     *)
Send(t, src, dst) ==
  /\ Idle(t)
  /\ Len(log) < MaxMsg
  /\ dst \in slot
  /\ ref' = [ref EXCEPT ![dst] = @ + 1]
  /\ to' = [to EXCEPT ![t] = dst]
  /\ msg' = [msg EXCEPT ![t] = Len(log) + 1]
  /\ log' = Append(log, [src |-> src, dst |-> dst, fate |-> "sending"])
  /\ UNCHANGED <<slot, cmem, ready, queueVars, turnVars, rel, del, jobVars,
                 nodeVars>>

(* Mutants of MqPush: in_global is not tested; the message jumps the queue. *)
PushOn(t, messages) ==
  LET q == to[t]
      m == msg[t] IN
  /\ q # NoOne
  /\ queue' = [queue EXCEPT ![q] = messages]
  /\ inGlobal' = inGlobal \cup {q}
  /\ IF m > 0 THEN Mark(m, "queued") ELSE Mark(-m, "reported")
  /\ to' = [to EXCEPT ![t] = NoOne]
  /\ msg' = [msg EXCEPT ![t] = 0]
  /\ rel' = [rel EXCEPT ![t] = q]
  /\ UNCHANGED <<tableVars, qmem, release, turnVars, del, jobVars, nodeVars>>

MqPushAlways(t) ==
  /\ PushOn(t, Append(queue[to[t]], msg[t]))
  /\ GlobalPush(to[t])

MqPushFront(t) ==
  /\ PushOn(t, <<msg[t]>> \o queue[to[t]])
  /\ IF to[t] \in inGlobal THEN UNCHANGED gq ELSE GlobalPush(to[t])

(* skynet_mq_push, in skynet_context_push. *)
MqPush(t) ==
  LET q == to[t]
      m == msg[t] IN
  /\ q # NoOne
  /\ queue' = [queue EXCEPT ![q] = Append(@, m)]
  /\ IF q \in inGlobal
     THEN UNCHANGED <<inGlobal, gq>>
     ELSE inGlobal' = inGlobal \cup {q} /\ GlobalPush(q)
  /\ IF m > 0 THEN Mark(m, "queued") ELSE Mark(-m, "reported")
  /\ to' = [to EXCEPT ![t] = NoOne]
  /\ msg' = [msg EXCEPT ![t] = 0]
  /\ rel' = [rel EXCEPT ![t] = q]
  /\ UNCHANGED <<tableVars, qmem, release, turnVars, del, jobVars, nodeVars>>

(* skynet_context_release: the atomic decrement. *)
ContextRelease(t) ==
  LET s == rel[t] IN
  /\ s # NoOne
  /\ ref' = [ref EXCEPT ![s] = @ - 1]
  /\ rel' = [rel EXCEPT ![t] = NoOne]
  /\ del' = IF ref[s] = 1 THEN [del EXCEPT ![t] = s] ELSE del
  /\ UNCHANGED <<slot, cmem, ready, queueVars, turnVars, to, msg, jobVars,
                 nodeVars, log>>

(* delete_context: skynet_mq_mark_release, then the context is freed. *)
DeleteContext(t) ==
  LET s == del[t] IN
  /\ s # NoOne
  /\ release' = release \cup {s}
  /\ IF s \in inGlobal THEN UNCHANGED gq ELSE GlobalPush(s)
  /\ cmem' = [cmem EXCEPT ![s] = "freed"]
  /\ del' = [del EXCEPT ![t] = NoOne]
  /\ UNCHANGED <<slot, ref, ready, queue, qmem, inGlobal, turnVars, to, msg,
                 rel, jobVars, nodeVars, log>>

(* Mutants of HandleRetire: a retired handle is released again; the slot   *)
(* is not cleared.                                                         *)
RetireAgain(t, s) ==
  /\ slot' = slot \ {s}
  /\ rel' = [rel EXCEPT ![t] = s]

RetireKeepsSlot(t, s) ==
  /\ slot' = slot
  /\ rel' = IF s \in slot THEN [rel EXCEPT ![t] = s] ELSE rel

(* skynet_handle_retire: out of the table, then the table's reference is   *)
(* released outside the lock.  A handle already retired changes nothing.   *)
HandleRetire(t, s) ==
  /\ slot' = slot \ {s}
  /\ rel' = IF s \in slot THEN [rel EXCEPT ![t] = s] ELSE rel

-----------------------------------------------------------------------------
(* skynet_context_message_dispatch, one turn of a worker. *)

(* The head of the loop in thread_worker and the first lines of dispatch:  *)
(* quit is tested, and a worker without a queue pops the global queue.     *)
Loop(w) ==
  /\ At(w, "loop")
  /\ \/ /\ quit
        /\ pc' = [pc EXCEPT ![w] = "exit"]
        /\ UNCHANGED <<wq, gq>>
     \/ /\ ~quit /\ wq[w] # NoOne
        /\ pc' = [pc EXCEPT ![w] = "grab"]
        /\ UNCHANGED <<wq, gq>>
     \/ /\ ~quit /\ wq[w] = NoOne /\ gq # <<>>
        /\ pc' = [pc EXCEPT ![w] = "grab"]
        /\ wq' = [wq EXCEPT ![w] = Head(gq)]
        /\ gq' = Tail(gq)
     \/ /\ ~quit /\ wq[w] = NoOne /\ gq = <<>>
        /\ pc' = [pc EXCEPT ![w] = "sleep"]
        /\ UNCHANGED <<wq, gq>>
  /\ UNCHANGED <<tableVars, queue, qmem, inGlobal, release, nq, ctx, left,
                 cur, callVars, jobVars, nodeVars, log>>

(* skynet_handle_grab of the queue's owner. *)
Grab(w) ==
  /\ At(w, "grab")
  /\ IF wq[w] \in slot
     THEN /\ ref' = [ref EXCEPT ![wq[w]] = @ + 1]
          /\ ctx' = [ctx EXCEPT ![w] = wq[w]]
          /\ left' = [left EXCEPT ![w] = -1]
          /\ pc' = [pc EXCEPT ![w] = "pop"]
     ELSE /\ pc' = [pc EXCEPT ![w] = "mqrel"]
          /\ UNCHANGED <<ref, ctx, left>>
  /\ UNCHANGED <<slot, cmem, ready, queueVars, wq, nq, cur, callVars,
                 jobVars, nodeVars, log>>

(* Mutants of MqRelease: the queue is dropped though it is not marked; it  *)
(* is not put back; q is cleared before it is put back.                    *)
ReleaseQueue(w, marked, newGq) ==
  /\ At(w, "mqrel")
  /\ IF marked
     THEN /\ pc' = [pc EXCEPT ![w] = "drop"]
          /\ UNCHANGED <<wq, gq>>
     ELSE /\ gq' = newGq
          /\ wq' = [wq EXCEPT ![w] = NoOne]
          /\ pc' = [pc EXCEPT ![w] = "next"]
  /\ UNCHANGED <<tableVars, queue, qmem, inGlobal, release, nq, ctx, left,
                 cur, callVars, jobVars, nodeVars, log>>

MqReleaseNow(w) == ReleaseQueue(w, TRUE, gq)
MqReleaseLost(w) == ReleaseQueue(w, wq[w] \in release, gq)
MqReleaseCleared(w) == ReleaseQueue(w, wq[w] \in release, Append(gq, NoOne))

(* skynet_mq_release of a queue whose service is gone: drop it when it is  *)
(* marked, else put it back and try again later.                           *)
MqRelease(w) ==
  /\ At(w, "mqrel")
  /\ IF wq[w] \in release
     THEN /\ pc' = [pc EXCEPT ![w] = "drop"]
          /\ UNCHANGED <<wq, gq>>
     ELSE /\ GlobalPush(wq[w])
          /\ wq' = [wq EXCEPT ![w] = NoOne]
          /\ pc' = [pc EXCEPT ![w] = "next"]
  /\ UNCHANGED <<tableVars, queue, qmem, inGlobal, release, nq, ctx, left,
                 cur, callVars, jobVars, nodeVars, log>>

(* return skynet_globalmq_pop(). *)
NextQueue(w) ==
  /\ At(w, "next")
  /\ IF gq = <<>>
     THEN /\ pc' = [pc EXCEPT ![w] = "sleep"]
          /\ UNCHANGED <<wq, gq>>
     ELSE /\ pc' = [pc EXCEPT ![w] = "loop"]
          /\ wq' = [wq EXCEPT ![w] = Head(gq)]
          /\ gq' = Tail(gq)
  /\ UNCHANGED <<tableVars, queue, qmem, inGlobal, release, nq, ctx, left,
                 cur, callVars, jobVars, nodeVars, log>>

(* skynet_mq_pop.  An empty queue leaves the scheduler: its flag is        *)
(* cleared and the worker lets go of queue and context.                    *)
MqPop(w) ==
  LET q == wq[w] IN
  /\ At(w, "pop")
  /\ IF queue[q] = <<>>
     THEN /\ inGlobal' = inGlobal \ {q}
          /\ rel' = [rel EXCEPT ![w] = ctx[w]]
          /\ ctx' = [ctx EXCEPT ![w] = NoOne]
          /\ wq' = [wq EXCEPT ![w] = NoOne]
          /\ pc' = [pc EXCEPT ![w] = "next"]
          /\ UNCHANGED <<queue, left, cur, log>>
     ELSE /\ queue' = [queue EXCEPT ![q] = Tail(@)]
          /\ cur' = [cur EXCEPT ![w] = Head(queue[q])]
          /\ left' = [left EXCEPT ![w] = IF @ = -1 THEN 0 ELSE @ - 1]
          /\ pc' = [pc EXCEPT ![w] =
                      IF left[w] = -1 /\ Weight[w] >= 0 THEN "len" ELSE "exec"]
          /\ IF Head(queue[q]) > 0
             THEN Mark(Head(queue[q]), "running")
             ELSE UNCHANGED log
          /\ UNCHANGED <<inGlobal, rel, ctx, wq>>
  /\ UNCHANGED <<tableVars, qmem, release, gq, nq, to, msg, del, jobVars,
                 nodeVars>>

(* n = skynet_mq_length(q) >> weight, after the first message: the turn    *)
(* goes on for n - 1 more messages.                                        *)
Share(len, weight) ==
  CASE weight = 0 -> len
    [] weight = 1 -> len \div 2
    [] weight = 2 -> len \div 4
    [] OTHER -> len \div 8

MqLength(w) ==
  LET n == Share(Len(queue[wq[w]]), Weight[w]) IN
  /\ At(w, "len")
  /\ left' = [left EXCEPT ![w] = IF n > 1 THEN n - 1 ELSE 0]
  /\ pc' = [pc EXCEPT ![w] = "exec"]
  /\ UNCHANGED <<tableVars, queueVars, wq, nq, ctx, cur, callVars, jobVars,
                 nodeVars, log>>

(* The callback of dispatch_message returns. *)
Return(w) ==
  /\ At(w, "exec")
  /\ IF cur[w] > 0 THEN Mark(cur[w], "done") ELSE Mark(-cur[w], "told")
  /\ cur' = [cur EXCEPT ![w] = 0]
  /\ pc' = [pc EXCEPT ![w] = IF left[w] > 0 THEN "pop" ELSE "turn"]
  /\ UNCHANGED <<tableVars, queueVars, wq, nq, ctx, left, callVars, jobVars,
                 nodeVars>>

(* End of the turn: with another queue waiting, q goes back to the global  *)
(* queue; with none, the worker keeps q.                                   *)
Turn(w) ==
  /\ At(w, "turn")
  /\ IF gq = <<>>
     THEN /\ rel' = [rel EXCEPT ![w] = ctx[w]]
          /\ ctx' = [ctx EXCEPT ![w] = NoOne]
          /\ pc' = [pc EXCEPT ![w] = "loop"]
          /\ UNCHANGED <<gq, nq>>
     ELSE /\ nq' = [nq EXCEPT ![w] = Head(gq)]
          /\ gq' = Tail(gq)
          /\ pc' = [pc EXCEPT ![w] = "putback"]
          /\ UNCHANGED <<rel, ctx>>
  /\ UNCHANGED <<tableVars, queue, qmem, inGlobal, release, wq, left, cur, to,
                 msg, del, jobVars, nodeVars, log>>

(* Mutant of PutBack: q is forgotten. *)
PutBackLost(w) ==
  /\ At(w, "putback")
  /\ wq' = [wq EXCEPT ![w] = nq[w]]
  /\ nq' = [nq EXCEPT ![w] = NoOne]
  /\ rel' = [rel EXCEPT ![w] = ctx[w]]
  /\ ctx' = [ctx EXCEPT ![w] = NoOne]
  /\ pc' = [pc EXCEPT ![w] = "loop"]
  /\ UNCHANGED <<tableVars, queueVars, left, cur, to, msg, del, jobVars,
                 nodeVars, log>>

PutBack(w) ==
  /\ At(w, "putback")
  /\ GlobalPush(wq[w])
  /\ wq' = [wq EXCEPT ![w] = nq[w]]
  /\ nq' = [nq EXCEPT ![w] = NoOne]
  /\ rel' = [rel EXCEPT ![w] = ctx[w]]
  /\ ctx' = [ctx EXCEPT ![w] = NoOne]
  /\ pc' = [pc EXCEPT ![w] = "loop"]
  /\ UNCHANGED <<tableVars, queue, qmem, inGlobal, release, left, cur, to, msg,
                 del, jobVars, nodeVars, log>>

-----------------------------------------------------------------------------
(* _drop_queue, of a queue in the hands of worker w. *)

Dropping(w) == IF job[w] = "drop" THEN new[w]
               ELSE IF job[w] = "none" /\ pc[w] = "drop" THEN wq[w]
               ELSE NoOne

(* Mutant of DropMessage: nobody is told. *)
DropSilently(w) ==
  LET q == Dropping(w)
      m == Head(queue[q]) IN
  /\ Idle(w) /\ q # NoOne /\ queue[q] # <<>>
  /\ queue' = [queue EXCEPT ![q] = Tail(@)]
  /\ IF m > 0 THEN Mark(m, "dropped") ELSE Mark(-m, "lost")
  /\ UNCHANGED <<tableVars, qmem, inGlobal, release, gq, turnVars, callVars,
                 jobVars, nodeVars>>

(* skynet_mq_pop and drop_message: the source of a dropped request gets an *)
(* error if it is still there.  An error that is dropped goes nowhere.     *)
DropMessage(w) ==
  LET q == Dropping(w)
      m == Head(queue[q])
      src == log[m].src IN
  /\ Idle(w) /\ q # NoOne /\ queue[q] # <<>>
  /\ queue' = [queue EXCEPT ![q] = Tail(@)]
  /\ IF m > 0 /\ src \in slot
     THEN /\ ref' = [ref EXCEPT ![src] = @ + 1]
          /\ to' = [to EXCEPT ![w] = src]
          /\ msg' = [msg EXCEPT ![w] = -m]
          /\ Mark(m, "dropped")
     ELSE /\ IF m > 0 THEN Mark(m, "lost") ELSE Mark(-m, "lost")
          /\ UNCHANGED <<ref, to, msg>>
  /\ UNCHANGED <<slot, cmem, ready, qmem, inGlobal, release, gq, turnVars, rel,
                 del, jobVars, nodeVars>>

(* The pop that finds the queue empty, and _release. *)
FreeQueue(w) ==
  LET q == Dropping(w) IN
  /\ Idle(w) /\ q # NoOne /\ queue[q] = <<>>
  /\ inGlobal' = inGlobal \ {q}
  /\ qmem' = [qmem EXCEPT ![q] = "freed"]
  /\ IF job[w] = "drop"
     THEN /\ job' = [job EXCEPT ![w] = "none"]
          /\ new' = [new EXCEPT ![w] = NoOne]
          /\ UNCHANGED <<pc, wq>>
     ELSE /\ pc' = [pc EXCEPT ![w] = "next"]
          /\ wq' = [wq EXCEPT ![w] = NoOne]
          /\ UNCHANGED <<job, new>>
  /\ UNCHANGED <<tableVars, queue, release, gq, nq, ctx, left, cur, callVars,
                 seen, hit, nodeVars, log>>

-----------------------------------------------------------------------------
(* What a callback running on worker w may ask of the kernel, besides      *)
(* sending: kill a service, launch one, abort the node.                    *)

(* cmd_exit, cmd_kill. *)
Kill(w, s) ==
  /\ At(w, "exec")
  /\ s \in Killable \cap slot
  /\ HandleRetire(w, s)
  /\ UNCHANGED <<ref, cmem, ready, queueVars, turnVars, to, msg, del, jobVars,
                 nodeVars, log>>

(* Mutant of Launch: skynet_mq_create leaves the flag clear. *)
LaunchUnflagged(w, s) ==
  /\ At(w, "exec")
  /\ cmem[s] = "none"
  /\ slot' = slot \cup {s}
  /\ ref' = [ref EXCEPT ![s] = 2]
  /\ cmem' = [cmem EXCEPT ![s] = "live"]
  /\ qmem' = [qmem EXCEPT ![s] = "live"]
  /\ job' = [job EXCEPT ![w] = "init"]
  /\ new' = [new EXCEPT ![w] = s]
  /\ UNCHANGED <<ready, queue, inGlobal, release, gq, turnVars, callVars, seen,
                 hit, nodeVars, log>>

(* skynet_context_new: the context with two references, its slot and its   *)
(* queue, whose flag keeps it out of the global queue.                     *)
Launch(w, s) ==
  /\ At(w, "exec")
  /\ cmem[s] = "none"
  /\ slot' = slot \cup {s}
  /\ ref' = [ref EXCEPT ![s] = 2]
  /\ cmem' = [cmem EXCEPT ![s] = "live"]
  /\ qmem' = [qmem EXCEPT ![s] = "live"]
  /\ inGlobal' = inGlobal \cup {s}
  /\ job' = [job EXCEPT ![w] = "init"]
  /\ new' = [new EXCEPT ![w] = s]
  /\ UNCHANGED <<ready, queue, release, gq, turnVars, callVars, seen, hit,
                 nodeVars, log>>

(* skynet_module_instance_init returned; skynet_context_release follows.   *)
(* After a success the creator goes on with ret, which is NULL if its own  *)
(* reference was the last; after a failure it retires the handle.          *)
InitReturns(w) ==
  LET s == new[w] IN
  /\ AtJob(w, "init")
  /\ ref' = [ref EXCEPT ![s] = @ - 1]
  /\ del' = IF ref[s] = 1 THEN [del EXCEPT ![w] = s] ELSE del
  /\ \/ job' = [job EXCEPT ![w] = IF ref[s] = 1 THEN "quiet" ELSE "flag"]
     \/ job' = [job EXCEPT ![w] = "retire"]
  /\ UNCHANGED <<slot, cmem, ready, queueVars, turnVars, to, msg, rel, new,
                 seen, hit, nodeVars, log>>

(* ctx->init = true.  The write to a context that is gone is lost. *)
SetInit(w) ==
  /\ AtJob(w, "flag")
  /\ ready' = IF cmem[new[w]] = "live" THEN ready \cup {new[w]} ELSE ready
  /\ job' = [job EXCEPT ![w] = "gpush"]
  /\ UNCHANGED <<slot, ref, cmem, queueVars, turnVars, callVars, new, seen,
                 hit, nodeVars, log>>

(* skynet_globalmq_push(queue): the service may run from here on. *)
Publish(w) ==
  /\ AtJob(w, "gpush") \/ AtJob(w, "quiet")
  /\ GlobalPush(new[w])
  /\ IF job[w] = "gpush"
     THEN job' = [job EXCEPT ![w] = "log"] /\ UNCHANGED new
     ELSE /\ job' = [job EXCEPT ![w] = "none"]
          /\ new' = [new EXCEPT ![w] = NoOne]
  /\ UNCHANGED <<tableVars, queue, qmem, inGlobal, release, turnVars, callVars,
                 seen, hit, nodeVars, log>>

(* skynet_error(ret, "LAUNCH ..."), and cmd_launch reading inst->handle. *)
UseResult(w) ==
  /\ AtJob(w, "log")
  /\ job' = [job EXCEPT ![w] = "none"]
  /\ new' = [new EXCEPT ![w] = NoOne]
  /\ UNCHANGED <<tableVars, queueVars, turnVars, callVars, seen, hit, nodeVars,
                 log>>

(* The failure path: skynet_handle_retire, then skynet_mq_release. *)
RetireFailed(w) ==
  /\ AtJob(w, "retire")
  /\ HandleRetire(w, new[w])
  /\ job' = [job EXCEPT ![w] = "mqrel"]
  /\ UNCHANGED <<ref, cmem, ready, queueVars, turnVars, to, msg, del, new,
                 seen, hit, nodeVars, log>>

ReleaseFailed(w) ==
  /\ AtJob(w, "mqrel")
  /\ IF new[w] \in release
     THEN job' = [job EXCEPT ![w] = "drop"] /\ UNCHANGED <<new, gq>>
     ELSE /\ GlobalPush(new[w])
          /\ job' = [job EXCEPT ![w] = "none"]
          /\ new' = [new EXCEPT ![w] = NoOne]
  /\ UNCHANGED <<tableVars, queue, qmem, inGlobal, release, turnVars, callVars,
                 seen, hit, nodeVars, log>>

(* cmd_abort: skynet_handle_retireall passes over the slots, retiring what *)
(* it finds, until one pass finds nothing.  The lock is not held from one  *)
(* slot to the next.                                                       *)
Abort(w) ==
  /\ At(w, "exec")
  /\ aborts < MaxAbort
  /\ aborts' = aborts + 1
  /\ job' = [job EXCEPT ![w] = "scan"]
  /\ UNCHANGED <<tableVars, queueVars, turnVars, callVars, new, seen, hit,
                 quit, log>>

(* Mutant of ScanSlot: a service whose init has not returned is passed by. *)
ScanSlotReady(w, s) ==
  /\ AtJob(w, "scan")
  /\ s \notin seen[w]
  /\ seen' = [seen EXCEPT ![w] = @ \cup {s}]
  /\ hit' = [hit EXCEPT ![w] = @ \/ s \in slot \cap ready]
  /\ IF s \in ready THEN HandleRetire(w, s) ELSE UNCHANGED <<slot, rel>>
  /\ UNCHANGED <<ref, cmem, ready, queueVars, turnVars, to, msg, del, job, new,
                 nodeVars, log>>

ScanSlot(w, s) ==
  /\ AtJob(w, "scan")
  /\ s \notin seen[w]
  /\ seen' = [seen EXCEPT ![w] = @ \cup {s}]
  /\ hit' = [hit EXCEPT ![w] = @ \/ s \in slot]
  /\ HandleRetire(w, s)
  /\ UNCHANGED <<ref, cmem, ready, queueVars, turnVars, to, msg, del, job, new,
                 nodeVars, log>>

ScanPass(w) ==
  /\ AtJob(w, "scan")
  /\ seen[w] = Service
  /\ seen' = [seen EXCEPT ![w] = {}]
  /\ hit' = [hit EXCEPT ![w] = FALSE]
  /\ job' = IF hit[w] THEN job ELSE [job EXCEPT ![w] = "none"]
  /\ UNCHANGED <<tableVars, queueVars, turnVars, callVars, new, nodeVars, log>>

-----------------------------------------------------------------------------
(* Sleeping and stopping. *)

(* Mutant of Sleep: quit is not tested under the mutex. *)
SleepBlind(w) ==
  /\ At(w, "sleep")
  /\ pc' = [pc EXCEPT ![w] = "asleep"]
  /\ UNCHANGED <<tableVars, queueVars, wq, nq, ctx, left, cur, callVars,
                 jobVars, nodeVars, log>>

(* The worker takes the mutex and waits unless quit is set. *)
Sleep(w) ==
  /\ At(w, "sleep")
  /\ pc' = [pc EXCEPT ![w] = IF quit THEN "loop" ELSE "asleep"]
  /\ UNCHANGED <<tableVars, queueVars, wq, nq, ctx, left, cur, callVars,
                 jobVars, nodeVars, log>>

(* wakeup() of the timer thread, every 2.5 ms while somebody sleeps. *)
Wakeup(w) ==
  /\ ~quit
  /\ pc[w] = "asleep"
  /\ pc' = [pc EXCEPT ![w] = "loop"]
  /\ UNCHANGED <<tableVars, queueVars, wq, nq, ctx, left, cur, callVars,
                 jobVars, nodeVars, log>>

(* skynet_context_total() = 0: the timer thread ends, wakes everybody. *)
Quit ==
  /\ ~quit
  /\ \A s \in Service : cmem[s] # "live"
  /\ quit' = TRUE
  /\ pc' = [w \in Worker |-> IF pc[w] = "asleep" THEN "loop" ELSE pc[w]]
  /\ UNCHANGED <<tableVars, queueVars, wq, nq, ctx, left, cur, callVars,
                 jobVars, aborts, log>>

(* skynet_start returns: every worker has been joined. *)
Joined ==
  /\ \A w \in Worker : pc[w] = "exit"
  /\ UNCHANGED vars

-----------------------------------------------------------------------------
(* The end of a skynet_context_push or skynet_context_release in progress. *)
Finish(t) == MqPush(t) \/ ContextRelease(t) \/ DeleteContext(t)

Dispatch(w) ==
  \/ Loop(w) \/ Grab(w) \/ MqRelease(w) \/ NextQueue(w) \/ MqPop(w)
  \/ MqLength(w) \/ Return(w) \/ Turn(w) \/ PutBack(w)
  \/ DropMessage(w) \/ FreeQueue(w) \/ Sleep(w)

Create(w) ==
  \/ InitReturns(w) \/ SetInit(w) \/ Publish(w) \/ UseResult(w)
  \/ RetireFailed(w) \/ ReleaseFailed(w)

(* What the code running on w decides to do; the rest it must finish. *)
Command(w) ==
  \/ \E s \in Service : Kill(w, s) \/ Launch(w, s)
  \/ Abort(w)
  \/ /\ At(w, "exec")
     /\ \E d \in Service : Send(w, ctx[w], d)
  \/ /\ AtJob(w, "init")
     /\ \E d \in Service : Send(w, new[w], d)

Scan(w) == ScanPass(w) \/ \E s \in Service : ScanSlot(w, s)

Post(p) == \E d \in Service : Send(p, NoOne, d)

Progress(w) == Dispatch(w) \/ Create(w) \/ Scan(w)

Next ==
  \/ \E t \in Thread : Finish(t)
  \/ \E w \in Worker : Progress(w) \/ Command(w) \/ Wakeup(w)
  \/ \E p \in Poster : Post(p)
  \/ Quit
  \/ Joined

Spec == Init /\ [][Next]_vars

(* Threads are scheduled by the operating system and callbacks return; the *)
(* timer thread keeps waking a sleeper, whichever the system picks.        *)
Fairness ==
  /\ \A t \in Thread : WF_vars(Finish(t))
  /\ \A w \in Worker : WF_vars(Progress(w))
  /\ WF_vars(\E w \in Worker : Wakeup(w))
  /\ WF_vars(Quit)

FairSpec == Spec /\ Fairness
=============================================================================
