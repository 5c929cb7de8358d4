-------------------------- MODULE KernelProperties --------------------------
(***************************************************************************)
(* What the scheduler of Kernel.tla promises to the services.              *)
(***************************************************************************)
EXTENDS Kernel

(* The queues in the hands of worker w: the one it dispatches, the next    *)
(* one, and the one of the service it is creating until it is published.   *)
Place == {"wq", "nq", "new"}
Hand(k, w) == CASE k = "wq" -> wq[w]
                [] k = "nq" -> nq[w]
                [] k = "new" -> IF job[w] = "log" THEN NoOne ELSE new[w]

InGq(q) == \E i \in DOMAIN gq : gq[i] = q
GqDistinct == \A i, j \in DOMAIN gq : gq[i] = gq[j] => i = j
Owned(q) == InGq(q) \/ \E w \in Worker, k \in Place : Hand(k, w) = q

(* A queue is in the hands of one worker or waits once in the global queue *)
(* (the comment on in_global in skynet_mq.c:14-15): never in two places,   *)
(* so that no two workers ever pop it, drop it or free it at a time.       *)
OneOwner ==
  /\ GqDistinct
  /\ \A w \in Worker, k \in Place : Hand(k, w) # NoOne =>
       /\ ~InGq(Hand(k, w))
       /\ \A v \in Worker, l \in Place :
            Hand(l, v) = Hand(k, w) => v = w /\ l = k

(* The Lua state of a service is not locked: no two workers are ever       *)
(* between skynet_mq_pop and the return of the callback of one service.    *)
Executing(w) == pc[w] \in {"pop", "len", "exec", "turn"}

NoConcurrentDispatch ==
  \A v, w \in Worker :
    Executing(v) /\ Executing(w) /\ ctx[v] = ctx[w] => v = w

(* A queue with messages is on its way to a worker (skynet_mq_push leaves  *)
(* it alone when in_global is set), and no queue is freed with messages.   *)
NoStrandedQueue ==
  \A q \in Service : queue[q] # <<>> =>
    /\ qmem[q] = "live"
    /\ Owned(q)

(* Reference counting: whatever a thread has grabbed, is about to release  *)
(* or to delete, whatever the table lists and whatever queue is scheduled  *)
(* or marked is still allocated.                                           *)
NoDanglingContext ==
  /\ \A s \in slot : cmem[s] = "live"
  /\ \A w \in Worker : ctx[w] # NoOne => cmem[ctx[w]] = "live"
  /\ \A t \in Thread : \A s \in {to[t], rel[t], del[t]} \ {NoOne} :
       cmem[s] = "live" /\ qmem[s] = "live"

NoDanglingQueue ==
  \A q \in Service : Owned(q) => qmem[q] = "live"

(* assert(q->release == 0) in skynet_mq_mark_release and the decrement to  *)
(* zero: a context is deleted once, by one thread.                         *)
DeletedOnce ==
  \A t, u \in Thread : del[t] # NoOne =>
    /\ del[t] \notin release
    /\ del[t] \notin slot
    /\ del[u] = del[t] => u = t

(* assert(ctx->init) in dispatch_message: no message is dispatched before  *)
(* skynet_context_new has set the flag of the service.                     *)
InitBeforeDispatch ==
  \A w \in Worker : pc[w] \in {"len", "exec"} => ctx[w] \in ready

Carried(m) == \E t \in Thread : to[t] # NoOne /\ msg[t] = m
Running(m) == \E w \in Worker : cur[w] = m
QueuedAt(m, q) == \E k \in DOMAIN queue[q] : queue[q][k] = m

(* No request vanishes: it is in the hands of a sender, in the queue of    *)
(* its target, being run, or over; and a dropped one is about to be        *)
(* reported, reported, or has nobody left to report to.                    *)
Accounted(i) ==
  LET f == log[i].fate IN
  /\ f = "sending" => Carried(i)
  /\ f = "queued" => QueuedAt(i, log[i].dst)
  /\ f = "running" => Running(i)
  /\ f = "dropped" => Carried(-i)
  /\ f = "reported" => /\ log[i].src # NoOne
                       /\ Running(-i) \/ QueuedAt(-i, log[i].src)
  /\ f = "lost" => log[i].src \notin slot

RequestAccounted == \A i \in 1..Len(log) : Accounted(i)

(* Requests of one service to another run in the order they were sent,     *)
(* whichever workers carry them.                                           *)
InOrder ==
  \A j \in 1..Len(log) : \A i \in 1..(j - 1) :
    /\ log[i].src = log[j].src /\ log[i].src # NoOne
    /\ log[i].dst = log[j].dst
    /\ log[j].fate \in {"running", "done"}
    => log[i].fate \notin {"sending", "queued"}

-----------------------------------------------------------------------------
(* Kernel.tla implements Mailbox.tla: a service is open from the init flag *)
(* to delete_context, and its callback is the one of the worker that has   *)
(* its context and a message in hand.                                      *)
Handling(s) == {w \in Worker : ctx[w] = s /\ cur[w] # 0}

StateOf(s) ==
  CASE s \in release -> "closed"
    [] s \in ready \ release -> "open"
    [] s \notin release \cup ready /\ cmem[s] = "none" -> "none"
    [] OTHER -> "init"

(* What the only member of handlers has in hand, 0 if there is none. *)
InHand(handlers, current) ==
  IF handlers = {} THEN 0 ELSE current[CHOOSE w \in handlers : TRUE]

StateMap == [s \in Service |-> StateOf(s)]
BusyMap == [s \in Service |-> InHand(Handling(s), cur)]

Mail == INSTANCE Mailbox WITH
  Boot <- Booted,
  Message <- (-MaxMsg..MaxMsg) \ {0},
  state <- StateMap,
  mailbox <- queue,
  busy <- BusyMap

ImplementsMailbox == Mail!Spec

-----------------------------------------------------------------------------
(* Every request sent is eventually answered for: run, or dropped and the  *)
(* sender told or gone -- unless the node stops.                           *)
RequestSettled ==
  \A i \in 1..MaxMsg :
    i <= Len(log)
      ~> (i <= Len(log) /\ log[i].fate \in {"done", "told", "lost"}) \/ quit

(* A service retired by exit or kill is eventually destroyed, and so is    *)
(* its queue, though it takes two passes of skynet_mq_release by whichever *)
(* worker finds it: one for the mark, one for the messages.  And so is     *)
(* every service in the table that a pass of ABORT's sweep has still ahead *)
(* of it, whoever kills, launches or fails to launch while the sweep drops *)
(* the lock between two slots (skynet_handle_retireall); one registered    *)
(* behind the last pass is not spoken of.                                  *)
Ahead(s) == \E w \in Worker : job[w] = "scan" /\ s \notin seen[w]

RetiredIsFreed ==
  \A s \in Service :
    cmem[s] = "live" /\ (s \notin slot \/ Ahead(s))
      ~> cmem[s] = "freed" /\ (qmem[s] = "freed" \/ quit)

(* Once no service is left all the workers leave their loops.              *)
NodeStops ==
  (\A s \in Service : cmem[s] # "live") ~> \A w \in Worker : pc[w] = "exit"

-----------------------------------------------------------------------------
(* skynet_context_new and cmd_launch use the context they just published   *)
(* (skynet_server.c:165, 169): it is still allocated.                      *)
LaunchedIsAlive ==
  \A w \in Worker : job[w] \in {"flag", "log"} => cmem[new[w]] = "live"
=============================================================================
