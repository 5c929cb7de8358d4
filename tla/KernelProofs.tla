---------------------------- MODULE KernelProofs ----------------------------
(***************************************************************************)
(* The scheduler keeps its promises for any number of threads, services    *)
(* and messages: IInv is an invariant of Kernel.tla and implies them.      *)
(***************************************************************************)
EXTENDS KernelRefProofs

(* skynet_start leaves the logger and the bootstrap service, with the      *)
(* message the latter sent itself, in order.                               *)
LEMMA InitType == Init => TypeOK
  <1> SUFFICES ASSUME Init
               PROVE  TypeOK
    OBVIOUS
  <1>1. Boot[1] \in Service /\ Boot[2] \in Service
    BY ServiceAssumption
  <1>2. /\ TableType
        /\ TurnType
        /\ CallType /\ JobType
        /\ quit \in BOOLEAN /\ aborts \in Nat
    <2>1. TableType
      BY <1>1 DEF Init, TableType, Memory, Booted
    <2>2. TurnType
      BY DEF Init, TurnType, Step
    <2>3. CallType
      BY DEF Init, CallType
    <2>4. JobType
      BY DEF Init, JobType, Job
    <2> QED
      BY <2>1, <2>2, <2>3, <2>4 DEF Init
  <1>3. QueueType
    BY <1>1, ServiceAssumption DEF Init, QueueType, Memory, Booted
  <1>4. log \in Seq(Request)
    BY <1>1 DEF Init, Request, Fate
  <1> QED
    BY <1>2, <1>3, <1>4 DEF TypeOK

(* At start each booted context has one reference, the table's.            *)
LEMMA InitRefs == Init => RefInv
  <1> SUFFICES ASSUME Init, NEW s \in Service
               PROVE  IsFiniteSet(Refs(s)) /\ ref[s] = Cardinality(Refs(s))
    BY DEF RefInv
  <1>1. \A k \in RefKind, h \in Holder :
          RefTo(k, h) = s <=> k = "slot" /\ h = s /\ s \in Booted
    BY ServiceAssumption DEF Init, RefTo, RefKind, Thread, Booted
  <1>2. CASE s \in Booted
    <2>1. Refs(s) = {<<"slot", s>>}
      BY <1>1, <1>2 DEF Refs, RefKind, Holder
    <2>2. ref[s] = 1
      BY <1>2 DEF Init
    <2> QED
      BY <2>1, <2>2, FS_Singleton
  <1>3. CASE s \notin Booted
    <2>1. Refs(s) = {}
      BY <1>1, <1>3 DEF Refs
    <2>2. ref[s] = 0
      BY <1>3 DEF Init
    <2> QED
      BY <2>1, <2>2, FS_EmptySet
  <1> QED
    BY <1>2, <1>3

(* The two booted queues wait in the global queue, once each.              *)
LEMMA InitOwners == Init => OneOwner /\ FlagInv /\ ReadyInv
  <1> SUFFICES ASSUME Init
               PROVE  OneOwner /\ FlagInv /\ ReadyInv
    OBVIOUS
  <1>1. /\ Boot[1] \in Service /\ Boot[2] \in Service /\ Boot[1] # Boot[2]
        /\ DOMAIN Boot = 1..2
    BY ServiceAssumption
  <1>0. gq = Boot
    BY DEF Init
  <1>2. /\ GqDistinct /\ \A q : InGq(q) <=> q \in Booted
        /\ \A w \in Worker, k \in Place : Hand(k, w) = NoOne
    BY <1>0, <1>1 DEF GqDistinct, InGq, Booted, Init, Hand, Place
  <1>3. \A q \in Service : Owned(q) <=> q \in Booted
    BY <1>2, ServiceAssumption DEF Owned
  <1>4. OneOwner
    BY <1>2 DEF OneOwner
  <1>5. FlagInv
    BY <1>3 DEF FlagInv, Init, Booted
  <1>6. ReadyInv
    BY <1>2 DEF ReadyInv, Settled, Init
  <1> QED
    BY <1>4, <1>5, <1>6

(* The inductive invariant holds at start.                                 *)
LEMMA InitInv == Init => IInv
  <1> SUFFICES ASSUME Init
               PROVE  IInv
    OBVIOUS
  <1>1. WorkerInv /\ CallInv /\ DeleteInv /\ DropInv
    BY DEF Init, WorkerInv, CallInv, DeleteInv, DropInv
  <1>2. LifeInv
    BY ServiceAssumption DEF Init, LifeInv, Booted
  <1> QED
    BY <1>1, <1>2, InitType, InitRefs, InitOwners DEF IInv

(* Every step of the scheduler keeps the inductive invariant.              *)
LEMMA StepInv == IInv /\ [Next]_vars => IInv'
  BY TypeStep, WorkerStep, CallStep, OwnerStep, RefStep, LifeStep, DeleteStep,
     DropStep, ReadyStep DEF IInv

(* The inductive invariant holds in every reachable state.                 *)
THEOREM Invariance == Spec => []IInv
  <1>1. Init => IInv
    BY InitInv
  <1>2. IInv /\ [Next]_vars => IInv'
    BY StepInv
  <1> QED
    BY <1>1, <1>2, PTL DEF Spec

(* Every variable stays in its type.                                       *)
THEOREM TypeCorrect == Spec => []TypeOK
  <1>1. IInv => TypeOK
    BY DEF IInv
  <1> QED
    BY <1>1, Invariance, PTL

-----------------------------------------------------------------------------
(* A message queue is never in two places: neither twice in the global     *)
(* queue, nor in the hands of two workers, nor in both.                    *)
THEOREM QueueHasOneOwner == Spec => []OneOwner
  <1>1. IInv => OneOwner
    BY DEF IInv
  <1> QED
    BY <1>1, Invariance, PTL

(* No two workers ever run one service at a time.                          *)
THEOREM ServiceRunsAlone == Spec => []NoConcurrentDispatch
  <1>1. IInv => NoConcurrentDispatch
    <2> SUFFICES ASSUME IInv, NEW v \in Worker, NEW w \in Worker,
                        Executing(v), Executing(w), ctx[v] = ctx[w]
                 PROVE  v = w
      BY DEF NoConcurrentDispatch
    <2>1. wq[v] # NoOne /\ wq[v] = wq[w]
      BY DEF IInv, WorkerInv, Executing
    <2>2. Hand("wq", v) # NoOne /\ Hand("wq", v) = Hand("wq", w)
      BY <2>1 DEF Hand
    <2> QED
      BY <2>2 DEF IInv, OneOwner, Place
  <1> QED
    BY <1>1, Invariance, PTL

(* A queue that holds messages is allocated and on its way to a worker.    *)
THEOREM NoQueueIsStranded == Spec => []NoStrandedQueue
  <1>1. IInv => NoStrandedQueue
    BY DEF IInv, FlagInv, NoStrandedQueue
  <1> QED
    BY <1>1, Invariance, PTL

(* Whatever the table lists or a thread has in hand is allocated.          *)
THEOREM NoContextDangles == Spec => []NoDanglingContext
  <1>1. IInv => NoDanglingContext
    <2> SUFFICES ASSUME IInv
                 PROVE  NoDanglingContext
      OBVIOUS
    <2>1. TypeOK /\ RefInv /\ LifeInv
      BY DEF IInv
    <2>2. \A s \in slot : cmem[s] = "live"
      BY <2>1, HeldIsLive DEF TypeOK, TableType, Holder
    <2>3. \A w \in Worker : ctx[w] # NoOne => cmem[ctx[w]] = "live"
      BY <2>1, HeldIsLive DEF TypeOK, TurnType, Holder, Thread
    <2>4. \A t \in Thread : \A s \in {to[t], rel[t], del[t]} \ {NoOne} :
            cmem[s] = "live" /\ qmem[s] = "live"
      <3> SUFFICES ASSUME NEW t \in Thread,
                          NEW s \in {to[t], rel[t], del[t]} \ {NoOne}
                   PROVE  cmem[s] = "live" /\ qmem[s] = "live"
        OBVIOUS
      <3>1. s \in Service
        BY <2>1 DEF TypeOK, CallType
      <3>2. CASE s = to[t] \/ s = rel[t]
        BY <2>1, <3>1, <3>2, HeldIsLive DEF Holder
      <3>3. CASE s = del[t]
        BY <2>1, <3>1, <3>3 DEF LifeInv
      <3> QED
        BY <3>2, <3>3
    <2> QED
      BY <2>2, <2>3, <2>4 DEF NoDanglingContext
  <1> QED
    BY <1>1, Invariance, PTL

(* A queue that waits for a worker or is with one is allocated.            *)
THEOREM NoQueueDangles == Spec => []NoDanglingQueue
  <1>1. IInv => NoDanglingQueue
    BY DEF IInv, FlagInv, NoDanglingQueue
  <1> QED
    BY <1>1, Invariance, PTL

(* A context is deleted by one thread, once, after it left the table.      *)
THEOREM ContextIsDeletedOnce == Spec => []DeletedOnce
  <1>1. IInv => DeletedOnce
    <2> SUFFICES ASSUME IInv, NEW t \in Thread, NEW u \in Thread,
                        del[t] # NoOne
                 PROVE  /\ del[t] \notin release /\ del[t] \notin slot
                        /\ del[u] = del[t] => u = t
      BY DEF DeletedOnce
    <2>1. PICK s \in Service : s = del[t]
      BY DEF IInv, TypeOK, CallType
    <2>2. cmem[s] = "live" /\ s \notin release
      BY <2>1 DEF IInv, LifeInv
    <2>3. s \notin slot
      BY <2>1, HeldIsLive DEF IInv, Holder
    <2>4. del[u] = del[t] => u = t
      BY DEF IInv, DeleteInv
    <2> QED
      BY <2>1, <2>2, <2>3, <2>4
  <1> QED
    BY <1>1, Invariance, PTL

(* No callback runs before skynet_context_new has set the init flag.       *)
THEOREM InitComesFirst == Spec => []InitBeforeDispatch
  <1>1. IInv => InitBeforeDispatch
    BY ServiceAssumption DEF IInv, WorkerInv, ReadyInv, InitBeforeDispatch
  <1> QED
    BY <1>1, Invariance, PTL

-----------------------------------------------------------------------------
(* The requests and the messages that carry them.                          *)

(* What a step that marks a request changes of the log. *)
LEMMA MarkEffect ==
  ASSUME log \in Seq(Request), NEW i \in Int, NEW f, Mark(i, f)
  PROVE  /\ Len(log') = Len(log)
         /\ \A k \in 1..Len(log) :
              /\ log'[k].src = log[k].src /\ log'[k].dst = log[k].dst
              /\ log'[k].fate = IF k = i THEN f ELSE log[k].fate
  <1>1. log' = [log EXCEPT ![i].fate = f]
    BY DEF Mark
  <1>0. DOMAIN log = 1..Len(log)
    OBVIOUS
  <1>2. DOMAIN log' = 1..Len(log) /\ Len(log) \in Nat
    BY <1>1
  <1>3. log' = [k \in 1..Len(log) |->
                  IF k = i THEN [log[i] EXCEPT !.fate = f] ELSE log[k]]
    BY <1>0, <1>1, Zenon
  <1>4. Len(log') = Len(log)
    <2>1. log' \in Seq({log'[k] : k \in 1..Len(log)})
      BY <1>2, <1>3
    <2> QED
      BY <1>2, <2>1
  <1>5. ASSUME NEW k \in 1..Len(log)
        PROVE  /\ log'[k].src = log[k].src /\ log'[k].dst = log[k].dst
               /\ log'[k].fate = IF k = i THEN f ELSE log[k].fate
    <2>1. log[k] \in Request
      OBVIOUS
    <2>2. CASE k = i
      <3>1. log'[k] = [log[k] EXCEPT !.fate = f]
        BY <1>3, <2>2
      <3> QED
        BY <2>1, <2>2, <3>1 DEF Request
    <2>3. CASE k # i
      BY <1>3, <2>3
    <2> QED
      BY <2>2, <2>3
  <1> QED
    BY <1>4, <1>5

(* Every request keeps its source and target. *)
LogKept ==
  /\ Len(log) <= Len(log')
  /\ \A i \in 1..Len(log) : /\ log'[i].src = log[i].src
                            /\ log'[i].dst = log[i].dst

LEMMA MessageKept ==
  ASSUME TypeOK, TypeOK', LogKept, NEW m, IsMessage(m)
  PROVE  IsMessage(m)' /\ \A s : Fits(m, s) => Fits(m, s)'
  <1>1. Len(log) \in Nat /\ Len(log') \in Nat
    BY DEF TypeOK
  <1>2. m \in Int /\ m # 0 /\ -Len(log) <= m /\ m <= Len(log)
    BY <1>1 DEF IsMessage
  <1>3. IsMessage(m)'
    BY <1>1, <1>2 DEF IsMessage, LogKept
  <1>4. CASE m > 0
    <2>1. m \in 1..Len(log)
      BY <1>1, <1>2, <1>4
    <2> QED
      BY <1>3, <1>4, <2>1 DEF Fits, Target, LogKept
  <1>5. CASE ~(m > 0)
    <2>1. -m \in 1..Len(log)
      BY <1>1, <1>2, <1>5
    <2> QED
      BY <1>3, <1>5, <2>1 DEF Fits, Target, LogKept
  <1> QED
    BY <1>4, <1>5

(* A step that moves no message: no worker starts or ends a callback, and  *)
(* one in the middle of a call does nothing else.                          *)
Calm ==
  /\ UNCHANGED <<to, msg, queue, cur, log>>
  /\ \A s \in Service : cmem'[s] = "none" => cmem[s] = "none"
  /\ \A s \in slot' : s \in slot \/ cmem[s] = "none"
  /\ \A w \in Worker :
       /\ pc'[w] \in {"len", "exec"} <=> pc[w] \in {"len", "exec"}
       /\ pc[w] \in {"len", "exec"} => ctx'[w] = ctx[w]
       /\ pc[w] = "exec" /\ to[w] # NoOne =>
            /\ pc'[w] = pc[w] /\ job'[w] = job[w]
            /\ ctx'[w] = ctx[w] /\ new'[w] = new[w]

LEMMA CalmStep ==
  ASSUME TypeOK, WorkerInv, [Next]_vars
  PROVE  \/ Calm
         \/ \E t \in Thread : MqPush(t)
         \/ \E w \in Worker :
              \/ MqPop(w) /\ queue[wq[w]] # <<>>
              \/ Return(w) \/ DropMessage(w)
              \/ \E s, d \in Service : Send(w, s, d) /\ SendsFor(w, s)
         \/ \E p \in Poster, d \in Service : Send(p, NoOne, d)
  <1> USE DEF Calm, TypeOK, TurnType, CallType, JobType, TableType, Thread,
              tableVars, queueVars, turnVars, callVars, jobVars, nodeVars
  <1>1. ASSUME UNCHANGED <<to, msg, queue, turnVars, job, new, slot, log>>,
               UNCHANGED cmem
                 \/ \E t \in Thread : /\ del[t] # NoOne
                                      /\ cmem' = [cmem EXCEPT ![del[t]]
                                                    = "freed"]
        PROVE  Calm
    BY <1>1
  <1>2. ASSUME NEW t \in Thread, ContextRelease(t) \/ DeleteContext(t)
        PROVE  Calm
    BY <1>1, <1>2 DEF ContextRelease, DeleteContext
  <1>3. ASSUME NEW w \in Worker,
               \/ Loop(w) \/ Grab(w) \/ MqRelease(w) \/ NextQueue(w)
               \/ MqPop(w) /\ queue[wq[w]] = <<>>
               \/ MqLength(w) \/ Turn(w) \/ PutBack(w) \/ FreeQueue(w)
               \/ Sleep(w)
        PROVE  Calm
    <2>1. UNCHANGED <<to, msg, queue, cur, log, slot, cmem>>
      BY <1>3 DEF Loop, Grab, MqRelease, NextQueue, MqPop, MqLength, Turn,
         PutBack, FreeQueue, Sleep
    <2>2. Idle(w)
      BY <1>3 DEF Loop, Grab, MqRelease, NextQueue, MqPop, MqLength, Turn,
         PutBack, FreeQueue, Sleep, At
    <2>3. \A v \in Worker \ {w} : /\ pc'[v] = pc[v] /\ job'[v] = job[v]
                                  /\ ctx'[v] = ctx[v] /\ new'[v] = new[v]
      BY <1>3 DEF Loop, Grab, MqRelease, NextQueue, MqPop, MqLength, Turn,
         PutBack, FreeQueue, Sleep
    <2>4. /\ pc'[w] \in {"len", "exec"} <=> pc[w] \in {"len", "exec"}
          /\ pc[w] \in {"len", "exec"} => ctx'[w] = ctx[w]
      <3>1. CASE Loop(w) \/ Grab(w) \/ MqRelease(w) \/ NextQueue(w) \/ Sleep(w)
        BY <3>1 DEF Loop, Grab, MqRelease, NextQueue, Sleep, At
      <3>2. CASE \/ MqPop(w) /\ queue[wq[w]] = <<>>
                 \/ MqLength(w) \/ Turn(w) \/ PutBack(w)
        BY <3>2 DEF MqPop, MqLength, Turn, PutBack, At
      <3>3. CASE FreeQueue(w)
        <4>1. CASE job[w] = "drop"
          BY <3>3, <4>1 DEF FreeQueue
        <4>2. CASE job[w] # "drop"
          BY <3>3, <4>2 DEF FreeQueue, Dropping
        <4> QED
          BY <4>1, <4>2
      <3> QED
        BY <1>3, <3>1, <3>2, <3>3
    <2> QED
      BY <2>1, <2>2, <2>3, <2>4 DEF Idle
  <1>4. ASSUME NEW w \in Worker,
               \/ InitReturns(w) \/ SetInit(w) \/ Publish(w) \/ UseResult(w)
               \/ RetireFailed(w) \/ ReleaseFailed(w) \/ ScanPass(w)
               \/ Abort(w)
               \/ \E s \in Service : Kill(w, s) \/ ScanSlot(w, s)
        PROVE  Calm
    <2>1. UNCHANGED <<to, msg, queue, turnVars, log, cmem>> /\ Idle(w)
      BY <1>4 DEF InitReturns, SetInit, Publish, UseResult, RetireFailed,
         ReleaseFailed, ScanPass, Abort, Kill, ScanSlot, At, AtJob
    <2>2. slot' \subseteq slot
      BY <1>4 DEF InitReturns, SetInit, Publish, UseResult, RetireFailed,
         ReleaseFailed, ScanPass, Abort, Kill, ScanSlot, HandleRetire
    <2>3. \A v \in Worker \ {w} : job'[v] = job[v] /\ new'[v] = new[v]
      BY <1>4 DEF InitReturns, SetInit, Publish, UseResult, RetireFailed,
         ReleaseFailed, ScanPass, Abort, Kill, ScanSlot
    <2> QED
      BY <2>1, <2>2, <2>3 DEF Idle
  <1>5. ASSUME NEW w \in Worker, NEW s \in Service, Launch(w, s)
        PROVE  Calm
    BY <1>5 DEF Launch, At, Idle
  <1>6. ASSUME NEW w \in Worker, Wakeup(w)
        PROVE  Calm
    BY <1>6 DEF Wakeup
  <1>7. ASSUME Quit \/ UNCHANGED vars
        PROVE  Calm
    BY <1>7 DEF Quit, vars
  <1>8. ASSUME NEW w \in Worker, Command(w)
        PROVE  \/ Calm
               \/ \E s, d \in Service : Send(w, s, d) /\ SendsFor(w, s)
    BY <1>8, <1>4, <1>5, ServiceAssumption
    DEF Command, SendsFor, At, AtJob, WorkerInv
  <1> QED
    BY <1>2, <1>3, <1>4, <1>6, <1>7, <1>8
    DEF Next, Finish, Progress, Dispatch, Create, Scan, Post, Joined

(* The steps that move a message, seen by the messages. *)
Others(t) ==
  \A u \in Thread : u # t => to'[u] = to[u] /\ msg'[u] = msg[u]
SameLog ==
  /\ Len(log') = Len(log)
  /\ \A i \in 1..Len(log) : /\ log'[i].src = log[i].src
                            /\ log'[i].dst = log[i].dst
SameQueues(q) == \A p \in Service : p # q => queue'[p] = queue[p]
Still == UNCHANGED <<slot, cmem, job, new>>

LEMMA SameLogIsKept == TypeOK /\ SameLog => LogKept
  BY DEF TypeOK, SameLog, LogKept

LEMMA SendEffect ==
  ASSUME TypeOK, NEW t \in Thread, NEW s \in Service \cup {NoOne},
         NEW d \in Service, Send(t, s, d)
  PROVE  /\ Idle(t) /\ d \in slot /\ Len(log) < MaxMsg
         /\ to'[t] = d /\ msg'[t] = Len(log) + 1 /\ Others(t)
         /\ Len(log') = Len(log) + 1
         /\ log'[Len(log) + 1] = [src |-> s, dst |-> d, fate |-> "sending"]
         /\ \A i \in 1..Len(log) : log'[i] = log[i]
         /\ UNCHANGED <<queue, cur, pc, ctx>> /\ Still
  <1>1. /\ Idle(t) /\ d \in slot /\ Len(log) < MaxMsg
        /\ to' = [to EXCEPT ![t] = d]
        /\ msg' = [msg EXCEPT ![t] = Len(log) + 1]
        /\ log' = Append(log, [src |-> s, dst |-> d, fate |-> "sending"])
        /\ UNCHANGED <<queue, cur, pc, ctx>> /\ Still
    BY DEF Send, queueVars, turnVars, jobVars, Still
  <1>2. [src |-> s, dst |-> d, fate |-> "sending"] \in Request
    BY DEF Request, Fate
  <1>3. /\ Len(log') = Len(log) + 1
        /\ log'[Len(log) + 1] = [src |-> s, dst |-> d, fate |-> "sending"]
        /\ \A i \in 1..Len(log) : log'[i] = log[i]
    BY <1>1, <1>2 DEF TypeOK
  <1>4. to'[t] = d /\ msg'[t] = Len(log) + 1 /\ Others(t)
    BY <1>1 DEF TypeOK, CallType, Others
  <1> QED
    BY <1>1, <1>3, <1>4

LEMMA PushEffect ==
  ASSUME TypeOK, NEW t \in Thread, MqPush(t), MessageInv
  PROVE  /\ to[t] \in Service /\ Fits(msg[t], to[t])
         /\ Len(queue'[to[t]]) = Len(queue[to[t]]) + 1
         /\ queue'[to[t]][Len(queue[to[t]]) + 1] = msg[t]
         /\ \A k \in DOMAIN queue[to[t]] :
              queue'[to[t]][k] = queue[to[t]][k]
         /\ queue' = [queue EXCEPT ![to[t]] = Append(@, msg[t])]
         /\ SameQueues(to[t])
         /\ to'[t] = NoOne /\ Others(t)
         /\ SameLog
         /\ \A i \in 1..Len(log) :
              log'[i].fate = IF i = msg[t] THEN "queued"
                             ELSE IF i = -msg[t] THEN "reported"
                             ELSE log[i].fate
         /\ UNCHANGED <<cur, pc, ctx>> /\ Still
  <1> DEFINE q == to[t]
             m == msg[t]
  <1>1. /\ q # NoOne
        /\ queue' = [queue EXCEPT ![q] = Append(@, m)]
        /\ IF m > 0 THEN Mark(m, "queued") ELSE Mark(-m, "reported")
        /\ to' = [to EXCEPT ![t] = NoOne] /\ msg' = [msg EXCEPT ![t] = 0]
        /\ UNCHANGED <<cur, pc, ctx>> /\ Still
    BY DEF MqPush, turnVars, tableVars, jobVars, Still
  <1>2. q \in Service /\ m \in Int
    BY <1>1 DEF TypeOK, CallType
  <1>3. Fits(m, q)
    BY <1>1 DEF MessageInv
  <1> HIDE DEF q, m
  <1>4. /\ Len(queue'[q]) = Len(queue[q]) + 1
        /\ queue'[q][Len(queue[q]) + 1] = m
        /\ \A k \in DOMAIN queue[q] : queue'[q][k] = queue[q][k]
        /\ SameQueues(q)
    BY <1>1, <1>2 DEF TypeOK, QueueType, SameQueues
  <1>5. to'[t] = NoOne /\ Others(t)
    BY <1>1 DEF TypeOK, CallType, Others
  <1>6. /\ SameLog
        /\ \A i \in 1..Len(log) :
             log'[i].fate = IF i = m THEN "queued"
                            ELSE IF i = -m THEN "reported"
                            ELSE log[i].fate
    <2>1. CASE m > 0
      BY <1>1, <1>2, <2>1, MarkEffect DEF TypeOK, SameLog
    <2>2. CASE ~(m > 0)
      <3>1. -m \in Int /\ Mark(-m, "reported")
        BY <1>1, <1>2, <2>2
      <3> QED
        BY <1>2, <2>2, <3>1, MarkEffect DEF TypeOK, SameLog
    <2> QED
      BY <2>1, <2>2
  <1> QED
    BY <1>1, <1>2, <1>3, <1>4, <1>5, <1>6 DEF q, m

LEMMA PopEffect ==
  ASSUME TypeOK, WorkerInv, MessageInv, NEW w \in Worker, MqPop(w),
         queue[wq[w]] # <<>>
  PROVE  /\ Idle(w) /\ pc[w] = "pop" /\ job[w] = "none" /\ cur[w] = 0
         /\ wq[w] \in Service /\ ctx[w] = wq[w]
         /\ queue[wq[w]] \in Seq(Int)
         /\ Fits(Head(queue[wq[w]]), wq[w])
         /\ cur'[w] = Head(queue[wq[w]])
         /\ \A v \in Worker : v # w => cur'[v] = cur[v] /\ pc'[v] = pc[v]
         /\ pc'[w] \in {"len", "exec"}
         /\ queue' = [queue EXCEPT ![wq[w]] = Tail(@)]
         /\ queue'[wq[w]] = Tail(queue[wq[w]]) /\ SameQueues(wq[w])
         /\ SameLog
         /\ \A i \in 1..Len(log) :
              log'[i].fate = IF i = Head(queue[wq[w]]) THEN "running"
                             ELSE log[i].fate
         /\ UNCHANGED <<to, msg, ctx>> /\ Still
  <1> DEFINE q == wq[w]
             m == Head(queue[q])
  <1>1. /\ At(w, "pop")
        /\ queue' = [queue EXCEPT ![q] = Tail(@)]
        /\ cur' = [cur EXCEPT ![w] = m]
        /\ pc' = [pc EXCEPT ![w] =
                    IF left[w] = -1 /\ Weight[w] >= 0 THEN "len" ELSE "exec"]
        /\ IF m > 0 THEN Mark(m, "running") ELSE UNCHANGED log
        /\ UNCHANGED <<to, msg, ctx>> /\ Still
    BY DEF MqPop, tableVars, jobVars, Still
  <1>2. /\ q \in Service /\ ctx[w] = q
        /\ cur[w] = 0
    BY <1>1 DEF WorkerInv, At, TypeOK, TurnType, MessageInv
  <1>3. queue[q] \in Seq(Int) /\ 1 \in DOMAIN queue[q] /\ m = queue[q][1]
    <2>1. queue[q] \in Seq(Int)
      BY <1>2 DEF TypeOK, QueueType
    <2> QED
      BY <2>1
  <1>4. Fits(m, q)
    BY <1>2, <1>3 DEF MessageInv
  <1>5. m \in Int
    BY <1>3
  <1> HIDE DEF q, m
  <1>6. /\ cur'[w] = m /\ pc'[w] \in {"len", "exec"}
        /\ \A v \in Worker : v # w => cur'[v] = cur[v] /\ pc'[v] = pc[v]
    BY <1>1 DEF TypeOK, TurnType
  <1>7. queue'[q] = Tail(queue[q]) /\ SameQueues(q)
    BY <1>1, <1>2 DEF TypeOK, QueueType, SameQueues
  <1>8. /\ SameLog
        /\ \A i \in 1..Len(log) :
             log'[i].fate = IF i = m THEN "running" ELSE log[i].fate
    <2>1. CASE m > 0
      BY <1>1, <1>5, <2>1, MarkEffect DEF TypeOK, SameLog
    <2>2. CASE ~(m > 0)
      BY <1>1, <1>5, <2>2 DEF SameLog
    <2> QED
      BY <2>1, <2>2
  <1>9. Idle(w) /\ pc[w] = "pop" /\ job[w] = "none"
    BY <1>1 DEF At
  <1>10. /\ queue' = [queue EXCEPT ![q] = Tail(@)]
         /\ UNCHANGED <<to, msg, ctx>> /\ Still
    BY <1>1
  <1> QED
    BY <1>2, <1>3, <1>4, <1>6, <1>7, <1>8, <1>9, <1>10 DEF q, m

LEMMA ReturnEffect ==
  ASSUME TypeOK, MessageInv, NEW w \in Worker, Return(w)
  PROVE  /\ Idle(w) /\ pc[w] = "exec" /\ job[w] = "none"
         /\ IsMessage(cur[w]) /\ cur'[w] = 0
         /\ \A v \in Worker : v # w => cur'[v] = cur[v] /\ pc'[v] = pc[v]
         /\ pc'[w] \in {"pop", "turn"}
         /\ SameLog
         /\ \A i \in 1..Len(log) :
              log'[i].fate = IF i = cur[w] THEN "done"
                             ELSE IF i = -cur[w] THEN "told"
                             ELSE log[i].fate
         /\ UNCHANGED <<to, msg, queue, ctx>> /\ Still
  <1> DEFINE m == cur[w]
  <1>1. /\ At(w, "exec")
        /\ IF m > 0 THEN Mark(m, "done") ELSE Mark(-m, "told")
        /\ cur' = [cur EXCEPT ![w] = 0]
        /\ pc' = [pc EXCEPT ![w] = IF left[w] > 0 THEN "pop" ELSE "turn"]
        /\ UNCHANGED <<to, msg, queue, ctx>> /\ Still
    BY DEF Return, tableVars, queueVars, callVars, jobVars, Still
  <1>2. m \in Int /\ IsMessage(m)
    BY <1>1 DEF At, TypeOK, TurnType, MessageInv
  <1>3. /\ cur'[w] = 0 /\ pc'[w] \in {"pop", "turn"}
        /\ \A v \in Worker : v # w => cur'[v] = cur[v] /\ pc'[v] = pc[v]
    BY <1>1 DEF TypeOK, TurnType
  <1> HIDE DEF m
  <1>4. /\ SameLog
        /\ \A i \in 1..Len(log) :
             log'[i].fate = IF i = m THEN "done"
                            ELSE IF i = -m THEN "told"
                            ELSE log[i].fate
    <2>1. CASE m > 0
      BY <1>1, <1>2, <2>1, MarkEffect DEF TypeOK, SameLog
    <2>2. CASE ~(m > 0)
      <3>1. -m \in Int /\ Mark(-m, "told")
        BY <1>1, <1>2, <2>2
      <3> QED
        BY <1>2, <2>2, <3>1, MarkEffect DEF TypeOK, SameLog
    <2> QED
      BY <2>1, <2>2
  <1>5. Idle(w) /\ pc[w] = "exec" /\ job[w] = "none"
    BY <1>1 DEF At
  <1> QED
    BY <1>1, <1>2, <1>3, <1>4, <1>5 DEF m

LEMMA DropEffect ==
  ASSUME IInv, MessageInv, NEW w \in Worker, DropMessage(w)
  PROVE  \E q \in Service :
           LET m == Head(queue[q]) IN
           /\ Idle(w) /\ q \in release /\ q \notin slot
           /\ queue[q] \in Seq(Int) /\ queue[q] # <<>>
           /\ Fits(m, q)
           /\ queue' = [queue EXCEPT ![q] = Tail(@)]
           /\ queue'[q] = Tail(queue[q]) /\ SameQueues(q)
           /\ Others(w)
           /\ SameLog
           /\ \/ /\ m > 0 /\ log[m].src \in slot
                 /\ to'[w] = log[m].src /\ msg'[w] = -m
                 /\ \A i \in 1..Len(log) :
                      log'[i].fate = IF i = m THEN "dropped" ELSE log[i].fate
              \/ /\ m > 0 /\ log[m].src \notin slot
                 /\ UNCHANGED <<to, msg>>
                 /\ \A i \in 1..Len(log) :
                      log'[i].fate = IF i = m THEN "lost" ELSE log[i].fate
              \/ /\ ~(m > 0)
                 /\ UNCHANGED <<to, msg>>
                 /\ \A i \in 1..Len(log) :
                      log'[i].fate = IF i = -m THEN "lost" ELSE log[i].fate
           /\ UNCHANGED <<cur, pc, ctx>> /\ Still
  <1>1. Dropping(w) \in Service /\ Dropping(w) \in release
    BY DEF DropMessage, Dropping, IInv, TypeOK, TurnType, JobType, DropInv
  <1>2. PICK q \in Service : q = Dropping(w)
    BY <1>1
  <1> DEFINE m == Head(queue[q])
             src == log[m].src
  <1>3. /\ Idle(w) /\ queue[q] # <<>>
        /\ queue' = [queue EXCEPT ![q] = Tail(@)]
        /\ \/ /\ m > 0 /\ src \in slot
              /\ to' = [to EXCEPT ![w] = src]
              /\ msg' = [msg EXCEPT ![w] = -m]
              /\ Mark(m, "dropped")
           \/ /\ m > 0 /\ src \notin slot
              /\ UNCHANGED <<to, msg>> /\ Mark(m, "lost")
           \/ /\ ~(m > 0)
              /\ UNCHANGED <<to, msg>> /\ Mark(-m, "lost")
        /\ UNCHANGED <<cur, pc, ctx>> /\ Still
    <2>1. \/ m > 0 /\ src \in slot
          \/ m > 0 /\ src \notin slot
          \/ ~(m > 0)
      OBVIOUS
    <2>2. /\ Idle(w) /\ queue[q] # <<>>
          /\ queue' = [queue EXCEPT ![q] = Tail(@)]
          /\ UNCHANGED <<cur, pc, ctx>> /\ Still
      BY <1>2 DEF DropMessage, turnVars, jobVars, Still
    <2>3. IF m > 0 /\ src \in slot
          THEN /\ to' = [to EXCEPT ![w] = src]
               /\ msg' = [msg EXCEPT ![w] = -m]
               /\ Mark(m, "dropped")
          ELSE /\ IF m > 0 THEN Mark(m, "lost") ELSE Mark(-m, "lost")
               /\ UNCHANGED <<to, msg>>
      BY <1>2 DEF DropMessage
    <2> HIDE DEF m, src
    <2> QED
      BY <2>1, <2>2, <2>3
  <1>4. q \in release /\ q \notin slot
    BY <1>1, <1>2, HeldIsLive DEF IInv, Holder
  <1>5. queue[q] \in Seq(Int) /\ 1 \in DOMAIN queue[q] /\ m = queue[q][1]
    <2>1. queue[q] \in Seq(Int)
      BY DEF IInv, TypeOK, QueueType
    <2> QED
      BY <1>3, <2>1
  <1>6. Fits(m, q)
    BY <1>5 DEF MessageInv
  <1>7. m \in Int /\ -m \in Int
    BY <1>5
  <1> HIDE DEF m
  <1>8. queue'[q] = Tail(queue[q]) /\ SameQueues(q)
    BY <1>3 DEF IInv, TypeOK, QueueType, SameQueues
  <1>9. Others(w)
    BY <1>3 DEF Others, IInv, TypeOK, CallType
  <1>10. SameLog
    BY <1>3, <1>7, MarkEffect DEF IInv, TypeOK, SameLog
  <1>11. \/ /\ m > 0 /\ src \in slot
            /\ to'[w] = src /\ msg'[w] = -m
            /\ \A i \in 1..Len(log) :
                 log'[i].fate = IF i = m THEN "dropped" ELSE log[i].fate
         \/ /\ m > 0 /\ src \notin slot
            /\ UNCHANGED <<to, msg>>
            /\ \A i \in 1..Len(log) :
                 log'[i].fate = IF i = m THEN "lost" ELSE log[i].fate
         \/ /\ ~(m > 0)
            /\ UNCHANGED <<to, msg>>
            /\ \A i \in 1..Len(log) :
                 log'[i].fate = IF i = -m THEN "lost" ELSE log[i].fate
    <2> HIDE DEF src
    <2>1. CASE /\ m > 0 /\ src \in slot
               /\ to' = [to EXCEPT ![w] = src]
               /\ msg' = [msg EXCEPT ![w] = -m]
               /\ Mark(m, "dropped")
      <3>1. to'[w] = src /\ msg'[w] = -m
        BY <2>1 DEF IInv, TypeOK, CallType, Thread
      <3> QED
        BY <1>7, <2>1, <3>1, MarkEffect DEF IInv, TypeOK
    <2>2. CASE /\ m > 0 /\ src \notin slot
               /\ UNCHANGED <<to, msg>> /\ Mark(m, "lost")
      BY <1>7, <2>2, MarkEffect DEF IInv, TypeOK
    <2>3. CASE /\ ~(m > 0)
               /\ UNCHANGED <<to, msg>> /\ Mark(-m, "lost")
      BY <1>7, <2>3, MarkEffect DEF IInv, TypeOK
    <2> QED
      BY <1>3, <2>1, <2>2, <2>3
  <1> QED
    BY <1>3, <1>4, <1>5, <1>6, <1>8, <1>9, <1>10, <1>11 DEF m, src

(* A service that sends is alive. *)
LEMMA SenderIsLive ==
  ASSUME IInv, NEW w \in Worker, NEW s \in Service, SendsFor(w, s)
  PROVE  cmem[s] = "live"
  <1>1. ctx[w] = s \/ (job[w] = "init" /\ new[w] = s)
    BY DEF SendsFor
  <1> QED
    BY <1>1, HeldIsLive DEF IInv, Holder, Thread

(* Two workers that send for one service are one. *)
LEMMA OneSender ==
  ASSUME IInv, NEW v \in Worker, NEW w \in Worker, NEW s \in Service,
         SendsFor(v, s), SendsFor(w, s)
  PROVE  v = w
  <1>1. ASSUME NEW u \in Worker, SendsFor(u, s)
        PROVE  \E k \in Place : Hand(k, u) = s
    <2>1. CASE job[u] = "none" /\ ctx[u] = s
      <3>1. wq[u] = s
        BY <1>1, <2>1, ServiceAssumption DEF SendsFor, IInv, WorkerInv
      <3> QED
        BY <3>1 DEF Hand, Place
    <2>2. CASE job[u] = "init" /\ new[u] = s
      BY <2>2 DEF Hand, Place
    <2> QED
      BY <1>1, <2>1, <2>2 DEF SendsFor
  <1>2. PICK k \in Place : Hand(k, v) = s
    BY <1>1
  <1>3. PICK l \in Place : Hand(l, w) = s
    BY <1>1
  <1> QED
    BY <1>2, <1>3, ServiceAssumption DEF IInv, OneOwner

LEMMA SourceType ==
  ASSUME TypeOK, NEW i \in 1..Len(log)
  PROVE  log[i].src \in Service \cup {NoOne} /\ log[i].dst \in Service
  <1>1. log[i] \in Request
    BY DEF TypeOK
  <1> QED
    BY <1>1 DEF Request

(* Where messages may be after a step: where they were, or properly moved. *)
LEMMA MessagesMove ==
  ASSUME TypeOK, TypeOK', MessageInv, LogKept,
         \A t \in Thread : \/ to'[t] = NoOne
                           \/ to'[t] = to[t] /\ msg'[t] = msg[t]
                           \/ Fits(msg[t], to[t])',
         \A q \in Service : \A k \in DOMAIN queue'[q] :
           \/ \E l \in DOMAIN queue[q] : queue'[q][k] = queue[q][l]
           \/ Fits(queue[q][k], q)',
         \A w \in Worker :
           \/ /\ pc'[w] \in {"len", "exec"} <=> pc[w] \in {"len", "exec"}
              /\ cur'[w] = cur[w]
           \/ pc'[w] \in {"len", "exec"} /\ IsMessage(cur[w])'
           \/ pc'[w] \notin {"len", "exec"} /\ cur'[w] = 0,
         \A i \in 1..Len(log') :
           \/ i \in 1..Len(log)
           \/ log'[i].src = NoOne \/ cmem[log'[i].src] # "none",
         \A s \in Service : cmem'[s] = "none" => cmem[s] = "none"
  PROVE  MessageInv'
  <1>1. ASSUME NEW m, NEW s, Fits(m, s)
        PROVE  Fits(m, s)'
    BY <1>1, MessageKept DEF Fits
  <1>2. ASSUME NEW t \in Thread, to'[t] # NoOne
        PROVE  Fits(msg[t], to[t])'
    <2>1. CASE to'[t] = to[t] /\ msg'[t] = msg[t]
      <3>1. Fits(msg[t], to[t])
        BY <1>2, <2>1 DEF MessageInv
      <3>2. PICK m, s : m = msg[t] /\ s = to[t]
        OBVIOUS
      <3>3. Fits(m, s)'
        BY <1>1, <3>1, <3>2
      <3> QED
        BY <2>1, <3>2, <3>3
    <2> QED
      BY <1>2, <2>1
  <1>3. ASSUME NEW q \in Service, NEW k \in DOMAIN queue'[q]
        PROVE  Fits(queue[q][k], q)'
    <2>1. CASE \E l \in DOMAIN queue[q] : queue'[q][k] = queue[q][l]
      <3>1. PICK l \in DOMAIN queue[q] : queue'[q][k] = queue[q][l]
        BY <2>1
      <3>2. PICK m : m = queue[q][l]
        OBVIOUS
      <3>3. Fits(m, q)
        BY <3>2 DEF MessageInv
      <3>4. Fits(m, q)'
        BY <1>1, <3>3
      <3> QED
        BY <3>1, <3>2, <3>4
    <2> QED
      BY <2>1
  <1>4. ASSUME NEW w \in Worker
        PROVE  IF pc'[w] \in {"len", "exec"} THEN IsMessage(cur[w])'
               ELSE cur'[w] = 0
    <2>1. CASE /\ pc'[w] \in {"len", "exec"} <=> pc[w] \in {"len", "exec"}
               /\ cur'[w] = cur[w]
      <3>1. CASE pc[w] \in {"len", "exec"}
        <4>1. PICK m : m = cur[w]
          OBVIOUS
        <4>2. IsMessage(m)
          BY <3>1, <4>1 DEF MessageInv
        <4>3. IsMessage(m)'
          BY <4>2, MessageKept
        <4> QED
          BY <2>1, <3>1, <4>1, <4>3
      <3>2. CASE pc[w] \notin {"len", "exec"}
        BY <2>1, <3>2 DEF MessageInv
      <3> QED
        BY <3>1, <3>2
    <2> QED
      BY <2>1
  <1>5. ASSUME NEW i \in 1..Len(log'), log'[i].src # NoOne
        PROVE  cmem'[log'[i].src] # "none"
    <2>1. log'[i].src \in Service
      <3>1. log'[i] \in Request
        BY DEF TypeOK
      <3> QED
        BY <1>5, <3>1 DEF Request
    <2>2. cmem[log'[i].src] # "none"
      BY <1>5 DEF MessageInv, LogKept
    <2> QED
      BY <2>1, <2>2
  <1> QED
    BY <1>2, <1>3, <1>4, <1>5 DEF MessageInv

LEMMA SendMessages ==
  ASSUME IInv, TypeOK', MessageInv, NEW t \in Thread,
         NEW s \in Service \cup {NoOne}, NEW d \in Service, Send(t, s, d),
         s # NoOne => t \in Worker /\ SendsFor(t, s)
  PROVE  MessageInv'
  <1>1. TypeOK /\ Len(log) \in Nat
    BY DEF IInv, TypeOK
  <1>2. /\ to'[t] = d /\ msg'[t] = Len(log) + 1 /\ Others(t)
        /\ Len(log') = Len(log) + 1
        /\ log'[Len(log) + 1] = [src |-> s, dst |-> d, fate |-> "sending"]
        /\ \A i \in 1..Len(log) : log'[i] = log[i]
        /\ UNCHANGED <<queue, cur, pc, ctx>> /\ cmem' = cmem
    BY <1>1, SendEffect DEF Still
  <1>3. LogKept
    BY <1>1, <1>2 DEF LogKept
  <1>4. Fits(msg[t], to[t])'
    BY <1>1, <1>2 DEF Fits, IsMessage, Target
  <1>5. \A i \in 1..Len(log') :
          \/ i \in 1..Len(log)
          \/ log'[i].src = NoOne \/ cmem[log'[i].src] # "none"
    <2>1. s # NoOne => cmem[s] # "none"
      BY SenderIsLive
    <2> QED
      BY <1>1, <1>2, <2>1
  <1> QED
    BY <1>1, <1>2, <1>3, <1>4, <1>5, MessagesMove DEF Others

LEMMA PushMessages ==
  ASSUME TypeOK, TypeOK', MessageInv, NEW t \in Thread, MqPush(t)
  PROVE  MessageInv'
  <1>1. PICK q \in Service : q = to[t]
    BY PushEffect
  <1>2. /\ Fits(msg[t], q)
        /\ Len(queue'[q]) = Len(queue[q]) + 1
        /\ queue'[q][Len(queue[q]) + 1] = msg[t]
        /\ \A k \in DOMAIN queue[q] : queue'[q][k] = queue[q][k]
        /\ SameQueues(q) /\ to'[t] = NoOne /\ Others(t) /\ SameLog
        /\ UNCHANGED <<cur, pc>> /\ cmem' = cmem
    BY <1>1, PushEffect DEF Still
  <1>3. PICK m : m = msg[t]
    OBVIOUS
  <1>4. LogKept /\ IsMessage(m)
    BY <1>2, <1>3, SameLogIsKept DEF Fits
  <1>5. Fits(m, q)'
    BY <1>2, <1>3, <1>4, MessageKept
  <1>6. ASSUME NEW p \in Service, NEW k \in DOMAIN queue'[p]
        PROVE  \/ \E l \in DOMAIN queue[p] : queue'[p][k] = queue[p][l]
               \/ Fits(queue[p][k], p)'
    <2>1. CASE p = q
      <3>1. /\ queue[q] \in Seq(Int) /\ queue'[q] \in Seq(Int)
        BY DEF TypeOK, QueueType
      <3>2. k \in DOMAIN queue[q] \/ k = Len(queue[q]) + 1
        BY <1>2, <2>1, <3>1
      <3>3. CASE k \in DOMAIN queue[q]
        BY <1>2, <2>1, <3>3
      <3>4. CASE k = Len(queue[q]) + 1
        BY <1>2, <1>3, <1>5, <2>1, <3>4
      <3> QED
        BY <3>2, <3>3, <3>4
    <2>2. CASE p # q
      BY <1>2, <2>2 DEF SameQueues
    <2> QED
      BY <2>1, <2>2
  <1>7. /\ \A u \in Thread : \/ to'[u] = NoOne
                             \/ to'[u] = to[u] /\ msg'[u] = msg[u]
        /\ \A i \in 1..Len(log') : i \in 1..Len(log)
    BY <1>2 DEF Others, SameLog
  <1> QED
    BY <1>2, <1>4, <1>6, <1>7, MessagesMove

LEMMA TailElements ==
  ASSUME NEW s \in Seq(Int), s # <<>>, NEW k \in DOMAIN Tail(s)
  PROVE  k + 1 \in DOMAIN s /\ Tail(s)[k] = s[k + 1]
  OBVIOUS

LEMMA PopMessages ==
  ASSUME TypeOK, TypeOK', WorkerInv, MessageInv, NEW w \in Worker, MqPop(w),
         queue[wq[w]] # <<>>
  PROVE  MessageInv'
  <1>1. PICK q \in Service : q = wq[w]
    BY PopEffect
  <1>2. /\ Fits(Head(queue[q]), q) /\ cur'[w] = Head(queue[q])
        /\ \A v \in Worker : v # w => cur'[v] = cur[v] /\ pc'[v] = pc[v]
        /\ pc'[w] \in {"len", "exec"}
        /\ queue[q] \in Seq(Int) /\ queue[q] # <<>>
        /\ queue'[q] = Tail(queue[q]) /\ SameQueues(q)
        /\ SameLog
        /\ UNCHANGED <<to, msg>> /\ cmem' = cmem
    BY <1>1, PopEffect DEF Still
  <1>3. PICK m : m = Head(queue[q])
    OBVIOUS
  <1>4. LogKept /\ IsMessage(m)
    BY <1>2, <1>3, SameLogIsKept DEF Fits
  <1>5. IsMessage(cur[w])'
    <2>1. IsMessage(m)'
      BY <1>4, MessageKept
    <2> QED
      BY <1>2, <1>3, <2>1
  <1>6. ASSUME NEW p \in Service, NEW k \in DOMAIN queue'[p]
        PROVE  \E l \in DOMAIN queue[p] : queue'[p][k] = queue[p][l]
    <2>1. CASE p = q
      <3>1. k \in DOMAIN Tail(queue[q])
        BY <1>2, <2>1
      <3>2. k + 1 \in DOMAIN queue[q] /\ Tail(queue[q])[k] = queue[q][k + 1]
        BY <1>2, <3>1, TailElements
      <3> QED
        BY <1>2, <2>1, <3>2
    <2>2. CASE p # q
      BY <1>2, <2>2 DEF SameQueues
    <2> QED
      BY <2>1, <2>2
  <1>7. \A i \in 1..Len(log') : i \in 1..Len(log)
    BY <1>2 DEF SameLog
  <1> QED
    BY <1>2, <1>4, <1>5, <1>6, <1>7, MessagesMove

LEMMA ReturnMessages ==
  ASSUME TypeOK, TypeOK', MessageInv, NEW w \in Worker, Return(w)
  PROVE  MessageInv'
  <1>1. /\ cur'[w] = 0 /\ pc'[w] \notin {"len", "exec"}
        /\ \A v \in Worker : v # w => cur'[v] = cur[v] /\ pc'[v] = pc[v]
        /\ SameLog /\ UNCHANGED <<to, msg, queue>> /\ cmem' = cmem
    BY ReturnEffect DEF Still
  <1>2. LogKept /\ \A i \in 1..Len(log') : i \in 1..Len(log)
    BY <1>1, SameLogIsKept DEF SameLog
  <1> QED
    BY <1>1, <1>2, MessagesMove

LEMMA DropMessages ==
  ASSUME IInv, TypeOK', MessageInv, NEW w \in Worker, DropMessage(w)
  PROVE  MessageInv'
  <1>1. PICK q \in Service :
          /\ queue[q] \in Seq(Int) /\ queue[q] # <<>>
          /\ Fits(Head(queue[q]), q)
          /\ queue'[q] = Tail(queue[q]) /\ SameQueues(q)
          /\ Others(w) /\ SameLog
          /\ \/ /\ Head(queue[q]) > 0
                /\ to'[w] = log[Head(queue[q])].src
                /\ msg'[w] = -Head(queue[q])
             \/ UNCHANGED <<to, msg>>
          /\ UNCHANGED <<cur, pc>> /\ cmem' = cmem
    BY DropEffect DEF Still
  <1>2. PICK m : m = Head(queue[q])
    OBVIOUS
  <1>3. TypeOK /\ LogKept /\ IsMessage(m) /\ Len(log) \in Nat
    BY <1>1, <1>2, SameLogIsKept DEF Fits, IInv, TypeOK
  <1>4. \/ UNCHANGED <<to, msg>>
        \/ Fits(msg[w], to[w])'
    <2>1. CASE m > 0 /\ to'[w] = log[m].src /\ msg'[w] = -m
      <3>1. m \in 1..Len(log) /\ -m \in Int /\ ~(-m > 0) /\ -(-m) = m
        BY <1>3, <2>1 DEF IsMessage
      <3>2. /\ msg'[w] \in (-Len(log'))..Len(log') /\ msg'[w] # 0
            /\ log'[-msg'[w]].src = log[m].src /\ ~(msg'[w] > 0)
        BY <1>1, <1>3, <2>1, <3>1 DEF SameLog
      <3> QED
        BY <2>1, <3>2 DEF Fits, IsMessage, Target
    <2> QED
      BY <1>1, <1>2, <2>1
  <1>5. ASSUME NEW p \in Service, NEW k \in DOMAIN queue'[p]
        PROVE  \E l \in DOMAIN queue[p] : queue'[p][k] = queue[p][l]
    <2>1. CASE p = q
      <3>1. k \in DOMAIN Tail(queue[q])
        BY <1>1, <2>1
      <3>2. k + 1 \in DOMAIN queue[q] /\ Tail(queue[q])[k] = queue[q][k + 1]
        BY <1>1, <3>1, TailElements
      <3> QED
        BY <1>1, <2>1, <3>2
    <2>2. CASE p # q
      BY <1>1, <2>2 DEF SameQueues
    <2> QED
      BY <2>1, <2>2
  <1>6. \A i \in 1..Len(log') : i \in 1..Len(log)
    BY <1>1 DEF SameLog
  <1>7. \A u \in Thread : \/ to'[u] = to[u] /\ msg'[u] = msg[u]
                          \/ Fits(msg[u], to[u])'
    BY <1>1, <1>4 DEF Others
  <1> QED
    BY <1>1, <1>3, <1>5, <1>6, <1>7, MessagesMove

LEMMA CalmMessages ==
  ASSUME TypeOK, TypeOK', MessageInv, Calm
  PROVE  MessageInv'
  <1>1. LogKept /\ \A i \in 1..Len(log') : i \in 1..Len(log)
    BY DEF Calm, LogKept, TypeOK
  <1>2. /\ UNCHANGED <<to, msg, queue, cur, log>>
        /\ \A s \in Service : cmem'[s] = "none" => cmem[s] = "none"
        /\ \A w \in Worker :
             pc'[w] \in {"len", "exec"} <=> pc[w] \in {"len", "exec"}
    BY DEF Calm
  <1> QED
    BY <1>1, <1>2, MessagesMove

LEMMA MessageStep ==
  ASSUME IInv, TypeOK', MessageInv, [Next]_vars
  PROVE  MessageInv'
  <1>1. TypeOK /\ WorkerInv
    BY DEF IInv
  <1> QED
    BY <1>1, CalmStep, CalmMessages, SendMessages, PushMessages, PopMessages,
       ReturnMessages, DropMessages DEF Thread

(* Nobody takes up a new request, and who carries one stays where it is. *)
LEMMA SenderKept ==
  ASSUME TypeOK, SenderInv, SameLog,
         \A t \in Thread : \/ to'[t] = NoOne
                           \/ to'[t] = to[t] /\ msg'[t] = msg[t]
                           \/ msg'[t] \notin 1..Len(log),
         \A w \in Worker : pc[w] = "exec" /\ to[w] # NoOne =>
           /\ pc'[w] = pc[w] /\ job'[w] = job[w]
           /\ ctx'[w] = ctx[w] /\ new'[w] = new[w]
  PROVE  SenderInv'
  <1>1. ASSUME NEW t \in Thread, NEW i \in 1..Len(log'),
               to'[t] # NoOne, msg'[t] = i, log'[i].src # NoOne
        PROVE  /\ t \in Worker /\ SendsFor(t, log[i].src)'
               /\ \A j \in (i + 1)..Len(log') : log'[j].src # log'[i].src
    <2>1. Len(log) \in Nat /\ Len(log') = Len(log)
      BY DEF TypeOK, SameLog
    <2>2. PICK s : s = log[i].src
      OBVIOUS
    <2>3. i \in 1..Len(log) /\ log'[i].src = s /\ s # NoOne
      BY <1>1, <2>1, <2>2 DEF SameLog
    <2>4. to'[t] = to[t] /\ msg'[t] = msg[t]
      BY <1>1, <2>1
    <2>5. /\ t \in Worker /\ SendsFor(t, s)
          /\ \A j \in (i + 1)..Len(log) : log[j].src # s
      BY <1>1, <2>2, <2>3, <2>4 DEF SenderInv
    <2>6. SendsFor(t, s)'
      BY <1>1, <2>4, <2>5 DEF SendsFor
    <2>7. \A j \in (i + 1)..Len(log') : log'[j].src # s
      <3>1. ASSUME NEW j \in (i + 1)..Len(log')
            PROVE  log'[j].src # s
        <4>1. j \in (i + 1)..Len(log) /\ j \in 1..Len(log)
          BY <2>1, <2>3
        <4> QED
          BY <2>5, <4>1 DEF SameLog
      <3> QED
        BY <3>1
    <2> QED
      BY <2>3, <2>5, <2>6, <2>7
  <1> QED
    BY <1>1 DEF SenderInv

LEMMA SendSender ==
  ASSUME IInv, MessageInv, SenderInv, NEW w \in Thread,
         NEW r \in Service \cup {NoOne}, NEW d \in Service, Send(w, r, d),
         r # NoOne => w \in Worker /\ SendsFor(w, r)
  PROVE  SenderInv'
  <1>0. TypeOK /\ Len(log) \in Nat
    BY DEF IInv, TypeOK
  <1>1. /\ Idle(w)
        /\ to'[w] = d /\ msg'[w] = Len(log) + 1 /\ Others(w)
        /\ Len(log') = Len(log) + 1
        /\ log'[Len(log) + 1] = [src |-> r, dst |-> d, fate |-> "sending"]
        /\ \A i \in 1..Len(log) : log'[i] = log[i]
        /\ UNCHANGED <<pc, ctx, job, new>>
    BY <1>0, SendEffect DEF Still
  <1>2. ASSUME NEW t \in Thread, NEW i \in 1..Len(log'),
               to'[t] # NoOne, msg'[t] = i, log'[i].src # NoOne
        PROVE  /\ t \in Worker /\ SendsFor(t, log[i].src)'
               /\ \A j \in (i + 1)..Len(log') : log'[j].src # log'[i].src
    <2>1. CASE t = w
      <3>1. i = Len(log) + 1 /\ log'[i].src = r /\ r # NoOne
        BY <1>1, <1>2, <2>1
      <3>2. t \in Worker /\ SendsFor(t, r)'
        BY <1>1, <2>1, <3>1 DEF SendsFor
      <3> QED
        BY <1>0, <1>1, <3>1, <3>2
    <2>2. CASE t # w
      <3>1. to'[t] = to[t] /\ msg'[t] = msg[t]
        BY <1>1, <2>2 DEF Others
      <3>2. IsMessage(msg[t])
        BY <1>2, <3>1 DEF MessageInv, Fits
      <3>3. i \in 1..Len(log)
        BY <1>0, <1>1, <1>2, <3>1, <3>2 DEF IsMessage
      <3>4. PICK s : s = log[i].src
        OBVIOUS
      <3>5. log'[i].src = s /\ s # NoOne /\ s \in Service
        BY <1>0, <1>1, <1>2, <3>3, <3>4, SourceType
      <3>6. /\ t \in Worker /\ SendsFor(t, s)
            /\ \A j \in (i + 1)..Len(log) : log[j].src # s
        BY <1>2, <3>1, <3>3, <3>4, <3>5 DEF SenderInv
      <3>7. r # s
        BY <2>2, <3>5, <3>6, OneSender
      <3>8. SendsFor(t, s)'
        BY <1>1, <3>6 DEF SendsFor
      <3>9. ASSUME NEW j \in (i + 1)..Len(log')
            PROVE  log'[j].src # s
        <4>1. \/ j \in 1..Len(log) /\ j \in (i + 1)..Len(log)
              \/ j = Len(log) + 1
          BY <1>0, <1>1, <3>3
        <4> QED
          BY <1>1, <3>6, <3>7, <4>1
      <3> QED
        BY <3>5, <3>6, <3>8, <3>9
    <2> QED
      BY <2>1, <2>2
  <1> QED
    BY <1>2 DEF SenderInv

LEMMA SenderStep ==
  ASSUME IInv, TypeOK', MessageInv, SenderInv, [Next]_vars
  PROVE  SenderInv'
  <1>0. TypeOK /\ WorkerInv
    BY DEF IInv
  <1>1. CASE Calm
    BY <1>0, <1>1, SenderKept DEF Calm, SameLog
  <1>2. ASSUME NEW t \in Thread, MqPush(t)
        PROVE  SenderInv'
    <2>1. /\ to'[t] = NoOne /\ Others(t) /\ SameLog
          /\ UNCHANGED <<pc, ctx, job, new>>
      BY <1>0, <1>2, PushEffect DEF Still
    <2> QED
      BY <1>0, <2>1, SenderKept DEF Others
  <1>3. ASSUME NEW w \in Worker,
               \/ MqPop(w) /\ queue[wq[w]] # <<>>
               \/ Return(w)
        PROVE  SenderInv'
    <2>1. /\ Idle(w) /\ SameLog
          /\ \A v \in Worker : v # w => pc'[v] = pc[v]
          /\ UNCHANGED <<to, msg, ctx, job, new>>
      BY <1>0, <1>3, PopEffect, ReturnEffect DEF Still
    <2> QED
      BY <1>0, <2>1, SenderKept DEF Idle
  <1>4. ASSUME NEW w \in Worker, DropMessage(w)
        PROVE  SenderInv'
    <2>1. PICK q \in Service :
            /\ Others(w) /\ SameLog
            /\ \/ Head(queue[q]) > 0 /\ msg'[w] = -Head(queue[q])
               \/ UNCHANGED <<to, msg>>
            /\ Fits(Head(queue[q]), q)
            /\ UNCHANGED <<pc, ctx, job, new>>
      BY <1>4, DropEffect DEF Still
    <2>2. PICK m : m = Head(queue[q])
      OBVIOUS
    <2>3. m \in Int /\ (m > 0 => -m \notin 1..Len(log))
      BY <1>0, <2>1, <2>2 DEF Fits, IsMessage, TypeOK
    <2> QED
      BY <1>0, <2>1, <2>2, <2>3, SenderKept DEF Others
  <1> QED
    BY <1>0, <1>1, <1>2, <1>3, <1>4, CalmStep, SendSender DEF Thread

LEMMA QueuedIsRequest ==
  ASSUME TypeOK, MessageInv, NEW q \in Service, NEW k \in DOMAIN queue[q],
         queue[q][k] > 0
  PROVE  queue[q][k] \in 1..Len(log)
  <1>1. IsMessage(queue[q][k]) /\ Len(log) \in Nat
    BY DEF MessageInv, Fits, TypeOK
  <1> QED
    BY <1>1 DEF IsMessage

(* Queues that stay, or lose their first message, stay sorted. *)
LEMMA SortedKept ==
  ASSUME TypeOK, MessageInv, SortedInv, LogKept,
         \A q \in Service :
           \/ queue'[q] = queue[q]
           \/ queue[q] # <<>> /\ queue'[q] = Tail(queue[q])
  PROVE  SortedInv'
  <1> SUFFICES ASSUME NEW q \in Service, NEW k \in DOMAIN queue'[q],
                      NEW l \in DOMAIN queue'[q],
                      k < l, queue'[q][k] > 0, queue'[q][l] > 0,
                      log'[queue'[q][k]].src = log'[queue'[q][l]].src,
                      log'[queue'[q][k]].src # NoOne
               PROVE  queue'[q][k] <= queue'[q][l]
    BY DEF SortedInv
  <1>1. queue[q] \in Seq(Int)
    BY DEF TypeOK, QueueType
  <1>2. PICK x \in DOMAIN queue[q], y \in DOMAIN queue[q] :
          x < y /\ queue'[q][k] = queue[q][x] /\ queue'[q][l] = queue[q][y]
    <2>1. CASE queue'[q] = queue[q]
      BY <2>1
    <2>2. CASE queue[q] # <<>> /\ queue'[q] = Tail(queue[q])
      <3>1. /\ k + 1 \in DOMAIN queue[q] /\ l + 1 \in DOMAIN queue[q]
            /\ Tail(queue[q])[k] = queue[q][k + 1]
            /\ Tail(queue[q])[l] = queue[q][l + 1]
        BY <1>1, <2>2, TailElements
      <3>2. k + 1 < l + 1
        BY <1>1, <2>2
      <3> QED
        BY <2>2, <3>1, <3>2
    <2> QED
      BY <2>1, <2>2
  <1>3. queue[q][x] \in 1..Len(log) /\ queue[q][y] \in 1..Len(log)
    BY <1>2, QueuedIsRequest
  <1>4. /\ log[queue[q][x]].src = log[queue[q][y]].src
        /\ log[queue[q][x]].src # NoOne
    BY <1>2, <1>3 DEF LogKept
  <1> QED
    BY <1>2, <1>4 DEF SortedInv

LEMMA PushSorted ==
  ASSUME TypeOK, MessageInv, SenderInv, SortedInv, NEW t \in Thread, MqPush(t)
  PROVE  SortedInv'
  <1>0a. PICK q \in Service : q = to[t]
    BY PushEffect
  <1>0b. PICK m : m = msg[t]
    OBVIOUS
  <1>0. q = to[t] /\ m = msg[t]
    BY <1>0a, <1>0b
  <1>1. /\ Fits(m, q)
        /\ Len(queue'[q]) = Len(queue[q]) + 1
        /\ queue'[q][Len(queue[q]) + 1] = m
        /\ \A k \in DOMAIN queue[q] : queue'[q][k] = queue[q][k]
        /\ queue' = [queue EXCEPT ![q] = Append(@, m)]
        /\ SameQueues(q) /\ SameLog
    BY <1>0, PushEffect
  <1>2. /\ queue[q] \in Seq(Int) /\ Len(log) \in Nat
        /\ DOMAIN queue'[q] = 1..(Len(queue[q]) + 1)
    <2>1. queue[q] \in Seq(Int) /\ m \in Int /\ Len(log) \in Nat
      BY <1>1 DEF TypeOK, QueueType, Fits, IsMessage
    <2>2. queue'[q] = Append(queue[q], m)
      BY <1>1 DEF TypeOK, QueueType
    <2> QED
      BY <2>1, <2>2
  <1> SUFFICES ASSUME NEW p \in Service, NEW k \in DOMAIN queue'[p],
                      NEW l \in DOMAIN queue'[p],
                      k < l, queue'[p][k] > 0, queue'[p][l] > 0,
                      log'[queue'[p][k]].src = log'[queue'[p][l]].src,
                      log'[queue'[p][k]].src # NoOne
               PROVE  queue'[p][k] <= queue'[p][l]
    BY DEF SortedInv
  <1>3. CASE k \in DOMAIN queue[p] /\ l \in DOMAIN queue[p]
    <2>1. queue'[p][k] = queue[p][k] /\ queue'[p][l] = queue[p][l]
      BY <1>1, <1>3 DEF SameQueues
    <2>2. queue[p][k] \in 1..Len(log) /\ queue[p][l] \in 1..Len(log)
      BY <1>3, <2>1, QueuedIsRequest
    <2>3. /\ log[queue[p][k]].src = log[queue[p][l]].src
          /\ log[queue[p][k]].src # NoOne
      BY <1>1, <2>1, <2>2 DEF SameLog
    <2> QED
      BY <1>3, <2>1, <2>3 DEF SortedInv
  <1>4. CASE p = q /\ l = Len(queue[q]) + 1
    <2>1. k \in DOMAIN queue[q] /\ queue'[q][k] = queue[q][k]
      BY <1>1, <1>2, <1>4
    <2>2. queue[q][k] \in 1..Len(log)
      BY <1>4, <2>1, QueuedIsRequest
    <2>3. queue'[q][l] = m /\ m \in 1..Len(log)
      BY <1>1, <1>2, <1>4 DEF Fits, IsMessage
    <2>4. log[queue[q][k]].src = log[m].src /\ log[m].src # NoOne
      BY <1>1, <1>4, <2>1, <2>2, <2>3 DEF SameLog
    <2>5. to[t] # NoOne /\ msg[t] = m
      BY <1>0, ServiceAssumption
    <2>6. queue[q][k] \notin (m + 1)..Len(log)
      BY <2>3, <2>4, <2>5 DEF SenderInv
    <2> QED
      BY <1>2, <1>4, <2>1, <2>2, <2>3, <2>6
  <1>5. p # q => k \in DOMAIN queue[p] /\ l \in DOMAIN queue[p]
    BY <1>1 DEF SameQueues
  <1>6. p = q => /\ k \in DOMAIN queue[p]
                 /\ l \in DOMAIN queue[p] \/ l = Len(queue[q]) + 1
    BY <1>2
  <1> QED
    BY <1>3, <1>4, <1>5, <1>6

LEMMA SortedStep ==
  ASSUME IInv, MessageInv, SenderInv, SortedInv, [Next]_vars
  PROVE  SortedInv'
  <1>0. TypeOK /\ WorkerInv
    BY DEF IInv
  <1>1. CASE Calm
    <2>1. LogKept /\ \A q \in Service : queue'[q] = queue[q]
      BY <1>0, <1>1 DEF Calm, LogKept, TypeOK
    <2> QED
      BY <1>0, <2>1, SortedKept
  <1>2. ASSUME NEW t \in Thread, NEW r \in Service \cup {NoOne},
               NEW d \in Service, Send(t, r, d)
        PROVE  SortedInv'
    <2>1. /\ Len(log') = Len(log) + 1
          /\ \A i \in 1..Len(log) : log'[i] = log[i]
          /\ queue' = queue
      BY <1>0, <1>2, SendEffect
    <2>2. LogKept /\ \A q \in Service : queue'[q] = queue[q]
      BY <1>0, <2>1 DEF LogKept, TypeOK
    <2> QED
      BY <1>0, <2>2, SortedKept
  <1>3. ASSUME NEW t \in Thread, MqPush(t)
        PROVE  SortedInv'
    BY <1>0, <1>3, PushSorted
  <1>4. ASSUME SameLog,
               \/ queue' = queue
               \/ \E q \in Service : /\ queue[q] # <<>>
                                     /\ queue'[q] = Tail(queue[q])
                                     /\ SameQueues(q)
        PROVE  SortedInv'
    <2>1. \A q \in Service : \/ queue'[q] = queue[q]
                             \/ queue[q] # <<>> /\ queue'[q] = Tail(queue[q])
      BY <1>4 DEF SameQueues
    <2> QED
      BY <1>0, <1>4, <2>1, SameLogIsKept, SortedKept
  <1>5. ASSUME NEW w \in Worker, MqPop(w), queue[wq[w]] # <<>>
        PROVE  SortedInv'
    BY <1>0, <1>4, <1>5, PopEffect
  <1>6. ASSUME NEW w \in Worker, Return(w)
        PROVE  SortedInv'
    BY <1>0, <1>4, <1>6, ReturnEffect
  <1>7. ASSUME NEW w \in Worker, DropMessage(w)
        PROVE  SortedInv'
    <2>1. PICK q \in Service : /\ queue[q] # <<>>
                               /\ queue'[q] = Tail(queue[q])
                               /\ SameQueues(q) /\ SameLog
      BY <1>7, DropEffect
    <2> QED
      BY <1>4, <2>1
  <1> QED
    BY <1>0, <1>1, <1>2, <1>3, <1>5, <1>6, <1>7, CalmStep DEF Thread

(* A request whose fate a step leaves alone stays accounted for if its     *)
(* messages stay where they are or begin to run, and no service comes back. *)
LEMMA AccountedKept ==
  ASSUME NEW i, NEW s, NEW d, Accounted(i),
         log[i].src = s, log[i].dst = d, log'[i].src = s, log'[i].dst = d,
         log'[i].fate = log[i].fate,
         Carried(i) => Carried(i)', Carried(-i) => Carried(-i)',
         Running(i) => Running(i)', Running(-i) => Running(-i)',
         QueuedAt(i, d) => QueuedAt(i, d)',
         s # NoOne /\ QueuedAt(-i, s) => QueuedAt(-i, s)' \/ Running(-i)',
         s \in slot' => s \in slot
  PROVE  Accounted(i)'
  BY DEF Accounted

LEMMA CalmAccounted ==
  ASSUME TypeOK, TypeOK', MessageInv, RequestAccounted, Calm
  PROVE  RequestAccounted'
  <1>1. UNCHANGED <<to, msg, queue, cur, log>>
    BY DEF Calm
  <1>2. ASSUME NEW i \in 1..Len(log), log[i].src \in slot'
        PROVE  log[i].src \in slot
    <2>1. log[i].src \in Service
      BY <1>2 DEF TypeOK, TableType
    <2>2. cmem[log[i].src] # "none"
      BY <2>1, ServiceAssumption DEF MessageInv
    <2> QED
      BY <1>2, <2>2 DEF Calm
  <1>3. ASSUME NEW i \in 1..Len(log)
        PROVE  Accounted(i)'
    <2>1. Accounted(i)
      BY DEF RequestAccounted
    <2> QED
      BY <1>1, <1>2, <2>1 DEF Accounted, Carried, Running, QueuedAt
  <1> QED
    BY <1>1, <1>3 DEF RequestAccounted

LEMMA SendAccounted ==
  ASSUME TypeOK, RequestAccounted, NEW t \in Thread,
         NEW r \in Service \cup {NoOne}, NEW d \in Service, Send(t, r, d)
  PROVE  RequestAccounted'
  <1>1. /\ to[t] = NoOne /\ to'[t] = d /\ msg'[t] = Len(log) + 1
        /\ Others(t) /\ Len(log') = Len(log) + 1
        /\ log'[Len(log) + 1] = [src |-> r, dst |-> d, fate |-> "sending"]
        /\ \A i \in 1..Len(log) : log'[i] = log[i]
        /\ UNCHANGED <<queue, cur, slot>>
    BY SendEffect DEF Idle, Still
  <1>2. Len(log) \in Nat
    BY DEF TypeOK
  <1>3. \A m : Carried(m) => Carried(m)'
    BY <1>1 DEF Carried, Others
  <1>4. ASSUME NEW i \in 1..Len(log)
        PROVE  Accounted(i)'
    <2>1. Accounted(i)
      BY DEF RequestAccounted
    <2>2. PICK x, y : x = log[i].src /\ y = log[i].dst
      OBVIOUS
    <2>3. log'[i].src = x /\ log'[i].dst = y /\ log'[i].fate = log[i].fate
      BY <1>1, <2>2
    <2>4. /\ \A m : Running(m) => Running(m)'
          /\ \A m, q : QueuedAt(m, q) => QueuedAt(m, q)'
      BY <1>1 DEF Running, QueuedAt
    <2> QED
      BY <1>1, <1>3, <2>1, <2>2, <2>3, <2>4, AccountedKept
  <1>5. ASSUME NEW i, i = Len(log) + 1
        PROVE  Accounted(i)'
    <2>1. Carried(i)'
      BY <1>1, <1>5, ServiceAssumption DEF Carried
    <2>2. log'[i].fate = "sending"
      BY <1>1, <1>5
    <2> QED
      BY <2>1, <2>2 DEF Accounted
  <1>6. \A i \in 1..Len(log') : i \in 1..Len(log) \/ i = Len(log) + 1
    BY <1>1, <1>2
  <1> QED
    BY <1>4, <1>5, <1>6 DEF RequestAccounted

LEMMA PushAccounted ==
  ASSUME TypeOK, MessageInv, RequestAccounted, NEW t \in Thread, MqPush(t)
  PROVE  RequestAccounted'
  <1>1. PICK q \in Service : q = to[t]
    BY PushEffect
  <1>2. PICK m : m = msg[t]
    OBVIOUS
  <1>3. /\ Fits(m, q)
        /\ Len(queue'[q]) = Len(queue[q]) + 1
        /\ queue'[q][Len(queue[q]) + 1] = m
        /\ \A k \in DOMAIN queue[q] : queue'[q][k] = queue[q][k]
        /\ queue' = [queue EXCEPT ![q] = Append(@, m)]
        /\ SameQueues(q) /\ Others(t) /\ SameLog
        /\ \A i \in 1..Len(log) :
             log'[i].fate = IF i = m THEN "queued"
                            ELSE IF i = -m THEN "reported"
                            ELSE log[i].fate
        /\ UNCHANGED <<cur, slot>>
    BY <1>1, <1>2, PushEffect DEF Still
  <1>4. /\ Len(log) \in Nat /\ m \in Int /\ m # 0
        /\ queue[q] \in Seq(Int)
        /\ DOMAIN queue'[q] = 1..(Len(queue[q]) + 1)
    <2>1. queue[q] \in Seq(Int) /\ m \in Int /\ m # 0 /\ Len(log) \in Nat
      BY <1>3 DEF TypeOK, QueueType, Fits, IsMessage
    <2>2. queue'[q] = Append(queue[q], m)
      BY <1>3 DEF TypeOK, QueueType
    <2> QED
      BY <2>1, <2>2
  <1>5. QueuedAt(m, q)'
    BY <1>3, <1>4 DEF QueuedAt
  <1>6. ASSUME NEW x, NEW p \in Service, QueuedAt(x, p)
        PROVE  QueuedAt(x, p)'
    <2>1. CASE p = q
      <3>1. PICK k \in DOMAIN queue[q] : queue[q][k] = x
        BY <1>6, <2>1 DEF QueuedAt
      <3>2. k \in DOMAIN queue'[q] /\ queue'[q][k] = x
        BY <1>3, <1>4, <3>1
      <3> QED
        BY <2>1, <3>2 DEF QueuedAt
    <2>2. CASE p # q
      BY <1>3, <1>6, <2>2 DEF QueuedAt, SameQueues
    <2> QED
      BY <2>1, <2>2
  <1>7. ASSUME NEW x, x # m, Carried(x)
        PROVE  Carried(x)'
    BY <1>2, <1>3, <1>7 DEF Carried, Others
  <1>8. ASSUME NEW i \in 1..Len(log)
        PROVE  Accounted(i)'
    <2>1. PICK s, d : s = log[i].src /\ d = log[i].dst
      OBVIOUS
    <2>2. log'[i].src = s /\ log'[i].dst = d
      BY <1>3, <2>1 DEF SameLog
    <2>3. CASE i = m
      <3>1. d = q
        BY <1>3, <2>1, <2>3 DEF Fits, Target
      <3>2. log'[i].fate = "queued"
        BY <1>3, <2>3
      <3> QED
        BY <1>5, <2>2, <2>3, <3>1, <3>2 DEF Accounted
    <2>4. CASE i # m /\ i = -m
      <3>1. ~(m > 0) /\ -i = m
        BY <1>4, <2>4
      <3>2. s = q
        BY <1>3, <2>1, <2>4, <3>1 DEF Fits, Target
      <3>3. log'[i].fate = "reported"
        BY <1>3, <2>4
      <3> QED
        BY <1>5, <2>2, <3>1, <3>2, <3>3, ServiceAssumption DEF Accounted
    <2>5. CASE i # m /\ i # -m
      <3>1. log'[i].fate = log[i].fate /\ -i # m
        BY <1>3, <1>4, <2>5
      <3>2. Accounted(i)
        BY DEF RequestAccounted
      <3>3. d \in Service /\ s \in Service \cup {NoOne}
        BY <2>1, SourceType
      <3>4. QueuedAt(i, d) => QueuedAt(i, d)'
        BY <1>6, <3>3
      <3>5. s # NoOne /\ QueuedAt(-i, s) => QueuedAt(-i, s)'
        BY <1>6, <3>3
      <3>6. \A x : Running(x) => Running(x)'
        BY <1>3 DEF Running
      <3> QED
        BY <1>3, <1>7, <2>1, <2>2, <2>5, <3>1, <3>2, <3>4, <3>5, <3>6,
           AccountedKept
    <2> QED
      BY <2>3, <2>4, <2>5
  <1> QED
    BY <1>3, <1>8 DEF RequestAccounted, SameLog

(* A queue that loses its first message keeps the others. *)
LEMMA TailKeeps ==
  ASSUME NEW q \in Service, queue[q] \in Seq(Int), queue[q] # <<>>,
         queue'[q] = Tail(queue[q]), SameQueues(q),
         NEW x, NEW p \in Service, QueuedAt(x, p)
  PROVE  QueuedAt(x, p)' \/ (p = q /\ x = Head(queue[q]))
  <1>1. CASE p # q
    BY <1>1 DEF QueuedAt, SameQueues
  <1>2. CASE p = q
    <2>1. PICK k \in DOMAIN queue[q] : queue[q][k] = x
      BY <1>2 DEF QueuedAt
    <2>2. CASE k = 1
      BY <1>2, <2>1, <2>2
    <2>3. CASE k # 1
      <3>1. k - 1 \in DOMAIN Tail(queue[q]) /\ Tail(queue[q])[k - 1] = x
        BY <2>1, <2>3
      <3> QED
        BY <1>2, <3>1 DEF QueuedAt
    <2> QED
      BY <2>2, <2>3
  <1> QED
    BY <1>1, <1>2

LEMMA PopAccounted ==
  ASSUME TypeOK, WorkerInv, MessageInv, RequestAccounted,
         NEW w \in Worker, MqPop(w), queue[wq[w]] # <<>>
  PROVE  RequestAccounted'
  <1>1. PICK q \in Service : q = wq[w]
    BY PopEffect
  <1>2. PICK m : m = Head(queue[q])
    OBVIOUS
  <1>3. /\ Fits(m, q) /\ cur[w] = 0 /\ cur'[w] = m
        /\ \A v \in Worker : v # w => cur'[v] = cur[v]
        /\ queue[q] \in Seq(Int) /\ queue[q] # <<>>
        /\ queue'[q] = Tail(queue[q]) /\ SameQueues(q)
        /\ SameLog
        /\ \A i \in 1..Len(log) :
             log'[i].fate = IF i = m THEN "running" ELSE log[i].fate
        /\ UNCHANGED <<to, msg, slot>>
    BY <1>1, <1>2, PopEffect DEF Still
  <1>4. Running(m)'
    BY <1>3 DEF Running
  <1>5. \A x : x # 0 /\ Running(x) => Running(x)'
    BY <1>3 DEF Running
  <1>6. \A x : Carried(x) => Carried(x)'
    BY <1>3 DEF Carried
  <1>7. ASSUME NEW x, NEW p \in Service, QueuedAt(x, p)
        PROVE  QueuedAt(x, p)' \/ x = m
    BY <1>2, <1>3, <1>7, TailKeeps
  <1>8. ASSUME NEW i \in 1..Len(log)
        PROVE  Accounted(i)'
    <2>1. PICK s, d : s = log[i].src /\ d = log[i].dst
      OBVIOUS
    <2>2. log'[i].src = s /\ log'[i].dst = d
      BY <1>3, <2>1 DEF SameLog
    <2>3. CASE i = m
      <3>1. log'[i].fate = "running"
        BY <1>3, <2>3
      <3> QED
        BY <1>4, <2>3, <3>1 DEF Accounted
    <2>4. CASE i # m
      <3>1. log'[i].fate = log[i].fate
        BY <1>3, <2>4
      <3>2. Accounted(i)
        BY DEF RequestAccounted
      <3>3. d \in Service /\ s \in Service \cup {NoOne}
        BY <2>1, SourceType
      <3>4. QueuedAt(i, d) => QueuedAt(i, d)'
        BY <1>7, <2>4, <3>3
      <3>5. s # NoOne /\ QueuedAt(-i, s) => QueuedAt(-i, s)' \/ Running(-i)'
        BY <1>4, <1>7, <3>3
      <3>6. i # 0 /\ -i # 0
        OBVIOUS
      <3>7. /\ Running(i) => Running(i)'
            /\ Running(-i) => Running(-i)'
            /\ Carried(i) => Carried(i)'
            /\ Carried(-i) => Carried(-i)'
        BY <1>5, <1>6, <3>6
      <3>8. slot' = slot
        BY <1>3
      <3> QED
        BY <2>1, <2>2, <3>1, <3>2, <3>4, <3>5, <3>7, <3>8, AccountedKept
    <2> QED
      BY <2>3, <2>4
  <1> QED
    BY <1>3, <1>8 DEF RequestAccounted, SameLog

LEMMA ReturnAccounted ==
  ASSUME TypeOK, MessageInv, RequestAccounted, NEW w \in Worker, Return(w)
  PROVE  RequestAccounted'
  <1>1. PICK m : m = cur[w]
    OBVIOUS
  <1>2. /\ IsMessage(m)
        /\ \A v \in Worker : v # w => cur'[v] = cur[v]
        /\ SameLog
        /\ \A i \in 1..Len(log) :
             log'[i].fate = IF i = m THEN "done"
                            ELSE IF i = -m THEN "told"
                            ELSE log[i].fate
        /\ UNCHANGED <<to, msg, queue, slot>>
    BY <1>1, ReturnEffect DEF Still
  <1>3. m \in Int
    BY <1>2 DEF IsMessage, TypeOK
  <1>4. \A x : x # m /\ Running(x) => Running(x)'
    BY <1>1, <1>2 DEF Running
  <1>5. /\ \A x : Carried(x) => Carried(x)'
        /\ \A x, p : QueuedAt(x, p) => QueuedAt(x, p)'
    BY <1>2 DEF Carried, QueuedAt
  <1>6. ASSUME NEW i \in 1..Len(log)
        PROVE  Accounted(i)'
    <2>1. PICK s, d : s = log[i].src /\ d = log[i].dst
      OBVIOUS
    <2>2. log'[i].src = s /\ log'[i].dst = d
      BY <1>2, <2>1 DEF SameLog
    <2>3. CASE i = m \/ i = -m
      <3>1. log'[i].fate \in {"done", "told"}
        BY <1>2, <2>3
      <3> QED
        BY <3>1 DEF Accounted
    <2>4. CASE i # m /\ i # -m
      <3>1. log'[i].fate = log[i].fate
        BY <1>2, <2>4
      <3>2. Accounted(i)
        BY DEF RequestAccounted
      <3>3. i # m /\ -i # m
        BY <1>3, <2>4
      <3>4. /\ Running(i) => Running(i)'
            /\ Running(-i) => Running(-i)'
        BY <1>4, <3>3
      <3>5. slot' = slot
        BY <1>2
      <3> QED
        BY <1>5, <2>1, <2>2, <3>1, <3>2, <3>4, <3>5, AccountedKept
    <2> QED
      BY <2>3, <2>4
  <1> QED
    BY <1>2, <1>6 DEF RequestAccounted, SameLog

LEMMA DropAccounted ==
  ASSUME IInv, MessageInv, RequestAccounted, NEW w \in Worker, DropMessage(w)
  PROVE  RequestAccounted'
  <1>1. PICK q \in Service :
          /\ Idle(w) /\ q \notin slot
          /\ queue[q] \in Seq(Int) /\ queue[q] # <<>>
          /\ Fits(Head(queue[q]), q)
          /\ queue'[q] = Tail(queue[q]) /\ SameQueues(q)
          /\ Others(w) /\ SameLog
          /\ LET m == Head(queue[q]) IN
             \/ /\ m > 0 /\ log[m].src \in slot
                /\ to'[w] = log[m].src /\ msg'[w] = -m
                /\ \A i \in 1..Len(log) :
                     log'[i].fate = IF i = m THEN "dropped" ELSE log[i].fate
             \/ /\ m > 0 /\ log[m].src \notin slot
                /\ UNCHANGED <<to, msg>>
                /\ \A i \in 1..Len(log) :
                     log'[i].fate = IF i = m THEN "lost" ELSE log[i].fate
             \/ /\ ~(m > 0)
                /\ UNCHANGED <<to, msg>>
                /\ \A i \in 1..Len(log) :
                     log'[i].fate = IF i = -m THEN "lost" ELSE log[i].fate
          /\ UNCHANGED <<cur, slot>>
    BY DropEffect DEF Still
  <1>2. PICK m : m = Head(queue[q])
    OBVIOUS
  <1>3. /\ m \in Int /\ m # 0 /\ Len(log) \in Nat
        /\ slot \subseteq Service /\ TypeOK
    BY <1>1, <1>2 DEF Fits, IsMessage, IInv, TypeOK, TableType
  <1>4. \A x : Running(x) => Running(x)'
    BY <1>1 DEF Running
  <1>5. \A x : Carried(x) => Carried(x)'
    BY <1>1 DEF Carried, Others, Idle
  <1>6. ASSUME NEW x, NEW p \in Service, QueuedAt(x, p)
        PROVE  QueuedAt(x, p)' \/ x = m
    BY <1>1, <1>2, <1>6, TailKeeps
  <1>7. ASSUME NEW i \in 1..Len(log)
        PROVE  Accounted(i)'
    <2>1. PICK s, d : s = log[i].src /\ d = log[i].dst
      OBVIOUS
    <2>2. log'[i].src = s /\ log'[i].dst = d
      BY <1>1, <2>1 DEF SameLog
    <2>3. CASE i = m
      <3>1. CASE /\ log[m].src \in slot
                 /\ to'[w] = log[m].src /\ msg'[w] = -m
                 /\ log'[i].fate = "dropped"
        <4>1. Carried(-i)'
          BY <1>3, <2>3, <3>1, ServiceAssumption DEF Carried, Thread
        <4> QED
          BY <3>1, <4>1 DEF Accounted
      <3>2. CASE log[m].src \notin slot /\ log'[i].fate = "lost"
        BY <1>1, <2>1, <2>2, <2>3, <3>2 DEF Accounted
      <3>3. m > 0
        BY <2>3
      <3> QED
        BY <1>1, <1>2, <2>3, <3>1, <3>2, <3>3
    <2>4. CASE i # m /\ i = -m
      <3>1. ~(m > 0) /\ -i = m
        BY <1>3, <2>4
      <3>2. s = q
        BY <1>1, <1>2, <2>1, <2>4, <3>1 DEF Fits, Target
      <3>3. log'[i].fate = "lost"
        BY <1>1, <1>2, <2>4, <3>1
      <3> QED
        BY <1>1, <2>2, <3>2, <3>3 DEF Accounted
    <2>5. CASE i # m /\ i # -m
      <3>1. log'[i].fate = log[i].fate /\ -i # m
        BY <1>1, <1>2, <1>3, <2>5
      <3>2. Accounted(i)
        BY DEF RequestAccounted
      <3>3. d \in Service /\ s \in Service \cup {NoOne}
        BY <1>3, <2>1, SourceType
      <3>4. QueuedAt(i, d) => QueuedAt(i, d)'
        BY <1>6, <2>5, <3>3
      <3>5. s # NoOne /\ QueuedAt(-i, s) => QueuedAt(-i, s)'
        BY <1>6, <3>1, <3>3
      <3>6. slot' = slot
        BY <1>1
      <3> QED
        BY <1>4, <1>5, <2>1, <2>2, <3>1, <3>2, <3>4, <3>5, <3>6,
           AccountedKept
    <2> QED
      BY <2>3, <2>4, <2>5
  <1> QED
    BY <1>1, <1>7 DEF RequestAccounted, SameLog

LEMMA AccountedStep ==
  ASSUME IInv, TypeOK', MessageInv, RequestAccounted, [Next]_vars
  PROVE  RequestAccounted'
  <1>1. TypeOK /\ WorkerInv
    BY DEF IInv
  <1> QED
    BY <1>1, CalmStep, CalmAccounted, SendAccounted, PushAccounted,
       PopAccounted, ReturnAccounted, DropAccounted DEF Thread

(* No request that a step begins to run overtakes an earlier one, and none *)
(* goes back to waiting that a later one of its source may have overtaken. *)
LEMMA OrderKept ==
  ASSUME TypeOK, TypeOK', OrderInv, LogKept,
         \A j \in 1..Len(log') : Begun(j)' =>
           j \in 1..Len(log) /\ Begun(j),
         \A i \in 1..Len(log) :
           \/ log'[i].fate \in {"sending", "queued"} =>
                log[i].fate \in {"sending", "queued"}
           \/ log[i].src = NoOne
           \/ \A j \in (i + 1)..Len(log) : log[j].src # log[i].src
  PROVE  OrderInv'
  <1> SUFFICES ASSUME NEW j \in 1..Len(log'), NEW i \in 1..(j - 1),
                      log'[i].src = log'[j].src, log'[i].src # NoOne,
                      log'[i].dst = log'[j].dst, Begun(j)',
                      log'[i].fate \in {"sending", "queued"}
               PROVE  FALSE
    BY DEF OrderInv
  <1>1. j \in 1..Len(log) /\ Begun(j) /\ Len(log) \in Nat
    BY DEF TypeOK
  <1>2. i \in 1..Len(log) /\ j \in (i + 1)..Len(log)
    BY <1>1
  <1>3. /\ log[i].src = log[j].src /\ log[i].src # NoOne
        /\ log[i].dst = log[j].dst
    BY <1>1, <1>2 DEF LogKept
  <1>4. log[i].fate \in {"sending", "queued"}
    BY <1>2, <1>3
  <1> QED
    BY <1>1, <1>3, <1>4 DEF OrderInv

LEMMA RunningIsLogged ==
  ASSUME TypeOK, MessageInv, NEW j \in Nat \ {0}, Running(j)
  PROVE  j \in 1..Len(log)
  <1>1. PICK w \in Worker : cur[w] = j
    BY DEF Running
  <1>2. j \in (-Len(log))..Len(log) /\ Len(log) \in Nat
    BY <1>1 DEF MessageInv, IsMessage, TypeOK
  <1> QED
    BY <1>2

(* What waits behind the head of a queue was not sent before it. *)
LEMMA HeadIsFirst ==
  ASSUME TypeOK, SenderInv, SortedInv, RequestAccounted,
         NEW q \in Service, queue[q] \in Seq(Int), queue[q] # <<>>,
         NEW j \in 1..Len(log), j = Head(queue[q]), log[j].dst = q,
         NEW i \in 1..(j - 1), log[i].src = log[j].src,
         log[i].src # NoOne, log[i].dst = q
  PROVE  log[i].fate \notin {"sending", "queued"}
  <1>0. Len(log) \in Nat /\ i \in 1..Len(log) /\ j \in (i + 1)..Len(log)
    BY DEF TypeOK
  <1>1. Accounted(i)
    BY <1>0 DEF RequestAccounted
  <1>2. CASE log[i].fate = "sending"
    <2>1. PICK t \in Thread : to[t] # NoOne /\ msg[t] = i
      BY <1>1, <1>2 DEF Accounted, Carried
    <2> QED
      BY <1>0, <2>1 DEF SenderInv
  <1>3. CASE log[i].fate = "queued"
    <2>1. PICK k \in DOMAIN queue[q] : queue[q][k] = i
      BY <1>1, <1>3 DEF Accounted, QueuedAt
    <2>2. /\ 1 \in DOMAIN queue[q] /\ queue[q][1] = j
          /\ k \in Nat /\ 1 <= k
      BY <2>1
    <2>3. k # 1
      BY <1>0, <2>1, <2>2
    <2>4. queue[q][1] <= queue[q][k]
      <3>1. 1 < k /\ queue[q][1] > 0 /\ queue[q][k] > 0
        BY <1>0, <2>1, <2>2, <2>3
      <3>2. /\ log[queue[q][1]].src = log[queue[q][k]].src
            /\ log[queue[q][1]].src # NoOne
        BY <2>1, <2>2
      <3> QED
        BY <2>1, <2>2, <3>1, <3>2 DEF SortedInv
    <2> QED
      BY <1>0, <2>1, <2>2, <2>4
  <1> QED
    BY <1>2, <1>3

LEMMA OrderStep ==
  ASSUME IInv, TypeOK', MessageInv, SenderInv, SortedInv, RequestAccounted,
         OrderInv, [Next]_vars
  PROVE  OrderInv'
  <1>0. TypeOK /\ WorkerInv /\ Len(log) \in Nat
    BY DEF IInv, TypeOK
  <1>1. ASSUME Calm
        PROVE  OrderInv'
    BY <1>1 DEF Calm, OrderInv, Begun, Running
  <1>2. ASSUME NEW t \in Thread, NEW s \in Service \cup {NoOne},
               NEW d \in Service, Send(t, s, d)
        PROVE  OrderInv'
    <2>1. /\ Len(log') = Len(log) + 1
          /\ log'[Len(log) + 1].fate = "sending"
          /\ \A i \in 1..Len(log) : log'[i] = log[i]
          /\ UNCHANGED cur
      <3>1. log'[Len(log) + 1] = [src |-> s, dst |-> d, fate |-> "sending"]
        BY <1>0, <1>2, SendEffect
      <3>2. log'[Len(log) + 1].fate = "sending"
        BY <3>1
      <3> QED
        BY <1>0, <1>2, <3>2, SendEffect
    <2>2. LogKept
      BY <1>0, <2>1 DEF LogKept
    <2>3. ASSUME NEW j \in 1..Len(log'), Begun(j)'
          PROVE  j \in 1..Len(log) /\ Begun(j)
      <3>1. j \in 1..Len(log) \/ j = Len(log) + 1
        BY <1>0, <2>1
      <3>2. Running(j)' => Running(j)
        BY <2>1 DEF Running
      <3>3. j # Len(log) + 1
        <4>1. ~Running(Len(log) + 1)
          BY <1>0, RunningIsLogged
        <4> QED
          BY <2>1, <2>3, <3>2, <4>1 DEF Begun
      <3>4. j \in 1..Len(log)
        BY <3>1, <3>3
      <3> QED
        BY <2>1, <2>3, <3>2, <3>4 DEF Begun
    <2> QED
      BY <1>0, <2>1, <2>2, <2>3, OrderKept
  <1>3. ASSUME NEW t \in Thread, MqPush(t)
        PROVE  OrderInv'
    <2>1. PICK m : m = msg[t]
      OBVIOUS
    <2>2. /\ SameLog /\ to[t] \in Service
          /\ \A i \in 1..Len(log) :
               log'[i].fate = IF i = m THEN "queued"
                              ELSE IF i = -m THEN "reported"
                              ELSE log[i].fate
          /\ UNCHANGED cur
      BY <1>0, <1>3, <2>1, PushEffect
    <2>3. ASSUME NEW j \in 1..Len(log'), Begun(j)'
          PROVE  j \in 1..Len(log) /\ Begun(j)
      BY <2>2, <2>3 DEF Begun, Running, SameLog
    <2>4. ASSUME NEW i \in 1..Len(log), i = m, log[i].src # NoOne
          PROVE  \A j \in (i + 1)..Len(log) : log[j].src # log[i].src
      BY <2>1, <2>2, <2>4, ServiceAssumption DEF SenderInv
    <2> QED
      BY <1>0, <2>2, <2>3, <2>4, OrderKept, SameLogIsKept
  <1>4. ASSUME NEW w \in Worker, MqPop(w), queue[wq[w]] # <<>>
        PROVE  OrderInv'
    <2>1. PICK q \in Service : q = wq[w]
      BY <1>0, <1>4, PopEffect
    <2>2. PICK m : m = Head(queue[q])
      OBVIOUS
    <2>3. /\ Fits(m, q) /\ cur'[w] = m
          /\ \A v \in Worker : v # w => cur'[v] = cur[v]
          /\ queue[q] \in Seq(Int) /\ queue[q] # <<>>
          /\ SameLog
          /\ \A i \in 1..Len(log) :
               log'[i].fate = IF i = m THEN "running" ELSE log[i].fate
      BY <1>0, <1>4, <2>1, <2>2, PopEffect
    <2> SUFFICES ASSUME NEW j \in 1..Len(log'), NEW i \in 1..(j - 1),
                        log'[i].src = log'[j].src, log'[i].src # NoOne,
                        log'[i].dst = log'[j].dst, Begun(j)',
                        log'[i].fate \in {"sending", "queued"}
                 PROVE  FALSE
      BY DEF OrderInv
    <2>4. j \in 1..Len(log) /\ i \in 1..Len(log)
      BY <1>0, <2>3 DEF SameLog
    <2>5. /\ log[i].src = log[j].src /\ log[i].src # NoOne
          /\ log[i].dst = log[j].dst
      BY <2>3, <2>4 DEF SameLog
    <2>6. i # m /\ log[i].fate \in {"sending", "queued"}
      BY <2>3, <2>4
    <2>7. CASE j = m
      <3>1. log[j].dst = q
        BY <2>3, <2>4, <2>7 DEF Fits, Target
      <3> QED
        BY <1>0, <2>2, <2>3, <2>4, <2>5, <2>6, <2>7, <3>1, HeadIsFirst
    <2>8. CASE j # m
      <3>1. Begun(j)
        BY <2>3, <2>4, <2>8 DEF Begun, Running
      <3> QED
        BY <2>4, <2>5, <2>6, <3>1 DEF OrderInv
    <2> QED
      BY <2>7, <2>8
  <1>5. ASSUME NEW w \in Worker, Return(w)
        PROVE  OrderInv'
    <2>1. PICK m : m = cur[w]
      OBVIOUS
    <2>2. /\ cur'[w] = 0 /\ \A v \in Worker : v # w => cur'[v] = cur[v]
          /\ SameLog
          /\ \A i \in 1..Len(log) :
               log'[i].fate = IF i = m THEN "done"
                              ELSE IF i = -m THEN "told"
                              ELSE log[i].fate
      BY <1>0, <1>5, <2>1, ReturnEffect
    <2>3. ASSUME NEW j \in 1..Len(log'), Begun(j)'
          PROVE  j \in 1..Len(log) /\ Begun(j)
      <3>1. j \in 1..Len(log) /\ j # 0
        BY <2>2 DEF SameLog
      <3>2. Running(j)' => Running(j)
        BY <2>2, <3>1 DEF Running
      <3>3. Running(m)
        BY <2>1 DEF Running
      <3> QED
        BY <2>2, <2>3, <3>1, <3>2, <3>3 DEF Begun
    <2> QED
      BY <1>0, <2>2, <2>3, OrderKept, SameLogIsKept
  <1>6. ASSUME NEW w \in Worker, DropMessage(w)
        PROVE  OrderInv'
    <2>1. /\ SameLog /\ UNCHANGED cur
          /\ \A i \in 1..Len(log) : \/ log'[i].fate = log[i].fate
                                    \/ log'[i].fate \in {"dropped", "lost"}
      BY <1>6, DropEffect
    <2>2. ASSUME NEW j \in 1..Len(log'), Begun(j)'
          PROVE  j \in 1..Len(log) /\ Begun(j)
      BY <2>1, <2>2 DEF Begun, Running, SameLog
    <2> QED
      BY <1>0, <2>1, <2>2, OrderKept, SameLogIsKept
  <1> QED
    BY <1>0, <1>1, <1>2, <1>3, <1>4, <1>5, <1>6, CalmStep DEF Thread

(* The one request at start waits at its target. *)
LEMMA InitLog == Init => LogInv
  <1> SUFFICES ASSUME Init
               PROVE  LogInv
    OBVIOUS
  <1> DEFINE r == [src |-> Boot[2], dst |-> Boot[2], fate |-> "queued"]
  <1>1. Boot[2] \in Service /\ Boot[2] # NoOne
    BY ServiceAssumption
  <1>2. /\ log = <<r>> /\ Len(log) = 1 /\ log[1] = r
        /\ 1..Len(log) = {1}
    BY DEF Init
  <1>3. /\ \A t \in Thread : to[t] = NoOne
        /\ \A w \in Worker : pc[w] = "loop" /\ cur[w] = 0
        /\ cmem[Boot[2]] # "none"
    BY <1>1 DEF Init, Booted
  <1>4. \A q \in Service : \A k \in DOMAIN queue[q] :
          q = Boot[2] /\ k = 1 /\ queue[q][k] = 1
    BY <1>1 DEF Init
  <1>5. QueuedAt(1, Boot[2])
    BY <1>1 DEF Init, QueuedAt
  <1>6. Fits(1, Boot[2])
    BY <1>2 DEF Fits, IsMessage, Target
  <1>7. MessageInv
    <2>1. \A i \in 1..Len(log) : cmem[log[i].src] # "none"
      BY <1>2, <1>3
    <2> QED
      BY <1>3, <1>4, <1>6, <2>1 DEF MessageInv
  <1>8. SenderInv /\ SortedInv
    BY <1>3, <1>4 DEF SenderInv, SortedInv
  <1>9. RequestAccounted
    BY <1>2, <1>5 DEF RequestAccounted, Accounted
  <1>10. OrderInv /\ LogBound
    BY <1>2, BoundAssumption DEF OrderInv, LogBound
  <1> QED
    BY <1>7, <1>8, <1>9, <1>10 DEF LogInv

LEMMA BoundStep ==
  ASSUME IInv, MessageInv, LogBound, [Next]_vars
  PROVE  LogBound'
  <1>1. TypeOK /\ WorkerInv /\ Len(log) \in Nat /\ MaxMsg \in Nat
    BY BoundAssumption DEF IInv, TypeOK
  <1>2. ASSUME NEW t \in Thread, NEW s \in Service \cup {NoOne},
               NEW d \in Service, Send(t, s, d)
        PROVE  LogBound'
    <2>1. Len(log) < MaxMsg /\ Len(log') = Len(log) + 1
      BY <1>1, <1>2, SendEffect
    <2> QED
      BY <1>1, <2>1 DEF LogBound
  <1>3. ASSUME SameLog
        PROVE  LogBound'
    BY <1>3 DEF SameLog, LogBound
  <1>4. Calm => SameLog
    BY DEF Calm, SameLog
  <1> QED
    BY <1>1, <1>2, <1>3, <1>4, CalmStep, PushEffect, PopEffect, ReturnEffect,
       DropEffect DEF Thread

(* Every step keeps what is known of the requests as well.                 *)
LEMMA StepFull == FullInv /\ [Next]_vars => FullInv'
  <1> SUFFICES ASSUME FullInv, [Next]_vars
               PROVE  FullInv'
    OBVIOUS
  <1>1. IInv'
    BY StepInv DEF FullInv
  <1>2. TypeOK'
    BY <1>1 DEF IInv
  <1> QED
    BY <1>1, <1>2, MessageStep, SenderStep, SortedStep, AccountedStep,
       OrderStep, BoundStep DEF FullInv, LogInv

(* Both invariants hold in every reachable state.                          *)
THEOREM FullInvariance == Spec => []FullInv
  <1>1. Init => FullInv
    BY InitInv, InitLog DEF FullInv
  <1> QED
    BY <1>1, StepFull, PTL DEF Spec

(* No request vanishes: it is with its sender, in the queue of its target, *)
(* being run, or over, and a dropped one is reported.                      *)
THEOREM NoRequestVanishes == Spec => []RequestAccounted
  <1>1. FullInv => RequestAccounted
    BY DEF FullInv, LogInv
  <1> QED
    BY <1>1, FullInvariance, PTL

(* Requests of one service to another run in the order they were sent.     *)
THEOREM RequestsRunInOrder == Spec => []InOrder
  <1>1. FullInv => InOrder
    BY DEF FullInv, LogInv, OrderInv, InOrder, Begun
  <1> QED
    BY <1>1, FullInvariance, PTL

-----------------------------------------------------------------------------
(* The scheduler implements Mailbox: each step of a thread is one step of  *)
(* one mailbox, or none.                                                   *)

(* The memory of contexts, their init flags and the marks on their queues  *)
(* change when a service is launched, ready or deleted.                    *)
LifeStill == UNCHANGED <<release, ready, cmem>>

LEMMA LifeMoves ==
  ASSUME [Next]_vars
  PROVE  \/ LifeStill
         \/ \E t \in Thread : DeleteContext(t)
         \/ \E w \in Worker : SetInit(w) \/ \E s \in Service : Launch(w, s)
  <1> USE DEF LifeStill, tableVars, queueVars
  <1>1. ASSUME NEW t \in Thread, MqPush(t) \/ ContextRelease(t)
        PROVE  LifeStill
    BY <1>1 DEF MqPush, ContextRelease
  <1>2. ASSUME NEW w \in Worker, Dispatch(w)
        PROVE  LifeStill
    BY <1>2 DEF Dispatch, Loop, Grab, MqRelease, NextQueue, MqPop, MqLength,
       Return, Turn, PutBack, DropMessage, FreeQueue, Sleep
  <1>3. ASSUME NEW w \in Worker,
               \/ InitReturns(w) \/ Publish(w) \/ UseResult(w)
               \/ RetireFailed(w) \/ ReleaseFailed(w) \/ Scan(w)
        PROVE  LifeStill
    BY <1>3 DEF InitReturns, Publish, UseResult, RetireFailed, ReleaseFailed,
       Scan, ScanPass, ScanSlot
  <1>4. ASSUME NEW t \in Thread, NEW s, NEW d, Send(t, s, d)
        PROVE  LifeStill
    BY <1>4 DEF Send
  <1>5. ASSUME NEW w \in Worker,
               Abort(w) \/ (\E s \in Service : Kill(w, s)) \/ Wakeup(w)
        PROVE  LifeStill
    BY <1>5 DEF Abort, Kill, Wakeup
  <1>6. ASSUME Quit \/ UNCHANGED vars
        PROVE  LifeStill
    BY <1>6 DEF Quit, vars
  <1> QED
    BY <1>1, <1>2, <1>3, <1>4, <1>5, <1>6
    DEF Next, Finish, Progress, Create, Command, Post, Joined, Thread

(* A queue's context has one worker to run it. *)
LEMMA HandlerIsAlone ==
  ASSUME IInv, MessageInv, NEW v \in Worker, NEW w \in Worker,
         NEW s \in Service, ctx[v] = s, ctx[w] = s
  PROVE  v = w
  <1>1. wq[v] = s /\ wq[w] = s
    BY ServiceAssumption DEF IInv, WorkerInv
  <1>2. /\ Hand("wq", v) = s /\ Hand("wq", w) = s
        /\ "wq" \in Place
    BY <1>1 DEF Hand, Place
  <1> QED
    BY <1>2, ServiceAssumption DEF IInv, OneOwner

(* The service a worker runs is open: not closed, and its flag is set.     *)
LEMMA HandledIsOpen ==
  ASSUME IInv, NEW w \in Worker, NEW s \in Service, ctx[w] = s
  PROVE  cmem[s] = "live" /\ ref[s] # 0 /\ StateOf(s) = "open"
  <1>1. cmem[s] = "live" /\ ref[s] > 0 /\ s \notin release
    BY HeldIsLive DEF IInv, Holder, Thread
  <1>2. s \in ready
    BY ServiceAssumption DEF IInv, ReadyInv
  <1> QED
    BY <1>1, <1>2 DEF StateOf

LEMMA OneInHand ==
  ASSUME NEW w, NEW current
  PROVE  InHand({w}, current) = current[w]
  BY DEF InHand

LEMMA NoneInHand ==
  ASSUME NEW current
  PROVE  InHand({}, current) = 0
  BY DEF InHand

(* The callbacks that run stay the same if nobody starts or ends one.      *)
LEMMA BusyStays ==
  ASSUME UNCHANGED cur,
         \A w \in Worker : cur[w] # 0 => ctx'[w] = ctx[w]
  PROVE  BusyMap' = BusyMap
  <1>1. \A s \in Service : Handling(s)' \subseteq Handling(s)
    <2> SUFFICES ASSUME NEW s \in Service, NEW w \in Handling(s)'
                 PROVE  w \in Handling(s)
      OBVIOUS
    <2> QED
      BY DEF Handling
  <1>2. \A s \in Service : Handling(s)' = Handling(s)
    BY <1>1 DEF Handling
  <1> QED
    BY <1>2 DEF BusyMap

(* Only the callback of service s starts or ends.                          *)
LEMMA BusyMoves ==
  ASSUME NEW s \in Service, NEW w \in Worker, ctx[w] = s, ctx' = ctx,
         \A v \in Worker : ctx[v] = s => v = w,
         \A v \in Worker : v # w => cur'[v] = cur[v]
  PROVE  /\ BusyMap[s] = cur[w]
         /\ BusyMap' = [BusyMap EXCEPT ![s] = cur'[w]]
  <1>1. ASSUME NEW x \in Service, x # s
        PROVE  /\ Handling(x)' = Handling(x)
               /\ \A v \in Handling(x) : cur'[v] = cur[v]
    BY <1>1 DEF Handling
  <1>2. ASSUME NEW x \in Service, x # s
        PROVE  InHand(Handling(x), cur)' = InHand(Handling(x), cur)
    BY <1>1, <1>2 DEF InHand
  <1>3. InHand(Handling(s), cur) = cur[w]
    <2>1. CASE cur[w] = 0
      <3>1. Handling(s) = {}
        BY <2>1 DEF Handling
      <3> QED
        BY <2>1, <3>1, NoneInHand
    <2>2. CASE cur[w] # 0
      <3>1. Handling(s) = {w}
        BY <2>2 DEF Handling
      <3> QED
        BY <3>1, OneInHand
    <2> QED
      BY <2>1, <2>2
  <1>4. InHand(Handling(s), cur)' = cur'[w]
    <2>1. CASE cur'[w] = 0
      <3>1. Handling(s)' = {}
        BY <2>1 DEF Handling
      <3> QED
        BY <2>1, <3>1 DEF InHand
    <2>2. CASE cur'[w] # 0
      <3>1. Handling(s)' = {w}
        BY <2>2 DEF Handling
      <3> QED
        BY <3>1 DEF InHand
    <2> QED
      BY <2>1, <2>2
  <1> QED
    BY <1>2, <1>3, <1>4 DEF BusyMap

LEMMA StateStays ==
  ASSUME LifeStill
  PROVE  StateMap' = StateMap
  BY DEF LifeStill, StateMap, StateOf

(* The state of one service moves.                                         *)
LEMMA StateMoves ==
  ASSUME NEW s \in Service,
         \A x \in Service : x # s => /\ x \in release' <=> x \in release
                                     /\ x \in ready' <=> x \in ready
                                     /\ cmem'[x] = cmem[x]
  PROVE  StateMap' = [StateMap EXCEPT ![s] = StateOf(s)']
  <1>1. \A x \in Service : x # s => StateOf(x)' = StateOf(x)
    BY DEF StateOf
  <1> QED
    BY <1>1 DEF StateMap

LEMMA MailStutters ==
  ASSUME StateMap' = StateMap, UNCHANGED queue, BusyMap' = BusyMap
  PROVE  UNCHANGED Mail!vars
  BY DEF Mail!vars

LEMMA OneMailStep ==
  ASSUME NEW s \in Service,
         \/ Mail!Create(s) \/ Mail!Open(s) \/ Mail!Close(s)
         \/ Mail!Begin(s) \/ Mail!End(s) \/ Mail!Discard(s)
         \/ \E m \in (-MaxMsg..MaxMsg) \ {0} : Mail!Deliver(s, m)
  PROVE  Mail!Next
  BY DEF Mail!Next

LEMMA LaunchMaps ==
  ASSUME IInv, NEW w \in Worker, NEW s \in Service, Launch(w, s)
  PROVE  Mail!Create(s)
  <1>1. /\ cmem[s] = "none" /\ s \notin ready /\ s \notin release
        /\ cmem' = [cmem EXCEPT ![s] = "live"]
        /\ UNCHANGED <<ready, release, queue, turnVars>>
    BY DEF Launch, IInv, LifeInv
  <1>2. StateOf(s) = "none"
    BY <1>1 DEF StateOf
  <1>3. StateOf(s)' = "init"
    BY <1>1 DEF StateOf, IInv, TypeOK, TableType
  <1>4. StateMap' = [StateMap EXCEPT ![s] = "init"]
    BY <1>1, <1>3, StateMoves DEF IInv, TypeOK, TableType
  <1>5. BusyMap' = BusyMap
    BY <1>1, BusyStays DEF turnVars
  <1>6. StateMap[s] = "none"
    BY <1>2 DEF StateMap
  <1> QED
    BY <1>1, <1>4, <1>5, <1>6 DEF Mail!Create

LEMMA SetInitMaps ==
  ASSUME IInv, NEW w \in Worker, SetInit(w)
  PROVE  Mail!Open(new[w]) \/ UNCHANGED Mail!vars
  <1>1. PICK s \in Service : s = new[w]
    BY DEF SetInit, AtJob, IInv, WorkerInv, TypeOK, JobType
  <1>2. /\ ready' = IF cmem[s] = "live" THEN ready \cup {s} ELSE ready
        /\ UNCHANGED <<release, cmem, queue, turnVars>>
    BY <1>1 DEF SetInit, queueVars
  <1>3. BusyMap' = BusyMap
    BY <1>2, BusyStays DEF turnVars
  <1>4. CASE cmem[s] # "live" \/ s \in ready
    <2>1. ready' = ready
      BY <1>2, <1>4
    <2> QED
      BY <1>2, <1>3, <2>1, StateStays, MailStutters DEF LifeStill
  <1>5. CASE cmem[s] = "live" /\ s \notin ready
    <2>1. s \notin release
      BY <1>5 DEF IInv, LifeInv
    <2>2. StateMap[s] = "init"
      BY <1>5, <2>1 DEF StateMap, StateOf
    <2>3. StateOf(s)' = "open"
      BY <1>2, <1>5, <2>1 DEF StateOf
    <2>4. StateMap' = [StateMap EXCEPT ![s] = "open"]
      BY <1>2, <2>3, StateMoves
    <2> QED
      BY <1>1, <1>2, <1>3, <2>2, <2>4 DEF Mail!Open
  <1> QED
    BY <1>4, <1>5

LEMMA DeleteMaps ==
  ASSUME IInv, NEW t \in Thread, DeleteContext(t)
  PROVE  Mail!Close(del[t])
  <1>1. PICK s \in Service : s = del[t] /\ cmem[s] = "live" /\ ref[s] = 0
    BY DEF DeleteContext, IInv, LifeInv, TypeOK, CallType
  <1>2. /\ release' = release \cup {s}
        /\ cmem' = [cmem EXCEPT ![s] = "freed"]
        /\ UNCHANGED <<ready, queue, turnVars>>
    BY <1>1 DEF DeleteContext
  <1>3. BusyMap' = BusyMap
    BY <1>2, BusyStays DEF turnVars
  <1>4. s \notin release
    BY <1>1 DEF IInv, LifeInv
  <1>5. StateMap[s] \in {"init", "open"}
    BY <1>1, <1>4 DEF StateMap, StateOf
  <1>6. StateOf(s)' = "closed"
    BY <1>2 DEF StateOf
  <1>7. StateMap' = [StateMap EXCEPT ![s] = "closed"]
    BY <1>2, <1>6, StateMoves DEF IInv, TypeOK, TableType
  <1>8. BusyMap[s] = 0
    <2>1. \A w \in Worker : ctx[w] # s
      BY <1>1, HandledIsOpen
    <2>2. Handling(s) = {}
      BY <2>1 DEF Handling
    <2> QED
      BY <2>2, NoneInHand DEF BusyMap
  <1> QED
    BY <1>1, <1>2, <1>3, <1>5, <1>7, <1>8 DEF Mail!Close

LEMMA PushMaps ==
  ASSUME IInv, MessageInv, LogBound, NEW t \in Thread, MqPush(t)
  PROVE  \E m \in (-MaxMsg..MaxMsg) \ {0} : Mail!Deliver(to[t], m)
  <1>1. PICK s \in Service : s = to[t]
    BY PushEffect DEF IInv
  <1>2. PICK m : m = msg[t]
    OBVIOUS
  <1>3. /\ Fits(m, s) /\ queue' = [queue EXCEPT ![s] = Append(@, m)]
        /\ UNCHANGED <<cur, ctx>> /\ LifeStill
    BY <1>1, <1>2, PushEffect DEF IInv, MqPush, tableVars, LifeStill
  <1>4. m \in (-MaxMsg..MaxMsg) \ {0}
    BY <1>3, BoundAssumption DEF Fits, IsMessage, LogBound, IInv, TypeOK
  <1>5. cmem[s] = "live" /\ s \notin release
    BY <1>1, HeldIsLive DEF IInv, Holder
  <1>6. StateMap[s] \in {"init", "open"}
    BY <1>5 DEF StateMap, StateOf
  <1>7. BusyMap' = BusyMap /\ StateMap' = StateMap
    BY <1>3, BusyStays, StateStays
  <1> QED
    BY <1>1, <1>3, <1>4, <1>6, <1>7 DEF Mail!Deliver

LEMMA PopMaps ==
  ASSUME IInv, MessageInv, NEW w \in Worker, MqPop(w), queue[wq[w]] # <<>>
  PROVE  Mail!Begin(wq[w])
  <1>1. PICK s \in Service : s = wq[w]
    BY PopEffect DEF IInv
  <1>2. /\ ctx[w] = s /\ cur[w] = 0 /\ cur'[w] = Head(queue[s])
        /\ queue[s] # <<>> /\ queue' = [queue EXCEPT ![s] = Tail(@)]
        /\ \A v \in Worker : v # w => cur'[v] = cur[v]
        /\ ctx' = ctx /\ LifeStill
    BY <1>1, PopEffect DEF IInv, MqPop, tableVars, LifeStill
  <1>3. StateMap[s] = "open" /\ StateMap' = StateMap
    BY <1>2, HandledIsOpen, StateStays DEF StateMap
  <1>4. \A v \in Worker : ctx[v] = s => v = w
    BY <1>2, HandlerIsAlone
  <1>5. /\ BusyMap[s] = 0
        /\ BusyMap' = [BusyMap EXCEPT ![s] = Head(queue[s])]
    BY <1>2, <1>4, BusyMoves
  <1> QED
    BY <1>1, <1>2, <1>3, <1>5 DEF Mail!Begin

LEMMA ReturnMaps ==
  ASSUME IInv, MessageInv, NEW w \in Worker, Return(w)
  PROVE  ctx[w] \in Service /\ Mail!End(ctx[w])
  <1>1. PICK s \in Service : s = ctx[w]
    BY ServiceAssumption DEF Return, At, IInv, WorkerInv, TypeOK, TurnType
  <1>2. /\ cur[w] # 0 /\ cur'[w] = 0 /\ UNCHANGED <<queue, ctx>>
        /\ \A v \in Worker : v # w => cur'[v] = cur[v]
        /\ LifeStill
    <2>1. LifeStill
      BY DEF Return, tableVars, queueVars, LifeStill
    <2>2. TypeOK
      BY DEF IInv
    <2> QED
      BY <2>1, <2>2, ReturnEffect DEF IsMessage
  <1>3. StateMap' = StateMap
    BY <1>2, StateStays
  <1>4. \A v \in Worker : ctx[v] = s => v = w
    BY <1>1, HandlerIsAlone
  <1>5. BusyMap[s] = cur[w] /\ BusyMap' = [BusyMap EXCEPT ![s] = 0]
    BY <1>1, <1>2, <1>4, BusyMoves
  <1> QED
    BY <1>1, <1>2, <1>3, <1>5 DEF Mail!End

LEMMA DropMaps ==
  ASSUME IInv, MessageInv, NEW w \in Worker, DropMessage(w)
  PROVE  \E q \in Service : Mail!Discard(q)
  <1>1. PICK q \in Service :
          /\ q \in release /\ queue[q] # <<>>
          /\ queue' = [queue EXCEPT ![q] = Tail(@)]
          /\ UNCHANGED <<cur, ctx>>
    BY DropEffect
  <1>2. LifeStill
    BY DEF DropMessage, LifeStill
  <1>3. StateMap[q] = "closed"
    BY <1>1 DEF StateMap, StateOf
  <1>4. BusyMap' = BusyMap /\ StateMap' = StateMap
    BY <1>1, <1>2, BusyStays, StateStays
  <1> QED
    BY <1>1, <1>3, <1>4 DEF Mail!Discard

LEMMA MailStep ==
  ASSUME FullInv, [Next]_vars
  PROVE  [Mail!Next]_(Mail!vars)
  <1>1. /\ IInv /\ MessageInv /\ LogBound
        /\ TypeOK /\ WorkerInv
    BY DEF FullInv, LogInv, IInv
  <1>2. ASSUME NEW t \in Thread, DeleteContext(t)
        PROVE  Mail!Next
    BY <1>1, <1>2, DeleteMaps, OneMailStep
    DEF DeleteContext, TypeOK, CallType
  <1>3. ASSUME NEW w \in Worker, NEW s \in Service, Launch(w, s)
        PROVE  Mail!Next
    BY <1>1, <1>3, LaunchMaps, OneMailStep
  <1>4. ASSUME NEW w \in Worker, SetInit(w)
        PROVE  [Mail!Next]_(Mail!vars)
    <2>1. new[w] \in Service
      BY <1>1, <1>4 DEF SetInit, AtJob, WorkerInv, TypeOK, JobType
    <2> QED
      BY <1>1, <1>4, <2>1, SetInitMaps, OneMailStep
  <1>5. ASSUME LifeStill, Calm
        PROVE  UNCHANGED Mail!vars
    <2>1. \A w \in Worker : cur[w] # 0 => ctx'[w] = ctx[w]
      BY <1>1, <1>5 DEF Calm, MessageInv
    <2> QED
      BY <1>5, <2>1, BusyStays, StateStays, MailStutters DEF Calm
  <1>6. ASSUME LifeStill, NEW t \in Thread, NEW s \in Service \cup {NoOne},
               NEW d \in Service, Send(t, s, d)
        PROVE  UNCHANGED Mail!vars
    <2>1. UNCHANGED <<queue, cur, ctx>>
      BY <1>6 DEF Send, queueVars, turnVars
    <2> QED
      BY <1>6, <2>1, BusyStays, StateStays, MailStutters
  <1>7. ASSUME NEW t \in Thread, MqPush(t)
        PROVE  Mail!Next
    BY <1>1, <1>7, PushEffect, PushMaps, OneMailStep
  <1>8. ASSUME NEW w \in Worker, MqPop(w), queue[wq[w]] # <<>>
        PROVE  Mail!Next
    BY <1>1, <1>8, PopEffect, PopMaps, OneMailStep
  <1>9. ASSUME NEW w \in Worker, Return(w) \/ DropMessage(w)
        PROVE  Mail!Next
    BY <1>1, <1>9, ReturnMaps, DropMaps, OneMailStep
  <1> QED
    BY <1>1, <1>2, <1>3, <1>4, <1>5, <1>6, <1>7, <1>8, <1>9, LifeMoves,
       CalmStep DEF Thread

LEMMA MailInit == Init => Mail!Init
  <1> SUFFICES ASSUME Init
               PROVE  Mail!Init
    OBVIOUS
  <1>1. \A s \in Service : Handling(s) = {}
    BY ServiceAssumption DEF Init, Handling
  <1>2. BusyMap = [s \in Service |-> 0]
    BY <1>1, NoneInHand DEF BusyMap
  <1>3. StateMap = [s \in Service |-> IF s \in Booted THEN "open" ELSE "none"]
    BY DEF Init, StateMap, StateOf
  <1>4. queue \in [Service -> {<<>>, <<1>>}]
    BY DEF Init
  <1> QED
    BY <1>2, <1>3, <1>4 DEF Mail!Init

(* Seen through the refinement mapping, the scheduler is a set of          *)
(* mailboxes: each emptied in order by one callback at a time, closed only *)
(* between two messages, and given up once it is closed.                   *)
THEOREM SchedulerIsMailboxes == Spec => ImplementsMailbox
  <1>1. FullInv /\ [Next]_vars => [Mail!Next]_(Mail!vars)
    BY MailStep
  <1> QED
    BY <1>1, MailInit, FullInvariance, PTL DEF Spec, Mail!Spec,
       ImplementsMailbox
=============================================================================
