------------------------ MODULE KernelQueueProofs --------------------------
(***************************************************************************)
(* Types, and who has which message queue: that every step of Kernel.tla   *)
(* keeps the type invariant, lemmas on the global queue and on moving      *)
(* queues about, and that every step keeps WorkerInv, CallInv, OneOwner    *)
(* and FlagInv.  For any number of workers, posters, services, messages.   *)
(***************************************************************************)
EXTENDS KernelInvariant, FiniteSetTheorems, TLAPS

-----------------------------------------------------------------------------
(* Type correctness. *)

(* Changing the fate of a request leaves the log well formed. *)
LEMMA MarkType ==
  ASSUME log \in Seq(Request), NEW i \in Int, NEW f \in Fate, Mark(i, f)
  PROVE  log' \in Seq(Request)
  <1>1. CASE i \in DOMAIN log
    <2>1. log[i] \in Request
      BY <1>1
    <2>2. [log[i] EXCEPT !.fate = f] \in Request
      BY <2>1 DEF Request
    <2>3. log' = [log EXCEPT ![i] = [log[i] EXCEPT !.fate = f]]
      BY DEF Mark
    <2> QED
      BY <1>1, <2>2, <2>3
  <1>2. CASE i \notin DOMAIN log
    <2>1. log = [k \in DOMAIN log |-> log[k]]
      OBVIOUS
    <2>2. log' = [k \in DOMAIN log |->
                    IF k = i THEN [log[i] EXCEPT !.fate = f] ELSE log[k]]
      BY DEF Mark
    <2>3. log' = [k \in DOMAIN log |-> log[k]]
      BY <1>2, <2>2
    <2> QED
      BY <2>1, <2>3
  <1> QED
    BY <1>1, <1>2

(* Pushing a service's queue keeps the type of the global queue. *)
LEMMA PushType ==
  ASSUME QueueType, NEW q \in Service, GlobalPush(q)
  PROVE  gq' \in Seq(Service)
  BY DEF QueueType, GlobalPush

(* The queue at the head of the global queue is a service's. *)
LEMMA HeadType ==
  ASSUME QueueType, gq # <<>>
  PROVE  Head(gq) \in Service /\ Tail(gq) \in Seq(Service)
  BY DEF QueueType

(* Every variable keeps its type. *)
LEMMA TypeStep == TypeOK /\ WorkerInv /\ [Next]_vars => TypeOK'
  <1> SUFFICES ASSUME TypeOK, WorkerInv, [Next]_vars
               PROVE  TypeOK'
    OBVIOUS
  <1> USE DEF TypeOK
  <1>1. ASSUME NEW t \in Thread, MqPush(t)
        PROVE  TypeOK'
    <2>1. to[t] \in Service /\ msg[t] \in Int
      BY <1>1 DEF MqPush, CallType, Thread
    <2>2. queue' \in [Service -> Seq(Int)]
      BY <1>1, <2>1 DEF MqPush, QueueType
    <2>3. inGlobal' \subseteq Service
      BY <1>1, <2>1 DEF MqPush, QueueType
    <2>4. gq' \in Seq(Service)
      <3>1. to[t] \in Service
        BY <1>1 DEF MqPush, CallType, Thread
      <3>2. UNCHANGED gq \/ GlobalPush(to[t])
        BY <1>1 DEF MqPush
      <3> QED
        BY <3>1, <3>2, PushType DEF QueueType
    <2>5. to' \in [Thread -> Service \cup {NoOne}]
      BY <1>1, <2>1 DEF MqPush, CallType, Thread
    <2>6. msg' \in [Thread -> Int]
      BY <1>1, <2>1 DEF MqPush, CallType, Thread
    <2>7. rel' \in [Thread -> Service \cup {NoOne}]
      BY <1>1, <2>1 DEF MqPush, CallType, Thread
    <2>8. log' \in Seq(Request)
      BY <1>1, <2>1, MarkType DEF MqPush, Fate
    <2>9. UNCHANGED <<tableVars, qmem, release, turnVars, del, jobVars,
                      nodeVars>>
      BY <1>1 DEF MqPush
    <2> QED BY <2>2, <2>3, <2>4, <2>5, <2>6, <2>7, <2>8, <2>9
         DEF TableType, QueueType, TurnType, CallType, JobType, tableVars,
             turnVars, jobVars, nodeVars
  <1>2. ASSUME NEW t \in Thread, ContextRelease(t)
        PROVE  TypeOK'
    <2>1. rel[t] \in Service
      BY <1>2 DEF ContextRelease, CallType, Thread
    <2>2. ref' \in [Service -> Int]
      BY <1>2, <2>1 DEF ContextRelease, TableType
    <2>3. rel' \in [Thread -> Service \cup {NoOne}]
      BY <1>2, <2>1 DEF ContextRelease, CallType, Thread
    <2>4. del' \in [Thread -> Service \cup {NoOne}]
      BY <1>2, <2>1 DEF ContextRelease, CallType, Thread
    <2>5. UNCHANGED <<slot, cmem, ready, queueVars, turnVars, to, msg,
                      jobVars, nodeVars, log>>
      BY <1>2 DEF ContextRelease
    <2> QED BY <2>2, <2>3, <2>4, <2>5
         DEF TableType, QueueType, TurnType, CallType, JobType, queueVars,
             turnVars, jobVars, nodeVars
  <1>3. ASSUME NEW t \in Thread, DeleteContext(t)
        PROVE  TypeOK'
    <2>1. del[t] \in Service
      BY <1>3 DEF DeleteContext, CallType, Thread
    <2>2. cmem' \in [Service -> Memory]
      BY <1>3, <2>1 DEF DeleteContext, TableType, Memory
    <2>3. release' \subseteq Service
      BY <1>3, <2>1 DEF DeleteContext, QueueType
    <2>4. gq' \in Seq(Service)
      <3>1. del[t] \in Service
        BY <1>3 DEF DeleteContext, CallType, Thread
      <3>2. UNCHANGED gq \/ GlobalPush(del[t])
        BY <1>3 DEF DeleteContext
      <3> QED
        BY <3>1, <3>2, PushType DEF QueueType
    <2>5. del' \in [Thread -> Service \cup {NoOne}]
      BY <1>3, <2>1 DEF DeleteContext, CallType, Thread
    <2>6. UNCHANGED <<slot, ref, ready, queue, qmem, inGlobal, turnVars, to,
                      msg, rel, jobVars, nodeVars, log>>
      BY <1>3 DEF DeleteContext
    <2> QED BY <2>2, <2>3, <2>4, <2>5, <2>6
         DEF TableType, QueueType, TurnType, CallType, JobType, turnVars,
             jobVars, nodeVars
  <1>4. ASSUME NEW w \in Worker, Loop(w)
        PROVE  TypeOK'
    <2>1. gq # <<>> => Head(gq) \in Service /\ Tail(gq) \in Seq(Service)
      BY HeadType
    <2>2. pc' \in [Worker -> Step]
      BY <1>4, <2>1 DEF Loop, TurnType, Step
    <2>3. wq' \in [Worker -> Service \cup {NoOne}]
      BY <1>4, <2>1 DEF Loop, TurnType
    <2>4. gq' \in Seq(Service)
      BY <1>4, <2>1 DEF Loop, QueueType
    <2>5. UNCHANGED <<tableVars, queue, qmem, inGlobal, release, nq, ctx,
                      left, cur, callVars, jobVars, nodeVars, log>>
      BY <1>4 DEF Loop
    <2> QED BY <2>2, <2>3, <2>4, <2>5
         DEF TableType, QueueType, TurnType, CallType, JobType, tableVars,
             callVars, jobVars, nodeVars
  <1>5. ASSUME NEW w \in Worker, Grab(w)
        PROVE  TypeOK'
    <2>1. wq[w] \in Service \cup {NoOne}
      BY <1>5 DEF Grab, TurnType
    <2>2. ref' \in [Service -> Int]
      BY <1>5, <2>1 DEF Grab, TableType
    <2>3. ctx' \in [Worker -> Service \cup {NoOne}]
      BY <1>5, <2>1 DEF Grab, TurnType
    <2>4. left' \in [Worker -> Int]
      BY <1>5, <2>1 DEF Grab, TurnType
    <2>5. pc' \in [Worker -> Step]
      BY <1>5, <2>1 DEF Grab, TurnType, Step
    <2>6. UNCHANGED <<slot, cmem, ready, queueVars, wq, nq, cur, callVars,
                      jobVars, nodeVars, log>>
      BY <1>5 DEF Grab
    <2> QED BY <2>2, <2>3, <2>4, <2>5, <2>6
         DEF TableType, QueueType, TurnType, CallType, JobType, queueVars,
             callVars, jobVars, nodeVars
  <1>6. ASSUME NEW w \in Worker, MqRelease(w)
        PROVE  TypeOK'
    <2>1. pc' \in [Worker -> Step]
      BY <1>6 DEF MqRelease, TurnType, Step
    <2>2. wq' \in [Worker -> Service \cup {NoOne}]
      BY <1>6 DEF MqRelease, TurnType
    <2>3. gq' \in Seq(Service)
      <3>1. wq[w] \in Service
        BY <1>6 DEF MqRelease, At, WorkerInv, TurnType
      <3>2. UNCHANGED gq \/ GlobalPush(wq[w])
        BY <1>6 DEF MqRelease
      <3> QED
        BY <3>1, <3>2, PushType DEF QueueType
    <2>4. UNCHANGED <<tableVars, queue, qmem, inGlobal, release, nq, ctx,
                      left, cur, callVars, jobVars, nodeVars, log>>
      BY <1>6 DEF MqRelease
    <2> QED BY <2>1, <2>2, <2>3, <2>4
         DEF TableType, QueueType, TurnType, CallType, JobType, tableVars,
             callVars, jobVars, nodeVars
  <1>7. ASSUME NEW w \in Worker, NextQueue(w)
        PROVE  TypeOK'
    <2>1. gq # <<>> => Head(gq) \in Service /\ Tail(gq) \in Seq(Service)
      BY HeadType
    <2>2. pc' \in [Worker -> Step]
      BY <1>7, <2>1 DEF NextQueue, TurnType, Step
    <2>3. wq' \in [Worker -> Service \cup {NoOne}]
      BY <1>7, <2>1 DEF NextQueue, TurnType
    <2>4. gq' \in Seq(Service)
      BY <1>7, <2>1 DEF NextQueue, QueueType
    <2>5. UNCHANGED <<tableVars, queue, qmem, inGlobal, release, nq, ctx,
                      left, cur, callVars, jobVars, nodeVars, log>>
      BY <1>7 DEF NextQueue
    <2> QED BY <2>2, <2>3, <2>4, <2>5
         DEF TableType, QueueType, TurnType, CallType, JobType, tableVars,
             callVars, jobVars, nodeVars
  <1>8. ASSUME NEW w \in Worker, MqPop(w)
        PROVE  TypeOK'
    <2>1. wq[w] \in Service
      BY <1>8 DEF MqPop, At, WorkerInv, TurnType
    <2>2. queue[wq[w]] \in Seq(Int)
      BY <2>1 DEF QueueType
    <2>3. queue[wq[w]] # <<>> => Head(queue[wq[w]]) \in Int
                               /\ Tail(queue[wq[w]]) \in Seq(Int)
      BY <2>2
    <2>4. queue' \in [Service -> Seq(Int)]
      BY <1>8, <2>1, <2>2, <2>3 DEF MqPop, QueueType
    <2>5. inGlobal' \subseteq Service
      BY <1>8, <2>1, <2>2, <2>3 DEF MqPop, QueueType
    <2>6. rel' \in [Thread -> Service \cup {NoOne}]
      <3>1. w \in Thread /\ ctx[w] \in Service \cup {NoOne}
        BY DEF Thread, TurnType
      <3>2. rel' = rel \/ rel' = [rel EXCEPT ![w] = ctx[w]]
        <4>1. CASE queue[wq[w]] = <<>>
          BY <1>8, <4>1 DEF MqPop
        <4>2. CASE queue[wq[w]] # <<>>
          BY <1>8, <4>2 DEF MqPop
        <4> QED
          BY <4>1, <4>2
      <3> QED
        BY <3>1, <3>2 DEF CallType
    <2>7. ctx' \in [Worker -> Service \cup {NoOne}]
      BY <1>8, <2>1, <2>2, <2>3 DEF MqPop, TurnType
    <2>8. wq' \in [Worker -> Service \cup {NoOne}]
      BY <1>8, <2>1, <2>2, <2>3 DEF MqPop, TurnType
    <2>9. pc' \in [Worker -> Step]
      BY <1>8, <2>1, <2>2, <2>3 DEF MqPop, TurnType, Step
    <2>10. left' \in [Worker -> Int]
      BY <1>8, <2>1, <2>2, <2>3 DEF MqPop, TurnType
    <2>11. cur' \in [Worker -> Int]
      BY <1>8, <2>1, <2>2, <2>3 DEF MqPop, TurnType
    <2>12. log' \in Seq(Request)
      BY <1>8, <2>1, <2>2, <2>3, MarkType DEF MqPop, Fate
    <2>13. UNCHANGED <<tableVars, qmem, release, gq, nq, to, msg, del,
                       jobVars, nodeVars>>
      BY <1>8 DEF MqPop
    <2> QED BY <2>4, <2>5, <2>6, <2>7, <2>8, <2>9, <2>10, <2>11, <2>12,
         <2>13
         DEF TableType, QueueType, TurnType, CallType, JobType, tableVars,
             jobVars, nodeVars
  <1>9. ASSUME NEW w \in Worker, MqLength(w)
        PROVE  TypeOK'
    <2>1. left' \in [Worker -> Int]
      BY <1>9 DEF MqLength, TurnType, Share
    <2>2. pc' \in [Worker -> Step]
      BY <1>9 DEF MqLength, TurnType, Step
    <2>3. UNCHANGED <<tableVars, queueVars, wq, nq, ctx, cur, callVars,
                      jobVars, nodeVars, log>>
      BY <1>9 DEF MqLength
    <2> QED BY <2>1, <2>2, <2>3
         DEF TableType, QueueType, TurnType, CallType, JobType, tableVars,
             queueVars, callVars, jobVars, nodeVars
  <1>10. ASSUME NEW w \in Worker, Return(w)
        PROVE  TypeOK'
    <2>1. cur[w] \in Int
      BY <1>10 DEF Return, TurnType
    <2>2. cur' \in [Worker -> Int]
      BY <1>10, <2>1 DEF Return, TurnType
    <2>3. pc' \in [Worker -> Step]
      BY <1>10, <2>1 DEF Return, TurnType, Step
    <2>4. log' \in Seq(Request)
      BY <1>10, <2>1, MarkType DEF Return, Fate
    <2>5. UNCHANGED <<tableVars, queueVars, wq, nq, ctx, left, callVars,
                      jobVars, nodeVars>>
      BY <1>10 DEF Return
    <2> QED BY <2>2, <2>3, <2>4, <2>5
         DEF TableType, QueueType, TurnType, CallType, JobType, tableVars,
             queueVars, callVars, jobVars, nodeVars
  <1>11. ASSUME NEW w \in Worker, Turn(w)
        PROVE  TypeOK'
    <2>1. gq # <<>> => Head(gq) \in Service /\ Tail(gq) \in Seq(Service)
      BY HeadType
    <2>2. ctx[w] \in Service \cup {NoOne}
      BY <1>11 DEF Turn, TurnType
    <2>3. rel' \in [Thread -> Service \cup {NoOne}]
      BY <1>11, <2>1, <2>2 DEF Turn, CallType, Thread, TurnType
    <2>4. ctx' \in [Worker -> Service \cup {NoOne}]
      BY <1>11, <2>1, <2>2 DEF Turn, TurnType
    <2>5. pc' \in [Worker -> Step]
      BY <1>11, <2>1, <2>2 DEF Turn, TurnType, Step
    <2>6. nq' \in [Worker -> Service \cup {NoOne}]
      BY <1>11, <2>1, <2>2 DEF Turn, TurnType
    <2>7. gq' \in Seq(Service)
      BY <1>11, <2>1, <2>2 DEF Turn, QueueType
    <2>8. UNCHANGED <<tableVars, queue, qmem, inGlobal, release, wq, left,
                      cur, to, msg, del, jobVars, nodeVars, log>>
      BY <1>11 DEF Turn
    <2> QED BY <2>3, <2>4, <2>5, <2>6, <2>7, <2>8
         DEF TableType, QueueType, TurnType, CallType, JobType, tableVars,
             jobVars, nodeVars
  <1>12. ASSUME NEW w \in Worker, PutBack(w)
        PROVE  TypeOK'
    <2>1. gq' \in Seq(Service)
      <3>1. wq[w] \in Service
        BY <1>12 DEF PutBack, At, WorkerInv, TurnType
      <3>2. UNCHANGED gq \/ GlobalPush(wq[w])
        BY <1>12 DEF PutBack
      <3> QED
        BY <3>1, <3>2, PushType DEF QueueType
    <2>2. wq' \in [Worker -> Service \cup {NoOne}]
      BY <1>12 DEF PutBack, TurnType
    <2>3. nq' \in [Worker -> Service \cup {NoOne}]
      BY <1>12 DEF PutBack, TurnType
    <2>4. rel' \in [Thread -> Service \cup {NoOne}]
      BY <1>12 DEF PutBack, CallType, Thread, TurnType
    <2>5. ctx' \in [Worker -> Service \cup {NoOne}]
      BY <1>12 DEF PutBack, TurnType
    <2>6. pc' \in [Worker -> Step]
      BY <1>12 DEF PutBack, TurnType, Step
    <2>7. UNCHANGED <<tableVars, queue, qmem, inGlobal, release, left, cur,
                      to, msg, del, jobVars, nodeVars, log>>
      BY <1>12 DEF PutBack
    <2> QED BY <2>1, <2>2, <2>3, <2>4, <2>5, <2>6, <2>7
         DEF TableType, QueueType, TurnType, CallType, JobType, tableVars,
             jobVars, nodeVars
  <1>13. ASSUME NEW w \in Worker, DropMessage(w)
        PROVE  TypeOK'
    <2>1. Dropping(w) \in Service /\ queue[Dropping(w)] # <<>>
      BY <1>13 DEF DropMessage, Dropping, TurnType, JobType
    <2>2. queue[Dropping(w)] \in Seq(Int)
      BY <2>1 DEF QueueType
    <2>3. Head(queue[Dropping(w)]) \in Int /\
          Tail(queue[Dropping(w)]) \in Seq(Int)
      BY <2>1, <2>2
    <2>4. queue' \in [Service -> Seq(Int)]
      BY <1>13, <2>1, <2>2, <2>3 DEF DropMessage, QueueType
    <2>5. ref' \in [Service -> Int]
      BY <1>13, <2>1, <2>2, <2>3 DEF DropMessage, TableType
    <2>6. to' \in [Thread -> Service \cup {NoOne}]
      BY <1>13, <2>1, <2>2, <2>3 DEF DropMessage, CallType, Thread,
         TableType
    <2>7. msg' \in [Thread -> Int]
      BY <1>13, <2>1, <2>2, <2>3 DEF DropMessage, CallType, Thread
    <2>8. log' \in Seq(Request)
      BY <1>13, <2>1, <2>2, <2>3, MarkType DEF DropMessage, Fate
    <2>9. UNCHANGED <<slot, cmem, ready, qmem, inGlobal, release, gq,
                      turnVars, rel, del, jobVars, nodeVars>>
      BY <1>13 DEF DropMessage
    <2> QED BY <2>4, <2>5, <2>6, <2>7, <2>8, <2>9
         DEF TableType, QueueType, TurnType, CallType, JobType, turnVars,
             jobVars, nodeVars
  <1>14. ASSUME NEW w \in Worker, FreeQueue(w)
        PROVE  TypeOK'
    <2>1. inGlobal' \subseteq Service
      BY <1>14 DEF FreeQueue, QueueType, Dropping
    <2>2. qmem' \in [Service -> Memory]
      BY <1>14 DEF FreeQueue, QueueType, Memory, Dropping
    <2>3. job' \in [Worker -> Job]
      BY <1>14 DEF FreeQueue, JobType, Job
    <2>4. new' \in [Worker -> Service \cup {NoOne}]
      BY <1>14 DEF FreeQueue, JobType
    <2>5. pc' \in [Worker -> Step]
      BY <1>14 DEF FreeQueue, TurnType, Step
    <2>6. wq' \in [Worker -> Service \cup {NoOne}]
      BY <1>14 DEF FreeQueue, TurnType
    <2>7. UNCHANGED <<tableVars, queue, release, gq, nq, ctx, left, cur,
                      callVars, seen, hit, nodeVars, log>>
      BY <1>14 DEF FreeQueue
    <2> QED BY <2>1, <2>2, <2>3, <2>4, <2>5, <2>6, <2>7
         DEF TableType, QueueType, TurnType, CallType, JobType, tableVars,
             callVars, nodeVars
  <1>15. ASSUME NEW w \in Worker, Sleep(w)
        PROVE  TypeOK'
    <2>1. pc' \in [Worker -> Step]
      BY <1>15 DEF Sleep, TurnType, Step
    <2>2. UNCHANGED <<tableVars, queueVars, wq, nq, ctx, left, cur, callVars,
                      jobVars, nodeVars, log>>
      BY <1>15 DEF Sleep
    <2> QED BY <2>1, <2>2
         DEF TableType, QueueType, TurnType, CallType, JobType, tableVars,
             queueVars, callVars, jobVars, nodeVars
  <1>16. ASSUME NEW w \in Worker, Wakeup(w)
        PROVE  TypeOK'
    <2>1. pc' \in [Worker -> Step]
      BY <1>16 DEF Wakeup, TurnType, Step
    <2>2. UNCHANGED <<tableVars, queueVars, wq, nq, ctx, left, cur, callVars,
                      jobVars, nodeVars, log>>
      BY <1>16 DEF Wakeup
    <2> QED BY <2>1, <2>2
         DEF TableType, QueueType, TurnType, CallType, JobType, tableVars,
             queueVars, callVars, jobVars, nodeVars
  <1>17. ASSUME NEW w \in Worker, InitReturns(w)
        PROVE  TypeOK'
    <2>1. new[w] \in Service \cup {NoOne}
      BY <1>17 DEF InitReturns, JobType
    <2>2. ref' \in [Service -> Int]
      BY <1>17, <2>1 DEF InitReturns, TableType, WorkerInv, AtJob, JobType
    <2>3. del' \in [Thread -> Service \cup {NoOne}]
      BY <1>17, <2>1 DEF InitReturns, CallType, Thread
    <2>4. job' \in [Worker -> Job]
      BY <1>17, <2>1 DEF InitReturns, JobType, Job
    <2>5. UNCHANGED <<slot, cmem, ready, queueVars, turnVars, to, msg, rel,
                      new, seen, hit, nodeVars, log>>
      BY <1>17 DEF InitReturns
    <2> QED BY <2>2, <2>3, <2>4, <2>5
         DEF TableType, QueueType, TurnType, CallType, JobType, queueVars,
             turnVars, nodeVars
  <1>18. ASSUME NEW w \in Worker, SetInit(w)
        PROVE  TypeOK'
    <2>1. ready' \subseteq Service
      BY <1>18 DEF SetInit, TableType, JobType, WorkerInv, AtJob
    <2>2. job' \in [Worker -> Job]
      BY <1>18 DEF SetInit, JobType, Job
    <2>3. UNCHANGED <<slot, ref, cmem, queueVars, turnVars, callVars, new,
                      seen, hit, nodeVars, log>>
      BY <1>18 DEF SetInit
    <2> QED BY <2>1, <2>2, <2>3
         DEF TableType, QueueType, TurnType, CallType, JobType, queueVars,
             turnVars, callVars, nodeVars
  <1>19. ASSUME NEW w \in Worker, Publish(w)
        PROVE  TypeOK'
    <2>1. gq' \in Seq(Service)
      <3>1. new[w] \in Service
        BY <1>19 DEF Publish, AtJob, WorkerInv, JobType
      <3>2. UNCHANGED gq \/ GlobalPush(new[w])
        BY <1>19 DEF Publish
      <3> QED
        BY <3>1, <3>2, PushType DEF QueueType
    <2>2. job' \in [Worker -> Job]
      BY <1>19 DEF Publish, JobType, Job
    <2>3. new' \in [Worker -> Service \cup {NoOne}]
      BY <1>19 DEF Publish, JobType
    <2>4. UNCHANGED <<tableVars, queue, qmem, inGlobal, release, turnVars,
                      callVars, seen, hit, nodeVars, log>>
      BY <1>19 DEF Publish
    <2> QED BY <2>1, <2>2, <2>3, <2>4
         DEF TableType, QueueType, TurnType, CallType, JobType, tableVars,
             turnVars, callVars, nodeVars
  <1>20. ASSUME NEW w \in Worker, UseResult(w)
        PROVE  TypeOK'
    <2>1. job' \in [Worker -> Job]
      BY <1>20 DEF UseResult, JobType, Job
    <2>2. new' \in [Worker -> Service \cup {NoOne}]
      BY <1>20 DEF UseResult, JobType
    <2>3. UNCHANGED <<tableVars, queueVars, turnVars, callVars, seen, hit,
                      nodeVars, log>>
      BY <1>20 DEF UseResult
    <2> QED BY <2>1, <2>2, <2>3
         DEF TableType, QueueType, TurnType, CallType, JobType, tableVars,
             queueVars, turnVars, callVars, nodeVars
  <1>21. ASSUME NEW w \in Worker, RetireFailed(w)
        PROVE  TypeOK'
    <2>1. slot' \subseteq Service
      BY <1>21 DEF RetireFailed, TableType, HandleRetire
    <2>2. rel' \in [Thread -> Service \cup {NoOne}]
      BY <1>21 DEF RetireFailed, CallType, Thread, JobType, HandleRetire
    <2>3. job' \in [Worker -> Job]
      BY <1>21 DEF RetireFailed, JobType, Job
    <2>4. UNCHANGED <<ref, cmem, ready, queueVars, turnVars, to, msg, del,
                      new, seen, hit, nodeVars, log>>
      BY <1>21 DEF RetireFailed
    <2> QED BY <2>1, <2>2, <2>3, <2>4
         DEF TableType, QueueType, TurnType, CallType, JobType, queueVars,
             turnVars, nodeVars
  <1>22. ASSUME NEW w \in Worker, ReleaseFailed(w)
        PROVE  TypeOK'
    <2>1. gq' \in Seq(Service)
      <3>1. new[w] \in Service
        BY <1>22 DEF ReleaseFailed, AtJob, WorkerInv, JobType
      <3>2. UNCHANGED gq \/ GlobalPush(new[w])
        BY <1>22 DEF ReleaseFailed
      <3> QED
        BY <3>1, <3>2, PushType DEF QueueType
    <2>2. job' \in [Worker -> Job]
      BY <1>22 DEF ReleaseFailed, JobType, Job
    <2>3. new' \in [Worker -> Service \cup {NoOne}]
      BY <1>22 DEF ReleaseFailed, JobType
    <2>4. UNCHANGED <<tableVars, queue, qmem, inGlobal, release, turnVars,
                      callVars, seen, hit, nodeVars, log>>
      BY <1>22 DEF ReleaseFailed
    <2> QED BY <2>1, <2>2, <2>3, <2>4
         DEF TableType, QueueType, TurnType, CallType, JobType, tableVars,
             turnVars, callVars, nodeVars
  <1>23. ASSUME NEW w \in Worker, Abort(w)
        PROVE  TypeOK'
    <2>1. aborts' \in Nat
      BY <1>23 DEF Abort
    <2>2. job' \in [Worker -> Job]
      BY <1>23 DEF Abort, JobType, Job
    <2>3. UNCHANGED <<tableVars, queueVars, turnVars, callVars, new, seen,
                      hit, quit, log>>
      BY <1>23 DEF Abort
    <2> QED BY <2>1, <2>2, <2>3
         DEF TableType, QueueType, TurnType, CallType, JobType, tableVars,
             queueVars, turnVars, callVars
  <1>24. ASSUME NEW w \in Worker, ScanPass(w)
        PROVE  TypeOK'
    <2>1. seen' \in [Worker -> SUBSET Service]
      BY <1>24 DEF ScanPass, JobType
    <2>2. hit' \in [Worker -> BOOLEAN]
      BY <1>24 DEF ScanPass, JobType
    <2>3. job' \in [Worker -> Job]
      BY <1>24 DEF ScanPass, JobType, Job
    <2>4. UNCHANGED <<tableVars, queueVars, turnVars, callVars, new,
                      nodeVars, log>>
      BY <1>24 DEF ScanPass
    <2> QED BY <2>1, <2>2, <2>3, <2>4
         DEF TableType, QueueType, TurnType, CallType, JobType, tableVars,
             queueVars, turnVars, callVars, nodeVars
  <1>25. ASSUME NEW t \in Thread, NEW src \in Service \cup {NoOne},
                NEW d \in Service, Send(t, src, d)
        PROVE  TypeOK'
    <2>1. ref' \in [Service -> Int]
      BY <1>25 DEF Send, TableType
    <2>2. to' \in [Thread -> Service \cup {NoOne}]
      BY <1>25 DEF Send, CallType, Thread
    <2>3. msg' \in [Thread -> Int]
      BY <1>25 DEF Send, CallType, Thread
    <2>4. log' \in Seq(Request)
      BY <1>25 DEF Send, Fate, Request
    <2>5. UNCHANGED <<slot, cmem, ready, queueVars, turnVars, rel, del,
                      jobVars, nodeVars>>
      BY <1>25 DEF Send
    <2> QED BY <2>1, <2>2, <2>3, <2>4, <2>5
         DEF TableType, QueueType, TurnType, CallType, JobType, queueVars,
             turnVars, jobVars, nodeVars
  <1>26. ASSUME NEW w \in Worker, NEW s \in Service, Kill(w, s)
        PROVE  TypeOK'
    <2>1. slot' \subseteq Service
      BY <1>26 DEF Kill, TableType, HandleRetire
    <2>2. rel' \in [Thread -> Service \cup {NoOne}]
      BY <1>26 DEF Kill, CallType, Thread, HandleRetire
    <2>3. UNCHANGED <<ref, cmem, ready, queueVars, turnVars, to, msg, del,
                      jobVars, nodeVars, log>>
      BY <1>26 DEF Kill
    <2> QED BY <2>1, <2>2, <2>3
         DEF TableType, QueueType, TurnType, CallType, JobType, queueVars,
             turnVars, jobVars, nodeVars
  <1>27. ASSUME NEW w \in Worker, NEW s \in Service, Launch(w, s)
        PROVE  TypeOK'
    <2>1. slot' \subseteq Service
      BY <1>27 DEF Launch, TableType
    <2>2. ref' \in [Service -> Int]
      BY <1>27 DEF Launch, TableType
    <2>3. cmem' \in [Service -> Memory]
      BY <1>27 DEF Launch, TableType, Memory
    <2>4. qmem' \in [Service -> Memory]
      BY <1>27 DEF Launch, QueueType, Memory
    <2>5. inGlobal' \subseteq Service
      BY <1>27 DEF Launch, QueueType
    <2>6. job' \in [Worker -> Job]
      BY <1>27 DEF Launch, JobType, Job
    <2>7. new' \in [Worker -> Service \cup {NoOne}]
      BY <1>27 DEF Launch, JobType
    <2>8. UNCHANGED <<ready, queue, release, gq, turnVars, callVars, seen,
                      hit, nodeVars, log>>
      BY <1>27 DEF Launch
    <2> QED BY <2>1, <2>2, <2>3, <2>4, <2>5, <2>6, <2>7, <2>8
         DEF TableType, QueueType, TurnType, CallType, JobType, turnVars,
             callVars, nodeVars
  <1>28. ASSUME NEW w \in Worker, NEW s \in Service, ScanSlot(w, s)
        PROVE  TypeOK'
    <2>1. seen' \in [Worker -> SUBSET Service]
      BY <1>28 DEF ScanSlot, JobType
    <2>2. hit' \in [Worker -> BOOLEAN]
      BY <1>28 DEF ScanSlot, JobType
    <2>3. slot' \subseteq Service
      BY <1>28 DEF ScanSlot, TableType, HandleRetire
    <2>4. rel' \in [Thread -> Service \cup {NoOne}]
      BY <1>28 DEF ScanSlot, CallType, Thread, HandleRetire
    <2>5. UNCHANGED <<ref, cmem, ready, queueVars, turnVars, to, msg, del,
                      job, new, nodeVars, log>>
      BY <1>28 DEF ScanSlot
    <2> QED BY <2>1, <2>2, <2>3, <2>4, <2>5
         DEF TableType, QueueType, TurnType, CallType, JobType, queueVars,
             turnVars, nodeVars
  <1>29. ASSUME Quit
        PROVE  TypeOK'
    <2>1. quit' \in BOOLEAN
      BY <1>29 DEF Quit
    <2>2. pc' \in [Worker -> Step]
      BY <1>29 DEF Quit, TurnType, Step
    <2>3. UNCHANGED <<tableVars, queueVars, wq, nq, ctx, left, cur, callVars,
                      jobVars, aborts, log>>
      BY <1>29 DEF Quit
    <2> QED BY <2>1, <2>2, <2>3
         DEF TableType, QueueType, TurnType, CallType, JobType, tableVars,
             queueVars, callVars, jobVars
  <1>30. CASE UNCHANGED vars
    BY <1>30 DEF vars, tableVars, queueVars, turnVars, callVars, jobVars,
       nodeVars, TableType, QueueType, TurnType, CallType, JobType
  <1>31. ASSUME NEW w \in Worker
        PROVE  ctx[w] \in Service \cup {NoOne} /\
               new[w] \in Service \cup {NoOne}
    BY <1>31 DEF TurnType, JobType
  <1> QED
    BY <1>1, <1>2, <1>3, <1>4, <1>5, <1>6, <1>7, <1>8, <1>9, <1>10, <1>11,
       <1>12, <1>13, <1>14, <1>15, <1>16, <1>17, <1>18, <1>19, <1>20, <1>21,
       <1>22, <1>23, <1>24, <1>25, <1>26, <1>27, <1>28, <1>29, <1>30, <1>31
    DEF Next, Finish, Progress, Dispatch, Create, Scan, Command, Post, Joined,
        Thread

-----------------------------------------------------------------------------
(* The global queue, and who owns a queue. *)

(* skynet_globalmq_push puts one queue in the global queue, once if it was *)
(* not there.                                                              *)
LEMMA GqPush ==
  ASSUME QueueType, NEW q \in Service, GlobalPush(q)
  PROVE  /\ \A x : InGq(x)' <=> InGq(x) \/ x = q
         /\ GqDistinct /\ ~InGq(q) => GqDistinct'
  <1>1. Len(gq') = Len(gq) + 1 /\ Len(gq) \in Nat
    BY DEF GlobalPush, QueueType
  <1>2. DOMAIN gq = 1..Len(gq) /\ DOMAIN gq' = 1..(Len(gq) + 1)
    BY DEF GlobalPush, QueueType
  <1>3. \A i \in DOMAIN gq : gq'[i] = gq[i]
    BY DEF GlobalPush, QueueType
  <1>4. gq'[Len(gq) + 1] = q
    BY DEF GlobalPush, QueueType
  <1>5. \A x : InGq(x)' <=> InGq(x) \/ x = q
    BY <1>1, <1>2, <1>3, <1>4 DEF InGq
  <1>6. GqDistinct /\ ~InGq(q) => GqDistinct'
    BY <1>1, <1>2, <1>3, <1>4 DEF InGq, GqDistinct
  <1> QED
    BY <1>5, <1>6

(* skynet_globalmq_pop takes the queue at the head out of the global queue.*)
LEMMA GqPop ==
  ASSUME QueueType, GqDistinct, gq # <<>>, gq' = Tail(gq)
  PROVE  /\ Head(gq) \in Service /\ InGq(Head(gq))
         /\ \A x : InGq(x)' <=> InGq(x) /\ x # Head(gq)
         /\ GqDistinct'
  <1>1. Len(gq) \in Nat \ {0} /\ Len(gq') = Len(gq) - 1
    BY DEF QueueType
  <1>2. DOMAIN gq = 1..Len(gq) /\ DOMAIN gq' = 1..(Len(gq) - 1)
    BY DEF QueueType
  <1>3. \A i \in DOMAIN gq' : gq'[i] = gq[i + 1]
    BY DEF QueueType
  <1>4. Head(gq) = gq[1] /\ Head(gq) \in Service
    BY DEF QueueType
  <1>5. \A x : InGq(x)' <=> InGq(x) /\ x # Head(gq)
    <2> SUFFICES ASSUME NEW x
                 PROVE  InGq(x)' <=> InGq(x) /\ x # Head(gq)
      OBVIOUS
    <2>1. ASSUME InGq(x)'
          PROVE  InGq(x) /\ x # Head(gq)
      <3>1. PICK i \in DOMAIN gq' : gq'[i] = x
        BY <2>1 DEF InGq
      <3>2. i + 1 \in DOMAIN gq /\ gq[i + 1] = x /\ i + 1 # 1 /\
            1 \in DOMAIN gq
        BY <1>1, <1>2, <1>3, <3>1
      <3> QED
        BY <1>4, <3>2 DEF InGq, GqDistinct
    <2>2. ASSUME InGq(x), x # Head(gq)
          PROVE  InGq(x)'
      <3>1. PICK i \in DOMAIN gq : gq[i] = x
        BY <2>2 DEF InGq
      <3>2. i - 1 \in DOMAIN gq' /\ gq'[i - 1] = x
        BY <1>1, <1>2, <1>3, <1>4, <2>2, <3>1
      <3> QED
        BY <3>2 DEF InGq
    <2> QED
      BY <2>1, <2>2
  <1>6. GqDistinct'
    <2> SUFFICES ASSUME NEW i \in DOMAIN gq', NEW j \in DOMAIN gq',
                        gq'[i] = gq'[j]
                 PROVE  i = j
      BY DEF GqDistinct
    <2>1. i + 1 \in DOMAIN gq /\ j + 1 \in DOMAIN gq /\ gq[i + 1] = gq[j + 1]
      BY <1>1, <1>2, <1>3
    <2>2. i + 1 = j + 1
      BY <2>1 DEF GqDistinct
    <2> QED
      BY <1>1, <1>2, <2>2
  <1>7. InGq(Head(gq))
    BY <1>1, <1>2, <1>4 DEF InGq
  <1> QED
    BY <1>4, <1>5, <1>6, <1>7


(* A context that something refers to is alive, its queue is, and nobody   *)
(* has marked or is about to delete it.                                    *)
LEMMA Referenced ==
  ASSUME TypeOK, RefInv, LifeInv, NEW s \in Service, NEW r \in Refs(s)
  PROVE  /\ ref[s] > 0
         /\ cmem[s] = "live" /\ qmem[s] = "live"
         /\ s \notin release
         /\ \A t \in Thread : del[t] # s
  <1>1. IsFiniteSet(Refs(s)) /\ ref[s] = Cardinality(Refs(s))
    BY DEF RefInv
  <1>2. ref[s] # 0
    BY <1>1, FS_EmptySet
  <1>3. ref[s] > 0
    BY <1>1, <1>2, FS_CardinalityType
  <1> QED
    BY <1>3 DEF LifeInv

(* Whatever a holder refers to has a reference counted for it.             *)
LEMMA RefsOf ==
  ASSUME NEW s \in Service, NEW k \in RefKind, NEW h \in Holder,
         RefTo(k, h) = s
  PROVE  <<k, h>> \in Refs(s)
  BY DEF Refs

(* What the table lists or a thread has grabbed is alive.                  *)
LEMMA HeldIsLive ==
  ASSUME TypeOK, RefInv, LifeInv, NEW s \in Service, NEW h \in Holder,
         \/ h = s /\ s \in slot
         \/ h \in Worker /\ ctx[h] = s
         \/ h \in Worker /\ job[h] = "init" /\ new[h] = s
         \/ h \in Thread /\ (to[h] = s \/ rel[h] = s)
  PROVE  /\ ref[s] > 0
         /\ cmem[s] = "live" /\ qmem[s] = "live"
         /\ s \notin release
         /\ \A t \in Thread : del[t] # s
  <1>1. \E k \in RefKind : RefTo(k, h) = s
    BY DEF RefTo, RefKind
  <1>2. \E r : r \in Refs(s)
    BY <1>1, RefsOf
  <1> QED
    BY <1>2, Referenced

-----------------------------------------------------------------------------
(* How a step may move queues about.  Each lemma says that queues stay in  *)
(* one place and which of them are still in some place.                    *)

SameHands == \A w \in Worker, k \in Place : Hand(k, w)' = Hand(k, w)
OtherHands(k0, w0) ==
  \A w \in Worker, k \in Place :
    w # w0 \/ k # k0 => Hand(k, w)' = Hand(k, w)

(* A step that touches no hand moves no queue.                             *)
LEMMA OwnersStay ==
  ASSUME OneOwner, SameHands, UNCHANGED gq
  PROVE  OneOwner' /\ \A q : Owned(q)' <=> Owned(q)
  <1>1. \A q : InGq(q)' <=> InGq(q)
    BY DEF InGq
  <1>2. GqDistinct'
    BY DEF OneOwner, GqDistinct
  <1> QED
    BY <1>1, <1>2 DEF OneOwner, Owned, SameHands

(* From the head of the global queue to an empty hand. *)
LEMMA OwnerTakes ==
  ASSUME QueueType, OneOwner, NEW w0 \in Worker, NEW k0 \in Place,
         gq # <<>>, gq' = Tail(gq),
         Hand(k0, w0) = NoOne, Hand(k0, w0)' = Head(gq), OtherHands(k0, w0)
  PROVE  OneOwner' /\ \A q \in Service : Owned(q)' <=> Owned(q)
  <1>1. /\ Head(gq) \in Service /\ InGq(Head(gq))
        /\ \A x : InGq(x)' <=> InGq(x) /\ x # Head(gq)
        /\ GqDistinct'
    BY GqPop DEF OneOwner
  <1>2. \A q \in Service : Owned(q)' <=> Owned(q)
    BY <1>1, ServiceAssumption DEF Owned, OtherHands
  <1>3. OneOwner'
    BY <1>1 DEF OneOwner, OtherHands
  <1> QED
    BY <1>2, <1>3

(* From a hand to the end of the global queue. *)
LEMMA OwnerPuts ==
  ASSUME QueueType, OneOwner, NEW w0 \in Worker, NEW k0 \in Place,
         Hand(k0, w0) \in Service, GlobalPush(Hand(k0, w0)),
         Hand(k0, w0)' = NoOne, OtherHands(k0, w0)
  PROVE  OneOwner' /\ \A q \in Service : Owned(q)' <=> Owned(q)
  <1>1. /\ \A x : InGq(x)' <=> InGq(x) \/ x = Hand(k0, w0)
        /\ GqDistinct'
    BY GqPush, ServiceAssumption DEF OneOwner
  <1>2. \A q \in Service : Owned(q)' <=> Owned(q)
    BY <1>1, ServiceAssumption DEF Owned, OtherHands
  <1>3. OneOwner'
    BY <1>1 DEF OneOwner, OtherHands
  <1> QED
    BY <1>2, <1>3

(* Out of a hand, to nowhere. *)
LEMMA OwnerLoses ==
  ASSUME OneOwner, NEW w0 \in Worker, NEW k0 \in Place,
         Hand(k0, w0) \in Service, UNCHANGED gq,
         Hand(k0, w0)' = NoOne, OtherHands(k0, w0)
  PROVE  /\ OneOwner'
         /\ \A q \in Service : Owned(q)' <=> Owned(q) /\ q # Hand(k0, w0)
  <1>1. \A q : InGq(q)' <=> InGq(q)
    BY DEF InGq
  <1>2. GqDistinct'
    BY DEF OneOwner, GqDistinct
  <1>3. \A q \in Service : Owned(q)' <=> Owned(q) /\ q # Hand(k0, w0)
    BY <1>1, ServiceAssumption DEF Owned, OtherHands, OneOwner
  <1>4. OneOwner'
    BY <1>1, <1>2 DEF OneOwner, OtherHands
  <1> QED
    BY <1>3, <1>4

(* From nowhere to the end of the global queue. *)
LEMMA OwnerQueues ==
  ASSUME QueueType, OneOwner, NEW q0 \in Service, ~Owned(q0), GlobalPush(q0),
         SameHands
  PROVE  OneOwner' /\ \A q \in Service : Owned(q)' <=> Owned(q) \/ q = q0
  <1>1. /\ \A x : InGq(x)' <=> InGq(x) \/ x = q0
        /\ GqDistinct'
    BY GqPush DEF OneOwner, Owned
  <1>2. \A q \in Service : Owned(q)' <=> Owned(q) \/ q = q0
    BY <1>1 DEF Owned, SameHands
  <1>3. OneOwner'
    BY <1>1 DEF OneOwner, SameHands, Owned
  <1> QED
    BY <1>2, <1>3

(* From nowhere to an empty hand. *)
LEMMA OwnerCreates ==
  ASSUME OneOwner, NEW w0 \in Worker, NEW k0 \in Place, UNCHANGED gq,
         Hand(k0, w0)' \in Service, ~Owned(Hand(k0, w0)'),
         Hand(k0, w0) = NoOne, OtherHands(k0, w0)
  PROVE  /\ OneOwner'
         /\ \A q \in Service : Owned(q)' <=> Owned(q) \/ q = Hand(k0, w0)'
  <1>1. \A q : InGq(q)' <=> InGq(q)
    BY DEF InGq
  <1>2. GqDistinct'
    BY DEF OneOwner, GqDistinct
  <1>3. \A q \in Service : Owned(q)' <=> Owned(q) \/ q = Hand(k0, w0)'
    BY <1>1, ServiceAssumption DEF Owned, OtherHands
  <1>4. OneOwner'
    BY <1>1, <1>2 DEF OneOwner, OtherHands, Owned
  <1> QED
    BY <1>3, <1>4

(* The worker's queue to the end of the global queue, the next one instead.*)
LEMMA OwnerSwaps ==
  ASSUME QueueType, OneOwner, NEW w0 \in Worker,
         Hand("wq", w0) \in Service, GlobalPush(Hand("wq", w0)),
         Hand("nq", w0) # NoOne,
         Hand("wq", w0)' = Hand("nq", w0), Hand("nq", w0)' = NoOne,
         Hand("new", w0)' = Hand("new", w0),
         \A w \in Worker, k \in Place : w # w0 => Hand(k, w)' = Hand(k, w)
  PROVE  OneOwner' /\ \A q \in Service : Owned(q)' <=> Owned(q)
  <1>1. /\ \A x : InGq(x)' <=> InGq(x) \/ x = Hand("wq", w0)
        /\ GqDistinct'
    BY GqPush, ServiceAssumption DEF OneOwner, Place
  <1>2. \A q \in Service : Owned(q)' <=> Owned(q)
    BY <1>1, ServiceAssumption DEF Owned, Place
  <1>3. OneOwner'
    BY <1>1, ServiceAssumption DEF OneOwner, Place
  <1> QED
    BY <1>2, <1>3

-----------------------------------------------------------------------------
(* Every step leaves each worker with the local variables its position     *)
(* calls for.                                                              *)
LEMMA WorkerStep == TypeOK /\ WorkerInv /\ [Next]_vars => WorkerInv'
  <1> SUFFICES ASSUME TypeOK, WorkerInv, [Next]_vars
               PROVE  WorkerInv'
    OBVIOUS
  <1>1. ASSUME UNCHANGED <<pc, wq, nq, ctx, job, new>>
        PROVE  WorkerInv'
    BY <1>1 DEF WorkerInv
  <1>2. ASSUME NEW w \in Worker, Loop(w)
        PROVE  WorkerInv'
    BY <1>2, HeadType, ServiceAssumption DEF Loop, WorkerInv, At, AtJob,
       TypeOK, TurnType, JobType, jobVars
  <1>3. ASSUME NEW w \in Worker, Grab(w)
        PROVE  WorkerInv'
    BY <1>3 DEF Grab, WorkerInv, At, AtJob, TypeOK, TurnType, JobType, jobVars
  <1>4. ASSUME NEW w \in Worker, MqRelease(w)
        PROVE  WorkerInv'
    <2>1. UNCHANGED <<nq, ctx, job, new>> /\ pc[w] = "mqrel"
      BY <1>4 DEF MqRelease, At, jobVars
    <2>2. \/ pc' = [pc EXCEPT ![w] = "drop"] /\ UNCHANGED wq
          \/ pc' = [pc EXCEPT ![w] = "next"] /\ wq' = [wq EXCEPT ![w] = NoOne]
      BY <1>4 DEF MqRelease
    <2>3. CASE pc' = [pc EXCEPT ![w] = "drop"] /\ UNCHANGED wq
      BY <2>1, <2>3 DEF WorkerInv, TypeOK, TurnType
    <2>4. CASE /\ pc' = [pc EXCEPT ![w] = "next"]
               /\ wq' = [wq EXCEPT ![w] = NoOne]
      BY <2>1, <2>4 DEF WorkerInv, TypeOK, TurnType
    <2> QED
      BY <2>2, <2>3, <2>4
  <1>5. ASSUME NEW w \in Worker, NextQueue(w)
        PROVE  WorkerInv'
    BY <1>5, HeadType, ServiceAssumption DEF NextQueue, WorkerInv, At, AtJob,
       TypeOK, TurnType, JobType, jobVars
  <1>6. ASSUME NEW w \in Worker, MqPop(w)
        PROVE  WorkerInv'
    BY <1>6 DEF MqPop, WorkerInv, At, AtJob, TypeOK, TurnType, JobType,
       jobVars
  <1>7. ASSUME NEW w \in Worker, MqLength(w)
        PROVE  WorkerInv'
    BY <1>7 DEF MqLength, WorkerInv, At, AtJob, TypeOK, TurnType, JobType,
       jobVars
  <1>8. ASSUME NEW w \in Worker, Return(w)
        PROVE  WorkerInv'
    BY <1>8 DEF Return, WorkerInv, At, AtJob, TypeOK, TurnType, JobType,
       jobVars
  <1>9. ASSUME NEW w \in Worker, Turn(w)
        PROVE  WorkerInv'
    BY <1>9, HeadType, ServiceAssumption DEF Turn, WorkerInv, At, AtJob,
       TypeOK, TurnType, JobType, jobVars
  <1>10. ASSUME NEW w \in Worker, PutBack(w)
        PROVE  WorkerInv'
    BY <1>10 DEF PutBack, WorkerInv, At, AtJob, TypeOK, TurnType, JobType,
       jobVars
  <1>11. ASSUME NEW w \in Worker, FreeQueue(w)
        PROVE  WorkerInv'
    BY <1>11 DEF FreeQueue, WorkerInv, At, AtJob, TypeOK, TurnType, JobType,
       Dropping
  <1>12. ASSUME NEW w \in Worker, Sleep(w)
        PROVE  WorkerInv'
    BY <1>12 DEF Sleep, WorkerInv, At, AtJob, TypeOK, TurnType, JobType,
       jobVars
  <1>13. ASSUME NEW w \in Worker, Wakeup(w)
        PROVE  WorkerInv'
    BY <1>13 DEF Wakeup, WorkerInv, At, AtJob, TypeOK, TurnType, JobType,
       jobVars
  <1>14. ASSUME NEW w \in Worker, InitReturns(w)
        PROVE  WorkerInv'
    BY <1>14 DEF InitReturns, WorkerInv, At, AtJob, TypeOK, TurnType, JobType,
       turnVars
  <1>15. ASSUME NEW w \in Worker, SetInit(w)
        PROVE  WorkerInv'
    BY <1>15 DEF SetInit, WorkerInv, At, AtJob, TypeOK, TurnType, JobType,
       turnVars
  <1>16. ASSUME NEW w \in Worker, Publish(w)
        PROVE  WorkerInv'
    BY <1>16 DEF Publish, WorkerInv, At, AtJob, TypeOK, TurnType, JobType,
       turnVars
  <1>17. ASSUME NEW w \in Worker, UseResult(w)
        PROVE  WorkerInv'
    BY <1>17 DEF UseResult, WorkerInv, At, AtJob, TypeOK, TurnType, JobType,
       turnVars
  <1>18. ASSUME NEW w \in Worker, RetireFailed(w)
        PROVE  WorkerInv'
    BY <1>18 DEF RetireFailed, WorkerInv, At, AtJob, TypeOK, TurnType,
       JobType, turnVars
  <1>19. ASSUME NEW w \in Worker, ReleaseFailed(w)
        PROVE  WorkerInv'
    BY <1>19 DEF ReleaseFailed, WorkerInv, At, AtJob, TypeOK, TurnType,
       JobType, turnVars
  <1>20. ASSUME NEW w \in Worker, Abort(w)
        PROVE  WorkerInv'
    BY <1>20 DEF Abort, WorkerInv, At, AtJob, TypeOK, TurnType, JobType,
       turnVars
  <1>21. ASSUME NEW w \in Worker, ScanPass(w)
        PROVE  WorkerInv'
    BY <1>21 DEF ScanPass, WorkerInv, At, AtJob, TypeOK, TurnType, JobType,
       turnVars
  <1>22. ASSUME NEW w \in Worker, NEW s \in Service, Launch(w, s)
        PROVE  WorkerInv'
    BY <1>22, ServiceAssumption DEF Launch, WorkerInv, At, AtJob, TypeOK,
       TurnType, JobType, turnVars
  <1>23. ASSUME Quit
        PROVE  WorkerInv'
    BY <1>23 DEF Quit, WorkerInv, At, AtJob, TypeOK, TurnType, JobType,
       jobVars
  <1>24. ASSUME NEW w \in Worker
        PROVE  ctx[w] \in Service \cup {NoOne} /\
               new[w] \in Service \cup {NoOne}
    BY <1>24 DEF TypeOK, TurnType, JobType
  <1> QED
    BY <1>1, <1>2, <1>3, <1>4, <1>5, <1>6, <1>7, <1>8, <1>9, <1>10, <1>11,
       <1>12, <1>13, <1>14, <1>15, <1>16, <1>17, <1>18, <1>19, <1>20, <1>21,
       <1>22, <1>23, <1>24
    DEF Next, Finish, Progress, Dispatch, Create, Scan, Command, Post, Thread,
        MqPush, ContextRelease, DeleteContext, DropMessage, Send, Kill,
        ScanSlot, Joined, vars, jobVars, turnVars

(* Every step leaves at most one call pending on a thread. *)
LEMMA CallStep == TypeOK /\ WorkerInv /\ CallInv /\ [Next]_vars => CallInv'
  <1> SUFFICES ASSUME TypeOK, WorkerInv, CallInv, [Next]_vars
               PROVE  CallInv'
    OBVIOUS
  <1>1. ASSUME UNCHANGED <<to, rel, del>>
        PROVE  CallInv'
    BY <1>1 DEF CallInv
  <1>2. ASSUME NEW t \in Thread, MqPush(t)
        PROVE  CallInv'
    BY <1>2 DEF MqPush, CallInv, Idle, At, AtJob, TypeOK, CallType, Thread
  <1>3. ASSUME NEW t \in Thread, ContextRelease(t)
        PROVE  CallInv'
    BY <1>3 DEF ContextRelease, CallInv, Idle, At, AtJob, TypeOK, CallType,
       Thread
  <1>4. ASSUME NEW t \in Thread, DeleteContext(t)
        PROVE  CallInv'
    BY <1>4 DEF DeleteContext, CallInv, Idle, At, AtJob, TypeOK, CallType,
       Thread
  <1>5. ASSUME NEW w \in Worker, MqPop(w)
        PROVE  CallInv'
    BY <1>5 DEF MqPop, CallInv, Idle, At, AtJob, TypeOK, CallType, Thread
  <1>6. ASSUME NEW w \in Worker, Turn(w)
        PROVE  CallInv'
    BY <1>6 DEF Turn, CallInv, Idle, At, AtJob, TypeOK, CallType, Thread
  <1>7. ASSUME NEW w \in Worker, PutBack(w)
        PROVE  CallInv'
    BY <1>7 DEF PutBack, CallInv, Idle, At, AtJob, TypeOK, CallType, Thread
  <1>8. ASSUME NEW w \in Worker, DropMessage(w)
        PROVE  CallInv'
    BY <1>8 DEF DropMessage, CallInv, Idle, At, AtJob, TypeOK, CallType,
       Thread
  <1>9. ASSUME NEW w \in Worker, InitReturns(w)
        PROVE  CallInv'
    BY <1>9 DEF InitReturns, CallInv, Idle, At, AtJob, TypeOK, CallType,
       Thread
  <1>10. ASSUME NEW w \in Worker, RetireFailed(w)
        PROVE  CallInv'
    BY <1>10 DEF RetireFailed, CallInv, Idle, At, AtJob, TypeOK, CallType,
       Thread, HandleRetire
  <1>11. ASSUME NEW t \in Thread, NEW src \in Service \cup {NoOne},
                NEW d \in Service, Send(t, src, d)
        PROVE  CallInv'
    BY <1>11 DEF Send, CallInv, Idle, At, AtJob, TypeOK, CallType, Thread
  <1>12. ASSUME NEW w \in Worker, NEW s \in Service, Kill(w, s)
        PROVE  CallInv'
    BY <1>12 DEF Kill, CallInv, Idle, At, AtJob, TypeOK, CallType, Thread,
       HandleRetire
  <1>13. ASSUME NEW w \in Worker, NEW s \in Service, ScanSlot(w, s)
        PROVE  CallInv'
    BY <1>13 DEF ScanSlot, CallInv, Idle, At, AtJob, TypeOK, CallType, Thread,
       HandleRetire
  <1>14. ASSUME NEW w \in Worker
        PROVE  ctx[w] \in Service \cup {NoOne} /\
               new[w] \in Service \cup {NoOne}
    BY <1>14 DEF TypeOK, TurnType, JobType
  <1> QED
    <2>1. CASE \E t \in Thread : Finish(t)
      BY <1>2, <1>3, <1>4, <2>1 DEF Finish
    <2>2. CASE \E w \in Worker : Dispatch(w) \/ Wakeup(w)
      BY <1>1, <1>5, <1>6, <1>7, <1>8, <2>2
      DEF Dispatch, Loop, Grab, MqRelease, NextQueue, MqLength, Return,
          FreeQueue, Sleep, Wakeup, callVars
    <2>3. CASE \E w \in Worker : Create(w)
      BY <1>1, <1>9, <1>10, <2>3
      DEF Create, SetInit, Publish, UseResult, ReleaseFailed, callVars
    <2>4. CASE \E w \in Worker : Scan(w) \/ Command(w)
      BY <1>1, <1>11, <1>12, <1>13, <1>14, <2>4
      DEF Scan, Command, Abort, ScanPass, Launch, Thread, callVars
    <2>5. CASE (\E p \in Poster : Post(p)) \/ Quit \/ Joined \/ UNCHANGED vars
      BY <1>1, <1>11, <2>5 DEF Post, Quit, Joined, Thread, vars, callVars
    <2> QED
      BY <2>1, <2>2, <2>3, <2>4, <2>5 DEF Next, Progress

(* Every step leaves every queue in one place, and the flags true to it:   *)
(* the steps that take, put, lose and create queues, one by one.           *)
LEMMA OwnerStep ==
  TypeOK /\ WorkerInv /\ OneOwner /\ FlagInv /\ RefInv /\ LifeInv /\
     [Next]_vars
    => OneOwner' /\ FlagInv'
  <1> SUFFICES ASSUME TypeOK, WorkerInv, OneOwner, FlagInv, RefInv, LifeInv,
                      [Next]_vars
               PROVE  OneOwner' /\ FlagInv'
    OBVIOUS
  <1>1. QueueType /\ TurnType /\ CallType /\ JobType
    BY DEF TypeOK
  <1>2. ASSUME SameHands, UNCHANGED <<queue, qmem, inGlobal, release, gq>>
        PROVE  OneOwner' /\ FlagInv'
    BY <1>2, OwnersStay DEF FlagInv
  <1>3. ASSUME NEW t \in Thread, NEW s \in Service, s \in {to[t], rel[t],
               del[t]}
        PROVE  s \notin release /\ qmem[s] = "live"
    <2>1. CASE del[t] = s
      BY <2>1, <1>3 DEF LifeInv
    <2>2. CASE to[t] = s \/ rel[t] = s
      BY <2>2, HeldIsLive DEF Holder
    <2> QED
      BY <1>3, <2>1, <2>2
  <1>4. ASSUME NEW t \in Thread, MqPush(t)
        PROVE  OneOwner' /\ FlagInv'
    <2>1. to[t] \in Service /\ to[t] \notin release /\ qmem[to[t]] = "live"
      BY <1>1, <1>3, <1>4 DEF MqPush, CallType
    <2>2. SameHands
      BY <1>4 DEF MqPush, SameHands, Hand, turnVars, jobVars
    <2>3. CASE to[t] \in inGlobal
      <3>1. OneOwner' /\ \A q : Owned(q)' <=> Owned(q)
        BY <1>4, <2>2, <2>3, OwnersStay DEF MqPush
      <3> QED
        BY <1>1, <1>4, <2>1, <2>3, <3>1 DEF MqPush, FlagInv, QueueType
    <2>4. CASE to[t] \notin inGlobal
      <3>1. ~Owned(to[t])
        BY <2>1, <2>4 DEF FlagInv
      <3>2. OneOwner' /\
            \A q \in Service : Owned(q)' <=> Owned(q) \/ q = to[t]
        BY <1>1, <1>4, <2>1, <2>2, <2>4, <3>1, OwnerQueues DEF MqPush
      <3> QED
        BY <1>1, <1>4, <2>1, <2>4, <3>2 DEF MqPush, FlagInv, QueueType
    <2> QED
      BY <2>3, <2>4
  <1>5. ASSUME NEW t \in Thread, DeleteContext(t)
        PROVE  OneOwner' /\ FlagInv'
    <2>1. del[t] \in Service /\ del[t] \notin release /\ qmem[del[t]] = "live"
      BY <1>1, <1>3, <1>5 DEF DeleteContext, CallType
    <2>2. SameHands
      BY <1>5 DEF DeleteContext, SameHands, Hand, turnVars, jobVars
    <2>3. CASE del[t] \in inGlobal
      <3>1. OneOwner' /\ \A q : Owned(q)' <=> Owned(q)
        BY <1>5, <2>2, <2>3, OwnersStay DEF DeleteContext
      <3> QED
        BY <1>5, <2>1, <2>3, <3>1 DEF DeleteContext, FlagInv
    <2>4. CASE del[t] \notin inGlobal
      <3>1. ~Owned(del[t])
        BY <2>1, <2>4 DEF FlagInv
      <3>2. OneOwner' /\
            \A q \in Service : Owned(q)' <=> Owned(q) \/ q = del[t]
        BY <1>1, <1>5, <2>1, <2>2, <2>4, <3>1, OwnerQueues DEF DeleteContext
      <3> QED
        BY <1>5, <2>1, <2>4, <3>2 DEF DeleteContext, FlagInv
    <2> QED
      BY <2>3, <2>4
  <1>6. ASSUME NEW w \in Worker, Loop(w)
        PROVE  OneOwner' /\ FlagInv'
    <2>1. CASE ~quit /\ wq[w] = NoOne /\ gq # <<>>
      <3>1. gq # <<>> /\ gq' = Tail(gq) /\ UNCHANGED <<queue, qmem, inGlobal,
            release>>
        BY <1>6, <2>1 DEF Loop
      <3>2. Hand("wq", w) = NoOne /\ Hand("wq", w)' = Head(gq)
        BY <1>1, <1>6, <2>1 DEF Loop, Hand, At, WorkerInv, TurnType
      <3>3. OtherHands("wq", w)
        BY <1>1, <1>6, <2>1 DEF Loop, OtherHands, Hand, Place, TurnType,
           jobVars
      <3>4. OneOwner' /\ \A q \in Service : Owned(q)' <=> Owned(q)
        BY <1>1, <3>1, <3>2, <3>3, OwnerTakes DEF Place
      <3> QED
        BY <3>1, <3>4 DEF FlagInv
    <2>2. CASE ~(~quit /\ wq[w] = NoOne /\ gq # <<>>)
      <3>1. SameHands
        BY <1>1, <1>6, <2>2 DEF Loop, SameHands, Hand, TurnType, jobVars
      <3>2. UNCHANGED <<queue, qmem, inGlobal, release, gq>>
        BY <1>6, <2>2 DEF Loop
      <3> QED
        BY <1>2, <3>1, <3>2
    <2> QED
      BY <2>1, <2>2
  <1>7. ASSUME NEW w \in Worker, NextQueue(w)
        PROVE  OneOwner' /\ FlagInv'
    <2>1. CASE gq # <<>>
      <3>1. gq # <<>> /\ gq' = Tail(gq) /\ UNCHANGED <<queue, qmem, inGlobal,
            release>>
        BY <1>7, <2>1 DEF NextQueue
      <3>2. Hand("wq", w) = NoOne /\ Hand("wq", w)' = Head(gq)
        BY <1>1, <1>7, <2>1 DEF NextQueue, Hand, At, WorkerInv, TurnType
      <3>3. OtherHands("wq", w)
        BY <1>1, <1>7, <2>1 DEF NextQueue, OtherHands, Hand, Place, TurnType,
           jobVars
      <3>4. OneOwner' /\ \A q \in Service : Owned(q)' <=> Owned(q)
        BY <1>1, <3>1, <3>2, <3>3, OwnerTakes DEF Place
      <3> QED
        BY <3>1, <3>4 DEF FlagInv
    <2>2. CASE ~(gq # <<>>)
      <3>1. SameHands
        BY <1>1, <1>7, <2>2 DEF NextQueue, SameHands, Hand, TurnType, jobVars
      <3>2. UNCHANGED <<queue, qmem, inGlobal, release, gq>>
        BY <1>7, <2>2 DEF NextQueue
      <3> QED
        BY <1>2, <3>1, <3>2
    <2> QED
      BY <2>1, <2>2
  <1>8. ASSUME NEW w \in Worker, Turn(w)
        PROVE  OneOwner' /\ FlagInv'
    <2>1. CASE gq # <<>>
      <3>1. gq # <<>> /\ gq' = Tail(gq) /\ UNCHANGED <<queue, qmem, inGlobal,
            release>>
        BY <1>8, <2>1 DEF Turn
      <3>2. Hand("nq", w) = NoOne /\ Hand("nq", w)' = Head(gq)
        BY <1>1, <1>8, <2>1 DEF Turn, Hand, At, WorkerInv, TurnType
      <3>3. OtherHands("nq", w)
        BY <1>1, <1>8, <2>1 DEF Turn, OtherHands, Hand, Place, TurnType,
           jobVars
      <3>4. OneOwner' /\ \A q \in Service : Owned(q)' <=> Owned(q)
        BY <1>1, <3>1, <3>2, <3>3, OwnerTakes DEF Place
      <3> QED
        BY <3>1, <3>4 DEF FlagInv
    <2>2. CASE ~(gq # <<>>)
      <3>1. SameHands
        BY <1>1, <1>8, <2>2 DEF Turn, SameHands, Hand, TurnType, jobVars
      <3>2. UNCHANGED <<queue, qmem, inGlobal, release, gq>>
        BY <1>8, <2>2 DEF Turn
      <3> QED
        BY <1>2, <3>1, <3>2
    <2> QED
      BY <2>1, <2>2
  <1>9. ASSUME NEW w \in Worker, MqRelease(w)
        PROVE  OneOwner' /\ FlagInv'
    <2>1. CASE wq[w] \notin release
      <3>1. Hand("wq", w) \in Service /\ GlobalPush(Hand("wq", w))
        BY <1>1, <1>9, <2>1 DEF MqRelease, Hand, TurnType, At, WorkerInv
      <3>2. Hand("wq", w)' = NoOne /\ UNCHANGED <<queue, qmem, inGlobal,
            release>>
        BY <1>1, <1>9, <2>1 DEF MqRelease, Hand, TurnType, At, WorkerInv
      <3>3. OtherHands("wq", w)
        BY <1>1, <1>9, <2>1 DEF MqRelease, OtherHands, Hand, Place, turnVars,
           jobVars,
           TurnType, At, WorkerInv
      <3>4. OneOwner' /\ \A q \in Service : Owned(q)' <=> Owned(q)
        BY <1>1, <3>1, <3>2, <3>3, OwnerPuts DEF Place
      <3> QED
        BY <3>2, <3>4 DEF FlagInv
    <2>2. CASE ~(wq[w] \notin release)
      <3>1. SameHands
        BY <1>1, <1>9, <2>2 DEF MqRelease, SameHands, Hand, TurnType,
           JobType, turnVars,
           jobVars, At, AtJob, WorkerInv
      <3>2. UNCHANGED <<queue, qmem, inGlobal, release, gq>>
        BY <1>9, <2>2 DEF MqRelease
      <3> QED
        BY <1>2, <3>1, <3>2
    <2> QED
      BY <2>1, <2>2
  <1>10. ASSUME NEW w \in Worker, Publish(w)
        PROVE  OneOwner' /\ FlagInv'
    <2>1. CASE TRUE
      <3>1. Hand("new", w) \in Service /\ GlobalPush(Hand("new", w))
        BY <1>1, <1>10, <2>1 DEF Publish, Hand, JobType, AtJob, WorkerInv
      <3>2. Hand("new", w)' = NoOne /\ UNCHANGED <<queue, qmem, inGlobal,
            release>>
        BY <1>1, <1>10, <2>1 DEF Publish, Hand, JobType, AtJob, WorkerInv
      <3>3. OtherHands("new", w)
        BY <1>1, <1>10, <2>1 DEF Publish, OtherHands, Hand, Place, turnVars,
           jobVars,
           JobType, AtJob, WorkerInv
      <3>4. OneOwner' /\ \A q \in Service : Owned(q)' <=> Owned(q)
        BY <1>1, <3>1, <3>2, <3>3, OwnerPuts DEF Place
      <3> QED
        BY <3>2, <3>4 DEF FlagInv
    <2> QED
      BY <2>1
  <1>11. ASSUME NEW w \in Worker, ReleaseFailed(w)
        PROVE  OneOwner' /\ FlagInv'
    <2>1. CASE new[w] \notin release
      <3>1. Hand("new", w) \in Service /\ GlobalPush(Hand("new", w))
        BY <1>1, <1>11, <2>1 DEF ReleaseFailed, Hand, JobType, AtJob,
           WorkerInv
      <3>2. Hand("new", w)' = NoOne /\ UNCHANGED <<queue, qmem, inGlobal,
            release>>
        BY <1>1, <1>11, <2>1 DEF ReleaseFailed, Hand, JobType, AtJob,
           WorkerInv
      <3>3. OtherHands("new", w)
        BY <1>1, <1>11, <2>1 DEF ReleaseFailed, OtherHands, Hand, Place,
           turnVars, jobVars,
           JobType, AtJob, WorkerInv
      <3>4. OneOwner' /\ \A q \in Service : Owned(q)' <=> Owned(q)
        BY <1>1, <3>1, <3>2, <3>3, OwnerPuts DEF Place
      <3> QED
        BY <3>2, <3>4 DEF FlagInv
    <2>2. CASE ~(new[w] \notin release)
      <3>1. SameHands
        BY <1>1, <1>11, <2>2 DEF ReleaseFailed, SameHands, Hand, TurnType,
           JobType, turnVars,
           jobVars, At, AtJob, WorkerInv
      <3>2. UNCHANGED <<queue, qmem, inGlobal, release, gq>>
        BY <1>11, <2>2 DEF ReleaseFailed
      <3> QED
        BY <1>2, <3>1, <3>2
    <2> QED
      BY <2>1, <2>2
  <1>12. ASSUME NEW w \in Worker, PutBack(w)
        PROVE  OneOwner' /\ FlagInv'
    <2>1. /\ Hand("wq", w) \in Service /\ Hand("nq", w) # NoOne
          /\ GlobalPush(Hand("wq", w))
      BY <1>1, <1>12 DEF PutBack, Hand, At, WorkerInv, TurnType
    <2>2. /\ Hand("wq", w)' = Hand("nq", w)
          /\ Hand("nq", w)' = NoOne
          /\ Hand("new", w)' = Hand("new", w)
          /\ \A v \in Worker, k \in Place : v # w => Hand(k, v)' = Hand(k, v)
      BY <1>1, <1>12 DEF PutBack, Hand, Place, TurnType, jobVars
    <2>3. OneOwner' /\ \A q \in Service : Owned(q)' <=> Owned(q)
      BY <1>1, <2>1, <2>2, OwnerSwaps
    <2> QED
      BY <1>12, <2>3 DEF PutBack, FlagInv
  <1>13. ASSUME NEW w \in Worker, MqPop(w)
        PROVE  OneOwner' /\ FlagInv'
    <2>1. CASE queue[wq[w]] = <<>>
      <3>1. Hand("wq", w) = wq[w] /\ wq[w] \in Service /\ Hand("wq",
            w)' = NoOne
        BY <1>1, <1>13, <2>1 DEF MqPop, Hand, At, WorkerInv, TurnType
      <3>2. OtherHands("wq", w)
        BY <1>1, <1>13, <2>1 DEF MqPop, OtherHands, Hand, Place, TurnType,
           jobVars
      <3>3. /\ OneOwner'
            /\ \A q \in Service : Owned(q)' <=> Owned(q) /\ q # wq[w]
        BY <1>1, <1>13, <2>1, <3>1, <3>2, OwnerLoses DEF MqPop, Place
      <3>4. /\ queue[wq[w]] = <<>> /\ inGlobal' = inGlobal \ {wq[w]}
            /\ \A q \in Service \ {wq[w]} : qmem'[q] = qmem[q]
            /\ UNCHANGED <<queue, release>>
        BY <1>1, <1>13, <2>1 DEF MqPop, Dropping, QueueType
      <3> QED
        BY <3>3, <3>4 DEF FlagInv
    <2>2. CASE queue[wq[w]] # <<>>
      <3>1. SameHands /\ UNCHANGED <<qmem, inGlobal, release, gq>>
        BY <1>1, <1>13, <2>2 DEF MqPop, SameHands, Hand, jobVars
      <3>2. OneOwner' /\ \A q : Owned(q)' <=> Owned(q)
        BY <3>1, OwnersStay
      <3>3. \A q \in Service : queue'[q] # <<>> => queue[q] # <<>>
        BY <1>1, <1>13, <2>2 DEF MqPop, QueueType
      <3> QED
        BY <3>1, <3>2, <3>3 DEF FlagInv
    <2> QED
      BY <2>1, <2>2
  <1>14. ASSUME NEW w \in Worker, FreeQueue(w)
        PROVE  OneOwner' /\ FlagInv'
    <2>1. CASE job[w] = "drop"
      <3>1. Hand("new", w) = new[w] /\ new[w] \in Service /\ Hand("new",
            w)' = NoOne
        BY <1>1, <1>14, <2>1 DEF FreeQueue, Hand, Dropping, JobType, WorkerInv
      <3>2. OtherHands("new", w)
        BY <1>1, <1>14, <2>1 DEF FreeQueue, OtherHands, Hand, Place, JobType,
           turnVars
      <3>3. /\ OneOwner'
            /\ \A q \in Service : Owned(q)' <=> Owned(q) /\ q # new[w]
        BY <1>1, <1>14, <2>1, <3>1, <3>2, OwnerLoses DEF FreeQueue, Place
      <3>4. /\ queue[new[w]] = <<>> /\ inGlobal' = inGlobal \ {new[w]}
            /\ \A q \in Service \ {new[w]} : qmem'[q] = qmem[q]
            /\ UNCHANGED <<queue, release>>
        BY <1>1, <1>14, <2>1 DEF FreeQueue, Dropping, QueueType
      <3> QED
        BY <3>3, <3>4 DEF FlagInv
    <2>2. CASE job[w] # "drop"
      <3>1. Hand("wq", w) = wq[w] /\ wq[w] \in Service /\ Hand("wq",
            w)' = NoOne
        BY <1>1, <1>14, <2>2 DEF FreeQueue, Hand, Dropping, TurnType,
           WorkerInv
      <3>2. OtherHands("wq", w)
        BY <1>1, <1>14, <2>2 DEF FreeQueue, OtherHands, Hand, Place,
           TurnType, jobVars
      <3>3. /\ OneOwner'
            /\ \A q \in Service : Owned(q)' <=> Owned(q) /\ q # wq[w]
        BY <1>1, <1>14, <2>2, <3>1, <3>2, OwnerLoses DEF FreeQueue, Place
      <3>4. /\ queue[wq[w]] = <<>> /\ inGlobal' = inGlobal \ {wq[w]}
            /\ \A q \in Service \ {wq[w]} : qmem'[q] = qmem[q]
            /\ UNCHANGED <<queue, release>>
        BY <1>1, <1>14, <2>2 DEF FreeQueue, Dropping, QueueType
      <3> QED
        BY <3>3, <3>4 DEF FlagInv
    <2> QED
      BY <2>1, <2>2
  <1>15. ASSUME NEW w \in Worker, DropMessage(w)
        PROVE  OneOwner' /\ FlagInv'
    <2>1. SameHands /\ UNCHANGED <<qmem, inGlobal, release, gq>>
      BY <1>15 DEF DropMessage, SameHands, Hand, turnVars, jobVars
    <2>2. OneOwner' /\ \A q : Owned(q)' <=> Owned(q)
      BY <2>1, OwnersStay
    <2>3. \A q \in Service : queue'[q] # <<>> => queue[q] # <<>>
      BY <1>1, <1>15 DEF DropMessage, QueueType
    <2> QED
      BY <2>1, <2>2, <2>3 DEF FlagInv
  <1>16. ASSUME NEW w \in Worker, NEW s \in Service, Launch(w, s)
        PROVE  OneOwner' /\ FlagInv'
    <2>1. ~Owned(s)
      BY <1>16 DEF Launch, LifeInv, FlagInv
    <2>2. Hand("new", w) = NoOne /\ Hand("new", w)' = s
      BY <1>1, <1>16 DEF Launch, At, WorkerInv, Hand, JobType
    <2>3. OtherHands("new", w)
      BY <1>1, <1>16 DEF Launch, OtherHands, Hand, Place, JobType, turnVars
    <2>4. OneOwner' /\ \A q \in Service : Owned(q)' <=> Owned(q) \/ q = s
      BY <1>16, <2>1, <2>2, <2>3, OwnerCreates DEF Launch, Place
    <2> QED
      BY <1>1, <1>16, <2>4 DEF Launch, FlagInv, QueueType
  <1>17. ASSUME NEW w \in Worker, InitReturns(w)
        PROVE  OneOwner' /\ FlagInv'
    <2>1. SameHands
      BY <1>1, <1>17 DEF InitReturns, SameHands, Hand, At, AtJob, WorkerInv,
         JobType,
         turnVars
    <2> QED
      BY <1>2, <1>17, <2>1 DEF InitReturns, queueVars
  <1>18. ASSUME NEW w \in Worker, SetInit(w)
        PROVE  OneOwner' /\ FlagInv'
    <2>1. SameHands
      BY <1>1, <1>18 DEF SetInit, SameHands, Hand, At, AtJob, WorkerInv,
         JobType,
         turnVars
    <2> QED
      BY <1>2, <1>18, <2>1 DEF SetInit, queueVars
  <1>19. ASSUME NEW w \in Worker, UseResult(w)
        PROVE  OneOwner' /\ FlagInv'
    <2>1. SameHands
      BY <1>1, <1>19 DEF UseResult, SameHands, Hand, At, AtJob, WorkerInv,
         JobType,
         turnVars
    <2> QED
      BY <1>2, <1>19, <2>1 DEF UseResult, queueVars
  <1>20. ASSUME NEW w \in Worker, RetireFailed(w)
        PROVE  OneOwner' /\ FlagInv'
    <2>1. SameHands
      BY <1>1, <1>20 DEF RetireFailed, SameHands, Hand, At, AtJob, WorkerInv,
         JobType,
         turnVars
    <2> QED
      BY <1>2, <1>20, <2>1 DEF RetireFailed, queueVars
  <1>21. ASSUME NEW w \in Worker, Abort(w)
        PROVE  OneOwner' /\ FlagInv'
    <2>1. SameHands
      BY <1>1, <1>21 DEF Abort, SameHands, Hand, At, AtJob, WorkerInv,
         JobType,
         turnVars
    <2> QED
      BY <1>2, <1>21, <2>1 DEF Abort, queueVars
  <1>22. ASSUME NEW w \in Worker, ScanPass(w)
        PROVE  OneOwner' /\ FlagInv'
    <2>1. SameHands
      BY <1>1, <1>22 DEF ScanPass, SameHands, Hand, At, AtJob, WorkerInv,
         JobType,
         turnVars
    <2> QED
      BY <1>2, <1>22, <2>1 DEF ScanPass, queueVars
  <1>23. ASSUME UNCHANGED <<wq, nq, job, new, queue, qmem, inGlobal, release,
                gq>>
        PROVE  OneOwner' /\ FlagInv'
    <2>1. SameHands
      BY <1>23 DEF SameHands, Hand
    <2> QED
      BY <1>2, <1>23, <2>1
  <1> QED
    <2> USE DEF queueVars, turnVars, jobVars
    <2>1. CASE \E t \in Thread : Finish(t)
      BY <1>4, <1>5, <1>23, <2>1 DEF Finish, ContextRelease
    <2>2. CASE \E w \in Worker : Dispatch(w) \/ Wakeup(w)
      BY <1>6, <1>7, <1>8, <1>9, <1>10, <1>11, <1>12, <1>13, <1>14, <1>15,
         <1>16, <1>23, <2>2
      DEF Dispatch, Grab, MqLength, Return, Sleep, Wakeup
    <2>3. CASE \E w \in Worker : Create(w)
      BY <1>6, <1>7, <1>8, <1>9, <1>10, <1>11, <1>12, <1>13, <1>14, <1>15,
         <1>16, <1>17, <1>18, <1>19, <1>20, <2>3
      DEF Create
    <2>4. CASE \E w \in Worker : Scan(w) \/ Command(w)
      BY <1>14, <1>15, <1>16, <1>21, <1>22, <1>23, <2>4
      DEF Scan, Command, Send, Kill, ScanSlot
    <2>5. CASE (\E p \in Poster : Post(p)) \/ Quit \/ Joined \/ UNCHANGED vars
      BY <1>23, <2>5 DEF Post, Send, Quit, Joined, vars
    <2> QED
      BY <2>1, <2>2, <2>3, <2>4, <2>5 DEF Next, Progress
=============================================================================
