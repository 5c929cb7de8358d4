-------------------------- MODULE KernelInvariant ---------------------------
(***************************************************************************)
(* The inductive invariant of Kernel.tla.                                  *)
(***************************************************************************)
EXTENDS KernelProperties

(* What a worker has in its local variables at each step. *)
WorkerInv ==
  \A w \in Worker :
    /\ pc[w] \in {"grab", "mqrel", "drop", "pop", "len", "exec", "turn",
                  "putback"} => wq[w] # NoOne
    /\ pc[w] \in {"next", "sleep", "asleep"} => wq[w] = NoOne
    /\ IF pc[w] \in {"pop", "len", "exec", "turn", "putback"}
       THEN ctx[w] = wq[w]
       ELSE ctx[w] = NoOne
    /\ nq[w] # NoOne <=> pc[w] = "putback"
    /\ job[w] # "none" => pc[w] = "exec"
    /\ new[w] = NoOne <=> job[w] \in {"none", "scan"}

(* One call at a time: a thread that has a context to push to has none to  *)
(* release or delete.                                                      *)
CallInv ==
  \A t \in Thread :
    /\ to[t] # NoOne => rel[t] = NoOne /\ del[t] = NoOne
    /\ rel[t] # NoOne => del[t] = NoOne

(* The flags tell where a queue is: one whose flag is set is owned, and an *)
(* owned one whose flag is clear has been marked for release; it is        *)
(* allocated as long as it is owned, and empty unless its flag is set.     *)
FlagInv ==
  \A q \in Service :
    /\ q \in inGlobal => Owned(q)
    /\ Owned(q) => q \in inGlobal \cup release
    /\ Owned(q) => qmem[q] = "live"
    /\ queue[q] # <<>> => q \in inGlobal

(* The references to contexts: the table's, a creator's until init         *)
(* returns, and those that threads have grabbed or are about to release.   *)
RefKind == {"slot", "init", "ctx", "to", "rel"}
Holder == Thread \cup Service
RefTo(k, h) ==
  CASE k = "slot" -> IF h \in slot THEN h ELSE NoOne
    [] k = "init" -> IF h \in Worker /\ job[h] = "init" THEN new[h] ELSE NoOne
    [] k = "ctx"  -> IF h \in Worker THEN ctx[h] ELSE NoOne
    [] k = "to"   -> IF h \in Thread THEN to[h] ELSE NoOne
    [] k = "rel"  -> IF h \in Thread THEN rel[h] ELSE NoOne

Refs(s) == {r \in RefKind \X Holder : RefTo(r[1], r[2]) = s}

RefInv ==
  \A s \in Service : IsFiniteSet(Refs(s)) /\ ref[s] = Cardinality(Refs(s))

(* The life of a context and of its queue. *)
LifeInv ==
  \A s \in Service :
    /\ cmem[s] = "none" =>
         /\ qmem[s] = "none" /\ s \notin inGlobal /\ s \notin ready
         /\ \A w \in Worker : new[w] # s
    /\ s \in release <=> cmem[s] = "freed"
    /\ cmem[s] = "live" => qmem[s] = "live"
    /\ ref[s] > 0 => cmem[s] = "live"
    /\ \A t \in Thread : del[t] = s => cmem[s] = "live" /\ ref[s] = 0

DeleteInv ==
  \A t, u \in Thread : del[t] # NoOne /\ del[t] = del[u] => t = u

(* A queue being dropped has been marked.                                  *)
DropInv ==
  \A w \in Worker :
    /\ pc[w] = "drop" => wq[w] \in release
    /\ job[w] = "drop" => new[w] \in release

(* What waits for a worker or is with one is initialised or out of the     *)
(* table, and so is what a creator is about to publish or has given up and *)
(* every queue whose flag would let a push schedule it.                    *)
Settled(q) == q \in ready \/ q \notin slot

ReadyInv ==
  /\ \A w \in Worker :
       /\ ctx[w] # NoOne => ctx[w] \in ready
       /\ wq[w] # NoOne => Settled(wq[w])
       /\ nq[w] # NoOne => Settled(nq[w])
       /\ job[w] \in {"gpush", "quiet", "mqrel", "drop"} => Settled(new[w])
  /\ \A q \in Service : InGq(q) => Settled(q)
  /\ \A q \in Service : cmem[q] = "live" => q \in inGlobal \/ Settled(q)

IInv ==
  /\ TypeOK /\ WorkerInv /\ CallInv /\ OneOwner /\ FlagInv /\ RefInv /\ LifeInv
  /\ DeleteInv /\ DropInv /\ ReadyInv

-----------------------------------------------------------------------------
(* The requests and the messages that carry them. *)

(* The service a message is for: the target of a request, or, when the     *)
(* request was dropped, the source that its error goes back to.            *)
Target(m) == IF m > 0 THEN log[m].dst ELSE log[-m].src
IsMessage(m) == m \in (-Len(log))..Len(log) /\ m # 0
Fits(m, s) == IsMessage(m) /\ Target(m) = s

(* Messages are carried to, queued at and run by the service they are for, *)
(* and whoever sent one was created before.                                *)
MessageInv ==
  /\ \A t \in Thread : to[t] # NoOne => Fits(msg[t], to[t])
  /\ \A q \in Service : \A k \in DOMAIN queue[q] : Fits(queue[q][k], q)
  /\ \A w \in Worker :
       IF pc[w] \in {"len", "exec"} THEN IsMessage(cur[w]) ELSE cur[w] = 0
  /\ \A i \in 1..Len(log) :
       log[i].src # NoOne => cmem[log[i].src] # "none"

(* A service sends from its callback or its init, one request at a time:   *)
(* the one a thread carries for it is the last it sent.                    *)
SendsFor(w, s) ==
  /\ pc[w] = "exec"
  /\ \/ job[w] = "none" /\ ctx[w] = s
     \/ job[w] = "init" /\ new[w] = s

SenderInv ==
  \A t \in Thread : \A i \in 1..Len(log) :
    to[t] # NoOne /\ msg[t] = i /\ log[i].src # NoOne =>
      /\ t \in Worker /\ SendsFor(t, log[i].src)
      /\ \A j \in (i + 1)..Len(log) : log[j].src # log[i].src

(* Two requests of one source wait in the order they were sent.            *)
SortedInv ==
  \A q \in Service : \A k, l \in DOMAIN queue[q] :
    /\ k < l /\ queue[q][k] > 0 /\ queue[q][l] > 0
    /\ log[queue[q][k]].src = log[queue[q][l]].src
    /\ log[queue[q][k]].src # NoOne
    => queue[q][k] <= queue[q][l]

(* What has begun to run has no earlier request of its source to the same  *)
(* target still on its way.                                                *)
Begun(j) == log[j].fate \in {"running", "done"} \/ Running(j)

OrderInv ==
  \A j \in 1..Len(log) : \A i \in 1..(j - 1) :
    /\ log[i].src = log[j].src /\ log[i].src # NoOne
    /\ log[i].dst = log[j].dst
    /\ Begun(j)
    => log[i].fate \notin {"sending", "queued"}

LogBound == Len(log) <= MaxMsg

LogInv ==
  /\ MessageInv /\ SenderInv /\ SortedInv /\ RequestAccounted /\ OrderInv
  /\ LogBound

FullInv == IInv /\ LogInv
=============================================================================
