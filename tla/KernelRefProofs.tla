------------------------- MODULE KernelRefProofs ---------------------------
(***************************************************************************)
(* Reference counts and the life of contexts and queues: every step keeps  *)
(* RefInv, LifeInv, DeleteInv, DropInv and ReadyInv.                       *)
(***************************************************************************)
EXTENDS KernelQueueProofs

(* How a step may change the references: each lemma says that the counts   *)
(* stay exact.                                                             *)

SameRefs == \A k \in RefKind, h \in Holder : RefTo(k, h)' = RefTo(k, h)
OtherRefs(k0, h0) ==
  \A k \in RefKind, h \in Holder :
    k # k0 \/ h # h0 => RefTo(k, h)' = RefTo(k, h)

(* A step that touches no holder changes no count.                         *)
LEMMA RefsStay ==
  ASSUME RefInv, SameRefs, UNCHANGED ref
  PROVE  RefInv'
  <1>1. \A s \in Service : Refs(s)' = Refs(s)
    BY DEF Refs, SameRefs
  <1> QED
    BY <1>1 DEF RefInv

(* A holder that referred to nothing refers to s0, and s0 is incremented.  *)
LEMMA RefAdds ==
  ASSUME RefInv, TableType, NEW k0 \in RefKind, NEW h0 \in Holder,
         NEW s0 \in Service, RefTo(k0, h0) = NoOne, RefTo(k0, h0)' = s0,
         OtherRefs(k0, h0), ref' = [ref EXCEPT ![s0] = @ + 1]
  PROVE  RefInv'
  <1>1. Refs(s0)' = Refs(s0) \cup {<<k0, h0>>} /\ <<k0, h0>> \notin Refs(s0)
    BY ServiceAssumption DEF Refs, OtherRefs
  <1>2. \A s \in Service \ {s0} : Refs(s)' = Refs(s)
    BY ServiceAssumption DEF Refs, OtherRefs
  <1>3. IsFiniteSet(Refs(s0)) /\ ref[s0] = Cardinality(Refs(s0))
    BY DEF RefInv
  <1>4. /\ IsFiniteSet(Refs(s0) \cup {<<k0, h0>>})
        /\ Cardinality(Refs(s0) \cup {<<k0, h0>>}) = ref[s0] + 1
    BY <1>1, <1>3, FS_AddElement
  <1>5. ref'[s0] = ref[s0] + 1 /\ \A s \in Service \ {s0} : ref'[s] = ref[s]
    BY DEF TableType
  <1> QED
    BY <1>1, <1>2, <1>4, <1>5 DEF RefInv

(* A holder that referred to s0 refers to nothing, and s0 is decremented.  *)
LEMMA RefDrops ==
  ASSUME RefInv, TableType, NEW k0 \in RefKind, NEW h0 \in Holder,
         NEW s0 \in Service, RefTo(k0, h0) = s0, RefTo(k0, h0)' = NoOne,
         OtherRefs(k0, h0), ref' = [ref EXCEPT ![s0] = @ - 1]
  PROVE  RefInv'
  <1>1. Refs(s0)' = Refs(s0) \ {<<k0, h0>>} /\ <<k0, h0>> \in Refs(s0)
    BY ServiceAssumption DEF Refs, OtherRefs
  <1>2. \A s \in Service \ {s0} : Refs(s)' = Refs(s)
    BY ServiceAssumption DEF Refs, OtherRefs
  <1>3. IsFiniteSet(Refs(s0)) /\ ref[s0] = Cardinality(Refs(s0))
    BY DEF RefInv
  <1>4. /\ IsFiniteSet(Refs(s0) \ {<<k0, h0>>})
        /\ Cardinality(Refs(s0) \ {<<k0, h0>>}) = ref[s0] - 1
    BY <1>1, <1>3, FS_RemoveElement
  <1>5. ref'[s0] = ref[s0] - 1 /\ \A s \in Service \ {s0} : ref'[s] = ref[s]
    BY DEF TableType
  <1> QED
    BY <1>1, <1>2, <1>4, <1>5 DEF RefInv

(* One holder hands its reference to s0 to another.                        *)
LEMMA RefMoves ==
  ASSUME RefInv, TableType, NEW k0 \in RefKind, NEW h0 \in Holder,
         NEW k1 \in RefKind, NEW h1 \in Holder, k0 # k1,
         NEW s0 \in Service, RefTo(k0, h0) = s0, RefTo(k0, h0)' = NoOne,
         RefTo(k1, h1) = NoOne, RefTo(k1, h1)' = s0, UNCHANGED ref,
         \A k \in RefKind, h \in Holder :
           (k # k0 \/ h # h0) /\ (k # k1 \/ h # h1)
             => RefTo(k, h)' = RefTo(k, h)
  PROVE  RefInv'
  <1> DEFINE rest == Refs(s0) \ {<<k0, h0>>}
  <1>1. <<k0, h0>> \in Refs(s0) /\ <<k1, h1>> \notin rest
    BY ServiceAssumption DEF Refs
  <1>2. Refs(s0)' = rest \cup {<<k1, h1>>}
    BY ServiceAssumption DEF Refs
  <1>3. \A s \in Service \ {s0} : Refs(s)' = Refs(s)
    BY ServiceAssumption DEF Refs
  <1>4. IsFiniteSet(Refs(s0)) /\ ref[s0] = Cardinality(Refs(s0))
    BY DEF RefInv
  <1>5. IsFiniteSet(rest) /\ Cardinality(rest) = ref[s0] - 1
    BY <1>1, <1>4, FS_RemoveElement
  <1>6. /\ IsFiniteSet(rest \cup {<<k1, h1>>})
        /\ Cardinality(rest \cup {<<k1, h1>>}) = ref[s0] - 1 + 1
    BY <1>1, <1>5, FS_AddElement
  <1>7. ref[s0] \in Int /\ ref[s0] - 1 + 1 = ref[s0]
    BY DEF TableType
  <1> QED
    BY <1>2, <1>3, <1>6, <1>7 DEF RefInv

(* Every step leaves ref[s] the number of references to s.                 *)
LEMMA RefStep ==
  TypeOK /\ WorkerInv /\ CallInv /\ RefInv /\ LifeInv /\ [Next]_vars =>
     RefInv'
  <1> SUFFICES ASSUME TypeOK, WorkerInv, CallInv, RefInv, LifeInv, [Next]_vars
               PROVE  RefInv'
    OBVIOUS
  <1>1. TableType /\ TurnType /\ CallType /\ JobType
    BY DEF TypeOK
  <1>2. Worker \subseteq Thread /\ Thread \subseteq Holder /\
        Service \subseteq Holder
    BY DEF Thread, Holder
  <1>3. ASSUME NEW t \in Thread, NEW src \in Service \cup {NoOne},
               NEW d \in Service, Send(t, src, d)
        PROVE  RefInv'
    <2>1. d \in Service /\ t \in Holder
      BY <1>1, <1>2, <1>3 DEF Send, Idle, CallType
    <2>2. RefTo("to", t) = NoOne /\ RefTo("to", t)' = d
      BY <1>1, <1>2, <1>3, <2>1 DEF Send, RefTo, Idle, CallType
    <2>3. OtherRefs("to", t)
      BY <1>1, <1>2, <1>3, <2>1 DEF Send, OtherRefs, RefTo, RefKind, Holder,
         Thread, turnVars, jobVars, Idle, CallType
    <2>4. ref' = [ref EXCEPT ![d] = @ + 1]
      BY <1>3 DEF Send
    <2> QED
      BY <1>1, <2>1, <2>2, <2>3, <2>4, RefAdds DEF RefKind
  <1>4. ASSUME NEW t \in Thread, MqPush(t)
        PROVE  RefInv'
    <2>1. to[t] \in Service /\ t \in Holder /\ t \in Holder
      BY <1>1, <1>2, <1>4 DEF MqPush, CallType, CallInv
    <2>2. RefTo("to", t) = to[t] /\ RefTo("to", t)' = NoOne
      BY <1>1, <1>2, <1>4, <2>1 DEF MqPush, RefTo, CallType, CallInv
    <2>3. RefTo("rel", t) = NoOne /\ RefTo("rel", t)' = to[t]
      BY <1>1, <1>2, <1>4, <2>1 DEF MqPush, RefTo, CallType, CallInv
    <2>4. \A k \in RefKind, h \in Holder :
            (k # "to" \/ h # t) /\ (k # "rel" \/ h # t)
              => RefTo(k, h)' = RefTo(k, h)
      BY <1>1, <1>2, <1>4, <2>1 DEF MqPush, RefTo, RefKind, Holder, Thread,
         tableVars, turnVars, jobVars, CallType, CallInv
    <2>5. UNCHANGED ref
      BY <1>4 DEF MqPush, tableVars
    <2> QED
      BY <1>1, <2>1, <2>2, <2>3, <2>4, <2>5, RefMoves DEF RefKind
  <1>5. ASSUME NEW t \in Thread, ContextRelease(t)
        PROVE  RefInv'
    <2>1. rel[t] \in Service /\ t \in Holder
      BY <1>1, <1>2, <1>5 DEF ContextRelease, CallType
    <2>2. RefTo("rel", t) = rel[t] /\ RefTo("rel", t)' = NoOne
      BY <1>1, <1>2, <1>5, <2>1 DEF ContextRelease, RefTo, CallType
    <2>3. OtherRefs("rel", t)
      BY <1>1, <1>2, <1>5, <2>1 DEF ContextRelease, OtherRefs, RefTo,
         RefKind, Holder,
         Thread, turnVars, jobVars, CallType
    <2>4. ref' = [ref EXCEPT ![rel[t]] = @ - 1]
      BY <1>5 DEF ContextRelease
    <2> QED
      BY <1>1, <2>1, <2>2, <2>3, <2>4, RefDrops DEF RefKind
  <1>6. ASSUME NEW w \in Worker, Grab(w)
        PROVE  RefInv'
    <2>1. CASE wq[w] \in slot
      <3>1. wq[w] \in Service /\ w \in Holder
        BY <1>1, <1>2, <1>6, <2>1 DEF Grab, At, WorkerInv, TableType, TurnType
      <3>2. RefTo("ctx", w) = NoOne /\ RefTo("ctx", w)' = wq[w]
        BY <1>1, <1>2, <1>6, <2>1, <3>1 DEF Grab, RefTo, At, WorkerInv,
           TableType, TurnType
      <3>3. OtherRefs("ctx", w)
        BY <1>1, <1>2, <1>6, <2>1, <3>1 DEF Grab, OtherRefs, RefTo, RefKind,
           Holder,
           Thread, callVars, jobVars, At, WorkerInv, TableType, TurnType
      <3>4. ref' = [ref EXCEPT ![wq[w]] = @ + 1]
        BY <1>6, <2>1 DEF Grab
      <3> QED
        BY <1>1, <3>1, <3>2, <3>3, <3>4, RefAdds DEF RefKind
    <2>2. CASE wq[w] \notin slot
      <3>1. SameRefs /\ UNCHANGED ref
        BY <1>1, <1>6, <2>2 DEF Grab, SameRefs, RefTo, At, callVars, jobVars,
           turnVars
      <3> QED
        BY <3>1, RefsStay
    <2> QED
      BY <2>1, <2>2
  <1>7. ASSUME NEW w \in Worker, MqPop(w)
        PROVE  RefInv'
    <2>1. CASE queue[wq[w]] = <<>>
      <3>1. ctx[w] \in Service /\ w \in Holder /\ w \in Holder
        BY <1>1, <1>2, <1>7, <2>1 DEF MqPop, At, Idle, WorkerInv, TurnType,
           CallType
      <3>2. RefTo("ctx", w) = ctx[w] /\ RefTo("ctx", w)' = NoOne
        BY <1>1, <1>2, <1>7, <2>1, <3>1 DEF MqPop, RefTo, At, Idle,
           WorkerInv, TurnType, CallType
      <3>3. RefTo("rel", w) = NoOne /\ RefTo("rel", w)' = ctx[w]
        BY <1>1, <1>2, <1>7, <2>1, <3>1 DEF MqPop, RefTo, At, Idle,
           WorkerInv, TurnType, CallType
      <3>4. \A k \in RefKind, h \in Holder :
              (k # "ctx" \/ h # w) /\ (k # "rel" \/ h # w)
                => RefTo(k, h)' = RefTo(k, h)
        BY <1>1, <1>2, <1>7, <2>1, <3>1 DEF MqPop, RefTo, RefKind, Holder,
           Thread,
           tableVars, jobVars, At, Idle, WorkerInv, TurnType, CallType
      <3>5. UNCHANGED ref
        BY <1>7, <2>1 DEF MqPop, tableVars
      <3> QED
        BY <1>1, <3>1, <3>2, <3>3, <3>4, <3>5, RefMoves DEF RefKind
    <2>2. CASE queue[wq[w]] # <<>>
      <3>1. SameRefs /\ UNCHANGED ref
        BY <1>1, <1>7, <2>2 DEF MqPop, SameRefs, RefTo, At, tableVars, jobVars
      <3> QED
        BY <3>1, RefsStay
    <2> QED
      BY <2>1, <2>2
  <1>8. ASSUME NEW w \in Worker, Turn(w)
        PROVE  RefInv'
    <2>1. CASE gq = <<>>
      <3>1. ctx[w] \in Service /\ w \in Holder /\ w \in Holder
        BY <1>1, <1>2, <1>8, <2>1 DEF Turn, At, Idle, WorkerInv, TurnType,
           CallType
      <3>2. RefTo("ctx", w) = ctx[w] /\ RefTo("ctx", w)' = NoOne
        BY <1>1, <1>2, <1>8, <2>1, <3>1 DEF Turn, RefTo, At, Idle, WorkerInv,
           TurnType, CallType
      <3>3. RefTo("rel", w) = NoOne /\ RefTo("rel", w)' = ctx[w]
        BY <1>1, <1>2, <1>8, <2>1, <3>1 DEF Turn, RefTo, At, Idle, WorkerInv,
           TurnType, CallType
      <3>4. \A k \in RefKind, h \in Holder :
              (k # "ctx" \/ h # w) /\ (k # "rel" \/ h # w)
                => RefTo(k, h)' = RefTo(k, h)
        BY <1>1, <1>2, <1>8, <2>1, <3>1 DEF Turn, RefTo, RefKind, Holder,
           Thread,
           tableVars, jobVars, At, Idle, WorkerInv, TurnType, CallType
      <3>5. UNCHANGED ref
        BY <1>8, <2>1 DEF Turn, tableVars
      <3> QED
        BY <1>1, <3>1, <3>2, <3>3, <3>4, <3>5, RefMoves DEF RefKind
    <2>2. CASE gq # <<>>
      <3>1. SameRefs /\ UNCHANGED ref
        BY <1>1, <1>8, <2>2 DEF Turn, SameRefs, RefTo, At, tableVars, jobVars
      <3> QED
        BY <3>1, RefsStay
    <2> QED
      BY <2>1, <2>2
  <1>9. ASSUME NEW w \in Worker, PutBack(w)
        PROVE  RefInv'
    <2>1. ctx[w] \in Service /\ w \in Holder /\ w \in Holder
      BY <1>1, <1>2, <1>9 DEF PutBack, At, Idle, WorkerInv, TurnType, CallType
    <2>2. RefTo("ctx", w) = ctx[w] /\ RefTo("ctx", w)' = NoOne
      BY <1>1, <1>2, <1>9, <2>1 DEF PutBack, RefTo, At, Idle, WorkerInv,
         TurnType, CallType
    <2>3. RefTo("rel", w) = NoOne /\ RefTo("rel", w)' = ctx[w]
      BY <1>1, <1>2, <1>9, <2>1 DEF PutBack, RefTo, At, Idle, WorkerInv,
         TurnType, CallType
    <2>4. \A k \in RefKind, h \in Holder :
            (k # "ctx" \/ h # w) /\ (k # "rel" \/ h # w)
              => RefTo(k, h)' = RefTo(k, h)
      BY <1>1, <1>2, <1>9, <2>1 DEF PutBack, RefTo, RefKind, Holder, Thread,
         tableVars, jobVars, At, Idle, WorkerInv, TurnType, CallType
    <2>5. UNCHANGED ref
      BY <1>9 DEF PutBack, tableVars
    <2> QED
      BY <1>1, <2>1, <2>2, <2>3, <2>4, <2>5, RefMoves DEF RefKind
  <1>10. ASSUME NEW w \in Worker, DropMessage(w)
        PROVE  RefInv'
    <2> DEFINE m == Head(queue[Dropping(w)])
               src == log[m].src
    <2>1. CASE m > 0 /\ src \in slot
      <3>1. src \in Service /\ w \in Holder
        BY <1>1, <1>2, <1>10, <2>1 DEF DropMessage, Idle, CallType, TableType
      <3>2. RefTo("to", w) = NoOne /\ RefTo("to", w)' = src
        BY <1>1, <1>2, <1>10, <2>1, <3>1 DEF DropMessage, RefTo, Idle,
           CallType, TableType
      <3>3. OtherRefs("to", w)
        BY <1>1, <1>2, <1>10, <2>1, <3>1 DEF DropMessage, OtherRefs, RefTo,
           RefKind, Holder,
           Thread, turnVars, jobVars, Idle, CallType, TableType
      <3>4. ref' = [ref EXCEPT ![src] = @ + 1]
        BY <1>10, <2>1 DEF DropMessage
      <3> QED
        BY <1>1, <3>1, <3>2, <3>3, <3>4, RefAdds DEF RefKind
    <2>2. CASE ~(m > 0 /\ src \in slot)
      <3>1. SameRefs /\ UNCHANGED ref
        BY <1>1, <1>10, <2>2 DEF DropMessage, SameRefs, RefTo, Idle,
           turnVars, jobVars
      <3> QED
        BY <3>1, RefsStay
    <2> QED
      BY <2>1, <2>2
  <1>11. ASSUME NEW w \in Worker, InitReturns(w)
        PROVE  RefInv'
    <2>1. new[w] \in Service /\ w \in Holder
      BY <1>1, <1>2, <1>11 DEF InitReturns, AtJob, WorkerInv, JobType
    <2>2. RefTo("init", w) = new[w] /\ RefTo("init", w)' = NoOne
      BY <1>1, <1>2, <1>11, <2>1 DEF InitReturns, RefTo, AtJob, WorkerInv,
         JobType
    <2>3. OtherRefs("init", w)
      BY <1>1, <1>2, <1>11, <2>1 DEF InitReturns, OtherRefs, RefTo, RefKind,
         Holder,
         Thread, turnVars, callVars, AtJob, WorkerInv, JobType
    <2>4. ref' = [ref EXCEPT ![new[w]] = @ - 1]
      BY <1>11 DEF InitReturns
    <2> QED
      BY <1>1, <2>1, <2>2, <2>3, <2>4, RefDrops DEF RefKind
  <1>12. ASSUME NEW w \in Worker, NEW s \in Service, Kill(w, s)
        PROVE  RefInv'
    <2>1. CASE s \in slot
      <3>1. s \in Service /\ s \in Holder /\ w \in Holder
        BY <1>1, <1>2, <1>12, <2>1 DEF Kill, HandleRetire, At, Idle,
           TableType, CallType
      <3>2. RefTo("slot", s) = s /\ RefTo("slot", s)' = NoOne
        BY <1>1, <1>2, <1>12, <2>1, <3>1 DEF Kill, RefTo, HandleRetire, At,
           Idle, TableType, CallType
      <3>3. RefTo("rel", w) = NoOne /\ RefTo("rel", w)' = s
        BY <1>1, <1>2, <1>12, <2>1, <3>1 DEF Kill, RefTo, HandleRetire, At,
           Idle, TableType, CallType
      <3>4. \A k \in RefKind, h \in Holder :
              (k # "slot" \/ h # s) /\ (k # "rel" \/ h # w)
                => RefTo(k, h)' = RefTo(k, h)
        BY <1>1, <1>2, <1>12, <2>1, <3>1 DEF Kill, RefTo, RefKind, Holder,
           Thread,
           turnVars, jobVars, HandleRetire, At, Idle, TableType, CallType
      <3>5. UNCHANGED ref
        BY <1>12, <2>1 DEF Kill, tableVars
      <3> QED
        BY <1>1, <3>1, <3>2, <3>3, <3>4, <3>5, RefMoves DEF RefKind
    <2>2. CASE s \notin slot
      <3>1. SameRefs /\ UNCHANGED ref
        BY <1>1, <1>12, <2>2 DEF Kill, SameRefs, RefTo, HandleRetire, At,
           Idle, turnVars, jobVars
      <3> QED
        BY <3>1, RefsStay
    <2> QED
      BY <2>1, <2>2
  <1>13. ASSUME NEW w \in Worker, NEW s \in Service, ScanSlot(w, s)
        PROVE  RefInv'
    <2>1. CASE s \in slot
      <3>1. s \in Service /\ s \in Holder /\ w \in Holder
        BY <1>1, <1>2, <1>13, <2>1 DEF ScanSlot, HandleRetire, AtJob, Idle,
           TableType, CallType
      <3>2. RefTo("slot", s) = s /\ RefTo("slot", s)' = NoOne
        BY <1>1, <1>2, <1>13, <2>1, <3>1 DEF ScanSlot, RefTo, HandleRetire,
           AtJob, Idle, TableType, CallType
      <3>3. RefTo("rel", w) = NoOne /\ RefTo("rel", w)' = s
        BY <1>1, <1>2, <1>13, <2>1, <3>1 DEF ScanSlot, RefTo, HandleRetire,
           AtJob, Idle, TableType, CallType
      <3>4. \A k \in RefKind, h \in Holder :
              (k # "slot" \/ h # s) /\ (k # "rel" \/ h # w)
                => RefTo(k, h)' = RefTo(k, h)
        BY <1>1, <1>2, <1>13, <2>1, <3>1 DEF ScanSlot, RefTo, RefKind,
           Holder, Thread,
           turnVars, HandleRetire, AtJob, Idle, TableType, CallType
      <3>5. UNCHANGED ref
        BY <1>13, <2>1 DEF ScanSlot, tableVars
      <3> QED
        BY <1>1, <3>1, <3>2, <3>3, <3>4, <3>5, RefMoves DEF RefKind
    <2>2. CASE s \notin slot
      <3>1. SameRefs /\ UNCHANGED ref
        BY <1>1, <1>13, <2>2 DEF ScanSlot, SameRefs, RefTo, HandleRetire,
           AtJob, Idle, turnVars
      <3> QED
        BY <3>1, RefsStay
    <2> QED
      BY <2>1, <2>2
  <1>14. ASSUME NEW w \in Worker, RetireFailed(w)
        PROVE  RefInv'
    <2>0. PICK s \in Service : s = new[w]
      BY <1>1, <1>14 DEF RetireFailed, AtJob, WorkerInv, JobType
    <2>1. CASE s \in slot
      <3>1. s \in Service /\ s \in Holder /\ w \in Holder
        BY <1>1, <1>2, <1>14, <2>0, <2>1 DEF RetireFailed, HandleRetire,
           AtJob, Idle, JobType, TableType, CallType
      <3>2. RefTo("slot", s) = s /\ RefTo("slot", s)' = NoOne
        BY <1>1, <1>2, <1>14, <2>0, <2>1, <3>1 DEF RetireFailed, RefTo,
           HandleRetire, AtJob, Idle, JobType, TableType, CallType
      <3>3. RefTo("rel", w) = NoOne /\ RefTo("rel", w)' = s
        BY <1>1, <1>2, <1>14, <2>0, <2>1, <3>1 DEF RetireFailed, RefTo,
           HandleRetire, AtJob, Idle, JobType, TableType, CallType
      <3>4. \A k \in RefKind, h \in Holder :
              (k # "slot" \/ h # s) /\ (k # "rel" \/ h # w)
                => RefTo(k, h)' = RefTo(k, h)
        BY <1>1, <1>2, <1>14, <2>0, <2>1, <3>1 DEF RetireFailed, RefTo,
           RefKind, Holder, Thread,
           turnVars, HandleRetire, AtJob, Idle, JobType, TableType, CallType
      <3>5. UNCHANGED ref
        BY <1>14, <2>1 DEF RetireFailed, tableVars
      <3> QED
        BY <1>1, <3>1, <3>2, <3>3, <3>4, <3>5, RefMoves DEF RefKind
    <2>2. CASE s \notin slot
      <3>1. SameRefs /\ UNCHANGED ref
        BY <1>1, <1>14, <2>0, <2>2 DEF RetireFailed, SameRefs, RefTo,
           HandleRetire, AtJob, Idle, JobType, turnVars
      <3> QED
        BY <3>1, RefsStay
    <2> QED
      BY <2>1, <2>2
  <1>15. ASSUME NEW w \in Worker, NEW s \in Service, Launch(w, s)
        PROVE  RefInv'
    <2>1. ref[s] = 0 /\ ref[s] = Cardinality(Refs(s)) /\ IsFiniteSet(Refs(s))
      BY <1>1, <1>15, FS_CardinalityType DEF Launch, RefInv, LifeInv,
         TableType
    <2>2. Refs(s) = {}
      BY <2>1, FS_EmptySet
    <2>3. \A k \in RefKind, h \in Holder : RefTo(k, h) # s
      BY <2>2, RefsOf
    <2>4. RefTo("slot", s)' = s /\ RefTo("init", w)' = s
      BY <1>1, <1>15 DEF Launch, RefTo, TableType, JobType
    <2>5. \A k \in RefKind, h \in Holder :
            (k # "slot" \/ h # s) /\ (k # "init" \/ h # w)
              => RefTo(k, h)' = RefTo(k, h)
      BY <1>1, <1>15 DEF Launch, RefTo, RefKind, TableType, JobType, callVars,
         turnVars, At
    <2>6. Refs(s)' = {<<"slot", s>>, <<"init", w>>}
      BY <1>2, <2>3, <2>4, <2>5 DEF Refs, RefKind
    <2>7. \A u \in Service \ {s} : Refs(u)' = Refs(u)
      <3>1. RefTo("slot", s) = NoOne /\ RefTo("init", w) = NoOne
        BY <1>1, <1>2, <1>15, <2>3 DEF Launch, RefTo, RefKind, At
      <3> QED
        BY <2>4, <2>5, <3>1, ServiceAssumption DEF Refs
    <2>8. /\ IsFiniteSet({<<"slot", s>>, <<"init", w>>})
          /\ Cardinality({<<"slot", s>>, <<"init", w>>}) = 2
      <3>1. /\ IsFiniteSet({<<"slot", s>>})
            /\ Cardinality({<<"slot", s>>}) = 1
        BY FS_Singleton
      <3>2. {<<"slot", s>>, <<"init", w>>} = {<<"slot", s>>} \cup {<<"init",
            w>>}
        OBVIOUS
      <3>3. <<"init", w>> \notin {<<"slot", s>>}
        OBVIOUS
      <3>4. /\ IsFiniteSet({<<"slot", s>>} \cup {<<"init", w>>})
            /\ Cardinality({<<"slot", s>>} \cup {<<"init", w>>})
                 = Cardinality({<<"slot", s>>}) + 1
        BY <3>1, <3>3, FS_AddElement
      <3> QED
        BY <3>1, <3>2, <3>4
    <2>9. ref'[s] = 2 /\ \A u \in Service \ {s} : ref'[u] = ref[u]
      BY <1>1, <1>15 DEF Launch, TableType
    <2> QED
      BY <2>6, <2>7, <2>8, <2>9 DEF RefInv
  <1>16. ASSUME NEW w \in Worker, FreeQueue(w)
        PROVE  RefInv'
    <2>1. SameRefs /\ UNCHANGED ref
      BY <1>1, <1>16 DEF FreeQueue, SameRefs, RefTo, RefKind, Dropping,
         JobType, callVars,
         turnVars, tableVars
    <2> QED
      BY <2>1, RefsStay
  <1>17. ASSUME NEW w \in Worker, SetInit(w)
        PROVE  RefInv'
    <2>1. SameRefs /\ UNCHANGED ref
      BY <1>1, <1>17 DEF SetInit, SameRefs, RefTo, RefKind, AtJob, At,
         JobType, callVars,
         turnVars, tableVars
    <2> QED
      BY <2>1, RefsStay
  <1>18. ASSUME NEW w \in Worker, Publish(w)
        PROVE  RefInv'
    <2>1. SameRefs /\ UNCHANGED ref
      BY <1>1, <1>18 DEF Publish, SameRefs, RefTo, RefKind, AtJob, At,
         JobType, callVars,
         turnVars, tableVars
    <2> QED
      BY <2>1, RefsStay
  <1>19. ASSUME NEW w \in Worker, UseResult(w)
        PROVE  RefInv'
    <2>1. SameRefs /\ UNCHANGED ref
      BY <1>1, <1>19 DEF UseResult, SameRefs, RefTo, RefKind, AtJob, At,
         JobType, callVars,
         turnVars, tableVars
    <2> QED
      BY <2>1, RefsStay
  <1>20. ASSUME NEW w \in Worker, ReleaseFailed(w)
        PROVE  RefInv'
    <2>1. SameRefs /\ UNCHANGED ref
      BY <1>1, <1>20 DEF ReleaseFailed, SameRefs, RefTo, RefKind, AtJob, At,
         JobType, callVars,
         turnVars, tableVars
    <2> QED
      BY <2>1, RefsStay
  <1>21. ASSUME NEW w \in Worker, Abort(w)
        PROVE  RefInv'
    <2>1. SameRefs /\ UNCHANGED ref
      BY <1>1, <1>21 DEF Abort, SameRefs, RefTo, RefKind, AtJob, At, JobType,
         callVars,
         turnVars, tableVars
    <2> QED
      BY <2>1, RefsStay
  <1>22. ASSUME NEW w \in Worker, ScanPass(w)
        PROVE  RefInv'
    <2>1. SameRefs /\ UNCHANGED ref
      BY <1>1, <1>22 DEF ScanPass, SameRefs, RefTo, RefKind, AtJob, At,
         JobType, callVars,
         turnVars, tableVars
    <2> QED
      BY <2>1, RefsStay
  <1>23. ASSUME UNCHANGED <<slot, ref, ctx, to, rel, job, new>>
        PROVE  RefInv'
    <2>1. SameRefs
      BY <1>23 DEF SameRefs, RefTo
    <2> QED
      BY <1>23, <2>1, RefsStay
  <1>24. ASSUME NEW w \in Worker
        PROVE  ctx[w] \in Service \cup {NoOne} /\
               new[w] \in Service \cup {NoOne}
    BY <1>1, <1>24 DEF TurnType, JobType
  <1> QED
    BY <1>2, <1>3, <1>4, <1>5, <1>6, <1>7, <1>8, <1>9, <1>10, <1>11, <1>12,
       <1>13, <1>14, <1>15, <1>16, <1>17, <1>18, <1>19, <1>20, <1>21, <1>22,
       <1>23, <1>24
    DEF Next, Finish, Progress, Dispatch, Create, Scan, Command, Post, vars,
        tableVars, turnVars, callVars, jobVars, Thread, DeleteContext, Loop,
        MqRelease, NextQueue, MqLength, Return, Sleep, Wakeup, Quit, Joined

-----------------------------------------------------------------------------
(* Every step keeps the life of contexts and queues in order: a deletion   *)
(* marks the queue, and only a marked queue is freed.                      *)
LEMMA LifeStep ==
  TypeOK /\ WorkerInv /\ RefInv /\ LifeInv /\ DeleteInv /\ DropInv /\
  [Next]_vars => LifeInv'
  <1> SUFFICES ASSUME TypeOK, WorkerInv, RefInv, LifeInv, DeleteInv, DropInv,
                      [Next]_vars
               PROVE  LifeInv'
    OBVIOUS
  <1>1. ASSUME UNCHANGED <<ref, cmem, ready, qmem, inGlobal, release, del,
               new>>
        PROVE  LifeInv'
    BY <1>1 DEF LifeInv
  <1>2. ASSUME NEW t \in Thread, MqPush(t)
        PROVE  LifeInv'
    <2>1. PICK s \in Service : s = to[t]
      BY <1>2 DEF MqPush, TypeOK, CallType
    <2>2. cmem[s] = "live"
      BY <2>1, HeldIsLive DEF Holder
    <2> QED
      BY <1>2, <2>1, <2>2 DEF MqPush, LifeInv, tableVars, jobVars
  <1>3. ASSUME NEW t \in Thread, ContextRelease(t)
        PROVE  LifeInv'
    <2>1. PICK s \in Service : s = rel[t]
      BY <1>3 DEF ContextRelease, TypeOK, CallType
    <2>2. cmem[s] = "live" /\ \A u \in Thread : del[u] # s
      BY <2>1, HeldIsLive DEF Holder
    <2> QED
      BY <1>3, <2>1, <2>2 DEF ContextRelease, LifeInv, TypeOK, TableType,
         CallType, queueVars, jobVars
  <1>4. ASSUME NEW t \in Thread, DeleteContext(t)
        PROVE  LifeInv'
    <2>1. PICK s \in Service : s = del[t] /\ cmem[s] = "live" /\ ref[s] = 0
      BY <1>4 DEF DeleteContext, LifeInv, TypeOK, CallType
    <2>2. \A u \in Thread : u # t => del[u] # s
      BY <1>4, <2>1, ServiceAssumption DEF DeleteInv
    <2>3. /\ release' = release \cup {s}
          /\ cmem' = [cmem EXCEPT ![s] = "freed"]
          /\ del' = [del EXCEPT ![t] = NoOne]
          /\ UNCHANGED <<ref, ready, qmem, inGlobal, new>>
      BY <1>4, <2>1 DEF DeleteContext, jobVars
    <2> QED
      BY <2>1, <2>2, <2>3, ServiceAssumption DEF LifeInv, TypeOK, TableType,
         QueueType, CallType
  <1>5. ASSUME NEW w \in Worker, Grab(w)
        PROVE  LifeInv'
    <2>1. CASE wq[w] \notin slot
      BY <1>5, <2>1 DEF Grab, LifeInv, queueVars, callVars, jobVars
    <2>2. CASE wq[w] \in slot
      <3>1. PICK s \in Service : s = wq[w] /\ s \in slot
        BY <2>2 DEF TypeOK, TableType
      <3>2. cmem[s] = "live" /\ \A u \in Thread : del[u] # s
        BY <3>1, HeldIsLive DEF Holder
      <3> QED
        BY <1>5, <2>2, <3>1, <3>2 DEF Grab, LifeInv, TypeOK, TableType,
           queueVars, callVars, jobVars
    <2> QED
      BY <2>1, <2>2
  <1>6. ASSUME NEW w \in Worker, MqPop(w)
        PROVE  LifeInv'
    BY <1>6 DEF MqPop, LifeInv, TypeOK, TableType, QueueType, JobType,
       tableVars, jobVars
  <1>7. ASSUME NEW w \in Worker, DropMessage(w)
        PROVE  LifeInv'
    <2>1. CASE UNCHANGED ref
      BY <1>7, <2>1 DEF DropMessage, LifeInv, jobVars
    <2>2. CASE \E s \in Service : s \in slot /\
          ref' = [ref EXCEPT ![s] = @ + 1]
      <3>1. PICK s \in Service : s \in slot /\
            ref' = [ref EXCEPT ![s] = @ + 1]
        BY <2>2
      <3>2. cmem[s] = "live" /\ \A u \in Thread : del[u] # s
        BY <3>1, HeldIsLive DEF Holder
      <3> QED
        BY <1>7, <3>1, <3>2 DEF DropMessage, LifeInv, TypeOK, TableType,
           jobVars
    <2> QED
      BY <1>7, <2>1, <2>2 DEF DropMessage, TypeOK, TableType
  <1>8. ASSUME NEW w \in Worker, FreeQueue(w)
        PROVE  LifeInv'
    <2>1. PICK q \in Service : q = Dropping(w) /\ q \in release
      BY <1>8 DEF FreeQueue, Dropping, DropInv, TypeOK, TurnType, JobType,
         QueueType
    <2>2. /\ inGlobal' = inGlobal \ {q}
          /\ qmem' = [qmem EXCEPT ![q] = "freed"]
          /\ UNCHANGED <<ref, cmem, ready, release, del>>
      BY <1>8, <2>1 DEF FreeQueue, tableVars, callVars
    <2>3. new' = new \/ new' = [new EXCEPT ![w] = NoOne]
      BY <1>8 DEF FreeQueue
    <2> QED
      BY <2>1, <2>2, <2>3, ServiceAssumption DEF LifeInv, TypeOK, QueueType,
         JobType
  <1>9. ASSUME NEW w \in Worker, InitReturns(w)
        PROVE  LifeInv'
    <2>1. PICK s \in Service : s = new[w] /\ job[w] = "init"
      BY <1>9 DEF InitReturns, AtJob, WorkerInv, TypeOK, JobType
    <2>2. cmem[s] = "live" /\ \A u \in Thread : del[u] # s
      BY <2>1, HeldIsLive DEF Holder, Thread
    <2>3. UNCHANGED <<slot, cmem, ready, qmem, inGlobal, release, new>>
      BY <1>9 DEF InitReturns, queueVars
    <2>4. ref' = [ref EXCEPT ![s] = @ - 1]
      BY <1>9, <2>1 DEF InitReturns
    <2>5. del' = IF ref[s] = 1 THEN [del EXCEPT ![w] = s] ELSE del
      BY <1>9, <2>1 DEF InitReturns
    <2> QED
      BY <2>1, <2>2, <2>3, <2>4, <2>5 DEF LifeInv, TypeOK, TableType, CallType
  <1>10. ASSUME NEW w \in Worker, SetInit(w)
        PROVE  LifeInv'
    <2>1. new[w] \in Service
      BY <1>10 DEF SetInit, AtJob, WorkerInv, TypeOK, JobType
    <2> QED
      BY <1>10, <2>1 DEF SetInit, LifeInv, queueVars, callVars
  <1>11. ASSUME NEW w \in Worker, Publish(w)
        PROVE  LifeInv'
    BY <1>11, ServiceAssumption DEF Publish, LifeInv, TypeOK, TableType,
       QueueType, JobType, tableVars, callVars
  <1>12. ASSUME NEW w \in Worker, UseResult(w)
        PROVE  LifeInv'
    BY <1>12, ServiceAssumption DEF UseResult, LifeInv, TypeOK, TableType,
       QueueType, JobType, tableVars, queueVars, callVars
  <1>13. ASSUME NEW w \in Worker, ReleaseFailed(w)
        PROVE  LifeInv'
    BY <1>13, ServiceAssumption DEF ReleaseFailed, LifeInv, TypeOK, TableType,
       QueueType, JobType, tableVars, callVars
  <1>14. ASSUME NEW t \in Thread, NEW src \in Service \cup {NoOne},
                NEW d \in Service, Send(t, src, d)
        PROVE  LifeInv'
    <2>1. cmem[d] = "live" /\ \A u \in Thread : del[u] # d
      BY <1>14, HeldIsLive DEF Send, Holder
    <2> QED
      BY <1>14, <2>1 DEF Send, LifeInv, TypeOK, TableType, queueVars, jobVars
  <1>15. ASSUME NEW w \in Worker, NEW s \in Service, Launch(w, s)
        PROVE  LifeInv'
    <2>1. cmem[s] = "none" /\ s \notin release /\ \A u \in Thread : del[u] # s
      BY <1>15 DEF Launch, LifeInv
    <2> QED
      BY <1>15, <2>1 DEF Launch, LifeInv, TypeOK, TableType, QueueType,
         JobType,
         callVars
  <1>16. ASSUME NEW w \in Worker
        PROVE  ctx[w] \in Service \cup {NoOne} /\
               new[w] \in Service \cup {NoOne}
    BY <1>16 DEF TypeOK, TurnType, JobType
  <1> QED
    <2>1. CASE \E t \in Thread : Finish(t)
      BY <1>2, <1>3, <1>4, <2>1 DEF Finish
    <2>2. CASE \E w \in Worker : Dispatch(w) \/ Wakeup(w)
      BY <1>1, <1>5, <1>6, <1>7, <1>8, <1>9, <2>2
      DEF Dispatch, Loop, MqRelease, NextQueue, MqLength, Return, Turn,
          PutBack, Sleep, Wakeup, callVars, jobVars, queueVars, tableVars
    <2>3. CASE \E w \in Worker : Create(w)
      BY <1>1, <1>9, <1>10, <1>11, <1>12, <1>13, <2>3
      DEF Create, RetireFailed, callVars, queueVars, tableVars
    <2>4. CASE \E w \in Worker : Scan(w) \/ Command(w)
      BY <1>1, <1>14, <1>15, <1>16, <2>4
      DEF Scan, Command, Abort, ScanPass, Kill, ScanSlot, Thread, callVars,
          jobVars, queueVars, tableVars
    <2>5. CASE (\E p \in Poster : Post(p)) \/ Quit \/ Joined \/ UNCHANGED vars
      BY <1>1, <1>14, <2>5
      DEF Post, Quit, Joined, Thread, vars, callVars, jobVars, queueVars,
          tableVars
    <2> QED
      BY <2>1, <2>2, <2>3, <2>4, <2>5 DEF Next, Progress

(* Every step leaves at most one thread about to delete a context. *)
LEMMA DeleteStep ==
  TypeOK /\ WorkerInv /\ RefInv /\ LifeInv /\ DeleteInv /\ [Next]_vars =>
  DeleteInv'
  <1> SUFFICES ASSUME TypeOK, WorkerInv, RefInv, LifeInv, DeleteInv,
                      [Next]_vars
               PROVE  DeleteInv'
    OBVIOUS
  <1>1. ASSUME UNCHANGED <<del>>
        PROVE  DeleteInv'
    BY <1>1 DEF DeleteInv
  <1>2. ASSUME NEW t \in Thread, ContextRelease(t)
        PROVE  DeleteInv'
    <2>1. PICK s \in Service : s = rel[t]
      BY <1>2 DEF ContextRelease, TypeOK, CallType
    <2>2. \A u \in Thread : del[u] # s
      BY <2>1, HeldIsLive DEF Holder
    <2> QED
      BY <1>2, <2>1, <2>2 DEF ContextRelease, DeleteInv, TypeOK, CallType
  <1>3. ASSUME NEW t \in Thread, DeleteContext(t)
        PROVE  DeleteInv'
    BY <1>3 DEF DeleteContext, DeleteInv, TypeOK, CallType
  <1>4. ASSUME NEW w \in Worker, InitReturns(w)
        PROVE  DeleteInv'
    <2>1. PICK s \in Service : s = new[w] /\ job[w] = "init"
      BY <1>4 DEF InitReturns, AtJob, WorkerInv, TypeOK, JobType
    <2>2. w \in Thread /\ \A u \in Thread : del[u] # s
      BY <2>1, HeldIsLive DEF Holder, Thread
    <2> QED
      BY <1>4, <2>1, <2>2 DEF InitReturns, DeleteInv, TypeOK, CallType
  <1>5. ASSUME NEW w \in Worker
        PROVE  ctx[w] \in Service \cup {NoOne} /\
               new[w] \in Service \cup {NoOne}
    BY <1>5 DEF TypeOK, TurnType, JobType
  <1> QED
    <2>1. CASE \E t \in Thread : Finish(t)
      BY <1>1, <1>2, <1>3, <2>1 DEF Finish, MqPush
    <2>2. CASE \E w \in Worker : Dispatch(w) \/ Wakeup(w)
      BY <1>1, <2>2
      DEF Dispatch, Loop, Grab, MqRelease, NextQueue, MqPop, MqLength, Return,
          Turn, PutBack, DropMessage, FreeQueue, Sleep, Wakeup, callVars
    <2>3. CASE \E w \in Worker : Create(w)
      BY <1>1, <1>4, <2>3
      DEF Create, SetInit, Publish, UseResult, RetireFailed, ReleaseFailed,
          callVars
    <2>4. CASE \E w \in Worker : Scan(w) \/ Command(w)
      BY <1>1, <1>5, <2>4
      DEF Scan, Command, Abort, ScanPass, Send, Kill, Launch, ScanSlot,
          Thread, callVars
    <2>5. CASE (\E p \in Poster : Post(p)) \/ Quit \/ Joined \/ UNCHANGED vars
      BY <1>1, <2>5 DEF Post, Send, Quit, Joined, Thread, vars, callVars
    <2> QED
      BY <2>1, <2>2, <2>3, <2>4, <2>5 DEF Next, Progress

(* Every step drops only queues that are marked for release. *)
LEMMA DropStep == TypeOK /\ WorkerInv /\ DropInv /\ [Next]_vars => DropInv'
  <1> SUFFICES ASSUME TypeOK, WorkerInv, DropInv, [Next]_vars
               PROVE  DropInv'
    OBVIOUS
  <1>1. ASSUME UNCHANGED <<pc, wq, job, new, release>>
        PROVE  DropInv'
    BY <1>1 DEF DropInv
  <1>2. ASSUME NEW t \in Thread, DeleteContext(t)
        PROVE  DropInv'
    BY <1>2 DEF DeleteContext, DropInv, WorkerInv, At, AtJob, TypeOK,
       TurnType, JobType, turnVars, jobVars
  <1>3. ASSUME NEW w \in Worker, Loop(w)
        PROVE  DropInv'
    BY <1>3 DEF Loop, DropInv, WorkerInv, At, AtJob, TypeOK, TurnType,
       JobType, jobVars
  <1>4. ASSUME NEW w \in Worker, Grab(w)
        PROVE  DropInv'
    BY <1>4 DEF Grab, DropInv, WorkerInv, At, AtJob, TypeOK, TurnType,
       JobType, jobVars, queueVars
  <1>5. ASSUME NEW w \in Worker, MqRelease(w)
        PROVE  DropInv'
    BY <1>5 DEF MqRelease, DropInv, WorkerInv, At, AtJob, TypeOK, TurnType,
       JobType, jobVars
  <1>6. ASSUME NEW w \in Worker, NextQueue(w)
        PROVE  DropInv'
    BY <1>6 DEF NextQueue, DropInv, WorkerInv, At, AtJob, TypeOK, TurnType,
       JobType, jobVars
  <1>7. ASSUME NEW w \in Worker, MqPop(w)
        PROVE  DropInv'
    BY <1>7 DEF MqPop, DropInv, WorkerInv, At, AtJob, TypeOK, TurnType,
       JobType, jobVars
  <1>8. ASSUME NEW w \in Worker, MqLength(w)
        PROVE  DropInv'
    BY <1>8 DEF MqLength, DropInv, WorkerInv, At, AtJob, TypeOK, TurnType,
       JobType, jobVars, queueVars
  <1>9. ASSUME NEW w \in Worker, Return(w)
        PROVE  DropInv'
    BY <1>9 DEF Return, DropInv, WorkerInv, At, AtJob, TypeOK, TurnType,
       JobType, jobVars, queueVars
  <1>10. ASSUME NEW w \in Worker, Turn(w)
        PROVE  DropInv'
    BY <1>10 DEF Turn, DropInv, WorkerInv, At, AtJob, TypeOK, TurnType,
       JobType, jobVars
  <1>11. ASSUME NEW w \in Worker, PutBack(w)
        PROVE  DropInv'
    BY <1>11 DEF PutBack, DropInv, WorkerInv, At, AtJob, TypeOK, TurnType,
       JobType, jobVars
  <1>12. ASSUME NEW w \in Worker, FreeQueue(w)
        PROVE  DropInv'
    BY <1>12 DEF FreeQueue, DropInv, WorkerInv, At, AtJob, TypeOK, TurnType,
       JobType, Dropping
  <1>13. ASSUME NEW w \in Worker, Sleep(w)
        PROVE  DropInv'
    BY <1>13 DEF Sleep, DropInv, WorkerInv, At, AtJob, TypeOK, TurnType,
       JobType, jobVars, queueVars
  <1>14. ASSUME NEW w \in Worker, Wakeup(w)
        PROVE  DropInv'
    BY <1>14 DEF Wakeup, DropInv, WorkerInv, At, AtJob, TypeOK, TurnType,
       JobType, jobVars, queueVars
  <1>15. ASSUME NEW w \in Worker, InitReturns(w)
        PROVE  DropInv'
    BY <1>15 DEF InitReturns, DropInv, WorkerInv, At, AtJob, TypeOK, TurnType,
       JobType, turnVars, queueVars
  <1>16. ASSUME NEW w \in Worker, SetInit(w)
        PROVE  DropInv'
    BY <1>16 DEF SetInit, DropInv, WorkerInv, At, AtJob, TypeOK, TurnType,
       JobType, turnVars, queueVars
  <1>17. ASSUME NEW w \in Worker, Publish(w)
        PROVE  DropInv'
    BY <1>17 DEF Publish, DropInv, WorkerInv, At, AtJob, TypeOK, TurnType,
       JobType, turnVars
  <1>18. ASSUME NEW w \in Worker, UseResult(w)
        PROVE  DropInv'
    BY <1>18 DEF UseResult, DropInv, WorkerInv, At, AtJob, TypeOK, TurnType,
       JobType, turnVars, queueVars
  <1>19. ASSUME NEW w \in Worker, RetireFailed(w)
        PROVE  DropInv'
    BY <1>19 DEF RetireFailed, DropInv, WorkerInv, At, AtJob, TypeOK,
       TurnType, JobType, turnVars, queueVars
  <1>20. ASSUME NEW w \in Worker, ReleaseFailed(w)
        PROVE  DropInv'
    BY <1>20 DEF ReleaseFailed, DropInv, WorkerInv, At, AtJob, TypeOK,
       TurnType, JobType, turnVars
  <1>21. ASSUME NEW w \in Worker, Abort(w)
        PROVE  DropInv'
    BY <1>21 DEF Abort, DropInv, WorkerInv, At, AtJob, TypeOK, TurnType,
       JobType, turnVars, queueVars
  <1>22. ASSUME NEW w \in Worker, ScanPass(w)
        PROVE  DropInv'
    BY <1>22 DEF ScanPass, DropInv, WorkerInv, At, AtJob, TypeOK, TurnType,
       JobType, turnVars, queueVars
  <1>23. ASSUME NEW w \in Worker, NEW s \in Service, Launch(w, s)
        PROVE  DropInv'
    BY <1>23 DEF Launch, DropInv, WorkerInv, At, AtJob, TypeOK, TurnType,
       JobType, turnVars
  <1>24. ASSUME Quit
        PROVE  DropInv'
    BY <1>24 DEF Quit, DropInv, WorkerInv, At, AtJob, TypeOK, TurnType,
       JobType, jobVars, queueVars
  <1>25. ASSUME NEW w \in Worker
        PROVE  ctx[w] \in Service \cup {NoOne} /\
               new[w] \in Service \cup {NoOne}
    BY <1>25 DEF TypeOK, TurnType, JobType
  <1> QED
    BY <1>1, <1>2, <1>3, <1>4, <1>5, <1>6, <1>7, <1>8, <1>9, <1>10, <1>11,
       <1>12, <1>13, <1>14, <1>15, <1>16, <1>17, <1>18, <1>19, <1>20, <1>21,
       <1>22, <1>23, <1>24, <1>25
    DEF Next, Finish, Progress, Dispatch, Create, Scan, Command, Post, Thread,
        MqPush, ContextRelease, DropMessage, Send, Kill, ScanSlot, Joined,
        vars, jobVars, queueVars, turnVars

(* Every step schedules only services that are initialised or out of the   *)
(* table.                                                                  *)
LEMMA ReadyStep ==
  TypeOK /\ WorkerInv /\ OneOwner /\ FlagInv /\ RefInv /\ LifeInv /\
  DropInv /\ ReadyInv /\ [Next]_vars => ReadyInv'
  <1> SUFFICES ASSUME TypeOK, WorkerInv, OneOwner, FlagInv, RefInv, LifeInv,
                      DropInv, ReadyInv, [Next]_vars
               PROVE  ReadyInv'
    OBVIOUS
  <1>1. ASSUME UNCHANGED <<slot, cmem, ready, inGlobal, gq, wq, nq, ctx, job,
               new>>
        PROVE  ReadyInv'
    BY <1>1 DEF ReadyInv, Settled, InGq
  <1>2. ASSUME NEW t \in Thread, MqPush(t)
        PROVE  ReadyInv'
    <2>1. PICK s \in Service : s = to[t]
      BY <1>2 DEF MqPush, TypeOK, CallType
    <2>2. CASE s \in inGlobal
      BY <1>2, <2>1, <2>2 DEF MqPush, ReadyInv, Settled, InGq, tableVars,
         turnVars, jobVars
    <2>3. CASE s \notin inGlobal
      <3>1. cmem[s] = "live"
        BY <2>1, HeldIsLive DEF Holder
      <3>2. Settled(s)
        BY <2>3, <3>1 DEF ReadyInv
      <3>3. \A x : InGq(x)' <=> InGq(x) \/ x = s
        BY <1>2, <2>1, <2>3, GqPush DEF MqPush, TypeOK
      <3> QED
        BY <1>2, <2>1, <3>2, <3>3 DEF MqPush, ReadyInv, Settled, tableVars,
           turnVars, jobVars
    <2> QED
      BY <2>2, <2>3
  <1>3. ASSUME NEW t \in Thread, DeleteContext(t)
        PROVE  ReadyInv'
    <2>1. PICK s \in Service : s = del[t]
      BY <1>3 DEF DeleteContext, TypeOK, CallType
    <2>2. s \notin slot /\ cmem[s] = "live"
      BY <2>1, HeldIsLive DEF Holder, LifeInv
    <2>3. \A x : InGq(x)' => InGq(x) \/ x = s
      <3>1. CASE s \in inGlobal
        BY <1>3, <2>1, <3>1 DEF DeleteContext, InGq
      <3>2. CASE s \notin inGlobal
        BY <1>3, <2>1, <3>2, GqPush DEF DeleteContext, TypeOK
      <3> QED
        BY <3>1, <3>2
    <2> QED
      BY <1>3, <2>1, <2>2, <2>3 DEF DeleteContext, ReadyInv, Settled,
         turnVars,
         jobVars, TypeOK, TableType
  <1>4. ASSUME NEW w \in Worker, Loop(w)
        PROVE  ReadyInv'
    <2>1. CASE UNCHANGED gq
      BY <1>4, <2>1 DEF Loop, ReadyInv, Settled, InGq, tableVars, jobVars,
         TypeOK, TurnType
    <2>2. CASE gq # <<>> /\ gq' = Tail(gq)
      <3>1. /\ Head(gq) \in Service /\ InGq(Head(gq))
            /\ \A x : InGq(x)' <=> InGq(x) /\ x # Head(gq)
        BY <2>2, GqPop DEF TypeOK, OneOwner
      <3>2. gq' # gq
        BY <2>2 DEF TypeOK, QueueType
      <3> QED
        BY <1>4, <2>2, <3>1, <3>2 DEF Loop, ReadyInv, Settled, tableVars,
           jobVars, TypeOK, TurnType
    <2> QED
      BY <1>4, <2>1, <2>2 DEF Loop
  <1>5. ASSUME NEW w \in Worker, Grab(w)
        PROVE  ReadyInv'
    <2>1. ctx' = ctx \/ (wq[w] \in slot /\ ctx' = [ctx EXCEPT ![w] = wq[w]])
      BY <1>5 DEF Grab
    <2>2. wq[w] \in slot => wq[w] \in ready
      BY ServiceAssumption DEF ReadyInv, Settled, TypeOK, TableType
    <2>3. UNCHANGED <<cmem, ready, wq, nq, job, new, slot, inGlobal, gq>>
      BY <1>5 DEF Grab, queueVars, jobVars
    <2> QED
      BY <2>1, <2>2, <2>3 DEF ReadyInv, Settled, InGq, TypeOK, TurnType
  <1>6. ASSUME NEW w \in Worker, MqRelease(w)
        PROVE  ReadyInv'
    <2>1. PICK s \in Service : s = wq[w]
      BY <1>6 DEF MqRelease, At, WorkerInv, TypeOK, TurnType
    <2>2. Settled(s)
      BY <2>1, ServiceAssumption DEF ReadyInv
    <2>3. \A x : InGq(x)' => InGq(x) \/ x = s
      <3>1. CASE s \in release
        BY <1>6, <2>1, <3>1 DEF MqRelease, InGq
      <3>2. CASE s \notin release
        BY <1>6, <2>1, <3>2, GqPush DEF MqRelease, TypeOK
      <3> QED
        BY <3>1, <3>2
    <2> QED
      BY <1>6, <2>1, <2>2, <2>3 DEF MqRelease, ReadyInv, Settled, tableVars,
         jobVars, TypeOK, TurnType
  <1>7. ASSUME NEW w \in Worker, NextQueue(w)
        PROVE  ReadyInv'
    <2>1. CASE UNCHANGED gq
      BY <1>7, <2>1 DEF NextQueue, ReadyInv, Settled, InGq, tableVars,
         jobVars,
         TypeOK, TurnType
    <2>2. CASE gq # <<>> /\ gq' = Tail(gq)
      <3>1. /\ Head(gq) \in Service /\ InGq(Head(gq))
            /\ \A x : InGq(x)' <=> InGq(x) /\ x # Head(gq)
        BY <2>2, GqPop DEF TypeOK, OneOwner
      <3>2. gq' # gq
        BY <2>2 DEF TypeOK, QueueType
      <3> QED
        BY <1>7, <2>2, <3>1, <3>2 DEF NextQueue, ReadyInv, Settled, tableVars,
           jobVars, TypeOK, TurnType
    <2> QED
      BY <1>7, <2>1, <2>2 DEF NextQueue
  <1>8. ASSUME NEW w \in Worker, MqPop(w)
        PROVE  ReadyInv'
    <2>1. CASE queue[wq[w]] = <<>>
      <3>1. PICK q \in Service : q = wq[w] /\ q = ctx[w]
        BY <1>8 DEF MqPop, At, WorkerInv, TypeOK, TurnType
      <3>2. q \in ready
        BY <3>1, ServiceAssumption DEF ReadyInv
      <3>3. /\ inGlobal' = inGlobal \ {q}
            /\ ctx' = [ctx EXCEPT ![w] = NoOne]
            /\ wq' = [wq EXCEPT ![w] = NoOne]
            /\ UNCHANGED <<slot, cmem, ready, gq, nq, job, new>>
        BY <1>8, <2>1, <3>1 DEF MqPop, tableVars, jobVars
      <3> QED
        BY <3>1, <3>2, <3>3 DEF ReadyInv, Settled, InGq, TypeOK, TurnType
    <2>2. CASE queue[wq[w]] # <<>>
      BY <1>8, <2>2 DEF MqPop, ReadyInv, Settled, InGq, tableVars, jobVars
    <2> QED
      BY <2>1, <2>2
  <1>9. ASSUME NEW w \in Worker, Turn(w)
        PROVE  ReadyInv'
    <2>1. CASE gq = <<>>
      BY <1>9, <2>1 DEF Turn, ReadyInv, Settled, InGq, tableVars, jobVars,
         TypeOK, TurnType
    <2>2. CASE gq # <<>>
      <3>1. /\ nq' = [nq EXCEPT ![w] = Head(gq)] /\ gq' = Tail(gq)
            /\ UNCHANGED <<slot, cmem, ready, inGlobal, wq, ctx, job, new>>
        BY <1>9, <2>2 DEF Turn, tableVars, jobVars
      <3>2. /\ Head(gq) \in Service /\ InGq(Head(gq))
            /\ \A x : InGq(x)' <=> InGq(x) /\ x # Head(gq)
        BY <2>2, <3>1, GqPop DEF TypeOK, OneOwner
      <3> QED
        BY <3>1, <3>2 DEF ReadyInv, Settled, TypeOK, TurnType
    <2> QED
      BY <2>1, <2>2
  <1>10. ASSUME NEW w \in Worker, PutBack(w)
        PROVE  ReadyInv'
    <2>1. PICK s \in Service : s = wq[w]
      BY <1>10 DEF PutBack, At, WorkerInv, TypeOK, TurnType
    <2>2. Settled(s)
      BY <2>1, ServiceAssumption DEF ReadyInv
    <2>3. \A x : InGq(x)' <=> InGq(x) \/ x = s
      BY <1>10, <2>1, GqPush DEF PutBack, TypeOK
    <2> QED
      BY <1>10, <2>1, <2>2, <2>3 DEF PutBack, ReadyInv, Settled, tableVars,
         jobVars, TypeOK, TurnType
  <1>11. ASSUME NEW w \in Worker, FreeQueue(w)
        PROVE  ReadyInv'
    <2>1. PICK q \in Service : q = Dropping(w) /\ cmem[q] = "freed"
      BY <1>11 DEF FreeQueue, Dropping, DropInv, LifeInv, TypeOK, TurnType,
         JobType, QueueType
    <2>2. inGlobal' = inGlobal \ {q}
      BY <1>11, <2>1 DEF FreeQueue
    <2>3. UNCHANGED <<cmem, ready, slot, gq, nq, ctx>>
      BY <1>11 DEF FreeQueue, tableVars
    <2>4. \/ /\ job' = [job EXCEPT ![w] = "none"]
             /\ new' = [new EXCEPT ![w] = NoOne] /\ UNCHANGED wq
          \/ wq' = [wq EXCEPT ![w] = NoOne] /\ UNCHANGED <<job, new>>
      BY <1>11 DEF FreeQueue
    <2>5. \A x : (InGq(x)' <=> InGq(x)) /\ (Settled(x)' <=> Settled(x))
      BY <2>3 DEF InGq, Settled
    <2>6. \A u \in Worker : wq'[u] # NoOne => wq'[u] = wq[u]
      BY <2>4 DEF TypeOK, TurnType
    <2>7. \A u \in Worker : job'[u] # "none" => job'[u] = job[u] /\
                                               new'[u] = new[u]
      BY <2>4 DEF TypeOK, JobType
    <2>8. \A s \in Service : s # q => (s \in inGlobal' <=> s \in inGlobal)
      BY <2>2
    <2> QED
      BY <2>1, <2>3, <2>5, <2>6, <2>7, <2>8 DEF ReadyInv
  <1>12. ASSUME NEW w \in Worker, InitReturns(w)
        PROVE  ReadyInv'
    <2>1. PICK s \in Service : s = new[w] /\ job[w] = "init"
      BY <1>12 DEF InitReturns, AtJob, WorkerInv, TypeOK, JobType
    <2>2. ASSUME ref[s] = 1
          PROVE  s \notin slot
      <3>1. IsFiniteSet(Refs(s)) /\ Cardinality(Refs(s)) = 1
        BY <2>2 DEF RefInv
      <3>2. PICK r : Refs(s) = {r}
        BY <3>1, FS_Singleton
      <3>3. <<"init", w>> \in Refs(s)
        BY <2>1, RefsOf DEF RefTo, RefKind, Holder, Thread
      <3>4. s \in slot => <<"slot", s>> \in Refs(s)
        BY RefsOf DEF RefTo, RefKind, Holder
      <3> QED
        BY <3>2, <3>3, <3>4
    <2>3. \/ job' = [job EXCEPT ![w] = "flag"]
          \/ job' = [job EXCEPT ![w] = "retire"]
          \/ ref[s] = 1 /\ job' = [job EXCEPT ![w] = "quiet"]
      BY <1>12, <2>1 DEF InitReturns
    <2>4. UNCHANGED <<slot, cmem, ready, gq, inGlobal, wq, nq, ctx, new>>
      BY <1>12 DEF InitReturns, queueVars, turnVars
    <2> QED
      BY <2>1, <2>2, <2>3, <2>4 DEF ReadyInv, Settled, InGq, TypeOK, JobType
  <1>13. ASSUME NEW w \in Worker, SetInit(w)
        PROVE  ReadyInv'
    <2>1. PICK s \in Service : s = new[w]
      BY <1>13 DEF SetInit, AtJob, WorkerInv, TypeOK, JobType
    <2>2. Settled(s)'
      <3>1. CASE cmem[s] = "live"
        BY <1>13, <2>1, <3>1 DEF SetInit, Settled
      <3>2. CASE cmem[s] # "live"
        BY <1>13, <3>2, HeldIsLive DEF SetInit, Settled, Holder
      <3> QED
        BY <3>1, <3>2
    <2>3. ready \subseteq ready' /\ job' = [job EXCEPT ![w] = "gpush"]
      BY <1>13 DEF SetInit
    <2>4. UNCHANGED <<slot, cmem, gq, inGlobal, wq, nq, ctx, new>>
      BY <1>13 DEF SetInit, queueVars, turnVars
    <2> QED
      BY <2>1, <2>2, <2>3, <2>4 DEF ReadyInv, Settled, InGq, TypeOK, JobType
  <1>14. ASSUME NEW w \in Worker, Publish(w)
        PROVE  ReadyInv'
    <2>1. PICK s \in Service : s = new[w]
      BY <1>14 DEF Publish, AtJob, WorkerInv, TypeOK, JobType
    <2>2. Settled(s)
      BY <1>14, <2>1 DEF ReadyInv, Publish, AtJob
    <2>3. \A x : InGq(x)' <=> InGq(x) \/ x = s
      BY <1>14, <2>1, GqPush DEF Publish, TypeOK
    <2> QED
      BY <1>14, <2>1, <2>2, <2>3 DEF Publish, ReadyInv, Settled, tableVars,
         turnVars, TypeOK, JobType
  <1>15. ASSUME NEW w \in Worker, UseResult(w)
        PROVE  ReadyInv'
    BY <1>15 DEF UseResult, ReadyInv, Settled, InGq, WorkerInv, At, AtJob,
       TypeOK, TurnType, JobType, tableVars, queueVars, turnVars
  <1>16. ASSUME NEW w \in Worker, RetireFailed(w)
        PROVE  ReadyInv'
    <2>1. slot' = slot \ {new[w]} /\ job' = [job EXCEPT ![w] = "mqrel"]
      BY <1>16 DEF RetireFailed, HandleRetire
    <2>2. UNCHANGED <<ready, cmem, gq, inGlobal, wq, nq, ctx, new>>
      BY <1>16 DEF RetireFailed, queueVars, turnVars
    <2> QED
      BY <2>1, <2>2 DEF ReadyInv, Settled, InGq, TypeOK, JobType
  <1>17. ASSUME NEW w \in Worker, ReleaseFailed(w)
        PROVE  ReadyInv'
    <2>1. PICK s \in Service : s = new[w]
      BY <1>17 DEF ReleaseFailed, AtJob, WorkerInv, TypeOK, JobType
    <2>2. Settled(s)
      BY <1>17, <2>1 DEF ReadyInv, ReleaseFailed, AtJob
    <2>3. \A x : InGq(x)' => InGq(x) \/ x = s
      <3>1. CASE s \in release
        BY <1>17, <2>1, <3>1 DEF ReleaseFailed, InGq
      <3>2. CASE s \notin release
        BY <1>17, <2>1, <3>2, GqPush DEF ReleaseFailed, TypeOK
      <3> QED
        BY <3>1, <3>2
    <2> QED
      BY <1>17, <2>1, <2>2, <2>3 DEF ReleaseFailed, ReadyInv, Settled,
         tableVars,
         turnVars, TypeOK, JobType
  <1>18. ASSUME NEW w \in Worker, Abort(w)
        PROVE  ReadyInv'
    BY <1>18 DEF Abort, ReadyInv, Settled, InGq, WorkerInv, At, AtJob, TypeOK,
       TurnType, JobType, tableVars, queueVars, turnVars
  <1>19. ASSUME NEW w \in Worker, ScanPass(w)
        PROVE  ReadyInv'
    BY <1>19 DEF ScanPass, ReadyInv, Settled, InGq, WorkerInv, At, AtJob,
       TypeOK, TurnType, JobType, tableVars, queueVars, turnVars
  <1>20. ASSUME NEW w \in Worker, NEW s \in Service, Kill(w, s)
        PROVE  ReadyInv'
    BY <1>20 DEF Kill, ReadyInv, Settled, InGq, WorkerInv, At, AtJob, TypeOK,
       TurnType, JobType, queueVars, turnVars, jobVars, HandleRetire
  <1>21. ASSUME NEW w \in Worker, NEW s \in Service, Launch(w, s)
        PROVE  ReadyInv'
    <2>1. s \notin inGlobal \cup release /\ \A v \in Worker : new[v] # s
      BY <1>21 DEF Launch, LifeInv
    <2>2. ~InGq(s) /\ \A v \in Worker : wq[v] # s /\ nq[v] # s
      BY <2>1 DEF FlagInv, Owned, Hand, Place
    <2>3. /\ slot' = slot \cup {s} /\ inGlobal' = inGlobal \cup {s}
          /\ cmem' = [cmem EXCEPT ![s] = "live"]
          /\ job' = [job EXCEPT ![w] = "init"]
          /\ new' = [new EXCEPT ![w] = s]
          /\ UNCHANGED <<ready, gq, wq, nq, ctx>>
      BY <1>21 DEF Launch, turnVars
    <2> QED
      BY <2>1, <2>2, <2>3 DEF ReadyInv, Settled, InGq, TypeOK, TableType,
         JobType
  <1>22. ASSUME NEW w \in Worker, NEW s \in Service, ScanSlot(w, s)
        PROVE  ReadyInv'
    BY <1>22 DEF ScanSlot, ReadyInv, Settled, InGq, WorkerInv, At, AtJob,
       TypeOK, TurnType, JobType, queueVars, turnVars, HandleRetire
  <1>23. ASSUME NEW w \in Worker
        PROVE  ctx[w] \in Service \cup {NoOne} /\
               new[w] \in Service \cup {NoOne}
    BY <1>23 DEF TypeOK, TurnType, JobType
  <1> QED
    BY <1>1, <1>2, <1>3, <1>4, <1>5, <1>6, <1>7, <1>8, <1>9, <1>10, <1>11,
       <1>12, <1>13, <1>14, <1>15, <1>16, <1>17, <1>18, <1>19, <1>20, <1>21,
       <1>22, <1>23
    DEF Next, Finish, Progress, Dispatch, Create, Scan, Command, Post, Thread,
        ContextRelease, MqLength, Return, DropMessage, Sleep, Wakeup, Send,
        Quit, Joined, vars, jobVars, queueVars, tableVars, turnVars
=============================================================================
