-------------------------- MODULE TimeWheelProofs --------------------------
(***************************************************************************)
(* Theorems about TimeWheel.tla for every number of slots, interval, start *)
(* time and set of names.                                                  *)
(***************************************************************************)
EXTENDS TimeWheel, FiniteSetTheorems, TLAPS

(* How many slots the wheel has to move until it executes slot j.          *)
Off(j) == IF j >= currentslot THEN j - currentslot ELSE j - currentslot + N

(* Every timer lies in a slot that is executed only after its target time. *)
SlotsInTime ==
  \A j \in Slot : \A i \in 1..Len(slots[j]) :
    node[slots[j][i]].time < ticktime + Off(j) * Interval

(* The callback that runs is that of the node ipairs is at.                *)
CallingHere ==
  calling # 0 => /\ pos \in 1..Len(slots[currentslot])
                 /\ calling = slots[currentslot][pos]

IInv == TypeOK /\ SlotsInTime /\ CallingHere

(* The slot k places on, for a delay within the reach of the wheel.        *)
LEMMA ModStep ==
  ASSUME NEW n \in Nat \ {0}, NEW c \in 1..n, NEW k \in 0..(n - 2)
  PROVE  /\ c + k < n => ((c + k) % n) + 1 = c + k + 1
         /\ c + k >= n => ((c + k) % n) + 1 = c + k + 1 - n
  OBVIOUS

(* What TargetSlot's division yields.                                      *)
LEMMA DivBounds ==
  ASSUME NEW d \in Nat, NEW i \in Nat \ {0}
  PROVE  /\ d \div i \in Nat
         /\ (d \div i) * i <= d
         /\ d < (d \div i) * i + i
  OBVIOUS

LEMMA MulMono ==
  ASSUME NEW a \in Nat, NEW b \in Nat, NEW i \in Nat \ {0}, a * i < b * i
  PROVE  a < b
  OBVIOUS

(* A target slot is a slot, and it lies (delay \div Interval) + 1 places    *)
(* ahead of the current one.                                               *)
LEMMA TargetIsAhead ==
  ASSUME currentslot \in Slot, NEW d \in 0..Reach
  PROVE  /\ TargetSlot(d) \in Slot
         /\ Off(TargetSlot(d)) = (d \div Interval) + 1
  <1> DEFINE k == d \div Interval
  <1>1. d \in Nat /\ d < (N - 1) * Interval
    BY ReachAssumption, WheelAssumption
  <1>2. k \in Nat /\ k * Interval <= d
    BY <1>1, WheelAssumption, DivBounds
  <1>3. N - 1 \in Nat /\ k * Interval < (N - 1) * Interval
    BY <1>1, <1>2, WheelAssumption
  <1>4. k < N - 1
    BY <1>2, <1>3, WheelAssumption, MulMono
  <1>5. k \in 0..(N - 2)
    BY <1>2, <1>4, WheelAssumption
  <1>6. /\ currentslot + k < N => TargetSlot(d) = currentslot + k + 1
        /\ currentslot + k >= N => TargetSlot(d) = currentslot + k + 1 - N
    BY <1>5, WheelAssumption, ModStep DEF Slot, TargetSlot
  <1> QED
    BY <1>5, <1>6, WheelAssumption DEF Slot, Off

(* A new timer's target time lies before the time of its slot.             *)
LEMMA TargetIsLate ==
  ASSUME TypeOK, NEW time \in Int, NEW d \in 0..Reach,
         d = IF time < ticktime THEN 0 ELSE time - ticktime
  PROVE  time < ticktime + Off(TargetSlot(d)) * Interval
  <1> DEFINE k == d \div Interval
  <1>1. d \in Nat
    BY ReachAssumption
  <1>2. k \in Nat /\ d < k * Interval + Interval
    BY <1>1, WheelAssumption, DivBounds
  <1>3. (k + 1) * Interval = k * Interval + Interval
    BY <1>2, WheelAssumption
  <1>4. Off(TargetSlot(d)) = k + 1
    BY TargetIsAhead DEF TypeOK
  <1>5. time <= ticktime + d
    BY DEF TypeOK
  <1> QED
    BY <1>1, <1>2, <1>3, <1>4, <1>5, WheelAssumption DEF TypeOK

LEMMA InitInv == Init => IInv
  BY WheelAssumption
  DEF Init, IInv, TypeOK, SlotsInTime, CallingHere, Slot, Node

LEMMA AddTimerInv ==
  ASSUME IInv, NEW m \in Name, NEW time \in (ticktime - 1)..(ticktime + Reach),
         AddTimer(m, time)
  PROVE  IInv'
  <1> DEFINE d == IF time < ticktime THEN 0 ELSE time - ticktime
             t == TargetSlot(d)
             n == Len(node) + 1
             r == [name |-> m, time |-> time, canceled |-> FALSE,
                   born |-> ticktime, runs |-> 0]
  <1>1. time \in Int /\ d \in 0..Reach
    BY ReachAssumption DEF IInv, TypeOK
  <1>2. t \in Slot /\ time < ticktime + Off(t) * Interval
    BY <1>1, TargetIsAhead, TargetIsLate DEF IInv, TypeOK
  <1>3. /\ node' = Append(node, r)
        /\ slots' = [slots EXCEPT ![t] = Append(@, n)]
        /\ name2node' = [name2node EXCEPT ![m] = n]
        /\ UNCHANGED <<currentslot, ticktime, tickVars>>
    BY DEF AddTimer
  <1> HIDE DEF d, t
  <1>4. r \in Node
    BY <1>1 DEF IInv, TypeOK, Node
  <1>5. /\ node' \in Seq(Node) /\ Len(node') = n /\ node'[n] = r
        /\ \A i \in 1..Len(node) : node'[i] = node[i]
    BY <1>3, <1>4 DEF IInv, TypeOK
  <1>6. ASSUME NEW j \in Slot
        PROVE  /\ slots'[j] \in Seq(Nat)
               /\ j # t => slots'[j] = slots[j]
               /\ j = t => /\ Len(slots'[j]) = Len(slots[j]) + 1
                           /\ slots'[j][Len(slots[j]) + 1] = n
               /\ \A i \in 1..Len(slots[j]) : slots'[j][i] = slots[j][i]
    BY <1>2, <1>3 DEF IInv, TypeOK
  <1>7. ASSUME NEW j \in Slot, NEW i \in 1..Len(slots'[j])
        PROVE  \/ i \in 1..Len(slots[j]) /\ slots'[j][i] = slots[j][i]
               \/ j = t /\ slots'[j][i] = n
    <2>1. Len(slots[j]) \in Nat
      BY DEF IInv, TypeOK
    <2>2. CASE j # t
      BY <2>2, <1>6
    <2>3. CASE j = t
      <3>1. /\ Len(slots'[j]) = Len(slots[j]) + 1
            /\ slots'[j][Len(slots[j]) + 1] = n
            /\ \A k \in 1..Len(slots[j]) : slots'[j][k] = slots[j][k]
        BY <2>3, <1>6
      <3>2. i \in 1..Len(slots[j]) \/ i = Len(slots[j]) + 1
        BY <2>1, <3>1
      <3> QED
        BY <2>3, <3>1, <3>2
    <2> QED
      BY <2>2, <2>3
  <1>8. TypeOK'
    <2>1. slots' \in [Slot -> Seq(Nat)]
      BY <1>2, <1>3 DEF IInv, TypeOK
    <2>2. /\ name2node' \in [Name -> Nat]
          /\ \A x \in Name : name2node'[x] <= Len(node')
      BY <1>3, <1>5 DEF IInv, TypeOK
    <2>3. \A j \in Slot : \A i \in 1..Len(slots'[j]) :
            slots'[j][i] \in 1..Len(node')
      <3>1. Len(node) \in Nat /\ n \in 1..Len(node')
        BY <1>5 DEF IInv, TypeOK
      <3>2. \A x \in 1..Len(node) : x \in 1..Len(node')
        BY <1>5, <3>1
      <3>3. \A j \in Slot : \A i \in 1..Len(slots[j]) :
              slots[j][i] \in 1..Len(node)
        BY DEF IInv, TypeOK
      <3> QED
        BY <1>7, <3>1, <3>2, <3>3
    <2> QED
      BY <1>3, <1>5, <2>1, <2>2, <2>3 DEF IInv, TypeOK, tickVars
  <1>9. SlotsInTime'
    <2> SUFFICES ASSUME NEW j \in Slot, NEW i \in 1..Len(slots'[j])
                 PROVE  node'[slots'[j][i]].time < ticktime + Off(j) * Interval
      BY <1>3 DEF SlotsInTime, Off
    <2>1. CASE i \in 1..Len(slots[j]) /\ slots'[j][i] = slots[j][i]
      BY <2>1, <1>5 DEF IInv, TypeOK, SlotsInTime
    <2>2. CASE j = t /\ slots'[j][i] = n
      BY <2>2, <1>2, <1>5
    <2> QED
      BY <2>1, <2>2, <1>7
  <1>10. CallingHere'
    BY <1>3, <1>6 DEF IInv, TypeOK, CallingHere, tickVars
  <1> QED
    BY <1>8, <1>9, <1>10 DEF IInv

(* What a change of one node's flag or count leaves as it was.             *)
LEMMA NodeUpdate ==
  ASSUME NEW ns \in Seq(Node), NEW x \in 1..Len(ns), NEW r \in Node,
         r.time = ns[x].time
  PROVE  LET new == [ns EXCEPT ![x] = r]
         IN  /\ new \in Seq(Node) /\ Len(new) = Len(ns)
             /\ \A i \in 1..Len(ns) : new[i].time = ns[i].time
  OBVIOUS

LEMMA FieldUpdate ==
  ASSUME NEW r \in Node
  PROVE  /\ [r EXCEPT !.canceled = TRUE] \in Node
         /\ [r EXCEPT !.canceled = TRUE].time = r.time
         /\ [r EXCEPT !.runs = r.runs + 1] \in Node
         /\ [r EXCEPT !.runs = r.runs + 1].time = r.time
  <1>1. /\ [r EXCEPT !.canceled = TRUE] \in Node
    BY DEF Node
  <1>2. [r EXCEPT !.canceled = TRUE].time = r.time
    BY DEF Node
  <1>3. [r EXCEPT !.runs = r.runs + 1] \in Node
    BY DEF Node
  <1>4. [r EXCEPT !.runs = r.runs + 1].time = r.time
    BY DEF Node
  <1> QED
    BY <1>1, <1>2, <1>3, <1>4

(* Cancelling and counting a run change neither time nor number of nodes.  *)
LEMMA CancelInv ==
  ASSUME IInv, NEW m \in Name, CancelTimer(m)
  PROVE  IInv'
  <1>1. name2node[m] \in 1..Len(node)
    BY DEF CancelTimer, IInv, TypeOK
  <1>2. /\ node' \in Seq(Node) /\ Len(node') = Len(node)
        /\ \A i \in 1..Len(node) : node'[i].time = node[i].time
    <2> DEFINE x == name2node[m]
               r == [node[x] EXCEPT !.canceled = TRUE]
    <2>1. node[x] \in Node
      BY <1>1 DEF IInv, TypeOK
    <2>2. r \in Node /\ r.time = node[x].time
      BY <2>1, FieldUpdate
    <2>3. node' = [node EXCEPT ![x] = r]
      BY DEF CancelTimer
    <2> HIDE DEF r, x
    <2> QED
      BY <1>1, <2>2, <2>3, NodeUpdate DEF IInv, TypeOK, x
  <1>3. TypeOK'
    BY <1>2 DEF CancelTimer, IInv, TypeOK, tickVars
  <1>4. SlotsInTime'
    BY <1>2 DEF CancelTimer, IInv, TypeOK, SlotsInTime, Off
  <1>5. CallingHere'
    BY DEF CancelTimer, IInv, CallingHere, tickVars
  <1> QED
    BY <1>3, <1>4, <1>5 DEF IInv

LEMMA TickInv ==
  ASSUME IInv, NEW now \in upto..MaxTime, Tick(now)
  PROVE  IInv'
  BY DEF IInv, TypeOK, SlotsInTime, CallingHere, Off, Tick, wheelVars

LEMMA CallInv ==
  ASSUME IInv, Call
  PROVE  IInv'
  <1>1. pos \in 1..Len(slots[currentslot]) /\ Here \in 1..Len(node)
    BY DEF Call, Looking, AtEnd, Here, IInv, TypeOK
  <1>2. /\ node' \in Seq(Node) /\ Len(node') = Len(node)
        /\ \A i \in 1..Len(node) : node'[i].time = node[i].time
    <2> DEFINE r == [node[Here] EXCEPT !.runs = node[Here].runs + 1]
    <2>1. node[Here] \in Node
      BY <1>1 DEF IInv, TypeOK
    <2>2. r \in Node /\ r.time = node[Here].time
      BY <2>1, FieldUpdate
    <2>3. node' = [node EXCEPT ![Here] = r]
      BY DEF Call
    <2> HIDE DEF r
    <2> QED
      BY <1>1, <2>2, <2>3, NodeUpdate DEF IInv, TypeOK
  <1>3. TypeOK'
    BY <1>1, <1>2 DEF Call, IInv, TypeOK
  <1>4. SlotsInTime'
    BY <1>2 DEF Call, IInv, TypeOK, SlotsInTime, Off
  <1>5. CallingHere'
    BY <1>1 DEF Call, Here, IInv, CallingHere
  <1> QED
    BY <1>3, <1>4, <1>5 DEF IInv

LEMMA LeaveInv ==
  ASSUME IInv, Skip \/ Return \/ Raise
  PROVE  IInv'
  <1> USE DEF Looking, IInv, TypeOK, SlotsInTime, CallingHere, Off, wheelVars
  <1>1. CASE Skip
    BY <1>1 DEF Skip
  <1>2. CASE Return
    BY <1>2 DEF Return
  <1>3. CASE Raise
    BY <1>3 DEF Raise
  <1> QED
    BY <1>1, <1>2, <1>3

(* The executed slot is cleared and becomes the last one; every other slot *)
(* is one place nearer, and ticktime one interval later.                   *)
LEMMA AdvanceInv ==
  ASSUME IInv, Advance
  PROVE  IInv'
  <1> DEFINE c == Following(currentslot)
  <1>1. /\ currentslot \in Slot
        /\ c = IF currentslot = N THEN 1 ELSE currentslot + 1
    <2>1. currentslot \in Slot
      BY DEF IInv, TypeOK
    <2>2. currentslot < N => currentslot % N = currentslot
      BY <2>1, WheelAssumption DEF Slot
    <2>3. N % N = 0
      BY WheelAssumption
    <2> QED
      BY <2>1, <2>2, <2>3, WheelAssumption DEF Slot, Following
  <1>2. c \in Slot
    BY <1>1, WheelAssumption DEF Slot
  <1> HIDE DEF c
  <1>3. /\ slots' = [slots EXCEPT ![currentslot] = <<>>]
        /\ currentslot' = c /\ ticktime' = ticktime + Interval
        /\ UNCHANGED <<name2node, node, upto, calling, raised>>
        /\ pos' \in Nat /\ calling = 0
    BY DEF Advance, Looking, c
  <1>4. TypeOK'
    BY <1>1, <1>2, <1>3, WheelAssumption DEF IInv, TypeOK
  <1>5. SlotsInTime'
    <2> SUFFICES ASSUME NEW j \in Slot, NEW i \in 1..Len(slots'[j])
                 PROVE  node[slots'[j][i]].time
                          < ticktime + Interval + Off(j)' * Interval
      BY <1>3 DEF SlotsInTime
    <2>1. j # currentslot /\ slots'[j] = slots[j]
      BY <1>1, <1>3 DEF IInv, TypeOK
    <2>2. Off(j) \in Nat /\ Off(j)' \in Nat /\ Off(j) = Off(j)' + 1
      BY <1>1, <1>2, <1>3, <2>1, WheelAssumption DEF Off, Slot
    <2>3. Off(j) * Interval = Interval + Off(j)' * Interval
      BY <2>2, WheelAssumption
    <2>4. node[slots[j][i]].time < ticktime + Off(j) * Interval
      BY <2>1 DEF IInv, SlotsInTime
    <2>5. Off(j)' * Interval \in Int
      BY <2>2, WheelAssumption
    <2>6. node[slots[j][i]].time \in Int
      <3>1. slots[j][i] \in 1..Len(node)
        BY <2>1 DEF IInv, TypeOK
      <3>2. node[slots[j][i]] \in Node
        BY <3>1 DEF IInv, TypeOK
      <3> QED
        BY <3>2 DEF Node
    <2> QED
      BY <2>1, <2>3, <2>4, <2>5, <2>6, WheelAssumption DEF IInv, TypeOK
  <1>6. CallingHere'
    BY <1>3 DEF CallingHere
  <1> QED
    BY <1>4, <1>5, <1>6 DEF IInv

LEMMA StepInv == IInv /\ [Next]_vars => IInv'
  <1> SUFFICES ASSUME IInv, [Next]_vars
               PROVE  IInv'
    OBVIOUS
  <1>1. CASE UNCHANGED vars
    BY <1>1 DEF vars, wheelVars, tickVars, IInv, TypeOK, SlotsInTime,
                CallingHere, Off
  <1>2. CASE Next
    BY <1>2, AddTimerInv, CancelInv, TickInv, CallInv, LeaveInv, AdvanceInv
    DEF Next
  <1> QED
    BY <1>1, <1>2

(* Whatever is added, cancelled or raised, from handlers or from callbacks *)
(* in the middle of a turn, the wheel keeps its nodes in slots executed    *)
(* after their target times.                                               *)
THEOREM Invariance == Spec => []IInv
  <1>1. Init => IInv
    BY InitInv
  <1>2. IInv /\ [Next]_vars => IInv'
    BY StepInv
  <1> QED
    BY <1>1, <1>2, PTL DEF Spec

(* The tables of the wheel stay well formed: names and slots refer only to *)
(* nodes that exist.                                                       *)
THEOREM TypeCorrect == Spec => []TypeOK
  <1>1. IInv => TypeOK
    BY DEF IInv
  <1> QED
    BY <1>1, Invariance, PTL

(* No callback runs before the target time of its timer.                   *)
THEOREM NeverEarly == Spec => []NotEarly
  <1>1. IInv => NotEarly
    <2> SUFFICES ASSUME IInv, calling # 0
                 PROVE  node[calling].time <= ticktime
      BY DEF NotEarly
    <2>1. currentslot \in Slot /\ Off(currentslot) = 0
      BY WheelAssumption DEF IInv, TypeOK, Off, Slot
    <2>2. /\ calling \in 1..Len(node)
          /\ node[calling].time < ticktime + 0 * Interval
      BY <2>1 DEF IInv, TypeOK, SlotsInTime, CallingHere
    <2>3. node[calling] \in Node /\ 0 * Interval = 0
      BY <2>2, WheelAssumption DEF IInv, TypeOK
    <2>4. node[calling].time \in Int
      BY <2>3 DEF Node
    <2> QED
      BY <2>2, <2>3, <2>4 DEF IInv, TypeOK
  <1> QED
    BY <1>1, Invariance, PTL

-----------------------------------------------------------------------------
(* The names.                                                              *)

(* What an update of one node's flag or count leaves as it was, seen by    *)
(* the names: no name changes, and no node becomes pending.                *)
LEMMA NamesKept ==
  ASSUME TypeOK, NEW x \in 1..Len(node),
         \/ node' = [node EXCEPT ![x].canceled = TRUE]
         \/ node' = [node EXCEPT ![x].runs = @ + 1]
  PROVE  /\ Len(node') = Len(node)
         /\ \A i \in 1..Len(node) : /\ node'[i].name = node[i].name
                                    /\ Pending(i)' => Pending(i)
         /\ node' = [node EXCEPT ![x].canceled = TRUE] => ~Pending(x)'
  <1> DEFINE r == [node[x] EXCEPT !.canceled = TRUE]
             q == [node[x] EXCEPT !.runs = node[x].runs + 1]
  <1>1. node[x] \in Node
    BY DEF TypeOK
  <1>2. /\ r.name = node[x].name /\ r.runs = node[x].runs /\ r.canceled
        /\ q.name = node[x].name /\ q.runs = node[x].runs + 1
        /\ q.canceled = node[x].canceled
    BY <1>1 DEF Node
  <1>3. node[x].runs \in Nat
    BY <1>1 DEF Node
  <1>4. ~(q.runs = 0)
    BY <1>2, <1>3
  <1>5. \/ node' = [node EXCEPT ![x] = r]
        \/ node' = [node EXCEPT ![x] = q]
    OBVIOUS
  <1>6. node' = [node EXCEPT ![x].canceled = TRUE]
          => node' = [node EXCEPT ![x] = r]
    OBVIOUS
  <1> HIDE DEF r, q
  <1>7. node' = [node EXCEPT ![x] = r] =>
          /\ Len(node') = Len(node) /\ node'[x] = r
          /\ \A i \in 1..Len(node) : i # x => node'[i] = node[i]
    BY DEF TypeOK
  <1>8. node' = [node EXCEPT ![x] = q] =>
          /\ Len(node') = Len(node) /\ node'[x] = q
          /\ \A i \in 1..Len(node) : i # x => node'[i] = node[i]
    BY DEF TypeOK
  <1>9. CASE node' = [node EXCEPT ![x] = r]
    BY <1>2, <1>7, <1>9 DEF Pending
  <1>10. CASE node' = [node EXCEPT ![x] = q] /\ node' # [node EXCEPT ![x] = r]
    BY <1>2, <1>4, <1>6, <1>8, <1>10 DEF Pending
  <1> QED
    BY <1>5, <1>9, <1>10

LEMMA NameType == TypeOK => \A i \in 1..Len(node) : node[i].name \in Name
  <1> SUFFICES ASSUME TypeOK, NEW i \in 1..Len(node)
               PROVE  node[i].name \in Name
    OBVIOUS
  <1>1. node[i] \in Node
    BY DEF TypeOK
  <1> QED
    BY <1>1 DEF Node

LEMMA CancelReachesStep ==
  TypeOK /\ CancelReaches /\ [Next]_vars => CancelReaches'
  <1> SUFFICES ASSUME TypeOK, CancelReaches, [Next]_vars
               PROVE  CancelReaches'
    OBVIOUS
  <1>1. ASSUME NEW m \in Name, NEW time \in Int, AddTimer(m, time)
        PROVE  CancelReaches'
    <2> DEFINE r == [name |-> m, time |-> time, canceled |-> FALSE,
                     born |-> ticktime, runs |-> 0]
               n == Len(node) + 1
    <2>1. /\ node' = Append(node, r)
          /\ name2node' = [name2node EXCEPT ![m] = n]
      BY <1>1 DEF AddTimer
    <2>2. r.name = m
      OBVIOUS
    <2> HIDE DEF r
    <2>3. /\ n \in Nat /\ Len(node') = n /\ node'[n] = r
          /\ \A i \in 1..Len(node) : node'[i] = node[i]
      BY <2>1 DEF TypeOK
    <2>4. \A i \in 1..Len(node) : node[i].name \in Name
      BY NameType
    <2> SUFFICES ASSUME NEW i \in 1..Len(node'), Pending(i)'
                 PROVE  \/ name2node'[node'[i].name] = i
                        \/ \E k \in (i + 1)..Len(node') :
                             node'[k].name = node'[i].name
      BY DEF CancelReaches
    <2>5. CASE i = n
      BY <2>1, <2>2, <2>3, <2>5 DEF TypeOK
    <2>6. CASE i # n
      <3>1. i \in 1..Len(node) /\ node'[i] = node[i] /\ Pending(i)
        <4>1. Len(node) \in Nat
          BY DEF TypeOK
        <4>2. i \in 1..Len(node) /\ node'[i] = node[i]
          BY <2>3, <2>6, <4>1
        <4> QED
          BY <4>2 DEF Pending
      <3>2. CASE node[i].name = m
        <4>1. n \in (i + 1)..Len(node') /\ node'[n].name = node'[i].name
          BY <2>2, <2>3, <3>1, <3>2 DEF TypeOK
        <4> QED
          BY <4>1
      <3>3. CASE node[i].name # m /\ name2node[node[i].name] = i
        BY <2>1, <2>4, <3>1, <3>3 DEF TypeOK
      <3>4. CASE \E k \in (i + 1)..Len(node) : node[k].name = node[i].name
        <4>1. PICK k \in (i + 1)..Len(node) : node[k].name = node[i].name
          BY <3>4
        <4>2. k \in 1..Len(node) /\ k \in (i + 1)..Len(node')
          BY <2>3, <3>1 DEF TypeOK
        <4>3. node'[k].name = node'[i].name
          BY <2>3, <3>1, <4>1, <4>2
        <4> QED
          BY <4>2, <4>3
      <3> QED
        BY <3>1, <3>2, <3>3, <3>4 DEF CancelReaches
    <2> QED
      BY <2>5, <2>6
  <1>2. ASSUME NEW m \in Name, CancelTimer(m)
        PROVE  CancelReaches'
    <2>0. name2node[m] \in 1..Len(node)
      BY <1>2 DEF CancelTimer, TypeOK
    <2> PICK x \in 1..Len(node) : x = name2node[m]
      BY <2>0
    <2>1. /\ node' = [node EXCEPT ![x].canceled = TRUE]
          /\ name2node' = [name2node EXCEPT ![m] = 0]
      BY <1>2 DEF CancelTimer
    <2>2. /\ Len(node') = Len(node)
          /\ \A i \in 1..Len(node) : /\ node'[i].name = node[i].name
                                     /\ Pending(i)' => Pending(i)
          /\ ~Pending(x)'
      BY <2>1, NamesKept
    <2>3. \A y \in Name : y # m => name2node'[y] = name2node[y]
      BY <2>1 DEF TypeOK
    <2>4. \A i \in 1..Len(node) : node[i].name \in Name
      BY NameType
    <2> SUFFICES ASSUME NEW i \in 1..Len(node), Pending(i)'
                 PROVE  \/ name2node'[node'[i].name] = i
                        \/ \E k \in (i + 1)..Len(node) :
                             node'[k].name = node'[i].name
      BY <2>2 DEF CancelReaches
    <2>5. Pending(i) /\ i # x /\ node'[i].name = node[i].name
      BY <2>2
    <2>6. CASE name2node[node[i].name] = i
      BY <2>3, <2>4, <2>5, <2>6
    <2>7. CASE \E k \in (i + 1)..Len(node) : node[k].name = node[i].name
      <3>1. PICK k \in (i + 1)..Len(node) : node[k].name = node[i].name
        BY <2>7
      <3>2. k \in 1..Len(node)
        BY DEF TypeOK
      <3> QED
        BY <2>2, <2>5, <3>1, <3>2
    <2> QED
      BY <2>5, <2>6, <2>7 DEF CancelReaches
  <1>3. ASSUME Call
        PROVE  CancelReaches'
    <2>0. pos \in 1..Len(slots[currentslot]) /\ Here \in 1..Len(node)
      BY <1>3 DEF Call, Looking, AtEnd, Here, TypeOK
    <2> PICK x \in 1..Len(node) : x = Here
      BY <2>0
    <2>1. /\ node' = [node EXCEPT ![x].runs = node[x].runs + 1]
          /\ name2node' = name2node
      BY <1>3 DEF Call
    <2>3. /\ Len(node') = Len(node)
          /\ \A i \in 1..Len(node) : /\ node'[i].name = node[i].name
                                     /\ Pending(i)' => Pending(i)
      BY <2>1, NamesKept
    <2> SUFFICES ASSUME NEW i \in 1..Len(node), Pending(i)'
                 PROVE  \/ name2node[node'[i].name] = i
                        \/ \E k \in (i + 1)..Len(node) :
                             node'[k].name = node'[i].name
      BY <2>1, <2>3 DEF CancelReaches
    <2>4. CASE name2node[node[i].name] = i
      BY <2>3, <2>4
    <2>5. CASE \E k \in (i + 1)..Len(node) : node[k].name = node[i].name
      <3>1. PICK k \in (i + 1)..Len(node) : node[k].name = node[i].name
        BY <2>5
      <3>2. k \in 1..Len(node)
        BY DEF TypeOK
      <3> QED
        BY <2>3, <3>1, <3>2
    <2> QED
      BY <2>3, <2>4, <2>5 DEF CancelReaches
  <1>4. ASSUME UNCHANGED <<node, name2node>>
        PROVE  CancelReaches'
    BY <1>4 DEF CancelReaches, Pending
  <1>5. ASSUME NEW m \in Name,
               NEW time \in (ticktime - 1)..(ticktime + Reach),
               AddTimer(m, time)
        PROVE  CancelReaches'
    <2>1. time \in Int
      BY ReachAssumption DEF TypeOK
    <2> QED
      BY <1>1, <1>5, <2>1
  <1> QED
    BY <1>2, <1>3, <1>4, <1>5
    DEF Next, Tick, Skip, Return, Raise, Advance, vars, wheelVars

(* cancel_timer can stop every timer that is still to run, unless the name *)
(* was given to another timer since.                                       *)
THEOREM CancelAlwaysReaches == Spec => []CancelReaches
  <1>1. Init => CancelReaches
    BY DEF Init, CancelReaches
  <1>2. TypeOK /\ CancelReaches /\ [Next]_vars => CancelReaches'
    BY CancelReachesStep
  <1> QED
    BY <1>1, <1>2, TypeCorrect, PTL DEF Spec

-----------------------------------------------------------------------------
(* Where the timers lie.                                                   *)

Place(j) == 1..Len(slots[j])

(* ipairs is past place i of slot j, or its callback is running.           *)
Done(j, i) ==
  /\ pos # 0 /\ j = currentslot
  /\ i < pos \/ (i = pos /\ calling # 0)

(* No node lies in two places.                                             *)
Apart ==
  \A j, k \in Slot : \A i \in Place(j), l \in Place(k) :
    slots[j][i] = slots[k][l] => j = k /\ i = l

(* A timer that is still to run lies somewhere.                            *)
Held ==
  \A n \in 1..Len(node) : Pending(n) =>
    \E j \in Slot : \E i \in Place(j) : slots[j][i] = n

(* What ipairs is past is not to run any more.                             *)
Passed ==
  \A j \in Slot : \A i \in Place(j) : Done(j, i) => ~Pending(slots[j][i])

(* The slot of a timer is executed an interval after its target time, or   *)
(* after it was added, at the latest.                                      *)
SlotsSoon ==
  \A j \in Slot : \A i \in Place(j) :
    \/ ticktime + Off(j) * Interval <= node[slots[j][i]].time + Interval
    \/ ticktime + Off(j) * Interval <= node[slots[j][i]].born + Interval

(* Each error repeats a callback once, and what ipairs is not past yet has *)
(* one run in hand.                                                        *)
RunsLow ==
  /\ \A n \in 1..Len(node) : node[n].runs <= 1 + raised
  /\ \A j \in Slot : \A i \in Place(j) :
       ~Done(j, i) => node[slots[j][i]].runs <= raised

Bounded ==
  Len(node) <= MaxTimer /\ \A j \in Slot : Len(slots[j]) <= Len(node)

WInv ==
  IInv /\ Apart /\ Held /\ Passed /\ SlotsSoon /\ RunsLow /\ Bounded

LEMMA NodeFields ==
  ASSUME TypeOK, NEW i \in 1..Len(node)
  PROVE  /\ node[i].time \in Int /\ node[i].born \in Int
         /\ node[i].runs \in Nat /\ node[i].canceled \in BOOLEAN
  <1>1. node[i] \in Node
    BY DEF TypeOK
  <1> QED
    BY <1>1 DEF Node

LEMMA SlotTypes ==
  ASSUME TypeOK, NEW j \in Slot
  PROVE  /\ slots[j] \in Seq(Nat) /\ Len(slots[j]) \in Nat
         /\ \A i \in Place(j) : slots[j][i] \in 1..Len(node)
  BY DEF TypeOK, Place

(* add_timer appends one node, behind what its slot holds; the slot is not *)
(* the current one, and is executed an interval after the target time, or  *)
(* after now, at the latest.                                               *)
LEMMA AddEffect ==
  ASSUME IInv, NEW m \in Name,
         NEW time \in (ticktime - 1)..(ticktime + Reach), AddTimer(m, time)
  PROVE  \E t \in Slot :
           /\ t # currentslot
           /\ \/ ticktime + Off(t) * Interval <= time + Interval
              \/ ticktime + Off(t) * Interval <= ticktime + Interval
           /\ UNCHANGED <<currentslot, ticktime, tickVars>>
           /\ Len(node) < MaxTimer /\ Len(node') = Len(node) + 1
           /\ node'[Len(node) + 1] =
                [name |-> m, time |-> time, canceled |-> FALSE,
                 born |-> ticktime, runs |-> 0]
           /\ \A i \in 1..Len(node) : node'[i] = node[i]
           /\ \A j \in Slot : j # t => slots'[j] = slots[j]
           /\ Len(slots'[t]) = Len(slots[t]) + 1
           /\ slots'[t][Len(slots[t]) + 1] = Len(node) + 1
           /\ \A i \in Place(t) : slots'[t][i] = slots[t][i]
           /\ \A j \in Slot : \A i \in Place(j)' :
                \/ i \in Place(j) /\ slots'[j][i] = slots[j][i]
                \/ /\ j = t /\ i = Len(slots[t]) + 1
                   /\ slots'[j][i] = Len(node) + 1
  <1> DEFINE d == IF time < ticktime THEN 0 ELSE time - ticktime
             k == d \div Interval
             n == Len(node) + 1
             r == [name |-> m, time |-> time, canceled |-> FALSE,
                   born |-> ticktime, runs |-> 0]
  <1>1. time \in Int /\ d \in 0..Reach /\ d \in Nat
    BY ReachAssumption DEF IInv, TypeOK
  <1>2. /\ TargetSlot(d) \in Slot /\ Off(TargetSlot(d)) = k + 1
        /\ k \in Nat /\ k * Interval <= d
    BY <1>1, TargetIsAhead, DivBounds, WheelAssumption DEF IInv, TypeOK
  <1>3. PICK t \in Slot : t = TargetSlot(d)
    BY <1>2
  <1>4. Off(t) = k + 1 /\ (k + 1) * Interval = k * Interval + Interval
    BY <1>2, <1>3, WheelAssumption
  <1>5. /\ Len(node) < MaxTimer /\ node' = Append(node, r)
        /\ slots' = [slots EXCEPT ![t] = Append(@, n)]
        /\ UNCHANGED <<currentslot, ticktime, tickVars>>
    BY <1>3 DEF AddTimer
  <1>6. t # currentslot
    <2>1. Off(t) # 0
      BY <1>2, <1>4
    <2>2. currentslot - currentslot = 0 /\ currentslot >= currentslot
      BY WheelAssumption DEF IInv, TypeOK, Slot
    <2> QED
      BY <2>1, <2>2 DEF Off
  <1>7. \/ ticktime + Off(t) * Interval <= time + Interval
        \/ ticktime + Off(t) * Interval <= ticktime + Interval
    <2>1. k * Interval \in Int /\ ticktime \in Int
      BY <1>2, WheelAssumption DEF IInv, TypeOK
    <2>2. ticktime + d <= time \/ d <= 0
      BY <1>1, <2>1
    <2> HIDE DEF d, k
    <2>3. d \in Int
      BY <1>1
    <2> QED
      BY <1>1, <1>2, <1>4, <2>1, <2>2, <2>3, WheelAssumption
  <1>8. r \in Node
    BY <1>1 DEF IInv, TypeOK, Node
  <1> HIDE DEF r, d, k
  <1>9. /\ Len(node') = Len(node) + 1 /\ node'[Len(node) + 1] = r
        /\ \A i \in 1..Len(node) : node'[i] = node[i]
    BY <1>5, <1>8 DEF IInv, TypeOK
  <1>10. /\ \A j \in Slot : j # t => slots'[j] = slots[j]
         /\ Len(slots'[t]) = Len(slots[t]) + 1
         /\ slots'[t][Len(slots[t]) + 1] = n
         /\ \A i \in Place(t) : slots'[t][i] = slots[t][i]
    BY <1>5 DEF IInv, TypeOK, Place
  <1>11. ASSUME NEW j \in Slot, NEW i \in Place(j)'
         PROVE  \/ i \in Place(j) /\ slots'[j][i] = slots[j][i]
                \/ /\ j = t /\ i = Len(slots[t]) + 1
                   /\ slots'[j][i] = Len(node) + 1
    <2>1. CASE j = t
      <3>1. Len(slots[t]) \in Nat /\ i \in 1..(Len(slots[t]) + 1)
        BY <1>10, <2>1, SlotTypes DEF IInv, Place
      <3>2. i \in Place(t) \/ i = Len(slots[t]) + 1
        BY <3>1 DEF Place
      <3> QED
        BY <1>10, <2>1, <3>2
    <2>2. CASE j # t
      BY <1>10, <2>2 DEF Place
    <2> QED
      BY <2>1, <2>2
  <1> QED
    BY <1>5, <1>6, <1>7, <1>9, <1>10, <1>11 DEF r

(* Every other step outside Advance leaves the slots alone, and no timer   *)
(* becomes pending by it.                                                  *)
Quiet ==
  /\ UNCHANGED <<slots, currentslot, ticktime>>
  /\ Len(node') = Len(node)
  /\ \A i \in 1..Len(node) : /\ node'[i].time = node[i].time
                             /\ node'[i].born = node[i].born
                             /\ Pending(i)' => Pending(i)

LEMMA NodeKept ==
  ASSUME TypeOK, NEW x \in 1..Len(node),
         \/ node' = [node EXCEPT ![x].canceled = TRUE]
         \/ node' = [node EXCEPT ![x].runs = @ + 1]
  PROVE  /\ \A i \in 1..Len(node) : /\ node'[i].time = node[i].time
                                    /\ node'[i].born = node[i].born
                                    /\ i # x => node'[i] = node[i]
         /\ node'[x].runs = node[x].runs \/ node'[x].runs = node[x].runs + 1
         /\ node' = [node EXCEPT ![x].canceled = TRUE]
              => node'[x].runs = node[x].runs
         /\ node' # [node EXCEPT ![x].canceled = TRUE]
              => node'[x].runs = node[x].runs + 1
  <1> DEFINE r == [node[x] EXCEPT !.canceled = TRUE]
             q == [node[x] EXCEPT !.runs = node[x].runs + 1]
  <1>1. node[x] \in Node
    BY DEF TypeOK
  <1>2. /\ r.time = node[x].time /\ r.born = node[x].born
        /\ r.runs = node[x].runs
        /\ q.time = node[x].time /\ q.born = node[x].born
        /\ q.runs = node[x].runs + 1
    BY <1>1 DEF Node
  <1>3. \/ node' = [node EXCEPT ![x] = r]
        \/ node' = [node EXCEPT ![x] = q]
    OBVIOUS
  <1>4. (node' = [node EXCEPT ![x].canceled = TRUE])
          <=> (node' = [node EXCEPT ![x] = r])
    OBVIOUS
  <1> HIDE DEF r, q
  <1>5. node' = [node EXCEPT ![x] = r] =>
          /\ node'[x] = r
          /\ \A i \in 1..Len(node) : i # x => node'[i] = node[i]
    BY DEF TypeOK
  <1>6. node' = [node EXCEPT ![x] = q] =>
          /\ node'[x] = q
          /\ \A i \in 1..Len(node) : i # x => node'[i] = node[i]
    BY DEF TypeOK
  <1>7. CASE node' = [node EXCEPT ![x] = r]
    BY <1>2, <1>4, <1>5, <1>7
  <1>8. CASE node' = [node EXCEPT ![x] = q] /\ node' # [node EXCEPT ![x] = r]
    BY <1>2, <1>4, <1>6, <1>8
  <1> QED
    BY <1>3, <1>7, <1>8

LEMMA QuietSteps ==
  ASSUME IInv, \/ \E m \in Name : CancelTimer(m)
               \/ \E now \in upto..MaxTime : Tick(now)
               \/ Call \/ Skip \/ Return \/ Raise
               \/ UNCHANGED vars
  PROVE  Quiet
  <1>1. ASSUME NEW m \in Name, CancelTimer(m)
        PROVE  Quiet
    <2>1. name2node[m] \in 1..Len(node)
      BY <1>1 DEF CancelTimer, IInv, TypeOK
    <2>2. PICK x \in 1..Len(node) : x = name2node[m]
      BY <2>1
    <2>3. node' = [node EXCEPT ![x].canceled = TRUE]
      BY <1>1, <2>2 DEF CancelTimer
    <2> QED
      BY <1>1, <2>3, NamesKept, NodeKept
      DEF Quiet, CancelTimer, IInv
  <1>2. ASSUME Call
        PROVE  Quiet
    <2>1. pos \in 1..Len(slots[currentslot]) /\ Here \in 1..Len(node)
      BY <1>2 DEF Call, Looking, AtEnd, Here, IInv, TypeOK
    <2>2. PICK x \in 1..Len(node) : x = Here
      BY <2>1
    <2>3. node' = [node EXCEPT ![x].runs = @ + 1]
      BY <1>2, <2>2 DEF Call
    <2> QED
      BY <1>2, <2>3, NamesKept, NodeKept DEF Quiet, Call, IInv
  <1>3. ASSUME UNCHANGED wheelVars
        PROVE  Quiet
    BY <1>3 DEF wheelVars, Quiet, Pending
  <1> QED
    BY <1>1, <1>2, <1>3 DEF Tick, Skip, Return, Raise, vars

(* The end of tick_once: every node of the slot is done with, the slot is  *)
(* cleared, and every other slot is one place nearer.                      *)
LEMMA AdvanceEffect ==
  ASSUME IInv, Advance
  PROVE  /\ \A i \in Place(currentslot) : Done(currentslot, i)
         /\ Len(slots'[currentslot]) = 0
         /\ \A j \in Slot : j # currentslot =>
              /\ slots'[j] = slots[j]
              /\ Off(j) \in Nat /\ Off(j)' \in Nat /\ Off(j) = Off(j)' + 1
         /\ ticktime' = ticktime + Interval
         /\ calling = 0 /\ pos' \in 0..1
         /\ UNCHANGED <<name2node, node, upto, calling, raised>>
  <1> DEFINE c == Following(currentslot)
  <1>1. /\ currentslot \in Slot
        /\ c = IF currentslot = N THEN 1 ELSE currentslot + 1
    <2>1. currentslot \in Slot
      BY DEF IInv, TypeOK
    <2>2. currentslot < N => currentslot % N = currentslot
      BY <2>1, WheelAssumption DEF Slot
    <2>3. N % N = 0
      BY WheelAssumption
    <2> QED
      BY <2>1, <2>2, <2>3, WheelAssumption DEF Slot, Following
  <1>2. /\ slots' = [slots EXCEPT ![currentslot] = <<>>]
        /\ currentslot' = c
        /\ ticktime' = ticktime + Interval /\ calling = 0
        /\ pos # 0 /\ pos > Len(slots[currentslot]) /\ pos' \in 0..1
        /\ UNCHANGED <<name2node, node, upto, calling, raised>>
    BY DEF Advance, Looking, AtEnd
  <1> HIDE DEF c
  <1>3. slots'[currentslot] = <<>>
        /\ \A j \in Slot : j # currentslot => slots'[j] = slots[j]
    BY <1>1, <1>2 DEF IInv, TypeOK
  <1>4. ASSUME NEW j \in Slot, j # currentslot
        PROVE  Off(j) \in Nat /\ Off(j)' \in Nat /\ Off(j) = Off(j)' + 1
    BY <1>1, <1>2, <1>4, WheelAssumption DEF Off, Slot
  <1>5. \A i \in Place(currentslot) : Done(currentslot, i)
    BY <1>1, <1>2, SlotTypes DEF Place, Done, IInv, TypeOK
  <1> QED
    BY <1>2, <1>3, <1>4, <1>5

LEMMA ApartUse ==
  ASSUME Apart, NEW j \in Slot, NEW k \in Slot,
         NEW i \in Place(j), NEW l \in Place(k), slots[j][i] = slots[k][l]
  PROVE  j = k /\ i = l
  BY DEF Apart

LEMMA ApartStep ==
  ASSUME IInv, Apart, [Next]_vars
  PROVE  Apart'
  <1>1. ASSUME NEW m \in Name,
               NEW time \in (ticktime - 1)..(ticktime + Reach),
               AddTimer(m, time)
        PROVE  Apart'
    <2>1. PICK t \in Slot :
            \A j \in Slot : \A i \in Place(j)' :
              \/ i \in Place(j) /\ slots'[j][i] = slots[j][i]
              \/ /\ j = t /\ i = Len(slots[t]) + 1
                 /\ slots'[j][i] = Len(node) + 1
      BY <1>1, AddEffect
    <2>3. \A j \in Slot : \A i \in Place(j) : slots[j][i] # Len(node) + 1
      BY SlotTypes DEF IInv, TypeOK
    <2> SUFFICES ASSUME NEW j \in Slot, NEW k \in Slot,
                        NEW i \in Place(j)', NEW l \in Place(k)',
                        slots'[j][i] = slots'[k][l]
                 PROVE  j = k /\ i = l
      BY DEF Apart
    <2>4. \/ i \in Place(j) /\ slots'[j][i] = slots[j][i]
          \/ /\ j = t /\ i = Len(slots[t]) + 1
             /\ slots'[j][i] = Len(node) + 1
      BY <2>1
    <2>5. \/ l \in Place(k) /\ slots'[k][l] = slots[k][l]
          \/ /\ k = t /\ l = Len(slots[t]) + 1
             /\ slots'[k][l] = Len(node) + 1
      BY <2>1
    <2>6. CASE i \in Place(j) /\ slots'[j][i] = slots[j][i]
      <3>1. slots[j][i] # Len(node) + 1
        BY <2>3, <2>6
      <3>2. l \in Place(k) /\ slots'[k][l] = slots[k][l]
        BY <2>5, <2>6, <3>1
      <3>3. slots[j][i] = slots[k][l]
        BY <2>6, <3>2
      <3> QED
        BY <2>6, <3>2, <3>3, ApartUse
    <2>7. CASE /\ j = t /\ i = Len(slots[t]) + 1
               /\ slots'[j][i] = Len(node) + 1
      BY <2>3, <2>5, <2>7
    <2> QED
      BY <2>4, <2>6, <2>7
  <1>2. ASSUME Advance
        PROVE  Apart'
    <2>1. /\ Len(slots'[currentslot]) = 0
          /\ \A j \in Slot : j # currentslot => slots'[j] = slots[j]
      BY <1>2, AdvanceEffect
    <2>2. ASSUME NEW j \in Slot, NEW i \in Place(j)'
          PROVE  i \in Place(j) /\ slots'[j][i] = slots[j][i]
      <3>1. j # currentslot
        BY <2>1 DEF Place
      <3> QED
        BY <2>1, <3>1 DEF Place
    <2> QED
      BY <2>2 DEF Apart
  <1>3. ASSUME Quiet
        PROVE  Apart'
    BY <1>3 DEF Quiet, Apart, Place
  <1> QED
    BY <1>1, <1>2, <1>3, QuietSteps DEF Next

LEMMA HeldStep ==
  ASSUME IInv, Held, Passed, [Next]_vars
  PROVE  Held'
  <1>1. ASSUME NEW m \in Name,
               NEW time \in (ticktime - 1)..(ticktime + Reach),
               AddTimer(m, time)
        PROVE  Held'
    <2>1. PICK t \in Slot :
            /\ Len(node') = Len(node) + 1
            /\ \A i \in 1..Len(node) : node'[i] = node[i]
            /\ \A j \in Slot : j # t => slots'[j] = slots[j]
            /\ Len(slots'[t]) = Len(slots[t]) + 1
            /\ slots'[t][Len(slots[t]) + 1] = Len(node) + 1
            /\ \A i \in Place(t) : slots'[t][i] = slots[t][i]
      BY <1>1, AddEffect
    <2>2. Len(node) \in Nat
      BY DEF IInv, TypeOK
    <2> SUFFICES ASSUME NEW n \in 1..Len(node'), Pending(n)'
                 PROVE  \E j \in Slot : \E i \in Place(j)' : slots'[j][i] = n
      BY DEF Held
    <2>3. CASE n = Len(node) + 1
      <3>1. Len(slots[t]) + 1 \in Place(t)'
        BY <2>1, SlotTypes DEF IInv, Place
      <3> QED
        BY <2>1, <2>3, <3>1
    <2>4. CASE n \in 1..Len(node)
      <3>1. Pending(n)
        BY <2>1, <2>4 DEF Pending
      <3>2. PICK j \in Slot : \E i \in Place(j) : slots[j][i] = n
        BY <2>4, <3>1 DEF Held
      <3>0. PICK i \in Place(j) : slots[j][i] = n
        BY <3>2
      <3>3. i \in Place(j)' /\ slots'[j][i] = n
        <4>1. CASE j = t
          <5>1. Len(slots[t]) \in Nat /\ i \in 1..Len(slots[t])
            BY <3>0, <4>1, SlotTypes DEF IInv, Place
          <5>2. i \in 1..(Len(slots[t]) + 1)
            BY <5>1
          <5> QED
            BY <2>1, <3>0, <4>1, <5>1, <5>2 DEF Place
        <4>2. CASE j # t
          BY <2>1, <3>0, <4>2 DEF Place
        <4> QED
          BY <4>1, <4>2
      <3> QED
        BY <3>3
    <2> QED
      BY <2>1, <2>2, <2>3, <2>4
  <1>2. ASSUME Advance
        PROVE  Held'
    <2>1. /\ \A i \in Place(currentslot) : Done(currentslot, i)
          /\ \A j \in Slot : j # currentslot => slots'[j] = slots[j]
          /\ node' = node
      BY <1>2, AdvanceEffect
    <2> SUFFICES ASSUME NEW n \in 1..Len(node), Pending(n)
                 PROVE  \E j \in Slot : \E i \in Place(j)' : slots'[j][i] = n
      BY <2>1 DEF Held, Pending
    <2>0. PICK j \in Slot : \E i \in Place(j) : slots[j][i] = n
      BY DEF Held
    <2>2. PICK i \in Place(j) : slots[j][i] = n
      BY <2>0
    <2>3. j # currentslot
      BY <2>1, <2>2 DEF Passed
    <2>4. i \in Place(j)' /\ slots'[j][i] = n
      BY <2>1, <2>2, <2>3 DEF Place
    <2> QED
      BY <2>4
  <1>3. ASSUME Quiet
        PROVE  Held'
    BY <1>3 DEF Quiet, Held, Place
  <1> QED
    BY <1>1, <1>2, <1>3, QuietSteps DEF Next

LEMMA PassedStep ==
  ASSUME IInv, Passed, [Next]_vars
  PROVE  Passed'
  <1>1. ASSUME NEW m \in Name,
               NEW time \in (ticktime - 1)..(ticktime + Reach),
               AddTimer(m, time)
        PROVE  Passed'
    <2>1. PICK t \in Slot :
            /\ t # currentslot
            /\ UNCHANGED <<currentslot, ticktime, tickVars>>
            /\ \A i \in 1..Len(node) : node'[i] = node[i]
            /\ \A j \in Slot : j # t => slots'[j] = slots[j]
      BY <1>1, AddEffect
    <2> SUFFICES ASSUME NEW j \in Slot, NEW i \in Place(j)', Done(j, i)'
                 PROVE  ~Pending(slots[j][i])'
      BY DEF Passed
    <2>2. Done(j, i) /\ j = currentslot
      BY <2>1 DEF Done, tickVars
    <2>3. i \in Place(j) /\ slots'[j][i] = slots[j][i]
      BY <2>1, <2>2 DEF Place
    <2>4. PICK n \in 1..Len(node) : n = slots[j][i]
      BY <2>3, SlotTypes DEF IInv
    <2>5. ~Pending(n)
      BY <2>2, <2>3, <2>4 DEF Passed
    <2> QED
      BY <2>1, <2>3, <2>4, <2>5 DEF Pending
  <1>2. ASSUME pos' = 0 \/ (pos' = 1 /\ calling' = 0)
        PROVE  Passed'
    BY <1>2 DEF Passed, Done, Place
  <1>3. ASSUME Advance \/ Raise \/ \E now \in upto..MaxTime : Tick(now)
        PROVE  Passed'
    <2>1. pos = 0 => calling = 0
      BY DEF IInv, CallingHere
    <2> QED
      BY <1>2, <1>3, <2>1 DEF Advance, Looking, Raise, Tick
  <1>4. ASSUME Quiet,
               \A j \in Slot : \A i \in Place(j) :
                 Done(j, i)' => Done(j, i) \/ ~Pending(slots[j][i])'
        PROVE  Passed'
    <2> SUFFICES ASSUME NEW j \in Slot, NEW i \in Place(j), Done(j, i)'
                 PROVE  ~Pending(slots[j][i])'
      BY <1>4 DEF Passed, Quiet, Place
    <2>1. PICK n \in 1..Len(node) : n = slots[j][i]
      BY SlotTypes DEF IInv
    <2>2. slots' = slots /\ (Pending(n)' => Pending(n))
      BY <1>4 DEF Quiet
    <2>3. ~Pending(n) \/ ~Pending(n)'
      BY <1>4, <2>1, <2>2 DEF Passed, Pending
    <2> QED
      BY <2>1, <2>2, <2>3 DEF Pending
  <1>5. ASSUME \/ \E m \in Name : CancelTimer(m)
               \/ Return \/ UNCHANGED vars
        PROVE  Passed'
    <2>1. Quiet
      BY <1>5, QuietSteps
    <2>2. ASSUME NEW j \in Slot, NEW i \in Place(j), Done(j, i)'
          PROVE  Done(j, i)
      <3>1. i \in Nat /\ pos \in Nat
        BY SlotTypes DEF IInv, TypeOK, Place
      <3>2. CASE Return
        BY <2>2, <3>1, <3>2 DEF Done, Return, wheelVars, IInv, CallingHere
      <3>3. CASE UNCHANGED <<currentslot, pos, calling>>
        BY <2>2, <3>3 DEF Done
      <3> QED
        BY <1>5, <3>2, <3>3 DEF CancelTimer, vars, wheelVars, tickVars
    <2> QED
      BY <1>4, <2>1, <2>2
  <1>6. ASSUME Call
        PROVE  Passed'
    <2>1. Quiet
      BY <1>6, QuietSteps
    <2>2. pos \in Place(currentslot) /\ Here \in 1..Len(node)
      BY <1>6 DEF Call, Looking, AtEnd, Here, IInv, TypeOK, Place
    <2>3. PICK x \in 1..Len(node) : x = Here
      BY <2>2
    <2>4. node' = [node EXCEPT ![x].runs = @ + 1]
      BY <1>6, <2>3 DEF Call
    <2>5. ~Pending(x)'
      <3>1. node[x].runs \in Nat
        BY NodeFields DEF IInv
      <3>2. node' # [node EXCEPT ![x].canceled = TRUE]
              => node'[x].runs = node[x].runs + 1
        BY <2>4, NodeKept DEF IInv
      <3>3. node' = [node EXCEPT ![x].canceled = TRUE] => ~Pending(x)'
        BY NamesKept DEF IInv
      <3> QED
        BY <3>1, <3>2, <3>3 DEF Pending
    <2>6. ASSUME NEW j \in Slot, NEW i \in Place(j), Done(j, i)'
          PROVE  Done(j, i) \/ ~Pending(slots[j][i])'
      <3>1. CASE i = pos
        <4>1. slots[j][i] = x
          BY <1>6, <2>3, <2>6, <3>1 DEF Done, Here, Call
        <4>2. slots' = slots
          BY <2>1 DEF Quiet
        <4> QED
          BY <2>5, <4>1, <4>2 DEF Pending
      <3>2. CASE i # pos
        BY <1>6, <2>6, <3>2 DEF Done, Call, Looking
      <3> QED
        BY <3>1, <3>2
    <2> QED
      BY <1>4, <2>1, <2>6
  <1>7. ASSUME Skip
        PROVE  Passed'
    <2>1. Quiet
      BY <1>7, QuietSteps
    <2>2. ASSUME NEW j \in Slot, NEW i \in Place(j), Done(j, i)'
          PROVE  Done(j, i) \/ ~Pending(slots[j][i])'
      <3>1. CASE i = pos
        <4>1. node' = node /\ node[slots[j][i]].canceled /\ slots' = slots
          BY <1>7, <2>2, <3>1 DEF Skip, Here, Done, wheelVars
        <4> QED
          BY <4>1 DEF Pending
      <3>2. CASE i # pos
        <4>1. i \in Nat /\ pos \in Nat
          BY SlotTypes DEF IInv, TypeOK, Place
        <4> QED
          BY <1>7, <2>2, <3>2, <4>1 DEF Done, Skip, Looking, wheelVars
      <3> QED
        BY <3>1, <3>2
    <2> QED
      BY <1>4, <2>1, <2>2
  <1> QED
    BY <1>1, <1>3, <1>5, <1>6, <1>7 DEF Next

LEMMA SlotsSoonStep ==
  ASSUME IInv, SlotsSoon, [Next]_vars
  PROVE  SlotsSoon'
  <1>1. ASSUME NEW m \in Name,
               NEW time \in (ticktime - 1)..(ticktime + Reach),
               AddTimer(m, time)
        PROVE  SlotsSoon'
    <2>1. PICK t \in Slot :
            /\ \/ ticktime + Off(t) * Interval <= time + Interval
               \/ ticktime + Off(t) * Interval <= ticktime + Interval
            /\ UNCHANGED <<currentslot, ticktime, tickVars>>
            /\ node'[Len(node) + 1] =
                 [name |-> m, time |-> time, canceled |-> FALSE,
                  born |-> ticktime, runs |-> 0]
            /\ \A i \in 1..Len(node) : node'[i] = node[i]
            /\ \A j \in Slot : \A i \in Place(j)' :
                 \/ i \in Place(j) /\ slots'[j][i] = slots[j][i]
                 \/ /\ j = t /\ i = Len(slots[t]) + 1
                    /\ slots'[j][i] = Len(node) + 1
      BY <1>1, AddEffect
    <2> SUFFICES ASSUME NEW j \in Slot, NEW i \in Place(j)'
                 PROVE  \/ ticktime + Off(j) * Interval
                             <= node'[slots'[j][i]].time + Interval
                        \/ ticktime + Off(j) * Interval
                             <= node'[slots'[j][i]].born + Interval
      BY <2>1 DEF SlotsSoon, Off
    <2>2. CASE i \in Place(j) /\ slots'[j][i] = slots[j][i]
      <3>1. slots[j][i] \in 1..Len(node)
        BY <2>2, SlotTypes DEF IInv
      <3> QED
        BY <2>1, <2>2, <3>1 DEF SlotsSoon
    <2>3. CASE j = t /\ slots'[j][i] = Len(node) + 1
      BY <2>1, <2>3
    <2> QED
      BY <2>1, <2>2, <2>3
  <1>2. ASSUME Advance
        PROVE  SlotsSoon'
    <2>1. /\ Len(slots'[currentslot]) = 0
          /\ \A j \in Slot : j # currentslot =>
               /\ slots'[j] = slots[j]
               /\ Off(j) \in Nat /\ Off(j)' \in Nat /\ Off(j) = Off(j)' + 1
          /\ ticktime' = ticktime + Interval /\ node' = node
      BY <1>2, AdvanceEffect
    <2> SUFFICES ASSUME NEW j \in Slot, NEW i \in Place(j)'
                 PROVE  \/ ticktime + Interval + Off(j)' * Interval
                             <= node[slots'[j][i]].time + Interval
                        \/ ticktime + Interval + Off(j)' * Interval
                             <= node[slots'[j][i]].born + Interval
      BY <2>1 DEF SlotsSoon
    <2>2. j # currentslot
      BY <2>1 DEF Place
    <2>3. i \in Place(j) /\ slots'[j][i] = slots[j][i]
      BY <2>1, <2>2 DEF Place
    <2>4. Off(j) * Interval = Interval + Off(j)' * Interval
      BY <2>1, <2>2, WheelAssumption
    <2>5. Off(j)' * Interval \in Int /\ ticktime \in Int
      BY <2>1, <2>2, WheelAssumption DEF IInv, TypeOK
    <2>6. ticktime + Interval + Off(j)' * Interval
            = ticktime + Off(j) * Interval
      BY <2>4, <2>5, WheelAssumption
    <2> QED
      BY <2>3, <2>6 DEF SlotsSoon
  <1>3. ASSUME Quiet
        PROVE  SlotsSoon'
    <2> SUFFICES ASSUME NEW j \in Slot, NEW i \in Place(j)
                 PROVE  \/ ticktime + Off(j) * Interval
                             <= node'[slots[j][i]].time + Interval
                        \/ ticktime + Off(j) * Interval
                             <= node'[slots[j][i]].born + Interval
      BY <1>3 DEF SlotsSoon, Quiet, Off, Place
    <2>1. slots[j][i] \in 1..Len(node)
      BY SlotTypes DEF IInv
    <2> QED
      BY <1>3, <2>1 DEF Quiet, SlotsSoon
  <1> QED
    BY <1>1, <1>2, <1>3, QuietSteps DEF Next

LEMMA BoundedStep ==
  ASSUME IInv, Bounded, [Next]_vars
  PROVE  Bounded'
  <1>0. MaxTimer \in Nat /\ Len(node) \in Nat
    BY BoundAssumption DEF IInv, TypeOK
  <1>1. ASSUME NEW m \in Name,
               NEW time \in (ticktime - 1)..(ticktime + Reach),
               AddTimer(m, time)
        PROVE  Bounded'
    <2>1. PICK t \in Slot :
            /\ Len(node) < MaxTimer /\ Len(node') = Len(node) + 1
            /\ \A j \in Slot : j # t => slots'[j] = slots[j]
            /\ Len(slots'[t]) = Len(slots[t]) + 1
      BY <1>1, AddEffect
    <2>2. \A j \in Slot : Len(slots[j]) \in Nat
      BY SlotTypes DEF IInv
    <2>3. ASSUME NEW j \in Slot
          PROVE  Len(slots'[j]) <= Len(node')
      BY <1>0, <2>1, <2>2 DEF Bounded
    <2> QED
      BY <1>0, <2>1, <2>3 DEF Bounded
  <1>2. ASSUME Advance
        PROVE  Bounded'
    <2>1. /\ Len(slots'[currentslot]) = 0 /\ node' = node
          /\ \A j \in Slot : j # currentslot => slots'[j] = slots[j]
      BY <1>2, AdvanceEffect
    <2>2. ASSUME NEW j \in Slot
          PROVE  Len(slots'[j]) <= Len(node)
      BY <1>0, <2>1 DEF Bounded
    <2> QED
      BY <2>1, <2>2 DEF Bounded
  <1>3. ASSUME Quiet
        PROVE  Bounded'
    BY <1>3 DEF Quiet, Bounded
  <1> QED
    BY <1>1, <1>2, <1>3, QuietSteps DEF Next

(* What has run out of hand after the step, for the steps that leave the   *)
(* slots and every count alone.                                            *)
LEMMA RunsLowKept ==
  ASSUME IInv, RunsLow, Quiet, raised' = raised,
         \A n \in 1..Len(node) : node'[n].runs = node[n].runs,
         \A j \in Slot : \A i \in Place(j) : Done(j, i) => Done(j, i)'
  PROVE  RunsLow'
  <1>1. \A j \in Slot : \A i \in Place(j) : slots[j][i] \in 1..Len(node)
    BY SlotTypes DEF IInv
  <1>2. slots' = slots /\ Len(node') = Len(node)
    BY DEF Quiet
  <1>3. ASSUME NEW j \in Slot, NEW i \in Place(j), ~Done(j, i)'
        PROVE  node'[slots[j][i]].runs <= raised
    BY <1>1, <1>3 DEF RunsLow
  <1> QED
    BY <1>2, <1>3 DEF RunsLow, Place

LEMMA RunsLowStep ==
  ASSUME IInv, Apart, RunsLow, [Next]_vars
  PROVE  RunsLow'
  <1>0. raised \in Nat /\ Len(node) \in Nat
    BY DEF IInv, TypeOK
  <1>1. ASSUME NEW m \in Name,
               NEW time \in (ticktime - 1)..(ticktime + Reach),
               AddTimer(m, time)
        PROVE  RunsLow'
    <2>1. PICK t \in Slot :
            /\ UNCHANGED <<currentslot, ticktime, tickVars>>
            /\ Len(node') = Len(node) + 1
            /\ node'[Len(node) + 1] =
                 [name |-> m, time |-> time, canceled |-> FALSE,
                  born |-> ticktime, runs |-> 0]
            /\ \A i \in 1..Len(node) : node'[i] = node[i]
            /\ \A j \in Slot : \A i \in Place(j)' :
                 \/ i \in Place(j) /\ slots'[j][i] = slots[j][i]
                 \/ /\ j = t /\ i = Len(slots[t]) + 1
                    /\ slots'[j][i] = Len(node) + 1
      BY <1>1, AddEffect
    <2>2. node'[Len(node) + 1].runs = 0 /\ raised' = raised
      BY <2>1 DEF tickVars
    <2>3. ASSUME NEW n \in 1..Len(node')
          PROVE  node'[n].runs <= 1 + raised
      <3>1. n \in 1..Len(node) \/ n = Len(node) + 1
        BY <1>0, <2>1
      <3> QED
        BY <1>0, <2>1, <2>2, <3>1 DEF RunsLow
    <2>4. ASSUME NEW j \in Slot, NEW i \in Place(j)', ~Done(j, i)'
          PROVE  node'[slots'[j][i]].runs <= raised
      <3>1. CASE i \in Place(j) /\ slots'[j][i] = slots[j][i]
        <4>1. slots[j][i] \in 1..Len(node)
          BY <3>1, SlotTypes DEF IInv
        <4>2. ~Done(j, i)
          BY <2>1, <2>4 DEF Done, tickVars
        <4> QED
          BY <2>1, <3>1, <4>1, <4>2 DEF RunsLow
      <3>2. CASE slots'[j][i] = Len(node) + 1
        BY <1>0, <2>2, <3>2
      <3> QED
        BY <2>1, <3>1, <3>2
    <2> QED
      BY <2>2, <2>3, <2>4 DEF RunsLow
  <1>2. ASSUME NEW m \in Name, CancelTimer(m)
        PROVE  RunsLow'
    <2>1. name2node[m] \in 1..Len(node)
      BY <1>2 DEF CancelTimer, IInv, TypeOK
    <2>2. PICK x \in 1..Len(node) : x = name2node[m]
      BY <2>1
    <2>3. node' = [node EXCEPT ![x].canceled = TRUE]
      BY <1>2, <2>2 DEF CancelTimer
    <2>4. \A n \in 1..Len(node) : node'[n].runs = node[n].runs
      BY <2>3, NodeKept DEF IInv
    <2>5. /\ raised' = raised
          /\ \A j \in Slot : \A i \in Place(j) : Done(j, i) => Done(j, i)'
      BY <1>2 DEF CancelTimer, tickVars, Done
    <2> QED
      BY <1>2, <2>4, <2>5, QuietSteps, RunsLowKept
  <1>3. ASSUME Call
        PROVE  RunsLow'
    <2>1. pos \in Place(currentslot) /\ Here \in 1..Len(node)
      BY <1>3 DEF Call, Looking, AtEnd, Here, IInv, TypeOK, Place
    <2>2. PICK x \in 1..Len(node) : x = Here
      BY <2>1
    <2>3. node' = [node EXCEPT ![x].runs = @ + 1]
      BY <1>3, <2>2 DEF Call
    <2>4. /\ Len(node') = Len(node)
          /\ \A i \in 1..Len(node) : i # x => node'[i] = node[i]
          /\ \/ node'[x].runs = node[x].runs
             \/ node'[x].runs = node[x].runs + 1
      BY <2>3, NodeKept, NamesKept DEF IInv
    <2>5. /\ UNCHANGED <<slots, currentslot, pos, raised>>
          /\ calling' = x /\ calling = 0 /\ pos # 0
      BY <1>3, <2>2 DEF Call, Looking
    <2>6. currentslot \in Slot /\ slots[currentslot][pos] = x
      BY <2>2 DEF Here, IInv, TypeOK
    <2>7. ~Done(currentslot, pos)
      BY <2>5 DEF Done, IInv, TypeOK
    <2>8. node[x].runs <= raised
      BY <2>1, <2>6, <2>7 DEF RunsLow
    <2>9. node[x].runs \in Nat
      BY NodeFields DEF IInv
    <2>10. ASSUME NEW n \in 1..Len(node')
           PROVE  node'[n].runs <= 1 + raised
      BY <1>0, <2>4, <2>8, <2>9, <2>10 DEF RunsLow
    <2>11. ASSUME NEW j \in Slot, NEW i \in Place(j), ~Done(j, i)'
           PROVE  node'[slots[j][i]].runs <= raised
      <3>1. ~(j = currentslot /\ i = pos) /\ ~Done(j, i)
        BY <2>2, <2>5, <2>11 DEF Done, IInv, TypeOK
      <3>2. slots[j][i] # x
        BY <2>1, <2>6, <3>1, ApartUse
      <3>3. slots[j][i] \in 1..Len(node)
        BY SlotTypes DEF IInv
      <3> QED
        BY <2>4, <3>1, <3>2, <3>3 DEF RunsLow
    <2> QED
      BY <2>5, <2>10, <2>11 DEF RunsLow, Place
  <1>4. ASSUME Raise
        PROVE  RunsLow'
    <2>1. node' = node /\ slots' = slots /\ raised' = raised + 1
      BY <1>4 DEF Raise, wheelVars
    <2>2. \A n \in 1..Len(node) : node[n].runs \in Nat
      BY NodeFields DEF IInv
    <2>3. \A j \in Slot : \A i \in Place(j) : slots[j][i] \in 1..Len(node)
      BY SlotTypes DEF IInv
    <2>4. \A n \in 1..Len(node) :
            node[n].runs <= raised' /\ node[n].runs <= 1 + raised'
      BY <1>0, <2>1, <2>2 DEF RunsLow
    <2> QED
      BY <2>1, <2>3, <2>4 DEF RunsLow, Place
  <1>5. ASSUME Advance
        PROVE  RunsLow'
    <2>1. /\ Len(slots'[currentslot]) = 0 /\ node' = node
          /\ \A j \in Slot : j # currentslot => slots'[j] = slots[j]
          /\ raised' = raised
      BY <1>5, AdvanceEffect
    <2>2. ASSUME NEW j \in Slot, NEW i \in Place(j)'
          PROVE  i \in Place(j) /\ slots'[j][i] = slots[j][i] /\ ~Done(j, i)
      <3>1. j # currentslot
        BY <2>1 DEF Place
      <3> QED
        BY <2>1, <3>1 DEF Place, Done
    <2> QED
      BY <2>1, <2>2 DEF RunsLow
  <1>6. ASSUME \/ \E now \in upto..MaxTime : Tick(now)
               \/ Skip \/ Return \/ UNCHANGED vars
        PROVE  RunsLow'
    <2>1. Quiet /\ node' = node /\ raised' = raised
      BY <1>6, QuietSteps DEF Tick, Skip, Return, vars, wheelVars, tickVars
    <2>2. ASSUME NEW j \in Slot, NEW i \in Place(j), Done(j, i)
          PROVE  Done(j, i)'
      <3>1. i \in Nat /\ pos \in Nat
        BY SlotTypes DEF IInv, TypeOK, Place
      <3>2. CASE Return \/ Skip
        BY <2>2, <3>1, <3>2 DEF Return, Skip, Looking, Done, wheelVars
      <3>3. CASE \/ UNCHANGED vars
                 \/ \E now \in upto..MaxTime : Tick(now)
        BY <2>2, <3>3 DEF Done, vars, wheelVars, tickVars, Tick
      <3> QED
        BY <1>6, <3>2, <3>3
    <2> QED
      BY <2>1, <2>2, RunsLowKept
  <1> QED
    BY <1>1, <1>2, <1>3, <1>4, <1>5, <1>6 DEF Next

LEMMA InitWInv == Init => WInv
  <1> SUFFICES ASSUME Init
               PROVE  WInv
    OBVIOUS
  <1>1. IInv
    BY InitInv
  <1>2. node = <<>> /\ Len(node) = 0 /\ \A j \in Slot : Len(slots[j]) = 0
    BY DEF Init
  <1>3. \A j \in Slot : Place(j) = {}
    BY <1>2 DEF Place
  <1>4. Apart /\ Passed /\ SlotsSoon
    BY <1>3 DEF Apart, Passed, SlotsSoon
  <1>5. Held /\ RunsLow /\ Bounded
    BY <1>2, <1>3, BoundAssumption DEF Held, RunsLow, Bounded
  <1> QED
    BY <1>1, <1>4, <1>5 DEF WInv

(* Every timer still to run lies in one place, ahead of the wheel but not  *)
(* too far; what was run lies behind ipairs or has been cleared.           *)
THEOREM WheelInvariance == Spec => []WInv
  <1>1. Init => WInv
    BY InitWInv
  <1>2. WInv /\ [Next]_vars => WInv'
    BY StepInv, ApartStep, HeldStep, PassedStep, SlotsSoonStep, RunsLowStep,
       BoundedStep DEF WInv
  <1> QED
    BY <1>1, <1>2, PTL DEF Spec

(* Once a tick has caught up, no timer is left that should have run an     *)
(* interval earlier: it lies in a slot, no slot is behind ticktime, and    *)
(* its slot comes within an interval of its time.                          *)
THEOREM NeverLate == Spec => []NotLate
  <1>1. WInv => NotLate
    <2> SUFFICES ASSUME WInv, ticktime > upto,
                        NEW n \in 1..Len(node), Pending(n)
                 PROVE  \/ node[n].time > upto - Interval
                        \/ node[n].born > upto - Interval
      BY DEF NotLate
    <2>1. TypeOK
      BY DEF WInv, IInv
    <2>2. PICK j \in Slot : \E i \in Place(j) : slots[j][i] = n
      BY DEF WInv, Held
    <2>3. PICK i \in Place(j) : slots[j][i] = n
      BY <2>2
    <2>4. \/ ticktime + Off(j) * Interval <= node[n].time + Interval
          \/ ticktime + Off(j) * Interval <= node[n].born + Interval
      BY <2>3 DEF WInv, SlotsSoon
    <2>5. Off(j) \in Nat
      BY <2>1, WheelAssumption DEF TypeOK, Off, Slot
    <2>6. Off(j) * Interval \in Nat
      BY <2>5, WheelAssumption
    <2>7. /\ node[n].time \in Int /\ node[n].born \in Int
          /\ ticktime \in Int /\ upto \in Int
      BY <2>1, NodeFields DEF TypeOK
    <2> QED
      BY <2>4, <2>6, <2>7, WheelAssumption
  <1> QED
    BY <1>1, WheelInvariance, PTL

(* A timer runs at most once more than callbacks have raised.              *)
THEOREM RunsOncePerFailure == Spec => []OncePerFailure
  <1>1. WInv => OncePerFailure
    BY DEF WInv, RunsLow, OncePerFailure
  <1> QED
    BY <1>1, WheelInvariance, PTL

(* No turn, error or re-entrant call loses or doubles a timer that is      *)
(* still to run.                                                           *)
THEOREM PendingLiesInOneSlot == Spec => []PendingIsInOneSlot
  <1>1. WInv => PendingIsInOneSlot
    <2> SUFFICES ASSUME WInv, NEW n \in 1..Len(node), Pending(n)
                 PROVE  Cardinality({p \in Slot \X (1..MaxTimer) :
                          p[2] <= Len(slots[p[1]])
                            /\ slots[p[1]][p[2]] = n}) = 1
      BY DEF PendingIsInOneSlot
    <2> DEFINE P == {p \in Slot \X (1..MaxTimer) :
                       p[2] <= Len(slots[p[1]]) /\ slots[p[1]][p[2]] = n}
    <2>1. TypeOK /\ Apart
      BY DEF WInv, IInv
    <2>2. PICK j \in Slot : \E i \in Place(j) : slots[j][i] = n
      BY DEF WInv, Held
    <2>3. PICK i \in Place(j) : slots[j][i] = n
      BY <2>2
    <2>4. /\ Len(slots[j]) \in Nat /\ Len(node) \in Nat /\ MaxTimer \in Nat
          /\ Len(slots[j]) <= Len(node) /\ Len(node) <= MaxTimer
      BY <2>1, SlotTypes, BoundAssumption DEF WInv, Bounded, TypeOK
    <2>5. i \in 1..MaxTimer /\ i <= Len(slots[j])
      BY <2>4 DEF Place
    <2>6. <<j, i>> \in P
      BY <2>3, <2>5
    <2>7. ASSUME NEW p \in P
          PROVE  p = <<j, i>>
      <3>1. PICK k \in Slot, l \in 1..MaxTimer : p = <<k, l>>
        OBVIOUS
      <3>2. l <= Len(slots[k]) /\ slots[k][l] = n
        BY <3>1
      <3>3. l \in Place(k)
        BY <2>1, <2>4, <3>2, SlotTypes DEF Place
      <3>4. k = j /\ l = i
        BY <2>1, <2>3, <3>2, <3>3, ApartUse
      <3> QED
        BY <3>1, <3>4
    <2> HIDE DEF P
    <2>8. P = {<<j, i>>}
      BY <2>6, <2>7
    <2>9. Cardinality(P) = 1
      BY <2>8, FS_Singleton
    <2> QED
      BY <2>9 DEF P
  <1> QED
    BY <1>1, WheelInvariance, PTL
=============================================================================
