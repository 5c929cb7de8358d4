---------------------------- MODULE RuntimeTimer ----------------------------
(***************************************************************************)
(* The timer of the runtime (skynet-src/skynet_timer.c): a list for each   *)
(* tick of the near future, and coarser lists, by level, for what is       *)
(* further away, which are dealt out to finer ones as their time comes.    *)
(*                                                                         *)
(* The timer thread holds the lock except while it dispatches the list it  *)
(* has taken; workers add timers whenever the lock is free.  A timer is    *)
(* known by its name, which is used again once it has fired.  Delays of    *)
(* zero are answered without the timer and left out.                       *)
(***************************************************************************)
EXTENDS Integers, FiniteSets, SequencesExt

CONSTANTS
  Timer,     \* the timers there can be at a time
  Near,      \* TIME_NEAR: 2^8
  Level,     \* TIME_LEVEL: 2^6
  Levels,    \* the tables in t: 4
  Unit,      \* the ticks in a list of each level, and in all of them
  MaxDelay,  \* bound: the longest delay
  MaxDiff    \* bound: the ticks the thread has to catch up

Width == Unit[Levels]  \* of uint32_t time: 2^32

ASSUME LevelAssumption ==
  /\ Near \in Nat \ {0} /\ Level \in Nat \ {0, 1} /\ Levels \in Nat \ {0}
  /\ Unit \in [0..Levels -> Nat \ {0}] /\ Unit[0] = Near
  /\ \A i \in 1..Levels : Unit[i] = Unit[i - 1] * Level

(* A delay is an int, of one bit less than time. *)
ASSUME BoundAssumption ==
  MaxDelay \in Nat \ {0} /\ 2 * MaxDelay < Width /\ MaxDiff \in Nat \ {0}

VARIABLES
  time,     \* T->time
  lists,    \* T->near and T->t
  expire,   \* node->expire, of every timer
  pc,       \* where timer_update is: its first timer_execute, timer_shift
            \* (move), its second
  todo,     \* the updates left of this skynet_updatetime
  moving,   \* the list that move_list deals out
  firing,   \* the list being dispatched
  asked,    \* history: the timers that have not fired
  older,    \* history: of which two of them the first was set earlier
  ticks     \* history: the ticks until each is due

vars == <<time, lists, expire, pc, todo, moving, firing, asked, older, ticks>>

(* Level -1 is near, level i the table t[i]. *)
Slot == ({-1} \X (0..(Near - 1))) \cup ((0..(Levels - 1)) \X (0..(Level - 1)))

(* Every variable has its type. *)
TypeOK ==
  /\ time \in 0..(Width - 1)
  /\ lists \in [Slot -> Seq(Timer)]
  /\ expire \in [Timer -> 0..(Width - 1)]
  /\ pc \in {"sleep", "first", "move", "second"}
  /\ todo \in 0..MaxDiff
  /\ moving \in Seq(Timer)
  /\ firing \in Seq(Timer)
  /\ asked \subseteq Timer
  /\ older \subseteq asked \X asked
  /\ ticks \in [Timer -> 0..MaxDelay]

Init ==
  /\ time = 0 /\ pc = "sleep" /\ todo = 0
  /\ lists = [s \in Slot |-> <<>>]
  /\ expire = [t \in Timer |-> 0]
  /\ moving = <<>> /\ firing = <<>>
  /\ asked = {} /\ older = {}
  /\ ticks = [t \in Timer |-> 0]

-----------------------------------------------------------------------------
(* Where a node belongs.                                                   *)

Agree(x, now, i) == x \div Unit[i] = now \div Unit[i]
Digit(x, i) == (x \div Unit[i]) % Level

NearSlot(x) == <<-1, x % Near>>

(* add_node: near if only the low bits differ, else the lowest level whose *)
(* higher bits agree, the highest one if none does.                        *)
LevelOf(x, now) ==
  Min({i \in 0..(Levels - 2) : Agree(x, now, i + 1)} \cup {Levels - 1})
SlotOf(x, now) ==
  IF Agree(x, now, 0) THEN NearSlot(x)
  ELSE <<LevelOf(x, now), Digit(x, LevelOf(x, now))>>

(* link.  The mutant puts the node in front. *)
LinkFirst(q, t) == <<t>> \o q
Link(q, t) == Append(q, t)

(* The sum is unsigned.  The mutant's is not. *)
ExpireUnbounded(d) == time + d
ExpireAt(d) == (time + d) % Width

(* timer_shift: when all digits below it have become 0, the list of the    *)
(* next digit is dealt out.  The mutant overlooks the wrap of time.        *)
DealsNoWrap(ct) == ct % Near = 0 /\ ct # 0
Deals(ct) == ct % Near = 0
DealtLevel(ct) == Min({i \in 0..(Levels - 1) : Digit(ct, i) # 0})
Dealt(ct) ==
  IF ct = 0 THEN <<Levels - 1, 0>>
  ELSE <<DealtLevel(ct), Digit(ct, DealtLevel(ct))>>

-----------------------------------------------------------------------------
(* A worker: skynet_timeout and timer_add.                                 *)
SkynetTimeout(t, d) ==
  LET x == ExpireAt(d) IN
  /\ t \notin asked /\ pc # "move"
  /\ expire' = [expire EXCEPT ![t] = x]
  /\ lists' = [lists EXCEPT ![SlotOf(x, time)] = Link(@, t)]
  /\ asked' = asked \cup {t}
  /\ older' = older \cup (asked \X {t})
  /\ ticks' = [ticks EXCEPT ![t] = d]
  /\ UNCHANGED <<time, pc, todo, moving, firing>>

-----------------------------------------------------------------------------
(* The timer thread.                                                       *)

(* skynet_updatetime: the clock has moved on by diff ticks.                *)
UpdateTime(diff) ==
  /\ pc = "sleep"
  /\ pc' = "first" /\ todo' = diff
  /\ UNCHANGED <<time, lists, expire, moving, firing, asked, older, ticks>>

(* timer_execute takes the list of the current tick, until it is empty.    *)
Due == lists[NearSlot(time)] # <<>>
Execute ==
  /\ firing' = lists[NearSlot(time)]
  /\ lists' = [lists EXCEPT ![NearSlot(time)] = <<>>]
  /\ UNCHANGED <<time, expire, todo, moving, asked, older, ticks>>

(* The first timer_execute and timer_shift, which may unlink a list.       *)
TimerShift ==
  LET ct == (time + 1) % Width IN
  /\ pc = "first" /\ firing = <<>>
  /\ IF Due THEN Execute /\ UNCHANGED pc
     ELSE /\ time' = ct /\ pc' = "move"
          /\ ticks' = [t \in Timer |->
                       IF ticks[t] = 0 THEN 0 ELSE ticks[t] - 1]
          /\ IF Deals(ct)
             THEN /\ moving' = lists[Dealt(ct)]
                  /\ lists' = [lists EXCEPT ![Dealt(ct)] = <<>>]
             ELSE UNCHANGED <<moving, lists>>
          /\ UNCHANGED <<expire, todo, firing, asked, older>>

(* The loop of move_list, under the lock. *)
MoveNode ==
  LET s == SlotOf(expire[Head(moving)], time) IN
  /\ pc = "move" /\ moving # <<>>
  /\ lists' = [lists EXCEPT ![s] = Link(@, Head(moving))]
  /\ moving' = Tail(moving)
  /\ UNCHANGED <<time, expire, pc, todo, firing, asked, older, ticks>>

(* The second timer_execute starts without giving up the lock. *)
SecondExecute ==
  /\ pc = "move" /\ moving = <<>>
  /\ pc' = "second" /\ Execute

EndUpdate ==
  /\ pc = "second" /\ firing = <<>>
  /\ IF Due THEN Execute /\ UNCHANGED pc
     ELSE /\ todo' = todo - 1
          /\ pc' = IF todo = 1 THEN "sleep" ELSE "first"
          /\ UNCHANGED <<time, lists, expire, moving, firing, asked, older,
                         ticks>>

(* dispatch_list, without the lock: the next service is sent its answer.   *)
Dispatch ==
  LET t == Head(firing) IN
  /\ firing # <<>>
  /\ firing' = Tail(firing)
  /\ asked' = asked \ {t}
  /\ older' = {p \in older : p[1] # t /\ p[2] # t}
  /\ UNCHANGED <<time, lists, expire, pc, todo, moving, ticks>>

Next ==
  \/ \E t \in Timer, d \in 1..MaxDelay : SkynetTimeout(t, d)
  \/ \E diff \in 1..MaxDiff : UpdateTime(diff)
  \/ TimerShift \/ MoveNode \/ SecondExecute
  \/ EndUpdate \/ Dispatch

Spec == Init /\ [][Next]_vars

-----------------------------------------------------------------------------
(* Properties.                                                             *)

(* A timer fires in the update of the tick it is due, after exactly the    *)
(* number of ticks it was set for: whatever lists it went through, across  *)
(* a wrap of time, and though others are added while a list is dispatched. *)
OnTime ==
  pc # "move" =>
    \A t \in asked : ticks[t] = 0 <=> t \in ToSet(firing)

(* Timers due in the same tick fire in the order in which they were set,   *)
(* though those set long before came by way of other lists.                *)
InOrder ==
  \A i, j \in DOMAIN firing : i < j => <<firing[i], firing[j]>> \in older
=============================================================================
