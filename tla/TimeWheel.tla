----------------------------- MODULE TimeWheel -----------------------------
(***************************************************************************)
(* The timing wheel of the game service: lualib/timewheel.lua, turned by   *)
(* the "tick" messages of service/srv_game.lua.                            *)
(*                                                                         *)
(* A timer is the index of its node; nodes are numbered in the order       *)
(* add_timer creates them.  A callback runs inside tick_once and may       *)
(* itself add and cancel timers, or raise an error, which the xpcall       *)
(* around the body of the tick handler catches.  The handlers of srv_game  *)
(* do not yield (srv_game.lua:1), so nothing else runs during a tick.      *)
(***************************************************************************)
EXTENDS Integers, Sequences, FiniteSets

CONSTANTS
  N,          \* slotscount
  Interval,   \* tickinterval, in the unit of the clock
  Start,      \* starttime
  Name,       \* names of timers
  Reach,      \* the longest delay asked for
  MaxTimer,   \* bound: timers ever added
  MaxTime,    \* bound: the clock
  MaxRaise    \* bound: callbacks that raise

ASSUME WheelAssumption ==
  /\ N \in Nat \ {0}
  /\ Interval \in Nat \ {0}
  /\ Start \in Int
\* A node has no count of rounds: a delay of a whole turn would come early.
ASSUME ReachAssumption == Reach \in Nat /\ Reach < (N - 1) * Interval
ASSUME BoundAssumption ==
  /\ MaxTimer \in Nat /\ MaxTime \in Int /\ MaxRaise \in Nat
  /\ Start <= MaxTime

VARIABLES
  slots,        \* the nodes of each slot
  currentslot,  \* the slot the next tick_once executes
  ticktime,     \* the time of that slot
  name2node,    \* the node a name maps to, 0 for none
  node,         \* every node ever made; born and runs are history
  upto,         \* now, the argument of the last tick2now
  pos,          \* index of ipairs in tick_once, 0 outside of it
  calling,      \* the node whose callback is running, 0 for none
  raised        \* callbacks that raised so far

wheelVars == <<slots, currentslot, ticktime, name2node, node>>
tickVars  == <<upto, pos, calling, raised>>
vars == <<wheelVars, tickVars>>

Slot == 1..N
Node == [name : Name, time : Int, canceled : BOOLEAN, born : Int, runs : Nat]

TypeOK ==
  /\ slots \in [Slot -> Seq(Nat)]
  /\ currentslot \in Slot
  /\ ticktime \in Int
  /\ node \in Seq(Node)
  /\ name2node \in [Name -> Nat]
  /\ \A m \in Name : name2node[m] <= Len(node)
  /\ \A j \in Slot : \A i \in 1..Len(slots[j]) : slots[j][i] \in 1..Len(node)
  /\ upto \in Int
  /\ pos \in Nat /\ calling \in Nat /\ raised \in Nat

Init ==
  /\ slots = [j \in Slot |-> <<>>]
  /\ currentslot = 1
  /\ ticktime = Start
  /\ name2node = [m \in Name |-> 0]
  /\ node = <<>>
  /\ upto = Start - 1
  /\ pos = 0
  /\ calling = 0
  /\ raised = 0

-----------------------------------------------------------------------------
(* add_timer and cancel_timer, called by a handler between two ticks or by *)
(* a callback.                                                             *)

MayCall == pos = 0 \/ calling # 0

(* Mutants of TargetSlot: a place too near, a place too far.               *)
TargetNoCarry(delay) == ((currentslot + (delay \div Interval) - 1) % N) + 1
TargetNextSlot(delay) == ((currentslot + (delay \div Interval) + 1) % N) + 1
(* The slot add_timer chooses.                                             *)
TargetSlot(delay) == ((currentslot + (delay \div Interval)) % N) + 1

AddTimer(m, time) ==
  LET delay  == IF time < ticktime THEN 0 ELSE time - ticktime
      target == TargetSlot(delay)
      n      == Len(node) + 1
  IN /\ MayCall /\ Len(node) < MaxTimer
     /\ node' = Append(node, [name |-> m, time |-> time, canceled |-> FALSE,
                              born |-> ticktime, runs |-> 0])
     /\ slots' = [slots EXCEPT ![target] = Append(@, n)]
     /\ name2node' = [name2node EXCEPT ![m] = n]
     /\ UNCHANGED <<currentslot, ticktime, tickVars>>

(* Mutant of CancelTimer: only the name is forgotten.                      *)
CancelForgets(m) ==
  /\ MayCall /\ name2node[m] # 0
  /\ name2node' = [name2node EXCEPT ![m] = 0]
  /\ UNCHANGED <<slots, node, currentslot, ticktime, tickVars>>

CancelTimer(m) ==
  /\ MayCall /\ name2node[m] # 0
  /\ node' = [node EXCEPT ![name2node[m]].canceled = TRUE]
  /\ name2node' = [name2node EXCEPT ![m] = 0]
  /\ UNCHANGED <<slots, currentslot, ticktime, tickVars>>

-----------------------------------------------------------------------------
(* tick2now and tick_once.                                                 *)

(* The handler of "tick" reads now from a clock that does not run back,    *)
(* and tick2now enters its loop unless ticktime is already past now.       *)
Tick(now) ==
  /\ pos = 0
  /\ upto' = now
  /\ pos' = IF ticktime <= now THEN 1 ELSE 0
  /\ UNCHANGED <<wheelVars, calling, raised>>

Looking == pos # 0 /\ calling = 0
AtEnd   == pos > Len(slots[currentslot])
Here    == slots[currentslot][pos]

Call ==
  /\ Looking /\ ~AtEnd /\ ~node[Here].canceled
  /\ calling' = Here
  /\ node' = [node EXCEPT ![Here].runs = @ + 1]
  /\ UNCHANGED <<slots, currentslot, ticktime, name2node, upto, pos, raised>>

Skip ==
  /\ Looking /\ ~AtEnd /\ node[Here].canceled
  /\ pos' = pos + 1
  /\ UNCHANGED <<wheelVars, upto, calling, raised>>

Return ==
  /\ calling # 0
  /\ calling' = 0
  /\ pos' = pos + 1
  /\ UNCHANGED <<wheelVars, upto, raised>>

(* The error leaves tick_once and tick2now: the slot is not cleared and    *)
(* the wheel does not move.                                                *)
Raise ==
  /\ calling # 0 /\ raised < MaxRaise
  /\ raised' = raised + 1
  /\ calling' = 0
  /\ pos' = 0
  /\ UNCHANGED <<wheelVars, upto>>

(* Mutant of Following: the wheel does not wrap round.                     *)
FollowingUnbounded(j) == j + 1
Following(j) == (j % N) + 1

(* Mutants of Advance: the slot is not cleared, or the wrong one is.       *)
AdvanceUncleared ==
  /\ Looking /\ AtEnd
  /\ currentslot' = Following(currentslot)
  /\ ticktime' = ticktime + Interval
  /\ pos' = IF ticktime + Interval <= upto THEN 1 ELSE 0
  /\ UNCHANGED <<slots, name2node, node, upto, calling, raised>>

AdvanceThenClear ==
  /\ Looking /\ AtEnd
  /\ currentslot' = Following(currentslot)
  /\ slots' = [slots EXCEPT ![Following(currentslot)] = <<>>]
  /\ ticktime' = ticktime + Interval
  /\ pos' = IF ticktime + Interval <= upto THEN 1 ELSE 0
  /\ UNCHANGED <<name2node, node, upto, calling, raised>>

(* The end of tick_once, and the test of the loop in tick2now.             *)
Advance ==
  /\ Looking /\ AtEnd
  /\ slots' = [slots EXCEPT ![currentslot] = <<>>]
  /\ currentslot' = Following(currentslot)
  /\ ticktime' = ticktime + Interval
  /\ pos' = IF ticktime + Interval <= upto THEN 1 ELSE 0
  /\ UNCHANGED <<name2node, node, upto, calling, raised>>

Next ==
  \/ \E m \in Name :
       \/ \E time \in (ticktime - 1)..(ticktime + Reach) : AddTimer(m, time)
       \/ CancelTimer(m)
  \/ \E now \in upto..MaxTime : Tick(now)
  \/ Call \/ Skip \/ Return \/ Raise \/ Advance

Spec == Init /\ [][Next]_vars

-----------------------------------------------------------------------------
(* Properties.                                                             *)

In(n, j) == \E i \in 1..Len(slots[j]) : slots[j][i] = n
Pending(n) == node[n].runs = 0 /\ ~node[n].canceled

(* A callback never runs before the target time of its timer, however the  *)
(* slot was computed, whoever added it and however often the wheel has     *)
(* turned since (add_timer, tick_once).                                    *)
NotEarly == calling # 0 => node[calling].time <= ticktime

(* Once a tick has caught up with its now, no timer is left that should    *)
(* have run an interval earlier, counting from its target time or from     *)
(* when it was added, whichever is later (tick2now).  A tick that ended    *)
(* with an error has not caught up.                                        *)
NotLate ==
  (pos = 0 /\ ticktime > upto) =>
    \A n \in 1..Len(node) :
      Pending(n) => \/ node[n].time > upto - Interval
                    \/ node[n].born > upto - Interval

(* A timer runs once; it runs again only if a callback of its slot raised  *)
(* and the next tick repeats the slot, and then once for each such error   *)
(* (tick_once clears a slot only at its end).                              *)
OncePerFailure == \A n \in 1..Len(node) : node[n].runs <= 1 + raised

(* A timer that is still to run lies in exactly one slot, at one place:    *)
(* no turn of the wheel, error or re-entrant call loses or doubles it.     *)
PendingIsInOneSlot ==
  \A n \in 1..Len(node) : Pending(n) =>
    Cardinality({p \in Slot \X (1..MaxTimer) :
                   p[2] <= Len(slots[p[1]]) /\ slots[p[1]][p[2]] = n}) = 1

(* cancel_timer reaches every timer that may still run: a pending timer is *)
(* the one its name maps to, unless a later add_timer took the name.       *)
CancelReaches ==
  \A n \in 1..Len(node) : Pending(n) =>
    \/ name2node[node[n].name] = n
    \/ \E k \in (n + 1)..Len(node) : node[k].name = node[n].name
=============================================================================
