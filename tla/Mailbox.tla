------------------------------ MODULE Mailbox -------------------------------
(***************************************************************************)
(* What the scheduler of skynet promises, without threads, locks or        *)
(* reference counts: a service is a mailbox that is emptied one message at *)
(* a time, in order, by one callback at a time, until it is closed; a      *)
(* closed mailbox takes no message and gives up the ones it holds.         *)
(***************************************************************************)
EXTENDS Integers, Sequences

CONSTANTS Service, \* the services that may ever exist
          Boot,    \* those there at the start
          Message  \* messages: non-zero integers

VARIABLES state,   \* "none", "init", "open" or "closed"
          mailbox, \* messages waiting
          busy     \* the message a service is handling, 0 for none

vars == <<state, mailbox, busy>>

Init ==
  /\ state = [s \in Service |-> IF s \in Boot THEN "open" ELSE "none"]
  /\ mailbox \in [Service -> {<<>>, <<1>>}]
  /\ busy = [s \in Service |-> 0]

Create(s) ==
  /\ state[s] = "none"
  /\ state' = [state EXCEPT ![s] = "init"]
  /\ UNCHANGED <<mailbox, busy>>

Open(s) ==
  /\ state[s] = "init"
  /\ state' = [state EXCEPT ![s] = "open"]
  /\ UNCHANGED <<mailbox, busy>>

(* A service is closed between two messages, never under a callback. *)
Close(s) ==
  /\ state[s] \in {"init", "open"}
  /\ busy[s] = 0
  /\ state' = [state EXCEPT ![s] = "closed"]
  /\ UNCHANGED <<mailbox, busy>>

Deliver(s, m) ==
  /\ state[s] \in {"init", "open"}
  /\ mailbox' = [mailbox EXCEPT ![s] = Append(@, m)]
  /\ UNCHANGED <<state, busy>>

Begin(s) ==
  /\ state[s] = "open"
  /\ busy[s] = 0
  /\ mailbox[s] # <<>>
  /\ busy' = [busy EXCEPT ![s] = Head(mailbox[s])]
  /\ mailbox' = [mailbox EXCEPT ![s] = Tail(@)]
  /\ UNCHANGED state

End(s) ==
  /\ busy[s] # 0
  /\ busy' = [busy EXCEPT ![s] = 0]
  /\ UNCHANGED <<state, mailbox>>

Discard(s) ==
  /\ state[s] = "closed"
  /\ mailbox[s] # <<>>
  /\ mailbox' = [mailbox EXCEPT ![s] = Tail(@)]
  /\ UNCHANGED <<state, busy>>

Next ==
  \E s \in Service :
    \/ Create(s) \/ Open(s) \/ Close(s) \/ Begin(s) \/ End(s) \/ Discard(s)
    \/ \E m \in Message : Deliver(s, m)

Spec == Init /\ [][Next]_vars
=============================================================================
