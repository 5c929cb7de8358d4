--------------------------- MODULE MCSocketServer ---------------------------
(***************************************************************************)
(* Instances of SocketServer.tla for TLC.                                  *)
(***************************************************************************)
EXTENDS SocketServer, TLC

CONSTANTS c1, c2

Callers == Permutations({c1, c2})

(* A server that has given out one id: what follows shares the other of    *)
(* two slots until socket 1 is closed.                                     *)
HasOne(type, words) ==
  /\ alloc = 1
  /\ sock = [s \in Slot |->
       IF s = SlotOf(1)
       THEN [Free EXCEPT !.type = type, !.id = 1, !.tcp = TRUE,
                         !.reading = TRUE, !.tag = 1]
       ELSE Free]
  /\ known = {1}
  /\ told = [i \in Id |-> IF i = 1 THEN words ELSE <<>>]
  /\ pipe = <<>> /\ ev = <<>> /\ ctl = "check"
  /\ fc = [slot |-> 0, tell |-> FALSE, word |-> "close", back |-> "check"]
  /\ wire = [i \in Id |-> <<>>] /\ peer = [i \in Id |-> "up"]
  /\ cut = {} /\ failed = FALSE
  /\ calls = 1

(* It listens on socket 1; connections come by themselves.                 *)
Listening ==
  /\ HasOne("LISTEN", <<"open", "open">>)
  /\ call = [c \in Caller |-> NoCall] /\ sends = <<>>

(* It is connected, and a worker may write its first message directly.     *)
Sending ==
  /\ HasOne("CONNECTED", <<"open">>)
  /\ \E c \in Caller :
       /\ sends = <<[by |-> c, to |-> 1, low |-> FALSE]>>
       /\ call = [d \in Caller |->
            IF d = c THEN [step |-> "direct", cmd |-> "send", id |-> 1,
                           msg |-> 1, n |-> 0]
            ELSE NoCall]

(* The same before any message; the first may be of low priority.          *)
Connected ==
  /\ HasOne("CONNECTED", <<"open">>)
  /\ call = [c \in Caller |-> NoCall] /\ sends = <<>>

MCSpec ==
  (Init \/ Listening \/ Connected \/ Sending) /\ [][Next]_vars
=============================================================================
