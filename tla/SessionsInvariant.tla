------------------------- MODULE SessionsInvariant --------------------------
(***************************************************************************)
(* The inductive invariant of Sessions.tla.                                *)
(***************************************************************************)
EXTENDS Sessions

(* What lies in a mailbox: requests, answers to requests or to sleeps, and *)
(* the notices of services that are down.                                  *)
IsAnswer(m) == m.kind \in {"response", "error"}
Answers(q) ==
  {n \in Session : \E i \in DOMAIN q : IsAnswer(q[i]) /\ q[i].session = n}
(* A session is asked for once in a mailbox and answered once, and a       *)
(* notice is the end of what its sender says.                              *)
Orderly(q) ==
  /\ \A i, j \in DOMAIN q :
       /\ q[i].session = q[j].session
       /\ \/ q[i].kind = "request" /\ q[j].kind = "request"
          \/ IsAnswer(q[i]) /\ IsAnswer(q[j])
       => i = j
  /\ \A i, j \in DOMAIN q :
       i < j /\ q[i].kind = "notice" /\ q[i].from = q[j].from =>
         q[j].kind = "notice"

(* A message is of the services its session is of.                         *)
Addressed(m, s) ==
  \/ /\ m.kind = "request" /\ m.session \in DOMAIN calls
     /\ calls[m.session] = [by |-> m.from, to |-> s]
  \/ /\ IsAnswer(m) /\ m.session \in DOMAIN calls
     /\ calls[m.session] = [by |-> s, to |-> m.from]
  \/ m.kind = "notice" /\ m.from \in Service \ up

MailInv ==
  \A s \in Service :
    /\ Orderly(mbox[s])
    /\ \A i \in DOMAIN mbox[s] : Addressed(mbox[s][i], s)

(* A coroutine runs or none does; a service that has exited has nothing;   *)
(* failed calls wait in error_queue only while the chain that resumes them *)
(* goes on, or an empty coroutine is forked to take it up.                 *)
PhaseInv(s) ==
  /\ phase[s] = "run" <=> run[s] # NoCo
  /\ s \notin up =>
       /\ phase[s] = "idle" /\ DOMAIN wait[s] = {} /\ watching[s] = {}
       /\ unresponse[s] = {} /\ errorq[s] = <<>> /\ token[s] = 0
  /\ phase[s] = "idle" => errorq[s] = <<>>
  /\ phase[s] = "forks" => errorq[s] = <<>> \/ Blank \in ToSet(forkq[s])

(* What a service serves was asked of it, what it waits for it has asked.  *)
TableInv(s) ==
  /\ \A n \in Owed(s) : n \in DOMAIN calls /\ calls[n].to = s
  /\ \A n \in DOMAIN wait[s] : n \in DOMAIN calls /\ calls[n].by = s
  /\ \A n \in watching[s] : n \in DOMAIN calls /\ calls[n].to \in Service
  /\ token[s] # 0 => token[s] \in DOMAIN calls /\ calls[token[s]].to = Timer

(* One coroutine serves a request, or its answer is left to others.        *)
ServedInv(s) ==
  /\ \A k \in DOMAIN wait[s] : wait[s][k] \in Session =>
       /\ wait[s][k] \notin unresponse[s] /\ wait[s][k] # run[s]
       /\ \A j \in DOMAIN wait[s] : wait[s][j] = wait[s][k] => j = k
  /\ run[s] \notin unresponse[s]

(* What can be resumed yields, and will be resumed once.                   *)
ResumeInv(s) ==
  /\ \A n \in watching[s] : n \in DOMAIN wait[s] /\ wait[s][n] # Break
  /\ ToSet(errorq[s]) \subseteq watching[s] /\ IsInjective(errorq[s])
  /\ token[s] # 0 => token[s] \in DOMAIN wait[s] /\ wait[s][token[s]] # Break

OwnInv(s) == PhaseInv(s) /\ TableInv(s) /\ ServedInv(s) /\ ResumeInv(s)

TimersInv == \A n \in timers : n \in DOMAIN calls /\ calls[n].to = Timer

(* A request is on its way, or served, or answered, or has failed: one of  *)
(* them; and while it is to come to an end its caller waits for it.        *)
Asked(s) == Requests(mbox[s])
Answered(s) == Answers(mbox[s])
Failed(s) == ToSet(errorq[s])
Pending(s) == Asked(s) \cup Owed(s)

OnceInv ==
  /\ \A s \in Service : Asked(s) \cap Owed(s) = {}
  /\ \A s, t \in Service : t \in up =>
       Pending(t) \cap (Answered(s) \cup Failed(s)) = {}
  /\ \A s \in Service : Answered(s) \cap (Failed(s) \cup timers) = {}

WaitInv ==
  \A s \in up :
    /\ \A n \in timers : calls[n].by = s => n \in DOMAIN wait[s]
    /\ \A t \in up : \A n \in Pending(t) : calls[n].by = s => n \in watching[s]
    /\ \A n \in Answered(s) :
         n \in DOMAIN wait[s] /\ (calls[n].to = Timer \/ n \in watching[s])

(* Only a worker that takes several messages a turn keeps a rest of them.  *)
TurnInv == Batch \/ \A s \in Service : left[s] = 0

SInv ==
  /\ TablesType /\ MailInv /\ TimersInv /\ OnceInv /\ WaitInv /\ TurnInv
  /\ \A s \in Service : OwnInv(s)

(* Where to find a call that is waited for: its request with the other, or *)
(* its answer; if it was made by handle, in the mailbox of one that has    *)
(* exited, or the notice; if by name, among the requests not read.         *)
AccountInv ==
  \A s \in up : \A n \in watching[s] :
    LET t == calls[n].to IN
    \/ t \in up /\ n \in Pending(t)
    \/ n \in Answered(s) \cup Failed(s)
    \/ IF n \in named THEN n \in stranded
       ELSE \/ t \notin up /\ \E m \in ToSet(mbox[t]) : m.from = s
            \/ \E m \in ToSet(mbox[s]) : m.kind = "notice" /\ m.from = t
=============================================================================
