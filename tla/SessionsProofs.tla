--------------------------- MODULE SessionsProofs ---------------------------
(***************************************************************************)
(* Calls between Lua services are accounted for, with any number of        *)
(* services and of sessions: SInv is an invariant of Sessions.tla.         *)
(***************************************************************************)
EXTENDS SessionsInvariant, FiniteSetTheorems, TLAPS

-----------------------------------------------------------------------------
(* Mailboxes.                                                              *)

(* The head of a mailbox is taken from one of its sets, and after a notice *)
(* nothing but notices comes from its sender.                              *)
LEMMA TailOfMail ==
  ASSUME NEW q \in Seq(Message), q # <<>>, Orderly(q), NEW m, m = Head(q)
  PROVE  /\ m \in Message /\ Tail(q) \in Seq(Message)
         /\ Orderly(Tail(q))
         /\ Requests(Tail(q)) =
              Requests(q) \ (IF m.kind = "request" THEN {m.session} ELSE {})
         /\ Answers(Tail(q)) =
              Answers(q) \ (IF IsAnswer(m) THEN {m.session} ELSE {})
         /\ m.kind = "request" /\ m.session \in Session =>
              m.session \in Requests(q)
         /\ IsAnswer(m) /\ m.session \in Session => m.session \in Answers(q)
         /\ ToSet(q) = ToSet(Tail(q)) \cup {m}
         /\ m.kind = "notice" =>
              \A x \in ToSet(q) : x.from = m.from => x.kind = "notice"
  <1>1. /\ m = q[1] /\ m \in Message /\ Tail(q) \in Seq(Message)
        /\ 1 \in DOMAIN q
        /\ DOMAIN q = 1..Len(q) /\ Len(q) \in Nat \ {0}
        /\ DOMAIN Tail(q) = 1..(Len(q) - 1)
        /\ \A i \in DOMAIN Tail(q) :
             i + 1 \in DOMAIN q /\ Tail(q)[i] = q[i + 1]
        /\ \A i \in DOMAIN q \ {1} : i - 1 \in DOMAIN Tail(q)
    OBVIOUS
  <1>2. \A i \in DOMAIN q \ {1} : Tail(q)[i - 1] = q[i]
    BY <1>1
  <1>3. Orderly(Tail(q))
    <2>1. \A i, j \in DOMAIN Tail(q) : i < j <=> i + 1 < j + 1
      BY <1>1
    <2>2. \A i, j \in DOMAIN Tail(q) : i + 1 = j + 1 => i = j
      BY <1>1
    <2> QED
      BY <1>1, <2>1, <2>2 DEF Orderly
  <1>4. ToSet(q) = ToSet(Tail(q)) \cup {m}
    BY <1>1, <1>2 DEF ToSet
  <1>5. Requests(Tail(q)) =
          Requests(q) \ (IF m.kind = "request" THEN {m.session} ELSE {})
    <2>1. ASSUME NEW n \in Requests(Tail(q))
          PROVE  /\ n \in Requests(q)
                 /\ m.kind = "request" => n # m.session
      <3>1. PICK i \in DOMAIN Tail(q) : Tail(q)[i].kind = "request"
                                        /\ Tail(q)[i].session = n
        BY DEF Requests
      <3>2. q[i + 1].kind = "request" /\ q[i + 1].session = n
            /\ i + 1 \in DOMAIN q /\ i + 1 # 1 /\ n \in Session
        BY <1>1, <3>1 DEF Requests
      <3> QED
        BY <1>1, <3>2 DEF Orderly, Requests
    <2>2. ASSUME NEW n \in Requests(q), m.kind = "request" => n # m.session
          PROVE  n \in Requests(Tail(q))
      <3>1. PICK i \in DOMAIN q : q[i].kind = "request" /\ q[i].session = n
        BY DEF Requests
      <3>2. i # 1
        BY <1>1, <2>2, <3>1
      <3> QED
        BY <1>1, <1>2, <3>1, <3>2 DEF Requests
    <2> QED
      BY <2>1, <2>2
  <1>6. Answers(Tail(q)) =
          Answers(q) \ (IF IsAnswer(m) THEN {m.session} ELSE {})
    <2>1. ASSUME NEW n \in Answers(Tail(q))
          PROVE  n \in Answers(q) /\ (IsAnswer(m) => n # m.session)
      <3>1. PICK i \in DOMAIN Tail(q) : IsAnswer(Tail(q)[i])
                                        /\ Tail(q)[i].session = n
        BY DEF Answers
      <3>2. IsAnswer(q[i + 1]) /\ q[i + 1].session = n
            /\ i + 1 \in DOMAIN q /\ i + 1 # 1 /\ n \in Session
        BY <1>1, <3>1 DEF Answers
      <3> QED
        BY <1>1, <3>2 DEF Orderly, Answers
    <2>2. ASSUME NEW n \in Answers(q), IsAnswer(m) => n # m.session
          PROVE  n \in Answers(Tail(q))
      <3>1. PICK i \in DOMAIN q : IsAnswer(q[i]) /\ q[i].session = n
        BY DEF Answers
      <3>2. i # 1
        BY <1>1, <2>2, <3>1
      <3> QED
        BY <1>1, <1>2, <3>1, <3>2 DEF Answers
    <2> QED
      BY <2>1, <2>2
  <1>7. m.kind = "notice" =>
          \A x \in ToSet(q) : x.from = m.from => x.kind = "notice"
    <2>1. ASSUME NEW i \in DOMAIN q
          PROVE  i = 1 \/ 1 < i
      BY <1>1
    <2> QED
      BY <1>1, <2>1 DEF Orderly, ToSet
  <1> QED
    BY <1>1, <1>3, <1>4, <1>5, <1>6, <1>7 DEF Requests, Answers

LEMMA AddedLast ==
  ASSUME NEW S, NEW q \in Seq(S), NEW x \in S
  PROVE  Append(q, x) = q \o <<x>>
  OBVIOUS

(* A mailbox to which messages are added that are new to it.               *)
LEMMA ConcatOfMail ==
  ASSUME NEW q \in Seq(Message), NEW r \in Seq(Message),
         Orderly(q), Orderly(r),
         \A x \in ToSet(r) : x.kind # "notice" => x.session \in Session,
         Requests(q) \cap Requests(r) = {}, Answers(q) \cap Answers(r) = {},
         \A x \in ToSet(q), y \in ToSet(r) :
           x.kind = "notice" /\ x.from = y.from => y.kind = "notice"
  PROVE  /\ q \o r \in Seq(Message) /\ Orderly(q \o r)
         /\ Requests(q \o r) = Requests(q) \cup Requests(r)
         /\ Answers(q \o r) = Answers(q) \cup Answers(r)
         /\ ToSet(q \o r) = ToSet(q) \cup ToSet(r)
  <1> DEFINE p == q \o r
             k == Len(q)
             l == Len(r)
  <1>1. /\ p \in Seq(Message) /\ k \in Nat /\ l \in Nat
        /\ DOMAIN q = 1..k /\ DOMAIN r = 1..l /\ DOMAIN p = 1..(k + l)
        /\ \A i \in DOMAIN q : p[i] = q[i] /\ i \in DOMAIN p
        /\ \A i \in DOMAIN r : p[i + k] = r[i] /\ i + k \in DOMAIN p
        /\ \A i \in DOMAIN p : i \in DOMAIN q
                               \/ (i - k \in DOMAIN r /\ p[i] = r[i - k]
                                   /\ i > k)
    OBVIOUS
  <1> HIDE DEF p, k, l
  <1>2. Requests(p) = Requests(q) \cup Requests(r)
    <2>1. \A n \in Requests(p) : n \in Requests(q) \/ n \in Requests(r)
      BY <1>1 DEF Requests
    <2>2. \A n \in Requests(q) : n \in Requests(p)
      BY <1>1 DEF Requests
    <2>3. \A n \in Requests(r) : n \in Requests(p)
      BY <1>1 DEF Requests
    <2> QED
      BY <2>1, <2>2, <2>3
  <1>3. Answers(p) = Answers(q) \cup Answers(r)
    <2>1. \A n \in Answers(p) : n \in Answers(q) \/ n \in Answers(r)
      BY <1>1 DEF Answers
    <2>2. \A n \in Answers(q) : n \in Answers(p)
      BY <1>1 DEF Answers
    <2>3. \A n \in Answers(r) : n \in Answers(p)
      BY <1>1 DEF Answers
    <2> QED
      BY <2>1, <2>2, <2>3
  <1>4. ToSet(p) = ToSet(q) \cup ToSet(r)
    <2>1. \A x \in ToSet(p) : x \in ToSet(q) \/ x \in ToSet(r)
      BY <1>1 DEF ToSet
    <2>2. \A x \in ToSet(q) : x \in ToSet(p)
      BY <1>1 DEF ToSet
    <2>3. \A x \in ToSet(r) : x \in ToSet(p)
      BY <1>1 DEF ToSet
    <2> QED
      BY <2>1, <2>2, <2>3
  <1>5. ASSUME NEW i \in DOMAIN p, NEW j \in DOMAIN p, i < j,
               p[i].kind = "notice", p[i].from = p[j].from
        PROVE  p[j].kind = "notice"
    <2>1. CASE j \in DOMAIN q
      <3>1. i \in DOMAIN q
        BY <1>1, <1>5, <2>1
      <3> QED
        BY <1>1, <1>5, <2>1, <3>1 DEF Orderly
    <2>2. CASE i \in DOMAIN q /\ j \notin DOMAIN q
      <3>1. q[i] \in ToSet(q) /\ r[j - k] \in ToSet(r)
        BY <1>1, <2>2 DEF ToSet
      <3>2. p[i] = q[i] /\ p[j] = r[j - k]
        BY <1>1, <2>2
      <3> QED
        BY <1>5, <3>1, <3>2
    <2>3. CASE i \notin DOMAIN q /\ j \notin DOMAIN q
      <3>1. /\ i - k \in DOMAIN r /\ j - k \in DOMAIN r /\ i - k < j - k
            /\ p[i] = r[i - k] /\ p[j] = r[j - k]
        BY <1>1, <1>5, <2>3
      <3> QED
        BY <1>5, <3>1 DEF Orderly
    <2> QED
      BY <2>1, <2>2, <2>3
  <1>6. ASSUME NEW i \in DOMAIN p, NEW j \in DOMAIN p,
               p[i].session = p[j].session,
               \/ p[i].kind = "request" /\ p[j].kind = "request"
               \/ IsAnswer(p[i]) /\ IsAnswer(p[j])
        PROVE  i = j
    <2>1. CASE i \in DOMAIN q /\ j \in DOMAIN q
      BY <1>1, <1>6, <2>1 DEF Orderly
    <2>2. CASE i \notin DOMAIN q /\ j \notin DOMAIN q
      <3>1. /\ i - k \in DOMAIN r /\ j - k \in DOMAIN r
            /\ p[i] = r[i - k] /\ p[j] = r[j - k]
        BY <1>1, <2>2
      <3>2. i - k = j - k
        BY <1>6, <3>1 DEF Orderly
      <3> QED
        BY <1>1, <3>2
    <2>3. ASSUME NEW x \in DOMAIN q, NEW y \in DOMAIN p, y \notin DOMAIN q,
                 p[x].session = p[y].session,
                 \/ p[x].kind = "request" /\ p[y].kind = "request"
                 \/ IsAnswer(p[x]) /\ IsAnswer(p[y])
          PROVE  FALSE
      <3>1. y - k \in DOMAIN r /\ p[y] = r[y - k] /\ p[x] = q[x]
        BY <1>1, <2>3
      <3>2. r[y - k].session \in Session
        BY <2>3, <3>1 DEF ToSet, IsAnswer
      <3> QED
        BY <2>3, <3>1, <3>2 DEF Requests, Answers
    <2> QED
      BY <1>6, <2>1, <2>2, <2>3
  <1>7. Orderly(p)
    BY <1>5, <1>6 DEF Orderly
  <1> QED
    BY <1>1, <1>2, <1>3, <1>4, <1>7 DEF p

LEMMA OneMessage ==
  ASSUME NEW m \in Message
  PROVE  /\ <<m>> \in Seq(Message) /\ Orderly(<<m>>) /\ ToSet(<<m>>) = {m}
         /\ m.kind # "request" => Requests(<<m>>) = {}
         /\ m.kind = "request" => Requests(<<m>>) = {m.session} \cap Session
         /\ ~IsAnswer(m) => Answers(<<m>>) = {}
         /\ IsAnswer(m) => Answers(<<m>>) = {m.session} \cap Session
  <1>1. DOMAIN <<m>> = {1} /\ <<m>>[1] = m /\ <<m>> \in Seq(Message)
    OBVIOUS
  <1>2. ToSet(<<m>>) = {m} /\ Orderly(<<m>>)
    BY <1>1 DEF ToSet, Orderly
  <1> QED
    BY <1>1, <1>2 DEF Requests, Answers

(* The mailbox of s loses its head m.                                      *)
Takes(s, m) ==
  /\ m \in Message /\ Addressed(m, s)
  /\ \A u \in Service \ {s} : mbox'[u] = mbox[u]
  /\ mbox'[s] \in Seq(Message)
  /\ m.kind = "request" => m.session \in Asked(s)
  /\ IsAnswer(m) => m.session \in Answered(s)
  /\ Asked(s)' = Asked(s) \ (IF m.kind = "request" THEN {m.session} ELSE {})
  /\ Answered(s)' = Answered(s) \ (IF IsAnswer(m) THEN {m.session} ELSE {})
  /\ ToSet(mbox[s]) = ToSet(mbox[s])' \cup {m}
  /\ m.kind = "notice" => \A n \in Answered(s) : calls[n].to # m.from

LEMMA AddressedSession ==
  ASSUME BoundAssumption, TablesType, NEW m, NEW s, Addressed(m, s),
         m.kind # "notice"
  PROVE  m.session \in Session
  <1>1. Len(calls) \in Nat /\ DOMAIN calls = 1..Len(calls)
        /\ Len(calls) <= MaxSession
    BY DEF TablesType
  <1>2. m.session \in DOMAIN calls
    BY DEF Addressed
  <1> QED
    BY <1>1, <1>2, BoundAssumption DEF Session

LEMMA TakeEffect ==
  ASSUME BoundAssumption, TablesType, MailInv, NEW s \in Service,
         mbox[s] # <<>>, mbox' = [mbox EXCEPT ![s] = Tail(@)],
         UNCHANGED <<calls, up>>
  PROVE  /\ MailInv' /\ mbox' \in [Service -> Seq(Message)]
         /\ Takes(s, Head(mbox[s]))
  <1> DEFINE q == mbox[s]
             m == Head(q)
  <1>1. q \in Seq(Message) /\ mbox \in [Service -> Seq(Message)]
    BY DEF TablesType
  <1>2. Orderly(q) /\ \A i \in DOMAIN q : Addressed(q[i], s)
    BY DEF MailInv
  <1>3. \A x \in ToSet(q) : Addressed(x, s)
    BY <1>2 DEF ToSet
  <1>4. /\ m \in Message /\ Tail(q) \in Seq(Message)
        /\ Orderly(Tail(q))
        /\ Requests(Tail(q)) =
             Requests(q) \ (IF m.kind = "request" THEN {m.session} ELSE {})
        /\ Answers(Tail(q)) =
             Answers(q) \ (IF IsAnswer(m) THEN {m.session} ELSE {})
        /\ m.kind = "request" /\ m.session \in Session =>
             m.session \in Requests(q)
        /\ IsAnswer(m) /\ m.session \in Session => m.session \in Answers(q)
        /\ ToSet(q) = ToSet(Tail(q)) \cup {m}
        /\ m.kind = "notice" =>
             \A x \in ToSet(q) : x.from = m.from => x.kind = "notice"
    BY <1>1, <1>2, TailOfMail
  <1>5. /\ mbox'[s] = Tail(q) /\ \A u \in Service \ {s} : mbox'[u] = mbox[u]
        /\ mbox' \in [Service -> Seq(Message)]
    BY <1>1, <1>4
  <1>6. MailInv'
    <2>1. ASSUME NEW u \in Service
          PROVE  Orderly(mbox'[u])
                 /\ \A x \in ToSet(mbox'[u]) : Addressed(x, u)
      BY <1>3, <1>4, <1>5 DEF MailInv, ToSet
    <2>2. \A u \in Service : \A i \in DOMAIN mbox'[u] :
            mbox'[u][i] \in ToSet(mbox'[u])
      BY DEF ToSet
    <2>3. \A x, u : Addressed(x, u)' <=> Addressed(x, u)
      BY DEF Addressed
    <2> QED
      BY <2>1, <2>2, <2>3 DEF MailInv
  <1>7. Addressed(m, s)
    BY <1>3, <1>4
  <1>8. m.kind = "notice" => \A n \in Answered(s) : calls[n].to # m.from
    <2> SUFFICES ASSUME m.kind = "notice", NEW n \in Answered(s)
                 PROVE  calls[n].to # m.from
      OBVIOUS
    <2>1. PICK i \in DOMAIN q : IsAnswer(q[i]) /\ q[i].session = n
      BY DEF Answered, Answers
    <2>2. q[i].kind # "notice" /\ q[i].kind # "request"
      BY <2>1 DEF IsAnswer
    <2>3. q[i].from # m.from
      BY <1>4, <2>2 DEF ToSet
    <2>4. calls[n] = [by |-> s, to |-> q[i].from]
      BY <1>2, <2>1, <2>2 DEF Addressed
    <2> QED
      BY <2>3, <2>4
  <1>9. m.kind # "notice" => m.session \in Session
    BY <1>7, AddressedSession
  <1>10. IsAnswer(m) => m.kind # "notice"
    BY DEF IsAnswer
  <1>11. Asked(s)' = Requests(Tail(q)) /\ Answered(s)' = Answers(Tail(q))
         /\ Asked(s) = Requests(q) /\ Answered(s) = Answers(q)
         /\ ToSet(mbox[s])' = ToSet(Tail(q))
    BY <1>5 DEF Asked, Answered
  <1> QED
    BY <1>4, <1>5, <1>6, <1>7, <1>8, <1>9, <1>10, <1>11 DEF Takes

(* The message m, no notice, is sent to t.                                 *)
Posts(t, m) ==
  \A u \in Service :
    /\ ToSet(mbox[u])' =
         ToSet(mbox[u]) \cup (IF u = t /\ t \in up THEN {m} ELSE {})
    /\ Asked(u)' = Asked(u) \cup
         (IF u = t /\ t \in up /\ m.kind = "request" THEN {m.session} ELSE {})
    /\ Answered(u)' = Answered(u) \cup
         (IF u = t /\ t \in up /\ IsAnswer(m) THEN {m.session} ELSE {})

LEMMA PostEffect ==
  ASSUME ServiceAssumption, TablesType, MailInv, NEW t \in Service,
         NEW m \in Message, Post(t, m),
         m.session \in Session, m.kind # "notice", m.from \in up \cup {Timer},
         t \in up /\ m.kind = "request" => m.session \notin Asked(t),
         t \in up /\ IsAnswer(m) => m.session \notin Answered(t),
         UNCHANGED up, Addressed(m, t)',
         \A n \in DOMAIN calls : n \in DOMAIN calls' /\ calls'[n] = calls[n]
  PROVE  MailInv' /\ mbox' \in [Service -> Seq(Message)] /\ Posts(t, m)
  <1> DEFINE q == mbox[t]
  <1>1. q \in Seq(Message) /\ mbox \in [Service -> Seq(Message)]
    BY DEF TablesType
  <1>2. /\ \A u \in Service : Orderly(mbox[u])
        /\ \A u \in Service : \A x : x \in ToSet(mbox[u]) => Addressed(x, u)
    BY DEF MailInv, ToSet
  <1>3. \A x, u : Addressed(x, u) => Addressed(x, u)'
    BY DEF Addressed
  <1>4. /\ <<m>> \in Seq(Message) /\ Orderly(<<m>>) /\ ToSet(<<m>>) = {m}
        /\ m.kind # "request" => Requests(<<m>>) = {}
        /\ m.kind = "request" => Requests(<<m>>) = {m.session}
        /\ ~IsAnswer(m) => Answers(<<m>>) = {}
        /\ IsAnswer(m) => Answers(<<m>>) = {m.session}
    BY OneMessage
  <1>5. CASE t \notin up
    <2>1. mbox' = mbox
      BY <1>5 DEF Post
    <2>2. Posts(t, m)
      BY <1>5, <2>1 DEF Posts, Asked, Answered
    <2> QED
      BY <1>1, <1>3, <2>1, <2>2 DEF MailInv
  <1>6. CASE t \in up
    <2>1. mbox' = [mbox EXCEPT ![t] = q \o <<m>>]
      <3>1. Append(q, m) = q \o <<m>>
        BY <1>1, AddedLast
      <3> QED
        BY <1>6, <3>1 DEF Post
    <2>2. \A x \in ToSet(q) : x.kind = "notice" => x.from # m.from
      BY <1>2, ServiceAssumption DEF Addressed, IsAnswer
    <2>3. /\ q \o <<m>> \in Seq(Message) /\ Orderly(q \o <<m>>)
          /\ Requests(q \o <<m>>) = Requests(q) \cup Requests(<<m>>)
          /\ Answers(q \o <<m>>) = Answers(q) \cup Answers(<<m>>)
          /\ ToSet(q \o <<m>>) = ToSet(q) \cup {m}
      <3>1. /\ Requests(q) \cap Requests(<<m>>) = {}
            /\ Answers(q) \cap Answers(<<m>>) = {}
        BY <1>4, <1>6 DEF Asked, Answered
      <3>2. /\ \A x \in ToSet(<<m>>) :
                 x.kind # "notice" => x.session \in Session
            /\ \A x \in ToSet(q), y \in ToSet(<<m>>) :
                 x.kind = "notice" /\ x.from = y.from => y.kind = "notice"
        BY <1>4, <2>2
      <3>3. Orderly(q)
        BY <1>2
      <3> HIDE DEF q
      <3> QED
        BY <1>1, <1>4, <3>1, <3>2, <3>3, ConcatOfMail, ZenonT(40)
    <2>4. /\ mbox'[t] = q \o <<m>>
          /\ \A u \in Service \ {t} : mbox'[u] = mbox[u]
          /\ mbox' \in [Service -> Seq(Message)]
      BY <1>1, <2>1, <2>3
    <2>5. Posts(t, m)
      <3> SUFFICES ASSUME NEW u \in Service
                   PROVE
                     /\ ToSet(mbox'[u]) =
                          ToSet(mbox[u]) \cup (IF u = t THEN {m} ELSE {})
                     /\ Requests(mbox'[u]) = Requests(mbox[u]) \cup
                          (IF u = t /\ m.kind = "request"
                           THEN {m.session} ELSE {})
                     /\ Answers(mbox'[u]) = Answers(mbox[u]) \cup
                          (IF u = t /\ IsAnswer(m) THEN {m.session} ELSE {})
        BY <1>6 DEF Posts, Asked, Answered
      <3>1. CASE u = t
        BY <1>4, <2>3, <2>4, <3>1
      <3>2. CASE u # t
        BY <2>4, <3>2
      <3> QED
        BY <3>1, <3>2
    <2>6. MailInv'
      <3>1. ASSUME NEW u \in Service
            PROVE  Orderly(mbox'[u])
                   /\ \A x \in ToSet(mbox'[u]) : Addressed(x, u)'
        BY <1>2, <1>3, <2>3, <2>4
      <3>2. \A u \in Service : \A i \in DOMAIN mbox'[u] :
              mbox'[u][i] \in ToSet(mbox'[u])
        BY DEF ToSet
      <3> QED
        BY <3>1, <3>2 DEF MailInv
    <2> QED
      BY <2>4, <2>5, <2>6
  <1> QED
    BY <1>5, <1>6

-----------------------------------------------------------------------------
(* Tables.                                                                 *)

(* The error_queue: each session in it once.                               *)
LEMMA FailedQueue ==
  ASSUME NEW q \in Seq(Session), IsInjective(q)
  PROVE  /\ q # <<>> =>
              /\ Tail(q) \in Seq(Session) /\ IsInjective(Tail(q))
              /\ Head(q) \in ToSet(q) /\ ToSet(Tail(q)) = ToSet(q) \ {Head(q)}
         /\ \A n \in Session \ ToSet(q) :
              /\ Append(q, n) \in Seq(Session) /\ IsInjective(Append(q, n))
              /\ ToSet(Append(q, n)) = ToSet(q) \cup {n}
  <1>1. ASSUME q # <<>>
        PROVE  /\ Tail(q) \in Seq(Session) /\ IsInjective(Tail(q))
               /\ Head(q) \in ToSet(q)
               /\ ToSet(Tail(q)) = ToSet(q) \ {Head(q)}
    <2>1. /\ DOMAIN q = 1..Len(q) /\ Len(q) \in Nat \ {0}
          /\ Head(q) = q[1] /\ 1 \in DOMAIN q /\ Tail(q) \in Seq(Session)
          /\ DOMAIN Tail(q) = 1..(Len(q) - 1)
          /\ \A i \in DOMAIN Tail(q) :
               i + 1 \in DOMAIN q \ {1} /\ Tail(q)[i] = q[i + 1]
          /\ \A i \in DOMAIN q \ {1} :
               i - 1 \in DOMAIN Tail(q) /\ (i - 1) + 1 = i
          /\ \A i, j \in DOMAIN Tail(q) : i + 1 = j + 1 => i = j
      BY <1>1
    <2>2. IsInjective(Tail(q))
      BY <2>1 DEF IsInjective
    <2>3. \A x \in ToSet(Tail(q)) : x \in ToSet(q) /\ x # Head(q)
      BY <2>1 DEF ToSet, IsInjective
    <2>4. \A x \in ToSet(q) : x # Head(q) => x \in ToSet(Tail(q))
      BY <2>1 DEF ToSet
    <2>5. Head(q) \in ToSet(q)
      BY <2>1 DEF ToSet
    <2>6. ToSet(Tail(q)) = ToSet(q) \ {Head(q)}
      BY <2>3, <2>4
    <2> QED
      BY <2>1, <2>2, <2>5, <2>6
  <1>2. ASSUME NEW n \in Session \ ToSet(q)
        PROVE  /\ Append(q, n) \in Seq(Session) /\ IsInjective(Append(q, n))
               /\ ToSet(Append(q, n)) = ToSet(q) \cup {n}
    <2> DEFINE p == Append(q, n)
               k == Len(q)
    <2>1. /\ k \in Nat /\ p \in Seq(Session)
          /\ DOMAIN q = 1..k /\ DOMAIN p = DOMAIN q \cup {k + 1}
          /\ \A i \in DOMAIN q : p[i] = q[i]
          /\ p[k + 1] = n /\ k + 1 \notin DOMAIN q
      OBVIOUS
    <2> HIDE DEF p, k
    <2>2. \A i \in DOMAIN q : q[i] # n
      BY DEF ToSet
    <2>3. IsInjective(p)
      BY <2>1, <2>2 DEF IsInjective
    <2>4. ToSet(p) = ToSet(q) \cup {n}
      BY <2>1 DEF ToSet
    <2> QED
      BY <2>1, <2>3, <2>4 DEF p
  <1> QED
    BY <1>1, <1>2

(* The sessions of a set, each once, in any order.                         *)
LEMMA SetInOrder ==
  ASSUME BoundAssumption, NEW S \in SUBSET Session
  PROVE  /\ \A q \in SetToSeqs(S) : /\ q \in Seq(S) /\ IsInjective(q)
                                    /\ ToSet(q) = S
         /\ SetToSeq(S) \in SetToSeqs(S)
  <1> DEFINE D == 1..Cardinality(S)
  <1>1. IsFiniteSet(S)
    <2>1. IsFiniteSet(Session)
      BY FS_Interval, BoundAssumption DEF Session
    <2> QED
      BY <2>1, FS_Subset
  <1>2. /\ Cardinality(S) \in Nat /\ Cardinality(D) = Cardinality(S)
        /\ ExistsBijection(D, S)
    <2>1. Cardinality(S) \in Nat /\ ExistsBijection(D, S)
      BY <1>1, FS_CardinalityType
    <2>2. Cardinality(D) = IF 1 > Cardinality(S) THEN 0
                           ELSE Cardinality(S) - 1 + 1
      BY <2>1, FS_Interval
    <2> QED
      BY <2>1, <2>2
  <1>3. ASSUME NEW q \in SetToSeqs(S)
        PROVE  q \in Seq(S) /\ IsInjective(q) /\ ToSet(q) = S
    <2>1. q \in [D -> S] /\ \A i, j \in D : i # j => q[i] # q[j]
      BY DEF SetToSeqs
    <2>2. q \in Seq(S) /\ IsInjective(q) /\ DOMAIN q = D
      BY <1>2, <2>1 DEF IsInjective
    <2>3. q \in Injection(D, S)
      BY <2>1, <2>2 DEF Injection
    <2>4. q \in Surjection(D, S)
      BY <1>1, <1>2, <2>3, FS_Injection
    <2>5. \A x \in S : \E i \in D : q[i] = x
      BY <2>4 DEF Surjection
    <2>6. ToSet(q) = S
      BY <2>1, <2>2, <2>5 DEF ToSet
    <2> QED
      BY <2>2, <2>6
  <1>4. SetToSeq(S) \in SetToSeqs(S)
    <2>1. PICK f \in Bijection(D, S) : TRUE
      BY <1>2 DEF ExistsBijection
    <2>2. f \in [D -> S] /\ IsInjective(f)
      BY <2>1 DEF Bijection, Injection
    <2>3. SetToSeq(S) \in [D -> S] /\ IsInjective(SetToSeq(S))
      BY <2>2 DEF SetToSeq
    <2> QED
      BY <2>3 DEF SetToSeqs, IsInjective
  <1> QED
    BY <1>3, <1>4

(* session_id_coroutine: what a session is dropped from or set in.         *)
Table == UNION {[D -> Session \cup {Free, Break}] : D \in SUBSET Session}

LEMMA TableType ==
  ASSUME NEW f
  PROVE  f \in Table <=>
           /\ DOMAIN f \subseteq Session /\ f = [k \in DOMAIN f |-> f[k]]
           /\ \A k \in DOMAIN f : f[k] \in Session \cup {Free, Break}
  BY DEF Table

LEMMA DropFrom ==
  ASSUME NEW f \in Table, NEW n
  PROVE  /\ Drop(f, n) \in Table /\ DOMAIN Drop(f, n) = DOMAIN f \ {n}
         /\ \A k \in DOMAIN f \ {n} : Drop(f, n)[k] = f[k]
  <1>1. Drop(f, n) \in Table
    BY TableType DEF Drop
  <1> QED
    BY <1>1 DEF Drop

LEMMA SetIn ==
  ASSUME NEW f \in Table, NEW n \in Session,
         NEW v \in Session \cup {Free, Break}
  PROVE  /\ Set(f, n, v) \in Table /\ DOMAIN Set(f, n, v) = DOMAIN f \cup {n}
         /\ Set(f, n, v)[n] = v
         /\ \A k \in DOMAIN f \ {n} : Set(f, n, v)[k] = f[k]
  <1>1. Set(f, n, v) \in Table
    BY TableType DEF Set
  <1> QED
    BY <1>1 DEF Set

(* What a step of one service leaves as it is.                             *)
Others(s) ==
  \A u \in Service \ {s} :
    /\ phase'[u] = phase[u] /\ run'[u] = run[u] /\ forkq'[u] = forkq[u]
    /\ wait'[u] = wait[u] /\ watching'[u] = watching[u]
    /\ unresponse'[u] = unresponse[u] /\ errorq'[u] = errorq[u]
    /\ token'[u] = token[u]
Known == \A n \in DOMAIN calls : n \in DOMAIN calls' /\ calls'[n] = calls[n]

LEMMA OtherTables ==
  ASSUME \A u \in Service : OwnInv(u), NEW s, Others(s), Known,
         \A u \in Service \ {s} : u \in up' <=> u \in up
  PROVE  \A u \in Service \ {s} :
           /\ OwnInv(u)' /\ Owed(u)' = Owed(u) /\ Failed(u)' = Failed(u)
  <1> SUFFICES ASSUME NEW u \in Service \ {s}
               PROVE  /\ OwnInv(u)' /\ Owed(u)' = Owed(u)
                      /\ Failed(u)' = Failed(u)
    OBVIOUS
  <1>1. /\ phase'[u] = phase[u] /\ run'[u] = run[u] /\ forkq'[u] = forkq[u]
        /\ wait'[u] = wait[u] /\ watching'[u] = watching[u]
        /\ unresponse'[u] = unresponse[u] /\ errorq'[u] = errorq[u]
        /\ token'[u] = token[u]
    BY DEF Others
  <1>2. Owed(u)' = Owed(u) /\ Failed(u)' = Failed(u)
    BY <1>1 DEF Owed, Served, Failed
  <1>3. PhaseInv(u)'
    BY <1>1 DEF OwnInv, PhaseInv
  <1>4. TableInv(u)'
    BY <1>1, <1>2 DEF OwnInv, TableInv, Known
  <1>5. ServedInv(u)'
    BY <1>1 DEF OwnInv, ServedInv
  <1>6. ResumeInv(u)'
    BY <1>1 DEF OwnInv, ResumeInv
  <1> QED
    BY <1>2, <1>3, <1>4, <1>5, <1>6 DEF OwnInv

(* The tables of a service have their types. *)
Typed(s) ==
  /\ phase[s] \in {"idle", "run", "chain", "forks"}
  /\ run[s] \in Session \cup {Free, Blank, NoCo}
  /\ forkq[s] \in Seq({Free, Blank}) /\ wait[s] \in Table
  /\ watching[s] \subseteq Session /\ unresponse[s] \subseteq Session
  /\ errorq[s] \in Seq(Session) /\ token[s] \in 0..MaxSession
  /\ left[s] \in Nat /\ wakeq[s] \in 0..MaxWake

LEMMA TablesTyped ==
  ASSUME TablesType, NEW s \in Service
  PROVE  Typed(s)
  BY DEF TablesType, Typed, Table

-----------------------------------------------------------------------------
(* What a step does not lose sight of: new calls, requests that are to be  *)
(* answered, messages to who has exited, answers and notices.              *)
Accounts ==
  /\ up' \subseteq up /\ Known
  /\ \A u \in up' : \A n \in watching'[u] :
       n \in watching[u] \/ \E t \in up' : calls'[n].to = t
                                         /\ n \in Pending(t)'
  /\ \A t \in up : \A n \in Pending(t) : \A u \in up' : calls[n].by = u =>
       \/ t \in up' /\ n \in Pending(t)'
       \/ /\ t \notin up' /\ \E x \in ToSet(mbox[t])' : x.from = u
          /\ n \in named => n \in stranded'
       \/ n \in Answered(u)'
  /\ \A t \in Service \ up : \A x \in ToSet(mbox[t]) :
       \/ x \in ToSet(mbox[t])'
       \/ \A u \in up' : x.from = u =>
            \E y \in ToSet(mbox[u])' : y.kind = "notice" /\ y.from = t
  /\ \A u \in up' : \A n \in Answered(u) \cup Failed(u) :
       n \in Answered(u)' \cup Failed(u)' \/ n \notin watching'[u]
  /\ \A u \in up' : \A x \in ToSet(mbox[u]) : x.kind = "notice" =>
       \/ x \in ToSet(mbox[u])'
       \/ \A n \in watching'[u] :
            calls[n].to = x.from => n \in Failed(u)' \/ n \in named

(* The address of a call that waits is kept, and so is what was stranded.  *)
Remembers ==
  /\ stranded \subseteq stranded'
  /\ \A u \in up' : \A n \in watching[u] \cap watching'[u] :
       n \in named' <=> n \in named

LEMMA AccountStep ==
  ASSUME SInv, AccountInv, Accounts, Remembers
  PROVE  AccountInv'
  <1> SUFFICES ASSUME NEW s \in up', NEW n \in watching'[s],
                      NEW t, t = calls'[n].to
               PROVE  \/ t \in up' /\ n \in Pending(t)'
                      \/ n \in Answered(s)' \cup Failed(s)'
                      \/ n \in named' /\ n \in stranded'
                      \/ /\ n \notin named'
                         /\ \/ /\ t \notin up'
                               /\ \E m \in ToSet(mbox[t])' : m.from = s
                            \/ \E m \in ToSet(mbox[s])' : m.kind = "notice"
                                                         /\ m.from = t
    BY DEF AccountInv
  <1>1. s \in up /\ s \in Service /\ up' \subseteq up
    BY DEF Accounts, SInv, TablesType
  <1>2. CASE n \notin watching[s]
    BY <1>2 DEF Accounts
  <1>3. CASE n \in watching[s]
    <2>1. n \in DOMAIN calls /\ calls[n].by = s /\ calls[n].to \in Service
      BY <1>1, <1>3 DEF SInv, OwnInv, TableInv, ResumeInv
    <2>2. /\ calls[n].to = t /\ t \in Service
          /\ n \in named' <=> n \in named
          /\ n \in stranded => n \in stranded'
      BY <1>3, <2>1 DEF Accounts, Known, Remembers
    <2>3. \/ t \in up /\ n \in Pending(t)
          \/ n \in Answered(s) \cup Failed(s)
          \/ n \in named /\ n \in stranded
          \/ /\ n \notin named
             /\ \/ t \notin up /\ \E m \in ToSet(mbox[t]) : m.from = s
                \/ \E m \in ToSet(mbox[s]) : m.kind = "notice" /\ m.from = t
      BY <1>1, <1>3, <2>2 DEF AccountInv
    <2>4. CASE t \in up /\ n \in Pending(t)
      BY <2>1, <2>2, <2>4 DEF Accounts
    <2>5. CASE /\ n \notin named
               /\ t \notin up /\ \E m \in ToSet(mbox[t]) : m.from = s
      BY <1>1, <2>2, <2>5 DEF Accounts
    <2>6. CASE n \in Answered(s) \cup Failed(s)
      BY <2>6 DEF Accounts
    <2>7. CASE /\ n \notin named
               /\ \E m \in ToSet(mbox[s]) : m.kind = "notice" /\ m.from = t
      BY <2>2, <2>7 DEF Accounts
    <2> QED
      BY <2>2, <2>3, <2>4, <2>5, <2>6, <2>7
  <1> QED
    BY <1>2, <1>3

(* The same for a step that calls nobody, exits nothing and discards no    *)
(* message.                                                                *)
LEMMA SameAccounts ==
  ASSUME TablesType, UNCHANGED <<calls, up>>,
         \A u \in up : watching'[u] \subseteq watching[u],
         \A t \in up : \A n \in Pending(t) :
           \/ n \in Pending(t)'
           \/ \A u \in up : calls[n].by = u => n \in Answered(u)',
         \A t \in Service \ up : ToSet(mbox[t])' = ToSet(mbox[t]),
         \A u \in up : \A n \in Answered(u) \cup Failed(u) :
           n \in Answered(u)' \cup Failed(u)' \/ n \notin watching'[u],
         \A u \in up : \A x \in ToSet(mbox[u]) : x.kind = "notice" =>
           \/ x \in ToSet(mbox[u])'
           \/ \A n \in watching'[u] :
                calls[n].to = x.from => n \in Failed(u)' \/ n \in named
  PROVE  Accounts
  BY DEF Accounts, Known

-----------------------------------------------------------------------------
(* One lemma per action: it keeps the invariant.                           *)

LEMMA TakeCommon ==
  ASSUME BoundAssumption, SInv, NEW s \in Service, NEW kind, Take(s, kind)
  PROVE  /\ Takes(s, Head(mbox[s])) /\ Head(mbox[s]).kind = kind
         /\ MailInv' /\ mbox' \in [Service -> Seq(Message)]
         /\ left' \in [Service -> Nat] /\ TurnInv'
         /\ s \in up /\ run[s] = NoCo /\ errorq[s] = <<>>
         /\ UNCHANGED <<calls, up, forkq, timers, forks>>
  <1>1. /\ s \in up /\ phase[s] = "idle" /\ mbox[s] # <<>>
        /\ Head(mbox[s]).kind = kind
        /\ mbox' = [mbox EXCEPT ![s] = Tail(@)]
        /\ UNCHANGED <<calls, up, forkq, timers, forks>>
    BY DEF Take
  <1>2. run[s] = NoCo /\ errorq[s] = <<>>
    BY <1>1 DEF SInv, OwnInv, PhaseInv
  <1>3. MailInv' /\ mbox' \in [Service -> Seq(Message)]
        /\ Takes(s, Head(mbox[s]))
    BY <1>1, TakeEffect DEF SInv
  <1>4. PICK n \in Turn(s) : left' = [left EXCEPT ![s] = n]
    BY DEF Take
  <1>5. left \in [Service -> Nat]
    BY DEF SInv, TablesType
  <1>6. n \in Nat /\ (~Batch => n = 0)
    <2>1. CASE left[s] > 0
      BY <1>4, <1>5, <2>1 DEF Turn, SInv, TurnInv
    <2>2. CASE ~(left[s] > 0) /\ n # 0
      <3>1. PICK d \in IF Batch THEN {1, 2, 4, 8} ELSE {} :
              n = Max({0, (Len(mbox[s]) - 1) \div d - 1})
        BY <1>4, <2>2 DEF Turn
      <3>2. Len(mbox[s]) \in Nat
        BY DEF SInv, TablesType
      <3> DEFINE x == (Len(mbox[s]) - 1) \div d - 1
      <3>3. x \in Int /\ n = Max({0, x}) /\ Batch
        BY <3>1, <3>2
      <3> HIDE DEF x
      <3>4. \E y \in {0, x} : \A z \in {0, x} : y >= z
        BY <3>3
      <3>5. Max({0, x}) \in {0, x} /\ \A z \in {0, x} : Max({0, x}) >= z
        BY <3>4 DEF Max
      <3> QED
        BY <3>3, <3>5
    <2> QED
      BY <2>1, <2>2
  <1>7. left' \in [Service -> Nat] /\ TurnInv'
    BY <1>4, <1>5, <1>6 DEF SInv, TurnInv
  <1> QED
    BY <1>1, <1>2, <1>3, <1>7

LEMMA TakeKeeps ==
  ASSUME SInv, NEW s \in up, NEW m, Takes(s, m)
  PROVE  /\ \A t \in Service \ up : ToSet(mbox[t])' = ToSet(mbox[t])
         /\ \A u \in up : \A x \in ToSet(mbox[u]) :
              x \in ToSet(mbox[u])' \/ (u = s /\ x = m)
  <1>1. \A u \in Service \ {s} : ToSet(mbox[u])' = ToSet(mbox[u])
    BY DEF Takes
  <1>2. \A x \in ToSet(mbox[s]) : x \in ToSet(mbox[s])' \/ x = m
    BY DEF Takes
  <1>3. up \subseteq Service
    BY DEF SInv, TablesType
  <1> QED
    BY <1>1, <1>2, <1>3

LEMMA TakeRequestStep ==
  ASSUME BoundAssumption, ServiceAssumption, SInv, NEW s \in Service,
         TakeRequest(s)
  PROVE  SInv' /\ Accounts
  <1> DEFINE m == Head(mbox[s])
  <1>1. /\ Takes(s, m) /\ m.kind = "request"
        /\ MailInv' /\ mbox' \in [Service -> Seq(Message)]
        /\ left' \in [Service -> Nat] /\ TurnInv'
        /\ s \in up /\ run[s] = NoCo /\ errorq[s] = <<>>
        /\ UNCHANGED <<calls, up, forkq, timers, forks>>
    BY TakeCommon DEF TakeRequest
  <1> HIDE DEF m
  <1>2. PICK n : n = m.session
    OBVIOUS
  <1>3. /\ n \in Session /\ n \in DOMAIN calls /\ calls[n].to = s
        /\ n \in Asked(s) /\ Asked(s)' = Asked(s) \ {n}
    <2>1. n \in Session
      BY <1>1, <1>2, AddressedSession DEF Takes, SInv
    <2> QED
      BY <1>1, <1>2, <2>1 DEF Takes, Addressed, IsAnswer
  <1>4. \A u \in Service : /\ u # s => Asked(u)' = Asked(u)
                           /\ Answered(u)' = Answered(u)
    BY <1>1 DEF Takes, Asked, Answered, IsAnswer
  <1>5. /\ phase' = [phase EXCEPT ![s] = "run"]
        /\ run' = [run EXCEPT ![s] = n]
        /\ UNCHANGED <<wait, watching, unresponse, errorq, token, wakeq>>
    BY <1>2 DEF TakeRequest, Start, Enter, m
  <1>6. TablesType'
    BY <1>1, <1>3, <1>5 DEF SInv, TablesType
  <1>7. /\ phase'[s] = "run" /\ run'[s] = n
        /\ \A u \in Service \ {s} : phase'[u] = phase[u] /\ run'[u] = run[u]
    BY <1>5 DEF SInv, TablesType
  <1>8. Others(s) /\ Known
    BY <1>1, <1>5, <1>7 DEF Others, Known
  <1>9. \A u \in Service \ {s} :
          /\ OwnInv(u)' /\ Owed(u)' = Owed(u) /\ Failed(u)' = Failed(u)
    BY <1>1, <1>8, OtherTables DEF SInv
  <1>10. /\ Owed(s)' = Owed(s) \cup {n}
         /\ Failed(s)' = Failed(s) /\ n \notin Owed(s)
    <2>1. n \notin Owed(s)
      BY <1>3 DEF SInv, OnceInv
    <2> QED
      BY <1>1, <1>3, <1>5, <1>7, <2>1
      DEF Owed, Served, Failed, NoCo, Session
  <1>11. OwnInv(s)'
    <2>1. OwnInv(s) /\ Typed(s)
      BY TablesTyped DEF SInv
    <2>2. PhaseInv(s)'
      BY <1>1, <1>3, <1>5, <1>7, <2>1 DEF OwnInv, PhaseInv, NoCo, Session
    <2>3. TableInv(s)'
      BY <1>1, <1>3, <1>5, <1>10, <2>1 DEF OwnInv, TableInv
    <2>4. ServedInv(s)'
      BY <1>5, <1>7, <1>10, <2>1 DEF OwnInv, ServedInv, Owed, Served
    <2>5. ResumeInv(s)'
      BY <1>1, <1>5, <2>1 DEF OwnInv, ResumeInv
    <2> QED
      BY <2>2, <2>3, <2>4, <2>5 DEF OwnInv
  <1>12. /\ \A u \in Service : /\ Failed(u)' = Failed(u)
                               /\ Answered(u)' = Answered(u)
                               /\ Pending(u)' = Pending(u)
         /\ UNCHANGED <<timers, up, calls, wait, watching>>
    BY <1>1, <1>3, <1>4, <1>5, <1>9, <1>10 DEF Pending
  <1>13. OnceInv'
    BY <1>3, <1>4, <1>9, <1>10, <1>12 DEF SInv, OnceInv
  <1>14. WaitInv'
    <2>1. WaitInv /\ up \subseteq Service
      BY DEF SInv, TablesType
    <2> QED
      BY <1>12, <2>1 DEF WaitInv
  <1>15. Accounts
    <2>1. up \subseteq Service /\ TablesType
      BY DEF SInv, TablesType
    <2>2. \A u \in up : /\ watching'[u] = watching[u]
                        /\ Pending(u) \subseteq Pending(u)'
                        /\ Answered(u)' = Answered(u) /\ Failed(u)' = Failed(u)
      BY <1>12, <2>1
    <2>3. /\ \A t \in Service \ up : ToSet(mbox[t])' = ToSet(mbox[t])
          /\ \A u \in up : \A x \in ToSet(mbox[u]) : x.kind = "notice" =>
               x \in ToSet(mbox[u])'
      BY <1>1, TakeKeeps
    <2> QED
      BY <1>1, <2>1, <2>2, <2>3, SameAccounts
  <1> QED
    BY <1>15, <1>1, <1>6, <1>9, <1>11, <1>12, <1>13, <1>14 DEF SInv, TimersInv

(* What goes on within a service and leaves its tables as they are.        *)
LEMMA QuietStep ==
  ASSUME SInv, NEW s \in Service, TablesType', Others(s), PhaseInv(s)',
         run'[s] = run[s] \/ (run[s] \notin Session /\ run'[s] \notin Session),
         UNCHANGED <<calls, up, mbox, left, wait, watching, unresponse,
                     errorq, token, timers>>
  PROVE  SInv' /\ Accounts
  <1>1. Known
    BY DEF Known
  <1>2. \A u \in Service \ {s} :
          OwnInv(u)' /\ Owed(u)' = Owed(u) /\ Failed(u)' = Failed(u)
    BY <1>1, OtherTables DEF SInv
  <1>3. Owed(s)' = Owed(s) /\ Failed(s)' = Failed(s)
    BY DEF Owed, Served, Failed
  <1>4. \A u \in Service : Asked(u)' = Asked(u) /\ Answered(u)' = Answered(u)
    BY DEF Asked, Answered
  <1>5. OwnInv(s)'
    <2>1. OwnInv(s)
      BY DEF SInv
    <2>2. TableInv(s)'
      BY <1>3, <2>1 DEF OwnInv, TableInv
    <2>3. ServedInv(s)'
      BY <2>1, TablesTyped DEF OwnInv, ServedInv, SInv, Typed
    <2>4. ResumeInv(s)'
      BY <2>1 DEF OwnInv, ResumeInv
    <2> QED
      BY <2>1, <2>2, <2>3, <2>4 DEF OwnInv
  <1>6. \A u \in Service : /\ Failed(u)' = Failed(u) /\ Owed(u)' = Owed(u)
                           /\ Pending(u)' = Pending(u)
    BY <1>2, <1>3, <1>4 DEF Pending
  <1>7. OnceInv'
    BY <1>4, <1>6 DEF SInv, OnceInv
  <1>8. WaitInv'
    <2>1. WaitInv /\ up \subseteq Service
      BY DEF SInv, TablesType
    <2> QED
      BY <1>4, <1>6, <2>1 DEF WaitInv
  <1>9. MailInv' /\ TimersInv' /\ TurnInv'
    BY DEF SInv, MailInv, TimersInv, TurnInv, Addressed
  <1>10. Accounts
    <2>1. up \subseteq Service /\ TablesType
      BY DEF SInv, TablesType
    <2>2. \A u \in up : /\ watching'[u] = watching[u]
                        /\ Pending(u) \subseteq Pending(u)'
                        /\ Answered(u)' = Answered(u) /\ Failed(u)' = Failed(u)
      BY <1>4, <1>6, <2>1
    <2>3. \A u \in Service : ToSet(mbox[u])' = ToSet(mbox[u])
      OBVIOUS
    <2> QED
      BY <2>1, <2>2, <2>3, SameAccounts
  <1> QED
    BY <1>10, <1>2, <1>5, <1>7, <1>8, <1>9 DEF SInv

LEMMA EndChainStep ==
  ASSUME SInv, NEW s \in Service, EndChain(s)
  PROVE  SInv' /\ Accounts
  <1>1. /\ phase[s] = "chain" /\ errorq[s] = <<>> /\ s \in up
        /\ phase' = [phase EXCEPT ![s] = "forks"]
        /\ UNCHANGED <<calls, up, mbox, left, timers, forks, run, forkq, wait,
                       watching, unresponse, errorq, token, wakeq>>
    BY DEF EndChain, Ready, Enter
  <1>2. TablesType' /\ Others(s) /\ phase'[s] = "forks"
    BY <1>1 DEF SInv, TablesType, Others
  <1>3. PhaseInv(s)'
    BY <1>1, <1>2 DEF SInv, OwnInv, PhaseInv
  <1> QED
    BY <1>1, <1>2, <1>3, QuietStep

LEMMA RunForkedStep ==
  ASSUME SInv, NEW s \in Service, RunForked(s)
  PROVE  SInv' /\ Accounts
  <1>1. /\ phase[s] = "forks" /\ s \in up
        /\ UNCHANGED <<calls, up, mbox, left, timers, forks, wait, watching,
                       unresponse, errorq, token, wakeq>>
    BY DEF RunForked, Ready
  <1>2. Typed(s) /\ PhaseInv(s)
    BY TablesTyped DEF SInv, OwnInv
  <1>3. CASE forkq[s] = <<>>
    <2>1. phase' = [phase EXCEPT ![s] = "idle"] /\ UNCHANGED <<run, forkq>>
      BY <1>3 DEF RunForked, Enter
    <2>2. TablesType' /\ Others(s) /\ phase'[s] = "idle"
      BY <1>1, <2>1 DEF SInv, TablesType, Others
    <2>3. ToSet(forkq[s]) = {}
      BY <1>3 DEF ToSet
    <2>4. PhaseInv(s)'
      BY <1>1, <1>2, <2>1, <2>2, <2>3 DEF PhaseInv
    <2> QED
      BY <1>1, <2>1, <2>2, <2>4, QuietStep
  <1>4. CASE forkq[s] # <<>>
    <2>1. /\ phase' = [phase EXCEPT ![s] = "run"]
          /\ run' = [run EXCEPT ![s] = Head(forkq[s])]
          /\ forkq' = [forkq EXCEPT ![s] = Tail(@)]
      BY <1>4 DEF RunForked, Start, Enter
    <2>2. /\ Head(forkq[s]) \in {Free, Blank}
          /\ Tail(forkq[s]) \in Seq({Free, Blank})
      BY <1>2, <1>4 DEF Typed
    <2>3. TablesType'
      BY <1>1, <2>1, <2>2 DEF SInv, TablesType
    <2>4. Others(s) /\ phase'[s] = "run" /\ run'[s] \in {Free, Blank}
      BY <1>1, <2>1, <2>2 DEF SInv, TablesType, Others
    <2>5. run[s] = NoCo /\ NoCo \notin Session /\ run'[s] \notin Session
      BY <1>1, <1>2, <2>4 DEF PhaseInv, NoCo, Free, Blank, Session
    <2>6. PhaseInv(s)'
      BY <1>1, <2>4 DEF PhaseInv, NoCo, Free, Blank
    <2> QED
      BY <1>1, <2>3, <2>4, <2>5, <2>6, QuietStep
  <1> QED
    BY <1>3, <1>4

LEMMA WakeupStep ==
  ASSUME BoundAssumption, SInv, NEW s \in Service, Wakeup(s)
  PROVE  SInv' /\ Accounts
  <1>1. /\ wakeq[s] < MaxWake /\ wakeq' = [wakeq EXCEPT ![s] = @ + 1]
        /\ UNCHANGED <<calls, up, mbox, left, phase, run, forkq, wait,
                       watching, unresponse, errorq, token, timers, forks>>
    BY DEF Wakeup, Acts, Runs
  <1>2. TablesType'
    <2>1. wakeq' \in [Service -> 0..MaxWake]
      BY <1>1, BoundAssumption DEF SInv, TablesType
    <2> QED
      BY <1>1, <2>1 DEF SInv, TablesType
  <1>3. Others(s)
    BY <1>1 DEF Others
  <1>4. PhaseInv(s)'
    BY <1>1 DEF SInv, OwnInv, PhaseInv
  <1> QED
    BY <1>1, <1>2, <1>3, <1>4, QuietStep

LEMMA ForkStep ==
  ASSUME BoundAssumption, SInv, NEW s \in Service, Fork(s)
  PROVE  SInv' /\ Accounts
  <1>1. /\ phase[s] = "run" /\ forks < MaxFork /\ forks' = forks + 1
        /\ forkq' = [forkq EXCEPT ![s] = Append(@, Free)]
        /\ UNCHANGED <<calls, up, mbox, left, phase, run, wait,
                       watching, unresponse, errorq, token, timers, wakeq>>
    BY DEF Fork, Acts, Runs, Forked
  <1>2. TablesType'
    <2>1. forks' \in 0..MaxFork
      BY <1>1, BoundAssumption DEF SInv, TablesType
    <2>2. forkq' \in [Service -> Seq({Free, Blank})]
      BY <1>1 DEF SInv, TablesType
    <2> QED
      BY <1>1, <2>1, <2>2 DEF SInv, TablesType
  <1>3. Others(s)
    BY <1>1 DEF Others, SInv, TablesType
  <1>4. PhaseInv(s)'
    BY <1>1 DEF SInv, OwnInv, PhaseInv
  <1> QED
    BY <1>1, <1>2, <1>3, <1>4, QuietStep

LEMMA EndStep ==
  ASSUME SInv, NEW s \in Service, End(s)
  PROVE  SInv' /\ Accounts
  <1>1. /\ s \in up /\ run[s] \in {Free, Blank}
        /\ phase' = [phase EXCEPT ![s] = "chain"]
        /\ run' = [run EXCEPT ![s] = NoCo]
        /\ UNCHANGED <<calls, up, mbox, left, forkq, wait, watching,
                       unresponse, errorq, token, wakeq, timers, forks>>
    BY DEF End, Runs, Leave, Enter
  <1>2. TablesType' /\ Others(s)
    BY <1>1 DEF SInv, TablesType, Others
  <1>3. phase'[s] = "chain" /\ run'[s] = NoCo
    BY <1>1 DEF SInv, TablesType
  <1>4. PhaseInv(s)'
    BY <1>1, <1>3 DEF PhaseInv
  <1>5. run[s] \notin Session /\ run'[s] \notin Session
    BY <1>1, <1>3 DEF Session, Free, Blank, NoCo
  <1> QED
    BY <1>1, <1>2, <1>4, <1>5, QuietStep

LEMMA TakeResponseStep ==
  ASSUME BoundAssumption, ServiceAssumption, SInv, NEW s \in Service,
         TakeResponse(s)
  PROVE  SInv' /\ Accounts
  <1> DEFINE m == Head(mbox[s])
  <1>1. /\ Takes(s, m) /\ m.kind = "response"
        /\ MailInv' /\ mbox' \in [Service -> Seq(Message)]
        /\ left' \in [Service -> Nat] /\ TurnInv'
        /\ s \in up /\ run[s] = NoCo /\ errorq[s] = <<>>
        /\ UNCHANGED <<calls, up, forkq, timers, forks>>
    BY TakeCommon DEF TakeResponse
  <1> HIDE DEF m
  <1>2. PICK n : n = m.session
    OBVIOUS
  <1>3. /\ n \in Session /\ n \in Answered(s)
        /\ Answered(s)' = Answered(s) \ {n}
    <2>1. n \in Session
      BY <1>1, <1>2, AddressedSession DEF Takes, SInv
    <2> QED
      BY <1>1, <1>2, <2>1 DEF Takes, IsAnswer
  <1>4. \A u \in Service : /\ u # s => Answered(u)' = Answered(u)
                           /\ Asked(u)' = Asked(u)
    BY <1>1 DEF Takes, Asked, Answered
  <1>5. Typed(s) /\ OwnInv(s) /\ up \subseteq Service
    BY TablesTyped DEF SInv, TablesType
  <1>6. PICK co : co = wait[s][n]
    OBVIOUS
  <1>7. /\ n \in DOMAIN wait[s] /\ co \in Session \cup {Free, Break}
        /\ co = Break => n \notin watching[s] /\ n # token[s]
    BY <1>1, <1>3, <1>5, <1>6, TableType
    DEF SInv, WaitInv, OwnInv, ResumeInv, Typed, Session
  <1>8. /\ wait' = [wait EXCEPT ![s] = Drop(@, n)]
        /\ phase' = [phase EXCEPT ![s] =
                       IF co = Break THEN "forks" ELSE "run"]
        /\ run' = [run EXCEPT ![s] = IF co = Break THEN NoCo ELSE co]
        /\ watching' = [watching EXCEPT ![s] = @ \ {n}]
        /\ token' = [token EXCEPT ![s] = IF @ = n THEN 0 ELSE @]
        /\ UNCHANGED <<unresponse, errorq, wakeq>>
    BY <1>2, <1>5, <1>6, <1>7
    DEF TakeResponse, Start, Leave, Enter, m, SInv, TablesType
  <1>9. /\ wait'[s] = Drop(wait[s], n) /\ watching'[s] = watching[s] \ {n}
        /\ phase'[s] = IF co = Break THEN "forks" ELSE "run"
        /\ run'[s] = IF co = Break THEN NoCo ELSE co
        /\ token'[s] = IF token[s] = n THEN 0 ELSE token[s]
        /\ Others(s) /\ Known
    BY <1>1, <1>8 DEF SInv, TablesType, Others, Known
  <1>10. /\ wait'[s] \in Table /\ DOMAIN wait'[s] = DOMAIN wait[s] \ {n}
         /\ \A k \in DOMAIN wait[s] \ {n} : wait'[s][k] = wait[s][k]
    <2>1. wait[s] \in Table
      BY <1>5 DEF Typed
    <2>2. /\ Drop(wait[s], n) \in Table
          /\ DOMAIN Drop(wait[s], n) = DOMAIN wait[s] \ {n}
          /\ \A k \in DOMAIN wait[s] \ {n} : Drop(wait[s], n)[k] = wait[s][k]
      BY <2>1, DropFrom
    <2> QED
      BY <1>9, <2>2
  <1>11. TablesType'
    <2>1. wait' \in [Service -> Table]
      BY <1>8, <1>9, <1>10 DEF SInv, TablesType, Table
    <2>2. run' \in [Service -> Session \cup {Free, Blank, NoCo}]
      BY <1>7, <1>8 DEF SInv, TablesType
    <2>3. token' \in [Service -> 0..MaxSession]
      BY <1>8, BoundAssumption DEF SInv, TablesType
    <2>4. phase' \in [Service -> {"idle", "run", "chain", "forks"}]
      BY <1>8 DEF SInv, TablesType
    <2>5. watching' \in [Service -> SUBSET Session]
      BY <1>8 DEF SInv, TablesType
    <2> QED
      BY <1>1, <1>8, <2>1, <2>2, <2>3, <2>4, <2>5 DEF SInv, TablesType, Table
  <1>12. \A u \in Service \ {s} :
           OwnInv(u)' /\ Owed(u)' = Owed(u) /\ Failed(u)' = Failed(u)
    BY <1>1, <1>9, OtherTables DEF SInv
  <1>13. Owed(s)' = Owed(s) /\ Failed(s)' = Failed(s)
    <2>1. Break \notin Session /\ NoCo \notin Session
      BY DEF Break, NoCo, Session
    <2>2. \A x \in Served(s) : x \in Served(s)'
      BY <1>1, <1>6, <1>9, <1>10, <2>1 DEF Served
    <2>3. \A x \in Served(s)' : x \in Served(s)
      BY <1>1, <1>6, <1>7, <1>9, <1>10, <2>1 DEF Served
    <2> QED
      BY <1>8, <2>2, <2>3 DEF Owed, Failed
  <1>14. OwnInv(s)'
    <2>1. PhaseInv(s)'
      BY <1>1, <1>5, <1>7, <1>8, <1>9
      DEF OwnInv, PhaseInv, NoCo, Session, Free
    <2>2. TableInv(s)'
      BY <1>1, <1>5, <1>8, <1>9, <1>10, <1>13 DEF OwnInv, TableInv
    <2>3. ServedInv(s)'
      BY <1>5, <1>6, <1>7, <1>8, <1>9, <1>10
      DEF OwnInv, ServedInv, NoCo, Session, Typed
    <2>4. ResumeInv(s)'
      BY <1>1, <1>5, <1>8, <1>9, <1>10
      DEF OwnInv, ResumeInv, ToSet
    <2> QED
      BY <2>1, <2>2, <2>3, <2>4 DEF OwnInv
  <1>15. /\ \A u \in Service : /\ Failed(u)' = Failed(u)
                               /\ Pending(u)' = Pending(u)
                               /\ Owed(u)' = Owed(u)
                               /\ Answered(u)' \subseteq Answered(u)
         /\ \A u \in Service \ {s} : wait'[u] = wait[u]
                                     /\ watching'[u] = watching[u]
    BY <1>3, <1>4, <1>9, <1>12, <1>13 DEF Pending, Others
  <1>16. OnceInv'
    BY <1>1, <1>4, <1>15 DEF SInv, OnceInv
  <1>17. WaitInv'
    <2>1. n \notin timers /\ \A t \in up : n \notin Pending(t)
      BY <1>3, <1>5 DEF SInv, OnceInv
    <2>2. WaitInv /\ up' = up /\ timers' = timers /\ calls' = calls
      BY <1>1 DEF SInv
    <2>3. ASSUME NEW u \in up
          PROVE  /\ \A k \in timers : calls[k].by = u => k \in DOMAIN wait'[u]
                 /\ \A t \in up : \A k \in Pending(t) :
                      calls[k].by = u => k \in watching'[u]
                 /\ \A k \in Answered(u)' :
                      /\ k \in DOMAIN wait'[u]
                      /\ calls[k].to = Timer \/ k \in watching'[u]
      <3>1. CASE u = s
        BY <1>3, <1>9, <1>10, <2>1, <2>2, <2>3, <3>1 DEF WaitInv
      <3>2. CASE u # s
        BY <1>5, <1>15, <2>2, <2>3, <3>2 DEF WaitInv
      <3> QED
        BY <3>1, <3>2
    <2>4. \A t \in up : Pending(t)' = Pending(t)
      BY <1>5, <1>15
    <2> QED
      BY <2>2, <2>3, <2>4 DEF WaitInv
  <1>18. Accounts
    <2>1. \A u \in up : /\ watching'[u] \subseteq watching[u]
                        /\ \A k \in Answered(u) :
                             k \in Answered(u)' \/ k \notin watching'[u]
      BY <1>3, <1>4, <1>5, <1>9, <1>15
    <2>2. \A u \in up : Pending(u)' = Pending(u) /\ Failed(u)' = Failed(u)
      BY <1>5, <1>15
    <2>3. /\ \A t \in Service \ up : ToSet(mbox[t])' = ToSet(mbox[t])
          /\ \A u \in up : \A x \in ToSet(mbox[u]) : x.kind = "notice" =>
               x \in ToSet(mbox[u])'
      BY <1>1, TakeKeeps
    <2> QED
      BY <1>1, <2>1, <2>2, <2>3, SameAccounts DEF SInv
  <1> QED
    BY <1>18, <1>1, <1>11, <1>12, <1>14, <1>16, <1>17 DEF SInv, TimersInv

LEMMA MailKnown ==
  ASSUME MailInv, NEW u \in Service
  PROVE  /\ \A n \in Asked(u) : n \in DOMAIN calls /\ calls[n].to = u
         /\ \A n \in Answered(u) : n \in DOMAIN calls /\ calls[n].by = u
  <1>1. ASSUME NEW n \in Asked(u)
        PROVE  n \in DOMAIN calls /\ calls[n].to = u
    <2>1. PICK i \in DOMAIN mbox[u] : mbox[u][i].kind = "request"
                                      /\ mbox[u][i].session = n
      BY DEF Asked, Requests
    <2>2. Addressed(mbox[u][i], u)
      BY DEF MailInv
    <2> QED
      BY <2>1, <2>2 DEF Addressed, IsAnswer
  <1>2. ASSUME NEW n \in Answered(u)
        PROVE  n \in DOMAIN calls /\ calls[n].by = u
    <2>1. PICK i \in DOMAIN mbox[u] : IsAnswer(mbox[u][i])
                                      /\ mbox[u][i].session = n
      BY DEF Answered, Answers
    <2>2. Addressed(mbox[u][i], u)
      BY DEF MailInv
    <2> QED
      BY <2>1, <2>2 DEF Addressed, IsAnswer
  <1> QED
    BY <1>1, <1>2

LEMMA TakeErrorStep ==
  ASSUME BoundAssumption, ServiceAssumption, SInv, NEW s \in Service,
         TakeError(s)
  PROVE  SInv' /\ Accounts
  <1> DEFINE m == Head(mbox[s])
  <1>1. /\ Takes(s, m) /\ m.kind = "error"
        /\ MailInv' /\ mbox' \in [Service -> Seq(Message)]
        /\ left' \in [Service -> Nat] /\ TurnInv'
        /\ s \in up /\ run[s] = NoCo /\ errorq[s] = <<>>
        /\ UNCHANGED <<calls, up, forkq, timers, forks>>
    BY TakeCommon DEF TakeError
  <1> HIDE DEF m
  <1>2. PICK n : n = m.session
    OBVIOUS
  <1>3. /\ n \in Session /\ n \in Answered(s)
        /\ Answered(s)' = Answered(s) \ {n}
    <2>1. n \in Session
      BY <1>1, <1>2, AddressedSession DEF Takes, SInv
    <2> QED
      BY <1>1, <1>2, <2>1 DEF Takes, IsAnswer
  <1>4. \A u \in Service : /\ u # s => Answered(u)' = Answered(u)
                           /\ Asked(u)' = Asked(u)
    BY <1>1 DEF Takes, Asked, Answered
  <1>5. Typed(s) /\ OwnInv(s) /\ up \subseteq Service
    BY TablesTyped DEF SInv, TablesType
  <1>6. PICK q : q = IF n \in watching[s] THEN Append(errorq[s], n)
                     ELSE errorq[s]
    OBVIOUS
  <1>7. /\ q \in Seq(Session) /\ IsInjective(q)
        /\ ToSet(q) = {n} \cap watching[s]
    <2>1. /\ <<>> \in Seq(Session) /\ IsInjective(<<>>) /\ ToSet(<<>>) = {}
      BY DEF IsInjective, ToSet
    <2>2. /\ Append(<<>>, n) \in Seq(Session)
          /\ IsInjective(Append(<<>>, n)) /\ ToSet(Append(<<>>, n)) = {n}
      BY <1>3, <2>1, FailedQueue, ZenonT(40)
    <2> QED
      BY <1>1, <1>6, <2>1, <2>2
  <1>8. /\ phase' = [phase EXCEPT ![s] = "chain"]
        /\ run' = [run EXCEPT ![s] = NoCo]
        /\ errorq' = [errorq EXCEPT ![s] = q]
        /\ UNCHANGED <<wait, watching, unresponse, token, wakeq>>
    BY <1>2, <1>6 DEF TakeError, Leave, Enter, m, SInv, TablesType
  <1>9. /\ phase'[s] = "chain" /\ run'[s] = NoCo /\ errorq'[s] = q
        /\ Others(s) /\ Known
    BY <1>1, <1>8 DEF SInv, TablesType, Others, Known
  <1>10. TablesType'
    BY <1>1, <1>7, <1>8 DEF SInv, TablesType
  <1>11. \A u \in Service \ {s} :
           OwnInv(u)' /\ Owed(u)' = Owed(u) /\ Failed(u)' = Failed(u)
    BY <1>1, <1>9, OtherTables DEF SInv
  <1>12. Owed(s)' = Owed(s) /\ Failed(s)' = {n} \cap watching[s]
    BY <1>1, <1>7, <1>8, <1>9 DEF Owed, Served, Failed
  <1>13. OwnInv(s)'
    <2>1. PhaseInv(s)'
      BY <1>1, <1>9 DEF PhaseInv
    <2>2. TableInv(s)'
      BY <1>1, <1>5, <1>8, <1>12 DEF OwnInv, TableInv
    <2>3. ServedInv(s)'
      BY <1>1, <1>5, <1>8, <1>9 DEF OwnInv, ServedInv
    <2>4. ResumeInv(s)'
      BY <1>5, <1>7, <1>8, <1>9 DEF OwnInv, ResumeInv
    <2> QED
      BY <2>1, <2>2, <2>3, <2>4 DEF OwnInv
  <1>14. \A u \in Service : Pending(u)' = Pending(u) /\ Owed(u)' = Owed(u)
    BY <1>4, <1>11, <1>12 DEF Pending
  <1>15. \A u \in Service : /\ Answered(u)' \subseteq Answered(u)
                            /\ Failed(u)' \subseteq Failed(u) \cup Answered(u)
                            /\ Answered(u)' \cap Failed(u)' \subseteq
                                 Answered(u) \cap Failed(u)
    BY <1>3, <1>4, <1>11, <1>12
  <1>16. OnceInv'
    BY <1>1, <1>4, <1>14, <1>15 DEF SInv, OnceInv
  <1>17. WaitInv'
    BY <1>1, <1>5, <1>8, <1>14, <1>15 DEF SInv, WaitInv
  <1>18. Accounts
    <2>1. \A u \in up : \A k \in Answered(u) \cup Failed(u) :
            k \in Answered(u)' \cup Failed(u)' \/ k \notin watching'[u]
      <3>1. Failed(s) = {}
        BY <1>1 DEF Failed, ToSet
      <3> QED
        BY <1>3, <1>4, <1>5, <1>8, <1>11, <1>12, <3>1
    <2>2. \A u \in up : Pending(u)' = Pending(u) /\ watching'[u] = watching[u]
      BY <1>5, <1>8, <1>14
    <2>3. /\ \A t \in Service \ up : ToSet(mbox[t])' = ToSet(mbox[t])
          /\ \A u \in up : \A x \in ToSet(mbox[u]) : x.kind = "notice" =>
               x \in ToSet(mbox[u])'
      BY <1>1, TakeKeeps
    <2> QED
      BY <1>1, <2>1, <2>2, <2>3, SameAccounts DEF SInv
  <1> QED
    BY <1>18, <1>1, <1>10, <1>11, <1>13, <1>16, <1>17 DEF SInv, TimersInv

LEMMA TakeNoticeStep ==
  ASSUME BoundAssumption, ServiceAssumption, SInv, NEW s \in Service,
         TakeNotice(s)
  PROVE  SInv' /\ Accounts
  <1> DEFINE m == Head(mbox[s])
  <1>1. /\ Takes(s, m) /\ m.kind = "notice"
        /\ MailInv' /\ mbox' \in [Service -> Seq(Message)]
        /\ left' \in [Service -> Nat] /\ TurnInv'
        /\ s \in up /\ run[s] = NoCo /\ errorq[s] = <<>>
        /\ UNCHANGED <<calls, up, forkq, timers, forks>>
    BY TakeCommon DEF TakeNotice
  <1>2. PICK src : src = m.from
    OBVIOUS
  <1>3. PICK lost : lost = {n \in watching[s] \ named : calls[n].to = src}
    OBVIOUS
  <1>4. PICK q \in SetToSeqs(lost) : errorq' = [errorq EXCEPT ![s] = @ \o q]
    BY <1>2, <1>3 DEF TakeNotice
  <1>5. /\ phase' = [phase EXCEPT ![s] = "chain"]
        /\ run' = [run EXCEPT ![s] = NoCo]
        /\ unresponse' = [unresponse EXCEPT ![s] =
                            {n \in @ : calls[n].by # src}]
        /\ UNCHANGED <<wait, watching, token, wakeq>>
    BY <1>2 DEF TakeNotice, Leave, Enter
  <1> HIDE DEF m
  <1>6. /\ src \in Service \ up
        /\ \A n \in Answered(s) : calls[n].to # src
    BY <1>1, <1>2 DEF Takes, Addressed, IsAnswer
  <1>7. \A u \in Service : Answered(u)' = Answered(u) /\ Asked(u)' = Asked(u)
    BY <1>1 DEF Takes, Asked, Answered, IsAnswer
  <1>8. Typed(s) /\ OwnInv(s) /\ up \subseteq Service
    BY TablesTyped DEF SInv, TablesType
  <1>9. q \in Seq(Session) /\ IsInjective(q) /\ ToSet(q) = lost
    <2>1. lost \subseteq Session
      BY <1>3, <1>8 DEF Typed
    <2>2. q \in Seq(lost) /\ IsInjective(q) /\ ToSet(q) = lost
      BY <2>1, SetInOrder
    <2> QED
      BY <2>1, <2>2
  <1>10. /\ errorq' = [errorq EXCEPT ![s] = q] /\ errorq'[s] = q
         /\ phase'[s] = "chain" /\ run'[s] = NoCo
         /\ unresponse'[s] = {n \in unresponse[s] : calls[n].by # src}
         /\ Others(s) /\ Known
    <2>1. <<>> \o q = q
      BY <1>9
    <2>2. errorq' = [errorq EXCEPT ![s] = q]
      BY <1>1, <1>4, <2>1
    <2> QED
      BY <1>1, <1>5, <2>2 DEF SInv, TablesType, Others, Known
  <1>11. TablesType'
    BY <1>1, <1>5, <1>9, <1>10 DEF SInv, TablesType
  <1>12. \A u \in Service \ {s} :
           OwnInv(u)' /\ Owed(u)' = Owed(u) /\ Failed(u)' = Failed(u)
    BY <1>1, <1>10, OtherTables DEF SInv
  <1>13. Owed(s)' \subseteq Owed(s) /\ Failed(s)' = lost
    BY <1>1, <1>5, <1>9, <1>10 DEF Owed, Served, Failed
  <1>14. OwnInv(s)'
    <2>1. PhaseInv(s)'
      BY <1>1, <1>10 DEF PhaseInv
    <2>2. TableInv(s)'
      BY <1>1, <1>5, <1>8, <1>13 DEF OwnInv, TableInv
    <2>3. ServedInv(s)'
      BY <1>1, <1>5, <1>8, <1>10 DEF OwnInv, ServedInv
    <2>4. ResumeInv(s)'
      BY <1>3, <1>5, <1>8, <1>9, <1>10 DEF OwnInv, ResumeInv
    <2> QED
      BY <2>1, <2>2, <2>3, <2>4 DEF OwnInv
  <1>15. \A u \in Service : /\ Pending(u)' \subseteq Pending(u)
                            /\ Owed(u)' \subseteq Owed(u)
    BY <1>7, <1>12, <1>13 DEF Pending
  <1>16. OnceInv'
    <2>1. \A t \in up : Pending(t) \cap lost = {}
      <3>1. \A t \in up : \A n \in Pending(t) : calls[n].to = t
        BY <1>8, MailKnown DEF Pending, SInv, OwnInv, TableInv
      <3> QED
        BY <1>3, <1>6, <3>1
    <2>2. Answered(s) \cap lost = {}
      BY <1>3, <1>6
    <2> QED
      BY <1>1, <1>7, <1>8, <1>12, <1>13, <1>15, <2>1, <2>2
      DEF SInv, OnceInv
  <1>17. WaitInv'
    BY <1>1, <1>5, <1>7, <1>8, <1>15 DEF SInv, WaitInv
  <1>18. Accounts
    <2>1. \A n \in Owed(s) : n \in Owed(s)' \/ calls[n].by = src
      BY <1>1, <1>5, <1>10 DEF Owed, Served
    <2>2. \A t \in up : \A n \in Pending(t) :
            n \in Pending(t)' \/ calls[n].by = src
      BY <1>7, <1>8, <1>12, <2>1 DEF Pending
    <2>3. \A u \in up : /\ watching'[u] = watching[u]
                        /\ Answered(u)' = Answered(u)
                        /\ Failed(u) \subseteq Failed(u)'
      <3>1. Failed(s) = {}
        BY <1>1 DEF Failed, ToSet
      <3> QED
        BY <1>5, <1>7, <1>8, <1>12, <3>1
    <2>4. /\ \A t \in Service \ up : ToSet(mbox[t])' = ToSet(mbox[t])
          /\ \A u \in up : \A x \in ToSet(mbox[u]) :
               x \in ToSet(mbox[u])' \/ (u = s /\ x = m)
      BY <1>1, TakeKeeps
    <2>5. \A n \in watching'[s] :
            calls[n].to = m.from => n \in Failed(s)' \/ n \in named
      BY <1>2, <1>3, <1>5, <1>13
    <2> QED
      BY <1>1, <1>6, <2>2, <2>3, <2>4, <2>5, SameAccounts DEF SInv
  <1> QED
    BY <1>18, <1>1, <1>11, <1>12, <1>14, <1>16, <1>17 DEF SInv, TimersInv

LEMMA DispatchWakeupStep ==
  ASSUME BoundAssumption, ServiceAssumption, SInv, NEW s \in Service,
         DispatchWakeup(s)
  PROVE  SInv' /\ Accounts
  <1>1. /\ s \in up /\ phase[s] = "chain" /\ wakeq[s] > 0
        /\ wakeq' = [wakeq EXCEPT ![s] = @ - 1]
        /\ UNCHANGED <<calls, up, mbox, left, timers, forks, forkq, watching,
                       unresponse, errorq>>
    BY DEF DispatchWakeup, Ready
  <1>2. Typed(s) /\ OwnInv(s) /\ up \subseteq Service
    BY TablesTyped DEF SInv, TablesType
  <1>3. wakeq' \in [Service -> 0..MaxWake]
    BY <1>1, BoundAssumption DEF SInv, TablesType
  <1>4. CASE token[s] = 0
    <2>1. UNCHANGED <<phase, run, wait, token>>
      BY <1>4 DEF DispatchWakeup
    <2>2. TablesType' /\ Others(s)
      BY <1>1, <1>3, <2>1 DEF SInv, TablesType, Others
    <2>3. PhaseInv(s)'
      BY <1>1, <1>2, <2>1 DEF OwnInv, PhaseInv
    <2> QED
      BY <1>1, <2>1, <2>2, <2>3, QuietStep
  <1>5. CASE token[s] # 0
    <2>1. PICK n, co : n = token[s] /\ co = wait[s][n]
      OBVIOUS
    <2>2. /\ n \in DOMAIN wait[s] /\ n \in Session /\ n \notin watching[s]
          /\ co \in Session \cup {Free} /\ run[s] = NoCo
      <3>1. n \in DOMAIN wait[s] /\ co # Break /\ n \notin watching[s]
        BY <1>2, <1>5, <2>1, ServiceAssumption
        DEF OwnInv, ResumeInv, TableInv
      <3>2. DOMAIN wait[s] \subseteq Session
            /\ wait[s][n] \in Session \cup {Free, Break}
        BY <1>2, <3>1, TableType DEF Typed
      <3> QED
        BY <1>1, <1>2, <2>1, <3>1, <3>2 DEF OwnInv, PhaseInv
    <2>3. /\ phase' = [phase EXCEPT ![s] = "run"]
          /\ run' = [run EXCEPT ![s] = co]
          /\ wait' = [wait EXCEPT ![s] = Set(@, n, Break)]
          /\ token' = [token EXCEPT ![s] = 0]
      BY <1>5, <2>1 DEF DispatchWakeup, Start, Enter, Woken
    <2>4. /\ phase'[s] = "run" /\ run'[s] = co /\ token'[s] = 0
          /\ wait'[s] = Set(wait[s], n, Break)
          /\ Others(s) /\ Known
      BY <1>1, <2>3 DEF SInv, TablesType, Others, Known
    <2>5. /\ wait'[s] \in Table /\ DOMAIN wait'[s] = DOMAIN wait[s]
          /\ wait'[s][n] = Break
          /\ \A k \in DOMAIN wait[s] \ {n} : wait'[s][k] = wait[s][k]
      <3>1. wait[s] \in Table /\ n \in Session
            /\ Break \in Session \cup {Free, Break}
        BY <1>2, <2>2 DEF Typed
      <3>2. /\ Set(wait[s], n, Break) \in Table
            /\ DOMAIN Set(wait[s], n, Break) = DOMAIN wait[s] \cup {n}
            /\ Set(wait[s], n, Break)[n] = Break
            /\ \A k \in DOMAIN wait[s] \ {n} :
                 Set(wait[s], n, Break)[k] = wait[s][k]
        BY <3>1, SetIn, ZenonT(40)
      <3> QED
        BY <2>2, <2>4, <3>2
    <2>6. TablesType'
      <3>1. wait' \in [Service -> Table]
        BY <2>3, <2>4, <2>5 DEF SInv, TablesType, Table
      <3>2. token' \in [Service -> 0..MaxSession]
        BY <2>3, BoundAssumption DEF SInv, TablesType
      <3>3. run' \in [Service -> Session \cup {Free, Blank, NoCo}]
        BY <2>2, <2>3 DEF SInv, TablesType
      <3>4. phase' \in [Service -> {"idle", "run", "chain", "forks"}]
        BY <2>3 DEF SInv, TablesType
      <3> QED
        BY <1>1, <1>3, <3>1, <3>2, <3>3, <3>4 DEF SInv, TablesType, Table
    <2>7. \A u \in Service \ {s} :
            OwnInv(u)' /\ Owed(u)' = Owed(u) /\ Failed(u)' = Failed(u)
      BY <1>1, <2>4, OtherTables DEF SInv
    <2>8. Owed(s)' = Owed(s) /\ Failed(s)' = Failed(s)
      <3>1. Break \notin Session /\ NoCo \notin Session
        BY DEF Break, NoCo, Session
      <3>2. \A x \in Served(s) : x \in Served(s)'
        BY <2>1, <2>2, <2>4, <2>5, <3>1 DEF Served
      <3>3. \A x \in Served(s)' : x \in Served(s)
        BY <2>1, <2>2, <2>4, <2>5, <3>1 DEF Served
      <3> QED
        BY <1>1, <3>2, <3>3 DEF Owed, Failed
    <2>9. OwnInv(s)'
      <3>1. PhaseInv(s)'
        BY <1>1, <2>2, <2>4 DEF PhaseInv, NoCo, Session, Free
      <3>2. TableInv(s)'
        BY <1>1, <1>2, <2>4, <2>5, <2>8 DEF OwnInv, TableInv
      <3>3. ServedInv(s)'
        <4>1. co \notin unresponse[s]
          BY <1>2, <2>1, <2>2 DEF OwnInv, ServedInv, Typed, Session, Free
        <4>2. Break \notin Session
          BY DEF Break, Session
        <4>3. \A k \in DOMAIN wait'[s] : wait'[s][k] \in Session =>
                k # n /\ k \in DOMAIN wait[s] /\ wait'[s][k] = wait[s][k]
          BY <2>5, <4>2
        <4> QED
          BY <1>1, <1>2, <2>1, <2>2, <2>4, <4>1, <4>3
          DEF OwnInv, ServedInv
      <3>4. ResumeInv(s)'
        BY <1>1, <1>2, <2>2, <2>4, <2>5 DEF OwnInv, ResumeInv
      <3> QED
        BY <3>1, <3>2, <3>3, <3>4 DEF OwnInv
    <2>10. \A u \in Service :
             /\ Failed(u)' = Failed(u) /\ Owed(u)' = Owed(u)
             /\ Asked(u)' = Asked(u) /\ Answered(u)' = Answered(u)
             /\ Pending(u)' = Pending(u)
             /\ DOMAIN wait'[u] = DOMAIN wait[u]
      BY <1>1, <2>4, <2>5, <2>7, <2>8 DEF Asked, Answered, Pending, Others
    <2>11. OnceInv'
      BY <1>1, <2>10 DEF SInv, OnceInv
    <2>12. WaitInv'
      BY <1>1, <1>2, <2>10 DEF SInv, WaitInv
    <2>13. MailInv' /\ TimersInv' /\ TurnInv'
      BY <1>1 DEF SInv, MailInv, TimersInv, TurnInv, Addressed
    <2>14. Accounts
      <3>1. \A u \in up : /\ watching'[u] = watching[u]
                          /\ Pending(u)' = Pending(u)
                          /\ Answered(u)' = Answered(u)
                          /\ Failed(u)' = Failed(u)
        BY <1>1, <1>2, <2>10
      <3>2. \A u \in Service : ToSet(mbox[u])' = ToSet(mbox[u])
        BY <1>1
      <3> QED
        BY <1>1, <1>2, <3>1, <3>2, SameAccounts DEF SInv
    <2> QED
      BY <2>6, <2>7, <2>9, <2>11, <2>12, <2>13, <2>14 DEF SInv
  <1> QED
    BY <1>4, <1>5

LEMMA DispatchErrorStep ==
  ASSUME BoundAssumption, ServiceAssumption, SInv, NEW s \in Service,
         DispatchError(s)
  PROVE  SInv' /\ Accounts
  <1>1. /\ s \in up /\ phase[s] = "chain" /\ errorq[s] # <<>>
        /\ errorq' = [errorq EXCEPT ![s] = Tail(@)]
        /\ UNCHANGED <<calls, up, mbox, left, timers, forks, forkq,
                       unresponse, token, wakeq>>
    BY DEF DispatchError, Ready
  <1>2. Typed(s) /\ OwnInv(s) /\ up \subseteq Service
    BY TablesTyped DEF SInv, TablesType
  <1>3. PICK n, co : n = Head(errorq[s]) /\ co = wait[s][n]
    OBVIOUS
  <1>4. /\ n \in Failed(s) /\ n \in Session /\ IsInjective(Tail(errorq[s]))
        /\ Tail(errorq[s]) \in Seq(Session)
        /\ ToSet(Tail(errorq[s])) = Failed(s) \ {n}
    <2>1. errorq[s] \in Seq(Session) /\ IsInjective(errorq[s])
      BY <1>2 DEF Typed, OwnInv, ResumeInv
    <2>2. n \in Session
      BY <1>1, <1>3, <2>1
    <2> QED
      BY <1>1, <1>3, <2>1, <2>2, FailedQueue DEF Failed
  <1>5. /\ n \in watching[s] /\ n \in DOMAIN wait[s] /\ n # token[s]
        /\ co \in Session \cup {Free} /\ run[s] = NoCo
    <2>1. n \in watching[s] /\ n \in DOMAIN wait[s] /\ co # Break
      BY <1>2, <1>3, <1>4 DEF OwnInv, ResumeInv, Failed
    <2>2. wait[s][n] \in Session \cup {Free, Break}
      BY <1>2, <2>1, TableType DEF Typed
    <2>3. n # token[s]
      BY <1>2, <2>1, ServiceAssumption, <1>4
      DEF OwnInv, TableInv, Session
    <2> QED
      BY <1>1, <1>2, <1>3, <2>1, <2>2, <2>3 DEF OwnInv, PhaseInv
  <1>6. /\ phase' = [phase EXCEPT ![s] = "run"]
        /\ run' = [run EXCEPT ![s] = co]
        /\ wait' = [wait EXCEPT ![s] = Drop(@, n)]
        /\ watching' = [watching EXCEPT ![s] = @ \ {n}]
    BY <1>3, <1>5 DEF DispatchError, Start, Enter
  <1>7. /\ phase'[s] = "run" /\ run'[s] = co
        /\ wait'[s] = Drop(wait[s], n) /\ watching'[s] = watching[s] \ {n}
        /\ errorq'[s] = Tail(errorq[s])
        /\ Others(s) /\ Known
    BY <1>1, <1>6 DEF SInv, TablesType, Others, Known
  <1>8. /\ wait'[s] \in Table /\ DOMAIN wait'[s] = DOMAIN wait[s] \ {n}
        /\ \A k \in DOMAIN wait[s] \ {n} : wait'[s][k] = wait[s][k]
    <2>1. wait[s] \in Table
      BY <1>2 DEF Typed
    <2>2. /\ Drop(wait[s], n) \in Table
          /\ DOMAIN Drop(wait[s], n) = DOMAIN wait[s] \ {n}
          /\ \A k \in DOMAIN wait[s] \ {n} : Drop(wait[s], n)[k] = wait[s][k]
      BY <2>1, DropFrom
    <2> QED
      BY <1>7, <2>2
  <1>9. TablesType'
    <2>1. wait' \in [Service -> Table]
      BY <1>6, <1>7, <1>8 DEF SInv, TablesType, Table
    <2>2. run' \in [Service -> Session \cup {Free, Blank, NoCo}]
      BY <1>5, <1>6 DEF SInv, TablesType
    <2>3. phase' \in [Service -> {"idle", "run", "chain", "forks"}]
      BY <1>6 DEF SInv, TablesType
    <2>4. watching' \in [Service -> SUBSET Session]
      BY <1>6 DEF SInv, TablesType
    <2>5. errorq' \in [Service -> Seq(Session)]
      BY <1>1, <1>4 DEF SInv, TablesType
    <2> QED
      BY <1>1, <2>1, <2>2, <2>3, <2>4, <2>5 DEF SInv, TablesType, Table
  <1>10. \A u \in Service \ {s} :
           OwnInv(u)' /\ Owed(u)' = Owed(u) /\ Failed(u)' = Failed(u)
    BY <1>1, <1>7, OtherTables DEF SInv
  <1>11. Owed(s)' = Owed(s) /\ Failed(s)' = Failed(s) \ {n}
    <2>1. NoCo \notin Session
      BY DEF NoCo, Session
    <2>2. \A x \in Served(s) : x \in Served(s)'
      BY <1>3, <1>5, <1>7, <1>8, <2>1 DEF Served
    <2>3. \A x \in Served(s)' : x \in Served(s)
      BY <1>3, <1>5, <1>7, <1>8, <2>1 DEF Served
    <2> QED
      BY <1>1, <1>4, <1>7, <2>2, <2>3 DEF Owed, Failed
  <1>12. OwnInv(s)'
    <2>1. PhaseInv(s)'
      BY <1>1, <1>5, <1>7 DEF PhaseInv, NoCo, Session, Free
    <2>2. TableInv(s)'
      BY <1>1, <1>2, <1>7, <1>8, <1>11 DEF OwnInv, TableInv
    <2>3. ServedInv(s)'
      BY <1>1, <1>2, <1>3, <1>5, <1>7, <1>8
      DEF OwnInv, ServedInv, Session, Free, Typed
    <2>4. ResumeInv(s)'
      BY <1>1, <1>2, <1>4, <1>5, <1>7, <1>8
      DEF OwnInv, ResumeInv, Failed
    <2> QED
      BY <2>1, <2>2, <2>3, <2>4 DEF OwnInv
  <1>13. /\ \A u \in Service :
              /\ Failed(u)' \subseteq Failed(u) /\ Owed(u)' = Owed(u)
              /\ Asked(u)' = Asked(u) /\ Answered(u)' = Answered(u)
              /\ Pending(u)' = Pending(u)
         /\ \A u \in Service \ {s} : wait'[u] = wait[u]
                                     /\ watching'[u] = watching[u]
    BY <1>1, <1>7, <1>10, <1>11 DEF Asked, Answered, Pending, Others
  <1>14. OnceInv'
    BY <1>1, <1>13 DEF SInv, OnceInv
  <1>15. WaitInv'
    <2>1. n \notin timers
      BY <1>2, <1>5, ServiceAssumption DEF SInv, TimersInv, OwnInv, TableInv
    <2>2. n \notin Answered(s) /\ \A t \in up : n \notin Pending(t)
      BY <1>2, <1>4 DEF SInv, OnceInv
    <2> QED
      BY <1>1, <1>2, <1>7, <1>8, <1>13, <2>1, <2>2 DEF SInv, WaitInv
  <1>16. MailInv' /\ TimersInv' /\ TurnInv'
    BY <1>1 DEF SInv, MailInv, TimersInv, TurnInv, Addressed
  <1>17. Accounts
    <2>1. \A u \in up : /\ watching'[u] \subseteq watching[u]
                        /\ Pending(u)' = Pending(u)
                        /\ Answered(u)' = Answered(u)
      BY <1>2, <1>7, <1>13
    <2>2. \A u \in up : \A k \in Failed(u) :
            k \in Failed(u)' \/ k \notin watching'[u]
      BY <1>2, <1>7, <1>10, <1>11
    <2>3. \A u \in Service : ToSet(mbox[u])' = ToSet(mbox[u])
      BY <1>1
    <2> QED
      BY <1>1, <1>2, <2>1, <2>2, <2>3, SameAccounts DEF SInv
  <1> QED
    BY <1>17, <1>9, <1>10, <1>12, <1>14, <1>15, <1>16 DEF SInv

LEMMA CallType ==
  ASSUME TablesType, NEW n \in DOMAIN calls
  PROVE  calls[n] \in [by : Service, to : Service \cup {Timer}]
  <1> DEFINE R == [by : Service, to : Service \cup {Timer}]
  <1>1. calls \in Seq(R)
    BY DEF TablesType
  <1> HIDE DEF R
  <1>2. calls[n] \in R
    BY <1>1
  <1> QED
    BY <1>2 DEF R

(* A new session is of no table yet.                                       *)
LEMMA NewSession ==
  ASSUME SInv, NEW n, n \notin DOMAIN calls
  PROVE  /\ n \notin timers
         /\ \A u \in Service :
              /\ n \notin Asked(u) /\ n \notin Answered(u) /\ n \notin Owed(u)
              /\ n \notin Failed(u) /\ n \notin watching[u]
              /\ n \notin DOMAIN wait[u]
              /\ token[u] # 0 => n # token[u]
  <1>1. n \notin timers
    BY DEF SInv, TimersInv
  <1>2. ASSUME NEW u \in Service
        PROVE  /\ n \notin Owed(u) /\ n \notin watching[u]
               /\ n \notin DOMAIN wait[u]
               /\ token[u] # 0 => n # token[u]
    BY DEF SInv, OwnInv, TableInv
  <1>3. \A u \in Service : n \notin Failed(u)
    BY <1>2 DEF SInv, OwnInv, ResumeInv, Failed
  <1> QED
    BY <1>1, <1>2, <1>3, MailKnown DEF SInv

LEMMA NewCall ==
  ASSUME BoundAssumption, SInv,
         NEW r \in [by : Service, to : Service \cup {Timer}],
         NEW n, n = Len(calls) + 1, n <= MaxSession,
         calls' = Append(calls, r)
  PROVE  /\ Known /\ n \in Session /\ n \notin DOMAIN calls
         /\ n \in DOMAIN calls' /\ calls'[n] = r /\ Len(calls') <= MaxSession
         /\ calls' \in Seq([by : Service, to : Service \cup {Timer}])
  <1> DEFINE R == [by : Service, to : Service \cup {Timer}]
  <1>1. calls \in Seq(R)
    BY DEF SInv, TablesType
  <1> HIDE DEF R
  <1>2. /\ calls' \in Seq(R) /\ Len(calls') = n /\ n \in Nat \ {0}
        /\ DOMAIN calls = 1..(n - 1) /\ DOMAIN calls' = 1..n
        /\ \A i \in DOMAIN calls : calls'[i] = calls[i]
        /\ calls'[n] = r
    BY <1>1 DEF R
  <1>3. n \in Session /\ n \notin DOMAIN calls /\ n \in DOMAIN calls'
    BY <1>2, BoundAssumption DEF Session
  <1>4. Known
    BY <1>2 DEF Known
  <1> QED
    BY <1>2, <1>3, <1>4 DEF R

(* The running coroutine of s asks t and yields.                           *)
Yields(s, t, n) ==
  /\ s \in up /\ t \in up \cup {Timer}
  /\ n = Len(calls) + 1 /\ n <= MaxSession
  /\ phase[s] = "run" /\ run[s] # Blank
  /\ calls' = Append(calls, [by |-> s, to |-> t])
  /\ Yield(s, n)
  /\ watching' = IF t = Timer THEN watching
                 ELSE [watching EXCEPT ![s] = @ \cup {n}]
  /\ token' = IF t = Timer THEN [token EXCEPT ![s] = n] ELSE token
  /\ timers' = IF t = Timer THEN timers \cup {n} ELSE timers
  /\ UNCHANGED <<up, left, forkq, unresponse, errorq, wakeq, forks>>
  /\ MailInv' /\ mbox' \in [Service -> Seq(Message)]
  /\ \A u \in Service :
       /\ Asked(u)' = Asked(u) \cup (IF u = t THEN {n} ELSE {})
       /\ Answered(u)' = Answered(u)
       /\ ToSet(mbox[u]) \subseteq ToSet(mbox[u])'

LEMMA YieldStep ==
  ASSUME BoundAssumption, ServiceAssumption, SInv, NEW s, NEW t, NEW n,
         Yields(s, t, n)
  PROVE  SInv' /\ Accounts
  <1>1. /\ s \in Service /\ up \subseteq Service /\ s \in up
        /\ t \in up \cup {Timer} /\ UNCHANGED <<up, forkq, unresponse, errorq>>
    BY DEF SInv, TablesType, Yields
  <1>2. Typed(s) /\ OwnInv(s)
    BY <1>1, TablesTyped DEF SInv
  <1>3. /\ Known /\ n \in Session /\ n \notin DOMAIN calls
        /\ n \in DOMAIN calls' /\ calls'[n] = [by |-> s, to |-> t]
        /\ Len(calls') <= MaxSession
        /\ calls' \in Seq([by : Service, to : Service \cup {Timer}])
    <2>1. [by |-> s, to |-> t] \in [by : Service, to : Service \cup {Timer}]
      BY <1>1
    <2>2. /\ n = Len(calls) + 1 /\ n <= MaxSession
          /\ calls' = Append(calls, [by |-> s, to |-> t])
      BY DEF Yields
    <2> QED
      BY <2>1, <2>2, NewCall
  <1>4. /\ n \notin timers
        /\ \A u \in Service :
             /\ n \notin Asked(u) /\ n \notin Answered(u) /\ n \notin Owed(u)
             /\ n \notin Failed(u) /\ n \notin watching[u]
             /\ n \notin DOMAIN wait[u]
             /\ token[u] # 0 => n # token[u]
    BY <1>3, NewSession
  <1>5. PICK co : co = run[s]
    OBVIOUS
  <1>6. co \in Session \cup {Free}
    BY <1>2, <1>5 DEF Typed, OwnInv, PhaseInv, Yields
  <1>7. /\ wait' = [wait EXCEPT ![s] = Set(@, n, co)]
        /\ phase' = [phase EXCEPT ![s] = "chain"]
        /\ run' = [run EXCEPT ![s] = NoCo]
    BY <1>5 DEF Yields, Yield, Leave, Enter
  <1>8. /\ wait'[s] = Set(wait[s], n, co) /\ phase'[s] = "chain"
        /\ run'[s] = NoCo /\ Others(s)
        /\ watching'[s] = watching[s] \cup (IF t = Timer THEN {} ELSE {n})
        /\ token'[s] = IF t = Timer THEN n ELSE token[s]
    BY <1>1, <1>7 DEF SInv, TablesType, Others, Yields
  <1>9. /\ wait'[s] \in Table /\ DOMAIN wait'[s] = DOMAIN wait[s] \cup {n}
        /\ wait'[s][n] = co
        /\ \A k \in DOMAIN wait[s] : wait'[s][k] = wait[s][k]
    <2>1. wait[s] \in Table /\ n \in Session
          /\ co \in Session \cup {Free, Break}
      BY <1>2, <1>3, <1>6 DEF Typed
    <2>2. /\ Set(wait[s], n, co) \in Table
          /\ DOMAIN Set(wait[s], n, co) = DOMAIN wait[s] \cup {n}
          /\ Set(wait[s], n, co)[n] = co
          /\ \A k \in DOMAIN wait[s] \ {n} :
               Set(wait[s], n, co)[k] = wait[s][k]
      BY <2>1, SetIn, ZenonT(40)
    <2> QED
      BY <1>1, <1>4, <1>8, <2>2
  <1>10. TablesType'
    <2>1. wait' \in [Service -> Table]
      BY <1>1, <1>7, <1>8, <1>9 DEF SInv, TablesType, Table
    <2>2. run' \in [Service -> Session \cup {Free, Blank, NoCo}]
      BY <1>7 DEF SInv, TablesType
    <2>3. phase' \in [Service -> {"idle", "run", "chain", "forks"}]
      BY <1>7 DEF SInv, TablesType
    <2>4. watching' \in [Service -> SUBSET Session]
      BY <1>1, <1>3 DEF SInv, TablesType, Yields
    <2>5. token' \in [Service -> 0..MaxSession]
      <3>1. token' = IF t = Timer THEN [token EXCEPT ![s] = n] ELSE token
        BY DEF Yields
      <3>2. n \in 0..MaxSession
        BY <1>3, BoundAssumption DEF Session
      <3>3. token \in [Service -> 0..MaxSession]
        BY DEF SInv, TablesType
      <3> QED
        BY <3>1, <3>2, <3>3
    <2>6. timers' \subseteq Session
      BY <1>3 DEF SInv, TablesType, Yields
    <2> QED
      BY <1>3, <2>1, <2>2, <2>3, <2>4, <2>5, <2>6
      DEF SInv, TablesType, Table, Yields
  <1>11. \A u \in Service \ {s} :
           OwnInv(u)' /\ Owed(u)' = Owed(u) /\ Failed(u)' = Failed(u)
    BY <1>1, <1>3, <1>8, OtherTables DEF SInv
  <1>12. Owed(s)' = Owed(s) /\ Failed(s)' = Failed(s)
    <2>1. NoCo \notin Session
      BY DEF NoCo, Session
    <2>2. \A x \in Served(s) : x \in Served(s)'
      BY <1>5, <1>8, <1>9 DEF Served
    <2>3. \A x \in Served(s)' : x \in Served(s)
      BY <1>5, <1>8, <1>9, <2>1 DEF Served
    <2> QED
      BY <1>1, <2>2, <2>3 DEF Owed, Failed
  <1>13. OwnInv(s)'
    <2>1. PhaseInv(s)'
      BY <1>1, <1>8 DEF PhaseInv
    <2>2. TableInv(s)'
      <3>1. \A k \in DOMAIN wait'[s] : k \in DOMAIN calls'
                                       /\ calls'[k].by = s
        BY <1>2, <1>3, <1>9 DEF OwnInv, TableInv, Known
      <3>2. \A k \in watching'[s] : k \in DOMAIN calls'
                                    /\ calls'[k].to \in Service
        BY <1>1, <1>2, <1>3, <1>8 DEF OwnInv, TableInv, Known
      <3>3. token'[s] # 0 => token'[s] \in DOMAIN calls'
                             /\ calls'[token'[s]].to = Timer
        BY <1>2, <1>3, <1>8 DEF OwnInv, TableInv, Known
      <3>4. \A k \in Owed(s)' : k \in DOMAIN calls' /\ calls'[k].to = s
        BY <1>2, <1>3, <1>12 DEF OwnInv, TableInv, Known
      <3> QED
        BY <3>1, <3>2, <3>3, <3>4 DEF TableInv
    <2>3. ServedInv(s)'
      BY <1>1, <1>2, <1>4, <1>5, <1>8, <1>9
      DEF OwnInv, ServedInv, NoCo, Session, Typed
    <2>4. ResumeInv(s)'
      <3>1. \A k \in watching'[s] : k \in DOMAIN wait'[s]
                                    /\ wait'[s][k] # Break
        BY <1>2, <1>6, <1>8, <1>9
        DEF OwnInv, ResumeInv, Break, Session, Free
      <3>2. token'[s] # 0 => token'[s] \in DOMAIN wait'[s]
                             /\ wait'[s][token'[s]] # Break
        BY <1>2, <1>6, <1>8, <1>9
        DEF OwnInv, ResumeInv, Break, Session, Free
      <3> QED
        BY <1>1, <1>2, <1>8, <3>1, <3>2 DEF OwnInv, ResumeInv
    <2> QED
      BY <2>1, <2>2, <2>3, <2>4 DEF OwnInv
  <1>14. \A u \in Service :
           /\ Failed(u)' = Failed(u) /\ Owed(u)' = Owed(u)
           /\ Asked(u)' = Asked(u) \cup (IF u = t THEN {n} ELSE {})
           /\ Answered(u)' = Answered(u)
           /\ Pending(u)' = Pending(u) \cup (IF u = t THEN {n} ELSE {})
           /\ DOMAIN wait[u] \subseteq DOMAIN wait'[u]
           /\ watching[u] \subseteq watching'[u]
    BY <1>8, <1>9, <1>11, <1>12 DEF Pending, Others, Yields
  <1>15. timers' = timers \cup (IF t = Timer THEN {n} ELSE {})
    BY DEF Yields
  <1>16. OnceInv'
    <2>1. \A u \in Service : Asked(u)' \cap Owed(u)' = {}
      BY <1>4, <1>14 DEF SInv, OnceInv
    <2>2. \A u, v \in Service : v \in up =>
            Pending(v)' \cap (Answered(u)' \cup Failed(u)') = {}
      BY <1>4, <1>14 DEF SInv, OnceInv
    <2>3. \A u \in Service : Answered(u)' \cap (Failed(u)' \cup timers') = {}
      BY <1>4, <1>14, <1>15 DEF SInv, OnceInv
    <2> QED
      BY <1>1, <2>1, <2>2, <2>3 DEF OnceInv
  <1>17. WaitInv'
    <2>1. \A k \in DOMAIN calls : calls'[k] = calls[k]
      BY <1>3 DEF Known
    <2>2. ASSUME NEW u \in up
          PROVE  \A k \in timers' : calls'[k].by = u => k \in DOMAIN wait'[u]
      <3>1. \A k \in timers : calls'[k].by = u => k \in DOMAIN wait[u]
        BY <2>1 DEF SInv, WaitInv, TimersInv
      <3>2. t = Timer /\ u = s => n \in DOMAIN wait'[u]
        BY <1>9
      <3> QED
        BY <1>1, <1>3, <1>14, <1>15, <3>1, <3>2
    <2>3. ASSUME NEW u \in up, NEW v \in up
          PROVE  \A k \in Pending(v)' : calls'[k].by = u => k \in watching'[u]
      <3>1. \A k \in Pending(v) : k \in DOMAIN calls
        BY <1>1, MailKnown DEF Pending, SInv, OwnInv, TableInv
      <3>2. \A k \in Pending(v) : calls'[k].by = u => k \in watching[u]
        BY <2>1, <3>1 DEF SInv, WaitInv
      <3>3. v = t => n \in watching'[s]
        BY <1>1, <1>8, ServiceAssumption
      <3> QED
        BY <1>1, <1>3, <1>14, <3>2, <3>3
    <2>4. ASSUME NEW u \in up
          PROVE  \A k \in Answered(u)' :
                   /\ k \in DOMAIN wait'[u]
                   /\ calls'[k].to = Timer \/ k \in watching'[u]
      <3>1. \A k \in Answered(u) : k \in DOMAIN calls
        BY <1>1, MailKnown DEF SInv
      <3> QED
        BY <1>1, <1>14, <2>1, <3>1 DEF SInv, WaitInv
    <2> QED
      BY <1>1, <2>2, <2>3, <2>4 DEF WaitInv
  <1>18. TimersInv' /\ TurnInv' /\ MailInv'
    BY <1>3, <1>15 DEF SInv, TimersInv, TurnInv, Known, Yields
  <1>19. Accounts
    <2>1. \A u \in up : \A k \in watching'[u] :
            k \in watching[u] \/ \E v \in up' : calls'[k].to = v
                                              /\ k \in Pending(v)'
      <3>1. \A u \in up \ {s} : watching'[u] = watching[u]
        BY <1>1, <1>8 DEF Others
      <3>2. t # Timer => t \in up' /\ calls'[n].to = t /\ n \in Pending(t)'
        BY <1>1, <1>3, <1>14
      <3> QED
        BY <1>8, <3>1, <3>2
    <2>2. \A u \in up : /\ Pending(u) \subseteq Pending(u)'
                        /\ Answered(u)' = Answered(u) /\ Failed(u)' = Failed(u)
      BY <1>1, <1>14
    <2>3. \A u \in Service : ToSet(mbox[u]) \subseteq ToSet(mbox[u])'
      BY DEF Yields
    <2> QED
      BY <1>1, <1>3, <2>1, <2>2, <2>3 DEF Accounts
  <1> QED
    BY <1>19, <1>10, <1>11, <1>13, <1>16, <1>17, <1>18 DEF SInv

LEMMA CallServiceStep ==
  ASSUME BoundAssumption, ServiceAssumption, SInv, NEW s \in Service,
         NEW t \in Service, NEW byName \in BOOLEAN,
         CallService(s, t, byName)
  PROVE  SInv' /\ Accounts
  <1>1. PICK n : n = Len(calls) + 1
    OBVIOUS
  <1>2. PICK m : m = To("request", n, s)
    OBVIOUS
  <1>3. /\ s \in up /\ phase[s] = "run" /\ run[s] # Blank
        /\ n <= MaxSession /\ t \in up
        /\ calls' = Append(calls, [by |-> s, to |-> t])
        /\ Post(t, m)
        /\ watching' = [watching EXCEPT ![s] = @ \cup {n}]
        /\ Yield(s, n)
        /\ UNCHANGED <<up, left, forkq, unresponse, errorq, token, wakeq,
                       timers, forks>>
    BY <1>1, <1>2 DEF CallService, Acts, Runs
  <1>4. /\ Known /\ n \in Session /\ n \notin DOMAIN calls
        /\ n \in DOMAIN calls' /\ calls'[n] = [by |-> s, to |-> t]
    BY <1>1, <1>3, NewCall
  <1>5. /\ m \in Message /\ m.kind = "request" /\ m.session = n
        /\ m.from = s /\ ~IsAnswer(m)
    BY <1>2, <1>4 DEF To, Message, IsAnswer, Session
  <1>6. Addressed(m, t)'
    BY <1>4, <1>5 DEF Addressed
  <1>7. MailInv' /\ mbox' \in [Service -> Seq(Message)] /\ Posts(t, m)
    <2>1. n \notin Asked(t)
      BY <1>4, NewSession
    <2>2. \A k \in DOMAIN calls : k \in DOMAIN calls' /\ calls'[k] = calls[k]
      BY <1>4 DEF Known
    <2>3. TablesType /\ MailInv
      BY DEF SInv
    <2> QED
      BY <1>3, <1>4, <1>5, <1>6, <2>1, <2>2, <2>3, PostEffect
  <1>8. \A u \in Service :
          /\ Asked(u)' = Asked(u) \cup (IF u = t THEN {n} ELSE {})
          /\ Answered(u)' = Answered(u)
          /\ ToSet(mbox[u]) \subseteq ToSet(mbox[u])'
    BY <1>3, <1>5, <1>7 DEF Posts
  <1>9. t # Timer
    BY ServiceAssumption
  <1>10. Yields(s, t, n)
    BY <1>1, <1>3, <1>7, <1>8, <1>9 DEF Yields
  <1> QED
    BY <1>10, YieldStep

LEMMA SleepStep ==
  ASSUME BoundAssumption, ServiceAssumption, SInv, NEW s \in Service, Sleep(s)
  PROVE  SInv' /\ Accounts
  <1>1. PICK n : n = Len(calls) + 1
    OBVIOUS
  <1>2. /\ s \in up /\ phase[s] = "run" /\ run[s] # Blank
        /\ n <= MaxSession
        /\ calls' = Append(calls, [by |-> s, to |-> Timer])
        /\ timers' = timers \cup {n}
        /\ token' = [token EXCEPT ![s] = n]
        /\ Yield(s, n)
        /\ UNCHANGED <<mbox, up, left, forkq, watching, unresponse, errorq,
                       wakeq, forks>>
    BY <1>1 DEF Sleep, Acts, Runs
  <1>3. Known
    BY <1>1, <1>2, NewCall
  <1>4. MailInv' /\ mbox' \in [Service -> Seq(Message)]
    <2>1. \A x, u : Addressed(x, u) => Addressed(x, u)'
      BY <1>2, <1>3 DEF Addressed, Known
    <2> QED
      BY <1>2, <2>1 DEF SInv, MailInv, TablesType
  <1>5. \A u \in Service :
          /\ Asked(u)' = Asked(u) \cup (IF u = Timer THEN {n} ELSE {})
          /\ Answered(u)' = Answered(u)
          /\ ToSet(mbox[u]) \subseteq ToSet(mbox[u])'
    BY <1>2, ServiceAssumption DEF Asked, Answered
  <1>6. Yields(s, Timer, n)
    BY <1>1, <1>2, <1>4, <1>5 DEF Yields
  <1> QED
    BY <1>6, YieldStep

(* The running coroutine of s answers n, one way or another.               *)
Replies(s, n, kind) ==
  /\ n \in Owed(s) /\ Post(calls[n].by, To(kind, n, s))
  /\ Others(s) /\ Owed(s)' = Owed(s) \ {n}
  /\ PhaseInv(s)' /\ ServedInv(s)'
  /\ UNCHANGED <<calls, up, left, wait, watching, errorq, token, wakeq,
                 timers, forks>>

LEMMA ReplyEffect ==
  ASSUME BoundAssumption, ServiceAssumption, SInv, NEW s \in up, NEW n,
         NEW kind \in {"response", "error"}, Replies(s, n, kind)
  PROVE  /\ n \in Session /\ n \in DOMAIN calls
         /\ calls[n].to = s /\ calls[n].by \in Service
         /\ MailInv' /\ mbox' \in [Service -> Seq(Message)]
         /\ Posts(calls[n].by, To(kind, n, s))
         /\ \A u \in Service :
              /\ Asked(u)' = Asked(u)
              /\ Answered(u)' = Answered(u) \cup
                   (IF u = calls[n].by /\ u \in up THEN {n} ELSE {})
  <1>1. s \in Service /\ n \in Owed(s)
    BY DEF SInv, TablesType, Replies
  <1>2. n \in DOMAIN calls /\ calls[n].to = s /\ n \in Session
    BY <1>1, TablesTyped DEF SInv, OwnInv, TableInv, Owed, Served, Typed
  <1>3. /\ calls[n].by \in Service
        /\ calls[n] = [by |-> calls[n].by, to |-> calls[n].to]
    <2>1. calls[n] \in [by : Service, to : Service \cup {Timer}]
      BY <1>2, CallType DEF SInv
    <2> QED
      BY <2>1
  <1>4. PICK t, m : t = calls[n].by /\ m = To(kind, n, s)
    OBVIOUS
  <1>5. /\ m \in Message /\ m.session = n /\ m.from = s
        /\ m.kind # "request" /\ m.kind # "notice" /\ IsAnswer(m)
    BY <1>1, <1>2, <1>4 DEF To, Message, IsAnswer, Session
  <1>6. UNCHANGED <<calls, up>> /\ Post(t, m)
    BY <1>4 DEF Replies
  <1>7. Addressed(m, t)'
    BY <1>2, <1>3, <1>4, <1>5, <1>6 DEF Addressed
  <1>8. n \notin Answered(t)
    BY <1>1, <1>3, <1>4 DEF SInv, OnceInv, Pending
  <1>9. MailInv' /\ mbox' \in [Service -> Seq(Message)] /\ Posts(t, m)
    <2>1. TablesType /\ MailInv /\ t \in Service
      BY <1>3, <1>4 DEF SInv
    <2>2. \A k \in DOMAIN calls : k \in DOMAIN calls' /\ calls'[k] = calls[k]
      BY <1>6
    <2> QED
      BY <1>2, <1>5, <1>6, <1>7, <1>8, <2>1, <2>2, PostEffect
  <1>10. \A u \in Service :
           /\ Asked(u)' = Asked(u)
           /\ Answered(u)' = Answered(u) \cup
                (IF u = t /\ u \in up THEN {n} ELSE {})
    BY <1>5, <1>9 DEF Posts
  <1> QED
    BY <1>2, <1>3, <1>4, <1>9, <1>10

LEMMA ReplyStep ==
  ASSUME BoundAssumption, ServiceAssumption, SInv, NEW s \in up, NEW n,
         NEW kind \in {"response", "error"}, Replies(s, n, kind), TablesType'
  PROVE  SInv' /\ Accounts
  <1>1. /\ s \in Service /\ up \subseteq Service /\ n \in Owed(s)
        /\ Others(s) /\ Owed(s)' = Owed(s) \ {n}
        /\ PhaseInv(s)' /\ ServedInv(s)'
        /\ UNCHANGED <<calls, up, left, wait, watching, errorq, token, wakeq,
                       timers, forks>>
    BY DEF SInv, TablesType, Replies
  <1>2. PICK c : c = calls[n].by
    OBVIOUS
  <1>3. /\ n \in Session /\ n \in DOMAIN calls
        /\ calls[n].to = s /\ c \in Service /\ MailInv'
        /\ \A u \in Service :
             /\ Asked(u)' = Asked(u)
             /\ Answered(u)' = Answered(u) \cup
                  (IF u = c /\ u \in up THEN {n} ELSE {})
    BY <1>2, ReplyEffect
  <1>4. Known
    BY <1>1 DEF Known
  <1>5. \A u \in Service \ {s} :
          OwnInv(u)' /\ Owed(u)' = Owed(u) /\ Failed(u)' = Failed(u)
    BY <1>1, <1>4, OtherTables DEF SInv
  <1>6. OwnInv(s)'
    <2>1. OwnInv(s)
      BY <1>1 DEF SInv
    <2>2. TableInv(s)' /\ ResumeInv(s)'
      BY <1>1, <2>1 DEF OwnInv, TableInv, ResumeInv
    <2> QED
      BY <1>1, <2>2 DEF OwnInv
  <1>7. \A u \in Service : /\ Failed(u)' = Failed(u)
                           /\ Pending(u)' \subseteq Pending(u)
                           /\ Owed(u)' \subseteq Owed(u)
    BY <1>1, <1>3, <1>5 DEF Pending, Failed
  <1>8. \A t \in up : n \notin Pending(t)'
    <2>1. n \notin Pending(s)'
      BY <1>1, <1>3 DEF SInv, OnceInv, Pending
    <2>2. \A t \in up \ {s} : n \notin Pending(t)
      BY <1>1, <1>3, MailKnown DEF Pending, SInv, OwnInv, TableInv
    <2> QED
      BY <1>1, <1>7, <2>1, <2>2
  <1>9. /\ \A u \in Service : n \notin Failed(u)
        /\ n \notin timers
    BY <1>1, <1>3, ServiceAssumption DEF SInv, OnceInv, Pending, TimersInv
  <1>10. OnceInv'
    <2>1. \A u \in Service : Asked(u)' \cap Owed(u)' = {}
      BY <1>3, <1>7 DEF SInv, OnceInv
    <2>2. \A u, t \in Service : t \in up' =>
            Pending(t)' \cap (Answered(u)' \cup Failed(u)') = {}
      <3> SUFFICES ASSUME NEW u \in Service, NEW t \in up
                   PROVE  Pending(t)' \cap (Answered(u)' \cup Failed(u)') = {}
        BY <1>1
      <3>1. Pending(t) \cap (Answered(u) \cup Failed(u)) = {}
        BY <1>1 DEF SInv, OnceInv
      <3> QED
        BY <1>1, <1>3, <1>7, <1>8, <3>1
    <2>3. \A u \in Service : Answered(u)' \cap (Failed(u)' \cup timers') = {}
      BY <1>1, <1>3, <1>7, <1>9 DEF SInv, OnceInv
    <2> QED
      BY <2>1, <2>2, <2>3 DEF OnceInv
  <1>11. WaitInv'
    <2>1. c \in up => n \in DOMAIN wait[c] /\ n \in watching[c]
      BY <1>1, <1>2, <1>3 DEF SInv, WaitInv, Pending, OwnInv, ResumeInv
    <2> QED
      BY <1>1, <1>3, <1>7, <2>1 DEF SInv, WaitInv
  <1>12. TimersInv' /\ TurnInv'
    BY <1>1 DEF SInv, TimersInv, TurnInv
  <1>13. Accounts
    <2>1. \A u \in up : /\ watching'[u] = watching[u]
                        /\ Answered(u) \subseteq Answered(u)'
                        /\ Failed(u)' = Failed(u)
      BY <1>1, <1>3, <1>7
    <2>2. \A u \in up : \A k \in Pending(u) : k \in Pending(u)' \/ k = n
      BY <1>1, <1>3, <1>5 DEF Pending
    <2>3. c \in up => n \in Answered(c)'
      BY <1>3
    <2>4. Posts(calls[n].by, To(kind, n, s))
      BY ReplyEffect
    <2>5. /\ \A u \in Service \ up : ToSet(mbox[u])' = ToSet(mbox[u])
          /\ \A u \in up : ToSet(mbox[u]) \subseteq ToSet(mbox[u])'
      BY <1>1, <2>4 DEF Posts
    <2>6. \A u \in up : \A k \in Pending(u) :
            k \in Pending(u)'
            \/ \A v \in up : calls[k].by = v => k \in Answered(v)'
      BY <1>2, <2>2, <2>3
    <2> QED
      BY <1>1, <2>1, <2>5, <2>6, SameAccounts DEF SInv
  <1> QED
    BY <1>13, <1>3, <1>5, <1>6, <1>10, <1>11, <1>12 DEF SInv

LEMMA RetStep ==
  ASSUME BoundAssumption, ServiceAssumption, SInv, NEW s \in Service, Ret(s)
  PROVE  SInv' /\ Accounts
  <1>1. PICK n : n = run[s]
    OBVIOUS
  <1>2. /\ s \in up /\ phase[s] = "run" /\ n \in Session
        /\ Post(calls[n].by, To("response", n, s))
        /\ run' = [run EXCEPT ![s] = Free]
        /\ UNCHANGED <<calls, up, left, phase, forkq, wait, watching,
                       unresponse, errorq, token, wakeq, timers, forks>>
    BY <1>1 DEF Ret, Acts, Runs
  <1>3. Typed(s) /\ OwnInv(s) /\ Free \notin Session
    BY TablesTyped DEF SInv, Free, Session
  <1>4. run'[s] = Free /\ Others(s)
    BY <1>2 DEF SInv, TablesType, Others
  <1>5. n \in Owed(s)
    BY <1>1, <1>2 DEF Owed, Served
  <1>6. Owed(s)' = Owed(s) \ {n}
    <2>1. \A k \in DOMAIN wait[s] : wait[s][k] # n
      BY <1>1, <1>2, <1>3 DEF OwnInv, ServedInv
    <2>2. n \notin unresponse[s]
      BY <1>1, <1>3 DEF OwnInv, ServedInv
    <2> QED
      BY <1>1, <1>2, <1>3, <1>4, <2>1, <2>2 DEF Owed, Served
  <1>7. PhaseInv(s)'
    BY <1>2, <1>3, <1>4 DEF OwnInv, PhaseInv, Free, NoCo
  <1>8. ServedInv(s)'
    BY <1>2, <1>3, <1>4 DEF OwnInv, ServedInv, Typed
  <1>9. Replies(s, n, "response")
    BY <1>2, <1>4, <1>5, <1>6, <1>7, <1>8 DEF Replies
  <1>10. TablesType'
    <2>1. mbox' \in [Service -> Seq(Message)]
      BY <1>2, <1>9, ReplyEffect
    <2> QED
      BY <1>2, <2>1 DEF SInv, TablesType
  <1> QED
    BY <1>2, <1>9, <1>10, ReplyStep

LEMMA AnswerStep ==
  ASSUME BoundAssumption, ServiceAssumption, SInv, NEW s \in Service,
         NEW n \in Session, NEW ok \in BOOLEAN, Answer(s, n, ok)
  PROVE  SInv' /\ Accounts
  <1>1. PICK kind \in {"response", "error"} :
          kind = IF ok THEN "response" ELSE "error"
    OBVIOUS
  <1>2. /\ s \in up /\ phase[s] = "run" /\ n \in unresponse[s]
        /\ Post(calls[n].by, To(kind, n, s))
        /\ unresponse' = [unresponse EXCEPT ![s] = @ \ {n}]
        /\ UNCHANGED <<calls, up, left, phase, run, forkq, wait, watching,
                       errorq, token, wakeq, timers, forks>>
    BY <1>1 DEF Answer, Acts, Runs
  <1>3. Typed(s) /\ OwnInv(s)
    BY TablesTyped DEF SInv
  <1>4. unresponse'[s] = unresponse[s] \ {n} /\ Others(s)
    BY <1>2 DEF SInv, TablesType, Others
  <1>5. n \in Owed(s)
    BY <1>2 DEF Owed
  <1>6. Owed(s)' = Owed(s) \ {n}
    <2>1. n \notin Served(s)
      BY <1>2, <1>3 DEF OwnInv, ServedInv, Served
    <2>2. Served(s)' = Served(s)
      BY <1>2 DEF Served
    <2> QED
      BY <1>4, <2>1, <2>2 DEF Owed
  <1>7. PhaseInv(s)'
    BY <1>2, <1>3 DEF OwnInv, PhaseInv
  <1>8. ServedInv(s)'
    BY <1>2, <1>3, <1>4 DEF OwnInv, ServedInv
  <1>9. Replies(s, n, kind)
    BY <1>2, <1>4, <1>5, <1>6, <1>7, <1>8 DEF Replies
  <1>10. TablesType'
    <2>1. mbox' \in [Service -> Seq(Message)]
      BY <1>2, <1>9, ReplyEffect
    <2> QED
      BY <1>2, <2>1 DEF SInv, TablesType
  <1> QED
    BY <1>2, <1>9, <1>10, ReplyStep

LEMMA RaiseStep ==
  ASSUME BoundAssumption, ServiceAssumption, SInv, NEW s \in Service, Raise(s)
  PROVE  SInv' /\ Accounts
  <1>1. PICK n : n = run[s]
    OBVIOUS
  <1>2. /\ s \in up /\ phase[s] = "run" /\ n # Blank
        /\ forkq' = [forkq EXCEPT ![s] = Append(@, Blank)]
        /\ phase' = [phase EXCEPT ![s] = "forks"]
        /\ run' = [run EXCEPT ![s] = NoCo]
        /\ UNCHANGED <<calls, up, left, wait, watching, unresponse, errorq,
                       token, wakeq, timers, forks>>
    BY <1>1 DEF Raise, Acts, Runs, Leave, Enter, Trigger
  <1>3. Typed(s) /\ OwnInv(s) /\ NoCo \notin Session
    BY TablesTyped DEF SInv, NoCo, Session
  <1>4. /\ phase'[s] = "forks" /\ run'[s] = NoCo
        /\ forkq'[s] = Append(forkq[s], Blank) /\ Others(s)
    BY <1>2 DEF SInv, TablesType, Others
  <1>5. PhaseInv(s)'
    <2>1. Blank \in ToSet(forkq'[s])
      <3>1. /\ Len(forkq[s]) + 1 \in DOMAIN forkq'[s]
            /\ forkq'[s][Len(forkq[s]) + 1] = Blank
        BY <1>3, <1>4 DEF Typed
      <3> QED
        BY <3>1 DEF ToSet
    <2> QED
      BY <1>2, <1>4, <2>1 DEF PhaseInv
  <1>6. /\ forkq' \in [Service -> Seq({Free, Blank})]
        /\ phase' \in [Service -> {"idle", "run", "chain", "forks"}]
        /\ run' \in [Service -> Session \cup {Free, Blank, NoCo}]
    BY <1>2 DEF SInv, TablesType
  <1>7. CASE n \in Session
    <2>1. Post(calls[n].by, To("error", n, s))
      BY <1>1, <1>7 DEF Raise
    <2>2. n \in Owed(s)
      BY <1>1, <1>7 DEF Owed, Served
    <2>3. Owed(s)' = Owed(s) \ {n}
      <3>1. \A k \in DOMAIN wait[s] : wait[s][k] # n
        BY <1>1, <1>3, <1>7 DEF OwnInv, ServedInv
      <3>2. n \notin unresponse[s]
        BY <1>1, <1>3 DEF OwnInv, ServedInv
      <3> QED
        BY <1>1, <1>2, <1>3, <1>4, <3>1, <3>2 DEF Owed, Served
    <2>4. ServedInv(s)'
      BY <1>2, <1>3, <1>4 DEF OwnInv, ServedInv, Typed
    <2>5. Replies(s, n, "error")
      BY <1>2, <1>4, <1>5, <2>1, <2>2, <2>3, <2>4 DEF Replies
    <2>6. TablesType'
      <3>1. mbox' \in [Service -> Seq(Message)]
        BY <1>2, <2>5, ReplyEffect
      <3> QED
        BY <1>2, <1>6, <3>1 DEF SInv, TablesType
    <2> QED
      BY <1>2, <2>5, <2>6, ReplyStep
  <1>8. CASE n \notin Session
    <2>1. UNCHANGED mbox
      BY <1>1, <1>8 DEF Raise
    <2>2. TablesType'
      BY <1>2, <1>6, <2>1 DEF SInv, TablesType
    <2> QED
      BY <1>1, <1>2, <1>3, <1>4, <1>5, <1>8, <2>1, <2>2, QuietStep
  <1> QED
    BY <1>7, <1>8

LEMMA ResponseStep ==
  ASSUME BoundAssumption, ServiceAssumption, SInv, NEW s \in Service,
         Response(s)
  PROVE  SInv' /\ Accounts
  <1>1. PICK n : n = run[s]
    OBVIOUS
  <1>2. /\ s \in up /\ phase[s] = "run" /\ n \in Session
        /\ unresponse' = [unresponse EXCEPT ![s] = @ \cup {n}]
        /\ run' = [run EXCEPT ![s] = Free]
        /\ UNCHANGED <<calls, up, mbox, left, phase, forkq, wait, watching,
                       errorq, token, wakeq, timers, forks>>
    BY <1>1 DEF Response, Acts, Runs
  <1>3. Typed(s) /\ OwnInv(s) /\ Free \notin Session
    BY TablesTyped DEF SInv, Free, Session
  <1>4. /\ run'[s] = Free /\ unresponse'[s] = unresponse[s] \cup {n}
        /\ Others(s) /\ Known
    BY <1>2 DEF SInv, TablesType, Others, Known
  <1>5. TablesType'
    BY <1>2 DEF SInv, TablesType
  <1>6. \A u \in Service \ {s} :
          OwnInv(u)' /\ Owed(u)' = Owed(u) /\ Failed(u)' = Failed(u)
    BY <1>2, <1>4, OtherTables DEF SInv
  <1>7. Owed(s)' = Owed(s) /\ Failed(s)' = Failed(s)
    BY <1>1, <1>2, <1>3, <1>4 DEF Owed, Served, Failed
  <1>8. OwnInv(s)'
    <2>1. PhaseInv(s)'
      BY <1>2, <1>3, <1>4 DEF OwnInv, PhaseInv, Free, NoCo
    <2>2. TableInv(s)'
      BY <1>2, <1>3, <1>7 DEF OwnInv, TableInv
    <2>3. ServedInv(s)'
      BY <1>1, <1>2, <1>3, <1>4 DEF OwnInv, ServedInv, Typed
    <2>4. ResumeInv(s)'
      BY <1>2, <1>3 DEF OwnInv, ResumeInv
    <2> QED
      BY <2>1, <2>2, <2>3, <2>4 DEF OwnInv
  <1>9. \A u \in Service :
          /\ Failed(u)' = Failed(u) /\ Owed(u)' = Owed(u)
          /\ Asked(u)' = Asked(u) /\ Answered(u)' = Answered(u)
          /\ Pending(u)' = Pending(u)
    BY <1>2, <1>6, <1>7 DEF Asked, Answered, Pending
  <1>10. OnceInv'
    BY <1>2, <1>9 DEF SInv, OnceInv
  <1>11. WaitInv'
    BY <1>2, <1>9 DEF SInv, WaitInv, TablesType
  <1>12. MailInv' /\ TimersInv' /\ TurnInv'
    BY <1>2 DEF SInv, MailInv, TimersInv, TurnInv, Addressed
  <1>13. Accounts
    <2>1. \A u \in up : /\ watching'[u] = watching[u]
                        /\ Pending(u)' = Pending(u)
                        /\ Answered(u)' = Answered(u) /\ Failed(u)' = Failed(u)
      BY <1>2, <1>9 DEF SInv, TablesType
    <2>2. \A u \in Service : ToSet(mbox[u])' = ToSet(mbox[u])
      BY <1>2
    <2>3. up \subseteq Service
      BY DEF SInv, TablesType
    <2> QED
      BY <1>2, <2>1, <2>2, <2>3, SameAccounts DEF SInv
  <1> QED
    BY <1>13, <1>5, <1>6, <1>8, <1>10, <1>11, <1>12 DEF SInv

LEMMA TimeOutStep ==
  ASSUME BoundAssumption, ServiceAssumption, SInv, NEW n \in Session,
         TimeOut(n)
  PROVE  SInv' /\ Accounts
  <1>1. PICK c, m : c = calls[n].by /\ m = To("response", n, Timer)
    OBVIOUS
  <1>2. /\ n \in timers /\ timers' = timers \ {n} /\ Post(c, m)
        /\ UNCHANGED <<calls, up, left, phase, run, forkq, wait, watching,
                       unresponse, errorq, token, wakeq, forks>>
    BY <1>1 DEF TimeOut, Around
  <1>3. /\ n \in DOMAIN calls /\ calls[n].to = Timer /\ c \in Service
        /\ calls[n] = [by |-> c, to |-> Timer] /\ up \subseteq Service
    <2>1. n \in DOMAIN calls /\ calls[n].to = Timer
      BY <1>2 DEF SInv, TimersInv
    <2>2. calls[n] \in [by : Service, to : Service \cup {Timer}]
      BY <2>1, CallType DEF SInv
    <2> QED
      BY <1>1, <2>1, <2>2 DEF SInv, TablesType
  <1>4. /\ m \in Message /\ m.session = n /\ m.from = Timer
        /\ m.kind # "request" /\ m.kind # "notice" /\ IsAnswer(m)
    BY <1>1 DEF To, Message, IsAnswer, Session
  <1>5. Addressed(m, c)'
    BY <1>2, <1>3, <1>4 DEF Addressed
  <1>6. MailInv' /\ mbox' \in [Service -> Seq(Message)] /\ Posts(c, m)
    <2>1. n \notin Answered(c)
      BY <1>2, <1>3 DEF SInv, OnceInv
    <2>2. \A k \in DOMAIN calls : k \in DOMAIN calls' /\ calls'[k] = calls[k]
      BY <1>2
    <2>3. TablesType /\ MailInv
      BY DEF SInv
    <2> QED
      BY <1>2, <1>3, <1>4, <1>5, <2>1, <2>2, <2>3, PostEffect
  <1>7. \A u \in Service :
          /\ Asked(u)' = Asked(u)
          /\ Answered(u)' = Answered(u) \cup
               (IF u = c /\ u \in up THEN {n} ELSE {})
    BY <1>4, <1>6 DEF Posts
  <1>8. TablesType'
    BY <1>2, <1>6 DEF SInv, TablesType
  <1>9. Others(Timer) /\ Known
    BY <1>2 DEF Others, Known
  <1>10. \A u \in Service :
           /\ OwnInv(u)' /\ Owed(u)' = Owed(u) /\ Failed(u)' = Failed(u)
           /\ Pending(u)' = Pending(u)
    <2>1. \A u \in Service \ {Timer} :
            OwnInv(u)' /\ Owed(u)' = Owed(u) /\ Failed(u)' = Failed(u)
      BY <1>2, <1>9, OtherTables DEF SInv
    <2> QED
      BY <1>7, <2>1, ServiceAssumption DEF Pending
  <1>11. \A u \in up : n \notin Pending(u)
    BY <1>3, MailKnown, ServiceAssumption
    DEF Pending, SInv, OwnInv, TableInv
  <1>12. \A u \in Service : n \notin Failed(u)
    BY <1>3, ServiceAssumption DEF SInv, OwnInv, ResumeInv, TableInv, Failed
  <1>13. OnceInv'
    <2>1. \A u \in Service : Asked(u)' \cap Owed(u)' = {}
      BY <1>7, <1>10 DEF SInv, OnceInv
    <2>2. \A u, t \in Service : t \in up' =>
            Pending(t)' \cap (Answered(u)' \cup Failed(u)') = {}
      <3> SUFFICES ASSUME NEW u \in Service, NEW t \in up
                   PROVE  Pending(t)' \cap (Answered(u)' \cup Failed(u)') = {}
        BY <1>2
      <3>1. Pending(t) \cap (Answered(u) \cup Failed(u)) = {}
        BY <1>3 DEF SInv, OnceInv
      <3> QED
        BY <1>3, <1>7, <1>10, <1>11, <3>1
    <2>3. \A u \in Service : Answered(u)' \cap (Failed(u)' \cup timers') = {}
      BY <1>2, <1>7, <1>10, <1>12 DEF SInv, OnceInv
    <2> QED
      BY <2>1, <2>2, <2>3 DEF OnceInv
  <1>14. WaitInv'
    <2>1. c \in up => n \in DOMAIN wait[c]
      BY <1>1, <1>2 DEF SInv, WaitInv
    <2> QED
      BY <1>2, <1>3, <1>7, <1>10, <2>1 DEF SInv, WaitInv
  <1>15. TimersInv' /\ TurnInv'
    BY <1>2 DEF SInv, TimersInv, TurnInv
  <1>16. Accounts
    <2>1. \A u \in up : /\ watching'[u] = watching[u]
                        /\ Pending(u)' = Pending(u)
                        /\ Answered(u) \subseteq Answered(u)'
                        /\ Failed(u)' = Failed(u)
      BY <1>2, <1>3, <1>7, <1>10
    <2>2. /\ \A u \in Service \ up : ToSet(mbox[u])' = ToSet(mbox[u])
          /\ \A u \in up : ToSet(mbox[u]) \subseteq ToSet(mbox[u])'
      BY <1>3, <1>6 DEF Posts
    <2> QED
      BY <1>2, <2>1, <2>2, SameAccounts DEF SInv
  <1> QED
    BY <1>16, <1>6, <1>8, <1>10, <1>13, <1>14, <1>15 DEF SInv

(* The mailbox of s loses its head m; its sender hears that s is down.     *)
Discards(s, m) ==
  /\ Addressed(m, s) /\ m \in Message
  /\ ToSet(mbox[s]) = ToSet(mbox[s])' \cup {m}
  /\ Asked(s)' \subseteq Asked(s) /\ Answered(s)' \subseteq Answered(s)
  /\ \A u \in Service \ {s} :
       /\ Asked(u)' = Asked(u) /\ Answered(u)' = Answered(u)
       /\ ToSet(mbox[u])' = ToSet(mbox[u]) \cup
            (IF u = m.from /\ u \in up /\ left[s] = 0
             THEN {To("notice", 0, s)} ELSE {})

LEMMA DiscardEffect ==
  ASSUME BoundAssumption, ServiceAssumption, SInv, NEW s \in Service,
         Discard(s)
  PROVE  /\ MailInv' /\ mbox' \in [Service -> Seq(Message)]
         /\ Discards(s, Head(mbox[s]))
  <1> DEFINE q == mbox[s]
             m == Head(q)
             x == To("notice", 0, s)
             c == IF left[s] = 0 /\ m.from \in up THEN m.from ELSE Timer
  <1>1. /\ s \notin up /\ q # <<>> /\ UNCHANGED <<calls, up>>
        /\ mbox' = [[mbox EXCEPT ![s] = Tail(@)] EXCEPT ![m.from] =
                      IF left[s] = 0 /\ m.from \in up
                      THEN Append(@, x) ELSE @]
    BY DEF Discard, Around
  <1>2. /\ mbox \in [Service -> Seq(Message)] /\ q \in Seq(Message)
        /\ up \subseteq Service
    BY DEF SInv, TablesType
  <1>3. /\ \A u \in Service : Orderly(mbox[u])
        /\ \A u \in Service : \A y : y \in ToSet(mbox[u]) => Addressed(y, u)
    BY DEF SInv, MailInv, ToSet
  <1>4. /\ m \in Message /\ Tail(q) \in Seq(Message)
        /\ Orderly(Tail(q))
        /\ Requests(Tail(q)) \subseteq Requests(q)
        /\ Answers(Tail(q)) \subseteq Answers(q)
        /\ ToSet(q) = ToSet(Tail(q)) \cup {m}
    <2>1. Orderly(q) /\ q # <<>> /\ q \in Seq(Message)
      BY <1>1, <1>2, <1>3
    <2> HIDE DEF q
    <2>2. /\ Requests(Tail(q)) =
               Requests(q) \ (IF m.kind = "request" THEN {m.session} ELSE {})
          /\ Answers(Tail(q)) =
               Answers(q) \ (IF IsAnswer(m) THEN {m.session} ELSE {})
      BY <2>1, TailOfMail
    <2>3. /\ m \in Message /\ Tail(q) \in Seq(Message)
          /\ Orderly(Tail(q)) /\ ToSet(q) = ToSet(Tail(q)) \cup {m}
      BY <2>1, TailOfMail
    <2> QED
      BY <2>2, <2>3
  <1>5. /\ x \in Message /\ x.kind = "notice" /\ x.from = s
        /\ ~IsAnswer(x)
    BY BoundAssumption DEF To, Message, IsAnswer
  <1>6. /\ <<x>> \in Seq(Message) /\ Orderly(<<x>>) /\ ToSet(<<x>>) = {x}
        /\ Requests(<<x>>) = {} /\ Answers(<<x>>) = {}
    <2> HIDE DEF x
    <2> QED
      BY <1>5, OneMessage
  <1>7. /\ c # s /\ (c \in Service => c = m.from /\ c \in up /\ left[s] = 0)
        /\ \A u \in Service \ {s} :
             u = c <=> u = m.from /\ u \in up /\ left[s] = 0
    BY <1>1, ServiceAssumption
  <1>8. /\ mbox'[s] = Tail(q)
        /\ \A u \in Service \ {s} :
             mbox'[u] = IF u = c THEN mbox[u] \o <<x>> ELSE mbox[u]
        /\ mbox' \in [Service -> Seq(Message)]
    <2> DEFINE b == [mbox EXCEPT ![s] = Tail(q)]
    <2>1. /\ b \in [Service -> Seq(Message)] /\ b[s] = Tail(q)
          /\ \A u \in Service \ {s} : b[u] = mbox[u]
      BY <1>2, <1>4
    <2>2. mbox' = [b EXCEPT ![m.from] =
                     IF left[s] = 0 /\ m.from \in up
                     THEN Append(@, x) ELSE @]
      BY <1>1
    <2> HIDE DEF b, x, m
    <2>3. \A u \in Service : b[u] \in Seq(Message)
                             /\ Append(b[u], x) = b[u] \o <<x>>
      BY <1>5, <2>1, AddedLast
    <2>4. CASE left[s] = 0 /\ m.from \in up
      <3>1. /\ m.from # s /\ m.from \in Service /\ c = m.from
            /\ mbox' = [b EXCEPT ![m.from] = b[m.from] \o <<x>>]
        BY <1>1, <1>2, <2>2, <2>3, <2>4
      <3>2. b[m.from] \o <<x>> \in Seq(Message)
        BY <1>6, <2>3, <3>1
      <3>3. /\ mbox' \in [Service -> Seq(Message)] /\ mbox'[s] = b[s]
            /\ \A u \in Service \ {s} :
                 mbox'[u] = IF u = m.from THEN b[u] \o <<x>> ELSE b[u]
        BY <2>1, <3>1, <3>2
      <3> QED
        BY <2>1, <3>1, <3>3
    <2>5. CASE ~(left[s] = 0 /\ m.from \in up)
      <3>1. mbox' = b /\ c \notin Service
        BY <2>1, <2>2, <2>5, ServiceAssumption
      <3> QED
        BY <2>1, <3>1
    <2> QED
      BY <2>4, <2>5
  <1>9. \A y, u : Addressed(y, u) => Addressed(y, u)'
    BY <1>1 DEF Addressed
  <1>10. ASSUME NEW u \in Service \ {s}, u = c
         PROVE  /\ Orderly(mbox'[u])
                /\ Requests(mbox'[u]) = Requests(mbox[u])
                /\ Answers(mbox'[u]) = Answers(mbox[u])
                /\ ToSet(mbox'[u]) = ToSet(mbox[u]) \cup {x}
    <2>1. mbox[u] \in Seq(Message) /\ Orderly(mbox[u])
      BY <1>2, <1>3
    <2>2. /\ \A y \in ToSet(<<x>>) : y.kind # "notice" => y.session \in Session
          /\ \A z \in ToSet(mbox[u]), y \in ToSet(<<x>>) :
               z.kind = "notice" /\ z.from = y.from => y.kind = "notice"
      BY <1>5, <1>6
    <2> HIDE DEF x, c
    <2>3. /\ Orderly(mbox[u] \o <<x>>)
          /\ Requests(mbox[u] \o <<x>>) = Requests(mbox[u])
          /\ Answers(mbox[u] \o <<x>>) = Answers(mbox[u])
          /\ ToSet(mbox[u] \o <<x>>) = ToSet(mbox[u]) \cup {x}
      <3>1. /\ Requests(mbox[u]) \cap Requests(<<x>>) = {}
            /\ Answers(mbox[u]) \cap Answers(<<x>>) = {}
        BY <1>6
      <3>2. /\ Orderly(mbox[u] \o <<x>>)
            /\ Requests(mbox[u] \o <<x>>) =
                 Requests(mbox[u]) \cup Requests(<<x>>)
            /\ Answers(mbox[u] \o <<x>>) = Answers(mbox[u]) \cup Answers(<<x>>)
            /\ ToSet(mbox[u] \o <<x>>) = ToSet(mbox[u]) \cup ToSet(<<x>>)
        BY <1>6, <2>1, <2>2, <3>1, ConcatOfMail
      <3> QED
        BY <1>6, <3>2
    <2> QED
      BY <1>8, <1>10, <2>3
  <1>11. \A u : Addressed(x, u)'
    BY <1>1, <1>5 DEF Addressed
  <1> HIDE DEF x, c, m
  <1>12. MailInv'
    <2>1. ASSUME NEW u \in Service
          PROVE  Orderly(mbox'[u])
                 /\ \A y \in ToSet(mbox'[u]) : Addressed(y, u)'
      <3>1. CASE u = s
        BY <1>3, <1>4, <1>8, <1>9, <3>1
      <3>2. CASE u # s /\ u = c
        BY <1>3, <1>9, <1>10, <1>11, <3>2
      <3>3. CASE u # s /\ u # c
        BY <1>3, <1>8, <1>9, <3>3
      <3> QED
        BY <3>1, <3>2, <3>3
    <2>2. \A u \in Service : \A i \in DOMAIN mbox'[u] :
            mbox'[u][i] \in ToSet(mbox'[u])
      BY DEF ToSet
    <2> QED
      BY <2>1, <2>2 DEF MailInv
  <1>13. Discards(s, m)
    <2>1. /\ Addressed(m, s) /\ m \in Message
          /\ ToSet(mbox[s]) = ToSet(mbox'[s]) \cup {m}
          /\ Requests(mbox'[s]) \subseteq Requests(mbox[s])
          /\ Answers(mbox'[s]) \subseteq Answers(mbox[s])
      BY <1>3, <1>4, <1>8
    <2>2. \A u \in Service \ {s} :
            /\ Requests(mbox'[u]) = Requests(mbox[u])
            /\ Answers(mbox'[u]) = Answers(mbox[u])
            /\ ToSet(mbox'[u]) = ToSet(mbox[u]) \cup
                 (IF u = c THEN {x} ELSE {})
      BY <1>8, <1>10
    <2>3. \A u \in Service \ {s} :
            ToSet(mbox'[u]) = ToSet(mbox[u]) \cup
              (IF u = m.from /\ u \in up /\ left[s] = 0 THEN {x} ELSE {})
      BY <1>7, <2>2
    <2> QED
      BY <2>1, <2>2, <2>3 DEF Discards, Asked, Answered, x
  <1> QED
    BY <1>8, <1>12, <1>13 DEF m

LEMMA DiscardStep ==
  ASSUME BoundAssumption, ServiceAssumption, SInv, NEW s \in Service,
         Discard(s)
  PROVE  SInv' /\ (~Batch => Accounts)
  <1>1. PICK m : m = Head(mbox[s])
    OBVIOUS
  <1>2. /\ s \notin up
        /\ left' = [left EXCEPT ![s] = Max({0, @ - 1})]
        /\ UNCHANGED <<calls, up, phase, run, forkq, wait, watching,
                       unresponse, errorq, token, wakeq, forks, timers>>
    BY DEF Discard, Around
  <1>3. MailInv' /\ mbox' \in [Service -> Seq(Message)] /\ Discards(s, m)
    BY <1>1, DiscardEffect
  <1>4. left' \in [Service -> Nat] /\ TurnInv'
    <2>1. left \in [Service -> Nat]
      BY DEF SInv, TablesType
    <2> DEFINE x == left[s] - 1
    <2>2. x \in Int /\ (left[s] = 0 => x = -1)
      BY <2>1
    <2> HIDE DEF x
    <2>3. \E y \in {0, x} : \A z \in {0, x} : y >= z
      BY <2>2
    <2>4. Max({0, x}) \in {0, x} /\ \A z \in {0, x} : Max({0, x}) >= z
      BY <2>3 DEF Max
    <2>5. Max({0, x}) \in Nat /\ (left[s] = 0 => Max({0, x}) = 0)
      BY <2>2, <2>4
    <2>6. left' = [left EXCEPT ![s] = Max({0, x})]
      BY <1>2 DEF x
    <2> QED
      BY <2>1, <2>5, <2>6 DEF SInv, TurnInv
  <1>5. TablesType'
    BY <1>2, <1>3, <1>4 DEF SInv, TablesType
  <1>6. Others(Timer) /\ Known
    BY <1>2 DEF Others, Known
  <1>7. \A u \in Service :
          /\ OwnInv(u)' /\ Owed(u)' = Owed(u) /\ Failed(u)' = Failed(u)
          /\ Asked(u)' \subseteq Asked(u) /\ Answered(u)' \subseteq Answered(u)
          /\ Pending(u)' \subseteq Pending(u)
    <2>1. \A u \in Service \ {Timer} :
            OwnInv(u)' /\ Owed(u)' = Owed(u) /\ Failed(u)' = Failed(u)
      BY <1>2, <1>6, OtherTables DEF SInv
    <2>2. \A u \in Service : /\ Asked(u)' \subseteq Asked(u)
                             /\ Answered(u)' \subseteq Answered(u)
      BY <1>3 DEF Discards
    <2> QED
      BY <2>1, <2>2, ServiceAssumption DEF Pending
  <1>8. OnceInv'
    BY <1>2, <1>7 DEF SInv, OnceInv
  <1>9. WaitInv'
    BY <1>2, <1>7 DEF SInv, WaitInv, TablesType
  <1>10. TimersInv'
    BY <1>2 DEF SInv, TimersInv
  <1>11. ASSUME ~Batch PROVE Accounts
    <2>1. left[s] = 0 /\ up \subseteq Service
      BY <1>11 DEF SInv, TurnInv, TablesType
    <2>2. \A u \in up : /\ watching'[u] = watching[u]
                        /\ Pending(u)' = Pending(u)
                        /\ Answered(u)' = Answered(u)
                        /\ Failed(u)' = Failed(u)
                        /\ ToSet(mbox[u]) \subseteq ToSet(mbox[u])'
      BY <1>2, <1>3, <1>7, <2>1 DEF Discards, Pending
    <2>3. /\ \A x \in ToSet(mbox[s]) : x \in ToSet(mbox[s])' \/ x = m
          /\ \A t \in Service \ (up \cup {s}) :
               ToSet(mbox[t])' = ToSet(mbox[t])
      BY <1>3 DEF Discards
    <2>4. \A u \in up : m.from = u =>
            \E y \in ToSet(mbox[u])' : y.kind = "notice" /\ y.from = s
      <3>1. To("notice", 0, s).kind = "notice" /\ To("notice", 0, s).from = s
        BY DEF To
      <3>2. \A u \in up : m.from = u =>
              To("notice", 0, s) \in ToSet(mbox[u])'
        BY <1>2, <1>3, <2>1 DEF Discards
      <3> QED
        BY <3>1, <3>2
    <2>5. \A t \in Service \ up : \A x \in ToSet(mbox[t]) :
            \/ x \in ToSet(mbox[t])'
            \/ \A u \in up' : x.from = u =>
                 \E y \in ToSet(mbox[u])' : y.kind = "notice" /\ y.from = t
      BY <1>2, <2>3, <2>4
    <2> QED
      BY <1>2, <1>6, <2>2, <2>5 DEF Accounts
  <1> QED
    BY <1>11, <1>3, <1>4, <1>5, <1>7, <1>8, <1>9, <1>10 DEF SInv

LEMMA ErrorsOf ==
  ASSUME BoundAssumption, NEW s \in Service, NEW S \in SUBSET Session,
         NEW r, r = [i \in DOMAIN SetToSeq(S) |->
                       To("error", SetToSeq(S)[i], s)]
  PROVE  /\ r \in Seq(Message) /\ Orderly(r)
         /\ Requests(r) = {} /\ Answers(r) = S
         /\ \A x : x \in ToSet(r) <=> \E n \in S : x = To("error", n, s)
  <1>1. PICK q : q = SetToSeq(S)
    OBVIOUS
  <1>2. q \in Seq(S) /\ IsInjective(q) /\ ToSet(q) = S
    BY <1>1, SetInOrder
  <1>3. \A n \in S : /\ To("error", n, s) \in Message
                     /\ To("error", n, s).kind = "error"
                     /\ To("error", n, s).session = n
                     /\ To("error", n, s).from = s
    BY BoundAssumption DEF To, Message, Session
  <1>4. /\ r = [i \in DOMAIN q |-> To("error", q[i], s)]
        /\ DOMAIN r = DOMAIN q
        /\ \A i \in DOMAIN q : q[i] \in S /\ r[i] = To("error", q[i], s)
    BY <1>1, <1>2
  <1>5. r \in Seq(Message)
    <2>1. DOMAIN q = 1..Len(q) /\ Len(q) \in Nat
      BY <1>2
    <2>2. r \in [1..Len(q) -> Message]
      BY <1>3, <1>4, <2>1
    <2> QED
      BY <2>1, <2>2
  <1>6. \A i \in DOMAIN r : /\ r[i].kind = "error" /\ r[i].session = q[i]
                            /\ r[i].from = s /\ q[i] \in S
    BY <1>3, <1>4
  <1>7. Orderly(r)
    BY <1>2, <1>4, <1>6 DEF Orderly, IsInjective
  <1>8. Requests(r) = {}
    BY <1>6 DEF Requests
  <1>9. Answers(r) = S
    <2>1. \A n \in Answers(r) : n \in S
      BY <1>6 DEF Answers
    <2>2. \A n \in S : n \in Answers(r)
      <3>1. \A n \in S : \E i \in DOMAIN q : q[i] = n
        BY <1>2 DEF ToSet
      <3> QED
        BY <1>4, <1>6, <3>1 DEF Answers, IsAnswer
    <2> QED
      BY <2>1, <2>2
  <1>10. \A x : x \in ToSet(r) <=> \E n \in S : x = To("error", n, s)
    <2>1. \A n \in S : \E i \in DOMAIN q : q[i] = n
      BY <1>2 DEF ToSet
    <2> QED
      BY <1>4, <2>1 DEF ToSet
  <1> QED
    BY <1>5, <1>7, <1>8, <1>9, <1>10

(* Who waits for s gets an error, and whom s waits for a notice.           *)
Exits(s) ==
  /\ \A u \in up :
       /\ Asked(u)' = Asked(u)
       /\ Answered(u)' = Answered(u) \cup {n \in Owed(s) : calls[n].by = u}
       /\ ToSet(mbox[u]) \subseteq ToSet(mbox[u])'
       /\ (\E n \in watching[s] : calls[n].to = u) =>
            To("notice", 0, s) \in ToSet(mbox[u])'
  /\ \A u \in Service \ up : mbox'[u] = mbox[u]

LEMMA ExitEffect ==
  ASSUME BoundAssumption, ServiceAssumption, SInv, NEW s \in Service, Exit(s)
  PROVE  /\ MailInv' /\ mbox' \in [Service -> Seq(Message)] /\ Exits(s)
  <1> DEFINE owed(t) == {n \in Owed(s) : calls[n].by = t}
             errors(t) == LET q == SetToSeq(owed(t)) IN
                          [i \in DOMAIN q |-> To("error", q[i], s)]
             x == To("notice", 0, s)
             asked(t) == {n \in watching[s] : calls[n].to = t}
             notice(t) ==
               (IF asked(t) \cap named = {} THEN <<>> ELSE <<x>>)
               \o (IF asked(t) \subseteq named THEN <<>> ELSE <<x>>)
  <1>1. /\ s \in up /\ up' = up \ {s} /\ calls' = calls
        /\ mbox' = [t \in Service |-> IF t \in up THEN mbox[t] \o errors(t)
                                                         \o notice(t)
                                      ELSE mbox[t]]
    BY DEF Exit
  <1>2. up \subseteq Service /\ mbox \in [Service -> Seq(Message)]
    BY DEF SInv, TablesType
  <1>3. /\ \A u \in Service : Orderly(mbox[u])
        /\ \A u \in Service : \A y : y \in ToSet(mbox[u]) => Addressed(y, u)
    BY DEF SInv, MailInv, ToSet
  <1>4. /\ \A n \in Owed(s) : n \in DOMAIN calls /\ calls[n].to = s
        /\ Owed(s) \subseteq Session
    BY TablesTyped DEF SInv, OwnInv, TableInv, Owed, Served, Typed
  <1>5. /\ x \in Message /\ x.kind = "notice" /\ x.from = s
        /\ ~IsAnswer(x)
    BY BoundAssumption DEF To, Message, IsAnswer
  <1>6. \A y, u : Addressed(y, u) => Addressed(y, u)'
    BY <1>1 DEF Addressed
  <1>7. \A u : Addressed(x, u)'
    BY <1>1, <1>5 DEF Addressed
  <1>8. ASSUME NEW t \in up, NEW e, e = errors(t), NEW o, o = notice(t)
        PROVE  /\ mbox'[t] \in Seq(Message) /\ Orderly(mbox'[t])
               /\ Requests(mbox'[t]) = Requests(mbox[t])
               /\ Answers(mbox'[t]) = Answers(mbox[t]) \cup owed(t)
               /\ ToSet(mbox[t]) \subseteq ToSet(mbox'[t])
               /\ (\E n \in watching[s] : calls[n].to = t) =>
                    x \in ToSet(mbox'[t])
               /\ \A y \in ToSet(mbox'[t]) : Addressed(y, t)'
    <2>1. PICK q : q = mbox[t]
      OBVIOUS
    <2>2. mbox'[t] = (q \o e) \o o
      BY <1>1, <1>2, <1>8, <2>1
    <2>3. q \in Seq(Message) /\ Orderly(q)
      BY <1>2, <1>3, <2>1
    <2>4. PICK S : S = owed(t)
      OBVIOUS
    <2>5. e = [i \in DOMAIN SetToSeq(S) |-> To("error", SetToSeq(S)[i], s)]
      BY <1>8, <2>4
    <2>6. S \subseteq Session /\ S \subseteq Owed(s)
          /\ \A n \in S : calls[n].by = t
      BY <1>4, <2>4
    <2>7. PICK o1 \in {<<>>, <<x>>}, o2 \in {<<>>, <<x>>} :
            /\ o = o1 \o o2
            /\ (\E n \in watching[s] : calls[n].to = t) =>
                 o1 = <<x>> \/ o2 = <<x>>
      <3> DEFINE p1 == IF asked(t) \cap named = {} THEN <<>> ELSE <<x>>
                 p2 == IF asked(t) \subseteq named THEN <<>> ELSE <<x>>
      <3>1. p1 \in {<<>>, <<x>>} /\ p2 \in {<<>>, <<x>>} /\ o = p1 \o p2
        BY <1>8
      <3>2. (\E n \in watching[s] : calls[n].to = t) =>
              p1 = <<x>> \/ p2 = <<x>>
        OBVIOUS
      <3> HIDE DEF p1, p2
      <3> QED
        BY <3>1, <3>2
    <2> HIDE DEF owed, errors, notice, asked, x
    <2>8. /\ e \in Seq(Message) /\ Orderly(e)
          /\ Requests(e) = {} /\ Answers(e) = S
          /\ \A y : y \in ToSet(e) <=> \E n \in S : y = To("error", n, s)
      BY <2>5, <2>6, ErrorsOf
    <2>9. /\ o \in Seq(Message) /\ Orderly(o)
          /\ Requests(o) = {} /\ Answers(o) = {} /\ ToSet(o) \subseteq {x}
          /\ o1 = <<x>> \/ o2 = <<x>> => x \in ToSet(o)
      <3>1. ASSUME NEW p \in {<<>>, <<x>>}
            PROVE  /\ p \in Seq(Message) /\ Orderly(p)
                   /\ Requests(p) = {} /\ Answers(p) = {}
                   /\ ToSet(p) \subseteq {x} /\ (p = <<x>> => x \in ToSet(p))
        <4>1. CASE p = <<>>
          <5>1. /\ <<>> \in Seq(Message) /\ Orderly(<<>>) /\ ToSet(<<>>) = {}
                /\ Requests(<<>>) = {} /\ Answers(<<>>) = {} /\ <<>> # <<x>>
            BY DEF Orderly, ToSet, Requests, Answers
          <5> QED
            BY <4>1, <5>1
        <4>2. CASE p = <<x>>
          BY <1>5, <4>2, OneMessage
        <4> QED
          BY <4>1, <4>2
      <3>2. /\ \A y \in ToSet(o2) : y.kind # "notice" => y.session \in Session
            /\ \A y \in ToSet(o1), z \in ToSet(o2) :
                 y.kind = "notice" /\ y.from = z.from => z.kind = "notice"
            /\ Requests(o1) \cap Requests(o2) = {}
            /\ Answers(o1) \cap Answers(o2) = {}
        <4>1. \A y \in ToSet(o2) : y = x
          BY <3>1
        <4>2. Requests(o1) = {} /\ Answers(o1) = {}
          BY <3>1
        <4> QED
          BY <1>5, <4>1, <4>2
      <3>3. /\ o1 \o o2 \in Seq(Message) /\ Orderly(o1 \o o2)
            /\ Requests(o1 \o o2) = Requests(o1) \cup Requests(o2)
            /\ Answers(o1 \o o2) = Answers(o1) \cup Answers(o2)
            /\ ToSet(o1 \o o2) = ToSet(o1) \cup ToSet(o2)
        BY <3>1, <3>2, ConcatOfMail, ZenonT(40)
      <3> QED
        BY <2>7, <3>1, <3>3
    <2>10. \A y \in ToSet(e) : /\ y.kind = "error" /\ y.session \in S
                               /\ y.from = s
      BY <2>8 DEF To
    <2>11. \A y \in ToSet(q) : y.kind = "notice" => y.from # s
      BY <1>1, <1>2, <1>3, <2>1 DEF Addressed, IsAnswer
    <2>12. Answers(q) \cap S = {}
      <3>1. Pending(s) \cap Answered(t) = {}
        BY <1>1, <1>2 DEF SInv, OnceInv
      <3> QED
        BY <2>1, <2>6, <3>1 DEF Pending, Answered
    <2>13. /\ q \o e \in Seq(Message) /\ Orderly(q \o e)
           /\ Requests(q \o e) = Requests(q)
           /\ Answers(q \o e) = Answers(q) \cup S
           /\ ToSet(q \o e) = ToSet(q) \cup ToSet(e)
      <3>1. /\ \A y \in ToSet(e) : y.kind # "notice" => y.session \in Session
            /\ \A z \in ToSet(q), y \in ToSet(e) :
                 z.kind = "notice" /\ z.from = y.from => y.kind = "notice"
            /\ Requests(q) \cap Requests(e) = {}
            /\ Answers(q) \cap Answers(e) = {}
        BY <2>6, <2>8, <2>10, <2>11, <2>12
      <3>2. /\ q \o e \in Seq(Message) /\ Orderly(q \o e)
            /\ Requests(q \o e) = Requests(q) \cup Requests(e)
            /\ Answers(q \o e) = Answers(q) \cup Answers(e)
            /\ ToSet(q \o e) = ToSet(q) \cup ToSet(e)
        BY <2>3, <2>8, <3>1, ConcatOfMail
      <3> QED
        BY <2>8, <3>2
    <2>14. PICK p : p = q \o e
      OBVIOUS
    <2>15. /\ p \o o \in Seq(Message) /\ Orderly(p \o o)
           /\ Requests(p \o o) = Requests(p) \cup Requests(o)
           /\ Answers(p \o o) = Answers(p) \cup Answers(o)
           /\ ToSet(p \o o) = ToSet(p) \cup ToSet(o)
      <3>1. /\ \A y \in ToSet(o) : y.kind # "notice" => y.session \in Session
            /\ \A z \in ToSet(p), y \in ToSet(o) :
                 z.kind = "notice" /\ z.from = y.from => y.kind = "notice"
            /\ Requests(p) \cap Requests(o) = {}
            /\ Answers(p) \cap Answers(o) = {}
        BY <1>5, <2>9
      <3>2. p \in Seq(Message) /\ Orderly(p)
        BY <2>13, <2>14
      <3> QED
        BY <2>9, <3>1, <3>2, ConcatOfMail
    <2>16. \A y \in ToSet(e) : Addressed(y, t)'
      <3> SUFFICES ASSUME NEW n \in S PROVE Addressed(To("error", n, s), t)'
        BY <2>8
      <3>1. calls[n] \in [by : Service, to : Service \cup {Timer}]
        BY <1>4, <2>6, CallType DEF SInv
      <3>2. calls[n] = [by |-> t, to |-> s] /\ n \in DOMAIN calls
        BY <1>4, <2>6, <3>1
      <3> QED
        BY <1>1, <3>2 DEF Addressed, IsAnswer, To
    <2>17. \A y \in ToSet(mbox'[t]) : Addressed(y, t)'
      <3>1. \A y \in ToSet(q) : Addressed(y, t)'
        BY <1>2, <1>3, <1>6, <2>1
      <3> QED
        BY <1>7, <2>2, <2>9, <2>13, <2>14, <2>15, <2>16, <3>1
    <2> QED
      BY <2>1, <2>2, <2>4, <2>7, <2>9, <2>13, <2>14, <2>15, <2>17
  <1>9. \A t \in Service \ up : mbox'[t] = mbox[t]
    BY <1>1
  <1> HIDE DEF owed, errors, notice, asked, x
  <1>10. mbox' \in [Service -> Seq(Message)]
    <2>1. \A t \in Service : mbox'[t] \in Seq(Message)
      BY <1>2, <1>8, <1>9
    <2>2. DOMAIN mbox' = Service /\ mbox' = [t \in DOMAIN mbox' |-> mbox'[t]]
      BY <1>1
    <2> QED
      BY <2>1, <2>2
  <1>11. MailInv'
    <2>1. \A u \in Service : /\ Orderly(mbox'[u])
                             /\ \A y \in ToSet(mbox'[u]) : Addressed(y, u)'
      BY <1>2, <1>3, <1>6, <1>8, <1>9
    <2>2. \A u \in Service : \A i \in DOMAIN mbox'[u] :
            mbox'[u][i] \in ToSet(mbox'[u])
      BY DEF ToSet
    <2> QED
      BY <2>1, <2>2 DEF MailInv
  <1>12. Exits(s)
    BY <1>8, <1>9 DEF Exits, Asked, Answered, owed, x
  <1> QED
    BY <1>10, <1>11, <1>12

LEMMA ExitStep ==
  ASSUME BoundAssumption, ServiceAssumption, SInv, NEW s \in Service, Exit(s)
  PROVE  SInv' /\ Accounts
  <1>1. /\ s \in up /\ up' = up \ {s}
        /\ phase' = [phase EXCEPT ![s] = "idle"]
        /\ run' = [run EXCEPT ![s] = NoCo]
        /\ forkq' = [forkq EXCEPT ![s] = <<>>]
        /\ wait' = [wait EXCEPT ![s] = <<>>]
        /\ watching' = [watching EXCEPT ![s] = {}]
        /\ unresponse' = [unresponse EXCEPT ![s] = {}]
        /\ errorq' = [errorq EXCEPT ![s] = <<>>]
        /\ token' = [token EXCEPT ![s] = 0]
        /\ wakeq' = [wakeq EXCEPT ![s] = 0]
        /\ stranded' = stranded \cup (named \cap Asked(s))
        /\ UNCHANGED <<calls, left, timers, forks>>
    BY DEF Exit, Leave, Enter, Asked
  <1>2. MailInv' /\ mbox' \in [Service -> Seq(Message)] /\ Exits(s)
    BY ExitEffect
  <1>3. /\ phase'[s] = "idle" /\ run'[s] = NoCo /\ wait'[s] = <<>>
        /\ watching'[s] = {} /\ unresponse'[s] = {} /\ errorq'[s] = <<>>
        /\ token'[s] = 0 /\ Others(s) /\ Known /\ up \subseteq Service
    BY <1>1 DEF SInv, TablesType, Others, Known
  <1>4. DOMAIN <<>> = {} /\ <<>> \in Table /\ ToSet(<<>>) = {}
        /\ IsInjective(<<>>)
    <2>1. DOMAIN <<>> = {}
      OBVIOUS
    <2>2. <<>> = [k \in DOMAIN <<>> |-> <<>>[k]]
      OBVIOUS
    <2> QED
      BY <2>1, <2>2, TableType DEF ToSet, IsInjective
  <1>5. TablesType'
    <2>1. wait' \in [Service -> Table]
      BY <1>1, <1>4 DEF SInv, TablesType, Table
    <2>2. run' \in [Service -> Session \cup {Free, Blank, NoCo}]
      BY <1>1 DEF SInv, TablesType
    <2>3. phase' \in [Service -> {"idle", "run", "chain", "forks"}]
      BY <1>1 DEF SInv, TablesType
    <2>4. /\ token' \in [Service -> 0..MaxSession]
          /\ wakeq' \in [Service -> 0..MaxWake]
      BY <1>1, BoundAssumption DEF SInv, TablesType
    <2>5. /\ watching' \in [Service -> SUBSET Session]
          /\ unresponse' \in [Service -> SUBSET Session]
          /\ errorq' \in [Service -> Seq(Session)]
          /\ forkq' \in [Service -> Seq({Free, Blank})]
      BY <1>1 DEF SInv, TablesType
    <2> QED
      BY <1>1, <1>2, <2>1, <2>2, <2>3, <2>4, <2>5 DEF SInv, TablesType, Table
  <1>6. \A u \in Service \ {s} :
          OwnInv(u)' /\ Owed(u)' = Owed(u) /\ Failed(u)' = Failed(u)
    BY <1>1, <1>3, OtherTables DEF SInv
  <1>7. Owed(s)' = {} /\ Failed(s)' = {}
    BY <1>3, <1>4 DEF Owed, Served, Failed, NoCo, Session
  <1>8. OwnInv(s)'
    BY <1>1, <1>3, <1>4, <1>7
    DEF OwnInv, PhaseInv, TableInv, ServedInv, ResumeInv
  <1>9. \A u \in Service : /\ Asked(u)' = Asked(u)
                           /\ Failed(u)' \subseteq Failed(u)
                           /\ Owed(u)' \subseteq Owed(u)
                           /\ Pending(u)' \subseteq Pending(u)
                           /\ \A n \in Answered(u)' \ Answered(u) :
                                n \in Owed(s) /\ calls[n].by = u /\ u \in up
    BY <1>2, <1>6, <1>7 DEF Exits, Asked, Answered, Pending
  <1>10. \A n \in Owed(s) : /\ calls[n].to = s
                            /\ \A u \in Service : n \notin Failed(u)
                            /\ n \notin timers
    BY <1>1, ServiceAssumption
    DEF SInv, OwnInv, TableInv, OnceInv, Pending, TimersInv
  <1>11. \A t \in up \ {s} : \A n \in Pending(t) : calls[n].to = t
    BY <1>3, MailKnown DEF Pending, SInv, OwnInv, TableInv
  <1>12. OnceInv'
    <2>1. \A u \in Service : Asked(u)' \cap Owed(u)' = {}
      BY <1>9 DEF SInv, OnceInv
    <2>2. \A u, t \in Service : t \in up' =>
            Pending(t)' \cap (Answered(u)' \cup Failed(u)') = {}
      <3> SUFFICES ASSUME NEW u \in Service, NEW t \in up \ {s}
                   PROVE  Pending(t)' \cap (Answered(u)' \cup Failed(u)') = {}
        BY <1>1
      <3>1. Pending(t) \cap (Answered(u) \cup Failed(u)) = {}
        BY <1>3 DEF SInv, OnceInv
      <3> QED
        BY <1>3, <1>9, <1>10, <1>11, <3>1
    <2>3. \A u \in Service : Answered(u)' \cap (Failed(u)' \cup timers') = {}
      BY <1>1, <1>9, <1>10 DEF SInv, OnceInv
    <2> QED
      BY <2>1, <2>2, <2>3 DEF OnceInv
  <1>13. WaitInv'
    <2>1. \A u \in up \ {s} : /\ wait'[u] = wait[u]
                              /\ watching'[u] = watching[u]
      BY <1>3 DEF Others
    <2>2. \A u \in up : \A n \in Owed(s) : calls[n].by = u =>
            n \in watching[u] /\ n \in DOMAIN wait[u]
      BY <1>1, <1>3 DEF SInv, WaitInv, Pending, OwnInv, ResumeInv
    <2> QED
      BY <1>1, <1>3, <1>9, <2>1, <2>2 DEF SInv, WaitInv
  <1>14. TimersInv' /\ TurnInv'
    BY <1>1 DEF SInv, TimersInv, TurnInv
  <1>15. Accounts
    <2>1. \A u \in up' : /\ u \in up /\ u # s /\ watching'[u] = watching[u]
                         /\ Answered(u) \subseteq Answered(u)'
                         /\ Failed(u)' = Failed(u)
                         /\ Pending(u)' = Pending(u)
                         /\ ToSet(mbox[u]) \subseteq ToSet(mbox[u])'
      BY <1>1, <1>2, <1>3, <1>6, <1>9 DEF Exits, Others, Pending
    <2>2. ASSUME NEW n \in Pending(s), NEW u \in up', calls[n].by = u
          PROVE  \/ /\ \E x \in ToSet(mbox[s])' : x.from = u
                    /\ n \in named => n \in stranded'
                 \/ n \in Answered(u)'
      <3>1. CASE n \in Owed(s)
        BY <1>2, <2>1, <2>2, <3>1 DEF Exits
      <3>2. CASE n \in Asked(s)
        <4>1. PICK i \in DOMAIN mbox[s] : mbox[s][i].kind = "request"
                                         /\ mbox[s][i].session = n
          BY <3>2 DEF Asked, Requests
        <4>2. mbox[s][i].from = u
          <5>1. Addressed(mbox[s][i], s)
            BY DEF SInv, MailInv
          <5> QED
            BY <2>2, <4>1, <5>1 DEF Addressed, IsAnswer
        <4>3. mbox[s][i] \in ToSet(mbox[s])
          BY DEF ToSet
        <4> QED
          BY <1>1, <1>2, <3>2, <4>2, <4>3 DEF Exits
      <3> QED
        BY <3>1, <3>2 DEF Pending
    <2>3. /\ up' \subseteq up /\ s \notin up'
          /\ \A t \in up : t \in up' \/ t = s
          /\ \A t \in Service \ up : ToSet(mbox[t])' = ToSet(mbox[t])
      BY <1>1, <1>2 DEF Exits
    <2> QED
      BY <1>3, <2>1, <2>2, <2>3 DEF Accounts
  <1> QED
    BY <1>15, <1>2, <1>5, <1>6, <1>8, <1>12, <1>13, <1>14 DEF SInv

LEMMA InitInv ==
  ASSUME BoundAssumption, ServiceAssumption, Init
  PROVE  SInv
  <1>1. DOMAIN <<>> = {} /\ <<>> \in Table /\ ToSet(<<>>) = {}
        /\ IsInjective(<<>>)
    <2>1. DOMAIN <<>> = {}
      OBVIOUS
    <2>2. <<>> = [k \in DOMAIN <<>> |-> <<>>[k]]
      OBVIOUS
    <2> QED
      BY <2>1, <2>2, TableType DEF ToSet, IsInjective
  <1>2. /\ calls = <<>> /\ up = Service /\ timers = {} /\ forks = 0
        /\ \A s \in Service :
             /\ mbox[s] = <<>> /\ left[s] = 0 /\ phase[s] = "forks"
             /\ run[s] = NoCo /\ wait[s] = <<>> /\ watching[s] = {}
             /\ unresponse[s] = {} /\ errorq[s] = <<>>
             /\ token[s] = 0 /\ wakeq[s] = 0
    BY DEF Init
  <1>3. TablesType
    <2>1. wait \in [Service -> Table]
      BY <1>1 DEF Init
    <2>2. calls \in Seq([by : Service, to : Service \cup {Timer}])
          /\ Len(calls) <= MaxSession
      BY <1>2, BoundAssumption
    <2>3. forkq \in [Service -> Seq({Free, Blank})]
      <3>1. <<Free>> \in Seq({Free, Blank}) /\ <<>> \in Seq({Free, Blank})
        OBVIOUS
      <3>2. forkq = [s \in Service |-> IF s \in First THEN <<Free>> ELSE <<>>]
        BY DEF Init
      <3> QED
        BY <3>1, <3>2
    <2>4. /\ mbox \in [Service -> Seq(Message)]
          /\ left \in [Service -> Nat]
          /\ phase \in [Service -> {"idle", "run", "chain", "forks"}]
          /\ run \in [Service -> Session \cup {Free, Blank, NoCo}]
      BY DEF Init
    <2>5. /\ watching \in [Service -> SUBSET Session]
          /\ unresponse \in [Service -> SUBSET Session]
          /\ errorq \in [Service -> Seq(Session)]
      BY DEF Init
    <2>6. /\ token \in [Service -> 0..MaxSession]
          /\ wakeq \in [Service -> 0..MaxWake]
          /\ timers \subseteq Session /\ forks \in 0..MaxFork
      BY BoundAssumption DEF Init
    <2> QED
      BY <1>2, <2>1, <2>2, <2>3, <2>4, <2>5, <2>6 DEF TablesType, Table
  <1>4. MailInv
    BY <1>2 DEF MailInv, Orderly
  <1>5. \A s \in Service : /\ Owed(s) = {} /\ Failed(s) = {}
                           /\ Asked(s) = {} /\ Answered(s) = {}
    BY <1>1, <1>2 DEF Owed, Served, Failed, Asked, Answered, Requests,
                      Answers, NoCo, Session
  <1>6. \A s \in Service : OwnInv(s)
    BY <1>1, <1>2, <1>5
    DEF OwnInv, PhaseInv, TableInv, ServedInv, ResumeInv
  <1>7. TimersInv /\ OnceInv /\ WaitInv /\ TurnInv
    BY <1>2, <1>5 DEF TimersInv, OnceInv, WaitInv, TurnInv, Pending
  <1> QED
    BY <1>3, <1>4, <1>6, <1>7 DEF SInv

LEMMA StutterStep ==
  ASSUME SInv, UNCHANGED vars
  PROVE  SInv' /\ Accounts
  <1>1. \A u \in Service :
          /\ Asked(u)' = Asked(u) /\ Answered(u)' = Answered(u)
          /\ Owed(u)' = Owed(u) /\ Failed(u)' = Failed(u)
          /\ Pending(u)' = Pending(u) /\ OwnInv(u)'
    BY DEF vars, Asked, Answered, Owed, Served, Failed, Pending,
           OwnInv, PhaseInv, TableInv, ServedInv, ResumeInv, SInv
  <1>2. TablesType' /\ MailInv' /\ TimersInv' /\ TurnInv'
    BY DEF vars, SInv, TablesType, MailInv, Addressed, TimersInv, TurnInv
  <1>3. up \subseteq Service
    BY DEF SInv, TablesType
  <1>4. OnceInv' /\ WaitInv'
    BY <1>1, <1>3 DEF vars, SInv, OnceInv, WaitInv
  <1>5. UNCHANGED <<calls, up, mbox, watching>>
    BY DEF vars
  <1>6. Accounts
    BY <1>1, <1>3, <1>5, SameAccounts DEF SInv
  <1> QED
    BY <1>1, <1>2, <1>4, <1>6 DEF SInv

LEMMA NextStep ==
  ASSUME SInv, [Next]_vars
  PROVE  SInv' /\ (~Batch => Accounts)
  <1> USE BoundAssumption, ServiceAssumption
  <1>1. ASSUME NEW s \in Service, Dispatch(s)
        PROVE  SInv' /\ (~Batch => Accounts)
    BY <1>1, TakeRequestStep, TakeResponseStep, TakeErrorStep,
       TakeNoticeStep, DispatchWakeupStep, DispatchErrorStep, EndChainStep,
       RunForkedStep, DiscardStep DEF Dispatch
  <1>2. ASSUME NEW s \in Service, Program(s)
        PROVE  SInv' /\ Accounts
    BY <1>2, CallServiceStep, AnswerStep, SleepStep, WakeupStep, RetStep,
       ResponseStep, ForkStep, EndStep, RaiseStep, ExitStep DEF Program
  <1>3. ASSUME NEW n \in Session, TimeOut(n)
        PROVE  SInv' /\ Accounts
    BY <1>3, TimeOutStep
  <1>4. CASE UNCHANGED vars
    BY <1>4, StutterStep
  <1> QED
    BY <1>1, <1>2, <1>3, <1>4 DEF Next

-----------------------------------------------------------------------------
(* SInv holds at the start and every step keeps it.                        *)
THEOREM SessionsInvariance == Spec => []SInv
  <1>1. Init => SInv
    BY InitInv, BoundAssumption, ServiceAssumption
  <1>2. SInv /\ [Next]_vars => SInv'
    BY NextStep
  <1> QED
    BY <1>1, <1>2, PTL DEF Spec

(* What a step does to the addresses of calls.                             *)
NamesMove ==
  \/ /\ stranded' = stranded /\ UNCHANGED up
     /\ \/ named' = named
        \/ named' = named \cup {Len(calls) + 1} /\ Len(calls) + 1 <= MaxSession
        \/ \E s \in Service : \E n \in watching[s] \cup DOMAIN wait[s] :
             named' = named \ {n} /\ n \notin watching'[s]
  \/ \E s \in Service : /\ named' = named \ watching[s] /\ up' = up \ {s}
                         /\ stranded' = stranded \cup (named \cap Asked(s))

LEMMA NamesCover ==
  ASSUME SInv, [Next]_vars
  PROVE  NamesMove
  <1>1. ASSUME NEW s \in Service, TakeResponse(s)
        PROVE  NamesMove
    <2>1. PICK n : n = Head(mbox[s]).session
      OBVIOUS
    <2>2. stranded' = stranded /\ UNCHANGED up
      BY <1>1 DEF TakeResponse, Take
    <2>3. CASE n \notin DOMAIN wait[s] \/ wait[s][n] = Break
      BY <1>1, <2>1, <2>2, <2>3 DEF TakeResponse, NamesMove
    <2>4. CASE ~(n \notin DOMAIN wait[s] \/ wait[s][n] = Break)
      <3>1. /\ watching' = [watching EXCEPT ![s] = @ \ {n}]
            /\ named' = named \ {n}
        BY <1>1, <2>1, <2>4 DEF TakeResponse
      <3>2. n \notin watching'[s]
        BY <3>1 DEF SInv, TablesType
      <3> QED
        BY <2>2, <2>4, <3>1, <3>2 DEF NamesMove
    <2> QED
      BY <2>3, <2>4
  <1>2. ASSUME NEW s \in Service, DispatchError(s)
        PROVE  NamesMove
    <2>1. PICK n : n = Head(errorq[s])
      OBVIOUS
    <2>2. /\ watching' = [watching EXCEPT ![s] = @ \ {n}]
          /\ named' = named \ {n} /\ errorq[s] # <<>>
          /\ stranded' = stranded /\ UNCHANGED up
      BY <1>2, <2>1 DEF DispatchError, Ready
    <2>3. n \in watching[s]
      <3>1. /\ errorq[s] \in Seq(Session)
            /\ ToSet(errorq[s]) \subseteq watching[s]
        BY DEF SInv, TablesType, OwnInv, ResumeInv
      <3>2. 1 \in DOMAIN errorq[s] /\ n = errorq[s][1]
        BY <2>1, <2>2, <3>1
      <3> QED
        BY <3>1, <3>2 DEF ToSet
    <2>4. n \notin watching'[s]
      BY <2>2 DEF SInv, TablesType
    <2> QED
      BY <2>2, <2>3, <2>4 DEF NamesMove
  <1>3. ASSUME NEW s \in Service, NEW t \in Service, NEW byName \in BOOLEAN,
               CallService(s, t, byName)
        PROVE  NamesMove
    BY <1>3 DEF CallService, Acts, Runs, NamesMove
  <1>4. ASSUME NEW s \in Service, Exit(s)
        PROVE  NamesMove
    BY <1>4 DEF Exit, NamesMove, Asked
  <1>5. ASSUME NEW s \in Service,
               \/ TakeRequest(s) \/ TakeError(s) \/ TakeNotice(s)
               \/ DispatchWakeup(s) \/ EndChain(s) \/ RunForked(s)
               \/ Discard(s)
        PROVE  UNCHANGED <<named, stranded, up>>
    BY <1>5 DEF TakeRequest, TakeError, TakeNotice, Take, DispatchWakeup,
                EndChain, RunForked, Ready, Discard, Around
  <1>6. ASSUME NEW s \in Service,
               \/ \E n \in Session, ok \in BOOLEAN : Answer(s, n, ok)
               \/ Sleep(s) \/ Wakeup(s) \/ Ret(s) \/ Response(s) \/ Fork(s)
               \/ End(s) \/ Raise(s)
        PROVE  UNCHANGED <<named, stranded, up>>
    BY <1>6 DEF Answer, Sleep, Wakeup, Ret, Response, Fork, End, Raise, Acts,
                Runs
  <1>7. ASSUME NEW n \in Session, TimeOut(n)
        PROVE  UNCHANGED <<named, stranded, up>>
    BY <1>7 DEF TimeOut, Around
  <1>8. CASE UNCHANGED vars
    BY <1>8 DEF vars, NamesMove
  <1>9. UNCHANGED <<named, stranded, up>> => NamesMove
    BY DEF NamesMove
  <1> QED
    BY <1>1, <1>2, <1>3, <1>4, <1>5, <1>6, <1>7, <1>8, <1>9
    DEF Next, Dispatch, Program

LEMMA NamesType ==
  ASSUME SInv, TypeOK, [Next]_vars
  PROVE  named' \subseteq Session /\ stranded' \subseteq Session
  <1>1. named \subseteq Session /\ stranded \subseteq Session
    BY DEF TypeOK
  <1>2. Len(calls) + 1 <= MaxSession => Len(calls) + 1 \in Session
    BY BoundAssumption DEF SInv, TablesType, Session
  <1>3. NamesMove
    BY NamesCover
  <1> QED
    BY <1>1, <1>2, <1>3 DEF NamesMove

LEMMA NamesStep ==
  ASSUME SInv, [Next]_vars
  PROVE  Remembers
  <1>1. \A u, s \in Service : \A n \in watching[u] :
          n \in watching[s] \cup DOMAIN wait[s] => u = s
    BY DEF SInv, OwnInv, TableInv, ResumeInv
  <1>2. \A u \in Service : \A n \in watching[u] : n # Len(calls) + 1
    BY DEF SInv, OwnInv, TableInv, TablesType
  <1>3. NamesMove /\ up \subseteq Service
    BY NamesCover DEF SInv, TablesType
  <1> QED
    BY <1>1, <1>2, <1>3 DEF NamesMove, Remembers

(* Every variable has its type. *)
THEOREM SessionsTypes == Spec => []TypeOK
  <1>1. Init => TypeOK
    BY InitInv, BoundAssumption, ServiceAssumption DEF SInv, TypeOK, Init
  <1>2. SInv /\ SInv' /\ TypeOK /\ [Next]_vars => TypeOK'
    BY NamesType DEF SInv, TypeOK
  <1> QED
    BY <1>1, <1>2, SessionsInvariance, PTL DEF Spec

(* A coroutine that yields is resumed once: no answer comes for a session  *)
(* that is not known, none fails twice, and what can be woken sleeps.      *)
THEOREM ResumedOnlyOnce == Spec => []ResumedOnce
  <1>1. ASSUME SInv PROVE ResumedOnce
    <2> SUFFICES ASSUME NEW s \in up
                 PROVE
                   /\ watching[s] \subseteq
                        {n \in DOMAIN wait[s] : wait[s][n] # Break}
                   /\ ToSet(errorq[s]) \subseteq watching[s]
                   /\ IsInjective(errorq[s])
                   /\ \A i \in DOMAIN mbox[s] :
                        mbox[s][i].kind = "response" =>
                          mbox[s][i].session \in DOMAIN wait[s]
                   /\ token[s] # 0 => token[s] \in DOMAIN wait[s]
                                      /\ wait[s][token[s]] # Break
      BY DEF ResumedOnce
    <2>1. s \in Service /\ ResumeInv(s) /\ TablesType
      BY <1>1 DEF SInv, TablesType, OwnInv
    <2>2. ASSUME NEW i \in DOMAIN mbox[s], mbox[s][i].kind = "response"
          PROVE  mbox[s][i].session \in DOMAIN wait[s]
      <3>1. Addressed(mbox[s][i], s)
        BY <1>1, <2>1 DEF SInv, MailInv
      <3>2. mbox[s][i].session \in Session
        BY <2>1, <2>2, <3>1, AddressedSession, BoundAssumption
      <3>3. mbox[s][i].session \in Answered(s)
        BY <2>2, <3>2 DEF Answered, Answers, IsAnswer
      <3> QED
        BY <1>1, <3>3 DEF SInv, WaitInv
    <2> QED
      BY <2>1, <2>2 DEF ResumeInv
  <1> QED
    BY <1>1, SessionsInvariance, PTL

LEMMA AccountHolds ==
  ASSUME ServiceAssumption, SInv, AccountInv
  PROVE  CallAccounted
  <1> SUFFICES ASSUME NEW s \in up, NEW n \in watching[s],
                      NEW t, t = calls[n].to
               PROVE
                 \/ \E i \in DOMAIN mbox[t] :
                      IF t \in up
                      THEN /\ mbox[t][i].kind = "request"
                           /\ mbox[t][i].kind # "notice"
                           /\ mbox[t][i].session = n
                      ELSE mbox[t][i].from = s /\ n \notin named
                 \/ run[t] = n \/ n \in unresponse[t]
                 \/ \E k \in DOMAIN wait[t] : wait[t][k] = n
                 \/ \E i \in DOMAIN mbox[s] :
                      /\ mbox[s][i].kind # "request"
                      /\ \/ /\ mbox[s][i].kind # "notice"
                            /\ mbox[s][i].session = n
                         \/ /\ mbox[s][i].kind = "notice"
                            /\ mbox[s][i].from = t /\ n \notin named
                 \/ Contains(errorq[s], n)
                 \/ n \in named \cap stranded
    BY DEF CallAccounted
  <1>1. s \in Service /\ Typed(s)
    BY TablesTyped DEF SInv, TablesType
  <1>2. \/ t \in up /\ n \in Pending(t)
        \/ n \in Answered(s) \cup Failed(s)
        \/ n \in named \cap stranded
        \/ /\ n \notin named
           /\ t \notin up /\ \E m \in ToSet(mbox[t]) : m.from = s
        \/ /\ n \notin named
           /\ \E m \in ToSet(mbox[s]) : m.kind = "notice" /\ m.from = t
    BY DEF AccountInv
  <1>3. CASE t \in up /\ n \in Asked(t)
    BY <1>3 DEF Asked, Requests
  <1>4. CASE n \in Owed(t)
    BY <1>4 DEF Owed, Served
  <1>5. CASE /\ n \notin named
             /\ t \notin up /\ \E m \in ToSet(mbox[t]) : m.from = s
    BY <1>5 DEF ToSet
  <1>6. CASE n \in Answered(s)
    BY <1>6 DEF Answered, Answers, IsAnswer
  <1>7. CASE n \in Failed(s)
    <2>1. DOMAIN errorq[s] = 1..Len(errorq[s])
      BY <1>1 DEF Typed
    <2> QED
      BY <1>7, <2>1 DEF Failed, ToSet, Contains
  <1>8. CASE /\ n \notin named
             /\ \E m \in ToSet(mbox[s]) : m.kind = "notice" /\ m.from = t
    BY <1>8 DEF ToSet
  <1> QED
    BY <1>2, <1>3, <1>4, <1>5, <1>6, <1>7, <1>8 DEF Pending

(* Where a worker takes one message a turn no call by handle is forgotten: *)
(* whoever sent something to a service that exits is told that it is down. *)
(* A call by name is only forgotten with its request not read by a service *)
(* that has exited.                                                        *)
THEOREM NoCallForgotten == ~Batch => (Spec => []CallAccounted)
  <1> SUFFICES ASSUME ~Batch PROVE Spec => []CallAccounted
    OBVIOUS
  <1>1. Init => AccountInv
    BY DEF Init, AccountInv
  <1>2. SInv /\ AccountInv /\ [Next]_vars => AccountInv'
    BY NextStep, AccountStep, NamesStep
  <1>3. SInv /\ AccountInv => CallAccounted
    BY AccountHolds, ServiceAssumption
  <1> QED
    BY <1>1, <1>2, <1>3, SessionsInvariance, PTL DEF Spec
=============================================================================
