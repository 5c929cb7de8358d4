------------------------- MODULE SocketServerProofs -------------------------
(***************************************************************************)
(* The socket server keeps messages whole and in order, counts the sends   *)
(* to each socket and tells each owner once, for any number of workers,    *)
(* slots, ids and units: IInv is an invariant of SocketServer.tla.         *)
(***************************************************************************)
EXTENDS SocketServerInvariant, SequenceTheorems, FiniteSetTheorems,
        FunctionTheorems, WellFoundedInduction, TLAPS

-----------------------------------------------------------------------------
(* Slots and ids.                                                          *)

LEMMA SlotIsSlot ==
  ASSUME BoundAssumption, NEW id \in Nat
  PROVE  SlotOf(id) \in Slot
  BY DEF BoundAssumption, SlotOf, Slot

LEMMA ZeroIsSlot ==
  ASSUME BoundAssumption
  PROVE  0 \in Slot /\ Id \subseteq Nat \ {0}
  BY DEF BoundAssumption, Slot, Id

LEMMA Least ==
  ASSUME NEW T \in SUBSET Nat, NEW n \in T
  PROVE  \E m \in T : \A k \in T : m <= k
  <1> DEFINE R == {ss \in Nat \X Nat : ss[1] < ss[2]}
  <1>1. IsWellFoundedOn(R, Nat)
    BY NatLessThanWellFounded, Zenon DEF OpToRel
  <1>2. \E m \in T : \A k \in T : <<k, m>> \notin R
    <2> HIDE DEF R
    <2> QED
      BY <1>1, WFMin, Zenon
  <1>3. \A k, m \in Nat : <<k, m>> \notin R => m <= k
    OBVIOUS
  <1> QED
    BY <1>2, <1>3

(* reserve_id gives out an id larger than all before, whose slot is free.  *)
LEMMA FreeIdIsNew ==
  ASSUME BoundAssumption, TypeOK, MayReserve, FreeId # 0
  PROVE  /\ FreeId \in Id /\ FreeId > alloc /\ FreeId \in alloc..MaxId
         /\ SlotOf(FreeId) \in Slot
         /\ sock[SlotOf(FreeId)].type = "INVALID"
  <1> DEFINE free == {k \in 1..NSlot :
                        sock[SlotOf(alloc + k)].type = "INVALID"}
  <1>1. free # {} /\ FreeId = alloc + Min(free)
    BY DEF FreeId
  <1>2. Min(free) \in free
    <2>1. free \in SUBSET Nat
      BY DEF BoundAssumption
    <2> HIDE DEF free
    <2> QED
      BY <1>1, <2>1, Least DEF Min
  <1>3. PICK k \in 1..NSlot : /\ FreeId = alloc + k
                              /\ sock[SlotOf(alloc + k)].type = "INVALID"
    BY <1>1, <1>2
  <1>4. alloc \in Nat /\ k \in Nat /\ NSlot \in Nat /\ MaxId \in Nat
    BY DEF TypeOK, BoundAssumption
  <1>5. alloc + k \in Nat /\ alloc + k > alloc /\ alloc + k <= MaxId
    BY <1>3, <1>4 DEF MayReserve
  <1> QED
    BY <1>3, <1>4, <1>5, SlotIsSlot DEF Id

(* A socket has its fields. *)
LEMMA SocketFields ==
  ASSUME TypeOK, NEW sl \in Slot
  PROVE  /\ sock[sl] \in Socket /\ sock[sl].type \in Type
         /\ sock[sl].id \in 0..MaxId /\ sock[sl].tag \in 0..MaxId
         /\ sock[sl].tcp \in BOOLEAN /\ sock[sl].closing \in BOOLEAN
         /\ sock[sl].reading \in BOOLEAN /\ sock[sl].writing \in BOOLEAN
         /\ sock[sl].sending \in Nat /\ sock[sl].high \in Seq(Unit)
         /\ sock[sl].low \in Seq(Unit) /\ sock[sl].dw \in Seq(Unit)
         /\ sock[sl].lock \in Caller \cup {NoOne}
  <1>1. sock[sl] \in Socket
    BY DEF TypeOK
  <1> QED
    BY <1>1 DEF Socket

LEMMA CallFields ==
  ASSUME TypeOK, NEW c \in Caller
  PROVE  /\ call[c] \in Call /\ call[c].cmd \in Cmd
         /\ call[c].step \in {"idle", "fill", "post", "check", "direct",
                              "written", "ref"}
         /\ call[c].id \in 0..MaxId /\ call[c].msg \in 0..MaxSend
         /\ call[c].n \in 0..Units
  <1>1. call[c] \in Call
    BY DEF TypeOK
  <1> QED
    BY <1>1 DEF Call

LEMMA PipeFields ==
  ASSUME TypeOK, NEW i \in DOMAIN pipe
  PROVE  /\ pipe[i] \in Request /\ pipe[i].cmd \in Cmd
         /\ pipe[i].id \in Id /\ pipe[i].msg \in 0..MaxSend
  <1>1. pipe[i] \in Request
    BY DEF TypeOK
  <1> QED
    BY <1>1 DEF Request

(* The oldest request is taken out of the pipe. *)
LEMMA PipeTail ==
  ASSUME TypeOK, pipe # <<>>
  PROVE  /\ DOMAIN pipe = 1..Len(pipe) /\ Len(pipe) \in Nat \ {0}
         /\ 1 \in DOMAIN pipe /\ Head(pipe) = pipe[1]
         /\ Tail(pipe) \in Seq(Request)
         /\ Len(Tail(pipe)) = Len(pipe) - 1
         /\ DOMAIN Tail(pipe) = 1..(Len(pipe) - 1)
         /\ \A i \in DOMAIN Tail(pipe) :
              i + 1 \in DOMAIN pipe \ {1} /\ Tail(pipe)[i] = pipe[i + 1]
         /\ \A i \in DOMAIN pipe \ {1} :
              i - 1 \in DOMAIN Tail(pipe) /\ Tail(pipe)[i - 1] = pipe[i]
  <1>1. /\ pipe \in Seq(Request) /\ DOMAIN pipe = 1..Len(pipe)
        /\ Len(pipe) \in Nat \ {0} /\ 1 \in DOMAIN pipe /\ Head(pipe) = pipe[1]
        /\ Tail(pipe) \in Seq(Request)
        /\ DOMAIN Tail(pipe) = 1..(Len(pipe) - 1)
        /\ Len(Tail(pipe)) = Len(pipe) - 1
        /\ \A i \in DOMAIN Tail(pipe) :
             i + 1 \in DOMAIN pipe \ {1} /\ Tail(pipe)[i] = pipe[i + 1]
    BY DEF TypeOK
  <1>2. \A i \in DOMAIN pipe \ {1} :
          i - 1 \in DOMAIN Tail(pipe) /\ (i - 1) + 1 = i
    BY <1>1
  <1> QED
    BY <1>1, <1>2

LEMMA PipeAppend ==
  ASSUME TypeOK, NEW r \in Request, pipe' = Append(pipe, r)
  PROVE  /\ pipe' \in Seq(Request)
         /\ DOMAIN pipe = 1..Len(pipe) /\ Len(pipe) \in Nat
         /\ DOMAIN pipe' = 1..(Len(pipe) + 1)
         /\ \A i \in DOMAIN pipe : i \in DOMAIN pipe' /\ pipe'[i] = pipe[i]
         /\ Len(pipe) + 1 \in DOMAIN pipe' \ DOMAIN pipe
         /\ pipe'[Len(pipe) + 1] = r
         /\ \A i \in DOMAIN pipe' :
              i \in DOMAIN pipe \/ i = Len(pipe) + 1
         /\ \A i \in DOMAIN pipe : i < Len(pipe) + 1
  BY DEF TypeOK

-----------------------------------------------------------------------------
(* Words told.                                                             *)

LEMMA WordAdded ==
  ASSUME NEW t \in Seq(Word), NEW word \in Word
  PROVE  /\ Append(t, word) \in Seq(Word) /\ Append(t, word) # <<>>
         /\ \A w : Has(Append(t, word), w) <=> Has(t, w) \/ w = word
         /\ CloseLast(t) /\ (word = "err" \/ ~Has(t, "close")) =>
              CloseLast(Append(t, word))
  <1>1. /\ DOMAIN t = 1..Len(t) /\ Len(t) \in Nat
        /\ DOMAIN Append(t, word) = 1..(Len(t) + 1)
        /\ Append(t, word) \in Seq(Word)
        /\ \A i \in 1..Len(t) : Append(t, word)[i] = t[i]
        /\ Append(t, word)[Len(t) + 1] = word
    OBVIOUS
  <1>2. \A i \in 1..(Len(t) + 1) : i \in 1..Len(t) \/ i = Len(t) + 1
    BY <1>1
  <1>3. \A w : Has(Append(t, word), w) <=> Has(t, w) \/ w = word
    <2> SUFFICES ASSUME NEW w
                 PROVE  Has(Append(t, word), w) <=> Has(t, w) \/ w = word
      OBVIOUS
    <2>1. ASSUME Has(Append(t, word), w)
          PROVE  Has(t, w) \/ w = word
      BY <1>1, <1>2, <2>1 DEF Has
    <2>2. ASSUME Has(t, w)
          PROVE  Has(Append(t, word), w)
      <3>1. PICK i \in 1..Len(t) : t[i] = w
        BY <1>1, <2>2 DEF Has
      <3>2. i \in 1..(Len(t) + 1)
        BY <1>1
      <3> QED
        BY <1>1, <3>1, <3>2 DEF Has
    <2>3. ASSUME w = word
          PROVE  Has(Append(t, word), w)
      <3>1. Len(t) + 1 \in 1..(Len(t) + 1)
        BY <1>1
      <3> QED
        BY <1>1, <2>3, <3>1 DEF Has
    <2> QED
      BY <2>1, <2>2, <2>3
  <1>4. ASSUME CloseLast(t), word = "err" \/ ~Has(t, "close")
        PROVE  CloseLast(Append(t, word))
    <2> SUFFICES ASSUME NEW i \in 1..(Len(t) + 1), NEW j \in 1..(Len(t) + 1),
                        i < j, Append(t, word)[i] = "close"
                 PROVE  Append(t, word)[j] = "err"
      BY <1>1 DEF CloseLast
    <2>1. i \in 1..Len(t) /\ t[i] = "close"
      BY <1>1
    <2>2. word = "err"
      BY <1>1, <1>4, <2>1 DEF Has
    <2>3. CASE j \in 1..Len(t)
      BY <1>1, <1>4, <2>1, <2>3 DEF CloseLast
    <2>4. CASE j = Len(t) + 1
      BY <1>1, <2>2, <2>4
    <2> QED
      BY <1>2, <2>3, <2>4
  <1> QED
    BY <1>1, <1>3, <1>4

(* What Say makes of the words told of each socket. *)
LEMMA SayEffect ==
  ASSUME TypeOK, NEW id \in Id, NEW word \in Word, Say(id, word)
  PROVE  /\ told' \in [Id -> Seq(Word)]
         /\ \A x \in Id \ {id} : told'[x] = told[x]
         /\ \/ told'[id] = Append(told[id], word)
            \/ told'[id] = told[id] /\ told[id] # <<>> /\ word = "err"
                 /\ Has(told[id], "err")
            \/ told'[id] = told[id] /\ word = "data"
  <1>1. told \in [Id -> Seq(Word)] /\ told[id] \in Seq(Word)
    BY DEF TypeOK
  <1>2. told' = [told EXCEPT ![id] =
          IF \/ word = "data" /\ ~Contains(told[id], "close")
             \/ word = "err" /\ told[id] # <<>> /\ Last(told[id]) = word
          THEN told[id] ELSE Append(told[id], word)]
    BY DEF Say
  <1>3. \/ told'[id] = Append(told[id], word)
        \/ told'[id] = told[id] /\ word = "data"
        \/ told'[id] = told[id] /\ word = "err" /\ told[id] # <<>>
             /\ Last(told[id]) = word
    BY <1>1, <1>2
  <1>4. told[id] # <<>> /\ Last(told[id]) = word => Has(told[id], word)
    BY <1>1 DEF Last, Has
  <1>5. Append(told[id], word) \in Seq(Word)
    BY <1>1
  <1> QED
    BY <1>1, <1>2, <1>3, <1>4, <1>5

-----------------------------------------------------------------------------
(* Types.                                                                  *)

(* The event of a closed socket is taken out of a batch. *)
LEMMA ClearedType ==
  ASSUME NEW rest \in Seq(Event), NEW s \in Socket, NEW word
  PROVE  Cleared(rest, s, word) \in Seq(Event)
  <1> DEFINE I == {i \in 1..Len(rest) : rest[i].slot = SlotOf(s.id)}
  <1>1. CASE Cleared(rest, s, word) = rest
    BY <1>1
  <1>2. CASE /\ \E i \in 1..Len(rest) : rest[i].slot = SlotOf(s.id)
             /\ Cleared(rest, s, word) = RemoveAt(rest, Min(I))
    <2>1. I \in SUBSET Nat /\ I # {}
      BY <1>2
    <2>2. Min(I) \in I
      <3> HIDE DEF I
      <3> QED
        BY <2>1, Least DEF Min
    <2>3. Min(I) \in 1..Len(rest)
      BY <2>2
    <2>4. \A n \in 1..Len(rest) : RemoveAt(rest, n) \in Seq(Event)
      BY DEF RemoveAt
    <2> QED
      BY <1>2, <2>3, <2>4
  <1>3. \/ Cleared(rest, s, word) = rest
        \/ /\ \E i \in 1..Len(rest) : rest[i].slot = SlotOf(s.id)
           /\ Cleared(rest, s, word) = RemoveAt(rest, Min(I))
    BY DEF Cleared, RemoveFirstMatch, SelectInSeq
  <1> QED
    BY <1>1, <1>2, <1>3

Closing ==
  [slot : Slot, tell : BOOLEAN, word : Word, back : {"check", "rest"}]

LEMMA MessageUnits ==
  ASSUME BoundAssumption, NEW m \in 1..MaxSend
  PROVE  /\ Message(m) \in Seq(Unit) /\ Len(Message(m)) = Units
         /\ DOMAIN Message(m) = 1..Units
         /\ \A i \in 1..Units : Message(m)[i] = <<m, i>>
  <1>1. Units \in Nat /\ \A i \in 1..Units : <<m, i>> \in Unit
    BY DEF BoundAssumption, Unit
  <1>2. Message(m) \in [1..Units -> Unit]
    BY <1>1 DEF Message
  <1>3. Message(m) \in Seq(Unit)
    BY <1>1, <1>2
  <1> QED
    BY <1>1, <1>2, <1>3 DEF Message

LEMMA Cuts ==
  ASSUME NEW q \in Seq(Unit), NEW n \in 0..Len(q)
  PROVE  /\ Rest(q, n) \in Seq(Unit) /\ SubSeq(q, 1, n) \in Seq(Unit)
         /\ Len(Rest(q, n)) = Len(q) - n /\ Len(SubSeq(q, 1, n)) = n
         /\ \A i \in 1..(Len(q) - n) : Rest(q, n)[i] = q[i + n]
         /\ \A i \in 1..n : SubSeq(q, 1, n)[i] = q[i]
  BY DEF Rest

LEMMA PutType ==
  ASSUME TypeOK, NEW sl \in Slot, NEW t \in Socket, Put(sl, t)
  PROVE  /\ sock' \in [Slot -> Socket] /\ sock'[sl] = t
         /\ \A x \in Slot \ {sl} : sock'[x] = sock[x]
  BY DEF TypeOK, Put

Answers(sl, t, word, rest, back) ==
  /\ Put(sl, t)
  /\ IF word = "none" THEN told' = told ELSE Say(t.id, word)
  /\ ev' = Cleared(rest, t, word)
  /\ ctl' = back /\ fc' = fc /\ cut' = cut

LEMMA AnswerType ==
  ASSUME TypeOK, NEW sl \in Slot, NEW s \in Socket,
         NEW word \in Word \cup {"none"},
         word # "none" => s.id \in Id, NEW rest \in Seq(Event),
         NEW back \in {"check", "rest", "fresh"},
         Answers(sl, s, word, rest, back)
  PROVE  /\ sock' \in [Slot -> Socket] /\ sock'[sl] = s
         /\ \A x \in Slot \ {sl} : sock'[x] = sock[x]
         /\ told' \in [Id -> Seq(Word)] /\ ev' \in Seq(Event)
         /\ ctl' \in {"check", "rest", "fresh", "lock"}
         /\ ctl' # "lock" /\ fc' = fc /\ cut' = cut
         /\ IF word = "none" THEN told' = told ELSE Say(s.id, word)
  <1>1. /\ sock' \in [Slot -> Socket] /\ sock'[sl] = s
        /\ \A x \in Slot \ {sl} : sock'[x] = sock[x]
    BY PutType DEF Answers
  <1>2. told' \in [Id -> Seq(Word)]
    <2>1. CASE word = "none"
      BY <2>1 DEF Answers, TypeOK
    <2>2. CASE word # "none"
      <3>1. word \in Word /\ s.id \in Id /\ Say(s.id, word)
        BY <2>2 DEF Answers
      <3> QED
        BY <3>1, SayEffect
    <2> QED
      BY <2>1, <2>2
  <1>3. ev' \in Seq(Event)
    BY ClearedType DEF Answers
  <1> QED
    BY <1>1, <1>2, <1>3 DEF Answers

(* t is s with empty lists. *)
Dropped(s, t) ==
  /\ t.id = s.id /\ t.tcp = s.tcp /\ t.tag = s.tag /\ t.lock = s.lock
  /\ t.sending = s.sending /\ t.high = <<>> /\ t.low = <<>>
  /\ t.dw = s.dw /\ t.type = s.type /\ t.closing = s.closing

LEMMA ForceCloseType ==
  ASSUME TypeOK, NEW sl \in Slot, NEW s \in Socket, s.id \in Id,
         NEW word \in Word \cup {"none"}, NEW rest \in Seq(Event),
         NEW back \in {"check", "rest"}, ForceClose(sl, s, word, rest, back)
  PROVE  /\ sock' \in [Slot -> Socket]
         /\ Dropped(s, sock'[sl])
         /\ \A x \in Slot \ {sl} : sock'[x] = sock[x]
         /\ told' = told /\ ev' \in Seq(Event) /\ ctl' = "lock"
         /\ cut' \subseteq Id
         /\ cut' = IF Empty(s) THEN cut ELSE cut \cup {s.id}
         /\ failed' \in BOOLEAN /\ (failed' <=> Stray(s))
         /\ fc' \in Closing
         /\ fc'.slot = sl /\ (fc'.tell <=> word # "none") /\ fc'.back = back
         /\ fc'.word = IF word = "none" THEN "close" ELSE word
  <1>1. [s EXCEPT !.high = <<>>, !.low = <<>>] \in Socket
    <2>1. <<>> \in Seq(Unit)
      BY EmptySeq
    <2> QED
      BY <2>1 DEF Socket
  <1>2. Put(sl, [s EXCEPT !.high = <<>>, !.low = <<>>])
    BY DEF ForceClose
  <1>3. /\ sock' \in [Slot -> Socket]
        /\ sock'[sl] = [s EXCEPT !.high = <<>>, !.low = <<>>]
        /\ \A x \in Slot \ {sl} : sock'[x] = sock[x]
    BY <1>1, <1>2, PutType
  <1>4. cut' \subseteq Id
    BY DEF ForceClose, TypeOK
  <1>7. Dropped(s, sock'[sl])
    BY <1>3 DEF Dropped, Socket
  <1>5. /\ fc' \in Closing
        /\ fc'.slot = sl /\ (fc'.tell <=> word # "none") /\ fc'.back = back
        /\ fc'.word = IF word = "none" THEN "close" ELSE word
    BY DEF ForceClose, Word, Closing
  <1>6. failed' \in BOOLEAN
    BY DEF ForceClose, Stray
  <1> QED
    BY <1>3, <1>4, <1>5, <1>6, <1>7 DEF ForceClose

(* What a slot with a socket in it is known to hold. *)
LEMMA LiveSlot ==
  ASSUME BoundAssumption, TypeOK, StateInv, NEW sl \in Slot, Live(sl)
  PROVE  /\ sock[sl].id \in known /\ sock[sl].id \in Id
         /\ SlotOf(sock[sl].id) = sl /\ sock[sl].tcp
         /\ sock[sl].tag = sock[sl].id
         /\ sock[sl].closing => sock[sl].type = "HALFCLOSE_READ"
         /\ ~Stray(sock[sl])
  BY DEF StateInv, SlotInv, IdInv, TypeOK, Id, Live, Stray

(* The slot of an id that is valid. *)
LEMMA ValidSlot ==
  ASSUME BoundAssumption, TypeOK, StateInv, NEW id \in Id, ~Invalid(id),
         ~Stray(sock[SlotOf(id)])
  PROVE  SlotOf(id) \in Slot /\ Live(SlotOf(id)) /\ sock[SlotOf(id)].id = id
  BY SlotIsSlot DEF Id, Invalid, Stray, Live

LEMMA HeadFields ==
  ASSUME BoundAssumption, TypeOK, StateInv, pipe # <<>>
  PROVE  /\ Head(pipe) = pipe[1] /\ 1 \in DOMAIN pipe /\ PipeInv(1)
         /\ Head(pipe).id \in Id /\ Head(pipe).id \in known
         /\ Head(pipe).cmd \in Cmd /\ SlotOf(Head(pipe).id) \in Slot
  BY PipeTail, PipeFields, SlotIsSlot, ZeroIsSlot DEF StateInv, PipeInv

LEMMA EventFields ==
  ASSUME TypeOK, ev # <<>>
  PROVE  /\ Head(ev) \in Event /\ Head(ev).slot \in Slot
         /\ Pop \in Seq(Event) /\ AfterRead \in Seq(Event)
         /\ Back \in {"check", "rest"}
  <1>1. ev \in Seq(Event)
    BY DEF TypeOK
  <1>2. Head(ev) \in Event /\ Tail(ev) \in Seq(Event)
    BY <1>1
  <1>3. [Head(ev) EXCEPT !.r = FALSE] \in Event
    BY <1>2 DEF Event
  <1>4. Again \in Seq(Event)
    BY <1>2, <1>3 DEF Again
  <1> QED
    BY <1>2, <1>4 DEF Event, Pop, AfterRead, Back

-----------------------------------------------------------------------------
(* Frames: what most steps leave alone.                                    *)

PipeKept ==
  \/ pipe' = pipe
  \/ pipe # <<>> /\ pipe' = Tail(pipe) /\ ~IsOpen(Head(pipe))

SlotFramed(sl) ==
  LET s == sock[sl]
      t == sock'[sl] IN
  /\ t.id = s.id /\ t.tcp = s.tcp /\ t.tag = s.tag /\ t.lock = s.lock
  /\ t.type = "RESERVE" <=> s.type = "RESERVE"
  /\ s.type = "INVALID" => t.type = "INVALID"
  /\ t.type \in {"INVALID", "RESERVE"} =>
       Empty(t) /\ t.dw = <<>> /\ t.lock = NoOne
  /\ t.lock # NoOne => t.dw = s.dw
  /\ t.type # "INVALID" /\ t.type # "RESERVE" /\ t.closing =>
       t.type = "HALFCLOSE_READ"

IdFramed(id) ==
  /\ \/ told'[id] = told[id] /\ wire'[id] = wire[id]
     \/ id \in known /\ ~Opening(id)
  /\ \A word : Has(told[id], word) => Has(told'[id], word)

Framed ==
  /\ UNCHANGED <<call, known, sends>>
  /\ alloc' \in Nat /\ alloc' >= alloc
  /\ PipeKept
  /\ \A sl \in Slot : SlotFramed(sl)
  /\ \A id \in Id : IdFramed(id)

LEMMA PipeShift ==
  ASSUME TypeOK, PipeKept
  PROVE  /\ pipe' \in Seq(Request)
         /\ \E d \in {0, 1} :
              /\ \A i \in DOMAIN pipe' :
                   /\ i \in Nat /\ i + d \in DOMAIN pipe
                   /\ pipe'[i] = pipe[i + d]
              /\ \A i \in DOMAIN pipe :
                   \/ i \in Nat /\ i - d \in DOMAIN pipe' /\ (i - d) + d = i
                   \/ d = 1 /\ i = 1 /\ ~IsOpen(pipe[i])
  <1>1. CASE pipe' = pipe
    <2>1. pipe \in Seq(Request) /\ DOMAIN pipe = 1..Len(pipe)
      BY DEF TypeOK
    <2>2. \A i \in DOMAIN pipe : i \in Nat /\ i + 0 = i /\ i - 0 = i
      BY <2>1
    <2> QED
      BY <1>1, <2>1, <2>2
  <1>2. CASE pipe # <<>> /\ pipe' = Tail(pipe) /\ ~IsOpen(Head(pipe))
    <2>1. \A i \in DOMAIN pipe' : /\ i \in Nat /\ i + 1 \in DOMAIN pipe
                                  /\ pipe'[i] = pipe[i + 1]
      BY <1>2, PipeTail
    <2>2. \A i \in DOMAIN pipe :
            \/ i \in Nat /\ i - 1 \in DOMAIN pipe' /\ (i - 1) + 1 = i
            \/ i = 1 /\ ~IsOpen(pipe[i])
      BY <1>2, PipeTail
    <2>3. pipe' \in Seq(Request)
      BY <1>2, PipeTail
    <2> QED
      BY <2>1, <2>2, <2>3
  <1> QED
    BY <1>1, <1>2 DEF PipeKept

LEMMA OpeningKept ==
  ASSUME TypeOK, PipeKept, NEW id
  PROVE  Opening(id)' <=> Opening(id)
  <1>1. PICK d \in {0, 1} :
          /\ \A i \in DOMAIN pipe' :
               /\ i \in Nat /\ i + d \in DOMAIN pipe
               /\ pipe'[i] = pipe[i + d]
          /\ \A i \in DOMAIN pipe :
               \/ i \in Nat /\ i - d \in DOMAIN pipe' /\ (i - d) + d = i
               \/ d = 1 /\ i = 1 /\ ~IsOpen(pipe[i])
    BY PipeShift
  <1>2. ASSUME NEW i \in DOMAIN pipe, IsOpen(pipe[i]), pipe[i].id = id
        PROVE  Opening(id)'
    <2>1. i - d \in DOMAIN pipe' /\ pipe'[i - d] = pipe[i]
      BY <1>1, <1>2
    <2> QED
      BY <1>2, <2>1 DEF Opening, IsOpen
  <1>3. ASSUME NEW i \in DOMAIN pipe', IsOpen(pipe'[i]), pipe'[i].id = id
        PROVE  Opening(id)
    BY <1>1, <1>3 DEF Opening
  <1> QED
    BY <1>2, <1>3 DEF Opening, IsOpen

LEMMA StateFrame ==
  ASSUME BoundAssumption, TypeOK, StateInv, Framed
  PROVE  StateInv'
  <1> USE DEF Framed
  <1>1. IdInv'
    <2>1. known' \subseteq 1..alloc'
      BY DEF StateInv, IdInv, TypeOK
    <2>2. \A id \in known' : sock'[SlotOf(id)].id >= id
      BY SlotIsSlot, ZeroIsSlot DEF StateInv, IdInv, TypeOK, SlotFramed
    <2>3. \A id \in Id \ known' : told'[id] = <<>> /\ wire'[id] = <<>>
      BY DEF StateInv, IdInv, IdFramed
    <2> QED
      BY <2>1, <2>2, <2>3 DEF IdInv, SlotOf
  <1>2. ASSUME NEW sl \in Slot
        PROVE  SlotInv(sl)'
    <2>1. SlotInv(sl) /\ SlotFramed(sl) /\ alloc \in Nat
      BY DEF StateInv, TypeOK
    <2> QED
      BY <2>1, SocketFields DEF SlotInv, SlotFramed, Live, Empty, SlotOf
  <1>3. ASSUME NEW c \in Caller
        PROVE  CallInv(c)'
    <2>1. CallInv(c) /\ call[c].id \in 0..MaxId
      BY CallFields DEF StateInv
    <2>2. SlotOf(call[c].id) \in Slot /\ SlotFramed(SlotOf(call[c].id))
      BY <2>1, SlotIsSlot DEF BoundAssumption
    <2>3. ASSUME Opens(c)
          PROVE  /\ IsOpen(call[c]) /\ call[c].id \in (1..alloc') \ known
                 /\ sock'[SlotOf(call[c].id)].type = "RESERVE"
                 /\ IF call[c].step = "fill"
                    THEN sock'[SlotOf(call[c].id)].id < call[c].id
                    ELSE /\ sock'[SlotOf(call[c].id)].id = call[c].id
                         /\ ~sock'[SlotOf(call[c].id)].tcp
                 /\ \A d \in Caller :
                      Opens(d) /\ SlotOf(call[d].id) = SlotOf(call[c].id)
                      => d = c
      BY <2>1, <2>2, <2>3 DEF CallInv, SlotFramed, TypeOK
    <2>4. ASSUME call[c].step = "fill", NEW i \in DOMAIN pipe',
                 IsOpen(pipe'[i])
          PROVE  SlotOf(pipe'[i].id) # SlotOf(call[c].id)
      BY <2>1, <2>4, PipeShift DEF CallInv
    <2>5. ASSUME Carries(c)
          PROVE  Has(told'[call[c].id], "open")
      BY <2>1, <2>5, ZeroIsSlot DEF CallInv, IdFramed, StateInv, IdInv, TypeOK
    <2>6. ASSUME call[c].step = "written"
          PROVE  /\ sock'[SlotOf(call[c].id)].id = call[c].id
                 /\ sock'[SlotOf(call[c].id)].lock = c
      BY <2>1, <2>2, <2>6 DEF CallInv, SlotFramed
    <2>7. Opens(c)' = Opens(c) /\ Carries(c)' = Carries(c)
      BY DEF Opens, Carries, IsOpen, IsSend
    <2>8. \A d \in Caller : Opens(d)' = Opens(d)
      BY DEF Opens, IsOpen
    <2> QED
      BY <2>1, <2>3, <2>4, <2>5, <2>6, <2>7, <2>8
      DEF CallInv, SlotOf, IsOpen, IsSend
  <1>4. ASSUME NEW i \in DOMAIN pipe'
        PROVE  PipeInv(i)'
    <2>1. PICK d \in {0, 1} :
            \A j \in DOMAIN pipe' :
              /\ j \in Nat /\ j + d \in DOMAIN pipe
              /\ pipe'[j] = pipe[j + d]
      BY PipeShift
    <2>2. /\ i + d \in DOMAIN pipe /\ pipe'[i] = pipe[i + d] /\ i \in Nat
          /\ PipeInv(i + d)
      BY <2>1 DEF StateInv
    <2>3. pipe'[i].id \in Id /\ pipe'[i].id \in known
      BY <2>2, PipeFields DEF PipeInv
    <2>4. SlotOf(pipe'[i].id) \in Slot /\ SlotFramed(SlotOf(pipe'[i].id))
      BY <2>3, SlotIsSlot, ZeroIsSlot
    <2>5. ASSUME IsOpen(pipe'[i])
          PROVE  /\ sock'[SlotOf(pipe'[i].id)].type = "RESERVE"
                 /\ sock'[SlotOf(pipe'[i].id)].id = pipe'[i].id
                 /\ ~sock'[SlotOf(pipe'[i].id)].tcp
                 /\ told'[pipe'[i].id] = <<>> /\ wire'[pipe'[i].id] = <<>>
                 /\ \A j \in DOMAIN pipe' : pipe'[j].id = pipe'[i].id /\ j # i
                      => j > i /\ ~IsOpen(pipe'[j])
      <3>1. Opening(pipe'[i].id)
        BY <2>2, <2>5 DEF Opening
      <3>2. told'[pipe'[i].id] = <<>> /\ wire'[pipe'[i].id] = <<>>
        BY <2>2, <2>3, <2>5, <3>1 DEF IdFramed, PipeInv
      <3>3. ASSUME NEW j \in DOMAIN pipe', pipe'[j].id = pipe'[i].id, j # i
            PROVE  j > i /\ ~IsOpen(pipe'[j])
        <4>1. j + d # i + d /\ j + d \in DOMAIN pipe /\ pipe'[j] = pipe[j + d]
          BY <2>1, <2>2, <3>3
        <4>2. j + d > i + d /\ ~IsOpen(pipe[j + d])
          BY <2>2, <2>5, <3>3, <4>1 DEF PipeInv
        <4> QED
          BY <2>1, <2>2, <4>1, <4>2
      <3> QED
        BY <2>2, <2>4, <2>5, <3>2, <3>3 DEF PipeInv, SlotFramed
    <2>6. ASSUME IsSend(pipe'[i])
          PROVE  /\ Has(told'[pipe'[i].id], "open")
                 /\ pipe'[i].msg \in 1..Len(sends)
                 /\ sends[pipe'[i].msg].to = pipe'[i].id
                 /\ sends[pipe'[i].msg].low <=> pipe'[i].cmd = "send_low"
                 /\ \A c \in Caller : Carries(c) => call[c].msg # pipe'[i].msg
                 /\ \A j \in DOMAIN pipe' :
                      /\ j > i /\ IsSend(pipe'[j])
                      /\ sends[pipe'[j].msg].by = sends[pipe'[i].msg].by
                      => pipe'[i].msg < pipe'[j].msg
      <3>1. \A j \in DOMAIN pipe' : j > i => j + d > i + d
        BY <2>1, <2>2
      <3>2. Has(told'[pipe'[i].id], "open")
        BY <2>2, <2>3, <2>6 DEF PipeInv, IdFramed
      <3>3. \A j \in DOMAIN pipe' :
              /\ j > i /\ IsSend(pipe'[j])
              /\ sends[pipe'[j].msg].by = sends[pipe'[i].msg].by
              => pipe'[i].msg < pipe'[j].msg
        BY <2>1, <2>2, <2>6, <3>1 DEF PipeInv
      <3> QED
        BY <2>2, <2>6, <3>2, <3>3 DEF PipeInv
    <2>7. \A c \in Caller : Carries(c)' = Carries(c)
      BY DEF Carries, IsSend
    <2> QED
      BY <2>3, <2>5, <2>6, <2>7 DEF PipeInv, SlotOf, IsOpen, IsSend
  <1> QED
    BY <1>1, <1>2, <1>3, <1>4 DEF StateInv

-----------------------------------------------------------------------------
(* A slot is handled: the socket in it stays the same one, or is closed.   *)

(* What is told of id fits what becomes of its socket. *)
Rightly(id) ==
  LET s == sock[SlotOf(id)]
      t == sock'[SlotOf(id)] IN
  /\ CloseLast(told'[id])
  /\ IF s.id = id /\ Live(SlotOf(id))
     THEN IF t.type = "INVALID" THEN Ended(told'[id])
          ELSE /\ Has(told'[id], "close") <=> t.type = "HALFCLOSE_READ"
               /\ t.type = "CONNECTING" => ~Has(told'[id], "open")
     ELSE \/ told'[id] = told[id]
          \/ \A w : Has(told'[id], w) <=> Has(told[id], w) \/ w = "err"

(* The words that go with a change of type. *)
Fits(s, t, word) ==
  /\ t.type # "RESERVE"
  /\ IF word = "close"
     THEN s.type # "HALFCLOSE_READ" /\ t.type \in {"INVALID", "HALFCLOSE_READ"}
     ELSE t.type # "INVALID" =>
            (t.type = "HALFCLOSE_READ" <=> s.type = "HALFCLOSE_READ")
  /\ word \in {"data", "open", "accept"} =>
       s.type # "HALFCLOSE_READ" /\ t.type # "CONNECTING"
  /\ t.type = "CONNECTING" => s.type = "CONNECTING"
  /\ t.type = "INVALID" =>
       \/ word = "close" \/ s.type = "HALFCLOSE_READ"
       \/ word = "err" /\ s.type = "CONNECTING"

Turned(sl, word) ==
  /\ Live(sl) /\ SlotFramed(sl) /\ Fits(sock[sl], sock'[sl], word)
  /\ UNCHANGED <<alloc, call, known, sends>> /\ PipeKept
  /\ \A x \in Slot \ {sl} : sock'[x] = sock[x]
  /\ \A x \in Id \ {sock[sl].id} : wire'[x] = wire[x]
  /\ IF word = "none" THEN told' = told ELSE Say(sock[sl].id, word)

LEMMA ToldFrame ==
  ASSUME BoundAssumption, TypeOK, StateInv, ToldInv, Framed,
         \A id \in known : Rightly(id)
  PROVE  ToldInv'
  <1> USE DEF Framed
  <1>1. ASSUME NEW id \in known
        PROVE  /\ CloseLast(told'[id])
               /\ (\/ sock'[SlotOf(id)].id # id
                   \/ sock'[SlotOf(id)].type = "INVALID"
                   \/ sock'[SlotOf(id)].type = "RESERVE" /\ ~Opening(id)')
                  => Ended(told'[id])
    <2>1. id \in Id /\ SlotOf(id) \in Slot
      BY SlotIsSlot, ZeroIsSlot DEF TypeOK
    <2>2. SlotFramed(SlotOf(id)) /\ Rightly(id)
      BY <2>1
    <2>3. Opening(id)' <=> Opening(id)
      BY OpeningKept
    <2>4. CASE sock[SlotOf(id)].id = id /\ Live(SlotOf(id))
      BY <2>2, <2>4 DEF Rightly, SlotFramed, Live
    <2>5. CASE ~(sock[SlotOf(id)].id = id /\ Live(SlotOf(id)))
      <3>1. Ended(told[id]) => Ended(told'[id])
        BY <2>2, <2>5 DEF Rightly, Ended
      <3> QED
        BY <2>2, <2>3, <2>5, <3>1 DEF Rightly, SlotFramed, Live, ToldInv
    <2> QED
      BY <2>4, <2>5
  <1>2. ASSUME NEW sl \in Slot, Live(sl)'
        PROVE  /\ Has(told'[sock'[sl].id], "close")
                    <=> sock'[sl].type = "HALFCLOSE_READ"
               /\ sock'[sl].type = "CONNECTING" =>
                    ~Has(told'[sock'[sl].id], "open")
    <2>1. SlotFramed(sl)
      OBVIOUS
    <2>2. Live(sl) /\ sock'[sl].id = sock[sl].id /\ sock'[sl].type # "INVALID"
      BY <1>2, <2>1 DEF Live, SlotFramed
    <2>3. sock[sl].id \in known /\ SlotOf(sock[sl].id) = sl
      BY <2>2, LiveSlot
    <2>4. Rightly(sock[sl].id)
      BY <2>3
    <2> QED
      BY <2>2, <2>3, <2>4 DEF Rightly
  <1>3. known' = known
    OBVIOUS
  <1> QED
    BY <1>1, <1>2, <1>3 DEF ToldInv, SlotOf

LEMMA SlotSame ==
  ASSUME BoundAssumption, TypeOK, StateInv, NEW sl \in Slot,
         sock'[sl] = sock[sl]
  PROVE  SlotFramed(sl)
  <1>1. SlotInv(sl)
    BY DEF StateInv
  <1> QED
    BY <1>1 DEF SlotInv, SlotFramed, Live

LEMMA Turn ==
  ASSUME BoundAssumption, TypeOK, StateInv, ToldInv,
         NEW sl \in Slot, NEW word \in Word \cup {"none"}, Turned(sl, word)
  PROVE  StateInv' /\ ToldInv'
  <1> DEFINE s == sock[sl]
             t == sock'[sl]
  <1>1. /\ s.id \in known /\ s.id \in Id /\ SlotOf(s.id) = sl /\ Live(sl)
        /\ alloc \in Nat /\ told[s.id] \in Seq(Word)
    <2>1. Live(sl)
      BY DEF Turned
    <2>2. /\ s.id \in known /\ s.id \in Id /\ SlotOf(s.id) = sl
      BY <2>1, LiveSlot
    <2>3. alloc \in Nat
      BY DEF TypeOK, BoundAssumption
    <2>4. told[s.id] \in Seq(Word)
      <3> HIDE DEF s
      <3> QED
        BY <2>2 DEF TypeOK
    <2> QED
      BY <2>1, <2>2, <2>3, <2>4
  <1>2. \/ word = "none" /\ told' = told
        \/ word # "none" /\ told'[s.id] = Append(told[s.id], word)
        \/ word # "none" /\ told'[s.id] = told[s.id]
    BY <1>1, SayEffect DEF Turned
  <1>3. \A x \in Id \ {s.id} : told'[x] = told[x]
    BY <1>1, SayEffect DEF Turned
  <1>4. /\ CloseLast(told[s.id])
        /\ Has(told[s.id], "close") <=> s.type = "HALFCLOSE_READ"
        /\ s.type = "CONNECTING" => ~Has(told[s.id], "open")
    BY <1>1 DEF ToldInv
  <1>5. ASSUME word # "none", told'[s.id] = Append(told[s.id], word)
        PROVE  /\ \A w : Has(told'[s.id], w) <=> Has(told[s.id], w) \/ w = word
               /\ CloseLast(told[s.id])
                  /\ (word = "err" \/ ~Has(told[s.id], "close"))
                  => CloseLast(told'[s.id])
    <2>1. word \in Word
      BY <1>5
    <2>2. told[s.id] \in Seq(Word)
      BY <1>1
    <2>3. /\ \A w : Has(Append(told[s.id], word), w)
                     <=> Has(told[s.id], w) \/ w = word
          /\ CloseLast(told[s.id])
             /\ (word = "err" \/ ~Has(told[s.id], "close"))
             => CloseLast(Append(told[s.id], word))
      <3> HIDE DEF s
      <3> QED
        BY <2>1, <2>2, WordAdded
    <2> QED
      BY <1>5, <2>3
  <1>6. CloseLast(told'[s.id])
    BY <1>2, <1>4, <1>5 DEF Turned, Fits, Word
  <1>7. \A w : Has(told[s.id], w) => Has(told'[s.id], w)
    BY <1>2, <1>5
  <1>8. ~Opening(s.id)
    BY <1>1, SlotIsSlot DEF Opening, StateInv, PipeInv, Live
  <1>9. ASSUME NEW id \in Id
        PROVE  IdFramed(id)
    <2>1. CASE id = s.id
      BY <1>1, <1>7, <1>8, <2>1 DEF IdFramed
    <2>2. CASE id # s.id
      BY <1>3, <2>2 DEF IdFramed, Turned
    <2> QED
      BY <2>1, <2>2
  <1>10. ASSUME NEW x \in Slot
         PROVE  SlotFramed(x)
    BY SlotSame DEF Turned
  <1>11. Framed
    <2>1. UNCHANGED <<alloc, call, known, sends>> /\ PipeKept
      BY DEF Turned
    <2>2. alloc' \in Nat /\ alloc' >= alloc
      <3>1. alloc \in Nat /\ alloc' = alloc
        BY <1>1, <2>1
      <3> QED
        BY <3>1
    <2> QED
      BY <1>9, <1>10, <2>1, <2>2 DEF Framed
  <1>12. Rightly(s.id)
    <2>1. ASSUME t.type = "INVALID"
          PROVE  Ended(told'[s.id])
      <3>1. CASE Has(told[s.id], "close")
        BY <1>7, <3>1 DEF Ended
      <3>2. CASE word = "close"
        BY <1>2, <1>4, <1>5, <3>2, SayEffect, <1>1 DEF Ended, Turned
      <3>3. CASE word = "err" /\ s.type = "CONNECTING"
        <4>1. ~Has(told'[s.id], "open")
          BY <1>2, <1>4, <1>5, <3>3
        <4>2. Has(told'[s.id], "err")
          BY <1>1, <1>5, <3>3, SayEffect DEF Turned, Word
        <4> QED
          BY <4>1, <4>2 DEF Ended
      <3> QED
        BY <1>4, <2>1, <3>1, <3>2, <3>3 DEF Turned, Fits
    <2>2. ASSUME t.type # "INVALID"
          PROVE  Has(told'[s.id], "close") <=> t.type = "HALFCLOSE_READ"
      <3>1. CASE word = "close"
        BY <1>1, <1>4, <1>5, <2>2, <3>1, SayEffect DEF Turned, Fits, Word
      <3>2. CASE word # "close"
        BY <1>2, <1>4, <1>5, <2>2, <3>2 DEF Turned, Fits
      <3> QED
        BY <3>1, <3>2
    <2>3. ASSUME t.type = "CONNECTING"
          PROVE  ~Has(told'[s.id], "open")
      BY <1>2, <1>4, <1>5, <2>3 DEF Turned, Fits
    <2> QED
      BY <1>1, <1>6, <2>1, <2>2, <2>3 DEF Rightly
  <1>13. ASSUME NEW id \in known, id # s.id
         PROVE  Rightly(id)
    <2>1. id \in Id /\ SlotOf(id) \in Slot /\ told'[id] = told[id]
          /\ CloseLast(told[id])
      BY <1>3, <1>13, SlotIsSlot, ZeroIsSlot DEF TypeOK, ToldInv
    <2>2. CASE sock[SlotOf(id)].id = id /\ Live(SlotOf(id))
      <3>1. SlotOf(id) # sl /\ sock'[SlotOf(id)] = sock[SlotOf(id)]
        BY <1>13, <2>1, <2>2 DEF Turned
      <3>2. /\ Has(told[id], "close")
                 <=> sock[SlotOf(id)].type = "HALFCLOSE_READ"
            /\ sock[SlotOf(id)].type = "CONNECTING" => ~Has(told[id], "open")
        BY <2>1, <2>2 DEF ToldInv
      <3> QED
        BY <2>1, <2>2, <3>1, <3>2 DEF Rightly, Live
    <2>3. CASE ~(sock[SlotOf(id)].id = id /\ Live(SlotOf(id)))
      BY <2>1, <2>3 DEF Rightly
    <2> QED
      BY <2>2, <2>3
  <1> QED
    BY <1>11, <1>12, <1>13, StateFrame, ToldFrame

(* No socket is handled; an error may be told of an id. *)
LEMMA Still ==
  ASSUME BoundAssumption, TypeOK, StateInv, ToldInv,
         sock' = sock, UNCHANGED <<call, known, sends, wire>>,
         alloc' \in Nat, alloc' >= alloc, PipeKept,
         \/ told' = told
         \/ \E id \in known : ~Opening(id) /\ Say(id, "err")
  PROVE  StateInv' /\ ToldInv'
  <1>1. known \subseteq Id /\ told \in [Id -> Seq(Word)] /\ "err" \in Word
    BY DEF TypeOK, Word
  <1>2. ASSUME NEW id \in known, ~Opening(id), Say(id, "err"), NEW x \in Id
        PROVE  /\ \/ told'[x] = told[x]
                  \/ /\ x = id
                     /\ \A w : Has(told'[x], w) <=>
                                 Has(told[x], w) \/ w = "err"
                     /\ CloseLast(told[x]) => CloseLast(told'[x])
    <2>1. \/ told'[x] = told[x]
          \/ x = id /\ told'[x] = Append(told[x], "err")
      BY <1>1, <1>2, SayEffect
    <2>2. told[x] \in Seq(Word)
      BY <1>1
    <2>3. /\ \A w : Has(Append(told[x], "err"), w)
                     <=> Has(told[x], w) \/ w = "err"
          /\ CloseLast(told[x]) => CloseLast(Append(told[x], "err"))
      BY <1>1, <2>2, WordAdded
    <2> QED
      BY <2>1, <2>3
  <1>3. ASSUME NEW x \in Id
        PROVE  \/ told'[x] = told[x]
               \/ /\ x \in known /\ ~Opening(x)
                  /\ \A w : Has(told'[x], w) <=> Has(told[x], w) \/ w = "err"
                  /\ CloseLast(told[x]) => CloseLast(told'[x])
    BY <1>2
  <1>4. \A x \in Id : IdFramed(x)
    BY <1>3 DEF IdFramed
  <1>5. \A x \in Slot : SlotFramed(x)
    BY SlotSame
  <1>6. Framed
    BY <1>4, <1>5 DEF Framed
  <1>7. ASSUME NEW id \in known
        PROVE  Rightly(id)
    <2>1. id \in Id /\ SlotOf(id) \in Slot
      BY <1>1, SlotIsSlot, ZeroIsSlot
    <2>2. CloseLast(told'[id])
      BY <1>3, <2>1 DEF ToldInv
    <2>3. ASSUME sock[SlotOf(id)].id = id, Live(SlotOf(id))
          PROVE  /\ sock[SlotOf(id)].type # "INVALID"
                 /\ Has(told'[id], "close")
                      <=> sock[SlotOf(id)].type = "HALFCLOSE_READ"
                 /\ sock[SlotOf(id)].type = "CONNECTING" =>
                      ~Has(told'[id], "open")
      <3>1. /\ Has(told[id], "close")
                 <=> sock[SlotOf(id)].type = "HALFCLOSE_READ"
            /\ sock[SlotOf(id)].type = "CONNECTING" => ~Has(told[id], "open")
        BY <2>1, <2>3 DEF ToldInv
      <3>2. /\ Has(told'[id], "close") <=> Has(told[id], "close")
            /\ Has(told'[id], "open") <=> Has(told[id], "open")
        BY <1>3, <2>1
      <3> QED
        BY <2>3, <3>1, <3>2 DEF Live
    <2> QED
      BY <1>3, <2>1, <2>2, <2>3 DEF Rightly
  <1> QED
    BY <1>6, <1>7, StateFrame, ToldFrame

-----------------------------------------------------------------------------
(* Counting the sends.                                                     *)

PostedIn(q, id) == {i \in DOMAIN q : IsSend(q[i]) /\ q[i].id = id}
PostingIn(k, id) ==
  {c \in Caller : k[c].step = "post" /\ IsSend(k[c]) /\ k[c].id = id}

LEMMA PostedPrimed ==
  ASSUME NEW id
  PROVE  /\ Posted(id) = PostedIn(pipe, id)
         /\ Posted(id)' = PostedIn(pipe', id)
         /\ Posting(id) = PostingIn(call, id)
         /\ Posting(id)' = PostingIn(call', id)
  BY DEF Posted, Posting, PostedIn, PostingIn, IsSend

LEMMA CountPrimed ==
  CountInv' <=>
    \A sl \in Slot : sock'[sl].tcp =>
      sock'[sl].sending = Cardinality(PostedIn(pipe', sock'[sl].id))
                          + Cardinality(PostingIn(call', sock'[sl].id))
  BY DEF CountInv, Posted, Posting, PostedIn, PostingIn, IsSend

LEMMA SendsFinite ==
  ASSUME TypeOK, CallerAssumption, NEW id
  PROVE  /\ IsFiniteSet(Posted(id)) /\ IsFiniteSet(Posting(id))
         /\ Cardinality(Posted(id)) \in Nat
         /\ Cardinality(Posting(id)) \in Nat
  <1>1. DOMAIN pipe = 1..Len(pipe) /\ Len(pipe) \in Nat
    BY DEF TypeOK
  <1>2. IsFiniteSet(DOMAIN pipe)
    BY <1>1, FS_Interval
  <1>3. Posted(id) \subseteq DOMAIN pipe /\ Posting(id) \subseteq Caller
    BY DEF Posted, Posting
  <1>4. IsFiniteSet(Posted(id)) /\ IsFiniteSet(Posting(id))
    BY <1>2, <1>3, FS_Subset DEF CallerAssumption
  <1> QED
    BY <1>4, FS_CardinalityType

LEMMA PostedTail ==
  ASSUME TypeOK, CallerAssumption, pipe # <<>>, pipe' = Tail(pipe), NEW id
  PROVE  Cardinality(Posted(id)') =
           IF IsSend(Head(pipe)) /\ Head(pipe).id = id
           THEN Cardinality(Posted(id)) - 1 ELSE Cardinality(Posted(id))
  <1> DEFINE S == Posted(id) \ {1}
             T == {i \in DOMAIN pipe' : IsSend(pipe'[i]) /\ pipe'[i].id = id}
             f == [i \in S |-> i - 1]
  <1>1. T = Posted(id)'
    BY DEF Posted, IsSend
  <1>2. \A i \in S : i \in Nat /\ i - 1 \in T
    BY PipeTail DEF Posted
  <1>3. \A i \in T : i \in Nat /\ i + 1 \in S
    BY PipeTail DEF Posted
  <1>4. f \in Bijection(S, T)
    <2>1. f \in [S -> T]
      BY <1>2
    <2>2. \A i, j \in S : f[i] = f[j] => i = j
      BY <1>2
    <2>3. \A j \in T : \E i \in S : f[i] = j
      <3> SUFFICES ASSUME NEW j \in T
                   PROVE  \E i \in S : f[i] = j
        OBVIOUS
      <3>1. j + 1 \in S /\ f[j + 1] = j
        BY <1>3
      <3> QED
        BY <3>1
    <2> HIDE DEF S, T, f
    <2> QED
      BY <2>1, <2>2, <2>3, Fun_IsBij
  <1>5. IsFiniteSet(Posted(id)) /\ Cardinality(Posted(id)) \in Nat
    BY SendsFinite
  <1>6. /\ IsFiniteSet(S)
        /\ Cardinality(S) = IF 1 \in Posted(id)
                            THEN Cardinality(Posted(id)) - 1
                            ELSE Cardinality(Posted(id))
    BY <1>5, FS_RemoveElement
  <1>7. Cardinality(T) = Cardinality(S)
    <2> HIDE DEF S, T, f
    <2> QED
      BY <1>4, <1>6, FS_Bijection DEF ExistsBijection
  <1>8. 1 \in Posted(id) <=> IsSend(Head(pipe)) /\ Head(pipe).id = id
    BY PipeTail DEF Posted
  <1> QED
    BY <1>1, <1>6, <1>7, <1>8

LEMMA PostedAppend ==
  ASSUME TypeOK, CallerAssumption, NEW r \in Request,
         pipe' = Append(pipe, r), NEW id
  PROVE  Cardinality(Posted(id)') =
           IF IsSend(r) /\ r.id = id
           THEN Cardinality(Posted(id)) + 1 ELSE Cardinality(Posted(id))
  <1> DEFINE T == {i \in DOMAIN pipe' : IsSend(pipe'[i]) /\ pipe'[i].id = id}
             n == Len(pipe) + 1
  <1>1. T = Posted(id)'
    BY DEF Posted, IsSend
  <1>2. T = IF IsSend(r) /\ r.id = id THEN Posted(id) \cup {n} ELSE Posted(id)
    BY PipeAppend DEF Posted
  <1>3. n \notin Posted(id)
    BY PipeAppend DEF Posted
  <1>4. IsFiniteSet(Posted(id)) /\ Cardinality(Posted(id)) \in Nat
    BY SendsFinite
  <1>5. Cardinality(Posted(id) \cup {n}) = Cardinality(Posted(id)) + 1
    BY <1>3, <1>4, FS_AddElement
  <1> QED
    BY <1>1, <1>2, <1>5

LEMMA CountFrame ==
  ASSUME TypeOK, CallerAssumption, CountInv, call' = call,
         \/ pipe' = pipe
         \/ pipe # <<>> /\ pipe' = Tail(pipe) /\ ~IsSend(Head(pipe)),
         \A sl \in Slot : sock'[sl].tcp =>
           /\ sock[sl].tcp /\ sock'[sl].id = sock[sl].id
           /\ sock'[sl].sending = sock[sl].sending
  PROVE  CountInv'
  <1>1. ASSUME NEW id
        PROVE  /\ Cardinality(Posted(id)') = Cardinality(Posted(id))
               /\ Posting(id)' = Posting(id)
    <2>1. Posting(id)' = Posting(id)
      BY DEF Posting, IsSend
    <2>2. CASE pipe' = pipe
      <3>1. Posted(id)' = Posted(id)
        BY <2>2 DEF Posted, IsSend
      <3> QED
        BY <2>1, <3>1
    <2>3. CASE pipe # <<>> /\ pipe' = Tail(pipe) /\ ~IsSend(Head(pipe))
      BY <2>1, <2>3, PostedTail
    <2> QED
      BY <2>2, <2>3
  <1>2. \A id : /\ Cardinality(PostedIn(pipe', id)) = Cardinality(Posted(id))
                /\ PostingIn(call', id) = Posting(id)
    BY <1>1, PostedPrimed
  <1> QED
    BY <1>2, CountPrimed DEF CountInv

-----------------------------------------------------------------------------
(* The data of a socket, from the values it is made of.                    *)

SentIn(n, w, id) ==
  \A i \in DOMAIN w : w[i][1] \in 1..Len(n) /\ n[w[i][1]].to = id
BeforeIn(n, q, w, id) ==
  \A i \in DOMAIN w : \A j \in PostedIn(q, id) :
    n[w[i][1]].by = n[q[j].msg].by => w[i][1] < q[j].msg
CarriesIn(k, c) ==
  \/ k[c].step \in {"direct", "written", "ref"}
  \/ k[c].step = "post" /\ IsSend(k[c])
LetGoIn(k, w) ==
  \A i \in DOMAIN w : \A c \in Caller :
    CarriesIn(k, c) /\ k[c].step # "written" => k[c].msg # w[i][1]
OrderedIn(n, w) ==
  \A i, j \in DOMAIN w :
    i < j /\ w[i][1] > w[j][1] /\ n[w[i][1]].by = n[w[j][1]].by
    => n[w[j][1]].low /\ ~n[w[i][1]].low
LowerIn(n, w) == \A i \in DOMAIN w : n[w[i][1]].low
KeptIn(k, s) ==
  IF s.lock = NoOne THEN s.dw
  ELSE SubSeq(Message(k[s.lock].msg), k[s.lock].n + 1, Units)

(* The messages of w, sent to id, are in order. *)
Sorted(n, q, k, w, id) ==
  SentIn(n, w, id) /\ BeforeIn(n, q, w, id) /\ LetGoIn(k, w) /\ OrderedIn(n, w)

StreamIn(u, n, q, k, x, s) ==
  LET stream == u[s.id] \o KeptIn(k, s) \o s.high
      out == stream \o s.low IN
  /\ Sorted(n, q, k, out, s.id) /\ LowerIn(n, s.low) /\ Whole(s.low)
  /\ s.id \notin x => Whole(stream) /\ IsInjective(out)

LEMMA StreamSame ==
  ASSUME NEW sl \in Slot
  PROVE  StreamInv(sl) <=> StreamIn(wire, sends, pipe, call, cut, sock[sl])
  BY DEF StreamInv, Outgoing, Stream, Kept, SentTo, Before, LetGo, Ordered,
    Lower, Posted, Carries, StreamIn, Sorted, SentIn, BeforeIn, LetGoIn,
    OrderedIn, LowerIn, KeptIn, PostedIn, CarriesIn

LEMMA StreamPrimed ==
  ASSUME NEW sl \in Slot
  PROVE  StreamInv(sl)' <=>
           StreamIn(wire', sends', pipe', call', cut', sock'[sl])
  BY DEF StreamInv, Outgoing, Stream, Kept, SentTo, Before, LetGo, Ordered,
    Lower, Posted, Carries, StreamIn, Sorted, SentIn, BeforeIn, LetGoIn,
    OrderedIn, LowerIn, KeptIn, PostedIn, CarriesIn, IsSend, Message, Whole

(* Every variable that is not named was sent, posted and carried before.   *)
SendsKept ==
  /\ Len(sends') \in Nat
  /\ \A m \in 1..Len(sends) : m \in 1..Len(sends') /\ sends'[m] = sends[m]
PostsKept ==
  \A j \in DOMAIN pipe' : IsSend(pipe'[j]) =>
    \/ \E i \in DOMAIN pipe : pipe'[j] = pipe[i]
    \/ \E c \in Caller : /\ call[c].step = "post" /\ IsSend(call[c])
                         /\ call[c].msg = pipe'[j].msg
CarriesKept ==
  \A c \in Caller : CarriesIn(call', c) /\ call'[c].step # "written" =>
    \/ /\ CarriesIn(call, c) /\ call[c].step # "written"
       /\ call'[c].msg = call[c].msg
    \/ call'[c].msg = Len(sends) + 1
DataKept == SendsKept /\ PostsKept /\ CarriesKept

LEMMA CarriesSame == \A c \in Caller : Carries(c) <=> CarriesIn(call, c)
  BY DEF Carries, CarriesIn

LEMMA SortedKept ==
  ASSUME TypeOK, StateInv, DataKept, NEW w \in Seq(Unit), NEW id,
         Sorted(sends, pipe, call, w, id)
  PROVE  Sorted(sends', pipe', call', w, id)
  <1> USE DEF DataKept
  <1>1. \A i \in DOMAIN w : /\ w[i][1] \in 1..Len(sends)
                            /\ sends'[w[i][1]] = sends[w[i][1]]
                            /\ w[i][1] \in 1..Len(sends')
    BY DEF Sorted, SentIn, SendsKept
  <1>2. SentIn(sends', w, id)
    BY <1>1 DEF Sorted, SentIn
  <1>3. ASSUME NEW i \in DOMAIN w, NEW j \in PostedIn(pipe', id),
               sends'[w[i][1]].by = sends'[pipe'[j].msg].by
        PROVE  w[i][1] < pipe'[j].msg
    <2>1. j \in DOMAIN pipe' /\ IsSend(pipe'[j]) /\ pipe'[j].id = id
      BY DEF PostedIn
    <2>2. CASE \E k \in DOMAIN pipe : pipe'[j] = pipe[k]
      <3>1. PICK k \in DOMAIN pipe : pipe'[j] = pipe[k]
        BY <2>2
      <3>2. k \in PostedIn(pipe, id) /\ PipeInv(k)
        BY <2>1, <3>1 DEF PostedIn, StateInv
      <3>3. /\ pipe[k].msg \in 1..Len(sends)
            /\ sends'[pipe[k].msg] = sends[pipe[k].msg]
        BY <2>1, <3>1, <3>2 DEF PipeInv, SendsKept
      <3> QED
        BY <1>1, <1>3, <3>1, <3>2, <3>3 DEF Sorted, BeforeIn
    <2>3. CASE \E c \in Caller : /\ call[c].step = "post" /\ IsSend(call[c])
                                 /\ call[c].msg = pipe'[j].msg
      <3>1. PICK c \in Caller : /\ call[c].step = "post" /\ IsSend(call[c])
                                /\ call[c].msg = pipe'[j].msg
        BY <2>3
      <3> DEFINE m == call[c].msg
      <3>2. Carries(c) /\ CarriesIn(call, c) /\ CallInv(c)
        BY <3>1 DEF Carries, CarriesIn, StateInv
      <3>3. /\ m \in 1..Len(sends) /\ sends[m].by = c
            /\ \A h \in (m + 1)..Len(sends) : sends[h].by # c
        BY <3>2 DEF CallInv
      <3>4. sends'[m] = sends[m]
        BY <3>3 DEF SendsKept
      <3>5. sends[w[i][1]].by = c
        BY <1>1, <1>3, <3>1, <3>3, <3>4
      <3>6. w[i][1] # m
        BY <3>1, <3>2 DEF Sorted, LetGoIn
      <3>7. Len(sends) \in Nat
        BY DEF TypeOK
      <3>8. w[i][1] < m
        <4>1. w[i][1] \notin (m + 1)..Len(sends)
          BY <3>3, <3>5
        <4>2. w[i][1] \in Nat /\ m \in Nat /\ w[i][1] <= Len(sends)
          BY <1>1, <3>3, <3>7
        <4> HIDE DEF m
        <4> QED
          BY <3>6, <3>7, <4>1, <4>2
      <3> QED
        BY <3>1, <3>8
    <2> QED
      BY <2>1, <2>2, <2>3 DEF PostsKept
  <1>4. ASSUME NEW i \in DOMAIN w, NEW c \in Caller, CarriesIn(call', c),
               call'[c].step # "written"
        PROVE  call'[c].msg # w[i][1]
    <2>1. CASE /\ CarriesIn(call, c) /\ call[c].step # "written"
               /\ call'[c].msg = call[c].msg
      BY <2>1 DEF Sorted, LetGoIn
    <2>2. CASE call'[c].msg = Len(sends) + 1
      <3>1. Len(sends) \in Nat
        BY DEF TypeOK
      <3> QED
        BY <1>1, <2>2, <3>1
    <2> QED
      BY <1>4, <2>1, <2>2 DEF CarriesKept
  <1>5. OrderedIn(sends', w)
    BY <1>1 DEF Sorted, OrderedIn
  <1> QED
    BY <1>2, <1>3, <1>4, <1>5 DEF Sorted, BeforeIn, LetGoIn

LEMMA DataSame ==
  ASSUME TypeOK, UNCHANGED <<call, sends>>,
         pipe' = pipe \/ (pipe # <<>> /\ pipe' = Tail(pipe))
  PROVE  DataKept
  <1>1. SendsKept
    BY DEF SendsKept, TypeOK
  <1>2. CarriesKept
    BY DEF CarriesKept, CarriesIn, IsSend
  <1>3. PostsKept
    BY PipeTail DEF PostsKept
  <1> QED
    BY <1>1, <1>2, <1>3 DEF DataKept

(* The data of a socket are sequences of units. *)
LEMMA StreamType ==
  ASSUME BoundAssumption, TypeOK, StateInv, NEW sl \in Slot, Live(sl)
  PROVE  /\ wire[sock[sl].id] \in Seq(Unit)
         /\ KeptIn(call, sock[sl]) \in Seq(Unit)
         /\ sock[sl].high \in Seq(Unit) /\ sock[sl].low \in Seq(Unit)
         /\ wire[sock[sl].id] \o KeptIn(call, sock[sl]) \o sock[sl].high
              \in Seq(Unit)
         /\ wire[sock[sl].id] \o KeptIn(call, sock[sl]) \o sock[sl].high
              \o sock[sl].low \in Seq(Unit)
  <1> DEFINE s == sock[sl]
             c == s.lock
  <1>1. sock[sl].id \in Id
    BY LiveSlot
  <1>2. wire[sock[sl].id] \in Seq(Unit)
    BY <1>1 DEF TypeOK
  <1>3. s.dw \in Seq(Unit) /\ s.high \in Seq(Unit) /\ s.low \in Seq(Unit)
    BY SocketFields
  <1>4. KeptIn(call, s) \in Seq(Unit)
    <2>1. CASE s.lock = NoOne
      BY <1>3, <2>1 DEF KeptIn
    <2>2. CASE s.lock # NoOne
      <3>1. c \in Caller /\ SlotInv(sl) /\ CallInv(c)
        BY <2>2, SocketFields DEF StateInv
      <3>2. call[c].step = "written" /\ Carries(c)
        BY <2>2, <3>1 DEF SlotInv, Carries
      <3>3. call[c].msg \in 1..MaxSend
        <4>1. call[c].msg \in 1..Len(sends) /\ call[c].msg \in 0..MaxSend
          BY <3>1, <3>2, CallFields DEF CallInv
        <4>2. MaxSend \in Nat /\ Len(sends) \in Nat
          BY DEF BoundAssumption, TypeOK
        <4> QED
          BY <4>1, <4>2
      <3>4. call[c].n \in 0..Units /\ Units \in Nat
        BY <3>1, CallFields DEF BoundAssumption
      <3>5. Rest(Message(call[c].msg), call[c].n) \in Seq(Unit)
        BY <3>3, <3>4, MessageUnits, Cuts
      <3> QED
        BY <2>2, <3>3, <3>5, MessageUnits DEF KeptIn, Rest
    <2> QED
      BY <2>1, <2>2
  <1>5. wire[s.id] \o KeptIn(call, s) \in Seq(Unit)
    BY <1>2, <1>4, ConcatProperties
  <1>6. wire[s.id] \o KeptIn(call, s) \o s.high \in Seq(Unit)
    BY <1>3, <1>5, ConcatProperties
  <1>7. wire[s.id] \o KeptIn(call, s) \o s.high \o s.low \in Seq(Unit)
    BY <1>3, <1>6, ConcatProperties
  <1> QED
    BY <1>2, <1>3, <1>4, <1>6, <1>7

(* A socket whose data stay the same. *)
LEMMA StreamKept ==
  ASSUME BoundAssumption, TypeOK, StateInv, DataInv, DataKept,
         NEW sl \in Slot, Live(sl),
         sock'[sl].id = sock[sl].id, wire'[sock[sl].id] = wire[sock[sl].id],
         KeptIn(call', sock'[sl]) = KeptIn(call, sock[sl]),
         sock'[sl].high = sock[sl].high, sock'[sl].low = sock[sl].low,
         sock[sl].id \in cut => sock[sl].id \in cut'
  PROVE  StreamIn(wire', sends', pipe', call', cut', sock'[sl])
  <1> DEFINE s == sock[sl]
             stream == wire[s.id] \o KeptIn(call, s) \o s.high
             out == stream \o s.low
  <1>1. StreamIn(wire, sends, pipe, call, cut, s)
    BY StreamSame DEF DataInv
  <1>2. /\ Sorted(sends, pipe, call, out, s.id) /\ LowerIn(sends, s.low)
        /\ Whole(s.low)
        /\ s.id \notin cut => Whole(stream) /\ IsInjective(out)
    BY <1>1 DEF StreamIn
  <1>3. out \in Seq(Unit) /\ stream \in Seq(Unit) /\ s.low \in Seq(Unit)
    BY StreamType
  <1>4. Sorted(sends', pipe', call', out, s.id)
    <2> HIDE DEF out
    <2> QED
      BY <1>2, <1>3, SortedKept
  <1>5. LowerIn(sends', s.low)
    <2>1. ASSUME NEW i \in DOMAIN s.low
          PROVE  sends'[s.low[i][1]] = sends[s.low[i][1]]
      <3>1. /\ Len(stream) + i \in DOMAIN out
            /\ out[Len(stream) + i] = s.low[i]
        <4> HIDE DEF stream, s
        <4> QED
          BY <1>3, SMTT(30)
      <3>2. out[Len(stream) + i][1] \in 1..Len(sends)
        BY <1>2, <3>1 DEF Sorted, SentIn
      <3> QED
        BY <3>1, <3>2 DEF DataKept, SendsKept
    <2> QED
      BY <1>2, <2>1 DEF LowerIn
  <1> QED
    BY <1>2, <1>4, <1>5 DEF StreamIn

LEMMA DataPrimed ==
  DataInv' <=> \A sl \in Slot :
    sock'[sl].type \notin {"INVALID", "RESERVE"} =>
      StreamIn(wire', sends', pipe', call', cut', sock'[sl])
  <1>1. \A sl \in Slot :
          StreamInv(sl)' <=>
            StreamIn(wire', sends', pipe', call', cut', sock'[sl])
    BY StreamPrimed
  <1> QED
    BY <1>1 DEF DataInv, Live

(* No byte is written and no list touched. *)
LEMMA DataFrame ==
  ASSUME BoundAssumption, TypeOK, StateInv, DataInv, DataKept,
         wire' = wire, cut \subseteq cut',
         \A sl \in Slot :
           sock'[sl].type \notin {"INVALID", "RESERVE"} =>
             /\ Live(sl) /\ sock'[sl].id = sock[sl].id
             /\ KeptIn(call', sock'[sl]) = KeptIn(call, sock[sl])
             /\ sock'[sl].high = sock[sl].high /\ sock'[sl].low = sock[sl].low
  PROVE  DataInv'
  BY StreamKept, DataPrimed

LEMMA SortedPrefix ==
  ASSUME NEW n, NEW q, NEW k, NEW id, NEW v \in Seq(Unit), NEW w \in Seq(Unit),
         Sorted(n, q, k, v \o w, id)
  PROVE  Sorted(n, q, k, v, id)
  <1>1. \A i \in DOMAIN v : i \in DOMAIN (v \o w) /\ (v \o w)[i] = v[i]
    OBVIOUS
  <1>2. SentIn(n, v, id)
    BY <1>1 DEF Sorted, SentIn
  <1>3. BeforeIn(n, q, v, id)
    BY <1>1 DEF Sorted, BeforeIn
  <1>4. LetGoIn(k, v)
    BY <1>1 DEF Sorted, LetGoIn
  <1>5. OrderedIn(n, v)
    BY <1>1 DEF Sorted, OrderedIn
  <1> QED
    BY <1>2, <1>3, <1>4, <1>5 DEF Sorted

(* force_close empties the lists of one socket. *)
LEMMA DataDropped ==
  ASSUME BoundAssumption, TypeOK, StateInv, DataInv, DataKept,
         call' = call, wire' = wire, NEW sl \in Slot, Live(sl),
         Dropped(sock[sl], sock'[sl]),
         \A x \in Slot \ {sl} : sock'[x] = sock[x],
         cut' = IF Empty(sock[sl]) THEN cut ELSE cut \cup {sock[sl].id}
  PROVE  DataInv'
  <1> DEFINE s == sock[sl]
             t == sock'[sl]
             base == wire[s.id] \o KeptIn(call, s)
  <1>1. ASSUME NEW x \in Slot \ {sl},
               sock'[x].type \notin {"INVALID", "RESERVE"}
        PROVE  StreamIn(wire', sends', pipe', call', cut', sock'[x])
    <2>1. Live(x) /\ sock'[x] = sock[x]
      BY <1>1 DEF Live
    <2> QED
      BY <2>1, StreamKept
  <1>2. /\ t.id = s.id /\ t.high = <<>> /\ t.low = <<>> /\ t.dw = s.dw
        /\ t.lock = s.lock
    BY DEF Dropped
  <1>3. KeptIn(call', t) = KeptIn(call, s)
    BY <1>2 DEF KeptIn
  <1>4. CASE Empty(s)
    <2>1. StreamIn(wire', sends', pipe', call', cut', t)
      BY <1>2, <1>3, <1>4, StreamKept DEF Empty
    <2> QED
      BY <1>1, <2>1, DataPrimed
  <1>5. CASE ~Empty(s)
    <2>1. StreamIn(wire, sends, pipe, call, cut, s)
      BY StreamSame DEF DataInv
    <2>2. /\ wire[s.id] \in Seq(Unit) /\ KeptIn(call, s) \in Seq(Unit)
          /\ s.high \in Seq(Unit) /\ s.low \in Seq(Unit)
      BY StreamType
    <2>3. base \in Seq(Unit) /\ base \o s.high \in Seq(Unit)
      BY <2>2, ConcatProperties
    <2>4. Sorted(sends, pipe, call, base \o s.high \o s.low, s.id)
      BY <2>1 DEF StreamIn
    <2>5. Sorted(sends, pipe, call, base, s.id)
      <3> HIDE DEF base, s
      <3> QED
        BY <2>2, <2>3, <2>4, SortedPrefix
    <2>6. Sorted(sends', pipe', call', base, s.id)
      <3> HIDE DEF base, s
      <3> QED
        BY <2>3, <2>5, SortedKept
    <2>7. base \o <<>> = base /\ base \o <<>> \o <<>> = base
      BY <2>3, ConcatEmptySeq
    <2>8. s.id \in cut'
      BY <1>5
    <2>9. LowerIn(sends', <<>>) /\ Whole(<<>>)
      BY DEF LowerIn, Whole
    <2>10. /\ wire'[t.id] \o KeptIn(call', t) \o t.high \o t.low = base
           /\ t.low = <<>> /\ t.id = s.id
      BY <1>2, <1>3, <2>7
    <2>11. StreamIn(wire', sends', pipe', call', cut', t)
      <3> HIDE DEF t, s, base
      <3> QED
        BY <2>6, <2>8, <2>9, <2>10 DEF StreamIn
    <2> QED
      BY <1>1, <2>11, DataPrimed
  <1> QED
    BY <1>4, <1>5

-----------------------------------------------------------------------------
(* What is on the wire.                                                    *)

(* The units of a message follow each other. *)
Chained(w) ==
  /\ \A i \in DOMAIN w :
       IF w[i][2] = 1 THEN i = 1 \/ w[i - 1][2] = Units
       ELSE i > 1 /\ w[i - 1] = <<w[i][1], w[i][2] - 1>>
  /\ IsInjective(w)

LEMMA PrefixChained ==
  ASSUME BoundAssumption, NEW w \in Seq(Unit), Whole(w), IsInjective(w),
         NEW n \in 0..Len(w)
  PROVE  Chained(SubSeq(w, 1, n))
  <1> DEFINE v == SubSeq(w, 1, n)
  <1>1. /\ DOMAIN v = 1..n /\ n \in Nat /\ \A i \in 1..n : v[i] = w[i]
        /\ \A i \in 1..n : i \in DOMAIN w
    OBVIOUS
  <1>2. Units \in Nat \ {0}
    BY DEF BoundAssumption
  <1>3. \A i \in DOMAIN w : /\ i \in Nat \ {0} /\ w[i][2] \in 1..Units
                            /\ w[i] = <<w[i][1], w[i][2]>>
    BY DEF Unit
  <1>4. ASSUME NEW i \in 1..n, w[i][2] = 1, i # 1
        PROVE  w[i - 1][2] = Units
    <2>1. i - 1 \in DOMAIN w /\ i - 1 \in 1..n
      BY <1>1, <1>4
    <2>2. SUFFICES ASSUME w[i - 1][2] # Units PROVE FALSE
      OBVIOUS
    <2>3. w[i - 1][2] + 1 \in 1..Units
      BY <1>2, <1>3, <2>1, <2>2
    <2>4. w[(i - 1) + (w[i - 1][2] + 1) - w[i - 1][2]]
            = <<w[i - 1][1], w[i - 1][2] + 1>>
      BY <2>1, <2>3 DEF Whole
    <2>5. (i - 1) + (w[i - 1][2] + 1) - w[i - 1][2] = i
      BY <1>1, <1>3, <2>1
    <2>6. w[i][2] = w[i - 1][2] + 1
      BY <2>4, <2>5
    <2> QED
      BY <1>3, <1>4, <2>1, <2>6
  <1>5. ASSUME NEW i \in 1..n, w[i][2] # 1
        PROVE  i > 1 /\ w[i - 1] = <<w[i][1], w[i][2] - 1>>
    <2>1. i \in DOMAIN w /\ w[i][2] - 1 \in 1..Units
      BY <1>1, <1>2, <1>3, <1>5
    <2>2. /\ i + (w[i][2] - 1) - w[i][2] \in DOMAIN w
          /\ w[i + (w[i][2] - 1) - w[i][2]] = <<w[i][1], w[i][2] - 1>>
      BY <2>1 DEF Whole
    <2>3. i + (w[i][2] - 1) - w[i][2] = i - 1
      BY <1>3, <2>1
    <2> QED
      BY <1>3, <2>2, <2>3
  <1>6. IsInjective(v)
    BY <1>1 DEF IsInjective
  <1>7. \A i \in 1..n : i # 1 => i - 1 \in 1..n
    BY <1>1
  <1> HIDE DEF v
  <1>8. \A i \in 1..n : i # 1 => v[i - 1] = w[i - 1]
    BY <1>1, <1>7
  <1>9. ASSUME NEW i \in 1..n
        PROVE  IF v[i][2] = 1 THEN i = 1 \/ v[i - 1][2] = Units
               ELSE i > 1 /\ v[i - 1] = <<v[i][1], v[i][2] - 1>>
    <2>1. v[i] = w[i]
      BY <1>1
    <2>2. CASE w[i][2] = 1
      BY <1>4, <1>8, <2>1, <2>2
    <2>3. CASE w[i][2] # 1
      <3>1. i > 1 /\ w[i - 1] = <<w[i][1], w[i][2] - 1>>
        BY <1>5, <2>3
      <3>2. i # 1
        BY <1>1, <3>1
      <3>3. v[i - 1] = w[i - 1]
        BY <1>8, <3>2
      <3> QED
        BY <2>1, <2>3, <3>1, <3>3
    <2> QED
      BY <2>2, <2>3
  <1>10. Chained(v)
    BY <1>1, <1>6, <1>9 DEF Chained
  <1> QED
    BY <1>10 DEF v

LEMMA WireStep ==
  ASSUME TypeOK, WireSent, WireWhole, SendOrder, SendsKept,
         cut \subseteq cut',
         \A id \in Id :
           \/ wire'[id] = wire[id]
           \/ /\ SentIn(sends', wire'[id], id) /\ OrderedIn(sends', wire'[id])
              /\ id \notin cut' => Chained(wire'[id])
  PROVE  WireSent' /\ WireWhole' /\ SendOrder'
  <1>1. ASSUME NEW id \in Id
        PROVE  /\ SentIn(sends', wire'[id], id)
               /\ OrderedIn(sends', wire'[id])
               /\ id \notin cut' => Chained(wire'[id])
    <2>1. CASE wire'[id] = wire[id]
      <3>1. \A i \in DOMAIN wire[id] :
              /\ wire[id][i][1] \in 1..Len(sends')
              /\ sends'[wire[id][i][1]] = sends[wire[id][i][1]]
              /\ sends[wire[id][i][1]].to = id
        BY DEF WireSent, SentTo, SendsKept
      <3>2. SentIn(sends', wire'[id], id)
        BY <2>1, <3>1 DEF SentIn
      <3>3. OrderedIn(sends', wire'[id])
        BY <2>1, <3>1 DEF OrderedIn, SendOrder
      <3>4. id \notin cut => Chained(wire[id])
        BY DEF WireWhole, Chained
      <3> QED
        BY <2>1, <3>2, <3>3, <3>4
    <2> QED
      BY <2>1
  <1>2. WireSent'
    BY <1>1 DEF WireSent, SentTo, SentIn
  <1>3. WireWhole'
    BY <1>1 DEF WireWhole, Chained, SentIn
  <1>4. SendOrder'
    BY <1>1 DEF SendOrder, OrderedIn
  <1> QED
    BY <1>2, <1>3, <1>4

-----------------------------------------------------------------------------
(* How a handler ends.                                                     *)

LEMMA Parts ==
  ASSUME IInv, ~failed
  PROVE  /\ TypeOK /\ WireSent /\ WireWhole /\ SendOrder
         /\ StateInv /\ CountInv /\ ToldInv /\ CloseInv /\ DataInv
  BY DEF IInv, Core

LEMMA Whole9 ==
  ASSUME TypeOK', WireSent', WireWhole', SendOrder', StateInv', CountInv',
         ToldInv', CloseInv', DataInv'
  PROVE  IInv'
  BY DEF IInv, Core

LEMMA WireSame ==
  ASSUME IInv, ~failed, wire' = wire, sends' = sends, cut \subseteq cut'
  PROVE  WireSent' /\ WireWhole' /\ SendOrder'
  <1>1. TypeOK /\ WireSent /\ WireWhole /\ SendOrder
    BY DEF IInv
  <1>2. SendsKept
    BY <1>1 DEF SendsKept, TypeOK
  <1> QED
    BY <1>1, <1>2, WireStep

(* After an assert has failed nothing but types and the wire matters. *)
LEMMA Fails ==
  ASSUME IInv, ~failed, TypeOK', failed', wire' = wire, sends' = sends,
         cut \subseteq cut'
  PROVE  IInv'
  BY WireSame DEF IInv

LEMMA HandlerTypes ==
  ASSUME TypeOK, sock' \in [Slot -> Socket], told' \in [Id -> Seq(Word)],
         ev' \in Seq(Event), ctl' \in {"check", "rest", "fresh", "lock"},
         fc' \in Closing,
         cut' \subseteq Id, failed' \in BOOLEAN, pipe' \in Seq(Request),
         wire' \in [Id -> Seq(Unit)],
         UNCHANGED <<alloc, call, peer, known, sends, calls>>
  PROVE  TypeOK'
  BY DEF TypeOK, Closing

(* The pipe after a handler that neither opens a socket nor sends. *)
Simple ==
  /\ UNCHANGED <<alloc, call, wire, peer, known, sends, calls>>
  /\ \/ pipe' = pipe
     \/ /\ pipe # <<>> /\ pipe' = Tail(pipe)
        /\ ~IsOpen(Head(pipe)) /\ ~IsSend(Head(pipe))

LEMMA SimpleKept ==
  ASSUME TypeOK, Simple
  PROVE  PipeKept /\ DataKept /\ pipe' \in Seq(Request)
  <1>1. PipeKept
    BY DEF Simple, PipeKept
  <1>2. DataKept
    BY DataSame DEF Simple
  <1> QED
    BY <1>1, <1>2, PipeShift

Alike(s, t) ==
  /\ t.id = s.id /\ t.tcp = s.tcp /\ t.tag = s.tag /\ t.lock = s.lock
  /\ t.sending = s.sending /\ t.high = s.high /\ t.low = s.low
  /\ t.dw = s.dw

LEMMA AlikeFramed ==
  ASSUME NEW sl \in Slot, Live(sl), Alike(sock[sl], sock'[sl]),
         sock'[sl].type \notin {"INVALID", "RESERVE"},
         sock'[sl].closing => sock'[sl].type = "HALFCLOSE_READ"
  PROVE  SlotFramed(sl)
  BY DEF Live, Alike, SlotFramed

(* The socket goes on. *)
LEMMA Answered ==
  ASSUME BoundAssumption, CallerAssumption, IInv, ~failed,
         NEW sl \in Slot, Live(sl), NEW t \in Socket, Alike(sock[sl], t),
         t.type \notin {"INVALID", "RESERVE"},
         t.closing => t.type = "HALFCLOSE_READ",
         NEW word \in Word \cup {"none"}, Fits(sock[sl], t, word),
         NEW rest \in Seq(Event), NEW back \in {"check", "rest", "fresh"},
         Answers(sl, t, word, rest, back), failed' = FALSE, Simple
  PROVE  IInv'
  <1>0. /\ TypeOK /\ WireSent /\ WireWhole /\ SendOrder
        /\ StateInv /\ CountInv /\ ToldInv /\ CloseInv /\ DataInv
    BY Parts
  <1> USE <1>0
  <1>1. sock[sl].id \in Id /\ sock[sl].id \in known
    BY LiveSlot
  <1>2. t.id \in Id
    BY <1>1 DEF Alike
  <1>3. /\ sock' \in [Slot -> Socket] /\ sock'[sl] = t
        /\ \A x \in Slot \ {sl} : sock'[x] = sock[x]
        /\ told' \in [Id -> Seq(Word)] /\ ev' \in Seq(Event)
        /\ ctl' \in {"check", "rest", "fresh", "lock"}
        /\ ctl' # "lock" /\ fc' = fc /\ cut' = cut
        /\ IF word = "none" THEN told' = told ELSE Say(t.id, word)
    BY <1>2, AnswerType
  <1>4. PipeKept /\ DataKept /\ pipe' \in Seq(Request)
    BY SimpleKept
  <1>5. TypeOK'
    <2>1. /\ fc \in Closing
          /\ cut \subseteq Id /\ wire \in [Id -> Seq(Unit)]
      BY DEF TypeOK, Closing
    <2> QED
      BY <1>3, <1>4, <2>1, HandlerTypes DEF Simple
  <1>6. Turned(sl, word)
    <2>1. SlotFramed(sl)
      BY <1>3, AlikeFramed
    <2>2. t.id = sock[sl].id
      BY DEF Alike
    <2> QED
      BY <1>3, <1>4, <2>1, <2>2 DEF Turned, Simple
  <1>7. StateInv' /\ ToldInv'
    BY <1>6, Turn
  <1>8. CountInv'
    <2>1. \A x \in Slot : /\ sock'[x].tcp = sock[x].tcp
                          /\ sock'[x].id = sock[x].id
                          /\ sock'[x].sending = sock[x].sending
      BY <1>3 DEF Alike
    <2> QED
      BY <2>1, CountFrame DEF Simple
  <1>9. CloseInv'
    BY <1>3 DEF CloseInv
  <1>10. DataInv'
    <2>1. \A x \in Slot : sock'[x].type \notin {"INVALID", "RESERVE"} =>
            /\ Live(x) /\ sock'[x].id = sock[x].id
            /\ KeptIn(call', sock'[x]) = KeptIn(call, sock[x])
            /\ sock'[x].high = sock[x].high /\ sock'[x].low = sock[x].low
      BY <1>3 DEF Alike, KeptIn, Live, Simple
    <2> QED
      BY <1>3, <1>4, <2>1, DataFrame DEF Simple
  <1>11. WireSent' /\ WireWhole' /\ SendOrder'
    BY <1>3, WireSame DEF Simple
  <1> QED
    BY <1>5, <1>7, <1>8, <1>9, <1>10, <1>11, Whole9

(* force_close begins. *)
LEMMA ForceClosed ==
  ASSUME BoundAssumption, CallerAssumption, IInv, ~failed,
         NEW sl \in Slot, Live(sl), NEW word \in {"none", "close", "err"},
         word = "none" <=> sock[sl].type = "HALFCLOSE_READ",
         word = "err" => sock[sl].type = "CONNECTING",
         NEW rest \in Seq(Event), NEW back \in {"check", "rest"},
         ForceClose(sl, sock[sl], word, rest, back), Simple
  PROVE  IInv'
  <1>0. /\ TypeOK /\ WireSent /\ WireWhole /\ SendOrder
        /\ StateInv /\ CountInv /\ ToldInv /\ CloseInv /\ DataInv
    BY Parts
  <1> USE <1>0
  <1> DEFINE s == sock[sl]
             t == sock'[sl]
  <1>1. /\ s.id \in Id /\ s.id \in known /\ s \in Socket
        /\ word \in Word \cup {"none"} /\ ~Stray(s)
        /\ s.closing => s.type = "HALFCLOSE_READ"
    BY LiveSlot, SocketFields DEF Word
  <1>2. /\ sock' \in [Slot -> Socket]
        /\ Dropped(s, t)
        /\ \A x \in Slot \ {sl} : sock'[x] = sock[x]
        /\ told' = told /\ ev' \in Seq(Event) /\ ctl' = "lock"
        /\ cut' \subseteq Id
        /\ cut' = IF Empty(s) THEN cut ELSE cut \cup {s.id}
        /\ failed' \in BOOLEAN /\ (failed' <=> Stray(s))
        /\ fc' \in Closing
        /\ fc'.slot = sl /\ (fc'.tell <=> word # "none") /\ fc'.back = back
        /\ fc'.word = IF word = "none" THEN "close" ELSE word
    BY <1>1, ForceCloseType
  <1>3. /\ t.id = s.id /\ t.tcp = s.tcp /\ t.tag = s.tag /\ t.lock = s.lock
        /\ t.sending = s.sending /\ t.high = <<>> /\ t.low = <<>>
        /\ t.dw = s.dw /\ t.type = s.type /\ t.closing = s.closing
    BY <1>2 DEF Dropped
  <1>4. PipeKept /\ DataKept /\ pipe' \in Seq(Request)
    BY SimpleKept
  <1>5. TypeOK'
    <2>1. wire \in [Id -> Seq(Unit)]
      BY DEF TypeOK
    <2>2. /\ sock' \in [Slot -> Socket] /\ told' \in [Id -> Seq(Word)]
          /\ ev' \in Seq(Event) /\ ctl' \in {"check", "rest", "fresh", "lock"}
          /\ fc' \in Closing /\ cut' \subseteq Id /\ failed' \in BOOLEAN
      <3>1. told \in [Id -> Seq(Word)]
        BY DEF TypeOK
      <3> QED
        BY <1>2, <3>1
    <2>3. /\ pipe' \in Seq(Request) /\ wire' \in [Id -> Seq(Unit)]
          /\ UNCHANGED <<alloc, call, peer, known, sends, calls>>
      BY <1>4, <2>1 DEF Simple
    <2> QED
      BY <2>2, <2>3, HandlerTypes
  <1>6. Turned(sl, "none")
    <2>1. SlotFramed(sl)
      BY <1>1, <1>3 DEF SlotFramed, Live
    <2>2. Fits(s, t, "none")
      BY <1>3 DEF Fits, Live
    <2> QED
      BY <1>2, <1>4, <2>1, <2>2 DEF Turned, Simple
  <1>7. StateInv' /\ ToldInv'
    BY <1>6, Turn
  <1>8. CountInv'
    <2>1. \A x \in Slot : /\ sock'[x].tcp = sock[x].tcp
                          /\ sock'[x].id = sock[x].id
                          /\ sock'[x].sending = sock[x].sending
      BY <1>2, <1>3
    <2> QED
      BY <2>1, CountFrame DEF Simple
  <1>9. CloseInv'
    BY <1>2, <1>3 DEF CloseInv, Live, Empty
  <1>10. DataInv'
    BY <1>2, <1>4, DataDropped DEF Simple
  <1>11. WireSent' /\ WireWhole' /\ SendOrder'
    BY <1>2, WireSame DEF Simple
  <1> QED
    BY <1>5, <1>7, <1>8, <1>9, <1>10, <1>11, Whole9

(* Nothing becomes of any socket. *)
LEMMA Stayed ==
  ASSUME BoundAssumption, CallerAssumption, IInv, ~failed, TypeOK',
         sock' = sock, UNCHANGED <<call, known, wire, sends, cut>>,
         alloc' \in Nat, alloc' >= alloc, CloseInv',
         \/ pipe' = pipe
         \/ /\ pipe # <<>> /\ pipe' = Tail(pipe)
            /\ ~IsOpen(Head(pipe)) /\ ~IsSend(Head(pipe)),
         \/ told' = told
         \/ \E id \in known : ~Opening(id) /\ Say(id, "err")
  PROVE  IInv'
  <1>0. /\ TypeOK /\ WireSent /\ WireWhole /\ SendOrder
        /\ StateInv /\ CountInv /\ ToldInv /\ CloseInv /\ DataInv
    BY Parts
  <1>1. PipeKept /\ DataKept
    BY <1>0, DataSame DEF PipeKept
  <1>2. StateInv' /\ ToldInv'
    BY <1>0, <1>1, Still
  <1>3. CountInv'
    BY <1>0, CountFrame
  <1>4. DataInv'
    BY <1>0, <1>1, DataFrame DEF Live, KeptIn
  <1>5. WireSent' /\ WireWhole' /\ SendOrder'
    BY WireSame
  <1> QED
    BY <1>2, <1>3, <1>4, <1>5, Whole9

(* A request finds a slot that is only reserved: the assert fails. *)
LEMMA FailedAnswer ==
  ASSUME BoundAssumption, IInv, ~failed, NEW sl \in Slot, NEW t \in Socket,
         NEW word \in Word \cup {"none"}, word # "none" => t.id \in Id,
         NEW rest \in Seq(Event), NEW back \in {"check", "rest", "fresh"},
         Answers(sl, t, word, rest, back), failed' = TRUE,
         UNCHANGED <<alloc, call, wire, peer, known, sends, calls>>,
         pipe' \in Seq(Request)
  PROVE  IInv'
  <1>1. TypeOK
    BY DEF IInv
  <1>2. /\ sock' \in [Slot -> Socket] /\ told' \in [Id -> Seq(Word)]
        /\ ev' \in Seq(Event) /\ fc' = fc /\ cut' = cut
        /\ ctl' \in {"check", "rest", "fresh", "lock"}
    BY <1>1, AnswerType
  <1>3. /\ fc \in Closing /\ cut \subseteq Id /\ wire \in [Id -> Seq(Unit)]
    BY <1>1 DEF TypeOK, Closing
  <1>4. TypeOK'
    BY <1>1, <1>2, <1>3, HandlerTypes
  <1> QED
    BY <1>2, <1>4, Fails

-----------------------------------------------------------------------------
(* The steps of the socket thread that read requests.                      *)

LEMMA NoRequestStep ==
  ASSUME BoundAssumption, CallerAssumption, IInv, NoRequest
  PROVE  IInv'
  <1>1. ~failed /\ TypeOK /\ alloc \in Nat
    BY DEF NoRequest, IInv, TypeOK
  <1>2. TypeOK'
    BY <1>1 DEF NoRequest, TypeOK
  <1>3. CloseInv'
    BY DEF NoRequest, CloseInv
  <1>4. /\ sock' = sock /\ UNCHANGED <<call, known, wire, sends, cut>>
        /\ pipe' = pipe /\ told' = told /\ alloc' = alloc
    BY DEF NoRequest
  <1>5. alloc' \in Nat /\ alloc' >= alloc
    BY <1>1, <1>4
  <1> QED
    BY <1>1, <1>2, <1>3, <1>4, <1>5, Stayed

LEMMA ResumeSocketStep ==
  ASSUME BoundAssumption, CallerAssumption, IInv, ResumeSocket
  PROVE  IInv'
  <1> DEFINE id == Head(pipe).id
             sl == SlotOf(id)
             s == sock[sl]
  <1>1. /\ ~failed /\ ctl = "check" /\ pipe # <<>> /\ pipe' = Tail(pipe)
        /\ Head(pipe).cmd = "start"
        /\ UNCHANGED <<alloc, call, wire, peer, known, sends, calls>>
    BY DEF ResumeSocket, TakeRequest
  <1>2. /\ TypeOK /\ WireSent /\ WireWhole /\ SendOrder
        /\ StateInv /\ CountInv /\ ToldInv /\ CloseInv /\ DataInv
    BY <1>1, Parts
  <1>3. /\ Head(pipe) = pipe[1] /\ 1 \in DOMAIN pipe /\ PipeInv(1)
        /\ id \in Id /\ id \in known /\ sl \in Slot
        /\ pipe' \in Seq(Request) /\ ev \in Seq(Event) /\ alloc \in Nat
    BY <1>1, <1>2, HeadFields, PipeTail DEF TypeOK
  <1>4. ~IsOpen(Head(pipe)) /\ ~IsSend(Head(pipe))
    BY <1>1 DEF IsOpen, IsSend
  <1>5. Simple
    BY <1>1, <1>4 DEF Simple
  <1>6. CASE Invalid(id) \/ s.type = "HALFCLOSE_READ"
    <2>1. Say(id, "err") /\ UNCHANGED <<sock, ev, ctl, fc, cut, failed>>
      BY <1>6 DEF ResumeSocket
    <2>2. ~Opening(id)
      <3> SUFFICES ASSUME NEW i \in DOMAIN pipe, IsOpen(pipe[i]),
                          pipe[i].id = id
                   PROVE  FALSE
        BY DEF Opening
      <3>1. PipeInv(i) /\ i # 1
        BY <1>2, <1>3, <1>4 DEF StateInv
      <3>2. 1 > i
        BY <1>3, <3>1 DEF PipeInv
      <3> QED
        BY <1>2, <3>2 DEF TypeOK
    <2>3. TypeOK'
      <3>1. told' \in [Id -> Seq(Word)]
        BY <1>2, <1>3, <2>1, SayEffect DEF Word
      <3> QED
        BY <1>1, <1>2, <1>3, <2>1, <3>1 DEF TypeOK
    <2>4. CloseInv'
      BY <1>1, <2>1 DEF CloseInv
    <2>5. alloc' \in Nat /\ alloc' >= alloc
      BY <1>1, <1>3
    <2> QED
      BY <1>1, <1>3, <1>4, <2>1, <2>2, <2>3, <2>4, <2>5, Stayed
  <1>7. CASE ~(Invalid(id) \/ s.type = "HALFCLOSE_READ")
    <2> DEFINE on == [s EXCEPT !.reading = TRUE]
               t == [on EXCEPT !.type = CASE @ = "PACCEPT" -> "CONNECTED"
                                          [] @ = "PLISTEN" -> "LISTEN"
                                          [] OTHER -> @]
               word == IF s.type \in {"PACCEPT", "PLISTEN", "CONNECTED"}
                       THEN "open" ELSE "none"
    <2>1. Answer(sl, t, word, ev, "check", Stray(s))
      BY <1>7 DEF ResumeSocket
    <2>2. Answers(sl, t, word, ev, "check") /\ (failed' <=> Stray(s))
          /\ failed' = Stray(s)
      BY <2>1 DEF Answer, Answers
    <2>3. s \in Socket /\ s.type \in Type /\ s.id = id
      BY <1>2, <1>3, <1>7, SocketFields DEF Invalid
    <2>4. /\ t \in Socket /\ Alike(s, t) /\ t.closing = s.closing
          /\ t.type = CASE s.type = "PACCEPT" -> "CONNECTED"
                        [] s.type = "PLISTEN" -> "LISTEN"
                        [] OTHER -> s.type
      BY <2>3 DEF Socket, Alike, Type
    <2>5. word \in Word \cup {"none"}
      BY DEF Word
    <2>6. t.id \in Id
      BY <1>3, <2>3, <2>4 DEF Alike
    <2>7. CASE Stray(s)
      <3>1. failed' = TRUE
        BY <2>2, <2>7 DEF Stray
      <3> HIDE DEF t, word, s
      <3> QED
        BY <1>1, <1>3, <2>2, <2>4, <2>5, <2>6, <3>1, FailedAnswer
    <2>8. CASE ~Stray(s)
      <3>1. failed' = FALSE
        BY <2>2, <2>8 DEF Stray
      <3>2. Live(sl) /\ (s.closing => s.type = "HALFCLOSE_READ")
        BY <1>2, <1>3, <1>7, <2>8, ValidSlot, LiveSlot
      <3>3. t.type \notin {"INVALID", "RESERVE"} /\ ~t.closing
        BY <1>7, <2>4, <3>2 DEF Live
      <3>4. Fits(s, t, word)
        BY <1>7, <2>3, <2>4, <3>3 DEF Fits
      <3> HIDE DEF t, word
      <3> QED
        BY <1>1, <1>3, <1>5, <2>2, <2>4, <2>5, <3>1, <3>2, <3>3, <3>4,
           Answered
    <2> QED
      BY <2>7, <2>8
  <1> QED
    BY <1>6, <1>7

(* A request that is for no socket any more changes nothing. *)
LEMMA RequestIgnored ==
  ASSUME BoundAssumption, CallerAssumption, IInv, NEW cmds,
         TakeRequest(cmds), ~IsOpen(Head(pipe)), ~IsSend(Head(pipe)),
         UNCHANGED <<sock, told, ev, ctl, fc, cut, failed>>
  PROVE  IInv'
  <1>1. /\ ~failed /\ ctl = "check" /\ pipe # <<>> /\ pipe' = Tail(pipe)
        /\ UNCHANGED <<alloc, call, wire, peer, known, sends, calls>>
    BY DEF TakeRequest
  <1>2. TypeOK /\ alloc \in Nat
    BY DEF IInv, TypeOK
  <1>3. pipe' \in Seq(Request)
    BY <1>1, <1>2, PipeTail
  <1>4. TypeOK'
    BY <1>1, <1>2, <1>3 DEF TypeOK
  <1>5. CloseInv'
    BY <1>1 DEF CloseInv
  <1>6. alloc' \in Nat /\ alloc' >= alloc
    BY <1>1, <1>2
  <1> QED
    BY <1>1, <1>4, <1>5, <1>6, Stayed

LEMMA SwitchEventStep ==
  ASSUME BoundAssumption, CallerAssumption, IInv, SwitchEvent
  PROVE  IInv'
  <1> DEFINE id == Head(pipe).id
             sl == SlotOf(id)
             s == sock[sl]
  <1>1. /\ ~failed /\ ctl = "check" /\ pipe # <<>> /\ pipe' = Tail(pipe)
        /\ Head(pipe).cmd \in {"pause", "trigger"}
        /\ UNCHANGED <<alloc, call, wire, peer, known, sends, calls>>
        /\ TakeRequest({"pause", "trigger"})
    BY DEF SwitchEvent, TakeRequest
  <1>2. /\ TypeOK /\ WireSent /\ WireWhole /\ SendOrder
        /\ StateInv /\ CountInv /\ ToldInv /\ CloseInv /\ DataInv
    BY <1>1, Parts
  <1>3. /\ id \in Id /\ sl \in Slot
        /\ pipe' \in Seq(Request) /\ ev \in Seq(Event)
    BY <1>1, <1>2, HeadFields, PipeTail DEF TypeOK
  <1>4. ~IsOpen(Head(pipe)) /\ ~IsSend(Head(pipe))
    BY <1>1 DEF IsOpen, IsSend
  <1>5. Simple
    BY <1>1, <1>4 DEF Simple
  <1>6. CASE Invalid(id)
    <2>1. UNCHANGED <<sock, told, ev, ctl, fc, cut, failed>>
      BY <1>6 DEF SwitchEvent
    <2> QED
      BY <1>1, <1>4, <2>1, RequestIgnored
  <1>7. CASE ~Invalid(id)
    <2> DEFINE t == IF Head(pipe).cmd = "pause"
                    THEN [s EXCEPT !.reading = FALSE]
                    ELSE [s EXCEPT !.writing = TRUE]
    <2>1. Answer(sl, t, "none", ev, "check", Stray(s))
      BY <1>7 DEF SwitchEvent
    <2>2. Answers(sl, t, "none", ev, "check") /\ failed' = Stray(s)
      BY <2>1 DEF Answer, Answers
    <2>3. s \in Socket /\ s.type \in Type /\ s.id = id
      BY <1>2, <1>3, <1>7, SocketFields DEF Invalid
    <2>4. /\ t \in Socket /\ Alike(s, t) /\ t.closing = s.closing
          /\ t.type = s.type
      BY <2>3 DEF Socket, Alike
    <2>5. t.id \in Id
      BY <1>3, <2>3, <2>4 DEF Alike
    <2>6. CASE Stray(s)
      <3>1. failed' = TRUE
        BY <2>2, <2>6 DEF Stray
      <3> HIDE DEF t, s
      <3> QED
        BY <1>1, <1>3, <2>2, <2>4, <2>5, <3>1, FailedAnswer
    <2>7. CASE ~Stray(s)
      <3>1. failed' = FALSE
        BY <2>2, <2>7 DEF Stray
      <3>2. Live(sl) /\ (s.closing => s.type = "HALFCLOSE_READ")
        BY <1>2, <1>3, <1>7, <2>7, ValidSlot, LiveSlot
      <3>3. t.type \notin {"INVALID", "RESERVE"}
            /\ (t.closing => t.type = "HALFCLOSE_READ")
        BY <2>4, <3>2 DEF Live
      <3>4. Fits(s, t, "none")
        BY <2>4, <3>3 DEF Fits
      <3> HIDE DEF t
      <3> QED
        BY <1>1, <1>3, <1>5, <2>2, <2>4, <3>1, <3>2, <3>3, <3>4, Answered
    <2> QED
      BY <2>6, <2>7
  <1> QED
    BY <1>6, <1>7

LEMMA CloseSocketStep ==
  ASSUME BoundAssumption, CallerAssumption, IInv, CloseSocket
  PROVE  IInv'
  <1> DEFINE r == Head(pipe)
             id == r.id
             sl == SlotOf(id)
             s == sock[sl]
  <1>1. /\ ~failed /\ ctl = "check" /\ pipe # <<>> /\ pipe' = Tail(pipe)
        /\ Head(pipe).cmd \in {"close", "shutdown"}
        /\ UNCHANGED <<alloc, call, wire, peer, known, sends, calls>>
        /\ TakeRequest({"close", "shutdown"})
    BY DEF CloseSocket, TakeRequest
  <1>2. /\ TypeOK /\ WireSent /\ WireWhole /\ SendOrder
        /\ StateInv /\ CountInv /\ ToldInv /\ CloseInv /\ DataInv
    BY <1>1, Parts
  <1>3. /\ id \in Id /\ sl \in Slot
        /\ pipe' \in Seq(Request) /\ ev \in Seq(Event)
    BY <1>1, <1>2, HeadFields, PipeTail DEF TypeOK
  <1>4. ~IsOpen(Head(pipe)) /\ ~IsSend(Head(pipe))
    BY <1>1 DEF IsOpen, IsSend
  <1>5. Simple
    BY <1>1, <1>4 DEF Simple
  <1>6. CASE Invalid(id)
    <2>1. UNCHANGED <<sock, told, ev, ctl, fc, cut, failed>>
      BY <1>6 DEF CloseSocket
    <2> QED
      BY <1>1, <1>4, <2>1, RequestIgnored
  <1>7. CASE ~Invalid(id)
    <2>1. /\ s \in Socket /\ s.type \in Type /\ s.id = id /\ s.id \in Id
          /\ s.type # "INVALID"
      BY <1>2, <1>3, <1>7, SocketFields DEF Invalid
    <2>2. /\ Raised(s) \in {"none", "close"}
          /\ Raised(s) = "none" <=> s.type = "HALFCLOSE_READ"
      BY DEF Raised
    <2>3. ~Stray(s) => Live(sl) /\ (s.closing => s.type = "HALFCLOSE_READ")
      BY <1>2, <1>3, <1>7, ValidSlot, LiveSlot
    <2>4. CASE r.cmd = "shutdown" \/ NoMoreSending(s)
      <3>1. ForceClose(sl, s, Raised(s), ev, "check")
        BY <1>7, <2>4 DEF CloseSocket
      <3>2. CASE Stray(s)
        <4>1. /\ sock' \in [Slot -> Socket] /\ told' = told
              /\ ev' \in Seq(Event) /\ ctl' = "lock" /\ cut' \subseteq Id
              /\ failed' /\ failed' \in BOOLEAN /\ fc' \in Closing
              /\ cut \subseteq cut'
          <5>1. Raised(s) \in Word \cup {"none"}
            BY <2>2 DEF Word
          <5> HIDE DEF s
          <5> QED
            BY <1>2, <1>3, <2>1, <3>1, <3>2, <5>1, ForceCloseType
        <4>2. wire' \in [Id -> Seq(Unit)] /\ told' \in [Id -> Seq(Word)]
          BY <1>1, <1>2, <4>1 DEF TypeOK
        <4>3. TypeOK'
          BY <1>1, <1>2, <1>3, <4>1, <4>2, HandlerTypes
        <4> QED
          BY <1>1, <4>1, <4>3, Fails
      <3>3. CASE ~Stray(s)
        BY <1>1, <1>3, <1>5, <2>2, <2>3, <3>1, <3>3, ForceClosed
      <3> QED
        BY <3>2, <3>3
    <2>5. CASE ~(r.cmd = "shutdown" \/ NoMoreSending(s))
      <3> DEFINE closing == [s EXCEPT !.closing = TRUE]
                 t == IF s.type = "HALFCLOSE_READ" THEN closing
                      ELSE HalfRead(closing)
      <3>1. Answer(sl, t, Raised(s), ev, "check", Stray(s))
        BY <1>7, <2>5 DEF CloseSocket
      <3>2. Answers(sl, t, Raised(s), ev, "check") /\ failed' = Stray(s)
        BY <3>1 DEF Answer, Answers
      <3>3. t \in Socket /\ Alike(s, t) /\ t.type = "HALFCLOSE_READ"
        BY <2>1 DEF Socket, Alike, HalfRead, Type
      <3>4. t.id \in Id
        BY <2>1, <3>3 DEF Alike
      <3>5. Raised(s) \in Word \cup {"none"}
        BY <2>2 DEF Word
      <3>6. CASE Stray(s)
        <4>1. failed' = TRUE
          BY <3>2, <3>6 DEF Stray
        <4> HIDE DEF t, s
        <4> QED
          BY <1>1, <1>3, <3>2, <3>3, <3>4, <3>5, <4>1, FailedAnswer
      <3>7. CASE ~Stray(s)
        <4>1. failed' = FALSE
          BY <3>2, <3>7 DEF Stray
        <4>2. Fits(s, t, Raised(s))
          BY <2>2, <3>3 DEF Fits
        <4> HIDE DEF t
        <4> QED
          BY <1>1, <1>3, <1>5, <2>3, <3>2, <3>3, <3>5, <3>7, <4>1, <4>2,
             Answered
      <3> QED
        BY <3>6, <3>7
    <2> QED
      BY <2>4, <2>5
  <1> QED
    BY <1>6, <1>7

-----------------------------------------------------------------------------
(* The steps of the socket thread that handle events.                      *)

LEMMA OpenEvent ==
  ASSUME BoundAssumption, IInv, NEW types, OnEvent(types),
         "INVALID" \notin types, "RESERVE" \notin types
  PROVE  /\ ~failed /\ Head(ev).slot \in Slot /\ Live(Head(ev).slot)
         /\ sock[Head(ev).slot] \in Socket
         /\ sock[Head(ev).slot].type \in types
         /\ sock[Head(ev).slot].id \in Id
         /\ sock[Head(ev).slot].closing =>
              sock[Head(ev).slot].type = "HALFCLOSE_READ"
         /\ ev \in Seq(Event) /\ Pop \in Seq(Event)
         /\ AfterRead \in Seq(Event) /\ Back \in {"check", "rest"}
         /\ UNCHANGED <<pipe, call, peer, sends, calls>>
  <1>1. /\ ~failed /\ ev # <<>> /\ sock[Head(ev).slot].type \in types
        /\ UNCHANGED <<pipe, call, peer, sends, calls>>
    BY DEF OnEvent
  <1>2. TypeOK /\ StateInv /\ ev \in Seq(Event)
    BY <1>1, Parts DEF TypeOK
  <1>3. /\ Head(ev).slot \in Slot /\ Pop \in Seq(Event)
        /\ AfterRead \in Seq(Event) /\ Back \in {"check", "rest"}
    BY <1>1, <1>2, EventFields
  <1>4. Live(Head(ev).slot)
    BY <1>1 DEF Live
  <1> QED
    BY <1>1, <1>2, <1>3, <1>4, LiveSlot, SocketFields

(* A handler that leaves the socket as it is. *)
LEMMA Unhandled ==
  ASSUME BoundAssumption, CallerAssumption, IInv, ~failed,
         NEW sl \in Slot, Live(sl),
         NEW word \in Word \cup {"none"},
         word # "close" /\ word # "open" /\ word # "accept",
         word = "data" =>
           sock[sl].type # "HALFCLOSE_READ" /\ sock[sl].type # "CONNECTING",
         NEW rest \in Seq(Event), NEW back \in {"check", "rest", "fresh"},
         Answers(sl, sock[sl], word, rest, back), failed' = FALSE, Simple
  PROVE  IInv'
  <1>1. TypeOK /\ StateInv
    BY Parts
  <1>2. /\ sock[sl] \in Socket
        /\ sock[sl].type \notin {"INVALID", "RESERVE"}
        /\ sock[sl].closing => sock[sl].type = "HALFCLOSE_READ"
    BY <1>1, SocketFields, LiveSlot DEF Word, Live
  <1>3. Fits(sock[sl], sock[sl], word)
    BY <1>2 DEF Fits
  <1>4. Alike(sock[sl], sock[sl])
    BY DEF Alike
  <1> QED
    BY <1>2, <1>3, <1>4, Answered

LEMMA ReadNothingStep ==
  ASSUME BoundAssumption, CallerAssumption, IInv, ReadNothing
  PROVE  IInv'
  <1> DEFINE sl == Head(ev).slot
  <1>1. /\ OnEvent(Open) /\ UNCHANGED <<alloc, known, wire>>
        /\ Answers(sl, sock[sl], "none", AfterRead, Back) /\ failed' = FALSE
    BY DEF ReadNothing, OnOpen, Answer, Answers
  <1>2. /\ ~failed /\ sl \in Slot /\ Live(sl) /\ AfterRead \in Seq(Event)
        /\ Back \in {"check", "rest", "fresh"} /\ Simple
    BY <1>1, OpenEvent DEF Open, Simple
  <1> QED
    BY <1>1, <1>2, Unhandled DEF Word

LEMMA ReadErrorStep ==
  ASSUME BoundAssumption, CallerAssumption, IInv, ReadError
  PROVE  IInv'
  <1> DEFINE sl == Head(ev).slot
  <1>1. /\ OnEvent(Open) /\ UNCHANGED <<alloc, known, wire>>
        /\ Answers(sl, sock[sl], "err", Pop, Back) /\ failed' = FALSE
    BY DEF ReadError, OnOpen, Answer, Answers
  <1>2. /\ ~failed /\ sl \in Slot /\ Live(sl) /\ Pop \in Seq(Event)
        /\ Back \in {"check", "rest", "fresh"} /\ Simple
    BY <1>1, OpenEvent DEF Open, Simple
  <1> QED
    BY <1>1, <1>2, Unhandled DEF Word

LEMMA ReadDataStep ==
  ASSUME BoundAssumption, CallerAssumption, IInv, ReadData
  PROVE  IInv'
  <1> DEFINE sl == Head(ev).slot
             s == sock[sl]
  <1>1. OnEvent(Open) /\ UNCHANGED <<alloc, known, wire>>
    BY DEF ReadData, OnOpen
  <1>2. /\ ~failed /\ sl \in Slot /\ Live(sl) /\ AfterRead \in Seq(Event)
        /\ Back \in {"check", "rest", "fresh"} /\ Simple
        /\ s.type \in Open /\ ev \in Seq(Event)
    BY <1>1, OpenEvent DEF Open, Simple
  <1>3. CASE s.type = "HALFCLOSE_READ"
    <2>1. Answers(sl, s, "none", AfterRead, Back) /\ failed' = FALSE
      BY <1>3 DEF ReadData, Answer, Answers
    <2> QED
      BY <1>2, <2>1, Unhandled DEF Word
  <1>4. CASE s.type # "HALFCLOSE_READ"
    <2>1. PICK rest \in {AfterRead, ev} :
            Answer(sl, s, "data", rest, Back, FALSE)
      BY <1>4 DEF ReadData
    <2>2. Answers(sl, s, "data", rest, Back) /\ failed' = FALSE
      BY <2>1 DEF Answer, Answers
    <2>3. s.type \notin {"HALFCLOSE_READ", "CONNECTING"}
      BY <1>2, <1>4 DEF Open
    <2> QED
      BY <1>2, <2>2, <2>3, Unhandled DEF Word
  <1> QED
    BY <1>3, <1>4

LEMMA ReadEndStep ==
  ASSUME BoundAssumption, CallerAssumption, IInv, ReadEnd
  PROVE  IInv'
  <1> DEFINE sl == Head(ev).slot
             s == sock[sl]
  <1>1. OnEvent(Open) /\ UNCHANGED <<alloc, known, wire>>
    BY DEF ReadEnd, OnOpen
  <1>2. /\ ~failed /\ sl \in Slot /\ Live(sl) /\ AfterRead \in Seq(Event)
        /\ Pop \in Seq(Event) /\ Back \in {"check", "rest"} /\ Simple
        /\ s.type \in Open /\ s \in Socket
        /\ s.closing => s.type = "HALFCLOSE_READ"
    BY <1>1, OpenEvent DEF Open, Simple
  <1>3. CASE s.closing
    <2>1. CASE NoMoreSending(s)
      <3>1. ForceClose(sl, s, "none", AfterRead, Back)
        BY <1>3, <2>1 DEF ReadEnd
      <3> QED
        BY <1>2, <1>3, <3>1, ForceClosed
    <2>2. CASE ~NoMoreSending(s)
      <3>1. Answers(sl, s, "none", AfterRead, Back) /\ failed' = FALSE
        BY <1>3, <2>2 DEF ReadEnd, Answer, Answers
      <3> QED
        BY <1>2, <3>1, Unhandled DEF Word
    <2> QED
      BY <2>1, <2>2
  <1>4. CASE ~s.closing /\ s.type = "HALFCLOSE_READ"
    <2>1. Answers(sl, s, "none", AfterRead, Back) /\ failed' = FALSE
      BY <1>4 DEF ReadEnd, Answer, Answers
    <2> QED
      BY <1>2, <2>1, Unhandled DEF Word
  <1>5. CASE ~s.closing /\ s.type = "HALFCLOSE_WRITE"
    <2>1. ForceClose(sl, s, "close", Pop, Back)
      BY <1>5 DEF ReadEnd
    <2> QED
      BY <1>2, <1>5, <2>1, ForceClosed
  <1>6. CASE /\ ~s.closing
             /\ s.type \notin {"HALFCLOSE_READ", "HALFCLOSE_WRITE"}
    <2>1. Answers(sl, HalfRead(s), "close", Pop, Back) /\ failed' = FALSE
      BY <1>6 DEF ReadEnd, Answer, Answers
    <2>2. /\ HalfRead(s) \in Socket /\ Alike(s, HalfRead(s))
          /\ HalfRead(s).type = "HALFCLOSE_READ"
      BY <1>2 DEF Socket, HalfRead, Alike, Type
    <2>3. Fits(s, HalfRead(s), "close") /\ "close" \in Word \cup {"none"}
      BY <1>6, <2>2 DEF Fits, Word
    <2> QED
      BY <1>2, <2>1, <2>2, <2>3, Answered
  <1> QED
    BY <1>3, <1>4, <1>5, <1>6

LEMMA SendBlockedStep ==
  ASSUME BoundAssumption, CallerAssumption, IInv, SendBlocked
  PROVE  IInv'
  <1> DEFINE sl == Head(ev).slot
  <1>1. /\ OnEvent(Open) /\ UNCHANGED <<alloc, known, wire>>
        /\ Answers(sl, sock[sl], "none", Pop, Back) /\ failed' = FALSE
    BY DEF SendBlocked, OnOpen, Answer, Answers
  <1>2. /\ ~failed /\ sl \in Slot /\ Live(sl) /\ Pop \in Seq(Event)
        /\ Back \in {"check", "rest", "fresh"} /\ Simple
    BY <1>1, OpenEvent DEF Open, Simple
  <1> QED
    BY <1>1, <1>2, Unhandled DEF Word

LEMMA ErrorEventStep ==
  ASSUME BoundAssumption, CallerAssumption, IInv, ErrorEvent
  PROVE  IInv'
  <1> DEFINE sl == Head(ev).slot
  <1>1. /\ OnEvent(Open) /\ UNCHANGED <<alloc, known, wire>>
        /\ Answers(sl, sock[sl], "err", Pop, Back) /\ failed' = FALSE
    BY DEF ErrorEvent, OnOpen, Answer, Answers
  <1>2. /\ ~failed /\ sl \in Slot /\ Live(sl) /\ Pop \in Seq(Event)
        /\ Back \in {"check", "rest", "fresh"} /\ Simple
    BY <1>1, OpenEvent DEF Open, Simple
  <1> QED
    BY <1>1, <1>2, Unhandled DEF Word

LEMMA HangUpStep ==
  ASSUME BoundAssumption, CallerAssumption, IInv, HangUp
  PROVE  IInv'
  <1> DEFINE sl == Head(ev).slot
             s == sock[sl]
  <1>1. OnEvent(Open) /\ UNCHANGED <<alloc, known, wire>>
    BY DEF HangUp, OnOpen
  <1>2. /\ ~failed /\ sl \in Slot /\ Live(sl) /\ Pop \in Seq(Event)
        /\ Back \in {"check", "rest"} /\ Simple /\ s.type \in Open
    BY <1>1, OpenEvent DEF Open, Simple
  <1>3. CASE Head(ev).hup
    <2>1. ForceClose(sl, s, Raised(s), Pop, Back)
      BY <1>3 DEF HangUp
    <2>2. /\ Raised(s) \in {"none", "close"}
          /\ Raised(s) = "none" <=> s.type = "HALFCLOSE_READ"
      BY DEF Raised
    <2> QED
      BY <1>2, <2>1, <2>2, ForceClosed
  <1>4. CASE ~Head(ev).hup
    <2>1. Answers(sl, s, "none", Pop, Back) /\ failed' = FALSE
      BY <1>4 DEF HangUp, Answer, Answers
    <2> QED
      BY <1>2, <2>1, Unhandled DEF Word
  <1> QED
    BY <1>3, <1>4

LEMMA ReportConnectStep ==
  ASSUME BoundAssumption, CallerAssumption, IInv, ReportConnect
  PROVE  IInv'
  <1> DEFINE sl == Head(ev).slot
             s == sock[sl]
  <1>1. OnEvent({"CONNECTING"}) /\ UNCHANGED <<alloc, known, wire>>
    BY DEF ReportConnect
  <1>2. /\ ~failed /\ sl \in Slot /\ Live(sl) /\ Pop \in Seq(Event)
        /\ Back \in {"check", "rest"} /\ Simple /\ s.type = "CONNECTING"
        /\ s \in Socket /\ ~s.closing
    BY <1>1, OpenEvent DEF Simple
  <1>3. CASE ForceClose(sl, s, "err", Pop, Back)
    BY <1>2, <1>3, ForceClosed
  <1>4. CASE Answer(sl, [s EXCEPT !.type = "CONNECTED",
                                  !.writing = @ /\ ~NoMoreSending(s)],
                    "open", Pop, Back, FALSE)
    <2> DEFINE t == [s EXCEPT !.type = "CONNECTED",
                              !.writing = @ /\ ~NoMoreSending(s)]
    <2>1. Answers(sl, t, "open", Pop, Back) /\ failed' = FALSE
      BY <1>4 DEF Answer, Answers
    <2>2. (s.writing /\ ~NoMoreSending(s)) \in BOOLEAN
      OBVIOUS
    <2>3. /\ t \in Socket /\ Alike(s, t) /\ t.type = "CONNECTED"
          /\ t.closing = s.closing
      <3> HIDE DEF s
      <3> QED
        BY <1>2, <2>2 DEF Socket, Alike, Type
    <2>4. Fits(s, t, "open") /\ "open" \in Word \cup {"none"} /\ ~t.closing
      BY <1>2, <2>3 DEF Fits, Word
    <2> HIDE DEF t
    <2> QED
      BY <1>2, <2>1, <2>3, <2>4, Answered
  <1> QED
    BY <1>3, <1>4 DEF ReportConnect

LEMMA StaleEventStep ==
  ASSUME BoundAssumption, CallerAssumption, IInv, StaleEvent
  PROVE  IInv'
  <1>1. /\ ~failed /\ ctl \in {"rest", "fresh"} /\ ev # <<>>
        /\ UNCHANGED <<pipe, call, peer, sends, calls>>
        /\ UNCHANGED <<alloc, sock, fc, wire, told, known, cut>>
        /\ ev' = Pop /\ ctl' = Back /\ failed' = Stray(sock[Head(ev).slot])
    BY DEF StaleEvent, OnEvent
  <1>2. TypeOK /\ alloc \in Nat
    BY DEF IInv, TypeOK
  <1>3. Pop \in Seq(Event) /\ Back \in {"check", "rest"}
    BY <1>1, <1>2, EventFields
  <1>4. failed' \in BOOLEAN
    BY <1>1 DEF Stray
  <1>5. TypeOK'
    BY <1>1, <1>2, <1>3, <1>4 DEF TypeOK
  <1>6. CloseInv'
    BY <1>1, <1>3 DEF CloseInv
  <1>7. alloc' \in Nat /\ alloc' >= alloc
    BY <1>1, <1>2
  <1> QED
    BY <1>1, <1>5, <1>6, <1>7, Stayed

LEMMA ReadyType ==
  ASSUME NEW sl \in Slot
  PROVE  Ready(sl) \subseteq Event
  <1>1. Ready(sl) \subseteq [slot : {sl}, r : BOOLEAN, w : BOOLEAN,
                            err : BOOLEAN, hup : BOOLEAN]
    BY DEF Ready
  <1>2. [slot : {sl}, r : BOOLEAN, w : BOOLEAN, err : BOOLEAN,
         hup : BOOLEAN] \subseteq Event
    BY DEF Event
  <1> QED
    BY <1>1, <1>2

LEMMA WaitStep ==
  ASSUME BoundAssumption, CallerAssumption, IInv, Wait
  PROVE  IInv'
  <1> DEFINE all == UNION {Ready(sl) : sl \in Slot}
             runs == UNION {[1..n -> all] : n \in 1..MaxBatch}
  <1>1. /\ ~failed
        /\ UNCHANGED <<alloc, sock, pipe, call, fc, wire, peer, told, known,
                       cut, sends, calls, failed>>
        /\ ctl' \in {"fresh", "check"} /\ ev' \in runs \cup {<<>>}
    BY DEF Wait
  <1>2. TypeOK /\ alloc \in Nat
    BY DEF IInv, TypeOK
  <1>3. all \subseteq Event
    BY <1>2, ReadyType
  <1>4. ev' \in Seq(Event)
    <2>1. ASSUME NEW n \in 1..MaxBatch, NEW q \in [1..n -> all]
          PROVE  q \in Seq(Event)
      <3>1. n \in Nat /\ q \in [1..n -> Event]
        BY <1>3, <2>1 DEF BoundAssumption
      <3> QED
        BY <3>1
    <2>2. <<>> \in Seq(Event)
      BY EmptySeq
    <2>3. CASE ev' = <<>>
      BY <2>2, <2>3
    <2>4. CASE ev' \in runs
      <3>1. PICK n \in 1..MaxBatch : ev' \in [1..n -> all]
        BY <2>4
      <3> QED
        BY <2>1, <3>1
    <2> QED
      BY <1>1, <2>3, <2>4
  <1>5. TypeOK'
    BY <1>1, <1>2, <1>4 DEF TypeOK
  <1>6. CloseInv'
    BY <1>1 DEF CloseInv
  <1>7. alloc' \in Nat /\ alloc' >= alloc
    BY <1>1, <1>2
  <1> QED
    BY <1>1, <1>5, <1>6, <1>7, Stayed

LEMMA PeerEndsStep ==
  ASSUME BoundAssumption, CallerAssumption, IInv, NEW id \in known,
         NEW how \in {"fin", "rst"}, PeerEnds(id, how)
  PROVE  IInv'
  <1>1. /\ ~failed /\ peer' = [peer EXCEPT ![id] = how]
        /\ UNCHANGED <<alloc, sock, pipe, call, ctl, ev, fc, wire, told, known,
                       cut, sends, calls, failed>>
    BY DEF PeerEnds
  <1>2. TypeOK /\ alloc \in Nat /\ CloseInv
    BY <1>1, Parts DEF TypeOK
  <1>3. TypeOK'
    BY <1>1, <1>2 DEF TypeOK
  <1>4. CloseInv'
    BY <1>1, <1>2 DEF CloseInv, Live
  <1>5. alloc' \in Nat /\ alloc' >= alloc
    BY <1>1, <1>2
  <1> QED
    BY <1>1, <1>3, <1>4, <1>5, Stayed

(* force_close ends: the slot is free. *)
LEMMA LockedCloseStep ==
  ASSUME BoundAssumption, CallerAssumption, IInv, LockedClose
  PROVE  IInv'
  <1> DEFINE sl == fc.slot
             s == sock[sl]
             t == [s EXCEPT !.type = "INVALID", !.dw = <<>>]
             word == IF fc.tell THEN fc.word ELSE "none"
  <1>1. /\ ~failed /\ ctl = "lock" /\ s.lock = NoOne /\ Put(sl, t)
        /\ IF fc.tell THEN Say(t.id, fc.word) ELSE told' = told
        /\ ev' = IF fc.tell THEN Cleared(ev, t, fc.word) ELSE ev
        /\ ctl' = fc.back
        /\ UNCHANGED <<alloc, pipe, call, fc, wire, peer, known, cut, sends,
                       calls, failed>>
    BY DEF LockedClose
  <1>2. /\ TypeOK /\ WireSent /\ WireWhole /\ SendOrder
        /\ StateInv /\ CountInv /\ ToldInv /\ CloseInv /\ DataInv
    BY <1>1, Parts
  <1>3. /\ sl \in Slot /\ fc.word \in Word /\ fc.back \in {"check", "rest"}
        /\ ev \in Seq(Event)
    BY <1>2, Zenon DEF TypeOK
  <1>4. /\ Live(sl) /\ Empty(s) /\ (fc.tell <=> s.type # "HALFCLOSE_READ")
        /\ fc.word \in {"close", "err"}
        /\ fc.word = "err" => s.type = "CONNECTING"
    BY <1>1, <1>2 DEF CloseInv
  <1>5. s \in Socket /\ s.id \in Id
    BY <1>2, <1>3, <1>4, SocketFields, LiveSlot
  <1>6. /\ t \in Socket /\ t.id = s.id /\ t.tcp = s.tcp /\ t.tag = s.tag
        /\ t.lock = s.lock /\ t.sending = s.sending /\ t.high = s.high
        /\ t.low = s.low /\ t.dw = <<>> /\ t.type = "INVALID"
    <2>1. <<>> \in Seq(Unit)
      BY EmptySeq
    <2> HIDE DEF s
    <2> QED
      BY <1>5, <2>1 DEF Socket, Type
  <1>7. /\ sock' \in [Slot -> Socket] /\ sock'[sl] = t
        /\ \A x \in Slot \ {sl} : sock'[x] = sock[x]
    <2> HIDE DEF t, sl
    <2> QED
      BY <1>1, <1>2, <1>3, <1>6, PutType
  <1>8. word \in Word \cup {"none"}
    BY <1>3
  <1>9. IF word = "none" THEN told' = told ELSE Say(s.id, word)
    BY <1>1, <1>4, <1>6
  <1>10. TypeOK'
    <2>1. told' \in [Id -> Seq(Word)]
      BY <1>2, <1>5, <1>8, <1>9, SayEffect DEF TypeOK
    <2>2. Cleared(ev, t, fc.word) \in Seq(Event)
      <3> HIDE DEF t
      <3> QED
        BY <1>3, <1>6, ClearedType
    <2>3. ev' \in Seq(Event)
      BY <1>1, <1>3, <2>2
    <2> HIDE DEF t, sl
    <2> QED
      BY <1>1, <1>2, <1>3, <1>7, <2>1, <2>3, Zenon DEF TypeOK
  <1>11. PipeKept /\ DataKept
    BY <1>1, <1>2, DataSame DEF PipeKept
  <1>12. Turned(sl, word)
    <2>1. SlotFramed(sl)
      BY <1>1, <1>4, <1>6, <1>7 DEF SlotFramed, Live, Empty
    <2>2. Fits(s, t, word)
      BY <1>4, <1>6 DEF Fits
    <2> HIDE DEF word, t, sl
    <2> QED
      BY <1>1, <1>4, <1>7, <1>9, <1>11, <2>1, <2>2 DEF Turned
  <1>13. StateInv' /\ ToldInv'
    BY <1>2, <1>3, <1>8, <1>12, Turn
  <1>14. CountInv'
    <2>1. \A x \in Slot : /\ sock'[x].tcp = sock[x].tcp
                          /\ sock'[x].id = sock[x].id
                          /\ sock'[x].sending = sock[x].sending
      BY <1>6, <1>7
    <2> QED
      BY <1>1, <1>2, <2>1, CountFrame
  <1>15. CloseInv'
    BY <1>1, <1>3 DEF CloseInv
  <1>16. DataInv'
    <2>1. \A x \in Slot : sock'[x].type \notin {"INVALID", "RESERVE"} =>
            /\ Live(x) /\ sock'[x].id = sock[x].id
            /\ KeptIn(call', sock'[x]) = KeptIn(call, sock[x])
            /\ sock'[x].high = sock[x].high /\ sock'[x].low = sock[x].low
      BY <1>1, <1>6, <1>7 DEF KeptIn, Live
    <2> QED
      BY <1>1, <1>2, <1>11, <2>1, DataFrame
  <1>17. WireSent' /\ WireWhole' /\ SendOrder'
    BY <1>1, WireSame
  <1> QED
    BY <1>10, <1>13, <1>14, <1>15, <1>16, <1>17, Whole9

-----------------------------------------------------------------------------
(* A message takes its place in what a socket is to send.                  *)

LEMMA WholeMessage ==
  ASSUME BoundAssumption, NEW m \in 1..MaxSend
  PROVE  Whole(Message(m)) /\ IsInjective(Message(m))
  <1> DEFINE w == Message(m)
  <1>1. /\ DOMAIN w = 1..Units /\ \A i \in 1..Units : w[i] = <<m, i>>
        /\ Units \in Nat
    BY MessageUnits DEF BoundAssumption
  <1> HIDE DEF w
  <1>2. ASSUME NEW i \in DOMAIN w, NEW p \in 1..Units
        PROVE  i + p - w[i][2] \in DOMAIN w
               /\ w[i + p - w[i][2]] = <<w[i][1], p>>
    <2>1. i + p - w[i][2] = p
      BY <1>1
    <2> QED
      BY <1>1, <2>1
  <1>3. Whole(w)
    BY <1>2 DEF Whole
  <1>4. IsInjective(w)
    BY <1>1 DEF IsInjective
  <1> QED
    BY <1>3, <1>4 DEF w

LEMMA WholeConcat ==
  ASSUME BoundAssumption, NEW u \in Seq(Unit), NEW v \in Seq(Unit),
         Whole(u), Whole(v)
  PROVE  Whole(u \o v)
  <1> DEFINE w == u \o v
             a == Len(u)
             b == Len(v)
  <1>1. /\ a \in Nat /\ b \in Nat /\ DOMAIN u = 1..a /\ DOMAIN v = 1..b
        /\ DOMAIN w = 1..(a + b) /\ \A i \in 1..a : w[i] = u[i]
        /\ \A i \in 1..b : w[a + i] = v[i]
    OBVIOUS
  <1>2. /\ \A i \in DOMAIN u : u[i][2] \in Nat
        /\ \A i \in DOMAIN v : v[i][2] \in Nat
    BY SMTT(30) DEF Unit
  <1>3. Units \in Nat
    BY DEF BoundAssumption
  <1> SUFFICES ASSUME NEW i \in 1..(a + b), NEW p \in 1..Units
               PROVE  /\ i + p - w[i][2] \in 1..(a + b)
                      /\ w[i + p - w[i][2]] = <<w[i][1], p>>
    BY <1>1 DEF Whole
  <1> HIDE DEF w, a, b
  <1>4. CASE i \in 1..a
    <2>1. i + p - u[i][2] \in 1..a /\ u[i + p - u[i][2]] = <<u[i][1], p>>
      BY <1>1, <1>4 DEF Whole
    <2> QED
      BY <1>1, <1>4, <2>1
  <1>5. CASE i \notin 1..a
    <2>1. PICK k \in 1..b : i = a + k
      <3>1. i - a \in 1..b /\ i = a + (i - a)
        BY <1>1, <1>5
      <3> QED
        BY <3>1
    <2>2. k + p - v[k][2] \in 1..b /\ v[k + p - v[k][2]] = <<v[k][1], p>>
      BY <1>1, <2>1 DEF Whole
    <2>3. w[i] = v[k]
      BY <1>1, <2>1
    <2>4. i + p - w[i][2] = a + (k + p - v[k][2])
      BY <1>1, <1>2, <1>3, <2>1, <2>3
    <2> QED
      BY <1>1, <2>2, <2>3, <2>4
  <1> QED
    BY <1>4, <1>5

(* Between two messages the data can be cut. *)
LEMMA WholeCut ==
  ASSUME BoundAssumption, NEW w \in Seq(Unit), Whole(w), NEW e \in 0..Len(w),
         \/ e = 0 \/ e = Len(w)
         \/ w[e][2] = Units
         \/ w[e + 1][2] = 1
  PROVE  Whole(SubSeq(w, 1, e)) /\ Whole(Rest(w, e))
  <1> DEFINE n == Len(w)
             u == SubSeq(w, 1, e)
             v == Rest(w, e)
  <1>1. /\ n \in Nat /\ e \in Nat /\ e <= n /\ DOMAIN w = 1..n
        /\ DOMAIN u = 1..e /\ DOMAIN v = 1..(n - e)
        /\ \A i \in 1..e : u[i] = w[i]
        /\ \A i \in 1..(n - e) : v[i] = w[i + e]
    BY Cuts DEF Rest
  <1>2. Units \in Nat \ {0} /\ \A i \in 1..n : w[i][2] \in 1..Units
    BY <1>1 DEF BoundAssumption, Unit
  <1> HIDE DEF n, u, v
  (* No message has units on both sides. *)
  <1>3. ASSUME NEW i \in 1..n, NEW p \in 1..Units
        PROVE  /\ i + p - w[i][2] \in 1..n
               /\ w[i + p - w[i][2]] = <<w[i][1], p>>
               /\ i <= e <=> i + p - w[i][2] <= e
    <2>1. PICK x \in 1..Units : w[i][2] = x
      BY <1>2
    <2>2. \A r \in 1..Units :
            i + r - x \in 1..n /\ w[i + r - x] = <<w[i][1], r>>
      BY <1>1, <2>1 DEF Whole
    <2>3. ASSUME ~(i <= e <=> i + p - x <= e)
          PROVE  FALSE
      <3> DEFINE r == e + x - i
      <3>1. r \in 1..Units /\ r + 1 \in 1..Units
        BY <1>1, <1>2, <2>3
      <3>2. i + r - x = e /\ i + (r + 1) - x = e + 1
        BY <1>1
      <3> HIDE DEF r
      <3>3. /\ e \in 1..n /\ e + 1 \in 1..n
            /\ w[e] = <<w[i][1], r>> /\ w[e + 1] = <<w[i][1], r + 1>>
        BY <2>2, <3>1, <3>2
      <3>4. r # Units /\ r + 1 # 1 /\ e # 0 /\ e # n
        BY <1>1, <1>2, <3>1, <3>3
      <3> QED
        BY <3>3, <3>4 DEF n
    <2> QED
      BY <2>1, <2>2, <2>3
  <1>4. ASSUME NEW i \in 1..e, NEW p \in 1..Units
        PROVE  /\ i + p - u[i][2] \in 1..e
               /\ u[i + p - u[i][2]] = <<u[i][1], p>>
    <2>1. i \in 1..n /\ i <= e /\ u[i] = w[i]
      BY <1>1
    <2>2. /\ i + p - w[i][2] \in 1..n /\ i + p - w[i][2] <= e
          /\ w[i + p - w[i][2]] = <<w[i][1], p>>
      BY <1>3, <2>1
    <2> QED
      BY <1>1, <2>1, <2>2
  <1>5. ASSUME NEW i \in 1..(n - e), NEW p \in 1..Units
        PROVE  /\ i + p - v[i][2] \in 1..(n - e)
               /\ v[i + p - v[i][2]] = <<v[i][1], p>>
    <2>1. i + e \in 1..n /\ ~(i + e <= e) /\ v[i] = w[i + e]
      BY <1>1
    <2>2. /\ i + e + p - w[i + e][2] \in 1..n
          /\ ~(i + e + p - w[i + e][2] <= e)
          /\ w[i + e + p - w[i + e][2]] = <<w[i + e][1], p>>
      BY <1>3, <2>1
    <2>3. w[i + e][2] \in Nat /\ i \in Nat /\ p \in Nat
      BY <1>1, <1>2, <2>1
    <2>4. PICK x \in Nat : w[i + e][2] = x
      BY <2>3
    <2>5. /\ i + p - x \in 1..(n - e)
          /\ (i + p - x) + e = i + e + p - x
      BY <1>1, <2>2, <2>3, <2>4
    <2> QED
      BY <1>1, <2>1, <2>2, <2>4, <2>5
  <1> QED
    BY <1>1, <1>4, <1>5 DEF Whole, u, v

LEMMA Concat ==
  ASSUME NEW u \in Seq(Unit), NEW v \in Seq(Unit)
  PROVE  /\ u \o v \in Seq(Unit) /\ Len(u \o v) = Len(u) + Len(v)
         /\ Len(u) \in Nat /\ Len(v) \in Nat
         /\ DOMAIN (u \o v) = 1..(Len(u) + Len(v))
         /\ DOMAIN u = 1..Len(u) /\ DOMAIN v = 1..Len(v)
         /\ \A i \in 1..Len(u) : (u \o v)[i] = u[i]
         /\ \A i \in 1..Len(v) : (u \o v)[Len(u) + i] = v[i]
  OBVIOUS

LEMMA Associative ==
  \A u, v, w \in Seq(Unit) : (u \o v) \o w = u \o (v \o w)
BY ConcatAssociative

(* Where the units of message m come to stand in x, when it is put into w  *)
(* behind a units and before those of v.                                   *)
Placed(x, w, m, a, v, i) ==
  \/ i <= a /\ i \in DOMAIN w /\ x[i] = w[i]
  \/ i > a /\ i <= a + Units /\ x[i] = <<m, i - a>>
  \/ /\ i > a + Units /\ i - Units \in DOMAIN w /\ x[i] = w[i - Units]
     /\ i - Units - a \in 1..Len(v) /\ w[i - Units] = v[i - Units - a]

LEMMA Places ==
  ASSUME BoundAssumption, NEW m \in 1..MaxSend,
         NEW u \in Seq(Unit), NEW v \in Seq(Unit)
  PROVE  /\ u \o Message(m) \o v \in Seq(Unit) /\ u \o v \in Seq(Unit)
         /\ DOMAIN (u \o v) = 1..(Len(u) + Len(v))
         /\ DOMAIN (u \o Message(m) \o v) = 1..(Len(u) + Units + Len(v))
         /\ \A i \in 1..(Len(u) + Units + Len(v)) :
              Placed(u \o Message(m) \o v, u \o v, m, Len(u), v, i)
  <1> DEFINE g == Message(m)
             a == Len(u)
             b == Len(v)
             x == u \o g \o v
             w == u \o v
  <1>1. /\ g \in Seq(Unit) /\ Len(g) = Units
        /\ \A i \in 1..Units : g[i] = <<m, i>>
        /\ Units \in Nat /\ a \in Nat /\ b \in Nat
    BY MessageUnits DEF BoundAssumption
  <1> HIDE DEF g
  <1>2. /\ w \in Seq(Unit) /\ DOMAIN w = 1..(a + b)
        /\ \A i \in 1..a : w[i] = u[i]
        /\ \A i \in 1..b : w[a + i] = v[i]
    OBVIOUS
  <1>3. /\ x \in Seq(Unit) /\ DOMAIN x = 1..(a + Units + b)
        /\ \A i \in 1..a : x[i] = u[i]
        /\ \A i \in 1..Units : x[a + i] = g[i]
        /\ \A i \in 1..b : x[a + Units + i] = v[i]
    <2> DEFINE y == u \o g
    <2>1. /\ y \in Seq(Unit) /\ Len(y) = a + Units
          /\ \A i \in 1..a : y[i] = u[i]
          /\ \A i \in 1..Units : y[a + i] = g[i]
      BY <1>1, Concat
    <2> HIDE DEF y
    <2>2. /\ y \o v \in Seq(Unit) /\ DOMAIN (y \o v) = 1..(Len(y) + b)
          /\ \A i \in 1..Len(y) : (y \o v)[i] = y[i]
          /\ \A i \in 1..b : (y \o v)[Len(y) + i] = v[i]
      BY <2>1, Concat
    <2> HIDE DEF a, b
    <2>3. \A i \in 1..a : i \in 1..Len(y)
      BY <1>1, <2>1
    <2>4. \A i \in 1..Units : a + i \in 1..Len(y)
      BY <1>1, <2>1
    <2> QED
      BY <2>1, <2>2, <2>3, <2>4 DEF y
  <1> HIDE DEF x, w, a, b
  <1>4. ASSUME NEW i \in 1..(a + Units + b)
        PROVE  Placed(x, w, m, a, v, i)
    <2>1. CASE i <= a
      <3>1. i \in 1..a /\ i \in 1..(a + b)
        BY <1>1, <2>1
      <3> QED
        BY <1>2, <1>3, <2>1, <3>1 DEF Placed
    <2>2. CASE i > a /\ i <= a + Units
      <3>1. i - a \in 1..Units /\ a + (i - a) = i
        BY <1>1, <2>2
      <3> QED
        BY <1>1, <1>3, <2>2, <3>1 DEF Placed
    <2>3. CASE i > a + Units
      <3>1. /\ i - Units - a \in 1..b /\ a + Units + (i - Units - a) = i
            /\ a + (i - Units - a) = i - Units /\ i - Units \in 1..(a + b)
        BY <1>1, <2>3
      <3> QED
        <4>1. w[a + (i - Units - a)] = v[i - Units - a]
          BY <1>2, <3>1
        <4>2. x[a + Units + (i - Units - a)] = v[i - Units - a]
          BY <1>3, <3>1
        <4>3. i - Units - a \in 1..Len(v)
          BY <3>1 DEF b
        <4> QED
          BY <1>2, <2>3, <3>1, <4>1, <4>2, <4>3 DEF Placed
    <2> QED
      BY <1>1, <2>1, <2>2, <2>3
  <1> QED
    BY <1>2, <1>3, <1>4 DEF x, w, a, b, g

(* Message m, sent to id, is not in w, and is later than all of the same   *)
(* worker that are, but earlier than those in the pipe.                    *)
Fresh(n, q, k, w, m, id) ==
  /\ m \in 1..Len(n) /\ n[m].to = id
  /\ \A i \in DOMAIN w :
       w[i][1] # m /\ (n[w[i][1]].by = n[m].by => w[i][1] < m)
  /\ \A j \in PostedIn(q, id) : n[m].by = n[q[j].msg].by => m < q[j].msg
  /\ \A c \in Caller :
       CarriesIn(k, c) /\ k[c].step # "written" => k[c].msg # m

(* A message takes its place: at the end, or before data of low priority. *)
LEMMA Inserted ==
  ASSUME BoundAssumption, NEW n, NEW q, NEW k, NEW id,
         NEW m \in 1..MaxSend, NEW u \in Seq(Unit), NEW v \in Seq(Unit),
         Sorted(n, q, k, u \o v, id), Fresh(n, q, k, u \o v, m, id),
         v = <<>> \/ (~n[m].low /\ LowerIn(n, v))
  PROVE  /\ Sorted(n, q, k, u \o Message(m) \o v, id)
         /\ IsInjective(u \o v) => IsInjective(u \o Message(m) \o v)
  <1> DEFINE a == Len(u)
             b == Len(v)
             x == u \o Message(m) \o v
             w == u \o v
             Old(i, j) == /\ j \in DOMAIN w /\ x[i] = w[j]
                          /\ \/ i <= a /\ j = i
                             \/ i > a + Units /\ j = i - Units
                                /\ j - a \in 1..b
                                /\ w[j] = v[j - a]
             New(i) == i > a /\ i <= a + Units /\ x[i] = <<m, i - a>>
  <1>1. /\ x \in Seq(Unit) /\ w \in Seq(Unit) /\ DOMAIN w = 1..(a + b)
        /\ DOMAIN x = 1..(a + Units + b)
        /\ a \in Nat /\ b \in Nat /\ Units \in Nat
    <2>1. a \in Nat /\ b \in Nat /\ Units \in Nat
      BY DEF BoundAssumption
    <2> QED
      BY <2>1, Places, ZenonT(40)
  <1>2. \A i \in DOMAIN x : New(i) \/ \E j \in DOMAIN w : Old(i, j)
    <2> SUFFICES ASSUME NEW i \in DOMAIN x
                 PROVE  New(i) \/ \E j \in DOMAIN w : Old(i, j)
      OBVIOUS
    <2>1. i \in 1..(a + Units + b)
      BY <1>1
    <2>2. Placed(x, w, m, a, v, i)
      BY Places, <2>1
    <2> HIDE DEF x, w, a
    <2> QED
      BY <2>2 DEF Placed
  <1> HIDE DEF x, w, a, b
  <1>3. \A i \in DOMAIN w : w[i][1] \in Int
    <2>1. \A i \in DOMAIN w : w[i] \in Unit
      BY <1>1
    <2> QED
      BY <2>1 DEF Unit
  <1> USE DEF x, w, a, b
  <1>4. /\ SentIn(n, w, id) /\ BeforeIn(n, q, w, id)
        /\ LetGoIn(k, w) /\ OrderedIn(n, w)
    BY DEF Sorted
  <1>5. \A i \in DOMAIN w :
          w[i][1] # m /\ (n[w[i][1]].by = n[m].by => w[i][1] < m)
    BY DEF Fresh
  <1> HIDE DEF x, w, a, b
  <1>6. SentIn(n, x, id)
    BY <1>2, <1>4 DEF SentIn, Fresh
  <1>7. BeforeIn(n, q, x, id)
    BY <1>2, <1>4, SMTT(30) DEF BeforeIn, Fresh
  <1>8. LetGoIn(k, x)
    BY <1>2, <1>4 DEF LetGoIn, Fresh
  <1>9. OrderedIn(n, x)
    <2> SUFFICES ASSUME NEW i \in DOMAIN x, NEW j \in DOMAIN x, i < j,
                        x[i][1] > x[j][1], n[x[i][1]].by = n[x[j][1]].by
                 PROVE  n[x[j][1]].low /\ ~n[x[i][1]].low
      BY DEF OrderedIn
    <2>1. CASE New(i) /\ New(j)
      BY <2>1
    <2>2. ASSUME NEW h \in DOMAIN w, Old(i, h), New(j)
          PROVE  FALSE
      <3>1. x[j][1] = m /\ x[i] = w[h] /\ w[h][1] < m
        BY <1>5, <2>2
      <3> QED
        BY <1>3, <3>1
    <2>3. ASSUME NEW h \in DOMAIN w, New(i), Old(j, h)
          PROVE  n[x[j][1]].low /\ ~n[x[i][1]].low
      <3>1. h - a \in 1..b /\ x[j] = v[h - a]
        BY <1>1, <2>3
      <3>2. v # <<>> /\ h - a \in DOMAIN v
        BY <1>1, <3>1 DEF b
      <3> QED
        BY <2>3, <3>1, <3>2 DEF LowerIn
    <2>4. ASSUME NEW h \in DOMAIN w, NEW g \in DOMAIN w, Old(i, h), Old(j, g)
          PROVE  n[x[j][1]].low /\ ~n[x[i][1]].low
      <3>1. h < g
        BY <1>1, <2>4, SMTT(30)
      <3> QED
        BY <1>4, <2>4, <3>1 DEF OrderedIn
    <2> QED
      BY <1>2, <2>1, <2>2, <2>3, <2>4
  <1>10. ASSUME IsInjective(w)
         PROVE  IsInjective(x)
    <2> SUFFICES ASSUME NEW i \in DOMAIN x, NEW j \in DOMAIN x, x[i] = x[j]
                 PROVE  i = j
      BY DEF IsInjective
    <2>1. CASE New(i) /\ New(j)
      <3>1. <<m, i - a>> = <<m, j - a>>
        BY <2>1, Zenon
      <3>2. i - a = j - a
        BY <3>1
      <3> QED
        BY <1>1, <3>2
    <2>2. ASSUME NEW h \in DOMAIN w, Old(i, h), New(j)
          PROVE  FALSE
      <3>1. w[h] = <<m, j - a>> /\ w[h][1] # m
        BY <1>5, <2>2
      <3> QED
        BY <3>1
    <2>3. ASSUME NEW h \in DOMAIN w, New(i), Old(j, h)
          PROVE  FALSE
      <3>1. w[h] = <<m, i - a>> /\ w[h][1] # m
        BY <1>5, <2>3
      <3> QED
        BY <3>1
    <2>4. ASSUME NEW h \in DOMAIN w, NEW g \in DOMAIN w, Old(i, h), Old(j, g)
          PROVE  i = j
      <3>1. h = g
        BY <1>10, <2>4 DEF IsInjective
      <3> QED
        BY <1>1, <2>4, <3>1
    <2> QED
      BY <1>2, <2>1, <2>2, <2>3, <2>4
  <1> QED
    BY <1>6, <1>7, <1>8, <1>9, <1>10 DEF Sorted, x, w

Lined(n, q, k, base, high, low, id) ==
  Sorted(n, q, k, base \o high \o low, id) /\ LowerIn(n, low) /\ Whole(low)
Entire(base, high, low) ==
  Whole(base \o high) /\ IsInjective(base \o high \o low)

(* A message is queued: alone, behind those of low priority, or behind the *)
(* others.                                                                 *)
Joins(n, m, high, low, high2, low2) ==
  \/ high = <<>> /\ low = <<>> /\ high2 = Message(m) /\ low2 = <<>>
  \/ n[m].low /\ high2 = high /\ low2 = low \o Message(m)
  \/ ~n[m].low /\ high2 = high \o Message(m) /\ low2 = low

LEMMA Queued ==
  ASSUME BoundAssumption, NEW n, NEW q, NEW k, NEW id,
         NEW m \in 1..MaxSend,
         NEW base \in Seq(Unit), NEW high \in Seq(Unit), NEW low \in Seq(Unit),
         Lined(n, q, k, base, high, low, id),
         Fresh(n, q, k, base \o high \o low, m, id),
         NEW high2, NEW low2, Joins(n, m, high, low, high2, low2)
  PROVE  /\ Lined(n, q, k, base, high2, low2, id)
         /\ Entire(base, high, low) => Entire(base, high2, low2)
  <1> DEFINE g == Message(m)
             stream == base \o high
             out == stream \o low
  <1>1. g \in Seq(Unit) /\ Whole(g) /\ <<>> \in Seq(Unit)
    BY MessageUnits, WholeMessage, EmptySeq
  <1>2. stream \in Seq(Unit) /\ out \in Seq(Unit)
    BY Concat
  <1>3. LowerIn(n, <<>>) /\ Whole(<<>>)
    BY DEF LowerIn, Whole
  <1>4. out \o <<>> = out
    BY <1>2, ConcatEmptySeq
  <1>5. ASSUME NEW u \in Seq(Unit), NEW v \in Seq(Unit), u \o v = out,
               v = <<>> \/ (~n[m].low /\ LowerIn(n, v))
        PROVE  /\ Sorted(n, q, k, u \o g \o v, id)
               /\ IsInjective(out) => IsInjective(u \o g \o v)
    <2>1. Sorted(n, q, k, u \o v, id) /\ Fresh(n, q, k, u \o v, m, id)
      BY <1>5 DEF Lined
    <2> HIDE DEF out, stream
    <2> QED
      BY <1>5, <2>1, Inserted
  <1>6. CASE /\ high = <<>> /\ low = <<>> /\ high2 = g /\ low2 = <<>>
    <2>1. stream = base /\ out = base /\ base \o <<>> = out
      BY <1>6, ConcatEmptySeq
    <2>2. /\ Sorted(n, q, k, base \o g \o <<>>, id)
          /\ IsInjective(out) => IsInjective(base \o g \o <<>>)
      <3> HIDE DEF out, g
      <3> QED
        BY <1>1, <1>5, <2>1
    <2>3. Whole(stream) => Whole(base \o g)
      BY <1>1, <2>1, WholeConcat
    <2> QED
      BY <1>3, <1>6, <2>2, <2>3 DEF Lined, Entire
  <1>7. CASE n[m].low /\ high2 = high /\ low2 = low \o g
    <2>1. /\ Sorted(n, q, k, out \o g \o <<>>, id)
          /\ IsInjective(out) => IsInjective(out \o g \o <<>>)
      <3> HIDE DEF out, g
      <3> QED
        BY <1>1, <1>2, <1>4, <1>5
    <2>2. out \o g \o <<>> = stream \o (low \o g)
      <3>1. out \o g \in Seq(Unit) /\ out \o g \o <<>> = out \o g
        <4> HIDE DEF out, g
        <4> QED
          BY <1>1, <1>2, Concat, ConcatEmptySeq
      <3> HIDE DEF g, stream
      <3>2. (stream \o low) \o g = stream \o (low \o g)
        <4>1. stream \in Seq(Unit) /\ low \in Seq(Unit) /\ g \in Seq(Unit)
          BY <1>1, <1>2
        <4>2. ASSUME NEW u \in Seq(Unit), NEW v \in Seq(Unit),
                     NEW w \in Seq(Unit)
              PROVE  (u \o v) \o w = u \o (v \o w)
          BY Associative, ZenonT(40)
        <4> HIDE DEF out
        <4> QED
          BY <4>1, <4>2, ZenonT(40)
      <3> QED
        BY <3>1, <3>2
    <2>3. Whole(low) => Whole(low \o g)
      BY <1>1, WholeConcat
    <2>4. LowerIn(n, low \o g)
      <3>1. /\ DOMAIN g = 1..Units /\ Units \in Nat
            /\ \A i \in 1..Units : g[i][1] = m
        BY MessageUnits DEF BoundAssumption
      <3>2. ASSUME NEW i \in DOMAIN (low \o g)
            PROVE  \/ i \in DOMAIN low /\ (low \o g)[i] = low[i]
                   \/ i - Len(low) \in DOMAIN g
                      /\ (low \o g)[i] = g[i - Len(low)]
        <4> HIDE DEF g
        <4> QED
          BY <1>1, ConcatProperties
      <3> HIDE DEF g
      <3> QED
        BY <1>7, <3>1, <3>2 DEF LowerIn, Lined
    <2> QED
      BY <1>7, <2>1, <2>2, <2>3, <2>4 DEF Lined, Entire
  <1>8. CASE ~n[m].low /\ high2 = high \o g /\ low2 = low
    <2>1. /\ Sorted(n, q, k, stream \o g \o low, id)
          /\ IsInjective(out) => IsInjective(stream \o g \o low)
      <3>1. stream \o low = out /\ LowerIn(n, low)
        BY DEF Lined
      <3> HIDE DEF out, g, stream
      <3> QED
        BY <1>1, <1>2, <1>5, <1>8, <3>1
    <2>2. stream \o g = base \o (high \o g)
      <3>1. /\ base \in Seq(Unit) /\ high \in Seq(Unit) /\ g \in Seq(Unit)
            /\ stream = base \o high
        BY <1>1
      <3> HIDE DEF g, stream
      <3> QED
        BY <3>1, Associative, Zenon
    <2>3. Whole(stream) => Whole(stream \o g)
      <3> HIDE DEF g, stream
      <3> QED
        BY <1>1, <1>2, WholeConcat
    <2> QED
      BY <1>8, <2>1, <2>2, <2>3 DEF Lined, Entire
  <1> QED
    BY <1>6, <1>7, <1>8 DEF Joins

(* Only the data of one slot change. *)
LEMMA DataStep ==
  ASSUME BoundAssumption, TypeOK, StateInv, DataInv, DataKept,
         cut \subseteq cut',
         NEW sl \in Slot, \A x \in Slot \ {sl} : sock'[x] = sock[x],
         \A x \in Slot \ {sl} : KeptIn(call', sock[x]) = KeptIn(call, sock[x]),
         \A id \in Id \ {sock[sl].id} : wire'[id] = wire[id],
         sock'[sl].type \notin {"INVALID", "RESERVE"} =>
           StreamIn(wire', sends', pipe', call', cut', sock'[sl])
  PROVE  DataInv'
  <1>1. ASSUME NEW x \in Slot \ {sl},
               sock'[x].type \notin {"INVALID", "RESERVE"}
        PROVE  StreamIn(wire', sends', pipe', call', cut', sock'[x])
    <2>1. Live(x) /\ sock'[x] = sock[x]
      BY <1>1 DEF Live
    <2>2. sock[x].id \in Id /\ SlotOf(sock[x].id) = x
      BY <2>1, LiveSlot
    <2>3. sock[sl].id # sock[x].id
      <3>1. SlotInv(sl)
        BY DEF StateInv
      <3>2. sock[x].id # 0
        BY <2>2, ZeroIsSlot
      <3> QED
        BY <2>2, <3>1, <3>2 DEF SlotInv
    <2>4. wire'[sock[x].id] = wire[sock[x].id]
      BY <2>2, <2>3
    <2> QED
      BY <2>1, <2>4, StreamKept
  <1> QED
    BY <1>1, DataPrimed

(* A slot is handled, but nothing is told and its type stays the same. *)
LEMMA Untold ==
  ASSUME BoundAssumption, TypeOK, StateInv, ToldInv, PipeKept,
         UNCHANGED <<alloc, call, known, sends, told, wire>>,
         \A x \in Slot : SlotFramed(x) /\ sock'[x].type = sock[x].type
  PROVE  StateInv' /\ ToldInv'
  <1>1. known \subseteq Id /\ alloc \in Nat
    BY DEF TypeOK
  <1>2. Framed
    <2>1. \A x \in Id : IdFramed(x)
      BY DEF IdFramed
    <2>2. alloc' \in Nat /\ alloc' >= alloc
      BY <1>1
    <2> QED
      BY <2>1, <2>2 DEF Framed
  <1>3. ASSUME NEW id \in known
        PROVE  Rightly(id)
    <2>1. SlotOf(id) \in Slot
      BY <1>1, SlotIsSlot, ZeroIsSlot
    <2>2. CloseLast(told'[id])
      BY DEF ToldInv
    <2>3. ASSUME sock[SlotOf(id)].id = id, Live(SlotOf(id))
          PROVE  /\ sock'[SlotOf(id)].type # "INVALID"
                 /\ Has(told'[id], "close")
                      <=> sock'[SlotOf(id)].type = "HALFCLOSE_READ"
                 /\ sock'[SlotOf(id)].type = "CONNECTING" =>
                      ~Has(told'[id], "open")
      BY <2>1, <2>3 DEF ToldInv, Live
    <2> QED
      BY <2>1, <2>2, <2>3 DEF Rightly
  <1> QED
    BY <1>2, <1>3, StateFrame, ToldFrame

(* send_socket: the message is queued or dropped, and counted out. *)
LEMMA SendSocketStep ==
  ASSUME BoundAssumption, CallerAssumption, IInv, SendSocket
  PROVE  IInv'
  <1> DEFINE r == Head(pipe)
             id == r.id
             m == r.msg
             sl == SlotOf(id)
             s == sock[sl]
             drop == \/ Invalid(id) \/ s.closing
                     \/ s.type \in {"HALFCLOSE_WRITE", "PACCEPT", "PLISTEN",
                                    "LISTEN"}
             queued == IF drop THEN s
                       ELSE IF Empty(s)
                       THEN [s EXCEPT !.high = Message(m), !.writing = TRUE]
                       ELSE IF r.cmd = "send_low"
                       THEN [s EXCEPT !.low = @ \o Message(m)]
                       ELSE [s EXCEPT !.high = @ \o Message(m)]
             counted == s.id = id /\ s.tcp
             t == [queued EXCEPT !.sending = IF counted THEN @ - 1 ELSE @]
  <1>1. /\ ~failed /\ ctl = "check" /\ pipe # <<>> /\ pipe' = Tail(pipe)
        /\ IsSend(r) /\ ~IsOpen(r)
        /\ UNCHANGED <<alloc, call, wire, peer, known, sends, calls>>
        /\ Answer(sl, t, "none", ev, "check",
                  (~drop /\ Stray(s)) \/ (counted /\ s.sending = 0))
    BY ZenonT(40) DEF SendSocket, TakeRequest, IsSend, IsOpen
  <1>2. /\ TypeOK /\ WireSent /\ WireWhole /\ SendOrder
        /\ StateInv /\ CountInv /\ ToldInv /\ CloseInv /\ DataInv
    BY <1>1, Parts
  <1>3. /\ r = pipe[1] /\ 1 \in DOMAIN pipe /\ PipeInv(1)
        /\ id \in Id /\ id \in known /\ sl \in Slot
        /\ pipe' \in Seq(Request) /\ ev \in Seq(Event)
    BY <1>1, <1>2, HeadFields, PipeTail, Zenon DEF TypeOK
  <1>4. /\ s \in Socket /\ s.type \in Type /\ s.sending \in Nat
        /\ s.high \in Seq(Unit) /\ s.low \in Seq(Unit)
    BY <1>2, <1>3, SocketFields
  <1>5. /\ m \in 1..Len(sends) /\ m \in 1..MaxSend /\ sends[m].to = id
        /\ (sends[m].low <=> r.cmd = "send_low")
        /\ \A j \in DOMAIN pipe :
             1 < j /\ IsSend(pipe[j]) /\ sends[pipe[j].msg].by = sends[m].by
             => m < pipe[j].msg
        /\ \A c \in Caller : Carries(c) => call[c].msg # m
    <2>1. /\ m \in 1..Len(sends) /\ sends[m].to = id
          /\ (sends[m].low <=> r.cmd = "send_low")
          /\ \A j \in DOMAIN pipe :
               1 < j /\ IsSend(pipe[j]) /\ sends[pipe[j].msg].by = sends[m].by
               => m < pipe[j].msg
          /\ \A c \in Caller : Carries(c) => call[c].msg # m
      BY <1>1, <1>3, ZenonT(40) DEF PipeInv
    <2>2. m \in 1..MaxSend
      <3>1. m \in 0..MaxSend
        BY <1>2, <1>3, PipeFields
      <3> HIDE DEF m
      <3> QED
        BY <2>1, <3>1 DEF BoundAssumption
    <2> QED
      BY <2>1, <2>2
  <1>6. Message(m) \in Seq(Unit) /\ <<>> \in Seq(Unit)
    BY <1>5, MessageUnits, EmptySeq
  (* A send that is counted is in the pipe: the count is not zero. *)
  <1>7. counted => s.sending # 0
    <2> SUFFICES ASSUME counted
                 PROVE  s.sending # 0
      OBVIOUS
    <2>1. s.sending = Cardinality(Posted(id)) + Cardinality(Posting(id))
      BY <1>2, <1>3 DEF CountInv
    <2>2. /\ IsFiniteSet(Posted(id)) /\ Cardinality(Posted(id)) \in Nat
          /\ Cardinality(Posting(id)) \in Nat
      BY <1>2, SendsFinite
    <2>3. 1 \in Posted(id)
      BY <1>1, <1>3 DEF Posted
    <2>4. Cardinality(Posted(id)) # 0
      BY <2>2, <2>3, FS_EmptySet
    <2> QED
      BY <2>1, <2>2, <2>4
  <1>8. /\ Answers(sl, t, "none", ev, "check")
        /\ failed' = (~drop /\ Stray(s))
    BY <1>1, <1>7, Zenon DEF Answer, Answers
  <1>9. /\ queued \in Socket /\ queued.sending = s.sending
        /\ queued.id = s.id /\ queued.tcp = s.tcp /\ queued.tag = s.tag
        /\ queued.lock = s.lock /\ queued.dw = s.dw /\ queued.type = s.type
        /\ queued.closing = s.closing
        /\ \/ drop /\ queued.high = s.high /\ queued.low = s.low
           \/ /\ ~drop /\ Empty(s)
              /\ queued.high = Message(m) /\ queued.low = s.low
           \/ /\ ~drop /\ r.cmd = "send_low" /\ queued.high = s.high
              /\ queued.low = s.low \o Message(m)
           \/ /\ ~drop /\ r.cmd # "send_low" /\ queued.low = s.low
              /\ queued.high = s.high \o Message(m)
    <2>1. /\ s.low \o Message(m) \in Seq(Unit)
          /\ s.high \o Message(m) \in Seq(Unit)
      BY <1>4, <1>6, Concat
    <2> HIDE DEF s, drop, m
    <2>2. CASE drop
      BY <1>4, <2>2
    <2>3. CASE ~drop /\ Empty(s)
      BY <1>4, <1>6, <2>3 DEF Socket
    <2>4. CASE ~drop /\ ~Empty(s) /\ r.cmd = "send_low"
      BY <1>4, <2>1, <2>4 DEF Socket
    <2>5. CASE ~drop /\ ~Empty(s) /\ r.cmd # "send_low"
      BY <1>4, <2>1, <2>5 DEF Socket
    <2> QED
      BY <2>2, <2>3, <2>4, <2>5
  <1>10. /\ t \in Socket
         /\ t.sending = IF counted THEN s.sending - 1 ELSE s.sending
         /\ t.id = s.id /\ t.tcp = s.tcp /\ t.tag = s.tag
         /\ t.lock = s.lock /\ t.dw = s.dw /\ t.type = s.type
         /\ t.closing = s.closing /\ t.high = queued.high
         /\ t.low = queued.low
    <2>1. (IF counted THEN s.sending - 1 ELSE s.sending) \in Nat
      BY <1>4, <1>7
    <2> HIDE DEF s, queued, counted
    <2> QED
      BY <1>9, <2>1 DEF Socket
  <1> HIDE DEF t, queued
  <1>11. CASE ~drop /\ Stray(s)
    <2>1. failed' = TRUE
      BY <1>8, <1>11
    <2> HIDE DEF t, s, drop
    <2> QED
      BY <1>1, <1>2, <1>3, <1>8, <1>10, <2>1, FailedAnswer
  <1>12. CASE ~(~drop /\ Stray(s))
    <2>1. failed' = FALSE
      BY <1>8, <1>12 DEF Stray
    <2>2. /\ sock' \in [Slot -> Socket] /\ sock'[sl] = t
          /\ \A x \in Slot \ {sl} : sock'[x] = sock[x]
          /\ told' = told /\ ev' \in Seq(Event)
          /\ ctl' \in {"check", "rest", "fresh", "lock"}
          /\ ctl' # "lock" /\ fc' = fc /\ cut' = cut
      <3> HIDE DEF t, sl
      <3> QED
        BY <1>2, <1>3, <1>8, <1>10, AnswerType
    <2>3. TypeOK'
      <3>1. fc \in Closing /\ cut \subseteq Id /\ wire \in [Id -> Seq(Unit)]
            /\ told \in [Id -> Seq(Word)]
        BY <1>2 DEF TypeOK, Closing
      <3> HIDE DEF t, sl
      <3> QED
        BY <1>1, <1>2, <1>3, <2>1, <2>2, <3>1, HandlerTypes
    <2>4. PipeKept /\ DataKept
      BY <1>1, <1>2, DataSame DEF PipeKept
    <2>5. drop \/ Live(sl)
      BY <1>4, <1>12 DEF Live, Stray, Invalid
    <2>6. SlotInv(sl)
      BY <1>2, <1>3 DEF StateInv
    <2>7. SlotFramed(sl)
      <3>1. ~Live(sl) => Empty(t) /\ t.dw = <<>> /\ t.lock = NoOne
        BY <1>9, <1>10, <2>5, <2>6, Zenon DEF SlotInv, Empty
      <3> HIDE DEF t, sl, drop
      <3> QED
        BY <1>10, <2>2, <2>6, <3>1 DEF SlotFramed, SlotInv, Live
    <2>8. StateInv' /\ ToldInv'
      <3>1. \A x \in Slot \ {sl} : SlotFramed(x)
        BY <1>2, <2>2, SlotSame
      <3>2. \A x \in Slot : SlotFramed(x) /\ sock'[x].type = sock[x].type
        <4> HIDE DEF t, sl
        <4> QED
          BY <1>10, <2>2, <2>7, <3>1
      <3> QED
        BY <1>1, <1>2, <2>2, <2>4, <3>2, Untold
    <2>9. CountInv'
      <3>1. ASSUME NEW x \in Slot, sock'[x].tcp
            PROVE  sock'[x].sending =
                     Cardinality(PostedIn(pipe', sock'[x].id))
                     + Cardinality(PostingIn(call', sock'[x].id))
        <4> DEFINE k == sock[x].id
        <4>1. sock'[x].id = k /\ sock[x].tcp
          BY <1>10, <2>2, <3>1, ZenonT(40)
        <4>2. sock[x].sending =
                Cardinality(Posted(k)) + Cardinality(Posting(k))
          BY <1>2, <4>1 DEF CountInv
        <4>3. PostingIn(call', k) = Posting(k)
          BY <1>1, PostedPrimed
        <4>4. Cardinality(PostedIn(pipe', k)) =
                IF id = k THEN Cardinality(Posted(k)) - 1
                ELSE Cardinality(Posted(k))
          BY <1>1, <1>2, PostedTail, PostedPrimed
        <4>5. Cardinality(Posted(k)) \in Nat /\ Cardinality(Posting(k)) \in Nat
          BY <1>2, SendsFinite
        <4>6. CASE x = sl
          <5>1. sock'[x] = t /\ k = s.id /\ s.tcp
            BY <2>2, <4>1, <4>6
          <5>2. t.sending = IF id = k THEN sock[x].sending - 1
                            ELSE sock[x].sending
            BY <1>10, <4>6, <5>1
          <5> HIDE DEF t, k
          <5> QED
            BY <4>1, <4>2, <4>3, <4>4, <4>5, <5>1, <5>2
        <4>7. CASE x # sl
          <5>1. SlotInv(x)
            BY <1>2 DEF StateInv
          <5>2. k # id
            BY <4>1, <4>7, <5>1 DEF SlotInv
          <5> QED
            BY <2>2, <4>1, <4>2, <4>3, <4>4, <4>7, <5>2
        <4> QED
          BY <4>6, <4>7
      <3> QED
        BY <3>1, CountPrimed
    <2>10. CloseInv'
      BY <2>2 DEF CloseInv
    <2>11. StreamIn(wire', sends', pipe', call', cut', sock'[sl])
           \/ sock'[sl].type \in {"INVALID", "RESERVE"}
      <3>1. CASE drop /\ Live(sl)
        <4>1. /\ sock'[sl].id = sock[sl].id /\ sock'[sl].high = sock[sl].high
              /\ sock'[sl].low = sock[sl].low
              /\ KeptIn(call', sock'[sl]) = KeptIn(call, sock[sl])
          BY <1>1, <1>9, <1>10, <2>2, <3>1, Zenon DEF KeptIn
        <4> HIDE DEF sl, drop
        <4> QED
          BY <1>1, <1>2, <1>3, <2>2, <2>4, <3>1, <4>1, StreamKept
      <3>2. CASE ~drop
        <4> DEFINE base == wire[id] \o KeptIn(call, s)
        <4>1. Live(sl) /\ s.id = id
          BY <2>5, <3>2 DEF Invalid
        <4>2. /\ Sorted(sends, pipe, call, base \o s.high \o s.low, id)
              /\ LowerIn(sends, s.low) /\ Whole(s.low)
              /\ id \notin cut =>
                   /\ Whole(base \o s.high)
                   /\ IsInjective(base \o s.high \o s.low)
          <5>1. StreamIn(wire, sends, pipe, call, cut, s)
            BY <1>2, <1>3, <4>1, StreamSame DEF DataInv
          <5> HIDE DEF s
          <5> QED
            BY <4>1, <5>1 DEF StreamIn
        <4>3. base \in Seq(Unit) /\ base \o s.high \o s.low \in Seq(Unit)
          <5>1. wire[id] \in Seq(Unit) /\ KeptIn(call, s) \in Seq(Unit)
            BY <1>2, <1>3, <4>1, StreamType
          <5>2. base \in Seq(Unit)
            BY <5>1, Concat
          <5> HIDE DEF base, s
          <5> QED
            BY <1>4, <5>2, Concat
        <4> DEFINE out == base \o s.high \o s.low
        <4> HIDE DEF base
        <4>4. Sorted(sends, pipe', call, out, id)
          <5> HIDE DEF out
          <5>1. Sorted(sends', pipe', call', out, id)
            BY <1>2, <2>4, <4>2, <4>3, SortedKept DEF out
          <5> QED
            BY <1>1, <5>1
        <4>5. \A i \in DOMAIN out :
                /\ out[i][1] # m
                /\ sends[out[i][1]].by = sends[m].by => out[i][1] < m
          <5>1. BeforeIn(sends, pipe, out, id) /\ 1 \in PostedIn(pipe, id)
            BY <1>1, <1>3, <4>2 DEF Sorted, PostedIn
          <5>2. \A i \in DOMAIN out :
                  sends[out[i][1]].by = sends[m].by => out[i][1] < m
            <6> HIDE DEF out
            <6> QED
              BY <1>3, <5>1 DEF BeforeIn
          <5>3. ~(m < m)
            BY <1>5
          <5> HIDE DEF out, m
          <5> QED
            BY <5>2, <5>3
        <4>6. \A j \in PostedIn(pipe', id) :
                sends[m].by = sends[pipe'[j].msg].by => m < pipe'[j].msg
          <5> SUFFICES ASSUME NEW j \in PostedIn(pipe', id),
                              sends[m].by = sends[pipe'[j].msg].by
                       PROVE  m < pipe'[j].msg
            OBVIOUS
          <5>1. j \in DOMAIN pipe' /\ IsSend(pipe'[j])
            BY DEF PostedIn
          <5>2. /\ j + 1 \in DOMAIN pipe \ {1} /\ pipe'[j] = pipe[j + 1]
                /\ DOMAIN pipe = 1..Len(pipe) /\ Len(pipe) \in Nat
            BY <1>1, <1>2, <5>1, PipeTail
          <5>3. 1 < j + 1
            BY <5>2
          <5> QED
            BY <1>5, <5>1, <5>2, <5>3
        <4>7. \A c \in Caller :
                CarriesIn(call, c) /\ call[c].step # "written"
                => call[c].msg # m
          BY <1>5, CarriesSame
        <4>8. Joins(sends, m, s.high, s.low, t.high, t.low)
          <5> HIDE DEF t, s, m, queued
          <5> QED
            BY <1>5, <1>9, <1>10, <3>2 DEF Empty, Joins
        <4>9. Fresh(sends, pipe', call, out, m, id)
          <5> HIDE DEF out, m, id
          <5> QED
            BY <1>5, <4>5, <4>6, <4>7 DEF Fresh
        <4>10. /\ Lined(sends, pipe', call, base, t.high, t.low, id)
               /\ Entire(base, s.high, s.low) => Entire(base, t.high, t.low)
          <5> HIDE DEF t, s, m, id
          <5>1. Lined(sends, pipe', call, base, s.high, s.low, id)
            BY <4>2, <4>4 DEF Lined
          <5> QED
            BY <1>4, <1>5, <4>3, <4>8, <4>9, <5>1, Queued, SMTT(30)
        <4>11. t.id = id /\ wire'[id] \o KeptIn(call', t) = base
          <5>1. t.lock = s.lock /\ t.dw = s.dw /\ t.id = id
            BY <1>10, <4>1
          <5> HIDE DEF t, s, id
          <5> QED
            BY <1>1, <5>1 DEF KeptIn, base
        <4>12. StreamIn(wire', sends', pipe', call', cut', t)
          <5> HIDE DEF t, s, id
          <5> QED
            BY <1>1, <2>2, <4>2, <4>10, <4>11 DEF StreamIn, Lined, Entire
        <4> QED
          BY <2>2, <4>12
      <3>3. CASE ~Live(sl)
        BY <1>10, <2>2, <3>3 DEF Live
      <3> QED
        BY <2>5, <3>1, <3>2, <3>3
    <2>12. DataInv'
      <3>1. \A x \in Slot \ {sl} :
              KeptIn(call', sock[x]) = KeptIn(call, sock[x])
        BY <1>1 DEF KeptIn
      <3> HIDE DEF t, sl, drop
      <3> QED
        BY <1>1, <1>2, <1>3, <2>2, <2>4, <2>11, <3>1, DataStep
    <2>13. WireSent' /\ WireWhole' /\ SendOrder'
      BY <1>1, <2>2, WireSame
    <2> QED
      BY <2>3, <2>8, <2>9, <2>10, <2>12, <2>13, Whole9
  <1> QED
    BY <1>11, <1>12

-----------------------------------------------------------------------------
(* The socket thread writes.                                               *)

LEMMA CutTwice ==
  ASSUME NEW w \in Seq(Unit), NEW b \in 0..Len(w), NEW c \in 0..(Len(w) - b)
  PROVE  /\ b + c \in 0..Len(w)
         /\ SubSeq(w, 1, b) \o SubSeq(Rest(w, b), 1, c) = SubSeq(w, 1, b + c)
         /\ Rest(Rest(w, b), c) = Rest(w, b + c)
         /\ SubSeq(w, 1, b) \o Rest(w, b) = w
  <1> DEFINE u == SubSeq(w, 1, b)
             v == Rest(w, b)
             v1 == SubSeq(v, 1, c)
             v2 == Rest(v, c)
  <1>1. Len(w) \in Nat /\ b \in Nat /\ c \in Nat /\ b + c \in 0..Len(w)
    OBVIOUS
  <1>2. /\ u \in Seq(Unit) /\ v \in Seq(Unit) /\ Len(u) = b
        /\ Len(v) = Len(w) - b
        /\ \A i \in 1..b : u[i] = w[i]
        /\ \A i \in 1..(Len(w) - b) : v[i] = w[i + b]
    BY Cuts
  <1> HIDE DEF u, v
  <1>3. /\ v1 \in Seq(Unit) /\ v2 \in Seq(Unit) /\ Len(v1) = c
        /\ Len(v2) = Len(v) - c
        /\ \A i \in 1..c : v1[i] = v[i]
        /\ \A i \in 1..(Len(v) - c) : v2[i] = v[i + c]
    <2>1. c \in 0..Len(v)
      BY <1>1, <1>2
    <2> QED
      BY <1>2, <2>1, Cuts
  <1> HIDE DEF v1, v2
  <1> DEFINE x == SubSeq(w, 1, b + c)
             y == Rest(w, b + c)
  <1>4. /\ x \in Seq(Unit) /\ y \in Seq(Unit) /\ Len(x) = b + c
        /\ Len(y) = Len(w) - (b + c)
        /\ \A i \in 1..(b + c) : x[i] = w[i]
        /\ \A i \in 1..(Len(w) - (b + c)) : y[i] = w[i + (b + c)]
    BY <1>1, Cuts
  <1> HIDE DEF x, y
  <1>5. u \o v1 = x
    <2>1. u \o v1 \in Seq(Unit) /\ Len(u \o v1) = Len(x)
      BY <1>1, <1>2, <1>3, <1>4, Concat
    <2>2. ASSUME NEW i \in 1..(b + c)
          PROVE  (u \o v1)[i] = x[i]
      <3>1. CASE i \in 1..b
        <4>1. (u \o v1)[i] = u[i]
          BY <1>2, <1>3, <3>1, Concat
        <4> QED
          BY <1>2, <1>4, <3>1, <4>1
      <3>2. CASE i \notin 1..b
        <4>1. i - b \in 1..c /\ b + (i - b) = i /\ (i - b) + b = i
              /\ i - b \in 1..(Len(w) - b)
          BY <1>1, <3>2
        <4>2. (u \o v1)[Len(u) + (i - b)] = v1[i - b]
          BY <1>2, <1>3, <4>1, Concat, ZenonT(40)
        <4> QED
          BY <1>2, <1>3, <1>4, <4>1, <4>2, ZenonT(40)
      <3> QED
        BY <3>1, <3>2
    <2> QED
      BY <1>4, <2>1, <2>2, SeqEqual
  <1>6. v2 = y
    <2>1. Len(v2) = Len(y)
      BY <1>1, <1>2, <1>3, <1>4
    <2>2. ASSUME NEW i \in 1..Len(v2)
          PROVE  v2[i] = y[i]
      <3> DEFINE n == Len(w)
      <3> HIDE DEF n
      <3>0. n \in Nat /\ Len(v) = n - b /\ i \in 1..(Len(v) - c)
        BY <1>1, <1>2, <1>3 DEF n
      <3>1. /\ i \in 1..(Len(v) - c) /\ i + c \in 1..(n - b)
            /\ (i + c) + b = i + (b + c) /\ i \in 1..(n - (b + c))
        BY <1>1, <3>0
      <3> USE DEF n
      <3> QED
        BY <1>2, <1>3, <1>4, <3>1, ZenonT(40)
    <2> QED
      BY <1>3, <1>4, <2>1, <2>2, SeqEqual
  <1>7. u \o v = w
    <2>1. u \o v \in Seq(Unit) /\ Len(u \o v) = Len(w)
      BY <1>1, <1>2, Concat, SMTT(30)
    <2>2. ASSUME NEW i \in 1..Len(w)
          PROVE  (u \o v)[i] = w[i]
      <3>1. CASE i \in 1..b
        BY <1>2, <3>1, Concat
      <3>2. CASE i \notin 1..b
        <4>1. i - b \in 1..(Len(w) - b) /\ b + (i - b) = i /\ (i - b) + b = i
          BY <1>1, <3>2
        <4>2. (u \o v)[Len(u) + (i - b)] = v[i - b]
          BY <1>2, <4>1, Concat, SMTT(30)
        <4> QED
          BY <1>2, <4>1, <4>2
      <3> QED
        BY <3>1, <3>2
    <2> QED
      BY <2>1, <2>2, SeqEqual
  <1> QED
    BY <1>1, <1>5, <1>6, <1>7 DEF x, y, u, v, v1, v2

(* The units that follow in the message that was sent in part. *)
Following(rest) ==
  IF rest # <<>> /\ Head(rest)[2] > 1 THEN Units - Head(rest)[2] + 1 ELSE 0

(* After any number of units the message sent in part can be raised whole. *)
LEMMA Raising ==
  ASSUME BoundAssumption, NEW w \in Seq(Unit), Whole(w), NEW b \in 0..Len(w)
  PROVE  /\ Following(Rest(w, b)) \in 0..(Len(w) - b)
         /\ Whole(SubSeq(w, 1, b + Following(Rest(w, b))))
         /\ Whole(Rest(w, b + Following(Rest(w, b))))
  <1> DEFINE rest == Rest(w, b)
             n == Len(w)
             c == Following(rest)
  <1>1. /\ n \in Nat /\ b \in Nat /\ b <= n /\ rest \in Seq(Unit)
        /\ Len(rest) = n - b /\ \A i \in 1..(n - b) : rest[i] = w[i + b]
        /\ DOMAIN w = 1..n
    <2>1. n \in Nat /\ b \in Nat /\ b <= n /\ DOMAIN w = 1..n
      OBVIOUS
    <2> QED
      BY <2>1, Cuts
  <1>2. Units \in Nat \ {0} /\ \A i \in 1..n : w[i][2] \in 1..Units
    BY <1>1 DEF BoundAssumption, Unit
  <1> HIDE DEF rest, n
  <1>3. CASE rest = <<>>
    <2>1. c = 0 /\ b + c = n
      BY <1>1, <1>3 DEF Following
    <2> QED
      BY <1>1, <2>1, WholeCut DEF rest, n
  <1>4. CASE rest # <<>>
    <2>1. /\ b + 1 \in 1..n /\ Head(rest) = rest[1] /\ rest[1] = w[b + 1]
          /\ 1 + b = b + 1
      BY <1>1, <1>4
    <2>2. PICK x \in 1..Units : w[b + 1][2] = x
      BY <1>2, <2>1
    <2>3. CASE x = 1
      <3>1. c = 0 /\ b + c = b
        BY <1>1, <1>4, <2>1, <2>2, <2>3 DEF Following
      <3> QED
        BY <1>1, <2>1, <2>2, <2>3, <3>1, WholeCut DEF rest, n
    <2>4. CASE x # 1
      <3>1. c = Units - x + 1
        BY <1>4, <2>1, <2>2, <2>4 DEF Following
      <3>2. /\ (b + 1) + Units - x \in 1..n
            /\ w[(b + 1) + Units - x] = <<w[b + 1][1], Units>>
        <4>1. /\ (b + 1) + Units - w[b + 1][2] \in DOMAIN w
              /\ w[(b + 1) + Units - w[b + 1][2]] = <<w[b + 1][1], Units>>
          <5>1. b + 1 \in DOMAIN w /\ Units \in 1..Units
            BY <1>1, <1>2, <2>1
          <5> QED
            BY <5>1, Zenon DEF Whole
        <4> QED
          BY <1>1, <2>2, <4>1
      <3>3. (b + 1) + Units - x = b + c /\ c \in 0..(n - b)
        BY <1>1, <1>2, <3>1, <3>2
      <3>4. b + c \in 0..n /\ w[b + c][2] = Units
        BY <1>1, <3>2, <3>3
      <3> QED
        BY <3>3, <3>4, WholeCut DEF rest, n
    <2> QED
      BY <2>3, <2>4
  <1> QED
    BY <1>3, <1>4 DEF n, rest

(* w2 is w with a units of d and g and b units of low, which have left.    *)
Drains(w, d, g, low, a, b, w2, high2, low2) ==
  /\ a \in 0..Len(d \o g) /\ b \in 0..Len(low)
  /\ w2 = w \o SubSeq(d \o g, 1, a) \o SubSeq(low, 1, b)
  /\ \/ /\ a = Len(d \o g)
        /\ high2 = SubSeq(Rest(low, b), 1, Following(Rest(low, b)))
        /\ low2 = Rest(Rest(low, b), Following(Rest(low, b)))
     \/ b = 0 /\ high2 = Rest(d \o g, a) /\ low2 = low

(* w2, high2 and low2 are the data of w, d, g and low, in their order.     *)
Follows(w, d, g, low, w2, high2, low2) ==
  /\ w2 \in Seq(Unit) /\ high2 \in Seq(Unit) /\ low2 \in Seq(Unit)
  /\ (w2 \o high2) \o low2 = (w \o d \o g) \o low
  /\ Whole(low2) /\ (Whole(w \o d \o g) => Whole(w2 \o high2))
  /\ \A n : LowerIn(n, low) => LowerIn(n, low2)

(* What has left, what is raised and what is left are the data there were. *)
LEMMA Drained ==
  ASSUME BoundAssumption, NEW w \in Seq(Unit), NEW d \in Seq(Unit),
         NEW g \in Seq(Unit), NEW low \in Seq(Unit), Whole(low),
         NEW a, NEW b, NEW w2, NEW high2, NEW low2,
         Drains(w, d, g, low, a, b, w2, high2, low2)
  PROVE  Follows(w, d, g, low, w2, high2, low2)
  <1> DEFINE h == d \o g
             h1 == SubSeq(h, 1, a)
             h2 == Rest(h, a)
             l1 == SubSeq(low, 1, b)
             rest == Rest(low, b)
             c == Following(rest)
  <1> a \in 0..Len(d \o g) /\ b \in 0..Len(low)
    BY DEF Drains
  <1>1. h \in Seq(Unit) /\ w \o h \in Seq(Unit) /\ w \o d \o g = w \o h
    <2>1. h \in Seq(Unit)
      BY Concat
    <2>2. w \o d \o g = w \o h
      BY Associative
    <2> HIDE DEF h
    <2>3. w \o h \in Seq(Unit)
      BY <2>1, Concat
    <2> QED
      BY <2>1, <2>2, <2>3
  <1>2. /\ h1 \in Seq(Unit) /\ h2 \in Seq(Unit) /\ h1 \o h2 = h
        /\ a = Len(h) => h1 = h
    <2> HIDE DEF h
    <2>1. h \in Seq(Unit) /\ a \in 0..Len(h) /\ 0 \in 0..(Len(h) - a)
      BY <1>1 DEF h
    <2>2. h1 \in Seq(Unit) /\ h2 \in Seq(Unit)
      BY <2>1, Cuts
    <2>3. h1 \o h2 = h
      BY <2>1, CutTwice
    <2>4. a = Len(h) => h1 = h
      BY <2>1
    <2> QED
      BY <2>2, <2>3, <2>4
  <1>3. /\ l1 \in Seq(Unit) /\ (b = 0 => l1 = <<>>)
        /\ rest \in Seq(Unit) /\ Len(rest) = Len(low) - b
    BY Cuts
  <1>4. /\ c \in 0..(Len(low) - b) /\ b + c \in 0..Len(low)
        /\ Whole(SubSeq(low, 1, b + c)) /\ Whole(Rest(low, b + c))
        /\ l1 \o SubSeq(rest, 1, c) = SubSeq(low, 1, b + c)
        /\ Rest(rest, c) = Rest(low, b + c)
        /\ SubSeq(low, 1, b + c) \o Rest(low, b + c) = low
    <2>1. /\ c \in 0..(Len(low) - b)
          /\ Whole(SubSeq(low, 1, b + c)) /\ Whole(Rest(low, b + c))
      BY Raising
    <2> HIDE DEF c
    <2>2. /\ b + c \in 0..Len(low)
          /\ l1 \o SubSeq(rest, 1, c) = SubSeq(low, 1, b + c)
          /\ Rest(rest, c) = Rest(low, b + c)
      BY <2>1, CutTwice
    <2>3. 0 \in 0..(Len(low) - (b + c))
      BY <2>2
    <2>4. SubSeq(low, 1, b + c) \o Rest(low, b + c) = low
      <3> DEFINE e == b + c
      <3> HIDE DEF e
      <3>1. e \in 0..Len(low) /\ 0 \in 0..(Len(low) - e)
        BY <2>2, <2>3 DEF e
      <3>2. SubSeq(low, 1, e) \o Rest(low, e) = low
        BY <3>1, CutTwice
      <3> QED
        BY <3>2 DEF e
    <2> QED
      BY <2>1, <2>2, <2>4
  <1>5. CASE /\ a = Len(h) /\ high2 = SubSeq(rest, 1, c)
             /\ low2 = Rest(rest, c)
    <2> DEFINE p == SubSeq(low, 1, b + c)
               q == Rest(low, b + c)
               base == w \o h
    <2>1. p \in Seq(Unit) /\ q \in Seq(Unit) /\ low2 = q
      <3> DEFINE e == b + c
      <3>1. e \in 0..Len(low)
        BY <1>4
      <3> HIDE DEF e
      <3>2. SubSeq(low, 1, e) \in Seq(Unit) /\ Rest(low, e) \in Seq(Unit)
        BY <3>1, Cuts
      <3> QED
        BY <1>4, <1>5, <3>2 DEF e
    <2>2. high2 \in Seq(Unit)
      <3>1. c \in 0..Len(rest)
        BY <1>3, <1>4
      <3> HIDE DEF c, rest
      <3> QED
        BY <1>3, <1>5, <3>1, Cuts
    <2>3. w2 = base \o l1 /\ base \in Seq(Unit)
      BY <1>1, <1>2, <1>5 DEF Drains
    <2>4. Whole(p) /\ Whole(q) /\ p \o q = low /\ l1 \o high2 = p
      BY <1>4, <1>5
    <2>5. ASSUME NEW n, LowerIn(n, low)
          PROVE  LowerIn(n, q)
      <3> DEFINE e == b + c
      <3>1. e \in 0..Len(low) /\ e \in Nat /\ Len(low) \in Nat
        BY <1>4
      <3> HIDE DEF e
      <3>2. /\ DOMAIN Rest(low, e) = 1..(Len(low) - e)
            /\ DOMAIN low = 1..Len(low)
            /\ \A i \in 1..(Len(low) - e) : Rest(low, e)[i] = low[i + e]
        <4>1. /\ Rest(low, e) \in Seq(Unit)
              /\ Len(Rest(low, e)) = Len(low) - e
              /\ \A i \in 1..(Len(low) - e) : Rest(low, e)[i] = low[i + e]
          BY <3>1, Cuts
        <4>2. \A q2 \in Seq(Unit) : DOMAIN q2 = 1..Len(q2)
          OBVIOUS
        <4> QED
          BY <4>1, <4>2
      <3>3. \A i \in 1..(Len(low) - e) : i + e \in 1..Len(low)
        BY <3>1
      <3>4. LowerIn(n, Rest(low, e))
        BY <2>5, <3>2, <3>3 DEF LowerIn
      <3> QED
        BY <3>4 DEF e
    <2> HIDE DEF p, q, base, l1
    <2>6. w2 \in Seq(Unit) /\ w2 \o high2 = base \o p
      <3>1. w2 \in Seq(Unit)
        <4>1. base \o l1 \in Seq(Unit)
          BY <1>3, <2>3, Concat
        <4> QED
          BY <2>3, <4>1
      <3>2. (base \o l1) \o high2 = base \o (l1 \o high2)
        BY <1>3, <2>2, <2>3, Associative, ZenonT(40)
      <3> QED
        BY <2>3, <2>4, <3>1, <3>2
    <2>7. (w2 \o high2) \o low2 = base \o low
      <3>1. (base \o p) \o q = base \o (p \o q)
        BY <2>1, <2>3, Associative, ZenonT(40)
      <3> QED
        BY <2>1, <2>4, <2>6, <3>1
    <2>8. Whole(base) => Whole(base \o p)
      BY <2>1, <2>3, <2>4, WholeConcat
    <2>9. w \o d \o g = base
      BY <1>1 DEF base
    <2> QED
      BY <2>1, <2>2, <2>4, <2>5, <2>6, <2>7, <2>8, <2>9 DEF Follows
  <1>6. CASE b = 0 /\ high2 = h2 /\ low2 = low
    <2> HIDE DEF h, h1, h2, l1
    <2>1. w2 = w \o h1 \o l1 /\ l1 = <<>> /\ w \o h1 \in Seq(Unit)
      BY <1>2, <1>3, <1>6, Concat DEF h, h1, l1, Drains
    <2>2. w2 = w \o h1
      BY <2>1, ConcatEmptySeq
    <2>3. (w \o h1) \o h2 = w \o (h1 \o h2)
      BY <1>2, Associative, ZenonT(40)
    <2>4. w2 \o high2 = w \o d \o g
      BY <1>1, <1>2, <1>6, <2>2, <2>3
    <2> QED
      BY <1>2, <1>6, <2>1, <2>2, <2>4 DEF Follows
  <1> QED
    BY <1>5, <1>6 DEF Drains

(* What has left is the first part of the data. *)
LEMMA Taken ==
  ASSUME BoundAssumption, NEW w2 \in Seq(Unit), NEW v \in Seq(Unit),
         NEW out, w2 \o v = out
  PROVE  /\ \A n, q, k, id : Sorted(n, q, k, out, id) =>
              SentIn(n, w2, id) /\ OrderedIn(n, w2)
         /\ Whole(out) /\ IsInjective(out) => Chained(w2)
  <1>1. out \in Seq(Unit) /\ SubSeq(out, 1, Len(w2)) = w2
        /\ Len(w2) \in 0..Len(out)
    <2>1. /\ out \in Seq(Unit) /\ Len(w2) \in 0..Len(out)
          /\ \A i \in 1..Len(w2) : out[i] = w2[i]
      <3>1. /\ w2 \o v \in Seq(Unit) /\ Len(w2 \o v) = Len(w2) + Len(v)
            /\ Len(w2) \in Nat /\ Len(v) \in Nat
            /\ \A i \in 1..Len(w2) : (w2 \o v)[i] = w2[i]
        BY Concat
      <3> QED
        BY <3>1
    <2>2. /\ SubSeq(out, 1, Len(w2)) \in Seq(Unit)
          /\ Len(SubSeq(out, 1, Len(w2))) = Len(w2)
          /\ \A i \in 1..Len(w2) : SubSeq(out, 1, Len(w2))[i] = out[i]
      BY <2>1, Cuts
    <2> QED
      BY <2>1, <2>2, SeqEqual
  <1>2. ASSUME NEW n, NEW q, NEW k, NEW id, Sorted(n, q, k, out, id)
        PROVE  SentIn(n, w2, id) /\ OrderedIn(n, w2)
    BY <1>2, SortedPrefix DEF Sorted
  <1>3. Whole(out) /\ IsInjective(out) => Chained(w2)
    BY <1>1, PrefixChained
  <1> QED
    BY <1>2, <1>3

(* send_buffer: the data that leave are the first of those to be sent. *)
LEMMA SendBufferStep ==
  ASSUME BoundAssumption, CallerAssumption, IInv, SendBuffer
  PROVE  IInv'
  <1> DEFINE sl == Head(ev).slot
             s == sock[sl]
             id == s.id
             d == s.dw \o s.high
             high2(h, l) ==
               IF h.n = Len(d)
               THEN SubSeq(Rest(s.low, l.n), 1, Following(Rest(s.low, l.n)))
               ELSE Rest(d, h.n)
             low2(h, l) ==
               IF h.n = Len(d)
               THEN Rest(Rest(s.low, l.n), Following(Rest(s.low, l.n)))
               ELSE s.low
             t(h, l) == [s EXCEPT !.dw = <<>>, !.high = high2(h, l),
                                  !.low = low2(h, l)]
             gone(h, l) == [t(h, l) EXCEPT !.type = "INVALID", !.high = <<>>,
                                           !.low = <<>>]
             w2(h, l) == wire[id] \o SubSeq(d, 1, h.n) \o SubSeq(s.low, 1, l.n)
  <1>1. OnEvent(Open) /\ UNCHANGED <<alloc, known>> /\ s.lock = NoOne
    BY Zenon DEF SendBuffer, OnOpen
  <1>2. /\ ~failed /\ sl \in Slot /\ Live(sl) /\ Pop \in Seq(Event)
        /\ Back \in {"check", "rest"} /\ s.type \in Open
        /\ s \in Socket /\ (s.closing => s.type = "HALFCLOSE_READ")
        /\ id \in Id /\ UNCHANGED <<pipe, call, peer, sends, calls>>
    BY <1>1, OpenEvent DEF Open
  <1>3. /\ TypeOK /\ WireSent /\ WireWhole /\ SendOrder
        /\ StateInv /\ CountInv /\ ToldInv /\ CloseInv /\ DataInv
    BY <1>2, Parts
  <1>4. PICK h \in Written(d), l \in Written(s.low) :
          /\ h.n # Len(d) => l.n = 0
          /\ wire' = [wire EXCEPT ![id] = w2(h, l)]
          /\ \/ /\ s.closing \/ s.type = "HALFCLOSE_READ"
                /\ Answer(sl, gone(h, l), "none", Pop, Back, FALSE)
             \/ Answer(sl, t(h, l), "none", Pop, Back, FALSE)
             \/ /\ ~s.closing /\ s.type # "HALFCLOSE_READ"
                /\ Answer(sl, [t(h, l) EXCEPT !.type = "HALFCLOSE_WRITE",
                                              !.writing = FALSE],
                          "err", Pop, Back, FALSE)
             \/ Answer(sl, [t(h, l) EXCEPT !.writing = FALSE], "none", Pop,
                       Back, FALSE)
    <2>1. PICK h \in Written(s.dw \o s.high), l \in Written(s.low) :
       LET all == h.n = Len(s.dw \o s.high)
           rest == Rest(s.low, l.n)
           part == rest # <<>> /\ Head(rest)[2] > 1
           cont == IF part THEN Units - Head(rest)[2] + 1 ELSE 0
           u == [s EXCEPT !.dw = <<>>,
                  !.high = IF all THEN SubSeq(rest, 1, cont)
                           ELSE Rest(s.dw \o s.high, h.n),
                  !.low = IF all THEN Rest(rest, cont) ELSE @]
           none == [u EXCEPT !.type = "INVALID", !.high = <<>>, !.low = <<>>]
       IN
       /\ Possible(peer[s.id], s.dw \o s.high, h)
       /\ IF all THEN Possible(peer[s.id], s.low, l)
          ELSE l.n = 0 /\ ~l.failed
       /\ wire' = [wire EXCEPT ![s.id] = @ \o SubSeq(s.dw \o s.high, 1, h.n)
                                           \o SubSeq(s.low, 1, l.n)]
       /\ IF h.failed \/ l.failed
          THEN IF s.closing \/ s.type = "HALFCLOSE_READ"
               THEN Answer(sl, none, "none", Pop, Back, FALSE)
               ELSE IF s.type = "HALFCLOSE_WRITE"
               THEN Answer(sl, u, "none", Pop, Back, FALSE)
               ELSE Answer(sl, [u EXCEPT !.type = "HALFCLOSE_WRITE",
                                         !.writing = FALSE],
                           "err", Pop, Back, FALSE)
          ELSE IF ~Empty(u) THEN Answer(sl, u, "none", Pop, Back, FALSE)
          ELSE IF s.closing THEN Answer(sl, none, "none", Pop, Back, FALSE)
          ELSE Answer(sl, [u EXCEPT !.writing = FALSE], "none", Pop, Back,
                      FALSE)
      BY Zenon DEF SendBuffer
    <2> DEFINE rest == Rest(s.low, l.n)
               cont == IF rest # <<>> /\ Head(rest)[2] > 1
                       THEN Units - Head(rest)[2] + 1 ELSE 0
               u == [s EXCEPT !.dw = <<>>,
                       !.high = IF h.n = Len(s.dw \o s.high)
                                THEN SubSeq(rest, 1, cont)
                                ELSE Rest(s.dw \o s.high, h.n),
                       !.low = IF h.n = Len(s.dw \o s.high)
                               THEN Rest(rest, cont) ELSE @]
    <2>2. u = t(h, l) /\ s.id = id /\ s.dw \o s.high = d
      BY Zenon DEF Following
    <2>3. /\ h.n # Len(d) => l.n = 0
          /\ wire' = [wire EXCEPT ![id] = w2(h, l)]
      BY <2>1, Zenon
    <2>4. IF h.failed \/ l.failed
          THEN IF s.closing \/ s.type = "HALFCLOSE_READ"
               THEN Answer(sl, [u EXCEPT !.type = "INVALID", !.high = <<>>,
                                         !.low = <<>>],
                           "none", Pop, Back, FALSE)
               ELSE IF s.type = "HALFCLOSE_WRITE"
               THEN Answer(sl, u, "none", Pop, Back, FALSE)
               ELSE Answer(sl, [u EXCEPT !.type = "HALFCLOSE_WRITE",
                                         !.writing = FALSE],
                           "err", Pop, Back, FALSE)
          ELSE IF ~Empty(u) THEN Answer(sl, u, "none", Pop, Back, FALSE)
          ELSE IF s.closing
          THEN Answer(sl, [u EXCEPT !.type = "INVALID", !.high = <<>>,
                                    !.low = <<>>],
                      "none", Pop, Back, FALSE)
          ELSE Answer(sl, [u EXCEPT !.writing = FALSE], "none", Pop, Back,
                      FALSE)
      BY Zenon, <2>1
    <2>5. [t(h, l) EXCEPT !.type = "INVALID", !.high = <<>>, !.low = <<>>]
            = gone(h, l)
      OBVIOUS
    <2> HIDE DEF u, t, gone, w2, s, sl, d, id
    <2>6. \/ /\ s.closing \/ s.type = "HALFCLOSE_READ"
             /\ Answer(sl, gone(h, l), "none", Pop, Back, FALSE)
          \/ Answer(sl, t(h, l), "none", Pop, Back, FALSE)
          \/ /\ ~s.closing /\ s.type # "HALFCLOSE_READ"
             /\ Answer(sl, [t(h, l) EXCEPT !.type = "HALFCLOSE_WRITE",
                                           !.writing = FALSE],
                       "err", Pop, Back, FALSE)
          \/ Answer(sl, [t(h, l) EXCEPT !.writing = FALSE], "none", Pop,
                    Back, FALSE)
      BY Zenon, <2>2, <2>4, <2>5
    <2> QED
      BY <2>2, <2>3, <2>6
  <1> DEFINE hi == high2(h, l)
             lo == low2(h, l)
             w == w2(h, l)
             tt == t(h, l)
             out == (wire[id] \o s.dw \o s.high) \o s.low
  <1>5. /\ s.dw \in Seq(Unit) /\ s.high \in Seq(Unit) /\ s.low \in Seq(Unit)
        /\ wire[id] \in Seq(Unit) /\ wire \in [Id -> Seq(Unit)]
        /\ wire[id] \o s.dw \o s.high \in Seq(Unit) /\ out \in Seq(Unit)
    <2>1. /\ s.dw \in Seq(Unit) /\ s.high \in Seq(Unit) /\ s.low \in Seq(Unit)
      BY <1>2, <1>3, SocketFields
    <2>2. wire[id] \in Seq(Unit) /\ wire \in [Id -> Seq(Unit)]
      <3> HIDE DEF id
      <3> QED
        BY <1>2, <1>3 DEF TypeOK
    <2>3. KeptIn(call, s) = s.dw
      BY <1>1 DEF KeptIn
    <2> QED
      BY <1>2, <1>3, <2>1, <2>2, <2>3, StreamType
  <1>6. /\ Sorted(sends, pipe, call, out, id) /\ LowerIn(sends, s.low)
        /\ Whole(s.low)
        /\ id \notin cut =>
             Whole(wire[id] \o s.dw \o s.high) /\ IsInjective(out)
    <2>1. StreamIn(wire, sends, pipe, call, cut, s)
      BY <1>2, <1>3, StreamSame DEF DataInv
    <2>2. KeptIn(call, s) = s.dw
      BY <1>1 DEF KeptIn
    <2> HIDE DEF s
    <2> QED
      BY <2>1, <2>2 DEF StreamIn
  <1>7. /\ w \in Seq(Unit) /\ hi \in Seq(Unit) /\ lo \in Seq(Unit)
        /\ (w \o hi) \o lo = out
        /\ Whole(lo) /\ (Whole(wire[id] \o s.dw \o s.high) => Whole(w \o hi))
        /\ LowerIn(sends, lo)
    <2>1. Drains(wire[id], s.dw, s.high, s.low, h.n, l.n, w, hi, lo)
      <3>1. h.n \in 0..Len(d) /\ l.n \in 0..Len(s.low)
        BY <1>4, Zenon DEF Written
      <3> QED
        BY <1>4, <3>1, ZenonT(40) DEF Drains
    <2>2. Follows(wire[id], s.dw, s.high, s.low, w, hi, lo)
      <3> HIDE DEF hi, lo, s, id, w
      <3> QED
        BY <1>5, <1>6, <2>1, Drained
    <2> HIDE DEF hi, lo, s, id, w
    <2> QED
      BY <1>6, <2>2 DEF Follows
  <1>8. wire' = [wire EXCEPT ![id] = w]
    BY <1>4, ZenonT(40)
  <1>9. /\ tt \in Socket /\ tt.high = hi /\ tt.low = lo /\ tt.dw = <<>>
        /\ tt.id = id /\ tt.tcp = s.tcp /\ tt.tag = s.tag
        /\ tt.lock = NoOne /\ tt.sending = s.sending /\ tt.type = s.type
        /\ tt.closing = s.closing
    <2>1. <<>> \in Seq(Unit)
      BY EmptySeq
    <2>2. tt = [s EXCEPT !.dw = <<>>, !.high = hi, !.low = lo]
      OBVIOUS
    <2>3. id = s.id
      OBVIOUS
    <2> HIDE DEF tt, s, hi, lo, id
    <2> QED
      BY <1>1, <1>2, <1>7, <2>1, <2>2, <2>3 DEF Socket
  (* What becomes of the socket, and what its owner is told. *)
  <1>10. \E u \in Socket, word \in {"none", "err"} :
           /\ Answers(sl, u, word, Pop, Back) /\ failed' = FALSE
           /\ u.id = id /\ u.tcp = s.tcp /\ u.tag = s.tag /\ u.lock = NoOne
           /\ u.sending = s.sending /\ u.dw = <<>> /\ u.closing = s.closing
           /\ \/ /\ u.type = "INVALID" /\ word = "none"
                 /\ s.type = "HALFCLOSE_READ" /\ u.high = <<>> /\ u.low = <<>>
              \/ /\ u.high = hi /\ u.low = lo
                 /\ \/ u.type = s.type
                    \/ /\ u.type = "HALFCLOSE_WRITE" /\ ~s.closing
                       /\ s.type # "HALFCLOSE_READ"
    <2>1. <<>> \in Seq(Unit)
      BY EmptySeq
    <2>2. CASE /\ s.closing \/ s.type = "HALFCLOSE_READ"
               /\ Answer(sl, gone(h, l), "none", Pop, Back, FALSE)
      <3> DEFINE u == gone(h, l)
      <3>1. u = [tt EXCEPT !.type = "INVALID", !.high = <<>>, !.low = <<>>]
        OBVIOUS
      <3>2. Answers(sl, u, "none", Pop, Back) /\ failed' = FALSE
        BY <2>2 DEF Answer, Answers
      <3>3. s.type = "HALFCLOSE_READ"
        BY <1>2, <2>2
      <3> HIDE DEF tt, u, hi, lo
      <3>4. /\ u \in Socket /\ u.id = tt.id /\ u.tcp = tt.tcp
            /\ u.tag = tt.tag /\ u.lock = tt.lock /\ u.sending = tt.sending
            /\ u.dw = tt.dw /\ u.closing = tt.closing /\ u.type = "INVALID"
            /\ u.high = <<>> /\ u.low = <<>>
        BY <1>9, <2>1, <3>1 DEF Socket, Type
      <3> HIDE DEF s
      <3> QED
        BY <1>9, <3>2, <3>3, <3>4
    <2>3. CASE Answer(sl, tt, "none", Pop, Back, FALSE)
      <3>1. Answers(sl, tt, "none", Pop, Back) /\ failed' = FALSE
        BY <2>3 DEF Answer, Answers
      <3> HIDE DEF tt, hi, lo, s
      <3> QED
        BY <1>9, <3>1
    <2>4. CASE /\ ~s.closing /\ s.type # "HALFCLOSE_READ"
               /\ Answer(sl, [tt EXCEPT !.type = "HALFCLOSE_WRITE",
                                        !.writing = FALSE],
                         "err", Pop, Back, FALSE)
      <3> DEFINE u == [tt EXCEPT !.type = "HALFCLOSE_WRITE", !.writing = FALSE]
      <3>1. Answers(sl, u, "err", Pop, Back) /\ failed' = FALSE
        BY <2>4 DEF Answer, Answers
      <3> HIDE DEF tt, hi, lo
      <3>2. /\ u \in Socket /\ u.id = tt.id /\ u.tcp = tt.tcp
            /\ u.tag = tt.tag /\ u.lock = tt.lock /\ u.sending = tt.sending
            /\ u.dw = tt.dw /\ u.closing = tt.closing
            /\ u.type = "HALFCLOSE_WRITE"
            /\ u.high = tt.high /\ u.low = tt.low
        BY <1>9 DEF Socket, Type
      <3> HIDE DEF s, u
      <3> QED
        BY <1>9, <2>4, <3>1, <3>2
    <2>5. CASE Answer(sl, [tt EXCEPT !.writing = FALSE], "none", Pop, Back,
                      FALSE)
      <3> DEFINE u == [tt EXCEPT !.writing = FALSE]
      <3>1. Answers(sl, u, "none", Pop, Back) /\ failed' = FALSE
        BY <2>5 DEF Answer, Answers
      <3> HIDE DEF tt, hi, lo
      <3>2. /\ u \in Socket /\ u.id = tt.id /\ u.tcp = tt.tcp
            /\ u.tag = tt.tag /\ u.lock = tt.lock /\ u.sending = tt.sending
            /\ u.dw = tt.dw /\ u.closing = tt.closing /\ u.type = tt.type
            /\ u.high = tt.high /\ u.low = tt.low
        BY <1>9, Zenon DEF Socket
      <3> HIDE DEF s, u
      <3> QED
        BY <1>9, <3>1, <3>2
    <2> QED
      BY <1>4, <2>2, <2>3, <2>4, <2>5, Zenon
  <1>11. PICK u \in Socket, word \in {"none", "err"} :
           /\ Answers(sl, u, word, Pop, Back) /\ failed' = FALSE
           /\ u.id = id /\ u.tcp = s.tcp /\ u.tag = s.tag /\ u.lock = NoOne
           /\ u.sending = s.sending /\ u.dw = <<>> /\ u.closing = s.closing
           /\ \/ /\ u.type = "INVALID" /\ word = "none"
                 /\ s.type = "HALFCLOSE_READ" /\ u.high = <<>> /\ u.low = <<>>
              \/ /\ u.high = hi /\ u.low = lo
                 /\ \/ u.type = s.type
                    \/ /\ u.type = "HALFCLOSE_WRITE" /\ ~s.closing
                       /\ s.type # "HALFCLOSE_READ"
    BY <1>10, Zenon
  <1> HIDE DEF hi, lo, w, tt, out
  <1>12. /\ sock' \in [Slot -> Socket] /\ sock'[sl] = u
         /\ \A x \in Slot \ {sl} : sock'[x] = sock[x]
         /\ told' \in [Id -> Seq(Word)] /\ ev' \in Seq(Event)
         /\ ctl' \in {"check", "rest", "fresh", "lock"}
         /\ ctl' # "lock" /\ fc' = fc /\ cut' = cut
         /\ IF word = "none" THEN told' = told ELSE Say(id, word)
    <2>1. /\ word \in Word \cup {"none"} /\ u.id \in Id
          /\ Back \in {"check", "rest", "fresh"}
      BY <1>2, <1>11 DEF Word
    <2>2. /\ sock' \in [Slot -> Socket] /\ sock'[sl] = u
          /\ \A x \in Slot \ {sl} : sock'[x] = sock[x]
          /\ told' \in [Id -> Seq(Word)] /\ ev' \in Seq(Event)
          /\ ctl' \in {"check", "rest", "fresh", "lock"}
          /\ ctl' # "lock" /\ fc' = fc /\ cut' = cut
          /\ IF word = "none" THEN told' = told ELSE Say(u.id, word)
      <3> HIDE DEF sl
      <3> QED
        BY <1>2, <1>3, <1>11, <2>1, AnswerType
    <2> QED
      BY <1>11, <2>2
  <1>13. /\ wire' \in [Id -> Seq(Unit)] /\ wire'[id] = w
         /\ \A x \in Id \ {id} : wire'[x] = wire[x]
    BY <1>2, <1>5, <1>7, <1>8
  <1>14. TypeOK'
    <2>1. fc \in Closing /\ cut \subseteq Id /\ pipe \in Seq(Request)
      BY <1>3 DEF TypeOK, Closing
    <2> HIDE DEF sl
    <2> QED
      BY <1>1, <1>2, <1>3, <1>11, <1>12, <1>13, <2>1, HandlerTypes
  <1>15. PipeKept /\ DataKept
    BY <1>2, <1>3, DataSame DEF PipeKept
  <1>16. Turned(sl, word)
    <2>1. Fits(s, u, word)
      BY <1>2, <1>11 DEF Fits, Open
    <2>2. SlotFramed(sl)
      <3>1. u.closing => u.type \in {"HALFCLOSE_READ", "INVALID"}
        BY <1>2, <1>11
      <3>2. u.type = "INVALID" => Empty(u)
        BY <1>2, <1>11 DEF Empty, Open
      <3>3. u.type # "RESERVE" /\ s.type \notin {"INVALID", "RESERVE"}
        BY <1>2, <1>11 DEF Open
      <3> QED
        BY <1>1, <1>2, <1>11, <1>12, <3>1, <3>2, <3>3 DEF SlotFramed
    <2> HIDE DEF sl
    <2> QED
      BY <1>1, <1>2, <1>12, <1>13, <1>15, <2>1, <2>2 DEF Turned
  <1>17. StateInv' /\ ToldInv'
    <2>1. word \in Word \cup {"none"}
      BY DEF Word
    <2> QED
      BY <1>2, <1>3, <1>16, <2>1, Turn
  <1>18. CountInv'
    <2>1. \A x \in Slot : /\ sock'[x].tcp = sock[x].tcp
                          /\ sock'[x].id = sock[x].id
                          /\ sock'[x].sending = sock[x].sending
      BY <1>11, <1>12
    <2> QED
      BY <1>2, <1>3, <2>1, CountFrame
  <1>19. CloseInv'
    BY <1>12 DEF CloseInv
  <1>20. sock'[sl].type \notin {"INVALID", "RESERVE"} =>
           StreamIn(wire', sends', pipe', call', cut', sock'[sl])
    <2> SUFFICES ASSUME u.type # "INVALID"
                 PROVE  StreamIn(wire', sends', pipe', call', cut', u)
      BY <1>12
    <2>1. u.high = hi /\ u.low = lo
      BY <1>11
    <2>2. KeptIn(call', u) = <<>>
      BY <1>11 DEF KeptIn
    <2>3. w \o <<>> = w
      BY <1>7, ConcatEmptySeq
    <2>4. /\ wire'[u.id] \o KeptIn(call', u) \o u.high = w \o hi
          /\ u.id = id
      BY <1>11, <1>13, <2>1, <2>2, <2>3
    <2>5. id \notin cut' => Whole(w \o hi) /\ IsInjective(out)
      BY <1>6, <1>7, <1>12
    <2> HIDE DEF id, s
    <2> QED
      BY <1>2, <1>6, <1>7, <2>1, <2>4, <2>5 DEF StreamIn
  <1>21. DataInv'
    <2>1. \A x \in Slot \ {sl} : KeptIn(call', sock[x]) = KeptIn(call, sock[x])
      BY <1>2 DEF KeptIn
    <2> HIDE DEF sl
    <2> QED
      BY <1>2, <1>3, <1>12, <1>13, <1>15, <1>20, <2>1, DataStep
  <1>22. WireSent' /\ WireWhole' /\ SendOrder'
    <2>1. hi \o lo \in Seq(Unit) /\ w \o (hi \o lo) = out
      <3>1. (w \o hi) \o lo = w \o (hi \o lo)
        BY <1>7, Associative, Zenon
      <3>2. hi \o lo \in Seq(Unit)
        BY <1>7, Concat
      <3> QED
        BY <1>7, <3>1, <3>2, Zenon
    <2>2. SentIn(sends, w, id) /\ OrderedIn(sends, w)
      <3> HIDE DEF id
      <3> QED
        BY <1>6, <1>7, <2>1, Taken
    <2>3. id \notin cut' => Chained(w)
      <3> SUFFICES ASSUME id \notin cut
                   PROVE  Chained(w)
        BY <1>12
      <3>1. Whole(out) /\ IsInjective(out)
        BY <1>5, <1>6, WholeConcat, Zenon DEF out
      <3> QED
        BY <1>7, <2>1, <3>1, Taken
    <2>4. \A x \in Id :
            \/ wire'[x] = wire[x]
            \/ /\ SentIn(sends', wire'[x], x) /\ OrderedIn(sends', wire'[x])
               /\ x \notin cut' => Chained(wire'[x])
      <3> HIDE DEF id
      <3> QED
        BY <1>2, <1>13, <2>2, <2>3
    <2>5. SendsKept /\ cut \subseteq cut'
      BY <1>12, <1>15 DEF DataKept
    <2> QED
      BY <1>3, <2>4, <2>5, WireStep
  <1> QED
    BY <1>14, <1>17, <1>18, <1>19, <1>21, <1>22, Whole9

-----------------------------------------------------------------------------
(* The steps of the workers.                                               *)

LEMMA WorkerTypes ==
  ASSUME TypeOK, alloc' \in 0..MaxId, sock' \in [Slot -> Socket],
         pipe' \in Seq(Request), call' \in [Caller -> Call],
         wire' \in [Id -> Seq(Unit)], known' \subseteq Id,
         sends' \in Seq([by : Caller, to : Id, low : BOOLEAN]),
         calls' \in 0..MaxCall,
         UNCHANGED <<ctl, ev, fc, peer, told, cut, failed>>
  PROVE  TypeOK'
BY DEF TypeOK

LEMMA NoCallType ==
  ASSUME BoundAssumption
  PROVE  NoCall \in Call /\ NoCall.step = "idle" /\ NoCall.msg = 0
  <1>1. 0 \in 0..MaxId /\ 0 \in 0..MaxSend /\ 0 \in 0..Units
    BY DEF BoundAssumption
  <1> QED
    BY <1>1 DEF NoCall, Call, Cmd

(* What the step of a worker leaves alone. *)
Works(c) ==
  /\ UNCHANGED <<ctl, ev, fc, peer, told, cut, failed>>
  /\ \A d \in Caller \ {c} : call'[d] = call[d]
  /\ alloc' \in Nat /\ alloc' >= alloc /\ known \subseteq known'
  /\ SendsKept
  /\ \A m \in 1..Len(sends') : m > Len(sends) => sends'[m].by = c

OpensIn(k, c) == k[c].step = "fill" \/ (k[c].step = "post" /\ IsOpen(k[c]))

(* The step of worker c does not meddle with what worker d is doing. *)
Steady(c, d) ==
  LET k == call[d]
      s == sock[SlotOf(k.id)]
      t == sock'[SlotOf(k.id)] IN
  /\ Opens(d) =>
       /\ t.type = s.type /\ t.id = s.id /\ t.tcp = s.tcp
       /\ k.id \notin known'
       /\ OpensIn(call', c) => SlotOf(call'[c].id) # SlotOf(k.id)
  /\ k.step = "fill" =>
       \A i \in DOMAIN pipe' : IsOpen(pipe'[i]) =>
         \/ i \in DOMAIN pipe /\ pipe'[i] = pipe[i]
         \/ SlotOf(pipe'[i].id) # SlotOf(k.id)
  /\ k.step = "written" => t.id = s.id /\ t.lock = s.lock

LEMMA OtherCall ==
  ASSUME TypeOK, StateInv, NEW c \in Caller, Works(c),
         NEW d \in Caller \ {c}, Steady(c, d)
  PROVE  CallInv(d)'
  <1> DEFINE k == call[d]
             s == sock[SlotOf(k.id)]
             t == sock'[SlotOf(k.id)]
  <1>1. /\ CallInv(d) /\ call'[d] = k /\ told' = told /\ SendsKept
        /\ \A m \in 1..Len(sends') : m > Len(sends) => sends'[m].by = c
        /\ Len(sends) \in Nat /\ Len(sends') \in Nat /\ alloc \in Nat
        /\ alloc' \in Nat /\ alloc' >= alloc /\ known \subseteq known'
    BY DEF StateInv, Works, SendsKept, TypeOK
  <1>2. Opens(d)' = Opens(d) /\ Carries(d)' = Carries(d)
    BY <1>1 DEF Opens, Carries, IsOpen, IsSend
  <1>3. ASSUME Opens(d)
        PROVE  /\ IsOpen(k) /\ k.id \in (1..alloc') \ known'
               /\ t.type = "RESERVE"
               /\ IF k.step = "fill" THEN t.id < k.id
                  ELSE t.id = k.id /\ ~t.tcp
               /\ \A e \in Caller :
                    OpensIn(call', e) /\ SlotOf(call'[e].id) = SlotOf(k.id)
                    => e = d
    <2>1. ASSUME NEW e \in Caller, OpensIn(call', e),
                 SlotOf(call'[e].id) = SlotOf(k.id)
          PROVE  e = d
      <3>1. e # c
        BY <1>3, <2>1 DEF Steady
      <3>2. Opens(e) /\ call'[e] = call[e]
        BY <2>1, <3>1 DEF Works, Opens, OpensIn
      <3> QED
        BY <1>1, <1>3, <2>1, <3>2 DEF CallInv
    <2> QED
      BY <1>1, <1>3, <2>1 DEF CallInv, Steady
  <1>4. ASSUME k.step = "fill", NEW i \in DOMAIN pipe', IsOpen(pipe'[i])
        PROVE  SlotOf(pipe'[i].id) # SlotOf(k.id)
    BY <1>1, <1>4 DEF CallInv, Steady
  <1>5. ASSUME Carries(d)
        PROVE  /\ IsSend(k) /\ k.id \in known' /\ Has(told[k.id], "open")
               /\ k.msg \in 1..Len(sends')
               /\ sends'[k.msg] =
                    [by |-> d, to |-> k.id, low |-> k.cmd = "send_low"]
               /\ \A m \in (k.msg + 1)..Len(sends') : sends'[m].by # d
    <2>1. /\ IsSend(k) /\ k.id \in known /\ Has(told[k.id], "open")
          /\ k.msg \in 1..Len(sends)
          /\ sends[k.msg] =
               [by |-> d, to |-> k.id, low |-> k.cmd = "send_low"]
          /\ \A m \in (k.msg + 1)..Len(sends) : sends[m].by # d
      BY <1>1, <1>5 DEF CallInv
    <2>2. k.msg \in 1..Len(sends') /\ sends'[k.msg] = sends[k.msg]
      BY <1>1, <2>1 DEF SendsKept
    <2>3. ASSUME NEW m \in (k.msg + 1)..Len(sends')
          PROVE  sends'[m].by # d
      <3>1. CASE m > Len(sends)
        <4>1. m \in 1..Len(sends')
          BY <1>1, <2>1
        <4> QED
          BY <1>1, <3>1, <4>1
      <3>2. CASE ~(m > Len(sends))
        <4>1. m \in (k.msg + 1)..Len(sends) /\ m \in 1..Len(sends)
          BY <1>1, <2>1, <3>2
        <4>2. sends'[m] = sends[m]
          BY <1>1, <4>1 DEF SendsKept
        <4> QED
          BY <2>1, <4>1, <4>2
      <3> QED
        BY <3>1, <3>2
    <2> QED
      BY <1>1, <2>1, <2>2, <2>3
  <1>6. k.step = "written" => k.n < Units /\ t.id = k.id /\ t.lock = d
    BY <1>1 DEF CallInv, Steady
  <1>7. k.step = "post" /\ ~IsOpen(k) =>
          k.id \in known' /\ (IsSend(k) \/ k.cmd = "trigger")
    BY <1>1 DEF CallInv
  <1>8. \A e : Opens(e)' <=> OpensIn(call', e)
    BY DEF Opens, OpensIn, IsOpen
  <1> QED
    BY <1>1, <1>2, <1>3, <1>4, <1>5, <1>6, <1>7, <1>8
    DEF CallInv, SlotOf, IsOpen, IsSend

(* A socket of which at most the count of sends is another. *)
Recounted(s, t) ==
  /\ t.id = s.id /\ t.tcp = s.tcp /\ t.tag = s.tag /\ t.lock = s.lock
  /\ t.high = s.high /\ t.low = s.low /\ t.dw = s.dw
  /\ t.type = s.type /\ t.closing = s.closing

LEMMA OtherSlot ==
  ASSUME TypeOK, StateInv, NEW c \in Caller, Works(c), NEW sl \in Slot,
         sock'[sl] = sock[sl] \/ Recounted(sock[sl], sock'[sl]),
         \/ call[c].step # "written" \/ sock[sl].lock # c
         \/ call'[c] = call[c]
  PROVE  SlotInv(sl)'
  <1> DEFINE s == sock[sl]
  <1>1. /\ SlotInv(sl) /\ alloc \in Nat /\ alloc' \in Nat
        /\ alloc' >= alloc /\ known \subseteq known' /\ s.id \in 0..MaxId
        /\ s.lock \in Caller \cup {NoOne} /\ Recounted(s, sock'[sl])
    BY SocketFields DEF StateInv, TypeOK, Works, Recounted
  <1>2. s.lock # NoOne => call'[s.lock] = call[s.lock]
    BY <1>1 DEF SlotInv, Works
  <1> QED
    BY <1>1, <1>2 DEF SlotInv, Live, Empty, SlotOf, Recounted

(* Request q, behind r in the pipe. *)
Behind(r, q) ==
  /\ q.id = r.id => ~IsOpen(q)
  /\ IsSend(r) /\ IsSend(q) /\ sends'[q.msg].by = sends'[r.msg].by
     => r.msg < q.msg

LEMMA OtherRequest ==
  ASSUME BoundAssumption, TypeOK, StateInv, NEW c \in Caller, Works(c),
         NEW i \in DOMAIN pipe, i \in DOMAIN pipe', pipe'[i] = pipe[i],
         \A j \in DOMAIN pipe' :
           \/ j \in DOMAIN pipe /\ pipe'[j] = pipe[j]
           \/ j > i /\ Behind(pipe[i], pipe'[j]),
         IsOpen(pipe[i]) =>
           LET s == sock[SlotOf(pipe[i].id)]
               t == sock'[SlotOf(pipe[i].id)] IN
           /\ t.type = s.type /\ t.id = s.id /\ t.tcp = s.tcp
           /\ wire'[pipe[i].id] = wire[pipe[i].id],
         \A d \in Caller : CarriesIn(call', d) =>
           \/ CarriesIn(call, d) /\ call'[d].msg = call[d].msg
           \/ call'[d].msg = Len(sends) + 1
  PROVE  PipeInv(i)'
  <1> DEFINE r == pipe[i]
  <1>1. /\ PipeInv(i) /\ pipe'[i] = r /\ told' = told /\ SendsKept
        /\ known \subseteq known' /\ Len(sends) \in Nat
    <2>1. PipeInv(i)
      BY DEF StateInv
    <2>2. Len(sends) \in Nat
      BY DEF TypeOK
    <2> QED
      BY <2>1, <2>2 DEF Works
  <1>2. ASSUME IsOpen(r)
        PROVE  /\ sock'[SlotOf(r.id)].type = "RESERVE"
               /\ sock'[SlotOf(r.id)].id = r.id /\ ~sock'[SlotOf(r.id)].tcp
               /\ told[r.id] = <<>> /\ wire'[r.id] = <<>>
               /\ \A j \in DOMAIN pipe' : pipe'[j].id = r.id /\ j # i =>
                    j > i /\ ~IsOpen(pipe'[j])
    <2>1. /\ sock[SlotOf(r.id)].type = "RESERVE"
          /\ sock[SlotOf(r.id)].id = r.id /\ ~sock[SlotOf(r.id)].tcp
          /\ told[r.id] = <<>> /\ wire[r.id] = <<>>
          /\ \A j \in DOMAIN pipe : pipe[j].id = r.id /\ j # i =>
               j > i /\ ~IsOpen(pipe[j])
      BY <1>1, <1>2 DEF PipeInv
    <2> QED
      BY <1>1, <1>2, <2>1 DEF Behind
  <1>3. ASSUME IsSend(r)
        PROVE  /\ Has(told[r.id], "open") /\ r.msg \in 1..Len(sends')
               /\ sends'[r.msg].to = r.id
               /\ sends'[r.msg].low <=> r.cmd = "send_low"
               /\ \A j \in DOMAIN pipe' :
                    /\ j > i /\ IsSend(pipe'[j])
                    /\ sends'[pipe'[j].msg].by = sends'[r.msg].by
                    => r.msg < pipe'[j].msg
               /\ \A d \in Caller : CarriesIn(call', d) => call'[d].msg # r.msg
    <2>1. /\ Has(told[r.id], "open") /\ r.msg \in 1..Len(sends)
          /\ sends[r.msg].to = r.id
          /\ sends[r.msg].low <=> r.cmd = "send_low"
          /\ \A j \in DOMAIN pipe :
               /\ j > i /\ IsSend(pipe[j])
               /\ sends[pipe[j].msg].by = sends[r.msg].by
               => r.msg < pipe[j].msg
          /\ \A d \in Caller : Carries(d) => call[d].msg # r.msg
      BY <1>1, <1>3 DEF PipeInv
    <2>2. r.msg \in 1..Len(sends') /\ sends'[r.msg] = sends[r.msg]
      BY <1>1, <2>1 DEF SendsKept
    <2>3. ASSUME NEW j \in DOMAIN pipe', j > i, IsSend(pipe'[j]),
                 sends'[pipe'[j].msg].by = sends'[r.msg].by
          PROVE  r.msg < pipe'[j].msg
      <3>1. CASE j \in DOMAIN pipe /\ pipe'[j] = pipe[j]
        <4>1. pipe[j].msg \in 1..Len(sends)
          BY <2>3, <3>1 DEF StateInv, PipeInv
        <4>2. sends'[pipe[j].msg] = sends[pipe[j].msg]
          BY <1>1, <4>1 DEF SendsKept
        <4> QED
          BY <2>1, <2>2, <2>3, <3>1, <4>2
      <3>2. CASE ~(j \in DOMAIN pipe /\ pipe'[j] = pipe[j])
        BY <1>3, <2>3, <3>2 DEF Behind
      <3> QED
        BY <3>1, <3>2
    <2>4. \A d \in Caller : CarriesIn(call', d) => call'[d].msg # r.msg
      <3>1. r.msg # Len(sends) + 1
        BY <1>1, <2>1
      <3> QED
        BY <2>1, <3>1, CarriesSame
    <2> QED
      BY <2>1, <2>2, <2>3, <2>4
  <1>4. \A d : Carries(d)' <=> CarriesIn(call', d)
    BY DEF Carries, CarriesIn, IsSend
  <1>5. r.id \in known'
    BY <1>1 DEF PipeInv
  <1> QED
    BY <1>1, <1>2, <1>3, <1>4, <1>5 DEF PipeInv, SlotOf, IsOpen, IsSend

(* No socket is told anything, and none of those there are is changed. *)
LEMMA ToldWork ==
  ASSUME ToldInv, told' = told, known \subseteq known',
         \A sl \in Slot : sock'[sl].type \notin {"INVALID", "RESERVE"} =>
           /\ Live(sl) /\ sock'[sl].type = sock[sl].type
           /\ sock'[sl].id = sock[sl].id,
         \A id \in known' :
           \/ /\ id \in known
              /\ \/ sock'[SlotOf(id)].id # id
                 \/ sock'[SlotOf(id)].type = "INVALID"
                 \/ sock'[SlotOf(id)].type = "RESERVE" /\ ~Opening(id)'
                 => \/ Ended(told[id])
                    \/ sock[SlotOf(id)].id # id
                    \/ sock[SlotOf(id)].type = "INVALID"
                    \/ sock[SlotOf(id)].type = "RESERVE" /\ ~Opening(id)
           \/ /\ told[id] = <<>> /\ sock'[SlotOf(id)].id = id
              /\ sock'[SlotOf(id)].type = "RESERVE" /\ Opening(id)'
  PROVE  ToldInv'
  <1>1. ASSUME NEW id \in known'
        PROVE  /\ CloseLast(told[id])
               /\ \/ sock'[SlotOf(id)].id # id
                  \/ sock'[SlotOf(id)].type = "INVALID"
                  \/ sock'[SlotOf(id)].type = "RESERVE" /\ ~Opening(id)'
                  => Ended(told[id])
    <2>1. CASE id \in known
      <3>1. CloseLast(told[id])
        BY <2>1 DEF ToldInv
      <3>2. \/ sock[SlotOf(id)].id # id
            \/ sock[SlotOf(id)].type = "INVALID"
            \/ sock[SlotOf(id)].type = "RESERVE" /\ ~Opening(id)
            => Ended(told[id])
        BY <2>1 DEF ToldInv
      <3> QED
        BY <2>1, <3>1, <3>2
    <2>2. CASE id \notin known
      BY <2>2 DEF CloseLast
    <2> QED
      BY <2>1, <2>2
  <1>2. ASSUME NEW sl \in Slot, Live(sl)'
        PROVE  /\ Has(told[sock'[sl].id], "close")
                    <=> sock'[sl].type = "HALFCLOSE_READ"
               /\ sock'[sl].type = "CONNECTING" =>
                    ~Has(told[sock'[sl].id], "open")
    BY <1>2 DEF Live, ToldInv
  <1> QED
    BY <1>1, <1>2 DEF ToldInv, SlotOf

LEMMA CloseWork ==
  ASSUME TypeOK, CloseInv, ctl' = ctl, fc' = fc,
         \A sl \in Slot : Live(sl) =>
           /\ sock'[sl].type = sock[sl].type
           /\ sock'[sl].high = sock[sl].high /\ sock'[sl].low = sock[sl].low
  PROVE  CloseInv'
  <1>1. fc.slot \in Slot
    BY DEF TypeOK
  <1> QED
    BY <1>1 DEF CloseInv, Live, Empty

Posts(k, c) == k[c].step = "post" /\ IsSend(k[c])

LEMMA PostingSame ==
  ASSUME NEW c \in Caller, \A d \in Caller \ {c} : call'[d] = call[d],
         ~Posts(call, c), ~Posts(call', c)
  PROVE  \A id : PostingIn(call', id) = PostingIn(call, id)
BY DEF PostingIn, Posts

LEMMA CountWork ==
  ASSUME TypeOK, CallerAssumption, CountInv,
         \A id : PostingIn(call', id) = PostingIn(call, id),
         \/ pipe' = pipe
         \/ \E r \in Request : ~IsSend(r) /\ pipe' = Append(pipe, r),
         \A sl \in Slot : sock'[sl].tcp =>
           /\ sock[sl].tcp /\ sock'[sl].id = sock[sl].id
           /\ sock'[sl].sending = sock[sl].sending
  PROVE  CountInv'
  <1>1. ASSUME NEW sl \in Slot, sock'[sl].tcp
        PROVE  sock'[sl].sending =
                 Cardinality(PostedIn(pipe', sock'[sl].id))
                 + Cardinality(PostingIn(call', sock'[sl].id))
    <2> DEFINE id == sock[sl].id
    <2>1. /\ sock[sl].tcp /\ sock'[sl].id = id
          /\ sock'[sl].sending = sock[sl].sending
      BY <1>1
    <2>2. sock[sl].sending = Cardinality(Posted(id)) + Cardinality(Posting(id))
      BY <2>1 DEF CountInv
    <2>3. PostingIn(call', id) = Posting(id)
      BY PostedPrimed
    <2>4. Cardinality(PostedIn(pipe', id)) = Cardinality(Posted(id))
      BY PostedAppend, PostedPrimed
    <2> HIDE DEF id
    <2> QED
      BY <2>1, <2>2, <2>3, <2>4
  <1> QED
    BY <1>1, CountPrimed

(* The data of sockets when a worker neither writes nor leaves a rest. *)
LEMMA DataWork ==
  ASSUME BoundAssumption, TypeOK, StateInv, DataInv, DataKept,
         wire' = wire, cut' = cut, NEW c \in Caller,
         call[c].step # "written", \A d \in Caller \ {c} : call'[d] = call[d],
         \A sl \in Slot : sock'[sl].type \notin {"INVALID", "RESERVE"} =>
           /\ Live(sl) /\ sock'[sl].id = sock[sl].id
           /\ sock'[sl].lock = sock[sl].lock /\ sock'[sl].dw = sock[sl].dw
           /\ sock'[sl].high = sock[sl].high /\ sock'[sl].low = sock[sl].low
  PROVE  DataInv'
  <1>1. ASSUME NEW sl \in Slot,
               sock'[sl].type \notin {"INVALID", "RESERVE"}
        PROVE  /\ Live(sl) /\ sock'[sl].id = sock[sl].id
               /\ KeptIn(call', sock'[sl]) = KeptIn(call, sock[sl])
               /\ sock'[sl].high = sock[sl].high
               /\ sock'[sl].low = sock[sl].low
    <2>1. sock[sl].lock # NoOne => call'[sock[sl].lock] = call[sock[sl].lock]
      <3>1. SlotInv(sl) /\ sock[sl].lock \in Caller \cup {NoOne}
        BY SocketFields DEF StateInv
      <3> QED
        BY <3>1 DEF SlotInv
    <2> QED
      BY <1>1, <2>1 DEF KeptIn
  <1> QED
    BY <1>1, DataFrame

(* reserve_id ends: the slot gets its id. *)
LEMMA FillStep ==
  ASSUME BoundAssumption, CallerAssumption, IInv, NEW c \in Caller, Fill(c)
  PROVE  IInv'
  <1> DEFINE k == call[c]
             id == k.id
             sl == SlotOf(id)
             s == sock[sl]
             t == [s EXCEPT !.id = id, !.tcp = FALSE]
  <1>1. /\ ~failed /\ k.step = "fill"
        /\ sock' = [sock EXCEPT ![sl].id = id, ![sl].tcp = FALSE]
        /\ call' = [call EXCEPT ![c].step = "post"]
        /\ UNCHANGED <<alloc, pipe, ctl, ev, fc, wire, peer, told, known, cut,
                       sends, calls, failed>>
    BY DEF Fill, Step, Goto
  <1>2. /\ TypeOK /\ WireSent /\ WireWhole /\ SendOrder
        /\ StateInv /\ CountInv /\ ToldInv /\ CloseInv /\ DataInv
    BY <1>1, Parts
  <1>3. CallInv(c) /\ IdInv /\ k \in Call /\ id \in 0..MaxId /\ k.cmd \in Cmd
    BY <1>2, CallFields DEF StateInv
  <1>4. /\ Opens(c) /\ IsOpen(k) /\ id \in 1..alloc /\ id \notin known
        /\ s.type = "RESERVE" /\ s.id < id
        /\ \A d \in Caller :
             Opens(d) /\ SlotOf(call[d].id) = sl => d = c
        /\ \A i \in DOMAIN pipe : IsOpen(pipe[i]) => SlotOf(pipe[i].id) # sl
    BY <1>1, <1>3 DEF CallInv, Opens
  <1>5. /\ id \in Id /\ id \in Nat /\ sl \in Slot /\ alloc \in Nat
        /\ known \subseteq Id
    <2>1. alloc \in 0..MaxId /\ known \subseteq Id
      BY <1>2 DEF TypeOK
    <2> HIDE DEF sl, id
    <2>2. id \in Id /\ id \in Nat /\ alloc \in Nat
      BY <1>4, <2>1 DEF Id, BoundAssumption
    <2> QED
      BY <2>1, <2>2, SlotIsSlot DEF sl
  <1>6. /\ sock' \in [Slot -> Socket] /\ sock'[sl] = t
        /\ \A x \in Slot \ {sl} : sock'[x] = sock[x]
        /\ t \in Socket /\ t.type = "RESERVE" /\ t.id = id /\ ~t.tcp
        /\ t.high = s.high /\ t.low = s.low /\ t.dw = s.dw /\ t.lock = s.lock
    <2>1. s \in Socket /\ sock \in [Slot -> Socket]
      BY <1>2, <1>5, SocketFields DEF TypeOK
    <2> HIDE DEF sl, id
    <2>2. t \in Socket
      BY <1>3, <2>1 DEF Socket
    <2>3. sock' = [sock EXCEPT ![sl] = t]
      BY <1>1, <1>5, <2>1
    <2> QED
      BY <1>4, <1>5, <2>1, <2>2, <2>3 DEF Socket
  <1>7. /\ call' \in [Caller -> Call]
        /\ call'[c] = [k EXCEPT !.step = "post"]
        /\ \A d \in Caller \ {c} : call'[d] = call[d]
    BY <1>1, <1>2, <1>3 DEF TypeOK, Call
  <1>8. /\ call'[c].step = "post" /\ call'[c].cmd = k.cmd
        /\ call'[c].id = id /\ call'[c].msg = k.msg /\ IsOpen(call'[c])
        /\ ~IsSend(call'[c])
    BY <1>3, <1>4, <1>7 DEF Call, IsOpen, IsSend
  <1>9. TypeOK'
    BY <1>1, <1>2, <1>6, <1>7, WorkerTypes DEF TypeOK
  <1>10. Works(c) /\ DataKept
    <2>1. SendsKept /\ PostsKept
      BY <1>1, <1>2 DEF SendsKept, PostsKept, TypeOK
    <2>2. CarriesKept
      BY <1>7, <1>8 DEF CarriesKept, CarriesIn
    <2>3. \A m \in 1..Len(sends') : ~(m > Len(sends))
      BY <1>1, <1>2 DEF TypeOK
    <2> QED
      BY <1>1, <1>5, <1>7, <2>1, <2>2, <2>3 DEF Works, DataKept
  <1>11. SlotInv(sl)
    BY <1>2, <1>5 DEF StateInv
  <1>12. \A x \in Slot : Live(x) => x # sl
    BY <1>4 DEF Live
  <1>13. StateInv'
    <2>1. IdInv'
      <3>1. \A x \in known : sock'[SlotOf(x)].id >= x
        <4> SUFFICES ASSUME NEW x \in known
                     PROVE  sock'[SlotOf(x)].id >= x
          OBVIOUS
        <4>1. /\ SlotOf(x) \in Slot /\ sock[SlotOf(x)].id >= x /\ x \in Nat
              /\ sock[SlotOf(x)].id \in Nat
          BY <1>2, <1>3, <1>5, SlotIsSlot, ZeroIsSlot, SocketFields DEF IdInv
        <4>2. CASE SlotOf(x) = sl
          <5> HIDE DEF id, sl, t
          <5> QED
            BY <1>4, <1>5, <1>6, <4>1, <4>2
        <4>3. CASE SlotOf(x) # sl
          BY <1>6, <4>1, <4>3
        <4> QED
          BY <4>2, <4>3
      <3> QED
        BY <1>1, <1>3, <3>1 DEF IdInv, SlotOf
    <2>2. ASSUME NEW x \in Slot, x = sl
          PROVE  SlotInv(x)'
      <3>1. /\ Empty(s) /\ s.dw = <<>> /\ s.lock = NoOne
        BY <1>4, <1>11 DEF SlotInv, Live
      <3>2. id \in 0..alloc' /\ SlotOf(id) = x
        BY <1>1, <1>4, <1>5, <2>2
      <3>3. /\ sock'[x].id = id /\ ~sock'[x].tcp /\ sock'[x].type = "RESERVE"
            /\ sock'[x].high = <<>> /\ sock'[x].low = <<>>
            /\ sock'[x].dw = <<>> /\ sock'[x].lock = NoOne
        BY <1>6, <2>2, <3>1 DEF Empty
      <3> HIDE DEF id
      <3> QED
        BY <3>2, <3>3 DEF SlotInv, Live, Empty, SlotOf
    <2>3. \A x \in Slot \ {sl} : SlotInv(x)'
      BY <1>1, <1>2, <1>6, <1>10, OtherSlot
    <2>4. CallInv(c)'
      <3>1. ASSUME NEW d \in Caller, OpensIn(call', d),
                   SlotOf(call'[d].id) = sl
            PROVE  d = c
        BY <1>4, <1>7, <3>1 DEF OpensIn, Opens
      <3>2. \A d : Opens(d)' <=> OpensIn(call', d)
        BY DEF Opens, OpensIn, IsOpen
      <3>3. ~Carries(c)'
        BY <1>8 DEF Carries, IsSend
      <3>4. /\ call'[c].id \in (1..alloc') \ known'
            /\ sock'[SlotOf(call'[c].id)].type = "RESERVE"
            /\ sock'[SlotOf(call'[c].id)].id = call'[c].id
            /\ ~sock'[SlotOf(call'[c].id)].tcp
        BY <1>1, <1>4, <1>6, <1>8
      <3>5. \A d \in Caller :
              OpensIn(call', d) /\ SlotOf(call'[d].id) = SlotOf(call'[c].id)
              => d = c
        BY <1>8, <3>1
      <3> QED
        BY <1>8, <3>2, <3>3, <3>4, <3>5
        DEF CallInv, SlotOf, IsOpen, IsSend
    <2>5. ASSUME NEW d \in Caller \ {c}
          PROVE  CallInv(d)'
      <3>1. CallInv(d) /\ call[d].id \in Nat /\ SlotOf(call[d].id) \in Slot
        BY <1>2, CallFields, SlotIsSlot DEF StateInv, BoundAssumption
      <3>2. Opens(d) \/ call[d].step = "written" => SlotOf(call[d].id) # sl
        <4>1. s.lock # d
          BY <1>4, <1>11 DEF SlotInv, Live, CallerAssumption
        <4> QED
          BY <1>4, <3>1, <4>1 DEF CallInv
      <3>3. Opens(d) => call[d].id \notin known
        BY <3>1 DEF CallInv
      <3>4. Opens(d) \/ call[d].step = "written" =>
              sock'[SlotOf(call[d].id)] = sock[SlotOf(call[d].id)]
        BY <1>6, <3>1, <3>2
      <3>5. call[d].step = "fill" => Opens(d)
        BY DEF Opens
      <3>6. SlotOf(call'[c].id) = sl
        BY <1>8
      <3> HIDE DEF sl
      <3>7. Steady(c, d)
        BY <1>1, <3>2, <3>3, <3>4, <3>5, <3>6 DEF Steady
      <3> QED
        BY <1>2, <1>10, <3>7, OtherCall
    <2>6. ASSUME NEW i \in DOMAIN pipe
          PROVE  PipeInv(i)'
      <3>1. SlotOf(pipe[i].id) \in Slot
        BY <1>2, PipeFields, SlotIsSlot, ZeroIsSlot
      <3>2. IsOpen(pipe[i]) => SlotOf(pipe[i].id) # sl
        BY <1>4
      <3>3. \A d \in Caller : CarriesIn(call', d) =>
              CarriesIn(call, d) /\ call'[d].msg = call[d].msg
        BY <1>7, <1>8 DEF CarriesIn
      <3> QED
        BY <1>1, <1>2, <1>6, <1>10, <3>1, <3>2, <3>3, OtherRequest
    <2> QED
      <3>1. \A x \in Slot : SlotInv(x)'
        BY <2>2, <2>3
      <3>2. \A d \in Caller : CallInv(d)'
        BY <2>4, <2>5
      <3> QED
        BY <1>1, <2>1, <2>6, <3>1, <3>2 DEF StateInv
  <1>14. ToldInv'
    <2>1. ASSUME NEW x \in known
          PROVE  \/ sock'[SlotOf(x)].id # x
                 \/ sock'[SlotOf(x)].type = "INVALID"
                 \/ sock'[SlotOf(x)].type = "RESERVE" /\ ~Opening(x)'
                 => \/ sock[SlotOf(x)].id # x
                    \/ sock[SlotOf(x)].type = "INVALID"
                    \/ sock[SlotOf(x)].type = "RESERVE" /\ ~Opening(x)
      <3>1. SlotOf(x) \in Slot
        BY <1>5, SlotIsSlot, ZeroIsSlot
      <3>2. Opening(x)' <=> Opening(x)
        BY <1>1 DEF Opening, IsOpen
      <3>3. SlotOf(x) = sl => ~Opening(x)
        BY <1>4 DEF Opening
      <3> QED
        BY <1>4, <1>6, <3>1, <3>2, <3>3
    <2>2. \A x \in Slot : sock'[x].type \notin {"INVALID", "RESERVE"} =>
            Live(x) /\ sock'[x].type = sock[x].type
            /\ sock'[x].id = sock[x].id
      BY <1>6 DEF Live
    <2> QED
      BY <1>1, <1>2, <2>1, <2>2, ToldWork
  <1>15. CountInv'
    <2>1. \A x : PostingIn(call', x) = PostingIn(call, x)
      BY <1>1, <1>7, <1>8, PostingSame DEF Posts
    <2> QED
      BY <1>1, <1>2, <1>6, <2>1, CountWork
  <1>16. CloseInv'
    BY <1>1, <1>2, <1>6, <1>12, CloseWork
  <1>17. DataInv'
    <2>1. \A x \in Slot : sock'[x].type \notin {"INVALID", "RESERVE"} =>
            Live(x) /\ sock'[x] = sock[x]
      BY <1>6 DEF Live
    <2> QED
      BY <1>1, <1>2, <1>7, <1>10, <2>1, DataWork
  <1>18. WireSent' /\ WireWhole' /\ SendOrder'
    BY <1>1, WireSame
  <1> QED
    BY <1>9, <1>13, <1>14, <1>15, <1>16, <1>17, <1>18, Whole9

(* reserve_id begins: a free slot is taken, or none is found. *)
LEMMA ReserveStep ==
  ASSUME BoundAssumption, CallerAssumption, IInv, NEW c \in Caller,
         NEW cmd \in {"open", "listen"}, Reserve(c, cmd)
  PROVE  IInv'
  <1>1. /\ ~failed /\ call[c].step = "idle" /\ calls < MaxCall /\ MayReserve
        /\ calls' = calls + 1
        /\ UNCHANGED <<pipe, ctl, ev, fc, wire, peer, told, known, cut, sends,
                       failed>>
    BY DEF Reserve, Idle
  <1>2. /\ TypeOK /\ WireSent /\ WireWhole /\ SendOrder
        /\ StateInv /\ CountInv /\ ToldInv /\ CloseInv /\ DataInv
    BY <1>1, Parts
  <1>3. /\ calls' \in 0..MaxCall /\ alloc \in Nat /\ alloc \in 0..MaxId
        /\ known \subseteq Id
    BY <1>1, <1>2 DEF TypeOK, BoundAssumption
  <1>4. CASE FreeId = 0
    <2>1. alloc' = alloc + NSlot /\ UNCHANGED <<sock, call>>
      BY <1>4 DEF Reserve
    <2>2. alloc' \in 0..MaxId /\ alloc' \in Nat /\ alloc' >= alloc
      BY <1>1, <1>3, <2>1 DEF MayReserve, BoundAssumption
    <2>3. TypeOK'
      BY <1>1, <1>2, <1>3, <2>1, <2>2, WorkerTypes DEF TypeOK
    <2>4. CloseInv'
      BY <1>1, <1>2, <2>1, CloseWork
    <2> QED
      BY <1>1, <1>2, <2>1, <2>2, <2>3, <2>4, Stayed
  <1>5. CASE FreeId # 0
    <2> DEFINE id == FreeId
               sl == SlotOf(id)
               s == sock[sl]
               t == [s EXCEPT !.type = "RESERVE"]
               k == [NoCall EXCEPT !.step = "fill", !.cmd = cmd, !.id = id]
    <2>1. /\ alloc' = id /\ sock' = [sock EXCEPT ![sl].type = "RESERVE"]
          /\ call' = [call EXCEPT ![c] = k]
      BY <1>5 DEF Reserve
    <2>2. /\ id \in Id /\ id > alloc /\ id \in alloc..MaxId /\ sl \in Slot
          /\ s.type = "INVALID" /\ id \in Nat /\ id \in 0..MaxId
      BY <1>1, <1>2, <1>3, <1>5, FreeIdIsNew DEF Id, BoundAssumption
    <2> HIDE DEF id, sl
    <2>3. /\ k \in Call /\ k.step = "fill" /\ k.cmd = cmd /\ k.id = id
          /\ IsOpen(k) /\ ~IsSend(k)
      <3>1. cmd \in Cmd
        BY DEF Cmd
      <3>2. k \in Call /\ k.step = "fill" /\ k.cmd = cmd /\ k.id = id
        BY <2>2, <3>1, NoCallType DEF Call
      <3> HIDE DEF k
      <3> QED
        BY <3>2 DEF IsOpen, IsSend
    <2> HIDE DEF k
    <2>4. /\ sock' \in [Slot -> Socket] /\ sock'[sl] = t
          /\ \A x \in Slot \ {sl} : sock'[x] = sock[x]
          /\ t \in Socket /\ t.type = "RESERVE" /\ t.id = s.id /\ t.tcp = s.tcp
          /\ t.high = s.high /\ t.low = s.low /\ t.dw = s.dw
          /\ t.lock = s.lock /\ t.tag = s.tag /\ t.sending = s.sending
      <3>1. s \in Socket /\ sock \in [Slot -> Socket]
        BY <1>2, <2>2, SocketFields DEF TypeOK
      <3>2. t \in Socket
        BY <3>1 DEF Socket, Type
      <3>3. sock' = [sock EXCEPT ![sl] = t]
        BY <2>1, <2>2, <3>1
      <3> QED
        BY <2>2, <3>1, <3>2, <3>3 DEF Socket
    <2>5. /\ call' \in [Caller -> Call] /\ call'[c] = k
          /\ \A d \in Caller \ {c} : call'[d] = call[d]
      BY <1>2, <2>1, <2>3 DEF TypeOK
    <2>6. TypeOK'
      BY <1>1, <1>2, <1>3, <2>1, <2>2, <2>4, <2>5, WorkerTypes DEF TypeOK
    <2>7. Works(c) /\ DataKept
      <3>1. SendsKept /\ PostsKept
        BY <1>1, <1>2 DEF SendsKept, PostsKept, TypeOK
      <3>2. CarriesKept
        BY <2>3, <2>5 DEF CarriesKept, CarriesIn
      <3>3. \A m \in 1..Len(sends') : ~(m > Len(sends))
        BY <1>1, <1>2 DEF TypeOK
      <3>4. alloc' \in Nat /\ alloc' >= alloc
        BY <1>3, <2>1, <2>2
      <3> QED
        BY <1>1, <2>5, <3>1, <3>2, <3>3, <3>4 DEF Works, DataKept
    <2>8. SlotInv(sl) /\ s.id \in 0..alloc
      BY <1>2, <2>2 DEF StateInv, SlotInv
    <2>9. \A x \in Slot : Live(x) => x # sl
      BY <2>2 DEF Live
    <2>10. StateInv'
      <3>1. IdInv'
        <4>1. known \subseteq 1..alloc'
          BY <1>2, <1>3, <2>1, <2>2 DEF StateInv, IdInv
        <4>2. \A x \in known : sock'[SlotOf(x)].id >= x
          <5> SUFFICES ASSUME NEW x \in known
                       PROVE  sock'[SlotOf(x)].id >= x
            OBVIOUS
          <5>1. SlotOf(x) \in Slot /\ sock[SlotOf(x)].id >= x
            BY <1>2, <1>3, SlotIsSlot, ZeroIsSlot DEF StateInv, IdInv
          <5>2. sock'[SlotOf(x)].id = sock[SlotOf(x)].id
            BY <2>4, <5>1
          <5> QED
            BY <5>1, <5>2
        <4>3. \A x \in Id \ known : told[x] = <<>> /\ wire[x] = <<>>
          BY <1>2 DEF StateInv, IdInv
        <4> QED
          BY <1>1, <4>1, <4>2, <4>3 DEF IdInv, SlotOf
      <3>2. ASSUME NEW x \in Slot, x = sl
            PROVE  SlotInv(x)'
        <4>1. /\ Empty(s) /\ s.dw = <<>> /\ s.lock = NoOne
              /\ s.id # 0 => SlotOf(s.id) = sl
              /\ s.tcp => s.tag = s.id /\ s.id # 0
          BY <2>2, <2>8 DEF SlotInv, Live
        <4>2. s.id \in 0..alloc'
          BY <1>3, <2>1, <2>2, <2>8
        <4>3. /\ sock'[x].id = s.id /\ sock'[x].tcp = s.tcp
              /\ sock'[x].type = "RESERVE" /\ sock'[x].tag = s.tag
              /\ sock'[x].high = <<>> /\ sock'[x].low = <<>>
              /\ sock'[x].dw = <<>> /\ sock'[x].lock = NoOne
          BY <2>4, <3>2, <4>1 DEF Empty
        <4> HIDE DEF s, t
        <4> QED
          BY <3>2, <4>1, <4>2, <4>3 DEF SlotInv, Live, Empty, SlotOf
      <3>3. \A x \in Slot \ {sl} : SlotInv(x)'
        BY <1>1, <1>2, <2>4, <2>7, OtherSlot
      <3>4. ASSUME NEW d \in Caller, Opens(d)
            PROVE  SlotOf(call[d].id) # sl
        BY <1>2, <2>2, <3>4 DEF StateInv, CallInv
      <3>5. CallInv(c)'
        <4>1. ASSUME NEW d \in Caller, OpensIn(call', d),
                     SlotOf(call'[d].id) = SlotOf(call'[c].id)
              PROVE  d = c
          BY <2>3, <2>5, <3>4, <4>1 DEF OpensIn, Opens, sl
        <4>2. \A d : Opens(d)' <=> OpensIn(call', d)
          BY DEF Opens, OpensIn, IsOpen
        <4>3. ~Carries(c)'
          BY <2>3, <2>5 DEF Carries, IsSend
        <4>4. /\ call'[c].id \in (1..alloc') \ known'
              /\ sock'[SlotOf(call'[c].id)].type = "RESERVE"
              /\ sock'[SlotOf(call'[c].id)].id < call'[c].id
          <5>1. id \notin known /\ id \in 1..alloc' /\ s.id < id
            BY <1>2, <1>3, <2>1, <2>2, <2>8 DEF StateInv, IdInv
          <5>2. SlotOf(call'[c].id) = sl /\ call'[c].id = id
            BY <2>3, <2>5 DEF sl
          <5> QED
            BY <1>1, <2>4, <5>1, <5>2
        <4>5. ASSUME NEW i \in DOMAIN pipe', IsOpen(pipe'[i])
              PROVE  SlotOf(pipe'[i].id) # SlotOf(call'[c].id)
          <5>1. PipeInv(i) /\ pipe'[i] = pipe[i]
            BY <1>1, <1>2, <4>5 DEF StateInv
          <5> QED
            BY <2>2, <2>3, <2>5, <4>5, <5>1 DEF PipeInv, sl
        <4> QED
          BY <2>3, <2>5, <4>1, <4>2, <4>3, <4>4, <4>5
          DEF CallInv, SlotOf, IsOpen, IsSend
      <3>6. ASSUME NEW d \in Caller \ {c}
            PROVE  CallInv(d)'
        <4>1. CallInv(d) /\ call[d].id \in Nat /\ SlotOf(call[d].id) \in Slot
          BY <1>2, CallFields, SlotIsSlot DEF StateInv, BoundAssumption
        <4>2. call[d].step = "written" => SlotOf(call[d].id) # sl
          <5>1. s.lock # d
            BY <2>2, <2>8 DEF SlotInv, Live, CallerAssumption
          <5> QED
            BY <4>1, <5>1 DEF CallInv
        <4>3. Opens(d) => call[d].id \notin known
          BY <4>1 DEF CallInv
        <4>4. Opens(d) \/ call[d].step = "written" =>
                sock'[SlotOf(call[d].id)] = sock[SlotOf(call[d].id)]
          BY <2>4, <3>4, <4>1, <4>2
        <4>5. SlotOf(call'[c].id) = sl
          BY <2>3, <2>5 DEF sl
        <4>6. Steady(c, d)
          BY <1>1, <3>4, <4>2, <4>3, <4>4, <4>5 DEF Steady
        <4> QED
          BY <1>2, <2>7, <4>6, OtherCall
      <3>7. ASSUME NEW i \in DOMAIN pipe
            PROVE  PipeInv(i)'
        <4>1. SlotOf(pipe[i].id) \in Slot /\ PipeInv(i)
          BY <1>2, PipeFields, SlotIsSlot, ZeroIsSlot DEF StateInv
        <4>2. IsOpen(pipe[i]) => SlotOf(pipe[i].id) # sl
          BY <2>2, <4>1 DEF PipeInv
        <4>3. \A d \in Caller : CarriesIn(call', d) =>
                CarriesIn(call, d) /\ call'[d].msg = call[d].msg
          BY <2>3, <2>5 DEF CarriesIn
        <4> QED
          BY <1>1, <1>2, <2>4, <2>7, <4>1, <4>2, <4>3, OtherRequest
      <3>8. \A x \in Slot : SlotInv(x)'
        BY <3>2, <3>3
      <3>9. \A d \in Caller : CallInv(d)'
        BY <3>5, <3>6
      <3> QED
        BY <1>1, <3>1, <3>7, <3>8, <3>9 DEF StateInv
    <2>11. ToldInv'
      <3>1. ASSUME NEW x \in known
            PROVE  \/ sock'[SlotOf(x)].id # x
                   \/ sock'[SlotOf(x)].type = "INVALID"
                   \/ sock'[SlotOf(x)].type = "RESERVE" /\ ~Opening(x)'
                   => \/ sock[SlotOf(x)].id # x
                      \/ sock[SlotOf(x)].type = "INVALID"
                      \/ sock[SlotOf(x)].type = "RESERVE" /\ ~Opening(x)
        <4>1. SlotOf(x) \in Slot
          BY <1>3, SlotIsSlot, ZeroIsSlot
        <4>2. Opening(x)' <=> Opening(x)
          BY <1>1 DEF Opening, IsOpen
        <4> QED
          BY <2>2, <2>4, <4>1, <4>2
      <3>2. \A x \in Slot : sock'[x].type \notin {"INVALID", "RESERVE"} =>
              Live(x) /\ sock'[x].type = sock[x].type
              /\ sock'[x].id = sock[x].id
        BY <2>4 DEF Live
      <3> QED
        BY <1>1, <1>2, <3>1, <3>2, ToldWork
    <2>12. CountInv'
      <3>1. \A x : PostingIn(call', x) = PostingIn(call, x)
        BY <1>1, <2>3, <2>5, PostingSame DEF Posts
      <3> QED
        BY <1>1, <1>2, <2>4, <3>1, CountWork
    <2>13. CloseInv'
      BY <1>1, <1>2, <2>4, <2>9, CloseWork
    <2>14. DataInv'
      <3>1. \A x \in Slot : sock'[x].type \notin {"INVALID", "RESERVE"} =>
              Live(x) /\ sock'[x] = sock[x]
        BY <2>4 DEF Live
      <3> QED
        BY <1>1, <1>2, <2>5, <2>7, <3>1, DataWork
    <2>15. WireSent' /\ WireWhole' /\ SendOrder'
      BY <1>1, WireSame
    <2> QED
      BY <2>6, <2>10, <2>11, <2>12, <2>13, <2>14, <2>15, Whole9
  <1> QED
    BY <1>4, <1>5

(* A send that was on its way is written into the pipe. *)
LEMMA PostingLess ==
  ASSUME TypeOK, CallerAssumption, NEW c \in Caller, Posts(call, c),
         ~Posts(call', c), \A d \in Caller \ {c} : call'[d] = call[d], NEW id
  PROVE  Cardinality(PostingIn(call', id)) =
           IF call[c].id = id THEN Cardinality(Posting(id)) - 1
           ELSE Cardinality(Posting(id))
  <1>1. IsFiniteSet(Posting(id)) /\ Cardinality(Posting(id)) \in Nat
    BY SendsFinite
  <1>2. CASE call[c].id = id
    <2>1. c \in Posting(id) /\ PostingIn(call', id) = Posting(id) \ {c}
      BY <1>2 DEF Posts, Posting, PostingIn
    <2> QED
      BY <1>1, <1>2, <2>1, FS_RemoveElement
  <1>3. CASE call[c].id # id
    <2>1. PostingIn(call', id) = Posting(id)
      BY <1>3 DEF Posts, Posting, PostingIn
    <2> QED
      BY <1>3, <2>1
  <1> QED
    BY <1>2, <1>3

(* Worker c has written request r. *)
Requests(c, r) ==
  /\ pipe' = Append(pipe, r) /\ sock' = sock
  /\ UNCHANGED <<alloc, ctl, ev, fc, wire, peer, told, cut, sends, failed>>
  /\ \A d \in Caller \ {c} : call'[d] = call[d]
  /\ call[c].step # "written" /\ call'[c].step = "idle"
  /\ \/ /\ IsOpen(r) /\ ~IsSend(r) /\ known' = known \cup {r.id}
        /\ call[c].step = "post" /\ IsOpen(call[c]) /\ call[c].id = r.id
        /\ ~IsSend(call[c])
     \/ /\ ~IsOpen(r) /\ known' = known /\ r.id \in known
        /\ ~IsSend(r) /\ ~Posts(call, c)
     \/ /\ ~IsOpen(r) /\ known' = known /\ r.id \in known
        /\ IsSend(r) /\ Posts(call, c) /\ call[c].id = r.id
        /\ call[c].msg = r.msg /\ call[c].cmd = r.cmd

LEMMA Requested ==
  ASSUME BoundAssumption, CallerAssumption, IInv, ~failed,
         NEW c \in Caller, NEW r \in Request, Requests(c, r),
         call' \in [Caller -> Call], calls' \in 0..MaxCall
  PROVE  IInv'
  <1>1. /\ pipe' = Append(pipe, r) /\ sock' = sock
        /\ UNCHANGED <<alloc, ctl, ev, fc, wire, peer, told, cut, sends,
                       failed>>
        /\ \A d \in Caller \ {c} : call'[d] = call[d]
        /\ call[c].step # "written" /\ call'[c].step = "idle"
        /\ known \subseteq known'
    BY DEF Requests
  <1>2. /\ TypeOK /\ WireSent /\ WireWhole /\ SendOrder
        /\ StateInv /\ CountInv /\ ToldInv /\ CloseInv /\ DataInv
    BY Parts
  <1>3. /\ r.id \in Id /\ r.id \in Nat /\ SlotOf(r.id) \in Slot
        /\ known \subseteq Id /\ known' \subseteq Id /\ alloc \in Nat
        /\ Len(sends) \in Nat
    <2>1. r.id \in Id
      BY DEF Request
    <2>2. r.id \in Nat /\ SlotOf(r.id) \in Slot
      BY <2>1, SlotIsSlot, ZeroIsSlot
    <2> QED
      BY <1>2, <2>1, <2>2 DEF TypeOK, Requests
  <1>4. /\ pipe' \in Seq(Request)
        /\ \A i \in DOMAIN pipe :
             i \in DOMAIN pipe' /\ pipe'[i] = pipe[i] /\ i < Len(pipe) + 1
        /\ Len(pipe) + 1 \in DOMAIN pipe'
        /\ pipe'[Len(pipe) + 1] = r
        /\ \A i \in DOMAIN pipe' : i \in DOMAIN pipe \/ i = Len(pipe) + 1
    BY <1>1, <1>2, PipeAppend
  <1>5. TypeOK'
    BY <1>1, <1>2, <1>3, <1>4, WorkerTypes DEF TypeOK
  <1>6. /\ CallInv(c) /\ ~CarriesIn(call', c) /\ ~OpensIn(call', c)
        /\ ~Posts(call', c)
    BY <1>1, <1>2 DEF StateInv, CarriesIn, OpensIn, Posts
  <1>7. ASSUME IsOpen(r)
        PROVE  /\ ~IsSend(r) /\ known' = known \cup {r.id} /\ Opens(c)
               /\ call[c].id = r.id /\ r.id \in (1..alloc) \ known
               /\ sock[SlotOf(r.id)].type = "RESERVE"
               /\ sock[SlotOf(r.id)].id = r.id /\ ~sock[SlotOf(r.id)].tcp
               /\ \A d \in Caller :
                    Opens(d) /\ SlotOf(call[d].id) = SlotOf(r.id) => d = c
               /\ told[r.id] = <<>> /\ wire[r.id] = <<>>
    <2>1. /\ ~IsSend(r) /\ known' = known \cup {r.id} /\ call[c].id = r.id
          /\ call[c].step = "post" /\ IsOpen(call[c])
      BY <1>7 DEF Requests
    <2>2. Opens(c)
      BY <2>1 DEF Opens
    <2>3. /\ r.id \in (1..alloc) \ known
          /\ sock[SlotOf(r.id)].type = "RESERVE"
          /\ sock[SlotOf(r.id)].id = r.id /\ ~sock[SlotOf(r.id)].tcp
          /\ \A d \in Caller :
               Opens(d) /\ SlotOf(call[d].id) = SlotOf(r.id) => d = c
      BY <1>6, <2>1, <2>2 DEF CallInv
    <2>4. told[r.id] = <<>> /\ wire[r.id] = <<>>
      BY <1>2, <1>3, <2>3 DEF StateInv, IdInv
    <2> QED
      BY <2>1, <2>2, <2>3, <2>4
  <1>8. ASSUME ~IsOpen(r)
        PROVE  known' = known /\ r.id \in known
    BY <1>8 DEF Requests
  <1>9. ASSUME IsSend(r)
        PROVE  /\ ~IsOpen(r) /\ Posts(call, c) /\ Carries(c)
               /\ call[c].id = r.id /\ call[c].msg = r.msg
               /\ Has(told[r.id], "open") /\ r.msg \in 1..Len(sends)
               /\ sends[r.msg] =
                    [by |-> c, to |-> r.id, low |-> r.cmd = "send_low"]
               /\ \A m \in (r.msg + 1)..Len(sends) : sends[m].by # c
    <2>1. /\ ~IsOpen(r) /\ Posts(call, c) /\ call[c].id = r.id
          /\ call[c].msg = r.msg /\ call[c].cmd = r.cmd
      BY <1>9 DEF Requests
    <2>2. Carries(c)
      BY <2>1 DEF Posts, Carries
    <2> QED
      BY <1>6, <2>1, <2>2 DEF CallInv
  <1>10. Works(c) /\ DataKept
    <2>1. SendsKept
      BY <1>1, <1>3 DEF SendsKept
    <2>2. PostsKept
      BY <1>4, <1>9 DEF PostsKept, Posts
    <2>3. CarriesKept
      BY <1>1, <1>6 DEF CarriesKept, CarriesIn
    <2>4. \A m \in 1..Len(sends') : ~(m > Len(sends))
      BY <1>1, <1>3
    <2> QED
      BY <1>1, <1>3, <2>1, <2>2, <2>3, <2>4 DEF Works, DataKept
  <1>11. StateInv'
    <2>1. IdInv'
      <3>1. \A x \in known' : sock[SlotOf(x)].id >= x
        <4> SUFFICES ASSUME NEW x \in known'
                     PROVE  sock[SlotOf(x)].id >= x
          OBVIOUS
        <4>1. CASE x \in known
          BY <1>2, <4>1 DEF StateInv, IdInv
        <4>2. CASE x \notin known
          BY <1>3, <1>7, <1>8, <4>2
        <4> QED
          BY <4>1, <4>2
      <3>2. known' \subseteq 1..alloc'
        BY <1>1, <1>2, <1>7, <1>8 DEF StateInv, IdInv
      <3>3. \A x \in Id \ known' : told'[x] = <<>> /\ wire'[x] = <<>>
        BY <1>1, <1>2 DEF StateInv, IdInv
      <3> QED
        BY <1>1, <3>1, <3>2, <3>3 DEF IdInv, SlotOf
    <2>2. \A x \in Slot : SlotInv(x)'
      BY <1>1, <1>2, <1>10, OtherSlot
    <2>3. CallInv(c)'
      <3>1. ~Opens(c)' /\ ~Carries(c)'
        BY <1>1 DEF Opens, Carries
      <3> QED
        BY <1>1, <3>1 DEF CallInv
    <2>4. ASSUME NEW d \in Caller \ {c}
          PROVE  CallInv(d)'
      <3>1. ASSUME Opens(d)
            PROVE  /\ call[d].id \notin known'
                   /\ IsOpen(r) => SlotOf(r.id) # SlotOf(call[d].id)
        <4>1. call[d].id \notin known
          BY <1>2, <3>1 DEF StateInv, CallInv
        <4>2. IsOpen(r) => SlotOf(r.id) # SlotOf(call[d].id)
          BY <1>7, <3>1
        <4> QED
          BY <1>7, <1>8, <4>1, <4>2
      <3>2. call[d].step = "fill" => Opens(d)
        BY DEF Opens
      <3>3. Steady(c, d)
        BY <1>1, <1>4, <1>6, <3>1, <3>2 DEF Steady
      <3> QED
        BY <1>2, <1>10, <3>3, OtherCall
    <2>5. ASSUME NEW i \in DOMAIN pipe
          PROVE  PipeInv(i)'
      <3>1. PipeInv(i)
        BY <1>2 DEF StateInv
      <3>2. Behind(pipe[i], r)
        <4>1. r.id = pipe[i].id => ~IsOpen(r)
          BY <1>7, <3>1 DEF PipeInv
        <4>2. ASSUME IsSend(pipe[i]), IsSend(r),
                     sends[r.msg].by = sends[pipe[i].msg].by
              PROVE  pipe[i].msg < r.msg
          <5>1. /\ pipe[i].msg \in 1..Len(sends)
                /\ pipe[i].msg # r.msg
            BY <1>9, <3>1, <4>2 DEF PipeInv
          <5>2. sends[pipe[i].msg].by = c
            BY <1>9, <4>2
          <5>3. pipe[i].msg \notin (r.msg + 1)..Len(sends)
            BY <1>9, <4>2, <5>2
          <5>4. r.msg \in 1..Len(sends)
            BY <1>9, <4>2
          <5> QED
            BY <1>3, <5>1, <5>3, <5>4
        <4> QED
          BY <1>1, <4>1, <4>2 DEF Behind
      <3>3. \A d \in Caller : CarriesIn(call', d) =>
              CarriesIn(call, d) /\ call'[d].msg = call[d].msg
        BY <1>1, <1>6 DEF CarriesIn
      <3> QED
        BY <1>1, <1>2, <1>4, <1>10, <3>2, <3>3, OtherRequest
    <2>6. ASSUME NEW i \in DOMAIN pipe', i = Len(pipe) + 1
          PROVE  PipeInv(i)'
      <3>1. pipe'[i] = r /\ \A j \in DOMAIN pipe' : ~(j > i)
        BY <1>4, <2>6
      <3>2. r.id \in known'
        BY <1>7, <1>8
      <3>3. ASSUME IsOpen(r), NEW j \in DOMAIN pipe', pipe'[j].id = r.id,
                   j # i
            PROVE  FALSE
        <4>1. j \in DOMAIN pipe /\ pipe[j].id = r.id
          BY <1>4, <2>6, <3>3
        <4>2. PipeInv(j)
          BY <1>2, <4>1 DEF StateInv
        <4> QED
          BY <1>7, <3>3, <4>1, <4>2 DEF PipeInv
      <3>4. ASSUME IsSend(r)
            PROVE  /\ Has(told[r.id], "open") /\ r.msg \in 1..Len(sends)
                   /\ sends[r.msg].to = r.id
                   /\ sends[r.msg].low <=> r.cmd = "send_low"
                   /\ \A d \in Caller : CarriesIn(call', d) =>
                        call'[d].msg # r.msg
        <4>1. ASSUME NEW d \in Caller, CarriesIn(call', d)
              PROVE  call'[d].msg # r.msg
          <5>1. d # c /\ Carries(d) /\ call'[d] = call[d]
            BY <1>1, <1>6, <4>1 DEF CarriesIn, Carries
          <5>2. CallInv(d)
            BY <1>2 DEF StateInv
          <5>3. sends[call[d].msg].by = d
            BY <5>1, <5>2 DEF CallInv
          <5>4. sends[r.msg].by = c
            BY <1>9, <3>4
          <5> QED
            BY <5>1, <5>3, <5>4
        <4>2. sends[r.msg] =
                [by |-> c, to |-> r.id, low |-> r.cmd = "send_low"]
          BY <1>9, <3>4
        <4>3. /\ sends[r.msg].to = r.id
              /\ sends[r.msg].low <=> r.cmd = "send_low"
          <5>1. sends[r.msg].to = r.id
            BY <4>2
          <5>2. sends[r.msg].low = (r.cmd = "send_low")
            BY <4>2
          <5> QED
            BY <5>1, <5>2
        <4>4. Has(told[r.id], "open") /\ r.msg \in 1..Len(sends)
          BY <1>9, <3>4
        <4> QED
          BY <4>1, <4>3, <4>4
      <3>5. \A d : Carries(d)' <=> CarriesIn(call', d)
        BY DEF Carries, CarriesIn, IsSend
      <3> QED
        BY <1>1, <1>7, <3>1, <3>2, <3>3, <3>4, <3>5
        DEF PipeInv, SlotOf, IsOpen, IsSend
    <2>7. \A i \in DOMAIN pipe' : PipeInv(i)'
      BY <1>4, <2>5, <2>6
    <2>8. \A d \in Caller : CallInv(d)'
      BY <2>3, <2>4
    <2> QED
      BY <2>1, <2>2, <2>7, <2>8 DEF StateInv
  <1>12. ToldInv'
    <2>1. \A x : Opening(x) => Opening(x)'
      BY <1>4 DEF Opening, IsOpen
    <2>2. IsOpen(r) => Opening(r.id)'
      BY <1>4 DEF Opening, IsOpen
    <2>3. ASSUME NEW x \in known', x \notin known
          PROVE  /\ told[x] = <<>> /\ sock'[SlotOf(x)].id = x
                 /\ sock'[SlotOf(x)].type = "RESERVE" /\ Opening(x)'
      <3>1. IsOpen(r) /\ x = r.id
        BY <1>7, <1>8, <2>3
      <3> QED
        BY <1>1, <1>7, <2>2, <3>1
    <2> QED
      BY <1>1, <1>2, <2>1, <2>3, ToldWork DEF Live
  <1>13. CountInv'
    <2>1. CASE ~IsSend(r)
      <3>1. ~Posts(call, c)
        BY <2>1 DEF Requests, Posts
      <3>2. \A x : PostingIn(call', x) = PostingIn(call, x)
        BY <1>1, <1>6, <3>1, PostingSame
      <3> QED
        BY <1>1, <1>2, <2>1, <3>2, CountWork
    <2>2. CASE IsSend(r)
      <3>1. ASSUME NEW sl \in Slot, sock'[sl].tcp
            PROVE  sock'[sl].sending =
                     Cardinality(PostedIn(pipe', sock'[sl].id))
                     + Cardinality(PostingIn(call', sock'[sl].id))
        <4> DEFINE id == sock[sl].id
        <4>1. sock'[sl].id = id /\ sock'[sl].sending = sock[sl].sending
              /\ sock[sl].tcp
          BY <1>1, <3>1
        <4>2. sock[sl].sending
                = Cardinality(Posted(id)) + Cardinality(Posting(id))
          BY <1>2, <4>1 DEF CountInv
        <4>3. Cardinality(PostingIn(call', id)) =
                IF r.id = id THEN Cardinality(Posting(id)) - 1
                ELSE Cardinality(Posting(id))
          BY <1>1, <1>2, <1>6, <1>9, <2>2, PostingLess
        <4>4. Cardinality(PostedIn(pipe', id)) =
                IF r.id = id THEN Cardinality(Posted(id)) + 1
                ELSE Cardinality(Posted(id))
          BY <1>1, <1>2, <2>2, PostedAppend, PostedPrimed
        <4>5. /\ Cardinality(Posted(id)) \in Nat
              /\ Cardinality(Posting(id)) \in Nat
          BY <1>2, SendsFinite
        <4> HIDE DEF id
        <4> QED
          BY <4>1, <4>2, <4>3, <4>4, <4>5
      <3> QED
        BY <3>1, CountPrimed
    <2> QED
      BY <2>1, <2>2
  <1>14. CloseInv'
    BY <1>1, <1>2, CloseWork
  <1>15. DataInv'
    <2>1. \A x \in Slot : sock'[x].type \notin {"INVALID", "RESERVE"} =>
            Live(x) /\ sock'[x] = sock[x]
      BY <1>1 DEF Live
    <2> QED
      BY <1>1, <1>2, <1>10, <2>1, DataWork
  <1>16. WireSent' /\ WireWhole' /\ SendOrder'
    BY <1>1, WireSame
  <1> QED
    BY <1>5, <1>11, <1>12, <1>13, <1>14, <1>15, <1>16, Whole9

LEMMA PostStep ==
  ASSUME BoundAssumption, CallerAssumption, IInv, NEW c \in Caller, Post(c)
  PROVE  IInv'
  <1> DEFINE k == call[c]
             r == [cmd |-> k.cmd, id |-> k.id, msg |-> k.msg]
  <1>1. /\ ~failed /\ k.step = "post" /\ pipe' = Append(pipe, r)
        /\ known' = IF k.cmd \in {"open", "listen"} THEN known \cup {k.id}
                    ELSE known
        /\ call' = [call EXCEPT ![c] = NoCall]
        /\ UNCHANGED <<alloc, sock, ctl, ev, fc, wire, peer, told, cut, sends,
                       calls, failed>>
    BY DEF Post, Step, Write, Return
  <1>2. TypeOK /\ StateInv
    BY <1>1, Parts
  <1>3. CallInv(c) /\ k \in Call /\ k.cmd \in Cmd /\ k.msg \in 0..MaxSend
    BY <1>2, CallFields DEF StateInv
  <1>4. k.id \in Id
    <2>1. IsOpen(k) => k.id \in Nat \ {0} /\ k.id \in 0..MaxId
      <3>1. IsOpen(k) => k.id \in 1..alloc
        BY <1>1, <1>3 DEF CallInv, Opens
      <3>2. k.id \in 0..MaxId /\ alloc \in Nat
        BY <1>2, CallFields DEF TypeOK, BoundAssumption
      <3> HIDE DEF k
      <3> QED
        BY <3>1, <3>2
    <2>2. ~IsOpen(k) => k.id \in Id
      BY <1>1, <1>2, <1>3 DEF CallInv, TypeOK
    <2> HIDE DEF k
    <2> QED
      BY <2>1, <2>2 DEF Id, BoundAssumption
  <1>5. /\ call' \in [Caller -> Call] /\ call'[c].step = "idle"
        /\ \A d \in Caller \ {c} : call'[d] = call[d]
    BY <1>1, <1>2, NoCallType DEF TypeOK
  <1>6. /\ r \in Request /\ r.id = k.id /\ r.msg = k.msg /\ r.cmd = k.cmd
    BY <1>3, <1>4 DEF Request
  <1>7. IsOpen(r) = IsOpen(k) /\ IsSend(r) = IsSend(k)
    BY <1>6 DEF IsOpen, IsSend
  <1>8. Posts(call, c) <=> IsSend(k)
    BY <1>1 DEF Posts
  <1>9. /\ IsOpen(k) => ~IsSend(k) /\ known' = known \cup {k.id}
        /\ ~IsOpen(k) => known' = known /\ k.id \in known
    BY <1>1, <1>3 DEF IsOpen, IsSend, CallInv
  <1>10. calls' \in 0..MaxCall
    BY <1>1, <1>2 DEF TypeOK
  <1> HIDE DEF k, r
  <1>11. /\ call[c].step = "post" /\ call[c].id = r.id /\ call[c].msg = r.msg
         /\ call[c].cmd = r.cmd /\ IsOpen(call[c]) = IsOpen(k)
         /\ IsSend(call[c]) = IsSend(k)
    BY <1>1, <1>6 DEF k
  <1>12. Requests(c, r)
    BY <1>1, <1>5, <1>6, <1>7, <1>8, <1>9, <1>11 DEF Requests
  <1> QED
    BY <1>1, <1>5, <1>6, <1>10, <1>12, Requested

LEMMA OrderStep ==
  ASSUME BoundAssumption, CallerAssumption, IInv, NEW c \in Caller,
         NEW cmd \in {"start", "pause", "close", "shutdown"},
         NEW id \in known, Order(c, cmd, id)
  PROVE  IInv'
  <1> DEFINE r == [cmd |-> cmd, id |-> id, msg |-> 0]
  <1>1. /\ ~failed /\ call[c].step = "idle" /\ calls < MaxCall
        /\ calls' = calls + 1 /\ pipe' = Append(pipe, r)
        /\ UNCHANGED <<alloc, sock, call, ctl, ev, fc, wire, peer, told, known,
                       cut, sends, failed>>
    BY DEF Order, Idle, Write
  <1>2. TypeOK
    BY <1>1, Parts
  <1>3. calls' \in 0..MaxCall /\ call' \in [Caller -> Call] /\ id \in Id
    BY <1>1, <1>2 DEF TypeOK, BoundAssumption
  <1>4. r \in Request /\ r.id = id /\ ~IsOpen(r) /\ ~IsSend(r)
    BY <1>3 DEF Request, Cmd, IsOpen, IsSend, BoundAssumption
  <1> HIDE DEF r
  <1>5. Requests(c, r)
    BY <1>1, <1>4 DEF Requests, Posts
  <1> QED
    BY <1>1, <1>3, <1>4, <1>5, Requested

(* A send begins: it is looked at once whether the worker may write. *)
LEMMA SendStep ==
  ASSUME BoundAssumption, CallerAssumption, IInv, NEW c \in Caller,
         NEW id \in known, NEW low \in BOOLEAN, Send(c, id, low)
  PROVE  IInv'
  <1> DEFINE e == [by |-> c, to |-> id, low |-> low]
             m == Len(sends) + 1
             k == [step |-> IF ~low /\ CanDirect(id) THEN "direct" ELSE "ref",
                   cmd |-> IF low THEN "send_low" ELSE "send", id |-> id,
                   msg |-> m, n |-> 0]
  <1>1. /\ ~failed /\ call[c].step = "idle" /\ calls < MaxCall
        /\ Len(sends) < MaxSend /\ Has(told[id], "open")
        /\ calls' = calls + 1 /\ sends' = Append(sends, e)
        /\ call' = call \/ call' = [call EXCEPT ![c] = k]
        /\ UNCHANGED <<alloc, sock, pipe, ctl, ev, fc, wire, peer, told, known,
                       cut, failed>>
    BY DEF Send, Idle, Has
  <1>2. /\ TypeOK /\ WireSent /\ WireWhole /\ SendOrder
        /\ StateInv /\ CountInv /\ ToldInv /\ CloseInv /\ DataInv
    BY <1>1, Parts
  <1>3. /\ calls' \in 0..MaxCall /\ known \subseteq Id /\ id \in Id
        /\ alloc \in Nat /\ id \in 0..MaxId
        /\ sends \in Seq([by : Caller, to : Id, low : BOOLEAN])
        /\ call \in [Caller -> Call]
    BY <1>1, <1>2 DEF TypeOK, BoundAssumption, Id
  <1>4. e \in [by : Caller, to : Id, low : BOOLEAN]
    BY <1>3
  <1>5. /\ sends' \in Seq([by : Caller, to : Id, low : BOOLEAN])
        /\ Len(sends) \in Nat /\ Len(sends') = m
        /\ \A i \in 1..Len(sends) : sends'[i] = sends[i]
        /\ sends'[m] = e
    <2> HIDE DEF e
    <2> QED
      BY <1>1, <1>3, <1>4
  <1>6. /\ k \in Call /\ k.step \in {"direct", "ref"} /\ IsSend(k)
        /\ k.id = id /\ k.msg = m /\ ~IsOpen(k) /\ (k.cmd = "send_low" <=> low)
    <2>1. m \in 0..MaxSend /\ 0 \in 0..Units
      BY <1>1, <1>5 DEF BoundAssumption
    <2> HIDE DEF m
    <2>2. /\ k \in Call /\ k.id = id /\ k.msg = m
          /\ k.step \in {"direct", "ref"}
          /\ k.cmd = IF low THEN "send_low" ELSE "send"
      BY <1>3, <2>1 DEF Call, Cmd
    <2> QED
      BY <2>2 DEF IsSend, IsOpen
  <1> HIDE DEF k
  <1>7. /\ call' \in [Caller -> Call]
        /\ \A d \in Caller \ {c} : call'[d] = call[d]
        /\ call'[c] = k \/ call'[c] = call[c]
    BY <1>1, <1>3, <1>6
  <1>8. /\ ~CarriesIn(call, c) /\ ~OpensIn(call', c) /\ ~Posts(call', c)
        /\ ~Posts(call, c)
    BY <1>1, <1>6, <1>7 DEF CarriesIn, OpensIn, Posts
  <1>9. TypeOK'
    BY <1>1, <1>2, <1>3, <1>5, <1>7, WorkerTypes DEF TypeOK
  <1>10. Works(c) /\ DataKept
    <2>1. SendsKept
      BY <1>5 DEF SendsKept
    <2>2. PostsKept
      BY <1>1 DEF PostsKept
    <2>3. CarriesKept
      BY <1>6, <1>7, <1>8 DEF CarriesKept, CarriesIn
    <2>4. ASSUME NEW i \in 1..Len(sends'), i > Len(sends)
          PROVE  sends'[i].by = c
      <3>1. i = m
        BY <1>5, <2>4
      <3> QED
        BY <1>5, <3>1
    <2> QED
      BY <1>1, <1>3, <1>7, <2>1, <2>2, <2>3, <2>4 DEF Works, DataKept
  <1>11. StateInv'
    <2>1. IdInv'
      BY <1>1, <1>2 DEF StateInv, IdInv, SlotOf
    <2>2. \A x \in Slot : SlotInv(x)'
      BY <1>1, <1>2, <1>10, OtherSlot
    <2>3. CallInv(c)'
      <3>1. CASE call'[c] = k
        <4>1. /\ call'[c].id \in known /\ Has(told'[call'[c].id], "open")
              /\ call'[c].msg \in 1..Len(sends')
              /\ ~(call'[c].step \in {"fill", "post", "written"})
          BY <1>1, <1>5, <1>6, <3>1
        <4>2. sends'[call'[c].msg] = [by |-> c, to |-> call'[c].id,
                                      low |-> call'[c].cmd = "send_low"]
          <5>1. low = (k.cmd = "send_low")
            BY <1>6
          <5> QED
            BY <1>5, <1>6, <3>1, <5>1
        <4>3. \A i \in (call'[c].msg + 1)..Len(sends') : sends'[i].by # c
          BY <1>5, <1>6, <3>1
        <4>4. IsSend(call'[c]) /\ ~Opens(c)'
          BY <1>6, <3>1, <4>1 DEF Opens
        <4> QED
          BY <1>1, <4>1, <4>2, <4>3, <4>4 DEF CallInv, IsSend, SlotOf
      <3>2. CASE call'[c] = call[c]
        BY <1>1, <3>2 DEF CallInv, Opens, Carries
      <3> QED
        BY <1>7, <3>1, <3>2
    <2>4. ASSUME NEW d \in Caller \ {c}
          PROVE  CallInv(d)'
      <3>1. Opens(d) => call[d].id \notin known
        BY <1>2 DEF StateInv, CallInv
      <3>2. Steady(c, d)
        BY <1>1, <1>8, <3>1 DEF Steady
      <3> QED
        BY <1>2, <1>10, <3>2, OtherCall
    <2>5. ASSUME NEW i \in DOMAIN pipe
          PROVE  PipeInv(i)'
      <3>1. \A d \in Caller : CarriesIn(call', d) =>
              \/ CarriesIn(call, d) /\ call'[d].msg = call[d].msg
              \/ call'[d].msg = Len(sends) + 1
        BY <1>6, <1>7, <1>8 DEF CarriesIn
      <3> QED
        BY <1>1, <1>2, <1>10, <3>1, OtherRequest
    <2>6. \A d \in Caller : CallInv(d)'
      BY <2>3, <2>4
    <2> QED
      BY <1>1, <2>1, <2>2, <2>5, <2>6 DEF StateInv
  <1>12. ToldInv'
    <2>1. \A x : Opening(x)' <=> Opening(x)
      BY <1>1 DEF Opening, IsOpen
    <2> QED
      BY <1>1, <1>2, <2>1, ToldWork DEF Live
  <1>13. CountInv'
    <2>1. \A x : PostingIn(call', x) = PostingIn(call, x)
      BY <1>7, <1>8, PostingSame
    <2> QED
      BY <1>1, <1>2, <2>1, CountWork
  <1>14. CloseInv'
    BY <1>1, <1>2, CloseWork
  <1>15. DataInv'
    <2>1. \A x \in Slot : sock'[x].type \notin {"INVALID", "RESERVE"} =>
            Live(x) /\ sock'[x] = sock[x]
      BY <1>1 DEF Live
    <2> QED
      BY <1>1, <1>2, <1>7, <1>10, <2>1, DataWork
  <1>16. WireSent' /\ WireWhole' /\ SendOrder'
    BY <1>1, <1>2, <1>10, WireStep DEF DataKept
  <1> QED
    BY <1>9, <1>11, <1>12, <1>13, <1>14, <1>15, <1>16, Whole9

(* A send gets on its way to the socket thread. *)
LEMMA PostingMore ==
  ASSUME TypeOK, CallerAssumption, NEW c \in Caller, ~Posts(call, c),
         Posts(call', c), \A d \in Caller \ {c} : call'[d] = call[d], NEW id
  PROVE  Cardinality(PostingIn(call', id)) =
           IF call'[c].id = id THEN Cardinality(Posting(id)) + 1
           ELSE Cardinality(Posting(id))
  <1>1. IsFiniteSet(Posting(id)) /\ Cardinality(Posting(id)) \in Nat
    BY SendsFinite
  <1>2. CASE call'[c].id = id
    <2>1. c \notin Posting(id) /\ PostingIn(call', id) = Posting(id) \cup {c}
      BY <1>2 DEF Posts, Posting, PostingIn
    <2> QED
      BY <1>1, <1>2, <2>1, FS_AddElement
  <1>3. CASE call'[c].id # id
    <2>1. PostingIn(call', id) = Posting(id)
      BY <1>3 DEF Posts, Posting, PostingIn
    <2> QED
      BY <1>3, <2>1
  <1> QED
    BY <1>2, <1>3

(* inc_sending_ref: the send is counted if the socket is still there. *)
LEMMA IncSendingStep ==
  ASSUME BoundAssumption, CallerAssumption, IInv, NEW c \in Caller,
         IncSending(c)
  PROVE  IInv'
  <1> DEFINE k == call[c]
             id == k.id
             sl == SlotOf(id)
             s == sock[sl]
             t == [s EXCEPT !.sending = @ + 1]
  <1>1. /\ ~failed /\ k.step = "ref"
        /\ sock' = IF Counts(s, id)
                   THEN [sock EXCEPT ![sl].sending = @ + 1] ELSE sock
        /\ call' = [call EXCEPT ![c].step = "post"]
        /\ UNCHANGED <<alloc, pipe, ctl, ev, fc, wire, peer, told, known, cut,
                       sends, calls, failed>>
    BY DEF IncSending, Step, Goto
  <1>2. /\ TypeOK /\ WireSent /\ WireWhole /\ SendOrder
        /\ StateInv /\ CountInv /\ ToldInv /\ CloseInv /\ DataInv
    BY <1>1, Parts
  <1>3. /\ CallInv(c) /\ k \in Call /\ id \in Nat /\ sl \in Slot
        /\ known \subseteq Id /\ alloc \in Nat
    <2>1. CallInv(c) /\ k \in Call /\ id \in Nat
      BY <1>2, CallFields DEF StateInv, BoundAssumption
    <2>2. known \subseteq Id /\ alloc \in Nat
      BY <1>2 DEF TypeOK
    <2> HIDE DEF id
    <2> QED
      BY <2>1, <2>2, SlotIsSlot
  <1>4. Carries(c) /\ IsSend(k) /\ ~IsOpen(k) /\ id \in known
    BY <1>1, <1>3 DEF CallInv, Carries, IsSend, IsOpen
  <1>5. /\ call' \in [Caller -> Call]
        /\ call'[c] = [k EXCEPT !.step = "post"]
        /\ \A d \in Caller \ {c} : call'[d] = call[d]
    BY <1>1, <1>2, <1>3 DEF TypeOK, Call
  <1>6. /\ call'[c].step = "post" /\ call'[c].cmd = k.cmd
        /\ call'[c].id = id /\ call'[c].msg = k.msg /\ ~IsOpen(call'[c])
        /\ IsSend(call'[c])
    BY <1>3, <1>4, <1>5 DEF Call, IsOpen, IsSend
  <1>7. /\ ~OpensIn(call', c) /\ Posts(call', c) /\ ~Posts(call, c)
        /\ \A d \in Caller : CarriesIn(call', d) =>
             CarriesIn(call, d) /\ call'[d].msg = call[d].msg
             /\ (call'[d].step # "written" => call[d].step # "written")
    BY <1>1, <1>5, <1>6 DEF OpensIn, Posts, CarriesIn
  <1>8. /\ sock' \in [Slot -> Socket]
        /\ \A x \in Slot : Recounted(sock[x], sock'[x])
        /\ \A x \in Slot : sock'[x].sending =
             IF x = sl /\ Counts(s, id) THEN sock[x].sending + 1
             ELSE sock[x].sending
    <2>1. s \in Socket /\ sock \in [Slot -> Socket] /\ s.sending \in Nat
      BY <1>2, <1>3, SocketFields DEF TypeOK
    <2> HIDE DEF s, sl, id
    <2>2. /\ t \in Socket /\ t.sending = s.sending + 1 /\ Recounted(s, t)
      <3>1. s.sending + 1 \in Nat
        BY <2>1
      <3> QED
        BY <2>1, <3>1 DEF Socket, Recounted
    <2>3. Counts(s, id) => sock' = [sock EXCEPT ![sl] = t]
      BY <1>1, <1>3, <2>1 DEF s
    <2>4. \A x : Recounted(sock[x], sock[x])
      BY DEF Recounted
    <2>5. s = sock[sl]
      BY DEF s
    <2> HIDE DEF t
    <2>6. CASE Counts(s, id)
      BY <1>3, <2>1, <2>2, <2>3, <2>4, <2>5, <2>6
    <2>7. CASE ~Counts(s, id)
      BY <1>1, <2>1, <2>4, <2>5, <2>7
    <2> QED
      BY <2>6, <2>7
  <1>9. TypeOK'
    BY <1>1, <1>2, <1>5, <1>8, WorkerTypes DEF TypeOK
  <1>10. Works(c) /\ DataKept
    <2>1. SendsKept /\ PostsKept
      BY <1>1, <1>2 DEF SendsKept, PostsKept, TypeOK
    <2>2. CarriesKept
      BY <1>7 DEF CarriesKept
    <2>3. \A m \in 1..Len(sends') : ~(m > Len(sends))
      BY <1>1, <1>2 DEF TypeOK
    <2> QED
      BY <1>1, <1>3, <1>5, <2>1, <2>2, <2>3 DEF Works, DataKept
  <1>11. StateInv'
    <2>1. IdInv'
      <3>1. \A x \in known : sock'[SlotOf(x)].id >= x
        <4> SUFFICES ASSUME NEW x \in known
                     PROVE  sock'[SlotOf(x)].id >= x
          OBVIOUS
        <4>1. SlotOf(x) \in Slot /\ sock[SlotOf(x)].id >= x
          BY <1>2, <1>3, SlotIsSlot, ZeroIsSlot DEF StateInv, IdInv
        <4> QED
          BY <1>8, <4>1 DEF Recounted
      <3> QED
        BY <1>1, <1>2, <3>1 DEF StateInv, IdInv, SlotOf
    <2>2. \A x \in Slot : SlotInv(x)'
      BY <1>1, <1>2, <1>8, <1>10, OtherSlot
    <2>3. CallInv(c)'
      <3>1. /\ call'[c].id \in known' /\ Has(told'[call'[c].id], "open")
            /\ call'[c].msg \in 1..Len(sends')
            /\ sends'[call'[c].msg] = [by |-> c, to |-> call'[c].id,
                                       low |-> call'[c].cmd = "send_low"]
            /\ \A i \in (call'[c].msg + 1)..Len(sends') : sends'[i].by # c
        <4>1. /\ k.id \in known /\ Has(told[k.id], "open")
              /\ k.msg \in 1..Len(sends)
              /\ sends[k.msg] =
                   [by |-> c, to |-> k.id, low |-> k.cmd = "send_low"]
              /\ \A i \in (k.msg + 1)..Len(sends) : sends[i].by # c
          BY <1>3, <1>4 DEF CallInv
        <4> HIDE DEF k
        <4> QED
          BY <1>1, <1>6, <4>1
      <3>2. ~Opens(c)'
        BY <1>6 DEF Opens, IsOpen
      <3> QED
        BY <1>6, <3>1, <3>2 DEF CallInv, IsSend, IsOpen
    <2>4. ASSUME NEW d \in Caller \ {c}
          PROVE  CallInv(d)'
      <3>1. SlotOf(call[d].id) \in Slot
        BY <1>2, CallFields, SlotIsSlot DEF BoundAssumption
      <3>2. Opens(d) => call[d].id \notin known
        BY <1>2 DEF StateInv, CallInv
      <3>3. Recounted(sock[SlotOf(call[d].id)], sock'[SlotOf(call[d].id)])
        BY <1>8, <3>1
      <3>4. Steady(c, d)
        BY <1>1, <1>7, <3>2, <3>3 DEF Steady, Recounted
      <3> QED
        BY <1>2, <1>10, <3>4, OtherCall
    <2>5. ASSUME NEW i \in DOMAIN pipe
          PROVE  PipeInv(i)'
      <3>1. SlotOf(pipe[i].id) \in Slot
        BY <1>2, PipeFields, SlotIsSlot, ZeroIsSlot
      <3>2. Recounted(sock[SlotOf(pipe[i].id)], sock'[SlotOf(pipe[i].id)])
        BY <1>8, <3>1
      <3> QED
        BY <1>1, <1>2, <1>7, <1>10, <3>2, OtherRequest DEF Recounted
    <2>6. \A d \in Caller : CallInv(d)'
      BY <2>3, <2>4
    <2> QED
      BY <1>1, <2>1, <2>2, <2>5, <2>6 DEF StateInv
  <1>12. ToldInv'
    <2>1. \A x : Opening(x)' <=> Opening(x)
      BY <1>1 DEF Opening, IsOpen
    <2>2. \A x \in Slot : sock'[x].type = sock[x].type
                          /\ sock'[x].id = sock[x].id
      BY <1>8 DEF Recounted
    <2>3. \A x \in known : SlotOf(x) \in Slot
      BY <1>3, SlotIsSlot, ZeroIsSlot
    <2> QED
      BY <1>1, <1>2, <2>1, <2>2, <2>3, ToldWork DEF Live
  <1>13. CountInv'
    <2>1. ASSUME NEW x \in Slot, sock'[x].tcp
          PROVE  sock'[x].sending =
                   Cardinality(PostedIn(pipe', sock'[x].id))
                   + Cardinality(PostingIn(call', sock'[x].id))
      <3> DEFINE j == sock[x].id
      <3>1. sock'[x].id = j /\ sock[x].tcp
        BY <1>8, <2>1 DEF Recounted
      <3>2. sock[x].sending = Cardinality(Posted(j)) + Cardinality(Posting(j))
        BY <1>2, <3>1 DEF CountInv
      <3>3. Cardinality(PostingIn(call', j)) =
              IF id = j THEN Cardinality(Posting(j)) + 1
              ELSE Cardinality(Posting(j))
        BY <1>2, <1>5, <1>6, <1>7, PostingMore
      <3>4. PostedIn(pipe', j) = Posted(j)
        BY <1>1, PostedPrimed
      <3>5. Cardinality(Posted(j)) \in Nat /\ Cardinality(Posting(j)) \in Nat
        BY <1>2, SendsFinite
      <3>6. id = j <=> x = sl /\ Counts(s, id)
        <4>1. SlotInv(x)
          BY <1>2 DEF StateInv
        <4>2. sock[x].tag = j /\ j # 0 /\ SlotOf(j) = x
          BY <3>1, <4>1 DEF SlotInv
        <4>3. CASE x = sl
          BY <3>1, <4>2, <4>3 DEF Counts
        <4>4. CASE x # sl
          BY <4>2, <4>4
        <4> QED
          BY <4>3, <4>4
      <3>7. sock'[x].sending = IF id = j THEN sock[x].sending + 1
                               ELSE sock[x].sending
        BY <1>8, <3>6
      <3> HIDE DEF j, id
      <3> QED
        BY <3>1, <3>2, <3>3, <3>4, <3>5, <3>7
    <2> QED
      BY <2>1, CountPrimed
  <1>14. CloseInv'
    BY <1>1, <1>2, <1>8, CloseWork DEF Recounted
  <1>15. DataInv'
    <2>1. \A x \in Slot : sock'[x].type \notin {"INVALID", "RESERVE"} =>
            /\ Live(x) /\ sock'[x].id = sock[x].id
            /\ sock'[x].lock = sock[x].lock /\ sock'[x].dw = sock[x].dw
            /\ sock'[x].high = sock[x].high /\ sock'[x].low = sock[x].low
      BY <1>8 DEF Live, Recounted
    <2> QED
      BY <1>1, <1>2, <1>5, <1>10, <2>1, DataWork
  <1>16. WireSent' /\ WireWhole' /\ SendOrder'
    BY <1>1, WireSame
  <1> QED
    BY <1>9, <1>11, <1>12, <1>13, <1>14, <1>15, <1>16, Whole9

(* The rest of a direct write goes into dw_buffer, and the lock is given    *)
(* back.                                                                   *)
LEMMA KeepRestStep ==
  ASSUME BoundAssumption, CallerAssumption, IInv, NEW c \in Caller,
         KeepRest(c)
  PROVE  IInv'
  <1> DEFINE k == call[c]
             id == k.id
             sl == SlotOf(id)
             s == sock[sl]
             rest == SubSeq(Message(k.msg), k.n + 1, Units)
             t == [s EXCEPT !.lock = NoOne, !.dw = rest]
             next == [NoCall EXCEPT !.step = "post", !.cmd = "trigger",
                                    !.id = id]
  <1>1. /\ ~failed /\ k.step = "written"
        /\ sock' = [sock EXCEPT ![sl].lock = NoOne, ![sl].dw = rest]
        /\ call' = [call EXCEPT ![c] = next]
        /\ UNCHANGED <<alloc, pipe, ctl, ev, fc, wire, peer, told, known, cut,
                       sends, calls, failed>>
    BY DEF KeepRest, Step
  <1>2. /\ TypeOK /\ WireSent /\ WireWhole /\ SendOrder
        /\ StateInv /\ CountInv /\ ToldInv /\ CloseInv /\ DataInv
    BY <1>1, Parts
  <1>3. /\ CallInv(c) /\ k \in Call /\ id \in Nat /\ id \in 0..MaxId
        /\ sl \in Slot /\ k.n \in 0..Units
        /\ known \subseteq Id /\ alloc \in Nat /\ k.msg \in 0..MaxSend
        /\ Len(sends) \in Nat
    <2>1. /\ CallInv(c) /\ k \in Call /\ id \in Nat /\ id \in 0..MaxId
          /\ k.n \in 0..Units /\ k.msg \in 0..MaxSend
      BY <1>2, CallFields DEF StateInv, BoundAssumption
    <2>2. known \subseteq Id /\ alloc \in Nat /\ Len(sends) \in Nat
      BY <1>2 DEF TypeOK
    <2> HIDE DEF id, k
    <2> QED
      BY <2>1, <2>2, SlotIsSlot
  <1>4. /\ Carries(c) /\ IsSend(k) /\ ~IsOpen(k) /\ id \in known /\ id # 0
        /\ s.id = id /\ s.lock = c /\ k.msg \in 1..Len(sends)
    <2>1. Carries(c)
      BY <1>1 DEF Carries
    <2>2. /\ IsSend(k) /\ id \in known /\ k.msg \in 1..Len(sends)
          /\ s.id = id /\ s.lock = c
      BY <1>1, <1>3, <2>1 DEF CallInv
    <2>3. ~IsOpen(k) /\ id # 0
      BY <1>3, <2>2, ZeroIsSlot DEF IsSend, IsOpen
    <2> QED
      BY <2>1, <2>2, <2>3
  <1>5. rest \in Seq(Unit)
    <2>1. k.msg \in 1..MaxSend
      BY <1>3, <1>4 DEF BoundAssumption
    <2>2. Message(k.msg) \in Seq(Unit) /\ Len(Message(k.msg)) = Units
      BY <2>1, MessageUnits
    <2>3. rest = Rest(Message(k.msg), k.n)
      BY <2>2 DEF Rest
    <2> HIDE DEF rest, k
    <2> QED
      BY <1>3, <2>2, <2>3, Cuts
  <1>6. /\ SlotInv(sl) /\ Live(sl) /\ s.dw = <<>>
    <2>1. SlotInv(sl)
      BY <1>2, <1>3 DEF StateInv
    <2> QED
      BY <1>4, <2>1 DEF SlotInv, CallerAssumption
  <1>7. /\ next \in Call /\ next.step = "post" /\ next.cmd = "trigger"
        /\ next.id = id
    <2> HIDE DEF id
    <2> QED
      BY <1>3, NoCallType DEF Call, Cmd
  <1> HIDE DEF next
  <1>8. /\ call' \in [Caller -> Call] /\ call'[c] = next
        /\ \A d \in Caller \ {c} : call'[d] = call[d]
    BY <1>1, <1>2, <1>7 DEF TypeOK
  <1>9. /\ ~IsOpen(call'[c]) /\ ~IsSend(call'[c]) /\ call'[c].step = "post"
        /\ call'[c].cmd = "trigger" /\ call'[c].id = id
        /\ ~OpensIn(call', c) /\ ~CarriesIn(call', c)
        /\ ~Posts(call, c) /\ ~Posts(call', c)
    BY <1>1, <1>7, <1>8 DEF IsOpen, IsSend, OpensIn, CarriesIn, Posts
  <1>10. /\ sock' \in [Slot -> Socket] /\ sock'[sl] = t
         /\ \A x \in Slot \ {sl} : sock'[x] = sock[x]
         /\ t.id = s.id /\ t.tcp = s.tcp /\ t.tag = s.tag
         /\ t.type = s.type /\ t.closing = s.closing /\ t.lock = NoOne
         /\ t.dw = rest /\ t.high = s.high /\ t.low = s.low
         /\ t.sending = s.sending
    <2>1. s \in Socket /\ sock \in [Slot -> Socket]
      BY <1>2, <1>3, SocketFields DEF TypeOK
    <2> HIDE DEF sl, id, rest
    <2>2. t \in Socket
      BY <1>5, <2>1 DEF Socket
    <2>3. sock' = [sock EXCEPT ![sl] = t]
      BY <1>1, <1>3, <2>1
    <2> QED
      BY <1>3, <1>5, <2>1, <2>2, <2>3 DEF Socket
  <1> HIDE DEF t
  <1>11. TypeOK'
    BY <1>1, <1>2, <1>8, <1>10, WorkerTypes DEF TypeOK
  <1>12. Works(c) /\ DataKept
    <2>1. SendsKept /\ PostsKept
      BY <1>1, <1>3 DEF SendsKept, PostsKept
    <2>2. CarriesKept
      BY <1>8, <1>9 DEF CarriesKept, CarriesIn
    <2>3. \A m \in 1..Len(sends') : ~(m > Len(sends))
      BY <1>1, <1>3
    <2> QED
      BY <1>1, <1>3, <1>8, <2>1, <2>2, <2>3 DEF Works, DataKept
  (* No other socket is locked by the worker. *)
  <1>13. ASSUME NEW x \in Slot \ {sl}
         PROVE  sock[x].lock # c
    <2>1. SlotInv(x)
      BY <1>2 DEF StateInv
    <2> QED
      BY <1>4, <2>1 DEF SlotInv, CallerAssumption
  <1>14. StateInv'
    <2>1. IdInv'
      <3>1. \A x \in known : sock'[SlotOf(x)].id >= x
        <4> SUFFICES ASSUME NEW x \in known
                     PROVE  sock'[SlotOf(x)].id >= x
          OBVIOUS
        <4>1. SlotOf(x) \in Slot /\ sock[SlotOf(x)].id >= x
          BY <1>2, <1>3, SlotIsSlot, ZeroIsSlot DEF StateInv, IdInv
        <4> HIDE DEF sl
        <4> QED
          BY <1>10, <4>1
      <3> QED
        BY <1>1, <1>2, <3>1 DEF StateInv, IdInv, SlotOf
    <2>2. ASSUME NEW x \in Slot, x = sl
          PROVE  SlotInv(x)'
      <3>1. /\ s.id \in 0..alloc /\ SlotOf(s.id) = x /\ s.tcp
            /\ s.tag = s.id /\ s.id # 0 /\ s.id \in known
            /\ s.type # "INVALID" /\ s.type # "RESERVE"
            /\ s.closing => s.type = "HALFCLOSE_READ"
        BY <1>4, <1>6, <2>2 DEF SlotInv, Live
      <3>2. /\ sock'[x].id = s.id /\ sock'[x].tcp = s.tcp
            /\ sock'[x].tag = s.tag /\ sock'[x].type = s.type
            /\ sock'[x].closing = s.closing /\ sock'[x].lock = NoOne
        BY <1>10, <2>2
      <3>3. /\ sock'[x].id \in 0..alloc' /\ SlotOf(sock'[x].id) = x
            /\ sock'[x].tcp /\ sock'[x].tag = sock'[x].id
            /\ sock'[x].id # 0 /\ sock'[x].id \in known'
            /\ sock'[x].type # "INVALID" /\ sock'[x].type # "RESERVE"
            /\ sock'[x].closing => sock'[x].type = "HALFCLOSE_READ"
        <4>1. alloc' = alloc /\ known' = known
          BY <1>1
        <4> HIDE DEF s, sl
        <4>2. /\ sock'[x].id \in 0..alloc' /\ sock'[x].id \in known'
              /\ sock'[x].id # 0 /\ SlotOf(sock'[x].id) = x
              /\ sock'[x].type # "INVALID" /\ sock'[x].type # "RESERVE"
          BY <3>1, <3>2, <4>1
        <4>3. sock'[x].tcp /\ sock'[x].tag = sock'[x].id
          BY <3>1, <3>2
        <4>4. sock'[x].closing => sock'[x].type = "HALFCLOSE_READ"
          BY <3>1, <3>2
        <4> QED
          BY <4>2, <4>3, <4>4
      <3> QED
        BY <3>2, <3>3 DEF SlotInv, Live, SlotOf
    <2>3. \A x \in Slot \ {sl} : SlotInv(x)'
      BY <1>1, <1>2, <1>10, <1>12, <1>13, OtherSlot
    <2>4. CallInv(c)'
      <3>1. ~Opens(c)' /\ ~Carries(c)'
        BY <1>9 DEF Opens, Carries, IsOpen, IsSend
      <3>2. call'[c].id \in known'
        BY <1>1, <1>4, <1>9
      <3> QED
        BY <1>9, <3>1, <3>2 DEF CallInv
    <2>5. ASSUME NEW d \in Caller \ {c}
          PROVE  CallInv(d)'
      <3>1. CallInv(d) /\ SlotOf(call[d].id) \in Slot
        BY <1>2, CallFields, SlotIsSlot DEF StateInv, BoundAssumption
      <3>2. Opens(d) => call[d].id \notin known
        BY <3>1 DEF CallInv
      <3>3. call[d].step = "written" => SlotOf(call[d].id) # sl
        BY <1>4, <3>1 DEF CallInv
      <3>4. /\ sock'[SlotOf(call[d].id)].type = sock[SlotOf(call[d].id)].type
            /\ sock'[SlotOf(call[d].id)].id = sock[SlotOf(call[d].id)].id
            /\ sock'[SlotOf(call[d].id)].tcp = sock[SlotOf(call[d].id)].tcp
            /\ call[d].step = "written" =>
                 sock'[SlotOf(call[d].id)].lock = sock[SlotOf(call[d].id)].lock
        <4> HIDE DEF sl
        <4> QED
          BY <1>10, <3>1, <3>3 DEF s
      <3>5. Steady(c, d)
        BY <1>1, <1>9, <3>2, <3>4 DEF Steady
      <3> QED
        BY <1>2, <1>12, <3>5, OtherCall
    <2>6. ASSUME NEW i \in DOMAIN pipe
          PROVE  PipeInv(i)'
      <3>1. SlotOf(pipe[i].id) \in Slot
        BY <1>2, PipeFields, SlotIsSlot, ZeroIsSlot
      <3>2. /\ sock'[SlotOf(pipe[i].id)].type = sock[SlotOf(pipe[i].id)].type
            /\ sock'[SlotOf(pipe[i].id)].id = sock[SlotOf(pipe[i].id)].id
            /\ sock'[SlotOf(pipe[i].id)].tcp = sock[SlotOf(pipe[i].id)].tcp
        <4> HIDE DEF sl
        <4> QED
          BY <1>10, <3>1 DEF s
      <3>3. \A d \in Caller : CarriesIn(call', d) =>
              CarriesIn(call, d) /\ call'[d].msg = call[d].msg
        BY <1>8, <1>9 DEF CarriesIn
      <3> QED
        BY <1>1, <1>2, <1>12, <3>2, <3>3, OtherRequest
    <2>7. \A d \in Caller : CallInv(d)'
      BY <2>4, <2>5
    <2>8. \A x \in Slot : SlotInv(x)'
      BY <2>2, <2>3
    <2> QED
      BY <1>1, <2>1, <2>6, <2>7, <2>8 DEF StateInv
  <1>15. \A x \in Slot :
           /\ sock'[x].type = sock[x].type /\ sock'[x].id = sock[x].id
           /\ sock'[x].tcp = sock[x].tcp /\ sock'[x].sending = sock[x].sending
           /\ sock'[x].high = sock[x].high /\ sock'[x].low = sock[x].low
    <2> HIDE DEF sl
    <2> QED
      BY <1>3, <1>10 DEF s
  <1>16. ToldInv'
    <2>1. \A x : Opening(x)' <=> Opening(x)
      BY <1>1 DEF Opening, IsOpen
    <2>2. \A x \in known : SlotOf(x) \in Slot
      BY <1>3, SlotIsSlot, ZeroIsSlot
    <2> QED
      BY <1>1, <1>2, <1>15, <2>1, <2>2, ToldWork DEF Live
  <1>17. CountInv'
    <2>1. \A x : PostingIn(call', x) = PostingIn(call, x)
      BY <1>8, <1>9, PostingSame
    <2> QED
      BY <1>1, <1>2, <1>15, <2>1, CountWork
  <1>18. CloseInv'
    BY <1>1, <1>2, <1>15, CloseWork
  <1>19. DataInv'
    <2>1. ASSUME NEW x \in Slot, sock'[x].type \notin {"INVALID", "RESERVE"}
          PROVE  /\ Live(x) /\ sock'[x].id = sock[x].id
                 /\ KeptIn(call', sock'[x]) = KeptIn(call, sock[x])
                 /\ sock'[x].high = sock[x].high /\ sock'[x].low = sock[x].low
      <3>1. Live(x)
        BY <1>15, <2>1 DEF Live
      <3>2. CASE x = sl
        <4>1. KeptIn(call, s) = rest
          BY <1>4 DEF KeptIn, CallerAssumption
        <4>2. KeptIn(call', sock'[x]) = rest
          <5> HIDE DEF rest
          <5> QED
            BY <1>10, <3>2 DEF KeptIn
        <4> QED
          BY <1>15, <3>1, <3>2, <4>1, <4>2
      <3>3. CASE x # sl
        <4>1. sock'[x] = sock[x] /\ sock[x].lock # c
          BY <1>10, <1>13, <3>3
        <4>2. sock[x].lock \in Caller \cup {NoOne}
          BY <1>2, SocketFields
        <4>3. KeptIn(call', sock'[x]) = KeptIn(call, sock[x])
          BY <1>8, <4>1, <4>2 DEF KeptIn
        <4> QED
          BY <3>1, <4>1, <4>3
      <3> QED
        BY <3>2, <3>3
    <2> QED
      BY <1>1, <1>2, <1>12, <2>1, DataFrame
  <1>20. WireSent' /\ WireWhole' /\ SendOrder'
    BY <1>1, WireSame
  <1> QED
    BY <1>11, <1>14, <1>16, <1>17, <1>18, <1>19, <1>20, Whole9

-----------------------------------------------------------------------------
(* A worker writes to a socket directly.                                   *)

(* The second look finds that it may not. *)
LEMMA DirectRefused ==
  ASSUME BoundAssumption, CallerAssumption, IInv, ~failed, NEW c \in Caller,
         call[c].step = "direct",
         call' = [call EXCEPT ![c].step = "ref"],
         UNCHANGED <<alloc, sock, pipe, ctl, ev, fc, wire, peer, told, known,
                     cut, sends, calls, failed>>
  PROVE  IInv'
  <1> DEFINE k == call[c]
  <1>1. /\ TypeOK /\ WireSent /\ WireWhole /\ SendOrder
        /\ StateInv /\ CountInv /\ ToldInv /\ CloseInv /\ DataInv
    BY Parts
  <1>2. /\ CallInv(c) /\ k \in Call /\ alloc \in Nat /\ Len(sends) \in Nat
    BY <1>1, CallFields DEF StateInv, TypeOK
  <1>3. /\ call' \in [Caller -> Call] /\ call'[c] = [k EXCEPT !.step = "ref"]
        /\ \A d \in Caller \ {c} : call'[d] = call[d]
    BY <1>1, <1>2 DEF TypeOK, Call
  <1>4. /\ call'[c].step = "ref" /\ call'[c].cmd = k.cmd
        /\ call'[c].id = k.id /\ call'[c].msg = k.msg
    BY <1>2, <1>3 DEF Call
  <1>5. /\ ~OpensIn(call', c) /\ ~Posts(call', c) /\ ~Posts(call, c)
        /\ \A d \in Caller : CarriesIn(call', d) =>
             /\ CarriesIn(call, d) /\ call'[d].msg = call[d].msg
             /\ call'[d].step # "written" => call[d].step # "written"
    BY <1>3, <1>4 DEF OpensIn, Posts, CarriesIn
  <1>6. TypeOK'
    BY <1>1, <1>3, WorkerTypes DEF TypeOK
  <1>7. Works(c) /\ DataKept
    <2>1. SendsKept /\ PostsKept
      BY <1>2 DEF SendsKept, PostsKept
    <2>2. CarriesKept
      BY <1>5 DEF CarriesKept
    <2>3. \A m \in 1..Len(sends') : ~(m > Len(sends))
      BY <1>2
    <2> QED
      BY <1>2, <1>3, <2>1, <2>2, <2>3 DEF Works, DataKept
  <1>8. StateInv'
    <2>1. IdInv'
      BY <1>1 DEF StateInv, IdInv, SlotOf
    <2>2. \A x \in Slot : SlotInv(x)'
      BY <1>1, <1>7, OtherSlot
    <2>3. CallInv(c)'
      <3>1. /\ IsSend(k) /\ k.id \in known /\ Has(told[k.id], "open")
            /\ k.msg \in 1..Len(sends)
            /\ sends[k.msg] =
                 [by |-> c, to |-> k.id, low |-> k.cmd = "send_low"]
            /\ \A i \in (k.msg + 1)..Len(sends) : sends[i].by # c
        BY <1>2 DEF CallInv, Carries
      <3> HIDE DEF k
      <3>2. /\ IsSend(call'[c]) /\ call'[c].id \in known'
            /\ Has(told'[call'[c].id], "open")
            /\ call'[c].msg \in 1..Len(sends')
            /\ sends'[call'[c].msg] = [by |-> c, to |-> call'[c].id,
                                       low |-> call'[c].cmd = "send_low"]
            /\ \A i \in (call'[c].msg + 1)..Len(sends') : sends'[i].by # c
        BY <1>4, <3>1 DEF IsSend
      <3>3. ~Opens(c)'
        BY <1>4 DEF Opens
      <3> QED
        BY <1>4, <3>2, <3>3 DEF CallInv, IsSend
    <2>4. ASSUME NEW d \in Caller \ {c}
          PROVE  CallInv(d)'
      <3>1. Opens(d) => call[d].id \notin known
        BY <1>1 DEF StateInv, CallInv
      <3>2. Steady(c, d)
        BY <1>5, <3>1 DEF Steady
      <3> QED
        BY <1>1, <1>7, <3>2, OtherCall
    <2>5. \A i \in DOMAIN pipe : PipeInv(i)'
      BY <1>1, <1>5, <1>7, OtherRequest
    <2>6. \A d \in Caller : CallInv(d)'
      BY <2>3, <2>4
    <2> QED
      BY <2>1, <2>2, <2>5, <2>6 DEF StateInv
  <1>9. ToldInv'
    <2>1. \A x : Opening(x)' <=> Opening(x)
      BY DEF Opening, IsOpen
    <2> QED
      BY <1>1, <2>1, ToldWork DEF Live
  <1>10. CountInv'
    <2>1. \A x : PostingIn(call', x) = PostingIn(call, x)
      BY <1>3, <1>5, PostingSame
    <2> QED
      BY <1>1, <2>1, CountWork
  <1>11. CloseInv'
    BY <1>1, CloseWork
  <1>12. DataInv'
    <2>1. \A x \in Slot : sock'[x].type \notin {"INVALID", "RESERVE"} =>
            Live(x) /\ sock'[x] = sock[x]
      BY DEF Live
    <2> QED
      BY <1>1, <1>3, <1>7, <2>1, DataWork
  <1>13. WireSent' /\ WireWhole' /\ SendOrder'
    BY WireSame
  <1> QED
    BY <1>6, <1>8, <1>9, <1>10, <1>11, <1>12, <1>13, Whole9

(* Nothing goes before what socket id is to send next. *)
Alone(n, q, k, w, x, id) ==
  /\ Lined(n, q, k, w, <<>>, <<>>, id)
  /\ id \notin x => Entire(w, <<>>, <<>>)

(* b units of message m went on the wire behind w; the rest is kept.       *)
Partly(u, k, t, w, m, b, id) ==
  /\ t.id = id /\ t.high = <<>> /\ t.low = <<>>
  /\ u[id] = w \o SubSeq(Message(m), 1, b)
  /\ KeptIn(k, t) = Rest(Message(m), b)

LEMMA WrittenDirect ==
  ASSUME BoundAssumption, NEW u, NEW n, NEW q, NEW k, NEW id,
         NEW m \in 1..MaxSend, NEW w \in Seq(Unit), NEW b \in 0..Units,
         NEW x, Alone(n, q, k, w, x, id), Fresh(n, q, k, w, m, id),
         NEW t, Partly(u, k, t, w, m, b, id)
  PROVE  /\ StreamIn(u, n, q, k, x, t)
         /\ u[id] \in Seq(Unit) /\ SentIn(n, u[id], id) /\ OrderedIn(n, u[id])
         /\ id \notin x => Chained(u[id])
  <1> DEFINE h == SubSeq(Message(m), 1, b)
             r == Rest(Message(m), b)
             out == w \o Message(m)
  <1>0. /\ Lined(n, q, k, w, <<>>, <<>>, id)
        /\ id \notin x => Entire(w, <<>>, <<>>)
        /\ t.id = id /\ t.high = <<>> /\ t.low = <<>>
    BY DEF Alone, Partly
  <1>1. /\ Message(m) \in Seq(Unit) /\ Len(Message(m)) = Units
        /\ <<>> \in Seq(Unit) /\ b \in Nat
    BY MessageUnits, EmptySeq DEF BoundAssumption
  <1>2. h \in Seq(Unit) /\ r \in Seq(Unit)
    BY <1>1, Cuts
  <1>3. h \o r = Message(m)
    <2>1. 0 \in 0..(Len(Message(m)) - b)
      BY <1>1 DEF BoundAssumption
    <2>2. b \in 0..Len(Message(m))
      BY <1>1
    <2> QED
      BY <1>1, <2>1, <2>2, CutTwice
  <1> HIDE DEF h, r
  <1>4. (w \o h) \o r = out
    <2>1. (w \o h) \o r = w \o (h \o r)
      BY <1>2, Associative
    <2> QED
      BY <1>3, <2>1
  <1>5. /\ w \o h \in Seq(Unit) /\ out \in Seq(Unit)
        /\ w \o <<>> = w /\ out \o <<>> = out
    <2>1. w \o h \in Seq(Unit) /\ out \in Seq(Unit)
      BY <1>1, <1>2, Concat
    <2> HIDE DEF out
    <2> QED
      BY <2>1, ConcatEmptySeq
  <1>6. /\ Lined(n, q, k, w, Message(m), <<>>, id)
        /\ Entire(w, <<>>, <<>>) => Entire(w, Message(m), <<>>)
    <2> DEFINE e == <<>>
               g == Message(m)
    <2>1. Fresh(n, q, k, w \o e \o e, m, id)
      BY <1>5
    <2>2. Joins(n, m, e, e, g, e)
      BY DEF Joins
    <2>3. Lined(n, q, k, w, e, e, id) /\ e \in Seq(Unit)
      BY <1>0, <1>1
    <2> HIDE DEF e, g
    <2>4. /\ Lined(n, q, k, w, g, e, id)
          /\ Entire(w, e, e) => Entire(w, g, e)
      BY <2>1, <2>2, <2>3, Queued
    <2> QED
      BY <2>4 DEF e, g
  <1>7. /\ Sorted(n, q, k, out, id) /\ LowerIn(n, <<>>) /\ Whole(<<>>)
        /\ id \notin x => Whole(out) /\ IsInjective(out)
    BY <1>0, <1>5, <1>6 DEF Lined, Entire
  <1>8. u[id] = w \o h /\ KeptIn(k, t) = r
    BY DEF h, r, Partly
  <1>9. StreamIn(u, n, q, k, x, t)
    <2> HIDE DEF out
    <2> QED
      BY <1>0, <1>4, <1>5, <1>7, <1>8 DEF StreamIn
  <1>10. /\ SentIn(n, w \o h, id) /\ OrderedIn(n, w \o h)
         /\ id \notin x => Chained(w \o h)
    <2> DEFINE v == w \o h
    <2>1. v \in Seq(Unit) /\ v \o r = out
      BY <1>4, <1>5
    <2> HIDE DEF v, out
    <2>2. SentIn(n, v, id) /\ OrderedIn(n, v) /\ (id \notin x => Chained(v))
      BY <1>2, <1>7, <2>1, Taken
    <2> QED
      BY <2>2 DEF v
  <1> QED
    BY <1>5, <1>8, <1>9, <1>10

LEMMA DirectDone ==
  ASSUME BoundAssumption, CallerAssumption, IInv, ~failed, NEW c \in Caller,
         call[c].step = "direct", NEW id, id = call[c].id,
         NEW sl, sl = SlotOf(id), NEW m, m = call[c].msg,
         sock[sl].lock = NoOne, CanDirect(id), NEW n \in 0..Units,
         wire' = [wire EXCEPT ![id] = @ \o SubSeq(Message(m), 1, n)],
         \/ n = Units /\ call' = [call EXCEPT ![c] = NoCall] /\ sock' = sock
         \/ /\ n # Units /\ sock' = [sock EXCEPT ![sl].lock = c]
            /\ call' = [call EXCEPT ![c].step = "written", ![c].n = n],
         UNCHANGED <<alloc, pipe, ctl, ev, fc, peer, told, known, cut, sends,
                     calls, failed>>
  PROVE  IInv'
  <1> DEFINE k == call[c]
             s == sock[sl]
             j == call'[c]
             t == sock'[sl]
  <1>1. /\ TypeOK /\ WireSent /\ WireWhole /\ SendOrder
        /\ StateInv /\ CountInv /\ ToldInv /\ CloseInv /\ DataInv
    BY Parts
  <1>2. /\ CallInv(c) /\ k \in Call /\ id \in 0..MaxId /\ id \in Nat
        /\ m \in 0..MaxSend /\ known \subseteq Id /\ alloc \in Nat
        /\ Len(sends) \in Nat /\ sl \in Slot /\ Units \in Nat
        /\ MaxSend \in Nat
    BY <1>1, CallFields, SlotIsSlot DEF StateInv, TypeOK, BoundAssumption
  <1>3. /\ IsSend(k) /\ id \in known /\ Has(told[id], "open")
        /\ m \in 1..Len(sends)
        /\ sends[m] = [by |-> c, to |-> id, low |-> k.cmd = "send_low"]
        /\ \A i \in (m + 1)..Len(sends) : sends[i].by # c
    BY <1>2 DEF CallInv, Carries
  <1>4. /\ id \in Id /\ m \in 1..MaxSend /\ id # 0
    BY <1>2, <1>3, ZeroIsSlot
  <1>5. /\ s.id = id /\ s.type = "CONNECTED" /\ s.high = <<>> /\ s.low = <<>>
        /\ s.dw = <<>> /\ s.sending = 0 /\ Live(sl)
    BY DEF CanDirect, NoMoreSending, Empty, Live
  <1>6. /\ SlotInv(sl) /\ s \in Socket /\ s.tcp /\ s.tag = s.id
        /\ ~s.closing
    <2>1. SlotInv(sl) /\ s \in Socket
      BY <1>1, <1>2, SocketFields DEF StateInv
    <2> QED
      BY <1>5, <2>1 DEF SlotInv
  <1>7. /\ sock' \in [Slot -> Socket]
        /\ \A x \in Slot \ {sl} : sock'[x] = sock[x]
        /\ t.id = id /\ t.tcp /\ t.tag = id /\ t.type = "CONNECTED"
        /\ ~t.closing /\ t.sending = 0 /\ t.high = <<>> /\ t.low = <<>>
        /\ t.dw = <<>> /\ t.lock = IF n = Units THEN NoOne ELSE c
    <2>1. CASE n = Units
      BY <1>1, <1>5, <1>6, <2>1 DEF TypeOK
    <2>2. CASE n # Units
      <3>1. sock' = [sock EXCEPT ![sl] = [s EXCEPT !.lock = c]]
        BY <1>1, <1>2, <2>2 DEF TypeOK
      <3>2. [s EXCEPT !.lock = c] \in Socket
        BY <1>6 DEF Socket
      <3> QED
        BY <1>1, <1>2, <1>5, <1>6, <2>2, <3>1, <3>2, ZenonT(40)
          DEF TypeOK, Socket
    <2> QED
      BY <2>1, <2>2
  <1>8. /\ call' \in [Caller -> Call]
        /\ \A d \in Caller \ {c} : call'[d] = call[d]
        /\ IF n = Units THEN j.step = "idle"
           ELSE /\ j.step = "written" /\ j.n = n /\ j.cmd = k.cmd
                /\ j.id = id /\ j.msg = m
    <2>1. CASE n = Units
      <3>1. call' = [call EXCEPT ![c] = NoCall]
        BY <2>1
      <3>2. NoCall \in Call /\ NoCall.step = "idle"
        BY NoCallType
      <3> QED
        BY <1>1, <2>1, <3>1, <3>2 DEF TypeOK
    <2>2. CASE n # Units
      <3>1. call' = [call EXCEPT ![c] = [k EXCEPT !.step = "written",
                                                  !.n = n]]
        BY <1>1, <2>2 DEF TypeOK
      <3>2. [k EXCEPT !.step = "written", !.n = n] \in Call
        BY <1>2 DEF Call
      <3> QED
        BY <1>1, <1>2, <2>2, <3>1, <3>2 DEF TypeOK, Call
    <2> QED
      BY <2>1, <2>2
  <1>9. /\ j.step \in {"idle", "written"}
        /\ ~OpensIn(call', c) /\ ~Posts(call, c) /\ ~Posts(call', c)
        /\ \A d \in Caller : CarriesIn(call', d) =>
             /\ CarriesIn(call, d) /\ call'[d].msg = call[d].msg
             /\ call'[d].step # "written" =>
                  d # c /\ call[d].step # "written"
    BY <1>8 DEF OpensIn, Posts, CarriesIn
  <1> HIDE DEF j, t
  <1>10. PICK w \in Seq(Unit) : w = wire[id]
    BY <1>1, <1>4 DEF TypeOK
  <1>11. /\ Message(m) \in Seq(Unit) /\ Len(Message(m)) = Units
         /\ SubSeq(Message(m), 1, n) \in Seq(Unit)
    BY <1>4, MessageUnits, Cuts
  <1>12. /\ wire' \in [Id -> Seq(Unit)]
         /\ wire'[id] = w \o SubSeq(Message(m), 1, n)
         /\ \A x \in Id \ {id} : wire'[x] = wire[x]
    <2>1. w \o SubSeq(Message(m), 1, n) \in Seq(Unit)
      BY <1>11, Concat
    <2> QED
      BY <1>1, <1>4, <1>10, <2>1 DEF TypeOK
  <1>13. TypeOK'
    BY <1>1, <1>7, <1>8, <1>12, WorkerTypes DEF TypeOK
  <1>14. Works(c) /\ DataKept
    <2>1. SendsKept /\ PostsKept
      BY <1>2 DEF SendsKept, PostsKept
    <2>2. CarriesKept
      BY <1>9 DEF CarriesKept
    <2>3. \A i \in 1..Len(sends') : ~(i > Len(sends))
      BY <1>2
    <2> QED
      BY <1>2, <1>8, <2>1, <2>2, <2>3 DEF Works, DataKept
  <1>15. KeptIn(call', t) = Rest(Message(m), n)
    <2>1. CASE n = Units
      <3>1. Rest(Message(m), n) \in Seq(Unit) /\ Len(Rest(Message(m), n)) = 0
        BY <1>2, <1>11, <2>1, Cuts
      <3> QED
        BY <1>7, <2>1, <3>1 DEF KeptIn
    <2>2. CASE n # Units
      BY <1>7, <1>8, <1>11, <2>2, ZenonT(40)
      DEF KeptIn, Rest, CallerAssumption, j
    <2> QED
      BY <2>1, <2>2
  <1>16. /\ Sorted(sends, pipe, call, w, id) /\ LowerIn(sends, <<>>)
         /\ Whole(<<>>) /\ w \o <<>> = w
         /\ id \notin cut => Whole(w) /\ IsInjective(w)
    <2>1. StreamIn(wire, sends, pipe, call, cut, s)
      BY <1>1, <1>2, <1>5, StreamSame DEF DataInv
    <2>2. KeptIn(call, s) = <<>>
      BY <1>5 DEF KeptIn
    <2>3. w \o <<>> = w
      BY <1>10, ConcatEmptySeq
    <2> HIDE DEF s
    <2> QED
      BY <1>5, <1>10, <2>1, <2>2, <2>3 DEF StreamIn
  <1>17. Sorted(sends', pipe', call', w, id)
    BY <1>1, <1>14, <1>16, SortedKept
  <1>18. Alone(sends', pipe', call', w, cut', id)
    BY <1>16, <1>17 DEF Alone, Lined, Entire
  <1>19. Partly(wire', call', sock'[sl], w, m, n, id)
    BY <1>7, <1>12, <1>15 DEF Partly, t
  <1>20. PostedIn(pipe, id) = {}
    <2>1. /\ IsFiniteSet(Posted(id)) /\ Cardinality(Posted(id)) \in Nat
          /\ Cardinality(Posting(id)) \in Nat
      BY <1>1, SendsFinite
    <2>2. 0 = Cardinality(Posted(id)) + Cardinality(Posting(id))
      BY <1>1, <1>2, <1>5, <1>6 DEF CountInv
    <2>3. Cardinality(Posted(id)) = 0
      BY <2>1, <2>2
    <2> QED
      BY <2>1, <2>3, FS_EmptySet DEF Posted, PostedIn
  <1>21. Fresh(sends', pipe', call', w, m, id)
    <2>1. \A i \in DOMAIN w :
            w[i][1] # m /\ (sends[w[i][1]].by = sends[m].by => w[i][1] < m)
      <3> SUFFICES ASSUME NEW i \in DOMAIN w
                   PROVE  /\ w[i][1] # m
                          /\ sends[w[i][1]].by = c => w[i][1] < m
        BY <1>3
      <3>1. w[i][1] \in 1..Len(sends)
        BY <1>16 DEF Sorted, SentIn
      <3>2. w[i][1] # m
        BY <1>16 DEF Sorted, LetGoIn, CarriesIn
      <3>3. w[i][1] \in (m + 1)..Len(sends) => sends[w[i][1]].by # c
        BY <1>3
      <3>4. PICK y \in 1..Len(sends) : y = w[i][1]
        BY <3>1
      <3> QED
        BY <1>2, <1>3, <3>2, <3>3, <3>4, SMTT(30)
    <2>2. ASSUME NEW d \in Caller, CarriesIn(call', d),
                 call'[d].step # "written"
          PROVE  call'[d].msg # m
      <3>1. d # c /\ Carries(d) /\ call'[d].msg = call[d].msg
        BY <1>9, <2>2, CarriesSame
      <3>2. sends[call[d].msg].by = d
        <4>1. CallInv(d)
          BY <1>1 DEF StateInv
        <4> QED
          BY <3>1, <4>1 DEF CallInv
      <3> QED
        BY <1>3, <3>1, <3>2
    <2> QED
      BY <1>3, <1>20, <2>1, <2>2 DEF Fresh
  <1>22. /\ StreamIn(wire', sends', pipe', call', cut', t)
         /\ SentIn(sends', wire'[id], id) /\ OrderedIn(sends', wire'[id])
         /\ id \notin cut' => Chained(wire'[id])
    <2> DEFINE u == wire'
               v == sends'
               q == pipe'
               h == call'
               x == cut'
               y == sock'[sl]
    <2>1. /\ Alone(v, q, h, w, x, id) /\ Partly(u, h, y, w, m, n, id)
          /\ Fresh(v, q, h, w, m, id)
      BY <1>18, <1>19, <1>21
    <2>2. /\ BoundAssumption /\ m \in 1..MaxSend
          /\ w \in Seq(Unit) /\ n \in 0..Units
      BY <1>4, <1>10
    <2> HIDE DEF u, v, q, h, x, y
    <2>3. /\ StreamIn(u, v, q, h, x, y)
          /\ SentIn(v, u[id], id) /\ OrderedIn(v, u[id])
          /\ id \notin x => Chained(u[id])
      BY <2>1, <2>2, WrittenDirect
    <2> QED
      BY <2>3 DEF u, v, q, h, x, y, t
  (* No socket is locked by the worker yet. *)
  <1>23. ASSUME NEW x \in Slot
         PROVE  sock[x].lock # c
    <2>1. SlotInv(x)
      BY <1>1 DEF StateInv
    <2> QED
      BY <2>1 DEF SlotInv, CallerAssumption
  <1>24. \A x \in Slot :
           /\ sock'[x].type = sock[x].type /\ sock'[x].id = sock[x].id
           /\ sock'[x].tcp = sock[x].tcp /\ sock'[x].sending = sock[x].sending
           /\ sock'[x].high = sock[x].high /\ sock'[x].low = sock[x].low
    <2> SUFFICES ASSUME NEW x \in Slot
                 PROVE  /\ sock'[x].type = sock[x].type
                        /\ sock'[x].id = sock[x].id
                        /\ sock'[x].tcp = sock[x].tcp
                        /\ sock'[x].sending = sock[x].sending
                        /\ sock'[x].high = sock[x].high
                        /\ sock'[x].low = sock[x].low
      OBVIOUS
    <2>1. CASE x = sl
      <3>1. sock'[x].tcp = sock[x].tcp
        BY <1>6, <1>7, <2>1, Zenon DEF t
      <3> QED
        BY <1>5, <1>7, <2>1, <3>1 DEF t
    <2>2. CASE x # sl
      BY <1>7, <2>2
    <2> QED
      BY <2>1, <2>2
  <1>25. IdInv'
    <2>1. \A x \in known : SlotOf(x) \in Slot /\ x \in Id
      BY <1>2, SlotIsSlot, ZeroIsSlot
    <2>2. \A x \in Id \ known : wire'[x] = wire[x]
      BY <1>3, <1>12
    <2> QED
      BY <1>1, <1>24, <2>1, <2>2 DEF StateInv, IdInv, SlotOf
  <1>26. ASSUME NEW x \in Slot, x = sl
         PROVE  SlotInv(x)'
    <2>1. id \in 0..alloc /\ SlotOf(id) = x
      BY <1>5, <1>6, <1>26 DEF SlotInv
    <2>2. /\ sock'[x].id = id /\ sock'[x].tcp /\ sock'[x].tag = id
          /\ sock'[x].type = "CONNECTED" /\ ~sock'[x].closing
          /\ sock'[x].dw = <<>>
          /\ sock'[x].lock = IF n = Units THEN NoOne ELSE c
      BY <1>7, <1>26 DEF t
    <2>3. sock'[x].lock # NoOne =>
            /\ call'[sock'[x].lock].step = "written"
            /\ call'[sock'[x].lock].id = id
      BY <1>8, <2>2 DEF j
    <2> QED
      BY <1>3, <1>4, <2>1, <2>2, <2>3 DEF SlotInv, Live, SlotOf
  <1>27. \A x \in Slot \ {sl} : SlotInv(x)'
    BY <1>1, <1>7, <1>14, OtherSlot
  <1>28. CallInv(c)'
    <2>1. ~Opens(c)'
      BY <1>9 DEF Opens, OpensIn, IsOpen
    <2>2. CASE n = Units
      <3>1. call'[c].step = "idle" /\ ~Carries(c)'
        BY <1>8, <2>2 DEF Carries, j
      <3> QED
        BY <2>1, <3>1 DEF CallInv
    <2>3. CASE n # Units
      <3>1. /\ call'[c].step = "written" /\ call'[c].n = n
            /\ call'[c].cmd = k.cmd /\ call'[c].id = id /\ call'[c].msg = m
        BY <1>8, <2>3 DEF j
      <3>2. /\ sock'[SlotOf(call'[c].id)].lock = c
            /\ sock'[SlotOf(call'[c].id)].id = id
        BY <1>7, <2>3, <3>1 DEF t
      <3>3. /\ IsSend(call'[c]) /\ call'[c].id \in known'
            /\ Has(told'[call'[c].id], "open")
            /\ call'[c].msg \in 1..Len(sends')
            /\ sends'[call'[c].msg] = [by |-> c, to |-> call'[c].id,
                                       low |-> call'[c].cmd = "send_low"]
            /\ \A i \in (call'[c].msg + 1)..Len(sends') : sends'[i].by # c
        <4> HIDE DEF k
        <4> QED
          BY <1>3, <3>1 DEF IsSend
      <3>4. call'[c].n < Units
        BY <1>2, <2>3, <3>1
      <3> QED
        BY <2>1, <3>1, <3>2, <3>3, <3>4 DEF CallInv, IsSend, SlotOf
    <2> QED
      BY <2>2, <2>3
  <1>29. ASSUME NEW d \in Caller \ {c}
         PROVE  CallInv(d)'
    <2>1. CallInv(d) /\ SlotOf(call[d].id) \in Slot
      BY <1>1, CallFields, SlotIsSlot DEF StateInv, BoundAssumption
    <2>2. Opens(d) => call[d].id \notin known
      BY <2>1 DEF CallInv
    <2>3. call[d].step = "written" => SlotOf(call[d].id) # sl
      BY <2>1 DEF CallInv, CallerAssumption
    <2>4. call[d].step = "written" =>
            sock'[SlotOf(call[d].id)].lock = sock[SlotOf(call[d].id)].lock
      BY <1>7, <2>1, <2>3
    <2>5. Steady(c, d)
      BY <1>9, <1>24, <2>1, <2>2, <2>4 DEF Steady
    <2> QED
      BY <1>1, <1>14, <2>5, OtherCall
  <1>30. ASSUME NEW i \in DOMAIN pipe
         PROVE  PipeInv(i)'
    <2>1. pipe[i].id \in Id /\ SlotOf(pipe[i].id) \in Slot
      BY <1>1, PipeFields, SlotIsSlot, ZeroIsSlot
    <2>2. IsOpen(pipe[i]) => pipe[i].id # id
      BY <1>1, <1>3 DEF StateInv, PipeInv, Has
    <2>3. IsOpen(pipe[i]) => wire'[pipe[i].id] = wire[pipe[i].id]
      BY <1>12, <2>1, <2>2
    <2> QED
      BY <1>1, <1>9, <1>14, <1>24, <2>1, <2>3, OtherRequest
  <1>31. StateInv'
    <2>1. \A x \in Slot : SlotInv(x)'
      BY <1>26, <1>27
    <2>2. \A d \in Caller : CallInv(d)'
      BY <1>28, <1>29
    <2> QED
      BY <1>25, <1>30, <2>1, <2>2 DEF StateInv
  <1>32. ToldInv'
    <2>1. \A x : Opening(x)' <=> Opening(x)
      BY DEF Opening, IsOpen
    <2>2. \A x \in known : SlotOf(x) \in Slot
      BY <1>2, SlotIsSlot, ZeroIsSlot
    <2> QED
      BY <1>1, <1>24, <2>1, <2>2, ToldWork DEF Live
  <1>33. CountInv'
    <2>1. \A x : PostingIn(call', x) = PostingIn(call, x)
      BY <1>8, <1>9, PostingSame
    <2> QED
      BY <1>1, <1>24, <2>1, CountWork
  <1>34. CloseInv'
    BY <1>1, <1>24, CloseWork
  <1>35. DataInv'
    <2>1. \A x \in Slot \ {sl} :
            KeptIn(call', sock[x]) = KeptIn(call, sock[x])
      <3>1. \A x \in Slot : sock[x].lock \in Caller \cup {NoOne}
        BY <1>1, SocketFields
      <3> QED
        BY <1>8, <1>23, <3>1 DEF KeptIn
    <2>2. \A x \in Id \ {sock[sl].id} : wire'[x] = wire[x]
      BY <1>5, <1>12
    <2>3. StreamIn(wire', sends', pipe', call', cut', sock'[sl])
      BY <1>22 DEF t
    <2> QED
      BY <1>1, <1>2, <1>7, <1>14, <2>1, <2>2, <2>3, DataStep
  <1>36. WireSent' /\ WireWhole' /\ SendOrder'
    <2>1. SendsKept
      BY <1>14 DEF DataKept
    <2>2. \A x \in Id :
            \/ wire'[x] = wire[x]
            \/ /\ SentIn(sends', wire'[x], x) /\ OrderedIn(sends', wire'[x])
               /\ x \notin cut' => Chained(wire'[x])
      BY <1>12, <1>22
    <2> QED
      BY <1>1, <2>1, <2>2, WireStep
  <1> QED
    BY <1>13, <1>31, <1>32, <1>33, <1>34, <1>35, <1>36, Whole9

LEMMA SendDirectStep ==
  ASSUME BoundAssumption, CallerAssumption, IInv, NEW c \in Caller,
         SendDirect(c)
  PROVE  IInv'
  <1> DEFINE id == call[c].id
  <1>1. /\ ~failed /\ call[c].step = "direct"
        /\ UNCHANGED <<alloc, pipe, ctl, ev, fc, peer, told, known, cut, sends,
                       calls, failed>>
    BY DEF SendDirect, Step
  <1>2. CASE sock[SlotOf(id)].lock # NoOne \/ ~CanDirect(id)
    <2>1. /\ call' = [call EXCEPT ![c].step = "ref"]
          /\ UNCHANGED <<sock, wire>>
      BY <1>2 DEF SendDirect, Goto
    <2> QED
      BY <1>1, <2>1, DirectRefused
  <1>3. CASE ~(sock[SlotOf(id)].lock # NoOne \/ ~CanDirect(id))
    <2>1. PICK n \in IF peer[id] = "rst" THEN {0} ELSE 0..Units :
            /\ wire' = [wire EXCEPT ![id] =
                         @ \o SubSeq(Message(call[c].msg), 1, n)]
            /\ IF n = Units
               THEN Return(c) /\ UNCHANGED sock
               ELSE /\ sock' = [sock EXCEPT ![SlotOf(id)].lock = c]
                    /\ call' = [call EXCEPT ![c].step = "written",
                                            ![c].n = n]
      BY <1>3 DEF SendDirect
    <2>2. n \in 0..Units
      BY <2>1 DEF BoundAssumption
    <2>3. \/ /\ n = Units /\ call' = [call EXCEPT ![c] = NoCall]
             /\ sock' = sock
          \/ /\ n # Units /\ sock' = [sock EXCEPT ![SlotOf(id)].lock = c]
             /\ call' = [call EXCEPT ![c].step = "written", ![c].n = n]
      BY <2>1 DEF Return
    <2> QED
      BY <1>1, <1>3, <2>1, <2>2, <2>3, DirectDone
  <1> QED
    BY <1>2, <1>3

-----------------------------------------------------------------------------
(* A slot gets a new socket, or the socket could not be made.              *)

LEMMA NothingSent ==
  ASSUME NEW u, NEW n, NEW q, NEW k, NEW x, NEW t, u[t.id] = <<>>,
         KeptIn(k, t) = <<>>, t.high = <<>>, t.low = <<>>
  PROVE  StreamIn(u, n, q, k, x, t)
  <1>1. <<>> \o <<>> = <<>>
    OBVIOUS
  <1>2. Sorted(n, q, k, <<>>, t.id) /\ LowerIn(n, <<>>) /\ Whole(<<>>)
    BY DEF Sorted, SentIn, BeforeIn, LetGoIn, OrderedIn, LowerIn, Whole
  <1>3. IsInjective(<<>>)
    BY DEF IsInjective
  <1> QED
    BY <1>1, <1>2, <1>3 DEF StreamIn

(* t is a new socket, or one that could not be made, whose owner is told   *)
(* word; slot sl gets it.                                                  *)
Makes(t, id, word) ==
  /\ t.id = id /\ t.type # "RESERVE" /\ t.high = <<>> /\ t.low = <<>>
  /\ t.dw = <<>> /\ t.lock = NoOne
  /\ t.tcp => t.tag = id /\ t.sending = 0
  /\ IF t.type = "INVALID" THEN word = "err"
     ELSE /\ t.tcp /\ ~t.closing /\ t.type # "HALFCLOSE_READ"
          /\ t.type = "CONNECTING" => word = "none"

Settles(sl, id, word) ==
  /\ Makes(sock'[sl], id, word)
  /\ \A x \in Slot \ {sl} : sock'[x] = sock[x]
  /\ known' = known \cup {id}
  /\ told[id] = <<>> /\ wire[id] = <<>>
  /\ told'[id] = IF word = "none" THEN <<>> ELSE <<word>>
  /\ \A x \in Id \ {id} : told'[x] = told[x]

(* The slot is free for it: none of its earlier sockets is to be told of   *)
(* anything, and no worker and no request has to do with it.               *)
Vacant(sl, id) ==
  /\ ~Live(sl) /\ sock[sl].id <= id
  /\ \A y \in known \ {id} : SlotOf(y) = sl => Ended(told[y])
  /\ \A c \in Caller : Opens(c) => SlotOf(call[c].id) # sl
  /\ \A i \in DOMAIN pipe' : IsOpen(pipe'[i]) => SlotOf(pipe'[i].id) # sl

OpeningDone(id) ==
  \/ pipe' = pipe
  \/ /\ pipe # <<>> /\ pipe' = Tail(pipe)
     /\ IsOpen(Head(pipe)) /\ Head(pipe).id = id

LEMMA DoneShift ==
  ASSUME TypeOK, NEW id, OpeningDone(id)
  PROVE  \E d \in {0, 1} :
           /\ \A i \in DOMAIN pipe' :
                /\ i \in Nat /\ i + d \in DOMAIN pipe
                /\ pipe'[i] = pipe[i + d]
           /\ \A i \in DOMAIN pipe :
                \/ i \in Nat /\ i - d \in DOMAIN pipe' /\ (i - d) + d = i
                \/ d = 1 /\ i = 1 /\ IsOpen(pipe[i]) /\ pipe[i].id = id
  <1>1. CASE pipe' = pipe
    <2>1. pipe \in Seq(Request) /\ DOMAIN pipe = 1..Len(pipe)
      BY DEF TypeOK
    <2>2. \A i \in DOMAIN pipe : i \in Nat /\ i + 0 = i /\ i - 0 = i
      BY <2>1
    <2> QED
      BY <1>1, <2>1, <2>2
  <1>2. CASE /\ pipe # <<>> /\ pipe' = Tail(pipe)
             /\ IsOpen(Head(pipe)) /\ Head(pipe).id = id
    <2>1. \A i \in DOMAIN pipe' : /\ i \in Nat /\ i + 1 \in DOMAIN pipe
                                  /\ pipe'[i] = pipe[i + 1]
      BY <1>2, PipeTail
    <2>2. \A i \in DOMAIN pipe :
            \/ i \in Nat /\ i - 1 \in DOMAIN pipe' /\ (i - 1) + 1 = i
            \/ i = 1 /\ IsOpen(pipe[i]) /\ pipe[i].id = id
      BY <1>2, PipeTail
    <2> QED
      BY <2>1, <2>2
  <1> QED
    BY <1>1, <1>2 DEF OpeningDone

LEMMA Settled ==
  ASSUME BoundAssumption, CallerAssumption, IInv, ~failed, TypeOK', CloseInv',
         NEW id \in Id, NEW sl \in Slot, SlotOf(id) = sl,
         NEW word \in {"none", "err", "open", "accept"},
         Settles(sl, id, word), Vacant(sl, id), OpeningDone(id),
         UNCHANGED <<call, wire, sends, cut>>,
         alloc' \in Nat, alloc' >= alloc, id <= alloc'
  PROVE  IInv'
  <1> DEFINE s == sock[sl]
             t == sock'[sl]
  <1>1. /\ TypeOK /\ WireSent /\ WireWhole /\ SendOrder
        /\ StateInv /\ CountInv /\ ToldInv /\ CloseInv /\ DataInv
    BY Parts
  <1>2. /\ t.id = id /\ t.type # "RESERVE" /\ t.high = <<>> /\ t.low = <<>>
        /\ t.dw = <<>> /\ t.lock = NoOne
        /\ t.tcp => t.tag = id /\ t.sending = 0
        /\ IF t.type = "INVALID" THEN word = "err"
           ELSE /\ t.tcp /\ ~t.closing /\ t.type # "HALFCLOSE_READ"
                /\ t.type = "CONNECTING" => word = "none"
        /\ \A x \in Slot \ {sl} : sock'[x] = sock[x]
    BY DEF Settles, Makes
  <1>3. /\ known' = known \cup {id} /\ told[id] = <<>> /\ wire[id] = <<>>
        /\ told'[id] = IF word = "none" THEN <<>> ELSE <<word>>
        /\ \A x \in Id \ {id} : told'[x] = told[x]
    BY DEF Settles
  <1>4. /\ ~Live(sl) /\ s.id <= id /\ s.id \in Nat /\ id \in Nat /\ id # 0
        /\ known \subseteq Id /\ alloc \in Nat
        /\ \A y \in known \ {id} : SlotOf(y) = sl => Ended(told[y])
        /\ \A c \in Caller : Opens(c) => SlotOf(call[c].id) # sl
        /\ \A i \in DOMAIN pipe' : IsOpen(pipe'[i]) => SlotOf(pipe'[i].id) # sl
    <2>1. s.id \in Nat /\ id \in Nat /\ id # 0
      BY <1>1, SocketFields, ZeroIsSlot DEF BoundAssumption
    <2>2. known \subseteq Id /\ alloc \in Nat
      BY <1>1 DEF TypeOK
    <2> QED
      BY <2>1, <2>2 DEF Vacant
  <1>5. SlotInv(sl)
    BY <1>1 DEF StateInv
  <1>6. /\ \A w : Has(told'[id], w) => w = word
        /\ word # "none" => Has(told'[id], word)
    <2>1. CASE word = "none"
      BY <1>3, <2>1 DEF Has
    <2>2. CASE word # "none"
      <3>1. told'[id] = <<word>>
        BY <1>3, <2>2
      <3> QED
        BY <3>1 DEF Has
    <2> QED
      BY <2>1, <2>2
  <1>7. /\ CloseLast(told'[id]) /\ ~Has(told'[id], "close")
        /\ word # "open" => ~Has(told'[id], "open")
    BY <1>6 DEF CloseLast, Has
  <1>8. \A x \in Id : \A w : Has(told[x], w) => Has(told'[x], w)
    BY <1>3 DEF Has
  <1> HIDE DEF t
  <1>9. PICK d \in {0, 1} :
          /\ \A i \in DOMAIN pipe' :
               /\ i \in Nat /\ i + d \in DOMAIN pipe
               /\ pipe'[i] = pipe[i + d]
          /\ \A i \in DOMAIN pipe :
               \/ i \in Nat /\ i - d \in DOMAIN pipe' /\ (i - d) + d = i
               \/ d = 1 /\ i = 1 /\ IsOpen(pipe[i]) /\ pipe[i].id = id
    BY <1>1, DoneShift
  (* Nobody has sent anything to the socket. *)
  <1>10. \A i \in DOMAIN pipe : IsSend(pipe[i]) => pipe[i].id # id
    BY <1>1, <1>3 DEF StateInv, PipeInv, Has
  <1>11. \A c \in Caller : Carries(c) => call[c].id # id
    <2> SUFFICES ASSUME NEW c \in Caller, Carries(c)
                 PROVE  call[c].id # id
      OBVIOUS
    <2>1. CallInv(c)
      BY <1>1 DEF StateInv
    <2>2. Has(told[call[c].id], "open")
      BY <2>1 DEF CallInv
    <2> QED
      BY <1>3, <2>2 DEF Has
  <1>12. IdInv'
    <2>1. known' \subseteq 1..alloc'
      <3>1. known \subseteq 1..alloc
        BY <1>1 DEF StateInv, IdInv
      <3>2. ASSUME NEW y \in known'
            PROVE  y \in 1..alloc'
        <4>1. CASE y \in known
          BY <1>4, <3>1, <4>1
        <4>2. CASE y = id
          BY <1>4, <4>2
        <4> QED
          BY <1>3, <3>2, <4>1, <4>2
      <3> QED
        BY <3>2
    <2>2. ASSUME NEW y \in known'
          PROVE  sock'[SlotOf(y)].id >= y
      <3>1. SlotOf(y) \in Slot /\ y \in Nat
        BY <1>3, <1>4, <2>2, SlotIsSlot, ZeroIsSlot
      <3>2. y = id \/ sock[SlotOf(y)].id >= y
        BY <1>1, <1>3, <2>2 DEF StateInv, IdInv
      <3>3. CASE SlotOf(y) = sl
        <4>1. y <= id
          BY <1>4, <3>1, <3>2, <3>3
        <4> QED
          BY <1>2, <1>4, <3>1, <3>3, <4>1 DEF t
      <3>4. CASE SlotOf(y) # sl
        BY <1>2, <3>1, <3>2, <3>4
      <3> QED
        BY <3>3, <3>4
    <2>3. \A y \in Id \ known' : told'[y] = <<>> /\ wire'[y] = <<>>
      BY <1>1, <1>3 DEF StateInv, IdInv
    <2> QED
      BY <2>1, <2>2, <2>3 DEF IdInv, SlotOf
  <1>13. ASSUME NEW x \in Slot
         PROVE  SlotInv(x)'
    <2>1. CASE x = sl
      <3>1. /\ sock'[x].id = id /\ sock'[x].high = <<>>
            /\ sock'[x].low = <<>> /\ sock'[x].dw = <<>>
            /\ sock'[x].lock = NoOne /\ id \in 0..alloc' /\ SlotOf(id) = x
            /\ sock'[x].tcp => sock'[x].tag = id
            /\ sock'[x].type # "RESERVE" /\ id \in known' /\ id # 0
            /\ sock'[x].type # "INVALID" => sock'[x].tcp /\ ~sock'[x].closing
        BY <1>2, <1>3, <1>4, <2>1 DEF t
      <3> QED
        BY <3>1 DEF SlotInv, Live, Empty, SlotOf
    <2>2. CASE x # sl
      <3>1. SlotInv(x) /\ sock'[x] = sock[x] /\ sock[x].id \in 0..MaxId
        BY <1>1, <1>2, <2>2, SocketFields DEF StateInv
      <3> QED
        BY <1>3, <1>4, <3>1 DEF SlotInv, Live, Empty, SlotOf
    <2> QED
      BY <2>1, <2>2
  <1>14. ASSUME NEW c \in Caller
         PROVE  CallInv(c)'
    <2> DEFINE k == call[c]
               z == SlotOf(call[c].id)
    <2>1. CallInv(c) /\ z \in Slot /\ call[c].id \in 0..MaxId
      BY <1>1, CallFields, SlotIsSlot DEF StateInv, BoundAssumption
    <2>2. Opens(c) => z # sl
      BY <1>4
    <2>3. k.step = "written" => z # sl
      BY <1>4, <1>5, <2>1 DEF CallInv, SlotInv, CallerAssumption
    <2>4. Opens(c) \/ k.step = "written" => sock'[z] = sock[z]
      BY <1>2, <2>1, <2>2, <2>3
    <2>5. Opens(c) => call[c].id # id
      BY <2>2
    <2>6. ASSUME k.step = "fill", NEW i \in DOMAIN pipe', IsOpen(pipe'[i])
          PROVE  SlotOf(pipe'[i].id) # z
      <3>1. i + d \in DOMAIN pipe /\ pipe'[i] = pipe[i + d]
        BY <1>9
      <3> QED
        BY <2>1, <2>6, <3>1 DEF CallInv
    <2>7. ASSUME Carries(c)
          PROVE  Has(told'[k.id], "open")
      BY <1>4, <1>8, <2>1, <2>7 DEF CallInv
    <2>8. Opens(c)' = Opens(c) /\ Carries(c)' = Carries(c)
      BY DEF Opens, Carries, IsOpen, IsSend
    <2>9. \A e \in Caller : Opens(e)' = Opens(e)
      BY DEF Opens, IsOpen
    <2>10. ASSUME Opens(c)
           PROVE  /\ IsOpen(k) /\ k.id \in (1..alloc') \ known'
                  /\ sock'[z].type = "RESERVE"
                  /\ IF k.step = "fill" THEN sock'[z].id < k.id
                     ELSE sock'[z].id = k.id /\ ~sock'[z].tcp
                  /\ \A e \in Caller :
                       Opens(e) /\ SlotOf(call[e].id) = z => e = c
      <3>1. k.id \in (1..alloc') \ known'
        BY <1>3, <1>4, <2>1, <2>5, <2>10 DEF CallInv
      <3> QED
        BY <2>1, <2>4, <2>10, <3>1 DEF CallInv
    <2>11. k.step = "written" =>
             k.n < Units /\ sock'[z].id = k.id /\ sock'[z].lock = c
      BY <2>1, <2>4 DEF CallInv
    <2> QED
      BY <1>3, <2>1, <2>6, <2>7, <2>8, <2>9, <2>10, <2>11
      DEF CallInv, SlotOf, IsOpen, IsSend
  <1>15. ASSUME NEW i \in DOMAIN pipe'
         PROVE  PipeInv(i)'
    <2> DEFINE r == pipe'[i]
    <2>1. /\ i + d \in DOMAIN pipe /\ r = pipe[i + d] /\ i \in Nat
          /\ PipeInv(i + d)
      BY <1>1, <1>9 DEF StateInv
    <2>2. r.id \in known /\ r.id \in Id /\ SlotOf(r.id) \in Slot
      BY <1>4, <2>1, SlotIsSlot, ZeroIsSlot DEF PipeInv
    <2>3. ASSUME IsOpen(r)
          PROVE  /\ sock'[SlotOf(r.id)].type = "RESERVE"
                 /\ sock'[SlotOf(r.id)].id = r.id
                 /\ ~sock'[SlotOf(r.id)].tcp
                 /\ told'[r.id] = <<>> /\ wire'[r.id] = <<>>
                 /\ \A j \in DOMAIN pipe' : pipe'[j].id = r.id /\ j # i
                      => j > i /\ ~IsOpen(pipe'[j])
      <3>1. SlotOf(r.id) # sl /\ r.id # id
        BY <1>4, <2>3
      <3>2. /\ sock'[SlotOf(r.id)] = sock[SlotOf(r.id)]
            /\ told'[r.id] = told[r.id]
        BY <1>2, <1>3, <2>2, <3>1
      <3>3. ASSUME NEW j \in DOMAIN pipe', pipe'[j].id = r.id, j # i
            PROVE  j > i /\ ~IsOpen(pipe'[j])
        <4>1. /\ j + d # i + d /\ j + d \in DOMAIN pipe
              /\ pipe'[j] = pipe[j + d] /\ j \in Nat
          BY <1>9, <2>1, <3>3
        <4>2. j + d > i + d /\ ~IsOpen(pipe[j + d])
          BY <2>1, <2>3, <3>3, <4>1 DEF PipeInv
        <4> QED
          BY <2>1, <4>1, <4>2
      <3> QED
        BY <2>1, <2>3, <3>2, <3>3 DEF PipeInv
    <2>4. ASSUME IsSend(r)
          PROVE  /\ Has(told'[r.id], "open") /\ r.msg \in 1..Len(sends)
                 /\ sends[r.msg].to = r.id
                 /\ sends[r.msg].low <=> r.cmd = "send_low"
                 /\ \A c \in Caller : Carries(c) => call[c].msg # r.msg
                 /\ \A j \in DOMAIN pipe' :
                      /\ j > i /\ IsSend(pipe'[j])
                      /\ sends[pipe'[j].msg].by = sends[r.msg].by
                      => r.msg < pipe'[j].msg
      <3>1. Has(told'[r.id], "open")
        BY <1>8, <2>1, <2>2, <2>4 DEF PipeInv
      <3>2. ASSUME NEW j \in DOMAIN pipe', j > i, IsSend(pipe'[j]),
                   sends[pipe'[j].msg].by = sends[r.msg].by
            PROVE  r.msg < pipe'[j].msg
        <4>1. /\ j + d > i + d /\ j + d \in DOMAIN pipe
              /\ pipe'[j] = pipe[j + d]
          BY <1>9, <2>1, <3>2
        <4> QED
          BY <2>1, <2>4, <3>2, <4>1 DEF PipeInv
      <3> QED
        BY <2>1, <2>4, <3>1, <3>2 DEF PipeInv
    <2>5. \A c \in Caller : Carries(c)' = Carries(c)
      BY DEF Carries, IsSend
    <2> QED
      BY <1>3, <2>2, <2>3, <2>4, <2>5 DEF PipeInv, SlotOf, IsOpen, IsSend
  <1>16. StateInv'
    BY <1>12, <1>13, <1>14, <1>15 DEF StateInv
  <1>17. ToldInv'
    <2>1. ASSUME NEW y \in known'
          PROVE  /\ CloseLast(told'[y])
                 /\ \/ sock'[SlotOf(y)].id # y
                    \/ sock'[SlotOf(y)].type = "INVALID"
                    \/ sock'[SlotOf(y)].type = "RESERVE" /\ ~Opening(y)'
                    => Ended(told'[y])
      <3>1. CASE y = id
        BY <1>2, <1>6, <1>7, <3>1 DEF Ended, t
      <3>2. CASE y # id
        <4>1. y \in known /\ y \in Id /\ told'[y] = told[y]
              /\ SlotOf(y) \in Slot
          BY <1>3, <1>4, <2>1, <3>2, SlotIsSlot, ZeroIsSlot
        <4>2. Opening(y) => Opening(y)'
          <5>1. ASSUME NEW i \in DOMAIN pipe, IsOpen(pipe[i]), pipe[i].id = y
                PROVE  Opening(y)'
            <6>1. i - d \in DOMAIN pipe' /\ pipe'[i - d] = pipe[i]
              BY <1>9, <3>2, <5>1
            <6> QED
              BY <5>1, <6>1 DEF Opening, IsOpen
          <5> QED
            BY <5>1 DEF Opening
        <4>3. CASE SlotOf(y) = sl
          <5>1. Ended(told[y]) /\ CloseLast(told[y])
            BY <1>1, <1>4, <3>2, <4>1, <4>3 DEF ToldInv
          <5> QED
            BY <4>1, <5>1
        <4>4. CASE SlotOf(y) # sl
          <5>1. sock'[SlotOf(y)] = sock[SlotOf(y)]
            BY <1>2, <4>1, <4>4
          <5> QED
            BY <1>1, <4>1, <4>2, <5>1 DEF ToldInv
        <4> QED
          BY <4>3, <4>4
      <3> QED
        BY <3>1, <3>2
    <2>2. ASSUME NEW x \in Slot, Live(x)'
          PROVE  /\ Has(told'[sock'[x].id], "close")
                      <=> sock'[x].type = "HALFCLOSE_READ"
                 /\ sock'[x].type = "CONNECTING" =>
                      ~Has(told'[sock'[x].id], "open")
      <3>1. CASE x = sl
        <4>1. /\ t.type # "INVALID" /\ t.id = id /\ t.type # "HALFCLOSE_READ"
              /\ t.type = "CONNECTING" => word = "none"
          BY <1>2, <2>2, <3>1 DEF Live, t
        <4> QED
          BY <1>7, <3>1, <4>1 DEF t
      <3>2. CASE x # sl
        <4>1. sock'[x] = sock[x] /\ Live(x)
          BY <1>2, <2>2, <3>2 DEF Live
        <4>2. sock[x].id \in Id /\ SlotOf(sock[x].id) = x
          BY <1>1, <4>1, LiveSlot
        <4>3. told'[sock[x].id] = told[sock[x].id]
          BY <1>3, <3>2, <4>2
        <4> QED
          BY <1>1, <4>1, <4>3 DEF ToldInv
      <3> QED
        BY <3>1, <3>2
    <2> QED
      BY <2>1, <2>2 DEF ToldInv, SlotOf
  <1>18. CountInv'
    <2>1. \A x : PostingIn(call', x) = PostingIn(call, x)
      OBVIOUS
    <2>2. \A x : Cardinality(PostedIn(pipe', x)) = Cardinality(Posted(x))
      <3>1. CASE pipe' = pipe
        BY <3>1 DEF Posted, PostedIn
      <3>2. CASE pipe # <<>> /\ pipe' = Tail(pipe) /\ IsOpen(Head(pipe))
        <4>1. ~IsSend(Head(pipe))
          BY <3>2 DEF IsOpen, IsSend
        <4> QED
          BY <1>1, <3>2, <4>1, PostedTail, PostedPrimed
      <3> QED
        BY <3>1, <3>2 DEF OpeningDone
    <2>3. Posted(id) = {} /\ Posting(id) = {}
      BY <1>10, <1>11 DEF Posted, Posting, Carries
    <2>4. ASSUME NEW x \in Slot, sock'[x].tcp
          PROVE  sock'[x].sending =
                   Cardinality(PostedIn(pipe', sock'[x].id))
                   + Cardinality(PostingIn(call', sock'[x].id))
      <3>1. CASE x = sl
        <4>1. sock'[x].id = id /\ sock'[x].sending = 0
          BY <1>2, <2>4, <3>1 DEF t
        <4>2. /\ Cardinality(PostedIn(pipe', id)) = 0
              /\ Cardinality(PostingIn(call', id)) = 0
          BY <2>1, <2>2, <2>3, PostedPrimed, FS_EmptySet DEF Posting, PostingIn
        <4> QED
          BY <4>1, <4>2
      <3>2. CASE x # sl
        <4>1. sock'[x] = sock[x]
          BY <1>2, <3>2
        <4>2. sock[x].sending = Cardinality(Posted(sock[x].id))
                                + Cardinality(Posting(sock[x].id))
          BY <1>1, <2>4, <4>1 DEF CountInv
        <4>3. PostingIn(call', sock[x].id) = Posting(sock[x].id)
          BY <2>1, PostedPrimed DEF Posting, PostingIn
        <4> QED
          BY <2>2, <4>1, <4>2, <4>3
      <3> QED
        BY <3>1, <3>2
    <2> QED
      BY <2>4, CountPrimed
  <1>19. DataInv'
    <2>1. DataKept
      BY <1>1, DataSame DEF OpeningDone
    <2>2. KeptIn(call', t) = <<>>
      BY <1>2 DEF KeptIn
    <2>3. wire'[t.id] = <<>> /\ t.high = <<>> /\ t.low = <<>>
      BY <1>2, <1>3
    <2>4. StreamIn(wire', sends', pipe', call', cut', t)
      BY <2>2, <2>3, NothingSent
    <2> QED
      BY <1>1, <1>2, <2>1, <2>4, DataStep DEF t
  <1>20. WireSent' /\ WireWhole' /\ SendOrder'
    BY WireSame
  <1> QED
    BY <1>16, <1>17, <1>18, <1>19, <1>20, Whole9

(* The owner of a new socket is told the first word, or nothing.           *)
LEMMA FirstWord ==
  ASSUME TypeOK, NEW id \in Id, told[id] = <<>>,
         NEW word \in {"none", "err", "open", "accept"},
         IF word = "none" THEN told' = told ELSE Say(id, word)
  PROVE  /\ told'[id] = IF word = "none" THEN <<>> ELSE <<word>>
         /\ \A x \in Id \ {id} : told'[x] = told[x]
         /\ told' \in [Id -> Seq(Word)]
  <1>1. CASE word = "none"
    BY <1>1 DEF TypeOK
  <1>2. CASE word # "none"
    <2>1. word \in Word /\ Say(id, word)
      BY <1>2 DEF Word
    <2>2. /\ told' \in [Id -> Seq(Word)]
          /\ \A x \in Id \ {id} : told'[x] = told[x]
          /\ told'[id] = Append(told[id], word)
      BY <1>2, <2>1, SayEffect
    <2> QED
      BY <1>2, <2>2
  <1> QED
    BY <1>1, <1>2

LEMMA NewFdFields ==
  ASSUME BoundAssumption, NEW id \in Id, sock[SlotOf(id)] \in Socket,
         NEW type \in {"CONNECTED", "CONNECTING", "PLISTEN", "PACCEPT"},
         NEW reading \in BOOLEAN, NEW word, Empty(sock[SlotOf(id)]),
         sock[SlotOf(id)].lock = NoOne, type = "CONNECTING" => word = "none"
  PROVE  NewFd(id, type, reading) \in Socket
         /\ Makes(NewFd(id, type, reading), id, word)
  <1> DEFINE s == sock[SlotOf(id)]
             on == (type = "CONNECTING")
             t == [s EXCEPT !.type = type, !.id = id, !.tcp = TRUE,
                     !.closing = FALSE, !.reading = reading, !.tag = id,
                     !.sending = 0, !.writing = on, !.dw = <<>>]
  <1>1. NewFd(id, type, reading) = t
    BY DEF NewFd
  <1>2. on \in BOOLEAN /\ id \in 0..MaxId /\ type \in Type
    BY DEF Id, Type, BoundAssumption
  <1>3. <<>> \in Seq(Unit) /\ s \in Socket
    BY EmptySeq
  <1>4. s.high = <<>> /\ s.low = <<>> /\ s.lock = NoOne
    BY DEF Empty
  <1> HIDE DEF s, on
  <1>5. /\ t \in Socket /\ t.id = id /\ t.type = type /\ t.high = s.high
        /\ t.low = s.low /\ t.dw = <<>> /\ t.lock = s.lock /\ t.tag = id
        /\ t.sending = 0 /\ t.tcp /\ ~t.closing
    BY <1>2, <1>3, ZenonT(40) DEF Socket
  <1> HIDE DEF t
  <1> QED
    BY <1>1, <1>4, <1>5 DEF Makes

(* The request to open a socket finds its slot reserved and empty. *)
LEMMA OpenHead ==
  ASSUME BoundAssumption, TypeOK, StateInv, pipe # <<>>, IsOpen(Head(pipe)),
         NEW id, id = Head(pipe).id, NEW sl, sl = SlotOf(id)
  PROVE  /\ id \in known /\ id \in Id /\ sl \in Slot /\ sock[sl] \in Socket
         /\ sock[sl].type = "RESERVE" /\ sock[sl].id = id /\ ~sock[sl].tcp
         /\ told[id] = <<>> /\ wire[id] = <<>>
         /\ Empty(sock[sl]) /\ sock[sl].dw = <<>> /\ sock[sl].lock = NoOne
         /\ \A i \in DOMAIN Tail(pipe) :
              IsOpen(Tail(pipe)[i]) => SlotOf(Tail(pipe)[i].id) # sl
         /\ \A c \in Caller : Opens(c) => SlotOf(call[c].id) # sl
  <1>1. /\ id \in known /\ id \in Id /\ sl \in Slot /\ PipeInv(1)
        /\ pipe[1] = Head(pipe) /\ 1 \in DOMAIN pipe
    BY HeadFields
  <1>2. /\ sock[sl].type = "RESERVE" /\ sock[sl].id = id /\ ~sock[sl].tcp
        /\ told[id] = <<>> /\ wire[id] = <<>>
        /\ \A j \in DOMAIN pipe : pipe[j].id = id /\ j # 1 =>
             ~IsOpen(pipe[j])
    BY <1>1 DEF PipeInv
  <1>3. SlotInv(sl) /\ sock[sl] \in Socket
    BY <1>1, SocketFields DEF StateInv
  <1>4. Empty(sock[sl]) /\ sock[sl].dw = <<>> /\ sock[sl].lock = NoOne
    BY <1>2, <1>3 DEF SlotInv, Live
  <1>5. ASSUME NEW i \in DOMAIN Tail(pipe), IsOpen(Tail(pipe)[i])
        PROVE  SlotOf(Tail(pipe)[i].id) # sl
    <2>1. i + 1 \in DOMAIN pipe \ {1} /\ Tail(pipe)[i] = pipe[i + 1]
      BY PipeTail
    <2>2. pipe[i + 1].id # id
      BY <1>2, <1>5, <2>1
    <2>3. PipeInv(i + 1)
      BY <2>1 DEF StateInv
    <2> QED
      BY <1>2, <1>5, <2>1, <2>2, <2>3 DEF PipeInv
  <1>6. ASSUME NEW c \in Caller, Opens(c)
        PROVE  SlotOf(call[c].id) # sl
    <2>1. CallInv(c)
      BY DEF StateInv
    <2>2. CASE call[c].step = "fill"
      BY <1>1, <2>1, <2>2 DEF CallInv
    <2>3. CASE call[c].step # "fill"
      BY <1>1, <1>2, <1>6, <2>1, <2>3 DEF CallInv
    <2> QED
      BY <2>2, <2>3
  <1> QED
    BY <1>1, <1>2, <1>3, <1>4, <1>5, <1>6

LEMMA RequestOpened ==
  ASSUME BoundAssumption, CallerAssumption, IInv, ~failed, pipe # <<>>,
         IsOpen(Head(pipe)), NEW id, id = Head(pipe).id,
         NEW sl, sl = SlotOf(id), NEW t \in Socket,
         NEW word \in {"none", "err", "open"}, Makes(t, id, word),
         Answers(sl, t, word, ev, "check"), failed' \in BOOLEAN,
         pipe' = Tail(pipe),
         UNCHANGED <<alloc, call, wire, peer, known, sends, calls>>
  PROVE  IInv'
  <1>1. TypeOK /\ StateInv /\ ToldInv
    BY Parts
  <1>2. /\ id \in known /\ id \in Id /\ sl \in Slot
        /\ sock[sl].type = "RESERVE" /\ sock[sl].id = id
        /\ told[id] = <<>> /\ wire[id] = <<>>
        /\ \A i \in DOMAIN Tail(pipe) :
             IsOpen(Tail(pipe)[i]) => SlotOf(Tail(pipe)[i].id) # sl
        /\ \A c \in Caller : Opens(c) => SlotOf(call[c].id) # sl
    BY <1>1, OpenHead
  <1>3. t.id = id /\ word \in Word \cup {"none"} /\ ev \in Seq(Event)
    BY <1>1 DEF Makes, Word, TypeOK
  <1>4. /\ sock' \in [Slot -> Socket] /\ sock'[sl] = t
        /\ \A x \in Slot \ {sl} : sock'[x] = sock[x]
        /\ told' \in [Id -> Seq(Word)] /\ ev' \in Seq(Event)
        /\ ctl' \in {"check", "rest", "fresh", "lock"} /\ ctl' # "lock"
        /\ fc' = fc /\ cut' = cut
        /\ IF word = "none" THEN told' = told ELSE Say(id, word)
    BY <1>1, <1>2, <1>3, AnswerType
  <1>5. TypeOK'
    <2>1. /\ fc \in Closing /\ cut \subseteq Id /\ wire \in [Id -> Seq(Unit)]
      BY <1>1 DEF TypeOK, Closing
    <2>2. pipe' \in Seq(Request)
      BY <1>1, PipeTail
    <2> QED
      BY <1>1, <1>4, <2>1, <2>2, HandlerTypes
  <1>6. CloseInv'
    BY <1>4 DEF CloseInv
  <1>7. /\ told'[id] = IF word = "none" THEN <<>> ELSE <<word>>
        /\ \A x \in Id \ {id} : told'[x] = told[x]
    <2>1. /\ TypeOK /\ id \in Id /\ told[id] = <<>>
          /\ word \in {"none", "err", "open", "accept"}
      BY <1>1, <1>2
    <2>2. IF word = "none" THEN told' = told ELSE Say(id, word)
      BY <1>4
    <2> QED
      BY <2>1, <2>2, FirstWord
  <1>8. Settles(sl, id, word)
    BY <1>2, <1>4, <1>7 DEF Settles
  <1>9. /\ id \in Nat /\ alloc \in Nat /\ id <= alloc
    <2>1. id \in 1..alloc /\ alloc \in 0..MaxId
      BY <1>1, <1>2 DEF StateInv, IdInv, TypeOK
    <2> QED
      BY <2>1 DEF BoundAssumption
  <1>10. Vacant(sl, id)
    <2>1. \A y \in known \ {id} : SlotOf(y) = sl => Ended(told[y])
      BY <1>1, <1>2 DEF ToldInv
    <2> QED
      BY <1>2, <1>9, <2>1 DEF Vacant, Live
  <1>11. OpeningDone(id)
    BY DEF OpeningDone
  <1> QED
    BY <1>2, <1>4, <1>5, <1>6, <1>8, <1>9, <1>10, <1>11, Settled

LEMMA OpenSocketStep ==
  ASSUME BoundAssumption, CallerAssumption, IInv, OpenSocket
  PROVE  IInv'
  <1> DEFINE id == Head(pipe).id
             sl == SlotOf(id)
             s == sock[sl]
             gone == [s EXCEPT !.type = "INVALID"]
             on == NewFd(id, "CONNECTED", TRUE)
             wait == NewFd(id, "CONNECTING", TRUE)
  <1>1. /\ ~failed /\ pipe # <<>> /\ IsOpen(Head(pipe)) /\ pipe' = Tail(pipe)
        /\ UNCHANGED <<alloc, call, wire, peer, known, sends, calls>>
    BY DEF OpenSocket, TakeRequest, IsOpen
  <1>2. TypeOK /\ StateInv
    BY <1>1, Parts
  <1>3. /\ id \in Id /\ sl \in Slot /\ s \in Socket /\ s.id = id /\ ~s.tcp
        /\ Empty(s) /\ s.dw = <<>> /\ s.lock = NoOne
    BY <1>1, <1>2, OpenHead
  <1>4. NewFdFails(s) \in BOOLEAN
    BY DEF NewFdFails
  <1>5. gone \in Socket /\ Makes(gone, id, "err")
    <2> HIDE DEF s
    <2> QED
      BY <1>3 DEF Socket, Type, Makes, Empty
  <1>6. /\ on \in Socket /\ Makes(on, id, "open")
        /\ wait \in Socket /\ Makes(wait, id, "none")
    <2> HIDE DEF id
    <2> QED
      BY <1>3, NewFdFields
  <1>7. \/ Answer(sl, gone, "err", ev, "check", FALSE)
        \/ Answer(sl, on, "open", ev, "check", NewFdFails(s))
        \/ Answer(sl, wait, "none", ev, "check", NewFdFails(s))
    BY DEF OpenSocket
  <1> HIDE DEF gone, on, wait
  <1>8. CASE Answer(sl, gone, "err", ev, "check", FALSE)
    <2>1. Answers(sl, gone, "err", ev, "check") /\ failed' = FALSE
      BY <1>8 DEF Answer, Answers
    <2> QED
      BY <1>1, <1>5, <2>1, RequestOpened
  <1>9. CASE Answer(sl, on, "open", ev, "check", NewFdFails(s))
    <2>1. Answers(sl, on, "open", ev, "check") /\ failed' = NewFdFails(s)
      BY <1>9 DEF Answer, Answers
    <2> QED
      BY <1>1, <1>4, <1>6, <2>1, RequestOpened
  <1>10. CASE Answer(sl, wait, "none", ev, "check", NewFdFails(s))
    <2>1. Answers(sl, wait, "none", ev, "check") /\ failed' = NewFdFails(s)
      BY <1>10 DEF Answer, Answers
    <2> QED
      BY <1>1, <1>4, <1>6, <2>1, RequestOpened
  <1> QED
    BY <1>7, <1>8, <1>9, <1>10

LEMMA ListenSocketStep ==
  ASSUME BoundAssumption, CallerAssumption, IInv, ListenSocket
  PROVE  IInv'
  <1> DEFINE id == Head(pipe).id
             sl == SlotOf(id)
             s == sock[sl]
             gone == [s EXCEPT !.type = "INVALID"]
             on == NewFd(id, "PLISTEN", FALSE)
  <1>1. /\ ~failed /\ pipe # <<>> /\ IsOpen(Head(pipe)) /\ pipe' = Tail(pipe)
        /\ UNCHANGED <<alloc, call, wire, peer, known, sends, calls>>
    BY DEF ListenSocket, TakeRequest, IsOpen
  <1>2. TypeOK /\ StateInv
    BY <1>1, Parts
  <1>3. /\ id \in Id /\ sl \in Slot /\ s \in Socket /\ s.id = id /\ ~s.tcp
        /\ Empty(s) /\ s.dw = <<>> /\ s.lock = NoOne
    BY <1>1, <1>2, OpenHead
  <1>4. NewFdFails(s) \in BOOLEAN
    BY DEF NewFdFails
  <1>5. gone \in Socket /\ Makes(gone, id, "err")
    <2> HIDE DEF s
    <2> QED
      BY <1>3 DEF Socket, Type, Makes, Empty
  <1>6. on \in Socket /\ Makes(on, id, "open")
    <2> HIDE DEF id
    <2> QED
      BY <1>3, NewFdFields
  <1>7. \/ Answer(sl, gone, "err", ev, "check", FALSE)
        \/ Answer(sl, on, "open", ev, "check", NewFdFails(s))
    BY DEF ListenSocket
  <1> HIDE DEF gone, on
  <1>8. CASE Answer(sl, gone, "err", ev, "check", FALSE)
    <2>1. Answers(sl, gone, "err", ev, "check") /\ failed' = FALSE
      BY <1>8 DEF Answer, Answers
    <2> QED
      BY <1>1, <1>5, <2>1, RequestOpened
  <1>9. CASE Answer(sl, on, "open", ev, "check", NewFdFails(s))
    <2>1. Answers(sl, on, "open", ev, "check") /\ failed' = NewFdFails(s)
      BY <1>9 DEF Answer, Answers
    <2> QED
      BY <1>1, <1>4, <1>6, <2>1, RequestOpened
  <1> QED
    BY <1>7, <1>8, <1>9

(* A connection is accepted: it gets a free slot, or is turned away.       *)
LEMMA ReportAcceptStep ==
  ASSUME BoundAssumption, CallerAssumption, IInv, ReportAccept
  PROVE  IInv'
  <1>1. /\ ~failed /\ ev # <<>> /\ MayReserve
        /\ UNCHANGED <<pipe, call, peer, sends, calls>>
        /\ UNCHANGED <<fc, cut, wire>>
        /\ ev' = Pop /\ ctl' = Back
    BY DEF ReportAccept, OnEvent
  <1>2. TypeOK /\ StateInv /\ ToldInv /\ alloc \in Nat /\ NSlot \in Nat
    BY <1>1, Parts DEF TypeOK, BoundAssumption
  <1>3. Pop \in Seq(Event) /\ Back \in {"check", "rest"}
    BY <1>1, <1>2, EventFields
  <1>4. CloseInv'
    BY <1>1, <1>3 DEF CloseInv
  <1>5. CASE FreeId = 0
    <2>1. alloc' = alloc + NSlot /\ UNCHANGED <<sock, told, known, failed>>
      BY <1>5 DEF ReportAccept
    <2>2. alloc' \in 0..MaxId /\ alloc' \in Nat /\ alloc' >= alloc
      BY <1>1, <1>2, <2>1 DEF MayReserve, BoundAssumption
    <2>3. TypeOK'
      BY <1>1, <1>2, <1>3, <2>1, <2>2 DEF TypeOK
    <2> QED
      BY <1>1, <1>4, <2>1, <2>2, <2>3, Stayed
  <1>6. CASE FreeId # 0
    <2>1. PICK id : id = FreeId
      OBVIOUS
    <2> DEFINE sl == SlotOf(id)
               s == sock[sl]
               t == NewFd(id, "PACCEPT", FALSE)
    <2>2. /\ alloc' = id /\ Put(sl, t) /\ Say(id, "accept")
          /\ known' = known \cup {id} /\ failed' = ~Empty(s)
      BY <1>6, <2>1 DEF ReportAccept
    <2>3. /\ id \in Id /\ id > alloc /\ sl \in Slot /\ s.type = "INVALID"
          /\ id \in alloc..MaxId
      BY <1>1, <1>2, <1>6, <2>1, FreeIdIsNew
    <2>4. /\ s \in Socket /\ SlotInv(sl) /\ s.id \in 0..alloc
          /\ Empty(s) /\ s.lock = NoOne
      <3>1. s \in Socket /\ SlotInv(sl)
        BY <1>2, <2>3, SocketFields DEF StateInv
      <3> QED
        BY <2>3, <3>1 DEF SlotInv, Live
    <2>5. t \in Socket /\ Makes(t, id, "accept")
      BY <2>3, <2>4, NewFdFields
    <2> HIDE DEF t
    <2>6. known \subseteq Id /\ known \subseteq 1..alloc /\ id \notin known
      <3>1. known \subseteq Id /\ known \subseteq 1..alloc
        BY <1>2 DEF StateInv, IdInv, TypeOK
      <3> QED
        BY <1>2, <2>3, <3>1
    <2>7. told[id] = <<>> /\ wire[id] = <<>>
      BY <1>2, <2>3, <2>6 DEF StateInv, IdInv
    <2>8. /\ sock' \in [Slot -> Socket] /\ sock'[sl] = t
          /\ \A x \in Slot \ {sl} : sock'[x] = sock[x]
      BY <1>2, <2>2, <2>3, <2>5, PutType
    <2>9. /\ told'[id] = <<"accept">> /\ told' \in [Id -> Seq(Word)]
          /\ \A x \in Id \ {id} : told'[x] = told[x]
      BY <1>2, <2>2, <2>3, <2>7, FirstWord
    <2>10. TypeOK'
      <3>1. alloc' \in 0..MaxId /\ known' \subseteq Id
        BY <1>2, <2>2, <2>3, <2>6 DEF BoundAssumption
      <3>2. failed' \in BOOLEAN
        BY <2>2 DEF Empty
      <3> QED
        BY <1>1, <1>2, <1>3, <2>8, <2>9, <3>1, <3>2 DEF TypeOK
    <2>11. Settles(sl, id, "accept")
      BY <2>2, <2>5, <2>7, <2>8, <2>9 DEF Settles
    <2>12. Vacant(sl, id)
      <3>1. ~Live(sl) /\ s.id <= id
        BY <1>2, <2>3, <2>4 DEF Live
      <3>2. \A y \in known \ {id} : SlotOf(y) = sl => Ended(told[y])
        BY <1>2, <2>3 DEF ToldInv
      <3>3. \A c \in Caller : Opens(c) => SlotOf(call[c].id) # sl
        BY <1>2, <2>3 DEF StateInv, CallInv
      <3>4. \A i \in DOMAIN pipe' :
              IsOpen(pipe'[i]) => SlotOf(pipe'[i].id) # sl
        BY <1>1, <1>2, <2>3 DEF StateInv, PipeInv
      <3> QED
        BY <3>1, <3>2, <3>3, <3>4 DEF Vacant
    <2>13. OpeningDone(id) /\ alloc' \in Nat /\ alloc' >= alloc /\ id <= alloc'
      BY <1>1, <1>2, <2>2, <2>3 DEF OpeningDone, Id
    <2> HIDE DEF sl, s
    <2>14. SlotOf(id) = sl
      BY DEF sl
    <2> QED
      BY <1>1, <1>4, <2>3, <2>10, <2>11, <2>12, <2>13, <2>14, Settled
  <1> QED
    BY <1>5, <1>6

-----------------------------------------------------------------------------
(* Every step keeps the invariant.                                         *)

LEMMA InitHolds ==
  ASSUME BoundAssumption, CallerAssumption, Init
  PROVE  IInv
  <1>1. /\ pipe = <<>> /\ ev = <<>> /\ ctl = "check"
        /\ fc = [slot |-> 0, tell |-> FALSE, word |-> "close",
                 back |-> "check"]
        /\ call = [c \in Caller |-> NoCall]
        /\ wire = [i \in Id |-> <<>>] /\ peer = [i \in Id |-> "up"]
        /\ cut = {} /\ sends = <<>> /\ failed = FALSE
        /\ calls = 0 /\ alloc = 0 /\ sock = [s \in Slot |-> Free]
        /\ told = [i \in Id |-> <<>>] /\ known = {}
    BY DEF Init, Quiet
  <1>2. /\ Free \in Socket /\ Free.type = "INVALID" /\ Free.id = 0
        /\ ~Free.tcp /\ Free.high = <<>> /\ Free.low = <<>>
        /\ Free.dw = <<>> /\ Free.lock = NoOne
    <2>1. <<>> \in Seq(Unit) /\ 0 \in 0..MaxId
      BY EmptySeq DEF BoundAssumption
    <2> QED
      BY <2>1 DEF Free, Socket, Type
  <1>3. NoCall \in Call /\ NoCall.step = "idle"
    BY NoCallType
  <1>4. TypeOK
    <2>1. /\ 0 \in 0..MaxId /\ 0 \in 0..MaxCall /\ 0 \in Slot
      BY ZeroIsSlot DEF BoundAssumption
    <2>2. /\ <<>> \in Seq(Request) /\ <<>> \in Seq(Event)
          /\ <<>> \in Seq(Unit) /\ <<>> \in Seq(Word)
          /\ <<>> \in Seq([by : Caller, to : Id, low : BOOLEAN])
      BY EmptySeq
    <2>3. fc \in Closing
      BY <1>1, <2>1 DEF Closing, Word
    <2>4. sock \in [Slot -> Socket] /\ call \in [Caller -> Call]
      BY <1>1, <1>2, <1>3
    <2>5. wire \in [Id -> Seq(Unit)] /\ told \in [Id -> Seq(Word)]
      BY <1>1, <2>2
    <2> QED
      BY <1>1, <2>1, <2>2, <2>3, <2>4, <2>5 DEF TypeOK, Closing
  <1>5. WireSent /\ WireWhole /\ SendOrder
    <2>1. \A id \in Id : wire[id] = <<>>
      BY <1>1
    <2>2. IsInjective(<<>>)
      BY DEF IsInjective
    <2> QED
      BY <2>1, <2>2 DEF WireSent, SentTo, WireWhole, SendOrder
  <1>6. /\ \A x \in Slot : sock[x] = Free /\ ~Live(x)
        /\ \A c \in Caller : call[c].step = "idle"
    BY <1>1, <1>2, <1>3 DEF Live
  <1>7. StateInv
    <2>1. IdInv
      BY <1>1 DEF IdInv
    <2>2. \A x \in Slot : SlotInv(x)
      BY <1>1, <1>2, <1>6 DEF SlotInv, Empty
    <2>3. \A c \in Caller : CallInv(c)
      BY <1>6 DEF CallInv, Opens, Carries
    <2>4. DOMAIN pipe = {}
      BY <1>1
    <2> QED
      BY <2>1, <2>2, <2>3, <2>4 DEF StateInv
  <1>8. CountInv
    BY <1>2, <1>6 DEF CountInv
  <1>9. ToldInv
    BY <1>1, <1>6 DEF ToldInv
  <1>10. CloseInv
    BY <1>1 DEF CloseInv
  <1>11. DataInv
    BY <1>6 DEF DataInv
  <1> QED
    BY <1>4, <1>5, <1>7, <1>8, <1>9, <1>10, <1>11 DEF IInv, Core

LEMMA StutterHolds ==
  ASSUME BoundAssumption, CallerAssumption, IInv, UNCHANGED vars
  PROVE  IInv'
  <1>1. UNCHANGED <<alloc, sock, pipe, call, ctl, ev, fc, wire, peer, told,
                    known, cut, sends, calls, failed>>
    BY DEF vars
  <1>2. TypeOK' /\ alloc \in Nat
    BY <1>1 DEF IInv, TypeOK
  <1>3. CASE failed
    <2>1. /\ TypeOK /\ WireSent /\ WireWhole /\ SendOrder
      BY DEF IInv
    <2>2. SendsKept
      BY <1>1, <2>1 DEF SendsKept, TypeOK
    <2>3. WireSent' /\ WireWhole' /\ SendOrder'
      BY <1>1, <2>1, <2>2, WireStep
    <2> QED
      BY <1>1, <1>2, <1>3, <2>3 DEF IInv
  <1>4. CASE ~failed
    <2>1. CloseInv
      BY <1>4, Parts
    <2>2. CloseInv'
      BY <1>1, <2>1 DEF CloseInv, Live, Empty
    <2>3. alloc' \in Nat /\ alloc' >= alloc
      BY <1>1, <1>2
    <2> QED
      BY <1>1, <1>2, <1>4, <2>2, <2>3, Stayed
  <1> QED
    BY <1>3, <1>4

LEMMA WorkerHolds ==
  ASSUME BoundAssumption, CallerAssumption, IInv, NEW c \in Caller, Worker(c)
  PROVE  IInv'
  <1>1. ASSUME NEW cmd \in {"open", "listen"}, Reserve(c, cmd)
        PROVE  IInv'
    BY <1>1, ReserveStep
  <1>2. CASE Fill(c)
    BY <1>2, FillStep
  <1>3. CASE Post(c)
    BY <1>3, PostStep
  <1>4. CASE SendDirect(c)
    BY <1>4, SendDirectStep
  <1>5. CASE KeepRest(c)
    BY <1>5, KeepRestStep
  <1>6. CASE IncSending(c)
    BY <1>6, IncSendingStep
  <1>7. ASSUME NEW cmd \in {"start", "pause", "close", "shutdown"},
               NEW id \in known, Order(c, cmd, id)
        PROVE  IInv'
    BY <1>7, OrderStep
  <1>8. ASSUME NEW id \in known, NEW low \in BOOLEAN, Send(c, id, low)
        PROVE  IInv'
    BY <1>8, SendStep
  <1> QED
    BY <1>1, <1>2, <1>3, <1>4, <1>5, <1>6, <1>7, <1>8 DEF Worker

LEMMA ThreadHolds ==
  ASSUME BoundAssumption, CallerAssumption, IInv, Thread
  PROVE  IInv'
  <1>1. CASE LockedClose
    BY <1>1, LockedCloseStep
  <1>2. CASE OpenSocket
    BY <1>2, OpenSocketStep
  <1>3. CASE ListenSocket
    BY <1>3, ListenSocketStep
  <1>4. CASE ResumeSocket
    BY <1>4, ResumeSocketStep
  <1>5. CASE SwitchEvent
    BY <1>5, SwitchEventStep
  <1>6. CASE CloseSocket
    BY <1>6, CloseSocketStep
  <1>7. CASE SendSocket
    BY <1>7, SendSocketStep
  <1>8. CASE NoRequest
    BY <1>8, NoRequestStep
  <1>9. CASE Wait
    BY <1>9, WaitStep
  <1>10. CASE ReportConnect
    BY <1>10, ReportConnectStep
  <1>11. CASE ReportAccept
    BY <1>11, ReportAcceptStep
  <1>12. CASE StaleEvent
    BY <1>12, StaleEventStep
  <1>13. CASE ReadNothing
    BY <1>13, ReadNothingStep
  <1>14. CASE ReadError
    BY <1>14, ReadErrorStep
  <1>15. CASE ReadData
    BY <1>15, ReadDataStep
  <1>16. CASE ReadEnd
    BY <1>16, ReadEndStep
  <1>17. CASE SendBuffer
    BY <1>17, SendBufferStep
  <1>18. CASE SendBlocked
    BY <1>18, SendBlockedStep
  <1>19. CASE ErrorEvent
    BY <1>19, ErrorEventStep
  <1>20. CASE HangUp
    BY <1>20, HangUpStep
  <1> QED
    BY <1>1, <1>2, <1>3, <1>4, <1>5, <1>6, <1>7, <1>8, <1>9, <1>10, <1>11,
      <1>12, <1>13, <1>14, <1>15, <1>16, <1>17, <1>18, <1>19, <1>20
    DEF Thread

LEMMA StepHolds ==
  ASSUME BoundAssumption, CallerAssumption, IInv, [Next]_vars
  PROVE  IInv'
  <1>1. ASSUME NEW c \in Caller, Worker(c)
        PROVE  IInv'
    BY <1>1, WorkerHolds
  <1>2. CASE Thread
    BY <1>2, ThreadHolds
  <1>3. ASSUME NEW id \in known, NEW how \in {"fin", "rst"}, PeerEnds(id, how)
        PROVE  IInv'
    BY <1>3, PeerEndsStep
  <1>4. CASE UNCHANGED vars
    BY <1>4, StutterHolds
  <1> QED
    BY <1>1, <1>2, <1>3, <1>4 DEF Next

-----------------------------------------------------------------------------
(* The theorems.                                                           *)

(* Whatever the workers, the socket thread and the other ends do, in any   *)
(* order, the slots, the requests, the counts of sends, the words told and *)
(* the data queued fit together: the invariant from which the rest follows *)
THEOREM SocketServerInvariance == Spec => []IInv
  <1>1. Init => IInv
    BY BoundAssumption, CallerAssumption, InitHolds
  <1>2. IInv /\ [Next]_vars => IInv'
    BY BoundAssumption, CallerAssumption, StepHolds
  <1> QED
    BY <1>1, <1>2, PTL DEF Spec

(* Every variable of the socket server keeps its type.                     *)
THEOREM SocketServerTyped == Spec => []TypeOK
  <1>1. IInv => TypeOK
    BY DEF IInv
  <1> QED
    BY <1>1, SocketServerInvariance, PTL

(* However direct writes of workers (socket_server_send), rests in         *)
(* dw_buffer and the two lists of the socket thread (send_buffer)          *)
(* alternate, messages reach a connection whole: never mixed, never twice, *)
(* never on another connection.  A socket closed by force with data unsent *)
(* is left out, as in the run.                                             *)
THEOREM MessagesWhole == Spec => []WireWhole
  <1>1. IInv => WireWhole
    BY DEF IInv
  <1> QED
    BY <1>1, SocketServerInvariance, PTL

(* What a worker sends to a socket leaves in the order it was sent, but    *)
(* for low messages that others overtake: a direct write overtakes nothing *)
(* that is queued or on its way in the pipe.                               *)
THEOREM SentInOrder == Spec => []SendOrder
  <1>1. IInv => SendOrder
    BY DEF IInv
  <1> QED
    BY <1>1, SocketServerInvariance, PTL

(* The counter of sends by which close_socket and the direct write decide  *)
(* counts those under way to this socket, and none to an earlier one of    *)
(* the slot (inc_sending_ref, dec_sending_ref), as long as no assert has   *)
(* ended the process.                                                      *)
THEOREM SendsCounted == Spec => []SendingCounted
  <1>1. IInv => SendingCounted
    <2> SUFFICES ASSUME IInv, ~failed, NEW sl \in Slot, sock[sl].tcp
                 PROVE  sock[sl].sending =
                          Cardinality(Posted(sock[sl].id))
                          + Cardinality(Posting(sock[sl].id))
      BY DEF SendingCounted, Posted, Posting, IsSend
    <2> QED
      BY Parts DEF CountInv
  <1> QED
    BY <1>1, SocketServerInvariance, PTL

(* The owner of a socket hears of its close once, of errors only after it, *)
(* and of the end of every socket that is gone, whoever ended it: the      *)
(* peer, a worker's request, or a connection that failed; as long as no    *)
(* assert has ended the process.                                           *)
THEOREM OwnerToldOnce == Spec => []ToldOnce
  <1>1. IInv => ToldOnce
    <2> SUFFICES ASSUME IInv, ~failed, NEW id \in known
                 PROVE  /\ CloseLast(told[id])
                        /\ Invalid(id) => Ended(told[id])
      BY DEF ToldOnce, CloseLast, Ended, Has
    <2> QED
      BY Parts DEF ToldInv, Invalid
  <1> QED
    BY <1>1, SocketServerInvariance, PTL

=============================================================================
