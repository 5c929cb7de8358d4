------------------------- MODULE RuntimeTimerProofs -------------------------
(***************************************************************************)
(* Proofs about RuntimeTimer.tla, for any levels: every timer fires in the *)
(* tick it is due, those of one tick in the order they were set.           *)
(***************************************************************************)
EXTENDS RuntimeTimer, WellFoundedInduction, TLAPS

(* A timer that has not fired: its time to go, by its node and by ticks.   *)
Waiting(t) ==
  /\ t \in asked
  /\ ticks[t] > 0 \/ pc = "move"
  /\ expire[t] = (time + ticks[t]) % Width

(* A node in a list is in the one that its time selects.                   *)
Placed ==
  \A s \in Slot : \A i \in DOMAIN lists[s] :
    Waiting(lists[s][i]) /\ SlotOf(expire[lists[s][i]], time) = s

Moving ==
  /\ pc # "move" => moving = <<>>
  /\ \A i \in DOMAIN moving : Waiting(moving[i])

Firing ==
  /\ pc = "move" => firing = <<>>
  /\ \A i \in DOMAIN firing : firing[i] \in asked /\ ticks[firing[i]] = 0

(* No node is lost. *)
Kept ==
  \A t \in asked : \/ t \in ToSet(firing) \/ t \in ToSet(moving)
                   \/ t \in ToSet(lists[SlotOf(expire[t], time)])

(* Updates are left while one goes on. *)
Busy == pc # "sleep" => todo > 0

(* Nodes of one time are in the order in which they were set, those already *)
(* dealt out before those still to be.                                      *)
Sorted(q) ==
  \A i, j \in DOMAIN q :
    i < j /\ expire[q[i]] = expire[q[j]] => <<q[i], q[j]>> \in older
Ordered ==
  /\ \A t \in Timer : <<t, t>> \notin older
  /\ Sorted(moving)
  /\ \A s \in Slot :
       /\ Sorted(lists[s])
       /\ \A i \in DOMAIN lists[s], j \in DOMAIN moving :
            expire[lists[s][i]] = expire[moving[j]] =>
              <<lists[s][i], moving[j]>> \in older

IInv ==
  TypeOK /\ Placed /\ Moving /\ Firing /\ Kept /\ Busy /\ Ordered /\ InOrder

-----------------------------------------------------------------------------
(* Numbers.                                                                *)

LEMMA Least ==
  ASSUME NEW T \in SUBSET Nat, NEW n \in T
  PROVE  \E m \in T : \A k \in T : m <= k
  <1> DEFINE R == {ss \in Nat \X Nat : ss[1] < ss[2]}
  <1>1. IsWellFoundedOn(R, Nat)
    BY NatLessThanWellFounded, Zenon DEF OpToRel
  <1>2. \E m \in T : \A k \in T : <<k, m>> \notin R
    <2> HIDE DEF R
    <2> QED BY <1>1, WFMin, Zenon
  <1>3. \A k, m \in Nat : <<k, m>> \notin R => m <= k
    OBVIOUS
  <1> QED BY <1>2, <1>3

LEMMA MinIsLeast ==
  ASSUME NEW T \in SUBSET Nat, T # {}
  PROVE  Min(T) \in T /\ \A k \in T : Min(T) <= k
  BY Least DEF Min

LEMMA DivMod ==
  ASSUME NEW n \in Nat, NEW d \in Nat \ {0}
  PROVE  /\ n \div d \in Nat /\ n % d \in 0..(d - 1)
         /\ n = (n \div d) * d + (n % d)
  <1>1. n \div d \in Nat /\ n % d \in 0..(d - 1)
    OBVIOUS
  <1>2. n = d * (n \div d) + (n % d)
    OBVIOUS
  <1>3. \A a, b \in Nat : a * b = b * a
    OBVIOUS
  <1>4. d * (n \div d) = (n \div d) * d
    BY <1>1, <1>3
  <1> QED BY <1>1, <1>2, <1>4

LEMMA MulLess ==
  ASSUME NEW a \in Nat, NEW b \in Nat, NEW d \in Nat \ {0}, a < b
  PROVE  a * d + d <= b * d
  <1>1. a + 1 <= b
    OBVIOUS
  <1>2. (a + 1) * d <= b * d
    BY <1>1
  <1> QED BY <1>2

(* A number has one quotient and remainder. *)
LEMMA DivUnique ==
  ASSUME NEW q \in Nat, NEW d \in Nat \ {0}, NEW r \in 0..(d - 1)
  PROVE  (q * d + r) \div d = q /\ (q * d + r) % d = r
  <1> DEFINE n == q * d + r
  <1>1. n \in Nat
    OBVIOUS
  <1>2. /\ n \div d \in Nat /\ n % d \in 0..(d - 1)
        /\ n = (n \div d) * d + (n % d)
    BY <1>1, DivMod
  <1>3. ~(n \div d < q)
    BY <1>2, MulLess
  <1>4. ~(q < n \div d)
    BY <1>2, MulLess
  <1>5. n \div d = q
    BY <1>2, <1>3, <1>4
  <1>6. n % d = r
    BY <1>2, <1>5
  <1> QED BY <1>5, <1>6

LEMMA DivMono ==
  ASSUME NEW a \in Nat, NEW b \in Nat, NEW d \in Nat \ {0}, a <= b
  PROVE  a \div d <= b \div d
  <1>1. ~(b \div d < a \div d)
    BY DivMod, MulLess
  <1> QED BY <1>1, DivMod

LEMMA DivApart ==
  ASSUME NEW a \in Nat, NEW b \in Nat, NEW d \in Nat \ {0}, a + d <= b
  PROVE  a \div d # b \div d
  <1> SUFFICES ASSUME a \div d = b \div d PROVE FALSE
    OBVIOUS
  <1> DEFINE p == (b \div d) * d
  <1>1. p \in Nat /\ b = p + (b % d) /\ a = p + (a % d)
    <2>1. \A n, m \in Nat : n * m \in Nat
      OBVIOUS
    <2>2. b \div d \in Nat /\ b = (b \div d) * d + (b % d)
      BY DivMod
    <2>3. a = (a \div d) * d + (a % d)
      BY DivMod
    <2> QED BY <2>1, <2>2, <2>3
  <1>2. a % d >= 0 /\ b % d < d /\ a % d \in Int /\ b % d \in Int
    BY DivMod
  <1> HIDE DEF p
  <1> QED BY <1>1, <1>2

(* The quotient grows by one when the remainder comes to zero.             *)
LEMMA DivStep ==
  ASSUME NEW n \in Nat, NEW d \in Nat \ {0}
  PROVE  /\ (n + 1) % d = 0 => (n + 1) \div d = (n \div d) + 1
         /\ (n + 1) % d # 0 => (n + 1) \div d = n \div d
  <1> DEFINE q == n \div d
             r == n % d
  <1>1. q \in Nat /\ r \in 0..(d - 1) /\ n = q * d + r
    BY DivMod
  <1> HIDE DEF q, r
  <1>2. CASE r + 1 = d
    <2>1. n + 1 = (q + 1) * d + 0 /\ 0 \in 0..(d - 1)
      BY <1>1, <1>2
    <2>2. (n + 1) \div d = q + 1 /\ (n + 1) % d = 0
      BY <1>1, <2>1, DivUnique
    <2> QED BY <2>2 DEF q
  <1>3. CASE r + 1 # d
    <2>1. n + 1 = q * d + (r + 1) /\ r + 1 \in 0..(d - 1)
      BY <1>1, <1>3
    <2>2. (n + 1) \div d = q /\ (n + 1) % d = r + 1
      BY <1>1, <2>1, DivUnique
    <2> QED BY <1>1, <2>2 DEF q
  <1> QED BY <1>2, <1>3

(* Division by a product, and its remainder.                               *)
LEMMA DivDiv ==
  ASSUME NEW n \in Nat, NEW d \in Nat \ {0}, NEW m \in Nat \ {0}
  PROVE  /\ n \div (d * m) = (n \div d) \div m
         /\ n % (d * m) = ((n \div d) % m) * d + (n % d)
  <1> DEFINE a == n \div d
             r == n % d
             q == a \div m
             s == a % m
  <1>1. a \in Nat /\ r \in 0..(d - 1) /\ n = a * d + r
    BY DivMod
  <1> HIDE DEF a, r
  <1>2. q \in Nat /\ s \in 0..(m - 1) /\ a = q * m + s
    BY <1>1, DivMod
  <1> HIDE DEF q, s
  <1>3. s * d + d <= m * d
    BY <1>2, MulLess
  <1>4. d * m \in Nat \ {0} /\ d * m = m * d
    OBVIOUS
  <1>5. s * d \in Nat
    BY <1>2
  <1>6. s * d + r \in 0..(d * m - 1)
    BY <1>1, <1>3, <1>4, <1>5
  <1>7. a * d = q * (d * m) + s * d
    BY <1>2
  <1>8. n = q * (d * m) + (s * d + r)
    BY <1>1, <1>2, <1>4, <1>5, <1>7
  <1>9. n \div (d * m) = q /\ n % (d * m) = s * d + r
    BY <1>2, <1>4, <1>6, <1>8, DivUnique
  <1>10. q = (n \div d) \div m /\ s = (n \div d) % m /\ r = n % d
    BY DEF q, s, r, a
  <1> QED BY <1>9, <1>10

-----------------------------------------------------------------------------
(* Units, levels and lists.                                                *)

Time == 0..(Width - 1)
Top == Levels - 1

LEMMA Units ==
  /\ Top \in 0..Levels /\ Levels \in Nat
  /\ \A i \in 0..Levels : Unit[i] \in Nat \ {0}
  /\ Unit[0] = Near /\ Width \in Nat \ {0} /\ Width = Unit[Top] * Level
  /\ 2 * Unit[Top] <= Width /\ 2 * MaxDelay < Width
  <1>1. /\ Levels \in Nat \ {0} /\ Top \in 0..Levels
        /\ \A i \in 0..Levels : Unit[i] \in Nat \ {0}
    BY LevelAssumption DEF Top
  <1>2. Unit[Levels] = Unit[Top] * Level
    BY <1>1, LevelAssumption DEF Top
  <1>3. \A a \in Nat, b \in Nat \ {0, 1} : 2 * a <= a * b
    <2> SUFFICES ASSUME NEW a \in Nat, NEW b \in Nat \ {0, 1}
                 PROVE  2 * a <= a * b
      OBVIOUS
    <2>1. a * b = a * (b - 2) + 2 * a /\ a * (b - 2) \in Nat
      OBVIOUS
    <2> QED BY <2>1
  <1>4. 2 * Unit[Top] <= Unit[Top] * Level
    BY <1>1, <1>3, LevelAssumption
  <1> QED BY <1>1, <1>2, <1>4, LevelAssumption, BoundAssumption DEF Width

(* Times that agree at a level agree at all higher ones.                   *)
LEMMA AgreeUp ==
  ASSUME NEW x \in Time, NEW m \in Time, NEW i \in 0..Top, NEW j \in i..Top,
         Agree(x, m, i)
  PROVE  Agree(x, m, j)
  <1> SUFFICES ASSUME ~Agree(x, m, j) PROVE FALSE
    OBVIOUS
  <1> DEFINE T == {k \in i..Top : ~Agree(x, m, k)}
  <1>1. T \in SUBSET Nat /\ j \in T
    BY Units
  <1>2. PICK n \in T : \A k \in T : n <= k
    <2> HIDE DEF T
    <2> QED BY <1>1, Least
  <1>3. n \in (i + 1)..Top /\ n - 1 \in 0..Top /\ Agree(x, m, n - 1)
    BY <1>2, Units
  <1>4. Unit[n] = Unit[n - 1] * Level /\ Unit[n - 1] \in Nat \ {0}
    BY <1>3, LevelAssumption, Units DEF Top
  <1>5. x \in Nat /\ m \in Nat
    BY DEF Time
  <1>6. /\ x \div Unit[n] = (x \div Unit[n - 1]) \div Level
        /\ m \div Unit[n] = (m \div Unit[n - 1]) \div Level
    <2>1. \A d \in Nat \ {0}, k \in Nat :
            k \div (d * Level) = (k \div d) \div Level
      <3>1. Level \in Nat \ {0}
        BY LevelAssumption
      <3> QED BY <3>1, DivDiv, Zenon
    <2> QED BY <1>4, <1>5, <2>1
  <1> QED BY <1>2, <1>3, <1>6 DEF Agree

LEMMA LevelIsLeast ==
  ASSUME NEW x, NEW m
  PROVE  /\ LevelOf(x, m) \in 0..Top
         /\ LevelOf(x, m) # Top => Agree(x, m, LevelOf(x, m) + 1)
         /\ \A i \in 0..(Top - 1) : Agree(x, m, i + 1) => LevelOf(x, m) <= i
  <1> DEFINE T ==
        {i \in 0..(Levels - 2) : Agree(x, m, i + 1)} \cup {Levels - 1}
  <1>1. T \in SUBSET Nat /\ T # {} /\ T \subseteq 0..Top
    BY LevelAssumption DEF Top
  <1>2. Min(T) \in T /\ \A k \in T : Min(T) <= k
    <2> HIDE DEF T
    <2> QED BY <1>1, MinIsLeast
  <1>3. LevelOf(x, m) = Min(T)
    BY DEF LevelOf
  <1> QED BY <1>1, <1>2, <1>3, LevelAssumption DEF Top

LEMMA DigitType ==
  ASSUME NEW x \in Time, NEW i \in 0..Top
  PROVE  Digit(x, i) \in 0..(Level - 1)
  <1>1. Unit[i] \in Nat \ {0} /\ x \in Nat
    BY Units DEF Time
  <1>2. x \div Unit[i] \in Nat
    BY <1>1, DivMod
  <1> QED BY <1>2, DivMod, LevelAssumption DEF Digit

LEMMA NearSlotType ==
  ASSUME NEW x \in Time
  PROVE  NearSlot(x) \in Slot
  <1>1. x % Near \in 0..(Near - 1)
    BY DivMod, LevelAssumption DEF Time
  <1> QED BY <1>1 DEF NearSlot, Slot

LEMMA SlotOfType ==
  ASSUME NEW x \in Time, NEW m \in Time
  PROVE  SlotOf(x, m) \in Slot
  BY NearSlotType, LevelIsLeast, DigitType DEF SlotOf, Slot, Top

(* The list of the current tick holds what is due now, and nothing else.   *)
LEMMA NearIsNow ==
  ASSUME NEW x \in Time, NEW m \in Time
  PROVE  SlotOf(x, m) = NearSlot(m) <=> x = m
  <1>1. SlotOf(m, m) = NearSlot(m)
    BY DEF SlotOf, Agree
  <1>2. ASSUME SlotOf(x, m) = NearSlot(m) PROVE x = m
    <2>1. Agree(x, m, 0)
      BY <1>2, LevelIsLeast DEF SlotOf, NearSlot
    <2>2. x % Near = m % Near /\ x \div Near = m \div Near
      BY <1>2, <2>1, Units DEF SlotOf, NearSlot, Agree
    <2>3. x \in Nat /\ m \in Nat /\ Near \in Nat \ {0}
      BY LevelAssumption DEF Time
    <2>4. /\ x = (x \div Near) * Near + (x % Near)
          /\ m = (m \div Near) * Near + (m % Near)
      BY <2>3, DivMod
    <2> QED BY <2>2, <2>4
  <1> QED BY <1>1, <1>2

-----------------------------------------------------------------------------
(* What a tick changes.                                                    *)

LEMMA SmallMod ==
  ASSUME NEW n \in Nat, NEW d \in Nat \ {0}, n < 2 * d
  PROVE  n % d = IF n < d THEN n ELSE n - d
  <1>1. CASE n < d
    <2>1. n = 0 * d + n /\ n \in 0..(d - 1)
      BY <1>1
    <2> QED BY <1>1, <2>1, DivUnique
  <1>2. CASE ~(n < d)
    <2>1. n = 1 * d + (n - d) /\ n - d \in 0..(d - 1)
      BY <1>2
    <2> QED BY <1>2, <2>1, DivUnique
  <1> QED BY <1>1, <1>2

(* A time k ticks from m.                                                  *)
LEMMA Later ==
  ASSUME NEW m \in Time, NEW k \in 0..MaxDelay
  PROVE  /\ (m + k) % Width \in Time
         /\ m + k < Width => (m + k) % Width = m + k
         /\ m + k >= Width => (m + k) % Width = (m + k) - Width
  <1>1. /\ Width \in Nat \ {0} /\ MaxDelay \in Nat /\ 2 * MaxDelay < Width
        /\ m \in 0..(Width - 1)
    BY Units, BoundAssumption DEF Time
  <1> DEFINE n == m + k
  <1>2. n \in Nat /\ n < 2 * Width
    BY <1>1
  <1>3. n % Width = IF n < Width THEN n ELSE n - Width
    <2> HIDE DEF n
    <2> QED BY <1>1, <1>2, SmallMod
  <1>4. (m + k) % Width = IF m + k < Width THEN m + k ELSE (m + k) - Width
    BY <1>3
  <1> QED BY <1>1, <1>4 DEF Time

LEMMA Closer ==
  ASSUME NEW m \in Time, NEW k \in 1..MaxDelay
  PROVE  (((m + 1) % Width) + (k - 1)) % Width = (m + k) % Width
  <1>1. Width \in Nat /\ MaxDelay \in Nat /\ m \in 0..(Width - 1)
    BY Units, BoundAssumption DEF Time
  <1>2. k - 1 \in 0..MaxDelay /\ k \in 0..MaxDelay /\ 1 \in 0..MaxDelay
    BY <1>1
  <1>3. CASE m + 1 < Width
    BY <1>1, <1>2, <1>3, Later
  <1>4. CASE m + 1 >= Width
    <2>1. (m + 1) % Width = 0 /\ 0 \in Time
      BY <1>1, <1>2, <1>4, Later DEF Time
    <2> DEFINE j == k - 1
    <2>2. j \in 0..MaxDelay /\ 0 + j < Width /\ 0 + j = j
      BY <1>1, <1>2, Units
    <2>3. (0 + j) % Width = 0 + j
      <3> HIDE DEF j
      <3> QED BY <2>1, <2>2, Later, Zenon
    <2>4. (m + k) % Width = k - 1
      BY <1>1, <1>2, <1>4, Later
    <2> QED BY <1>2, <2>1, <2>2, <2>3, <2>4
  <1> QED BY <1>1, <1>3, <1>4

(* Times on both sides of the wrap agree at no level.                      *)
LEMMA WrappedApart ==
  ASSUME NEW m \in Time, NEW k \in 1..MaxDelay, m + k >= Width,
         NEW i \in 0..Top
  PROVE  ~Agree((m + k) % Width, m, i)
  <1> DEFINE x == (m + k) % Width
  <1>1. Width \in Nat /\ MaxDelay \in Nat /\ m \in 0..(Width - 1)
    BY Units, BoundAssumption DEF Time
  <1>2. x \in Time /\ x = (m + k) - Width
    <2>1. k \in 0..MaxDelay
      BY <1>1
    <2> QED BY <2>1, Later, Zenon
  <1>3. Unit[Top] \in Nat \ {0} /\ 2 * Unit[Top] <= Width
    BY Units
  <1>4. x + Unit[Top] <= m /\ x \in Nat
    BY <1>1, <1>2, <1>3, Units DEF Time
  <1>5. ~Agree(x, m, Top)
    <2>1. m \in Nat
      BY <1>1
    <2>2. x \div Unit[Top] # m \div Unit[Top]
      BY <1>3, <1>4, <2>1, DivApart, Zenon
    <2> QED BY <2>2 DEF Agree
  <1>6. Top \in i..Top
    BY Units
  <1> QED BY <1>2, <1>5, <1>6, AgreeUp

LEMMA SameSlot ==
  ASSUME NEW x, NEW m, NEW n,
         \A i \in 0..Top : Agree(x, m, i) <=> Agree(x, n, i)
  PROVE  SlotOf(x, m) = SlotOf(x, n)
  <1>1. \A i \in 0..(Levels - 2) : i + 1 \in 0..Top
    BY Units DEF Top
  <1>2. {i \in 0..(Levels - 2) : Agree(x, m, i + 1)}
        = {i \in 0..(Levels - 2) : Agree(x, n, i + 1)}
    BY <1>1
  <1>3. LevelOf(x, m) = LevelOf(x, n)
    BY <1>2 DEF LevelOf
  <1>4. 0 \in 0..Top
    BY Units
  <1> QED BY <1>3, <1>4 DEF SlotOf

LEMMA NoCarry ==
  ASSUME NEW m \in Time, m + 1 \in Time, ~Deals(m + 1), NEW i \in 0..Top
  PROVE  Agree(m, m + 1, i)
  <1>1. m \in Nat /\ 0 \in 0..Top /\ i \in 0..Top
    BY Units DEF Time
  <1>2. (m + 1) % Unit[0] # 0 /\ Unit[0] \in Nat \ {0}
    BY Units, LevelAssumption DEF Deals
  <1>3. (m + 1) \div Unit[0] = m \div Unit[0]
    BY <1>1, <1>2, DivStep, Zenon
  <1> QED BY <1>1, <1>3, AgreeUp DEF Agree

(* The digits of a time below DealtLevel are those of its remainder.       *)
LEMMA DigitOf ==
  ASSUME NEW x \in Time, NEW i \in 0..Top
  PROVE  x % Unit[i + 1] = Digit(x, i) * Unit[i] + (x % Unit[i])
  <1>1. Unit[i] \in Nat \ {0} /\ Level \in Nat \ {0} /\ x \in Nat
    <2>1. Level \in Nat \ {0} /\ x \in Nat
      BY LevelAssumption DEF Time
    <2>2. i \in 0..Levels
      BY Units DEF Top
    <2> QED BY <2>1, <2>2, Units
  <1>2. i + 1 \in 1..Levels /\ (i + 1) - 1 = i
    BY Units DEF Top
  <1>3. Unit[i + 1] = Unit[i] * Level
    BY <1>2, LevelAssumption
  <1>4. x % (Unit[i] * Level)
        = ((x \div Unit[i]) % Level) * Unit[i] + (x % Unit[i])
    BY <1>1, DivDiv, Zenon
  <1> QED BY <1>3, <1>4 DEF Digit

(* A tick that deals a list out counts up one digit, that of the list, and *)
(* leaves those above alone.                                               *)
LEMMA Carry ==
  ASSUME NEW m \in Time, m + 1 \in Time, Deals(m + 1)
  PROVE  LET K == DealtLevel(m + 1) IN
         /\ K \in 0..Top
         /\ (m + 1) \div Unit[K] = (m \div Unit[K]) + 1
         /\ \A i \in (K + 1)..Top : Agree(m, m + 1, i)
  <1> DEFINE c == m + 1
             Z == {i \in 0..Levels : c % Unit[i] # 0}
  <1>1. c \in Nat \ {0} /\ m \in Nat /\ c < Width /\ c \in Time
    BY Units DEF Time
  <1>2. Levels \in Nat \ {0} /\ \A i \in 0..Levels : Unit[i] \in Nat \ {0}
    BY Units, LevelAssumption
  <1>3. Z \in SUBSET Nat /\ Levels \in Z
    <2>1. c % Width = c
      BY <1>1, Units, SmallMod
    <2> QED BY <1>1, <1>2, <2>1 DEF Width
  <1>4. PICK z \in Z : \A i \in Z : z <= i
    <2> HIDE DEF Z
    <2> QED BY <1>3, Least
  <1>5. c % Unit[0] = 0
    BY LevelAssumption DEF Deals
  <1>6. z \in 1..Levels /\ c % Unit[z] # 0
    BY <1>2, <1>4, <1>5
  <1>7. \A i \in 0..(z - 1) : c % Unit[i] = 0
    BY <1>2, <1>4
  <1> DEFINE K == z - 1
  <1>8. K \in 0..Top /\ K + 1 = z
    BY <1>2, <1>6 DEF Top
  <1> HIDE DEF Z
  <1>9. Digit(c, K) # 0
    <2>1. c % Unit[K + 1] = Digit(c, K) * Unit[K] + (c % Unit[K])
      BY <1>1, <1>8, DigitOf
    <2>2. c % Unit[K] = 0 /\ Unit[K] \in Nat
      BY <1>2, <1>6, <1>7, <1>8
    <2>3. Digit(c, K) \in Nat
      BY <1>1, <1>8, DigitType, LevelAssumption
    <2>4. c % Unit[z] = Digit(c, K) * Unit[K]
      BY <1>8, <2>1, <2>2, <2>3
    <2> QED BY <1>6, <2>2, <2>4
  <1>10. \A i \in 0..(K - 1) : Digit(c, i) = 0
    <2> SUFFICES ASSUME NEW i \in 0..(K - 1) PROVE Digit(c, i) = 0
      OBVIOUS
    <2>1. i \in 0..Top /\ i \in 0..(z - 1) /\ i + 1 \in 0..(z - 1)
      BY <1>6, <1>8, Units
    <2>2. c % Unit[i + 1] = Digit(c, i) * Unit[i] + (c % Unit[i])
      BY <1>1, <2>1, DigitOf
    <2>3. c % Unit[i + 1] = 0 /\ c % Unit[i] = 0
      BY <1>7, <2>1
    <2>4. Digit(c, i) \in Nat /\ Unit[i] \in Nat \ {0}
      BY <1>1, <1>2, <2>1, <1>6, DigitType, LevelAssumption
    <2> QED BY <2>2, <2>3, <2>4
  <1>11. DealtLevel(c) = K
    <2> DEFINE D == {i \in 0..(Levels - 1) : Digit(c, i) # 0}
    <2>1. D \in SUBSET Nat /\ K \in D /\ \A i \in D : K <= i
      BY <1>2, <1>8, <1>9, <1>10 DEF Top
    <2>2. Min(D) \in D /\ \A i \in D : Min(D) <= i
      <3> HIDE DEF D
      <3> QED BY <2>1, MinIsLeast
    <2>3. DealtLevel(c) = Min(D)
      BY DEF DealtLevel
    <2> QED BY <2>1, <2>2, <2>3
  <1>12. c \div Unit[K] = (m \div Unit[K]) + 1
    <2>1. c % Unit[K] = 0 /\ Unit[K] \in Nat \ {0}
      BY <1>2, <1>6, <1>7, <1>8
    <2> QED BY <1>1, <2>1, DivStep
  <1>13. \A i \in (K + 1)..Top : Agree(m, c, i)
    <2> SUFFICES ASSUME NEW i \in (K + 1)..Top PROVE Agree(m, c, i)
      OBVIOUS
    <2>1. z \in 0..Top /\ i \in z..Top /\ Unit[z] \in Nat \ {0}
      BY <1>2, <1>6, <1>8 DEF Top
    <2>2. Agree(m, c, z)
      BY <1>1, <1>6, <2>1, DivStep, Zenon DEF Agree
    <2> QED BY <1>1, <2>1, <2>2, AgreeUp
  <1> QED BY <1>8, <1>11, <1>12, <1>13

(* A list that is not dealt out is right for the next tick, too.           *)
LEMMA ShiftUp ==
  ASSUME NEW m \in Time, m + 1 \in Time, NEW k \in 1..MaxDelay
  PROVE  LET x == (m + k) % Width IN
         \/ Deals(m + 1) /\ SlotOf(x, m) = Dealt(m + 1)
         \/ SlotOf(x, m) = SlotOf(x, m + 1)
  <1> DEFINE c == m + 1
             x == (m + k) % Width
             K == DealtLevel(c)
  <1>1. m \in Nat /\ c \in Nat /\ c # 0 /\ c \in Time /\ k \in 0..MaxDelay
    BY BoundAssumption DEF Time
  <1>2. x \in Time /\ x \in Nat
    BY <1>1, Later DEF Time
  <1>3. CASE ~Deals(c)
    <2>1. \A i \in 0..Top : Agree(m, c, i)
      BY <1>3, NoCarry
    <2>2. \A i \in 0..Top : Agree(x, m, i) <=> Agree(x, c, i)
      BY <2>1 DEF Agree
    <2> QED BY <2>2, SameSlot
  <1>4. CASE Deals(c) /\ SlotOf(x, m) # Dealt(c)
    <2>1. /\ K \in 0..Top
          /\ c \div Unit[K] = (m \div Unit[K]) + 1
          /\ \A i \in (K + 1)..Top : Agree(m, c, i)
      BY <1>4, Carry
    <2>2. Dealt(c) = <<K, Digit(c, K)>>
      BY <1>1 DEF Dealt
    <2> HIDE DEF K
    <2>3. Unit[K] \in Nat \ {0} /\ Top \in Nat
      BY <2>1, Units
    <2>4. ~Agree(x, m, K)
      <3>1. CASE m + k < Width
        <4>1. c <= x
          BY <1>1, <3>1, Later
        <4>2. c \div Unit[K] <= x \div Unit[K]
          BY <1>1, <1>2, <2>3, <4>1, DivMono
        <4>3. m \div Unit[K] \in Nat /\ x \div Unit[K] \in Nat
          BY <1>1, <1>2, <2>3, DivMod
        <4> QED BY <2>1, <4>2, <4>3 DEF Agree
      <3>2. CASE m + k >= Width
        BY <2>1, <3>2, WrappedApart
      <3> QED BY <1>1, <3>1, <3>2, Units
    <2>5. \A i \in 0..K : ~Agree(x, m, i)
      <3>1. \A i \in 0..K : i \in 0..Top /\ K \in i..Top
        BY <2>1, <2>3
      <3> QED BY <1>2, <2>4, <3>1, AgreeUp
    <2>6. LevelOf(x, m) \in K..Top
      <3>1. /\ LevelOf(x, m) \in 0..Top
            /\ LevelOf(x, m) # Top => Agree(x, m, LevelOf(x, m) + 1)
        BY LevelIsLeast
      <3> QED BY <2>1, <2>3, <2>5, <3>1
    <2>7. ~Agree(x, c, K)
      <3> SUFFICES ASSUME Agree(x, c, K) PROVE FALSE
        OBVIOUS
      <3>1. Digit(x, K) = Digit(c, K)
        BY DEF Agree, Digit
      <3>2. LevelOf(x, m) = K
        <4>1. CASE K = Top
          BY <2>3, <2>6, <4>1
        <4>2. CASE K # Top
          <5>1. K \in 0..(Top - 1) /\ K + 1 \in K..Top
            BY <2>1, <2>3, <4>2
          <5>2. K + 1 \in (K + 1)..Top
            BY <2>1, <5>1
          <5>3. Agree(x, c, K + 1) /\ Agree(m, c, K + 1)
            BY <1>1, <1>2, <2>1, <5>1, <5>2, AgreeUp
          <5>4. Agree(x, m, K + 1)
            BY <5>3 DEF Agree
          <5>5. LevelOf(x, m) <= K
            BY <5>1, <5>4, LevelIsLeast
          <5> QED BY <2>1, <2>3, <2>6, <5>5
        <4> QED BY <4>1, <4>2
      <3>3. ~Agree(x, m, 0)
        BY <2>1, <2>5
      <3> QED BY <1>4, <2>2, <3>1, <3>2, <3>3 DEF SlotOf
    <2>8. \A i \in 0..K : ~Agree(x, c, i)
      <3>1. \A i \in 0..K : i \in 0..Top /\ K \in i..Top
        BY <2>1, <2>3
      <3> QED BY <1>1, <1>2, <2>7, <3>1, AgreeUp
    <2>9. \A i \in 0..Top : Agree(x, m, i) <=> Agree(x, c, i)
      <3>1. \A i \in 0..Top : i \in 0..K \/ i \in (K + 1)..Top
        BY <2>1, <2>3
      <3> QED BY <2>1, <2>5, <2>8, <3>1 DEF Agree
    <2> QED BY <2>9, SameSlot
  <1> QED BY <1>3, <1>4

(* So it is where time wraps: all that is to come then lies in the highest *)
(* level, and what the wrap brings near, in the list dealt out.            *)
LEMMA ShiftWrap ==
  ASSUME NEW m \in Time, m + 1 = Width, NEW k \in 1..MaxDelay
  PROVE  LET x == (m + k) % Width IN
         SlotOf(x, m) = Dealt(0) \/ SlotOf(x, m) = SlotOf(x, 0)
  <1> DEFINE x == (m + k) % Width
  <1>1. /\ m \in Nat /\ k \in 0..MaxDelay /\ m + k >= Width /\ 0 \in Time
        /\ Top \in 0..Top /\ Top = Levels - 1
    BY BoundAssumption, Units DEF Time, Top
  <1>2. x \in Time /\ x \in Nat
    BY <1>1, Later DEF Time
  <1>3. \A i \in 0..Top : ~Agree(x, m, i)
    BY <1>1, WrappedApart
  <1>4. SlotOf(x, m) = <<Top, Digit(x, Top)>>
    <2>1. LevelOf(x, m) = Top
      <3>1. /\ LevelOf(x, m) \in 0..Top
            /\ LevelOf(x, m) # Top => Agree(x, m, LevelOf(x, m) + 1)
        BY LevelIsLeast
      <3> QED BY <1>1, <1>3, <3>1
    <2>2. ~Agree(x, m, 0)
      BY <1>1, <1>3
    <2> QED BY <2>1, <2>2 DEF SlotOf
  <1>5. CASE Digit(x, Top) # 0
    <2>1. Unit[Top] \in Nat \ {0} /\ Level \in Nat \ {0}
      BY Units, LevelAssumption
    <2>2. ~Agree(x, 0, Top)
      <3>1. 0 \div Unit[Top] = 0 /\ 0 % Level = 0
        BY <2>1, DivUnique
      <3> QED BY <1>5, <3>1 DEF Agree, Digit
    <2>3. \A i \in 0..Top : ~Agree(x, 0, i)
      <3>1. \A i \in 0..Top : Top \in i..Top
        BY <1>1
      <3> QED BY <1>1, <1>2, <2>2, <3>1, AgreeUp
    <2> QED BY <1>3, <2>3, SameSlot
  <1>6. CASE Digit(x, Top) = 0
    BY <1>1, <1>4, <1>6 DEF Dealt
  <1> QED BY <1>5, <1>6

LEMMA DealtType ==
  ASSUME NEW m \in Time, Deals((m + 1) % Width)
  PROVE  Dealt((m + 1) % Width) \in Slot
  <1> DEFINE c == (m + 1) % Width
  <1>1. /\ 1 \in 0..MaxDelay /\ m \in Nat /\ Width \in Nat
        /\ Top = Levels - 1 /\ Top \in Nat
    BY BoundAssumption, Units DEF Time, Top
  <1>2. c \in Time /\ (m + 1 < Width => c = m + 1)
        /\ (m + 1 >= Width => c = (m + 1) - Width)
    BY <1>1, Later
  <1>3. CASE c = 0
    BY <1>1, <1>3, LevelAssumption DEF Dealt, Slot
  <1>4. CASE c # 0
    <2>1. c = m + 1 /\ m + 1 \in Time
      BY <1>1, <1>2, <1>4 DEF Time
    <2>2. DealtLevel(c) \in 0..Top
      BY <2>1, Carry
    <2>3. Digit(c, DealtLevel(c)) \in 0..(Level - 1)
      BY <1>2, <2>2, DigitType
    <2> QED BY <1>1, <1>4, <2>2, <2>3 DEF Dealt, Slot
  <1> QED BY <1>3, <1>4

LEMMA Shift ==
  ASSUME NEW m \in Time, NEW k \in 1..MaxDelay
  PROVE  LET x == (m + k) % Width
             c == (m + 1) % Width IN
         \/ Deals(c) /\ SlotOf(x, m) = Dealt(c)
         \/ SlotOf(x, m) = SlotOf(x, c)
  <1>1. 1 \in 0..MaxDelay /\ m \in 0..(Width - 1) /\ Width \in Nat
    BY BoundAssumption, Units DEF Time
  <1>2. CASE m + 1 < Width
    <2>1. (m + 1) % Width = m + 1 /\ m + 1 \in Time
      BY <1>1, <1>2, Later DEF Time
    <2> QED BY <2>1, ShiftUp
  <1>3. CASE m + 1 >= Width
    <2>1. m + 1 = Width /\ (m + 1) % Width = 0
      BY <1>1, <1>3, Later
    <2>2. Deals(0)
      BY LevelAssumption, DivUnique DEF Deals
    <2> QED BY <2>1, <2>2, ShiftWrap
  <1> QED BY <1>1, <1>2, <1>3

-----------------------------------------------------------------------------
(* Lists.                                                                  *)

LEMMA AppendFacts ==
  ASSUME NEW q \in Seq(Timer), NEW t \in Timer
  PROVE  /\ Append(q, t) \in Seq(Timer)
         /\ DOMAIN q = 1..Len(q) /\ Len(q) \in Nat
         /\ DOMAIN Append(q, t) = 1..(Len(q) + 1)
         /\ \A i \in DOMAIN q : Append(q, t)[i] = q[i]
         /\ Append(q, t)[Len(q) + 1] = t
         /\ ToSet(Append(q, t)) = ToSet(q) \cup {t}
  <1>1. /\ Append(q, t) \in Seq(Timer)
        /\ DOMAIN q = 1..Len(q) /\ Len(q) \in Nat
        /\ DOMAIN Append(q, t) = 1..(Len(q) + 1)
        /\ \A i \in DOMAIN q : Append(q, t)[i] = q[i]
        /\ Append(q, t)[Len(q) + 1] = t
    OBVIOUS
  <1>2. /\ \A i \in DOMAIN q : i \in DOMAIN Append(q, t)
        /\ \A i \in DOMAIN Append(q, t) : i \in DOMAIN q \/ i = Len(q) + 1
        /\ Len(q) + 1 \in DOMAIN Append(q, t)
    BY <1>1
  <1>3. ToSet(Append(q, t)) = ToSet(q) \cup {t}
    BY <1>1, <1>2 DEF ToSet
  <1> QED BY <1>1, <1>3

LEMMA TailFacts ==
  ASSUME NEW q \in Seq(Timer), q # <<>>
  PROVE  /\ Tail(q) \in Seq(Timer) /\ Head(q) \in Timer
         /\ 1 \in DOMAIN q /\ Head(q) = q[1]
         /\ \A i \in DOMAIN Tail(q) : /\ i \in Nat \ {0}
                                     /\ i + 1 \in DOMAIN q
                                     /\ Tail(q)[i] = q[i + 1]
         /\ ToSet(q) = {Head(q)} \cup ToSet(Tail(q))
  <1>1. /\ Tail(q) \in Seq(Timer) /\ Head(q) \in Timer
        /\ 1 \in DOMAIN q /\ Head(q) = q[1]
        /\ \A i \in DOMAIN Tail(q) : /\ i \in Nat \ {0}
                                    /\ i + 1 \in DOMAIN q
                                    /\ Tail(q)[i] = q[i + 1]
    OBVIOUS
  <1>2. \A i \in DOMAIN q : i = 1 \/ (i - 1 \in DOMAIN Tail(q) /\ i \in Nat)
    OBVIOUS
  <1>3. \A i \in DOMAIN q : q[i] \in {q[1]} \cup ToSet(Tail(q))
    <2> SUFFICES ASSUME NEW i \in DOMAIN q, i # 1 PROVE q[i] \in ToSet(Tail(q))
      OBVIOUS
    <2>1. i - 1 \in DOMAIN Tail(q) /\ Tail(q)[i - 1] = q[i]
      BY <1>1, <1>2
    <2> QED BY <2>1 DEF ToSet
  <1>4. ToSet(Tail(q)) \subseteq ToSet(q)
    BY <1>1 DEF ToSet
  <1> QED BY <1>1, <1>3, <1>4 DEF ToSet

-----------------------------------------------------------------------------
(* What the invariant says of a state.                                     *)

LEMMA Ahead ==
  ASSUME TypeOK, NEW t \in Timer, Waiting(t)
  PROVE  /\ expire[t] \in Time
         /\ SlotOf(expire[t], time) = NearSlot(time) <=> ticks[t] = 0
         /\ expire[t] = time <=> ticks[t] = 0
  <1> DEFINE k == ticks[t]
  <1>1. /\ time \in Time /\ k \in 0..MaxDelay /\ expire[t] = (time + k) % Width
        /\ Width \in Nat /\ 2 * MaxDelay < Width /\ MaxDelay \in Nat
    BY Units, BoundAssumption DEF TypeOK, Waiting, Time
  <1>2. /\ expire[t] \in Time
        /\ time + k < Width => expire[t] = time + k
        /\ time + k >= Width => expire[t] = (time + k) - Width
    BY <1>1, Later
  <1>3. expire[t] = time <=> k = 0
    <2>1. /\ time \in 0..(Width - 1) /\ k \in 0..MaxDelay
          /\ Width \in Nat /\ MaxDelay \in Nat /\ 2 * MaxDelay < Width
      BY <1>1 DEF Time
    <2> HIDE DEF k
    <2> QED BY <1>2, <2>1
  <1> QED BY <1>1, <1>2, <1>3, NearIsNow

(* Outside of timer_shift nothing is due.                                  *)
LEMMA NotDue ==
  ASSUME TypeOK, Placed, pc # "move"
  PROVE  ~Due
  <1> SUFFICES ASSUME Due PROVE FALSE
    OBVIOUS
  <1> DEFINE s == NearSlot(time)
  <1>1. s \in Slot
    BY NearSlotType DEF TypeOK, Time
  <1>2. lists[s] \in Seq(Timer) /\ lists[s] # <<>>
    BY <1>1 DEF TypeOK, Due
  <1>3. 1 \in DOMAIN lists[s] /\ lists[s][1] \in Timer
    <2> HIDE DEF s
    <2> QED BY <1>2, TailFacts
  <1>4. Waiting(lists[s][1]) /\ SlotOf(expire[lists[s][1]], time) = s
    BY <1>1, <1>3 DEF Placed
  <1>5. ticks[lists[s][1]] = 0
    <2> HIDE DEF s
    <2> QED BY <1>3, <1>4, Ahead DEF s
  <1> QED BY <1>4, <1>5 DEF Waiting

(* The members of a list are timers.                                       *)
LEMMA Members ==
  ASSUME TypeOK
  PROVE  /\ \A s \in Slot : \A i \in DOMAIN lists[s] : lists[s][i] \in Timer
         /\ \A i \in DOMAIN moving : moving[i] \in Timer
         /\ \A i \in DOMAIN firing : firing[i] \in Timer
  BY DEF TypeOK

-----------------------------------------------------------------------------
(* The invariant is inductive.                                             *)

LEMMA InitInv ==
  ASSUME Init
  PROVE  IInv
  <1>1. TypeOK
    <2>1. 0 \in 0..(Width - 1) /\ 0 \in 0..MaxDelay /\ 0 \in 0..MaxDiff
      BY Units, BoundAssumption
    <2>2. <<>> \in Seq(Timer)
      OBVIOUS
    <2> QED BY <2>1, <2>2 DEF Init, TypeOK
  <1>2. DOMAIN <<>> = {}
    OBVIOUS
  <1>3. Placed /\ Moving /\ Firing /\ Kept /\ Busy /\ Ordered /\ InOrder
    BY <1>2 DEF Init, Placed, Moving, Firing, Kept, Busy, Ordered, Sorted,
                InOrder
  <1> QED BY <1>1, <1>3 DEF IInv

LEMMA SkynetTimeoutInv ==
  ASSUME IInv, NEW t \in Timer, NEW d \in 1..MaxDelay, SkynetTimeout(t, d)
  PROVE  IInv'
  <1> DEFINE x == ExpireAt(d)
             s == SlotOf(x, time)
  <1>1. /\ x \in Time /\ time \in Time /\ x = (time + d) % Width /\ s \in Slot
        /\ d \in 0..MaxDelay /\ d > 0
    <2>1. time \in Time /\ d \in 0..MaxDelay /\ d > 0
      BY BoundAssumption DEF IInv, TypeOK, Time
    <2>2. x \in Time
      BY <2>1, Later DEF ExpireAt
    <2> QED BY <2>1, <2>2, SlotOfType DEF ExpireAt
  <1>2. /\ t \notin asked /\ asked \subseteq Timer
        /\ pc # "move" /\ moving = <<>>
        /\ asked' = asked \cup {t} /\ older' = older \cup (asked \X {t})
        /\ older \subseteq asked \X asked
        /\ expire' = [expire EXCEPT ![t] = x]
        /\ ticks' = [ticks EXCEPT ![t] = d]
        /\ lists' = [lists EXCEPT ![s] = Append(@, t)]
        /\ UNCHANGED <<time, pc, todo, moving, firing>>
    BY DEF SkynetTimeout, Link, IInv, TypeOK, Moving
  <1> HIDE DEF x, s
  <1>3. /\ expire'[t] = x /\ ticks'[t] = d
        /\ \A u \in Timer : u # t => expire'[u] = expire[u]
                                   /\ ticks'[u] = ticks[u]
    BY <1>2 DEF IInv, TypeOK
  <1>4. /\ lists[s] \in Seq(Timer) /\ lists'[s] = Append(lists[s], t)
        /\ \A r \in Slot : r # s => lists'[r] = lists[r]
    BY <1>1, <1>2 DEF IInv, TypeOK
  <1> DEFINE L == Len(lists[s]) + 1
  <1>5. /\ lists'[s] \in Seq(Timer) /\ L \in Nat
        /\ DOMAIN lists'[s] = 1..L /\ DOMAIN lists[s] = 1..(L - 1)
        /\ \A i \in DOMAIN lists[s] : lists'[s][i] = lists[s][i]
        /\ lists'[s][L] = t
        /\ ToSet(lists'[s]) = ToSet(lists[s]) \cup {t}
    BY <1>4, AppendFacts
  <1> HIDE DEF L
  <1>6. \A r \in Slot : \A i \in DOMAIN lists'[r] :
          \/ i \in DOMAIN lists[r] /\ lists'[r][i] = lists[r][i]
          \/ r = s /\ i = L /\ lists'[r][i] = t
    BY <1>4, <1>5
  <1>7. \A r \in Slot : \A i \in DOMAIN lists[r] :
          lists[r][i] \in asked /\ lists[r][i] # t /\ lists[r][i] \in Timer
    BY <1>2 DEF IInv, Placed, Waiting
  <1>8. TypeOK'
    <2>1. lists' \in [Slot -> Seq(Timer)]
      BY <1>1, <1>2, <1>5 DEF IInv, TypeOK
    <2>2. expire' \in [Timer -> 0..(Width - 1)]
      BY <1>1, <1>2 DEF IInv, TypeOK, Time
    <2>3. ticks' \in [Timer -> 0..MaxDelay]
      BY <1>1, <1>2 DEF IInv, TypeOK
    <2>4. asked' \subseteq Timer /\ older' \subseteq asked' \X asked'
      BY <1>2
    <2> QED BY <1>2, <2>1, <2>2, <2>3, <2>4 DEF IInv, TypeOK
  <1>9. Placed'
    <2> SUFFICES ASSUME NEW r \in Slot, NEW i \in DOMAIN lists'[r]
                 PROVE  /\ Waiting(lists[r][i])'
                        /\ SlotOf(expire'[lists'[r][i]], time') = r
      BY DEF Placed, SlotOf, LevelOf, Agree, Digit, NearSlot
    <2>1. CASE i \in DOMAIN lists[r] /\ lists'[r][i] = lists[r][i]
      <3> DEFINE u == lists[r][i]
      <3>1. /\ expire'[u] = expire[u] /\ ticks'[u] = ticks[u] /\ u \in asked'
            /\ u = lists'[r][i] /\ time' = time /\ pc' = pc
        BY <1>2, <1>3, <1>7, <2>1
      <3>2. Waiting(u) /\ SlotOf(expire[u], time) = r
        BY <2>1 DEF IInv, Placed
      <3> HIDE DEF u
      <3> QED BY <3>1, <3>2 DEF Waiting
    <2>2. CASE r = s /\ i = L /\ lists'[r][i] = t
      <3>1. SlotOf(expire'[t], time') = s
        BY <1>2, <1>3 DEF s
      <3>2. /\ expire'[t] = (time' + ticks'[t]) % Width
            /\ ticks'[t] > 0 /\ t \in asked'
        BY <1>1, <1>2, <1>3
      <3> QED BY <2>2, <3>1, <3>2 DEF Waiting
    <2> QED BY <1>6, <2>1, <2>2
  <1>10. Moving' /\ Busy'
    BY <1>2 DEF Moving, Busy, IInv
  <1>11. Firing'
    BY <1>2, <1>3 DEF IInv, TypeOK, Firing
  <1>12. Kept'
    <2> SUFFICES ASSUME NEW u \in asked'
                 PROVE  \/ u \in ToSet(firing') \/ u \in ToSet(moving')
                        \/ u \in ToSet(lists'[SlotOf(expire'[u], time')])
      BY DEF Kept, SlotOf, LevelOf, Agree, Digit, NearSlot
    <2>1. CASE u = t
      BY <1>2, <1>3, <1>5, <2>1 DEF s
    <2>2. CASE u # t
      <3>1. u \in asked /\ expire'[u] = expire[u] /\ expire[u] \in Time
        BY <1>2, <1>3, <2>2 DEF IInv, TypeOK, Time
      <3>2. SlotOf(expire[u], time) \in Slot
        BY <1>1, <3>1, SlotOfType
      <3> QED BY <1>2, <1>4, <1>5, <3>1, <3>2 DEF IInv, Kept
    <2> QED BY <2>1, <2>2
  <1>13. Ordered'
    <2>1. \A u \in Timer : <<u, u>> \notin older'
      BY <1>2 DEF IInv, Ordered
    <2>2. \A r \in Slot : Sorted(lists[r])'
      <3> SUFFICES ASSUME NEW r \in Slot, NEW i \in DOMAIN lists'[r],
                          NEW j \in DOMAIN lists'[r], i < j,
                          expire'[lists'[r][i]] = expire'[lists'[r][j]]
                   PROVE  <<lists'[r][i], lists'[r][j]>> \in older'
        BY DEF Sorted
      <3>1. i \in DOMAIN lists[r] /\ lists'[r][i] = lists[r][i]
        BY <1>5, <1>6
      <3>2. CASE j \in DOMAIN lists[r] /\ lists'[r][j] = lists[r][j]
        BY <1>2, <1>3, <1>7, <3>1, <3>2 DEF IInv, Ordered, Sorted
      <3>3. CASE lists'[r][j] = t
        BY <1>2, <1>7, <3>1, <3>3
      <3> QED BY <1>6, <3>2, <3>3
    <2> QED BY <1>2, <2>1, <2>2 DEF Ordered, Sorted
  <1>14. InOrder'
    BY <1>2 DEF IInv, InOrder
  <1> QED
    BY <1>8, <1>9, <1>10, <1>11, <1>12, <1>13, <1>14 DEF IInv

(* Steps that only count the updates.                                      *)
LEMMA CountInv ==
  ASSUME IInv, pc' = "move" <=> pc = "move",
         UNCHANGED <<time, lists, expire, moving, firing, asked, older, ticks>>
  PROVE  Placed' /\ Moving' /\ Firing' /\ Kept' /\ Ordered' /\ InOrder'
  <1>1. Placed'
    <2> SUFFICES ASSUME NEW s \in Slot, NEW i \in DOMAIN lists'[s]
                 PROVE  /\ Waiting(lists[s][i])'
                        /\ SlotOf(expire'[lists'[s][i]], time') = s
      BY DEF Placed, SlotOf, LevelOf, Agree, Digit, NearSlot
    <2>1. Waiting(lists[s][i]) /\ SlotOf(expire[lists[s][i]], time) = s
      BY DEF IInv, Placed
    <2> QED BY <2>1 DEF Waiting
  <1>2. Kept'
    <2> SUFFICES ASSUME NEW u \in asked
                 PROVE  \/ u \in ToSet(firing) \/ u \in ToSet(moving)
                        \/ u \in ToSet(lists[SlotOf(expire'[u], time')])
      BY DEF Kept, SlotOf, LevelOf, Agree, Digit, NearSlot
    <2> QED BY DEF IInv, Kept
  <1>3. Moving' /\ Firing' /\ Ordered' /\ InOrder'
    BY DEF IInv, Moving, Firing, Ordered, Sorted, InOrder, Waiting
  <1> QED BY <1>1, <1>2, <1>3

LEMMA UpdateTimeInv ==
  ASSUME IInv, NEW diff \in 1..MaxDiff, UpdateTime(diff)
  PROVE  IInv'
  <1>1. Placed' /\ Moving' /\ Firing' /\ Kept' /\ Ordered' /\ InOrder'
    BY CountInv DEF UpdateTime
  <1>2. diff \in 0..MaxDiff /\ diff > 0
    BY BoundAssumption
  <1>3. TypeOK' /\ Busy'
    BY <1>2 DEF IInv, TypeOK, Busy, UpdateTime
  <1> QED BY <1>1, <1>3 DEF IInv

LEMMA EndUpdateInv ==
  ASSUME IInv, EndUpdate
  PROVE  IInv'
  <1>1. /\ pc = "second" /\ ~Due /\ todo' = todo - 1
        /\ pc' = IF todo = 1 THEN "sleep" ELSE "first"
        /\ UNCHANGED <<time, lists, expire, moving, firing, asked, older,
                       ticks>>
    BY NotDue DEF EndUpdate, IInv
  <1>2. Placed' /\ Moving' /\ Firing' /\ Kept' /\ Ordered' /\ InOrder'
    BY <1>1, CountInv
  <1>3. TypeOK' /\ Busy'
    BY <1>1, BoundAssumption DEF IInv, TypeOK, Busy
  <1> QED BY <1>2, <1>3 DEF IInv

(* A tick: what is in the list dealt out is unlinked, what is in the       *)
(* others is where it should be for the new time.                          *)
LEMMA TimerShiftInv ==
  ASSUME IInv, TimerShift
  PROVE  IInv'
  <1> DEFINE ct == (time + 1) % Width
             D == Dealt(ct)
  <1>1. /\ pc = "first" /\ firing = <<>> /\ moving = <<>> /\ ~Due
        /\ time' = ct /\ pc' = "move"
        /\ ticks' = [t \in Timer |-> IF ticks[t] = 0 THEN 0 ELSE ticks[t] - 1]
        /\ IF Deals(ct)
           THEN moving' = lists[D] /\ lists' = [lists EXCEPT ![D] = <<>>]
           ELSE UNCHANGED <<moving, lists>>
        /\ UNCHANGED <<expire, todo, firing, asked, older>>
    BY NotDue DEF TimerShift, IInv, Moving
  <1>2. /\ time \in Time /\ ct \in Time /\ (Deals(ct) => D \in Slot)
        /\ asked \subseteq Timer /\ expire \in [Timer -> Time]
        /\ ticks \in [Timer -> 0..MaxDelay] /\ lists \in [Slot -> Seq(Timer)]
    <2>1. time \in Time /\ 1 \in 0..MaxDelay
      BY BoundAssumption DEF IInv, TypeOK, Time
    <2> QED BY <2>1, Later, DealtType DEF IInv, TypeOK, Time
  (* The timers that are waiting come one tick closer. *)
  <1>3. ASSUME NEW t \in Timer, Waiting(t)
        PROVE  /\ Waiting(t)'
               /\ \/ Deals(ct) /\ SlotOf(expire[t], time) = D
                  \/ SlotOf(expire[t], time) = SlotOf(expire'[t], time')
    <2>1. /\ ticks[t] \in 1..MaxDelay /\ ticks'[t] = ticks[t] - 1
          /\ expire[t] = (time + ticks[t]) % Width
      BY <1>1, <1>2, <1>3, BoundAssumption DEF Waiting
    <2>2. expire[t] = (ct + (ticks[t] - 1)) % Width
      BY <1>2, <2>1, Closer
    <2>3. Waiting(t)'
      BY <1>1, <1>3, <2>1, <2>2 DEF Waiting
    <2>4. \/ Deals(ct) /\ SlotOf(expire[t], time) = D
          \/ SlotOf(expire[t], time) = SlotOf(expire[t], ct)
      BY <1>2, <2>1, Shift
    <2> HIDE DEF ct, D
    <2> QED BY <1>1, <2>3, <2>4
  <1> HIDE DEF ct, D
  <1>4. /\ \A r \in Slot : ~(Deals(ct) /\ r = D) => lists'[r] = lists[r]
        /\ Deals(ct) => lists'[D] = <<>> /\ moving' = lists[D]
        /\ ~Deals(ct) => moving' = <<>>
    BY <1>1, <1>2
  <1>5. DOMAIN <<>> = {}
    OBVIOUS
  <1>6. \A r \in Slot : \A i \in DOMAIN lists[r] :
          /\ lists[r][i] \in Timer /\ Waiting(lists[r][i])
          /\ SlotOf(expire[lists[r][i]], time) = r
    BY <1>2 DEF IInv, Placed, Waiting
  <1>7. TypeOK'
    <2>1. lists' \in [Slot -> Seq(Timer)] /\ moving' \in Seq(Timer)
      <3>1. <<>> \in Seq(Timer)
        OBVIOUS
      <3> QED BY <1>1, <1>2, <3>1
    <2>2. ticks' \in [Timer -> 0..MaxDelay]
      BY <1>1, <1>2, BoundAssumption
    <2> QED BY <1>1, <1>2, <2>1, <2>2 DEF IInv, TypeOK, Time
  <1>8. Placed'
    <2> SUFFICES ASSUME NEW r \in Slot, NEW i \in DOMAIN lists'[r]
                 PROVE  /\ Waiting(lists[r][i])'
                        /\ SlotOf(expire'[lists'[r][i]], time') = r
      BY DEF Placed, SlotOf, LevelOf, Agree, Digit, NearSlot
    <2>1. ~(Deals(ct) /\ r = D) /\ lists'[r] = lists[r]
      BY <1>4, <1>5
    <2>2. PICK u \in Timer : /\ u = lists'[r][i] /\ Waiting(u)
                             /\ SlotOf(expire[u], time) = r
      BY <1>6, <2>1
    <2>3. Waiting(u)' /\ SlotOf(expire'[u], time') = r
      BY <1>3, <2>1, <2>2
    <2> QED BY <2>2, <2>3 DEF Waiting
  <1>9. Moving'
    <2> SUFFICES ASSUME NEW j \in DOMAIN moving' PROVE Waiting(moving[j])'
      BY <1>1 DEF Moving
    <2>1. Deals(ct) /\ moving' = lists[D] /\ D \in Slot
      BY <1>2, <1>4, <1>5
    <2>2. PICK u \in Timer : u = moving'[j] /\ Waiting(u)
      BY <1>6, <2>1
    <2>3. Waiting(u)'
      BY <1>3, <2>2
    <2> QED BY <2>2, <2>3 DEF Waiting
  <1>10. Firing' /\ Busy'
    BY <1>1, <1>5 DEF Firing, Busy, IInv
  <1>11. Kept'
    <2> SUFFICES ASSUME NEW u \in asked
                 PROVE  \/ u \in ToSet(moving')
                        \/ u \in ToSet(lists'[SlotOf(expire'[u], time')])
      BY <1>1 DEF Kept, SlotOf, LevelOf, Agree, Digit, NearSlot
    <2> DEFINE r == SlotOf(expire[u], time)
    <2>1. u \in Timer /\ r \in Slot
      BY <1>2, SlotOfType
    <2>2. u \in ToSet(lists[r])
      BY <1>1, <1>5 DEF IInv, Kept, ToSet
    <2>3. Waiting(u)
      <3> HIDE DEF r
      <3> QED BY <1>6, <2>1, <2>2 DEF ToSet
    <2>4. CASE Deals(ct) /\ r = D
      BY <1>4, <2>2, <2>4
    <2>5. CASE ~(Deals(ct) /\ r = D)
      <3>1. SlotOf(expire'[u], time') = r /\ lists'[r] = lists[r]
        BY <1>3, <1>4, <2>1, <2>3, <2>5
      <3> QED BY <2>2, <3>1
    <2> QED BY <2>4, <2>5
  <1>12. Ordered'
    <2>1. \A u \in Timer : <<u, u>> \notin older'
      BY <1>1 DEF IInv, Ordered
    <2>2. \A r \in Slot : Sorted(lists[r]) /\ Sorted(lists[r])'
      <3>1. ASSUME NEW r \in Slot PROVE Sorted(lists[r])
        BY DEF IInv, Ordered
      <3>2. ASSUME NEW r \in Slot PROVE Sorted(lists[r])'
        <4>1. lists'[r] = lists[r] \/ lists'[r] = <<>>
          BY <1>4
        <4> QED BY <1>1, <1>5, <3>1, <4>1 DEF Sorted
      <3> QED BY <3>1, <3>2
    <2>3. Sorted(moving)'
      <3>1. moving' = <<>> \/ \E r \in Slot : moving' = lists[r]
        BY <1>2, <1>4
      <3> QED BY <1>1, <1>5, <2>2, <3>1 DEF Sorted
    <2>4. ASSUME NEW r \in Slot, NEW i \in DOMAIN lists'[r],
                 NEW j \in DOMAIN moving',
                 expire'[lists'[r][i]] = expire'[moving'[j]]
          PROVE  FALSE
      <3>1. /\ Deals(ct) /\ moving' = lists[D] /\ D \in Slot
            /\ r # D /\ lists'[r] = lists[r]
        BY <1>2, <1>4, <1>5
      <3>2. /\ SlotOf(expire[lists[r][i]], time) = r
            /\ SlotOf(expire[lists[D][j]], time) = D
        BY <1>6, <3>1
      <3>3. expire[lists[r][i]] = expire[lists[D][j]]
        BY <1>1, <2>4, <3>1
      <3> QED BY <3>1, <3>2, <3>3
    <2> QED BY <2>1, <2>2, <2>3, <2>4 DEF Ordered
  <1>13. InOrder'
    BY <1>1, <1>5 DEF InOrder
  <1> QED
    BY <1>7, <1>8, <1>9, <1>10, <1>11, <1>12, <1>13 DEF IInv

LEMMA MoveNodeInv ==
  ASSUME IInv, MoveNode
  PROVE  IInv'
  <1> DEFINE h == Head(moving)
             s == SlotOf(expire[h], time)
  <1>1. /\ pc = "move" /\ moving # <<>> /\ firing = <<>>
        /\ lists' = [lists EXCEPT ![s] = Append(@, h)]
        /\ moving' = Tail(moving)
        /\ UNCHANGED <<time, expire, pc, todo, firing, asked, older, ticks>>
    BY DEF MoveNode, Link, IInv, Firing
  <1>2. /\ moving \in Seq(Timer) /\ moving' \in Seq(Timer) /\ h \in Timer
        /\ 1 \in DOMAIN moving /\ h = moving[1]
        /\ \A i \in DOMAIN moving' :
             /\ i \in Nat \ {0} /\ i + 1 \in DOMAIN moving
             /\ moving'[i] = moving[i + 1]
        /\ ToSet(moving) = {h} \cup ToSet(moving')
    BY <1>1, TailFacts DEF IInv, TypeOK
  <1>3. Waiting(h) /\ s \in Slot /\ lists[s] \in Seq(Timer)
    <2>1. time \in Time /\ expire[h] \in Time
      BY <1>2 DEF IInv, TypeOK, Time
    <2> QED BY <1>2, <2>1, SlotOfType DEF IInv, TypeOK, Moving
  <1> HIDE DEF h, s
  <1>4. /\ lists'[s] = Append(lists[s], h)
        /\ \A r \in Slot : r # s => lists'[r] = lists[r]
    BY <1>1, <1>3 DEF IInv, TypeOK
  <1> DEFINE L == Len(lists[s]) + 1
  <1>5. /\ lists'[s] \in Seq(Timer) /\ L \in Nat
        /\ DOMAIN lists'[s] = 1..L /\ DOMAIN lists[s] = 1..(L - 1)
        /\ \A i \in DOMAIN lists[s] : lists'[s][i] = lists[s][i]
        /\ lists'[s][L] = h
        /\ ToSet(lists'[s]) = ToSet(lists[s]) \cup {h}
    BY <1>2, <1>3, <1>4, AppendFacts
  <1> HIDE DEF L
  <1>6. \A r \in Slot : \A i \in DOMAIN lists'[r] :
          \/ i \in DOMAIN lists[r] /\ lists'[r][i] = lists[r][i]
          \/ r = s /\ i = L /\ lists'[r][i] = h
    BY <1>4, <1>5
  <1>7. TypeOK'
    <2>1. lists' \in [Slot -> Seq(Timer)]
      BY <1>1, <1>3, <1>4, <1>5 DEF IInv, TypeOK
    <2> QED BY <1>1, <1>2, <2>1 DEF IInv, TypeOK
  <1>8. Placed'
    <2> SUFFICES ASSUME NEW r \in Slot, NEW i \in DOMAIN lists'[r]
                 PROVE  /\ Waiting(lists[r][i])'
                        /\ SlotOf(expire'[lists'[r][i]], time') = r
      BY DEF Placed, SlotOf, LevelOf, Agree, Digit, NearSlot
    <2>1. Waiting(lists'[r][i]) /\ SlotOf(expire[lists'[r][i]], time) = r
      <3>1. CASE i \in DOMAIN lists[r] /\ lists'[r][i] = lists[r][i]
        BY <3>1 DEF IInv, Placed
      <3>2. CASE r = s /\ lists'[r][i] = h
        BY <1>3, <3>2 DEF s
      <3> QED BY <1>6, <3>1, <3>2
    <2> QED BY <1>1, <2>1 DEF Waiting
  <1>9. Moving'
    BY <1>1, <1>2 DEF IInv, Moving, Waiting
  <1>10. Firing' /\ Busy' /\ InOrder'
    BY <1>1 DEF IInv, Firing, Busy, InOrder
  <1>11. Kept'
    <2> SUFFICES ASSUME NEW u \in asked
                 PROVE  \/ u \in ToSet(firing)
                        \/ u \in ToSet(moving')
                        \/ u \in ToSet(lists'[SlotOf(expire[u], time)])
      BY <1>1 DEF Kept, SlotOf, LevelOf, Agree, Digit, NearSlot
    <2>1. CASE u = h
      BY <1>5, <2>1 DEF s
    <2>2. CASE u # h
      <3>1. SlotOf(expire[u], time) \in Slot
        BY SlotOfType DEF IInv, TypeOK, Time
      <3> QED BY <1>2, <1>4, <1>5, <2>2, <3>1 DEF IInv, Kept
    <2> QED BY <2>1, <2>2
  <1>12. Ordered'
    <2>1. \A u \in Timer : <<u, u>> \notin older'
      BY <1>1 DEF IInv, Ordered
    <2>2. Sorted(moving)'
      BY <1>1, <1>2 DEF IInv, Ordered, Sorted
    <2>3. \A r \in Slot : Sorted(lists[r])'
      <3> SUFFICES ASSUME NEW r \in Slot, NEW i \in DOMAIN lists'[r],
                          NEW j \in DOMAIN lists'[r], i < j,
                          expire[lists'[r][i]] = expire[lists'[r][j]]
                   PROVE  <<lists'[r][i], lists'[r][j]>> \in older
        BY <1>1 DEF Sorted
      <3>1. i \in DOMAIN lists[r] /\ lists'[r][i] = lists[r][i]
        BY <1>5, <1>6
      <3>2. CASE j \in DOMAIN lists[r] /\ lists'[r][j] = lists[r][j]
        BY <3>1, <3>2 DEF IInv, Ordered, Sorted
      <3>3. CASE lists'[r][j] = h
        BY <1>2, <3>1, <3>3 DEF IInv, Ordered
      <3> QED BY <1>6, <3>2, <3>3
    <2>4. ASSUME NEW r \in Slot, NEW i \in DOMAIN lists'[r],
                 NEW j \in DOMAIN moving',
                 expire[lists'[r][i]] = expire[moving'[j]]
          PROVE  <<lists'[r][i], moving'[j]>> \in older
      <3>1. j + 1 \in DOMAIN moving /\ moving'[j] = moving[j + 1] /\ 1 < j + 1
        BY <1>2
      <3>2. CASE i \in DOMAIN lists[r] /\ lists'[r][i] = lists[r][i]
        BY <2>4, <3>1, <3>2 DEF IInv, Ordered
      <3>3. CASE lists'[r][i] = h
        BY <1>2, <2>4, <3>1, <3>3 DEF IInv, Ordered, Sorted
      <3> QED BY <1>6, <3>2, <3>3
    <2> QED BY <1>1, <2>1, <2>2, <2>3, <2>4 DEF Ordered
  <1> QED
    BY <1>7, <1>8, <1>9, <1>10, <1>11, <1>12 DEF IInv

(* What is taken for dispatch is what is due.                              *)
LEMMA SecondExecuteInv ==
  ASSUME IInv, SecondExecute
  PROVE  IInv'
  <1> DEFINE s == NearSlot(time)
  <1>1. /\ pc = "move" /\ moving = <<>> /\ firing = <<>> /\ pc' = "second"
        /\ firing' = lists[s] /\ lists' = [lists EXCEPT ![s] = <<>>]
        /\ UNCHANGED <<time, expire, todo, moving, asked, older, ticks>>
    BY DEF SecondExecute, Execute, IInv, Firing
  <1>2. /\ s \in Slot /\ lists \in [Slot -> Seq(Timer)]
        /\ asked \subseteq Timer /\ time \in Time
    BY NearSlotType DEF IInv, TypeOK, Time
  <1>3. \A r \in Slot : \A i \in DOMAIN lists[r] :
          /\ lists[r][i] \in asked /\ lists[r][i] \in Timer
          /\ Waiting(lists[r][i]) /\ SlotOf(expire[lists[r][i]], time) = r
          /\ ticks[lists[r][i]] = 0 <=> r = s
          /\ ticks[lists[r][i]] = 0 => expire[lists[r][i]] = time
    <2> SUFFICES ASSUME NEW r \in Slot, NEW i \in DOMAIN lists[r]
                 PROVE  /\ lists[r][i] \in asked /\ lists[r][i] \in Timer
                        /\ Waiting(lists[r][i])
                        /\ SlotOf(expire[lists[r][i]], time) = r
                        /\ ticks[lists[r][i]] = 0 <=> r = s
                        /\ ticks[lists[r][i]] = 0 =>
                             expire[lists[r][i]] = time
      OBVIOUS
    <2>1. PICK u \in Timer : u = lists[r][i]
      BY <1>2
    <2>2. Waiting(u) /\ SlotOf(expire[u], time) = r
      BY <2>1 DEF IInv, Placed
    <2>3. /\ r = s <=> ticks[u] = 0
          /\ ticks[u] = 0 => expire[u] = time
      BY <2>2, Ahead DEF IInv
    <2> QED BY <2>1, <2>2, <2>3 DEF Waiting
  <1> HIDE DEF s
  <1>4. /\ lists'[s] = <<>> /\ \A r \in Slot : r # s => lists'[r] = lists[r]
        /\ DOMAIN <<>> = {}
    BY <1>1, <1>2
  <1>5. TypeOK'
    <2>1. <<>> \in Seq(Timer)
      OBVIOUS
    <2>2. lists' \in [Slot -> Seq(Timer)] /\ firing' \in Seq(Timer)
      BY <1>1, <1>2, <2>1
    <2> QED BY <1>1, <2>2 DEF IInv, TypeOK
  <1>6. Placed'
    <2> SUFFICES ASSUME NEW r \in Slot, NEW i \in DOMAIN lists'[r]
                 PROVE  /\ Waiting(lists[r][i])'
                        /\ SlotOf(expire'[lists'[r][i]], time') = r
      BY DEF Placed, SlotOf, LevelOf, Agree, Digit, NearSlot
    <2>1. r # s /\ lists'[r] = lists[r]
      BY <1>4
    <2>2. ticks[lists[r][i]] # 0 /\ ticks[lists[r][i]] \in Nat
      BY <1>3, <2>1, BoundAssumption DEF IInv, TypeOK
    <2> QED BY <1>1, <1>3, <2>1, <2>2 DEF Waiting
  <1>7. Moving' /\ Busy'
    BY <1>1, <1>4 DEF IInv, Moving, Busy
  <1>8. Firing'
    BY <1>1, <1>2, <1>3 DEF Firing
  <1>9. Kept'
    <2> SUFFICES ASSUME NEW u \in asked
                 PROVE  \/ u \in ToSet(firing')
                        \/ u \in ToSet(lists'[SlotOf(expire[u], time)])
      BY <1>1 DEF Kept, SlotOf, LevelOf, Agree, Digit, NearSlot
    <2>1. SlotOf(expire[u], time) \in Slot
      BY <1>2, SlotOfType DEF IInv, TypeOK, Time
    <2>2. u \in ToSet(lists[SlotOf(expire[u], time)])
      BY <1>1, <1>4 DEF IInv, Kept, ToSet
    <2> QED BY <1>1, <1>4, <2>1, <2>2
  <1>10. Ordered'
    BY <1>1, <1>2, <1>4 DEF IInv, Ordered, Sorted
  <1>11. InOrder'
    <2> SUFFICES ASSUME NEW i \in DOMAIN lists[s], NEW j \in DOMAIN lists[s],
                        i < j
                 PROVE  <<lists[s][i], lists[s][j]>> \in older
      BY <1>1 DEF InOrder
    <2>1. expire[lists[s][i]] = time /\ expire[lists[s][j]] = time
      BY <1>2, <1>3
    <2> QED BY <1>2, <2>1 DEF IInv, Ordered, Sorted
  <1> QED
    BY <1>5, <1>6, <1>7, <1>8, <1>9, <1>10, <1>11 DEF IInv

LEMMA DispatchInv ==
  ASSUME IInv, Dispatch
  PROVE  IInv'
  <1>1. PICK t \in Timer : t = Head(firing)
    BY TailFacts DEF IInv, TypeOK, Dispatch
  <1>2. /\ firing # <<>> /\ pc # "move" /\ firing' = Tail(firing)
        /\ asked' = asked \ {t}
        /\ older' = {p \in older : p[1] # t /\ p[2] # t}
        /\ UNCHANGED <<time, lists, expire, pc, todo, moving, ticks>>
    BY <1>1 DEF Dispatch, IInv, Firing
  <1>3. /\ firing' \in Seq(Timer) /\ 1 \in DOMAIN firing /\ t = firing[1]
        /\ \A i \in DOMAIN firing' :
             /\ i \in Nat \ {0} /\ i + 1 \in DOMAIN firing
             /\ firing'[i] = firing[i + 1]
        /\ ToSet(firing) = {t} \cup ToSet(firing')
    BY <1>1, <1>2, TailFacts DEF IInv, TypeOK
  (* No other node is that of the timer dispatched. *)
  <1>4. ticks[t] = 0 /\ moving = <<>> /\ DOMAIN <<>> = {}
    BY <1>2, <1>3 DEF IInv, Firing, Moving
  <1>5. \A s \in Slot : \A i \in DOMAIN lists[s] :
          lists[s][i] # t /\ lists[s][i] \in Timer
    BY <1>2, <1>4 DEF IInv, TypeOK, Placed, Waiting
  <1>6. \A i \in DOMAIN firing' : firing'[i] # t
    <2> SUFFICES ASSUME NEW i \in DOMAIN firing' PROVE firing'[i] # t
      OBVIOUS
    <2>1. <<t, firing'[i]>> \in older
      BY <1>3 DEF IInv, InOrder
    <2> QED BY <1>1, <2>1 DEF IInv, Ordered
  <1>7. TypeOK'
    BY <1>2, <1>3 DEF IInv, TypeOK
  <1>8. Placed'
    <2> SUFFICES ASSUME NEW s \in Slot, NEW i \in DOMAIN lists'[s]
                 PROVE  /\ Waiting(lists[s][i])'
                        /\ SlotOf(expire'[lists'[s][i]], time') = s
      BY DEF Placed, SlotOf, LevelOf, Agree, Digit, NearSlot
    <2>1. Waiting(lists[s][i]) /\ SlotOf(expire[lists[s][i]], time) = s
      BY <1>2 DEF IInv, Placed
    <2> QED BY <1>2, <1>5, <2>1 DEF Waiting
  <1>9. Moving' /\ Busy'
    BY <1>2, <1>4 DEF IInv, Moving, Busy
  <1>10. Firing'
    BY <1>2, <1>3, <1>6 DEF IInv, Firing
  <1>11. Kept'
    BY <1>2, <1>3 DEF IInv, Kept, SlotOf, LevelOf, Agree, Digit, NearSlot
  <1>12. Ordered'
    BY <1>2, <1>4, <1>5 DEF IInv, Ordered, Sorted
  <1>13. InOrder'
    <2> SUFFICES ASSUME NEW i \in DOMAIN firing', NEW j \in DOMAIN firing',
                        i < j
                 PROVE  <<firing'[i], firing'[j]>> \in older'
      BY DEF InOrder
    <2>1. <<firing'[i], firing'[j]>> \in older
      BY <1>3 DEF IInv, InOrder
    <2> QED BY <1>2, <1>6, <2>1
  <1> QED
    BY <1>7, <1>8, <1>9, <1>10, <1>11, <1>12, <1>13 DEF IInv

LEMMA NextInv ==
  ASSUME IInv, [Next]_vars
  PROVE  IInv'
  <1>1. ASSUME NEW t \in Timer, NEW d \in 1..MaxDelay, SkynetTimeout(t, d)
        PROVE  IInv'
    BY <1>1, SkynetTimeoutInv
  <1>2. ASSUME NEW diff \in 1..MaxDiff, UpdateTime(diff)
        PROVE  IInv'
    BY <1>2, UpdateTimeInv
  <1>3. CASE TimerShift
    BY <1>3, TimerShiftInv
  <1>4. CASE MoveNode
    BY <1>4, MoveNodeInv
  <1>5. CASE SecondExecute
    BY <1>5, SecondExecuteInv
  <1>6. CASE EndUpdate
    BY <1>6, EndUpdateInv
  <1>7. CASE Dispatch
    BY <1>7, DispatchInv
  <1>8. CASE UNCHANGED vars
    <2>1. Placed' /\ Moving' /\ Firing' /\ Kept' /\ Ordered' /\ InOrder'
      BY <1>8, CountInv DEF vars
    <2> QED BY <1>8, <2>1 DEF vars, IInv, TypeOK, Busy
  <1> QED BY <1>1, <1>2, <1>3, <1>4, <1>5, <1>6, <1>7, <1>8 DEF Next

-----------------------------------------------------------------------------
(* The theorems.                                                           *)

THEOREM Invariance == Spec => []IInv
  <1>1. Init => IInv
    BY InitInv
  <1>2. IInv /\ [Next]_vars => IInv'
    BY NextInv
  <1> QED BY <1>1, <1>2, PTL DEF Spec

(* Every variable keeps its type; in particular, no update is counted down *)
(* below zero, and every sum of times stays within the width of time.      *)
THEOREM TypeCorrect == Spec => []TypeOK
  <1>1. IInv => TypeOK
    BY DEF IInv
  <1> QED BY <1>1, Invariance, PTL

(* Whatever its delay, and wherever time wraps, a timer is dispatched in   *)
(* the update of the tick that it was set for, neither before nor after.   *)
THEOREM FiresOnTime == Spec => []OnTime
  <1>1. IInv => OnTime
    <2> SUFFICES ASSUME IInv, pc # "move", NEW t \in asked
                 PROVE  ticks[t] = 0 <=> t \in ToSet(firing)
      BY DEF OnTime
    <2>1. t \in ToSet(firing) => ticks[t] = 0
      BY DEF IInv, Firing, ToSet
    <2>2. ASSUME t \notin ToSet(firing) PROVE ticks[t] # 0
      <3> DEFINE s == SlotOf(expire[t], time)
      <3>1. s \in Slot
        BY SlotOfType DEF IInv, TypeOK, Time
      <3>2. t \in ToSet(lists[s])
        BY <2>2 DEF IInv, Kept, Moving, ToSet
      <3> HIDE DEF s
      <3>3. Waiting(t)
        BY <3>1, <3>2 DEF IInv, Placed, ToSet
      <3> QED BY <3>3 DEF Waiting
    <2> QED BY <2>1, <2>2
  <1> QED BY <1>1, Invariance, PTL

(* Timers due in one tick are dispatched in the order they were set.       *)
THEOREM FiresInOrder == Spec => []InOrder
  <1>1. IInv => InOrder
    BY DEF IInv
  <1> QED BY <1>1, Invariance, PTL
=============================================================================
