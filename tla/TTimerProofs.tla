---------------------------- MODULE TTimerProofs ----------------------------
(***************************************************************************)
(* Proofs about TTimer, for any number of contexts and workers and any     *)
(* size of the table of at least two: a context is in one place only, it   *)
(* is in the slot its remaining time says, and the ring implements TSleep. *)
(***************************************************************************)
EXTENDS TTimerSleep, WellFoundedInduction, TLAPS

(***************************************************************************)
(* The ring of lists as a value: no context is linked twice.               *)
(***************************************************************************)
Ring == [Slot -> Seq(Ctx)]
Linked(t) ==
  \A i, j \in Slot : \A p \in DOMAIN t[i], q \in DOMAIN t[j] :
     t[i][p] = t[j][q] => i = j /\ p = q

-----------------------------------------------------------------------------
(***************************************************************************)
(* Induction over the natural numbers, as a statement about sets: a set    *)
(* that holds 0 and is closed under successor holds every number.          *)
(***************************************************************************)
LEMMA NatSetInduction ==
  ASSUME NEW S, 0 \in S, \A n \in Nat : n \in S => n + 1 \in S
  PROVE  Nat \subseteq S
<1> DEFINE T == Nat \ S
           R == OpToRel(<, Nat)
<1> SUFFICES ASSUME T # {} PROVE FALSE
  OBVIOUS
<1>1. IsWellFoundedOn(R, Nat)
  BY NatLessThanWellFounded, Zenon
<1>2. PICK x \in T : \A y \in T : ~(<<y, x>> \in R)
  <2> HIDE DEF T, R
  <2>1. T \subseteq Nat
    BY DEF T
  <2> QED
    BY <1>1, <2>1, WFMin
<1>3. x # 0 /\ x - 1 \in Nat /\ x - 1 \notin S
  OBVIOUS
<1>4. <<x - 1, x>> \in R
  BY <1>3 DEF OpToRel
<1> QED
  BY <1>2, <1>3, <1>4

(***************************************************************************)
(* Indexes wrap round at most once in a sum of two slots.                  *)
(***************************************************************************)
LEMMA SlotSum ==
  ASSUME NEW a \in Slot, NEW b \in Slot
  PROVE  (a + b) % TableSize = IF a + b < TableSize THEN a + b
                                                    ELSE a + b - TableSize
BY TableSizeAssumption DEF Slot

Pushed(t, c, i) == [t EXCEPT ![i] = <<c>> \o @]

(***************************************************************************)
(* Linking a context that is not in the ring.                              *)
(***************************************************************************)
LEMMA PushLinked ==
  ASSUME NEW t \in Ring, Linked(t), NEW c \in Ctx, NEW i \in Slot,
         \A j \in Slot : c \notin ToSet(t[j]),
         NEW u, u = Pushed(t, c, i)
  PROVE  /\ u \in Ring /\ Linked(u)
         /\ ToSet(u[i]) = ToSet(t[i]) \cup {c}
         /\ \A j \in Slot : j # i => ToSet(u[j]) = ToSet(t[j])
<1> USE DEF Pushed
<1>1. u \in Ring
  BY DEF Ring
<1>2. /\ DOMAIN u[i] = 1 .. Len(t[i]) + 1
      /\ u[i][1] = c
      /\ \A p \in 2 .. Len(t[i]) + 1 : u[i][p] = t[i][p - 1] /\ p - 1 \in DOMAIN t[i]
  BY DEF Ring
<1>3. \A j \in Slot \ {i} : u[j] = t[j]
  BY DEF Ring
<1>4. \A j \in Slot : \A p \in DOMAIN t[j] : t[j][p] # c
  BY DEF ToSet
<1>5. Linked(u)
  <2> SUFFICES ASSUME NEW j \in Slot, NEW k \in Slot, NEW p \in DOMAIN u[j],
                      NEW q \in DOMAIN u[k], u[j][p] = u[k][q]
               PROVE  j = k /\ p = q
    BY DEF Linked
  <2>0. Len(t[i]) \in Nat
    BY DEF Ring
  <2>1. CASE j = i /\ k = i
    BY <1>2, <1>4, <2>0, <2>1 DEF Linked
  <2>2. CASE j = i /\ k # i
    BY <1>2, <1>3, <1>4, <2>0, <2>2 DEF Linked
  <2>3. CASE j # i /\ k = i
    BY <1>2, <1>3, <1>4, <2>0, <2>3 DEF Linked
  <2>4. CASE j # i /\ k # i
    BY <1>3, <2>4 DEF Linked
  <2> QED
    BY <2>1, <2>2, <2>3, <2>4
<1>6. ToSet(u[i]) = ToSet(t[i]) \cup {c}
  <2>1. Len(t[i]) \in Nat /\ DOMAIN t[i] = 1 .. Len(t[i])
    BY DEF Ring
  <2>2. \A p \in DOMAIN t[i] : p + 1 \in DOMAIN u[i] /\ u[i][p + 1] = t[i][p]
    BY <1>2, <2>1
  <2>3. c \in ToSet(u[i]) /\ ToSet(t[i]) \subseteq ToSet(u[i])
    <3>1. 1 \in DOMAIN u[i]
      BY <1>2, <2>1
    <3>2. c \in ToSet(u[i])
      BY <1>2, <3>1 DEF ToSet
    <3>3. ToSet(t[i]) \subseteq ToSet(u[i])
      BY <2>2 DEF ToSet
    <3> QED
      BY <3>2, <3>3
  <2>4. ToSet(u[i]) \subseteq ToSet(t[i]) \cup {c}
    <3> SUFFICES ASSUME NEW p \in DOMAIN u[i] PROVE u[i][p] \in ToSet(t[i]) \cup {c}
      BY DEF ToSet
    <3>1. p = 1 \/ p \in 2 .. Len(t[i]) + 1
      BY <1>2, <2>1
    <3> QED
      BY <1>2, <3>1 DEF ToSet
  <2> QED
    BY <2>3, <2>4
<1>7. \A j \in Slot : j # i => ToSet(u[j]) = ToSet(t[j])
  BY <1>3
<1> QED
  BY <1>1, <1>5, <1>6, <1>7

(***************************************************************************)
(* Unlinking the head of a list.                                           *)
(***************************************************************************)
LEMMA PopLinked ==
  ASSUME NEW t \in Ring, Linked(t), NEW i \in Slot, t[i] # <<>>,
         NEW u, u = [t EXCEPT ![i] = Tail(@)]
  PROVE  /\ u \in Ring /\ Linked(u)
         /\ Head(t[i]) \in ToSet(t[i])
         /\ \A j \in Slot : j # i => Head(t[i]) \notin ToSet(t[j])
         /\ \A j \in Slot : ToSet(u[j]) = ToSet(t[j]) \ {Head(t[i])}
<1>1. u \in Ring
  BY DEF Ring
<1>2. /\ Len(t[i]) \in Nat \ {0} /\ DOMAIN t[i] = 1 .. Len(t[i])
      /\ Head(t[i]) = t[i][1]
      /\ DOMAIN u[i] = 1 .. Len(t[i]) - 1
      /\ \A p \in DOMAIN u[i] : u[i][p] = t[i][p + 1]
  BY DEF Ring
<1>3. \A j \in Slot \ {i} : u[j] = t[j]
  BY DEF Ring
<1>4. Linked(u)
  <2> SUFFICES ASSUME NEW j \in Slot, NEW k \in Slot, NEW p \in DOMAIN u[j],
                      NEW q \in DOMAIN u[k], u[j][p] = u[k][q]
               PROVE  j = k /\ p = q
    BY DEF Linked
  <2>1. CASE j = i /\ k = i
    <3>1. t[i][p + 1] = t[i][q + 1] /\ p + 1 \in DOMAIN t[i] /\ q + 1 \in DOMAIN t[i]
      BY <1>2, <2>1
    <3> QED
      BY <1>2, <2>1, <3>1 DEF Linked
  <2>2. CASE j = i /\ k # i
    BY <1>2, <1>3, <2>2 DEF Linked
  <2>3. CASE j # i /\ k = i
    BY <1>2, <1>3, <2>3 DEF Linked
  <2>4. CASE j # i /\ k # i
    BY <1>3, <2>4 DEF Linked
  <2> QED
    BY <2>1, <2>2, <2>3, <2>4
<1>5. Head(t[i]) \in ToSet(t[i])
  BY <1>2 DEF ToSet
<1>6. \A j \in Slot : \A p \in DOMAIN t[j] : t[j][p] = Head(t[i]) => j = i /\ p = 1
  BY <1>2 DEF Linked
<1>7. \A j \in Slot : j # i => Head(t[i]) \notin ToSet(t[j])
  BY <1>6 DEF ToSet
<1>8. ToSet(u[i]) = ToSet(t[i]) \ {Head(t[i])}
  <2>1. \A p \in DOMAIN t[i] : p # 1 => p - 1 \in DOMAIN u[i] /\ u[i][p - 1] = t[i][p]
    BY <1>2
  <2>2. \A p \in DOMAIN u[i] : p + 1 \in DOMAIN t[i] /\ u[i][p] # Head(t[i])
    BY <1>2, <1>6
  <2> QED
    BY <1>2, <2>1, <2>2 DEF ToSet
<1>9. ASSUME NEW j \in Slot PROVE ToSet(u[j]) = ToSet(t[j]) \ {Head(t[i])}
  BY <1>3, <1>7, <1>8
<1> QED
  BY <1>1, <1>4, <1>5, <1>7, <1>9

-----------------------------------------------------------------------------
(***************************************************************************)
(* A list that holds no context twice.                                     *)
(***************************************************************************)
Once(l) == \A p, q \in DOMAIN l : l[p] = l[q] => p = q

(***************************************************************************)
(* Appending two lists that share no context.                              *)
(***************************************************************************)
LEMMA AppendOnce ==
  ASSUME NEW a \in Seq(Ctx), NEW b \in Seq(Ctx)
  PROVE  /\ a \o b \in Seq(Ctx)
         /\ ToSet(a \o b) = ToSet(a) \cup ToSet(b)
         /\ Once(a) /\ Once(b) /\ ToSet(a) \cap ToSet(b) = {} => Once(a \o b)
<1> DEFINE l == a \o b
<1>1. /\ Len(a) \in Nat /\ Len(b) \in Nat
      /\ DOMAIN a = 1 .. Len(a) /\ DOMAIN b = 1 .. Len(b)
      /\ l \in Seq(Ctx) /\ DOMAIN l = 1 .. Len(a) + Len(b)
      /\ \A p \in DOMAIN l : l[p] = IF p <= Len(a) THEN a[p] ELSE b[p - Len(a)]
  OBVIOUS
<1>2. /\ \A p \in DOMAIN a : p \in DOMAIN l /\ l[p] = a[p]
      /\ \A p \in DOMAIN b : p + Len(a) \in DOMAIN l /\ l[p + Len(a)] = b[p]
  BY <1>1
<1>3. \A p \in DOMAIN l : \/ p \in DOMAIN a /\ l[p] = a[p]
                          \/ p - Len(a) \in DOMAIN b /\ l[p] = b[p - Len(a)]
  BY <1>1
<1> HIDE DEF l
<1>4. ToSet(a) \subseteq ToSet(l) /\ ToSet(b) \subseteq ToSet(l)
  BY <1>2 DEF ToSet
<1>5. ToSet(l) \subseteq ToSet(a) \cup ToSet(b)
  BY <1>3 DEF ToSet
<1>6. ASSUME Once(a), Once(b), ToSet(a) \cap ToSet(b) = {} PROVE Once(l)
  <2> SUFFICES ASSUME NEW p \in DOMAIN l, NEW q \in DOMAIN l, l[p] = l[q] PROVE p = q
    BY DEF Once
  <2>1. \A i \in DOMAIN a, j \in DOMAIN b : a[i] # b[j]
    BY <1>6 DEF ToSet
  <2>2. CASE p \in DOMAIN a /\ q \in DOMAIN a /\ l[p] = a[p] /\ l[q] = a[q]
    BY <1>6, <2>2 DEF Once
  <2>3. CASE /\ p - Len(a) \in DOMAIN b /\ q - Len(a) \in DOMAIN b
             /\ l[p] = b[p - Len(a)] /\ l[q] = b[q - Len(a)]
    <3>1. p - Len(a) = q - Len(a)
      BY <1>6, <2>3 DEF Once
    <3> QED
      BY <1>1, <3>1
  <2> QED
    BY <1>3, <2>1, <2>2, <2>3
<1> QED
  BY <1>1, <1>4, <1>5, <1>6 DEF l

(***************************************************************************)
(* The recursive function in the definition of FlattenSeq exists: there is *)
(* one on every prefix of the lists.                                       *)
(***************************************************************************)
LEMMA FlattenExists ==
  ASSUME NEW s
  PROVE  \A n \in Nat : \E f : f = [i \in 1 .. n |-> IF i = 1 THEN s[i]
                                                     ELSE f[i - 1] \o s[i]]
<1> DEFINE Cat(a, b) == a \o b
           IsFlat(f, n) == f = [i \in 1 .. n |-> IF i = 1 THEN s[i]
                                                 ELSE Cat(f[i - 1], s[i])]
           S == {n \in Nat : \E f : IsFlat(f, n)}
<1> HIDE DEF Cat
<1>1. 0 \in S
  <2>1. IsFlat([i \in {} |-> 0], 0)
    OBVIOUS
  <2> QED
    BY <2>1
<1>2. ASSUME NEW n \in Nat, n \in S PROVE n + 1 \in S
  <2>1. PICK f : IsFlat(f, n)
    BY <1>2
  <2> DEFINE g == [i \in 1 .. n + 1 |-> IF i = 1 THEN s[i]
                                        ELSE IF i <= n THEN f[i] ELSE Cat(f[n], s[i])]
  <2>2. \A i \in 2 .. n : f[i] = Cat(f[i - 1], s[i])
    BY <2>1
  <2>3. n > 0 => f[1] = s[1]
    BY <2>1
  <2>4. \A i \in 1 .. n : g[i] = f[i]
    BY <2>3
  <2>5. ASSUME NEW i \in 1 .. n + 1
        PROVE  g[i] = IF i = 1 THEN s[i] ELSE Cat(g[i - 1], s[i])
    <3>1. CASE i = 1
      BY <3>1
    <3>2. CASE i \in 2 .. n
      <4>1. i # 1 /\ i \in 1 .. n /\ i - 1 \in 1 .. n
        BY <3>2
      <4>2. g[i] = f[i] /\ g[i - 1] = f[i - 1]
        BY <2>4, <4>1, Zenon
      <4> HIDE DEF g
      <4> QED
        BY <2>2, <3>2, <4>1, <4>2, Zenon
    <3>3. CASE i = n + 1 /\ n > 0
      <4>1. i # 1 /\ ~(i <= n) /\ i - 1 = n /\ n \in 1 .. n
        BY <3>3
      <4>2. g[i] = Cat(f[n], s[i]) /\ g[i - 1] = f[n]
        BY <2>4, <4>1
      <4> HIDE DEF g
      <4> QED
        BY <4>1, <4>2, Zenon
    <3> QED
      BY <3>1, <3>2, <3>3
  <2>6. IsFlat(g, n + 1)
    BY <2>5
  <2> HIDE DEF g, IsFlat
  <2> QED
    BY <2>6
<1> HIDE DEF S
<1>3. Nat \subseteq S
  BY <1>1, <1>2, NatSetInduction
<1> QED
  BY <1>3 DEF S, Cat

(***************************************************************************)
(* Lists that share no context, one after the other, make one list of all  *)
(* their contexts, each once.                                              *)
(***************************************************************************)
LEMMA FlattenOnce ==
  ASSUME NEW n \in Nat \ {0}, NEW s \in [1 .. n -> Seq(Ctx)],
         \A i \in 1 .. n : Once(s[i]),
         \A i, j \in 1 .. n : i # j => ToSet(s[i]) \cap ToSet(s[j]) = {}
  PROVE  /\ FlattenSeq(s) \in Seq(Ctx)
         /\ Once(FlattenSeq(s))
         /\ ToSet(FlattenSeq(s)) = UNION {ToSet(s[i]) : i \in 1 .. n}
<1> DEFINE flatten[i \in 1 .. n] == IF i = 1 THEN s[i] ELSE flatten[i - 1] \o s[i]
           Upto(i) == UNION {ToSet(s[k]) : k \in 1 .. i}
           Flat(i) == /\ flatten[i] \in Seq(Ctx)
                      /\ Once(flatten[i])
                      /\ ToSet(flatten[i]) = Upto(i)
           S == {i \in Nat : i \in 1 .. n => Flat(i)}
<1>0. Len(s) = n
  OBVIOUS
<1>1. FlattenSeq(s) = flatten[n]
  BY <1>0, Zenon DEF FlattenSeq
<1>2. flatten = [i \in 1 .. n |-> IF i = 1 THEN s[i] ELSE flatten[i - 1] \o s[i]]
  BY FlattenExists
<1> HIDE DEF flatten
<1>3. 0 \in S
  OBVIOUS
<1>4. ASSUME NEW i \in Nat, i \in S PROVE i + 1 \in S
  <2> SUFFICES ASSUME i + 1 \in 1 .. n PROVE Flat(i + 1)
    OBVIOUS
  <2>1. CASE i = 0
    <3>1. flatten[1] = s[1]
      BY <1>2
    <3>2. Upto(1) = ToSet(s[1])
      OBVIOUS
    <3> QED
      BY <2>1, <3>1, <3>2
  <2>2. CASE i # 0
    <3>1. i \in 1 .. n /\ Flat(i)
      BY <1>4, <2>2
    <3>2. flatten[i + 1] = flatten[i] \o s[i + 1]
      <4>1. i + 1 \in 1 .. n /\ i + 1 # 1 /\ (i + 1) - 1 = i
        BY <3>1
      <4> QED
        BY <1>2, <4>1
    <3>3. Upto(i + 1) = Upto(i) \cup ToSet(s[i + 1])
      <4>1. 1 .. i + 1 = (1 .. i) \cup {i + 1}
        OBVIOUS
      <4> QED
        BY <4>1
    <3>4. Upto(i) \cap ToSet(s[i + 1]) = {}
      <4>1. ASSUME NEW k \in 1 .. i PROVE ToSet(s[k]) \cap ToSet(s[i + 1]) = {}
        BY <3>1
      <4> QED
        BY <4>1
    <3> HIDE DEF Upto
    <3>5. s[i + 1] \in Seq(Ctx) /\ Once(s[i + 1])
      OBVIOUS
    <3> QED
      BY <3>1, <3>2, <3>3, <3>4, <3>5, AppendOnce
  <2> QED
    BY <2>1, <2>2
<1>5. n \in S
  <2> HIDE DEF S
  <2>1. Nat \subseteq S
    BY <1>3, <1>4, NatSetInduction
  <2> QED
    BY <2>1
<1> QED
  BY <1>1, <1>5

(***************************************************************************)
(* Reversing a list.                                                       *)
(***************************************************************************)
LEMMA ReverseOnce ==
  ASSUME NEW l \in Seq(Ctx)
  PROVE  /\ Reverse(l) \in Seq(Ctx)
         /\ ToSet(Reverse(l)) = ToSet(l)
         /\ Once(l) => Once(Reverse(l))
<1> DEFINE r == Reverse(l)
<1>1. /\ Len(l) \in Nat /\ DOMAIN l = 1 .. Len(l)
      /\ r \in Seq(Ctx) /\ DOMAIN r = 1 .. Len(l)
  BY DEF Reverse
<1>2. \A p \in 1 .. Len(l) : /\ Len(l) - p + 1 \in 1 .. Len(l)
                             /\ r[p] = l[Len(l) - p + 1]
                             /\ l[p] = r[Len(l) - p + 1]
  BY <1>1 DEF Reverse
<1> HIDE DEF r
<1>3. ToSet(r) = ToSet(l)
  BY <1>1, <1>2 DEF ToSet
<1>4. Once(l) => Once(r)
  BY <1>1, <1>2 DEF Once
<1> QED
  BY <1>1, <1>3, <1>4 DEF r

(***************************************************************************)
(* The list tTimerClose makes of the ring holds what the ring held, once.  *)
(***************************************************************************)
LEMMA ClosedOnce ==
  ASSUME table \in Ring, Linked(table)
  PROVE  /\ ClosedList \in Seq(Ctx)
         /\ Once(ClosedList)
         /\ ToSet(ClosedList) = InTable
<1> DEFINE s == [k \in 1 .. TableSize |-> Reverse(table[k - 1])]
<1>1. \A i \in Slot : table[i] \in Seq(Ctx) /\ Once(table[i])
  BY DEF Ring, Linked, Once
<1>2. \A i, j \in Slot : i # j => ToSet(table[i]) \cap ToSet(table[j]) = {}
  BY DEF Linked, ToSet
<1>3. \A k \in 1 .. TableSize : k - 1 \in Slot
  BY TableSizeAssumption DEF Slot
<1>4. \A k \in 1 .. TableSize : /\ s[k] \in Seq(Ctx) /\ Once(s[k])
                                /\ ToSet(s[k]) = ToSet(table[k - 1])
  BY <1>1, <1>3, ReverseOnce
<1>5. s \in [1 .. TableSize -> Seq(Ctx)]
  BY <1>4
<1>6. \A i, j \in 1 .. TableSize : i # j => ToSet(s[i]) \cap ToSet(s[j]) = {}
  <2> SUFFICES ASSUME NEW i \in 1 .. TableSize, NEW j \in 1 .. TableSize, i # j
               PROVE  ToSet(s[i]) \cap ToSet(s[j]) = {}
    OBVIOUS
  <2>1. i - 1 # j - 1
    BY TableSizeAssumption
  <2> QED
    BY <1>2, <1>3, <1>4, <2>1
<1>7. UNION {ToSet(s[k]) : k \in 1 .. TableSize} = InTable
  <2>1. \A i \in Slot : i + 1 \in 1 .. TableSize /\ ToSet(table[i]) = ToSet(s[i + 1])
    <3> SUFFICES ASSUME NEW i \in Slot
                 PROVE  i + 1 \in 1 .. TableSize /\ ToSet(table[i]) = ToSet(s[i + 1])
      OBVIOUS
    <3>1. i + 1 \in 1 .. TableSize /\ (i + 1) - 1 = i
      BY TableSizeAssumption DEF Slot
    <3> HIDE DEF s
    <3> QED
      BY <1>4, <3>1
  <2> HIDE DEF s
  <2> QED
    BY <1>3, <1>4, <2>1 DEF InTable
<1>8. TableSize \in Nat \ {0}
  BY TableSizeAssumption
<1> HIDE DEF s
<1>9. /\ FlattenSeq(s) \in Seq(Ctx) /\ Once(FlattenSeq(s))
      /\ ToSet(FlattenSeq(s)) = InTable
  BY <1>4, <1>5, <1>6, <1>7, <1>8, FlattenOnce
<1> QED
  BY <1>9 DEF s, ClosedList

-----------------------------------------------------------------------------
(***************************************************************************)
(* OneHome is inductive once it is known when the statistics thread has a  *)
(* context in hand: from tTimerGetUserToResume to the end of               *)
(* tTimerSetUserToSleep, inside the loop of tTimerTopTU.                   *)
(***************************************************************************)
TopHolds == top.ctx # NULL <=> top.pc \in {"test", "push"}

HomeInv == OneHome /\ TopHolds

(***************************************************************************)
(* What HomeInv says, in the terms of the lemmas on rings.                 *)
(***************************************************************************)
LEMMA HomeFacts ==
  ASSUME HomeInv
  PROVE  /\ TypeOK /\ table \in Ring /\ Linked(table)
         /\ \A w \in Worker : call[w] # NoCall =>
              /\ call[w].ctx \in Ctx
              /\ call[w].ctx \notin InTable \cup lost \cup {top.ctx}
         /\ \A w, v \in Worker : call[w].ctx = call[v].ctx => w = v \/ call[w] = NoCall
         /\ top.ctx \notin InTable \cup lost
         /\ InTable \cap lost = {}
BY DEF HomeInv, OneHome, TypeOK, Ring, Linked, Call

(***************************************************************************)
(* A delay that tTimerSetUserToSleep accepts leads to a slot.              *)
(***************************************************************************)
LEMMA SlotOfDelay ==
  ASSUME currentIndex \in Slot, NEW d \in Slot
  PROVE  ResumeIndex(d) \in Slot
BY SlotSum, TableSizeAssumption DEF ResumeIndex, Slot

(***************************************************************************)
(* The first of the three ways the ring changes: a context is linked.      *)
(***************************************************************************)
LEMMA PushStep ==
  ASSUME table \in Ring, Linked(table), NEW c \in Ctx, c \notin InTable,
         NEW i \in Slot, table' = PushFront(c, i)
  PROVE  /\ table' \in Ring /\ Linked(table')
         /\ InTable' = InTable \cup {c}
         /\ ToSet(table'[i]) = ToSet(table[i]) \cup {c}
         /\ \A j \in Slot : j # i => ToSet(table'[j]) = ToSet(table[j])
<1>1. \A j \in Slot : c \notin ToSet(table[j])
  BY DEF InTable
<1>2. table' = Pushed(table, c, i)
  BY DEF PushFront, Pushed
<1>3. /\ table' \in Ring /\ Linked(table')
      /\ ToSet(table'[i]) = ToSet(table[i]) \cup {c}
      /\ \A j \in Slot : j # i => ToSet(table'[j]) = ToSet(table[j])
  BY <1>1, <1>2, PushLinked
<1>4. InTable' = UNION {ToSet(table'[j]) : j \in Slot}
  BY DEF InTable, Slot
<1> QED
  BY <1>3, <1>4 DEF InTable

(***************************************************************************)
(* The second: the head of the current slot is unlinked.                   *)
(***************************************************************************)
LEMMA PopStep ==
  ASSUME table \in Ring, Linked(table), currentIndex \in Slot,
         table[currentIndex] # <<>>, table' = PopCurrent
  PROVE  /\ table' \in Ring /\ Linked(table')
         /\ DueHead \in Ctx /\ DueHead \in ToSet(table[currentIndex])
         /\ DueHead \in InTable
         /\ \A j \in Slot : ToSet(table'[j]) = ToSet(table[j]) \ {DueHead}
         /\ InTable' = InTable \ {DueHead}
<1>1. table' = [table EXCEPT ![currentIndex] = Tail(@)]
  BY DEF PopCurrent
<1>2. /\ table' \in Ring /\ Linked(table')
      /\ DueHead \in ToSet(table[currentIndex])
      /\ \A j \in Slot : ToSet(table'[j]) = ToSet(table[j]) \ {DueHead}
  BY <1>1, PopLinked DEF DueHead
<1>3. DueHead \in Ctx
  BY <1>2 DEF Ring, ToSet
<1>4. InTable' = UNION {ToSet(table'[j]) : j \in Slot}
  BY DEF InTable, Slot
<1>5. UNION {ToSet(table[j]) \ {DueHead} : j \in Slot} = InTable \ {DueHead}
  BY DEF InTable
<1>6. {ToSet(table'[j]) : j \in Slot} = {ToSet(table[j]) \ {DueHead} : j \in Slot}
  BY <1>2
<1>7. DueHead \in InTable
  BY <1>2 DEF InTable
<1> QED
  BY <1>2, <1>3, <1>4, <1>5, <1>6, <1>7

(***************************************************************************)
(* The third: tTimerClose makes one list of the ring.                      *)
(***************************************************************************)
LEMMA CloseStep ==
  ASSUME table \in Ring, Linked(table), Close
  PROVE  table' \in Ring /\ Linked(table') /\ InTable' = InTable
<1>1. 0 \in Slot /\ Slot # {}
  BY TableSizeAssumption DEF Slot
<1>2. /\ table' \in Ring /\ table'[0] = ClosedList
      /\ \A i \in Slot : i # 0 => table'[i] = <<>>
  BY <1>1, ClosedOnce DEF Close, Ring
<1>3. ASSUME NEW i \in Slot, i # 0 PROVE DOMAIN table'[i] = {} /\ ToSet(table'[i]) = {}
  BY <1>2, <1>3 DEF ToSet
<1>4. Linked(table')
  BY <1>2, <1>3, ClosedOnce DEF Linked, Once
<1>5. InTable' = UNION {ToSet(table'[j]) : j \in Slot}
  BY DEF InTable, Slot
<1> QED
  BY <1>1, <1>2, <1>3, <1>4, <1>5, ClosedOnce

(***************************************************************************)
(* After tTimerInit nothing is linked and nothing is in hand.              *)
(***************************************************************************)
LEMMA HomeInit == Init => HomeInv
<1> SUFFICES ASSUME Init PROVE HomeInv
  OBVIOUS
<1>1. 0 \in Slot /\ \A i \in Slot : table[i] = <<>>
  BY TableSizeAssumption DEF Slot, Init
<1>2. \A i \in Slot : DOMAIN table[i] = {} /\ ToSet(table[i]) = {}
  BY <1>1 DEF ToSet
<1>3. InTable = {}
  BY <1>2 DEF InTable
<1>4. TypeOK
  <2>1. table \in [Slot -> Seq(Ctx)]
    BY DEF Init
  <2>2. call \in [Worker -> Call] /\ top \in [pc : TopStep, ctx : Ctx \cup {NULL}, delay : Slot]
    BY <1>1 DEF Init, Call, NoCall, TopStep
  <2>3. left \in [Ctx -> Slot] /\ currentIndex \in Slot
    BY <1>1 DEF Init
  <2> QED
    BY <2>1, <2>2, <2>3 DEF Init, TypeOK
<1> QED
  BY <1>2, <1>3, <1>4 DEF Init, HomeInv, OneHome, TopHolds, NoCall

(***************************************************************************)
(* The invariant from its parts, once it is known what became of the ring. *)
(***************************************************************************)
LEMMA HomeNext ==
  ASSUME TypeOK', Linked(table'), TopHolds',
         \A w \in Worker : call'[w] # NoCall =>
            call'[w].ctx \notin InTable' \cup lost' \cup {top'.ctx, NULL},
         \A w, v \in Worker : call'[w].ctx = call'[v].ctx => w = v \/ call'[w] = NoCall,
         top'.ctx \notin InTable' \cup lost',
         InTable' \cap lost' = {}
  PROVE  HomeInv'
BY DEF HomeInv, OneHome, Linked, Slot, NoCall

(***************************************************************************)
(* Every step of the workers, of the statistics thread and of the main     *)
(* thread keeps every context in one place.                                *)
(***************************************************************************)
LEMMA HomeStep == HomeInv /\ [Next]_vars => HomeInv'
<1> SUFFICES ASSUME HomeInv, [Next]_vars PROVE HomeInv'
  OBVIOUS
<1>0. /\ TypeOK /\ table \in Ring /\ Linked(table)
      /\ \A w \in Worker : call[w] # NoCall =>
           /\ call[w].ctx \in Ctx
           /\ call[w].ctx \notin InTable \cup lost \cup {top.ctx}
      /\ \A w, v \in Worker : call[w].ctx = call[v].ctx => w = v \/ call[w] = NoCall
      /\ top.ctx \notin InTable \cup lost
      /\ InTable \cap lost = {}
  BY HomeFacts
<1>s. 0 \in Slot /\ 1 \in Slot
  BY TableSizeAssumption DEF Slot
<1>c. NoCall.ctx = NULL
  BY DEF NoCall
<1>h. TopHolds
  BY DEF HomeInv
<1>u. UNCHANGED table => InTable' = InTable
  BY DEF InTable, Slot
<1>1. ASSUME NEW w \in Worker, NEW c \in Ctx, NEW n \in Slot \ {0},
             SetUserToSleepTest(w, c, n)
      PROVE  HomeInv'
  <2> USE <1>1 DEF SetUserToSleepTest, tableVars, history
  <2>1. c \notin InTable \cup lost /\ c # top.ctx /\ \A v \in Worker : call[v].ctx # c
    BY DEF InHand
  <2>2. \A v \in Worker : call'[v] = IF v = w THEN [ctx |-> c, delay |-> ChosenDelay(n)]
                                              ELSE call[v]
    BY <1>0 DEF TypeOK
  <2>3. TypeOK'
    BY <1>0, <1>s DEF TypeOK, Call, ChosenDelay
  <2>4. TopHolds'
    BY <1>h DEF TopHolds
  <2> QED
    BY <1>0, <1>u, <2>1, <2>2, <2>3, <2>4, HomeNext, NullAssumption
<1>2. ASSUME NEW w \in Worker, SetUserToSleepInsert(w) PROVE HomeInv'
  <2> USE <1>2 DEF SetUserToSleepInsert
  <2>1. call[w].ctx \in Ctx /\ call[w].ctx \notin InTable /\ call[w].delay \in Slot
    BY <1>0 DEF TypeOK, Call
  <2>2. ResumeIndex(call[w].delay) \in Slot
    BY <1>0, <2>1, SlotOfDelay DEF TypeOK
  <2>3. table' \in Ring /\ Linked(table') /\ InTable' = InTable \cup {call[w].ctx}
    BY <1>0, <2>1, <2>2, PushStep
  <2>4. \A v \in Worker : call'[v] = IF v = w THEN NoCall ELSE call[v]
    BY <1>0 DEF TypeOK
  <2>5. TypeOK'
    BY <1>0, <1>s, <2>1, <2>3 DEF TypeOK, Ring, NoCall, Call
  <2>6. TopHolds'
    BY <1>h DEF TopHolds
  <2> QED
    BY <1>0, <1>c, <2>1, <2>3, <2>4, <2>5, <2>6, HomeNext, NullAssumption
<1>3. ASSUME NEW w \in Worker, SetUserToSleepNoMemory(w) PROVE HomeInv'
  <2> USE <1>3 DEF SetUserToSleepNoMemory, tableVars
  <2>1. \A v \in Worker : call'[v] = IF v = w THEN NoCall ELSE call[v]
    BY <1>0 DEF TypeOK
  <2>2. TypeOK'
    BY <1>0, <1>s DEF TypeOK, NoCall, Call
  <2>3. TopHolds'
    BY <1>h DEF TopHolds
  <2> QED
    BY <1>0, <1>c, <1>u, <2>1, <2>2, <2>3, HomeNext, NullAssumption
<1>4. ASSUME NEW w \in Worker, GetUserToResume(w) PROVE HomeInv'
  <2> USE <1>4 DEF GetUserToResume, history
  <2>1. table' \in Ring /\ Linked(table') /\ InTable' = InTable \ {DueHead}
    BY <1>0, PopStep DEF TypeOK
  <2>2. TypeOK'
    BY <1>0, <2>1 DEF TypeOK, Ring
  <2>3. TopHolds'
    BY <1>h DEF TopHolds
  <2> QED
    BY <1>0, <2>1, <2>2, <2>3, HomeNext, NullAssumption
<1>5. CASE TopTUCheck \/ TopTUTest \/ TopTUAdvance
  <2> USE <1>5 DEF TopTUCheck, TopTUTest, TopTUAdvance, tableVars, history
  <2>1. UNCHANGED <<table, call, lost>> /\ top'.ctx = top.ctx
    BY <1>0 DEF TypeOK
  <2>2. NextIndex \in Slot
    BY <1>0, <1>s, SlotOfDelay DEF NextIndex, ResumeIndex, TypeOK
  <2>3. TypeOK'
    <3>1. \A d \in Slot : (IF d > 0 THEN d - 1 ELSE 0) \in Slot
      BY TableSizeAssumption DEF Slot
    <3>2. left' \in [Ctx -> Slot]
      <4>1. left \in [Ctx -> Slot] /\ \A c \in Ctx : left[c] \in Slot
        BY <1>0 DEF TypeOK
      <4>2. CASE UNCHANGED left
        BY <4>1, <4>2
      <4>3. CASE left' = [c \in Ctx |-> IF left[c] > 0 THEN left[c] - 1 ELSE 0]
        <5>1. \A c \in Ctx : (IF left[c] > 0 THEN left[c] - 1 ELSE 0) \in Slot
          BY <3>1, <4>1
        <5> QED
          BY <4>3, <5>1
      <4> QED
        BY <4>2, <4>3
    <3>3. top' \in [pc : TopStep, ctx : Ctx \cup {NULL}, delay : Slot]
      BY <1>0, <1>s DEF TypeOK, TopStep, ChosenDelay
    <3> QED
      BY <1>0, <2>2, <3>2, <3>3 DEF TypeOK
  <2>4. TopHolds'
    BY <1>0, <1>h DEF TopHolds, TypeOK
  <2> QED
    BY <1>0, <1>u, <2>1, <2>3, <2>4, HomeNext, NullAssumption
<1>6. CASE TopTUPop
  <2> USE <1>6 DEF TopTUPop, history
  <2>1. CASE table[currentIndex] = <<>>
    <3>1. UNCHANGED <<table, call, lost>> /\ top'.ctx = top.ctx
      BY <1>0, <2>1 DEF TypeOK
    <3>2. TypeOK' /\ TopHolds'
      BY <1>0, <1>h, <2>1 DEF TypeOK, TopStep, TopHolds
    <3> QED
      BY <1>0, <1>u, <3>1, <3>2, HomeNext, NullAssumption
  <2>2. CASE table[currentIndex] # <<>>
    <3>1. /\ table' \in Ring /\ Linked(table') /\ InTable' = InTable \ {DueHead}
          /\ DueHead \in Ctx /\ DueHead \in InTable
      BY <1>0, <2>2, PopStep DEF TypeOK
    <3>2. top'.ctx = DueHead /\ top'.pc = "test" /\ UNCHANGED <<call, lost>>
      BY <1>0, <2>2 DEF TypeOK
    <3>3. TypeOK' /\ TopHolds'
      BY <1>0, <2>2, <3>1, <3>2, NullAssumption DEF TypeOK, TopStep, TopHolds, Ring
    <3> QED
      BY <1>0, <3>1, <3>2, <3>3, HomeNext, NullAssumption
  <2> QED
    BY <2>1, <2>2
<1>7. CASE TopTUPush
  <2> USE <1>7 DEF TopTUPush
  <2>1. top.ctx \in Ctx /\ top.ctx \notin InTable /\ top.delay \in Slot
    BY <1>0, <1>h DEF TypeOK, TopHolds
  <2>2. ResumeIndex(top.delay) \in Slot
    BY <1>0, <2>1, SlotOfDelay DEF TypeOK
  <2>3. table' \in Ring /\ Linked(table') /\ InTable' = InTable \cup {top.ctx}
    BY <1>0, <2>1, <2>2, PushStep
  <2>4. top'.ctx = NULL /\ UNCHANGED <<call, lost>>
    OBVIOUS
  <2>5. TypeOK' /\ TopHolds'
    BY <1>0, <1>s, <2>1, <2>3 DEF TypeOK, TopStep, TopHolds, Ring
  <2>6. NULL \notin InTable \cup lost
    BY <1>0, NullAssumption DEF InTable, Ring, ToSet, TypeOK
  <2> QED
    BY <1>0, <2>1, <2>3, <2>4, <2>5, <2>6, HomeNext, NullAssumption
<1>8. CASE TopTUNoMemory
  <2> USE <1>8 DEF TopTUNoMemory, tableVars
  <2>1. top.ctx \in Ctx
    BY <1>0, <1>h DEF TypeOK, TopHolds
  <2>2. top'.ctx = NULL /\ UNCHANGED <<table, call>> /\ lost' = lost \cup {top.ctx}
    OBVIOUS
  <2>3. TypeOK' /\ TopHolds'
    BY <1>0, <1>s, <2>1 DEF TypeOK, TopStep, TopHolds
  <2>4. NULL \notin InTable \cup lost
    BY <1>0, NullAssumption DEF InTable, Ring, ToSet, TypeOK
  <2> QED
    BY <1>0, <1>u, <2>1, <2>2, <2>3, <2>4, HomeNext, NullAssumption
<1>9. CASE Close
  <2>1. table' \in Ring /\ Linked(table') /\ InTable' = InTable
    BY <1>0, <1>9, CloseStep
  <2>2. UNCHANGED <<call, top, lost>>
    BY <1>9 DEF Close
  <2>3. TypeOK' /\ TopHolds'
    BY <1>0, <1>h, <1>s, <1>9, <2>1 DEF Close, ClosedIndex, TypeOK, TopHolds, Ring
  <2> QED
    BY <1>0, <2>1, <2>2, <2>3, HomeNext, NullAssumption
<1>10. CASE UNCHANGED vars
  <2>1. UNCHANGED <<table, call, top, lost>>
    BY <1>10 DEF vars, tableVars, history
  <2>2. TypeOK' /\ TopHolds'
    BY <1>0, <1>h, <1>10 DEF vars, tableVars, history, TypeOK, TopHolds
  <2> QED
    BY <1>0, <1>u, <2>1, <2>2, HomeNext, NullAssumption
<1> QED
  BY <1>1, <1>2, <1>3, <1>4, <1>5, <1>6, <1>7, <1>8, <1>9, <1>10
  DEF Next, TopTU, WorkerStep

(***************************************************************************)
(* OneHome holds for every number of contexts and workers and every size   *)
(* of the table: no interleaving of tTimerSetUserToSleep, resumptions, the *)
(* loop of tTimerTopTU and tTimerClose links a context twice, loses one    *)
(* without a failed malloc, or leaves one in two hands.                    *)
(***************************************************************************)
THEOREM ContextHasOneHome == Spec => []OneHome
<1>1. HomeInv => OneHome
  BY DEF HomeInv
<1> QED
  BY <1>1, HomeInit, HomeStep, PTL DEF Spec

-----------------------------------------------------------------------------
(***************************************************************************)
(* OnSchedule rests on this: while the table is open, no worker is about   *)
(* to link a context in the current slot (a delay of 0 was chosen only     *)
(* after tTimerClose) and tTimerTopTU links in the next one; a context it  *)
(* has moved is still in the ring; and it advances only over an empty      *)
(* slot.                                                                   *)
(***************************************************************************)
Slotted ==
  \A i \in Slot : \A c \in ToSet(table[i]) :
    IF c \in moved THEN i = NextIndex /\ left[c] = 0 ELSE i = ResumeIndex(left[c])
Ahead ==
  /\ \A w \in Worker : call[w] # NoCall => call[w].delay # 0
  /\ top.pc = "push" => top.delay = 1
  /\ top.pc = "advance" => table[currentIndex] = <<>>
Overdue == top.ctx # NULL => left[top.ctx] = 0

ScheduleInv ==
  ~tableClosed /\ lost = {} => Slotted /\ Ahead /\ Overdue /\ moved \subseteq InTable

(***************************************************************************)
(* The arithmetic of the ring: a delay of 0 is the current slot, 1 the     *)
(* next one, and a delay counts one less from the next slot.               *)
(***************************************************************************)
LEMMA Turns ==
  ASSUME currentIndex \in Slot
  PROVE  /\ ResumeIndex(0) = currentIndex
         /\ NextIndex = ResumeIndex(1) /\ NextIndex \in Slot
         /\ NextIndex # currentIndex
         /\ (NextIndex + 0) % TableSize = NextIndex
         /\ \A d \in Slot : d # 0 =>
              /\ ResumeIndex(d) # currentIndex
              /\ (NextIndex + (d - 1)) % TableSize = ResumeIndex(d)
<1>1. 0 \in Slot /\ 1 \in Slot
  BY TableSizeAssumption DEF Slot
<1>2. /\ ResumeIndex(0) = currentIndex
      /\ NextIndex = ResumeIndex(1) /\ NextIndex \in Slot /\ NextIndex # currentIndex
      /\ NextIndex = IF currentIndex + 1 < TableSize THEN currentIndex + 1 ELSE 0
  <2>1. (currentIndex + 0) % TableSize = IF currentIndex + 0 < TableSize
                                         THEN currentIndex + 0
                                         ELSE currentIndex + 0 - TableSize
    BY <1>1, SlotSum
  <2>2. (currentIndex + 1) % TableSize = IF currentIndex + 1 < TableSize
                                         THEN currentIndex + 1
                                         ELSE currentIndex + 1 - TableSize
    BY <1>1, SlotSum
  <2> QED
    BY <2>1, <2>2, TableSizeAssumption DEF ResumeIndex, NextIndex, Slot
<1>3. (NextIndex + 0) % TableSize = NextIndex
  <2>1. (NextIndex + 0) % TableSize = IF NextIndex + 0 < TableSize THEN NextIndex + 0
                                      ELSE NextIndex + 0 - TableSize
    BY <1>1, <1>2, SlotSum
  <2> QED
    BY <1>2, <2>1, TableSizeAssumption DEF Slot
<1>4. ASSUME NEW d \in Slot, d # 0
      PROVE  /\ ResumeIndex(d) # currentIndex
             /\ (NextIndex + (d - 1)) % TableSize = ResumeIndex(d)
  <2>1. d - 1 \in Slot
    BY <1>4, TableSizeAssumption DEF Slot
  <2>2. ResumeIndex(d) = IF currentIndex + d < TableSize THEN currentIndex + d
                         ELSE currentIndex + d - TableSize
    BY SlotSum DEF ResumeIndex
  <2>3. (NextIndex + (d - 1)) % TableSize =
            IF NextIndex + (d - 1) < TableSize THEN NextIndex + (d - 1)
            ELSE NextIndex + (d - 1) - TableSize
    BY <1>2, <2>1, SlotSum
  <2> QED
    BY <1>2, <1>4, <2>1, <2>2, <2>3, TableSizeAssumption DEF Slot
<1> QED
  BY <1>2, <1>3, <1>4

(***************************************************************************)
(* Every step keeps the contexts in the slots of their remaining times.    *)
(***************************************************************************)
LEMMA ScheduleStep ==
  ASSUME HomeInv, HomeInv', ScheduleInv, [Next]_vars
  PROVE  ScheduleInv'
<1> SUFFICES ASSUME ~tableClosed', lost' = {}
             PROVE  (Slotted /\ Ahead /\ Overdue /\ moved \subseteq InTable)'
  BY DEF ScheduleInv
<1>0. /\ TypeOK /\ table \in Ring /\ Linked(table)
      /\ \A w \in Worker : call[w] # NoCall =>
           /\ call[w].ctx \in Ctx
           /\ call[w].ctx \notin InTable \cup lost \cup {top.ctx}
      /\ top.ctx \notin InTable \cup lost
  BY HomeFacts
<1>t. /\ ResumeIndex(0) = currentIndex
      /\ NextIndex = ResumeIndex(1) /\ NextIndex \in Slot
      /\ NextIndex # currentIndex
      /\ (NextIndex + 0) % TableSize = NextIndex
      /\ \A d \in Slot : d # 0 =>
           /\ ResumeIndex(d) # currentIndex
           /\ (NextIndex + (d - 1)) % TableSize = ResumeIndex(d)
  BY <1>0, Turns DEF TypeOK
<1>o. ~tableClosed /\ lost = {}
  BY DEF Next, TopTU, WorkerStep, SetUserToSleepTest, SetUserToSleepInsert,
         SetUserToSleepNoMemory, GetUserToResume, TopTUCheck, TopTUPop, TopTUTest,
         TopTUPush, TopTUNoMemory, TopTUAdvance, Close, vars, tableVars, history
<1>i. Slotted /\ Ahead /\ Overdue /\ moved \subseteq InTable
  BY <1>o DEF ScheduleInv
<1>n. UNCHANGED currentIndex => \A d : NextIndex' = NextIndex /\ ResumeIndex(d)' = ResumeIndex(d)
  BY DEF NextIndex, ResumeIndex
<1>u. UNCHANGED table => InTable' = InTable
  BY DEF InTable, Slot
<1>m. \A i \in Slot : ToSet(table[i]) \subseteq InTable
  BY DEF InTable
<1>1. ASSUME NEW w \in Worker, NEW c \in Ctx, NEW n \in Slot \ {0},
             SetUserToSleepTest(w, c, n)
      PROVE  (Slotted /\ Ahead /\ Overdue /\ moved \subseteq InTable)'
  <2> USE <1>1 DEF SetUserToSleepTest, tableVars, history
  <2>1. \A v \in Worker : call'[v] = IF v = w THEN [ctx |-> c, delay |-> n] ELSE call[v]
    BY <1>0, <1>o DEF TypeOK, ChosenDelay
  <2>2. Ahead'
    BY <1>i, <2>1 DEF Ahead, NoCall
  <2> QED
    BY <1>i, <1>n, <1>u, <2>2 DEF Slotted, Overdue, Slot
<1>2. ASSUME NEW w \in Worker, SetUserToSleepInsert(w)
      PROVE  (Slotted /\ Ahead /\ Overdue /\ moved \subseteq InTable)'
  <2> USE <1>2 DEF SetUserToSleepInsert
  <2> DEFINE c == call[w].ctx
             d == call[w].delay
  <2>1. c \in Ctx /\ c \notin InTable /\ d \in Slot /\ d # 0 /\ c # top.ctx
    BY <1>0, <1>i DEF TypeOK, Call, Ahead
  <2>2. ResumeIndex(d) \in Slot /\ ResumeIndex(d) # currentIndex
    BY <1>0, <1>t, <2>1, SlotOfDelay DEF TypeOK
  <2>3. /\ InTable' = InTable \cup {c}
        /\ ToSet(table'[ResumeIndex(d)]) = ToSet(table[ResumeIndex(d)]) \cup {c}
        /\ \A j \in Slot : j # ResumeIndex(d) => ToSet(table'[j]) = ToSet(table[j])
    BY <1>0, <2>1, <2>2, PushStep
  <2>4. left' = [left EXCEPT ![c] = d] /\ c \notin moved /\ UNCHANGED <<moved, top, currentIndex>>
    BY <1>i, <2>1
  <2>5. Slotted'
    <3> SUFFICES ASSUME NEW i \in Slot, NEW x \in ToSet(table'[i])
                 PROVE  IF x \in moved THEN i = NextIndex /\ left'[x] = 0
                        ELSE i = ResumeIndex(left'[x])
      BY <1>n, <2>4 DEF Slotted, Slot
    <3>1. CASE x = c
      <4>1. i = ResumeIndex(d)
        BY <1>m, <2>1, <2>3, <3>1
      <4>2. left'[x] = d
        BY <1>0, <2>1, <2>4, <3>1 DEF TypeOK
      <4> QED
        BY <2>4, <3>1, <4>1, <4>2
    <3>2. CASE x # c
      <4>1. x \in ToSet(table[i])
        BY <2>3, <3>2
      <4>2. left'[x] = left[x]
        BY <1>0, <2>4, <3>2, <4>1 DEF TypeOK, Ring, ToSet
      <4> QED
        BY <1>i, <4>1, <4>2 DEF Slotted
    <3> QED
      BY <3>1, <3>2
  <2>6. Ahead'
    <3>1. table'[currentIndex] = table[currentIndex]
      BY <1>0, <2>2 DEF PushFront, TypeOK
    <3>2. \A v \in Worker : call'[v] = IF v = w THEN NoCall ELSE call[v]
      BY <1>0 DEF TypeOK
    <3> QED
      BY <1>i, <2>4, <3>1, <3>2 DEF Ahead, NoCall
  <2>7. Overdue'
    BY <1>0, <1>i, <2>1, <2>4 DEF Overdue, TypeOK
  <2> QED
    BY <1>i, <2>3, <2>4, <2>5, <2>6, <2>7
<1>3. ASSUME NEW w \in Worker, SetUserToSleepNoMemory(w)
      PROVE  (Slotted /\ Ahead /\ Overdue /\ moved \subseteq InTable)'
  BY <1>3 DEF SetUserToSleepNoMemory
<1>p. ASSUME table[currentIndex] # <<>>, table' = PopCurrent,
             UNCHANGED <<currentIndex, left, moved>>
      PROVE  /\ (Slotted /\ moved \subseteq InTable)'
             /\ DueHead \in Ctx /\ left[DueHead] = 0
  <2>1. /\ DueHead \in Ctx /\ DueHead \in ToSet(table[currentIndex])
        /\ \A j \in Slot : ToSet(table'[j]) = ToSet(table[j]) \ {DueHead}
        /\ InTable' = InTable \ {DueHead}
    BY <1>0, <1>p, PopStep DEF TypeOK
  <2>2. DueHead \notin moved /\ currentIndex = ResumeIndex(left[DueHead])
    BY <1>0, <1>i, <1>t, <2>1 DEF Slotted, TypeOK
  <2>3. left[DueHead] = 0
    BY <1>0, <1>t, <2>1, <2>2 DEF TypeOK
  <2>4. Slotted'
    BY <1>i, <1>n, <1>p, <2>1 DEF Slotted, Slot
  <2> QED
    BY <1>i, <1>p, <2>1, <2>2, <2>3, <2>4
<1>4. ASSUME NEW w \in Worker, GetUserToResume(w)
      PROVE  (Slotted /\ Ahead /\ Overdue /\ moved \subseteq InTable)'
  <2> USE <1>4 DEF GetUserToResume, history
  <2>1. (Slotted /\ moved \subseteq InTable)'
    BY <1>p
  <2>2. top.pc # "advance"
    BY <1>i DEF Ahead
  <2> QED
    BY <1>i, <2>1, <2>2 DEF Ahead, Overdue
<1>5. CASE TopTUCheck \/ TopTUTest
  <2> USE <1>5 DEF TopTUCheck, TopTUTest, tableVars, history
  <2>1. top'.ctx = top.ctx /\ top'.pc # "advance" /\ (top'.pc = "push" => top'.delay = 1)
    BY <1>0, <1>o DEF TypeOK, ChosenDelay
  <2> QED
    BY <1>i, <1>n, <1>u, <2>1 DEF Slotted, Ahead, Overdue, Slot
<1>6. CASE TopTUPop
  <2> USE <1>6 DEF TopTUPop, history
  <2>1. CASE table[currentIndex] = <<>>
    <3>1. top'.ctx = top.ctx /\ top'.pc = "advance" /\ UNCHANGED table
      BY <1>0, <2>1 DEF TypeOK
    <3> QED
      BY <1>i, <1>n, <1>u, <2>1, <3>1 DEF Slotted, Ahead, Overdue, Slot
  <2>2. CASE table[currentIndex] # <<>>
    <3>1. (Slotted /\ moved \subseteq InTable)' /\ DueHead \in Ctx /\ left[DueHead] = 0
      BY <1>p, <2>2
    <3>2. top'.ctx = DueHead /\ top'.pc = "test"
      BY <1>0, <2>2 DEF TypeOK
    <3> QED
      BY <1>i, <3>1, <3>2 DEF Ahead, Overdue
  <2> QED
    BY <2>1, <2>2
<1>7. CASE TopTUPush
  <2> USE <1>7 DEF TopTUPush
  <2> DEFINE c == top.ctx
  <2>1. c \in Ctx /\ c \notin InTable /\ top.delay = 1 /\ left[c] = 0
    BY <1>0, <1>i DEF TypeOK, HomeInv, TopHolds, Ahead, Overdue
  <2>2. table' = PushFront(c, NextIndex)
    BY <1>t, <2>1
  <2>3. /\ InTable' = InTable \cup {c}
        /\ ToSet(table'[NextIndex]) = ToSet(table[NextIndex]) \cup {c}
        /\ \A j \in Slot : j # NextIndex => ToSet(table'[j]) = ToSet(table[j])
    BY <1>0, <1>t, <2>1, <2>2, PushStep
  <2>4. /\ moved' = moved \cup {c} /\ UNCHANGED <<left, call, currentIndex>>
        /\ top'.pc = "pop" /\ top'.ctx = NULL
    OBVIOUS
  <2>5. Slotted'
    <3> SUFFICES ASSUME NEW i \in Slot, NEW x \in ToSet(table'[i])
                 PROVE  IF x \in moved' THEN i = NextIndex /\ left[x] = 0
                        ELSE i = ResumeIndex(left[x])
      BY <1>n, <2>4 DEF Slotted, Slot
    <3>1. CASE x = c
      BY <1>m, <2>1, <2>3, <2>4, <3>1
    <3>2. CASE x # c
      BY <1>i, <2>3, <2>4, <3>2 DEF Slotted
    <3> QED
      BY <3>1, <3>2
  <2> QED
    BY <1>i, <2>3, <2>4, <2>5 DEF Ahead, Overdue
<1>8. CASE TopTUNoMemory
  BY <1>8 DEF TopTUNoMemory
<1>9. CASE TopTUAdvance
  <2> USE <1>9 DEF TopTUAdvance
  <2>1. \A i \in Slot : \A x \in ToSet(table[i]) : i # currentIndex /\ x \in Ctx
    BY <1>0, <1>i DEF Ahead, ToSet, Ring
  <2>2. top'.pc = "idle" /\ top'.ctx = NULL
    BY <1>0 DEF TypeOK, HomeInv, TopHolds
  <2>3. Slotted'
    <3> SUFFICES ASSUME NEW i \in Slot, NEW x \in ToSet(table[i])
                 PROVE  i = (NextIndex + left'[x]) % TableSize
      BY DEF Slotted, ResumeIndex, Slot
    <3>1. x \in Ctx /\ left[x] \in Slot /\ left'[x] = IF left[x] > 0 THEN left[x] - 1 ELSE 0
      BY <1>0, <2>1 DEF TypeOK
    <3>2. CASE x \in moved
      BY <1>i, <1>t, <3>1, <3>2 DEF Slotted
    <3>3. CASE x \notin moved
      <4>1. i = ResumeIndex(left[x]) /\ left[x] # 0
        BY <1>i, <1>t, <2>1, <3>3 DEF Slotted
      <4>2. left'[x] = left[x] - 1
        BY <3>1, <4>1 DEF Slot
      <4> QED
        BY <1>t, <3>1, <4>1, <4>2
    <3> QED
      BY <3>2, <3>3
  <2> QED
    BY <1>i, <2>2, <2>3 DEF Ahead, Overdue
<1>10. CASE Close
  BY <1>10 DEF Close
<1>11. CASE UNCHANGED vars
  BY <1>11, <1>i, <1>n, <1>u
  DEF vars, tableVars, history, Slotted, Ahead, Overdue, Slot
<1> QED
  BY <1>1, <1>2, <1>3, <1>4, <1>5, <1>6, <1>7, <1>8, <1>9, <1>10, <1>11
  DEF Next, TopTU, WorkerStep

(***************************************************************************)
(* OnSchedule holds for every number of contexts and workers and every     *)
(* size of the table: currentIndex reaches a context exactly when its time *)
(* has come, however the workers' insertions and resumptions fall between  *)
(* the steps of tTimerTopTU.                                               *)
(***************************************************************************)
THEOREM ContextOnSchedule == Spec => []OnSchedule
<1> DEFINE Inv == HomeInv /\ ScheduleInv
<1>1. Init => Inv
  <2> SUFFICES ASSUME Init PROVE ScheduleInv
    BY HomeInit
  <2>1. \A i \in Slot : ToSet(table[i]) = {}
    BY DEF Init, ToSet
  <2> QED
    BY <2>1 DEF Init, ScheduleInv, Slotted, Ahead, Overdue
<1>2. Inv /\ [Next]_vars => Inv'
  BY HomeStep, ScheduleStep
<1>3. Inv => OnSchedule
  BY DEF ScheduleInv, OnSchedule, Slotted, Overdue
<1> QED
  BY <1>1, <1>2, <1>3, PTL DEF Spec

-----------------------------------------------------------------------------
(***************************************************************************)
(* What the step simulation of TSleep rests on, beside HomeInv.  It holds  *)
(* after a failed malloc too, when overdue contexts may be left behind in  *)
(* a slot: a context that is not in the slot of its remaining time is      *)
(* overdue, and so is the one tTimerTopTU has in hand.                     *)
(***************************************************************************)
Timely ==
  \A i \in Slot : \A c \in ToSet(table[i]) : left[c] = 0 \/ i = ResumeIndex(left[c])

TimelyInv == ~tableClosed => Timely /\ Overdue

(***************************************************************************)
(* While the table is open, the head of the current slot is due.           *)
(***************************************************************************)
LEMMA HeadDue ==
  ASSUME HomeInv, TimelyInv, ~tableClosed, table[currentIndex] # <<>>,
         table' = PopCurrent
  PROVE  left[DueHead] = 0
<1>1. TypeOK /\ table \in Ring /\ Linked(table)
  BY HomeFacts
<1>2. DueHead \in Ctx /\ DueHead \in ToSet(table[currentIndex])
  BY <1>1, PopStep DEF TypeOK
<1>3. left[DueHead] = 0 \/ currentIndex = ResumeIndex(left[DueHead])
  BY <1>1, <1>2 DEF TimelyInv, Timely, TypeOK
<1> QED
  BY <1>1, <1>2, <1>3, Turns DEF TypeOK

(***************************************************************************)
(* Every step keeps TimelyInv.                                             *)
(***************************************************************************)
LEMMA TimelyStep ==
  ASSUME HomeInv, TimelyInv, [Next]_vars
  PROVE  TimelyInv'
<1> SUFFICES ASSUME ~tableClosed' PROVE Timely' /\ Overdue'
  BY DEF TimelyInv
<1>0. /\ TypeOK /\ table \in Ring /\ Linked(table)
      /\ \A w \in Worker : call[w] # NoCall =>
           /\ call[w].ctx \in Ctx
           /\ call[w].ctx \notin InTable \cup lost \cup {top.ctx}
      /\ top.ctx \notin InTable \cup lost
  BY HomeFacts
<1>o. ~tableClosed
  BY DEF Next, TopTU, WorkerStep, SetUserToSleepTest, SetUserToSleepInsert,
         SetUserToSleepNoMemory, GetUserToResume, TopTUCheck, TopTUPop, TopTUTest,
         TopTUPush, TopTUNoMemory, TopTUAdvance, Close, vars, tableVars, history
<1>i. Timely /\ Overdue
  BY <1>o DEF TimelyInv
<1>n. UNCHANGED currentIndex => \A d : ResumeIndex(d)' = ResumeIndex(d)
  BY DEF ResumeIndex
<1>m. \A i \in Slot : ToSet(table[i]) \subseteq InTable
  BY DEF InTable
<1>1. ASSUME UNCHANGED <<table, currentIndex, left>>, top'.ctx \in {top.ctx, NULL}
      PROVE  Timely' /\ Overdue'
  BY <1>1, <1>i, <1>n DEF Timely, Overdue, Slot
<1>2. ASSUME NEW w \in Worker, SetUserToSleepInsert(w) PROVE Timely' /\ Overdue'
  <2> USE <1>2 DEF SetUserToSleepInsert
  <2> DEFINE c == call[w].ctx
             d == call[w].delay
  <2>1. c \in Ctx /\ c \notin InTable /\ d \in Slot /\ c # top.ctx
    BY <1>0 DEF TypeOK, Call
  <2>2. ResumeIndex(d) \in Slot
    BY <1>0, <2>1, SlotOfDelay DEF TypeOK
  <2>3. /\ ToSet(table'[ResumeIndex(d)]) = ToSet(table[ResumeIndex(d)]) \cup {c}
        /\ \A j \in Slot : j # ResumeIndex(d) => ToSet(table'[j]) = ToSet(table[j])
    BY <1>0, <2>1, <2>2, PushStep
  <2>4. left' = [left EXCEPT ![c] = d] /\ UNCHANGED <<top, currentIndex>>
    OBVIOUS
  <2>5. ASSUME NEW i \in Slot, NEW x \in ToSet(table'[i])
        PROVE  left'[x] = 0 \/ i = ResumeIndex(left'[x])
    <3>1. CASE x = c
      <4>1. i = ResumeIndex(d)
        BY <1>m, <2>1, <2>3, <3>1
      <4>2. left'[x] = d
        BY <1>0, <2>1, <2>4, <3>1 DEF TypeOK
      <4> QED
        BY <4>1, <4>2
    <3>2. CASE x # c
      <4>1. x \in ToSet(table[i])
        BY <2>3, <3>2
      <4>2. left'[x] = left[x]
        BY <1>0, <2>4, <3>2, <4>1 DEF TypeOK, Ring, ToSet
      <4> QED
        BY <1>i, <4>1, <4>2 DEF Timely
    <3> QED
      BY <3>1, <3>2
  <2>6. Timely'
    BY <1>n, <2>4, <2>5 DEF Timely, Slot
  <2>7. Overdue'
    BY <1>0, <1>i, <2>1, <2>4 DEF Overdue, TypeOK
  <2> QED
    BY <2>6, <2>7
<1>3. ASSUME table[currentIndex] # <<>>, table' = PopCurrent,
             UNCHANGED <<currentIndex, left>>, top'.ctx \in {top.ctx, DueHead}
      PROVE  Timely' /\ Overdue'
  <2>1. \A j \in Slot : ToSet(table'[j]) = ToSet(table[j]) \ {DueHead}
    BY <1>0, <1>3, PopStep DEF TypeOK
  <2>2. left[DueHead] = 0
    BY <1>o, <1>3, HeadDue
  <2> QED
    BY <1>i, <1>n, <1>3, <2>1, <2>2 DEF Timely, Overdue, Slot
<1>4. CASE TopTUPop
  <2>1. CASE table[currentIndex] = <<>>
    BY <1>0, <1>1, <1>4, <2>1 DEF TopTUPop, TypeOK, history
  <2>2. CASE table[currentIndex] # <<>>
    BY <1>0, <1>3, <1>4, <2>2 DEF TopTUPop, TypeOK, history
  <2> QED
    BY <2>1, <2>2
<1>5. CASE TopTUPush
  <2> USE <1>5 DEF TopTUPush
  <2>1. top.ctx \in Ctx /\ top.ctx \notin InTable /\ left[top.ctx] = 0 /\ top.delay \in Slot
    BY <1>0, <1>i DEF TypeOK, HomeInv, TopHolds, Overdue
  <2>2. ResumeIndex(top.delay) \in Slot
    BY <1>0, <2>1, SlotOfDelay DEF TypeOK
  <2>3. /\ ToSet(table'[ResumeIndex(top.delay)]) =
             ToSet(table[ResumeIndex(top.delay)]) \cup {top.ctx}
        /\ \A j \in Slot : j # ResumeIndex(top.delay) => ToSet(table'[j]) = ToSet(table[j])
    BY <1>0, <2>1, <2>2, PushStep
  <2>4. top'.ctx = NULL /\ UNCHANGED <<left, currentIndex>>
    OBVIOUS
  <2>5. ASSUME NEW i \in Slot, NEW x \in ToSet(table'[i])
        PROVE  left[x] = 0 \/ i = ResumeIndex(left[x])
    BY <1>i, <2>1, <2>3 DEF Timely
  <2> QED
    BY <1>n, <2>4, <2>5 DEF Timely, Overdue, Slot
<1>6. CASE TopTUAdvance
  <2> USE <1>6 DEF TopTUAdvance
  <2>1. top'.ctx = NULL
    BY <1>0 DEF TypeOK, HomeInv, TopHolds
  <2>2. ASSUME NEW i \in Slot, NEW x \in ToSet(table[i])
        PROVE  left'[x] = 0 \/ i = (NextIndex + left'[x]) % TableSize
    <3>1. x \in Ctx /\ left[x] \in Slot
      BY <1>0, <2>2 DEF TypeOK, Ring, ToSet
    <3>2. left'[x] = IF left[x] > 0 THEN left[x] - 1 ELSE 0
      BY <3>1
    <3>3. CASE left[x] = 0
      BY <3>2, <3>3
    <3>4. CASE left[x] # 0
      <4>1. i = ResumeIndex(left[x])
        BY <1>i, <3>4 DEF Timely
      <4>2. left'[x] = left[x] - 1
        BY <3>1, <3>2, <3>4 DEF Slot
      <4> QED
        BY <1>0, <3>1, <3>4, <4>1, <4>2, Turns DEF TypeOK
    <3> QED
      BY <3>3, <3>4
  <2> QED
    BY <2>1, <2>2 DEF Timely, Overdue, ResumeIndex, Slot
<1>7. CASE TopTUCheck \/ TopTUTest \/ TopTUNoMemory
  <2>1. UNCHANGED <<table, currentIndex, left>>
    BY <1>7 DEF TopTUCheck, TopTUTest, TopTUNoMemory, tableVars, history
  <2>2. top'.ctx \in {top.ctx, NULL}
    <3>1. CASE TopTUCheck \/ TopTUTest
      BY <1>0, <3>1 DEF TopTUCheck, TopTUTest, TypeOK
    <3>2. CASE TopTUNoMemory
      BY <3>2 DEF TopTUNoMemory
    <3> QED
      BY <1>7, <3>1, <3>2
  <2> QED
    BY <1>1, <2>1, <2>2
<1>8. ASSUME NEW w \in Worker,
             \/ \E c \in Ctx, n \in Slot \ {0} : SetUserToSleepTest(w, c, n)
             \/ SetUserToSleepNoMemory(w) \/ GetUserToResume(w)
      PROVE  Timely' /\ Overdue'
  BY <1>1, <1>3, <1>8
  DEF SetUserToSleepTest, SetUserToSleepNoMemory, GetUserToResume, tableVars, history
<1>9. CASE Close \/ UNCHANGED vars
  BY <1>1, <1>9 DEF Close, vars, tableVars, history
<1> QED
  BY <1>2, <1>4, <1>5, <1>6, <1>7, <1>8, <1>9 DEF Next, TopTU, WorkerStep

(***************************************************************************)
(* What becomes of the sleeping time of a context, told from the ring, the *)
(* hands of tTimerTopTU, the history and the closing alone.                *)
(***************************************************************************)
LEMMA SleepingStays ==
  ASSUME NEW S, \A c \in S : c \in Ctx,
         \A c \in S : /\ c \in lost' <=> c \in lost
                      /\ c \in InTable' \/ c = top'.ctx <=> c \in InTable \/ c = top.ctx
                      /\ left'[c] = left[c],
         UNCHANGED tableClosed
  PROVE  \A c \in S : Sleeping'[c] = Sleeping[c]
<1> SUFFICES ASSUME NEW c \in S PROVE Sleeping'[c] = Sleeping[c]
  OBVIOUS
<1>1. Sleeping[c] = Asleep(c) /\ Sleeping'[c] = Asleep(c)'
  BY DEF Sleeping
<1> QED
  BY <1>1 DEF Asleep

(***************************************************************************)
(* Every step of the ring is a step of TSleep or leaves it as it is.       *)
(***************************************************************************)
LEMMA SleepStep ==
  ASSUME HomeInv, HomeInv', TimelyInv, [Next]_vars
  PROVE  [TSleepBar!Next]_(TSleepBar!vars)
<1>0. /\ TypeOK /\ table \in Ring /\ Linked(table)
      /\ \A w \in Worker : call[w] # NoCall =>
           /\ call[w].ctx \in Ctx
           /\ call[w].ctx \notin InTable \cup lost \cup {top.ctx}
      /\ top.ctx \notin InTable \cup lost
      /\ InTable \cap lost = {}
  BY HomeFacts
<1>f. /\ Sleeping = [c \in Ctx |-> Asleep(c)]
      /\ Sleeping' = [c \in Ctx |-> Asleep(c)']
  BY DEF Sleeping
<1>u. UNCHANGED table => InTable' = InTable
  BY DEF InTable, Slot
<1>q. NULL \notin Ctx
  BY NullAssumption
<1>s. 0 \in Slot /\ Slot = 0 .. TableSize - 1
  BY TableSizeAssumption DEF Slot
<1>1. ASSUME UNCHANGED <<tableClosed, lost, left>>,
             \A c \in Ctx : c \in InTable' \/ c = top'.ctx <=> c \in InTable \/ c = top.ctx
      PROVE  UNCHANGED TSleepBar!vars
  <2>1. \A c \in Ctx : Sleeping'[c] = Sleeping[c]
    BY <1>1, SleepingStays
  <2> QED
    BY <1>f, <1>1, <2>1 DEF TSleepBar!vars
<1>2. ASSUME NEW w \in Worker, SetUserToSleepInsert(w) PROVE TSleepBar!Next
  <2> USE <1>2 DEF SetUserToSleepInsert
  <2>1. PICK c \in Ctx, d \in Slot : c = call[w].ctx /\ d = call[w].delay
    BY <1>0 DEF TypeOK, Call
  <2>2. c \notin InTable \cup lost /\ c # top.ctx /\ ResumeIndex(d) \in Slot
    BY <1>0, <2>1, SlotOfDelay DEF TypeOK
  <2>3. InTable' = InTable \cup {c}
    BY <1>0, <2>1, <2>2, PushStep
  <2>4. left' = [left EXCEPT ![c] = d] /\ UNCHANGED <<top, lost, tableClosed>>
    BY <2>1
  <2>5. Asleep(c) = Awake
    BY <2>2 DEF Asleep
  <2>6. Asleep(c)' = IF tableClosed THEN 0 ELSE d
    BY <1>0, <2>2, <2>3, <2>4 DEF Asleep, TypeOK
  <2>7. \A x \in Ctx \ {c} : Sleeping'[x] = Sleeping[x]
    BY <1>0, <2>3, <2>4, SleepingStays DEF TypeOK
  <2>8. Sleeping' = [Sleeping EXCEPT ![c] = IF tableClosed THEN 0 ELSE d]
    BY <1>f, <2>6, <2>7
  <2>9. TSleepBar!Sleep(c, d)
    BY <1>f, <2>4, <2>5, <2>8 DEF TSleepBar!Sleep
  <2> QED
    BY <1>s, <2>9 DEF TSleepBar!Next
<1>3. ASSUME NEW c \in Ctx, c \notin lost, lost' = lost \cup {c}, MallocFails,
             UNCHANGED <<table, tableClosed, left>>, c \notin InTable, c # top'.ctx,
             \/ c # top.ctx /\ UNCHANGED top
             \/ c = top.ctx /\ top'.ctx = NULL
      PROVE  TSleepBar!Next
  <2>1. Asleep(c) \in {Awake, 0}
    BY <1>3 DEF Asleep, TimelyInv, Overdue, HomeInv, TopHolds, OneHome, TypeOK
  <2>2. Asleep(c)' = Lost
    BY <1>3 DEF Asleep
  <2>3. \A x \in Ctx \ {c} : Sleeping'[x] = Sleeping[x]
    BY <1>q, <1>u, <1>3, SleepingStays
  <2>4. Sleeping' = [Sleeping EXCEPT ![c] = Lost]
    BY <1>f, <2>2, <2>3
  <2>5. TSleepBar!Lose(c)
    BY <1>f, <1>3, <2>1, <2>4 DEF TSleepBar!Lose
  <2> QED
    BY <2>5 DEF TSleepBar!Next
<1>4. ASSUME NEW w \in Worker, SetUserToSleepNoMemory(w) PROVE TSleepBar!Next
  BY <1>0, <1>3, <1>4 DEF SetUserToSleepNoMemory, tableVars
<1>5. CASE TopTUNoMemory
  <2>1. top.ctx \in Ctx /\ top'.ctx = NULL
    BY <1>0, <1>5 DEF TopTUNoMemory, HomeInv, TopHolds, TypeOK
  <2> QED
    BY <1>0, <1>q, <1>3, <1>5, <2>1 DEF TopTUNoMemory, tableVars
<1>6. ASSUME NEW w \in Worker, GetUserToResume(w) PROVE TSleepBar!Next
  <2> USE <1>6 DEF GetUserToResume, history
  <2>1. DueHead \in Ctx /\ DueHead \in InTable /\ InTable' = InTable \ {DueHead}
    BY <1>0, PopStep DEF TypeOK
  <2>2. PICK x \in Ctx : x = DueHead
    BY <2>1
  <2>3. Asleep(x) = 0
    BY <1>0, <2>1, <2>2, HeadDue DEF Asleep
  <2>4. Asleep(x)' = Awake
    BY <1>0, <2>1, <2>2 DEF Asleep
  <2>5. \A y \in Ctx \ {x} : Sleeping'[y] = Sleeping[y]
    BY <2>1, <2>2, SleepingStays
  <2>6. Sleeping' = [Sleeping EXCEPT ![x] = Awake]
    BY <1>f, <2>4, <2>5
  <2>7. TSleepBar!Resume(x)
    BY <1>f, <2>3, <2>6 DEF TSleepBar!Resume
  <2> QED
    BY <2>7 DEF TSleepBar!Next
<1>7. CASE TopTUPop
  <2>1. CASE table[currentIndex] = <<>>
    BY <1>0, <1>u, <1>1, <1>7, <2>1 DEF TopTUPop, TypeOK, history
  <2>2. CASE table[currentIndex] # <<>>
    <3>1. DueHead \in InTable /\ InTable' = InTable \ {DueHead}
      BY <1>0, <1>7, <2>2, PopStep DEF TopTUPop, TypeOK
    <3>2. top'.ctx = DueHead /\ top.ctx = NULL
      BY <1>0, <1>7, <2>2 DEF TopTUPop, TypeOK, HomeInv, TopHolds
    <3> QED
      BY <1>q, <1>1, <1>7, <3>1, <3>2 DEF TopTUPop, history
  <2> QED
    BY <2>1, <2>2
<1>8. CASE TopTUPush
  <2>1. top.ctx \in Ctx /\ top.ctx \notin InTable /\ top.delay \in Slot
    BY <1>0, <1>8 DEF TypeOK, HomeInv, TopHolds, TopTUPush
  <2>2. ResumeIndex(top.delay) \in Slot
    BY <1>0, <2>1, SlotOfDelay DEF TypeOK
  <2>3. InTable' = InTable \cup {top.ctx}
    BY <1>0, <1>8, <2>1, <2>2, PushStep DEF TopTUPush
  <2>4. top'.ctx = NULL
    BY <1>8 DEF TopTUPush
  <2> QED
    BY <1>q, <1>1, <1>8, <2>3, <2>4 DEF TopTUPush
<1>9. CASE TopTUAdvance
  <2> USE <1>9 DEF TopTUAdvance
  <2>1. top.ctx = NULL /\ top'.ctx = NULL
    BY <1>0 DEF TypeOK, HomeInv, TopHolds
  <2>2. CASE tableClosed
    <3>1. \A c \in Ctx : Asleep(c)' = Asleep(c)
      BY <1>u, <2>1, <2>2 DEF Asleep
    <3> QED
      BY <1>f, <3>1 DEF TSleepBar!vars
  <2>3. CASE ~tableClosed
    <3>1. ASSUME NEW c \in Ctx
          PROVE  Asleep(c)' = IF Asleep(c) \in 1 .. TableSize - 1 THEN Asleep(c) - 1
                              ELSE Asleep(c)
      <4>1. left[c] \in Slot /\ left'[c] = IF left[c] > 0 THEN left[c] - 1 ELSE 0
        BY <1>0 DEF TypeOK
      <4>2. left'[c] = IF left[c] \in 1 .. TableSize - 1 THEN left[c] - 1 ELSE left[c]
        BY <1>s, <4>1
      <4>3. Awake \notin 1 .. TableSize - 1 /\ Lost \notin 1 .. TableSize - 1
        BY <1>s, MarksAssumption
      <4>4. CASE c \in lost
        BY <4>3, <4>4 DEF Asleep
      <4>5. CASE c \notin lost /\ c \notin InTable
        BY <1>q, <1>u, <2>1, <4>3, <4>5 DEF Asleep
      <4>6. CASE c \notin lost /\ c \in InTable
        BY <1>u, <2>3, <4>2, <4>6 DEF Asleep
      <4> QED
        BY <4>4, <4>5, <4>6
    <3>2. TSleepBar!Tick
      BY <1>f, <2>3, <3>1 DEF TSleepBar!Tick
    <3> QED
      BY <3>2 DEF TSleepBar!Next
  <2> QED
    BY <2>2, <2>3
<1>10. CASE Close
  <2>1. InTable' = InTable
    BY <1>0, <1>10, CloseStep
  <2>2. ~tableClosed /\ tableClosed' = TRUE /\ UNCHANGED <<top, left, lost>>
    BY <1>10 DEF Close
  <2>3. ASSUME NEW c \in Ctx
        PROVE  Asleep(c)' = IF Asleep(c) \in 0 .. TableSize - 1 THEN 0 ELSE Asleep(c)
    <3>1. left[c] \in 0 .. TableSize - 1
      BY <1>0, <1>s DEF TypeOK
    <3>2. Awake \notin 0 .. TableSize - 1 /\ Lost \notin 0 .. TableSize - 1
      BY <1>s, MarksAssumption
    <3> QED
      BY <2>1, <2>2, <3>1, <3>2 DEF Asleep
  <2>4. TSleepBar!Close
    BY <1>f, <2>2, <2>3 DEF TSleepBar!Close
  <2> QED
    BY <2>4 DEF TSleepBar!Next
<1>11. CASE TopTUCheck \/ TopTUTest
  <2>1. UNCHANGED <<table, tableClosed, lost, left>>
    BY <1>11 DEF TopTUCheck, TopTUTest, tableVars, history
  <2>2. top'.ctx = top.ctx
    BY <1>0, <1>11 DEF TopTUCheck, TopTUTest, TypeOK
  <2> QED
    BY <1>u, <1>1, <2>1, <2>2
<1>12. ASSUME NEW w \in Worker, NEW c \in Ctx, NEW n \in Slot \ {0},
              SetUserToSleepTest(w, c, n)
       PROVE  UNCHANGED TSleepBar!vars
  BY <1>u, <1>1, <1>12 DEF SetUserToSleepTest, tableVars, history
<1>13. CASE UNCHANGED vars
  BY <1>u, <1>1, <1>13 DEF vars, tableVars, history
<1> QED
  BY <1>2, <1>4, <1>5, <1>6, <1>7, <1>8, <1>9, <1>10, <1>11, <1>12, <1>13
  DEF Next, TopTU, WorkerStep

(***************************************************************************)
(* The ring implements TSleep for every number of contexts and workers and *)
(* every size of the table, with or without failures of malloc: a context  *)
(* becomes due after the time units it was put to sleep for, is resumed    *)
(* only then and once, and tTimerClose makes every sleeper due.            *)
(***************************************************************************)
THEOREM RingImplementsTSleep == Spec => ImplementsTSleep
<1> DEFINE Inv == HomeInv /\ TimelyInv
<1>1. Init => Inv /\ TSleepBar!Init
  <2> SUFFICES ASSUME Init PROVE TimelyInv /\ TSleepBar!Init
    BY HomeInit
  <2>1. \A i \in Slot : ToSet(table[i]) = {}
    BY DEF Init, ToSet
  <2>2. InTable = {}
    BY <2>1 DEF InTable
  <2>3. \A c \in Ctx : Asleep(c) = Awake
    BY <2>2, NullAssumption DEF Init, Asleep
  <2> QED
    BY <2>1, <2>3 DEF Init, TimelyInv, Timely, Overdue, TSleepBar!Init, Sleeping
<1>2. Inv /\ [Next]_vars => Inv'
  BY HomeStep, TimelyStep
<1>3. Inv /\ Inv' /\ [Next]_vars => [TSleepBar!Next]_(TSleepBar!vars)
  BY SleepStep
<1> QED
  BY <1>1, <1>2, <1>3, PTL DEF Spec, ImplementsTSleep, TSleepBar!Spec
=============================================================================
