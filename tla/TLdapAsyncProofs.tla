-------------------------- MODULE TLdapAsyncProofs --------------------------
(***************************************************************************)
(* Theorems about the asynchronous search (TLdapAsync), for any number of  *)
(* workers, connections, contexts and messages.                            *)
(***************************************************************************)
EXTENDS TLdapAsync, SequenceTheorems, WellFoundedInduction, TLAPS

-----------------------------------------------------------------------------
(***************************************************************************)
(* The state, whatever has gone wrong: the lists are lists, and a worker   *)
(* has a context where it needs one and nowhere else.                      *)
(***************************************************************************)
Sending == {"sleep", "build", "send", "insert"}
Holding == Sending \cup {"answer", "timeout"}

LocalInv ==
  /\ TypeOK
  /\ ldReq \in [Ld -> Seq(Element)] /\ ldResp \in [Ld -> Seq(Element)]
  /\ \A w \in Worker : /\ pc[w].at \in Holding <=> pc[w].ctx # NULL
                       /\ pc[w].at = "insert" => pc[w].id # NULL

(***************************************************************************)
(* Who holds a context.                                                    *)
(***************************************************************************)
Has(w, c, places) == pc[w].at \in places /\ pc[w].ctx = c
Waits(l, c) == c \in Contexts(ldReq[l])
Answered(l, c) == c \in Contexts(ldResp[l])

Once(list) == \A i, j \in DOMAIN list : list[i].ctx = list[j].ctx => i = j
OnceId(list) == \A i, j \in DOMAIN list : list[i].id = list[j].id => i = j

(***************************************************************************)
(* A context, as long as nothing has gone wrong: its req pointer and its   *)
(* life say who holds it, and one holder knows of no other, except for the *)
(* timer and, while it is treated as timed out, the list.                  *)
(***************************************************************************)
Known(c) ==
  /\ life[c] # "failed" /\ resumed[c] <= 1
  /\ asleep[c] \in 0 .. tcLdapTimeout => c \in alloc
  /\ c \notin alloc => asleep[c] = Awake
  /\ c \in alloc /\ life[c] = "treated" => req[c] = "NULL"
  /\ c \in alloc /\ life[c] # "treated" => resumed[c] = 0

OfWorker(w, c) ==
  /\ Has(w, c, Holding) => c \in alloc
  /\ Has(w, c, Sending) => life[c] = "unsent"
  /\ Has(w, c, {"send", "insert"}) => req[c] = "set"
  /\ Has(w, c, {"answer"}) => life[c] = "answered" /\ req[c] = "set"
  /\ Has(w, c, {"timeout"}) => /\ req[c] = "NULL" /\ asleep[c] = Awake
                               /\ Waits(tLdap_getLdId(w), c)

OfList(l, c) ==
  /\ Waits(l, c) => /\ c \in alloc /\ life[c] = "waiting"
                    /\ \/ req[c] = "set"
                       \/ \E w \in Worker : Has(w, c, {"timeout"})
  /\ Answered(l, c) => /\ c \in alloc /\ life[c] = "answered" /\ req[c] = "set"
                       /\ \A w \in Worker : ~Has(w, c, {"answer"})

OneHolder(c) ==
  /\ \A w, v \in Worker : Has(w, c, Holding) /\ Has(v, c, Holding) => w = v
  /\ \A l, k \in Ld : /\ Waits(l, c) /\ Waits(k, c) => l = k
                      /\ Answered(l, c) /\ Answered(k, c) => l = k

CtxInv(c) ==
  /\ Known(c) /\ OneHolder(c)
  /\ \A w \in Worker : OfWorker(w, c)
  /\ \A l \in Ld : OfList(l, c)

Safe ==
  /\ \A l \in Ld : Once(ldReq[l]) /\ Once(ldResp[l])
  /\ \A c \in Ctx : CtxInv(c)

SafeInv == mishap = "none" => Safe

(***************************************************************************)
(* The messages of a connection: the answer to what waits, or is about to  *)
(* wait, is to come, and no two of them have the same identifier.          *)
(***************************************************************************)
Inserts(w, l) == pc[w].at = "insert" /\ tLdap_getLdId(w) = l

OneInserts(l) == \A w, v \in Worker : Inserts(w, l) /\ Inserts(v, l) => w = v

MsgOf(l) ==
  /\ OnceId(ldReq[l])
  /\ Ids(ldReq[l]) \subseteq server[l] \cup {received[l]}
  /\ \A w \in Worker : Inserts(w, l) => /\ pc[w].id \in server[l] \cup {received[l]}
                                       /\ pc[w].id \notin Ids(ldReq[l])

MsgInv ==
  /\ \A l \in Ld : OneInserts(l)
  /\ mishap = "none" => \A l \in Ld : MsgOf(l)

-----------------------------------------------------------------------------
(***************************************************************************)
(* The lists.  First finds one of the places, if there is any.             *)
(***************************************************************************)
LEMMA FirstIn ==
  ASSUME NEW S, S \subseteq Nat, S # {}
  PROVE  First(S) \in S
<1> DEFINE R == OpToRel(<, Nat)
<1>1. IsWellFoundedOn(R, Nat)
  BY NatLessThanWellFounded, Zenon
<1>2. PICK x \in S : \A y \in S : ~(<<y, x>> \in R)
  <2> HIDE DEF R
  <2> QED
    BY <1>1, WFMin
<1>3. \A y \in S : x <= y
  <2> SUFFICES ASSUME NEW y \in S, y < x PROVE FALSE
    OBVIOUS
  <2>1. <<y, x>> \in R
    BY DEF OpToRel
  <2> QED
    BY <1>2, <2>1, Zenon
<1> QED
  BY <1>3, Zenon DEF First

(* The place of a context in a list.                                       *)
LEMMA FindCtx ==
  ASSUME NEW s \in Seq(Element), NEW c,
         NEW i, i = First({j \in 1 .. Len(s) : s[j].ctx = c})
  PROVE  /\ i = 0 => c \notin Contexts(s)
         /\ i # 0 => i \in DOMAIN s /\ s[i].ctx = c
<1> DEFINE I == {j \in 1 .. Len(s) : s[j].ctx = c}
<1>1. DOMAIN s = 1 .. Len(s) /\ Len(s) \in Nat
  BY LenProperties
<1>2. 0 \notin I /\ I \subseteq Nat
  BY <1>1
<1>3. IF I # {} THEN i \in I ELSE i = 0
  <2> HIDE DEF I
  <2>1. i = First(I)
    BY Zenon DEF I
  <2> QED
    BY <1>2, <2>1, FirstIn, Zenon DEF First
<1> QED
  BY <1>1, <1>2, <1>3, Zenon DEF Contexts

(* The place of a message in a list.                                       *)
LEMMA FindId ==
  ASSUME NEW s \in Seq(Element), NEW m,
         NEW i, i = First({j \in 1 .. Len(s) : s[j].id = m})
  PROVE  /\ i = 0 => m \notin Ids(s)
         /\ i # 0 => i \in DOMAIN s /\ s[i].id = m
<1> DEFINE I == {j \in 1 .. Len(s) : s[j].id = m}
<1>1. DOMAIN s = 1 .. Len(s) /\ Len(s) \in Nat
  BY LenProperties
<1>2. 0 \notin I /\ I \subseteq Nat
  BY <1>1
<1>3. IF I # {} THEN i \in I ELSE i = 0
  <2> HIDE DEF I
  <2>1. i = First(I)
    BY Zenon DEF I
  <2> QED
    BY <1>2, <2>1, FirstIn, Zenon DEF First
<1> QED
  BY <1>1, <1>2, <1>3, Zenon DEF Ids

(* t is s without its i-th element.                                        *)
Shorter(s, i, t) ==
  /\ t \in Seq(Element) /\ t # s
  /\ \A j \in DOMAIN t : \E k \in DOMAIN s \ {i} : t[j] = s[k]
  /\ \A k \in DOMAIN s \ {i} : \E j \in DOMAIN t : t[j] = s[k]
  /\ \A j, k \in DOMAIN t : \E a, b \in DOMAIN s :
       t[j] = s[a] /\ t[k] = s[b] /\ (a = b <=> j = k)

(* RemoveAt makes a list shorter by that element.                          *)
LEMMA Removed ==
  ASSUME NEW s \in Seq(Element), NEW i \in DOMAIN s, NEW t, t = RemoveAt(s, i)
  PROVE  Shorter(s, i, t)
<1> DEFINE n == Len(s)
           p == SubSeq(s, 1, i - 1)
           q == SubSeq(s, i + 1, n)
<1>1. n \in Nat /\ DOMAIN s = 1 .. n /\ i \in 1 .. n /\ \A j \in 1 .. n : s[j] \in Element
  BY LenProperties, ElementOfSeq
<1>2. /\ p \in Seq(Element) /\ Len(p) = i - 1 /\ \A j \in 1 .. i - 1 : p[j] = s[j]
  BY <1>1, SubSeqProperties
<1>3. /\ q \in Seq(Element) /\ Len(q) = n - i /\ \A j \in 1 .. n - i : q[j] = s[i + j]
  BY <1>1, SubSeqProperties
<1>4. t = p \o q
  BY Zenon DEF RemoveAt
<1> HIDE DEF n, p, q
<1>5. /\ t \in Seq(Element) /\ Len(t) = Len(p) + Len(q)
      /\ \A j \in 1 .. Len(p) + Len(q) : t[j] = IF j <= Len(p) THEN p[j] ELSE q[j - Len(p)]
  BY <1>2, <1>3, <1>4, ConcatProperties
<1>6. /\ DOMAIN t = 1 .. n - 1 /\ Len(t) = n - 1
      /\ \A j \in 1 .. n - 1 : t[j] = s[IF j < i THEN j ELSE j + 1]
  <2>1. Len(p) + Len(q) = n - 1 /\ Len(p) = i - 1
    BY <1>1, <1>2, <1>3
  <2>2. DOMAIN t = 1 .. n - 1 /\ Len(t) = n - 1
    BY <1>5, <2>1, LenProperties
  <2>3. ASSUME NEW j \in 1 .. n - 1 PROVE t[j] = s[IF j < i THEN j ELSE j + 1]
    <3>1. t[j] = IF j <= i - 1 THEN p[j] ELSE q[j - (i - 1)]
      BY <1>5, <2>1
    <3>2. CASE j < i
      BY <1>1, <1>2, <3>1, <3>2
    <3>3. CASE ~(j < i)
      <4>1. j - (i - 1) \in 1 .. n - i /\ i + (j - (i - 1)) = j + 1 /\ ~(j <= i - 1)
        BY <1>1, <3>3
      <4> QED
        BY <1>3, <3>1, <3>3, <4>1
    <3> QED
      BY <3>2, <3>3, Zenon
  <2> QED
    BY <2>2, <2>3, Zenon
<1>7. t # s
  BY <1>1, <1>6 DEF n
<1>8. \A j \in DOMAIN t : \E k \in DOMAIN s \ {i} : t[j] = s[k]
  <2> SUFFICES ASSUME NEW j \in DOMAIN t PROVE \E k \in DOMAIN s \ {i} : t[j] = s[k]
    BY Zenon
  <2>1. (IF j < i THEN j ELSE j + 1) \in DOMAIN s \ {i}
    BY <1>1, <1>6
  <2> QED
    BY <1>6, <2>1, Zenon
<1>9. \A k \in DOMAIN s \ {i} : \E j \in DOMAIN t : t[j] = s[k]
  <2> SUFFICES ASSUME NEW k \in DOMAIN s \ {i} PROVE \E j \in DOMAIN t : t[j] = s[k]
    BY Zenon
  <2>1. PICK j \in 1 .. n - 1 : k = IF j < i THEN j ELSE j + 1
    <3>1. CASE k < i
      BY <1>1, <3>1
    <3>2. CASE k > i
      <4>1. k - 1 \in 1 .. n - 1 /\ k = IF k - 1 < i THEN k - 1 ELSE (k - 1) + 1
        BY <1>1, <3>2
      <4> QED
        BY <4>1, Zenon
    <3> QED
      BY <1>1, <3>1, <3>2
  <2> QED
    BY <1>6, <2>1, Zenon
<1>10. \A j, k \in DOMAIN t : \E a, b \in DOMAIN s :
         t[j] = s[a] /\ t[k] = s[b] /\ (a = b <=> j = k)
  <2> SUFFICES ASSUME NEW j \in DOMAIN t, NEW k \in DOMAIN t
               PROVE  \E a, b \in DOMAIN s :
                        t[j] = s[a] /\ t[k] = s[b] /\ (a = b <=> j = k)
    BY Zenon
  <2> DEFINE a == IF j < i THEN j ELSE j + 1
             b == IF k < i THEN k ELSE k + 1
  <2>1. a \in DOMAIN s /\ b \in DOMAIN s /\ (a = b <=> j = k)
    BY <1>1, <1>6
  <2>2. t[j] = s[a] /\ t[k] = s[b]
    BY <1>6, Zenon
  <2> HIDE DEF a, b
  <2> QED
    BY <2>1, <2>2, Zenon
<1> QED
  BY <1>5, <1>7, <1>8, <1>9, <1>10, Zenon DEF Shorter


(* The contexts and the messages of a list without one of its elements.    *)
LEMMA ShorterSets ==
  ASSUME NEW s \in Seq(Element), NEW i \in DOMAIN s, NEW t, Shorter(s, i, t)
  PROVE  /\ t \in Seq(Element) /\ t # s
         /\ s[i] \in Element /\ s[i].ctx \in Contexts(s) /\ s[i].id \in Ids(s)
         /\ Ids(t) \subseteq Ids(s)
         /\ Once(s) => Once(t) /\ Contexts(t) = Contexts(s) \ {s[i].ctx}
         /\ OnceId(s) => OnceId(t) /\ s[i].id \notin Ids(t)
<1>2. s[i] \in Element /\ s[i].ctx \in Contexts(s) /\ s[i].id \in Ids(s)
  <2>1. s[i] \in Element
    BY LenProperties, ElementOfSeq, Zenon
  <2> QED
    BY <2>1, Zenon DEF Contexts, Ids
<1>3. Ids(t) \subseteq Ids(s)
  <2> SUFFICES ASSUME NEW j \in DOMAIN t PROVE t[j].id \in Ids(s)
    BY Zenon DEF Ids
  <2>1. PICK k \in DOMAIN s \ {i} : t[j] = s[k]
    BY Zenon DEF Shorter
  <2> QED
    BY <2>1, Zenon DEF Ids
<1>4. ASSUME Once(s) PROVE Once(t) /\ Contexts(t) = Contexts(s) \ {s[i].ctx}
  <2>1. Once(t)
    <3> SUFFICES ASSUME NEW j \in DOMAIN t, NEW k \in DOMAIN t, t[j].ctx = t[k].ctx
                 PROVE  j = k
      BY Zenon DEF Once
    <3>1. PICK a \in DOMAIN s, b \in DOMAIN s :
            t[j] = s[a] /\ t[k] = s[b] /\ (a = b <=> j = k)
      BY Zenon DEF Shorter
    <3> QED
      BY <1>4, <3>1, Zenon DEF Once
  <2>2. Contexts(t) \subseteq Contexts(s) \ {s[i].ctx}
    <3> SUFFICES ASSUME NEW j \in DOMAIN t PROVE t[j].ctx \in Contexts(s) \ {s[i].ctx}
      BY Zenon DEF Contexts
    <3>1. PICK k \in DOMAIN s \ {i} : t[j] = s[k]
      BY Zenon DEF Shorter
    <3> QED
      BY <1>4, <3>1, Zenon DEF Contexts, Once
  <2>3. Contexts(s) \ {s[i].ctx} \subseteq Contexts(t)
    <3> SUFFICES ASSUME NEW k \in DOMAIN s, s[k].ctx # s[i].ctx PROVE s[k].ctx \in Contexts(t)
      BY Zenon DEF Contexts
    <3>1. k \in DOMAIN s \ {i}
      BY Zenon
    <3>2. PICK j \in DOMAIN t : t[j] = s[k]
      BY <3>1, Zenon DEF Shorter
    <3> QED
      BY <3>2, Zenon DEF Contexts
  <2> QED
    BY <2>1, <2>2, <2>3, Zenon
<1>5. ASSUME OnceId(s) PROVE OnceId(t) /\ s[i].id \notin Ids(t)
  <2>1. OnceId(t)
    <3> SUFFICES ASSUME NEW j \in DOMAIN t, NEW k \in DOMAIN t, t[j].id = t[k].id
                 PROVE  j = k
      BY Zenon DEF OnceId
    <3>1. PICK a \in DOMAIN s, b \in DOMAIN s :
            t[j] = s[a] /\ t[k] = s[b] /\ (a = b <=> j = k)
      BY Zenon DEF Shorter
    <3> QED
      BY <1>5, <3>1, Zenon DEF OnceId
  <2>2. s[i].id \notin Ids(t)
    <3> SUFFICES ASSUME NEW j \in DOMAIN t PROVE t[j].id # s[i].id
      BY Zenon DEF Ids
    <3>1. PICK k \in DOMAIN s \ {i} : t[j] = s[k]
      BY Zenon DEF Shorter
    <3> QED
      BY <1>5, <3>1, Zenon DEF OnceId
  <2> QED
    BY <2>1, <2>2, Zenon
<1> QED
  BY <1>2, <1>3, <1>4, <1>5, Zenon DEF Shorter

(* A list without its first element.                                       *)
LEMMA TailSets ==
  ASSUME NEW s \in Seq(Element), s # <<>>
  PROVE  /\ Tail(s) \in Seq(Element)
         /\ Head(s) \in Element /\ Head(s).ctx \in Contexts(s)
         /\ Once(s) => Once(Tail(s)) /\ Contexts(Tail(s)) = Contexts(s) \ {Head(s).ctx}
<1>1. 1 \in DOMAIN s /\ Len(s) \in Nat \ {0} /\ \A j \in 1 .. Len(s) : s[j] \in Element
  BY EmptySeq, LenProperties, ElementOfSeq
<1>2. Head(s) = s[1]
  BY <1>1, HeadTailProperties
<1>3. Tail(s) = RemoveAt(s, 1)
  <2>1. Tail(s) = SubSeq(s, 2, Len(s)) /\ Tail(s) \in Seq(Element)
    BY TailIsSubSeq, HeadTailProperties
  <2>2. SubSeq(s, 1, 1 - 1) = <<>>
    BY SubSeqEmpty
  <2>3. <<>> \o Tail(s) = Tail(s)
    BY <2>1, ConcatEmptySeq
  <2>4. 1 + 1 = 2
    OBVIOUS
  <2> QED
    BY <2>1, <2>2, <2>3, <2>4, Zenon DEF RemoveAt
<1>4. LET t == Tail(s) IN
      /\ t \in Seq(Element) /\ s[1] \in Element /\ s[1].ctx \in Contexts(s)
      /\ Once(s) => Once(t) /\ Contexts(t) = Contexts(s) \ {s[1].ctx}
  BY <1>1, <1>3, Removed, ShorterSets, Zenon
<1> QED
  BY <1>2, <1>4, Zenon

(* t is s with the element e in a new place k.                             *)
Longer(s, e, k, t) ==
  /\ k \notin DOMAIN s /\ DOMAIN t = DOMAIN s \cup {k}
  /\ (\A j \in DOMAIN s : t[j] = s[j]) /\ t[k] = e

(* The contexts and the messages of a list with one more element.          *)
LEMMA LongerSets ==
  ASSUME NEW s, NEW t, NEW e, NEW k, Longer(s, e, k, t)
  PROVE  /\ Contexts(t) = Contexts(s) \cup {e.ctx} /\ Ids(t) = Ids(s) \cup {e.id}
         /\ Once(s) /\ e.ctx \notin Contexts(s) => Once(t)
         /\ OnceId(s) /\ e.id \notin Ids(s) => OnceId(t)
<1>1. Contexts(t) = Contexts(s) \cup {e.ctx}
  BY Zenon DEF Longer, Contexts
<1>2. Ids(t) = Ids(s) \cup {e.id}
  BY Zenon DEF Longer, Ids
<1>3. Once(s) /\ e.ctx \notin Contexts(s) => Once(t)
  BY Zenon DEF Longer, Once, Contexts
<1>4. OnceId(s) /\ e.id \notin Ids(s) => OnceId(t)
  BY Zenon DEF Longer, OnceId, Ids
<1> QED
  BY <1>1, <1>2, <1>3, <1>4, Zenon

(* A list with one more element.                                           *)
LEMMA AppendedSets ==
  ASSUME NEW s \in Seq(Element), NEW e \in Element, NEW t, t = Append(s, e)
  PROVE  /\ t \in Seq(Element)
         /\ Contexts(t) = Contexts(s) \cup {e.ctx} /\ Ids(t) = Ids(s) \cup {e.id}
         /\ Once(s) /\ e.ctx \notin Contexts(s) => Once(t)
         /\ OnceId(s) /\ e.id \notin Ids(s) => OnceId(t)
<1> DEFINE n == Len(s)
<1>1. /\ n \in Nat /\ DOMAIN s = 1 .. n
      /\ t \in Seq(Element) /\ Len(t) = n + 1 /\ DOMAIN t = 1 .. Len(t)
      /\ \A j \in 1 .. n : t[j] = s[j]
      /\ t[n + 1] = e
  BY AppendProperties, LenProperties
<1> HIDE DEF n
<1>2. PICK k : k = n + 1
  BY Zenon
<1>3. Longer(s, e, k, t)
  BY <1>1, <1>2 DEF Longer
<1> QED
  BY <1>1, <1>3, LongerSets

(* The empty list.                                                         *)
LEMMA EmptySets ==
  /\ <<>> \in Seq(Element) /\ Contexts(<<>>) = {} /\ Ids(<<>>) = {}
  /\ Once(<<>>) /\ OnceId(<<>>)
<1>1. <<>> \in Seq(Element) /\ DOMAIN <<>> = {}
  BY EmptySeq
<1> QED
  BY <1>1, Zenon DEF Contexts, Ids, Once, OnceId


-----------------------------------------------------------------------------
(***************************************************************************)
(* Where a step leaves a worker.                                           *)
(***************************************************************************)
Local == [at : Places, ctx : Ctx \cup {NULL}, id : Msg \cup {NULL}]
Rec(p, c, m) == [at |-> p, ctx |-> c, id |-> m]

Moves(w, p, c, m) ==
  /\ pc' \in [Worker -> Local]
  /\ \A v \in Worker \ {w} : pc'[v] = pc[v]
  /\ pc'[w].at = p /\ pc'[w].ctx = c /\ pc'[w].id = m

(* A worker's variables have the values they were given.                   *)
LEMMA RecFields ==
  ASSUME NEW p \in Places, NEW c \in Ctx \cup {NULL}, NEW m \in Msg \cup {NULL}
  PROVE  /\ Rec(p, c, m) \in Local
         /\ Rec(p, c, m).at = p /\ Rec(p, c, m).ctx = c /\ Rec(p, c, m).id = m
  BY Zenon DEF Rec, Local

(* They are all there is to a worker.                                      *)
LEMMA RecEta ==
  ASSUME NEW r \in Local
  PROVE  /\ r = Rec(r.at, r.ctx, r.id)
         /\ r.at \in Places /\ r.ctx \in Ctx \cup {NULL} /\ r.id \in Msg \cup {NULL}
  BY Zenon DEF Rec, Local

(* A step that gives a worker new values.                                  *)
LEMMA Placed ==
  ASSUME pc \in [Worker -> Local], NEW w \in Worker,
         NEW p \in Places, NEW c \in Ctx \cup {NULL}, NEW m \in Msg \cup {NULL},
         pc' = [pc EXCEPT ![w] = Rec(p, c, m)]
  PROVE  Moves(w, p, c, m)
<1>1. PICK r \in Local : r = Rec(p, c, m) /\ r.at = p /\ r.ctx = c /\ r.id = m
  BY RecFields
<1>2. pc' = [pc EXCEPT ![w] = r]
  BY <1>1, Zenon
<1>3. pc' \in [Worker -> Local] /\ (\A v \in Worker \ {w} : pc'[v] = pc[v]) /\ pc'[w] = r
  BY <1>2, Zenon
<1> QED
  BY <1>1, <1>3, Zenon DEF Moves

(* Goto.                                                                   *)
LEMMA GotoMoves ==
  ASSUME pc \in [Worker -> Local], NEW w \in Worker, NEW p \in Places, Goto(w, p)
  PROVE  Moves(w, p, pc[w].ctx, pc[w].id)
<1>1. PICK r \in Local : r = pc[w]
  BY Zenon
<1>2. PICK q : q = [r EXCEPT !.at = p]
  BY Zenon
<1>3. q = Rec(p, r.ctx, r.id)
  BY <1>2, Zenon DEF Local, Rec
<1>4. pc' = [pc EXCEPT ![w] = q]
  BY <1>1, <1>2, Zenon DEF Goto
<1>5. r.ctx \in Ctx \cup {NULL} /\ r.id \in Msg \cup {NULL}
  BY RecEta, Zenon
<1> QED
  BY <1>1, <1>3, <1>4, <1>5, Placed, Zenon

(* The send: the worker notes the message.                                 *)
LEMMA SendMoves ==
  ASSUME pc \in [Worker -> Local], NEW w \in Worker, NEW m \in Msg,
         pc' = [pc EXCEPT ![w].at = "insert", ![w].id = m]
  PROVE  Moves(w, "insert", pc[w].ctx, m)
<1>1. PICK r \in Local : r = pc[w]
  BY Zenon
<1>2. PICK q : q = [r EXCEPT !.at = "insert", !.id = m]
  BY Zenon
<1>3. q = Rec("insert", r.ctx, m)
  BY <1>2, Zenon DEF Local, Rec
<1>4. pc' = [pc EXCEPT ![w] = q]
  BY <1>1, <1>2
<1>5. r.ctx \in Ctx \cup {NULL} /\ m \in Msg \cup {NULL} /\ "insert" \in Places
  BY RecEta, Zenon DEF Places
<1> QED
  BY <1>1, <1>3, <1>4, <1>5, Placed, Zenon

(* Leave.                                                                  *)
LEMMA LeaveMoves ==
  ASSUME pc \in [Worker -> Local], NEW w \in Worker, NEW p \in Places, Leave(w, p)
  PROVE  Moves(w, p, NULL, NULL)
<1>1. pc' = [pc EXCEPT ![w] = Rec(p, NULL, NULL)]
  BY Zenon DEF Leave, At, Rec
<1> QED
  BY <1>1, Placed, Zenon

(* A worker takes a context.                                               *)
LEMMA TakeMoves ==
  ASSUME pc \in [Worker -> Local], NEW w \in Worker, NEW p \in Places, NEW c \in Ctx,
         pc' = [pc EXCEPT ![w] = [At(p) EXCEPT !.ctx = c]]
  PROVE  Moves(w, p, c, NULL)
<1>1. PICK q : q = [At(p) EXCEPT !.ctx = c]
  BY Zenon
<1>2. q = Rec(p, c, NULL)
  BY <1>1, Zenon DEF At, Rec
<1>3. pc' = [pc EXCEPT ![w] = Rec(p, c, NULL)]
  BY <1>1, <1>2, Zenon
<1> QED
  BY <1>3, Placed, Zenon

-----------------------------------------------------------------------------
(***************************************************************************)
(* LocalInv, one group of variables at a time.                             *)
(***************************************************************************)
TypeTimer ==
  asleep \in [Ctx -> 0 .. tcLdapTimeout \cup {Awake, Lost}] /\ closed \in BOOLEAN
TypeMem ==
  /\ alloc \subseteq Ctx /\ req \in [Ctx -> {"garbage", "NULL", "set"}]
  /\ searches \in 0 .. MaxSearches
TypeLists == ldReq \in [Ld -> Seq(Element)] /\ ldResp \in [Ld -> Seq(Element)]
TypeNet ==
  /\ server \in [Ld -> SUBSET Msg] /\ received \in [Ld -> Msg \cup {NULL}]
  /\ restarts \in 0 .. MaxRestarts
Place(r) == (r.at \in Holding <=> r.ctx # NULL) /\ (r.at = "insert" => r.id # NULL)
TypePc == pc \in [Worker -> Local] /\ \A w \in Worker : Place(pc[w])
TypeHist ==
  /\ life \in [Ctx -> {"unsent", "waiting", "answered", "treated", "failed"}]
  /\ resumed \in [Ctx -> 0 .. 2] /\ mishap \in Mishaps

(* The groups make LocalInv.                                               *)
LEMMA LocalParts ==
  LocalInv <=> /\ TypeTimer /\ TypeMem /\ TypeLists /\ TypeNet /\ TypePc /\ TypeHist
  BY Zenon DEF LocalInv, TypeOK, TypeTimer, TypeMem, TypeLists, TypeNet, TypePc, TypeHist,
               Place, Local

(* They still do after the step.                                           *)
LEMMA LocalPartsNext ==
  ASSUME TypeTimer', TypeMem', TypeLists', TypeNet', TypePc', TypeHist'
  PROVE  LocalInv'
  BY Zenon DEF LocalInv, TypeOK, TypeTimer, TypeMem, TypeLists, TypeNet, TypePc, TypeHist,
               Place, Local

(* A worker that moves has a context where it needs one.                   *)
LEMMA MovesPc ==
  ASSUME TypePc, NEW w \in Worker, NEW p, NEW c, NEW m, Moves(w, p, c, m),
         p \in Holding <=> c # NULL, p = "insert" => m # NULL
  PROVE  TypePc'
<1>1. Place(pc'[w])
  BY Zenon DEF Moves, Place
<1>2. \A v \in Worker \ {w} : Place(pc'[v])
  BY Zenon DEF Moves, TypePc
<1> QED
  BY <1>1, <1>2, Zenon DEF TypePc, Moves

(* The connection of a worker.                                             *)
LEMMA LdOfWorker ==
  ASSUME NEW w \in Worker
  PROVE  tLdap_getLdId(w) \in Ld
  BY SizeAssumption DEF tLdap_getLdId, Worker, Ld


(* GoesOn counts to two.                                                   *)
LEMMA GoesOnType ==
  ASSUME TypeHist, NEW c, GoesOn(c)
  PROVE  /\ resumed' \in [Ctx -> 0 .. 2]
         /\ \A d \in Ctx : resumed'[d] =
              IF d = c THEN IF resumed[d] < 2 THEN resumed[d] + 1 ELSE 2 ELSE resumed[d]
<1>1. \A d \in Ctx : resumed[d] \in 0 .. 2
  BY Zenon DEF TypeHist
<1>2. \A n \in 0 .. 2 : (IF n < 2 THEN n + 1 ELSE 2) \in 0 .. 2
  OBVIOUS
<1>3. resumed' = [d \in Ctx |-> IF d = c THEN IF resumed[d] < 2 THEN resumed[d] + 1 ELSE 2
                                ELSE resumed[d]]
  BY Zenon DEF GoesOn, TypeHist
<1>4. ASSUME NEW d \in Ctx
      PROVE  (IF d = c THEN IF resumed[d] < 2 THEN resumed[d] + 1 ELSE 2 ELSE resumed[d])
               \in 0 .. 2
  BY <1>1, <1>2, Zenon
<1> QED
  BY <1>3, <1>4, Zenon


(* The timer's own steps keep its type.                                    *)
LEMMA TimerType ==
  ASSUME TypeTimer,
         \/ \E c \in Ctx : Timer!Sleep(c, tcLdapTimeout) \/ Timer!Resume(c) \/ Timer!Lose(c)
         \/ Timer!Tick \/ Timer!Close \/ UNCHANGED timerVars
  PROVE  TypeTimer'
<1> DEFINE T == 0 .. tcLdapTimeout \cup {Awake, Lost}
<1>1. 0 \in T /\ tcLdapTimeout \in T /\ Awake \in T /\ Lost \in T
  BY SizeAssumption
<1>2. \A n \in 1 .. tcLdapTimeout : n - 1 \in T
  BY SizeAssumption
<1>3. asleep \in [Ctx -> T] /\ closed \in BOOLEAN
  BY Zenon DEF TypeTimer
<1> HIDE DEF T
<1> SUFFICES asleep' \in [Ctx -> T] /\ closed' \in BOOLEAN
  BY Zenon DEF TypeTimer, T
<1>4. ASSUME NEW c \in Ctx, Timer!Sleep(c, tcLdapTimeout) PROVE asleep' \in [Ctx -> T]
  <2>1. PICK x \in T : asleep' = [asleep EXCEPT ![c] = x]
    BY <1>1, <1>4 DEF Timer!Sleep
  <2> QED
    BY <1>3, <2>1, Zenon
<1>5. ASSUME NEW c \in Ctx, Timer!Resume(c) PROVE asleep' \in [Ctx -> T]
  BY <1>1, <1>3, <1>5, Zenon DEF Timer!Resume
<1>6. ASSUME NEW c \in Ctx, Timer!Lose(c) PROVE asleep' \in [Ctx -> T]
  BY <1>1, <1>3, <1>6, Zenon DEF Timer!Lose
<1>7. ASSUME Timer!Tick PROVE asleep' \in [Ctx -> T]
  BY <1>2, <1>3, <1>7, Zenon DEF Timer!Tick
<1>8. ASSUME Timer!Close PROVE asleep' \in [Ctx -> T]
  BY <1>1, <1>3, <1>8, Zenon DEF Timer!Close
<1>9. closed' \in BOOLEAN
  BY <1>3, Zenon DEF Timer!Sleep, Timer!Resume, Timer!Lose, Timer!Tick, Timer!Close, timerVars
<1> QED
  BY <1>3, <1>4, <1>5, <1>6, <1>7, <1>8, <1>9, Zenon DEF timerVars

(* The steps of a worker up to the insertion keep LocalInv.                *)
LEMMA SendingLocal ==
  ASSUME LocalInv, NEW w \in Worker,
         \/ SearchRq(w) \/ SetUserToSleep(w) \/ BuildRequest(w) \/ Send(w)
         \/ insert_Request(w) \/ SearchFails(w)
  PROVE  LocalInv'
<1>0. /\ TypeTimer /\ TypeMem /\ TypeLists /\ TypeNet /\ TypePc /\ TypeHist
      /\ pc \in [Worker -> Local] /\ Place(pc[w])
  BY LocalParts, Zenon DEF TypePc
<1>1. pc[w].ctx \in Ctx \cup {NULL} /\ pc[w].id \in Msg \cup {NULL}
  BY <1>0, RecEta, Zenon
<1>2. tLdap_getLdId(w) \in Ld
  BY LdOfWorker
<1>3. pc[w].at \in Sending => pc[w].ctx \in Ctx
  BY <1>0, <1>1, Zenon DEF Place, Holding
<1>4. CASE SearchRq(w)
  <2>1. PICK c \in Ctx \ alloc, r \in {"garbage", "NULL"} :
          /\ alloc' = alloc \cup {c}
          /\ req' = [req EXCEPT ![c] = r]
          /\ life' = [life EXCEPT ![c] = "unsent"]
          /\ resumed' = [resumed EXCEPT ![c] = 0]
          /\ pc' = [pc EXCEPT ![w] = [At("sleep") EXCEPT !.ctx = c]]
    BY <1>4, Zenon DEF SearchRq
  <2>2. UNCHANGED <<timerVars, listVars, netVars, mishap>>
    BY <1>4, Zenon DEF SearchRq
  <2>3. TypeTimer' /\ TypeLists' /\ TypeNet'
    BY <1>0, <2>2, Zenon DEF TypeTimer, TypeLists, TypeNet, timerVars, listVars, netVars
  <2>4. TypeMem'
    <3>1. searches' \in 0 .. MaxSearches
      BY <1>0, <1>4, BoundAssumption DEF TypeMem, SearchRq
    <3> QED
      BY <1>0, <2>1, <3>1, Zenon DEF TypeMem
  <2>5. TypePc'
    <3>1. Moves(w, "sleep", c, NULL)
      BY <1>0, <2>1, TakeMoves, Zenon DEF Places
    <3>2. "sleep" \in Holding /\ c # NULL
      BY MarkAssumption, Zenon DEF Holding, Sending
    <3> QED
      BY <1>0, <3>1, <3>2, MovesPc, Zenon
  <2>6. TypeHist'
    <3>1. 0 \in 0 .. 2
      OBVIOUS
    <3> QED
      BY <1>0, <2>1, <2>2, <3>1, Zenon DEF TypeHist
  <2> QED
    BY <2>3, <2>4, <2>5, <2>6, LocalPartsNext, Zenon
<1>5. CASE SetUserToSleep(w)
  <2>1. /\ Timer!Sleep(pc[w].ctx, tcLdapTimeout) \/ UNCHANGED timerVars
        /\ Goto(w, "build") /\ pc[w].at = "sleep"
        /\ UNCHANGED <<memVars, listVars, netVars, histVars>>
    BY <1>5, Zenon DEF SetUserToSleep, Timeout
  <2>2. TypeTimer'
    BY <1>0, <1>3, <2>1, TimerType, Zenon DEF Sending
  <2>3. TypeMem' /\ TypeLists' /\ TypeNet' /\ TypeHist'
    BY <1>0, <2>1, Zenon
       DEF TypeMem, TypeLists, TypeNet, TypeHist, memVars, listVars, netVars, histVars
  <2>4. TypePc'
    <3>1. Moves(w, "build", pc[w].ctx, pc[w].id)
      BY <1>0, <2>1, GotoMoves, Zenon DEF Places
    <3>2. pc[w].ctx # NULL /\ "build" \in Holding /\ "build" # "insert"
      BY <1>0, <2>1, Zenon DEF Place, Holding, Sending
    <3> QED
      BY <1>0, <3>1, <3>2, MovesPc
  <2> QED
    BY <2>2, <2>3, <2>4, LocalPartsNext, Zenon
<1>6. CASE BuildRequest(w)
  <2>1. /\ pc[w].at = "build" /\ Goto(w, "send")
        /\ req' = [req EXCEPT ![pc[w].ctx] = "set"]
        /\ UNCHANGED <<timerVars, alloc, searches, listVars, netVars, histVars>>
    BY <1>6, Zenon DEF BuildRequest
  <2>2. TypeTimer' /\ TypeLists' /\ TypeNet' /\ TypeHist'
    BY <1>0, <2>1, Zenon
       DEF TypeTimer, TypeLists, TypeNet, TypeHist, timerVars, listVars, netVars, histVars
  <2>3. TypeMem'
    BY <1>0, <2>1, Zenon DEF TypeMem
  <2>4. TypePc'
    <3>1. Moves(w, "send", pc[w].ctx, pc[w].id)
      BY <1>0, <2>1, GotoMoves, Zenon DEF Places
    <3>2. pc[w].ctx # NULL /\ "send" \in Holding /\ "send" # "insert"
      BY <1>0, <2>1, Zenon DEF Place, Holding, Sending
    <3> QED
      BY <1>0, <3>1, <3>2, MovesPc
  <2> QED
    BY <2>2, <2>3, <2>4, LocalPartsNext, Zenon
<1>7. CASE Send(w)
  <2> DEFINE l == tLdap_getLdId(w)
  <2>1. PICK m \in FreshMsg(l) : /\ server' = [server EXCEPT ![l] = @ \cup {m}]
                                 /\ pc' = [pc EXCEPT ![w].at = "insert", ![w].id = m]
    BY <1>7, Zenon DEF Send
  <2>2. /\ pc[w].at = "send" /\ m \in Msg
        /\ UNCHANGED <<timerVars, memVars, listVars, received, restarts, histVars>>
    BY <1>7, Zenon DEF Send, FreshMsg
  <2>3. TypeTimer' /\ TypeMem' /\ TypeLists' /\ TypeHist'
    BY <1>0, <2>2, Zenon
       DEF TypeTimer, TypeMem, TypeLists, TypeHist, timerVars, memVars, listVars, histVars
  <2>4. TypeNet'
    <3>1. PICK x \in SUBSET Msg : x = server[l] \cup {m}
      BY <1>0, <1>2, <2>2, Zenon DEF TypeNet
    <3>2. server' = [server EXCEPT ![l] = x]
      BY <2>1, <3>1, Zenon
    <3> QED
      BY <1>0, <2>2, <3>2, Zenon DEF TypeNet
  <2>5. TypePc'
    <3>1. Moves(w, "insert", pc[w].ctx, m)
      BY <1>0, <2>1, <2>2, SendMoves, Zenon
    <3>2. m # NULL
      BY <2>2, MarkAssumption DEF Msg
    <3>3. pc[w].ctx # NULL /\ "insert" \in Holding
      BY <1>0, <2>2, Zenon DEF Place, Holding, Sending
    <3> QED
      BY <1>0, <3>1, <3>2, <3>3, MovesPc, Zenon
  <2> QED
    BY <2>3, <2>4, <2>5, LocalPartsNext, Zenon
<1>8. CASE insert_Request(w)
  <2> DEFINE l == tLdap_getLdId(w)
  <2>1. /\ pc[w].at = "insert" /\ Leave(w, "top")
        /\ ldReq' = [ldReq EXCEPT ![l] = Append(@, [id |-> pc[w].id, ctx |-> pc[w].ctx])]
        /\ life' = [life EXCEPT ![pc[w].ctx] = "waiting"]
        /\ UNCHANGED <<timerVars, memVars, ldResp, netVars, resumed, mishap>>
    BY <1>8, Zenon DEF insert_Request
  <2>2. TypeTimer' /\ TypeMem' /\ TypeNet'
    BY <1>0, <2>1, Zenon DEF TypeTimer, TypeMem, TypeNet, timerVars, memVars, netVars
  <2>3. TypeLists'
    <3>1. PICK x \in Element : x = [id |-> pc[w].id, ctx |-> pc[w].ctx]
      BY <1>0, <1>1, <1>3, <2>1, Zenon DEF Element, Place, Sending
    <3>2. PICK t \in Seq(Element) : t = Append(ldReq[l], x)
      BY <1>0, <1>2, AppendedSets, Zenon DEF TypeLists
    <3>3. ldReq' = [ldReq EXCEPT ![l] = t]
      BY <2>1, <3>1, <3>2, Zenon
    <3> QED
      BY <1>0, <2>1, <3>3, Zenon DEF TypeLists
  <2>4. TypeHist'
    BY <1>0, <2>1, Zenon DEF TypeHist
  <2>5. TypePc'
    <3>1. Moves(w, "top", NULL, NULL)
      BY <1>0, <2>1, LeaveMoves, Zenon DEF Places
    <3> QED
      BY <1>0, <3>1, MovesPc, Zenon DEF Holding, Sending
  <2> QED
    BY <2>2, <2>3, <2>4, <2>5, LocalPartsNext, Zenon
<1>9. CASE SearchFails(w)
  <2>1. /\ GoesOn(pc[w].ctx) /\ Leave(w, "run") /\ Happens("failed")
        /\ life' = [life EXCEPT ![pc[w].ctx] = "failed"]
        /\ UNCHANGED <<timerVars, memVars, listVars, netVars>>
    BY <1>9, Zenon DEF SearchFails
  <2>2. TypeTimer' /\ TypeMem' /\ TypeLists' /\ TypeNet'
    BY <1>0, <2>1, Zenon
       DEF TypeTimer, TypeMem, TypeLists, TypeNet, timerVars, memVars, listVars, netVars
  <2>3. TypeHist'
    BY <1>0, <2>1, GoesOnType, Zenon DEF TypeHist, Happens, Mishaps
  <2>4. TypePc'
    <3>1. Moves(w, "run", NULL, NULL)
      BY <1>0, <2>1, LeaveMoves, Zenon DEF Places
    <3> QED
      BY <1>0, <3>1, MovesPc, Zenon DEF Holding, Sending
  <2> QED
    BY <2>2, <2>3, <2>4, LocalPartsNext, Zenon
<1> QED
  BY <1>4, <1>5, <1>6, <1>7, <1>8, <1>9, Zenon


(* The list without the request of a context.                              *)
LEMMA WithoutType ==
  ASSUME NEW s \in Seq(Element), NEW c
  PROVE  /\ Without(s, c) \in Seq(Element)
         /\ c \notin Contexts(s) => Without(s, c) = s
         /\ c \in Contexts(s) => \E i \in DOMAIN s : /\ s[i].ctx = c /\ Without(s, c) # s
                                                     /\ Shorter(s, i, Without(s, c))
<1>1. PICK i : i = First({j \in 1 .. Len(s) : s[j].ctx = c})
  BY Zenon
<1>2. Without(s, c) = IF i = 0 THEN s ELSE RemoveAt(s, i)
  BY <1>1, Zenon DEF Without
<1>3. /\ i = 0 => c \notin Contexts(s)
      /\ i # 0 => i \in DOMAIN s /\ s[i].ctx = c
  BY <1>1, FindCtx, Zenon
<1>4. i # 0 => Shorter(s, i, Without(s, c)) /\ c \in Contexts(s)
  BY <1>2, <1>3, Removed, Zenon DEF Contexts
<1> QED
  BY <1>2, <1>3, <1>4, Zenon DEF Shorter


(* The other steps of a worker keep LocalInv.                              *)
LEMMA LoopLocal ==
  ASSUME LocalInv, NEW w \in Worker,
         \/ getAndRemove_firstResponse(w) \/ LDAP_Search_Resp(w) \/ TimeoutResp(w)
         \/ NewScenario(w) \/ EndOfScenario(w) \/ \E c \in Ctx : GetUserToResume(w, c)
  PROVE  LocalInv'
<1>0. /\ TypeTimer /\ TypeMem /\ TypeLists /\ TypeNet /\ TypePc /\ TypeHist
      /\ pc \in [Worker -> Local] /\ Place(pc[w])
  BY LocalParts, Zenon DEF TypePc
<1>1. pc[w].ctx \in Ctx \cup {NULL} /\ pc[w].id \in Msg \cup {NULL}
  BY <1>0, RecEta, Zenon
<1>2. tLdap_getLdId(w) \in Ld
  BY LdOfWorker
<1>3. /\ {"top", "run"} \subseteq Places /\ "top" \notin Holding /\ "run" \notin Holding
      /\ "top" # "insert" /\ "run" # "insert"
  BY Zenon DEF Places, Holding, Sending
<1>4. (Leave(w, "top") \/ Leave(w, "run")) => TypePc'
  BY <1>0, <1>3, LeaveMoves, MovesPc, Zenon
<1>5. CASE getAndRemove_firstResponse(w)
  <2> DEFINE l == tLdap_getLdId(w)
  <2>1. pc[w].at = "top" /\ UNCHANGED <<timerVars, memVars, ldReq, netVars, histVars>>
    BY <1>5, Zenon DEF getAndRemove_firstResponse
  <2>2. TypeTimer' /\ TypeMem' /\ TypeNet' /\ TypeHist'
    BY <1>0, <2>1, Zenon
       DEF TypeTimer, TypeMem, TypeNet, TypeHist, timerVars, memVars, netVars, histVars
  <2>3. CASE ldResp[l] = <<>>
    <3>1. Goto(w, "poll") /\ ldResp' = ldResp
      BY <1>5, <2>3, Zenon DEF getAndRemove_firstResponse
    <3>2. Moves(w, "poll", pc[w].ctx, pc[w].id)
      BY <1>0, <3>1, GotoMoves, Zenon DEF Places
    <3>3. pc[w].ctx = NULL /\ "poll" \notin Holding /\ "poll" # "insert"
      BY <1>0, <2>1, Zenon DEF Place, Holding, Sending
    <3>4. TypePc'
      BY <1>0, <3>2, <3>3, MovesPc
    <3>5. TypeLists'
      BY <1>0, <2>1, <3>1, Zenon DEF TypeLists
    <3> QED
      BY <2>2, <3>4, <3>5, LocalPartsNext, Zenon
  <2>4. CASE ldResp[l] # <<>>
    <3>1. ldResp[l] \in Seq(Element)
      BY <1>0, <1>2, Zenon DEF TypeLists
    <3>2. PICK x \in Element, t \in Seq(Element) : x = Head(ldResp[l]) /\ t = Tail(ldResp[l])
      BY <2>4, <3>1, TailSets, Zenon
    <3>3. /\ pc' = [pc EXCEPT ![w] = [At("answer") EXCEPT !.ctx = x.ctx]]
          /\ ldResp' = [ldResp EXCEPT ![l] = t]
      BY <1>5, <2>4, <3>2, Zenon DEF getAndRemove_firstResponse
    <3>4. x.ctx \in Ctx /\ x.ctx # NULL
      BY MarkAssumption, Zenon DEF Element
    <3>5. TypePc'
      <4>1. Moves(w, "answer", x.ctx, NULL)
        BY <1>0, <3>3, <3>4, TakeMoves, Zenon DEF Places
      <4> QED
        BY <1>0, <3>4, <4>1, MovesPc, Zenon DEF Holding
    <3>6. TypeLists'
      BY <1>0, <2>1, <3>3, Zenon DEF TypeLists
    <3> QED
      BY <2>2, <3>5, <3>6, LocalPartsNext, Zenon
  <2> QED
    BY <2>3, <2>4, Zenon
<1>6. CASE LDAP_Search_Resp(w)
  <2>1. /\ GoesOn(pc[w].ctx) /\ Leave(w, "run")
        /\ UNCHANGED <<timerVars, alloc, searches, listVars, netVars, mishap>>
        /\ \/ req' = [req EXCEPT ![pc[w].ctx] = "NULL"]
              /\ life' = [life EXCEPT ![pc[w].ctx] = "treated"]
           \/ UNCHANGED <<req, life>>
    BY <1>6, Zenon DEF LDAP_Search_Resp, ReqAfterAnswer
  <2>2. TypeTimer' /\ TypeLists' /\ TypeNet'
    BY <1>0, <2>1, Zenon DEF TypeTimer, TypeLists, TypeNet, timerVars, listVars, netVars
  <2>3. TypeMem'
    BY <1>0, <2>1, Zenon DEF TypeMem
  <2>4. TypeHist'
    BY <1>0, <2>1, GoesOnType, Zenon DEF TypeHist
  <2> QED
    BY <1>4, <2>1, <2>2, <2>3, <2>4, LocalPartsNext, Zenon
<1>7. CASE TimeoutResp(w)
  <2> DEFINE l == tLdap_getLdId(w)
  <2>1. /\ GoesOn(pc[w].ctx) /\ Leave(w, "run")
        /\ alloc' = alloc \ {pc[w].ctx}
        /\ ldReq' = [ldReq EXCEPT ![l] = Without(@, pc[w].ctx)]
        /\ UNCHANGED <<timerVars, req, searches, ldResp, received, restarts, life>>
        /\ \/ UNCHANGED <<server, mishap>>
           \/ \E m \in Msg : /\ server' = [server EXCEPT ![l] = @ \ {m}]
                             /\ Happens("strayed") \/ UNCHANGED mishap
    BY <1>7, Zenon DEF TimeoutResp
  <2>2. TypeTimer' /\ TypeMem'
    BY <1>0, <2>1, Zenon DEF TypeTimer, TypeMem, timerVars
  <2>3. TypeLists'
    <3>1. PICK t \in Seq(Element) : t = Without(ldReq[l], pc[w].ctx)
      BY <1>0, <1>2, WithoutType, Zenon DEF TypeLists
    <3>2. ldReq' = [ldReq EXCEPT ![l] = t]
      BY <2>1, <3>1, Zenon
    <3> QED
      BY <1>0, <2>1, <3>2, Zenon DEF TypeLists
  <2>4. TypeNet'
    <3>1. CASE UNCHANGED server
      BY <1>0, <2>1, <3>1, Zenon DEF TypeNet
    <3>2. CASE \E m \in Msg : server' = [server EXCEPT ![l] = @ \ {m}]
      <4>1. PICK m \in Msg : server' = [server EXCEPT ![l] = @ \ {m}]
        BY <3>2, Zenon
      <4>2. PICK x \in SUBSET Msg : x = server[l] \ {m}
        BY <1>0, <1>2, Zenon DEF TypeNet
      <4>3. server' = [server EXCEPT ![l] = x]
        BY <4>1, <4>2, Zenon
      <4> QED
        BY <1>0, <2>1, <4>3, Zenon DEF TypeNet
    <3> QED
      BY <2>1, <3>1, <3>2, Zenon
  <2>5. TypeHist'
    BY <1>0, <2>1, GoesOnType, Zenon DEF TypeHist, Happens, Mishaps
  <2> QED
    BY <1>4, <2>1, <2>2, <2>3, <2>4, <2>5, LocalPartsNext, Zenon
<1>8. CASE NewScenario(w) \/ EndOfScenario(w)
  <2>1. /\ Leave(w, "run") \/ Leave(w, "top")
        /\ UNCHANGED <<timerVars, memVars, listVars, netVars, histVars>>
    BY <1>8, Zenon DEF NewScenario, EndOfScenario
  <2>2. TypeTimer' /\ TypeMem' /\ TypeLists' /\ TypeNet' /\ TypeHist'
    BY <1>0, <2>1, Zenon
       DEF TypeTimer, TypeMem, TypeLists, TypeNet, TypeHist, timerVars, memVars, listVars,
           netVars, histVars
  <2> QED
    BY <1>4, <2>1, <2>2, LocalPartsNext, Zenon
<1>9. CASE \E c \in Ctx : GetUserToResume(w, c)
  <2>1. PICK c \in Ctx : GetUserToResume(w, c)
    BY <1>9, Zenon
  <2>2. /\ Timer!Resume(c) /\ UNCHANGED <<searches, listVars, netVars, life, resumed>>
        /\ UNCHANGED mishap \/ Happens("misfired")
        /\ \/ alloc' = alloc \ {c} /\ Leave(w, "top") /\ UNCHANGED req
           \/ /\ req' = [req EXCEPT ![c] = "NULL"] /\ UNCHANGED alloc
              /\ pc' = [pc EXCEPT ![w] = [At("timeout") EXCEPT !.ctx = c]]
    BY <2>1, Zenon DEF GetUserToResume
  <2>3. TypeTimer'
    BY <1>0, <2>2, TimerType, Zenon
  <2>4. TypeMem' /\ TypeLists' /\ TypeNet'
    BY <1>0, <2>2, Zenon DEF TypeMem, TypeLists, TypeNet, listVars, netVars
  <2>5. TypeHist'
    BY <1>0, <2>2, Zenon DEF TypeHist, Happens, Mishaps
  <2>6. TypePc'
    <3>1. CASE pc' = [pc EXCEPT ![w] = [At("timeout") EXCEPT !.ctx = c]]
      <4>1. Moves(w, "timeout", c, NULL)
        BY <1>0, <3>1, TakeMoves, Zenon DEF Places
      <4>2. c # NULL
        BY MarkAssumption, Zenon
      <4> QED
        BY <1>0, <4>1, <4>2, MovesPc, Zenon DEF Holding
    <3> QED
      BY <1>4, <2>2, <3>1, Zenon
  <2> QED
    BY <2>3, <2>4, <2>5, <2>6, LocalPartsNext, Zenon
<1> QED
  BY <1>5, <1>6, <1>7, <1>8, <1>9, Zenon


(* The select thread finds the request of the answer, or there is none.    *)
LEMMA MoveEffect ==
  ASSUME LocalInv, NEW l \in Ld, getAndMove_RequestToResponse(l)
  PROVE  \/ received[l] \notin Ids(ldReq[l]) /\ UNCHANGED <<listVars, life, mishap>>
         \/ \E i \in DOMAIN ldReq[l], x \in Element, t \in Seq(Element), u \in Seq(Element) :
              /\ x = ldReq[l][i] /\ x.id = received[l]
              /\ Shorter(ldReq[l], i, t) /\ ldReq' = [ldReq EXCEPT ![l] = t]
              /\ u = Append(ldResp[l], x) /\ ldResp' = [ldResp EXCEPT ![l] = u]
              /\ life' = [life EXCEPT ![x.ctx] = "answered"]
              /\ (mishap' = mishap /\ req[x.ctx] = "set") \/ mishap' = "crossed"
<1>0. ldReq[l] \in Seq(Element) /\ ldResp[l] \in Seq(Element)
  BY LocalParts, Zenon DEF TypeLists
<1>1. PICK i : i = First({j \in 1 .. Len(ldReq[l]) : ldReq[l][j].id = received[l]})
  BY Zenon
<1>2. /\ i = 0 => received[l] \notin Ids(ldReq[l])
      /\ i # 0 => i \in DOMAIN ldReq[l] /\ ldReq[l][i].id = received[l]
  <2>1. PICK s \in Seq(Element) : s = ldReq[l]
    BY <1>0, Zenon
  <2>2. PICK m : m = received[l]
    BY Zenon
  <2>3. i = First({j \in 1 .. Len(s) : s[j].id = m})
    BY <1>1, <2>1, <2>2, Zenon
  <2>4. (i = 0 => m \notin Ids(s)) /\ (i # 0 => i \in DOMAIN s /\ s[i].id = m)
    BY <2>3, FindId, Zenon
  <2> QED
    BY <2>1, <2>2, <2>4, Zenon
<1>3. IF i = 0
      THEN UNCHANGED <<listVars, life, mishap>>
      ELSE /\ ldResp' = [ldResp EXCEPT ![l] = Append(@, ldReq[l][i])]
           /\ ldReq' = [ldReq EXCEPT ![l] = RemoveAt(@, i)]
           /\ life' = [life EXCEPT ![ldReq[l][i].ctx] = "answered"]
           /\ IF req[ldReq[l][i].ctx] = "set" THEN UNCHANGED mishap ELSE Happens("crossed")
  BY <1>1, Zenon DEF getAndMove_RequestToResponse
<1>4. CASE i = 0
  BY <1>2, <1>3, <1>4, Zenon
<1>5. CASE i # 0
  <2>1. PICK x \in Element : x = ldReq[l][i]
    BY <1>0, <1>2, <1>5, LenProperties, ElementOfSeq, Zenon
  <2>2. PICK t, u : t = RemoveAt(ldReq[l], i) /\ u = Append(ldResp[l], x)
    BY Zenon
  <2>3. /\ Shorter(ldReq[l], i, t) /\ i \in DOMAIN ldReq[l] /\ x.id = received[l]
        /\ t \in Seq(Element) /\ u \in Seq(Element)
    <3>1. Shorter(ldReq[l], i, t) /\ i \in DOMAIN ldReq[l] /\ x.id = received[l]
      BY <1>0, <1>2, <1>5, <2>1, <2>2, Removed, Zenon
    <3>2. u \in Seq(Element)
      BY <1>0, <2>2, AppendedSets, Zenon
    <3> QED
      BY <3>1, <3>2, Zenon DEF Shorter
  <2>4. /\ ldResp' = [ldResp EXCEPT ![l] = u] /\ ldReq' = [ldReq EXCEPT ![l] = t]
        /\ life' = [life EXCEPT ![x.ctx] = "answered"]
        /\ (mishap' = mishap /\ req[x.ctx] = "set") \/ mishap' = "crossed"
    BY <1>3, <1>5, <2>1, <2>2, Zenon DEF Happens
  <2> QED
    BY <2>1, <2>2, <2>3, <2>4, Zenon
<1> QED
  BY <1>4, <1>5, Zenon

(* A set of the lists of one connection.                                   *)
LEMMA ListsType ==
  ASSUME TypeLists, NEW l \in Ld, NEW s \in Seq(Element), NEW t \in Seq(Element),
         ldReq' = [ldReq EXCEPT ![l] = s] \/ ldReq' = ldReq,
         ldResp' = [ldResp EXCEPT ![l] = t] \/ ldResp' = ldResp
  PROVE  TypeLists'
  BY Zenon DEF TypeLists

(* The steps of the timer and of the select threads keep LocalInv.         *)
LEMMA OthersLocal ==
  ASSUME LocalInv, TimerStep \/ \E l \in Ld : SelectStep(l)
  PROVE  LocalInv'
<1>0. TypeTimer /\ TypeMem /\ TypeLists /\ TypeNet /\ TypePc /\ TypeHist
  BY LocalParts, Zenon
<1>1. CASE TimerStep
  <2>1. UNCHANGED <<memVars, listVars, netVars, pc, histVars>>
    BY <1>1, Zenon DEF TimerStep
  <2>2. TypeTimer'
    BY <1>0, <1>1, TimerType, Zenon DEF TimerStep
  <2>3. TypeMem' /\ TypeLists' /\ TypeNet' /\ TypePc' /\ TypeHist'
    BY <1>0, <2>1, Zenon
       DEF TypeMem, TypeLists, TypeNet, TypePc, TypeHist, memVars, listVars, netVars, histVars
  <2> QED
    BY <2>2, <2>3, LocalPartsNext, Zenon
<1>2. ASSUME NEW l \in Ld, ldap_result(l) PROVE LocalInv'
  <2>1. PICK m \in server[l] : /\ received' = [received EXCEPT ![l] = m]
                               /\ server' = [server EXCEPT ![l] = @ \ {m}]
    BY <1>2, Zenon DEF ldap_result
  <2>2. UNCHANGED <<timerVars, memVars, listVars, pc, restarts, histVars>>
    BY <1>2, Zenon DEF ldap_result
  <2>3. TypeTimer' /\ TypeMem' /\ TypeLists' /\ TypePc' /\ TypeHist'
    BY <1>0, <2>2, Zenon
       DEF TypeTimer, TypeMem, TypeLists, TypePc, TypeHist, timerVars, memVars, listVars,
           histVars
  <2>4. TypeNet'
    <3>1. PICK x \in SUBSET Msg : x = server[l] \ {m} /\ m \in Msg
      BY <1>0, Zenon DEF TypeNet
    <3>2. server' = [server EXCEPT ![l] = x]
      BY <2>1, <3>1, Zenon
    <3> QED
      BY <1>0, <2>1, <2>2, <3>1, <3>2, Zenon DEF TypeNet
  <2> QED
    BY <2>3, <2>4, LocalPartsNext, Zenon
<1>3. ASSUME NEW l \in Ld, getAndMove_RequestToResponse(l) PROVE LocalInv'
  <2>1. /\ received' = [received EXCEPT ![l] = NULL]
        /\ UNCHANGED <<timerVars, memVars, server, pc, restarts, resumed>>
    BY <1>3, Zenon DEF getAndMove_RequestToResponse
  <2>2. TypeTimer' /\ TypeMem' /\ TypePc'
    BY <1>0, <2>1, Zenon DEF TypeTimer, TypeMem, TypePc, timerVars, memVars
  <2>3. TypeNet'
    BY <1>0, <2>1, Zenon DEF TypeNet
  <2>4. CASE UNCHANGED <<listVars, life, mishap>>
    <3>1. TypeLists' /\ TypeHist'
      BY <1>0, <2>1, <2>4, Zenon DEF TypeLists, TypeHist, listVars
    <3> QED
      BY <2>2, <2>3, <3>1, LocalPartsNext, Zenon
  <2>5. CASE \E i \in DOMAIN ldReq[l], x \in Element, t \in Seq(Element), u \in Seq(Element) :
               /\ x = ldReq[l][i] /\ x.id = received[l]
               /\ Shorter(ldReq[l], i, t) /\ ldReq' = [ldReq EXCEPT ![l] = t]
               /\ u = Append(ldResp[l], x) /\ ldResp' = [ldResp EXCEPT ![l] = u]
               /\ life' = [life EXCEPT ![x.ctx] = "answered"]
               /\ (mishap' = mishap /\ req[x.ctx] = "set") \/ mishap' = "crossed"
    <3>1. PICK i \in DOMAIN ldReq[l], x \in Element, t \in Seq(Element), u \in Seq(Element) :
               /\ Shorter(ldReq[l], i, t) /\ ldReq' = [ldReq EXCEPT ![l] = t]
               /\ u = Append(ldResp[l], x) /\ ldResp' = [ldResp EXCEPT ![l] = u]
               /\ life' = [life EXCEPT ![x.ctx] = "answered"]
               /\ mishap' = mishap \/ mishap' = "crossed"
      BY <2>5, Zenon
    <3>2. t \in Seq(Element)
      BY <3>1, Zenon DEF Shorter
    <3>3. u \in Seq(Element)
      BY <1>0, <3>1, AppendedSets, Zenon DEF TypeLists
    <3>4. TypeLists'
      BY <1>0, <3>1, <3>2, <3>3, ListsType, Zenon
    <3>5. TypeHist'
      BY <1>0, <2>1, <3>1, Zenon DEF TypeHist, Mishaps
    <3> QED
      BY <2>2, <2>3, <3>4, <3>5, LocalPartsNext, Zenon
  <2> QED
    BY <1>3, <2>4, <2>5, MoveEffect, Zenon
<1>4. ASSUME NEW l \in Ld, treatError_Ld(l) PROVE LocalInv'
  <2>1. /\ restarts < MaxRestarts /\ restarts' = restarts + 1
        /\ server' = [server EXCEPT ![l] = {}]
        /\ ldResp' = [ldResp EXCEPT ![l] = ldResp[l] \o ldReq[l]]
        /\ ldReq' = [ldReq EXCEPT ![l] = <<>>] \/ ldReq' = ldReq
        /\ life' = [c \in Ctx |-> IF c \in Contexts(ldReq[l]) THEN "answered" ELSE life[c]]
        /\ UNCHANGED <<timerVars, memVars, received, pc, resumed>>
    BY <1>4, Zenon DEF treatError_Ld
  <2>2. UNCHANGED mishap \/ mishap' \in {"shared", "overtaken"}
    BY <1>4, Zenon DEF treatError_Ld, Happens
  <2>3. TypeTimer' /\ TypeMem' /\ TypePc'
    BY <1>0, <2>1, Zenon DEF TypeTimer, TypeMem, TypePc, timerVars, memVars
  <2>4. TypeNet'
    <3>1. restarts' \in 0 .. MaxRestarts
      BY <1>0, <2>1, BoundAssumption DEF TypeNet
    <3> QED
      BY <1>0, <2>1, <3>1, Zenon DEF TypeNet
  <2>5. TypeLists'
    <3>1. ldResp[l] \o ldReq[l] \in Seq(Element) /\ <<>> \in Seq(Element)
      BY <1>0, ConcatProperties, EmptySets, Zenon DEF TypeLists
    <3> QED
      BY <1>0, <2>1, <3>1, ListsType, Zenon
  <2>6. TypeHist'
    BY <1>0, <2>1, <2>2, Zenon DEF TypeHist, Mishaps
  <2> QED
    BY <2>3, <2>4, <2>5, <2>6, LocalPartsNext, Zenon
<1> QED
  BY <1>1, <1>2, <1>3, <1>4, Zenon DEF SelectStep

(* Every step keeps LocalInv.                                              *)
LEMMA LocalStep ==
  ASSUME LocalInv, [Next]_vars
  PROVE  LocalInv'
<1>1. CASE UNCHANGED vars
  <2>1. UNCHANGED <<timerVars, memVars, listVars, netVars, pc, histVars>>
    BY <1>1, Zenon DEF vars
  <2> QED
    BY <2>1, LocalParts, LocalPartsNext, Zenon
       DEF TypeTimer, TypeMem, TypeLists, TypeNet, TypePc, TypeHist, timerVars, memVars,
           listVars, netVars, histVars
<1>2. ASSUME NEW w \in Worker, WorkerStep(w) PROVE LocalInv'
  BY <1>2, SendingLocal, LoopLocal, Zenon DEF WorkerStep
<1> QED
  BY <1>1, <1>2, OthersLocal, Zenon DEF Next, Undefined

(* The initial state.                                                      *)
LEMMA LocalInit ==
  ASSUME Init
  PROVE  LocalInv
<1>1. TypeTimer
  BY Zenon DEF Init, Timer!Init, TypeTimer
<1>2. TypeMem /\ TypeHist
  <2>1. 0 \in 0 .. 2 /\ 0 \in 0 .. MaxSearches
    BY BoundAssumption
  <2> QED
    BY <2>1, Zenon DEF Init, TypeMem, TypeHist, Mishaps
<1>3. TypeLists
  BY EmptySets, Zenon DEF Init, TypeLists
<1>4. TypeNet
  <2>1. 0 \in 0 .. MaxRestarts
    BY BoundAssumption
  <2> QED
    BY <2>1, Zenon DEF Init, TypeNet
<1>5. TypePc
  <2>1. "top" \in Places /\ "top" \notin Holding /\ "top" # "insert"
    BY Zenon DEF Places, Holding, Sending
  <2>2. At("top") = Rec("top", NULL, NULL)
    BY Zenon DEF At, Rec
  <2>3. PICK r \in Local : r = At("top") /\ r.at = "top" /\ r.ctx = NULL /\ r.id = NULL
    BY <2>1, <2>2, RecFields
  <2>4. Place(r)
    BY <2>1, <2>3, Zenon DEF Place
  <2>5. pc = [w \in Worker |-> r]
    BY <2>3, Zenon DEF Init
  <2> QED
    BY <2>4, <2>5, Zenon DEF TypePc
<1> QED
  BY <1>1, <1>2, <1>3, <1>4, <1>5, LocalParts, Zenon


-----------------------------------------------------------------------------
(***************************************************************************)
(* One context.  What a step does not touch stays as it was.               *)
(***************************************************************************)
SameLife(c) ==
  /\ life'[c] = life[c] /\ resumed'[c] = resumed[c] /\ req'[c] = req[c]
  /\ c \in alloc' <=> c \in alloc
SameTimer(c) ==
  /\ asleep'[c] \in 0 .. tcLdapTimeout => asleep[c] \in 0 .. tcLdapTimeout
  /\ asleep[c] = Awake => asleep'[c] = Awake
SameHolders(c) == \A v \in Worker : pc'[v].ctx = c \/ pc[v].ctx = c => pc'[v] = pc[v]
SameLists(c) == \A l \in Ld : /\ Waits(l, c)' <=> Waits(l, c)
                              /\ Answered(l, c)' <=> Answered(l, c)

(* A context the step does not touch.                                      *)
LEMMA CtxFrame ==
  ASSUME NEW c \in Ctx, CtxInv(c), SameLife(c), SameTimer(c), SameHolders(c), SameLists(c)
  PROVE  CtxInv(c)'
<1>1. /\ life'[c] # "failed" /\ resumed'[c] <= 1
      /\ asleep'[c] \in 0 .. tcLdapTimeout => c \in alloc'
      /\ c \notin alloc' => asleep'[c] = Awake
      /\ c \in alloc' /\ life'[c] = "treated" => req'[c] = "NULL"
      /\ c \in alloc' /\ life'[c] # "treated" => resumed'[c] = 0
  BY Zenon DEF CtxInv, Known, SameLife, SameTimer
<1>2. \A w \in Worker, places \in SUBSET Places : Has(w, c, places)' <=> Has(w, c, places)
  BY Zenon DEF Has, SameHolders
<1>3. /\ Holding \in SUBSET Places /\ Sending \in SUBSET Places
      /\ {"send", "insert"} \in SUBSET Places /\ {"answer"} \in SUBSET Places
      /\ {"timeout"} \in SUBSET Places
  BY Zenon DEF Holding, Sending, Places
<1>4. \A w \in Worker :
        /\ Has(w, c, Holding)' => c \in alloc'
        /\ Has(w, c, Sending)' => life'[c] = "unsent"
        /\ Has(w, c, {"send", "insert"})' => req'[c] = "set"
        /\ Has(w, c, {"answer"})' => life'[c] = "answered" /\ req'[c] = "set"
        /\ Has(w, c, {"timeout"})' => /\ req'[c] = "NULL" /\ asleep'[c] = Awake
                                      /\ Waits(tLdap_getLdId(w), c)'
  BY <1>2, <1>3, LdOfWorker, Zenon DEF CtxInv, OfWorker, SameLife, SameTimer, SameLists
<1>5. \A l \in Ld :
        /\ Waits(l, c)' => /\ c \in alloc' /\ life'[c] = "waiting"
                           /\ \/ req'[c] = "set"
                              \/ \E w \in Worker : Has(w, c, {"timeout"})'
        /\ Answered(l, c)' => /\ c \in alloc' /\ life'[c] = "answered" /\ req'[c] = "set"
                              /\ \A w \in Worker : ~Has(w, c, {"answer"})'
  BY <1>2, <1>3, Zenon DEF CtxInv, OfList, SameLife, SameLists
<1>6. \A w, v \in Worker : Has(w, c, Holding)' /\ Has(v, c, Holding)' => w = v
  BY <1>2, <1>3, Zenon DEF CtxInv, OneHolder
<1>7. \A l, k \in Ld : /\ Waits(l, c)' /\ Waits(k, c)' => l = k
                       /\ Answered(l, c)' /\ Answered(k, c)' => l = k
  BY Zenon DEF CtxInv, OneHolder, SameLists
<1> QED
  BY <1>1, <1>4, <1>5, <1>6, <1>7, Zenon DEF CtxInv, Known, OfWorker, OfList, OneHolder

(***************************************************************************)
(* Who holds a context, in one word.                                       *)
(***************************************************************************)
Nobody(c) == \A v \in Worker : pc[v].ctx # c
Alone(w, c) == pc[w].ctx = c /\ \A v \in Worker : pc[v].ctx = c => v = w
NoList(c) == \A l \in Ld : ~Waits(l, c) /\ ~Answered(l, c)
Mine(c, n) == c \in alloc /\ resumed[c] = n /\ resumed[c] <= 1

(* A context that is not allocated.                                        *)
LEMMA IsFree ==
  ASSUME TypePc, NEW c \in Ctx, CtxInv(c), c \notin alloc
  PROVE  Nobody(c) /\ NoList(c) /\ asleep[c] = Awake
<1>1. \A v \in Worker : pc[v].ctx = c => Has(v, c, Holding)
  BY MarkAssumption, Zenon DEF TypePc, Place, Has
<1>2. Nobody(c)
  BY <1>1, Zenon DEF CtxInv, OfWorker, Nobody
<1>3. NoList(c)
  BY Zenon DEF CtxInv, OfList, NoList
<1> QED
  BY <1>2, <1>3, Zenon DEF CtxInv, Known

(* A context of a worker.                                                  *)
LEMMA IsHeld ==
  ASSUME TypePc, NEW w \in Worker, NEW c \in Ctx, CtxInv(c), c = pc[w].ctx
  PROVE  /\ Alone(w, c) /\ c \in alloc /\ pc[w].at \in Holding
         /\ pc[w].at \in Sending => NoList(c) /\ life[c] = "unsent" /\ Mine(c, 0)
         /\ pc[w].at \in {"send", "insert"} => req[c] = "set"
         /\ pc[w].at = "answer" => /\ NoList(c) /\ life[c] = "answered" /\ req[c] = "set"
                                   /\ Mine(c, 0)
         /\ pc[w].at = "timeout" =>
              /\ req[c] = "NULL" /\ asleep[c] = Awake /\ Mine(c, 0)
              /\ \A l \in Ld : /\ Waits(l, c) <=> l = tLdap_getLdId(w)
                               /\ ~Answered(l, c)
<1>1. \A v \in Worker : pc[v].ctx = c => Has(v, c, Holding)
  BY MarkAssumption, Zenon DEF TypePc, Place, Has
<1>2. Alone(w, c) /\ c \in alloc
  BY <1>1, Zenon DEF CtxInv, OfWorker, OneHolder, Alone
<1>3. pc[w].at \in Holding
  BY <1>1, Zenon DEF Has
<1>4. pc[w].at \in Sending => NoList(c) /\ life[c] = "unsent" /\ Mine(c, 0)
  BY <1>2, Zenon DEF CtxInv, Known, OfWorker, OfList, Has, NoList, Mine
<1>5. pc[w].at \in {"send", "insert"} => req[c] = "set"
  BY Zenon DEF CtxInv, OfWorker, Has
<1>6. pc[w].at = "answer" => /\ NoList(c) /\ life[c] = "answered" /\ req[c] = "set"
                             /\ Mine(c, 0)
  BY <1>2, Zenon DEF CtxInv, Known, OfWorker, OfList, Has, NoList, Mine
<1>7. ASSUME pc[w].at = "timeout"
      PROVE  /\ req[c] = "NULL" /\ asleep[c] = Awake /\ Mine(c, 0)
             /\ \A l \in Ld : /\ Waits(l, c) <=> l = tLdap_getLdId(w)
                              /\ ~Answered(l, c)
  <2>1. req[c] = "NULL" /\ asleep[c] = Awake /\ Waits(tLdap_getLdId(w), c)
    BY <1>7, Zenon DEF CtxInv, OfWorker, Has
  <2>2. life[c] = "waiting" /\ tLdap_getLdId(w) \in Ld
    BY <2>1, LdOfWorker, Zenon DEF CtxInv, OfList
  <2>3. Mine(c, 0)
    BY <1>2, <2>2, Zenon DEF CtxInv, Known, Mine
  <2> QED
    BY <2>1, <2>2, <2>3, Zenon DEF CtxInv, OfList, OneHolder
<1> QED
  BY <1>2, <1>3, <1>4, <1>5, <1>6, <1>7, Zenon

(* A context of a request in a list.                                       *)
LEMMA IsListed ==
  ASSUME TypePc, NEW c \in Ctx, CtxInv(c), NEW l \in Ld
  PROVE  /\ Waits(l, c) =>
              /\ life[c] = "waiting" /\ Mine(c, 0) /\ (req[c] = "set" => Nobody(c))
              /\ \A k \in Ld : (Waits(k, c) <=> k = l) /\ ~Answered(k, c)
         /\ Answered(l, c) =>
              /\ life[c] = "answered" /\ Mine(c, 0) /\ req[c] = "set" /\ Nobody(c)
              /\ \A k \in Ld : (Answered(k, c) <=> k = l) /\ ~Waits(k, c)
<1>1. \A v \in Worker : pc[v].ctx = c => Has(v, c, Holding)
  BY MarkAssumption, Zenon DEF TypePc, Place, Has
<1>2. \A v \in Worker : Has(v, c, Holding) =>
        Has(v, c, Sending) \/ Has(v, c, {"answer"}) \/ Has(v, c, {"timeout"})
  BY Zenon DEF Has, Holding
<1>3. ASSUME Waits(l, c)
      PROVE  /\ life[c] = "waiting" /\ Mine(c, 0) /\ (req[c] = "set" => Nobody(c))
             /\ \A k \in Ld : (Waits(k, c) <=> k = l) /\ ~Answered(k, c)
  <2>1. life[c] = "waiting" /\ Mine(c, 0)
    BY <1>3, Zenon DEF CtxInv, Known, OfList, Mine
  <2>2. req[c] = "set" => Nobody(c)
    BY <1>1, <1>2, <2>1, Zenon DEF CtxInv, OfWorker, Nobody
  <2> QED
    BY <1>3, <2>1, <2>2, Zenon DEF CtxInv, OfList, OneHolder
<1>4. ASSUME Answered(l, c)
      PROVE  /\ life[c] = "answered" /\ Mine(c, 0) /\ req[c] = "set" /\ Nobody(c)
             /\ \A k \in Ld : (Answered(k, c) <=> k = l) /\ ~Waits(k, c)
  <2>1. life[c] = "answered" /\ Mine(c, 0) /\ req[c] = "set"
    BY <1>4, Zenon DEF CtxInv, Known, OfList, Mine
  <2>2. Nobody(c)
    BY <1>1, <1>2, <1>4, <2>1, Zenon DEF CtxInv, OfWorker, OfList, Nobody
  <2> QED
    BY <1>4, <2>1, <2>2, Zenon DEF CtxInv, OfList, OneHolder
<1> QED
  BY <1>3, <1>4, Zenon


(***************************************************************************)
(* The stages of a context's life, as a step leaves it.                    *)
(***************************************************************************)
(* Nobody holds the context and no list has it: free, or treated.          *)
LEMMA NowForgotten ==
  ASSUME NEW c, Known(c)', Nobody(c)', NoList(c)'
  PROVE  CtxInv(c)'
<1>1. \A w \in Worker : OfWorker(w, c)'
  BY Zenon DEF OfWorker, Has, Nobody
<1>2. \A l \in Ld : OfList(l, c)'
  BY Zenon DEF OfList, NoList
<1>3. OneHolder(c)'
  BY Zenon DEF OneHolder, Has, Nobody, NoList
<1> QED
  BY <1>1, <1>2, <1>3, Zenon DEF CtxInv

(* A worker alone has the context, in the search or with the answer.       *)
LEMMA NowHeld ==
  ASSUME NEW w \in Worker, NEW c, Known(c)', Alone(w, c)', NoList(c)', c \in alloc',
         \/ /\ pc'[w].at \in Sending /\ life'[c] = "unsent"
            /\ pc'[w].at \in {"send", "insert"} => req'[c] = "set"
         \/ pc'[w].at = "answer" /\ life'[c] = "answered" /\ req'[c] = "set"
  PROVE  CtxInv(c)'
<1>1. \A v \in Worker : OfWorker(v, c)'
  <2> SUFFICES ASSUME NEW v \in Worker PROVE OfWorker(v, c)'
    BY Zenon
  <2>1. CASE v # w
    BY <2>1, Zenon DEF OfWorker, Has, Alone
  <2>2. CASE v = w
    <3>1. OfWorker(w, c)'
      BY Zenon DEF OfWorker, Has, Sending
    <3> QED
      BY <2>2, <3>1, Zenon
  <2> QED
    BY <2>1, <2>2, Zenon
<1>2. \A l \in Ld : OfList(l, c)'
  BY Zenon DEF OfList, NoList
<1>3. OneHolder(c)'
  BY Zenon DEF OneHolder, Has, Alone, NoList
<1> QED
  BY <1>1, <1>2, <1>3, Zenon DEF CtxInv

(* The request waits, and no worker has the context.                       *)
LEMMA NowWaiting ==
  ASSUME NEW l \in Ld, NEW c, Known(c)', Nobody(c)', c \in alloc',
         life'[c] = "waiting", req'[c] = "set",
         \A k \in Ld : (Waits(k, c)' <=> k = l) /\ ~Answered(k, c)'
  PROVE  CtxInv(c)'
<1>1. \A v \in Worker : OfWorker(v, c)'
  BY Zenon DEF OfWorker, Has, Nobody
<1>2. \A k \in Ld : OfList(k, c)'
  BY Zenon DEF OfList
<1>3. OneHolder(c)'
  BY Zenon DEF OneHolder, Has, Nobody
<1> QED
  BY <1>1, <1>2, <1>3, Zenon DEF CtxInv

(* The request is answered, and no worker has the context.                 *)
LEMMA NowAnswered ==
  ASSUME NEW l \in Ld, NEW c, Known(c)', Nobody(c)', c \in alloc',
         life'[c] = "answered", req'[c] = "set",
         \A k \in Ld : (Answered(k, c)' <=> k = l) /\ ~Waits(k, c)'
  PROVE  CtxInv(c)'
<1>1. \A v \in Worker : OfWorker(v, c)'
  BY Zenon DEF OfWorker, Has, Nobody
<1>2. \A k \in Ld : OfList(k, c)'
  BY Zenon DEF OfList, Has, Nobody
<1>3. OneHolder(c)'
  BY Zenon DEF OneHolder, Has, Nobody
<1> QED
  BY <1>1, <1>2, <1>3, Zenon DEF CtxInv

(* A worker alone has the context, which has timed out; a list has it too. *)
LEMMA NowTimedOut ==
  ASSUME NEW w \in Worker, NEW c, Known(c)', Alone(w, c)', c \in alloc',
         pc'[w].at = "timeout", life'[c] = "waiting", req'[c] = "NULL", asleep'[c] = Awake,
         \A k \in Ld : (Waits(k, c)' <=> k = tLdap_getLdId(w)) /\ ~Answered(k, c)'
  PROVE  CtxInv(c)'
<1>0. tLdap_getLdId(w) \in Ld /\ Has(w, c, {"timeout"})'
  BY LdOfWorker, Zenon DEF Has, Alone
<1>1. \A v \in Worker : OfWorker(v, c)'
  <2> SUFFICES ASSUME NEW v \in Worker PROVE OfWorker(v, c)'
    BY Zenon
  <2>1. CASE v # w
    BY <2>1, Zenon DEF OfWorker, Has, Alone
  <2>2. CASE v = w
    <3>1. OfWorker(w, c)'
      BY <1>0, Zenon DEF OfWorker, Has, Sending
    <3> QED
      BY <2>2, <3>1, Zenon
  <2> QED
    BY <2>1, <2>2, Zenon
<1>2. \A k \in Ld : OfList(k, c)'
  BY <1>0, Zenon DEF OfList
<1>3. OneHolder(c)'
  BY Zenon DEF OneHolder, Has, Alone
<1> QED
  BY <1>1, <1>2, <1>3, Zenon DEF CtxInv


(* The contexts a worker neither had nor takes.                            *)
LEMMA OthersHeld ==
  ASSUME NEW w \in Worker, NEW p, NEW c, NEW m, Moves(w, p, c, m),
         NEW d, d # c, d # pc[w].ctx
  PROVE  SameHolders(d)
  BY Zenon DEF Moves, SameHolders

(* A worker takes a context that nobody else has.                          *)
LEMMA TakesAlone ==
  ASSUME NEW w \in Worker, NEW p, NEW c, NEW m, Moves(w, p, c, m), Nobody(c) \/ Alone(w, c)
  PROVE  Alone(w, c)'
  BY Zenon DEF Moves, Nobody, Alone

(* A worker lets its context go.                                           *)
LEMMA LetsGo ==
  ASSUME NEW w \in Worker, NEW p, NEW m, Moves(w, p, NULL, m), NEW c \in Ctx, Alone(w, c)
  PROVE  Nobody(c)'
  BY MarkAssumption, Zenon DEF Moves, Nobody, Alone

(* Lists that do not change.                                               *)
LEMMA ListsKept ==
  ASSUME UNCHANGED listVars
  PROVE  /\ \A c : SameLists(c)
         /\ \A c : NoList(c) => NoList(c)'
         /\ Safe => \A l \in Ld : (Once(ldReq[l]) /\ Once(ldResp[l]))'
  BY Zenon DEF listVars, SameLists, NoList, Waits, Answered, Safe

(* A timer that does not change.                                           *)
LEMMA TimerKept ==
  ASSUME UNCHANGED timerVars
  PROVE  \A c : SameTimer(c)
  BY Zenon DEF timerVars, SameTimer

(* The variables of a context that do not change.                          *)
LEMMA LifeKept ==
  ASSUME UNCHANGED <<alloc, req, life, resumed>>
  PROVE  \A c : SameLife(c)
  BY Zenon DEF SameLife

(* A new search keeps every context safe.                                  *)
LEMMA SearchRqSafe ==
  ASSUME LocalInv, Safe, NEW w \in Worker, SearchRq(w)
  PROVE  Safe'
<1>0. TypeTimer /\ TypeMem /\ TypePc /\ TypeHist /\ pc \in [Worker -> Local] /\ Place(pc[w])
  BY LocalParts, Zenon DEF TypePc
<1>1. PICK c \in Ctx \ alloc, r \in {"garbage", "NULL"} :
        /\ alloc' = alloc \cup {c}
        /\ req' = [req EXCEPT ![c] = r]
        /\ life' = [life EXCEPT ![c] = "unsent"]
        /\ resumed' = [resumed EXCEPT ![c] = 0]
        /\ pc' = [pc EXCEPT ![w] = [At("sleep") EXCEPT !.ctx = c]]
  BY Zenon DEF SearchRq
<1>2. UNCHANGED listVars /\ UNCHANGED timerVars /\ pc[w].at = "run"
  BY Zenon DEF SearchRq
<1>3. Moves(w, "sleep", c, NULL)
  BY <1>0, <1>1, TakeMoves, Zenon DEF Places
<1>4. pc[w].ctx = NULL
  BY <1>0, <1>2, Zenon DEF Place, Holding, Sending
<1>5. Nobody(c) /\ NoList(c) /\ asleep[c] = Awake
  BY <1>0, IsFree, Zenon DEF Safe
<1>6. CtxInv(c)'
  <2>1. Alone(w, c)' /\ NoList(c)'
    BY <1>2, <1>3, <1>5, TakesAlone, ListsKept, Zenon
  <2>2. life'[c] = "unsent" /\ resumed'[c] = 0 /\ c \in alloc'
    BY <1>0, <1>1, Zenon DEF TypeHist
  <2>3. resumed'[c] <= 1
    BY <2>2
  <2>4. Known(c)'
    BY <2>2, <2>3, Zenon DEF Known
  <2>5. pc'[w].at \in Sending /\ pc'[w].at \notin {"send", "insert"}
    BY <1>3, Zenon DEF Moves, Sending
  <2> QED
    BY <2>1, <2>2, <2>4, <2>5, NowHeld, Zenon
<1>7. ASSUME NEW d \in Ctx, d # c PROVE CtxInv(d)'
  <2>1. SameLife(d)
    BY <1>0, <1>1, <1>7, Zenon DEF SameLife, TypeMem, TypeHist
  <2>2. SameHolders(d)
    BY <1>3, <1>4, <1>7, MarkAssumption, OthersHeld, Zenon
  <2> QED
    BY <1>2, <2>1, <2>2, TimerKept, ListsKept, CtxFrame, Zenon DEF Safe
<1> QED
  BY <1>2, <1>6, <1>7, ListsKept, Zenon DEF Safe

(* Up to the insertion the search is its worker's own affair.              *)
LEMMA SendingSafe ==
  ASSUME LocalInv, Safe, NEW w \in Worker,
         SetUserToSleep(w) \/ BuildRequest(w) \/ Send(w)
  PROVE  Safe'
<1>0. TypeTimer /\ TypeMem /\ TypePc /\ TypeHist /\ pc \in [Worker -> Local] /\ Place(pc[w])
  BY LocalParts, Zenon DEF TypePc
<1>1. /\ pc[w].at \in {"sleep", "build", "send"}
      /\ UNCHANGED <<alloc, life, resumed>> /\ UNCHANGED listVars
  BY Zenon DEF SetUserToSleep, BuildRequest, Send, memVars, histVars
<1>2. PICK c \in Ctx : c = pc[w].ctx
  BY <1>0, <1>1, RecEta, Zenon DEF Place, Holding, Sending
<1>3. PICK p \in {"build", "send", "insert"}, m \in Msg \cup {NULL} : Moves(w, p, c, m)
  <2>0. pc[w].id \in Msg \cup {NULL}
    BY <1>0, RecEta, Zenon
  <2>1. CASE SetUserToSleep(w)
    BY <1>0, <1>2, <2>0, <2>1, GotoMoves, Zenon DEF SetUserToSleep, Places
  <2>2. CASE BuildRequest(w)
    BY <1>0, <1>2, <2>0, <2>2, GotoMoves, Zenon DEF BuildRequest, Places
  <2>3. CASE Send(w)
    BY <1>0, <1>2, <2>3, SendMoves, Zenon DEF Send, FreshMsg
  <2> QED
    BY <2>1, <2>2, <2>3, Zenon
<1>4. /\ Alone(w, c) /\ NoList(c) /\ life[c] = "unsent" /\ Mine(c, 0)
      /\ pc[w].at = "send" => req[c] = "set"
  BY <1>0, <1>1, <1>2, IsHeld, Zenon DEF Safe, Sending
<1>5. p \in {"send", "insert"} => req'[c] = "set"
  <2>1. CASE SetUserToSleep(w)
    BY <1>0, <1>3, <2>1, GotoMoves, Zenon DEF SetUserToSleep, Places, Moves
  <2>2. CASE BuildRequest(w)
    BY <1>0, <1>2, <2>2, Zenon DEF BuildRequest, TypeMem
  <2>3. CASE Send(w)
    BY <1>4, <2>3, Zenon DEF Send, memVars
  <2> QED
    BY <2>1, <2>2, <2>3, Zenon
<1>6. CtxInv(c)'
  <2>1. Alone(w, c)' /\ NoList(c)'
    BY <1>1, <1>3, <1>4, TakesAlone, ListsKept, Zenon
  <2>2. /\ life'[c] = "unsent" /\ resumed'[c] = 0 /\ c \in alloc' /\ resumed'[c] <= 1
    BY <1>1, <1>4, Zenon DEF Mine
  <2>3. Known(c)'
    BY <2>2, Zenon DEF Known
  <2>4. pc'[w].at = p /\ p \in Sending
    BY <1>3, Zenon DEF Moves, Sending
  <2> QED
    BY <1>5, <2>1, <2>2, <2>3, <2>4, NowHeld, Zenon
<1>7. ASSUME NEW d \in Ctx, d # c PROVE CtxInv(d)'
  <2>1. SameLife(d) /\ SameTimer(d)
    <3>1. CASE SetUserToSleep(w)
      <4>1. req' = req
        BY <3>1, Zenon DEF SetUserToSleep, memVars
      <4>2. asleep'[d] = asleep[d]
        BY <1>0, <1>2, <1>7, <3>1, Zenon
           DEF SetUserToSleep, Timer!Sleep, timerVars, TypeTimer
      <4> QED
        BY <1>1, <4>1, <4>2, Zenon DEF SameLife, SameTimer
    <3>2. CASE BuildRequest(w)
      BY <1>0, <1>1, <1>2, <1>7, <3>2, Zenon
         DEF BuildRequest, SameLife, SameTimer, timerVars, TypeMem
    <3>3. CASE Send(w)
      BY <1>1, <3>3, Zenon DEF Send, SameLife, SameTimer, timerVars, memVars
    <3> QED
      BY <3>1, <3>2, <3>3, Zenon
  <2>2. SameHolders(d)
    BY <1>2, <1>3, <1>7, OthersHeld, Zenon
  <2> QED
    BY <1>1, <2>1, <2>2, ListsKept, CtxFrame, Zenon DEF Safe
<1> QED
  BY <1>1, <1>6, <1>7, ListsKept, Zenon DEF Safe


(* The requests of one connection become t.                                *)
LEMMA ReqOnly ==
  ASSUME TypeLists, NEW l \in Ld, NEW t, ldReq' = [ldReq EXCEPT ![l] = t]
  PROVE  /\ ldReq'[l] = t /\ \A k \in Ld \ {l} : ldReq'[k] = ldReq[k]
         /\ \A c : Waits(l, c)' <=> c \in Contexts(t)
         /\ \A c : \A k \in Ld \ {l} : Waits(k, c)' <=> Waits(k, c)
<1>1. ldReq'[l] = t /\ \A k \in Ld \ {l} : ldReq'[k] = ldReq[k]
  BY Zenon DEF TypeLists
<1> QED
  BY <1>1, Zenon DEF Waits

(* The answers of one connection become t.                                 *)
LEMMA RespOnly ==
  ASSUME TypeLists, NEW l \in Ld, NEW t, ldResp' = [ldResp EXCEPT ![l] = t]
  PROVE  /\ ldResp'[l] = t /\ \A k \in Ld \ {l} : ldResp'[k] = ldResp[k]
         /\ \A c : Answered(l, c)' <=> c \in Contexts(t)
         /\ \A c : \A k \in Ld \ {l} : Answered(k, c)' <=> Answered(k, c)
<1>1. ldResp'[l] = t /\ \A k \in Ld \ {l} : ldResp'[k] = ldResp[k]
  BY Zenon DEF TypeLists
<1> QED
  BY <1>1, Zenon DEF Answered

(* The insertion: the request waits, and its worker lets the context go.   *)
LEMMA InsertSafe ==
  ASSUME LocalInv, Safe, NEW w \in Worker, insert_Request(w)
  PROVE  Safe'
<1>0. /\ TypeMem /\ TypeLists /\ TypePc /\ TypeHist
      /\ pc \in [Worker -> Local] /\ Place(pc[w])
  BY LocalParts, Zenon DEF TypePc
<1>1. /\ pc[w].at = "insert" /\ Leave(w, "top")
      /\ UNCHANGED timerVars /\ UNCHANGED <<alloc, req, resumed, ldResp>>
  BY Zenon DEF insert_Request, memVars
<1>2. PICK c \in Ctx, m \in Msg, l \in Ld :
        c = pc[w].ctx /\ m = pc[w].id /\ l = tLdap_getLdId(w)
  BY <1>0, <1>1, RecEta, LdOfWorker, Zenon DEF Place, Holding, Sending
<1>3. PICK e \in Element, s \in Seq(Element) :
        e = [id |-> m, ctx |-> c] /\ e.ctx = c /\ s = ldReq[l]
  <2>1. [id |-> m, ctx |-> c] \in Element /\ [id |-> m, ctx |-> c].ctx = c
    BY Zenon DEF Element
  <2> QED
    BY <1>0, <2>1, Zenon DEF TypeLists
<1>t. PICK t : t = Append(s, e)
  BY Zenon
<1>4. ldReq' = [ldReq EXCEPT ![l] = t] /\ life' = [life EXCEPT ![c] = "waiting"]
  BY <1>2, <1>3, <1>t, Zenon DEF insert_Request
<1>5. Moves(w, "top", NULL, NULL)
  BY <1>0, <1>1, LeaveMoves, Zenon DEF Places
<1>6. Alone(w, c) /\ NoList(c) /\ Mine(c, 0) /\ req[c] = "set"
  BY <1>0, <1>1, <1>2, IsHeld, Zenon DEF Safe, Sending
<1>7. /\ Contexts(t) = Contexts(s) \cup {c}
      /\ Once(s) /\ c \notin Contexts(s) => Once(t)
  <2>1. /\ Contexts(t) = Contexts(s) \cup {e.ctx}
        /\ Once(s) /\ e.ctx \notin Contexts(s) => Once(t)
    BY <1>t, AppendedSets
  <2>2. e.ctx = c
    BY <1>3, Zenon
  <2> QED
    BY <2>1, <2>2, Zenon
<1>8. /\ ldReq'[l] = t /\ \A k \in Ld \ {l} : ldReq'[k] = ldReq[k]
      /\ \A d : Waits(l, d)' <=> d \in Contexts(t)
      /\ \A d : \A k \in Ld \ {l} : Waits(k, d)' <=> Waits(k, d)
  BY <1>0, <1>4, ReqOnly, Zenon
<1>9. \A d, k : Answered(k, d)' <=> Answered(k, d)
  BY <1>1, Zenon DEF Answered
<1>10. \A k \in Ld : (Once(ldReq[k]) /\ Once(ldResp[k]))'
  <2>1. Once(s) /\ c \notin Contexts(s)
    BY <1>3, <1>6, Zenon DEF Safe, NoList, Waits
  <2>2. \A k \in Ld : Once(ldReq'[k])
    BY <1>7, <1>8, <2>1, Zenon DEF Safe
  <2>3. \A k \in Ld : Once(ldResp'[k])
    BY <1>1, Zenon DEF Safe
  <2> QED
    BY <2>2, <2>3, Zenon DEF Once
<1>11. CtxInv(c)'
  <2>1. Nobody(c)'
    BY <1>5, <1>6, LetsGo, Zenon
  <2>2. /\ life'[c] = "waiting" /\ resumed'[c] = 0 /\ c \in alloc' /\ resumed'[c] <= 1
        /\ req'[c] = "set"
    BY <1>0, <1>1, <1>4, <1>6, Zenon DEF Mine, TypeHist
  <2>3. Known(c)'
    BY <2>2, Zenon DEF Known
  <2>4. \A k \in Ld : (Waits(k, c)' <=> k = l) /\ ~Answered(k, c)'
    BY <1>6, <1>7, <1>8, <1>9, Zenon DEF NoList
  <2> QED
    BY <2>1, <2>2, <2>3, <2>4, NowWaiting, Zenon
<1>12. ASSUME NEW d \in Ctx, d # c PROVE CtxInv(d)'
  <2>1. SameLife(d)
    BY <1>0, <1>1, <1>4, <1>12, Zenon DEF SameLife, TypeHist
  <2>2. SameHolders(d)
    BY <1>2, <1>5, <1>12, MarkAssumption, OthersHeld, Zenon
  <2>3. SameLists(d)
    BY <1>3, <1>7, <1>8, <1>9, <1>12, Zenon DEF SameLists, Waits
  <2> QED
    BY <1>1, <2>1, <2>2, <2>3, TimerKept, CtxFrame, Zenon DEF Safe
<1> QED
  BY <1>10, <1>11, <1>12, Zenon DEF Safe


(* A worker takes the first answer of its connection, if there is one.     *)
LEMMA TakeSafe ==
  ASSUME LocalInv, Safe, NEW w \in Worker, getAndRemove_firstResponse(w)
  PROVE  Safe'
<1>0. TypeLists /\ TypePc /\ pc \in [Worker -> Local] /\ Place(pc[w])
  BY LocalParts, Zenon DEF TypePc
<1>1. PICK l \in Ld : l = tLdap_getLdId(w)
  BY LdOfWorker, Zenon
<1>2. /\ pc[w].at = "top"
      /\ UNCHANGED timerVars /\ UNCHANGED <<alloc, req, life, resumed, ldReq>>
  BY Zenon DEF getAndRemove_firstResponse, memVars, histVars
<1>3. pc[w].ctx = NULL
  BY <1>0, <1>2, Zenon DEF Place, Holding, Sending
<1>4. CASE ldResp[l] = <<>>
  <2>1. Goto(w, "poll") /\ UNCHANGED listVars
    BY <1>1, <1>2, <1>4, Zenon DEF getAndRemove_firstResponse, listVars
  <2>2. PICK m : Moves(w, "poll", NULL, m)
    BY <1>0, <1>3, <2>1, GotoMoves, Zenon DEF Places
  <2>3. ASSUME NEW d \in Ctx PROVE CtxInv(d)'
    <3>1. SameHolders(d)
      BY <1>3, <2>2, MarkAssumption, OthersHeld, Zenon
    <3> QED
      BY <1>2, <2>1, <3>1, LifeKept, TimerKept, ListsKept, CtxFrame, Zenon DEF Safe
  <2> QED
    BY <2>1, <2>3, ListsKept, Zenon DEF Safe
<1>5. CASE ldResp[l] # <<>>
  <2>1. PICK s \in Seq(Element) : s = ldResp[l]
    BY <1>0, Zenon DEF TypeLists
  <2>2. PICK c \in Ctx : c = Head(s).ctx
    BY <1>5, <2>1, TailSets, Zenon DEF Element
  <2>3. PICK t : t = Tail(s)
    BY Zenon
  <2>4. /\ s = ldResp[l] /\ t = Tail(s) /\ c = Head(s).ctx /\ c \in Contexts(s)
        /\ Once(t) /\ Contexts(t) = Contexts(s) \ {c}
    <3>1. Once(s) /\ s # <<>>
      BY <1>5, <2>1, Zenon DEF Safe
    <3>2. /\ Head(s).ctx \in Contexts(s)
          /\ Once(Tail(s)) /\ Contexts(Tail(s)) = Contexts(s) \ {Head(s).ctx}
      BY <3>1, TailSets, Zenon
    <3> QED
      BY <2>1, <2>2, <2>3, <3>2
  <2>5. /\ pc' = [pc EXCEPT ![w] = [At("answer") EXCEPT !.ctx = c]]
        /\ ldResp' = [ldResp EXCEPT ![l] = t]
    BY <1>1, <1>5, <2>4, Zenon DEF getAndRemove_firstResponse
  <2>6. Moves(w, "answer", c, NULL)
    BY <1>0, <2>5, TakeMoves, Zenon DEF Places
  <2>7. /\ life[c] = "answered" /\ Mine(c, 0) /\ req[c] = "set" /\ Nobody(c)
        /\ \A k \in Ld : (Answered(k, c) <=> k = l) /\ ~Waits(k, c)
    <3>1. Answered(l, c)
      BY <2>4, Zenon DEF Answered
    <3> QED
      BY <1>0, <3>1, IsListed, Zenon DEF Safe
  <2>8. /\ ldResp'[l] = t /\ \A k \in Ld \ {l} : ldResp'[k] = ldResp[k]
        /\ \A d : Answered(l, d)' <=> d \in Contexts(t)
        /\ \A d : \A k \in Ld \ {l} : Answered(k, d)' <=> Answered(k, d)
    BY <1>0, <2>5, RespOnly, Zenon
  <2>9. \A d, k : Waits(k, d)' <=> Waits(k, d)
    BY <1>2, Zenon DEF Waits
  <2>10. \A k \in Ld : (Once(ldReq[k]) /\ Once(ldResp[k]))'
    <3>1. \A k \in Ld : Once(ldReq'[k]) /\ Once(ldResp'[k])
      BY <1>2, <2>4, <2>8, Zenon DEF Safe
    <3> QED
      BY <3>1, Zenon DEF Once
  <2>11. CtxInv(c)'
    <3>1. Alone(w, c)'
      BY <2>6, <2>7, TakesAlone, Zenon
    <3>2. /\ life'[c] = "answered" /\ resumed'[c] = 0 /\ c \in alloc' /\ resumed'[c] <= 1
          /\ req'[c] = "set"
      BY <1>2, <2>7, Zenon DEF Mine
    <3>3. Known(c)'
      BY <3>2, Zenon DEF Known
    <3>4. NoList(c)'
      BY <2>4, <2>7, <2>8, <2>9, Zenon DEF NoList
    <3>5. pc'[w].at = "answer"
      BY <2>6, Zenon DEF Moves
    <3> QED
      BY <3>1, <3>2, <3>3, <3>4, <3>5, NowHeld, Zenon
  <2>12. ASSUME NEW d \in Ctx, d # c PROVE CtxInv(d)'
    <3>1. SameHolders(d)
      BY <1>3, <2>6, <2>12, MarkAssumption, OthersHeld, Zenon
    <3>2. SameLists(d)
      BY <2>4, <2>8, <2>9, <2>12, Zenon DEF SameLists, Answered
    <3> QED
      BY <1>2, <3>1, <3>2, LifeKept, TimerKept, CtxFrame, Zenon DEF Safe
  <2> QED
    BY <2>10, <2>11, <2>12, Zenon DEF Safe
<1> QED
  BY <1>4, <1>5, Zenon

(* The answer is treated: the scenario goes on, and the timer frees later. *)
LEMMA AnswerSafe ==
  ASSUME LocalInv, Safe, NEW w \in Worker, LDAP_Search_Resp(w)
  PROVE  Safe'
<1>0. TypeMem /\ TypePc /\ TypeHist /\ pc \in [Worker -> Local] /\ Place(pc[w])
  BY LocalParts, Zenon DEF TypePc
<1>1. /\ pc[w].at = "answer" /\ Leave(w, "run") /\ UNCHANGED alloc
      /\ UNCHANGED timerVars /\ UNCHANGED listVars
  BY Zenon DEF LDAP_Search_Resp
<1>2. PICK c \in Ctx : c = pc[w].ctx
  BY <1>0, <1>1, RecEta, Zenon DEF Place, Holding
<1>3. Alone(w, c) /\ NoList(c) /\ life[c] = "answered" /\ req[c] = "set" /\ Mine(c, 0)
  BY <1>0, <1>1, <1>2, IsHeld, Zenon DEF Safe
<1>4. /\ req' = [req EXCEPT ![c] = "NULL"] /\ life' = [life EXCEPT ![c] = "treated"]
      /\ GoesOn(c)
  BY <1>2, <1>3, Zenon DEF LDAP_Search_Resp, ReqAfterAnswer
<1>5. Moves(w, "run", NULL, NULL)
  BY <1>0, <1>1, LeaveMoves, Zenon DEF Places
<1>6. \A d \in Ctx : resumed'[d] =
        IF d = c THEN IF resumed[d] < 2 THEN resumed[d] + 1 ELSE 2 ELSE resumed[d]
  BY <1>0, <1>4, GoesOnType, Zenon
<1>7. CtxInv(c)'
  <2>1. Nobody(c)' /\ NoList(c)'
    BY <1>1, <1>3, <1>5, LetsGo, ListsKept, Zenon
  <2>2. life'[c] = "treated" /\ req'[c] = "NULL" /\ c \in alloc'
    BY <1>0, <1>1, <1>3, <1>4, Zenon DEF TypeHist, TypeMem, Mine
  <2>3. resumed'[c] <= 1
    <3>1. resumed[c] = 0
      BY <1>3, Zenon DEF Mine
    <3> QED
      BY <1>6, <3>1
  <2>4. Known(c)'
    BY <2>2, <2>3, Zenon DEF Known
  <2> QED
    BY <2>1, <2>4, NowForgotten, Zenon
<1>8. ASSUME NEW d \in Ctx, d # c PROVE CtxInv(d)'
  <2>1. SameLife(d)
    BY <1>0, <1>1, <1>4, <1>6, <1>8, Zenon DEF SameLife, TypeHist, TypeMem
  <2>2. SameHolders(d)
    BY <1>2, <1>5, <1>8, MarkAssumption, OthersHeld, Zenon
  <2> QED
    BY <1>1, <2>1, <2>2, TimerKept, ListsKept, CtxFrame, Zenon DEF Safe
<1> QED
  BY <1>1, <1>7, <1>8, ListsKept, Zenon DEF Safe


(* A context that is due is freed when its answer was treated.  If not,    *)
(* and its request waits in the list of the worker, it has timed out.      *)
LEMMA ResumeSafe ==
  ASSUME LocalInv, Safe, NEW w \in Worker, NEW c \in Ctx, GetUserToResume(w, c),
         mishap' = "none"
  PROVE  Safe'
<1>0. /\ TypeTimer /\ TypeMem /\ TypeLists /\ TypePc /\ TypeHist
      /\ pc \in [Worker -> Local] /\ Place(pc[w])
  BY LocalParts, Zenon DEF TypePc
<1>1. /\ pc[w].at = "poll" /\ Timer!Resume(c)
      /\ UNCHANGED listVars /\ UNCHANGED <<life, resumed>>
  BY Zenon DEF GetUserToResume
<1>2. PICK l \in Ld : l = tLdap_getLdId(w)
  BY LdOfWorker, Zenon
<1>3. pc[w].ctx = NULL
  BY <1>0, <1>1, Zenon DEF Place, Holding, Sending
<1>4. CtxInv(c) /\ c \in alloc
  <2>1. 0 \in 0 .. tcLdapTimeout
    BY SizeAssumption
  <2> QED
    BY <1>1, <2>1, Zenon DEF Timer!Resume, Safe, CtxInv, Known
<1>5. asleep'[c] = Awake /\ \A d \in Ctx \ {c} : asleep'[d] = asleep[d]
  BY <1>0, <1>1, Zenon DEF Timer!Resume, TypeTimer
<1>6. life[c] = "treated" \/ Waits(l, c)
  BY <1>2, <1>4, Zenon DEF GetUserToResume, Happens, Waits, CtxInv, Known
<1>7. resumed'[c] <= 1 /\ life'[c] # "failed"
  BY <1>1, <1>4, Zenon DEF CtxInv, Known
<1>8. CASE req[c] = "NULL"
  <2>1. alloc' = alloc \ {c} /\ Leave(w, "top") /\ UNCHANGED req
    BY <1>8, Zenon DEF GetUserToResume
  <2>2. Moves(w, "top", NULL, NULL)
    BY <1>0, <2>1, LeaveMoves, Zenon DEF Places
  <2>3. Nobody(c) /\ NoList(c)
    <3>1. life[c] = "treated"
      <4>1. ASSUME Waits(l, c) PROVE \E v \in Worker : Has(v, c, {"timeout"})
        BY <1>4, <1>8, <4>1, Zenon DEF CtxInv, OfList
      <4>2. ASSUME NEW v \in Worker, Has(v, c, {"timeout"}) PROVE FALSE
        <5>1. asleep[c] = Awake
          BY <1>4, <4>2, Zenon DEF CtxInv, OfWorker
        <5> QED
          BY <1>1, <5>1, MarkAssumption DEF Timer!Resume
      <4> QED
        BY <1>6, <4>1, <4>2, Zenon
    <3>2. \A v \in Worker : pc[v].ctx = c => Has(v, c, Holding)
      BY <1>0, MarkAssumption, Zenon DEF TypePc, Place, Has
    <3>3. \A v \in Worker : Has(v, c, Holding) =>
            Has(v, c, Sending) \/ Has(v, c, {"answer"}) \/ Has(v, c, {"timeout"})
      BY Zenon DEF Has, Holding
    <3>4. NoList(c)
      BY <1>4, <3>1, Zenon DEF CtxInv, OfList, NoList
    <3>5. \A v \in Worker : ~Has(v, c, {"timeout"})
      BY <1>4, <3>4, LdOfWorker, Zenon DEF CtxInv, OfWorker, NoList
    <3> QED
      BY <1>4, <3>1, <3>2, <3>3, <3>4, <3>5, Zenon DEF CtxInv, OfWorker, Nobody
  <2>4. CtxInv(c)'
    <3>1. Nobody(c)'
      BY <2>2, <2>3, MarkAssumption, Zenon DEF Nobody, Moves
    <3>2. NoList(c)'
      BY <1>1, <2>3, ListsKept, Zenon
    <3>3. asleep'[c] \notin 0 .. tcLdapTimeout /\ c \notin alloc'
      BY <1>5, <2>1, MarkAssumption
    <3>4. Known(c)'
      BY <1>5, <1>7, <3>3, Zenon DEF Known
    <3> QED
      BY <3>1, <3>2, <3>4, NowForgotten, Zenon
  <2>5. ASSUME NEW d \in Ctx, d # c PROVE CtxInv(d)'
    <3>1. SameLife(d) /\ SameTimer(d)
      BY <1>1, <1>5, <2>1, <2>5, Zenon DEF SameLife, SameTimer
    <3>2. SameHolders(d)
      BY <1>3, <2>2, MarkAssumption, OthersHeld, Zenon
    <3> QED
      BY <1>1, <3>1, <3>2, ListsKept, CtxFrame, Zenon DEF Safe
  <2> QED
    BY <1>1, <2>4, <2>5, ListsKept, Zenon DEF Safe
<1>9. CASE req[c] # "NULL"
  <2>1. /\ req' = [req EXCEPT ![c] = "NULL"] /\ UNCHANGED alloc
        /\ pc' = [pc EXCEPT ![w] = [At("timeout") EXCEPT !.ctx = c]]
    BY <1>9, Zenon DEF GetUserToResume
  <2>2. Moves(w, "timeout", c, NULL)
    BY <1>0, <2>1, TakeMoves, Zenon DEF Places
  <2>3. Waits(l, c)
    BY <1>4, <1>6, <1>9, Zenon DEF CtxInv, Known
  <2>4. /\ life[c] = "waiting" /\ Mine(c, 0) /\ (req[c] = "set" => Nobody(c))
        /\ \A k \in Ld : (Waits(k, c) <=> k = l) /\ ~Answered(k, c)
    BY <1>0, <1>4, <2>3, IsListed, Zenon
  <2>5. Nobody(c)
    <3>1. ASSUME NEW v \in Worker, Has(v, c, {"timeout"}) PROVE FALSE
      BY <1>4, <1>9, <3>1, Zenon DEF CtxInv, OfWorker
    <3> QED
      BY <1>4, <2>3, <2>4, <3>1, Zenon DEF CtxInv, OfList
  <2>6. CtxInv(c)'
    <3>1. Alone(w, c)'
      BY <2>2, <2>5, TakesAlone, Zenon
    <3>2. /\ life'[c] = "waiting" /\ req'[c] = "NULL" /\ c \in alloc' /\ resumed'[c] = 0
      BY <1>0, <1>1, <1>4, <2>1, <2>4, Zenon DEF Mine, TypeMem
    <3>3. Known(c)'
      BY <1>5, <1>7, <3>2, Zenon DEF Known
    <3>4. \A k \in Ld : (Waits(k, c)' <=> k = tLdap_getLdId(w)) /\ ~Answered(k, c)'
      BY <1>1, <1>2, <2>4, Zenon DEF Waits, Answered, listVars
    <3>5. pc'[w].at = "timeout"
      BY <2>2, Zenon DEF Moves
    <3> QED
      BY <1>5, <3>1, <3>2, <3>3, <3>4, <3>5, NowTimedOut, Zenon
  <2>7. ASSUME NEW d \in Ctx, d # c PROVE CtxInv(d)'
    <3>1. SameLife(d) /\ SameTimer(d)
      BY <1>0, <1>1, <1>5, <2>1, <2>7, Zenon DEF SameLife, SameTimer, TypeMem
    <3>2. SameHolders(d)
      BY <1>3, <2>2, <2>7, MarkAssumption, OthersHeld, Zenon
    <3> QED
      BY <1>1, <3>1, <3>2, ListsKept, CtxFrame, Zenon DEF Safe
  <2> QED
    BY <1>1, <2>6, <2>7, ListsKept, Zenon DEF Safe
<1> QED
  BY <1>8, <1>9, Zenon


(* The timeout is treated: the request leaves the list and the context is  *)
(* freed.                                                                  *)
LEMMA TimeoutSafe ==
  ASSUME LocalInv, Safe, NEW w \in Worker, TimeoutResp(w)
  PROVE  Safe'
<1>0. /\ TypeTimer /\ TypeMem /\ TypeLists /\ TypePc /\ TypeHist
      /\ pc \in [Worker -> Local] /\ Place(pc[w])
  BY LocalParts, Zenon DEF TypePc
<1>1. /\ pc[w].at = "timeout" /\ Leave(w, "run")
      /\ UNCHANGED timerVars /\ UNCHANGED <<req, life, ldResp>>
  BY Zenon DEF TimeoutResp
<1>2. PICK c \in Ctx, l \in Ld : c = pc[w].ctx /\ l = tLdap_getLdId(w)
  BY <1>0, <1>1, RecEta, LdOfWorker, Zenon DEF Place, Holding
<1>3. alloc' = alloc \ {c} /\ GoesOn(c) /\ ldReq' = [ldReq EXCEPT ![l] = Without(ldReq[l], c)]
  BY <1>2, Zenon DEF TimeoutResp
<1>4. /\ Alone(w, c) /\ req[c] = "NULL" /\ asleep[c] = Awake /\ Mine(c, 0)
      /\ \A k \in Ld : (Waits(k, c) <=> k = l) /\ ~Answered(k, c)
  BY <1>0, <1>1, <1>2, IsHeld, Zenon DEF Safe
<1>5. PICK s \in Seq(Element) : s = ldReq[l]
  BY <1>0, Zenon DEF TypeLists
<1>6. PICK t : t = Without(s, c)
  BY Zenon
<1>7. Once(t) /\ Contexts(t) = Contexts(s) \ {c}
  <2>1. Once(s) /\ c \in Contexts(s)
    BY <1>4, <1>5, Zenon DEF Safe, Waits
  <2>2. PICK i \in DOMAIN s : s[i].ctx = c /\ Shorter(s, i, Without(s, c))
    BY <2>1, WithoutType, Zenon
  <2>3. Shorter(s, i, t)
    BY <1>6, <2>2
  <2>4. Once(t) /\ Contexts(t) = Contexts(s) \ {s[i].ctx}
    BY <2>1, <2>3, ShorterSets, Zenon
  <2> QED
    BY <2>2, <2>4
<1>8. /\ ldReq'[l] = t /\ \A k \in Ld \ {l} : ldReq'[k] = ldReq[k]
      /\ \A d : Waits(l, d)' <=> d \in Contexts(t)
      /\ \A d : \A k \in Ld \ {l} : Waits(k, d)' <=> Waits(k, d)
  <2>1. ldReq' = [ldReq EXCEPT ![l] = t]
    BY <1>3, <1>5, <1>6, Zenon
  <2> QED
    BY <1>0, <2>1, ReqOnly, Zenon
<1>9. \A d, k : Answered(k, d)' <=> Answered(k, d)
  BY <1>1, Zenon DEF Answered
<1>10. Moves(w, "run", NULL, NULL)
  BY <1>0, <1>1, LeaveMoves, Zenon DEF Places
<1>11. \A d \in Ctx : resumed'[d] =
         IF d = c THEN IF resumed[d] < 2 THEN resumed[d] + 1 ELSE 2 ELSE resumed[d]
  BY <1>0, <1>3, GoesOnType, Zenon
<1>12. \A k \in Ld : (Once(ldReq[k]) /\ Once(ldResp[k]))'
  <2>1. \A k \in Ld : Once(ldReq'[k]) /\ Once(ldResp'[k])
    BY <1>1, <1>7, <1>8, Zenon DEF Safe
  <2> QED
    BY <2>1, Zenon DEF Once
<1>13. CtxInv(c)'
  <2>1. Nobody(c)'
    BY <1>4, <1>10, LetsGo, Zenon
  <2>2. NoList(c)'
    BY <1>4, <1>7, <1>8, <1>9, Zenon DEF NoList
  <2>3. resumed'[c] <= 1
    <3>1. resumed[c] = 0
      BY <1>4, Zenon DEF Mine
    <3> QED
      BY <1>11, <3>1
  <2>4. asleep'[c] = Awake /\ life'[c] # "failed" /\ c \notin alloc'
    BY <1>1, <1>3, <1>4, Zenon DEF timerVars, Safe, CtxInv, Known
  <2>5. asleep'[c] \notin 0 .. tcLdapTimeout
    BY <2>4, MarkAssumption
  <2>6. Known(c)'
    BY <2>3, <2>4, <2>5, Zenon DEF Known
  <2> QED
    BY <2>1, <2>2, <2>6, NowForgotten, Zenon
<1>14. ASSUME NEW d \in Ctx, d # c PROVE CtxInv(d)'
  <2>1. SameLife(d)
    BY <1>1, <1>3, <1>11, <1>14, Zenon DEF SameLife
  <2>2. SameHolders(d)
    BY <1>2, <1>10, <1>14, MarkAssumption, OthersHeld, Zenon
  <2>3. SameLists(d)
    BY <1>5, <1>7, <1>8, <1>9, <1>14, Zenon DEF SameLists, Waits
  <2> QED
    BY <1>1, <2>1, <2>2, <2>3, TimerKept, CtxFrame, Zenon DEF Safe
<1> QED
  BY <1>12, <1>13, <1>14, Zenon DEF Safe

(* A step that touches no context, except for the time it sleeps.          *)
LEMMA IdleSafe ==
  ASSUME LocalInv, Safe, UNCHANGED listVars, UNCHANGED <<alloc, req, life, resumed>>,
         \A c \in Ctx : SameTimer(c) /\ SameHolders(c)
  PROVE  Safe'
<1>1. ASSUME NEW d \in Ctx PROVE CtxInv(d)'
  BY LifeKept, ListsKept, CtxFrame, Zenon DEF Safe
<1> QED
  BY <1>1, ListsKept, Zenon DEF Safe

(* The steps between two scenarios, the timer's and the arrival of an      *)
(* answer.                                                                 *)
LEMMA OthersSafe ==
  ASSUME LocalInv, Safe,
         \/ \E w \in Worker : NewScenario(w) \/ EndOfScenario(w)
         \/ TimerStep \/ \E l \in Ld : ldap_result(l)
  PROVE  Safe'
<1>0. TypeTimer /\ TypePc /\ pc \in [Worker -> Local]
  BY LocalParts, Zenon DEF TypePc
<1>1. ASSUME NEW w \in Worker, NewScenario(w) \/ EndOfScenario(w) PROVE Safe'
  <2>1. /\ pc[w].at \in {"poll", "run"} /\ UNCHANGED timerVars /\ UNCHANGED listVars
        /\ UNCHANGED <<alloc, req, life, resumed>>
    BY <1>1, Zenon DEF NewScenario, EndOfScenario, memVars, histVars
  <2>2. pc[w].ctx = NULL
    BY <1>0, <2>1, Zenon DEF TypePc, Place, Holding, Sending
  <2>3. PICK p : Moves(w, p, NULL, NULL)
    BY <1>0, <1>1, LeaveMoves, Zenon DEF NewScenario, EndOfScenario, Places
  <2>4. ASSUME NEW c \in Ctx PROVE SameHolders(c)
    BY <2>2, <2>3, MarkAssumption, OthersHeld, Zenon
  <2> QED
    BY <2>1, <2>4, TimerKept, IdleSafe, Zenon
<1>2. CASE TimerStep
  <2>1. UNCHANGED <<memVars, listVars, pc, histVars>>
    BY <1>2, Zenon DEF TimerStep
  <2>2. ASSUME NEW c \in Ctx PROVE SameTimer(c)
    <3>1. Awake \notin 0 .. tcLdapTimeout /\ Awake # 0 /\ Lost \notin 0 .. tcLdapTimeout
      BY MarkAssumption
    <3>2. \A n \in 1 .. tcLdapTimeout : n \in 0 .. tcLdapTimeout
      OBVIOUS
    <3>3. 0 \in 0 .. tcLdapTimeout
      BY SizeAssumption
    <3>4. CASE Timer!Tick
      BY <1>0, <3>1, <3>2, <3>4, Zenon DEF Timer!Tick, SameTimer, TypeTimer
    <3>5. CASE Timer!Close
      BY <1>0, <3>1, <3>5, Zenon DEF Timer!Close, SameTimer, TypeTimer
    <3>6. ASSUME NEW d \in Ctx, asleep[d] = 0, Timer!Lose(d) PROVE SameTimer(c)
      BY <1>0, <3>1, <3>3, <3>6, Zenon DEF Timer!Lose, SameTimer, TypeTimer
    <3> QED
      BY <1>2, <3>4, <3>5, <3>6, Zenon DEF TimerStep
  <2>3. \A c \in Ctx : SameHolders(c)
    BY <2>1, Zenon DEF SameHolders
  <2> QED
    BY <2>1, <2>2, <2>3, IdleSafe, Zenon DEF memVars, histVars
<1>3. ASSUME NEW l \in Ld, ldap_result(l) PROVE Safe'
  <2>1. UNCHANGED <<timerVars, memVars, listVars, pc, histVars>>
    BY <1>3, Zenon DEF ldap_result
  <2>2. \A c \in Ctx : SameHolders(c)
    BY <2>1, Zenon DEF SameHolders
  <2> QED
    BY <2>1, <2>2, TimerKept, IdleSafe, Zenon DEF memVars, histVars
<1> QED
  BY <1>1, <1>2, <1>3, Zenon


(* The select thread moves an answered request.                            *)
LEMMA MoveSafe ==
  ASSUME LocalInv, Safe, NEW l \in Ld, getAndMove_RequestToResponse(l), mishap' = "none"
  PROVE  Safe'
<1>0. TypeMem /\ TypeLists /\ TypePc /\ TypeHist
  BY LocalParts, Zenon
<1>1. /\ UNCHANGED timerVars /\ UNCHANGED <<alloc, req, resumed, pc>>
  BY Zenon DEF getAndMove_RequestToResponse, memVars
<1>2. \A d \in Ctx : SameHolders(d) /\ SameTimer(d)
  BY <1>1, TimerKept, Zenon DEF SameHolders
<1>3. CASE UNCHANGED <<listVars, life, mishap>>
  BY <1>1, <1>2, <1>3, IdleSafe, Zenon
<1>4. CASE \E i \in DOMAIN ldReq[l], x \in Element, t \in Seq(Element), u \in Seq(Element) :
             /\ x = ldReq[l][i] /\ x.id = received[l]
             /\ Shorter(ldReq[l], i, t) /\ ldReq' = [ldReq EXCEPT ![l] = t]
             /\ u = Append(ldResp[l], x) /\ ldResp' = [ldResp EXCEPT ![l] = u]
             /\ life' = [life EXCEPT ![x.ctx] = "answered"]
             /\ (mishap' = mishap /\ req[x.ctx] = "set") \/ mishap' = "crossed"
  <2>1. PICK i \in DOMAIN ldReq[l], x \in Element, t \in Seq(Element), u \in Seq(Element) :
          /\ x = ldReq[l][i] /\ x.id = received[l]
          /\ Shorter(ldReq[l], i, t) /\ ldReq' = [ldReq EXCEPT ![l] = t]
          /\ u = Append(ldResp[l], x) /\ ldResp' = [ldResp EXCEPT ![l] = u]
          /\ life' = [life EXCEPT ![x.ctx] = "answered"]
          /\ (mishap' = mishap /\ req[x.ctx] = "set") \/ mishap' = "crossed"
    BY <1>4, Zenon
  <2>2. PICK s \in Seq(Element), r \in Seq(Element) : s = ldReq[l] /\ r = ldResp[l]
    BY <1>0, Zenon DEF TypeLists
  <2>3. PICK c \in Ctx : c = x.ctx
    BY Zenon DEF Element
  <2>4. Waits(l, c)
    BY <2>1, <2>3, Zenon DEF Waits, Contexts
  <2>5. req[c] = "set" /\ life' = [life EXCEPT ![c] = "answered"]
    BY <2>1, <2>3
  <2>6. /\ Mine(c, 0) /\ Nobody(c)
        /\ \A k \in Ld : (Waits(k, c) <=> k = l) /\ ~Answered(k, c)
    BY <1>0, <2>4, <2>5, IsListed, Zenon DEF Safe
  <2>7. Once(t) /\ Contexts(t) = Contexts(s) \ {c}
    <3>1. Once(s) /\ i \in DOMAIN s /\ Shorter(s, i, t) /\ s[i].ctx = c
      BY <2>1, <2>2, <2>3, Zenon DEF Safe
    <3>2. Once(t) /\ Contexts(t) = Contexts(s) \ {s[i].ctx}
      BY <3>1, ShorterSets, Zenon
    <3> QED
      BY <3>1, <3>2
  <2>8. Once(u) /\ Contexts(u) = Contexts(r) \cup {c}
    <3>1. u = Append(r, x) /\ Once(r) /\ x.ctx \notin Contexts(r)
      BY <2>1, <2>2, <2>3, <2>6, Zenon DEF Safe, Answered
    <3>2. Contexts(u) = Contexts(r) \cup {x.ctx} /\ Once(u)
      BY <3>1, AppendedSets
    <3> QED
      BY <2>3, <3>2
  <2>9. /\ ldReq'[l] = t /\ \A k \in Ld \ {l} : ldReq'[k] = ldReq[k]
        /\ \A d : Waits(l, d)' <=> d \in Contexts(t)
        /\ \A d : \A k \in Ld \ {l} : Waits(k, d)' <=> Waits(k, d)
    BY <1>0, <2>1, ReqOnly, Zenon
  <2>10. /\ ldResp'[l] = u /\ \A k \in Ld \ {l} : ldResp'[k] = ldResp[k]
         /\ \A d : Answered(l, d)' <=> d \in Contexts(u)
         /\ \A d : \A k \in Ld \ {l} : Answered(k, d)' <=> Answered(k, d)
    BY <1>0, <2>1, RespOnly, Zenon
  <2>11. \A k \in Ld : (Once(ldReq[k]) /\ Once(ldResp[k]))'
    <3>1. \A k \in Ld : Once(ldReq'[k]) /\ Once(ldResp'[k])
      BY <2>7, <2>8, <2>9, <2>10, Zenon DEF Safe
    <3> QED
      BY <3>1, Zenon DEF Once
  <2>12. CtxInv(c)'
    <3>1. Nobody(c)'
      BY <1>1, <2>6, Zenon DEF Nobody
    <3>2. /\ life'[c] = "answered" /\ req'[c] = "set" /\ c \in alloc' /\ resumed'[c] = 0
          /\ resumed'[c] <= 1
      BY <1>0, <1>1, <2>5, <2>6, Zenon DEF Mine, TypeHist
    <3>3. Known(c)'
      BY <3>2, Zenon DEF Known
    <3>4. \A k \in Ld : (Answered(k, c)' <=> k = l) /\ ~Waits(k, c)'
      <4>1. c \notin Contexts(t) /\ c \in Contexts(u)
        BY <2>7, <2>8, Zenon
      <4> QED
        BY <2>6, <2>9, <2>10, <4>1, Zenon
    <3> QED
      BY <3>1, <3>2, <3>3, <3>4, NowAnswered, Zenon
  <2>13. ASSUME NEW d \in Ctx, d # c PROVE CtxInv(d)'
    <3>1. SameLife(d)
      BY <1>0, <1>1, <2>5, <2>13, Zenon DEF SameLife, TypeHist
    <3>2. SameLists(d)
      BY <2>2, <2>7, <2>8, <2>9, <2>10, <2>13, Zenon DEF SameLists, Waits, Answered
    <3> QED
      BY <1>2, <3>1, <3>2, CtxFrame, Zenon DEF Safe
  <2> QED
    BY <2>11, <2>12, <2>13, Zenon DEF Safe
<1> QED
  BY <1>3, <1>4, MoveEffect, Zenon

(* A restarted connection has all its requests answered.                   *)
LEMMA ErrorSafe ==
  ASSUME LocalInv, Safe, NEW l \in Ld, treatError_Ld(l), mishap' = "none"
  PROVE  Safe'
<1>0. TypeMem /\ TypeLists /\ TypePc /\ TypeHist
  BY LocalParts, Zenon
<1>1. /\ UNCHANGED timerVars /\ UNCHANGED <<alloc, req, resumed, pc>>
      /\ ldResp' = [ldResp EXCEPT ![l] = ldResp[l] \o ldReq[l]]
      /\ ldReq' = IF ldResp[l] = <<>> THEN [ldReq EXCEPT ![l] = <<>>] ELSE ldReq
      /\ life' = [c \in Ctx |-> IF c \in Contexts(ldReq[l]) THEN "answered" ELSE life[c]]
  BY Zenon DEF treatError_Ld, memVars
<1>2. \A d \in Ctx : SameHolders(d) /\ SameTimer(d)
  BY <1>1, TimerKept, Zenon DEF SameHolders
<1>3. PICK s \in Seq(Element), r \in Seq(Element) : s = ldReq[l] /\ r = ldResp[l]
  BY <1>0, Zenon DEF TypeLists
<1>4. CASE s = <<>>
  <2>1. r \o s = r
    BY <1>4, ConcatEmptySeq
  <2>2. ldResp' = ldResp
    BY <1>0, <1>1, <1>3, <2>1, Zenon DEF TypeLists
  <2>3. ldReq' = ldReq
    BY <1>0, <1>1, <1>3, <1>4, Zenon DEF TypeLists
  <2>4. Contexts(s) = {}
    BY <1>4, EmptySets
  <2>5. life' = life
    BY <1>0, <1>1, <1>3, <2>4, Zenon DEF TypeHist
  <2> QED
    BY <1>1, <1>2, <2>2, <2>3, <2>5, IdleSafe, Zenon DEF listVars
<1>5. CASE s # <<>>
  <2>1. ldReq'[l] = <<>> /\ \A c \in Contexts(s) : req[c] = "set"
    BY <1>3, <1>5, Zenon DEF treatError_Ld, Happens
  <2>2. r = <<>>
    BY <1>1, <1>3, <1>5, <2>1, Zenon
  <2>3. r \o s = s
    BY <2>2, ConcatEmptySeq
  <2>4. ldReq' = [ldReq EXCEPT ![l] = <<>>] /\ ldResp' = [ldResp EXCEPT ![l] = s]
    BY <1>1, <1>3, <2>2, <2>3
  <2>5. Contexts(r) = {} /\ Contexts(<<>>) = {} /\ Once(<<>>)
    BY <2>2, EmptySets
  <2>6. /\ ldReq'[l] = <<>> /\ \A k \in Ld \ {l} : ldReq'[k] = ldReq[k]
        /\ \A d : Waits(l, d)' <=> d \in Contexts(<<>>)
        /\ \A d : \A k \in Ld \ {l} : Waits(k, d)' <=> Waits(k, d)
    BY <1>0, <2>4, ReqOnly, Zenon
  <2>7. /\ ldResp'[l] = s /\ \A k \in Ld \ {l} : ldResp'[k] = ldResp[k]
        /\ \A d : Answered(l, d)' <=> d \in Contexts(s)
        /\ \A d : \A k \in Ld \ {l} : Answered(k, d)' <=> Answered(k, d)
    BY <1>0, <2>4, RespOnly, Zenon
  <2>8. \A k \in Ld : (Once(ldReq[k]) /\ Once(ldResp[k]))'
    <3>1. Once(s)
      BY <1>3, Zenon DEF Safe
    <3>2. \A k \in Ld : Once(ldReq'[k]) /\ Once(ldResp'[k])
      BY <2>5, <2>6, <2>7, <3>1, Zenon DEF Safe
    <3> QED
      BY <3>2, Zenon DEF Once
  <2>9. ASSUME NEW c \in Ctx, c \in Contexts(s) PROVE CtxInv(c)'
    <3>1. req[c] = "set" /\ Waits(l, c)
      BY <1>3, <2>1, <2>9, Zenon DEF Waits
    <3>2. /\ Mine(c, 0) /\ Nobody(c)
          /\ \A k \in Ld : (Waits(k, c) <=> k = l) /\ ~Answered(k, c)
      BY <1>0, <3>1, IsListed, Zenon DEF Safe
    <3>3. Nobody(c)'
      BY <1>1, <3>2, Zenon DEF Nobody
    <3>4. /\ life'[c] = "answered" /\ req'[c] = "set" /\ c \in alloc' /\ resumed'[c] = 0
          /\ resumed'[c] <= 1
      BY <1>1, <1>3, <2>9, <3>1, <3>2, Zenon DEF Mine
    <3>5. Known(c)'
      BY <3>4, Zenon DEF Known
    <3>6. \A k \in Ld : (Answered(k, c)' <=> k = l) /\ ~Waits(k, c)'
      BY <2>5, <2>6, <2>7, <2>9, <3>2, Zenon
    <3> QED
      BY <3>3, <3>4, <3>5, <3>6, NowAnswered, Zenon
  <2>10. ASSUME NEW d \in Ctx, d \notin Contexts(s) PROVE CtxInv(d)'
    <3>1. SameLife(d)
      BY <1>1, <1>3, <2>10, Zenon DEF SameLife
    <3>2. ~Waits(l, d) /\ ~Answered(l, d)
      BY <1>3, <2>5, <2>10, Zenon DEF Waits, Answered
    <3>3. SameLists(d)
      BY <2>5, <2>6, <2>7, <2>10, <3>2, Zenon DEF SameLists
    <3> QED
      BY <1>2, <3>1, <3>3, CtxFrame, Zenon DEF Safe
  <2> QED
    BY <2>8, <2>9, <2>10, Zenon DEF Safe
<1> QED
  BY <1>4, <1>5, Zenon

-----------------------------------------------------------------------------
(***************************************************************************)
(* The invariant of the contexts.                                          *)
(***************************************************************************)
(* A mishap is never forgotten.                                            *)
LEMMA NoMishapBefore ==
  ASSUME [Next]_vars, mishap' = "none"
  PROVE  mishap = "none"
<1>1. CASE UNCHANGED vars
  BY <1>1, Zenon DEF vars, histVars
<1>2. ASSUME NEW w \in Worker, WorkerStep(w) PROVE mishap = "none"
  <2>1. CASE \/ SearchRq(w) \/ SetUserToSleep(w) \/ BuildRequest(w) \/ Send(w)
             \/ insert_Request(w) \/ getAndRemove_firstResponse(w) \/ LDAP_Search_Resp(w)
             \/ NewScenario(w) \/ EndOfScenario(w)
    <3>1. UNCHANGED mishap
      BY <2>1, Zenon
         DEF SearchRq, SetUserToSleep, BuildRequest, Send, insert_Request, LDAP_Search_Resp,
             getAndRemove_firstResponse, NewScenario, EndOfScenario, histVars
    <3> QED
      BY <3>1
  <2>2. CASE SearchFails(w)
    BY <2>2, Zenon DEF SearchFails, Happens
  <2>3. CASE TimeoutResp(w)
    BY <2>3, Zenon DEF TimeoutResp, Happens
  <2>4. ASSUME NEW c \in Ctx, GetUserToResume(w, c) PROVE mishap = "none"
    BY <2>4, Zenon DEF GetUserToResume, Happens
  <2> QED
    BY <1>2, <2>1, <2>2, <2>3, <2>4, Zenon DEF WorkerStep
<1>3. CASE TimerStep
  BY <1>3, Zenon DEF TimerStep, histVars
<1>4. ASSUME NEW l \in Ld, SelectStep(l) PROVE mishap = "none"
  <2>1. CASE ldap_result(l)
    BY <2>1, Zenon DEF ldap_result, histVars
  <2>2. CASE getAndMove_RequestToResponse(l)
    BY <2>2, Zenon DEF getAndMove_RequestToResponse, Happens
  <2>3. CASE treatError_Ld(l)
    BY <2>3, Zenon DEF treatError_Ld, Happens
  <2> QED
    BY <1>4, <2>1, <2>2, <2>3, Zenon DEF SelectStep
<1> QED
  BY <1>1, <1>2, <1>3, <1>4, Zenon DEF Next, Undefined

(* Every step keeps SafeInv.                                               *)
LEMMA SafeStep ==
  ASSUME LocalInv, SafeInv, [Next]_vars
  PROVE  SafeInv'
<1> SUFFICES ASSUME mishap' = "none" PROVE Safe'
  BY Zenon DEF SafeInv
<1>0. Safe
  BY NoMishapBefore, Zenon DEF SafeInv
<1>1. CASE UNCHANGED vars
  <2>1. /\ UNCHANGED listVars /\ UNCHANGED <<alloc, req, life, resumed>>
        /\ UNCHANGED timerVars /\ UNCHANGED pc
    BY <1>1, Zenon DEF vars, memVars, histVars
  <2>2. \A c \in Ctx : SameTimer(c) /\ SameHolders(c)
    BY <2>1, TimerKept, Zenon DEF SameHolders
  <2> QED
    BY <1>0, <2>1, <2>2, IdleSafe, Zenon
<1>2. ASSUME NEW w \in Worker, WorkerStep(w) PROVE Safe'
  <2>1. ~SearchFails(w)
    BY Zenon DEF SearchFails, Happens
  <2> QED
    BY <1>0, <1>2, <2>1, SearchRqSafe, SendingSafe, InsertSafe, TakeSafe, AnswerSafe,
       ResumeSafe, TimeoutSafe, OthersSafe, Zenon DEF WorkerStep
<1>3. CASE TimerStep
  BY <1>0, <1>3, OthersSafe, Zenon
<1>4. ASSUME NEW l \in Ld, SelectStep(l) PROVE Safe'
  BY <1>0, <1>4, OthersSafe, MoveSafe, ErrorSafe, Zenon DEF SelectStep
<1> QED
  BY <1>1, <1>2, <1>3, <1>4, Zenon DEF Next, Undefined

(* SafeInv holds initially: no context is allocated.                       *)
LEMMA SafeInit ==
  ASSUME Init
  PROVE  SafeInv
<1>1. \A l \in Ld : ldReq[l] = <<>> /\ ldResp[l] = <<>>
  BY Zenon DEF Init
<1>2. \A l \in Ld : Once(ldReq[l]) /\ Once(ldResp[l])
  BY <1>1, EmptySets, Zenon
<1>3. \A l \in Ld : Contexts(ldReq[l]) = {} /\ Contexts(ldResp[l]) = {}
  BY <1>1, EmptySets, Zenon
<1>4. \A w \in Worker : pc[w].at = "top"
  BY Zenon DEF Init, At
<1>5. ASSUME NEW c \in Ctx PROVE CtxInv(c)
  <2>1. \A l \in Ld : ~Waits(l, c) /\ ~Answered(l, c)
    BY <1>3, Zenon DEF Waits, Answered
  <2>2. \A w \in Worker : ~Has(w, c, Holding) /\ ~Has(w, c, Sending)
    BY <1>4, Zenon DEF Has, Holding, Sending
  <2>3. \A w \in Worker : /\ ~Has(w, c, {"send", "insert"})
                          /\ ~Has(w, c, {"answer"}) /\ ~Has(w, c, {"timeout"})
    BY <1>4, Zenon DEF Has
  <2>4. life[c] = "unsent" /\ resumed[c] = 0 /\ c \notin alloc /\ asleep[c] = Awake
    BY Zenon DEF Init, Timer!Init
  <2>5. asleep[c] \notin 0 .. tcLdapTimeout /\ resumed[c] <= 1
    BY <2>4, MarkAssumption
  <2>6. Known(c)
    BY <2>4, <2>5, Zenon DEF Known
  <2> QED
    BY <2>1, <2>2, <2>3, <2>6, Zenon DEF CtxInv, OneHolder, OfWorker, OfList
<1> QED
  BY <1>2, <1>5, Zenon DEF SafeInv, Safe

-----------------------------------------------------------------------------
(***************************************************************************)
(* The invariant of the messages.  A worker that inserts has sent, and     *)
(* nothing has become of it since, except in a send.                       *)
(***************************************************************************)
Quiet == \A v \in Worker : pc'[v].at = "insert" => pc'[v] = pc[v]

(* A worker goes anywhere but to the insertion.                            *)
LEMMA QuietMove ==
  ASSUME NEW w \in Worker, NEW p, NEW c, NEW m, Moves(w, p, c, m), p # "insert"
  PROVE  Quiet
  BY Zenon DEF Moves, Quiet

(* What inserts after a quiet step did so before it.                       *)
LEMMA QuietInserts ==
  ASSUME Quiet, NEW l \in Ld
  PROVE  /\ \A v \in Worker : Inserts(v, l)' => Inserts(v, l) /\ pc'[v].id = pc[v].id
         /\ OneInserts(l) => OneInserts(l)'
<1>1. ASSUME NEW v \in Worker, Inserts(v, l)' PROVE Inserts(v, l) /\ pc'[v].id = pc[v].id
  BY <1>1, Zenon DEF Inserts, Quiet
<1> QED
  BY <1>1, Zenon DEF OneInserts

(* The messages of a connection whose list gets no new request.  An answer *)
(* leaves the server and tSelect only if nobody waits for it any more.     *)
LEMMA MsgFrame ==
  ASSUME NEW l \in Ld, MsgOf(l), Quiet, OnceId(ldReq'[l]), Ids(ldReq'[l]) \subseteq Ids(ldReq[l]),
         \A m \in server[l] \cup {received[l]} :
           \/ m \in server'[l] \cup {received'[l]}
           \/ /\ m \notin Ids(ldReq'[l])
              /\ \A v \in Worker : Inserts(v, l)' => pc'[v].id # m
  PROVE  MsgOf(l)'
<1>1. ASSUME NEW v \in Worker, Inserts(v, l)'
      PROVE  /\ pc'[v].id \in server'[l] \cup {received'[l]}
             /\ pc'[v].id \notin Ids(ldReq'[l])
  <2>1. Inserts(v, l) /\ pc'[v].id = pc[v].id
    BY <1>1, QuietInserts, Zenon
  <2> QED
    BY <1>1, <2>1, Zenon DEF MsgOf
<1>2. Ids(ldReq'[l]) \subseteq server'[l] \cup {received'[l]}
  BY Zenon DEF MsgOf
<1>3. OnceId(ldReq[l])' /\ Ids(ldReq[l])' = Ids(ldReq'[l])
  BY Zenon DEF OnceId, Ids
<1> QED
  BY <1>1, <1>2, <1>3, Zenon DEF MsgOf

(* A step that leaves the connection alone.                                *)
LEMMA MsgSame ==
  ASSUME NEW l \in Ld, MsgOf(l), Quiet,
         ldReq'[l] = ldReq[l], server'[l] = server[l], received'[l] = received[l]
  PROVE  MsgOf(l)'
<1>1. OnceId(ldReq'[l]) /\ Ids(ldReq'[l]) \subseteq Ids(ldReq[l])
  BY Zenon DEF MsgOf
<1>2. \A m \in server[l] \cup {received[l]} : m \in server'[l] \cup {received'[l]}
  BY Zenon
<1> QED
  BY <1>1, <1>2, MsgFrame, Zenon

(* The steps of a worker that leave the requests and the messages alone.   *)
LEMMA QuietSteps ==
  ASSUME LocalInv, NEW w \in Worker,
         \/ SearchRq(w) \/ SetUserToSleep(w) \/ BuildRequest(w) \/ SearchFails(w)
         \/ getAndRemove_firstResponse(w) \/ LDAP_Search_Resp(w)
         \/ NewScenario(w) \/ EndOfScenario(w) \/ \E c \in Ctx : GetUserToResume(w, c)
  PROVE  Quiet /\ UNCHANGED <<ldReq, server, received>>
<1>0. /\ TypeLists /\ TypePc /\ pc \in [Worker -> Local]
      /\ {"top", "poll", "run", "sleep", "build", "send", "answer", "timeout"} \subseteq Places
  BY LocalParts, Zenon DEF TypePc, Places
<1>1. UNCHANGED <<ldReq, server, received>>
  BY Zenon DEF SearchRq, SetUserToSleep, BuildRequest, SearchFails, LDAP_Search_Resp,
               getAndRemove_firstResponse, NewScenario, EndOfScenario, GetUserToResume,
               listVars, netVars
<1>2. CASE SetUserToSleep(w) \/ BuildRequest(w)
  <2>1. Goto(w, "build") \/ Goto(w, "send")
    BY <1>2, Zenon DEF SetUserToSleep, BuildRequest
  <2>2. \/ Moves(w, "build", pc[w].ctx, pc[w].id) \/ Moves(w, "send", pc[w].ctx, pc[w].id)
    BY <1>0, <2>1, GotoMoves, Zenon
  <2> QED
    BY <1>1, <2>2, QuietMove, Zenon
<1>3. CASE \/ SearchFails(w) \/ LDAP_Search_Resp(w) \/ NewScenario(w) \/ EndOfScenario(w)
  <2>1. Leave(w, "run") \/ Leave(w, "top")
    BY <1>3, Zenon DEF SearchFails, LDAP_Search_Resp, NewScenario, EndOfScenario
  <2>2. Moves(w, "run", NULL, NULL) \/ Moves(w, "top", NULL, NULL)
    BY <1>0, <2>1, LeaveMoves, Zenon
  <2> QED
    BY <1>1, <2>2, QuietMove, Zenon
<1>4. CASE SearchRq(w)
  <2>1. PICK c \in Ctx : pc' = [pc EXCEPT ![w] = [At("sleep") EXCEPT !.ctx = c]]
    BY <1>4, Zenon DEF SearchRq
  <2>2. Moves(w, "sleep", c, NULL)
    BY <1>0, <2>1, TakeMoves, Zenon
  <2> QED
    BY <1>1, <2>2, QuietMove, Zenon
<1>5. CASE getAndRemove_firstResponse(w)
  <2>1. PICK l \in Ld : l = tLdap_getLdId(w)
    BY LdOfWorker, Zenon
  <2>2. CASE ldResp[l] = <<>>
    <3>1. Goto(w, "poll")
      BY <1>5, <2>1, <2>2, Zenon DEF getAndRemove_firstResponse
    <3>2. Moves(w, "poll", pc[w].ctx, pc[w].id)
      BY <1>0, <3>1, GotoMoves, Zenon
    <3> QED
      BY <1>1, <3>2, QuietMove, Zenon
  <2>3. CASE ldResp[l] # <<>>
    <3>1. PICK c : c = Head(ldResp[l]).ctx
      BY Zenon
    <3>2. pc' = [pc EXCEPT ![w] = [At("answer") EXCEPT !.ctx = c]]
      BY <1>5, <2>1, <2>3, <3>1, Zenon DEF getAndRemove_firstResponse
    <3>3. c \in Ctx
      <4>1. ldResp[l] \in Seq(Element)
        BY <1>0, Zenon DEF TypeLists
      <4>2. Head(ldResp[l]) \in Element
        BY <2>3, <4>1, TailSets, Zenon
      <4> QED
        BY <3>1, <4>2, Zenon DEF Element
    <3>4. Moves(w, "answer", c, NULL)
      BY <1>0, <3>2, <3>3, TakeMoves, Zenon
    <3> QED
      BY <1>1, <3>4, QuietMove, Zenon
  <2> QED
    BY <2>2, <2>3, Zenon
<1>6. ASSUME NEW c \in Ctx, GetUserToResume(w, c)
      PROVE  Quiet /\ UNCHANGED <<ldReq, server, received>>
  <2>1. Leave(w, "top") \/ pc' = [pc EXCEPT ![w] = [At("timeout") EXCEPT !.ctx = c]]
    BY <1>6, Zenon DEF GetUserToResume
  <2>2. Moves(w, "top", NULL, NULL) \/ Moves(w, "timeout", c, NULL)
    BY <1>0, <2>1, LeaveMoves, TakeMoves, Zenon
  <2> QED
    BY <1>1, <2>2, QuietMove, Zenon
<1> QED
  BY <1>2, <1>3, <1>4, <1>5, <1>6, Zenon

(* The identifiers of a list are messages.                                 *)
LEMMA IdsAreMessages ==
  ASSUME NEW s \in Seq(Element)
  PROVE  Ids(s) \subseteq Msg
<1>1. \A i \in DOMAIN s : s[i] \in Element
  BY LenProperties, ElementOfSeq, Zenon
<1> QED
  BY <1>1, Zenon DEF Ids, Element

(* The send: the message is new, and the mutex keeps the others away.      *)
LEMMA SendMsg ==
  ASSUME LocalInv, NEW w \in Worker, Send(w), NEW l \in Ld, OneInserts(l)
  PROVE  OneInserts(l)' /\ (MsgOf(l) => MsgOf(l)')
<1>0. /\ TypeNet /\ pc \in [Worker -> Local] /\ pc[w].at = "send"
      /\ UNCHANGED <<ldReq, received>>
  BY LocalParts, Zenon DEF TypePc, Send, listVars
<1>1. PICK k \in Ld : k = tLdap_getLdId(w)
  BY LdOfWorker, Zenon
<1>2. PICK m \in FreshMsg(k) :
        /\ server' = [server EXCEPT ![k] = @ \cup {m}]
        /\ pc' = [pc EXCEPT ![w].at = "insert", ![w].id = m]
  BY <1>1, Zenon DEF Send
<1>3. m \in Msg /\ m \notin Ids(ldReq[k])
  BY <1>2, Zenon DEF FreshMsg
<1>4. Moves(w, "insert", pc[w].ctx, m)
  BY <1>0, <1>2, <1>3, SendMoves, Zenon
<1>5. \A v \in Worker \ {w} : (Inserts(v, l)' <=> Inserts(v, l)) /\ pc'[v] = pc[v]
  BY <1>4, Zenon DEF Moves, Inserts
<1>6. pc'[w].id = m /\ (Inserts(w, l)' <=> k = l) /\ ~Inserts(w, l)
  BY <1>0, <1>1, <1>4, Zenon DEF Moves, Inserts
<1>7. CASE k = l
  <2>1. \A v \in Worker : ~Inserts(v, l)
    BY <1>1, <1>7, Zenon DEF Send, LdMutexFree, Inserts
  <2>2. OneInserts(l)'
    BY <1>5, <1>6, <2>1, Zenon DEF OneInserts
  <2>3. server'[l] = server[l] \cup {m}
    BY <1>0, <1>2, <1>7, Zenon DEF TypeNet
  <2>4. ASSUME MsgOf(l) PROVE MsgOf(l)'
    <3>1. OnceId(ldReq[l])' /\ Ids(ldReq[l])' = Ids(ldReq[l])
      BY <1>0, <2>4, Zenon DEF MsgOf, OnceId, Ids
    <3>2. Ids(ldReq[l]) \subseteq server'[l] \cup {received'[l]}
      BY <1>0, <2>3, <2>4, Zenon DEF MsgOf
    <3>3. ASSUME NEW v \in Worker, Inserts(v, l)'
          PROVE  pc'[v].id \in server'[l] \cup {received'[l]} /\ pc'[v].id \notin Ids(ldReq[l])
      <4>1. v = w
        BY <1>5, <2>1, <3>3, Zenon
      <4> QED
        BY <1>3, <1>6, <1>7, <2>3, <4>1, Zenon
    <3> QED
      BY <3>1, <3>2, <3>3, Zenon DEF MsgOf
  <2> QED
    BY <2>2, <2>4, Zenon
<1>8. CASE k # l
  <2>1. server'[l] = server[l]
    BY <1>0, <1>2, <1>8, Zenon DEF TypeNet
  <2>2. OneInserts(l)'
    BY <1>5, <1>6, <1>8, Zenon DEF OneInserts
  <2>3. ASSUME MsgOf(l) PROVE MsgOf(l)'
    <3>1. OnceId(ldReq[l])' /\ Ids(ldReq[l])' = Ids(ldReq[l])
      BY <1>0, <2>3, Zenon DEF MsgOf, OnceId, Ids
    <3>2. Ids(ldReq[l]) \subseteq server'[l] \cup {received'[l]}
      BY <1>0, <2>1, <2>3, Zenon DEF MsgOf
    <3>3. ASSUME NEW v \in Worker, Inserts(v, l)'
          PROVE  pc'[v].id \in server'[l] \cup {received'[l]} /\ pc'[v].id \notin Ids(ldReq[l])
      <4>1. v # w /\ Inserts(v, l) /\ pc'[v] = pc[v]
        BY <1>5, <1>6, <1>8, <3>3, Zenon
      <4> QED
        BY <1>0, <2>1, <2>3, <4>1, Zenon DEF MsgOf
    <3> QED
      BY <3>1, <3>2, <3>3, Zenon DEF MsgOf
  <2> QED
    BY <2>2, <2>3, Zenon
<1> QED
  BY <1>7, <1>8, Zenon

(* The insertion: the request joins the others under its own message.      *)
LEMMA InsertMsg ==
  ASSUME LocalInv, NEW w \in Worker, insert_Request(w), NEW l \in Ld, OneInserts(l)
  PROVE  Quiet /\ (MsgOf(l) => MsgOf(l)')
<1>0. /\ TypeLists /\ TypePc /\ pc \in [Worker -> Local] /\ Place(pc[w])
      /\ pc[w].at = "insert" /\ UNCHANGED <<server, received>>
  BY LocalParts, Zenon DEF TypePc, insert_Request, netVars
<1>1. PICK c \in Ctx, m \in Msg, k \in Ld :
        c = pc[w].ctx /\ m = pc[w].id /\ k = tLdap_getLdId(w)
  BY <1>0, RecEta, LdOfWorker, Zenon DEF Place, Holding, Sending
<1>2. PICK e \in Element : e = [id |-> m, ctx |-> c] /\ e.id = m
  <2>1. [id |-> m, ctx |-> c] \in Element /\ [id |-> m, ctx |-> c].id = m
    BY Zenon DEF Element
  <2> QED
    BY <2>1, Zenon
<1>3. PICK s \in Seq(Element) : s = ldReq[k]
  BY <1>0, Zenon DEF TypeLists
<1>4. PICK t : t = Append(s, e)
  BY Zenon
<1>5. ldReq' = [ldReq EXCEPT ![k] = t]
  BY <1>1, <1>2, <1>3, <1>4, Zenon DEF insert_Request
<1>6. Moves(w, "top", NULL, NULL)
  BY <1>0, LeaveMoves, Zenon DEF Places, insert_Request
<1>7. Quiet
  BY <1>6, QuietMove, Zenon
<1>8. ASSUME k # l, MsgOf(l) PROVE MsgOf(l)'
  <2>1. ldReq'[l] = ldReq[l] /\ server'[l] = server[l] /\ received'[l] = received[l]
    BY <1>0, <1>5, <1>8, Zenon DEF TypeLists
  <2> QED
    BY <1>7, <1>8, <2>1, MsgSame, Zenon
<1>9. ASSUME k = l, MsgOf(l) PROVE MsgOf(l)'
  <2>1. Inserts(w, l)
    BY <1>0, <1>1, <1>9, Zenon DEF Inserts
  <2>2. \A v \in Worker : ~Inserts(v, l)'
    <3> SUFFICES ASSUME NEW v \in Worker, Inserts(v, l)' PROVE FALSE
      BY Zenon
    <3>1. Inserts(v, l)
      BY <1>7, QuietInserts, Zenon
    <3>2. v = w
      BY <2>1, <3>1, Zenon DEF OneInserts
    <3> QED
      BY <1>6, <3>2, Zenon DEF Moves, Inserts
  <2>3. m \in server[l] \cup {received[l]} /\ m \notin Ids(s) /\ OnceId(s)
    BY <1>1, <1>3, <1>9, <2>1, Zenon DEF MsgOf
  <2>4. Ids(t) = Ids(s) \cup {m} /\ OnceId(t)
    <3>1. Ids(t) = Ids(s) \cup {e.id} /\ (OnceId(s) /\ e.id \notin Ids(s) => OnceId(t))
      BY <1>4, AppendedSets
    <3>2. e.id = m
      BY <1>2, Zenon
    <3> QED
      BY <2>3, <3>1, <3>2, Zenon
  <2>5. ldReq'[l] = t /\ server'[l] = server[l] /\ received'[l] = received[l]
    BY <1>0, <1>5, <1>9, Zenon DEF TypeLists
  <2>6. OnceId(ldReq[l])' /\ Ids(ldReq[l])' = Ids(t)
    BY <2>4, <2>5, Zenon DEF OnceId, Ids
  <2>7. Ids(t) \subseteq server'[l] \cup {received'[l]}
    BY <1>3, <1>9, <2>3, <2>4, <2>5, Zenon DEF MsgOf
  <2> QED
    BY <2>2, <2>6, <2>7, Zenon DEF MsgOf
<1> QED
  BY <1>7, <1>8, <1>9, Zenon

(* The timeout of a request: it leaves the list, and whatever message is   *)
(* abandoned, the requests that still wait keep theirs.                    *)
LEMMA TimeoutMsg ==
  ASSUME LocalInv, NEW w \in Worker, TimeoutResp(w), NEW l \in Ld
  PROVE  Quiet /\ (MsgOf(l) /\ mishap' = "none" => MsgOf(l)')
<1>0. /\ TypeLists /\ TypeNet /\ pc \in [Worker -> Local] /\ UNCHANGED received
      /\ Leave(w, "run") /\ "run" \in Places
  BY LocalParts, Zenon DEF TypePc, TimeoutResp, Places
<1>1. PICK k \in Ld : k = tLdap_getLdId(w)
  BY LdOfWorker, Zenon
<1>2. PICK c : c = pc[w].ctx
  BY Zenon
<1>3. PICK s \in Seq(Element) : s = ldReq[k]
  BY <1>0, Zenon DEF TypeLists
<1>4. PICK t : t = Without(s, c)
  BY Zenon
<1>5. ldReq' = [ldReq EXCEPT ![k] = t]
  BY <1>1, <1>2, <1>3, <1>4, Zenon DEF TimeoutResp
<1>6. Quiet
  <2>1. Moves(w, "run", NULL, NULL)
    BY <1>0, LeaveMoves, Zenon
  <2> QED
    BY <2>1, QuietMove, Zenon
<1>7. ldReq'[k] = t /\ \A j \in Ld \ {k} : ldReq'[j] = ldReq[j]
  BY <1>0, <1>5, Zenon DEF TypeLists
<1>8. \/ UNCHANGED server
      \/ \E m \in Msg : /\ server' = [server EXCEPT ![k] = @ \ {m}]
                        /\ m \in Ids(t) => mishap' = "strayed"
  <2>1. \/ UNCHANGED server
        \/ \E m \in Msg : /\ server' = [server EXCEPT ![k] = @ \ {m}]
                          /\ m \in Ids(ldReq'[k]) => mishap' = "strayed"
    BY <1>1, Zenon DEF TimeoutResp, Happens
  <2> QED
    BY <1>7, <2>1, Zenon
<1>9. ASSUME k # l, MsgOf(l) PROVE MsgOf(l)'
  <2>1. ldReq'[l] = ldReq[l] /\ server'[l] = server[l] /\ received'[l] = received[l]
    BY <1>0, <1>7, <1>8, <1>9, Zenon DEF TypeNet
  <2> QED
    BY <1>6, <1>9, <2>1, MsgSame, Zenon
<1>10. ASSUME k = l, MsgOf(l), mishap' = "none" PROVE MsgOf(l)'
  <2>1. OnceId(s)
    BY <1>3, <1>10, Zenon DEF MsgOf
  <2>2. t = s \/ \E i \in DOMAIN s : Shorter(s, i, t)
    BY <1>4, WithoutType, Zenon
  <2>3. OnceId(t) /\ Ids(t) \subseteq Ids(s)
    BY <2>1, <2>2, ShorterSets, Zenon
  <2>4. \A v \in Worker : ~Inserts(v, l)'
    <3>1. \A v \in Worker : ~Inserts(v, l)
      BY <1>1, <1>10, Zenon DEF TimeoutResp, LdMutexFree, Inserts
    <3> QED
      BY <1>6, <3>1, QuietInserts, Zenon
  <2>5. \A m \in server[l] \cup {received[l]} :
          m \in server'[l] \cup {received'[l]} \/ m \notin Ids(t)
    BY <1>0, <1>8, <1>10, Zenon DEF TypeNet
  <2>6. ldReq'[l] = t /\ ldReq[l] = s
    BY <1>3, <1>7, <1>10, Zenon
  <2> QED
    BY <1>6, <1>10, <2>3, <2>4, <2>5, <2>6, MsgFrame, Zenon
<1> QED
  BY <1>6, <1>9, <1>10, Zenon

(* The select thread: the answer that arrives is held, and it is dropped   *)
(* only when no request waits for it.                                      *)
LEMMA SelectMsg ==
  ASSUME LocalInv, NEW k \in Ld, SelectStep(k), NEW l \in Ld
  PROVE  Quiet /\ (MsgOf(l) /\ mishap' = "none" => MsgOf(l)')
<1>0. TypeLists /\ TypeNet /\ TypePc /\ UNCHANGED pc
  BY LocalParts, Zenon
     DEF SelectStep, ldap_result, getAndMove_RequestToResponse, treatError_Ld
<1>1. Quiet
  BY <1>0, Zenon DEF Quiet
<1>2. \A v \in Worker : Inserts(v, l)' <=> Inserts(v, l)
  BY <1>0, Zenon DEF Inserts
<1> SUFFICES ASSUME MsgOf(l), mishap' = "none" PROVE MsgOf(l)'
  BY <1>1, Zenon
<1>3. PICK s \in Seq(Element) : s = ldReq[k]
  BY <1>0, Zenon DEF TypeLists
<1>4. ASSUME k # l PROVE MsgOf(l)'
  <2>1. server'[l] = server[l] /\ received'[l] = received[l]
    BY <1>0, <1>4, Zenon
       DEF SelectStep, ldap_result, getAndMove_RequestToResponse, treatError_Ld, TypeNet
  <2>2. UNCHANGED ldReq \/ \E t : ldReq' = [ldReq EXCEPT ![k] = t]
    BY Zenon
       DEF SelectStep, ldap_result, getAndMove_RequestToResponse, treatError_Ld, listVars
  <2>3. ldReq'[l] = ldReq[l]
    BY <1>0, <1>4, <2>2, Zenon DEF TypeLists
  <2> QED
    BY <1>1, <2>1, <2>3, MsgSame, Zenon
<1>5. CASE k = l /\ ldap_result(k)
  <2>1. PICK m \in server[l] : received'[l] = m /\ server'[l] = server[l] \ {m}
    BY <1>0, <1>5, Zenon DEF ldap_result, TypeNet
  <2>2. ldReq' = ldReq /\ received[l] = NULL
    BY <1>5, Zenon DEF ldap_result, listVars
  <2>3. NULL \notin Ids(ldReq[l])
    <3>1. NULL \notin Msg
      BY MarkAssumption DEF Msg
    <3> QED
      BY <1>3, <1>5, <3>1, IdsAreMessages, Zenon
  <2>4. \A v \in Worker : Inserts(v, l)' => pc'[v].id # NULL
    BY <1>0, <1>2, Zenon DEF TypePc, Place, Inserts
  <2>5. \A n \in server[l] \cup {received[l]} :
          n \in server'[l] \cup {received'[l]} \/ n = NULL
    BY <2>1, <2>2, Zenon
  <2>6. OnceId(ldReq'[l]) /\ Ids(ldReq'[l]) \subseteq Ids(ldReq[l]) /\ NULL \notin Ids(ldReq'[l])
    BY <2>2, <2>3, Zenon DEF MsgOf
  <2> QED
    BY <1>1, <2>4, <2>5, <2>6, MsgFrame, Zenon
<1>6. ASSUME k = l, LdMutexFree(k), NEW t, ldReq'[l] = t, OnceId(t), Ids(t) \subseteq Ids(s),
             \A n \in server[l] \cup {received[l]} :
               n \in server'[l] \cup {received'[l]} \/ n \notin Ids(t)
      PROVE  MsgOf(l)'
  <2>1. \A v \in Worker : ~Inserts(v, l)'
    BY <1>2, <1>6, Zenon DEF LdMutexFree, Inserts
  <2> QED
    BY <1>1, <1>3, <1>6, <2>1, MsgFrame, Zenon
<1>7. CASE k = l /\ getAndMove_RequestToResponse(k)
  <2>1. server'[l] = server[l] /\ LdMutexFree(k)
    BY <1>7, Zenon DEF getAndMove_RequestToResponse
  <2>2. PICK t : ldReq'[l] = t /\ OnceId(t) /\ Ids(t) \subseteq Ids(s) /\ received[l] \notin Ids(t)
    <3>1. OnceId(s)
      BY <1>3, <1>7, Zenon DEF MsgOf
    <3>2. CASE received[l] \notin Ids(ldReq[l]) /\ UNCHANGED listVars
      BY <1>3, <1>7, <3>1, <3>2, Zenon DEF listVars
    <3>3. ASSUME NEW i \in DOMAIN ldReq[l], NEW x \in Element, NEW t \in Seq(Element),
                 x = ldReq[l][i], x.id = received[l], Shorter(ldReq[l], i, t),
                 ldReq' = [ldReq EXCEPT ![l] = t]
          PROVE  ldReq'[l] = t /\ OnceId(t) /\ Ids(t) \subseteq Ids(s) /\ received[l] \notin Ids(t)
      <4>1. ldReq'[l] = t
        BY <1>0, <3>3, Zenon DEF TypeLists
      <4>2. i \in DOMAIN s /\ Shorter(s, i, t) /\ s[i].id = received[l]
        BY <1>3, <1>7, <3>3, Zenon
      <4>3. OnceId(t) /\ Ids(t) \subseteq Ids(s) /\ s[i].id \notin Ids(t)
        BY <3>1, <4>2, ShorterSets, Zenon
      <4> QED
        BY <4>1, <4>2, <4>3, Zenon
    <3> QED
      BY <1>7, <3>2, <3>3, MoveEffect, Zenon
  <2>3. \A n \in server[l] \cup {received[l]} :
          n \in server'[l] \cup {received'[l]} \/ n \notin Ids(t)
    BY <2>1, <2>2, Zenon
  <2> QED
    BY <1>6, <1>7, <2>1, <2>2, <2>3, Zenon
<1>8. CASE k = l /\ treatError_Ld(k)
  <2>1. ldReq'[l] = <<>> /\ LdMutexFree(k)
    <3>1. ldReq' = [ldReq EXCEPT ![k] = <<>>] \/ ldReq' = ldReq
      BY <1>8, Zenon DEF treatError_Ld
    <3>2. ldReq[k] = <<>> \/ ldReq'[k] = <<>>
      BY <1>8, Zenon DEF treatError_Ld, Happens
    <3> QED
      BY <1>0, <1>8, <3>1, <3>2, Zenon DEF treatError_Ld, TypeLists
  <2>2. OnceId(<<>>) /\ Ids(<<>>) = {}
    BY EmptySets, Zenon
  <2> QED
    BY <1>6, <1>8, <2>1, <2>2, Zenon
<1> QED
  BY <1>4, <1>5, <1>7, <1>8, Zenon DEF SelectStep

(* Every step keeps MsgInv.                                                *)
LEMMA MsgStep ==
  ASSUME LocalInv, MsgInv, [Next]_vars
  PROVE  MsgInv'
<1> SUFFICES ASSUME NEW l \in Ld
             PROVE  OneInserts(l)' /\ (mishap' = "none" => MsgOf(l)')
  BY Zenon DEF MsgInv
<1>0. OneInserts(l) /\ (mishap' = "none" => MsgOf(l))
  BY NoMishapBefore, Zenon DEF MsgInv
<1>1. ASSUME Quiet, UNCHANGED <<ldReq, server, received>>
      PROVE  OneInserts(l)' /\ (mishap' = "none" => MsgOf(l)')
  BY <1>0, <1>1, QuietInserts, MsgSame, Zenon
<1>2. CASE UNCHANGED vars \/ TimerStep
  <2>1. UNCHANGED pc /\ UNCHANGED <<ldReq, server, received>>
    BY <1>2, Zenon DEF vars, TimerStep, listVars, netVars
  <2>2. Quiet
    BY <2>1, Zenon DEF Quiet
  <2> QED
    BY <1>1, <2>1, <2>2, Zenon
<1>3. ASSUME NEW w \in Worker, WorkerStep(w)
      PROVE  OneInserts(l)' /\ (mishap' = "none" => MsgOf(l)')
  <2>1. CASE Send(w)
    BY <1>0, <2>1, SendMsg, Zenon
  <2>2. CASE insert_Request(w)
    BY <1>0, <2>2, InsertMsg, QuietInserts, Zenon
  <2>3. CASE TimeoutResp(w)
    BY <1>0, <2>3, TimeoutMsg, QuietInserts, Zenon
  <2>4. CASE \/ SearchRq(w) \/ SetUserToSleep(w) \/ BuildRequest(w) \/ SearchFails(w)
             \/ getAndRemove_firstResponse(w) \/ LDAP_Search_Resp(w)
             \/ NewScenario(w) \/ EndOfScenario(w) \/ \E c \in Ctx : GetUserToResume(w, c)
    BY <1>1, <2>4, QuietSteps, Zenon
  <2> QED
    BY <1>3, <2>1, <2>2, <2>3, <2>4, Zenon DEF WorkerStep
<1>4. ASSUME NEW k \in Ld, SelectStep(k)
      PROVE  OneInserts(l)' /\ (mishap' = "none" => MsgOf(l)')
  BY <1>0, <1>4, SelectMsg, QuietInserts, Zenon
<1> QED
  BY <1>2, <1>3, <1>4, Zenon DEF Next, Undefined

(* MsgInv holds initially: nobody waits for an answer.                     *)
LEMMA MsgInit ==
  ASSUME Init
  PROVE  MsgInv
<1>1. \A l \in Ld : ldReq[l] = <<>>
  BY Zenon DEF Init
<1>2. \A l \in Ld : OnceId(ldReq[l]) /\ Ids(ldReq[l]) = {}
  BY <1>1, EmptySets, Zenon
<1>3. \A w \in Worker : pc[w].at = "top"
  BY Zenon DEF Init, At
<1>4. \A l \in Ld : \A w \in Worker : ~Inserts(w, l)
  BY <1>3, Zenon DEF Inserts
<1> QED
  BY <1>2, <1>4, Zenon DEF MsgInv, MsgOf, OneInserts

-----------------------------------------------------------------------------
(* The three invariants together.                                          *)
LEMMA Invariants == Spec => [](LocalInv /\ SafeInv /\ MsgInv)
<1> DEFINE Inv == LocalInv /\ SafeInv /\ MsgInv
<1>1. Init => Inv
  BY LocalInit, SafeInit, MsgInit, Zenon
<1>2. Inv /\ [Next]_vars => Inv'
  <2> SUFFICES ASSUME Inv, [Next]_vars PROVE Inv'
    BY Zenon
  <2>1. LocalInv'
    BY LocalStep, Zenon
  <2>2. SafeInv'
    BY SafeStep, Zenon
  <2>3. MsgInv'
    BY MsgStep, Zenon
  <2> QED
    BY <2>1, <2>2, <2>3, Zenon
<1> QED
  BY <1>1, <1>2, PTL DEF Spec

(***************************************************************************)
(* NoDangling: what the lists of a connection, the timer or a worker point *)
(* to is allocated, and an answered request has its reqCtx, as long as     *)
(* nothing has happened that the protocol of texec.c, tldap.c and          *)
(* tselect.c has no answer to.                                             *)
(***************************************************************************)
THEOREM ContextsAllocated == Spec => []NoDangling
<1>1. ASSUME LocalInv, SafeInv, mishap = "none"
      PROVE  /\ \A l \in Ld : Contexts(ldReq[l]) \cup Contexts(ldResp[l]) \subseteq alloc
             /\ \A c \in Ctx : asleep[c] \in 0 .. tcLdapTimeout => c \in alloc
             /\ \A w \in Worker : pc[w].ctx \in alloc \cup {NULL}
             /\ \A l \in Ld : \A c \in Contexts(ldResp[l]) : req[c] = "set"
  <2>1. \A c \in Ctx : CtxInv(c)
    BY <1>1, Zenon DEF SafeInv, Safe
  <2>2. \A l \in Ld : Contexts(ldReq[l]) \subseteq Ctx /\ Contexts(ldResp[l]) \subseteq Ctx
    <3>1. ASSUME NEW s \in Seq(Element) PROVE Contexts(s) \subseteq Ctx
      <4>1. \A i \in DOMAIN s : s[i] \in Element
        BY LenProperties, ElementOfSeq, Zenon
      <4> QED
        BY <4>1, Zenon DEF Contexts, Element
    <3> QED
      BY <1>1, <3>1, LocalParts, Zenon DEF TypeLists
  <2>3. \A l \in Ld : Contexts(ldReq[l]) \cup Contexts(ldResp[l]) \subseteq alloc
    BY <2>1, <2>2, Zenon DEF CtxInv, OfList, Waits, Answered
  <2>4. \A c \in Ctx : asleep[c] \in 0 .. tcLdapTimeout => c \in alloc
    BY <2>1, Zenon DEF CtxInv, Known
  <2>5. ASSUME NEW w \in Worker, pc[w].ctx # NULL PROVE pc[w].ctx \in alloc
    <3>1. pc[w] \in Local /\ Place(pc[w])
      BY <1>1, LocalParts, Zenon DEF TypePc
    <3>2. pc[w].ctx \in Ctx /\ Has(w, pc[w].ctx, Holding)
      BY <2>5, <3>1, RecEta, Zenon DEF Place, Has
    <3> QED
      BY <2>1, <3>2, Zenon DEF CtxInv, OfWorker
  <2>6. \A l \in Ld : \A c \in Contexts(ldResp[l]) : req[c] = "set"
    BY <2>1, <2>2, Zenon DEF CtxInv, OfList, Answered
  <2> QED
    BY <2>3, <2>4, <2>5, <2>6, Zenon
<1>2. LocalInv /\ SafeInv => NoDangling
  BY <1>1, Zenon DEF NoDangling, LocalInv
<1> QED
  BY <1>2, Invariants, PTL

(***************************************************************************)
(* ContinuedOnce: a scenario suspended by LDAP_Search_Rq goes on once,     *)
(* with the answer or with the timeout, although the list and the timer    *)
(* both hold its context.                                                  *)
(***************************************************************************)
THEOREM ScenarioContinuedOnce == Spec => []ContinuedOnce
<1>1. SafeInv => ContinuedOnce
  BY Zenon DEF ContinuedOnce, SafeInv, Safe, CtxInv, Known
<1> QED
  BY <1>1, Invariants, PTL

(***************************************************************************)
(* AnswerFound: tSelect drops no answer that a request of ldReq, or one    *)
(* between ldap_search and insert_Request, still waits for.                *)
(***************************************************************************)
THEOREM NoAnswerDropped == Spec => []AnswerFound
<1>1. MsgInv => AnswerFound
  <2> SUFFICES ASSUME MsgInv, mishap = "none", NEW l \in Ld
               PROVE  LET inserting == {w \in Worker : pc[w].at = "insert"
                                                       /\ tLdap_getLdId(w) = l}
                      IN  Ids(ldReq[l]) \cup {pc[w].id : w \in inserting}
                            \subseteq server[l] \cup {received[l]}
    BY Zenon DEF AnswerFound
  <2>1. MsgOf(l)
    BY Zenon DEF MsgInv
  <2> QED
    BY <2>1, Zenon DEF MsgOf, Inserts
<1> QED
  BY <1>1, Invariants, PTL

=============================================================================
