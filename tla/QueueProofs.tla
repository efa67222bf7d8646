------------------------------ MODULE QueueProofs ------------------------------
(****************************************************************************)
(* Lemmas about queues: about sequences of increasing numbers, such as the  *)
(* messages, the files and the frames that wait, numbered in the order they *)
(* came; and about the circular buffer, for any capacity and any items: its *)
(* contents are a sequence, which a push extends and a take shortens.       *)
(****************************************************************************)
EXTENDS Cbuf, FiniteSetTheorems, SequenceTheorems, TLAPS

Elements(s) == {s[i] : i \in DOMAIN s}

Ordered(s, n) ==
  /\ \A i \in DOMAIN s : s[i] \in 1..n
  /\ \A i, j \in DOMAIN s : i < j => s[i] < s[j]

Behind(e, s) == \A i \in DOMAIN s : e < s[i]

\* The number that follows the last one given is queued in order, behind the others.
LEMMA AppendNumber ==
  ASSUME NEW S, NEW s \in Seq(S), NEW n \in Nat, n + 1 \in S
  PROVE  /\ Elements(Append(s, n + 1)) = Elements(s) \cup {n + 1}
         /\ Ordered(s, n) => Ordered(Append(s, n + 1), n + 1)
         /\ \A e \in 0..n : Behind(e, s) => Behind(e, Append(s, n + 1))
<1> DEFINE p == n + 1
           t == Append(s, p)
<1>1. p \in S /\ p \in Nat /\ p > n
  OBVIOUS
<1> HIDE DEF p
<1>2. /\ DOMAIN t = 1..(Len(s) + 1) /\ DOMAIN s = 1..Len(s) /\ Len(s) \in Nat
      /\ \A i \in DOMAIN s : t[i] = s[i]
      /\ t[Len(s) + 1] = p
  BY <1>1, AppendProperties
<1> HIDE DEF t
<1>3. \A i \in DOMAIN t : i \in DOMAIN s \/ i = Len(s) + 1
  BY <1>2
<1>4. Elements(t) = Elements(s) \cup {p}
  <2>1. \A i \in DOMAIN t : t[i] \in Elements(s) \cup {p}
    BY <1>2, <1>3 DEF Elements
  <2>2. \A i \in DOMAIN s : s[i] \in Elements(t)
    BY <1>2 DEF Elements
  <2>3. p \in Elements(t)
    BY <1>2 DEF Elements
  <2> QED BY <2>1, <2>2, <2>3 DEF Elements
<1>5. ASSUME Ordered(s, n) PROVE Ordered(t, p)
  <2>1. \A i \in DOMAIN s : s[i] \in 1..n
    BY <1>5 DEF Ordered
  <2>2. \A i \in DOMAIN t : t[i] \in 1..p
    BY <1>1, <1>2, <1>3, <2>1
  <2>3. ASSUME NEW i \in DOMAIN t, NEW j \in DOMAIN t, i < j
        PROVE  t[i] < t[j]
    <3>1. i \in DOMAIN s /\ t[i] = s[i] /\ s[i] \in 1..n
      BY <1>2, <2>1, <2>3
    <3>2. CASE j \in DOMAIN s
      BY <1>2, <1>5, <2>3, <3>1, <3>2 DEF Ordered
    <3>3. CASE j = Len(s) + 1
      BY <1>1, <1>2, <3>1, <3>3
    <3> QED BY <1>3, <3>2, <3>3
  <2> QED BY <2>2, <2>3 DEF Ordered
<1>6. ASSUME NEW e \in 0..n, Behind(e, s) PROVE Behind(e, t)
  BY <1>1, <1>2, <1>3, <1>6 DEF Behind
<1> QED BY <1>4, <1>5, <1>6 DEF p, t

\* The first number of a sequence in order is before the others.
LEMMA FirstNumber ==
  ASSUME NEW S, NEW s \in Seq(S), NEW e \in S, NEW n \in Nat
  PROVE  /\ Elements(<<e>> \o s) = {e} \cup Elements(s)
         /\ Ordered(<<e>> \o s, n) => e \in 1..n /\ Behind(e, s) /\ Ordered(s, n)
<1> DEFINE t == <<e>> \o s
<1>1. /\ DOMAIN s = 1..Len(s) /\ Len(s) \in Nat /\ DOMAIN t = 1..(Len(s) + 1)
      /\ t[1] = e /\ \A i \in DOMAIN s : t[i + 1] = s[i]
  OBVIOUS
<1> HIDE DEF t
<1>2. 1 \in DOMAIN t /\ \A i \in DOMAIN s : i + 1 \in DOMAIN t /\ 1 < i + 1
  BY <1>1
<1>3. Elements(t) = {e} \cup Elements(s)
  <2>1. ASSUME NEW i \in DOMAIN t PROVE t[i] \in {e} \cup Elements(s)
    <3>1. CASE i = 1
      BY <1>1, <3>1
    <3>2. CASE i # 1
      <4>1. i - 1 \in DOMAIN s /\ (i - 1) + 1 = i
        BY <1>1, <3>2
      <4> QED BY <1>1, <4>1 DEF Elements
    <3> QED BY <3>1, <3>2
  <2>2. \A i \in DOMAIN s : s[i] \in Elements(t)
    BY <1>1, <1>2 DEF Elements
  <2>3. e \in Elements(t)
    BY <1>1, <1>2 DEF Elements
  <2> QED BY <2>1, <2>2, <2>3 DEF Elements
<1>4. ASSUME Ordered(t, n) PROVE e \in 1..n /\ Behind(e, s) /\ Ordered(s, n)
  <2>1. e \in 1..n /\ \A i \in DOMAIN s : s[i] \in 1..n
    BY <1>1, <1>2, <1>4 DEF Ordered
  <2>2. Behind(e, s)
    BY <1>1, <1>2, <1>4 DEF Ordered, Behind
  <2>3. ASSUME NEW i \in DOMAIN s, NEW j \in DOMAIN s, i < j PROVE s[i] < s[j]
    <3>1. i + 1 < j + 1 /\ i + 1 \in DOMAIN t /\ j + 1 \in DOMAIN t
      BY <1>1, <1>2, <2>3
    <3> QED BY <1>1, <1>4, <3>1 DEF Ordered
  <2> QED BY <2>1, <2>2, <2>3 DEF Ordered
<1> QED BY <1>3, <1>4 DEF t

\* So it is with the head of a sequence and its tail.
LEMMA HeadNumber ==
  ASSUME NEW S, NEW s \in Seq(S), s # <<>>, NEW n \in Nat
  PROVE  /\ Head(s) \in S /\ Tail(s) \in Seq(S)
         /\ Elements(s) = {Head(s)} \cup Elements(Tail(s))
         /\ Ordered(s, n) =>
              Head(s) \in 1..n /\ Behind(Head(s), Tail(s)) /\ Ordered(Tail(s), n)
         /\ \A e : Behind(e, s) => e < Head(s) /\ Behind(e, Tail(s))
<1> DEFINE h == Head(s)
           t == Tail(s)
<1>1. h \in S /\ t \in Seq(S) /\ s = <<h>> \o t
  BY HeadTailProperties
<1>2. /\ DOMAIN t = 1..Len(t) /\ Len(t) \in Nat /\ DOMAIN s = 1..(Len(t) + 1)
      /\ s[1] = h /\ \A i \in DOMAIN t : s[i + 1] = t[i]
  OBVIOUS
<1> HIDE DEF h, t
<1>3. 1 \in DOMAIN s /\ \A i \in DOMAIN t : i + 1 \in DOMAIN s
  BY <1>2
<1>4. \A e : Behind(e, s) => e < h /\ Behind(e, t)
  BY <1>2, <1>3 DEF Behind
<1>5. Elements(s) = {h} \cup Elements(t)
  BY <1>1, FirstNumber
<1>6. Ordered(s, n) => h \in 1..n /\ Behind(h, t) /\ Ordered(t, n)
  BY <1>1, FirstNumber
<1> QED BY <1>1, <1>4, <1>5, <1>6 DEF h, t

\* Numbers up to some point are numbers up to a later one.
LEMMA OrderedUpTo ==
  ASSUME NEW s, NEW n \in Nat, NEW m \in Nat, n <= m, Ordered(s, n)
  PROVE  Ordered(s, m)
BY DEF Ordered

-------------------------------------------------------------------------------
(* The circular buffer. *)

\* How many items there are, and the cell of the i-th, without a modulo.
Items(cap, q) == IF q.head >= q.tail THEN q.head - q.tail ELSE q.head - q.tail + cap + 1
Cell(cap, q, i) == IF q.tail + i - 1 > cap THEN q.tail + i - 2 - cap ELSE q.tail + i - 1

\* An index that passed the last of n cells once.
LEMMA Wraps ==
  ASSUME NEW n \in Nat \ {0}, NEW a \in n..(2 * n - 1)
  PROVE  a % n = a - n
OBVIOUS

\* The size of the array (cbuf.h:20).
LEMMA CbufSize ==
  ASSUME NEW cap \in Nat, NEW S, NEW q \in Cbuf(cap, S)
  PROVE  cbuf_size_(q) = cap + 1
<1>1. DOMAIN q.data = 0..cap
  BY DEF Cbuf
<1>2. Cardinality(0..cap) = cap + 1
  BY FS_Interval
<1> QED BY <1>1, <1>2 DEF cbuf_size_

\* An index moves to the next cell, or from the last to the first (cbuf.h:27).
LEMMA NextCell ==
  ASSUME NEW cap \in Nat \ {0}, NEW S, NEW q \in Cbuf(cap, S), NEW i \in 0..cap
  PROVE  /\ cbuf_next(q, i) = IF i = cap THEN 0 ELSE i + 1
         /\ cbuf_next(q, i) \in 0..cap
<1> DEFINE n == cap + 1
<1>1. n \in Nat \ {0} /\ cap \in Nat /\ cbuf_size_(q) = n
  BY CbufSize
<1>2. CASE i = cap
  <2>1. n % n = 0
    BY <1>1
  <2> QED BY <1>1, <1>2, <2>1 DEF cbuf_next
<1>3. CASE i # cap
  <2>1. i + 1 \in 0..(n - 1)
    BY <1>1, <1>3
  <2>2. (i + 1) % n = i + 1
    BY <1>1, <2>1
  <2> QED BY <1>1, <1>3, <2>2 DEF cbuf_next
<1> QED BY <1>2, <1>3

\* The contents have as many items as the indices tell, at the cells they tell.
LEMMA Contents ==
  ASSUME NEW cap \in Nat \ {0}, NEW S, NEW q \in Cbuf(cap, S)
  PROVE  /\ cbuf_contents(q) = [i \in 1..Items(cap, q) |-> q.data[Cell(cap, q, i)]]
         /\ cbuf_contents(q) \in Seq(S)
         /\ Len(cbuf_contents(q)) = Items(cap, q)
         /\ Items(cap, q) \in 0..cap
         /\ \A i \in 1..Items(cap, q) : Cell(cap, q, i) \in 0..cap
<1> DEFINE n == cap + 1
<1>1. n \in Nat \ {0} /\ cap \in Nat /\ cbuf_size_(q) = n
  BY CbufSize
<1>2. q.head \in 0..cap /\ q.tail \in 0..cap /\ q.data \in [0..cap -> S]
  BY DEF Cbuf
<1>3. (q.head - q.tail) % n = Items(cap, q) /\ Items(cap, q) \in 0..cap
  <2>1. CASE q.head >= q.tail
    <3>1. q.head - q.tail \in 0..(n - 1)
      BY <1>1, <1>2, <2>1
    <3>2. (q.head - q.tail) % n = q.head - q.tail
      BY <1>1, <3>1
    <3> QED BY <1>1, <2>1, <3>1, <3>2 DEF Items
  <2>2. CASE ~(q.head >= q.tail)
    <3>1. q.head - q.tail \in (-n)..(-1)
      BY <1>1, <1>2, <2>2
    <3>2. (q.head - q.tail) % n = q.head - q.tail + n
      BY <1>1, <3>1
    <3> QED BY <1>1, <1>2, <2>2, <3>2 DEF Items
  <2> QED BY <2>1, <2>2
<1>4. ASSUME NEW i \in 1..Items(cap, q)
      PROVE  (q.tail + i - 1) % n = Cell(cap, q, i) /\ Cell(cap, q, i) \in 0..cap
  <2>1. i \in 1..cap
    BY <1>1, <1>3
  <2>2. CASE q.tail + i - 1 > cap
    <3> DEFINE a == q.tail + i - 1
    <3>1. a \in n..(2 * n - 1)
      BY <1>1, <1>2, <2>1, <2>2
    <3>2. a % n = a - n
      <4> HIDE DEF a, n
      <4> QED BY <1>1, <3>1, Wraps
    <3> QED BY <1>1, <1>2, <2>1, <2>2, <3>2 DEF Cell
  <2>3. CASE ~(q.tail + i - 1 > cap)
    <3>1. q.tail + i - 1 \in 0..(n - 1)
      BY <1>1, <1>2, <2>1, <2>3
    <3>2. (q.tail + i - 1) % n = q.tail + i - 1
      BY <1>1, <3>1
    <3> QED BY <1>1, <2>3, <3>1, <3>2 DEF Cell
  <2> QED BY <2>2, <2>3
<1>5. cbuf_contents(q) = [i \in 1..Items(cap, q) |-> q.data[Cell(cap, q, i)]]
  BY <1>1, <1>3, <1>4 DEF cbuf_contents
<1>6. cbuf_contents(q) \in Seq(S) /\ Len(cbuf_contents(q)) = Items(cap, q)
  <2>1. \A i \in 1..Items(cap, q) : q.data[Cell(cap, q, i)] \in S
    BY <1>2, <1>4
  <2> HIDE DEF Items, Cell
  <2>2. Items(cap, q) \in Nat
    BY <1>3
  <2> QED BY <1>5, <2>1, <2>2
<1> QED BY <1>3, <1>4, <1>5, <1>6

\* A buffer is empty when it has no item, and full when it has cap of them.
LEMMA EmptyAndFull ==
  ASSUME NEW cap \in Nat \ {0}, NEW S, NEW q \in Cbuf(cap, S)
  PROVE  /\ cbuf_is_empty(q) <=> Items(cap, q) = 0
         /\ cbuf_is_full(q) <=> Items(cap, q) = cap
         /\ cbuf_is_empty(q) <=> cbuf_contents(q) = <<>>
         /\ cbuf_is_full(q) <=> Len(cbuf_contents(q)) = cap
<1>1. cap \in Nat \ {0} /\ q.head \in 0..cap /\ q.tail \in 0..cap
  BY DEF Cbuf
<1>2. cbuf_is_empty(q) <=> Items(cap, q) = 0
  BY <1>1 DEF cbuf_is_empty, Items
<1>3. cbuf_is_full(q) <=> Items(cap, q) = cap
  <2>1. cbuf_next(q, q.head) = IF q.head = cap THEN 0 ELSE q.head + 1
    BY <1>1, NextCell
  <2> QED BY <1>1, <2>1 DEF cbuf_is_full, Items
<1>4. cbuf_contents(q) \in Seq(S) /\ Len(cbuf_contents(q)) = Items(cap, q)
  BY Contents
<1> QED BY <1>2, <1>3, <1>4, EmptySeq

\* A push to a buffer that is not full adds the item behind the others.
LEMMA PushAppends ==
  ASSUME NEW cap \in Nat \ {0}, NEW S, NEW q \in Cbuf(cap, S), NEW item \in S, ~cbuf_is_full(q)
  PROVE  /\ cbuf_push(q, item) \in Cbuf(cap, S)
         /\ cbuf_contents(cbuf_push(q, item)) = Append(cbuf_contents(q), item)
<1> DEFINE p == cbuf_push(q, item)
<1>1. cap \in Nat \ {0} /\ q.head \in 0..cap /\ q.tail \in 0..cap
        /\ q.data \in [0..cap -> S]
  BY DEF Cbuf
<1>2. cbuf_next(q, q.head) = (IF q.head = cap THEN 0 ELSE q.head + 1)
        /\ cbuf_next(q, q.head) \in 0..cap
  BY <1>1, NextCell
<1>3. p = [data |-> [q.data EXCEPT ![q.head] = item], head |-> cbuf_next(q, q.head),
           tail |-> q.tail]
  BY DEF cbuf_push, Cbuf
<1>4. p \in Cbuf(cap, S)
  BY <1>1, <1>2, <1>3 DEF Cbuf
<1>5. Items(cap, p) = Items(cap, q) + 1
  BY <1>1, <1>2, <1>3 DEF Items, cbuf_is_full
<1>6. \A i : Cell(cap, p, i) = Cell(cap, q, i)
  BY <1>3 DEF Cell
<1>7. Items(cap, q) \in Nat /\ \A i \in 1..Items(cap, q) : Cell(cap, q, i) \in 0..cap
  BY <1>1, Contents
<1>8. Cell(cap, q, Items(cap, q) + 1) = q.head
  BY <1>1 DEF Cell, Items
<1>9. \A i \in 1..Items(cap, q) : Cell(cap, q, i) # q.head
  BY <1>1 DEF Cell, Items
<1>10. cbuf_contents(q) = [i \in 1..Items(cap, q) |-> q.data[Cell(cap, q, i)]]
         /\ Len(cbuf_contents(q)) = Items(cap, q) /\ cbuf_contents(q) \in Seq(S)
  BY Contents
<1>11. cbuf_contents(p) = [i \in 1..Items(cap, p) |-> p.data[Cell(cap, p, i)]]
         /\ cbuf_contents(p) \in Seq(S) /\ Len(cbuf_contents(p)) = Items(cap, p)
  BY <1>4, Contents
<1> HIDE DEF Items, Cell, p
<1>12. p.data = [q.data EXCEPT ![q.head] = item]
  BY <1>3
<1>13. /\ Append(cbuf_contents(q), item) \in Seq(S)
       /\ Len(Append(cbuf_contents(q), item)) = Items(cap, q) + 1
       /\ \A i \in 1..Items(cap, q) : Append(cbuf_contents(q), item)[i] = cbuf_contents(q)[i]
       /\ Append(cbuf_contents(q), item)[Items(cap, q) + 1] = item
  <2> DEFINE c == cbuf_contents(q)
  <2>1. c \in Seq(S) /\ Len(c) = Items(cap, q)
    BY <1>10
  <2> HIDE DEF c
  <2>2. /\ Append(c, item) \in Seq(S)
        /\ Len(Append(c, item)) = Items(cap, q) + 1
        /\ \A i \in 1..Items(cap, q) : Append(c, item)[i] = c[i]
        /\ Append(c, item)[Items(cap, q) + 1] = item
    BY <2>1, AppendProperties
  <2> QED BY <2>2 DEF c
<1>14. ASSUME NEW i \in 1..Items(cap, q) + 1
       PROVE  cbuf_contents(p)[i] = Append(cbuf_contents(q), item)[i]
  <2>1. cbuf_contents(p)[i] = p.data[Cell(cap, q, i)]
    BY <1>5, <1>6, <1>11
  <2>2. CASE i = Items(cap, q) + 1
    BY <1>1, <1>8, <1>12, <1>13, <2>1, <2>2
  <2>3. CASE i # Items(cap, q) + 1
    <3>1. i \in 1..Items(cap, q)
      BY <1>7, <2>3
    <3>2. p.data[Cell(cap, q, i)] = q.data[Cell(cap, q, i)]
      BY <1>1, <1>7, <1>9, <1>12, <3>1
    <3> QED BY <1>10, <1>13, <2>1, <3>1, <3>2
  <2> QED BY <2>2, <2>3
<1>15. cbuf_contents(p) = Append(cbuf_contents(q), item)
  BY <1>5, <1>11, <1>14, <1>13, SeqEqual
<1> QED BY <1>4, <1>15 DEF p

\* A take from a buffer that is not empty removes the first item, the one that
\* it returns.
LEMMA TakeRemovesFirst ==
  ASSUME NEW cap \in Nat \ {0}, NEW S, NEW q \in Cbuf(cap, S), ~cbuf_is_empty(q)
  PROVE  /\ cbuf_take(q) \in Cbuf(cap, S) /\ cbuf_item(q) \in S
         /\ cbuf_contents(q) = <<cbuf_item(q)>> \o cbuf_contents(cbuf_take(q))
<1> DEFINE p == cbuf_take(q)
<1>1. cap \in Nat \ {0} /\ q.head \in 0..cap /\ q.tail \in 0..cap
        /\ q.data \in [0..cap -> S]
  BY DEF Cbuf
<1>2. cbuf_next(q, q.tail) = (IF q.tail = cap THEN 0 ELSE q.tail + 1)
        /\ cbuf_next(q, q.tail) \in 0..cap
  BY <1>1, NextCell
<1>3. p = [data |-> q.data, head |-> q.head, tail |-> cbuf_next(q, q.tail)]
  BY DEF cbuf_take, Cbuf
<1>4. p \in Cbuf(cap, S) /\ cbuf_item(q) \in S
  BY <1>1, <1>2, <1>3 DEF Cbuf, cbuf_item
<1>5. Items(cap, q) = Items(cap, p) + 1
  BY <1>1, <1>2, <1>3 DEF Items, cbuf_is_empty
<1>6. Items(cap, p) \in Nat
  BY <1>4, Contents
<1>7. \A i \in 1..Items(cap, p) : Cell(cap, p, i) = Cell(cap, q, i + 1)
  BY <1>1, <1>2, <1>3 DEF Cell, Items
<1>8. Cell(cap, q, 1) = q.tail
  BY <1>1 DEF Cell
<1>9. cbuf_contents(q) = [i \in 1..Items(cap, q) |-> q.data[Cell(cap, q, i)]]
        /\ Len(cbuf_contents(q)) = Items(cap, q) /\ cbuf_contents(q) \in Seq(S)
  BY Contents
<1>10. cbuf_contents(p) = [i \in 1..Items(cap, p) |-> p.data[Cell(cap, p, i)]]
         /\ cbuf_contents(p) \in Seq(S) /\ Len(cbuf_contents(p)) = Items(cap, p)
  BY <1>4, Contents
<1>11. p.data = q.data
  BY <1>3
<1> HIDE DEF Items, Cell, p
<1> DEFINE joined == <<cbuf_item(q)>> \o cbuf_contents(p)
<1>12. joined \in Seq(S) /\ Len(joined) = Items(cap, q)
  BY <1>4, <1>5, <1>6, <1>10
<1>13. ASSUME NEW i \in 1..Items(cap, q)
       PROVE  cbuf_contents(q)[i] = joined[i]
  <2>1. cbuf_contents(q)[i] = q.data[Cell(cap, q, i)]
    BY <1>9
  <2>2. CASE i = 1
    BY <1>8, <1>10, <2>1, <2>2 DEF cbuf_item
  <2>3. CASE i # 1
    <3>1. i - 1 \in 1..Items(cap, p) /\ (i - 1) + 1 = i
      BY <1>5, <1>6, <2>3
    <3>2. joined[i] = cbuf_contents(p)[i - 1]
      BY <1>4, <1>6, <1>10, <3>1, <2>3
    <3> QED BY <1>7, <1>10, <1>11, <2>1, <3>1, <3>2
  <2> QED BY <2>2, <2>3
<1>14. cbuf_contents(q) = joined
  BY <1>9, <1>12, <1>13, SeqEqual
<1> QED BY <1>4, <1>14 DEF p
===============================================================================
