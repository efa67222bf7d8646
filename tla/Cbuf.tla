--------------------------------- MODULE Cbuf ---------------------------------
(****************************************************************************)
(* The circular buffer of util/cbuf.h: an array of one cell more than its   *)
(* capacity, to tell a full buffer from an empty one, and two indices.  The *)
(* macros are operators on the record of the three.                         *)
(****************************************************************************)
EXTENDS Integers, Sequences, FiniteSets

Cbuf(cap, Item) == [data : [0..cap -> Item], head : 0..cap, tail : 0..cap]

\* Nothing initialises the cells: they hold `blank'.
cbuf_init(cap, blank) == [data |-> [i \in 0..cap |-> blank], head |-> 0, tail |-> 0]

cbuf_size_(q) == Cardinality(DOMAIN q.data)

cbuf_next(q, i) == (i + 1) % cbuf_size_(q)

cbuf_is_empty(q) == q.head = q.tail

\* Faulty: one more cell is kept empty.
cbuf_is_full_early(q) == q.tail \in {cbuf_next(q, q.head), cbuf_next(q, cbuf_next(q, q.head))}

cbuf_is_full(q) == cbuf_next(q, q.head) = q.tail

\* The buffer after a push, the item being dropped if it is full.
cbuf_push(q, item) ==
  IF cbuf_is_full(q) THEN q
  ELSE [q EXCEPT !.data[q.head] = item, !.head = cbuf_next(q, q.head)]

\* The item that cbuf_take returns, and the buffer after it.
cbuf_item(q) == q.data[q.tail]
cbuf_take(q) == [q EXCEPT !.tail = cbuf_next(q, q.tail)]

\* The items between the two indices, oldest first.
cbuf_contents(q) ==
  [i \in 1..((q.head - q.tail) % cbuf_size_(q)) |->
     q.data[(q.tail + i - 1) % cbuf_size_(q)]]
===============================================================================
