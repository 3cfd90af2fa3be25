--------------------------- MODULE SosQbuffProofs ---------------------------
(***************************************************************************)
(* Proofs about SosQbuff, for any number of threads, any block sizes and   *)
(* any pool: the bytes in the queue are contiguous, their number is exact, *)
(* no get writes beyond its buffer and no memory of the pool is lost.      *)
(***************************************************************************)
EXTENDS SosQbuff, FiniteSetTheorems, SequenceTheorems, TLAPS

\* What the steps of a get and a put need about the callers' locals.
LocalsOK ==
    /\ pc \in [Threads -> Pcs]
    /\ lock \in Threads \cup {None}
    /\ size \in [Threads -> Nat] /\ total \in [Threads -> Nat]
    /\ WithinBuffer

\* No node ends behind the end of the stream.  For the nodes but the last this
\* follows from Contiguous by induction along the list; kept step by step it
\* needs no induction.
EndsInside == \A i \in 1 .. Len(list) : list[i].first + list[i].size <= put

\* The queue itself: well-formed nodes, contiguous bytes and an exact size.
QueueOK ==
    /\ list \in Seq(Node) /\ put \in Nat /\ currentSize \in Nat
    /\ Contiguous
    /\ EndsInside
    /\ SizeExact

----------------------------------------------------------------------------
(***************************************************************************)
(* Steps that leave the queue alone, and those that do not.                *)
(***************************************************************************)
LEMMA QueueKept ==
    ASSUME QueueOK, UNCHANGED <<list, put, currentSize>>
    PROVE  QueueOK'
BY DEF QueueOK, Contiguous, EndsInside, SizeExact, FirstByte

\* The first node of a queue that is not empty.
LEMMA FirstNode ==
    ASSUME QueueOK, list # <<>>
    PROVE  /\ list[1] \in Node
           /\ list[1].first \in Nat /\ list[1].size \in Nat /\ list[1].tail \in Nat
           /\ list[1].tail < list[1].size
           /\ list[1].first + list[1].size <= put
           /\ FirstByte = list[1].first + list[1].tail
           /\ currentSize = put - (list[1].first + list[1].tail)
           /\ Len(list) \in Nat /\ Len(list) >= 1
<1>1. Len(list) \in Nat /\ Len(list) >= 1
  BY DEF QueueOK
<1>2. list[1] \in Node
  BY <1>1 DEF QueueOK
<1> QED
  BY <1>1, <1>2 DEF QueueOK, Contiguous, EndsInside, SizeExact, FirstByte, Node

\* os_qbuff_put appends a node.
LEMMA Appended ==
    ASSUME QueueOK, NEW n \in Nat \ {0},
           list' = Append(list, [first |-> put, size |-> n, tail |-> 0]),
           put' = put + n, currentSize' = currentSize + n
    PROVE  QueueOK'
<1> DEFINE nd == [first |-> put, size |-> n, tail |-> 0]
<1>1. nd \in Node /\ nd.first = put /\ nd.size = n /\ nd.tail = 0
  BY DEF QueueOK, Node
<1>2. list \in Seq(Node) /\ put \in Nat /\ currentSize \in Nat /\ Len(list) \in Nat
  BY DEF QueueOK
<1> HIDE DEF nd
<1>3. /\ list' = Append(list, nd) /\ list' \in Seq(Node) /\ Len(list') = Len(list) + 1
      /\ \A i \in 1 .. Len(list) : list'[i] = list[i]
      /\ list'[Len(list) + 1] = nd /\ list' # <<>>
  BY <1>1, <1>2 DEF nd
<1>4. \A i \in 1 .. Len(list) : list[i] \in Node
  BY <1>2
<1>5. Contiguous'
  <2>1. \A i \in 1 .. Len(list) :
           /\ list[i].tail < list[i].size
           /\ i > 1 => list[i].tail = 0
           /\ i < Len(list) => list[i + 1].first = list[i].first + list[i].size
    BY DEF QueueOK, Contiguous
  <2>2. list # <<>> => list[Len(list)].first + list[Len(list)].size = put
    BY DEF QueueOK, Contiguous
  <2>3. ASSUME NEW i \in 1 .. Len(list')
        PROVE  /\ list'[i].tail < list'[i].size
               /\ i > 1 => list'[i].tail = 0
               /\ i < Len(list') => list'[i + 1].first = list'[i].first + list'[i].size
    <3>1. CASE i = Len(list) + 1
      BY <1>1, <1>2, <1>3, <3>1
    <3>2. CASE i = Len(list)
      <4>1. list'[i] = list[i] /\ list # <<>> /\ list'[i + 1] = nd
        BY <1>2, <1>3, <3>2
      <4> QED
        BY <1>1, <1>2, <1>3, <2>1, <2>2, <3>2, <4>1
    <3>3. CASE i < Len(list)
      <4>1. list'[i] = list[i] /\ list'[i + 1] = list[i + 1] /\ i \in 1 .. Len(list)
        BY <1>2, <1>3, <3>3
      <4> QED
        BY <1>2, <1>3, <2>1, <3>3, <4>1
    <3> QED
      BY <1>2, <1>3, <3>1, <3>2, <3>3
  <2>4. list'[Len(list')].first + list'[Len(list')].size = put'
    BY <1>1, <1>3
  <2> QED
    BY <2>3, <2>4 DEF Contiguous
<1>6. SizeExact'
  <2>1. CASE list = <<>>
    <3>1. list'[1] = nd
      BY <1>3, <2>1
    <3>2. currentSize = 0
      BY <1>2, <2>1 DEF QueueOK, SizeExact, FirstByte
    <3> QED
      BY <1>1, <1>2, <1>3, <3>1, <3>2 DEF SizeExact, FirstByte
  <2>2. CASE list # <<>>
    <3>1. list'[1] = list[1]
      BY <1>2, <1>3, <2>2
    <3>2. FirstByte' = FirstByte
      BY <1>3, <2>2, <3>1 DEF FirstByte
    <3>3. FirstByte \in Nat /\ currentSize = put - FirstByte
      BY <2>2, FirstNode
    <3> QED
      BY <1>2, <3>2, <3>3 DEF SizeExact
  <2> QED
    BY <2>1, <2>2
<1>7. EndsInside'
  <2>1. ASSUME NEW i \in 1 .. Len(list')
        PROVE  list'[i].first + list'[i].size <= put'
    <3>1. CASE i = Len(list) + 1
      BY <1>1, <1>2, <1>3, <3>1
    <3>2. CASE i \in 1 .. Len(list)
      <4>1. list'[i] = list[i] /\ list[i].first \in Nat /\ list[i].size \in Nat
            /\ list[i].first + list[i].size <= put
        BY <1>3, <1>4, <3>2 DEF QueueOK, EndsInside, Node
      <4> QED
        BY <1>2, <4>1
    <3> QED
      BY <1>2, <1>3, <3>1, <3>2
  <2> QED
    BY <2>1 DEF EndsInside
<1> QED
  BY <1>2, <1>3, <1>5, <1>6, <1>7 DEF QueueOK

\* The arithmetic of a node at position f with z bytes, l of them read, of
\* which n more are taken, in a stream that ends at p.
LEMMA Arithmetic ==
    ASSUME NEW f \in Nat, NEW z \in Nat, NEW l \in Nat, NEW p \in Nat, NEW n \in Nat,
           f + z <= p, l < z, n <= z - l
    PROVE  /\ p - (f + l) - n \in Nat
           /\ l + n = z => p - (f + l) - n = p - (f + z)
           /\ l + n # z => l + n < z
           /\ p - (f + l) - n = p - (f + (l + n))
OBVIOUS

\* An iteration of the copying loop takes n bytes of the first node, which is
\* used up or not.
LEMMA Copied ==
    ASSUME QueueOK, list # <<>>,
           NEW n \in Nat, n <= list[1].size - list[1].tail,
           list' = Advanced(n), put' = put, currentSize' = currentSize - n
    PROVE  QueueOK'
<1> DEFINE f == list[1].first
           z == list[1].size
           l == list[1].tail
<1>1. /\ list[1] \in Node /\ f \in Nat /\ z \in Nat /\ l \in Nat
      /\ l < z /\ f + z <= put /\ n <= z - l
      /\ currentSize = put - (f + l)
      /\ Len(list) \in Nat /\ Len(list) >= 1
  BY FirstNode
<1>2. list \in Seq(Node) /\ put \in Nat /\ currentSize \in Nat
  BY DEF QueueOK
<1>3. /\ currentSize' \in Nat
      /\ l + n = z => currentSize' = put - (f + z)
      /\ l + n # z => l + n < z
      /\ currentSize' = put - (f + (l + n))
  <2> HIDE DEF f, z, l
  <2> QED
    BY <1>1, <1>2, Arithmetic
<1>4. /\ \A i \in 1 .. Len(list) :
             /\ list[i].tail < list[i].size
             /\ i > 1 => list[i].tail = 0
             /\ i < Len(list) => list[i + 1].first = list[i].first + list[i].size
      /\ list[Len(list)].first + list[Len(list)].size = put
      /\ \A i \in 1 .. Len(list) : list[i].first + list[i].size <= put
  BY DEF QueueOK, Contiguous, EndsInside
<1>5. CASE l + n = z
  <2>1. list' = Tail(list)
    BY <1>5 DEF Advanced
  <2>2. /\ list' \in Seq(Node) /\ Len(list') = Len(list) - 1
        /\ \A i \in 1 .. Len(list') : list'[i] = list[i + 1]
    BY <1>1, <1>2, <2>1
  <2>3. Contiguous' /\ EndsInside'
    <3>1. ASSUME NEW i \in 1 .. Len(list')
          PROVE  /\ list'[i].tail < list'[i].size
                 /\ i > 1 => list'[i].tail = 0
                 /\ i < Len(list') => list'[i + 1].first = list'[i].first + list'[i].size
                 /\ list'[i].first + list'[i].size <= put'
      <4>1. i + 1 \in 1 .. Len(list) /\ i + 1 > 1 /\ list'[i] = list[i + 1]
        <5>1. Len(list) \in Nat /\ Len(list') = Len(list) - 1 /\ Len(list') \in Nat
          BY <1>1, <2>2
        <5>2. i \in Nat /\ 1 <= i /\ i <= Len(list')
          BY <5>1
        <5>3. i + 1 \in 1 .. Len(list) /\ i + 1 > 1
          BY ONLY <5>1, <5>2
        <5> QED
          BY <2>2, <5>3
      <4>2. i < Len(list') => /\ i + 1 < Len(list)
                              /\ list'[i + 1] = list[i + 1 + 1]
        <5>1. Len(list') \in Nat /\ i \in Nat /\ 1 <= i
          BY <2>2
        <5>2. i < Len(list') => i + 1 \in 1 .. Len(list')
          BY <5>1
        <5>3. i < Len(list') => i + 1 < Len(list)
          BY <1>1, <2>2, <5>1
        <5> QED
          BY <2>2, <5>2, <5>3
      <4>3. i < Len(list') => list'[i + 1].first = list'[i].first + list'[i].size
        BY <1>4, <4>1, <4>2
      <4>4. list'[i].tail < list'[i].size /\ list'[i].tail = 0
            /\ list'[i].first + list'[i].size <= put'
        BY <1>4, <4>1
      <4> QED
        BY <4>3, <4>4
    <3>2. list' # <<>> => list'[Len(list')].first + list'[Len(list')].size = put'
      <4>1. list' # <<>> => Len(list') \in 1 .. Len(list') /\ Len(list') + 1 = Len(list)
        BY <1>1, <2>2
      <4>2. list' # <<>> => list'[Len(list')] = list[Len(list)]
        BY <2>2, <4>1
      <4> QED
        BY <1>4, <4>2
    <3> QED
      BY <3>1, <3>2 DEF Contiguous, EndsInside
  <2>4. SizeExact'
    <3>1. CASE Len(list) = 1
      <4>1. list' = <<>>
        BY <2>2, <3>1
      <4>2. FirstByte' = put /\ put = f + z
        BY <1>4, <3>1, <4>1 DEF FirstByte
      <4> QED
        BY <1>3, <1>5, <4>2 DEF SizeExact
    <3>2. CASE Len(list) > 1
      <4>1. list' # <<>> /\ list'[1] = list[2] /\ 2 \in 1 .. Len(list)
            /\ 1 \in 1 .. Len(list) /\ 1 < Len(list)
        BY <1>1, <2>2, <3>2
      <4>2. list[2].tail = 0
        BY <1>4, <4>1
      <4>3. list[2].first = f + z
        BY <1>4, <4>1
      <4>4. FirstByte' = f + z
        BY <1>1, <4>1, <4>2, <4>3 DEF FirstByte
      <4> QED
        BY <1>3, <1>5, <4>4 DEF SizeExact
    <3>3. Len(list) = 1 \/ Len(list) > 1
      <4>1. Len(list) \in Nat /\ Len(list) >= 1
        BY <1>1
      <4> QED
        BY ONLY <4>1
    <3> QED
      BY <3>1, <3>2, <3>3
  <2> QED
    BY <1>2, <1>3, <2>2, <2>3, <2>4 DEF QueueOK
<1>6. CASE l + n # z
  <2> DEFINE nd == [list[1] EXCEPT !.tail = @ + n]
  <2>1. list' = [list EXCEPT ![1] = nd]
    BY <1>6 DEF Advanced
  <2>2. nd \in Node /\ nd.first = f /\ nd.size = z /\ nd.tail = l + n
    BY <1>1 DEF Node
  <2> HIDE DEF nd
  <2>3. /\ list' \in Seq(Node) /\ Len(list') = Len(list) /\ list'[1] = nd
        /\ \A i \in 2 .. Len(list) : list'[i] = list[i]
        /\ list' # <<>>
    BY <1>1, <1>2, <2>1, <2>2
  <2>4. ASSUME NEW i \in 1 .. Len(list)
        PROVE  list'[i].first = list[i].first /\ list'[i].size = list[i].size
               /\ list'[i].tail < list'[i].size /\ (i > 1 => list'[i].tail = 0)
    <3>1. CASE i = 1
      BY <1>3, <1>6, <2>2, <2>3, <3>1
    <3>2. CASE i > 1
      <4>1. list'[i] = list[i]
        BY <1>1, <2>3, <3>2
      <4> QED
        BY <1>4, <4>1
    <3> QED
      BY <1>1, <3>1, <3>2
  <2>5. Contiguous' /\ EndsInside'
    <3>1. ASSUME NEW i \in 1 .. Len(list')
          PROVE  /\ list'[i].tail < list'[i].size
                 /\ i > 1 => list'[i].tail = 0
                 /\ i < Len(list') => list'[i + 1].first = list'[i].first + list'[i].size
                 /\ list'[i].first + list'[i].size <= put'
      <4>1. i \in 1 .. Len(list) /\ (i < Len(list') => i + 1 \in 1 .. Len(list))
        BY <1>1, <2>3
      <4> QED
        BY <1>4, <2>3, <2>4, <4>1
    <3>2. list'[Len(list')].first + list'[Len(list')].size = put'
      <4>1. Len(list) \in 1 .. Len(list)
        BY <1>1
      <4> QED
        BY <1>4, <2>3, <2>4, <4>1
    <3> QED
      BY <3>1, <3>2 DEF Contiguous, EndsInside
  <2>6. FirstByte' = f + (l + n)
    BY <2>2, <2>3 DEF FirstByte
  <2>7. SizeExact'
    BY <1>3, <2>6 DEF SizeExact
  <2> QED
    BY <1>2, <1>3, <2>3, <2>5, <2>7 DEF QueueOK
<1> QED
  BY <1>5, <1>6

\* os_qbuff_flush empties the queue.
LEMMA Flushed ==
    ASSUME QueueOK, list' = <<>>, put' = put, currentSize' = 0
    PROVE  QueueOK'
<1>1. list' \in Seq(Node) /\ Len(list') = 0 /\ put' \in Nat /\ currentSize' \in Nat
  BY DEF QueueOK
<1>2. Contiguous' /\ EndsInside' /\ SizeExact'
  BY <1>1 DEF Contiguous, EndsInside, SizeExact, FirstByte
<1> QED
  BY <1>1, <1>2 DEF QueueOK

----------------------------------------------------------------------------
(***************************************************************************)
(* One lemma per group of actions.                                         *)
(***************************************************************************)

\* What the copying loop takes is there, and the caller's buffer has room.
LEMMA AmountFits ==
    ASSUME LocalsOK, QueueOK, list # <<>>, NEW t \in Threads
    PROVE  /\ CopyAmount(t) \in Nat
           /\ CopyAmount(t) <= list[1].size - list[1].tail
           /\ total[t] + CopyAmount(t) \in Nat
           /\ total[t] + CopyAmount(t) <= size[t]
<1>1. /\ list[1].size \in Nat /\ list[1].tail \in Nat /\ list[1].tail < list[1].size
  BY FirstNode
<1>2. size[t] \in Nat /\ total[t] \in Nat /\ total[t] <= size[t]
  BY DEF LocalsOK, WithinBuffer
<1> DEFINE available == list[1].size - list[1].tail
           remaining == size[t] - total[t]
<1>3. /\ available \in Nat /\ remaining \in Nat
      /\ CopyAmount(t) = IF available > remaining THEN remaining ELSE available
  BY <1>1, <1>2 DEF CopyAmount
<1>4. total[t] + remaining = size[t]
  BY <1>2
<1> HIDE DEF available, remaining
<1>5. /\ CopyAmount(t) \in Nat /\ CopyAmount(t) <= available
      /\ CopyAmount(t) <= remaining
  BY ONLY <1>3
<1>6. total[t] + CopyAmount(t) \in Nat /\ total[t] + CopyAmount(t) <= size[t]
  BY ONLY <1>2, <1>3, <1>4, <1>5
<1> QED
  BY <1>5, <1>6 DEF available

\* The steps of os_qbuff_get.
LEMMA GetSteps ==
    ASSUME LocalsOK, QueueOK, NEW t \in Threads, Get(t)
    PROVE  LocalsOK' /\ QueueOK'
<1>1. CASE GetCopy(t)
  <2> DEFINE n == CopyAmount(t)
  <2>1. /\ list # <<>> /\ list' = Advanced(n) /\ total' = [total EXCEPT ![t] = @ + n]
        /\ currentSize' = currentSize - n /\ put' = put /\ size' = size
        /\ \/ lock' = None /\ Goto(t, "idle")
           \/ UNCHANGED <<lock, pc>>
    BY <1>1 DEF GetCopy
  <2>2. /\ n \in Nat /\ n <= list[1].size - list[1].tail
        /\ total[t] + n \in Nat /\ total[t] + n <= size[t]
    BY <2>1, AmountFits
  <2> HIDE DEF n
  <2>3. QueueOK'
    BY <2>1, <2>2, Copied
  <2>4. LocalsOK'
    <3>1. pc' \in [Threads -> Pcs] /\ lock' \in Threads \cup {None}
      BY <2>1 DEF LocalsOK, Goto, Pcs
    <3>2. size' \in [Threads -> Nat] /\ total' \in [Threads -> Nat] /\ WithinBuffer'
      BY <2>1, <2>2 DEF LocalsOK, WithinBuffer
    <3> QED
      BY <3>1, <3>2 DEF LocalsOK
  <2> QED
    BY <2>3, <2>4
<1>2. CASE GetNothing(t)
  <2>1. QueueOK'
    BY <1>2, QueueKept DEF GetNothing
  <2>2. LocalsOK'
    BY <1>2 DEF GetNothing, LocalsOK, WithinBuffer, Goto, Pcs
  <2> QED
    BY <2>1, <2>2
<1> QED
  BY <1>1, <1>2 DEF Get

\* The steps of os_qbuff_put.  Call sets the size of a put to one of Sizes, so
\* it is not zero.
PutSize == \A t \in Threads : pc[t] \in {"putLock", "put"} => size[t] \in Nat \ {0}

LEMMA PutSteps ==
    ASSUME LocalsOK, QueueOK, PutSize, NEW t \in Threads, Put(t)
    PROVE  LocalsOK' /\ QueueOK'
<1>1. LocalsOK'
  BY DEF Put, PutNode, PutFails, PutNoData, FreeNode, LocalsOK, WithinBuffer, Goto, Pcs
<1>2. CASE PutNode(t)
  <2>1. size[t] \in Nat \ {0}
    BY <1>2 DEF PutNode, PutSize
  <2>2. QueueOK'
    BY <1>2, <2>1, Appended DEF PutNode
  <2> QED
    BY <1>1, <2>2
<1>3. CASE PutFails(t) \/ PutNoData(t) \/ FreeNode(t)
  BY <1>1, <1>3, QueueKept DEF PutFails, PutNoData, FreeNode
<1> QED
  BY <1>2, <1>3 DEF Put

\* The other steps.
LEMMA CallSteps ==
    ASSUME LocalsOK, QueueOK, NEW t \in Threads,
           (\E n \in Sizes : Call(t, n)) \/ Lock(t) \/ FlushTest(t) \/ FlushCrashes(t)
    PROVE  LocalsOK' /\ QueueOK'
<1>1. CASE \E n \in Sizes : Call(t, n)
  <2>1. PICK n \in Sizes : Call(t, n)
    BY <1>1
  <2>2. n \in Nat
    BY QbuffConstants
  <2>3. LocalsOK'
    BY <2>1, <2>2 DEF Call, LocalsOK, WithinBuffer, Goto, Pcs
  <2> QED
    BY <2>1, <2>3, QueueKept DEF Call
<1>2. CASE Lock(t)
  <2>1. LocalsOK'
    BY <1>2 DEF Lock, LocalsOK, WithinBuffer, Goto, Pcs
  <2> QED
    BY <1>2, <2>1, QueueKept DEF Lock
<1>3. CASE FlushTest(t) \/ FlushCrashes(t)
  <2>1. LocalsOK'
    BY <1>3 DEF FlushTest, FlushCrashes, LocalsOK, WithinBuffer, Goto, Pcs
  <2> QED
    BY <1>3, <2>1, QueueKept DEF FlushTest, FlushCrashes
<1> QED
  BY <1>1, <1>2, <1>3

LEMMA FlushSteps ==
    ASSUME LocalsOK, QueueOK, NEW t \in Threads, Flush(t)
    PROVE  LocalsOK' /\ QueueOK'
<1>1. LocalsOK'
  BY DEF Flush, LocalsOK, WithinBuffer, Goto, Pcs
<1> QED
  BY <1>1, Flushed DEF Flush

LEMMA PutSizeKept ==
    ASSUME LocalsOK, PutSize, [Next]_vars
    PROVE  PutSize'
<1>1. CASE UNCHANGED vars
  BY <1>1 DEF vars, PutSize
<1>2. ASSUME NEW t \in Threads, NEW n \in Sizes, Call(t, n)
      PROVE  PutSize'
  <2>1. n \in Nat \ {0}
    BY QbuffConstants
  <2> QED
    BY <1>2, <2>1 DEF Call, Goto, PutSize, LocalsOK
<1>3. ASSUME NEW t \in Threads, Lock(t)
      PROVE  PutSize'
  BY <1>3 DEF Lock, Goto, PutSize, LocalsOK
<1>4. ASSUME NEW t \in Threads, Put(t) \/ Get(t) \/ FlushTest(t) \/ Flush(t) \/ FlushCrashes(t)
      PROVE  PutSize'
  <2>1. size' = size
    BY <1>4 DEF Put, PutNode, PutFails, PutNoData, FreeNode, Get, GetCopy, GetNothing,
                FlushTest, Flush, FlushCrashes
  <2>2. \A u \in Threads : pc'[u] \in {"putLock", "put"} => pc'[u] = pc[u]
    BY <1>4 DEF Put, PutNode, PutFails, PutNoData, FreeNode, Get, GetCopy, GetNothing,
                FlushTest, Flush, FlushCrashes, Goto, LocalsOK
  <2> QED
    BY <2>1, <2>2 DEF PutSize
<1> QED
  BY <1>1, <1>2, <1>3, <1>4 DEF Next

\* The inductive invariant of the queue.
StreamInv == LocalsOK /\ QueueOK /\ PutSize

LEMMA StreamInit == Init => StreamInv
<1> SUFFICES ASSUME Init PROVE StreamInv
  OBVIOUS
<1>1. LocalsOK /\ PutSize
  BY DEF Init, LocalsOK, PutSize, WithinBuffer, Pcs
<1>2. QueueOK
  BY DEF Init, QueueOK, Contiguous, EndsInside, SizeExact, FirstByte
<1> QED
  BY <1>1, <1>2 DEF StreamInv

LEMMA StreamKept ==
    ASSUME StreamInv, [Next]_vars
    PROVE  StreamInv'
<1>1. LocalsOK /\ QueueOK /\ PutSize
  BY DEF StreamInv
<1>2. PutSize'
  BY <1>1, PutSizeKept
<1>3. CASE UNCHANGED vars
  BY <1>1, <1>2, <1>3, QueueKept DEF vars, StreamInv, LocalsOK, WithinBuffer
<1>4. CASE Next
  <2>1. PICK t \in Threads : \/ \E n \in Sizes : Call(t, n)
                             \/ Lock(t) \/ Put(t) \/ Get(t)
                             \/ FlushTest(t) \/ Flush(t) \/ FlushCrashes(t)
    BY <1>4 DEF Next
  <2> QED
    BY <1>1, <1>2, <2>1, CallSteps, PutSteps, GetSteps, FlushSteps DEF StreamInv
<1> QED
  BY <1>3, <1>4

----------------------------------------------------------------------------
\* The bytes in the queue are the last ones put, without gap or repetition,
\* whatever the sizes that threads put and get.
THEOREM BytesContiguous == Spec => []Contiguous
<1>1. StreamInv => Contiguous
  BY DEF StreamInv, QueueOK
<1> QED
  BY <1>1, StreamInit, StreamKept, PTL DEF Spec

\* current_size is what the nodes still hold, inside the copying loop too.
THEOREM CurrentSizeExact == Spec => []SizeExact
<1>1. StreamInv => SizeExact
  BY DEF StreamInv, QueueOK
<1> QED
  BY <1>1, StreamInit, StreamKept, PTL DEF Spec

\* os_qbuff_get never writes beyond the buffer of its caller.
THEOREM GetStaysInside == Spec => []WithinBuffer
<1>1. StreamInv => WithinBuffer
  BY DEF StreamInv, LocalsOK
<1> QED
  BY <1>1, StreamInit, StreamKept, PTL DEF Spec

----------------------------------------------------------------------------
(***************************************************************************)
(* The pool.                                                               *)
(***************************************************************************)

\* The puts that have allocated a node and are about to free it.
Freeing == {t \in Threads : pc[t] = "freeNode"}

PoolInv == avail \in Nat /\ PoolConserved

LEMMA FreeingFinite == IsFiniteSet(Freeing) /\ Cardinality(Freeing) \in Nat
<1>1. Freeing \subseteq Threads /\ IsFiniteSet(Threads)
  BY QbuffConstants DEF Freeing
<1> QED
  BY <1>1, FS_Subset, FS_CardinalityType

\* A step that allocates or frees the memory of whole nodes only.
LEMMA NodesOnly ==
    ASSUME PoolInv, avail' \in Nat, Len(list) \in Nat, Len(list') \in Nat,
           avail' + 2 * Len(list') = avail + 2 * Len(list), Freeing' = Freeing
    PROVE  PoolInv'
<1>1. Cardinality(Freeing) \in Nat
  BY FreeingFinite
<1>2. POOL \in Nat /\ avail \in Nat /\ avail + 2 * Len(list) + Cardinality(Freeing) = POOL
  BY QbuffConstants DEF PoolInv, PoolConserved, Freeing
<1>3. avail' + 2 * Len(list') + Cardinality(Freeing') = POOL
  BY <1>1, <1>2
<1> QED
  BY <1>3 DEF PoolInv, PoolConserved, Freeing

LEMMA PoolKept ==
    ASSUME StreamInv, PoolInv, [Next]_vars
    PROVE  PoolInv'
<1>1. pc \in [Threads -> Pcs] /\ Len(list) \in Nat /\ avail \in Nat /\ list \in Seq(Node)
  BY DEF StreamInv, LocalsOK, QueueOK, PoolInv
<1>2. /\ POOL \in Nat /\ Cardinality(Freeing) \in Nat /\ IsFiniteSet(Freeing)
      /\ avail + 2 * Len(list) + Cardinality(Freeing) = POOL
  BY FreeingFinite, QbuffConstants DEF PoolInv, PoolConserved, Freeing
<1>3. ASSUME NEW t \in Threads, NEW l \in Pcs \ {"freeNode"}, Goto(t, l), pc[t] # "freeNode"
      PROVE  Freeing' = Freeing
  BY <1>1, <1>3 DEF Goto, Freeing
<1>4. CASE UNCHANGED vars
  BY <1>4 DEF vars, PoolInv, PoolConserved
<1>5. ASSUME NEW t \in Threads, NEW n \in Sizes, Call(t, n)
      PROVE  PoolInv'
  <2>1. Freeing' = Freeing
    BY <1>3, <1>5 DEF Call, Pcs
  <2> QED
    BY <1>1, <1>5, <2>1, NodesOnly DEF Call
<1>6. ASSUME NEW t \in Threads, Lock(t) \/ PutFails(t) \/ GetNothing(t)
                                \/ FlushTest(t) \/ FlushCrashes(t)
      PROVE  PoolInv'
  <2>1. Freeing' = Freeing
    BY <1>3, <1>6 DEF Lock, PutFails, GetNothing, FlushTest, FlushCrashes, Pcs
  <2>2. list' = list /\ avail' = avail
    BY <1>6 DEF Lock, PutFails, GetNothing, FlushTest, FlushCrashes
  <2> QED
    BY <1>1, <2>1, <2>2, NodesOnly
<1>7. ASSUME NEW t \in Threads, PutNode(t)
      PROVE  PoolInv'
  <2>1. Freeing' = Freeing
    BY <1>3, <1>7 DEF PutNode, Pcs
  <2>2. avail' \in Nat /\ avail' = avail - 2
    BY <1>1, <1>7 DEF PutNode, CanAlloc
  <2>3. Len(list') = Len(list) + 1
    BY <1>1, <1>7 DEF PutNode
  <2> QED
    BY <1>1, <2>1, <2>2, <2>3, NodesOnly
<1>8. ASSUME NEW t \in Threads, PutNoData(t)
      PROVE  PoolInv'
  <2>1. Freeing' = Freeing \cup {t} /\ t \notin Freeing
    BY <1>1, <1>8 DEF PutNoData, Goto, Freeing, Pcs
  <2>2. Cardinality(Freeing') = Cardinality(Freeing) + 1
    BY <1>2, <2>1, FS_AddElement
  <2>3. avail' \in Nat /\ avail' = avail - 1 /\ list' = list
    BY <1>1, <1>8 DEF PutNoData, CanAlloc
  <2>4. avail' + 2 * Len(list') + Cardinality(Freeing') = POOL
    BY <1>1, <1>2, <2>2, <2>3
  <2> QED
    BY <2>3, <2>4 DEF PoolInv, PoolConserved, Freeing
<1>9. ASSUME NEW t \in Threads, FreeNode(t)
      PROVE  PoolInv'
  <2>1. Freeing' = Freeing \ {t} /\ t \in Freeing
    BY <1>1, <1>9 DEF FreeNode, Goto, Freeing, Pcs
  <2>2. Cardinality(Freeing') = Cardinality(Freeing) - 1
    BY <1>2, <2>1, FS_RemoveElement
  <2>3. avail' \in Nat /\ avail' = avail + 1 /\ list' = list
    BY <1>1, <1>9 DEF FreeNode
  <2>4. avail' + 2 * Len(list') + Cardinality(Freeing') = POOL
    BY <1>1, <1>2, <2>2, <2>3
  <2> QED
    BY <2>3, <2>4 DEF PoolInv, PoolConserved, Freeing
<1>10. ASSUME NEW t \in Threads, GetCopy(t)
       PROVE  PoolInv'
  <2>1. pc[t] = "copy" /\ (Goto(t, "idle") \/ pc' = pc)
    BY <1>10 DEF GetCopy
  <2>2. Freeing' = Freeing
    BY <1>3, <2>1 DEF Freeing, Pcs
  <2> DEFINE n == CopyAmount(t)
  <2>3. list # <<>> /\ list' = Advanced(n)
        /\ avail' = IF Len(list') < Len(list) THEN avail + 2 ELSE avail
    BY <1>10 DEF GetCopy
  <2> HIDE DEF n
  <2>4. Len(list') \in Nat /\ (Len(list') = Len(list) - 1 \/ Len(list') = Len(list))
    <3>1. CASE list' = Tail(list)
      BY <1>1, <2>3, <3>1
    <3>2. CASE list' = [list EXCEPT ![1].tail = @ + n]
      BY <1>1, <2>3, <3>2
    <3> QED
      BY <2>3, <3>1, <3>2 DEF Advanced
  <2>5. avail' \in Nat /\ avail' + 2 * Len(list') = avail + 2 * Len(list)
    BY <1>1, <2>3, <2>4
  <2> QED
    BY <1>1, <2>2, <2>4, <2>5, NodesOnly
<1>11. ASSUME NEW t \in Threads, Flush(t)
       PROVE  PoolInv'
  <2>1. Freeing' = Freeing
    BY <1>3, <1>11 DEF Flush, Pcs
  <2>2. Len(list') = 0 /\ avail' = avail + 2 * Len(list)
    BY <1>11 DEF Flush
  <2>3. avail' \in Nat /\ avail' + 2 * Len(list') = avail + 2 * Len(list)
    BY <1>1, <2>2
  <2> QED
    BY <1>1, <2>1, <2>2, <2>3, NodesOnly
<1> QED
  BY <1>4, <1>5, <1>6, <1>7, <1>8, <1>9, <1>10, <1>11 DEF Next, Put, Get

LEMMA PoolInit == Init => PoolInv
<1> SUFFICES ASSUME Init PROVE PoolInv
  OBVIOUS
<1>1. Freeing = {} /\ avail = POOL /\ POOL \in Nat /\ Len(list) = 0
  BY QbuffConstants DEF Init, Freeing
<1>2. Cardinality(Freeing) = 0
  BY <1>1, FS_EmptySet
<1> QED
  BY <1>1, <1>2 DEF PoolInv, PoolConserved, Freeing

\* No memory of the pool is lost or freed twice, whichever allocation of
\* os_qbuff_put fails and however its callers interleave.
THEOREM PoolNotLost == Spec => []PoolConserved
<1>1. PoolInv => PoolConserved
  BY DEF PoolInv
<1> QED
  BY <1>1, StreamInit, StreamKept, PoolInit, PoolKept, PTL DEF Spec

\* Type correctness of the queue and of the callers' locals.
THEOREM QbuffTypeCorrect == Spec => []TypeOK
<1>1. StreamInv /\ PoolInv => TypeOK
  BY DEF StreamInv, LocalsOK, QueueOK, PoolInv, TypeOK
<1> QED
  BY <1>1, StreamInit, StreamKept, PoolInit, PoolKept, PTL DEF Spec

----------------------------------------------------------------------------
(***************************************************************************)
(* The refinement.                                                         *)
(***************************************************************************)

\* Between the lock and its release a thread owns the lock of the queue, a
\* running call has one of Sizes, and nothing is copied before the loop.
CallInv ==
    /\ \A t \in Threads : pc[t] \in {"put", "copy", "flush"} => lock = t
    /\ \A t \in Threads : pc[t] \in {"putLock", "put", "getLock", "copy"} => size[t] \in Sizes
    /\ \A t \in Threads : pc[t] = "getLock" => total[t] = 0

LEMMA CallKept ==
    ASSUME LocalsOK, CallInv, [Next]_vars
    PROVE  CallInv'
<1>1. CASE UNCHANGED vars
  BY <1>1 DEF vars, CallInv
<1>2. ASSUME NEW t \in Threads, NEW n \in Sizes, Call(t, n)
      PROVE  CallInv'
  BY <1>2 DEF Call, Goto, CallInv, LocalsOK
<1>3. ASSUME NEW t \in Threads, Lock(t)
      PROVE  CallInv'
  <2>1. \A u \in Threads : pc[u] \notin {"put", "copy", "flush"}
    BY <1>3, QbuffConstants DEF Lock, CallInv
  <2> QED
    BY <1>3, <2>1 DEF Lock, Goto, CallInv, LocalsOK
<1>4. ASSUME NEW t \in Threads, PutNode(t) \/ PutFails(t) \/ PutNoData(t)
                                \/ GetNothing(t) \/ Flush(t)
      PROVE  CallInv'
  <2>1. \A u \in Threads \ {t} : pc[u] \notin {"put", "copy", "flush"}
    BY <1>4 DEF CallInv, PutNode, PutFails, PutNoData, GetNothing, Flush
  <2> QED
    BY <1>4, <2>1 DEF PutNode, PutFails, PutNoData, GetNothing, Flush, Goto, CallInv, LocalsOK
<1>5. ASSUME NEW t \in Threads, FreeNode(t) \/ FlushTest(t) \/ FlushCrashes(t)
      PROVE  CallInv'
  BY <1>5 DEF FreeNode, FlushTest, FlushCrashes, Goto, CallInv, LocalsOK
<1>6. ASSUME NEW t \in Threads, GetCopy(t)
      PROVE  CallInv'
  <2>1. \A u \in Threads \ {t} : pc[u] \notin {"put", "copy", "flush"}
    BY <1>6 DEF CallInv, GetCopy
  <2>2. /\ size' = size /\ \A u \in Threads \ {t} : total'[u] = total[u]
        /\ pc[t] = "copy"
        /\ (lock' = None /\ Goto(t, "idle")) \/ UNCHANGED <<lock, pc>>
    BY <1>6 DEF GetCopy, LocalsOK
  <2>3. CASE lock' = None /\ Goto(t, "idle")
    BY <2>1, <2>2, <2>3 DEF Goto, CallInv, LocalsOK
  <2>4. CASE UNCHANGED <<lock, pc>>
    BY <2>1, <2>2, <2>4 DEF CallInv, LocalsOK
  <2> QED
    BY <2>2, <2>3, <2>4
<1> QED
  BY <1>1, <1>2, <1>3, <1>4, <1>5, <1>6 DEF Next, Put, Get

\* The position of the stream while thread t copies, and while nobody does.
LEMMA FirstCopying ==
    ASSUME CallInv, NEW t \in Threads, pc[t] = "copy"
    PROVE  StreamFirst = IF put - FirstByte < Remaining(t)
                         THEN put ELSE FirstByte + Remaining(t)
<1>1. \A u \in Threads : pc[u] = "copy" => u = t
  BY DEF CallInv
<1> QED
  BY <1>1 DEF StreamFirst

LEMMA FirstCopyingNext ==
    ASSUME CallInv', NEW t \in Threads, pc'[t] = "copy"
    PROVE  StreamFirst' = IF put' - FirstByte' < Remaining(t)'
                          THEN put' ELSE FirstByte' + Remaining(t)'
<1>1. \A u \in Threads : pc'[u] = "copy" => u = t
  BY DEF CallInv
<1> QED
  BY <1>1 DEF StreamFirst

LEMMA FirstQuiet ==
    ASSUME \A t \in Threads : pc[t] # "copy"
    PROVE  StreamFirst = FirstByte
BY DEF StreamFirst

\* The first byte that is left, and how an iteration of the loop moves it.
LEMMA FirstBounds ==
    ASSUME QueueOK
    PROVE  FirstByte \in Nat /\ FirstByte <= put
<1>1. CASE list = <<>>
  BY <1>1 DEF QueueOK, FirstByte
<1>2. CASE list # <<>>
  <2>1. /\ list[1].first \in Nat /\ list[1].size \in Nat /\ list[1].tail \in Nat
        /\ list[1].tail < list[1].size /\ list[1].first + list[1].size <= put
        /\ FirstByte = list[1].first + list[1].tail
    BY <1>2, FirstNode
  <2>2. put \in Nat
    BY DEF QueueOK
  <2> QED
    BY <2>1, <2>2
<1> QED
  BY <1>1, <1>2

\* A step that changes neither the queue nor who copies is no step of the
\* stream.
LEMMA Quiet ==
    ASSUME LocalsOK, CallInv, CallInv', UNCHANGED <<list, put>>,
           NEW t \in Threads, pc[t] # "copy", NEW l \in Pcs \ {"copy"}, Goto(t, l),
           \A u \in Threads \ {t} : size'[u] = size[u] /\ total'[u] = total[u]
    PROVE  UNCHANGED Stream!stream
<1>1. FirstByte' = FirstByte
  BY DEF FirstByte
<1>2. \A u \in Threads : pc'[u] = "copy" <=> pc[u] = "copy"
  BY DEF Goto, LocalsOK
<1>3. CASE \E u \in Threads : pc[u] = "copy"
  <2>1. PICK u \in Threads : pc[u] = "copy"
    BY <1>3
  <2>2. pc'[u] = "copy" /\ u # t
    BY <1>2, <2>1
  <2>3. Remaining(u)' = Remaining(u)
    BY <2>2 DEF Remaining
  <2>4. StreamFirst' = IF put' - FirstByte' < Remaining(u)'
                       THEN put' ELSE FirstByte' + Remaining(u)'
    BY <2>2, FirstCopyingNext
  <2>5. StreamFirst' = StreamFirst
    BY <1>1, <2>1, <2>3, <2>4, FirstCopying
  <2> QED
    BY <2>5 DEF Stream!stream
<1>4. CASE \A u \in Threads : pc[u] # "copy"
  <2>1. StreamFirst' = FirstByte'
    BY <1>2, <1>4 DEF StreamFirst
  <2>2. StreamFirst' = StreamFirst
    BY <1>1, <1>4, <2>1, FirstQuiet
  <2> QED
    BY <2>2 DEF Stream!stream
<1> QED
  BY <1>3, <1>4

\* How an iteration of the copying loop moves the first byte.
LEMMA FirstMoves ==
    ASSUME QueueOK, QueueOK', NEW n \in Nat, put' = put, currentSize' = currentSize - n
    PROVE  FirstByte' = FirstByte + n
<1>1. FirstByte \in Nat /\ currentSize = put - FirstByte /\ put \in Nat
  BY FirstBounds DEF QueueOK, SizeExact
<1>2. currentSize' = put - FirstByte'
  BY DEF QueueOK, SizeExact
<1>3. FirstByte' \in Nat
  <2>1. CASE list' = <<>>
    BY <2>1 DEF QueueOK, FirstByte
  <2>2. CASE list' # <<>>
    <3>1. list' \in Seq(Node) /\ 1 \in 1 .. Len(list')
      BY <2>2 DEF QueueOK
    <3>2. list'[1] \in Node
      BY <3>1
    <3> QED
      BY <2>2, <3>2 DEF FirstByte, Node
  <2> QED
    BY <2>1, <2>2
<1>4. PICK b \in Nat : b = FirstByte'
  BY <1>3
<1>5. PICK c \in Nat : c = currentSize'
  BY DEF QueueOK
<1>6. c = put - b /\ c = put - FirstByte - n
  BY <1>1, <1>2, <1>4, <1>5
<1>7. b = FirstByte + n
  BY ONLY <1>1, <1>6, n \in Nat, b \in Nat, c \in Nat
<1> QED
  BY <1>4, <1>7

\* A get takes effect when it has the lock.
LEMMA LockReads ==
    ASSUME LocalsOK, QueueOK, CallInv, CallInv', NEW t \in Threads, Lock(t)
    PROVE  [Stream!StreamNext]_(Stream!stream)
<1>1. \A u \in Threads : pc[u] \notin {"put", "copy", "flush"}
  BY QbuffConstants DEF Lock, CallInv
<1>2. FirstByte' = FirstByte /\ put' = put
  BY DEF Lock, FirstByte
<1>3. CASE pc[t] = "getLock"
  <2>1. pc'[t] = "copy" /\ size[t] \in Sizes /\ Remaining(t)' = size[t]
    <3>1. pc'[t] = "copy" /\ size' = size /\ total' = total
      BY <1>3 DEF Lock, Goto, LocalsOK
    <3>2. size[t] \in Sizes /\ total[t] = 0 /\ size[t] \in Nat
      BY <1>3, QbuffConstants DEF CallInv
    <3> QED
      BY <3>1, <3>2 DEF Remaining
  <2>2. StreamFirst = FirstByte
    BY <1>1, FirstQuiet
  <2>3. StreamFirst' = IF put - FirstByte < size[t] THEN put ELSE FirstByte + size[t]
    BY <1>2, <2>1, FirstCopyingNext
  <2>4. Stream!Read(size[t])
    BY <1>2, <2>2, <2>3 DEF Stream!Read
  <2> QED
    BY <2>1, <2>4 DEF Stream!StreamNext
<1>4. CASE pc[t] # "getLock"
  <2>1. \A u \in Threads : pc'[u] # "copy"
    BY <1>1, <1>4 DEF Lock, Goto, LocalsOK
  <2>2. StreamFirst' = FirstByte' /\ StreamFirst = FirstByte
    BY <1>1, <2>1 DEF StreamFirst
  <2> QED
    BY <1>2, <2>2 DEF Stream!stream
<1> QED
  BY <1>3, <1>4

\* The iterations of the loop do not move the stream, whose position is
\* already behind the bytes that they copy.
LEMMA CopyStutters ==
    ASSUME LocalsOK, QueueOK, QueueOK', CallInv, CallInv', NEW t \in Threads, Get(t)
    PROVE  UNCHANGED Stream!stream
<1>1. pc[t] = "copy" /\ put' = put /\ size' = size /\ put \in Nat /\ FirstByte \in Nat
      /\ FirstByte <= put
  BY FirstBounds DEF Get, GetCopy, GetNothing, QueueOK
<1>2. /\ StreamFirst = IF put - FirstByte < Remaining(t) THEN put ELSE FirstByte + Remaining(t)
      /\ Remaining(t) \in Nat /\ Remaining(t) = size[t] - total[t]
  <2>1. size[t] \in Nat /\ total[t] \in Nat /\ total[t] <= size[t]
    BY DEF LocalsOK, WithinBuffer
  <2> QED
    BY <1>1, <2>1, FirstCopying DEF Remaining
<1>3. Goto(t, "idle") => StreamFirst' = FirstByte'
  <2>1. Goto(t, "idle") => \A u \in Threads : pc'[u] # "copy"
    BY <1>1 DEF Goto, CallInv, LocalsOK
  <2> QED
    BY <2>1 DEF StreamFirst
<1>4. CASE GetCopy(t)
  <2> DEFINE n == CopyAmount(t)
  <2>1. /\ list # <<>> /\ list' = Advanced(n) /\ total' = [total EXCEPT ![t] = @ + n]
        /\ currentSize' = currentSize - n
        /\ IF GetDone(t, n) THEN lock' = None /\ Goto(t, "idle") ELSE UNCHANGED <<lock, pc>>
    BY <1>4 DEF GetCopy
  <2>2. /\ n \in Nat /\ n <= list[1].size - list[1].tail
        /\ total[t] + n \in Nat /\ total[t] + n <= size[t]
    BY <2>1, AmountFits
  <2> HIDE DEF n
  <2>3. FirstByte' = FirstByte + n
    BY <1>1, <2>1, <2>2, FirstMoves
  <2>4. FirstByte' <= put
    <3>1. currentSize' \in Nat /\ currentSize' = put' - FirstByte'
      BY DEF QueueOK, SizeExact
    <3> QED
      BY <1>1, <2>2, <2>3, <3>1
  <2>5. size[t] \in Nat /\ total[t] \in Nat /\ total'[t] = total[t] + n
    BY <2>1 DEF LocalsOK
  <2>6. CASE GetDone(t, n) /\ Advanced(n) = <<>>
    <3>1. FirstByte' = put
      BY <1>1, <2>1, <2>6 DEF FirstByte
    <3>2. StreamFirst = put
      BY <1>1, <1>2, <2>2, <2>3, <2>5, <3>1
    <3> QED
      BY <1>1, <1>3, <2>1, <2>6, <3>1, <3>2 DEF Stream!stream
  <2>7. CASE GetDone(t, n) /\ total[t] + n >= size[t]
    <3>1. Remaining(t) = n
      BY <1>2, <2>2, <2>5, <2>7
    <3>2. StreamFirst = FirstByte + n
      BY <1>1, <1>2, <2>2, <2>3, <2>4, <3>1
    <3> QED
      BY <1>1, <1>3, <2>1, <2>3, <2>7, <3>2 DEF Stream!stream
  <2>8. CASE ~GetDone(t, n)
    <3>1. pc'[t] = "copy"
      BY <1>1, <2>1, <2>8
    <3>2. Remaining(t)' = Remaining(t) - n
      BY <1>1, <1>2, <2>2, <2>5 DEF Remaining
    <3>3. StreamFirst' = IF put - FirstByte' < Remaining(t)' THEN put
                         ELSE FirstByte' + Remaining(t)'
      BY <1>1, <3>1, FirstCopyingNext
    <3>4. StreamFirst' = StreamFirst
      BY <1>1, <1>2, <2>2, <2>3, <3>2, <3>3
    <3> QED
      BY <1>1, <3>4 DEF Stream!stream
  <2> QED
    BY <2>6, <2>7, <2>8 DEF GetDone
<1>5. CASE GetNothing(t)
  <2>1. FirstByte = put /\ FirstByte' = put
    BY <1>5 DEF GetNothing, FirstByte
  <2>2. StreamFirst = put
    BY <1>1, <1>2, <2>1
  <2> QED
    BY <1>1, <1>3, <1>5, <2>1, <2>2 DEF GetNothing, Stream!stream
<1> QED
  BY <1>4, <1>5 DEF Get

\* A put writes and a flush drops, with nobody in the copying loop.
LEMMA WritesAndDrops ==
    ASSUME LocalsOK, QueueOK, QueueOK', CallInv, NEW t \in Threads, PutNode(t) \/ Flush(t)
    PROVE  Stream!StreamNext
<1>1. \A u \in Threads : pc[u] # "copy" /\ pc'[u] # "copy"
  <2>1. pc[t] \in {"put", "flush"} /\ Goto(t, "idle")
    BY DEF PutNode, Flush
  <2> QED
    BY <2>1 DEF Goto, CallInv, LocalsOK
<1>2. StreamFirst = FirstByte /\ StreamFirst' = FirstByte'
  BY <1>1 DEF StreamFirst
<1>3. CASE Flush(t)
  <2>1. put' = put /\ FirstByte' = put
    BY <1>3 DEF Flush, FirstByte
  <2>2. Stream!Drop
    BY <1>2, <2>1 DEF Stream!Drop
  <2> QED
    BY <2>2 DEF Stream!StreamNext
<1>4. CASE PutNode(t)
  <2>1. size[t] \in Sizes /\ size[t] \in Nat /\ put' = put + size[t]
    BY <1>4, QbuffConstants DEF PutNode, CallInv
  <2>2. FirstByte' = FirstByte
    <3>1. /\ FirstByte \in Nat /\ put \in Nat /\ currentSize = put - FirstByte
          /\ currentSize' = put' - FirstByte' /\ currentSize' = currentSize + size[t]
      BY <1>4, FirstBounds DEF QueueOK, SizeExact, PutNode
    <3>2. FirstByte' \in Int
      <4>1. list' # <<>> /\ list' \in Seq(Node)
        BY <1>4 DEF PutNode, QueueOK
      <4>2. list'[1] \in Node
        BY <4>1
      <4> QED
        BY <4>1, <4>2 DEF FirstByte, Node
    <3> QED
      BY <2>1, <3>1, <3>2
  <2>3. Stream!Write(size[t])
    BY <1>2, <2>1, <2>2 DEF Stream!Write
  <2> QED
    BY <2>1, <2>3 DEF Stream!StreamNext
<1> QED
  BY <1>3, <1>4

\* Every step of the queue is a step of the stream or leaves it alone.
LEMMA StreamSteps ==
    ASSUME LocalsOK, QueueOK, QueueOK', CallInv, CallInv', [Next]_vars
    PROVE  [Stream!StreamNext]_(Stream!stream)
<1>1. CASE UNCHANGED vars
  BY <1>1 DEF vars, Stream!stream, StreamFirst, FirstByte, Remaining
<1>2. ASSUME NEW t \in Threads, NEW n \in Sizes, Call(t, n)
      PROVE  UNCHANGED Stream!stream
  <2>1. UNCHANGED <<list, put>> /\ pc[t] # "copy" /\ (Goto(t, "putLock") \/ Goto(t, "getLock"))
        /\ \A u \in Threads \ {t} : size'[u] = size[u] /\ total'[u] = total[u]
    BY <1>2 DEF Call, LocalsOK
  <2> QED
    BY <2>1, Quiet DEF Pcs
<1>3. ASSUME NEW t \in Threads, PutFails(t) \/ PutNoData(t) \/ FreeNode(t)
                                \/ FlushTest(t) \/ FlushCrashes(t)
      PROVE  UNCHANGED Stream!stream
  <2>1. UNCHANGED <<list, put, size, total>> /\ pc[t] # "copy"
    BY <1>3 DEF PutFails, PutNoData, FreeNode, FlushTest, FlushCrashes
  <2>2. PICK l \in Pcs \ {"copy"} : Goto(t, l)
    BY <1>3 DEF PutFails, PutNoData, FreeNode, FlushTest, FlushCrashes, Pcs
  <2> QED
    BY <2>1, <2>2, Quiet
<1>4. ASSUME NEW t \in Threads, Lock(t)
      PROVE  [Stream!StreamNext]_(Stream!stream)
  BY <1>4, LockReads
<1>5. ASSUME NEW t \in Threads, Get(t)
      PROVE  UNCHANGED Stream!stream
  BY <1>5, CopyStutters
<1>6. ASSUME NEW t \in Threads, PutNode(t) \/ Flush(t)
      PROVE  Stream!StreamNext
  BY <1>6, WritesAndDrops
<1> QED
  BY <1>1, <1>2, <1>3, <1>4, <1>5, <1>6 DEF Next, Put

\* The buffer queue implements a byte stream for any number of threads, any
\* block sizes and any pool: a get of os_qbuff_get is atomic although it copies
\* node by node.
THEOREM QueueIsStream == Spec => ImplementsStream
<1>1. Init => Stream!StreamInit
  BY DEF Init, Stream!StreamInit, StreamFirst, FirstByte
<1>2. Init => StreamInv /\ CallInv
  BY StreamInit DEF Init, CallInv
<1>3. StreamInv /\ CallInv /\ [Next]_vars => StreamInv' /\ CallInv'
  BY StreamKept, CallKept DEF StreamInv
<1>4. StreamInv /\ CallInv /\ StreamInv' /\ CallInv' /\ [Next]_vars
          => [Stream!StreamNext]_(Stream!stream)
  BY StreamSteps DEF StreamInv
<1> QED
  BY <1>1, <1>2, <1>3, <1>4, PTL DEF Spec, ImplementsStream, Stream!StreamSpec
============================================================================
