------------------------------ MODULE SosQbuff ------------------------------
(***************************************************************************)
(* The buffer queue of sos (libs/sos/source/sos/src/qbuff.c): threads put  *)
(* blocks of any size and get bytes of any size; a get copies from as many *)
(* nodes as it needs and may leave a node half read.  The memory of nodes  *)
(* and data comes from a pool of buff.c.                                   *)
(*                                                                         *)
(* A byte is modelled by its position in the sequence of all bytes put, so *)
(* a node is the position of its first byte, its size and its tail.  One   *)
(* iteration of the copying loop is one step, with the queue's mutex held. *)
(* The pool counts allocations: a node and its data are one unit each.     *)
(***************************************************************************)
EXTENDS Integers, Sequences, FiniteSets

CONSTANTS
    Threads,    \* the threads that use the queue
    None,       \* the owner of a free mutex
    Sizes,      \* the block sizes that are put and asked for
    POOL,       \* totsize of the pool, in allocations
    MaxBytes    \* bound: no put begins after so many bytes

ASSUME QbuffConstants ==
    /\ IsFiniteSet(Threads) /\ None \notin Threads
    /\ Sizes \subseteq Nat \ {0}
    /\ POOL \in Nat /\ MaxBytes \in Nat

VARIABLES
    pc,           \* where each thread is
    lock,         \* owner of qhead->lock
    list,         \* qhead->list
    currentSize,  \* qhead->current_size
    avail,        \* availsize of the pool
    put,          \* how many bytes have been put into the queue
    size,         \* the size of each thread's running put or get
    total         \* total_copy_amount of each thread's running get

vars == <<pc, lock, list, currentSize, avail, put, size, total>>

Node == [first : Nat, size : Nat, tail : Nat]
Pcs  == {"idle", "putLock", "put", "freeNode", "getLock", "copy", "flushLock",
         "flush", "crashed"}

Goto(t, l) == pc' = [pc EXCEPT ![t] = l]

\* The process is alive: no thread has followed a null pointer.
Alive == \A t \in Threads : pc[t] # "crashed"

Init ==
    /\ pc = [t \in Threads |-> "idle"]
    /\ lock = None /\ list = <<>> /\ currentSize = 0 /\ avail = POOL
    /\ put = 0
    /\ size = [t \in Threads |-> 0] /\ total = [t \in Threads |-> 0]

----------------------------------------------------------------------------
\* os_qbuff_put and os_qbuff_get, up to the lock.
Call(t, n) ==
    /\ pc[t] = "idle"
    /\ \/ put < MaxBytes /\ Goto(t, "putLock")
       \/ Goto(t, "getLock")
    /\ size' = [size EXCEPT ![t] = n] /\ total' = [total EXCEPT ![t] = 0]
    /\ UNCHANGED <<lock, list, currentSize, avail, put>>

Lock(t) ==
    /\ pc[t] \in {"putLock", "getLock", "flushLock"} /\ lock = None
    /\ lock' = t
    /\ Goto(t, CASE pc[t] = "putLock" -> "put"
                 [] pc[t] = "getLock" -> "copy"
                 [] pc[t] = "flushLock" -> "flush")
    /\ UNCHANGED <<list, currentSize, avail, put, size, total>>

----------------------------------------------------------------------------
(***************************************************************************)
(* os_qbuff_put with the lock held.                                        *)
(***************************************************************************)

\* buff_alloc_data refuses the last unit: "real_len >= cls->availsize".
CanAlloc(free) == free > 1

\* Both allocations succeed: the node is appended.
PutNode(t) ==
    /\ pc[t] = "put"
    /\ CanAlloc(avail) /\ CanAlloc(avail - 1)
    /\ avail' = avail - 2
    /\ list' = Append(list, [first |-> put, size |-> size[t], tail |-> 0])
    /\ put' = put + size[t]
    /\ currentSize' = currentSize + size[t]
    /\ lock' = None /\ Goto(t, "idle")
    /\ UNCHANGED <<size, total>>

\* No memory for the node.
PutFails(t) ==
    /\ pc[t] = "put" /\ ~CanAlloc(avail)
    /\ lock' = None /\ Goto(t, "idle")
    /\ UNCHANGED <<list, currentSize, avail, put, size, total>>

\* Mutant: the node is lost when there is no memory for its data.
PutNoData_Leaks(t) ==
    /\ pc[t] = "put" /\ CanAlloc(avail) /\ ~CanAlloc(avail - 1)
    /\ avail' = avail - 1
    /\ lock' = None /\ Goto(t, "idle")
    /\ UNCHANGED <<list, currentSize, put, size, total>>

\* No memory for the data: the lock is released before the node is freed.
PutNoData(t) ==
    /\ pc[t] = "put" /\ CanAlloc(avail) /\ ~CanAlloc(avail - 1)
    /\ avail' = avail - 1
    /\ lock' = None /\ Goto(t, "freeNode")
    /\ UNCHANGED <<list, currentSize, put, size, total>>

FreeNode(t) ==
    /\ pc[t] = "freeNode"
    /\ avail' = avail + 1 /\ Goto(t, "idle")
    /\ UNCHANGED <<lock, list, currentSize, put, size, total>>

----------------------------------------------------------------------------
(***************************************************************************)
(* The copying loop of os_qbuff_get.                                       *)
(***************************************************************************)

\* Mutant: the rest of the node is taken, whatever the caller's buffer holds.
CopyAmount_WholeNode(t) == list[1].size - list[1].tail

\* How many bytes the iteration takes from the first node.
CopyAmount(t) ==
    LET available == list[1].size - list[1].tail
        remaining == size[t] - total[t]
    IN  IF available > remaining THEN remaining ELSE available

\* Mutant: a node that runs out stays in the list.
Advanced_KeepsNode(n) == [list EXCEPT ![1].tail = @ + n]

\* The list after n bytes of its first node; a node that runs out is deleted.
Advanced(n) ==
    IF list[1].tail + n = list[1].size
    THEN Tail(list)
    ELSE [list EXCEPT ![1].tail = @ + n]

\* Mutant: the loop ends with the first node.
GetDone_OneNode(t, n) == TRUE

\* continue_flag becomes 0.
GetDone(t, n) == Advanced(n) = <<>> \/ total[t] + n >= size[t]

\* Mutants: the current size is reduced once, at the end of the loop; it is
\* reduced by the size asked for.
GetCopy_LateSize(t) ==
    /\ pc[t] = "copy" /\ list # <<>>
    /\ LET n == CopyAmount(t) IN
          /\ list' = Advanced(n)
          /\ avail' = IF Len(list') < Len(list) THEN avail + 2 ELSE avail
          /\ total' = [total EXCEPT ![t] = @ + n]
          /\ currentSize' = IF GetDone(t, n) THEN currentSize - n ELSE currentSize
          /\ IF GetDone(t, n) THEN lock' = None /\ Goto(t, "idle")
                              ELSE UNCHANGED <<lock, pc>>
    /\ UNCHANGED <<put, size>>
GetCopy_SizeAsked(t) ==
    /\ pc[t] = "copy" /\ list # <<>>
    /\ LET n == CopyAmount(t) IN
          /\ list' = Advanced(n)
          /\ avail' = IF Len(list') < Len(list) THEN avail + 2 ELSE avail
          /\ total' = [total EXCEPT ![t] = @ + n]
          /\ currentSize' = currentSize - size[t]
          /\ IF GetDone(t, n) THEN lock' = None /\ Goto(t, "idle")
                              ELSE UNCHANGED <<lock, pc>>
    /\ UNCHANGED <<put, size>>

GetCopy(t) ==
    /\ pc[t] = "copy" /\ list # <<>>
    /\ LET n == CopyAmount(t) IN
          /\ list' = Advanced(n)
          /\ avail' = IF Len(list') < Len(list) THEN avail + 2 ELSE avail
          /\ total' = [total EXCEPT ![t] = @ + n]
          /\ currentSize' = currentSize - n
          /\ IF GetDone(t, n) THEN lock' = None /\ Goto(t, "idle")
                              ELSE UNCHANGED <<lock, pc>>
    /\ UNCHANGED <<put, size>>

\* The queue is empty: nothing is copied.
GetNothing(t) ==
    /\ pc[t] = "copy" /\ list = <<>>
    /\ lock' = None /\ Goto(t, "idle")
    /\ UNCHANGED <<list, currentSize, avail, put, size, total>>

----------------------------------------------------------------------------
(***************************************************************************)
(* os_qbuff_flush.                                                         *)
(***************************************************************************)

\* The list is looked at without the lock: an empty one needs no flush.
FlushTest(t) ==
    /\ pc[t] = "idle" /\ list # <<>>
    /\ Goto(t, "flushLock")
    /\ UNCHANGED <<lock, list, currentSize, avail, put, size, total>>

Flush(t) ==
    /\ pc[t] = "flush" /\ list # <<>>
    /\ avail' = avail + 2 * Len(list)
    /\ list' = <<>> /\ currentSize' = 0
    /\ lock' = None /\ Goto(t, "idle")
    /\ UNCHANGED <<put, size, total>>

\* Another thread has emptied the list in between: the loop follows a null
\* pointer, and the process dies.
FlushCrashes(t) ==
    /\ pc[t] = "flush" /\ list = <<>>
    /\ Goto(t, "crashed")
    /\ UNCHANGED <<lock, list, currentSize, avail, put, size, total>>

----------------------------------------------------------------------------
Put(t) == PutNode(t) \/ PutFails(t) \/ PutNoData(t) \/ FreeNode(t)
Get(t) == GetCopy(t) \/ GetNothing(t)

Next == /\ Alive
        /\ \E t \in Threads : \/ \E n \in Sizes : Call(t, n)
                              \/ Lock(t) \/ Put(t) \/ Get(t)
                              \/ FlushTest(t) \/ Flush(t) \/ FlushCrashes(t)

Spec == Init /\ [][Next]_vars

----------------------------------------------------------------------------
(***************************************************************************)
(* Properties.                                                             *)
(***************************************************************************)

\* Type correctness of the queue and of the callers' locals.
TypeOK ==
    /\ pc \in [Threads -> Pcs]
    /\ lock \in Threads \cup {None}
    /\ list \in Seq(Node)
    /\ currentSize \in Nat /\ avail \in Nat /\ put \in Nat
    /\ size \in [Threads -> Nat] /\ total \in [Threads -> Nat]

\* The positions of the first byte in the queue and of the first one after it.
FirstByte == IF list = <<>> THEN put ELSE list[1].first + list[1].tail

\* The bytes in the queue are those that were put last, without gap or
\* repetition across the nodes: each node starts where the one before it
\* ends, only the first one is read in part, and none is used up.
Contiguous ==
    /\ \A i \in 1 .. Len(list) :
          /\ list[i].tail < list[i].size
          /\ i > 1 => list[i].tail = 0
          /\ i < Len(list) => list[i + 1].first = list[i].first + list[i].size
    /\ list # <<>> => list[Len(list)].first + list[Len(list)].size = put

\* What os_qbuff_sanity_check counts: current_size, "total sum of list", is
\* what the nodes still hold, inside the copying loop too, so a caller that
\* asks os_qbuff_current_size never sees bytes that are not there.
SizeExact == currentSize = put - FirstByte

\* The copying loop of os_qbuff_get never writes beyond the caller's buffer,
\* whatever the sizes of the nodes it copies from.
WithinBuffer == \A t \in Threads : total[t] <= size[t]

\* No memory of the pool is lost or freed twice, whichever allocation of a put
\* fails and however gets and flushes interleave: what is not available is in
\* the list or held by a put that is about to free it.
PoolConserved ==
    avail + 2 * Len(list) + Cardinality({t \in Threads : pc[t] = "freeNode"}) = POOL

\* A get is atomic although it copies node by node: the bytes that a running
\* get will still take are no longer in the stream.
Remaining(t) == size[t] - total[t]
StreamFirst ==
    IF \E t \in Threads : pc[t] = "copy"
    THEN LET t == CHOOSE t \in Threads : pc[t] = "copy"
         IN  IF put - FirstByte < Remaining(t) THEN put ELSE FirstByte + Remaining(t)
    ELSE FirstByte

Stream == INSTANCE ByteStream WITH first <- StreamFirst, end <- put

\* The queue implements a byte stream: puts, gets and flushes of several
\* threads take effect one after the other, a get returns the next bytes in
\* the order in which they were put, and as many as there are.
ImplementsStream == Stream!StreamSpec
============================================================================
