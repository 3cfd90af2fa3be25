---------------------------- MODULE SosMsgqProofs ----------------------------
(***************************************************************************)
(* Proofs about SosMsgq: type correctness and OwnerInside, for any number  *)
(* of senders and receivers, any mixture of modes and any capacity.        *)
(***************************************************************************)
EXTENDS SosMsgq, TLAPS

\* The parts of TypeOK about the threads and about the data, which the steps
\* of senders and receivers change apart from each other.
PcOK ==
    /\ pc \in [Threads -> SenderPcs \cup ReceiverPcs]
    /\ \A s \in Senders : pc[s] \in SenderPcs
    /\ \A r \in Receivers : pc[r] \in ReceiverPcs

DataOK ==
    /\ queue \in Seq(Messages) /\ Len(queue) <= CAPACITY
    /\ mutex \in Threads \cup {None}
    /\ got \in [Receivers -> Messages \cup {None}]

\* A thread that goes to a place of its kind keeps PcOK.
LEMMA SenderGoes ==
    ASSUME PcOK, NEW s \in Senders, NEW l \in SenderPcs, Goto(s, l)
    PROVE  PcOK'
BY MsgqConstants DEF PcOK, Goto, Threads

LEMMA ReceiverGoes ==
    ASSUME PcOK, NEW r \in Receivers, NEW l \in ReceiverPcs, Goto(r, l)
    PROVE  PcOK'
BY MsgqConstants DEF PcOK, Goto, Threads

\* os_msgq_send and os_msgq_flush keep the types.
LEMMA SendTypes ==
    ASSUME PcOK, DataOK, NEW s \in Senders,
           Send(s) \/ Flush(s) \/ SendStep(s)
    PROVE  PcOK' /\ DataOK'
<1>1. CASE Send(s)
  BY <1>1, SenderGoes DEF Send, SenderPcs, DataOK
<1>2. CASE Flush(s)
  BY <1>2, MsgqConstants DEF Flush, PcOK, DataOK
<1>3. CASE Put(s)
  <2>1. PICK m \in Messages : queue' = Append(queue, m)
    BY <1>3 DEF Put
  <2>2. queue' \in Seq(Messages) /\ Len(queue') <= CAPACITY
    BY <1>3, <2>1, MsgqConstants DEF Put, DataOK
  <2> QED
    BY <1>3, <2>2, SenderGoes DEF Put, SenderPcs, DataOK
<1>4. CASE PutFails(s)
  BY <1>4, SenderGoes DEF PutFails, SenderPcs, DataOK
<1>5. CASE CondSignal(s)
  <2>1. DataOK'
    BY <1>5 DEF CondSignal, DataOK
  <2>2. CASE Goto(s, "unlock")
    BY <2>1, <2>2, SenderGoes DEF SenderPcs
  <2>3. CASE \E r \in Waiting : pc' = [pc EXCEPT ![s] = "unlock", ![r] = "woken"]
    BY <2>1, <2>3, MsgqConstants
    DEF PcOK, Waiting, SenderPcs, ReceiverPcs, Threads
  <2> QED
    BY <1>5, <2>2, <2>3 DEF CondSignal
<1>6. CASE CondLock(s)
  BY <1>6, SenderGoes DEF CondLock, SenderPcs, DataOK, Threads
<1>7. CASE CondUnlock(s)
  BY <1>7, SenderGoes DEF CondUnlock, SenderPcs, DataOK
<1> QED
  BY <1>1, <1>2, <1>3, <1>4, <1>5, <1>6, <1>7 DEF SendStep

\* The receives keep the types.
LEMMA RecvTypes ==
    ASSUME PcOK, DataOK, NEW r \in Receivers,
           Recv(r) \/ RecvStep(r) \/ SpuriousWakeup(r)
    PROVE  PcOK' /\ DataOK'
<1>1. CASE Recv(r)
  BY <1>1, ReceiverGoes DEF Recv, ReceiverPcs, DataOK
<1>2. CASE TestSize(r)
  BY <1>2, ReceiverGoes DEF TestSize, ReceiverPcs, DataOK
<1>3. CASE CondAcquire(r)
  BY <1>3, ReceiverGoes DEF CondAcquire, ReceiverPcs, DataOK, Threads
<1>4. CASE CondWait(r)
  BY <1>4, ReceiverGoes DEF CondWait, ReceiverPcs, DataOK
<1>5. CASE CondWaitRefused(r)
  BY <1>5, ReceiverGoes DEF CondWaitRefused, ReceiverPcs, DataOK
<1>6. CASE Timeout(r) \/ SpuriousWakeup(r)
  BY <1>6, ReceiverGoes DEF Timeout, SpuriousWakeup, ReceiverPcs, DataOK
<1>7. CASE CondReturn(r)
  BY <1>7, ReceiverGoes DEF CondReturn, ReceiverPcs, DataOK, Threads
<1>8. CASE Retest(r)
  BY <1>8, ReceiverGoes DEF Retest, ReceiverPcs, DataOK
<1>9. CASE Get(r)
  <2>1. CASE queue # <<>>
    <3>1. queue' = Tail(queue) /\ got' = [got EXCEPT ![r] = Head(queue)]
      BY <1>9, <2>1 DEF Get
    <3>2. Head(queue) \in Messages /\ Tail(queue) \in Seq(Messages)
          /\ Len(Tail(queue)) = Len(queue) - 1 /\ Len(queue) \in Nat
      BY <2>1 DEF DataOK
    <3>3. queue' \in Seq(Messages) /\ Len(queue') <= CAPACITY
      BY <3>1, <3>2, MsgqConstants DEF DataOK
    <3>4. got' \in [Receivers -> Messages \cup {None}]
      BY <3>1, <3>2 DEF DataOK
    <3>5. mutex' = mutex
      BY <1>9 DEF Get
    <3>6. DataOK'
      BY <3>3, <3>4, <3>5 DEF DataOK
    <3> QED
      BY <1>9, <3>6, ReceiverGoes DEF Get, ReceiverPcs
  <2>2. CASE queue = <<>>
    BY <1>9, <2>2, ReceiverGoes DEF Get, ReceiverPcs, DataOK
  <2> QED
    BY <2>1, <2>2
<1>10. CASE CondRelease(r)
  BY <1>10, ReceiverGoes DEF CondRelease, ReceiverPcs, DataOK
<1> QED
  BY <1>1, <1>2, <1>3, <1>4, <1>5, <1>6, <1>7, <1>8, <1>9, <1>10 DEF RecvStep

LEMMA InitTypes == Init => PcOK /\ DataOK
BY MsgqConstants DEF Init, PcOK, DataOK, Threads, SenderPcs, ReceiverPcs

LEMMA NextTypes ==
    ASSUME PcOK, DataOK, [Next]_vars
    PROVE  PcOK' /\ DataOK'
<1>1. CASE \E s \in Senders : Send(s) \/ Flush(s) \/ SendStep(s)
  BY <1>1, SendTypes
<1>2. CASE \E r \in Receivers : Recv(r) \/ RecvStep(r) \/ SpuriousWakeup(r)
  BY <1>2, RecvTypes
<1>3. CASE UNCHANGED vars
  BY <1>3 DEF vars, PcOK, DataOK
<1> QED
  BY <1>1, <1>2, <1>3 DEF Next

LEMMA Typed == PcOK /\ DataOK <=> TypeOK
BY DEF PcOK, DataOK, TypeOK

\* Type correctness: the threads of os_msgq_send and os_msgq_recv stay at the
\* places of their kind and the queue within the room of its pool.
THEOREM MsgqTypeCorrect == Spec => []TypeOK
<1>1. Init => PcOK /\ DataOK
  BY InitTypes
<1>2. PcOK /\ DataOK /\ [Next]_vars => (PcOK /\ DataOK)'
  BY NextTypes
<1>3. PcOK /\ DataOK => TypeOK
  BY Typed
<1> QED
  BY <1>1, <1>2, <1>3, PTL DEF Spec

----------------------------------------------------------------------------
\* A step of a thread that is not inside leaves the owner of the mutex alone.
LEMMA OwnerKept ==
    ASSUME PcOK, DataOK, OwnerInside, [Next]_vars
    PROVE  OwnerInside'
<1> USE DEF OwnerInside
<1>1. CASE UNCHANGED vars
  BY <1>1 DEF vars
<1>2. ASSUME NEW s \in Senders, Send(s) \/ Flush(s) \/ SendStep(s)
      PROVE  OwnerInside'
  <2>1. /\ pc \in [Threads -> SenderPcs \cup ReceiverPcs] /\ s \in Threads
        /\ (mutex # None => mutex \in Threads)
    BY DEF PcOK, DataOK, Threads
  <2>2. CASE CondSignal(s)
    BY <2>1, <2>2 DEF CondSignal, Waiting, Goto
  <2>3. CASE CondLock(s) \/ CondUnlock(s)
    BY <2>1, <2>3 DEF CondLock, CondUnlock, Goto
  <2>4. CASE Send(s) \/ Flush(s) \/ Put(s) \/ PutFails(s)
    BY <2>1, <2>4 DEF Send, Flush, Put, PutFails, Goto
  <2> QED
    BY <1>2, <2>2, <2>3, <2>4 DEF SendStep
<1>3. ASSUME NEW r \in Receivers, Recv(r) \/ RecvStep(r) \/ SpuriousWakeup(r)
      PROVE  OwnerInside'
  <2>1. pc \in [Threads -> SenderPcs \cup ReceiverPcs] /\ r \in Threads
        /\ (mutex # None => mutex \in Threads)
    BY DEF PcOK, DataOK, Threads
  <2>2. CASE CondAcquire(r) \/ CondReturn(r)
    BY <2>1, <2>2 DEF CondAcquire, CondReturn, Goto
  <2>3. CASE CondWait(r) \/ CondRelease(r)
    BY <2>3 DEF CondWait, CondRelease
  <2>4. CASE CondWaitRefused(r) \/ Retest(r) \/ Get(r)
    BY <2>1, <2>4 DEF CondWaitRefused, Retest, Get, Goto
  <2>5. CASE Recv(r) \/ TestSize(r) \/ Timeout(r) \/ SpuriousWakeup(r)
    BY <2>1, <2>5 DEF Recv, TestSize, Timeout, SpuriousWakeup, Goto
  <2> QED
    BY <1>3, <2>2, <2>3, <2>4, <2>5 DEF RecvStep
<1> QED
  BY <1>1, <1>2, <1>3 DEF Next

\* The mutex of the condition is never left behind, whatever the modes of the
\* receivers: although os_msgq_recv_timeout releases a mutex that it may not
\* have taken, its owner is always a receive on its way to os_cond_release, or
\* a send inside os_cond_signal.
THEOREM MutexNotLeft == Spec => []OwnerInside
<1>1. Init => PcOK /\ DataOK /\ OwnerInside
  BY InitTypes DEF Init, OwnerInside
<1>2. PcOK /\ DataOK /\ OwnerInside /\ [Next]_vars => (PcOK /\ DataOK /\ OwnerInside)'
  BY NextTypes, OwnerKept
<1> QED
  BY <1>1, <1>2, PTL DEF Spec
============================================================================
