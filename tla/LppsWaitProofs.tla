--------------------------- MODULE LppsWaitProofs ---------------------------
(***************************************************************************)
(* Proofs about LppsWait, for any number of readers and writers, with and  *)
(* without timeouts, interrupts, waits that end by themselves and closing  *)
(* readers: type correctness, NonePassed and Wakeable.                     *)
(***************************************************************************)
EXTENDS LppsWait, SequenceTheorems, TLAPS

----------------------------------------------------------------------------
(***************************************************************************)
(* The inductive invariant.  Neither NonePassed nor Wakeable is inductive: *)
(* that the loop of a writer has not overtaken a reader depends on where   *)
(* the loop is and on who may set and clear the bits of the reader's state *)
(* at that moment, which the two mutexes decide.                           *)
(***************************************************************************)

\* The writer between LPPS_WLOCK and LPPS_UNLOCK is the owner of lpps.mut.
Exclusive == /\ mut # None => mut \in Writers /\ pc[mut] = "signal"
             /\ \A w \in Writers : pc[w] = "signal" => mut = w

\* A writer's loop begins at the first slot, and is inside a slot while it
\* deals with the event of that slot.
InSlot == \A w \in Writers : /\ pc[w] = "idle" => ix[w] = 1
                             /\ pc[w] \in UsesHandle => ix[w] \in Readers

\* A reader has the mutex of its handle where os_sig_wait and lpps_read say.
Owned == \A r \in Readers :
            pc[r] \in {"setWait", "condWait", "relock", "sigUnlock"} => sig[r] = r

\* A handle that is closed is not used, and nothing is left in its state.
Closed == \A r \in Readers : r \notin open => pc[r] = "idle" /\ state[r] = {}

\* OS_LOCK_WAIT is set only while its reader begins to wait or waits, unless a
\* wait has ended by itself and left it; it goes before the wait ends only when
\* the reader is interrupted on the way to its sleep.
WaitBit == \A r \in Readers :
              /\ "WAIT" \in state[r] => Waiting(r) \/ r \in byItself
              /\ Waiting(r) => "WAIT" \in state[r] \/ r \in hit

\* OS_LOCK_STATE_WRITE is given to a reader that thereby wakes up, or to one
\* with an OS_LOCK_WAIT left over from a wait that has ended by itself.
WriteBit == \A r \in Readers :
               "WRITE" \in state[r] => pc[r] \in {"woken", "relock"} \/ r \in byItself

\* Whoever waits in a slot that the loop of the writer has passed, or at all
\* if there is no such loop, began after the last write.
Passed == \A r \in open :
             Waiting(r) /\ "WAIT" \in state[r] /\ (mut # None => r < ix[mut])
                => since[r] = tuples

IInv == /\ TypeOK /\ Exclusive /\ InSlot /\ Owned /\ Closed /\ WaitBit
        /\ WriteBit /\ Passed

----------------------------------------------------------------------------
(***************************************************************************)
(* Type correctness.                                                       *)
(***************************************************************************)
\* The conjuncts of TypeOK, by what the actions change together.
PcType     == /\ pc \in [Threads -> ReaderPcs \cup WriterPcs]
              /\ \A r \in Readers : pc[r] \in ReaderPcs
              /\ \A w \in Writers : pc[w] \in WriterPcs
LockType   == mut \in Writers \cup {None} /\ sig \in [Readers -> Readers \cup {None}]
CountType  == /\ tuples \in 0 .. MaxWrites /\ delta \in 0 .. MaxWrites
              /\ last \in [Readers -> 0 .. MaxWrites]
              /\ since \in [Readers -> 0 .. MaxWrites]
HandleType == /\ open \subseteq Readers /\ state \in [Readers -> SUBSET Bits]
              /\ atEnd \in [Readers -> BOOLEAN]
              /\ byItself \subseteq Readers /\ hit \subseteq Readers
EventType  == /\ events \in Seq({"new", "acked", "deleted"})
              /\ ackevt \in [Readers -> 0 .. Len(events)]
              /\ ev \in [Writers -> 0 .. Len(events)]
SlotType   == ix \in [Writers -> 1 .. N + 1]

\* The parts make up the type invariant, before and after a step.
LEMMA TypeParts ==
    TypeOK <=> /\ PcType /\ LockType /\ CountType /\ HandleType /\ EventType
               /\ SlotType /\ undefined \in BOOLEAN
BY DEF TypeOK, PcType, LockType, CountType, HandleType, EventType, SlotType

LEMMA TypePartsNext ==
    TypeOK' <=> /\ PcType' /\ LockType' /\ CountType' /\ HandleType' /\ EventType'
                /\ SlotType' /\ undefined' \in BOOLEAN
BY DEF TypeOK, PcType, LockType, CountType, HandleType, EventType, SlotType

Kinds == {"new", "acked", "deleted"}

\* Setting an event leaves a sequence of events, of the same length.
LEMMA EventSet ==
    ASSUME NEW s \in Seq(Kinds), NEW e \in 1 .. Len(s), NEW x \in Kinds
    PROVE  /\ [s EXCEPT ![e] = x] \in Seq(Kinds)
           /\ Len([s EXCEPT ![e] = x]) = Len(s)
BY ExceptSeq

\* os_event_send changes no more than one event.
LEMMA AcknowledgeEvents ==
    ASSUME EventType, NEW r \in Readers, Acknowledge(r)
    PROVE  /\ events' \in Seq(Kinds) /\ Len(events') = Len(events)
           /\ undefined' \in BOOLEAN
<1> USE DEF EventType, Kinds
<1>1. CASE ackevt[r] = 0
  BY <1>1 DEF Acknowledge
<1>2. CASE ackevt[r] # 0
  <2>1. ackevt[r] \in 1 .. Len(events) /\ events[ackevt[r]] \in Kinds
    BY <1>2
  <2> DEFINE x == IF events[ackevt[r]] = "new" THEN "acked" ELSE events[ackevt[r]]
  <2>2. x \in Kinds /\ events' = [events EXCEPT ![ackevt[r]] = x]
    BY <1>2, <2>1 DEF Acknowledge
  <2> HIDE DEF x
  <2>3. events' \in Seq(Kinds) /\ Len(events') = Len(events)
    BY <2>1, <2>2, EventSet
  <2>4. undefined' \in BOOLEAN
    BY Zenon DEF Acknowledge
  <2> QED
    BY <2>3, <2>4
<1> QED
  BY <1>1, <1>2

\* Every action keeps the types; the loop of a writer stays inside the slots.
LEMMA TypeStep ==
    ASSUME TypeOK, InSlot
    PROVE  Next => TypeOK'
<1> USE WaitConstants
<1>0. /\ PcType /\ LockType /\ CountType /\ HandleType /\ EventType
      /\ SlotType /\ undefined \in BOOLEAN
  BY TypeParts
<1>1. ASSUME NEW r \in Readers, ReadTuples(r)
      PROVE  TypeOK'
  <2>1. HandleType'
    BY <1>0, <1>1 DEF ReadTuples, file, locks, acks, HandleType, Bits
  <2>2. PcType' /\ LockType' /\ CountType' /\ EventType' /\ SlotType'
    BY <1>0, <1>1 DEF ReadTuples, file, locks, acks, PcType, LockType, CountType,
       EventType, SlotType
  <2>3. undefined' \in BOOLEAN
    BY <1>0, <1>1 DEF ReadTuples
  <2> QED
    BY <2>1, <2>2, <2>3, TypePartsNext
<1>2. ASSUME NEW r \in Readers, ReadWait(r)
      PROVE  TypeOK'
  <2>1. PcType'
    BY <1>0, <1>2 DEF ReadWait, Goto, Acknowledge, file, locks, PcType, Threads,
       ReaderPcs, WriterPcs, UsesHandle
  <2>2. HandleType'
    BY <1>0, <1>2 DEF ReadWait, Goto, Acknowledge, file, locks, HandleType, Bits
  <2>3. EventType'
    BY <1>0, <1>2, AcknowledgeEvents DEF ReadWait, EventType, Kinds
  <2>4. LockType' /\ CountType' /\ SlotType'
    BY <1>0, <1>2 DEF ReadWait, Goto, Acknowledge, file, locks, LockType, CountType,
       SlotType
  <2>5. undefined' \in BOOLEAN
    BY <1>0, <1>2, AcknowledgeEvents DEF ReadWait
  <2> QED
    BY <2>1, <2>2, <2>3, <2>4, <2>5, TypePartsNext
<1>3. ASSUME NEW r \in Readers, SigLock(r)
      PROVE  TypeOK'
  <2>1. PcType'
    BY <1>0, <1>3 DEF SigLock, Goto, file, priv, acks, PcType, Threads, ReaderPcs,
       WriterPcs, UsesHandle
  <2>2. LockType'
    BY <1>0, <1>3 DEF SigLock, Goto, file, priv, acks, LockType
  <2>3. CountType' /\ HandleType' /\ EventType' /\ SlotType'
    BY <1>0, <1>3 DEF SigLock, Goto, file, priv, acks, CountType, HandleType,
       EventType, SlotType
  <2>4. undefined' \in BOOLEAN
    BY <1>0, <1>3 DEF SigLock
  <2> QED
    BY <2>1, <2>2, <2>3, <2>4, TypePartsNext
<1>4. ASSUME NEW r \in Readers, SetWait(r)
      PROVE  TypeOK'
  <2>1. PcType'
    BY <1>0, <1>4 DEF SetWait, Goto, file, locks, acks, PcType, Threads, ReaderPcs,
       WriterPcs, UsesHandle
  <2>2. CountType'
    BY <1>0, <1>4 DEF SetWait, Goto, file, locks, acks, CountType
  <2>3. HandleType'
    BY <1>0, <1>4 DEF SetWait, Goto, file, locks, acks, HandleType, Bits
  <2>4. LockType' /\ EventType' /\ SlotType'
    BY <1>0, <1>4 DEF SetWait, Goto, file, locks, acks, LockType, EventType, SlotType
  <2>5. undefined' \in BOOLEAN
    BY <1>0, <1>4 DEF SetWait
  <2> QED
    BY <2>1, <2>2, <2>3, <2>4, <2>5, TypePartsNext
<1>5. ASSUME NEW r \in Readers, CondWait(r)
      PROVE  TypeOK'
  <2>1. PcType'
    BY <1>0, <1>5 DEF CondWait, Goto, file, priv, acks, PcType, Threads, ReaderPcs,
       WriterPcs, UsesHandle
  <2>2. LockType'
    BY <1>0, <1>5 DEF CondWait, Goto, file, priv, acks, LockType
  <2>3. CountType' /\ HandleType' /\ EventType' /\ SlotType'
    BY <1>0, <1>5 DEF CondWait, Goto, file, priv, acks, CountType, HandleType,
       EventType, SlotType
  <2>4. undefined' \in BOOLEAN
    BY <1>0, <1>5 DEF CondWait
  <2> QED
    BY <2>1, <2>2, <2>3, <2>4, TypePartsNext
<1>6. ASSUME NEW r \in Readers, CondReturn(r)
      PROVE  TypeOK'
  <2>1. PcType'
    BY <1>0, <1>6 DEF CondReturn, Goto, file, priv, acks, PcType, Threads, ReaderPcs,
       WriterPcs, UsesHandle
  <2>2. LockType'
    BY <1>0, <1>6 DEF CondReturn, Goto, file, priv, acks, LockType
  <2>3. CountType' /\ HandleType' /\ EventType' /\ SlotType'
    BY <1>0, <1>6 DEF CondReturn, Goto, file, priv, acks, CountType, HandleType,
       EventType, SlotType
  <2>4. undefined' \in BOOLEAN
    BY <1>0, <1>6 DEF CondReturn
  <2> QED
    BY <2>1, <2>2, <2>3, <2>4, TypePartsNext
<1>7. ASSUME NEW r \in Readers, ReadDone(r)
      PROVE  TypeOK'
  <2>1. PcType'
    BY <1>0, <1>7 DEF ReadDone, Goto, file, locks, acks, PcType, Threads, ReaderPcs,
       WriterPcs, UsesHandle
  <2>2. CountType'
    BY <1>0, <1>7 DEF ReadDone, Goto, file, locks, acks, CountType
  <2>3. HandleType'
    BY <1>0, <1>7 DEF ReadDone, Goto, file, locks, acks, HandleType, Bits
  <2>4. LockType' /\ EventType' /\ SlotType'
    BY <1>0, <1>7 DEF ReadDone, Goto, file, locks, acks, LockType, EventType, SlotType
  <2>5. undefined' \in BOOLEAN
    BY <1>0, <1>7 DEF ReadDone
  <2> QED
    BY <2>1, <2>2, <2>3, <2>4, <2>5, TypePartsNext
<1>8. ASSUME NEW r \in Readers, ReadWritten(r)
      PROVE  TypeOK'
  <2>1. PcType'
    BY <1>0, <1>8 DEF ReadWritten, Goto, Content, file, locks, acks, PcType, Threads,
       ReaderPcs, WriterPcs, UsesHandle
  <2>2. CountType'
    BY <1>0, <1>8 DEF ReadWritten, Goto, Content, file, locks, acks, CountType
  <2>3. HandleType'
    BY <1>0, <1>8 DEF ReadWritten, Goto, Content, file, locks, acks, HandleType, Bits
  <2>4. LockType' /\ EventType' /\ SlotType'
    BY <1>0, <1>8 DEF ReadWritten, Goto, Content, file, locks, acks, LockType,
       EventType, SlotType
  <2>5. undefined' \in BOOLEAN
    BY <1>0, <1>8 DEF ReadWritten
  <2> QED
    BY <2>1, <2>2, <2>3, <2>4, <2>5, TypePartsNext
<1>9. ASSUME NEW r \in Readers, SigUnlock(r)
      PROVE  TypeOK'
  <2>1. PcType'
    BY <1>0, <1>9 DEF SigUnlock, Goto, file, priv, acks, PcType, Threads, ReaderPcs,
       WriterPcs, UsesHandle
  <2>2. LockType'
    BY <1>0, <1>9 DEF SigUnlock, Goto, file, priv, acks, LockType
  <2>3. CountType' /\ HandleType' /\ EventType' /\ SlotType'
    BY <1>0, <1>9 DEF SigUnlock, Goto, file, priv, acks, CountType, HandleType,
       EventType, SlotType
  <2>4. undefined' \in BOOLEAN
    BY <1>0, <1>9 DEF SigUnlock
  <2> QED
    BY <2>1, <2>2, <2>3, <2>4, TypePartsNext
<1>10. ASSUME NEW r \in Readers, Interrupt(r)
      PROVE  TypeOK'
  <2>1. PcType'
    BY <1>0, <1>10 DEF Interrupt, SigWakeup, file, locks, priv, acks, PcType, Threads,
       ReaderPcs, WriterPcs, UsesHandle
  <2>2. HandleType'
    BY <1>0, <1>10 DEF Interrupt, SigWakeup, file, locks, priv, acks, HandleType, Bits
  <2>3. LockType' /\ CountType' /\ EventType' /\ SlotType'
    BY <1>0, <1>10 DEF Interrupt, SigWakeup, file, locks, priv, acks, LockType,
       CountType, EventType, SlotType
  <2>4. undefined' \in BOOLEAN
    BY <1>0, <1>10 DEF Interrupt
  <2> QED
    BY <2>1, <2>2, <2>3, <2>4, TypePartsNext
<1>11. ASSUME NEW r \in Readers, Release(r)
      PROVE  TypeOK'
  <2>1. PcType'
    BY <1>0, <1>11 DEF Release, Acknowledge, file, PcType, Threads, ReaderPcs,
       WriterPcs, UsesHandle
  <2>2. LockType'
    BY <1>0, <1>11 DEF Release, Acknowledge, file, LockType
  <2>3. CountType'
    BY <1>0, <1>11 DEF Release, Acknowledge, file, CountType
  <2>4. HandleType'
    BY <1>0, <1>11 DEF Release, Acknowledge, file, HandleType, Bits
  <2>5. EventType'
    BY <1>0, <1>11, AcknowledgeEvents DEF Release, EventType, Kinds
  <2>6. SlotType'
    BY <1>0, <1>11 DEF Release, Acknowledge, file, SlotType
  <2>7. undefined' \in BOOLEAN
    BY <1>0, <1>11, AcknowledgeEvents DEF Release
  <2> QED
    BY <2>1, <2>2, <2>3, <2>4, <2>5, <2>6, <2>7, TypePartsNext
<1>12. ASSUME NEW r \in Readers, Open(r)
      PROVE  TypeOK'
  <2>1. HandleType'
    BY <1>0, <1>12 DEF Open, file, locks, acks, HandleType, Bits
  <2>2. PcType' /\ LockType' /\ CountType' /\ EventType' /\ SlotType'
    BY <1>0, <1>12 DEF Open, file, locks, acks, PcType, LockType, CountType,
       EventType, SlotType
  <2>3. undefined' \in BOOLEAN
    BY <1>0, <1>12 DEF Open
  <2> QED
    BY <2>1, <2>2, <2>3, TypePartsNext
<1>13. ASSUME NEW w \in Writers, Write(w)
      PROVE  TypeOK'
  <2>1. PcType'
    BY <1>0, <1>13 DEF Write, Goto, acks, PcType, Threads, ReaderPcs, WriterPcs,
       UsesHandle
  <2>2. LockType'
    BY <1>0, <1>13 DEF Write, Goto, acks, LockType
  <2>3. CountType'
    BY <1>0, <1>13 DEF Write, Goto, acks, CountType
  <2>4. HandleType'
    BY <1>0, <1>13 DEF Write, HandleType
  <2>5. EventType' /\ SlotType'
    BY <1>0, <1>13 DEF Write, acks, EventType, SlotType
  <2>6. undefined' \in BOOLEAN
    BY <1>0, <1>13 DEF Write
  <2> QED
    BY <2>1, <2>2, <2>3, <2>4, <2>5, <2>6, TypePartsNext
<1>14. ASSUME NEW w \in Writers, SignalReader(w)
      PROVE  TypeOK'
  <2>1. PcType'
    BY <1>0, <1>14 DEF SignalReader, SigWakeup, Waits, file, locks, priv, PcType,
       Threads, ReaderPcs, WriterPcs, UsesHandle
  <2>2. HandleType'
    BY <1>0, <1>14 DEF SignalReader, SigWakeup, Waits, file, locks, priv, HandleType,
       Bits
  <2>3. EventType'
    BY <1>0, <1>14 DEF SignalReader, SigWakeup, Waits, file, locks, priv, EventType
  <2>4. SlotType'
    BY <1>0, <1>14 DEF SignalReader, SigWakeup, Waits, file, locks, priv, SlotType,
       Readers, InSlot, UsesHandle
  <2>5. LockType' /\ CountType'
    BY <1>0, <1>14 DEF SignalReader, SigWakeup, Waits, file, locks, priv, LockType,
       CountType
  <2>6. undefined' \in BOOLEAN
    BY <1>0, <1>14 DEF SignalReader
  <2> QED
    BY <2>1, <2>2, <2>3, <2>4, <2>5, <2>6, TypePartsNext
<1>15. ASSUME NEW w \in Writers, SkipReader(w)
      PROVE  TypeOK'
  <2>1. SlotType'
    BY <1>0, <1>15 DEF SkipReader, Waits, file, locks, priv, SlotType, Readers,
       InSlot, UsesHandle
  <2>2. PcType' /\ LockType' /\ CountType' /\ HandleType' /\ EventType'
    BY <1>0, <1>15 DEF SkipReader, Waits, file, locks, priv, PcType, LockType,
       CountType, HandleType, EventType
  <2>3. undefined' \in BOOLEAN
    BY <1>0, <1>15 DEF SkipReader
  <2> QED
    BY <2>1, <2>2, <2>3, TypePartsNext
<1>16. ASSUME NEW w \in Writers, Unlock(w)
      PROVE  TypeOK'
  <2>1. PcType'
    BY <1>0, <1>16 DEF Unlock, Goto, file, priv, PcType, Threads, ReaderPcs,
       WriterPcs, UsesHandle
  <2>2. LockType'
    BY <1>0, <1>16 DEF Unlock, Goto, file, priv, LockType
  <2>3. SlotType'
    BY <1>0, <1>16 DEF Unlock, Goto, file, priv, SlotType, Readers, InSlot, UsesHandle
  <2>4. CountType' /\ HandleType' /\ EventType'
    BY <1>0, <1>16 DEF Unlock, Goto, file, priv, CountType, HandleType, EventType
  <2>5. undefined' \in BOOLEAN
    BY <1>0, <1>16 DEF Unlock
  <2> QED
    BY <2>1, <2>2, <2>3, <2>4, <2>5, TypePartsNext
<1>17. ASSUME NEW w \in Writers, AckTest(w)
      PROVE  TypeOK'
  <2>1. PcType'
    BY <1>0, <1>17 DEF AckTest, Goto, file, locks, priv, PcType, Threads, ReaderPcs,
       WriterPcs, UsesHandle
  <2>2. EventType'
    BY <1>0, <1>17 DEF AckTest, Goto, file, locks, priv, EventType
  <2>3. SlotType'
    BY <1>0, <1>17 DEF AckTest, Goto, file, locks, priv, SlotType, Readers, InSlot,
       UsesHandle
  <2>4. LockType' /\ CountType' /\ HandleType'
    BY <1>0, <1>17 DEF AckTest, Goto, file, locks, priv, LockType, CountType,
       HandleType
  <2>5. undefined' \in BOOLEAN
    BY <1>0, <1>17 DEF AckTest
  <2> QED
    BY <2>1, <2>2, <2>3, <2>4, <2>5, TypePartsNext
<1>18. ASSUME NEW w \in Writers, AckReceive(w)
      PROVE  TypeOK'
  <2>1. PcType'
    BY <1>0, <1>18 DEF AckReceive, Goto, file, locks, priv, acks, PcType, Threads,
       ReaderPcs, WriterPcs, UsesHandle
  <2>2. LockType' /\ CountType' /\ HandleType' /\ EventType' /\ SlotType'
    BY <1>0, <1>18 DEF AckReceive, Goto, file, locks, priv, acks, LockType, CountType,
       HandleType, EventType, SlotType
  <2>3. undefined' \in BOOLEAN
    BY <1>18, Zenon DEF AckReceive
  <2> QED
    BY <2>1, <2>2, <2>3, TypePartsNext
<1>19. ASSUME NEW w \in Writers, EventDelete(w)
      PROVE  TypeOK'
  <2>1. PcType'
    BY <1>0, <1>19 DEF EventDelete, Goto, file, locks, priv, PcType, Threads,
       ReaderPcs, WriterPcs, UsesHandle
  <2>2. EventType'
    <3>1. ix[w] \in Readers
      BY <1>19 DEF EventDelete, InSlot, UsesHandle
    <3>2. CASE ackevt[ix[w]] = 0
      BY <1>0, <1>19, <3>2 DEF EventDelete, EventType
    <3>3. CASE ackevt[ix[w]] # 0
      <4>1. ackevt[ix[w]] \in 1 .. Len(events)
        BY <1>0, <3>1, <3>3 DEF EventType
      <4>2. events' = [events EXCEPT ![ackevt[ix[w]]] = "deleted"]
        BY <1>19, <3>3 DEF EventDelete
      <4>3. events' \in Seq(Kinds) /\ Len(events') = Len(events)
        BY <1>0, <4>1, <4>2, EventSet DEF EventType, Kinds
      <4> QED
        BY <1>0, <1>19, <4>3 DEF EventDelete, EventType, Kinds
    <3> QED
      BY <3>2, <3>3
  <2>3. LockType' /\ CountType' /\ HandleType' /\ SlotType'
    BY <1>0, <1>19 DEF EventDelete, Goto, file, locks, priv, LockType, CountType,
       HandleType, SlotType
  <2>4. undefined' \in BOOLEAN
    <3>1. CASE ackevt[ix[w]] = 0
      BY <1>0, <1>19, <3>1 DEF EventDelete
    <3>2. CASE ackevt[ix[w]] # 0
      <4>1. undefined' = (events[ackevt[ix[w]]] = "deleted")
        BY <1>19, <3>2 DEF EventDelete
      <4> QED
        BY <4>1, Zenon
    <3> QED
      BY <3>1, <3>2
  <2> QED
    BY <2>1, <2>2, <2>3, <2>4, TypePartsNext
<1>20. ASSUME NEW w \in Writers, AckClear(w)
      PROVE  TypeOK'
  <2>1. PcType'
    BY <1>0, <1>20 DEF AckClear, Goto, file, locks, priv, PcType, Threads, ReaderPcs,
       WriterPcs, UsesHandle
  <2>2. EventType'
    <3>1. 0 \in 0 .. Len(events)
      BY <1>0, LenProperties DEF EventType
    <3>2. /\ events' = events
          /\ ackevt' = [ackevt EXCEPT ![ix[w]] = 0] /\ ev' = [ev EXCEPT ![w] = 0]
      BY <1>20 DEF AckClear
    <3> HIDE DEF AckClear
    <3> QED
      BY ONLY <1>0, <3>1, <3>2 DEF EventType
  <2>3. SlotType'
    BY <1>0, <1>20 DEF AckClear, Goto, file, locks, priv, SlotType, Readers, InSlot,
       UsesHandle
  <2>4. LockType' /\ CountType' /\ HandleType'
    BY <1>0, <1>20 DEF AckClear, Goto, file, locks, priv, LockType, CountType,
       HandleType
  <2>5. undefined' \in BOOLEAN
    BY <1>0, <1>20 DEF AckClear
  <2> QED
    BY <2>1, <2>2, <2>3, <2>4, <2>5, TypePartsNext
<1>21. ASSUME NEW w \in Writers, WriteReturn(w)
      PROVE  TypeOK'
  <2>1. PcType'
    BY <1>0, <1>21 DEF WriteReturn, Goto, file, locks, priv, PcType, Threads,
       ReaderPcs, WriterPcs, UsesHandle
  <2>2. SlotType'
    BY <1>0, <1>21 DEF WriteReturn, Goto, file, locks, priv, SlotType, Readers,
       InSlot, UsesHandle
  <2>3. LockType' /\ CountType' /\ HandleType' /\ EventType'
    BY <1>0, <1>21 DEF WriteReturn, Goto, file, locks, priv, LockType, CountType,
       HandleType, EventType
  <2>4. undefined' \in BOOLEAN
    BY <1>0, <1>21 DEF WriteReturn
  <2> QED
    BY <2>1, <2>2, <2>3, <2>4, TypePartsNext
<1>22. ASSUME NEW w \in Writers, UseFreed(w)
      PROVE  TypeOK'
  <2>1. PcType' /\ LockType' /\ CountType' /\ HandleType' /\ EventType' /\ SlotType'
    BY <1>0, <1>22 DEF UseFreed, file, locks, priv, acks, PcType, LockType, CountType,
       HandleType, EventType, SlotType
  <2>2. undefined' \in BOOLEAN
    BY <1>22, Zenon DEF UseFreed
  <2> QED
    BY <2>1, <2>2, TypePartsNext
<1>23. ASSUME NEW r \in Readers, SpuriousWakeup(r)
      PROVE  TypeOK'
  <2>1. PcType'
    BY <1>0, <1>23 DEF SpuriousWakeup, Goto, PcType, Threads, ReaderPcs, WriterPcs,
       UsesHandle
  <2>2. HandleType'
    BY <1>0, <1>23 DEF SpuriousWakeup, HandleType
  <2>3. LockType' /\ CountType' /\ EventType' /\ SlotType'
    BY <1>0, <1>23 DEF SpuriousWakeup, file, locks, acks, LockType, CountType,
       EventType, SlotType
  <2>4. undefined' \in BOOLEAN
    BY <1>0, <1>23 DEF SpuriousWakeup
  <2> QED
    BY <2>1, <2>2, <2>3, <2>4, TypePartsNext
<1>24. ASSUME NEW r \in Readers, ReadNothing(r)
      PROVE  TypeOK'
  <2>1. PcType'
    BY <1>0, <1>24 DEF ReadNothing, Goto, PcType, Threads, ReaderPcs, WriterPcs,
       UsesHandle
  <2>2. HandleType'
    BY <1>0, <1>24 DEF ReadNothing, HandleType
  <2>3. LockType' /\ CountType' /\ EventType' /\ SlotType'
    BY <1>0, <1>24 DEF ReadNothing, file, locks, acks, LockType, CountType,
       EventType, SlotType
  <2>4. undefined' \in BOOLEAN
    BY <1>0, <1>24 DEF ReadNothing
  <2> QED
    BY <2>1, <2>2, <2>3, <2>4, TypePartsNext
<1>25. ASSUME NEW r \in Readers, InterruptLost(r)
      PROVE  TypeOK'
  <2>1. PcType'
    BY <1>0, <1>25 DEF InterruptLost, Goto, PcType, Threads, ReaderPcs, WriterPcs,
       UsesHandle
  <2>2. HandleType'
    BY <1>0, <1>25 DEF InterruptLost, HandleType, Bits
  <2>3. LockType' /\ CountType'
    BY <1>0, <1>25 DEF InterruptLost, file, LockType, CountType
  <2>4. EventType' /\ SlotType'
    BY <1>0, <1>25 DEF InterruptLost, acks, EventType, SlotType
  <2>5. undefined' \in BOOLEAN
    BY <1>0, <1>25 DEF InterruptLost
  <2> QED
    BY <2>1, <2>2, <2>3, <2>4, <2>5, TypePartsNext
<1> QED
  BY <1>1, <1>2, <1>3, <1>4, <1>5, <1>6, <1>7, <1>8, <1>9, <1>10, <1>11,
     <1>12, <1>13, <1>14, <1>15, <1>16, <1>17, <1>18, <1>19, <1>20, <1>21,
     <1>22, <1>23, <1>24, <1>25 DEF Next, ReaderStep, WriterStep

----------------------------------------------------------------------------
(***************************************************************************)
(* The other conjuncts.                                                    *)
(***************************************************************************)

\* What a reader has of its mutex, its handle and its bits changes only in
\* steps that touch them or move the reader.
LEMMA ReadersKept ==
    ASSUME IInv, UNCHANGED <<open, state, sig, byItself, hit>>,
           \A r \in Readers : pc'[r] = pc[r]
    PROVE  Owned' /\ Closed' /\ WaitBit' /\ WriteBit'
BY DEF IInv, Owned, Closed, WaitBit, WriteBit, Waiting

\* A read or an interrupt leaves the loops of the writers alone; closing a
\* handle only takes one out of its slot.
LEMMA WritersKept ==
    ASSUME IInv, UNCHANGED <<mut, ix>>,
           \A w \in Writers : \/ pc'[w] = pc[w]
                              \/ pc'[w] = "dangling" /\ pc[w] \in UsesHandle
    PROVE  Exclusive' /\ InSlot'
BY DEF IInv, Exclusive, InSlot, UsesHandle

\* What a step does to the conjuncts other than the types.
LEMMA WaitStep ==
    ASSUME IInv, TypeOK'
    PROVE  Next => Exclusive' /\ InSlot' /\ Owned' /\ Closed' /\ WaitBit' /\ WriteBit'
                   /\ Passed'
<1> USE WaitConstants DEF IInv, TypeOK, Threads, Waiting
<1> DEFINE Rest == /\ Exclusive' /\ InSlot' /\ Owned' /\ Closed' /\ WaitBit'
                   /\ WriteBit' /\ Passed'
<1>1. ASSUME NEW r \in Readers, ReadTuples(r)
      PROVE  Rest
  <2> USE <1>1 DEF ReadTuples, file, locks, acks
  <2>1. Exclusive' /\ InSlot'
    BY WritersKept DEF ReaderPcs, UsesHandle
  <2>2. Owned' /\ Closed' /\ WaitBit' /\ WriteBit'
    BY ReadersKept
  <2>3. Passed'
    BY DEF Closed, WaitBit, WriteBit, Passed, Exclusive, InSlot, UsesHandle, Readers
  <2> QED
    BY ONLY <2>1, <2>2, <2>3
<1>2. ASSUME NEW r \in Readers, ReadWait(r)
      PROVE  Rest
  <2> USE <1>2 DEF ReadWait, Goto, Acknowledge, file, locks
  <2>1. Exclusive' /\ InSlot'
    BY WritersKept DEF ReaderPcs, UsesHandle
  <2>2. Owned' /\ Closed'
    BY DEF Owned, Closed, WaitBit, ReaderPcs
  <2>3. WaitBit' /\ WriteBit'
    BY DEF Closed, WaitBit, WriteBit, Owned, ReaderPcs, Bits
  <2>4. Passed'
    BY DEF Closed, WaitBit, WriteBit, Passed, Exclusive, InSlot, UsesHandle, Readers
  <2> QED
    BY ONLY <2>1, <2>2, <2>3, <2>4
<1>3. ASSUME NEW r \in Readers, SigLock(r)
      PROVE  Rest
  <2> USE <1>3 DEF SigLock, Goto, file, priv, acks
  <2>1. Exclusive' /\ InSlot'
    BY WritersKept DEF ReaderPcs, UsesHandle
  <2>2. Owned' /\ Closed'
    BY DEF Owned, Closed, WaitBit, ReaderPcs
  <2>3. WaitBit' /\ WriteBit'
    BY DEF Closed, WaitBit, WriteBit, Owned, ReaderPcs, Bits
  <2>4. Passed'
    BY DEF Closed, WaitBit, WriteBit, Passed, Exclusive, InSlot, UsesHandle, Readers
  <2> QED
    BY ONLY <2>1, <2>2, <2>3, <2>4
<1>4. ASSUME NEW r \in Readers, SetWait(r)
      PROVE  Rest
  <2> USE <1>4 DEF SetWait, Goto, file, locks, acks
  <2>1. Exclusive' /\ InSlot'
    BY WritersKept DEF ReaderPcs, UsesHandle
  <2>2. Owned' /\ Closed'
    BY DEF Owned, Closed, WaitBit, ReaderPcs
  <2>3. WaitBit' /\ WriteBit'
    BY DEF Closed, WaitBit, WriteBit, Owned, ReaderPcs, Bits
  <2>4. Passed'
    BY DEF Closed, WaitBit, WriteBit, Passed, Exclusive, InSlot, UsesHandle, Readers
  <2> QED
    BY ONLY <2>1, <2>2, <2>3, <2>4
<1>5. ASSUME NEW r \in Readers, CondWait(r)
      PROVE  Rest
  <2> USE <1>5 DEF CondWait, Goto, file, priv, acks
  <2>1. Exclusive' /\ InSlot'
    BY WritersKept DEF ReaderPcs, UsesHandle
  <2>2. Owned' /\ Closed'
    BY DEF Owned, Closed, WaitBit, ReaderPcs
  <2>3. WaitBit' /\ WriteBit'
    BY DEF Closed, WaitBit, WriteBit, Owned, ReaderPcs, Bits
  <2>4. Passed'
    BY DEF Closed, WaitBit, WriteBit, Passed, Exclusive, InSlot, UsesHandle, Readers
  <2> QED
    BY ONLY <2>1, <2>2, <2>3, <2>4
<1>6. ASSUME NEW r \in Readers, CondReturn(r)
      PROVE  Rest
  <2> USE <1>6 DEF CondReturn, Goto, file, priv, acks
  <2>1. Exclusive' /\ InSlot'
    BY WritersKept DEF ReaderPcs, UsesHandle
  <2>2. Owned' /\ Closed'
    BY DEF Owned, Closed, WaitBit, ReaderPcs
  <2>3. WaitBit' /\ WriteBit'
    BY DEF Closed, WaitBit, WriteBit, Owned, ReaderPcs, Bits
  <2>4. Passed'
    BY DEF Closed, WaitBit, WriteBit, Passed, Exclusive, InSlot, UsesHandle, Readers
  <2> QED
    BY ONLY <2>1, <2>2, <2>3, <2>4
<1>7. ASSUME NEW r \in Readers, ReadDone(r)
      PROVE  Rest
  <2> USE <1>7 DEF ReadDone, Goto, file, locks, acks
  <2>1. Exclusive' /\ InSlot'
    BY WritersKept DEF ReaderPcs, UsesHandle
  <2>2. Owned' /\ Closed'
    BY DEF Owned, Closed, WaitBit, ReaderPcs
  <2>3. WaitBit' /\ WriteBit'
    BY DEF Closed, WaitBit, WriteBit, Owned, ReaderPcs, Bits
  <2>4. Passed'
    BY DEF Closed, WaitBit, WriteBit, Passed, Exclusive, InSlot, UsesHandle, Readers
  <2> QED
    BY ONLY <2>1, <2>2, <2>3, <2>4
<1>8. ASSUME NEW r \in Readers, ReadWritten(r)
      PROVE  Rest
  <2> USE <1>8 DEF ReadWritten, Goto, Content, file, locks, acks
  <2>1. Exclusive' /\ InSlot'
    BY WritersKept DEF ReaderPcs, UsesHandle
  <2>2. Owned' /\ Closed'
    BY DEF Owned, Closed, WaitBit, ReaderPcs
  <2>3. WaitBit' /\ WriteBit'
    BY DEF Closed, WaitBit, WriteBit, Owned, ReaderPcs, Bits
  <2>4. Passed'
    BY DEF Closed, WaitBit, WriteBit, Passed, Exclusive, InSlot, UsesHandle, Readers
  <2> QED
    BY ONLY <2>1, <2>2, <2>3, <2>4
<1>9. ASSUME NEW r \in Readers, SigUnlock(r)
      PROVE  Rest
  <2> USE <1>9 DEF SigUnlock, Goto, file, priv, acks
  <2>1. Exclusive' /\ InSlot'
    BY WritersKept DEF ReaderPcs, UsesHandle
  <2>2. Owned' /\ Closed'
    BY DEF Owned, Closed, WaitBit, ReaderPcs
  <2>3. WaitBit' /\ WriteBit'
    BY DEF Closed, WaitBit, WriteBit, Owned, ReaderPcs, Bits
  <2>4. Passed'
    BY DEF Closed, WaitBit, WriteBit, Passed, Exclusive, InSlot, UsesHandle, Readers
  <2> QED
    BY ONLY <2>1, <2>2, <2>3, <2>4
<1>10. ASSUME NEW r \in Readers, Interrupt(r)
      PROVE  Rest
  <2> USE <1>10 DEF Interrupt, SigWakeup, file, locks, priv, acks
  <2>1. Exclusive' /\ InSlot'
    BY WritersKept DEF ReaderPcs, UsesHandle
  <2>2. Owned' /\ Closed'
    BY DEF Owned, Closed, WaitBit, ReaderPcs
  <2>3. WaitBit' /\ WriteBit'
    BY DEF Closed, WaitBit, WriteBit, Owned, ReaderPcs, Bits
  <2>4. Passed'
    BY DEF Closed, WaitBit, WriteBit, Passed, Exclusive, InSlot, UsesHandle, Readers
  <2> QED
    BY ONLY <2>1, <2>2, <2>3, <2>4
<1>11. ASSUME NEW r \in Readers, Release(r)
      PROVE  Rest
  <2> USE <1>11 DEF Release, Acknowledge, file
  <2>1. Exclusive' /\ InSlot'
    BY WritersKept DEF ReaderPcs, UsesHandle
  <2>2. Owned' /\ Closed'
    BY DEF Owned, Closed, WaitBit, ReaderPcs
  <2>3. WaitBit' /\ WriteBit'
    BY DEF Closed, WaitBit, WriteBit, Owned, ReaderPcs, Bits
  <2>4. Passed'
    BY DEF Closed, WaitBit, WriteBit, Passed, Exclusive, InSlot, UsesHandle, Readers
  <2> QED
    BY ONLY <2>1, <2>2, <2>3, <2>4
<1>12. ASSUME NEW r \in Readers, Open(r)
      PROVE  Rest
  <2> USE <1>12 DEF Open, file, locks, acks
  <2>1. Exclusive' /\ InSlot'
    BY WritersKept DEF ReaderPcs, UsesHandle
  <2>2. Owned' /\ Closed'
    BY DEF Owned, Closed, WaitBit, ReaderPcs
  <2>3. WaitBit' /\ WriteBit'
    BY DEF Closed, WaitBit, WriteBit, Owned, ReaderPcs, Bits
  <2>4. Passed'
    BY DEF Closed, WaitBit, WriteBit, Passed, Exclusive, InSlot, UsesHandle, Readers
  <2> QED
    BY ONLY <2>1, <2>2, <2>3, <2>4
<1>13. ASSUME NEW w \in Writers, Write(w)
      PROVE  Rest
  <2> USE <1>13 DEF Write, Goto, acks
  <2>1. Exclusive' /\ InSlot'
    BY DEF Exclusive, InSlot, UsesHandle, ReaderPcs, WriterPcs
  <2>2. Owned' /\ Closed' /\ WaitBit' /\ WriteBit'
    BY ReadersKept
  <2>3. Passed'
    BY DEF Closed, WaitBit, WriteBit, Passed, Exclusive, InSlot, UsesHandle, Readers
  <2> QED
    BY ONLY <2>1, <2>2, <2>3
<1>14. ASSUME NEW w \in Writers, SignalReader(w)
      PROVE  Rest
  <2> USE <1>14 DEF SignalReader, SigWakeup, Waits, file, locks, priv
  <2>1. Exclusive' /\ InSlot'
    BY DEF Exclusive, InSlot, UsesHandle, ReaderPcs, WriterPcs
  <2>2. Owned' /\ Closed'
    BY DEF Owned, Closed, WaitBit, ReaderPcs
  <2>3. WaitBit' /\ WriteBit'
    BY DEF Closed, WaitBit, WriteBit, Owned, ReaderPcs, Bits
  <2>4. Passed'
    BY DEF Closed, WaitBit, WriteBit, Passed, Exclusive, InSlot, UsesHandle, Readers
  <2> QED
    BY ONLY <2>1, <2>2, <2>3, <2>4
<1>15. ASSUME NEW w \in Writers, SkipReader(w)
      PROVE  Rest
  <2> USE <1>15 DEF SkipReader, Waits, file, locks, priv
  <2>1. Exclusive' /\ InSlot'
    BY DEF Exclusive, InSlot, UsesHandle, ReaderPcs, WriterPcs
  <2>2. Owned' /\ Closed' /\ WaitBit' /\ WriteBit'
    BY ReadersKept
  <2>3. Passed'
    BY DEF Closed, WaitBit, WriteBit, Passed, Exclusive, InSlot, UsesHandle, Readers
  <2> QED
    BY ONLY <2>1, <2>2, <2>3
<1>16. ASSUME NEW w \in Writers, Unlock(w)
      PROVE  Rest
  <2> USE <1>16 DEF Unlock, Goto, file, priv
  <2>1. Exclusive' /\ InSlot'
    BY DEF Exclusive, InSlot, UsesHandle, ReaderPcs, WriterPcs
  <2>2. Owned' /\ Closed' /\ WaitBit' /\ WriteBit'
    BY ReadersKept
  <2>3. Passed'
    BY DEF Closed, WaitBit, WriteBit, Passed, Exclusive, InSlot, UsesHandle, Readers
  <2> QED
    BY ONLY <2>1, <2>2, <2>3
<1>17. ASSUME NEW w \in Writers, AckTest(w)
      PROVE  Rest
  <2> USE <1>17 DEF AckTest, Goto, file, locks, priv
  <2>1. Exclusive' /\ InSlot'
    <3>1. mut' = mut /\ (pc' = pc \/ pc' = [pc EXCEPT ![w] = "receive"])
      OBVIOUS
    <3>2. Exclusive'
      BY <3>1 DEF Exclusive
    <3>3. InSlot'
      BY DEF InSlot, UsesHandle, WriterPcs
    <3> QED
      BY <3>2, <3>3
  <2>2. Owned' /\ Closed' /\ WaitBit' /\ WriteBit'
    <3>1. UNCHANGED <<open, state, sig, byItself, hit>> /\ \A r \in Readers : pc'[r] = pc[r]
      OBVIOUS
    <3> QED
      BY ONLY IInv, <3>1, ReadersKept
  <2>3. Passed'
    <3>1. UNCHANGED <<mut, open, state, since, tuples>>
      OBVIOUS
    <3>2. mut # None => ix'[mut] = ix[mut]
      BY DEF Exclusive
    <3>3. \A r \in open : pc'[r] = pc[r]
      OBVIOUS
    <3> QED
      BY ONLY IInv, <3>1, <3>2, <3>3 DEF IInv, Passed, Waiting
  <2> QED
    BY ONLY <2>1, <2>2, <2>3
<1>18. ASSUME NEW w \in Writers, AckReceive(w)
      PROVE  Rest
  <2> USE <1>18 DEF AckReceive, Goto, file, locks, priv, acks
  <2>1. Exclusive' /\ InSlot'
    BY DEF Exclusive, InSlot, UsesHandle, ReaderPcs, WriterPcs
  <2>2. Owned' /\ Closed' /\ WaitBit' /\ WriteBit'
    BY ReadersKept
  <2>3. Passed'
    BY DEF Closed, WaitBit, WriteBit, Passed, Exclusive, InSlot, UsesHandle, Readers
  <2> QED
    BY ONLY <2>1, <2>2, <2>3
<1>19. ASSUME NEW w \in Writers, EventDelete(w)
      PROVE  Rest
  <2> USE <1>19 DEF EventDelete, Goto, file, locks, priv
  <2>1. Exclusive' /\ InSlot'
    BY DEF Exclusive, InSlot, UsesHandle, ReaderPcs, WriterPcs
  <2>2. Owned' /\ Closed' /\ WaitBit' /\ WriteBit'
    BY ReadersKept
  <2>3. Passed'
    BY DEF Closed, WaitBit, WriteBit, Passed, Exclusive, InSlot, UsesHandle, Readers
  <2> QED
    BY ONLY <2>1, <2>2, <2>3
<1>20. ASSUME NEW w \in Writers, AckClear(w)
      PROVE  Rest
  <2> USE <1>20 DEF AckClear, Goto, file, locks, priv
  <2>1. Exclusive' /\ InSlot'
    BY DEF Exclusive, InSlot, UsesHandle, ReaderPcs, WriterPcs
  <2>2. Owned' /\ Closed' /\ WaitBit' /\ WriteBit'
    BY ReadersKept
  <2>3. Passed'
    BY DEF Closed, WaitBit, WriteBit, Passed, Exclusive, InSlot, UsesHandle, Readers
  <2> QED
    BY ONLY <2>1, <2>2, <2>3
<1>21. ASSUME NEW w \in Writers, WriteReturn(w)
      PROVE  Rest
  <2> USE <1>21 DEF WriteReturn, Goto, file, locks, priv
  <2>1. Exclusive' /\ InSlot'
    BY DEF Exclusive, InSlot, UsesHandle, ReaderPcs, WriterPcs
  <2>2. Owned' /\ Closed' /\ WaitBit' /\ WriteBit'
    BY ReadersKept
  <2>3. Passed'
    BY DEF Closed, WaitBit, WriteBit, Passed, Exclusive, InSlot, UsesHandle, Readers
  <2> QED
    BY ONLY <2>1, <2>2, <2>3
<1>22. ASSUME NEW w \in Writers, UseFreed(w)
      PROVE  Rest
  <2> USE <1>22 DEF UseFreed, file, locks, priv, acks
  <2>1. Exclusive' /\ InSlot'
    BY DEF Exclusive, InSlot, UsesHandle, ReaderPcs, WriterPcs
  <2>2. Owned' /\ Closed' /\ WaitBit' /\ WriteBit'
    BY ReadersKept
  <2>3. Passed'
    BY DEF Closed, WaitBit, WriteBit, Passed, Exclusive, InSlot, UsesHandle, Readers
  <2> QED
    BY ONLY <2>1, <2>2, <2>3
<1>23. ASSUME NEW r \in Readers, SpuriousWakeup(r)
      PROVE  Rest
  <2> USE <1>23 DEF SpuriousWakeup, Goto, file, locks, acks
  <2>1. Exclusive' /\ InSlot'
    BY WritersKept DEF ReaderPcs, UsesHandle
  <2>2. Owned' /\ Closed'
    BY DEF Owned, Closed, WaitBit, ReaderPcs
  <2>3. WaitBit' /\ WriteBit'
    BY DEF Closed, WaitBit, WriteBit, Owned, ReaderPcs, Bits
  <2>4. Passed'
    BY DEF Closed, WaitBit, WriteBit, Passed, Exclusive, InSlot, UsesHandle, Readers
  <2> QED
    BY ONLY <2>1, <2>2, <2>3, <2>4
<1>24. ASSUME NEW r \in Readers, ReadNothing(r)
      PROVE  Rest
  <2> USE <1>24 DEF ReadNothing, Goto, file, locks, acks
  <2>1. Exclusive' /\ InSlot'
    BY WritersKept DEF ReaderPcs, UsesHandle
  <2>2. Owned' /\ Closed'
    BY DEF Owned, Closed, WaitBit, ReaderPcs
  <2>3. WaitBit' /\ WriteBit'
    BY DEF Closed, WaitBit, WriteBit, Owned, ReaderPcs, Bits
  <2>4. Passed'
    BY DEF Closed, WaitBit, WriteBit, Passed, Exclusive, InSlot, UsesHandle, Readers
  <2> QED
    BY ONLY <2>1, <2>2, <2>3, <2>4
<1>25. ASSUME NEW r \in Readers, InterruptLost(r)
      PROVE  Rest
  <2> USE <1>25 DEF InterruptLost, Goto, file, acks
  <2>1. Exclusive' /\ InSlot'
    BY WritersKept DEF ReaderPcs, UsesHandle
  <2>2. CASE pc[r] = "setWait"
    <3>1. /\ pc' = [pc EXCEPT ![r] = "condWait"] /\ since' = [since EXCEPT ![r] = tuples]
          /\ hit' = hit \cup {r}
          /\ UNCHANGED <<mut, sig, open, byItself, tuples, ix>>
      BY <2>2
    <3>2. PICK bits \in {{}, {"WAIT"}} :
             state' = [state EXCEPT ![r] = (@ \ {"WAIT"}) \cup bits]
      BY <2>2
    <3> HIDE <1>25 DEF InterruptLost
    <3>3. Owned' /\ Closed'
      BY <2>2, <3>1, <3>2 DEF Owned, Closed
    <3>4. WaitBit' /\ WriteBit'
      BY <2>2, <3>1, <3>2 DEF WaitBit, WriteBit
    <3>5. Passed'
      BY <2>2, <3>1, <3>2 DEF Passed, Readers
    <3> QED
      BY ONLY <2>1, <3>3, <3>4, <3>5
  <2>3. CASE pc[r] = "sigUnlock"
    <3>1. /\ state' = [state EXCEPT ![r] = @ \ {"WAIT"}]
          /\ sig' = [sig EXCEPT ![r] = None] /\ pc' = [pc EXCEPT ![r] = "idle"]
          /\ UNCHANGED <<mut, open, byItself, hit, since, tuples, ix>>
      BY <2>3
    <3> HIDE <1>25 DEF InterruptLost
    <3>2. Owned' /\ Closed'
      BY <2>3, <3>1 DEF Owned, Closed
    <3>3. WaitBit' /\ WriteBit'
      BY <2>3, <3>1 DEF WaitBit, WriteBit
    <3>4. Passed'
      BY <2>3, <3>1 DEF Passed, Readers
    <3> QED
      BY ONLY <2>1, <3>2, <3>3, <3>4
  <2> HIDE DEF Rest
  <2> QED
    BY <2>2, <2>3
<1> HIDE DEF Rest
<1>26. Next => Rest
  BY <1>1, <1>2, <1>3, <1>4, <1>5, <1>6, <1>7, <1>8, <1>9, <1>10, <1>11,
     <1>12, <1>13, <1>14, <1>15, <1>16, <1>17, <1>18, <1>19, <1>20, <1>21,
     <1>22, <1>23, <1>24, <1>25 DEF Next, ReaderStep, WriterStep
<1> QED
  BY ONLY <1>26 DEF Rest

\* No request is under way at the start.
LEMMA InitIInv == Init => IInv
<1> SUFFICES ASSUME Init
             PROVE  IInv
  OBVIOUS
<1> USE WaitConstants DEF Init
<1>1. TypeOK
  <2>1. PcType
    BY DEF PcType, Threads, ReaderPcs, WriterPcs
  <2>2. LockType /\ HandleType /\ undefined \in BOOLEAN
    BY DEF LockType, HandleType
  <2>3. CountType /\ EventType
    BY DEF CountType, EventType
  <2>4. SlotType
    BY DEF SlotType
  <2> QED
    BY <2>1, <2>2, <2>3, <2>4, TypeParts
<1>2. Exclusive /\ InSlot /\ Owned /\ Closed /\ WaitBit /\ WriteBit /\ Passed
  BY DEF Exclusive, InSlot, Owned, Closed, WaitBit, WriteBit, Passed, Waiting,
         Threads, UsesHandle
<1> QED
  BY <1>1, <1>2 DEF IInv

\* The invariant is preserved by every step of the readers and the writers.
LEMMA IInvStep == IInv /\ [Next]_vars => IInv'
<1> SUFFICES ASSUME IInv, [Next]_vars
             PROVE  IInv'
  OBVIOUS
<1>1. CASE Next
  <2>1. TypeOK'
    BY <1>1, TypeStep DEF IInv
  <2> QED
    BY <1>1, <2>1, WaitStep DEF IInv
<1>2. CASE UNCHANGED vars
  BY <1>2 DEF vars, IInv, TypeOK, Exclusive, InSlot, Owned, Closed, WaitBit, WriteBit,
              Passed, Waiting
<1> QED
  BY <1>1, <1>2

\* In every state the two kinds of mutexes have the owners that lpps_read,
\* lpps_write and os_sig_wait mean them to have, and the bits of a reader say
\* where it is, as long as no wait of its has ended by itself.
THEOREM Invariant == Spec => []IInv
BY InitIInv, IInvStep, PTL DEF Spec

----------------------------------------------------------------------------
(***************************************************************************)
(* The theorems.                                                           *)
(***************************************************************************)

\* The reads and writes of lpps keep the types of their variables: no loop of
\* a writer leaves the slots, no handle names an event that was not created.
THEOREM WaitTypeCorrect == Spec => []TypeOK
BY Invariant, PTL DEF IInv

\* lpps_write passes no reader that waits: when it releases the lock, each
\* reader that still waits with OS_LOCK_WAIT began to do so after the write, and
\* none sleeps with a write it was given, unless a wait of its ended by itself.
THEOREM NoReaderPassed == Spec => []NonePassed
<1>1. IInv => NonePassed
  BY DEF IInv, TypeOK, Passed, WriteBit, NonePassed, Waiting
<1> QED
  BY <1>1, Invariant, PTL

\* os_sig_wait: a reader that sleeps will be seen by the next write, or it was
\* interrupted on the way to its sleep; waits that end by themselves included.
THEOREM SleepersWakeable == Spec => []Wakeable
<1>1. IInv => Wakeable
  BY DEF IInv, WaitBit, Wakeable, Waiting
<1> QED
  BY <1>1, Invariant, PTL

\* LPPS_WLOCK: the writers that change the file and wake its readers take
\* turns, and a reader that is woken, or about to wait, has its mutex.
THEOREM LocksHeld == Spec => [](Exclusive /\ Owned)
BY Invariant, PTL DEF IInv
=============================================================================
