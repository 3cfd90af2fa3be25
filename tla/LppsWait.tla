------------------------------ MODULE LppsWait ------------------------------
(***************************************************************************)
(* Publish and subscribe through a file of lpps (exts/lpps/source/lpps,    *)
(* lpps.cpp and sig.cpp): a reader that has opened the file with "?wait"   *)
(* blocks at its end; a write changes the tuples, wakes the readers that   *)
(* wait and then waits until each of them has acknowledged by its next     *)
(* read.                                                                   *)
(*                                                                         *)
(* The model has one regular file.  Its tuples are the number of the last  *)
(* write, its delta the number of the write whose tuples it holds; all the *)
(* tuples fit into one read.  A handle either reads or writes.  The code   *)
(* between LPPS_RLOCK or LPPS_WLOCK and LPPS_UNLOCK is one step unless it  *)
(* waits in between.  Two races lead to undefined behaviour, the use of an *)
(* event or a handle that was freed: the model stops there.                *)
(*                                                                         *)
(* The state of a signal is a word that several threads change with |= and *)
(* &=; where they do so without a common lock, an update may be lost.      *)
(***************************************************************************)
EXTENDS Naturals, Sequences

CONSTANTS
    N,          \* readers have the slots 1 .. N of rwtasks
    Delta,      \* the readers that were opened with "?wait,delta"
    Writers,    \* the threads that write, each through a handle of its own
    None,       \* the owner of a free lock
    Timeouts,   \* TRUE: mrtimeout > 0, a writer gives up waiting
    Interrupts, \* TRUE: a process may be interrupted in a read
    Spurious,   \* TRUE: the condition wait of a reader may end by itself
    Closing,    \* TRUE: a reader may close the file, and open it again
    MaxWrites   \* bound: how many writes there are

Readers == 1 .. N
Threads == Readers \cup Writers

ASSUME WaitConstants ==
    /\ N \in Nat /\ Delta \subseteq Readers
    /\ Writers \cap Readers = {} /\ None \notin Threads
    /\ Timeouts \in BOOLEAN /\ Interrupts \in BOOLEAN
    /\ Spurious \in BOOLEAN /\ Closing \in BOOLEAN
    /\ MaxWrites \in Nat

VARIABLES
    pc,       \* where each thread is
    mut,      \* the writer that holds lpps.mut for writing across steps
    tuples,   \* fl->tuples, 0: NULL
    delta,    \* fl->delta, 0: NULL
    open,     \* the readers whose handle is in fl->rwtasks
    state,    \* priv->sig->state of each reader
    sig,      \* owner of priv->sig->mut
    atEnd,    \* priv->rptr has reached the end of the tuples
    ackevt,   \* priv->ackevt, an index of events, 0: NULL
    events,   \* the acknowledge events that were created
    ix,       \* the slot that a writer's loop has reached
    ev,       \* the event that a writer waits for
    last,     \* the write that each reader of deltas has got last
    since,    \* history: the tuples when the reader began to wait
    byItself, \* history: the readers with a wait that has ended by itself
    hit,      \* history: the readers that were interrupted on the way to their sleep
    undefined \* something freed was used

vars == <<pc, mut, tuples, delta, open, state, sig, atEnd, ackevt, events, ix,
          ev, last, since, byItself, hit, undefined>>

file  == <<tuples, delta>>
locks == <<mut, sig>>
priv  == <<open, atEnd, last, since, byItself, hit>>
acks  == <<ackevt, events, ix, ev>>

Bits       == {"WAIT", "WRITE", "DONE"}
ReaderPcs  == {"idle", "sigLock", "setWait", "condWait", "waiting", "woken",
               "relock", "sigUnlock"}
UsesHandle == {"receive", "delete", "clear"}
WriterPcs  == {"idle", "signal", "ack", "dangling"} \cup UsesHandle

Goto(t, l) == pc' = [pc EXCEPT ![t] = l]

Init ==
    /\ pc = [t \in Threads |-> "idle"] /\ mut = None
    /\ tuples = 0 /\ delta = 0
    /\ open = Readers
    /\ state = [r \in Readers |-> {}] /\ sig = [r \in Readers |-> None]
    /\ atEnd = [r \in Readers |-> FALSE]
    /\ ackevt = [r \in Readers |-> 0] /\ events = <<>>
    /\ ix = [w \in Writers |-> 1] /\ ev = [w \in Writers |-> 0]
    /\ last = [r \in Readers |-> 0] /\ since = [r \in Readers |-> 0]
    /\ byItself = {} /\ hit = {}
    /\ undefined = FALSE

----------------------------------------------------------------------------
(***************************************************************************)
(* lpps_read.                                                              *)
(***************************************************************************)
Eof(r) == tuples = 0 \/ atEnd[r] \/ r \in Delta

\* Not at the end: the tuples are returned without a wait.
ReadTuples(r) ==
    /\ pc[r] = "idle" /\ r \in open /\ mut = None /\ ~Eof(r)
    /\ atEnd' = [atEnd EXCEPT ![r] = TRUE]
    /\ UNCHANGED <<pc, locks, file, open, state, acks, last, since, byItself, hit,
                   undefined>>

\* os_event_send(priv->ackevt, ACK_RELEASE).
Acknowledge(r) ==
    /\ events' = IF ackevt[r] = 0 THEN events
                 ELSE [events EXCEPT ![ackevt[r]] = IF @ = "new" THEN "acked" ELSE @]
    /\ undefined' = (ackevt[r] # 0 /\ events[ackevt[r]] = "deleted")

\* At the end: the write before is acknowledged, and the lock is released.
ReadWait(r) ==
    /\ pc[r] = "idle" /\ r \in open /\ mut = None /\ Eof(r)
    /\ atEnd' = [atEnd EXCEPT ![r] = FALSE]
    /\ Acknowledge(r)
    /\ Goto(r, "sigLock")
    /\ UNCHANGED <<locks, file, open, state, ackevt, ix, ev, last, since, byItself, hit>>

\* os_sig_wait: lock, OS_LOCK_WAIT, wait.
SigLock(r) ==
    /\ pc[r] = "sigLock" /\ sig[r] = None
    /\ sig' = [sig EXCEPT ![r] = r] /\ Goto(r, "setWait")
    /\ UNCHANGED <<mut, file, state, priv, acks, undefined>>

\* Mutant: the mutex is released before the wait begins.
SetWait_Unlocks(r) ==
    /\ pc[r] = "setWait"
    /\ state' = [state EXCEPT ![r] = @ \cup {"WAIT"}]
    /\ since' = [since EXCEPT ![r] = tuples]
    /\ sig' = [sig EXCEPT ![r] = None] /\ Goto(r, "condWait")
    /\ UNCHANGED <<mut, file, open, atEnd, last, byItself, hit, acks, undefined>>

SetWait(r) ==
    /\ pc[r] = "setWait"
    /\ state' = [state EXCEPT ![r] = @ \cup {"WAIT"}]
    /\ since' = [since EXCEPT ![r] = tuples]
    /\ Goto(r, "condWait")
    /\ UNCHANGED <<locks, file, open, atEnd, last, byItself, hit, acks, undefined>>

CondWait(r) ==
    /\ pc[r] = "condWait"
    /\ sig' = [sig EXCEPT ![r] = None] /\ Goto(r, "waiting")
    /\ UNCHANGED <<mut, file, state, priv, acks, undefined>>

\* The wait ends without a signal.  Nothing tests for it: the reader goes on
\* as if it had been woken, and OS_LOCK_WAIT stays set.
SpuriousWakeup(r) ==
    /\ Spurious /\ pc[r] = "waiting"
    /\ Goto(r, "woken") /\ byItself' = byItself \cup {r}
    /\ UNCHANGED <<locks, file, open, atEnd, last, since, hit, state, acks, undefined>>

CondReturn(r) ==
    /\ pc[r] = "woken" /\ sig[r] = None
    /\ sig' = [sig EXCEPT ![r] = r] /\ Goto(r, "relock")
    /\ UNCHANGED <<mut, file, state, priv, acks, undefined>>

\* The read was interrupted: it returns nothing, and its mutex stays locked.
ReadDone(r) ==
    /\ pc[r] = "relock" /\ mut = None /\ "DONE" \in state[r]
    /\ state' = [state EXCEPT ![r] = {}] /\ atEnd' = [atEnd EXCEPT ![r] = FALSE]
    /\ since' = [since EXCEPT ![r] = 0]
    /\ byItself' = byItself \ {r} /\ hit' = hit \ {r}
    /\ Goto(r, "idle")
    /\ UNCHANGED <<locks, file, open, last, acks, undefined>>

\* What a reader that was woken by a write returns.
Content(r) == IF r \in Delta /\ delta # 0 THEN delta ELSE tuples

ReadWritten(r) ==
    /\ pc[r] = "relock" /\ mut = None /\ "DONE" \notin state[r] /\ "WRITE" \in state[r]
    /\ last' = [last EXCEPT ![r] = IF r \in Delta THEN Content(r) ELSE 0]
    /\ since' = [since EXCEPT ![r] = 0]
    /\ atEnd' = [atEnd EXCEPT ![r] = TRUE]
    /\ state' = [state EXCEPT ![r] = @ \ {"WRITE"}] /\ hit' = hit \ {r}
    /\ Goto(r, "sigUnlock")
    /\ UNCHANGED <<locks, file, open, byItself, acks, undefined>>

\* Neither interrupted nor given a write: the read returns nothing.
ReadNothing(r) ==
    /\ pc[r] = "relock" /\ mut = None /\ state[r] \cap {"DONE", "WRITE"} = {}
    /\ hit' = hit \ {r}
    /\ Goto(r, "sigUnlock")
    /\ UNCHANGED <<locks, file, open, atEnd, last, since, byItself, state, acks, undefined>>

SigUnlock(r) ==
    /\ pc[r] = "sigUnlock"
    /\ sig' = [sig EXCEPT ![r] = None] /\ Goto(r, "idle")
    /\ UNCHANGED <<mut, file, state, priv, acks, undefined>>

----------------------------------------------------------------------------
(***************************************************************************)
(* lpps_write.                                                             *)
(***************************************************************************)

\* A write at offset 0 replaces the tuples and leaves the delta alone, another
\* one is merged and becomes the delta.  If there are more tuples than before, a
\* reader that was at their end is so no longer.
Write(w) ==
    /\ pc[w] = "idle" /\ mut = None /\ tuples < MaxWrites
    /\ tuples' = tuples + 1
    /\ \/ UNCHANGED delta
       \/ tuples # 0 /\ delta' = tuples + 1
    /\ atEnd' \in {e \in [Readers -> BOOLEAN] : \A r \in Readers : e[r] => atEnd[r]}
    /\ mut' = w /\ Goto(w, "signal")
    /\ UNCHANGED <<state, sig, open, last, since, byItself, hit, acks, undefined>>

\* Mutants: OS_LOCK_WAIT stays set; nobody is signalled.
SigWakeup_KeepsWait(r, bits) ==
    /\ state' = [state EXCEPT ![r] = @ \cup bits]
    /\ pc' = [pc EXCEPT ![r] = IF @ = "waiting" THEN "woken" ELSE @]
SigWakeup_NoSignal(r, bits) ==
    /\ state' = [state EXCEPT ![r] = (@ \cup bits) \ {"WAIT"}]
    /\ UNCHANGED pc

\* os_sig_wakeup, after the bits have been added to the state of the reader.
SigWakeup(r, bits) ==
    /\ state' = [state EXCEPT ![r] = (@ \cup bits) \ {"WAIT"}]
    /\ pc' = [pc EXCEPT ![r] = IF @ = "waiting" THEN "woken" ELSE @]

\* signal_waiting(xpriv->sig), for a slot that is in use.
Waits(r) == r \in open /\ "WAIT" \in state[r]

\* A reader that waits gets OS_LOCK_STATE_WRITE and an event, with its mutex.
SignalReader(w) ==
    LET r == ix[w] IN
    /\ pc[w] = "signal" /\ r \in Readers /\ Waits(r) /\ sig[r] = None
    /\ SigWakeup(r, {"WRITE"})
    /\ events' = Append(events, "new") /\ ackevt' = [ackevt EXCEPT ![r] = Len(events) + 1]
    /\ ix' = [ix EXCEPT ![w] = @ + 1]
    /\ UNCHANGED <<locks, file, priv, ev, undefined>>

\* Mutant: the loop goes one slot too far.
SkipReader_OneMore(w) ==
    /\ pc[w] = "signal" /\ ix[w] <= N + 1 /\ (ix[w] \in Readers => ~Waits(ix[w]))
    /\ ix' = [ix EXCEPT ![w] = @ + 1]
    /\ UNCHANGED <<pc, locks, file, state, priv, ackevt, events, ev, undefined>>

SkipReader(w) ==
    /\ pc[w] = "signal" /\ ix[w] \in Readers /\ ~Waits(ix[w])
    /\ ix' = [ix EXCEPT ![w] = @ + 1]
    /\ UNCHANGED <<pc, locks, file, state, priv, ackevt, events, ev, undefined>>

\* "Readers kicks down the ground and goes running."
Unlock(w) ==
    /\ pc[w] = "signal" /\ ix[w] \notin Readers
    /\ mut' = None /\ ix' = [ix EXCEPT ![w] = 1] /\ Goto(w, "ack")
    /\ UNCHANGED <<sig, file, state, priv, ackevt, events, ev, undefined>>

\* The second loop runs without the lock.
AckTest(w) ==
    LET r == ix[w] IN
    /\ pc[w] = "ack" /\ r \in Readers
    /\ \/ r \in open /\ ackevt[r] # 0
          /\ ev' = [ev EXCEPT ![w] = ackevt[r]] /\ Goto(w, "receive") /\ UNCHANGED ix
       \/ ~(r \in open /\ ackevt[r] # 0)
          /\ ix' = [ix EXCEPT ![w] = @ + 1] /\ UNCHANGED <<pc, ev>>
    /\ UNCHANGED <<locks, file, state, priv, ackevt, events, undefined>>

\* os_event_receive polls the event until it is acknowledged, or too often; the
\* event may have been deleted by another writer.
AckReceive(w) ==
    /\ pc[w] = "receive"
    /\ events[ev[w]] \in {"acked", "deleted"} \/ Timeouts
    /\ undefined' = (events[ev[w]] = "deleted")
    /\ Goto(w, "delete")
    /\ UNCHANGED <<locks, file, state, priv, acks>>

\* os_event_delete(xpriv->ackevt): the event that is there now.
EventDelete(w) ==
    LET e == ackevt[ix[w]] IN
    /\ pc[w] = "delete"
    /\ \/ e = 0 /\ UNCHANGED <<events, undefined>>
       \/ e # 0 /\ undefined' = (events[e] = "deleted")
                /\ events' = [events EXCEPT ![e] = "deleted"]
    /\ Goto(w, "clear")
    /\ UNCHANGED <<locks, file, state, priv, ackevt, ix, ev>>

AckClear(w) ==
    /\ pc[w] = "clear"
    /\ ackevt' = [ackevt EXCEPT ![ix[w]] = 0]
    /\ ix' = [ix EXCEPT ![w] = @ + 1] /\ ev' = [ev EXCEPT ![w] = 0]
    /\ Goto(w, "ack")
    /\ UNCHANGED <<locks, file, state, priv, events, undefined>>

WriteReturn(w) ==
    /\ pc[w] = "ack" /\ ix[w] \notin Readers
    /\ ix' = [ix EXCEPT ![w] = 1] /\ Goto(w, "idle")
    /\ UNCHANGED <<locks, file, state, priv, ackevt, events, ev, undefined>>

----------------------------------------------------------------------------
(***************************************************************************)
(* lpps_ll_interrupt, lpps_release and lpps_open.                          *)
(***************************************************************************)

\* A request that waits, or has waited, is found by its number.  Its mutex is
\* tried only; if the reader has it, the signal may come before the wait.
Interrupt(r) ==
    /\ Interrupts /\ mut = None
    /\ pc[r] # "idle"
    /\ SigWakeup(r, {"DONE"})
    /\ hit' = IF pc[r] = "condWait" THEN hit \cup {r} ELSE hit
    /\ UNCHANGED <<locks, file, open, atEnd, last, since, byItself, acks, undefined>>

\* The same without the mutex, at the moment the reader changes its state
\* itself: its |= of OS_LOCK_WAIT, or its &= in os_sig_unlock, was read before
\* OS_LOCK_STATE_DONE was set and written after it, so DONE is lost.
InterruptLost(r) ==
    /\ Interrupts /\ mut = None
    /\ \/ /\ pc[r] = "setWait"
          /\ \E bits \in {{}, {"WAIT"}} :
                state' = [state EXCEPT ![r] = (@ \ {"WAIT"}) \cup bits]
          /\ since' = [since EXCEPT ![r] = tuples]
          /\ hit' = hit \cup {r} /\ Goto(r, "condWait") /\ UNCHANGED sig
       \/ /\ pc[r] = "sigUnlock"
          /\ state' = [state EXCEPT ![r] = @ \ {"WAIT"}]
          /\ sig' = [sig EXCEPT ![r] = None]
          /\ Goto(r, "idle") /\ UNCHANGED <<since, hit>>
    /\ UNCHANGED <<mut, file, open, atEnd, last, byItself, acks, undefined>>

\* The handle is freed, although a writer may be waiting for its event.
Release(r) ==
    /\ Closing /\ pc[r] = "idle" /\ r \in open /\ mut = None
    /\ open' = open \ {r}
    /\ Acknowledge(r) /\ ackevt' = [ackevt EXCEPT ![r] = 0]
    /\ pc' = [t \in Threads |-> IF t \in Writers /\ pc[t] \in UsesHandle /\ ix[t] = r
                                THEN "dangling" ELSE pc[t]]
    /\ state' = [state EXCEPT ![r] = {}] /\ sig' = [sig EXCEPT ![r] = None]
    /\ atEnd' = [atEnd EXCEPT ![r] = FALSE]
    /\ last' = [last EXCEPT ![r] = 0] /\ since' = [since EXCEPT ![r] = 0]
    /\ byItself' = byItself \ {r} /\ hit' = hit \ {r}
    /\ UNCHANGED <<mut, file, ix, ev>>

\* The writer goes on with a handle that was freed.
UseFreed(w) ==
    /\ pc[w] = "dangling"
    /\ undefined' = TRUE
    /\ UNCHANGED <<pc, locks, file, state, priv, acks>>

\* A new handle.
Open(r) ==
    /\ r \notin open /\ mut = None
    /\ open' = open \cup {r}
    /\ UNCHANGED <<pc, locks, file, state, atEnd, last, since, byItself, hit, acks,
                   undefined>>

----------------------------------------------------------------------------
ReaderStep(r) == \/ SigLock(r) \/ SetWait(r) \/ CondWait(r) \/ CondReturn(r)
                 \/ ReadDone(r) \/ ReadWritten(r) \/ ReadNothing(r) \/ SigUnlock(r)
WriterStep(w) == \/ SignalReader(w) \/ SkipReader(w) \/ Unlock(w) \/ AckTest(w)
                 \/ AckReceive(w) \/ EventDelete(w) \/ AckClear(w) \/ WriteReturn(w)
                 \/ UseFreed(w)

Next == /\ ~undefined
        /\ \/ \E r \in Readers : \/ ReadTuples(r) \/ ReadWait(r) \/ ReaderStep(r)
                                 \/ SpuriousWakeup(r) \/ Interrupt(r)
                                 \/ InterruptLost(r) \/ Release(r) \/ Open(r)
           \/ \E w \in Writers : Write(w) \/ WriterStep(w)

\* A thread inside a request goes on; nobody has to send one.
Fairness == /\ \A r \in Readers : WF_vars(~undefined /\ ReaderStep(r))
            /\ \A w \in Writers : WF_vars(~undefined /\ WriterStep(w))

Spec == Init /\ [][Next]_vars /\ Fairness

----------------------------------------------------------------------------
(***************************************************************************)
(* Properties.                                                             *)
(***************************************************************************)

\* Type correctness of the threads, the file, the handles and the events.
TypeOK ==
    /\ pc \in [Threads -> ReaderPcs \cup WriterPcs]
    /\ \A r \in Readers : pc[r] \in ReaderPcs
    /\ \A w \in Writers : pc[w] \in WriterPcs
    /\ mut \in Writers \cup {None} /\ sig \in [Readers -> Readers \cup {None}]
    /\ tuples \in 0 .. MaxWrites /\ delta \in 0 .. MaxWrites
    /\ open \subseteq Readers /\ state \in [Readers -> SUBSET Bits]
    /\ atEnd \in [Readers -> BOOLEAN]
    /\ events \in Seq({"new", "acked", "deleted"})
    /\ ackevt \in [Readers -> 0 .. Len(events)] /\ ev \in [Writers -> 0 .. Len(events)]
    /\ ix \in [Writers -> 1 .. N + 1]
    /\ last \in [Readers -> 0 .. MaxWrites] /\ since \in [Readers -> 0 .. MaxWrites]
    /\ byItself \subseteq Readers /\ hit \subseteq Readers
    /\ undefined \in BOOLEAN

\* A reader on the way from OS_LOCK_WAIT to its sleep, or asleep.
Waiting(r) == pc[r] \in {"condWait", "waiting"}

\* No write passes a reader that waits: once a write has released the lock,
\* whoever still waits with OS_LOCK_WAIT set began to do so after it, and no
\* reader sleeps with a write that it was given and has not taken.  The second
\* part fails after a wait that ended by itself, which leaves OS_LOCK_WAIT set
\* on a handle that does not wait: the next write is given to it all the same.
NonePassed ==
    mut = None => \A r \in open :
        /\ Waiting(r) /\ "WAIT" \in state[r] => since[r] = tuples
        /\ pc[r] = "waiting" => "WRITE" \notin state[r] \/ r \in byItself

\* A reader that sleeps can be woken by the next write, with one exception: it
\* was interrupted between OS_LOCK_WAIT and its sleep, with its mutex, which
\* os_sig_trylock does not wait for; the interrupt takes OS_LOCK_WAIT and its
\* signal comes too early.
Wakeable == \A r \in Readers : pc[r] = "waiting" => "WAIT" \in state[r] \/ r \in hit

\* A writer has the lock and waits for the mutex of a reader whose wait has
\* ended by itself, and that reader waits for the lock.
Deadlocked ==
    /\ mut # None /\ ix[mut] \in Readers
    /\ pc[ix[mut]] = "relock" /\ Waits(ix[mut]) /\ ix[mut] \in byItself

\* lpps.mut, the one lock of the file system, is released again, although a
\* writer that holds it waits for the mutex of a reader (os_sig_lock), and a
\* reader that was woken keeps its mutex while it waits for lpps.mut: one that
\* was woken by a write or an interrupt is not waited for.  The exception is a
\* reader whose wait has ended by itself: then both wait for ever.
LockReleased == (mut # None) ~> (mut = None \/ undefined \/ Deadlocked)

\* A reader that was given a write returns from its read, whether it was
\* interrupted at the same time or not, as long as no wait ends by itself
\* (after which a write may be given to a reader that does not wait).
WokenReturns == \A r \in Readers :
    ("WRITE" \in state[r]) ~> ("WRITE" \notin state[r] \/ undefined \/ byItself # {})

\* "works in execulsive manner through hand-shake mechanism": a reader of
\* deltas that goes on reading gets the delta of every write.
NoneMissed ==
    [][\A r \in Delta : last[r] # 0 /\ last'[r] \notin {0, last[r]} => last'[r] = last[r] + 1]_vars
============================================================================
