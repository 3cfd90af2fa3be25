------------------------------- MODULE SosMsgq -------------------------------
(***************************************************************************)
(* The message queue of sos (libs/sos/source/sos/src/msgq.c) over the      *)
(* condition variables of var.c.  A sender puts its message into a buffer  *)
(* queue and signals the condition; a receiver waits for the condition,    *)
(* gets a message and releases the condition's mutex.                      *)
(*                                                                         *)
(* All messages have one size, so the buffer queue (module SosQbuff) is a  *)
(* sequence of messages here, and put, get and flush are one step each.    *)
(* The number of messages is not bounded, only how many of them the pool   *)
(* of the queue holds.  Time is abstract: a timed wait may end at any      *)
(* moment.  The counter of the queue, which is only printed, is left out.  *)
(*                                                                         *)
(* The mutex of a condition is a default pthread mutex: an unlock frees it *)
(* whoever holds it.                                                       *)
(***************************************************************************)
EXTENDS Naturals, Sequences

CONSTANTS
    Senders,    \* threads that call os_msgq_send
    Receivers,  \* threads that receive
    Mode,       \* how each receiver does it: "block" os_msgq_recv(id, 0),
                \* "try" os_msgq_recv(id, 1), "timed" os_msgq_recv_timeout
    Messages,   \* what is sent
    None,       \* the owner of a free mutex, no message
    CAPACITY    \* how many messages the pool of the queue has room for

Threads == Senders \cup Receivers

ASSUME MsgqConstants ==
    /\ Senders \cap Receivers = {}
    /\ None \notin Threads \cup Messages
    /\ Mode \in [Receivers -> {"block", "try", "timed"}]
    /\ CAPACITY \in Nat

VARIABLES
    pc,     \* where each thread is
    queue,  \* the messages in the buffer queue
    mutex,  \* owner of the mutex of the condition
    got     \* the message a receiver is about to return

vars == <<pc, queue, mutex, got>>

SenderPcs   == {"idle", "put", "lock", "signal", "unlock"}
ReceiverPcs == {"idle", "test", "acquire", "wait", "waiting", "woken",
                "retest", "get", "release"}

Goto(t, l) == pc' = [pc EXCEPT ![t] = l]

Timed(r) == Mode[r] = "timed"

Init ==
    /\ pc = [t \in Threads |-> "idle"]
    /\ queue = <<>> /\ mutex = None
    /\ got = [r \in Receivers |-> None]

----------------------------------------------------------------------------
(***************************************************************************)
(* os_msgq_send.                                                           *)
(***************************************************************************)
Send(s) ==
    /\ pc[s] = "idle"
    /\ Goto(s, "put")
    /\ UNCHANGED <<queue, mutex, got>>

\* Mutant: the pool has no limit.
Put_NoLimit(s) ==
    /\ pc[s] = "put"
    /\ (\E m \in Messages : queue' = Append(queue, m)) /\ Goto(s, "lock")
    /\ UNCHANGED <<mutex, got>>

Put(s) ==
    /\ pc[s] = "put" /\ Len(queue) < CAPACITY
    /\ (\E m \in Messages : queue' = Append(queue, m)) /\ Goto(s, "lock")
    /\ UNCHANGED <<mutex, got>>

\* os_qbuff_put finds no memory: os_msgq_send returns ERROR.
PutFails(s) ==
    /\ pc[s] = "put" /\ Len(queue) >= CAPACITY
    /\ Goto(s, "idle")
    /\ UNCHANGED <<queue, mutex, got>>

\* os_msgq_flush, which nobody is told of.
Flush(s) ==
    /\ pc[s] = "idle"
    /\ queue' = <<>>
    /\ UNCHANGED <<pc, mutex, got>>

\* Receivers in pthread_cond_wait or pthread_cond_timedwait.
Waiting == {r \in Receivers : pc[r] = "waiting"}

\* os_cond_signal: with the mutex, which a timed receive may free again, ...
CondLock(s) ==
    /\ pc[s] = "lock" /\ mutex = None
    /\ mutex' = s /\ Goto(s, "signal")
    /\ UNCHANGED <<queue, got>>

\* ... it wakes one of the receivers that wait, if there is one, ...
CondSignal(s) ==
    /\ pc[s] = "signal"
    /\ \/ Waiting = {} /\ Goto(s, "unlock")
       \/ \E r \in Waiting : pc' = [pc EXCEPT ![s] = "unlock", ![r] = "woken"]
    /\ UNCHANGED <<queue, mutex, got>>

\* ... and frees the mutex, whoever holds it by then.
CondUnlock(s) ==
    /\ pc[s] = "unlock"
    /\ mutex' = None /\ Goto(s, "idle")
    /\ UNCHANGED <<queue, got>>

----------------------------------------------------------------------------
(***************************************************************************)
(* os_msgq_recv and os_msgq_recv_timeout.                                  *)
(***************************************************************************)
Recv(r) ==
    /\ pc[r] = "idle"
    /\ Goto(r, IF Mode[r] = "block" THEN "acquire" ELSE "test")
    /\ UNCHANGED <<queue, mutex, got>>

\* os_qbuff_current_size: with an empty queue a trying receiver returns and a
\* timed one waits; with a message a trying one waits, and a timed one goes on
\* without the mutex.
TestSize(r) ==
    /\ pc[r] = "test"
    /\ Goto(r, IF queue = <<>> THEN IF Timed(r) THEN "acquire" ELSE "idle"
                               ELSE IF Timed(r) THEN "get" ELSE "acquire")
    /\ UNCHANGED <<queue, mutex, got>>

\* os_cond_acquire and os_cond_acquire_timeout: the mutex, then the wait,
\* which releases it.
CondAcquire(r) ==
    /\ pc[r] = "acquire" /\ mutex = None
    /\ mutex' = r /\ Goto(r, "wait")
    /\ UNCHANGED <<queue, got>>

CondWait(r) ==
    /\ pc[r] = "wait"
    /\ mutex' = None /\ Goto(r, "waiting")
    /\ UNCHANGED <<queue, got>>

\* The nanoseconds of the deadline exceed a second: the wait is refused at
\* once, with the mutex held.
CondWaitRefused(r) ==
    /\ pc[r] = "wait" /\ Timed(r)
    /\ Goto(r, "retest")
    /\ UNCHANGED <<queue, mutex, got>>

\* Mutant: the timed wait has no deadline.
Timeout_Never(r) == FALSE

Timeout(r) ==
    /\ pc[r] = "waiting" /\ Timed(r)
    /\ Goto(r, "woken")
    /\ UNCHANGED <<queue, mutex, got>>

\* A condition wait may end by itself.
SpuriousWakeup(r) ==
    /\ pc[r] = "waiting"
    /\ Goto(r, "woken")
    /\ UNCHANGED <<queue, mutex, got>>

\* The wait takes the mutex back.
CondReturn(r) ==
    /\ pc[r] = "woken" /\ mutex = None
    /\ mutex' = r /\ Goto(r, IF Timed(r) THEN "retest" ELSE "get")
    /\ UNCHANGED <<queue, got>>

\* "Two way checking": after the wait a timed receiver tests the size again.
Retest(r) ==
    /\ pc[r] = "retest"
    /\ Goto(r, IF queue = <<>> THEN "release" ELSE "get")
    /\ UNCHANGED <<queue, mutex, got>>

\* os_msgq_recv_internal; the queue may be empty again.
Get(r) ==
    /\ pc[r] = "get"
    /\ \/ /\ queue # <<>>
          /\ got' = [got EXCEPT ![r] = Head(queue)] /\ queue' = Tail(queue)
       \/ queue = <<>> /\ UNCHANGED <<got, queue>>
    /\ Goto(r, "release")
    /\ UNCHANGED mutex

\* Mutant: a receive that got nothing returns without releasing the mutex.
CondRelease_OnlyGot(r) ==
    /\ pc[r] = "release"
    /\ mutex' = IF got[r] = None THEN mutex ELSE None
    /\ got' = [got EXCEPT ![r] = None] /\ Goto(r, "idle")
    /\ UNCHANGED queue

\* os_cond_release frees the mutex, whoever holds it, and the call returns.
CondRelease(r) ==
    /\ pc[r] = "release"
    /\ mutex' = None
    /\ got' = [got EXCEPT ![r] = None] /\ Goto(r, "idle")
    /\ UNCHANGED queue

----------------------------------------------------------------------------
SendStep(s) == Put(s) \/ PutFails(s) \/ CondLock(s) \/ CondSignal(s) \/ CondUnlock(s)
RecvStep(r) == \/ TestSize(r) \/ CondAcquire(r) \/ CondWait(r) \/ CondWaitRefused(r)
               \/ Timeout(r) \/ CondReturn(r) \/ Retest(r) \/ Get(r) \/ CondRelease(r)

Next == \/ \E s \in Senders : Send(s) \/ Flush(s) \/ SendStep(s)
        \/ \E r \in Receivers : Recv(r) \/ RecvStep(r) \/ SpuriousWakeup(r)

\* Every thread goes on with its call, time passes, and a thread that waits
\* for the mutex gets it if it is free again and again (a step of a thread
\* that waits for nothing stays enabled, so SF asks no more than WF of it).  A
\* receiver calls again when it has returned; no sender has to send.
Fairness == /\ \A s \in Senders : SF_vars(SendStep(s))
            /\ \A r \in Receivers : SF_vars(Recv(r) \/ RecvStep(r))

Spec == Init /\ [][Next]_vars /\ Fairness

----------------------------------------------------------------------------
(***************************************************************************)
(* Properties.                                                             *)
(***************************************************************************)

\* Type correctness of the threads, the queue and the mutex.
TypeOK ==
    /\ pc \in [Threads -> SenderPcs \cup ReceiverPcs]
    /\ \A s \in Senders : pc[s] \in SenderPcs
    /\ \A r \in Receivers : pc[r] \in ReceiverPcs
    /\ queue \in Seq(Messages) /\ Len(queue) <= CAPACITY
    /\ mutex \in Threads \cup {None}
    /\ got \in [Receivers -> Messages \cup {None}]

\* The mutex is never left behind: its owner is inside a receive or a signal,
\* past the lock and before the release, although a timed receive that finds a
\* message at once releases a mutex it has not taken, and a sender one that was
\* taken from it in this way.
OwnerInside ==
    mutex # None => pc[mutex] \in {"signal", "unlock", "wait", "retest", "get", "release"}

\* The timed receive has no lost wake-up: as long as a receiver polls, a
\* message in the queue is received (or flushed), also when its signal came
\* before the wait, woke another receiver, or the wait was refused.
Delivered ==
    (\E r \in Receivers : Timed(r)) =>
        ((queue # <<>>) ~> (queue = <<>> \/ \E r \in Receivers : got[r] # None))
============================================================================
