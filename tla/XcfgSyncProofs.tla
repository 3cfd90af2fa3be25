--------------------------- MODULE XcfgSyncProofs ---------------------------
(***************************************************************************)
(* Proofs about XcfgSync, for every set of connection threads and every    *)
(* number of requests.                                                     *)
(***************************************************************************)
EXTENDS XcfgSync, TLAPS

USE SyncConstants

\* The places where a handler, and sync_handler, hold xcfg->mut.
HandlerHolds == HandlerPcs \ {"idle", "lock"}
SyncHolds    == {"sync", "reload"}

\* Who is there, by its place, holds xcfg->mut.
MutInv ==
    /\ \A h \in Handlers : pc[h] \in HandlerHolds => mut = h
    /\ \A t \in {Timer, Main} : pc[t] \in SyncHolds => mut = t

\* The last part of main: the timer thread is dead, then the handlers are gone.
Ending == \/ pc[Main] \in {"free", "exit"}
          \/ deleting /\ pc[Main] \in {"syncLock", "sync", "reload"}
ShutInv ==
    /\ pc[Main] \in {"undo", "cancel", "join", "stopHttp", "joinHttp", "free", "exit"}
          => deleting
    /\ cancelled \/ ~toCreated \/ ~ttInited \/ ~open => deleting
    /\ Ending \/ pc[Main] \in {"stopHttp", "joinHttp"} => pc[Timer] = "dead"
    /\ pc[Main] = "joinHttp" => ~open
    /\ Ending => ~open /\ \A h \in Handlers : pc[h] = "idle"

\* The tree is deleted only while its owner replaces it, or for good; it
\* dangles only after a failure, and is used where it is not there only after
\* one, or by the last config_xml_exit.
TreeInv ==
    /\ tree = "freed" => \/ mut = Timer /\ pc[Timer] \in {"reload", "dead"}
                         \/ mut = Main /\ pc[Main] = "reload"
                         \/ pc[Main] = "exit"
    /\ tree = "dangling" => Faults
    /\ tree = "undefined" => Faults \/ pc[Main] = "free"

SyncInv == TypeOK /\ MutInv /\ ShutInv /\ TreeInv

----------------------------------------------------------------------------
(***************************************************************************)
(* The invariant is inductive.                                             *)
(***************************************************************************)

\* The invariant holds when the HTTP server starts.
LEMMA SyncInit == Init => SyncInv
<1> USE DEF Threads, HandlerPcs, TimerPcs, MainPcs
<1> SUFFICES ASSUME Init PROVE SyncInv
  OBVIOUS
<1>1. /\ pc[Timer] = "loop" /\ pc[Main] \in {"syncLock", "reset"}
      /\ \A h \in Handlers : pc[h] = "idle"
  BY DEF Init
<1>2. TypeOK
  <2>1. /\ listed \in BOOLEAN /\ ttActive \in BOOLEAN /\ toActive \in BOOLEAN
        /\ toCreated \in BOOLEAN /\ ttInited \in BOOLEAN /\ cancelled \in BOOLEAN
        /\ pend \in BOOLEAN /\ deleting \in BOOLEAN /\ done \in BOOLEAN
        /\ open \in BOOLEAN /\ dirty \in BOOLEAN
    BY Zenon DEF Init
  <2> QED BY <1>1, <2>1 DEF Init, TypeOK, Trees
<1>3. MutInv /\ ShutInv /\ TreeInv
  BY <1>1 DEF Init, MutInv, ShutInv, TreeInv, Ending, HandlerHolds, SyncHolds
<1> QED BY <1>2, <1>3 DEF SyncInv

\* The steps of DefaultHandlerCallback.
LEMMA HandlerKeeps ==
    ASSUME SyncInv, NEW h \in Handlers,
           Arrive(h) \/ LockTree(h) \/ Reply(h) \/ Set(h) \/ UnlockTree(h)
    PROVE  SyncInv'
<1> USE DEF SyncInv, TypeOK, MutInv, ShutInv, TreeInv, Ending, Threads, HandlerPcs, TimerPcs, MainPcs,
             HandlerHolds, SyncHolds, Goto, Signal, Trees, timerObj, mainVars, data
<1>1. CASE Arrive(h)
  BY <1>1 DEF Arrive
<1>2. CASE LockTree(h)
  BY <1>2 DEF LockTree
<1>3. CASE Reply(h)
  BY <1>3 DEF Reply
<1>4. CASE Set(h)
  <2>1. dirty' \in BOOLEAN
    BY <1>4, Zenon DEF Set
  <2>2. TypeOK'
    BY <1>4, <2>1 DEF Set
  <2>3. MutInv' /\ ShutInv' /\ TreeInv'
    BY <1>4 DEF Set
  <2> QED BY <2>2, <2>3
<1>5. CASE UnlockTree(h)
  BY <1>5 DEF UnlockTree
<1> QED BY <1>1, <1>2, <1>3, <1>4, <1>5

\* The steps of stop_timer, in a handler or in main.
LEMMA StopKeeps ==
    ASSUME SyncInv, NEW t \in Handlers \cup {Main},
           StopTest(t) \/ StopLockList(t) \/ StopLockTimer(t) \/ StopDeleted(t) \/ StopBody(t)
    PROVE  SyncInv'
<1> USE DEF SyncInv, TypeOK, MutInv, ShutInv, TreeInv, Ending, Threads, HandlerPcs, TimerPcs, MainPcs,
             HandlerHolds, SyncHolds, Goto, Signal, Trees, timerObj, mainVars, data
<1>1. CASE StopTest(t)
  BY <1>1 DEF StopTest, AfterStop
<1>2. CASE StopLockList(t)
  BY <1>2 DEF StopLockList
<1>3. CASE StopLockTimer(t)
  BY <1>3 DEF StopLockTimer
<1>4. CASE StopDeleted(t)
  <2>1. deleting' \in BOOLEAN
    BY <1>4, Zenon DEF StopDeleted, AfterStop, StopReturn
  <2>2. TypeOK'
    BY <1>4, <2>1 DEF StopDeleted, AfterStop, StopReturn
  <2>3. MutInv' /\ ShutInv' /\ TreeInv'
    BY <1>4 DEF StopDeleted, AfterStop, StopReturn
  <2> QED BY <2>2, <2>3
<1>5. CASE StopBody(t)
  <2>1. toActive' \in BOOLEAN /\ listed' \in BOOLEAN /\ deleting' \in BOOLEAN
    BY <1>5, Zenon DEF StopBody, AfterStop, StopReturn
  <2>2. TypeOK'
    BY <1>5, <2>1 DEF StopBody, AfterStop, StopReturn
  <2>3. MutInv' /\ ShutInv' /\ TreeInv'
    BY <1>5 DEF StopBody, AfterStop, StopReturn
  <2> QED BY <2>2, <2>3
<1> QED BY <1>1, <1>2, <1>3, <1>4, <1>5

\* The steps of start_timer.
LEMMA StartKeeps ==
    ASSUME SyncInv, NEW h \in Handlers,
           StartTest(h) \/ StartLockList(h) \/ StartLockTimer(h) \/ StartDeleted(h) \/ StartBody(h)
    PROVE  SyncInv'
<1> USE DEF SyncInv, TypeOK, MutInv, ShutInv, TreeInv, Ending, Threads, HandlerPcs, TimerPcs, MainPcs,
             HandlerHolds, SyncHolds, Goto, Signal, Trees, timerObj, mainVars, data
<1>1. CASE StartTest(h)
  BY <1>1 DEF StartTest
<1>2. CASE StartLockList(h)
  BY <1>2 DEF StartLockList
<1>3. CASE StartLockTimer(h)
  BY <1>3 DEF StartLockTimer
<1>4. CASE StartDeleted(h)
  BY <1>4 DEF StartDeleted
<1>5. CASE StartBody(h)
  BY <1>5 DEF StartBody
<1> QED BY <1>1, <1>2, <1>3, <1>4, <1>5

\* The steps of timer_thread.
LEMMA TimerKeeps ==
    ASSUME SyncInv, LoopLock \/ LoopCheck \/ WaitReturn \/ Expire \/ TimedReturn \/ Fire \/ Release \/ Cancelled \/ SpuriousWakeup
    PROVE  SyncInv'
<1> USE DEF SyncInv, TypeOK, MutInv, ShutInv, TreeInv, Ending, Threads, HandlerPcs, TimerPcs, MainPcs,
             HandlerHolds, SyncHolds, Goto, Signal, Trees, timerObj, mainVars, data
<1>1. CASE LoopLock
  BY <1>1 DEF LoopLock
<1>2. CASE LoopCheck
  <2>1. listed' \in BOOLEAN /\ ttActive' \in BOOLEAN
    BY <1>2, Zenon DEF LoopCheck
  <2>2. TypeOK'
    BY <1>2, <2>1 DEF LoopCheck
  <2>3. MutInv' /\ ShutInv' /\ TreeInv'
    BY <1>2 DEF LoopCheck
  <2> QED BY <2>2, <2>3
<1>3. CASE WaitReturn
  BY <1>3 DEF WaitReturn
<1>4. CASE Expire
  BY <1>4 DEF Expire
<1>5. CASE TimedReturn
  <2>1. ttActive' \in BOOLEAN
    BY <1>5, Zenon DEF TimedReturn
  <2>2. TypeOK'
    BY <1>5, <2>1 DEF TimedReturn
  <2>3. MutInv' /\ ShutInv' /\ TreeInv'
    BY <1>5 DEF TimedReturn
  <2> QED BY <2>2, <2>3
<1>6. CASE Fire
  BY <1>6 DEF Fire
<1>7. CASE Release
  BY <1>7 DEF Release
<1>8. CASE Cancelled
  BY <1>8 DEF Cancelled
<1>9. CASE SpuriousWakeup
  BY <1>9 DEF SpuriousWakeup
<1> QED BY <1>1, <1>2, <1>3, <1>4, <1>5, <1>6, <1>7, <1>8, <1>9

\* The steps of sync_handler, in the timer thread or in main.
LEMMA SyncKeeps ==
    ASSUME SyncInv, NEW t \in {Timer, Main},
           SyncLock(t) \/ SyncWrite(t) \/ SyncWriteFails(t) \/ SyncReload(t) \/ SyncReloadFails(t)
    PROVE  SyncInv'
<1> USE DEF SyncInv, TypeOK, MutInv, ShutInv, TreeInv, Ending, Threads, HandlerPcs, TimerPcs, MainPcs,
             HandlerHolds, SyncHolds, Goto, Signal, Trees, timerObj, mainVars, data
<1>1. CASE SyncLock(t)
  BY <1>1 DEF SyncLock
<1>2. CASE SyncWrite(t)
  <2>1. dirty' \in BOOLEAN
    BY <1>2, Zenon DEF SyncWrite
  <2>2. TypeOK'
    BY <1>2, <2>1 DEF SyncWrite
  <2>3. MutInv' /\ ShutInv' /\ TreeInv'
    BY <1>2 DEF SyncWrite
  <2> QED BY <2>2, <2>3
<1>3. CASE SyncWriteFails(t)
  <2>1. dirty' \in BOOLEAN
    BY <1>3, Zenon DEF SyncWriteFails
  <2>2. TypeOK'
    BY <1>3, <2>1 DEF SyncWriteFails
  <2>3. MutInv' /\ ShutInv' /\ TreeInv'
    BY <1>3 DEF SyncWriteFails
  <2> QED BY <2>2, <2>3
<1>4. CASE SyncReload(t)
  BY <1>4 DEF SyncReload, AfterSync
<1>5. CASE SyncReloadFails(t)
  BY <1>5 DEF SyncReloadFails, AfterSync
<1> QED BY <1>1, <1>2, <1>3, <1>4, <1>5

\* The use of a tree that is not there: it was lost by a failure, or main is at
\* its end.
LEMMA UseKeeps ==
    ASSUME SyncInv, NEW t \in Threads, UseFreed(t)
    PROVE  SyncInv'
<1> USE DEF SyncInv, TypeOK, MutInv, ShutInv, TreeInv, Ending, Threads, HandlerPcs, TimerPcs, MainPcs,
             HandlerHolds, SyncHolds, Goto, Signal, Trees, timerObj, mainVars, data
<1>1. Faults \/ pc[Main] = "free"
  <2> SUFFICES ASSUME ~Faults, pc[Main] # "free" PROVE FALSE
    OBVIOUS
  <2>1. tree = "freed" /\ pc[t] \in {"serve", "sync", "free"}
    BY DEF UseFreed
  <2>2. CASE t \in Handlers
    BY <2>1, <2>2
  <2>3. CASE t \in {Timer, Main}
    BY <2>1, <2>3
  <2> QED BY <2>2, <2>3
<1> QED BY <1>1 DEF UseFreed

\* The other steps of main, and the signal handler.
LEMMA MainKeeps ==
    ASSUME SyncInv, MainLoop \/ MainWakes \/ PendingTimer \/ DelTimer \/ CancelTimer \/ JoinTimer \/ StopHttp \/ JoinHttp \/ FreeTree \/ Trap
    PROVE  SyncInv'
<1> USE DEF SyncInv, TypeOK, MutInv, ShutInv, TreeInv, Ending, Threads, HandlerPcs, TimerPcs, MainPcs,
             HandlerHolds, SyncHolds, Goto, Signal, Trees, timerObj, mainVars, data
<1>1. CASE MainLoop
  <2>1. done' \in BOOLEAN
    BY <1>1, Zenon DEF MainLoop
  <2>2. TypeOK'
    BY <1>1, <2>1 DEF MainLoop
  <2>3. MutInv' /\ ShutInv' /\ TreeInv'
    BY <1>1 DEF MainLoop
  <2> QED BY <2>2, <2>3
<1>2. CASE MainWakes
  BY <1>2 DEF MainWakes
<1>3. CASE PendingTimer
  BY <1>3 DEF PendingTimer
<1>4. CASE DelTimer
  <2>1. toCreated' \in BOOLEAN
    BY <1>4, Zenon DEF DelTimer
  <2>2. TypeOK'
    BY <1>4, <2>1 DEF DelTimer
  <2>3. MutInv' /\ ShutInv' /\ TreeInv'
    BY <1>4 DEF DelTimer
  <2> QED BY <2>2, <2>3
<1>5. CASE CancelTimer
  BY <1>5 DEF CancelTimer
<1>6. CASE JoinTimer
  <2>1. ttInited' \in BOOLEAN
    BY <1>6, Zenon DEF JoinTimer
  <2>2. TypeOK'
    BY <1>6, <2>1 DEF JoinTimer
  <2>3. MutInv' /\ ShutInv' /\ TreeInv'
    BY <1>6 DEF JoinTimer
  <2> QED BY <2>2, <2>3
<1>7. CASE StopHttp
  <2>1. open' \in BOOLEAN
    BY <1>7, Zenon DEF StopHttp
  <2>2. TypeOK'
    BY <1>7, <2>1 DEF StopHttp
  <2>3. MutInv' /\ ShutInv' /\ TreeInv'
    BY <1>7 DEF StopHttp
  <2> QED BY <2>2, <2>3
<1>8. CASE JoinHttp
  BY <1>8 DEF JoinHttp
<1>9. CASE FreeTree
  BY <1>9 DEF FreeTree
<1>10. CASE Trap
  BY <1>10 DEF Trap
<1> QED BY <1>1, <1>2, <1>3, <1>4, <1>5, <1>6, <1>7, <1>8, <1>9, <1>10

\* Every step of the daemon preserves the invariant.
LEMMA SyncStep == SyncInv /\ [Next]_vars => SyncInv'
<1> SUFFICES ASSUME SyncInv, [Next]_vars PROVE SyncInv'
  OBVIOUS
<1>1. CASE UNCHANGED vars
  BY <1>1 DEF SyncInv, TypeOK, MutInv, ShutInv, TreeInv, Ending, vars
<1>2. CASE \E h \in Handlers : HandlerStep(h)
  BY <1>2, HandlerKeeps, StopKeeps, StartKeeps, UseKeeps
     DEF HandlerStep, StopTimer, StartTimer, Threads
<1>3. CASE TimerStep
  BY <1>3, TimerKeeps, SyncKeeps, UseKeeps DEF TimerStep, SyncHandler, Threads
<1>4. CASE MainStep
  BY <1>4, MainKeeps, StopKeeps, SyncKeeps, UseKeeps
     DEF MainStep, StopTimer, SyncHandler, Threads
<1>5. CASE Outside
  BY <1>5, HandlerKeeps, TimerKeeps, MainKeeps DEF Outside
<1> QED BY <1>1, <1>2, <1>3, <1>4, <1>5 DEF Next

\* The invariant holds in every reachable state.
THEOREM SyncInvariance == Spec => []SyncInv
BY SyncInit, SyncStep, PTL DEF Spec

\* The state of the daemon is type correct.
THEOREM SyncTypeCorrect == Spec => []TypeOK
<1>1. SyncInv => TypeOK
  BY DEF SyncInv
<1> QED BY <1>1, SyncInvariance, PTL

\* xcfg->mut and the order of the shutdown keep the XML tree of sync_handler,
\* DefaultHandlerCallback and config_xml_exit to one thread at a time, and no
\* thread uses a deleted tree unless a write or a reload of it has failed.
THEOREM TreeSafe == Spec => []TreeExclusive
<1>1. SyncInv => TreeExclusive
  <2> SUFFICES ASSUME SyncInv PROVE TreeExclusive
    OBVIOUS
  <2> USE DEF SyncInv, TypeOK, Threads, HandlerPcs, TimerPcs, MainPcs,
              HandlerHolds, SyncHolds
  <2>1. \A t \in Users : mut = t
    BY DEF Users, MutInv
  <2>2. \A t \in Threads : pc[t] \in {"serve", "sync"} =>
          tree = "loaded" \/ (Faults /\ tree # "freed")
    <3> SUFFICES ASSUME NEW t \in Threads, pc[t] \in {"serve", "sync"}
                 PROVE  tree = "loaded" \/ (Faults /\ tree # "freed")
      OBVIOUS
    <3>1. mut = t
      BY DEF MutInv
    <3>2. pc[Main] \notin {"free", "exit"}
      BY DEF ShutInv, Ending
    <3>3. tree # "freed"
      BY <3>1, <3>2 DEF TreeInv
    <3> QED BY <3>2, <3>3 DEF TreeInv, Trees
  <2>3. pc[Main] \in {"free", "exit"} => Users = {}
    BY DEF ShutInv, Ending, Users
  <2> QED BY <2>1, <2>2, <2>3 DEF TreeExclusive
<1> QED BY <1>1, SyncInvariance, PTL

\* When main has called sync_handler itself, mut is not the timer thread's.
PendInv == pc[Main] = "free" /\ pend => mut # Timer

\* Only main comes to the end of main, and behind it nobody else moves.
LEMMA PendKept ==
    ASSUME SyncInv, PendInv, [Next]_vars
    PROVE  PendInv'
<1> USE DEF SyncInv, TypeOK, Threads, HandlerPcs, TimerPcs, MainPcs, Goto, mainVars
<1>1. pc[Main] = "free" => /\ pc[Timer] = "dead" /\ ~open
                           /\ \A h \in Handlers : pc[h] = "idle"
  BY DEF ShutInv, Ending
<1>2. CASE UNCHANGED vars
  BY <1>2 DEF vars, PendInv
<1>3. ASSUME NEW h \in Handlers, HandlerStep(h)
      PROVE  PendInv'
  <2>1. pc'[Main] = pc[Main]
    BY <1>3 DEF HandlerStep, LockTree, Reply, Set, UnlockTree, UseFreed,
                StopTimer, StopTest, StopLockList, StopLockTimer, StopDeleted, StopBody,
                StopReturn, StartTimer, StartTest, StartLockList, StartLockTimer,
                StartDeleted, StartBody, Signal
  <2>2. pc[Main] # "free"
    BY <1>1, <1>3 DEF HandlerStep, LockTree, Reply, Set, UnlockTree, UseFreed,
                StopTimer, StopTest, StopLockList, StopLockTimer, StopDeleted, StopBody,
                StopReturn, StartTimer, StartTest, StartLockList, StartLockTimer,
                StartDeleted, StartBody, Signal
  <2> QED BY <2>1, <2>2 DEF PendInv
<1>4. CASE TimerStep
  <2>1. pc'[Main] = pc[Main]
    BY <1>4 DEF TimerStep, LoopLock, LoopCheck, WaitReturn, Expire, TimedReturn, Fire,
                Release, Cancelled, SyncHandler, SyncLock, SyncWrite, SyncWriteFails,
                SyncReload, SyncReloadFails, UseFreed
  <2>2. pc[Main] # "free"
    BY <1>1, <1>4 DEF TimerStep, LoopLock, LoopCheck, WaitReturn, Expire, TimedReturn, Fire,
                Release, Cancelled, SyncHandler, SyncLock, SyncWrite, SyncWriteFails,
                SyncReload, SyncReloadFails, UseFreed
  <2> QED BY <2>1, <2>2 DEF PendInv
<1>5. CASE StopTimer(Main)
  BY <1>5 DEF StopTimer, StopTest, StopLockList, StopLockTimer, StopDeleted, StopBody,
              StopReturn, AfterStop, Signal, PendInv
<1>6. CASE SyncHandler(Main)
  BY <1>6 DEF SyncHandler, SyncLock, SyncWrite, SyncWriteFails, SyncReload,
              SyncReloadFails, PendInv
<1>7. CASE MainLoop \/ MainWakes \/ PendingTimer \/ DelTimer \/ CancelTimer \/ JoinTimer
           \/ StopHttp \/ JoinHttp \/ FreeTree \/ UseFreed(Main)
  BY <1>7 DEF MainLoop, MainWakes, PendingTimer, DelTimer, CancelTimer, JoinTimer, StopHttp,
              JoinHttp, FreeTree, UseFreed, PendInv
<1>8. CASE Outside
  BY <1>1, <1>8 DEF Outside, Trap, Arrive, SpuriousWakeup, PendInv
<1> QED BY <1>2, <1>3, <1>4, <1>5, <1>6, <1>7, <1>8 DEF Next, MainStep

\* The last config_xml_exit finds a tree that sync_handler was replacing only
\* after a cancellation of the timer thread inside sync_handler, and never when
\* main has stored the changes itself; otherwise the tree is there, or a write
\* or a reload has failed.
THEOREM TreeFreedOnce == Spec => []FreedOnce
<1>1. Init => PendInv
  BY DEF Init, PendInv
<1>2. SyncInv /\ PendInv /\ [Next]_vars => PendInv'
  BY PendKept
<1>3. SyncInv /\ PendInv => FreedOnce
  <2> SUFFICES ASSUME SyncInv, PendInv, pc[Main] = "free", tree = "freed"
               PROVE  pc[Timer] = "dead" /\ mut = Timer /\ ~pend
    BY DEF FreedOnce
  <2>1. pc[Timer] = "dead"
    BY DEF SyncInv, ShutInv, Ending
  <2>2. mut = Timer
    BY DEF SyncInv, TreeInv
  <2> QED BY <2>1, <2>2 DEF PendInv
<1> QED BY <1>1, <1>2, <1>3, SyncInvariance, PTL DEF Spec

----------------------------------------------------------------------------
(***************************************************************************)
(* No change is forgotten, as long as no condition wait ends by itself and *)
(* no write or reload fails.                                               *)
(***************************************************************************)

\* The steps of a handler: one that changes the tree has yet to start the
\* timer, and it leaves start_timer only with the timer in the list.
LEMMA HandlerArms ==
    ASSUME SyncInv, PendingIsArmed, NEW h \in Handlers, Arrive(h) \/ HandlerStep(h)
    PROVE  PendingIsArmed'
<1> USE DEF SyncInv, TypeOK, ShutInv, PendingIsArmed, Armed, Serving, Restarting, Threads,
            HandlerPcs, TimerPcs, MainPcs, Goto, Signal, Trees, timerObj, mainVars, data
<1> USE DEF HandlerStep, StopTimer, StartTimer
<1>1. CASE Arrive(h) \/ LockTree(h) \/ Reply(h)
  BY <1>1 DEF Arrive, LockTree, Reply
<1>2. CASE Set(h)
  BY <1>2 DEF Set
<1>3. CASE UnlockTree(h) \/ UseFreed(h)
  BY <1>3 DEF UnlockTree, UseFreed
<1>4. CASE StopTest(h) \/ StopLockList(h) \/ StopLockTimer(h) \/ StopDeleted(h)
  BY <1>4 DEF StopTest, StopLockList, StopLockTimer, StopDeleted, StopReturn, AfterStop
<1>5. CASE StopBody(h)
  BY <1>5 DEF StopBody, StopReturn, AfterStop
<1>6. CASE StartTest(h) \/ StartLockList(h) \/ StartLockTimer(h) \/ StartDeleted(h)
  BY <1>6 DEF StartTest, StartLockList, StartLockTimer, StartDeleted
<1>7. CASE StartBody(h)
  BY <1>7 DEF StartBody
<1> QED BY <1>1, <1>2, <1>3, <1>4, <1>5, <1>6, <1>7

\* The steps of the timer thread: it takes the timer out of the list only to
\* wait for it, and a wait that times out fires the timer.
LEMMA TimerArms ==
    ASSUME SyncInv, PendingIsArmed, ~Faults, TimerStep
    PROVE  PendingIsArmed'
<1> USE DEF SyncInv, TypeOK, ShutInv, PendingIsArmed, Armed, Serving, Restarting, Threads,
            HandlerPcs, TimerPcs, MainPcs, Goto, Signal, Trees, timerObj, mainVars, data
<1> USE DEF TimerStep, SyncHandler
<1>1. CASE LoopLock
  BY <1>1 DEF LoopLock
<1>2. CASE LoopCheck
  BY <1>2 DEF LoopCheck
<1>3. CASE WaitReturn
  BY <1>3 DEF WaitReturn
<1>4. CASE Expire
  BY <1>4 DEF Expire
<1>5. CASE TimedReturn
  BY <1>5 DEF TimedReturn
<1>6. CASE Fire
  BY <1>6 DEF Fire
<1>7. CASE Release
  BY <1>7 DEF Release
<1>8. CASE Cancelled
  BY <1>8 DEF Cancelled
<1>9. CASE SyncHandler(Timer)
  BY <1>9 DEF SyncLock, SyncWrite, SyncWriteFails, SyncReload, SyncReloadFails, AfterSync
<1>10. CASE UseFreed(Timer)
  BY <1>10 DEF UseFreed
<1> QED BY <1>1, <1>2, <1>3, <1>4, <1>5, <1>6, <1>7, <1>8, <1>9, <1>10

\* The steps of main and the signal handler.
LEMMA MainArms ==
    ASSUME SyncInv, PendingIsArmed, ~Faults, MainStep \/ Trap
    PROVE  PendingIsArmed'
<1> USE DEF SyncInv, TypeOK, ShutInv, PendingIsArmed, Armed, Serving, Restarting, Threads,
            HandlerPcs, TimerPcs, MainPcs, Goto, Signal, Trees, timerObj, mainVars, data
<1> USE DEF MainStep, StopTimer, SyncHandler
<1>1. CASE MainLoop \/ MainWakes \/ Trap
  BY <1>1 DEF MainLoop, MainWakes, Trap
<1>2. CASE PendingTimer \/ DelTimer \/ CancelTimer \/ JoinTimer
  BY <1>2 DEF PendingTimer, DelTimer, CancelTimer, JoinTimer
<1>3. CASE StopHttp \/ JoinHttp \/ FreeTree \/ UseFreed(Main)
  BY <1>3 DEF StopHttp, JoinHttp, FreeTree, UseFreed
<1>4. CASE StopTimer(Main)
  BY <1>4 DEF StopTest, StopLockList, StopLockTimer, StopDeleted, StopBody, StopReturn, AfterStop
<1>5. CASE SyncHandler(Main)
  BY <1>5 DEF SyncLock, SyncWrite, SyncWriteFails, SyncReload, SyncReloadFails, AfterSync
<1> QED BY <1>1, <1>2, <1>3, <1>4, <1>5

\* While the daemon serves, every interleaving of the handlers with stop_timer,
\* start_timer and the waits of timer_thread keeps a change that is not stored
\* in the hands of the timer.
THEOREM ChangesStayArmed ==
    ASSUME ~Spurious, ~Faults
    PROVE  Spec => []PendingIsArmed
<1>1. Init => PendingIsArmed
  BY DEF Init, PendingIsArmed, Armed, Threads
<1>2. SyncInv /\ PendingIsArmed /\ [Next]_vars => PendingIsArmed'
  <2> SUFFICES ASSUME SyncInv, PendingIsArmed, [Next]_vars PROVE PendingIsArmed'
    OBVIOUS
  <2>1. CASE UNCHANGED vars
    BY <2>1 DEF PendingIsArmed, Armed, Serving, Restarting, vars
  <2>2. CASE Next
    BY <2>2, HandlerArms, TimerArms, MainArms DEF Next, Outside, SpuriousWakeup
  <2> QED BY <2>1, <2>2
<1> QED BY <1>1, <1>2, SyncInvariance, PTL DEF Spec
============================================================================
