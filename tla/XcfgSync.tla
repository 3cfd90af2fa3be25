------------------------------ MODULE XcfgSync ------------------------------
(***************************************************************************)
(* The threads of xcfgd (exts/xconfig/source/xconfig/daemon): the HTTP     *)
(* handlers of xcfgd.cpp change the XML tree in memory and (re)start the   *)
(* sync timer; the thread of timer.cpp calls sync_handler when the timer   *)
(* expires, which stores the tree; main shuts everything down on a signal  *)
(* and stores the tree itself if the timer is still pending.               *)
(*                                                                         *)
(* Three mutexes order the threads: xcfg->mut protects the tree, tt_lock   *)
(* the timer list, to_lock the timer object while its callback runs.       *)
(* Every lock operation and every condition wait is a step of its own.     *)
(*                                                                         *)
(* xcfgd has one timer, so the list of timer.cpp is empty or holds it, and *)
(* its order plays no part.  Time is abstract: a timed wait may end at any *)
(* moment.  The storage is abstract as well: "dirty" says that the tree    *)
(* has a change that the storage does not have, and xml_storage_update is  *)
(* one step (module XmlStorage shows why that is sound).  Requests are not *)
(* bounded.                                                                *)
(*                                                                         *)
(* A reload of the tree that fails is only logged, and xcfg->tree goes on  *)
(* pointing to the tree that was freed.  What its next use does has no     *)
(* defined outcome: the model records it in `tree' and stops.              *)
(***************************************************************************)
CONSTANTS
    Handlers,     \* the connection threads of the HTTP server
    Timer,        \* timer_thread
    Main,         \* the main thread
    None,         \* the owner of a free mutex
    Signals,      \* TRUE: the daemon may be told to terminate
    Spurious,     \* TRUE: condition waits may end without a signal
    Faults        \* TRUE: writing the tree or the storage, or the reload, may fail

Threads == Handlers \cup {Timer, Main}

ASSUME SyncConstants ==
    /\ Timer \notin Handlers /\ Main \notin Handlers /\ Timer # Main
    /\ None \notin Threads
    /\ Signals \in BOOLEAN /\ Spurious \in BOOLEAN /\ Faults \in BOOLEAN

VARIABLES
    pc,         \* where each thread is
    mut,        \* owner of xcfg->mut
    ttLock,     \* owner of pthread_timer.tt_lock
    toLock,     \* owner of the timer's to_lock
    listed,     \* the timer is in tt_head
    ttActive,   \* tt_active: the timer thread waits for the timer to expire
    toActive,   \* to_active
    toCreated,  \* to_created = CREATED_MASK
    ttInited,   \* tt_inited
    cancelled,  \* pthread_cancel has been called on the timer thread
    pend,       \* main's pend
    deleting,   \* main is in del_timer
    done,       \* xcfg->done
    open,       \* the HTTP server accepts requests
    tree,       \* what xcfg->tree points to
    dirty       \* the tree has a change that is not in the storage

vars == <<pc, mut, ttLock, toLock, listed, ttActive, toActive, toCreated,
          ttInited, cancelled, pend, deleting, done, open, tree, dirty>>

timerObj == <<listed, ttActive, toActive, toCreated, ttInited, cancelled>>
mainVars == <<pend, deleting, done, open>>
data     == <<tree, dirty>>

HandlerPcs == {"idle", "lock", "serve", "stop", "stopTT", "stopTO", "stopDo",
               "start", "startTT", "startTO", "startDo", "unlock"}
TimerPcs   == {"loop", "check", "wait", "woken", "timed", "signalled",
               "timedOut", "fire", "syncLock", "sync", "reload", "release",
               "dead"}
MainPcs    == {"reset", "run", "pending", "stop", "stopTT", "stopTO", "stopDo",
               "undo", "cancel", "join", "stopHttp", "joinHttp",
               "syncLock", "sync", "reload", "free", "exit"}

\* "freed": deleted, to be read again; "dangling": it could not be read again;
\* "undefined": a tree that is not there was used.
Trees == {"loaded", "freed", "dangling", "undefined"}

Goto(t, l) == pc' = [pc EXCEPT ![t] = l]

Init ==
    \* If config_xml_merge has changed the configuration, main stores it first.
    /\ dirty \in BOOLEAN
    /\ pc = [t \in Threads |->
               CASE t = Timer -> "loop"
                 [] t = Main  -> IF dirty THEN "syncLock" ELSE "reset"
                 [] OTHER     -> "idle"]
    /\ mut = None /\ ttLock = None /\ toLock = None
    /\ listed = FALSE /\ ttActive = FALSE /\ toActive = FALSE
    /\ toCreated = TRUE /\ ttInited = TRUE /\ cancelled = FALSE
    /\ pend = FALSE /\ deleting = FALSE /\ done = FALSE /\ open = TRUE
    /\ tree = "loaded"

----------------------------------------------------------------------------
(***************************************************************************)
(* DefaultHandlerCallback.                                                 *)
(***************************************************************************)
Arrive(h) ==
    /\ pc[h] = "idle" /\ open
    /\ Goto(h, "lock")
    /\ UNCHANGED <<mut, ttLock, toLock, timerObj, mainVars, data>>

LockTree(h) ==
    /\ pc[h] = "lock" /\ mut = None
    /\ mut' = h /\ Goto(h, "serve")
    /\ UNCHANGED <<ttLock, toLock, timerObj, mainVars, data>>

\* A GET, or a request that is refused: no synchronization request.
Reply(h) ==
    /\ pc[h] = "serve"
    /\ Goto(h, "unlock")
    /\ UNCHANGED <<mut, ttLock, toLock, timerObj, mainVars, data>>

\* A PUT or a POST: config_xml_set changes the tree, if it has the node;
\* the client is answered and the timer is (re)started in either case.
Set(h) ==
    /\ pc[h] = "serve" /\ tree = "loaded"
    /\ dirty' \in {dirty, TRUE}
    /\ Goto(h, "stop")
    /\ UNCHANGED <<mut, ttLock, toLock, timerObj, mainVars, tree>>

UnlockTree(h) ==
    /\ pc[h] = "unlock"
    /\ mut' = None /\ Goto(h, "idle")
    /\ UNCHANGED <<ttLock, toLock, timerObj, mainVars, data>>

----------------------------------------------------------------------------
(***************************************************************************)
(* stop_timer, called by update_sync_timer and, twice, by main.            *)
(***************************************************************************)

\* pthread_cond_signal(&tt_cond) wakes the timer thread if it is waiting.
Signal(t, l) ==
    pc' = [pc EXCEPT ![t] = l,
                     ![Timer] = CASE @ = "wait"  -> "woken"
                                  [] @ = "timed" -> "signalled"
                                  [] OTHER       -> @]

\* Mutant: main calls update_sync_timer in the place of stop_timer.
AfterStop_Update(t) == IF t = Main /\ deleting THEN "undo" ELSE "start"

\* Where stop_timer returns to.
AfterStop(t) == IF t # Main THEN "start" ELSE IF deleting THEN "undo" ELSE "stop"

StopTest(t) ==
    /\ pc[t] = "stop"
    /\ Goto(t, IF ttInited THEN "stopTT" ELSE AfterStop(t))
    /\ UNCHANGED <<mut, ttLock, toLock, timerObj, mainVars, data>>

StopLockList(t) ==
    /\ pc[t] = "stopTT" /\ ttLock = None
    /\ ttLock' = t /\ Goto(t, "stopTO")
    /\ UNCHANGED <<mut, toLock, timerObj, mainVars, data>>

StopLockTimer(t) ==
    /\ pc[t] = "stopTO" /\ toCreated /\ toLock = None
    /\ toLock' = t /\ Goto(t, "stopDo")
    /\ UNCHANGED <<mut, ttLock, timerObj, mainVars, data>>

\* Main calls stop_timer a second time, from del_timer.
StopReturn(t) ==
    /\ ttLock' = None
    /\ deleting' = (deleting \/ t = Main)

\* Mutant: tt_lock is released on the other path only.
StopDeleted_KeepsList(t) ==
    /\ pc[t] = "stopTO" /\ ~toCreated
    /\ deleting' = (deleting \/ t = Main) /\ Goto(t, AfterStop(t))
    /\ UNCHANGED <<mut, ttLock, toLock, timerObj, pend, done, open, data>>

StopDeleted(t) ==
    /\ pc[t] = "stopTO" /\ ~toCreated
    /\ StopReturn(t) /\ Goto(t, AfterStop(t))
    /\ UNCHANGED <<mut, toLock, timerObj, pend, done, open, data>>

StopBody(t) ==
    /\ pc[t] = "stopDo"
    /\ toActive' = FALSE
    /\ IF ttActive THEN Signal(t, AfterStop(t)) /\ UNCHANGED listed
                   ELSE Goto(t, AfterStop(t)) /\ listed' = FALSE
    /\ toLock' = None /\ StopReturn(t)
    /\ UNCHANGED <<mut, ttActive, toCreated, ttInited, cancelled, pend, done,
                   open, data>>

----------------------------------------------------------------------------
(***************************************************************************)
(* start_timer, called by update_sync_timer.                               *)
(***************************************************************************)
StartTest(h) ==
    /\ pc[h] = "start"
    /\ Goto(h, IF ttInited THEN "startTT" ELSE "unlock")
    /\ UNCHANGED <<mut, ttLock, toLock, timerObj, mainVars, data>>

StartLockList(h) ==
    /\ pc[h] = "startTT" /\ ttLock = None
    /\ ttLock' = h /\ Goto(h, "startTO")
    /\ UNCHANGED <<mut, toLock, timerObj, mainVars, data>>

StartLockTimer(h) ==
    /\ pc[h] = "startTO" /\ toCreated /\ toLock = None
    /\ toLock' = h /\ Goto(h, "startDo")
    /\ UNCHANGED <<mut, ttLock, timerObj, mainVars, data>>

StartDeleted(h) ==
    /\ pc[h] = "startTO" /\ ~toCreated
    /\ ttLock' = None /\ Goto(h, "unlock")
    /\ UNCHANGED <<mut, toLock, timerObj, mainVars, data>>

\* Mutants: a timer that is being waited for is not put back into the list;
\* the timer thread is not told.
StartBody_NoRelist(h) ==
    /\ pc[h] = "startDo"
    /\ toActive' = TRUE /\ listed' = (listed \/ ~ttActive)
    /\ Signal(h, "unlock")
    /\ toLock' = None /\ ttLock' = None
    /\ UNCHANGED <<mut, ttActive, toCreated, ttInited, cancelled, mainVars, data>>
StartBody_NoSignal(h) ==
    /\ pc[h] = "startDo"
    /\ toActive' = TRUE /\ listed' = TRUE
    /\ Goto(h, "unlock")
    /\ toLock' = None /\ ttLock' = None
    /\ UNCHANGED <<mut, ttActive, toCreated, ttInited, cancelled, mainVars, data>>

\* The timer becomes the head of the list, and the thread is told: it either
\* waits for this very timer or for a list that is not empty.
StartBody(h) ==
    /\ pc[h] = "startDo"
    /\ toActive' = TRUE /\ listed' = TRUE
    /\ Signal(h, "unlock")
    /\ toLock' = None /\ ttLock' = None
    /\ UNCHANGED <<mut, ttActive, toCreated, ttInited, cancelled, mainVars, data>>

----------------------------------------------------------------------------
(***************************************************************************)
(* timer_thread.                                                           *)
(***************************************************************************)
LoopLock ==
    /\ pc[Timer] = "loop" /\ ttLock = None
    /\ ttLock' = Timer /\ Goto(Timer, "check")
    /\ UNCHANGED <<mut, toLock, timerObj, mainVars, data>>

\* Either wait for the list to be filled, or take its head and wait for the
\* head to expire; both waits release tt_lock.
LoopCheck ==
    /\ pc[Timer] = "check"
    /\ ttLock' = None
    /\ \/ ~listed /\ Goto(Timer, "wait") /\ UNCHANGED <<listed, ttActive>>
       \/ listed /\ listed' = FALSE /\ ttActive' = TRUE /\ Goto(Timer, "timed")
    /\ UNCHANGED <<mut, toLock, toActive, toCreated, ttInited, cancelled,
                   mainVars, data>>

\* The wait for the list returns: "Thus, we use while loop instead of if."
WaitReturn ==
    /\ pc[Timer] = "woken" /\ ttLock = None
    /\ ttLock' = Timer /\ Goto(Timer, "check")
    /\ UNCHANGED <<mut, toLock, timerObj, mainVars, data>>

Expire ==
    /\ pc[Timer] = "timed"
    /\ Goto(Timer, "timedOut")
    /\ UNCHANGED <<mut, ttLock, toLock, timerObj, mainVars, data>>

SpuriousWakeup ==
    /\ Spurious
    /\ \/ pc[Timer] = "wait"  /\ Goto(Timer, "woken")
       \/ pc[Timer] = "timed" /\ Goto(Timer, "signalled")
    /\ UNCHANGED <<mut, ttLock, toLock, timerObj, mainVars, data>>

\* The timed wait returns; only ETIMEDOUT of an active timer fires it.
TimedReturn ==
    /\ pc[Timer] \in {"signalled", "timedOut"} /\ ttLock = None
    /\ ttActive' = FALSE
    /\ \/ /\ pc[Timer] = "timedOut" /\ toActive
          /\ ttLock' = Timer /\ Goto(Timer, "fire")
       \/ /\ pc[Timer] = "signalled" \/ ~toActive
          /\ ttLock' = None /\ Goto(Timer, "loop")
    /\ UNCHANGED <<mut, toLock, listed, toActive, toCreated, ttInited,
                   cancelled, mainVars, data>>

\* to_lock is taken before tt_lock is released, then the callback runs.
Fire ==
    /\ pc[Timer] = "fire" /\ toLock = None
    /\ toLock' = Timer /\ ttLock' = None
    /\ Goto(Timer, "syncLock")
    /\ UNCHANGED <<mut, timerObj, mainVars, data>>

Release ==
    /\ pc[Timer] = "release"
    /\ toLock' = None /\ Goto(Timer, "loop")
    /\ UNCHANGED <<mut, ttLock, timerObj, mainVars, data>>

\* pthread_cancel takes effect in a condition wait, which takes tt_lock back
\* first, or in a system call of the callback; either way the thread dies
\* with the mutexes that it holds.
Cancelled ==
    /\ cancelled
    /\ \/ /\ pc[Timer] \in {"wait", "timed"} /\ ttLock = None
          /\ ttLock' = Timer
       \/ pc[Timer] \in {"sync", "reload"} /\ UNCHANGED ttLock
    /\ Goto(Timer, "dead")
    /\ UNCHANGED <<mut, toLock, timerObj, mainVars, data>>

----------------------------------------------------------------------------
(***************************************************************************)
(* sync_handler, called by the timer thread, and by main at the start      *)
(* (merged) and at the end (pend).                                         *)
(***************************************************************************)
AfterSync(t) == IF t = Timer THEN "release" ELSE IF deleting THEN "free" ELSE "reset"

\* Mutant: xcfg->mut is not waited for.
SyncLock_NoWait(t) ==
    /\ pc[t] = "syncLock"
    /\ mut' = t /\ Goto(t, "sync")
    /\ UNCHANGED <<ttLock, toLock, timerObj, mainVars, data>>

SyncLock(t) ==
    /\ pc[t] = "syncLock" /\ mut = None
    /\ mut' = t /\ Goto(t, "sync")
    /\ UNCHANGED <<ttLock, toLock, timerObj, mainVars, data>>

\* The tree is written to its file, the file to the storage, and the tree is
\* deleted.  The result of xml_storage_update is ignored.  The error exit of
\* config_xml_write_tree is for a null tree only, which xcfg->tree never is.
SyncWrite(t) ==
    /\ pc[t] = "sync" /\ tree = "loaded"
    /\ dirty' \in IF Faults THEN {FALSE, dirty} ELSE {FALSE}
    /\ tree' = "freed"
    /\ Goto(t, "reload")
    /\ UNCHANGED <<mut, ttLock, toLock, timerObj, mainVars>>

\* A writer that fails is logged, or not noticed: the old file is unlinked, the
\* new one is missing or cut, the storage keeps what it has or takes the cut
\* one, and the tree is deleted although its file cannot be read again.
SyncWriteFails(t) ==
    /\ pc[t] = "sync" /\ tree = "loaded" /\ Faults
    /\ dirty' \in {dirty, TRUE}
    /\ tree' = "dangling"
    /\ Goto(t, "reload")
    /\ UNCHANGED <<mut, ttLock, toLock, timerObj, mainVars>>

\* Mutant: the tree is read again after mut is released.
SyncReload_Late(t) ==
    /\ pc[t] = "reload" /\ tree = "freed"
    /\ mut' = None
    /\ Goto(t, AfterSync(t))
    /\ UNCHANGED <<ttLock, toLock, timerObj, mainVars, data>>

\* The tree is read again from its file.
SyncReload(t) ==
    /\ pc[t] = "reload" /\ tree = "freed"
    /\ tree' = "loaded" /\ mut' = None
    /\ Goto(t, AfterSync(t))
    /\ UNCHANGED <<ttLock, toLock, timerObj, mainVars, dirty>>

\* config_xml_init fails, which is only logged: xcfg->tree is not changed.
SyncReloadFails(t) ==
    /\ pc[t] = "reload" /\ Faults
    /\ tree' = "dangling" /\ mut' = None
    /\ Goto(t, AfterSync(t))
    /\ UNCHANGED <<ttLock, toLock, timerObj, mainVars, dirty>>

----------------------------------------------------------------------------
(***************************************************************************)
(* main, from the start of the HTTP server on.                             *)
(***************************************************************************)
MainLoop ==
    /\ pc[Main] = "reset"
    /\ done' = FALSE /\ Goto(Main, "run")
    /\ UNCHANGED <<mut, ttLock, toLock, timerObj, pend, deleting, open, data>>

\* xcfg_trap: SIGTERM, SIGINT or SIGQUIT.
Trap ==
    /\ Signals /\ pc[Main] # "exit" /\ ~done
    /\ done' = TRUE
    /\ UNCHANGED <<pc, mut, ttLock, toLock, timerObj, pend, deleting, open, data>>

MainWakes ==
    /\ pc[Main] = "run" /\ done
    /\ Goto(Main, "pending")
    /\ UNCHANGED <<mut, ttLock, toLock, timerObj, mainVars, data>>

\* pending_timer looks at the list.
PendingTimer ==
    /\ pc[Main] = "pending" /\ ttLock = None
    /\ pend' = listed
    /\ Goto(Main, "stop")
    /\ UNCHANGED <<mut, ttLock, toLock, timerObj, deleting, done, open, data>>

\* The end of del_timer.
DelTimer ==
    /\ pc[Main] = "undo"
    /\ toCreated' = FALSE /\ Goto(Main, "cancel")
    /\ UNCHANGED <<mut, ttLock, toLock, listed, ttActive, toActive, ttInited,
                   cancelled, mainVars, data>>

\* timer_module_deinit.
CancelTimer ==
    /\ pc[Main] = "cancel"
    /\ cancelled' = TRUE /\ Goto(Main, "join")
    /\ UNCHANGED <<mut, ttLock, toLock, listed, ttActive, toActive, toCreated,
                   ttInited, mainVars, data>>

JoinTimer ==
    /\ pc[Main] = "join" /\ pc[Timer] = "dead"
    /\ ttInited' = FALSE /\ Goto(Main, "stopHttp")
    /\ UNCHANGED <<mut, ttLock, toLock, listed, ttActive, toActive, toCreated,
                   cancelled, mainVars, data>>

\* MHD_stop_daemon: no new request, and the connection threads are joined.
StopHttp ==
    /\ pc[Main] = "stopHttp"
    /\ open' = FALSE /\ Goto(Main, "joinHttp")
    /\ UNCHANGED <<mut, ttLock, toLock, timerObj, pend, deleting, done, data>>

JoinHttp ==
    /\ pc[Main] = "joinHttp"
    /\ \A h \in Handlers : pc[h] = "idle"
    /\ Goto(Main, IF pend THEN "syncLock" ELSE "free")
    /\ UNCHANGED <<mut, ttLock, toLock, timerObj, mainVars, data>>

\* config_xml_exit, and the process ends.
FreeTree ==
    /\ pc[Main] = "free" /\ tree = "loaded"
    /\ tree' = "freed" /\ Goto(Main, "exit")
    /\ UNCHANGED <<mut, ttLock, toLock, timerObj, mainVars, dirty>>

----------------------------------------------------------------------------
\* A request is served from, sync_handler writes, or main frees a tree that is
\* freed already.
UseFreed(t) ==
    /\ pc[t] \in {"serve", "sync", "free"} /\ tree # "loaded"
    /\ tree' = "undefined"
    /\ UNCHANGED <<pc, mut, ttLock, toLock, timerObj, mainVars, dirty>>

Defined == tree # "undefined"

StopTimer(t)  == \/ StopTest(t) \/ StopLockList(t) \/ StopLockTimer(t)
                 \/ StopDeleted(t) \/ StopBody(t)
StartTimer(h) == \/ StartTest(h) \/ StartLockList(h) \/ StartLockTimer(h)
                 \/ StartDeleted(h) \/ StartBody(h)
SyncHandler(t) == \/ SyncLock(t) \/ SyncWrite(t) \/ SyncWriteFails(t)
                  \/ SyncReload(t) \/ SyncReloadFails(t)

HandlerStep(h) ==
    /\ Defined
    /\ \/ LockTree(h) \/ Reply(h) \/ Set(h) \/ UnlockTree(h) \/ UseFreed(h)
       \/ StopTimer(h) \/ StartTimer(h)
TimerStep ==
    /\ Defined
    /\ \/ LoopLock \/ LoopCheck \/ WaitReturn \/ Expire \/ TimedReturn
       \/ Fire \/ Release \/ Cancelled \/ SyncHandler(Timer) \/ UseFreed(Timer)
MainStep ==
    /\ Defined
    /\ \/ MainLoop \/ MainWakes \/ PendingTimer \/ DelTimer \/ CancelTimer
       \/ JoinTimer \/ StopHttp \/ JoinHttp \/ FreeTree
       \/ StopTimer(Main) \/ SyncHandler(Main) \/ UseFreed(Main)
Outside == Defined /\ (SpuriousWakeup \/ Trap \/ \E h \in Handlers : Arrive(h))

Next == \/ \E h \in Handlers : HandlerStep(h)
        \/ TimerStep \/ MainStep \/ Outside

\* Every thread goes on with what it has begun, time passes, and a thread
\* that waits for a mutex gets it if it is released again and again.  No
\* client has to send a request, and no signal has to come.
Fairness == /\ SF_vars(TimerStep) /\ SF_vars(MainStep)
            /\ \A h \in Handlers : SF_vars(HandlerStep(h))

Spec == Init /\ [][Next]_vars /\ Fairness

----------------------------------------------------------------------------
(***************************************************************************)
(* Properties.                                                             *)
(***************************************************************************)

\* Type correctness of the threads, the locks and the daemon's state.
TypeOK ==
    /\ pc \in [Threads -> HandlerPcs \cup TimerPcs \cup MainPcs]
    /\ \A h \in Handlers : pc[h] \in HandlerPcs
    /\ pc[Timer] \in TimerPcs /\ pc[Main] \in MainPcs
    /\ mut \in Threads \cup {None}
    /\ ttLock \in Threads \cup {None} /\ toLock \in Threads \cup {None}
    /\ listed \in BOOLEAN /\ ttActive \in BOOLEAN /\ toActive \in BOOLEAN
    /\ toCreated \in BOOLEAN /\ ttInited \in BOOLEAN /\ cancelled \in BOOLEAN
    /\ pend \in BOOLEAN /\ deleting \in BOOLEAN /\ done \in BOOLEAN
    /\ open \in BOOLEAN /\ tree \in Trees /\ dirty \in BOOLEAN

\* A handler that has accepted a change and will start the timer.
Restarting(h) == pc[h] \in {"stop", "stopTT", "stopTO", "stopDo",
                            "start", "startTT", "startTO", "startDo"}

\* A thread that will call xml_storage_update, or start the timer first.
Armed == \/ toActive /\ (listed \/ pc[Timer] \in {"timed", "timedOut"})
         \/ pc[Timer] \in {"fire", "syncLock", "sync"}
         \/ pc[Main] \in {"syncLock", "sync"}
         \/ \E h \in Handlers : Restarting(h)

\* Main has not begun to shut down.
Serving == pc[Main] \in {"syncLock", "sync", "reload", "reset", "run"} /\ ~deleting

\* No change is forgotten while the daemon serves: whenever the tree has a
\* change that is not stored, the timer is listed or armed, its callback is on
\* its way, or a handler is about to start it, in every interleaving of
\* stop_timer, start_timer and the two condition waits of timer_thread.
PendingIsArmed == dirty /\ Serving => Armed

\* The threads that read, change or replace the XML tree.
Users == {t \in Threads : pc[t] \in {"serve", "sync", "reload"}}

\* One thread at a time uses the XML tree, none finds it deleted by a
\* sync_handler that is still to read it again, and main deletes it for good
\* only after the last handler is gone.  A tree that is not there is used only
\* after a write or a reload has failed.
TreeExclusive ==
    /\ \A s, t \in Users : s = t
    /\ \A t \in Threads : pc[t] \in {"serve", "sync"} =>
          tree = "loaded" \/ (Faults /\ tree # "freed")
    /\ pc[Main] \in {"free", "exit"} => Users = {}

\* config_xml_exit at the end of main frees a tree that is there, with two
\* exceptions: a write or a reload of sync_handler has failed, which leaves the
\* freed tree in xcfg->tree, or the timer thread was cancelled inside
\* sync_handler, after it had deleted the tree and before it read it again, and
\* died with mut.
FreedOnce ==
    pc[Main] = "free" /\ tree = "freed" => pc[Timer] = "dead" /\ mut = Timer /\ ~pend

\* The callback of the timer holds to_lock and waits for mut, and the handler
\* that holds mut waits for to_lock, or for tt_lock while main, which holds it,
\* waits for to_lock.
Deadlocked ==
    /\ pc[Timer] = "syncLock" /\ toLock = Timer
    /\ \E h \in Handlers :
          /\ mut = h
          /\ \/ pc[h] \in {"stopTO", "startTO"}
             \/ pc[h] \in {"stopTT", "startTT"} /\ pc[Main] = "stopTO"

\* A PUT or a POST is about to stop and restart the timer.
Rewinds == \E h \in Handlers : pc[h] = "stop"

\* "synchronization request - persistent storage update": a change that was
\* accepted is stored in the end, unless the daemon is shut down or a deadlock
\* of mut and to_lock stops it.  Every PUT and POST rewinds the timer, so it is
\* promised only where they do not come for ever: without an end of them the
\* timer need never expire.
EventuallyStored == (dirty ~> (~dirty \/ ~Serving \/ Deadlocked)) \/ []<>Rewinds

\* The timer thread was cancelled with a mutex that a thread waits for.
Orphaned ==
    /\ pc[Timer] = "dead"
    /\ \/ ttLock = Timer /\ \E h \in Handlers : pc[h] \in {"stopTT", "startTT"}
       \/ toLock = Timer /\ \E h \in Handlers : pc[h] \in {"stopTO", "startTO"}
       \/ mut = Timer /\ (pc[Main] = "syncLock" \/ \E h \in Handlers : pc[h] = "lock")

\* A signal ends the daemon, through the stop of the timer, the cancellation of
\* its thread and MHD_stop_daemon, in spite of requests that come and are served
\* all the time.  It fails to in four cases only: main forgets the signal
\* (done = 0), a deadlock of mut, tt_lock and to_lock has come first, a thread
\* waits for a mutex that the cancelled timer thread has left locked, or a tree
\* that is not there was used.
SignalEnds == done ~> (~done \/ pc[Main] = "exit" \/ Deadlocked \/ Orphaned \/ ~Defined)

\* "storage sync": a daemon that shuts down cleanly has stored every change.
StoredAtExit == pc[Main] = "exit" => ~dirty
============================================================================
