------------------------------ MODULE SosThread ------------------------------
(***************************************************************************)
(* The threads of sos (libs/sos/source/sos/src/thread.c).  A thread is a   *)
(* control block in a list of resources, a runner that executes the user's *)
(* function, and a monitor that joins the runner, restarts it if it is     *)
(* restartable, and otherwise unlists and frees the block.  Callers create,*)
(* delete, restart and signal threads by their resource id.                *)
(*                                                                         *)
(* The runner behaves like the one of dbg.c: it waits for the START signal *)
(* and then works until it returns or is cancelled.  An id is the lowest   *)
(* free one (res.c) and a block's address is used once.                    *)
(*                                                                         *)
(* The list (list.c) is changed under its mutex, but searched without it.  *)
(* A search is one step here; where it overlaps a deletion by another      *)
(* thread it may also follow a node that was freed.  What a freed node or  *)
(* block or a joined pthread is used for has no defined outcome: the model *)
(* records it in `undefined' and stops.  Reads that only feed the log, the *)
(* names, the restart counter and the upcall's effect are left out.        *)
(***************************************************************************)
EXTENDS Naturals, FiniteSetsExt

CONSTANTS
    Clients,  \* threads that call the functions of thread.c
    Calls,    \* the functions each of them calls
    Blocks,   \* addresses os_mem_alloc may return; bounds what is created
    MAX_RES,  \* size of the resource table of the list
    NoBlock   \* an id that is not in use, a client without a block

Ids == 1..MAX_RES

ASSUME ThreadConstants ==
    /\ MAX_RES \in Nat
    /\ Calls \in [Clients -> SUBSET {"create", "stop", "restart", "flag", "send"}]
    /\ NoBlock \notin Blocks

VARIABLES
    pc,           \* where each client is
    thr,          \* the block its call works on
    arg,          \* the id os_thread_restart was given
    list,         \* thread_list: the block of every id
    mem,          \* "dropped": freed by a failed os_thread_create
    id,           \* the fields of the blocks
    restartable,
    sig,
    run,          \* what became of the pthread runthr names
    cancelled,    \* pthread_cancel was called for it
    mon,          \* where the monitor is; "reaped": it was joined
    undefined     \* freed memory, a block or a node, or a joined pthread was used

client == <<pc, thr, arg>>
block  == <<list, mem, id>>
fields == <<restartable, sig>>
runner == <<run, cancelled>>
vars   == <<client, block, fields, runner, mon, undefined>>

Signals == {"none", "START", "USER"}
Running == {"spawned", "starting", "working"}

Goto(c, l) == pc' = [pc EXCEPT ![c] = l] /\ UNCHANGED <<thr, arg>>

\* A call returns and its variables are gone.
Return(c) ==
    /\ pc' = [pc EXCEPT ![c] = "idle"]
    /\ thr' = [thr EXCEPT ![c] = NoBlock]
    /\ arg' = [arg EXCEPT ![c] = 0]

Init ==
    /\ pc = [c \in Clients |-> "idle"]
    /\ thr = [c \in Clients |-> NoBlock]
    /\ arg = [c \in Clients |-> 0]
    /\ list = [i \in Ids |-> NoBlock]
    /\ mem = [b \in Blocks |-> "unused"]
    /\ id = [b \in Blocks |-> 0]
    /\ restartable = [b \in Blocks |-> FALSE]
    /\ sig = [b \in Blocks |-> "none"]
    /\ run = [b \in Blocks |-> "none"]
    /\ cancelled = [b \in Blocks |-> FALSE]
    /\ mon = [b \in Blocks |-> "none"]
    /\ undefined = FALSE

----------------------------------------------------------------------------
(***************************************************************************)
(* os_thread_create.  With no free id it frees the block again and fails.  *)
(***************************************************************************)
FreeIds == {i \in Ids : list[i] = NoBlock}

\* The address the allocator returns; which one it is makes no difference.
NextBlock ==
    LET unused == {b \in Blocks : mem[b] = "unused"} IN
    IF unused = {} THEN {} ELSE {CHOOSE b \in unused : TRUE}

Create(c) ==
    /\ pc[c] = "idle" /\ "create" \in Calls[c] /\ FreeIds # {}
    /\ \E r \in BOOLEAN, b \in NextBlock :
         /\ mem' = [mem EXCEPT ![b] = "used"]
         /\ id' = [id EXCEPT ![b] = Min(FreeIds)]
         /\ list' = [list EXCEPT ![Min(FreeIds)] = b]
         /\ restartable' = [restartable EXCEPT ![b] = r]
         /\ thr' = [thr EXCEPT ![c] = b]
    /\ pc' = [pc EXCEPT ![c] = "spawn"]
    /\ UNCHANGED <<arg, sig, runner, mon>>

Spawn(c) ==
    /\ pc[c] = "spawn"
    /\ run' = [run EXCEPT ![thr[c]] = "spawned"]
    /\ Goto(c, "monitor")
    /\ UNCHANGED <<block, fields, cancelled, mon>>

\* No runner: the block is freed and stays in the list.
SpawnFails(c) ==
    /\ pc[c] = "spawn"
    /\ mem' = [mem EXCEPT ![thr[c]] = "dropped"]
    /\ Return(c)
    /\ UNCHANGED <<list, id, fields, runner, mon>>

SpawnMonitor(c) ==
    /\ pc[c] = "monitor"
    /\ mon' = [mon EXCEPT ![thr[c]] = "signal"]
    /\ Goto(c, "return")
    /\ UNCHANGED <<block, fields, runner>>

\* No monitor: the block is freed, and its runner runs on.
MonitorFails(c) ==
    /\ pc[c] = "monitor"
    /\ mem' = [mem EXCEPT ![thr[c]] = "dropped"]
    /\ Goto(c, "unlist")
    /\ UNCHANGED <<list, id, fields, runner, mon>>

\* Only then is it unlisted, by the id that the call still knows.
CreateUnlists(c) ==
    /\ pc[c] = "unlist"
    /\ list' = [list EXCEPT ![id[thr[c]]] = NoBlock]
    /\ Return(c)
    /\ UNCHANGED <<mem, id, fields, runner, mon>>

\* The id that os_thread_create returns is read from the block.
CreateReturns(c) ==
    /\ pc[c] = "return" /\ mem[thr[c]] = "used"
    /\ Return(c)
    /\ UNCHANGED <<block, fields, runner, mon>>

----------------------------------------------------------------------------
(***************************************************************************)
(* os_thread_delete, os_thread_restart, os_thread_restartable and          *)
(* os_thread_signal_send look for the block of an id (os_list_find), and   *)
(* use it later.                                                           *)
(***************************************************************************)
Find(c) ==
    /\ pc[c] = "idle"
    /\ \E i \in Ids, l \in Calls[c] \ {"create"} :
         /\ list[i] # NoBlock
         /\ pc' = [pc EXCEPT ![c] = l]
         /\ thr' = [thr EXCEPT ![c] = list[i]]
         /\ arg' = [arg EXCEPT ![c] = IF l = "restart" THEN i ELSE 0]
    /\ UNCHANGED <<block, fields, runner, mon>>

\* pthread_cancel.
Stop(c) ==
    /\ pc[c] = "stop" /\ mem[thr[c]] = "used" /\ run[thr[c]] \in Running \cup {"dead"}
    /\ cancelled' = [cancelled EXCEPT ![thr[c]] = TRUE]
    /\ Goto(c, "look")
    /\ UNCHANGED <<block, fields, run, mon>>

\* Only the delete of a thread that is not restartable waits for the monitor.
Look(c) ==
    /\ pc[c] = "look" /\ mem[thr[c]] = "used"
    /\ IF restartable[thr[c]] THEN Return(c)
                              ELSE mon[thr[c]] # "none" /\ Goto(c, "join")
    /\ UNCHANGED <<block, fields, runner, mon>>

Join(c) ==
    /\ pc[c] = "join" /\ mon[thr[c]] = "dead"
    /\ mon' = [mon EXCEPT ![thr[c]] = "reaped"]
    /\ Return(c)
    /\ UNCHANGED <<block, fields, runner>>

\* os_thread_restart marks the block and deletes by the id, which may be
\* another thread's by now.
Restart(c) ==
    /\ pc[c] = "restart" /\ mem[thr[c]] = "used"
    /\ restartable' = [restartable EXCEPT ![thr[c]] = TRUE]
    /\ Goto(c, "again")
    /\ UNCHANGED <<block, sig, runner, mon>>

\* Mutant: the id is expected to be in the list still.
RestartDeletes_NoTest(c) ==
    /\ pc[c] = "again"
    /\ pc' = [pc EXCEPT ![c] = "stop"]
    /\ thr' = [thr EXCEPT ![c] = list[arg[c]]]
    /\ arg' = [arg EXCEPT ![c] = 0]
    /\ UNCHANGED <<block, fields, runner, mon>>

RestartDeletes(c) ==
    /\ pc[c] = "again"
    /\ IF list[arg[c]] = NoBlock
       THEN Return(c)
       ELSE /\ pc' = [pc EXCEPT ![c] = "stop"]
            /\ thr' = [thr EXCEPT ![c] = list[arg[c]]]
            /\ arg' = [arg EXCEPT ![c] = 0]
    /\ UNCHANGED <<block, fields, runner, mon>>

SetRestartable(c) ==
    /\ pc[c] = "flag" /\ mem[thr[c]] = "used"
    /\ \E r \in BOOLEAN : restartable' = [restartable EXCEPT ![thr[c]] = r]
    /\ Return(c)
    /\ UNCHANGED <<block, sig, runner, mon>>

\* A signal replaces one that was not received yet.
SendSignal(c) ==
    /\ pc[c] = "send" /\ mem[thr[c]] = "used"
    /\ sig' = [sig EXCEPT ![thr[c]] = "USER"]
    /\ Return(c)
    /\ UNCHANGED <<block, restartable, runner, mon>>

----------------------------------------------------------------------------
(***************************************************************************)
(* The runner: os_thread_wrapper, and a function like dbg_thr.             *)
(***************************************************************************)
RunFunction(b) ==
    /\ run[b] = "spawned" /\ mem[b] = "used"
    /\ run' = [run EXCEPT ![b] = "starting"]
    /\ UNCHANGED <<client, block, fields, cancelled, mon>>

\* os_thread_signal_recv in blocking mode: anything but START is an error.
SignalRecv(b) ==
    /\ run[b] = "starting" /\ mem[b] = "used" /\ sig[b] # "none"
    /\ sig' = [sig EXCEPT ![b] = "none"]
    /\ run' = [run EXCEPT ![b] = IF sig[b] = "START" THEN "working" ELSE "dead"]
    /\ UNCHANGED <<client, block, restartable, cancelled, mon>>

\* A runner that is not listed finds no signal and returns.
SignalRecvFails(b) ==
    /\ run[b] = "starting" /\ \A i \in Ids : list[i] # b
    /\ run' = [run EXCEPT ![b] = "dead"]
    /\ UNCHANGED <<client, block, fields, cancelled, mon>>

Returns(b) ==
    /\ run[b] = "working"
    /\ run' = [run EXCEPT ![b] = "dead"]
    /\ UNCHANGED <<client, block, fields, cancelled, mon>>

Cancelled(b) ==
    /\ run[b] \in Running /\ cancelled[b]
    /\ run' = [run EXCEPT ![b] = "dead"]
    /\ UNCHANGED <<client, block, fields, cancelled, mon>>

----------------------------------------------------------------------------
(***************************************************************************)
(* os_monitor_thread.                                                      *)
(***************************************************************************)
MonSignal(b) ==
    /\ mon[b] = "signal"
    /\ sig' = [sig EXCEPT ![list[id[b]]] = "START"]
    /\ mon' = [mon EXCEPT ![b] = "join"]
    /\ UNCHANGED <<client, block, restartable, runner>>

\* Mutant: the monitor does not wait for the runner.
MonJoin_NoWait(b) ==
    /\ mon[b] = "join"
    /\ mon' = [mon EXCEPT ![b] = "test"]
    /\ UNCHANGED <<client, block, fields, runner>>

\* The upcall dfunc is part of this step.
MonJoin(b) ==
    /\ mon[b] = "join" /\ run[b] = "dead"
    /\ run' = [run EXCEPT ![b] = "joined"]
    /\ cancelled' = [cancelled EXCEPT ![b] = FALSE]
    /\ mon' = [mon EXCEPT ![b] = "test"]
    /\ UNCHANGED <<client, block, fields>>

\* Mutant: the monitor restarts every thread.
MonTest_Always(b) ==
    /\ mon[b] = "test"
    /\ mon' = [mon EXCEPT ![b] = "respawn"]
    /\ UNCHANGED <<client, block, fields, runner>>

MonTest(b) ==
    /\ mon[b] = "test"
    /\ mon' = [mon EXCEPT ![b] = IF restartable[b] THEN "respawn" ELSE "unlist"]
    /\ UNCHANGED <<client, block, fields, runner>>

\* Mutant: only the first runner is told to start.
MonRespawn_NoSignal(b) ==
    /\ mon[b] = "respawn"
    /\ run' = [run EXCEPT ![b] = "spawned"]
    /\ mon' = [mon EXCEPT ![b] = "join"]
    /\ UNCHANGED <<client, block, fields, cancelled>>

MonRespawn(b) ==
    /\ mon[b] = "respawn"
    /\ run' = [run EXCEPT ![b] = "spawned"]
    /\ mon' = [mon EXCEPT ![b] = "signal"]
    /\ UNCHANGED <<client, block, fields, cancelled>>

\* The failure is logged and the monitor goes on with the joined runner.
MonRespawnFails(b) ==
    /\ mon[b] = "respawn"
    /\ mon' = [mon EXCEPT ![b] = "signal"]
    /\ UNCHANGED <<client, block, fields, runner>>

MonUnlist(b) ==
    /\ mon[b] = "unlist"
    /\ list' = [list EXCEPT ![id[b]] = NoBlock]
    /\ mon' = [mon EXCEPT ![b] = "free"]
    /\ UNCHANGED <<client, mem, id, fields, runner>>

MonFree(b) ==
    /\ mon[b] = "free"
    /\ mem' = [mem EXCEPT ![b] = "freed"]
    /\ mon' = [mon EXCEPT ![b] = "dead"]
    /\ UNCHANGED <<client, list, id, fields, runner>>

----------------------------------------------------------------------------
(***************************************************************************)
(* What has no defined outcome.                                            *)
(***************************************************************************)
\* A caller uses a block that is freed.
ClientDangles(c) ==
    /\ pc[c] \in {"return", "stop", "look", "restart", "flag", "send"}
    /\ mem[thr[c]] # "used"

\* A caller cancels a pthread that does not exist, or joins one twice.
NoSuchThread(c) ==
    \/ pc[c] = "stop" /\ run[thr[c]] \in {"none", "joined"}
    \/ pc[c] = "look" /\ mon[thr[c]] = "none" /\ ~restartable[thr[c]]
    \/ pc[c] = "join" /\ mon[thr[c]] = "reaped"

\* A runner without a monitor uses its freed block, or os_thread_self comes
\* across the entry that a failed os_thread_create left in the list.
RunnerDangles(b) ==
    /\ run[b] \in {"spawned", "starting"}
    /\ \/ mem[b] # "used"
       \/ \E i \in Ids : list[i] # NoBlock /\ mem[list[i]] # "used"

MonitorDangles(b) == mon[b] = "join" /\ run[b] = "joined"

\* Who may be in a search of the list: callers that look for an id, runners
\* that look for themselves and for their id, monitors that send by id, and
\* os_list_item_delete before it takes the mutex.
Searchers ==
    LET Looks(c) == \/ pc[c] = "idle" /\ Calls[c] \ {"create"} # {}
                    \/ pc[c] \in {"again", "unlist"}
    IN  {<<"caller", c>> : c \in {c \in Clients : Looks(c)}}
        \cup {<<"runner", b>> : b \in {b \in Blocks : run[b] = "starting"}}
        \cup {<<"monitor", b>> : b \in {b \in Blocks : mon[b] \in {"signal", "unlist"}}}

\* Who may be about to free a node.
Deleters == {<<"caller", c>> : c \in {c \in Clients : pc[c] = "unlist"}}
            \cup {<<"monitor", b>> : b \in {b \in Blocks : mon[b] = "unlist"}}

\* The node that a search has reached is freed by another thread.
SearchDangles == \E s \in Searchers, d \in Deleters : s # d

Undefined ==
    /\ \/ \E c \in Clients : ClientDangles(c) \/ NoSuchThread(c)
       \/ \E b \in Blocks : RunnerDangles(b) \/ MonitorDangles(b)
       \/ SearchDangles
    /\ undefined' = TRUE
    /\ UNCHANGED <<client, block, fields, runner, mon>>

----------------------------------------------------------------------------
Client(c) ==
    \/ Create(c) \/ Spawn(c) \/ SpawnFails(c) \/ SpawnMonitor(c)
    \/ MonitorFails(c) \/ CreateUnlists(c) \/ CreateReturns(c)
    \/ Find(c) \/ Stop(c) \/ Look(c) \/ Join(c)
    \/ Restart(c) \/ RestartDeletes(c) \/ SetRestartable(c) \/ SendSignal(c)

Runner(b) ==
    \/ RunFunction(b) \/ SignalRecv(b) \/ SignalRecvFails(b)
    \/ Returns(b) \/ Cancelled(b)

Monitor(b) ==
    \/ MonSignal(b) \/ MonJoin(b) \/ MonTest(b) \/ MonRespawn(b)
    \/ MonRespawnFails(b) \/ MonUnlist(b) \/ MonFree(b)

Defined(A) == ~undefined /\ A /\ UNCHANGED undefined

Next ==
    \/ \E c \in Clients : Defined(Client(c))
    \/ \E b \in Blocks : Defined(Runner(b)) \/ Defined(Monitor(b))
    \/ ~undefined /\ Undefined

(***************************************************************************)
(* Callers that are inside a function and monitors run on; a runner        *)
(* receives its signal and, when cancelled, reaches a cancellation point.  *)
(* Nothing makes a caller call or a working runner return.                 *)
(***************************************************************************)
Fairness ==
    /\ \A c \in Clients : WF_vars(Defined(pc[c] # "idle" /\ Client(c)))
    /\ \A b \in Blocks :
         /\ WF_vars(Defined(RunFunction(b))) /\ WF_vars(Defined(SignalRecv(b)))
         /\ WF_vars(Defined(Cancelled(b))) /\ WF_vars(Defined(Monitor(b)))

Spec == Init /\ [][Next]_vars /\ Fairness

----------------------------------------------------------------------------
(***************************************************************************)
(* The types of the variables; a call that goes on has found a block.      *)
(***************************************************************************)
TypeOK ==
    /\ pc \in [Clients -> {"idle", "spawn", "monitor", "unlist", "return", "stop",
                           "look", "join", "restart", "again", "flag", "send"}]
    /\ thr \in [Clients -> Blocks \cup {NoBlock}]
    /\ arg \in [Clients -> Ids \cup {0}]
    /\ list \in [Ids -> Blocks \cup {NoBlock}]
    /\ mem \in [Blocks -> {"unused", "used", "freed", "dropped"}]
    /\ id \in [Blocks -> Ids \cup {0}]
    /\ restartable \in [Blocks -> BOOLEAN]
    /\ sig \in [Blocks -> Signals]
    /\ run \in [Blocks -> Running \cup {"none", "dead", "joined"}]
    /\ cancelled \in [Blocks -> BOOLEAN]
    /\ mon \in [Blocks -> {"none", "signal", "join", "test", "respawn",
                           "unlist", "free", "dead", "reaped"}]
    /\ undefined \in BOOLEAN
    /\ \A c \in Clients : pc[c] # "idle" => thr[c] # NoBlock

(***************************************************************************)
(* The monitor frees a block only when nothing of the thread is left: its  *)
(* runner has been joined, its id no longer leads to it, and no two ids    *)
(* ever lead to one block (os_monitor_thread and the order of its steps).  *)
(***************************************************************************)
FreedUnused ==
    /\ \A b \in Blocks : mem[b] = "freed" =>
         run[b] = "joined" /\ (\A i \in Ids : list[i] # b)
    /\ \A i \in Ids : list[i] # NoBlock => id[list[i]] = i

(***************************************************************************)
(* A thread has one runner at a time: os_thread_create and the restart in  *)
(* os_monitor_thread start one only where none has been started or the     *)
(* one before was joined, so that runthr never loses a runner that goes on *)
(* with the same function and block.                                       *)
(***************************************************************************)
OneRunner ==
    [][\A b \in Blocks : run'[b] = "spawned" /\ run[b] # "spawned"
                            => run[b] \in {"none", "joined"}]_vars

(***************************************************************************)
(* Every runner, a restarted one too, gets past its wait for a signal      *)
(* (os_thread_signal_send in the loop of os_monitor_thread), unless freed  *)
(* memory was used or its creation failed.                                 *)
(***************************************************************************)
StartReceived ==
    \A b \in Blocks :
        (run[b] = "starting") ~> (run[b] # "starting" \/ undefined \/ mem[b] # "used")

(***************************************************************************)
(* os_thread_delete returns: when it waits for a monitor whose runner has  *)
(* been stopped, the wait ends, unless the thread becomes restartable in   *)
(* the meantime, freed memory is used or another delete joined it first.   *)
(***************************************************************************)
Stopped(b) == run[b] = "dead" \/ cancelled[b]

DeleteEnds ==
    \A c \in Clients :
        (pc[c] = "join" /\ Stopped(thr[c]))
            ~> \/ pc[c] # "join" \/ undefined
               \/ restartable[thr[c]] \/ mon[thr[c]] = "reaped"
=============================================================================
