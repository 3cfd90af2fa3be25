-------------------------- MODULE SosThreadProofs --------------------------
(***************************************************************************)
(* Proofs about SosThread, for any number of callers, blocks and ids: type *)
(* correctness, FreedUnused, OneRunner, and that a monitor has a block of  *)
(* its own until it has unlisted it.  As in SosThread, nothing is said     *)
(* about what follows a use of freed memory, which a search of the list    *)
(* beside a deletion may be.                                               *)
(***************************************************************************)
EXTENDS SosThread, WellFoundedInduction, TLAPS

----------------------------------------------------------------------------
(***************************************************************************)
(* The operators of os_thread_create.                                      *)
(***************************************************************************)

\* A set of numbers that is not empty has a lowest element: the one that
\* res.c looks for.
LEMMA LowestId ==
    ASSUME NEW S \in SUBSET Nat, S # {}
    PROVE  Min(S) \in S /\ \A y \in S : Min(S) <= y
<1> DEFINE R == {p \in Nat \X Nat : p[1] < p[2]}
<1>1. IsWellFoundedOn(R, Nat)
  <2>1. R = OpToRel(<, Nat)
    BY DEF OpToRel
  <2> QED
    BY <2>1, NatLessThanWellFounded
<1> HIDE DEF R
<1>2. PICK x \in S : \A y \in S : <<y, x>> \notin R
  BY <1>1, WFMin
<1>3. ASSUME NEW y \in S
      PROVE  x <= y
  <2>1. x \in Nat /\ y \in Nat /\ <<y, x>> \notin R
    BY <1>2
  <2>2. <<y, x>>[1] = y /\ <<y, x>>[2] = x /\ <<y, x>> \in Nat \X Nat
    BY <2>1
  <2>3. ~(y < x)
    BY <2>1, <2>2 DEF R
  <2> QED
    BY <2>1, <2>3
<1> QED
  BY <1>3 DEF Min

\* The id of a new thread is one that was free.
LEMMA FreshId ==
    ASSUME FreeIds # {}
    PROVE  Min(FreeIds) \in Ids /\ list[Min(FreeIds)] = NoBlock
<1>1. Min(FreeIds) \in FreeIds
  BY LowestId, ThreadConstants DEF FreeIds, Ids
<1> QED
  BY <1>1 DEF FreeIds

\* The address os_mem_alloc returns has not been returned before.
LEMMA NextBlockUnused ==
    ASSUME NEW b \in NextBlock
    PROVE  b \in Blocks /\ mem[b] = "unused"
BY DEF NextBlock

----------------------------------------------------------------------------
(***************************************************************************)
(* The inductive invariant.  FreedUnused alone is not inductive: that the  *)
(* runner is joined and the id unlisted when the block is freed depends on *)
(* where the monitor is, and that nobody lists the block or starts a       *)
(* runner again on who has the block before the monitor does.              *)
(***************************************************************************)
Creating == {"spawn", "monitor", "unlist"}
Attended == {"signal", "join", "test", "respawn", "unlist"}
Over     == {"free", "dead", "reaped"}

\* os_thread_restart has been given an id.
Given == \A c \in Clients : pc[c] \in {"restart", "again"} => arg[c] \in Ids

\* An id leads to the block that has this id.
Indexed == \A i \in Ids : list[i] # NoBlock => id[list[i]] = i

\* Nobody knows a block before os_mem_alloc returns it.
Fresh == \A b \in Blocks : mem[b] = "unused" =>
            run[b] = "none" /\ mon[b] = "none" /\ \A i \in Ids : list[i] # b

\* A call that creates a thread has a listed block that no monitor and no
\* other such call works on, also when it has failed and freed the block.
Created == \A c \in Clients : pc[c] \in Creating =>
              /\ mem[thr[c]] = IF pc[c] = "unlist" THEN "dropped" ELSE "used"
              /\ mon[thr[c]] = "none"
              /\ pc[c] = "spawn" => run[thr[c]] = "none"
              /\ id[thr[c]] \in Ids /\ list[id[thr[c]]] = thr[c]
              /\ \A d \in Clients : pc[d] \in Creating /\ thr[d] = thr[c] => d = c

\* A monitor that has not unlisted its block works on one that is allocated,
\* and the signals it sends to the id reach the runner of this block.
MonitorOwns == \A b \in Blocks : mon[b] \in Attended =>
                  mem[b] = "used" /\ id[b] \in Ids /\ list[id[b]] = b

\* Afterwards no id leads to the block.
Unlisted == \A b \in Blocks : mon[b] \in Over =>
               /\ \A i \in Ids : list[i] # b
               /\ mon[b] = "free" => mem[b] = "used"

\* Past its join a monitor has a runner that was joined.
Joined == \A b \in Blocks :
             mon[b] \in {"test", "respawn", "unlist"} \cup Over => run[b] = "joined"

\* Only the monitor frees the block, and it is the last thing it does.
FreedLast == \A b \in Blocks : mem[b] = "freed" => mon[b] \in {"dead", "reaped"}

Ownership == Indexed /\ Fresh /\ Created /\ MonitorOwns /\ Unlisted
Lifetime  == Joined /\ FreedLast

IInv == TypeOK /\ Given /\ Ownership /\ Lifetime

\* Nothing is allocated, listed or running at the start.
LEMMA InitIInv == Init => IInv
<1> SUFFICES ASSUME Init
             PROVE  IInv
  OBVIOUS
<1> USE ThreadConstants DEF Init
<1>1. TypeOK /\ Given
  BY DEF TypeOK, Running, Signals, Given
<1>2. Ownership
  BY DEF Ownership, Indexed, Fresh, Created, Creating, MonitorOwns, Attended,
         Unlisted, Over
<1>3. Lifetime
  BY DEF Lifetime, Joined, Over, FreedLast
<1> QED
  BY <1>1, <1>2, <1>3 DEF IInv

----------------------------------------------------------------------------
(***************************************************************************)
(* Type correctness, and that the restart keeps its id.                    *)
(***************************************************************************)
LEMMA TypeStep ==
    ASSUME TypeOK, Given, Next
    PROVE  TypeOK' /\ Given'
<1> USE ThreadConstants DEF TypeOK, Given
<1>1. ASSUME NEW c \in Clients, Create(c), UNCHANGED undefined
      PROVE  TypeOK' /\ Given'
  BY <1>1, FreshId, NextBlockUnused DEF Create, runner
<1>2. ASSUME NEW c \in Clients, Spawn(c), UNCHANGED undefined
      PROVE  TypeOK' /\ Given'
  BY <1>2 DEF Spawn, Goto, block, fields, Running
<1>3. ASSUME NEW c \in Clients, SpawnFails(c), UNCHANGED undefined
      PROVE  TypeOK' /\ Given'
  BY <1>3 DEF SpawnFails, Return, fields, runner
<1>4. ASSUME NEW c \in Clients, SpawnMonitor(c), UNCHANGED undefined
      PROVE  TypeOK' /\ Given'
  BY <1>4 DEF SpawnMonitor, Goto, block, fields, runner
<1>5. ASSUME NEW c \in Clients, MonitorFails(c), UNCHANGED undefined
      PROVE  TypeOK' /\ Given'
  BY <1>5 DEF MonitorFails, Goto, fields, runner
<1>6. ASSUME NEW c \in Clients, CreateReturns(c), UNCHANGED undefined
      PROVE  TypeOK' /\ Given'
  BY <1>6 DEF CreateReturns, Return, block, fields, runner
<1>7. ASSUME NEW c \in Clients, Find(c), UNCHANGED undefined
      PROVE  TypeOK' /\ Given'
  BY <1>7 DEF Find, block, fields, runner
<1>8. ASSUME NEW c \in Clients, Stop(c), UNCHANGED undefined
      PROVE  TypeOK' /\ Given'
  BY <1>8 DEF Stop, Goto, block, fields, Running
<1>9. ASSUME NEW c \in Clients, Look(c), UNCHANGED undefined
      PROVE  TypeOK' /\ Given'
  BY <1>9 DEF Look, Goto, Return, block, fields, runner
<1>10. ASSUME NEW c \in Clients, Join(c), UNCHANGED undefined
      PROVE  TypeOK' /\ Given'
  BY <1>10 DEF Join, Return, block, fields, runner
<1>11. ASSUME NEW c \in Clients, Restart(c), UNCHANGED undefined
      PROVE  TypeOK' /\ Given'
  BY <1>11 DEF Restart, Goto, block, runner
<1>12. ASSUME NEW c \in Clients, RestartDeletes(c), UNCHANGED undefined
      PROVE  TypeOK' /\ Given'
  BY <1>12 DEF RestartDeletes, Return, block, fields, runner
<1>13. ASSUME NEW c \in Clients, SetRestartable(c), UNCHANGED undefined
      PROVE  TypeOK' /\ Given'
  BY <1>13 DEF SetRestartable, Return, block, runner
<1>14. ASSUME NEW c \in Clients, SendSignal(c), UNCHANGED undefined
      PROVE  TypeOK' /\ Given'
  BY <1>14 DEF SendSignal, Return, block, runner, Signals
<1>15. ASSUME NEW b \in Blocks, RunFunction(b), UNCHANGED undefined
      PROVE  TypeOK' /\ Given'
  BY <1>15 DEF RunFunction, client, block, fields, Running
<1>16. ASSUME NEW b \in Blocks, SignalRecv(b), UNCHANGED undefined
      PROVE  TypeOK' /\ Given'
  BY <1>16 DEF SignalRecv, client, block, Running, Signals
<1>17. ASSUME NEW b \in Blocks, SignalRecvFails(b), UNCHANGED undefined
      PROVE  TypeOK' /\ Given'
  BY <1>17 DEF SignalRecvFails, client, block, fields, Running
<1>18. ASSUME NEW b \in Blocks, Returns(b), UNCHANGED undefined
      PROVE  TypeOK' /\ Given'
  BY <1>18 DEF Returns, client, block, fields, Running
<1>19. ASSUME NEW b \in Blocks, Cancelled(b), UNCHANGED undefined
      PROVE  TypeOK' /\ Given'
  BY <1>19 DEF Cancelled, client, block, fields, Running
<1>20. ASSUME NEW b \in Blocks, MonSignal(b), UNCHANGED undefined
      PROVE  TypeOK' /\ Given'
  BY <1>20 DEF MonSignal, client, block, runner, Signals
<1>21. ASSUME NEW b \in Blocks, MonJoin(b), UNCHANGED undefined
      PROVE  TypeOK' /\ Given'
  BY <1>21 DEF MonJoin, client, block, fields, Running
<1>22. ASSUME NEW b \in Blocks, MonTest(b), UNCHANGED undefined
      PROVE  TypeOK' /\ Given'
  BY <1>22 DEF MonTest, client, block, fields, runner
<1>23. ASSUME NEW b \in Blocks, MonRespawn(b), UNCHANGED undefined
      PROVE  TypeOK' /\ Given'
  BY <1>23 DEF MonRespawn, client, block, fields, Running
<1>24. ASSUME NEW b \in Blocks, MonRespawnFails(b), UNCHANGED undefined
      PROVE  TypeOK' /\ Given'
  BY <1>24 DEF MonRespawnFails, client, block, fields, runner
<1>25. ASSUME NEW b \in Blocks, MonUnlist(b), UNCHANGED undefined
      PROVE  TypeOK' /\ Given'
  BY <1>25 DEF MonUnlist, client, fields, runner
<1>26. ASSUME NEW b \in Blocks, MonFree(b), UNCHANGED undefined
      PROVE  TypeOK' /\ Given'
  BY <1>26 DEF MonFree, client, fields, runner
<1>27. ASSUME Undefined
      PROVE  TypeOK' /\ Given'
  BY <1>27 DEF Undefined, client, block, fields, runner
<1>28. ASSUME NEW c \in Clients, CreateUnlists(c), UNCHANGED undefined
      PROVE  TypeOK' /\ Given'
  BY <1>28 DEF CreateUnlists, Return, fields, runner
<1> QED
  BY <1>1, <1>2, <1>3, <1>4, <1>5, <1>6, <1>7, <1>8, <1>9, <1>10, <1>11,
     <1>12, <1>13, <1>14, <1>15, <1>16, <1>17, <1>18, <1>19, <1>20, <1>21,
     <1>22, <1>23, <1>24, <1>25, <1>26, <1>27, <1>28
     DEF Next, Defined, Client, Runner, Monitor

----------------------------------------------------------------------------
(***************************************************************************)
(* Who owns a block, and how long.                                         *)
(***************************************************************************)

\* A step that moves no monitor, touches neither the list nor the memory,
\* begins no creation and starts no runner keeps the invariant.
LEMMA QuietStep ==
    ASSUME IInv, TypeOK', UNCHANGED <<block, mon>>,
           \A c \in Clients : pc'[c] \in Creating => pc[c] = pc'[c] /\ thr'[c] = thr[c],
           \A b \in Blocks : run[b] \in {"none", "joined"} => run'[b] = run[b]
    PROVE  Ownership' /\ Lifetime'
<1> USE DEF IInv, TypeOK, block, Ownership, Lifetime
<1>1. Indexed' /\ Fresh' /\ MonitorOwns' /\ Unlisted'
  BY DEF Indexed, Fresh, MonitorOwns, Unlisted
<1>2. Created'
  BY DEF Created, Creating
<1>3. Joined' /\ FreedLast'
  BY DEF Joined, FreedLast
<1> QED
  BY <1>1, <1>2, <1>3

\* The calls on a thread that exists, and the runners, are such steps.
LEMMA QuietSteps ==
    ASSUME IInv, TypeOK'
    PROVE  /\ \A c \in Clients : \/ CreateReturns(c) \/ Find(c) \/ Stop(c) \/ Look(c)
                                 \/ Restart(c) \/ RestartDeletes(c)
                                 \/ SetRestartable(c) \/ SendSignal(c)
                                 => Ownership' /\ Lifetime'
           /\ \A b \in Blocks : Runner(b) => Ownership' /\ Lifetime'
<1> USE ThreadConstants DEF IInv, TypeOK, Creating
<1> DEFINE Quiet == /\ UNCHANGED <<block, mon>>
                    /\ \A c \in Clients : pc'[c] \in Creating =>
                                          pc[c] = pc'[c] /\ thr'[c] = thr[c]
                    /\ \A b \in Blocks : run[b] \in {"none", "joined"} => run'[b] = run[b]
<1>1. ASSUME NEW c \in Clients, CreateReturns(c)
      PROVE  Quiet
  BY <1>1 DEF CreateReturns, Return, block, fields, runner
<1>2. ASSUME NEW c \in Clients, Find(c)
      PROVE  Quiet
  BY <1>2 DEF Find, block, fields, runner
<1>3. ASSUME NEW c \in Clients, Stop(c)
      PROVE  Quiet
  BY <1>3 DEF Stop, Goto, block, fields, Running
<1>4. ASSUME NEW c \in Clients, Look(c)
      PROVE  Quiet
  BY <1>4 DEF Look, Goto, Return, block, fields, runner
<1>5. ASSUME NEW c \in Clients, Restart(c)
      PROVE  Quiet
  BY <1>5 DEF Restart, Goto, block, runner
<1>6. ASSUME NEW c \in Clients, RestartDeletes(c)
      PROVE  Quiet
  BY <1>6 DEF RestartDeletes, Return, block, fields, runner
<1>7. ASSUME NEW c \in Clients, SetRestartable(c)
      PROVE  Quiet
  BY <1>7 DEF SetRestartable, Return, block, runner
<1>8. ASSUME NEW c \in Clients, SendSignal(c)
      PROVE  Quiet
  BY <1>8 DEF SendSignal, Return, block, runner
<1>9. ASSUME NEW b \in Blocks, RunFunction(b)
      PROVE  Quiet
  BY <1>9 DEF RunFunction, client, block, fields, Running
<1>10. ASSUME NEW b \in Blocks, SignalRecv(b)
      PROVE  Quiet
  BY <1>10 DEF SignalRecv, client, block, Running
<1>11. ASSUME NEW b \in Blocks, SignalRecvFails(b)
      PROVE  Quiet
  BY <1>11 DEF SignalRecvFails, client, block, fields, Running
<1>12. ASSUME NEW b \in Blocks, Returns(b)
      PROVE  Quiet
  BY <1>12 DEF Returns, client, block, fields, Running
<1>13. ASSUME NEW b \in Blocks, Cancelled(b)
      PROVE  Quiet
  BY <1>13 DEF Cancelled, client, block, fields, Running
<1>14. Quiet => Ownership' /\ Lifetime'
  BY ONLY IInv, TypeOK', QuietStep
<1> HIDE DEF Quiet
<1> QED
  BY <1>1, <1>2, <1>3, <1>4, <1>5, <1>6, <1>7, <1>8, <1>9, <1>10, <1>11, <1>12,
     <1>13, <1>14 DEF Runner

\* The steps that give a block to a call, to a monitor or back.
LEMMA OwnerStep ==
    ASSUME IInv, TypeOK'
    PROVE  /\ \A c \in Clients : \/ Create(c) \/ Spawn(c) \/ SpawnFails(c)
                                 \/ SpawnMonitor(c) \/ MonitorFails(c)
                                 \/ CreateUnlists(c) \/ Join(c)
                                 => Ownership' /\ Lifetime'
           /\ \A b \in Blocks : Monitor(b) => Ownership' /\ Lifetime'
<1> USE ThreadConstants DEF IInv, TypeOK, Ownership, Lifetime
<1>1. ASSUME NEW c \in Clients, Create(c)
      PROVE  Ownership' /\ Lifetime'
  <2> USE <1>1, FreshId, NextBlockUnused DEF Create, runner
  <2>1. Indexed' /\ Fresh'
    BY DEF Indexed, Fresh, Created, Creating
  <2>2. Created'
    BY DEF Indexed, Fresh, Created, Creating
  <2>3. MonitorOwns' /\ Unlisted'
    BY DEF Indexed, Fresh, Created, Creating, MonitorOwns, Attended, Unlisted, Over
  <2>4. Joined' /\ FreedLast'
    BY DEF Fresh, Created, Creating, Joined, Over, FreedLast
  <2> QED
    BY ONLY <2>1, <2>2, <2>3, <2>4 DEF Ownership, Lifetime
<1>2. ASSUME NEW c \in Clients, Spawn(c)
      PROVE  Ownership' /\ Lifetime'
  <2> USE <1>2 DEF Spawn, Goto, block, fields
  <2>1. Indexed' /\ Fresh'
    BY DEF Indexed, Fresh, Created, Creating
  <2>2. Created'
    BY DEF Indexed, Fresh, Created, Creating
  <2>3. MonitorOwns' /\ Unlisted'
    BY DEF Indexed, Fresh, Created, Creating, MonitorOwns, Attended, Unlisted, Over
  <2>4. Joined' /\ FreedLast'
    BY DEF Fresh, Created, Creating, Joined, Over, FreedLast
  <2> QED
    BY ONLY <2>1, <2>2, <2>3, <2>4 DEF Ownership, Lifetime
<1>3. ASSUME NEW c \in Clients, SpawnFails(c)
      PROVE  Ownership' /\ Lifetime'
  <2> USE <1>3 DEF SpawnFails, Return, fields, runner
  <2>1. Indexed' /\ Fresh'
    BY DEF Indexed, Fresh, Created, Creating
  <2>2. Created'
    BY DEF Indexed, Fresh, Created, Creating
  <2>3. MonitorOwns' /\ Unlisted'
    BY DEF Indexed, Fresh, Created, Creating, MonitorOwns, Attended, Unlisted, Over
  <2>4. Joined' /\ FreedLast'
    BY DEF Fresh, Created, Creating, Joined, Over, FreedLast
  <2> QED
    BY ONLY <2>1, <2>2, <2>3, <2>4 DEF Ownership, Lifetime
<1>4. ASSUME NEW c \in Clients, SpawnMonitor(c)
      PROVE  Ownership' /\ Lifetime'
  <2> USE <1>4 DEF SpawnMonitor, Goto, block, fields, runner
  <2>1. Indexed' /\ Fresh'
    BY DEF Indexed, Fresh, Created, Creating
  <2>2. Created'
    BY DEF Indexed, Fresh, Created, Creating
  <2>3. MonitorOwns' /\ Unlisted'
    BY DEF Indexed, Fresh, Created, Creating, MonitorOwns, Attended, Unlisted, Over
  <2>4. Joined' /\ FreedLast'
    BY DEF Fresh, Created, Creating, Joined, Over, FreedLast
  <2> QED
    BY ONLY <2>1, <2>2, <2>3, <2>4 DEF Ownership, Lifetime
<1>5. ASSUME NEW c \in Clients, MonitorFails(c)
      PROVE  Ownership' /\ Lifetime'
  <2> USE <1>5 DEF MonitorFails, Goto, fields, runner
  <2>1. Indexed' /\ Fresh'
    BY DEF Indexed, Fresh, Created, Creating
  <2>2. Created'
    BY DEF Indexed, Fresh, Created, Creating
  <2>3. MonitorOwns' /\ Unlisted'
    BY DEF Indexed, Fresh, Created, Creating, MonitorOwns, Attended, Unlisted, Over
  <2>4. Joined' /\ FreedLast'
    BY DEF Fresh, Created, Creating, Joined, Over, FreedLast
  <2> QED
    BY ONLY <2>1, <2>2, <2>3, <2>4 DEF Ownership, Lifetime
<1>6. ASSUME NEW c \in Clients, Join(c)
      PROVE  Ownership' /\ Lifetime'
  <2> USE <1>6 DEF Join, Return, block, fields, runner
  <2>1. Indexed' /\ Fresh'
    BY DEF Indexed, Fresh, Created, Creating
  <2>2. Created'
    BY DEF Indexed, Fresh, Created, Creating
  <2>3. MonitorOwns' /\ Unlisted'
    BY DEF Indexed, Fresh, Created, Creating, MonitorOwns, Attended, Unlisted, Over
  <2>4. Joined' /\ FreedLast'
    BY DEF Fresh, Created, Creating, Joined, Over, FreedLast
  <2> QED
    BY ONLY <2>1, <2>2, <2>3, <2>4 DEF Ownership, Lifetime
<1>7. ASSUME NEW b \in Blocks, MonSignal(b)
      PROVE  Ownership' /\ Lifetime'
  <2> USE <1>7 DEF MonSignal, client, block, runner
  <2>1. Indexed' /\ Fresh'
    BY DEF Indexed, Fresh, Created, Creating
  <2>2. Created'
    BY DEF Indexed, Fresh, Created, Creating
  <2>3. MonitorOwns' /\ Unlisted'
    BY DEF Indexed, Fresh, Created, Creating, MonitorOwns, Attended, Unlisted, Over
  <2>4. Joined' /\ FreedLast'
    BY DEF Fresh, Created, Creating, Joined, Over, FreedLast
  <2> QED
    BY ONLY <2>1, <2>2, <2>3, <2>4 DEF Ownership, Lifetime
<1>8. ASSUME NEW b \in Blocks, MonJoin(b)
      PROVE  Ownership' /\ Lifetime'
  <2> USE <1>8 DEF MonJoin, client, block, fields
  <2>1. Indexed' /\ Fresh'
    BY DEF Indexed, Fresh, Created, Creating
  <2>2. Created'
    BY DEF Indexed, Fresh, Created, Creating
  <2>3. MonitorOwns' /\ Unlisted'
    BY DEF Indexed, Fresh, Created, Creating, MonitorOwns, Attended, Unlisted, Over
  <2>4. Joined' /\ FreedLast'
    BY DEF Fresh, Created, Creating, Joined, Over, FreedLast
  <2> QED
    BY ONLY <2>1, <2>2, <2>3, <2>4 DEF Ownership, Lifetime
<1>9. ASSUME NEW b \in Blocks, MonTest(b)
      PROVE  Ownership' /\ Lifetime'
  <2> USE <1>9 DEF MonTest, client, block, fields, runner
  <2>1. Indexed' /\ Fresh'
    BY DEF Indexed, Fresh, Created, Creating
  <2>2. Created'
    BY DEF Indexed, Fresh, Created, Creating
  <2>3. MonitorOwns' /\ Unlisted'
    BY DEF Indexed, Fresh, Created, Creating, MonitorOwns, Attended, Unlisted, Over
  <2>4. Joined' /\ FreedLast'
    BY DEF Fresh, Created, Creating, Joined, Over, FreedLast
  <2> QED
    BY ONLY <2>1, <2>2, <2>3, <2>4 DEF Ownership, Lifetime
<1>10. ASSUME NEW b \in Blocks, MonRespawn(b)
      PROVE  Ownership' /\ Lifetime'
  <2> USE <1>10 DEF MonRespawn, client, block, fields
  <2>1. Indexed' /\ Fresh'
    BY DEF Indexed, Fresh, Created, Creating
  <2>2. Created'
    BY DEF Indexed, Fresh, Created, Creating
  <2>3. MonitorOwns' /\ Unlisted'
    BY DEF Indexed, Fresh, Created, Creating, MonitorOwns, Attended, Unlisted, Over
  <2>4. Joined' /\ FreedLast'
    BY DEF Fresh, Created, Creating, Joined, Over, FreedLast
  <2> QED
    BY ONLY <2>1, <2>2, <2>3, <2>4 DEF Ownership, Lifetime
<1>11. ASSUME NEW b \in Blocks, MonRespawnFails(b)
      PROVE  Ownership' /\ Lifetime'
  <2> USE <1>11 DEF MonRespawnFails, client, block, fields, runner
  <2>1. Indexed' /\ Fresh'
    BY DEF Indexed, Fresh, Created, Creating
  <2>2. Created'
    BY DEF Indexed, Fresh, Created, Creating
  <2>3. MonitorOwns' /\ Unlisted'
    BY DEF Indexed, Fresh, Created, Creating, MonitorOwns, Attended, Unlisted, Over
  <2>4. Joined' /\ FreedLast'
    BY DEF Fresh, Created, Creating, Joined, Over, FreedLast
  <2> QED
    BY ONLY <2>1, <2>2, <2>3, <2>4 DEF Ownership, Lifetime
<1>12. ASSUME NEW b \in Blocks, MonUnlist(b)
      PROVE  Ownership' /\ Lifetime'
  <2> USE <1>12 DEF MonUnlist, client, fields, runner
  <2>1. id[b] \in Ids /\ list[id[b]] = b /\ mem[b] = "used"
    BY DEF MonitorOwns, Attended
  <2>2. Indexed' /\ Fresh'
    BY DEF Indexed, Fresh
  <2>3. Created'
    BY <2>1 DEF Created, Creating
  <2>4. MonitorOwns'
    BY <2>1 DEF MonitorOwns, Attended
  <2>5. Unlisted'
    <3>1. \A i \in Ids : list'[i] # b /\ (list'[i] = list[i] \/ list'[i] = NoBlock)
      BY <2>1 DEF Indexed
    <3> QED
      BY <2>1, <3>1 DEF Unlisted, Over
  <2>6. Joined' /\ FreedLast'
    BY DEF Joined, Over, FreedLast
  <2> QED
    BY ONLY <2>2, <2>3, <2>4, <2>5, <2>6 DEF Ownership, Lifetime
<1>13. ASSUME NEW b \in Blocks, MonFree(b)
      PROVE  Ownership' /\ Lifetime'
  <2> USE <1>13 DEF MonFree, client, fields, runner
  <2>1. Indexed' /\ Fresh'
    BY DEF Indexed, Fresh, Created, Creating
  <2>2. Created'
    BY DEF Indexed, Fresh, Created, Creating
  <2>3. MonitorOwns' /\ Unlisted'
    BY DEF Indexed, Fresh, Created, Creating, MonitorOwns, Attended, Unlisted, Over
  <2>4. Joined' /\ FreedLast'
    BY DEF Fresh, Created, Creating, Joined, Over, FreedLast
  <2> QED
    BY ONLY <2>1, <2>2, <2>3, <2>4 DEF Ownership, Lifetime
<1>14. ASSUME NEW c \in Clients, CreateUnlists(c)
      PROVE  Ownership' /\ Lifetime'
  <2> USE <1>14 DEF CreateUnlists, Return, fields, runner
  <2>1. /\ id[thr[c]] \in Ids /\ list[id[thr[c]]] = thr[c] /\ mon[thr[c]] = "none"
        /\ \A d \in Clients : pc[d] \in Creating /\ thr[d] = thr[c] => d = c
    BY DEF Created, Creating
  <2>2. Indexed' /\ Fresh'
    BY DEF Indexed, Fresh
  <2>3. Created'
    BY <2>1 DEF Created, Creating
  <2>4. MonitorOwns' /\ Unlisted'
    BY <2>1 DEF MonitorOwns, Attended, Unlisted, Over
  <2>5. Joined' /\ FreedLast'
    BY DEF Joined, Over, FreedLast
  <2> QED
    BY ONLY <2>2, <2>3, <2>4, <2>5 DEF Ownership, Lifetime
<1> QED
  BY <1>1, <1>2, <1>3, <1>4, <1>5, <1>6, <1>7, <1>8, <1>9, <1>10, <1>11,
     <1>12, <1>13, <1>14 DEF Monitor

\* The invariant is preserved by the callers, the runners and the monitors.
LEMMA IInvStep == IInv /\ [Next]_vars => IInv'
<1> SUFFICES ASSUME IInv, [Next]_vars
             PROVE  IInv'
  OBVIOUS
<1>1. CASE Next
  <2>1. TypeOK' /\ Given'
    BY <1>1, TypeStep DEF IInv
  <2>2. Ownership' /\ Lifetime'
    <3>1. CASE Undefined
      <4>1. UNCHANGED <<pc, thr, run, block, mon>>
        BY <3>1 DEF Undefined, client, runner
      <4> QED
        BY <2>1, <4>1, QuietStep
    <3> QED
      BY <1>1, <2>1, <3>1, QuietSteps, OwnerStep DEF Next, Defined, Client, Monitor
  <2> QED
    BY <2>1, <2>2 DEF IInv
<1>2. CASE UNCHANGED vars
  BY <1>2 DEF vars, client, block, fields, runner, IInv, TypeOK, Given, Ownership,
              Lifetime, Indexed, Fresh, Created, MonitorOwns, Unlisted, Joined,
              FreedLast
<1> QED
  BY <1>1, <1>2

\* In every state up to a use of freed memory each block has one owner, which
\* its place in os_thread_create or os_monitor_thread tells.
THEOREM Invariant == Spec => []IInv
BY InitIInv, IInvStep, PTL DEF Spec

----------------------------------------------------------------------------
(***************************************************************************)
(* The theorems.                                                           *)
(***************************************************************************)

\* thread.c keeps the types of its variables: a call that goes on has a block,
\* and an id is one of the table, however the calls interleave.
THEOREM ThreadTypeCorrect == Spec => []TypeOK
BY Invariant, PTL DEF IInv

\* os_monitor_thread frees a block only when the runner was joined and no id
\* leads to the block, and no two ids ever lead to one block.
THEOREM BlockFreedUnused == Spec => []FreedUnused
<1>1. IInv => FreedUnused
  BY DEF IInv, Ownership, Lifetime, Indexed, Unlisted, Over, Joined, FreedLast,
         FreedUnused
<1> QED
  BY <1>1, Invariant, PTL

\* os_monitor_thread has its block to itself until it unlists it: nobody else
\* frees the block or takes its id from it, by a failed creation or the reuse of
\* ids, so that the START it sends by the id goes to its own runner.  The nodes
\* of the list are not its own: its search may meet one that is being freed.
THEOREM MonitorOwnsBlock == Spec => []MonitorOwns
BY Invariant, PTL DEF IInv, Ownership

\* os_thread_create and the restart of os_monitor_thread never start a second
\* runner beside one that has not been joined.
THEOREM RunnersInTurn == Spec => OneRunner
<1> DEFINE A == \A b \in Blocks : run'[b] = "spawned" /\ run[b] # "spawned"
                                     => run[b] \in {"none", "joined"}
<1>1. IInv /\ [Next]_vars => [A]_vars
  <2> SUFFICES ASSUME IInv, Next
               PROVE  A
    OBVIOUS
  <2> USE DEF IInv, TypeOK, Running
  <2>1. ASSUME NEW c \in Clients, Spawn(c)
        PROVE  A
    BY <2>1 DEF Spawn, Ownership, Created, Creating
  <2>2. ASSUME NEW b \in Blocks, MonRespawn(b)
        PROVE  A
    BY <2>2 DEF MonRespawn, Lifetime, Joined
  <2>3. ASSUME NEW c \in Clients, Client(c), ~Spawn(c)
        PROVE  UNCHANGED run
    BY <2>3 DEF Client, Create, SpawnFails, SpawnMonitor, MonitorFails, CreateUnlists,
                CreateReturns, Find, Stop, Look, Join, Restart, RestartDeletes, SetRestartable,
                SendSignal, runner
  <2>4. ASSUME NEW b \in Blocks, Runner(b)
        PROVE  A
    BY <2>4 DEF Runner, RunFunction, SignalRecv, SignalRecvFails, Returns, Cancelled
  <2>5. ASSUME NEW b \in Blocks, Monitor(b), ~MonRespawn(b)
        PROVE  A
    BY <2>5 DEF Monitor, MonSignal, MonJoin, MonTest, MonRespawnFails, MonUnlist,
                MonFree, runner
  <2>6. CASE Undefined
    BY <2>6 DEF Undefined, runner
  <2> QED
    BY <2>1, <2>2, <2>3, <2>4, <2>5, <2>6 DEF Next, Defined
<1> QED
  BY <1>1, Invariant, PTL DEF Spec, OneRunner
=============================================================================
