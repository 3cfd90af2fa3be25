# microbsp: TLA+ models of its own programs

microbsp builds small Linux systems: a root file system, board support, and a
few programs of its own. This directory models the programs that carry the
logic: the configuration service xcfgd with its storage and the boot loader that
reads it, the queues and threads of the sos library, and the publish/subscribe
file system lpps.

## The system

### Inventory

| Component | Code | State | Operations | Hard behaviour | Module |
|---|---|---|---|---|---|
| xconfig storage | `exts/xconfig/.../storage` | headers and data blocks on a file or an MTD; one header image in memory | open, clean, initialize, fixup, validate, update | crash between any two media writes, erase before program, unreadable blocks, I/O errors | `XmlStorage` |
| U-Boot reader | `boards/rpi*/boot/patch/xconfig.c` | reads the same medium | probe, set | has to make do with what a crash left | `UBootConfig` |
| xcfgd | `.../daemon/xcfgd.cpp` | XML tree, `mut`, `done`, sync timer | GET, PUT/POST, sync_handler, signal, start, shutdown | connection threads, timer thread and main over one tree | `XcfgSync` |
| timer | `.../daemon/timer.cpp` | timer list, active timer, `tt_lock`, `to_lock`, `tt_cond` | init, start, stop, delete, pending, deinit | condition waits, expiry against stop, cancellation | `XcfgSync` |
| sos buffer queue | `libs/sos/.../qbuff.c`, `buff.c` | list of nodes, current size, pool | put, get, flush, size, delete | gets over several nodes, a pool that runs out | `SosQbuff` |
| sos message queue, conditions | `msgq.c`, `var.c` | buffer queue, mutex, condition | send, receive, timed receive, flush | lost wake-ups, unbalanced locks, timeouts | `SosMsgq` |
| sos threads | `thread.c`, `list.c`, `res.c` | thread list, resource table, control blocks | create, delete, restart, signal | runner and monitor threads, use after free, ids that are reused | `SosThread` |
| lpps | `exts/lpps/source/lpps` | FUSE files, handles, signals, events | open, read, write, release, interrupt | waiting readers, acknowledgements, one lock and one mutex per reader | `LppsWait` |
| XML and JSON | `.../daemon/xml.cpp`, `kxml.cpp` | none of its own | get, set, merge, convert | sequential | none |
| sos I/O | `net.c`, `sel.c`, `linux/proto.c`, ... | sockets | wrappers | none of its own | none |
| sqlwrap | `exts/sqlwrap/.../lib/src` | connections, prepared requests | open, query, store | partial transfers, reconnects | none |
| lsjson, web UI, scripts | `libs/lsjson`, `boards/*/projects`, `rootfs` | none | conversion and start-up | none | none |

Vendored code (expat, scew, jansson, libmicrohttpd, libfuse, dlmalloc), which is
most of the C in the repository, is left aside; what the modelled code needs of
it is stated where it is used.

### How the modelled parts interact

At boot the boot script may load the media file of the storage, and U-Boot picks
a configuration out of it. Then main of xcfgd calls `xml_storage_open` and
`xml_storage_validate`; the result is the file the XML tree is built from.
Connection threads serve requests with `mut` held. A PUT or POST changes the tree
and restarts the sync timer (`stop_timer`, `start_timer`). The timer thread takes
the timer out of the list, waits for its expiry and calls `sync_handler`, which
takes `mut`, writes the tree to its file, calls `xml_storage_update` and reloads
the tree. A signal makes main stop the timer, cancel its thread, stop the HTTP
server and, if the timer was pending, call `sync_handler` itself.

In sos a message queue is a buffer queue and a condition variable; a thread is a
control block in a resource list, a runner and a monitor. In lpps a reader that
has opened a file with `?wait` sleeps at its end, and a writer wakes the sleeping
readers and waits for their acknowledgement.

What makes each part correct:

- storage: whatever the moment of a crash, a boot loads a complete
  configuration, the old one or the new one, and the new one once the update
  has been acknowledged; no boot gives up; an update never writes over the
  current configuration. The boot loader finds a whole configuration as well.
- daemon and timer: a change that was accepted is stored, also at a shutdown;
  the tree is used by one thread at a time and freed once; no thread waits for
  ever; a signal ends the program.
- buffer queue: a byte stream; no byte and no memory is lost, no buffer is
  overrun.
- message queue: what is sent is received, and no lock is left behind.
- threads: every runner is started, a delete returns, and memory is freed when
  nothing leads to it any more.
- lpps: a write reaches every waiting reader, the lock of the file system is
  released again, and a reader that was woken returns.

## The modules

| Module | What it is |
|---|---|
| `XmlStorage` | the storage, one action per media write |
| `ConfigRegister` | what the storage promises: a crash-proof register |
| `UBootConfig` | what the boot loader finds on the media that `XmlStorage` leaves; extends it |
| `XcfgSync` | the threads of xcfgd around the sync timer |
| `SosQbuff` | the buffer queue, one action per iteration of its copying loop |
| `ByteStream` | what the buffer queue promises: a stream with atomic reads and writes |
| `SosMsgq` | the message queue over its condition variable |
| `SosThread` | callers, runners and monitors of the thread library |
| `LppsWait` | readers and writers of one lpps file |
| `MC...` | instances for TLC |
| `XmlStorageProofs` | the storage after crashes in updates: invariant and theorems |
| `XmlRegisterProofs` | the storage implements `ConfigRegister`; extends `XmlStorageProofs` |
| `UBootConfigProofs` | the storage on a file under more faults, and the boot loader; extends `XmlStorageProofs` |
| `XcfgSyncProofs`, `SosQbuffProofs`, `SosMsgqProofs`, `SosThreadProofs`, `LppsWaitProofs` | theorems about these modules |

### XmlStorage

State: the medium (`file`, `hdr`, `dat`), which survives a crash; the memory of
the daemon (`pc`, the loop index `k`, `cur`/`nxt` for `cblock`/`nblock`, `mem` for
`xmlstor.header`, `blk`/`todo` for the copies of the repair, `want`, `loaded`); and
`allowed`, a history variable with the configurations a restart may load.

| Actions | Code |
|---|---|
| Create, ZeroFill, OpenExisting, Scan | `xml_storage_open` |
| CleanData, CleanHeader | `_xml_storage_clean` |
| InitHeader, InitData | `_xml_storage_initialize` |
| Fixup, FixupDies, FixupWrite | `_xml_storage_fixup`, `xml_storage_data_recover` |
| Validate, ValidateFails | `xml_storage_validate` |
| UpdateBegin, UpdateData, UpdateNewHeader, UpdateOldHeader, UpdateClear, UpdateFail | `xml_storage_update` |
| EraseHeader, EraseChunk | the erase half of `mtd_write` |
| Crash, PowerOff | the environment |

The repair is a pure function of the headers it reads (steps 0 to 4 of
`_xml_storage_fixup` become `Broken`, `Recover`, `OnDirty`, `IsLatest`, `FixedUp`,
`ToBeUpdated`), followed by one write per flagged header.

Abstractions. A configuration is a model value that fills every chunk of its
block. The pair (crc, rsize) of a header is the content it was computed from;
`NoSum` is a pair with which nothing can be loaded. That excludes collisions of
the 16-bit checksum. An erased header reads as ones: wrong magic, dirty,
ONDIRTY. The size of a block without closing tag comes from a null pointer in
the code; the model lets the daemon die there (FixupDies) or go on with a header
that cannot be validated. A file that is shorter than the layout may fail its
scan or pass as an unformatted one; no run cuts the zeroing of a new file.

Not modelled: the page cache between a write and the medium (a file write is
taken to be durable in order), torn header writes on a file, bad blocks in the
data area of an MTD (a shifted block layout), a failing header write in
`_xml_storage_clean`, a failing read in the dump of the repair, and a
configuration larger than a data block.

### XcfgSync

State: the place of each thread (`pc`), the owners of the three mutexes (`mut`,
`ttLock`, `toLock`), the timer (`listed`, `ttActive`, `toActive`, `toCreated`,
`ttInited`, `cancelled`), the locals and flags of main (`pend`, `deleting`, `done`,
`open`) and the tree: `tree` says what `xcfg->tree` points to (a loaded tree, one
that was freed to be read again, a dangling one that could not be read again, or
`undefined` once such a tree was used), `dirty` that it has a change that the
storage does not have.

| Actions | Code |
|---|---|
| Arrive, LockTree, Reply, Set, UnlockTree | `DefaultHandlerCallback` |
| StopTest, StopLockList, StopLockTimer, StopDeleted, StopBody | `stop_timer` |
| StartTest, StartLockList, StartLockTimer, StartDeleted, StartBody | `start_timer` |
| LoopLock, LoopCheck, WaitReturn, Expire, SpuriousWakeup, TimedReturn, Fire, Release, Cancelled | `timer_thread` |
| SyncLock, SyncWrite, SyncWriteFails, SyncReload, SyncReloadFails | `sync_handler`, `config_xml_write_tree` |
| UseFreed | a request, sync_handler or the exit with a tree that is freed |
| MainLoop, MainWakes, PendingTimer, DelTimer, CancelTimer, JoinTimer, StopHttp, JoinHttp, FreeTree | `main`, `pending_timer`, `del_timer`, `timer_module_deinit` |
| Trap | `xcfg_trap` |

Each lock operation and each condition wait is a step. A condition wait is two
places: waiting, and woken but without the mutex. Time is abstract, so a timed
wait may end at any moment. `xml_storage_update` is one step here: `XmlStorage`
shows that the storage changes in one atomic step.

With `Faults` each part of sync_handler may fail. A failing writer returns success
from `config_xml_write_tree` (xml.cpp:222-234: only a null tree or path is an
error), so the tree is deleted and its file cannot be read again. A failing
`config_xml_init` is logged only (xcfgd.cpp:224-225). Both leave the freed tree in
`xcfg->tree`; its next use ends in `undefined`, after which the model says nothing.

Not modelled: several timers (xcfgd has one, so the order of the list plays no
part), `ConnectionCallback`, upload bodies, and the read-only mode without storage.

### UBootConfig

No state of its own: `Probed` and `ProbedBlock` are `scan_config_block` on the
medium of `XmlStorage`, at the moment the power is off. The boot loader takes the
first header with the magic and a dirty word, computes the data block from the
header's index, compares no checksum and repairs nothing. It reads a file, so
the property is about files. `xconfig set`, which changes the copy in the memory of
the boot loader only, and the XML parser of the patch are left out.

### SosQbuff

State: the list of nodes, `currentSize`, the pool (`avail`), the lock, the place of
each thread and the locals of its running call (`size`, `total`). A byte is its
position in the sequence of all bytes that were put, so a node is the position of
its first byte, its size and how much of it was read.

| Actions | Code |
|---|---|
| Call, Lock | the head of `os_qbuff_put` and `os_qbuff_get` |
| PutNode, PutFails, PutNoData, FreeNode | `os_qbuff_put` and its two allocations |
| GetCopy, GetNothing | one iteration of the loop of `os_qbuff_get` |
| FlushTest, Flush, FlushCrashes | `os_qbuff_flush` |

The pool counts allocations, a node and its data one each; the refusal of the
last unit (`real_len >= cls->availsize`) is kept, the split and merge of free
blocks in `buff.c` is not. `os_qbuff_flush` looks at the list before it takes the
lock; FlushCrashes is the null pointer that it follows when another thread has
emptied the list in between, and nothing happens after it.

### SosMsgq

State: the place of each thread, the queue, the owner of the condition's mutex
and what a receiver has got. Messages have one size, so a put, a get and a flush
are one step each (`SosQbuff` shows that they are atomic). A mutex is released by
whoever unlocks it, as a default pthread mutex is.

| Actions | Code |
|---|---|
| Send, Put, PutFails, CondLock, CondSignal, CondUnlock | `os_msgq_send`, `os_cond_signal` |
| Flush | `os_msgq_flush` |
| Recv, TestSize, Retest, Get | `os_msgq_recv`, `os_msgq_recv_timeout`, `os_msgq_recv_internal` |
| CondAcquire, CondWait, CondWaitRefused, Timeout, SpuriousWakeup, CondReturn, CondRelease | `os_cond_acquire`, `os_cond_acquire_timeout`, `os_cond_release` |

CondWaitRefused is the deadline with more than a second of nanoseconds. Creation,
deletion and statistics are left out.

### SosThread

State: per caller the place, the block and the id of its call; per control block
its fields (`restartable`, `sig`, `id`), whether it is allocated (`mem`), its runner
(`run`, `cancelled`) and its monitor (`mon`); the list from ids to blocks.

| Actions | Code |
|---|---|
| Create, Spawn, SpawnFails, SpawnMonitor, MonitorFails, CreateUnlists, CreateReturns | `os_thread_create` |
| Find, Stop, Look, Join | `os_list_find` (with `os_thread_find_with_resid`), `os_thread_delete` |
| Restart, RestartDeletes, SetRestartable, SendSignal | `os_thread_restart`, `os_thread_restartable`, `os_thread_signal_send` |
| RunFunction, SignalRecv, SignalRecvFails, Returns, Cancelled | `os_thread_wrapper` and a function like that of `dbg.c` |
| MonSignal, MonJoin, MonTest, MonRespawn, MonRespawnFails, MonUnlist, MonFree | `os_monitor_thread` |
| Undefined | the use of a freed block, of a freed list node or of a joined pthread |

The code uses freed memory in several interleavings (a delete looks at the block
after it has cancelled the runner, thread.c:481; a create reads the id that it
returns, thread.c:268; a failed create leaves a freed block in the list). Such a
use is a step to `undefined`, after which the model says nothing: the properties
describe what holds up to there. An address is not handed out twice.

The list is changed under its mutex, but `os_list_find` and the search of
`os_list_item_delete` (list.c:169-183, 272-285) take none. A search is one step
here; wherever one thread may be in a search while another is about to delete a
node (`Searchers`, `Deleters`), the search may meet the freed node, and
`SearchDangles` leads to `undefined`. The order of the nodes is ignored, so this
covers every overlap, those where the node lies behind the search included. That
`_list_item_insert` links a node before it sets its id is left out. The block that `os_thread_init` makes for the main thread, names and statistics are left out.

### LppsWait

State: the tuples and the delta of the file (the numbers of the writes they come
from), the lock `lpps.mut`, and per reader its handle, the state and mutex of its
signal and its acknowledge event; per writer the slot that its loop has reached
and the event it waits for. `since`, `byItself` (a wait of the reader has ended by
itself) and `hit` (it was interrupted between OS_LOCK_WAIT and its sleep) are
history variables.

| Actions | Code |
|---|---|
| ReadTuples, ReadWait, ReadDone, ReadWritten, ReadNothing, SigUnlock | `lpps_read` |
| SigLock, SetWait, CondWait, SpuriousWakeup, CondReturn | `os_sig_wait` |
| Write, SignalReader, SkipReader, Unlock, AckTest, AckClear, WriteReturn | `lpps_write` |
| AckReceive, EventDelete | `os_event_receive`, `os_event_delete` |
| Interrupt, InterruptLost | `lpps_stop_task` |
| Open, Release | `lpps_open`, `lpps_release` |
| UseFreed | a writer that goes on with the handle of a reader that closed the file |

What is between LPPS_RLOCK or LPPS_WLOCK and LPPS_UNLOCK is one step unless it
waits. The tuples fit into one read; a merge may add tuples, which ends the EOF of
a reader (`priv_eof` compares sizes). The use of a freed event or handle ends in
`undefined`, as above.

Two hazards of the signals are part of the model. The wait at sig.cpp:123 has no
predicate loop, so a spurious wake-up goes on like a real one, with OS_LOCK_WAIT
still set (`Spurious`). And `lpps_stop_task` goes on when `os_sig_trylock` fails
(lpps.cpp:686): its `|=` of OS_LOCK_STATE_DONE and its wake-up then meet the `|=`
and `&=` of the reader that holds the mutex, and DONE may be lost (InterruptLost).

Left out: special files with their history queues, directories, rename and
unlink, and what the tuples are.

## What TLC checks

Runs that pass:

| Run | Instance | States | Properties |
|---|---|---|---|
| storage_mtd | 4 headers, 2 blocks, 2 chunks, 2 configurations, MTD, crashes in updates | 83,192 | TypeOK, Recoverable, OneUsefulHeader, SwitchesData, NeverFails, ImplementsRegister, SwitchesOnce, BootsUp |
| storage_crash | the same, crashes in every phase, the second header not always readable | 220,002 | OldOrNew |
| storage_ioerr | file, failing accesses, crashes in updates and repairs | 363,794 | OldOrNew, ProbesWhole |
| sync_serve | 2 connection threads, any number of requests, a shutdown | 38,870 | TypeOK, PendingIsArmed, EventuallyStored, SignalEnds |
| sync_faults | the same with failing writes, a failing reload, spurious wake-ups | 64,196 | TreeExclusive, FreedOnce |
| qbuff | 3 threads, blocks of 1 and 3 bytes, a pool of 8 allocations | 690,174 | TypeOK, Contiguous, SizeExact, WithinBuffer, PoolConserved, ImplementsStream |
| msgq_poll | 2 senders, a timed, a blocking and a trying receiver, room for 2 messages | 154,228 | TypeOK, OwnerInside, Delivered |
| thread | 2 callers, 2 blocks, 1 id | 236,648 | TypeOK, FreedUnused, OneRunner, StartReceived, DeleteEnds |
| lpps_share | 1 reader, 2 writers, 2 writes, timeouts, interrupts, spurious wake-ups, closing | 146,572 | TypeOK, NonePassed, Wakeable, LockReleased, WokenReturns |

Bounds.

- Four headers and two data blocks are the default of xcfgd, and the smallest
  layout in which an update wraps round (the latest header has a lower index
  than the old one) as well as not. Two chunks are enough for a torn block, two
  configurations for a stale one. Updates, crashes and boots are not bounded.
- In `XcfgSync` nothing but the number of connection threads is bounded; two are
  enough for one to hold `mut` while the other waits for it, and requests come
  without end.
- In `SosQbuff` MaxBytes stops new puts after 3 bytes, and each of the three threads
  may have one on its way, so the queue grows to several nodes of both sizes. The
  pool of 8 has room for three nodes with their data (the last unit is never
  handed out), so puts fail at either allocation. A get of 3 spans nodes, ends
  inside one, or finds too little.
- In `SosMsgq` nothing but the capacity is bounded; the three receivers are the
  three ways to receive.
- In `SosThread` the two blocks bound how many threads are ever created, and with a
  single id the second one takes the id of the first, so a restart by id meets
  another thread. One caller creates, restarts and changes the flag, the other
  deletes and signals. With two ids, so that two threads are listed at a time, the
  invariants and OneRunner hold as well (1,900,892 states).
- In `LppsWait` MaxWrites bounds the writes: with two of them each writer can write
  while the other waits, delete the event that the other waits for, or wake a
  reader that has gone back to sleep. The properties hold with three writes too
  (1,320,541 states). A second reader would only be another slot of the loops.

Fairness.

- `XmlStorage`: the daemon goes on with what it does and is started at every boot,
  as the init scripts do; no client has to ask for an update and no crash has to
  come. BootsUp holds with repeated crashes because a crash takes an update,
  which the boot has to reach first.
- `XcfgSync`: every thread goes on (Linux schedules the threads), one that waits for
  a mutex gets it if it is released again and again, and a timed wait that is not
  rewound ends. No client has to send a request, and no signal has to come.
- `SosMsgq`: a thread goes on with its call and gets the mutex if it is free again
  and again; a receiver calls again, since a consumer loops; no sender has to
  send.
- `SosThread`: a call that has begun and a monitor go on, a runner receives the
  signal that is there, and a cancelled runner reaches a cancellation point. A
  working runner need not return.
- `LppsWait`: a thread inside a request goes on; nobody has to send one. A writer
  waits for an acknowledgement at most mrtimeout if that is positive (`Timeouts`).
  The shipped lpps.conf:59 sets -1, which waits until the reader reads again or
  closes the file; such a writer no longer holds the lock, and the properties of
  lpps_share hold without timeouts as well (123,057 states).

Several runs do not check for deadlock: daemons may end, a bounded number of
operations runs out, some of the code really blocks (the properties name where),
and the model stops at undefined behaviour.

Liveness properties name their exceptions, which the code does reach.
EventuallyStored: a change is stored unless the daemon is shut down, is in the
deadlock `Deadlocked`, or PUTs and POSTs rewind the timer for ever. SignalEnds: a
signal ends the daemon unless main forgets it, a thread is in `Deadlocked` or
`Orphaned`, or a freed tree was used. LockReleased: the lock is released unless the
writer waits for a reader whose wait has ended by itself. WokenReturns makes no
promise while some wait has ended by itself. StartReceived and DeleteEnds hold up
to a use of freed memory. A START that a later signal has overwritten counts as
received, since the runner then returns with an error.

### What the code does not keep

Each of these runs checks one statement of the repository's own comments and
ends in a counterexample.

| Run | Statement | What happens |
|---|---|---|
| storage_fixup | storage.h:32 "Just one of 4 headers is useful" | a crash in the repair of a wrapped update leaves two dirty headers for good |
| sync_exit | xcfgd.cpp:1057 "storage sync" | pending_timer does not see the timer that is waited for, nor a later request |
| lpps_delta | lpps.cpp:2731 "execulsive manner through hand-shake mechanism" | a reader acknowledges before it is marked as waiting; the next write passes it by and its delta is lost |

The passing runs leave the conditions of these counterexamples out one by one:
`CrashIn`, `Flaky`, `IOErr`, `Spurious`, `Faults`, `Delta` and the layout are constants.
With other values of them the same modules show more limits:

- SwitchesData fails with `-n 3` (accepted by xcfgd): the third and the first header
  share a data block, although storage.h:60 says that header and data block
  switch always together. It also fails with a header that cannot be read
  (`Flaky`): the scan goes on to #N+2 (storage.h:55-57), which shares the block
  of #N.
- A crash before the first installation (`CrashIn` with the installation) leaves
  formatted headers that describe nothing; the next boot takes them for a
  configured medium (storage.cpp:1384), so the installation is never repeated
  and every validation fails.
- OldOrNew fails on an MTD with failing accesses (`IOErr`): a header that was
  erased and not programmed counts as dirty in `_xml_storage_header_fetch`, which
  does not look at the magic, and an update that is acknowledged after that is
  lost at the reboot. On a file it needs a failing access and an unreadable
  header together.
- A write or a reload of the tree that fails (`Faults`) leaves a freed tree in
  `xcfg->tree`: the next request uses it, and the exit frees it again. TreeExclusive
  and FreedOnce name this and a cancellation inside sync_handler as the only ways.
- PUTs and POSTs that come faster than the timer expires postpone the store for
  ever, since each of them stops and restarts the timer (xcfgd.cpp:231-242).
- PendingIsArmed fails with `Spurious`: the timed wait of timer_thread drops the
  timer when it ends by itself.
- A handler takes `mut` and then `to_lock` (xcfgd.cpp:241), the callback of the timer
  `to_lock` and then `mut`: `Deadlocked` is reachable with two requests. The cancelled
  timer thread may die with `tt_lock`, or with `to_lock` and `mut`: `Orphaned`. A signal
  that comes before `done = 0` (xcfgd.cpp:1038) is forgotten.
- A blocking receive, and a trying one that has seen a message (msgq.c:317-320),
  wait for the next signal without looking at the queue again: Delivered holds
  only because another receiver polls.
- One create and one delete of a thread are enough for a read of freed memory
  (thread.c:481). Two threads that end together are enough for the search of the
  list by one monitor to read a node that the other frees (list.c:281, 750).
- An interrupted read of lpps returns with the mutex of its handle locked
  (lpps.cpp:2798); the next wait on that handle blocks. An interrupt that comes
  between OS_LOCK_WAIT and the sleep, or whose DONE is overwritten, is lost: the
  reader sleeps on, and no write sees it (the exception of Wakeable).
- After a spurious wake-up a reader of lpps waits for the lock with its mutex and
  with OS_LOCK_WAIT set: a writer that has the lock waits for that mutex, and the
  file system stands still. If no writer comes in between, the read returns
  nothing and OS_LOCK_WAIT stays on the idle handle, so that a later write is
  given to a reader that is not asleep and the reader sleeps with it (the
  exceptions of LockReleased, NonePassed and WokenReturns).

## What is proved

`StorageConstants`, `SyncConstants`, `QbuffConstants`, `MsgqConstants`,
`ThreadConstants` and `WaitConstants` are the only assumptions about the constants;
TLC evaluates them on every run. Where a theorem needs more (a layout, a kind of
fault), its ASSUME says so. Every inductive invariant was checked by TLC on
instances like those of the runs before it was proved.

**XmlStorageProofs.** `TypeCorrect` holds for every layout, medium, crash and
fault. The others assume `SwitchingLayout` (`(HNUM - 1) % BNUM # 0`: the last
header and the first do not share a block; it holds for 4/2, and the layout 3/2
above shows that it is needed) and `UpdateCrashesOnly` (no crash in the
installation or the repair, no failing access: run storage_fixup, and the limits
listed above, show what happens otherwise). Under them, for any number of headers, blocks, chunks and
configurations, on a file and on an MTD:

- `CrashSafe`: Recoverable. `LoadsOldOrNew`: OldOrNew. `NeverGivesUp`: NeverFails.
  `OneHeaderKept`: OneUsefulHeader. `DataSwitched`: SwitchesData.

The invariant behind them is `IInv`. Recoverable alone is not inductive: it speaks
about the configuration that a boot would load, not about how the headers got
there. `Shape` lists the six states of the medium that a crash in an update can
leave (at rest, new header erased, both dirty, old header erased, switched,
cleared header erased); `UpdateInv` says which of them the next write of the
update leads to, `BootInv` that the repair turns each of them into a medium at
rest, `InstallInv` follows the first installation and `LoopInv` the pieces of a
data block. There is one lemma per action.

**XmlRegisterProofs.** Under the same two assumptions:

- `StorageIsRegister`: ImplementsRegister, the refinement of `ConfigRegister`.
- `TakesEffectOnce`: SwitchesOnce, what a boot would load changes in one step of an
  update and in no other step.

The refinement mapping `Value` is a CHOOSE over what the repair would load.
`WouldLoadOne` shows that there is at most one such configuration, and
`InvValueFacts` reads it off the shape of the medium, so each action needs only
the shapes before and after it. The switch is the write of the new header, on an
MTD its erase: an erased header is rebuilt from its data block and wins. The
repair, the crash and the restart are stutters.

**UBootConfigProofs.** For files, under `SwitchingLayout` and `FileFaults`: an update or a
repair may be cut at any write and every access of an update may fail (`IOErr` is
arbitrary), but the installation is not cut and headers can be read. This is the
setting of run storage_ioerr, in which a boot may give up and `IInv` does not hold.

- `ProbeFindsWhole`: ProbesWhole. `FileLoadsOldOrNew`: OldOrNew.

`FileInv` says less about the number of dirty headers and more about each of them:
whichever header is dirty describes an allowed configuration that its data block
holds (`MediumInv`), since an update makes a header dirty after its data is written
and gives up the old configuration only when no other header is dirty
(`SwitchInv`); the copies of the repair make no header dirty (`RepairInv`). So the
first dirty header, which the boot loader takes, is as good as any. That there is
a first one follows from the well-foundedness of the natural numbers. Until the
configuration is installed `FileInv` and `IInv` agree, and the lemmas about the
installation are used again.

**XcfgSyncProofs.** For every set of connection threads and any number of requests:

- `SyncTypeCorrect`: TypeOK. `TreeSafe`: TreeExclusive, spurious wake-ups, failing
  writes and reloads, and shutdown included. `TreeFreedOnce`: FreedOnce.
- `ChangesStayArmed`: PendingIsArmed, if no wait ends by itself and no write fails
  (a spurious wake-up of the timed wait drops the timer in this code).

`SyncInv` ties the places of the threads to the owner of `mut` (`MutInv`), the
stages of the shutdown to the threads that are gone (`ShutInv`) and a freed tree to
the thread that replaces it, while a dangling one needs a fault (`TreeInv`). PendingIsArmed is inductive
relative to it; FreedOnce needs `PendInv` besides, which says that main, when it
has stored the changes itself, is not at the end with `mut` left by the timer.

**SosQbuffProofs.** For any number of threads, any block sizes and any pool:

- `QueueIsStream`: ImplementsStream, the refinement of `ByteStream`.
- `BytesContiguous`, `CurrentSizeExact`, `GetStaysInside`, `PoolNotLost`,
  `QbuffTypeCorrect`: the five invariants of run qbuff.

`StreamInv` is the invariant of the queue. Contiguous and SizeExact alone are not
inductive: that the current size stays a natural number when a node is used up
needs the fact that no node ends behind the end of the stream. It follows from
Contiguous by induction along the list, which is out of the prover's reach, so
`EndsInside` states it for every node. `CallInv` (who is between the lock and its
release owns it, and a get has copied nothing before the loop) makes the thread
in the copying loop unique, which the refinement mapping `StreamFirst` relies on:
a get takes effect when it gets the lock, and its iterations are stutters.

**SosMsgqProofs.** For any number of senders and receivers and any mixture of modes:
`MsgqTypeCorrect` (TypeOK) and `MutexNotLeft` (OwnerInside, inductive together with
TypeOK): the owner of the mutex is a receive on its way to the release, or a send
inside os_cond_signal.

**SosThreadProofs.** For any number of callers, control blocks and ids, with any
mixture of calls and any failing pthread_create:

- `ThreadTypeCorrect`: TypeOK. `BlockFreedUnused`: FreedUnused. `RunnersInTurn`: OneRunner.
- `MonitorOwnsBlock`: until a monitor unlists its block, the block is allocated and
  listed under its id, whatever creations fail and ids are reused, so that the
  START it sends by id is for its own runner. It says nothing about the nodes of
  the list, which a search without the mutex may find freed.

FreedUnused speaks about one moment, the free; why nothing leads to the block
then is the history of the block. `Invariant` states it as ownership: a block
belongs to nobody (`Fresh`), to the one call that creates it, or that frees and then
unlists it when the monitor cannot be started (`Created`), to its
monitor as long as it is listed (`MonitorOwns`, `Indexed`), and then to no one that
an id could find (`Unlisted`); `Joined` and `FreedLast` tie the place of the monitor
to its runner and to the memory. Callers that delete, restart or signal own
nothing, which is why their use of a block may be a use of freed memory: the
theorems describe the states up to there, as the runs do.

**LppsWaitProofs.** For any number of readers, writers and writes, with and without
deltas, timeouts, interrupts (lost ones too), spurious wake-ups and closing
readers:

- `WaitTypeCorrect`: TypeOK. `NoReaderPassed`: NonePassed. `SleepersWakeable`: Wakeable.
- `LocksHeld`: the writers that wake readers exclude each other, and a reader has the
  mutex of its handle where `os_sig_wait` and `lpps_read` rely on it.

NonePassed is about the moment the lock is free. While a writer goes through the
readers, `Passed` says it for those behind the index of its loop: a reader that
still waits there began to wait after the last write. `WaitBit` and
`WriteBit` tie the two bits of a reader's signal to its place, unless it was
interrupted on the way to its sleep (`hit`) or a wait of its has ended by itself
(`byItself`), `Exclusive`, `Owned`
and `InSlot` the locks and the loop to the places of the threads, and `Closed` says
that nothing is left of a closed handle.

Only model-checked: the liveness properties (BootsUp, EventuallyStored,
SignalEnds, Delivered, StartReceived, DeleteEnds, LockReleased, WokenReturns;
fairness is out of the prover's reach), and OldOrNew on an MTD with crashes in
every phase (run storage_crash).

## Not modelled

- The XML and JSON code, the shell client, lsjson, the network wrappers and the
  transports of lpps: conversions and system calls without shared state of their
  own.
- sqlwrap: request and answer between the client library and the database
  server.
- Of modelled components: the split and merge of free blocks in `buff.c`, deletion
  of queues in use, ordered and hashed lists, the special files of lpps,
  `xconfig set`, option parsing and the read-only mode of xcfgd.
- Vendored code, among it four copies of dlmalloc.

## Plan

1. OldOrNew on an MTD with crashes in the installation and the repair, for which
   neither `IInv` nor `FileInv` holds: a header that is erased counts as dirty, and an
   installation cut short leaves headers that describe nothing.
2. The mutual exclusion of `tt_lock` and `to_lock` in `XcfgSync`, from which
   `Deadlocked` and `Orphaned` can be shown to be the only places where the timer
   thread stays.
3. The composition of `XcfgSync` with `ConfigRegister`, so that a crash of the
   whole daemon, and a cancellation inside sync_handler, meet the storage.
4. The special files of lpps and their history queues; sqlwrap.
