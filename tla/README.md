# Verification of the OpenSLX block-device drivers

OpenSLX boots diskless Linux clients from a server. This directory holds TLA+
models of the parts of the repository in which concurrency, an unreliable
network and retries meet: the network block devices the clients read their
root file system from.

## 1. The system

| Part | Where | State | Talks to |
|---|---|---|---|
| DNBD2 driver, data path | `contrib/dnbd2/trunk/kernel/core.c` | send-queue, pending-queue, pool of `req_info` slots, `pending_reqs`, sender thread, one receiver thread per server, requeue timer | block layer (`dnbd2_request`, end of request), UDP servers |
| DNBD2 driver, servers | `kernel/servers.c` | four server slots (socket, address, RTTs, `last_reply`), active server, emergency list and mode, take-over and heartbeat timers, two kinds of queued work | data path (`active_server`, `servers_mutex`) |
| DNBD2 driver, life cycle | `kernel/{devices,sysfs,fops,misc}.c` | `running`, `vid`/`rid`, `refcnt`, `config_mutex` | all of the above, user space through sysfs |
| DNBD2 data server | `contrib/dnbd2/trunk/server` | tree of datasets with open files, one socket, two signal flags, one reply buffer | drivers, by UDP |
| DNBD kernel client | `contrib/dnbd/trunk/kernel/{main,queue,net}.c` | two request queues, receiver, sender and session threads, retransmission timer, server table | block layer, cache, servers and other clients by multicast |
| DNBD block cache | `contrib/dnbd/trunk/kernel/cache.c` | red-black tree, LRU list, `used_blocks`, cache file | DNBD client |
| DNBD server | `contrib/dnbd/trunk/server` | ring of queries between a receiver and handler threads | DNBD clients |
| OekPool | `contrib/OekPoolFX/trunk/oekpool` | one power-state machine per lab computer | LDAP, ssh, network |
| OpenSLX proper | `openslx/trunk` | configuration database, vendor operating systems, plug-ins, boot files | Perl and shell programs run one at a time |

The rest is graphical or web front ends (`LoginToolXP`, `ldap-site-mngmt`),
older branches and third-party code (`openslx-src-tools`, `vendor`).
`PROJECT.json` lists every component and what is done about it.

What is hard: the DNBD2 data path is driven by five kinds of concurrent actors
(block layer, sender, receivers, timer, sysfs writers) over three spinlocks,
two semaphores and several unprotected fields, on top of datagrams that are
lost, repeated and reordered. A request must nevertheless be answered once,
with its own data. `PROJECT.json` lists the hazards, each at its line.

What each part must guarantee:

- data path: every request is answered once, with the contents of its own
  sector, by whichever server; a slot of the pool serves one request at a
  time; `pending_reqs` is exact; without a wedge, every reader gets an answer;
- servers: a running device has an active server, a configured one; a slot has
  a socket as long as its receiver lives; the timers that end emergency mode
  and notice silence always run; control requests are freed once;
- times: silence is noticed in bounded time, a control request is given up
  neither too early nor, if the sender keeps pace with the timer, too late;
  smoothed round-trip times stay between the measured ones, a take-over is an
  improvement;
- data server: the address and the images in use are those of one version of
  the configuration; descriptors are not mixed up; a reply answers its
  request, unless the block could not be read; SIGTERM ends the process;
- DNBD client: as the data path, though most replies are meant for others and
  one may answer a part of a read; the end of a session ends;
- DNBD cache: a cached block is the block asked for, no two entries share a
  block of the cache file, tree and list agree;
- DNBD server: every query is handled once, in order and unchanged; a read is
  not dropped for the sake of reads that were dropped themselves.

## 2. The modules

| Module | Models | How |
|---|---|---|
| `BlockDevice` | what the driver promises the block layer | abstract: a submitted request is served with its sector if the device runs, or fails if it does not |
| `Dnbd2Requests` | `core.c`, block requests; start, stop, open, release | one action per critical section; shown to implement `BlockDevice` |
| `QueueLemmas` | | facts about queues, and lists that are known by their links, for the proofs |
| `Dnbd2Requests_proofs` | | its invariant, safety and refinement |
| `Dnbd2Servers`, `Dnbd2Servers_proofs` | `servers.c`, `sysfs.c`, the control half of `core.c` | time and round-trip times left to chance |
| `Dnbd2Timing` | the three timeouts that `Dnbd2Servers` leaves open | a clock in steps of the requeue timer |
| `Dnbd2Rtt` | `update_rtt`, `fastest_server`, the thresholds | integer arithmetic of the C code, with wrap-around |
| `Dnbd2Times_proofs` | | the proofs about `Dnbd2Timing` and `Dnbd2Rtt`, whose definitions have different names for that (`RttInit`, `RttSpec`, ...) |
| `Dnbd2Server`, `Dnbd2Server_proofs` | `server/`: `main.c`, `config.c`, `query.c`, `file.c`, `tree.c` | a loop with two flags, a table of descriptors and one buffer |
| `BlockCache` | what the DNBD cache promises | abstract: a bounded store that forgets the block put longest ago |
| `Dnbd1Cache`, `Dnbd1Cache_proofs` | `cache.c` | one action per outcome of a call, list pointer by pointer; shown to implement `BlockCache` |
| `ReadService` | what a DNBD client promises the block layer | abstract: a read is filled block after block, and fails only while not both threads run |
| `Dnbd1Requests`, `Dnbd1Requests_proofs` | DNBD `main.c`, `queue.c` | one action per critical section; uses the actions of `BlockCache` for its cache; shown to implement `ReadService` |
| `RequestQueue` | what the DNBD server's ring promises | abstract: a bounded queue and handlers with one query each |
| `Dnbd1Server`, `Dnbd1Server_proofs` | DNBD `server/query.c` | receiver and handlers around the ring; shown to implement `RequestQueue` |
| `MC...` | | instances for TLC: symmetry, constants, a view |

`PROJECT.json` maps each definition to its lines. Operators whose comment
begins with "Mutant:" are deliberately wrong variants of the definition below
them; each stands for a bug that the property named in `PROJECT.json` finds.

### Dnbd2Requests

State: the elevator's requests (`elv`), the two queues, per request its
`special` (the slot), sector, buffer and answer, per slot `cnt` and `dst`, and
the program counters and locals of the sender and of each receiver. What
happens under one lock is one action: `dnbd2_request` is `Accept`, `Discard` or
`PoolFull`; `dnbd2_tx_loop` is `TxDequeue`, `TxLock`, `TxEnqueue`, `TxXmit`,
`TxLoad`, `TxStore` or, if the device does not run, `TxEnd`, `TxFree`;
`dnbd2_rx_loop` is `RxFind`, `RxEnd`, `RxFree`. `info->cnt++` has no lock, so it
is two actions. Use of `req->special` after the request is in the
pending-queue reads whatever is there by then.

Abstractions: the elevator is a set (any order). `info->last_dst` is replaced
by a choice in `TxStore`: `cnt` is counted up or reset to 1. The data set is
fixed and all servers have it. A requeue tick is a sequence of single
moves. Time: any request sent once may be requeued. The build for kernels
before 2.6.25 is modelled. `net` is a set of datagrams: `RxFind` may leave the
reply in it (duplication), `Lose` removes one (loss, and replies nobody waits
for), and order means nothing (reordering). `txPc = "oops"` is a NULL
dereference with the semaphore held, after which the sender is gone.

### Dnbd2Servers

State: per slot the socket's address, the receiver and the pending works; the
active server; who holds `servers_mutex`; the writer of sysfs files; control
requests with their memory; the three timers; emergency mode and list. Block
requests are a number, `reqs`. The writer that starts or stops the device
(`store_running`) and the handlers of timers do not take `servers_mutex`; an
actor that does is one action up to the next place where it blocks or where
one of these can interfere. `del_server` is two: kill the receiver, and wait
for its end.

Abstractions: a timeout may come at any time (`Dnbd2Timing` has the times), any
other configured server may be the faster one (`Dnbd2Rtt` has the choice). A
handler that runs while its timer is deleted adds it again: a choice in
`StartEmergency`. Reading a freed request (`schedule_del_server(info->dst)`)
yields any slot. `cnt` saturates at `MaxSends + 1`. A NULL dereference or BUG
sets `crashed`, and the model stops. A late reply is matched with any control
request of its kind and server that was sent for the same data set.

### Dnbd2Timing

One active server, one block request, one control request, while the device
runs. The clock (`Tick`) goes in steps of `REQUEUE_INTERVAL`, 1/20 s. The sender
may take any time between its three steps: `Send` (into the pending-queue) or
`Discard`, and `Count` (`cnt++`, after the datagram). `Requeue`, the tick of the
requeue timer, looks at the request whether it was counted or not, so that a
count may pass the 4 at which the request is given up. `ToTick` is the tick of
the take-over timer with the work it schedules: another server becomes the
active one, or there is none and emergency mode begins (`StartEmergency`), in
which the stalled server stays active, both timers are off and nothing is given
up; the answer to a heartbeat (`StopEmergency`) starts them again.

`held` is a history variable: a tick of the requeue timer has found the request
in the send-queue or not yet counted, or there was no tick because of emergency
mode. `Detected` speaks of the time outside emergency mode, `ControlEnds` of
requests that are not held; `NotHasty` of all.

Abstractions: a second has a whole number of steps; timers run when they are due
and a scheduled work runs at once, so that a bound here is one of the code and
not of the load. `del_timer` stops a timer (that it may not is
`EmergencyStopsTimers` of `Dnbd2Servers`). After a take-over the new server's
`last_reply` is any age. Ages end at a cap beyond all thresholds; the 16-bit
wrap-around of `diff` is left out. What a sender does with a request that was ended under its hands is not
looked at here (`SenderOwnsRequest` of `Dnbd2Servers`).

### Dnbd2Rtt

The smoothed time `srtt` is in 1/1024 jiffy; `Smooth` is the code's expression,
each product reduced modulo `Word`, the number of values of an `unsigned long`.
The stores of `srtt`, `min` and `max`, for which the receiver takes no lock, are
one step.
`prev` records the server a take-over has just left.

### Dnbd2Server

`pc` is the place in `main` or `configure`; signals may come between any two
steps and make a waiting `recvfrom` return. Descriptors are a table with the
lowest free one taken first, as the kernel does it; `open` is what each is
open on. `configure` opens the file (`OpenConfig`), takes one line after the
other (`ParseLine`), closes the file (`CloseConfig`), binds (`Bind`, which may
fail), and then replaces; signals and queries may arrive between two lines. A
line adds an image to the new tree, or nothing if a file is missing; a dataset
file that cannot be parsed stays open, and so does the image of a dataset that
was in a line above, and the configuration file if its address is wrong. The
lines are those of the file as it was when it was opened: an administrator who
overwrites the file in place while it is read is left out. A payload has two
parts, so that a read at the end of an image, or one that fails, can fill one and
leave the other: `FileRead` returns -1 after none, one or both. `HandleQuery`
ignores that, as the code does, so the block of a failed read has the data of an
earlier reply: `ReplyRight` claims its number and nothing of its contents
(`ret` is the history variable that tells). If the size cannot be had there is no
reply, and an unknown command is answered with whatever the buffer holds. Lists
of servers are not empty. The views of the runs leave out what is dead in the
two buffers. For `Dnbd2Server.cfg`, which claims nothing of what an earlier reply
left in the payload, they keep of that only whether the second part is in use;
`Dnbd2ServerAlso.cfg` keeps all of it.

### Dnbd1Cache

A node is memory from `kmalloc`; `tree` is the set of nodes linked under
`cache->root` (that the kernel's tree finds what was put into it is assumed),
`prev`, `next`, `head` and `tail` are the list's pointers. A call is one action,
as `cache->sema` is held throughout. Writing to the cache file, reading it and
`kmalloc` may fail; all servers have the same image, so that the contents of a
block are named after its sector. `Set` is a call that succeeds: one that fails
leaves `fname` pointing to freed memory and calls `fput` with an error pointer
(cache.c:368, 395-398), which is left out. Following a pointer to freed memory or NULL
sets `fault`, and the model stops.

### Dnbd1Requests

State: per request the blocks it asks for, those copied so far and its outcome;
the two queues with the oldest request first (`list_add` at the head, taken from
the tail); the locals of the sender and of the receiver; the datagrams; the
session. The sender is `TxDequeue`, `TxSearch`, then `TxHit`, or `TxMiss` and
`TxSend`; the receiver `RxMatch` and `RxEnd`, or `RxCache`. `BlockCache` stands for
`cache.c`, and `Dnbd1Cache` shows that it may, as long as there is one session
and no write fails that reuses a block; in later sessions nothing is cached.
A session begins with `Start` (the receiver) and `StartTx`, and ends with
`Disconnect` (or `LateStop`), `TxExit`, `RxExit`, `ClearQueues`, `StateOff`,
`Finish`; the third thread, which only sends heartbeats, ends with the receiver.
`StateOff` and `ClearQueues` belong to different threads and come in either
order, as in the code; `ClearQueues` may even come when the next session has one
thread or both, or after the next session's own: `clearing` counts them, and it
tests the two threads one by one. It wakes up every `dnbd_do_it` that sleeps
(`asleep`), which goes on to `dnbd_stop` (`late`) whatever it was woken up for,
since `dnbd_wait_threads_finished` does not look again.

Abstractions: a read has whole blocks, one for each reply. The choice of the
server is left out, since any server may answer any request. Time: any request
in the receiver's queue may be old enough for the timer, which moves requests
one by one, though the code keeps the lock of that queue for all of them.
`dnbd_do_it` is taken to sleep as soon as its threads run, and nobody
disconnects a device, or stops it again, while its threads start or end. With
`Smp` there are several processors: spinlocks exclude the one that holds them,
and a timer that runs while `dnbd_shutdown` deletes it goes on (`TimerRuns`);
on one processor a timer's handler ends before `del_timer` can be called.
`ClearQueues` is the emptying of the queues and the wake-up that follows. The
servers can always read their image: a reply that is sent although
`filer_readblock` failed is not modelled.

### Dnbd1Server

State: the ring, which of its slots are still in network byte order, the three
indices, and the places of receiver and handlers. `heard` is a history variable
for `DropHeard`. The recursive mutex is not a variable: what is done with it held
is one action. A query is a read or a heartbeat, for any server or for this one
(`here`); what has a wrong magic number or comes from a server is treated like
what is for another server. The times of a new ring are whatever `malloc` left.

## 3. The runs

| Run | Bounds | Shows |
|---|---|---|
| `dnbd2_requests` | 2 requests, 2 slots, 1 server, 2 sectors | Type, `OneHolder`, `SlotExclusive`, `PendingReqsExact`, `RightData`, and `BlockDevice` implemented. Two requests on two sectors and slots suffice for every pairwise confusion: of slots, of sectors, of queue positions, of the sender and a receiver. |
| `dnbd2_requests_live` | 1 request, 1 slot, 2 servers | `Answered`: under loss, retransmission and take-over a reader gets an answer, unless the driver wedges. |
| `dnbd2_servers` | 2 slots, 1 host, 1 data set, 1 control request, 1 block request | `ActiveSet`, `TimersRun`, `ReceiverRuns`, `OneHolder`. Two slots are what take-over, removal of the other and re-use of a slot need. |
| `dnbd2_servers_control` | 1 slot, 2 control requests, 2 sends | `OneHolder` with requests that overtake each other and are given up. |
| `dnbd2_timing` | 4 ticks to the second, 5 sends | `Detected`, `ControlEnds`, `NotHasty`; all ages up to the cap. Four ticks are one more than the three that a request is sent at after its first second. |
| `dnbd2_rtt` | 2 slots, `RTT_MAX` 2, samples 0, 2, 3 | `SrttBounded`, `Unmeasured`, `TakeOverImproves`: all smoothed values up to 2048 are reached. |
| `dnbd2_server` | 5 descriptors, 4 configurations (two addresses, a data set listed twice, an image that changes place, an unreadable file), images of three and of one half block | `OneConfiguration`, `DescriptorsRight`, `ReplyRight`, up to the exhaustion of descriptors. |
| `dnbd1_cache` | 3 blocks, 4 sectors, 1 session | `NoFault`, `OneOwner`, `ListIsTree`, and `BlockCache` implemented. Three nodes are a head, a middle and a tail; a fourth sector evicts. |
| `dnbd1_requests` | 2 reads of 2 blocks, 3 blocks, cache of 2, 2 sessions, 1 reply under way when another is overheard | `OneHolder`, `RightData`, and `ReadService` implemented. In the second session the queues may be emptied for the first. Two reads of the same blocks can meet in every queue and every thread; the third block fills the cache. The same holds with `Smp = TRUE`. |
| `dnbd1_requests_live` | 1 read of 2 blocks, cache of 1, 1 session | `Answered` and `Ends`. |
| `dnbd1_server` | 1 handler, 4 slots, 3 queries, 2 seconds | `ImplementsRequestQueue`, `DropHeard`, `Handled`. With four slots a query in slot 3 can be dropped for one in slot 2 that was dropped for one in slot 1. |

One run ends in a violation, of a promise of a comment that the code does not
keep (`PROJECT.json`, "findings", has the quote): `dnbd2_removal_deadlock`, where
`del_server`, with `servers_mutex` held, waits for a receiver that waits for that
semaphore (`RemovalEnds`, servers.h:33).

Further configurations, not listed as runs. In these TLC finds the property
violated (with `-continue -workers 1` where a configuration has more than one):

| Configuration | Module | Property | What happens |
|---|---|---|---|
| `Dnbd2RequestsLeak.cfg` | `MCDnbd2Requests` | `SlotsFreed` | a reply that overtakes `info->cnt++` leaves its slot in use for ever (core.h:67) |
| `Dnbd2RequestsSpin.cfg` | `MCDnbd2Requests` | `Dispatched` | with the pool exhausted `dnbd2_request` loops and holds the lock that freeing a slot needs (core.h:27) |
| `Dnbd2TimingFour.cfg` | `MCDnbd2Timing` | `FourSeconds` | after one second a control request is sent again at every tick, and given up at the fourth (servers.h:48) |
| `Dnbd2ServersActive.cfg` | `MCDnbd2Servers` | `ActiveConfigured` | a removal that was queued overtakes a start: the active server has no socket (sysfs.c:212) |
| `Dnbd2ServersEmergency.cfg` | `MCDnbd2Servers` | `EmergencyStopsTimers` | a running handler re-arms its timer after `del_timer` (core.c:431) |
| `Dnbd2ServersCapacity.cfg` | `MCDnbd2Servers` | `CapacityRight` | a late `CMD_GET_SIZE` reply is the size of the next data set (servers.c:289) |
| `Dnbd2ServersFreed.cfg` | `MCDnbd2Servers` | `SenderOwnsRequest` | a late reply frees a request that is being sent again (core.c:153) |
| `Dnbd2ServersFreed.cfg` | `MCDnbd2Servers` | `SendsBounded` | the count of sends steps over the 4 it is compared with (core.c:368) |
| `Dnbd2TimingIdle.cfg` | `MCDnbd2Timing` | `DownOnlyIfOwed` | a server that was idle is given up at the first request (servers.c:112) |
| `Dnbd2ServerAlso.cfg` | `MCDnbd2Server` | `Remembered` | SIGHUP during a reload is forgotten (main.c:102) |
| `Dnbd2ServerAlso.cfg` | `MCDnbd2Server` | `Awake` | SIGHUP just before `recvfrom` waits for a datagram (main.c:107) |
| `Dnbd2ServerAlso.cfg` | `MCDnbd2Server` | `FdsFreed` | a reload leaves the old images open (tree.c:27) |
| `Dnbd2ServerAlso.cfg` | `MCDnbd2Server` | `PayloadOwn` | the rest of a short block, or all of one that could not be read, is another image's data (query.c:44) |
| `Dnbd1CacheOne.cfg` | `MCDnbd1Cache` | `NoFault` | in a cache of one block the tail has no predecessor (cache.c:197) |
| `Dnbd1CacheAgain.cfg` | `MCDnbd1Cache` | `NoFault` | the tree of the last session is searched in the next one (cache.c:305-330) |
| `Dnbd1CacheShared.cfg` | `MCDnbd1Cache` | `OneOwnerAlways` | after a failed write that reused a block, a new entry gets another one's block (cache.c:238) |
| `Dnbd1RequestsEnd.cfg` | `MCDnbd1Requests` | `NobodyLeft` | a request that had passed the test of the state is queued after the queues were emptied (main.c:806) |
| `Dnbd1RequestsEnd.cfg` | `MCDnbd1Requests` | `SessionKept` | `dnbd_do_it` of the last session stops the next one (main.c:932) |
| `Dnbd1RequestsSmp.cfg` | `MCDnbd1Requests` | `NoSelfLock` | the queues are emptied with the lock held that ending a request takes (main.c:112, 1173) |
| `Dnbd1ServerBurst.cfg` | `MCDnbd1Server` | `OneSecond` | a read is dropped for one that is older than the second of the comment (query.c:191) |
| `Dnbd1ServerHeartbeat.cfg` | `MCDnbd1Server` | `OnlyReads` | a heartbeat counts as a read of block 0 (query.c:200) |
| `Dnbd1ServerThreads.cfg` | `MCDnbd1Server` | `ImplementsRequestQueue` | with two handlers the receiver overwrites a query in hand (query.c:68); the option `-t` allows it, and `query_thread` has room for one (query.c:34) |

`Dnbd2ServerTerm.cfg` holds: under `FairSpec` the data server ends after SIGTERM
(`TermEnds`).

`CHECK_DEADLOCK FALSE` is set where the system may stop: a wedged or crashed
driver, a stopped data server, a device whose sessions are over.

### Fairness

- `Dnbd2Requests`: threads, the elevator and the timer run (weak fairness).
  Strong fairness where a step is enabled again and again but not all the time:
  reception, a server's answer and the second look at `special` compete with the
  tick of the requeue timer, which comes every 50 ms, and cannot always lose;
  `blk_lock` is passed on. Nothing is assumed of `Submit`, sysfs writers, loss or
  duplication, except that not every answer that is awaited is lost. Two
  readers of one sector can starve each other of replies under these
  assumptions, for a reply goes to the first; so the run has one reader.
- `Dnbd2Servers` (only for `RemovalEnds`): sender, receivers and the two
  waits run.
- `Dnbd2Server`: the process runs and clients go on asking (a driver sends a
  heartbeat every 30 s). The latter is needed: SIGTERM between the test of its
  flag and `recvfrom` takes effect after the next datagram.

- `Dnbd1Requests`: threads and timer run (weak). Strong fairness: the tick of the
  timer does not always fall between the sender's last two steps; not every
  answer that is awaited is lost; an exit that SIGKILL demands happens, though
  the thread may find more to do. `Answered` leaves out a read for whose next
  block another read waits: the newest is answered first.
- `Dnbd1Server`: the receiver and the handler run; the receiver, which asks for
  the mutex in a loop while the ring is full, does not keep it for ever.

## 4. The proofs

`tlapm Dnbd2Requests_proofs.tla`, for any finite number of requests and any
sets of slots, servers and sectors (`ConstantsAssumption`):

- `Invariance`: `Spec => []IInv`. `IInv` is the conjunction of the type
  invariant, `OneHolder`, `SlotExclusive`, `RightData` and three parts that make
  it inductive: `LocalsInv` (what the threads' locals refer to), `FreeingInv` (a
  slot about to be freed belongs to no request and to one thread) and
  `RunningInv` (a request is past the test of the sender only while the device
  runs, which cannot stop while it is open). Without `FreeingInv`, a step that
  frees a slot could free another request's; without `RunningInv`, a receiver
  could end a request the sender fails. One lemma per action.
- `TypeCorrect`, `NothingLost`, `SlotsExclusive`, `DataIsRight` follow at once.
- `PendingReqsCounted`: the counter is the cardinality of the accepted
  requests, a second induction over `IInv`.
- `Refinement`: `Spec => ImplementsBlockDevice`. The mapping shows a request's
  buffer only when it was answered; `RxEnd` is `Serve`, `TxEnd` and `Discard` are
  `Fail`, start and stop are `Toggle`, the rest stutters.

`tlapm Dnbd2Times_proofs.tla`, about `Dnbd2Rtt` for any number of servers, any
`RTT_MAX` whose products fit a word (`WordAssumption`), any thresholds:

- `SmoothConverges`: a sample draws the mean towards itself, never beyond;
- `RttInvariance`, `RttTypeCorrect`, `SrttIsBounded`, `NothingLeft`,
  `TakeOversImprove`: the inductive invariant adds `Unmeasured`, without which a
  slot used again could show the last server's times;

and about `Dnbd2Timing` for any HZ (`SecondAssumption`; `NoneAssumption`: `None` is
not a request):

- `TimingInvariance`: the inductive invariant, of four parts. `StallInv`: outside
  emergency mode a server's silence or its debt, with the time its timer still
  has to run, is within `TIMEOUT_STALLED` and a second; one of the two is, and
  each step that sets one back to zero leaves it so. `UpperInv`: a request has
  been sent at most once and once more at every tick after its first second,
  for any sender. `LowerInv`: at least as often, if no tick missed it; then
  both say that the count cannot step over 4. `ModeInv`: what emergency mode has
  switched off is not due.
- `TimingTypeCorrect`, `StallDetected`, `ControlIsBounded` (from `LowerInv`) and
  `NeverHasty` (from `UpperInv`) follow: the counter that ends a request gives a
  bound in time, three ticks beyond its first second, although no clock is
  compared. Without the sender's pace only the lower bound holds.

`tlapm Dnbd2Server_proofs.tla`, for any descriptors, addresses, data sets, images,
sizes, contents of the configuration file and length of the socket's queue
(`ConstantsAssumption`; `KindsAssumption`: an image, an address and the
configuration file are different things, so that a descriptor is open on one):

- `Invariance`: `TypeOK`, `ReplyRight` and
  - `ServeInv`: the socket is open on the address in use, the data sets of the
    tree have descriptors of their own, and there is one configuration that
    names the address and every image in the tree;
  - `ReadInv`: the same of the tree being read, and the lines still to be read
    are from the configuration that its lines are from. Both trees share one
    table of descriptors: what keeps a reload from disturbing the tree in use is
    that new descriptors are free ones (`LowestIsFree`) and that only the
    configuration file's and the socket's are ever closed (`FileInv`,
    `HoldsStill`);
  - `BlankInv`: each reading begins with an empty tree, and the first one
    without a socket; `AskInv`: a query in hand is of a data set in the tree.
- `TypeCorrect`, `ServesOneConfiguration`, `DescriptorsAreRight`,
  `RepliesAreRight` follow, the last for reads that do not fail and commands that
  are known. They hold although descriptors leak
  (`FdsFreed`): a reload that runs out of them serves less, never something else.

`tlapm Dnbd1Cache_proofs.tla`, for any nodes and sectors, under two assumptions
that the code does not enforce and without which the properties fail
(`Dnbd1CacheAgain.cfg`, `Dnbd1CacheOne.cfg`): the device is bound once
(`OneSession`), and the cache file has room for two blocks (`TwoBlocks`):

- `Invariance`: the list is an injective sequence of the tree's nodes, of length
  `used_blocks`; entries have different sectors and, until a write fails that
  reuses a block, own different blocks, numbered below `used_blocks`. The last
  part is what makes `OneOwner` inductive: a new entry gets the first free number.
- `TypeCorrect`, `PointersSound`, `BlocksOwned`, `ListSound` follow.
- `Refinement`: `Spec => ImplementsBlockCache`, the refinement up to the first
  write that fails for a reused block. The mapping chooses a list;
  `UniqueList` shows that first node and links leave it no choice (`LastReached`
  in `QueueLemmas` is the induction, by counting a finite set), and
  `Moved` and `Linked` say which list each change of the pointers yields.

`tlapm Dnbd1Requests_proofs.tla`, for any requests, blocks, cache and bounds, with
one processor or several:

- `Invariance`: besides the type, `OneHolder` and `RightData`, what the threads
  remember (`LocalsInv`): a request that waits is incomplete, a hit is for the
  first block that is missing, and cached blocks are their own; and
  (`SessionInv`) which threads there are in each phase, and that the sessions so
  far bound the calls of `dnbd_end_io` and `dnbd_do_it` that are still to come.
- `TypeCorrect`, `NoneLost`, `DataRight` follow.
- `Refinement`: `Spec => ImplementsReadService`. `TxHit` and `RxEnd` are `Fill` (or
  stutter, after a short reply), `ClearQueues` is `Fail` of the `Orphans`, which
  wait because of `OneHolder` and are none while both threads run; that `StateOff`
  finds no thread, and `StartTx` a receiver, is `SessionInv`.

`tlapm Dnbd1Server_proofs.tla`, for any size of the ring:

- `TypeCorrect`, for any number of handlers: the mutex is all it takes;
- `Refinement`, for one handler: what lies between the indices is the abstract
  queue. `InHand` is what a second handler breaks: the slot of the query in
  progress is outside the ring's used part, and stays as it was.
- `DropsAreHeard`, for one handler: `HeardInv` adds that, unless the receiver is
  a lap ahead, the slots from 1 to the handler's are those handled in this lap.

`tlapm Dnbd2Servers_proofs.tla`, for any number of slots, servers and control
requests (`ConstantsAssumption`; `RequestAssumption`: a request is not `None`):

- `Invariance`: `TypeOK`, `OneHolder`, `TimersRun`, `ReceiverRuns` and
  - `LockInv`: whoever is at a step that needs `servers_mutex` holds it, and a
    slot is being removed exactly while one of those that remove slots does.
    Without it, `ReceiverRuns` fails at a second removal;
  - `StartInv`: `ActiveSet`, and that the writer sets and clears the active
    server only while the device is stopped;
  - `LocalsInv`: what the threads hold between their steps.
- `TypeCorrect`, `NothingLost`, `ActiveServerSet`, `TimersKept` and
  `ReceiversKept` follow.

Every invariant, action property and refinement that a passing run checks is a
theorem. Only model-checked: all liveness (`Answered`, `Ends`, `Handled`,
`TermEnds`, and the violated `Dispatched` and `RemovalEnds`), since the prover
does not handle fairness and `ENABLED`. No model folds over its data: what a fold
computes is an induction over data, out of the prover's reach; `configure`'s loop
is one action per line.

## 5. Not modelled

- The build for kernels from 2.6.25 on differs in how a request is ended.
- Module loading, `add_device`, `del_device` and the sender's thread: its end by
  SIGKILL can be lost inside `sock_xmit` (devices.c:78).
- Syntax of configuration files and of the sysfs files, daemonizing, logging,
  the test client, the init script.
- A clock of 16 bits that wraps around (misc.c:12).
- DNBD: the choice of a server (net.c), the ioctls that set sizes, the options
  and the image reader of the server.
- OekPool and OpenSLX proper: see the plan. The remaining components of
  `PROJECT.json` are front ends, sequential shell scripts or third-party code.

The map covers a small share of the repository's lines: most of them are copies
of third-party programs (busybox and hwinfo in many versions), scripts that run
one at a time, and older branches of the same code. What is concurrent,
distributed or retried is in the drivers, and there most lines are mapped.

## 6. Plan

Done: the modules above. Left, in this order: the life cycle of a DNBD2 device
(`devices.c`); the choice of a server in DNBD's `net.c`; the power states of an
OekPool client; transactions of config-db.
