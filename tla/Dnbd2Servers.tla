---------------------------- MODULE Dnbd2Servers ----------------------------
(***************************************************************************)
(* The servers of one DNBD2 device (src/contrib/dnbd2/trunk/kernel,        *)
(* servers.c and the control half of core.c): configuration through sysfs, *)
(* start and stop of the device, the control requests CMD_GET_SIZE and     *)
(* CMD_GET_SERVERS, the three timers, the two kinds of queued work,        *)
(* take-over and emergency mode.                                           *)
(*                                                                         *)
(* Actors: one writer of sysfs files at a time (config_mutex), the sender, *)
(* a receiver per configured server, the timers' handlers and the works.   *)
(* All but the writer that starts or stops the device and the handlers     *)
(* take servers_mutex; what they do with it held is one action up to the   *)
(* next point at which they block or an actor without it can interfere.    *)
(*                                                                         *)
(* Block requests are a number here: Dnbd2Requests has their data path.    *)
(* Time is left out: a timeout may come at any moment, and a take-over may *)
(* find any other server faster.                                           *)
(***************************************************************************)
EXTENDS Integers, SequencesExt

CONSTANTS
    NSlots,    \* ALT_SERVERS_MAX
    Hosts,     \* addresses (ip, port) of servers
    Datasets,  \* (vid, rid) pairs; as a size: that of the dataset
    MaxSends,  \* sends of a control request before it is given up (4)
    Ctl,       \* bound: memory for control requests outstanding at one time
    MaxReqs,   \* bound: block requests outstanding at one time
    None       \* NULL, no address, (0, 0)

ASSUME ConstantsAssumption ==
    /\ NSlots \in Nat \ {0} /\ MaxSends \in Nat \ {0} /\ MaxReqs \in Nat \ {0}
    /\ None \notin Hosts \cup Datasets \cup Ctl \cup (0 .. NSlots)

Slots == 0 .. NSlots - 1
Timers == {"requeue", "hb", "to"}

\* A control request: kind, server, number of sends (MaxSends + 1 for all that
\* are larger), dataset of the last.
Request == [cmd : {"size", "servers"}, dst : Slots, cnt : 0 .. MaxSends + 1,
            ds : Datasets \cup {None}]

ASSUME RequestAssumption == None \notin Request

VARIABLES
    ds, running, diskCap, reqs,  \* vid and rid, dev->running, disk capacity,
                                 \* dev->pending_reqs
    active,                      \* dev->active_server
    sock, capacity,              \* per slot: address of the socket (None: no
                                 \* socket), srv_info->capacity
    emergency, emerg,            \* dev->emergency, dev->emerg_list
    armed,                       \* the timers: pending, or in their handlers
    mutex, victim,               \* holder of servers_mutex, and the slot that
                                 \* it is removing
    toAdd,                       \* addresses it has yet to try_add_server
    ctl,                         \* memory of control requests (None: free)
    sendQueue, pendingQueue,     \* the control requests in the two queues
    txPc, txReq,                 \* dnbd2_tx_loop: place, request in hand
    rxPc, rxReq,                 \* each dnbd2_rx_loop: likewise
    userPc, userAt, userArg,     \* the writer: place, slot, value in hand
    delWork, toWork,             \* works queued
    toPc, toArg,                 \* activate_fastest_work: place, new server
    crashed                      \* NULL dereference or BUG

devVars == <<ds, running, diskCap, reqs>>
slotVars == <<sock, capacity>>
emVars == <<emergency, emerg, armed>>
lockVars == <<mutex, victim, toAdd>>
queueVars == <<sendQueue, pendingQueue>>
txVars == <<txPc, txReq>>
rxVars == <<rxPc, rxReq>>
userVars == <<userPc, userAt, userArg>>
toVars == <<toPc, toArg>>
workVars == <<delWork, toWork, toVars>>
vars == <<devVars, active, slotVars, emVars, lockVars, ctl, queueVars, txVars,
          rxVars, userVars, workVars, crashed>>

Configured == {i \in Slots : sock[i] # None}

\* The state after add_device.
Init ==
    /\ ds = None /\ running = FALSE /\ diskCap = None /\ reqs = 0
    /\ active = None
    /\ sock = [i \in Slots |-> None] /\ capacity = [i \in Slots |-> None]
    /\ emergency = FALSE /\ emerg = [i \in Slots |-> None]
    /\ armed = [t \in Timers |-> TRUE]
    /\ mutex = "free" /\ victim = None /\ toAdd = <<>>
    /\ ctl = [c \in Ctl |-> None]
    /\ sendQueue = <<>> /\ pendingQueue = <<>>
    /\ txPc = "idle" /\ txReq = None
    /\ rxPc = [i \in Slots |-> "off"] /\ rxReq = [i \in Slots |-> None]
    /\ userPc = "idle" /\ userAt = 0 /\ userArg = None
    /\ delWork = [i \in Slots |-> FALSE] /\ toWork = FALSE
    /\ toPc = "idle" /\ toArg = None
    /\ crashed = FALSE

-----------------------------------------------------------------------------
(* Parts of several actions.                                               *)

\* add_server: a socket and its receiver.
AddServer(i, h) ==
    /\ sock' = [sock EXCEPT ![i] = h]
    /\ rxPc' = [rxPc EXCEPT ![i] = "recv"]

\* A control request for slot i, put in the send-queue.
Enqueue(c, cmd, i) ==
    /\ ctl[c] = None
    /\ ctl' = [ctl EXCEPT ![c] = [cmd |-> cmd, dst |-> i, cnt |-> 0,
                                  ds |-> None]]
    /\ sendQueue' = Append(sendQueue, c)
    /\ UNCHANGED pendingQueue

\* dnbd2_end_request of a control request.
EndControl(c) == ctl' = [ctl EXCEPT ![c] = None]

\* A reply of this kind to slot i for the present dataset, and the request
\* dnbd2_find_request finds for it: the first pending one.
Matches(cmd, i, k) ==
    LET hits(j) == /\ ctl[pendingQueue[j]].cmd = cmd
                   /\ ctl[pendingQueue[j]].dst = i
    IN /\ hits(k) /\ \A j \in 1 .. k - 1 : ~hits(j)
       /\ \E j \in DOMAIN pendingQueue :
             hits(j) /\ ctl[pendingQueue[j]].ds = ds

-----------------------------------------------------------------------------
(* The writer of sysfs files.                                              *)

\* store_vid and store_rid.
StoreDataset(d) ==
    /\ userPc = "idle" /\ ~running
    /\ ds' = d
    /\ UNCHANGED <<running, diskCap, reqs, active, slotVars, emVars, lockVars,
                   ctl, queueVars, txVars, rxVars, userVars, workVars, crashed>>

\* store_sock.  del_server of a slot in use kills the receiver and waits.
StoreSock(i, h) ==
    /\ userPc = "idle" /\ mutex = "free"
    /\ ~(running /\ active = i)
    /\ mutex' = "user" /\ victim' = i
    /\ userPc' = "replacing" /\ userArg' = h
    /\ UNCHANGED <<devVars, active, slotVars, emVars, toAdd, ctl, queueVars,
                   txVars, rxVars, userAt, workVars, crashed>>

\* There is no receiver any more: the slot is cleared, all but its capacity,
\* and used for the address written, if any and if a socket can be had.
Replaced ==
    /\ userPc = "replacing" /\ rxPc[victim] = "off"
    /\ \/ userArg # None /\ AddServer(victim, userArg)
       \/ sock' = [sock EXCEPT ![victim] = None] /\ UNCHANGED rxPc
    /\ mutex' = "free" /\ victim' = None
    /\ userPc' = "idle" /\ userArg' = None
    /\ UNCHANGED <<devVars, active, capacity, emVars, toAdd, ctl, queueVars,
                   txVars, rxReq, userAt, workVars, crashed>>

\* store_active.
StoreActive(i) ==
    /\ userPc = "idle" /\ mutex = "free"
    /\ running /\ sock[i] # None /\ active # i
    /\ active' = i
    /\ UNCHANGED <<devVars, slotVars, emVars, lockVars, ctl, queueVars, txVars,
                   rxVars, userVars, workVars, crashed>>

\* store_running(1), without servers_mutex: ask one server after the other
\* for the capacity.
Start ==
    /\ userPc = "idle" /\ ~running /\ ds # None
    /\ userPc' = "scan" /\ userAt' = 0
    /\ UNCHANGED <<devVars, active, slotVars, emVars, lockVars, ctl, queueVars,
                   txVars, rxVars, userArg, workVars, crashed>>

\* srv_get_capacity of the next configured server.
Ask(c) ==
    /\ userPc = "scan"
    /\ \E i \in Configured :
         /\ i >= userAt
         /\ \A j \in Configured : j >= userAt => i <= j
         /\ Enqueue(c, "size", i)
         /\ userAt' = i
    /\ userPc' = "waiting"
    /\ UNCHANGED <<devVars, active, slotVars, emVars, lockVars, txVars, rxVars,
                   userArg, workVars, crashed>>

\* No server is left (or no memory for the request): -EHOSTUNREACH.
Unreachable ==
    /\ userPc = "scan"
    /\ (\A i \in Configured : i < userAt) \/ \A c \in Ctl : ctl[c] # None
    /\ userPc' = "idle" /\ userAt' = 0
    /\ UNCHANGED <<devVars, active, slotVars, emVars, lockVars, ctl, queueVars,
                   txVars, rxVars, userArg, workVars, crashed>>

\* The capacity is there: it is taken, and reset.
Answered ==
    /\ userPc = "waiting" /\ capacity[userAt] # None
    /\ userArg' = capacity[userAt]
    /\ capacity' = [capacity EXCEPT ![userAt] = None]
    /\ userPc' = "answered"
    /\ UNCHANGED <<devVars, active, sock, emVars, lockVars, ctl, queueVars,
                   txVars, rxVars, userAt, workVars, crashed>>

\* Four seconds have passed.
GiveUpAsking ==
    /\ userPc = "waiting"
    /\ capacity' = [capacity EXCEPT ![userAt] = None]
    /\ userPc' = "scan" /\ userAt' = userAt + 1
    /\ UNCHANGED <<devVars, active, sock, emVars, lockVars, ctl, queueVars,
                   txVars, rxVars, userArg, workVars, crashed>>

\* Mutant: running is set before the active server.
RunBeforeActive ==
    /\ userPc = "answered"
    /\ diskCap' = userArg /\ userArg' = None
    /\ running' = TRUE
    /\ userPc' = "starting"
    /\ UNCHANGED <<ds, reqs, active, slotVars, emVars, lockVars, ctl,
                   queueVars, txVars, rxVars, userAt, workVars, crashed>>

SetActive ==
    /\ userPc = "answered"
    /\ diskCap' = userArg /\ userArg' = None
    /\ active' = userAt
    /\ userPc' = "starting"
    /\ UNCHANGED <<ds, running, reqs, slotVars, emVars, lockVars, ctl,
                   queueVars, txVars, rxVars, userAt, workVars, crashed>>

SetRunning ==
    /\ userPc = "starting"
    /\ emerg' = sock
    /\ running' = TRUE
    /\ userPc' = "idle" /\ userAt' = 0
    /\ UNCHANGED <<ds, diskCap, reqs, active, slotVars, emergency, armed,
                   lockVars, ctl, queueVars, txVars, rxVars, userArg, workVars,
                   crashed>>

\* store_running(0) of a device nobody has open.
Stop ==
    /\ userPc = "idle" /\ running /\ reqs = 0
    /\ running' = FALSE /\ diskCap' = None
    /\ userPc' = "stopping"
    /\ UNCHANGED <<ds, reqs, active, slotVars, emVars, lockVars, ctl,
                   queueVars, txVars, rxVars, userAt, userArg, workVars,
                   crashed>>

ClearActive ==
    /\ userPc = "stopping"
    /\ active' = None
    /\ userPc' = "idle"
    /\ UNCHANGED <<devVars, slotVars, emVars, lockVars, ctl, queueVars, txVars,
                   rxVars, userAt, userArg, workVars, crashed>>

\* The application reads a block.
BlockRequest ==
    /\ running /\ reqs < MaxReqs
    /\ reqs' = reqs + 1
    /\ UNCHANGED <<ds, running, diskCap, active, slotVars, emVars, lockVars,
                   ctl, queueVars, txVars, rxVars, userVars, workVars, crashed>>

User ==
    \/ \E d \in Datasets : StoreDataset(d)
    \/ \E i \in Slots : \/ StoreActive(i)
                        \/ \E h \in Hosts \cup {None} : StoreSock(i, h)
    \/ Replaced \/ Start \/ \E c \in Ctl : Ask(c)
    \/ Unreachable \/ Answered \/ GiveUpAsking
    \/ SetActive \/ SetRunning \/ Stop \/ ClearActive
    \/ BlockRequest

-----------------------------------------------------------------------------
(* dnbd2_tx_loop and dnbd2_send_request, for control requests.             *)

TxTake ==
    /\ txPc = "idle" /\ sendQueue # <<>>
    /\ txReq' = Head(sendQueue)
    /\ sendQueue' = Tail(sendQueue)
    /\ txPc' = "dequeued"
    /\ UNCHANGED <<devVars, active, slotVars, emVars, lockVars, ctl,
                   pendingQueue, rxVars, userVars, workVars, crashed>>

\* A request whose server is gone is discarded.
TxDiscard ==
    /\ txPc = "dequeued" /\ mutex = "free"
    /\ sock[ctl[txReq].dst] = None
    /\ EndControl(txReq)
    /\ txPc' = "idle" /\ txReq' = None
    /\ UNCHANGED <<devVars, active, slotVars, emVars, lockVars, queueVars,
                   rxVars, userVars, workVars, crashed>>

TxLock ==
    /\ txPc = "dequeued" /\ mutex = "free"
    /\ sock[ctl[txReq].dst] # None
    /\ pendingQueue' = Append(pendingQueue, txReq)
    /\ mutex' = "tx"
    /\ txPc' = "send"
    /\ UNCHANGED <<devVars, active, slotVars, emVars, victim, toAdd, ctl,
                   sendQueue, txReq, rxVars, userVars, workVars, crashed>>

\* What is noted of a send: the dataset asked for, one more.
Sent(c) == [c EXCEPT !.ds = ds, !.cnt = IF @ <= MaxSends THEN @ + 1 ELSE @]

\* The datagram is sent and counted, also if a receiver has answered the
\* request since TxLock and freed its memory.  Then the count is that of the
\* request which is there now, or whatever else is there is overwritten.
TxSend ==
    /\ txPc = "send"
    /\ IF ctl[txReq] # None
       THEN /\ ctl' = [ctl EXCEPT ![txReq] = Sent(@)]
            /\ UNCHANGED crashed
       ELSE UNCHANGED ctl /\ crashed' \in BOOLEAN
    /\ txPc' = "idle" /\ txReq' = None /\ mutex' = "free"
    /\ UNCHANGED <<devVars, active, slotVars, emVars, victim, toAdd, queueVars,
                   rxVars, userVars, workVars>>

Tx == TxTake \/ TxDiscard \/ TxLock \/ TxSend

-----------------------------------------------------------------------------
(* dnbd2_rx_loop of slot i.  A request that has been sent may be answered  *)
(* at any time, or never; vid and rid in the reply are those of the send.  *)

Receives(i) == rxPc[i] = "recv" /\ victim # i

\* Mutant: a repeated reply is counted, too.
RxBlockRepeated(i) ==
    /\ Receives(i)
    /\ reqs' = reqs - 1
    /\ UNCHANGED <<ds, running, diskCap, active, slotVars, emVars, lockVars,
                   ctl, queueVars, txVars, rxVars, userVars, workVars, crashed>>

\* A block is read: which server sent it makes no difference to the request.
RxBlock(i) ==
    /\ Receives(i) /\ reqs > 0
    /\ reqs' = reqs - 1
    /\ UNCHANGED <<ds, running, diskCap, active, slotVars, emVars, lockVars,
                   ctl, queueVars, txVars, rxVars, userVars, workVars, crashed>>

\* The request is taken off the pending-queue and ended.
RxSize(i) ==
    /\ Receives(i)
    /\ \E k \in DOMAIN pendingQueue :
          /\ Matches("size", i, k)
          /\ pendingQueue' = RemoveAt(pendingQueue, k)
          /\ EndControl(pendingQueue[k])
    /\ capacity' = [capacity EXCEPT ![i] = IF @ = None THEN ds ELSE @]
    /\ UNCHANGED <<devVars, active, sock, emVars, lockVars, sendQueue, txVars,
                   rxVars, userVars, workVars, crashed>>

\* Mutant: the heartbeat's request stays in the pending-queue.
RxServersKeeps(i) ==
    /\ Receives(i)
    /\ \E k \in DOMAIN pendingQueue :
          /\ Matches("servers", i, k)
          /\ rxReq' = [rxReq EXCEPT ![i] = pendingQueue[k]]
    /\ rxPc' = [rxPc EXCEPT ![i] = "handle"]
    /\ UNCHANGED <<devVars, active, slotVars, emVars, lockVars, ctl, queueVars,
                   txVars, userVars, workVars, crashed>>

\* A heartbeat is answered: it is kept until the servers are dealt with.
RxServers(i) ==
    /\ Receives(i)
    /\ \E k \in DOMAIN pendingQueue :
          /\ Matches("servers", i, k)
          /\ pendingQueue' = RemoveAt(pendingQueue, k)
          /\ rxReq' = [rxReq EXCEPT ![i] = pendingQueue[k]]
    /\ rxPc' = [rxPc EXCEPT ![i] = "handle"]
    /\ UNCHANGED <<devVars, active, slotVars, emVars, lockVars, ctl, sendQueue,
                   txVars, userVars, workVars, crashed>>

\* Mutant: the requeue timer is not started again.
StopEmergencyHalf(i) ==
    /\ active' = i
    /\ emergency' = FALSE
    /\ armed' = [armed EXCEPT !["hb"] = TRUE, !["to"] = TRUE]
    /\ crashed' \in {TRUE, armed["to"]}

\* stop_emergency.  To add a pending timer is a BUG, and so is to add the
\* heartbeat's while its handler, which del_timer does not wait for, does it.
StopEmergency(i) ==
    /\ active' = i
    /\ emergency' = FALSE
    /\ armed' = [t \in Timers |-> TRUE]
    /\ crashed' \in {TRUE, armed["requeue"] \/ armed["to"]}

\* With servers_mutex held: end of emergency mode, the emergency list, the
\* servers that the reply names.
RxHandle(i, others) ==
    /\ rxPc[i] = "handle" /\ mutex = "free"
    /\ mutex' = "rx"
    /\ rxPc' = [rxPc EXCEPT ![i] = "listing"]
    /\ IF emergency THEN StopEmergency(i)
       ELSE UNCHANGED <<active, emergency, armed, crashed>>
    /\ emerg' = [j \in Slots |-> IF j = 0 THEN sock[i]
                                 ELSE IF j <= Len(others) THEN others[j]
                                 ELSE None]
    /\ toAdd' = others
    /\ UNCHANGED <<devVars, slotVars, victim, ctl, queueVars, txVars, rxReq,
                   userVars, workVars>>

\* try_add_server of the next address, by a receiver or by start_emergency;
\* the socket may not be had.
TryAdd ==
    /\ toAdd # <<>>
    /\ toAdd' = Tail(toAdd)
    /\ LET h == Head(toAdd) IN
       \/ UNCHANGED <<sock, rxPc>>
       \/ /\ h # None
          /\ \A i \in Slots : sock[i] # h
          /\ \E i \in Slots \ Configured :
                /\ \A j \in 0 .. i - 1 : sock[j] # None
                /\ AddServer(i, h)
    /\ UNCHANGED <<devVars, active, capacity, emVars, mutex, victim, ctl,
                   queueVars, txVars, rxReq, userVars, workVars, crashed>>

RxDone(i) ==
    /\ rxPc[i] = "listing" /\ toAdd = <<>>
    /\ mutex' = "free"
    /\ EndControl(rxReq[i])
    /\ rxPc' = [rxPc EXCEPT ![i] = "recv"]
    /\ rxReq' = [rxReq EXCEPT ![i] = None]
    /\ UNCHANGED <<devVars, active, slotVars, emVars, victim, toAdd, queueVars,
                   txVars, userVars, workVars, crashed>>

\* SIGKILL from stop_rx_loop interrupts the reception.
RxExit(i) ==
    /\ rxPc[i] = "recv" /\ victim = i
    /\ rxPc' = [rxPc EXCEPT ![i] = "off"]
    /\ UNCHANGED <<devVars, active, slotVars, emVars, lockVars, ctl, queueVars,
                   txVars, rxReq, userVars, workVars, crashed>>

Lists == UNION {[1 .. n -> Hosts] : n \in 0 .. NSlots - 1}

Rx(i) == \/ RxBlock(i) \/ RxSize(i) \/ RxServers(i) \/ RxDone(i) \/ RxExit(i)
         \/ \E others \in Lists : RxHandle(i, others)

-----------------------------------------------------------------------------
(* The timers' handlers, which add their timers again at the end.  A tick  *)
(* is the same as some of these steps, at no time at all.                  *)

\* dnbd2_hb_timer, enqueue_hb: for a slot that is configured, if there is
\* memory.
Heartbeat(i, c) ==
    /\ armed["hb"] /\ running
    /\ sock[i] # None
    /\ Enqueue(c, "servers", i)
    /\ UNCHANGED <<devVars, active, slotVars, emVars, lockVars, txVars, rxVars,
                   userVars, workVars, crashed>>

\* dnbd2_to_timer.
ToTick ==
    /\ armed["to"] /\ running
    /\ toWork' = TRUE
    /\ UNCHANGED <<devVars, active, slotVars, emVars, lockVars, ctl, queueVars,
                   txVars, rxVars, userVars, delWork, toVars, crashed>>

\* dnbd2_requeue_timer moves a control request that is old enough.
Requeue(k) ==
    /\ armed["requeue"]
    /\ ctl[pendingQueue[k]].cnt \notin {0, MaxSends}
    /\ sendQueue' = Append(sendQueue, pendingQueue[k])
    /\ pendingQueue' = RemoveAt(pendingQueue, k)
    /\ UNCHANGED <<devVars, active, slotVars, emVars, lockVars, ctl, txVars,
                   rxVars, userVars, workVars, crashed>>

\* Mutant: the request is not taken off the queue.
GiveUpKeeps(k) ==
    /\ armed["requeue"]
    /\ ctl[pendingQueue[k]].cnt = MaxSends
    /\ EndControl(pendingQueue[k])
    /\ \E i \in Slots : delWork' = [delWork EXCEPT ![i] = TRUE]
    /\ UNCHANGED <<devVars, active, slotVars, emVars, lockVars, queueVars,
                   txVars, rxVars, userVars, toWork, toVars, crashed>>

\* After four sends it ends the request, frees its memory, and reads there
\* whose removal to schedule: another processor may have written it since.
GiveUp(k) ==
    /\ armed["requeue"]
    /\ ctl[pendingQueue[k]].cnt = MaxSends
    /\ EndControl(pendingQueue[k])
    /\ pendingQueue' = RemoveAt(pendingQueue, k)
    /\ \E i \in Slots : delWork' = [delWork EXCEPT ![i] = TRUE]
    /\ UNCHANGED <<devVars, active, slotVars, emVars, lockVars, sendQueue,
                   txVars, rxVars, userVars, toWork, toVars, crashed>>

Clock == \/ \E i \in Slots, c \in Ctl : Heartbeat(i, c)
         \/ ToTick
         \/ \E k \in DOMAIN pendingQueue : Requeue(k) \/ GiveUp(k)

-----------------------------------------------------------------------------
(* The works.                                                              *)

\* del_server_work: the active server is spared.
DelWork(i) ==
    /\ delWork[i] /\ mutex = "free"
    /\ delWork' = [delWork EXCEPT ![i] = FALSE]
    /\ IF sock[i] = None \/ active = i
       THEN UNCHANGED <<mutex, victim>>
       ELSE mutex' = "del" /\ victim' = i
    /\ UNCHANGED <<devVars, active, slotVars, emVars, toAdd, ctl, queueVars,
                   txVars, rxVars, userVars, toWork, toVars, crashed>>

\* Mutant: the end of the receiver is not waited for.
RemovedAtOnce ==
    /\ mutex \in {"del", "to"} /\ victim # None
    /\ sock' = [sock EXCEPT ![victim] = None]
    /\ victim' = None
    /\ IF mutex = "del" THEN mutex' = "free" /\ UNCHANGED toPc
       ELSE toPc' = "choose" /\ UNCHANGED mutex
    /\ UNCHANGED <<devVars, active, capacity, emVars, toAdd, ctl, queueVars,
                   txVars, rxVars, userVars, delWork, toWork, toArg, crashed>>

\* The end of del_server in either work.
Removed ==
    /\ mutex \in {"del", "to"} /\ victim # None /\ rxPc[victim] = "off"
    /\ sock' = [sock EXCEPT ![victim] = None]
    /\ victim' = None
    /\ IF mutex = "del" THEN mutex' = "free" /\ UNCHANGED toPc
       ELSE toPc' = "choose" /\ UNCHANGED mutex
    /\ UNCHANGED <<devVars, active, capacity, emVars, toAdd, ctl, queueVars,
                   txVars, rxVars, userVars, delWork, toWork, toArg, crashed>>

\* activate_fastest_work, if there is an active server.
TakeOver ==
    /\ toWork /\ toPc = "idle" /\ mutex = "free"
    /\ toWork' = FALSE
    /\ IF active = None
       THEN UNCHANGED <<mutex, toPc>>
       ELSE mutex' = "to" /\ toPc' = "check"
    /\ UNCHANGED <<devVars, active, slotVars, emVars, victim, toAdd, ctl,
                   queueVars, txVars, rxVars, userVars, delWork, toArg,
                   crashed>>

\* A block request is pending and there was no reply for TIMEOUT_STALLED.
Stalled == toPc = "check" /\ active # None /\ reqs > 0

\* next_server finds another.
Replace ==
    /\ Stalled
    /\ \E i \in Configured \ {active} :
         /\ \A j \in Configured \ {active} : i <= j
         /\ active' = i
    /\ victim' = active
    /\ toPc' = "removing"
    /\ UNCHANGED <<devVars, slotVars, emVars, mutex, toAdd, ctl, queueVars,
                   txVars, rxVars, userVars, delWork, toWork, toArg, crashed>>

\* The server is alone: start_emergency.  del_timer does not keep a handler
\* that is running from adding its timer again.
StartEmergency ==
    /\ Stalled /\ Configured \ {active} = {} /\ ~emergency
    /\ emergency' = TRUE
    /\ \E handlers \in SUBSET Timers :
          armed' = [t \in Timers |-> armed[t] /\ t \in handlers]
    /\ toAdd' = [k \in 1 .. NSlots |-> emerg[k - 1]]
    /\ toPc' = "emergency"
    /\ UNCHANGED <<devVars, active, slotVars, emerg, mutex, victim, ctl,
                   queueVars, txVars, rxVars, userVars, delWork, toWork, toArg,
                   crashed>>

EmergencyStarted ==
    /\ toPc = "emergency" /\ toAdd = <<>>
    /\ armed' = [armed EXCEPT !["hb"] = TRUE]
    /\ crashed' = armed["hb"]
    /\ mutex' = "free" /\ toPc' = "idle"
    /\ UNCHANGED <<devVars, active, slotVars, emergency, emerg, victim, toAdd,
                   ctl, queueVars, txVars, rxVars, userVars, delWork, toWork,
                   toArg>>

\* The active server, read again, is not stalled, and another is faster.
Choose(i) ==
    /\ toPc \in {"check", "choose"}
    /\ active # i
    /\ crashed' = (active = None)
    /\ toArg' = i
    /\ toPc' = "switch"
    /\ UNCHANGED <<devVars, active, slotVars, emVars, lockVars, ctl, queueVars,
                   txVars, rxVars, userVars, delWork, toWork>>

Switch ==
    /\ toPc = "switch"
    /\ active' = toArg /\ toArg' = None
    /\ mutex' = "free" /\ toPc' = "idle"
    /\ UNCHANGED <<devVars, slotVars, emVars, victim, toAdd, ctl, queueVars,
                   txVars, rxVars, userVars, delWork, toWork, crashed>>

\* None is faster, or emergency mode goes on.
KeepServer ==
    /\ \/ toPc \in {"check", "choose"}
       \/ Stalled /\ Configured \ {active} = {} /\ emergency
    /\ crashed' = (active = None)
    /\ mutex' = "free" /\ toPc' = "idle"
    /\ UNCHANGED <<devVars, active, slotVars, emVars, victim, toAdd, ctl,
                   queueVars, txVars, rxVars, userVars, delWork, toWork, toArg>>

Work == \/ \E i \in Slots : DelWork(i)
        \/ Removed \/ TakeOver \/ Replace \/ StartEmergency
        \/ EmergencyStarted \/ \E i \in Configured : Choose(i)
        \/ Switch \/ KeepServer

Next == /\ ~crashed
        /\ User \/ Tx \/ (\E i \in Slots : Rx(i)) \/ TryAdd \/ Clock \/ Work

Spec == Init /\ [][Next]_vars

-----------------------------------------------------------------------------
(* Safety.                                                                 *)

\* Every variable has its type.
TypeOK ==
    /\ ds \in Datasets \cup {None} /\ running \in BOOLEAN
    /\ diskCap \in Datasets \cup {None} /\ reqs \in 0 .. MaxReqs
    /\ active \in Slots \cup {None}
    /\ sock \in [Slots -> Hosts \cup {None}]
    /\ capacity \in [Slots -> Datasets \cup {None}]
    /\ emergency \in BOOLEAN /\ emerg \in [Slots -> Hosts \cup {None}]
    /\ armed \in [Timers -> BOOLEAN]
    /\ mutex \in {"free", "user", "tx", "rx", "del", "to"}
    /\ victim \in Slots \cup {None}
    /\ toAdd \in Seq(Hosts \cup {None})
    /\ ctl \in [Ctl -> Request \cup {None}]
    /\ sendQueue \in Seq(Ctl) /\ pendingQueue \in Seq(Ctl)
    /\ txPc \in {"idle", "dequeued", "send"} /\ txReq \in Ctl \cup {None}
    /\ rxPc \in [Slots -> {"off", "recv", "handle", "listing"}]
    /\ rxReq \in [Slots -> Ctl \cup {None}]
    /\ userPc \in {"idle", "replacing", "scan", "waiting", "answered",
                   "starting", "stopping"}
    /\ userAt \in 0 .. NSlots
    /\ userArg \in Hosts \cup Datasets \cup {None}
    /\ delWork \in [Slots -> BOOLEAN] /\ toWork \in BOOLEAN
    /\ toPc \in {"idle", "check", "removing", "emergency", "choose", "switch"}
    /\ toArg \in Slots \cup {None}
    /\ crashed \in BOOLEAN

\* Control requests in the hands of the sender and of the receivers.
TxHeld == IF txPc = "dequeued" THEN {txReq} ELSE {}
RxBusy == {i \in Slots : rxPc[i] \in {"handle", "listing"}}
RxHeld == {rxReq[i] : i \in RxBusy}

\* The memory of a control request is in one queue or one thread's hands
\* until it is freed, and in none after: no request is freed twice or lost.
OneHolder ==
    LET queued == Range(sendQueue)
        pending == Range(pendingQueue)
    IN /\ {c \in Ctl : ctl[c] # None} =
             queued \cup pending \cup TxHeld \cup RxHeld
       /\ IsInjective(sendQueue) /\ IsInjective(pendingQueue)
       /\ queued \cap (pending \cup TxHeld \cup RxHeld) = {}
       /\ pending \cap (TxHeld \cup RxHeld) = {}
       /\ TxHeld \cap RxHeld = {}
       /\ \A i, j \in RxBusy : rxReq[i] = rxReq[j] => i = j

\* core.c:116-117: the active server "is always set while running", although
\* the writer sets and clears both without servers_mutex.
ActiveSet == running => active # None

\* Outside emergency mode every timer runs, and in it the heartbeat's does,
\* which alone can end it.
TimersRun ==
    \A t \in Timers :
       armed[t] \/ (emergency /\ (t = "hb" => toPc = "emergency"))

\* A slot has a socket exactly as long as its receiver runs, but for the slot
\* whose removal is under way.
ReceiverRuns ==
    \A i \in Slots : /\ sock[i] = None => rxPc[i] = "off"
                     /\ rxPc[i] = "off" => sock[i] = None \/ victim = i

-----------------------------------------------------------------------------
(* What the comments say and the code does not keep.                       *)

\* core.c:116: block requests are sent to the active server; dnbd2.h:64: a
\* server without a socket is not configured.
ActiveConfigured == running /\ active # None => sock[active] # None

\* core.h:93-94: in emergency mode the requeue and the take-over timer "are
\* stopped".
EmergencyStopsTimers == emergency => ~armed["requeue"] /\ ~armed["to"]

\* servers.h:47: the capacity of the device is that of its dataset.
CapacityRight == running => diskCap = ds

\* core.h:67-68: dnbd2_end_request is called when the driver "has no further
\* use for" the request.
SenderOwnsRequest == txPc = "send" => ctl[txReq] # None

\* servers.h:48-50: a request without an answer is given up after four seconds
\* (four sends).
SendsBounded == \A c \in Ctl : ctl[c] # None => ctl[c].cnt <= MaxSends

\* servers.h:32-33: del_server stops dnbd2_rx_loop and closes the socket.
Fairness == /\ WF_vars(Tx) /\ WF_vars(Replaced) /\ WF_vars(Removed)
            /\ WF_vars(TryAdd)
            /\ \A i \in Slots :
                 /\ WF_vars(RxDone(i)) /\ WF_vars(RxExit(i))
                 /\ SF_vars(\E others \in Lists : RxHandle(i, others))
FairSpec == Spec /\ Fairness
RemovalEnds == \A i \in Slots : (victim = i) ~> (victim # i)
=============================================================================
