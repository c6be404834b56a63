--------------------------- MODULE Dnbd2Requests ---------------------------
(***************************************************************************)
(* The data path of one DNBD2 device (src/contrib/dnbd2/trunk/kernel,      *)
(* core.c): the block layer's request function, the sender thread, one     *)
(* receiver thread per configured server and the requeue timer, which      *)
(* share two queues, a pool of req_info slots and one semaphore.           *)
(*                                                                         *)
(* An action is what happens under one lock, or between two accesses to    *)
(* shared data that no lock covers; info->cnt++ in dnbd2_send_request is   *)
(* unlocked, so its load and its store are two actions.  Control requests  *)
(* (CMD_GET_SIZE, CMD_GET_SERVERS) and the set of configured servers are   *)
(* fixed here; the 2.6.24-and-older build of dnbd2_end_request is modelled.*)
(***************************************************************************)
EXTENDS Integers, FiniteSets, SequencesExt

CONSTANTS
    Reqs,      \* request structures of the block layer
    Slots,     \* dev->info_pool (POOL_SIZE elements)
    Servers,   \* configured servers, each with its receiver thread
    Sectors,   \* sectors of the image
    None,      \* NULL; as a sector: a request that is not a filesystem read
    MaxOpens,  \* bound: openers at one time
    CntMax     \* bound: info->cnt saturates here

ASSUME ConstantsAssumption ==
    /\ IsFiniteSet(Reqs)
    /\ None \notin Reqs \cup Slots \cup Servers \cup Sectors
    /\ MaxOpens \in Nat \ {0}
    /\ CntMax \in Nat \ {0}

VARIABLES
    refcnt, running, active,      \* dev->refcnt, running, active_server
    elv, sector, result, data,    \* block layer: undispatched requests, and
                                  \* per request its sector, answer and buffer
    special,                      \* req->special
    cnt, dst,                     \* info->cnt (-1: free) and info->dst
    sendQueue, pendingQueue,      \* dev->send_queue, dev->pending_queue
    pendingReqs,                  \* dev->pending_reqs
    spin,                         \* request dnbd2_request retries for want of
                                  \* a slot, holding blk_lock
    txPc, txReq, txInfo, txCnt,   \* dnbd2_tx_loop: place, req, info, loaded cnt
    rxPc, rxReq, rxInfo,          \* each dnbd2_rx_loop: place, req, info
    net                           \* datagrams under way

blkVars == <<elv, sector, result, data>>
devVars == <<refcnt, running, active>>
poolVars == <<cnt, dst>>
txVars == <<txPc, txReq, txInfo, txCnt>>
rxVars == <<rxPc, rxReq, rxInfo>>
vars == <<devVars, blkVars, special, poolVars, sendQueue, pendingQueue,
          pendingReqs, spin, txVars, rxVars, net>>

Waiting == {r \in Reqs : result[r] = "waiting"}

\* Places of the sender: "idle" waits for work; from "locked" to "store" and
\* in "end", "free" and "oops" it holds servers_mutex.
TxPlaces == {"idle", "dequeued", "locked", "pending", "load", "store",
             "end", "free", "oops"}
MutexFree == txPc \in {"idle", "dequeued"}

Message == [type : {"request", "reply"}, srv : Servers, sec : Sectors]

Init ==
    /\ refcnt = 0 /\ running = FALSE /\ active = None
    /\ elv = {}
    /\ sector = [r \in Reqs |-> None]
    /\ result = [r \in Reqs |-> "idle"]
    /\ data = [r \in Reqs |-> None]
    /\ special = [r \in Reqs |-> None]
    /\ cnt = [i \in Slots |-> -1]
    /\ dst = [i \in Slots |-> None]
    /\ sendQueue = <<>> /\ pendingQueue = <<>>
    /\ pendingReqs = 0
    /\ spin = None
    /\ txPc = "idle" /\ txReq = None /\ txInfo = None /\ txCnt = 0
    /\ rxPc = [s \in Servers |-> "recv"]
    /\ rxReq = [s \in Servers |-> None]
    /\ rxInfo = [s \in Servers |-> None]
    /\ net = {}

-----------------------------------------------------------------------------
(* The processes that use the device and its sysfs files.                  *)

\* dnbd2_open.
Open ==
    /\ refcnt < MaxOpens
    /\ refcnt' = refcnt + 1
    /\ UNCHANGED <<running, active, blkVars, special, poolVars, sendQueue,
                   pendingQueue, pendingReqs, spin, txVars, rxVars, net>>

\* Mutant: a release without an open.
ReleaseUnopened ==
    /\ refcnt = 1 => Waiting = {}
    /\ refcnt' = refcnt - 1
    /\ UNCHANGED <<running, active, blkVars, special, poolVars, sendQueue,
                   pendingQueue, pendingReqs, spin, txVars, rxVars, net>>

\* dnbd2_release.  The block layer waits for the pages being read before it
\* calls the last release.
Release ==
    /\ refcnt > 0
    /\ refcnt = 1 => Waiting = {}
    /\ refcnt' = refcnt - 1
    /\ UNCHANGED <<running, active, blkVars, special, poolVars, sendQueue,
                   pendingQueue, pendingReqs, spin, txVars, rxVars, net>>

\* store_running: 1 once server s has told the capacity, or 0.  It does not
\* take servers_mutex.
StartDevice(s) ==
    /\ ~running /\ refcnt = 0
    /\ running' = TRUE
    /\ active' = s
    /\ UNCHANGED <<refcnt, blkVars, special, poolVars, sendQueue,
                   pendingQueue, pendingReqs, spin, txVars, rxVars, net>>

\* Mutant: the device can be stopped while it is open.
StopOpenDevice ==
    /\ running
    /\ running' = FALSE
    /\ active' = None
    /\ UNCHANGED <<refcnt, blkVars, special, poolVars, sendQueue,
                   pendingQueue, pendingReqs, spin, txVars, rxVars, net>>

StopDevice ==
    /\ running /\ refcnt = 0
    /\ running' = FALSE
    /\ active' = None
    /\ UNCHANGED <<refcnt, blkVars, special, poolVars, sendQueue,
                   pendingQueue, pendingReqs, spin, txVars, rxVars, net>>

\* store_active.  activate_fastest_work and stop_emergency switch the active
\* server under the same semaphore to a server of their choice.
StoreActive(s) ==
    /\ MutexFree
    /\ running
    /\ active # s
    /\ active' = s
    /\ UNCHANGED <<refcnt, running, blkVars, special, poolVars, sendQueue,
                   pendingQueue, pendingReqs, spin, txVars, rxVars, net>>

\* The block layer initialises a free request structure, under blk_lock, and
\* queues it.  A device of capacity 0 still receives requests.
Submit(r, x) ==
    /\ spin = None
    /\ refcnt > 0
    /\ result[r] # "waiting"
    /\ elv' = elv \cup {r}
    /\ sector' = [sector EXCEPT ![r] = x]
    /\ result' = [result EXCEPT ![r] = "waiting"]
    /\ data' = [data EXCEPT ![r] = None]
    /\ special' = [special EXCEPT ![r] = None]
    /\ UNCHANGED <<devVars, poolVars, sendQueue, pendingQueue, pendingReqs,
                   spin, txVars, rxVars, net>>

-----------------------------------------------------------------------------
(* dnbd2_request: one turn of its loop for the request the elevator gives. *)

Discard(r) ==
    /\ r \in elv /\ spin = None
    /\ sector[r] = None
    /\ elv' = elv \ {r}
    /\ result' = [result EXCEPT ![r] = "failed"]
    /\ UNCHANGED <<devVars, sector, data, special, poolVars, sendQueue,
                   pendingQueue, pendingReqs, spin, txVars, rxVars, net>>

\* Mutant: the slot is not marked as used.
AcceptUnmarked(r, i) ==
    /\ r \in elv /\ spin \in {None, r}
    /\ sector[r] # None
    /\ cnt[i] = -1
    /\ pendingReqs' = pendingReqs + 1
    /\ dst' = [dst EXCEPT ![i] = active]
    /\ special' = [special EXCEPT ![r] = i]
    /\ elv' = elv \ {r}
    /\ sendQueue' = Append(sendQueue, r)
    /\ spin' = None
    /\ UNCHANGED <<devVars, sector, result, data, cnt, pendingQueue, txVars,
                   rxVars, net>>

\* i is the first free slot; which one it is makes no difference.
Accept(r, i) ==
    /\ r \in elv /\ spin \in {None, r}
    /\ sector[r] # None
    /\ cnt[i] = -1
    /\ pendingReqs' = pendingReqs + 1
    /\ cnt' = [cnt EXCEPT ![i] = 0]
    /\ dst' = [dst EXCEPT ![i] = active]
    /\ special' = [special EXCEPT ![r] = i]
    /\ elv' = elv \ {r}
    /\ sendQueue' = Append(sendQueue, r)
    /\ spin' = None
    /\ UNCHANGED <<devVars, sector, result, data, pendingQueue, txVars,
                   rxVars, net>>

\* No free slot: the loop asks the elevator again and is given r again.
PoolFull(r) ==
    /\ r \in elv /\ spin = None
    /\ sector[r] # None
    /\ \A i \in Slots : cnt[i] # -1
    /\ spin' = r
    /\ UNCHANGED <<devVars, blkVars, special, poolVars, sendQueue,
                   pendingQueue, pendingReqs, txVars, rxVars, net>>

Dnbd2Request(r) == Discard(r) \/ PoolFull(r) \/ \E i \in Slots : Accept(r, i)

-----------------------------------------------------------------------------
(* dnbd2_end_request for a block request, with the caller's answer: first  *)
(* the part under blk_lock, then the store that frees the slot.            *)

\* Mutant: a request that fails stays counted.
EndRequestCounted(r, answer) ==
    /\ spin = None
    /\ result' = [result EXCEPT ![r] = answer]
    /\ pendingReqs' = IF answer = "ok" THEN pendingReqs - 1 ELSE pendingReqs

EndRequest(r, answer) ==
    /\ spin = None
    /\ result' = [result EXCEPT ![r] = answer]
    /\ pendingReqs' = pendingReqs - 1

FreeSlot(i) == cnt' = [cnt EXCEPT ![i] = -1]

-----------------------------------------------------------------------------
(* dnbd2_tx_loop and dnbd2_send_request.  A local variable that will be    *)
(* assigned before it is read again is reset.                              *)

TxDequeue ==
    /\ txPc = "idle"
    /\ sendQueue # <<>>
    /\ txReq' = Head(sendQueue)
    /\ sendQueue' = Tail(sendQueue)
    /\ txPc' = "dequeued"
    /\ UNCHANGED <<devVars, blkVars, special, poolVars, pendingQueue,
                   pendingReqs, spin, txInfo, txCnt, rxVars, net>>

\* down(servers_mutex) and the switch on info->cmd.
TxLock ==
    /\ txPc = "dequeued"
    /\ LET i == special[txReq] IN
       IF running
       THEN /\ dst' = [dst EXCEPT ![i] = active]
            /\ txPc' = "locked"
            /\ UNCHANGED txInfo
       ELSE /\ txInfo' = i
            /\ txPc' = "end"
            /\ UNCHANGED dst
    /\ UNCHANGED <<devVars, blkVars, special, cnt, sendQueue, pendingQueue,
                   pendingReqs, spin, txReq, txCnt, rxVars, net>>

TxEnd ==
    /\ txPc = "end"
    /\ EndRequest(txReq, "failed")
    /\ txPc' = "free"
    /\ txReq' = None
    /\ UNCHANGED <<devVars, elv, sector, data, special, poolVars, sendQueue,
                   pendingQueue, spin, txInfo, txCnt, rxVars, net>>

TxFree ==
    /\ txPc = "free"
    /\ FreeSlot(txInfo)
    /\ txPc' = "idle"
    /\ txInfo' = None
    /\ UNCHANGED <<devVars, blkVars, special, dst, sendQueue,
                   pendingQueue, pendingReqs, spin, txReq, txCnt, rxVars,
                   net>>

TxEnqueue ==
    /\ txPc = "locked"
    /\ pendingQueue' = Append(pendingQueue, txReq)
    /\ txPc' = "pending"
    /\ UNCHANGED <<devVars, blkVars, special, poolVars, sendQueue,
                   pendingReqs, spin, txReq, txInfo, txCnt, rxVars, net>>

\* dnbd2_send_request reads req->special again, though from here on a
\* receiver may have answered req and the block layer may use it again.
\* sock_xmit's result is ignored: a failed send is a datagram that is lost.
TxXmit ==
    /\ txPc = "pending"
    /\ txInfo' = special[txReq]
    /\ txReq' = None
    /\ LET to == IF txInfo' = None THEN None ELSE dst[txInfo'] IN
       IF to = None
       THEN txPc' = "oops" /\ net' = net
       ELSE /\ txPc' = "load"
            /\ net' = net \cup
                 {[type |-> "request", srv |-> to, sec |-> sector[txReq]]}
    /\ UNCHANGED <<devVars, blkVars, special, poolVars, sendQueue,
                   pendingQueue, pendingReqs, spin, txCnt, rxVars>>

TxLoad ==
    /\ txPc = "load"
    /\ txCnt' = cnt[txInfo]
    /\ txPc' = "store"
    /\ UNCHANGED <<devVars, blkVars, special, poolVars, sendQueue,
                   pendingQueue, pendingReqs, spin, txReq, txInfo, rxVars,
                   net>>

\* The store of info->cnt++, its reset to 1 if the destination is not the
\* one of the last send, and up().
TxStore ==
    /\ txPc = "store"
    /\ \E c \in {1, txCnt + 1} :
          cnt' = [cnt EXCEPT ![txInfo] = IF c < CntMax THEN c ELSE CntMax]
    /\ txPc' = "idle"
    /\ txInfo' = None
    /\ txCnt' = 0
    /\ UNCHANGED <<devVars, blkVars, special, dst, sendQueue,
                   pendingQueue, pendingReqs, spin, txReq, rxVars, net>>

Tx == \/ TxDequeue \/ TxLock \/ TxEnd \/ TxFree
      \/ TxEnqueue \/ TxXmit \/ TxLoad \/ TxStore

-----------------------------------------------------------------------------
(* dnbd2_rx_loop of server s.                                              *)

\* Mutant: the oldest pending request, whatever its sector.
MatchesOldest(x, k) == k = 1

\* dnbd2_find_request: the first pending request for the sector, whichever
\* server it was sent to.
Matches(x, k) ==
    /\ k \in DOMAIN pendingQueue
    /\ sector[pendingQueue[k]] = x
    /\ \A j \in 1 .. k - 1 : sector[pendingQueue[j]] # x

\* Mutant: the request stays in the pending-queue.
RxFindKeeps(s) ==
    /\ rxPc[s] = "recv"
    /\ \E m \in net : \E k \in DOMAIN pendingQueue :
         /\ m.type = "reply" /\ m.srv = s
         /\ Matches(m.sec, k)
         /\ net' \in {net, net \ {m}}
         /\ rxReq' = [rxReq EXCEPT ![s] = pendingQueue[k]]
         /\ rxInfo' = [rxInfo EXCEPT ![s] = special[pendingQueue[k]]]
         /\ data' = [data EXCEPT ![pendingQueue[k]] = m.sec]
    /\ rxPc' = [rxPc EXCEPT ![s] = "end"]
    /\ UNCHANGED <<devVars, elv, sector, result, special, poolVars,
                   sendQueue, pendingQueue, pendingReqs, spin, txVars>>

\* A block reply is received (the network may deliver it again), its request
\* taken off the pending-queue and the block copied to the request's buffer.
RxFind(s) ==
    /\ rxPc[s] = "recv"
    /\ \E m \in net : \E k \in DOMAIN pendingQueue :
         /\ m.type = "reply" /\ m.srv = s
         /\ Matches(m.sec, k)
         /\ net' \in {net, net \ {m}}
         /\ rxReq' = [rxReq EXCEPT ![s] = pendingQueue[k]]
         /\ rxInfo' = [rxInfo EXCEPT ![s] = special[pendingQueue[k]]]
         /\ data' = [data EXCEPT ![pendingQueue[k]] = m.sec]
         /\ pendingQueue' = RemoveAt(pendingQueue, k)
    /\ rxPc' = [rxPc EXCEPT ![s] = "end"]
    /\ UNCHANGED <<devVars, elv, sector, result, special, poolVars,
                   sendQueue, pendingReqs, spin, txVars>>

RxEnd(s) ==
    /\ rxPc[s] = "end"
    /\ EndRequest(rxReq[s], "ok")
    /\ rxPc' = [rxPc EXCEPT ![s] = "free"]
    /\ rxReq' = [rxReq EXCEPT ![s] = None]
    /\ UNCHANGED <<devVars, elv, sector, data, special, poolVars, sendQueue,
                   pendingQueue, spin, txVars, rxInfo, net>>

RxFree(s) ==
    /\ rxPc[s] = "free"
    /\ FreeSlot(rxInfo[s])
    /\ rxPc' = [rxPc EXCEPT ![s] = "recv"]
    /\ rxInfo' = [rxInfo EXCEPT ![s] = None]
    /\ UNCHANGED <<devVars, blkVars, special, dst, sendQueue,
                   pendingQueue, pendingReqs, spin, txVars, rxReq, net>>

-----------------------------------------------------------------------------
(* The requeue timer, the servers and the network.                         *)

\* Mutant: off by one, a request sent once is not sent again.
RequeueSentTwice(k) ==
    /\ cnt[special[pendingQueue[k]]] > 1
    /\ sendQueue' = Append(sendQueue, pendingQueue[k])
    /\ pendingQueue' = RemoveAt(pendingQueue, k)
    /\ UNCHANGED <<devVars, blkVars, special, poolVars, pendingReqs, spin,
                   txVars, rxVars, net>>

\* dnbd2_requeue_timer moves the k-th pending request, sent at least once
\* and unanswered for too long.  A tick moves several, in queue order, under
\* one lock: the same as several of these steps.
Requeue(k) ==
    /\ cnt[special[pendingQueue[k]]] # 0
    /\ sendQueue' = Append(sendQueue, pendingQueue[k])
    /\ pendingQueue' = RemoveAt(pendingQueue, k)
    /\ UNCHANGED <<devVars, blkVars, special, poolVars, pendingReqs, spin,
                   txVars, rxVars, net>>

\* The server answers a request datagram.
ServerReply(s, x) ==
    LET req == [type |-> "request", srv |-> s, sec |-> x] IN
    /\ req \in net
    /\ net' = (net \ {req}) \cup {[req EXCEPT !.type = "reply"]}
    /\ UNCHANGED <<devVars, blkVars, special, poolVars, sendQueue,
                   pendingQueue, pendingReqs, spin, txVars, rxVars>>

\* A datagram is lost, or is a reply that matches no pending request.
Lose(m) ==
    /\ net' = net \ {m}
    /\ UNCHANGED <<devVars, blkVars, special, poolVars, sendQueue,
                   pendingQueue, pendingReqs, spin, txVars, rxVars>>

Next ==
    \/ Open \/ Release \/ StopDevice
    \/ \E s \in Servers :
          \/ StartDevice(s) \/ StoreActive(s)
          \/ RxFind(s) \/ RxEnd(s) \/ RxFree(s)
          \/ \E x \in Sectors : ServerReply(s, x)
    \/ \E r \in Reqs :
          \/ Dnbd2Request(r)
          \/ \E x \in Sectors \cup {None} : Submit(r, x)
    \/ Tx
    \/ \E k \in DOMAIN pendingQueue : Requeue(k)
    \/ \E m \in net : Lose(m)

Spec == Init /\ [][Next]_vars

-----------------------------------------------------------------------------
(* Safety.                                                                 *)

\* Every variable has its type.
TypeOK ==
    /\ refcnt \in 0 .. MaxOpens
    /\ running \in BOOLEAN
    /\ active \in Servers \cup {None}
    /\ elv \subseteq Reqs
    /\ sector \in [Reqs -> Sectors \cup {None}]
    /\ result \in [Reqs -> {"idle", "waiting", "ok", "failed"}]
    /\ data \in [Reqs -> Sectors \cup {None}]
    /\ special \in [Reqs -> Slots \cup {None}]
    /\ cnt \in [Slots -> -1 .. CntMax]
    /\ dst \in [Slots -> Servers \cup {None}]
    /\ sendQueue \in Seq(Reqs)
    /\ pendingQueue \in Seq(Reqs)
    /\ pendingReqs \in Int
    /\ spin \in Reqs \cup {None}
    /\ txPc \in TxPlaces
    /\ txReq \in Reqs \cup {None}
    /\ txInfo \in Slots \cup {None}
    /\ txCnt \in -1 .. CntMax
    /\ rxPc \in [Servers -> {"recv", "end", "free"}]
    /\ rxReq \in [Servers -> Reqs \cup {None}]
    /\ rxInfo \in [Servers -> Slots \cup {None}]
    /\ net \subseteq Message

\* The requests the sender and the receivers have in hand: taken off one
\* queue, and neither put on another nor answered.
TxHeld == IF txPc \in {"dequeued", "locked", "end"} THEN {txReq} ELSE {}
RxBusy == {s \in Servers : rxPc[s] = "end"}
RxHeld == {rxReq[s] : s \in RxBusy}

\* An unanswered request is in exactly one place - the elevator, one position
\* of one of the two queues, or the hands of one thread - so that it is
\* neither lost nor answered twice; an answered one is nowhere.
OneHolder ==
    LET queued == Range(sendQueue)
        pending == Range(pendingQueue)
    IN /\ Waiting = elv \cup queued \cup pending \cup TxHeld \cup RxHeld
       /\ IsInjective(sendQueue) /\ IsInjective(pendingQueue)
       /\ elv \cap (queued \cup pending \cup TxHeld \cup RxHeld) = {}
       /\ queued \cap (pending \cup TxHeld \cup RxHeld) = {}
       /\ pending \cap (TxHeld \cup RxHeld) = {}
       /\ TxHeld \cap RxHeld = {}
       /\ \A s, t \in RxBusy : rxReq[s] = rxReq[t] => s = t

\* Requests the driver has accepted and not answered.
Accepted == Waiting \ elv

\* A slot of the pool belongs to one accepted request at a time, although
\* the sender may still count a send in the slot of a request that has been
\* answered: no reply can be taken for another request's by way of its slot.
SlotExclusive ==
    /\ \A r \in Accepted : special[r] # None /\ cnt[special[r]] # -1
    /\ \A r, q \in Accepted : special[r] = special[q] => r = q

\* dev->pending_reqs, read by sysfs and by the stall detection, is the number
\* of accepted requests.
PendingReqsExact == pendingReqs = Cardinality(Accepted)

\* A request answered "ok" has the contents of its own sector in its buffer,
\* whatever late or repeated replies arrived.
RightData == \A r \in Reqs : result[r] = "ok" => data[r] = sector[r]

\* What the threads remember of the request they have in hand.
LocalsInv ==
    /\ txPc \in {"dequeued", "locked", "end", "pending"} => txReq \in Reqs
    /\ txPc = "end" => txInfo = special[txReq]
    /\ txPc \in {"free", "load", "store"} => txInfo \in Slots
    /\ \A s \in Servers :
         /\ rxPc[s] = "end" => /\ rxReq[s] \in Reqs
                              /\ rxInfo[s] = special[rxReq[s]]
                              /\ data[rxReq[s]] = sector[rxReq[s]]
         /\ rxPc[s] = "free" => rxInfo[s] \in Slots

\* A slot about to be freed is in use, by one thread and by no request.
FreeingInv ==
    /\ txPc = "free" => /\ cnt[txInfo] # -1
                        /\ \A r \in Accepted : special[r] # txInfo
    /\ \A s \in Servers : rxPc[s] = "free" =>
         /\ cnt[rxInfo[s]] # -1
         /\ \A r \in Accepted : special[r] # rxInfo[s]
         /\ txPc = "free" => rxInfo[s] # txInfo
         /\ \A t \in Servers :
              rxPc[t] = "free" /\ rxInfo[t] = rxInfo[s] => t = s

\* Requests are under way only on an open device, and past the sender's test
\* only on a running one; a request with information is a read.
RunningInv ==
    /\ refcnt = 0 => Waiting = {}
    /\ Range(pendingQueue) \cup RxHeld # {} \/ txPc = "locked" => running
    /\ txPc = "end" => ~running
    /\ \A r \in Reqs : special[r] # None => sector[r] # None

\* The inductive invariant from which the safety properties are proved.
IInv == /\ TypeOK /\ OneHolder /\ SlotExclusive /\ RightData
        /\ LocalsInv /\ FreeingInv /\ RunningInv

\* The driver implements a block device.
Device == INSTANCE BlockDevice WITH
            data <- [r \in Reqs |-> IF result[r] = "ok" THEN data[r] ELSE None]
ImplementsBlockDevice == Device!Spec

-----------------------------------------------------------------------------
(* Progress.                                                               *)

IsPending(r) == r \in Range(pendingQueue)
Awaited(x) == \E r \in Reqs : IsPending(r) /\ sector[r] = x

\* Threads and timers run, and the elevator gives every request its turn.  For
\* a request that is sent again and again the tick of the timer, which comes
\* every 50 ms, does not always fall between the sender's last two steps, nor
\* always between the server's answer and its reception.  blk_lock is not
\* denied to one thread for ever while others get it.
Fairness ==
    /\ WF_vars(Tx) /\ SF_vars(TxEnd)
    /\ \A r \in Reqs : /\ SF_vars(Dnbd2Request(r))
                       /\ SF_vars(TxXmit /\ txReq = r /\ IsPending(r))
                       /\ WF_vars(\E k \in DOMAIN pendingQueue :
                                     pendingQueue[k] = r /\ Requeue(k))
    /\ \A s \in Servers : /\ SF_vars(RxEnd(s)) /\ WF_vars(RxFree(s))
                          /\ SF_vars(RxFind(s))
                          /\ \A x \in Sectors :
                               SF_vars(ServerReply(s, x) /\ Awaited(x))
FairSpec == Spec /\ Fairness

\* The sender has dereferenced NULL with the semaphore held, or
\* dnbd2_request spins on an exhausted pool.
Wedged == txPc = "oops" \/ (spin # None /\ \A i \in Slots : cnt[i] # -1)

\* Every request is answered, unless the driver wedges for good: no loss,
\* reordering, change of server or retransmission leaves a reader waiting.
Answered ==
    (<>[]Wedged) \/ \A r \in Reqs : (r \in Waiting) ~> (r \notin Waiting)

\* core.h:28-31 says what dnbd2_request does with each request: attach
\* information, enqueue, wake the sender.  So none stays in the elevator.
Dispatched == \A r \in Reqs : (r \in elv) ~> (r \notin elv)

\* core.h:67-69: when the driver is done with a request "Resources are freed".
\* A slot in use belongs to an accepted request or to a thread that is about
\* to free it.
SlotsFreed ==
    \A i \in Slots : cnt[i] # -1 =>
       \/ \E r \in Accepted : special[r] = i
       \/ txPc \in {"free", "load", "store"} /\ txInfo = i
       \/ \E s \in Servers : rxPc[s] = "free" /\ rxInfo[s] = i

=============================================================================
