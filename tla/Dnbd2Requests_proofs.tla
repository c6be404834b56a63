----------------------- MODULE Dnbd2Requests_proofs ------------------------
(***************************************************************************)
(* Proofs of the safety properties of Dnbd2Requests, for every number of   *)
(* requests, slots, servers and sectors.                                   *)
(***************************************************************************)
EXTENDS Dnbd2Requests, QueueLemmas, FiniteSetTheorems

\* -1 and 0 are counts.
LEMMA CountRange == -1 \in -1 .. CntMax /\ 0 \in -1 .. CntMax
<1>1. CntMax \in Nat
  BY ConstantsAssumption
<1>2. QED
  BY <1>1

LEMMA TxDequeueStep == IInv /\ TxDequeue => IInv'
<1> SUFFICES ASSUME IInv, TxDequeue PROVE IInv'
  OBVIOUS
<1>q. /\ sendQueue \in Seq(Reqs) /\ IsInjective(sendQueue)
      /\ sendQueue # <<>>
  BY DEF IInv, TypeOK, OneHolder, TxDequeue
<1>r. /\ txReq' \in Reqs /\ txReq' \in Range(sendQueue)
      /\ sendQueue' \in Seq(Reqs)
      /\ Range(sendQueue') = Range(sendQueue) \ {txReq'}
      /\ IsInjective(sendQueue')
  BY <1>q, HeadTailRange DEF TxDequeue
<1>s. /\ Waiting' = Waiting /\ RxBusy' = RxBusy /\ RxHeld' = RxHeld
      /\ Accepted' = Accepted
      /\ TxHeld = {} /\ TxHeld' = {txReq'}
  BY DEF TxDequeue, blkVars, rxVars, Waiting, RxBusy, RxHeld, Accepted, TxHeld
<1>1. TypeOK'
  BY <1>r DEF IInv, TypeOK, TxDequeue, devVars, blkVars, poolVars, rxVars,
     TxPlaces
<1>2. OneHolder'
  BY <1>r, <1>s DEF IInv, OneHolder, TxDequeue, blkVars, rxVars
<1>3. SlotExclusive'
  BY <1>s DEF IInv, SlotExclusive, TxDequeue, poolVars
<1>4. RightData'
  BY DEF IInv, RightData, TxDequeue, blkVars
<1>5. LocalsInv'
  BY <1>r DEF IInv, LocalsInv, TxDequeue, blkVars, rxVars
<1>6. FreeingInv'
  BY <1>s DEF IInv, FreeingInv, TxDequeue, poolVars, rxVars
<1>7. RunningInv'
  BY <1>s DEF IInv, RunningInv, TxDequeue, devVars, blkVars
<1>8. QED
  BY <1>1, <1>2, <1>3, <1>4, <1>5, <1>6, <1>7 DEF IInv

\* Steps that change neither a queue nor what a thread has in hand.
LEMMA HoldersUnchanged ==
    ASSUME UNCHANGED <<blkVars, special, sendQueue, pendingQueue, rxVars>>,
           TxHeld' = TxHeld, OneHolder, RightData
    PROVE  /\ Waiting' = Waiting /\ Accepted' = Accepted
           /\ RxBusy' = RxBusy /\ RxHeld' = RxHeld
           /\ OneHolder' /\ RightData'
<1>1. /\ Waiting' = Waiting /\ Accepted' = Accepted
      /\ RxBusy' = RxBusy /\ RxHeld' = RxHeld
  BY DEF blkVars, rxVars, Waiting, Accepted, RxBusy, RxHeld
<1>2. OneHolder'
  BY <1>1 DEF OneHolder, blkVars, rxVars
<1>3. RightData'
  BY DEF RightData, blkVars
<1>4. QED
  BY <1>1, <1>2, <1>3

\* Open, release, start and stop of the device.
LEMMA DeviceStep ==
    ASSUME IInv, Open \/ Release \/ StopDevice
                   \/ \E s \in Servers : StartDevice(s) \/ StoreActive(s)
    PROVE  IInv'
<1>u. UNCHANGED <<blkVars, special, poolVars, sendQueue, pendingQueue,
                  pendingReqs, spin, txVars, rxVars, net>>
  BY DEF Open, Release, StopDevice, StartDevice, StoreActive
<1>h. TxHeld' = TxHeld
  BY <1>u DEF TxHeld, txVars
<1>s. /\ Waiting' = Waiting /\ Accepted' = Accepted
      /\ RxBusy' = RxBusy /\ RxHeld' = RxHeld
      /\ OneHolder' /\ RightData'
  BY <1>u, <1>h, HoldersUnchanged DEF IInv
<1>1. TypeOK'
  <2>1. refcnt' \in 0 .. MaxOpens /\ running' \in BOOLEAN
          /\ active' \in Servers \cup {None}
    <3>1. MaxOpens \in Nat
      BY ConstantsAssumption
    <3>2. CASE Open \/ Release
      BY <3>1, <3>2 DEF IInv, TypeOK, Open, Release
    <3>3. CASE StopDevice
      BY <3>3 DEF IInv, TypeOK, StopDevice
    <3>4. CASE \E s \in Servers : StartDevice(s) \/ StoreActive(s)
      BY <3>4 DEF IInv, TypeOK, StartDevice, StoreActive
    <3>5. QED
      BY <3>2, <3>3, <3>4
  <2>2. QED
    BY <1>u, <2>1 DEF IInv, TypeOK, blkVars, poolVars, txVars, rxVars
<1>2. SlotExclusive'
  BY <1>u, <1>s DEF IInv, SlotExclusive, poolVars
<1>3. LocalsInv'
  BY <1>u DEF IInv, LocalsInv, blkVars, txVars, rxVars
<1>4. FreeingInv'
  BY <1>u, <1>s DEF IInv, FreeingInv, poolVars, txVars, rxVars
<1>5. RunningInv'
  <2>1. refcnt' = 0 => Waiting = {}
    BY DEF IInv, TypeOK, RunningInv, Open, Release, StopDevice, StartDevice,
       StoreActive
  <2>2. running' = running \/ (refcnt = 0 /\ refcnt' = 0)
    BY DEF Open, Release, StopDevice, StartDevice, StoreActive
  <2>3. Waiting = {} =>
          Range(pendingQueue) \cup RxHeld = {} /\ txPc \notin {"locked", "end"}
    BY DEF IInv, OneHolder, TxHeld
  <2>4. QED
    BY <1>u, <1>s, <2>1, <2>2, <2>3 DEF IInv, RunningInv, blkVars, txVars
<1>6. QED
  BY <1>s, <1>1, <1>2, <1>3, <1>4, <1>5 DEF IInv

\* The elevator takes a request from the block layer.
LEMMA SubmitStep ==
    ASSUME IInv, NEW r \in Reqs, NEW x \in Sectors \cup {None}, Submit(r, x)
    PROVE  IInv'
<1>1. r \notin Waiting
  BY DEF Submit, Waiting
<1>2. /\ Waiting' = Waiting \cup {r} /\ elv' = elv \cup {r}
      /\ TxHeld' = TxHeld /\ RxBusy' = RxBusy /\ RxHeld' = RxHeld
  BY DEF IInv, TypeOK, Submit, Waiting, TxHeld, RxBusy, RxHeld, txVars, rxVars
<1>3. Accepted' = Accepted /\ r \notin Accepted
  BY <1>1, <1>2 DEF Accepted
<1>4. \A q \in Reqs : q # r => /\ special'[q] = special[q]
                               /\ sector'[q] = sector[q]
                               /\ data'[q] = data[q]
                               /\ result'[q] = result[q]
  BY DEF IInv, TypeOK, Submit
<1>5. special'[r] = None /\ result'[r] = "waiting"
  BY DEF IInv, TypeOK, Submit
<1>6. Accepted \subseteq Reqs
  BY DEF Accepted, Waiting
<1>a. TypeOK'
  BY DEF IInv, TypeOK, Submit, devVars, poolVars, txVars, rxVars, TxPlaces
<1>b. OneHolder'
  BY <1>1, <1>2 DEF IInv, OneHolder, Submit, rxVars
<1>c. SlotExclusive'
  BY <1>3, <1>4, <1>6 DEF IInv, SlotExclusive, Submit, poolVars
<1>d. RightData'
  BY <1>4, <1>5 DEF IInv, RightData
<1>e. LocalsInv'
  <2>1. ASSUME NEW s \in Servers, rxPc[s] = "end"
        PROVE  rxReq[s] \in Reqs /\ rxReq[s] # r
    BY <1>1, <2>1 DEF IInv, LocalsInv, OneHolder, RxHeld, RxBusy
  <2>2. txPc = "end" => txReq \in Reqs /\ txReq # r
    BY <1>1 DEF IInv, LocalsInv, OneHolder, TxHeld
  <2>3. QED
    BY <1>4, <2>1, <2>2 DEF IInv, LocalsInv, Submit, txVars, rxVars
<1>f. FreeingInv'
  BY <1>3, <1>4, <1>6 DEF IInv, FreeingInv, Submit, poolVars, txVars, rxVars
<1>g. RunningInv'
  BY <1>2, <1>4, <1>5 DEF IInv, TypeOK, RunningInv, Submit, devVars, txVars
<1>h. QED
  BY <1>a, <1>b, <1>c, <1>d, <1>e, <1>f, <1>g DEF IInv

\* A request that is not a read is failed at once.
LEMMA DiscardStep ==
    ASSUME IInv, NEW r \in Reqs, Discard(r)
    PROVE  IInv'
<1>1. r \in Waiting
  BY DEF IInv, OneHolder, Discard
<1>2. /\ Waiting' = Waiting \ {r} /\ elv' = elv \ {r}
      /\ TxHeld' = TxHeld /\ RxBusy' = RxBusy /\ RxHeld' = RxHeld
  BY DEF IInv, TypeOK, Discard, Waiting, TxHeld, RxBusy, RxHeld, txVars, rxVars
<1>3. Accepted' = Accepted
  BY <1>1, <1>2 DEF Accepted, Discard
<1>4. \A q \in Reqs : result'[q] = "ok" => result[q] = "ok"
  BY DEF IInv, TypeOK, Discard
<1>a. TypeOK'
  BY DEF IInv, TypeOK, Discard, devVars, poolVars, txVars, rxVars, TxPlaces
<1>b. OneHolder'
  BY <1>1, <1>2 DEF IInv, OneHolder, Discard, rxVars
<1>c. SlotExclusive'
  BY <1>3 DEF IInv, SlotExclusive, Discard, poolVars
<1>d. RightData'
  BY <1>4 DEF IInv, RightData, Discard
<1>e. LocalsInv'
  BY DEF IInv, LocalsInv, Discard, txVars, rxVars
<1>f. FreeingInv'
  BY <1>3 DEF IInv, FreeingInv, Discard, poolVars, txVars, rxVars
<1>g. RunningInv'
  BY <1>2 DEF IInv, RunningInv, Discard, devVars, txVars
<1>h. QED
  BY <1>a, <1>b, <1>c, <1>d, <1>e, <1>f, <1>g DEF IInv

\* A read is given a free slot and enqueued for sending.
LEMMA AcceptStep ==
    ASSUME IInv, NEW r \in Reqs, NEW i \in Slots, Accept(r, i)
    PROVE  IInv'
<1>1. r \in Waiting /\ r \notin Accepted /\ sector[r] # None /\ cnt[i] = -1
  BY DEF IInv, OneHolder, Accept, Accepted
<1>2. /\ Waiting' = Waiting /\ elv' = elv \ {r}
      /\ TxHeld' = TxHeld /\ RxBusy' = RxBusy /\ RxHeld' = RxHeld
  BY DEF Accept, Waiting, TxHeld, RxBusy, RxHeld, txVars, rxVars
<1>3. Accepted' = Accepted \cup {r}
  BY <1>1, <1>2 DEF Accepted, Accept
<1>4. /\ sendQueue' \in Seq(Reqs)
      /\ Range(sendQueue') = Range(sendQueue) \cup {r}
  BY AppendRange DEF IInv, TypeOK, Accept
<1>5. IsInjective(sendQueue')
  <2>1. r \notin Range(sendQueue) /\ IsInjective(sendQueue)
    BY DEF IInv, OneHolder, Accept
  <2>2. QED
    BY <2>1, AppendKeepsInjective DEF IInv, TypeOK, Accept
<1>6. /\ special'[r] = i /\ cnt'[i] = 0
      /\ \A q \in Reqs : q # r => special'[q] = special[q]
      /\ \A j \in Slots : j # i => cnt'[j] = cnt[j]
  BY DEF IInv, TypeOK, Accept
<1>7. Accepted \subseteq Reqs /\ \A q \in Accepted : special[q] \in Slots
  BY DEF Accepted, Waiting, IInv, TypeOK, SlotExclusive
<1>8. \A q \in Accepted : special[q] # i
  BY <1>1 DEF IInv, SlotExclusive
<1>a. TypeOK'
  BY ConstantsAssumption, <1>4 DEF IInv, TypeOK, Accept, devVars, txVars,
     rxVars, TxPlaces
<1>b. OneHolder'
  BY <1>1, <1>2, <1>4, <1>5 DEF IInv, OneHolder, Accept, rxVars
<1>c. SlotExclusive'
  BY ConstantsAssumption, <1>1, <1>3, <1>6, <1>7, <1>8 DEF IInv, SlotExclusive
<1>d. RightData'
  BY DEF IInv, RightData, Accept
<1>e. LocalsInv'
  <2>1. ASSUME NEW s \in Servers, rxPc[s] = "end"
        PROVE  rxReq[s] \in Reqs /\ rxReq[s] # r
    BY <2>1 DEF IInv, LocalsInv, OneHolder, RxHeld, RxBusy, Accept
  <2>2. txPc = "end" => txReq \in Reqs /\ txReq # r
    BY DEF IInv, LocalsInv, OneHolder, TxHeld, Accept
  <2>3. QED
    BY <1>6, <2>1, <2>2 DEF IInv, LocalsInv, Accept, txVars, rxVars
<1>f. FreeingInv'
  <2>1. txPc = "free" => txInfo \in Slots /\ txInfo # i
    BY <1>1 DEF IInv, LocalsInv, FreeingInv
  <2>2. \A s \in Servers : rxPc[s] = "free" =>
             rxInfo[s] \in Slots /\ rxInfo[s] # i
    BY <1>1 DEF IInv, LocalsInv, FreeingInv
  <2>3. QED
    BY <1>3, <1>6, <1>7, <2>1, <2>2 DEF IInv, FreeingInv, Accept, txVars, rxVars
<1>g. RunningInv'
  BY <1>1, <1>2, <1>6 DEF IInv, RunningInv, Accept, devVars, txVars
<1>h. QED
  BY <1>a, <1>b, <1>c, <1>d, <1>e, <1>f, <1>g DEF IInv

\* dnbd2_request begins to spin.
LEMMA PoolFullStep ==
    ASSUME IInv, NEW r \in Reqs, PoolFull(r)
    PROVE  IInv'
<1>u. UNCHANGED <<devVars, blkVars, special, poolVars, sendQueue,
                  pendingQueue, pendingReqs, txVars, rxVars, net>>
        /\ spin' \in Reqs
  BY DEF PoolFull
<1>h. TxHeld' = TxHeld
  BY <1>u DEF TxHeld, txVars
<1>s. /\ Waiting' = Waiting /\ Accepted' = Accepted /\ RxHeld' = RxHeld
      /\ OneHolder' /\ RightData'
  BY <1>u, <1>h, HoldersUnchanged DEF IInv
<1>1. TypeOK'
  BY <1>u DEF IInv, TypeOK, devVars, blkVars, poolVars, txVars, rxVars
<1>2. SlotExclusive' /\ LocalsInv'
  BY <1>u, <1>s DEF IInv, SlotExclusive, LocalsInv, blkVars, poolVars, txVars,
     rxVars
<1>3. FreeingInv'
  BY <1>u, <1>s DEF IInv, FreeingInv, poolVars, txVars, rxVars
<1>4. RunningInv'
  BY <1>u, <1>s DEF IInv, RunningInv, devVars, blkVars, txVars
<1>5. QED
  BY <1>s, <1>1, <1>2, <1>3, <1>4 DEF IInv

\* The sender takes servers_mutex and tests whether the device runs.
LEMMA TxLockStep == ASSUME IInv, TxLock PROVE IInv'
<1> DEFINE i == special[txReq]
<1>1. txReq \in Reqs /\ txReq \in Accepted /\ i \in Slots
  <2>1. txReq \in Accepted
    BY DEF IInv, OneHolder, TxLock, TxHeld, Accepted
  <2>2. txReq \in Reqs
    BY DEF IInv, LocalsInv, TxLock
  <2>3. QED
    BY <2>1, <2>2 DEF IInv, TypeOK, SlotExclusive
<1>u. UNCHANGED <<blkVars, special, sendQueue, pendingQueue, rxVars>>
  BY DEF TxLock
<1>h. TxHeld' = TxHeld
  BY DEF TxLock, TxHeld, txVars
<1>s. /\ Waiting' = Waiting /\ Accepted' = Accepted /\ RxHeld' = RxHeld
      /\ OneHolder' /\ RightData'
  BY <1>u, <1>h, HoldersUnchanged DEF IInv
<1>2. TypeOK'
  BY <1>1 DEF IInv, TypeOK, TxLock, TxPlaces, devVars, blkVars, rxVars
<1>3. SlotExclusive'
  BY <1>s DEF IInv, SlotExclusive, TxLock
<1>4. LocalsInv'
  BY <1>1 DEF IInv, LocalsInv, TxLock, blkVars, rxVars
<1>5. FreeingInv'
  BY <1>s DEF IInv, FreeingInv, TxLock, rxVars
<1>6. RunningInv'
  BY <1>s DEF IInv, RunningInv, TxLock, devVars, blkVars
<1>7. QED
  BY <1>s, <1>2, <1>3, <1>4, <1>5, <1>6 DEF IInv

\* The sender puts the request on the pending-queue.
LEMMA TxEnqueueStep == ASSUME IInv, TxEnqueue PROVE IInv'
<1>1. txReq \in Reqs /\ TxHeld = {txReq} /\ TxHeld' = {}
  BY DEF IInv, LocalsInv, TxEnqueue, TxHeld
<1>2. /\ Waiting' = Waiting /\ Accepted' = Accepted
      /\ RxBusy' = RxBusy /\ RxHeld' = RxHeld
  BY DEF TxEnqueue, blkVars, rxVars, Waiting, Accepted, RxBusy, RxHeld
<1>3. /\ pendingQueue' \in Seq(Reqs)
      /\ Range(pendingQueue') = Range(pendingQueue) \cup {txReq}
  BY <1>1, AppendRange DEF IInv, TypeOK, TxEnqueue
<1>4. IsInjective(pendingQueue')
  <2>1. txReq \notin Range(pendingQueue) /\ IsInjective(pendingQueue)
    BY <1>1 DEF IInv, OneHolder
  <2>2. QED
    BY <1>1, <2>1, AppendKeepsInjective DEF IInv, TypeOK, TxEnqueue
<1>a. TypeOK'
  BY <1>3 DEF IInv, TypeOK, TxEnqueue, TxPlaces, devVars, blkVars, poolVars,
     rxVars
<1>b. OneHolder'
  BY <1>1, <1>2, <1>3, <1>4 DEF IInv, OneHolder, TxEnqueue, blkVars, rxVars
<1>c. SlotExclusive'
  BY <1>2 DEF IInv, SlotExclusive, TxEnqueue, poolVars
<1>d. RightData'
  BY DEF IInv, RightData, TxEnqueue, blkVars
<1>e. LocalsInv'
  BY DEF IInv, LocalsInv, TxEnqueue, blkVars, rxVars
<1>f. FreeingInv'
  BY <1>2 DEF IInv, FreeingInv, TxEnqueue, poolVars, rxVars
<1>g. RunningInv'
  BY <1>2, <1>3 DEF IInv, RunningInv, TxEnqueue, devVars, blkVars
<1>h. QED
  BY <1>a, <1>b, <1>c, <1>d, <1>e, <1>f, <1>g DEF IInv

\* The sender sends the datagram, with the information it reads again, then
\* loads the counter.  Neither has the request in hand any more.
LEMMA TxXmitLoadStep == ASSUME IInv, TxXmit \/ TxLoad PROVE IInv'
<1>u. UNCHANGED <<devVars, blkVars, special, poolVars, sendQueue,
                  pendingQueue, pendingReqs, spin, rxVars>>
  BY DEF TxXmit, TxLoad
<1>h. TxHeld' = TxHeld /\ txPc' \in {"oops", "load", "store"}
  BY DEF TxXmit, TxLoad, TxHeld
<1>s. /\ Waiting' = Waiting /\ Accepted' = Accepted /\ RxHeld' = RxHeld
      /\ OneHolder' /\ RightData'
  BY <1>u, <1>h, HoldersUnchanged DEF IInv
<1>1. /\ txReq' \in Reqs \cup {None} /\ txInfo' \in Slots \cup {None}
      /\ txCnt' \in -1 .. CntMax
      /\ txPc' # "oops" => txInfo' \in Slots
      /\ net' \subseteq Message
  <2>1. CASE TxLoad
    BY <2>1 DEF IInv, TypeOK, LocalsInv, TxLoad
  <2>2. CASE TxXmit
    <3>1. txReq \in Reqs /\ txInfo' = special[txReq]
      BY <2>2 DEF IInv, LocalsInv, TxXmit
    <3>2. CASE special[txReq] = None
      BY <2>2, <3>1, <3>2 DEF IInv, TypeOK, TxXmit
    <3>3. CASE special[txReq] # None
      <4>1. special[txReq] \in Slots /\ sector[txReq] \in Sectors
              /\ dst[special[txReq]] \in Servers \cup {None}
        BY <3>1, <3>3 DEF IInv, TypeOK, RunningInv
      <4>2. net' = net \/
              (dst[special[txReq]] # None /\ net' = net \cup {[type |-> "request",
                  srv |-> dst[special[txReq]], sec |-> sector[txReq]]})
        BY <2>2, <3>1, <3>3 DEF TxXmit
      <4>3. net' \subseteq Message
        BY <4>1, <4>2 DEF IInv, TypeOK, Message
      <4>4. QED
        BY <2>2, <3>1, <4>1, <4>3 DEF IInv, TypeOK, TxXmit
    <3>4. QED
      BY <3>2, <3>3
  <2>3. QED
    BY <2>1, <2>2
<1>a. TypeOK'
  BY <1>u, <1>h, <1>1 DEF IInv, TypeOK, TxPlaces, devVars, blkVars, poolVars,
     rxVars
<1>b. SlotExclusive'
  BY <1>u, <1>s DEF IInv, SlotExclusive, poolVars
<1>c. LocalsInv'
  BY <1>u, <1>h, <1>1 DEF IInv, LocalsInv, blkVars, rxVars
<1>d. FreeingInv'
  BY <1>u, <1>h, <1>s DEF IInv, FreeingInv, poolVars, rxVars
<1>e. RunningInv'
  BY <1>u, <1>h, <1>s DEF IInv, RunningInv, devVars, blkVars
<1>f. QED
  BY <1>s, <1>a, <1>b, <1>c, <1>d, <1>e DEF IInv

\* The sender stores the counter, perhaps of a slot that was freed meanwhile:
\* no value it can store makes a slot free.
LEMMA TxStoreStep == ASSUME IInv, TxStore PROVE IInv'
<1>u. UNCHANGED <<devVars, blkVars, special, dst, sendQueue, pendingQueue,
                  pendingReqs, spin, txReq, rxVars, net>>
        /\ txPc = "store" /\ txPc' = "idle" /\ txInfo' = None /\ txCnt' = 0
  BY DEF TxStore
<1>h. TxHeld' = TxHeld
  BY <1>u DEF TxHeld
<1>s. /\ Waiting' = Waiting /\ Accepted' = Accepted /\ RxHeld' = RxHeld
      /\ OneHolder' /\ RightData'
  BY <1>u, <1>h, HoldersUnchanged DEF IInv
<1>1. /\ cnt' \in [Slots -> -1 .. CntMax]
      /\ \A j \in Slots : cnt[j] # -1 => cnt'[j] # -1
  BY ConstantsAssumption DEF IInv, TypeOK, LocalsInv, TxStore
<1>2. Accepted \subseteq Reqs
  BY DEF Accepted, Waiting
<1>a. TypeOK'
  BY ConstantsAssumption, <1>u, <1>1
     DEF IInv, TypeOK, TxPlaces, devVars, blkVars, rxVars
<1>b. SlotExclusive'
  BY <1>u, <1>s, <1>1, <1>2 DEF IInv, TypeOK, SlotExclusive
<1>c. LocalsInv'
  BY <1>u DEF IInv, LocalsInv, blkVars, rxVars
<1>d. FreeingInv'
  BY <1>u, <1>s, <1>1 DEF IInv, LocalsInv, FreeingInv, rxVars
<1>e. RunningInv'
  BY <1>u, <1>s DEF IInv, RunningInv, devVars, blkVars
<1>f. QED
  BY <1>s, <1>a, <1>b, <1>c, <1>d, <1>e DEF IInv

\* The sender answers a request because the device does not run.
LEMMA TxEndStep == ASSUME IInv, TxEnd PROVE IInv'
<1> DEFINE r == txReq
<1>1. /\ r \in Reqs /\ r \in Waiting /\ r \in Accepted /\ TxHeld = {r}
      /\ txInfo = special[r] /\ txInfo \in Slots
  <2>1. r \in Accepted /\ TxHeld = {r}
    BY DEF IInv, OneHolder, TxEnd, TxHeld, Accepted
  <2>2. r \in Reqs /\ txInfo = special[r]
    BY DEF IInv, LocalsInv, TxEnd
  <2>3. QED
    BY <2>1, <2>2 DEF IInv, TypeOK, SlotExclusive, Accepted
<1>2. /\ Waiting' = Waiting \ {r} /\ TxHeld' = {}
      /\ RxBusy' = RxBusy /\ RxHeld' = RxHeld
  BY <1>1 DEF IInv, TypeOK, TxEnd, EndRequest, Waiting, TxHeld, RxBusy,
     RxHeld, rxVars
<1>3. Accepted' = Accepted \ {r}
  BY <1>2 DEF Accepted, TxEnd
<1>4. \A q \in Reqs : result'[q] = "ok" => result[q] = "ok"
  BY <1>1 DEF IInv, TypeOK, TxEnd, EndRequest
<1>a. TypeOK'
  BY <1>1 DEF IInv, TypeOK, TxEnd, EndRequest, TxPlaces, devVars, poolVars,
     rxVars
<1>b. OneHolder'
  BY <1>1, <1>2 DEF IInv, OneHolder, TxEnd, rxVars
<1>c. SlotExclusive'
  BY <1>3 DEF IInv, SlotExclusive, TxEnd, poolVars
<1>d. RightData'
  BY <1>4 DEF IInv, RightData, TxEnd
<1>e. LocalsInv'
  BY <1>1 DEF IInv, LocalsInv, TxEnd, rxVars
<1>f. FreeingInv'
  BY <1>1, <1>3 DEF IInv, SlotExclusive, LocalsInv, FreeingInv, TxEnd,
     poolVars, rxVars
<1>g. RunningInv'
  BY <1>2 DEF IInv, RunningInv, TxEnd, devVars
<1>h. QED
  BY <1>a, <1>b, <1>c, <1>d, <1>e, <1>f, <1>g DEF IInv

\* The sender frees the slot of the request it has answered.
LEMMA TxFreeStep == ASSUME IInv, TxFree PROVE IInv'
<1>u. UNCHANGED <<devVars, blkVars, special, dst, sendQueue, pendingQueue,
                  pendingReqs, spin, txReq, txCnt, rxVars, net>>
        /\ txPc = "free" /\ txPc' = "idle" /\ txInfo' = None
  BY DEF TxFree
<1>h. TxHeld' = TxHeld
  BY <1>u DEF TxHeld
<1>s. /\ Waiting' = Waiting /\ Accepted' = Accepted /\ RxHeld' = RxHeld
      /\ OneHolder' /\ RightData'
  BY <1>u, <1>h, HoldersUnchanged DEF IInv
<1>1. /\ cnt' \in [Slots -> -1 .. CntMax]
      /\ \A j \in Slots : j # txInfo => cnt'[j] = cnt[j]
  BY CountRange DEF IInv, TypeOK, TxFree, FreeSlot
<1>2. \A q \in Accepted : special[q] # txInfo /\ special[q] \in Slots
  BY <1>u DEF IInv, TypeOK, FreeingInv, SlotExclusive, Accepted, Waiting
<1>a. TypeOK'
  BY <1>u, <1>1 DEF IInv, TypeOK, TxPlaces, devVars, blkVars, rxVars
<1>b. SlotExclusive'
  BY <1>u, <1>s, <1>1, <1>2 DEF IInv, SlotExclusive
<1>c. LocalsInv'
  BY <1>u DEF IInv, LocalsInv, blkVars, rxVars
<1>d. FreeingInv'
  BY <1>u, <1>s, <1>1 DEF IInv, LocalsInv, FreeingInv, rxVars
<1>e. RunningInv'
  BY <1>u, <1>s DEF IInv, RunningInv, devVars, blkVars
<1>f. QED
  BY <1>s, <1>a, <1>b, <1>c, <1>d, <1>e DEF IInv

\* A receiver takes the first pending request for the sector of a reply.
LEMMA RxFindStep ==
    ASSUME IInv, NEW s \in Servers, RxFind(s)
    PROVE  IInv'
<1>1. PICK m \in net : \E k \in DOMAIN pendingQueue :
         /\ Matches(m.sec, k)
         /\ net' \in {net, net \ {m}}
         /\ rxReq' = [rxReq EXCEPT ![s] = pendingQueue[k]]
         /\ rxInfo' = [rxInfo EXCEPT ![s] = special[pendingQueue[k]]]
         /\ data' = [data EXCEPT ![pendingQueue[k]] = m.sec]
         /\ pendingQueue' = RemoveAt(pendingQueue, k)
  BY DEF RxFind
<1>2. PICK k \in DOMAIN pendingQueue :
         /\ Matches(m.sec, k)
         /\ net' \in {net, net \ {m}}
         /\ rxReq' = [rxReq EXCEPT ![s] = pendingQueue[k]]
         /\ rxInfo' = [rxInfo EXCEPT ![s] = special[pendingQueue[k]]]
         /\ data' = [data EXCEPT ![pendingQueue[k]] = m.sec]
         /\ pendingQueue' = RemoveAt(pendingQueue, k)
  BY <1>1
<1> DEFINE r == pendingQueue[k]
<1>3. /\ r \in Reqs /\ r \in Range(pendingQueue)
      /\ pendingQueue' \in Seq(Reqs)
      /\ Range(pendingQueue') = Range(pendingQueue) \ {r}
      /\ IsInjective(pendingQueue')
  <2>1. r \in Range(pendingQueue)
    BY DEF Range
  <2>2. QED
    BY <1>2, <2>1, RemoveAtRange DEF IInv, TypeOK, OneHolder
<1> HIDE DEF r
<1>4. m.sec = sector[r] /\ m.sec \in Sectors
  BY <1>2 DEF IInv, TypeOK, Message, Matches, r
<1>5. /\ rxPc[s] = "recv" /\ rxPc' = [rxPc EXCEPT ![s] = "end"]
      /\ UNCHANGED <<devVars, elv, sector, result, special, poolVars,
                     sendQueue, pendingReqs, spin, txVars>>
  BY DEF RxFind
<1>6. /\ Waiting' = Waiting /\ Accepted' = Accepted /\ TxHeld' = TxHeld
  BY <1>5 DEF Waiting, Accepted, TxHeld, txVars
<1>7. /\ rxReq'[s] = r /\ rxInfo'[s] = special[r] /\ rxPc'[s] = "end"
      /\ \A t \in Servers : t # s => /\ rxReq'[t] = rxReq[t]
                                     /\ rxInfo'[t] = rxInfo[t]
                                     /\ rxPc'[t] = rxPc[t]
  BY <1>2, <1>5 DEF IInv, TypeOK, r
<1>8. RxBusy' = RxBusy \cup {s} /\ s \notin RxBusy /\ RxBusy \subseteq Servers
  BY <1>5, <1>7 DEF RxBusy
<1>9. RxHeld' = RxHeld \cup {r}
  BY <1>7, <1>8 DEF RxHeld
<1>10. /\ r \in Accepted /\ special[r] \in Slots
       /\ r \notin RxHeld /\ r \notin TxHeld
  BY <1>3 DEF IInv, TypeOK, OneHolder, SlotExclusive, Accepted
<1>11. data'[r] = sector[r] /\ \A q \in Reqs : q # r => data'[q] = data[q]
  BY <1>2, <1>3, <1>4 DEF IInv, TypeOK, r
<1>12. result[r] = "waiting"
  BY <1>10 DEF Accepted, Waiting
<1>a. TypeOK'
  <2>1. rxReq' \in [Servers -> Reqs \cup {None}]
          /\ rxInfo' \in [Servers -> Slots \cup {None}]
          /\ data' \in [Reqs -> Sectors \cup {None}]
          /\ rxPc' \in [Servers -> {"recv", "end", "free"}]
          /\ net' \subseteq Message
    BY <1>2, <1>3, <1>4, <1>5, <1>10 DEF IInv, TypeOK, r
  <2>2. QED
    BY <1>3, <1>5, <2>1 DEF IInv, TypeOK, devVars, poolVars, txVars
<1>b. OneHolder'
  <2>1. \A t, u \in RxBusy' : rxReq'[t] = rxReq'[u] => t = u
    BY <1>7, <1>8, <1>10 DEF IInv, OneHolder, RxHeld
  <2>2. QED
    BY <1>3, <1>5, <1>6, <1>9, <1>10, <2>1 DEF IInv, OneHolder
<1>c. SlotExclusive'
  BY <1>5, <1>6 DEF IInv, SlotExclusive, poolVars
<1>d. RightData'
  BY <1>5, <1>11, <1>12 DEF IInv, RightData
<1>e. LocalsInv'
  <2>1. ASSUME NEW t \in Servers, t # s, rxPc[t] = "end"
        PROVE  rxReq[t] \in Reqs /\ rxReq[t] # r
    BY <1>10, <2>1 DEF IInv, LocalsInv, RxHeld, RxBusy
  <2>2. QED
    BY <1>3, <1>5, <1>7, <1>11, <2>1 DEF IInv, LocalsInv, txVars
<1>f. FreeingInv'
  BY <1>5, <1>6, <1>7 DEF IInv, FreeingInv, poolVars, txVars
<1>g. RunningInv'
  BY <1>3, <1>5, <1>6, <1>9 DEF IInv, RunningInv, devVars, txVars
<1>h. QED
  BY <1>a, <1>b, <1>c, <1>d, <1>e, <1>f, <1>g DEF IInv

\* A receiver answers the request it has in hand.
LEMMA RxEndStep ==
    ASSUME IInv, NEW s \in Servers, RxEnd(s)
    PROVE  IInv'
<1> DEFINE r == rxReq[s]
<1>1. /\ r \in Reqs /\ r \in Waiting /\ r \in Accepted /\ r \in RxHeld
      /\ rxInfo[s] = special[r] /\ rxInfo[s] \in Slots
      /\ data[r] = sector[r]
  <2>1. r \in RxHeld /\ r \in Accepted
    BY DEF IInv, OneHolder, RxEnd, RxHeld, RxBusy, Accepted
  <2>2. r \in Reqs /\ rxInfo[s] = special[r] /\ data[r] = sector[r]
    BY DEF IInv, LocalsInv, RxEnd
  <2>3. QED
    BY <2>1, <2>2 DEF IInv, TypeOK, SlotExclusive, Accepted
<1>2. /\ rxPc[s] = "end" /\ rxPc'[s] = "free"
      /\ \A t \in Servers : t # s => rxReq'[t] = rxReq[t] /\ rxPc'[t] = rxPc[t]
      /\ UNCHANGED <<devVars, elv, sector, data, special, poolVars, sendQueue,
                     pendingQueue, spin, txVars, rxInfo, net>>
      /\ result' = [result EXCEPT ![r] = "ok"]
  BY DEF IInv, TypeOK, RxEnd, EndRequest
<1>3. /\ Waiting' = Waiting \ {r} /\ TxHeld' = TxHeld
      /\ RxBusy' = RxBusy \ {s} /\ s \in RxBusy
  BY <1>1, <1>2 DEF IInv, TypeOK, Waiting, TxHeld, RxBusy, txVars
<1>4. RxHeld' = RxHeld \ {r}
  <2>1. \A t \in RxBusy : rxReq[t] = r => t = s
    BY <1>3 DEF IInv, OneHolder
  <2>2. \A t \in RxBusy' : t \in RxBusy /\ rxReq'[t] = rxReq[t] /\ rxReq[t] # r
    BY <1>2, <1>3, <2>1 DEF RxBusy
  <2>3. \A t \in RxBusy : t \in RxBusy' \/ rxReq[t] = r
    BY <1>3
  <2>4. QED
    BY <2>2, <2>3 DEF RxHeld
<1>5. Accepted' = Accepted \ {r}
  BY <1>2, <1>3 DEF Accepted
<1>6. result'[r] = "ok" /\ \A q \in Reqs : q # r => result'[q] = result[q]
  BY <1>1, <1>2 DEF IInv, TypeOK
<1>a. TypeOK'
  BY <1>1 DEF IInv, TypeOK, RxEnd, EndRequest, TxPlaces, devVars, poolVars,
     txVars
<1>b. OneHolder'
  <2>1. \A t, u \in RxBusy' : rxReq'[t] = rxReq'[u] => t = u
    BY <1>2, <1>3 DEF IInv, OneHolder, RxBusy
  <2>2. QED
    BY <1>1, <1>2, <1>3, <1>4, <2>1 DEF IInv, OneHolder
<1>c. SlotExclusive'
  BY <1>2, <1>5 DEF IInv, SlotExclusive, poolVars
<1>d. RightData'
  BY <1>1, <1>2, <1>6 DEF IInv, RightData
<1>e. LocalsInv'
  BY <1>1, <1>2 DEF IInv, LocalsInv, txVars
<1>f. FreeingInv'
  <2>1. /\ cnt[rxInfo[s]] # -1
        /\ \A q \in Accepted' : special[q] # rxInfo[s]
        /\ txPc = "free" => rxInfo[s] # txInfo
        /\ \A t \in Servers : rxPc[t] = "free" => rxInfo[t] # rxInfo[s]
    BY <1>1, <1>5 DEF IInv, SlotExclusive, FreeingInv
  <2>2. QED
    BY <1>2, <1>5, <2>1 DEF IInv, FreeingInv, poolVars, txVars
<1>g. RunningInv'
  BY <1>2, <1>3, <1>4 DEF IInv, RunningInv, devVars, txVars
<1>h. QED
  BY <1>a, <1>b, <1>c, <1>d, <1>e, <1>f, <1>g DEF IInv

\* A receiver frees the slot of the request it has answered.
LEMMA RxFreeStep ==
    ASSUME IInv, NEW s \in Servers, RxFree(s)
    PROVE  IInv'
<1>u. /\ UNCHANGED <<devVars, blkVars, special, dst, sendQueue, pendingQueue,
                     pendingReqs, spin, txVars, rxReq, net>>
      /\ rxPc[s] = "free" /\ rxPc'[s] = "recv" /\ rxInfo'[s] = None
      /\ \A t \in Servers : t # s =>
              rxInfo'[t] = rxInfo[t] /\ rxPc'[t] = rxPc[t]
      /\ rxInfo[s] \in Slots
  BY DEF IInv, TypeOK, LocalsInv, RxFree
<1>1. /\ cnt' \in [Slots -> -1 .. CntMax]
      /\ \A j \in Slots : j # rxInfo[s] => cnt'[j] = cnt[j]
  BY CountRange DEF IInv, TypeOK, RxFree, FreeSlot
<1>2. \A q \in Accepted : special[q] # rxInfo[s] /\ special[q] \in Slots
  BY <1>u DEF IInv, TypeOK, FreeingInv, SlotExclusive, Accepted, Waiting
<1>3. /\ Waiting' = Waiting /\ Accepted' = Accepted /\ TxHeld' = TxHeld
  BY <1>u DEF Waiting, Accepted, TxHeld, blkVars, txVars
<1>4. RxBusy' = RxBusy
  BY <1>u DEF RxBusy
<1>5. RxHeld' = RxHeld
  BY <1>u, <1>4 DEF RxHeld
<1>a. TypeOK'
  BY <1>1 DEF IInv, TypeOK, RxFree, TxPlaces, devVars, blkVars, txVars
<1>b. OneHolder'
  BY <1>u, <1>3, <1>4, <1>5 DEF IInv, OneHolder, blkVars
<1>c. SlotExclusive'
  BY <1>u, <1>1, <1>2, <1>3 DEF IInv, SlotExclusive
<1>d. RightData'
  BY <1>u DEF IInv, RightData, blkVars
<1>e. LocalsInv'
  BY <1>u DEF IInv, LocalsInv, blkVars, txVars
<1>f. FreeingInv'
  BY <1>u, <1>1, <1>3 DEF IInv, LocalsInv, FreeingInv, txVars
<1>g. RunningInv'
  BY <1>u, <1>3, <1>5 DEF IInv, RunningInv, devVars, blkVars, txVars
<1>h. QED
  BY <1>a, <1>b, <1>c, <1>d, <1>e, <1>f, <1>g DEF IInv

\* The timer moves a request from the pending- to the send-queue.
LEMMA RequeueStep ==
    ASSUME IInv, NEW k \in DOMAIN pendingQueue, Requeue(k)
    PROVE  IInv'
<1> DEFINE r == pendingQueue[k]
<1>1. /\ r \in Reqs /\ r \in Range(pendingQueue)
      /\ pendingQueue' \in Seq(Reqs)
      /\ Range(pendingQueue') = Range(pendingQueue) \ {r}
      /\ IsInjective(pendingQueue')
  <2>1. r \in Range(pendingQueue)
    BY DEF Range
  <2>2. QED
    BY <2>1, RemoveAtRange DEF IInv, TypeOK, OneHolder, Requeue
<1>2. sendQueue' = Append(sendQueue, r)
  BY DEF Requeue
<1> HIDE DEF r
<1>3. r \notin Range(sendQueue) /\ IsInjective(sendQueue)
  BY <1>1 DEF IInv, OneHolder
<1>4. /\ sendQueue' \in Seq(Reqs)
      /\ Range(sendQueue') = Range(sendQueue) \cup {r}
      /\ IsInjective(sendQueue')
  BY <1>1, <1>2, <1>3, AppendRange, AppendKeepsInjective DEF IInv, TypeOK
<1>u. UNCHANGED <<devVars, blkVars, special, poolVars, pendingReqs, spin,
                  txVars, rxVars, net>>
  BY DEF Requeue
<1>5. /\ Waiting' = Waiting /\ Accepted' = Accepted /\ TxHeld' = TxHeld
      /\ RxBusy' = RxBusy /\ RxHeld' = RxHeld
  BY <1>u DEF Waiting, Accepted, TxHeld, RxBusy, RxHeld, blkVars, txVars, rxVars
<1>a. TypeOK'
  BY <1>1, <1>4, <1>u DEF IInv, TypeOK, devVars, blkVars, poolVars, txVars,
     rxVars
<1>b. OneHolder'
  BY <1>1, <1>4, <1>5, <1>u DEF IInv, OneHolder, blkVars, rxVars
<1>c. SlotExclusive'
  BY <1>5, <1>u DEF IInv, SlotExclusive, poolVars
<1>d. RightData' /\ LocalsInv'
  BY <1>u DEF IInv, RightData, LocalsInv, blkVars, txVars, rxVars
<1>f. FreeingInv'
  BY <1>5, <1>u DEF IInv, FreeingInv, poolVars, txVars, rxVars
<1>g. RunningInv'
  BY <1>1, <1>5, <1>u DEF IInv, RunningInv, devVars, blkVars, txVars
<1>h. QED
  BY <1>a, <1>b, <1>c, <1>d, <1>f, <1>g DEF IInv

\* The servers and the network.
LEMMA NetStep ==
    ASSUME IInv,
           \/ \E s \in Servers, x \in Sectors : ServerReply(s, x)
           \/ \E m \in net : Lose(m)
    PROVE  IInv'
<1>u. UNCHANGED <<devVars, blkVars, special, poolVars, sendQueue,
                  pendingQueue, pendingReqs, spin, txVars, rxVars>>
  BY DEF ServerReply, Lose
<1>h. TxHeld' = TxHeld
  BY <1>u DEF TxHeld, txVars
<1>s. /\ Waiting' = Waiting /\ Accepted' = Accepted /\ RxHeld' = RxHeld
      /\ OneHolder' /\ RightData'
  BY <1>u, <1>h, HoldersUnchanged DEF IInv
<1>1. net' \subseteq Message
  <2>1. CASE \E m \in net : Lose(m)
    BY <2>1 DEF IInv, TypeOK, Lose
  <2>2. ASSUME NEW s \in Servers, NEW x \in Sectors, ServerReply(s, x)
        PROVE  net' \subseteq Message
    <3>1. net' \subseteq net \cup {[type |-> "reply", srv |-> s, sec |-> x]}
      BY <2>2 DEF ServerReply
    <3>2. [type |-> "reply", srv |-> s, sec |-> x] \in Message
      BY DEF Message
    <3>3. QED
      BY <3>1, <3>2 DEF IInv, TypeOK
  <2>3. QED
    BY <2>1, <2>2
<1>a. TypeOK'
  BY <1>u, <1>1 DEF IInv, TypeOK, devVars, blkVars, poolVars, txVars, rxVars
<1>b. SlotExclusive' /\ LocalsInv'
  BY <1>u, <1>s DEF IInv, SlotExclusive, LocalsInv, blkVars, poolVars, txVars,
     rxVars
<1>c. FreeingInv'
  BY <1>u, <1>s DEF IInv, FreeingInv, poolVars, txVars, rxVars
<1>d. RunningInv'
  BY <1>u, <1>s DEF IInv, RunningInv, devVars, blkVars, txVars
<1>e. QED
  BY <1>s, <1>a, <1>b, <1>c, <1>d DEF IInv

LEMMA StutterStep == ASSUME IInv, UNCHANGED vars PROVE IInv'
<1>u. UNCHANGED <<devVars, blkVars, special, poolVars, sendQueue,
                  pendingQueue, pendingReqs, spin, txVars, rxVars, net>>
  BY DEF vars
<1>h. TxHeld' = TxHeld
  BY <1>u DEF TxHeld, txVars
<1>s. /\ Waiting' = Waiting /\ Accepted' = Accepted /\ RxHeld' = RxHeld
      /\ OneHolder' /\ RightData'
  BY <1>u, <1>h, HoldersUnchanged DEF IInv
<1>a. TypeOK'
  BY <1>u DEF IInv, TypeOK, devVars, blkVars, poolVars, txVars, rxVars
<1>b. SlotExclusive' /\ LocalsInv'
  BY <1>u, <1>s DEF IInv, SlotExclusive, LocalsInv, blkVars, poolVars, txVars,
     rxVars
<1>c. FreeingInv'
  BY <1>u, <1>s DEF IInv, FreeingInv, poolVars, txVars, rxVars
<1>d. RunningInv'
  BY <1>u, <1>s DEF IInv, RunningInv, devVars, blkVars, txVars
<1>e. QED
  BY <1>s, <1>a, <1>b, <1>c, <1>d DEF IInv

LEMMA InitIInv == Init => IInv
<1> SUFFICES ASSUME Init PROVE IInv
  OBVIOUS
<1>1. Waiting = {} /\ TxHeld = {} /\ RxBusy = {} /\ RxHeld = {} /\ Accepted = {}
  BY DEF Init, Waiting, TxHeld, RxBusy, RxHeld, Accepted
<1>2. Range(sendQueue) = {} /\ Range(pendingQueue) = {}
        /\ IsInjective(sendQueue) /\ IsInjective(pendingQueue)
  BY EmptyRange DEF Init
<1>3. TypeOK
  <2>1. MaxOpens \in Nat
    BY ConstantsAssumption
  <2>2. <<>> \in Seq(Reqs)
    OBVIOUS
  <2>3. refcnt \in 0 .. MaxOpens /\ pendingReqs \in Int
    BY <2>1 DEF Init
  <2>4. txCnt \in -1 .. CntMax /\ cnt \in [Slots -> -1 .. CntMax]
    BY CountRange DEF Init
  <2>5. sendQueue \in Seq(Reqs) /\ pendingQueue \in Seq(Reqs)
    BY <2>2 DEF Init
  <2>6. QED
    BY <2>3, <2>4, <2>5 DEF Init, TypeOK, TxPlaces
<1>4. OneHolder
  BY <1>1, <1>2 DEF OneHolder, Init
<1>5. SlotExclusive /\ RightData /\ LocalsInv /\ FreeingInv /\ RunningInv
  BY <1>1, <1>2 DEF Init, SlotExclusive, RightData, LocalsInv, FreeingInv,
     RunningInv
<1>6. QED
  BY <1>3, <1>4, <1>5 DEF IInv

\* The inductive invariant holds in every reachable state.
THEOREM Invariance == Spec => []IInv
<1>1. IInv /\ [Next]_vars => IInv'
  <2> SUFFICES ASSUME IInv, [Next]_vars PROVE IInv'
    OBVIOUS
  <2>1. CASE UNCHANGED vars
    BY <2>1, StutterStep
  <2>2. CASE Open \/ Release \/ StopDevice
               \/ \E s \in Servers : StartDevice(s) \/ StoreActive(s)
    BY <2>2, DeviceStep
  <2>3. CASE \E s \in Servers : RxFind(s) \/ RxEnd(s) \/ RxFree(s)
    BY <2>3, RxFindStep, RxEndStep, RxFreeStep
  <2>4. CASE \/ \E s \in Servers, x \in Sectors : ServerReply(s, x)
             \/ \E m \in net : Lose(m)
    BY <2>4, NetStep
  <2>5. CASE \E r \in Reqs, x \in Sectors \cup {None} : Submit(r, x)
    BY <2>5, SubmitStep
  <2>6. CASE \E r \in Reqs : Dnbd2Request(r)
    BY <2>6, DiscardStep, PoolFullStep, AcceptStep DEF Dnbd2Request
  <2>7. CASE Tx
    BY <2>7, TxDequeueStep, TxLockStep, TxEndStep, TxFreeStep, TxEnqueueStep,
       TxXmitLoadStep, TxStoreStep DEF Tx
  <2>8. CASE \E k \in DOMAIN pendingQueue : Requeue(k)
    BY <2>8, RequeueStep
  <2>9. QED
    BY <2>1, <2>2, <2>3, <2>4, <2>5, <2>6, <2>7, <2>8 DEF Next
<1>2. QED
  BY InitIInv, <1>1, PTL DEF Spec

\* Every variable keeps its type.
THEOREM TypeCorrect == Spec => []TypeOK
<1>1. IInv => TypeOK
  BY DEF IInv
<1>2. QED
  BY Invariance, <1>1, PTL

\* No request is lost or in two places (core.c, the two queues).
THEOREM NothingLost == Spec => []OneHolder
<1>1. IInv => OneHolder
  BY DEF IInv
<1>2. QED
  BY Invariance, <1>1, PTL

\* No slot of the pool serves two requests (dnbd2_request, core.c:42-54).
THEOREM SlotsExclusive == Spec => []SlotExclusive
<1>1. IInv => SlotExclusive
  BY DEF IInv
<1>2. QED
  BY Invariance, <1>1, PTL

\* A reader is given the sector it asked for (dnbd2_rx_loop).
THEOREM DataIsRight == Spec => []RightData
<1>1. IInv => RightData
  BY DEF IInv
<1>2. QED
  BY Invariance, <1>1, PTL

-----------------------------------------------------------------------------
(* dev->pending_reqs.                                                      *)

LEMMA AcceptedFinite ==
    ASSUME IInv PROVE Accepted \subseteq Reqs /\ IsFiniteSet(Accepted)
                        /\ Cardinality(Accepted) \in Nat
<1>1. Accepted \subseteq Reqs
  BY DEF Accepted, Waiting
<1>2. QED
  BY <1>1, ConstantsAssumption, FS_Subset, FS_CardinalityType

\* An accepted request is counted.
LEMMA CountAccept ==
    ASSUME IInv, PendingReqsExact, NEW r \in Reqs, NEW i \in Slots, Accept(r, i)
    PROVE  PendingReqsExact'
<1>1. Accepted' = Accepted \cup {r} /\ r \notin Accepted
  BY DEF IInv, OneHolder, Accept, Accepted, Waiting
<1>2. Cardinality(Accepted') = Cardinality(Accepted) + 1
  BY <1>1, AcceptedFinite, FS_AddElement
<1>3. QED
  BY <1>2 DEF PendingReqsExact, Accept

\* An answered request is no longer counted, whoever answers it.
LEMMA CountEnd ==
    ASSUME IInv, PendingReqsExact, TxEnd \/ \E s \in Servers : RxEnd(s)
    PROVE  PendingReqsExact'
<1>1. PICK r \in Accepted : /\ \E a \in {"ok", "failed"} : EndRequest(r, a)
                            /\ elv' = elv
  <2>1. CASE TxEnd
    BY <2>1 DEF IInv, OneHolder, TxEnd, TxHeld, Accepted
  <2>2. CASE \E s \in Servers : RxEnd(s)
    BY <2>2 DEF IInv, OneHolder, RxEnd, RxBusy, RxHeld, Accepted
  <2>3. QED
    BY <2>1, <2>2
<1>2. Accepted' = Accepted \ {r}
  BY <1>1 DEF IInv, TypeOK, EndRequest, Accepted, Waiting
<1>3. Cardinality(Accepted') = Cardinality(Accepted) - 1
  BY <1>2, AcceptedFinite, FS_RemoveElement
<1>4. QED
  BY <1>1, <1>3 DEF PendingReqsExact, EndRequest

\* No other step changes the count or the accepted requests.
LEMMA CountOther ==
    ASSUME IInv, PendingReqsExact,
           Accepted' = Accepted, pendingReqs' = pendingReqs
    PROVE  PendingReqsExact'
  BY DEF PendingReqsExact

\* dev->pending_reqs is the number of accepted requests: what sysfs shows and
\* what activate_fastest_work takes for "there are pending requests".
THEOREM PendingReqsCounted == Spec => []PendingReqsExact
<1>1. Init => PendingReqsExact
  <2>1. Init => Accepted = {}
    BY DEF Init, Accepted, Waiting
  <2>2. QED
    BY <2>1, FS_EmptySet DEF Init, PendingReqsExact
<1>2. IInv /\ PendingReqsExact /\ [Next]_vars => PendingReqsExact'
  <2> SUFFICES ASSUME IInv, PendingReqsExact, [Next]_vars
               PROVE PendingReqsExact'
    OBVIOUS
  <2>1. CASE UNCHANGED vars
    BY <2>1 DEF vars, blkVars, Accepted, Waiting, PendingReqsExact
  <2>2. CASE Open \/ Release \/ StopDevice
               \/ \E s \in Servers : StartDevice(s) \/ StoreActive(s)
    BY <2>2 DEF Open, Release, StopDevice, StartDevice, StoreActive, blkVars,
                Accepted, Waiting, PendingReqsExact
  <2>3. CASE \E s \in Servers : RxFind(s) \/ RxFree(s)
    BY <2>3 DEF RxFind, RxFree, blkVars, Accepted, Waiting, PendingReqsExact
  <2>4. CASE \/ \E s \in Servers, x \in Sectors : ServerReply(s, x)
             \/ \E m \in net : Lose(m)
             \/ \E k \in DOMAIN pendingQueue : Requeue(k)
    BY <2>4 DEF ServerReply, Lose, Requeue, blkVars, Accepted, Waiting,
                PendingReqsExact
  <2>5. ASSUME NEW r \in Reqs, NEW x \in Sectors \cup {None}, Submit(r, x)
        PROVE  PendingReqsExact'
    <3>1. Accepted' = Accepted
      BY <2>5 DEF IInv, TypeOK, OneHolder, Submit, Accepted, Waiting
    <3>2. QED
      BY <2>5, <3>1 DEF Submit, PendingReqsExact
  <2>6. ASSUME NEW r \in Reqs, Discard(r) \/ PoolFull(r)
        PROVE  PendingReqsExact'
    <3>1. Accepted' = Accepted
      BY <2>6 DEF IInv, TypeOK, Discard, PoolFull, blkVars, Accepted, Waiting
    <3>2. QED
      BY <2>6, <3>1 DEF Discard, PoolFull, PendingReqsExact
  <2>7. CASE \E r \in Reqs : \E i \in Slots : Accept(r, i)
    BY <2>7, CountAccept
  <2>8. CASE TxEnd \/ \E s \in Servers : RxEnd(s)
    BY <2>8, CountEnd
  <2>9. CASE TxDequeue \/ TxLock \/ TxFree \/ TxEnqueue \/ TxXmit \/ TxLoad
             \/ TxStore
    BY <2>9 DEF TxDequeue, TxLock, TxFree, TxEnqueue, TxXmit, TxLoad, TxStore,
                blkVars, Accepted, Waiting, PendingReqsExact
  <2>10. QED
    BY <2>1, <2>2, <2>3, <2>4, <2>5, <2>6, <2>7, <2>8, <2>9
       DEF Next, Tx, Dnbd2Request
<1>3. QED
  BY Invariance, <1>1, <1>2, PTL DEF Spec

-----------------------------------------------------------------------------
(* The driver implements BlockDevice.                                      *)

\* The buffer as a reader sees it: defined once the request is answered.
Buffer == [r \in Reqs |-> IF result[r] = "ok" THEN data[r] ELSE None]

\* Steps of the driver that the block layer does not see.
LEMMA UnseenStep ==
    ASSUME UNCHANGED <<running, sector, result, data>>
    PROVE  UNCHANGED Device!vars
<1>1. UNCHANGED Buffer
  BY DEF Buffer
<1>2. QED
  BY <1>1 DEF Device!vars, Buffer

\* Every step of the driver is a step of the block device or unseen.
LEMMA RefinementStep ==
    ASSUME IInv, [Next]_vars PROVE [Device!Next]_(Device!vars)
<1> DEFINE Goal == Device!Next \/ UNCHANGED Device!vars
<1>1. CASE UNCHANGED vars
  BY <1>1, UnseenStep DEF vars, devVars, blkVars
<1>2. CASE Open \/ Release \/ \E s \in Servers : StoreActive(s)
  BY <1>2, UnseenStep DEF Open, Release, StoreActive, blkVars
<1>3. CASE StopDevice \/ \E s \in Servers : StartDevice(s)
  <2>1. Device!Waiting = {}
    BY <1>3 DEF IInv, RunningInv, StopDevice, StartDevice, Waiting,
       Device!Waiting
  <2>2. running' = ~running /\ UNCHANGED <<sector, result, data>>
    BY <1>3 DEF IInv, TypeOK, StopDevice, StartDevice, blkVars
  <2>3. UNCHANGED Buffer
    BY <2>2 DEF Buffer
  <2>4. Device!Toggle
    BY <2>1, <2>2, <2>3 DEF Device!Toggle, Buffer
  <2>5. QED
    BY <2>4 DEF Device!Next
<1>4. ASSUME NEW r \in Reqs, NEW x \in Sectors \cup {None}, Submit(r, x)
      PROVE  Goal
  <2>1. Buffer' = [Buffer EXCEPT ![r] = None]
    BY <1>4 DEF IInv, TypeOK, Submit, Buffer
  <2>2. Device!Submit(r, x)
    BY <1>4, <2>1 DEF Submit, devVars, Device!Submit, Buffer
  <2>3. QED
    BY <2>2 DEF Device!Next
<1>5. ASSUME NEW r \in Reqs, Discard(r)
      PROVE  Goal
  <2>1. result[r] = "waiting"
    BY <1>5 DEF IInv, OneHolder, Discard, Waiting
  <2>2. Buffer' = Buffer
    BY <1>5, <2>1 DEF IInv, TypeOK, Discard, Buffer
  <2>3. Device!Fail(r)
    BY <1>5, <2>1, <2>2 DEF Discard, devVars, Device!Fail, Buffer
  <2>4. QED
    BY <2>3 DEF Device!Next
<1>6. CASE TxEnd
  <2>1. txReq \in Reqs /\ result[txReq] = "waiting" /\ ~running
    BY <1>6 DEF IInv, OneHolder, LocalsInv, RunningInv, TxEnd, TxHeld, Waiting
  <2>2. Buffer' = Buffer
    BY <1>6, <2>1 DEF IInv, TypeOK, TxEnd, EndRequest, Buffer
  <2>3. Device!Fail(txReq)
    BY <1>6, <2>1, <2>2 DEF TxEnd, EndRequest, devVars, Device!Fail, Buffer
  <2>4. QED
    BY <2>1, <2>3 DEF Device!Next
<1>7. ASSUME NEW s \in Servers, RxEnd(s)
      PROVE  Goal
  <2>0. PICK r \in Reqs : r = rxReq[s]
    BY <1>7 DEF IInv, LocalsInv, RxEnd
  <2>1. /\ r \in Reqs /\ result[r] = "waiting" /\ running
        /\ data[r] = sector[r] /\ sector[r] # None
    <3>1. r \in RxHeld /\ r \in Accepted /\ r \in Waiting
      BY <1>7, <2>0 DEF IInv, OneHolder, RxEnd, RxHeld, RxBusy, Accepted
    <3>2. r \in Reqs /\ data[r] = sector[r]
      BY <1>7, <2>0 DEF IInv, LocalsInv, RxEnd
    <3>3. QED
      BY <3>1, <3>2 DEF IInv, SlotExclusive, RunningInv, Waiting
  <2>2. Buffer' = [Buffer EXCEPT ![r] = sector[r]]
    BY <1>7, <2>0, <2>1 DEF IInv, TypeOK, RxEnd, EndRequest, Buffer
  <2>3. Device!Serve(r)
    BY <1>7, <2>0, <2>1, <2>2 DEF RxEnd, EndRequest, devVars, Device!Serve,
       Buffer
  <2>4. QED
    BY <2>3 DEF Device!Next
<1>8. ASSUME NEW s \in Servers, RxFind(s)
      PROVE  Goal
  <2>1. PICK k \in DOMAIN pendingQueue : \E x :
           data' = [data EXCEPT ![pendingQueue[k]] = x]
    BY <1>8 DEF RxFind
  <2>2. result[pendingQueue[k]] = "waiting"
    BY DEF IInv, OneHolder, Range, Waiting
  <2>3. Buffer' = Buffer
    BY <1>8, <2>1, <2>2 DEF IInv, TypeOK, RxFind, Buffer
  <2>4. UNCHANGED Device!vars
    BY <1>8, <2>3 DEF RxFind, devVars, Device!vars, Buffer
  <2>5. QED
    BY <2>4
<1>9. CASE \/ \E s \in Servers : RxFree(s)
           \/ \E s \in Servers, x \in Sectors : ServerReply(s, x)
           \/ \E m \in net : Lose(m)
           \/ \E k \in DOMAIN pendingQueue : Requeue(k)
  BY <1>9, UnseenStep DEF RxFree, ServerReply, Lose, Requeue, devVars, blkVars
<1>10. CASE \E r \in Reqs : PoolFull(r) \/ \E i \in Slots : Accept(r, i)
  BY <1>10, UnseenStep DEF PoolFull, Accept, devVars, blkVars
<1>11. CASE TxDequeue \/ TxLock \/ TxFree \/ TxEnqueue \/ TxXmit \/ TxLoad
            \/ TxStore
  BY <1>11, UnseenStep DEF TxDequeue, TxLock, TxFree, TxEnqueue, TxXmit, TxLoad,
                           TxStore, devVars, blkVars
<1>12. QED
  BY <1>1, <1>2, <1>3, <1>4, <1>5, <1>6, <1>7, <1>8, <1>9, <1>10, <1>11
     DEF Next, Tx, Dnbd2Request

\* The driver answers each request at most once, with the sector it asked for,
\* and fails it only if it is no read or the device does not run.
THEOREM Refinement == Spec => ImplementsBlockDevice
<1>1. Init => Device!Init
  <2> SUFFICES ASSUME Init PROVE Device!Init
    OBVIOUS
  <2>1. Buffer = [r \in Reqs |-> None]
    BY DEF Init, Buffer
  <2>2. QED
    BY <2>1 DEF Init, Device!Init, Buffer
<1>2. IInv /\ [Next]_vars => [Device!Next]_(Device!vars)
  BY RefinementStep
<1>3. QED
  BY Invariance, <1>1, <1>2, PTL DEF Spec, ImplementsBlockDevice, Device!Spec
=============================================================================
