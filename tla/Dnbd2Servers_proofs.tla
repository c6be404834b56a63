------------------------- MODULE Dnbd2Servers_proofs -------------------------
(***************************************************************************)
(* Proofs about Dnbd2Servers, for every number of slots, servers and       *)
(* control requests.                                                       *)
(***************************************************************************)
EXTENDS Dnbd2Servers, QueueLemmas

\* What threads hold between their steps is of its kind.
LocalsInv ==
    /\ userPc = "replacing" => userArg \in Hosts \cup {None}
    /\ userPc = "answered" => userArg \in Datasets
    /\ userPc \in {"waiting", "answered", "starting"} => userAt \in Slots
    /\ txPc # "idle" => txReq \in Ctl
    /\ \A i \in RxBusy : rxReq[i] \in Ctl
    /\ toPc = "switch" => toArg \in Slots

\* Who is where servers_mutex is needed, holds it; and a slot is being removed
\* exactly while one of those that remove slots does.
LockInv ==
    /\ userPc = "replacing" <=> mutex = "user"
    /\ txPc = "send" <=> mutex = "tx"
    /\ toPc # "idle" <=> mutex = "to"
    /\ \A i \in Slots : rxPc[i] = "listing" => mutex = "rx"
    /\ \A i, j \in Slots : rxPc[i] = "listing" /\ rxPc[j] = "listing" => i = j
    /\ victim # None <=> mutex \in {"user", "del"} \/ toPc = "removing"

\* The writer sets and clears the active server while the device is stopped.
StartInv ==
    /\ userPc \in {"scan", "waiting", "answered", "starting", "stopping"} =>
          ~running
    /\ userPc = "starting" => active # None
    /\ ActiveSet

IInv == /\ TypeOK /\ LocalsInv /\ LockInv /\ StartInv
        /\ TimersRun /\ ReceiverRuns /\ OneHolder

-----------------------------------------------------------------------------
(* Types, in three parts.                                                  *)

UserTypes ==
    /\ ds \in Datasets \cup {None} /\ running \in BOOLEAN
    /\ diskCap \in Datasets \cup {None} /\ reqs \in 0 .. MaxReqs
    /\ active \in Slots \cup {None} /\ crashed \in BOOLEAN
    /\ userPc \in {"idle", "replacing", "scan", "waiting", "answered",
                   "starting", "stopping"}
    /\ userAt \in 0 .. NSlots
    /\ userArg \in Hosts \cup Datasets \cup {None}

SlotTypes ==
    /\ sock \in [Slots -> Hosts \cup {None}]
    /\ capacity \in [Slots -> Datasets \cup {None}]
    /\ emergency \in BOOLEAN /\ emerg \in [Slots -> Hosts \cup {None}]
    /\ armed \in [Timers -> BOOLEAN]
    /\ rxPc \in [Slots -> {"off", "recv", "handle", "listing"}]
    /\ rxReq \in [Slots -> Ctl \cup {None}]
    /\ delWork \in [Slots -> BOOLEAN] /\ toWork \in BOOLEAN
    /\ toPc \in {"idle", "check", "removing", "emergency", "choose", "switch"}
    /\ toArg \in Slots \cup {None}

QueueTypes ==
    /\ mutex \in {"free", "user", "tx", "rx", "del", "to"}
    /\ victim \in Slots \cup {None}
    /\ toAdd \in Seq(Hosts \cup {None})
    /\ ctl \in [Ctl -> Request \cup {None}]
    /\ sendQueue \in Seq(Ctl) /\ pendingQueue \in Seq(Ctl)
    /\ txPc \in {"idle", "dequeued", "send"} /\ txReq \in Ctl \cup {None}

LEMMA TypeParts == TypeOK <=> UserTypes /\ SlotTypes /\ QueueTypes
  BY DEF TypeOK, UserTypes, SlotTypes, QueueTypes

LEMMA SlotFacts ==
    /\ None \notin Slots /\ NSlots \in Nat /\ NSlots > 0
    /\ Slots = 0 .. NSlots - 1 /\ Slots \subseteq 0 .. NSlots
    /\ None \notin Hosts \cup Datasets \cup Ctl
    /\ MaxReqs \in Nat /\ MaxSends \in Nat
  BY ConstantsAssumption DEF Slots

\* The list of servers in a reply.
LEMMA ListTypes ==
    ASSUME NEW others \in Lists
    PROVE  others \in Seq(Hosts \cup {None}) /\ others \in Seq(Hosts)
<1>1. PICK n \in 0 .. NSlots - 1 : others \in [1 .. n -> Hosts]
  BY DEF Lists
<1>2. n \in Nat
  BY <1>1, SlotFacts
<1>3. QED
  BY <1>1, <1>2

\* RemoveAt needs no distinct elements to keep the type of a queue.
LEMMA RemoveAtType ==
    ASSUME NEW S, NEW q \in Seq(S), NEW k \in DOMAIN q
    PROVE  q[k] \in S /\ RemoveAt(q, k) \in Seq(S)
<1>1. Len(q) \in Nat /\ k \in 1 .. Len(q) /\ q[k] \in S
  OBVIOUS
<1>2. SubSeq(q, 1, k - 1) \in Seq(S)
  BY <1>1, SubSeqProperties
<1>3. SubSeq(q, k + 1, Len(q)) \in Seq(S)
  BY <1>1, SubSeqProperties
<1>4. QED
  BY <1>1, <1>2, <1>3, ConcatProperties DEF RemoveAt

\* A request that is sent stays a request.
LEMMA SentTyped ==
    ASSUME NEW r \in Request, ds \in Datasets \cup {None}
    PROVE  Sent(r) \in Request
<1>1. r.cnt \in 0 .. MaxSends + 1
  BY DEF Request
<1>2. PICK n : n = IF r.cnt <= MaxSends THEN r.cnt + 1 ELSE r.cnt
  OBVIOUS
<1>3. n \in 0 .. MaxSends + 1
  BY <1>1, <1>2, SlotFacts
<1>4. Sent(r) = [r EXCEPT !.ds = ds, !.cnt = n]
  BY <1>2 DEF Sent
<1>5. QED
  BY <1>3, <1>4 DEF Request

\* The writer's variables keep their types.
LEMMA UserTyped == ASSUME IInv, Next PROVE UserTypes'
<1> USE DEF devVars, slotVars, emVars, lockVars, queueVars, txVars, rxVars,
            userVars, workVars, toVars
<1>1. CASE User
  <2>1. ASSUME NEW d \in Datasets, StoreDataset(d) PROVE UserTypes'
    BY <2>1, SlotFacts DEF IInv, TypeOK, UserTypes, LocalsInv, StoreDataset
  <2>2. ASSUME NEW i \in Slots, NEW h \in Hosts \cup {None}, StoreSock(i, h)
        PROVE  UserTypes'
    BY <2>2, SlotFacts DEF IInv, TypeOK, UserTypes, LocalsInv, StoreSock
  <2>3. ASSUME NEW i \in Slots, StoreActive(i) PROVE UserTypes'
    BY <2>3, SlotFacts DEF IInv, TypeOK, UserTypes, LocalsInv, StoreActive
  <2>4. CASE Replaced
    BY <2>4, SlotFacts
       DEF IInv, TypeOK, UserTypes, LocalsInv, Replaced, AddServer
  <2>5. CASE Start
    BY <2>5, SlotFacts DEF IInv, TypeOK, UserTypes, LocalsInv, Start
  <2>6. ASSUME NEW c \in Ctl, Ask(c) PROVE UserTypes'
    BY <2>6, SlotFacts
       DEF IInv, TypeOK, UserTypes, LocalsInv, Ask, Enqueue, Configured
  <2>7. CASE Unreachable
    BY <2>7, SlotFacts DEF IInv, TypeOK, UserTypes, LocalsInv, Unreachable
  <2>8. CASE Answered
    BY <2>8, SlotFacts DEF IInv, TypeOK, UserTypes, LocalsInv, Answered
  <2>9. CASE GiveUpAsking
    BY <2>9, SlotFacts DEF IInv, TypeOK, UserTypes, LocalsInv, GiveUpAsking
  <2>10. CASE SetActive
    BY <2>10, SlotFacts DEF IInv, TypeOK, UserTypes, LocalsInv, SetActive
  <2>11. CASE SetRunning
    BY <2>11, SlotFacts DEF IInv, TypeOK, UserTypes, LocalsInv, SetRunning
  <2>12. CASE Stop
    BY <2>12, SlotFacts DEF IInv, TypeOK, UserTypes, LocalsInv, Stop
  <2>13. CASE ClearActive
    BY <2>13, SlotFacts DEF IInv, TypeOK, UserTypes, LocalsInv, ClearActive
  <2>14. CASE BlockRequest
    BY <2>14, SlotFacts DEF IInv, TypeOK, UserTypes, LocalsInv, BlockRequest
  <2>15. QED
    BY <1>1, <2>1, <2>2, <2>3, <2>4, <2>5, <2>6, <2>7, <2>8, <2>9, <2>10,
       <2>11, <2>12, <2>13, <2>14
       DEF User
<1>2. CASE Tx
  <2>1. CASE TxSend
    BY <2>1, SlotFacts DEF IInv, TypeOK, UserTypes, LocalsInv, TxSend
  <2>2. CASE TxTake \/ TxDiscard \/ TxLock
    <3>1. UNCHANGED <<ds, running, diskCap, reqs, active, userPc, userAt, userArg, crashed>>
      BY <2>2 DEF TxTake, TxDiscard, TxLock, EndControl
    <3>2. QED
      BY <3>1 DEF IInv, TypeOK, UserTypes
  <2>3. QED
    BY <1>2, <2>1, <2>2 DEF Tx
<1>3. CASE \E i \in Slots : Rx(i)
  <2>1. ASSUME NEW i \in Slots, RxBlock(i) PROVE UserTypes'
    BY <2>1, SlotFacts DEF IInv, TypeOK, UserTypes, LocalsInv, RxBlock
  <2>2. ASSUME NEW i \in Slots, NEW others \in Lists, RxHandle(i, others)
        PROVE  UserTypes'
    BY <2>2, SlotFacts
       DEF IInv, TypeOK, UserTypes, LocalsInv, RxHandle, StopEmergency
  <2>3. CASE \E i \in Slots : RxSize(i) \/ RxServers(i) \/ RxDone(i) \/
                    RxExit(i)
    <3>1. UNCHANGED <<ds, running, diskCap, reqs, active, userPc, userAt, userArg, crashed>>
      BY <2>3 DEF RxSize, RxServers, RxDone, RxExit, EndControl
    <3>2. QED
      BY <3>1 DEF IInv, TypeOK, UserTypes
  <2>4. QED
    BY <1>3, <2>1, <2>2, <2>3 DEF Rx
<1>4. CASE TryAdd
  <2>1. UNCHANGED <<ds, running, diskCap, reqs, active, userPc, userAt, userArg, crashed>>
    BY <1>4 DEF TryAdd, AddServer
  <2>2. QED
    BY <2>1 DEF IInv, TypeOK, UserTypes
<1>5. CASE Clock
  <2>1. UNCHANGED <<ds, running, diskCap, reqs, active, userPc, userAt, userArg, crashed>>
    BY <1>5 DEF Clock, Heartbeat, ToTick, Requeue, GiveUp, EndControl, Enqueue
  <2>2. QED
    BY <2>1 DEF IInv, TypeOK, UserTypes
<1>6. CASE Work
  <2>1. CASE Replace
    BY <2>1, SlotFacts
       DEF IInv, TypeOK, UserTypes, LocalsInv, Replace, Stalled, Configured
  <2>2. CASE EmergencyStarted
    BY <2>2, SlotFacts
       DEF IInv, TypeOK, UserTypes, LocalsInv, EmergencyStarted, Timers
  <2>3. ASSUME NEW i \in Configured, Choose(i) PROVE UserTypes'
    BY <2>3, SlotFacts DEF IInv, TypeOK, UserTypes, LocalsInv, Choose
  <2>4. CASE Switch
    BY <2>4, SlotFacts DEF IInv, TypeOK, UserTypes, LocalsInv, Switch
  <2>5. CASE KeepServer
    BY <2>5, SlotFacts
       DEF IInv, TypeOK, UserTypes, LocalsInv, KeepServer, Stalled
  <2>6. CASE \/ \E i \in Slots : DelWork(i)
             \/ Removed \/ TakeOver \/ StartEmergency
    <3>1. UNCHANGED <<ds, running, diskCap, reqs, active, userPc, userAt, userArg, crashed>>
      BY <2>6 DEF DelWork, Removed, TakeOver, StartEmergency, Stalled
    <3>2. QED
      BY <3>1 DEF IInv, TypeOK, UserTypes
  <2>7. QED
    BY <1>6, <2>1, <2>2, <2>3, <2>4, <2>5, <2>6 DEF Work
<1>7. QED
  BY <1>1, <1>2, <1>3, <1>4, <1>5, <1>6 DEF Next

\* So do those of slots, receivers, timers and works.
LEMMA SlotsTyped == ASSUME IInv, Next PROVE SlotTypes'
<1> USE DEF devVars, slotVars, emVars, lockVars, queueVars, txVars, rxVars,
            userVars, workVars, toVars
<1>1. CASE User
  <2>1. CASE Replaced
    <3>1. victim \in Slots /\ userArg \in Hosts \cup {None}
      BY <2>1 DEF IInv, TypeOK, LocalsInv, LockInv, Replaced
    <3>2. QED
      BY <2>1, <3>1 DEF IInv, TypeOK, SlotTypes, Replaced, AddServer
  <2>2. CASE Answered
    BY <2>2, SlotFacts DEF IInv, TypeOK, SlotTypes, LocalsInv, Answered
  <2>3. CASE GiveUpAsking
    BY <2>3, SlotFacts DEF IInv, TypeOK, SlotTypes, LocalsInv, GiveUpAsking
  <2>4. CASE SetRunning
    BY <2>4, SlotFacts DEF IInv, TypeOK, SlotTypes, LocalsInv, SetRunning
  <2>5. CASE \/ \E d \in Datasets : StoreDataset(d)
             \/ \E i \in Slots, h \in Hosts \cup {None} : StoreSock(i, h)
             \/ \E i \in Slots : StoreActive(i)
             \/ Start \/ Unreachable \/ SetActive \/ Stop \/ ClearActive
                    \/ BlockRequest
             \/ \E c \in Ctl : Ask(c)
    <3>1. UNCHANGED <<sock, capacity, emergency, emerg, armed, rxPc, rxReq, delWork, toWork, toPc,
                      toArg>>
      BY <2>5
         DEF StoreDataset, StoreSock, StoreActive, Start, Ask, Unreachable,
             SetActive, Stop, ClearActive, BlockRequest, Enqueue
    <3>2. QED
      BY <3>1 DEF IInv, TypeOK, SlotTypes
  <2>6. QED
    BY <1>1, <2>1, <2>2, <2>3, <2>4, <2>5 DEF User
<1>2. CASE Tx
  <2>1. UNCHANGED <<sock, capacity, emergency, emerg, armed, rxPc, rxReq, delWork, toWork, toPc,
                    toArg>>
    BY <1>2 DEF Tx, TxTake, TxDiscard, TxLock, TxSend, EndControl
  <2>2. QED
    BY <2>1 DEF IInv, TypeOK, SlotTypes
<1>3. CASE \E i \in Slots : Rx(i)
  <2>1. ASSUME NEW i \in Slots, RxSize(i) PROVE SlotTypes'
    BY <2>1, SlotFacts
       DEF IInv, TypeOK, SlotTypes, LocalsInv, RxSize, EndControl
  <2>2. ASSUME NEW i \in Slots, RxServers(i) PROVE SlotTypes'
    BY <2>2, SlotFacts DEF IInv, TypeOK, SlotTypes, LocalsInv, RxServers
  <2>3. ASSUME NEW i \in Slots, NEW others \in Lists, RxHandle(i, others)
        PROVE  SlotTypes'
    <3>1. emerg' \in [Slots -> Hosts \cup {None}]
      <4>1. \A j \in Slots : j <= Len(others) /\ j # 0 => others[j] \in Hosts
        BY ListTypes, SlotFacts
      <4>2. QED
        BY <2>3, <4>1, SlotFacts DEF IInv, TypeOK, RxHandle
    <3>2. QED
      BY <2>3, <3>1 DEF IInv, TypeOK, SlotTypes, RxHandle, StopEmergency
  <2>4. ASSUME NEW i \in Slots, RxDone(i) PROVE SlotTypes'
    BY <2>4, SlotFacts
       DEF IInv, TypeOK, SlotTypes, LocalsInv, RxDone, EndControl
  <2>5. ASSUME NEW i \in Slots, RxExit(i) PROVE SlotTypes'
    BY <2>5, SlotFacts DEF IInv, TypeOK, SlotTypes, LocalsInv, RxExit
  <2>6. CASE \E i \in Slots : RxBlock(i)
    <3>1. UNCHANGED <<sock, capacity, emergency, emerg, armed, rxPc, rxReq, delWork, toWork, toPc,
                      toArg>>
      BY <2>6 DEF RxBlock
    <3>2. QED
      BY <3>1 DEF IInv, TypeOK, SlotTypes
  <2>7. QED
    BY <1>3, <2>1, <2>2, <2>3, <2>4, <2>5, <2>6 DEF Rx
<1>4. CASE TryAdd
  <2>1. Head(toAdd) \in Hosts \cup {None}
    BY <1>4 DEF IInv, TypeOK, TryAdd
  <2>2. CASE UNCHANGED <<sock, rxPc>>
    BY <1>4, <2>2 DEF IInv, TypeOK, SlotTypes, TryAdd
  <2>3. ASSUME NEW i \in Slots, AddServer(i, Head(toAdd)) PROVE SlotTypes'
    BY <1>4, <2>1, <2>3 DEF IInv, TypeOK, SlotTypes, TryAdd, AddServer
  <2>4. QED
    BY <1>4, <2>2, <2>3 DEF TryAdd, Configured
<1>5. CASE Clock
  <2>1. CASE ToTick
    BY <2>1, SlotFacts DEF IInv, TypeOK, SlotTypes, LocalsInv, ToTick
  <2>2. ASSUME NEW k \in DOMAIN pendingQueue, GiveUp(k) PROVE SlotTypes'
    BY <2>2, SlotFacts
       DEF IInv, TypeOK, SlotTypes, LocalsInv, GiveUp, EndControl
  <2>3. CASE \/ \E i \in Slots, c \in Ctl : Heartbeat(i, c)
             \/ \E k \in DOMAIN pendingQueue : Requeue(k)
    <3>1. UNCHANGED <<sock, capacity, emergency, emerg, armed, rxPc, rxReq, delWork, toWork, toPc,
                      toArg>>
      BY <2>3 DEF Heartbeat, Requeue, Enqueue
    <3>2. QED
      BY <3>1 DEF IInv, TypeOK, SlotTypes
  <2>4. QED
    BY <1>5, <2>1, <2>2, <2>3 DEF Clock
<1>6. CASE Work
  <2>1. ASSUME NEW i \in Slots, DelWork(i) PROVE SlotTypes'
    BY <2>1, SlotFacts DEF IInv, TypeOK, SlotTypes, LocalsInv, DelWork
  <2>2. CASE Removed
    BY <2>2, SlotFacts DEF IInv, TypeOK, SlotTypes, LocalsInv, Removed
  <2>3. CASE TakeOver
    BY <2>3, SlotFacts DEF IInv, TypeOK, SlotTypes, LocalsInv, TakeOver
  <2>4. CASE Replace
    BY <2>4, SlotFacts
       DEF IInv, TypeOK, SlotTypes, LocalsInv, Replace, Stalled
  <2>5. CASE StartEmergency
    BY <2>5, SlotFacts
       DEF IInv, TypeOK, SlotTypes, LocalsInv, StartEmergency, Stalled
  <2>6. CASE EmergencyStarted
    BY <2>6, SlotFacts
       DEF IInv, TypeOK, SlotTypes, LocalsInv, EmergencyStarted
  <2>7. ASSUME NEW i \in Configured, Choose(i) PROVE SlotTypes'
    BY <2>7, SlotFacts
       DEF IInv, TypeOK, SlotTypes, LocalsInv, Choose, Configured
  <2>8. CASE Switch
    BY <2>8, SlotFacts DEF IInv, TypeOK, SlotTypes, LocalsInv, Switch
  <2>9. CASE KeepServer
    BY <2>9, SlotFacts
       DEF IInv, TypeOK, SlotTypes, LocalsInv, KeepServer, Stalled
  <2>10. QED
    BY <1>6, <2>1, <2>2, <2>3, <2>4, <2>5, <2>6, <2>7, <2>8, <2>9 DEF Work
<1>7. QED
  BY <1>1, <1>2, <1>3, <1>4, <1>5, <1>6 DEF Next

\* So do those of the mutex, the control requests and the sender.
LEMMA QueuesTyped == ASSUME IInv, Next PROVE QueueTypes'
<1> USE DEF devVars, slotVars, emVars, lockVars, queueVars, txVars, rxVars,
            userVars, workVars, toVars
<1>1. CASE User
  <2>1. ASSUME NEW i \in Slots, NEW h \in Hosts \cup {None}, StoreSock(i, h)
        PROVE  QueueTypes'
    BY <2>1, SlotFacts DEF IInv, TypeOK, QueueTypes, LocalsInv, StoreSock
  <2>2. CASE Replaced
    BY <2>2, SlotFacts
       DEF IInv, TypeOK, QueueTypes, LocalsInv, Replaced, AddServer
  <2>3. ASSUME NEW c \in Ctl, Ask(c) PROVE QueueTypes'
    <3>1. PICK i \in Configured : Enqueue(c, "size", i)
      BY <2>3 DEF Ask
    <3>2. [cmd |-> "size", dst |-> i, cnt |-> 0, ds |-> None] \in Request
      BY SlotFacts DEF Request, Configured
    <3>3. ctl' \in [Ctl -> Request \cup {None}] /\ sendQueue' \in Seq(Ctl)
      BY <3>1, <3>2, AppendProperties DEF IInv, TypeOK, Enqueue
    <3>4. QED
      BY <2>3, <3>1, <3>3 DEF IInv, TypeOK, QueueTypes, Ask, Enqueue
  <2>4. CASE \/ \E d \in Datasets : StoreDataset(d)
             \/ \E i \in Slots : StoreActive(i)
             \/ Start \/ Unreachable \/ Answered \/ GiveUpAsking \/
                    SetActive \/ SetRunning \/ Stop \/ ClearActive \/
                    BlockRequest
    <3>1. UNCHANGED <<mutex, victim, toAdd, ctl, sendQueue, pendingQueue, txPc, txReq>>
      BY <2>4
         DEF StoreDataset, StoreActive, Start, Unreachable, Answered,
             GiveUpAsking, SetActive, SetRunning, Stop, ClearActive,
             BlockRequest
    <3>2. QED
      BY <3>1 DEF IInv, TypeOK, QueueTypes
  <2>5. QED
    BY <1>1, <2>1, <2>2, <2>3, <2>4 DEF User
<1>2. CASE Tx
  <2>1. CASE TxTake
    BY <2>1, SlotFacts DEF IInv, TypeOK, QueueTypes, LocalsInv, TxTake
  <2>2. CASE TxDiscard
    BY <2>2, SlotFacts
       DEF IInv, TypeOK, QueueTypes, LocalsInv, TxDiscard, EndControl
  <2>3. CASE TxLock
    BY <2>3, SlotFacts DEF IInv, TypeOK, QueueTypes, LocalsInv, TxLock
  <2>4. CASE TxSend
    <3>1. txReq \in Ctl
      BY <2>4 DEF IInv, LocalsInv, TxSend
    <3>2. CASE ctl[txReq] = None
      BY <2>4, <3>2 DEF IInv, TypeOK, QueueTypes, TxSend
    <3>3. CASE ctl[txReq] # None
      <4>1. ctl[txReq] \in Request
        BY <3>1, <3>3 DEF IInv, TypeOK
      <4>2. ctl' = [ctl EXCEPT ![txReq] = Sent(ctl[txReq])]
        BY <2>4, <3>3 DEF TxSend
      <4>3. Sent(ctl[txReq]) \in Request
        BY <4>1, SentTyped DEF IInv, TypeOK
      <4>4. ctl' \in [Ctl -> Request \cup {None}]
        BY <4>2, <4>3 DEF IInv, TypeOK
      <4>5. QED
        BY <2>4, <4>4 DEF IInv, TypeOK, QueueTypes, TxSend
    <3>4. QED
      BY <3>2, <3>3
  <2>5. QED
    BY <1>2, <2>1, <2>2, <2>3, <2>4 DEF Tx
<1>3. CASE \E i \in Slots : Rx(i)
  <2>1. ASSUME NEW i \in Slots, RxSize(i) PROVE QueueTypes'
    <3>1. PICK k \in DOMAIN pendingQueue :
              /\ pendingQueue' = RemoveAt(pendingQueue, k)
              /\ EndControl(pendingQueue[k])
      BY <2>1 DEF RxSize
    <3>2. pendingQueue' \in Seq(Ctl) /\ ctl' \in [Ctl -> Request \cup {None}]
      BY <3>1, RemoveAtType DEF IInv, TypeOK, EndControl
    <3>3. QED
      BY <2>1, <3>2 DEF IInv, TypeOK, QueueTypes, RxSize
  <2>2. ASSUME NEW i \in Slots, RxServers(i) PROVE QueueTypes'
    <3>1. PICK k \in DOMAIN pendingQueue :
              pendingQueue' = RemoveAt(pendingQueue, k)
      BY <2>2 DEF RxServers
    <3>2. pendingQueue' \in Seq(Ctl)
      BY <3>1, RemoveAtType DEF IInv, TypeOK
    <3>3. QED
      BY <2>2, <3>2 DEF IInv, TypeOK, QueueTypes, RxServers
  <2>3. ASSUME NEW i \in Slots, NEW others \in Lists, RxHandle(i, others)
        PROVE  QueueTypes'
    <3>1. others \in Seq(Hosts \cup {None})
      BY ListTypes
    <3>2. QED
      BY <2>3, <3>1 DEF IInv, TypeOK, QueueTypes, RxHandle
  <2>4. ASSUME NEW i \in Slots, RxDone(i) PROVE QueueTypes'
    BY <2>4, SlotFacts
       DEF IInv, TypeOK, QueueTypes, LocalsInv, RxDone, EndControl
  <2>5. CASE \E i \in Slots : RxBlock(i) \/ RxExit(i)
    <3>1. UNCHANGED <<mutex, victim, toAdd, ctl, sendQueue, pendingQueue, txPc, txReq>>
      BY <2>5 DEF RxBlock, RxExit
    <3>2. QED
      BY <3>1 DEF IInv, TypeOK, QueueTypes
  <2>6. QED
    BY <1>3, <2>1, <2>2, <2>3, <2>4, <2>5 DEF Rx
<1>4. CASE TryAdd
  BY <1>4, SlotFacts
     DEF IInv, TypeOK, QueueTypes, LocalsInv, TryAdd, AddServer
<1>5. CASE Clock
  <2>1. ASSUME NEW i \in Slots, NEW c \in Ctl, Heartbeat(i, c)
        PROVE  QueueTypes'
    <3>1. PICK r : r = [cmd |-> "servers", dst |-> i, cnt |-> 0, ds |-> None]
      OBVIOUS
    <3>2. r \in Request
      BY <2>1, <3>1, SlotFacts DEF Request
    <3>3. ctl' = [ctl EXCEPT ![c] = r] /\ sendQueue' = Append(sendQueue, c)
      BY <2>1, <3>1 DEF Heartbeat, Enqueue
    <3>4. ctl' \in [Ctl -> Request \cup {None}] /\ sendQueue' \in Seq(Ctl)
      BY <3>2, <3>3, AppendProperties DEF IInv, TypeOK
    <3>5. QED
      BY <2>1, <3>4 DEF IInv, TypeOK, QueueTypes, Heartbeat, Enqueue
  <2>2. ASSUME NEW k \in DOMAIN pendingQueue, Requeue(k) PROVE QueueTypes'
    <3>1. /\ pendingQueue' \in Seq(Ctl) /\ pendingQueue[k] \in Ctl
          /\ sendQueue' \in Seq(Ctl)
      BY <2>2, RemoveAtType, AppendProperties DEF IInv, TypeOK, Requeue
    <3>2. QED
      BY <2>2, <3>1 DEF IInv, TypeOK, QueueTypes, Requeue
  <2>3. ASSUME NEW k \in DOMAIN pendingQueue, GiveUp(k) PROVE QueueTypes'
    <3>1. pendingQueue' \in Seq(Ctl) /\ ctl' \in [Ctl -> Request \cup {None}]
      BY <2>3, RemoveAtType DEF IInv, TypeOK, GiveUp, EndControl
    <3>2. QED
      BY <2>3, <3>1 DEF IInv, TypeOK, QueueTypes, GiveUp
  <2>4. CASE ToTick
    <3>1. UNCHANGED <<mutex, victim, toAdd, ctl, sendQueue, pendingQueue, txPc, txReq>>
      BY <2>4 DEF ToTick
    <3>2. QED
      BY <3>1 DEF IInv, TypeOK, QueueTypes
  <2>5. QED
    BY <1>5, <2>1, <2>2, <2>3, <2>4 DEF Clock
<1>6. CASE Work
  <2>1. ASSUME NEW i \in Slots, DelWork(i) PROVE QueueTypes'
    BY <2>1, SlotFacts DEF IInv, TypeOK, QueueTypes, LocalsInv, DelWork
  <2>2. CASE Removed
    BY <2>2, SlotFacts DEF IInv, TypeOK, QueueTypes, LocalsInv, Removed
  <2>3. CASE TakeOver
    BY <2>3, SlotFacts DEF IInv, TypeOK, QueueTypes, LocalsInv, TakeOver
  <2>4. CASE Replace
    BY <2>4, SlotFacts
       DEF IInv, TypeOK, QueueTypes, LocalsInv, Replace, Stalled
  <2>5. CASE StartEmergency
    BY <2>5, SlotFacts
       DEF IInv, TypeOK, QueueTypes, LocalsInv, StartEmergency, Stalled
  <2>6. CASE EmergencyStarted
    BY <2>6, SlotFacts
       DEF IInv, TypeOK, QueueTypes, LocalsInv, EmergencyStarted
  <2>7. CASE Switch
    BY <2>7, SlotFacts DEF IInv, TypeOK, QueueTypes, LocalsInv, Switch
  <2>8. CASE KeepServer
    BY <2>8, SlotFacts
       DEF IInv, TypeOK, QueueTypes, LocalsInv, KeepServer, Stalled
  <2>9. CASE \E i \in Configured : Choose(i)
    <3>1. UNCHANGED <<mutex, victim, toAdd, ctl, sendQueue, pendingQueue, txPc, txReq>>
      BY <2>9 DEF Choose
    <3>2. QED
      BY <3>1 DEF IInv, TypeOK, QueueTypes
  <2>10. QED
    BY <1>6, <2>1, <2>2, <2>3, <2>4, <2>5, <2>6, <2>7, <2>8, <2>9 DEF Work
<1>7. QED
  BY <1>1, <1>2, <1>3, <1>4, <1>5, <1>6 DEF Next

\* What is in hand keeps its kind.
LEMMA LocalsStep == ASSUME IInv, Next PROVE LocalsInv'
<1> USE DEF devVars, slotVars, emVars, lockVars, queueVars, txVars, rxVars,
            userVars, workVars, toVars
<1>1. CASE User
  <2>1. ASSUME NEW i \in Slots, NEW h \in Hosts \cup {None}, StoreSock(i, h)
        PROVE  LocalsInv'
    BY <2>1, SlotFacts DEF IInv, TypeOK, LocalsInv, LockInv, RxBusy, StoreSock
  <2>2. CASE Replaced
    BY <2>2, SlotFacts
       DEF IInv, TypeOK, LocalsInv, LockInv, RxBusy, Replaced, AddServer
  <2>3. CASE Start
    BY <2>3, SlotFacts DEF IInv, TypeOK, LocalsInv, LockInv, RxBusy, Start
  <2>4. ASSUME NEW c \in Ctl, Ask(c) PROVE LocalsInv'
    BY <2>4, SlotFacts
       DEF IInv, TypeOK, LocalsInv, LockInv, RxBusy, Ask, Enqueue, Configured
  <2>5. CASE Unreachable
    BY <2>5, SlotFacts
       DEF IInv, TypeOK, LocalsInv, LockInv, RxBusy, Unreachable
  <2>6. CASE Answered
    BY <2>6, SlotFacts DEF IInv, TypeOK, LocalsInv, LockInv, RxBusy, Answered
  <2>7. CASE GiveUpAsking
    BY <2>7, SlotFacts
       DEF IInv, TypeOK, LocalsInv, LockInv, RxBusy, GiveUpAsking
  <2>8. CASE SetActive
    BY <2>8, SlotFacts DEF IInv, TypeOK, LocalsInv, LockInv, RxBusy, SetActive
  <2>9. CASE SetRunning
    BY <2>9, SlotFacts
       DEF IInv, TypeOK, LocalsInv, LockInv, RxBusy, SetRunning
  <2>10. CASE Stop
    BY <2>10, SlotFacts DEF IInv, TypeOK, LocalsInv, LockInv, RxBusy, Stop
  <2>11. CASE ClearActive
    BY <2>11, SlotFacts
       DEF IInv, TypeOK, LocalsInv, LockInv, RxBusy, ClearActive
  <2>12. CASE \/ \E d \in Datasets : StoreDataset(d)
              \/ \E i \in Slots : StoreActive(i)
              \/ BlockRequest
    <3>1. UNCHANGED <<txPc, txReq, rxPc, rxReq, userPc, userAt, userArg, toPc, toArg>>
      BY <2>12 DEF StoreDataset, StoreActive, BlockRequest
    <3>2. QED
      BY <3>1 DEF IInv, LocalsInv, RxBusy
  <2>13. QED
    BY <1>1, <2>1, <2>2, <2>3, <2>4, <2>5, <2>6, <2>7, <2>8, <2>9, <2>10,
       <2>11, <2>12
       DEF User
<1>2. CASE Tx
  <2>1. CASE TxTake
    BY <2>1, SlotFacts DEF IInv, TypeOK, LocalsInv, LockInv, RxBusy, TxTake
  <2>2. CASE TxDiscard
    BY <2>2, SlotFacts
       DEF IInv, TypeOK, LocalsInv, LockInv, RxBusy, TxDiscard, EndControl
  <2>3. CASE TxLock
    BY <2>3, SlotFacts DEF IInv, TypeOK, LocalsInv, LockInv, RxBusy, TxLock
  <2>4. CASE TxSend
    BY <2>4, SlotFacts DEF IInv, TypeOK, LocalsInv, LockInv, RxBusy, TxSend
  <2>5. QED
    BY <1>2, <2>1, <2>2, <2>3, <2>4 DEF Tx
<1>3. CASE \E i \in Slots : Rx(i)
  <2>1. ASSUME NEW i \in Slots, RxServers(i) PROVE LocalsInv'
    BY <2>1, SlotFacts DEF IInv, TypeOK, LocalsInv, LockInv, RxBusy, RxServers
  <2>2. ASSUME NEW i \in Slots, NEW others \in Lists, RxHandle(i, others)
        PROVE  LocalsInv'
    BY <2>2, SlotFacts
       DEF IInv, TypeOK, LocalsInv, LockInv, RxBusy, RxHandle, StopEmergency
  <2>3. ASSUME NEW i \in Slots, RxDone(i) PROVE LocalsInv'
    BY <2>3, SlotFacts
       DEF IInv, TypeOK, LocalsInv, LockInv, RxBusy, RxDone, EndControl
  <2>4. ASSUME NEW i \in Slots, RxExit(i) PROVE LocalsInv'
    BY <2>4, SlotFacts DEF IInv, TypeOK, LocalsInv, LockInv, RxBusy, RxExit
  <2>5. CASE \E i \in Slots : RxBlock(i) \/ RxSize(i)
    <3>1. UNCHANGED <<txPc, txReq, rxPc, rxReq, userPc, userAt, userArg, toPc, toArg>>
      BY <2>5 DEF RxBlock, RxSize, EndControl
    <3>2. QED
      BY <3>1 DEF IInv, LocalsInv, RxBusy
  <2>6. QED
    BY <1>3, <2>1, <2>2, <2>3, <2>4, <2>5 DEF Rx
<1>4. CASE TryAdd
  BY <1>4, SlotFacts
     DEF IInv, TypeOK, LocalsInv, LockInv, RxBusy, TryAdd, AddServer
<1>5. CASE Clock
  <2>1. UNCHANGED <<txPc, txReq, rxPc, rxReq, userPc, userAt, userArg, toPc, toArg>>
    BY <1>5 DEF Clock, Heartbeat, ToTick, Requeue, GiveUp, EndControl, Enqueue
  <2>2. QED
    BY <2>1 DEF IInv, LocalsInv, RxBusy
<1>6. CASE Work
  <2>1. CASE Removed
    BY <2>1, SlotFacts DEF IInv, TypeOK, LocalsInv, LockInv, RxBusy, Removed
  <2>2. CASE TakeOver
    BY <2>2, SlotFacts DEF IInv, TypeOK, LocalsInv, LockInv, RxBusy, TakeOver
  <2>3. CASE Replace
    BY <2>3, SlotFacts
       DEF IInv, TypeOK, LocalsInv, LockInv, RxBusy, Replace, Stalled
  <2>4. CASE StartEmergency
    BY <2>4, SlotFacts
       DEF IInv, TypeOK, LocalsInv, LockInv, RxBusy, StartEmergency, Stalled
  <2>5. CASE EmergencyStarted
    BY <2>5, SlotFacts
       DEF IInv, TypeOK, LocalsInv, LockInv, RxBusy, EmergencyStarted
  <2>6. ASSUME NEW i \in Configured, Choose(i) PROVE LocalsInv'
    BY <2>6, SlotFacts
       DEF IInv, TypeOK, LocalsInv, LockInv, RxBusy, Choose, Configured
  <2>7. CASE Switch
    BY <2>7, SlotFacts DEF IInv, TypeOK, LocalsInv, LockInv, RxBusy, Switch
  <2>8. CASE KeepServer
    BY <2>8, SlotFacts
       DEF IInv, TypeOK, LocalsInv, LockInv, RxBusy, KeepServer, Stalled
  <2>9. CASE \E i \in Slots : DelWork(i)
    <3>1. UNCHANGED <<txPc, txReq, rxPc, rxReq, userPc, userAt, userArg, toPc, toArg>>
      BY <2>9 DEF DelWork
    <3>2. QED
      BY <3>1 DEF IInv, LocalsInv, RxBusy
  <2>10. QED
    BY <1>6, <2>1, <2>2, <2>3, <2>4, <2>5, <2>6, <2>7, <2>8, <2>9 DEF Work
<1>7. QED
  BY <1>1, <1>2, <1>3, <1>4, <1>5, <1>6 DEF Next

\* Only a holder of servers_mutex acts as one.
LEMMA LockStep == ASSUME IInv, Next PROVE LockInv'
<1> USE DEF devVars, slotVars, emVars, lockVars, queueVars, txVars, rxVars,
            userVars, workVars, toVars
<1>1. CASE User
  <2>1. ASSUME NEW i \in Slots, NEW h \in Hosts \cup {None}, StoreSock(i, h)
        PROVE  LockInv'
    BY <2>1, SlotFacts DEF IInv, TypeOK, LockInv, StoreSock
  <2>2. CASE Replaced
    BY <2>2, SlotFacts DEF IInv, TypeOK, LockInv, Replaced, AddServer
  <2>3. CASE Start
    BY <2>3, SlotFacts DEF IInv, TypeOK, LockInv, Start
  <2>4. ASSUME NEW c \in Ctl, Ask(c) PROVE LockInv'
    BY <2>4, SlotFacts DEF IInv, TypeOK, LockInv, Ask, Enqueue
  <2>5. CASE Unreachable
    BY <2>5, SlotFacts DEF IInv, TypeOK, LockInv, Unreachable
  <2>6. CASE Answered
    BY <2>6, SlotFacts DEF IInv, TypeOK, LockInv, Answered
  <2>7. CASE GiveUpAsking
    BY <2>7, SlotFacts DEF IInv, TypeOK, LockInv, GiveUpAsking
  <2>8. CASE SetActive
    BY <2>8, SlotFacts DEF IInv, TypeOK, LockInv, SetActive
  <2>9. CASE SetRunning
    BY <2>9, SlotFacts DEF IInv, TypeOK, LockInv, SetRunning
  <2>10. CASE Stop
    BY <2>10, SlotFacts DEF IInv, TypeOK, LockInv, Stop
  <2>11. CASE ClearActive
    BY <2>11, SlotFacts DEF IInv, TypeOK, LockInv, ClearActive
  <2>12. CASE \/ \E d \in Datasets : StoreDataset(d)
              \/ \E i \in Slots : StoreActive(i)
              \/ BlockRequest
    <3>1. UNCHANGED <<mutex, victim, txPc, rxPc, userPc, toPc>>
      BY <2>12 DEF StoreDataset, StoreActive, BlockRequest
    <3>2. QED
      BY <3>1 DEF IInv, LockInv
  <2>13. QED
    BY <1>1, <2>1, <2>2, <2>3, <2>4, <2>5, <2>6, <2>7, <2>8, <2>9, <2>10,
       <2>11, <2>12
       DEF User
<1>2. CASE Tx
  <2>1. CASE TxTake
    BY <2>1, SlotFacts DEF IInv, TypeOK, LockInv, TxTake
  <2>2. CASE TxDiscard
    BY <2>2, SlotFacts DEF IInv, TypeOK, LockInv, TxDiscard, EndControl
  <2>3. CASE TxLock
    BY <2>3, SlotFacts DEF IInv, TypeOK, LockInv, TxLock
  <2>4. CASE TxSend
    BY <2>4, SlotFacts DEF IInv, TypeOK, LockInv, TxSend
  <2>5. QED
    BY <1>2, <2>1, <2>2, <2>3, <2>4 DEF Tx
<1>3. CASE \E i \in Slots : Rx(i)
  <2>1. ASSUME NEW i \in Slots, RxServers(i) PROVE LockInv'
    BY <2>1, SlotFacts DEF IInv, TypeOK, LockInv, RxServers
  <2>2. ASSUME NEW i \in Slots, NEW others \in Lists, RxHandle(i, others)
        PROVE  LockInv'
    BY <2>2, SlotFacts DEF IInv, TypeOK, LockInv, RxHandle, StopEmergency
  <2>3. ASSUME NEW i \in Slots, RxDone(i) PROVE LockInv'
    BY <2>3, SlotFacts DEF IInv, TypeOK, LockInv, RxDone, EndControl
  <2>4. ASSUME NEW i \in Slots, RxExit(i) PROVE LockInv'
    BY <2>4, SlotFacts DEF IInv, TypeOK, LockInv, RxExit
  <2>5. CASE \E i \in Slots : RxBlock(i) \/ RxSize(i)
    <3>1. UNCHANGED <<mutex, victim, txPc, rxPc, userPc, toPc>>
      BY <2>5 DEF RxBlock, RxSize, EndControl
    <3>2. QED
      BY <3>1 DEF IInv, LockInv
  <2>6. QED
    BY <1>3, <2>1, <2>2, <2>3, <2>4, <2>5 DEF Rx
<1>4. CASE TryAdd
  <2>1. CASE UNCHANGED <<sock, rxPc>>
    BY <1>4, <2>1 DEF IInv, LockInv, TryAdd
  <2>2. ASSUME NEW i \in Slots, AddServer(i, Head(toAdd)) PROVE LockInv'
    BY <1>4, <2>2 DEF IInv, TypeOK, LockInv, TryAdd, AddServer
  <2>3. QED
    BY <1>4, <2>1, <2>2 DEF TryAdd, Configured
<1>5. CASE Clock
  <2>1. UNCHANGED <<mutex, victim, txPc, rxPc, userPc, toPc>>
    BY <1>5 DEF Clock, Heartbeat, ToTick, Requeue, GiveUp, EndControl, Enqueue
  <2>2. QED
    BY <2>1 DEF IInv, LockInv
<1>6. CASE Work
  <2>1. ASSUME NEW i \in Slots, DelWork(i) PROVE LockInv'
    BY <2>1, SlotFacts DEF IInv, TypeOK, LockInv, DelWork
  <2>2. CASE Removed
    BY <2>2, SlotFacts DEF IInv, TypeOK, LockInv, Removed
  <2>3. CASE TakeOver
    BY <2>3, SlotFacts DEF IInv, TypeOK, LockInv, TakeOver
  <2>4. CASE Replace
    BY <2>4, SlotFacts DEF IInv, TypeOK, LockInv, Replace, Stalled
  <2>5. CASE StartEmergency
    BY <2>5, SlotFacts DEF IInv, TypeOK, LockInv, StartEmergency, Stalled
  <2>6. CASE EmergencyStarted
    BY <2>6, SlotFacts DEF IInv, TypeOK, LockInv, EmergencyStarted
  <2>7. ASSUME NEW i \in Configured, Choose(i) PROVE LockInv'
    BY <2>7, SlotFacts DEF IInv, TypeOK, LockInv, Choose
  <2>8. CASE Switch
    BY <2>8, SlotFacts DEF IInv, TypeOK, LockInv, Switch
  <2>9. CASE KeepServer
    BY <2>9, SlotFacts DEF IInv, TypeOK, LockInv, KeepServer, Stalled
  <2>10. QED
    BY <1>6, <2>1, <2>2, <2>3, <2>4, <2>5, <2>6, <2>7, <2>8, <2>9 DEF Work
<1>7. QED
  BY <1>1, <1>2, <1>3, <1>4, <1>5, <1>6 DEF Next

\* The device runs only with an active server.
LEMMA StartStep == ASSUME IInv, Next PROVE StartInv'
<1> USE DEF devVars, slotVars, emVars, lockVars, queueVars, txVars, rxVars,
            userVars, workVars, toVars
<1>1. CASE User
  <2>1. ASSUME NEW i \in Slots, NEW h \in Hosts \cup {None}, StoreSock(i, h)
        PROVE  StartInv'
    BY <2>1, SlotFacts
       DEF IInv, TypeOK, LocalsInv, StartInv, ActiveSet, StoreSock
  <2>2. ASSUME NEW i \in Slots, StoreActive(i) PROVE StartInv'
    BY <2>2, SlotFacts
       DEF IInv, TypeOK, LocalsInv, StartInv, ActiveSet, StoreActive
  <2>3. CASE Replaced
    BY <2>3, SlotFacts
       DEF IInv, TypeOK, LocalsInv, StartInv, ActiveSet, Replaced, AddServer
  <2>4. CASE Start
    BY <2>4, SlotFacts DEF IInv, TypeOK, LocalsInv, StartInv, ActiveSet, Start
  <2>5. ASSUME NEW c \in Ctl, Ask(c) PROVE StartInv'
    BY <2>5, SlotFacts
       DEF IInv, TypeOK, LocalsInv, StartInv, ActiveSet, Ask, Enqueue
  <2>6. CASE Unreachable
    BY <2>6, SlotFacts
       DEF IInv, TypeOK, LocalsInv, StartInv, ActiveSet, Unreachable
  <2>7. CASE Answered
    BY <2>7, SlotFacts
       DEF IInv, TypeOK, LocalsInv, StartInv, ActiveSet, Answered
  <2>8. CASE GiveUpAsking
    BY <2>8, SlotFacts
       DEF IInv, TypeOK, LocalsInv, StartInv, ActiveSet, GiveUpAsking
  <2>9. CASE SetActive
    BY <2>9, SlotFacts
       DEF IInv, TypeOK, LocalsInv, StartInv, ActiveSet, SetActive
  <2>10. CASE SetRunning
    BY <2>10, SlotFacts
       DEF IInv, TypeOK, LocalsInv, StartInv, ActiveSet, SetRunning
  <2>11. CASE Stop
    BY <2>11, SlotFacts DEF IInv, TypeOK, LocalsInv, StartInv, ActiveSet, Stop
  <2>12. CASE ClearActive
    BY <2>12, SlotFacts
       DEF IInv, TypeOK, LocalsInv, StartInv, ActiveSet, ClearActive
  <2>13. CASE \/ \E d \in Datasets : StoreDataset(d)
              \/ BlockRequest
    <3>1. UNCHANGED <<running, active, userPc>>
      BY <2>13 DEF StoreDataset, BlockRequest
    <3>2. QED
      BY <3>1 DEF IInv, StartInv, ActiveSet
  <2>14. QED
    BY <1>1, <2>1, <2>2, <2>3, <2>4, <2>5, <2>6, <2>7, <2>8, <2>9, <2>10,
       <2>11, <2>12, <2>13
       DEF User
<1>2. CASE Tx
  <2>1. UNCHANGED <<running, active, userPc>>
    BY <1>2 DEF Tx, TxTake, TxDiscard, TxLock, TxSend, EndControl
  <2>2. QED
    BY <2>1 DEF IInv, StartInv, ActiveSet
<1>3. CASE \E i \in Slots : Rx(i)
  <2>1. ASSUME NEW i \in Slots, NEW others \in Lists, RxHandle(i, others)
        PROVE  StartInv'
    BY <2>1, SlotFacts
       DEF IInv, TypeOK, LocalsInv, StartInv, ActiveSet, RxHandle,
           StopEmergency
  <2>2. CASE \E i \in Slots : RxBlock(i) \/ RxSize(i) \/ RxServers(i)
                    \/ RxDone(i) \/ RxExit(i)
    <3>1. UNCHANGED <<running, active, userPc>>
      BY <2>2 DEF RxBlock, RxSize, RxServers, RxDone, RxExit, EndControl
    <3>2. QED
      BY <3>1 DEF IInv, StartInv, ActiveSet
  <2>3. QED
    BY <1>3, <2>1, <2>2 DEF Rx
<1>4. CASE TryAdd
  <2>1. UNCHANGED <<running, active, userPc>>
    BY <1>4 DEF TryAdd, AddServer
  <2>2. QED
    BY <2>1 DEF IInv, StartInv, ActiveSet
<1>5. CASE Clock
  <2>1. UNCHANGED <<running, active, userPc>>
    BY <1>5 DEF Clock, Heartbeat, ToTick, Requeue, GiveUp, EndControl, Enqueue
  <2>2. QED
    BY <2>1 DEF IInv, StartInv, ActiveSet
<1>6. CASE Work
  <2>1. CASE Replace
    BY <2>1, SlotFacts
       DEF IInv, TypeOK, LocalsInv, StartInv, ActiveSet, Replace, Stalled,
           Configured
  <2>2. CASE Switch
    BY <2>2, SlotFacts
       DEF IInv, TypeOK, LocalsInv, StartInv, ActiveSet, Switch
  <2>3. CASE \/ \E i \in Slots : DelWork(i)
             \/ Removed \/ TakeOver \/ StartEmergency \/ EmergencyStarted
                    \/ KeepServer
             \/ \E i \in Configured : Choose(i)
    <3>1. UNCHANGED <<running, active, userPc>>
      BY <2>3
         DEF DelWork, Removed, TakeOver, StartEmergency, EmergencyStarted,
             Choose, KeepServer, Stalled
    <3>2. QED
      BY <3>1 DEF IInv, StartInv, ActiveSet
  <2>4. QED
    BY <1>6, <2>1, <2>2, <2>3 DEF Work
<1>7. QED
  BY <1>1, <1>2, <1>3, <1>4, <1>5, <1>6 DEF Next

\* Timers stop only in emergency mode.
LEMMA TimersStep == ASSUME IInv, Next PROVE TimersRun'
<1> USE DEF devVars, slotVars, emVars, lockVars, queueVars, txVars, rxVars,
            userVars, workVars, toVars
<1>1. CASE User
  <2>1. UNCHANGED <<emergency, armed, toPc>>
    BY <1>1
       DEF User, StoreDataset, StoreSock, StoreActive, Replaced, Start, Ask,
           Unreachable, Answered, GiveUpAsking, SetActive, SetRunning, Stop,
           ClearActive, BlockRequest, AddServer, Enqueue
  <2>2. QED
    BY <2>1 DEF IInv, TimersRun
<1>2. CASE Tx
  <2>1. UNCHANGED <<emergency, armed, toPc>>
    BY <1>2 DEF Tx, TxTake, TxDiscard, TxLock, TxSend, EndControl
  <2>2. QED
    BY <2>1 DEF IInv, TimersRun
<1>3. CASE \E i \in Slots : Rx(i)
  <2>1. ASSUME NEW i \in Slots, NEW others \in Lists, RxHandle(i, others)
        PROVE  TimersRun'
    BY <2>1
       DEF IInv, TypeOK, LockInv, TimersRun, Timers, RxHandle, StopEmergency
  <2>2. CASE \E i \in Slots : RxBlock(i) \/ RxSize(i) \/ RxServers(i)
                    \/ RxDone(i) \/ RxExit(i)
    <3>1. UNCHANGED <<emergency, armed, toPc>>
      BY <2>2 DEF RxBlock, RxSize, RxServers, RxDone, RxExit, EndControl
    <3>2. QED
      BY <3>1 DEF IInv, TimersRun
  <2>3. QED
    BY <1>3, <2>1, <2>2 DEF Rx
<1>4. CASE TryAdd
  <2>1. UNCHANGED <<emergency, armed, toPc>>
    BY <1>4 DEF TryAdd, AddServer
  <2>2. QED
    BY <2>1 DEF IInv, TimersRun
<1>5. CASE Clock
  <2>1. UNCHANGED <<emergency, armed, toPc>>
    BY <1>5 DEF Clock, Heartbeat, ToTick, Requeue, GiveUp, EndControl, Enqueue
  <2>2. QED
    BY <2>1 DEF IInv, TimersRun
<1>6. CASE Work
  <2>1. CASE Removed
    BY <2>1 DEF IInv, TypeOK, LockInv, TimersRun, Timers, Removed
  <2>2. CASE TakeOver
    BY <2>2 DEF IInv, TypeOK, LockInv, TimersRun, Timers, TakeOver
  <2>3. CASE Replace
    BY <2>3 DEF IInv, TypeOK, LockInv, TimersRun, Timers, Replace, Stalled
  <2>4. CASE StartEmergency
    BY <2>4
       DEF IInv, TypeOK, LockInv, TimersRun, Timers, StartEmergency, Stalled
  <2>5. CASE EmergencyStarted
    BY <2>5 DEF IInv, TypeOK, LockInv, TimersRun, Timers, EmergencyStarted
  <2>6. ASSUME NEW i \in Configured, Choose(i) PROVE TimersRun'
    BY <2>6 DEF IInv, TypeOK, LockInv, TimersRun, Timers, Choose
  <2>7. CASE Switch
    BY <2>7 DEF IInv, TypeOK, LockInv, TimersRun, Timers, Switch
  <2>8. CASE KeepServer
    BY <2>8 DEF IInv, TypeOK, LockInv, TimersRun, Timers, KeepServer, Stalled
  <2>9. CASE \E i \in Slots : DelWork(i)
    <3>1. UNCHANGED <<emergency, armed, toPc>>
      BY <2>9 DEF DelWork
    <3>2. QED
      BY <3>1 DEF IInv, TimersRun
  <2>10. QED
    BY <1>6, <2>1, <2>2, <2>3, <2>4, <2>5, <2>6, <2>7, <2>8, <2>9 DEF Work
<1>7. QED
  BY <1>1, <1>2, <1>3, <1>4, <1>5, <1>6 DEF Next

\* Sockets and receivers go together.
LEMMA ReceiverStep == ASSUME IInv, Next PROVE ReceiverRuns'
<1> USE DEF devVars, slotVars, emVars, lockVars, queueVars, txVars, rxVars,
            userVars, workVars, toVars
<1>1. CASE User
  <2>1. ASSUME NEW i \in Slots, NEW h \in Hosts \cup {None}, StoreSock(i, h)
        PROVE  ReceiverRuns'
    BY <2>1, SlotFacts
       DEF IInv, TypeOK, LockInv, LocalsInv, ReceiverRuns, Configured,
           Receives, StoreSock
  <2>2. CASE Replaced
    <3>1. victim \in Slots /\ userArg \in Hosts \cup {None}
      BY <2>2 DEF IInv, TypeOK, LocalsInv, LockInv, Replaced
    <3>2. QED
      BY <2>2, <3>1 DEF IInv, TypeOK, ReceiverRuns, Replaced, AddServer
  <2>3. CASE \/ \E d \in Datasets : StoreDataset(d)
             \/ \E i \in Slots : StoreActive(i)
             \/ Start \/ Unreachable \/ Answered \/ GiveUpAsking \/
                    SetActive \/ SetRunning \/ Stop \/ ClearActive \/
                    BlockRequest
             \/ \E c \in Ctl : Ask(c)
    <3>1. UNCHANGED <<sock, victim, rxPc>>
      BY <2>3
         DEF StoreDataset, StoreActive, Start, Ask, Unreachable, Answered,
             GiveUpAsking, SetActive, SetRunning, Stop, ClearActive,
             BlockRequest, Enqueue
    <3>2. QED
      BY <3>1 DEF IInv, ReceiverRuns
  <2>4. QED
    BY <1>1, <2>1, <2>2, <2>3 DEF User
<1>2. CASE Tx
  <2>1. UNCHANGED <<sock, victim, rxPc>>
    BY <1>2 DEF Tx, TxTake, TxDiscard, TxLock, TxSend, EndControl
  <2>2. QED
    BY <2>1 DEF IInv, ReceiverRuns
<1>3. CASE \E i \in Slots : Rx(i)
  <2>1. ASSUME NEW i \in Slots, RxServers(i) PROVE ReceiverRuns'
    BY <2>1, SlotFacts
       DEF IInv, TypeOK, LockInv, LocalsInv, ReceiverRuns, Configured,
           Receives, RxServers
  <2>2. ASSUME NEW i \in Slots, NEW others \in Lists, RxHandle(i, others)
        PROVE  ReceiverRuns'
    BY <2>2, SlotFacts
       DEF IInv, TypeOK, LockInv, LocalsInv, ReceiverRuns, Configured,
           Receives, RxHandle, StopEmergency
  <2>3. ASSUME NEW i \in Slots, RxDone(i) PROVE ReceiverRuns'
    BY <2>3, SlotFacts
       DEF IInv, TypeOK, LockInv, LocalsInv, ReceiverRuns, Configured,
           Receives, RxDone, EndControl
  <2>4. ASSUME NEW i \in Slots, RxExit(i) PROVE ReceiverRuns'
    BY <2>4, SlotFacts
       DEF IInv, TypeOK, LockInv, LocalsInv, ReceiverRuns, Configured,
           Receives, RxExit
  <2>5. CASE \E i \in Slots : RxBlock(i) \/ RxSize(i)
    <3>1. UNCHANGED <<sock, victim, rxPc>>
      BY <2>5 DEF RxBlock, RxSize, EndControl
    <3>2. QED
      BY <3>1 DEF IInv, ReceiverRuns
  <2>6. QED
    BY <1>3, <2>1, <2>2, <2>3, <2>4, <2>5 DEF Rx
<1>4. CASE TryAdd
  <2>1. CASE UNCHANGED <<sock, rxPc>>
    BY <1>4, <2>1 DEF IInv, ReceiverRuns, TryAdd
  <2>2. ASSUME NEW i \in Slots, Head(toAdd) # None, AddServer(i, Head(toAdd))
        PROVE  ReceiverRuns'
    BY <1>4, <2>2 DEF IInv, TypeOK, ReceiverRuns, TryAdd, AddServer
  <2>3. QED
    BY <1>4, <2>1, <2>2 DEF TryAdd, Configured
<1>5. CASE Clock
  <2>1. UNCHANGED <<sock, victim, rxPc>>
    BY <1>5 DEF Clock, Heartbeat, ToTick, Requeue, GiveUp, EndControl, Enqueue
  <2>2. QED
    BY <2>1 DEF IInv, ReceiverRuns
<1>6. CASE Work
  <2>1. ASSUME NEW i \in Slots, DelWork(i) PROVE ReceiverRuns'
    BY <2>1, SlotFacts
       DEF IInv, TypeOK, LockInv, LocalsInv, ReceiverRuns, Configured,
           Receives, DelWork
  <2>2. CASE Removed
    BY <2>2, SlotFacts
       DEF IInv, TypeOK, LockInv, LocalsInv, ReceiverRuns, Configured,
           Receives, Removed
  <2>3. CASE Replace
    BY <2>3, SlotFacts
       DEF IInv, TypeOK, LockInv, LocalsInv, ReceiverRuns, Configured,
           Receives, Replace, Stalled
  <2>4. CASE \/ TakeOver \/ StartEmergency \/ EmergencyStarted \/ Switch
                    \/ KeepServer
             \/ \E i \in Configured : Choose(i)
    <3>1. UNCHANGED <<sock, victim, rxPc>>
      BY <2>4
         DEF TakeOver, StartEmergency, EmergencyStarted, Choose, Switch,
             KeepServer, Stalled
    <3>2. QED
      BY <3>1 DEF IInv, ReceiverRuns
  <2>5. QED
    BY <1>6, <2>1, <2>2, <2>3, <2>4 DEF Work
<1>7. QED
  BY <1>1, <1>2, <1>3, <1>4, <1>5, <1>6 DEF Next

-----------------------------------------------------------------------------
(* Control requests.                                                       *)

Live == {c \in Ctl : ctl[c] # None}

\* A receiver that neither takes nor gives back a request.
LEMMA SameHeld ==
    ASSUME \A i \in Slots :
              /\ rxPc'[i] \in {"handle", "listing"} <=>
                    rxPc[i] \in {"handle", "listing"}
              /\ rxReq'[i] = rxReq[i]
    PROVE  RxBusy' = RxBusy /\ RxHeld' = RxHeld
<1>1. RxBusy' = RxBusy
  BY DEF RxBusy
<1>2. \A i \in RxBusy : rxReq'[i] = rxReq[i]
  BY DEF RxBusy
<1>3. QED
  BY <1>1, <1>2 DEF RxHeld

\* Requests are where they were, but for those the sender and the queues pass
\* on, and the set of them is the same.
LEMMA SameReceivers ==
    ASSUME IInv, UNCHANGED rxVars
    PROVE  RxBusy' = RxBusy /\ RxHeld' = RxHeld
  BY SameHeld DEF rxVars

\* Memory that is free is in no queue and nobody's hands.
LEMMA EnqueueStep ==
    ASSUME IInv, NEW c \in Ctl, NEW cmd \in {"size", "servers"},
           NEW i \in Slots, Enqueue(c, cmd, i), UNCHANGED <<txVars, rxVars>>
    PROVE  OneHolder'
<1>1. TxHeld' = TxHeld /\ RxBusy' = RxBusy /\ RxHeld' = RxHeld
        /\ UNCHANGED <<rxReq, pendingQueue>>
  BY SameReceivers DEF TxHeld, txVars, rxVars, Enqueue
<1>2. c \notin Live
  BY DEF Live, Enqueue
<1>3. c \notin Range(sendQueue) \cup Range(pendingQueue) \cup TxHeld \cup RxHeld
  BY <1>2 DEF IInv, OneHolder, Live
<1>4. PICK r \in Request : ctl' = [ctl EXCEPT ![c] = r]
  <2>1. [cmd |-> cmd, dst |-> i, cnt |-> 0, ds |-> None] \in Request
    BY SlotFacts DEF Request
  <2>2. QED
    BY <2>1 DEF Enqueue
<1>5. Live' = Live \cup {c}
  BY <1>4, RequestAssumption DEF Live, IInv, TypeOK
<1>6. /\ Range(sendQueue') = Range(sendQueue) \cup {c}
      /\ IsInjective(sendQueue')
  BY <1>3, AppendRange, AppendKeepsInjective DEF IInv, TypeOK, OneHolder, Enqueue
<1>7. QED
  BY <1>1, <1>3, <1>5, <1>6 DEF IInv, OneHolder, Live

\* What the removal of one of its requests makes of the pending-queue.
LEMMA PendingRemoved ==
    ASSUME IInv, NEW k \in DOMAIN pendingQueue
    PROVE  LET c == pendingQueue[k]
               rest == RemoveAt(pendingQueue, k)
           IN /\ c \in Ctl /\ c \in Range(pendingQueue)
              /\ Range(rest) = Range(pendingQueue) \ {c}
              /\ IsInjective(rest)
<1>1. pendingQueue \in Seq(Ctl) /\ IsInjective(pendingQueue)
  BY DEF IInv, TypeOK, OneHolder
<1>2. pendingQueue[k] \in Range(pendingQueue)
  BY DEF Range
<1>3. QED
  BY <1>1, <1>2, RemoveAtRange

\* A request of the pending-queue is ended, by its reply or for good.
LEMMA EndPendingStep ==
    ASSUME IInv, NEW k \in DOMAIN pendingQueue, EndControl(pendingQueue[k]),
           pendingQueue' = RemoveAt(pendingQueue, k),
           UNCHANGED <<sendQueue, txVars, rxVars>>
    PROVE  OneHolder'
<1>1. PICK c : c = pendingQueue[k]
  OBVIOUS
<1>2. /\ c \in Ctl /\ c \in Range(pendingQueue)
      /\ Range(pendingQueue') = Range(pendingQueue) \ {c}
      /\ IsInjective(pendingQueue')
  BY <1>1, PendingRemoved
<1>3. Live' = Live \ {c}
  BY <1>1, <1>2 DEF IInv, TypeOK, EndControl, Live
<1>4. RxBusy' = RxBusy /\ RxHeld' = RxHeld /\ TxHeld' = TxHeld /\ rxReq' = rxReq
  BY SameReceivers DEF txVars, rxVars, TxHeld
<1>5. QED
  BY <1>2, <1>3, <1>4 DEF IInv, OneHolder, Live

\* No step ends a request twice, loses it or has it twice.
LEMMA HolderStep == ASSUME IInv, Next PROVE OneHolder'
<1> USE DEF devVars, slotVars, emVars, lockVars, queueVars, txVars, rxVars,
            userVars, workVars, toVars
<1>1. CASE User
  <2>1. CASE Replaced
    <3>1. UNCHANGED <<ctl, queueVars, txVars, rxReq>>
      BY <2>1 DEF Replaced
    <3>2. \A i \in Slots : rxPc'[i] \in {"handle", "listing"} <=>
                              rxPc[i] \in {"handle", "listing"}
      BY <2>1, SlotFacts DEF IInv, TypeOK, LockInv, Replaced, AddServer
    <3>3. RxBusy' = RxBusy /\ RxHeld' = RxHeld /\ TxHeld' = TxHeld
      BY <3>1, <3>2, SameHeld DEF TxHeld
    <3>4. QED
      BY <3>1, <3>3 DEF IInv, OneHolder
  <2>2. ASSUME NEW c \in Ctl, Ask(c) PROVE OneHolder'
    <3>1. PICK i \in Slots : Enqueue(c, "size", i)
      BY <2>2 DEF Ask, Configured
    <3>2. QED
      BY <2>2, <3>1, EnqueueStep DEF Ask
  <2>3. CASE \/ \E d \in Datasets : StoreDataset(d)
             \/ \E i \in Slots, h \in Hosts \cup {None} : StoreSock(i, h)
             \/ \E i \in Slots : StoreActive(i)
             \/ Start \/ Unreachable \/ Answered \/ GiveUpAsking \/
                    SetActive \/ SetRunning \/ Stop \/ ClearActive \/
                    BlockRequest
    <3>1. UNCHANGED <<ctl, sendQueue, pendingQueue, txPc, txReq, rxPc, rxReq>>
      BY <2>3
         DEF StoreDataset, StoreSock, StoreActive, Start, Unreachable,
             Answered, GiveUpAsking, SetActive, SetRunning, Stop, ClearActive,
             BlockRequest
    <3>2. QED
      BY <3>1 DEF IInv, OneHolder, TxHeld, RxHeld, RxBusy
  <2>4. QED
    BY <1>1, <2>1, <2>2, <2>3 DEF User
<1>2. CASE Tx
  <2>1. CASE TxTake
    <3>1. RxBusy' = RxBusy /\ RxHeld' = RxHeld /\ UNCHANGED <<ctl, pendingQueue>>
            /\ rxReq' = rxReq
      BY <2>1, SameReceivers DEF TxTake
    <3>2. /\ txReq' \in Range(sendQueue) /\ IsInjective(sendQueue')
          /\ Range(sendQueue') = Range(sendQueue) \ {txReq'}
      BY <2>1, HeadTailRange DEF IInv, TypeOK, OneHolder, TxTake
    <3>3. TxHeld = {} /\ TxHeld' = {txReq'}
      BY <2>1 DEF TxTake, TxHeld
    <3>4. QED
      BY <3>1, <3>2, <3>3 DEF IInv, OneHolder
  <2>2. CASE TxDiscard
    <3>1. RxBusy' = RxBusy /\ RxHeld' = RxHeld /\ UNCHANGED queueVars
            /\ rxReq' = rxReq
      BY <2>2, SameReceivers DEF TxDiscard
    <3>2. TxHeld = {txReq} /\ TxHeld' = {} /\ txReq \in Ctl
      BY <2>2 DEF IInv, LocalsInv, TxDiscard, TxHeld
    <3>3. Live' = Live \ {txReq}
      BY <2>2, <3>2 DEF IInv, TypeOK, TxDiscard, EndControl, Live
    <3>4. QED
      BY <3>1, <3>2, <3>3 DEF IInv, OneHolder, Live
  <2>3. CASE TxLock
    <3>1. RxBusy' = RxBusy /\ RxHeld' = RxHeld /\ UNCHANGED <<ctl, sendQueue>>
            /\ rxReq' = rxReq
      BY <2>3, SameReceivers DEF TxLock
    <3>2. TxHeld = {txReq} /\ TxHeld' = {} /\ txReq \in Ctl
      BY <2>3 DEF IInv, LocalsInv, TxLock, TxHeld
    <3>3. /\ Range(pendingQueue') = Range(pendingQueue) \cup {txReq}
          /\ IsInjective(pendingQueue')
      <4>1. txReq \notin Range(pendingQueue) /\ IsInjective(pendingQueue)
        BY <3>2 DEF IInv, OneHolder
      <4>2. QED
        BY <2>3, <3>2, <4>1, AppendRange, AppendKeepsInjective
           DEF IInv, TypeOK, TxLock
    <3>4. QED
      BY <3>1, <3>2, <3>3 DEF IInv, OneHolder
  <2>4. CASE TxSend
    <3>1. RxBusy' = RxBusy /\ RxHeld' = RxHeld /\ UNCHANGED queueVars
            /\ rxReq' = rxReq
      BY <2>4, SameReceivers DEF TxSend
    <3>2. TxHeld = {} /\ TxHeld' = {}
      BY <2>4 DEF TxSend, TxHeld
    <3>3. Live' = Live
      <4>1. CASE ctl[txReq] = None
        BY <2>4, <4>1 DEF TxSend, Live
      <4>2. CASE ctl[txReq] # None
        <5>1. txReq \in Ctl /\ ctl[txReq] \in Request
          BY <2>4, <4>2 DEF IInv, TypeOK, LocalsInv, TxSend
        <5>2. Sent(ctl[txReq]) # None
          BY <5>1, SentTyped, RequestAssumption DEF IInv, TypeOK
        <5>3. ctl' = [ctl EXCEPT ![txReq] = Sent(ctl[txReq])]
          BY <2>4, <4>2 DEF TxSend
        <5>4. QED
          BY <4>2, <5>1, <5>2, <5>3 DEF IInv, TypeOK, Live
      <4>3. QED
        BY <4>1, <4>2
    <3>4. QED
      BY <3>1, <3>2, <3>3 DEF IInv, OneHolder, Live
  <2>5. QED
    BY <1>2, <2>1, <2>2, <2>3, <2>4 DEF Tx
<1>3. CASE \E i \in Slots : Rx(i)
  <2>1. ASSUME NEW i \in Slots, RxSize(i) PROVE OneHolder'
    <3>1. PICK k \in DOMAIN pendingQueue :
              /\ pendingQueue' = RemoveAt(pendingQueue, k)
              /\ EndControl(pendingQueue[k])
      BY <2>1 DEF RxSize
    <3>2. QED
      BY <2>1, <3>1, EndPendingStep DEF RxSize
  <2>2. ASSUME NEW i \in Slots, RxServers(i) PROVE OneHolder'
    <3>1. PICK k \in DOMAIN pendingQueue :
              /\ pendingQueue' = RemoveAt(pendingQueue, k)
              /\ rxReq' = [rxReq EXCEPT ![i] = pendingQueue[k]]
      BY <2>2 DEF RxServers
    <3>2. PICK c : c = pendingQueue[k]
      OBVIOUS
    <3>3. /\ Range(pendingQueue') = Range(pendingQueue) \ {c}
          /\ IsInjective(pendingQueue') /\ c \in Range(pendingQueue)
      BY <3>1, <3>2, PendingRemoved
    <3>4. /\ i \notin RxBusy /\ RxBusy' = RxBusy \cup {i} /\ rxReq'[i] = c
          /\ \A j \in RxBusy : rxReq'[j] = rxReq[j]
      BY <2>2, <3>1, <3>2 DEF IInv, TypeOK, RxServers, Receives, RxBusy
    <3>5. RxHeld' = RxHeld \cup {c}
      BY <3>4 DEF RxHeld
    <3>6. c \notin RxHeld
      BY <3>3 DEF IInv, OneHolder
    <3>7. \A j \in RxBusy : rxReq[j] # c
      BY <3>6 DEF RxHeld
    <3>8. TxHeld' = TxHeld /\ UNCHANGED <<ctl, sendQueue>>
      BY <2>2 DEF RxServers, TxHeld
    <3>9. QED
      BY <3>3, <3>4, <3>5, <3>6, <3>7, <3>8 DEF IInv, OneHolder
  <2>3. ASSUME NEW i \in Slots, NEW others \in Lists, RxHandle(i, others)
        PROVE  OneHolder'
    <3>1. RxBusy' = RxBusy /\ RxHeld' = RxHeld
      BY <2>3, SameHeld DEF IInv, TypeOK, RxHandle
    <3>2. TxHeld' = TxHeld /\ UNCHANGED <<ctl, queueVars, rxReq>>
      BY <2>3 DEF RxHandle, TxHeld
    <3>3. QED
      BY <3>1, <3>2 DEF IInv, OneHolder
  <2>4. ASSUME NEW i \in Slots, RxDone(i) PROVE OneHolder'
    <3>1. PICK c : c = rxReq[i]
      OBVIOUS
    <3>2. i \in RxBusy /\ c \in RxHeld /\ c \in Ctl
      BY <2>4, <3>1 DEF IInv, LocalsInv, RxDone, RxBusy, RxHeld
    <3>3. /\ RxBusy' = RxBusy \ {i}
          /\ \A j \in RxBusy \ {i} : rxReq'[j] = rxReq[j]
      BY <2>4 DEF IInv, TypeOK, RxDone, RxBusy
    <3>4. \A j \in RxBusy \ {i} : rxReq[j] # c
      BY <3>1, <3>2 DEF IInv, OneHolder
    <3>5. RxHeld' = RxHeld \ {c}
      BY <3>1, <3>3, <3>4 DEF RxHeld
    <3>6. Live' = Live \ {c}
      BY <2>4, <3>1, <3>2 DEF IInv, TypeOK, RxDone, EndControl, Live
    <3>7. TxHeld' = TxHeld /\ UNCHANGED queueVars
      BY <2>4 DEF RxDone, TxHeld
    <3>8. QED
      BY <3>2, <3>3, <3>5, <3>6, <3>7 DEF IInv, OneHolder, Live
  <2>5. ASSUME NEW i \in Slots, RxExit(i) PROVE OneHolder'
    <3>1. RxBusy' = RxBusy /\ RxHeld' = RxHeld
      BY <2>5, SameHeld DEF IInv, TypeOK, RxExit
    <3>2. TxHeld' = TxHeld /\ UNCHANGED <<ctl, queueVars, rxReq>>
      BY <2>5 DEF RxExit, TxHeld
    <3>3. QED
      BY <3>1, <3>2 DEF IInv, OneHolder
  <2>6. CASE \E i \in Slots : RxBlock(i)
    <3>1. UNCHANGED <<ctl, sendQueue, pendingQueue, txPc, txReq, rxPc, rxReq>>
      BY <2>6 DEF RxBlock
    <3>2. QED
      BY <3>1 DEF IInv, OneHolder, TxHeld, RxHeld, RxBusy
  <2>7. QED
    BY <1>3, <2>1, <2>2, <2>3, <2>4, <2>5, <2>6 DEF Rx
<1>4. CASE TryAdd
  <2>1. UNCHANGED <<ctl, queueVars, txVars, rxReq>>
    BY <1>4 DEF TryAdd
  <2>2. \A i \in Slots : rxPc'[i] \in {"handle", "listing"} <=>
                            rxPc[i] \in {"handle", "listing"}
    <3>1. CASE UNCHANGED rxPc
      BY <3>1
    <3>2. ASSUME NEW j \in Slots, sock[j] = None, AddServer(j, Head(toAdd))
          PROVE  \A i \in Slots : rxPc'[i] \in {"handle", "listing"} <=>
                                    rxPc[i] \in {"handle", "listing"}
      BY <3>2 DEF IInv, TypeOK, ReceiverRuns, AddServer
    <3>3. QED
      BY <1>4, <3>1, <3>2 DEF TryAdd, Configured
  <2>3. RxBusy' = RxBusy /\ RxHeld' = RxHeld /\ TxHeld' = TxHeld
    BY <2>1, <2>2, SameHeld DEF TxHeld
  <2>4. QED
    BY <2>1, <2>3 DEF IInv, OneHolder
<1>5. CASE Clock
  <2>1. ASSUME NEW i \in Slots, NEW c \in Ctl, Heartbeat(i, c)
        PROVE  OneHolder'
    BY <2>1, EnqueueStep DEF Heartbeat
  <2>2. ASSUME NEW k \in DOMAIN pendingQueue, Requeue(k) PROVE OneHolder'
    <3>1. PICK c : c = pendingQueue[k]
      OBVIOUS
    <3>2. /\ c \in Ctl /\ c \in Range(pendingQueue)
          /\ Range(pendingQueue') = Range(pendingQueue) \ {c}
          /\ IsInjective(pendingQueue')
      BY <2>2, <3>1, PendingRemoved DEF Requeue
    <3>3. c \notin Range(sendQueue)
      BY <3>2 DEF IInv, OneHolder
    <3>4. /\ Range(sendQueue') = Range(sendQueue) \cup {c}
          /\ IsInjective(sendQueue')
      BY <2>2, <3>1, <3>2, <3>3, AppendRange, AppendKeepsInjective
         DEF IInv, TypeOK, OneHolder, Requeue
    <3>5. RxBusy' = RxBusy /\ RxHeld' = RxHeld /\ TxHeld' = TxHeld
            /\ UNCHANGED <<ctl, rxReq>>
      BY <2>2, SameReceivers DEF Requeue, TxHeld
    <3>6. QED
      BY <3>2, <3>3, <3>4, <3>5 DEF IInv, OneHolder
  <2>3. ASSUME NEW k \in DOMAIN pendingQueue, GiveUp(k) PROVE OneHolder'
    BY <2>3, EndPendingStep DEF GiveUp
  <2>4. CASE ToTick
    <3>1. UNCHANGED <<ctl, sendQueue, pendingQueue, txPc, txReq, rxPc, rxReq>>
      BY <2>4 DEF ToTick
    <3>2. QED
      BY <3>1 DEF IInv, OneHolder, TxHeld, RxHeld, RxBusy
  <2>5. QED
    BY <1>5, <2>1, <2>2, <2>3, <2>4 DEF Clock
<1>6. CASE Work
  <2>1. UNCHANGED <<ctl, sendQueue, pendingQueue, txPc, txReq, rxPc, rxReq>>
    BY <1>6
       DEF Work, DelWork, Removed, TakeOver, Replace, StartEmergency,
           EmergencyStarted, Choose, Switch, KeepServer, Stalled
  <2>2. QED
    BY <2>1 DEF IInv, OneHolder, TxHeld, RxHeld, RxBusy
<1>7. QED
  BY <1>1, <1>2, <1>3, <1>4, <1>5, <1>6 DEF Next

-----------------------------------------------------------------------------
(* The theorems.                                                           *)

LEMMA InitIInv == Init => IInv
<1> SUFFICES ASSUME Init PROVE IInv
  OBVIOUS
<1>1. TypeOK
  <2>1. 0 \in 0 .. NSlots /\ 0 \in 0 .. MaxReqs
    BY SlotFacts
  <2>2. UserTypes
    BY <2>1 DEF Init, UserTypes
  <2>3. QueueTypes
    BY DEF Init, QueueTypes
  <2>4. SlotTypes
    BY DEF Init, SlotTypes
  <2>5. QED
    BY <2>2, <2>3, <2>4, TypeParts
<1>2. LocalsInv /\ LockInv /\ StartInv /\ TimersRun /\ ReceiverRuns
  BY DEF Init, LocalsInv, LockInv, StartInv, ActiveSet, TimersRun, ReceiverRuns,
         RxBusy
<1>3. OneHolder
  <2>1. TxHeld = {} /\ RxBusy = {}
    BY DEF Init, TxHeld, RxBusy
  <2>2. RxHeld = {}
    BY <2>1 DEF RxHeld
  <2>3. QED
    BY <2>1, <2>2, EmptyRange DEF Init, OneHolder
<1>4. QED
  BY <1>1, <1>2, <1>3 DEF IInv

LEMMA StutteringStep == ASSUME IInv, UNCHANGED vars PROVE IInv'
<1> USE DEF vars, devVars, slotVars, emVars, lockVars, queueVars, txVars, rxVars,
            userVars, workVars, toVars
<1>1. TypeOK'
  BY DEF IInv, TypeOK
<1>2. LocalsInv' /\ LockInv' /\ StartInv' /\ TimersRun' /\ ReceiverRuns'
  BY DEF IInv, LocalsInv, LockInv, StartInv, ActiveSet, TimersRun, ReceiverRuns,
         RxBusy
<1>3. OneHolder'
  BY DEF IInv, OneHolder, TxHeld, RxHeld, RxBusy
<1>4. QED
  BY <1>1, <1>2, <1>3 DEF IInv

\* The inductive invariant of servers.c and of the control half of core.c
\* holds in every reachable state.
THEOREM Invariance == Spec => []IInv
<1>1. IInv /\ Next => IInv'
  <2> SUFFICES ASSUME IInv, Next PROVE IInv'
    OBVIOUS
  <2>1. TypeOK'
    BY UserTyped, SlotsTyped, QueuesTyped
       DEF TypeOK, UserTypes, SlotTypes, QueueTypes
  <2>2. QED
    BY <2>1, LocalsStep, LockStep, StartStep, TimersStep, ReceiverStep,
       HolderStep DEF IInv
<1>2. IInv /\ [Next]_vars => IInv'
  BY <1>1, StutteringStep
<1>3. QED
  BY InitIInv, <1>2, PTL DEF Spec

\* Every variable keeps its type, for any number of slots and servers.
THEOREM TypeCorrect == Spec => []TypeOK
<1>1. IInv => TypeOK
  BY DEF IInv
<1>2. QED
  BY Invariance, <1>1, PTL

\* The sender, the receivers and the requeue timer (core.c) never free a
\* control request twice and never lose one.
THEOREM NothingLost == Spec => []OneHolder
<1>1. IInv => OneHolder
  BY DEF IInv
<1>2. QED
  BY Invariance, <1>1, PTL

\* The active server is set while the device runs (core.c:116-117), although
\* sysfs.c sets and clears both without servers_mutex.
THEOREM ActiveServerSet == Spec => []ActiveSet
<1>1. IInv => ActiveSet
  BY DEF IInv, StartInv
<1>2. QED
  BY Invariance, <1>1, PTL

\* start_emergency and stop_emergency leave no timer stopped for good.
THEOREM TimersKept == Spec => []TimersRun
<1>1. IInv => TimersRun
  BY DEF IInv
<1>2. QED
  BY Invariance, <1>1, PTL

\* add_server, del_server and try_add_server leave no socket without receiver
\* and no receiver without socket.
THEOREM ReceiversKept == Spec => []ReceiverRuns
<1>1. IInv => ReceiverRuns
  BY DEF IInv
<1>2. QED
  BY Invariance, <1>1, PTL
=============================================================================
