--------------------------- MODULE Dnbd1Requests ---------------------------
(***************************************************************************)
(* A DNBD client (src/contrib/dnbd/trunk/kernel, main.c and queue.c): the  *)
(* block layer's request function, the sender and the receiver thread, the *)
(* retransmission timer and the end of a session, around two queues and    *)
(* the block cache, of which BlockCache is all that is needed here.        *)
(*                                                                         *)
(* Replies are multicast: the receiver sees those to other clients too.    *)
(* An action is what happens under one lock or between two accesses to     *)
(* shared data.  Queues are written with the oldest request first.         *)
(***************************************************************************)
EXTENDS Integers, FiniteSets, SequencesExt

CONSTANTS
    Reqs,        \* request structures of the block layer
    Blocks,      \* blocks of the image
    Asks,        \* sequences of blocks that are read with one request
    MaxBlocks,   \* capacity of the cache
    MaxSessions, \* bound: how often the device is bound
    MaxReplies,  \* bound: replies under way when one is overheard
    None,
    Smp          \* whether spinlocks are more than disabled interrupts

ASSUME ClientAssumption ==
    /\ Asks \subseteq Seq(Blocks) \ {<<>>}
    /\ None \notin Reqs \cup Blocks
    /\ MaxBlocks \in Nat \ {0} /\ MaxSessions \in Nat /\ MaxReplies \in Nat
    /\ Smp \in BOOLEAN

VARIABLES
    lru, held, answer,  \* the cache: see BlockCache
    sessions, bound,    \* sessions begun; the device is bound
    phase,              \* of the session: see Phases
    running,            \* DNBD_STATE_RUNNING
    clearing,           \* sessions whose last thread has yet to empty the queues
    asleep, late,       \* calls of dnbd_do_it that wait, that go on to dnbd_stop
    asked, got, result, \* per request: blocks, contents copied, outcome
    arriving,           \* requests past dnbd_do_request's test of the state
    txQueue, rxQueue,
    txPc, txReq,        \* dnbd_tx_loop: place and req
    rxPc, rxReq, rxGot, \* dnbd_recv_reply: place, req, contents copied
    requests, replies   \* datagrams under way

cacheVars == <<lru, held, answer>>
sessionVars == <<sessions, bound, phase, running, clearing, asleep, late>>
reqVars == <<asked, got, result, arriving>>
queueVars == <<txQueue, rxQueue>>
txVars == <<txPc, txReq>>
rxVars == <<rxPc, rxReq, rxGot>>
net == <<requests, replies>>
vars == <<cacheVars, sessionVars, reqVars, queueVars, txVars, rxVars, net>>

Cache == INSTANCE BlockCache WITH Sectors <- Blocks, Data <- [x \in Blocks |-> {x}]

\* "starting": there is a receiver and no sender yet; "tx" and "rx": that
\* thread has been sent SIGKILL and is waited for; "ended": all threads have
\* ended, dnbd_shutdown has yet to return.
Phases == {"down", "starting", "up", "tx", "rx", "ended"}

Waiting == {r \in Reqs : result[r] = "waiting"}

\* A reply; not full: to a client that asked for less.
Replies == [blk : Blocks, full : BOOLEAN]

\* req->sector: the first block that has not been copied.
Sector(r) == asked[r][Len(got[r]) + 1]

Init ==
    /\ Cache!Init
    /\ sessions = 0 /\ bound = FALSE /\ phase = "down" /\ running = FALSE
    /\ clearing = 0 /\ asleep = 0 /\ late = 0
    /\ asked = [r \in Reqs |-> <<>>] /\ got = [r \in Reqs |-> <<>>]
    /\ result = [r \in Reqs |-> "idle"]
    /\ arriving = {}
    /\ txQueue = <<>> /\ rxQueue = <<>>
    /\ txPc = "dead" /\ txReq = None
    /\ rxPc = "dead" /\ rxReq = None /\ rxGot = <<>>
    /\ requests = {} /\ replies = {}

-----------------------------------------------------------------------------
(* Requests arrive.                                                        *)

\* dnbd_do_request, with the queue's lock: the request is refused or, with
\* the lock released, on its way to the sender's queue.
DoRequest(r, a) ==
    /\ result[r] # "waiting"
    /\ IF running
       THEN /\ asked' = [asked EXCEPT ![r] = a]
            /\ got' = [got EXCEPT ![r] = <<>>]
            /\ result' = [result EXCEPT ![r] = "waiting"]
            /\ arriving' = arriving \cup {r}
       ELSE /\ result' = [result EXCEPT ![r] = "failed"]
            /\ UNCHANGED <<asked, got, arriving>>
    /\ UNCHANGED <<cacheVars, sessionVars, queueVars, txVars, rxVars, net>>

Enqueue(r) ==
    /\ r \in arriving
    /\ arriving' = arriving \ {r}
    /\ txQueue' = Append(txQueue, r)
    /\ UNCHANGED <<cacheVars, sessionVars, asked, got, result, rxQueue,
                   txVars, rxVars, net>>

\* dnbd_end_request: the contents of bs are in r's buffer; what is left of r
\* goes back to the sender's queue, a complete r to the block layer.
EndRequest(r, bs) ==
    /\ got' = [got EXCEPT ![r] = @ \o bs]
    /\ IF Len(got'[r]) = Len(asked[r])
       THEN /\ result' = [result EXCEPT ![r] = "ok"]
            /\ UNCHANGED txQueue
       ELSE /\ txQueue' = Append(txQueue, r)
            /\ UNCHANGED result

-----------------------------------------------------------------------------
(* dnbd_tx_loop.                                                           *)

TxDequeue ==
    /\ txPc = "idle" /\ txQueue # <<>>
    /\ txReq' = Head(txQueue)
    /\ txQueue' = Tail(txQueue)
    /\ txPc' = "search"
    /\ UNCHANGED <<cacheVars, sessionVars, reqVars, rxQueue, rxVars, net>>

\* cache.search.
TxSearch ==
    /\ txPc = "search"
    /\ Cache!Get(Sector(txReq))
    /\ txPc' = IF answer'[2] = None THEN "miss" ELSE "hit"
    /\ UNCHANGED <<sessionVars, reqVars, queueVars, txReq, rxVars, net>>

\* Mutant: a request that is served in part is not queued again.
TxHitDrops ==
    /\ txPc = "hit"
    /\ got' = [got EXCEPT ![txReq] = Append(@, answer[2])]
    /\ result' = [result EXCEPT ![txReq] =
                    IF Len(got'[txReq]) = Len(asked[txReq]) THEN "ok" ELSE @]
    /\ txPc' = "idle" /\ txReq' = None
    /\ UNCHANGED <<cacheVars, sessionVars, asked, arriving, queueVars,
                   rxVars, net>>

TxHit ==
    /\ txPc = "hit"
    /\ EndRequest(txReq, <<answer[2]>>)
    /\ txPc' = "idle" /\ txReq' = None
    /\ UNCHANGED <<cacheVars, sessionVars, asked, arriving, rxQueue, rxVars,
                   net>>

TxMiss ==
    /\ txPc = "miss"
    /\ rxQueue' = Append(rxQueue, txReq)
    /\ txPc' = "send"
    /\ UNCHANGED <<cacheVars, sessionVars, reqVars, txQueue, txReq, rxVars,
                   net>>

\* dnbd_send_request reads req->sector, though from TxMiss on the receiver
\* may have ended req, or the block layer may use it for another read.
TxSend ==
    /\ txPc = "send"
    /\ requests' = requests \cup
         (IF Len(got[txReq]) < Len(asked[txReq]) THEN {Sector(txReq)} ELSE {})
    /\ txPc' = "idle" /\ txReq' = None
    /\ UNCHANGED <<cacheVars, sessionVars, reqVars, queueVars, rxVars,
                   replies>>

\* SIGKILL is looked at between two requests.
TxExit ==
    /\ phase = "tx" /\ txPc = "idle"
    /\ txPc' = "dead"
    /\ phase' = "rx"
    /\ UNCHANGED <<cacheVars, sessions, bound, running, clearing, asleep, late,
                   reqVars, queueVars, txReq, rxVars, net>>

Tx == TxDequeue \/ TxSearch \/ TxHit \/ TxMiss \/ TxSend \/ TxExit

-----------------------------------------------------------------------------
(* dnbd_rx_loop, dnbd_recv_reply.                                          *)

\* Mutant: the reply is taken for the request that waits longest.
MatchesOldest(x, k) == k = 1

\* dnbd_deq_request_handle finds the newest request for the position.
Matches(x, k) ==
    /\ k \in DOMAIN rxQueue
    /\ Sector(rxQueue[k]) = x
    /\ \A j \in k + 1 .. Len(rxQueue) : Sector(rxQueue[j]) # x

\* A reply for a request in the queue; the network may deliver it again.
\* Only whole buffers are copied from it.
RxMatch(m) ==
    /\ rxPc = "recv" /\ m \in replies
    /\ \E k \in DOMAIN rxQueue :
         /\ Matches(m.blk, k)
         /\ rxReq' = rxQueue[k]
         /\ rxQueue' = RemoveAt(rxQueue, k)
    /\ rxGot' = IF m.full THEN <<m.blk>> ELSE <<>>
    /\ rxPc' = "copied"
    /\ replies' \in {replies, replies \ {m}}
    /\ UNCHANGED <<cacheVars, sessionVars, reqVars, txQueue, txVars,
                   requests>>

RxEnd ==
    /\ rxPc = "copied"
    /\ EndRequest(rxReq, rxGot)
    /\ rxPc' = "recv" /\ rxReq' = None /\ rxGot' = <<>>
    /\ UNCHANGED <<cacheVars, sessionVars, asked, arriving, rxQueue, txVars,
                   net>>

\* Mutant: it is not looked whether the block is in the cache.
RxCacheTwice(m) ==
    /\ rxPc = "recv"
    /\ \A k \in DOMAIN rxQueue : Sector(rxQueue[k]) # m.blk
    /\ replies' \in {replies, replies \ {m}}
    /\ m.full
    /\ lru' = <<m.blk>> \o lru /\ held' = [held EXCEPT ![m.blk] = m.blk]
    /\ UNCHANGED <<answer, sessionVars, reqVars, queueVars, txVars, rxVars,
                   requests>>

\* A reply that no request waits for is put into the cache if it is a whole
\* block; dnbd_cache_insert may fail.
RxCache(m) ==
    /\ rxPc = "recv" /\ m \in replies
    /\ \A k \in DOMAIN rxQueue : Sector(rxQueue[k]) # m.blk
    /\ replies' \in {replies, replies \ {m}}
    /\ \/ /\ m.full /\ sessions = 1
          /\ \/ Cache!Refresh(m.blk) \/ Cache!Store(m.blk, m.blk)
             \/ Cache!Replace(m.blk, m.blk) \/ Cache!Drop
       \/ UNCHANGED cacheVars
    /\ UNCHANGED <<sessionVars, reqVars, queueVars, txVars, rxVars, requests>>

\* Mutant: the receiver ends when nothing is outstanding any more.
RxExitDrained ==
    /\ phase = "rx" /\ rxPc = "recv" /\ rxQueue = <<>>
    /\ rxPc' = "dead"
    /\ phase' = "ended" /\ clearing' = clearing + 1
    /\ UNCHANGED <<cacheVars, sessions, bound, running, asleep, late, reqVars,
                   queueVars, txVars, rxReq, rxGot, net>>

RxExit ==
    /\ phase = "rx" /\ rxPc = "recv"
    /\ rxPc' = "dead"
    /\ phase' = "ended" /\ clearing' = clearing + 1
    /\ UNCHANGED <<cacheVars, sessions, bound, running, asleep, late, reqVars,
                   queueVars, txVars, rxReq, rxGot, net>>

-----------------------------------------------------------------------------
(* dnbd_rexmit, the network, the servers and the other clients.            *)

\* del_timer does not wait for a handler that is running on another processor,
\* which starts the timer again until the end of dnbd_shutdown.
TimerRuns == Smp \/ (phase = "up" /\ running)

\* Mutant: the request is not taken off the queue.
RequeueTwice(k) ==
    /\ TimerRuns
    /\ txQueue' = Append(txQueue, rxQueue[k])
    /\ UNCHANGED <<cacheVars, sessionVars, reqVars, rxQueue, txVars, rxVars,
                   net>>

\* Some request's start_time is too long ago; it need not have been sent
\* yet, as start_time is the block layer's until then.
Requeue(k) ==
    /\ TimerRuns
    /\ txQueue' = Append(txQueue, rxQueue[k])
    /\ rxQueue' = RemoveAt(rxQueue, k)
    /\ UNCHANGED <<cacheVars, sessionVars, reqVars, txVars, rxVars, net>>

ServerReply(x) ==
    /\ x \in requests
    /\ requests' = requests \ {x}
    /\ replies' = replies \cup {[blk |-> x, full |-> TRUE]}
    /\ UNCHANGED <<cacheVars, sessionVars, reqVars, queueVars, txVars, rxVars>>

\* The server answers another client.
Overhear(m) ==
    /\ Cardinality(replies) < MaxReplies
    /\ replies' = replies \cup {m}
    /\ UNCHANGED <<cacheVars, sessionVars, reqVars, queueVars, txVars, rxVars,
                   requests>>

\* Datagrams are lost; the server's burst avoidance drops requests as well.
Lose ==
    /\ \/ \E x \in requests : requests' = requests \ {x} /\ UNCHANGED replies
       \/ \E m \in replies : replies' = replies \ {m} /\ UNCHANGED requests
    /\ UNCHANGED <<cacheVars, sessionVars, reqVars, queueVars, txVars, rxVars>>

-----------------------------------------------------------------------------
(* The session.                                                            *)

\* dnbd_do_it: dnbd_start, which starts the receiver first.
Start ==
    /\ phase = "down" /\ ~bound /\ sessions < MaxSessions
    /\ bound' = TRUE /\ sessions' = sessions + 1
    /\ rxPc' = "recv" /\ phase' = "starting"
    /\ UNCHANGED <<cacheVars, running, clearing, asleep, late, reqVars,
                   queueVars, txVars, rxReq, rxGot, net>>

\* The rest of dnbd_start; dnbd_do_it then waits.
StartTx ==
    /\ phase = "starting"
    /\ txPc' = "idle" /\ phase' = "up"
    /\ running' = TRUE /\ asleep' = asleep + 1
    /\ UNCHANGED <<cacheVars, sessions, bound, clearing, late, reqVars,
                   queueVars, txReq, rxVars, net>>

\* dnbd_disconnect: dnbd_shutdown ends the threads one after the other; if
\* dnbd_stop has, only the rest of dnbd_disconnect is left.
Disconnect ==
    /\ phase \in {"up", "down"} /\ bound
    /\ bound' = FALSE
    /\ phase' = IF phase = "up" THEN "tx" ELSE phase
    /\ IF phase = "down" THEN Cache!Clear ELSE UNCHANGED cacheVars
    /\ UNCHANGED <<sessions, running, clearing, asleep, late, reqVars,
                   queueVars, txVars, rxVars, net>>

\* dnbd_do_it, woken up by the end of a session, gets to dnbd_stop, which
\* does not look whose session is running.
LateStop ==
    /\ late > 0 /\ phase \in {"up", "down"}
    /\ late' = late - 1
    /\ phase' = IF phase = "up" THEN "tx" ELSE phase
    /\ UNCHANGED <<cacheVars, sessions, bound, running, clearing, asleep,
                   reqVars, queueVars, txVars, rxVars, net>>

\* A queue is emptied unless there is a thread of a new session to take from
\* it.
Orphans == (IF txPc = "dead" THEN Range(txQueue) ELSE {})
           \cup (IF rxPc = "dead" THEN Range(rxQueue) ELSE {})

\* Mutant: threads of a new session are not looked for.
ClearQueuesBlindly ==
    /\ clearing > 0
    /\ clearing' = clearing - 1
    /\ late' = late + asleep /\ asleep' = 0
    /\ result' = [r \in Reqs |->
         IF r \in Range(txQueue) \cup Range(rxQueue) THEN "failed" ELSE result[r]]
    /\ txQueue' = <<>> /\ rxQueue' = <<>>
    /\ UNCHANGED <<cacheVars, sessions, bound, phase, running, asked, got,
                   arriving, txVars, rxVars, net>>

\* dnbd_end_io of the last thread: requests are ended with thread_lock held,
\* which is the queue's lock that dnbd_end_request takes.  Then whoever waits
\* is woken up, and does not look for what.
ClearQueues ==
    /\ clearing > 0
    /\ clearing' = clearing - 1
    /\ late' = late + asleep /\ asleep' = 0
    /\ Smp => Orphans = {}
    /\ result' = [r \in Reqs |-> IF r \in Orphans THEN "failed" ELSE result[r]]
    /\ txQueue' = IF txPc = "dead" THEN <<>> ELSE txQueue
    /\ rxQueue' = IF rxPc = "dead" THEN <<>> ELSE rxQueue
    /\ UNCHANGED <<cacheVars, sessions, bound, phase, running, asked, got,
                   arriving, txVars, rxVars, net>>

\* The end of dnbd_shutdown.
StateOff ==
    /\ phase = "ended" /\ running
    /\ running' = FALSE
    /\ UNCHANGED <<cacheVars, sessions, bound, phase, clearing, asleep, late,
                   reqVars, queueVars, txVars, rxVars, net>>

\* The end of dnbd_disconnect, which waits for the number of threads to be
\* zero and not for the last one's dnbd_end_io: cache.clean.
Finish ==
    /\ phase = "ended" /\ ~running
    /\ phase' = "down"
    /\ IF bound THEN UNCHANGED cacheVars ELSE Cache!Clear
    /\ UNCHANGED <<sessions, bound, running, clearing, asleep, late, reqVars,
                   queueVars, txVars, rxVars, net>>

Next ==
    \/ \E r \in Reqs : Enqueue(r) \/ \E a \in Asks : DoRequest(r, a)
    \/ Tx
    \/ \E m \in Replies : RxMatch(m) \/ RxCache(m)
    \/ RxEnd \/ RxExit
    \/ \E k \in DOMAIN rxQueue : Requeue(k)
    \/ \E x \in Blocks : ServerReply(x)
    \/ \E m \in Replies : Overhear(m)
    \/ Lose
    \/ Start \/ StartTx \/ Disconnect \/ LateStop \/ ClearQueues \/ StateOff \/ Finish

Spec == Init /\ [][Next]_vars

\* The timer comes back to each request, but not always before the sender has
\* sent it; the servers answer, in less time than the timeout, again and again
\* what is asked again and again, and the receiver gets such a reply; whoever
\* is at work, or has been told to end, goes on.
RequeueOf(r) == \E k \in DOMAIN rxQueue : rxQueue[k] = r /\ Requeue(k)

SendInTime(r) == txReq = r /\ r \in Range(rxQueue) /\ TxSend

ReplyInTime(x) ==
    /\ \E r \in Range(rxQueue) : Sector(r) = x
    /\ ServerReply(x)

FairSpec ==
    /\ Spec
    /\ \A r \in Reqs : /\ WF_vars(Enqueue(r)) /\ WF_vars(RequeueOf(r))
                       /\ SF_vars(SendInTime(r))
    /\ \A x \in Blocks : /\ SF_vars(ReplyInTime(x))
                         /\ SF_vars(RxMatch([blk |-> x, full |-> TRUE]))
    /\ WF_vars(Tx) /\ SF_vars(TxExit)
    /\ WF_vars(RxEnd) /\ SF_vars(RxExit)
    /\ WF_vars(ClearQueues) /\ WF_vars(StateOff) /\ WF_vars(Finish)

-----------------------------------------------------------------------------
(* Properties.                                                             *)

\* Every variable has values of its kind.
TypeOK ==
    /\ sessions \in 0 .. MaxSessions
    /\ {bound, running} \subseteq BOOLEAN
    /\ {clearing, asleep, late} \subseteq 0 .. MaxSessions
    /\ phase \in Phases
    /\ result \in [Reqs -> {"idle", "waiting", "ok", "failed"}]
    /\ asked \in [Reqs -> Asks \cup {<<>>}]
    /\ got \in [Reqs -> Seq(Blocks)]
    /\ arriving \subseteq Reqs
    /\ txQueue \in Seq(Reqs) /\ rxQueue \in Seq(Reqs)
    /\ txPc \in {"dead", "idle", "search", "hit", "miss", "send"}
    /\ txReq \in Reqs \cup {None}
    /\ rxPc \in {"dead", "recv", "copied"}
    /\ rxReq \in Reqs \cup {None} /\ rxGot \in Seq(Blocks)
    /\ requests \subseteq Blocks /\ replies \subseteq Replies
    /\ lru \in Seq(Blocks) /\ Len(lru) <= MaxBlocks
    /\ held \in [Blocks -> Blocks \cup {None}]

\* What the threads have in hand.  The sender has given away what it sends.
TxHeld == IF txPc \in {"search", "hit", "miss"} THEN {txReq} ELSE {}
RxHeld == IF rxPc = "copied" THEN {rxReq} ELSE {}

\* A request that waits is in one place - on its way to the sender's queue,
\* in a queue or in a thread's hands - so that it is neither ended twice nor
\* forgotten by the threads, the timer and the end of a session (queue.c;
\* main.c dnbd_clear_queues); one that has been ended is nowhere.
OneHolder ==
    LET queued == Range(txQueue)
        sent == Range(rxQueue)
    IN /\ Waiting = arriving \cup queued \cup sent \cup TxHeld \cup RxHeld
       /\ IsInjective(txQueue) /\ IsInjective(rxQueue)
       /\ arriving \cap (queued \cup sent \cup TxHeld \cup RxHeld) = {}
       /\ queued \cap (sent \cup TxHeld \cup RxHeld) = {}
       /\ sent \cap (TxHeld \cup RxHeld) = {}
       /\ TxHeld \cap RxHeld = {}

\* A read that succeeds has its own blocks in its buffer, in their order,
\* whether they came out of the cache or out of replies to anyone, and one
\* that goes on has those before the block that is asked for next (req->sector
\* in dnbd_deq_request_handle, dnbd_cache_search and dnbd_send_request).
RightData ==
    \A r \in Reqs :
        /\ Len(got[r]) <= Len(asked[r])
        /\ \A k \in DOMAIN got[r] : got[r][k] = asked[r][k]
        /\ result[r] = "ok" => Len(got[r]) = Len(asked[r])

\* Read by read the client is a ReadService, whatever the queues, the cache, the
\* timer, the network and the ends of sessions do: a block is copied into a read
\* that waits, and at its place, a read is ended once, and the emptying of the
\* queues (dnbd_clear_queues), which may come as late as in the next session,
\* fails no read while both threads run to serve it.
Alive(pc) == IF pc = "dead" THEN 0 ELSE 1
Service == INSTANCE ReadService WITH threads <- Alive(txPc) + Alive(rxPc)
ImplementsReadService == Service!Spec

\* What the threads remember of the request in hand, and what the cache holds.
LocalsInv ==
    /\ \A r \in Waiting : Len(got[r]) < Len(asked[r])
    /\ txPc \in {"search", "hit", "miss", "send"} => txReq \in Reqs
    /\ txPc = "hit" => answer[2] = Sector(txReq)
    /\ rxPc = "copied" => rxReq \in Reqs /\ rxGot \in {<<>>, <<Sector(rxReq)>>}
    /\ \A x \in Blocks : held[x] \in {x, None}

\* Which threads there are in each phase, and how many calls of dnbd_end_io and
\* dnbd_do_it the sessions so far can have left.
SessionInv ==
    /\ txPc = "dead" <=> phase \in {"down", "starting", "rx", "ended"}
    /\ rxPc = "dead" <=> phase \in {"down", "ended"}
    /\ clearing + (IF rxPc = "dead" THEN 0 ELSE 1) <= sessions
    /\ asleep + late + (IF phase = "starting" THEN 1 ELSE 0) <= sessions

\* The inductive invariant from which the safety properties are proved; the
\* first four parts are about reads.
ReadsInv == TypeOK /\ OneHolder /\ RightData /\ LocalsInv
IInv == ReadsInv /\ SessionInv

\* While the session goes on a read is answered, though requests and replies
\* are lost, come too late or are meant for others, as long as no other read
\* waits for the same block: of those the newest is answered.
Answered ==
    \A r \in Reqs :
        (result[r] = "waiting" /\ phase = "up") ~>
            \/ result[r] # "waiting" \/ phase # "up"
            \/ \E q \in Waiting \ {r} : Sector(q) = Sector(r)

\* A session that is being ended comes to its end: the threads, of which each
\* is waited for, stop, and the last of them empties the queues.
Ends == (phase = "tx" ~> phase = "down") /\ (clearing > 0 ~> clearing = 0)

\* Not so: when a session is over nobody waits for it.  A request that was
\* past the test of the state stays in the sender's queue.
NobodyLeft ==
    phase = "down" /\ clearing = 0 => txQueue = <<>> /\ rxQueue = <<>>

\* Not so: a session that nobody disconnects goes on.
SessionKept == bound => phase \in {"starting", "up"}

\* Not so with Smp: the last thread can empty the queues.
NoSelfLock == clearing > 0 => ENABLED ClearQueues
=============================================================================
