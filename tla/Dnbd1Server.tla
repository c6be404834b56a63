----------------------------- MODULE Dnbd1Server -----------------------------
(***************************************************************************)
(* The server of the first DNBD (src/contrib/dnbd/trunk/server, query.c    *)
(* with net_rx, net_tx and filer_readblock): a thread that receives        *)
(* queries into a ring of slots and handler threads that answer them by    *)
(* multicast.  A read that another client has asked for before is dropped, *)
(* as the reply to that one serves both ("burst avoidance").               *)
(*                                                                         *)
(* An action is what happens with query_mutex held, or between two         *)
(* accesses to shared data.  The receiver writes into a slot, and handlers *)
(* read their own, without the mutex.                                      *)
(***************************************************************************)
EXTENDS Integers, Sequences

CONSTANTS
    Queries,     \* what clients send: see below
    Handlers,    \* handler threads; NUM_HANDLER_THREADS is 1
    MaxQueries,  \* slots of the ring (max_queries)
    MaxTime,     \* bound: seconds
    None

\* A query has the client's address, a position (that of a heartbeat is 0),
\* whether it is a read (of MAX_BLOCK_SIZE bytes at most) or a heartbeat, and
\* whether it is for any server or for this one.
ASSUME ServerAssumption ==
    /\ \A x \in Queries : DOMAIN x = {"client", "pos", "read", "here"}
    /\ None \notin Queries
    /\ MaxQueries \in Nat /\ MaxQueries >= 2
    /\ MaxTime \in Nat

VARIABLES
    ring,              \* query of each slot
    raw,               \* slots whose query is still in network byte order
    time,              \* query->time of each slot: of the reply, if any
    nextQuery, lastQuery, numQueries,
    rxPc, rxNext,      \* query_add_loop: place, tmp_query
    pc, slot,          \* query_handle_loop: place and query of each handler
    now,               \* time(NULL)
    heard              \* history: positions all clients have been sent, or
                       \* were asked of another server or in a heartbeat,
                       \* since slot 1 was taken

indices == <<nextQuery, lastQuery, numQueries>>
rxVars == <<rxPc, rxNext>>
handlerVars == <<pc, slot>>
vars == <<ring, raw, time, indices, rxVars, handlerVars, now, heard>>

Slots == 0 .. MaxQueries - 1

\* n % max_queries, of an n below twice max_queries.
Wrap(n) == IF n < MaxQueries THEN n ELSE n - MaxQueries

Succ(i) == Wrap(i + 1)
Positions == {x.pos : x \in Queries}

\* The times of a new ring are whatever malloc left there: past or future.
Init ==
    /\ ring = [i \in Slots |-> None] /\ raw = {}
    /\ \E t \in {0, MaxTime + 2} : time = [i \in Slots |-> t]
    /\ nextQuery = 0 /\ lastQuery = 0 /\ numQueries = 0
    /\ rxPc = "test" /\ rxNext = 0
    /\ pc = [h \in Handlers |-> "loop"] /\ slot = [h \in Handlers |-> 0]
    /\ now = 0
    /\ heard = {}

-----------------------------------------------------------------------------
(* query_add_loop.                                                         *)

\* Mutant: the ring may be filled to the last slot.
RxTestLate ==
    /\ rxPc = "test"
    /\ rxNext' = Succ(nextQuery)
    /\ rxPc' = IF numQueries = MaxQueries THEN "test" ELSE "recv"
    /\ UNCHANGED <<ring, raw, time, indices, handlerVars, now, heard>>

\* One slot is left empty, so that a full ring differs from an empty one.
RxTest ==
    /\ rxPc = "test"
    /\ rxNext' = Succ(nextQuery)
    /\ rxPc' = IF rxNext' = lastQuery THEN "test" ELSE "recv"
    /\ UNCHANGED <<ring, raw, time, indices, handlerVars, now, heard>>

\* net_rx; what has not the size of a query is overwritten by the next one.
RxRecv(x) ==
    /\ rxPc = "recv"
    /\ ring' = [ring EXCEPT ![nextQuery] = x]
    /\ raw' = raw \cup {nextQuery}
    /\ rxPc' \in {"recv", "publish"}
    /\ UNCHANGED <<time, indices, rxNext, handlerVars, now, heard>>

RxPublish ==
    /\ rxPc = "publish"
    /\ nextQuery' = rxNext
    /\ numQueries' = numQueries + 1
    /\ rxPc' = "signal"
    /\ UNCHANGED <<ring, raw, time, lastQuery, rxNext, handlerVars, now, heard>>

\* pthread_cond_signal, after the mutex has been released.
RxSignal ==
    /\ rxPc = "signal"
    /\ rxPc' = "test"
    /\ \/ \E h \in Handlers :
            /\ pc[h] = "wait"
            /\ pc' = [pc EXCEPT ![h] = "loop"]
       \/ /\ \A h \in Handlers : pc[h] # "wait"
          /\ UNCHANGED pc
    /\ UNCHANGED <<ring, raw, time, indices, rxNext, slot, now, heard>>

-----------------------------------------------------------------------------
(* query_handle_loop, query_get, query_handle.                             *)

\* query_get.  That there is a query when num_queries says so is part of what
\* ImplementsRequestQueue states.
Take(h) ==
    /\ pc[h] = "loop" /\ numQueries > 0 /\ lastQuery # nextQuery
    /\ slot' = [slot EXCEPT ![h] = lastQuery]
    /\ lastQuery' = Succ(lastQuery)
    /\ numQueries' = numQueries - 1
    /\ pc' = [pc EXCEPT ![h] = "handle"]
    /\ heard' = IF lastQuery = 1 THEN {} ELSE heard
    /\ UNCHANGED <<ring, raw, time, nextQuery, rxVars, now>>

\* Mutant: a handler waits without a look at num_queries.
WaitFirst(h) ==
    /\ pc[h] = "loop"
    /\ pc' = [pc EXCEPT ![h] = "wait"]
    /\ UNCHANGED <<ring, raw, time, indices, rxVars, slot, now, heard>>

\* pthread_cond_wait.
Wait(h) ==
    /\ pc[h] = "loop" /\ numQueries = 0
    /\ pc' = [pc EXCEPT ![h] = "wait"]
    /\ UNCHANGED <<ring, raw, time, indices, rxVars, slot, now, heard>>

Query(h) == ring[slot[h]]

\* The query is converted in its slot.  A heartbeat is answered, one for
\* another server is not.
Handle(h) ==
    /\ pc[h] = "handle"
    /\ raw' = raw \ {slot[h]}
    /\ IF Query(h).here /\ Query(h).read
       THEN /\ pc' = [pc EXCEPT ![h] = "search"]
            /\ UNCHANGED heard
       ELSE /\ pc' = [pc EXCEPT ![h] = "loop"]
            /\ heard' = heard \cup {Query(h).pos}
    /\ UNCHANGED <<ring, time, indices, rxVars, slot, now>>

\* The slots before the handler's, the one before first.
Probe(i) == Wrap(lastQuery + (MaxQueries - i))

\* In network byte order 0 is the only position that reads the same.
SamePos(h, j) ==
    /\ ring[j] # None
    /\ Query(h).pos = ring[j].pos
    /\ j \in raw => ring[j].pos = 0

\* Where the search comes to an end; slot 0 is never compared with.
Oldest(j) == j = 0 \/ time[j] - now > 1

\* Mutant: the search goes on past slot 0.
BurstAround(h) ==
    \E i \in 2 .. MaxQueries - 1 :
        /\ SamePos(h, Probe(i))
        /\ ring[Probe(i)].client # Query(h).client
        /\ \A j \in 2 .. i - 1 : ~SamePos(h, Probe(j))

\* The last query for the same position was another client's.
Burst(h) ==
    \E i \in 2 .. MaxQueries - 1 :
        /\ SamePos(h, Probe(i))
        /\ ring[Probe(i)].client # Query(h).client
        /\ ~Oldest(Probe(i))
        /\ \A j \in 2 .. i - 1 : ~Oldest(Probe(j)) /\ ~SamePos(h, Probe(j))

Drop(h) ==
    /\ pc[h] = "search" /\ Burst(h)
    /\ pc' = [pc EXCEPT ![h] = "loop"]
    /\ UNCHANGED <<ring, raw, time, indices, rxVars, slot, now, heard>>

Keep(h) ==
    /\ pc[h] = "search" /\ ~Burst(h)
    /\ pc' = [pc EXCEPT ![h] = "reply"]
    /\ UNCHANGED <<ring, raw, time, indices, rxVars, slot, now, heard>>

\* filer_readblock and net_tx.
Reply(h) ==
    /\ pc[h] = "reply"
    /\ time' = [time EXCEPT ![slot[h]] = now]
    /\ heard' = heard \cup {Query(h).pos}
    /\ pc' = [pc EXCEPT ![h] = "loop"]
    /\ UNCHANGED <<ring, raw, indices, rxVars, slot, now>>

Handler(h) ==
    Take(h) \/ Wait(h) \/ Handle(h) \/ Drop(h) \/ Keep(h) \/ Reply(h)

Tick ==
    /\ now < MaxTime
    /\ now' = now + 1
    /\ UNCHANGED <<ring, raw, time, indices, rxVars, handlerVars, heard>>

Next ==
    \/ RxTest \/ RxPublish \/ RxSignal
    \/ \E x \in Queries : RxRecv(x)
    \/ \E h \in Handlers : Handler(h)
    \/ Tick

\* Threads run; the receiver, which asks for the mutex again and again while
\* the ring is full, does not keep it from the handlers for ever.
FairSpec ==
    /\ Init /\ [][Next]_vars
    /\ WF_vars(RxTest \/ RxPublish \/ RxSignal)
    /\ \A h \in Handlers : SF_vars(Handler(h))

Spec == Init /\ [][Next]_vars

-----------------------------------------------------------------------------
(* Properties.                                                             *)

\* Every variable has values of its kind; indices and counter stay within the
\* ring (query.c:68, 107-108).
TypeOK ==
    /\ ring \in [Slots -> Queries \cup {None}] /\ raw \subseteq Slots
    /\ time \in [Slots -> Nat]
    /\ nextQuery \in Slots /\ lastQuery \in Slots
    /\ numQueries \in 0 .. MaxQueries - 1
    /\ rxPc \in {"test", "recv", "publish", "signal"} /\ rxNext \in Slots
    /\ pc \in [Handlers -> {"loop", "wait", "handle", "search", "reply"}]
    /\ slot \in [Handlers -> Slots]
    /\ now \in 0 .. MaxTime
    /\ heard \subseteq Positions

Busy(h) == pc[h] \in {"handle", "search", "reply"}

\* The slot of the i-th query that waits.
Pending(i) == Wrap(lastQuery + i - 1)

Queue == INSTANCE RequestQueue WITH
           Capacity <- MaxQueries - 1,
           waiting <- [i \in 1 .. numQueries |-> ring[Pending(i)]],
           hand <- [h \in Handlers |-> IF Busy(h) THEN Query(h) ELSE None]

\* With one handler the ring is a queue: num_queries counts it, so that
\* query_get finds a query (query.c:104); queries are handled once and in
\* order; and although the slot is free for the receiver from query_get on,
\* the query in hand is not overwritten, as the slot before last_query is the
\* one that a full ring leaves empty (query.c:68).
ImplementsRequestQueue == Queue!Spec

\* A read is dropped only if its position has been multicast, or asked of
\* another server or in a heartbeat, since slot 1 was taken: dropped reads are
\* never what other reads are dropped for alone, so that clients that ask for
\* one block in turns cannot go unanswered for more than a lap of the ring.
\* Not so in slot 0 or with a receiver that is a lap ahead and overwrites
\* what is compared (query.c:183-217).
DropHeard ==
    [][\A h \in Handlers :
          Drop(h) /\ slot[h] # 0 /\ (slot[h] < nextQuery \/ nextQuery = 0)
             => Query(h).pos \in heard]_vars

\* No query waits for ever while the handlers sleep: no signal is lost between
\* num_queries and pthread_cond_wait (query.c:79-89, 277-294).  As queries are
\* taken in order, each gets its turn.
Handled == numQueries > 0 ~> \E h \in Handlers : Busy(h)

\* query.c:192 says of the search that it looks at the last second only.
\* Not so: an older query stops no search.
OneSecond ==
    [][\A h \in Handlers :
          Drop(h) => \E j \in Slots : SamePos(h, j) /\ now - time[j] <= 1]_vars

\* query.c:203 asks whether someone has requested the block before.  Not so: a
\* heartbeat is taken for a request for block 0.
OnlyReads ==
    [][\A h \in Handlers :
          Drop(h) => \E j \in Slots \ {slot[h]} : SamePos(h, j) /\ ring[j].read]_vars
=============================================================================
