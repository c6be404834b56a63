------------------------- MODULE Dnbd1Server_proofs -------------------------
(***************************************************************************)
(* Proofs about Dnbd1Server.  Types hold with any number of handler        *)
(* threads; that the ring is a queue, with one.                            *)
(***************************************************************************)
EXTENDS Dnbd1Server, SequenceTheorems, TLAPS

\* num_queries counts the slots from last_query to next_query, and each of
\* them holds a query; so do the slots in the hands of the threads.
RingInv ==
    /\ TypeOK
    /\ nextQuery = Wrap(lastQuery + numQueries)
    /\ rxPc \in {"recv", "publish"} =>
          rxNext = Succ(nextQuery) /\ numQueries < MaxQueries - 1
    /\ rxPc = "publish" => ring[nextQuery] \in Queries
    /\ \A i \in 1 .. numQueries : ring[Pending(i)] \in Queries
    /\ \A h \in Handlers : Busy(h) => ring[slot[h]] \in Queries

\* What one handler works on is in the slot before last_query.
InHand == \A h \in Handlers : Busy(h) => Succ(slot[h]) = lastQuery

-----------------------------------------------------------------------------
(* The arithmetic of the ring.                                             *)

LEMMA WrapSlots ==
    /\ \A n \in 0 .. MaxQueries + MaxQueries - 1 : Wrap(n) \in Slots
    /\ \A i \in Slots : Succ(i) \in Slots
  BY ServerAssumption DEF Wrap, Succ, Slots

\* The slots that wait are distinct from each other and from next_query.
LEMMA PendingSlots ==
    ASSUME NEW l \in Slots, NEW n \in 0 .. MaxQueries - 1
    PROVE  /\ \A i \in 1 .. n : /\ Wrap(l + i - 1) \in Slots
                                /\ Wrap(l + i - 1) # Wrap(l + n)
           /\ n < MaxQueries - 1 => Wrap(l + (n + 1)) = Succ(Wrap(l + n))
           /\ n > 0 => /\ Wrap(Succ(l) + (n - 1)) = Wrap(l + n)
                       /\ \A i \in 1 .. n - 1 :
                             Wrap(Succ(l) + i - 1) = Wrap(l + (i + 1) - 1)
           /\ Succ(Wrap(l + n)) = l <=> n = MaxQueries - 1
           /\ Wrap(l + 1 - 1) = l
  BY ServerAssumption DEF Wrap, Succ, Slots

-----------------------------------------------------------------------------
(* Steps.                                                                  *)

LEMMA InitRing == Init => RingInv /\ InHand
<1> SUFFICES ASSUME Init PROVE RingInv /\ InHand
  OBVIOUS
<1>1. TypeOK
  <2>1. \E t \in Nat : time = [i \in Slots |-> t]
    BY ServerAssumption DEF Init
  <2>2. QED
    BY <2>1, ServerAssumption DEF Init, TypeOK, Slots
<1>2. QED
  BY <1>1, ServerAssumption DEF Init, RingInv, InHand, Wrap, Busy

\* Steps that leave ring and indices alone.
LEMMA QuietStep ==
    ASSUME RingInv, UNCHANGED <<ring, indices>>, TypeOK',
           rxPc' \in {"recv", "publish"} =>
              rxNext' = Succ(nextQuery) /\ numQueries < MaxQueries - 1,
           rxPc' = "publish" => ring[nextQuery] \in Queries,
           \A h \in Handlers : Busy(h)' => Busy(h) /\ slot'[h] = slot[h]
    PROVE  RingInv' /\ (InHand => InHand')
<1>1. \A i \in 1 .. numQueries : Pending(i)' = Pending(i)
  BY DEF indices, Pending
<1>2. QED
  BY <1>1 DEF RingInv, InHand, indices, Busy, Pending

LEMMA RxTestStep ==
    ASSUME RingInv, RxTest PROVE RingInv' /\ (InHand => InHand')
<1>1. rxNext' = Succ(nextQuery) /\ Succ(nextQuery) \in Slots
  BY WrapSlots DEF RingInv, TypeOK, RxTest
<1>2. TypeOK'
  BY <1>1 DEF RingInv, TypeOK, RxTest, indices, handlerVars
<1>3. rxPc' = "recv" => numQueries < MaxQueries - 1
  <2>1. nextQuery = Wrap(lastQuery + numQueries)
    BY DEF RingInv
  <2>2. lastQuery \in Slots /\ numQueries \in 0 .. MaxQueries - 1
    BY DEF RingInv, TypeOK
  <2>3. Succ(nextQuery) = lastQuery <=> numQueries = MaxQueries - 1
    BY <2>1, <2>2, PendingSlots
  <2>4. QED
    BY <1>1, <2>2, <2>3, ServerAssumption DEF RxTest
<1>4. rxPc' \in {"test", "recv"}
  BY DEF RxTest
<1>5. \A h \in Handlers : Busy(h)' => Busy(h) /\ slot'[h] = slot[h]
  BY DEF RxTest, handlerVars, Busy
<1>6. QED
  BY <1>1, <1>2, <1>3, <1>4, <1>5, QuietStep DEF RxTest

\* The slot that is written is neither one that waits nor, with one handler,
\* the one in hand.
LEMMA RxRecvStep ==
    ASSUME RingInv, NEW x \in Queries, RxRecv(x)
    PROVE  /\ RingInv' /\ (InHand => InHand')
           /\ \A i \in 1 .. numQueries : ring'[Pending(i)] = ring[Pending(i)]
           /\ InHand => \A h \in Handlers :
                           Busy(h) => ring'[slot[h]] = ring[slot[h]]
<1>1. /\ nextQuery \in Slots /\ lastQuery \in Slots
      /\ numQueries \in 0 .. MaxQueries - 1 /\ numQueries < MaxQueries - 1
      /\ nextQuery = Wrap(lastQuery + numQueries)
      /\ ring \in [Slots -> Queries \cup {None}]
  BY DEF RingInv, TypeOK, RxRecv
<1>2. /\ ring' = [ring EXCEPT ![nextQuery] = x]
      /\ rxPc' \in {"recv", "publish"}
      /\ UNCHANGED <<time, indices, rxNext, handlerVars, now, heard>>
  BY DEF RxRecv
<1>3. TypeOK'
  <2>1. ring' \in [Slots -> Queries \cup {None}] /\ raw' \subseteq Slots
    BY <1>1 DEF RingInv, TypeOK, RxRecv
  <2>2. QED
    BY <1>2, <2>1 DEF RingInv, TypeOK, indices, handlerVars
<1>4. \A i \in 1 .. numQueries : Pending(i) \in Slots /\ Pending(i) # nextQuery
  BY <1>1, PendingSlots DEF Pending
<1>5. \A i \in 1 .. numQueries : ring'[Pending(i)] = ring[Pending(i)]
  BY <1>1, <1>2, <1>4
<1>6. Succ(nextQuery) # lastQuery
  <2>1. Succ(nextQuery) = lastQuery <=> numQueries = MaxQueries - 1
    BY <1>1, PendingSlots
  <2>2. QED
    BY <1>1, <2>1
<1>7. \A h \in Handlers : slot[h] \in Slots
  BY DEF RingInv, TypeOK
<1>8. InHand => \A h \in Handlers : Busy(h) => ring'[slot[h]] = ring[slot[h]]
  BY <1>1, <1>2, <1>6, <1>7 DEF InHand
<1>9. RingInv'
  <2>1. \A h \in Handlers : Busy(h)' => ring'[slot'[h]] \in Queries
    BY <1>1, <1>2, <1>7 DEF RingInv, Busy, handlerVars
  <2>2. \A i \in 1 .. numQueries' : ring'[Pending(i)'] \in Queries
    BY <1>2, <1>5 DEF RingInv, indices, Pending
  <2>3. ring'[nextQuery'] = x
    BY <1>1, <1>2 DEF indices
  <2>4. rxNext' = Succ(nextQuery)' /\ nextQuery' = Wrap(lastQuery + numQueries)'
    BY <1>1, <1>2 DEF RingInv, RxRecv, indices, Succ, Wrap
  <2>5. QED
    BY <1>1, <1>2, <1>3, <2>1, <2>2, <2>3, <2>4 DEF RingInv, indices
<1>10. InHand => InHand'
  BY <1>2 DEF InHand, Busy, handlerVars, indices
<1>11. QED
  BY <1>5, <1>8, <1>9, <1>10

\* The query that has been received becomes the last that waits.
LEMMA RxPublishStep ==
    ASSUME RingInv, RxPublish PROVE RingInv' /\ (InHand => InHand')
<1>1. /\ lastQuery \in Slots /\ numQueries \in 0 .. MaxQueries - 1
      /\ numQueries < MaxQueries - 1
      /\ nextQuery = Wrap(lastQuery + numQueries)
      /\ rxNext = Succ(nextQuery) /\ ring[nextQuery] \in Queries
  BY DEF RingInv, TypeOK, RxPublish
<1>2. /\ nextQuery' = rxNext /\ numQueries' = numQueries + 1
      /\ rxPc' = "signal"
      /\ UNCHANGED <<ring, raw, time, lastQuery, rxNext, handlerVars, now, heard>>
  BY DEF RxPublish
<1>3. TypeOK'
  <2>1. nextQuery' \in Slots /\ numQueries' \in 0 .. MaxQueries - 1
    BY <1>1, <1>2, WrapSlots, ServerAssumption DEF RingInv, TypeOK
  <2>2. QED
    BY <1>2, <2>1 DEF RingInv, TypeOK, handlerVars
<1>4. nextQuery' = Wrap(lastQuery' + numQueries')
  BY <1>1, <1>2, PendingSlots
<1>5. \A i \in 1 .. numQueries' : ring'[Pending(i)'] \in Queries
  <2>1. SUFFICES ASSUME NEW i \in 1 .. numQueries + 1
                 PROVE  ring[Pending(i)] \in Queries
    BY <1>2 DEF Pending
  <2>2. CASE i = numQueries + 1
    <3>1. Pending(i) = nextQuery
      BY <1>1, <2>2 DEF Pending, Slots
    <3>2. QED
      BY <1>1, <3>1
  <2>3. CASE i # numQueries + 1
    BY <1>1, <2>3 DEF RingInv
  <2>4. QED
    BY <2>2, <2>3
<1>6. \A h \in Handlers : Busy(h)' => ring'[slot'[h]] \in Queries
  BY <1>2 DEF RingInv, Busy, handlerVars
<1>7. RingInv'
  BY <1>2, <1>3, <1>4, <1>5, <1>6 DEF RingInv
<1>8. InHand => InHand'
  BY <1>2 DEF InHand, Busy, handlerVars
<1>9. QED
  BY <1>7, <1>8

LEMMA RxSignalStep ==
    ASSUME RingInv, RxSignal PROVE RingInv' /\ (InHand => InHand')
<1>1. pc' \in [Handlers -> {"loop", "wait", "handle", "search", "reply"}]
  BY DEF RingInv, TypeOK, RxSignal
<1>2. TypeOK'
  BY <1>1 DEF RingInv, TypeOK, RxSignal, indices
<1>3. \A h \in Handlers : Busy(h)' => Busy(h) /\ slot'[h] = slot[h]
  BY DEF RingInv, TypeOK, RxSignal, Busy
<1>4. rxPc' = "test" /\ UNCHANGED <<ring, indices>>
  BY DEF RxSignal
<1>5. QED
  BY <1>2, <1>3, <1>4, QuietStep

\* The oldest query goes from those that wait to the handler.
LEMMA TakeStep ==
    ASSUME RingInv, NEW h \in Handlers, Take(h)
    PROVE  /\ RingInv'
           /\ \A i \in 1 .. numQueries' : Pending(i)' = Pending(i + 1)
           /\ slot'[h] = Pending(1)
           /\ Handlers = {h} => InHand'
<1>1. /\ lastQuery \in Slots /\ numQueries \in 0 .. MaxQueries - 1
      /\ numQueries > 0
      /\ nextQuery = Wrap(lastQuery + numQueries)
      /\ slot \in [Handlers -> Slots]
      /\ pc \in [Handlers -> {"loop", "wait", "handle", "search", "reply"}]
  BY DEF RingInv, TypeOK, Take
<1>2. /\ slot' = [slot EXCEPT ![h] = lastQuery]
      /\ lastQuery' = Succ(lastQuery)
      /\ numQueries' = numQueries - 1
      /\ pc' = [pc EXCEPT ![h] = "handle"]
      /\ heard' = (IF lastQuery = 1 THEN {} ELSE heard)
      /\ UNCHANGED <<ring, raw, time, nextQuery, rxVars, now>>
  BY DEF Take
<1>3. TypeOK'
  <2>1. /\ lastQuery' \in Slots /\ numQueries' \in 0 .. MaxQueries - 1
        /\ slot' \in [Handlers -> Slots]
        /\ pc' \in [Handlers -> {"loop", "wait", "handle", "search", "reply"}]
    BY <1>1, <1>2, WrapSlots, ServerAssumption
  <2>2. heard' \subseteq Positions
    BY <1>2 DEF RingInv, TypeOK
  <2>3. QED
    BY <1>2, <2>1, <2>2 DEF RingInv, TypeOK, rxVars
<1>4. nextQuery' = Wrap(lastQuery' + numQueries')
  BY <1>1, <1>2, PendingSlots
<1>5. \A i \in 1 .. numQueries' : Pending(i)' = Pending(i + 1)
  BY <1>1, <1>2, PendingSlots DEF Pending
<1>6. slot'[h] = Pending(1) /\ ring[Pending(1)] \in Queries
  <2>1. Pending(1) = lastQuery /\ 1 \in 1 .. numQueries
    BY <1>1, PendingSlots DEF Pending
  <2>2. QED
    BY <1>1, <1>2, <2>1 DEF RingInv
<1>7. \A i \in 1 .. numQueries' : ring'[Pending(i)'] \in Queries
  <2>1. SUFFICES ASSUME NEW i \in 1 .. numQueries' PROVE ring'[Pending(i)'] \in Queries
    OBVIOUS
  <2>2. i + 1 \in 1 .. numQueries
    BY <1>1, <1>2
  <2>3. QED
    BY <1>2, <1>5, <2>2 DEF RingInv
<1>8. \A g \in Handlers : Busy(g)' => ring'[slot'[g]] \in Queries
  <2>1. SUFFICES ASSUME NEW g \in Handlers, Busy(g)' PROVE ring[slot'[g]] \in Queries
    BY <1>2
  <2>2. CASE g = h
    BY <1>6, <2>2
  <2>3. CASE g # h
    BY <1>1, <1>2, <2>1, <2>3 DEF RingInv, Busy
  <2>4. QED
    BY <2>2, <2>3
<1>9. RingInv'
  <2>1. rxPc' \in {"recv", "publish"} =>
          rxNext' = Succ(nextQuery)' /\ numQueries' < MaxQueries - 1
    BY <1>1, <1>2, ServerAssumption DEF RingInv, rxVars, Succ, Wrap
  <2>2. rxPc' = "publish" => ring'[nextQuery'] \in Queries
    BY <1>2 DEF RingInv, rxVars
  <2>3. QED
    BY <1>3, <1>4, <1>7, <1>8, <2>1, <2>2 DEF RingInv
<1>10. Handlers = {h} => InHand'
  BY <1>1, <1>2 DEF InHand, Succ, Wrap
<1>11. QED
  BY <1>5, <1>6, <1>9, <1>10

\* The other steps of a handler.
LEMMA HandlerStep ==
    ASSUME RingInv, NEW h \in Handlers,
           Wait(h) \/ Handle(h) \/ Drop(h) \/ Keep(h) \/ Reply(h)
    PROVE  /\ RingInv' /\ (InHand => InHand')
           /\ UNCHANGED <<ring, indices, slot>>
           /\ \A g \in Handlers \ {h} : pc'[g] = pc[g]
<1> DEFINE Places == {"loop", "wait", "handle", "search", "reply"}
<1>1. UNCHANGED <<ring, indices, rxVars, slot, now>>
  BY DEF Wait, Handle, Drop, Keep, Reply
<1>2. pc \in [Handlers -> Places] /\ slot \in [Handlers -> Slots]
  BY DEF RingInv, TypeOK
<1>3. \E p \in Places : /\ pc' = [pc EXCEPT ![h] = p]
                        /\ p \in {"handle", "search", "reply"} => Busy(h)
  BY DEF Wait, Handle, Drop, Keep, Reply, Busy
<1>4. pc' \in [Handlers -> Places] /\ \A g \in Handlers \ {h} : pc'[g] = pc[g]
  BY <1>2, <1>3
<1>5. Busy(h) => Query(h).pos \in Positions
  BY DEF RingInv, Query, Positions
<1>6. heard' \subseteq Positions
  BY <1>5 DEF RingInv, TypeOK, Wait, Handle, Drop, Keep, Reply, Busy
<1>7. raw' \subseteq Slots
  BY DEF RingInv, TypeOK, Wait, Handle, Drop, Keep, Reply
<1>8. time' \in [Slots -> Nat]
  BY <1>2 DEF RingInv, TypeOK, Wait, Handle, Drop, Keep, Reply
<1>9. TypeOK'
  BY <1>1, <1>4, <1>6, <1>7, <1>8 DEF RingInv, TypeOK, indices, rxVars
<1>10. \A g \in Handlers : Busy(g)' => Busy(g) /\ slot'[g] = slot[g]
  BY <1>1, <1>2, <1>3 DEF Busy
<1>11. /\ rxPc' \in {"recv", "publish"} =>
              rxNext' = Succ(nextQuery) /\ numQueries < MaxQueries - 1
       /\ rxPc' = "publish" => ring[nextQuery] \in Queries
  BY <1>1 DEF RingInv, rxVars
<1>12. QED
  BY <1>1, <1>4, <1>9, <1>10, <1>11, QuietStep

LEMMA TickStep ==
    ASSUME RingInv, Tick \/ UNCHANGED vars PROVE RingInv' /\ (InHand => InHand')
<1>1. UNCHANGED <<ring, raw, time, indices, rxVars, handlerVars, heard>>
  BY DEF Tick, vars
<1>2. now' \in 0 .. MaxTime
  BY ServerAssumption DEF RingInv, TypeOK, Tick, vars
<1>3. TypeOK'
  BY <1>1, <1>2 DEF RingInv, TypeOK, indices, rxVars, handlerVars
<1>4. /\ \A h \in Handlers : Busy(h)' => Busy(h) /\ slot'[h] = slot[h]
      /\ rxPc' \in {"recv", "publish"} =>
            rxNext' = Succ(nextQuery) /\ numQueries < MaxQueries - 1
      /\ rxPc' = "publish" => ring[nextQuery] \in Queries
  BY <1>1 DEF RingInv, Busy, rxVars, handlerVars
<1>5. QED
  BY <1>1, <1>3, <1>4, QuietStep

LEMMA NextRing == RingInv /\ [Next]_vars => RingInv'
<1> SUFFICES ASSUME RingInv, [Next]_vars PROVE RingInv'
  OBVIOUS
<1>1. CASE RxTest
  BY <1>1, RxTestStep
<1>2. CASE \E x \in Queries : RxRecv(x)
  BY <1>2, RxRecvStep
<1>3. CASE RxPublish
  BY <1>3, RxPublishStep
<1>4. CASE RxSignal
  BY <1>4, RxSignalStep
<1>5. CASE \E h \in Handlers : Handler(h)
  BY <1>5, TakeStep, HandlerStep DEF Handler
<1>6. CASE Tick \/ UNCHANGED vars
  BY <1>6, TickStep
<1>7. QED
  BY <1>1, <1>2, <1>3, <1>4, <1>5, <1>6 DEF Next

LEMMA RingInvariance == Spec => []RingInv
<1>1. QED
  BY InitRing, NextRing, PTL DEF Spec

\* Whatever the number of threads, every variable has values of its kind, and
\* indices and counter stay within the ring.
THEOREM TypeCorrect == Spec => []TypeOK
<1>1. RingInv => TypeOK
  BY DEF RingInv
<1>2. QED
  BY RingInvariance, <1>1, PTL

-----------------------------------------------------------------------------
(* With one handler, the ring is a queue.                                  *)

Waiting == [i \in 1 .. numQueries |-> ring[Pending(i)]]
Hand == [h \in Handlers |-> IF Busy(h) THEN Query(h) ELSE None]

LEMMA NextInHand ==
    ASSUME \E h : Handlers = {h}
    PROVE  RingInv /\ InHand /\ [Next]_vars => InHand'
<1> SUFFICES ASSUME RingInv, InHand, [Next]_vars PROVE InHand'
  OBVIOUS
<1>1. CASE \E h \in Handlers : Handler(h)
  <2>1. PICK h \in Handlers : Handler(h)
    BY <1>1
  <2>2. Handlers = {h}
    OBVIOUS
  <2>3. QED
    BY <2>1, <2>2, TakeStep, HandlerStep DEF Handler
<1>2. CASE RxTest \/ RxPublish \/ RxSignal \/ \E x \in Queries : RxRecv(x)
  BY <1>2, RxTestStep, RxPublishStep, RxSignalStep, RxRecvStep
<1>3. CASE Tick \/ UNCHANGED vars
  BY <1>3, TickStep
<1>4. QED
  BY <1>1, <1>2, <1>3 DEF Next

LEMMA WaitingSeq ==
    ASSUME RingInv
    PROVE  Waiting \in Seq(Queries) /\ Len(Waiting) = numQueries
  BY DEF RingInv, TypeOK, Waiting

\* Steps that the abstract queue does not see.
LEMMA UnseenStep ==
    ASSUME numQueries' = numQueries,
           \A i \in 1 .. numQueries : ring'[Pending(i)'] = ring[Pending(i)],
           \A h \in Handlers : /\ Busy(h)' <=> Busy(h)
                               /\ Busy(h) => Query(h)' = Query(h)
    PROVE  UNCHANGED Queue!vars
<1>1. Waiting' = Waiting
  BY DEF Waiting
<1>2. Hand' = Hand
  BY DEF Hand
<1>3. QED
  BY <1>1, <1>2 DEF Waiting, Hand, Queue!vars

LEMMA ArriveStep ==
    ASSUME RingInv, RxPublish PROVE Queue!Arrive(ring[nextQuery])
<1>1. /\ lastQuery \in Slots /\ numQueries \in 0 .. MaxQueries - 1
      /\ numQueries < MaxQueries - 1
      /\ nextQuery = Wrap(lastQuery + numQueries)
      /\ ring[nextQuery] \in Queries
  BY DEF RingInv, TypeOK, RxPublish
<1>2. /\ numQueries' = numQueries + 1
      /\ UNCHANGED <<ring, lastQuery, pc, slot>>
  BY DEF RxPublish, handlerVars
<1>3. \A i \in 1 .. numQueries + 1 : Pending(i)' = Pending(i)
  BY <1>2 DEF Pending
<1>4. Pending(numQueries + 1) = nextQuery
  BY <1>1 DEF Pending, Slots
<1>5. Waiting' = [i \in 1 .. numQueries + 1 |-> ring[Pending(i)]]
  BY <1>2, <1>3 DEF Waiting
<1>6. Waiting' = Append(Waiting, ring[nextQuery])
  <2>1. Waiting \in Seq(Queries) /\ Len(Waiting) = numQueries
    BY WaitingSeq
  <2> DEFINE app == Append(Waiting, ring[nextQuery])
  <2>2. /\ app \in Seq(Queries) /\ Len(app) = numQueries + 1
        /\ \A i \in 1 .. numQueries : app[i] = Waiting[i]
        /\ app[numQueries + 1] = ring[nextQuery]
    BY <1>1, <2>1, AppendProperties
  <2>3. app = [i \in 1 .. numQueries + 1 |-> app[i]]
    BY <2>2
  <2> HIDE DEF app
  <2>4. \A i \in 1 .. numQueries + 1 : app[i] = ring[Pending(i)]
    BY <1>1, <1>4, <2>2 DEF Waiting
  <2>5. app = [i \in 1 .. numQueries + 1 |-> ring[Pending(i)]]
    BY <2>3, <2>4
  <2>6. QED
    BY <1>5, <2>5 DEF app
<1>7. Hand' = Hand
  BY <1>2 DEF Hand, Busy, Query
<1>8. Len(Waiting) < MaxQueries - 1
  BY <1>1, WaitingSeq
<1>9. QED
  BY <1>6, <1>7, <1>8 DEF Queue!Arrive, Waiting, Hand

LEMMA TakeOldest ==
    ASSUME RingInv, NEW h \in Handlers, Take(h) PROVE Queue!Take(h)
<1>1. /\ numQueries \in Nat /\ numQueries > 0 /\ numQueries' = numQueries - 1
      /\ pc \in [Handlers -> {"loop", "wait", "handle", "search", "reply"}]
      /\ slot \in [Handlers -> Slots]
      /\ pc[h] = "loop" /\ pc' = [pc EXCEPT ![h] = "handle"]
      /\ slot' = [slot EXCEPT ![h] = lastQuery] /\ ring' = ring
  BY DEF RingInv, TypeOK, Take
<1>2. /\ \A i \in 1 .. numQueries' : Pending(i)' = Pending(i + 1)
      /\ slot'[h] = Pending(1)
  BY TakeStep
<1>3. Waiting \in Seq(Queries) /\ Len(Waiting) = numQueries
  BY WaitingSeq
<1>4. Waiting # <<>> /\ Head(Waiting) = ring[Pending(1)]
  BY <1>1, <1>3 DEF Waiting
<1>5. Waiting' = Tail(Waiting)
  <2> DEFINE rest == Tail(Waiting)
  <2>1. /\ rest \in Seq(Queries) /\ Len(rest) = numQueries - 1
        /\ \A i \in 1 .. numQueries - 1 : rest[i] = Waiting[i + 1]
    BY <1>1, <1>3, <1>4, HeadTailProperties
  <2> HIDE DEF rest
  <2>2. rest = [i \in 1 .. numQueries - 1 |-> rest[i]]
    BY <2>1, <1>1
  <2>3. ASSUME NEW i \in 1 .. numQueries - 1
        PROVE  rest[i] = ring[Pending(i + 1)]
    <3>1. i + 1 \in 1 .. numQueries
      BY <1>1
    <3>2. rest[i] = Waiting[i + 1]
      BY <2>1
    <3>3. QED
      BY <3>1, <3>2 DEF Waiting
  <2>4. Waiting' = [i \in 1 .. numQueries - 1 |-> ring[Pending(i + 1)]]
    BY <1>1, <1>2 DEF Waiting
  <2>5. QED
    BY <2>2, <2>3, <2>4 DEF rest
<1>6. Hand[h] = None
  BY <1>1 DEF Hand, Busy
<1>7. Hand' = [Hand EXCEPT ![h] = ring[Pending(1)]]
  <2>1. Busy(h)' /\ Query(h)' = ring[Pending(1)]
    BY <1>1, <1>2 DEF Busy, Query
  <2>2. \A g \in Handlers \ {h} : (Busy(g)' <=> Busy(g)) /\ Query(g)' = Query(g)
    BY <1>1 DEF Busy, Query
  <2>3. QED
    BY <2>1, <2>2 DEF Hand
<1>8. QED
  BY <1>4, <1>5, <1>6, <1>7 DEF Queue!Take, Waiting, Hand

\* A handler that is done, or goes on with the query in hand.
LEMMA HandlerSeen ==
    ASSUME RingInv, NEW h \in Handlers,
           Wait(h) \/ Handle(h) \/ Drop(h) \/ Keep(h) \/ Reply(h)
    PROVE  Queue!Done(h) \/ UNCHANGED Queue!vars
<1>1. /\ UNCHANGED <<ring, numQueries, lastQuery, slot>>
      /\ \A g \in Handlers \ {h} : pc'[g] = pc[g]
  BY HandlerStep DEF indices
<1>2. Waiting' = Waiting
  BY <1>1 DEF Waiting, Pending
<1>3. \A g \in Handlers \ {h} : (Busy(g)' <=> Busy(g)) /\ Query(g)' = Query(g)
  BY <1>1 DEF Busy, Query
<1>4. Query(h)' = Query(h)
  BY <1>1 DEF Query
<1>5. Busy(h)' => Busy(h)
  BY DEF RingInv, TypeOK, Wait, Handle, Drop, Keep, Reply, Busy
<1>6. CASE Busy(h)' <=> Busy(h)
  <2>1. Hand' = Hand
    BY <1>3, <1>4, <1>6 DEF Hand
  <2>2. QED
    BY <1>2, <2>1 DEF Waiting, Hand, Queue!vars
<1>7. CASE Busy(h) /\ ~Busy(h)'
  <2>1. Query(h) \in Queries /\ None \notin Queries
    BY <1>7, ServerAssumption DEF RingInv, Query
  <2>2. Hand[h] # None
    BY <1>7, <2>1 DEF Hand
  <2>3. Hand' = [Hand EXCEPT ![h] = None]
    BY <1>3, <1>7 DEF Hand
  <2>4. QED
    BY <1>2, <2>2, <2>3 DEF Queue!Done, Waiting, Hand
<1>8. QED
  BY <1>5, <1>6, <1>7

LEMMA RefinementStep ==
    ASSUME RingInv, InHand, [Next]_vars PROVE [Queue!Next]_(Queue!vars)
<1> DEFINE Goal == Queue!Next \/ UNCHANGED Queue!vars
<1>1. CASE RxPublish
  <2>1. ring[nextQuery] \in Queries
    BY <1>1 DEF RingInv, RxPublish
  <2>2. QED
    BY <1>1, <2>1, ArriveStep DEF Queue!Next
<1>2. ASSUME NEW h \in Handlers, Handler(h) PROVE Goal
  <2>1. CASE Take(h)
    BY <2>1, TakeOldest DEF Queue!Next
  <2>2. CASE Wait(h) \/ Handle(h) \/ Drop(h) \/ Keep(h) \/ Reply(h)
    BY <2>2, HandlerSeen DEF Queue!Next
  <2>3. QED
    BY <1>2, <2>1, <2>2 DEF Handler
<1>3. ASSUME NEW x \in Queries, RxRecv(x) PROVE Goal
  <2>1. UNCHANGED <<numQueries, lastQuery, pc, slot>>
    BY <1>3 DEF RxRecv, indices, handlerVars
  <2>2. \A i \in 1 .. numQueries : ring'[Pending(i)'] = ring[Pending(i)]
    BY <1>3, <2>1, RxRecvStep DEF Pending
  <2>3. \A h \in Handlers : /\ Busy(h)' <=> Busy(h)
                            /\ Busy(h) => Query(h)' = Query(h)
    BY <1>3, <2>1, RxRecvStep DEF Busy, Query
  <2>4. QED
    BY <2>1, <2>2, <2>3, UnseenStep
<1>4. CASE RxTest \/ Tick \/ UNCHANGED vars
  <2>1. UNCHANGED <<ring, numQueries, lastQuery, pc, slot>>
    BY <1>4 DEF RxTest, Tick, vars, indices, handlerVars
  <2>2. QED
    BY <2>1, UnseenStep DEF Pending, Busy, Query
<1>5. CASE RxSignal
  <2>1. UNCHANGED <<ring, numQueries, lastQuery, slot>>
    BY <1>5 DEF RxSignal, indices
  <2>2. \A h \in Handlers : Busy(h)' <=> Busy(h)
    BY <1>5 DEF RingInv, TypeOK, RxSignal, Busy
  <2>3. QED
    BY <2>1, <2>2, UnseenStep DEF Pending, Query
<1>6. QED
  BY <1>1, <1>2, <1>3, <1>4, <1>5 DEF Next

\* With one handler, as the server is built, queries are handled once, in
\* order and as they arrived: the ring implements the queue, whatever its size.
THEOREM Refinement ==
    ASSUME \E h : Handlers = {h} PROVE Spec => ImplementsRequestQueue
<1>1. Init => Queue!Init
  <2> SUFFICES ASSUME Init PROVE Queue!Init
    OBVIOUS
  <2>1. Waiting = <<>>
    BY DEF Init, Waiting
  <2>2. Hand = [h \in Handlers |-> None]
    BY DEF Init, Hand, Busy
  <2>3. QED
    BY <2>1, <2>2 DEF Queue!Init, Waiting, Hand
<1>2. Init => InHand
  BY InitRing
<1>3. RingInv /\ InHand /\ [Next]_vars => InHand'
  BY NextInHand
<1>4. RingInv /\ InHand /\ [Next]_vars => [Queue!Next]_(Queue!vars)
  BY RefinementStep
<1>5. QED
  BY RingInvariance, <1>1, <1>2, <1>3, <1>4, PTL
     DEF Spec, ImplementsRequestQueue, Queue!Spec

-----------------------------------------------------------------------------
(* With one handler, what a read is dropped for has been heard.            *)

\* The slot that is handled or comes next.
Turn(h) == IF Busy(h) THEN slot[h] ELSE lastQuery

\* The receiver is not a lap ahead of the handler.
SameLap(h) ==
    Turn(h) + (IF Busy(h) THEN 1 ELSE 0) + numQueries <= MaxQueries

\* The slots from 1 on that were handled in this lap are still there, and
\* their positions were heard.
HeardInv ==
    \A h \in Handlers :
        Turn(h) > 0 /\ SameLap(h) =>
            \A j \in 1 .. Turn(h) - 1 : ring[j].pos \in heard

LEMMA TurnFacts ==
    ASSUME RingInv, InHand, NEW h \in Handlers
    PROVE  /\ Turn(h) \in Slots /\ lastQuery \in Slots /\ nextQuery \in Slots
           /\ numQueries \in 0 .. MaxQueries - 1
           /\ nextQuery = Wrap(lastQuery + numQueries)
           /\ Busy(h) => slot[h] \in Slots /\ lastQuery = Succ(slot[h])
  BY DEF RingInv, TypeOK, InHand, Turn

\* The search stops at slot 0: what it finds was handled in this lap.
LEMMA BurstHeard ==
    ASSUME RingInv, InHand, HeardInv, NEW h \in Handlers,
           Busy(h), Burst(h), slot[h] # 0, SameLap(h)
    PROVE  Query(h).pos \in heard
<1>1. PICK i \in 2 .. MaxQueries - 1 :
         /\ SamePos(h, Probe(i)) /\ Probe(i) # 0
         /\ \A j \in 2 .. i - 1 : Probe(j) # 0
  BY DEF Burst, Oldest
<1>2. /\ slot[h] \in 1 .. MaxQueries - 1 /\ lastQuery = Succ(slot[h])
      /\ MaxQueries \in Nat
  BY TurnFacts, ServerAssumption DEF Slots
<1>3. \A j \in 2 .. MaxQueries - 1 :
         Probe(j) = IF j <= slot[h] + 1 THEN slot[h] + 1 - j
                    ELSE slot[h] + 1 - j + MaxQueries
  BY <1>2 DEF Probe, Succ, Wrap
<1>4. i <= slot[h]
  <2>1. CASE i = slot[h] + 1
    BY <1>1, <1>2, <1>3, <2>1
  <2>2. CASE i > slot[h] + 1
    <3>1. slot[h] + 1 \in 2 .. i - 1 /\ slot[h] + 1 \in 2 .. MaxQueries - 1
      BY <1>1, <1>2, <2>2
    <3>2. Probe(slot[h] + 1) = 0
      BY <1>2, <1>3, <3>1
    <3>3. QED
      BY <1>1, <3>1, <3>2
  <2>3. QED
    BY <1>1, <1>2, <2>1, <2>2
<1>5. Probe(i) \in 1 .. Turn(h) - 1
  BY <1>1, <1>2, <1>3, <1>4 DEF Turn
<1>6. ring[Probe(i)].pos \in heard
  BY <1>2, <1>5 DEF HeardInv, Turn
<1>7. QED
  BY <1>1, <1>6 DEF SamePos

\* Steps that leave the handler in its place.
LEMMA HeardKept ==
    ASSUME HeardInv, RingInv, InHand, NEW h \in Handlers, Handlers = {h},
           Turn(h)' = Turn(h), SameLap(h)' => SameLap(h), heard \subseteq heard',
           SameLap(h) => \A j \in 1 .. Turn(h) - 1 : ring'[j] = ring[j]
    PROVE  HeardInv'
  BY DEF HeardInv

LEMMA RxHeard ==
    ASSUME HeardInv, RingInv, InHand, NEW h \in Handlers, Handlers = {h},
           RxTest \/ RxPublish \/ RxSignal \/ \E x \in Queries : RxRecv(x)
    PROVE  HeardInv'
<1>1. UNCHANGED <<slot, lastQuery, heard>>
  BY DEF RxTest, RxPublish, RxSignal, RxRecv, handlerVars, indices
<1>2. Busy(h)' <=> Busy(h)
  BY DEF RingInv, TypeOK, RxTest, RxPublish, RxSignal, RxRecv, handlerVars, Busy
<1>3. Turn(h)' = Turn(h)
  BY <1>1, <1>2 DEF Turn
<1>4. numQueries' \in {numQueries, numQueries + 1}
  BY DEF RxTest, RxPublish, RxSignal, RxRecv, indices
<1>5. SameLap(h)' => SameLap(h)
  BY <1>2, <1>3, <1>4, TurnFacts, ServerAssumption DEF SameLap, Slots
<1>6. ASSUME SameLap(h), NEW j \in 1 .. Turn(h) - 1 PROVE ring'[j] = ring[j]
  <2>1. j # nextQuery
    BY <1>6, TurnFacts, ServerAssumption DEF SameLap, Turn, Slots, Succ, Wrap
  <2>2. j \in Slots
    BY TurnFacts, ServerAssumption DEF Slots
  <2>3. QED
    BY <2>1, <2>2 DEF RingInv, TypeOK, RxTest, RxPublish, RxSignal, RxRecv
<1>7. QED
  BY <1>1, <1>3, <1>5, <1>6, HeardKept

LEMMA TakeHeard ==
    ASSUME HeardInv, RingInv, InHand, NEW h \in Handlers, Handlers = {h}, Take(h)
    PROVE  HeardInv'
<1>1. /\ ~Busy(h) /\ Busy(h)' /\ slot'[h] = lastQuery /\ ring' = ring
      /\ numQueries' = numQueries - 1
      /\ heard' = IF lastQuery = 1 THEN {} ELSE heard
  BY DEF RingInv, TypeOK, Take, Busy
<1>2. Turn(h)' = Turn(h) /\ Turn(h) = lastQuery
  BY <1>1 DEF Turn
<1>3. SameLap(h)' => SameLap(h)
  BY <1>1, <1>2, TurnFacts, ServerAssumption DEF SameLap, Slots
<1>4. CASE lastQuery = 1
  BY <1>2, <1>4 DEF HeardInv
<1>5. CASE lastQuery # 1
  BY <1>1, <1>2, <1>3, <1>5, HeardKept
<1>6. QED
  BY <1>4, <1>5

LEMMA HandlerHeard ==
    ASSUME HeardInv, RingInv, InHand, NEW h \in Handlers, Handlers = {h},
           Wait(h) \/ Handle(h) \/ Drop(h) \/ Keep(h) \/ Reply(h)
    PROVE  HeardInv'
<1>1. UNCHANGED <<ring, indices, slot>>
  BY HandlerStep
<1>2. heard \subseteq heard' /\ (Busy(h)' => Busy(h))
  BY DEF RingInv, TypeOK, Wait, Handle, Drop, Keep, Reply, Busy
<1>3. CASE Busy(h)' <=> Busy(h)
  <2>1. Turn(h)' = Turn(h) /\ SameLap(h)' = SameLap(h)
    BY <1>1, <1>3 DEF Turn, SameLap, indices
  <2>2. QED
    BY <1>1, <1>2, <2>1, HeardKept
<1>4. CASE Busy(h) /\ ~Busy(h)'
  <2>1. /\ Turn(h) = slot[h] /\ Turn(h)' = lastQuery
        /\ lastQuery = Succ(slot[h]) /\ slot[h] \in Slots
        /\ numQueries' = numQueries
    BY <1>1, <1>4, TurnFacts DEF Turn, indices
  <2>2. SUFFICES ASSUME lastQuery > 0, SameLap(h)', NEW j \in 1 .. lastQuery - 1
                 PROVE  ring[j].pos \in heard'
    BY <1>1, <2>1 DEF HeardInv
  <2>3. SameLap(h) /\ lastQuery = slot[h] + 1 /\ slot[h] > 0
    BY <1>4, <2>1, <2>2, TurnFacts, ServerAssumption
       DEF SameLap, Slots, Succ, Wrap
  <2>4. CASE j = slot[h]
    <3>1. Drop(h) => Query(h).pos \in heard
      BY <1>4, <2>3, BurstHeard DEF Drop
    <3>2. Query(h).pos \in heard'
      BY <1>2, <1>4, <3>1 DEF Wait, Handle, Keep, Reply, Busy, RingInv, TypeOK
    <3>3. QED
      BY <2>4, <3>2 DEF Query
  <2>5. CASE j # slot[h]
    <3>1. j \in 1 .. Turn(h) - 1 /\ Turn(h) > 0
      BY <2>1, <2>2, <2>3, <2>5 DEF Slots
    <3>2. QED
      BY <1>2, <2>3, <3>1 DEF HeardInv
  <2>6. QED
    BY <2>4, <2>5
<1>5. QED
  BY <1>2, <1>3, <1>4

LEMMA NextHeard ==
    ASSUME \E h : Handlers = {h}
    PROVE  RingInv /\ InHand /\ HeardInv /\ [Next]_vars => HeardInv'
<1> SUFFICES ASSUME RingInv, InHand, HeardInv, [Next]_vars PROVE HeardInv'
  OBVIOUS
<1>1. PICK h \in Handlers : Handlers = {h}
  OBVIOUS
<1>2. CASE \E g \in Handlers : Handler(g)
  BY <1>1, <1>2, TakeHeard, HandlerHeard DEF Handler
<1>3. CASE RxTest \/ RxPublish \/ RxSignal \/ \E x \in Queries : RxRecv(x)
  BY <1>1, <1>3, RxHeard
<1>4. CASE Tick \/ UNCHANGED vars
  <2>1. UNCHANGED <<ring, indices, pc, slot, heard>>
    BY <1>4 DEF Tick, vars, handlerVars
  <2>2. HeardInv' = HeardInv
    BY <2>1 DEF HeardInv, Turn, SameLap, Busy, indices
  <2>3. QED
    BY <2>2
<1>5. QED
  BY <1>2, <1>3, <1>4 DEF Next

LEMMA DropStep ==
    ASSUME RingInv, InHand, HeardInv, NEW h \in Handlers, Drop(h),
           slot[h] # 0, slot[h] < nextQuery \/ nextQuery = 0
    PROVE  Query(h).pos \in heard
<1>1. Busy(h) /\ Burst(h)
  BY DEF Drop, Busy
<1>2. SameLap(h)
  BY <1>1, TurnFacts, ServerAssumption DEF SameLap, Turn, Slots, Succ, Wrap
<1>3. QED
  BY <1>1, <1>2, BurstHeard

\* query_handle's burst avoidance (query.c:183-217) drops a read only for a
\* position that has been sent to all clients, or asked of another server or
\* in a heartbeat, since slot 1 was taken, whatever the size of the ring.
THEOREM DropsAreHeard ==
    ASSUME \E h : Handlers = {h} PROVE Spec => DropHeard
<1>1. Init => InHand /\ HeardInv
  <2>1. Init => HeardInv
    BY DEF Init, HeardInv, Turn, Busy
  <2>2. QED
    BY <2>1, InitRing
<1>2. RingInv /\ InHand /\ [Next]_vars => InHand'
  BY NextInHand
<1>3. RingInv /\ InHand /\ HeardInv /\ [Next]_vars => HeardInv'
  BY NextHeard
<1> DEFINE Right ==
        \A h \in Handlers :
            Drop(h) /\ slot[h] # 0 /\ (slot[h] < nextQuery \/ nextQuery = 0)
               => Query(h).pos \in heard
<1>4. RingInv /\ InHand /\ HeardInv => [Right]_vars
  BY DropStep
<1>5. QED
  BY RingInvariance, <1>1, <1>2, <1>3, <1>4, PTL DEF Spec, DropHeard
=============================================================================
