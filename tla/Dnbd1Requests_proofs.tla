------------------------ MODULE Dnbd1Requests_proofs ------------------------
(***************************************************************************)
(* Proofs of the safety properties of Dnbd1Requests, for every number of   *)
(* requests, blocks and sessions, on one processor or several.             *)
(***************************************************************************)
EXTENDS Dnbd1Requests, QueueLemmas

\* What a request asks for is a sequence of blocks.
LEMMA AskedSeq ==
    ASSUME TypeOK, NEW r \in Reqs
    PROVE  asked[r] \in Seq(Blocks) /\ got[r] \in Seq(Blocks)
<1>1. asked[r] \in Asks \cup {<<>>}
  BY DEF TypeOK
<1>2. <<>> \in Seq(Blocks)
  OBVIOUS
<1>3. QED
  BY <1>1, <1>2, ClientAssumption DEF TypeOK

\* The block that is asked for next is one of the image.
LEMMA SectorBlock ==
    ASSUME TypeOK, LocalsInv, NEW r \in Waiting
    PROVE  r \in Reqs /\ Sector(r) \in Blocks
<1>1. r \in Reqs /\ Len(got[r]) < Len(asked[r])
  BY DEF LocalsInv, Waiting
<1>2. asked[r] \in Seq(Blocks) /\ got[r] \in Seq(Blocks)
  BY <1>1, AskedSeq
<1>3. Len(got[r]) + 1 \in 1 .. Len(asked[r])
  BY <1>1, <1>2
<1>4. QED
  BY <1>1, <1>2, <1>3 DEF Sector

\* The first state.
LEMMA InitIInv == Init => IInv
<1> SUFFICES ASSUME Init PROVE IInv
  OBVIOUS
<1>1. TypeOK
  <2>1. <<>> \in Seq(Reqs) /\ <<>> \in Seq(Blocks) /\ Len(<<>>) = 0
    OBVIOUS
  <2>2. MaxBlocks \in Nat /\ 0 \in 0 .. MaxSessions
    BY ClientAssumption
  <2>3. lru \in Seq(Blocks) /\ Len(lru) <= MaxBlocks
    BY <2>1, <2>2 DEF Init, Cache!Init
  <2>4. QED
    BY <2>1, <2>2, <2>3 DEF Init, Cache!Init, TypeOK, Phases
<1>2. Waiting = {}
  BY DEF Init, Waiting
<1>3. OneHolder
  BY <1>2, EmptyRange DEF Init, OneHolder, TxHeld, RxHeld
<1>4. RightData
  BY DEF Init, RightData
<1>5. LocalsInv
  BY <1>2 DEF Init, Cache!Init, LocalsInv
<1>6. SessionInv
  BY DEF Init, SessionInv
<1>7. QED
  BY <1>1, <1>3, <1>4, <1>5, <1>6 DEF IInv, ReadsInv

\* The invariant but for the queues and the cache, where no request changes
\* and none changes hands.
LEMMA HoldersUnchanged ==
    ASSUME UNCHANGED <<asked, got, arriving, queueVars>>,
           UNCHANGED <<txReq, rxReq, rxGot>>,
           Waiting' = Waiting, TxHeld' = TxHeld, RxHeld' = RxHeld, OneHolder
    PROVE  OneHolder'
  BY DEF OneHolder, queueVars

\* Steps of the network, of the state of the session and of the cache.
LEMMA CacheStep ==
    ASSUME ReadsInv, NEW m \in Replies,
           \/ Cache!Refresh(m.blk) \/ Cache!Store(m.blk, m.blk)
           \/ Cache!Replace(m.blk, m.blk) \/ Cache!Drop \/ Cache!Clear
           \/ UNCHANGED cacheVars
    PROVE  /\ lru' \in Seq(Blocks) /\ Len(lru') <= MaxBlocks
           /\ held' \in [Blocks -> Blocks \cup {None}]
           /\ \A x \in Blocks : held'[x] \in {x, None}
           /\ answer' = answer
<1> DEFINE x == m.blk
<1>1. /\ lru \in Seq(Blocks) /\ Len(lru) <= MaxBlocks /\ x \in Blocks
      /\ held \in [Blocks -> Blocks \cup {None}]
      /\ \A y \in Blocks : held[y] \in {y, None}
      /\ MaxBlocks \in Nat \ {0}
  BY ClientAssumption DEF ReadsInv, TypeOK, LocalsInv, Replies
<1> HIDE DEF x
<1>a. ASSUME NEW rest \in Seq(Blocks)
      PROVE  <<x>> \o rest \in Seq(Blocks) /\ Len(<<x>> \o rest) = Len(rest) + 1
  <2>1. <<x>> \in Seq(Blocks) /\ Len(<<x>>) = 1
    BY <1>1
  <2>2. QED
    BY <2>1, ConcatProperties
<1>b. Len(lru) = MaxBlocks =>
        Cache!Front(lru) \in Seq(Blocks)
          /\ Len(Cache!Front(lru)) = Len(lru) - 1
  BY <1>1 DEF Cache!Front
<1>2. CASE Cache!Refresh(x)
  <2>1. PICK k \in DOMAIN lru :
          lru[k] = x /\ lru' = <<x>> \o Cache!RemoveAt(lru, k)
    BY <1>2 DEF Cache!Refresh
  <2>2. k \in 1 .. Len(lru) /\ Len(lru) \in Nat
    BY <1>1
  <2>3. PICK left : left = SubSeq(lru, 1, k - 1)
    OBVIOUS
  <2>4. PICK right : right = SubSeq(lru, k + 1, Len(lru))
    OBVIOUS
  <2>5. left \in Seq(Blocks) /\ Len(left) = k - 1
    BY <1>1, <2>2, <2>3
  <2>6. right \in Seq(Blocks) /\ Len(right) = Len(lru) - k
    BY <1>1, <2>2, <2>4
  <2>7. left \o right \in Seq(Blocks) /\ Len(left \o right) = Len(lru) - 1
    BY <2>2, <2>5, <2>6, ConcatProperties
  <2>8. lru' = <<x>> \o (left \o right)
    BY <2>1, <2>3, <2>4 DEF Cache!RemoveAt
  <2>9. lru' \in Seq(Blocks) /\ Len(lru') = Len(lru)
    BY <1>a, <2>2, <2>7, <2>8
  <2>10. QED
    BY <1>1, <1>2, <2>9 DEF Cache!Refresh
<1>3. CASE Cache!Store(x, x)
  <2>1. lru' \in Seq(Blocks) /\ Len(lru') = Len(lru) + 1 /\ Len(lru) < MaxBlocks
    BY <1>1, <1>3, <1>a DEF Cache!Store
  <2>2. QED
    BY <1>1, <1>3, <2>1 DEF Cache!Store
<1>4. CASE Cache!Replace(x, x)
  <2>1. lru' \in Seq(Blocks) /\ Len(lru') = Len(lru)
    BY <1>1, <1>4, <1>a, <1>b DEF Cache!Replace
  <2>2. QED
    BY <1>1, <1>4, <2>1 DEF Cache!Replace
<1>5. CASE Cache!Drop
  <2>1. /\ Len(lru) = MaxBlocks /\ lru' = Cache!Front(lru)
        /\ held' = [held EXCEPT ![Cache!Last(lru)] = None]
        /\ answer' = answer
    BY <1>5 DEF Cache!Drop
  <2>2. lru' \in Seq(Blocks) /\ Len(lru') = Len(lru) - 1
    BY <1>b, <2>1
  <2>3. Len(lru') <= MaxBlocks
    BY <1>1, <2>1, <2>2
  <2>4. PICK y : y = Cache!Last(lru)
    OBVIOUS
  <2>5. held' = [held EXCEPT ![y] = None]
    BY <2>1, <2>4
  <2>6. /\ held' \in [Blocks -> Blocks \cup {None}]
        /\ \A z \in Blocks : held'[z] \in {z, None}
    BY <1>1, <2>5
  <2>7. QED
    BY <2>1, <2>2, <2>3, <2>6
<1>6. CASE Cache!Clear
  BY <1>1, <1>6 DEF Cache!Clear
<1>7. CASE UNCHANGED cacheVars
  BY <1>1, <1>7 DEF cacheVars
<1>8. QED
  BY <1>2, <1>3, <1>4, <1>5, <1>6, <1>7 DEF x

\* The rest of TypeOK, for steps that leave the cache alone.
LEMMA CacheTyped ==
    ASSUME TypeOK, UNCHANGED cacheVars
    PROVE  /\ lru' \in Seq(Blocks) /\ Len(lru') <= MaxBlocks
           /\ held' \in [Blocks -> Blocks \cup {None}]
  BY DEF TypeOK, cacheVars

\* Steps in which no request changes and none changes hands.
LEMMA NoRequestStep ==
    ASSUME ReadsInv,
           UNCHANGED <<reqVars, queueVars, txReq, rxReq, rxGot, answer>>,
           \/ txPc' = txPc
           \/ {txPc, txPc'} \subseteq {"idle", "dead", "send"},
           \/ rxPc' = rxPc
           \/ {rxPc, rxPc'} \subseteq {"recv", "dead"},
           txPc' = "send" => txPc = "send",
           txPc' = "hit" => txPc = "hit",
           \A x \in Blocks : held'[x] \in {x, None}
    PROVE  OneHolder' /\ RightData' /\ LocalsInv'
<1>1. Waiting' = Waiting
  BY DEF Waiting, reqVars
<1>2. TxHeld' = TxHeld /\ RxHeld' = RxHeld
  BY DEF TxHeld, RxHeld
<1>3. OneHolder'
  BY <1>1, <1>2, HoldersUnchanged DEF ReadsInv, reqVars
<1>4. RightData'
  BY DEF ReadsInv, RightData, reqVars
<1>5. \A r \in Reqs : Sector(r)' = Sector(r)
  BY DEF Sector, reqVars
<1>6. LocalsInv'
  <2>1. \A r \in Waiting' : Len(got'[r]) < Len(asked'[r])
    BY <1>1 DEF ReadsInv, LocalsInv, reqVars
  <2>2. txPc' \in {"search", "hit", "miss", "send"} => txReq' \in Reqs
    BY DEF ReadsInv, LocalsInv
  <2>3. txPc' = "hit" => answer'[2] = Sector(txReq)'
    BY <1>5 DEF ReadsInv, LocalsInv
  <2>4. rxPc' = "copied" =>
          rxReq' \in Reqs /\ rxGot' \in {<<>>, <<Sector(rxReq)'>>}
    BY <1>5 DEF ReadsInv, LocalsInv
  <2>5. QED
    BY <2>1, <2>2, <2>3, <2>4 DEF LocalsInv
<1>7. QED
  BY <1>3, <1>4, <1>6

\* Counters are bounded by the sessions begun.
LEMMA SessionTyped ==
    ASSUME IInv, Start \/ StartTx \/ Disconnect \/ LateStop \/ StateOff \/ Finish
                   \/ TxExit \/ RxExit \/ ClearQueues
    PROVE  /\ sessions' \in 0 .. MaxSessions
           /\ {bound', running'} \subseteq BOOLEAN
           /\ {clearing', asleep', late'} \subseteq 0 .. MaxSessions
           /\ phase' \in Phases
<1>1. /\ MaxSessions \in Nat /\ sessions \in 0 .. MaxSessions
      /\ bound \in BOOLEAN /\ running \in BOOLEAN
      /\ clearing \in 0 .. MaxSessions /\ asleep \in 0 .. MaxSessions
      /\ late \in 0 .. MaxSessions /\ phase \in Phases
  BY ClientAssumption DEF IInv, ReadsInv, TypeOK
<1>2. CASE Start
  BY <1>1, <1>2 DEF Start, Phases
<1>3. CASE StartTx
  BY <1>1, <1>3 DEF IInv, SessionInv, StartTx, Phases
<1>4. CASE RxExit
  BY <1>1, <1>4 DEF IInv, SessionInv, RxExit, Phases
<1>5. CASE ClearQueues
  BY <1>1, <1>5 DEF IInv, SessionInv, ClearQueues, Phases
<1>6. CASE LateStop
  BY <1>1, <1>6 DEF LateStop, Phases
<1>7. CASE Disconnect \/ StateOff \/ Finish \/ TxExit
  BY <1>1, <1>7 DEF Disconnect, StateOff, Finish, TxExit, Phases
<1>8. QED
  BY <1>2, <1>3, <1>4, <1>5, <1>6, <1>7

\* Begin and end of a session, but for the emptying of the queues.
LEMMA SessionStep ==
    ASSUME IInv, Start \/ StartTx \/ Disconnect \/ LateStop \/ StateOff \/ Finish
                   \/ TxExit \/ RxExit
    PROVE  ReadsInv'
<1> USE DEF IInv
<1>1. /\ UNCHANGED <<reqVars, queueVars, txReq, rxReq, rxGot, answer, net>>
      /\ UNCHANGED cacheVars \/ Cache!Clear
  BY DEF Start, StartTx, Disconnect, LateStop, StateOff, Finish, TxExit, RxExit,
     cacheVars, txVars, rxVars, Cache!Clear
<1>2. /\ lru' \in Seq(Blocks) /\ Len(lru') <= MaxBlocks
      /\ held' \in [Blocks -> Blocks \cup {None}]
      /\ \A x \in Blocks : held'[x] \in {x, None}
  <2>1. CASE Cache!Clear
    <3>1. <<>> \in Seq(Blocks) /\ Len(<<>>) = 0 /\ MaxBlocks \in Nat
      BY ClientAssumption
    <3>2. QED
      BY <2>1, <3>1 DEF Cache!Clear
  <2>2. CASE UNCHANGED cacheVars
    BY <2>2 DEF ReadsInv, TypeOK, LocalsInv, cacheVars
  <2>3. QED
    BY <1>1, <2>1, <2>2
<1>3. /\ \/ txPc' = txPc
         \/ {txPc, txPc'} \subseteq {"idle", "dead"}
      /\ \/ rxPc' = rxPc
         \/ {rxPc, rxPc'} \subseteq {"recv", "dead"}
  BY DEF SessionInv, Start, StartTx, Disconnect, LateStop, StateOff, Finish,
     TxExit, RxExit, txVars, rxVars
<1>4. OneHolder' /\ RightData' /\ LocalsInv'
  BY <1>1, <1>2, <1>3, NoRequestStep
<1>5. /\ txPc' \in {"dead", "idle", "search", "hit", "miss", "send"}
      /\ rxPc' \in {"dead", "recv", "copied"}
  BY <1>3 DEF ReadsInv, TypeOK
<1>6. TypeOK'
  BY <1>1, <1>2, <1>5, SessionTyped DEF ReadsInv, TypeOK, reqVars, queueVars, net
<1>7. QED
  BY <1>4, <1>6 DEF ReadsInv

\* Datagrams.
LEMMA NetworkStep ==
    ASSUME ReadsInv,
           \/ \E x \in Blocks : ServerReply(x)
           \/ \E m \in Replies : Overhear(m)
           \/ Lose \/ TxSend
    PROVE  ReadsInv'
<1>1. /\ UNCHANGED <<cacheVars, sessionVars, reqVars, queueVars, rxVars>>
      /\ UNCHANGED txVars \/ (txPc = "send" /\ txPc' = "idle" /\ txReq' = None)
  BY DEF ServerReply, Overhear, Lose, TxSend
<1>2. requests' \subseteq Blocks /\ replies' \subseteq Replies
  <2>1. CASE \E x \in Blocks : ServerReply(x)
    <3>1. PICK x \in Blocks : ServerReply(x)
      BY <2>1
    <3>2. [blk |-> x, full |-> TRUE] \in Replies
      BY DEF Replies
    <3>3. QED
      BY <3>1, <3>2 DEF ReadsInv, TypeOK, ServerReply
  <2>2. CASE \E m \in Replies : Overhear(m)
    BY <2>2 DEF ReadsInv, TypeOK, Overhear
  <2>3. CASE Lose
    BY <2>3 DEF ReadsInv, TypeOK, Lose
  <2>4. CASE TxSend
    <3>1. txReq \in Reqs
      BY <2>4 DEF ReadsInv, LocalsInv, TxSend
    <3>2. Len(got[txReq]) < Len(asked[txReq]) => Sector(txReq) \in Blocks
      <4>1. asked[txReq] \in Seq(Blocks) /\ got[txReq] \in Seq(Blocks)
        BY <3>1, AskedSeq DEF ReadsInv
      <4>2. QED
        BY <4>1 DEF Sector
    <3>3. QED
      BY <2>4, <3>2 DEF ReadsInv, TypeOK, TxSend
  <2>5. QED
    BY <2>1, <2>2, <2>3, <2>4
<1>3. TypeOK'
  BY <1>1, <1>2 DEF ReadsInv, TypeOK, cacheVars, sessionVars, reqVars, queueVars,
     txVars, rxVars
<1>4. OneHolder' /\ RightData' /\ LocalsInv'
  <2>1. Waiting' = Waiting /\ TxHeld' = TxHeld /\ RxHeld' = RxHeld
    BY <1>1 DEF Waiting, TxHeld, RxHeld, reqVars, txVars, rxVars
  <2>2. OneHolder'
    BY <1>1, <2>1 DEF ReadsInv, OneHolder, reqVars, queueVars
  <2>3. RightData'
    BY <1>1 DEF ReadsInv, RightData, reqVars
  <2>4. \A r \in Reqs : Sector(r)' = Sector(r)
    BY <1>1 DEF Sector, reqVars
  <2>5. LocalsInv'
    BY <1>1, <2>1, <2>4 DEF ReadsInv, LocalsInv, cacheVars, sessionVars, reqVars,
       txVars, rxVars
  <2>6. QED
    BY <2>2, <2>3, <2>5
<1>5. QED
  BY <1>3, <1>4 DEF ReadsInv

\* A reply goes into the cache.
LEMMA RxCacheStep == ASSUME ReadsInv, NEW m \in Replies, RxCache(m) PROVE ReadsInv'
<1>1. /\ UNCHANGED <<sessionVars, reqVars, queueVars, txVars, rxVars, requests>>
      /\ replies' \subseteq replies
  BY DEF RxCache
<1>2. /\ lru' \in Seq(Blocks) /\ Len(lru') <= MaxBlocks
      /\ held' \in [Blocks -> Blocks \cup {None}]
      /\ \A x \in Blocks : held'[x] \in {x, None}
      /\ answer' = answer
  <2>1. m \in Replies
    BY DEF ReadsInv, TypeOK
  <2>2. \/ Cache!Refresh(m.blk) \/ Cache!Store(m.blk, m.blk)
        \/ Cache!Replace(m.blk, m.blk) \/ Cache!Drop
        \/ UNCHANGED cacheVars
    BY DEF RxCache
  <2>3. QED
    BY <2>1, <2>2, CacheStep
<1>3. TypeOK'
  BY <1>1, <1>2 DEF ReadsInv, TypeOK, sessionVars, reqVars, queueVars, txVars,
     rxVars
<1>4. OneHolder' /\ RightData' /\ LocalsInv'
  <2>1. UNCHANGED <<reqVars, queueVars, txReq, rxReq, rxGot, answer, txPc, rxPc,
                    phase>>
    BY <1>1, <1>2 DEF txVars, rxVars, sessionVars
  <2>2. /\ UNCHANGED <<reqVars, queueVars, txReq, rxReq, rxGot, answer>>
        /\ txPc' = txPc /\ rxPc' = rxPc
    BY <2>1
  <2>3. QED
    BY <1>2, <2>2, NoRequestStep
<1>5. QED
  BY <1>3, <1>4 DEF ReadsInv

\* The block layer hands a request over, or has it refused.
LEMMA DoRequestStep ==
    ASSUME ReadsInv, NEW r \in Reqs, NEW a \in Asks, DoRequest(r, a)
    PROVE  ReadsInv'
<1>1. /\ UNCHANGED <<cacheVars, sessionVars, queueVars, txVars, rxVars, net>>
      /\ TxHeld' = TxHeld /\ RxHeld' = RxHeld /\ r \notin Waiting
  BY DEF DoRequest, TxHeld, RxHeld, txVars, rxVars, Waiting
<1>2. a \in Seq(Blocks) /\ Len(a) > 0 /\ Len(<<>>) = 0 /\ <<>> \in Seq(Blocks)
  <2>1. a \in Seq(Blocks) /\ a # <<>>
    BY ClientAssumption
  <2>2. QED
    BY <2>1
<1>3. \A q \in Reqs : q # r => /\ asked'[q] = asked[q] /\ got'[q] = got[q]
                               /\ result'[q] = result[q]
  BY DEF DoRequest, ReadsInv, TypeOK
<1>4. /\ \A q \in Reqs : q # r => Sector(q)' = Sector(q)
      /\ txPc = "hit" => txReq # r /\ txReq \in Reqs
      /\ rxPc = "copied" => rxReq # r /\ rxReq \in Reqs
  BY <1>1, <1>3 DEF Sector, ReadsInv, LocalsInv, OneHolder, TxHeld, RxHeld
<1>5. CASE running
  <2>1. /\ asked' = [asked EXCEPT ![r] = a] /\ got' = [got EXCEPT ![r] = <<>>]
        /\ result' = [result EXCEPT ![r] = "waiting"]
        /\ arriving' = arriving \cup {r}
    BY <1>5 DEF DoRequest
  <2>2. Waiting' = Waiting \cup {r}
    BY <1>3, <2>1 DEF Waiting, ReadsInv, TypeOK
  <2>3. TypeOK'
    BY <1>1, <1>2, <2>1 DEF ReadsInv, TypeOK, cacheVars, sessionVars, queueVars,
       txVars, rxVars, net
  <2>4. OneHolder'
    BY <1>1, <2>1, <2>2 DEF ReadsInv, OneHolder, queueVars
  <2>5. /\ asked'[r] = a /\ got'[r] = <<>> /\ result'[r] = "waiting"
    BY <2>1 DEF ReadsInv, TypeOK
  <2>6. RightData'
    BY <1>2, <1>3, <2>5 DEF ReadsInv, RightData
  <2>7. LocalsInv'
    <3>1. \A q \in Waiting' : Len(got'[q]) < Len(asked'[q])
      BY <1>2, <1>3, <2>2, <2>5 DEF ReadsInv, LocalsInv, Waiting
    <3>2. QED
      BY <1>1, <1>4, <3>1 DEF ReadsInv, LocalsInv, cacheVars, sessionVars, txVars,
         rxVars
  <2>8. QED
    BY <2>3, <2>4, <2>6, <2>7 DEF ReadsInv
<1>6. CASE ~running
  <2>1. /\ result' = [result EXCEPT ![r] = "failed"]
        /\ UNCHANGED <<asked, got, arriving>>
    BY <1>6 DEF DoRequest
  <2>2. Waiting' = Waiting
    BY <1>1, <1>3, <2>1 DEF Waiting, ReadsInv, TypeOK
  <2>3. TypeOK'
    BY <1>1, <2>1 DEF ReadsInv, TypeOK, cacheVars, sessionVars, queueVars, txVars,
       rxVars, net
  <2>4. OneHolder'
    BY <1>1, <2>1, <2>2 DEF ReadsInv, OneHolder, queueVars
  <2>5. RightData'
    <3>1. result'[r] = "failed"
      BY <2>1 DEF ReadsInv, TypeOK
    <3>2. QED
      BY <1>3, <2>1, <3>1 DEF ReadsInv, RightData
  <2>6. LocalsInv'
    BY <1>1, <1>4, <2>1, <2>2 DEF ReadsInv, LocalsInv, cacheVars, sessionVars,
       txVars, rxVars
  <2>7. QED
    BY <2>3, <2>4, <2>5, <2>6 DEF ReadsInv
<1>7. QED
  BY <1>5, <1>6 DEF ReadsInv, TypeOK

\* Steps that only hand requests on: the contents of buffers, the session and
\* the cache stay as they are.
LEMMA HandOver ==
    ASSUME ReadsInv, UNCHANGED <<asked, got, result, cacheVars, sessionVars>>,
           OneHolder',
           arriving' \subseteq Reqs,
           txQueue' \in Seq(Reqs), rxQueue' \in Seq(Reqs),
           requests' = requests, replies' \subseteq replies,
           \/ UNCHANGED txVars
           \/ /\ txPc \notin {"dead"} /\ txReq' \in Reqs
              /\ txPc' \in {"search", "miss", "send"},
           \/ UNCHANGED rxVars
           \/ /\ rxPc # "dead" /\ rxPc' = "copied" /\ rxReq' \in Reqs
              /\ rxGot' \in {<<>>, <<Sector(rxReq')>>}
              /\ Sector(rxReq') \in Blocks
    PROVE  ReadsInv'
<1>1. \A r \in Reqs : Sector(r)' = Sector(r)
  BY DEF Sector
<1>2. Waiting' = Waiting
  BY DEF Waiting
<1>3. TypeOK'
  <2>1. /\ txPc' \in {"dead", "idle", "search", "hit", "miss", "send"}
        /\ txReq' \in Reqs \cup {None}
    BY DEF ReadsInv, TypeOK, txVars
  <2>2. /\ rxPc' \in {"dead", "recv", "copied"}
        /\ rxReq' \in Reqs \cup {None} /\ rxGot' \in Seq(Blocks)
    <3>1. Sector(rxReq') \in Blocks =>
            <<>> \in Seq(Blocks) /\ <<Sector(rxReq')>> \in Seq(Blocks)
      OBVIOUS
    <3>2. QED
      BY <3>1 DEF ReadsInv, TypeOK, rxVars
  <2>3. /\ sessions' \in 0 .. MaxSessions
        /\ {bound', running'} \subseteq BOOLEAN
        /\ {clearing', asleep', late'} \subseteq 0 .. MaxSessions
        /\ phase' \in Phases
    BY DEF ReadsInv, TypeOK, sessionVars
  <2>4. QED
    BY <2>1, <2>2, <2>3, CacheTyped DEF ReadsInv, TypeOK
<1>4. RightData'
  BY DEF ReadsInv, RightData
<1>5. LocalsInv'
  <2>1. txPc' \in {"search", "hit", "miss", "send"} => txReq' \in Reqs
    BY DEF ReadsInv, LocalsInv, txVars
  <2>2. txPc' = "hit" => answer'[2] = Sector(txReq)'
    BY <1>1 DEF ReadsInv, LocalsInv, txVars, cacheVars
  <2>3. rxPc' = "copied" =>
          rxReq' \in Reqs /\ rxGot' \in {<<>>, <<Sector(rxReq)'>>}
    <3>1. Sector(rxReq)' = asked'[rxReq'][Len(got'[rxReq']) + 1]
      BY DEF Sector
    <3>2. Sector(rxReq') = asked[rxReq'][Len(got[rxReq']) + 1]
      BY DEF Sector
    <3>3. QED
      BY <1>1, <3>1, <3>2 DEF ReadsInv, LocalsInv, rxVars
  <2>4. QED
    BY <1>2, <2>1, <2>2, <2>3 DEF ReadsInv, LocalsInv, cacheVars
<1>6. QED
  BY <1>3, <1>4, <1>5 DEF ReadsInv

\* A request reaches the sender's queue.
LEMMA EnqueueStep == ASSUME ReadsInv, NEW r \in Reqs, Enqueue(r) PROVE ReadsInv'
<1>1. /\ TxHeld' = TxHeld /\ RxHeld' = RxHeld /\ Waiting' = Waiting
      /\ arriving' = arriving \ {r} /\ r \in arriving
  BY DEF Enqueue, TxHeld, RxHeld, Waiting, txVars, rxVars
<1>2. /\ txQueue' \in Seq(Reqs)
      /\ Range(txQueue') = Range(txQueue) \cup {r}
  BY AppendRange DEF ReadsInv, TypeOK, Enqueue
<1>3. IsInjective(txQueue')
  <2>1. r \notin Range(txQueue) /\ IsInjective(txQueue)
    BY <1>1 DEF ReadsInv, OneHolder
  <2>2. QED
    BY <2>1, AppendKeepsInjective DEF ReadsInv, TypeOK, Enqueue
<1>4. OneHolder'
  BY <1>1, <1>2, <1>3 DEF ReadsInv, OneHolder, Enqueue
<1>5. QED
  <2>1. /\ UNCHANGED <<asked, got, result, cacheVars, sessionVars, txVars,
                       rxVars, rxQueue, requests, replies>>
        /\ arriving' \subseteq Reqs /\ rxQueue \in Seq(Reqs)
    BY DEF Enqueue, ReadsInv, TypeOK, net
  <2>2. QED
    BY <1>2, <1>4, <2>1, HandOver
\* The sender takes the oldest request.
LEMMA TxDequeueStep == ASSUME ReadsInv, TxDequeue PROVE ReadsInv'
<1>1. /\ txReq' \in Reqs /\ txReq' \in Range(txQueue)
      /\ txQueue' \in Seq(Reqs)
      /\ Range(txQueue') = Range(txQueue) \ {txReq'}
      /\ IsInjective(txQueue')
  BY HeadTailRange DEF ReadsInv, TypeOK, OneHolder, TxDequeue
<1>2. TxHeld = {} /\ TxHeld' = {txReq'} /\ RxHeld' = RxHeld /\ Waiting' = Waiting
  BY DEF TxDequeue, TxHeld, RxHeld, Waiting, rxVars, reqVars
<1>3. OneHolder'
  BY <1>1, <1>2 DEF ReadsInv, OneHolder, TxDequeue, reqVars
<1>4. QED
  BY <1>1, <1>3, HandOver DEF TxDequeue, ReadsInv, TypeOK, net, reqVars

\* The sender puts the request among those that await a reply.
LEMMA TxMissStep == ASSUME ReadsInv, TxMiss PROVE ReadsInv'
<1>1. /\ TxHeld = {txReq} /\ TxHeld' = {} /\ RxHeld' = RxHeld
      /\ Waiting' = Waiting /\ txReq \in Reqs
  BY DEF ReadsInv, LocalsInv, TxMiss, TxHeld, RxHeld, Waiting, rxVars, reqVars
<1>2. /\ rxQueue' \in Seq(Reqs)
      /\ Range(rxQueue') = Range(rxQueue) \cup {txReq}
  BY <1>1, AppendRange DEF ReadsInv, TypeOK, TxMiss
<1>3. IsInjective(rxQueue')
  <2>1. txReq \notin Range(rxQueue) /\ IsInjective(rxQueue)
    BY <1>1 DEF ReadsInv, OneHolder
  <2>2. QED
    BY <1>1, <2>1, AppendKeepsInjective DEF ReadsInv, TypeOK, TxMiss
<1>4. OneHolder'
  BY <1>1, <1>2, <1>3 DEF ReadsInv, OneHolder, TxMiss, reqVars
<1>5. QED
  BY <1>1, <1>2, <1>4, HandOver DEF TxMiss, ReadsInv, TypeOK, net, reqVars

\* The timer gives a request back to the sender.
LEMMA RequeueStep ==
    ASSUME ReadsInv, NEW k \in DOMAIN rxQueue, Requeue(k) PROVE ReadsInv'
<1>1. PICK r : r = rxQueue[k]
  OBVIOUS
<1>2. /\ r \in Reqs /\ r \in Range(rxQueue)
      /\ rxQueue' \in Seq(Reqs)
      /\ Range(rxQueue') = Range(rxQueue) \ {r}
      /\ IsInjective(rxQueue')
  <2>1. rxQueue \in Seq(Reqs) /\ IsInjective(rxQueue)
    BY DEF ReadsInv, TypeOK, OneHolder
  <2>2. rxQueue[k] \in Range(rxQueue) /\ rxQueue' = RemoveAt(rxQueue, k)
    BY DEF Range, Requeue
  <2>3. QED
    BY <1>1, <2>1, <2>2, RemoveAtRange
<1>3. /\ txQueue' \in Seq(Reqs)
      /\ Range(txQueue') = Range(txQueue) \cup {r}
  BY <1>1, <1>2, AppendRange DEF ReadsInv, TypeOK, Requeue
<1>4. IsInjective(txQueue')
  <2>1. r \notin Range(txQueue) /\ IsInjective(txQueue)
    BY <1>2 DEF ReadsInv, OneHolder
  <2>2. QED
    BY <1>1, <1>2, <2>1, AppendKeepsInjective DEF ReadsInv, TypeOK, Requeue
<1>5. TxHeld' = TxHeld /\ RxHeld' = RxHeld /\ Waiting' = Waiting
  BY DEF Requeue, TxHeld, RxHeld, Waiting, txVars, rxVars, reqVars
<1>6. OneHolder'
  BY <1>2, <1>3, <1>4, <1>5 DEF ReadsInv, OneHolder, Requeue, reqVars
<1>7. QED
  <2>1. /\ UNCHANGED <<asked, got, result, cacheVars, sessionVars, txVars,
                       rxVars, arriving, requests, replies>>
        /\ arriving \subseteq Reqs
    BY DEF Requeue, ReadsInv, TypeOK, net, reqVars
  <2>2. QED
    BY <1>2, <1>3, <1>6, <2>1, HandOver

\* The receiver finds the request a reply answers.
LEMMA RxMatchStep == ASSUME ReadsInv, NEW m \in Replies, RxMatch(m) PROVE ReadsInv'
<1>1. PICK k \in DOMAIN rxQueue :
        Matches(m.blk, k) /\ rxReq' = rxQueue[k] /\ rxQueue' = RemoveAt(rxQueue, k)
  BY DEF RxMatch
<1>2. /\ rxReq' \in Reqs /\ rxReq' \in Range(rxQueue)
      /\ rxQueue' \in Seq(Reqs)
      /\ Range(rxQueue') = Range(rxQueue) \ {rxReq'}
      /\ IsInjective(rxQueue')
  <2>1. rxQueue \in Seq(Reqs) /\ IsInjective(rxQueue)
    BY DEF ReadsInv, TypeOK, OneHolder
  <2>2. rxQueue[k] \in Range(rxQueue)
    BY DEF Range
  <2>3. QED
    BY <1>1, <2>1, <2>2, RemoveAtRange
<1>3. TxHeld' = TxHeld /\ RxHeld = {} /\ RxHeld' = {rxReq'} /\ Waiting' = Waiting
  BY DEF RxMatch, TxHeld, RxHeld, Waiting, txVars, reqVars
<1>4. OneHolder'
  BY <1>2, <1>3 DEF ReadsInv, OneHolder, RxMatch, reqVars
<1>5. Sector(rxReq') = m.blk /\ m.blk \in Blocks
  BY <1>1 DEF Matches, ReadsInv, TypeOK, Replies
<1>6. /\ rxPc # "dead" /\ rxPc' = "copied"
      /\ rxGot' \in {<<>>, <<Sector(rxReq')>>}
      /\ replies' \subseteq replies /\ requests' = requests
  BY <1>5 DEF RxMatch
<1>7. QED
  <2>1. /\ UNCHANGED <<asked, got, result, cacheVars, sessionVars, txVars,
                       txQueue, arriving>>
        /\ arriving \subseteq Reqs /\ txQueue \in Seq(Reqs)
    BY DEF RxMatch, ReadsInv, TypeOK, reqVars
  <2>2. QED
    BY <1>2, <1>4, <1>5, <1>6, <2>1, HandOver

\* The sender looks into the cache.
LEMMA TxSearchStep == ASSUME ReadsInv, TxSearch PROVE ReadsInv'
<1>1. /\ txReq \in Waiting /\ txReq \in Reqs /\ Sector(txReq) \in Blocks
  BY SectorBlock DEF ReadsInv, OneHolder, TxSearch, TxHeld
<1>2. /\ UNCHANGED <<lru, held, sessionVars, reqVars, queueVars, txReq, rxVars,
                     net>>
      /\ answer'[2] \in {held[Sector(txReq)], None}
      /\ txPc = "search"
      /\ txPc' = IF answer'[2] = None THEN "miss" ELSE "hit"
  BY DEF TxSearch, Cache!Get
<1>3. txPc' = "hit" => answer'[2] = Sector(txReq)
  BY <1>1, <1>2 DEF ReadsInv, LocalsInv
<1>4. TypeOK'
  BY <1>2 DEF ReadsInv, TypeOK, sessionVars, reqVars, queueVars, rxVars, net
<1>5. /\ Waiting' = Waiting /\ TxHeld' = TxHeld /\ RxHeld' = RxHeld
      /\ \A r \in Reqs : Sector(r)' = Sector(r)
  BY <1>2 DEF Waiting, TxHeld, RxHeld, Sector, reqVars, rxVars
<1>6. OneHolder'
  BY <1>2, <1>5 DEF ReadsInv, OneHolder, reqVars, queueVars
<1>7. RightData'
  BY <1>2 DEF ReadsInv, RightData, reqVars
<1>8. LocalsInv'
  BY <1>1, <1>2, <1>3, <1>5 DEF ReadsInv, LocalsInv, reqVars, rxVars
<1>9. QED
  BY <1>4, <1>6, <1>7, <1>8 DEF ReadsInv

\* A thread that has a request in hand ends it, in full or in part.
LEMMA EndRequestStep ==
    ASSUME ReadsInv, NEW r \in Waiting, NEW bs \in {<<>>, <<Sector(r)>>},
           EndRequest(r, bs), UNCHANGED asked,
           r \notin Range(txQueue)
    PROVE  /\ got' \in [Reqs -> Seq(Blocks)]
           /\ result' \in [Reqs -> {"idle", "waiting", "ok", "failed"}]
           /\ txQueue' \in Seq(Reqs) /\ IsInjective(txQueue')
           /\ RightData'
           /\ \A q \in Waiting' : Len(got'[q]) < Len(asked'[q])
           /\ \A q \in Reqs : q # r => Sector(q)' = Sector(q)
           /\ \/ /\ Waiting' = Waiting \ {r}
                 /\ Range(txQueue') = Range(txQueue)
              \/ /\ Waiting' = Waiting
                 /\ Range(txQueue') = Range(txQueue) \cup {r}
<1>1. /\ r \in Reqs /\ Sector(r) \in Blocks
      /\ asked[r] \in Seq(Blocks) /\ got[r] \in Seq(Blocks)
      /\ Len(got[r]) < Len(asked[r])
  BY SectorBlock, AskedSeq DEF ReadsInv, LocalsInv
<1>2. PICK n \in Nat : n = Len(got[r]) /\ DOMAIN got[r] = 1 .. n
  BY <1>1
<1>3. PICK g : g = got[r] \o bs
  OBVIOUS
<1>4. /\ g \in Seq(Blocks) /\ Len(g) <= Len(asked[r])
      /\ \A k \in DOMAIN g : g[k] = asked[r][k]
  <2>1. CASE bs = <<>>
    <3>1. g = got[r]
      BY <1>1, <1>3, <2>1
    <3>2. QED
      BY <1>1, <3>1 DEF ReadsInv, RightData
  <2>2. CASE bs = <<Sector(r)>>
    <3>1. bs \in Seq(Blocks) /\ Len(bs) = 1 /\ bs[1] = Sector(r)
      BY <1>1, <2>2
    <3>2. /\ g \in Seq(Blocks) /\ Len(g) = n + 1
          /\ \A k \in 1 .. n + 1 : g[k] = IF k <= n THEN got[r][k] ELSE bs[k - n]
      <4>1. PICK old : old = got[r]
        OBVIOUS
      <4>2. /\ old \in Seq(Blocks) /\ Len(old) = n /\ g = old \o bs
        BY <1>1, <1>2, <1>3, <4>1
      <4>3. /\ g \in Seq(Blocks) /\ Len(g) = Len(old) + Len(bs)
            /\ \A k \in 1 .. Len(old) + Len(bs) :
                  g[k] = IF k <= Len(old) THEN old[k] ELSE bs[k - Len(old)]
        BY <3>1, <4>2, ConcatProperties
      <4>4. QED
        BY <3>1, <4>1, <4>2, <4>3
    <3>3. \A k \in 1 .. n : got[r][k] = asked[r][k]
      BY <1>1, <1>2 DEF ReadsInv, RightData
    <3>4. g[n + 1] = asked[r][n + 1]
      BY <1>2, <3>1, <3>2 DEF Sector
    <3>5. DOMAIN g = 1 .. n + 1 /\ n + 1 <= Len(asked[r])
      BY <1>1, <1>2, <3>2
    <3>6. ASSUME NEW k \in 1 .. n + 1 PROVE g[k] = asked[r][k]
      <4>1. CASE k = n + 1
        BY <3>4, <4>1
      <4>2. CASE k # n + 1
        <5>1. k \in 1 .. n
          BY <4>2
        <5>2. QED
          BY <3>2, <3>3, <5>1
      <4>3. QED
        BY <4>1, <4>2
    <3>7. QED
      BY <3>2, <3>5, <3>6
  <2>3. QED
    BY <2>1, <2>2
<1>5. got' = [got EXCEPT ![r] = g]
  BY <1>3 DEF EndRequest
<1>6. /\ got' \in [Reqs -> Seq(Blocks)] /\ got'[r] = g
      /\ \A q \in Reqs : q # r => got'[q] = got[q]
  BY <1>1, <1>4, <1>5 DEF ReadsInv, TypeOK
<1>7. \A q \in Reqs : q # r => Sector(q)' = Sector(q)
  BY <1>6 DEF Sector
<1>8. CASE Len(g) = Len(asked[r])
  <2>1. result' = [result EXCEPT ![r] = "ok"] /\ txQueue' = txQueue
    BY <1>6, <1>8 DEF EndRequest
  <2>2. /\ result' \in [Reqs -> {"idle", "waiting", "ok", "failed"}]
        /\ result'[r] = "ok"
        /\ \A q \in Reqs : q # r => result'[q] = result[q]
    BY <1>1, <2>1 DEF ReadsInv, TypeOK
  <2>3. Waiting' = Waiting \ {r}
    BY <2>2 DEF Waiting
  <2>4. RightData'
    BY <1>4, <1>6, <1>8, <2>2 DEF ReadsInv, RightData
  <2>5. \A q \in Waiting' : Len(got'[q]) < Len(asked'[q])
    BY <1>6, <2>3 DEF ReadsInv, LocalsInv, Waiting
  <2>6. txQueue' \in Seq(Reqs) /\ IsInjective(txQueue')
    BY <2>1 DEF ReadsInv, TypeOK, OneHolder
  <2>7. QED
    BY <1>6, <1>7, <2>1, <2>2, <2>3, <2>4, <2>5, <2>6
<1>9. CASE Len(g) # Len(asked[r])
  <2>1. result' = result /\ txQueue' = Append(txQueue, r)
    BY <1>6, <1>9 DEF EndRequest
  <2>2. Waiting' = Waiting /\ result[r] = "waiting"
    BY <2>1 DEF Waiting
  <2>3. RightData'
    BY <1>4, <1>6, <2>1, <2>2 DEF ReadsInv, RightData
  <2>4. Len(g) < Len(asked[r])
    BY <1>1, <1>4, <1>9
  <2>5. \A q \in Waiting' : Len(got'[q]) < Len(asked'[q])
    BY <1>6, <2>2, <2>4 DEF ReadsInv, LocalsInv, Waiting
  <2>6. txQueue \in Seq(Reqs) /\ IsInjective(txQueue)
    BY DEF ReadsInv, TypeOK, OneHolder
  <2>7. /\ txQueue' \in Seq(Reqs) /\ IsInjective(txQueue')
        /\ Range(txQueue') = Range(txQueue) \cup {r}
    BY <1>1, <2>1, <2>6, AppendRange, AppendKeepsInjective
  <2>8. QED
    BY <1>6, <1>7, <2>1, <2>2, <2>3, <2>5, <2>7 DEF ReadsInv, TypeOK
<1>10. QED
  BY <1>8, <1>9

\* A block out of the cache ends a request.
LEMMA TxHitStep == ASSUME ReadsInv, TxHit PROVE ReadsInv'
<1>1. PICK r : r = txReq
  OBVIOUS
<1>2. /\ r \in Waiting /\ r \in Reqs /\ answer[2] = Sector(r)
      /\ TxHeld = {r} /\ TxHeld' = {} /\ RxHeld' = RxHeld
      /\ EndRequest(r, <<answer[2]>>)
      /\ r \notin Range(txQueue)
  BY <1>1 DEF ReadsInv, OneHolder, LocalsInv, TxHit, TxHeld, RxHeld, rxVars
<1>3. UNCHANGED <<cacheVars, sessionVars, asked, arriving, rxQueue, rxVars,
                  net>> /\ txPc' = "idle" /\ txReq' = None
  BY DEF TxHit
<1>4. /\ got' \in [Reqs -> Seq(Blocks)]
      /\ result' \in [Reqs -> {"idle", "waiting", "ok", "failed"}]
      /\ txQueue' \in Seq(Reqs) /\ IsInjective(txQueue')
      /\ RightData'
      /\ \A q \in Waiting' : Len(got'[q]) < Len(asked'[q])
      /\ \A q \in Reqs : q # r => Sector(q)' = Sector(q)
      /\ \/ /\ Waiting' = Waiting \ {r}
            /\ Range(txQueue') = Range(txQueue)
         \/ /\ Waiting' = Waiting
            /\ Range(txQueue') = Range(txQueue) \cup {r}
  BY <1>2, <1>3, EndRequestStep
<1>5. TypeOK'
  BY <1>3, <1>4 DEF ReadsInv, TypeOK, cacheVars, sessionVars, rxVars, net
<1>6. OneHolder'
  BY <1>2, <1>3, <1>4 DEF ReadsInv, OneHolder
<1>7. LocalsInv'
  <2>1. rxPc = "copied" => rxReq \in Reqs /\ rxReq # r
    BY <1>2 DEF ReadsInv, LocalsInv, OneHolder, RxHeld
  <2>2. QED
    BY <1>3, <1>4, <2>1 DEF ReadsInv, LocalsInv, cacheVars, sessionVars,
       rxVars
<1>8. QED
  BY <1>4, <1>5, <1>6, <1>7 DEF ReadsInv

\* A reply ends a request.
LEMMA RxEndStep == ASSUME ReadsInv, RxEnd PROVE ReadsInv'
<1>1. PICK r : r = rxReq
  OBVIOUS
<1>2. /\ r \in Waiting /\ r \in Reqs /\ rxGot \in {<<>>, <<Sector(r)>>}
      /\ RxHeld = {r} /\ RxHeld' = {} /\ TxHeld' = TxHeld
      /\ EndRequest(r, rxGot)
      /\ r \notin Range(txQueue)
  BY <1>1 DEF ReadsInv, OneHolder, LocalsInv, RxEnd, TxHeld, RxHeld, txVars
<1>3. UNCHANGED <<cacheVars, sessionVars, asked, arriving, rxQueue, txVars,
                  net>> /\ rxPc' = "recv" /\ rxReq' = None /\ rxGot' = <<>>
  BY DEF RxEnd
<1>4. /\ got' \in [Reqs -> Seq(Blocks)]
      /\ result' \in [Reqs -> {"idle", "waiting", "ok", "failed"}]
      /\ txQueue' \in Seq(Reqs) /\ IsInjective(txQueue')
      /\ RightData'
      /\ \A q \in Waiting' : Len(got'[q]) < Len(asked'[q])
      /\ \A q \in Reqs : q # r => Sector(q)' = Sector(q)
      /\ \/ /\ Waiting' = Waiting \ {r}
            /\ Range(txQueue') = Range(txQueue)
         \/ /\ Waiting' = Waiting
            /\ Range(txQueue') = Range(txQueue) \cup {r}
  BY <1>2, <1>3, EndRequestStep
<1>5. TypeOK'
  <2>1. <<>> \in Seq(Blocks)
    OBVIOUS
  <2>2. QED
    BY <1>3, <1>4, <2>1 DEF ReadsInv, TypeOK, cacheVars, sessionVars, txVars, net
<1>6. OneHolder'
  BY <1>2, <1>3, <1>4 DEF ReadsInv, OneHolder
<1>7. LocalsInv'
  <2>1. txPc = "hit" => txReq \in Reqs /\ txReq # r
    BY <1>2 DEF ReadsInv, LocalsInv, OneHolder, TxHeld
  <2>2. QED
    BY <1>3, <1>4, <2>1 DEF ReadsInv, LocalsInv, cacheVars, sessionVars,
       txVars
<1>8. QED
  BY <1>4, <1>5, <1>6, <1>7 DEF ReadsInv

\* The last thread fails what is in the queues that no thread serves.
LEMMA ClearQueuesStep == ASSUME IInv, ClearQueues PROVE ReadsInv'
<1>1. /\ UNCHANGED <<cacheVars, sessions, bound, phase, running, asked, got,
                     arriving, txVars, rxVars, net>>
      /\ result' = [q \in Reqs |-> IF q \in Orphans THEN "failed" ELSE result[q]]
      /\ txQueue' = IF txPc = "dead" THEN <<>> ELSE txQueue
      /\ rxQueue' = IF rxPc = "dead" THEN <<>> ELSE rxQueue
  BY DEF ClearQueues
<1>2. /\ TxHeld' = TxHeld /\ RxHeld' = RxHeld
      /\ \A q \in Reqs : Sector(q)' = Sector(q)
      /\ Waiting' = Waiting \ Orphans
  BY <1>1 DEF TxHeld, RxHeld, Sector, Waiting, txVars, rxVars
<1>3. TypeOK'
  <2>1. txQueue' \in Seq(Reqs) /\ rxQueue' \in Seq(Reqs)
    <3>1. <<>> \in Seq(Reqs)
      OBVIOUS
    <3>2. QED
      BY <1>1, <3>1 DEF IInv, ReadsInv, TypeOK
  <2>2. result' \in [Reqs -> {"idle", "waiting", "ok", "failed"}]
    BY <1>1 DEF IInv, ReadsInv, TypeOK
  <2>3. QED
    BY <1>1, <2>1, <2>2, SessionTyped
       DEF IInv, ReadsInv, TypeOK, cacheVars, txVars, rxVars, net
<1>4. OneHolder'
  <2>1. /\ Range(txQueue') = IF txPc = "dead" THEN {} ELSE Range(txQueue)
        /\ Range(rxQueue') = IF rxPc = "dead" THEN {} ELSE Range(rxQueue)
        /\ IsInjective(txQueue') /\ IsInjective(rxQueue')
    BY <1>1, EmptyRange DEF IInv, ReadsInv, OneHolder
  <2>2. OneHolder
    BY DEF IInv, ReadsInv
  <2>3. CASE txPc = "dead" /\ rxPc = "dead"
    BY <1>1, <1>2, <2>1, <2>2, <2>3 DEF OneHolder, Orphans
  <2>4. CASE txPc = "dead" /\ rxPc # "dead"
    BY <1>1, <1>2, <2>1, <2>2, <2>4 DEF OneHolder, Orphans
  <2>5. CASE txPc # "dead" /\ rxPc = "dead"
    BY <1>1, <1>2, <2>1, <2>2, <2>5 DEF OneHolder, Orphans
  <2>6. CASE txPc # "dead" /\ rxPc # "dead"
    BY <1>1, <1>2, <2>1, <2>2, <2>6 DEF OneHolder, Orphans
  <2>7. QED
    BY <2>3, <2>4, <2>5, <2>6
<1>5. RightData'
  BY <1>1 DEF IInv, ReadsInv, RightData
<1>6. LocalsInv'
  BY <1>1, <1>2 DEF IInv, ReadsInv, LocalsInv, cacheVars, txVars, rxVars
<1>7. QED
  BY <1>3, <1>4, <1>5, <1>6 DEF ReadsInv

\* Nothing happens.
LEMMA StutteringStep == ASSUME ReadsInv, UNCHANGED vars PROVE ReadsInv'
<1>1. /\ UNCHANGED <<cacheVars, sessionVars, reqVars, queueVars, txVars, rxVars>>
      /\ UNCHANGED net
  BY DEF vars
<1>2. TypeOK'
  BY <1>1 DEF ReadsInv, TypeOK, cacheVars, sessionVars, reqVars, queueVars, txVars,
     rxVars, net
<1>3. Waiting' = Waiting /\ TxHeld' = TxHeld /\ RxHeld' = RxHeld
  BY <1>1 DEF Waiting, TxHeld, RxHeld, reqVars, txVars, rxVars
<1>4. OneHolder' /\ RightData'
  BY <1>1, <1>3 DEF ReadsInv, OneHolder, RightData, reqVars, queueVars
<1>5. \A q \in Reqs : Sector(q)' = Sector(q)
  BY <1>1 DEF Sector, reqVars
<1>6. LocalsInv'
  BY <1>1, <1>3, <1>5 DEF ReadsInv, LocalsInv, cacheVars, sessionVars, reqVars,
     txVars, rxVars
<1>7. QED
  BY <1>2, <1>4, <1>6 DEF ReadsInv

\* Threads come and go with the phases of a session.
LEMMA SessionInvStep == IInv /\ [Next]_vars => SessionInv'
<1> SUFFICES ASSUME IInv, [Next]_vars PROVE SessionInv'
  OBVIOUS
<1>1. /\ SessionInv /\ MaxSessions \in Nat /\ sessions \in Nat
      /\ clearing \in Nat /\ asleep \in Nat /\ late \in Nat
      /\ phase \in Phases
  BY ClientAssumption DEF IInv, ReadsInv, TypeOK
<1>2. ASSUME UNCHANGED <<sessions, phase, clearing, asleep, late>>,
             txPc' = "dead" <=> txPc = "dead",
             rxPc' = "dead" <=> rxPc = "dead"
      PROVE  SessionInv'
  BY <1>1, <1>2 DEF SessionInv
<1>3. CASE Start
  BY <1>1, <1>3 DEF Start, SessionInv, txVars
<1>4. CASE StartTx
  BY <1>1, <1>4 DEF StartTx, SessionInv, rxVars
<1>5. CASE Disconnect
  BY <1>1, <1>5 DEF Disconnect, SessionInv, txVars, rxVars
<1>6. CASE LateStop
  BY <1>1, <1>6 DEF LateStop, SessionInv, txVars, rxVars
<1>7. CASE ClearQueues
  BY <1>1, <1>7 DEF ClearQueues, SessionInv, txVars, rxVars
<1>8. CASE StateOff \/ Finish
  BY <1>1, <1>8 DEF StateOff, Finish, SessionInv, txVars, rxVars
<1>9. CASE TxExit
  BY <1>1, <1>9 DEF TxExit, SessionInv, rxVars
<1>10. CASE RxExit
  BY <1>1, <1>10 DEF RxExit, SessionInv, txVars
<1>11. ASSUME NEW r \in Reqs, Enqueue(r) \/ \E a \in Asks : DoRequest(r, a)
       PROVE  SessionInv'
  BY <1>2, <1>11 DEF Enqueue, DoRequest, sessionVars, txVars, rxVars
<1>12. CASE Tx
  BY <1>2, <1>9, <1>12 DEF Tx, TxDequeue, TxSearch, TxHit, TxMiss, TxSend,
     sessionVars, rxVars
<1>13. ASSUME NEW m \in Replies, RxMatch(m) \/ RxCache(m) \/ Overhear(m)
       PROVE  SessionInv'
  BY <1>2, <1>13 DEF RxMatch, RxCache, Overhear, sessionVars, txVars, rxVars
<1>14. CASE RxEnd
  BY <1>2, <1>14 DEF RxEnd, sessionVars, txVars
<1>15. ASSUME NEW k \in DOMAIN rxQueue, Requeue(k)
       PROVE  SessionInv'
  BY <1>2, <1>15 DEF Requeue, sessionVars, txVars, rxVars
<1>16. CASE Lose \/ \E x \in Blocks : ServerReply(x)
  BY <1>2, <1>16 DEF Lose, ServerReply, sessionVars, txVars, rxVars
<1>17. CASE UNCHANGED vars
  BY <1>2, <1>17 DEF vars, sessionVars, txVars, rxVars
<1>18. QED
  BY <1>3, <1>4, <1>5, <1>6, <1>7, <1>8, <1>10, <1>11, <1>12, <1>13, <1>14,
     <1>15, <1>16, <1>17 DEF Next

\* Every step of the client keeps what is said of reads.
LEMMA ReadsInvStep == IInv /\ [Next]_vars => ReadsInv'
<1> SUFFICES ASSUME IInv, [Next]_vars PROVE ReadsInv'
  OBVIOUS
<1>0. ReadsInv
  BY DEF IInv
<1>1. ASSUME NEW r \in Reqs, Enqueue(r) \/ \E a \in Asks : DoRequest(r, a)
      PROVE  ReadsInv'
  BY <1>0, <1>1, EnqueueStep, DoRequestStep
<1>2. CASE Tx
  BY <1>0, <1>2, TxDequeueStep, TxSearchStep, TxHitStep, TxMissStep, NetworkStep,
     SessionStep DEF Tx
<1>3. ASSUME NEW m \in Replies, RxMatch(m) \/ RxCache(m)
      PROVE  ReadsInv'
  BY <1>0, <1>3, RxMatchStep, RxCacheStep
<1>4. CASE RxEnd
  BY <1>0, <1>4, RxEndStep
<1>5. ASSUME NEW k \in DOMAIN rxQueue, Requeue(k)
      PROVE  ReadsInv'
  BY <1>0, <1>5, RequeueStep
<1>6. CASE Lose \/ (\E x \in Blocks : ServerReply(x))
             \/ \E m \in Replies : Overhear(m)
  BY <1>0, <1>6, NetworkStep
<1>7. CASE Start \/ StartTx \/ Disconnect \/ LateStop \/ StateOff \/ Finish \/ RxExit
  BY <1>7, SessionStep
<1>8. CASE ClearQueues
  BY <1>8, ClearQueuesStep
<1>9. CASE UNCHANGED vars
  BY <1>0, <1>9, StutteringStep
<1>10. QED
  BY <1>1, <1>2, <1>3, <1>4, <1>5, <1>6, <1>7, <1>8, <1>9 DEF Next

\* Every step of the client keeps the inductive invariant.
LEMMA NextIInv == IInv /\ [Next]_vars => IInv'
  BY ReadsInvStep, SessionInvStep DEF IInv

\* The inductive invariant holds in every reachable state.
THEOREM Invariance == Spec => []IInv
<1>1. Init => IInv
  BY InitIInv
<1>2. IInv /\ [Next]_vars => IInv'
  BY NextIInv
<1>3. QED
  BY <1>1, <1>2, PTL DEF Spec

\* Every variable has values of its kind; the cache is never over its size.
THEOREM TypeCorrect == Spec => []TypeOK
<1>1. IInv => TypeOK
  BY DEF IInv, ReadsInv
<1>2. QED
  BY Invariance, <1>1, PTL

\* No thread, timer or end of a session ends a read twice or forgets it.
THEOREM NoneLost == Spec => []OneHolder
<1>1. IInv => OneHolder
  BY DEF IInv, ReadsInv
<1>2. QED
  BY Invariance, <1>1, PTL

\* A read gets its own blocks, whoever asked for the replies that carry them.
THEOREM DataRight == Spec => []RightData
<1>1. IInv => RightData
  BY DEF IInv, ReadsInv
<1>2. QED
  BY Invariance, <1>1, PTL

-----------------------------------------------------------------------------
(* The client implements ReadService.                                      *)

\* A step in which no read and no thread changes is none of the service's.
LEMMA StutterService ==
    ASSUME UNCHANGED <<running, asked, got, result>>,
           txPc' = "dead" <=> txPc = "dead",
           rxPc' = "dead" <=> rxPc = "dead"
    PROVE  UNCHANGED Service!vars
<1>1. Alive(txPc)' = Alive(txPc) /\ Alive(rxPc)' = Alive(rxPc)
  BY DEF Alive
<1>2. QED
  BY <1>1 DEF Service!vars

\* Both sets of reads that wait are the same.
LEMMA SameWaiting == Service!Waiting = Waiting
  BY DEF Service!Waiting, Waiting

\* How many threads run.
LEMMA ThreadCount ==
    /\ Alive(txPc) \in {0, 1} /\ Alive(rxPc) \in {0, 1}
    /\ Alive(txPc)' \in {0, 1} /\ Alive(rxPc)' \in {0, 1}
    /\ txPc = "dead" <=> Alive(txPc) = 0
    /\ rxPc = "dead" <=> Alive(rxPc) = 0
    /\ txPc' = "dead" <=> Alive(txPc)' = 0
    /\ rxPc' = "dead" <=> Alive(rxPc)' = 0
  BY DEF Alive

\* The block layer's request function accepts or refuses.
LEMMA DoRequestService ==
    ASSUME NEW r \in Reqs, NEW a \in Asks, DoRequest(r, a)
    PROVE  Service!Refuse(r) \/ Service!Accept(r, a)
<1>1. UNCHANGED <<running, Alive(txPc) + Alive(rxPc)>>
  BY DEF DoRequest, sessionVars, txVars, rxVars, Alive
<1>2. r \notin Service!Waiting
  BY DEF DoRequest, Service!Waiting
<1>3. CASE running
  BY <1>1, <1>2, <1>3 DEF DoRequest, Service!Accept
<1>4. CASE ~running
  BY <1>1, <1>2, <1>4 DEF DoRequest, Service!Refuse
<1>5. QED
  BY <1>3, <1>4

\* A thread that ends a read, in full or in part, fills it with its next block,
\* or leaves it as it was when the reply was short.
LEMMA EndRequestService ==
    ASSUME IInv, NEW r \in Waiting, NEW bs \in {<<>>, <<Sector(r)>>},
           EndRequest(r, bs), UNCHANGED <<running, asked>>,
           Alive(txPc) + Alive(rxPc) > 0,
           UNCHANGED (Alive(txPc) + Alive(rxPc))
    PROVE  Service!Fill(r) \/ UNCHANGED Service!vars
<1>1. /\ r \in Reqs /\ asked[r] \in Seq(Blocks) /\ got[r] \in Seq(Blocks)
      /\ Len(got[r]) < Len(asked[r]) /\ result[r] = "waiting"
      /\ got \in [Reqs -> Seq(Blocks)]
      /\ result \in [Reqs -> {"idle", "waiting", "ok", "failed"}]
      /\ Sector(r) \in Blocks
  BY AskedSeq, SectorBlock
     DEF IInv, ReadsInv, TypeOK, LocalsInv, Waiting
<1>2. /\ got' = [got EXCEPT ![r] = got[r] \o bs]
      /\ got'[r] = got[r] \o bs
      /\ result' = IF Len(got'[r]) = Len(asked[r])
                   THEN [result EXCEPT ![r] = "ok"] ELSE result
  BY <1>1 DEF EndRequest
<1>3. CASE bs = <<>>
  <2>1. got[r] \o bs = got[r]
    BY <1>1, <1>3
  <2>2. got' = got /\ result' = result
    BY <1>1, <1>2, <2>1
  <2>3. QED
    BY <2>2 DEF Service!vars
<1>4. CASE bs = <<Sector(r)>>
  <2>1. got[r] \o bs = Append(got[r], asked[r][Len(got[r]) + 1])
    BY <1>1, <1>4 DEF Sector
  <2>2. got' = [got EXCEPT ![r] = Append(@, asked[r][Len(@) + 1])]
    BY <1>2, <2>1
  <2>3. result' = [result EXCEPT ![r] =
                     IF Len(got'[r]) = Len(asked[r]) THEN "ok" ELSE "waiting"]
    BY <1>1, <1>2
  <2>4. QED
    BY <2>2, <2>3, SameWaiting DEF Service!Fill
<1>5. QED
  BY <1>3, <1>4

\* The emptying of queues fails reads that wait, and none when both threads run.
LEMMA ClearQueuesService ==
    ASSUME IInv, ClearQueues
    PROVE  (\E rs \in SUBSET Service!Waiting : Service!Fail(rs))
             \/ UNCHANGED Service!vars
<1>1. /\ UNCHANGED <<running, asked, got, txPc, rxPc>>
      /\ result' = [q \in Reqs |-> IF q \in Orphans THEN "failed" ELSE result[q]]
  BY DEF ClearQueues, txVars, rxVars
<1>2. Orphans \subseteq Service!Waiting
  BY SameWaiting DEF IInv, ReadsInv, OneHolder, Orphans
<1>3. UNCHANGED (Alive(txPc) + Alive(rxPc))
  BY <1>1 DEF Alive
<1>4. CASE txPc = "dead" \/ rxPc = "dead"
  <2>1. Alive(txPc) + Alive(rxPc) < 2
    BY <1>4, ThreadCount
  <2>2. Service!Fail(Orphans)
    BY <1>1, <1>3, <2>1 DEF Service!Fail
  <2>3. QED
    BY <1>2, <2>2
<1>5. CASE txPc # "dead" /\ rxPc # "dead"
  <2>1. Orphans = {}
    BY <1>5 DEF Orphans
  <2>2. result' = result
    BY <1>1, <2>1 DEF IInv, ReadsInv, TypeOK
  <2>3. QED
    BY <1>1, <2>2, StutterService
<1>6. QED
  BY <1>4, <1>5

\* Threads start, the receiver first, and end; the state is reset when both have
\* ended.
LEMMA SessionService ==
    ASSUME IInv, Start \/ StartTx \/ TxExit \/ RxExit \/ StateOff
    PROVE  Service!ThreadStarts \/ Service!ThreadEnds \/ Service!StateOff
<1>1. UNCHANGED Service!reads
  BY DEF Start, StartTx, TxExit, RxExit, StateOff, reqVars, Service!reads
<1>2. SessionInv /\ running \in BOOLEAN
  BY DEF IInv, ReadsInv, TypeOK
<1>3. CASE Start
  <2>1. /\ txPc = "dead" /\ txPc' = "dead" /\ rxPc = "dead" /\ rxPc' # "dead"
        /\ running' = running
    BY <1>2, <1>3 DEF Start, SessionInv, txVars
  <2>2. QED
    BY <1>1, <1>2, <2>1, ThreadCount DEF Service!ThreadStarts
<1>4. CASE StartTx
  <2>1. /\ txPc = "dead" /\ txPc' # "dead" /\ rxPc # "dead" /\ rxPc' # "dead"
        /\ running' = TRUE
    BY <1>2, <1>4 DEF StartTx, SessionInv, rxVars
  <2>2. /\ Alive(txPc) + Alive(rxPc) = 1
        /\ (Alive(txPc) + Alive(rxPc))' = 2
    BY <2>1, ThreadCount
  <2>3. running' = (running \/ (Alive(txPc) + Alive(rxPc))' = 2)
    BY <2>1, <2>2, Zenon
  <2>4. QED
    BY <1>1, <2>2, <2>3 DEF Service!ThreadStarts
<1>5. CASE TxExit
  <2>1. /\ txPc # "dead" /\ txPc' = "dead" /\ rxPc' = rxPc
        /\ running' = running
    BY <1>5 DEF TxExit, rxVars
  <2>2. Alive(rxPc)' = Alive(rxPc)
    BY <2>1 DEF Alive
  <2>3. QED
    BY <1>1, <2>1, <2>2, ThreadCount DEF Service!ThreadEnds
<1>6. CASE RxExit
  <2>1. /\ rxPc # "dead" /\ rxPc' = "dead" /\ txPc' = txPc
        /\ running' = running
    BY <1>6 DEF RxExit, txVars
  <2>2. Alive(txPc)' = Alive(txPc)
    BY <2>1 DEF Alive
  <2>3. QED
    BY <1>1, <2>1, <2>2, ThreadCount DEF Service!ThreadEnds
<1>7. CASE StateOff
  <2>1. /\ txPc = "dead" /\ txPc' = "dead" /\ rxPc = "dead" /\ rxPc' = "dead"
        /\ running' = FALSE
    BY <1>2, <1>7 DEF StateOff, SessionInv, txVars, rxVars
  <2>2. QED
    BY <1>1, <2>1, ThreadCount DEF Service!StateOff
<1>8. QED
  BY <1>3, <1>4, <1>5, <1>6, <1>7

\* Every step of the client is a step of the service or none.
LEMMA NextService ==
    IInv /\ [Next]_vars => [Service!Next]_(Service!vars)
<1> SUFFICES ASSUME IInv, [Next]_vars
             PROVE  Service!Next \/ UNCHANGED Service!vars
  OBVIOUS
<1>1. ASSUME NEW r \in Reqs, NEW a \in Asks, DoRequest(r, a)
      PROVE  Service!Next
  BY <1>1, DoRequestService DEF Service!Next
<1>2. ASSUME NEW r \in Reqs, Enqueue(r)
      PROVE  UNCHANGED Service!vars
  BY <1>2, StutterService DEF Enqueue, sessionVars, txVars, rxVars
<1>3. CASE TxHit
  <2>1. /\ txReq \in Waiting /\ answer[2] = Sector(txReq) /\ txPc = "hit"
    BY <1>3 DEF IInv, ReadsInv, OneHolder, LocalsInv, TxHit, TxHeld
  <2>2. /\ EndRequest(txReq, <<Sector(txReq)>>) /\ txPc' = "idle"
        /\ UNCHANGED <<running, asked, rxPc>>
    BY <1>3, <2>1 DEF TxHit, sessionVars, rxVars
  <2>3. /\ Alive(txPc) + Alive(rxPc) > 0
        /\ UNCHANGED (Alive(txPc) + Alive(rxPc))
    BY <2>1, <2>2 DEF Alive
  <2>4. Service!Fill(txReq) \/ UNCHANGED Service!vars
    BY <2>1, <2>2, <2>3, EndRequestService
  <2>5. QED
    BY <2>1, <2>4 DEF Service!Next, Waiting
<1>4. CASE RxEnd
  <2>1. /\ rxReq \in Waiting /\ rxGot \in {<<>>, <<Sector(rxReq)>>}
        /\ rxPc = "copied"
    BY <1>4 DEF IInv, ReadsInv, OneHolder, LocalsInv, RxEnd, RxHeld
  <2>2. /\ EndRequest(rxReq, rxGot) /\ rxPc' = "recv"
        /\ UNCHANGED <<running, asked, txPc>>
    BY <1>4 DEF RxEnd, sessionVars, txVars
  <2>3. /\ Alive(txPc) + Alive(rxPc) > 0
        /\ UNCHANGED (Alive(txPc) + Alive(rxPc))
    BY <2>1, <2>2 DEF Alive
  <2>4. Service!Fill(rxReq) \/ UNCHANGED Service!vars
    BY <2>1, <2>2, <2>3, EndRequestService
  <2>5. QED
    BY <2>1, <2>4 DEF Service!Next, Waiting
<1>5. CASE TxDequeue \/ TxSearch \/ TxMiss \/ TxSend
  BY <1>5, StutterService
     DEF TxDequeue, TxSearch, TxMiss, TxSend, sessionVars, reqVars, rxVars
<1>6. ASSUME NEW m \in Replies, RxMatch(m) \/ RxCache(m) \/ Overhear(m)
      PROVE  UNCHANGED Service!vars
  BY <1>6, StutterService
     DEF RxMatch, RxCache, Overhear, sessionVars, reqVars, txVars, rxVars
<1>7. ASSUME NEW k \in DOMAIN rxQueue, Requeue(k)
      PROVE  UNCHANGED Service!vars
  BY <1>7, StutterService DEF Requeue, sessionVars, reqVars, txVars, rxVars
<1>8. CASE Lose \/ \E x \in Blocks : ServerReply(x)
  BY <1>8, StutterService
     DEF Lose, ServerReply, sessionVars, reqVars, txVars, rxVars
<1>9. CASE Disconnect \/ LateStop \/ Finish
  BY <1>9, StutterService
     DEF Disconnect, LateStop, Finish, reqVars, txVars, rxVars
<1>10. CASE ClearQueues
  BY <1>10, ClearQueuesService DEF Service!Next
<1>11. CASE Start \/ StartTx \/ TxExit \/ RxExit \/ StateOff
  BY <1>11, SessionService DEF Service!Next
<1>12. CASE UNCHANGED vars
  BY <1>12, StutterService DEF vars, sessionVars, reqVars, txVars, rxVars
<1>13. QED
  BY <1>1, <1>2, <1>3, <1>4, <1>5, <1>6, <1>7, <1>8, <1>9, <1>10, <1>11, <1>12
     DEF Next, Tx

\* The client, with its queues, cache, timer, threads and sessions, is a service
\* that fills each accepted read in order with its own blocks and ends it once,
\* and that fails no read while both of its threads run.
THEOREM Refinement == Spec => ImplementsReadService
<1>1. Init => Service!Init
  BY DEF Init, Service!Init, Alive
<1>2. IInv /\ [Next]_vars => [Service!Next]_(Service!vars)
  BY NextService
<1>3. QED
  BY Invariance, <1>1, <1>2, PTL DEF Spec, Service!Spec, ImplementsReadService
=============================================================================
