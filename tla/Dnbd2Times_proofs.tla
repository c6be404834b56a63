-------------------------- MODULE Dnbd2Times_proofs -------------------------
(***************************************************************************)
(* Proofs about Dnbd2Timing and Dnbd2Rtt: the timeouts hold for every HZ,  *)
(* the round-trip times for any number of servers, any RTT_MAX and any     *)
(* thresholds.                                                             *)
(***************************************************************************)
EXTENDS Dnbd2Timing, Dnbd2Rtt, TLAPS

-----------------------------------------------------------------------------
(* Dnbd2Timing.                                                            *)

\* The timers that emergency mode has deleted are not due, and what the sender
\* has still to count is there.
ModeInv == (emergency => ~rqDue) /\ (counting => ctl # None)

\* What is silent while it owes an answer has been so for no longer than the
\* timer has run since it last found nothing.
StallInv ==
    ~emergency /\ owed # None => \/ owed + toIn <= Stalled + Second
                                 \/ silence + toIn <= Stalled + Second

\* The age of the control request at the last tick that has looked at it, and
\* how often it has been sent or is to be, by then, if that tick and each one
\* since the first second found it sent and counted.
Seen == IF rqDue THEN ctl.age - 1 ELSE ctl.age
Limit == IF Seen < Second THEN 1 ELSE Seen - Second + 2
Sends == ctl.cnt + (IF ctl.at = "send" THEN 1 ELSE 0)
                 + (IF counting THEN 1 ELSE 0)

\* A request is never sent more often than at every tick.
UpperInv == ctl # None /\ ctl.age < Cap => Sends <= Limit

\* One that no tick has missed is sent as often as that, until it is given up.
LowerInv ==
    ctl # None /\ ~ctl.held => ~emergency /\ Seen <= Second + 2 /\ Sends >= Limit

TimingInv == TypeOK /\ ModeInv /\ StallInv /\ UpperInv /\ LowerInv /\ NotHasty

LEMMA Bounds == /\ Second \in Nat /\ Second >= 1 /\ Stalled = 3 * Second
                /\ Cap = 4 * Second + 2 /\ Many = 5 /\ 0 \in Ages
  BY SecondAssumption DEF Stalled, Cap, Many, Ages

LEMMA MinOfTwo ==
    ASSUME NEW a \in Int, NEW b \in Int
    PROVE  Min({a, b}) = IF a <= b THEN a ELSE b
<1> DEFINE m == IF a <= b THEN a ELSE b
           IsMin(x) == x \in {a, b} /\ \A y \in {a, b} : x <= y
<1>1. IsMin(m)
  OBVIOUS
<1>2. \A x : IsMin(x) => x = m
  OBVIOUS
<1>3. Min({a, b}) = CHOOSE x \in {a, b} : \A y \in {a, b} : x <= y
  BY DEF Min
<1>4. (CHOOSE x \in {a, b} : \A y \in {a, b} : x <= y) = m
  BY <1>1, <1>2
<1>5. QED
  BY <1>3, <1>4

LEMMA OlderAge ==
    ASSUME NEW age \in -1 .. Cap
    PROVE  /\ Older(age) \in Ages
           /\ Older(age) = IF age < Cap THEN age + 1 ELSE Cap
  BY MinOfTwo, Bounds DEF Older, Ages

LEMMA AgedRequest ==
    ASSUME NEW c \in Requests
    PROVE  /\ Aged(c) \in Requests /\ Aged(c) # None
           /\ Aged(c).age = Older(c.age) /\ Aged(c).cnt = c.cnt
           /\ Aged(c).at = c.at /\ Aged(c).held = c.held
<1>1. c # None /\ c.age \in -1 .. Cap
  BY NoneAssumption DEF Requests
<1>2. Aged(c) = [c EXCEPT !.age = Older(c.age)] /\ Older(c.age) \in -1 .. Cap
  BY <1>1, OlderAge DEF Aged, Ages
<1>3. Aged(c) \in Requests
  BY <1>2 DEF Requests
<1>4. QED
  BY <1>2, <1>3, NoneAssumption DEF Requests

LEMMA InitTimingInv == Init => TimingInv
<1> SUFFICES ASSUME Init PROVE TimingInv
  OBVIOUS
<1>1. TypeOK
  <2>1. /\ silence \in Ages /\ owed \in Ages \cup {None}
        /\ ctl \in Requests \cup {None} /\ toIn \in 0 .. Second
    BY Bounds DEF Init
  <2>2. {counting, emergency, rqDue} \subseteq BOOLEAN
    BY Zenon DEF Init
  <2>3. {blamed, dropped} \subseteq Ages \cup {None}
    BY DEF Init
  <2>4. QED
    BY <2>1, <2>2, <2>3 DEF TypeOK
<1>2. ModeInv /\ StallInv /\ UpperInv /\ LowerInv /\ NotHasty
  BY DEF Init, ModeInv, StallInv, UpperInv, LowerInv, NotHasty
<1>3. QED
  BY <1>1, <1>2 DEF TimingInv

\* A step that leaves the control request and its timer alone.
LEMMA RequestStill ==
    ASSUME TimingInv, UNCHANGED <<ctlVars, emergency, rqDue>>
    PROVE  /\ ModeInv' /\ UpperInv' /\ LowerInv'
           /\ ctl' \in Requests \cup {None} /\ rqDue' \in BOOLEAN
           /\ counting' \in BOOLEAN /\ emergency' \in BOOLEAN
  BY DEF TimingInv, TypeOK, ctlVars, ModeInv, UpperInv, LowerInv, Seen, Limit,
         Sends

\* A step that leaves the active server and its timer alone.
LEMMA ServerStill ==
    ASSUME TimingInv, UNCHANGED <<silence, owed, emergency, toIn>>
    PROVE  /\ StallInv' /\ silence' \in Ages /\ owed' \in Ages \cup {None}
           /\ toIn' \in 0 .. Second /\ emergency' \in BOOLEAN
  BY DEF TimingInv, TypeOK, StallInv

\* Most steps find nobody stalled and give nothing up.
LEMMA QuietInv == ASSUME Quiet
                  PROVE  {blamed', dropped'} \subseteq Ages \cup {None} /\ NotHasty'
  BY DEF Quiet, NotHasty

LEMMA TickStep == ASSUME TimingInv, Tick PROVE TimingInv'
<1>1. /\ silence \in Ages /\ silence' = Older(silence)
      /\ owed' = IF owed = None THEN None ELSE Older(owed)
      /\ ctl' = Aged(ctl) /\ counting' = counting /\ emergency' = emergency
      /\ toIn \in 0 .. Second
      /\ toIn' = IF emergency THEN toIn ELSE toIn - 1
      /\ ~emergency => toIn > 0 /\ ~rqDue
      /\ rqDue' = IF emergency THEN FALSE ELSE TRUE
      /\ emergency \in BOOLEAN /\ counting \in BOOLEAN /\ Quiet
  BY DEF TimingInv, TypeOK, Tick
<1>2. silence' \in Ages /\ silence' <= silence + 1
  BY <1>1, OlderAge, Bounds DEF Ages
<1>3. owed' \in Ages \cup {None} /\ StallInv'
  <2>1. CASE owed = None
    BY <1>1, <2>1 DEF StallInv
  <2>2. CASE owed # None
    <3>1. owed \in Ages
      BY <2>2 DEF TimingInv, TypeOK
    <3>2. owed' \in Ages /\ owed' <= owed + 1
      BY <1>1, <2>2, <3>1, OlderAge, Bounds DEF Ages
    <3>3. ~emergency => \/ owed + toIn <= Stalled + Second
                        \/ silence + toIn <= Stalled + Second
      BY <2>2 DEF TimingInv, StallInv
    <3>4. ~emergency => \/ owed' + toIn' <= Stalled + Second
                        \/ silence' + toIn' <= Stalled + Second
      BY <1>1, <1>2, <3>1, <3>2, <3>3, Bounds DEF Ages
    <3>5. QED
      BY <1>1, <3>2, <3>4 DEF StallInv
  <2>3. QED
    BY <2>1, <2>2
<1>4. ctl' \in Requests \cup {None} /\ ModeInv' /\ UpperInv' /\ LowerInv'
  <2>1. CASE ctl = None
    BY <1>1, <2>1 DEF TimingInv, ModeInv, UpperInv, LowerInv, Aged
  <2>2. CASE ctl # None
    <3>1. ctl \in Requests /\ ctl.age \in -1 .. Cap /\ ctl.cnt \in 0 .. Many
            /\ ~rqDue
      BY <1>1, <2>2 DEF TimingInv, TypeOK, Requests, ModeInv
    <3>2. /\ ctl' \in Requests /\ ctl' # None
          /\ ctl'.age = IF ctl.age < Cap THEN ctl.age + 1 ELSE Cap
          /\ ctl'.cnt = ctl.cnt /\ ctl'.at = ctl.at /\ ctl'.held = ctl.held
      BY <1>1, <3>1, AgedRequest, OlderAge
    <3>3. ModeInv'
      BY <1>1, <3>2 DEF ModeInv
    <3>4. UpperInv'
      BY <1>1, <2>2, <3>1, <3>2, Bounds
         DEF TimingInv, UpperInv, Sends, Limit, Seen
    <3>5. LowerInv'
      <4> SUFFICES ASSUME ~ctl'.held PROVE LowerInv'
        BY DEF LowerInv
      <4>1. ~emergency /\ Seen <= Second + 2 /\ Sends >= Limit
        BY <2>2, <3>2 DEF TimingInv, LowerInv
      <4>2. ctl'.age = ctl.age + 1 /\ Seen = ctl.age
        BY <3>1, <3>2, <4>1, Bounds DEF Seen
      <4>3. Seen' = Seen /\ Limit' = Limit /\ Sends' = Sends
        BY <1>1, <3>1, <3>2, <4>1, <4>2 DEF Seen, Limit, Sends
      <4>4. QED
        BY <1>1, <4>1, <4>3 DEF LowerInv
    <3>6. QED
      BY <3>2, <3>3, <3>4, <3>5
  <2>3. QED
    BY <2>1, <2>2
<1>5. toIn' \in 0 .. Second
  <2>1. CASE emergency
    BY <1>1, <2>1
  <2>2. CASE ~emergency
    BY <1>1, <2>2, Bounds
  <2>3. QED
    BY <2>1, <2>2
<1>6. rqDue' \in BOOLEAN
  BY <1>1, Zenon
<1>7. {counting', emergency', rqDue'} \subseteq BOOLEAN
  BY <1>1, <1>6, Zenon
<1>8. QED
  BY <1>2, <1>1, <1>3, <1>4, <1>5, <1>7, QuietInv DEF TimingInv, TypeOK

\* The block request, and another active server.
LEMMA BlockStep ==
    ASSUME TimingInv, Read \/ Block \/ StoreActive PROVE TimingInv'
<1>1. UNCHANGED <<ctlVars, emergency, toIn, rqDue>> /\ Quiet
  BY DEF Read, Block, StoreActive, timers
<1>2. silence' \in Ages /\ owed' \in Ages \cup {None} /\ toIn' \in 0 .. Second
  BY <1>1, Bounds DEF TimingInv, TypeOK, Read, Block, StoreActive, OtherServer
<1>3. \/ owed' = None \/ owed' = 0 \/ silence' = 0
      \/ owed' = owed /\ silence' = silence
  BY DEF Read, Block, StoreActive, OtherServer
<1>4. StallInv'
  BY <1>1, <1>2, <1>3, Bounds DEF TimingInv, StallInv
<1>5. QED
  BY <1>1, <1>2, <1>4, RequestStill, QuietInv DEF TimingInv, TypeOK

LEMMA AskStep == ASSUME TimingInv, Ask PROVE TimingInv'
<1>1. ctl = None /\ UNCHANGED <<silence, owed, counting, emergency, toIn, rqDue>>
        /\ Quiet /\ emergency \in BOOLEAN /\ rqDue \in BOOLEAN
  BY DEF Ask, timers, TimingInv, TypeOK
<1>2. PICK age \in {-1, 0} :
         ctl' = [age |-> age, cnt |-> 0, at |-> "send", held |-> emergency]
  BY DEF Ask
<1>3. ctl' \in Requests /\ ctl' # None
  BY <1>1, <1>2, Bounds, NoneAssumption DEF Requests
<1>4. /\ ctl'.age = age /\ ctl'.cnt = 0 /\ ctl'.at = "send"
      /\ ctl'.held = emergency
  BY <1>2
<1>5. counting = FALSE /\ ModeInv'
  BY <1>1, <1>3 DEF TimingInv, TypeOK, ModeInv
<1>6. UpperInv' /\ LowerInv'
  BY <1>1, <1>4, <1>5, Bounds DEF UpperInv, LowerInv, Sends, Limit, Seen
<1>7. QED
  BY <1>1, <1>3, <1>5, <1>6, ServerStill, QuietInv DEF TimingInv, TypeOK

\* The sender: what is counted has been in the queue before.
LEMMA SenderStep == ASSUME TimingInv, Send \/ Count PROVE TimingInv'
<1>1. UNCHANGED <<silence, owed, emergency, toIn, rqDue>> /\ Quiet
        /\ rqDue \in BOOLEAN
  BY DEF Send, Count, timers, TimingInv, TypeOK
<1>2. /\ ctl \in Requests /\ ctl # None /\ counting \in BOOLEAN
      /\ ctl.age \in -1 .. Cap /\ ctl.cnt \in 0 .. Many
  <2>1. ctl # None /\ counting \in BOOLEAN
    BY DEF Send, Count, TimingInv, ModeInv, TypeOK
  <2>2. QED
    BY <2>1 DEF TimingInv, TypeOK, Requests
<1>3. /\ ctl' \in Requests /\ counting' \in BOOLEAN
      /\ ctl'.age = ctl.age /\ ctl'.held = ctl.held
      /\ Sends' <= Sends
      /\ Sends < Many => Sends' = Sends
  <2>1. CASE Send
    <3>1. /\ ctl' = [ctl EXCEPT !.at = "pending"]
          /\ ctl.at = "send" /\ counting = FALSE /\ counting' = TRUE
      BY <1>2, <2>1 DEF Send
    <3>2. ctl' \in Requests
      BY <1>2, <3>1 DEF Requests
    <3>3. /\ ctl'.age = ctl.age /\ ctl'.held = ctl.held /\ ctl'.cnt = ctl.cnt
          /\ ctl'.at = "pending"
      BY <1>2, <3>1 DEF Requests
    <3>4. QED
      BY <1>2, <3>1, <3>2, <3>3 DEF Sends
  <2>2. CASE Count
    <3>1. /\ ctl' = [ctl EXCEPT !.cnt = Min({ctl.cnt + 1, Many})]
          /\ counting = TRUE /\ counting' = FALSE
      BY <1>2, <2>2 DEF Count
    <3>2. Min({ctl.cnt + 1, Many}) = IF ctl.cnt < Many THEN ctl.cnt + 1 ELSE Many
      BY <1>2, MinOfTwo, Bounds
    <3>3. ctl' \in Requests
      BY <1>2, <3>1, <3>2, Bounds DEF Requests
    <3>4. /\ ctl'.age = ctl.age /\ ctl'.held = ctl.held /\ ctl'.at = ctl.at
          /\ ctl'.cnt = IF ctl.cnt < Many THEN ctl.cnt + 1 ELSE Many
      BY <1>2, <3>1, <3>2 DEF Requests
    <3>5. counting' \in BOOLEAN
      BY <3>1, Zenon
    <3>6. /\ Sends = ctl.cnt + (IF ctl.at = "send" THEN 1 ELSE 0) + 1
          /\ Sends' = ctl'.cnt + (IF ctl.at = "send" THEN 1 ELSE 0)
      BY <1>2, <3>1, <3>3, <3>4 DEF Sends, Requests
    <3>7. Sends' <= Sends
      BY <1>2, <3>4, <3>6, Bounds
    <3>8. Sends < Many => Sends' = Sends
      BY <1>2, <3>4, <3>6, Bounds
    <3>9. QED
      BY <3>3, <3>4, <3>5, <3>7, <3>8
  <2>3. QED
    BY <2>1, <2>2
<1>4. ctl' # None /\ ModeInv'
  BY <1>1, <1>3, NoneAssumption DEF TimingInv, ModeInv
<1>5. Sends \in Int /\ Sends' \in Int
  BY <1>2, <1>3 DEF Sends, Requests
<1>6. Limit \in Int /\ Limit' = Limit /\ Seen' = Seen
  BY <1>1, <1>2, <1>3, Bounds DEF Limit, Seen
<1>7. UpperInv'
  BY <1>2, <1>3, <1>5, <1>6 DEF TimingInv, UpperInv
<1>8. LowerInv'
  <2> SUFFICES ASSUME ~ctl'.held PROVE LowerInv'
    BY DEF LowerInv
  <2>1. ~emergency /\ Seen <= Second + 2 /\ Sends >= Limit
    BY <1>2, <1>3 DEF TimingInv, LowerInv
  <2>2. ctl.age < Cap /\ Limit <= 4
    BY <1>1, <1>2, <2>1, Bounds DEF Seen, Limit
  <2>3. Sends <= Limit
    BY <1>2, <2>2 DEF TimingInv, UpperInv
  <2>4. Sends' = Sends
    BY <1>3, <1>5, <1>6, <2>2, <2>3, Bounds
  <2>5. QED
    BY <1>1, <1>6, <2>1, <2>4 DEF LowerInv
<1>9. QED
  BY <1>1, <1>3, <1>4, <1>7, <1>8, ServerStill, QuietInv DEF TimingInv, TypeOK

\* The request ends.
LEMMA EndStep == ASSUME TimingInv, Discard \/ Answer PROVE TimingInv'
<1>1. /\ UNCHANGED <<owed, emergency, toIn, rqDue>> /\ Quiet
      /\ silence' \in {0, silence} /\ ctl' = None /\ counting' = FALSE
  BY DEF Discard, Answer, timers, TimingInv, TypeOK
<1>2. ModeInv' /\ UpperInv' /\ LowerInv'
  BY <1>1 DEF TimingInv, ModeInv, UpperInv, LowerInv
<1>3. silence' \in Ages /\ toIn \in 0 .. Second
  BY <1>1, Bounds DEF TimingInv, TypeOK
<1>4. StallInv'
  <2>1. CASE silence' = silence
    BY <1>1, <2>1 DEF TimingInv, StallInv
  <2>2. CASE silence' = 0
    BY <1>1, <1>3, <2>2, Bounds DEF StallInv
  <2>3. QED
    BY <1>1, <2>1, <2>2
<1>5. QED
  BY <1>1, <1>2, <1>3, <1>4, QuietInv DEF TimingInv, TypeOK

LEMMA RequeueStep == ASSUME TimingInv, Requeue PROVE TimingInv'
<1>1. /\ UNCHANGED <<silence, owed, emergency, toIn>>
      /\ rqDue = TRUE /\ rqDue' = FALSE /\ emergency = FALSE
      /\ counting \in BOOLEAN
  BY DEF Requeue, TimingInv, TypeOK
<1>2. CASE ctl = None
  <2>1. UNCHANGED ctlVars /\ Quiet
    BY <1>2 DEF Requeue, Pending
  <2>2. ModeInv' /\ UpperInv' /\ LowerInv' /\ counting' = counting
          /\ ctl' = None
    BY <1>1, <1>2, <2>1 DEF TimingInv, ModeInv, UpperInv, LowerInv, ctlVars
  <2>3. QED
    BY <1>1, <2>1, <2>2, ServerStill, QuietInv DEF TimingInv, TypeOK
<1>3. CASE ctl # None
  <2>1. /\ ctl \in Requests /\ ctl.age \in -1 .. Cap /\ ctl.cnt \in 0 .. Many
        /\ ctl.at \in {"send", "pending"} /\ ctl.held \in BOOLEAN
    BY <1>3 DEF TimingInv, TypeOK, Requests
  <2>2. CASE Pending /\ ctl.cnt = 4
    <3>1. /\ ctl' = None /\ counting' = FALSE /\ dropped' = ctl.age
          /\ blamed' = None
      BY <1>3, <2>2 DEF Requeue
    <3>2. ModeInv' /\ UpperInv' /\ LowerInv'
      BY <1>1, <3>1 DEF ModeInv, UpperInv, LowerInv
    <3>3. ctl.age < Cap => 4 <= Limit
      BY <1>1, <1>3, <2>1, <2>2, Bounds
         DEF TimingInv, UpperInv, Sends, Limit, Seen
    <3>4. ctl.age >= Second + 3 /\ ctl.age \in Ages
      BY <1>1, <2>1, <3>3, Bounds DEF Limit, Seen, Ages
    <3>5. QED
      BY <1>1, <3>1, <3>2, <3>4, ServerStill DEF TimingInv, TypeOK, NotHasty
  <2>3. CASE ~(Pending /\ ctl.cnt = 4)
    <3>1. PICK held \in BOOLEAN, at \in {"send", "pending"} :
             /\ held = (ctl.held \/ ctl.at = "send" \/ counting)
             /\ at = IF ctl.cnt # 0 /\ ctl.age >= Second THEN "send" ELSE ctl.at
             /\ ctl' = [ctl EXCEPT !.held = held, !.at = at]
             /\ counting' = counting /\ Quiet
      BY <1>3, <2>1, <2>3 DEF Requeue
    <3>2. held = FALSE => ~ctl.held /\ ctl.at = "pending" /\ counting = FALSE
      BY <1>1, <2>1, <3>1, Zenon
    <3>3. ctl' \in Requests /\ ctl' # None
      BY <2>1, <3>1, NoneAssumption DEF Requests
    <3>4. /\ ctl'.age = ctl.age /\ ctl'.cnt = ctl.cnt /\ ctl'.held = held
          /\ ctl'.at = at
      BY <2>1, <3>1 DEF Requests
    <3>5. ModeInv'
      BY <1>1, <3>1, <3>3 DEF ModeInv
    <3>6. UpperInv'
      BY <1>1, <1>3, <2>1, <3>1, <3>4, Bounds
         DEF TimingInv, UpperInv, Sends, Limit, Seen
    <3>7. LowerInv'
      <4> SUFFICES ASSUME held = FALSE PROVE LowerInv'
        BY <3>4 DEF LowerInv
      <4>1. /\ ~ctl.held /\ ctl.at = "pending" /\ counting = FALSE
            /\ ctl.cnt # 4
        BY <1>3, <2>3, <3>2 DEF Pending
      <4>2. Seen <= Second + 2 /\ Sends >= Limit
        BY <1>3, <4>1 DEF TimingInv, LowerInv
      <4>3. ctl.age < Cap
        BY <1>1, <2>1, <4>2, Bounds DEF Seen
      <4>4. Sends <= Limit
        BY <1>3, <4>3 DEF TimingInv, UpperInv
      <4>5. Sends = ctl.cnt
        BY <2>1, <4>1 DEF Sends
      <4>6. ctl.cnt = IF ctl.age <= Second THEN 1 ELSE ctl.age - Second + 1
        BY <1>1, <2>1, <4>2, <4>4, <4>5, Bounds DEF Limit, Seen
      <4>7. QED
        BY <1>1, <2>1, <3>1, <3>4, <4>1, <4>2, <4>6, Bounds
           DEF LowerInv, Sends, Limit, Seen
    <3>8. QED
      BY <1>1, <3>1, <3>3, <3>5, <3>6, <3>7, ServerStill, QuietInv
         DEF TimingInv, TypeOK
  <2>4. QED
    BY <2>2, <2>3
<1>4. QED
  BY <1>2, <1>3

\* No tick looks at the request while emergency mode lasts.
LEMMA StartEmergencyInv ==
    ASSUME TimingInv, StartEmergency
    PROVE  /\ ctl' \in Requests \cup {None} /\ counting' \in BOOLEAN
           /\ ModeInv' /\ StallInv' /\ UpperInv' /\ LowerInv'
<1>1. /\ emergency' = TRUE /\ rqDue' = FALSE /\ counting' = counting
      /\ counting \in BOOLEAN /\ rqDue \in BOOLEAN
      /\ ctl' = IF ctl = None THEN None ELSE [ctl EXCEPT !.held = TRUE]
  BY DEF StartEmergency, TimingInv, TypeOK
<1>2. StallInv'
  BY <1>1 DEF StallInv
<1>3. CASE ctl = None
  BY <1>1, <1>2, <1>3 DEF TimingInv, ModeInv, UpperInv, LowerInv
<1>4. CASE ctl # None
  <2>1. ctl \in Requests /\ ctl.age \in -1 .. Cap /\ ctl.cnt \in 0 .. Many
    BY <1>4 DEF TimingInv, TypeOK, Requests
  <2>2. ctl' \in Requests /\ ctl' # None
    BY <1>1, <1>4, <2>1, NoneAssumption DEF Requests
  <2>3. /\ ctl'.age = ctl.age /\ ctl'.cnt = ctl.cnt /\ ctl'.at = ctl.at
        /\ ctl'.held = TRUE
    BY <1>1, <1>4, <2>1 DEF Requests
  <2>4. ModeInv' /\ LowerInv'
    BY <1>1, <2>2, <2>3 DEF ModeInv, LowerInv
  <2>5. UpperInv'
    BY <1>1, <1>4, <2>1, <2>3, Bounds
       DEF TimingInv, UpperInv, Sends, Limit, Seen
  <2>6. QED
    BY <1>1, <1>2, <2>2, <2>4, <2>5
<1>5. QED
  BY <1>3, <1>4

LEMMA StopEmergencyStep == ASSUME TimingInv, StopEmergency PROVE TimingInv'
<1>1. /\ emergency = TRUE /\ emergency' = FALSE /\ rqDue = FALSE
      /\ toIn' = Second /\ rqDue' = rqDue /\ silence' = 0 /\ Quiet
      /\ owed' = IF owed = None THEN None ELSE 0
      /\ counting \in BOOLEAN
  BY DEF StopEmergency, TimingInv, TypeOK, ModeInv
<1>2. StallInv' /\ owed' \in Ages \cup {None} /\ silence' \in Ages
        /\ toIn' \in 0 .. Second
  BY <1>1, Bounds DEF StallInv
<1>3. /\ ctl' \in Requests \cup {None} /\ counting' \in BOOLEAN
      /\ ModeInv' /\ UpperInv' /\ LowerInv'
  <2>1. CASE ctl' = None
    <3>1. counting' = FALSE
      <4>1. CASE ctl = None
        BY <1>1, <4>1 DEF TimingInv, ModeInv, StopEmergency, Pending
      <4>2. CASE ctl # None
        <5>1. ctl' # ctl /\ ctl' # Aged(ctl)
          BY <2>1, <4>2, AgedRequest DEF TimingInv, TypeOK
        <5>2. QED
          BY <5>1 DEF StopEmergency
      <4>3. QED
        BY <4>1, <4>2, Zenon
    <3>2. QED
      BY <1>1, <2>1, <3>1 DEF ModeInv, UpperInv, LowerInv
  <2>2. CASE ctl' # None
    <3>1. ctl' \in {ctl, Aged(ctl)} /\ counting' = counting
      BY <2>2 DEF StopEmergency
    <3>2. ctl # None
      BY <2>2, <3>1 DEF Aged
    <3>3. ctl \in Requests /\ ctl.age \in -1 .. Cap /\ ctl.cnt \in 0 .. Many
      BY <3>2 DEF TimingInv, TypeOK, Requests
    <3>4. /\ ctl' \in Requests /\ ctl'.cnt = ctl.cnt /\ ctl'.at = ctl.at
          /\ ctl'.held = ctl.held
          /\ \/ ctl'.age = ctl.age
             \/ ctl'.age = IF ctl.age < Cap THEN ctl.age + 1 ELSE Cap
      BY <3>1, <3>3, AgedRequest, OlderAge
    <3>5. ModeInv' /\ LowerInv'
      BY <1>1, <2>2, <3>2, <3>4 DEF TimingInv, ModeInv, LowerInv
    <3>6. UpperInv'
      BY <1>1, <3>1, <3>2, <3>3, <3>4, Bounds
         DEF TimingInv, UpperInv, Sends, Limit, Seen
    <3>7. QED
      BY <1>1, <3>1, <3>4, <3>5, <3>6
  <2>3. QED
    BY <2>1, <2>2
<1>4. QED
  BY <1>1, <1>2, <1>3, QuietInv DEF TimingInv, TypeOK

LEMMA ToTickStep == ASSUME TimingInv, ToTick PROVE TimingInv'
<1>1. /\ toIn = 0 /\ toIn' = Second /\ emergency = FALSE /\ dropped' = None
      /\ toIn' \in 0 .. Second /\ NotHasty'
      /\ silence \in Ages /\ owed \in Ages \cup {None}
  BY Bounds DEF ToTick, TimingInv, TypeOK, NotHasty
<1>2. blamed' \in Ages \cup {None}
  BY <1>1 DEF ToTick
<1>3. CASE UNCHANGED <<ctlVars, emergency, rqDue>>
  <2>1. silence' \in Ages /\ owed' \in Ages \cup {None}
    BY <1>1, <1>3, Bounds DEF ToTick, OtherServer, StartEmergency
  <2>2. StallInv'
    <3>1. CASE OtherServer
      BY <1>1, <3>1, Bounds DEF OtherServer, StallInv
    <3>2. CASE ~OtherServer
      <4>1. ~(owed # None /\ silence > Stalled) /\ UNCHANGED <<silence, owed>>
        BY <1>1, <1>3, <3>2 DEF ToTick, StartEmergency
      <4>2. QED
        BY <1>1, <4>1, Bounds DEF StallInv, Ages
    <3>3. QED
      BY <3>1, <3>2
  <2>3. QED
    BY <1>1, <1>2, <2>1, <2>2, <1>3, RequestStill DEF TimingInv, TypeOK
<1>4. CASE StartEmergency
  <2>1. UNCHANGED <<silence, owed>> /\ emergency' = TRUE /\ rqDue' = FALSE
    BY <1>4 DEF StartEmergency
  <2>2. QED
    BY <1>1, <1>2, <1>4, <2>1, StartEmergencyInv DEF TimingInv, TypeOK
<1>5. QED
  BY <1>3, <1>4 DEF ToTick

LEMMA StutteringStep == ASSUME TimingInv, UNCHANGED vars PROVE TimingInv'
<1>1. UNCHANGED <<ctlVars, silence, owed, emergency, toIn, rqDue, blamed, dropped>>
  BY DEF vars, timers
<1>2. NotHasty' /\ {blamed', dropped'} \subseteq Ages \cup {None}
  BY <1>1 DEF TimingInv, TypeOK, NotHasty
<1>3. QED
  BY <1>1, <1>2, RequestStill, ServerStill DEF TimingInv, TypeOK

\* The inductive invariant of the timers holds in every reachable state.
THEOREM TimingInvariance == Spec => []TimingInv
<1>1. TimingInv /\ [Next]_vars => TimingInv'
  BY TickStep, BlockStep, AskStep, SenderStep, EndStep, RequeueStep,
     StopEmergencyStep, ToTickStep, StutteringStep DEF Next
<1>2. QED
  BY InitTimingInv, <1>1, PTL DEF Spec

\* Every variable has its type: no age grows past the bound unnoticed.
THEOREM TimingTypeCorrect == Spec => []TypeOK
<1>1. TimingInv => TypeOK
  BY DEF TimingInv
<1>2. QED
  BY TimingInvariance, <1>1, PTL

\* A server that is silent while it owes an answer is replaced, or emergency
\* mode begins, within TIMEOUT_STALLED and one period of the timer.
THEOREM StallDetected == Spec => []Detected
<1>1. TimingInv => Detected
  <2> SUFFICES ASSUME TimingInv, ~emergency, owed # None
               PROVE  Min({owed, silence}) <= Stalled + Second
    BY DEF Detected
  <2>1. owed \in Nat /\ silence \in Nat /\ toIn \in Nat
    BY DEF TimingInv, TypeOK, Ages
  <2>2. \/ owed + toIn <= Stalled + Second
        \/ silence + toIn <= Stalled + Second
    BY DEF TimingInv, StallInv
  <2>3. Min({owed, silence}) = IF owed <= silence THEN owed ELSE silence
    BY <2>1, MinOfTwo
  <2>4. QED
    BY <2>1, <2>2, <2>3, Bounds
<1>2. QED
  BY TimingInvariance, <1>1, PTL

\* A control request that every tick finds sent and counted ends at the latest
\* three ticks after its first second.
THEOREM ControlIsBounded == Spec => []ControlEnds
<1>1. TimingInv => ControlEnds
  <2> SUFFICES ASSUME TimingInv, ctl # None, ~ctl.held
               PROVE  ctl.age <= Second + 3
    BY DEF ControlEnds
  <2>1. ctl.age \in Int /\ rqDue \in BOOLEAN
    BY DEF TimingInv, TypeOK, Requests
  <2>2. QED
    BY <2>1, Bounds DEF TimingInv, LowerInv, Seen
<1>2. QED
  BY TimingInvariance, <1>1, PTL

\* No control request is given up before that, whatever the sender does and
\* however often emergency mode comes and goes.
THEOREM NeverHasty == Spec => []NotHasty
<1>1. TimingInv => NotHasty
  BY DEF TimingInv
<1>2. QED
  BY TimingInvariance, <1>1, PTL

-----------------------------------------------------------------------------
(* Dnbd2Rtt.                                                               *)

\* No word overflows: the smoothed time is the mean, rounded down.
LEMMA SmoothExact ==
    ASSUME NEW s \in Nat, NEW rtt \in Nat, s <= RttMax * Unit, rtt <= RttMax
    PROVE  Smooth(s, rtt) = (990 * s + 10240 * rtt) \div 1000
<1>1. 990 * s \in 0 .. Word - 1 /\ 990 * s + 10240 * rtt \in 0 .. Word - 1
  BY SMT, WordAssumption DEF Unit
<1>2. /\ (990 * s) % Word = 990 * s
      /\ (990 * s + 10240 * rtt) % Word = 990 * s + 10240 * rtt
  BY SMT, <1>1, WordAssumption
<1>3. 10 * rtt * Unit = 10240 * rtt
  BY SMT DEF Unit
<1> QED
  BY <1>2, <1>3 DEF Smooth

\* SRTT_BETA and its complement weigh by parts of SRTT_BETA_BASE: the mean of
\* two numbers between two bounds is between them.
LEMMA SmoothBetween ==
    ASSUME NEW lo \in Nat, NEW hi \in Nat, NEW s \in Nat, NEW rtt \in Nat,
           hi <= RttMax, lo * Unit <= s, s <= hi * Unit, lo <= rtt, rtt <= hi
    PROVE  /\ Smooth(s, rtt) \in Nat
           /\ lo * Unit <= Smooth(s, rtt)
           /\ Smooth(s, rtt) <= hi * Unit
<1>1. s <= RttMax * Unit /\ rtt <= RttMax
  BY SMT, WordAssumption DEF Unit
<1> DEFINE sum == 990 * s + 10240 * rtt
<1>2. Smooth(s, rtt) = sum \div 1000
  BY <1>1, SmoothExact
<1>3. sum \in Nat /\ lo * 1024000 <= sum /\ sum <= hi * 1024000
  BY SMT DEF Unit
<1> HIDE DEF sum
<1> QED
  BY SMT, <1>2, <1>3 DEF Unit

\* A block's time draws the smoothed time of dnbd2_rx_loop's server towards it
\* and never beyond; from below, it comes as near as a tenth of a jiffy.
THEOREM SmoothConverges ==
    ASSUME NEW s \in Nat, NEW rtt \in Nat, s <= RttMax * Unit, rtt <= RttMax
    PROVE  /\ rtt * Unit <= s =>
                 rtt * Unit <= Smooth(s, rtt) /\ Smooth(s, rtt) <= s
           /\ rtt * Unit < s => Smooth(s, rtt) < s
           /\ s <= rtt * Unit =>
                 s <= Smooth(s, rtt) /\ Smooth(s, rtt) <= rtt * Unit
           /\ s + 100 <= rtt * Unit => s < Smooth(s, rtt)
<1>1. Smooth(s, rtt) = (990 * s + 10240 * rtt) \div 1000
  BY SmoothExact
<1> QED
  BY SMT, <1>1 DEF Unit

-----------------------------------------------------------------------------

RttInv == RttTypeOK /\ SrttBounded /\ Unmeasured /\ TakeOverImproves

\* Facts about the constants in the form the steps use.
LEMMA RttFacts ==
    /\ 0 \in Slots /\ RttMax \in Nat /\ RttMax >= 1 /\ Unit = 1024
    /\ Nobody \notin Slots
    /\ \A i \in Slots : i \in Nat
  BY SlotsAssumption, WordAssumption DEF Slots, Unit, Nobody

LEMMA InitRttInv == RttInit => RttInv
<1> SUFFICES ASSUME RttInit PROVE RttInv
  OBVIOUS
<1>1. RttTypeOK
  BY RttFacts DEF RttInit, RttTypeOK
<1>2. SrttBounded /\ Unmeasured
  BY RttFacts DEF RttInit, SrttBounded, Unmeasured
<1>3. TakeOverImproves
  BY DEF RttInit, TakeOverImproves
<1> QED
  BY <1>1, <1>2, <1>3 DEF RttInv

LEMMA UpdateInv ==
    ASSUME RttInv, NEW i \in Slots, NEW sample \in Samples,
           NEW block \in BOOLEAN,
           UpdateRtt(i, sample, block)
    PROVE  RttInv'
<1> DEFINE rtt == Rounded(sample)
           mn == IF rtt < min[i] THEN rtt ELSE min[i]
           mx == IF rtt > max[i] THEN rtt ELSE max[i]
           sr == IF srtt[i] = 0 \/ ~block THEN rtt * Unit
                 ELSE Smooth(srtt[i], rtt)
<1> USE RttFacts
<1>1. rtt \in Nat /\ 1 <= rtt /\ rtt <= RttMax
  BY TimesAssumption DEF Rounded, UpdateRtt
<1>2. /\ min' = [min EXCEPT ![i] = mn]
      /\ max' = [max EXCEPT ![i] = mx]
      /\ srtt' = [srtt EXCEPT ![i] = sr]
      /\ i \in used /\ used' = used /\ active' = active /\ prev' = Nobody
  BY DEF UpdateRtt
<1>3. /\ min[i] \in 0 .. RttMax /\ max[i] \in 0 .. RttMax
      /\ srtt[i] \in 0 .. RttMax * Unit
  BY DEF RttInv, RttTypeOK
<1>4. min[i] >= 1
  BY <1>2, <1>3 DEF RttInv, SrttBounded, Unmeasured
<1> HIDE DEF rtt
<1>5. /\ mn \in 1 .. RttMax /\ mx \in 0 .. RttMax /\ mn <= rtt /\ rtt <= mx
      /\ mn <= min[i] /\ max[i] <= mx
  BY <1>1, <1>3, <1>4
<1>6. sr \in Nat /\ mn * Unit <= sr /\ sr <= mx * Unit
  <2>1. CASE srtt[i] = 0 \/ ~block
    BY <2>1, <1>1, <1>5
  <2>2. CASE srtt[i] # 0 /\ block
    <3>1. min[i] * Unit <= srtt[i] /\ srtt[i] <= max[i] * Unit
      BY <2>2 DEF RttInv, SrttBounded
    <3>2. sr = Smooth(srtt[i], rtt)
      BY <2>2
    <3> HIDE DEF mn, mx, sr
    <3>3. mn * Unit <= srtt[i] /\ srtt[i] <= mx * Unit
      BY <3>1, <1>3, <1>5
    <3> QED
      BY <3>2, <3>3, <1>1, <1>3, <1>5, SmoothBetween
  <2> QED
    BY <2>1, <2>2
<1> HIDE DEF mn, mx, sr
<1>7. sr \in 1 .. RttMax * Unit
  BY <1>5, <1>6
<1>8. RttTypeOK'
  BY <1>2, <1>5, <1>7 DEF RttInv, RttTypeOK
<1>9. SrttBounded' /\ Unmeasured'
  BY <1>2, <1>5, <1>6, <1>7 DEF RttInv, RttTypeOK, SrttBounded, Unmeasured
<1>10. TakeOverImproves'
  BY <1>2 DEF TakeOverImproves
<1> QED
  BY <1>8, <1>9, <1>10 DEF RttInv

LEMMA AddInv ==
    ASSUME RttInv, NEW i \in Slots, AddServer(i)
    PROVE  RttInv'
<1> USE RttFacts
<1>1. RttTypeOK'
  BY DEF RttInv, RttTypeOK, AddServer
<1>2. SrttBounded' /\ Unmeasured'
  BY DEF RttInv, RttTypeOK, SrttBounded, Unmeasured, AddServer
<1>3. TakeOverImproves'
  BY DEF TakeOverImproves, AddServer
<1> QED
  BY <1>1, <1>2, <1>3 DEF RttInv

LEMMA DelInv ==
    ASSUME RttInv, NEW i \in Slots, DelServer(i)
    PROVE  RttInv'
<1> USE RttFacts
<1>1. RttTypeOK'
  BY DEF RttInv, RttTypeOK, DelServer
<1>2. SrttBounded' /\ Unmeasured'
  BY DEF RttInv, RttTypeOK, SrttBounded, Unmeasured, DelServer
<1>3. TakeOverImproves'
  BY DEF TakeOverImproves, DelServer
<1> QED
  BY <1>1, <1>2, <1>3 DEF RttInv

\* A take-over that passes the test is to a server that is not slower.
LEMMA WorthNotSlower ==
    ASSUME NEW old \in Nat, NEW new \in Nat, ToPercent >= 0, Worth(old, new)
    PROVE  new <= old
<1>1. CASE ToPercent # 0
  <2>1. 100 * (old - new) >= ToPercent * old
    BY <1>1 DEF Worth
  <2>2. ToPercent * old >= 0
    BY SMT, TimesAssumption
  <2> QED
    BY SMT, <2>1, <2>2, TimesAssumption
<1>2. CASE ToPercent = 0
  BY SMT, <1>2, TimesAssumption DEF Worth
<1> QED
  BY <1>1, <1>2

LEMMA TakeOverInv ==
    ASSUME RttInv, TakeOver
    PROVE  RttInv'
<1> USE RttFacts
<1>1. PICK i \in Slots :
         /\ IsFastest(i) /\ Worth(srtt[active] \div Unit, srtt[i] \div Unit)
         /\ active' = i /\ prev' = active
  BY DEF TakeOver
<1>2. UNCHANGED <<used, min, max, srtt>>
  BY DEF TakeOver
<1>3. i \in used /\ min[i] < RttMax
  BY <1>1 DEF IsFastest, Candidates
<1>4. active \in Slots /\ srtt[active] \in Nat /\ srtt[i] \in Nat
  BY DEF RttInv, RttTypeOK
<1>5. RttTypeOK'
  BY <1>1, <1>2, <1>3, <1>4 DEF RttInv, RttTypeOK
<1>6. SrttBounded' /\ Unmeasured'
  BY <1>2 DEF RttInv, SrttBounded, Unmeasured
<1>7. srtt[i] > 0
  BY <1>3, <1>4 DEF RttInv, RttTypeOK, Unmeasured
<1>8. ToPercent >= 0 => srtt[i] \div Unit <= srtt[active] \div Unit
  <2>1. srtt[i] \div Unit \in Nat /\ srtt[active] \div Unit \in Nat
    BY SMT, <1>4
  <2> QED
    BY <1>1, <2>1, WorthNotSlower
<1>9. TakeOverImproves'
  BY <1>1, <1>2, <1>7, <1>8 DEF TakeOverImproves
<1> QED
  BY <1>5, <1>6, <1>9 DEF RttInv

\* The inductive invariant of update_rtt, add_server, del_server and the
\* take-over holds in every reachable state.
THEOREM RttInvariance == RttSpec => []RttInv
<1>1. RttInv /\ [RttNext]_rttVars => RttInv'
  <2> SUFFICES ASSUME RttInv, [RttNext]_rttVars PROVE RttInv'
    OBVIOUS
  <2>1. ASSUME NEW i \in Slots, AddServer(i) PROVE RttInv'
    BY <2>1, AddInv
  <2>2. ASSUME NEW i \in Slots, DelServer(i) PROVE RttInv'
    BY <2>2, DelInv
  <2>3. ASSUME NEW i \in Slots, NEW sample \in Samples, NEW block \in BOOLEAN,
               UpdateRtt(i, sample, block)
        PROVE  RttInv'
    BY <2>3, UpdateInv
  <2>4. CASE TakeOver
    BY <2>4, TakeOverInv
  <2>5. CASE UNCHANGED rttVars
    BY <2>5 DEF rttVars, RttInv, RttTypeOK, SrttBounded, Unmeasured,
                TakeOverImproves
  <2> QED
    BY <2>1, <2>2, <2>3, <2>4, <2>5 DEF RttNext
<1> QED
  BY InitRttInv, <1>1, PTL DEF RttSpec

\* Every time kept for a server stays in its range, for any RTT_MAX.
THEOREM RttTypeCorrect == RttSpec => []RttTypeOK
  BY RttInvariance, PTL DEF RttInv

\* update_rtt keeps srtt between the times measured.
THEOREM SrttIsBounded == RttSpec => []SrttBounded
  BY RttInvariance, PTL DEF RttInv

\* del_server resets all that add_server relies on.
THEOREM NothingLeft == RttSpec => []Unmeasured
  BY RttInvariance, PTL DEF RttInv

\* activate_fastest_work does not change to a slower server.
THEOREM TakeOversImprove == RttSpec => []TakeOverImproves
  BY RttInvariance, PTL DEF RttInv
=============================================================================
