---------------------------- MODULE Dnbd2Timing -----------------------------
(***************************************************************************)
(* The clocks of the DNBD2 driver: when a server counts as stalled         *)
(* (servers.c, activate_fastest_work) and when a control request is sent   *)
(* again and given up (core.c, dnbd2_requeue_timer).  Both are left open   *)
(* in Dnbd2Servers.                                                        *)
(*                                                                         *)
(* Time passes in steps of REQUEUE_INTERVAL, of which a second is taken to *)
(* have a whole number.  Timers and works run when they are due; the       *)
(* sender may take its time between any two steps.  The device runs.  One  *)
(* block request and one control request are looked at; whoever is asked   *)
(* may answer at any time, or never.                                       *)
(***************************************************************************)
EXTENDS Integers, FiniteSetsExt

CONSTANTS
    Second,  \* HZ, in steps of REQUEUE_INTERVAL (20): also TO_INTERVAL
    None     \* nothing

ASSUME SecondAssumption == Second \in Nat \ {0}

Stalled == 3 * Second         \* TIMEOUT_STALLED
Cap == Stalled + Second + 2   \* bound: no age is measured beyond
Many == 5                     \* bound: no more sends are counted
Ages == 0 .. Cap

\* A control request: its age, rounded down, its count of sends, its queue, and
\* (history) whether a tick of requeue_timer has missed it.
Requests == [age : -1 .. Cap, cnt : 0 .. Many, at : {"send", "pending"},
             held : BOOLEAN]

ASSUME NoneAssumption == None \notin Requests

VARIABLES
    silence,    \* jiffies - last_reply of the active server, rounded up
    owed,       \* how long it has owed an answer to a block request
    ctl,        \* a control request
    counting,   \* the sender has still to count the last send of ctl
    emergency,  \* emergency mode
    toIn,       \* time until to_timer fires
    rqDue,      \* requeue_timer is due
    blamed,     \* history: owed, when the last step found the server stalled
    dropped     \* history: age of the request that the last step gave up

ctlVars == <<ctl, counting>>
timers == <<emergency, toIn, rqDue>>
vars == <<silence, owed, ctlVars, timers, blamed, dropped>>

\* The active server has just answered CMD_GET_SIZE; the timers were added
\* before.
Init ==
    /\ silence = 0 /\ owed = None
    /\ ctl = None /\ counting = FALSE
    /\ emergency = FALSE /\ toIn \in 1 .. Second /\ rqDue = FALSE
    /\ blamed = None /\ dropped = None

Older(age) == Min({age + 1, Cap})
Aged(c) == IF c = None THEN None ELSE [c EXCEPT !.age = Older(@)]
Quiet == blamed' = None /\ dropped' = None

\* Another server becomes the active one, whose last reply may have come at any
\* time.  It is asked for the block.
OtherServer ==
    /\ silence' \in Ages
    /\ owed' = IF owed = None THEN None ELSE 0

Pending == ctl # None /\ ctl.at = "pending"

\* Timers that are due fire first; in emergency mode these two are off.
Tick ==
    /\ ~emergency => toIn > 0 /\ ~rqDue
    /\ silence' = Older(silence)
    /\ owed' = IF owed = None THEN None ELSE Older(owed)
    /\ ctl' = Aged(ctl)
    /\ toIn' = IF emergency THEN toIn ELSE toIn - 1
    /\ rqDue' = ~emergency
    /\ UNCHANGED <<counting, emergency>> /\ Quiet

-----------------------------------------------------------------------------
(* The block request.                                                      *)

\* dnbd2_request.
Read ==
    /\ owed = None
    /\ owed' = 0
    /\ UNCHANGED <<silence, ctlVars, timers>> /\ Quiet

\* dnbd2_rx_loop: this block, or another one, from the active server or from
\* the one before.
Block ==
    /\ owed # None
    /\ owed' \in {None, owed} /\ silence' \in {0, silence}
    /\ UNCHANGED <<ctlVars, timers>> /\ Quiet

\* store_active.
StoreActive ==
    /\ OtherServer
    /\ UNCHANGED <<ctlVars, timers>> /\ Quiet

-----------------------------------------------------------------------------
(* The control request.                                                    *)

\* enqueue_hb or srv_get_capacity, at a tick or between two.
Ask ==
    /\ ctl = None
    /\ \E age \in {-1, 0} :
          /\ rqDue => age = 0
          /\ ctl' = [age |-> age, cnt |-> 0, at |-> "send", held |-> emergency]
    /\ UNCHANGED <<silence, owed, counting, timers>> /\ Quiet

\* dnbd2_tx_loop: into the pending-queue and to the server ...
Send ==
    /\ ctl # None /\ ctl.at = "send" /\ ~counting
    /\ ctl' = [ctl EXCEPT !.at = "pending"]
    /\ counting' = TRUE
    /\ UNCHANGED <<silence, owed, timers>> /\ Quiet

\* ... or, if that one has been removed, away ...
Discard ==
    /\ ctl # None /\ ctl.at = "send" /\ ~counting
    /\ ctl' = None
    /\ UNCHANGED <<silence, owed, counting, timers>> /\ Quiet

\* ... and dnbd2_send_request counts.
Count ==
    /\ counting
    /\ ctl' = [ctl EXCEPT !.cnt = Min({@ + 1, Many})]
    /\ counting' = FALSE
    /\ UNCHANGED <<silence, owed, timers>> /\ Quiet

\* dnbd2_rx_loop: the reply, from the active server or another one.  What a
\* sender still does to the request is not looked at here.
Answer ==
    /\ Pending
    /\ ctl' = None /\ counting' = FALSE
    /\ silence' \in {0, silence}
    /\ UNCHANGED <<owed, timers>> /\ Quiet

\* Mutant: given up after the fifth send.
RequeueFive ==
    /\ rqDue /\ ~emergency
    /\ LET held == ctl.held \/ ctl.at = "send" \/ counting IN
       CASE ctl = None -> UNCHANGED ctlVars /\ Quiet
         [] Pending /\ ctl.cnt = 5 ->
              /\ ctl' = None /\ counting' = FALSE
              /\ dropped' = ctl.age /\ blamed' = None
         [] OTHER ->
              /\ ctl' = [ctl EXCEPT !.held = held,
                            !.at = IF ctl.cnt # 0 /\ ctl.age >= Second
                                   THEN "send" ELSE @]
              /\ UNCHANGED counting /\ Quiet
    /\ rqDue' = FALSE
    /\ UNCHANGED <<silence, owed, emergency, toIn>>

\* Mutant: sent again at every tick.
RequeueHasty ==
    /\ rqDue /\ ~emergency
    /\ LET held == ctl.held \/ ctl.at = "send" \/ counting IN
       CASE ctl = None -> UNCHANGED ctlVars /\ Quiet
         [] Pending /\ ctl.cnt = 4 ->
              /\ ctl' = None /\ counting' = FALSE
              /\ dropped' = ctl.age /\ blamed' = None
         [] OTHER ->
              /\ ctl' = [ctl EXCEPT !.held = held,
                            !.at = IF ctl.cnt # 0 THEN "send" ELSE @]
              /\ UNCHANGED counting /\ Quiet
    /\ rqDue' = FALSE
    /\ UNCHANGED <<silence, owed, emergency, toIn>>

\* dnbd2_requeue_timer.  The age is that of the request, not of the last send;
\* the count may not yet be that of its sends.
Requeue ==
    /\ rqDue /\ ~emergency
    /\ LET held == ctl.held \/ ctl.at = "send" \/ counting IN
       CASE ctl = None -> UNCHANGED ctlVars /\ Quiet
         [] Pending /\ ctl.cnt = 4 ->
              /\ ctl' = None /\ counting' = FALSE
              /\ dropped' = ctl.age /\ blamed' = None
         [] OTHER ->
              /\ ctl' = [ctl EXCEPT !.held = held,
                            !.at = IF ctl.cnt # 0 /\ ctl.age >= Second
                                   THEN "send" ELSE @]
              /\ UNCHANGED counting /\ Quiet
    /\ rqDue' = FALSE
    /\ UNCHANGED <<silence, owed, emergency, toIn>>

-----------------------------------------------------------------------------
(* The active server.                                                      *)

\* start_emergency.  No tick will look at the request.
StartEmergency ==
    /\ emergency' = TRUE /\ rqDue' = FALSE
    /\ ctl' = IF ctl = None THEN None ELSE [ctl EXCEPT !.held = TRUE]
    /\ UNCHANGED <<silence, owed, counting>>

\* dnbd2_rx_loop and stop_emergency: a heartbeat is answered, this one or
\* another, and its server becomes the active one.  The timers start anew,
\* between two ticks of the old ones.
StopEmergency ==
    /\ emergency /\ emergency' = FALSE
    /\ toIn' = Second /\ UNCHANGED rqDue
    /\ silence' = 0 /\ owed' = IF owed = None THEN None ELSE 0
    /\ \/ ctl' \in {ctl, Aged(ctl)} /\ UNCHANGED counting
       \/ Pending /\ ctl' = None /\ counting' = FALSE
    /\ Quiet

\* Mutant: the timer is set to the wrong interval.
ToTickLate ==
    /\ toIn = 0 /\ ~emergency
    /\ toIn' = Stalled
    /\ dropped' = None
    /\ IF owed # None /\ silence > Stalled
       THEN /\ blamed' = owed
            /\ \/ OtherServer /\ UNCHANGED <<ctlVars, emergency, rqDue>>
               \/ StartEmergency
       ELSE /\ blamed' = None
            /\ UNCHANGED <<silence, owed>> \/ OtherServer
            /\ UNCHANGED <<ctlVars, emergency, rqDue>>

\* dnbd2_to_timer and activate_fastest_work.  A server that is stalled is
\* replaced, unless there is no other one; one that is not, or has just become
\* the active one, may give way to a faster one.
ToTick ==
    /\ toIn = 0 /\ ~emergency
    /\ toIn' = Second
    /\ dropped' = None
    /\ IF owed # None /\ silence > Stalled
       THEN /\ blamed' = owed
            /\ \/ OtherServer /\ UNCHANGED <<ctlVars, emergency, rqDue>>
               \/ StartEmergency
       ELSE /\ blamed' = None
            /\ UNCHANGED <<silence, owed>> \/ OtherServer
            /\ UNCHANGED <<ctlVars, emergency, rqDue>>

Next ==
    \/ Tick \/ Read \/ Block \/ StoreActive
    \/ Ask \/ Send \/ Discard \/ Count \/ Answer
    \/ Requeue \/ StopEmergency \/ ToTick

Spec == Init /\ [][Next]_vars

-----------------------------------------------------------------------------

\* Every variable has its type.
TypeOK ==
    /\ silence \in Ages /\ owed \in Ages \cup {None}
    /\ ctl \in Requests \cup {None}
    /\ {counting, emergency, rqDue} \subseteq BOOLEAN
    /\ toIn \in 0 .. Second
    /\ {blamed, dropped} \subseteq Ages \cup {None}

\* A server that is silent while it owes an answer does not remain unnoticed
\* for longer than TIMEOUT_STALLED and one period of the timer: it is replaced,
\* or, if there is no other one, emergency mode begins.
Detected ==
    ~emergency /\ owed # None => Min({owed, silence}) <= Stalled + Second

\* A control request ends, by an answer or not, within three ticks after its
\* first second, if every tick found it sent and counted.  Of others nothing is
\* said: their count may have passed the one at which they are given up.
ControlEnds == ctl # None /\ ~ctl.held => ctl.age <= Second + 3

\* It is never given up before that time, however slow the sender is: each of
\* three more sends takes a tick after the first second.
NotHasty == dropped # None => dropped >= Second + 3

\* servers.h:20-21: a server is down "after this interval without answering
\* requests".
DownOnlyIfOwed == blamed # None => blamed >= Stalled

\* servers.h:48-50: a control request is sent every second and given up after
\* four.
FourSeconds == dropped # None => dropped >= 4 * Second
=============================================================================
