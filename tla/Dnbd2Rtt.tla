------------------------------ MODULE Dnbd2Rtt ------------------------------
(***************************************************************************)
(* The round-trip times of the servers of a DNBD2 device and what is done  *)
(* with them (src/contrib/dnbd2/trunk/kernel/servers.c, update_rtt,        *)
(* fastest_server and the second half of activate_fastest_work).           *)
(* Times are in jiffies; srtt is in 1/1024 of a jiffy and kept in an       *)
(* unsigned long, which wraps around.                                      *)
(***************************************************************************)
EXTENDS Integers

CONSTANTS
    NSlots,     \* ALT_SERVERS_MAX
    RttMax,     \* RTT_MAX, HZ / 4
    Word,       \* values of an unsigned long: 2^32 or 2^64
    Samples,    \* bound: the times at which replies come, in jiffies
    ToPercent,  \* dev->to_percent
    ToJiffies   \* dev->to_jiffies

ASSUME SlotsAssumption == NSlots \in Nat \ {0}

\* With 32 bits, that is an HZ of at most 16776; the kernel's is at most 1024.
ASSUME WordAssumption ==
    RttMax \in Nat /\ 1 <= RttMax /\ Word \in Nat /\ 1024000 * RttMax < Word

ASSUME TimesAssumption ==
    Samples \subseteq Nat /\ ToPercent \in Int /\ ToJiffies \in Nat

Slots == 0 .. NSlots - 1
Nobody == NSlots  \* NULL: no slot has this number
Unit == 1024  \* 1 << SRTT_SHIFT

VARIABLES
    used,           \* the slots with a socket
    min, max, srtt, \* per slot
    active,         \* dev->active_server
    prev            \* history: the active server a take-over has left

rttVars == <<used, min, max, srtt, active, prev>>

\* A device that has been started with the server of slot 0, which has not
\* sent a block yet.
RttInit ==
    /\ used = {0} /\ active = 0 /\ prev = Nobody
    /\ min = [i \in Slots |-> IF i = 0 THEN RttMax ELSE 0]
    /\ max = [i \in Slots |-> 0]
    /\ srtt = [i \in Slots |-> 0]

\* Mutant: weights that do not add up to SRTT_BETA_BASE.
SmoothHeavy(s, rtt) == ((((990 * s) % Word) + 20 * rtt * Unit) % Word) \div 1000

\* The weighted mean of the smoothed time and a new one.
Smooth(s, rtt) == ((((990 * s) % Word) + 10 * rtt * Unit) % Word) \div 1000

\* A time of zero counts as one.
Rounded(rtt) == IF rtt = 0 THEN 1 ELSE rtt

\* Mutant: times that are too long are counted.
UpdateRttAll(i, sample, block) ==
    LET rtt == Rounded(sample) IN
    /\ i \in used
    /\ min' = [min EXCEPT ![i] = IF rtt < @ THEN rtt ELSE @]
    /\ max' = [max EXCEPT ![i] = IF rtt > @ THEN rtt ELSE @]
    /\ srtt' = [srtt EXCEPT ![i] = IF @ = 0 \/ ~block THEN rtt * Unit
                                   ELSE Smooth(@, rtt)]
    /\ UNCHANGED <<used, active>> /\ prev' = Nobody

\* update_rtt, of a block or of a control request.
UpdateRtt(i, sample, block) ==
    LET rtt == Rounded(sample) IN
    /\ i \in used /\ rtt <= RttMax
    /\ min' = [min EXCEPT ![i] = IF rtt < @ THEN rtt ELSE @]
    /\ max' = [max EXCEPT ![i] = IF rtt > @ THEN rtt ELSE @]
    /\ srtt' = [srtt EXCEPT ![i] = IF @ = 0 \/ ~block THEN rtt * Unit
                                   ELSE Smooth(@, rtt)]
    /\ UNCHANGED <<used, active>> /\ prev' = Nobody

\* add_server.
AddServer(i) ==
    /\ i \notin used
    /\ used' = used \cup {i}
    /\ min' = [min EXCEPT ![i] = RttMax]
    /\ UNCHANGED <<max, srtt, active>> /\ prev' = Nobody

\* Mutant: the smoothed time is kept.
DelServerKeeps(i) ==
    /\ i \in used /\ i # active
    /\ used' = used \ {i}
    /\ min' = [min EXCEPT ![i] = 0] /\ max' = [max EXCEPT ![i] = 0]
    /\ UNCHANGED <<srtt, active>> /\ prev' = Nobody

\* del_server.
DelServer(i) ==
    /\ i \in used /\ i # active
    /\ used' = used \ {i}
    /\ min' = [min EXCEPT ![i] = 0] /\ max' = [max EXCEPT ![i] = 0]
    /\ srtt' = [srtt EXCEPT ![i] = 0]
    /\ UNCHANGED active /\ prev' = Nobody

\* fastest_server: a server of which nothing was measured is not considered.
Candidates == {i \in used : srtt[i] < RttMax * Unit /\ min[i] < RttMax}
IsFastest(i) ==
    /\ i \in Candidates
    /\ \A j \in Candidates : \/ srtt[i] < srtt[j]
                             \/ srtt[i] = srtt[j] /\ i <= j

\* Whether a server with time new is to replace one with time old, both in
\* jiffies; a threshold of zero is not looked at.
Worth(old, new) ==
    /\ ToPercent # 0 => 100 * (old - new) >= ToPercent * old
    /\ ToJiffies # 0 => new + ToJiffies <= old
    /\ ToPercent # 0 \/ ToJiffies # 0

\* Mutant: the thresholds are tested with the servers exchanged.
TakeOverSwapped ==
    /\ \E i \in Slots :
          /\ IsFastest(i) /\ i # active
          /\ Worth(srtt[i] \div Unit, srtt[active] \div Unit)
          /\ active' = i /\ prev' = active
    /\ UNCHANGED <<used, min, max, srtt>>

\* activate_fastest_work when the active server is not stalled.
TakeOver ==
    /\ \E i \in Slots :
          /\ IsFastest(i) /\ i # active
          /\ Worth(srtt[active] \div Unit, srtt[i] \div Unit)
          /\ active' = i /\ prev' = active
    /\ UNCHANGED <<used, min, max, srtt>>

RttNext ==
    \/ \E i \in Slots : \/ AddServer(i) \/ DelServer(i)
                        \/ \E sample \in Samples, block \in BOOLEAN :
                              UpdateRtt(i, sample, block)
    \/ TakeOver

RttSpec == RttInit /\ [][RttNext]_rttVars

-----------------------------------------------------------------------------

\* Every variable has its type.
RttTypeOK ==
    /\ used \subseteq Slots /\ active \in used
    /\ prev \in Slots \cup {Nobody}
    /\ min \in [Slots -> 0 .. RttMax] /\ max \in [Slots -> 0 .. RttMax]
    /\ srtt \in [Slots -> 0 .. RttMax * Unit]

\* The smoothed time lies between the shortest and the longest time measured,
\* in spite of the integer division and of the wrap-around.  It is zero only as
\* long as nothing was measured.
SrttBounded ==
    \A i \in Slots :
       IF srtt[i] = 0 THEN max[i] = 0
       ELSE min[i] >= 1 /\ min[i] * Unit <= srtt[i] /\ srtt[i] <= max[i] * Unit

\* A slot without a measured time has the values of an empty or of a new slot:
\* nothing of the server before is left.
Unmeasured ==
    \A i \in Slots :
       /\ i \notin used => srtt[i] = 0
       /\ srtt[i] = 0 => min[i] = IF i \in used THEN RttMax ELSE 0

\* A take-over never makes things worse: the new server is measured and not
\* slower, in whole jiffies, than the old one, which is measured, too, if the
\* thresholds are not negative.
TakeOverImproves ==
    prev # Nobody /\ ToPercent >= 0 =>
        /\ 0 < srtt[active]
        /\ srtt[active] \div Unit <= srtt[prev] \div Unit
=============================================================================
