------------------------- MODULE Dnbd1Cache_proofs -------------------------
(***************************************************************************)
(* Proofs about the block cache of a DNBD client, for any number of nodes, *)
(* sectors and blocks: within one session, and with a cache file of two or *)
(* more blocks, no pointer is followed to freed memory or to NULL, tree    *)
(* and list agree, and no two entries share a block as long as no write    *)
(* that reuses an evicted block fails.                                     *)
(***************************************************************************)
EXTENDS Dnbd1Cache, QueueLemmas

\* What the theorems assume of the configuration: see README, "Proofs".
OneSession == MaxSessions <= 1
TwoBlocks == MaxBlocks >= 2

\* Before the session nothing is cached; during it every node of the tree is
\* allocated and the list holds them all.
SessionInv ==
    /\ sessions <= 1
    /\ sessions = 0 => /\ ~up /\ tree = {} /\ live = {} /\ used = 0
                       /\ head = None /\ tail = None
    /\ up => live = tree
    /\ active => max = MaxBlocks

KeysInv == \A n \in tree : key[n] \in Sectors

\* Every block in use has a number below used_blocks.
BlocksInv == lost \/ \A n \in tree : dat[n] < used

IInv == /\ TypeOK /\ SessionInv /\ KeysInv /\ BlocksInv
        /\ NoFault /\ OneOwner /\ ListIsTree

-----------------------------------------------------------------------------
(* The list, pointer by pointer.                                           *)

\* The list s of m nodes after its k-th node was moved to the head, and after
\* n was put before it.
Moved(s, k, m) ==
    [i \in 1 .. m |-> IF i = 1 THEN s[k] ELSE IF i <= k THEN s[i - 1] ELSE s[i]]

Linked(s, n, m) == [i \in 1 .. m + 1 |-> IF i = 1 THEN n ELSE s[i - 1]]

\* Moving the k-th node to the head yields a list of the same nodes.
LEMMA MovedList ==
    ASSUME TypeOK, NEW s \in [1 .. used -> tree], IsList(s),
           NEW k \in 2 .. used, MoveToHead(s[k]), UNCHANGED <<used, tree>>
    PROVE  \E t \in [1 .. used' -> tree'] : t = Moved(s, k, used) /\ IsList(t)'
<1> DEFINE n == s[k]
           t == [i \in 1 .. used |-> IF i = 1 THEN s[k]
                                     ELSE IF i <= k THEN s[i - 1] ELSE s[i]]
<1>1. used \in Nat /\ k \in Nat /\ 2 <= k /\ k <= used /\ tree \subseteq Nodes
  BY CacheAssumption DEF TypeOK, Blocks
<1>2. /\ \A i \in 1 .. used : s[i] \in Nodes /\ s[i] # None
      /\ head = s[1] /\ tail = s[used] /\ prev[n] = s[k - 1]
  BY <1>1, CacheAssumption DEF IsList
<1>3. /\ \A i, j \in 1 .. used : s[i] = s[j] => i = j
      /\ tree = {s[i] : i \in 1 .. used}
      /\ \A i \in 1 .. used :
            /\ prev[s[i]] = (IF i = 1 THEN None ELSE s[i - 1])
            /\ next[s[i]] = (IF i = used THEN None ELSE s[i + 1])
  BY DEF IsList
<1>4. t \in [1 .. used -> tree]
  BY <1>1
<1>5. tree = {t[i] : i \in 1 .. used}
  <2>1. ASSUME NEW m \in tree PROVE \E i \in 1 .. used : m = t[i]
    <3>1. PICK j \in 1 .. used : m = s[j]
      BY <1>3
    <3>2. CASE j = k
      BY <3>1, <3>2, <1>1
    <3>3. CASE j < k
      <4>1. j + 1 \in 1 .. used /\ j + 1 <= k /\ j + 1 # 1 /\ (j + 1) - 1 = j
        BY <3>3, <1>1
      <4>2. t[j + 1] = s[j]
        BY <4>1
      <4>3. QED
        BY <4>1, <4>2, <3>1
    <3>4. CASE j > k
      BY <3>1, <3>4, <1>1
    <3>5. QED
      BY <3>2, <3>3, <3>4, <1>1
  <2>2. QED
    BY <2>1, <1>4
<1>6. \A i, j \in 1 .. used : t[i] = t[j] => i = j
  <2> SUFFICES ASSUME NEW i \in 1 .. used, NEW j \in 1 .. used, t[i] = t[j]
               PROVE  i = j
    OBVIOUS
  <2> DEFINE o(x) == IF x = 1 THEN k ELSE IF x <= k THEN x - 1 ELSE x
  <2>1. o(i) \in 1 .. used /\ o(j) \in 1 .. used
    BY <1>1
  <2>2. t[i] = s[o(i)] /\ t[j] = s[o(j)]
    BY <1>1
  <2>3. o(i) = o(j)
    BY <2>1, <2>2, <1>3
  <2>4. QED
    BY <2>3, <1>1
<1>7. head' = t[1] /\ tail' = t[used]
  <2>1. head' = n /\ tail' = IF next[n] = None THEN prev[n] ELSE tail
    BY DEF MoveToHead
  <2>2. next[n] = None <=> k = used
    BY <1>1, <1>2, <1>3
  <2>3. QED
    BY <2>1, <2>2, <1>1, <1>2
<1>8. ASSUME NEW i \in 1 .. used
      PROVE  prev'[t[i]] = (IF i = 1 THEN None ELSE t[i - 1])
  <2>1. prev' = [m \in Nodes |-> IF m = n THEN None
                                 ELSE IF m = s[1] THEN n
                                 ELSE IF m = next[n] THEN s[k - 1]
                                 ELSE prev[m]]
    BY <1>2 DEF MoveToHead
  <2>2. CASE i = 1
    <3>1. t[i] = n /\ n \in Nodes
      BY <2>2, <1>1, <1>2
    <3>2. QED
      BY <3>1, <2>1, <2>2
  <2>3. CASE i = 2
    <3>1. t[i] = s[1] /\ t[i - 1] = n /\ s[1] # n /\ s[1] \in Nodes
      BY <2>3, <1>1, <1>2, <1>3
    <3>2. QED
      BY <3>1, <2>1, <2>3, <1>1, <1>2
  <2>4. CASE i > 2 /\ i <= k
    <3>1. t[i] = s[i - 1] /\ t[i - 1] = s[i - 2] /\ i - 1 \in 1 .. used
      BY <2>4, <1>1
    <3>2. i - 1 # k /\ i - 1 # 1 /\ k \in 1 .. used /\ 1 \in 1 .. used
      BY <2>4, <1>1
    <3>3. s[i - 1] # n /\ s[i - 1] # s[1]
      BY <3>2, <3>1, <1>3
    <3>4. s[i - 1] # next[n]
      <4>1. CASE k = used
        BY <4>1, <3>1, <1>1, <1>2, <1>3
      <4>2. CASE k # used
        <5>1. next[n] = s[k + 1] /\ k + 1 \in 1 .. used /\ i - 1 # k + 1
          BY <4>2, <2>4, <1>1, <1>3
        <5>2. QED
          BY <5>1, <3>1, <1>3
      <4>3. QED
        BY <4>1, <4>2
    <3>5. prev[s[i - 1]] = s[i - 2]
      BY <2>4, <3>1, <1>1, <1>3
    <3>6. QED
      BY <3>1, <3>3, <3>4, <3>5, <2>1, <2>4, <1>2
  <2>5. CASE i = k + 1
    <3>1. t[i] = s[k + 1] /\ t[i - 1] = s[k - 1]
      BY <2>5, <1>1
    <3>2. s[k + 1] = next[n] /\ s[k + 1] # n /\ s[k + 1] # s[1]
      BY <2>5, <1>1, <1>3
    <3>3. QED
      BY <3>1, <3>2, <2>1, <2>5, <1>1, <1>2
  <2>6. CASE i > k + 1
    <3>1. t[i] = s[i] /\ t[i - 1] = s[i - 1]
      BY <2>6, <1>1
    <3>2. s[i] # n /\ s[i] # s[1] /\ s[i] # next[n]
      BY <2>6, <1>1, <1>2, <1>3
    <3>3. QED
      BY <3>1, <3>2, <2>1, <2>6, <1>1, <1>2, <1>3
  <2>7. QED
    BY <2>2, <2>3, <2>4, <2>5, <2>6, <1>1
<1>9. ASSUME NEW i \in 1 .. used
      PROVE  next'[t[i]] = (IF i = used THEN None ELSE t[i + 1])
  <2>1. next' = [next EXCEPT ![s[k - 1]] = next[n], ![n] = s[1]]
    BY <1>2 DEF MoveToHead
  <2>2. next \in [Nodes -> Nodes \cup {None}] /\ s[k - 1] \in Nodes /\ n \in Nodes
    BY <1>1, <1>2 DEF TypeOK
  <2>3. CASE i = 1
    <3>1. t[i] = n /\ t[i + 1] = s[1] /\ i # used
      BY <2>3, <1>1
    <3>2. QED
      BY <3>1, <2>1, <2>2
  <2>4. CASE i > 1 /\ i < k
    <3>1. t[i] = s[i - 1] /\ t[i + 1] = s[i] /\ i - 1 \in 1 .. used
      BY <2>4, <1>1
    <3>2. s[i - 1] # n /\ s[i - 1] # s[k - 1]
      BY <2>4, <1>1, <1>3
    <3>3. next[s[i - 1]] = s[i] /\ s[i - 1] \in Nodes
      <4>1. i - 1 # used /\ (i - 1) + 1 = i
        BY <2>4, <1>1
      <4>2. QED
        BY <4>1, <3>1, <1>2, <1>3
    <3>4. QED
      BY <3>1, <3>2, <3>3, <2>1, <2>2, <2>4, <1>1
  <2>5. CASE i = k
    <3>1. t[i] = s[k - 1] /\ s[k - 1] # n
      BY <2>5, <1>1, <1>3
    <3>2. next'[t[i]] = next[n]
      BY <3>1, <2>1, <2>2
    <3>3. QED
      BY <3>2, <2>5, <1>1, <1>3
  <2>6. CASE i > k
    <3>1. t[i] = s[i] /\ s[i] # n /\ s[i] # s[k - 1]
      BY <2>6, <1>1, <1>3
    <3>2. next'[t[i]] = next[s[i]]
      BY <3>1, <2>1, <2>2, <1>2
    <3>3. QED
      BY <3>2, <2>6, <1>1, <1>3
  <2>7. QED
    BY <2>3, <2>4, <2>5, <2>6, <1>1
<1>10. PICK c : c = t /\ c = Moved(s, k, used)
  BY DEF Moved
<1> HIDE DEF t
<1>11. used' = used /\ tree' = tree
  OBVIOUS
<1>12. /\ tree = {c[i] : i \in 1 .. used}
       /\ \A i, j \in 1 .. used : c[i] = c[j] => i = j
       /\ head' = c[1] /\ tail' = c[used] /\ used # 0
       /\ \A i \in 1 .. used :
             /\ prev'[c[i]] = (IF i = 1 THEN None ELSE c[i - 1])
             /\ next'[c[i]] = (IF i = used THEN None ELSE c[i + 1])
  <2>1. tree = {c[i] : i \in 1 .. used}
    BY <1>5, <1>10
  <2>2. \A i, j \in 1 .. used : c[i] = c[j] => i = j
    BY <1>6, <1>10
  <2>3. head' = c[1] /\ tail' = c[used] /\ used # 0
    BY <1>1, <1>7, <1>10
  <2>4. \A i \in 1 .. used : prev'[c[i]] = (IF i = 1 THEN None ELSE c[i - 1])
    BY <1>8, <1>10
  <2>5. \A i \in 1 .. used :
           next'[c[i]] = (IF i = used THEN None ELSE c[i + 1])
    BY <1>9, <1>10
  <2>6. QED
    BY <2>1, <2>2, <2>3, <2>4, <2>5
<1>13. IsList(c)'
  BY <1>11, <1>12 DEF IsList
<1>14. QED
  BY <1>4, <1>10, <1>11, <1>13

\* Linking a node that is not in the tree puts it before the list.
LEMMA LinkedList ==
    ASSUME TypeOK, NEW s \in [1 .. used -> tree], IsList(s),
           NEW n \in Nodes \ tree, NEW x, NEW b,
           Link(n, x, b, prev, next, tail, tree), used' = used + 1
    PROVE  \E t \in [1 .. used' -> tree'] : t = Linked(s, n, used) /\ IsList(t)'
<1> DEFINE t == [i \in 1 .. used + 1 |-> IF i = 1 THEN n ELSE s[i - 1]]
<1>1. used \in Nat /\ tree \subseteq Nodes /\ None \notin Nodes
  BY CacheAssumption DEF TypeOK, Blocks
<1>2. /\ \A i \in 1 .. used : s[i] \in Nodes /\ s[i] # None /\ s[i] # n
      /\ head = (IF used = 0 THEN None ELSE s[1])
      /\ tail = (IF used = 0 THEN None ELSE s[used])
  BY <1>1 DEF IsList
<1>3. /\ \A i, j \in 1 .. used : s[i] = s[j] => i = j
      /\ tree = {s[i] : i \in 1 .. used}
      /\ \A i \in 1 .. used :
            /\ prev[s[i]] = (IF i = 1 THEN None ELSE s[i - 1])
            /\ next[s[i]] = (IF i = used THEN None ELSE s[i + 1])
  BY DEF IsList
<1>4. /\ prev' = [m \in Nodes |-> IF m = n THEN None
                                  ELSE IF m = head THEN n ELSE prev[m]]
      /\ next' = [next EXCEPT ![n] = head]
      /\ head' = n
      /\ tail' = (IF tail = None THEN n ELSE tail)
      /\ tree' = tree \cup {n}
  BY DEF Link
<1>5. t \in [1 .. used + 1 -> tree \cup {n}]
  <2>1. ASSUME NEW i \in 1 .. used + 1 PROVE t[i] \in tree \cup {n}
    <3>1. CASE i = 1
      BY <3>1
    <3>2. CASE i # 1
      <4>1. i - 1 \in 1 .. used
        BY <3>2, <1>1
      <4>2. QED
        BY <4>1, <3>2
    <3>3. QED
      BY <3>1, <3>2
  <2>2. QED
    BY <2>1
<1>6. tree \cup {n} = {t[i] : i \in 1 .. used + 1}
  <2>1. ASSUME NEW m \in tree PROVE \E i \in 1 .. used + 1 : m = t[i]
    <3>1. PICK j \in 1 .. used : m = s[j]
      BY <1>3
    <3>2. j + 1 \in 1 .. used + 1 /\ j + 1 # 1 /\ (j + 1) - 1 = j
      BY <1>1
    <3>3. t[j + 1] = s[j]
      BY <3>2
    <3>4. QED
      BY <3>1, <3>2, <3>3
  <2>2. n = t[1] /\ 1 \in 1 .. used + 1
    BY <1>1
  <2>3. QED
    BY <2>1, <2>2, <1>5
<1>7. \A i, j \in 1 .. used + 1 : t[i] = t[j] => i = j
  <2> SUFFICES ASSUME NEW i \in 1 .. used + 1, NEW j \in 1 .. used + 1,
                      t[i] = t[j]
               PROVE  i = j
    OBVIOUS
  <2>1. CASE i = 1 /\ j # 1
    <3>1. j - 1 \in 1 .. used /\ t[j] = s[j - 1] /\ t[i] = n
      BY <2>1, <1>1
    <3>2. QED
      BY <3>1, <1>2
  <2>2. CASE i # 1 /\ j = 1
    <3>1. i - 1 \in 1 .. used /\ t[i] = s[i - 1] /\ t[j] = n
      BY <2>2, <1>1
    <3>2. QED
      BY <3>1, <1>2
  <2>3. CASE i # 1 /\ j # 1
    <3>1. /\ i - 1 \in 1 .. used /\ t[i] = s[i - 1]
          /\ j - 1 \in 1 .. used /\ t[j] = s[j - 1]
      BY <2>3, <1>1
    <3>2. i - 1 = j - 1
      BY <3>1, <1>3
    <3>3. QED
      BY <3>2, <1>1
  <2>4. QED
    BY <2>1, <2>2, <2>3
<1>8. head' = t[1] /\ tail' = t[used + 1]
  <2>1. CASE used = 0
    BY <2>1, <1>1, <1>2, <1>4
  <2>2. CASE used # 0
    <3>1. tail = s[used] /\ tail # None /\ t[used + 1] = s[used]
      BY <2>2, <1>1, <1>2
    <3>2. QED
      BY <3>1, <1>1, <1>4
  <2>3. QED
    BY <2>1, <2>2
<1>9. ASSUME NEW i \in 1 .. used + 1
      PROVE  prev'[t[i]] = (IF i = 1 THEN None ELSE t[i - 1])
  <2>1. CASE i = 1
    BY <2>1, <1>1, <1>4
  <2>2. CASE i = 2
    <3>1. t[i] = s[1] /\ t[i - 1] = n /\ s[1] # n /\ s[1] \in Nodes /\ head = s[1]
      BY <2>2, <1>1, <1>2
    <3>2. QED
      BY <3>1, <2>2, <1>4
  <2>3. CASE i > 2
    <3>1. /\ t[i] = s[i - 1] /\ t[i - 1] = s[i - 2] /\ i - 1 \in 1 .. used
          /\ (i - 1) - 1 = i - 2 /\ i - 1 # 1 /\ i # 1 /\ used # 0
          /\ 1 \in 1 .. used
      BY <2>3, <1>1
    <3>2. s[i - 1] # n /\ s[i - 1] # head /\ s[i - 1] \in Nodes
      BY <3>1, <1>2, <1>3
    <3>3. prev[s[i - 1]] = s[i - 2]
      BY <3>1, <1>3
    <3>4. QED
      BY <3>1, <3>2, <3>3, <1>4
  <2>4. QED
    BY <2>1, <2>2, <2>3, <1>1
<1>10. ASSUME NEW i \in 1 .. used + 1
       PROVE  next'[t[i]] = (IF i = used + 1 THEN None ELSE t[i + 1])
  <2>1. next \in [Nodes -> Nodes \cup {None}]
    BY DEF TypeOK
  <2>2. CASE i = 1
    <3>1. t[i] = n /\ (used # 0 => t[i + 1] = s[1])
      BY <2>2, <1>1
    <3>2. next'[t[i]] = head
      BY <3>1, <2>1, <1>4
    <3>3. QED
      BY <3>1, <3>2, <2>2, <1>1, <1>2
  <2>3. CASE i > 1
    <3>1. /\ t[i] = s[i - 1] /\ i - 1 \in 1 .. used /\ (i - 1) + 1 = i
          /\ i # used + 1 => t[i + 1] = s[i]
          /\ i = used + 1 <=> i - 1 = used
      BY <2>3, <1>1
    <3>2. next'[t[i]] = next[s[i - 1]]
      BY <3>1, <2>1, <1>2, <1>4
    <3>3. QED
      BY <3>1, <3>2, <1>3
  <2>4. QED
    BY <2>2, <2>3, <1>1
<1>11. PICK c : c = t /\ c = Linked(s, n, used)
  BY DEF Linked
<1> HIDE DEF t
<1>12. /\ tree \cup {n} = {c[i] : i \in 1 .. used + 1}
       /\ \A i, j \in 1 .. used + 1 : c[i] = c[j] => i = j
       /\ head' = c[1] /\ tail' = c[used + 1] /\ used + 1 # 0
       /\ \A i \in 1 .. used + 1 :
             /\ prev'[c[i]] = (IF i = 1 THEN None ELSE c[i - 1])
             /\ next'[c[i]] = (IF i = used + 1 THEN None ELSE c[i + 1])
  <2>1. used + 1 # 0
    BY <1>1
  <2>2. /\ tree \cup {n} = {c[i] : i \in 1 .. used + 1}
        /\ \A i, j \in 1 .. used + 1 : c[i] = c[j] => i = j
        /\ head' = c[1] /\ tail' = c[used + 1]
    BY <1>6, <1>7, <1>8, <1>11
  <2>3. \A i \in 1 .. used + 1 :
             prev'[c[i]] = (IF i = 1 THEN None ELSE c[i - 1])
    BY <1>9, <1>11
  <2>4. \A i \in 1 .. used + 1 :
             next'[c[i]] = (IF i = used + 1 THEN None ELSE c[i + 1])
    BY <1>10, <1>11
  <2>5. QED
    BY <2>1, <2>2, <2>3, <2>4
<1>13. IsList(c)'
  <2>1. tree' = tree \cup {n} /\ used' = used + 1
    BY <1>4
  <2>2. QED
    BY <2>1, <1>12 DEF IsList
<1>14. used' = used + 1 /\ tree' = tree \cup {n}
  BY <1>4
<1>15. c \in [1 .. used' -> tree']
  BY <1>5, <1>11, <1>14
<1>16. QED
  BY <1>11, <1>13, <1>15

\* Cutting off the last node of a list of two or more leaves a list.
LEMMA ShortenedList ==
    ASSUME TypeOK, NEW s \in [1 .. used -> tree], IsList(s), used >= 2,
           next' = [next EXCEPT ![prev[tail]] = None], tail' = prev[tail],
           tree' = tree \ {tail}, used' = used - 1, UNCHANGED <<head, prev>>
    PROVE  (\E t \in [1 .. used -> tree] : IsList(t))'
<1> DEFINE t == [i \in 1 .. used - 1 |-> s[i]]
<1>1. used \in Nat /\ tree \subseteq Nodes /\ used - 1 \in 1 .. used
  BY CacheAssumption DEF TypeOK, Blocks
<1>2. /\ \A i, j \in 1 .. used : s[i] = s[j] => i = j
      /\ tree = {s[i] : i \in 1 .. used}
      /\ head = s[1] /\ tail = s[used]
      /\ \A i \in 1 .. used :
            /\ prev[s[i]] = (IF i = 1 THEN None ELSE s[i - 1])
            /\ next[s[i]] = (IF i = used THEN None ELSE s[i + 1])
  BY <1>1 DEF IsList
<1>3. prev[tail] = s[used - 1] /\ s[used - 1] \in Nodes
  BY <1>1, <1>2
<1>4. \A i \in 1 .. used - 1 : s[i] # tail
  BY <1>1, <1>2
<1>5. t \in [1 .. used - 1 -> tree \ {tail}]
  BY <1>1, <1>4
<1>6. tree \ {tail} = {t[i] : i \in 1 .. used - 1}
  <2>1. ASSUME NEW m \in tree \ {tail} PROVE \E i \in 1 .. used - 1 : m = t[i]
    <3>1. PICK j \in 1 .. used : m = s[j]
      BY <1>2
    <3>2. j # used
      BY <3>1, <1>2
    <3>3. QED
      BY <3>1, <3>2, <1>1
  <2>2. QED
    BY <2>1, <1>5
<1>7. \A i, j \in 1 .. used - 1 : t[i] = t[j] => i = j
  BY <1>1, <1>2
<1>8. head' = t[1] /\ tail' = t[used - 1]
  BY <1>1, <1>2, <1>3
<1>9. ASSUME NEW i \in 1 .. used - 1
      PROVE  prev'[t[i]] = (IF i = 1 THEN None ELSE t[i - 1])
  BY <1>1, <1>2
<1>10. ASSUME NEW i \in 1 .. used - 1
       PROVE  next'[t[i]] = (IF i = used - 1 THEN None ELSE t[i + 1])
  <2>1. next \in [Nodes -> Nodes \cup {None}]
    BY DEF TypeOK
  <2>2. next' = [next EXCEPT ![s[used - 1]] = None]
    BY <1>3
  <2>3. CASE i = used - 1
    BY <2>1, <2>2, <2>3, <1>3
  <2>4. CASE i # used - 1
    <3>1. /\ i \in 1 .. used /\ i # used /\ i + 1 \in 1 .. used - 1
          /\ t[i] = s[i] /\ t[i + 1] = s[i + 1] /\ s[i] # s[used - 1]
      BY <2>4, <1>1, <1>2
    <3>2. next'[t[i]] = next[s[i]]
      BY <3>1, <2>1, <2>2, <1>1
    <3>3. QED
      BY <3>1, <3>2, <2>4, <1>2
  <2>5. QED
    BY <2>3, <2>4
<1> HIDE DEF t
<1>11. PICK c : c = t
  OBVIOUS
<1>12. /\ tree \ {tail} = {c[i] : i \in 1 .. used - 1}
       /\ \A i, j \in 1 .. used - 1 : c[i] = c[j] => i = j
       /\ head' = c[1] /\ tail' = c[used - 1] /\ used - 1 # 0
       /\ \A i \in 1 .. used - 1 :
             /\ prev'[c[i]] = (IF i = 1 THEN None ELSE c[i - 1])
             /\ next'[c[i]] = (IF i = used - 1 THEN None ELSE c[i + 1])
  BY <1>1, <1>6, <1>7, <1>8, <1>9, <1>10, <1>11
<1>13. IsList(c)'
  BY <1>12 DEF IsList
<1>14. QED
  BY <1>5, <1>11, <1>13

\* The last node of a full list becomes its first one.
LEMMA EvictedList ==
    ASSUME TypeOK, NEW s \in [1 .. used -> tree], IsList(s), used >= 2,
           NEW x, NEW b,
           Link(tail, x, b, prev, [next EXCEPT ![prev[tail]] = None],
                prev[tail], tree \ {tail}),
           used' = used
    PROVE  /\ tail \in tree /\ tree' = tree
           /\ \E t \in [1 .. used' -> tree'] :
                 t = Moved(s, used, used) /\ IsList(t)'
<1>1. /\ used \in Nat /\ used \in 2 .. used /\ used - 1 \in 1 .. used
      /\ tree \subseteq Nodes /\ None \notin Nodes
  BY CacheAssumption DEF TypeOK, Blocks
<1>2. /\ tail = s[used] /\ tail \in tree
      /\ prev[tail] = s[used - 1] /\ prev[tail] # None /\ next[tail] = None
  BY <1>1 DEF IsList
<1>3. tree' = tree
  BY <1>2 DEF Link
<1>4. MoveToHead(tail)
  <2>1. prev' = [m \in Nodes |-> IF m = tail THEN None
                                 ELSE IF m = head THEN tail
                                 ELSE IF m = next[tail] THEN prev[tail]
                                 ELSE prev[m]]
    BY <1>1, <1>2 DEF Link
  <2>2. /\ next' = [next EXCEPT ![prev[tail]] = next[tail], ![tail] = head]
        /\ head' = tail /\ tail' = prev[tail]
    BY <1>2 DEF Link
  <2>3. QED
    BY <2>1, <2>2, <1>2 DEF MoveToHead
<1>5. QED
  BY <1>1, <1>2, <1>3, <1>4, MovedList

-----------------------------------------------------------------------------
(* The inductive invariant.                                                *)

\* The first state.
LEMMA InitIInv ==
    Init => IInv
<1> SUFFICES ASSUME Init PROVE IInv
  OBVIOUS
<1>1. 0 \in Blocks /\ 0 \in 0 .. MaxBlocks
  BY CacheAssumption DEF Blocks
<1>2. TypeOK
  BY <1>1 DEF Init, TypeOK
<1>3. QED
  BY <1>2 DEF Init, IInv, SessionInv, KeysInv, BlocksInv, NoFault, OneOwner,
              ListIsTree

\* dnbd_cache_init sets up an empty cache.
LEMMA BindStep ==
    ASSUME IInv, OneSession, Bind PROVE IInv'
<1> USE DEF Bind, links
<1>1. sessions = 0 /\ sessions' = 1
  BY CacheAssumption DEF IInv, TypeOK, OneSession
<1>2. tree = {} /\ live = {} /\ used = 0 /\ head = None /\ tail = None
  BY <1>1 DEF IInv, SessionInv
<1>3. TypeOK'
  BY <1>1 DEF IInv, TypeOK, Blocks
<1>4. ListIsTree'
  <2>1. PICK c : c = [i \in 1 .. 0 |-> None]
    OBVIOUS
  <2>2. c \in [1 .. 0 -> {}] /\ 1 .. 0 = {}
    BY <2>1
  <2>3. IsList(c)'
    BY <1>2, <2>2 DEF IsList
  <2>4. QED
    BY <1>2, <2>2, <2>3 DEF ListIsTree
<1>5. SessionInv' /\ KeysInv' /\ BlocksInv' /\ NoFault' /\ OneOwner'
  BY <1>1, <1>2 DEF IInv, SessionInv, KeysInv, BlocksInv, NoFault, OneOwner
<1>6. QED
  BY <1>3, <1>4, <1>5 DEF IInv

\* Steps that leave nodes, list and file alone.
LEMMA QuietStep ==
    ASSUME IInv, TypeOK', SessionInv', up' = up, NoFault',
           UNCHANGED <<used, tree, links, key, dat, lost>>
    PROVE  IInv'
<1>1. KeysInv' /\ BlocksInv' /\ OneOwner'
  BY DEF IInv, KeysInv, BlocksInv, OneOwner
<1>2. ListIsTree'
  BY DEF IInv, ListIsTree, IsList, links
<1>3. QED
  BY <1>1, <1>2 DEF IInv

\* dnbd_cache_set opens the cache file.
LEMMA SetStep ==
    ASSUME IInv, Set PROVE IInv'
<1>1. TypeOK' /\ SessionInv' /\ NoFault'
  BY DEF IInv, Set, TypeOK, SessionInv, NoFault, links, Blocks
<1>2. QED
  BY <1>1, QuietStep DEF Set, links

\* dnbd_cache_clean frees all nodes; with one session no call follows.
LEMMA CleanStep ==
    ASSUME IInv, Clean PROVE IInv'
<1>1. TypeOK'
  BY DEF IInv, Clean, TypeOK, Blocks
<1>2. sessions # 0
  BY DEF IInv, Clean, SessionInv
<1>3. QED
  BY <1>1, <1>2 DEF IInv, Clean, SessionInv, KeysInv, BlocksInv, NoFault,
                    OneOwner, ListIsTree

\* The descent never meets freed memory during the session.
LEMMA NotDangling ==
    ASSUME IInv, up PROVE ~Dangling
BY DEF IInv, SessionInv, Dangling

\* A look-up.
LEMMA SearchStep ==
    ASSUME IInv, NEW x \in Sectors, Search(x) PROVE IInv'
<1>1. ~Dangling
  BY NotDangling DEF Search
<1>2. /\ answer' = <<x, None>>
         \/ \E n \in Holding(x) : answer' = <<x, file[dat[n]]>>
      /\ UNCHANGED <<sessionVars, used, tree, links, key, dat, live, file,
                     lost, fault>>
  BY <1>1 DEF Search
<1>3. answer' \in (Sectors \cup {None}) \X (Sectors \cup {None})
  <2>1. \A n \in Holding(x) : file[dat[n]] \in Sectors \cup {None}
    BY DEF IInv, TypeOK, Holding
  <2>2. QED
    BY <1>2, <2>1
<1>4. TypeOK' /\ SessionInv' /\ NoFault'
  BY <1>2, <1>3 DEF IInv, TypeOK, SessionInv, NoFault, sessionVars, links,
                    Blocks
<1>5. QED
  BY <1>2, <1>4, QuietStep DEF sessionVars, links

\* A full cache of two or more blocks has a last node and one before it.
LEMMA FullHasTwo ==
    ASSUME IInv, TwoBlocks, up, active, used = max
    PROVE  used >= 2 /\ tail # None /\ prev[tail] # None
<1>1. used >= 2 /\ used \in Nat
  BY CacheAssumption DEF IInv, TypeOK, SessionInv, TwoBlocks
<1>2. PICK s \in [1 .. used -> tree] : IsList(s)
  BY DEF IInv, ListIsTree
<1>3. s[used] \in Nodes /\ s[used - 1] \in Nodes
  BY <1>1 DEF IInv, TypeOK
<1>4. tail = s[used] /\ prev[tail] = s[used - 1]
  BY <1>1, <1>2 DEF IsList
<1>5. QED
  BY <1>1, <1>3, <1>4, CacheAssumption

\* A block that is held is put again.
LEMMA AgainStep ==
    ASSUME IInv, up, NEW x \in Sectors, InsertAgain(x) PROVE IInv'
<1>1. PICK n \in Holding(x) :
         IF prev[n] = None THEN UNCHANGED links ELSE MoveToHead(n)
  BY DEF InsertAgain
<1>2. UNCHANGED <<sessionVars, used, tree, key, dat, live, file, answer,
                  lost, fault>>
  BY DEF InsertAgain
<1>3. CASE prev[n] = None
  <2>1. UNCHANGED links
    BY <1>1, <1>3
  <2>2. TypeOK' /\ SessionInv' /\ NoFault'
    BY <1>2, <2>1 DEF IInv, TypeOK, SessionInv, NoFault, sessionVars, links,
                      Blocks
  <2>3. QED
    BY <1>2, <2>1, <2>2, QuietStep DEF sessionVars, links
<1>4. CASE prev[n] # None
  <2>1. MoveToHead(n) /\ n \in tree
    BY <1>1, <1>4 DEF Holding
  <2>2. PICK s \in [1 .. used -> tree] : IsList(s)
    BY DEF IInv, ListIsTree
  <2>3. used \in Nat
    BY CacheAssumption DEF IInv, TypeOK
  <2>4. PICK k \in 1 .. used : n = s[k]
    BY <2>1, <2>2 DEF IsList
  <2>5. k # 1
    BY <2>2, <2>4, <1>4 DEF IsList
  <2>6. k \in 2 .. used
    BY <2>3, <2>5
  <2>7. (\E t \in [1 .. used -> tree] : IsList(t))'
    BY <1>2, <2>1, <2>2, <2>4, <2>6, MovedList DEF IInv
  <2>8. TypeOK'
    <3>1. n \in Nodes /\ prev[n] \in Nodes /\ next[n] \in Nodes \cup {None}
      BY <2>1, <1>4 DEF IInv, TypeOK
    <3>2. /\ head' \in Nodes \cup {None} /\ tail' \in Nodes \cup {None}
          /\ next' \in [Nodes -> Nodes \cup {None}]
      BY <2>1, <3>1 DEF MoveToHead, IInv, TypeOK
    <3>3. prev' \in [Nodes -> Nodes \cup {None}]
      BY <2>1, <3>1 DEF MoveToHead, IInv, TypeOK
    <3>4. QED
      BY <3>2, <3>3, <1>2 DEF IInv, TypeOK, sessionVars, Blocks
  <2>9. /\ SessionInv' /\ KeysInv' /\ BlocksInv' /\ NoFault' /\ OneOwner'
    <3>1. sessions # 0
      BY DEF IInv, SessionInv
    <3>2. QED
      BY <3>1, <1>2 DEF IInv, SessionInv, KeysInv, BlocksInv, NoFault,
                        OneOwner, sessionVars
  <2>10. QED
    BY <2>7, <2>8, <2>9 DEF IInv, ListIsTree
<1>5. QED
  BY <1>3, <1>4

\* A block takes a free place.
LEMMA NewStep ==
    ASSUME IInv, up, active, NEW x \in Sectors,
           InsertNew(x)
    PROVE  IInv'
<1>1. /\ used \in 0 .. MaxBlocks - 1 /\ used \in Nat /\ used + 1 \in 0 .. MaxBlocks
      /\ live = tree /\ sessions # 0 /\ max = MaxBlocks
  BY CacheAssumption DEF IInv, TypeOK, SessionInv, InsertNew
<1>2. PICK n \in Nodes \ live :
         /\ Link(n, x, used, prev, next, tail, tree)
         /\ file' = [file EXCEPT ![used] = x]
         /\ used' = used + 1
         /\ live' = live \cup {n}
  BY DEF InsertNew
<1>3. UNCHANGED <<sessionVars, answer, lost, fault>> /\ Holding(x) = {}
  BY DEF InsertNew
<1>4. PICK s \in [1 .. used -> tree] : IsList(s)
  BY DEF IInv, ListIsTree
<1>5. (\E t \in [1 .. used -> tree] : IsList(t))'
  BY <1>1, <1>2, <1>4, LinkedList DEF IInv
<1>6. /\ key' = [key EXCEPT ![n] = x] /\ dat' = [dat EXCEPT ![n] = used]
      /\ tree' = tree \cup {n} /\ n \in Nodes /\ n \notin tree
      /\ key \in [Nodes -> Sectors \cup {None}] /\ dat \in [Nodes -> Blocks]
      /\ tree \subseteq Nodes
  BY <1>1, <1>2 DEF Link, IInv, TypeOK
<1>7. TypeOK'
  <2>1. /\ key' \in [Nodes -> Sectors \cup {None}]
        /\ dat' \in [Nodes -> Blocks]
        /\ tree' \subseteq Nodes /\ live' \subseteq Nodes
        /\ file' \in [Blocks -> Sectors \cup {None}]
    BY <1>1, <1>2, <1>6 DEF IInv, TypeOK, Blocks
  <2>2. /\ head' \in Nodes \cup {None} /\ tail' \in Nodes \cup {None}
        /\ prev' \in [Nodes -> Nodes \cup {None}]
        /\ next' \in [Nodes -> Nodes \cup {None}]
    BY <1>2, <1>6 DEF Link, IInv, TypeOK
  <2>3. QED
    BY <2>1, <2>2, <1>1, <1>2, <1>3 DEF IInv, TypeOK, sessionVars, Blocks
<1>8. KeysInv' /\ BlocksInv'
  <2>1. \A m \in tree : key'[m] = key[m] /\ dat'[m] = dat[m] /\ dat[m] \in Nat
    BY <1>6, CacheAssumption DEF Blocks
  <2>2. key'[n] = x /\ dat'[n] = used
    BY <1>6
  <2>3. QED
    BY <2>1, <2>2, <1>1, <1>2, <1>3, <1>6 DEF IInv, KeysInv, BlocksInv
<1>9. OneOwner'
  <2>1. \A m \in tree : key'[m] = key[m] /\ dat'[m] = dat[m] /\ dat[m] \in Nat
    BY <1>6, CacheAssumption DEF Blocks
  <2>2. key'[n] = x /\ dat'[n] = used
    BY <1>6
  <2>3. \A m \in tree : key[m] # x /\ (lost \/ dat[m] # used)
    BY <2>1, <1>1, <1>3 DEF Holding, IInv, BlocksInv
  <2>4. QED
    BY <2>1, <2>2, <2>3, <1>3, <1>6 DEF IInv, OneOwner
<1>10. SessionInv' /\ NoFault'
  BY <1>1, <1>2, <1>3, <1>6 DEF IInv, SessionInv, NoFault, sessionVars
<1>11. QED
  BY <1>5, <1>7, <1>8, <1>9, <1>10 DEF IInv, ListIsTree

\* A block cannot be written to its free place.
LEMMA NewFailsStep ==
    ASSUME IInv, up, active, NEW x \in Sectors, InsertNewFails(x)
    PROVE  IInv'
<1>1. /\ file' = [file EXCEPT ![used] = None]
      /\ UNCHANGED <<sessionVars, used, tree, links, key, dat, live, answer,
                     lost, fault>>
  BY DEF InsertNewFails
<1>2. TypeOK' /\ SessionInv' /\ NoFault'
  BY <1>1 DEF IInv, TypeOK, SessionInv, NoFault, sessionVars, links, Blocks
<1>3. QED
  BY <1>1, <1>2, QuietStep DEF sessionVars, links

\* A block takes the place of the oldest.
LEMMA EvictStep ==
    ASSUME IInv, TwoBlocks, up, active, NEW x \in Sectors,
           Evict(x)
    PROVE  IInv'
<1>1. /\ used >= 2 /\ live = tree /\ sessions # 0
  BY FullHasTwo DEF Evict, IInv, SessionInv
<1>2. /\ Link(tail, x, dat[tail], prev, [next EXCEPT ![prev[tail]] = None],
              prev[tail], tree \ {tail})
      /\ file' = [file EXCEPT ![dat[tail]] = x]
      /\ UNCHANGED <<sessionVars, used, live, answer, lost, fault>>
      /\ Holding(x) = {}
  BY DEF Evict
<1>3. PICK s \in [1 .. used -> tree] : IsList(s)
  BY DEF IInv, ListIsTree
<1>4. used' = used
  BY <1>2
<1>5. tail \in tree /\ tree' = tree /\ (\E t \in [1 .. used -> tree] : IsList(t))'
  BY <1>1, <1>2, <1>3, <1>4, EvictedList DEF IInv
<1>6. /\ key' = [key EXCEPT ![tail] = x] /\ dat' = [dat EXCEPT ![tail] = dat[tail]]
      /\ tail \in Nodes /\ prev[tail] \in Nodes \cup {None}
      /\ key \in [Nodes -> Sectors \cup {None}] /\ dat \in [Nodes -> Blocks]
      /\ tree \subseteq Nodes
  BY <1>2, <1>5 DEF Link, IInv, TypeOK
<1>7. dat' = dat
  BY <1>6
<1>8. TypeOK'
  <2>1. /\ key' \in [Nodes -> Sectors \cup {None}]
        /\ file' \in [Blocks -> Sectors \cup {None}]
    BY <1>2, <1>6 DEF IInv, TypeOK
  <2>2. /\ head' \in Nodes \cup {None} /\ tail' \in Nodes \cup {None}
        /\ prev' \in [Nodes -> Nodes \cup {None}]
        /\ next' \in [Nodes -> Nodes \cup {None}]
    BY <1>2, <1>6 DEF Link, IInv, TypeOK
  <2>3. QED
    BY <2>1, <2>2, <1>2, <1>5, <1>7 DEF IInv, TypeOK, sessionVars, Blocks
<1>9. KeysInv' /\ BlocksInv' /\ OneOwner'
  <2>1. \A m \in tree : m # tail => key'[m] = key[m] /\ key[m] # x
    BY <1>2, <1>6 DEF Holding
  <2>2. key'[tail] = x
    BY <1>6
  <2>3. QED
    BY <2>1, <2>2, <1>2, <1>5, <1>7 DEF IInv, KeysInv, BlocksInv, OneOwner
<1>10. SessionInv' /\ NoFault'
  BY <1>1, <1>2, <1>5 DEF IInv, SessionInv, NoFault, sessionVars
<1>11. QED
  BY <1>5, <1>8, <1>9, <1>10 DEF IInv, ListIsTree

\* A block cannot be written to the place of the oldest.
LEMMA EvictFailsStep ==
    ASSUME IInv, TwoBlocks, up, active, NEW x \in Sectors, EvictFails(x)
    PROVE  IInv'
<1>1. used >= 2 /\ live = tree /\ sessions # 0 /\ prev[tail] # None /\ tail # None
  BY FullHasTwo DEF EvictFails, IInv, SessionInv
<1>2. /\ file' = [file EXCEPT ![dat[tail]] = None]
      /\ next' = [next EXCEPT ![prev[tail]] = None]
      /\ tail' = prev[tail]
      /\ tree' = tree \ {tail} /\ live' = live \ {tail}
      /\ used' = used - 1 /\ lost' = TRUE
      /\ UNCHANGED <<sessionVars, head, prev, key, dat, answer, fault>>
  BY DEF EvictFails
<1>3. PICK s \in [1 .. used -> tree] : IsList(s)
  BY DEF IInv, ListIsTree
<1>4. (\E t \in [1 .. used -> tree] : IsList(t))'
  BY <1>1, <1>2, <1>3, ShortenedList DEF IInv
<1>5. TypeOK'
  <2>1. tail \in Nodes /\ prev[tail] \in Nodes /\ used - 1 \in 0 .. MaxBlocks
    BY <1>1, CacheAssumption DEF IInv, TypeOK
  <2>2. QED
    BY <2>1, <1>2 DEF IInv, TypeOK, sessionVars, Blocks
<1>6. KeysInv' /\ BlocksInv' /\ OneOwner'
  BY <1>2 DEF IInv, KeysInv, BlocksInv, OneOwner
<1>7. SessionInv' /\ NoFault'
  BY <1>1, <1>2 DEF IInv, SessionInv, NoFault, sessionVars
<1>8. QED
  BY <1>4, <1>5, <1>6, <1>7 DEF IInv, ListIsTree

\* All outcomes of dnbd_cache_insert.
LEMMA InsertStep ==
    ASSUME IInv, TwoBlocks, NEW x \in Sectors, Insert(x)
    PROVE  IInv'
<1>1. up /\ active /\ ~Dangling
  BY NotDangling DEF Insert
<1>2. ~(used = max /\ (tail = None \/ prev[tail] = None))
  BY <1>1, FullHasTwo
<1>3. \/ InsertAgain(x)
      \/ InsertNew(x) \/ InsertNewFails(x)
      \/ Evict(x) \/ EvictFails(x)
  BY <1>1, <1>2 DEF Insert
<1>4. QED
  BY <1>1, <1>3, AgainStep, NewStep, NewFailsStep, EvictStep, EvictFailsStep

\* The inductive invariant holds in every reachable state of one session, if
\* the cache is larger than one block.
THEOREM Invariance ==
    ASSUME OneSession, TwoBlocks PROVE Spec => []IInv
<1>1. Init => IInv
  BY InitIInv
<1>2. IInv /\ [Next]_vars => IInv'
  <2> SUFFICES ASSUME IInv, [Next]_vars PROVE IInv'
    OBVIOUS
  <2>1. CASE UNCHANGED vars
    <3>1. TypeOK' /\ SessionInv' /\ NoFault'
      BY <2>1 DEF IInv, TypeOK, SessionInv, NoFault, vars, sessionVars, links,
                  Blocks
    <3>2. QED
      BY <2>1, <3>1, QuietStep DEF vars, sessionVars, links
  <2>2. CASE Next
    BY <2>2, BindStep, SetStep, CleanStep, SearchStep, InsertStep DEF Next
  <2>3. QED
    BY <2>1, <2>2
<1>3. QED
  BY <1>1, <1>2, PTL DEF Spec

\* Every variable has values of its kind.
THEOREM TypeCorrect ==
    ASSUME OneSession, TwoBlocks PROVE Spec => []TypeOK
<1>1. IInv => TypeOK
  BY DEF IInv
<1>2. Spec => []IInv
  BY Invariance
<1>3. QED
  BY <1>1, <1>2, PTL

\* In one session no call follows a pointer to NULL or to freed memory.
THEOREM PointersSound ==
    ASSUME OneSession, TwoBlocks PROVE Spec => []NoFault
<1>1. IInv => NoFault
  BY DEF IInv
<1>2. Spec => []IInv
  BY Invariance
<1>3. QED
  BY <1>1, <1>2, PTL

\* No two entries share a block of the cache file before a write has failed.
THEOREM BlocksOwned ==
    ASSUME OneSession, TwoBlocks PROVE Spec => []OneOwner
<1>1. IInv => OneOwner
  BY DEF IInv
<1>2. Spec => []IInv
  BY Invariance
<1>3. QED
  BY <1>1, <1>2, PTL

\* The list by age is doubly linked and holds the nodes of the tree.
THEOREM ListSound ==
    ASSUME OneSession, TwoBlocks PROVE Spec => []ListIsTree
<1>1. IInv => ListIsTree
  BY DEF IInv
<1>2. Spec => []IInv
  BY Invariance
<1>3. QED
  BY <1>1, <1>2, PTL

-----------------------------------------------------------------------------
(* The cache is a store that forgets the block put longest ago.            *)

Lru == [i \in DOMAIN List |-> key[List[i]]]

\* IsList and List of given nodes, ends and links.
IsListOf(s, m, tr, hd, tl, pv, nx) ==
    /\ tr = {s[i] : i \in 1 .. m}
    /\ \A i, j \in 1 .. m : s[i] = s[j] => i = j
    /\ hd = (IF m = 0 THEN None ELSE s[1])
    /\ tl = (IF m = 0 THEN None ELSE s[m])
    /\ \A i \in 1 .. m :
          /\ pv[s[i]] = (IF i = 1 THEN None ELSE s[i - 1])
          /\ nx[s[i]] = (IF i = m THEN None ELSE s[i + 1])

ListOf(m, tr, hd, tl, pv, nx) ==
    CHOOSE s \in [1 .. m -> tr] : IsListOf(s, m, tr, hd, tl, pv, nx)

\* The list of a tree is unique: chosen or given, it is the same.
LEMMA UniqueList ==
    ASSUME NEW m \in Nat, NEW tr, NEW hd, NEW tl, NEW pv, NEW nx,
           NEW s \in [1 .. m -> tr], IsListOf(s, m, tr, hd, tl, pv, nx)
    PROVE  ListOf(m, tr, hd, tl, pv, nx) = s
<1>1. PICK t : /\ t = ListOf(m, tr, hd, tl, pv, nx)
               /\ t \in [1 .. m -> tr]
               /\ IsListOf(t, m, tr, hd, tl, pv, nx)
  BY DEF ListOf
<1>2. ASSUME NEW q, IsListOf(q, m, tr, hd, tl, pv, nx) PROVE LinkedBy(nx, q, m)
  <2>1. SUFFICES ASSUME NEW i \in 1 .. m - 1 PROVE q[i + 1] = nx[q[i]]
    BY DEF LinkedBy
  <2>2. i \in 1 .. m /\ i # m
    OBVIOUS
  <2>3. QED
    BY <1>2, <2>2 DEF IsListOf
<1>3. LinkedBy(nx, s, m) /\ LinkedBy(nx, t, m)
  BY <1>1, <1>2
<1>4. CASE m = 0
  BY <1>1, <1>4
<1>5. CASE m # 0
  <2>1. s[1] = t[1]
    BY <1>1, <1>5 DEF IsListOf
  <2>2. \A i \in 1 .. m : s[i] = t[i]
    BY <1>3, <2>1, SameLinks
  <2>3. s = t
    BY <1>1, <2>2
  <2>4. QED
    BY <1>1, <2>3
<1>6. QED
  BY <1>4, <1>5

LEMMA ListUnique ==
    ASSUME IInv, up, NEW s \in [1 .. used -> tree], IsList(s)
    PROVE  List = s
<1>1. used \in Nat
  BY CacheAssumption DEF IInv, TypeOK
<1>2. IsListOf(s, used, tree, head, tail, prev, next)
  BY DEF IsList, IsListOf
<1>3. List = ListOf(used, tree, head, tail, prev, next)
  BY DEF List, ListOf, IsList, IsListOf
<1>4. QED
  BY <1>1, <1>2, <1>3, UniqueList

\* The same of the list after a step.
LEMMA NextListUnique ==
    ASSUME IInv', up', NEW s \in [1 .. used' -> tree'], IsList(s)'
    PROVE  List' = s
<1>1. used' \in Nat
  BY CacheAssumption DEF IInv, TypeOK
<1>2. IsListOf(s, used', tree', head', tail', prev', next')
  BY DEF IsList, IsListOf
<1>3. List' = ListOf(used', tree', head', tail', prev', next')
  BY DEF List, ListOf, IsList, IsListOf
<1>4. QED
  BY <1>1, <1>2, <1>3, UniqueList

\* What is held for each sector, as a function of tree, keys, blocks and file.
HeldIn(tr, ky, dt, fl) ==
    [x \in Sectors |->
       IF {n \in tr : ky[n] = x} # {}
       THEN fl[dt[CHOOSE n \in {m \in tr : ky[m] = x} : TRUE]]
       ELSE None]

LEMMA HeldAs ==
    /\ up => Held = HeldIn(tree, key, dat, file)
    /\ up' => Held' = HeldIn(tree', key', dat', file')
    /\ ~up => Held = [x \in Sectors |-> None]
    /\ ~up' => Held' = [x \in Sectors |-> None]
  BY DEF Held, Holding, HeldIn

LEMMA HeldInAt ==
    ASSUME NEW tr, NEW ky, NEW dt, NEW fl,
           \A m, n \in tr : m # n => ky[m] # ky[n]
    PROVE  /\ \A n \in tr : ky[n] \in Sectors =>
                 HeldIn(tr, ky, dt, fl)[ky[n]] = fl[dt[n]]
           /\ \A x \in Sectors : {n \in tr : ky[n] = x} = {} =>
                 HeldIn(tr, ky, dt, fl)[x] = None
<1>1. ASSUME NEW n \in tr, ky[n] \in Sectors
      PROVE  HeldIn(tr, ky, dt, fl)[ky[n]] = fl[dt[n]]
  <2> DEFINE M == {m \in tr : ky[m] = ky[n]}
  <2>1. M = {n}
    OBVIOUS
  <2>2. (CHOOSE m \in M : TRUE) = n /\ M # {}
    BY <2>1
  <2>3. HeldIn(tr, ky, dt, fl)[ky[n]] =
           IF M # {} THEN fl[dt[CHOOSE m \in M : TRUE]] ELSE None
    BY <1>1 DEF HeldIn
  <2> HIDE DEF M
  <2>4. QED
    BY <2>2, <2>3
<1>2. QED
  BY <1>1 DEF HeldIn

\* Nodes that keep key and contents hold the same as before.
LEMMA HeldSame ==
    ASSUME NEW tr, NEW ky, NEW dt, NEW fl, NEW fm,
           \A m, n \in tr : m # n => ky[m] # ky[n],
           \A n \in tr : ky[n] \in Sectors /\ fm[dt[n]] = fl[dt[n]]
    PROVE  HeldIn(tr, ky, dt, fm) = HeldIn(tr, ky, dt, fl)
<1>1. ASSUME NEW x \in Sectors
      PROVE  HeldIn(tr, ky, dt, fm)[x] = HeldIn(tr, ky, dt, fl)[x]
  <2>1. CASE {n \in tr : ky[n] = x} = {}
    BY <2>1, HeldInAt
  <2>2. CASE {n \in tr : ky[n] = x} # {}
    <3>1. PICK n \in tr : ky[n] = x
      BY <2>2
    <3>2. QED
      BY <3>1, HeldInAt
  <2>3. QED
    BY <2>1, <2>2
<1>2. QED
  BY <1>1 DEF HeldIn

\* A list of keys as a sequence.
LEMMA LruSeq ==
    ASSUME IInv, up, NEW s \in [1 .. used -> tree], IsList(s)
    PROVE  /\ Lru = [i \in 1 .. used |-> key[s[i]]]
           /\ Lru \in Seq(Sectors) /\ Len(Lru) = used /\ used \in Nat
           /\ \A i \in 1 .. used : Lru[i] = key[s[i]] /\ key[s[i]] \in Sectors
<1>1. List = s /\ DOMAIN s = 1 .. used
  BY ListUnique
<1>2. used \in Nat /\ \A i \in 1 .. used : key[s[i]] \in Sectors
  BY CacheAssumption DEF IInv, TypeOK, KeysInv
<1>3. Lru = [i \in 1 .. used |-> key[s[i]]]
  BY <1>1 DEF Lru
<1>4. QED
  BY <1>2, <1>3

LEMMA NextLruSeq ==
    ASSUME IInv', up', NEW s \in [1 .. used' -> tree'], IsList(s)'
    PROVE  /\ Lru' \in Seq(Sectors) /\ Len(Lru') = used' /\ used' \in Nat
           /\ \A i \in 1 .. used' : Lru'[i] = key'[s[i]]
<1>1. List' = s /\ DOMAIN s = 1 .. used'
  BY NextListUnique
<1>2. used' \in Nat /\ \A i \in 1 .. used' : key'[s[i]] \in Sectors
  BY CacheAssumption DEF IInv, TypeOK, KeysInv
<1>3. Lru' = [i \in 1 .. used' |-> key'[s[i]]]
  BY <1>1 DEF Lru
<1>4. QED
  BY <1>2, <1>3

\* Steps that change neither list nor what is held are not seen.
LEMMA UnseenStep ==
    ASSUME IInv, IInv', up, UNCHANGED <<up, used, tree, links, key>>,
           HeldIn(tree', key', dat', file') = HeldIn(tree, key, dat, file)
    PROVE  Lru' = Lru /\ Held' = Held
<1>1. PICK s \in [1 .. used -> tree] : IsList(s)
  BY DEF IInv, ListIsTree
<1>2. s \in [1 .. used' -> tree'] /\ IsList(s)'
  BY <1>1 DEF IsList, links
<1>3. List = s /\ List' = s
  BY <1>1, <1>2, ListUnique, NextListUnique
<1>4. QED
  BY <1>3, HeldAs DEF Lru

\* Keys are different sectors, and blocks are owned by one node.
LEMMA Owners ==
    ASSUME IInv
    PROVE  /\ \A m, n \in tree : m # n => key[m] # key[n]
           /\ ~lost => \A m, n \in tree : m # n => dat[m] # dat[n]
           /\ ~lost => \A n \in tree : dat[n] < used
           /\ \A n \in tree : key[n] \in Sectors /\ dat[n] \in Blocks /\ n \in Nodes
  BY DEF IInv, OneOwner, BlocksInv, KeysInv, TypeOK

LEMMA BindRefines ==
    ASSUME IInv, OneSession, Bind PROVE Lru' = Lru /\ Held' = Held
<1>1. ~up /\ up' /\ used' = 0 /\ tree' = {} /\ used = 0 /\ tree = {}
  BY CacheAssumption DEF IInv, TypeOK, OneSession, SessionInv, Bind
<1>2. IInv'
  BY BindStep
<1>3. PICK s \in [1 .. used' -> tree'] : IsList(s)'
  BY <1>1, <1>2 DEF IInv, ListIsTree
<1>4. List' = s /\ DOMAIN s = {}
  BY <1>1, <1>2, <1>3, NextListUnique
<1>5. List = <<>>
  BY <1>1 DEF List
<1>6. Lru = <<>> /\ Lru' = <<>>
  BY <1>4, <1>5 DEF Lru
<1>7. Held' = Held
  BY <1>1, HeldAs DEF HeldIn
<1>8. QED
  BY <1>6, <1>7

LEMMA CleanRefines == ASSUME IInv, Clean PROVE Cache!Clear
<1>1. ~up' /\ answer' = answer
  BY DEF Clean
<1>2. Lru' = <<>> /\ Held' = [x \in Sectors |-> None]
  BY <1>1, HeldAs DEF Lru, List
<1>3. QED
  BY <1>1, <1>2 DEF Cache!Clear, Lru

LEMMA SearchRefines ==
    ASSUME IInv, NEW x \in Sectors, Search(x) PROVE Cache!Get(x)
<1>1. /\ answer' = <<x, None>>
         \/ \E n \in Holding(x) : answer' = <<x, file[dat[n]]>>
      /\ UNCHANGED <<sessionVars, used, tree, links, key, dat, live, file,
                     lost, fault>>
      /\ up
  BY NotDangling DEF Search
<1>2. \A n \in Holding(x) : Held[x] = file[dat[n]]
  BY <1>1, Owners, HeldAs, HeldInAt DEF Holding
<1>3. answer' \in {<<x, Held[x]>>, <<x, None>>}
  BY <1>1, <1>2
<1>4. IInv' /\ UNCHANGED <<up, used, tree, links, key, dat, file>>
  BY <1>1, SearchStep DEF sessionVars
<1>5. Lru' = Lru /\ Held' = Held
  BY <1>1, <1>4, UnseenStep
<1>6. QED
  BY <1>3, <1>5 DEF Cache!Get, Lru

\* A block that is put again becomes the most recent one.
LEMMA AgainRefines ==
    ASSUME IInv, up, NEW x \in Sectors, InsertAgain(x)
    PROVE  Cache!Refresh(x) \/ UNCHANGED Cache!vars
<1>1. PICK n \in Holding(x) :
         IF prev[n] = None THEN UNCHANGED links ELSE MoveToHead(n)
  BY DEF InsertAgain
<1>2. /\ IInv' /\ up' /\ answer' = answer
      /\ UNCHANGED <<up, used, tree, key, dat, file>>
  BY AgainStep DEF InsertAgain, sessionVars
<1>3. CASE prev[n] = None
  <2>1. Lru' = Lru /\ Held' = Held
    BY <1>1, <1>2, <1>3, UnseenStep
  <2>2. QED
    BY <1>2, <2>1 DEF Cache!vars, Lru
<1>4. CASE prev[n] # None
  <2>1. MoveToHead(n) /\ n \in tree /\ key[n] = x
    BY <1>1, <1>4 DEF Holding
  <2>2. PICK s \in [1 .. used -> tree] : IsList(s)
    BY DEF IInv, ListIsTree
  <2>3. /\ Lru \in Seq(Sectors) /\ Len(Lru) = used /\ used \in Nat
        /\ \A i \in 1 .. used : Lru[i] = key[s[i]]
    BY <2>2, LruSeq
  <2>4. PICK k \in 1 .. used : n = s[k]
    BY <2>1, <2>2 DEF IsList
  <2>5. k \in 2 .. used
    BY <2>2, <2>3, <2>4, <1>4 DEF IsList
  <2>6. PICK t \in [1 .. used' -> tree'] : t = Moved(s, k, used) /\ IsList(t)'
    BY <1>2, <2>1, <2>2, <2>4, <2>5, MovedList DEF IInv
  <2>7. /\ Lru' \in Seq(Sectors) /\ Len(Lru') = used
        /\ \A i \in 1 .. used : Lru'[i] = key[t[i]]
    BY <1>2, <2>6, NextLruSeq
  <2>8. \A i \in 1 .. used : Lru'[i] =
           IF i = 1 THEN Lru[k] ELSE IF i <= k THEN Lru[i - 1] ELSE Lru[i]
    <3> SUFFICES ASSUME NEW i \in 1 .. used
                 PROVE  Lru'[i] = IF i = 1 THEN Lru[k]
                                  ELSE IF i <= k THEN Lru[i - 1] ELSE Lru[i]
      OBVIOUS
    <3>1. t[i] = IF i = 1 THEN s[k] ELSE IF i <= k THEN s[i - 1] ELSE s[i]
      BY <2>6 DEF Moved
    <3>2. CASE i = 1
      BY <2>3, <2>5, <2>7, <3>1, <3>2
    <3>3. CASE i # 1 /\ i <= k
      <4>1. i - 1 \in 1 .. used
        BY <2>3, <3>3
      <4>2. QED
        BY <2>3, <2>7, <3>1, <3>3, <4>1
    <3>4. CASE i # 1 /\ ~(i <= k)
      BY <2>3, <2>7, <3>1, <3>4
    <3>5. QED
      BY <3>2, <3>3, <3>4
  <2>9. Lru' = <<Lru[k]>> \o RemoveAt(Lru, k)
    <3>1. PICK q, r : q = Lru /\ r = Lru'
      OBVIOUS
    <3>2. /\ q \in Seq(Sectors) /\ r \in Seq(Sectors) /\ k \in 1 .. Len(q)
          /\ Len(r) = Len(q)
      BY <2>3, <2>7, <3>1
    <3>3. \A i \in 1 .. Len(r) : r[i] =
             IF i = 1 THEN q[k] ELSE IF i <= k THEN q[i - 1] ELSE q[i]
      BY <2>7, <2>8, <3>1
    <3>4. r = <<q[k]>> \o RemoveAt(q, k)
      BY <3>2, <3>3, MoveIs
    <3>5. QED
      BY <3>1, <3>4
  <2>10. Lru[k] = x /\ k \in DOMAIN Lru
    BY <2>1, <2>3, <2>4
  <2>11. Held' = Held
    BY <1>2, HeldAs
  <2>12. \E j \in DOMAIN Lru : Lru[j] = x /\ Lru' = <<x>> \o RemoveAt(Lru, j)
    BY <2>9, <2>10
  <2>13. QED
    BY <1>2, <2>11, <2>12 DEF Cache!Refresh, Cache!RemoveAt, RemoveAt, Lru
<1>5. QED
  BY <1>3, <1>4

\* A block takes a free place.
LEMMA NewRefines ==
    ASSUME IInv, up, active, ~lost, NEW x \in Sectors, InsertNew(x)
    PROVE  Cache!Store(x, x)
<1>1. PICK n \in Nodes \ live :
         /\ Link(n, x, used, prev, next, tail, tree)
         /\ file' = [file EXCEPT ![used] = x]
         /\ used' = used + 1
  BY DEF InsertNew
<1>2. /\ live = tree /\ max = MaxBlocks /\ used # max /\ Holding(x) = {}
      /\ used \in 0 .. MaxBlocks /\ up' /\ answer' = answer
      /\ IInv' /\ ~lost'
  BY NewStep DEF InsertNew, IInv, SessionInv, TypeOK, sessionVars
<1>3. used \in Blocks /\ used < MaxBlocks /\ used \in Nat
  BY <1>2, CacheAssumption DEF Blocks
<1>4. /\ key' = [key EXCEPT ![n] = x] /\ dat' = [dat EXCEPT ![n] = used]
      /\ tree' = tree \cup {n} /\ n \in Nodes \ tree
      /\ key \in [Nodes -> Sectors \cup {None}] /\ dat \in [Nodes -> Blocks]
      /\ file \in [Blocks -> Sectors \cup {None}]
  BY <1>1, <1>2 DEF Link, IInv, TypeOK
<1>5. PICK s \in [1 .. used -> tree] : IsList(s)
  BY DEF IInv, ListIsTree
<1>6. PICK t \in [1 .. used' -> tree'] : t = Linked(s, n, used) /\ IsList(t)'
  BY <1>1, <1>2, <1>5, LinkedList DEF IInv
<1>7. /\ Lru \in Seq(Sectors) /\ Len(Lru) = used
      /\ \A i \in 1 .. used : Lru[i] = key[s[i]]
  BY <1>5, LruSeq
<1>8. /\ Lru' \in Seq(Sectors) /\ Len(Lru') = used + 1
      /\ \A i \in 1 .. used + 1 : Lru'[i] = key'[t[i]]
  BY <1>1, <1>2, <1>6, NextLruSeq
<1>9. \A m \in tree : key'[m] = key[m] /\ dat'[m] = dat[m] /\ m # n
  BY <1>4, Owners
<1>10. key'[n] = x /\ dat'[n] = used /\ file'[used] = x
  BY <1>1, <1>3, <1>4
<1>11. ASSUME NEW i \in 1 .. used + 1
       PROVE  Lru'[i] = IF i = 1 THEN x ELSE Lru[i - 1]
  <2>1. CASE i = 1
    BY <1>6, <1>8, <1>10, <2>1 DEF Linked
  <2>2. CASE i # 1
    <3>1. i - 1 \in 1 .. used
      BY <1>3, <2>2
    <3>2. t[i] = s[i - 1] /\ s[i - 1] \in tree
      BY <1>6, <2>2, <3>1 DEF Linked
    <3>3. QED
      BY <1>7, <1>8, <1>9, <2>2, <3>1, <3>2
  <2>3. QED
    BY <2>1, <2>2
<1>12. Lru' = <<x>> \o Lru
  BY <1>7, <1>8, <1>11, PrependIs
<1>13. Held[x] = None
  BY <1>2, Owners, HeldAs, HeldInAt DEF Holding
<1>14. Held' = [Held EXCEPT ![x] = x]
  <2>1. \A y \in Sectors : Held'[y] = IF y = x THEN x ELSE Held[y]
    <3> SUFFICES ASSUME NEW y \in Sectors
                 PROVE  Held'[y] = IF y = x THEN x ELSE Held[y]
      OBVIOUS
    <3>1. \A m, o \in tree' : m # o => key'[m] # key'[o]
      BY <1>2 DEF IInv, OneOwner
    <3>2. CASE y = x
      <4>1. n \in tree'
        BY <1>4
      <4>2. HeldIn(tree', key', dat', file')[key'[n]] = file'[dat'[n]]
        BY <3>1, <4>1, <1>10, HeldInAt
      <4>3. QED
        BY <1>2, <1>10, <3>2, <4>2, HeldAs
    <3>3. CASE y # x /\ \E m \in tree : key[m] = y
      <4>1. PICK m \in tree : key[m] = y
        BY <3>3
      <4>2. m \in tree' /\ key'[m] = y
        BY <4>1, <1>4, <1>9
      <4>3. HeldIn(tree', key', dat', file')[key'[m]] = file'[dat'[m]]
        BY <3>1, <4>2, HeldInAt
      <4>4. HeldIn(tree, key, dat, file)[y] = file[dat[m]]
        BY <4>1, Owners, HeldInAt
      <4>5. file'[dat[m]] = file[dat[m]]
        BY <4>1, <1>1, <1>3, <1>4, Owners DEF Blocks
      <4>6. QED
        BY <1>2, <1>9, <3>3, <4>1, <4>2, <4>3, <4>4, <4>5, HeldAs
    <3>4. CASE y # x /\ ~ \E m \in tree : key[m] = y
      <4>1. {m \in tree : key[m] = y} = {} /\ {m \in tree' : key'[m] = y} = {}
        BY <1>4, <1>9, <1>10, <3>4
      <4>2. HeldIn(tree, key, dat, file)[y] = None
        BY <4>1, Owners, HeldInAt
      <4>3. HeldIn(tree', key', dat', file')[y] = None
        BY <3>1, <4>1, HeldInAt
      <4>4. QED
        BY <1>2, <3>4, <4>2, <4>3, HeldAs
    <3>5. QED
      BY <3>2, <3>3, <3>4
  <2>2. Held \in [Sectors -> {Held[y] : y \in Sectors}]
    BY DEF Held
  <2>3. Held' = [y \in Sectors |-> Held'[y]]
    BY DEF Held
  <2>4. [Held EXCEPT ![x] = x] = [y \in Sectors |-> IF y = x THEN x ELSE Held[y]]
    BY <2>2
  <2>5. QED
    BY <2>1, <2>3, <2>4
<1>15. Len(Lru) < MaxBlocks
  BY <1>3, <1>7
<1>16. QED
  BY <1>2, <1>12, <1>13, <1>14, <1>15 DEF Cache!Store, Lru

\* The free place that could not be written belongs to no node.
LEMMA NewFailsRefines ==
    ASSUME IInv, up, active, ~lost, NEW x \in Sectors, InsertNewFails(x)
    PROVE  UNCHANGED Cache!vars
<1>1. /\ file' = [file EXCEPT ![used] = None] /\ answer' = answer
      /\ UNCHANGED <<up, used, tree, links, key, dat>>
  BY DEF InsertNewFails, sessionVars
<1>2. IInv'
  BY NewFailsStep
<1>3. \A n \in tree : file'[dat[n]] = file[dat[n]]
  BY <1>1, Owners DEF IInv, TypeOK, Blocks
<1>4. HeldIn(tree, key, dat, file') = HeldIn(tree, key, dat, file)
  BY <1>3, Owners, HeldSame
<1>5. Lru' = Lru /\ Held' = Held
  BY <1>1, <1>2, <1>4, UnseenStep
<1>6. QED
  BY <1>1, <1>5 DEF Cache!vars, Lru

\* A block takes the place of the one put longest ago.
LEMMA EvictRefines ==
    ASSUME IInv, TwoBlocks, up, active, ~lost, NEW x \in Sectors, Evict(x)
    PROVE  Cache!Replace(x, x)
<1>1. /\ Link(tail, x, dat[tail], prev, [next EXCEPT ![prev[tail]] = None],
              prev[tail], tree \ {tail})
      /\ file' = [file EXCEPT ![dat[tail]] = x]
      /\ Holding(x) = {} /\ used = max
  BY DEF Evict
<1>2. /\ used >= 2 /\ used = MaxBlocks /\ used \in Nat /\ used' = used
      /\ up' /\ answer' = answer /\ IInv'
  BY <1>1, EvictStep, FullHasTwo, CacheAssumption
     DEF Evict, sessionVars, IInv, SessionInv
<1>3. PICK s \in [1 .. used -> tree] : IsList(s)
  BY DEF IInv, ListIsTree
<1>4. /\ tail \in tree /\ tree' = tree
      /\ \E t \in [1 .. used' -> tree'] :
            t = Moved(s, used, used) /\ IsList(t)'
  BY <1>1, <1>2, <1>3, EvictedList DEF IInv
<1>5. PICK t \in [1 .. used' -> tree'] : t = Moved(s, used, used) /\ IsList(t)'
  BY <1>4
<1>6. s[used] = tail /\ \A i \in 1 .. used - 1 : s[i] # tail
  BY <1>2, <1>3 DEF IsList
<1>7. /\ key' = [key EXCEPT ![tail] = x] /\ dat' = [dat EXCEPT ![tail] = dat[tail]]
      /\ key \in [Nodes -> Sectors \cup {None}] /\ dat \in [Nodes -> Blocks]
      /\ file \in [Blocks -> Sectors \cup {None}]
  BY <1>1 DEF Link, IInv, TypeOK
<1>8. /\ \A m \in tree : m # tail => key'[m] = key[m]
      /\ key'[tail] = x /\ dat' = dat /\ tail \in Nodes
      /\ file'[dat[tail]] = x
      /\ \A m \in tree : m # tail => file'[dat[m]] = file[dat[m]]
  BY <1>1, <1>4, <1>7, Owners
<1>9. /\ Lru \in Seq(Sectors) /\ Len(Lru) = used
      /\ \A i \in 1 .. used : Lru[i] = key[s[i]]
  BY <1>3, LruSeq
<1>10. /\ Lru' \in Seq(Sectors) /\ Len(Lru') = used
       /\ \A i \in 1 .. used : Lru'[i] = key'[t[i]]
  BY <1>2, <1>5, NextLruSeq
<1>11. ASSUME NEW i \in 1 .. used
       PROVE  Lru'[i] = IF i = 1 THEN x ELSE Lru[i - 1]
  <2>1. CASE i = 1
    BY <1>5, <1>6, <1>8, <1>10, <2>1 DEF Moved
  <2>2. CASE i # 1
    <3>1. i - 1 \in 1 .. used - 1 /\ i <= used /\ i - 1 \in 1 .. used
      BY <1>2, <2>2
    <3>2. t[i] = s[i - 1] /\ s[i - 1] \in tree /\ s[i - 1] # tail
      BY <1>5, <1>6, <2>2, <3>1 DEF Moved
    <3>3. QED
      BY <1>8, <1>9, <1>10, <2>2, <3>1, <3>2
  <2>3. QED
    BY <2>1, <2>2
<1>12. Lru' = <<x>> \o Front(Lru)
  <2>1. PICK q, r : q = Lru /\ r = Lru'
    OBVIOUS
  <2>2. /\ q \in Seq(Sectors) /\ r \in Seq(Sectors)
        /\ Len(r) = Len(q) /\ Len(q) >= 1
    BY <1>2, <1>9, <1>10, <2>1
  <2>3. \A i \in 1 .. Len(r) : r[i] = IF i = 1 THEN x ELSE q[i - 1]
    BY <1>10, <1>11, <2>1
  <2>4. QED
    BY <2>1, <2>2, <2>3, RotateIs
<1>13. Last(Lru) = key[tail]
  BY <1>2, <1>6, <1>9 DEF Last
<1>14. Held[x] = None
  BY <1>1, Owners, HeldAs, HeldInAt DEF Holding
<1>15. Held' = [Held EXCEPT ![key[tail]] = None, ![x] = x]
  <2>1. ASSUME NEW y \in Sectors
        PROVE  Held'[y] = IF y = x THEN x
                          ELSE IF y = key[tail] THEN None ELSE Held[y]
    <3>1. \A m, o \in tree : m # o => key'[m] # key'[o]
      BY <1>2, <1>4 DEF IInv, OneOwner
    <3>2. CASE y = x
      <4>1. HeldIn(tree, key', dat, file')[key'[tail]] = file'[dat[tail]]
        BY <3>1, <1>4, <1>8, HeldInAt
      <4>2. QED
        BY <1>2, <1>4, <1>8, <3>2, <4>1, HeldAs
    <3>3. CASE y # x /\ \E m \in tree : m # tail /\ key[m] = y
      <4>1. PICK m \in tree : m # tail /\ key[m] = y
        BY <3>3
      <4>2. key'[m] = y /\ y # key[tail]
        BY <4>1, <1>4, <1>8, Owners
      <4>3. HeldIn(tree, key', dat, file')[key'[m]] = file'[dat[m]]
        BY <3>1, <4>2, HeldInAt
      <4>4. HeldIn(tree, key, dat, file)[key[m]] = file[dat[m]]
        BY <4>1, Owners, HeldInAt
      <4>5. QED
        BY <1>2, <1>4, <1>8, <3>3, <4>1, <4>2, <4>3, <4>4, HeldAs
    <3>4. CASE y # x /\ ~ \E m \in tree : m # tail /\ key[m] = y
      <4>1. {m \in tree : key'[m] = y} = {}
        BY <1>4, <1>8, <3>4
      <4>2. HeldIn(tree, key', dat, file')[y] = None
        BY <3>1, <4>1, HeldInAt
      <4>3. y # key[tail] => Held[y] = None
        <5>1. y # key[tail] => {m \in tree : key[m] = y} = {}
          BY <3>4
        <5>2. QED
          BY <5>1, Owners, HeldAs, HeldInAt
      <4>4. QED
        BY <1>2, <1>4, <1>8, <3>4, <4>2, <4>3, HeldAs
    <3>5. QED
      BY <3>2, <3>3, <3>4
  <2>2. Held \in [Sectors -> {Held[y] : y \in Sectors}]
    BY DEF Held
  <2>3. Held' = [y \in Sectors |-> Held'[y]]
    BY DEF Held
  <2>4. key[tail] \in Sectors
    BY <1>4, Owners
  <2>5. [Held EXCEPT ![key[tail]] = None, ![x] = x] =
           [y \in Sectors |-> IF y = x THEN x
                              ELSE IF y = key[tail] THEN None ELSE Held[y]]
    BY <2>2, <2>4
  <2>6. QED
    BY <2>1, <2>3, <2>5
<1>16. Len(Lru) = MaxBlocks
  BY <1>2, <1>9
<1>17. QED
  BY <1>2, <1>12, <1>13, <1>14, <1>15, <1>16
     DEF Cache!Replace, Cache!Front, Cache!Last, Front, Last, Lru

LEMMA InsertRefines ==
    ASSUME IInv, TwoBlocks, ~lost', NEW x \in Sectors, Insert(x)
    PROVE  Cache!Next \/ UNCHANGED Cache!vars
<1>1. up /\ active /\ ~Dangling
  BY NotDangling DEF Insert
<1>2. ~(used = max /\ (tail = None \/ prev[tail] = None))
  BY <1>1, FullHasTwo
<1>3. \/ InsertAgain(x)
      \/ InsertNew(x) \/ InsertNewFails(x)
      \/ Evict(x) \/ EvictFails(x)
  BY <1>1, <1>2 DEF Insert
<1>4. CASE InsertAgain(x)
  BY <1>1, <1>4, AgainRefines DEF Cache!Next
<1>5. CASE InsertNew(x)
  <2>1. ~lost
    BY <1>5 DEF InsertNew
  <2>2. Cache!Store(x, x)
    BY <1>1, <1>5, <2>1, NewRefines
  <2>3. QED
    BY <2>2 DEF Cache!Next
<1>6. CASE InsertNewFails(x)
  <2>1. ~lost
    BY <1>6 DEF InsertNewFails
  <2>2. QED
    BY <1>1, <1>6, <2>1, NewFailsRefines
<1>7. CASE Evict(x)
  <2>1. ~lost
    BY <1>7 DEF Evict
  <2>2. Cache!Replace(x, x)
    BY <1>1, <1>7, <2>1, EvictRefines
  <2>3. QED
    BY <2>2 DEF Cache!Next
<1>8. CASE EvictFails(x)
  BY <1>8 DEF EvictFails
<1>9. QED
  BY <1>3, <1>4, <1>5, <1>6, <1>7, <1>8

LEMMA RefinementStep ==
    ASSUME IInv, OneSession, TwoBlocks, [Next]_vars
    PROVE  [Cache!Next \/ lost']_(Cache!vars)
<1> SUFFICES ASSUME ~lost' PROVE Cache!Next \/ UNCHANGED Cache!vars
  OBVIOUS
<1>1. CASE Bind
  <2>1. Lru' = Lru /\ Held' = Held /\ answer' = answer
    BY <1>1, BindRefines DEF Bind
  <2>2. QED
    BY <2>1 DEF Cache!vars, Lru
<1>2. CASE Set \/ UNCHANGED vars
  <2>1. UNCHANGED <<up, used, tree, links, key, dat, file, answer>>
    BY <1>2 DEF Set, vars, sessionVars
  <2>2. List' = List /\ Held' = Held
    BY <2>1 DEF List, IsList, links, Held, Holding
  <2>3. Lru' = Lru
    BY <2>1, <2>2 DEF Lru
  <2>4. QED
    BY <2>1, <2>2, <2>3 DEF Cache!vars, Lru
<1>3. CASE Clean
  BY <1>3, CleanRefines DEF Cache!Next
<1>4. ASSUME NEW x \in Sectors, Search(x) PROVE Cache!Next
  BY <1>4, SearchRefines DEF Cache!Next
<1>5. ASSUME NEW x \in Sectors, Insert(x)
      PROVE  Cache!Next \/ UNCHANGED Cache!vars
  BY <1>5, InsertRefines
<1>6. QED
  BY <1>1, <1>2, <1>3, <1>4, <1>5 DEF Next

\* In one session, and until a write fails that reuses an evicted block, tree,
\* list and cache file (cache.c) are a bounded store that forgets the block
\* put longest ago; a look-up never finds another sector's block.
THEOREM Refinement ==
    ASSUME OneSession, TwoBlocks PROVE Spec => ImplementsBlockCache
<1>1. Init => Cache!Init
  <2> SUFFICES ASSUME Init PROVE Cache!Init
    OBVIOUS
  <2>1. ~up /\ answer = <<None, None>>
    BY DEF Init
  <2>2. Lru = <<>> /\ Held = [x \in Sectors |-> None]
    BY <2>1, HeldAs DEF Lru, List
  <2>3. QED
    BY <2>1, <2>2 DEF Cache!Init, Lru
<1>2. IInv /\ [Next]_vars => [Cache!Next \/ lost']_(Cache!vars)
  BY RefinementStep
<1>3. Spec => []IInv
  BY Invariance
<1>4. QED
  BY <1>1, <1>2, <1>3, PTL DEF Spec, ImplementsBlockCache
=============================================================================
