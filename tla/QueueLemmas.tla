---------------------------- MODULE QueueLemmas ----------------------------
(***************************************************************************)
(* What enqueueing and dequeueing do to the elements of a queue that holds *)
(* each element at most once.  The queues are the linked lists of the      *)
(* drivers (list_add_tail, list_del_init), written as sequences.           *)
(***************************************************************************)
EXTENDS Integers, SequencesExt, SequenceTheorems, FiniteSetTheorems, TLAPS

\* list_add_tail adds one element.
LEMMA AppendRange ==
    ASSUME NEW S, NEW q \in Seq(S), NEW x \in S
    PROVE  /\ Append(q, x) \in Seq(S)
           /\ Range(Append(q, x)) = Range(q) \cup {x}
<1> DEFINE new == Append(q, x)
<1>1. new \in Seq(S) /\ DOMAIN new = 1 .. Len(q) + 1 /\ DOMAIN q = 1 .. Len(q)
          /\ Len(q) \in Nat
  OBVIOUS
<1>2. new[Len(q) + 1] = x /\ \A i \in 1 .. Len(q) : new[i] = q[i]
  OBVIOUS
<1>3. 1 .. Len(q) + 1 = (1 .. Len(q)) \cup {Len(q) + 1}
  BY <1>1
<1>4. QED
  BY <1>1, <1>2, <1>3 DEF Range

\* Adding an element that is not in the queue keeps the elements distinct.
LEMMA AppendKeepsInjective ==
    ASSUME NEW S, NEW q \in Seq(S), NEW x \in S,
           IsInjective(q), x \notin Range(q)
    PROVE  IsInjective(Append(q, x))
<1> DEFINE new == Append(q, x)
<1>1. DOMAIN new = 1 .. Len(q) + 1 /\ DOMAIN q = 1 .. Len(q) /\ Len(q) \in Nat
  OBVIOUS
<1>2. new[Len(q) + 1] = x /\ \A i \in 1 .. Len(q) : new[i] = q[i]
  OBVIOUS
<1>3. \A i \in 1 .. Len(q) : q[i] # x
  BY <1>1 DEF Range
<1>4. \A i, j \in DOMAIN q : q[i] = q[j] => i = j
  BY DEF IsInjective
<1>5. \A i, j \in DOMAIN new : new[i] = new[j] => i = j
  BY <1>1, <1>2, <1>3, <1>4
<1>6. QED
  BY <1>5 DEF IsInjective

\* list_del_init removes one element, whatever its position.
LEMMA RemoveAtRange ==
    ASSUME NEW S, NEW q \in Seq(S), IsInjective(q), NEW k \in DOMAIN q
    PROVE  /\ q[k] \in S
           /\ RemoveAt(q, k) \in Seq(S)
           /\ Range(RemoveAt(q, k)) = Range(q) \ {q[k]}
           /\ IsInjective(RemoveAt(q, k))
<1> DEFINE new == RemoveAt(q, k)
           n == Len(q)
<1>1. n \in Nat /\ DOMAIN q = 1 .. n /\ k \in 1 .. n /\ q[k] \in S
  OBVIOUS
<1> DEFINE left  == SubSeq(q, 1, k - 1)
           right == SubSeq(q, k + 1, n)
<1>2. /\ left \in Seq(S)
      /\ Len(left) = k - 1
      /\ \A i \in 1 .. k - 1 : left[i] = q[i]
  BY <1>1, SubSeqProperties
<1>3. /\ right \in Seq(S)
      /\ Len(right) = n - k
      /\ \A i \in 1 .. n - k : right[i] = q[i + k]
  <2>1. \A i \in k + 1 .. n : q[i] \in S
    BY <1>1
  <2>2. /\ right \in Seq(S)
        /\ Len(right) = IF k + 1 <= n THEN n - (k + 1) + 1 ELSE 0
        /\ \A i \in 1 .. n - (k + 1) + 1 : right[i] = q[(k + 1) + i - 1]
    <3> HIDE DEF n
    <3>1. n \in Int /\ k + 1 \in Int
      BY <1>1
    <3>2. QED
      BY <2>1, <3>1, SubSeqProperties
  <2> HIDE DEF n, right
  <2>3. QED
    BY <1>1, <2>2
<1>a. new = left \o right
  BY DEF RemoveAt
<1> HIDE DEF new, left, right
<1>b. /\ new \in Seq(S)
      /\ Len(new) = Len(left) + Len(right)
      /\ \A i \in 1 .. Len(left) + Len(right) :
            new[i] = IF i <= Len(left) THEN left[i] ELSE right[i - Len(left)]
  BY <1>2, <1>3, <1>a, ConcatProperties
<1> HIDE DEF n
<1>4. /\ new \in Seq(S)
      /\ DOMAIN new = 1 .. n - 1
      /\ \A i \in 1 .. k - 1 : new[i] = q[i]
      /\ \A i \in k .. n - 1 : new[i] = q[i + 1]
  <2>1. Len(new) = n - 1
    BY <1>1, <1>2, <1>3, <1>b
  <2>2. DOMAIN new = 1 .. n - 1
    BY <1>b, <2>1
  <2>3. ASSUME NEW i \in 1 .. k - 1 PROVE new[i] = q[i]
    BY <1>1, <1>2, <1>3, <1>b
  <2>4. ASSUME NEW i \in k .. n - 1 PROVE new[i] = q[i + 1]
    <3>1. i \in 1 .. Len(left) + Len(right) /\ ~(i <= Len(left))
            /\ i - Len(left) = i - (k - 1) /\ i - (k - 1) \in 1 .. n - k
      BY <1>1, <1>2, <1>3
    <3>2. new[i] = right[i - (k - 1)]
      BY <1>b, <3>1
    <3>3. right[i - (k - 1)] = q[(i - (k - 1)) + k]
      BY <1>3, <3>1
    <3>4. (i - (k - 1)) + k = i + 1
      BY <1>1
    <3>5. QED
      BY <3>2, <3>3, <3>4
  <2>5. QED
    BY <1>b, <2>2, <2>3, <2>4
<1>5. \A i, j \in DOMAIN q : q[i] = q[j] => i = j
  BY DEF IsInjective
<1>6. ASSUME NEW i \in DOMAIN new, NEW j \in DOMAIN new, new[i] = new[j]
      PROVE  i = j
  <2> DEFINE old(h) == IF h < k THEN h ELSE h + 1
  <2>1. ASSUME NEW h \in 1 .. n - 1
        PROVE  old(h) \in DOMAIN q /\ new[h] = q[old(h)]
    <3>1. CASE h < k
      BY <1>1, <1>4, <3>1
    <3>2. CASE ~(h < k)
      BY <1>1, <1>4, <3>2
    <3>3. QED
      BY <3>1, <3>2
  <2>2. i \in 1 .. n - 1 /\ j \in 1 .. n - 1
    BY <1>4
  <2>3. old(i) = old(j)
    <3> HIDE DEF old
    <3>1. QED
      BY <1>5, <1>6, <2>1, <2>2
  <2>4. QED
    BY <1>1, <2>2, <2>3
<1>7. Range(new) \subseteq Range(q) \ {q[k]}
  BY <1>1, <1>4, <1>5 DEF Range
<1>8. ASSUME NEW i \in DOMAIN q, i # k PROVE q[i] \in Range(new)
  <2>1. CASE i < k
    BY <1>1, <1>4, <2>1 DEF Range
  <2>2. CASE i > k
    <3>1. i - 1 \in DOMAIN new /\ new[i - 1] = q[i]
      BY <1>1, <1>4, <2>2
    <3>2. QED
      BY <3>1 DEF Range
  <2>3. QED
    BY <1>1, <1>8, <2>1, <2>2
<1>9. Range(q) \ {q[k]} \subseteq Range(new)
  BY <1>8 DEF Range
<1>10. IsInjective(new)
  BY <1>6 DEF IsInjective
<1>11. QED
  BY <1>1, <1>4, <1>7, <1>9, <1>10 DEF new

\* Taking the first element off.
LEMMA HeadTailRange ==
    ASSUME NEW S, NEW q \in Seq(S), IsInjective(q), q # <<>>
    PROVE  /\ Head(q) \in S
           /\ Head(q) \in Range(q)
           /\ Tail(q) \in Seq(S)
           /\ Range(Tail(q)) = Range(q) \ {Head(q)}
           /\ IsInjective(Tail(q))
<1> DEFINE t == Tail(q)
           n == Len(q)
<1>1. n \in Nat /\ n > 0 /\ DOMAIN q = 1 .. n /\ Head(q) = q[1] /\ q[1] \in S
  OBVIOUS
<1>2. /\ t \in Seq(S) /\ DOMAIN t = 1 .. n - 1
      /\ \A i \in 1 .. n - 1 : t[i] = q[i + 1]
  BY <1>1
<1>3. \A i, j \in DOMAIN q : q[i] = q[j] => i = j
  BY DEF IsInjective
<1>4. \A i, j \in DOMAIN t : t[i] = t[j] => i = j
  BY <1>1, <1>2, <1>3
<1>5. Range(t) \subseteq Range(q) \ {q[1]}
  BY <1>1, <1>2, <1>3 DEF Range
<1>6. ASSUME NEW i \in DOMAIN q, i # 1 PROVE q[i] \in Range(t)
  <2>1. i - 1 \in DOMAIN t /\ t[i - 1] = q[i]
    BY <1>1, <1>2, <1>6
  <2>2. QED
    BY <2>1 DEF Range
<1>7. Range(q) \ {q[1]} \subseteq Range(t)
  BY <1>6 DEF Range
<1>8. QED
  BY <1>1, <1>2, <1>4, <1>5, <1>7 DEF IsInjective, Range

\* The empty queue has no elements.
LEMMA EmptyRange == Range(<<>>) = {} /\ IsInjective(<<>>)
  BY DEF Range, IsInjective

-----------------------------------------------------------------------------
(* Lists that are known by their first element and their links.            *)

\* What holds for 1 and is passed on to the next number reaches n: otherwise
\* to add one would map a finite set to a smaller one.
LEMMA LastReached ==
    ASSUME NEW n \in Nat, n >= 1, NEW K \in SUBSET (1 .. n), 1 \in K,
           \A i \in K : i < n => i + 1 \in K
    PROVE  n \in K
<1> DEFINE T == (K \cup {n + 1}) \ {1}
           f == [i \in K |-> i + 1]
<1>1. IsFiniteSet(K) /\ Cardinality(K) \in Nat
  <2>1. IsFiniteSet(1 .. n)
    BY FS_Interval
  <2>2. IsFiniteSet(K)
    BY <2>1, FS_Subset
  <2>3. QED
    BY <2>2, FS_CardinalityType
<1>2. IsFiniteSet(K \cup {n + 1}) /\ Cardinality(K \cup {n + 1}) = Cardinality(K) + 1
  <2>1. n + 1 \notin K
    OBVIOUS
  <2>2. QED
    BY <1>1, <2>1, FS_AddElement
<1>3. IsFiniteSet(T) /\ Cardinality(T) = Cardinality(K)
  <2> DEFINE U == K \cup {n + 1}
  <2>1. 1 \in U /\ IsFiniteSet(U) /\ Cardinality(U) = Cardinality(K) + 1
    BY <1>2
  <2>2. T = U \ {1}
    OBVIOUS
  <2> HIDE DEF U, T
  <2>3. IsFiniteSet(U \ {1}) /\ Cardinality(U \ {1}) = Cardinality(U) - 1
    BY <2>1, FS_RemoveElement
  <2>4. Cardinality(U \ {1}) = Cardinality(K)
    BY <1>1, <2>1, <2>3
  <2>5. QED
    BY <2>2, <2>3, <2>4
<1>4. f \in Injection(K, T)
  <2>1. \A i \in K : i + 1 \in T
    OBVIOUS
  <2>2. \A i, j \in K : i + 1 = j + 1 => i = j
    OBVIOUS
  <2>3. f \in [K -> T] /\ \A i, j \in K : f[i] = f[j] => i = j
    BY <2>1, <2>2
  <2> HIDE DEF f, T
  <2>4. QED
    BY <2>3 DEF Injection, IsInjective
<1>5. f \in Surjection(K, T)
  <2> HIDE DEF f, T
  <2>1. QED
    BY <1>1, <1>3, <1>4, FS_Injection
<1>6. n + 1 \in T
  OBVIOUS
<1>7. PICK i \in K : f[i] = n + 1
  <2> HIDE DEF f, T
  <2>1. QED
    BY <1>5, <1>6 DEF Surjection
<1>8. i = n
  BY <1>7
<1>9. QED
  BY <1>8

\* Each of the n elements of s is followed by the one it points to.
LinkedBy(nextOf, s, n) == \A i \in 1 .. n - 1 : s[i + 1] = nextOf[s[i]]

\* First element and links determine the list.
LEMMA SameLinks ==
    ASSUME NEW n \in Nat, NEW s, NEW t, NEW nextOf, s[1] = t[1],
           LinkedBy(nextOf, s, n), LinkedBy(nextOf, t, n)
    PROVE  \A i \in 1 .. n : s[i] = t[i]
<1> SUFFICES ASSUME NEW i \in 1 .. n PROVE s[i] = t[i]
  OBVIOUS
<1> DEFINE K == {j \in 1 .. i : s[j] = t[j]}
<1>1. K \in SUBSET (1 .. i) /\ 1 \in K /\ i \in Nat /\ i >= 1
  OBVIOUS
<1>2. \A j \in K : j < i => j + 1 \in K
  <2>1. ASSUME NEW j \in K, j < i PROVE j + 1 \in K
    <3>1. j \in 1 .. n - 1 /\ j + 1 \in 1 .. i /\ s[j] = t[j]
      BY <2>1
    <3>2. s[j + 1] = t[j + 1]
      BY <3>1 DEF LinkedBy
    <3>3. QED
      BY <3>1, <3>2
  <2>2. QED
    BY <2>1
<1>3. i \in K
  <2> HIDE DEF K
  <2>1. QED
    BY <1>1, <1>2, LastReached
<1>4. QED
  BY <1>3

\* list_add puts one element before the others.
LEMMA PrependItems ==
    ASSUME NEW S, NEW q \in Seq(S), NEW x \in S
    PROVE  /\ <<x>> \o q \in Seq(S)
           /\ Len(<<x>> \o q) = Len(q) + 1
           /\ \A i \in 1 .. Len(q) + 1 :
                 (<<x>> \o q)[i] = IF i = 1 THEN x ELSE q[i - 1]
<1>1. <<x>> \in Seq(S) /\ Len(<<x>>) = 1 /\ <<x>>[1] = x /\ Len(q) \in Nat
  OBVIOUS
<1>2. /\ <<x>> \o q \in Seq(S)
      /\ Len(<<x>> \o q) = 1 + Len(q)
      /\ \A i \in 1 .. 1 + Len(q) :
            (<<x>> \o q)[i] = IF i <= 1 THEN <<x>>[i] ELSE q[i - 1]
  BY <1>1, ConcatProperties
<1>3. \A i \in 1 .. Len(q) + 1 :
         (<<x>> \o q)[i] = IF i = 1 THEN x ELSE q[i - 1]
  BY <1>1, <1>2
<1>4. QED
  BY <1>1, <1>2, <1>3

\* What is left when one element is taken out.
LEMMA RemoveAtItems ==
    ASSUME NEW S, NEW q \in Seq(S), NEW k \in 1 .. Len(q)
    PROVE  /\ RemoveAt(q, k) \in Seq(S)
           /\ Len(RemoveAt(q, k)) = Len(q) - 1
           /\ \A i \in 1 .. Len(q) - 1 :
                 RemoveAt(q, k)[i] = IF i < k THEN q[i] ELSE q[i + 1]
<1> DEFINE n == Len(q)
           left  == SubSeq(q, 1, k - 1)
           right == SubSeq(q, k + 1, n)
<1>1. n \in Nat /\ k \in 1 .. n /\ \A i \in 1 .. n : q[i] \in S
  OBVIOUS
<1>2. /\ left \in Seq(S) /\ Len(left) = k - 1
      /\ \A i \in 1 .. k - 1 : left[i] = q[i]
  BY <1>1, SubSeqProperties
<1>3. /\ right \in Seq(S) /\ Len(right) = n - k
      /\ \A i \in 1 .. n - k : right[i] = q[i + k]
  <2>1. /\ right \in Seq(S)
        /\ Len(right) = IF k + 1 <= n THEN n - (k + 1) + 1 ELSE 0
        /\ \A i \in 1 .. n - (k + 1) + 1 : right[i] = q[(k + 1) + i - 1]
    <3> HIDE DEF n
    <3>1. n \in Int /\ k + 1 \in Int /\ \A i \in k + 1 .. n : q[i] \in S
      BY <1>1
    <3>2. QED
      BY <3>1, SubSeqProperties
  <2> HIDE DEF n, right
  <2>2. QED
    BY <1>1, <2>1
<1>4. RemoveAt(q, k) = left \o right
  BY DEF RemoveAt
<1> HIDE DEF left, right, n
<1>5. /\ left \o right \in Seq(S)
      /\ Len(left \o right) = n - 1
      /\ \A i \in 1 .. n - 1 : (left \o right)[i] =
            IF i <= k - 1 THEN left[i] ELSE right[i - (k - 1)]
  BY <1>1, <1>2, <1>3, ConcatProperties
<1>6. \A i \in 1 .. n - 1 :
         (left \o right)[i] = IF i < k THEN q[i] ELSE q[i + 1]
  <2> SUFFICES ASSUME NEW i \in 1 .. n - 1
               PROVE  (left \o right)[i] = IF i < k THEN q[i] ELSE q[i + 1]
    OBVIOUS
  <2>1. CASE i < k
    <3>1. i \in 1 .. k - 1 /\ i <= k - 1
      BY <1>1, <2>1
    <3>2. QED
      BY <1>2, <1>5, <2>1, <3>1
  <2>2. CASE i >= k
    <3>1. ~(i <= k - 1) /\ i - (k - 1) \in 1 .. n - k /\ (i - (k - 1)) + k = i + 1
      BY <1>1, <2>2
    <3>2. right[i - (k - 1)] = q[i + 1]
      BY <1>3, <3>1
    <3>3. QED
      BY <1>5, <2>2, <3>1, <3>2
  <2>3. i < k \/ i >= k
    BY <1>1
  <2>4. QED
    BY <2>1, <2>2, <2>3, Zenon
<1>7. QED
  BY <1>4, <1>5, <1>6 DEF n

\* What is left without the last element.
LEMMA FrontItems ==
    ASSUME NEW S, NEW q \in Seq(S), Len(q) >= 1
    PROVE  /\ Front(q) \in Seq(S)
           /\ Len(Front(q)) = Len(q) - 1
           /\ \A i \in 1 .. Len(q) - 1 : Front(q)[i] = q[i]
<1> DEFINE n == Len(q)
<1>1. n \in Nat /\ \A i \in 1 .. n : q[i] \in S
  OBVIOUS
<1>2. Front(q) = SubSeq(q, 1, n - 1)
  BY DEF Front
<1> HIDE DEF n
<1>3. n - 1 \in Int /\ n >= 1
  BY <1>1 DEF n
<1>4. /\ SubSeq(q, 1, n - 1) \in Seq(S)
      /\ Len(SubSeq(q, 1, n - 1)) = IF 1 <= n - 1 THEN n - 1 - 1 + 1 ELSE 0
      /\ \A i \in 1 .. n - 1 - 1 + 1 : SubSeq(q, 1, n - 1)[i] = q[1 + i - 1]
  <2>1. \A i \in 1 .. n - 1 : q[i] \in S
    BY <1>1, <1>3
  <2>2. QED
    BY <1>3, <2>1, SubSeqProperties
<1>5. Len(SubSeq(q, 1, n - 1)) = n - 1 /\ n - 1 - 1 + 1 = n - 1
  BY <1>1, <1>3, <1>4
<1>6. \A i \in 1 .. n - 1 : 1 + i - 1 = i
  BY <1>1
<1>7. \A i \in 1 .. n - 1 : SubSeq(q, 1, n - 1)[i] = q[i]
  BY <1>4, <1>5, <1>6, Zenon
<1>8. QED
  BY <1>2, <1>4, <1>5, <1>7, Zenon DEF n

-----------------------------------------------------------------------------
(* Queues that are known element by element.                               *)

LEMMA PrependIs ==
    ASSUME NEW S, NEW q \in Seq(S), NEW r \in Seq(S), NEW x \in S,
           Len(r) = Len(q) + 1,
           \A i \in 1 .. Len(r) : r[i] = IF i = 1 THEN x ELSE q[i - 1]
    PROVE  r = <<x>> \o q
<1> DEFINE t == <<x>> \o q
<1>1. /\ t \in Seq(S) /\ Len(t) = Len(r)
      /\ \A i \in 1 .. Len(r) : t[i] = IF i = 1 THEN x ELSE q[i - 1]
  BY PrependItems
<1> HIDE DEF t
<1>2. \A i \in 1 .. Len(r) : r[i] = t[i]
  BY <1>1
<1>3. r = t
  BY <1>1, <1>2, SeqEqual
<1>4. QED
  BY <1>3 DEF t

\* list_del and list_add move the k-th element to the head.
LEMMA MoveIs ==
    ASSUME NEW S, NEW q \in Seq(S), NEW r \in Seq(S), NEW k \in 1 .. Len(q),
           Len(r) = Len(q),
           \A i \in 1 .. Len(r) :
              r[i] = IF i = 1 THEN q[k] ELSE IF i <= k THEN q[i - 1] ELSE q[i]
    PROVE  r = <<q[k]>> \o RemoveAt(q, k)
<1>1. PICK p : p = RemoveAt(q, k)
  OBVIOUS
<1>2. /\ p \in Seq(S) /\ Len(p) = Len(q) - 1
      /\ \A i \in 1 .. Len(q) - 1 : p[i] = IF i < k THEN q[i] ELSE q[i + 1]
  BY <1>1, RemoveAtItems
<1>3. Len(q) \in Nat /\ q[k] \in S
  OBVIOUS
<1>4. ASSUME NEW i \in 1 .. Len(r)
      PROVE  r[i] = IF i = 1 THEN q[k] ELSE p[i - 1]
  <2>1. CASE i = 1
    BY <2>1
  <2>2. CASE i # 1
    <3>1. i - 1 \in 1 .. Len(q) - 1 /\ (i - 1 < k <=> i <= k) /\ (i - 1) + 1 = i
      BY <1>3, <2>2
    <3>2. p[i - 1] = IF i <= k THEN q[i - 1] ELSE q[i]
      BY <1>2, <3>1
    <3>3. QED
      BY <2>2, <3>2
  <2>3. QED
    BY <2>1, <2>2
<1>5. Len(r) = Len(p) + 1
  BY <1>2, <1>3
<1>6. r = <<q[k]>> \o p
  BY <1>2, <1>3, <1>4, <1>5, PrependIs
<1>7. QED
  BY <1>1, <1>6

\* The last element makes room for a new first one.
LEMMA RotateIs ==
    ASSUME NEW S, NEW q \in Seq(S), NEW r \in Seq(S), NEW x \in S,
           Len(r) = Len(q), Len(q) >= 1,
           \A i \in 1 .. Len(r) : r[i] = IF i = 1 THEN x ELSE q[i - 1]
    PROVE  r = <<x>> \o Front(q)
<1>1. PICK p : p = Front(q)
  OBVIOUS
<1>2. /\ p \in Seq(S) /\ Len(p) = Len(q) - 1
      /\ \A i \in 1 .. Len(q) - 1 : p[i] = q[i]
  BY <1>1, FrontItems
<1>3. Len(q) \in Nat
  OBVIOUS
<1>4. ASSUME NEW i \in 1 .. Len(r)
      PROVE  r[i] = IF i = 1 THEN x ELSE p[i - 1]
  <2>1. CASE i = 1
    BY <2>1
  <2>2. CASE i # 1
    <3>1. i - 1 \in 1 .. Len(q) - 1
      BY <1>3, <2>2
    <3>2. QED
      BY <1>2, <2>2, <3>1
  <2>3. QED
    BY <2>1, <2>2
<1>5. Len(r) = Len(p) + 1
  BY <1>2, <1>3
<1>6. r = <<x>> \o p
  BY <1>2, <1>4, <1>5, PrependIs
<1>7. QED
  BY <1>1, <1>6

=============================================================================
