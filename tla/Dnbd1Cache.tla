----------------------------- MODULE Dnbd1Cache -----------------------------
(***************************************************************************)
(* The block cache of a DNBD client (src/contrib/dnbd/trunk/kernel,        *)
(* cache.c): nodes in a red-black tree and in a doubly linked LRU list,    *)
(* each owning one block of the cache file.  The sender looks blocks up,   *)
(* the receiver inserts what it overhears; both run under cache->sema, so  *)
(* a call is one action.  The kernel's tree is the set of the nodes linked *)
(* into it; the list is kept pointer by pointer.                           *)
(***************************************************************************)
EXTENDS Integers, FiniteSets, FiniteSetsExt

CONSTANTS
    Nodes,         \* memory kmalloc can hand out for a cache_node
    Sectors,       \* first sectors of blocks; a block's contents bear its name
    MaxBlocks,     \* blocks the cache file has room for
    None,          \* NULL; unknown contents; a miss
    MaxSessions    \* bound: how often the device is bound to a server

ASSUME CacheAssumption ==
    /\ None \notin Nodes \cup Sectors
    /\ MaxBlocks \in Nat \ {0}
    /\ MaxSessions \in Nat

VARIABLES
    up, sessions,    \* the device is bound; times it has been
    active, ops,     \* cache->active; the functions are not the dummies
    max, used,       \* max_blocks, used_blocks
    tree,            \* nodes reached from cache->root
    head, tail,      \* ends of the LRU list
    key, dat,        \* rb_key and rb_data of each node
    prev, next,      \* its neighbours in the list
    live,            \* nodes allocated
    file,            \* contents of each block of the cache file
    answer,          \* sector and result of the last look-up
    lost,            \* history: a write failed that reused an evicted block
    fault            \* freed memory or NULL has been dereferenced

links == <<head, tail, prev, next>>
sessionVars == <<up, sessions, active, ops, max>>
vars == <<sessionVars, used, tree, links, key, dat, live, file, answer,
          lost, fault>>

Blocks == 0 .. MaxBlocks - 1

\* dnbd_cache_init.
Init ==
    /\ up = FALSE /\ sessions = 0
    /\ active = FALSE /\ ops = FALSE
    /\ max = 0 /\ used = 0
    /\ tree = {} /\ live = {}
    /\ head = None /\ tail = None
    /\ key = [n \in Nodes |-> None]
    /\ dat = [n \in Nodes |-> 0]
    /\ prev = [n \in Nodes |-> None]
    /\ next = [n \in Nodes |-> None]
    /\ file = [b \in Blocks |-> None]
    /\ answer = <<None, None>>
    /\ lost = FALSE /\ fault = FALSE

-----------------------------------------------------------------------------
(* The session around the cache.                                           *)

Bind ==
    /\ ~fault /\ ~up
    /\ sessions < MaxSessions
    /\ up' = TRUE
    /\ sessions' = sessions + 1
    /\ UNCHANGED <<active, ops, max, used, tree, links, key, dat, live, file,
                   answer, lost, fault>>

\* dnbd_cache_set on a file that can be opened; used_blocks is left alone.
Set ==
    /\ ~fault /\ up
    /\ ~active
    /\ active' = TRUE
    /\ ops' = TRUE
    /\ max' = MaxBlocks
    /\ UNCHANGED <<up, sessions, used, tree, links, key, dat, live, file,
                   answer, lost, fault>>

\* Mutant: the cache is emptied while the threads still run.
CleanEarly ==
    /\ ~fault /\ up
    /\ head' = None /\ tail' = None
    /\ live' = {}
    /\ UNCHANGED <<sessionVars, used, tree, key, dat, prev, next, file,
                   answer, lost, fault>>

\* dnbd_disconnect, once the threads have ended, and dnbd_cache_clean: every
\* node of the list is freed, but cache->root, used_blocks and the functions
\* keep their values.
Clean ==
    /\ ~fault /\ up
    /\ up' = FALSE
    /\ active' = FALSE
    /\ head' = None /\ tail' = None
    /\ live' = {}
    /\ UNCHANGED <<sessions, ops, max, used, tree, key, dat, prev, next,
                   file, answer, lost, fault>>

-----------------------------------------------------------------------------
(* Look-ups and insertions.                                                *)

\* The node of a sector; at most one, by the order of the tree.
Holding(x) == {n \in tree : key[n] = x}

\* The descent from the root meets memory that has been freed.
Dangling == ~(tree \subseteq live)

Oops == fault' = TRUE /\ UNCHANGED <<sessionVars, used, tree, links, key,
                                     dat, live, file, answer, lost>>

\* dnbd_cache_search; reading the cache file may fail.
Search(x) ==
    /\ ~fault /\ up
    /\ \/ /\ ops /\ Dangling
          /\ Oops
       \/ /\ ~(ops /\ Dangling)
          /\ \/ answer' = <<x, None>>
             \/ \E n \in Holding(x) : ops /\ answer' = <<x, file[dat[n]]>>
          /\ UNCHANGED <<sessionVars, used, tree, links, key, dat, live,
                         file, lost, fault>>

\* Mutant: the predecessor of a moved tail does not become the tail.
UnlinkTail(n) ==
    /\ next' = [next EXCEPT ![prev[n]] = next[n], ![n] = head]
    /\ prev' = [m \in Nodes |-> IF m = n THEN None
                                ELSE IF m = head THEN n
                                ELSE IF m = next[n] THEN prev[n]
                                ELSE prev[m]]
    /\ tail' = tail
    /\ head' = n

\* The LRU step: n, which has a predecessor, is moved to the head.
MoveToHead(n) ==
    /\ next' = [next EXCEPT ![prev[n]] = next[n], ![n] = head]
    /\ prev' = [m \in Nodes |-> IF m = n THEN None
                                ELSE IF m = head THEN n
                                ELSE IF m = next[n] THEN prev[n]
                                ELSE prev[m]]
    /\ tail' = IF next[n] = None THEN prev[n] ELSE tail
    /\ head' = n

\* A block that is inserted again is not written again.
InsertAgain(x) ==
    /\ \E n \in Holding(x) :
          IF prev[n] = None THEN UNCHANGED links ELSE MoveToHead(n)
    /\ UNCHANGED <<sessionVars, used, tree, key, dat, live, file, answer,
                   lost, fault>>

\* The end of dnbd_cache_insert: n is linked at the head of a list whose
\* links are p and q and whose last node is t, and into tree tr.
Link(n, x, b, p, q, t, tr) ==
    /\ key' = [key EXCEPT ![n] = x]
    /\ dat' = [dat EXCEPT ![n] = b]
    /\ prev' = [m \in Nodes |-> IF m = n THEN None
                                ELSE IF m = head THEN n ELSE p[m]]
    /\ next' = [q EXCEPT ![n] = head]
    /\ head' = n
    /\ tail' = IF t = None THEN n ELSE t
    /\ tree' = tr \cup {n}

\* Mutant: the block is not counted.
InsertNewUncounted(x) ==
    /\ Holding(x) = {} /\ used # max
    /\ \E n \in Nodes \ live :
         /\ Link(n, x, used, prev, next, tail, tree)
         /\ file' = [file EXCEPT ![used] = x]
         /\ live' = live \cup {n}
    /\ UNCHANGED <<sessionVars, used, answer, lost, fault>>

\* There is room: kmalloc gives a node, used_blocks numbers its block.
InsertNew(x) ==
    /\ Holding(x) = {} /\ used # max
    /\ \E n \in Nodes \ live :
         /\ Link(n, x, used, prev, next, tail, tree)
         /\ file' = [file EXCEPT ![used] = x]
         /\ used' = used + 1
         /\ live' = live \cup {n}
    /\ UNCHANGED <<sessionVars, answer, lost, fault>>

\* Mutant: the count is given back that was never taken.
InsertNewFailsTwice(x) ==
    /\ Holding(x) = {} /\ used # max
    /\ used' = used - 1
    /\ file' = [file EXCEPT ![used] = None]
    /\ UNCHANGED <<sessionVars, tree, links, key, dat, live, answer, lost,
                   fault>>

\* The block is written only in part: count and node are given back.
InsertNewFails(x) ==
    /\ Holding(x) = {} /\ used # max
    /\ file' = [file EXCEPT ![used] = None]
    /\ UNCHANGED <<sessionVars, used, tree, links, key, dat, live, answer,
                   lost, fault>>

\* Mutant: the reused block keeps the contents of the evicted one.
EvictUnwritten(x) ==
    /\ Holding(x) = {} /\ used = max
    /\ tail # None /\ prev[tail] # None
    /\ Link(tail, x, dat[tail], prev, [next EXCEPT ![prev[tail]] = None],
            prev[tail], tree \ {tail})
    /\ UNCHANGED <<sessionVars, used, file, live, answer, lost, fault>>

\* The cache is full: the last node of the list and its block are reused.
Evict(x) ==
    /\ Holding(x) = {} /\ used = max
    /\ tail # None /\ prev[tail] # None
    /\ Link(tail, x, dat[tail], prev, [next EXCEPT ![prev[tail]] = None],
            prev[tail], tree \ {tail})
    /\ file' = [file EXCEPT ![dat[tail]] = x]
    /\ UNCHANGED <<sessionVars, used, live, answer, lost, fault>>

\* The last node is gone and its block with it; used_blocks now numbers the
\* block with the highest number, whoever owns it.
EvictFails(x) ==
    /\ Holding(x) = {} /\ used = max
    /\ tail # None /\ prev[tail] # None
    /\ file' = [file EXCEPT ![dat[tail]] = None]
    /\ next' = [next EXCEPT ![prev[tail]] = None]
    /\ tail' = prev[tail]
    /\ tree' = tree \ {tail}
    /\ live' = live \ {tail}
    /\ used' = used - 1
    /\ lost' = TRUE
    /\ UNCHANGED <<sessionVars, head, prev, key, dat, answer, fault>>

\* dnbd_cache_insert, called by dnbd_xfer_to_cache for an active cache.
\* kmalloc may fail: nothing happens.
Insert(x) ==
    /\ ~fault /\ up /\ active
    /\ \/ /\ Dangling \/ (Holding(x) = {} /\ used = max
                            /\ (tail = None \/ prev[tail] = None))
          /\ Oops
       \/ /\ ~Dangling
          /\ \/ InsertAgain(x)
             \/ InsertNew(x) \/ InsertNewFails(x)
             \/ Evict(x) \/ EvictFails(x)

Next ==
    \/ Bind \/ Set \/ Clean
    \/ \E x \in Sectors : Search(x) \/ Insert(x)

Spec == Init /\ [][Next]_vars

-----------------------------------------------------------------------------
(* Properties.                                                             *)

\* Every variable has values of its kind; blocks are not numbered beyond the
\* size of the cache (cache.c:226, 238).
TypeOK ==
    /\ up \in BOOLEAN /\ active \in BOOLEAN /\ ops \in BOOLEAN
    /\ lost \in BOOLEAN /\ fault \in BOOLEAN
    /\ sessions \in Nat /\ max \in {0, MaxBlocks} /\ used \in 0 .. MaxBlocks
    /\ tree \subseteq Nodes /\ live \subseteq Nodes
    /\ head \in Nodes \cup {None} /\ tail \in Nodes \cup {None}
    /\ key \in [Nodes -> Sectors \cup {None}]
    /\ dat \in [Nodes -> Blocks]
    /\ prev \in [Nodes -> Nodes \cup {None}]
    /\ next \in [Nodes -> Nodes \cup {None}]
    /\ file \in [Blocks -> Sectors \cup {None}]
    /\ answer \in (Sectors \cup {None}) \X (Sectors \cup {None})

\* No call follows a pointer to NULL or to a node that was freed, whatever
\* is inserted, refreshed and evicted in one session (cache.c:189-213).
NoFault == ~fault

\* No two entries are for the same sector or own the same block of the cache
\* file, though numbers of blocks are given back and reused, until a write
\* fails that reuses an evicted block (cache.c:203, 228, 236-241).
OneOwner ==
    \A m, n \in tree : m # n => /\ key[m] # key[n]
                                /\ lost \/ dat[m] # dat[n]

\* s is the list, from its head.
IsList(s) ==
    /\ tree = {s[i] : i \in 1 .. used}
    /\ \A i, j \in 1 .. used : s[i] = s[j] => i = j
    /\ head = (IF used = 0 THEN None ELSE s[1])
    /\ tail = (IF used = 0 THEN None ELSE s[used])
    /\ \A i \in 1 .. used :
          /\ prev[s[i]] = (IF i = 1 THEN None ELSE s[i - 1])
          /\ next[s[i]] = (IF i = used THEN None ELSE s[i + 1])

\* List and tree hold the same nodes, used_blocks counts them, and the list
\* reads backwards as it reads forwards (cache.c:157-185, 196-198, 245-265).
ListIsTree == up => \E s \in [1 .. used -> tree] : IsList(s)

\* What the cache holds: nothing once it has been cleaned.
List == IF up THEN CHOOSE s \in [1 .. used -> tree] : IsList(s) ELSE <<>>

Held == [x \in Sectors |->
           IF up /\ Holding(x) # {}
           THEN file[dat[CHOOSE n \in Holding(x) : TRUE]]
           ELSE None]

Cache == INSTANCE BlockCache WITH
           Data <- [x \in Sectors |-> {x}],
           lru <- [i \in DOMAIN List |-> key[List[i]]],
           held <- Held

\* Cache file, tree and list together are a bounded store that forgets the
\* block put longest ago, until a write fails that reuses an evicted block: a
\* look-up never finds another sector's block.
ImplementsBlockCache ==
    Cache!Init /\ [][Cache!Next \/ lost']_(Cache!vars)

\* Claims that hold only with a restriction the code does not make.
OneOwnerAlways == \A m, n \in tree : m # n => dat[m] # dat[n]
=============================================================================
