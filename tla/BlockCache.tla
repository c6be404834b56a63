----------------------------- MODULE BlockCache -----------------------------
(***************************************************************************)
(* What the block cache of a DNBD client promises                          *)
(* (src/contrib/dnbd/trunk/kernel/cache.c): a bounded store in which a     *)
(* look-up finds either nothing or the block that was put there, and in    *)
(* which the block put longest ago makes room for a new one.  A block that *)
(* is put again only becomes the most recent one.                          *)
(* Nothing is said of trees, lists, nodes or the cache file: that is what  *)
(* Dnbd1Cache adds, and it is shown to implement this module.              *)
(***************************************************************************)
EXTENDS Naturals, SequencesExt

CONSTANTS
    Sectors,   \* keys
    Data,      \* for each sector, what its block may contain
    MaxBlocks, \* capacity
    None       \* no block; what a look-up that finds nothing answers

VARIABLES
    lru,       \* sectors held, the one put last first
    held,      \* contents held for each sector
    answer     \* sector and contents of the last look-up

vars == <<lru, held, answer>>

Init ==
    /\ lru = <<>>
    /\ held = [x \in Sectors |-> None]
    /\ answer = <<None, None>>

\* A look-up may fail; it changes nothing.
Get(x) ==
    /\ answer' \in {<<x, held[x]>>, <<x, None>>}
    /\ UNCHANGED <<lru, held>>

Refresh(x) ==
    /\ \E k \in DOMAIN lru : lru[k] = x /\ lru' = <<x>> \o RemoveAt(lru, k)
    /\ UNCHANGED <<held, answer>>

Store(x, d) ==
    /\ held[x] = None
    /\ Len(lru) < MaxBlocks
    /\ lru' = <<x>> \o lru
    /\ held' = [held EXCEPT ![x] = d]
    /\ UNCHANGED answer

Replace(x, d) ==
    /\ held[x] = None
    /\ Len(lru) = MaxBlocks
    /\ lru' = <<x>> \o Front(lru)
    /\ held' = [held EXCEPT ![Last(lru)] = None, ![x] = d]
    /\ UNCHANGED answer

\* Room was made, but the new block could not be written.
Drop ==
    /\ Len(lru) = MaxBlocks
    /\ lru' = Front(lru)
    /\ held' = [held EXCEPT ![Last(lru)] = None]
    /\ UNCHANGED answer

Clear ==
    /\ lru' = <<>>
    /\ held' = [x \in Sectors |-> None]
    /\ UNCHANGED answer

Next ==
    \/ Drop \/ Clear
    \/ \E x \in Sectors :
          \/ Get(x) \/ Refresh(x)
          \/ \E d \in Data[x] : Store(x, d) \/ Replace(x, d)

Spec == Init /\ [][Next]_vars
=============================================================================
