---------------------------- MODULE RequestQueue ----------------------------
(***************************************************************************)
(* What the ring of a DNBD server promises                                 *)
(* (src/contrib/dnbd/trunk/server/query.c): a bounded queue between one    *)
(* receiver and some handlers.  Each query is handled once, in the order   *)
(* of arrival, and stays as it arrived until its handler is done with it.  *)
(* Nothing is said of slots and indices: that is what Dnbd1Server adds,    *)
(* and it is shown to implement this module.                               *)
(***************************************************************************)
EXTENDS Naturals, Sequences

CONSTANTS
    Queries,   \* what clients send
    Handlers,
    Capacity,  \* queries that may wait
    None       \* a handler without a query

VARIABLES
    waiting,   \* queries that have arrived, the oldest first
    hand       \* for each handler, the query it is at work on

vars == <<waiting, hand>>

Init == waiting = <<>> /\ hand = [h \in Handlers |-> None]

Arrive(x) ==
    /\ Len(waiting) < Capacity
    /\ waiting' = Append(waiting, x)
    /\ UNCHANGED hand

Take(h) ==
    /\ hand[h] = None /\ waiting # <<>>
    /\ hand' = [hand EXCEPT ![h] = Head(waiting)]
    /\ waiting' = Tail(waiting)

Done(h) ==
    /\ hand[h] # None
    /\ hand' = [hand EXCEPT ![h] = None]
    /\ UNCHANGED waiting

Next ==
    \/ \E x \in Queries : Arrive(x)
    \/ \E h \in Handlers : Take(h) \/ Done(h)

Spec == Init /\ [][Next]_vars
=============================================================================
