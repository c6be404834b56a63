---------------------------- MODULE ReadService ----------------------------
(***************************************************************************)
(* What a DNBD client promises to the block layer                          *)
(* (src/contrib/dnbd/trunk/kernel, main.c and queue.c): a read that was    *)
(* accepted is filled block after block, in order and with its own blocks; *)
(* it succeeds when it is full, once, and fails, once, only while not both *)
(* of the threads that serve it run.  A read is refused only while the     *)
(* device does not run.                                                    *)
(* Nothing is said of queues, of the cache, the timer or the network: that *)
(* is what Dnbd1Requests adds, and it is shown to implement this module.   *)
(***************************************************************************)
EXTENDS Naturals, Sequences

CONSTANTS
    Reqs,  \* request structures of the block layer
    Asks   \* sequences of blocks that are read with one request

VARIABLES
    running,           \* new reads are accepted
    threads,           \* how many of sender and receiver run
    asked, got, result \* per request: blocks, contents copied, outcome

vars == <<running, threads, asked, got, result>>
reads == <<asked, got, result>>

Waiting == {r \in Reqs : result[r] = "waiting"}

Init ==
    /\ running = FALSE /\ threads = 0
    /\ asked = [r \in Reqs |-> <<>>] /\ got = [r \in Reqs |-> <<>>]
    /\ result = [r \in Reqs |-> "idle"]

Accept(r, a) ==
    /\ running /\ r \notin Waiting
    /\ asked' = [asked EXCEPT ![r] = a]
    /\ got' = [got EXCEPT ![r] = <<>>]
    /\ result' = [result EXCEPT ![r] = "waiting"]
    /\ UNCHANGED <<running, threads>>

Refuse(r) ==
    /\ ~running /\ r \notin Waiting
    /\ result' = [result EXCEPT ![r] = "failed"]
    /\ UNCHANGED <<running, threads, asked, got>>

\* The next block; the last one completes the read.
Fill(r) ==
    /\ r \in Waiting /\ threads > 0
    /\ got' = [got EXCEPT ![r] = Append(@, asked[r][Len(@) + 1])]
    /\ result' = [result EXCEPT ![r] =
                    IF Len(got'[r]) = Len(asked[r]) THEN "ok" ELSE "waiting"]
    /\ UNCHANGED <<running, threads, asked>>

Fail(rs) ==
    /\ threads < 2
    /\ result' = [r \in Reqs |-> IF r \in rs THEN "failed" ELSE result[r]]
    /\ UNCHANGED <<running, threads, asked, got>>

\* With the second thread the device runs.
ThreadStarts ==
    /\ threads < 2 /\ threads' = threads + 1
    /\ running' = (running \/ threads' = 2)
    /\ UNCHANGED reads

ThreadEnds ==
    /\ threads > 0 /\ threads' = threads - 1
    /\ UNCHANGED <<running, reads>>

\* It stops accepting reads when its threads have ended, not before.
StateOff ==
    /\ threads = 0
    /\ running' = FALSE
    /\ UNCHANGED <<threads, reads>>

Next ==
    \/ \E r \in Reqs : Refuse(r) \/ Fill(r) \/ \E a \in Asks : Accept(r, a)
    \/ \E rs \in SUBSET Waiting : Fail(rs)
    \/ ThreadStarts \/ ThreadEnds \/ StateOff

Spec == Init /\ [][Next]_vars
=============================================================================
