---------------------------- MODULE BlockDevice ----------------------------
(***************************************************************************)
(* What a DNBD2 device promises to the block layer and to the processes    *)
(* that read it (src/contrib/dnbd2/trunk/kernel): a request handed to the  *)
(* driver is answered at most once, a read is answered with the contents   *)
(* of the sector it asked for, and a request fails only when it is not a   *)
(* read or the device is not running.                                      *)
(* Nothing is said of queues, servers, threads or packets: that is what    *)
(* Dnbd2Requests adds, and it is shown to implement this module.           *)
(***************************************************************************)
CONSTANTS
    Reqs,     \* request structures of the block layer
    Sectors,  \* sectors of the image
    None      \* "no sector": a request that is not a filesystem read

VARIABLES
    running,  \* the device has been started (dev->running)
    sector,   \* sector each request asks for
    result,   \* "idle", "waiting", "ok" or "failed"
    data      \* sector whose contents are in the request's buffer

vars == <<running, sector, result, data>>

Waiting == {r \in Reqs : result[r] = "waiting"}

Init ==
    /\ running = FALSE
    /\ sector = [r \in Reqs |-> None]
    /\ result = [r \in Reqs |-> "idle"]
    /\ data = [r \in Reqs |-> None]

\* The device is started or stopped; never under an unanswered request.
Toggle ==
    /\ Waiting = {}
    /\ running' = ~running
    /\ UNCHANGED <<sector, result, data>>

Submit(r, x) ==
    /\ result[r] # "waiting"
    /\ sector' = [sector EXCEPT ![r] = x]
    /\ result' = [result EXCEPT ![r] = "waiting"]
    /\ data' = [data EXCEPT ![r] = None]
    /\ UNCHANGED running

Serve(r) ==
    /\ result[r] = "waiting"
    /\ running
    /\ sector[r] # None
    /\ result' = [result EXCEPT ![r] = "ok"]
    /\ data' = [data EXCEPT ![r] = sector[r]]
    /\ UNCHANGED <<running, sector>>

Fail(r) ==
    /\ result[r] = "waiting"
    /\ ~running \/ sector[r] = None
    /\ result' = [result EXCEPT ![r] = "failed"]
    /\ UNCHANGED <<running, sector, data>>

Next ==
    \/ Toggle
    \/ \E r \in Reqs :
          \/ \E x \in Sectors \cup {None} : Submit(r, x)
          \/ Serve(r)
          \/ Fail(r)

Spec == Init /\ [][Next]_vars
=============================================================================
