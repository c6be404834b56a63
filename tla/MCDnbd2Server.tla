--------------------------- MODULE MCDnbd2Server ----------------------------
(***************************************************************************)
(* Instances of Dnbd2Server for TLC.                                       *)
(***************************************************************************)
EXTENDS Dnbd2Server

CONSTANTS a1, a2, d1, d2, f1, f2

\* f1 ends in the middle of its second block, f2 in the middle of its first.
MCSize == f1 :> 3 @@ f2 :> 1

\* Two addresses, one and two datasets, a dataset that is listed twice, an
\* image that changes place, and a file that cannot be read.
MCConfigs == {[addr |-> a1, lines |-> <<<<d1, f1>>, <<d2, f2>>>>],
              [addr |-> a1, lines |-> <<<<d1, f2>>, <<d1, f1>>>>],
              [addr |-> a2, lines |-> <<<<d2, f1>>>>],
              None}

\* For liveness: one dataset.
MCSizeOne == f1 :> 1
MCConfigsOne == {[addr |-> a1, lines |-> <<<<d1, f1>>>>], None}

\* The buffers, of which those of the last query are dead between two queries,
\* and what that one has left in the payload.
Buffers == <<IF pc \in {"handle", "send"} THEN request ELSE None,
             IF pc = "send" THEN replyVars ELSE None>>
View == <<config, open, confVars, tmpVars, sigVars, inbox, Buffers,
          reply.payload, pc>>

\* No step depends on the history variable, and no invariant of Dnbd2Server.cfg
\* on what is left in the payload: two states stand for all, with the second
\* part in use and not.
ViewNow == <<config, open, confVars, tmpVars, sigExit, sigConfig, inbox, Buffers,
             reply.payload[2] = None, pc>>
=============================================================================
