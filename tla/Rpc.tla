-------------------------------- MODULE Rpc --------------------------------
(***************************************************************************)
(* What the post office promises about a request, from the client that     *)
(* posts it to the client that posted it: it is handed to its target at    *)
(* most once, in the order of posting among those of one target, answered  *)
(* at most once, and its answer returned at most once.  It may be lost on  *)
(* the way, with a connection or a session, but is never repeated.         *)
(***************************************************************************)
EXTENDS Naturals

CONSTANTS Uuids, Nobody, MaxReq

Rid == 1 .. MaxReq

VARIABLES stage, from, to

rpcVars == <<stage, from, to>>

RpcInit ==
    /\ stage = [r \in Rid |-> "unsent"]
    /\ from = [r \in Rid |-> Nobody]
    /\ to = [r \in Rid |-> Nobody]

Move(r, s, t) == stage[r] = s /\ stage' = [stage EXCEPT ![r] = t]

Post(r) ==
    /\ Move(r, "unsent", "queued")
    /\ \A q \in Rid : q < r => stage[q] # "unsent"
    /\ \E a, b \in Uuids :
         from' = [from EXCEPT ![r] = a] /\ to' = [to EXCEPT ![r] = b]

(* The target's inbox is a queue.                                          *)
TakeOut(r) ==
    /\ Move(r, "queued", "moving")
    /\ \A q \in Rid : stage[q] = "queued" /\ to[q] = to[r] => q >= r
    /\ UNCHANGED <<from, to>>

Advance(r) ==
    /\ \/ Move(r, "moving", "held")
       \/ Move(r, "held", "answered")
       \/ Move(r, "answered", "returning")
       \/ Move(r, "returning", "done")
    /\ UNCHANGED <<from, to>>

(* A session can end with any number of requests in it.                    *)
Lose(rs) ==
    /\ \A r \in rs : stage[r] \notin {"unsent", "done"}
    /\ stage' = [r \in Rid |-> IF r \in rs THEN "lost" ELSE stage[r]]
    /\ UNCHANGED <<from, to>>

RpcNext ==
    \/ \E r \in Rid : Post(r) \/ TakeOut(r) \/ Advance(r)
    \/ \E rs \in SUBSET Rid : Lose(rs)

RpcSpec == RpcInit /\ [][RpcNext]_rpcVars

=============================================================================
