------------------------ MODULE PostOfficeProperties ------------------------
(* What the handlers of PostOffice must keep true between them.            *)
EXTENDS PostOffice, FiniteSets

Sending(c, r, what) == pc[c] \in {"sending", "sendlock"} /\ arg[c] = <<r, what>>

Waiting(r) == {c \in Conns : pc[c] = "putwait" /\ arg[c] = <<r, "answer">>}

Queued(r) == r \in Issued /\ \E i \in 1 .. Len(inbox[to[r]]) : inbox[to[r]][i] = r

-----------------------------------------------------------------------------

Addressee(x) == IF x[2] = "request" THEN to[x[1]] ELSE from[x[1]]

(* A request is handed only to the uuid it was posted to, its operation id *)
(* and its answer only to the uuid that posted it, whichever handlers      *)
(* carry them and whatever sessions end or are taken over on the way       *)
(* (server.py:747-753, 763-784, 799-801, 829-838).                         *)
Routing ==
    /\ \A c \in Conns :
         pc[c] \in {"sending", "sendlock", "refusing"} /\ arg[c] # Nothing =>
             who[c] = Addressee(arg[c])
    /\ \A u \in Uuids :
         /\ \A x \in got[u] : u = Addressee(x)
         /\ \A r \in outbox[u] : u = from[r]

(* A request or its answer is in one place at a time: two handlers of one  *)
(* session reading its inbox, or one that waited for the outbox lock and   *)
(* one that did not, never both have it (server.py:763, 829).              *)
Spots(r) ==
    {<<"inbox", i>> : i \in {j \in 1 .. Len(inbox[to[r]]) : inbox[to[r]][j] = r}}
    \cup {<<"reply", c>> : c \in {d \in Conns : Sending(d, r, "request") \/ Sending(d, r, "answer")}}
    \cup {<<"waiting", c>> : c \in Waiting(r)}
    \cup {<<"outbox", u>> : u \in {v \in Uuids : r \in outbox[v]}}
    \cup {<<"client", u>> : u \in {v \in Uuids : <<r, "request">> \in got[v]}}
    \cup {<<"done", u>> : u \in {v \in Uuids : <<r, "answer">> \in got[v]}}

OnePlace == \A r \in Issued : Cardinality(Spots(r)) <= 1

(* Who is in line for a session's outbox lock: its holder is a handler of  *)
(* that session sending from the outbox, everyone else in line waits, and  *)
(* a handler that has died or gone on is in no line (server.py:800, 816).  *)
InLine(u) ==
    {c \in Conns :
        \/ pc[c] \in {"getwait", "sendlock"} /\ who[c] = u
        \/ pc[c] = "putwait" /\ from[arg[c][1]] = u}

Line(u) ==
    /\ \A i \in 1 .. Len(lockq[u]) : lockq[u][i] \in InLine(u)
    /\ \A c \in InLine(u) : \E i \in 1 .. Len(lockq[u]) : lockq[u][i] = c
    /\ \A i, j \in 1 .. Len(lockq[u]) : lockq[u][i] = lockq[u][j] => i = j
    /\ \A i \in 2 .. Len(lockq[u]) : pc[lockq[u][i]] # "sendlock"

LockDiscipline == \A u \in Uuids : Line(u)

-----------------------------------------------------------------------------

StageOf(r) ==
    IF to[r] = Nobody THEN "unsent"
    ELSE CASE <<r, "answer">> \in got[from[r]] -> "done"
           [] \E c \in Conns : Sending(c, r, "answer") -> "returning"
           [] from[r] \in sessions /\ r \in outbox[from[r]] -> "answered"
           [] <<r, "request">> \in got[to[r]] \/ Waiting(r) # {} -> "held"
           [] \E c \in Conns : Sending(c, r, "request") -> "moving"
           [] to[r] \in sessions /\ Queued(r) -> "queued"
           [] OTHER -> "lost"

Abstract == INSTANCE Rpc WITH stage <- [r \in Rid |-> StageOf(r)]

(* The handlers together implement the at-most-once, in-order request of   *)
(* module Rpc.                                                             *)
AtMostOnce == Abstract!RpcSpec

-----------------------------------------------------------------------------

(* Nobody waits for an outbox lock for ever: GET_OUTBOX sends with the     *)
(* lock held (server.py:816-844), to a client that may be gone.            *)
LockServed ==
    \A c \in Conns : pc[c] \in {"putwait", "getwait"} ~> pc[c] \notin {"putwait", "getwait"}

(* The first request of an inbox does not stay while a handler is blocked  *)
(* on that inbox (server.py:763), even when a second handler of the        *)
(* session competes for it.                                                *)
First(r, c) == inbox[who[c]] # <<>> /\ Head(inbox[who[c]]) = r

InboxServed ==
    \A c \in Conns, r \in Rid : (pc[c] = "getting" /\ First(r, c)) ~> ~Queued(r)

(* A request is lost only by what happened to its own two sessions: one of *)
(* them has ended, lost a connection, or was taken over by another login.  *)
(* Handlers that die of a request (server.py:532, 556, 736, 747, 788, 799),*)
(* locks that other sessions hold and their comings and goings lose none   *)
(* (server.py:763-844).                                                    *)
Disturbed(u) ==
    \/ u \notin sessions
    \/ \E c \in Conns : who[c] = u /\ ~peer[c]
    \/ \E c, d \in Conns : c # d /\ who[c] = u /\ who[d] = u

LossHasCause ==
    \A r \in Issued : StageOf(r) = "lost" => Disturbed(from[r]) \/ Disturbed(to[r])

=============================================================================
