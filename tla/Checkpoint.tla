----------------------------- MODULE Checkpoint -----------------------------
(***************************************************************************)
(* A checkpoint of the server (src/pipebomb/server.py: serialize,          *)
(* deserialize, apply_state), taken while the handlers of PostOffice run   *)
(* and restored once, into a new server or into the running one.           *)
(*                                                                         *)
(* serialize copies the address book, then goes through client_db: of each *)
(* session it takes the requests out of the inbox, and awaits the outbox   *)
(* lock to copy the outbox.  Only there can handlers run, so a stretch of  *)
(* sessions whose locks are free is one step.  The store, which it copies  *)
(* before all that, is DbStore's.                                          *)
(***************************************************************************)
EXTENDS PostOfficeProperties

CONSTANT Saver   \* serialize, in the line for an outbox lock

ASSUME SaverAssumption == Saver \notin Conns

VARIABLES saver,     \* how far serialize is
          at,        \* the session whose outbox lock it awaits
          size,      \* len(client_db) when it began to iterate
          snap,      \* what it has written
          waited,    \* history: it had to await a lock
          restored   \* the checkpoint has been restored

saveVars == <<saver, at, size, snap, waited, restored>>
ckptVars == <<vars, saveVars>>

(* The book is copied first; entries of sessions are written one by one.   *)
Blank == [sessions |-> {}, book |-> book, owned |-> owned, inbox |-> inbox, outbox |-> outbox]

CkptInit ==
    /\ Init
    /\ saver = "off"
    /\ at = Nobody
    /\ size = 0
    /\ snap = Blank
    /\ waited = FALSE
    /\ restored = FALSE

-----------------------------------------------------------------------------
(* serialize                                                               *)

(* Variant for mutation: the inboxes are copied and left as they are.      *)
DrainCopy(S) == inbox' = inbox

(* get_nowait until the queue is empty: the requests leave the server.     *)
Drain(S) == inbox' = [u \in Uuids |-> IF u \in S THEN <<>> ELSE inbox[u]]

(* The entries of the sessions S, as they are now.                         *)
Written(s, S) ==
    [s EXCEPT !.sessions = @ \cup S,
              !.owned = [u \in Uuids |-> IF u \in S THEN owned[u] ELSE @[u]],
              !.inbox = [u \in Uuids |-> IF u \in S THEN inbox[u] ELSE @[u]],
              !.outbox = [u \in Uuids |-> IF u \in S THEN outbox[u] ELSE @[u]]]

(* Onward from the entries s, with the outbox locks at q: to the end, or   *)
(* to a session v whose lock is taken.  Which sessions come before it is   *)
(* the order of logins, any order here.                                    *)
Sweep(s, q) ==
    LET rest == sessions \ s.sessions
    IN  \/ /\ \A u \in rest : q[u] = <<>>
           /\ snap' = Written(s, rest)
           /\ Drain(rest)
           /\ saver' = "saved"
           /\ at' = Nobody
           /\ lockq' = q
           /\ UNCHANGED waited
        \/ \E v \in rest, S \in SUBSET {u \in rest : q[u] = <<>>} :
             /\ q[v] # <<>>
             /\ snap' = Written(s, S \cup {v})
             /\ Drain(S \cup {v})
             /\ saver' = "waiting"
             /\ at' = v
             /\ lockq' = [q EXCEPT ![v] = Append(@, Saver)]
             /\ waited' = TRUE

quietVars == <<bookVars, deskVars, chanVars, outbox, from, to, got>>

Serialize ==
    /\ saver = "off"
    /\ ~restored
    /\ size' = Cardinality(sessions)
    /\ Sweep(Blank, lockq)
    /\ UNCHANGED <<quietVars, restored>>

(* Variant for mutation: the error leaves the lock behind.                 *)
SizeChangedLocked(s, q) ==
    /\ Cardinality(sessions) # size
    /\ saver' = "failed"
    /\ at' = Nobody
    /\ snap' = s
    /\ UNCHANGED <<lockq, inbox, waited>>

(* "dictionary changed size during iteration": serialize raises, and the   *)
(* requests it has taken out are nowhere.                                  *)
SizeChanged(s, q) ==
    /\ Cardinality(sessions) # size
    /\ saver' = "failed"
    /\ at' = Nobody
    /\ snap' = s
    /\ lockq' = q
    /\ UNCHANGED <<inbox, waited>>

(* The lock is serialize's: the outbox is copied, also if the session has  *)
(* ended meanwhile, and the lock is left before the next session.          *)
SaveLocked ==
    LET s == [snap EXCEPT !.outbox[at] = outbox[at]]
        q == [lockq EXCEPT ![at] = Tail(@)]
    IN  /\ saver = "waiting"
        /\ Head(lockq[at]) = Saver
        /\ \/ SizeChanged(s, q)
           \/ Cardinality(sessions) = size /\ Sweep(s, q)
        /\ UNCHANGED <<quietVars, size, restored>>

-----------------------------------------------------------------------------
(* deserialize, with the server's apply_state                              *)

(* Variant for mutation: the lists of addresses are left empty.            *)
OldTables ==
    /\ sessions' = snap.sessions
    /\ book' = snap.book
    /\ owned' = [u \in Uuids |-> NoAddress]
    /\ inbox' = [u \in Uuids |-> IF u \in snap.sessions THEN snap.inbox[u] ELSE <<>>]
    /\ outbox' = [u \in Uuids |-> IF u \in snap.sessions THEN snap.outbox[u] ELSE {}]

(* The tables as they were written.                                        *)
Tables ==
    /\ sessions' = snap.sessions
    /\ book' = snap.book
    /\ owned' = [u \in Uuids |-> IF u \in snap.sessions THEN snap.owned[u] ELSE NoAddress]
    /\ inbox' = [u \in Uuids |-> IF u \in snap.sessions THEN snap.inbox[u] ELSE <<>>]
    /\ outbox' = [u \in Uuids |-> IF u \in snap.sessions THEN snap.outbox[u] ELSE {}]

(* Restored sessions have new locks, no cipher and nonces of zero; those   *)
(* made after the restore begin with nonces of their own.                  *)
ApplyState ==
    /\ saver = "saved"
    /\ ~restored
    /\ restored' = TRUE
    /\ Tables
    /\ lockq' = [u \in Uuids |-> <<>>]
    /\ cipher' = [u \in Uuids |-> NoConn]
    /\ skew' = [u \in Uuids |-> IF u \in snap.sessions THEN {"tx", "rx"} ELSE {}]
    /\ UNCHANGED <<drawn, from, to, got, saver, at, size, snap, waited>>

(* The server dies, with every connection, and a new one starts from the   *)
(* checkpoint: all connections are new ones.  Clients keep what they have. *)
Restart ==
    /\ ApplyState
    /\ pc' = [c \in Conns |-> "free"]
    /\ who' = [c \in Conns |-> Nobody]
    /\ peer' = [c \in Conns |-> FALSE]
    /\ arg' = [c \in Conns |-> Nothing]

(* The running server is given the tables.  Handlers hold on to queues and *)
(* locks of the sessions that were: what they find there they cannot seal  *)
(* for their clients any more.                                             *)
Holds(c) == pc[c] \in {"accepting", "getting", "putwait", "getwait"}

RestoreLive ==
    /\ ApplyState
    /\ pc' = [c \in Conns |-> IF Holds(c) THEN "astray"
                              ELSE IF pc[c] = "sendlock" THEN "sending" ELSE pc[c]]
    /\ arg' = [c \in Conns |-> IF Holds(c) THEN Nothing ELSE arg[c]]
    /\ UNCHANGED <<who, peer>>

(* Such a handler goes on: to the look-up of a session that is gone or has *)
(* no cipher, which raises, or, if its client has logged in elsewhere, to  *)
(* a reply under a key its own connection does not have.                   *)
Unusable(u) == u \notin sessions \/ cipher[u] = NoConn

AstrayResumes(c) ==
    /\ pc[c] = "astray"
    /\ IF Unusable(who[c])
       THEN Crash(c)
       ELSE Goto(c, "sending") \/ Goto(c, "idle")
    /\ arg' = [arg EXCEPT ![c] = Nothing]
    /\ UNCHANGED <<bookVars, who, peer, mailVars, chanVars>>

(* A frame for a restored session that nobody has logged in to:            *)
(* verify_packet has no cipher to decrypt it with, and raises.             *)
NoCipher(c) ==
    /\ pc[c] = "idle"
    /\ who[c] \in sessions
    /\ cipher[who[c]] = NoConn
    /\ Crash(c)
    /\ UNCHANGED <<bookVars, who, peer, mailVars, chanVars>>

ServeSealed(c) ==
    /\ who[c] \in sessions => cipher[who[c]] # NoConn
    /\ Serve(c)

-----------------------------------------------------------------------------

Handle(c) ==
    /\ \/ Connect(c) \/ Disconnect(c) \/ Proceed(c) \/ ServeSealed(c)
       \/ BadFrame(c) \/ AstrayResumes(c) \/ NoCipher(c)
    /\ UNCHANGED saveVars

CkptNext ==
    \/ \E c \in Conns : Handle(c)
    \/ Serialize
    \/ SaveLocked
    \/ Restart
    \/ RestoreLive

CkptSpec == CkptInit /\ [][CkptNext]_ckptVars

-----------------------------------------------------------------------------

Positions(q, r) == {i \in 1 .. Len(q) : q[i] = r}

Saved(u) == ~restored /\ saver # "off" /\ u \in snap.sessions

(* Where the request r still can be handed over from, or has been.         *)
Requests(r) ==
    {<<"inbox", i>> : i \in Positions(inbox[to[r]], r)}
    \cup {<<"checkpoint", i>> : i \in {j \in Positions(snap.inbox[to[r]], r) : Saved(to[r])}}
    \cup {<<"reply", c>> : c \in {d \in Conns : Sending(d, r, "request")}}
    \cup {<<"answering", c>> : c \in Waiting(r)}
    \cup {<<"client", u>> : u \in {v \in Uuids : <<r, "request">> \in got[v]}}

Answered(r) ==
    \/ \E u \in Uuids : r \in outbox[u] \/ <<r, "answer">> \in got[u]
    \/ \E u \in Uuids : Saved(u) /\ r \in snap.outbox[u]
    \/ \E c \in Conns : Sending(c, r, "answer")

(* A request is handed out and answered at most once, across a checkpoint  *)
(* and the restart from it too: what is in the checkpoint is not in the    *)
(* running server any more (server.py:1074-1078), so a server that goes on *)
(* and one restored from it never both serve it.                           *)
ServedOnce ==
    \A r \in Issued : Cardinality(Requests(r)) + (IF Answered(r) THEN 1 ELSE 0) <= 1

(* After a restore, too, a session lists an address exactly when the book  *)
(* names it, unless serialize had to await a lock: it copies the book      *)
(* before (server.py:1042-1052) and the list of each session when its turn *)
(* comes (1062-1070), and what is registered in between is in one only.    *)
OwnershipRestored == Ownership \/ (restored /\ waited)

(* The line for a session's outbox lock holds, once each, the handlers     *)
(* that have it or await it, and serialize while it waits for that outbox; *)
(* neither an error in serialize nor a session that ends leaves it in line *)
(* (server.py:1054, 1095-1104).                                            *)
Waiters(u) == InLine(u) \cup (IF saver = "waiting" /\ at = u THEN {Saver} ELSE {})

SaverInLine ==
    \A u \in Uuids :
        /\ {lockq[u][i] : i \in 1 .. Len(lockq[u])} = Waiters(u)
        /\ Len(lockq[u]) = Cardinality(Waiters(u))

=============================================================================
