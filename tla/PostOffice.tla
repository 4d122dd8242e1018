----------------------------- MODULE PostOffice -----------------------------
(***************************************************************************)
(* The Pipebomb server at work (src/pipebomb/server.py): accept_clients    *)
(* and one handle_client coroutine per connection, all on one event loop.  *)
(* An action is what a handler does between two awaits: other handlers run *)
(* while it waits for a frame, a request, an outbox lock or a send.        *)
(*                                                                         *)
(* A session outlives its connections: a client that lost one logs in with *)
(* its uuid on another, perhaps before the old handler is gone.  The two   *)
(* then share one cipher and one pair of nonces (client_db[uuid]), of      *)
(* which only this is kept: whose key the session holds, and which nonces  *)
(* a handler other than that connection's has moved.                       *)
(***************************************************************************)
EXTENDS AddressBook, Sequences

CONSTANTS Conns,     \* connections, each used once
          NoConn,
          MaxReq,    \* bound: requests put in inboxes
          KeepDead   \* Server(keep_dead_sessions=...)

ASSUME PostOfficeAssumption ==
    /\ NoConn \notin Conns
    /\ MaxReq \in Nat
    /\ KeepDead \in BOOLEAN

VARIABLES
    pc,      \* where the handler of a connection is
    who,     \* the uuid it serves
    peer,    \* the client holds its end of the connection open
    arg,     \* what a reply under way, or an answer waiting for a lock, carries
    inbox,   \* client_db[u].inbox, requests by their operation id
    outbox,  \* client_db[u].outbox, answers by the id of their request
    lockq,   \* client_db[u].outbox_lock: its holder, then those who wait
    cipher,  \* the connection whose key client_db[u].cipher is
    skew,    \* the nonces of client_db[u] that another handler has moved
    from,    \* the requester of each request; Nobody: not issued yet
    to,      \* its target
    got      \* what each client has received and can still act on

deskVars == <<pc, who, peer, arg>>
mailVars == <<inbox, outbox, lockq, from, to, got>>
chanVars == <<cipher, skew>>
vars == <<bookVars, deskVars, mailVars, chanVars>>

Rid == 1 .. MaxReq

(* A reply carries the operation id of a request just posted, a request    *)
(* for its target, the answer for its requester, or none of these.         *)
Items == Rid \X {"ticket", "request", "answer"}
Nothing == <<0, "nothing">>

Places == {"free", "accepting", "idle", "getting", "putwait", "getwait",
           "sending", "sendlock", "refusing", "crashed", "ended"}

PostTypeOK ==
    /\ BookTypeOK
    /\ pc \in [Conns -> Places]
    /\ who \in [Conns -> Uuids \cup {Nobody}]
    /\ peer \in [Conns -> BOOLEAN]
    /\ arg \in [Conns -> Items \cup {Nothing}]
    /\ inbox \in [Uuids -> Seq(Rid)]
    /\ outbox \in [Uuids -> SUBSET Rid]
    /\ lockq \in [Uuids -> Seq(Conns)]
    /\ cipher \in [Uuids -> Conns \cup {NoConn}]
    /\ skew \in [Uuids -> SUBSET {"tx", "rx"}]
    /\ from \in [Rid -> Uuids \cup {Nobody}]
    /\ to \in [Rid -> Uuids \cup {Nobody}]
    /\ got \in [Uuids -> SUBSET Items]

Init ==
    /\ BookInit
    /\ pc = [c \in Conns |-> "free"]
    /\ who = [c \in Conns |-> Nobody]
    /\ peer = [c \in Conns |-> FALSE]
    /\ arg = [c \in Conns |-> Nothing]
    /\ inbox = [u \in Uuids |-> <<>>]
    /\ outbox = [u \in Uuids |-> {}]
    /\ lockq = [u \in Uuids |-> <<>>]
    /\ cipher = [u \in Uuids |-> NoConn]
    /\ skew = [u \in Uuids |-> {}]
    /\ from = [r \in Rid |-> Nobody]
    /\ to = [r \in Rid |-> Nobody]
    /\ got = [u \in Uuids |-> {}]

-----------------------------------------------------------------------------

Goto(c, place) == pc' = [pc EXCEPT ![c] = place]

(* construct_packet under the session's key and next nonce: unless the     *)
(* client of c holds that key and awaits that nonce, the reply is lost on  *)
(* it, and whatever it carried with it.                                    *)
Readable(c) == cipher[who[c]] = c /\ "tx" \notin skew[who[c]]

Reply(c, item, place) ==
    /\ Goto(c, place)
    /\ arg' = [arg EXCEPT ![c] = IF Readable(c) THEN item ELSE Nothing]

(* An exception ends the handler; nothing of the cleanup runs.             *)
Crash(c) ==
    /\ Goto(c, "crashed")
    /\ arg' = [arg EXCEPT ![c] = Nothing]

(* client_db[uuid].tx_nonce += 1, or the rx_nonce.                         *)
Count(c, nonce) ==
    skew' = [skew EXCEPT ![who[c]] = IF cipher[who[c]] = c THEN @ ELSE @ \cup {nonce}]

(* A frame has come in and its packet verifies under the session's cipher  *)
(* and rx_nonce.  The client may have closed the connection since.         *)
Packet(c) ==
    /\ pc[c] = "idle"
    /\ who[c] \in sessions
    /\ cipher[who[c]] = c
    /\ "rx" \notin skew[who[c]]

-----------------------------------------------------------------------------
(* accept_clients                                                          *)

Seat(c, u) ==
    /\ pc[c] = "free"
    /\ who' = [who EXCEPT ![c] = u]
    /\ peer' = [peer EXCEPT ![c] = TRUE]
    /\ cipher' = [cipher EXCEPT ![u] = c]
    /\ UNCHANGED <<arg, mailVars>>

(* LOGIN: the session is entered, and then the ACK is sent.                *)
AcceptLogin(c, u) ==
    /\ Seat(c, u)
    /\ NewSession(u)
    /\ Goto(c, "accepting")
    /\ UNCHANGED skew

(* RELOGIN with a uuid the server does not know, a session's that is gone  *)
(* or another server's: the error is sent first, and then the client gets  *)
(* a new session under a new uuid.                                         *)
AcceptStale(c, u) ==
    /\ Seat(c, u)
    /\ NewSession(u)
    /\ Goto(c, "idle")
    /\ UNCHANGED skew

(* RELOGIN with a uuid of a session: its cipher is replaced at once, its   *)
(* nonces only after the ACK has been sent.  If another login to the       *)
(* session came in between, they are then overwritten under its key.       *)
AcceptRelogin(c, u) ==
    /\ Seat(c, u)
    /\ u \in sessions
    /\ Goto(c, "accepting")
    /\ skew' = [skew EXCEPT ![u] = {"tx", "rx"}]
    /\ UNCHANGED bookVars

StartHandler(c) ==
    /\ pc[c] = "accepting"
    /\ Goto(c, "idle")
    /\ \E moved \in IF cipher[who[c]] = c THEN {{}} ELSE SUBSET {"tx", "rx"} :
           skew' = [skew EXCEPT ![who[c]] = moved]
    /\ UNCHANGED <<bookVars, who, peer, arg, mailVars, cipher>>

(* The client goes away, and sending to it or reading from it fails.       *)
Disconnect(c) ==
    /\ peer[c]
    /\ peer' = [peer EXCEPT ![c] = FALSE]
    /\ UNCHANGED <<bookVars, pc, who, arg, mailVars, chanVars>>

(* Variant for mutation: the lock is left only after a successful send.    *)
ReleaseIfSent(c) ==
    lockq' = IF pc[c] = "sendlock" /\ peer[c]
             THEN [lockq EXCEPT ![who[c]] = Tail(@)] ELSE lockq

Release(c) ==
    lockq' = IF pc[c] = "sendlock" THEN [lockq EXCEPT ![who[c]] = Tail(@)] ELSE lockq

SendFail(c) ==
    /\ pc[c] \in {"accepting", "sending", "sendlock", "refusing"}
    /\ ~peer[c]
    /\ Crash(c)
    /\ Release(c)
    /\ UNCHANGED <<bookVars, who, peer, inbox, outbox, from, to, got, chanVars>>

-----------------------------------------------------------------------------
(* handle_client: the ends of a handler                                    *)

(* recv returns b"" at the end of the stream, and the packet is None:      *)
(* verify_packet raises.  So it does after a frame with a foreign header,  *)
(* for which the handler closes the connection first.                      *)
EndOfStream(c) ==
    /\ pc[c] = "idle"
    /\ ~peer[c]
    /\ Crash(c)
    /\ UNCHANGED <<bookVars, who, peer, mailVars, chanVars>>

BadFrame(c) ==
    /\ pc[c] = "idle"
    /\ peer[c]
    /\ peer' = [peer EXCEPT ![c] = FALSE]
    /\ Crash(c)
    /\ UNCHANGED <<bookVars, who, mailVars, chanVars>>

(* A frame for a session that is gone from client_db: a KeyError.          *)
Orphan(c) ==
    /\ pc[c] = "idle"
    /\ who[c] \notin sessions
    /\ Crash(c)
    /\ UNCHANGED <<bookVars, who, peer, mailVars, chanVars>>

(* A packet that does not verify.  Every packet from a client whose key is *)
(* no longer the session's is one; others can be, at any time: RawClient   *)
(* reuses a nonce when two of its callers send at once.                    *)
BadPacket(c) ==
    /\ pc[c] = "idle"
    /\ who[c] \in sessions
    /\ Reply(c, Nothing, "refusing")
    /\ Count(c, "rx")
    /\ UNCHANGED <<bookVars, who, peer, mailVars, cipher>>

(* The cleanup at the end, after BYE and when a packet was refused.        *)
Cleanup(c) ==
    IF KeepDead
    THEN UNCHANGED <<bookVars, peer>>
    ELSE TearDown(who[c]) /\ peer' = [peer EXCEPT ![c] = FALSE]

Refused(c) ==
    /\ pc[c] = "refusing"
    /\ who[c] \in sessions
    /\ IF KeepDead THEN UNCHANGED bookVars ELSE TearDown(who[c])
    /\ peer' = [peer EXCEPT ![c] = FALSE]
    /\ Goto(c, "ended")
    /\ Count(c, "tx")
    /\ UNCHANGED <<who, arg, mailVars, cipher>>

(* BYE leaves the loop for the cleanup.                                    *)
Bye(c) ==
    /\ Packet(c)
    /\ Cleanup(c)
    /\ Goto(c, "ended")
    /\ UNCHANGED <<who, arg, mailVars, chanVars>>

(* A send is over: the handler counts it, which raises if the session has  *)
(* gone meanwhile, and leaves the lock of a GET_OUTBOX either way.         *)
SendDone(c) ==
    /\ pc[c] \in {"sending", "sendlock"}
    /\ who[c] \in sessions
    /\ got' = IF peer[c] /\ arg[c] # Nothing
              THEN [got EXCEPT ![who[c]] = @ \cup {arg[c]}] ELSE got
    /\ Count(c, "tx")
    /\ Goto(c, "idle")
    /\ arg' = [arg EXCEPT ![c] = Nothing]
    /\ Release(c)
    /\ UNCHANGED <<bookVars, who, peer, inbox, outbox, from, to, cipher>>

SendOrphan(c) ==
    /\ pc[c] \in {"sending", "sendlock", "refusing"}
    /\ who[c] \notin sessions
    /\ got' = IF peer[c] /\ arg[c] # Nothing
              THEN [got EXCEPT ![who[c]] = @ \cup {arg[c]}] ELSE got
    /\ Crash(c)
    /\ Release(c)
    /\ UNCHANGED <<bookVars, who, peer, inbox, outbox, from, to, chanVars>>
-----------------------------------------------------------------------------
(* handle_client: the requests.  Those that concern neither the tables nor *)
(* the mail (WHOAMI, WHOHAS, those of the store, refusals with an error    *)
(* code, unknown ones) only send a reply.                                  *)

Query(c) ==
    /\ Packet(c)
    /\ Reply(c, Nothing, "sending")
    /\ UNCHANGED <<bookVars, who, peer, mailVars, chanVars>>

(* A request that raises in its handler, whatever its session: a payload   *)
(* too short for its fields, or GET of an empty value, of which there is   *)
(* no packet to construct.                                                 *)
Malformed(c) ==
    /\ Packet(c)
    /\ Crash(c)
    /\ UNCHANGED <<bookVars, who, peer, mailVars, chanVars>>

Register(c, k) ==
    /\ Packet(c)
    /\ RegisterKey(who[c], k)
    /\ Reply(c, Nothing, "sending")
    /\ UNCHANGED <<who, peer, mailVars, chanVars>>

Unregister(c, k) ==
    /\ Packet(c)
    /\ UnregisterKey(who[c], k)
    /\ Reply(c, Nothing, "sending")
    /\ UNCHANGED <<who, peer, mailVars, chanVars>>

(* PUT_INBOX to any uuid the client has learned: the request goes to the   *)
(* end of the target's inbox and its operation id to the requester.        *)
Issued == {r \in Rid : to[r] # Nobody}

(* Variant for mutation: the request jumps the queue.                      *)
PutInboxFirst(c, r, target) ==
    /\ Packet(c)
    /\ r \notin Issued
    /\ \A q \in Rid : q < r => q \in Issued
    /\ target \in sessions
    /\ inbox' = [inbox EXCEPT ![target] = <<r>> \o @]
    /\ from' = [from EXCEPT ![r] = who[c]]
    /\ to' = [to EXCEPT ![r] = target]
    /\ Reply(c, <<r, "ticket">>, "sending")
    /\ UNCHANGED <<bookVars, who, peer, outbox, lockq, got, chanVars>>

PutInbox(c, r, target) ==
    /\ Packet(c)
    /\ r \notin Issued
    /\ \A q \in Rid : q < r => q \in Issued
    /\ target \in sessions
    /\ inbox' = [inbox EXCEPT ![target] = Append(@, r)]
    /\ from' = [from EXCEPT ![r] = who[c]]
    /\ to' = [to EXCEPT ![r] = target]
    /\ Reply(c, <<r, "ticket">>, "sending")
    /\ UNCHANGED <<bookVars, who, peer, outbox, lockq, got, chanVars>>

(* The target's session is gone or never was: client_db[target] raises.    *)
PutInboxGone(c, target) ==
    /\ Packet(c)
    /\ target \in Uuids \ sessions
    /\ Crash(c)
    /\ UNCHANGED <<bookVars, who, peer, mailVars, chanVars>>

(* GET_INBOX: the handler waits until its inbox has a request.  One that   *)
(* has waited takes it even if its session is gone by then, and raises.    *)
TakeHead(c) ==
    /\ inbox[who[c]] # <<>>
    /\ inbox' = [inbox EXCEPT ![who[c]] = Tail(@)]
    /\ UNCHANGED <<bookVars, who, peer, outbox, lockq, from, to, got, chanVars>>

HeadRequest(c) == <<Head(inbox[who[c]]), "request">>

GetInbox(c) ==
    /\ Packet(c)
    /\ TakeHead(c)
    /\ Reply(c, HeadRequest(c), "sending")

GetInboxWait(c) ==
    /\ Packet(c)
    /\ inbox[who[c]] = <<>>
    /\ Goto(c, "getting")
    /\ UNCHANGED <<bookVars, who, peer, arg, mailVars, chanVars>>

(* Variant for mutation: a handler whose client has left takes nothing.    *)
TakeIfOpen(c) ==
    /\ pc[c] = "getting"
    /\ peer[c]
    /\ TakeHead(c)
    /\ IF who[c] \in sessions THEN Reply(c, HeadRequest(c), "sending") ELSE Crash(c)

Take(c) ==
    /\ pc[c] = "getting"
    /\ TakeHead(c)
    /\ IF who[c] \in sessions THEN Reply(c, HeadRequest(c), "sending") ELSE Crash(c)

(* PUT_OUTBOX: a client answers each request it got once.  The handler     *)
(* needs the requester's outbox lock, for as long as it takes to write.    *)
Answers(c, r) ==
    /\ Packet(c)
    /\ <<r, "request">> \in got[who[c]]
    /\ got' = [got EXCEPT ![who[c]] = @ \ {<<r, "request">>}]

(* Variant for mutation: the answer goes to the outbox of who answers.     *)
PutOutboxAtHome(c, r) ==
    /\ Answers(c, r)
    /\ from[r] \in sessions
    /\ lockq[from[r]] = <<>>
    /\ outbox' = [outbox EXCEPT ![who[c]] = @ \cup {r}]
    /\ Reply(c, Nothing, "sending")
    /\ UNCHANGED <<bookVars, who, peer, inbox, lockq, from, to, chanVars>>

PutOutbox(c, r) ==
    /\ Answers(c, r)
    /\ from[r] \in sessions
    /\ lockq[from[r]] = <<>>
    /\ outbox' = [outbox EXCEPT ![from[r]] = @ \cup {r}]
    /\ Reply(c, Nothing, "sending")
    /\ UNCHANGED <<bookVars, who, peer, inbox, lockq, from, to, chanVars>>

(* Variant for mutation: an answer that finds the outbox locked is not     *)
(* written.                                                                *)
PutOutboxBusy(c, r) ==
    /\ Answers(c, r)
    /\ from[r] \in sessions
    /\ lockq[from[r]] # <<>>
    /\ Reply(c, Nothing, "sending")
    /\ UNCHANGED <<bookVars, who, peer, inbox, outbox, lockq, from, to, chanVars>>

PutOutboxWait(c, r) ==
    /\ Answers(c, r)
    /\ from[r] \in sessions
    /\ lockq[from[r]] # <<>>
    /\ lockq' = [lockq EXCEPT ![from[r]] = Append(@, c)]
    /\ Goto(c, "putwait")
    /\ arg' = [arg EXCEPT ![c] = <<r, "answer">>]
    /\ UNCHANGED <<bookVars, who, peer, inbox, outbox, from, to, chanVars>>

PutOutboxGone(c, r) ==
    /\ Answers(c, r)
    /\ from[r] \notin sessions
    /\ Crash(c)
    /\ UNCHANGED <<bookVars, who, peer, inbox, outbox, lockq, from, to, chanVars>>

PutOutboxLocked(c) ==
    LET r == arg[c][1]
    IN  /\ pc[c] = "putwait"
        /\ Head(lockq[from[r]]) = c
        /\ outbox' = [outbox EXCEPT ![from[r]] = @ \cup {r}]
        /\ lockq' = [lockq EXCEPT ![from[r]] = Tail(@)]
        /\ IF who[c] \in sessions THEN Reply(c, Nothing, "sending") ELSE Crash(c)
        /\ UNCHANGED <<bookVars, who, peer, inbox, from, to, got, chanVars>>

(* Variant for mutation: the answer is read but not removed.               *)
FetchLeaves(c, r) ==
    /\ UNCHANGED outbox
    /\ Reply(c, IF r \in outbox[who[c]] THEN <<r, "answer">> ELSE Nothing, "sendlock")

(* GET_OUTBOX for an operation id the client got: the answer, or an error  *)
(* if there is none (yet), is sent with the lock held.                     *)
Fetch(c, r) ==
    /\ outbox' = [outbox EXCEPT ![who[c]] = @ \ {r}]
    /\ Reply(c, IF r \in outbox[who[c]] THEN <<r, "answer">> ELSE Nothing, "sendlock")

GetOutbox(c, r) ==
    /\ Packet(c)
    /\ <<r, "ticket">> \in got[who[c]]
    /\ lockq[who[c]] = <<>>
    /\ lockq' = [lockq EXCEPT ![who[c]] = <<c>>]
    /\ Fetch(c, r)
    /\ UNCHANGED <<bookVars, who, peer, inbox, from, to, got, chanVars>>

GetOutboxWait(c, r) ==
    /\ Packet(c)
    /\ <<r, "ticket">> \in got[who[c]]
    /\ lockq[who[c]] # <<>>
    /\ lockq' = [lockq EXCEPT ![who[c]] = Append(@, c)]
    /\ Goto(c, "getwait")
    /\ arg' = [arg EXCEPT ![c] = <<r, "ticket">>]
    /\ UNCHANGED <<bookVars, who, peer, inbox, outbox, from, to, got, chanVars>>

GetOutboxLocked(c) ==
    LET r == arg[c][1]
    IN  /\ pc[c] = "getwait"
        /\ Head(lockq[who[c]]) = c
        /\ IF who[c] \in sessions
           THEN Fetch(c, r) /\ UNCHANGED lockq
           ELSE /\ Crash(c)
                /\ outbox' = [outbox EXCEPT ![who[c]] = @ \ {r}]
                /\ lockq' = [lockq EXCEPT ![who[c]] = Tail(@)]
        /\ UNCHANGED <<bookVars, who, peer, inbox, from, to, got, chanVars>>

-----------------------------------------------------------------------------

(* What the handler of a connection does by itself once it is ready.       *)
Proceed(c) ==
    \/ StartHandler(c)
    \/ EndOfStream(c)
    \/ Refused(c)
    \/ SendDone(c)
    \/ SendOrphan(c)
    \/ SendFail(c)
    \/ Take(c)
    \/ PutOutboxLocked(c)
    \/ GetOutboxLocked(c)

(* What a frame from the client makes it do.                               *)
Serve(c) ==
    \/ Query(c)
    \/ Malformed(c)
    \/ \E k \in Keys : Register(c, k) \/ Unregister(c, k)
    \/ \E target \in Uuids :
         PutInboxGone(c, target) \/ \E r \in Rid : PutInbox(c, r, target)
    \/ GetInbox(c)
    \/ GetInboxWait(c)
    \/ \E r \in Rid :
         \/ PutOutbox(c, r)
         \/ PutOutboxWait(c, r)
         \/ PutOutboxGone(c, r)
         \/ GetOutbox(c, r)
         \/ GetOutboxWait(c, r)
    \/ Bye(c)
    \/ BadPacket(c)
    \/ BadFrame(c)
    \/ Orphan(c)

Connect(c) ==
    \E u \in Uuids : AcceptLogin(c, u) \/ AcceptStale(c, u) \/ AcceptRelogin(c, u)

Next == \E c \in Conns : Connect(c) \/ Disconnect(c) \/ Serve(c) \/ Proceed(c)

Spec == Init /\ [][Next]_vars

(* The event loop runs every handler that is ready, and a client reads     *)
(* what it is sent (RawClient's recv_loop always does) or goes away.       *)
FairSpec == Spec /\ \A c \in Conns : WF_vars(Proceed(c))

=============================================================================
