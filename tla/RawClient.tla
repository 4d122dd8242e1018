----------------------------- MODULE RawClient -----------------------------
(***************************************************************************)
(* The client's transport (src/pipebomb/client.py, RawClient) once it is   *)
(* connected: its callers share one queue of packets to send, one loop     *)
(* that sends them, one that receives, and one queue of replies.  A reply  *)
(* does not say which request it is for: a caller takes the next one.      *)
(*                                                                         *)
(* The server's handler is as much of PostOffice as a client can see: it   *)
(* answers what verifies, one packet at a time and after any time, refuses *)
(* the first that does not, or goes away.                                  *)
(*                                                                         *)
(* "crowded", "overlapped", "jumped" and "expired" are history: whether a  *)
(* packet was sealed while another waited to be sent, or while another     *)
(* call had not returned, a reply taken by a caller that had not waited    *)
(* for it, and a call given up.                                            *)
(***************************************************************************)
EXTENDS Sequences, Naturals

CONSTANTS Callers,    \* tasks of the client program
          MaxCalls    \* bound: calls made

ASSUME CallsAssumption == MaxCalls \in Nat

VARIABLES
    made,       \* calls made so far; a call's number names its packet too
    at,         \* where each caller is
    call,       \* the call it is at
    getters,    \* the callers that wait in input_packets.get()
    woken,      \* those that a reply has woken, in the order they will run
    tasks,      \* packets queued for send_loop
    undone,     \* how many of them the queue takes for unfinished
    flying,     \* what send_loop has in sock_sendall
    sealed,     \* the nonce each packet was encrypted with
    txNonce,
    link,       \* the client's side: "up", "dead" (handle_connection raised), "closed"
    stream,     \* packets on their way to the server
    rxNonce,    \* the server's
    desk,       \* the server's handler
    job,        \* the packet it is at
    answers,    \* replies on their way to the client, by the call they are for
    input,      \* input_packets
    returned,   \* what each call has returned: <<call, whose reply>>
    refusals,   \* packets that did not verify
    crowded, overlapped, jumped, expired

callerVars == <<made, at, call, getters, woken, returned, jumped, expired>>
sendVars == <<tasks, undone, flying, sealed, txNonce, crowded, overlapped>>
serverVars == <<rxNonce, desk, job, refusals>>
clientVars == <<callerVars, sendVars, serverVars, link, stream, answers, input>>

Calls == 1 .. MaxCalls

ClientTypeOK ==
    /\ made \in 0 .. MaxCalls
    /\ at \in [Callers -> {"idle", "receiving"}]
    /\ call \in [Callers -> 0 .. MaxCalls]
    /\ {getters, woken} \subseteq Seq(Callers)
    /\ {tasks, stream, answers, input} \subseteq Seq(Calls)
    /\ {flying, job} \subseteq Seq(Calls)
    /\ sealed \in [Calls -> Nat]
    /\ {undone, txNonce, rxNonce} \subseteq Nat
    /\ link \in {"up", "dead", "closed"}
    /\ desk \in {"open", "refused", "gone"}
    /\ returned \in Seq(Calls \X Calls)
    /\ refusals \subseteq Calls
    /\ {crowded, overlapped, jumped, expired} \subseteq BOOLEAN

ClientInit ==
    /\ made = 0
    /\ at = [c \in Callers |-> "idle"]
    /\ call = [c \in Callers |-> 0]
    /\ getters = <<>>
    /\ woken = <<>>
    /\ tasks = <<>>
    /\ flying = <<>>
    /\ stream = <<>>
    /\ job = <<>>
    /\ answers = <<>>
    /\ input = <<>>
    /\ returned = <<>>
    /\ sealed = [i \in Calls |-> 0]
    /\ undone = 0
    /\ txNonce = 0
    /\ rxNonce = 0
    /\ link = "up"
    /\ desk = "open"
    /\ refusals = {}
    /\ crowded = FALSE
    /\ overlapped = FALSE
    /\ jumped = FALSE
    /\ expired = FALSE

-----------------------------------------------------------------------------
(* The callers                                                             *)

(* input_packets.get() finds a reply.                                      *)
Return(c, i) ==
    /\ returned' = Append(returned, <<i, Head(input)>>)
    /\ input' = Tail(input)
    /\ at' = [at EXCEPT ![c] = "idle"]

Queue(c) ==
    /\ getters' = Append(getters, c)
    /\ at' = [at EXCEPT ![c] = "receiving"]
    /\ UNCHANGED <<input, returned>>

(* Variant for mutation: the nonce is counted when the packet is queued,   *)
(* and again when it has been sent.                                        *)
SealCounting(i) ==
    /\ tasks' = Append(tasks, i)
    /\ sealed' = [sealed EXCEPT ![i] = txNonce]
    /\ undone' = undone + 1
    /\ txNonce' = txNonce + 1
    /\ crowded' = (crowded \/ tasks # <<>> \/ flying # <<>>)
    /\ overlapped' = (overlapped \/ Len(returned) < made)
    /\ UNCHANGED flying

(* send: the packet is encrypted now, with the nonce of the next one sent. *)
Seal(i) ==
    /\ tasks' = Append(tasks, i)
    /\ sealed' = [sealed EXCEPT ![i] = txNonce]
    /\ undone' = undone + 1
    /\ crowded' = (crowded \/ tasks # <<>> \/ flying # <<>>)
    /\ overlapped' = (overlapped \/ Len(returned) < made)
    /\ UNCHANGED <<flying, txNonce>>

(* A method of Client: send and receive, with no await between them that   *)
(* waits unless there is no reply.                                         *)
Request(c) ==
    /\ at[c] = "idle"
    /\ made < MaxCalls
    /\ link # "closed"
    /\ made' = made + 1
    /\ Seal(made')
    /\ call' = [call EXCEPT ![c] = made']
    /\ IF input # <<>>
       THEN Return(c, made') /\ jumped' = TRUE /\ UNCHANGED getters
       ELSE Queue(c) /\ UNCHANGED jumped
    /\ UNCHANGED <<woken, expired, serverVars, link, stream, answers>>

(* A caller that was woken finds the reply, or that another was faster.    *)
Resume(c) ==
    /\ woken # <<>> /\ Head(woken) = c
    /\ woken' = Tail(woken)
    /\ IF input # <<>>
       THEN Return(c, call[c]) /\ UNCHANGED getters
       ELSE Queue(c)
    /\ UNCHANGED <<made, call, jumped, expired, sendVars, serverVars, link, stream, answers>>

(* Variant for mutation: the caller that came last is woken first.         *)
WakeLast(rest) ==
    IF getters = <<>>
    THEN woken' = rest /\ UNCHANGED getters
    ELSE /\ woken' = Append(rest, getters[Len(getters)])
         /\ getters' = SubSeq(getters, 1, Len(getters) - 1)

WakeNext(rest) ==
    IF getters = <<>>
    THEN woken' = rest /\ UNCHANGED getters
    ELSE woken' = Append(rest, Head(getters)) /\ getters' = Tail(getters)

Without(line, c) == SelectSeq(line, LAMBDA d : d # c)

(* receive gives up after five seconds: the packet stays where it is, and  *)
(* so will its reply.  If the caller had been woken, the next one is.      *)
TimeOut(c) ==
    /\ at[c] = "receiving"
    /\ at' = [at EXCEPT ![c] = "idle"]
    /\ IF Without(woken, c) # woken /\ input # <<>>
       THEN WakeNext(Without(woken, c))
       ELSE woken' = Without(woken, c) /\ getters' = Without(getters, c)
    /\ expired' = TRUE
    /\ UNCHANGED <<made, call, returned, jumped, sendVars, serverVars, link, stream,
                   answers, input>>

(* close: BYE goes out past the queue, and the socket is closed.           *)
Close ==
    /\ link = "up"
    /\ flying = <<>>   \* bound: not in the middle of a send
    /\ link' = "closed"
    /\ UNCHANGED <<callerVars, sendVars, serverVars, stream, answers, input>>

-----------------------------------------------------------------------------
(* handle_connection                                                       *)

TakeTask ==
    /\ link = "up"
    /\ flying = <<>>
    /\ tasks # <<>>
    /\ flying' = <<Head(tasks)>>
    /\ tasks' = Tail(tasks)
    /\ UNCHANGED <<callerVars, serverVars, undone, sealed, txNonce, crowded, overlapped, link,
                   stream, answers, input>>

(* Variant for mutation: the queue is not told.                            *)
SentUntold ==
    /\ flying # <<>>
    /\ stream' = stream \o flying
    /\ flying' = <<>>
    /\ txNonce' = txNonce + 1
    /\ UNCHANGED <<callerVars, serverVars, tasks, undone, sealed, crowded, overlapped, link,
                   answers, input>>

(* The packet has been sent.  task_done raises if the queue takes all its  *)
(* tasks for finished, and send_loop ends, out of gather.                  *)
Sent ==
    /\ flying # <<>>
    /\ stream' = stream \o flying
    /\ flying' = <<>>
    /\ txNonce' = txNonce + 1
    /\ IF undone = 0
       THEN link' = "dead" /\ UNCHANGED undone
       ELSE undone' = undone - 1 /\ UNCHANGED link
    /\ UNCHANGED <<callerVars, serverVars, tasks, sealed, crowded, overlapped, answers, input>>

(* A send to a server that has gone raises, out of gather.                 *)
SendRaises ==
    /\ flying # <<>>
    /\ desk # "open"
    /\ flying' = <<>>
    /\ link' = "dead"
    /\ UNCHANGED <<callerVars, serverVars, tasks, undone, sealed, txNonce, crowded, overlapped,
                   stream, answers, input>>

(* What recv_loop does for an ACK while packets are queued: one of them    *)
(* counts as finished, before it is sent.  Any reply may be an ACK.        *)
Acknowledge ==
    \/ UNCHANGED undone
    \/ tasks # <<>> /\ undone > 0 /\ undone' = undone - 1

(* Variant for mutation: the newest reply is the first to be taken.        *)
ReceiveFirst ==
    /\ link = "up"
    /\ answers # <<>>
    /\ input' = <<Head(answers)>> \o input
    /\ answers' = Tail(answers)
    /\ Acknowledge
    /\ WakeNext(woken)
    /\ UNCHANGED <<made, at, call, returned, jumped, expired, serverVars, link, stream,
                   tasks, flying, sealed, txNonce, crowded, overlapped>>

(* recv_loop has a packet and hands it on.  The errors the server sends    *)
(* start with a zero byte, for which it does not look.                     *)
Receive ==
    /\ link = "up"
    /\ answers # <<>>
    /\ input' = Append(input, Head(answers))
    /\ answers' = Tail(answers)
    /\ Acknowledge
    /\ WakeNext(woken)
    /\ UNCHANGED <<made, at, call, returned, jumped, expired, serverVars, link, stream,
                   tasks, flying, sealed, txNonce, crowded, overlapped>>

(* A value that starts with "ERR" is taken for an error: recv_loop raises, *)
(* out of gather, and the socket is closed, perhaps in the middle of a     *)
(* send.  Any reply may carry one.                                         *)
ReceiveRaises ==
    /\ link = "up"
    /\ answers # <<>>
    /\ answers' = Tail(answers)
    /\ flying' = <<>>
    /\ link' = "dead"
    /\ UNCHANGED <<callerVars, serverVars, tasks, undone, sealed, txNonce, crowded, overlapped,
                   stream, input>>

-----------------------------------------------------------------------------
(* The server's handler                                                    *)

Verify ==
    /\ desk = "open"
    /\ job = <<>>
    /\ stream # <<>>
    /\ sealed[Head(stream)] = rxNonce
    /\ job' = <<Head(stream)>>
    /\ stream' = Tail(stream)
    /\ rxNonce' = rxNonce + 1
    /\ UNCHANGED <<callerVars, sendVars, desk, refusals, link, answers, input>>

Refuse ==
    /\ desk = "open"
    /\ job = <<>>
    /\ stream # <<>>
    /\ sealed[Head(stream)] # rxNonce
    /\ desk' = "refused"
    /\ refusals' = refusals \cup {Head(stream)}
    /\ answers' = Append(answers, Head(stream))
    /\ stream' = Tail(stream)
    /\ rxNonce' = rxNonce + 1
    /\ UNCHANGED <<callerVars, sendVars, job, link, input>>

Answer ==
    /\ desk = "open"
    /\ job # <<>>
    /\ answers' = answers \o job
    /\ job' = <<>>
    /\ UNCHANGED <<callerVars, sendVars, rxNonce, desk, refusals, link, stream, input>>

GoAway ==
    /\ desk = "open"
    /\ desk' = "gone"
    /\ UNCHANGED <<callerVars, sendVars, rxNonce, job, refusals, link, stream, answers, input>>

-----------------------------------------------------------------------------

ClientNext ==
    \/ \E c \in Callers : Request(c) \/ Resume(c) \/ TimeOut(c)
    \/ Close
    \/ TakeTask \/ Sent \/ SendRaises \/ Receive \/ ReceiveRaises
    \/ Verify \/ Refuse \/ Answer \/ GoAway

ClientSpec == ClientInit /\ [][ClientNext]_clientVars

-----------------------------------------------------------------------------

(* Whose replies the calls have returned, in the order they did.           *)
Taken == [k \in 1 .. Len(returned) |-> returned[k][2]]

(* Packets and replies are in one pipeline, from send to receive, in the   *)
(* order of the calls: nothing is lost, repeated or overtaken on the way,  *)
(* whoever has timed out and whoever waits (client.py:251-355).            *)
Pipeline ==
    link = "up" /\ desk # "gone" =>
        Taken \o input \o answers \o job \o stream \o flying \o tasks
            = [i \in 1 .. made |-> i]

(* A call returns what the server answered to its own request, not to      *)
(* another: what each method of Client promises (README.md:174-186).       *)
OwnReply == \A k \in 1 .. Len(returned) : returned[k][1] = returned[k][2]

(* Any number of concurrent callers get their own replies, because they    *)
(* wait in the order in which their packets are queued (client.py:350-355);*)
(* it ends when one gives up, or comes while a reply is there for another. *)
InTurn == ~expired /\ ~jumped => OwnReply

(* A client that never seals a packet while another waits to be sent is    *)
(* never refused: the two ends count alike, through time-outs and all      *)
(* (client.py:259 and 350, server.py:502).                                 *)
CountedAlike == ~crowded => refusals = {}

(* While no call is made before the one before it has returned, the queue  *)
(* of packets counts as unfinished what has not been sent, so that neither *)
(* loop ends the connection over it (client.py:261 and 303-305).           *)
Accounted == link = "up" /\ ~overlapped => undone = Len(tasks) + Len(flying)

=============================================================================
