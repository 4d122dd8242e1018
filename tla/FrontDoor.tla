----------------------------- MODULE FrontDoor -----------------------------
(***************************************************************************)
(* From start() to stop() (src/pipebomb/server.py): accept_clients, of     *)
(* which start() makes several tasks, the handshake with RawClient.connect *)
(* (src/pipebomb/client.py) and the packets that the handler reads after   *)
(* it.  What is in the requests is PostOffice's; here it is the bytes, and *)
(* which task reads them.                                                  *)
(*                                                                         *)
(* A client's packets go into its byte stream, cut into cells <<n, i, q>>: *)
(* part i of its packet n, which has the quality q.  recv returns any      *)
(* number of cells.  A key is read by its size; every other packet is a    *)
(* frame that extract_packet_frame has to find.  The other direction never *)
(* runs ahead of its reader, and is a count of messages.                   *)
(*                                                                         *)
(* The accepters are tasks of one event loop, asyncio's selector loop, and *)
(* all of them wait at one listening socket.  loop.sock_accept is modelled *)
(* from that loop: it tries to accept, and only when there is nothing to   *)
(* accept registers a reader; a loop has one reader for a socket, so a     *)
(* registration cancels the one before, whose future nothing completes.    *)
(***************************************************************************)
EXTENDS Naturals, Sequences, FiniteSets

CONSTANTS Accepters,   \* start(client_accepters=...)
          Clients,     \* clients, each connects once
          Prompt,      \* those that go through the handshake as they should
          Nobody,
          MaxReq       \* bound: requests of a prompt client; others send none

ASSUME FrontDoorAssumption ==
    /\ Prompt \subseteq Clients
    /\ Nobody \notin Clients \cup Accepters
    /\ Accepters \cap Clients = {}
    /\ MaxReq \in Nat

VARIABLES
    server,     \* the listening socket: "new", "up" or "stopped"
    tasks,      \* Server.tasks: accepters, and handlers by their client
    doomed,     \* tasks whose cancel() was called
    crew,       \* accepters that run
    desk,       \* accept_clients' variable client_socket
    waiting,    \* accepters whose sock_accept found nothing, and waits
    ear,        \* the one of them whose reader the event loop has, or Nobody
    backlog,    \* connections not accepted yet
    stage,      \* how far the server is with a connection
    open,       \* the client has not closed its end
    stream,     \* cells on their way to the server
    buf,        \* cells that the reader of the connection has in its buffer
    step,       \* packets the client has sent
    heard,      \* messages the server has sent it
    good,       \* history: the client has sent what a RawClient sends
    taken,      \* history: packets that the server's readers have returned
    sessions    \* client_db, a session by the client that made it

ears == <<waiting, ear>>
serverVars == <<server, tasks, doomed, crew, desk, ears, backlog, sessions>>
wireVars == <<stream, buf, heard, taken>>
clientVars == <<open, step, good>>
doorVars == <<serverVars, stage, wireVars, clientVars>>

Key == 0
Password == 1
Login == 2
LastPacket == Login + MaxReq

Handshake == {"key", "password", "login", "entered", "unentered"}

(* stop() knows of every task there is: accepters and handlers that run    *)
(* are in Server.tasks (server.py:216-221, 442-448).                       *)
DoorTypeOK ==
    /\ server \in {"new", "up", "stopped"}
    /\ tasks \subseteq Accepters \cup Clients
    /\ doomed \subseteq tasks
    /\ crew \subseteq Accepters
    /\ crew \cup {c \in Clients : stage[c] = "served"} \subseteq tasks
    /\ desk \in [Accepters -> Clients \cup {Nobody}]
    /\ waiting \subseteq Accepters
    /\ ear \in waiting \cup {Nobody}
    /\ stage \in [Clients -> Handshake \cup {"home", "backlog", "served", "over", "left", "closed"}]
    /\ step \in [Clients -> 0 .. LastPacket + 1]
    /\ sessions \subseteq Clients

DoorInit ==
    /\ server = "new"
    /\ tasks = {} /\ doomed = {} /\ crew = {}
    /\ desk = [a \in Accepters |-> Nobody]
    /\ waiting = {} /\ ear = Nobody
    /\ backlog = <<>>
    /\ stage = [c \in Clients |-> "home"]
    /\ open = [c \in Clients |-> FALSE]
    /\ stream = [c \in Clients |-> <<>>]
    /\ buf = [c \in Clients |-> <<>>]
    /\ step = [c \in Clients |-> 0]
    /\ heard = [c \in Clients |-> 0]
    /\ good = [c \in Clients |-> TRUE]
    /\ taken = [c \in Clients |-> <<>>]
    /\ sessions = {}

-----------------------------------------------------------------------------
(* start and stop                                                          *)

Start ==
    /\ server = "new"
    /\ server' = "up"
    /\ crew' = Accepters
    /\ tasks' = Accepters
    /\ UNCHANGED <<doomed, desk, ears, backlog, sessions, stage, wireVars, clientVars>>

(* Variant for mutation: the handlers are told to end, not the accepters.  *)
StopHandlers ==
    /\ server = "up"
    /\ server' = "stopped"
    /\ sessions' = {}
    /\ doomed' = tasks \ Accepters
    /\ backlog' = <<>>
    /\ stage' = [c \in Clients |-> IF stage[c] = "backlog" THEN "closed" ELSE stage[c]]
    /\ UNCHANGED <<tasks, crew, desk, ears, wireVars, clientVars>>

(* Nothing in stop() awaits: the tables are cleared and every task is told *)
(* to end before any of them runs again.  Open connections stay open.      *)
Stop ==
    /\ server = "up"
    /\ server' = "stopped"
    /\ sessions' = {}
    /\ doomed' = tasks
    /\ backlog' = <<>>
    /\ stage' = [c \in Clients |-> IF stage[c] = "backlog" THEN "closed" ELSE stage[c]]
    /\ UNCHANGED <<tasks, crew, desk, ears, wireVars, clientVars>>

(* sock_accept returns or is cancelled; its reader, if the loop still has  *)
(* it, is removed.                                                         *)
StopsWaiting(a) ==
    /\ waiting' = waiting \ {a}
    /\ ear' = IF ear = a THEN Nobody ELSE ear

(* Variant for mutation: the loop catches the cancellation, and goes on.   *)
AccepterCatches(a) ==
    /\ a \in crew \cap doomed
    /\ doomed' = doomed \ {a}
    /\ stage' = [c \in Clients |-> IF c = desk[a] /\ stage[c] \in Handshake
                                   THEN "left" ELSE stage[c]]
    /\ StopsWaiting(a)
    /\ UNCHANGED <<server, tasks, crew, desk, backlog, sessions, wireVars, clientVars>>

(* CancelledError reaches an accepter: "except Exception" lets it through. *)
AccepterEnds(a) ==
    /\ a \in crew \cap doomed
    /\ crew' = crew \ {a}
    /\ StopsWaiting(a)
    /\ stage' = [c \in Clients |-> IF c = desk[a] /\ stage[c] \in Handshake
                                   THEN "left" ELSE stage[c]]
    /\ UNCHANGED <<server, tasks, doomed, desk, backlog, sessions, wireVars, clientVars>>

HandlerEnds(c) ==
    /\ c \in doomed
    /\ stage[c] = "served"
    /\ stage' = [stage EXCEPT ![c] = "over"]
    /\ UNCHANGED <<serverVars, wireVars, clientVars>>

-----------------------------------------------------------------------------
(* The client: RawClient.connect                                           *)

Connect(c) ==
    /\ server = "up"
    /\ stage[c] = "home"
    /\ stage' = [stage EXCEPT ![c] = "backlog"]
    /\ open' = [open EXCEPT ![c] = TRUE]
    /\ backlog' = Append(backlog, c)
    /\ UNCHANGED <<server, tasks, doomed, crew, desk, ears, sessions, wireVars, step, good>>

(* 32 raw bytes, or a frame: six bytes of header, and the ciphertext.      *)
KeySize == 2
HeaderSize == 2
FrameSize == HeaderSize + 1

Cells(n, q) == [i \in 1 .. IF n = Key THEN KeySize ELSE FrameSize |-> <<n, i, q>>]

(* The key at once; the password when the server's key is there, the login *)
(* when the password is acknowledged, requests when the login is, without  *)
(* waiting for replies.                                                    *)
MaySend(c, n) ==
    /\ n <= IF c \in Prompt THEN LastPacket ELSE Login
    /\ heard[c] >= IF n > Login THEN Login + 1 ELSE n

(* A password may be wrong, and so may a login, or not verify; a frame may *)
(* have a foreign header.  What else can be wrong with a request is        *)
(* PostOffice's.  A client whose packet was not right sends no more, and   *)
(* what clients do after stop() concerns nobody.  Bound: a prompt client's *)
(* handshake is right, and it does not leave before that is over.          *)
Qualities(n) ==
    CASE n = Key -> {"right"}
      [] n = Password -> {"right", "wrong", "foreign"}
      [] n = Login -> {"right", "wrong", "forged"}
      [] OTHER -> {"right", "foreign"}

Send(c, q) ==
    LET n == step[c]
    IN  /\ server = "up"
        /\ open[c]
        /\ good[c]
        /\ stage[c] \in Handshake \cup {"backlog", "served"}
        /\ MaySend(c, n)
        /\ q \in Qualities(n)
        /\ c \in Prompt /\ n <= Login => q = "right"
        /\ stream' = [stream EXCEPT ![c] = @ \o Cells(n, q)]
        /\ step' = [step EXCEPT ![c] = n + 1]
        /\ good' = [good EXCEPT ![c] = q = "right"]
        /\ UNCHANGED <<serverVars, stage, buf, heard, taken, open>>

Leave(c) ==
    /\ server = "up"
    /\ open[c]
    /\ c \in Prompt => heard[c] > Login
    /\ open' = [open EXCEPT ![c] = FALSE]
    /\ UNCHANGED <<serverVars, stage, wireVars, step, good>>

-----------------------------------------------------------------------------
(* Reading                                                                 *)

(* Variant for mutation: what follows the frame is thrown away.            *)
ExtractAlone(b) ==
    IF Len(b) < HeaderSize THEN [is |-> "short", rest |-> b]
    ELSE IF b[1][2] # 1 \/ b[1][3] = "foreign" THEN [is |-> "invalid", rest |-> <<>>]
    ELSE IF Len(b) < FrameSize THEN [is |-> "short", rest |-> b]
    ELSE [is |-> "frame", n |-> b[1][1], q |-> b[1][3], rest |-> <<>>]

(* extract_packet_frame: wait for the header; refuse a foreign one; wait   *)
(* for the rest of the frame; return it, and the bytes after it.           *)
Extract(b) ==
    IF Len(b) < HeaderSize THEN [is |-> "short", rest |-> b]
    ELSE IF b[1][2] # 1 \/ b[1][3] = "foreign" THEN [is |-> "invalid", rest |-> <<>>]
    ELSE IF Len(b) < FrameSize THEN [is |-> "short", rest |-> b]
    ELSE [is |-> "frame", n |-> b[1][1], q |-> b[1][3],
          rest |-> SubSeq(b, FrameSize + 1, Len(b))]

(* The buffer after a recv of up to max bytes.                             *)
Received(c, max) ==
    {buf[c] \o SubSeq(stream[c], 1, k) : k \in {j \in 1 .. Len(stream[c]) : j <= max}}

Consume(c, b) ==
    stream' = [stream EXCEPT ![c] = SubSeq(@, Len(b) - Len(buf[c]) + 1, Len(@))]

Answer(c) == heard' = [heard EXCEPT ![c] = @ + 1]

Take(c, n) == taken' = [taken EXCEPT ![c] = Append(@, n)]

Goto(c, place) == stage' = [stage EXCEPT ![c] = place]

-----------------------------------------------------------------------------
(* accept_clients                                                          *)

Running(a) == a \in crew \ doomed

Free(a) == \A c \in Clients : desk[a] = c => stage[c] \notin Handshake

(* Nothing to accept: from now on this accepter is the one that is called  *)
(* when there is, and whoever was before waits for ever.                   *)
Listen(a) ==
    /\ Running(a)
    /\ Free(a)
    /\ a \notin waiting
    /\ backlog = <<>>
    /\ waiting' = waiting \cup {a}
    /\ ear' = a
    /\ UNCHANGED <<server, tasks, doomed, crew, desk, backlog, sessions, stage,
                   wireVars, clientVars>>

(* The next connection, for an accepter that comes to sock_accept or is    *)
(* called by its reader.  One that was given up (stage "left") is still    *)
(* open: when it is closed, if ever, depends on who else refers to it.     *)
Accept(a) ==
    /\ Running(a)
    /\ Free(a)
    /\ a \in waiting => a = ear
    /\ backlog # <<>>
    /\ backlog' = Tail(backlog)
    /\ desk' = [desk EXCEPT ![a] = Head(backlog)]
    /\ stage' = [stage EXCEPT ![Head(backlog)] = "key"]
    /\ StopsWaiting(a)
    /\ UNCHANGED <<server, tasks, doomed, crew, sessions, wireVars, clientVars>>

At(a, c, place) == Running(a) /\ desk[a] = c /\ stage[c] = place

(* read_exact(32), and the server's key in return.                         *)
ReadKey(a, c) ==
    /\ At(a, c, "key")
    /\ \E b \in Received(c, KeySize - Len(buf[c])) :
         /\ Consume(c, b)
         /\ IF Len(b) = KeySize
            THEN /\ Take(c, b[1][1])
                 /\ buf' = [buf EXCEPT ![c] = <<>>]
                 /\ Answer(c)
                 /\ Goto(c, "password")
            ELSE /\ buf' = [buf EXCEPT ![c] = b]
                 /\ UNCHANGED <<taken, heard, stage>>
    /\ UNCHANGED <<serverVars, clientVars>>

(* The password: acknowledged, or the connection is closed.                *)
CheckPassword(c, q) ==
    /\ IF q = "right" THEN Answer(c) /\ Goto(c, "login")
                      ELSE Goto(c, "closed") /\ UNCHANGED heard
    /\ UNCHANGED sessions

(* LOGIN makes a session and acknowledges it; RELOGIN with a known uuid    *)
(* acknowledges it, with another one sends an error and makes a session    *)
(* when that is sent.  A packet that does not verify leaves the connection *)
(* as it is, an unknown login closes it.                                   *)
CheckLogin(c, q) ==
    \/ /\ q = "right"
       /\ Answer(c)
       /\ \/ Goto(c, "entered") /\ sessions' = sessions \cup {c}
          \/ Goto(c, "entered") /\ sessions # {} /\ UNCHANGED sessions
          \/ Goto(c, "unentered") /\ UNCHANGED sessions
    \/ /\ q # "right"
       /\ Goto(c, IF q = "wrong" THEN "closed" ELSE "left")
       /\ UNCHANGED <<heard, sessions>>

(* read_packet_frame has a buffer of its own, which is gone when it has    *)
(* returned a frame or raised.                                             *)
ReadFrame(a, c) ==
    /\ At(a, c, "password") \/ At(a, c, "login")
    /\ \E b \in Received(c, Len(stream[c])) :
         LET e == Extract(b)
         IN  /\ Consume(c, b)
             /\ buf' = [buf EXCEPT ![c] = IF e.is = "short" THEN b ELSE <<>>]
             /\ CASE e.is = "short" -> UNCHANGED <<taken, heard, stage, sessions>>
                  [] e.is = "invalid" -> Goto(c, "left") /\ UNCHANGED <<taken, heard, sessions>>
                  [] e.is = "frame" ->
                       /\ Take(c, e.n)
                       /\ IF stage[c] = "password" THEN CheckPassword(c, e.q) ELSE CheckLogin(c, e.q)
    /\ UNCHANGED <<server, tasks, doomed, crew, desk, ears, backlog, clientVars>>

(* Variant for mutation: the handler's task is not remembered.             *)
WelcomeForgets(a, c) ==
    /\ At(a, c, "entered") \/ At(a, c, "unentered")
    /\ sessions' = IF stage[c] = "unentered" THEN sessions \cup {c} ELSE sessions
    /\ Goto(c, "served")
    /\ UNCHANGED <<server, tasks, doomed, crew, desk, ears, backlog, wireVars, clientVars>>

(* The last message is sent: the handler's task is made and remembered.    *)
Welcome(a, c) ==
    /\ At(a, c, "entered") \/ At(a, c, "unentered")
    /\ sessions' = IF stage[c] = "unentered" THEN sessions \cup {c} ELSE sessions
    /\ tasks' = tasks \cup {c}
    /\ Goto(c, "served")
    /\ UNCHANGED <<server, doomed, crew, desk, ears, backlog, wireVars, clientVars>>

(* Variant for mutation: what fails in a handshake ends the accepter.      *)
AbandonEnds(a, c) ==
    /\ ~open[c]
    /\ \/ At(a, c, "key") /\ stream[c] = <<>> /\ Goto(c, "closed") /\ UNCHANGED crew
       \/ \E place \in Handshake \ {"key"} :
            At(a, c, place) /\ Goto(c, "left") /\ crew' = crew \ {a}
    /\ UNCHANGED <<server, tasks, doomed, desk, ears, backlog, sessions, wireVars, clientVars>>

(* The client has gone: a key cut short closes the connection, a send or a *)
(* read that fails raises, and the accepter turns to the next client.      *)
Abandon(a, c) ==
    /\ ~open[c]
    /\ \/ At(a, c, "key") /\ stream[c] = <<>> /\ Goto(c, "closed")
       \/ \E place \in Handshake \ {"key"} : At(a, c, place) /\ Goto(c, "left")
    /\ UNCHANGED <<serverVars, wireVars, clientVars>>

-----------------------------------------------------------------------------
(* handle_client: the frames, one after the other, from one buffer.        *)

Serves(c) == stage[c] = "served" /\ c \notin doomed

HandleFrame(c, e) ==
    /\ buf' = [buf EXCEPT ![c] = e.rest]
    /\ CASE e.is = "short" -> UNCHANGED <<taken, stage>>
         [] e.is = "invalid" -> Goto(c, "over") /\ UNCHANGED taken
         [] e.is = "frame" -> Take(c, e.n) /\ UNCHANGED stage
    /\ UNCHANGED <<serverVars, heard, clientVars>>

(* A frame may be complete in the buffer already; only if not does the     *)
(* handler wait for more.                                                  *)
HandleBuffered(c) ==
    /\ Serves(c)
    /\ Extract(buf[c]).is # "short"
    /\ HandleFrame(c, Extract(buf[c]))
    /\ UNCHANGED stream

HandleRecv(c) ==
    /\ Serves(c)
    /\ Extract(buf[c]).is = "short"
    /\ \E b \in Received(c, Len(stream[c])) : Consume(c, b) /\ HandleFrame(c, Extract(b))

(* The end of the stream, or a connection that fails.                      *)
HandlerLost(c) ==
    /\ Serves(c)
    /\ ~open[c]
    /\ Goto(c, "over")
    /\ UNCHANGED <<serverVars, wireVars, clientVars>>

-----------------------------------------------------------------------------

Accepter(a) ==
    \/ Listen(a)
    \/ Accept(a)
    \/ AccepterEnds(a)
    \/ \E c \in Clients :
         ReadKey(a, c) \/ ReadFrame(a, c) \/ Welcome(a, c) \/ Abandon(a, c)

Handler(c) == HandleBuffered(c) \/ HandleRecv(c) \/ HandlerLost(c) \/ HandlerEnds(c)

Client(c) == Connect(c) \/ Leave(c) \/ \E q \in Qualities(step[c]) : Send(c, q)

DoorNext ==
    \/ Start
    \/ Stop
    \/ \E a \in Accepters : Accepter(a)
    \/ \E c \in Clients : Handler(c) \/ Client(c)

DoorSpec == DoorInit /\ [][DoorNext]_doorVars

(* The event loop does not rest while one of its tasks can go on, and a    *)
(* prompt client sends what it is waited for.                              *)
LoopStep == (\E a \in Accepters : Accepter(a)) \/ \E c \in Clients : Handler(c)

DoorFairSpec ==
    /\ DoorSpec
    /\ WF_doorVars(LoopStep)
    /\ \A c \in Prompt : WF_doorVars(Send(c, "right"))

-----------------------------------------------------------------------------

(* However the stream is cut, the readers return a client's packets whole, *)
(* each once and in order, and so a client that follows the protocol is    *)
(* not refused: read_packet_frame may throw away what followed its frame   *)
(* (server.py:76), since nothing can have; the handler, whose client sends *)
(* ahead, may not (server.py:466-485, utils.py:68-85).                     *)
ReadAsSent ==
    \A c \in Clients :
        /\ taken[c] = [i \in 1 .. Len(taken[c]) |-> i - 1]
        /\ good[c] /\ open[c] /\ server = "up" => stage[c] \notin {"left", "closed", "over"}

(* After stop() nothing is handled and client_db stays empty, although     *)
(* tasks in the middle of a handshake or of a request have yet to end      *)
(* (server.py:263-275).                                                    *)
StopFinal ==
    [][server = "stopped" => sessions' = {} /\ UNCHANGED <<taken, heard, server>>]_doorVars

(* And all of them do end: those that start() made, and those that the     *)
(* accepters made (server.py:216-221, 442-448, 274-275).                   *)
AllEnd == server = "stopped" ~> crew = {} /\ \A c \in Clients : stage[c] # "served"

(* The front door is never deaf: whichever accepters have displaced each   *)
(* other at the listening socket, and whatever failed in their handshakes, *)
(* one of them has the loop's reader, or is in a handshake or on its way   *)
(* back from one (server.py:279-281, 450).                                 *)
SomebodyListens ==
    server = "up" /\ Accepters # {} => \E a \in crew : a = ear \/ a \notin waiting

(* The handshake is part of the accept loop and has no timeout             *)
(* (server.py:289, 319, 348).  If the clients that can stall in it do not  *)
(* stay there, everyone else who connects is served or refused, although   *)
(* accepters that were displaced never come back.                          *)
EveryoneInTurn ==
    (\A d \in Clients \ Prompt : []<>(stage[d] \notin Handshake)) =>
        \A c \in Prompt :
            stage[c] = "backlog" ~> stage[c] \in {"served", "over", "left", "closed"}

(* What README.md:260 says of several accepters, that each accepts on its  *)
(* own, without a single bottleneck: with more of them than clients that   *)
(* stall, everyone else who waits is served or refused (server.py:216-221, *)
(* 281).                                                                   *)
EveryoneIn ==
    Cardinality(Clients \ Prompt) < Cardinality(Accepters) =>
        \A c \in Prompt :
            stage[c] = "backlog"
                ~> stage[c] \in {"served", "over", "left", "closed"} \/ ~open[c]

=============================================================================
