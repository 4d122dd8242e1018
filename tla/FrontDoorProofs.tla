--------------------------- MODULE FrontDoorProofs ---------------------------
(***************************************************************************)
(* For any number of accepters, clients and requests: what start(), stop(),*)
(* the accept loops and the readers keep true.  Three things are kept      *)
(* apart: which tasks there are, which connection is whose, and what is in *)
(* the byte streams.                                                       *)
(***************************************************************************)
EXTENDS FrontDoor, SequenceTheorems, TLAPS

(* Which tasks run.  stop() has told all of them, and none is added later, *)
(* because only an accepter that was not told adds one.                    *)
Staffed ==
    /\ server = "new" => tasks = {} /\ waiting = {} /\ \A c \in Clients : stage[c] = "home"
    /\ server = "up" => doomed = {} /\ crew = Accepters
    /\ server = "stopped" => sessions = {} /\ tasks \subseteq doomed

(* Which connection is whose: the backlog has those that nobody accepted,  *)
(* once each; what is in a handshake is on a desk.                         *)
Placed ==
    /\ backlog \in Seq(Clients)
    /\ \A i \in 1 .. Len(backlog) : stage[backlog[i]] = "backlog"
    /\ \A i, j \in 1 .. Len(backlog) : backlog[i] = backlog[j] => i = j
    /\ \A a \in Accepters, c \in Clients :
           desk[a] = c => stage[c] \notin {"home", "backlog"}
    /\ \A c \in Clients :
           stage[c] \in Handshake => \E a \in Accepters : desk[a] = c
    /\ \A a, b \in Accepters : desk[a] = desk[b] => a = b \/ desk[a] = Nobody

LEMMA DoorConstants == LastPacket = MaxReq + 2 /\ Login = 2 /\ MaxReq \in Nat
  BY FrontDoorAssumption DEF LastPacket, Login

(* A reader's result, whichever of the three it is.                        *)
LEMMA ExtractIs ==
    ASSUME NEW b
    PROVE  LET e == Extract(b)
           IN  /\ e.is \in {"short", "invalid", "frame"}
               /\ e.is = "short" => e.rest = b /\ (Len(b) < HeaderSize \/ Len(b) < FrameSize)
               /\ e.is = "invalid" => /\ e.rest = <<>>
                                      /\ ~(Len(b) < HeaderSize)
                                      /\ b[1][2] # 1 \/ b[1][3] = "foreign"
               /\ e.is = "frame" => /\ ~(Len(b) < FrameSize)
                                    /\ e.n = b[1][1] /\ e.q = b[1][3]
                                    /\ e.rest = SubSeq(b, FrameSize + 1, Len(b))
  BY DEF Extract

(* What a step on one connection does to the stages of all.                *)
LEMMA GotoStage ==
    ASSUME DoorTypeOK, NEW c \in Clients, NEW place, Goto(c, place)
    PROVE  stage'[c] = place /\ \A d \in Clients : d # c => stage'[d] = stage[d]
  BY DEF Goto, DoorTypeOK

(* A reader's step: of the tables and the stages, it changes the stage of  *)
(* the connection it reads from, and that within narrow limits.            *)
LEMMA ReadFrameStage ==
    ASSUME DoorTypeOK, NEW a \in Accepters, NEW c \in Clients, ReadFrame(a, c)
    PROVE  /\ UNCHANGED <<server, tasks, doomed, crew, desk, ears, backlog, clientVars>>
           /\ Running(a) /\ desk[a] = c /\ stage[c] \in {"password", "login"}
           /\ stage' \in [Clients -> {stage[d] : d \in Clients} \cup Handshake \cup {"left", "closed"}]
           /\ stage'[c] \in Handshake \cup {"left", "closed"}
           /\ \A d \in Clients : d # c => stage'[d] = stage[d]
           /\ sessions' \subseteq sessions \cup {c}
<1>1. /\ UNCHANGED <<server, tasks, doomed, crew, desk, ears, backlog, clientVars>>
      /\ Running(a) /\ desk[a] = c /\ stage[c] \in {"password", "login"}
  BY DEF ReadFrame, At
<1>2. PICK b \in Received(c, Len(stream[c])) :
         CASE Extract(b).is = "short" -> UNCHANGED <<taken, heard, stage, sessions>>
           [] Extract(b).is = "invalid" -> Goto(c, "left") /\ UNCHANGED <<taken, heard, sessions>>
           [] Extract(b).is = "frame" ->
                /\ Take(c, Extract(b).n)
                /\ IF stage[c] = "password" THEN CheckPassword(c, Extract(b).q)
                   ELSE CheckLogin(c, Extract(b).q)
  BY DEF ReadFrame
<1>3. Extract(b).is \in {"short", "invalid", "frame"}
  BY ExtractIs
<1>4. \/ stage' = stage /\ sessions' = sessions
      \/ \E place \in Handshake \cup {"left", "closed"} :
           Goto(c, place) /\ sessions' \in {sessions, sessions \cup {c}}
  BY <1>2, <1>3 DEF CheckPassword, CheckLogin, Handshake
<1> QED
  BY <1>1, <1>4, GotoStage DEF DoorTypeOK, Goto, Handshake

DeskInv == DoorTypeOK /\ Staffed /\ Placed

(* An accepter that has not been told to end, at the connection on its     *)
(* desk: then the server is up, and may add a session and a task.          *)
LEMMA AtDeskKeeps ==
    ASSUME DeskInv, NEW a \in Accepters, NEW c \in Clients,
           Running(a), desk[a] = c, stage[c] \in Handshake,
           UNCHANGED <<server, doomed, crew, desk, ears, backlog, step>>,
           stage'[c] \in Handshake \cup {"left", "closed", "served"},
           \A d \in Clients : d # c => stage'[d] = stage[d],
           DOMAIN stage' = Clients, stage' \in [Clients -> {stage'[d] : d \in Clients}],
           tasks \subseteq tasks', tasks' \subseteq tasks \cup {c},
           stage'[c] = "served" => c \in tasks',
           sessions' \subseteq sessions \cup {c}
    PROVE  DeskInv'
<1>1. server = "up" /\ doomed = {}
  BY DEF DeskInv, DoorTypeOK, Staffed, Running
<1>2. DoorTypeOK'
  BY DEF DeskInv, DoorTypeOK, Handshake, ears
<1>3. Staffed'
  BY <1>1 DEF DeskInv, Staffed
<1>4. Placed'
  <2>1. \A i \in 1 .. Len(backlog) : backlog[i] \in Clients /\ backlog[i] # c
    BY DEF DeskInv, Placed, Handshake
  <2> QED
    BY <2>1 DEF DeskInv, Placed, Handshake
<1> QED
  BY <1>2, <1>3, <1>4 DEF DeskInv

(* A handler's step, or one that only the streams see.                     *)
LEMMA AtHandlerKeeps ==
    ASSUME DeskInv, NEW c \in Clients,
           UNCHANGED serverVars, step' \in [Clients -> 0 .. LastPacket + 1],
           stage' = stage \/ (stage[c] = "served" /\ stage' = [stage EXCEPT ![c] = "over"])
    PROVE  DeskInv'
<1> USE DEF serverVars, ears
<1>1. DoorTypeOK'
  BY DEF DeskInv, DoorTypeOK
<1>2. Staffed'
  BY DEF DeskInv, DoorTypeOK, Staffed
<1>3. Placed'
  <2>1. \A d \in Clients : stage'[d] = stage[d] \/ (stage[d] = "served" /\ stage'[d] = "over")
    BY DEF DeskInv, DoorTypeOK
  <2>2. \A i \in 1 .. Len(backlog) : backlog[i] \in Clients
    BY DEF DeskInv, Placed
  <2> QED
    BY <2>1, <2>2 DEF DeskInv, Placed, Handshake
<1> QED
  BY <1>1, <1>2, <1>3 DEF DeskInv

LEMMA ConnectDesk == ASSUME DeskInv, NEW c \in Clients, Connect(c) PROVE DeskInv'
<1>1. DoorTypeOK'
  BY DEF DeskInv, DoorTypeOK, Connect, ears
<1>2. Staffed'
  BY DEF DeskInv, Staffed, Connect
<1>3. Placed'
  <2>1. backlog' = Append(backlog, c) /\ backlog \in Seq(Clients)
    BY DEF DeskInv, Placed, Connect
  <2>2. /\ backlog' \in Seq(Clients)
        /\ Len(backlog') = Len(backlog) + 1
        /\ \A i \in 1 .. Len(backlog) : backlog'[i] = backlog[i]
        /\ backlog'[Len(backlog) + 1] = c
    BY <2>1
  <2>3. stage[c] = "home" /\ stage' = [stage EXCEPT ![c] = "backlog"] /\ desk' = desk
    BY DEF Connect
  <2>4. \A i \in 1 .. Len(backlog) : backlog[i] \in Clients /\ backlog[i] # c
    BY <2>1, <2>3 DEF DeskInv, Placed
  <2>5. \A d \in Clients : stage'[d] = IF d = c THEN "backlog" ELSE stage[d]
    BY <2>3 DEF DeskInv, DoorTypeOK
  <2>6. Len(backlog) \in Nat
    BY <2>1
  <2>7. \A i \in 1 .. Len(backlog') : stage'[backlog'[i]] = "backlog"
    BY <2>2, <2>4, <2>5, <2>6 DEF DeskInv, Placed
  <2>8. \A i, j \in 1 .. Len(backlog') : backlog'[i] = backlog'[j] => i = j
    BY <2>2, <2>4, <2>6 DEF DeskInv, Placed
  <2> QED
    BY <2>2, <2>3, <2>5, <2>7, <2>8 DEF DeskInv, Placed, Handshake
<1> QED
  BY <1>1, <1>2, <1>3 DEF DeskInv

(* A reader of the listening socket comes and goes.                        *)
LEMMA EarsKeep ==
    ASSUME DeskInv, NEW a \in Accepters, StopsWaiting(a)
    PROVE  waiting' \subseteq Accepters /\ ear' \in waiting' \cup {Nobody}
  BY DEF DeskInv, DoorTypeOK, StopsWaiting

LEMMA ListenDesk == ASSUME DeskInv, NEW a \in Accepters, Listen(a) PROVE DeskInv'
<1> USE DEF Listen, wireVars, clientVars
<1>1. DoorTypeOK'
  BY DEF DeskInv, DoorTypeOK
<1>2. server = "up" /\ Staffed' /\ Placed'
  BY DEF DeskInv, DoorTypeOK, Staffed, Placed, Running
<1> QED
  BY <1>1, <1>2 DEF DeskInv

(* Accepting: the new connection takes the place of the one before on the  *)
(* desk, which is not in a handshake any more.                             *)
LEMMA AcceptDesk == ASSUME DeskInv, NEW a \in Accepters, Accept(a) PROVE DeskInv'
<1> DEFINE h == Head(backlog)
<1>0. /\ backlog \in Seq(Clients) /\ backlog # <<>>
      /\ desk' = [desk EXCEPT ![a] = h]
      /\ backlog' = Tail(backlog)
      /\ UNCHANGED <<server, tasks, doomed, crew, sessions, step>>
  BY DEF DeskInv, Placed, Accept, clientVars
<1>1. /\ h \in Clients /\ h = backlog[1] /\ Len(backlog) \in Nat \ {0}
      /\ backlog' \in Seq(Clients)
      /\ Len(backlog') = Len(backlog) - 1
      /\ \A i \in 1 .. Len(backlog') : backlog'[i] = backlog[i + 1]
  BY <1>0
<1>2. stage[h] = "backlog" /\ \A b \in Accepters : desk[b] # h
  BY <1>1 DEF DeskInv, Placed
<1>3. \A d \in Clients : stage'[d] = IF d = h THEN "key" ELSE stage[d]
  BY DEF Accept, DeskInv, DoorTypeOK
<1>4. DoorTypeOK'
  <2>1. stage' \in [Clients -> Handshake \cup {"home", "backlog", "served", "over", "left", "closed"}]
    BY DEF Accept, DeskInv, DoorTypeOK, Handshake
  <2>2. {c \in Clients : stage'[c] = "served"} \subseteq {c \in Clients : stage[c] = "served"}
    BY <1>3
  <2>3. waiting' \subseteq Accepters /\ ear' \in waiting' \cup {Nobody}
    BY EarsKeep DEF Accept
  <2> QED
    BY <1>0, <1>1, <2>1, <2>2, <2>3 DEF DeskInv, DoorTypeOK
<1>5. Staffed'
  BY <1>0, <1>2 DEF DeskInv, Staffed, DoorTypeOK, Accept, Running
<1>6. Placed'
  <2>1. \A i \in 1 .. Len(backlog') :
           backlog'[i] \in Clients /\ stage[backlog'[i]] = "backlog" /\ backlog'[i] # h
    BY <1>1 DEF DeskInv, Placed
  <2>2. \A i, j \in 1 .. Len(backlog') : backlog'[i] = backlog'[j] => i = j
    BY <1>1 DEF DeskInv, Placed
  <2>3. \A b \in Accepters : desk'[b] = IF b = a THEN h ELSE desk[b]
    BY <1>0 DEF DeskInv, DoorTypeOK
  <2>4. \A b \in Accepters, c \in Clients : desk'[b] = c => stage'[c] \notin {"home", "backlog"}
    BY <1>3, <2>3 DEF DeskInv, Placed
  <2>5. ASSUME NEW c \in Clients, stage'[c] \in Handshake
        PROVE  \E b \in Accepters : desk'[b] = c
    <3>1. CASE c = h
      BY <2>3, <3>1
    <3>2. CASE c # h
      <4>1. stage'[c] = stage[c]
        BY <1>3, <3>2
      <4>2. PICK b \in Accepters : desk[b] = c
        BY <2>5, <4>1 DEF DeskInv, Placed
      <4>3. b # a
        BY <2>5, <4>1, <4>2 DEF Accept, Free
      <4> QED
        BY <2>3, <4>2, <4>3
    <3> QED
      BY <3>1, <3>2
  <2>6. \A b, e \in Accepters : desk'[b] = desk'[e] => b = e \/ desk'[b] = Nobody
    BY <1>2, <2>3 DEF DeskInv, Placed
  <2> QED
    BY <1>1, <1>3, <2>1, <2>2, <2>4, <2>5, <2>6 DEF Placed
<1> QED
  BY <1>4, <1>5, <1>6 DEF DeskInv

LEMMA StartDesk == ASSUME DeskInv, Start PROVE DeskInv'
<1>1. tasks = {} /\ \A c \in Clients : stage[c] = "home"
  BY DEF DeskInv, Staffed, Start
<1>2. doomed = {}
  BY <1>1 DEF DeskInv, DoorTypeOK
<1> QED
  BY <1>1, <1>2 DEF Start, DeskInv, DoorTypeOK, Staffed, Placed, Handshake, clientVars, ears

(* stop(): the connections in the backlog go with the listening socket.    *)
LEMMA StopDesk == ASSUME DeskInv, Stop PROVE DeskInv'
<1>1. \A c \in Clients : stage'[c] = IF stage[c] = "backlog" THEN "closed" ELSE stage[c]
  BY DEF Stop
<1>2. stage' \in [Clients -> Handshake \cup {"home", "backlog", "served", "over", "left", "closed"}]
  BY DEF Stop, DeskInv, DoorTypeOK
<1>3. DoorTypeOK'
  BY <1>1, <1>2 DEF Stop, DeskInv, DoorTypeOK, clientVars, ears
<1>4. Staffed'
  BY DEF Stop, Staffed
<1>5. Placed'
  BY <1>1 DEF Stop, DeskInv, Placed, Handshake
<1> QED
  BY <1>3, <1>4, <1>5 DEF DeskInv

LEMMA AccepterEndsDesk ==
    ASSUME DeskInv, NEW a \in Accepters, AccepterEnds(a) PROVE DeskInv'
<1>1. \A c \in Clients :
         stage'[c] = IF c = desk[a] /\ stage[c] \in Handshake THEN "left" ELSE stage[c]
  BY DEF AccepterEnds
<1>2. stage' \in [Clients -> Handshake \cup {"home", "backlog", "served", "over", "left", "closed"}]
  BY DEF AccepterEnds, DeskInv, DoorTypeOK
<1>3. DoorTypeOK'
  <2>1. waiting' \subseteq Accepters /\ ear' \in waiting' \cup {Nobody}
    BY EarsKeep DEF AccepterEnds
  <2> QED
    BY <1>1, <1>2, <2>1 DEF AccepterEnds, DeskInv, DoorTypeOK, clientVars, Handshake
<1>4. Staffed'
  BY <1>1 DEF AccepterEnds, DeskInv, Staffed, DoorTypeOK
<1>5. Placed'
  <2>1. \A i \in 1 .. Len(backlog) : backlog[i] \in Clients /\ stage'[backlog[i]] = "backlog"
    BY <1>1 DEF DeskInv, Placed, Handshake
  <2> QED
    BY <1>1, <2>1 DEF AccepterEnds, DeskInv, Placed, Handshake
<1> QED
  BY <1>3, <1>4, <1>5 DEF DeskInv

LEMMA AccepterDesk ==
    ASSUME DeskInv, NEW a \in Accepters, Accepter(a) PROVE DeskInv'
<1> USE DEF clientVars, serverVars, wireVars
<1>0. CASE Listen(a)
  BY <1>0, ListenDesk
<1>1. CASE Accept(a)
  BY <1>1, AcceptDesk
<1>2. CASE AccepterEnds(a)
  BY <1>2, AccepterEndsDesk
<1>3. ASSUME NEW c \in Clients, ReadKey(a, c) PROVE DeskInv'
  <2>1. /\ Running(a) /\ desk[a] = c /\ stage[c] = "key"
        /\ UNCHANGED <<serverVars, clientVars>>
    BY <1>3 DEF ReadKey, At
  <2>2. stage' = stage \/ Goto(c, "password")
    BY <1>3 DEF ReadKey
  <2>3. /\ stage'[c] \in {"key", "password"} /\ DOMAIN stage' = Clients
        /\ \A d \in Clients : d # c => stage'[d] = stage[d]
        /\ stage' \in [Clients -> {stage'[d] : d \in Clients}]
    BY <2>1, <2>2 DEF Goto, DeskInv, DoorTypeOK
  <2> QED
    BY <2>1, <2>3, AtDeskKeeps DEF Handshake
<1>4. ASSUME NEW c \in Clients, ReadFrame(a, c) PROVE DeskInv'
  <2>1. DoorTypeOK
    BY DEF DeskInv
  <2>2. /\ UNCHANGED <<server, tasks, doomed, crew, desk, ears, backlog, clientVars>>
        /\ Running(a) /\ desk[a] = c /\ stage[c] \in {"password", "login"}
        /\ stage' \in [Clients -> {stage[d] : d \in Clients} \cup Handshake \cup {"left", "closed"}]
        /\ stage'[c] \in Handshake \cup {"left", "closed"}
        /\ \A d \in Clients : d # c => stage'[d] = stage[d]
        /\ sessions' \subseteq sessions \cup {c}
    BY <1>4, <2>1, ReadFrameStage
  <2>3. DOMAIN stage' = Clients /\ stage' \in [Clients -> {stage'[d] : d \in Clients}]
    BY <2>2
  <2>4. stage[c] \in Handshake /\ stage'[c] # "served"
    BY <2>2 DEF Handshake
  <2> QED
    BY <2>2, <2>3, <2>4, AtDeskKeeps
<1>5. ASSUME NEW c \in Clients, Welcome(a, c) \/ Abandon(a, c) PROVE DeskInv'
  <2>1. /\ Running(a) /\ desk[a] = c /\ stage[c] \in Handshake
        /\ UNCHANGED <<server, doomed, crew, desk, ears, backlog, step>>
    BY <1>5 DEF Welcome, Abandon, At, Handshake
  <2>2. /\ tasks \subseteq tasks' /\ tasks' \subseteq tasks \cup {c}
        /\ sessions' \subseteq sessions \cup {c}
    BY <1>5 DEF Welcome, Abandon
  <2>3. \/ Goto(c, "served") /\ c \in tasks'
        \/ Goto(c, "closed") \/ Goto(c, "left")
    BY <1>5 DEF Welcome, Abandon
  <2>4. /\ stage'[c] \in {"left", "closed", "served"} /\ DOMAIN stage' = Clients
        /\ \A d \in Clients : d # c => stage'[d] = stage[d]
        /\ stage' \in [Clients -> {stage'[d] : d \in Clients}]
        /\ stage'[c] = "served" => c \in tasks'
    BY <2>3 DEF Goto, DeskInv, DoorTypeOK
  <2> QED
    BY <2>1, <2>2, <2>4, AtDeskKeeps
<1> QED
  BY <1>0, <1>1, <1>2, <1>3, <1>4, <1>5 DEF Accepter

LEMMA HandlerDesk ==
    ASSUME DeskInv, NEW c \in Clients, Handler(c) PROVE DeskInv'
<1>1. UNCHANGED serverVars /\ UNCHANGED step /\ stage[c] = "served"
  BY DEF Handler, HandleBuffered, HandleRecv, HandlerLost, HandlerEnds, Serves, HandleFrame,
         clientVars
<1>2. ASSUME NEW b, HandleFrame(c, Extract(b))
      PROVE  stage' = stage \/ stage' = [stage EXCEPT ![c] = "over"]
  BY <1>2, ExtractIs DEF HandleFrame, Goto
<1>3. stage' = stage \/ stage' = [stage EXCEPT ![c] = "over"]
  BY <1>2 DEF Handler, HandleBuffered, HandleRecv, HandlerLost, HandlerEnds, Goto
<1>4. step' \in [Clients -> 0 .. LastPacket + 1]
  BY <1>1 DEF DeskInv, DoorTypeOK
<1> QED
  BY <1>1, <1>3, <1>4, AtHandlerKeeps

LEMMA ClientDesk ==
    ASSUME DeskInv, NEW c \in Clients, Client(c) PROVE DeskInv'
<1>1. CASE Connect(c)
  BY <1>1, ConnectDesk
<1>2. CASE Leave(c)
  <2>1. UNCHANGED <<serverVars, stage, step>>
    BY <1>2 DEF Leave
  <2> QED
    BY <2>1, AtHandlerKeeps DEF DeskInv, DoorTypeOK
<1>3. ASSUME NEW q \in Qualities(step[c]), Send(c, q) PROVE DeskInv'
  <2>1. UNCHANGED <<serverVars, stage>> /\ step' = [step EXCEPT ![c] = step[c] + 1]
    BY <1>3 DEF Send
  <2>2. step[c] <= LastPacket
    BY <1>3, DoorConstants DEF Send, MaySend, DeskInv, DoorTypeOK
  <2>3. step' \in [Clients -> 0 .. LastPacket + 1]
    BY <2>1, <2>2, DoorConstants DEF DeskInv, DoorTypeOK
  <2> QED
    BY <2>1, <2>3, AtHandlerKeeps
<1> QED
  BY <1>1, <1>2, <1>3 DEF Client

LEMMA DeskInvInit == DoorInit => DeskInv
  BY FrontDoorAssumption, DoorConstants
  DEF DoorInit, DeskInv, DoorTypeOK, Staffed, Placed, Handshake

LEMMA DeskInvStep == DeskInv /\ [DoorNext]_doorVars => DeskInv'
<1> SUFFICES ASSUME DeskInv, [DoorNext]_doorVars PROVE DeskInv'
  OBVIOUS
<1>1. CASE UNCHANGED doorVars
  <2>1. UNCHANGED <<server, tasks, doomed, crew, desk, waiting, ear, backlog, sessions, stage, step>>
    BY <1>1 DEF doorVars, serverVars, ears, clientVars
  <2> QED
    BY <2>1 DEF DeskInv, DoorTypeOK, Staffed, Placed
<1> QED
  BY <1>1, StartDesk, StopDesk, AccepterDesk, HandlerDesk, ClientDesk DEF DoorNext

LEMMA DeskInvAlways == DoorSpec => []DeskInv
  BY DeskInvInit, DeskInvStep, PTL DEF DoorSpec

(* Types, and stop() knows of every task there is (server.py:216-221,      *)
(* 442-448).                                                               *)
THEOREM StopKnowsAll == DoorSpec => []DoorTypeOK
<1>1. DeskInv => DoorTypeOK
  BY DEF DeskInv
<1> QED
  BY <1>1, DeskInvAlways, PTL

(* The front door is never deaf: of any number of accepters, and however   *)
(* they have displaced each other at the listening socket, one has the     *)
(* loop's reader or does not wait, whatever fails in its handshake         *)
(* (server.py:279-281, 450).  That an accepter waits is no reason to think *)
(* that it is heard, so the argument follows the last that came to wait.   *)
THEOREM NeverDeaf == DoorSpec => []SomebodyListens
<1>1. DoorInit => SomebodyListens
  BY DEF DoorInit, SomebodyListens
<1>2. ASSUME DeskInv, SomebodyListens, [DoorNext]_doorVars
      PROVE  SomebodyListens'
  <2>1. CASE UNCHANGED <<server, crew, ears>>
    BY <1>2, <2>1 DEF SomebodyListens, ears
  <2>2. CASE Start
    BY <1>2, <2>2 DEF SomebodyListens, Start, ears, DeskInv, Staffed, DoorTypeOK
  <2>3. CASE Stop
    BY <2>3 DEF SomebodyListens, Stop
  <2>4. ASSUME NEW a \in Accepters, Accepter(a) PROVE SomebodyListens'
    <3>1. CASE Listen(a)
      <4>1. a \in crew' /\ ear' = a
        BY <3>1 DEF Listen, Running
      <4> QED
        BY <4>1 DEF SomebodyListens
    <3>2. CASE Accept(a)
      <4>1. a \in crew' /\ a \notin waiting'
        BY <3>2 DEF Accept, Running, StopsWaiting
      <4> QED
        BY <4>1 DEF SomebodyListens
    <3>3. CASE AccepterEnds(a)
      BY <1>2, <3>3 DEF SomebodyListens, AccepterEnds, DeskInv, Staffed
    <3>4. ASSUME NEW c \in Clients, ReadKey(a, c) \/ ReadFrame(a, c) \/ Welcome(a, c) \/ Abandon(a, c)
          PROVE  UNCHANGED <<server, crew, ears>>
      BY <3>4 DEF ReadKey, ReadFrame, Welcome, Abandon, serverVars
    <3> QED
      BY <2>1, <2>4, <3>1, <3>2, <3>3, <3>4 DEF Accepter
  <2>5. ASSUME NEW c \in Clients, Handler(c) \/ Client(c)
        PROVE  UNCHANGED <<server, crew, ears>>
    BY <2>5
    DEF Handler, HandleBuffered, HandleRecv, HandlerLost, HandlerEnds, HandleFrame,
        Client, Connect, Leave, Send, serverVars
  <2>6. CASE UNCHANGED doorVars
    BY <2>1, <2>6 DEF doorVars, serverVars
  <2> QED
    BY <1>2, <2>1, <2>2, <2>3, <2>4, <2>5, <2>6 DEF DoorNext
<1> QED
  BY <1>1, <1>2, DeskInvAlways, PTL DEF DoorSpec

(* Nothing is handled after stop(), no session appears, and the server     *)
(* stays stopped, while any number of tasks have yet to end                *)
(* (server.py:263-275).                                                    *)
THEOREM StopIsFinal == DoorSpec => StopFinal
<1>1. ASSUME DeskInv, DoorNext, server = "stopped"
      PROVE  sessions' = {} /\ UNCHANGED <<taken, heard, server>>
  <2>1. sessions = {} /\ tasks \subseteq doomed
    BY <1>1 DEF DeskInv, Staffed
  <2>2. \A a \in Accepters : ~Running(a)
    BY <1>1, <2>1 DEF DeskInv, DoorTypeOK, Running
  <2>3. \A c \in Clients : ~Serves(c)
    BY <1>1, <2>1 DEF DeskInv, DoorTypeOK, Serves
  <2>4. ASSUME NEW a \in Accepters, Accepter(a)
        PROVE  UNCHANGED <<sessions, taken, heard, server>>
    BY <2>2, <2>4
    DEF Accepter, Listen, Accept, AccepterEnds, ReadKey, ReadFrame, Welcome, Abandon, At, wireVars
  <2>5. ASSUME NEW c \in Clients, Handler(c)
        PROVE  UNCHANGED <<sessions, taken, heard, server>>
    BY <2>3, <2>5
    DEF Handler, HandleBuffered, HandleRecv, HandlerLost, HandlerEnds, serverVars, wireVars
  <2>6. \A c \in Clients : ~Client(c)
    BY <1>1 DEF Client, Connect, Leave, Send
  <2> QED
    BY <1>1, <2>1, <2>4, <2>5, <2>6 DEF DoorNext, Start, Stop
<1>2. DeskInv /\ [DoorNext]_doorVars
      => [server = "stopped" => sessions' = {} /\ UNCHANGED <<taken, heard, server>>]_doorVars
  BY <1>1
<1> QED
  BY <1>2, DeskInvAlways, PTL DEF DoorSpec, StopFinal

-----------------------------------------------------------------------------
(* The byte streams.  What a client has sent and the server's readers have *)
(* not returned, buffered or not, is its next packets, whole, one after    *)
(* the other: a key has its size, frames have theirs.                      *)

Quality == {"right", "wrong", "foreign", "forged"}

Cell == Nat \X Nat \X Quality

WireTypeOK ==
    /\ stream \in [Clients -> Seq(Cell)]
    /\ buf \in [Clients -> Seq(Cell)]
    /\ heard \in [Clients -> Nat]
    /\ taken \in [Clients -> Seq(Nat)]
    /\ open \in [Clients -> BOOLEAN]
    /\ good \in [Clients -> BOOLEAN]

(* p holds the frames m to n - 1; g: all of them right.                    *)
Framed(p, m, n, g) ==
    /\ Len(p) = 3 * (n - m)
    /\ m <= n
    /\ \A x \in 0 .. n - m - 1, i \in 1 .. 3 :
         LET y == p[3 * x + i]
         IN  y[1] = m + x /\ y[2] = i /\ (g => y[3] = "right")

(* p holds the key, if n packets were sent and n > 0.                      *)
Keyed(p, n) == n <= 1 /\ Len(p) = 2 * n /\ \A i \in 1 .. Len(p) : p[i][1] = 0

Pending(c) == buf[c] \o stream[c]

Read(c) == Len(taken[c])

(* How many packets have been read where, and how many answered.  In the   *)
(* handshake the client is at most one packet ahead, which is why its      *)
(* readers may throw away what is left in their buffers.                   *)
InStep(c) ==
    /\ stage[c] \in {"home", "backlog", "key"} => Read(c) = 0
    /\ stage[c] = "home" => step[c] = 0
    /\ stage[c] = "password" => Read(c) = 1
    /\ stage[c] = "login" => Read(c) = 2
    /\ stage[c] \in {"entered", "unentered", "served"} => Read(c) >= 3
    /\ heard[c] = IF Read(c) < 3 THEN Read(c) ELSE 3
    /\ step[c] <= heard[c] + 1 \/ heard[c] = 3

Live == Handshake \cup {"home", "backlog", "served"}

InOrder(c) == \A i \in 1 .. Len(taken[c]) : taken[c][i] = i - 1

Whole(c) ==
    stage[c] \in Live =>
        /\ InStep(c)
        /\ IF Read(c) = 0 THEN Keyed(Pending(c), step[c])
           ELSE Framed(Pending(c), Read(c), step[c], good[c])

Welcomed(c) ==
    good[c] /\ open[c] /\ server = "up" => stage[c] \notin {"left", "closed", "over"}

ClientOK(c) == InOrder(c) /\ Whole(c) /\ Welcomed(c)

WireInv == WireTypeOK /\ \A c \in Clients : ClientOK(c)

(* Bytes move from the stream to the buffer, and what is pending with      *)
(* them.                                                                   *)
LEMMA Cut ==
    ASSUME NEW T, NEW s \in Seq(T), NEW b0 \in Seq(T), NEW k \in 1 .. Len(s)
    PROVE  /\ b0 \o SubSeq(s, 1, k) \in Seq(T)
           /\ SubSeq(s, k + 1, Len(s)) \in Seq(T)
           /\ Len(b0 \o SubSeq(s, 1, k)) = Len(b0) + k
           /\ (b0 \o SubSeq(s, 1, k)) \o SubSeq(s, k + 1, Len(s)) = b0 \o s
<1>1. SubSeq(s, 1, k) \in Seq(T) /\ Len(SubSeq(s, 1, k)) = k
  BY ElementOfSeq, SubSeqProperties
<1>2. b0 \o SubSeq(s, 1, k) \in Seq(T) /\ Len(b0 \o SubSeq(s, 1, k)) = Len(b0) + k
  BY <1>1, ConcatProperties
<1>3. SubSeq(s, k + 1, Len(s)) \in Seq(T)
  BY ElementOfSeq, SubSeqProperties
<1>4. SubSeq(s, 1, k) \o SubSeq(s, k + 1, Len(s)) = s
  BY ConcatAdjacentSubSeq, SubSeqFull
<1>5. (b0 \o SubSeq(s, 1, k)) \o SubSeq(s, k + 1, Len(s))
      = b0 \o (SubSeq(s, 1, k) \o SubSeq(s, k + 1, Len(s)))
  <2>1. ASSUME NEW h \in Seq(T), NEW r \in Seq(T) PROVE (b0 \o h) \o r = b0 \o (h \o r)
    OBVIOUS
  <2> QED
    BY <1>1, <1>3, <2>1, Zenon
<1> QED
  BY <1>2, <1>3, <1>4, <1>5

(* The next frame is sent.                                                 *)
LEMMA FramedSent ==
    ASSUME NEW p \in Seq(Cell), NEW m \in Nat, NEW n \in Nat, NEW g \in BOOLEAN,
           n # 0, NEW q \in Quality, Framed(p, m, n, g)
    PROVE  Framed(p \o Cells(n, q), m, n + 1, g /\ q = "right")
<1> DEFINE f == Cells(n, q)
<1>1. f \in Seq(Cell) /\ Len(f) = 3 /\ \A i \in 1 .. 3 : f[i] = <<n, i, q>>
  BY DEF Cells, Key, FrameSize, HeaderSize, Cell
<1> HIDE DEF f
<1>2. /\ Len(p) \in Nat /\ Len(p) = 3 * (n - m) /\ m <= n
      /\ Len(p \o f) = Len(p) + 3
      /\ \A i \in 1 .. Len(p) + 3 : (p \o f)[i] = IF i <= Len(p) THEN p[i] ELSE f[i - Len(p)]
  <2>1. /\ Len(p \o f) = Len(p) + Len(f)
        /\ \A i \in 1 .. Len(p) + Len(f) :
               (p \o f)[i] = IF i <= Len(p) THEN p[i] ELSE f[i - Len(p)]
    BY <1>1, ConcatProperties, Zenon
  <2>2. Len(f) = 3
    BY <1>1
  <2>3. Len(p) \in Nat /\ Len(p) = 3 * (n - m) /\ m <= n
    BY DEF Framed
  <2> QED
    BY <2>1, <2>2, <2>3
<1>3. ASSUME NEW x \in 0 .. n - m, NEW i \in 1 .. 3
      PROVE  LET y == (p \o f)[3 * x + i]
             IN  y[1] = m + x /\ y[2] = i /\ (g /\ q = "right" => y[3] = "right")
  <2>1. CASE x < n - m
    <3>1. 3 * x + i \in 1 .. Len(p) /\ x \in 0 .. n - m - 1
      BY <1>2, <2>1
    <3>2. (p \o f)[3 * x + i] = p[3 * x + i]
      BY <1>2, <3>1
    <3>3. LET y == p[3 * x + i]
          IN  y[1] = m + x /\ y[2] = i /\ (g => y[3] = "right")
      BY <3>1 DEF Framed
    <3> QED
      BY <3>2, <3>3
  <2>2. CASE x = n - m
    <3>1. 3 * x + i = Len(p) + i /\ 3 * x + i \in 1 .. Len(p) + 3
      BY <1>2, <2>2
    <3>2. (p \o f)[3 * x + i] = f[i]
      BY <1>2, <3>1
    <3> QED
      BY <1>1, <2>2, <3>2
  <2>3. x < n - m \/ x = n - m
    OBVIOUS
  <2> QED
    BY <2>1, <2>2, <2>3
<1>4. Len(p \o f) = 3 * (n + 1 - m) /\ m <= n + 1
  BY <1>2
<1>5. n + 1 - m - 1 = n - m
  OBVIOUS
<1>6. Framed(p \o f, m, n + 1, g /\ q = "right")
  BY <1>3, <1>4, <1>5 DEF Framed
<1> QED
  BY <1>6 DEF f

(* A sequence without its first three elements.                            *)
LEMMA WithoutThree ==
    ASSUME NEW p \in Seq(Cell), Len(p) >= 3
    PROVE  /\ SubSeq(p, 4, Len(p)) \in Seq(Cell)
           /\ Len(SubSeq(p, 4, Len(p))) = Len(p) - 3
           /\ \A i \in 1 .. Len(p) - 3 : SubSeq(p, 4, Len(p))[i] = p[i + 3]
<1>1. \A i \in 4 .. Len(p) : p[i] \in Cell
  BY ElementOfSeq
<1>2. 4 \in Int /\ Len(p) \in Int /\ Len(p) - 4 + 1 = Len(p) - 3
  OBVIOUS
<1>3. /\ SubSeq(p, 4, Len(p)) \in Seq(Cell)
      /\ Len(SubSeq(p, 4, Len(p))) = IF 4 <= Len(p) THEN Len(p) - 4 + 1 ELSE 0
      /\ \A i \in 1 .. Len(p) - 4 + 1 : SubSeq(p, 4, Len(p))[i] = p[4 + i - 1]
  BY <1>1, <1>2, SubSeqProperties
<1>4. \A i \in 1 .. Len(p) - 3 : 4 + i - 1 = i + 3
  OBVIOUS
<1> QED
  BY <1>2, <1>3, <1>4

(* The first frame, and what remains when it is taken off.                 *)
LEMMA FramedRest ==
    ASSUME NEW p \in Seq(Cell), NEW m \in Nat, NEW n \in Nat, NEW g \in BOOLEAN,
           Framed(p, m, n, g), Len(p) > 0
    PROVE  /\ m < n /\ Len(p) >= 3
           /\ p[1][1] = m /\ p[1][2] = 1 /\ (g => p[1][3] = "right")
           /\ Framed(SubSeq(p, 4, Len(p)), m + 1, n, g)
<1>1. m < n /\ Len(p) >= 3 /\ Len(p) = 3 * (n - m) /\ Len(p) \in Nat
  BY DEF Framed
<1>2. 0 \in 0 .. n - m - 1 /\ 3 * 0 + 1 = 1 /\ 1 \in 1 .. 3 /\ m + 0 = m
  BY <1>1
<1>3. p[1][1] = m /\ p[1][2] = 1 /\ (g => p[1][3] = "right")
  BY <1>2 DEF Framed
<1> DEFINE r == SubSeq(p, 4, Len(p))
<1>4. Len(r) = Len(p) - 3 /\ \A i \in 1 .. Len(p) - 3 : r[i] = p[i + 3]
  BY <1>1, WithoutThree
<1>5. ASSUME NEW x \in 0 .. n - (m + 1) - 1, NEW i \in 1 .. 3
      PROVE  r[3 * x + i] = p[3 * (x + 1) + i] /\ x + 1 \in 0 .. n - m - 1
  <2>1. 3 * x + i \in 1 .. Len(p) - 3 /\ 3 * x + i + 3 = 3 * (x + 1) + i
    BY <1>1
  <2> QED
    BY <1>4, <2>1
<1>6. Framed(r, m + 1, n, g)
  <2>1. Len(r) = 3 * (n - (m + 1)) /\ m + 1 <= n
    BY <1>1, <1>4
  <2>2. ASSUME NEW x \in 0 .. n - (m + 1) - 1, NEW i \in 1 .. 3
        PROVE  LET y == r[3 * x + i]
               IN  y[1] = m + 1 + x /\ y[2] = i /\ (g => y[3] = "right")
    <3>1. m + (x + 1) = m + 1 + x
      OBVIOUS
    <3>2. LET y == p[3 * (x + 1) + i]
          IN  y[1] = m + (x + 1) /\ y[2] = i /\ (g => y[3] = "right")
      BY <1>5 DEF Framed
    <3>3. r[3 * x + i] = p[3 * (x + 1) + i]
      BY <1>5
    <3> HIDE DEF r
    <3> QED
      BY <3>1, <3>2, <3>3
  <2> QED
    BY <2>1, <2>2 DEF Framed
<1> QED
  BY <1>1, <1>3, <1>6

(* The same, of a buffer and the stream behind it.                         *)
LEMMA RestOfBoth ==
    ASSUME NEW b \in Seq(Cell), NEW r \in Seq(Cell), Len(b) >= 3
    PROVE  /\ SubSeq(b, 4, Len(b)) \in Seq(Cell)
           /\ SubSeq(b, 4, Len(b)) \o r = SubSeq(b \o r, 4, Len(b \o r))
<1> DEFINE x == SubSeq(b, 4, Len(b))
           y == SubSeq(b \o r, 4, Len(b \o r))
<1>1. x \in Seq(Cell) /\ Len(x) = Len(b) - 3 /\ \A i \in 1 .. Len(b) - 3 : x[i] = b[i + 3]
  BY WithoutThree
<1>2. /\ b \o r \in Seq(Cell) /\ Len(b \o r) = Len(b) + Len(r)
      /\ \A i \in 1 .. Len(b) + Len(r) : (b \o r)[i] = IF i <= Len(b) THEN b[i] ELSE r[i - Len(b)]
  BY ConcatProperties
<1>3. /\ y \in Seq(Cell) /\ Len(y) = Len(b) + Len(r) - 3
      /\ \A i \in 1 .. Len(b) + Len(r) - 3 : y[i] = (b \o r)[i + 3]
  <2>1. Len(b \o r) >= 3 /\ Len(b \o r) = Len(b) + Len(r)
    BY <1>2
  <2>2. /\ y \in Seq(Cell) /\ Len(y) = Len(b \o r) - 3
        /\ \A i \in 1 .. Len(b \o r) - 3 : y[i] = (b \o r)[i + 3]
    BY <1>2, <2>1, WithoutThree
  <2> HIDE DEF y
  <2> QED
    BY <2>1, <2>2
<1> HIDE DEF x, y
<1>4. /\ x \o r \in Seq(Cell) /\ Len(x \o r) = Len(x) + Len(r)
      /\ \A i \in 1 .. Len(x) + Len(r) : (x \o r)[i] = IF i <= Len(x) THEN x[i] ELSE r[i - Len(x)]
  BY <1>1, ConcatProperties
<1>5. Len(x \o r) = Len(y)
  BY <1>1, <1>3, <1>4
<1>6. ASSUME NEW i \in 1 .. Len(x \o r) PROVE (x \o r)[i] = y[i]
  <2>1. i \in 1 .. Len(b) + Len(r) - 3 /\ i + 3 \in 1 .. Len(b) + Len(r)
    BY <1>1, <1>4
  <2>2. CASE i <= Len(b) - 3
    BY <1>1, <1>2, <1>3, <1>4, <2>1, <2>2
  <2>3. CASE i > Len(b) - 3
    <3>1. (x \o r)[i] = r[i - (Len(b) - 3)]
      BY <1>1, <1>4, <2>1, <2>3
    <3>2. y[i] = r[i + 3 - Len(b)]
      BY <1>2, <1>3, <2>1, <2>3
    <3>3. i - (Len(b) - 3) = i + 3 - Len(b)
      OBVIOUS
    <3> QED
      BY <3>1, <3>2, <3>3
  <2> QED
    BY <2>2, <2>3
<1>7. x \o r = y
  BY <1>3, <1>4, <1>5, <1>6, SeqEqual
<1> QED
  BY <1>1, <1>7 DEF x, y

(* A step that does not concern the client d.                              *)
SameData(d) ==
    /\ open'[d] = open[d] /\ stream'[d] = stream[d] /\ buf'[d] = buf[d]
    /\ step'[d] = step[d] /\ heard'[d] = heard[d] /\ good'[d] = good[d]
    /\ taken'[d] = taken[d]

LEMMA ApartKeeps ==
    ASSUME NEW d \in Clients, ClientOK(d), SameData(d), stage'[d] = stage[d],
           server' = server \/ server' = "stopped"
    PROVE  ClientOK(d)'
  BY DEF ClientOK, SameData, InOrder, Whole, Welcomed, InStep, Pending, Read

(* The server is done with the connection of d.                            *)
LEMMA DroppedKeeps ==
    ASSUME NEW d \in Clients, ClientOK(d), SameData(d),
           stage'[d] \in {"left", "closed", "over"},
           ~(good[d] /\ open[d] /\ server' = "up")
    PROVE  ClientOK(d)'
  BY DEF ClientOK, SameData, InOrder, Whole, Welcomed, Live, Handshake

(* recv: what is pending stays the same, with some of it in the buffer.    *)
LEMMA RecvMoves ==
    ASSUME WireInv, NEW c \in Clients, NEW max \in Int, NEW b \in Received(c, max),
           Consume(c, b)
    PROVE  /\ b \in Seq(Cell) /\ stream'[c] \in Seq(Cell)
           /\ stream' \in [Clients -> Seq(Cell)]
           /\ \A d \in Clients : d # c => stream'[d] = stream[d]
           /\ Len(b) >= 1 /\ Len(b) <= Len(buf[c]) + max
           /\ b \o stream'[c] = Pending(c)
<1>0. stream[c] \in Seq(Cell) /\ buf[c] \in Seq(Cell) /\ stream \in [Clients -> Seq(Cell)]
  BY DEF WireInv, WireTypeOK
<1>1. PICK k \in 1 .. Len(stream[c]) : k <= max /\ b = buf[c] \o SubSeq(stream[c], 1, k)
  BY DEF Received
<1>2. /\ b \in Seq(Cell)
      /\ SubSeq(stream[c], k + 1, Len(stream[c])) \in Seq(Cell)
      /\ Len(b) = Len(buf[c]) + k
      /\ b \o SubSeq(stream[c], k + 1, Len(stream[c])) = Pending(c)
  <2>1. k \in 1 .. Len(stream[c])
    OBVIOUS
  <2>2. /\ buf[c] \o SubSeq(stream[c], 1, k) \in Seq(Cell)
        /\ SubSeq(stream[c], k + 1, Len(stream[c])) \in Seq(Cell)
        /\ Len(buf[c] \o SubSeq(stream[c], 1, k)) = Len(buf[c]) + k
        /\ (buf[c] \o SubSeq(stream[c], 1, k)) \o SubSeq(stream[c], k + 1, Len(stream[c]))
           = buf[c] \o stream[c]
    BY <1>0, <2>1, Cut, Zenon
  <2> QED
    BY <1>1, <2>2, Zenon DEF Pending
<1>3. stream' = [stream EXCEPT ![c] = SubSeq(stream[c], k + 1, Len(stream[c]))]
  <2>1. Len(b) - Len(buf[c]) = k
    BY <1>0, <1>2
  <2> QED
    BY <2>1 DEF Consume
<1>4. stream'[c] = SubSeq(stream[c], k + 1, Len(stream[c]))
  BY <1>0, <1>3
<1>5. stream' \in [Clients -> Seq(Cell)] /\ \A d \in Clients : d # c => stream'[d] = stream[d]
  BY <1>0, <1>2, <1>3
<1>6. Len(b) >= 1 /\ Len(b) <= Len(buf[c]) + max
  BY <1>0, <1>1, <1>2
<1> QED
  BY <1>2, <1>4, <1>5, <1>6

(* The buffer shows the beginning of what is pending.                      *)
LEMMA Beginning ==
    ASSUME NEW b \in Seq(Cell), NEW r \in Seq(Cell), Len(b) >= 1
    PROVE  b \o r \in Seq(Cell) /\ Len(b \o r) = Len(b) + Len(r) /\ (b \o r)[1] = b[1]
<1>1. 1 \in 1 .. Len(b) + Len(r) /\ 1 <= Len(b)
  OBVIOUS
<1>2. /\ b \o r \in Seq(Cell) /\ Len(b \o r) = Len(b) + Len(r)
      /\ \A i \in 1 .. Len(b) + Len(r) : (b \o r)[i] = IF i <= Len(b) THEN b[i] ELSE r[i - Len(b)]
  BY ConcatProperties, Zenon
<1> QED
  BY <1>1, <1>2

(* The first packet, as its reader sees it: the key, or a frame.           *)
LEMMA FirstKey ==
    ASSUME NEW b \in Seq(Cell), NEW r \in Seq(Cell), Len(b) = KeySize, NEW n \in Nat,
           Keyed(b \o r, n)
    PROVE  n = 1 /\ Len(r) = 0 /\ b[1][1] = 0
<1>1. Len(b \o r) = Len(b) + Len(r) /\ (b \o r)[1] = b[1] /\ Len(b) = 2 /\ Len(r) \in Nat
  <2>1. Len(b) = 2 /\ Len(b) >= 1 /\ Len(r) \in Nat
    BY DEF KeySize
  <2> QED
    BY <2>1, Beginning, Zenon
<1>2. n <= 1 /\ Len(b \o r) = 2 * n /\ \A i \in 1 .. Len(b \o r) : (b \o r)[i][1] = 0
  BY DEF Keyed
<1>3. n = 1 /\ Len(r) = 0 /\ 1 \in 1 .. Len(b \o r)
  BY <1>1, <1>2
<1> QED
  BY <1>1, <1>2, <1>3

LEMMA FirstFrame ==
    ASSUME NEW b \in Seq(Cell), NEW r \in Seq(Cell), Len(b) >= 1,
           NEW m \in Nat, NEW n \in Nat, NEW g \in BOOLEAN, Framed(b \o r, m, n, g)
    PROVE  /\ b[1][1] = m /\ b[1][2] = 1 /\ (g => b[1][3] = "right")
           /\ Len(b) + Len(r) = 3 * (n - m) /\ m < n
           /\ Len(b) >= 3 => Framed(SubSeq(b, 4, Len(b)) \o r, m + 1, n, g)
<1>1. b \o r \in Seq(Cell) /\ Len(b \o r) = Len(b) + Len(r) /\ (b \o r)[1] = b[1]
  BY Beginning
<1>2. Len(b \o r) > 0 /\ Len(b \o r) = 3 * (n - m)
  <2>1. Len(b) + Len(r) > 0
    OBVIOUS
  <2> QED
    BY <1>1, <2>1, Zenon DEF Framed
<1>3. /\ m < n /\ (b \o r)[1][1] = m /\ (b \o r)[1][2] = 1 /\ (g => (b \o r)[1][3] = "right")
      /\ Framed(SubSeq(b \o r, 4, Len(b \o r)), m + 1, n, g)
  <2>1. b \o r \in Seq(Cell) /\ Len(b \o r) > 0
    BY <1>1, <1>2
  <2>2. ASSUME NEW x \in Seq(Cell), Framed(x, m, n, g), Len(x) > 0
        PROVE  /\ m < n /\ x[1][1] = m /\ x[1][2] = 1 /\ (g => x[1][3] = "right")
               /\ Framed(SubSeq(x, 4, Len(x)), m + 1, n, g)
    BY <2>2, FramedRest
  <2> QED
    BY <2>1, <2>2, Zenon
<1>4. Len(b) >= 3 => SubSeq(b, 4, Len(b)) \o r = SubSeq(b \o r, 4, Len(b \o r))
  BY RestOfBoth, Zenon
<1>5. Len(b) >= 3 => Framed(SubSeq(b, 4, Len(b)) \o r, m + 1, n, g)
  BY <1>3, <1>4, Zenon
<1> QED
  BY <1>1, <1>2, <1>3, <1>5, Zenon

DoorInv == DeskInv /\ WireInv

(* Steps that only move connections: the streams stay as they are.         *)
LEMMA StageOnlyKeeps ==
    ASSUME DoorInv, UNCHANGED wireVars, UNCHANGED clientVars,
           server' = server \/ server' = "stopped",
           \A d \in Clients :
              \/ stage'[d] = stage[d]
              \/ /\ stage'[d] \in {"left", "closed", "over"}
                 /\ ~(good[d] /\ open[d] /\ server' = "up")
    PROVE  WireInv'
<1>1. WireTypeOK'
  BY DEF DoorInv, WireInv, WireTypeOK, wireVars, clientVars
<1>2. ASSUME NEW d \in Clients PROVE ClientOK(d)'
  <2>1. SameData(d) /\ ClientOK(d)
    BY DEF SameData, wireVars, clientVars, DoorInv, WireInv
  <2> QED
    BY <2>1, ApartKeeps, DroppedKeeps
<1> QED
  BY <1>1, <1>2 DEF WireInv

LEMMA LifeCycleWire ==
    ASSUME DoorInv, Start \/ Stop PROVE WireInv'
<1>1. CASE Start
  <2>1. /\ UNCHANGED <<stage, wireVars, clientVars>>
        /\ \A c \in Clients : stage[c] = "home"
    BY <1>1 DEF Start, DoorInv, DeskInv, Staffed
  <2>2. WireTypeOK'
    BY <2>1 DEF DoorInv, WireInv, WireTypeOK, wireVars, clientVars
  <2>3. ASSUME NEW d \in Clients PROVE ClientOK(d)'
    <3>1. ClientOK(d)
      BY DEF DoorInv, WireInv
    <3>2. SameData(d)
      BY <2>1 DEF SameData, wireVars, clientVars
    <3> QED
      BY <2>1, <3>1, <3>2
      DEF ClientOK, SameData, InOrder, Whole, Welcomed, InStep, Pending, Read
  <2> QED
    BY <2>2, <2>3 DEF WireInv
<1>2. CASE Stop
  <2>1. /\ UNCHANGED <<wireVars, clientVars>> /\ server' = "stopped"
        /\ \A c \in Clients : stage'[c] = IF stage[c] = "backlog" THEN "closed" ELSE stage[c]
    BY <1>2 DEF Stop
  <2> QED
    BY <2>1, StageOnlyKeeps
<1> QED
  BY <1>1, <1>2

(* A task is told to end by stop() alone, and then the server is not up.   *)
LEMMA EndsWire ==
    ASSUME DoorInv,
           \/ \E a \in Accepters : AccepterEnds(a)
           \/ \E c \in Clients : HandlerEnds(c)
    PROVE  WireInv'
<1>1. server # "up" /\ server' = server /\ UNCHANGED wireVars /\ UNCHANGED clientVars
  BY DEF AccepterEnds, HandlerEnds, DoorInv, DeskInv, Staffed, serverVars
<1>2. \A d \in Clients : stage'[d] = stage[d] \/ stage'[d] \in {"left", "over"}
  BY DEF AccepterEnds, HandlerEnds, DoorInv, DeskInv, DoorTypeOK
<1> QED
  BY <1>1, <1>2, StageOnlyKeeps

LEMMA LostWire ==
    ASSUME DoorInv, NEW c \in Clients,
           HandlerLost(c) \/ \E a \in Accepters : Abandon(a, c)
    PROVE  WireInv'
<1>1. ~open[c] /\ server' = server /\ UNCHANGED wireVars /\ UNCHANGED clientVars
  BY DEF HandlerLost, Abandon, serverVars
<1>2. Goto(c, "over") \/ Goto(c, "closed") \/ Goto(c, "left")
  BY DEF HandlerLost, Abandon
<1>3. /\ stage'[c] \in {"over", "closed", "left"}
      /\ \A d \in Clients : d # c => stage'[d] = stage[d]
  BY <1>2 DEF Goto, DoorInv, DeskInv, DoorTypeOK
<1> QED
  BY <1>1, <1>3, StageOnlyKeeps

LEMMA LeaveWire ==
    ASSUME DoorInv, NEW c \in Clients, Leave(c) PROVE WireInv'
<1>1. /\ open' = [open EXCEPT ![c] = FALSE] /\ server' = server
      /\ UNCHANGED <<stage, stream, buf, heard, taken, step, good>>
  BY DEF Leave, serverVars, wireVars
<1>2. WireTypeOK'
  BY <1>1 DEF DoorInv, WireInv, WireTypeOK
<1>3. ASSUME NEW d \in Clients PROVE ClientOK(d)'
  <2>1. ClientOK(d) /\ (open'[d] => open[d])
    BY <1>1 DEF DoorInv, WireInv, WireTypeOK
  <2> QED
    BY <1>1, <2>1 DEF ClientOK, InOrder, Whole, Welcomed, InStep, Pending, Read
<1> QED
  BY <1>2, <1>3 DEF WireInv

(* Before its first packet is read nothing depends on the client's place;  *)
(* after the last message of the handshake its handler takes over.         *)
LEMMA ArriveWire ==
    ASSUME DoorInv, NEW c \in Clients,
           UNCHANGED <<server, stream, buf, heard, taken, step, good>>,
           open' \in [Clients -> BOOLEAN], \A d \in Clients : d # c => open'[d] = open[d],
           \/ stage[c] = "home" /\ stage'[c] = "backlog"
           \/ stage[c] = "backlog" /\ stage'[c] = "key"
           \/ stage[c] \in {"entered", "unentered"} /\ stage'[c] = "served",
           \A d \in Clients : d # c => stage'[d] = stage[d]
    PROVE  WireInv'
<1>1. WireTypeOK'
  BY DEF DoorInv, WireInv, WireTypeOK
<1>2. ClientOK(c)'
  <2>1. ClientOK(c)
    BY DEF DoorInv, WireInv
  <2> QED
    BY <2>1
    DEF ClientOK, InOrder, Whole, Welcomed, InStep, Pending, Read, Live, Handshake
<1>3. ASSUME NEW d \in Clients, d # c PROVE ClientOK(d)'
  <2>1. ClientOK(d) /\ SameData(d)
    BY <1>3 DEF DoorInv, WireInv, SameData
  <2> QED
    BY <1>3, <2>1, ApartKeeps
<1> QED
  BY <1>1, <1>2, <1>3 DEF WireInv

(* The client sends its next packet: the key first and alone, then frames. *)
LEMMA SendWire ==
    ASSUME DoorInv, NEW c \in Clients, NEW q \in Qualities(step[c]), Send(c, q)
    PROVE  WireInv'
<1> DEFINE n == step[c]
<1>0. /\ WireTypeOK /\ ClientOK(c) /\ n \in Nat /\ stage[c] \in Live
      /\ q \in Quality /\ (n = 0 => q = "right")
  <2>1. n \in Nat
    BY DoorConstants DEF DoorInv, DeskInv, DoorTypeOK
  <2>2. q \in Quality /\ (n = 0 => q = "right")
    BY <2>1 DEF Qualities, Quality, Key, Password, Login
  <2> QED
    BY <2>1, <2>2 DEF DoorInv, WireInv, Send, Live
<1>1. /\ UNCHANGED <<server, stage, buf, heard, taken, open>>
      /\ stream' = [stream EXCEPT ![c] = stream[c] \o Cells(n, q)]
      /\ step' = [step EXCEPT ![c] = n + 1]
      /\ good' = [good EXCEPT ![c] = (q = "right")]
      /\ good[c] /\ open[c]
  BY DEF Send, serverVars
<1>2. Cells(n, q) \in Seq(Cell) /\ Len(Cells(n, q)) = IF n = 0 THEN 2 ELSE 3
  <2>1. CASE n = 0
    BY <1>0, <2>1 DEF Cells, Key, KeySize, Cell
  <2>2. CASE n # 0
    BY <1>0, <2>2 DEF Cells, Key, FrameSize, HeaderSize, Cell
  <2> QED
    BY <2>1, <2>2
<1>3. stream[c] \in Seq(Cell) /\ buf[c] \in Seq(Cell) /\ stream[c] \o Cells(n, q) \in Seq(Cell)
  BY <1>0, <1>2, ConcatProperties DEF WireTypeOK
<1>4. WireTypeOK'
  BY <1>0, <1>1, <1>3 DEF WireTypeOK
<1>5. Pending(c)' = Pending(c) \o Cells(n, q) /\ Pending(c) \in Seq(Cell)
  <2>1. ASSUME NEW x \in Seq(Cell), NEW y \in Seq(Cell), NEW z \in Seq(Cell)
        PROVE  (x \o y) \o z = x \o (y \o z) /\ x \o y \in Seq(Cell)
    OBVIOUS
  <2>2. stream'[c] = stream[c] \o Cells(n, q) /\ buf'[c] = buf[c]
    BY <1>0, <1>1 DEF WireTypeOK
  <2>3. /\ (buf[c] \o stream[c]) \o Cells(n, q) = buf[c] \o (stream[c] \o Cells(n, q))
        /\ buf[c] \o stream[c] \in Seq(Cell)
    BY <1>2, <1>3, <2>1, Zenon
  <2> QED
    BY <2>2, <2>3 DEF Pending
<1>6. /\ step'[c] = n + 1 /\ (good'[c] <=> q = "right") /\ Read(c)' = Read(c)
      /\ Read(c) \in Nat /\ stage'[c] = stage[c] /\ heard'[c] = heard[c] /\ heard[c] \in Nat
  <2>1. good'[c] = (q = "right")
    BY <1>0, <1>1 DEF WireTypeOK
  <2>2. step'[c] = n + 1
    BY <1>0, <1>1 DEF DoorInv, DeskInv, DoorTypeOK
  <2>3. Read(c)' = Read(c) /\ Read(c) \in Nat /\ heard[c] \in Nat
    BY <1>0, <1>1 DEF WireTypeOK, Read
  <2> QED
    BY <1>1, <2>1, <2>2, <2>3
<1>7. n <= heard[c] \/ heard[c] >= 3
  BY <1>0, <1>6, DoorConstants DEF Send, MaySend, Login
<1>8. InStep(c) /\ heard[c] = IF Read(c) < 3 THEN Read(c) ELSE 3
  BY <1>0 DEF ClientOK, Whole, InStep
<1>9. stage[c] # "home"
  BY DEF Send, Handshake
<1>10. InStep(c)'
  BY <1>0, <1>1, <1>6, <1>7, <1>8, <1>9 DEF InStep
<1>11. ASSUME Read(c) = 0 PROVE Whole(c)'
  <2>1. n = 0 /\ Keyed(Pending(c), 0)
    BY <1>0, <1>6, <1>7, <1>8, <1>11 DEF ClientOK, Whole
  <2>2. Cells(n, q) \in Seq(Cell) /\ Len(Cells(n, q)) = 2 /\ \A i \in 1 .. 2 : Cells(n, q)[i] = <<0, i, q>>
    BY <1>0, <2>1 DEF Cells, Key, KeySize, Cell
  <2>3. Len(Pending(c)) = 0
    BY <2>1 DEF Keyed
  <2>4. Pending(c)' = Cells(n, q)
    BY <1>2, <1>5, <2>3, ConcatEmptySeq, EmptySeq
  <2>5. Keyed(Cells(n, q), 1)
    BY <2>2 DEF Keyed
  <2>6. Keyed(Pending(c)', step'[c])
    BY <1>6, <2>1, <2>4, <2>5
  <2> QED
    BY <1>6, <1>11, <1>10, <2>6 DEF Whole
<1>12. ASSUME Read(c) # 0 PROVE Whole(c)'
  <2>0. Framed(Pending(c), Read(c), n, good[c])
    BY <1>0, <1>12 DEF ClientOK, Whole
  <2>1. n # 0 /\ good[c] \in BOOLEAN
    BY <1>0, <1>6, <1>12, <2>0 DEF Framed, WireTypeOK
  <2>2. Framed(Pending(c) \o Cells(n, q), Read(c), n + 1, good[c] /\ q = "right")
    BY <1>0, <1>5, <1>6, <2>0, <2>1, FramedSent
  <2>3. (good[c] /\ q = "right") = good'[c]
    BY <1>0, <1>1 DEF WireTypeOK
  <2>4. Framed(Pending(c)', Read(c)', step'[c], good'[c])
    BY <1>5, <1>6, <2>2, <2>3
  <2> QED
    BY <1>6, <1>12, <1>10, <2>4 DEF Whole
<1>13. ASSUME NEW d \in Clients, d # c PROVE ClientOK(d)'
  <2>1. ClientOK(d) /\ SameData(d)
    BY <1>1, <1>13 DEF DoorInv, WireInv, WireTypeOK, DeskInv, DoorTypeOK, SameData
  <2> QED
    BY <1>1, <2>1, ApartKeeps
<1>14. InOrder(c)' /\ Welcomed(c)'
  BY <1>0, <1>1 DEF ClientOK, InOrder, Welcomed
<1> QED
  BY <1>4, <1>11, <1>12, <1>13, <1>14 DEF WireInv, ClientOK

(* One more packet, the next one, is returned to whom it is for.           *)
LEMMA TakeNext ==
    ASSUME DoorInv, NEW c \in Clients, Take(c, Read(c))
    PROVE  /\ taken' \in [Clients -> Seq(Nat)] /\ InOrder(c)' /\ Read(c)' = Read(c) + 1
           /\ \A d \in Clients : d # c => taken'[d] = taken[d]
<1>1. taken \in [Clients -> Seq(Nat)] /\ InOrder(c)
  BY DEF DoorInv, WireInv, WireTypeOK, ClientOK
<1>2. taken[c] \in Seq(Nat) /\ Read(c) = Len(taken[c]) /\ Read(c) \in Nat
  BY <1>1 DEF Read
<1>3. /\ Append(taken[c], Read(c)) \in Seq(Nat)
      /\ Len(Append(taken[c], Read(c))) = Read(c) + 1
      /\ \A i \in 1 .. Read(c) : Append(taken[c], Read(c))[i] = taken[c][i]
      /\ Append(taken[c], Read(c))[Read(c) + 1] = Read(c)
  BY <1>2, AppendProperties
<1>4. taken'[c] = Append(taken[c], Read(c)) /\ taken' \in [Clients -> Seq(Nat)]
      /\ \A d \in Clients : d # c => taken'[d] = taken[d]
  BY <1>1, <1>3 DEF Take
<1>5. InOrder(c)'
  BY <1>1, <1>2, <1>3, <1>4 DEF InOrder
<1> QED
  BY <1>3, <1>4, <1>5 DEF Read

(* The key: when it is whole nothing is behind it, since the client awaits *)
(* the server's.                                                           *)
LEMMA ReadKeyWire ==
    ASSUME DoorInv, NEW a \in Accepters, NEW c \in Clients, ReadKey(a, c)
    PROVE  WireInv'
<1>0. /\ WireTypeOK /\ ClientOK(c) /\ stage[c] = "key" /\ WireInv
      /\ UNCHANGED <<server, open, step, good>>
      /\ buf[c] \in Seq(Cell) /\ stage \in [Clients -> {stage[d] : d \in Clients}]
  BY DEF ReadKey, At, DoorInv, WireInv, WireTypeOK, serverVars, clientVars, DeskInv, DoorTypeOK
<1>1. PICK b \in Received(c, KeySize - Len(buf[c])) :
         /\ Consume(c, b)
         /\ IF Len(b) = KeySize
            THEN /\ Take(c, b[1][1])
                 /\ buf' = [buf EXCEPT ![c] = <<>>]
                 /\ Answer(c)
                 /\ Goto(c, "password")
            ELSE /\ buf' = [buf EXCEPT ![c] = b]
                 /\ UNCHANGED <<taken, heard, stage>>
  BY DEF ReadKey
<1>2. /\ b \in Seq(Cell) /\ stream'[c] \in Seq(Cell) /\ stream' \in [Clients -> Seq(Cell)]
      /\ \A d \in Clients : d # c => stream'[d] = stream[d]
      /\ Len(b) >= 1 /\ b \o stream'[c] = Pending(c)
  <2>1. KeySize - Len(buf[c]) \in Int
    BY <1>0 DEF KeySize
  <2> QED
    BY <1>0, <1>1, <2>1, RecvMoves
<1>3. /\ InOrder(c) /\ InStep(c) /\ Read(c) = 0 /\ heard[c] = 0
      /\ Keyed(Pending(c), step[c]) /\ step[c] \in Nat
  <2>1. InOrder(c) /\ InStep(c) /\ Read(c) = 0
    BY <1>0 DEF ClientOK, Whole, InStep, Live, Handshake
  <2>2. Keyed(Pending(c), step[c])
    BY <1>0, <2>1 DEF ClientOK, Whole, Live, Handshake
  <2>3. step[c] \in Nat
    BY DoorConstants DEF DoorInv, DeskInv, DoorTypeOK
  <2> QED
    BY <2>1, <2>2, <2>3 DEF InStep
<1>4. ASSUME NEW d \in Clients, d # c PROVE ClientOK(d)'
  <2>1. ClientOK(d) /\ SameData(d) /\ stage'[d] = stage[d]
    BY <1>0, <1>1, <1>2, <1>4 DEF WireInv, WireTypeOK, SameData, Take, Answer, Goto
  <2> QED
    BY <1>0, <2>1, ApartKeeps
<1>5. CASE Len(b) = KeySize
  <2>1. /\ taken' = [taken EXCEPT ![c] = Append(taken[c], b[1][1])]
        /\ buf' = [buf EXCEPT ![c] = <<>>]
        /\ heard' = [heard EXCEPT ![c] = heard[c] + 1]
        /\ stage' = [stage EXCEPT ![c] = "password"]
    BY <1>1, <1>5 DEF Take, Answer, Goto
  <2>2. Keyed(b \o stream'[c], step[c])
    BY <1>2, <1>3, Zenon
  <2>3. step[c] = 1 /\ Len(stream'[c]) = 0 /\ b[1][1] = 0
    BY <1>2, <1>3, <1>5, <2>2, FirstKey, Zenon
  <2>5. Take(c, Read(c))
    BY <1>1, <1>3, <1>5, <2>3
  <2>6. taken' \in [Clients -> Seq(Nat)] /\ InOrder(c)' /\ Read(c)' = 1
    BY <1>3, <2>5, TakeNext
  <2>7. WireTypeOK'
    <3>1. <<>> \in Seq(Cell)
      OBVIOUS
    <3>2. buf' \in [Clients -> Seq(Cell)]
      BY <1>0, <2>1, <3>1 DEF WireTypeOK
    <3>3. heard' \in [Clients -> Nat]
      <4>1. heard \in [Clients -> Nat] /\ heard' = [heard EXCEPT ![c] = heard[c] + 1]
        BY <1>0, <2>1 DEF WireTypeOK
      <4> QED
        BY <4>1
    <3> QED
      BY <1>0, <1>2, <2>6, <3>2, <3>3 DEF WireTypeOK
  <2>8. buf'[c] = <<>> /\ heard'[c] = 1 /\ stage'[c] = "password"
    BY <1>0, <1>3, <2>1 DEF WireTypeOK
  <2>9. InStep(c)' /\ Welcomed(c)'
    BY <1>0, <2>3, <2>8, <2>6 DEF InStep, Welcomed
  <2>10. Len(Pending(c)') = 0
    BY <1>2, <2>3, <2>8 DEF Pending
  <2>11. Framed(Pending(c)', 1, 1, good[c])
    BY <2>10 DEF Framed
  <2>12. Whole(c)'
    BY <1>0, <2>3, <2>6, <2>9, <2>11 DEF Whole
  <2> QED
    BY <1>4, <2>7, <2>6, <2>9, <2>12 DEF WireInv, ClientOK
<1>6. CASE Len(b) # KeySize
  <2>1. buf' = [buf EXCEPT ![c] = b] /\ UNCHANGED <<taken, heard, stage>>
    BY <1>1, <1>6
  <2>2. WireTypeOK'
    BY <1>0, <1>2, <2>1 DEF WireTypeOK
  <2>3. Pending(c)' = Pending(c)
    BY <1>0, <1>2, <2>1 DEF Pending, WireTypeOK
  <2>4. ClientOK(c)'
    BY <1>0, <2>1, <2>3 DEF ClientOK, InOrder, Whole, Welcomed, InStep, Read
  <2> QED
    BY <1>4, <2>2, <2>4 DEF WireInv
<1> QED
  BY <1>5, <1>6

(* A reader's step changes nothing of the clients it does not read from.   *)
LEMMA OneReader ==
    ASSUME DoorInv, NEW c \in Clients, WireTypeOK', ClientOK(c)',
           UNCHANGED <<server, open, step, good>>,
           \A d \in Clients : d # c =>
              /\ stream'[d] = stream[d] /\ buf'[d] = buf[d] /\ heard'[d] = heard[d]
              /\ taken'[d] = taken[d] /\ stage'[d] = stage[d]
    PROVE  WireInv'
<1>1. ASSUME NEW d \in Clients, d # c PROVE ClientOK(d)'
  <2>1. ClientOK(d) /\ SameData(d) /\ stage'[d] = stage[d]
    BY <1>1 DEF DoorInv, WireInv, SameData
  <2> QED
    BY <2>1, ApartKeeps
<1> QED
  BY <1>1 DEF WireInv

(* What accept_clients does with a frame it has read.                      *)
LEMMA FrameChecked ==
    ASSUME DoorTypeOK, WireTypeOK, NEW c \in Clients, NEW q,
           \/ stage[c] = "password" /\ CheckPassword(c, q)
           \/ stage[c] = "login" /\ CheckLogin(c, q)
    PROVE  /\ heard' \in [Clients -> Nat]
           /\ \A d \in Clients : d # c => heard'[d] = heard[d] /\ stage'[d] = stage[d]
           /\ q = "right" => /\ heard'[c] = heard[c] + 1
                             /\ stage[c] = "password" => stage'[c] = "login"
                             /\ stage[c] = "login" => stage'[c] \in {"entered", "unentered"}
           /\ q # "right" => stage'[c] \in {"left", "closed"} /\ heard' = heard
<1>1. heard \in [Clients -> Nat] /\ stage \in [Clients -> Handshake \cup {"home", "backlog", "served", "over", "left", "closed"}]
  BY DEF DoorTypeOK, WireTypeOK
<1>2. /\ q = "right" => /\ heard' = [heard EXCEPT ![c] = heard[c] + 1]
                        /\ stage[c] = "password" => stage' = [stage EXCEPT ![c] = "login"]
                        /\ stage[c] = "login" => \/ stage' = [stage EXCEPT ![c] = "entered"]
                                                 \/ stage' = [stage EXCEPT ![c] = "unentered"]
      /\ q # "right" => /\ heard' = heard
                        /\ \/ stage' = [stage EXCEPT ![c] = "left"]
                           \/ stage' = [stage EXCEPT ![c] = "closed"]
  BY DEF CheckPassword, CheckLogin, Answer, Goto
<1> QED
  BY <1>1, <1>2

(* A frame of the handshake: nothing is behind it, since the client awaits *)
(* the answer.                                                             *)
LEMMA ReadFrameWire ==
    ASSUME DoorInv, NEW a \in Accepters, NEW c \in Clients, ReadFrame(a, c)
    PROVE  WireInv'
<1>0. /\ WireTypeOK /\ ClientOK(c) /\ stage[c] \in {"password", "login"} /\ WireInv
      /\ UNCHANGED <<server, open, step, good>> /\ DoorTypeOK
      /\ buf[c] \in Seq(Cell) /\ stream[c] \in Seq(Cell) /\ stage[c] \in Live
  BY DEF ReadFrame, At, DoorInv, WireInv, WireTypeOK, clientVars, DeskInv, Live, Handshake
<1>1. PICK b \in Received(c, Len(stream[c])) :
        /\ Consume(c, b)
        /\ buf' = [buf EXCEPT ![c] = IF Extract(b).is = "short" THEN b ELSE <<>>]
        /\ CASE Extract(b).is = "short" -> UNCHANGED <<taken, heard, stage, sessions>>
             [] Extract(b).is = "invalid" -> Goto(c, "left") /\ UNCHANGED <<taken, heard, sessions>>
             [] Extract(b).is = "frame" ->
                  /\ Take(c, Extract(b).n)
                  /\ IF stage[c] = "password" THEN CheckPassword(c, Extract(b).q)
                                              ELSE CheckLogin(c, Extract(b).q)
  BY DEF ReadFrame
<1>2. /\ b \in Seq(Cell) /\ stream'[c] \in Seq(Cell) /\ stream' \in [Clients -> Seq(Cell)]
      /\ \A d \in Clients : d # c => stream'[d] = stream[d]
      /\ Len(b) >= 1 /\ b \o stream'[c] = Pending(c)
  <2>1. Len(stream[c]) \in Int
    BY <1>0
  <2> QED
    BY <1>0, <1>1, <2>1, RecvMoves
<1>3. /\ InOrder(c) /\ InStep(c) /\ Read(c) \in {1, 2} /\ heard[c] = Read(c)
      /\ stage[c] = "password" <=> Read(c) = 1
      /\ step[c] <= Read(c) + 1 /\ step[c] \in Nat /\ good[c] \in BOOLEAN
  <2>1. InOrder(c) /\ InStep(c)
    BY <1>0 DEF ClientOK, Whole
  <2>2. Read(c) \in {1, 2} /\ heard[c] = Read(c) /\ (stage[c] = "password" <=> Read(c) = 1)
    BY <1>0, <2>1 DEF InStep
  <2>3. step[c] \in Nat /\ good[c] \in BOOLEAN
    BY <1>0, DoorConstants DEF DoorTypeOK, WireTypeOK
  <2> QED
    BY <2>1, <2>2, <2>3 DEF InStep
<1>4. Framed(Pending(c), Read(c), step[c], good[c])
  BY <1>0, <1>3 DEF ClientOK, Whole
<1>5. /\ b[1][1] = Read(c) /\ b[1][2] = 1 /\ (good[c] => b[1][3] = "right")
      /\ step[c] = Read(c) + 1 /\ Len(b) + Len(stream'[c]) = 3
  <2>1. Framed(b \o stream'[c], Read(c), step[c], good[c])
    BY <1>2, <1>4, Zenon
  <2>2. Read(c) \in Nat
    BY <1>3
  <2>3. /\ b[1][1] = Read(c) /\ b[1][2] = 1 /\ (good[c] => b[1][3] = "right")
        /\ Len(b) + Len(stream'[c]) = 3 * (step[c] - Read(c)) /\ Read(c) < step[c]
    <3>1. b \in Seq(Cell) /\ stream'[c] \in Seq(Cell) /\ Len(b) >= 1
      BY <1>2
    <3>2. step[c] \in Nat /\ good[c] \in BOOLEAN
      BY <1>3
    <3>3. ASSUME NEW x \in Seq(Cell), NEW y \in Seq(Cell), Len(x) >= 1,
                 Framed(x \o y, Read(c), step[c], good[c])
          PROVE  /\ x[1][1] = Read(c) /\ x[1][2] = 1 /\ (good[c] => x[1][3] = "right")
                 /\ Len(x) + Len(y) = 3 * (step[c] - Read(c)) /\ Read(c) < step[c]
      BY <2>2, <3>2, <3>3, FirstFrame
    <3> QED
      BY <2>1, <3>1, <3>3, Zenon
  <2>4. step[c] = Read(c) + 1
    BY <1>3, <2>3
  <2> QED
    BY <1>3, <2>3, <2>4
<1>6. Extract(b).is \in {"short", "invalid", "frame"}
  BY ExtractIs
<1>7. CASE Extract(b).is = "short"
  <2>1. buf' = [buf EXCEPT ![c] = b] /\ UNCHANGED <<taken, heard, stage>>
    BY <1>1, <1>7
  <2>2. WireTypeOK'
    BY <1>0, <1>2, <2>1 DEF WireTypeOK
  <2>3. Pending(c)' = Pending(c)
    BY <1>0, <1>2, <2>1 DEF Pending, WireTypeOK
  <2>4. ClientOK(c)'
    BY <1>0, <2>1, <2>3 DEF ClientOK, InOrder, Whole, Welcomed, InStep, Read
  <2>5. \A d \in Clients : d # c => buf'[d] = buf[d]
    BY <1>0, <2>1 DEF WireTypeOK
  <2> QED
    BY <1>0, <1>2, <2>1, <2>2, <2>4, <2>5, OneReader
<1>8. CASE Extract(b).is = "invalid"
  <2>1. /\ buf' = [buf EXCEPT ![c] = <<>>] /\ UNCHANGED <<taken, heard>>
        /\ stage' = [stage EXCEPT ![c] = "left"]
    BY <1>1, <1>8 DEF Goto
  <2>2. /\ stage'[c] = "left"
        /\ \A d \in Clients : d # c => buf'[d] = buf[d] /\ stage'[d] = stage[d]
    BY <1>0, <2>1 DEF WireTypeOK, DoorTypeOK
  <2>3. ~good[c]
    <3>1. b[1][2] # 1 \/ b[1][3] = "foreign"
      BY <1>8, ExtractIs
    <3> QED
      BY <1>5, <3>1
  <2>4. WireTypeOK'
    <3>1. <<>> \in Seq(Cell)
      OBVIOUS
    <3> QED
      BY <1>0, <1>2, <2>1, <3>1 DEF WireTypeOK
  <2>5. ClientOK(c)'
    BY <1>0, <1>3, <2>1, <2>2, <2>3
    DEF ClientOK, InOrder, Whole, Welcomed, Live, Handshake
  <2> QED
    BY <1>0, <1>2, <2>1, <2>2, <2>4, <2>5, OneReader
<1>9. CASE Extract(b).is = "frame"
  <2>1. /\ buf' = [buf EXCEPT ![c] = <<>>] /\ Take(c, Extract(b).n)
        /\ IF stage[c] = "password" THEN CheckPassword(c, Extract(b).q)
                                    ELSE CheckLogin(c, Extract(b).q)
    BY <1>1, <1>9
  <2>2. Extract(b).n = b[1][1] /\ Extract(b).q = b[1][3] /\ ~(Len(b) < FrameSize)
    BY <1>9, ExtractIs
  <2>3. Len(stream'[c]) = 0
    BY <1>2, <1>5, <2>2 DEF FrameSize, HeaderSize
  <2>4. Take(c, Read(c))
    BY <1>5, <2>1, <2>2
  <2>5. /\ taken' \in [Clients -> Seq(Nat)] /\ InOrder(c)' /\ Read(c)' = Read(c) + 1
        /\ \A d \in Clients : d # c => taken'[d] = taken[d]
    BY <2>4, TakeNext
  <2>6. /\ heard' \in [Clients -> Nat]
        /\ \A d \in Clients : d # c => heard'[d] = heard[d] /\ stage'[d] = stage[d]
        /\ b[1][3] = "right" => /\ heard'[c] = heard[c] + 1
                                /\ stage[c] = "password" => stage'[c] = "login"
                                /\ stage[c] = "login" => stage'[c] \in {"entered", "unentered"}
        /\ b[1][3] # "right" => stage'[c] \in {"left", "closed"}
    BY <1>0, <2>1, <2>2, FrameChecked
  <2>7. buf'[c] = <<>> /\ buf' \in [Clients -> Seq(Cell)] /\ \A d \in Clients : d # c => buf'[d] = buf[d]
    <3>1. <<>> \in Seq(Cell)
      OBVIOUS
    <3> QED
      BY <1>0, <2>1, <3>1 DEF WireTypeOK
  <2>8. WireTypeOK'
    BY <1>0, <1>2, <2>5, <2>6, <2>7 DEF WireTypeOK
  <2>9. Whole(c)'
    <3>1. CASE b[1][3] = "right"
      <4>1. heard'[c] = Read(c)' /\ step'[c] = Read(c)' /\ Read(c)' \in {2, 3}
        BY <1>0, <1>3, <1>5, <2>5, <2>6, <3>1
      <4>2. InStep(c)'
        BY <1>0, <1>3, <2>5, <2>6, <3>1, <4>1 DEF InStep
      <4>3. Len(Pending(c)') = 0
        BY <1>2, <2>3, <2>7 DEF Pending
      <4>4. Framed(Pending(c)', Read(c)', step'[c], good'[c])
        BY <4>1, <4>3 DEF Framed
      <4> QED
        BY <4>1, <4>2, <4>4 DEF Whole
    <3>2. CASE b[1][3] # "right"
      BY <2>6, <3>2 DEF Whole, Live, Handshake
    <3> QED
      BY <3>1, <3>2
  <2>10. Welcomed(c)'
    BY <1>0, <1>5, <2>6 DEF Welcomed
  <2> QED
    BY <1>0, <1>2, <2>5, <2>6, <2>7, <2>8, <2>9, <2>10, OneReader DEF ClientOK
<1> QED
  BY <1>6, <1>7, <1>8, <1>9

(* The handler: the frames of a client that sends ahead stay in its one    *)
(* buffer, and the stream behind it, until it comes to them.               *)
LEMMA HandleWire ==
    ASSUME DoorInv, NEW c \in Clients, stage[c] = "served",
           NEW b \in Seq(Cell), HandleFrame(c, Extract(b)),
           stream' \in [Clients -> Seq(Cell)],
           Framed(b \o stream'[c], Read(c), step[c], good[c]),
           \A d \in Clients : d # c => stream'[d] = stream[d]
    PROVE  WireInv'
<1>0. /\ WireTypeOK /\ ClientOK(c) /\ DoorTypeOK /\ stage[c] \in Live
      /\ UNCHANGED <<server, open, step, good, heard>> /\ stream'[c] \in Seq(Cell)
  BY DEF HandleFrame, DoorInv, WireInv, serverVars, clientVars, DeskInv, Live
<1>1. /\ InOrder(c) /\ InStep(c) /\ Read(c) >= 3 /\ heard[c] = 3 /\ Read(c) \in Nat
      /\ step[c] \in Nat /\ good[c] \in BOOLEAN
  <2>1. InOrder(c) /\ InStep(c)
    BY <1>0 DEF ClientOK, Whole
  <2>2. Read(c) \in Nat /\ step[c] \in Nat /\ good[c] \in BOOLEAN
    BY <1>0, DoorConstants DEF DoorTypeOK, WireTypeOK, Read
  <2> QED
    BY <2>1, <2>2 DEF InStep
<1>3. ASSUME Len(b) >= 1
      PROVE  /\ b[1][1] = Read(c) /\ b[1][2] = 1 /\ (good[c] => b[1][3] = "right")
             /\ Len(b) >= 3 => Framed(SubSeq(b, 4, Len(b)) \o stream'[c], Read(c) + 1, step[c], good[c])
  <2>1. stream'[c] \in Seq(Cell)
    BY <1>0
  <2>2. Read(c) \in Nat /\ step[c] \in Nat /\ good[c] \in BOOLEAN
    BY <1>1
  <2>3. ASSUME NEW x \in Seq(Cell), NEW y \in Seq(Cell), Len(x) >= 1,
               Framed(x \o y, Read(c), step[c], good[c])
        PROVE  /\ x[1][1] = Read(c) /\ x[1][2] = 1 /\ (good[c] => x[1][3] = "right")
               /\ Len(x) >= 3 => Framed(SubSeq(x, 4, Len(x)) \o y, Read(c) + 1, step[c], good[c])
    BY <2>2, <2>3, FirstFrame
  <2> QED
    BY <1>3, <2>1, <2>3, Zenon
<1>4. Extract(b).is \in {"short", "invalid", "frame"}
  BY ExtractIs
<1>5. CASE Extract(b).is = "short"
  <2>1. buf' = [buf EXCEPT ![c] = b] /\ UNCHANGED <<taken, stage>>
    BY <1>5, ExtractIs DEF HandleFrame
  <2>2. WireTypeOK'
    BY <1>0, <2>1 DEF WireTypeOK
  <2>3. Pending(c)' = b \o stream'[c]
    BY <1>0, <2>1 DEF Pending, WireTypeOK
  <2>4. ClientOK(c)'
    <3>1. Framed(Pending(c)', Read(c)', step'[c], good'[c])
      BY <1>0, <2>1, <2>3 DEF Read
    <3>2. InStep(c)' /\ Read(c)' # 0
      BY <1>0, <1>1, <2>1 DEF InStep, Read
    <3> QED
      BY <1>0, <2>1, <3>1, <3>2 DEF ClientOK, InOrder, Whole, Welcomed
  <2>5. \A d \in Clients : d # c => buf'[d] = buf[d]
    BY <1>0, <2>1 DEF WireTypeOK
  <2> QED
    BY <1>0, <2>1, <2>2, <2>4, <2>5, OneReader
<1>6. CASE Extract(b).is = "invalid"
  <2>1. /\ buf' = [buf EXCEPT ![c] = <<>>] /\ taken' = taken
        /\ stage' = [stage EXCEPT ![c] = "over"]
    BY <1>6, ExtractIs DEF HandleFrame, Goto
  <2>2. /\ stage'[c] = "over"
        /\ \A d \in Clients : d # c => buf'[d] = buf[d] /\ stage'[d] = stage[d]
    BY <1>0, <2>1 DEF WireTypeOK, DoorTypeOK
  <2>3. ~good[c]
    <3>1. (b[1][2] # 1 \/ b[1][3] = "foreign") /\ ~(Len(b) < HeaderSize)
      BY <1>6, ExtractIs
    <3>2. Len(b) >= 1
      BY <3>1 DEF HeaderSize
    <3> QED
      BY <1>3, <3>1, <3>2
  <2>4. WireTypeOK'
    <3>1. <<>> \in Seq(Cell)
      OBVIOUS
    <3> QED
      BY <1>0, <2>1, <3>1 DEF WireTypeOK
  <2>5. ClientOK(c)'
    BY <1>0, <1>1, <2>1, <2>2, <2>3
    DEF ClientOK, InOrder, Whole, Welcomed, Live, Handshake
  <2> QED
    BY <1>0, <2>1, <2>2, <2>4, <2>5, OneReader
<1>7. CASE Extract(b).is = "frame"
  <2> DEFINE r == SubSeq(b, 4, Len(b))
  <2>1. /\ buf' = [buf EXCEPT ![c] = Extract(b).rest] /\ Take(c, Extract(b).n) /\ stage' = stage
    BY <1>7 DEF HandleFrame
  <2>2. Extract(b).n = b[1][1] /\ ~(Len(b) < 3) /\ Extract(b).rest = r
    BY <1>7, ExtractIs DEF FrameSize, HeaderSize
  <2>3. Len(b) >= 3 /\ Len(b) >= 1
    BY <2>2
  <2>4. r \in Seq(Cell)
    BY <2>3, WithoutThree
  <2> HIDE DEF r
  <2>5. Take(c, Read(c))
    BY <1>3, <2>1, <2>2, <2>3
  <2>6. /\ taken' \in [Clients -> Seq(Nat)] /\ InOrder(c)' /\ Read(c)' = Read(c) + 1
        /\ \A d \in Clients : d # c => taken'[d] = taken[d]
    BY <2>5, TakeNext
  <2>7. buf' = [buf EXCEPT ![c] = r]
    BY <2>1, <2>2
  <2>8. buf'[c] = r /\ buf' \in [Clients -> Seq(Cell)] /\ \A d \in Clients : d # c => buf'[d] = buf[d]
    BY <1>0, <2>4, <2>7 DEF WireTypeOK
  <2>9. WireTypeOK'
    BY <1>0, <2>6, <2>8 DEF WireTypeOK
  <2>10. Framed(Pending(c)', Read(c)', step'[c], good'[c])
    <3>1. Framed(r \o stream'[c], Read(c) + 1, step[c], good[c])
      BY <1>3, <2>3 DEF r
    <3> QED
      BY <1>0, <2>6, <2>8, <3>1 DEF Pending
  <2>11. InStep(c)'
    BY <1>0, <1>1, <2>1, <2>6 DEF InStep
  <2>12. Read(c)' # 0
    BY <1>1, <2>6
  <2>13. Whole(c)' /\ Welcomed(c)'
    BY <1>0, <2>1, <2>10, <2>11, <2>12 DEF Whole, Welcomed
  <2> QED
    BY <1>0, <2>1, <2>6, <2>8, <2>9, <2>13, OneReader DEF ClientOK
<1> QED
  BY <1>4, <1>5, <1>6, <1>7

LEMMA HandlerWire ==
    ASSUME DoorInv, NEW c \in Clients, HandleBuffered(c) \/ HandleRecv(c)
    PROVE  WireInv'
<1>0. /\ stage[c] = "served" /\ WireInv /\ stream \in [Clients -> Seq(Cell)]
      /\ buf[c] \in Seq(Cell) /\ stream[c] \in Seq(Cell)
  BY DEF HandleBuffered, HandleRecv, Serves, DoorInv, WireInv, WireTypeOK
<1>1. Framed(Pending(c), Read(c), step[c], good[c])
  <2>1. Whole(c)
    BY <1>0 DEF WireInv, ClientOK
  <2> QED
    BY <1>0, <2>1 DEF Whole, InStep, Live
<1>2. CASE HandleBuffered(c)
  <2>1. HandleFrame(c, Extract(buf[c])) /\ stream' = stream
    BY <1>2 DEF HandleBuffered
  <2>2. Framed(buf[c] \o stream'[c], Read(c), step[c], good[c])
    BY <1>1, <2>1 DEF Pending
  <2> QED
    BY <1>0, <2>1, <2>2, HandleWire
<1>3. CASE HandleRecv(c)
  <2>1. PICK b \in Received(c, Len(stream[c])) : Consume(c, b) /\ HandleFrame(c, Extract(b))
    BY <1>3 DEF HandleRecv
  <2>2. Len(stream[c]) \in Int
    BY <1>0
  <2>3. /\ b \in Seq(Cell) /\ stream' \in [Clients -> Seq(Cell)]
        /\ \A d \in Clients : d # c => stream'[d] = stream[d]
        /\ Len(b) >= 1 /\ b \o stream'[c] = Pending(c)
    BY <1>0, <2>1, <2>2, RecvMoves
  <2>4. Framed(b \o stream'[c], Read(c), step[c], good[c])
    BY <1>1, <2>3, Zenon
  <2> QED
    BY <1>0, <2>1, <2>3, <2>4, HandleWire
<1> QED
  BY <1>2, <1>3

LEMMA DoorInvInit == DoorInit => DoorInv
<1> SUFFICES ASSUME DoorInit PROVE DoorInv
  OBVIOUS
<1>1. DeskInv
  BY DeskInvInit
<1>2. WireTypeOK
  BY DEF DoorInit, WireTypeOK
<1>3. ASSUME NEW c \in Clients PROVE ClientOK(c)
  <2>1. /\ stage[c] = "home" /\ step[c] = 0 /\ heard[c] = 0 /\ taken[c] = <<>>
        /\ buf[c] = <<>> /\ stream[c] = <<>>
    BY DEF DoorInit
  <2>2. Read(c) = 0 /\ Len(Pending(c)) = 0
    BY <2>1 DEF Read, Pending
  <2>3. Keyed(Pending(c), step[c])
    BY <2>1, <2>2 DEF Keyed
  <2> QED
    BY <2>1, <2>2, <2>3 DEF ClientOK, InOrder, Whole, Welcomed, InStep
<1> QED
  BY <1>1, <1>2, <1>3 DEF DoorInv, WireInv

LEMMA DoorInvStep == DoorInv /\ [DoorNext]_doorVars => DoorInv'
<1> SUFFICES ASSUME DoorInv, [DoorNext]_doorVars PROVE WireInv'
  BY DeskInvStep DEF DoorInv
<1>0. ASSUME NEW a \in Accepters, Listen(a) PROVE WireInv'
  BY <1>0, StageOnlyKeeps DEF Listen
<1>1. ASSUME NEW a \in Accepters, Accept(a) PROVE WireInv'
  <2> DEFINE c == Head(backlog)
  <2>1. c \in Clients /\ stage[c] = "backlog"
    BY <1>1 DEF Accept, DoorInv, DeskInv, Placed
  <2> HIDE DEF c
  <2>2. stage' = [stage EXCEPT ![c] = "key"]
    BY <1>1 DEF Accept, c
  <2>3. /\ stage'[c] = "key"
        /\ \A d \in Clients : d # c => stage'[d] = stage[d]
    BY <2>1, <2>2 DEF DoorInv, DeskInv, DoorTypeOK
  <2>4. /\ UNCHANGED <<server, stream, buf, heard, taken, step, good>>
        /\ open' \in [Clients -> BOOLEAN] /\ \A d \in Clients : open'[d] = open[d]
    BY <1>1 DEF Accept, wireVars, clientVars, DoorInv, WireInv, WireTypeOK
  <2> QED
    BY <2>1, <2>3, <2>4, ArriveWire
<1>2. ASSUME NEW a \in Accepters, NEW c \in Clients, Welcome(a, c) PROVE WireInv'
  <2>1. /\ stage[c] \in {"entered", "unentered"} /\ Goto(c, "served") /\ DoorTypeOK
        /\ UNCHANGED <<server, stream, buf, heard, taken, step, good>>
        /\ open' \in [Clients -> BOOLEAN] /\ \A d \in Clients : open'[d] = open[d]
    BY <1>2 DEF Welcome, At, wireVars, clientVars, DoorInv, DeskInv, WireInv, WireTypeOK
  <2>2. stage'[c] = "served" /\ \A d \in Clients : d # c => stage'[d] = stage[d]
    BY <2>1, GotoStage
  <2> QED
    BY <2>1, <2>2, ArriveWire
<1>3. ASSUME NEW c \in Clients, Connect(c) PROVE WireInv'
  <2>1. /\ stage[c] = "home" /\ Goto(c, "backlog") /\ DoorTypeOK
        /\ UNCHANGED <<server, stream, buf, heard, taken, step, good>>
        /\ open' \in [Clients -> BOOLEAN] /\ \A d \in Clients : d # c => open'[d] = open[d]
    BY <1>3 DEF Connect, Goto, wireVars, DoorInv, DeskInv, WireInv, WireTypeOK
  <2>2. stage'[c] = "backlog" /\ \A d \in Clients : d # c => stage'[d] = stage[d]
    BY <2>1, GotoStage
  <2> QED
    BY <2>1, <2>2, ArriveWire
<1>4. ASSUME NEW a \in Accepters, Accepter(a) PROVE WireInv'
  BY <1>0, <1>1, <1>2, <1>4, EndsWire, ReadKeyWire, ReadFrameWire, LostWire DEF Accepter
<1>5. ASSUME NEW c \in Clients, Handler(c) PROVE WireInv'
  BY <1>5, HandlerWire, LostWire, EndsWire DEF Handler
<1>6. ASSUME NEW c \in Clients, Client(c) PROVE WireInv'
  BY <1>3, <1>6, LeaveWire, SendWire DEF Client
<1>7. CASE UNCHANGED doorVars
  <2>1. UNCHANGED <<server, stage>> /\ UNCHANGED wireVars /\ UNCHANGED clientVars
    BY <1>7 DEF doorVars, serverVars
  <2> QED
    BY <2>1, StageOnlyKeeps
<1> QED
  BY <1>4, <1>5, <1>6, <1>7, LifeCycleWire DEF DoorNext

(* However the streams of any number of clients are cut, the readers of    *)
(* the accept loops and the handlers return each client's packets whole,   *)
(* once and in order, and a client that follows the protocol is not        *)
(* refused (server.py:76, 466-485, utils.py:68-85).                        *)
THEOREM ReadWhole == DoorSpec => []ReadAsSent
<1>1. DoorInv => ReadAsSent
  <2> SUFFICES ASSUME DoorInv, NEW c \in Clients
               PROVE  /\ taken[c] = [i \in 1 .. Len(taken[c]) |-> i - 1]
                      /\ good[c] /\ open[c] /\ server = "up" =>
                            stage[c] \notin {"left", "closed", "over"}
    BY DEF ReadAsSent
  <2>1. taken[c] \in Seq(Nat) /\ InOrder(c) /\ Welcomed(c)
    BY DEF DoorInv, WireInv, WireTypeOK, ClientOK
  <2>2. taken[c] = [i \in 1 .. Len(taken[c]) |-> taken[c][i]]
    BY <2>1
  <2>3. taken[c] = [i \in 1 .. Len(taken[c]) |-> i - 1]
    BY <2>1, <2>2 DEF InOrder
  <2> QED
    BY <2>1, <2>3 DEF Welcomed
<1> QED
  BY <1>1, DoorInvInit, DoorInvStep, PTL DEF DoorSpec

=============================================================================
