-------------------------- MODULE PostOfficeProofs --------------------------
(***************************************************************************)
(* For any number of connections, uuids, addresses and requests: what      *)
(* PostOffice keeps true.  The address book comes first, because nothing   *)
(* the handlers do to it depends on the rest; then types and locks, which  *)
(* need each other; then who may be given a request or an answer.  Then    *)
(* that PostOffice implements the at-most-once request of module Rpc, and  *)
(* keeps no request in two places.  Both follow from one picture: a posted *)
(* request is in one place or in none, and a step leaves it there or moves *)
(* it along one of a few routes.  The last part is about those that are    *)
(* lost.                                                                   *)
(***************************************************************************)
EXTENDS PostOfficeProperties, AddressBookProofs, SequenceTheorems, FiniteSetTheorems

(* Every step of a handler is a step of the address book, or leaves it.    *)
LEMMA HandlersFollowTypedBook == BookTypeOK /\ [Next]_vars => [BookNext]_bookVars
<1> SUFFICES ASSUME BookTypeOK, [Next]_vars PROVE BookNext \/ UNCHANGED bookVars
  OBVIOUS
<1>0. sessions \subseteq Uuids
  BY DEF BookTypeOK
<1>1. ASSUME NEW c \in Conns, Connect(c) PROVE BookNext \/ UNCHANGED bookVars
  BY <1>1 DEF Connect, AcceptLogin, AcceptStale, AcceptRelogin, BookNext
<1>2. ASSUME NEW c \in Conns, Disconnect(c) PROVE UNCHANGED bookVars
  BY <1>2 DEF Disconnect
<1>3. ASSUME NEW c \in Conns, Serve(c) PROVE BookNext \/ UNCHANGED bookVars
  <2>1. CASE Query(c) \/ Malformed(c) \/ GetInbox(c) \/ GetInboxWait(c) \/ BadPacket(c)
             \/ BadFrame(c) \/ Orphan(c)
    BY <2>1 DEF Query, Malformed, GetInbox, TakeHead, GetInboxWait, BadPacket, BadFrame, Orphan
  <2>2. ASSUME NEW k \in Keys, Register(c, k) \/ Unregister(c, k) PROVE BookNext
    BY <1>0, <2>2 DEF Register, Unregister, BookNext, RegisterKey, UnregisterKey
  <2>3. ASSUME NEW target \in Uuids, NEW r \in Rid,
               PutInbox(c, r, target)
        PROVE  UNCHANGED bookVars
    BY <2>3 DEF PutInbox
  <2>4. ASSUME NEW target \in Uuids, PutInboxGone(c, target) PROVE UNCHANGED bookVars
    BY <2>4 DEF PutInboxGone
  <2>5. ASSUME NEW r \in Rid,
               \/ PutOutbox(c, r) \/ PutOutboxWait(c, r) \/ PutOutboxGone(c, r)
               \/ GetOutbox(c, r) \/ GetOutboxWait(c, r)
        PROVE  UNCHANGED bookVars
    BY <2>5 DEF PutOutbox, PutOutboxWait, PutOutboxGone, GetOutbox, GetOutboxWait
  <2>6. CASE Bye(c)
    BY <1>0, <2>6 DEF Bye, Cleanup, BookNext, TearDown
  <2> QED
    BY <1>3, <2>1, <2>2, <2>3, <2>4, <2>5, <2>6 DEF Serve
<1>4. ASSUME NEW c \in Conns, Proceed(c) PROVE BookNext \/ UNCHANGED bookVars
  <2>1. CASE Refused(c)
    BY <1>0, <2>1 DEF Refused, BookNext, TearDown
  <2>2. CASE ~Refused(c)
    BY <1>4, <2>2
    DEF Proceed, StartHandler, EndOfStream, SendDone, SendOrphan, SendFail, Take,
        TakeHead, PutOutboxLocked, GetOutboxLocked
  <2> QED
    BY <2>1, <2>2
<1>5. CASE UNCHANGED vars
  BY <1>5 DEF vars
<1> QED
  BY <1>1, <1>2, <1>3, <1>4, <1>5 DEF Next

LEMMA HandlersFollowBook == BookInv /\ [Next]_vars => [BookNext]_bookVars
  BY HandlersFollowTypedBook DEF BookInv

LEMMA BookInvAlways == Spec => []BookInv
<1>1. Init => BookInv
  BY BookInvInit DEF Init
<1>2. BookInv /\ [Next]_vars => BookInv'
  BY HandlersFollowBook, BookInvStep
<1> QED
  BY <1>1, <1>2, PTL DEF Spec

(* With any number of handlers, takeovers and crashes, the book and the    *)
(* lists of the live sessions agree.                                       *)
THEOREM PostOfficeOwnership == Spec => []Ownership
<1>1. BookInv => Ownership
  BY DEF BookInv
<1> QED
  BY <1>1, BookInvAlways, PTL

-----------------------------------------------------------------------------
(* Types and locks.  A lock's queue is never empty where a handler takes   *)
(* its head or leaves it, and the ids under way are those of requests that *)
(* have been posted: without the two the types are not inductive.          *)

Posted(r) == from[r] \in Uuids /\ to[r] \in Uuids

Seated == \A c \in Conns : pc[c] # "free" => who[c] \in Uuids

Known ==
    /\ \A c \in Conns : arg[c] # Nothing => Posted(arg[c][1])
    /\ \A c \in Conns : pc[c] \in {"putwait", "getwait"} => arg[c] # Nothing
    /\ \A u \in Uuids : \A x \in got[u] : Posted(x[1])
    /\ \A r \in Rid : Posted(r) \/ (from[r] = Nobody /\ to[r] = Nobody)

DeskInv == PostTypeOK /\ Seated /\ Known /\ LockDiscipline

(* The queue of a lock after one more handler has joined it, or its holder *)
(* has left.                                                               *)
LEMMA AppendLine ==
    ASSUME NEW S, NEW s \in Seq(S), NEW e \in S
    PROVE  /\ Append(s, e) \in Seq(S)
           /\ Len(Append(s, e)) = Len(s) + 1
           /\ \A i \in 1 .. Len(s) : Append(s, e)[i] = s[i]
           /\ Append(s, e)[Len(s) + 1] = e
  OBVIOUS

LEMMA TailLine ==
    ASSUME NEW S, NEW s \in Seq(S), s # <<>>
    PROVE  /\ Tail(s) \in Seq(S)
           /\ Len(s) \in Nat \ {0}
           /\ Len(Tail(s)) = Len(s) - 1
           /\ \A i \in 1 .. Len(s) - 1 : Tail(s)[i] = s[i + 1]
           /\ Head(s) = s[1]
           /\ Head(s) \in S
  OBVIOUS

(* A step that leaves the queues alone leaves everybody's place in them;   *)
(* the head of one may begin to send.                                      *)
LEMMA LinesKept ==
    ASSUME DeskInv, lockq' = lockq,
           \A u \in Uuids : InLine(u)' = InLine(u),
           \A u \in Uuids : \A d \in InLine(u) :
               pc'[d] = "sendlock" => pc[d] = "sendlock" \/ lockq[u][1] = d
    PROVE  LockDiscipline'
<1> SUFFICES ASSUME NEW u \in Uuids PROVE Line(u)'
  BY DEF LockDiscipline
<1>1. Line(u) /\ lockq[u] \in Seq(Conns)
  BY DEF DeskInv, PostTypeOK, LockDiscipline
<1>2. \A i \in 2 .. Len(lockq[u]) : pc'[lockq[u][i]] # "sendlock"
  BY <1>1 DEF Line
<1> QED
  BY <1>1, <1>2 DEF Line

(* A handler joins one queue, at its end.                                  *)
LEMMA LineJoined ==
    ASSUME DeskInv, NEW c \in Conns, NEW v \in Uuids,
           lockq' = [lockq EXCEPT ![v] = Append(@, c)],
           \A u \in Uuids : c \notin InLine(u),
           \A u \in Uuids : InLine(u)' = IF u = v THEN InLine(u) \cup {c} ELSE InLine(u),
           \A d \in Conns \ {c} : pc'[d] = pc[d],
           pc'[c] = "sendlock" => lockq[v] = <<>>
    PROVE  LockDiscipline'
<1> SUFFICES ASSUME NEW u \in Uuids PROVE Line(u)'
  BY DEF LockDiscipline
<1> DEFINE n == Len(lockq[u])
<1>1. Line(u) /\ lockq[u] \in Seq(Conns) /\ n \in Nat
  BY DEF DeskInv, PostTypeOK, LockDiscipline
<1>2. \A i \in 1 .. n : lockq[u][i] \in Conns \ {c} /\ pc'[lockq[u][i]] = pc[lockq[u][i]]
  BY <1>1 DEF Line
<1>3. CASE u # v
  <2>1. lockq'[u] = lockq[u]
    BY <1>3 DEF DeskInv, PostTypeOK
  <2> QED
    BY <1>1, <1>2, <1>3, <2>1 DEF Line
<1>4. CASE u = v
  <2>1. /\ Len(lockq'[u]) = n + 1
        /\ \A i \in 1 .. n : lockq'[u][i] = lockq[u][i]
        /\ lockq'[u][n + 1] = c
    BY <1>1, <1>4, AppendLine DEF DeskInv, PostTypeOK
  <2>2. InLine(u)' = InLine(u) \cup {c}
    BY <1>4
  <2>3. pc'[c] = "sendlock" => n = 0
    BY <1>4
  <2>4. \A i \in 1 .. n + 1 : lockq'[u][i] \in InLine(u)'
    BY <1>1, <2>1, <2>2 DEF Line
  <2>5. \A d \in InLine(u)' : \E i \in 1 .. n + 1 : lockq'[u][i] = d
    <3> SUFFICES ASSUME NEW d \in InLine(u)' PROVE \E i \in 1 .. n + 1 : lockq'[u][i] = d
      OBVIOUS
    <3>1. CASE d = c
      BY <1>1, <2>1, <3>1
    <3>2. CASE d # c
      <4>1. PICK i \in 1 .. n : lockq[u][i] = d
        BY <1>1, <2>2, <3>2 DEF Line
      <4> QED
        BY <1>1, <2>1, <4>1
    <3> QED
      BY <3>1, <3>2
  <2>6. \A i, j \in 1 .. n + 1 : lockq'[u][i] = lockq'[u][j] => i = j
    BY <1>1, <1>2, <2>1 DEF Line
  <2>7. \A i \in 2 .. n + 1 : pc'[lockq'[u][i]] # "sendlock"
    <3> SUFFICES ASSUME NEW i \in 2 .. n + 1 PROVE pc'[lockq'[u][i]] # "sendlock"
      OBVIOUS
    <3>1. CASE i = n + 1
      <4>1. n # 0
        BY <1>1, <3>1
      <4> QED
        BY <2>1, <2>3, <3>1, <4>1
    <3>2. CASE i # n + 1
      <4>1. i \in 2 .. n /\ i \in 1 .. n
        BY <1>1, <3>2
      <4>2. lockq'[u][i] = lockq[u][i] /\ pc'[lockq[u][i]] = pc[lockq[u][i]]
        BY <1>2, <2>1, <4>1
      <4>3. pc[lockq[u][i]] # "sendlock"
        BY <1>1, <4>1 DEF Line
      <4> QED
        BY <4>2, <4>3
    <3> QED
      BY <3>1, <3>2
  <2> QED
    BY <2>1, <2>4, <2>5, <2>6, <2>7 DEF Line
<1> QED
  BY <1>3, <1>4

(* The head of one queue leaves it.                                        *)
LEMMA LineLeft ==
    ASSUME DeskInv, NEW c \in Conns, NEW v \in Uuids,
           lockq[v] # <<>>, lockq[v][1] = c,
           lockq' = [lockq EXCEPT ![v] = Tail(@)],
           \A u \in Uuids : c \in InLine(u) <=> u = v,
           \A u \in Uuids : InLine(u)' = InLine(u) \ {c},
           \A d \in Conns \ {c} : pc'[d] = pc[d]
    PROVE  LockDiscipline'
<1> SUFFICES ASSUME NEW u \in Uuids PROVE Line(u)'
  BY DEF LockDiscipline
<1> DEFINE n == Len(lockq[u])
<1>1. Line(u) /\ lockq[u] \in Seq(Conns) /\ n \in Nat
  BY DEF DeskInv, PostTypeOK, LockDiscipline
<1>2. \A i \in 1 .. n : lockq[u][i] \in Conns
  BY <1>1
<1>3. CASE u # v
  <2>0. c \notin InLine(u) /\ InLine(u)' = InLine(u) \ {c}
    BY <1>3
  <2>1. lockq'[u] = lockq[u] /\ InLine(u)' = InLine(u) /\ c \notin InLine(u)
    BY <1>3, <2>0 DEF DeskInv, PostTypeOK
  <2>2. \A i \in 2 .. n : pc'[lockq[u][i]] # "sendlock"
    BY <1>1, <1>2, <2>1 DEF Line
  <2> QED
    BY <1>1, <2>1, <2>2 DEF Line
<1>4. CASE u = v
  <2>1. /\ n # 0
        /\ Len(lockq'[u]) = n - 1
        /\ \A i \in 1 .. n - 1 : lockq'[u][i] = lockq[u][i + 1]
    BY <1>1, <1>4, TailLine DEF DeskInv, PostTypeOK
  <2>2. \A i \in 2 .. n : lockq[u][i] # c
    BY <1>1, <1>4, <2>1 DEF Line
  <2>3. \A i \in 1 .. n - 1 : lockq'[u][i] \in InLine(u)'
    BY <1>1, <2>1, <2>2 DEF Line
  <2>4. \A d \in InLine(u)' : \E i \in 1 .. n - 1 : lockq'[u][i] = d
    <3> SUFFICES ASSUME NEW d \in InLine(u) \ {c} PROVE \E i \in 1 .. n - 1 : lockq'[u][i] = d
      OBVIOUS
    <3>1. PICK i \in 1 .. n : lockq[u][i] = d
      BY <1>1 DEF Line
    <3>2. i # 1
      BY <1>4, <3>1
    <3>3. i - 1 \in 1 .. n - 1 /\ (i - 1) + 1 = i
      BY <1>1, <3>2
    <3> QED
      BY <2>1, <3>1, <3>3
  <2>5. \A i, j \in 1 .. n - 1 : lockq'[u][i] = lockq'[u][j] => i = j
    <3> SUFFICES ASSUME NEW i \in 1 .. n - 1, NEW j \in 1 .. n - 1,
                        lockq'[u][i] = lockq'[u][j]
                 PROVE  i = j
      OBVIOUS
    <3>1. i + 1 \in 1 .. n /\ j + 1 \in 1 .. n /\ lockq[u][i + 1] = lockq[u][j + 1]
      BY <1>1, <2>1
    <3>2. i + 1 = j + 1
      BY <1>1, <3>1 DEF Line
    <3> QED
      BY <3>2
  <2>6. \A i \in 2 .. n - 1 : pc'[lockq'[u][i]] # "sendlock"
    <3> SUFFICES ASSUME NEW i \in 2 .. n - 1 PROVE pc'[lockq'[u][i]] # "sendlock"
      OBVIOUS
    <3>1. i + 1 \in 2 .. n /\ lockq'[u][i] = lockq[u][i + 1] /\ lockq[u][i + 1] \in Conns
      BY <1>1, <1>2, <2>1
    <3> QED
      BY <1>1, <2>2, <3>1 DEF Line
  <2> QED
    BY <2>1, <2>3, <2>4, <2>5, <2>6 DEF Line
<1> QED
  BY <1>3, <1>4

(* Where the others stand does not depend on the handler that moves.       *)
LEMMA OthersStay ==
    ASSUME NEW c \in Conns, NEW u \in Uuids, from' = from,
           \A d \in Conns \ {c} :
               pc'[d] = pc[d] /\ who'[d] = who[d] /\ arg'[d] = arg[d]
    PROVE  \A d \in Conns \ {c} : d \in InLine(u)' <=> d \in InLine(u)
  BY DEF InLine

(* Steps that concern neither mail nor locks.                              *)
LinePlaces == {"putwait", "getwait", "sendlock"}

Quiet(c) ==
    /\ pc[c] \notin LinePlaces \cup {"sending"}
    /\ \E p \in Places \ LinePlaces : pc' = [pc EXCEPT ![c] = p]
    /\ \/ who' = who /\ pc[c] # "free"
       \/ \E u \in Uuids : who' = [who EXCEPT ![c] = u]
    /\ arg' = arg \/ arg' = [arg EXCEPT ![c] = Nothing]
    /\ pc'[c] \in {"sending", "refusing"} => arg'[c] = Nothing
    /\ peer' \in [Conns -> BOOLEAN]
    /\ cipher' \in [Uuids -> Conns \cup {NoConn}]
    /\ skew' \in [Uuids -> SUBSET {"tx", "rx"}]
    /\ UNCHANGED mailVars

LEMMA QuietKeeps ==
    ASSUME DeskInv, BookInv', NEW c \in Conns, Quiet(c)
    PROVE  DeskInv'
<1>1. PICK p \in Places \ LinePlaces : pc' = [pc EXCEPT ![c] = p]
  BY DEF Quiet
<1>2. /\ who' \in [Conns -> Uuids \cup {Nobody}]
      /\ who'[c] \in Uuids
      /\ \A d \in Conns \ {c} : who'[d] = who[d]
  <2>1. who \in [Conns -> Uuids \cup {Nobody}] /\ (pc[c] # "free" => who[c] \in Uuids)
    BY DEF DeskInv, PostTypeOK, Seated
  <2> QED
    BY <2>1 DEF Quiet
<1>3. PostTypeOK'
  <2>1. pc' \in [Conns -> Places] /\ arg' \in [Conns -> Items \cup {Nothing}]
    BY <1>1 DEF Quiet, DeskInv, PostTypeOK
  <2> QED
    BY <1>2, <2>1 DEF Quiet, DeskInv, PostTypeOK, BookInv, mailVars
<1>4. Seated'
  BY <1>1, <1>2 DEF Quiet, DeskInv, PostTypeOK, Seated
<1>5. Known'
  <2>1. \A d \in Conns : arg'[d] # Nothing => arg'[d] = arg[d]
    BY DEF Quiet, DeskInv, PostTypeOK
  <2>2. \A d \in Conns : pc'[d] \in LinePlaces => d # c /\ pc[d] = pc'[d] /\ arg'[d] = arg[d]
    BY <1>1 DEF Quiet, DeskInv, PostTypeOK
  <2> QED
    BY <2>1, <2>2 DEF Quiet, DeskInv, Known, Posted, mailVars, LinePlaces
<1>6. LockDiscipline'
  <2>1. \A d \in Conns \ {c} : pc'[d] = pc[d] /\ who'[d] = who[d] /\ arg'[d] = arg[d]
    BY <1>1, <1>2 DEF Quiet, DeskInv, PostTypeOK
  <2>2. pc'[c] \notin LinePlaces
    BY <1>1 DEF DeskInv, PostTypeOK
  <2>3. \A v \in Uuids : InLine(v)' = InLine(v)
    <3> SUFFICES ASSUME NEW v \in Uuids PROVE InLine(v)' = InLine(v)
      OBVIOUS
    <3>1. \A d \in Conns \ {c} : d \in InLine(v)' <=> d \in InLine(v)
      BY <2>1, OthersStay DEF Quiet, mailVars
    <3>2. c \notin InLine(v) /\ c \notin InLine(v)'
      BY <2>2 DEF InLine, LinePlaces, Quiet
    <3> QED
      BY <3>1, <3>2 DEF InLine
  <2>4. \A d \in Conns : pc'[d] = "sendlock" => pc[d] = "sendlock"
    BY <2>1, <2>2 DEF LinePlaces
  <2> QED
    BY <2>3, <2>4, LinesKept DEF Quiet, mailVars, InLine
<1> QED
  BY <1>3, <1>4, <1>5, <1>6 DEF DeskInv

(* Logins, cleanups, refusals and the requests without mail are quiet.     *)
LEMMA ConnectQuiet ==
    ASSUME DeskInv, NEW c \in Conns, Connect(c)
    PROVE  Quiet(c)
<1>1. PICK u \in Uuids : AcceptLogin(c, u) \/ AcceptStale(c, u) \/ AcceptRelogin(c, u)
  BY DEF Connect
<1>2. Seat(c, u) /\ (Goto(c, "accepting") \/ Goto(c, "idle"))
  BY <1>1 DEF AcceptLogin, AcceptStale, AcceptRelogin
<1>3. skew' = skew \/ skew' = [skew EXCEPT ![u] = {"tx", "rx"}]
  BY <1>1 DEF AcceptLogin, AcceptStale, AcceptRelogin
<1>4. skew' \in [Uuids -> SUBSET {"tx", "rx"}]
  BY <1>3 DEF DeskInv, PostTypeOK
<1>5. pc[c] = "free" /\ \E p \in Places \ LinePlaces : pc' = [pc EXCEPT ![c] = p]
  BY <1>2 DEF Seat, Goto, Places, LinePlaces
<1>6. pc'[c] \notin {"sending", "refusing"}
  BY <1>2 DEF Goto, DeskInv, PostTypeOK
<1> QED
  BY <1>2, <1>4, <1>5, <1>6 DEF Seat, Quiet, DeskInv, PostTypeOK, LinePlaces

LEMMA StartHandlerQuiet ==
    ASSUME DeskInv, NEW c \in Conns, StartHandler(c)
    PROVE  Quiet(c)
<1>1. who[c] \in Uuids
  BY DEF StartHandler, DeskInv, Seated
<1>2. PICK moved \in SUBSET {"tx", "rx"} : skew' = [skew EXCEPT ![who[c]] = moved]
  BY DEF StartHandler
<1> QED
  BY <1>1, <1>2 DEF StartHandler, Goto, Quiet, DeskInv, PostTypeOK, Places, LinePlaces

LEMMA EndQuiet ==
    ASSUME DeskInv, NEW c \in Conns,
           EndOfStream(c) \/ BadFrame(c) \/ Orphan(c) \/ BadPacket(c) \/ Refused(c) \/ Bye(c)
    PROVE  Quiet(c)
<1>1. who[c] \in Uuids
  BY DEF EndOfStream, BadFrame, Orphan, BadPacket, Refused, Bye, Packet, DeskInv, Seated
<1>2. CASE EndOfStream(c) \/ BadFrame(c) \/ Orphan(c)
  BY <1>1, <1>2 DEF EndOfStream, BadFrame, Orphan, Crash, Goto, Quiet, DeskInv,
                    PostTypeOK, Places, LinePlaces, chanVars
<1>3. CASE BadPacket(c)
  BY <1>1, <1>3 DEF BadPacket, Reply, Count, Goto, Quiet, DeskInv, PostTypeOK, Places,
                    LinePlaces
<1>4. CASE Refused(c)
  BY <1>1, <1>4 DEF Refused, Count, Goto, Quiet, DeskInv, PostTypeOK, Places, LinePlaces
<1>5. CASE Bye(c)
  BY <1>1, <1>5 DEF Bye, Packet, Cleanup, Goto, Quiet, DeskInv, PostTypeOK, Places,
                    LinePlaces, chanVars
<1> QED
  BY <1>2, <1>3, <1>4, <1>5

LEMMA ServeQuiet ==
    ASSUME DeskInv, NEW c \in Conns,
           \/ Query(c) \/ Malformed(c) \/ GetInboxWait(c)
           \/ \E k \in Keys : Register(c, k) \/ Unregister(c, k)
           \/ \E target \in Uuids : PutInboxGone(c, target)
    PROVE  Quiet(c)
<1>1. pc[c] = "idle" /\ who[c] \in Uuids
  BY DEF Query, Malformed, GetInboxWait, Register, Unregister, PutInboxGone, Packet, DeskInv, Seated
<1>2. /\ UNCHANGED <<who, peer, mailVars, chanVars>>
      /\ \E p \in {"sending", "getting", "crashed"} : Goto(c, p)
      /\ arg' = arg \/ arg' = [arg EXCEPT ![c] = Nothing]
  BY DEF Query, Malformed, GetInboxWait, Register, Unregister, PutInboxGone, Reply, Crash
<1>3. Goto(c, "getting") \/ arg' = [arg EXCEPT ![c] = Nothing]
  BY DEF Query, Malformed, GetInboxWait, Register, Unregister, PutInboxGone, Reply, Crash
<1>4. pc'[c] \in {"sending", "refusing"} => arg'[c] = Nothing
  BY <1>2, <1>3 DEF Goto, DeskInv, PostTypeOK
<1>5. pc[c] \notin LinePlaces /\ \E p \in Places \ LinePlaces : pc' = [pc EXCEPT ![c] = p]
  BY <1>1, <1>2 DEF Goto, Places, LinePlaces
<1> QED
  BY <1>1, <1>2, <1>4, <1>5 DEF Quiet, DeskInv, PostTypeOK, chanVars

-----------------------------------------------------------------------------
(* Steps that move mail or locks, one by one.                              *)

(* Types when the handler c moves on and its reply carries an item or not. *)
LEMMA MoveTypes ==
    ASSUME DeskInv, NEW c \in Conns, NEW p \in Places, NEW item \in Items \cup {Nothing},
           pc' = [pc EXCEPT ![c] = p], arg' = [arg EXCEPT ![c] = item]
    PROVE  /\ pc' \in [Conns -> Places] /\ pc'[c] = p
           /\ arg' \in [Conns -> Items \cup {Nothing}] /\ arg'[c] = item
           /\ \A d \in Conns \ {c} : pc'[d] = pc[d] /\ arg'[d] = arg[d]
  BY DEF DeskInv, PostTypeOK

(* How a reply looks: its item, or nothing if the client cannot read it.   *)
LEMMA ReplyCarries ==
    ASSUME NEW c, NEW item, NEW place, Reply(c, item, place)
    PROVE  /\ pc' = [pc EXCEPT ![c] = place]
           /\ \E x \in {item, Nothing} : arg' = [arg EXCEPT ![c] = x]
  BY DEF Reply, Goto

(* A handler outside every line stays outside: locks are not concerned.    *)
LEMMA NoLineChange ==
    ASSUME DeskInv, NEW c \in Conns, who' = who, lockq' = lockq,
           pc[c] \notin LinePlaces, pc'[c] \notin LinePlaces,
           \A d \in Conns \ {c} : pc'[d] = pc[d] /\ arg'[d] = arg[d],
           \A d \in Conns \ {c} : arg[d] # Nothing => from'[arg[d][1]] = from[arg[d][1]]
    PROVE  LockDiscipline'
<1>1. \A d \in Conns : pc[d] = "putwait" => arg[d] # Nothing
  BY DEF DeskInv, Known
<1>2. \A v \in Uuids : InLine(v)' = InLine(v)
  <2> SUFFICES ASSUME NEW v \in Uuids PROVE InLine(v)' = InLine(v)
    OBVIOUS
  <2>1. \A d \in Conns \ {c} : d \in InLine(v)' <=> d \in InLine(v)
    BY <1>1 DEF InLine
  <2>2. c \notin InLine(v) /\ c \notin InLine(v)'
    BY DEF InLine, LinePlaces
  <2> QED
    BY <2>1, <2>2 DEF InLine
<1>3. \A d \in Conns : pc'[d] = "sendlock" => pc[d] = "sendlock"
  BY DEF LinePlaces
<1> QED
  BY <1>2, <1>3, LinesKept DEF InLine

(* PUT_INBOX posts a request under an id that nothing carries yet.         *)
LEMMA PutInboxKeeps ==
    ASSUME DeskInv, BookInv', NEW c \in Conns, NEW r \in Rid, NEW target \in Uuids,
           PutInbox(c, r, target)
    PROVE  DeskInv'
<1>0. /\ who[c] \in Uuids /\ pc[c] = "idle"
      /\ pc' = [pc EXCEPT ![c] = "sending"]
      /\ inbox' = [inbox EXCEPT ![target] = Append(@, r)]
      /\ from' = [from EXCEPT ![r] = who[c]]
      /\ to' = [to EXCEPT ![r] = target]
      /\ UNCHANGED <<bookVars, who, peer, outbox, lockq, got, chanVars>>
  BY ReplyCarries DEF PutInbox, Packet, DeskInv, Seated
<1>1. PICK x \in {<<r, "ticket">>, Nothing} : arg' = [arg EXCEPT ![c] = x]
  BY ReplyCarries DEF PutInbox
<1>2. x \in Items \cup {Nothing}
  BY <1>1 DEF Items
<1>3. /\ pc' \in [Conns -> Places] /\ pc'[c] = "sending"
      /\ arg' \in [Conns -> Items \cup {Nothing}] /\ arg'[c] = x
      /\ \A d \in Conns \ {c} : pc'[d] = pc[d] /\ arg'[d] = arg[d]
  BY <1>0, <1>1, <1>2, MoveTypes DEF Places
<1>4. PostTypeOK'
  <2>1. inbox' \in [Uuids -> Seq(Rid)]
    BY <1>0, AppendLine DEF DeskInv, PostTypeOK
  <2>2. from' \in [Rid -> Uuids \cup {Nobody}] /\ to' \in [Rid -> Uuids \cup {Nobody}]
    BY <1>0 DEF DeskInv, PostTypeOK
  <2> QED
    BY <1>0, <1>3, <2>1, <2>2 DEF DeskInv, PostTypeOK, BookInv, chanVars
<1>5. Seated'
  BY <1>0, <1>3 DEF DeskInv, Seated
<1>6. \A q \in Rid : Posted(q) => Posted(q)'
  BY <1>0 DEF Posted, DeskInv, PostTypeOK
<1>7. Posted(r)' /\ ~Posted(r)
  BY <1>0, NobodyAssumption DEF Posted, PutInbox, Issued, DeskInv, PostTypeOK
<1>8. Known'
  <2>1. \A d \in Conns : arg'[d] # Nothing => arg'[d][1] \in Rid
    BY <1>3 DEF Items
  <2>2. \A d \in Conns : arg'[d] # Nothing => Posted(arg[d][1])'
    BY <1>1, <1>3, <1>6, <1>7, <2>1 DEF DeskInv, Known, Posted
  <2>3. \A d \in Conns : pc'[d] \in {"putwait", "getwait"} => arg'[d] # Nothing
    BY <1>3 DEF DeskInv, Known
  <2>4. \A u \in Uuids : \A y \in got[u] : y[1] \in Rid /\ Posted(y[1])
    BY DEF DeskInv, Known, PostTypeOK, Items
  <2>5. \A q \in Rid : Posted(q)' \/ (from'[q] = Nobody /\ to'[q] = Nobody)
    BY <1>0, <1>6, <1>7 DEF DeskInv, Known, PostTypeOK
  <2> QED
    BY <1>0, <1>6, <2>2, <2>3, <2>4, <2>5 DEF Known, Posted
<1>9. LockDiscipline'
  <2>1. \A d \in Conns : arg[d] # Nothing => arg[d][1] \in Rid /\ arg[d][1] # r
    BY <1>7 DEF DeskInv, Known, PostTypeOK, Items, Posted
  <2>2. \A d \in Conns : arg[d] # Nothing => from'[arg[d][1]] = from[arg[d][1]]
    BY <1>0, <2>1 DEF DeskInv, PostTypeOK
  <2> QED
    BY <1>0, <1>3, <2>2, NoLineChange DEF LinePlaces
<1> QED
  BY <1>4, <1>5, <1>8, <1>9 DEF DeskInv

(* No other step posts a request, so what was posted stays so.             *)
LEMMA KnownKept ==
    ASSUME DeskInv, NEW c \in Conns, UNCHANGED <<from, to>>,
           \A d \in Conns \ {c} : pc'[d] = pc[d] /\ arg'[d] = arg[d],
           arg'[c] # Nothing => Posted(arg'[c][1]),
           pc'[c] \in {"putwait", "getwait"} => arg'[c] # Nothing,
           \A u \in Uuids : \A y \in got'[u] : y \in got[u] \/ Posted(y[1])
    PROVE  Known'
  BY DEF DeskInv, Known, Posted

(* GET_INBOX, at once or after a wait, has the head of the inbox sent.     *)
LEMMA TakeKeeps ==
    ASSUME DeskInv, BookInv', NEW c \in Conns, GetInbox(c) \/ Take(c),
           \A i \in 1 .. Len(inbox[who[c]]) : Posted(inbox[who[c]][i])
    PROVE  DeskInv'
<1>0. /\ who[c] \in Uuids /\ pc[c] \in {"idle", "getting"}
      /\ inbox[who[c]] # <<>>
      /\ inbox' = [inbox EXCEPT ![who[c]] = Tail(@)]
      /\ UNCHANGED <<bookVars, who, peer, outbox, lockq, from, to, got, chanVars>>
  BY DEF GetInbox, Take, TakeHead, Packet, DeskInv, Seated
<1>1. PICK x \in {HeadRequest(c), Nothing}, p \in {"sending", "crashed"} :
         arg' = [arg EXCEPT ![c] = x] /\ pc' = [pc EXCEPT ![c] = p]
  BY ReplyCarries DEF GetInbox, Take, Crash, Goto
<1>2. /\ inbox[who[c]] \in Seq(Rid) /\ Head(inbox[who[c]]) \in Rid
      /\ Posted(Head(inbox[who[c]])) /\ Tail(inbox[who[c]]) \in Seq(Rid)
  BY <1>0, TailLine DEF DeskInv, PostTypeOK
<1>3. x \in Items \cup {Nothing} /\ (x # Nothing => Posted(x[1]))
  BY <1>1, <1>2 DEF HeadRequest, Items
<1>4. /\ pc' \in [Conns -> Places] /\ pc'[c] = p
      /\ arg' \in [Conns -> Items \cup {Nothing}] /\ arg'[c] = x
      /\ \A d \in Conns \ {c} : pc'[d] = pc[d] /\ arg'[d] = arg[d]
  BY <1>1, <1>3, MoveTypes DEF Places
<1>5. PostTypeOK'
  <2>1. inbox' \in [Uuids -> Seq(Rid)]
    BY <1>0, <1>2 DEF DeskInv, PostTypeOK
  <2> QED
    BY <1>0, <1>4, <2>1 DEF DeskInv, PostTypeOK, BookInv, chanVars
<1>6. Seated'
  BY <1>0, <1>4 DEF DeskInv, Seated
<1>7. Known'
  BY <1>0, <1>1, <1>3, <1>4, KnownKept
<1>8. LockDiscipline'
  BY <1>0, <1>1, <1>4, NoLineChange DEF LinePlaces
<1> QED
  BY <1>5, <1>6, <1>7, <1>8 DEF DeskInv

(* PUT_OUTBOX, unless it has to wait.                                      *)
LEMMA PutOutboxKeeps ==
    ASSUME DeskInv, BookInv', NEW c \in Conns, NEW r \in Rid,
           PutOutbox(c, r) \/ PutOutboxGone(c, r)
    PROVE  DeskInv'
<1>0. /\ who[c] \in Uuids /\ pc[c] = "idle" /\ <<r, "request">> \in got[who[c]]
      /\ got' = [got EXCEPT ![who[c]] = @ \ {<<r, "request">>}]
      /\ outbox' = outbox \/ outbox' = [outbox EXCEPT ![from[r]] = @ \cup {r}]
      /\ UNCHANGED <<bookVars, who, peer, inbox, lockq, from, to, chanVars>>
  BY DEF PutOutbox, PutOutboxGone, Answers, Packet, DeskInv, Seated
<1>1. PICK p \in {"sending", "crashed"} :
         arg' = [arg EXCEPT ![c] = Nothing] /\ pc' = [pc EXCEPT ![c] = p]
  BY ReplyCarries DEF PutOutbox, PutOutboxGone, Crash, Goto
<1>2. /\ pc' \in [Conns -> Places] /\ pc'[c] = p
      /\ arg' \in [Conns -> Items \cup {Nothing}] /\ arg'[c] = Nothing
      /\ \A d \in Conns \ {c} : pc'[d] = pc[d] /\ arg'[d] = arg[d]
  BY <1>1, MoveTypes DEF Places
<1>3. PostTypeOK'
  <2>0. outbox \in [Uuids -> SUBSET Rid] /\ got \in [Uuids -> SUBSET Items]
    BY DEF DeskInv, PostTypeOK
  <2>1. from[r] \in Uuids
    BY <1>0 DEF DeskInv, Known, Posted
  <2>2. outbox' \in [Uuids -> SUBSET Rid]
    BY <1>0, <2>0, <2>1
  <2>3. got' \in [Uuids -> SUBSET Items]
    BY <1>0, <2>0
  <2> QED
    BY <1>0, <1>2, <2>2, <2>3 DEF DeskInv, PostTypeOK, BookInv, chanVars
<1>4. Seated'
  BY <1>0, <1>2 DEF DeskInv, Seated
<1>5. Known'
  <2>1. \A u \in Uuids : \A y \in got'[u] : y \in got[u]
    BY <1>0 DEF DeskInv, PostTypeOK
  <2> QED
    BY <1>0, <1>1, <1>2, <2>1, KnownKept
<1>6. LockDiscipline'
  BY <1>0, <1>1, <1>2, NoLineChange DEF LinePlaces
<1> QED
  BY <1>3, <1>4, <1>5, <1>6 DEF DeskInv

(* Entering a line: PUT_OUTBOX and GET_OUTBOX that wait, and GET_OUTBOX    *)
(* that finds the lock free.                                               *)
LEMMA JoinKeeps ==
    ASSUME DeskInv, BookInv', NEW c \in Conns, NEW r \in Rid,
           PutOutboxWait(c, r) \/ GetOutboxWait(c, r) \/ GetOutbox(c, r)
    PROVE  DeskInv'
<1> DEFINE v == IF PutOutboxWait(c, r) THEN from[r] ELSE who[c]
<1>0. /\ who[c] \in Uuids /\ pc[c] = "idle"
      /\ UNCHANGED <<bookVars, who, peer, inbox, from, to, chanVars>>
  BY DEF PutOutboxWait, GetOutboxWait, GetOutbox, Answers, Packet, DeskInv, Seated
<1>11. /\ got \in [Uuids -> SUBSET Items]
       /\ outbox \in [Uuids -> SUBSET Rid]
  BY DEF DeskInv, PostTypeOK
<1>12. /\ got' = got \/ got' = [got EXCEPT ![who[c]] = @ \ {<<r, "request">>}]
       /\ \E y \in got[who[c]] : y[1] = r
  BY DEF PutOutboxWait, GetOutboxWait, GetOutbox, Answers
<1>13. /\ got' \in [Uuids -> SUBSET Items]
       /\ \A u \in Uuids : got'[u] \subseteq got[u]
  BY <1>0, <1>11, <1>12
<1>14. outbox' = outbox \/ outbox' = [outbox EXCEPT ![who[c]] = @ \ {r}]
  BY DEF PutOutboxWait, GetOutboxWait, GetOutbox, Fetch
<1>15. outbox' \in [Uuids -> SUBSET Rid]
  BY <1>0, <1>11, <1>14
<1>1. PICK x \in Items \cup {Nothing}, p \in LinePlaces :
         /\ arg' = [arg EXCEPT ![c] = x] /\ pc' = [pc EXCEPT ![c] = p]
         /\ x # Nothing => x[1] = r
         /\ p \in {"putwait", "getwait"} => x # Nothing
         /\ p = "putwait" <=> PutOutboxWait(c, r)
         /\ p = "sendlock" => lockq[who[c]] = <<>>
  <2>1. CASE PutOutboxWait(c, r)
    BY <2>1 DEF PutOutboxWait, Goto, Items, LinePlaces, Nothing
  <2>2. CASE GetOutboxWait(c, r) /\ ~PutOutboxWait(c, r)
    BY <2>2 DEF GetOutboxWait, Goto, Items, LinePlaces, Nothing
  <2>3. CASE GetOutbox(c, r) /\ ~PutOutboxWait(c, r)
    <3>1. PICK item \in {<<r, "answer">>, Nothing} : Reply(c, item, "sendlock")
      BY <2>3 DEF GetOutbox, Fetch
    <3>2. /\ pc' = [pc EXCEPT ![c] = "sendlock"]
          /\ \E x \in {item, Nothing} : arg' = [arg EXCEPT ![c] = x]
      BY <3>1, ReplyCarries
    <3>3. lockq[who[c]] = <<>>
      BY <2>3 DEF GetOutbox
    <3> QED
      BY <2>3, <3>1, <3>2, <3>3 DEF Items, LinePlaces
  <2> QED
    BY <2>1, <2>2, <2>3
<1>2. v \in Uuids /\ Posted(r)
  BY <1>0, <1>12 DEF DeskInv, Known, Posted
<1>3. lockq' = [lockq EXCEPT ![v] = Append(@, c)]
  <2>1. CASE PutOutboxWait(c, r)
    BY <2>1 DEF PutOutboxWait
  <2>2. CASE GetOutboxWait(c, r) /\ ~PutOutboxWait(c, r)
    BY <2>2 DEF GetOutboxWait
  <2>3. CASE GetOutbox(c, r) /\ ~PutOutboxWait(c, r)
    <3>1. Append(<<>>, c) = <<c>>
      OBVIOUS
    <3> QED
      BY <2>3, <3>1 DEF GetOutbox
  <2> QED
    BY <2>1, <2>2, <2>3
<1>4. /\ pc' \in [Conns -> Places] /\ pc'[c] = p
      /\ arg' \in [Conns -> Items \cup {Nothing}] /\ arg'[c] = x
      /\ \A d \in Conns \ {c} : pc'[d] = pc[d] /\ arg'[d] = arg[d]
  BY <1>1, MoveTypes DEF Places, LinePlaces
<1> HIDE DEF v
<1>5. PostTypeOK'
  <2>1. lockq' \in [Uuids -> Seq(Conns)]
    BY <1>2, <1>3, AppendLine DEF DeskInv, PostTypeOK
  <2> QED
    BY <1>0, <1>13, <1>15, <1>4, <2>1 DEF DeskInv, PostTypeOK, BookInv, chanVars
<1>6. Seated'
  BY <1>0, <1>4 DEF DeskInv, Seated
<1>7. Known'
  BY <1>0, <1>13, <1>1, <1>2, <1>4, KnownKept
<1>8. LockDiscipline'
  <2>1. \A u \in Uuids : c \notin InLine(u)
    BY <1>0 DEF InLine
  <2>2. \A u \in Uuids : c \in InLine(u)' <=> u = v
    BY <1>0, <1>1, <1>4 DEF InLine, LinePlaces, v
  <2>3. \A u \in Uuids : InLine(u)' = IF u = v THEN InLine(u) \cup {c} ELSE InLine(u)
    <3> SUFFICES ASSUME NEW u \in Uuids
                 PROVE  InLine(u)' = IF u = v THEN InLine(u) \cup {c} ELSE InLine(u)
      OBVIOUS
    <3>1. \A d \in Conns \ {c} : d \in InLine(u)' <=> d \in InLine(u)
      BY <1>0, <1>4, OthersStay
    <3>2. InLine(u)' \subseteq Conns /\ InLine(u) \subseteq Conns
      BY DEF InLine
    <3> QED
      BY <2>1, <2>2, <3>1, <3>2
  <2>4. pc'[c] = "sendlock" => lockq[v] = <<>>
    BY <1>1, <1>4 DEF v
  <2> QED
    BY <1>2, <1>3, <1>4, <2>1, <2>3, <2>4, LineJoined
<1> QED
  BY <1>5, <1>6, <1>7, <1>8 DEF DeskInv

(* Whoever sends with the lock, or finds itself at the head, holds it.     *)
LEMMA Holder ==
    ASSUME DeskInv, NEW u \in Uuids, NEW c \in InLine(u),
           pc[c] = "sendlock" \/ Head(lockq[u]) = c
    PROVE  lockq[u] # <<>> /\ lockq[u][1] = c
<1>1. Line(u) /\ lockq[u] \in Seq(Conns)
  BY DEF DeskInv, PostTypeOK, LockDiscipline
<1>2. PICK i \in 1 .. Len(lockq[u]) : lockq[u][i] = c
  BY <1>1 DEF Line
<1>3. lockq[u] # <<>>
  BY <1>1, <1>2
<1>4. CASE pc[c] = "sendlock"
  <2>1. i \notin 2 .. Len(lockq[u])
    BY <1>1, <1>2, <1>4 DEF Line
  <2>2. i = 1
    BY <1>1, <1>2, <2>1
  <2> QED
    BY <1>2, <1>3, <2>2
<1>5. CASE Head(lockq[u]) = c
  BY <1>1, <1>3, <1>5, TailLine
<1> QED
  BY <1>4, <1>5

(* The holder of a lock leaves its line.                                   *)
LEMMA Leaving ==
    ASSUME DeskInv, NEW c \in Conns, NEW v \in Uuids, c \in InLine(v),
           pc[c] = "sendlock" \/ Head(lockq[v]) = c,
           lockq' = [lockq EXCEPT ![v] = Tail(@)],
           who' = who, from' = from, pc'[c] \notin LinePlaces,
           \A d \in Conns \ {c} : pc'[d] = pc[d] /\ arg'[d] = arg[d]
    PROVE  LockDiscipline' /\ lockq' \in [Uuids -> Seq(Conns)]
<1>1. lockq[v] # <<>> /\ lockq[v][1] = c
  BY Holder
<1>2. lockq' \in [Uuids -> Seq(Conns)]
  BY <1>1, TailLine DEF DeskInv, PostTypeOK
<1>3. \A u \in Uuids : c \in InLine(u) <=> u = v
  BY DEF InLine
<1>4. \A u \in Uuids : InLine(u)' = InLine(u) \ {c}
  <2> SUFFICES ASSUME NEW u \in Uuids PROVE InLine(u)' = InLine(u) \ {c}
    OBVIOUS
  <2>1. \A d \in Conns \ {c} : d \in InLine(u)' <=> d \in InLine(u)
    BY OthersStay
  <2>2. c \notin InLine(u)'
    BY DEF InLine, LinePlaces
  <2>3. InLine(u)' \subseteq Conns /\ InLine(u) \subseteq Conns
    BY DEF InLine
  <2> QED
    BY <2>1, <2>2, <2>3
<1>5. \A d \in Conns \ {c} : pc'[d] = pc[d]
  OBVIOUS
<1>6. LockDiscipline'
  BY <1>1, <1>3, <1>4, <1>5, LineLeft
<1> QED
  BY <1>2, <1>6

(* A send ends, with or without success; a GET_OUTBOX leaves the lock.     *)
LEMMA SendKeeps ==
    ASSUME DeskInv, BookInv', NEW c \in Conns, SendDone(c) \/ SendOrphan(c) \/ SendFail(c)
    PROVE  DeskInv'
<1>0. /\ who[c] \in Uuids /\ pc[c] \in {"accepting", "sending", "sendlock", "refusing"}
      /\ UNCHANGED <<bookVars, who, peer, inbox, outbox, from, to, cipher>>
      /\ Release(c)
  BY DEF SendDone, SendOrphan, SendFail, DeskInv, Seated, chanVars
<1>1. PICK p \in {"idle", "crashed"} :
         arg' = [arg EXCEPT ![c] = Nothing] /\ pc' = [pc EXCEPT ![c] = p]
  BY DEF SendDone, SendOrphan, SendFail, Crash, Goto
<1>2. /\ pc' \in [Conns -> Places] /\ pc'[c] = p
      /\ arg' \in [Conns -> Items \cup {Nothing}] /\ arg'[c] = Nothing
      /\ \A d \in Conns \ {c} : pc'[d] = pc[d] /\ arg'[d] = arg[d]
  BY <1>1, MoveTypes DEF Places
<1>11. /\ skew \in [Uuids -> SUBSET {"tx", "rx"}]
       /\ got \in [Uuids -> SUBSET Items]
       /\ arg[c] # Nothing => arg[c] \in Items
  BY DEF DeskInv, PostTypeOK
<1>3. skew' \in [Uuids -> SUBSET {"tx", "rx"}]
  <2>1. \/ skew' = skew
        \/ skew' = [skew EXCEPT ![who[c]] = @]
        \/ skew' = [skew EXCEPT ![who[c]] = @ \cup {"tx"}]
    BY DEF SendDone, SendOrphan, SendFail, Count, chanVars
  <2> QED
    BY <1>0, <1>11, <2>1
<1>4. \/ got' = got
      \/ arg[c] # Nothing /\ got' = [got EXCEPT ![who[c]] = @ \cup {arg[c]}]
  BY DEF SendDone, SendOrphan, SendFail
<1>5. got' \in [Uuids -> SUBSET Items]
  BY <1>0, <1>11, <1>4
<1>6. \A u \in Uuids : \A y \in got'[u] : y \in got[u] \/ Posted(y[1])
  <2>1. \A u \in Uuids : \A y \in got'[u] : y \in got[u] \/ (y = arg[c] /\ arg[c] # Nothing)
    BY <1>11, <1>4
  <2> QED
    BY <2>1 DEF DeskInv, Known
<1>7. LockDiscipline' /\ lockq' \in [Uuids -> Seq(Conns)]
  <2>1. CASE pc[c] = "sendlock"
    <3>1. c \in InLine(who[c])
      BY <2>1 DEF InLine
    <3>2. lockq' = [lockq EXCEPT ![who[c]] = Tail(@)]
      BY <1>0, <2>1 DEF Release
    <3> QED
      BY <1>0, <1>1, <1>2, <2>1, <3>1, <3>2, Leaving DEF LinePlaces
  <2>2. CASE pc[c] # "sendlock"
    <3>1. lockq' = lockq
      BY <1>0, <2>2 DEF Release
    <3>2. pc[c] \notin LinePlaces /\ pc'[c] \notin LinePlaces
      BY <1>0, <1>1, <1>2, <2>2 DEF LinePlaces
    <3> QED
      BY <1>0, <1>2, <3>1, <3>2, NoLineChange DEF DeskInv, PostTypeOK
  <2> QED
    BY <2>1, <2>2
<1>8. PostTypeOK'
  BY <1>0, <1>2, <1>3, <1>5, <1>7 DEF DeskInv, PostTypeOK, BookInv
<1>9. Seated'
  BY <1>0, <1>2 DEF DeskInv, Seated
<1>10. Known'
  BY <1>0, <1>1, <1>2, <1>6, KnownKept
<1> QED
  BY <1>7, <1>8, <1>9, <1>10 DEF DeskInv

(* PUT_OUTBOX gets the lock: it writes and leaves.                         *)
LEMMA PutOutboxLockedKeeps ==
    ASSUME DeskInv, BookInv', NEW c \in Conns, PutOutboxLocked(c)
    PROVE  DeskInv'
<1> DEFINE r == arg[c][1]
<1>0. /\ pc[c] = "putwait" /\ who[c] \in Uuids /\ arg[c] # Nothing
      /\ Head(lockq[from[r]]) = c
      /\ outbox' = [outbox EXCEPT ![from[r]] = @ \cup {r}]
      /\ lockq' = [lockq EXCEPT ![from[r]] = Tail(@)]
      /\ UNCHANGED <<bookVars, who, peer, inbox, from, to, got, chanVars>>
  BY DEF PutOutboxLocked, DeskInv, Seated, Known
<1>1. PICK p \in {"sending", "crashed"} :
         arg' = [arg EXCEPT ![c] = Nothing] /\ pc' = [pc EXCEPT ![c] = p]
  BY ReplyCarries DEF PutOutboxLocked, Crash, Goto
<1>2. /\ pc' \in [Conns -> Places] /\ pc'[c] = p
      /\ arg' \in [Conns -> Items \cup {Nothing}] /\ arg'[c] = Nothing
      /\ \A d \in Conns \ {c} : pc'[d] = pc[d] /\ arg'[d] = arg[d]
  BY <1>1, MoveTypes DEF Places
<1>3. r \in Rid /\ from[r] \in Uuids
  BY <1>0 DEF DeskInv, Known, Posted, PostTypeOK, Items
<1> HIDE DEF r
<1>4. LockDiscipline' /\ lockq' \in [Uuids -> Seq(Conns)]
  <2>1. c \in InLine(from[r])
    BY <1>0 DEF InLine, r
  <2> QED
    BY <1>0, <1>1, <1>2, <1>3, <2>1, Leaving DEF LinePlaces
<1>5. outbox' \in [Uuids -> SUBSET Rid]
  BY <1>0, <1>3 DEF DeskInv, PostTypeOK
<1>6. PostTypeOK'
  BY <1>0, <1>2, <1>4, <1>5 DEF DeskInv, PostTypeOK, BookInv, chanVars
<1>7. Seated'
  BY <1>0, <1>2 DEF DeskInv, Seated
<1>8. Known'
  BY <1>0, <1>1, <1>2, KnownKept
<1> QED
  BY <1>4, <1>6, <1>7, <1>8 DEF DeskInv

(* GET_OUTBOX gets the lock: it sends with it, or dies and leaves it.      *)
LEMMA GetOutboxLockedKeeps ==
    ASSUME DeskInv, BookInv', NEW c \in Conns, GetOutboxLocked(c)
    PROVE  DeskInv'
<1> DEFINE r == arg[c][1]
<1>0. /\ pc[c] = "getwait" /\ who[c] \in Uuids /\ arg[c] # Nothing
      /\ Head(lockq[who[c]]) = c
      /\ outbox' = [outbox EXCEPT ![who[c]] = @ \ {r}]
      /\ UNCHANGED <<bookVars, who, peer, inbox, from, to, got, chanVars>>
  BY DEF GetOutboxLocked, Fetch, DeskInv, Seated, Known
<1>1. r \in Rid /\ Posted(r)
  BY <1>0 DEF DeskInv, Known, PostTypeOK, Items
<1>2. PICK p \in {"sendlock", "crashed"}, x \in {<<r, "answer">>, Nothing} :
         /\ arg' = [arg EXCEPT ![c] = x] /\ pc' = [pc EXCEPT ![c] = p]
         /\ p = "sendlock" => lockq' = lockq
         /\ p = "crashed" => lockq' = [lockq EXCEPT ![who[c]] = Tail(@)]
  <2>1. CASE who[c] \in sessions
    <3>1. PICK item \in {<<r, "answer">>, Nothing} : Reply(c, item, "sendlock")
      BY <2>1 DEF GetOutboxLocked, Fetch
    <3>2. /\ pc' = [pc EXCEPT ![c] = "sendlock"]
          /\ \E x \in {item, Nothing} : arg' = [arg EXCEPT ![c] = x]
      BY <3>1, ReplyCarries
    <3>3. lockq' = lockq
      BY <2>1 DEF GetOutboxLocked
    <3> QED
      BY <3>1, <3>2, <3>3
  <2>2. CASE who[c] \notin sessions
    BY <2>2 DEF GetOutboxLocked, Crash, Goto
  <2> QED
    BY <2>1, <2>2
<1>3. x \in Items \cup {Nothing} /\ (x # Nothing => Posted(x[1]))
  BY <1>1, <1>2 DEF Items
<1>4. /\ pc' \in [Conns -> Places] /\ pc'[c] = p
      /\ arg' \in [Conns -> Items \cup {Nothing}] /\ arg'[c] = x
      /\ \A d \in Conns \ {c} : pc'[d] = pc[d] /\ arg'[d] = arg[d]
  BY <1>2, <1>3, MoveTypes DEF Places
<1>5. c \in InLine(who[c])
  BY <1>0 DEF InLine
<1>6. LockDiscipline' /\ lockq' \in [Uuids -> Seq(Conns)]
  <2>1. CASE p = "crashed"
    BY <1>0, <1>2, <1>4, <1>5, <2>1, Leaving DEF LinePlaces
  <2>2. CASE p = "sendlock"
    <3>1. lockq[who[c]][1] = c
      BY <1>0, <1>5, Holder
    <3>2. \A u \in Uuids : InLine(u)' = InLine(u)
      <4> SUFFICES ASSUME NEW u \in Uuids PROVE InLine(u)' = InLine(u)
        OBVIOUS
      <4>1. \A d \in Conns \ {c} : d \in InLine(u)' <=> d \in InLine(u)
        BY <1>0, <1>4, OthersStay
      <4>2. c \in InLine(u)' <=> c \in InLine(u)
        BY <1>0, <1>4, <2>2 DEF InLine
      <4>3. InLine(u)' \subseteq Conns /\ InLine(u) \subseteq Conns
        BY DEF InLine
      <4> QED
        BY <4>1, <4>2, <4>3
    <3>3. \A u \in Uuids : c \in InLine(u) => u = who[c]
      BY <1>0 DEF InLine
    <3>4. \A u \in Uuids : \A d \in InLine(u) :
             pc'[d] = "sendlock" => pc[d] = "sendlock" \/ lockq[u][1] = d
      BY <1>4, <3>1, <3>3 DEF InLine
    <3>5. lockq' = lockq
      BY <1>2, <2>2
    <3> QED
      BY <3>2, <3>4, <3>5, LinesKept DEF DeskInv, PostTypeOK
  <2> QED
    BY <1>2, <2>1, <2>2
<1>7. outbox' \in [Uuids -> SUBSET Rid]
  BY <1>0 DEF DeskInv, PostTypeOK
<1>8. PostTypeOK'
  BY <1>0, <1>4, <1>6, <1>7 DEF DeskInv, PostTypeOK, BookInv, chanVars
<1>9. Seated'
  BY <1>0, <1>4 DEF DeskInv, Seated
<1>10. Known'
  BY <1>0, <1>2, <1>3, <1>4, KnownKept
<1> QED
  BY <1>6, <1>8, <1>9, <1>10 DEF DeskInv

-----------------------------------------------------------------------------
(* Who is given what.  The inboxes are part of the invariant: what is in   *)
(* one was posted to its uuid.                                             *)

InboxRouted ==
    \A u \in Uuids : \A i \in 1 .. Len(inbox[u]) :
        to[inbox[u][i]] = u /\ Posted(inbox[u][i])

RouteInv == Routing /\ InboxRouted

SendPlaces == {"sending", "sendlock", "refusing"}

(* Nothing posted: what was routed stays so, and c adds what is.           *)
LEMMA RouteKept ==
    ASSUME DeskInv, RouteInv, NEW c \in Conns, UNCHANGED <<from, to>>,
           \A d \in Conns \ {c} : pc'[d] = pc[d] /\ arg'[d] = arg[d] /\ who'[d] = who[d],
           pc'[c] \in SendPlaces /\ arg'[c] # Nothing => who'[c] = Addressee(arg'[c]),
           \A u \in Uuids : \A x \in got'[u] : x \in got[u] \/ u = Addressee(x),
           \A u \in Uuids : \A r \in outbox'[u] : r \in outbox[u] \/ u = from[r],
           \A u \in Uuids : \A i \in 1 .. Len(inbox'[u]) :
               \E j \in 1 .. Len(inbox[u]) : inbox'[u][i] = inbox[u][j]
    PROVE  RouteInv'
<1>1. \A d \in Conns :
         pc'[d] \in SendPlaces /\ arg'[d] # Nothing => who'[d] = Addressee(arg'[d])
  BY DEF RouteInv, Routing, SendPlaces
<1>2. Routing'
  BY <1>1 DEF RouteInv, Routing, Addressee, SendPlaces
<1>3. InboxRouted'
  BY DEF RouteInv, InboxRouted, Posted
<1> QED
  BY <1>2, <1>3 DEF RouteInv

LEMMA QuietRoutes ==
    ASSUME DeskInv, RouteInv, NEW c \in Conns, Quiet(c)
    PROVE  RouteInv'
<1>1. \A d \in Conns \ {c} : pc'[d] = pc[d] /\ arg'[d] = arg[d] /\ who'[d] = who[d]
  BY DEF Quiet, DeskInv, PostTypeOK
<1>2. pc'[c] \in SendPlaces => arg'[c] = Nothing
  BY DEF Quiet, DeskInv, PostTypeOK, SendPlaces, LinePlaces
<1> QED
  BY <1>1, <1>2, RouteKept DEF Quiet, mailVars

LEMMA PutInboxRoutes ==
    ASSUME DeskInv, RouteInv, NEW c \in Conns, NEW r \in Rid, NEW target \in Uuids,
           PutInbox(c, r, target)
    PROVE  RouteInv'
<1>0. /\ who[c] \in Uuids
      /\ pc' = [pc EXCEPT ![c] = "sending"]
      /\ inbox' = [inbox EXCEPT ![target] = Append(@, r)]
      /\ from' = [from EXCEPT ![r] = who[c]]
      /\ to' = [to EXCEPT ![r] = target]
      /\ UNCHANGED <<who, outbox, got>>
  BY ReplyCarries DEF PutInbox, Packet, DeskInv, Seated
<1>1. PICK x \in {<<r, "ticket">>, Nothing} : arg' = [arg EXCEPT ![c] = x]
  BY ReplyCarries DEF PutInbox
<1>2. ~Posted(r) /\ from'[r] = who[c] /\ to'[r] = target
  BY <1>0, NobodyAssumption DEF Posted, PutInbox, Issued, DeskInv, PostTypeOK
<1>3. \A q \in Rid : q # r => from'[q] = from[q] /\ to'[q] = to[q]
  BY <1>0 DEF DeskInv, PostTypeOK
<1>4. \A y \in Items : Posted(y[1]) => y[1] \in Rid /\ y[1] # r
  BY <1>2 DEF Items
<1>5. Routing'
  <2>1. ASSUME NEW d \in Conns, pc'[d] \in SendPlaces, arg'[d] # Nothing
        PROVE  who'[d] = IF arg'[d][2] = "request" THEN to'[arg'[d][1]] ELSE from'[arg'[d][1]]
    <3>1. CASE d = c
      BY <1>0, <1>1, <1>2, <2>1, <3>1 DEF DeskInv, PostTypeOK
    <3>2. CASE d # c
      <4>1. /\ pc[d] \in SendPlaces /\ arg'[d] = arg[d] /\ who'[d] = who[d]
            /\ arg[d] \in Items /\ Posted(arg[d][1])
        BY <1>0, <1>1, <2>1, <3>2 DEF DeskInv, PostTypeOK, Known
      <4>2. who[d] = Addressee(arg[d])
        BY <2>1, <4>1 DEF RouteInv, Routing, SendPlaces
      <4> QED
        BY <1>3, <1>4, <4>1, <4>2 DEF Addressee
    <3> QED
      BY <3>1, <3>2
  <2>2. ASSUME NEW u \in Uuids, NEW y \in got[u]
        PROVE  u = IF y[2] = "request" THEN to'[y[1]] ELSE from'[y[1]]
    <3>1. y \in Items /\ Posted(y[1]) /\ u = Addressee(y)
      BY DEF DeskInv, PostTypeOK, Known, RouteInv, Routing
    <3> QED
      BY <1>3, <1>4, <3>1 DEF Addressee
  <2>3. ASSUME NEW u \in Uuids, NEW q \in outbox[u] PROVE u = from'[q]
    <3>1. q \in Rid /\ from[q] = u
      BY DEF DeskInv, PostTypeOK, RouteInv, Routing
    <3>2. Posted(q)
      BY <3>1, NobodyAssumption DEF DeskInv, Known
    <3>3. q # r
      BY <1>2, <3>2
    <3> QED
      BY <1>3, <3>1, <3>3
  <2> QED
    BY <1>0, <2>1, <2>2, <2>3 DEF Routing, Addressee, SendPlaces
<1>6. InboxRouted'
  <2> SUFFICES ASSUME NEW u \in Uuids, NEW i \in 1 .. Len(inbox'[u])
               PROVE  to'[inbox'[u][i]] = u /\ Posted(inbox[u][i])'
    BY DEF InboxRouted
  <2>1. inbox[u] \in Seq(Rid) /\ inbox[target] \in Seq(Rid)
    BY DEF DeskInv, PostTypeOK
  <2>2. \A j \in 1 .. Len(inbox[u]) :
           inbox[u][j] \in Rid /\ to[inbox[u][j]] = u /\ Posted(inbox[u][j])
    BY <2>1 DEF RouteInv, InboxRouted
  <2>3. (\E j \in 1 .. Len(inbox[u]) : inbox'[u][i] = inbox[u][j])
        \/ (u = target /\ inbox'[u][i] = r)
    <3>1. CASE u # target
      BY <1>0, <3>1 DEF DeskInv, PostTypeOK
    <3>2. CASE u = target
      <4>1. inbox'[u] = Append(inbox[u], r)
        BY <1>0, <3>2 DEF DeskInv, PostTypeOK
      <4>2. /\ Len(inbox'[u]) = Len(inbox[u]) + 1 /\ Len(inbox[u]) \in Nat
            /\ \A j \in 1 .. Len(inbox[u]) : inbox'[u][j] = inbox[u][j]
            /\ inbox'[u][Len(inbox[u]) + 1] = r
        BY <2>1, <4>1, AppendLine
      <4> QED
        BY <3>2, <4>2
    <3> QED
      BY <3>1, <3>2
  <2>4. CASE u = target /\ inbox'[u][i] = r
    BY <1>0, <1>2, <2>4 DEF Posted
  <2>5. CASE \E j \in 1 .. Len(inbox[u]) : inbox'[u][i] = inbox[u][j]
    <3>1. inbox'[u][i] \in Rid /\ to[inbox'[u][i]] = u /\ inbox'[u][i] # r
          /\ from[inbox'[u][i]] \in Uuids
      BY <1>2, <2>2, <2>5 DEF Posted
    <3> QED
      BY <1>3, <3>1 DEF Posted
  <2> QED
    BY <2>3, <2>4, <2>5
<1> QED
  BY <1>5, <1>6 DEF RouteInv

LEMMA TakeRoutes ==
    ASSUME DeskInv, RouteInv, NEW c \in Conns, GetInbox(c) \/ Take(c)
    PROVE  RouteInv'
<1>0. /\ who[c] \in Uuids
      /\ inbox[who[c]] # <<>>
      /\ inbox' = [inbox EXCEPT ![who[c]] = Tail(@)]
      /\ UNCHANGED <<who, outbox, from, to, got>>
  BY DEF GetInbox, Take, TakeHead, Packet, DeskInv, Seated
<1>1. PICK x \in {HeadRequest(c), Nothing}, p \in {"sending", "crashed"} :
         arg' = [arg EXCEPT ![c] = x] /\ pc' = [pc EXCEPT ![c] = p]
  BY ReplyCarries DEF GetInbox, Take, Crash, Goto
<1> DEFINE s == inbox[who[c]]
<1>2. /\ s \in Seq(Rid) /\ Len(s) \in Nat \ {0} /\ Head(s) = s[1]
      /\ Len(Tail(s)) = Len(s) - 1
      /\ \A i \in 1 .. Len(s) - 1 : Tail(s)[i] = s[i + 1]
  BY <1>0, TailLine DEF DeskInv, PostTypeOK
<1>3. to[Head(s)] = who[c]
  BY <1>0, <1>2 DEF RouteInv, InboxRouted
<1>4. x # Nothing => who[c] = Addressee(x)
  BY <1>1, <1>3 DEF HeadRequest, Addressee
<1>5. \A d \in Conns \ {c} : pc'[d] = pc[d] /\ arg'[d] = arg[d] /\ who'[d] = who[d]
  BY <1>0, <1>1 DEF DeskInv, PostTypeOK
<1>6. arg'[c] = x
  BY <1>1 DEF DeskInv, PostTypeOK
<1>7. \A u \in Uuids : \A i \in 1 .. Len(inbox'[u]) :
         \E j \in 1 .. Len(inbox[u]) : inbox'[u][i] = inbox[u][j]
  <2> SUFFICES ASSUME NEW u \in Uuids, NEW i \in 1 .. Len(inbox'[u])
               PROVE  \E j \in 1 .. Len(inbox[u]) : inbox'[u][i] = inbox[u][j]
    OBVIOUS
  <2>1. CASE u # who[c]
    BY <1>0, <2>1 DEF DeskInv, PostTypeOK
  <2>2. CASE u = who[c]
    <3>1. inbox'[u] = Tail(s)
      BY <1>0, <2>2 DEF DeskInv, PostTypeOK
    <3>2. i + 1 \in 1 .. Len(s) /\ Tail(s)[i] = s[i + 1]
      BY <1>2, <3>1
    <3> QED
      BY <2>2, <3>1, <3>2
  <2> QED
    BY <2>1, <2>2
<1> QED
  BY <1>0, <1>4, <1>5, <1>6, <1>7, RouteKept

LEMMA OutboxRoutes ==
    ASSUME DeskInv, RouteInv, NEW c \in Conns, NEW r \in Rid,
           \/ PutOutbox(c, r) \/ PutOutboxWait(c, r) \/ PutOutboxGone(c, r)
           \/ GetOutbox(c, r) \/ GetOutboxWait(c, r)
    PROVE  RouteInv'
<1>0. /\ who[c] \in Uuids /\ UNCHANGED <<who, inbox, from, to>>
      /\ pc[c] = "idle"
  BY DEF PutOutbox, PutOutboxWait, PutOutboxGone, GetOutbox, GetOutboxWait, Answers, Packet,
         DeskInv, Seated
<1>1. \/ got' = got
      \/ got' = [got EXCEPT ![who[c]] = @ \ {<<r, "request">>}]
  BY DEF PutOutbox, PutOutboxWait, PutOutboxGone, GetOutbox, GetOutboxWait, Answers
<1>2. \A u \in Uuids : \A x \in got'[u] : x \in got[u]
  BY <1>1 DEF DeskInv, PostTypeOK
<1>3. \/ outbox' = outbox
      \/ outbox' = [outbox EXCEPT ![from[r]] = @ \cup {r}]
      \/ outbox' = [outbox EXCEPT ![who[c]] = @ \ {r}]
  BY DEF PutOutbox, PutOutboxWait, PutOutboxGone, GetOutbox, GetOutboxWait, Fetch
<1>4. \A u \in Uuids : \A q \in outbox'[u] : q \in outbox[u] \/ u = from[q]
  <2>1. outbox \in [Uuids -> SUBSET Rid]
    BY DEF DeskInv, PostTypeOK
  <2>2. ASSUME NEW u \in Uuids, NEW q \in outbox'[u], outbox' = [outbox EXCEPT ![from[r]] = @ \cup {r}]
        PROVE  q \in outbox[u] \/ u = from[q]
    BY <2>1, <2>2
  <2>3. ASSUME NEW u \in Uuids, NEW q \in outbox'[u], outbox' = [outbox EXCEPT ![who[c]] = @ \ {r}]
        PROVE  q \in outbox[u]
    BY <1>0, <2>1, <2>3
  <2> QED
    BY <1>3, <2>2, <2>3
<1>5. \E p \in Places, x \in Items \cup {Nothing} :
         /\ arg' = [arg EXCEPT ![c] = x] /\ pc' = [pc EXCEPT ![c] = p]
         /\ p \in SendPlaces /\ x # Nothing => x = <<r, "answer">> /\ r \in outbox[who[c]]
  <2>1. CASE PutOutbox(c, r)
    BY <2>1, ReplyCarries DEF PutOutbox, Places
  <2>2. CASE PutOutboxWait(c, r) \/ PutOutboxGone(c, r) \/ GetOutboxWait(c, r)
    BY <2>2 DEF PutOutboxWait, PutOutboxGone, GetOutboxWait, Crash, Goto, Places, Items, SendPlaces
  <2>3. CASE GetOutbox(c, r)
    <3>1. PICK item \in {<<r, "answer">>, Nothing} :
             Reply(c, item, "sendlock") /\ (item # Nothing => r \in outbox[who[c]])
      BY <2>3 DEF GetOutbox, Fetch
    <3> QED
      BY <3>1, ReplyCarries DEF Places, Items
  <2> QED
    BY <2>1, <2>2, <2>3
<1>6. pc'[c] \in SendPlaces /\ arg'[c] # Nothing => who'[c] = Addressee(arg'[c])
  <2>1. \A q \in outbox[who[c]] : from[q] = who[c]
    BY <1>0 DEF RouteInv, Routing
  <2> QED
    BY <1>0, <1>5, <2>1 DEF Addressee, DeskInv, PostTypeOK
<1>7. \A d \in Conns \ {c} : pc'[d] = pc[d] /\ arg'[d] = arg[d] /\ who'[d] = who[d]
  BY <1>0, <1>5 DEF DeskInv, PostTypeOK
<1> QED
  BY <1>0, <1>2, <1>4, <1>6, <1>7, RouteKept

LEMMA SendRoutes ==
    ASSUME DeskInv, RouteInv, NEW c \in Conns, SendDone(c) \/ SendOrphan(c) \/ SendFail(c)
    PROVE  RouteInv'
<1>0. /\ who[c] \in Uuids /\ UNCHANGED <<who, inbox, outbox, from, to>>
  BY DEF SendDone, SendOrphan, SendFail, DeskInv, Seated
<1>1. PICK p \in {"idle", "crashed"} :
         arg' = [arg EXCEPT ![c] = Nothing] /\ pc' = [pc EXCEPT ![c] = p]
  BY DEF SendDone, SendOrphan, SendFail, Crash, Goto
<1>2. \/ got' = got
      \/ /\ pc[c] \in SendPlaces /\ arg[c] # Nothing
         /\ got' = [got EXCEPT ![who[c]] = @ \cup {arg[c]}]
  BY DEF SendDone, SendOrphan, SendFail, SendPlaces
<1>3. \A u \in Uuids : \A x \in got'[u] : x \in got[u] \/ u = Addressee(x)
  <2>1. got \in [Uuids -> SUBSET Items]
    BY DEF DeskInv, PostTypeOK
  <2>2. pc[c] \in SendPlaces /\ arg[c] # Nothing => who[c] = Addressee(arg[c])
    BY DEF RouteInv, Routing, SendPlaces
  <2> QED
    BY <1>0, <1>2, <2>1, <2>2
<1>4. pc'[c] \notin SendPlaces
  BY <1>1 DEF DeskInv, PostTypeOK, SendPlaces
<1>5. \A d \in Conns \ {c} : pc'[d] = pc[d] /\ arg'[d] = arg[d] /\ who'[d] = who[d]
  BY <1>0, <1>1 DEF DeskInv, PostTypeOK
<1> QED
  BY <1>0, <1>3, <1>4, <1>5, RouteKept

LEMMA PutOutboxLockedRoutes ==
    ASSUME DeskInv, RouteInv, NEW c \in Conns, PutOutboxLocked(c)
    PROVE  RouteInv'
<1> DEFINE r == arg[c][1]
<1>0. /\ outbox' = [outbox EXCEPT ![from[r]] = @ \cup {r}]
      /\ UNCHANGED <<who, inbox, from, to, got>>
  BY DEF PutOutboxLocked
<1>1. PICK p \in {"sending", "crashed"} :
         arg' = [arg EXCEPT ![c] = Nothing] /\ pc' = [pc EXCEPT ![c] = p]
  BY ReplyCarries DEF PutOutboxLocked, Crash, Goto
<1>2. /\ arg'[c] = Nothing
      /\ \A d \in Conns \ {c} : pc'[d] = pc[d] /\ arg'[d] = arg[d] /\ who'[d] = who[d]
  BY <1>0, <1>1 DEF DeskInv, PostTypeOK
<1> HIDE DEF r
<1>3. \A u \in Uuids : \A q \in outbox'[u] : q \in outbox[u] \/ u = from[q]
  <2>1. outbox \in [Uuids -> SUBSET Rid]
    BY DEF DeskInv, PostTypeOK
  <2> QED
    BY <1>0, <2>1
<1> QED
  BY <1>0, <1>2, <1>3, RouteKept

LEMMA GetOutboxLockedRoutes ==
    ASSUME DeskInv, RouteInv, NEW c \in Conns, GetOutboxLocked(c)
    PROVE  RouteInv'
<1> DEFINE r == arg[c][1]
<1>0. /\ who[c] \in Uuids
      /\ outbox' = [outbox EXCEPT ![who[c]] = @ \ {r}]
      /\ UNCHANGED <<who, inbox, from, to, got>>
  BY DEF GetOutboxLocked, Fetch, DeskInv, Seated
<1>1. PICK x \in {<<r, "answer">>, Nothing}, p \in {"sendlock", "crashed"} :
         /\ arg' = [arg EXCEPT ![c] = x] /\ pc' = [pc EXCEPT ![c] = p]
         /\ x # Nothing => r \in outbox[who[c]]
  <2>1. CASE who[c] \in sessions
    <3>1. PICK item \in {<<r, "answer">>, Nothing} :
             Reply(c, item, "sendlock") /\ (item # Nothing => r \in outbox[who[c]])
      BY <2>1 DEF GetOutboxLocked, Fetch
    <3> QED
      BY <3>1, ReplyCarries
  <2>2. CASE who[c] \notin sessions
    BY <2>2 DEF GetOutboxLocked, Crash, Goto
  <2> QED
    BY <2>1, <2>2
<1>2. /\ arg'[c] = x
      /\ \A d \in Conns \ {c} : pc'[d] = pc[d] /\ arg'[d] = arg[d] /\ who'[d] = who[d]
  BY <1>0, <1>1 DEF DeskInv, PostTypeOK
<1>3. x # Nothing => who[c] = Addressee(x)
  BY <1>0, <1>1 DEF RouteInv, Routing, Addressee
<1> HIDE DEF r
<1>4. \A u \in Uuids : \A q \in outbox'[u] : q \in outbox[u]
  <2>1. outbox \in [Uuids -> SUBSET Rid]
    BY DEF DeskInv, PostTypeOK
  <2> QED
    BY <1>0, <2>1
<1> QED
  BY <1>0, <1>2, <1>3, <1>4, RouteKept

-----------------------------------------------------------------------------
(* The three invariants together are inductive.                            *)

PostInv == BookInv /\ DeskInv /\ RouteInv

LEMMA PostInvInit == Init => PostInv
<1> SUFFICES ASSUME Init PROVE PostInv
  OBVIOUS
<1>1. BookInv
  BY BookInvInit DEF Init
<1>2. PostTypeOK
  BY <1>1, PostOfficeAssumption DEF Init, PostTypeOK, BookInv, Places, Rid
<1>3. Seated /\ Known
  BY DEF Init, Seated, Known, Posted
<1>4. LockDiscipline
  <2> SUFFICES ASSUME NEW u \in Uuids PROVE Line(u)
    BY DEF LockDiscipline
  <2>1. lockq[u] = <<>> /\ Len(lockq[u]) = 0
    BY DEF Init
  <2>2. InLine(u) = {}
    BY DEF Init, InLine
  <2> QED
    BY <2>1, <2>2 DEF Line
<1>5. RouteInv
  BY DEF Init, RouteInv, Routing, InboxRouted
<1> QED
  BY <1>1, <1>2, <1>3, <1>4, <1>5 DEF PostInv, DeskInv

(* A client that goes away changes nothing the server knows.               *)
LEMMA DisconnectKeeps ==
    ASSUME DeskInv, RouteInv, NEW c \in Conns, Disconnect(c)
    PROVE  DeskInv' /\ RouteInv'
<1>1. PostTypeOK'
  BY DEF Disconnect, DeskInv, PostTypeOK, BookTypeOK, bookVars, mailVars, chanVars
<1>2. Seated' /\ Known'
  BY DEF Disconnect, DeskInv, Seated, Known, Posted, mailVars
<1>3. LockDiscipline'
  <2>1. \A u \in Uuids : InLine(u)' = InLine(u)
    BY DEF Disconnect, InLine, mailVars
  <2> QED
    BY <2>1, LinesKept DEF Disconnect, mailVars
<1>4. RouteInv'
  BY RouteKept DEF Disconnect, mailVars, RouteInv, Routing, SendPlaces
<1> QED
  BY <1>1, <1>2, <1>3, <1>4 DEF DeskInv

LEMMA StutterKeeps ==
    ASSUME PostInv, UNCHANGED vars
    PROVE  DeskInv' /\ RouteInv'
<1> USE DEF vars, bookVars, deskVars, mailVars, chanVars
<1>1. PostTypeOK' /\ Seated' /\ Known'
  BY DEF PostInv, DeskInv, PostTypeOK, BookTypeOK, Seated, Known, Posted
<1>2. LockDiscipline'
  <2>1. \A u \in Uuids : InLine(u)' = InLine(u)
    BY DEF InLine
  <2> QED
    BY <2>1, LinesKept DEF PostInv
<1>3. RouteInv'
  BY DEF PostInv, RouteInv, Routing, InboxRouted, Posted, Addressee
<1> QED
  BY <1>1, <1>2, <1>3 DEF DeskInv

LEMMA PostInvStep == PostInv /\ [Next]_vars => PostInv'
<1> SUFFICES ASSUME PostInv, [Next]_vars PROVE PostInv'
  OBVIOUS
<1> USE DEF PostInv
<1>1. BookInv'
  BY HandlersFollowBook, BookInvStep
<1>2. ASSUME NEW c \in Conns, Quiet(c) PROVE DeskInv' /\ RouteInv'
  BY <1>1, <1>2, QuietKeeps, QuietRoutes
<1>3. ASSUME NEW c \in Conns, Connect(c) PROVE DeskInv' /\ RouteInv'
  BY <1>2, <1>3, ConnectQuiet
<1>4. ASSUME NEW c \in Conns, Disconnect(c) PROVE DeskInv' /\ RouteInv'
  BY <1>4, DisconnectKeeps
<1>5. ASSUME NEW c \in Conns, GetInbox(c) \/ Take(c) PROVE DeskInv' /\ RouteInv'
  <2>1. \A i \in 1 .. Len(inbox[who[c]]) : Posted(inbox[who[c]][i])
    BY <1>5 DEF RouteInv, InboxRouted, GetInbox, Take, Packet, DeskInv, Seated
  <2> QED
    BY <1>1, <1>5, <2>1, TakeKeeps, TakeRoutes
<1>6. ASSUME NEW c \in Conns, Serve(c) PROVE DeskInv' /\ RouteInv'
  <2>1. CASE \/ Query(c) \/ Malformed(c) \/ GetInboxWait(c)
             \/ \E k \in Keys : Register(c, k) \/ Unregister(c, k)
             \/ \E target \in Uuids : PutInboxGone(c, target)
    BY <1>2, <2>1, ServeQuiet
  <2>2. CASE BadFrame(c) \/ Orphan(c) \/ BadPacket(c) \/ Bye(c)
    BY <1>2, <2>2, EndQuiet
  <2>3. ASSUME NEW target \in Uuids, NEW r \in Rid, PutInbox(c, r, target)
        PROVE  DeskInv' /\ RouteInv'
    BY <1>1, <2>3, PutInboxKeeps, PutInboxRoutes
  <2>4. ASSUME NEW r \in Rid,
               \/ PutOutbox(c, r) \/ PutOutboxWait(c, r) \/ PutOutboxGone(c, r)
               \/ GetOutbox(c, r) \/ GetOutboxWait(c, r)
        PROVE  DeskInv' /\ RouteInv'
    BY <1>1, <2>4, PutOutboxKeeps, JoinKeeps, OutboxRoutes
  <2> QED
    BY <1>5, <1>6, <2>1, <2>2, <2>3, <2>4 DEF Serve
<1>7. ASSUME NEW c \in Conns, Proceed(c) PROVE DeskInv' /\ RouteInv'
  <2>1. CASE StartHandler(c)
    BY <1>2, <2>1, StartHandlerQuiet
  <2>2. CASE EndOfStream(c) \/ Refused(c)
    BY <1>2, <2>2, EndQuiet
  <2>3. CASE SendDone(c) \/ SendOrphan(c) \/ SendFail(c)
    BY <1>1, <2>3, SendKeeps, SendRoutes
  <2>4. CASE PutOutboxLocked(c)
    BY <1>1, <2>4, PutOutboxLockedKeeps, PutOutboxLockedRoutes
  <2>5. CASE GetOutboxLocked(c)
    BY <1>1, <2>5, GetOutboxLockedKeeps, GetOutboxLockedRoutes
  <2>6. CASE Take(c)
    BY <1>5, <2>6
  <2> QED
    BY <2>1, <2>2, <2>3, <2>4, <2>5, <2>6, <1>7 DEF Proceed
<1>8. CASE UNCHANGED vars
  BY <1>1, <1>8, StutterKeeps
<1>9. DeskInv' /\ RouteInv'
  BY <1>3, <1>4, <1>6, <1>7, <1>8 DEF Next
<1> QED
  BY <1>1, <1>9

LEMMA PostInvAlways == Spec => []PostInv
  BY PostInvInit, PostInvStep, PTL DEF Spec

(* Types, which depend on the locks: no handler takes the head of an empty *)
(* queue (server.py:800, 816).                                             *)
THEOREM PostOfficeTypes == Spec => []PostTypeOK
<1>1. PostInv => PostTypeOK
  BY DEF PostInv, DeskInv
<1> QED
  BY <1>1, PostInvAlways, PTL

(* Every outbox lock has exactly the handlers in line that hold or await   *)
(* it, its holder first, whatever crashes and logins happen                *)
(* (server.py:800, 816).                                                   *)
THEOREM LocksHeldInLine == Spec => []LockDiscipline
<1>1. PostInv => LockDiscipline
  BY DEF PostInv, DeskInv
<1> QED
  BY <1>1, PostInvAlways, PTL

(* No request or answer is given to the wrong session                      *)
(* (server.py:747-753, 763-784, 799-801, 829-838).                         *)
THEOREM MailIsRouted == Spec => []Routing
<1>1. PostInv => Routing
  BY DEF PostInv, RouteInv
<1> QED
  BY <1>1, PostInvAlways, PTL

-----------------------------------------------------------------------------
(* A request that was posted is in one of these places: an inbox, a reply  *)
(* to its target, its target's client, a handler that waits for the lock   *)
(* of an outbox, that outbox, a reply to its requester, its requester's    *)
(* client; or nowhere any more.                                            *)

Spot == {"queued", "moving", "held", "waiting", "boxed", "returning", "done", "nowhere"}

Sender(r, what) == \E c \in Conns : Sending(c, r, what)
Holding(r) == <<r, "request">> \in got[to[r]]
Boxed(r) == r \in outbox[from[r]]
Finished(r) == <<r, "answer">> \in got[from[r]]

Where(r, p) ==
    /\ Queued(r) <=> p = "queued"
    /\ Sender(r, "request") <=> p = "moving"
    /\ Holding(r) <=> p = "held"
    /\ Waiting(r) # {} <=> p = "waiting"
    /\ Boxed(r) <=> p = "boxed"
    /\ Sender(r, "answer") <=> p = "returning"
    /\ Finished(r) <=> p = "done"

Has(c, r) == Sending(c, r, "request") \/ Sending(c, r, "answer") \/ c \in Waiting(r)

OneHandler(r) == \A c, d \in Conns : Has(c, r) /\ Has(d, r) => c = d

Alone(r) == OneHandler(r) /\ \E p \in Spot : Where(r, p)

(* An inbox is in the order of posting, and nothing posted was posted to   *)
(* or by a uuid that is yet to be drawn.                                   *)
InboxInOrder ==
    \A u \in Uuids : \A i, j \in 1 .. Len(inbox[u]) : i < j => inbox[u][i] < inbox[u][j]

PostedInOrder == \A q, r \in Rid : q < r /\ Posted(r) => Posted(q)

PostedByDrawn == \A r \in Rid : Posted(r) => from[r] \in drawn /\ to[r] \in drawn

MailInv ==
    /\ \A r \in Rid : Posted(r) => Alone(r)
    /\ InboxInOrder /\ PostedInOrder /\ PostedByDrawn

-----------------------------------------------------------------------------
(* What a step of the handler c does to one request: nothing, or it moves. *)

Same(r) ==
    /\ from'[r] = from[r] /\ to'[r] = to[r]
    /\ \A c \in Conns : /\ Sending(c, r, "request")' <=> Sending(c, r, "request")
                        /\ Sending(c, r, "answer")' <=> Sending(c, r, "answer")
                        /\ c \in Waiting(r)' <=> c \in Waiting(r)
    /\ Queued(r)' <=> Queued(r)
    /\ Boxed(r)' <=> Boxed(r)
    /\ Holding(r)' <=> Holding(r)
    /\ Finished(r)' <=> Finished(r)

Routes ==
    {<<"queued", "moving">>, <<"queued", "nowhere">>, <<"moving", "held">>,
     <<"moving", "nowhere">>, <<"held", "waiting">>, <<"held", "boxed">>,
     <<"held", "nowhere">>, <<"waiting", "boxed">>, <<"boxed", "returning">>,
     <<"boxed", "nowhere">>, <<"returning", "done">>, <<"returning", "nowhere">>}

(* The session is gone, or a handler of it sends where nobody can read.    *)
Severed(u) ==
    \/ u \notin sessions
    \/ \E c \in Conns :
          /\ who[c] = u
          /\ pc[c] \notin {"free", "accepting"}
          /\ ~peer[c] \/ ~Readable(c)

Travels(r, p, q) ==
    /\ <<p, q>> \in Routes
    /\ Where(r, p) /\ Where(r, q)' /\ OneHandler(r)'
    /\ q = "moving" => to[r] \in sessions
    /\ q = "returning" => from[r] \in sessions
    /\ q = "nowhere" => Severed(from[r]) \/ Severed(to[r])
    /\ p = "queued" => \A o \in Rid : Queued(o) /\ to[o] = to[r] => r <= o

Carrying == {"sending", "sendlock", "putwait"}

LEMMA NotCarried ==
    \A c \in Conns, r \in Rid :
        \/ pc[c] \notin Carrying \/ arg[c] = Nothing
        \/ arg[c][1] # r \/ arg[c][2] = "ticket"
        => ~Has(c, r)
  BY DEF Carrying, Has, Sending, Waiting, Nothing, Rid

LEMMA NotCarriedNext ==
    (\A c \in Conns, r \in Rid :
        \/ pc[c] \notin Carrying \/ arg[c] = Nothing
        \/ arg[c][1] # r \/ arg[c][2] = "ticket"
        => ~Has(c, r))'
  BY NotCarried, PTL

LEMMA Untouched ==
    ASSUME NEW c \in Conns, NEW r \in Rid, Posted(r),
           from'[r] = from[r], to'[r] = to[r],
           \A d \in Conns \ {c} : pc'[d] = pc[d] /\ arg'[d] = arg[d],
           ~Has(c, r), ~Has(c, r)',
           Queued(r)' <=> Queued(r),
           \A u \in Uuids : r \in outbox'[u] <=> r \in outbox[u],
           \A u \in Uuids : \A x \in {<<r, "request">>, <<r, "answer">>} :
               x \in got'[u] <=> x \in got[u]
    PROVE  Same(r)
<1>1. ASSUME NEW d \in Conns
      PROVE  /\ Sending(d, r, "request")' <=> Sending(d, r, "request")
             /\ Sending(d, r, "answer")' <=> Sending(d, r, "answer")
             /\ d \in Waiting(r)' <=> d \in Waiting(r)
  <2>1. CASE d = c
    BY <2>1 DEF Has
  <2>2. CASE d # c
    BY <2>2 DEF Sending, Waiting
  <2> QED
    BY <2>1, <2>2
<1>2. from[r] \in Uuids /\ to[r] \in Uuids
  BY DEF Posted
<1>3. (Boxed(r)' <=> Boxed(r)) /\ (Holding(r)' <=> Holding(r)) /\ (Finished(r)' <=> Finished(r))
  BY <1>2 DEF Boxed, Holding, Finished
<1> QED
  BY <1>1, <1>3 DEF Same, Sending, Waiting

LEMMA SameStays ==
    ASSUME NEW r \in Rid, Same(r), Alone(r)
    PROVE  Alone(r)' /\ \A p \in Spot : Where(r, p) => Where(r, p)'
<1>1. /\ Sender(r, "request")' <=> Sender(r, "request")
      /\ Sender(r, "answer")' <=> Sender(r, "answer")
  BY DEF Same, Sender, Sending
<1>2. Waiting(r)' = Waiting(r)
  BY DEF Same, Waiting
<1>3. \A c \in Conns : Has(c, r)' <=> Has(c, r)
  BY DEF Same, Has, Sending, Waiting
<1>4. \A p \in Spot : Where(r, p) => Where(r, p)'
  BY <1>1, <1>2 DEF Same, Where
<1>5. OneHandler(r)'
  BY <1>3 DEF Alone, OneHandler
<1> QED
  BY <1>4, <1>5 DEF Alone

(* The handler c is the only one that has, or had, to do with r.           *)
LEMMA Arrives ==
    ASSUME NEW c \in Conns, NEW r \in Rid, NEW q \in Spot,
           \A d \in Conns \ {c} : pc'[d] = pc[d] /\ arg'[d] = arg[d] /\ ~Has(d, r),
           Queued(r)' <=> q = "queued",
           Sending(c, r, "request")' <=> q = "moving",
           Holding(r)' <=> q = "held",
           c \in Waiting(r)' <=> q = "waiting",
           Boxed(r)' <=> q = "boxed",
           Sending(c, r, "answer")' <=> q = "returning",
           Finished(r)' <=> q = "done"
    PROVE  Where(r, q)' /\ OneHandler(r)'
<1>1. \A d \in Conns \ {c} :
         /\ ~Sending(d, r, "request")' /\ ~Sending(d, r, "answer")' /\ d \notin Waiting(r)'
         /\ ~Has(d, r)'
  BY DEF Has, Sending, Waiting
<1>2. /\ Sender(r, "request")' <=> Sending(c, r, "request")'
      /\ Sender(r, "answer")' <=> Sending(c, r, "answer")'
  BY <1>1 DEF Sender
<1>3. Waiting(r)' # {} <=> c \in Waiting(r)'
  BY <1>1 DEF Waiting
<1> QED
  BY <1>1, <1>2, <1>3 DEF Where, OneHandler

(* Where a request is, from one thing that is known of it.                 *)
LEMMA Located ==
    ASSUME NEW r \in Rid, Alone(r)
    PROVE  /\ Queued(r) => Where(r, "queued")
           /\ Holding(r) => Where(r, "held")
           /\ Boxed(r) => Where(r, "boxed")
           /\ \A c \in Conns : /\ Sending(c, r, "request") => Where(r, "moving")
                               /\ Sending(c, r, "answer") => Where(r, "returning")
                               /\ c \in Waiting(r) => Where(r, "waiting")
                               /\ Has(c, r) => \A d \in Conns \ {c} : ~Has(d, r)
           /\ Queued(r) \/ Holding(r) \/ Boxed(r) => \A c \in Conns : ~Has(c, r)
<1>1. PICK p \in Spot : Where(r, p)
  BY DEF Alone
<1>2. \A c \in Conns : /\ Sending(c, r, "request") => p = "moving"
                       /\ Sending(c, r, "answer") => p = "returning"
                       /\ c \in Waiting(r) => p = "waiting"
                       /\ Has(c, r) => p \in {"moving", "returning", "waiting"}
  BY <1>1 DEF Where, Sender, Has
<1>3. /\ Queued(r) => p = "queued"
      /\ Holding(r) => p = "held"
      /\ Boxed(r) => p = "boxed"
  BY <1>1 DEF Where
<1>4. \A c \in Conns : Has(c, r) => \A d \in Conns \ {c} : ~Has(d, r)
  BY DEF Alone, OneHandler
<1> QED
  BY <1>1, <1>2, <1>3, <1>4

LEMMA StageIs ==
    \A r \in Rid, p \in Spot : Where(r, p) =>
       StageOf(r) = IF to[r] = Nobody THEN "unsent"
                    ELSE IF p = "queued" THEN IF to[r] \in sessions THEN "queued" ELSE "lost"
                    ELSE IF p = "waiting" THEN "held"
                    ELSE IF p = "boxed" THEN IF from[r] \in sessions THEN "answered" ELSE "lost"
                    ELSE IF p = "nowhere" THEN "lost"
                    ELSE p
<1> SUFFICES ASSUME NEW r \in Rid, NEW p \in Spot, Where(r, p)
             PROVE StageOf(r) = IF to[r] = Nobody THEN "unsent"
                    ELSE IF p = "queued" THEN IF to[r] \in sessions THEN "queued" ELSE "lost"
                    ELSE IF p = "waiting" THEN "held"
                    ELSE IF p = "boxed" THEN IF from[r] \in sessions THEN "answered" ELSE "lost"
                    ELSE IF p = "nowhere" THEN "lost"
                    ELSE p
  OBVIOUS
<1>1. CASE to[r] = Nobody
  BY <1>1 DEF StageOf
<1>2. CASE to[r] # Nobody
  <2>1. CASE p = "done"
    BY <1>2, <2>1 DEF StageOf, Where, Finished, Sender, Boxed, Holding
  <2>2. CASE p = "returning"
    BY <1>2, <2>2 DEF StageOf, Where, Finished, Sender, Boxed, Holding
  <2>3. CASE p = "boxed"
    BY <1>2, <2>3 DEF StageOf, Where, Finished, Sender, Boxed, Holding
  <2>4. CASE p = "held" \/ p = "waiting"
    BY <1>2, <2>4 DEF StageOf, Where, Finished, Sender, Boxed, Holding
  <2>5. CASE p = "moving"
    BY <1>2, <2>5 DEF StageOf, Where, Finished, Sender, Boxed, Holding
  <2>6. CASE p = "queued" \/ p = "nowhere"
    BY <1>2, <2>6 DEF StageOf, Where, Finished, Sender, Boxed, Holding
  <2> QED
    BY <1>2, <2>1, <2>2, <2>3, <2>4, <2>5, <2>6 DEF Spot
<1> QED
  BY <1>1, <1>2

LEMMA StageIsNext ==
    (\A r \in Rid, p \in Spot : Where(r, p) =>
       StageOf(r) = IF to[r] = Nobody THEN "unsent"
                    ELSE IF p = "queued" THEN IF to[r] \in sessions THEN "queued" ELSE "lost"
                    ELSE IF p = "waiting" THEN "held"
                    ELSE IF p = "boxed" THEN IF from[r] \in sessions THEN "answered" ELSE "lost"
                    ELSE IF p = "nowhere" THEN "lost"
                    ELSE p)'
  BY StageIs, PTL

-----------------------------------------------------------------------------
(* Steps that move no request.                                             *)

LEMMA QuietSame ==
    ASSUME DeskInv, NEW c \in Conns, Quiet(c)
    PROVE  \A r \in Rid : Posted(r) => Same(r)
<1>1. /\ \A d \in Conns \ {c} : pc'[d] = pc[d] /\ arg'[d] = arg[d]
      /\ pc[c] \notin Carrying
      /\ pc'[c] \notin Carrying \/ arg'[c] = Nothing
      /\ UNCHANGED mailVars
  BY DEF Quiet, DeskInv, PostTypeOK, LinePlaces, Carrying
<1> SUFFICES ASSUME NEW r \in Rid, Posted(r) PROVE Same(r)
  OBVIOUS
<1>2. ~Has(c, r) /\ ~Has(c, r)'
  BY <1>1, NotCarried, NotCarriedNext
<1>3. Queued(r)' <=> Queued(r)
  BY <1>1 DEF Queued, Issued, mailVars
<1> QED
  BY <1>1, <1>2, <1>3, Untouched DEF mailVars

LEMMA IdleSame ==
    ASSUME UNCHANGED <<pc, arg, mailVars>>
    PROVE  \A r \in Rid : Same(r)
  BY DEF Same, Sending, Waiting, Queued, Issued, Boxed, Holding, Finished, mailVars

(* The head of an inbox is taken out.                                      *)
LEMMA TakenOut ==
    ASSUME DeskInv, InboxRouted, InboxInOrder, NEW u \in Uuids, inbox[u] # <<>>,
           inbox' = [inbox EXCEPT ![u] = Tail(@)], to' = to, NEW r, r = Head(inbox[u])
    PROVE  /\ r \in Rid /\ Posted(r) /\ to[r] = u /\ Queued(r) /\ ~Queued(r)'
           /\ \A o \in Rid : o # r => (Queued(o)' <=> Queued(o))
           /\ \A o \in Rid : Queued(o) /\ to[o] = u => r <= o
           /\ InboxInOrder'
<1> DEFINE s == inbox[u]
           t == inbox'[u]
<1>0. inbox \in [Uuids -> Seq(Rid)] /\ to \in [Rid -> Uuids \cup {Nobody}]
  BY DEF DeskInv, PostTypeOK
<1>1. /\ s \in Seq(Rid) /\ Len(s) \in Nat \ {0} /\ r = s[1] /\ r \in Rid
      /\ t = Tail(s) /\ Len(t) = Len(s) - 1
      /\ \A i \in 1 .. Len(s) - 1 : t[i] = s[i + 1]
  BY <1>0, TailLine
<1>2. \A v \in Uuids : v # u => inbox'[v] = inbox[v]
  BY <1>0
<1>3. Posted(r) /\ to[r] = u
  BY <1>1 DEF InboxRouted
<1>4. Queued(r)
  BY <1>1, <1>3, NobodyAssumption DEF Queued, Issued
<1>5. \A i \in 1 .. Len(t) : i + 1 \in 1 .. Len(s) /\ t[i] = s[i + 1]
  BY <1>1
<1>6. \A i \in 2 .. Len(s) : s[1] < s[i]
  BY <1>1 DEF InboxInOrder
<1>7. ~Queued(r)'
  <2>1. ASSUME NEW i \in 1 .. Len(t), t[i] = r PROVE FALSE
    <3>1. i + 1 \in 2 .. Len(s) /\ s[i + 1] = s[1] /\ s[1] \in Rid
      BY <1>1, <1>5, <2>1
    <3> QED
      BY <1>6, <3>1 DEF Rid
  <2> QED
    BY <1>3, <2>1 DEF Queued
<1>8. ASSUME NEW o \in Rid, o # r PROVE Queued(o)' <=> Queued(o)
  <2>1. CASE to[o] # u
    BY <1>0, <1>2, <2>1 DEF Queued, Issued
  <2>2. CASE to[o] = u
    <3>1. ASSUME NEW i \in 1 .. Len(s), s[i] = o PROVE \E k \in 1 .. Len(t) : t[k] = o
      <4>1. i # 1
        BY <1>1, <1>8, <3>1
      <4>2. i - 1 \in 1 .. Len(s) - 1 /\ (i - 1) + 1 = i
        BY <1>1, <4>1
      <4> QED
        BY <1>1, <3>1, <4>2
    <3>2. ASSUME NEW i \in 1 .. Len(t), t[i] = o PROVE \E k \in 1 .. Len(s) : s[k] = o
      BY <1>5, <3>2
    <3> HIDE DEF s, t
    <3>3. (\E k \in 1 .. Len(t) : t[k] = o) <=> (\E k \in 1 .. Len(s) : s[k] = o)
      BY <3>1, <3>2
    <3> QED
      BY <2>2, <3>3 DEF Queued, Issued, s, t
  <2> QED
    BY <2>1, <2>2
<1>9. ASSUME NEW o \in Rid, Queued(o), to[o] = u PROVE r <= o
  <2>1. PICK i \in 1 .. Len(s) : s[i] = o
    BY <1>9 DEF Queued
  <2>2. i = 1 \/ i \in 2 .. Len(s)
    BY <1>1
  <2>3. r \in Nat /\ o \in Nat
    BY <1>1 DEF Rid
  <2> QED
    BY <1>1, <1>6, <2>1, <2>2, <2>3
<1>10. InboxInOrder'
  <2> SUFFICES ASSUME NEW v \in Uuids, NEW i \in 1 .. Len(inbox'[v]), NEW j \in 1 .. Len(inbox'[v]), i < j
               PROVE  inbox'[v][i] < inbox'[v][j]
    BY DEF InboxInOrder
  <2>1. CASE v # u
    BY <1>2, <2>1 DEF InboxInOrder
  <2>2. CASE v = u
    <3>1. /\ i + 1 \in 1 .. Len(s) /\ t[i] = s[i + 1] /\ j + 1 \in 1 .. Len(s) /\ t[j] = s[j + 1]
          /\ i + 1 < j + 1
      BY <1>5, <2>2
    <3>2. s[i + 1] < s[j + 1]
      BY <3>1 DEF InboxInOrder
    <3> QED
      BY <2>2, <3>1, <3>2
  <2> QED
    BY <2>1, <2>2
<1> QED
  BY <1>1, <1>3, <1>4, <1>7, <1>8, <1>9, <1>10

-----------------------------------------------------------------------------
(* Steps that move one request.                                            *)

Still == \A r \in Rid : Posted(r) => Same(r)

Rest(r) == \A o \in Rid : o # r /\ Posted(o) => Same(o)

OneMoves == Still \/ \E r \in Rid, p, q \in Spot : Posted(r) /\ Travels(r, p, q) /\ Rest(r)

(* What a reply carries, and where a request is, are known to be this.     *)
ArgKinds ==
    \A c \in Conns : /\ pc[c] = "putwait" => arg[c][2] = "answer"
                     /\ pc[c] = "refusing" => arg[c] = Nothing

(* GET_INBOX.                                                              *)
LEMMA TakeMoves ==
    ASSUME DeskInv, RouteInv, MailInv, NEW c \in Conns, GetInbox(c) \/ Take(c)
    PROVE  OneMoves /\ InboxInOrder'
<1>r. PICK r : r = Head(inbox[who[c]])
  OBVIOUS
<1>0. /\ who[c] \in Uuids /\ inbox[who[c]] # <<>>
      /\ inbox' = [inbox EXCEPT ![who[c]] = Tail(@)]
      /\ UNCHANGED <<outbox, from, to, got>>
      /\ pc[c] \notin Carrying \cup {"free", "accepting"}
  BY DEF GetInbox, Take, TakeHead, Packet, DeskInv, Seated, Carrying
<1>1. /\ r \in Rid /\ Posted(r) /\ to[r] = who[c] /\ Queued(r) /\ ~Queued(r)'
      /\ \A o \in Rid : o # r => (Queued(o)' <=> Queued(o))
      /\ \A o \in Rid : Queued(o) /\ to[o] = who[c] => r <= o
      /\ InboxInOrder'
  BY <1>0, <1>r, TakenOut DEF RouteInv, MailInv
<1>2. PICK x \in {<<r, "request">>, Nothing}, p \in {"sending", "crashed"} :
         /\ arg' = [arg EXCEPT ![c] = x] /\ pc' = [pc EXCEPT ![c] = p]
         /\ x # Nothing => p = "sending" /\ who[c] \in sessions
         /\ x = Nothing => Severed(who[c])
  <2>1. CASE who[c] \in sessions /\ Readable(c)
    <3>1. Reply(c, <<r, "request">>, "sending")
      BY <1>r, <2>1 DEF GetInbox, Take, HeadRequest
    <3>2. <<r, "request">> # Nothing
      BY <1>1 DEF Nothing, Rid
    <3> QED
      BY <2>1, <3>1, <3>2 DEF Reply, Goto
  <2>2. CASE who[c] \in sessions /\ ~Readable(c)
    <3>1. Reply(c, <<r, "request">>, "sending") /\ Severed(who[c])
      BY <1>0, <1>r, <2>2 DEF GetInbox, Take, HeadRequest, Severed
    <3> QED
      BY <2>2, <3>1 DEF Reply, Goto
  <2>3. CASE who[c] \notin sessions
    BY <2>3 DEF GetInbox, Packet, Take, Crash, Goto, Severed
  <2> QED
    BY <2>1, <2>2, <2>3
<1>3. /\ arg'[c] = x /\ pc'[c] = p
      /\ \A d \in Conns \ {c} : pc'[d] = pc[d] /\ arg'[d] = arg[d]
  BY <1>2 DEF DeskInv, PostTypeOK
<1>4. Rest(r)
  <2> SUFFICES ASSUME NEW o \in Rid, o # r, Posted(o) PROVE Same(o)
    BY DEF Rest
  <2>1. arg'[c] = Nothing \/ arg'[c][1] # o
    BY <1>2, <1>3
  <2>2. ~Has(c, o) /\ ~Has(c, o)'
    BY <1>0, <2>1, NotCarried, NotCarriedNext
  <2>3. Queued(o)' <=> Queued(o)
    BY <1>1
  <2> QED
    BY <1>0, <1>3, <2>2, <2>3, Untouched
<1>5. Alone(r) /\ Where(r, "queued") /\ \A d \in Conns : ~Has(d, r)
  BY <1>1, Located DEF MailInv
<1>6. ~Holding(r)' /\ ~Boxed(r)' /\ ~Finished(r)'
  BY <1>0, <1>5 DEF Where, Holding, Boxed, Finished
<1>7. CASE x = <<r, "request">>
  <2>1. x # Nothing
    BY <1>1, <1>7 DEF Nothing, Rid
  <2>2. Sending(c, r, "request")' /\ ~Sending(c, r, "answer")' /\ c \notin Waiting(r)'
    BY <1>2, <1>3, <1>7, <2>1 DEF Sending, Waiting
  <2>3. Where(r, "moving")' /\ OneHandler(r)'
    BY <1>1, <1>3, <1>5, <1>6, <2>2, Arrives DEF Spot
  <2>4. Travels(r, "queued", "moving")
    BY <1>1, <1>2, <1>5, <2>1, <2>3 DEF Travels, Routes
  <2> QED
    BY <1>1, <1>4, <2>4 DEF OneMoves, Spot
<1>8. CASE x = Nothing
  <2>1. ~Has(c, r)'
    BY <1>1, <1>3, <1>8, NotCarriedNext
  <2>2. ~Sending(c, r, "request")' /\ ~Sending(c, r, "answer")' /\ c \notin Waiting(r)'
    BY <2>1 DEF Has
  <2>3. Where(r, "nowhere")' /\ OneHandler(r)'
    BY <1>1, <1>3, <1>5, <1>6, <2>2, Arrives DEF Spot
  <2>4. Travels(r, "queued", "nowhere")
    BY <1>1, <1>2, <1>5, <1>8, <2>3 DEF Travels, Routes
  <2> QED
    BY <1>1, <1>4, <2>4 DEF OneMoves, Spot
<1> QED
  BY <1>1, <1>2, <1>7, <1>8

(* PUT_OUTBOX.                                                             *)
LEMMA AnswerMoves ==
    ASSUME DeskInv, RouteInv, MailInv, NEW c \in Conns, NEW r \in Rid,
           PutOutbox(c, r) \/ PutOutboxWait(c, r) \/ PutOutboxGone(c, r)
    PROVE  OneMoves
<1>0. /\ who[c] \in Uuids /\ pc[c] \notin Carrying /\ UNCHANGED <<inbox, from, to>>
      /\ <<r, "request">> \in got[who[c]]
      /\ got' = [got EXCEPT ![who[c]] = @ \ {<<r, "request">>}]
  BY DEF PutOutbox, PutOutboxWait, PutOutboxGone, Answers, Packet, DeskInv, Seated, Carrying
<1>1. Posted(r) /\ to[r] = who[c] /\ Holding(r)
  BY <1>0 DEF DeskInv, Known, RouteInv, Routing, Addressee, Holding
<1>2. Alone(r) /\ Where(r, "held") /\ \A d \in Conns : ~Has(d, r)
  BY <1>1, Located DEF MailInv
<1>3. \A u \in Uuids, y \in Items : y # <<r, "request">> => (y \in got'[u] <=> y \in got[u])
  BY <1>0 DEF DeskInv, PostTypeOK
<1>4. /\ ~Queued(r)' /\ ~Holding(r)' /\ ~Finished(r)'
  <2>1. ~Queued(r)'
    BY <1>0, <1>2 DEF Queued, Issued, Where
  <2>2. ~Holding(r)'
    BY <1>0, <1>1 DEF Holding, DeskInv, PostTypeOK
  <2>3. <<r, "answer">> \in Items /\ from[r] \in Uuids
    BY <1>1 DEF Items, Posted
  <2>4. ~Finished(r)'
    BY <1>0, <1>2, <1>3, <2>3 DEF Finished, Where
  <2> QED
    BY <2>1, <2>2, <2>4
<1>5. PICK x \in {<<r, "answer">>, Nothing}, p \in {"sending", "crashed", "putwait"} :
         /\ arg' = [arg EXCEPT ![c] = x] /\ pc' = [pc EXCEPT ![c] = p]
         /\ p = "putwait" <=> x = <<r, "answer">>
         /\ PutOutboxWait(c, r) <=> p = "putwait"
  <2>1. CASE PutOutbox(c, r)
    <3>1. pc' = [pc EXCEPT ![c] = "sending"] /\ arg' = [arg EXCEPT ![c] = Nothing] /\ ~PutOutboxWait(c, r)
      BY <2>1, ReplyCarries DEF PutOutbox, PutOutboxWait
    <3> QED
      BY <3>1 DEF Nothing
  <2>2. CASE PutOutboxWait(c, r)
    BY <2>2 DEF PutOutboxWait, Goto, Nothing
  <2>3. CASE PutOutboxGone(c, r)
    <3>1. pc' = [pc EXCEPT ![c] = "crashed"] /\ arg' = [arg EXCEPT ![c] = Nothing] /\ ~PutOutboxWait(c, r)
      BY <2>3 DEF PutOutboxGone, PutOutboxWait, Crash, Goto
    <3> QED
      BY <3>1 DEF Nothing
  <2> QED
    BY <2>1, <2>2, <2>3
<1>6. /\ arg'[c] = x /\ pc'[c] = p
      /\ \A d \in Conns \ {c} : pc'[d] = pc[d] /\ arg'[d] = arg[d]
  BY <1>5 DEF DeskInv, PostTypeOK
<1>7. /\ \A u \in Uuids, o \in Rid : o # r => (o \in outbox'[u] <=> o \in outbox[u])
      /\ PutOutbox(c, r) <=> Boxed(r)'
  <2>0. outbox \in [Uuids -> SUBSET Rid] /\ from[r] \in Uuids
    BY <1>1 DEF DeskInv, PostTypeOK, Posted
  <2>1. CASE PutOutbox(c, r)
    <3>1. outbox' = [outbox EXCEPT ![from[r]] = @ \cup {r}]
      BY <2>1 DEF PutOutbox
    <3> QED
      BY <1>0, <2>0, <2>1, <3>1 DEF Boxed
  <2>2. CASE ~PutOutbox(c, r)
    <3>1. outbox' = outbox
      BY <2>2 DEF PutOutboxWait, PutOutboxGone
    <3> QED
      BY <1>0, <1>2, <2>2, <3>1 DEF Boxed, Where
  <2> QED
    BY <2>1, <2>2
<1>8. Rest(r)
  <2> SUFFICES ASSUME NEW o \in Rid, o # r, Posted(o) PROVE Same(o)
    BY DEF Rest
  <2>1. arg'[c] = Nothing \/ arg'[c][1] # o
    BY <1>5, <1>6
  <2>2. ~Has(c, o) /\ ~Has(c, o)'
    BY <1>0, <2>1, NotCarried, NotCarriedNext
  <2>3. Queued(o)' <=> Queued(o)
    BY <1>0 DEF Queued, Issued
  <2>4. \A u \in Uuids : \A y \in {<<o, "request">>, <<o, "answer">>} : y \in got'[u] <=> y \in got[u]
    <3>1. \A y \in {<<o, "request">>, <<o, "answer">>} : y \in Items /\ y # <<r, "request">>
      BY DEF Items
    <3> QED
      BY <1>3, <3>1
  <2>5. \A u \in Uuids : o \in outbox'[u] <=> o \in outbox[u]
    BY <1>7
  <2> QED
    BY <1>0, <1>6, <2>2, <2>3, <2>4, <2>5, Untouched
<1>9. CASE PutOutboxWait(c, r)
  <2>1. c \in Waiting(r)' /\ ~Sending(c, r, "request")' /\ ~Sending(c, r, "answer")'
    BY <1>5, <1>6, <1>9 DEF Waiting, Sending
  <2>2. ~Boxed(r)'
    BY <1>7, <1>9 DEF PutOutbox, PutOutboxWait
  <2>3. Where(r, "waiting")' /\ OneHandler(r)'
    BY <1>2, <1>4, <1>6, <2>1, <2>2, Arrives DEF Spot
  <2>4. Travels(r, "held", "waiting")
    BY <1>2, <2>3 DEF Travels, Routes
  <2> QED
    BY <1>1, <1>8, <2>4 DEF OneMoves, Spot
<1>10. CASE ~PutOutboxWait(c, r)
  <2>1. arg'[c] = Nothing
    BY <1>5, <1>6, <1>10
  <2>2. ~Has(c, r)'
    BY <2>1, NotCarriedNext
  <2>3. ~Sending(c, r, "request")' /\ ~Sending(c, r, "answer")' /\ c \notin Waiting(r)'
    BY <2>2 DEF Has
  <2>4. CASE Boxed(r)'
    <3>1. Where(r, "boxed")' /\ OneHandler(r)'
      BY <1>2, <1>4, <1>6, <2>3, <2>4, Arrives DEF Spot
    <3>2. Travels(r, "held", "boxed")
      BY <1>2, <3>1 DEF Travels, Routes
    <3> QED
      BY <1>1, <1>8, <3>2 DEF OneMoves, Spot
  <2>5. CASE ~Boxed(r)'
    <3>1. Where(r, "nowhere")' /\ OneHandler(r)'
      BY <1>2, <1>4, <1>6, <2>3, <2>5, Arrives DEF Spot
    <3>2. Severed(from[r])
      BY <1>7, <1>10, <2>5 DEF PutOutboxGone, Severed
    <3>3. Travels(r, "held", "nowhere")
      BY <1>2, <3>1, <3>2 DEF Travels, Routes
    <3> QED
      BY <1>1, <1>8, <3>3 DEF OneMoves, Spot
  <2> QED
    BY <2>4, <2>5
<1> QED
  BY <1>9, <1>10

LEMMA LockedMoves ==
    ASSUME DeskInv, RouteInv, MailInv, ArgKinds, NEW c \in Conns, PutOutboxLocked(c)
    PROVE  OneMoves
<1>r. PICK r : r = arg[c][1]
  OBVIOUS
<1>0. /\ pc[c] = "putwait" /\ outbox' = [outbox EXCEPT ![from[r]] = @ \cup {r}]
      /\ UNCHANGED <<inbox, from, to, got>>
  BY <1>r DEF PutOutboxLocked
<1>1. arg[c] \in Items /\ Posted(r) /\ r \in Rid /\ arg[c] = <<r, "answer">>
  BY <1>0, <1>r DEF DeskInv, PostTypeOK, Known, ArgKinds, Items
<1>2. c \in Waiting(r) /\ Has(c, r)
  BY <1>0, <1>1 DEF Waiting, Has
<1>3. Alone(r) /\ Where(r, "waiting") /\ \A d \in Conns \ {c} : ~Has(d, r)
  BY <1>1, <1>2, Located DEF MailInv
<1>4. PICK p \in {"sending", "crashed"} :
         arg' = [arg EXCEPT ![c] = Nothing] /\ pc' = [pc EXCEPT ![c] = p]
  BY ReplyCarries DEF PutOutboxLocked, Crash, Goto
<1>5. /\ arg'[c] = Nothing
      /\ \A d \in Conns \ {c} : pc'[d] = pc[d] /\ arg'[d] = arg[d]
  BY <1>4 DEF DeskInv, PostTypeOK
<1>6. \A o \in Rid : ~Has(c, o)'
  BY <1>5, NotCarriedNext
<1>7. /\ \A u \in Uuids, o \in Rid : o # r => (o \in outbox'[u] <=> o \in outbox[u])
      /\ Boxed(r)'
  <2>1. outbox \in [Uuids -> SUBSET Rid] /\ from[r] \in Uuids
    BY <1>1 DEF DeskInv, PostTypeOK, Posted
  <2> QED
    BY <1>0, <2>1 DEF Boxed
<1>8. Rest(r)
  <2> SUFFICES ASSUME NEW o \in Rid, o # r, Posted(o) PROVE Same(o)
    BY DEF Rest
  <2>1. ~Has(c, o) /\ ~Has(c, o)'
    BY <1>1, <1>6, NotCarried
  <2>2. Queued(o)' <=> Queued(o)
    BY <1>0 DEF Queued, Issued
  <2>3. \A u \in Uuids : o \in outbox'[u] <=> o \in outbox[u]
    BY <1>7
  <2> QED
    BY <1>0, <1>5, <2>1, <2>2, <2>3, Untouched
<1>9. ~Queued(r)' /\ ~Holding(r)' /\ ~Finished(r)'
  BY <1>0, <1>3 DEF Where, Queued, Issued, Holding, Finished
<1>10. ~Sending(c, r, "request")' /\ ~Sending(c, r, "answer")' /\ c \notin Waiting(r)'
  BY <1>1, <1>6 DEF Has
<1>11. Where(r, "boxed")' /\ OneHandler(r)'
  BY <1>1, <1>3, <1>5, <1>7, <1>9, <1>10, Arrives DEF Spot
<1>12. Travels(r, "waiting", "boxed")
  BY <1>3, <1>11 DEF Travels, Routes
<1> QED
  BY <1>1, <1>8, <1>12 DEF OneMoves, Spot

(* GET_OUTBOX.                                                             *)
LEMMA FetchMoves ==
    ASSUME DeskInv, RouteInv, MailInv, NEW c \in Conns, NEW r \in Rid,
           GetOutbox(c, r) \/ (GetOutboxLocked(c) /\ r = arg[c][1])
    PROVE  OneMoves
<1>0. /\ who[c] \in Uuids /\ pc[c] \notin Carrying \cup {"free", "accepting"} 
      /\ UNCHANGED <<inbox, from, to, got>>
      /\ outbox' = [outbox EXCEPT ![who[c]] = @ \ {r}]
  BY DEF GetOutbox, GetOutboxLocked, Fetch, Packet, DeskInv, Seated, Carrying
<1>1. PICK x \in {<<r, "answer">>, Nothing}, p \in {"sendlock", "crashed"} :
         /\ arg' = [arg EXCEPT ![c] = x] /\ pc' = [pc EXCEPT ![c] = p]
         /\ x # Nothing => r \in outbox[who[c]] /\ p = "sendlock" /\ who[c] \in sessions
         /\ x = Nothing /\ r \in outbox[who[c]] => Severed(who[c])
  <2>1. CASE who[c] \in sessions
    <3>1. PICK item \in {<<r, "answer">>, Nothing} :
             /\ Reply(c, item, "sendlock")
             /\ item = IF r \in outbox[who[c]] THEN <<r, "answer">> ELSE Nothing
      BY <2>1 DEF GetOutbox, GetOutboxLocked, Fetch
    <3>2. <<r, "answer">> # Nothing
      BY DEF Nothing, Rid
    <3>3. CASE Readable(c)
      BY <2>1, <3>1, <3>2, <3>3 DEF Reply, Goto
    <3>4. CASE ~Readable(c)
      <4>1. Severed(who[c])
        BY <1>0, <3>4 DEF Severed
      <4> QED
        BY <2>1, <3>1, <3>4, <4>1 DEF Reply, Goto
    <3> QED
      BY <3>3, <3>4
  <2>2. CASE who[c] \notin sessions
    BY <2>2 DEF GetOutbox, Packet, GetOutboxLocked, Crash, Goto, Severed
  <2> QED
    BY <2>1, <2>2
<1>2. /\ arg'[c] = x /\ pc'[c] = p
      /\ \A d \in Conns \ {c} : pc'[d] = pc[d] /\ arg'[d] = arg[d]
  BY <1>1 DEF DeskInv, PostTypeOK
<1>3. \A u \in Uuids, o \in Rid : o # r \/ u # who[c] => (o \in outbox'[u] <=> o \in outbox[u])
  BY <1>0 DEF DeskInv, PostTypeOK
<1>4. ASSUME NEW o \in Rid, Posted(o), o # r \/ (x = Nothing /\ r \notin outbox[who[c]])
      PROVE  Same(o)
  <2>1. arg'[c] = Nothing \/ arg'[c][1] # o
    BY <1>1, <1>2, <1>4
  <2>2. ~Has(c, o) /\ ~Has(c, o)'
    BY <1>0, <2>1, NotCarried, NotCarriedNext
  <2>3. Queued(o)' <=> Queued(o)
    BY <1>0 DEF Queued, Issued
  <2>4. \A u \in Uuids : o \in outbox'[u] <=> o \in outbox[u]
    BY <1>0, <1>3, <1>4 DEF DeskInv, PostTypeOK
  <2> QED
    BY <1>0, <1>2, <1>4, <2>2, <2>3, <2>4, Untouched
<1>5. CASE r \notin outbox[who[c]]
  BY <1>1, <1>4, <1>5 DEF OneMoves, Still
<1>6. CASE r \in outbox[who[c]]
  <2>1. Posted(r) /\ from[r] = who[c] /\ Boxed(r)
    <3>1. from[r] = who[c]
      BY <1>0, <1>6 DEF RouteInv, Routing
    <3> QED
      BY <1>0, <1>6, <3>1, NobodyAssumption DEF DeskInv, Known, Boxed
  <2>2. Alone(r) /\ Where(r, "boxed") /\ \A d \in Conns : ~Has(d, r)
    BY <2>1, Located DEF MailInv
  <2>3. ~Boxed(r)' /\ ~Queued(r)' /\ ~Holding(r)' /\ ~Finished(r)'
    <3>1. ~Boxed(r)'
      BY <1>0, <2>1 DEF Boxed, DeskInv, PostTypeOK
    <3> QED
      BY <1>0, <2>2, <3>1 DEF Where, Queued, Issued, Holding, Finished
  <2>4. Rest(r)
    BY <1>4 DEF Rest
  <2>5. CASE x = Nothing
    <3>1. ~Has(c, r)'
      BY <1>2, <2>5, NotCarriedNext
    <3>2. ~Sending(c, r, "request")' /\ ~Sending(c, r, "answer")' /\ c \notin Waiting(r)'
      BY <3>1 DEF Has
    <3>3. Where(r, "nowhere")' /\ OneHandler(r)'
      BY <1>2, <2>2, <2>3, <3>2, Arrives DEF Spot
    <3>4. Travels(r, "boxed", "nowhere")
      BY <1>1, <1>6, <2>1, <2>2, <2>5, <3>3 DEF Travels, Routes
    <3> QED
      BY <2>1, <2>4, <3>4 DEF OneMoves, Spot
  <2>6. CASE x = <<r, "answer">>
    <3>1. x # Nothing
      BY <2>6 DEF Nothing
    <3>2. ~Sending(c, r, "request")' /\ Sending(c, r, "answer")' /\ c \notin Waiting(r)'
      BY <1>1, <1>2, <2>6, <3>1 DEF Sending, Waiting
    <3>3. Where(r, "returning")' /\ OneHandler(r)'
      BY <1>2, <2>2, <2>3, <3>2, Arrives DEF Spot
    <3>4. Travels(r, "boxed", "returning")
      BY <1>1, <2>1, <2>2, <3>1, <3>3 DEF Travels, Routes
    <3> QED
      BY <2>1, <2>4, <3>4 DEF OneMoves, Spot
  <2> QED
    BY <1>1, <2>5, <2>6
<1> QED
  BY <1>5, <1>6

LEMMA GetOutboxWaitStill ==
    ASSUME DeskInv, NEW c \in Conns, NEW r \in Rid, GetOutboxWait(c, r)
    PROVE  Still
<1>1. /\ pc[c] \notin Carrying /\ UNCHANGED <<inbox, outbox, from, to, got>>
      /\ pc' = [pc EXCEPT ![c] = "getwait"] /\ arg' = [arg EXCEPT ![c] = <<r, "ticket">>]
  BY DEF GetOutboxWait, Packet, Carrying, Goto
<1>2. /\ pc'[c] \notin Carrying
      /\ \A d \in Conns \ {c} : pc'[d] = pc[d] /\ arg'[d] = arg[d]
  BY <1>1 DEF DeskInv, PostTypeOK, Carrying
<1> SUFFICES ASSUME NEW o \in Rid, Posted(o) PROVE Same(o)
  BY DEF Still
<1>3. ~Has(c, o) /\ ~Has(c, o)'
  BY <1>1, <1>2, NotCarried, NotCarriedNext
<1>4. Queued(o)' <=> Queued(o)
  BY <1>1 DEF Queued, Issued
<1> QED
  BY <1>1, <1>2, <1>3, <1>4, Untouched

(* A reply reaches its client, or is lost.                                 *)
LEMMA SendMoves ==
    ASSUME DeskInv, RouteInv, MailInv, ArgKinds, NEW c \in Conns,
           SendDone(c) \/ SendOrphan(c) \/ SendFail(c)
    PROVE  OneMoves
<1>x. PICK x : x = arg[c]
  OBVIOUS
<1>0. /\ who[c] \in Uuids /\ UNCHANGED <<inbox, outbox, from, to>>
      /\ pc[c] \in {"accepting", "sending", "sendlock", "refusing"}
      /\ x \in Items \cup {Nothing}
  BY <1>x DEF SendDone, SendOrphan, SendFail, DeskInv, PostTypeOK, Seated
<1>1. PICK p \in {"idle", "crashed"} :
         arg' = [arg EXCEPT ![c] = Nothing] /\ pc' = [pc EXCEPT ![c] = p]
  BY DEF SendDone, SendOrphan, SendFail, Crash, Goto
<1>2. /\ pc'[c] \notin Carrying
      /\ \A d \in Conns \ {c} : pc'[d] = pc[d] /\ arg'[d] = arg[d]
  BY <1>1 DEF DeskInv, PostTypeOK, Carrying
<1>3. \/ got' = got
      \/ /\ pc[c] \in {"sending", "sendlock"} /\ x # Nothing
         /\ got' = [got EXCEPT ![who[c]] = @ \cup {x}]
  BY <1>x DEF SendDone, SendOrphan, SendFail, ArgKinds
<1>n. pc[c] \in {"sending", "sendlock"} /\ got' = got /\ x # Nothing => Severed(who[c]) \/ x \in got[who[c]]
  <2>1. CASE ~peer[c] \/ who[c] \notin sessions
    BY <2>1 DEF Severed
  <2>2. CASE peer[c] /\ who[c] \in sessions
    <3>1. pc[c] \in {"sending", "sendlock"} /\ x # Nothing => got' = [got EXCEPT ![who[c]] = @ \cup {x}]
      BY <1>x, <2>2 DEF SendDone, SendOrphan, SendFail
    <3> QED
      BY <1>0, <3>1 DEF DeskInv, PostTypeOK
  <2> QED
    BY <2>1, <2>2
<1>4. \A u \in Uuids, y \in Items : y # x \/ u # who[c] => (y \in got'[u] <=> y \in got[u])
  BY <1>0, <1>3 DEF DeskInv, PostTypeOK
<1>5. \A o \in Rid : ~Has(c, o)'
  BY <1>2, NotCarriedNext
<1>6. ASSUME NEW o \in Rid, Posted(o), x # <<o, "request">>, x # <<o, "answer">>
      PROVE  Same(o)
  <2>1. ~Has(c, o)
    BY <1>x, <1>6 DEF Has, Sending, Waiting
  <2>2. Queued(o)' <=> Queued(o)
    BY <1>0 DEF Queued, Issued
  <2>3. \A u \in Uuids : \A y \in {<<o, "request">>, <<o, "answer">>} : y \in got'[u] <=> y \in got[u]
    <3>1. \A y \in {<<o, "request">>, <<o, "answer">>} : y \in Items /\ y # x
      BY <1>6 DEF Items
    <3> QED
      BY <1>4, <3>1
  <2> QED
    BY <1>0, <1>2, <1>5, <1>6, <2>1, <2>2, <2>3, Untouched
<1>7. CASE pc[c] \notin {"sending", "sendlock"}
  <2>1. \A o \in Rid : ~Has(c, o) /\ (Queued(o)' <=> Queued(o)) /\ got' = got
    BY <1>0, <1>3, <1>7, NotCarried DEF Carrying, Queued, Issued
  <2>2. ASSUME NEW o \in Rid, Posted(o) PROVE Same(o)
    BY <1>0, <1>2, <1>5, <2>1, <2>2, Untouched
  <2> QED
    BY <2>2 DEF OneMoves, Still
<1>8. CASE /\ pc[c] \in {"sending", "sendlock"}
           /\ \A o \in Rid : x # <<o, "request">> /\ x # <<o, "answer">>
  BY <1>6, <1>8 DEF OneMoves, Still
<1>9. ASSUME NEW r \in Rid, pc[c] \in {"sending", "sendlock"},
             x = <<r, "request">> \/ x = <<r, "answer">>
      PROVE  OneMoves
  <2>1. x # Nothing /\ Posted(r)
    <3>1. x # Nothing
      BY <1>9 DEF Nothing, Rid
    <3> QED
      BY <1>x, <1>9, <3>1 DEF DeskInv, Known
  <2>2. who[c] = Addressee(x)
    BY <1>x, <1>9, <2>1 DEF RouteInv, Routing
  <2>3. Has(c, r) /\ c \notin Waiting(r)
    BY <1>x, <1>9 DEF Has, Sending, Waiting
  <2>4. Alone(r) /\ \A d \in Conns \ {c} : ~Has(d, r)
    BY <2>1, <2>3, Located DEF MailInv
  <2>5. Rest(r)
    BY <1>6, <1>9 DEF Rest
  <2>6. ~Sending(c, r, "request")' /\ ~Sending(c, r, "answer")' /\ c \notin Waiting(r)'
    BY <1>5 DEF Has
  <2>7. <<r, "request">> \in Items /\ <<r, "answer">> \in Items /\ from[r] \in Uuids /\ to[r] \in Uuids
    BY <2>1 DEF Items, Posted
  <2>8. CASE x = <<r, "request">>
    <3>1. Where(r, "moving") /\ who[c] = to[r]
      <4>1. Sending(c, r, "request")
        BY <1>x, <1>9, <2>8 DEF Sending
      <4>2. who[c] = to[r]
        BY <2>2, <2>8 DEF Addressee
      <4> QED
        BY <2>4, <4>1, <4>2, Located
    <3>2. ~Queued(r)' /\ ~Boxed(r)' /\ ~Finished(r)'
      <4>1. ~Queued(r)' /\ ~Boxed(r)'
        BY <1>0, <3>1 DEF Where, Queued, Issued, Boxed
      <4>2. ~Finished(r)'
        BY <1>0, <1>4, <2>7, <2>8, <3>1 DEF Where, Finished
      <4> QED
        BY <4>1, <4>2
    <3>3. ASSUME NEW q \in {"held", "nowhere"}, Holding(r)' <=> q = "held" PROVE OneMoves
      <4>1. Where(r, q)' /\ OneHandler(r)'
        BY <1>2, <2>4, <2>6, <3>2, <3>3, Arrives DEF Spot
      <4>2. q = "nowhere" => Severed(to[r])
        <5>1. SUFFICES ASSUME ~Holding(r)' PROVE Severed(to[r])
          BY <3>3
        <5>2. x \notin got'[who[c]] /\ x \notin got[who[c]]
          BY <1>0, <2>8, <3>1, <5>1 DEF Holding, Where
        <5>3. got' = got
          BY <1>0, <1>3, <5>2 DEF DeskInv, PostTypeOK
        <5> QED
          BY <1>9, <1>n, <2>1, <3>1, <5>2, <5>3
      <4>3. Travels(r, "moving", q)
        BY <3>1, <4>1, <4>2 DEF Travels, Routes
      <4> QED
        BY <2>1, <2>5, <4>3 DEF OneMoves, Spot
    <3>4. CASE Holding(r)'
      BY <3>3, <3>4
    <3>5. CASE ~Holding(r)'
      BY <3>3, <3>5
    <3> QED
      BY <3>4, <3>5
  <2>9. CASE x = <<r, "answer">>
    <3>1. Where(r, "returning") /\ who[c] = from[r]
      <4>1. Sending(c, r, "answer")
        BY <1>x, <1>9, <2>9 DEF Sending
      <4>2. who[c] = from[r]
        BY <2>2, <2>9 DEF Addressee
      <4> QED
        BY <2>4, <4>1, <4>2, Located
    <3>2. ~Queued(r)' /\ ~Boxed(r)' /\ ~Holding(r)'
      <4>1. ~Queued(r)' /\ ~Boxed(r)'
        BY <1>0, <3>1 DEF Where, Queued, Issued, Boxed
      <4>2. ~Holding(r)'
        BY <1>0, <1>4, <2>7, <2>9, <3>1 DEF Where, Holding
      <4> QED
        BY <4>1, <4>2
    <3>3. ASSUME NEW q \in {"done", "nowhere"}, Finished(r)' <=> q = "done" PROVE OneMoves
      <4>1. Where(r, q)' /\ OneHandler(r)'
        BY <1>2, <2>4, <2>6, <3>2, <3>3, Arrives DEF Spot
      <4>2. q = "nowhere" => Severed(from[r])
        <5>1. SUFFICES ASSUME ~Finished(r)' PROVE Severed(from[r])
          BY <3>3
        <5>2. x \notin got'[who[c]] /\ x \notin got[who[c]]
          BY <1>0, <2>9, <3>1, <5>1 DEF Finished, Where
        <5>3. got' = got
          BY <1>0, <1>3, <5>2 DEF DeskInv, PostTypeOK
        <5> QED
          BY <1>9, <1>n, <2>1, <3>1, <5>2, <5>3
      <4>3. Travels(r, "returning", q)
        BY <3>1, <4>1, <4>2 DEF Travels, Routes
      <4> QED
        BY <2>1, <2>5, <4>3 DEF OneMoves, Spot
    <3>4. CASE Finished(r)'
      BY <3>3, <3>4
    <3>5. CASE ~Finished(r)'
      BY <3>3, <3>5
    <3> QED
      BY <3>4, <3>5
  <2> QED
    BY <1>9, <2>8, <2>9
<1> QED
  BY <1>7, <1>8, <1>9

(* PUT_INBOX: the request enters, and no other is touched.                 *)
LEMMA PostMoves ==
    ASSUME BookInv, DeskInv, RouteInv, MailInv, NEW c \in Conns, NEW r \in Rid, NEW target \in Uuids,
           PutInbox(c, r, target)
    PROVE  /\ ~Posted(r) /\ Posted(r)' /\ Rest(r) /\ Where(r, "queued")' /\ OneHandler(r)'
           /\ \A o \in Rid : o # r => from'[o] = from[o] /\ to'[o] = to[o]
           /\ \A o \in Rid : o < r => Posted(o)
           /\ from'[r] \in drawn /\ to'[r] = target /\ target \in sessions
           /\ InboxInOrder' /\ PostedInOrder'
<1>0. /\ who[c] \in sessions /\ target \in sessions /\ pc[c] \notin Carrying
      /\ to[r] = Nobody /\ \A q \in Rid : q < r => to[q] # Nobody
      /\ inbox' = [inbox EXCEPT ![target] = Append(@, r)]
      /\ from' = [from EXCEPT ![r] = who[c]]
      /\ to' = [to EXCEPT ![r] = target]
      /\ UNCHANGED <<outbox, got>>
  BY DEF PutInbox, Packet, Issued, Carrying
<1>1. /\ inbox \in [Uuids -> Seq(Rid)] /\ from \in [Rid -> Uuids \cup {Nobody}]
      /\ to \in [Rid -> Uuids \cup {Nobody}]
  BY DEF DeskInv, PostTypeOK
<1>2. ~Posted(r) /\ \A q \in Rid : q < r => Posted(q)
  BY <1>0, NobodyAssumption DEF DeskInv, Known, Posted
<1>3. /\ from'[r] = who[c] /\ to'[r] = target
      /\ \A o \in Rid : o # r => from'[o] = from[o] /\ to'[o] = to[o]
  BY <1>0, <1>1
<1>4. Posted(r)' /\ from'[r] \in drawn
  BY <1>0, <1>3 DEF Posted, BookInv, BookTypeOK
<1>5. \A q \in Rid : Posted(q) => q <= r /\ q # r
  <2>1. SUFFICES ASSUME NEW q \in Rid, Posted(q), ~(q <= r) PROVE FALSE
    BY <1>2
  <2>2. r < q
    BY <2>1 DEF Rid
  <2> QED
    BY <1>2, <2>1, <2>2 DEF MailInv, PostedInOrder
<1>6. PostedInOrder'
  <2> SUFFICES ASSUME NEW q \in Rid, NEW o \in Rid, q < o, Posted(o)' PROVE Posted(q)'
    BY DEF PostedInOrder
  <2>1. Posted(q) => Posted(q)'
    BY <1>2, <1>3 DEF Posted
  <2>2. CASE o = r
    BY <1>2, <2>1, <2>2
  <2>3. CASE o # r
    <3>1. Posted(o)
      BY <1>3, <2>3 DEF Posted
    <3> QED
      BY <2>1, <3>1 DEF MailInv, PostedInOrder
  <2> QED
    BY <2>2, <2>3
<1> DEFINE s == inbox[target]
           t == inbox'[target]
<1>7. /\ s \in Seq(Rid) /\ Len(s) \in Nat /\ Len(t) = Len(s) + 1
      /\ \A i \in 1 .. Len(s) : t[i] = s[i] /\ s[i] \in Rid
      /\ t[Len(s) + 1] = r
  BY <1>0, <1>1, AppendLine
<1>8. \A v \in Uuids : v # target => inbox'[v] = inbox[v]
  BY <1>0, <1>1
<1>9. \A i \in 1 .. Len(s) : s[i] < r /\ Posted(s[i])
  <2> SUFFICES ASSUME NEW i \in 1 .. Len(s) PROVE s[i] < r /\ Posted(s[i])
    OBVIOUS
  <2>1. s[i] \in Rid /\ Posted(s[i])
    BY <1>7 DEF RouteInv, InboxRouted
  <2>2. s[i] <= r /\ s[i] # r
    BY <1>5, <2>1
  <2> QED
    BY <2>1, <2>2 DEF Rid
<1>10. InboxInOrder'
  <2> SUFFICES ASSUME NEW v \in Uuids, NEW i \in 1 .. Len(inbox'[v]), NEW j \in 1 .. Len(inbox'[v]), i < j
               PROVE  inbox'[v][i] < inbox'[v][j]
    BY DEF InboxInOrder
  <2>1. CASE v # target
    BY <1>8, <2>1 DEF MailInv, InboxInOrder
  <2>2. CASE v = target
    <3>1. i \in 1 .. Len(s) /\ t[i] = s[i] /\ (j = Len(s) + 1 \/ j \in 1 .. Len(s))
      BY <1>7, <2>2
    <3>2. CASE j = Len(s) + 1
      BY <1>7, <1>9, <2>2, <3>1, <3>2
    <3>3. CASE j \in 1 .. Len(s)
      <4>1. s[i] < s[j]
        BY <3>1, <3>3 DEF MailInv, InboxInOrder
      <4> QED
        BY <1>7, <2>2, <3>1, <3>3, <4>1
    <3> QED
      BY <3>1, <3>2, <3>3
  <2> QED
    BY <2>1, <2>2
<1>11. PICK x \in {<<r, "ticket">>, Nothing} :
         arg' = [arg EXCEPT ![c] = x] /\ pc' = [pc EXCEPT ![c] = "sending"]
  BY ReplyCarries DEF PutInbox
<1>12. /\ arg'[c] = x
       /\ \A d \in Conns \ {c} : pc'[d] = pc[d] /\ arg'[d] = arg[d]
  BY <1>11 DEF DeskInv, PostTypeOK
<1>13. \A o \in Rid : ~Has(c, o) /\ ~Has(c, o)'
  BY <1>0, <1>11, <1>12, NotCarried, NotCarriedNext
<1>14. Rest(r)
  <2> SUFFICES ASSUME NEW o \in Rid, o # r, Posted(o) PROVE Same(o)
    BY DEF Rest
  <2>1. from'[o] = from[o] /\ to'[o] = to[o] /\ to[o] \in Uuids /\ to[o] # Nobody
    BY <1>3, NobodyAssumption DEF Posted
  <2>2. Queued(o)' <=> Queued(o)
    <3>1. CASE to[o] # target
      <4>1. inbox'[to[o]] = inbox[to[o]]
        BY <1>8, <2>1, <3>1
      <4> QED
        BY <2>1, <4>1 DEF Queued, Issued
    <3>2. CASE to[o] = target
      <4>1. (\E k \in 1 .. Len(t) : t[k] = o) <=> (\E k \in 1 .. Len(s) : s[k] = o)
        <5>1. ASSUME NEW k \in 1 .. Len(t), t[k] = o PROVE k \in 1 .. Len(s) /\ s[k] = o
          <6>1. k # Len(s) + 1
            BY <1>7, <5>1
          <6> QED
            BY <1>7, <5>1, <6>1
        <5>2. ASSUME NEW k \in 1 .. Len(s), s[k] = o PROVE k \in 1 .. Len(t) /\ t[k] = o
          BY <1>7, <5>2
        <5> HIDE DEF s, t
        <5> QED
          BY <5>1, <5>2
      <4> HIDE DEF s, t
      <4> QED
        BY <2>1, <3>2, <4>1 DEF Queued, Issued, s, t
    <3> QED
      BY <3>1, <3>2
  <2> QED
    BY <1>0, <1>12, <1>13, <2>1, <2>2, Untouched
<1>15. Where(r, "queued")' /\ OneHandler(r)'
  <2>1. Queued(r)'
    <3>1. Len(s) + 1 \in 1 .. Len(t) /\ t[Len(s) + 1] = r
      BY <1>7
    <3>2. to'[r] # Nobody /\ to'[r] = target
      BY <1>3, NobodyAssumption
    <3> HIDE DEF s
    <3> QED
      BY <3>1, <3>2 DEF Queued, Issued
  <2>2. ~Holding(r)' /\ ~Finished(r)' /\ ~Boxed(r)'
    <3>1. \A u \in Uuids : r \notin outbox[u] /\ \A y \in got[u] : y[1] # r
      <4>1. ASSUME NEW u \in Uuids PROVE r \notin outbox[u]
        BY <1>2, NobodyAssumption DEF RouteInv, Routing, DeskInv, Known
      <4>2. ASSUME NEW u \in Uuids, NEW y \in got[u] PROVE y[1] # r
        BY <1>2 DEF DeskInv, Known
      <4> QED
        BY <4>1, <4>2
    <3>2. from'[r] \in Uuids /\ to'[r] \in Uuids
      BY <1>4 DEF Posted
    <3> QED
      BY <1>0, <3>1, <3>2 DEF Holding, Finished, Boxed
  <2>3. \A d \in Conns : ~Has(d, r)
    BY <1>2, NotCarried DEF DeskInv, Known
  <2>4. ~Sending(c, r, "request")' /\ ~Sending(c, r, "answer")' /\ c \notin Waiting(r)'
    BY <1>13 DEF Has
  <2> QED
    BY <1>12, <2>1, <2>2, <2>3, <2>4, Arrives DEF Spot
<1> QED
  BY <1>0, <1>2, <1>3, <1>4, <1>6, <1>10, <1>14, <1>15

-----------------------------------------------------------------------------
(* The invariant: every step either moves no request, or moves one along a *)
(* route while no session comes or goes, or posts one.                     *)

LEMMA ArgKindsKept ==
    ASSUME DeskInv, ArgKinds, NEW c \in Conns, NEW p, NEW x,
           pc' = [pc EXCEPT ![c] = p], arg' = [arg EXCEPT ![c] = x],
           p # "refusing", p = "putwait" => x[2] = "answer"
    PROVE  ArgKinds'
<1>1. /\ pc'[c] = p /\ arg'[c] = x
      /\ \A d \in Conns \ {c} : pc'[d] = pc[d] /\ arg'[d] = arg[d]
  BY DEF DeskInv, PostTypeOK
<1> QED
  BY <1>1 DEF ArgKinds

LEMMA QuietArgKinds ==
    ASSUME DeskInv, ArgKinds, NEW c \in Conns, Quiet(c)
    PROVE  ArgKinds'
<1>1. /\ pc'[c] # "putwait" /\ (pc'[c] = "refusing" => arg'[c] = Nothing)
      /\ \A d \in Conns \ {c} : pc'[d] = pc[d] /\ arg'[d] = arg[d]
  BY DEF Quiet, DeskInv, PostTypeOK, LinePlaces
<1> QED
  BY <1>1 DEF ArgKinds

RpcInv == PostInv /\ MailInv /\ ArgKinds

Resting == Still /\ UNCHANGED <<inbox, from, to>>
Moving == OneMoves /\ InboxInOrder' /\ UNCHANGED <<sessions, drawn, from, to>>
Posting ==
    /\ \E c \in Conns, r \in Rid, target \in Uuids : PutInbox(c, r, target)
    /\ UNCHANGED <<sessions, drawn>>

LEMMA StepKinds ==
    ASSUME RpcInv, [Next]_vars
    PROVE  (Resting \/ Moving \/ Posting) /\ ArgKinds'
<1> DEFINE Goal == (Resting \/ Moving \/ Posting) /\ ArgKinds'
<1> USE DEF RpcInv, PostInv
<1>1. ASSUME NEW c \in Conns, Quiet(c) PROVE Goal
  <2>1. Still /\ ArgKinds'
    BY <1>1, QuietSame, QuietArgKinds DEF Still
  <2> QED
    BY <1>1, <2>1 DEF Quiet, mailVars, Resting
<1>2. ASSUME UNCHANGED <<pc, arg, mailVars>> PROVE Goal
  <2>1. Still
    BY <1>2, IdleSame DEF Still
  <2> QED
    BY <1>2, <2>1 DEF Resting, mailVars, ArgKinds
<1>3. ASSUME UNCHANGED inbox PROVE InboxInOrder'
  BY <1>3 DEF MailInv, InboxInOrder
<1>4. ASSUME NEW c \in Conns, GetInbox(c) \/ Take(c) PROVE Goal
  <2>1. OneMoves /\ InboxInOrder'
    BY <1>4, TakeMoves
  <2>2. UNCHANGED <<sessions, drawn, from, to>>
    BY <1>4 DEF GetInbox, Take, TakeHead, bookVars
  <2>3. PICK x, p :
           /\ p \in {"sending", "crashed"}
           /\ arg' = [arg EXCEPT ![c] = x] /\ pc' = [pc EXCEPT ![c] = p]
    BY <1>4, ReplyCarries DEF GetInbox, Take, Crash, Goto
  <2>4. ArgKinds'
    BY <2>3, ArgKindsKept
  <2> QED
    BY <2>1, <2>2, <2>4 DEF Moving
<1>5. ASSUME NEW c \in Conns, NEW r \in Rid,
             PutOutbox(c, r) \/ PutOutboxWait(c, r) \/ PutOutboxGone(c, r)
      PROVE  Goal
  <2>1. OneMoves
    BY <1>5, AnswerMoves
  <2>2. UNCHANGED <<sessions, drawn, inbox, from, to>>
    BY <1>5 DEF PutOutbox, PutOutboxWait, PutOutboxGone, bookVars
  <2>3. PICK x, p :
           /\ p \in {"sending", "crashed", "putwait"}
           /\ arg' = [arg EXCEPT ![c] = x] /\ pc' = [pc EXCEPT ![c] = p]
           /\ p = "putwait" => x = <<r, "answer">>
    <3>1. CASE PutOutbox(c, r)
      BY <3>1, ReplyCarries DEF PutOutbox
    <3>2. CASE PutOutboxWait(c, r)
      BY <3>2 DEF PutOutboxWait, Goto
    <3>3. CASE PutOutboxGone(c, r)
      BY <3>3 DEF PutOutboxGone, Crash, Goto
    <3> QED
      BY <1>5, <3>1, <3>2, <3>3
  <2>4. ArgKinds'
    BY <2>3, ArgKindsKept
  <2> QED
    BY <1>3, <2>1, <2>2, <2>4 DEF Moving
<1>6. ASSUME NEW c \in Conns, PutOutboxLocked(c) PROVE Goal
  <2>1. OneMoves
    BY <1>6, LockedMoves
  <2>2. UNCHANGED <<sessions, drawn, inbox, from, to>>
    BY <1>6 DEF PutOutboxLocked, bookVars
  <2>3. PICK x, p :
           /\ p \in {"sending", "crashed"}
           /\ arg' = [arg EXCEPT ![c] = x] /\ pc' = [pc EXCEPT ![c] = p]
    BY <1>6, ReplyCarries DEF PutOutboxLocked, Crash, Goto
  <2>4. ArgKinds'
    BY <2>3, ArgKindsKept
  <2> QED
    BY <1>3, <2>1, <2>2, <2>4 DEF Moving
<1>7. ASSUME NEW c \in Conns, GetOutboxLocked(c) PROVE Goal
  <2>0. PICK r \in Rid : r = arg[c][1]
    BY <1>7 DEF GetOutboxLocked, DeskInv, PostTypeOK, Known, Items
  <2>1. OneMoves
    BY <1>7, <2>0, FetchMoves
  <2>2. UNCHANGED <<sessions, drawn, inbox, from, to>>
    BY <1>7 DEF GetOutboxLocked, bookVars
  <2>3. PICK x, p :
           /\ p \in {"sendlock", "crashed"}
           /\ arg' = [arg EXCEPT ![c] = x] /\ pc' = [pc EXCEPT ![c] = p]
    BY <1>7, ReplyCarries DEF GetOutboxLocked, Fetch, Crash, Goto
  <2>4. ArgKinds'
    BY <2>3, ArgKindsKept
  <2> QED
    BY <1>3, <2>1, <2>2, <2>4 DEF Moving
<1>8. ASSUME NEW c \in Conns, NEW r \in Rid, GetOutbox(c, r) PROVE Goal
  <2>1. OneMoves
    BY <1>8, FetchMoves
  <2>2. UNCHANGED <<sessions, drawn, inbox, from, to>>
    BY <1>8 DEF GetOutbox, bookVars
  <2>3. PICK x : arg' = [arg EXCEPT ![c] = x] /\ pc' = [pc EXCEPT ![c] = "sendlock"]
    BY <1>8, ReplyCarries DEF GetOutbox, Fetch
  <2>4. ArgKinds'
    BY <2>3, ArgKindsKept
  <2> QED
    BY <1>3, <2>1, <2>2, <2>4 DEF Moving
<1>9. ASSUME NEW c \in Conns, NEW r \in Rid, GetOutboxWait(c, r) PROVE Goal
  <2>1. Still
    BY <1>9, GetOutboxWaitStill
  <2>2. UNCHANGED <<inbox, from, to>>
    BY <1>9 DEF GetOutboxWait
  <2>3. arg' = [arg EXCEPT ![c] = <<r, "ticket">>] /\ pc' = [pc EXCEPT ![c] = "getwait"]
    BY <1>9 DEF GetOutboxWait, Goto
  <2>4. ArgKinds'
    BY <2>3, ArgKindsKept
  <2> QED
    BY <2>1, <2>2, <2>4 DEF Resting
<1>10. ASSUME NEW c \in Conns, SendDone(c) \/ SendOrphan(c) \/ SendFail(c) PROVE Goal
  <2>1. OneMoves
    BY <1>10, SendMoves
  <2>2. UNCHANGED <<sessions, drawn, inbox, from, to>>
    BY <1>10 DEF SendDone, SendOrphan, SendFail, bookVars
  <2>3. PICK p \in {"idle", "crashed"} :
           arg' = [arg EXCEPT ![c] = Nothing] /\ pc' = [pc EXCEPT ![c] = p]
    BY <1>10 DEF SendDone, SendOrphan, SendFail, Crash, Goto
  <2>4. ArgKinds'
    BY <2>3, ArgKindsKept
  <2> QED
    BY <1>3, <2>1, <2>2, <2>4 DEF Moving
<1>11. ASSUME NEW c \in Conns, NEW r \in Rid, NEW target \in Uuids, PutInbox(c, r, target) PROVE Goal
  <2>1. UNCHANGED <<sessions, drawn>>
    BY <1>11 DEF PutInbox, bookVars
  <2>2. PICK x : arg' = [arg EXCEPT ![c] = x] /\ pc' = [pc EXCEPT ![c] = "sending"]
    BY <1>11, ReplyCarries DEF PutInbox
  <2>3. ArgKinds'
    BY <2>2, ArgKindsKept
  <2> QED
    BY <1>11, <2>1, <2>3 DEF Posting
<1>12. ASSUME NEW c \in Conns, Disconnect(c) PROVE Goal
  BY <1>2, <1>12 DEF Disconnect
<1>13. CASE UNCHANGED vars
  BY <1>2, <1>13 DEF vars, deskVars
<1>14. ASSUME NEW c \in Conns, Serve(c) PROVE Goal
  <2>1. CASE \/ Query(c) \/ Malformed(c) \/ GetInboxWait(c)
             \/ \E k \in Keys : Register(c, k) \/ Unregister(c, k)
             \/ \E target \in Uuids : PutInboxGone(c, target)
    BY <1>1, <2>1, ServeQuiet
  <2>2. CASE BadFrame(c) \/ Orphan(c) \/ BadPacket(c) \/ Bye(c)
    BY <1>1, <2>2, EndQuiet
  <2> HIDE DEF Goal
  <2> QED
    BY <1>4, <1>5, <1>8, <1>9, <1>11, <1>14, <2>1, <2>2 DEF Serve
<1>15. ASSUME NEW c \in Conns, Proceed(c) PROVE Goal
  <2>1. CASE StartHandler(c)
    BY <1>1, <2>1, StartHandlerQuiet
  <2>2. CASE EndOfStream(c) \/ Refused(c)
    BY <1>1, <2>2, EndQuiet
  <2> HIDE DEF Goal
  <2> QED
    BY <1>4, <1>6, <1>7, <1>10, <1>15, <2>1, <2>2 DEF Proceed
<1>16. ASSUME NEW c \in Conns, Connect(c) PROVE Goal
  BY <1>1, <1>16, ConnectQuiet
<1>17. CASE Next
  <2>1. PICK c \in Conns : Connect(c) \/ Disconnect(c) \/ Serve(c) \/ Proceed(c)
    BY <1>17 DEF Next
  <2> QED
    BY <1>12, <1>14, <1>15, <1>16, <2>1
<1> QED
  BY <1>13, <1>17

LEMMA DrawnGrows == [BookNext]_bookVars => drawn \subseteq drawn'
  BY DEF BookNext, NewSession, TearDown, RegisterKey, UnregisterKey, bookVars

LEMMA RpcInvInit == Init => RpcInv
<1> SUFFICES ASSUME Init PROVE RpcInv
  OBVIOUS
<1>1. \A r \in Rid : ~Posted(r)
  BY NobodyAssumption DEF Init, Posted
<1>2. InboxInOrder
  BY DEF Init, InboxInOrder
<1>3. ArgKinds
  BY DEF Init, ArgKinds
<1> QED
  BY <1>1, <1>2, <1>3, PostInvInit DEF RpcInv, MailInv, PostedInOrder, PostedByDrawn

LEMMA RpcInvStep == RpcInv /\ [Next]_vars => RpcInv'
<1> SUFFICES ASSUME RpcInv, [Next]_vars PROVE RpcInv'
  OBVIOUS
<1>1. PostInv' /\ drawn \subseteq drawn'
  BY PostInvStep, HandlersFollowBook, DrawnGrows DEF RpcInv, PostInv
<1>2. ArgKinds' /\ (Resting \/ Moving \/ Posting)
  BY StepKinds
<1>3. ASSUME UNCHANGED <<from, to>>
      PROVE  /\ \A r \in Rid : Posted(r)' <=> Posted(r)
             /\ PostedInOrder' /\ PostedByDrawn'
  <2>1. \A r \in Rid : Posted(r)' <=> Posted(r)
    BY <1>3 DEF Posted
  <2> QED
    BY <1>1, <1>3, <2>1 DEF RpcInv, MailInv, PostedInOrder, PostedByDrawn
<1>4. ASSUME NEW r \in Rid, Posted(r), Same(r) PROVE Alone(r)'
  BY <1>4, SameStays DEF RpcInv, MailInv
<1>5. CASE Resting
  <2>1. InboxInOrder'
    BY <1>5 DEF Resting, RpcInv, MailInv, InboxInOrder
  <2>2. \A r \in Rid : Posted(r)' => Alone(r)'
    BY <1>3, <1>4, <1>5 DEF Resting, Still
  <2> QED
    BY <1>1, <1>2, <1>3, <1>5, <2>1, <2>2 DEF Resting, RpcInv, MailInv
<1>6. CASE Moving
  <2>1. \A r \in Rid : Posted(r)' => Alone(r)'
    <3>1. CASE Still
      BY <1>3, <1>4, <1>6, <3>1 DEF Moving, Still
    <3>2. CASE ~Still
      <4>1. PICK m \in Rid, p \in Spot, q \in Spot : Posted(m) /\ Travels(m, p, q) /\ Rest(m)
        BY <1>6, <3>2 DEF Moving, OneMoves
      <4>2. Alone(m)'
        BY <4>1 DEF Travels, Alone
      <4> QED
        BY <1>3, <1>4, <1>6, <4>1, <4>2 DEF Moving, Rest
    <3> QED
      BY <3>1, <3>2
  <2> QED
    BY <1>1, <1>2, <1>3, <1>6, <2>1 DEF Moving, RpcInv, MailInv
<1>7. CASE Posting
  <2>1. PICK c \in Conns, m \in Rid, target \in Uuids : PutInbox(c, m, target)
    BY <1>7 DEF Posting
  <2>2. /\ ~Posted(m) /\ Posted(m)' /\ Rest(m) /\ Where(m, "queued")' /\ OneHandler(m)'
        /\ \A o \in Rid : o # m => from'[o] = from[o] /\ to'[o] = to[o]
        /\ from'[m] \in drawn /\ to'[m] = target /\ target \in sessions
        /\ InboxInOrder' /\ PostedInOrder'
    BY <2>1, PostMoves DEF RpcInv, PostInv
  <2>3. Alone(m)'
    BY <2>2 DEF Alone, Spot
  <2>4. \A r \in Rid : r # m => (Posted(r)' <=> Posted(r))
    BY <2>2 DEF Posted
  <2>5. \A r \in Rid : Posted(r)' => Alone(r)'
    BY <1>4, <2>2, <2>3, <2>4 DEF Rest
  <2>6. PostedByDrawn'
    BY <1>1, <2>2, <2>4 DEF PostedByDrawn, RpcInv, MailInv, PostInv, BookInv
  <2> QED
    BY <1>1, <1>2, <2>2, <2>5, <2>6 DEF RpcInv, MailInv
<1> QED
  BY <1>2, <1>5, <1>6, <1>7

LEMMA RpcInvAlways == Spec => []RpcInv
  BY RpcInvInit, RpcInvStep, PTL DEF Spec

-----------------------------------------------------------------------------

LEMMA AtMostOneElement ==
    ASSUME NEW S, \A a, b \in S : a = b
    PROVE  Cardinality(S) <= 1
<1>1. CASE S = {}
  BY <1>1, FS_EmptySet
<1>2. CASE S # {}
  <2>1. PICK a \in S : S = {a}
    BY <1>2
  <2>2. Cardinality({a}) = 1
    BY FS_Singleton
  <2> QED
    BY <2>1, <2>2
<1> QED
  BY <1>1, <1>2

(* A request or its answer is never in two places, however many handlers   *)
(* serve one session and whatever fails (server.py:763, 829).              *)
THEOREM NeverDuplicated == Spec => []OnePlace
<1>1. RpcInv => OnePlace
  <2> SUFFICES ASSUME RpcInv, NEW r \in Issued PROVE Cardinality(Spots(r)) <= 1
    BY DEF OnePlace
  <2>1. r \in Rid /\ Posted(r) /\ from[r] \in Uuids /\ to[r] \in Uuids
    BY DEF Issued, RpcInv, PostInv, DeskInv, Known, Posted
  <2>2. PICK p \in Spot : Where(r, p) /\ OneHandler(r)
    BY <2>1 DEF RpcInv, MailInv, Alone
  <2>3. \A i, j \in 1 .. Len(inbox[to[r]]) :
           inbox[to[r]][i] = r /\ inbox[to[r]][j] = r => i = j
    <3> SUFFICES ASSUME NEW i \in 1 .. Len(inbox[to[r]]), NEW j \in 1 .. Len(inbox[to[r]]),
                        inbox[to[r]][i] = r, inbox[to[r]][j] = r
                 PROVE  i = j
      OBVIOUS
    <3>1. ~(i < j) /\ ~(j < i)
      BY <2>1 DEF RpcInv, MailInv, InboxInOrder, Rid
    <3>2. i \in Int /\ j \in Int
      BY DEF RpcInv, PostInv, DeskInv, PostTypeOK
    <3> QED
      BY <3>1, <3>2
  <2>4. \A u \in Uuids : /\ r \in outbox[u] => u = from[r]
                         /\ <<r, "request">> \in got[u] => u = to[r]
                         /\ <<r, "answer">> \in got[u] => u = from[r]
    BY DEF RpcInv, PostInv, RouteInv, Routing, Addressee
  <2>5. \A i \in 1 .. Len(inbox[to[r]]) : inbox[to[r]][i] = r => p = "queued"
    BY <2>2 DEF Where, Queued
  <2>6. \A c \in Conns : /\ Sending(c, r, "request") => p = "moving"
                         /\ Sending(c, r, "answer") => p = "returning"
                         /\ c \in Waiting(r) => p = "waiting"
    BY <2>2 DEF Where, Sender
  <2>7. \A u \in Uuids : /\ r \in outbox[u] => p = "boxed"
                         /\ <<r, "request">> \in got[u] => p = "held"
                         /\ <<r, "answer">> \in got[u] => p = "done"
    BY <2>2, <2>4 DEF Where, Boxed, Holding, Finished
  <2>8. \A c, d \in Conns : Has(c, r) /\ Has(d, r) => c = d
    BY <2>2 DEF OneHandler
  <2>9. \A a, b \in Spots(r) : a = b
    <3>1. \A a \in Spots(r) :
            \/ p = "queued" /\ \E i \in 1 .. Len(inbox[to[r]]) : inbox[to[r]][i] = r /\ a = <<"inbox", i>>
            \/ p \in {"moving", "returning"} /\ \E c \in Conns : Has(c, r) /\ a = <<"reply", c>>
            \/ p = "waiting" /\ \E c \in Conns : Has(c, r) /\ a = <<"waiting", c>>
            \/ p = "boxed" /\ a = <<"outbox", from[r]>>
            \/ p = "held" /\ a = <<"client", to[r]>>
            \/ p = "done" /\ a = <<"done", from[r]>>
      <4> SUFFICES ASSUME NEW a \in Spots(r)
                   PROVE  \/ p = "queued" /\ \E i \in 1 .. Len(inbox[to[r]]) : inbox[to[r]][i] = r /\ a = <<"inbox", i>>
                          \/ p \in {"moving", "returning"} /\ \E c \in Conns : Has(c, r) /\ a = <<"reply", c>>
                          \/ p = "waiting" /\ \E c \in Conns : Has(c, r) /\ a = <<"waiting", c>>
                          \/ p = "boxed" /\ a = <<"outbox", from[r]>>
                          \/ p = "held" /\ a = <<"client", to[r]>>
                          \/ p = "done" /\ a = <<"done", from[r]>>
        OBVIOUS
      <4>1. \/ \E i \in 1 .. Len(inbox[to[r]]) : inbox[to[r]][i] = r /\ a = <<"inbox", i>>
            \/ \E c \in Conns : (Sending(c, r, "request") \/ Sending(c, r, "answer")) /\ a = <<"reply", c>>
            \/ \E c \in Waiting(r) : a = <<"waiting", c>>
            \/ \E u \in Uuids : r \in outbox[u] /\ a = <<"outbox", u>>
            \/ \E u \in Uuids : <<r, "request">> \in got[u] /\ a = <<"client", u>>
            \/ \E u \in Uuids : <<r, "answer">> \in got[u] /\ a = <<"done", u>>
        BY DEF Spots
      <4>2. \A c \in Conns : Has(c, r) <=> Sending(c, r, "request") \/ Sending(c, r, "answer") \/ c \in Waiting(r)
        BY DEF Has
      <4>3. Waiting(r) \subseteq Conns
        BY DEF Waiting
      <4> QED
        BY <2>4, <2>5, <2>6, <2>7, <4>1, <4>2, <4>3
    <3> SUFFICES ASSUME NEW a \in Spots(r), NEW b \in Spots(r) PROVE a = b
      OBVIOUS
    <3>2. CASE p = "queued"
      BY <2>3, <3>1, <3>2
    <3>3. CASE p \in {"moving", "returning"}
      BY <2>8, <3>1, <3>3
    <3>4. CASE p = "waiting"
      BY <2>8, <3>1, <3>4
    <3>5. CASE p \in {"boxed", "held", "done", "nowhere"}
      BY <3>1, <3>5
    <3> QED
      BY <3>2, <3>3, <3>4, <3>5 DEF Spot
  <2> QED
    BY <2>9, AtMostOneElement
<1> QED
  BY <1>1, RpcInvAlways, PTL

-----------------------------------------------------------------------------
(* The refinement of Rpc, step by step.  A session that ends can lose many *)
(* requests at once, and one that begins can find none of its own: its     *)
(* uuid has just been drawn.                                               *)

LEMMA MovesAs ==
    ASSUME NEW r \in Rid, \A o \in Rid : o # r => StageOf(o)' = StageOf(o)
    PROVE  Abstract!Move(r, StageOf(r), StageOf(r)')
<1>1. [o \in Rid |-> StageOf(o)]' = [[o \in Rid |-> StageOf(o)] EXCEPT ![r] = StageOf(r)']
  OBVIOUS
<1> QED
  BY <1>1 DEF Abstract!Move

LEMMA LosesAs ==
    ASSUME UNCHANGED <<from, to>>,
           \A r \in Rid : \/ StageOf(r)' = StageOf(r)
                          \/ StageOf(r)' = "lost" /\ StageOf(r) \notin {"unsent", "done"}
    PROVE  Abstract!RpcNext
<1> DEFINE rs == {r \in Rid : StageOf(r)' # StageOf(r)}
<1>1. \A r \in rs : StageOf(r) \notin {"unsent", "done"} /\ StageOf(r)' = "lost"
  OBVIOUS
<1>2. [r \in Rid |-> StageOf(r)]' = [r \in Rid |-> IF r \in rs THEN "lost" ELSE StageOf(r)]
  BY <1>1
<1>3. Abstract!Lose(rs)
  BY <1>1, <1>2 DEF Abstract!Lose, Abstract!Rid, Rid
<1> QED
  BY <1>3 DEF Abstract!RpcNext, Abstract!Rid, Rid

(* A request that nothing moves is lost when its session ends.             *)
LEMMA SameStage ==
    ASSUME NEW r \in Rid, Posted(r), Alone(r), Same(r),
           to[r] \in sessions' => to[r] \in sessions,
           from[r] \in sessions' => from[r] \in sessions
    PROVE  \/ StageOf(r)' = StageOf(r)
           \/ /\ StageOf(r)' = "lost" /\ StageOf(r) \notin {"unsent", "done"}
              /\ ~(sessions \subseteq sessions')
<1>1. PICK p \in Spot : Where(r, p) /\ Where(r, p)'
  BY SameStays DEF Alone
<1>2. to'[r] = to[r] /\ from'[r] = from[r] /\ to[r] # Nobody
  BY NobodyAssumption DEF Same, Posted
<1>3. StageOf(r) = IF p = "queued" THEN IF to[r] \in sessions THEN "queued" ELSE "lost"
                   ELSE IF p = "waiting" THEN "held"
                   ELSE IF p = "boxed" THEN IF from[r] \in sessions THEN "answered" ELSE "lost"
                   ELSE IF p = "nowhere" THEN "lost"
                   ELSE p
  BY <1>1, <1>2, StageIs
<1>4. StageOf(r)' = IF p = "queued" THEN IF to[r] \in sessions' THEN "queued" ELSE "lost"
                    ELSE IF p = "waiting" THEN "held"
                    ELSE IF p = "boxed" THEN IF from[r] \in sessions' THEN "answered" ELSE "lost"
                    ELSE IF p = "nowhere" THEN "lost"
                    ELSE p
  BY <1>1, <1>2, StageIsNext
<1>5. CASE p = "queued"
  BY <1>3, <1>4, <1>5
<1>6. CASE p = "boxed"
  BY <1>3, <1>4, <1>6
<1>7. CASE p \notin {"queued", "boxed"}
  BY <1>3, <1>4, <1>7
<1> QED
  BY <1>5, <1>6, <1>7

LEMMA UnsentStage ==
    \A r \in Rid : to[r] = Nobody => StageOf(r) = "unsent"
<1> SUFFICES ASSUME NEW r \in Rid, to[r] = Nobody PROVE StageOf(r) = "unsent"
  OBVIOUS
<1> QED
  BY DEF StageOf, Sending, Waiting, Queued, Issued

LEMMA UnsentStageNext ==
    (\A r \in Rid : to[r] = Nobody => StageOf(r) = "unsent")'
  BY UnsentStage, PTL

LEMMA RestingStep ==
    ASSUME RpcInv, [BookNext]_bookVars, Resting
    PROVE  Abstract!RpcNext
<1>1. \A u \in drawn : u \in sessions' => u \in sessions
  BY DEF BookNext, NewSession, TearDown, RegisterKey, UnregisterKey, bookVars
<1>2. UNCHANGED <<from, to>>
  BY DEF Resting
<1>3. ASSUME NEW r \in Rid
      PROVE  \/ StageOf(r)' = StageOf(r)
             \/ StageOf(r)' = "lost" /\ StageOf(r) \notin {"unsent", "done"}
  <2>1. CASE Posted(r)
    BY <1>1, <2>1, SameStage DEF RpcInv, MailInv, PostedByDrawn, Resting, Still
  <2>2. CASE ~Posted(r)
    <3>1. to[r] = Nobody /\ to'[r] = Nobody
      BY <1>2, <2>2 DEF RpcInv, PostInv, DeskInv, Known
    <3> QED
      BY <3>1, UnsentStage, UnsentStageNext
  <2> QED
    BY <2>1, <2>2
<1> QED
  BY <1>2, <1>3, LosesAs

LEMMA MovingStep ==
    ASSUME RpcInv, Moving
    PROVE  Abstract!RpcNext
<1>1. UNCHANGED <<sessions, from, to>>
  BY DEF Moving
<1>2. ASSUME NEW r \in Rid, Posted(r) => Same(r)
      PROVE  StageOf(r)' = StageOf(r)
  <2>1. CASE Posted(r)
    BY <1>1, <1>2, <2>1, SameStage DEF RpcInv, MailInv
  <2>2. CASE ~Posted(r)
    <3>1. to[r] = Nobody /\ to'[r] = Nobody
      BY <1>1, <2>2 DEF RpcInv, PostInv, DeskInv, Known
    <3> QED
      BY <3>1, UnsentStage, UnsentStageNext
  <2> QED
    BY <2>1, <2>2
<1>3. CASE Still
  BY <1>1, <1>2, <1>3, LosesAs DEF Still
<1>4. CASE ~Still
  <2>1. PICK m \in Rid, p \in Spot, q \in Spot : Posted(m) /\ Travels(m, p, q) /\ Rest(m)
    BY <1>4 DEF Moving, OneMoves
  <2>2. \A o \in Rid : o # m => StageOf(o)' = StageOf(o)
    BY <1>2, <2>1 DEF Rest
  <2>3. Abstract!Move(m, StageOf(m), StageOf(m)')
    BY <2>2, MovesAs
  <2>4. to[m] # Nobody /\ to'[m] = to[m] /\ from'[m] = from[m] /\ sessions' = sessions
    BY <1>1, <2>1, NobodyAssumption DEF Posted
  <2>5. StageOf(m) = IF p = "queued" THEN IF to[m] \in sessions THEN "queued" ELSE "lost"
                     ELSE IF p = "waiting" THEN "held"
                     ELSE IF p = "boxed" THEN IF from[m] \in sessions THEN "answered" ELSE "lost"
                     ELSE IF p = "nowhere" THEN "lost"
                     ELSE p
    BY <2>1, <2>4, StageIs DEF Travels
  <2>6. StageOf(m)' = IF q = "queued" THEN IF to[m] \in sessions THEN "queued" ELSE "lost"
                      ELSE IF q = "waiting" THEN "held"
                      ELSE IF q = "boxed" THEN IF from[m] \in sessions THEN "answered" ELSE "lost"
                      ELSE IF q = "nowhere" THEN "lost"
                      ELSE q
    BY <2>1, <2>4, StageIsNext DEF Travels
  <2>7. CASE q = "moving"
    <3>1. p = "queued" /\ to[m] \in sessions
      BY <2>1, <2>7 DEF Travels, Routes
    <3>2. StageOf(m) = "queued" /\ StageOf(m)' = "moving"
      BY <2>5, <2>6, <2>7, <3>1
    <3>3. ASSUME NEW o \in Rid, StageOf(o) = "queued", to[o] = to[m] PROVE o >= m
      <4>1. Posted(o)
        BY <2>1, <3>3 DEF RpcInv, PostInv, DeskInv, Known, Posted
      <4>2. PICK s \in Spot : Where(o, s)
        BY <4>1 DEF RpcInv, MailInv, Alone
      <4>3. s = "queued"
        BY <2>4, <3>3, <4>2, StageIs DEF Spot
      <4>4. Queued(o)
        BY <4>2, <4>3 DEF Where
      <4>5. m <= o
        BY <2>1, <3>1, <3>3, <4>4 DEF Travels
      <4> QED
        BY <4>5 DEF Rid
    <3>4. Abstract!TakeOut(m)
      BY <1>1, <2>3, <3>2, <3>3 DEF Abstract!TakeOut, Abstract!Rid, Rid
    <3> QED
      BY <3>4 DEF Abstract!RpcNext, Abstract!Rid, Rid
  <2>8. CASE \/ StageOf(m)' = StageOf(m)
             \/ StageOf(m)' = "lost" /\ StageOf(m) \notin {"unsent", "done"}
    BY <1>1, <2>2, <2>8, LosesAs
  <2>9. ASSUME \/ StageOf(m) = "moving" /\ StageOf(m)' = "held"
               \/ StageOf(m) = "held" /\ StageOf(m)' = "answered"
               \/ StageOf(m) = "answered" /\ StageOf(m)' = "returning"
               \/ StageOf(m) = "returning" /\ StageOf(m)' = "done"
        PROVE  Abstract!RpcNext
    <3>1. Abstract!Advance(m)
      BY <1>1, <2>3, <2>9 DEF Abstract!Advance
    <3> QED
      BY <3>1 DEF Abstract!RpcNext, Abstract!Rid, Rid
  <2>10. <<p, q>> \in Routes /\ (q = "returning" => from[m] \in sessions)
    BY <2>1 DEF Travels
  <2>11. CASE q \in {"held", "waiting"}
    BY <2>5, <2>6, <2>8, <2>9, <2>10, <2>11 DEF Routes
  <2>12. CASE q = "nowhere"
    BY <2>5, <2>6, <2>8, <2>10, <2>12 DEF Routes
  <2>13. CASE q = "boxed"
    BY <2>5, <2>6, <2>8, <2>9, <2>10, <2>13 DEF Routes
  <2>14. CASE q \in {"returning", "done"}
    BY <2>5, <2>6, <2>9, <2>10, <2>14 DEF Routes
  <2> QED
    BY <2>7, <2>10, <2>11, <2>12, <2>13, <2>14 DEF Routes
<1> QED
  BY <1>3, <1>4

LEMMA PostingStep ==
    ASSUME RpcInv, Posting
    PROVE  Abstract!RpcNext
<1>1. PICK c \in Conns, m \in Rid, target \in Uuids : PutInbox(c, m, target)
  BY DEF Posting
<1>2. /\ ~Posted(m) /\ Posted(m)' /\ Rest(m) /\ Where(m, "queued")'
      /\ \A o \in Rid : o # m => from'[o] = from[o] /\ to'[o] = to[o]
      /\ \A o \in Rid : o < m => Posted(o)
      /\ to'[m] = target /\ target \in sessions /\ sessions' = sessions
  BY <1>1, PostMoves DEF RpcInv, PostInv, Posting
<1>3. ASSUME NEW o \in Rid, o # m
      PROVE  StageOf(o)' = StageOf(o)
  <2>1. CASE Posted(o)
    BY <1>2, <1>3, <2>1, SameStage DEF RpcInv, MailInv, Rest
  <2>2. CASE ~Posted(o)
    <3>1. to[o] = Nobody /\ to'[o] = Nobody
      BY <1>2, <1>3, <2>2 DEF RpcInv, PostInv, DeskInv, Known
    <3> QED
      BY <3>1, UnsentStage, UnsentStageNext
  <2> QED
    BY <2>1, <2>2
<1>4. StageOf(m) = "unsent"
  BY <1>2, UnsentStage DEF RpcInv, PostInv, DeskInv, Known
<1>5. StageOf(m)' = "queued"
  BY <1>2, StageIsNext, NobodyAssumption DEF Spot
<1>6. Abstract!Move(m, "unsent", "queued")
  BY <1>3, <1>4, <1>5, MovesAs
<1>7. ASSUME NEW o \in Rid, o < m PROVE StageOf(o) # "unsent"
  <2>1. Posted(o)
    BY <1>2, <1>7
  <2>2. PICK s \in Spot : Where(o, s)
    BY <2>1 DEF RpcInv, MailInv, Alone
  <2>3. to[o] # Nobody
    BY <2>1, NobodyAssumption DEF Posted
  <2> QED
    BY <2>2, <2>3, StageIs DEF Spot
<1>8. who[c] \in Uuids /\ from' = [from EXCEPT ![m] = who[c]] /\ to' = [to EXCEPT ![m] = target]
  BY <1>1 DEF PutInbox, Packet, RpcInv, PostInv, BookInv, BookTypeOK
<1>9. Abstract!Post(m)
  BY <1>6, <1>7, <1>8 DEF Abstract!Post, Abstract!Rid, Rid
<1> QED
  BY <1>9 DEF Abstract!RpcNext, Abstract!Rid, Rid

(* The handlers together implement Rpc: a request is delivered at most     *)
(* once and in order, answered and returned at most once, and may be lost  *)
(* but not repeated, for any number of sessions, connections and requests  *)
(* (server.py:731-846).                                                    *)
THEOREM ImplementsRpc == Spec => AtMostOnce
<1>1. Init => Abstract!RpcInit
  <2> SUFFICES ASSUME Init PROVE Abstract!RpcInit
    OBVIOUS
  <2>1. \A r \in Rid : StageOf(r) = "unsent"
    BY UnsentStage DEF Init
  <2>2. [r \in Rid |-> StageOf(r)] = [r \in Rid |-> "unsent"]
    BY <2>1
  <2> QED
    BY <2>2 DEF Init, Abstract!RpcInit, Abstract!Rid, Rid
<1>2. RpcInv /\ [Next]_vars => [Abstract!RpcNext]_Abstract!rpcVars
  <2> SUFFICES ASSUME RpcInv, [Next]_vars PROVE Abstract!RpcNext
    OBVIOUS
  <2>1. [BookNext]_bookVars
    BY HandlersFollowBook DEF RpcInv, PostInv
  <2> QED
    BY <2>1, StepKinds, RestingStep, MovingStep, PostingStep
<1> QED
  BY <1>1, <1>2, RpcInvAlways, PTL DEF Spec, AtMostOnce, Abstract!RpcSpec

-----------------------------------------------------------------------------
(* A request that is lost has lost one of its two sessions, or a handler   *)
(* of one sent where nobody could read.  A session of which neither has    *)
(* happened has one connection, that holds its key and moves its nonces.   *)

SeatedByDrawn ==
    \A c \in Conns : IF pc[c] = "free" THEN who[c] = Nobody ELSE who[c] \in drawn

InStep(c) ==
    Disturbed(who[c]) \/ (/\ cipher[who[c]] = c
                          /\ pc[c] # "accepting" => skew[who[c]] = {})

ChannelInv ==
    /\ SeatedByDrawn
    /\ \A u \in Uuids \ drawn : skew[u] = {}
    /\ \A c \in Conns : pc[c] # "free" => InStep(c)

LossInv ==
    \A r \in Rid : Posted(r) /\ Where(r, "nowhere") => Disturbed(from[r]) \/ Disturbed(to[r])

CauseInv == RpcInv /\ ChannelInv /\ LossInv

LEMMA SeveredIsDisturbed ==
    ASSUME ChannelInv, NEW u \in Uuids, Severed(u)
    PROVE  Disturbed(u)
<1>1. CASE u \notin sessions
  BY <1>1 DEF Disturbed
<1>2. ASSUME NEW c \in Conns, who[c] = u, pc[c] \notin {"free", "accepting"},
             ~peer[c] \/ ~Readable(c)
      PROVE  Disturbed(u)
  <2>1. CASE ~peer[c]
    BY <1>2, <2>1 DEF Disturbed
  <2>2. CASE ~Readable(c)
    <3>1. InStep(c)
      BY <1>2 DEF ChannelInv
    <3> QED
      BY <1>2, <2>2, <3>1 DEF InStep, Readable
  <2> QED
    BY <1>2, <2>1, <2>2
<1> QED
  BY <1>1, <1>2 DEF Severed

(* What a step of the handler c may do to the sessions' channels, short of *)
(* a login.                                                                *)
Goes(c) ==
    /\ pc[c] # "free" /\ who' = who /\ cipher' = cipher
    /\ peer' = peer \/ peer' = [peer EXCEPT ![c] = FALSE]
    /\ \E p \in Places \ {"free", "accepting"} : pc' = [pc EXCEPT ![c] = p]
    /\ \E moved \in SUBSET {"tx", "rx"} :
          /\ skew' = [skew EXCEPT ![who[c]] = moved]
          /\ cipher[who[c]] = c /\ peer[c] =>
                 moved = IF pc[c] = "accepting" THEN {} ELSE skew[who[c]]

LEMMA ServeGoes ==
    ASSUME RpcInv, NEW c \in Conns, Serve(c)
    PROVE  Goes(c)
<1> DEFINE Skews == /\ skew' = [skew EXCEPT ![who[c]] = skew'[who[c]]]
                    /\ skew'[who[c]] \in SUBSET {"tx", "rx"}
                    /\ cipher[who[c]] = c => skew'[who[c]] = skew[who[c]]
           Moves == \E p \in Places \ {"free", "accepting"} : pc' = [pc EXCEPT ![c] = p]
<1>0. /\ pc[c] = "idle" /\ who[c] \in Uuids /\ peer \in [Conns -> BOOLEAN]
      /\ skew \in [Uuids -> SUBSET {"tx", "rx"}]
  BY DEF RpcInv, PostInv, DeskInv, PostTypeOK, Seated, Serve, Query, Malformed, GetInbox,
         GetInboxWait, BadPacket, Register, Unregister, Bye, BadFrame, Orphan, PutInboxGone,
         PutInbox, PutOutbox, PutOutboxWait, PutOutboxGone, GetOutbox, GetOutboxWait, Answers,
         Packet
<1>1. CASE BadPacket(c)
  <2>1. Skews
    BY <1>0, <1>1 DEF BadPacket, Count
  <2>2. Moves
    BY <1>1 DEF BadPacket, Reply, Goto, Places
  <2> QED
    BY <1>0, <1>1, <2>1, <2>2 DEF BadPacket, Goes
<1>2. CASE ~BadPacket(c)
  <2>1. UNCHANGED <<who, skew, cipher>>
    BY <1>2 DEF Serve, Query, Malformed, GetInbox, TakeHead, GetInboxWait, Register, Unregister,
                Bye, BadFrame, Orphan, PutInboxGone, PutInbox, PutOutbox, PutOutboxWait,
                PutOutboxGone, GetOutbox, GetOutboxWait, chanVars
  <2>2. Skews
    BY <1>0, <2>1
  <2>3. peer' = peer \/ peer' = [peer EXCEPT ![c] = FALSE]
    BY <1>2 DEF Serve, Query, Malformed, GetInbox, TakeHead, GetInboxWait, Register, Unregister,
                Bye, Cleanup, BadFrame, Orphan, PutInboxGone, PutInbox, PutOutbox, PutOutboxWait,
                PutOutboxGone, GetOutbox, GetOutboxWait
  <2>4. Moves
    BY <1>2 DEF Serve, Query, Malformed, GetInbox, GetInboxWait, Register, Unregister,
                Bye, BadFrame, Orphan, PutInboxGone, PutInbox, PutOutbox, PutOutboxWait,
                PutOutboxGone, GetOutbox, GetOutboxWait, Fetch, Reply, Crash, Goto, Places
  <2> QED
    BY <1>0, <2>1, <2>2, <2>3, <2>4 DEF Goes
<1> QED
  BY <1>1, <1>2

LEMMA ProceedGoes ==
    ASSUME RpcInv, NEW c \in Conns, Proceed(c)
    PROVE  Goes(c)
<1> DEFINE Moves == \E p \in Places \ {"free", "accepting"} : pc' = [pc EXCEPT ![c] = p]
<1>0. /\ pc[c] # "free" /\ who[c] \in Uuids /\ peer \in [Conns -> BOOLEAN]
      /\ skew \in [Uuids -> SUBSET {"tx", "rx"}]
  BY DEF RpcInv, PostInv, DeskInv, PostTypeOK, Seated, Proceed, StartHandler, EndOfStream,
         Refused, SendDone, SendOrphan, SendFail, Take, PutOutboxLocked, GetOutboxLocked
<1>1. who' = who /\ cipher' = cipher
  BY DEF Proceed, StartHandler, EndOfStream, Refused, SendDone, SendOrphan, SendFail, Take,
         TakeHead, PutOutboxLocked, GetOutboxLocked, chanVars
<1>2. peer' = peer \/ peer' = [peer EXCEPT ![c] = FALSE]
  BY DEF Proceed, StartHandler, EndOfStream, Refused, SendDone, SendOrphan, SendFail, Take,
         TakeHead, PutOutboxLocked, GetOutboxLocked
<1>3. Moves
  BY DEF Proceed, StartHandler, EndOfStream, Refused, SendDone, SendOrphan, SendFail, Take,
         PutOutboxLocked, GetOutboxLocked, Fetch, Reply, Crash, Goto, Places
<1>4. CASE StartHandler(c)
  <2>1. PICK moved \in SUBSET {"tx", "rx"} :
           /\ skew' = [skew EXCEPT ![who[c]] = moved]
           /\ cipher[who[c]] = c => moved = {}
    BY <1>4 DEF StartHandler
  <2> QED
    BY <1>0, <1>1, <1>2, <1>3, <1>4, <2>1 DEF StartHandler, Goes
<1>5. CASE Refused(c) \/ SendDone(c)
  <2>1. /\ skew' = [skew EXCEPT ![who[c]] = skew'[who[c]]]
        /\ skew'[who[c]] \in SUBSET {"tx", "rx"}
        /\ cipher[who[c]] = c => skew'[who[c]] = skew[who[c]]
        /\ pc[c] # "accepting"
    BY <1>0, <1>5 DEF Refused, SendDone, Count
  <2> QED
    BY <1>0, <1>1, <1>2, <1>3, <2>1 DEF Goes
<1>6. CASE ~(StartHandler(c) \/ Refused(c) \/ SendDone(c))
  <2>1. skew' = skew /\ (pc[c] = "accepting" => ~peer[c])
    BY <1>6 DEF Proceed, EndOfStream, SendOrphan, SendFail, Take, TakeHead, PutOutboxLocked,
                GetOutboxLocked, chanVars
  <2>2. skew' = [skew EXCEPT ![who[c]] = skew[who[c]]] /\ skew[who[c]] \in SUBSET {"tx", "rx"}
    BY <1>0, <2>1
  <2> QED
    BY <1>0, <1>1, <1>2, <1>3, <2>1, <2>2 DEF Goes
<1> QED
  BY <1>4, <1>5, <1>6

LEMMA GoneStayGone ==
    ASSUME BookInv, [BookNext]_bookVars, NEW u \in drawn, u \notin sessions
    PROVE  u \notin sessions'
  BY DEF BookInv, BookNext, NewSession, TearDown, RegisterKey, UnregisterKey, bookVars

(* A session never recovers: connections do not come back, and uuids are   *)
(* not drawn twice.                                                        *)
LEMMA DisturbedForGood ==
    ASSUME BookInv, [BookNext]_bookVars, NEW u \in drawn, Disturbed(u),
           \A d \in Conns : who[d] = u => who'[d] = u /\ (peer'[d] => peer[d])
    PROVE  Disturbed(u)'
<1>1. CASE u \notin sessions
  BY <1>1, GoneStayGone DEF Disturbed
<1>2. CASE \E c \in Conns : who[c] = u /\ ~peer[c]
  BY <1>2 DEF Disturbed
<1>3. CASE \E c, d \in Conns : c # d /\ who[c] = u /\ who[d] = u
  BY <1>3 DEF Disturbed
<1> QED
  BY <1>1, <1>2, <1>3 DEF Disturbed

LEMMA CauseInvStep == CauseInv /\ [Next]_vars => CauseInv'
<1> SUFFICES ASSUME CauseInv, [Next]_vars PROVE CauseInv'
  OBVIOUS
<1>1. /\ RpcInv' /\ [BookNext]_bookVars /\ drawn \subseteq drawn'
      /\ BookInv /\ sessions \subseteq drawn /\ drawn \subseteq Uuids
  BY RpcInvStep, HandlersFollowBook, DrawnGrows DEF CauseInv, RpcInv, PostInv, BookInv, BookTypeOK
<1>2. /\ pc \in [Conns -> Places] /\ peer \in [Conns -> BOOLEAN]
      /\ who \in [Conns -> Uuids \cup {Nobody}] /\ cipher \in [Uuids -> Conns \cup {NoConn}]
      /\ skew \in [Uuids -> SUBSET {"tx", "rx"}]
  BY DEF CauseInv, RpcInv, PostInv, DeskInv, PostTypeOK
<1> DEFINE Kept == \A d \in Conns : pc[d] # "free" =>
                       /\ who'[d] = who[d] /\ pc'[d] # "free"
                       /\ peer'[d] => peer[d]
<1>3. ASSUME Kept, NEW u \in drawn, Disturbed(u) PROVE Disturbed(u)'
  <2>1. \A d \in Conns : who[d] = u => who'[d] = u /\ (peer'[d] => peer[d])
    BY <1>1, <1>3, NobodyAssumption DEF CauseInv, ChannelInv, SeatedByDrawn
  <2> QED
    BY <1>1, <1>3, <2>1, DisturbedForGood
<1>4. ASSUME Kept PROVE LossInv'
  <2> SUFFICES ASSUME NEW r \in Rid, Posted(r)', Where(r, "nowhere")'
               PROVE  Disturbed(from[r])' \/ Disturbed(to[r])'
    BY DEF LossInv
  <2>1. ASSUME Posted(r), from'[r] = from[r], to'[r] = to[r],
               Disturbed(from[r]) \/ Disturbed(to[r])
        PROVE  Disturbed(from[r])' \/ Disturbed(to[r])'
    <3>1. from[r] \in drawn /\ to[r] \in drawn
      BY <2>1 DEF CauseInv, RpcInv, MailInv, PostedByDrawn
    <3>2. CASE Disturbed(from[r])
      <4>1. PICK u : u = from[r]
        OBVIOUS
      <4>2. Disturbed(u)'
        BY <1>3, <1>4, <3>1, <3>2, <4>1
      <4> QED
        BY <2>1, <4>1, <4>2 DEF Disturbed
    <3>3. CASE Disturbed(to[r])
      <4>1. PICK u : u = to[r]
        OBVIOUS
      <4>2. Disturbed(u)'
        BY <1>3, <1>4, <3>1, <3>3, <4>1
      <4> QED
        BY <2>1, <4>1, <4>2 DEF Disturbed
    <3> QED
      BY <2>1, <3>2, <3>3
  <2>2. ASSUME Posted(r), Same(r) PROVE Disturbed(from[r])' \/ Disturbed(to[r])'
    <3>1. PICK p \in Spot : Where(r, p)
      BY <2>2 DEF CauseInv, RpcInv, MailInv, Alone
    <3>2. Where(r, p)'
      BY <2>2, <3>1, SameStays DEF CauseInv, RpcInv, MailInv
    <3>3. p = "nowhere"
      BY <3>1, <3>2 DEF Where, Spot
    <3> QED
      BY <2>1, <2>2, <3>1, <3>3 DEF CauseInv, LossInv, Same
  <2>3. CASE Resting
    <3>1. Posted(r)
      BY <2>3 DEF Resting, Posted
    <3> QED
      BY <2>2, <2>3, <3>1 DEF Resting, Still
  <2>4. CASE Moving
    <3>1. Posted(r) /\ from'[r] = from[r] /\ to'[r] = to[r]
      BY <2>4 DEF Moving, Posted
    <3>2. CASE Same(r)
      BY <2>2, <3>1, <3>2
    <3>3. CASE ~Same(r)
      <4>1. PICK p \in Spot, q \in Spot : Travels(r, p, q)
        BY <2>4, <3>1, <3>3 DEF Moving, OneMoves, Still, Rest
      <4>2. q = "nowhere"
        BY <4>1 DEF Travels, Where, Spot
      <4>3. Disturbed(from[r]) \/ Disturbed(to[r])
        BY <3>1, <4>1, <4>2, SeveredIsDisturbed DEF Travels, Posted, CauseInv
      <4> QED
        BY <2>1, <3>1, <4>3
    <3> QED
      BY <3>2, <3>3
  <2>5. CASE Posting
    <3>1. PICK c \in Conns, m \in Rid, target \in Uuids : PutInbox(c, m, target)
      BY <2>5 DEF Posting
    <3>2. /\ Rest(m) /\ Where(m, "queued")'
          /\ \A o \in Rid : o # m => from'[o] = from[o] /\ to'[o] = to[o]
      BY <3>1, PostMoves DEF CauseInv, RpcInv, PostInv
    <3>3. r # m
      BY <3>2 DEF Where
    <3> QED
      BY <2>2, <3>2, <3>3 DEF Rest, Posted
  <2> QED
    BY <2>3, <2>4, <2>5, StepKinds DEF CauseInv
<1>5. ASSUME NEW c \in Conns, Goes(c) PROVE Kept /\ ChannelInv'
  <2>1. Kept
    BY <1>2, <1>5 DEF Goes
  <2>2. pc[c] # "free" /\ who[c] \in drawn /\ who' = who /\ cipher' = cipher
    BY <1>5 DEF Goes, CauseInv, ChannelInv, SeatedByDrawn
  <2>3. /\ \A d \in Conns \ {c} : pc'[d] = pc[d]
        /\ pc'[c] \notin {"free", "accepting"}
    BY <1>2, <1>5 DEF Goes
  <2>4. PICK moved \in SUBSET {"tx", "rx"} :
           /\ skew' = [skew EXCEPT ![who[c]] = moved]
           /\ cipher[who[c]] = c /\ peer[c] =>
                  moved = IF pc[c] = "accepting" THEN {} ELSE skew[who[c]]
    BY <1>5 DEF Goes
  <2>5. SeatedByDrawn'
    BY <1>1, <2>2, <2>3 DEF CauseInv, ChannelInv, SeatedByDrawn
  <2>6. \A u \in Uuids \ drawn' : skew'[u] = {}
    <3>1. \A u \in Uuids : u # who[c] => skew'[u] = skew[u]
      BY <1>2, <2>4
    <3> QED
      BY <1>1, <2>2, <3>1 DEF CauseInv, ChannelInv
  <2>7. ASSUME NEW d \in Conns, pc'[d] # "free" PROVE InStep(d)'
    <3>1. pc[d] # "free" /\ InStep(d) /\ who'[d] = who[d] /\ who[d] \in drawn
      BY <2>2, <2>3, <2>7 DEF CauseInv, ChannelInv, SeatedByDrawn
    <3>2. CASE Disturbed(who[d])
      <4>1. PICK u : u = who[d]
        OBVIOUS
      <4>2. Disturbed(u)'
        BY <1>3, <2>1, <3>1, <3>2, <4>1
      <4> QED
        BY <3>1, <4>1, <4>2 DEF InStep, Disturbed
    <3>3. CASE ~Disturbed(who[d])
      <4>1. cipher[who[d]] = d /\ peer[d] /\ (pc[d] # "accepting" => skew[who[d]] = {})
        BY <3>1, <3>3 DEF InStep, Disturbed
      <4>2. CASE d = c
        <5>1. skew'[who[c]] = moved /\ moved = {}
          BY <1>1, <1>2, <2>2, <2>4, <4>1, <4>2
        <5> QED
          BY <2>2, <4>1, <4>2, <5>1 DEF InStep
      <4>3. CASE d # c
        <5>1. who[d] # who[c]
          BY <3>3, <4>3 DEF Disturbed
        <5>2. skew'[who[d]] = skew[who[d]] /\ pc'[d] = pc[d]
          BY <1>1, <1>2, <2>3, <2>4, <3>1, <4>3, <5>1
        <5> QED
          BY <2>2, <4>1, <5>2 DEF InStep
      <4> QED
        BY <4>2, <4>3
    <3> QED
      BY <3>2, <3>3
  <2> QED
    BY <2>1, <2>5, <2>6, <2>7 DEF ChannelInv
<1>6. ASSUME NEW c \in Conns, Connect(c) PROVE Kept /\ ChannelInv'
  <2>1. PICK u \in Uuids : AcceptLogin(c, u) \/ AcceptStale(c, u) \/ AcceptRelogin(c, u)
    BY <1>6 DEF Connect
  <2>2. /\ Seat(c, u) /\ u \in drawn' /\ pc[c] = "free"
        /\ cipher' = [cipher EXCEPT ![u] = c]
    BY <1>1, <2>1 DEF AcceptLogin, AcceptStale, AcceptRelogin, NewSession, Seat, bookVars
  <2>3. PICK p \in {"accepting", "idle"} : pc' = [pc EXCEPT ![c] = p]
    BY <2>1 DEF AcceptLogin, AcceptStale, AcceptRelogin, Goto
  <2>4. /\ pc'[c] = p /\ who'[c] = u
        /\ \A d \in Conns \ {c} : pc'[d] = pc[d] /\ peer'[d] = peer[d] /\ who'[d] = who[d]
        /\ cipher'[u] = c /\ \A v \in Uuids : v # u => cipher'[v] = cipher[v]
    BY <1>2, <2>2, <2>3 DEF Seat
  <2>5. Kept
    BY <2>2, <2>4
  <2>6. SeatedByDrawn'
    BY <1>1, <2>2, <2>4 DEF CauseInv, ChannelInv, SeatedByDrawn
  <2>7. /\ \A v \in Uuids : v # u => skew'[v] = skew[v]
        /\ p = "idle" => skew'[u] = {}
    <3>1. CASE AcceptRelogin(c, u)
      BY <1>2, <2>3, <3>1 DEF AcceptRelogin, Goto
    <3>2. CASE AcceptLogin(c, u) \/ AcceptStale(c, u)
      <4>1. u \notin drawn /\ skew' = skew
        BY <3>2 DEF AcceptLogin, AcceptStale, NewSession
      <4> QED
        BY <4>1 DEF CauseInv, ChannelInv
    <3> QED
      BY <2>1, <3>1, <3>2
  <2>8. \A v \in Uuids \ drawn' : skew'[v] = {}
    BY <1>1, <2>2, <2>7 DEF CauseInv, ChannelInv
  <2>9. ASSUME NEW d \in Conns, pc'[d] # "free" PROVE InStep(d)'
    <3>1. CASE d = c
      BY <2>4, <2>7, <3>1 DEF InStep
    <3>2. CASE d # c /\ who[d] = u
      BY <2>4, <3>2 DEF InStep, Disturbed
    <3>3. CASE d # c /\ who[d] # u
      <4>1. pc[d] # "free" /\ InStep(d) /\ who'[d] = who[d] /\ who[d] \in drawn /\ pc'[d] = pc[d]
        BY <2>4, <2>9, <3>3 DEF CauseInv, ChannelInv, SeatedByDrawn
      <4>2. CASE Disturbed(who[d])
        <5>1. PICK v : v = who[d]
          OBVIOUS
        <5>2. Disturbed(v)'
          BY <1>3, <2>5, <4>1, <4>2, <5>1
        <5> QED
          BY <4>1, <5>1, <5>2 DEF InStep, Disturbed
      <4>3. CASE ~Disturbed(who[d])
        BY <1>1, <2>4, <2>7, <3>3, <4>1, <4>3 DEF InStep
      <4> QED
        BY <4>2, <4>3
    <3> QED
      BY <3>1, <3>2, <3>3
  <2> QED
    BY <2>5, <2>6, <2>8, <2>9 DEF ChannelInv
<1>7. ASSUME UNCHANGED <<pc, who, cipher, skew, bookVars>>, \A d \in Conns : peer'[d] => peer[d]
      PROVE  Kept /\ ChannelInv'
  <2>1. Kept
    BY <1>7
  <2>2. \A d \in Conns : Disturbed(who[d]) => Disturbed(who[d])'
    BY <1>7 DEF Disturbed, bookVars
  <2> QED
    BY <1>7, <2>1, <2>2 DEF CauseInv, ChannelInv, SeatedByDrawn, InStep, bookVars
<1>8. ASSUME NEW c \in Conns, Disconnect(c) PROVE Kept /\ ChannelInv'
  <2>1. UNCHANGED <<pc, who, cipher, skew, bookVars>> /\ \A d \in Conns : peer'[d] => peer[d]
    BY <1>2, <1>8 DEF Disconnect, chanVars
  <2> QED
    BY <1>7, <2>1
<1>9. Kept /\ ChannelInv'
  <2>1. CASE UNCHANGED vars
    <3>1. UNCHANGED <<pc, who, cipher, skew, bookVars>> /\ \A d \in Conns : peer'[d] => peer[d]
      BY <2>1 DEF vars, deskVars, chanVars
    <3> QED
      BY <1>7, <3>1
  <2>2. CASE Next
    <3>1. PICK c \in Conns : Connect(c) \/ Disconnect(c) \/ Serve(c) \/ Proceed(c)
      BY <2>2 DEF Next
    <3>2. CASE Serve(c) \/ Proceed(c)
      BY <1>5, <3>2, ServeGoes, ProceedGoes DEF CauseInv
    <3> HIDE DEF Kept
    <3> QED
      BY <1>6, <1>8, <3>1, <3>2
  <2> QED
    BY <2>1, <2>2
<1> QED
  BY <1>1, <1>4, <1>9 DEF CauseInv

(* A request is lost only if one of its own two sessions has ended, has    *)
(* lost a connection or was taken over (server.py:763-844).                *)
THEOREM LossesHaveCauses == Spec => []LossHasCause
<1>1. Init => CauseInv
  <2> SUFFICES ASSUME Init PROVE CauseInv
    OBVIOUS
  <2>1. ChannelInv
    BY DEF Init, ChannelInv, SeatedByDrawn
  <2>2. \A r \in Rid : ~Posted(r)
    BY NobodyAssumption DEF Init, Posted
  <2> QED
    BY <2>1, <2>2, RpcInvInit DEF CauseInv, LossInv
<1>2. CauseInv => LossHasCause
  <2> SUFFICES ASSUME CauseInv, NEW r \in Issued, StageOf(r) = "lost"
               PROVE  Disturbed(from[r]) \/ Disturbed(to[r])
    BY DEF LossHasCause
  <2>1. r \in Rid /\ Posted(r) /\ to[r] # Nobody
    BY DEF Issued, CauseInv, RpcInv, PostInv, DeskInv, Known
  <2>2. PICK p \in Spot : Where(r, p)
    BY <2>1 DEF CauseInv, RpcInv, MailInv, Alone
  <2>3. \/ p = "queued" /\ to[r] \notin sessions
        \/ p = "boxed" /\ from[r] \notin sessions
        \/ p = "nowhere"
    BY <2>1, <2>2, StageIs DEF Spot
  <2> QED
    BY <2>1, <2>2, <2>3 DEF Disturbed, CauseInv, LossInv
<1> QED
  BY <1>1, <1>2, CauseInvStep, PTL DEF Spec

=============================================================================
