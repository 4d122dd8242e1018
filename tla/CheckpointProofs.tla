-------------------------- MODULE CheckpointProofs --------------------------
(***************************************************************************)
(* For any number of connections, uuids, addresses and requests: what      *)
(* serialize, and a restore from what it wrote, leave true.                *)
(***************************************************************************)
EXTENDS Checkpoint, PostOfficeProofs

-----------------------------------------------------------------------------
(* The address book.  A checkpoint that was written without waiting holds  *)
(* the two tables as they were at one moment; the uuids in it have been    *)
(* drawn, so a restored book names nobody who is yet to log in.            *)

SnapBook ==
    /\ snap.sessions \subseteq drawn /\ snap.sessions \subseteq Uuids
    /\ snap.book \in [Keys -> Uuids \cup {Nobody}]
    /\ snap.owned \in [Uuids -> [Keys -> Nat]]
    /\ \A k \in Keys : snap.book[k] # Nobody => snap.book[k] \in drawn
    /\ \A u \in snap.sessions, k \in Keys : snap.owned[u][k] = IF snap.book[k] = u THEN 1 ELSE 0

CkptBook ==
    /\ (restored /\ waited) \/ BookInv
    /\ ~waited => saver \in {"off", "saved"}
    /\ saver = "saved" /\ ~waited => SnapBook

(* What a handler does in a server that writes a checkpoint, too, is a     *)
(* step of the address book.                                               *)
LEMMA HandleFollowsBook ==
    ASSUME BookTypeOK, NEW c \in Conns, Handle(c)
    PROVE  [BookNext]_bookVars
<1>1. CASE AstrayResumes(c) \/ NoCipher(c)
  BY <1>1 DEF AstrayResumes, NoCipher
<1>2. CASE Connect(c) \/ Disconnect(c) \/ Proceed(c) \/ ServeSealed(c) \/ BadFrame(c)
  <2>1. Next
    BY <1>2 DEF Next, ServeSealed, Serve
  <2> QED
    BY <2>1, HandlersFollowTypedBook
<1> QED
  BY <1>1, <1>2 DEF Handle

LEMMA SweepBook ==
    ASSUME BookInv, NEW q, Sweep(Blank, q), UNCHANGED bookVars, ~waited'
    PROVE  saver' = "saved" /\ SnapBook'
<1>1. /\ saver' = "saved" /\ snap' = Written(Blank, sessions \ Blank.sessions)
  BY DEF Sweep
<1>2. /\ Blank.sessions = {} /\ Blank.owned = owned /\ Blank.book = book
  BY DEF Blank
<1>3. snap' = Written(Blank, sessions)
  BY <1>1, <1>2
<1>4. /\ snap'.sessions = sessions /\ snap'.book = book
      /\ snap'.owned = [u \in Uuids |-> IF u \in sessions THEN owned[u] ELSE owned[u]]
  BY <1>2, <1>3 DEF Written, Blank
<1>5. owned \in [Uuids -> [Keys -> Nat]]
  BY DEF BookInv, BookTypeOK
<1>6. snap'.owned = owned
  BY <1>4, <1>5
<1> QED
  <2>1. drawn' = drawn
    BY DEF bookVars
  <2>2. SnapBook'
    BY <1>4, <1>6, <2>1 DEF SnapBook, BookInv, BookTypeOK, Ownership
  <2> QED
    BY <1>1, <2>2

LEMMA RestoreBook ==
    ASSUME CkptBook, ApplyState, ~waited
    PROVE  BookInv'
<1>1. /\ SnapBook /\ drawn' = drawn /\ sessions' = snap.sessions /\ book' = snap.book
      /\ owned' = [u \in Uuids |-> IF u \in snap.sessions THEN snap.owned[u] ELSE NoAddress]
  BY DEF CkptBook, ApplyState, Tables
<1>2. BookInv
  BY DEF CkptBook
<1>3. NoAddress \in [Keys -> Nat]
  BY DEF NoAddress
<1>4. BookTypeOK'
  BY <1>1, <1>2, <1>3 DEF SnapBook, BookInv, BookTypeOK
<1>5. Ownership'
  BY <1>1 DEF SnapBook, Ownership
<1> QED
  BY <1>1, <1>4, <1>5 DEF BookInv, SnapBook

LEMMA CkptBookStep == CkptBook /\ [CkptNext]_ckptVars => CkptBook'
<1> SUFFICES ASSUME CkptBook, [CkptNext]_ckptVars PROVE CkptBook'
  OBVIOUS
<1>1. ASSUME NEW c \in Conns, Handle(c) PROVE CkptBook'
  <2>1. UNCHANGED saveVars
    BY <1>1 DEF Handle
  <2>2. CASE restored /\ waited
    BY <2>1, <2>2 DEF CkptBook, saveVars
  <2>3. CASE BookInv
    <3>1. [BookNext]_bookVars
      BY <1>1, <2>3, HandleFollowsBook DEF BookInv
    <3>2. BookInv' /\ drawn \subseteq drawn'
      BY <2>3, <3>1, BookInvStep, DrawnGrows
    <3>3. SnapBook => SnapBook'
      BY <2>1, <3>2 DEF SnapBook, saveVars
    <3> QED
      BY <2>1, <3>2, <3>3 DEF CkptBook, saveVars
  <2> QED
    BY <2>2, <2>3 DEF CkptBook
<1>2. ASSUME UNCHANGED bookVars, UNCHANGED restored, ~restored PROVE BookInv /\ BookInv'
  <2>1. BookInv
    BY <1>2 DEF CkptBook
  <2> QED
    BY <1>2, <2>1, BookInvStep
<1>3. CASE Serialize
  <2>1. UNCHANGED bookVars /\ UNCHANGED restored /\ ~restored /\ Sweep(Blank, lockq)
        /\ (waited' = waited \/ waited' = TRUE)
    BY <1>3 DEF Serialize, quietVars, Sweep
  <2>2. BookInv /\ BookInv'
    BY <1>2, <2>1
  <2>3. CASE waited'
    BY <2>2, <2>3 DEF CkptBook
  <2>4. CASE ~waited'
    BY <2>1, <2>2, <2>4, SweepBook DEF CkptBook
  <2> QED
    BY <2>3, <2>4
<1>4. CASE SaveLocked
  <2>1. saver = "waiting" /\ UNCHANGED bookVars /\ UNCHANGED restored
        /\ (waited' = waited \/ waited' = TRUE)
    BY <1>4 DEF SaveLocked, SizeChanged, Sweep, quietVars
  <2>2. waited /\ waited'
    BY <2>1 DEF CkptBook
  <2>3. BookInv => BookInv'
    BY <2>1, BookInvStep
  <2> QED
    BY <2>1, <2>2, <2>3 DEF CkptBook
<1>5. CASE Restart \/ RestoreLive
  <2>1. ApplyState
    BY <1>5 DEF Restart, RestoreLive
  <2>2. restored' = TRUE /\ UNCHANGED <<saver, snap, waited, drawn>>
    BY <2>1 DEF ApplyState
  <2>3. SnapBook => SnapBook'
    BY <2>2 DEF SnapBook
  <2> QED
    BY <2>1, <2>2, <2>3, RestoreBook DEF CkptBook
<1>6. CASE UNCHANGED ckptVars
  <2>1. UNCHANGED bookVars /\ UNCHANGED saveVars
    BY <1>6 DEF ckptVars, vars
  <2>2. BookInv => BookInv'
    BY <2>1, BookInvStep
  <2> QED
    BY <2>1, <2>2 DEF CkptBook, SnapBook, saveVars, bookVars
<1> QED
  BY <1>1, <1>3, <1>4, <1>5, <1>6 DEF CkptNext

(* After a restore, too, a session lists an address exactly when the book  *)
(* names it, unless serialize had to await a lock after it had copied the  *)
(* book (server.py:1042-1070).                                             *)
THEOREM RestoredOwnership == CkptSpec => []OwnershipRestored
<1>1. CkptInit => CkptBook
  BY BookInvInit DEF CkptInit, Init, CkptBook
<1>2. CkptBook => OwnershipRestored
  BY DEF CkptBook, BookInv, OwnershipRestored
<1> QED
  BY <1>1, <1>2, CkptBookStep, PTL DEF CkptSpec

-----------------------------------------------------------------------------
(* Lines.  Everyone in a line is in it once, and whoever sends with a lock *)
(* is at the head of its line, so that no error takes another out of it.   *)

Everyone == Conns \cup {Saver}

Orderly(q, W) ==
    /\ q \in Seq(Everyone)
    /\ \A i \in 1 .. Len(q) : q[i] \in W
    /\ \A x \in W : \E i \in 1 .. Len(q) : q[i] = x
    /\ \A i, j \in 1 .. Len(q) : q[i] = q[j] => i = j

Lines ==
    /\ \A u \in Uuids : Orderly(lockq[u], Waiters(u))
    /\ \A c \in Conns :
         pc[c] = "sendlock" => lockq[who[c]] # <<>> /\ Head(lockq[who[c]]) = c

(* What the lines need: the ids that handlers, inboxes, clients and the    *)
(* checkpoint hold are those of requests that have been posted.            *)
InPost(box) == \A u \in Uuids : \A i \in 1 .. Len(box[u]) : Posted(box[u][i])

Snapshots ==
    [sessions : SUBSET Uuids, book : [Keys -> Uuids \cup {Nobody}],
     owned : [Uuids -> [Keys -> Nat]], inbox : [Uuids -> Seq(Rid)],
     outbox : [Uuids -> SUBSET Rid]]

CkptTypes ==
    /\ BookTypeOK
    /\ pc \in [Conns -> Places \cup {"astray"}]
    /\ who \in [Conns -> Uuids \cup {Nobody}]
    /\ arg \in [Conns -> Items \cup {Nothing}]
    /\ inbox \in [Uuids -> Seq(Rid)]
    /\ outbox \in [Uuids -> SUBSET Rid]
    /\ from \in [Rid -> Uuids \cup {Nobody}]
    /\ to \in [Rid -> Uuids \cup {Nobody}]
    /\ got \in [Uuids -> SUBSET Items]
    /\ lockq \in [Uuids -> Seq(Everyone)]
    /\ snap \in Snapshots
    /\ saver = "waiting" => at \in Uuids

CkptDesk == CkptTypes /\ Seated /\ Known /\ InPost(inbox) /\ InPost(snap.inbox)

LEMMA BookTypeStep == BookTypeOK /\ [BookNext]_bookVars => BookTypeOK'
<1> SUFFICES ASSUME BookTypeOK, [BookNext]_bookVars PROVE BookTypeOK'
  OBVIOUS
<1>1. ASSUME NEW u \in Uuids, NewSession(u) PROVE BookTypeOK'
  BY <1>1 DEF NewSession, BookTypeOK, NoAddress
<1>2. ASSUME NEW u \in Uuids, TearDown(u) PROVE BookTypeOK'
  BY <1>2 DEF TearDown, BookTypeOK, NoAddress
<1>3. ASSUME NEW u \in Uuids, NEW k \in Keys, RegisterKey(u, k) PROVE BookTypeOK'
  BY <1>3 DEF RegisterKey, BookTypeOK
<1>4. ASSUME NEW u \in Uuids, NEW k \in Keys, UnregisterKey(u, k) PROVE BookTypeOK'
  BY <1>4 DEF UnregisterKey, BookTypeOK
<1>5. CASE UNCHANGED bookVars
  BY <1>5 DEF BookTypeOK, bookVars
<1> QED
  BY <1>1, <1>2, <1>3, <1>4, <1>5 DEF BookNext

-----------------------------------------------------------------------------
(* One line: joining it at the end, leaving it at the head.                *)

LEMMA OrderlyJoin ==
    ASSUME NEW q, NEW W, Orderly(q, W), NEW x \in Everyone, x \notin W
    PROVE  /\ Orderly(Append(q, x), W \cup {x})
           /\ Append(q, x) # <<>>
           /\ q # <<>> => Head(Append(q, x)) = Head(q)
           /\ q = <<>> => Head(Append(q, x)) = x
<1>1. q \in Seq(Everyone) /\ Len(q) \in Nat
  BY DEF Orderly
<1>2. PICK n, a : n = Len(q) /\ a = Append(q, x)
  OBVIOUS
<1>3. /\ n \in Nat /\ a \in Seq(Everyone) /\ Len(a) = n + 1
      /\ \A i \in 1 .. n : a[i] = q[i]
      /\ a[n + 1] = x
  BY <1>1, <1>2, AppendLine
<1>4. \A i \in 1 .. n + 1 : i = n + 1 \/ i \in 1 .. n
  BY <1>3
<1>5. \A i \in 1 .. n : q[i] \in W /\ q[i] # x
  BY <1>2 DEF Orderly
<1>6. \A i \in 1 .. n + 1 : a[i] \in W \cup {x}
  BY <1>3, <1>4, <1>5
<1>7. ASSUME NEW y \in W \cup {x} PROVE \E i \in 1 .. n + 1 : a[i] = y
  <2>1. CASE y = x
    BY <1>3, <2>1
  <2>2. CASE y # x
    <3>1. PICK i \in 1 .. n : q[i] = y
      BY <1>2, <2>2 DEF Orderly
    <3>2. i \in 1 .. n + 1 /\ a[i] = y
      BY <1>3, <3>1
    <3> QED
      BY <3>2
  <2> QED
    BY <2>1, <2>2
<1>8. ASSUME NEW i \in 1 .. n + 1, NEW j \in 1 .. n + 1, a[i] = a[j] PROVE i = j
  <2>1. CASE i \in 1 .. n /\ j \in 1 .. n
    <3>1. q[i] = q[j]
      BY <1>3, <1>8, <2>1
    <3> QED
      BY <1>2, <2>1, <3>1 DEF Orderly
  <2>2. CASE i = n + 1 /\ j \in 1 .. n
    BY <1>3, <1>5, <1>8, <2>2
  <2>3. CASE i \in 1 .. n /\ j = n + 1
    BY <1>3, <1>5, <1>8, <2>3
  <2> QED
    BY <1>4, <2>1, <2>2, <2>3
<1>9. Orderly(a, W \cup {x})
  BY <1>3, <1>6, <1>7, <1>8 DEF Orderly
<1>10. a # <<>> /\ Head(a) = a[1]
  BY <1>3
<1>11. q # <<>> => Head(q) = q[1] /\ 1 \in 1 .. n
  BY <1>1, <1>2
<1>12. q # <<>> => Head(a) = Head(q)
  BY <1>3, <1>10, <1>11
<1>13. q = <<>> => Head(a) = x
  <2>1. q = <<>> => n = 0
    BY <1>2
  <2> QED
    BY <1>3, <1>10, <2>1
<1> QED
  BY <1>2, <1>9, <1>10, <1>12, <1>13

LEMMA OrderlyLeave ==
    ASSUME NEW q, NEW W, Orderly(q, W), q # <<>>
    PROVE  /\ Orderly(Tail(q), W \ {Head(q)})
           /\ Head(q) \in W
<1>1. q \in Seq(Everyone)
  BY DEF Orderly
<1>2. PICK n, h, t : n = Len(q) /\ h = Head(q) /\ t = Tail(q)
  OBVIOUS
<1>3. /\ t \in Seq(Everyone) /\ n \in Nat \ {0} /\ Len(t) = n - 1
      /\ \A i \in 1 .. n - 1 : t[i] = q[i + 1]
      /\ h = q[1]
  BY <1>1, <1>2, TailLine
<1>4. /\ \A i \in 1 .. n : q[i] \in W
      /\ \A x \in W : \E i \in 1 .. n : q[i] = x
      /\ \A i, j \in 1 .. n : q[i] = q[j] => i = j
  BY <1>2 DEF Orderly
<1>5. h \in W
  BY <1>3, <1>4
<1>6. ASSUME NEW i \in 1 .. n - 1 PROVE t[i] \in W \ {h}
  <2>1. i + 1 \in 1 .. n /\ i + 1 # 1 /\ 1 \in 1 .. n
    BY <1>3
  <2>2. q[i + 1] # q[1]
    BY <1>4, <2>1
  <2> QED
    BY <1>3, <1>4, <2>1, <2>2
<1>7. ASSUME NEW x \in W \ {h} PROVE \E i \in 1 .. n - 1 : t[i] = x
  <2>1. PICK i \in 1 .. n : q[i] = x
    BY <1>4
  <2>2. i # 1
    BY <1>3, <2>1
  <2>3. i - 1 \in 1 .. n - 1 /\ (i - 1) + 1 = i
    BY <1>3, <2>2
  <2>4. t[i - 1] = x
    BY <1>3, <2>1, <2>3
  <2> QED
    BY <2>3, <2>4
<1>8. ASSUME NEW i \in 1 .. n - 1, NEW j \in 1 .. n - 1, t[i] = t[j] PROVE i = j
  <2>1. i + 1 \in 1 .. n /\ j + 1 \in 1 .. n
    BY <1>3
  <2>2. q[i + 1] = q[j + 1]
    BY <1>3, <1>8
  <2>3. i + 1 = j + 1
    BY <1>4, <2>1, <2>2
  <2> QED
    BY <2>3
<1>9. Orderly(t, W \ {h})
  BY <1>3, <1>6, <1>7, <1>8 DEF Orderly
<1> QED
  BY <1>2, <1>5, <1>9

LEMMA OrderlyCount ==
    ASSUME NEW q, NEW W, Orderly(q, W)
    PROVE  /\ {q[i] : i \in 1 .. Len(q)} = W
           /\ Len(q) = Cardinality(W)
<1>1. {q[i] : i \in 1 .. Len(q)} = W
  BY DEF Orderly
<1>2. PICK n \in Nat : n = Len(q)
  BY DEF Orderly
<1>3. /\ q \in [1 .. n -> W]
      /\ \A i, j \in 1 .. n : q[i] = q[j] => i = j
      /\ \A x \in W : \E i \in 1 .. n : q[i] = x
  BY <1>2 DEF Orderly
<1>4. ExistsBijection(1 .. n, W)
  BY <1>3 DEF ExistsBijection, Bijection, Injection, Surjection, IsInjective
<1>5. IsFiniteSet(1 .. n) /\ Cardinality(1 .. n) = n
  <2>1. IsFiniteSet(1 .. n) /\ Cardinality(1 .. n) = IF 1 > n THEN 0 ELSE n - 1 + 1
    BY FS_Interval
  <2> QED
    BY <2>1
<1>6. Cardinality(W) = n
  BY <1>4, <1>5, FS_Bijection
<1> QED
  BY <1>1, <1>2, <1>6

-----------------------------------------------------------------------------
(* What a step of the handler c is to the lines: it stays outside, joins   *)
(* one, begins to send at the head of one, or leaves that head.            *)

Aside(c) == pc[c] \notin LinePlaces /\ pc'[c] \notin LinePlaces /\ lockq' = lockq

Joins(c) ==
    \E v \in Uuids :
        /\ pc[c] \notin LinePlaces
        /\ lockq' = [lockq EXCEPT ![v] = Append(@, c)]
        /\ \/ pc'[c] \in {"getwait", "sendlock"} /\ who'[c] = v
           \/ pc'[c] = "putwait" /\ from'[arg'[c][1]] = v
        /\ pc'[c] = "sendlock" => lockq[v] = <<>>

Begins(c) ==
    /\ pc[c] = "getwait" /\ pc'[c] = "sendlock"
    /\ who'[c] = who[c] /\ who[c] \in Uuids
    /\ Head(lockq[who[c]]) = c
    /\ lockq' = lockq

Leaves(c) ==
    \E v \in Uuids :
        /\ c \in InLine(v) /\ (pc[c] = "sendlock" \/ Head(lockq[v]) = c)
        /\ pc'[c] \notin LinePlaces
        /\ lockq' = [lockq EXCEPT ![v] = Tail(@)]

Others(c) ==
    \A d \in Conns \ {c} :
        /\ pc'[d] = pc[d] /\ who'[d] = who[d] /\ arg'[d] = arg[d]
        /\ pc[d] = "putwait" => from'[arg[d][1]] = from[arg[d][1]]

SaverAt(u) == IF saver = "waiting" /\ at = u THEN {Saver} ELSE {}

LEMMA WaitersAre ==
    ASSUME NEW u \in Uuids
    PROVE  /\ Waiters(u) = InLine(u) \cup SaverAt(u)
           /\ InLine(u) \subseteq Conns /\ SaverAt(u) \subseteq {Saver}
           /\ Waiters(u) \subseteq Everyone
  BY DEF Waiters, SaverAt, InLine, Everyone

LEMMA WaitersNext ==
    ASSUME NEW u \in Uuids, NEW c \in Conns, Others(c), UNCHANGED <<saver, at>>
    PROVE  \A x : x # c => (x \in Waiters(u)' <=> x \in Waiters(u))
<1>1. \A d \in Conns \ {c} : d \in InLine(u)' <=> d \in InLine(u)
  BY DEF Others, InLine
<1>2. \A x : x \in InLine(u)' => x \in Conns
  BY DEF InLine
<1>3. \A x : x \in InLine(u) => x \in Conns
  BY DEF InLine
<1>4. SaverAt(u)' = SaverAt(u)
  BY DEF SaverAt
<1> QED
  BY <1>1, <1>2, <1>3, <1>4 DEF Waiters, SaverAt

LEMMA MemberInLine ==
    ASSUME NEW u \in Uuids, NEW c \in Conns
    PROVE  c \in Waiters(u) <=> c \in InLine(u)
  BY SaverAssumption DEF Waiters

LEMMA MemberInLineNext ==
    ASSUME NEW u \in Uuids, NEW c \in Conns
    PROVE  c \in Waiters(u)' <=> c \in InLine(u)'
  BY SaverAssumption DEF Waiters

LEMMA OutOfLine ==
    ASSUME NEW u \in Uuids, NEW c \in Conns
    PROVE  /\ pc[c] \notin LinePlaces => c \notin Waiters(u)
           /\ pc'[c] \notin LinePlaces => c \notin Waiters(u)'
<1>1. /\ pc[c] \notin LinePlaces => c \notin InLine(u)
      /\ pc'[c] \notin LinePlaces => c \notin InLine(u)'
  BY DEF InLine, LinePlaces
<1> QED
  BY <1>1, MemberInLine, MemberInLineNext

LEMMA LinesAside ==
    ASSUME CkptTypes, Lines, NEW c \in Conns, Others(c), UNCHANGED <<saver, at>>, Aside(c)
    PROVE  Lines'
<1>1. ASSUME NEW u \in Uuids PROVE Waiters(u)' = Waiters(u)
  <2>1. c \notin Waiters(u) /\ c \notin Waiters(u)'
    BY OutOfLine DEF Aside
  <2> QED
    BY <2>1, WaitersNext
<1>2. \A u \in Uuids : Orderly(lockq'[u], Waiters(u)')
  BY <1>1 DEF Lines, Aside
<1>3. ASSUME NEW d \in Conns, pc'[d] = "sendlock"
      PROVE  lockq'[who'[d]] # <<>> /\ Head(lockq'[who'[d]]) = d
  <2>1. d # c
    BY <1>3 DEF Aside, LinePlaces
  <2> QED
    BY <1>3, <2>1 DEF Others, Lines, Aside
<1> QED
  BY <1>2, <1>3 DEF Lines

LEMMA LinesJoins ==
    ASSUME CkptTypes, Seated, Lines, NEW c \in Conns, Others(c), UNCHANGED <<saver, at>>, Joins(c)
    PROVE  Lines' /\ lockq' \in [Uuids -> Seq(Everyone)]
<1>1. PICK v \in Uuids :
        /\ pc[c] \notin LinePlaces
        /\ lockq' = [lockq EXCEPT ![v] = Append(@, c)]
        /\ \/ pc'[c] \in {"getwait", "sendlock"} /\ who'[c] = v
           \/ pc'[c] = "putwait" /\ from'[arg'[c][1]] = v
        /\ pc'[c] = "sendlock" => lockq[v] = <<>>
  BY DEF Joins
<1>2. /\ lockq \in [Uuids -> Seq(Everyone)] /\ c \in Everyone
      /\ Orderly(lockq[v], Waiters(v)) /\ c \notin Waiters(v)
  BY <1>1, OutOfLine DEF CkptTypes, Lines, Everyone
<1>3. lockq'[v] = Append(lockq[v], c) /\ \A u \in Uuids \ {v} : lockq'[u] = lockq[u]
  BY <1>1, <1>2
<1>4. /\ Orderly(lockq'[v], Waiters(v) \cup {c}) /\ lockq'[v] # <<>>
      /\ lockq[v] # <<>> => Head(lockq'[v]) = Head(lockq[v])
      /\ lockq[v] = <<>> => Head(lockq'[v]) = c
  <2>1. PICK q : q = lockq[v]
    OBVIOUS
  <2>2. /\ Orderly(Append(q, c), Waiters(v) \cup {c})
        /\ Append(q, c) # <<>>
        /\ q # <<>> => Head(Append(q, c)) = Head(q)
        /\ q = <<>> => Head(Append(q, c)) = c
    BY <1>2, <2>1, OrderlyJoin
  <2> QED
    BY <1>3, <2>1, <2>2
<1>5. c \in InLine(v)' /\ \A u \in Uuids \ {v} : c \notin InLine(u)'
  BY <1>1 DEF InLine
<1>6. Waiters(v)' = Waiters(v) \cup {c}
  <2>1. c \in Waiters(v)'
    BY <1>5, MemberInLineNext
  <2> QED
    BY <2>1, WaitersNext
<1>7. ASSUME NEW u \in Uuids \ {v} PROVE Waiters(u)' = Waiters(u)
  <2>1. c \notin Waiters(u)'
    BY <1>5, MemberInLineNext
  <2>2. c \notin Waiters(u)
    BY <1>1, OutOfLine
  <2> QED
    BY <2>1, <2>2, WaitersNext
<1>8. ASSUME NEW u \in Uuids PROVE Orderly(lockq'[u], Waiters(u)')
  <2>1. CASE u = v
    BY <1>4, <1>6, <2>1
  <2>2. CASE u # v
    <3>1. Waiters(u)' = Waiters(u) /\ lockq'[u] = lockq[u]
      BY <1>3, <1>7, <2>2
    <3> QED
      BY <3>1 DEF Lines
  <2> QED
    BY <2>1, <2>2
<1>9. ASSUME NEW d \in Conns, pc'[d] = "sendlock"
      PROVE  lockq'[who'[d]] # <<>> /\ Head(lockq'[who'[d]]) = d
  <2>1. CASE d = c
    BY <1>1, <1>4, <1>9, <2>1
  <2>2. CASE d # c
    <3>1. pc[d] = "sendlock" /\ who'[d] = who[d]
      BY <1>9, <2>2 DEF Others
    <3>2. who[d] \in Uuids
      BY <3>1 DEF Seated
    <3>3. lockq[who[d]] # <<>> /\ Head(lockq[who[d]]) = d
      BY <3>1 DEF Lines
    <3> QED
      BY <1>3, <1>4, <3>1, <3>2, <3>3
  <2> QED
    BY <2>1, <2>2
<1>10. lockq' \in [Uuids -> Seq(Everyone)]
  BY <1>1, <1>2, AppendLine
<1> QED
  BY <1>8, <1>9, <1>10 DEF Lines

LEMMA LinesBegins ==
    ASSUME CkptTypes, Seated, Lines, NEW c \in Conns, Others(c), UNCHANGED <<saver, at>>, Begins(c)
    PROVE  Lines'
<1>1. ASSUME NEW u \in Uuids PROVE Waiters(u)' = Waiters(u)
  <2>1. c \in InLine(u)' <=> c \in InLine(u)
    BY DEF InLine, Begins
  <2>2. c \in Waiters(u)' <=> c \in Waiters(u)
    BY <2>1, MemberInLine, MemberInLineNext
  <2> QED
    BY <2>2, WaitersNext
<1>2. \A u \in Uuids : Orderly(lockq'[u], Waiters(u)')
  BY <1>1 DEF Lines, Begins
<1>3. lockq[who[c]] # <<>>
  <2>1. c \in InLine(who[c])
    BY DEF InLine, Begins
  <2>2. c \in Waiters(who[c]) /\ Orderly(lockq[who[c]], Waiters(who[c]))
    BY <2>1, MemberInLine DEF Begins, Lines
  <2>3. Len(lockq[who[c]]) # 0
    BY <2>2 DEF Orderly
  <2> QED
    BY <2>3
<1>4. ASSUME NEW d \in Conns, pc'[d] = "sendlock"
      PROVE  lockq'[who'[d]] # <<>> /\ Head(lockq'[who'[d]]) = d
  <2>1. CASE d = c
    BY <1>3, <2>1 DEF Begins
  <2>2. CASE d # c
    BY <1>4, <2>2 DEF Others, Lines, Begins
  <2> QED
    BY <2>1, <2>2
<1> QED
  BY <1>2, <1>4 DEF Lines

LEMMA LinesLeaves ==
    ASSUME CkptTypes, Seated, Lines, NEW c \in Conns, Others(c), UNCHANGED <<saver, at>>, Leaves(c)
    PROVE  Lines' /\ lockq' \in [Uuids -> Seq(Everyone)]
<1>1. PICK v \in Uuids :
        /\ c \in InLine(v) /\ (pc[c] = "sendlock" \/ Head(lockq[v]) = c)
        /\ pc'[c] \notin LinePlaces
        /\ lockq' = [lockq EXCEPT ![v] = Tail(@)]
  BY DEF Leaves
<1>2. lockq \in [Uuids -> Seq(Everyone)] /\ c \in Waiters(v) /\ Orderly(lockq[v], Waiters(v))
  BY <1>1, MemberInLine DEF CkptTypes, Lines
<1>3. lockq[v] # <<>> /\ Head(lockq[v]) = c
  <2>1. Len(lockq[v]) # 0
    BY <1>2 DEF Orderly
  <2>2. lockq[v] # <<>>
    BY <2>1
  <2>3. pc[c] = "sendlock" => who[c] = v
    BY <1>1 DEF InLine
  <2> QED
    BY <1>1, <2>2, <2>3 DEF Lines
<1>4. lockq'[v] = Tail(lockq[v]) /\ \A u \in Uuids \ {v} : lockq'[u] = lockq[u]
  BY <1>1, <1>2
<1>5. Orderly(lockq'[v], Waiters(v) \ {c})
  <2>1. Orderly(Tail(lockq[v]), Waiters(v) \ {Head(lockq[v])})
    BY <1>2, <1>3, OrderlyLeave
  <2> QED
    BY <1>3, <1>4, <2>1
<1>6. ASSUME NEW u \in Uuids PROVE Waiters(u)' = Waiters(u) \ {c}
  <2>1. c \notin Waiters(u)'
    BY <1>1, OutOfLine
  <2> QED
    BY <2>1, WaitersNext
<1>7. ASSUME NEW u \in Uuids \ {v} PROVE c \notin Waiters(u)
  <2>1. c \notin InLine(u)
    BY <1>1 DEF InLine
  <2> QED
    BY <2>1, MemberInLine
<1>8. ASSUME NEW u \in Uuids PROVE Orderly(lockq'[u], Waiters(u)')
  <2>1. CASE u = v
    BY <1>5, <1>6, <2>1
  <2>2. CASE u # v
    <3>1. Waiters(u)' = Waiters(u)
      BY <1>6, <1>7, <2>2
    <3>2. lockq'[u] = lockq[u]
      BY <1>4, <2>2
    <3> QED
      BY <3>1, <3>2 DEF Lines
  <2> QED
    BY <2>1, <2>2
<1>9. ASSUME NEW d \in Conns, pc'[d] = "sendlock"
      PROVE  lockq'[who'[d]] # <<>> /\ Head(lockq'[who'[d]]) = d
  <2>1. d # c
    BY <1>1, <1>9 DEF LinePlaces
  <2>2. pc[d] = "sendlock" /\ who'[d] = who[d]
    BY <1>9, <2>1 DEF Others
  <2>3. who[d] \in Uuids /\ lockq[who[d]] # <<>> /\ Head(lockq[who[d]]) = d
    BY <2>2 DEF Seated, Lines
  <2>4. who[d] # v
    BY <1>3, <2>1, <2>3
  <2> QED
    BY <1>4, <2>2, <2>3, <2>4
<1>10. lockq' \in [Uuids -> Seq(Everyone)]
  BY <1>1, <1>2, <1>3, TailLine
<1> QED
  BY <1>8, <1>9, <1>10 DEF Lines

-----------------------------------------------------------------------------
(* What a step of the handler c is to the mail: it moves on and carries    *)
(* nothing or a request that was posted, posts at most one more, and       *)
(* leaves nothing unknown in an inbox or with a client.                    *)

Posts(r, u, v) ==
    ~Posted(r) /\ from' = [from EXCEPT ![r] = u] /\ to' = [to EXCEPT ![r] = v]

Carries(c) ==
    \E p \in Places, x \in Items \cup {Nothing} :
        /\ pc' = [pc EXCEPT ![c] = p] /\ arg' = [arg EXCEPT ![c] = x]
        /\ x # Nothing => from'[x[1]] \in Uuids /\ to'[x[1]] \in Uuids
        /\ p \in {"putwait", "getwait"} => x # Nothing

Seats(c) ==
    \/ who' = who /\ pc[c] # "free"
    \/ \E u \in Uuids : who' = [who EXCEPT ![c] = u]

Mail ==
    /\ UNCHANGED <<from, to>> \/ \E r \in Rid : \E u, v \in Uuids : Posts(r, u, v)
    /\ inbox' \in [Uuids -> Seq(Rid)] /\ InPost(inbox)'
    /\ outbox' \in [Uuids -> SUBSET Rid]
    /\ got' \in [Uuids -> SUBSET Items]
    /\ \A u \in Uuids : \A y \in got'[u] : y \in got[u] \/ Posted(y[1])

Effect(c) ==
    /\ Carries(c) /\ Seats(c) /\ Mail
    /\ Aside(c) \/ Joins(c) \/ Begins(c) \/ Leaves(c)

CkptInv == CkptDesk /\ Lines

LEMMA PostedStays ==
    ASSUME CkptTypes, Mail
    PROVE  /\ \A r \in Rid : Posted(r) => Posted(r)' /\ from'[r] = from[r] /\ to'[r] = to[r]
           /\ from' \in [Rid -> Uuids \cup {Nobody}] /\ to' \in [Rid -> Uuids \cup {Nobody}]
<1>1. from \in [Rid -> Uuids \cup {Nobody}] /\ to \in [Rid -> Uuids \cup {Nobody}]
  BY DEF CkptTypes
<1>2. CASE UNCHANGED <<from, to>>
  BY <1>1, <1>2 DEF Posted
<1>3. ASSUME NEW r \in Rid, NEW u \in Uuids, NEW v \in Uuids, Posts(r, u, v)
      PROVE  /\ \A o \in Rid : Posted(o) => Posted(o)' /\ from'[o] = from[o] /\ to'[o] = to[o]
             /\ from' \in [Rid -> Uuids \cup {Nobody}] /\ to' \in [Rid -> Uuids \cup {Nobody}]
  BY <1>1, <1>3 DEF Posts, Posted
<1> QED
  BY <1>2, <1>3 DEF Mail

LEMMA ItemsAre == \A x \in Items : x[1] \in Rid /\ x # Nothing
  BY PostOfficeAssumption DEF Items, Nothing, Rid

LEMMA EffectKeeps ==
    ASSUME CkptInv, BookTypeOK', NEW c \in Conns, Effect(c), UNCHANGED saveVars
    PROVE  CkptInv'
<1>0. CkptTypes /\ Seated /\ Known /\ InPost(inbox) /\ InPost(snap.inbox) /\ Lines
  BY DEF CkptInv, CkptDesk
<1>1. PICK p \in Places, x \in Items \cup {Nothing} :
        /\ pc' = [pc EXCEPT ![c] = p] /\ arg' = [arg EXCEPT ![c] = x]
        /\ x # Nothing => from'[x[1]] \in Uuids /\ to'[x[1]] \in Uuids
        /\ p \in {"putwait", "getwait"} => x # Nothing
  BY DEF Effect, Carries
<1>2. /\ pc' \in [Conns -> Places \cup {"astray"}] /\ pc'[c] = p
      /\ arg' \in [Conns -> Items \cup {Nothing}] /\ arg'[c] = x
      /\ \A d \in Conns \ {c} : pc'[d] = pc[d] /\ arg'[d] = arg[d]
  BY <1>0, <1>1 DEF CkptTypes
<1>3. /\ who' \in [Conns -> Uuids \cup {Nobody}] /\ who'[c] \in Uuids
      /\ \A d \in Conns \ {c} : who'[d] = who[d]
  BY <1>0 DEF Effect, Seats, CkptTypes, Seated
<1>4. /\ \A r \in Rid : Posted(r) => Posted(r)' /\ from'[r] = from[r] /\ to'[r] = to[r]
      /\ from' \in [Rid -> Uuids \cup {Nobody}] /\ to' \in [Rid -> Uuids \cup {Nobody}]
  BY <1>0, PostedStays DEF Effect
<1>5. \A d \in Conns : arg[d] # Nothing => arg[d][1] \in Rid /\ Posted(arg[d][1])
  BY <1>0, ItemsAre DEF CkptTypes, Known
<1>6. Others(c)
  BY <1>0, <1>2, <1>3, <1>4, <1>5 DEF Others, Known
<1>7. Lines' /\ lockq' \in [Uuids -> Seq(Everyone)]
  <2>1. UNCHANGED <<saver, at>>
    BY DEF saveVars
  <2>2. CASE Aside(c)
    BY <1>0, <1>6, <2>1, <2>2, LinesAside DEF Aside, CkptTypes
  <2>3. CASE Begins(c)
    BY <1>0, <1>6, <2>1, <2>3, LinesBegins DEF Begins, CkptTypes
  <2> QED
    BY <1>0, <1>6, <2>1, <2>2, <2>3, LinesJoins, LinesLeaves DEF Effect
<1>8. CkptTypes'
  BY <1>0, <1>2, <1>3, <1>4, <1>7 DEF CkptTypes, Effect, Mail, saveVars
<1>9. Seated'
  BY <1>0, <1>2, <1>3 DEF Seated
<1>10. Known'
  <2>1. \A d \in Conns : arg'[d] # Nothing => from'[arg'[d][1]] \in Uuids /\ to'[arg'[d][1]] \in Uuids
    BY <1>1, <1>2, <1>4, <1>5 DEF Posted
  <2>2. \A d \in Conns : pc'[d] \in {"putwait", "getwait"} => arg'[d] # Nothing
    BY <1>0, <1>1, <1>2 DEF Known
  <2>3. ASSUME NEW u \in Uuids, NEW y \in got'[u]
        PROVE  from'[y[1]] \in Uuids /\ to'[y[1]] \in Uuids
    <3>1. y[1] \in Rid
      BY ItemsAre DEF Effect, Mail
    <3>2. Posted(y[1])
      BY <1>0 DEF Effect, Mail, Known
    <3> QED
      BY <1>4, <3>1, <3>2 DEF Posted
  <2>4. ASSUME NEW r \in Rid
        PROVE  (from'[r] \in Uuids /\ to'[r] \in Uuids) \/ (from'[r] = Nobody /\ to'[r] = Nobody)
    BY <1>0 DEF Effect, Mail, Known, Posted, Posts, CkptTypes
  <2> QED
    BY <2>1, <2>2, <2>3, <2>4 DEF Known, Posted
<1>11. InPost(snap.inbox)'
  <2>1. snap.inbox \in [Uuids -> Seq(Rid)] /\ snap' = snap
    BY <1>0 DEF CkptTypes, Snapshots, saveVars
  <2>2. ASSUME NEW u \in Uuids, NEW i \in 1 .. Len(snap.inbox[u])
        PROVE  from'[snap.inbox[u][i]] \in Uuids /\ to'[snap.inbox[u][i]] \in Uuids
    <3>1. snap.inbox[u][i] \in Rid
      BY <2>1
    <3>2. Posted(snap.inbox[u][i])
      BY <1>0 DEF InPost
    <3> QED
      BY <1>4, <3>1, <3>2 DEF Posted
  <2> QED
    BY <2>1, <2>2 DEF InPost, Posted
<1> QED
  BY <1>7, <1>8, <1>9, <1>10, <1>11 DEF CkptInv, CkptDesk, Effect, Mail

-----------------------------------------------------------------------------
(* Every step of a handler is such a step.                                 *)

LEMMA MailSame == CkptInv /\ UNCHANGED <<inbox, outbox, from, to, got>> => Mail
<1> SUFFICES ASSUME CkptInv, UNCHANGED <<inbox, outbox, from, to, got>> PROVE Mail
  OBVIOUS
<1>1. InPost(inbox)'
  BY DEF CkptInv, CkptDesk, InPost, Posted
<1> QED
  BY <1>1 DEF CkptInv, CkptDesk, CkptTypes, Mail

LEMMA QuietEffect ==
    ASSUME CkptInv, NEW c \in Conns, pc[c] \notin LinePlaces,
           \E p \in Places \ LinePlaces : pc' = [pc EXCEPT ![c] = p],
           arg' = arg \/ arg' = [arg EXCEPT ![c] = Nothing],
           Seats(c), UNCHANGED mailVars
    PROVE  Effect(c)
<1>1. Mail
  BY MailSame DEF mailVars
<1>2. PICK p \in Places \ LinePlaces : pc' = [pc EXCEPT ![c] = p]
  OBVIOUS
<1>3. pc'[c] = p
  BY <1>2 DEF CkptInv, CkptDesk, CkptTypes
<1>4. Aside(c)
  BY <1>3 DEF Aside, mailVars
<1>5. PICK x \in Items \cup {Nothing} :
        arg' = [arg EXCEPT ![c] = x] /\ (x # Nothing => Posted(x[1]))
  <2>1. CASE arg' = arg
    <3>1. arg' = [arg EXCEPT ![c] = arg[c]] /\ arg[c] \in Items \cup {Nothing}
      BY <2>1 DEF CkptInv, CkptDesk, CkptTypes
    <3>2. arg[c] # Nothing => Posted(arg[c][1])
      BY DEF CkptInv, CkptDesk, Known
    <3> QED
      BY <3>1, <3>2
  <2>2. CASE arg' = [arg EXCEPT ![c] = Nothing]
    BY <2>2
  <2> QED
    BY <2>1, <2>2
<1>6. Carries(c)
  <2>1. p \notin {"putwait", "getwait"}
    BY <1>2 DEF LinePlaces
  <2>2. x # Nothing => from'[x[1]] \in Uuids /\ to'[x[1]] \in Uuids
    BY <1>5 DEF Posted, mailVars
  <2> QED
    BY <1>2, <1>5, <2>1, <2>2 DEF Carries
<1> QED
  BY <1>1, <1>4, <1>6 DEF Effect

LEMMA ConnectEffect ==
    ASSUME CkptInv, NEW c \in Conns, Connect(c)
    PROVE  Effect(c)
<1>1. PICK u \in Uuids : AcceptLogin(c, u) \/ AcceptStale(c, u) \/ AcceptRelogin(c, u)
  BY DEF Connect
<1>2. Seat(c, u) /\ (Goto(c, "accepting") \/ Goto(c, "idle"))
  BY <1>1 DEF AcceptLogin, AcceptStale, AcceptRelogin
<1>3. \E p \in Places \ LinePlaces : pc' = [pc EXCEPT ![c] = p]
  BY <1>2 DEF Goto, Places, LinePlaces
<1>4. pc[c] \notin LinePlaces /\ UNCHANGED mailVars /\ arg' = arg /\ Seats(c)
  BY <1>2 DEF Seat, LinePlaces, Seats
<1> QED
  BY <1>3, <1>4, QuietEffect

LEMMA ServerEffect ==
    ASSUME CkptInv, NEW c \in Conns,
           \/ StartHandler(c) \/ EndOfStream(c) \/ BadFrame(c) \/ Orphan(c) \/ BadPacket(c)
           \/ Refused(c) \/ Bye(c) \/ Query(c) \/ Malformed(c) \/ GetInboxWait(c)
           \/ \E k \in Keys : Register(c, k) \/ Unregister(c, k)
           \/ \E target \in Uuids : PutInboxGone(c, target)
    PROVE  Effect(c)
<1>1. pc[c] \in {"accepting", "idle", "refusing"} /\ who' = who /\ UNCHANGED mailVars
  BY DEF StartHandler, EndOfStream, BadFrame, Orphan, BadPacket, Refused, Bye, Query, Malformed, GetInboxWait,
         Register, Unregister, PutInboxGone, Packet
<1>2. /\ \E p \in {"idle", "crashed", "refusing", "ended", "sending", "getting"} :
           pc' = [pc EXCEPT ![c] = p]
      /\ arg' = arg \/ arg' = [arg EXCEPT ![c] = Nothing]
  BY DEF StartHandler, EndOfStream, BadFrame, Orphan, BadPacket, Refused, Bye, Query, Malformed, GetInboxWait,
         Register, Unregister, PutInboxGone, Reply, Crash, Goto
<1>3. \E p \in Places \ LinePlaces : pc' = [pc EXCEPT ![c] = p]
  BY <1>2 DEF Places, LinePlaces
<1>4. pc[c] \notin LinePlaces /\ Seats(c)
  BY <1>1 DEF LinePlaces, Seats
<1> QED
  BY <1>1, <1>2, <1>3, <1>4, QuietEffect

LEMMA AstrayEffect ==
    ASSUME CkptInv, NEW c \in Conns, AstrayResumes(c) \/ NoCipher(c)
    PROVE  Effect(c)
<1>1. pc[c] \in {"astray", "idle"} /\ who' = who /\ UNCHANGED mailVars
  BY DEF AstrayResumes, NoCipher
<1>2. /\ \E p \in {"crashed", "sending", "idle"} : pc' = [pc EXCEPT ![c] = p]
      /\ arg' = [arg EXCEPT ![c] = Nothing]
  BY DEF AstrayResumes, NoCipher, Crash, Goto
<1>3. \E p \in Places \ LinePlaces : pc' = [pc EXCEPT ![c] = p]
  BY <1>2 DEF Places, LinePlaces
<1>4. pc[c] \notin LinePlaces /\ Seats(c)
  BY <1>1 DEF LinePlaces, Seats
<1> QED
  BY <1>1, <1>2, <1>3, <1>4, QuietEffect

LEMMA PutInboxEffect ==
    ASSUME CkptInv, NEW c \in Conns, NEW r \in Rid, NEW target \in Uuids, PutInbox(c, r, target)
    PROVE  Effect(c)
<1>0. /\ who[c] \in Uuids /\ pc[c] = "idle"
      /\ pc' = [pc EXCEPT ![c] = "sending"]
      /\ inbox' = [inbox EXCEPT ![target] = Append(@, r)]
      /\ from' = [from EXCEPT ![r] = who[c]]
      /\ to' = [to EXCEPT ![r] = target]
      /\ to[r] = Nobody
      /\ UNCHANGED <<who, outbox, lockq, got>>
  BY ReplyCarries DEF PutInbox, Packet, CkptInv, CkptDesk, Seated, Issued
<1>1. PICK x \in {<<r, "ticket">>, Nothing} : arg' = [arg EXCEPT ![c] = x]
  BY ReplyCarries DEF PutInbox
<1>2. CkptTypes /\ InPost(inbox) /\ Known
  BY DEF CkptInv, CkptDesk
<1>3. ~Posted(r) /\ from'[r] = who[c] /\ to'[r] = target
  BY <1>0, <1>2, NobodyAssumption DEF Posted, CkptTypes
<1>4. \A o \in Rid : Posted(o) => from'[o] \in Uuids /\ to'[o] \in Uuids
  BY <1>0, <1>2, <1>3 DEF Posted, CkptTypes
<1>5. inbox' \in [Uuids -> Seq(Rid)]
  BY <1>0, <1>2, AppendLine DEF CkptTypes
<1>6. InPost(inbox)'
  <2> SUFFICES ASSUME NEW u \in Uuids, NEW i \in 1 .. Len(inbox'[u])
               PROVE  from'[inbox'[u][i]] \in Uuids /\ to'[inbox'[u][i]] \in Uuids
    BY DEF InPost, Posted
  <2>1. inbox[u] \in Seq(Rid) /\ \A j \in 1 .. Len(inbox[u]) : Posted(inbox[u][j])
    BY <1>2 DEF CkptTypes, InPost
  <2>2. CASE u # target
    <3>1. inbox'[u] = inbox[u]
      BY <1>0, <1>2, <2>2 DEF CkptTypes
    <3>2. inbox[u][i] \in Rid /\ Posted(inbox[u][i])
      BY <2>1, <3>1
    <3> QED
      BY <1>4, <3>1, <3>2
  <2>3. CASE u = target
    <3>1. PICK n \in Nat : n = Len(inbox[u])
      BY <2>1
    <3>2. /\ Len(inbox'[u]) = n + 1 /\ inbox'[u][n + 1] = r
          /\ \A j \in 1 .. n : inbox'[u][j] = inbox[u][j]
      BY <1>0, <1>2, <2>1, <2>3, <3>1, AppendLine DEF CkptTypes
    <3>3. CASE i = n + 1
      BY <1>0, <1>3, <3>2, <3>3
    <3>4. CASE i # n + 1
      <4>1. i \in 1 .. n
        BY <3>1, <3>2, <3>4
      <4>2. inbox[u][i] \in Rid /\ Posted(inbox[u][i])
        BY <2>1, <3>1, <4>1
      <4> QED
        BY <1>4, <3>2, <4>1, <4>2
    <3> QED
      BY <3>3, <3>4
  <2> QED
    BY <2>2, <2>3
<1>7. Mail
  <2>1. Posts(r, who[c], target)
    BY <1>0, <1>3 DEF Posts
  <2> QED
    BY <1>0, <1>2, <1>5, <1>6, <2>1 DEF Mail, CkptTypes
<1>8. Carries(c)
  <2>1. "sending" \in Places /\ x \in Items \cup {Nothing}
    BY <1>1 DEF Places, Items
  <2>2. x # Nothing => from'[x[1]] \in Uuids /\ to'[x[1]] \in Uuids
    BY <1>0, <1>1, <1>3
  <2> QED
    BY <1>0, <1>1, <2>1, <2>2 DEF Carries
<1>9. Aside(c)
  BY <1>0, <1>2 DEF Aside, LinePlaces, CkptTypes
<1> QED
  BY <1>0, <1>7, <1>8, <1>9 DEF Effect, Seats

(* The same for every step that posts nothing.                             *)
LEMMA CarriesPosted ==
    ASSUME NEW c \in Conns, NEW p \in Places, NEW x \in Items \cup {Nothing},
           pc' = [pc EXCEPT ![c] = p], arg' = [arg EXCEPT ![c] = x], UNCHANGED <<from, to>>,
           x # Nothing => Posted(x[1]), p \in {"putwait", "getwait"} => x # Nothing
    PROVE  Carries(c)
<1>1. x # Nothing => from'[x[1]] \in Uuids /\ to'[x[1]] \in Uuids
  BY DEF Posted
<1> QED
  BY <1>1 DEF Carries

LEMMA TakeEffect ==
    ASSUME CkptInv, NEW c \in Conns, GetInbox(c) \/ Take(c)
    PROVE  Effect(c)
<1>0. /\ who[c] \in Uuids /\ pc[c] \in {"idle", "getting"}
      /\ inbox[who[c]] # <<>>
      /\ inbox' = [inbox EXCEPT ![who[c]] = Tail(@)]
      /\ UNCHANGED <<who, outbox, lockq, from, to, got>>
  BY DEF GetInbox, Take, TakeHead, Packet, CkptInv, CkptDesk, Seated
<1>1. PICK x \in {HeadRequest(c), Nothing}, p \in {"sending", "crashed"} :
         arg' = [arg EXCEPT ![c] = x] /\ pc' = [pc EXCEPT ![c] = p]
  BY ReplyCarries DEF GetInbox, Take, Crash, Goto
<1>2. CkptTypes /\ InPost(inbox)
  BY DEF CkptInv, CkptDesk
<1>3. PICK w, q : w = who[c] /\ q = inbox[who[c]]
  OBVIOUS
<1>4. /\ w \in Uuids /\ q \in Seq(Rid) /\ q # <<>>
      /\ \A i \in 1 .. Len(q) : Posted(q[i])
  BY <1>0, <1>2, <1>3 DEF CkptTypes, InPost
<1>5. /\ Head(q) \in Rid /\ Tail(q) \in Seq(Rid) /\ Len(q) \in Nat \ {0} /\ Len(Tail(q)) = Len(q) - 1
      /\ Head(q) = q[1] /\ \A i \in 1 .. Len(q) - 1 : Tail(q)[i] = q[i + 1]
  BY <1>4, TailLine
<1>6. Posted(Head(q))
  BY <1>4, <1>5
<1>7. \A i \in 1 .. Len(Tail(q)) : Posted(Tail(q)[i])
  <2> SUFFICES ASSUME NEW i \in 1 .. Len(Tail(q)) PROVE Posted(Tail(q)[i])
    OBVIOUS
  <2>1. i + 1 \in 1 .. Len(q) /\ Tail(q)[i] = q[i + 1]
    BY <1>5
  <2> QED
    BY <1>4, <2>1
<1>8. inbox' \in [Uuids -> Seq(Rid)] /\ inbox'[w] = Tail(q) /\ \A u \in Uuids \ {w} : inbox'[u] = inbox[u]
  BY <1>0, <1>2, <1>3, <1>5 DEF CkptTypes
<1>9. InPost(inbox)'
  <2>1. \A u \in Uuids : \A i \in 1 .. Len(inbox'[u]) : Posted(inbox'[u][i])
    BY <1>2, <1>7, <1>8 DEF InPost
  <2> QED
    BY <1>0, <2>1 DEF InPost, Posted
<1>10. Mail
  BY <1>0, <1>2, <1>8, <1>9 DEF Mail, CkptTypes
<1>11. x \in Items \cup {Nothing} /\ (x # Nothing => Posted(x[1]))
  BY <1>1, <1>3, <1>5, <1>6 DEF HeadRequest, Items
<1>12. Carries(c)
  <2>1. p \in Places /\ p \notin {"putwait", "getwait"}
    BY DEF Places
  <2> QED
    BY <1>0, <1>1, <1>11, <2>1, CarriesPosted
<1>13. Aside(c)
  BY <1>0, <1>1, <1>2 DEF Aside, LinePlaces, CkptTypes
<1> QED
  BY <1>0, <1>10, <1>12, <1>13 DEF Effect, Seats

(* The mail when only clients or outboxes change.                          *)
LEMMA MailKept ==
    ASSUME CkptInv, UNCHANGED <<inbox, from, to>>,
           outbox' \in [Uuids -> SUBSET Rid], got' \in [Uuids -> SUBSET Items],
           \A u \in Uuids : \A y \in got'[u] : y \in got[u] \/ Posted(y[1])
    PROVE  Mail
<1>1. InPost(inbox)'
  BY DEF CkptInv, CkptDesk, InPost, Posted
<1> QED
  BY <1>1 DEF CkptInv, CkptDesk, CkptTypes, Mail

LEMMA PutOutboxEffect ==
    ASSUME CkptInv, NEW c \in Conns, NEW r \in Rid, PutOutbox(c, r) \/ PutOutboxGone(c, r)
    PROVE  Effect(c)
<1>0. /\ who[c] \in Uuids /\ pc[c] = "idle" /\ <<r, "request">> \in got[who[c]]
      /\ got' = [got EXCEPT ![who[c]] = @ \ {<<r, "request">>}]
      /\ outbox' = outbox \/ outbox' = [outbox EXCEPT ![from[r]] = @ \cup {r}]
      /\ UNCHANGED <<who, inbox, lockq, from, to>>
  BY DEF PutOutbox, PutOutboxGone, Answers, Packet, CkptInv, CkptDesk, Seated
<1>1. PICK p \in {"sending", "crashed"} :
         arg' = [arg EXCEPT ![c] = Nothing] /\ pc' = [pc EXCEPT ![c] = p]
  BY ReplyCarries DEF PutOutbox, PutOutboxGone, Crash, Goto
<1>2. /\ outbox \in [Uuids -> SUBSET Rid] /\ got \in [Uuids -> SUBSET Items] /\ from[r] \in Uuids
      /\ pc \in [Conns -> Places \cup {"astray"}]
  BY <1>0 DEF CkptInv, CkptDesk, CkptTypes, Known, Posted
<1>3. outbox' \in [Uuids -> SUBSET Rid]
  BY <1>0, <1>2
<1>4. got' \in [Uuids -> SUBSET Items] /\ \A u \in Uuids : \A y \in got'[u] : y \in got[u]
  BY <1>0, <1>2
<1>5. Mail
  BY <1>0, <1>3, <1>4, MailKept
<1>6. p \in Places /\ p \notin {"putwait", "getwait"} /\ p \notin LinePlaces
  BY DEF Places, LinePlaces
<1>7. Carries(c)
  BY <1>0, <1>1, <1>6, CarriesPosted
<1>8. Aside(c)
  BY <1>0, <1>1, <1>2, <1>6 DEF Aside, LinePlaces
<1> QED
  BY <1>0, <1>5, <1>7, <1>8 DEF Effect, Seats

LEMMA JoinEffect ==
    ASSUME CkptInv, NEW c \in Conns, NEW r \in Rid,
           PutOutboxWait(c, r) \/ GetOutboxWait(c, r) \/ GetOutbox(c, r)
    PROVE  Effect(c)
<1>0. /\ who[c] \in Uuids /\ pc[c] = "idle"
      /\ UNCHANGED <<who, inbox, from, to>>
      /\ got' = got \/ got' = [got EXCEPT ![who[c]] = @ \ {<<r, "request">>}]
      /\ \E y \in got[who[c]] : y[1] = r
      /\ outbox' = outbox \/ outbox' = [outbox EXCEPT ![who[c]] = @ \ {r}]
  BY DEF PutOutboxWait, GetOutboxWait, GetOutbox, Fetch, Answers, Packet, CkptInv, CkptDesk, Seated
<1>1. /\ got \in [Uuids -> SUBSET Items] /\ outbox \in [Uuids -> SUBSET Rid]
      /\ pc \in [Conns -> Places \cup {"astray"}] /\ arg \in [Conns -> Items \cup {Nothing}]
      /\ Posted(r)
  BY <1>0 DEF CkptInv, CkptDesk, CkptTypes, Known
<1>2. outbox' \in [Uuids -> SUBSET Rid]
  BY <1>0, <1>1
<1>3. got' \in [Uuids -> SUBSET Items] /\ \A u \in Uuids : \A y \in got'[u] : y \in got[u]
  BY <1>0, <1>1
<1>4. Mail
  BY <1>0, <1>2, <1>3, MailKept
<1>5. PICK x \in {<<r, "answer">>, <<r, "ticket">>, Nothing}, p \in LinePlaces :
         /\ arg' = [arg EXCEPT ![c] = x] /\ pc' = [pc EXCEPT ![c] = p]
         /\ p \in {"putwait", "getwait"} => x # Nothing
         /\ \/ p = "putwait" /\ lockq' = [lockq EXCEPT ![from[r]] = Append(@, c)]
            \/ p # "putwait" /\ lockq' = [lockq EXCEPT ![who[c]] = Append(@, c)]
         /\ p = "sendlock" => lockq[who[c]] = <<>>
  <2>0. <<r, "answer">> # Nothing /\ <<r, "ticket">> # Nothing
    BY DEF Nothing
  <2>1. CASE PutOutboxWait(c, r)
    BY <2>0, <2>1 DEF PutOutboxWait, Goto, LinePlaces
  <2>2. CASE GetOutboxWait(c, r)
    BY <2>0, <2>2 DEF GetOutboxWait, Goto, LinePlaces
  <2>3. CASE GetOutbox(c, r)
    <3>1. PICK item \in {<<r, "answer">>, Nothing} : Reply(c, item, "sendlock")
      BY <2>3 DEF GetOutbox, Fetch
    <3>2. /\ pc' = [pc EXCEPT ![c] = "sendlock"]
          /\ \E x \in {item, Nothing} : arg' = [arg EXCEPT ![c] = x]
      BY <3>1, ReplyCarries
    <3>3. Append(<<>>, c) = <<c>>
      OBVIOUS
    <3>4. lockq[who[c]] = <<>> /\ lockq' = [lockq EXCEPT ![who[c]] = Append(@, c)]
      BY <2>3, <3>3 DEF GetOutbox
    <3> QED
      BY <3>1, <3>2, <3>4 DEF LinePlaces
  <2> QED
    BY <2>1, <2>2, <2>3
<1>6. x \in Items \cup {Nothing} /\ (x # Nothing => x[1] = r) /\ p \in Places
  BY <1>5 DEF Items, Places, LinePlaces
<1>7. Carries(c)
  BY <1>0, <1>1, <1>5, <1>6, CarriesPosted
<1>8. pc'[c] = p /\ arg'[c] = x /\ pc[c] \notin LinePlaces
  BY <1>0, <1>1, <1>5 DEF LinePlaces
<1>9. Joins(c)
  <2>1. CASE p = "putwait"
    <3>1. from[r] \in Uuids /\ lockq' = [lockq EXCEPT ![from[r]] = Append(@, c)]
      BY <1>1, <1>5, <2>1 DEF Posted
    <3>2. from'[arg'[c][1]] = from[r]
      BY <1>0, <1>5, <1>6, <1>8, <2>1
    <3> QED
      BY <1>8, <2>1, <3>1, <3>2 DEF Joins
  <2>2. CASE p # "putwait"
    <3>1. p \in {"getwait", "sendlock"} /\ lockq' = [lockq EXCEPT ![who[c]] = Append(@, c)]
      BY <1>5, <2>2 DEF LinePlaces
    <3> QED
      BY <1>0, <1>5, <1>8, <3>1 DEF Joins
  <2> QED
    BY <2>1, <2>2
<1> QED
  BY <1>0, <1>4, <1>7, <1>9 DEF Effect, Seats

LEMMA SendEffect ==
    ASSUME CkptInv, NEW c \in Conns, SendDone(c) \/ SendOrphan(c) \/ SendFail(c)
    PROVE  Effect(c)
<1>0. /\ who[c] \in Uuids /\ pc[c] \in {"accepting", "sending", "sendlock", "refusing"}
      /\ UNCHANGED <<who, inbox, outbox, from, to>>
      /\ Release(c)
  BY DEF SendDone, SendOrphan, SendFail, CkptInv, CkptDesk, Seated
<1>1. PICK p \in {"idle", "crashed"} :
         arg' = [arg EXCEPT ![c] = Nothing] /\ pc' = [pc EXCEPT ![c] = p]
  BY DEF SendDone, SendOrphan, SendFail, Crash, Goto
<1>2. /\ got \in [Uuids -> SUBSET Items] /\ outbox' \in [Uuids -> SUBSET Rid]
      /\ pc \in [Conns -> Places \cup {"astray"}]
      /\ arg[c] # Nothing => arg[c] \in Items /\ Posted(arg[c][1])
  BY <1>0 DEF CkptInv, CkptDesk, CkptTypes, Known
<1>3. \/ got' = got
      \/ arg[c] # Nothing /\ got' = [got EXCEPT ![who[c]] = @ \cup {arg[c]}]
  BY DEF SendDone, SendOrphan, SendFail
<1>4. got' \in [Uuids -> SUBSET Items]
  BY <1>0, <1>2, <1>3
<1>5. \A u \in Uuids : \A y \in got'[u] : y \in got[u] \/ (y = arg[c] /\ arg[c] # Nothing)
  BY <1>2, <1>3
<1>6. Mail
  BY <1>0, <1>2, <1>4, <1>5, MailKept
<1>7. p \in Places /\ p \notin {"putwait", "getwait"} /\ p \notin LinePlaces
  BY DEF Places, LinePlaces
<1>8. Carries(c)
  BY <1>0, <1>1, <1>7, CarriesPosted
<1>9. pc'[c] = p
  BY <1>1, <1>2
<1>10. CASE pc[c] = "sendlock"
  <2>1. c \in InLine(who[c])
    BY <1>10 DEF InLine
  <2>2. lockq' = [lockq EXCEPT ![who[c]] = Tail(@)]
    BY <1>0, <1>10 DEF Release
  <2>3. Leaves(c)
    BY <1>0, <1>7, <1>9, <1>10, <2>1, <2>2 DEF Leaves
  <2> QED
    BY <1>0, <1>6, <1>8, <2>3 DEF Effect, Seats
<1>11. CASE pc[c] # "sendlock"
  <2>1. Aside(c)
    BY <1>0, <1>7, <1>9, <1>11 DEF Aside, Release, LinePlaces
  <2> QED
    BY <1>0, <1>6, <1>8, <2>1 DEF Effect, Seats
<1> QED
  BY <1>10, <1>11

LEMMA PutOutboxLockedEffect ==
    ASSUME CkptInv, NEW c \in Conns, PutOutboxLocked(c)
    PROVE  Effect(c)
<1>0. PICK r : r = arg[c][1]
  OBVIOUS
<1>1. /\ pc[c] = "putwait" /\ arg[c] # Nothing
      /\ Head(lockq[from[r]]) = c
      /\ outbox' = [outbox EXCEPT ![from[r]] = @ \cup {r}]
      /\ lockq' = [lockq EXCEPT ![from[r]] = Tail(@)]
      /\ UNCHANGED <<who, inbox, from, to, got>>
  BY <1>0 DEF PutOutboxLocked, CkptInv, CkptDesk, Known
<1>2. PICK p \in {"sending", "crashed"} :
         arg' = [arg EXCEPT ![c] = Nothing] /\ pc' = [pc EXCEPT ![c] = p]
  BY ReplyCarries DEF PutOutboxLocked, Crash, Goto
<1>3. /\ outbox \in [Uuids -> SUBSET Rid] /\ got \in [Uuids -> SUBSET Items]
      /\ pc \in [Conns -> Places \cup {"astray"}]
      /\ r \in Rid /\ Posted(r)
  BY <1>0, <1>1, ItemsAre DEF CkptInv, CkptDesk, CkptTypes, Known
<1>4. from[r] \in Uuids
  BY <1>3 DEF Posted
<1>5. outbox' \in [Uuids -> SUBSET Rid]
  BY <1>1, <1>3, <1>4
<1>6. Mail
  BY <1>1, <1>3, <1>5, MailKept
<1>7. p \in Places /\ p \notin {"putwait", "getwait"} /\ p \notin LinePlaces
  BY DEF Places, LinePlaces
<1>8. Carries(c)
  BY <1>1, <1>2, <1>7, CarriesPosted
<1>9. Leaves(c)
  <2>1. c \in InLine(from[r])
    BY <1>0, <1>1 DEF InLine
  <2>2. pc'[c] = p
    BY <1>2, <1>3
  <2> QED
    BY <1>1, <1>4, <1>7, <2>1, <2>2 DEF Leaves
<1> QED
  BY <1>1, <1>6, <1>8, <1>9 DEF Effect, Seats

LEMMA GetOutboxLockedEffect ==
    ASSUME CkptInv, NEW c \in Conns, GetOutboxLocked(c)
    PROVE  Effect(c)
<1>0. PICK r : r = arg[c][1]
  OBVIOUS
<1>1. /\ pc[c] = "getwait" /\ who[c] \in Uuids /\ arg[c] # Nothing
      /\ Head(lockq[who[c]]) = c
      /\ outbox' = [outbox EXCEPT ![who[c]] = @ \ {r}]
      /\ UNCHANGED <<who, inbox, from, to, got>>
  BY <1>0 DEF GetOutboxLocked, Fetch, CkptInv, CkptDesk, Seated, Known
<1>2. PICK p \in {"sendlock", "crashed"}, x \in {<<r, "answer">>, Nothing} :
         /\ arg' = [arg EXCEPT ![c] = x] /\ pc' = [pc EXCEPT ![c] = p]
         /\ p = "sendlock" => lockq' = lockq
         /\ p = "crashed" => lockq' = [lockq EXCEPT ![who[c]] = Tail(@)]
  <2>1. CASE who[c] \in sessions
    <3>1. PICK item \in {<<r, "answer">>, Nothing} : Reply(c, item, "sendlock")
      BY <1>0, <2>1 DEF GetOutboxLocked, Fetch
    <3>2. /\ pc' = [pc EXCEPT ![c] = "sendlock"]
          /\ \E x \in {item, Nothing} : arg' = [arg EXCEPT ![c] = x]
      BY <3>1, ReplyCarries
    <3>3. lockq' = lockq
      BY <2>1 DEF GetOutboxLocked
    <3> QED
      BY <3>1, <3>2, <3>3
  <2>2. CASE who[c] \notin sessions
    BY <2>2 DEF GetOutboxLocked, Crash, Goto
  <2> QED
    BY <2>1, <2>2
<1>3. /\ outbox \in [Uuids -> SUBSET Rid] /\ got \in [Uuids -> SUBSET Items]
      /\ pc \in [Conns -> Places \cup {"astray"}]
      /\ r \in Rid /\ Posted(r)
  BY <1>0, <1>1, ItemsAre DEF CkptInv, CkptDesk, CkptTypes, Known
<1>4. outbox' \in [Uuids -> SUBSET Rid]
  BY <1>1, <1>3
<1>5. Mail
  BY <1>1, <1>3, <1>4, MailKept
<1>6. p \in Places /\ p \notin {"putwait", "getwait"} /\ x \in Items \cup {Nothing}
      /\ (x # Nothing => Posted(x[1]))
  BY <1>2, <1>3 DEF Places, Items
<1>7. Carries(c)
  BY <1>1, <1>2, <1>6, CarriesPosted
<1>8. pc'[c] = p
  BY <1>2, <1>3
<1>9. CASE p = "sendlock"
  <2>1. Begins(c)
    BY <1>1, <1>2, <1>8, <1>9 DEF Begins
  <2> QED
    BY <1>1, <1>5, <1>7, <2>1 DEF Effect, Seats
<1>10. CASE p = "crashed"
  <2>1. c \in InLine(who[c])
    BY <1>1 DEF InLine
  <2>2. Leaves(c)
    BY <1>1, <1>2, <1>8, <1>10, <2>1 DEF Leaves, LinePlaces
  <2> QED
    BY <1>1, <1>5, <1>7, <2>2 DEF Effect, Seats
<1> QED
  BY <1>9, <1>10

LEMMA DisconnectChanges ==
    ASSUME CkptInv, NEW c \in Conns, Disconnect(c), UNCHANGED saveVars
    PROVE  CkptInv'
<1>1. UNCHANGED <<bookVars, pc, who, arg, mailVars>>
  BY DEF Disconnect
<1>2. CkptTypes' /\ Seated' /\ Known' /\ InPost(inbox)' /\ InPost(snap.inbox)'
  BY <1>1 DEF CkptInv, CkptDesk, CkptTypes, BookTypeOK, Seated, Known, InPost, Posted, bookVars,
              mailVars, saveVars
<1>3. \A u \in Uuids : Waiters(u)' = Waiters(u)
  BY <1>1 DEF Waiters, InLine, mailVars, saveVars
<1>4. Lines'
  BY <1>1, <1>3 DEF CkptInv, Lines, mailVars
<1> QED
  BY <1>2, <1>4 DEF CkptInv, CkptDesk

LEMMA HandleIs ==
    ASSUME CkptInv, NEW c \in Conns, Handle(c)
    PROVE  Effect(c) \/ Disconnect(c)
<1>1. CASE Connect(c)
  BY <1>1, ConnectEffect
<1>2. CASE Proceed(c)
  BY <1>2, ServerEffect, SendEffect, TakeEffect, PutOutboxLockedEffect, GetOutboxLockedEffect
  DEF Proceed
<1>3. CASE BadFrame(c) \/ AstrayResumes(c) \/ NoCipher(c)
  BY <1>3, ServerEffect, AstrayEffect
<1>4. CASE ServeSealed(c)
  <2>1. Serve(c)
    BY <1>4 DEF ServeSealed
  <2>2. CASE \/ Query(c) \/ Malformed(c) \/ GetInboxWait(c) \/ Bye(c) \/ BadPacket(c) \/ BadFrame(c) \/ Orphan(c)
             \/ \E k \in Keys : Register(c, k) \/ Unregister(c, k)
             \/ \E target \in Uuids : PutInboxGone(c, target)
    BY <2>2, ServerEffect
  <2>3. CASE GetInbox(c)
    BY <2>3, TakeEffect
  <2>4. ASSUME NEW target \in Uuids, NEW r \in Rid, PutInbox(c, r, target) PROVE Effect(c)
    BY <2>4, PutInboxEffect
  <2>5. ASSUME NEW r \in Rid,
               \/ PutOutbox(c, r) \/ PutOutboxWait(c, r) \/ PutOutboxGone(c, r)
               \/ GetOutbox(c, r) \/ GetOutboxWait(c, r)
        PROVE  Effect(c)
    BY <2>5, PutOutboxEffect, JoinEffect
  <2> QED
    BY <2>1, <2>2, <2>3, <2>4, <2>5 DEF Serve
<1> QED
  BY <1>1, <1>2, <1>3, <1>4 DEF Handle

LEMMA HandleKeeps ==
    ASSUME CkptInv, NEW c \in Conns, Handle(c)
    PROVE  CkptInv'
<1>1. BookTypeOK' /\ UNCHANGED saveVars
  <2>1. BookTypeOK
    BY DEF CkptInv, CkptDesk, CkptTypes
  <2>2. [BookNext]_bookVars
    BY <2>1, HandleFollowsBook
  <2> QED
    BY <2>1, <2>2, BookTypeStep DEF Handle
<1> QED
  BY <1>1, HandleIs, DisconnectChanges, EffectKeeps

-----------------------------------------------------------------------------
(* serialize: with the lines at q and itself in none of them, it goes on   *)
(* to the end, or joins the line of one session.                           *)

LinesAt(q) ==
    /\ q \in [Uuids -> Seq(Everyone)]
    /\ \A u \in Uuids : Orderly(q[u], InLine(u))
    /\ \A c \in Conns : pc[c] = "sendlock" => q[who[c]] # <<>> /\ Head(q[who[c]]) = c

LEMMA SaverAside ==
    ASSUME NEW q, LinesAt(q), UNCHANGED <<pc, who, arg, from>>, lockq' = q, saver' # "waiting"
    PROVE  Lines'
<1>1. ASSUME NEW u \in Uuids PROVE Waiters(u)' = InLine(u)
  <2>1. InLine(u)' = InLine(u)
    BY DEF InLine
  <2> QED
    BY <2>1 DEF Waiters
<1>2. \A u \in Uuids : Orderly(lockq'[u], Waiters(u)')
  BY <1>1 DEF LinesAt
<1> QED
  BY <1>2 DEF Lines, LinesAt

LEMMA SaverJoins ==
    ASSUME NEW q, LinesAt(q), NEW v \in Uuids, q[v] # <<>>, Seated,
           UNCHANGED <<pc, who, arg, from>>,
           lockq' = [q EXCEPT ![v] = Append(@, Saver)], saver' = "waiting", at' = v
    PROVE  Lines' /\ lockq' \in [Uuids -> Seq(Everyone)]
<1>1. /\ q \in [Uuids -> Seq(Everyone)] /\ Saver \in Everyone
      /\ Orderly(q[v], InLine(v)) /\ Saver \notin InLine(v)
  BY SaverAssumption DEF LinesAt, Everyone, InLine
<1>2. lockq'[v] = Append(q[v], Saver) /\ \A u \in Uuids \ {v} : lockq'[u] = q[u]
  BY <1>1
<1>3. /\ Orderly(lockq'[v], InLine(v) \cup {Saver}) /\ lockq'[v] # <<>>
      /\ Head(lockq'[v]) = Head(q[v])
  <2>1. PICK l : l = q[v]
    OBVIOUS
  <2>2. /\ Orderly(Append(l, Saver), InLine(v) \cup {Saver})
        /\ Append(l, Saver) # <<>>
        /\ l # <<>> => Head(Append(l, Saver)) = Head(l)
    BY <1>1, <2>1, OrderlyJoin
  <2> QED
    BY <1>2, <2>1, <2>2
<1>4. \A u \in Uuids : InLine(u)' = InLine(u)
  BY DEF InLine
<1>5. Waiters(v)' = InLine(v) \cup {Saver} /\ \A u \in Uuids \ {v} : Waiters(u)' = InLine(u)
  BY <1>4 DEF Waiters
<1>6. ASSUME NEW u \in Uuids PROVE Orderly(lockq'[u], Waiters(u)')
  <2>1. CASE u = v
    BY <1>3, <1>5, <2>1
  <2>2. CASE u # v
    <3>1. lockq'[u] = q[u] /\ Waiters(u)' = InLine(u)
      BY <1>2, <1>5, <2>2
    <3> QED
      BY <3>1 DEF LinesAt
  <2> QED
    BY <2>1, <2>2
<1>7. ASSUME NEW c \in Conns, pc'[c] = "sendlock"
      PROVE  lockq'[who'[c]] # <<>> /\ Head(lockq'[who'[c]]) = c
  <2>1. pc[c] = "sendlock" /\ who'[c] = who[c] /\ who[c] \in Uuids
    BY <1>7 DEF Seated
  <2>2. q[who[c]] # <<>> /\ Head(q[who[c]]) = c
    BY <2>1 DEF LinesAt
  <2> QED
    BY <1>2, <1>3, <2>1, <2>2
<1>8. lockq' \in [Uuids -> Seq(Everyone)]
  BY <1>1, AppendLine
<1> QED
  BY <1>6, <1>7, <1>8 DEF Lines

LEMMA SaverLeaves ==
    ASSUME CkptInv, saver = "waiting", Head(lockq[at]) = Saver
    PROVE  LinesAt([lockq EXCEPT ![at] = Tail(@)])
<1>1. at \in Uuids /\ lockq \in [Uuids -> Seq(Everyone)] /\ Lines /\ Seated
  BY DEF CkptInv, CkptDesk, CkptTypes
<1>2. PICK q : q = [lockq EXCEPT ![at] = Tail(@)]
  OBVIOUS
<1>3. /\ Waiters(at) = InLine(at) \cup {Saver} /\ Saver \notin InLine(at)
      /\ \A u \in Uuids \ {at} : Waiters(u) = InLine(u)
  BY SaverAssumption DEF Waiters, InLine
<1>4. lockq[at] # <<>>
  <2>1. Orderly(lockq[at], Waiters(at)) /\ Saver \in Waiters(at)
    BY <1>1, <1>3 DEF Lines
  <2>2. Len(lockq[at]) # 0
    BY <2>1 DEF Orderly
  <2> QED
    BY <2>2
<1>5. q[at] = Tail(lockq[at]) /\ \A u \in Uuids \ {at} : q[u] = lockq[u]
  BY <1>1, <1>2
<1>6. Orderly(q[at], InLine(at))
  <2>1. Orderly(Tail(lockq[at]), Waiters(at) \ {Head(lockq[at])})
    BY <1>1, <1>4, OrderlyLeave DEF Lines
  <2>2. Waiters(at) \ {Saver} = InLine(at)
    BY <1>3
  <2> QED
    BY <1>5, <2>1, <2>2
<1>7. ASSUME NEW u \in Uuids PROVE Orderly(q[u], InLine(u))
  <2>1. CASE u = at
    BY <1>6, <2>1
  <2>2. CASE u # at
    <3>1. q[u] = lockq[u] /\ Waiters(u) = InLine(u)
      BY <1>3, <1>5, <2>2
    <3>2. Orderly(lockq[u], Waiters(u))
      BY <1>1 DEF Lines
    <3> QED
      BY <3>1, <3>2
  <2> QED
    BY <2>1, <2>2
<1>8. ASSUME NEW c \in Conns, pc[c] = "sendlock" PROVE q[who[c]] # <<>> /\ Head(q[who[c]]) = c
  <2>1. who[c] \in Uuids /\ lockq[who[c]] # <<>> /\ Head(lockq[who[c]]) = c
    BY <1>1, <1>8 DEF Seated, Lines
  <2>2. who[c] # at
    BY <2>1, SaverAssumption
  <2> QED
    BY <1>5, <2>1, <2>2
<1>9. q \in [Uuids -> Seq(Everyone)]
  BY <1>1, <1>2, <1>4, TailLine
<1> QED
  BY <1>2, <1>7, <1>8, <1>9 DEF LinesAt

(* What it writes of an inbox, and what it leaves of it, was posted.       *)
LEMMA WrittenKeeps ==
    ASSUME CkptInv, NEW s \in Snapshots, InPost(s.inbox), NEW S \in SUBSET Uuids,
           snap' = Written(s, S), Drain(S), UNCHANGED <<from, to>>
    PROVE  /\ snap' \in Snapshots /\ InPost(snap.inbox)'
           /\ inbox' \in [Uuids -> Seq(Rid)] /\ InPost(inbox)'
<1>1. /\ inbox \in [Uuids -> Seq(Rid)] /\ outbox \in [Uuids -> SUBSET Rid]
      /\ owned \in [Uuids -> [Keys -> Nat]] /\ InPost(inbox)
  BY DEF CkptInv, CkptDesk, CkptTypes, BookTypeOK
<1>2. /\ s.inbox \in [Uuids -> Seq(Rid)] /\ s.outbox \in [Uuids -> SUBSET Rid]
      /\ s.owned \in [Uuids -> [Keys -> Nat]] /\ s.sessions \in SUBSET Uuids
      /\ s.book \in [Keys -> Uuids \cup {Nobody}]
  BY DEF Snapshots
<1>3. /\ snap'.sessions = s.sessions \cup S /\ snap'.book = s.book
      /\ snap'.owned = [u \in Uuids |-> IF u \in S THEN owned[u] ELSE s.owned[u]]
      /\ snap'.inbox = [u \in Uuids |-> IF u \in S THEN inbox[u] ELSE s.inbox[u]]
      /\ snap'.outbox = [u \in Uuids |-> IF u \in S THEN outbox[u] ELSE s.outbox[u]]
      /\ snap' = [sessions |-> snap'.sessions, book |-> snap'.book, owned |-> snap'.owned,
                  inbox |-> snap'.inbox, outbox |-> snap'.outbox]
  BY DEF Written, Snapshots
<1>4. snap' \in Snapshots
  <2>1. snap'.sessions \in SUBSET Uuids /\ snap'.book \in [Keys -> Uuids \cup {Nobody}]
    BY <1>2, <1>3
  <2>2. snap'.owned \in [Uuids -> [Keys -> Nat]]
    BY <1>1, <1>2, <1>3
  <2>3. snap'.inbox \in [Uuids -> Seq(Rid)]
    BY <1>1, <1>2, <1>3
  <2>4. snap'.outbox \in [Uuids -> SUBSET Rid]
    BY <1>1, <1>2, <1>3
  <2>5. PICK a, b, o, i, x :
          /\ a = snap'.sessions /\ b = snap'.book /\ o = snap'.owned
          /\ i = snap'.inbox /\ x = snap'.outbox
          /\ snap' = [sessions |-> a, book |-> b, owned |-> o, inbox |-> i, outbox |-> x]
    BY <1>3
  <2> QED
    BY <2>1, <2>2, <2>3, <2>4, <2>5 DEF Snapshots
<1>5. \A r : Posted(r)' <=> Posted(r)
  BY DEF Posted
<1>6. ASSUME NEW u \in Uuids, NEW i \in 1 .. Len(snap'.inbox[u]) PROVE Posted(snap'.inbox[u][i])
  <2>1. CASE u \in S
    BY <1>1, <1>3, <1>6, <2>1 DEF InPost
  <2>2. CASE u \notin S
    BY <1>3, <1>6, <2>2 DEF InPost
  <2> QED
    BY <2>1, <2>2
<1>7. InPost(snap.inbox)'
  BY <1>5, <1>6 DEF InPost
<1>8. inbox' = [u \in Uuids |-> IF u \in S THEN <<>> ELSE inbox[u]]
  BY DEF Drain
<1>9. inbox' \in [Uuids -> Seq(Rid)]
  <2>1. <<>> \in Seq(Rid)
    OBVIOUS
  <2> QED
    BY <1>1, <1>8, <2>1
<1>10. ASSUME NEW u \in Uuids, NEW i \in 1 .. Len(inbox'[u]) PROVE Posted(inbox'[u][i])
  <2>1. CASE u \in S
    <3>1. inbox'[u] = <<>> /\ Len(<<>>) = 0
      BY <1>8, <2>1
    <3> QED
      BY <1>10, <3>1
  <2>2. CASE u \notin S
    BY <1>1, <1>8, <1>10, <2>2 DEF InPost
  <2> QED
    BY <2>1, <2>2
<1>11. InPost(inbox)'
  BY <1>5, <1>10 DEF InPost
<1> QED
  BY <1>4, <1>7, <1>9, <1>11

LEMMA SweepKeeps ==
    ASSUME CkptInv, NEW s \in Snapshots, InPost(s.inbox), NEW q, LinesAt(q), Sweep(s, q),
           UNCHANGED quietVars
    PROVE  CkptInv'
<1>1. UNCHANGED <<bookVars, pc, who, arg, outbox, from, to, got>>
  BY DEF quietVars, deskVars
<1>2. CkptTypes /\ Seated /\ Known /\ sessions \subseteq Uuids
  BY DEF CkptInv, CkptDesk, CkptTypes, BookTypeOK
<1>3. /\ snap' \in Snapshots /\ InPost(snap.inbox)'
      /\ inbox' \in [Uuids -> Seq(Rid)] /\ InPost(inbox)'
      /\ Lines' /\ lockq' \in [Uuids -> Seq(Everyone)]
      /\ saver' = "waiting" => at' \in Uuids
  <2>1. CASE /\ snap' = Written(s, sessions \ s.sessions) /\ Drain(sessions \ s.sessions)
             /\ saver' = "saved" /\ lockq' = q
    <3>1. sessions \ s.sessions \in SUBSET Uuids
      BY <1>2
    <3>2. /\ snap' \in Snapshots /\ InPost(snap.inbox)'
          /\ inbox' \in [Uuids -> Seq(Rid)] /\ InPost(inbox)'
      BY <1>1, <2>1, <3>1, WrittenKeeps
    <3>3. Lines'
      BY <1>1, <2>1, SaverAside
    <3> QED
      BY <2>1, <3>2, <3>3 DEF LinesAt
  <2>2. ASSUME NEW v \in Uuids, NEW S \in SUBSET Uuids,
               /\ q[v] # <<>> /\ snap' = Written(s, S \cup {v}) /\ Drain(S \cup {v})
               /\ saver' = "waiting" /\ at' = v /\ lockq' = [q EXCEPT ![v] = Append(@, Saver)]
        PROVE  /\ snap' \in Snapshots /\ InPost(snap.inbox)'
               /\ inbox' \in [Uuids -> Seq(Rid)] /\ InPost(inbox)'
               /\ Lines' /\ lockq' \in [Uuids -> Seq(Everyone)]
               /\ saver' = "waiting" => at' \in Uuids
    <3>1. S \cup {v} \in SUBSET Uuids
      OBVIOUS
    <3>2. /\ snap' \in Snapshots /\ InPost(snap.inbox)'
          /\ inbox' \in [Uuids -> Seq(Rid)] /\ InPost(inbox)'
      BY <1>1, <2>2, <3>1, WrittenKeeps
    <3>3. Lines' /\ lockq' \in [Uuids -> Seq(Everyone)]
      BY <1>1, <1>2, <2>2, SaverJoins
    <3> QED
      BY <2>2, <3>2, <3>3
  <2>3. \/ /\ snap' = Written(s, sessions \ s.sessions) /\ Drain(sessions \ s.sessions)
           /\ saver' = "saved" /\ lockq' = q
        \/ \E v \in Uuids, S \in SUBSET Uuids :
             /\ q[v] # <<>> /\ snap' = Written(s, S \cup {v}) /\ Drain(S \cup {v})
             /\ saver' = "waiting" /\ at' = v /\ lockq' = [q EXCEPT ![v] = Append(@, Saver)]
    BY <1>2 DEF Sweep
  <2> QED
    BY <2>1, <2>2, <2>3
<1>4. BookTypeOK'
  BY <1>1, <1>2 DEF CkptTypes, BookTypeOK, bookVars
<1>5. CkptTypes'
  BY <1>1, <1>2, <1>3, <1>4 DEF CkptTypes
<1>6. Seated' /\ Known'
  BY <1>1, <1>2 DEF Seated, Known, Posted
<1> QED
  BY <1>3, <1>5, <1>6 DEF CkptInv, CkptDesk

LEMMA SerializeKeeps ==
    ASSUME CkptInv, Serialize
    PROVE  CkptInv'
<1>1. saver = "off" /\ Sweep(Blank, lockq) /\ UNCHANGED quietVars
  BY DEF Serialize
<1>2. Blank \in Snapshots /\ InPost(Blank.inbox)
  BY DEF CkptInv, CkptDesk, CkptTypes, BookTypeOK, Blank, Snapshots
<1>3. \A u \in Uuids : Waiters(u) = InLine(u)
  BY <1>1 DEF Waiters
<1>4. LinesAt(lockq)
  BY <1>3 DEF LinesAt, CkptInv, CkptDesk, CkptTypes, Lines
<1>5. PICK s, q : s = Blank /\ q = lockq
  OBVIOUS
<1> QED
  BY <1>1, <1>2, <1>4, <1>5, SweepKeeps

LEMMA SaveLockedKeeps ==
    ASSUME CkptInv, SaveLocked
    PROVE  CkptInv'
<1>1. PICK s, q : s = [snap EXCEPT !.outbox[at] = outbox[at]] /\ q = [lockq EXCEPT ![at] = Tail(@)]
  OBVIOUS
<1>2. /\ saver = "waiting" /\ Head(lockq[at]) = Saver /\ UNCHANGED quietVars
      /\ SizeChanged(s, q) \/ Sweep(s, q)
  BY <1>1 DEF SaveLocked
<1>3. LinesAt(q)
  BY <1>1, <1>2, SaverLeaves
<1>4. snap \in Snapshots /\ at \in Uuids /\ outbox \in [Uuids -> SUBSET Rid] /\ InPost(snap.inbox)
  BY <1>2 DEF CkptInv, CkptDesk, CkptTypes
<1>5. s \in Snapshots /\ InPost(s.inbox)
  <2>1. s \in Snapshots /\ s.inbox = snap.inbox
    BY <1>1, <1>4 DEF Snapshots
  <2> QED
    BY <1>4, <2>1
<1>6. CASE Sweep(s, q)
  BY <1>2, <1>3, <1>5, <1>6, SweepKeeps
<1>7. CASE SizeChanged(s, q)
  <2>1. /\ UNCHANGED <<bookVars, pc, who, arg, inbox, outbox, from, to, got>>
        /\ saver' = "failed" /\ snap' = s /\ lockq' = q
    BY <1>2, <1>7 DEF SizeChanged, quietVars, deskVars
  <2>2. CkptTypes /\ Seated /\ Known /\ InPost(inbox)
    BY DEF CkptInv, CkptDesk
  <2>3. Lines'
    BY <1>3, <2>1, SaverAside
  <2>4. BookTypeOK'
    BY <2>1, <2>2 DEF CkptTypes, BookTypeOK, bookVars
  <2>5. CkptTypes'
    BY <1>3, <1>5, <2>1, <2>2, <2>4 DEF CkptTypes, LinesAt
  <2>6. Seated' /\ Known' /\ InPost(inbox)' /\ InPost(snap.inbox)'
    BY <1>5, <2>1, <2>2 DEF Seated, Known, Posted, InPost
  <2> QED
    BY <2>3, <2>5, <2>6 DEF CkptInv, CkptDesk
<1> QED
  BY <1>2, <1>6, <1>7

-----------------------------------------------------------------------------
(* A restore: every line is empty, and nobody is left waiting in one.      *)

LEMMA RestoreKeeps ==
    ASSUME CkptInv, Restart \/ RestoreLive
    PROVE  CkptInv'
<1>1. /\ ApplyState /\ Tables /\ saver' = "saved" /\ snap' = snap
      /\ lockq' = [u \in Uuids |-> <<>>] /\ UNCHANGED <<drawn, from, to, got>>
  BY DEF Restart, RestoreLive, ApplyState
<1>2. CkptTypes /\ Seated /\ Known /\ InPost(snap.inbox)
  BY DEF CkptInv, CkptDesk
<1>3. /\ snap.sessions \in SUBSET Uuids /\ snap.book \in [Keys -> Uuids \cup {Nobody}]
      /\ snap.owned \in [Uuids -> [Keys -> Nat]] /\ snap.inbox \in [Uuids -> Seq(Rid)]
      /\ snap.outbox \in [Uuids -> SUBSET Rid]
  BY <1>2 DEF CkptTypes, Snapshots
<1>4. BookTypeOK'
  BY <1>1, <1>2, <1>3 DEF Tables, BookTypeOK, CkptTypes, NoAddress
<1>5. inbox' \in [Uuids -> Seq(Rid)] /\ outbox' \in [Uuids -> SUBSET Rid]
      /\ lockq' \in [Uuids -> Seq(Everyone)]
  <2>1. <<>> \in Seq(Rid) /\ <<>> \in Seq(Everyone)
    OBVIOUS
  <2>2. inbox' \in [Uuids -> Seq(Rid)]
    BY <1>1, <1>3, <2>1 DEF Tables
  <2>3. outbox' \in [Uuids -> SUBSET Rid]
    BY <1>1, <1>3 DEF Tables
  <2>4. lockq' \in [Uuids -> Seq(Everyone)]
    BY <1>1, <2>1
  <2> QED
    BY <2>2, <2>3, <2>4
<1>6. /\ pc' \in [Conns -> Places \cup {"astray"}] /\ who' \in [Conns -> Uuids \cup {Nobody}]
      /\ arg' \in [Conns -> Items \cup {Nothing}]
      /\ \A c \in Conns : /\ pc'[c] \notin LinePlaces
                          /\ arg'[c] = Nothing \/ arg'[c] = arg[c]
                          /\ pc'[c] # "free" => who'[c] \in Uuids
  <2>1. CASE Restart
    BY <2>1 DEF Restart, Places, LinePlaces
  <2>2. CASE RestoreLive
    <3>1. /\ pc \in [Conns -> Places \cup {"astray"}] /\ who \in [Conns -> Uuids \cup {Nobody}]
          /\ arg \in [Conns -> Items \cup {Nothing}]
      BY <1>2 DEF CkptTypes
    <3>2. /\ pc' = [c \in Conns |-> IF Holds(c) THEN "astray"
                                    ELSE IF pc[c] = "sendlock" THEN "sending" ELSE pc[c]]
          /\ arg' = [c \in Conns |-> IF Holds(c) THEN Nothing ELSE arg[c]]
          /\ who' = who
      BY <2>2 DEF RestoreLive
    <3>3. "sending" \in Places
      BY DEF Places
    <3>4. pc' \in [Conns -> Places \cup {"astray"}] /\ arg' \in [Conns -> Items \cup {Nothing}]
      BY <3>1, <3>2, <3>3
    <3>5. ASSUME NEW c \in Conns
          PROVE  /\ pc'[c] \notin LinePlaces /\ (arg'[c] = Nothing \/ arg'[c] = arg[c])
                 /\ pc'[c] # "free" => pc[c] # "free"
      BY <3>1, <3>2 DEF Holds, LinePlaces
    <3> QED
      BY <1>2, <3>1, <3>2, <3>4, <3>5 DEF Seated
  <2> QED
    BY <2>1, <2>2
<1>7. CkptTypes'
  BY <1>1, <1>2, <1>4, <1>5, <1>6 DEF CkptTypes
<1>8. Seated' /\ Known'
  <2>1. \A c \in Conns : pc'[c] \notin {"putwait", "getwait"}
    BY <1>6 DEF LinePlaces
  <2> QED
    BY <1>1, <1>2, <1>6, <2>1 DEF Seated, Known, Posted
<1>9. InPost(snap.inbox)'
  BY <1>1, <1>2 DEF InPost, Posted
<1>10. InPost(inbox)'
  <2>1. \A r : Posted(r)' <=> Posted(r)
    BY <1>1 DEF Posted
  <2>2. ASSUME NEW u \in Uuids, NEW i \in 1 .. Len(inbox'[u]) PROVE Posted(inbox'[u][i])
    <3>1. CASE u \in snap.sessions
      <4>1. inbox'[u] = snap.inbox[u]
        BY <1>1, <3>1 DEF Tables
      <4> QED
        BY <1>2, <2>2, <4>1 DEF InPost
    <3>2. CASE u \notin snap.sessions
      <4>1. inbox'[u] = <<>> /\ Len(<<>>) = 0
        BY <1>1, <3>2 DEF Tables
      <4> QED
        BY <2>2, <4>1
    <3> QED
      BY <3>1, <3>2
  <2> QED
    BY <2>1, <2>2 DEF InPost
<1>11. Lines'
  <2>1. ASSUME NEW u \in Uuids PROVE Orderly(lockq'[u], Waiters(u)')
    <3>1. InLine(u)' = {}
      BY <1>6 DEF InLine, LinePlaces
    <3>2. Waiters(u)' = {}
      BY <1>1, <3>1 DEF Waiters
    <3>3. lockq'[u] = <<>>
      BY <1>1
    <3>4. Orderly(<<>>, {})
      BY DEF Orderly
    <3> QED
      BY <3>2, <3>3, <3>4
  <2>2. \A c \in Conns : pc'[c] # "sendlock"
    BY <1>6 DEF LinePlaces
  <2> QED
    BY <2>1, <2>2 DEF Lines
<1> QED
  BY <1>7, <1>8, <1>9, <1>10, <1>11 DEF CkptInv, CkptDesk

-----------------------------------------------------------------------------

LEMMA CkptInvInit == CkptInit => CkptInv
<1> SUFFICES ASSUME CkptInit PROVE CkptInv
  OBVIOUS
<1>1. Init /\ saver = "off" /\ snap = Blank
  BY DEF CkptInit
<1>2. <<>> \in Seq(Rid) /\ <<>> \in Seq(Everyone) /\ Len(<<>>) = 0
  OBVIOUS
<1>3. BookTypeOK
  BY <1>1, BookInvInit DEF Init, BookInv
<1>4. CkptTypes /\ Seated /\ Known
  BY <1>1, <1>2, <1>3 DEF Init, CkptTypes, BookTypeOK, Snapshots, Blank, Places, Seated, Known, Posted
<1>5. InPost(inbox) /\ InPost(snap.inbox)
  BY <1>1, <1>2 DEF Init, InPost, Blank
<1>6. Lines
  <2>1. ASSUME NEW u \in Uuids PROVE Orderly(lockq[u], Waiters(u))
    <3>1. Waiters(u) = {} /\ lockq[u] = <<>>
      BY <1>1 DEF Init, Waiters, InLine
    <3>2. Orderly(<<>>, {})
      BY DEF Orderly
    <3> QED
      BY <3>1, <3>2
  <2> QED
    BY <1>1, <2>1 DEF Init, Lines
<1> QED
  BY <1>4, <1>5, <1>6 DEF CkptInv, CkptDesk

LEMMA CkptInvStep == CkptInv /\ [CkptNext]_ckptVars => CkptInv'
<1> SUFFICES ASSUME CkptInv, [CkptNext]_ckptVars PROVE CkptInv'
  OBVIOUS
<1>1. CASE UNCHANGED ckptVars
  <2>1. UNCHANGED <<bookVars, pc, who, arg, mailVars, saveVars>>
    BY <1>1 DEF ckptVars, vars, deskVars
  <2>2. CkptTypes' /\ Seated' /\ Known' /\ InPost(inbox)' /\ InPost(snap.inbox)'
    BY <2>1 DEF CkptInv, CkptDesk, CkptTypes, BookTypeOK, Seated, Known, InPost, Posted, bookVars,
                mailVars, saveVars
  <2>3. \A u \in Uuids : Waiters(u)' = Waiters(u)
    BY <2>1 DEF Waiters, InLine, mailVars, saveVars
  <2>4. Lines'
    BY <2>1, <2>3 DEF CkptInv, Lines, mailVars
  <2> QED
    BY <2>2, <2>4 DEF CkptInv, CkptDesk
<1> QED
  BY <1>1, HandleKeeps, SerializeKeeps, SaveLockedKeeps, RestoreKeeps DEF CkptNext

(* Whatever a handler or serialize does, and whatever fails, the line for  *)
(* a session's outbox lock holds, once each, the handlers that have it or  *)
(* await it and serialize while it waits for that outbox: no error leaves  *)
(* anyone in line, and no restore (server.py:1054, 1095-1104).             *)
THEOREM NobodyLeftInLine == CkptSpec => []SaverInLine
<1>1. CkptInv => SaverInLine
  BY OrderlyCount DEF CkptInv, Lines, SaverInLine
<1> QED
  BY <1>1, CkptInvInit, CkptInvStep, PTL DEF CkptSpec

-----------------------------------------------------------------------------
(* Where a request is.  An inbox, also one in the checkpoint, holds what   *)
(* was posted to its uuid, once; what is in an outbox was posted; and a    *)
(* request has one place p, if any.  The answer may be in several.         *)

InBox(r) == \E i \in 1 .. Len(inbox[to[r]]) : inbox[to[r]][i] = r

Kept(r) == Saved(to[r]) /\ \E i \in 1 .. Len(snap.inbox[to[r]]) : snap.inbox[to[r]][i] = r

Within(r, p) ==
    /\ InBox(r) => p = <<"inbox", Nobody>>
    /\ Kept(r) => p = <<"checkpoint", Nobody>>
    /\ \A c \in Conns : Sending(c, r, "request") => p = <<"reply", c>>
    /\ \A c \in Waiting(r) : p = <<"answering", c>>
    /\ \A u \in Uuids : <<r, "request">> \in got[u] => p = <<"client", u>>
    /\ Answered(r) => p = <<"answer", Nobody>>

Tidy(box) ==
    \A u \in Uuids :
        /\ \A i \in 1 .. Len(box[u]) : to[box[u][i]] = u
        /\ \A i, j \in 1 .. Len(box[u]) : box[u][i] = box[u][j] => i = j

OutPost(box) == \A u \in Uuids : \A r \in box[u] : Posted(r)

OnceInv ==
    /\ Tidy(inbox) /\ Tidy(snap.inbox)
    /\ OutPost(outbox) /\ OutPost(snap.outbox)
    /\ ArgKinds
    /\ restored => saver = "saved"
    /\ \A r \in Rid : Posted(r) => \E p : Within(r, p)

(* A step of the handler c, as far as one request r is concerned: others   *)
(* carry what they did, and the checkpoint is as it was.                   *)
Frame(c, r) ==
    /\ \A d \in Conns \ {c} : pc'[d] = pc[d] /\ arg'[d] = arg[d]
    /\ UNCHANGED saveVars
    /\ Posted(r) /\ to'[r] = to[r]

(* It comes to no place where it was not.                                  *)
Rests(c, r) ==
    /\ InBox(r)' => InBox(r)
    /\ Sending(c, r, "request")' => Sending(c, r, "request")
    /\ c \in Waiting(r)' => c \in Waiting(r)
    /\ \A u \in Uuids : <<r, "request">> \in got'[u] => <<r, "request">> \in got[u]
    /\ Answered(r)' => Answered(r)

(* c carries neither a request nor an answer.                              *)
Empty(c) ==
    pc[c] \in {"sending", "sendlock", "putwait"} => arg[c] = Nothing \/ arg[c][2] = "ticket"

LEMMA EmptyHands ==
    ASSUME NEW c, NEW r
    PROVE  /\ Empty(c) => /\ ~Sending(c, r, "request") /\ ~Sending(c, r, "answer")
                          /\ c \notin Waiting(r)
           /\ Empty(c)' => /\ ~Sending(c, r, "request")' /\ ~Sending(c, r, "answer")'
                           /\ c \notin Waiting(r)'
<1>1. /\ <<r, "request">> # Nothing /\ <<r, "answer">> # Nothing
      /\ <<r, "request">>[2] = "request" /\ <<r, "answer">>[2] = "answer"
  BY DEF Nothing
<1> QED
  BY <1>1 DEF Empty, Sending, Waiting

LEMMA RestsWithin ==
    ASSUME NEW c \in Conns, NEW r \in Rid, Frame(c, r), Rests(c, r), NEW p, Within(r, p)
    PROVE  Within(r, p)'
<1>1. Kept(r)' => Kept(r)
  BY DEF Frame, Kept, Saved, saveVars
<1>2. \A d \in Conns : Sending(d, r, "request")' => Sending(d, r, "request")
  BY DEF Frame, Rests, Sending
<1>3. \A d \in Waiting(r)' : d \in Waiting(r)
  <2> SUFFICES ASSUME NEW d \in Conns, pc'[d] = "putwait", arg'[d] = <<r, "answer">>
               PROVE  d \in Waiting(r)
    BY DEF Waiting
  <2>1. CASE d = c
    BY <2>1 DEF Rests, Waiting
  <2>2. CASE d # c
    BY <2>2 DEF Frame, Waiting
  <2> QED
    BY <2>1, <2>2
<1>4. InBox(r)' => p = <<"inbox", Nobody>>
  BY DEF Rests, Within
<1>5. Kept(r)' => p = <<"checkpoint", Nobody>>
  BY <1>1 DEF Within
<1>6. \A d \in Conns : Sending(d, r, "request")' => p = <<"reply", d>>
  BY <1>2 DEF Within
<1>7. \A d \in Waiting(r)' : p = <<"answering", d>>
  BY <1>3 DEF Within
<1>8. \A u \in Uuids : <<r, "request">> \in got'[u] => p = <<"client", u>>
  BY DEF Rests, Within
<1>9. Answered(r)' => p = <<"answer", Nobody>>
  BY DEF Rests, Within
<1> QED
  BY <1>4, <1>5, <1>6, <1>7, <1>8, <1>9 DEF Within

(* The answer is nowhere new if c does not come to carry it.               *)
LEMMA AnswerRests ==
    ASSUME NEW c \in Conns, NEW r \in Rid, Frame(c, r),
           \A u \in Uuids : r \in outbox'[u] => r \in outbox[u] \/ Answered(r),
           \A u \in Uuids : <<r, "answer">> \in got'[u] => <<r, "answer">> \in got[u] \/ Answered(r),
           Sending(c, r, "answer")' => Answered(r)
    PROVE  Answered(r)' => Answered(r)
<1>1. \A u : Saved(u)' /\ r \in snap'.outbox[u] => Saved(u) /\ r \in snap.outbox[u]
  BY DEF Frame, Saved, saveVars
<1>2. \A d \in Conns : Sending(d, r, "answer")' => Sending(d, r, "answer") \/ Answered(r)
  BY DEF Frame, Sending
<1> QED
  BY <1>1, <1>2 DEF Answered

(* A step that leaves the mail alone and c with empty hands.               *)
LEMMA IdleRests ==
    ASSUME NEW c \in Conns, NEW r \in Rid, Frame(c, r), Empty(c)', UNCHANGED <<inbox, outbox, got>>
    PROVE  Rests(c, r)
<1>1. ~Sending(c, r, "request")' /\ ~Sending(c, r, "answer")' /\ c \notin Waiting(r)'
  BY EmptyHands
<1>2. Answered(r)' => Answered(r)
  BY <1>1, AnswerRests
<1>3. InBox(r)' => InBox(r)
  BY DEF InBox, Frame
<1> QED
  BY <1>1, <1>2, <1>3 DEF Rests

(* Moves.  c hands over what it carries: a request comes to its client.    *)
LEMMA HandWithin ==
    ASSUME CkptInv, NEW c \in Conns, NEW r \in Rid, Frame(c, r), NEW p, Within(r, p),
           pc[c] \in {"sending", "sendlock"}, arg[c] # Nothing, who[c] \in Uuids,
           got' = [got EXCEPT ![who[c]] = @ \cup {arg[c]}],
           Empty(c)', UNCHANGED <<inbox, outbox>>
    PROVE  \E q : Within(r, q)'
<1>1. ~Sending(c, r, "request")' /\ ~Sending(c, r, "answer")' /\ c \notin Waiting(r)'
  BY EmptyHands
<1>2. got \in [Uuids -> SUBSET Items]
  BY DEF CkptInv, CkptDesk, CkptTypes
<1>3. \A u \in Uuids : \A x \in got'[u] : x \in got[u] \/ (x = arg[c] /\ u = who[c])
  BY <1>2
<1>4. InBox(r)' => InBox(r)
  BY DEF InBox, Frame
<1>5. \A u \in Uuids : <<r, "answer">> \in got'[u] => <<r, "answer">> \in got[u] \/ Answered(r)
  BY <1>3 DEF Answered, Sending
<1>6. Answered(r)' => Answered(r)
  BY <1>1, <1>5, AnswerRests
<1>7. CASE arg[c] # <<r, "request">>
  <2>1. Rests(c, r)
    BY <1>1, <1>3, <1>4, <1>6, <1>7 DEF Rests
  <2> QED
    BY <2>1, RestsWithin
<1>8. CASE arg[c] = <<r, "request">>
  <2>1. Sending(c, r, "request") /\ p = <<"reply", c>>
    BY <1>8 DEF Sending, Within
  <2>2. ~InBox(r) /\ ~Kept(r) /\ ~Answered(r) /\ Waiting(r) = {}
        /\ (\A d \in Conns : Sending(d, r, "request") => d = c)
        /\ (\A u \in Uuids : <<r, "request">> \notin got[u])
    BY <2>1 DEF Within
  <2>3. ~InBox(r)' /\ ~Answered(r)'
    BY <1>4, <1>6, <2>2
  <2>4. ~Kept(r)'
    BY <2>2 DEF Frame, Kept, Saved, saveVars
  <2>5. \A d \in Conns : ~Sending(d, r, "request")'
    BY <1>1, <2>2 DEF Frame, Sending
  <2>6. \A d \in Conns : d \notin Waiting(r)'
    BY <1>1, <2>2 DEF Frame, Waiting
  <2>7. \A u \in Uuids : <<r, "request">> \in got'[u] => <<"client", who[c]>> = <<"client", u>>
    BY <1>3, <2>2
  <2>8. \A d \in Waiting(r)' : d \in Conns
    BY DEF Waiting
  <2>9. PICK q : q = <<"client", who[c]>>
    OBVIOUS
  <2>10. Within(r, q)'
    BY <2>3, <2>4, <2>5, <2>6, <2>7, <2>8, <2>9 DEF Within
  <2> QED
    BY <2>10
<1> QED
  BY <1>7, <1>8

(* c, with empty hands, takes the first request of its inbox.              *)
LEMMA TakeWithin ==
    ASSUME CkptInv, Tidy(inbox), NEW c \in Conns, NEW r \in Rid, Frame(c, r), NEW p, Within(r, p),
           who[c] \in Uuids, inbox[who[c]] # <<>>,
           inbox' = [inbox EXCEPT ![who[c]] = Tail(@)],
           Empty(c)' \/ (pc'[c] = "sending" /\ arg'[c] = HeadRequest(c)),
           UNCHANGED <<outbox, got>>
    PROVE  \E q : Within(r, q)'
<1>1. PICK w, l : w = who[c] /\ l = inbox[who[c]]
  OBVIOUS
<1>2. /\ inbox \in [Uuids -> Seq(Rid)] /\ w \in Uuids /\ l \in Seq(Rid) /\ l # <<>>
      /\ \A i \in 1 .. Len(l) : to[l[i]] = w
      /\ \A i, j \in 1 .. Len(l) : l[i] = l[j] => i = j
  BY <1>1 DEF CkptInv, CkptDesk, CkptTypes, Tidy
<1>3. PICK t : t = Tail(l)
  OBVIOUS
<1>4. /\ Len(l) \in Nat \ {0} /\ Len(t) = Len(l) - 1
      /\ Head(l) = l[1] /\ \A i \in 1 .. Len(l) - 1 : t[i] = l[i + 1]
  BY <1>2, <1>3, TailLine
<1>5. \A i \in 1 .. Len(t) : i + 1 \in 1 .. Len(l) /\ t[i] = l[i + 1] /\ t[i] # Head(l)
  <2> SUFFICES ASSUME NEW i \in 1 .. Len(t)
               PROVE  i + 1 \in 1 .. Len(l) /\ t[i] = l[i + 1] /\ t[i] # Head(l)
    OBVIOUS
  <2>1. i + 1 \in 1 .. Len(l) /\ t[i] = l[i + 1] /\ 1 \in 1 .. Len(l) /\ i + 1 # 1
    BY <1>4
  <2>2. l[i + 1] # l[1]
    BY <1>2, <2>1
  <2> QED
    BY <1>4, <2>1, <2>2
<1>6. inbox'[w] = t /\ \A u \in Uuids \ {w} : inbox'[u] = inbox[u]
  BY <1>1, <1>2, <1>3
<1>7. to[r] \in Uuids /\ to'[r] = to[r]
  BY DEF Frame, Posted
<1>8. InBox(r)' => InBox(r) /\ r # Head(l)
  <2>1. CASE to[r] # w
    <3>1. inbox'[to'[r]] = inbox[to[r]]
      BY <1>6, <1>7, <2>1
    <3>2. r # Head(l)
      BY <1>2, <1>4, <2>1
    <3> QED
      BY <3>1, <3>2 DEF InBox
  <2>2. CASE to[r] = w
    <3>1. inbox'[to'[r]] = t /\ inbox[to[r]] = l
      BY <1>1, <1>6, <1>7, <2>2
    <3> QED
      BY <1>5, <3>1 DEF InBox
  <2> QED
    BY <2>1, <2>2
<1>9. ~Sending(c, r, "answer")' /\ c \notin Waiting(r)'
      /\ (Sending(c, r, "request")' => r = Head(l))
  <2>1. CASE Empty(c)'
    BY <2>1, EmptyHands
  <2>2. CASE pc'[c] = "sending" /\ arg'[c] = HeadRequest(c)
    BY <1>1, <2>2 DEF HeadRequest, Sending, Waiting
  <2> QED
    BY <2>1, <2>2
<1>10. Answered(r)' => Answered(r)
  BY <1>9, AnswerRests
<1>11. CASE r # Head(l)
  <2>1. Rests(c, r)
    BY <1>8, <1>9, <1>10, <1>11 DEF Rests
  <2> QED
    BY <2>1, RestsWithin
<1>12. CASE r = Head(l)
  <2>1. to[r] = w /\ inbox[to[r]] = l /\ l[1] = r /\ 1 \in 1 .. Len(l)
    BY <1>1, <1>2, <1>4, <1>12
  <2>2. InBox(r)
    BY <2>1 DEF InBox
  <2>3. ~Kept(r) /\ ~Answered(r) /\ Waiting(r) = {}
        /\ (\A d \in Conns : ~Sending(d, r, "request"))
        /\ (\A u \in Uuids : <<r, "request">> \notin got[u])
    BY <2>2 DEF Within
  <2>4. ~InBox(r)' /\ ~Answered(r)'
    BY <1>8, <1>10, <1>12, <2>3
  <2>5. ~Kept(r)'
    BY <2>3 DEF Frame, Kept, Saved, saveVars
  <2>6. \A d \in Conns : Sending(d, r, "request")' => d = c
    BY <2>3 DEF Frame, Sending
  <2>7. \A d \in Waiting(r)' : FALSE
    BY <1>9, <2>3 DEF Frame, Waiting
  <2>8. PICK q : q = <<"reply", c>>
    OBVIOUS
  <2>9. Within(r, q)'
    BY <2>3, <2>4, <2>5, <2>6, <2>7, <2>8 DEF Within
  <2> QED
    BY <2>9
<1> QED
  BY <1>11, <1>12

(* The request o leaves its place, for c to wait with its answer or for an *)
(* outbox, or is lost; it was at that place only.                          *)
LEMMA AnsweredWithin ==
    ASSUME CkptInv, NEW c \in Conns, NEW o \in Rid, NEW r \in Rid, Frame(c, r), NEW p, Within(r, p),
           \/ p = <<"client", who[c]>> /\ <<o, "request">> \in got[who[c]] /\ who[c] \in Uuids
           \/ p = <<"answering", c>> /\ c \in Waiting(o)
           \/ r # o,
           inbox' = inbox,
           \A u \in Uuids : got'[u] \subseteq got[u],
           \A u \in Uuids : <<o, "request">> \notin got'[u] \/ r # o,
           \A u \in Uuids : outbox'[u] \subseteq outbox[u] \cup {o},
           \/ Empty(c)'
           \/ pc'[c] = "putwait" /\ arg'[c] = <<o, "answer">> /\ \A u \in Uuids : outbox'[u] = outbox[u]
    PROVE  \E q : Within(r, q)'
<1>1. InBox(r)' => InBox(r)
  BY DEF InBox, Frame
<1>2. /\ ~Sending(c, r, "request")' /\ ~Sending(c, r, "answer")'
      /\ c \in Waiting(r)' => r = o /\ \A u \in Uuids : outbox'[u] = outbox[u]
  <2>1. CASE Empty(c)'
    BY <2>1, EmptyHands
  <2>2. CASE ~Empty(c)'
    BY <2>2 DEF Sending, Waiting
  <2> QED
    BY <2>1, <2>2
<1>3. CASE r # o
  <2>1. Answered(r)' => Answered(r)
    <3>1. \A u \in Uuids : r \in outbox'[u] => r \in outbox[u] \/ Answered(r)
      BY <1>3
    <3>2. \A u \in Uuids : <<r, "answer">> \in got'[u] => <<r, "answer">> \in got[u] \/ Answered(r)
      OBVIOUS
    <3> QED
      BY <1>2, <3>1, <3>2, AnswerRests
  <2>2. Rests(c, r)
    BY <1>1, <1>2, <1>3, <2>1 DEF Rests
  <2> QED
    BY <2>2, RestsWithin
<1>4. CASE r = o
  <2>1. \/ p = <<"client", who[c]>>
        \/ p = <<"answering", c>>
    BY <1>4
  <2>2. ~InBox(r) /\ ~Kept(r) /\ ~Answered(r)
        /\ (\A d \in Conns : ~Sending(d, r, "request"))
        /\ (\A d \in Waiting(r) : d = c)
    BY <2>1 DEF Within
  <2>3. ~InBox(r)'
    BY <1>1, <2>2
  <2>4. ~Kept(r)'
    BY <2>2 DEF Frame, Kept, Saved, saveVars
  <2>5. \A d \in Conns : ~Sending(d, r, "request")'
    BY <1>2, <2>2 DEF Frame, Sending
  <2>6. \A d \in Waiting(r)' : d = c
    BY <2>2 DEF Frame, Waiting
  <2>7. \A u \in Uuids : <<r, "request">> \notin got'[u]
    BY <1>4
  <2>8. CASE c \in Waiting(r)'
    <3>1. Answered(r)' => Answered(r)
      <4>1. \A u \in Uuids : r \in outbox'[u] => r \in outbox[u] \/ Answered(r)
        BY <1>2, <2>8
      <4>2. \A u \in Uuids : <<r, "answer">> \in got'[u] => <<r, "answer">> \in got[u] \/ Answered(r)
        OBVIOUS
      <4> QED
        BY <1>2, <4>1, <4>2, AnswerRests
    <3>2. PICK q : q = <<"answering", c>>
      OBVIOUS
    <3>3. Within(r, q)'
      BY <2>2, <2>3, <2>4, <2>5, <2>6, <2>7, <3>1, <3>2 DEF Within
    <3> QED
      BY <3>3
  <2>9. CASE c \notin Waiting(r)'
    <3>1. PICK q : q = <<"answer", Nobody>>
      OBVIOUS
    <3>2. Within(r, q)'
      BY <2>3, <2>4, <2>5, <2>6, <2>7, <2>9, <3>1 DEF Within
    <3> QED
      BY <3>2
  <2> QED
    BY <2>8, <2>9
<1> QED
  BY <1>3, <1>4

(* c reads the outbox, or tries to.                                        *)
LEMMA FetchRests ==
    ASSUME NEW c \in Conns, NEW o \in Rid, NEW r \in Rid, Frame(c, r), who[c] \in Uuids,
           UNCHANGED <<inbox, got>>,
           \A u \in Uuids : outbox'[u] \subseteq outbox[u],
           \/ Empty(c)'
           \/ pc'[c] = "sendlock" /\ arg'[c] = <<o, "answer">> /\ o \in outbox[who[c]]
    PROVE  Rests(c, r)
<1>1. InBox(r)' => InBox(r)
  BY DEF InBox, Frame
<1>2. /\ ~Sending(c, r, "request")' /\ c \notin Waiting(r)'
      /\ Sending(c, r, "answer")' => Answered(r)
  <2>1. CASE Empty(c)'
    BY <2>1, EmptyHands
  <2>2. CASE ~Empty(c)'
    BY <2>2 DEF Sending, Waiting, Answered
  <2> QED
    BY <2>1, <2>2
<1>3. Answered(r)' => Answered(r)
  BY <1>2, AnswerRests
<1> QED
  BY <1>1, <1>2, <1>3 DEF Rests

(* A request is posted: it is in its inbox, and was nowhere before.        *)
LEMMA PostWithin ==
    ASSUME CkptInv, OutPost(outbox), OutPost(snap.outbox), NEW c \in Conns, NEW o \in Rid, ~Posted(o),
           NEW target \in Uuids,
           to' = [to EXCEPT ![o] = target],
           inbox' = [inbox EXCEPT ![target] = Append(@, o)],
           \A d \in Conns \ {c} : pc'[d] = pc[d] /\ arg'[d] = arg[d],
           Empty(c)', UNCHANGED saveVars, UNCHANGED <<outbox, got>>
    PROVE  /\ \E q : Within(o, q)'
           /\ \A r \in Rid \ {o} : Posted(r) => Frame(c, r) /\ Rests(c, r)
<1>1. CkptTypes /\ Known /\ InPost(snap.inbox)
  BY DEF CkptInv, CkptDesk
<1>2. /\ to \in [Rid -> Uuids \cup {Nobody}] /\ inbox \in [Uuids -> Seq(Rid)]
      /\ got \in [Uuids -> SUBSET Items]
  BY <1>1 DEF CkptTypes
<1>3. ~Sending(c, o, "request")' /\ ~Sending(c, o, "answer")' /\ c \notin Waiting(o)'
  BY EmptyHands
<1>4. \A d \in Conns : arg[d] # <<o, "request">> /\ arg[d] # <<o, "answer">>
  <2>1. <<o, "request">> # Nothing /\ <<o, "answer">> # Nothing
        /\ <<o, "request">>[1] = o /\ <<o, "answer">>[1] = o
    BY DEF Nothing
  <2> QED
    BY <1>1, <2>1 DEF Known
<1>5. \A u \in Uuids : <<o, "request">> \notin got[u] /\ <<o, "answer">> \notin got[u]
  BY <1>1 DEF Known
<1>6. \A d \in Conns : ~Sending(d, o, "request")' /\ ~Sending(d, o, "answer")'
  BY <1>3, <1>4 DEF Sending
<1>7. \A d \in Waiting(o)' : FALSE
  BY <1>3, <1>4 DEF Waiting
<1>8. to'[o] = target
  BY <1>2
<1>9. ~Kept(o)'
  <2>1. \A i \in 1 .. Len(snap.inbox[target]) : snap.inbox[target][i] # o
    BY <1>1 DEF InPost
  <2> QED
    BY <1>8, <2>1 DEF Kept, saveVars
<1>10. ~Answered(o)'
  <2>1. \A u \in Uuids : o \notin outbox[u] /\ o \notin snap.outbox[u]
    BY DEF OutPost
  <2> QED
    BY <1>5, <1>6, <2>1 DEF Answered, saveVars
<1>11. \E q : Within(o, q)'
  <2>1. PICK q : q = <<"inbox", Nobody>>
    OBVIOUS
  <2>2. Within(o, q)'
    BY <1>5, <1>6, <1>7, <1>9, <1>10, <2>1 DEF Within
  <2> QED
    BY <2>2
<1>12. ASSUME NEW r \in Rid \ {o}, Posted(r) PROVE Frame(c, r) /\ Rests(c, r)
  <2>1. Frame(c, r)
    BY <1>2, <1>12 DEF Frame
  <2>2. InBox(r)' => InBox(r)
    <3>1. to'[r] = to[r] /\ to[r] \in Uuids
      BY <1>2, <1>12 DEF Posted
    <3>2. CASE to[r] # target
      <4>1. inbox'[to'[r]] = inbox[to[r]]
        BY <1>2, <3>1, <3>2
      <4> QED
        BY <4>1 DEF InBox
    <3>3. CASE to[r] = target
      <4>1. PICK n \in Nat : n = Len(inbox[target])
        BY <1>2
      <4>2. /\ Len(inbox'[target]) = n + 1 /\ inbox'[target][n + 1] = o
            /\ \A j \in 1 .. n : inbox'[target][j] = inbox[target][j]
        BY <1>2, <4>1, AppendLine
      <4>3. \A i \in 1 .. n + 1 : i = n + 1 \/ i \in 1 .. n
        BY <4>1
      <4>4. ASSUME NEW i \in 1 .. n + 1, inbox'[target][i] = r
            PROVE  \E j \in 1 .. n : inbox[target][j] = r
        BY <4>2, <4>3, <4>4
      <4> QED
        BY <3>1, <3>3, <4>1, <4>2, <4>4 DEF InBox
    <3> QED
      BY <3>2, <3>3
  <2>3. ~Sending(c, r, "request")' /\ ~Sending(c, r, "answer")' /\ c \notin Waiting(r)'
    BY EmptyHands
  <2>4. Answered(r)' => Answered(r)
    BY <2>1, <2>3, AnswerRests
  <2> QED
    BY <2>1, <2>2, <2>3, <2>4 DEF Rests
<1> QED
  BY <1>11, <1>12

-----------------------------------------------------------------------------
(* Every step of a handler keeps each request in one place.                *)

Fit(c) == (pc[c] = "putwait" => arg[c][2] = "answer") /\ (pc[c] = "refusing" => arg[c] = Nothing)

LEMMA FrameOf ==
    ASSUME CkptInv, NEW c \in Conns, Effect(c), UNCHANGED saveVars
    PROVE  /\ \A r \in Rid : Posted(r) => Frame(c, r) /\ Posted(r)' /\ from'[r] = from[r]
           /\ \A d \in Conns \ {c} : pc'[d] = pc[d] /\ arg'[d] = arg[d]
<1>1. CkptTypes /\ Mail /\ Carries(c)
  BY DEF CkptInv, CkptDesk, Effect
<1>2. \A r \in Rid : Posted(r) => Posted(r)' /\ from'[r] = from[r] /\ to'[r] = to[r]
  BY <1>1, PostedStays
<1>3. \A d \in Conns \ {c} : pc'[d] = pc[d] /\ arg'[d] = arg[d]
  BY <1>1 DEF Carries, CkptTypes
<1> QED
  BY <1>2, <1>3 DEF Frame

LEMMA OnceStep ==
    ASSUME CkptInv, OnceInv, NEW c \in Conns, Effect(c), UNCHANGED saveVars,
           Tidy(inbox)', Fit(c)',
           \A u \in Uuids : \A r \in outbox'[u] : r \in outbox[u] \/ (r \in Rid /\ Posted(r)),
           \A r \in Rid : Posted(r) => \E q : Within(r, q)',
           \A r \in Rid : Posted(r)' => Posted(r) \/ \E q : Within(r, q)'
    PROVE  OnceInv'
<1>1. /\ \A r \in Rid : Posted(r) => Frame(c, r) /\ Posted(r)' /\ from'[r] = from[r]
      /\ \A d \in Conns \ {c} : pc'[d] = pc[d] /\ arg'[d] = arg[d]
  BY FrameOf
<1>2. snap \in Snapshots /\ outbox \in [Uuids -> SUBSET Rid] /\ InPost(snap.inbox) /\ snap' = snap
  BY DEF CkptInv, CkptDesk, CkptTypes, saveVars
<1>3. snap.inbox \in [Uuids -> Seq(Rid)] /\ snap.outbox \in [Uuids -> SUBSET Rid]
  BY <1>2 DEF Snapshots
<1>4. Tidy(snap.inbox)'
  <2>1. ASSUME NEW u \in Uuids, NEW i \in 1 .. Len(snap.inbox[u])
        PROVE  to'[snap.inbox[u][i]] = u
    <3>1. snap.inbox[u][i] \in Rid /\ Posted(snap.inbox[u][i]) /\ to[snap.inbox[u][i]] = u
      BY <1>2, <1>3 DEF InPost, OnceInv, Tidy
    <3> QED
      BY <1>1, <3>1 DEF Frame
  <2>2. \A u \in Uuids : \A i, j \in 1 .. Len(snap.inbox[u]) : snap.inbox[u][i] = snap.inbox[u][j] => i = j
    BY DEF OnceInv, Tidy
  <2> QED
    BY <1>2, <2>1, <2>2 DEF Tidy
<1>5. OutPost(snap.outbox)'
  <2>1. \A u \in Uuids : \A r \in snap.outbox[u] : r \in Rid /\ Posted(r)
    BY <1>3 DEF OnceInv, OutPost
  <2>2. \A u \in Uuids : \A r \in snap.outbox[u] : Posted(r)'
    BY <1>1, <2>1
  <2> QED
    BY <1>2, <2>2 DEF OutPost
<1>6. OutPost(outbox)'
  <2>1. \A u \in Uuids : \A r \in outbox'[u] : r \in Rid /\ Posted(r)
    BY <1>2 DEF OnceInv, OutPost
  <2>2. \A u \in Uuids : \A r \in outbox'[u] : Posted(r)'
    BY <1>1, <2>1
  <2> QED
    BY <2>2 DEF OutPost
<1>7. ArgKinds'
  BY <1>1 DEF OnceInv, ArgKinds, Fit
<1>8. \A r \in Rid : Posted(r)' => \E q : Within(r, q)'
  OBVIOUS
<1>9. restored' => saver' = "saved"
  BY DEF OnceInv, saveVars
<1> QED
  BY <1>4, <1>5, <1>6, <1>7, <1>8, <1>9 DEF OnceInv

LEMMA TidySame ==
    ASSUME OnceInv, UNCHANGED <<inbox, to>>
    PROVE  Tidy(inbox)'
  BY DEF OnceInv, Tidy

LEMMA OnceRests ==
    ASSUME CkptInv, OnceInv, NEW c \in Conns, Effect(c), UNCHANGED saveVars,
           UNCHANGED <<inbox, from, to>>, Fit(c)',
           \A u \in Uuids : outbox'[u] \subseteq outbox[u],
           \A r \in Rid : Posted(r) => Rests(c, r)
    PROVE  OnceInv'
<1>1. \A r \in Rid : Posted(r) => Frame(c, r)
  BY FrameOf
<1>2. ASSUME NEW r \in Rid, Posted(r) PROVE \E q : Within(r, q)'
  <2>1. PICK p : Within(r, p)
    BY <1>2 DEF OnceInv
  <2>2. Within(r, p)'
    BY <1>1, <1>2, <2>1, RestsWithin
  <2> QED
    BY <2>2
<1>3. \A r \in Rid : Posted(r)' => Posted(r)
  BY DEF Posted
<1> QED
  BY <1>2, <1>3, TidySame, OnceStep

LEMMA OnceIdle ==
    ASSUME CkptInv, OnceInv, NEW c \in Conns, Effect(c), UNCHANGED saveVars,
           UNCHANGED <<inbox, outbox, from, to, got>>, Empty(c)', Fit(c)'
    PROVE  OnceInv'
<1>1. \A r \in Rid : Posted(r) => Rests(c, r)
  BY FrameOf, IdleRests
<1> QED
  BY <1>1, OnceRests

LEMMA QuietOnce ==
    ASSUME CkptInv, OnceInv, NEW c \in Conns, Effect(c), UNCHANGED saveVars,
           \/ Connect(c) \/ AstrayResumes(c) \/ NoCipher(c) \/ SendFail(c)
           \/ StartHandler(c) \/ EndOfStream(c) \/ BadFrame(c) \/ Orphan(c) \/ BadPacket(c)
           \/ Refused(c) \/ Bye(c) \/ Query(c) \/ Malformed(c) \/ GetInboxWait(c)
           \/ \E k \in Keys : Register(c, k) \/ Unregister(c, k)
           \/ \E target \in Uuids : PutInboxGone(c, target)
           \/ \E r \in Rid : GetOutboxWait(c, r)
    PROVE  OnceInv'
<1>1. UNCHANGED <<inbox, outbox, from, to, got>>
  BY DEF Connect, AcceptLogin, AcceptStale, AcceptRelogin, Seat, AstrayResumes, NoCipher, SendFail,
         StartHandler, EndOfStream, BadFrame, Orphan, BadPacket, Refused, Bye, Query, Malformed, GetInboxWait,
         Register, Unregister, PutInboxGone, GetOutboxWait, mailVars
<1>2. pc \in [Conns -> Places \cup {"astray"}] /\ arg \in [Conns -> Items \cup {Nothing}]
  BY DEF CkptInv, CkptDesk, CkptTypes
<1>3. \/ pc'[c] \notin {"sending", "sendlock", "putwait", "refusing"}
      \/ arg'[c] = Nothing /\ pc'[c] # "putwait"
  <2>1. CASE Connect(c) \/ StartHandler(c) \/ Refused(c) \/ Bye(c) \/ GetInboxWait(c)
             \/ \E r \in Rid : GetOutboxWait(c, r)
    <3>1. \E x \in {"accepting", "idle", "ended", "getting", "getwait"} : pc' = [pc EXCEPT ![c] = x]
      BY <2>1 DEF Connect, AcceptLogin, AcceptStale, AcceptRelogin, StartHandler, Refused, Bye,
                  GetInboxWait, GetOutboxWait, Goto
    <3> QED
      BY <1>2, <3>1
  <2>2. CASE ~(Connect(c) \/ StartHandler(c) \/ Refused(c) \/ Bye(c) \/ GetInboxWait(c)
               \/ \E r \in Rid : GetOutboxWait(c, r))
    <3>1. /\ arg' = [arg EXCEPT ![c] = Nothing]
          /\ \E x \in {"sending", "crashed", "refusing", "idle"} : pc' = [pc EXCEPT ![c] = x]
      BY <2>2 DEF AstrayResumes, NoCipher, SendFail, EndOfStream, BadFrame, Orphan, BadPacket, Query, Malformed,
                  Register, Unregister, PutInboxGone, Reply, Crash, Goto
    <3> QED
      BY <1>2, <3>1
  <2> QED
    BY <2>1, <2>2
<1>4. Empty(c)' /\ Fit(c)'
  BY <1>3 DEF Empty, Fit
<1> QED
  BY <1>1, <1>4, OnceIdle

LEMMA SendOnce ==
    ASSUME CkptInv, OnceInv, NEW c \in Conns, Effect(c), UNCHANGED saveVars,
           SendDone(c) \/ SendOrphan(c)
    PROVE  OnceInv'
<1>0. /\ who[c] \in Uuids /\ pc[c] \in {"sending", "sendlock", "refusing"}
      /\ UNCHANGED <<inbox, outbox, from, to>>
  BY DEF SendDone, SendOrphan, CkptInv, CkptDesk, Seated
<1>1. PICK p \in {"idle", "crashed"} :
         arg' = [arg EXCEPT ![c] = Nothing] /\ pc' = [pc EXCEPT ![c] = p]
  BY DEF SendDone, SendOrphan, Crash, Goto
<1>2. pc'[c] = p
  BY <1>1 DEF CkptInv, CkptDesk, CkptTypes
<1>3. Empty(c)' /\ Fit(c)'
  BY <1>2 DEF Empty, Fit
<1>4. CASE got' = got
  BY <1>0, <1>3, <1>4, OnceIdle
<1>5. CASE arg[c] # Nothing /\ got' = [got EXCEPT ![who[c]] = @ \cup {arg[c]}]
  <2>1. pc[c] \in {"sending", "sendlock"}
    BY <1>0, <1>5 DEF OnceInv, ArgKinds
  <2>2. ASSUME NEW r \in Rid, Posted(r) PROVE \E q : Within(r, q)'
    <3>1. PICK x : Within(r, x)
      BY <2>2 DEF OnceInv
    <3>2. Frame(c, r)
      BY <2>2, FrameOf
    <3> QED
      BY <1>0, <1>3, <1>5, <2>1, <3>1, <3>2, HandWithin
  <2>3. \A r \in Rid : Posted(r)' => Posted(r)
    BY <1>0 DEF Posted
  <2> QED
    BY <1>0, <1>3, <2>2, <2>3, TidySame, OnceStep
<1> QED
  BY <1>4, <1>5 DEF SendDone, SendOrphan

LEMMA TakeOnce ==
    ASSUME CkptInv, OnceInv, NEW c \in Conns, Effect(c), UNCHANGED saveVars,
           GetInbox(c) \/ Take(c)
    PROVE  OnceInv'
<1>0. /\ who[c] \in Uuids /\ pc[c] \in {"idle", "getting"}
      /\ inbox[who[c]] # <<>>
      /\ inbox' = [inbox EXCEPT ![who[c]] = Tail(@)]
      /\ UNCHANGED <<who, outbox, lockq, from, to, got>>
  BY DEF GetInbox, Take, TakeHead, Packet, CkptInv, CkptDesk, Seated
<1>1. PICK x \in {HeadRequest(c), Nothing}, p \in {"sending", "crashed"} :
         arg' = [arg EXCEPT ![c] = x] /\ pc' = [pc EXCEPT ![c] = p]
  BY ReplyCarries DEF GetInbox, Take, Crash, Goto
<1>2. pc'[c] = p /\ arg'[c] = x /\ inbox \in [Uuids -> Seq(Rid)]
  BY <1>1 DEF CkptInv, CkptDesk, CkptTypes
<1>3. Fit(c)' /\ (Empty(c)' \/ (pc'[c] = "sending" /\ arg'[c] = HeadRequest(c)))
  BY <1>2 DEF Fit, Empty
<1>4. Tidy(inbox)'
  <2> SUFFICES ASSUME NEW u \in Uuids
               PROVE  /\ \A i \in 1 .. Len(inbox'[u]) : to[inbox'[u][i]] = u
                      /\ \A i, j \in 1 .. Len(inbox'[u]) : inbox'[u][i] = inbox'[u][j] => i = j
    BY <1>0 DEF Tidy
  <2>1. PICK l : l = inbox[u]
    OBVIOUS
  <2>2. /\ l \in Seq(Rid)
        /\ \A i \in 1 .. Len(l) : to[l[i]] = u
        /\ \A i, j \in 1 .. Len(l) : l[i] = l[j] => i = j
    BY <1>2, <2>1 DEF OnceInv, Tidy
  <2>3. CASE u # who[c]
    <3>1. inbox'[u] = l
      BY <1>0, <1>2, <2>1, <2>3
    <3> QED
      BY <2>2, <3>1
  <2>4. CASE u = who[c]
    <3>1. PICK t : t = Tail(l)
      OBVIOUS
    <3>2. l # <<>> /\ inbox'[u] = t
      BY <1>0, <1>2, <2>1, <2>4, <3>1
    <3>3. /\ Len(l) \in Nat \ {0} /\ Len(t) = Len(l) - 1
          /\ \A i \in 1 .. Len(l) - 1 : t[i] = l[i + 1]
      BY <2>2, <3>1, <3>2, TailLine
    <3>4. \A i \in 1 .. Len(t) : i + 1 \in 1 .. Len(l) /\ t[i] = l[i + 1]
      BY <3>3
    <3>5. ASSUME NEW i \in 1 .. Len(t), NEW j \in 1 .. Len(t), t[i] = t[j] PROVE i = j
      <4>1. i + 1 = j + 1
        BY <2>2, <3>4, <3>5
      <4> QED
        BY <4>1
    <3>6. \A i \in 1 .. Len(t) : to[t[i]] = u
      BY <2>2, <3>4
    <3> QED
      BY <3>2, <3>5, <3>6
  <2> QED
    BY <2>3, <2>4
<1>5. ASSUME NEW r \in Rid, Posted(r) PROVE \E q : Within(r, q)'
  <2>1. PICK z : Within(r, z)
    BY <1>5 DEF OnceInv
  <2>2. Frame(c, r) /\ Tidy(inbox)
    BY <1>5, FrameOf DEF OnceInv
  <2> QED
    BY <1>0, <1>3, <2>1, <2>2, TakeWithin
<1>6. \A r \in Rid : Posted(r)' => Posted(r)
  BY <1>0 DEF Posted
<1> QED
  BY <1>0, <1>3, <1>4, <1>5, <1>6, OnceStep

LEMMA PostOnce ==
    ASSUME CkptInv, OnceInv, NEW c \in Conns, Effect(c), UNCHANGED saveVars,
           NEW o \in Rid, NEW target \in Uuids, PutInbox(c, o, target)
    PROVE  OnceInv'
<1>0. /\ pc' = [pc EXCEPT ![c] = "sending"]
      /\ inbox' = [inbox EXCEPT ![target] = Append(@, o)]
      /\ from' = [from EXCEPT ![o] = who[c]]
      /\ to' = [to EXCEPT ![o] = target]
      /\ to[o] = Nobody
      /\ UNCHANGED <<outbox, got>>
  BY ReplyCarries DEF PutInbox, Issued
<1>1. PICK x \in {<<o, "ticket">>, Nothing} : arg' = [arg EXCEPT ![c] = x]
  BY ReplyCarries DEF PutInbox
<1>2. CkptTypes /\ InPost(inbox)
  BY DEF CkptInv, CkptDesk
<1>3. pc'[c] = "sending" /\ arg'[c] = x /\ inbox \in [Uuids -> Seq(Rid)] /\ to'[o] = target
  BY <1>0, <1>1, <1>2 DEF CkptTypes
<1>4. Empty(c)' /\ Fit(c)' /\ ~Posted(o)
  BY <1>0, <1>3, NobodyAssumption DEF Empty, Fit, Posted
<1>5. /\ \A r \in Rid : Posted(r) => Frame(c, r) /\ Posted(r)' /\ from'[r] = from[r]
      /\ \A d \in Conns \ {c} : pc'[d] = pc[d] /\ arg'[d] = arg[d]
  BY FrameOf
<1>6. /\ \E q : Within(o, q)'
      /\ \A r \in Rid \ {o} : Posted(r) => Frame(c, r) /\ Rests(c, r)
  BY <1>0, <1>4, <1>5, PostWithin DEF OnceInv
<1>7. ASSUME NEW r \in Rid, Posted(r) PROVE \E q : Within(r, q)'
  <2>1. r # o
    BY <1>4, <1>7
  <2>2. PICK p : Within(r, p)
    BY <1>7 DEF OnceInv
  <2>3. Within(r, p)'
    BY <1>6, <1>7, <2>1, <2>2, RestsWithin
  <2> QED
    BY <2>3
<1>8. \A r \in Rid : Posted(r)' => Posted(r) \/ \E q : Within(r, q)'
  <2>1. \A r \in Rid \ {o} : Posted(r)' => Posted(r)
    BY <1>0, <1>2 DEF Posted, CkptTypes
  <2> QED
    BY <1>6, <2>1
<1>9. Tidy(inbox)'
  <2> SUFFICES ASSUME NEW u \in Uuids
               PROVE  /\ \A i \in 1 .. Len(inbox'[u]) : to'[inbox'[u][i]] = u
                      /\ \A i, j \in 1 .. Len(inbox'[u]) : inbox'[u][i] = inbox'[u][j] => i = j
    BY DEF Tidy
  <2>1. PICK l : l = inbox[u]
    OBVIOUS
  <2>2. PICK n \in Nat : n = Len(l)
    BY <1>3, <2>1
  <2>3. /\ l \in Seq(Rid)
        /\ \A i \in 1 .. n : to[l[i]] = u /\ l[i] \in Rid /\ Posted(l[i])
        /\ \A i, j \in 1 .. n : l[i] = l[j] => i = j
    <3>1. l \in Seq(Rid)
      BY <1>3, <2>1
    <3>2. /\ \A i \in 1 .. n : to[l[i]] = u
          /\ \A i, j \in 1 .. n : l[i] = l[j] => i = j
      BY <2>1, <2>2 DEF OnceInv, Tidy
    <3>3. \A i \in 1 .. n : Posted(l[i])
      BY <1>2, <2>1, <2>2 DEF InPost
    <3>4. \A i \in 1 .. n : l[i] \in Rid
      BY <2>2, <3>1
    <3> QED
      BY <3>1, <3>2, <3>3, <3>4
  <2>4. \A i \in 1 .. n : to'[l[i]] = u /\ l[i] # o
    BY <1>4, <1>5, <2>3 DEF Frame
  <2>5. CASE u # target
    <3>1. inbox'[u] = l
      BY <1>0, <1>3, <2>1, <2>5
    <3> QED
      BY <2>2, <2>3, <2>4, <3>1
  <2>6. CASE u = target
    <3>1. PICK m : m = inbox'[u]
      OBVIOUS
    <3>2. m = Append(l, o)
      BY <1>0, <1>3, <2>1, <2>6, <3>1
    <3>3. Len(m) = n + 1 /\ m[n + 1] = o /\ \A j \in 1 .. n : m[j] = l[j]
      BY <2>2, <2>3, <3>2, AppendLine
    <3>4. \A i \in 1 .. n + 1 : i = n + 1 \/ i \in 1 .. n
      BY <2>2
    <3>5. \A i \in 1 .. n + 1 : to'[m[i]] = u
      BY <1>3, <2>4, <2>6, <3>3, <3>4
    <3>6. ASSUME NEW i \in 1 .. n + 1, NEW j \in 1 .. n + 1, m[i] = m[j] PROVE i = j
      <4>1. CASE i \in 1 .. n /\ j \in 1 .. n
        BY <2>3, <3>3, <3>6, <4>1
      <4>2. CASE i = n + 1 /\ j \in 1 .. n
        BY <2>4, <3>3, <3>6, <4>2
      <4>3. CASE i \in 1 .. n /\ j = n + 1
        BY <2>4, <3>3, <3>6, <4>3
      <4> QED
        BY <3>4, <4>1, <4>2, <4>3
    <3> QED
      BY <3>1, <3>3, <3>5, <3>6
  <2> QED
    BY <2>5, <2>6
<1> QED
  BY <1>0, <1>4, <1>7, <1>8, <1>9, OnceStep

LEMMA AnswerOnce ==
    ASSUME CkptInv, OnceInv, NEW c \in Conns, Effect(c), UNCHANGED saveVars, NEW o \in Rid,
           PutOutbox(c, o) \/ PutOutboxWait(c, o) \/ PutOutboxGone(c, o)
    PROVE  OnceInv'
<1>0. /\ who[c] \in Uuids /\ <<o, "request">> \in got[who[c]]
      /\ got' = [got EXCEPT ![who[c]] = @ \ {<<o, "request">>}]
      /\ UNCHANGED <<inbox, from, to>>
  BY DEF PutOutbox, PutOutboxWait, PutOutboxGone, Answers, Packet, CkptInv, CkptDesk, Seated
<1>1. /\ pc \in [Conns -> Places \cup {"astray"}] /\ arg \in [Conns -> Items \cup {Nothing}]
      /\ got \in [Uuids -> SUBSET Items] /\ outbox \in [Uuids -> SUBSET Rid] /\ Posted(o)
  BY <1>0 DEF CkptInv, CkptDesk, CkptTypes, Known
<1>2. \/ Empty(c)'
      \/ pc'[c] = "putwait" /\ arg'[c] = <<o, "answer">> /\ \A u \in Uuids : outbox'[u] = outbox[u]
  <2>1. CASE PutOutbox(c, o) \/ PutOutboxGone(c, o)
    <3>1. arg' = [arg EXCEPT ![c] = Nothing]
      BY <2>1, ReplyCarries DEF PutOutbox, PutOutboxGone, Crash
    <3> QED
      BY <1>1, <3>1 DEF Empty
  <2>2. CASE PutOutboxWait(c, o)
    BY <1>1, <2>2 DEF PutOutboxWait, Goto
  <2> QED
    BY <2>1, <2>2
<1>3. Fit(c)'
  <2>1. CASE PutOutbox(c, o) \/ PutOutboxGone(c, o)
    <3>1. /\ arg' = [arg EXCEPT ![c] = Nothing]
          /\ pc' = [pc EXCEPT ![c] = "sending"] \/ pc' = [pc EXCEPT ![c] = "crashed"]
      BY <2>1, ReplyCarries DEF PutOutbox, PutOutboxGone, Crash, Goto
    <3> QED
      BY <1>1, <3>1 DEF Fit
  <2>2. CASE PutOutboxWait(c, o)
    BY <1>1, <2>2 DEF PutOutboxWait, Goto, Fit
  <2> QED
    BY <2>1, <2>2
<1>4. \A u \in Uuids : outbox'[u] \subseteq outbox[u] \cup {o}
  <2>1. outbox' = outbox \/ outbox' = [outbox EXCEPT ![from[o]] = @ \cup {o}]
    BY DEF PutOutbox, PutOutboxWait, PutOutboxGone
  <2> QED
    BY <1>1, <2>1
<1>5. \A u \in Uuids : got'[u] \subseteq got[u]
  BY <1>0, <1>1
<1>6. ASSUME NEW r \in Rid, Posted(r) PROVE \E q : Within(r, q)'
  <2>1. PICK p : Within(r, p)
    BY <1>6 DEF OnceInv
  <2>2. Frame(c, r)
    BY <1>6, FrameOf
  <2>3. r = o => p = <<"client", who[c]>> /\ \A u \in Uuids : <<o, "request">> \in got[u] => u = who[c]
    BY <1>0, <2>1 DEF Within
  <2>4. \A u \in Uuids : <<o, "request">> \notin got'[u] \/ r # o
    BY <1>0, <1>1, <2>3
  <2> QED
    BY <1>0, <1>2, <1>4, <1>5, <2>1, <2>2, <2>3, <2>4, AnsweredWithin
<1>7. \A r \in Rid : Posted(r)' => Posted(r)
  BY <1>0 DEF Posted
<1> QED
  BY <1>0, <1>1, <1>3, <1>4, <1>6, <1>7, TidySame, OnceStep

LEMMA PutOnce ==
    ASSUME CkptInv, OnceInv, NEW c \in Conns, Effect(c), UNCHANGED saveVars, PutOutboxLocked(c)
    PROVE  OnceInv'
<1>0. PICK o : o = arg[c][1]
  OBVIOUS
<1>1. /\ pc[c] = "putwait" /\ arg[c] # Nothing /\ arg[c][2] = "answer"
      /\ outbox' = [outbox EXCEPT ![from[o]] = @ \cup {o}]
      /\ UNCHANGED <<inbox, from, to, got>>
  BY <1>0 DEF PutOutboxLocked, CkptInv, CkptDesk, Known, OnceInv, ArgKinds
<1>2. PICK x \in {"sending", "crashed"} :
         arg' = [arg EXCEPT ![c] = Nothing] /\ pc' = [pc EXCEPT ![c] = x]
  BY ReplyCarries DEF PutOutboxLocked, Crash, Goto
<1>3. /\ pc \in [Conns -> Places \cup {"astray"}] /\ arg \in [Conns -> Items \cup {Nothing}]
      /\ outbox \in [Uuids -> SUBSET Rid] /\ got \in [Uuids -> SUBSET Items]
      /\ o \in Rid /\ Posted(o)
  BY <1>0, <1>1, ItemsAre DEF CkptInv, CkptDesk, CkptTypes, Known
<1>4. c \in Waiting(o)
  <2>1. arg[c] \in Items
    BY <1>1, <1>3
  <2>2. arg[c] = <<o, "answer">>
    BY <1>0, <1>1, <2>1 DEF Items
  <2> QED
    BY <1>1, <2>2 DEF Waiting
<1>5. pc'[c] = x /\ arg'[c] = Nothing
  BY <1>2, <1>3
<1>6. Empty(c)' /\ Fit(c)'
  BY <1>5 DEF Empty, Fit
<1>7. \A u \in Uuids : outbox'[u] \subseteq outbox[u] \cup {o}
  BY <1>1, <1>3
<1>8. ASSUME NEW r \in Rid, Posted(r) PROVE \E q : Within(r, q)'
  <2>1. PICK p : Within(r, p)
    BY <1>8 DEF OnceInv
  <2>2. Frame(c, r)
    BY <1>8, FrameOf
  <2>3. r = o => p = <<"answering", c>> /\ \A u \in Uuids : <<o, "request">> \notin got[u]
    BY <1>4, <2>1 DEF Within
  <2>4. \A u \in Uuids : <<o, "request">> \notin got'[u] \/ r # o
    BY <1>1, <2>3
  <2>5. \A u \in Uuids : got'[u] \subseteq got[u]
    BY <1>1
  <2> QED
    BY <1>1, <1>3, <1>4, <1>6, <1>7, <2>1, <2>2, <2>3, <2>4, <2>5, AnsweredWithin
<1>9. \A r \in Rid : Posted(r)' => Posted(r)
  BY <1>1 DEF Posted
<1> QED
  BY <1>1, <1>3, <1>6, <1>7, <1>8, <1>9, TidySame, OnceStep

LEMMA FetchOnce ==
    ASSUME CkptInv, OnceInv, NEW c \in Conns, Effect(c), UNCHANGED saveVars,
           GetOutboxLocked(c) \/ \E o \in Rid : GetOutbox(c, o)
    PROVE  OnceInv'
<1>1. /\ pc \in [Conns -> Places \cup {"astray"}] /\ arg \in [Conns -> Items \cup {Nothing}]
      /\ outbox \in [Uuids -> SUBSET Rid]
  BY DEF CkptInv, CkptDesk, CkptTypes
<1>2. PICK o \in Rid : \/ GetOutbox(c, o)
                       \/ GetOutboxLocked(c) /\ o = arg[c][1]
  <2>1. CASE GetOutboxLocked(c)
    <3>1. arg[c] \in Items
      BY <1>1, <2>1 DEF GetOutboxLocked, CkptInv, CkptDesk, Known
    <3> QED
      BY <2>1, <3>1, ItemsAre
  <2> QED
    BY <2>1
<1>3. /\ who[c] \in Uuids /\ UNCHANGED <<inbox, from, to, got>>
      /\ outbox' = [outbox EXCEPT ![who[c]] = @ \ {o}]
  BY <1>2 DEF GetOutbox, GetOutboxLocked, Fetch, Packet, CkptInv, CkptDesk, Seated
<1>4. \/ Crash(c)
      \/ Reply(c, IF o \in outbox[who[c]] THEN <<o, "answer">> ELSE Nothing, "sendlock")
  BY <1>2 DEF GetOutbox, GetOutboxLocked, Fetch
<1>5. /\ pc'[c] = "crashed" \/ pc'[c] = "sendlock"
      /\ arg'[c] = Nothing \/ (pc'[c] = "sendlock" /\ arg'[c] = <<o, "answer">> /\ o \in outbox[who[c]])
  BY <1>1, <1>4 DEF Crash, Goto, Reply
<1>6. /\ Fit(c)'
      /\ Empty(c)' \/ (pc'[c] = "sendlock" /\ arg'[c] = <<o, "answer">> /\ o \in outbox[who[c]])
  BY <1>5 DEF Fit, Empty
<1>7. \A u \in Uuids : outbox'[u] \subseteq outbox[u]
  BY <1>1, <1>3
<1>8. \A r \in Rid : Posted(r) => Rests(c, r)
  BY <1>3, <1>6, <1>7, FrameOf, FetchRests
<1> QED
  BY <1>3, <1>6, <1>7, <1>8, OnceRests

LEMMA OnceSame ==
    ASSUME OnceInv, UNCHANGED <<pc, arg, inbox, outbox, from, to, got, saveVars>>
    PROVE  OnceInv'
<1>1. /\ Tidy(inbox)' /\ Tidy(snap.inbox)' /\ OutPost(outbox)' /\ OutPost(snap.outbox)' /\ ArgKinds'
  BY DEF OnceInv, Tidy, OutPost, ArgKinds, Posted, saveVars
<1>2. ASSUME NEW r \in Rid, NEW p, Within(r, p) PROVE Within(r, p)'
  <2>1. /\ InBox(r)' = InBox(r) /\ Kept(r)' = Kept(r) /\ Waiting(r)' = Waiting(r)
        /\ Answered(r)' = Answered(r)
    BY DEF InBox, Kept, Waiting, Answered, Saved, Sending, saveVars
  <2>2. \A c \in Conns : Sending(c, r, "request")' <=> Sending(c, r, "request")
    BY DEF Sending
  <2> QED
    BY <1>2, <2>1, <2>2 DEF Within
<1>3. ASSUME NEW r \in Rid, Posted(r)' PROVE \E p : Within(r, p)'
  <2>1. PICK p : Within(r, p)
    BY <1>3 DEF OnceInv, Posted
  <2> QED
    BY <1>2, <2>1
<1>4. restored' => saver' = "saved"
  BY DEF OnceInv, saveVars
<1> QED
  BY <1>1, <1>3, <1>4 DEF OnceInv

LEMMA HandleOnce ==
    ASSUME CkptInv, OnceInv, NEW c \in Conns, Handle(c)
    PROVE  OnceInv'
<1>1. UNCHANGED saveVars
  BY DEF Handle
<1>2. CASE Disconnect(c)
  BY <1>1, <1>2, OnceSame DEF Disconnect, mailVars
<1>3. CASE Effect(c)
  <2>1. CASE Proceed(c)
    BY <1>1, <1>3, <2>1, QuietOnce, SendOnce, TakeOnce, PutOnce, FetchOnce DEF Proceed
  <2>2. CASE Connect(c) \/ BadFrame(c) \/ AstrayResumes(c) \/ NoCipher(c)
    BY <1>1, <1>3, <2>2, QuietOnce
  <2>3. CASE ServeSealed(c)
    <3>1. Serve(c)
      BY <2>3 DEF ServeSealed
    <3>2. CASE \/ Query(c) \/ Malformed(c) \/ GetInboxWait(c) \/ Bye(c) \/ BadPacket(c) \/ BadFrame(c) \/ Orphan(c)
               \/ \E k \in Keys : Register(c, k) \/ Unregister(c, k)
               \/ \E target \in Uuids : PutInboxGone(c, target)
      BY <1>1, <1>3, <3>2, QuietOnce
    <3>3. CASE GetInbox(c)
      BY <1>1, <1>3, <3>3, TakeOnce
    <3>4. ASSUME NEW target \in Uuids, NEW r \in Rid, PutInbox(c, r, target) PROVE OnceInv'
      BY <1>1, <1>3, <3>4, PostOnce
    <3>5. ASSUME NEW r \in Rid, PutOutbox(c, r) \/ PutOutboxWait(c, r) \/ PutOutboxGone(c, r)
          PROVE  OnceInv'
      BY <1>1, <1>3, <3>5, AnswerOnce
    <3>6. ASSUME NEW r \in Rid, GetOutbox(c, r) PROVE OnceInv'
      BY <1>1, <1>3, <3>6, FetchOnce
    <3>7. ASSUME NEW r \in Rid, GetOutboxWait(c, r) PROVE OnceInv'
      BY <1>1, <1>3, <3>7, QuietOnce
    <3> QED
      BY <3>1, <3>2, <3>3, <3>4, <3>5, <3>6, <3>7 DEF Serve
  <2>4. CASE Disconnect(c)
    BY <1>2, <2>4
  <2> QED
    BY <2>1, <2>2, <2>3, <2>4 DEF Handle
<1> QED
  BY <1>2, <1>3, HandleIs

-----------------------------------------------------------------------------
(* serialize takes a request from an inbox to the checkpoint; and what is  *)
(* in an outbox, when it copies it, is answered.                           *)

LEMMA WrittenOnce ==
    ASSUME CkptInv, OnceInv, NEW s \in Snapshots, NEW S \in SUBSET Uuids,
           Tidy(s.inbox), OutPost(s.outbox),
           \A u \in s.sessions : /\ u \notin S /\ Saved(u) /\ s.inbox[u] = snap.inbox[u]
                                 /\ s.outbox[u] \in {snap.outbox[u], outbox[u]},
           snap' = Written(s, S), Drain(S), ~restored', UNCHANGED <<pc, arg, outbox, from, to, got>>
    PROVE  OnceInv'
<1>1. s.sessions \in SUBSET Uuids /\ outbox \in [Uuids -> SUBSET Rid] /\ inbox \in [Uuids -> Seq(Rid)]
  BY DEF Snapshots, CkptInv, CkptDesk, CkptTypes
<1>2. /\ snap'.sessions = s.sessions \cup S
      /\ snap'.inbox = [u \in Uuids |-> IF u \in S THEN inbox[u] ELSE s.inbox[u]]
      /\ snap'.outbox = [u \in Uuids |-> IF u \in S THEN outbox[u] ELSE s.outbox[u]]
      /\ inbox' = [u \in Uuids |-> IF u \in S THEN <<>> ELSE inbox[u]]
  BY DEF Written, Snapshots, Drain
<1>3. Len(<<>>) = 0
  OBVIOUS
<1>4. Tidy(inbox)'
  <2> SUFFICES ASSUME NEW u \in Uuids
               PROVE  /\ \A i \in 1 .. Len(inbox'[u]) : to[inbox'[u][i]] = u
                      /\ \A i, j \in 1 .. Len(inbox'[u]) : inbox'[u][i] = inbox'[u][j] => i = j
    BY DEF Tidy
  <2>1. CASE u \in S
    <3>1. inbox'[u] = <<>>
      BY <1>2, <2>1
    <3> QED
      BY <1>3, <3>1
  <2>2. CASE u \notin S
    <3>1. inbox'[u] = inbox[u]
      BY <1>2, <2>2
    <3> QED
      BY <3>1 DEF OnceInv, Tidy
  <2> QED
    BY <2>1, <2>2
<1>5. Tidy(snap.inbox)'
  <2> SUFFICES ASSUME NEW u \in Uuids
               PROVE  /\ \A i \in 1 .. Len(snap'.inbox[u]) : to[snap'.inbox[u][i]] = u
                      /\ \A i, j \in 1 .. Len(snap'.inbox[u]) :
                           snap'.inbox[u][i] = snap'.inbox[u][j] => i = j
    BY DEF Tidy
  <2>1. CASE u \in S
    <3>1. snap'.inbox[u] = inbox[u]
      BY <1>2, <2>1
    <3> QED
      BY <3>1 DEF OnceInv, Tidy
  <2>2. CASE u \notin S
    <3>1. snap'.inbox[u] = s.inbox[u]
      BY <1>2, <2>2
    <3> QED
      BY <3>1 DEF Tidy
  <2> QED
    BY <2>1, <2>2
<1>6. OutPost(outbox)' /\ OutPost(snap.outbox)'
  <2>1. \A r : Posted(r)' <=> Posted(r)
    BY DEF Posted
  <2>2. \A u \in Uuids : \A r \in outbox[u] : Posted(r)
    BY DEF OnceInv, OutPost
  <2>3. \A u \in Uuids : \A r \in snap'.outbox[u] : Posted(r)
    BY <1>2, <2>2 DEF OutPost
  <2> QED
    BY <2>1, <2>2, <2>3 DEF OutPost
<1>7. ArgKinds' /\ (restored' => saver' = "saved")
  BY DEF OnceInv, ArgKinds
<1>8. ASSUME NEW r \in Rid, Posted(r) PROVE \E q : Within(r, q)'
  <2>1. PICK p : Within(r, p)
    BY <1>8 DEF OnceInv
  <2>2. to[r] \in Uuids /\ to'[r] = to[r]
    BY <1>8 DEF Posted
  <2>3. /\ \A c \in Conns : Sending(c, r, "request")' <=> Sending(c, r, "request")
        /\ \A c \in Conns : Sending(c, r, "answer")' <=> Sending(c, r, "answer")
        /\ Waiting(r)' = Waiting(r)
    BY DEF Sending, Waiting
  <2>4. Answered(r)' => Answered(r)
    <3>1. ASSUME NEW u \in Uuids, Saved(u)', r \in snap'.outbox[u] PROVE Answered(r)
      <4>1. CASE u \in S
        BY <1>2, <3>1, <4>1 DEF Answered
      <4>2. CASE u \notin S
        <5>1. u \in s.sessions /\ r \in s.outbox[u]
          BY <1>2, <3>1, <4>2 DEF Saved
        <5>2. Saved(u) /\ (r \in snap.outbox[u] \/ r \in outbox[u])
          BY <5>1
        <5> QED
          BY <5>2 DEF Answered
      <4> QED
        BY <4>1, <4>2
    <3> QED
      BY <2>3, <3>1 DEF Answered
  <2>5. InBox(r)' => InBox(r) /\ to[r] \notin S
    <3>1. CASE to[r] \in S
      <4>1. inbox'[to'[r]] = <<>>
        BY <1>2, <2>2, <3>1
      <4> QED
        BY <1>3, <4>1 DEF InBox
    <3>2. CASE to[r] \notin S
      <4>1. inbox'[to'[r]] = inbox[to[r]]
        BY <1>2, <2>2, <3>2
      <4> QED
        BY <3>2, <4>1 DEF InBox
    <3> QED
      BY <3>1, <3>2
  <2>6. Kept(r)' => (InBox(r) /\ to[r] \in S) \/ Kept(r)
    <3>1. CASE to[r] \in S
      <4>1. snap'.inbox[to'[r]] = inbox[to[r]]
        BY <1>2, <2>2, <3>1
      <4> QED
        BY <3>1, <4>1 DEF Kept, InBox
    <3>2. CASE to[r] \notin S
      <4>1. snap'.inbox[to'[r]] = s.inbox[to[r]]
        BY <1>2, <2>2, <3>2
      <4>2. Kept(r)' => to[r] \in s.sessions
        BY <1>2, <2>2, <3>2 DEF Kept, Saved
      <4>3. Kept(r)' => Saved(to[r]) /\ s.inbox[to[r]] = snap.inbox[to[r]]
        BY <4>2
      <4> QED
        BY <4>1, <4>3 DEF Kept
    <3> QED
      BY <3>1, <3>2
  <2>7. CASE InBox(r) /\ to[r] \in S
    <3>1. ~Answered(r) /\ Waiting(r) = {}
          /\ (\A d \in Conns : ~Sending(d, r, "request"))
          /\ (\A u \in Uuids : <<r, "request">> \notin got[u])
      BY <2>1, <2>7 DEF Within
    <3>2. PICK q : q = <<"checkpoint", Nobody>>
      OBVIOUS
    <3>3. ~InBox(r)' /\ ~Answered(r)'
      BY <2>4, <2>5, <2>7, <3>1
    <3>4. Within(r, q)'
      BY <2>3, <3>1, <3>2, <3>3 DEF Within
    <3> QED
      BY <3>4
  <2>8. CASE ~(InBox(r) /\ to[r] \in S)
    <3>1. Within(r, p)'
      BY <2>1, <2>3, <2>4, <2>5, <2>6, <2>8 DEF Within
    <3> QED
      BY <3>1
  <2> QED
    BY <2>7, <2>8
<1>9. \A r \in Rid : Posted(r)' => Posted(r)
  BY DEF Posted
<1> QED
  BY <1>4, <1>5, <1>6, <1>7, <1>8, <1>9 DEF OnceInv

LEMMA SweepOnce ==
    ASSUME CkptInv, OnceInv, NEW s \in Snapshots, Tidy(s.inbox), OutPost(s.outbox),
           \A u \in s.sessions : /\ Saved(u) /\ s.inbox[u] = snap.inbox[u]
                                 /\ s.outbox[u] \in {snap.outbox[u], outbox[u]},
           NEW q, Sweep(s, q), ~restored', UNCHANGED quietVars
    PROVE  OnceInv'
<1>1. UNCHANGED <<pc, arg, outbox, from, to, got>>
  BY DEF quietVars, deskVars
<1>2. sessions \subseteq Uuids
  BY DEF CkptInv, CkptDesk, CkptTypes, BookTypeOK
<1>3. PICK S : S \subseteq sessions \ s.sessions /\ snap' = Written(s, S) /\ Drain(S)
  <2>1. CASE snap' = Written(s, sessions \ s.sessions) /\ Drain(sessions \ s.sessions)
    BY <2>1
  <2>2. ASSUME NEW v \in sessions \ s.sessions, NEW T \in SUBSET (sessions \ s.sessions),
               snap' = Written(s, T \cup {v}), Drain(T \cup {v})
        PROVE  \E S : S \subseteq sessions \ s.sessions /\ snap' = Written(s, S) /\ Drain(S)
    <3>1. T \cup {v} \subseteq sessions \ s.sessions
      OBVIOUS
    <3> QED
      BY <2>2, <3>1
  <2>3. \/ snap' = Written(s, sessions \ s.sessions) /\ Drain(sessions \ s.sessions)
        \/ \E v \in sessions \ s.sessions, T \in SUBSET (sessions \ s.sessions) :
             snap' = Written(s, T \cup {v}) /\ Drain(T \cup {v})
    BY DEF Sweep
  <2> QED
    BY <2>1, <2>2, <2>3
<1>4. S \in SUBSET Uuids /\ \A u \in s.sessions : u \notin S
  BY <1>2, <1>3
<1> QED
  BY <1>1, <1>3, <1>4, WrittenOnce

LEMMA SerializeOnce ==
    ASSUME CkptInv, OnceInv, Serialize
    PROVE  OnceInv'
<1>1. Sweep(Blank, lockq) /\ UNCHANGED quietVars /\ ~restored'
  BY DEF Serialize
<1>2. PICK s, q : s = Blank /\ q = lockq
  OBVIOUS
<1>3. s \in Snapshots /\ s.inbox = inbox /\ s.outbox = outbox /\ s.sessions = {}
  BY <1>2 DEF CkptInv, CkptDesk, CkptTypes, BookTypeOK, Blank, Snapshots
<1>4. Tidy(s.inbox) /\ OutPost(s.outbox)
  BY <1>3 DEF OnceInv
<1> QED
  BY <1>1, <1>2, <1>3, <1>4, SweepOnce

LEMMA SaveLockedOnce ==
    ASSUME CkptInv, OnceInv, SaveLocked
    PROVE  OnceInv'
<1>1. PICK s, q : s = [snap EXCEPT !.outbox[at] = outbox[at]] /\ q = [lockq EXCEPT ![at] = Tail(@)]
  OBVIOUS
<1>2. /\ saver = "waiting" /\ UNCHANGED quietVars /\ restored' = restored
      /\ SizeChanged(s, q) \/ Sweep(s, q)
  BY <1>1 DEF SaveLocked
<1>3. ~restored /\ ~restored'
  BY <1>2 DEF OnceInv
<1>4. snap \in Snapshots /\ at \in Uuids /\ outbox \in [Uuids -> SUBSET Rid]
  BY <1>2 DEF CkptInv, CkptDesk, CkptTypes
<1>5. /\ s \in Snapshots /\ s.inbox = snap.inbox /\ s.sessions = snap.sessions
      /\ s.outbox = [snap.outbox EXCEPT ![at] = outbox[at]]
  BY <1>1, <1>4 DEF Snapshots
<1>6. snap.outbox \in [Uuids -> SUBSET Rid] /\ snap.sessions \in SUBSET Uuids
  BY <1>4 DEF Snapshots
<1>7. \A u \in Uuids : s.outbox[u] \in {snap.outbox[u], outbox[u]}
  BY <1>4, <1>5, <1>6
<1>8. Tidy(s.inbox) /\ OutPost(s.outbox)
  BY <1>5, <1>7 DEF OnceInv, OutPost
<1>9. \A u \in s.sessions : /\ Saved(u) /\ s.inbox[u] = snap.inbox[u]
                            /\ s.outbox[u] \in {snap.outbox[u], outbox[u]}
  BY <1>2, <1>3, <1>5, <1>6, <1>7 DEF Saved
<1>10. CASE Sweep(s, q)
  BY <1>2, <1>3, <1>5, <1>8, <1>9, <1>10, SweepOnce
<1>11. CASE SizeChanged(s, q)
  <2>1. UNCHANGED <<pc, arg, inbox, outbox, from, to, got>> /\ snap' = s
    BY <1>2, <1>11 DEF SizeChanged, quietVars, deskVars
  <2>2. inbox \in [Uuids -> Seq(Rid)]
    BY DEF CkptInv, CkptDesk, CkptTypes
  <2>3. PICK S : S = {}
    OBVIOUS
  <2>4. Drain(S)
    BY <2>1, <2>2, <2>3 DEF Drain
  <2>5. s = Written(s, S)
    <3>1. /\ s.owned \in [Uuids -> [Keys -> Nat]] /\ s.inbox \in [Uuids -> Seq(Rid)]
          /\ s.outbox \in [Uuids -> SUBSET Rid]
      BY <1>5 DEF Snapshots
    <3>2. PICK o, i, x :
            /\ o = [u \in Uuids |-> IF u \in S THEN owned[u] ELSE s.owned[u]]
            /\ i = [u \in Uuids |-> IF u \in S THEN inbox[u] ELSE s.inbox[u]]
            /\ x = [u \in Uuids |-> IF u \in S THEN outbox[u] ELSE s.outbox[u]]
      OBVIOUS
    <3>3. o = s.owned
      BY <2>3, <3>1, <3>2
    <3>4. i = s.inbox
      BY <2>3, <3>1, <3>2
    <3>5. x = s.outbox
      BY <2>3, <3>1, <3>2
    <3>6. Written(s, S) = [s EXCEPT !.sessions = s.sessions \cup S, !.owned = o, !.inbox = i, !.outbox = x]
      BY <1>5, <3>2 DEF Written, Snapshots
    <3>7. s.sessions \cup S = s.sessions
      BY <2>3
    <3>8. s = [s EXCEPT !.sessions = s.sessions, !.owned = s.owned, !.inbox = s.inbox, !.outbox = s.outbox]
      BY <1>5 DEF Snapshots
    <3> QED
      BY <3>3, <3>4, <3>5, <3>6, <3>7, <3>8
  <2>6. S \in SUBSET Uuids /\ \A u \in s.sessions : u \notin S
    BY <2>3
  <2> QED
    BY <1>3, <1>5, <1>8, <1>9, <2>1, <2>4, <2>5, <2>6, WrittenOnce
<1> QED
  BY <1>2, <1>10, <1>11

(* A restore takes it from the checkpoint to the inbox.                    *)
LEMMA RestoreOnce ==
    ASSUME CkptInv, OnceInv, Restart \/ RestoreLive
    PROVE  OnceInv'
<1>1. /\ Tables /\ saver = "saved" /\ saver' = saver /\ ~restored /\ restored' /\ snap' = snap
      /\ UNCHANGED <<from, to, got>>
  BY DEF Restart, RestoreLive, ApplyState
<1>2. /\ \A r : Posted(r)' <=> Posted(r)
      /\ \A u : Saved(u) <=> u \in snap.sessions
      /\ \A u : ~Saved(u)'
  BY <1>1 DEF Posted, Saved
<1>3. /\ inbox' = [u \in Uuids |-> IF u \in snap.sessions THEN snap.inbox[u] ELSE <<>>]
      /\ outbox' = [u \in Uuids |-> IF u \in snap.sessions THEN snap.outbox[u] ELSE {}]
  BY <1>1 DEF Tables
<1>4. \A c \in Conns : /\ pc'[c] = "refusing" => arg'[c] = Nothing
                       /\ pc'[c] \in {"sending", "sendlock"} =>
                            arg'[c] = Nothing \/ (arg'[c] = arg[c] /\ pc[c] \in {"sending", "sendlock"})
  <2>1. CASE Restart
    BY <2>1 DEF Restart
  <2>2. CASE RestoreLive
    BY <2>2 DEF RestoreLive, Holds, OnceInv, ArgKinds
  <2> QED
    BY <2>1, <2>2
<1>5. \A c \in Conns : pc'[c] # "putwait"
  <2>1. CASE Restart
    BY <2>1 DEF Restart
  <2>2. CASE RestoreLive
    BY <2>2 DEF RestoreLive, Holds
  <2> QED
    BY <2>1, <2>2
<1>6. ArgKinds'
  BY <1>4, <1>5 DEF ArgKinds
<1>7. Len(<<>>) = 0
  OBVIOUS
<1>8. Tidy(snap.inbox)' /\ OutPost(snap.outbox)'
  BY <1>1, <1>2 DEF OnceInv, Tidy, OutPost
<1>9. Tidy(inbox)'
  <2> SUFFICES ASSUME NEW u \in Uuids
               PROVE  /\ \A i \in 1 .. Len(inbox'[u]) : to'[inbox'[u][i]] = u
                      /\ \A i, j \in 1 .. Len(inbox'[u]) : inbox'[u][i] = inbox'[u][j] => i = j
    BY DEF Tidy
  <2>1. CASE u \in snap.sessions
    <3>1. inbox'[u] = snap.inbox[u]
      BY <1>3, <2>1
    <3> QED
      BY <1>1, <3>1 DEF OnceInv, Tidy
  <2>2. CASE u \notin snap.sessions
    <3>1. inbox'[u] = <<>>
      BY <1>3, <2>2
    <3> QED
      BY <1>7, <3>1
  <2> QED
    BY <2>1, <2>2
<1>10. OutPost(outbox)'
  <2>1. \A u \in Uuids : \A r \in outbox'[u] : r \in snap.outbox[u]
    BY <1>3
  <2> QED
    BY <1>2, <2>1 DEF OnceInv, OutPost
<1>11. ASSUME NEW r \in Rid, Posted(r) PROVE \E q : Within(r, q)'
  <2>1. PICK p : Within(r, p)
    BY <1>11 DEF OnceInv
  <2>2. to[r] \in Uuids /\ to'[r] = to[r]
    BY <1>1, <1>11 DEF Posted
  <2>3. /\ \A c \in Conns : Sending(c, r, "request")' => Sending(c, r, "request")
        /\ \A c \in Conns : Sending(c, r, "answer")' => Sending(c, r, "answer")
    <3>1. <<r, "request">> # Nothing /\ <<r, "answer">> # Nothing
      BY DEF Nothing
    <3> QED
      BY <1>4, <3>1 DEF Sending
  <2>4. Waiting(r)' = {}
    BY <1>5 DEF Waiting
  <2>5. Answered(r)' => Answered(r)
    <3>1. \A u \in Uuids : r \in outbox'[u] => Saved(u) /\ r \in snap.outbox[u]
      BY <1>2, <1>3
    <3> QED
      BY <1>1, <1>2, <2>3, <3>1 DEF Answered
  <2>6. ~Kept(r)'
    BY <1>2 DEF Kept
  <2>7. InBox(r)' => Kept(r)
    <3>1. CASE to[r] \in snap.sessions
      <4>1. inbox'[to'[r]] = snap.inbox[to[r]]
        BY <1>3, <2>2, <3>1
      <4> QED
        BY <1>2, <3>1, <4>1 DEF InBox, Kept
    <3>2. CASE to[r] \notin snap.sessions
      <4>1. inbox'[to'[r]] = <<>>
        BY <1>3, <2>2, <3>2
      <4> QED
        BY <1>7, <4>1 DEF InBox
    <3> QED
      BY <3>1, <3>2
  <2>8. CASE Kept(r)
    <3>1. ~Answered(r) /\ (\A d \in Conns : ~Sending(d, r, "request"))
          /\ (\A u \in Uuids : <<r, "request">> \notin got[u])
      BY <2>1, <2>8 DEF Within
    <3>2. PICK q : q = <<"inbox", Nobody>>
      OBVIOUS
    <3>3. Within(r, q)'
      BY <1>1, <2>3, <2>4, <2>5, <2>6, <3>1, <3>2 DEF Within
    <3> QED
      BY <3>3
  <2>9. CASE ~Kept(r)
    <3>1. Within(r, p)'
      BY <1>1, <2>1, <2>3, <2>4, <2>5, <2>6, <2>7, <2>9 DEF Within
    <3> QED
      BY <3>1
  <2> QED
    BY <2>8, <2>9
<1> QED
  BY <1>1, <1>2, <1>6, <1>8, <1>9, <1>10, <1>11 DEF OnceInv

-----------------------------------------------------------------------------

LEMMA OnceInvInit == CkptInit => OnceInv
<1> SUFFICES ASSUME CkptInit PROVE OnceInv
  OBVIOUS
<1>1. Init /\ ~restored /\ snap = Blank
  BY DEF CkptInit
<1>2. /\ inbox = [u \in Uuids |-> <<>>] /\ snap.inbox = inbox /\ Len(<<>>) = 0
      /\ outbox = [u \in Uuids |-> {}] /\ snap.outbox = outbox
  BY <1>1 DEF Init, Blank
<1>3. Tidy(inbox) /\ Tidy(snap.inbox)
  <2>1. \A u \in Uuids : \A i \in 1 .. Len(inbox[u]) : FALSE
    BY <1>2
  <2>2. Tidy(inbox)
    BY <2>1 DEF Tidy
  <2> QED
    BY <1>2, <2>2
<1>4. OutPost(outbox) /\ OutPost(snap.outbox)
  BY <1>2 DEF OutPost
<1>5. ArgKinds /\ \A r \in Rid : ~Posted(r)
  BY <1>1, NobodyAssumption DEF Init, ArgKinds, Posted
<1> QED
  BY <1>1, <1>3, <1>4, <1>5 DEF OnceInv

LEMMA OnceInvStep == CkptInv /\ OnceInv /\ [CkptNext]_ckptVars => OnceInv'
<1> SUFFICES ASSUME CkptInv, OnceInv, [CkptNext]_ckptVars PROVE OnceInv'
  OBVIOUS
<1>1. CASE UNCHANGED ckptVars
  BY <1>1, OnceSame DEF ckptVars, vars, deskVars, mailVars
<1> QED
  BY <1>1, HandleOnce, SerializeOnce, SaveLockedOnce, RestoreOnce DEF CkptNext

(* Across a checkpoint and the restore from it, into a new server or into  *)
(* the running one, a request is handed out and answered at most once:     *)
(* what serialize writes it takes out of the inbox (server.py:1074-1078).  *)
THEOREM ServedAtMostOnce == CkptSpec => []ServedOnce
<1>1. CkptInv /\ OnceInv => ServedOnce
  <2> SUFFICES ASSUME CkptInv, OnceInv, NEW r \in Issued
               PROVE  Cardinality(Requests(r)) + (IF Answered(r) THEN 1 ELSE 0) <= 1
    BY DEF ServedOnce
  <2>1. r \in Rid /\ Posted(r)
    BY DEF Issued, CkptInv, CkptDesk, Known
  <2>2. PICK p : Within(r, p)
    BY <2>1 DEF OnceInv
  <2>3. to[r] \in Uuids
    BY <2>1 DEF Posted
  <2>4. ASSUME NEW x \in Requests(r)
        PROVE  /\ ~Answered(r)
               /\ \/ /\ p = <<"inbox", Nobody>>
                     /\ \E i \in 1 .. Len(inbox[to[r]]) : inbox[to[r]][i] = r /\ x = <<"inbox", i>>
                  \/ /\ p = <<"checkpoint", Nobody>>
                     /\ \E i \in 1 .. Len(snap.inbox[to[r]]) :
                          snap.inbox[to[r]][i] = r /\ x = <<"checkpoint", i>>
                  \/ p = x /\ x[1] \in {"reply", "answering", "client"}
    <3>1. ASSUME NEW i \in 1 .. Len(inbox[to[r]]), inbox[to[r]][i] = r
          PROVE  p = <<"inbox", Nobody>> /\ ~Answered(r)
      BY <2>2, <3>1 DEF Within, InBox
    <3>2. ASSUME NEW i \in 1 .. Len(snap.inbox[to[r]]), snap.inbox[to[r]][i] = r, Saved(to[r])
          PROVE  p = <<"checkpoint", Nobody>> /\ ~Answered(r)
      BY <2>2, <3>2 DEF Within, Kept
    <3>3. ASSUME NEW c \in Conns, Sending(c, r, "request") PROVE p = <<"reply", c>> /\ ~Answered(r)
      BY <2>2, <3>3 DEF Within
    <3>4. ASSUME NEW c \in Waiting(r) PROVE p = <<"answering", c>> /\ ~Answered(r)
      BY <2>2, <3>4 DEF Within
    <3>5. ASSUME NEW u \in Uuids, <<r, "request">> \in got[u] PROVE p = <<"client", u>> /\ ~Answered(r)
      BY <2>2, <3>5 DEF Within
    <3>6. \/ \E i \in 1 .. Len(inbox[to[r]]) : inbox[to[r]][i] = r /\ x = <<"inbox", i>>
          \/ \E i \in 1 .. Len(snap.inbox[to[r]]) :
               snap.inbox[to[r]][i] = r /\ Saved(to[r]) /\ x = <<"checkpoint", i>>
          \/ \E c \in Conns : Sending(c, r, "request") /\ x = <<"reply", c>>
          \/ \E c \in Waiting(r) : x = <<"answering", c>>
          \/ \E u \in Uuids : <<r, "request">> \in got[u] /\ x = <<"client", u>>
      BY <2>4 DEF Requests, Positions
    <3> QED
      BY <3>1, <3>2, <3>3, <3>4, <3>5, <3>6
  <2>5. \A i, j \in 1 .. Len(inbox[to[r]]) : inbox[to[r]][i] = inbox[to[r]][j] => i = j
    BY <2>3 DEF OnceInv, Tidy
  <2>6. \A i, j \in 1 .. Len(snap.inbox[to[r]]) : snap.inbox[to[r]][i] = snap.inbox[to[r]][j] => i = j
    BY <2>3 DEF OnceInv, Tidy
  <2>7. ASSUME NEW x \in Requests(r), NEW y \in Requests(r) PROVE x = y
    <3>1. CASE p = <<"inbox", Nobody>>
      <4>1. p[1] \notin {"reply", "answering", "client", "checkpoint"}
        BY <3>1
      <4>2. PICK i \in 1 .. Len(inbox[to[r]]) : inbox[to[r]][i] = r /\ x = <<"inbox", i>>
        BY <2>4, <4>1
      <4>3. PICK j \in 1 .. Len(inbox[to[r]]) : inbox[to[r]][j] = r /\ y = <<"inbox", j>>
        BY <2>4, <4>1
      <4> QED
        BY <2>5, <4>2, <4>3
    <3>2. CASE p = <<"checkpoint", Nobody>>
      <4>1. p[1] \notin {"reply", "answering", "client", "inbox"}
        BY <3>2
      <4>2. PICK i \in 1 .. Len(snap.inbox[to[r]]) : snap.inbox[to[r]][i] = r /\ x = <<"checkpoint", i>>
        BY <2>4, <4>1
      <4>3. PICK j \in 1 .. Len(snap.inbox[to[r]]) : snap.inbox[to[r]][j] = r /\ y = <<"checkpoint", j>>
        BY <2>4, <4>1
      <4> QED
        BY <2>6, <4>2, <4>3
    <3>3. CASE p # <<"inbox", Nobody>> /\ p # <<"checkpoint", Nobody>>
      BY <2>4, <3>3
    <3> QED
      BY <3>1, <3>2, <3>3
  <2>8. CASE Requests(r) = {}
    BY <2>8, FS_EmptySet
  <2>9. CASE Requests(r) # {}
    <3>1. PICK x \in Requests(r) : TRUE
      BY <2>9
    <3>2. Requests(r) = {x}
      BY <2>7, <3>1
    <3>3. Cardinality({x}) = 1
      BY FS_Singleton
    <3>4. ~Answered(r)
      BY <2>4, <3>1
    <3> QED
      BY <3>2, <3>3, <3>4
  <2> QED
    BY <2>8, <2>9
<1> QED
  BY <1>1, CkptInvInit, CkptInvStep, OnceInvInit, OnceInvStep, PTL DEF CkptSpec

=============================================================================
