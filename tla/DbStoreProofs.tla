--------------------------- MODULE DbStoreProofs ---------------------------
(* For any number of handlers, operator calls, keys and values: why a      *)
(* reply from the store is fresh until it has gone out.                    *)
EXTENDS DbStore, TLAPS

(* Whoever is sending is the head of the lock's queue, so it is alone.     *)
HolderSends ==
    \A a \in Actors : at[a] = "sending" => lockq # <<>> /\ Head(lockq) = a

(* Only handlers send: the operator's calls answer nobody.                 *)
HandlersSend == \A a \in Actors : at[a] = "sending" => a \in Handlers

DbInv == DbTypeOK /\ HolderSends /\ HandlersSend /\ Fresh

(* Joining a queue leaves its head alone; leaving one keeps it a queue.    *)
LEMMA QueueFacts ==
    ASSUME NEW S, NEW q \in Seq(S), NEW e \in S
    PROVE  /\ Append(q, e) \in Seq(S)
           /\ <<e>> \in Seq(S)
           /\ q # <<>> => /\ Append(q, e) # <<>>
                          /\ Head(Append(q, e)) = Head(q)
                          /\ Tail(q) \in Seq(S)
                          /\ <<e>> \o Tail(q) \in Seq(S)
  OBVIOUS

LEMMA AfterIsStore ==
    ASSUME DbTypeOK, NEW j \in Jobs
    PROVE  After(j) \in Stores
<1>1. CASE j.op = "set"
  <2>1. j.key \in DbKeys /\ j.val \in Vals
    BY <1>1 DEF Jobs
  <2> QED
    BY <1>1, <2>1 DEF After, Stores, DbTypeOK
<1>2. CASE j.op = "delete"
  <2>1. j.key \in DbKeys
    BY <1>2 DEF Jobs
  <2> QED
    BY <1>2, <2>1 DEF After, Stores, DbTypeOK
<1>3. CASE j.op # "set" /\ j.op # "delete"
  BY <1>3 DEF After, DbTypeOK
<1> QED
  BY <1>1, <1>2, <1>3

(* A request that comes to the head of the queue q, which nobody else is.  *)
LEMMA HeadRuns ==
    ASSUME DbInv, NEW a \in Actors, NEW j \in Jobs, at[a] # "sending",
           NEW q \in Seq(Actors \cup {Stuck}), q # <<>>, Head(q) = a,
           \A b \in Actors : at[b] # "sending",
           Run(a, j, q) \/ Call(a, j, q)
    PROVE  DbInv'
<1>1. db' \in Stores /\ swapped' = swapped /\ frames' = frames
  BY AfterIsStore DEF Run, Call, DbInv, DbTypeOK
<1>2. lockq' = q \/ lockq' = Tail(q)
  BY DEF Run, Call, Leave
<1>3. lockq' \in Seq(Actors \cup {Stuck})
  <2>1. Tail(q) \in Seq(Actors \cup {Stuck})
    BY QueueFacts
  <2> QED
    BY <1>2, <2>1
<1>4. /\ \E p \in {"idle", "sending", "crashed"} :
           /\ at' = [at EXCEPT ![a] = p]
           /\ p = "sending" => /\ a \in Handlers
                                /\ seen' = [seen EXCEPT ![a] = db']
                                /\ lockq' = q
           /\ p # "sending" => seen' = seen
  BY DEF Run, Call
<1>5. DbTypeOK'
  BY <1>1, <1>3, <1>4 DEF DbInv, DbTypeOK
<1>6. HolderSends'
  BY <1>4 DEF HolderSends, DbInv, DbTypeOK
<1>7. HandlersSend'
  BY <1>4 DEF HandlersSend, DbInv, DbTypeOK
<1>8. Fresh'
  <2> SUFFICES ASSUME NEW b \in Handlers, at'[b] = "sending" PROVE db' = seen'[b]
    BY DEF Fresh
  <2>1. b = a /\ at'[a] = "sending"
    BY <1>4 DEF DbInv, DbTypeOK, Actors
  <2>2. seen' = [seen EXCEPT ![a] = db']
    BY <1>4, <2>1 DEF DbInv, DbTypeOK
  <2> QED
    BY <2>1, <2>2 DEF DbInv, DbTypeOK
<1> QED
  BY <1>5, <1>6, <1>7, <1>8 DEF DbInv

LEMMA DbInvInit == DbInit => DbInv
<1> SUFFICES ASSUME DbInit PROVE DbInv
  OBVIOUS
<1>1. db \in Stores
  BY DEF DbInit, Stores
<1>2. DbTypeOK
  <2>1. lockq \in Seq(Actors \cup {Stuck}) /\ frames \in Seq(DictCallers) /\ swapped \in BOOLEAN
    <3>1. <<>> \in Seq(Actors \cup {Stuck}) /\ <<>> \in Seq(DictCallers)
      OBVIOUS
    <3>2. lockq = <<>> /\ frames = <<>> /\ swapped = FALSE
      BY DEF DbInit
    <3> QED
      BY <3>1, <3>2
  <2>2. at \in [Actors -> {"idle", "asking", "waiting", "sending", "crashed"}]
    BY DEF DbInit
  <2>3. seen \in [Handlers -> Stores]
    BY <1>1 DEF DbInit
  <2> QED
    BY <1>1, <2>1, <2>2, <2>3 DEF DbTypeOK
<1> QED
  BY <1>2 DEF DbInit, DbInv, HolderSends, HandlersSend, Fresh

LEMMA DbInvStep == DbInv /\ [DbNext]_dbVars => DbInv'
<1> SUFFICES ASSUME DbInv, [DbNext]_dbVars PROVE DbInv'
  OBVIOUS
<1>1. ASSUME NEW a \in Actors, NEW j \in Jobs, Enter(a, j) PROVE DbInv'
  <2>1. \A b \in Actors : at[b] # "sending"
    BY <1>1 DEF Enter, DbInv, HolderSends
  <2>2. <<a>> \in Seq(Actors \cup {Stuck}) /\ <<a>> # <<>> /\ Head(<<a>>) = a
    OBVIOUS
  <2>3. Run(a, j, <<a>>) \/ Call(a, j, <<a>>)
    BY <1>1 DEF Enter
  <2> QED
    BY <2>1, <2>2, <2>3, HeadRuns
<1>2. ASSUME NEW a \in Actors, Wait(a) \/ Acquire(a) PROVE DbInv'
  <2>1. /\ lockq = <<>> \/ lockq # <<>>
        /\ lockq' = Append(lockq, a)
        /\ at' = [at EXCEPT ![a] = "waiting"]
        /\ UNCHANGED <<db, frames, seen, swapped>>
    BY <1>2 DEF Wait, Acquire
  <2>2. /\ lockq' \in Seq(Actors \cup {Stuck})
        /\ lockq # <<>> => lockq' # <<>> /\ Head(lockq') = Head(lockq)
    BY <2>1, QueueFacts DEF DbInv, DbTypeOK
  <2> QED
    BY <2>1, <2>2 DEF DbInv, DbTypeOK, HolderSends, HandlersSend, Fresh
<1>3. ASSUME NEW a \in Actors, NEW j \in Jobs, Woken(a, j) PROVE DbInv'
  <2>1. /\ lockq # <<>> /\ Head(lockq) = a /\ at[a] = "waiting"
        /\ lockq \in Seq(Actors \cup {Stuck})
        /\ Run(a, j, lockq) \/ Call(a, j, lockq)
    BY <1>3 DEF Woken, DbInv, DbTypeOK
  <2>2. \A b \in Actors : at[b] # "sending"
    BY <2>1 DEF DbInv, HolderSends
  <2> QED
    BY <2>1, <2>2, HeadRuns
<1>7. ASSUME NEW a \in Actors, Nest(a) PROVE DbInv'
  <2>1. /\ a \in DictCallers
        /\ frames' = <<a>> \o frames
        /\ at' = [at EXCEPT ![a] = "asking"]
        /\ UNCHANGED <<db, lockq, seen, swapped>>
    BY <1>7 DEF Nest
  <2>2. frames' \in Seq(DictCallers)
    BY <2>1 DEF DbInv, DbTypeOK
  <2> QED
    BY <2>1, <2>2 DEF DbInv, DbTypeOK, HolderSends, HandlersSend, Fresh
<1>8. ASSUME NEW a \in Actors, NEW j \in Jobs, Unnest(a, j) PROVE DbInv'
  <2>1. /\ lockq # <<>> /\ Head(lockq) = a /\ at[a] = "waiting" /\ frames # <<>>
        /\ db' = After(j) /\ db' \in Stores
        /\ lockq' = Tail(lockq) \/ lockq' = <<Stuck>> \o Tail(lockq)
        /\ frames' = Tail(frames)
        /\ at' = [at EXCEPT ![a] = "idle"]
        /\ UNCHANGED <<seen, swapped>>
    BY <1>8, AfterIsStore DEF Unnest, Leave, DbInv
  <2>2. lockq' \in Seq(Actors \cup {Stuck}) /\ frames' \in Seq(DictCallers)
    <3>1. Tail(lockq) \in Seq(Actors \cup {Stuck}) /\ <<Stuck>> \o Tail(lockq) \in Seq(Actors \cup {Stuck})
      BY <2>1, QueueFacts DEF DbInv, DbTypeOK
    <3>2. Tail(frames) \in Seq(DictCallers)
      BY <2>1 DEF DbInv, DbTypeOK
    <3> QED
      BY <2>1, <3>1, <3>2
  <2>3. \A b \in Actors : at'[b] # "sending"
    BY <2>1 DEF DbInv, DbTypeOK, HolderSends
  <2> QED
    BY <2>1, <2>2, <2>3 DEF DbInv, DbTypeOK, HolderSends, HandlersSend, Fresh, Actors
<1>4. ASSUME NEW a \in Actors, SendOver(a) PROVE DbInv'
  <2>1. /\ lockq # <<>> /\ Head(lockq) = a /\ lockq' = Tail(lockq)
        /\ \E p \in {"idle", "crashed"} : at' = [at EXCEPT ![a] = p]
        /\ UNCHANGED <<db, frames, seen, swapped>>
    BY <1>4 DEF SendOver, Leave, DbInv, HolderSends
  <2>2. lockq' \in Seq(Actors \cup {Stuck})
    BY <2>1, QueueFacts DEF DbInv, DbTypeOK
  <2>3. \A b \in Actors : at'[b] # "sending"
    BY <2>1 DEF DbInv, DbTypeOK, HolderSends
  <2> QED
    BY <2>1, <2>2, <2>3 DEF DbInv, DbTypeOK, HolderSends, HandlersSend, Fresh
<1>5. ASSUME NEW d \in Stores, ApplyState(d) PROVE DbInv'
  BY <1>5 DEF ApplyState, DbInv, DbTypeOK, HolderSends, HandlersSend, Fresh
<1>6. CASE UNCHANGED dbVars
  BY <1>6 DEF dbVars, DbInv, DbTypeOK, HolderSends, HandlersSend, Fresh
<1> QED
  BY <1>1, <1>2, <1>3, <1>4, <1>5, <1>6, <1>7, <1>8 DEF DbNext, Resume

(* The lock keeps the store as a reply under way found it, for as long as  *)
(* nobody replaces the store past the lock (server.py:531-618, 1022).      *)
THEOREM RepliesAreFresh == DbSpec => []Fresh
<1>1. DbInv => Fresh
  BY DEF DbInv
<1> QED
  BY <1>1, DbInvInit, DbInvStep, PTL DEF DbSpec

=============================================================================
