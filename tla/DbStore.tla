------------------------------ MODULE DbStore ------------------------------
(***************************************************************************)
(* The key-value store of the server (src/pipebomb/server.py: Server.db    *)
(* and db_lock).  SET, GET, DELETE and LIST hold the lock from the access  *)
(* to the end of the send of the reply; the operator's set_db, get_db and  *)
(* remove_db hold it for the access only.                                  *)
(*                                                                         *)
(* server[key] and its like are synchronous.  They run the event loop      *)
(* inside the callback that uses them until a task of theirs has acquired  *)
(* the lock (run_until_complete, made re-entrant by nest_asyncio).  Such   *)
(* calls nest: one that is made while another runs the loop sits on top of *)
(* it on the one stack of the thread, and only the innermost can return.   *)
(*                                                                         *)
(* What a request is matters to nobody before its access, and is chosen    *)
(* there.  How a handler came to its request, and what becomes of it after *)
(* the reply, is PostOffice's.                                             *)
(***************************************************************************)
EXTENDS Sequences, Naturals

CONSTANTS Handlers,     \* handle_client coroutines
          Callers,      \* the operator's calls of set_db, get_db, remove_db
          DictCallers,  \* the operator's uses of server[key] and its like
          DbKeys,
          Vals,         \* the values stored
          Empty,        \* b"", one of them or not
          Absent,       \* a key that is not in the store
          Stuck         \* holds the lock for a call that is over

Actors == Handlers \cup Callers \cup DictCallers

ASSUME DbAssumption ==
    /\ Absent \notin Vals
    /\ Handlers \cap (Callers \cup DictCallers) = {}
    /\ Callers \cap DictCallers = {}
    /\ Stuck \notin Actors

VARIABLES db,      \* Server.db
          lockq,   \* db_lock: its holder, then those who wait
          frames,  \* the nested run_until_complete calls, innermost first
          at,      \* where each actor is
          seen,    \* the store its reply was made from
          swapped  \* apply_state has been called

dbVars == <<db, lockq, frames, at, seen, swapped>>

Stores == [DbKeys -> Vals \cup {Absent}]

Jobs == [op : {"set"}, key : DbKeys, val : Vals]
        \cup [op : {"get", "delete"}, key : DbKeys]
        \cup [op : {"list"}]

DbTypeOK ==
    /\ db \in Stores
    /\ lockq \in Seq(Actors \cup {Stuck})
    /\ frames \in Seq(DictCallers)
    /\ at \in [Actors -> {"idle", "asking", "waiting", "sending", "crashed"}]
    /\ seen \in [Handlers -> Stores]
    /\ swapped \in BOOLEAN

DbInit ==
    /\ db = [k \in DbKeys |-> Absent]
    /\ lockq = <<>>
    /\ frames = <<>>
    /\ at = [a \in Actors |-> "idle"]
    /\ seen = [a \in Handlers |-> db]
    /\ swapped = FALSE

-----------------------------------------------------------------------------

After(j) ==
    IF j.op = "set" THEN [db EXCEPT ![j.key] = j.val]
    ELSE IF j.op = "delete" THEN [db EXCEPT ![j.key] = Absent]
    ELSE db

Leave(q) == lockq' = Tail(q)

(* A handler that has come to the head of q.  A SET whose payload is too   *)
(* short raises before the access.  construct_packet raises on an empty    *)
(* value, and the look-up of the session it answers for raises if that has *)
(* ended while it waited; async with releases the lock.                    *)
Run(a, j, q) ==
    /\ a \in Handlers
    /\ \/ /\ ~(j.op = "get" /\ db[j.key] = Empty)
          /\ db' = After(j)
          /\ at' = [at EXCEPT ![a] = "sending"]
          /\ seen' = [seen EXCEPT ![a] = db']
          /\ lockq' = q
       \/ /\ \/ db' = After(j) /\ ((j.op = "get" /\ db[j.key] = Empty) \/ at[a] = "waiting")
             \/ db' = db /\ j.op = "set"
          /\ at' = [at EXCEPT ![a] = "crashed"]
          /\ Leave(q)
          /\ UNCHANGED seen
    /\ UNCHANGED <<frames, swapped>>

(* set_db and its like; a missing key raises inside async with.            *)
Call(a, j, q) ==
    /\ a \in Callers
    /\ db' = After(j)
    /\ at' = [at EXCEPT ![a] = "idle"]
    /\ Leave(q)
    /\ UNCHANGED <<frames, seen, swapped>>

(* Variant for mutation: an access that does not ask for the lock.         *)
EnterUnlocked(a, j) ==
    /\ at[a] = "idle"
    /\ Run(a, j, <<a>>) \/ Call(a, j, <<a>>)

Enter(a, j) ==
    /\ at[a] = "idle"
    /\ lockq = <<>>
    /\ Run(a, j, <<a>>) \/ Call(a, j, <<a>>)

Wait(a) ==
    /\ a \notin DictCallers
    /\ at[a] = "idle"
    /\ lockq # <<>>
    /\ lockq' = Append(lockq, a)
    /\ at' = [at EXCEPT ![a] = "waiting"]
    /\ UNCHANGED <<db, frames, seen, swapped>>

Woken(a, j) ==
    /\ at[a] = "waiting"
    /\ lockq # <<>> /\ Head(lockq) = a
    /\ Run(a, j, lockq) \/ Call(a, j, lockq)

(* server[key]: a task that acquires the lock is scheduled, and the loop   *)
(* run from here.                                                          *)
Nest(a) ==
    /\ a \in DictCallers
    /\ at[a] = "idle"
    /\ frames' = <<a>> \o frames
    /\ at' = [at EXCEPT ![a] = "asking"]
    /\ UNCHANGED <<db, lockq, seen, swapped>>

(* That task starts: it has the lock, or waits for it.                     *)
Acquire(a) ==
    /\ at[a] = "asking"
    /\ lockq' = Append(lockq, a)
    /\ at' = [at EXCEPT ![a] = "waiting"]
    /\ UNCHANGED <<db, frames, seen, swapped>>

(* Its run of the loop ends, if it is the innermost.  __getitem__ and      *)
(* __delitem__ of a key that is not there raise before the release ("get"  *)
(* is also __contains__, which does not).                                  *)
Unnest(a, j) ==
    /\ at[a] = "waiting"
    /\ lockq # <<>> /\ Head(lockq) = a
    /\ frames # <<>> /\ Head(frames) = a
    /\ db' = After(j)
    /\ IF j.op \in {"get", "delete"} /\ db[j.key] = Absent
       THEN \/ lockq' = <<Stuck>> \o Tail(lockq)
            \/ j.op = "get" /\ Leave(lockq)
       ELSE Leave(lockq)
    /\ frames' = Tail(frames)
    /\ at' = [at EXCEPT ![a] = "idle"]
    /\ UNCHANGED <<seen, swapped>>

(* Variant for mutation: a send that raises keeps the lock.                *)
SendOverKeeps(a) ==
    /\ at[a] = "sending"
    /\ \/ at' = [at EXCEPT ![a] = "idle"] /\ Leave(lockq)
       \/ at' = [at EXCEPT ![a] = "crashed"] /\ UNCHANGED lockq
    /\ UNCHANGED <<db, frames, seen, swapped>>

(* The send ends, well or with an exception, and the lock is released.     *)
SendOver(a) ==
    /\ at[a] = "sending"
    /\ \E place \in {"idle", "crashed"} : at' = [at EXCEPT ![a] = place]
    /\ Leave(lockq)
    /\ UNCHANGED <<db, frames, seen, swapped>>

(* apply_state replaces the store without the lock.                        *)
ApplyState(d) ==
    /\ db' = d
    /\ swapped' = TRUE
    /\ UNCHANGED <<lockq, frames, at, seen>>

Resume(a) ==
    \/ SendOver(a)
    \/ Acquire(a)
    \/ \E j \in Jobs : Woken(a, j) \/ Unnest(a, j)

DbNext ==
    \/ \E a \in Actors :
         Resume(a) \/ Wait(a) \/ Nest(a) \/ \E j \in Jobs : Enter(a, j)
    \/ \E d \in Stores : ApplyState(d)

DbSpec == DbInit /\ [][DbNext]_dbVars

(* The event loop, whoever runs it, runs the tasks that are ready, and a   *)
(* client reads its reply or goes away.  A nested call returns when it has *)
(* the lock and nothing runs on top of it: nothing is asked of one that is *)
(* not the innermost.                                                      *)
DbFairSpec == DbSpec /\ \A a \in Actors : WF_dbVars(Resume(a))

-----------------------------------------------------------------------------

(* Until a reply has gone out the store stays as it was when the reply was *)
(* made: what GET and LIST return is still there, what SET stored and      *)
(* DELETE removed is not yet undone.  The lock is held across the send for *)
(* this (server.py:531-547, 550-573, 576-600, 603-618).                    *)
Fresh == \A a \in Handlers : at[a] = "sending" /\ ~swapped => db = seen[a]

(* server[key] has raised for a missing key with the lock in its hands     *)
(* (server.py:225-226, 236-237).                                           *)
LeftLocked == lockq # <<>> /\ Head(lockq) = Stuck

(* The lock belongs to a nested call that cannot return, as another one    *)
(* runs the loop on top of it, and that one waits for the lock.            *)
Buried ==
    /\ lockq # <<>> /\ Head(lockq) \in DictCallers
    /\ Head(frames) # Head(lockq)

(* Whoever wants the store gets it, in spite of clients that fail in the   *)
(* middle of a reply (server.py:531, 550, 576, 603, 1004-1014), unless a   *)
(* dict-style call has kept the lock or is buried with it.                 *)
StoreServed ==
    \A a \in Actors :
        at[a] \in {"asking", "waiting"} ~> at[a] \in {"idle", "sending", "crashed"}
                                            \/ LeftLocked \/ Buried

=============================================================================
