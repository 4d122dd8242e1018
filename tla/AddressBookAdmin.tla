-------------------------- MODULE AddressBookAdmin --------------------------
(***************************************************************************)
(* The operator's side of the address book: the coroutines of Server that  *)
(* the embedding program may call while clients are connected (add_client, *)
(* remove_client, apply_client_state, add_key, remove_key).  None of them  *)
(* awaits between its checks and its writes except apply_client_state,     *)
(* which looks up the session, waits for that session's outbox lock, and   *)
(* then writes to the tables: it is a call (ApplyCall) and a return, and   *)
(* anything may come in between.  The others are one step each; a call     *)
(* that raises leaves what it wrote before.                                *)
(*                                                                         *)
(* Two history variables say what the operator could and could not help:   *)
(* "careful" is whether no call has raised half-way and every ticket       *)
(* agreed with the book when it was handed over, "overtaken" whether some  *)
(* ticket no longer did, or its session had ended, when it was written.    *)
(***************************************************************************)
EXTENDS AddressBook

CONSTANTS MaxOwned,   \* bound: occurrences of an address in one session's list
          Tasks,      \* the operator's tasks that may be in apply_client_state
          NoTicket    \* such a task is not in it

Tickets == [uuid : Uuids, keys : SUBSET Keys, strict : BOOLEAN]

ASSUME TicketAssumption == NoTicket \notin Tickets

VARIABLES applying,   \* applying[a]: what task a is to apply, once it has the lock
          stale,      \* tasks whose Client object has left client_db meanwhile
          careful,
          overtaken

applyVars == <<applying, stale, overtaken>>
adminVars == <<sessions, drawn, book, owned, applying, stale, careful, overtaken>>

AdminTypeOK ==
    /\ BookTypeOK
    /\ applying \in [Tasks -> Tickets \cup {NoTicket}]
    /\ stale \subseteq Tasks
    /\ careful \in BOOLEAN
    /\ overtaken \in BOOLEAN

AdminInit ==
    /\ BookInit
    /\ applying = [a \in Tasks |-> NoTicket]
    /\ stale = {}
    /\ careful = TRUE
    /\ overtaken = FALSE

(* A ticket's addresses_owned: a list without repetitions.                 *)
Once(ks) == [k \in Keys |-> IF k \in ks THEN 1 ELSE 0]

Named(u) == {k \in Keys : book[k] = u}

(* A list that holds all the book names u for and nothing of others.       *)
Agrees(u, ks) == Named(u) \subseteq ks /\ \A k \in ks : book[k] \in {u, Nobody}

(* The object that waiting tasks have looked up is no longer u's session.  *)
Outdate(u) ==
    stale' = stale \cup {a \in Tasks : applying[a] # NoTicket /\ applying[a].uuid = u}

(* add_client: the ticket's addresses go to the session, not to the book.  *)
AddClient(u, ks) ==
    /\ u \notin sessions
    /\ sessions' = sessions \cup {u}
    /\ drawn' = drawn \cup {u}
    /\ owned' = [owned EXCEPT ![u] = Once(ks)]
    /\ careful' = (careful /\ ks = Named(u))
    /\ UNCHANGED <<book, applyVars>>

(* remove_client when every listed address can be deleted from the book.   *)
RemoveClient(u) ==
    /\ u \in sessions
    /\ \A k \in Keys : owned[u][k] > 0 => owned[u][k] = 1 /\ book[k] # Nobody
    /\ book' = [k \in Keys |-> IF owned[u][k] > 0 THEN Nobody ELSE book[k]]
    /\ sessions' = sessions \ {u}
    /\ owned' = [owned EXCEPT ![u] = NoAddress]
    /\ Outdate(u)
    /\ UNCHANGED <<drawn, careful, applying, overtaken>>

(* remove_client when one cannot: the KeyError leaves the session, and     *)
(* the book without the addresses that came before it in the list.         *)
RemoveClientRaises(u) ==
    /\ u \in sessions
    /\ \E bad \in Keys :
         /\ owned[u][bad] > 1 \/ (owned[u][bad] = 1 /\ book[bad] = Nobody)
         /\ \E before \in SUBSET {k \in Keys : owned[u][k] > 0} :
              /\ owned[u][bad] > 1 /\ book[bad] # Nobody => bad \in before
              /\ book' = [k \in Keys |-> IF k \in before THEN Nobody ELSE book[k]]
    /\ careful' = FALSE
    /\ UNCHANGED <<sessions, drawn, owned, applyVars>>

(* apply_client_state up to its wait: the session is there.                *)
ApplyCall(a, t) ==
    /\ applying[a] = NoTicket
    /\ t.uuid \in sessions
    /\ applying' = [applying EXCEPT ![a] = t]
    /\ stale' = stale \ {a}
    /\ careful' = (careful /\ Agrees(t.uuid, t.keys))
    /\ UNCHANGED <<bookVars, overtaken>>

(* What follows it: addresses nobody has by now are entered in the book,   *)
(* whether or not the session is still there; the ones somebody has are    *)
(* taken over in the list only, and the list is written to the object that *)
(* was looked up before the wait.                                          *)
ApplyReturn(a) ==
    LET u == applying[a].uuid  ks == applying[a].keys IN
    /\ book' = [k \in Keys |-> IF k \in ks /\ book[k] = Nobody THEN u ELSE book[k]]
    /\ owned' = IF a \in stale THEN owned ELSE [owned EXCEPT ![u] = Once(ks)]
    /\ overtaken' = (overtaken \/ a \in stale \/ ~Agrees(u, ks))
    /\ applying' = [applying EXCEPT ![a] = NoTicket]
    /\ UNCHANGED <<sessions, drawn, stale, careful>>

ApplyLenient(a) == applying[a] # NoTicket /\ ~applying[a].strict /\ ApplyReturn(a)

(* strict=True is for lists of which the book has every address.           *)
ApplyStrict(a) ==
    /\ applying[a] # NoTicket
    /\ applying[a].strict
    /\ \A k \in applying[a].keys : book[k] # Nobody
    /\ ApplyReturn(a)

(* When it misses one the call raises, and leaves these tables alone.      *)
ApplyStrictRaises(a) ==
    /\ applying[a] # NoTicket
    /\ applying[a].strict
    /\ \E k \in applying[a].keys : book[k] = Nobody
    /\ applying' = [applying EXCEPT ![a] = NoTicket]
    /\ UNCHANGED <<bookVars, stale, careful, overtaken>>

(* add_key for a session, and for a uuid that has none: the book is        *)
(* written before the session is looked up.                                *)
AddKey(u, k) ==
    /\ u \in sessions
    /\ owned[u][k] < MaxOwned
    /\ book[k] = Nobody
    /\ book' = [book EXCEPT ![k] = u]
    /\ owned' = [owned EXCEPT ![u][k] = @ + 1]
    /\ UNCHANGED <<sessions, drawn, careful, applyVars>>

AddKeyRaises(u, k) ==
    /\ u \notin sessions
    /\ book[k] = Nobody
    /\ book' = [book EXCEPT ![k] = u]
    /\ drawn' = drawn \cup {u}
    /\ careful' = FALSE
    /\ UNCHANGED <<sessions, owned, applyVars>>

(* Variant for mutation: remove_key that forgets the session's list.       *)
RemoveKeyKeepsList(u, k) ==
    /\ u \in sessions
    /\ owned[u][k] > 0
    /\ book' = [book EXCEPT ![k] = Nobody]
    /\ UNCHANGED <<sessions, drawn, owned, careful, applyVars>>

(* remove_key: the book's entry goes whoever it names, then the list's; a  *)
(* session that does not list the address makes the call raise.            *)
RemoveKey(u, k) ==
    /\ u \in sessions
    /\ book[k] # Nobody
    /\ owned[u][k] > 0
    /\ book' = [book EXCEPT ![k] = Nobody]
    /\ owned' = [owned EXCEPT ![u][k] = @ - 1]
    /\ UNCHANGED <<sessions, drawn, careful, applyVars>>

RemoveKeyRaises(u, k) ==
    /\ u \notin sessions \/ owned[u][k] = 0
    /\ book[k] # Nobody
    /\ book' = [book EXCEPT ![k] = Nobody]
    /\ careful' = FALSE
    /\ UNCHANGED <<sessions, drawn, owned, applyVars>>

(* UNREGISTER when the book has lost the address: remove() has been done   *)
(* when pop() raises the KeyError that ends the handler.                   *)
UnregisterRaises(u, k) ==
    /\ u \in sessions
    /\ owned[u][k] > 0
    /\ book[k] = Nobody
    /\ owned' = [owned EXCEPT ![u][k] = @ - 1]
    /\ UNCHANGED <<sessions, drawn, book, careful, applyVars>>

-----------------------------------------------------------------------------

(* What the clients do meanwhile.                                          *)
ClientStep(u, k) ==
    /\ \/ NewSession(u) /\ UNCHANGED stale
       \/ TearDown(u) /\ Outdate(u)
       \/ owned[u][k] < MaxOwned /\ RegisterKey(u, k) /\ UNCHANGED stale
       \/ UnregisterKey(u, k) /\ UNCHANGED stale
    /\ UNCHANGED <<applying, careful, overtaken>>

ClientRaises(u, k) == UnregisterRaises(u, k)

AdminStep(u) ==
    \/ \E ks \in SUBSET Keys : AddClient(u, ks)
    \/ RemoveClient(u)
    \/ RemoveClientRaises(u)
    \/ \E k \in Keys :
         \/ AddKey(u, k)
         \/ AddKeyRaises(u, k)
         \/ RemoveKey(u, k)
         \/ RemoveKeyRaises(u, k)

ApplyStep(a) ==
    \/ \E t \in Tickets : ApplyCall(a, t)
    \/ ApplyLenient(a)
    \/ ApplyStrict(a)
    \/ ApplyStrictRaises(a)

AdminNext ==
    \/ \E a \in Tasks : ApplyStep(a)
    \/ \E u \in Uuids :
         \/ AdminStep(u)
         \/ \E k \in Keys : ClientStep(u, k) \/ ClientRaises(u, k)

AdminSpec == AdminInit /\ [][AdminNext]_adminVars

-----------------------------------------------------------------------------

(* The operator's calls, run between the clients' own, keep the book and   *)
(* the sessions' lists in agreement for as long as none of them raises     *)
(* half-way, every ticket lists what the book says when it is handed over, *)
(* and no apply_client_state is overtaken while it waits: its session      *)
(* ended (and perhaps another one added under its uuid), or one of its     *)
(* addresses given to somebody else or a further one to its session.       *)
(* Where the agreement ends is where add_client (server.py:897), add_key   *)
(* (976) and remove_key (996) write one side without the other, and where  *)
(* apply_client_state writes (960-969) what it checked before 957.         *)
CarefulOwnership == careful /\ ~overtaken => Ownership

(* Even a careless operator cannot hand an address from one session to     *)
(* another in one call (server.py:961, 974).                               *)
AdminNoSteal ==
    [][\A k \in Keys : book[k] # Nobody => book'[k] \in {book[k], Nobody}]_adminVars

=============================================================================
