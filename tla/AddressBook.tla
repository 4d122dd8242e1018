---------------------------- MODULE AddressBook ----------------------------
(***************************************************************************)
(* The server's two tables of who is reachable: client_db, the sessions by *)
(* uuid, and address_book, the session each published address names.  The  *)
(* session keeps its own list of the addresses it published                *)
(* (Client.addresses_owned), so every change is made twice.                *)
(*                                                                         *)
(* These are the changes the protocol makes (src/pipebomb/server.py,       *)
(* accept_clients and handle_client): each runs between two awaits of one  *)
(* event loop and so is one step.  AddressBookAdmin adds the changes the   *)
(* operator's API makes, PostOffice the handlers that make these.          *)
(***************************************************************************)
EXTENDS Naturals

CONSTANTS Uuids,    \* what uuid4() returns, in this run
          Keys,     \* the addresses clients publish
          Nobody    \* the address book has no entry

ASSUME NobodyAssumption == Nobody \notin Uuids

VARIABLES sessions,  \* DOMAIN client_db
          drawn,     \* the uuids handed out so far: uuid4() never repeats one
          book,      \* address_book
          owned      \* owned[u][k]: occurrences of k in addresses_owned of u

bookVars == <<sessions, drawn, book, owned>>

NoAddress == [k \in Keys |-> 0]

BookTypeOK ==
    /\ sessions \subseteq Uuids
    /\ drawn \subseteq Uuids
    /\ book \in [Keys -> Uuids \cup {Nobody}]
    /\ owned \in [Uuids -> [Keys -> Nat]]

BookInit ==
    /\ sessions = {}
    /\ drawn = {}
    /\ book = [k \in Keys |-> Nobody]
    /\ owned = [u \in Uuids |-> NoAddress]

-----------------------------------------------------------------------------

(* A login: Client(addresses_owned=[], ...) stored under a new uuid.       *)
NewSession(u) ==
    /\ u \in Uuids \ drawn
    /\ sessions' = sessions \cup {u}
    /\ drawn' = drawn \cup {u}
    /\ owned' = [owned EXCEPT ![u] = NoAddress]
    /\ UNCHANGED book

(* Variant for mutation: REGISTER that does not consult the book.          *)
RegisterUnchecked(u, k) ==
    /\ u \in sessions
    /\ owned' = [owned EXCEPT ![u][k] = @ + 1]
    /\ book' = [book EXCEPT ![k] = u]
    /\ UNCHANGED <<sessions, drawn>>

(* REGISTER of an address the book does not have.                          *)
RegisterKey(u, k) ==
    /\ u \in sessions
    /\ book[k] = Nobody
    /\ owned' = [owned EXCEPT ![u][k] = @ + 1]
    /\ book' = [book EXCEPT ![k] = u]
    /\ UNCHANGED <<sessions, drawn>>

(* Variant for mutation: UNREGISTER that does not consult the list.        *)
UnregisterUnlisted(u, k) ==
    /\ u \in sessions
    /\ book[k] # Nobody
    /\ owned' = [owned EXCEPT ![u][k] = @ - 1]
    /\ book' = [book EXCEPT ![k] = Nobody]
    /\ UNCHANGED <<sessions, drawn>>

(* UNREGISTER of an address the session's own list has: that list alone is *)
(* consulted, and the book's entry is popped whoever it names.             *)
UnregisterKey(u, k) ==
    /\ u \in sessions
    /\ owned[u][k] > 0
    /\ book[k] # Nobody
    /\ owned' = [owned EXCEPT ![u][k] = @ - 1]
    /\ book' = [book EXCEPT ![k] = Nobody]
    /\ UNCHANGED <<sessions, drawn>>

(* The end of handle_client.  The loop over the book deletes the first     *)
(* entry that names u and breaks; which one is first is the dictionary's   *)
(* insertion order, any of them here.                                      *)
TearDown(u) ==
    /\ u \in sessions
    /\ \/ \E k \in Keys : book[k] = u /\ book' = [book EXCEPT ![k] = Nobody]
       \/ (\A k \in Keys : book[k] # u) /\ UNCHANGED book
    /\ sessions' = sessions \ {u}
    /\ owned' = [owned EXCEPT ![u] = NoAddress]
    /\ UNCHANGED drawn

BookNext ==
    \E u \in Uuids :
        \/ NewSession(u)
        \/ TearDown(u)
        \/ \E k \in Keys : RegisterKey(u, k) \/ UnregisterKey(u, k)

BookSpec == BookInit /\ [][BookNext]_bookVars

-----------------------------------------------------------------------------

(* The book and the sessions' own lists say the same: a live session lists *)
(* an address, once, exactly when the book names that session for it.      *)
(* UNREGISTER pops the book on the word of the list (server.py:650-663):   *)
(* were the two to differ it would drop another session's address, or die  *)
(* of a KeyError between the two removals.                                 *)
Ownership ==
    \A u \in sessions, k \in Keys : owned[u][k] = IF book[k] = u THEN 1 ELSE 0

(* An address never passes from one session to another in one step: it is  *)
(* free in between.  This is what REGISTER's check of the book             *)
(* (server.py:621) is for.                                                 *)
NoSteal ==
    [][\A k \in Keys : book[k] # Nobody => book'[k] \in {book[k], Nobody}]_bookVars

(* The book leads only to sessions that exist: the cleanup after BYE is    *)
(* there to remove what the session published (server.py:861-871).         *)
NoDangling == \A k \in Keys : book[k] # Nobody => book[k] \in sessions

=============================================================================
