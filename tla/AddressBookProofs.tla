-------------------------- MODULE AddressBookProofs --------------------------
(***************************************************************************)
(* For any set of uuids and of addresses: the protocol's changes keep the  *)
(* address book and the sessions' own lists in agreement.                  *)
(***************************************************************************)
EXTENDS AddressBook, TLAPS

(* What Ownership needs to be inductive: a new session's list is empty,    *)
(* and so the book must not name its uuid yet.  It names only uuids handed *)
(* out, also after their sessions ended, and uuid4() repeats none of them. *)
BookInv ==
    /\ BookTypeOK
    /\ sessions \subseteq drawn
    /\ \A k \in Keys : book[k] # Nobody => book[k] \in drawn
    /\ Ownership

(* At start both tables are empty (server.py:186-187).                     *)
LEMMA BookInvInit == BookInit => BookInv
  BY NobodyAssumption
  DEF BookInit, BookInv, BookTypeOK, Ownership, NoAddress

(* A login's new session: nothing in its list, nothing in the book.        *)
LEMMA NewSessionInv ==
    ASSUME NEW u \in Uuids, BookInv, NewSession(u)
    PROVE  BookInv'
<1> USE NobodyAssumption DEF BookInv
<1>1. BookTypeOK'
  BY DEF NewSession, BookTypeOK, NoAddress
<1>2. sessions' \subseteq drawn'
  BY DEF NewSession
<1>3. \A k \in Keys : book'[k] # Nobody => book'[k] \in drawn'
  BY DEF NewSession
<1>4. Ownership'
  <2> SUFFICES ASSUME NEW v \in sessions', NEW k \in Keys
               PROVE  owned'[v][k] = IF book'[k] = v THEN 1 ELSE 0
    BY DEF Ownership
  <2>1. CASE v = u
    <3>1. book[k] # u
      BY DEF NewSession, BookTypeOK
    <3>2. owned'[u][k] = 0
      BY DEF NewSession, NoAddress, BookTypeOK
    <3> QED
      BY <2>1, <3>1, <3>2 DEF NewSession
  <2>2. CASE v # u
    <3>1. v \in sessions
      BY <2>2 DEF NewSession
    <3>2. owned'[v] = owned[v]
      BY <2>2, <3>1 DEF NewSession, BookTypeOK
    <3> QED
      BY <3>1, <3>2 DEF NewSession, Ownership
  <2> QED
    BY <2>1, <2>2
<1> QED
  BY <1>1, <1>2, <1>3, <1>4

(* REGISTER writes both sides, having found the address free.              *)
LEMMA RegisterKeyInv ==
    ASSUME NEW u \in Uuids, NEW k \in Keys, BookInv, RegisterKey(u, k)
    PROVE  BookInv'
<1> USE NobodyAssumption DEF BookInv, RegisterKey
<1>1. BookTypeOK'
  BY DEF BookTypeOK
<1>2. sessions' \subseteq drawn' /\ \A j \in Keys : book'[j] # Nobody => book'[j] \in drawn'
  BY DEF BookTypeOK
<1>3. Ownership'
  <2> SUFFICES ASSUME NEW v \in sessions, NEW j \in Keys
               PROVE  owned'[v][j] = IF book'[j] = v THEN 1 ELSE 0
    BY DEF Ownership
  <2>1. owned[v][j] = IF book[j] = v THEN 1 ELSE 0
    BY DEF Ownership
  <2>2. CASE j = k
    <3>1. owned[v][k] = 0
      BY <2>1, <2>2 DEF BookTypeOK
    <3>2. owned'[v][k] = IF v = u THEN 1 ELSE 0
      BY <3>1 DEF BookTypeOK
    <3> QED
      BY <2>2, <3>2 DEF BookTypeOK
  <2>3. CASE j # k
    BY <2>1, <2>3 DEF BookTypeOK
  <2> QED
    BY <2>2, <2>3
<1> QED
  BY <1>1, <1>2, <1>3

(* UNREGISTER trusts the list, and may: the book names the same session.   *)
LEMMA UnregisterKeyInv ==
    ASSUME NEW u \in Uuids, NEW k \in Keys, BookInv, UnregisterKey(u, k)
    PROVE  BookInv'
<1> USE NobodyAssumption DEF BookInv, UnregisterKey
<1>1. owned[u][k] = 1 /\ book[k] = u
  BY DEF Ownership
<1>2. BookTypeOK'
  BY <1>1 DEF BookTypeOK
<1>3. sessions' \subseteq drawn' /\ \A j \in Keys : book'[j] # Nobody => book'[j] \in drawn'
  BY DEF BookTypeOK
<1>4. Ownership'
  <2> SUFFICES ASSUME NEW v \in sessions, NEW j \in Keys
               PROVE  owned'[v][j] = IF book'[j] = v THEN 1 ELSE 0
    BY DEF Ownership
  <2>1. owned[v][j] = IF book[j] = v THEN 1 ELSE 0
    BY DEF Ownership
  <2>2. CASE j = k
    <3>1. owned'[v][k] = 0
      BY <1>1, <2>1, <2>2 DEF BookTypeOK
    <3> QED
      BY <2>2, <3>1 DEF BookTypeOK
  <2>3. CASE j # k
    BY <2>1, <2>3 DEF BookTypeOK
  <2> QED
    BY <2>2, <2>3
<1> QED
  BY <1>2, <1>3, <1>4

(* The cleanup takes at most an address of the session that ends.          *)
LEMMA TearDownInv ==
    ASSUME NEW u \in Uuids, BookInv, TearDown(u)
    PROVE  BookInv'
<1> USE NobodyAssumption DEF BookInv
<1>1. \A j \in Keys : book'[j] = book[j] \/ (book[j] = u /\ book'[j] = Nobody)
  BY DEF TearDown, BookTypeOK
<1>2. BookTypeOK'
  BY DEF TearDown, BookTypeOK, NoAddress
<1>3. sessions' \subseteq drawn' /\ \A j \in Keys : book'[j] # Nobody => book'[j] \in drawn'
  BY <1>1 DEF TearDown
<1>4. Ownership'
  <2> SUFFICES ASSUME NEW v \in sessions \ {u}, NEW j \in Keys
               PROVE  owned'[v][j] = IF book'[j] = v THEN 1 ELSE 0
    BY DEF Ownership, TearDown
  <2>1. owned'[v] = owned[v]
    BY DEF TearDown, BookTypeOK
  <2>2. book'[j] = v <=> book[j] = v
    BY <1>1 DEF BookTypeOK
  <2> QED
    BY <2>1, <2>2 DEF Ownership
<1> QED
  BY <1>2, <1>3, <1>4

LEMMA BookInvStep == BookInv /\ [BookNext]_bookVars => BookInv'
<1> SUFFICES ASSUME BookInv, [BookNext]_bookVars PROVE BookInv'
  OBVIOUS
<1>1. ASSUME NEW u \in Uuids, NewSession(u) PROVE BookInv'
  BY <1>1, NewSessionInv
<1>2. ASSUME NEW u \in Uuids, TearDown(u) PROVE BookInv'
  BY <1>2, TearDownInv
<1>3. ASSUME NEW u \in Uuids, NEW k \in Keys, RegisterKey(u, k) PROVE BookInv'
  BY <1>3, RegisterKeyInv
<1>4. ASSUME NEW u \in Uuids, NEW k \in Keys, UnregisterKey(u, k) PROVE BookInv'
  BY <1>4, UnregisterKeyInv
<1>5. CASE UNCHANGED bookVars
  BY <1>5 DEF BookInv, BookTypeOK, Ownership, bookVars
<1> QED
  BY <1>1, <1>2, <1>3, <1>4, <1>5 DEF BookNext

(* The protocol keeps address_book and every live session's                *)
(* addresses_owned in agreement, however logins, REGISTERs, UNREGISTERs    *)
(* and cleanups follow each other.                                         *)
THEOREM OwnershipHolds == BookSpec => []Ownership
<1>1. BookSpec => []BookInv
  BY BookInvInit, BookInvStep, PTL DEF BookSpec
<1>2. BookInv => Ownership
  BY DEF BookInv
<1> QED
  BY <1>1, <1>2, PTL

(* No change of the protocol takes an address from one session to another  *)
(* in one step.                                                            *)
THEOREM NoStealHolds == BookSpec => NoSteal
<1>1. BookSpec => []BookInv
  BY BookInvInit, BookInvStep, PTL DEF BookSpec
<1>2. BookInv /\ [BookNext]_bookVars
      => [\A k \in Keys : book[k] # Nobody => book'[k] \in {book[k], Nobody}]_bookVars
  <2> SUFFICES ASSUME BookInv, BookNext, NEW k \in Keys, book[k] # Nobody
               PROVE  book'[k] \in {book[k], Nobody}
    OBVIOUS
  <2> USE DEF BookInv, BookTypeOK
  <2>1. ASSUME NEW u \in Uuids, NewSession(u) PROVE book'[k] = book[k]
    BY <2>1 DEF NewSession
  <2>2. ASSUME NEW u \in Uuids, TearDown(u) PROVE book'[k] \in {book[k], Nobody}
    BY <2>2 DEF TearDown
  <2>3. ASSUME NEW u \in Uuids, NEW j \in Keys, RegisterKey(u, j)
        PROVE  book'[k] = book[k]
    BY <2>3 DEF RegisterKey
  <2>4. ASSUME NEW u \in Uuids, NEW j \in Keys, UnregisterKey(u, j)
        PROVE  book'[k] \in {book[k], Nobody}
    BY <2>4 DEF UnregisterKey
  <2> QED
    BY <2>1, <2>2, <2>3, <2>4 DEF BookNext
<1> QED
  BY <1>1, <1>2, PTL DEF BookSpec, NoSteal

=============================================================================
