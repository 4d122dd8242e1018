----------------------- MODULE AddressBookAdminProofs -----------------------
(***************************************************************************)
(* For any number of sessions and addresses: what the operator's calls,    *)
(* run between the clients' own changes, keep of the address book.  What   *)
(* does not depend on the operator's care comes first; the agreement of    *)
(* book and lists rests on it and on AddressBookProofs.                    *)
(***************************************************************************)
EXTENDS AddressBookAdmin, AddressBookProofs

(* Whatever the operator does, the uuids in the tables have been handed    *)
(* out: a login never draws one that the book already names.               *)
TablesInv ==
    /\ AdminTypeOK
    /\ sessions \subseteq drawn
    /\ \A k \in Keys : book[k] # Nobody => book[k] \in drawn
    /\ \A a \in Tasks : applying[a] # NoTicket => applying[a].uuid \in drawn

AdminInv == TablesInv /\ CarefulOwnership

Untaken == \A k \in Keys : book[k] # Nobody => book'[k] \in {book[k], Nobody}

LEMMA AdminInvInit == AdminInit => AdminInv
  BY BookInvInit
  DEF AdminInit, AdminInv, TablesInv, AdminTypeOK, CarefulOwnership, BookInv

(* A list that holds each of its addresses once.                           *)
LEMMA OnceType ==
    ASSUME NEW ks \in SUBSET Keys
    PROVE  /\ Once(ks) \in [Keys -> Nat]
           /\ \A k \in Keys : Once(ks)[k] = IF k \in ks THEN 1 ELSE 0
  BY DEF Once

LEMMA OutdateType ==
    ASSUME NEW u, Outdate(u), stale \subseteq Tasks
    PROVE  stale' \subseteq Tasks
  BY DEF Outdate

LEMMA ClientTables ==
    ASSUME NEW u \in Uuids, NEW k \in Keys, TablesInv,
           ClientStep(u, k) \/ ClientRaises(u, k)
    PROVE  TablesInv' /\ Untaken
<1> USE NobodyAssumption DEF TablesInv, AdminTypeOK, BookTypeOK, Untaken, applyVars
<1> DEFINE Rest == UNCHANGED <<applying, careful, overtaken>>
<1>1. CASE NewSession(u) /\ UNCHANGED stale /\ Rest
  BY <1>1 DEF NewSession, NoAddress
<1>2. CASE TearDown(u) /\ Outdate(u) /\ Rest
  BY <1>2, OutdateType DEF TearDown, NoAddress
<1>3. CASE RegisterKey(u, k) /\ UNCHANGED stale /\ Rest
  BY <1>3 DEF RegisterKey
<1>4. CASE UnregisterKey(u, k) /\ UNCHANGED stale /\ Rest
  BY <1>4 DEF UnregisterKey
<1>5. CASE UnregisterRaises(u, k)
  BY <1>5 DEF UnregisterRaises
<1> QED
  BY <1>1, <1>2, <1>3, <1>4, <1>5 DEF ClientStep, ClientRaises

LEMMA AdminTables ==
    ASSUME NEW u \in Uuids, TablesInv, AdminStep(u)
    PROVE  TablesInv' /\ Untaken
<1> USE NobodyAssumption DEF TablesInv, AdminTypeOK, BookTypeOK, Untaken, applyVars
<1>1. ASSUME NEW ks \in SUBSET Keys, AddClient(u, ks)
      PROVE  TablesInv' /\ Untaken
  <2>1. owned' \in [Uuids -> [Keys -> Nat]]
    BY <1>1, OnceType DEF AddClient
  <2> QED
    BY <1>1, <2>1 DEF AddClient
<1>2. CASE RemoveClient(u)
  BY <1>2, OutdateType DEF RemoveClient, NoAddress
<1>3. CASE RemoveClientRaises(u)
  BY <1>3 DEF RemoveClientRaises
<1>4. ASSUME NEW k \in Keys, AddKey(u, k) \/ AddKeyRaises(u, k)
      PROVE  TablesInv' /\ Untaken
  <2>1. CASE AddKey(u, k)
    BY <2>1 DEF AddKey
  <2>2. CASE AddKeyRaises(u, k)
    BY <2>2 DEF AddKeyRaises
  <2> QED
    BY <1>4, <2>1, <2>2
<1>5. ASSUME NEW k \in Keys, RemoveKey(u, k) \/ RemoveKeyRaises(u, k)
      PROVE  TablesInv' /\ Untaken
  <2>1. CASE RemoveKey(u, k)
    BY <2>1 DEF RemoveKey
  <2>2. CASE RemoveKeyRaises(u, k)
    BY <2>2 DEF RemoveKeyRaises
  <2> QED
    BY <1>5, <2>1, <2>2
<1> QED
  BY <1>1, <1>2, <1>3, <1>4, <1>5 DEF AdminStep

(* What an apply writes to the book it finds free, and its uuid had a      *)
(* session when it was called.                                             *)
LEMMA ApplyTables ==
    ASSUME NEW a \in Tasks, TablesInv, ApplyStep(a)
    PROVE  TablesInv' /\ Untaken
<1> USE NobodyAssumption, TicketAssumption
        DEF TablesInv, AdminTypeOK, BookTypeOK, Untaken, bookVars
<1>1. ASSUME NEW t \in Tickets, ApplyCall(a, t)
      PROVE  TablesInv' /\ Untaken
  <2>1. applying' \in [Tasks -> Tickets \cup {NoTicket}] /\ t.uuid \in drawn
    BY <1>1 DEF ApplyCall
  <2>2. \A b \in Tasks : applying'[b] # NoTicket => applying'[b].uuid \in drawn'
    BY <1>1, <2>1 DEF ApplyCall
  <2> QED
    BY <1>1, <2>1, <2>2 DEF ApplyCall
<1>2. ASSUME applying[a] # NoTicket, ApplyReturn(a)
      PROVE  TablesInv' /\ Untaken
  <2>1. PICK t \in Tickets : t = applying[a]
    BY <1>2
  <2>2. t.uuid \in Uuids /\ t.keys \in SUBSET Keys /\ t.uuid \in drawn
    BY <1>2, <2>1 DEF Tickets
  <2>3. /\ book' = [k \in Keys |-> IF k \in t.keys /\ book[k] = Nobody THEN t.uuid ELSE book[k]]
        /\ owned' = owned \/ owned' = [owned EXCEPT ![t.uuid] = Once(t.keys)]
        /\ overtaken' \in BOOLEAN
        /\ applying' = [applying EXCEPT ![a] = NoTicket]
        /\ UNCHANGED <<sessions, drawn, stale, careful>>
    BY <1>2, <2>1 DEF ApplyReturn
  <2>4. owned' \in [Uuids -> [Keys -> Nat]]
    BY <2>2, <2>3, OnceType
  <2>5. /\ book' \in [Keys -> Uuids \cup {Nobody}]
        /\ \A k \in Keys : book'[k] # Nobody => book'[k] \in drawn'
        /\ Untaken
    BY <2>2, <2>3
  <2> QED
    BY <2>3, <2>4, <2>5
<1>3. CASE ApplyStrictRaises(a)
  BY <1>3 DEF ApplyStrictRaises
<1> QED
  BY <1>1, <1>2, <1>3 DEF ApplyStep, ApplyLenient, ApplyStrict

(* As long as the operator has been careful, a client's step is one of     *)
(* AddressBook's: an address it lists is never missing from the book.      *)
LEMMA ClientCareful ==
    ASSUME NEW u \in Uuids, NEW k \in Keys, AdminInv, careful, ~overtaken,
           ClientStep(u, k) \/ ClientRaises(u, k)
    PROVE  Ownership'
<1>1. BookInv
  BY DEF AdminInv, TablesInv, AdminTypeOK, CarefulOwnership, BookInv
<1>2. ~UnregisterRaises(u, k)
  <2> SUFFICES ASSUME u \in sessions, book[k] = Nobody PROVE ~(owned[u][k] > 0)
    BY DEF UnregisterRaises
  <2>1. owned[u][k] = 0
    BY <1>1, NobodyAssumption DEF BookInv, Ownership
  <2> QED
    BY <2>1
<1>3. NewSession(u) \/ TearDown(u) \/ RegisterKey(u, k) \/ UnregisterKey(u, k)
  BY <1>2 DEF ClientStep, ClientRaises
<1>4. BookInv'
  BY <1>1, <1>3, NewSessionInv, TearDownInv, RegisterKeyInv, UnregisterKeyInv
<1> QED
  BY <1>4 DEF BookInv

(* A call that was careful leaves book and lists in agreement.             *)
LEMMA AdminCareful ==
    ASSUME NEW u \in Uuids, AdminInv, AdminStep(u), careful', ~overtaken'
    PROVE  Ownership'
<1> USE NobodyAssumption
<1>0. AdminTypeOK /\ AdminTypeOK'
  BY AdminTables DEF AdminInv, TablesInv
<1>1. careful /\ ~overtaken
  <2>1. careful' => careful
    BY DEF AdminStep, AddClient, RemoveClient, RemoveClientRaises,
           AddKey, AddKeyRaises, RemoveKey, RemoveKeyRaises
  <2>2. overtaken' = overtaken
    BY DEF AdminStep, AddClient, RemoveClient, RemoveClientRaises,
           AddKey, AddKeyRaises, RemoveKey, RemoveKeyRaises, applyVars
  <2> QED
    BY <2>1, <2>2
<1>2. \A v \in sessions, k \in Keys : owned[v][k] = IF book[k] = v THEN 1 ELSE 0
  BY <1>1 DEF AdminInv, CarefulOwnership, Ownership
<1> USE DEF Ownership, AdminTypeOK, BookTypeOK
<1>3. ASSUME NEW ks \in SUBSET Keys, AddClient(u, ks)
      PROVE  Ownership'
  <2>1. ks = Named(u) /\ owned' = [owned EXCEPT ![u] = Once(ks)] /\ book' = book
    BY <1>3 DEF AddClient
  <2>2. \A k \in Keys : owned'[u][k] = IF book'[k] = u THEN 1 ELSE 0
    BY <1>0, <2>1, OnceType DEF Named
  <2>3. \A v \in sessions' \ {u} : v \in sessions /\ owned'[v] = owned[v]
    BY <1>0, <1>3, <2>1 DEF AddClient
  <2> QED
    BY <1>2, <2>1, <2>2, <2>3
<1>5. CASE RemoveClient(u)
  BY <1>0, <1>2, <1>5 DEF RemoveClient
<1>6. ASSUME NEW k \in Keys, AddKey(u, k) PROVE Ownership'
  BY <1>0, <1>2, <1>6 DEF AddKey
<1>7. ASSUME NEW k \in Keys, RemoveKey(u, k) PROVE Ownership'
  BY <1>0, <1>2, <1>7 DEF RemoveKey
<1> QED
  BY <1>3, <1>5, <1>6, <1>7
  DEF AdminStep, RemoveClientRaises, AddKeyRaises, RemoveKeyRaises

(* So does an apply that nobody overtook: its list is what the book names  *)
(* its session for once the free addresses have been entered.              *)
LEMMA ApplyCareful ==
    ASSUME NEW a \in Tasks, AdminInv, ApplyStep(a), careful', ~overtaken'
    PROVE  Ownership'
<1> USE NobodyAssumption, TicketAssumption
<1>0. AdminTypeOK /\ AdminTypeOK'
  BY ApplyTables DEF AdminInv, TablesInv
<1>1. careful /\ ~overtaken
  <2>1. careful' => careful
    BY DEF ApplyStep, ApplyCall, ApplyLenient, ApplyStrict, ApplyReturn, ApplyStrictRaises
  <2>2. overtaken => overtaken'
    BY DEF ApplyStep, ApplyCall, ApplyLenient, ApplyStrict, ApplyReturn, ApplyStrictRaises
  <2> QED
    BY <2>1, <2>2
<1>2. \A v \in sessions, k \in Keys : owned[v][k] = IF book[k] = v THEN 1 ELSE 0
  BY <1>1 DEF AdminInv, CarefulOwnership, Ownership
<1> USE DEF Ownership, AdminTypeOK, BookTypeOK
<1>3. ASSUME applying[a] # NoTicket, ApplyReturn(a)
      PROVE  Ownership'
  <2>1. PICK t \in Tickets : t = applying[a]
    BY <1>0, <1>3
  <2>2. t.uuid \in Uuids /\ t.keys \in SUBSET Keys
    BY <2>1 DEF Tickets
  <2>3. /\ book' = [k \in Keys |-> IF k \in t.keys /\ book[k] = Nobody THEN t.uuid ELSE book[k]]
        /\ owned' = [owned EXCEPT ![t.uuid] = Once(t.keys)]
        /\ \A k \in Keys : book[k] = t.uuid => k \in t.keys
        /\ \A k \in t.keys : book[k] \in {t.uuid, Nobody}
        /\ sessions' = sessions
    BY <1>3, <2>1 DEF ApplyReturn, Agrees, Named
  <2>4. \A k \in Keys : owned'[t.uuid][k] = IF book'[k] = t.uuid THEN 1 ELSE 0
    BY <1>0, <2>2, <2>3, OnceType
  <2>5. \A v \in sessions \ {t.uuid}, k \in Keys :
          owned'[v] = owned[v] /\ (book'[k] = v <=> book[k] = v)
    BY <1>0, <2>2, <2>3
  <2> QED
    BY <1>2, <2>3, <2>4, <2>5
<1>4. ASSUME UNCHANGED bookVars PROVE Ownership'
  BY <1>2, <1>4 DEF bookVars
<1> QED
  BY <1>3, <1>4 DEF ApplyStep, ApplyCall, ApplyLenient, ApplyStrict, ApplyStrictRaises

LEMMA AdminInvStep == AdminInv /\ [AdminNext]_adminVars => AdminInv' /\ (Untaken \/ UNCHANGED adminVars)
<1> SUFFICES ASSUME AdminInv, [AdminNext]_adminVars
             PROVE  AdminInv' /\ (Untaken \/ UNCHANGED adminVars)
  OBVIOUS
<1>1. ASSUME NEW u \in Uuids, AdminStep(u) PROVE AdminInv' /\ Untaken
  BY <1>1, AdminTables, AdminCareful DEF AdminInv, CarefulOwnership
<1>2. ASSUME NEW u \in Uuids, NEW k \in Keys, ClientStep(u, k) \/ ClientRaises(u, k)
      PROVE  AdminInv' /\ Untaken
  <2>1. careful' = careful /\ overtaken' = overtaken
    BY <1>2 DEF ClientStep, ClientRaises, UnregisterRaises, applyVars
  <2> QED
    BY <1>2, <2>1, ClientTables, ClientCareful DEF AdminInv, CarefulOwnership
<1>3. ASSUME NEW a \in Tasks, ApplyStep(a) PROVE AdminInv' /\ Untaken
  BY <1>3, ApplyTables, ApplyCareful DEF AdminInv, CarefulOwnership
<1>4. CASE UNCHANGED adminVars
  BY <1>4
  DEF AdminInv, TablesInv, AdminTypeOK, BookTypeOK, CarefulOwnership, Ownership, adminVars
<1> QED
  BY <1>1, <1>2, <1>3, <1>4 DEF AdminNext

LEMMA AdminInvAlways == AdminSpec => []AdminInv
  BY AdminInvInit, AdminInvStep, PTL DEF AdminSpec

(* The tables keep their types under any calls of the operator, the ones   *)
(* that raise half-way included (server.py:881-1002).                      *)
THEOREM AdminTypes == AdminSpec => []AdminTypeOK
<1>1. AdminInv => AdminTypeOK
  BY DEF AdminInv, TablesInv
<1> QED
  BY <1>1, AdminInvAlways, PTL

(* A careful operator and any number of clients keep the book and the      *)
(* lists of the live sessions in agreement (server.py:897, 976, 996) until *)
(* an apply_client_state is overtaken in its wait (server.py:957).         *)
THEOREM CarefulOperator == AdminSpec => []CarefulOwnership
<1>1. AdminInv => CarefulOwnership
  BY DEF AdminInv
<1> QED
  BY <1>1, AdminInvAlways, PTL

(* No call, careful or not, hands an address from one session to another   *)
(* (server.py:961, 974).                                                   *)
THEOREM NobodyIsRobbed == AdminSpec => AdminNoSteal
<1>1. AdminInv /\ [AdminNext]_adminVars
      => [\A k \in Keys : book[k] # Nobody => book'[k] \in {book[k], Nobody}]_adminVars
  BY AdminInvStep DEF Untaken
<1> QED
  BY <1>1, AdminInvAlways, PTL DEF AdminSpec, AdminNoSteal

=============================================================================
