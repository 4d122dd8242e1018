# Pipebomb in TLA+

Pipebomb is a small message server and its client: a client logs in over an
encrypted stream and gets a session with a uuid, an inbox and an outbox; it may
publish addresses for itself, store values on the server, post requests to
other sessions' inboxes, answer those it finds in its own, and collect the
answers to what it posted. These modules model what is hard about the server:
coroutines that interleave at every `await`, sessions that outlive connections,
two tables that must agree, queues and locks held while a slow or absent client
is written to.

Line numbers below are of `src/pipebomb/server.py` unless another file is named.

## 1. The system

| Component | State | Operations | Works with |
|---|---|---|---|
| Accepting and login (`accept_clients`, 277-451) | none of its own | key exchange, password, LOGIN, RELOGIN, then a task per connection | writes `client_db` |
| Session handler (`handle_client`, 453-879) | uuid, receive buffer | the request loop (SET ... GET_OUTBOX, BYE), cleanup | everything on the server |
| Sessions and address book | `client_db`, `address_book`, each client's `addresses_owned` | REGISTER, UNREGISTER, WHOHAS; `add_client`, `remove_client`, `apply_client_state`, `add_key`, `remove_key` (881-1002) | handlers and the embedding program |
| Mail | `inbox` (a queue), `outbox` (a dictionary), `outbox_lock` per session | PUT_INBOX, GET_INBOX, PUT_OUTBOX, GET_OUTBOX (696-845) | handlers of different sessions |
| Key-value store | `db`, `db_lock` | SET, GET, DELETE, LIST (525-618), `set_db`, `get_db`, `remove_db` (1003-1014), `server[key]` (223-261) | handlers and the embedding program |
| Checkpointing (1022-1314) | a byte string | `serialize`, `deserialize`, `apply_state` | replaces the tables |
| Life cycle (`start`, `stop`, 208-275) | listening socket, accepters | start n accepters, stop and clear | cancels the handlers |
| Packets and framing (`utils.py` 57-160, `server.py` 48-77) | nonces, buffers | `construct_packet`, `verify_packet`, `extract_packet_frame`, `read_packet_frame` | both ends |
| Client transport (`client.py` `RawClient`) | `tasks`, `input_packets`, cipher, nonces | connect, `send_loop`, `recv_loop`, send, receive (5 s), close | the server, by its stream |
| Client calls (`client.py` `Client`) | none | one coroutine per opcode | `RawClient` |
| gsyncio (`gsyncio/`, `utils.py` 249-422) | Go tasks, their cancel flags | `run_task_async`, `CancelableTask`, the Go side | runs functions on goroutines |

### How they interact, and what is hard

* **One event loop.** `run_task_async` makes a plain asyncio task of a coroutine
  function (`utils.py` 346-348), so the accepters and handlers share one event
  loop, with `multithreaded=True` too, whatever the README's line 249 says of
  goroutines. Between two awaits a handler is alone; at each await any other
  may run. That is the grain of every action here.
* **Sessions outlive connections.** RELOGIN seats a new handler on a session while
  an old one may still be blocked in `inbox.get()`, waiting for a lock or in
  the middle of a send. Both then serve one inbox, and seal with one cipher and
  one pair of nonces. The cipher is replaced before the ACK is sent (397), the
  nonces after (436-437).
* **Sessions end under handlers.** BYE removes the session from `client_db`; a
  second handler of it, or one that is about to write to its outbox, meets a
  `KeyError` at its next look-up. An exception ends the handler's task and skips
  the cleanup at 858-879: only BYE, and a packet that does not verify, reach it.
* **Locks held across sends.** GET_OUTBOX holds the outbox lock, and the store's
  requests hold `db_lock`, until the reply is written.
* **Requests that raise.** GET of an empty value, a payload too short for its
  lengths, or a uuid nobody has end the handler's task in the middle of a request,
  with connection and session left as they are.
* **Nested event loops.** `server[key]` runs the loop inside the callback that uses
  it (223-261, re-entrant by `nest_asyncio`). Such calls return in the opposite
  order of their making, and the lock they wait for is handed on in the order of
  asking.
* **One listening socket.** All accepters await `loop.sock_accept` of one socket
  (281). A selector event loop has one reader for it: the accepter that comes last
  displaces the one before, which is never called again.
* **Tables replaced under handlers.** `stop` clears them, `apply_state` replaces
  them, and `serialize` takes requests out of the inboxes and waits for outbox
  locks in the middle of its iteration over `client_db`.
* **Who reads a stream.** The handshake runs inside the accept loop, with readers
  that throw away what they did not need; the handler keeps its buffer.
* **Two threads.** A function that is not a coroutine runs on a goroutine, and its
  result and its cancellation cross to and from the event loop's thread.
* **Everything is written twice.** The book and the session's own list are
  changed one after the other, by handlers and by the operator's API, and
  UNREGISTER trusts only the list.

### What makes each component correct

* Book: a live session lists an address exactly when the book names it; no
  address changes hands in one step; the book leads to sessions that exist
  (it does not, see 6).
* Mail: each request and each answer is in one place, reaches only the uuid it
  is for, in order, at most once; locks have one holder, and are left.
* Handlers: nobody waits for ever; a session ends with its handlers, and a
  handler only with its session (neither holds, see 6).
* Store: a reply is true until it has gone out; everyone who waits gets the lock
  (not with dict-style calls, see 6).
* Client: a reply answers the call that returns it; both ends count alike; the queue
  of packets knows what is unfinished.
* Checkpoint: no request is served twice across it; the restored tables agree; no
  lock is left behind.
* Front door: packets are read as they were sent, however the stream is cut; somebody
  always listens; a stalled client keeps out nobody who has another accepter to go
  to (it does, see 6); after `stop` nothing happens, and everything ends.
* gsyncio: a task cancelled in time does not run; a result arrives (it may not, see
  6); whoever cancels a task does not wait for it for ever.

The hazards in `PROJECT.json` list each of these at the line where it bites.

## 2. The modules

```
AddressBook <-- AddressBookAdmin <-- MCAddressBookAdmin
     ^              ^-- AddressBookAdminProofs --> AddressBookProofs
     |
     |  AddressBookProofs <-- PostOfficeProofs <-- CheckpointProofs
     |                             |                    |
     |                             v                    v
PostOffice <-- PostOfficeProperties <------------- Checkpoint <-- MCCheckpoint
                   |     ^-- MCPostOffice
                   \-- (INSTANCE) Rpc
DbStore <-- DbStoreProofs          FrontDoor <-- FrontDoorProofs
RawClient <-- RawClientProofs      GoTasks   <-- GoTasksProofs
```

### AddressBook

The two tables as the protocol changes them. `sessions` is the domain of
`client_db`, `drawn` the uuids ever handed out (the book may name one that is
gone), `book` is `address_book`, `owned[u][k]` counts `k` in the list
`addresses_owned`: a list and not a set, since `list.remove` takes out one
occurrence. `NewSession` is a login (421), `RegisterKey` and `UnregisterKey` the
two requests (620-634, 649-668), `TearDown` the cleanup (858-879), whose loop over
the book removes one entry and breaks. Which entry comes first depends on the
order of insertion; the model allows any.

### AddressBookAdmin

Adds the operator's coroutines. All but one check and write without an await
between, so each is one step. `apply_client_state` looks the session up, awaits its
outbox lock (957) and writes afterwards: it is `ApplyCall`, then `ApplyLenient`,
`ApplyStrict` or `ApplyStrictRaises`, in one of the operator's `Tasks`, with anything
else in between. The lock may be free or not, so the wait may last for any time.
The list goes to the object that was looked up: if its session ends meanwhile
(`stale`) it is written to nothing that is in a table, while the book is written
all the same. A call that raises half-way is an action of its own:
`RemoveClientRaises`, `AddKeyRaises`, `RemoveKeyRaises` leave what the code had
written, and `UnregisterRaises` is the handler that dies between `remove` and
`pop`. Two variables are history: `careful` records whether all calls so far went
through with tickets that agreed with the book when they were handed over, and
`overtaken` whether an `apply_client_state` found, after its wait, its session gone
or its ticket no longer agreeing.

### PostOffice

The handlers. `pc[c]` is where the handler of connection `c` is:

| `pc` | in the code |
|---|---|
| `free`, `accepting` | not connected; its login is being acknowledged (421-437) |
| `idle` | awaits the next frame (466-485) |
| `getting` | in `await inbox.get()` (763) |
| `putwait`, `getwait` | awaits an outbox lock (800, 816) |
| `sending`, `sendlock` | in `sock_sendall`, the second holding the outbox lock |
| `refusing` | sends the error of a packet that does not verify (497-512) |
| `crashed`, `ended` | the task is over, by an exception or through the loop's end |

`who` is the uuid it serves, `peer` whether the client still holds its end,
`arg` the item the reply under way (or the awaited lock) is about. `inbox`,
`outbox`, `lockq` are the session's `Queue`, dictionary and `asyncio.Lock` (the
lock's holder first, then its waiters in their order). They are kept apart from
`client_db` because a handler that has got hold of them goes on using them after
the session is gone. Requests are numbered in the order of posting; `from` and
`to` remember whose each is, and stand for what is stored with it. `got` is what
a client holds: the operation ids of its own requests, the requests it may answer
and the answers it has received.

The cryptography is kept as far as it decides which replies can be read:
`cipher[u]` is the connection whose key the session has, and `skew[u]` the nonces
that a handler of another connection has moved (or that RELOGIN has not yet
reset). `Readable` and `Packet` say when a reply or a request verifies; a reply
that does not is lost on its client.

Each action is the code from one await to the next. `Serve` is what a frame makes
the handler do, `Proceed` what it does by itself when an await is over, `Connect`
a login. `Query` stands for requests that change no table of the mail (WHOAMI, WHOHAS,
refusals, unknown opcodes, and those of the store that are answered), `Malformed` for
those that raise although their session is as it should be: GET of an empty value
(556, `utils.py` 93) and payloads too short for their fields (532, 736, 788).
`PutInboxGone` and `PutOutboxGone` raise for a uuid that is not in `client_db`, be it
gone or never given out (747, 799). A request that has to wait
for a lock is two actions (`PutOutboxWait`, `PutOutboxLocked`), and the second
allows for the session having ended in between. A client may go away at any time, and
may send a packet that does not verify (its `RawClient` does so by itself, when
two of its callers send at once, `client.py` 350 and 259).

One thing is assumed of the clients that the server does not enforce (`Answers`): a
client answers a request only if it holds it, once, and to the one who posted it.
The server takes a PUT_OUTBOX for any uuid and any request id, any number of times;
`AtMostOnce`, `OnePlace` and `Routing` say what the server adds to clients that do
as `Client.respond` is meant to be used. Likewise a GET_OUTBOX names an id that the
client was given.

### PostOfficeProperties, Rpc

The properties, and the abstract request they end in. `Rpc` has one state per
request: `unsent`, `queued`, `moving` (being handed over), `held` (by its target,
or in the hands of the handler that takes the answer), `answered`, `returning`,
`done`, or `lost`. A queued request is taken only if no older one for that target
is queued, any set of requests can be lost at once, and nothing goes back.
`StageOf` computes the stage of a request from the state of the handlers: the
refinement mapping of `Abstract`.

### DbStore

The store and its lock, `lockq` again with the holder first. `Run` is a handler's
access once it holds the lock, `Call` an operator's, `Enter`, `Wait` and `Woken`
how they come to it, `SendOver` the end of the reply. GET of an empty value
raises in `construct_packet` (`utils.py` 93), a session that has ended while its
handler waited raises after the access; `async with` releases the lock both
times. `__getitem__` and `__delitem__` have no such protection: a missing key
leaves the lock to `Stuck`. `seen` and `swapped` are history variables: the store
a reply was made from, and whether `apply_state` has replaced the store, which it
does without the lock.

The dict-style calls are actors of their own, `DictCallers`. `Nest` schedules a task
that acquires the lock and runs the event loop inside the callback at hand; `Acquire`
is that task's start; `Unnest` is the return, which takes the lock's head and the
innermost of the calls that run (`frames`). A coroutine that calls `server[key]` is
blocked as a whole meanwhile, and so are those whose callbacks are on the stack; the
model has each call as a caller that does nothing else.

### RawClient

One connected client shared by several callers. A call's number names its packet
and the reply to it. `Request` is a method of `Client`: `send` seals the packet
with the nonce of the next one to be sent and queues it, and `receive` follows
without an await that waits, unless there is no reply. `TakeTask`, `Sent` and
`SendRaises` are `send_loop` before, after and instead of the end of a
`sock_sendall`; the nonce is counted in `Sent`. `Receive` is `recv_loop`, and
`ReceiveRaises` the same for a value that starts with `b"ERR"`, which it takes for an
error (`client.py` 320-326). `undone` is what the queue of packets counts as
unfinished: `send_loop` counts one down after a send (261), and `recv_loop` another
for an ACK that arrives while a packet is queued (`Acknowledge`, 303-305); a count
below zero raises and ends the connection. The queue
of replies is modelled down to the order in which `asyncio.Queue` wakes its
readers (`getters`, then `woken`), since that order is all that joins a reply to
its call: a caller that finds a reply takes it although another has been woken
for it, and that one goes to the end of the line. `TimeOut` leaves the packet in
its queue, and wakes the next reader if this one had been woken. The server is
what a client sees of `PostOffice`: `Verify`, `Answer`, `Refuse`, `GoAway`; a
nonce it does not expect makes it refuse and end. `crowded`, `overlapped`, `jumped`
and `expired` are history variables. An error the server sends is a reply like any
other, as in the code: `recv_loop` looks for `b"ERR"`, the errors start with a zero
byte.

### Checkpoint

`serialize` as one more coroutine beside the handlers of `PostOffice`, then
`deserialize` with `apply_state`. `serialize` copies the book, then goes through the
sessions: it writes the list of addresses, empties the inbox into the checkpoint
(`Drain`), and copies the outbox with its lock held. It lets others run only where
that lock is taken, so `Sweep` is everything up to the next taken lock, or to the
end, and `SaveLocked` what follows when it has come to the head of that line. The
order of iteration is the order of logins; the model allows any. If the number of
sessions has changed meanwhile, the iteration raises (`SizeChanged`).

The checkpoint `snap` is restored once. `Restart` is a crash, of the server and of
all its connections, and a new server with the restored tables; clients keep what
they hold (`got`), and may log in again with their uuids. `RestoreLive` is
`apply_state` on the running server. A handler that waits there (`Holds`) has its
queue and lock from the old tables and goes `astray`: what it finds in them it
cannot send, and it ends at its next look-up of a session that has no cipher, or
sends something its client cannot read. A frame for a restored session to which
nobody has logged in raises (`NoCipher`). `size`, `at` and `saver` are where
`serialize` is; `waited` is history.

### FrontDoor

From `start` to `stop`. `desk[a]` is the variable `client_socket` of accepter `a`: it
names the connection whose handshake the accepter is at, or the last one, until the
next `sock_accept` binds it again. `stage[c]` is how far the server is with a
connection:

| `stage` | in the code |
|---|---|
| `home`, `backlog` | not connected; connected and not accepted |
| `key`, `password`, `login` | the accepter reads that packet (289, 319, 348) |
| `entered`, `unentered` | the last message is being sent, with the session in `client_db` or, for a stale RELOGIN, not yet (362-426) |
| `served`, `over` | its handler runs; has ended |
| `closed`, `left` | refused and closed; given up and perhaps still open (358, 450) |

`waiting` are the accepters whose `sock_accept` found nothing to accept, and `ear`
the one of them that the event loop will call: `Listen` registers a reader for the
listening socket, which takes the place of the one before, whose accepter stays in
`waiting` for ever. `Accept` is for an accepter that comes to `sock_accept` when there
is something to accept, or is `ear`. This is asyncio's selector loop, the default
but on Windows. When the socket of a connection in `left` is closed, if ever, depends
on who else refers to it (`client_db`, 378, 396 and 409, the accepter's variables,
the traceback of an exception), and is not modelled.

`stream[c]` is what the client has sent and the server not read, in cells, with two
to a key, two to a header and one to a body. A `recv` takes any number of cells from
it. `Extract` is `extract_packet_frame`; `ReadFrame` is `read_packet_frame`, whose
buffer is local and gone with its return; `HandleRecv` and `HandleBuffered` are the
handler, whose buffer lasts. The client sends by `MaySend` as `connect` does, one
packet per message of the server (`heard`), and requests without waiting. It may get
its password or its login wrong, send another header, leave or stop sending; clients in
`Prompt` go through the handshake as they should, and send requests after it.

`tasks` is `Server.tasks`, `doomed` the tasks `stop` has called `cancel` on: their next
step is their last. `stop` awaits nothing and is one step. A cancelled task stays in
`tasks`, and with its exception the socket it was at: those connections stay open.

### GoTasks

`run_task_async` for functions that are not coroutines, `CancelableTask`, and the two
threads of each task. `mode` is what was found at import: the Go library, only the
cffi extension, or neither; without the library functions run by
`asyncio.to_thread`. `task[t]` is the asyncio task that awaits the result, `job[t]`
the goroutine or executor thread. Everything on the event loop's thread is one step
per await, except that `Event.wait()` is two (`Await` looks at the event,
`QueueFuture` queues a future), because a goroutine may set the event in between.
The goroutine reads the pointer to its cancellation flag and the flag itself in two
steps (`ReadPointer`, `ReadFlag`), without the mutex, while `CancelGoTask` replaces
the one and sets the other.

`Signal` sets the event in the goroutine's own thread: `asyncio.get_event_loop()`,
there, returns a new loop that is not running, since `server.py` applies
`nest_asyncio` (45), and the wrapper then calls `event.set()` itself (`utils.py`
359-363). `loop` tells whether the waiter's loop runs or is blocked in `select()`;
`Wake` is a socket or a timer, of which the model promises none. `spared` and `raced`
are history variables.

Definitions under a comment "Variant for mutation" are not part of any
specification. Each is one definition of the model with a plausible mistake in
it; put in the place of the original, it makes the property it was written for
fail, which shows that the run would notice.

## 3. The runs

| Run | Configuration | Shows |
|---|---|---|
| `book_admin` | 3 uuids, 2 addresses, lists of at most 2 occurrences, 1 task in `apply_client_state` | `CarefulOwnership`, `AdminNoSteal` with clients and operator |
| `mail` | 3 connections, 2 uuids, 1 address, 1 request | `Ownership`, `Routing`, `OnePlace`, `LockDiscipline`, `LossHasCause`, and `AtMostOnce`: the handlers implement `Rpc` |
| `mail_live` | 2 connections, 1 uuid, 2 requests, fairness | `LockServed`, `InboxServed`, and `AtMostOnce` with two requests in order |
| `store` | 2 handlers, 1 operator's coroutine, 2 dict-style calls, 1 key, 2 values (one empty), fairness | `Fresh`, `StoreServed` |
| `client` | 2 callers, 4 calls | `Pipeline`, `InTurn`, `CountedAlike`, `Accounted` |
| `checkpoint` | 2 connections before and 2 after a crash, 2 uuids, 1 address, 1 request | `ServedOnce`, `OwnershipRestored`, `SaverInLine` |
| `frontdoor` | 2 accepters, 2 clients, one of which may stall, 2 requests, fairness | `ReadAsSent`, `SomebodyListens`, `StopFinal`, `AllEnd`, `EveryoneInTurn` |
| `gotasks` | 2 tasks, all three modes, fairness | `SparedNeverRuns`, `ReportsTrue`, `CancelEnds`, `Delivered` |
| `dangling`, `late_reply`, `go_lost`, `one_listener` | small | the counterexamples of section 6 |

Why the bounds are enough. Takeover needs two connections of one session, and
a client that is served meanwhile a third: `mail` has three. One request is
enough for being in two places or in the wrong one. Order needs two requests for
one target, and two handlers of it: `mail_live` has them. All runs have
`keep_dead_sessions` off, so that sessions go as well as stay (a handler that dies
leaves its session either way); the theorems hold for both. A waiter starves only
if the lock's queue or the inbox's passes it by, which needs two handlers of one session; they answer themselves, so
`mail_live` needs one uuid, and reaches two waiters with two requests. The book's
run needs two addresses (the cleanup loop), and three uuids so that a session can
go, and be added again by the operator, while two others compete; one waiting
`apply_client_state` is overtaken by all the other calls. The store's lock
needs a holder and two waiters, and nesting two dict-style calls; a second key would
add nothing that the lock distinguishes. Four calls let both callers have a call answered, one given up and
one under way, and the line of readers go round.

`serialize` waits only for a lock that a GET_OUTBOX holds, which takes a session
with a request posted; while it waits a second session can log in, register, end or
be served, and be written before or after. Connections are all new after a crash,
so two suffice for both servers. In `frontdoor` the frame and the key are cut at
every place a cut can matter: in the header, between header and body, and across
frames, which needs two requests sent ahead. The client that may stall, leave and get
everything wrong sends no requests, and can hold one accepter while the other has
displaced it, been displaced, or comes back from a handshake of its own. In `gotasks`
each task has its own event, flag and goroutine, and two share the loop: one can keep it busy
while the other's event is set.

A connection is used once and a uuid is drawn once, so the number of logins is
bounded by `Conns` and `Uuids` (in `FrontDoor` by `Clients`); `MaxReq` bounds
PUT_INBOX, in `FrontDoor` the requests of a client, `MaxOwned` the lists (add_key and REGISTER only; the operator's tickets have no repetitions). Symmetry
in connections, uuids and addresses is used for safety only, never in the runs
with liveness. Deadlock is not checked: when all connections are used up and have
ended, nothing is left to do.

## 4. Fairness

`FairSpec` and `DbFairSpec` ask for weak fairness of what a handler does by
itself: the event loop runs every coroutine whose await is over. It includes the
end of a send, which is an assumption about the client: it reads what it is sent
(`RawClient.recv_loop` does nothing else) or goes away, which makes the send fail.
A client that stays and never reads blocks its handler for ever, and with it, as
the lock is held across the send, the outbox or the store: nothing in the code
limits that time. No fairness is asked of clients: they need not log in, send or
leave. `StartHandler` is in the same class. Strong fairness is never used: a lock
waiter, once at the head of its queue, stays enabled until it runs.

The nested calls of `DbFairSpec` are asked only for what the loop can do: `Unnest` is
enabled for the innermost of them when it has the lock, and for no other. A call
that is buried under one that waits for its lock is asked nothing.

`DoorFairSpec` asks that the event loop does not rest while an accepter or a handler
can go on, without a word on which one: each has finitely many steps to do. And that
a client in `Prompt` sends the packet it is waited for, as `RawClient.connect` does;
the others need not. An accepter that was displaced cannot go on, and nothing is
asked of it. `GoFairSpec` asks that the loop runs what is ready on it, that goroutines
and executor threads run, and that callbacks return. It does not ask that the loop
wakes: what wakes a loop blocked in `select()` is a socket, a timer, or
`call_soon_threadsafe`, which is in the model where the code calls it. `Delivered`
therefore has the loop's waking as a premise.

## 5. What is proved

Every safety invariant and action property of the passing runs, for any sets of
connections, clients, uuids, addresses, handlers, tasks, keys and values, and any
number of requests and calls. The assumptions are those declared with the constants:
`NobodyAssumption` (the absence of an entry is no uuid), `PostOfficeAssumption`, `DbAssumption`, `SaverAssumption` and the like (the same for
the other markers; handlers are not callers, `serialize` is not a handler). In all
cases the invariant is a conjunction of named parts, and a step is dealt with by what
it is to those parts (it is quiet, it joins a line, it moves one request) rather
than action by action, so that each action needs only to be shown to be of one
such kind.

* **AddressBookProofs.** `OwnershipHolds`, `NoStealHolds`. `Ownership` alone is not
  inductive: a new session's uuid might already be in the book while its list is
  empty. `BookInv` adds that everything in the book, and every session, has been
  drawn, and a login draws a new uuid.
* **AddressBookAdminProofs.** `AdminTypes`, `CarefulOperator`, `NobodyIsRobbed`.
  `AdminInv` keeps the part about drawn uuids whatever the operator does
  (`TablesInv`): calls that raise half-way break `Ownership`, but a login after them
  still draws a uuid the book does not name. `Ownership` itself holds while the
  operator is careful and no `apply_client_state` is overtaken: the ticket's agreement
  is judged again after the wait, when its session, if it is not `stale`, is still the
  one that was looked up.
* **PostOfficeProofs**, in five parts.
  `PostOfficeOwnership`: what a handler does to the tables between two awaits is one
  of the four changes of `AddressBook` or none, so `BookInv` holds here too, whatever
  handlers crash and sessions are taken over. The part needs nothing about pc, mail
  or locks.
  `PostOfficeTypes` and `LocksHeldInLine`: types depend on locks, since leaving a
  lock with an empty queue would take the tail of nothing, and the locks on types.
  `DeskInv` is both, with `Seated` (a handler that has started has a uuid) and
  `Known` (an id in somebody's hands is that of a posted request, and who
  waits for a lock knows what for). Most actions are quiet: they touch no line of
  waiters, and one lemma (`QuietKeeps`) deals with them; the others
  join a line (`LineJoined`), leave it (`LineLeft`) or start to send at its head.
  `MailIsRouted`: who is given what. `Routing` needs the inboxes in the
  invariant (`InboxRouted`: what is in an inbox was posted to its uuid), and
  `LockDiscipline`, as a handler writes to an outbox, or reads from it, when it
  finds itself at the head. `PostInv` is the conjunction of the three.
  `NeverDuplicated` and `ImplementsRpc`: `OnePlace` counts places, which the provers
  do not do. `Alone` says the same without counting (if a request is at one place it is
  not at another, place by place), and `RpcInv` adds that inboxes hold requests in the
  order of posting (`InboxInOrder`), that ids are used without gaps (`PostedInOrder`)
  and that handlers carry what their place allows (`ArgKinds`). Each action lets a
  request rest, moves it to its next stage or posts it, and from that both theorems
  follow: the first by `RpcInv => OnePlace`, the second because at rest and on the
  move a request's stage is a stutter or a step of `Rpc`.
  `LossesHaveCauses`: `ChannelInv` says when a connection's key is its session's and the
  nonces are in step, so that a reply that is lost on its client has lost its client or
  been overtaken by another login. `LossInv` says of each posted request that it is at
  some stage or one of its two sessions has been `Severed` (ended, or without a
  connection, or with two), for good (`CauseInv`): what other sessions do, and handlers
  that die of a request with nothing in their hands, loses none.
* **CheckpointProofs.** `RestoredOwnership`: a checkpoint written without waiting holds
  both tables as of one moment (`SnapBook`); a book restored from one that waited
  is excluded by the property, and everything else is `BookInv`.
  `NobodyLeftInLine`: `CkptInv` is the lock discipline again, with `serialize` in line
  and with handlers astray. It needs the checkpoint in the invariant, since requests
  come back from it: an answer to a request that was never posted would go to no
  line at all. `Lines` says that whoever sends with a lock is at the head of its line,
  which is what makes the release after a failed send take out nobody else.
  `ServedAtMostOnce`: counting is again replaced by a single place. `OnceInv` says
  that each posted request has some place p such that wherever it is found, it is
  p (`Within`): the inbox, the checkpoint until that is restored, a reply on its way,
  a client, a handler waiting with the answer, or answered. Unlike in PostOffice the
  answer may be in several places at once, as `serialize` copies outboxes and leaves
  them. The inboxes, also those in the checkpoint, hold what was posted to their
  uuid, once (`Tidy`), and what is in an outbox was posted (`OutPost`), so that a
  request is nowhere before it is posted. A step of a handler lets each request rest
  (`RestsWithin`) or moves one; `serialize` moves requests from inboxes to the
  checkpoint (`WrittenOnce`), also when it fails half-way; a restore moves them back
  (`RestoreOnce`), and what the old tables held is gone.
* **DbStoreProofs.** `RepliesAreFresh`, by `DbInv`: whoever sends is the head of
  the lock's queue (`HolderSends`), so no other access can fall in between.
* **RawClientProofs.** `OnePipeline`, `OwnReplyInTurn`, `NeverRefused`, `QueueCounts`.
  `ClientInv` puts the seven queues end to end (`InOrder`); places the callers who wait
  beside the replies they will get, in the order of their calls, as long as nobody has
  timed out or jumped the line (`Turns`); and relates the two ends' counts of nonces,
  with the packet being sent between them, as long as no two packets were sealed at
  once (`Counted`). Without the place of those who have been woken `InTurn` is not
  inductive. `CountsInv` is about the queue's count: while calls do not overlap at most
  one of them is anywhere in the pipeline (`AllThere`), so an ACK never finds a packet
  queued.
* **FrontDoorProofs.** `StopKnowsAll`, `NeverDeaf`, `StopIsFinal`: `DeskInv` adds to the
  types that every connection in its handshake, or left in it, is named by the variable
  of an accepter, and no two accepters name the same (`Placed`), so that an accepter at
  work is not waiting; that while accepters wait one of them has the reader unless one
  of the crew is not waiting; and that after `stop` every task has been told
  (`Staffed`), so that none adds another.
  `ReadWhole`: `WireInv` describes what is in a connection's buffer and stream at each
  stage: exactly the frames that were sent and not yet read, in order (`Whole`), and
  in the handshake at most one, as the client waits for the answer (`InStep`). That is
  why the readers that throw their buffers away lose nothing.
* **GoTasksProofs.** `CancelledInTimeNeverRuns`, `GoReportsTrue`. `GoInv` says that a goroutine
  that was cancelled in time has both reads still before it, or has been turned away,
  with pointer and flag both set (`Turned`), and that ids beyond the counter are
  nobody's (`Unborn`), as a new task must not inherit a cancellation.

`GoTypeOK` and `StageOf` are written so that the provers can use them: the first as
one conjunct per variable, the second with the unsent case taken out of its CASE.

### Only model-checked

The liveness properties `LockServed`, `InboxServed`, `StoreServed`, `AllEnd`, `EveryoneInTurn`, `CancelEnds` and `Delivered`, as temporal proofs
with ENABLED are out of the prover's reach. The provers do not do induction over
data either, so what the sequences contain is stated index by index, never by
recursion or by counting.

## 6. Where code and documents differ

1. `dangling`: the cleanup loop over the address book breaks after one entry
   (862-867). A session with two addresses leaves one in the book; WHOHAS goes on
   answering with a uuid that is gone, and nobody can register the address.
2. `late_reply`: a call that has timed out leaves its reply to the next call, which
   returns it as its own (`client.py` 355-357), and so on from there: the client
   is one reply behind until it is closed.
3. `go_lost`: the README's diagram (287) has the goroutine wake the event loop with
   `call_soon_threadsafe`. The code never gets there (see GoTasks, section 2): if the
   loop is blocked in `select()` with nothing else to wake it, or if the event is
   set while `wait()` is between its look and its queueing of a future, the result
   is there and the task that awaits it is not resumed. The tests in
   `test_gsyncio.py` sleep on the loop meanwhile, which wakes it.
4. `one_listener`: several accepters are no more than one at the door (README 260 says
   that each accepts on its own). The last of those that wait at the listening socket
   has its reader; if its client stalls in the handshake, another one that connects
   stays in the backlog although an accepter has nothing to do. What holds is
   `EveryoneInTurn`: with clients that do not stay in their handshakes everybody gets
   in, whoever was displaced.

Others show in the runs by what their properties exclude. Concurrent callers of
one client get each other's replies when one comes just as a reply for another
has arrived (`InTurn`), and when two packets are sealed before the first is sent,
both have the same nonce and the server refuses the second and ends the session
(`CountedAlike`; the README's lines 349 and 412 say that nonces increase from
packet to packet). An ACK that arrives while another caller's packet is queued counts
that packet as finished; when it has been sent, `task_done` raises and the connection
is closed (`Accounted`). A client's connection also ends when a value it asked for
starts with `ERR` (`ReceiveRaises`).

A session whose client goes without BYE is never torn down, although `keep_dead_sessions`
is off (`server.pyi` 97): `recv` returns `b""`, the frame is still None, and
`verify_packet(None)` raises (490), so the cleanup, with its warning of an abrupt
disconnect, does not run. `EndOfStream`, `BadFrame`, `SendFail`, `Orphan`, `Malformed`
and `PutInboxGone` all end a handler like this. A request for a session that has ended
raises at `client_db[target]` (747, 799), though error 7 is there for the case: the
handler of the asking client dies, with its session and connection left open.

`server[key]` of a missing key raises between acquire and release of `db_lock` (224-226,
235-237), and the store is locked for good (`LeftLocked`). Two uses of `server[key]` can
lock each other and the store for good without any error: one has the lock, and
cannot return as the other runs the loop on top of it, which waits for the lock
(`Buried`). `StoreServed` says that there is no third way.

`apply_client_state` writes what it checked before its wait; overtaken by the end of its
session it enters addresses in the book for a uuid that is gone or that another
session has by then, which does not list them (`CarefulOwnership`). A ticket with an
address of another session puts it in the list all the same (966-969, and `add_client`
897), and the session's UNREGISTER or its end then take the other one's entry out of
the book.

A server that goes on after `serialize` has lost the requests that
were in its inboxes, and if `serialize` fails half-way they are nowhere
(`ServedOnce` says "at most once"); answers are copied and not taken, so an answer
that was collected after a checkpoint can be collected again from the server
restored from it. What is registered while `serialize` waits for a lock can be in
the restored list and not in the book, or the other way round
(`OwnershipRestored`). A reply from the store that `apply_state` replaces before it
has gone out is about a store that was (`Fresh`).

## 7. What is not modelled, and the plan

Next:

1. `RawClient` composed with a handler of `PostOffice`, with reconnection: an
   abstract specification in which each call returns the reply to its own request
   or fails, which the code implements under the conditions of `InTurn`.

Left out for good: `impl.py` (creating sockets, resolving addresses, choosing a
dictionary: no state of its own), build scripts, logging, the value encodings of
`primitive`, and the type stubs and tests, which are read as statements about the
code. The values of nonces are left out as well: where the code uses one twice
(`client.py` 350, `server.py` 397 and 436) can be read off those lines, and a
property that says so would hold or fail by that reading alone; what it does to the
packets is in `PostOffice` (`skew`) and `RawClient`. In the modelled parts these are
abstracted: payloads, timestamps, compression, opcode layout, the byte format of a
checkpoint and the errors a malformed one raises; the operator's edits of a session
while its handler is waiting (`AddressBookAdmin` has the tables, `PostOffice` the
handlers, and they are not composed); the path of a Unix socket, which a second
server takes away from the first (`impl.py` 128); the store in a checkpoint, which
`serialize` copies before it first waits.
