# Ephemeral Chat: a formal model

TLA+ modules that model Ephemeral Chat's rooms, presence, message delivery,
group keys and board games, and the relay and file transfer of its command line companion
e2ecp; TLC configurations that check them on small instances, and TLAPS proofs
of their main properties for every instance.

    tlc -config rooms.cfg MCRoomManager      # one run (see "Runs")
    tlapm RoomManagerProofs.tla              # the proofs of one module

`PROJECT.json` lists the components, the runs, for every definition the source
lines it stands for, the hazards of the code with the properties aimed at them,
the mutations of the code each property is known to catch, the disagreements
between comments and code that the runs exhibit, and the theorems.

## The system

A Node server holds rooms in memory (optionally mirrored to Redis) and relays
end-to-end encrypted messages between the browsers, phones and desktops in a
room. Nothing is meant to outlive a room.

| component | state | operations | hard parts |
|---|---|---|---|
| `server/rooms.js`, `RoomManager` | rooms, expiry timers, creator index, invite tokens, join locks, messages | create, join, leave, expire, delete, invite; add/edit/delete message, vote, react, view once | methods suspended in bcrypt; one room object shared by several suspended calls; five places that delete a room; two clocks for one end |
| `server/index.js`, presence | `roomData` (host, roles, lobby), `pendingKnocks`, `deferredRemovals`, Socket.IO's adapter room | create-room, knock, approve, deny, set role, kick, join, resume, leave, disconnect, sweep | the same user kept in four places; reconnection on a new socket id racing the old one's disconnect and grace-period timer |
| `server/security.js` | session tokens, lockouts, inactivity timers | create, resume, invalidate, clean up | sessions outlive sockets and rooms |
| `server/index.js`, messages | recent `clientMsgId`s, rate limits | send-message | retransmission after a lost acknowledgement; a bounded cache that forgets |
| `server/index.js`, games | game state inside messages: seats, queue, CPU, turn; forfeit timers | join, move, resign, draw, time-out, rematch, queue, tag out, forfeit after a disconnect | four copies of one logic that differ; reports of panels that are behind; timers that keep a seat number |
| `server/index.js`, relays | call, signalling, media and collaborative-editing relays | relay to the room | host election of the watch party |
| `server/drops.js` | drops, verbal-code index, timers | create, claim, expire | claim against expiry, view-once |
| `server/key-registry.js` | prekey bundles, transparency log | register, fetch, append | one-time keys handed out once |
| `server/privacy-pass-issuer.js`, `ohttp-*.js` | spent tokens, keys | issue, redeem | double spending at a prune or a restart |
| `server/nearby.js`, `link-preview.js`, `webauthn.js`, `auth-utils.js` | small caches | look up, verify | time to live |
| `client/src/transport/message-outbox.js` | queue of unsent messages | enqueue, flush, retry, deliver | flush re-entered, back-off, lost acknowledgements |
| `client/src/transport/connection-monitor.js` | link state, probe timers | probe, reconnect | half-open links |
| `client/src/crypto` | ratchet sessions, our sender key, the others' | agree, encrypt, distribute, rotate, decrypt | async functions suspended in Web Crypto that share one key state and one session; departures in between |
| `client/src/components/ChatRoom.jsx` | message list | optimistic echo, merge with history | echo against history against retry |
| `proximity-core`, `client/src/nearby` | chunk swarm | offer, request, transfer | the engine's handlers of what peers send have no caller yet |
| `e2ecp/src/relay` | registry of rooms, members of each, rooms per address | join, change rooms, disconnect, forward | goroutines, three locks, values used after the lock they were read under |
| `e2ecp/src/client` | pending chunks; chunks received, buffered, written | send and receive a file over one of two relays | acknowledgements, retransmission, two readers of one file, either program giving up |
| shells, landing page, native crypto | windows, bindings | | none of it concurrent state |

The components call each other as follows. The socket handlers of `index.js`
call `RoomManager` for everything about rooms, and then adjust `roomData`, the
adapter room and the sessions themselves; they also rewrite `room.users`
directly. Timers (room expiry, grace period), intervals (clean-up every 5
minutes, sweep every 30 s, session clean-up every hour) and bcrypt completions
are callbacks between handlers. Clients see broadcasts and acknowledgements,
and reconnect on new socket ids with a session token. The games are messages of
the room: `disconnect` starts their forfeit timers and `join-room` stops them.
e2ecp is a program of its own: its clients talk over its relay, and a receiver
runs one more relay itself for a sender in the same network.

What makes each correct: a room ends and nothing refers to it afterwards; its
limits hold; an invite admits as often as it says; the four records of a user
agree; a person is listed once; a room with people in it has a live host; a
grace period ends in a return or a removal, never both; a message is broadcast in
order and, once the room has it, not again; a drop is read once; an epoch's key opens
only that epoch's messages; nobody takes two places of a game and no round waits for
somebody who has gone; a relay's counts and rooms go with the connections they are for; a
file that was reported as sent is a whole copy at the receiver.

## What is modelled

### Atomicity

JavaScript runs one callback at a time. In the in-memory mode (the documented
default) awaiting `getRoom`, `saveRoom` and the like only queues a microtask:
no timer, HTTP request or event of another connection comes in between. A
handler is therefore one atomic action except where it really waits:
`bcrypt.hash` in `createRoom`, `bcrypt.compare` in `joinRoom`, and the join lock.

There is one exception. Several events of *one* connection that arrive in a
single read are dispatched one after the other before the microtasks of the
first, so each handler runs up to its first `await` before any of them goes on.
That is how a given-up message and its retry come after a stall, and `Delivery`
models it. The other modules assume that a client's events arrive in reads of
their own: a client waits for the answer to a join, and what matters in a game
comes from several people.

The Redis branch, in which every `getRoom` is a network round trip, is not
modelled.

### `RoomManager.tla`

Rooms, their timers, the creator index, invite tokens and the join mutex, with
the calls `index.js` makes.

* `rooms`, `roomTimers`, `creatorRooms`, `inviteTokens`, `roomToTokens`,
  `joinLocks` are the maps of the same names. A room is a mutable JavaScript
  object that a suspended `joinRoom` still holds after the registry has dropped
  or replaced it, so objects live in `heap` and `rooms` maps a code to an
  object; a cell is collected when nothing refers to it.
* `createCall` and `joinCall` are the calls in progress: `CreateHash` /
  `CreateStore` are `createRoom` before and after `bcrypt.hash`,
  `JoinCompare` / `JoinCompared` are `joinRoom` around `bcrypt.compare`, and
  `JoinEnter` is a call that finds the lock free. `Quiet` says that no call can
  go on by itself (a waiter woken by a lock release runs before any other
  callback), and guards every action that is a callback of its own.
* Time is what is left of each lifetime, in ticks; `Tick` counts down and
  `ExpiryTimer`, `CleanupExpiredRooms`, `CleanupToken` act at zero. The room's
  `expiresAt` and its `setTimeout` are separate, as in the code.
* `SendMessage` is what a message does to its room: `addMessage` refreshes the
  timer of an ephemeral room, as a join does (`RefreshRoomExpiry`).
* A socket stands for a user with a nickname, `Nick`, and a device, `User`. The two
  files compare nicknames differently: `joinRoom` in lower case and trimmed
  (`Fold`), `index.js` exactly, when it looks for the caller's own entries by
  nickname or user id (`Own`). A person's nickname is taken to be written alike at a
  join and at a resumption.
* `leaving` and `sessions` (pairs of a user id and a code) abstract what `Presence`
  models in detail.

Left out: invite-only rooms with permanent tokens (no caller creates one),
message contents, recent-room bookkeeping.

### `Presence.tla`

Who is in one room without a password, and in which role. `members` is the
adapter room (equally: the sockets whose `roomCode` is set), `users` the list
of the room object, `rd` the room's `roomData`, `pending` its `pendingKnocks`,
`sessions` the session tokens, `deferred` the `deferredRemovals` map, and
`grace` the grace-period timers that are running with the token each one's
closure remembers (`Unmatched` if no session was bound to the socket when it
disconnected). A person (nickname and user id) has several socket ids: a
reconnection is a new id of the same person, and the old socket may still be
connected. Two persons differ in their user ids and in their nicknames, in any case
of the letters; look-alikes are a subject of `RoomManager`.

There is one action per handler, trailing clean-up included. `HandOver` is the
host handover that every departure, the sweep and a knock make, with the first
member of the adapter's set abstracted to any member; `Transfer` is the
move of host status and role to a returning person; `Active` is the filter
"connected or within the grace period" of four handlers, and `JoinRoom` has
the different filters of join-room and `joinRoom` one after the other. A
disconnection for inactivity is `Disconnect`. Approval is not required to join,
as in the code. Sockets that nothing remembers may connect again (`Forgotten`):
that keeps the set of ids finite without letting one id mean two things.

Left out: the pre-approved list, one-time codes, geofence and schedule
refusals, lockouts, the join path of a session that expired within its grace
period (it makes one more session).

### `Delivery.tla` and `Channel.tla`

One person's text messages, from the outbox of the page to the broadcast in the
room. `Channel` says what is promised: messages come to the room in the order in
which they were composed, with no gap but what was withdrawn (cleared, or expired).
`Delivery` is how the code does it, and implements `Channel` with `delivered` the
set of messages that were broadcast; a second copy of one adds nothing to it, and
`NoRepeat` says when there is none.

* `outbox` is `entries` of `message-outbox.js`, a Map in insertion order, hence
  a set of numbers; `flush` is where the one pass of `flush()` is suspended
  (`_flushing` is `flush # Idle`), `retry` is `_retryTimer`.
* `Compose`, `ReadEcho`, `Clear`, `RetryTimer`, `ReadJoined` are `enqueue`,
  `markDelivered`, `clear`, the timer's callback and the two places of
  `ChatRoom.jsx` that flush after a join. `Continue` is the loop of `flush` up
  to its next `await`, `Requeue` its `catch`.
* The sender of `ChatRoom.jsx` is `EncryptFails`, then `Emit` or `EmitOffline`
  after the jitter delay, then `ReadAck`, `ReadNak`, `GiveUp` or `Disconnect`.
  The last two and `EmitOffline` reject `emitWithAck`, and `EmitRejected` is
  what `withJitter` makes of that: with jitter off the sender throws; with
  jitter on its promise stays pending (`stuck`).
* `conn` is the connection the client believes it has, `open` those the server
  has, `bound` those whose `socket.roomCode` is set, `net` what is on them.
  Either end may notice a loss first. What was sent on a connection may still
  be read while the client has a new one.
* `NotInRoom`, `Duplicate`, `RateLimited` and `Accept` are the outcomes of
  `send-message` for such a message, in the order of its checks. An accepted one is
  suspended in `addMessage` (`handling`) until all messages of the same read have
  come as far (`reading` counts those that have not); then `Broadcast` stores,
  records, acknowledges and broadcasts one after the other. `seen` is
  `seenClientMsgIds`, and `Forget` its eviction by age or by the cap. So two copies
  of a message in one read are both broadcast, as in the code.
* While a read is handled, the client and the links do not move (`Quiet` in
  `Next`). That loses nothing: no event of another connection is handled then, and
  what a client does meanwhile is the same before the read or after it.
* An acknowledgement belongs to one emit. The client waits for one at a time,
  and the emit it waits for is the last on its connection, so `Reply` reaches
  the client only for that one (`Awaited`; `LastSent` in the proofs shows that
  this is the message the pass is at). A later answer to an emit that was given
  up is ignored.
* `delivered`, `withdrawn` and `forgotten` are history variables.

Left out: messages to chosen recipients (their echo goes to the socket that
handled them), `maxAttempts`, `markFailed` and `retry()`, which have no caller,
joins that are refused, a second room, and the emit buffer of a socket that is
connecting (the server sees no more than a late message, which is modelled).

### `BoardGames.tla`

One game of chess, tic-tac-toe, Connect Four or checkers in a room
(`server/index.js:3360-5000`, and the parts of `disconnect` and `join-room` that
look at games). The four have the same seats, queue of challengers, rounds and
timers in four copies of the code; `kind` says which copy runs, and the
definitions name it where the copies differ.

* `kind`, `status`, `seat`, `cpu`, `turn`, `queue`, `locked`, `maxQueue` are
  fields of `gameData`; `seat` is `white`/`black` or `player1`/`player2`, with the
  person's id, the connection it came with and the nickname it had. `timers` are the
  keys of `chessDisconnectTimeouts` (and siblings), `connected` the connections in
  the room, `nick` the nickname of each.
* A handler reads the message, changes it and saves it without waiting in
  between, so it is one action. `NewRound` and `EndRound` are
  `chessStartNewRound` and its siblings with the test for an empty queue that
  each of their callers makes.
* The board is abstracted to whose turn it is: a move may end the round with any
  outcome the handler can compute. Clocks are abstracted to `Timeout`, which
  comes at any time, since every open panel may send it, late as well.
* `Request` are the handlers that look at who sends them, `Report` those that do
  not. `Resume` and `Rejoin` are the two paths of `join-room`: only the second
  comes to the code that stops a forfeit timer. That code, and a resignation, look
  for a seat by the person's id or by its nickname (`Matches`), and a return makes the
  seat it finds the joiner's. So who joins under the nickname of an absent player
  inherits that player's seat, and may have another place already: `heirs` are those
  it happened to. A person in both seats of a chess game moves neither colour.
* A join under the nickname of somebody in the room is refused. `Rejoin` takes the
  connected people for those in the room; a connection that a resumption has taken
  off the list still counts with its nickname.
* `Forfeit` is the timer's callback, which ends at its first test: it looks for the
  room by `socket.roomCode`, and `handleUserDeparture`, at the end of the handler that set the timer, has
  cleared that. (A join of the same socket that is still in `bcrypt.compare` when it
  disconnects would set it again; the module's rooms have no password.)

Left out: rock-paper-scissors (a client sends its whole state), tetris, 2048,
snake and the games inside calls; a second game in the same room, which would
share the timers of a person with the first (`index.js:6208` keys them by person).

### `SenderKeys.tla`

The sender key of one member of a group room (`client/src/crypto`):
`encryptE2EE`, the rekey after a departure, and the ratchet sessions over which
they hand out the key.

* `key` is the entry of `mySenderKeys` (with `audience`, the peers that could be
  given it when it was drawn), `session` the sending side of `drSessions`, `got`
  the entries for us in each peer's `senderKeys`. A key is a symbol: the random
  key it comes from and how often it was advanced, so that a message opens
  exactly if the key it was made with is one its reader can derive.
* A task is a call of `encryptE2EE` or the rekey after one peer's departure. It
  runs from one await of the Web Crypto API to the next: `Running` names its
  positions in between, where nobody else moves (`Quiet`), `Waiting` those where
  it is suspended. `Seal`, `Ratchet` and `Distribute` are
  `_distributeSenderKey` before, between and after the two awaits of
  `ratchetEncrypt`; `TakeKey`, `TakeChain` and `Commit` are
  `encryptWithSenderKey` around the cipher and the advance.
* `Meet` and `Met` are a key agreement, which takes a while. Of two peers the one
  with the smaller socket id makes the offer; `Smaller` are those whose offers we
  answer. Whether there is a session is asked before the computation, for an entry of
  the roster not at all, so one peer may be agreed with several times (`meeting`
  counts those under way, `repeated` are the peers it happened to). The initiator
  stores the last session, the responder may keep the first: what is sealed for a
  repeated peer may open there or not (`Opening`).
* `Turn` is what a peer's new Diffie-Hellman key does to our sending chain. Whether a
  rotation limit is reached, and the order of the sessions, is left open.
* `GroupReads` has two parts. That a message opens for nobody who had left before it
  was begun is said of every behaviour. That it opens for all it is meant for is said
  as long as no two tasks overlapped, and not of repeated peers: what goes wrong with
  one of them must not reach the others.
* `since` and `overlapped` are history variables; `sent` is the last message with
  those who read it, those it was meant for and those who had left before.

Simplified: HKDF reads the bytes of the key one await after it is given the
array, so a rotation in that moment makes it derive from the zeroed array where
the module derives from the old key; neither is a key that a later message would
open with. A key agreement that fails never ends. `dhRatchetStep` is one step.
`KeysOnlyToMembers` says what is handed out. It does not say what can be derived:
after an overlap `encryptWithSenderKey` can store the successor of an old chain key
under a new id (`sender-key.js:82`, `e2ee-manager.js:552`), which whoever was given
the old chain could compute; that one cannot open a message under an id it was not
given is a test of the id in its client, and that test is what `Opens` models.
Left out: the receiving side beyond one message at a time in order (skipped keys,
epoch barriers), the beginning and the end of the whole session, a member that
starts its session again, `mls-key-package` (nothing emits it), and departures
without a `peer-left` (a grace period that ends, a kick), after which nothing is
rekeyed.

### `Relay.tla`

The relay of e2ecp (`relay.go`). `wsHandler` runs in a goroutine per
connection. The registry of rooms, the members of a room object and the counts
per address have a lock each, and no goroutine holds two, so a step is one
critical section and `pc` says which comes next.

* `rooms` is the registry, `clients` the member map of each room object, in the
  registry or only in some goroutine's hands (`obj`), `ipRooms` the counts.
* `Reserve`, `Create`, `Refuse`, `Insert`, `Settle` are a join: `reserveIPRoom`,
  `getOrCreateRoom`, the answer without a room, the entry in the member map, and
  `getPeerIPs`, where a room without members makes the goroutine panic.
* `Lookup`, `Delete`, `Release`, `Unlist` are `removeClientFromRoom`, which a
  join of another room and the end of a connection call. `empty` and `leaving`
  are its locals that outlive the lock they were read under.
* `IdsOf` says which ids a connection may give: a command line client has one
  of its own, a browser tab that reconnects (`web/src/App.jsx:1229`) gives the
  id of a connection that the server may not know to be dead. Every `Join` assigns the
  id it gives, also one for the room the connection is in already. A removal looks
  under the last id, so the entry under an earlier one stays: `renamed` are the
  connections that gave a second id while in a room, which `NoGhosts` leaves out.

Left out: what is sent to clients, the log in the optional database, the rest of
the HTTP interface.

### `FileTransfer.tla` and `FileCopy.tla`

A file sent from one command line client to another (`send.go`, `receive.go`).
`FileCopy` is the promise: the copy grows by the chunks in order, each once; the
sender reports success, and the receiver keeps the file, of a whole copy only.
`FileTransfer` implements it with the receiver's `file`, `open`, `sent` and
`status`.

* The global relay and the receiver's own are the two `Paths`. A relay passes on
  in order what a client sends once the other one has joined and drops it before
  that, which is how `relay.go` treats a room of two.
* The sender's readers, its transfer goroutine with its retransmitter, the
  receiver's main loop and its local reader are the goroutines; each action is
  what one of them does for one message or one tick. Both programs may be killed
  or lose their connection, with the end of what they sent (`SenderDies`,
  `ReceiverDies`).
* `Finish` joins two steps that nothing comes between, the `file_end` message and
  the sender's report that the file was sent.
* `StartTransfer` chooses the path once; `SenderGetsAddresses` and
  `ReceiverJoinsLocal` race for it. `Take` is the receiver's reordering buffer.
  Paths are first in, first out, and a chunk is only dropped together with
  everything before it, so the buffer fills only in the mutants.
* Retries and give-ups may come at any time they are armed; `SenderGivesUp`
  stands for the three ways a sender runs out of patience.

Left out: text, archives, hashes and encryption; a third client of the room.

## Runs

| run | instance | shows |
|---|---|---|
| `rooms` | 1 code with a password, 1 socket, 1 token, 1 creation and 2 joins overlapping, deletion during `bcrypt.compare` | no entry outlives its room, the mutex holds, a token admits once; liveness: every room ends, every join is answered |
| `rooms_open` | 2 codes, 2 creators, 2 modes, no passwords; two sockets of one person and a guest whose nickname differs in case only | every room has a timer, the creator index is exact, no nickname is listed twice as it is written |
| `presence` | a person with two sockets, another with one, 1 token, lobby of 1 | list, adapter room, metadata and grace-period timers stay in step; liveness: a host's departure leaves a live host, a disconnected user leaves the list |
| `delivery` | 2 messages, one with a time to live, 2 connections, jitter on and off | messages come in order, none is lost or stranded, none that the room has is broadcast again unless its id was dropped or copies came in one read; the channel is implemented; liveness without jitter |
| `relay` | 3 connections, 2 addresses, 2 room names, limits of 1 | counts are exact, rooms without members go, no ghosts but of connections that changed their id, a joiner finds itself in its room |
| `transfer` | 3 chunks, 1 retry, both relays, deaths at any time | acknowledged chunks are written, one reader has the transfer, the promise is implemented; liveness: both programs end |
| `sender_keys` | 3 peers and one who is met on the way, 3 messages, departures and key agreements in all, repeated ones too, rotations | no key made after a departure reaches who left, and no message opens for them; without overlaps it opens for all it is for but repeated peers |
| `games` | 4 people, one of whom also goes by another's nickname, chess, tic-tac-toe and checkers | nobody in two places but by inheriting a seat, status, seats and queue agree, challengers are served in order |
| `rooms_active` | *violation* | an occupied room is deleted by `expiresAt` although joins and messages restarted its timer |
| `delivery_wedged` | *violation* | with jitter on, one time-out ends all sending until the page is reloaded |
| `sender_keys_overlap` | *violation* | a departure during a group message leaves a remaining peer unable to read the next |
| `games_forfeit` | *violation* | a round waits without end for a player whose connection failed, although a forfeit was announced |

Bounds. Two overlapping joins are enough for the mutex, since the lock is per
room and a third call only waits; three heap cells are two per code plus the
one a creation is about to fill, so a replaced and a resurrected room fit. Two
sockets of one person and one of somebody else are what a resumption and a join
compare. Lifetimes of 1 and 2 ticks order the ten-minute `expiresAt` before the
two-hour timer. In `Presence`, two ids of one person are one reconnection with
the old socket still half-open, and a third socket gives other members,
promotions and kicks; ids are reused once forgotten, so chains of
reconnections are covered. The lobby limit is 1 (100 in the code). The
persistence modes differ in `AllowEmpty` only; the run has the mode in which a
room also ends when it is empty. The role `tier2` behaves as `user` wherever a
guard looks at it and is left out of the run.

`rooms` and `presence` check liveness, which needs small instances without
symmetry: one code and one token. All their safety properties are proved for
every instance (below), with several tokens and sockets, creators, and both
values of `AllowEmpty`.

In `Delivery` two messages are enough for one to overtake another or to be
stuck behind it. An id of a connection is used again when the server has
dropped it, so there are chains of reconnections, with two connections alive on
the server at a time. `MaxInFlight` of 2 puts a given-up copy and its retry
on one connection. One message may expire and lose its id, once each. Time is
not counted: an acknowledgement may always come too late, and an entry with a
time to live may be found expired whenever the loop gets to it.

In `relay` two of the connections may have the same id and a third stands for
somebody else; one room at a time and one per address reach both limits, and two
names a change of rooms. Four objects are enough: three goroutines can keep
unregistered ones while the registry has a fourth. In `transfer` three
chunks are a first, a middle and a last one, each sent once more. In `games`
four people are two players and two challengers, or three against the CPU, so
that the order of a queue can be seen; a host who asks for a queue of one makes
it full or shorter than it is. `Unlimited` is 2: it bounds the queue of the games
that have no limit. One person, Billie, also takes the creator's nickname when it is
free. The constraint `FewerWhenRenamed` keeps the fourth person out of those states,
the queue open and the timers at one, since an inherited seat needs three people. In `sender_keys` three of the bounded events
(`MaxEvents`) are a message, a departure and a message, two departures and a
message to the one who stays, or two agreements with one peer and a message; a
rotation may come with every message. The peer who is met on the way has the
smaller id, and the three others the greater, so both ways of a repeated agreement
occur. One call at a time overlaps with up to three rekeys. One turn of each ratchet is enough to
have a session without a sending chain, one that gets it, and one whose chain
is replaced. Connect Four has the handlers of tic-tac-toe (the
same definitions) and is left out of the run.

Deadlock is checked except in `relay`, where every goroutine may have ended by a
panic, `transfer`, where both programs end, and `sender_keys`, where the bounded
events run out.

`ListedAreMembers` does not mean that nobody is in the adapter room without
being listed: a resumption in a room that is gone leaves such a socket, and
the runs contain it. `PersonListedOnce` and `HostMovesOn` hold in spite of it.

Fairness. Node runs due timers and intervals, and bcrypt calls end. In
`Presence` a due grace-period timer and a sweep that has something to do stay
enabled until they run, hence weak fairness. In `RoomManager` callbacks wait
for `Quiet`, which is interrupted again and again by calls going on, hence
strong fairness; waiters on a join lock are resumed in the order in which they
came, hence strong fairness for `JoinEnter`. Nothing is assumed of users or of
the network there.

In `Delivery`, due timers run, what has arrived is read, and a handler suspended in
`addMessage` goes on (weak fairness). A
client that tries again and again sends in the end, which needs its room key; it
is within the rate limit for one of its attempts, and has its answer before its
patience is over: strong fairness (of `Emit`, of the handling of the awaited
message, and of `ReadAck`), the usual assumption of a lossy link,
without which retrying forever proves nothing. `SettlesWithoutJitter` and
`EntriesSettle` have the same premise besides, `<>[]LinkGood`: in the end
the client stays on one connection that is bound to its room, and the server
keeps up with it. `LinkGood` can stay true while a message is being sent, so the
premise is met by behaviours that have something to deliver; the
counterexample of `delivery_wedged` is one.

In `FileTransfer` the goroutines of both clients are scheduled and their tickers
tick (weak fairness of each); a user who is asked whether to overwrite a file
answers. Nothing is assumed of the connections: they may break at any time. In
`BoardGames` (for `games_forfeit`) a timer that is not stopped fires; nothing is
assumed of the players.

## Findings

* `delivery_wedged`: `withJitter` (`client/src/crypto/traffic-padding.js:301`)
  awaits the emit in a timer callback and has no `reject`. The default preset
  has jitter on. When an acknowledgement times out or the connection breaks in
  the middle of an emit, the sender's promise never settles and the outbox never
  flushes again, although `message-outbox.js` promises to retry until the
  server acknowledges. An answer with `success: false` does not have the
  problem, because it is thrown outside `withJitter`.
* `rooms_active`: the clean-up deletes rooms by `expiresAt`, which activity
  does not move, although it restarts the room's timer.
* `games_forfeit`: `disconnect` schedules an auto-forfeit for a player of chess,
  checkers, tic-tac-toe or Connect Four (`index.js:6188`, `:6242`, `:6297`; the
  one of tetris, `:6109`, is written alike), and the other player's panel counts
  down to it. The callback looks the room up by `socket.roomCode` (`:6215`), which
  the same handler has cleared by then (`:5539`), so nothing happens.
* `sender_keys_overlap`: a departure that is handled while `encryptE2EE` is
  suspended works on the same key state and the same sessions
  (`e2ee-manager.js:552`, `:556`). In the shortest run the message's
  distribution to a peer and the rekey's are both in `ratchetEncrypt`, which
  reads `sendChainKey` before an await and takes `sendCounter` after it
  (`double-ratchet.js:111`, `:117`): two parcels under one chain key with two
  numbers, of which the peer opens one, and nothing later on that chain. In a
  second, `encryptWithSenderKey` stores the successor of the old chain key over
  the rotated one (`sender-key.js:82`), and nobody has what follows. The test
  "remaining peers keep decrypting" (`client/test/e2ee-manager.test.js:289`)
  lets everything settle before it goes on.

Seen while modelling, without a run of its own:

* Two overlapping creations with a password exceed the creator's limit ("Check
  per-creator room limit (5 rooms max)", `rooms.js:65`): it is looked at before
  `bcrypt.hash` (`rooms.js:126`) and not after it, and `CreateStore` has no guard.
* A resumption during another join's `bcrypt.compare` lists a nickname twice: it
  does not take the join lock (`rooms.js:247`, `index.js:2014`). `NicknamesUnique`
  is violated in `rooms_open.cfg` with `Passwords = {TRUE}` and a creation call.
* A resumption looks for other entries of its nickname exactly as it is written
  (`index.js:2014-2017`), where `joinRoom` compares in lower case
  (`rooms.js:286-291`). When "alex" joins after the clean-up took "Alex" in its grace
  period off the list, and "Alex" then resumes, both are listed, without any password
  and in spite of "Mutex to prevent race conditions (duplicate nicknames)"
  (`rooms.js:247`) and "(case-insensitive)" (`rooms.js:288`). `NicknamesUnique` is
  therefore about nicknames as they are written; with `Fold` in it TLC finds this.
* Two copies of a message that come in one read, a given-up one and its retry
  after a stall, are both looked up (`index.js:2477`) before the first is recorded
  behind the `await` of `addMessage` (`:2969`, `:2974`), and both are broadcast. The
  comments say that "each logical message is broadcast exactly once" (`:424`) and
  "This makes retries harmless" (`:2480`). `NoRepeat` says what holds.
* A relay client that joins again under another id leaves an entry under the first:
  `relay.go:311` assigns the id, also for the room it is in, and `relay.go:192`
  deletes the entry of the last one. The others see that ghost, and its room
  stays registered and counts against `maxRooms` until somebody joins it under
  that id and leaves.
* Who joins under the nickname of an absent player is given that player's seat
  (`index.js:2280-2324`), also when it sits in the other seat or waits in the queue:
  then it has two places of the game. `SeatsDistinct` leaves such heirs out.
* Two key agreements with one peer (its bundle while its roster entry is being
  handled: `e2ee-manager.js:129-153` does not ask for a session, `:191` and `:459` ask
  before they await) leave the ends with sessions that do not match: the initiator
  stores the last (`:436`), the responder may keep the first. The session can send,
  but the peer opens nothing of it.
* `joinRoom` filters the list to connected sockets (`rooms.js:270`) and so ends
  the place on the list that `index.js:2175` keeps for a user in its grace period.
* The lobby can be full with nobody in it: its clean-up at a disconnection
  (`index.js:6103`) asks for a `roomCode` that a waiting socket does not have.
* Two clients of one room name can be in different room objects and never meet:
  `removeClientFromRoom` deletes the room by name on a stale `empty`
  (`relay.go:214`), and the removal of a dead connection deletes the entry of its
  successor with the same id (`relay.go:192`). `NoGhosts` and `JoinerListed` say
  what holds in spite of it.
* In tic-tac-toe, Connect Four and checkers, when the person in the first seat
  loses to the CPU with a challenger waiting, the CPU is switched off and its
  entry stays in the second seat (`index.js:3871` tests the seat, its siblings do
  not): `ChessCpuSeat` without `kind = "chess"`.
* Checkers: the server passes the turn after every move (`index.js:4826`), while
  the panel continues a multiple jump with the same player.
* `peer-left` is emitted for a departure with the button only (`index.js:5622`), not
  at the end of a grace period or for a kick: nobody rekeys then. A peer that
  joins after the key was made, or whose session had no sending chain, gets no
  group key until the next rotation.
* Were the forfeit to work, it would also strike a player who is back: session
  resumption returns (`index.js:2062`) before the code that stops the timers, and
  the callback does not look at who has the seat by then.
* Leaving a room with the button announces no forfeit, nor does a challenger that
  was offline when its turn came: the other player can only resign.

## Proofs

`RoomManagerProofs.tla`, `RoomManagerOpenProofs.tla`, `PresenceProofs.tla`,
`DeliveryProofs.tla`, `BoardGamesProofs.tla`, `SenderKeysProofs.tla`,
`RelayProofs.tla` and `FileTransferProofs.tla`, for any sockets, codes, tokens,
calls, messages, people, peers, connections, chunks and limits that satisfy the
`ASSUME`s (`None` is no value, types of the numbers). Every invariant and every
action property of the passing runs, and both refinements, are theorems. To see
one of the inductive invariants below at work, add its definitions to the MC
module and its name to the run's INVARIANTS.

* `TypeCorrect`, `PresenceTypeCorrect`: `TypeOK` is inductive. In `RoomManager` it
  says that a call in progress refers to a heap cell, and that no timer has more to
  run than its creation or one refresh gave it: refreshes do not add up.
* `JoinMutexHolds`: inductive with `TypeOK`. Only `JoinCompare` takes a lock
  and only the holder's `JoinCompared` releases it; `ReleaseKeepsMutex` is the
  lemma.
* `TokenMapsAgree`: needs that a token that was never minted has no entry
  (`Unminted`).
* `NoDanglingHolds`: timers and tokens refer to registered codes. `RoomSteps`
  reduces the actions to two shapes: some rooms are deleted with all their
  entries, or every room stays and only a registered one gains a timer.
* `OneTimeTokenHolds`: the strengthening `TokenHistory` says that a token was
  used at most once, that a live one was not used, and that the suspended joins
  that hold an unspent token are all for its room, where `JoinMutex` leaves only
  one; so the check before `bcrypt.compare` is still valid after it.
* `RoomHasTimerHolds`, `CreatorIndexHolds` and `NicknamesUniqueHolds` have the
  hypothesis `NoPasswords`, `Passwords \subseteq {FALSE}`, which is what
  `rooms_open.cfg` sets. It is needed: with a password, `createRoom` and `joinRoom`
  await bcrypt between their checks and what they store, and TLC finds each of
  the three violated (two rooms created at once for one code; a room that comes
  back without its timer when a join that awaited bcrypt stores it after the
  creator deleted it; a resumption during that await). The invariant is
  `OpenInv == Calm /\ Timed /\ RoomHasTimer /\ CreatorIndexExact /\
  NicknamesUnique`: `Calm` says that no call is suspended, `Timed` that the timer of
  a room has a mode, so that a refresh never makes one of no timer. The steps are of
  three kinds: a room is created, some are deleted with all their entries, or the
  registry stays. For the nicknames, a join leaves only entries that differ from
  the newcomer's in more than case, and a resumption removes those that are the
  same as written, so the list has none twice (`UniqueLists`).
* `DeferralsRunHolds`: needs `SessionsFollow`, that the session of a token with
  an entry still names the entry's dead socket or is gone, so no second
  timer is matched to the same token.
* `PersonListedOnceHolds`: `ListSteps` shows that a step shortens the list or
  admits one socket after the entries of the same person are gone.
* `ListedAreMembersHolds`: with `TypeOK` alone; `ListShrinks` covers clean-ups.
* `HostMovesOnHolds`: an action property, from `DeferralsRun` and two further
  invariants. `Settled`: the adapter room holds connected sockets only, so a
  promoted member is one; a timer runs for a dead socket only; a room that is
  gone lists nobody. `Owned`: a session's person is that of its socket and of
  the entry under its token. It is why a person who returns cancels the timers
  of its own sockets only, and a host whose timer it cancels is among the entries
  whose status moves to the new socket. `TransferMovesHost` is the lemma.
* `NoRepeatHolds`: an action property, from `Recorded`, that a message was broadcast
  exactly if its id is known or was dropped. What was broadcast and not dropped is
  then found by the lookup, so only messages the room does not have are accepted.
* `NoneStrandedHolds`: only `Requeue` ends a pass over a queue that is not empty.
* `NoneLostHolds` and `ChannelImplemented` share an inductive invariant,
  `Inductive == TypeOK /\ Recorded /\ LastSent /\ OneRead /\ Truthful /\ NoneLost
  /\ InOrder`. `LastSent` ties the emit the client waits for to the message it is at;
  `OneRead` says that a read is of one connection, and that an answer that is due is
  of the last message handled, so that the handler that goes on last is the one the
  client waits for. `Truthful` says that an acknowledgement or echo on its way tells of a message
  the room has, so what they remove was delivered, and `InOrder` that the
  message the pass is at and every copy in flight, on every connection, has
  nothing outstanding before it. `NoneLost` gives that for the head of the
  queue; `ReachedStays` keeps it. A broadcast then is a step of `Channel` or,
  for a second copy or an id that was dropped, changes nothing `Channel` sees.
* `BoardTypeCorrect`, `SeatsDistinctHolds`, `StatusAgreesHolds` and
  `ChessCpuSeatHolds` share the invariant
  `Inv == TypeOK /\ SeatsDistinct /\ StatusAgrees /\ ChessCpuSeat /\ Held`. `Held`
  is needed because the properties alone are not inductive: the first seat is
  always a person's (the CPU only ever sits second), and a game other than chess
  finishes only after it was played, so what a rematch or a new round moves is
  known. Each handler moves people from one place to another or adds somebody
  who had none; a return that takes over a seat makes its person an heir, and
  `Apart` carries the exception through the moves. There is one lemma per handler.
* `QueueHonouredHolds`: the lemma `Served`, that seating the first challenger
  leaves the rest of the queue in its order.
* `TypeCorrect` of `SenderKeys` follows from its `IInv`: what the locals of a
  task are at each of its positions, that a task past its first step has a key to
  work on, and that one task at a time is between two awaits.
* `KeysOnlyToMembersHolds`: with `IInv` and `KeysPast`, that every key given or
  being sealed has been drawn, and one being sealed for somebody who left was
  drawn before the departure; so what a distribution hands over after its await
  is no key of the time since. `KeysKept` is the lemma for the steps that hand
  over nothing, and `PeerLeftKeys` shows why the departure itself starts no
  distribution to who left: its session is gone before the new key is drawn.
* `GroupReadsHolds`: with `IInv` and `KeysPast`, in two parts. That a message opens
  for nobody who had left follows from `Closed`, whatever overlaps: `Younger` says
  that the key in use was drawn after every departure, so by `KeysPast` nobody who
  left was given its id, and `Excluded` that who had left when a call began still
  has, and that a message to one peer is not to one of them. The other part is the invariant `Undisturbed`, that
  `Calm == Levels /\ Sessions /\ Reached /\ Positions` holds as long as no two tasks
  have overlapped. `Positions` says that what a task read before an await is still so
  after it; `Levels` that a chain is as far as its counter, in our key and in every
  copy; `Sessions` the same of the ratchets of peers met once, and that whom a key
  was made for can still be sent it, so nobody is passed over; `Reached` that all
  of them who have a session (`Reachable`) have the key or are still to come in a
  distribution. `KeyOpens` concludes that the message opens for them. Of a
  repeated peer nothing is assumed, neither its session nor what it was given.
* `IInvHolds` is the base of the theorems about `Relay`. `IInv` says what the
  variables of a goroutine are at each of its positions (`Locals`), that a
  registered object has one name and each goroutine that works on it is in the
  room of that name (`OneName`: it is why deleting a room by its name deletes
  the right one or none), that an object nobody refers to is blank
  (`Forgotten`, so a new room starts without members), and that what a
  registered room lists is a connection before its own removal (`Entries`).
  `NoGhostsHolds` follows from `Entries`, which leaves out connections that changed
  their id while in a room.
* `JoinerListedHolds`: with `IInv`; the ids of the others are not the joiner's,
  and an object it works on is kept in memory, registered or not.
* `EmptyRoomsGoHolds`: with `IInv`; the goroutine that empties a room carries
  "empty" from the deletion of its entry to the deletion of the room, and
  `OneName` says that the name it then deletes is that room's.
* `IPCountsExactHolds`: with `IInv`, by cardinalities: a reservation adds one
  connection to those that account for a count, a refusal or a release removes
  one, and so finds a count of at least one; every other step leaves them.
  With `IInv` it gives `TypeCorrect` of `Relay`.

* `FileTransferProofs`: `TypeCorrect`, `AckedWrittenHolds`, `OneReaderHolds` and
  `CopyImplemented` from one invariant, `IInv == TypeOK /\ Phased /\ Ended /\
  Copied /\ AcksTrue /\ OneWay /\ InOrder`. One relay carries a transfer from
  its start to its end (`OneWay`) and delivers in order, so a receiver that has
  opened its file, or has the start on its way, has every chunk it misses on its
  way in order as well, unless the sender's end is lost (`InOrder`): a chunk sent
  again may come twice, but none overtakes another. So the receiver's buffer of
  chunks out of turn stays empty and the file is always the first chunks of the
  original (`Copied`), an acknowledgement is of a chunk in it (`AcksTrue`), and
  `file_end`, behind them all, finds it whole. Each step then is one of
  `FileCopy` or leaves what `FileCopy` sees. The lemmas at the start say what
  receiving the head and sending at the end do to such a queue.

Only model-checked: liveness (`RoomsEnd`, `JoinsAnswered`, `GhostsGo`,
`SettlesWithoutJitter`, `TransferEnds`), which needs `ENABLED` and is out of the
prover's reach, and the violations, which are counterexamples.

## Plan

In this order; each module is written without RECURSIVE operators so that it
can be proved about.

1. Done: `RoomManager`, `Presence`, `Delivery` over `Channel`, `BoardGames`,
   `Relay`, `FileTransfer` over `FileCopy`, `SenderKeys`.
2. Done: the proofs of their safety properties and of both refinements.
3. The receiving side of `SenderKeys`: skipped keys, epoch barriers, several
   messages in decryption at once; then its composition with `Presence`.
4. `Messages`: votes, reactions, view-once and the message cap of `rooms.js`.
5. `Drops`, `PrivacyPass`: one claim, one redemption, across expiry and prune.
6. The connection monitor.

Further questions for `Delivery`: a second room (a jittered send that goes out
after the outbox was cleared), a permanent error at the head of the queue, and
the order in which one receiver merges echo and history. `Delivery` with
`Presence` would say when the rejoin that `ReadJoined` waits for comes.

Theorems worth having next, with their modules: a vote or a view counted once, a drop or a token
redeemed once, no message decrypted with a key of an epoch its receiver left.

Not modelled at all: cryptographic algorithms, rendering, packaging, shells,
input validation and rate limits by address (`PROJECT.json` has the reason per
component).
