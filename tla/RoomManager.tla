---------------------------- MODULE RoomManager ----------------------------
(***************************************************************************)
(* The room registry of server/rooms.js in its in-memory mode, with the    *)
(* calls server/index.js makes into it.                                    *)
(*                                                                         *)
(* JavaScript runs one callback at a time, so a method of RoomManager is   *)
(* atomic between two points where it really suspends: bcrypt.hash in      *)
(* createRoom, bcrypt.compare in joinRoom, and the wait for the join lock. *)
(* (Awaiting getRoom or saveRoom only queues a microtask: no timer, HTTP   *)
(* request or event of another connection comes in between.)  A room is a  *)
(* JavaScript object; a joinRoom suspended in bcrypt.compare holds a       *)
(* reference to it while the registry may drop or replace it, so objects   *)
(* live in a heap and rooms maps a code to an object.                      *)
(*                                                                         *)
(* Time is kept as what is left of each lifetime, in abstract ticks.       *)
(***************************************************************************)
EXTENDS Naturals, FiniteSets

CONSTANTS
    Codes,              \* room codes and custom phrases
    Creators,           \* creatorId values
    Sockets,            \* socket ids (an id is reused only once forgotten)
    Tokens,             \* one-time invite tokens, in the order nothing fixes
    Objects,            \* heap cells for room objects
    CreateCalls,        \* createRoom calls that may overlap
    JoinCalls,          \* joinRoom calls that may overlap
    Nick,               \* the nickname behind each socket, as a list stores it
    Fold,               \* a nickname in lower case and trimmed
    User,               \* the user id (of the device) behind each socket
    Modes,              \* the persistence modes in use
    Passwords,          \* the values "has a password" may take for a new room
    Lifetime,           \* ticks a room lives, per persistence mode
    DefaultLifetime,    \* ROOM_DEFAULT_LIFETIME_MS, in ticks
    TokenLifetime,      \* life of an invite token, in ticks
    MaxRoomsPerCreator, \* MAX_ROOMS_PER_CREATOR
    MaxServerRooms,     \* MAX_SERVER_ROOMS
    MaxUsers,           \* settings.maxUsers
    None                \* "no value": null, undefined, a missing map key

Users == {User[s] : s \in Sockets}

ASSUME NoneIsNoValue ==
    /\ None \notin Codes /\ None \notin Creators /\ None \notin Sockets
    /\ None \notin Tokens /\ None \notin Objects /\ None \notin {"ephemeral", "gathering"}
    /\ None \notin CreateCalls /\ None \notin JoinCalls
\* gathering, social and extended differ from each other in lifetime only.
ASSUME ParametersTyped ==
    /\ Modes \subseteq {"ephemeral", "gathering"}
    /\ Passwords \subseteq BOOLEAN
    /\ Lifetime \in [Modes -> Nat \ {0}]
    /\ DefaultLifetime \in Nat \ {0} /\ TokenLifetime \in Nat \ {0}
    /\ MaxRoomsPerCreator \in Nat /\ MaxServerRooms \in Nat /\ MaxUsers \in Nat

VARIABLES
    rooms,         \* Map code -> room object (None: no such key)
    heap,          \* the room objects something still refers to
    roomTimers,    \* Map code -> expiry timer
    creatorRooms,  \* Map creatorId -> Set of codes
    inviteTokens,  \* Map token -> data
    roomToTokens,  \* Map code -> Set of tokens
    minted,        \* tokens ever generated (random: never generated twice)
    joinLocks,     \* Map code -> the joinRoom call holding the join mutex
    createCall,    \* createRoom calls suspended in bcrypt.hash
    joinCall,      \* joinRoom calls called or suspended in bcrypt.compare
    connected,     \* io.sockets.sockets
    roomOf,        \* socket.roomCode
    leaving,       \* disconnected sockets inside their grace period
    sessions,      \* <<user id, code>> pairs some session token stands for
    uses           \* history: joins granted on each token

registry == <<rooms, roomTimers, creatorRooms>>
invites  == <<inviteTokens, roomToTokens, minted>>
presence == <<connected, roomOf, leaving, sessions>>
calls    == <<joinLocks, createCall, joinCall>>
vars == <<registry, heap, invites, calls, presence, uses>>

AllowEmpty(mode)        == mode # "ephemeral"
RefreshOnActivity(mode) == mode = "ephemeral"

NoRoom   == [creator |-> None, mode |-> None, password |-> FALSE, users |-> {}, left |-> 0]
NoTimer  == [mode |-> None, left |-> 0]
NoToken  == [code |-> None, left |-> 0]
NoCreate == [creator |-> None, code |-> None, mode |-> None, left |-> 0]
NoJoin   == [pc |-> "idle", socket |-> None, code |-> None, token |-> None, room |-> None]

RoomObject == [creator : Creators \cup {None}, mode : Modes \cup {None},
               password : BOOLEAN, users : SUBSET Sockets, left : Nat]
Timer  == {NoTimer} \cup
          {x \in [mode : Modes, left : Nat] :
              x.left <= Lifetime[x.mode] \/ x.left <= DefaultLifetime}
Token  == {NoToken} \cup [code : Codes, left : Nat]
Create == {NoCreate} \cup
          [creator : Creators \cup {None}, code : Codes, mode : Modes, left : Nat]
Join   == {NoJoin}
          \cup [pc : {"called"}, socket : Sockets, code : Codes,
                token : Tokens \cup {None}, room : {None}]
          \cup [pc : {"comparing"}, socket : Sockets, code : Codes,
                token : Tokens \cup {None}, room : Objects]

\* The state variables have their types: a call in progress knows its socket,
\* code and (behind bcrypt.compare) the room object it holds, and no timer has
\* more to run than its creation or one refresh gave it: refreshes do not add up.
TypeOK ==
    /\ rooms        \in [Codes -> Objects \cup {None}]
    /\ heap         \in [Objects -> RoomObject]
    /\ roomTimers   \in [Codes -> Timer]
    /\ creatorRooms \in [Creators -> SUBSET Codes]
    /\ inviteTokens \in [Tokens -> Token]
    /\ roomToTokens \in [Codes -> SUBSET Tokens]
    /\ minted       \in SUBSET Tokens
    /\ joinLocks    \in [Codes -> JoinCalls \cup {None}]
    /\ createCall   \in [CreateCalls -> Create]
    /\ joinCall     \in [JoinCalls -> Join]
    /\ connected    \in SUBSET Sockets
    /\ roomOf       \in [Sockets -> Codes \cup {None}]
    /\ leaving      \in SUBSET Sockets
    /\ sessions     \in SUBSET (Users \X Codes)
    /\ uses         \in [Tokens -> Nat]

Init ==
    /\ rooms        = [c \in Codes |-> None]
    /\ heap         = [o \in Objects |-> NoRoom]
    /\ roomTimers   = [c \in Codes |-> NoTimer]
    /\ creatorRooms = [k \in Creators |-> {}]
    /\ inviteTokens = [t \in Tokens |-> NoToken]
    /\ roomToTokens = [c \in Codes |-> {}]
    /\ minted       = {}
    /\ joinLocks    = [c \in Codes |-> None]
    /\ createCall   = [p \in CreateCalls |-> NoCreate]
    /\ joinCall     = [j \in JoinCalls |-> NoJoin]
    /\ connected    = {}
    /\ roomOf       = [s \in Sockets |-> None]
    /\ leaving      = {}
    /\ sessions     = {}
    /\ uses         = [t \in Tokens |-> 0]

-----------------------------------------------------------------------------
(* Run to completion: promise reactions go before any other callback, so a *)
(* joinRoom call whose lock is free runs on before the next timer, socket  *)
(* or HTTP event.  An action that begins with Quiet is a callback.         *)

\* (mutation: joinRoom does not wait for the lock)
LockFreeUnlocked(j) == joinCall[j].pc = "called"

LockFree(j) ==
    /\ joinCall[j].pc = "called"
    /\ joinLocks[joinCall[j].code] = None

Quiet == \A j \in JoinCalls : ~LockFree(j)

-----------------------------------------------------------------------------
(* The heap: an object nothing refers to is garbage. *)

Referenced(rms, joins) ==
    {rms[c] : c \in Codes} \cup {joins[j].room : j \in JoinCalls}

Collect(h, rms, joins) ==
    [o \in Objects |-> IF o \in Referenced(rms, joins) THEN h[o] ELSE NoRoom]

Free == Objects \ Referenced(rooms, joinCall)

SetUsers(o, users) == [heap EXCEPT ![o].users = users]

Exists(c) == rooms[c] # None
RoomAt(c) == heap[rooms[c]]

-----------------------------------------------------------------------------
(* deleteRoom, of every code in C: the timer, the invite tokens, the       *)
(* creator index entry of the object now registered, and the object.       *)
(* joins is the value joinCall is about to take.                           *)

TokensOf(C) == UNION {roomToTokens[c] : c \in C}

\* (mutation: the expiry timer is left running)
DeleteRoomsKeepTimer(C, joins) ==
    /\ rooms' = [c \in Codes |-> IF c \in C THEN None ELSE rooms[c]]
    /\ creatorRooms' = [k \in Creators |-> creatorRooms[k] \
                          {c \in C : Exists(c) /\ RoomAt(c).creator = k}]
    /\ inviteTokens' = [t \in Tokens |-> IF t \in TokensOf(C) THEN NoToken ELSE inviteTokens[t]]
    /\ roomToTokens' = [c \in Codes |-> IF c \in C THEN {} ELSE roomToTokens[c]]
    /\ heap' = Collect(heap, rooms', joins)
    /\ UNCHANGED <<roomTimers, minted>>

\* (mutation: the creator index keeps the deleted code)
DeleteRoomsKeepIndex(C, joins) ==
    /\ rooms' = [c \in Codes |-> IF c \in C THEN None ELSE rooms[c]]
    /\ roomTimers' = [c \in Codes |-> IF c \in C THEN NoTimer ELSE roomTimers[c]]
    /\ inviteTokens' = [t \in Tokens |-> IF t \in TokensOf(C) THEN NoToken ELSE inviteTokens[t]]
    /\ roomToTokens' = [c \in Codes |-> IF c \in C THEN {} ELSE roomToTokens[c]]
    /\ heap' = Collect(heap, rooms', joins)
    /\ UNCHANGED <<creatorRooms, minted>>

DeleteRooms(C, joins) ==
    /\ rooms' = [c \in Codes |-> IF c \in C THEN None ELSE rooms[c]]
    /\ roomTimers' = [c \in Codes |-> IF c \in C THEN NoTimer ELSE roomTimers[c]]
    /\ creatorRooms' = [k \in Creators |-> creatorRooms[k] \
                          {c \in C : Exists(c) /\ RoomAt(c).creator = k}]
    /\ inviteTokens' = [t \in Tokens |-> IF t \in TokensOf(C) THEN NoToken ELSE inviteTokens[t]]
    /\ roomToTokens' = [c \in Codes |-> IF c \in C THEN {} ELSE roomToTokens[c]]
    /\ heap' = Collect(heap, rooms', joins)
    /\ UNCHANGED minted

-----------------------------------------------------------------------------
(* createRoom *)

PersistentRooms == Cardinality({kc \in Creators \X Codes : kc[2] \in creatorRooms[kc[1]]})

\* The checks made before the room object is built.
MayCreate(k, c, mode) ==
    /\ k # None => Cardinality(creatorRooms[k]) < MaxRoomsPerCreator
    /\ mode # "ephemeral" => PersistentRooms < MaxServerRooms
    /\ ~Exists(c)

\* saveRoom, setRoomExpiry and the creator index, for a room object `obj`.
RegisterRoom(c, obj) ==
    \E o \in Free :
        /\ rooms' = [rooms EXCEPT ![c] = o]
        /\ heap' = Collect([heap EXCEPT ![o] = obj], rooms', joinCall)
        /\ roomTimers' = [roomTimers EXCEPT ![c] =
                            [mode |-> obj.mode, left |-> Lifetime[obj.mode]]]
        /\ creatorRooms' = [k \in Creators |->
                              creatorRooms[k] \cup (IF k = obj.creator THEN {c} ELSE {})]

NewRoom(k, mode, password, left) ==
    [creator |-> k, mode |-> mode, password |-> password, users |-> {}, left |-> left]

\* A room without a password is created in one go.
CreateRoom(k, c, mode) ==
    /\ Quiet
    /\ FALSE \in Passwords
    /\ MayCreate(k, c, mode)
    /\ RegisterRoom(c, NewRoom(k, mode, FALSE, Lifetime[mode]))
    /\ UNCHANGED <<invites, calls, presence, uses>>

\* One with a password passes the checks, takes its expiresAt, and suspends.
CreateHash(p, k, c, mode) ==
    /\ Quiet
    /\ TRUE \in Passwords
    /\ createCall[p] = NoCreate
    /\ MayCreate(k, c, mode)
    /\ createCall' = [createCall EXCEPT ![p] =
                        [creator |-> k, code |-> c, mode |-> mode, left |-> Lifetime[mode]]]
    /\ UNCHANGED <<registry, heap, invites, joinLocks, joinCall, presence, uses>>

\* bcrypt.hash is done: the room is stored, with no second look at the checks.
CreateStore(p) ==
    LET r == createCall[p] IN
    /\ Quiet
    /\ r # NoCreate
    /\ RegisterRoom(r.code, NewRoom(r.creator, r.mode, TRUE, r.left))
    /\ createCall' = [createCall EXCEPT ![p] = NoCreate]
    /\ UNCHANGED <<invites, joinLocks, joinCall, presence, uses>>

\* refreshRoomExpiry restarts the timer of a mode that refreshes; expiresAt
\* stays as it is.
\* (mutation: a refresh adds to what is left)
RefreshAdds(c) ==
    roomTimers' = IF RefreshOnActivity(roomTimers[c].mode)
                  THEN [roomTimers EXCEPT ![c].left = @ + DefaultLifetime]
                  ELSE roomTimers

RefreshRoomExpiry(c) ==
    roomTimers' = IF RefreshOnActivity(roomTimers[c].mode)
                  THEN [roomTimers EXCEPT ![c].left = DefaultLifetime]
                  ELSE roomTimers

-----------------------------------------------------------------------------
(* Invite tokens *)

DropToken(t) ==
    /\ inviteTokens' = [inviteTokens EXCEPT ![t] = NoToken]
    /\ roomToTokens' = [c \in Codes |-> roomToTokens[c] \ {t}]
    /\ UNCHANGED minted

\* generateInviteToken, as POST /api/rooms/:code/invite calls it.
GenerateInviteToken(c, t) ==
    /\ Quiet
    /\ Exists(c)
    /\ t \notin minted
    /\ minted' = minted \cup {t}
    /\ inviteTokens' = [inviteTokens EXCEPT ![t] = [code |-> c, left |-> TokenLifetime]]
    /\ roomToTokens' = [roomToTokens EXCEPT ![c] = @ \cup {t}]
    /\ UNCHANGED <<registry, heap, calls, presence, uses>>

\* cleanupToken, from the token's timeout or from a validation that finds it
\* expired (GET /api/invite/:token and the first check of join-room).
CleanupToken(t) ==
    /\ Quiet
    /\ inviteTokens[t] # NoToken /\ inviteTokens[t].left = 0
    /\ DropToken(t)
    /\ UNCHANGED <<registry, heap, calls, presence, uses>>

\* What validateInviteToken(t, c) answers for a token that is not expired.
TokenValid(t, c) ==
    /\ inviteTokens[t] # NoToken
    /\ inviteTokens[t].left > 0
    /\ inviteTokens[t].code = c
    /\ Exists(c)

\* validateInviteToken(t, c, true): a valid one-time token and an expired one
\* are both removed; None stands for a join without a token.
ConsumeToken(t, c) ==
    IF t # None /\ inviteTokens[t] # NoToken /\
       (inviteTokens[t].left = 0 \/ inviteTokens[t].code = c)
    THEN DropToken(t)
    ELSE UNCHANGED invites

-----------------------------------------------------------------------------
(* joinRoom, from index.js's join-room handler *)

\* index.js takes an entry for the caller's own by the nickname, exactly as it
\* is written, or by the user id; joinRoom compares folded nicknames.
Own(u, s) == Nick[u] = Nick[s] \/ User[u] = User[s]

\* The handler's pre-check of the token and its clean-up of the user list:
\* the caller's own disconnected entries lose their grace period, everyone
\* else's is respected.  Then joinRoom is called.
JoinRoomCall(j, s, c, t) ==
    LET users == IF Exists(c) THEN RoomAt(c).users ELSE {}
        mine  == {u \in users \ connected : Own(u, s)}
    IN
    /\ Quiet
    /\ joinCall[j] = NoJoin
    /\ s \in connected /\ roomOf[s] \in {None, c}
    /\ t # None => TokenValid(t, c)
    /\ joinCall' = [joinCall EXCEPT ![j] =
                      [pc |-> "called", socket |-> s, code |-> c, token |-> t, room |-> None]]
    /\ leaving' = leaving \ mine
    /\ heap' = IF Exists(c) THEN SetUsers(rooms[c], users \cap (connected \cup leaving')) ELSE heap
    /\ UNCHANGED <<registry, invites, joinLocks, createCall, connected, roomOf, sessions, uses>>

Present(c) == RoomAt(c).users \cap connected

NickTaken(c, s) == \E u \in Present(c) : u # s /\ Fold[Nick[u]] = Fold[Nick[s]]
Full(c)         == Cardinality(Present(c)) >= MaxUsers

\* Everything but the password is in order.
Admissible(j) ==
    LET r == joinCall[j] IN
    /\ ~NickTaken(r.code, r.socket)
    /\ r.socket \notin Present(r.code)
    /\ ~Full(r.code)
    /\ r.token # None => TokenValid(r.token, r.code)

Answer(j) == [joinCall EXCEPT ![j] = NoJoin]

\* "Room not found", or "This room has expired" after deleting it.
JoinNoRoom(j) ==
    LET c == joinCall[j].code IN
    /\ LockFree(j)
    /\ joinCall' = Answer(j)
    /\ \/ ~Exists(c) /\ UNCHANGED <<registry, heap, invites>>
       \/ Exists(c) /\ RoomAt(c).left = 0 /\ DeleteRooms({c}, joinCall')
    /\ UNCHANGED <<joinLocks, createCall, presence, uses>>

\* The user list is cut down to connected sockets; then some check refuses.
JoinRefused(j) ==
    LET r == joinCall[j] IN
    /\ LockFree(j)
    /\ Exists(r.code) /\ RoomAt(r.code).left > 0
    /\ r.socket \notin Present(r.code)
    /\ ~Admissible(j) \/ RoomAt(r.code).password    \* no password given
    /\ joinCall' = Answer(j)
    /\ heap' = SetUsers(rooms[r.code], Present(r.code))
    /\ IF /\ r.token # None
          /\ inviteTokens[r.token] # NoToken /\ inviteTokens[r.token].left = 0
          /\ ~NickTaken(r.code, r.socket) /\ ~Full(r.code)
       THEN DropToken(r.token)
       ELSE UNCHANGED invites
    /\ UNCHANGED <<registry, joinLocks, createCall, presence, uses>>

\* The socket is listed already: success, with no token consumed and no
\* refresh (unless another socket has the nickname: then it is refused).
JoinAgain(j) ==
    LET r == joinCall[j] IN
    /\ LockFree(j)
    /\ Exists(r.code) /\ RoomAt(r.code).left > 0
    /\ r.socket \in Present(r.code)
    /\ joinCall' = Answer(j)
    /\ heap' = SetUsers(rooms[r.code], Present(r.code))
    /\ IF NickTaken(r.code, r.socket)
       THEN UNCHANGED <<roomOf, sessions>>
       ELSE /\ roomOf' = [roomOf EXCEPT ![r.socket] = r.code]
            /\ sessions' = sessions \cup {<<User[r.socket], r.code>>}
    /\ UNCHANGED <<registry, invites, joinLocks, createCall, connected, leaving, uses>>

\* The end of joinRoom: push the user on the object `o` the call holds, store
\* that object, consume the token, refresh the expiry timer of the code.
Admit(j, o, users) ==
    LET r == joinCall[j]  c == r.code  s == r.socket IN
    /\ joinCall' = Answer(j)
    /\ joinLocks' = [joinLocks EXCEPT ![c] = None]
    /\ rooms' = [rooms EXCEPT ![c] = o]
    /\ heap' = Collect(SetUsers(o, users \cup {s}), rooms', joinCall')
    /\ ConsumeToken(r.token, c)
    /\ uses' = IF r.token = None THEN uses ELSE [uses EXCEPT ![r.token] = @ + 1]
    /\ RefreshRoomExpiry(c)
    /\ roomOf' = [roomOf EXCEPT ![s] = c]
    /\ sessions' = sessions \cup {<<User[s], c>>}
    /\ UNCHANGED <<creatorRooms, createCall, connected, leaving>>

\* A room without a password admits in one go.
JoinOpen(j) ==
    LET c == joinCall[j].code IN
    /\ LockFree(j)
    /\ Exists(c) /\ RoomAt(c).left > 0 /\ ~RoomAt(c).password
    /\ Admissible(j)
    /\ Admit(j, rooms[c], Present(c))

\* One with a password holds the lock and the object through bcrypt.compare.
JoinCompare(j) ==
    LET c == joinCall[j].code IN
    /\ LockFree(j)
    /\ Exists(c) /\ RoomAt(c).left > 0 /\ RoomAt(c).password
    /\ Admissible(j)
    /\ joinLocks' = [joinLocks EXCEPT ![c] = j]
    /\ joinCall' = [joinCall EXCEPT ![j].pc = "comparing", ![j].room = rooms[c]]
    /\ heap' = SetUsers(rooms[c], Present(c))
    /\ UNCHANGED <<registry, invites, createCall, presence, uses>>

\* (mutation: a wrong password leaves without releasing the lock)
JoinComparedLeaky(j) ==
    LET r == joinCall[j] IN
    /\ Quiet
    /\ r.pc = "comparing"
    /\ \/ Admit(j, r.room, heap[r.room].users)
       \/ /\ joinCall' = Answer(j)
          /\ heap' = Collect(heap, rooms, joinCall')
          /\ UNCHANGED <<registry, invites, joinLocks, createCall, presence, uses>>

\* bcrypt.compare is done: the password was right, or it was not.
JoinCompared(j) ==
    LET r == joinCall[j] IN
    /\ Quiet
    /\ r.pc = "comparing"
    /\ \/ Admit(j, r.room, heap[r.room].users)
       \/ /\ joinCall' = Answer(j)
          /\ joinLocks' = [joinLocks EXCEPT ![r.code] = None]
          /\ heap' = Collect(heap, rooms, joinCall')
          /\ UNCHANGED <<registry, invites, createCall, presence, uses>>

-----------------------------------------------------------------------------
(* index.js changes user lists without the lock *)

\* The list after a resumption: no other entry of the caller's.
\* (mutation: only the caller's own socket is looked for)
DeduplicatedBySocket(users, s) == users \cup {s}

Deduplicated(users, s) == {u \in users : ~Own(u, s)} \cup {s}

\* join-room with a session token: the caller's other entries make way and
\* its socket is listed.  (When the room is gone the socket still takes the
\* room code; the handler then goes on to a standard join, which fails.)
ResumeSession(s, c) ==
    LET listed == IF Exists(c) THEN RoomAt(c).users ELSE {}
        mine == {u \in Sockets : User[u] = User[s] /\ roomOf[u] = c}
                \cup {u \in listed : Own(u, s)}
    IN
    /\ Quiet
    /\ s \in connected /\ roomOf[s] \in {None, c}
    /\ <<User[s], c>> \in sessions
    /\ roomOf' = [roomOf EXCEPT ![s] = c]
    /\ leaving' = leaving \ mine
    /\ heap' = IF Exists(c)
               THEN SetUsers(rooms[c], Deduplicated(RoomAt(c).users, s))
               ELSE heap
    /\ UNCHANGED <<registry, invites, calls, connected, sessions, uses>>

\* A departure runs to its end: at once when the user leaves (their session
\* goes, others of the same client may stay), after the grace period
\* otherwise.  leaveRoom, then the clean-up of the list that follows it.
LeaveRoom(s) ==
    LET c == roomOf[s]
        rest == RoomAt(c).users \ {s}
    IN
    /\ Quiet
    /\ c # None
    /\ \/ s \in connected /\ sessions' \in {sessions, sessions \ {<<User[s], c>>}}
       \/ s \in leaving /\ sessions' = sessions
    /\ roomOf' = [roomOf EXCEPT ![s] = None]
    /\ leaving' = leaving \ {s}
    /\ CASE ~Exists(c) -> UNCHANGED <<registry, heap, invites>>
         [] Exists(c) /\ rest = {} /\ ~AllowEmpty(RoomAt(c).mode) -> DeleteRooms({c}, joinCall)
         [] OTHER -> /\ heap' = SetUsers(rooms[c], rest \cap (connected \cup leaving'))
                     /\ UNCHANGED <<registry, invites>>
    /\ UNCHANGED <<calls, connected, uses>>

\* send-message: addMessage refreshes the room.
SendMessage(s) ==
    LET c == roomOf[s] IN
    /\ Quiet
    /\ s \in connected /\ c # None /\ Exists(c)
    /\ RefreshRoomExpiry(c)
    /\ UNCHANGED <<rooms, creatorRooms, heap, invites, calls, presence, uses>>

\* The 30 s sweep: every list keeps its connected and grace-period users.
SweepUsers ==
    /\ Quiet
    /\ heap' = [o \in Objects |-> IF o \in {rooms[c] : c \in Codes}
                 THEN [heap[o] EXCEPT !.users = @ \cap (connected \cup leaving)]
                 ELSE heap[o]]
    /\ UNCHANGED <<registry, invites, calls, presence, uses>>

\* A new connection, under an id nothing remembers.
Connect(s) ==
    /\ Quiet
    /\ s \notin connected \cup leaving
    /\ \A o \in Objects : s \notin heap[o].users
    /\ \A j \in JoinCalls : joinCall[j].socket # s
    /\ connected' = connected \cup {s}
    /\ roomOf' = [roomOf EXCEPT ![s] = None]
    /\ UNCHANGED <<registry, heap, invites, calls, leaving, sessions, uses>>

\* A connection breaks; a socket that is in a room starts its grace period.
Disconnect(s) ==
    /\ Quiet
    /\ s \in connected
    /\ connected' = connected \ {s}
    /\ leaving' = IF roomOf[s] = None THEN leaving ELSE leaving \cup {s}
    /\ UNCHANGED <<registry, heap, invites, calls, roomOf, sessions, uses>>

-----------------------------------------------------------------------------
(* Ends of a room *)

ExpiryTimer(c) ==
    /\ Quiet
    /\ roomTimers[c] # NoTimer /\ roomTimers[c].left = 0
    /\ DeleteRooms({c}, joinCall)
    /\ UNCHANGED <<calls, presence, uses>>

DeleteRoomByCreator(c, k) ==
    /\ Quiet
    /\ Exists(c) /\ RoomAt(c).creator = k
    /\ DeleteRooms({c}, joinCall)
    /\ UNCHANGED <<calls, presence, uses>>

\* (mutation: the clean-up goes by the timers, not by expiresAt)
ExpiredTimers == {c \in Codes : roomTimers[c] # NoTimer /\ roomTimers[c].left = 0}

Expired == {c \in Codes : Exists(c) /\ RoomAt(c).left = 0}

CleanupExpiredRooms ==
    /\ Quiet
    /\ Expired # {}
    /\ DeleteRooms(Expired, joinCall)
    /\ UNCHANGED <<calls, presence, uses>>

\* A tick passes for everything that has a lifetime.
Less(n) == IF n = 0 THEN 0 ELSE n - 1

Tick ==
    /\ Quiet
    /\ heap' = [o \in Objects |-> [heap[o] EXCEPT !.left = Less(@)]]
    /\ roomTimers' = [c \in Codes |-> [roomTimers[c] EXCEPT !.left = Less(@)]]
    /\ inviteTokens' = [t \in Tokens |-> [inviteTokens[t] EXCEPT !.left = Less(@)]]
    /\ createCall' = [p \in CreateCalls |-> [createCall[p] EXCEPT !.left = Less(@)]]
    /\ UNCHANGED <<rooms, creatorRooms, roomToTokens, minted, joinLocks, joinCall, presence, uses>>

-----------------------------------------------------------------------------
JoinEnter(j) == JoinNoRoom(j) \/ JoinRefused(j) \/ JoinAgain(j) \/ JoinOpen(j) \/ JoinCompare(j)

Next ==
    \/ \E j \in JoinCalls : JoinEnter(j)
    \/ \E k \in Creators \cup {None}, c \in Codes, mode \in Modes :
          \/ CreateRoom(k, c, mode)
          \/ \E p \in CreateCalls : CreateHash(p, k, c, mode)
    \/ \E p \in CreateCalls : CreateStore(p)
    \/ \E c \in Codes, t \in Tokens : GenerateInviteToken(c, t)
    \/ \E t \in Tokens : CleanupToken(t)
    \/ \E j \in JoinCalls, s \in Sockets, c \in Codes, t \in Tokens \cup {None} :
          JoinRoomCall(j, s, c, t)
    \/ \E j \in JoinCalls : JoinCompared(j)
    \/ \E s \in Sockets, c \in Codes : ResumeSession(s, c)
    \/ \E s \in Sockets : LeaveRoom(s) \/ SendMessage(s) \/ Connect(s) \/ Disconnect(s)
    \/ SweepUsers
    \/ \E c \in Codes : ExpiryTimer(c)
    \/ \E c \in Codes, k \in Creators : DeleteRoomByCreator(c, k)
    \/ CleanupExpiredRooms
    \/ Tick

Spec == Init /\ [][Next]_vars

\* Node's event loop runs due timers and intervals and ends bcrypt calls, all
\* the while other callbacks come and go in between (so Quiet holds again and
\* again, not for good); and the reactions of a join lock run in the order
\* they were added, so a call that finds it free again and again takes it.
Fairness ==
    /\ SF_vars(Tick) /\ SF_vars(CleanupExpiredRooms)
    /\ \A c \in Codes : SF_vars(ExpiryTimer(c))
    /\ \A p \in CreateCalls : SF_vars(CreateStore(p))
    /\ \A j \in JoinCalls : SF_vars(JoinEnter(j)) /\ SF_vars(JoinCompared(j))

FairSpec == Spec /\ Fairness

-----------------------------------------------------------------------------
(* Properties of every run *)

\* The two token maps agree: a token is in the set of the room it opens, and
\* in no other (rooms.js keeps them in step by hand in five places).
TokensTracked ==
    \A t \in Tokens, c \in Codes : t \in roomToTokens[c] <=> inviteTokens[t].code = c

\* A live invite opens a room that exists, whatever deleted, resurrected or
\* replaced the room, and an expiry timer only runs for a registered room.
NoDanglingEntries ==
    /\ \A t \in Tokens : inviteTokens[t].code # None => Exists(inviteTokens[t].code)
    /\ \A c \in Codes : roomTimers[c] # NoTimer => Exists(c)

\* Only the call that holds a room's join lock is past the checks of joinRoom.
JoinMutex ==
    \A j \in JoinCalls : joinCall[j].pc = "comparing" => joinLocks[joinCall[j].code] = j

\* A one-time token admits one user (generateInviteToken: maxUses 1), though
\* joinRoom checks it before bcrypt.compare and consumes it after.
OneTimeTokenOnce == \A t \in Tokens : uses[t] <= 1

(* Properties of rooms without passwords, where nothing suspends *)

\* A room has its timer from creation to deletion.
RoomHasTimer == \A c \in Codes : Exists(c) <=> roomTimers[c] # NoTimer

\* The creator index is exactly the registry, seen by creator.
CreatorIndexExact ==
    \A k \in Creators, c \in Codes :
        c \in creatorRooms[k] <=> Exists(c) /\ RoomAt(c).creator = k

\* No nickname is twice on a room's list, dead entries included, although a
\* resumption does not ask joinRoom, and compares nicknames otherwise.  (Two
\* that differ in case may both be on it: see the README.)
NicknamesUnique ==
    \A c \in Codes : Exists(c) =>
        \A u, v \in RoomAt(c).users : Nick[u] = Nick[v] => u = v

\* A room its activity timer still covers is not taken from under its users:
\* with nobody leaving and no creator to delete it, it stays.
ActiveRoomKept ==
    [][\A c \in Codes :
         /\ Exists(c) /\ RoomAt(c).creator = None
         /\ RoomAt(c).users # {}
         /\ RefreshOnActivity(roomTimers[c].mode) /\ roomTimers[c].left > 0
         /\ roomOf' = roomOf
         => Exists(c)']_vars

(* Liveness *)

\* Every room ends, one that a late joinRoom brought back without a timer too.
RoomsEnd == \A c \in Codes : Exists(c) ~> ~Exists(c)

\* Every joinRoom is answered: the lock is always released and handed on.
JoinsAnswered == \A j \in JoinCalls : joinCall[j].pc # "idle" ~> joinCall[j].pc = "idle"
=============================================================================
