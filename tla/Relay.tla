-------------------------------- MODULE Relay --------------------------------
(***************************************************************************)
(* The WebSocket relay of e2ecp (e2ecp/src/relay/relay.go).  The server    *)
(* runs one goroutine per connection (wsHandler); the goroutines share     *)
(* three tables: the registry of rooms (under roomMux), the members of     *)
(* each room object (under that room's Mutex) and the counts of rooms per  *)
(* address (under ipRoomMux).  No goroutine holds two of these locks, so   *)
(* one critical section is one step, and everything a goroutine has read   *)
(* in an earlier section may be out of date in the next.                   *)
(*                                                                         *)
(* What is sent to the clients (broadcasts, forwarded messages) changes     *)
(* none of these tables and is left out; so is the session log of the      *)
(* optional database.                                                      *)
(***************************************************************************)
EXTENDS Integers, FiniteSets, FiniteSetsExt

CONSTANTS
    Conns,          \* connections, one goroutine each; a closed one is opened again
    Ids,            \* client ids
    IdsOf,          \* IdsOf[c]: the ids the client of connection c gives when it joins
    RoomIds,        \* room names
    Addresses,      \* network addresses
    AddressOf,      \* AddressOf[c]: the address of connection c
    MaxRooms,       \* maxRooms
    MaxRoomsPerIP,  \* maxRoomsPerIP
    Objs,           \* room objects in memory; one that nothing refers to is used again
    None            \* no connection, no room, no object

ASSUME RelayConstants ==
    /\ IsFiniteSet(Conns)
    /\ IdsOf \in [Conns -> (SUBSET Ids) \ {{}}]
    /\ AddressOf \in [Conns -> Addresses]
    /\ MaxRooms \in Nat \ {0} /\ MaxRoomsPerIP \in Nat \ {0}
    /\ Objs \subseteq Nat
    /\ None \notin Conns \cup RoomIds \cup Objs \cup Ids

\* Connection c joins under ids that no other connection gives.  The command line
\* clients draw a uuid for each connection; a browser tab that reconnects gives
\* the id of its old connection, which the server may not know to be dead.
OwnId(c) == \A d \in Conns \ {c} : IdsOf[c] \cap IdsOf[d] = {}

VARIABLES
    rooms,    \* registry: room name -> room object or None
    clients,  \* room object -> client id -> connection or None (Room.Clients)
    ipRooms,  \* address -> room name -> number of connections
    pc,       \* where the goroutine of a connection is
    id,       \* Client.ID
    room,     \* Client.RoomID, None for ""
    target,   \* in.RoomID of the join being handled, None when the connection ends
    leaving,  \* roomID of removeClientFromRoom while the room is to be unlisted
    obj,      \* the local variable "room" of the goroutine
    empty,    \* the local variable "empty" of removeClientFromRoom
    renamed   \* history: connections that joined under a second id while in a room

tables == <<rooms, clients, ipRooms>>
locals == <<pc, id, room, target, leaving, obj, empty, renamed>>
vars == <<tables, locals>>

Labels == {"closed", "read", "reserve", "create", "refuse", "insert", "settle",
           "lookup", "delete", "release", "unlist", "panicked"}

TypeOK ==
    /\ rooms \in [RoomIds -> Objs \cup {None}]
    /\ clients \in [Objs -> [Ids -> Conns \cup {None}]]
    /\ ipRooms \in [Addresses -> [RoomIds -> 0..Cardinality(Conns)]]
    /\ pc \in [Conns -> Labels]
    /\ id \in [Conns -> Ids \cup {None}]
    /\ room \in [Conns -> RoomIds \cup {None}]
    /\ target \in [Conns -> RoomIds \cup {None}]
    /\ leaving \in [Conns -> RoomIds \cup {None}]
    /\ obj \in [Conns -> Objs \cup {None}]
    /\ empty \in [Conns -> BOOLEAN]
    /\ renamed \subseteq Conns

----------------------------------------------------------------------------
NoMembers == [i \in Ids |-> None]

\* The ids in a room object and the connections behind them.
Members(o) == {i \in Ids : clients[o][i] # None}

\* An object is in memory while the registry or a goroutine refers to it; the
\* contents of the others are forgotten.
Collected(cl, rs, ob) ==
    [o \in Objs |-> IF \/ \E r \in RoomIds : rs[r] = o
                       \/ \E c \in Conns : ob[c] = o
                    THEN cl[o] ELSE NoMembers]

Free(o) == /\ \A r \in RoomIds : rooms[r] # o
           /\ \A c \in Conns : obj[c] # o

Goto(c, label) == pc' = [pc EXCEPT ![c] = label]

\* The names an address has a count for.
RoomsOfAddress(a) == {r \in RoomIds : ipRooms[a][r] > 0}

\* reserveIPRoom
MayReserve(a, r) == ipRooms[a][r] > 0 \/ Cardinality(RoomsOfAddress(a)) < MaxRoomsPerIP

\* Mutation: the last connection's count stays.
ReleasedButLast(a, r) == [ipRooms EXCEPT ![a][r] = IF @ <= 1 THEN @ ELSE @ - 1]

\* releaseIPRoom: a count of one or none is deleted.
Released(a, r) == [ipRooms EXCEPT ![a][r] = IF @ <= 1 THEN 0 ELSE @ - 1]

Init ==
    /\ rooms = [r \in RoomIds |-> None]
    /\ clients = [o \in Objs |-> NoMembers]
    /\ ipRooms = [a \in Addresses |-> [r \in RoomIds |-> 0]]
    /\ pc = [c \in Conns |-> "closed"]
    /\ id = [c \in Conns |-> None]
    /\ room = [c \in Conns |-> None]
    /\ target = [c \in Conns |-> None]
    /\ leaving = [c \in Conns |-> None]
    /\ obj = [c \in Conns |-> None]
    /\ empty = [c \in Conns |-> FALSE]
    /\ renamed = {}

----------------------------------------------------------------------------
(* wsHandler: reading a message, the end of a connection.                   *)

\* A join message: the first of a new connection (which has touched nothing
\* shared before), or a later one; the id it gives becomes the client's, also
\* while an entry under the last one is in a room.  For the room the connection
\* is in it is only answered; from another room the connection is removed first.
Join(c, r, i) ==
    /\ pc[c] \in {"closed", "read"}
    /\ id' = [id EXCEPT ![c] = i]
    /\ renamed' = renamed \cup {d \in {c} : pc[c] = "read" /\ id[c] # i}
    /\ IF room[c] = r
       THEN UNCHANGED <<pc, target>>
       ELSE /\ target' = [target EXCEPT ![c] = r]
            /\ Goto(c, IF room[c] = None THEN "reserve" ELSE "lookup")
    /\ UNCHANGED <<tables, room, leaving, obj, empty>>

\* ReadMessage fails: the loop ends and the client is removed from its room.
Disconnect(c) ==
    /\ pc[c] = "read"
    /\ target' = [target EXCEPT ![c] = None]
    /\ Goto(c, "lookup")
    /\ UNCHANGED <<tables, id, renamed, room, leaving, obj, empty>>

----------------------------------------------------------------------------
(* The join, one critical section at a time.                                *)

\* reserveIPRoom; over the limit the connection is told and closed.
Reserve(c) ==
    /\ pc[c] = "reserve"
    /\ LET a == AddressOf[c]  r == target[c] IN
       IF MayReserve(a, r)
       THEN /\ ipRooms' = [ipRooms EXCEPT ![a][r] = @ + 1]
            /\ Goto(c, "create")
            /\ UNCHANGED target
       ELSE /\ target' = [target EXCEPT ![c] = None]
            /\ Goto(c, "closed")
            /\ UNCHANGED ipRooms
    /\ UNCHANGED <<rooms, clients, id, renamed, room, leaving, obj, empty>>

\* getOrCreateRoom: the registered room, a new one, or nil at the limit.
Create(c) ==
    /\ pc[c] = "create"
    /\ LET r == target[c] IN
       \/ /\ rooms[r] # None
          /\ obj' = [obj EXCEPT ![c] = rooms[r]]
          /\ Goto(c, "insert")
          /\ UNCHANGED rooms
       \/ /\ rooms[r] = None
          /\ Cardinality({q \in RoomIds : rooms[q] # None}) >= MaxRooms
          /\ Goto(c, "refuse")
          /\ UNCHANGED <<rooms, obj>>
       \/ /\ rooms[r] = None
          /\ Cardinality({q \in RoomIds : rooms[q] # None}) < MaxRooms
          /\ \E o \in Objs : /\ Free(o)
                             /\ \A p \in Objs : Free(p) => o <= p
                             /\ rooms' = [rooms EXCEPT ![r] = o]
                             /\ obj' = [obj EXCEPT ![c] = o]
          /\ Goto(c, "insert")
    /\ UNCHANGED <<clients, ipRooms, id, renamed, room, target, leaving, empty>>

\* Mutation: the reservation is kept.
RefuseKeeping(c) ==
    /\ pc[c] = "refuse"
    /\ target' = [target EXCEPT ![c] = None]
    /\ Goto(c, "closed")
    /\ UNCHANGED <<tables, id, renamed, room, leaving, obj, empty>>

\* No room: the reservation is given back, the client told, the connection closed.
Refuse(c) ==
    /\ pc[c] = "refuse"
    /\ ipRooms' = Released(AddressOf[c], target[c])
    /\ target' = [target EXCEPT ![c] = None]
    /\ Goto(c, "closed")
    /\ UNCHANGED <<rooms, clients, id, renamed, room, leaving, obj, empty>>

\* Mutation: the peers' addresses are read before the client is in the map.
InsertLate(c) ==
    /\ pc[c] = "insert"
    /\ Goto(c, "settle")
    /\ UNCHANGED <<tables, id, renamed, room, target, leaving, obj, empty>>

\* room.Clients[client.ID] = client, whoever had that entry.
Insert(c) ==
    /\ pc[c] = "insert"
    /\ clients' = [clients EXCEPT ![obj[c]][id[c]] = c]
    /\ Goto(c, "settle")
    /\ UNCHANGED <<rooms, ipRooms, id, renamed, room, target, leaving, obj, empty>>

\* client.RoomID is assigned and getPeerIPs makes a slice of capacity
\* len(room.Clients)-1: with no member left that panics, and the goroutine ends
\* without removeClientFromRoom.  Otherwise "joined" and the peers are sent.
Settle(c) ==
    /\ pc[c] = "settle"
    /\ room' = [room EXCEPT ![c] = target[c]]
    /\ Goto(c, IF Members(obj[c]) = {} THEN "panicked" ELSE "read")
    /\ obj' = [obj EXCEPT ![c] = None]
    /\ clients' = Collected(clients, rooms, obj')
    /\ UNCHANGED <<rooms, ipRooms, id, renamed, target, leaving, empty>>

----------------------------------------------------------------------------
(* removeClientFromRoom, called by a join of another room and at the end.   *)

AfterRemoval(c) == IF target[c] = None THEN "closed" ELSE "reserve"

\* Mutation: a room is looked up by the join's target, not the room being left.
LookupTarget(c) ==
    /\ pc[c] = "lookup"
    /\ LET r == IF target[c] = None THEN room[c] ELSE target[c] IN
       /\ obj' = [obj EXCEPT ![c] = rooms[r]]
       /\ Goto(c, IF rooms[r] = None THEN "release" ELSE "delete")
    /\ UNCHANGED <<tables, id, renamed, room, target, leaving, empty>>


Lookup(c) ==
    /\ pc[c] = "lookup"
    /\ obj' = [obj EXCEPT ![c] = rooms[room[c]]]
    /\ Goto(c, IF rooms[room[c]] = None THEN "release" ELSE "delete")
    /\ UNCHANGED <<tables, id, renamed, room, target, leaving, empty>>

\* Mutation: "empty" is computed before the entry goes.
DeleteAfterCount(c) ==
    /\ pc[c] = "delete"
    /\ clients' = [clients EXCEPT ![obj[c]][id[c]] = None]
    /\ empty' = [empty EXCEPT ![c] = Members(obj[c]) = {}]
    /\ Goto(c, "release")
    /\ UNCHANGED <<rooms, ipRooms, id, renamed, room, target, leaving, obj>>

\* Under the room's lock: the entry of this id goes, "empty" is computed and
\* the others are told of the disconnection.
Delete(c) ==
    /\ pc[c] = "delete"
    /\ clients' = [clients EXCEPT ![obj[c]][id[c]] = None]
    /\ empty' = [empty EXCEPT ![c] = Members(obj[c]) \ {id[c]} = {}]
    /\ Goto(c, "release")
    /\ UNCHANGED <<rooms, ipRooms, id, renamed, room, target, leaving, obj>>

\* releaseIPRoom and c.RoomID = ""; the peers who stay are sent the new list.
\* The removal ends here unless the room was seen empty.
Release(c) ==
    /\ pc[c] = "release"
    /\ ipRooms' = Released(AddressOf[c], room[c])
    /\ room' = [room EXCEPT ![c] = None]
    /\ obj' = [obj EXCEPT ![c] = None]
    /\ clients' = Collected(clients, rooms, obj')
    /\ IF empty[c]
       THEN Goto(c, "unlist") /\ leaving' = [leaving EXCEPT ![c] = room[c]]
       ELSE Goto(c, AfterRemoval(c)) /\ UNCHANGED leaving
    /\ UNCHANGED <<rooms, id, renamed, target, empty>>

\* delete(rooms, room.ID): by name, on the strength of an "empty" computed
\* three critical sections ago.
Unlist(c) ==
    /\ pc[c] = "unlist"
    /\ rooms' = [rooms EXCEPT ![leaving[c]] = None]
    /\ clients' = Collected(clients, rooms', obj)
    /\ empty' = [empty EXCEPT ![c] = FALSE]
    /\ leaving' = [leaving EXCEPT ![c] = None]
    /\ Goto(c, AfterRemoval(c))
    /\ UNCHANGED <<ipRooms, id, renamed, room, target, obj>>

----------------------------------------------------------------------------
Handler(c) == \/ Reserve(c) \/ Create(c) \/ Refuse(c) \/ Insert(c) \/ Settle(c)
              \/ Lookup(c) \/ Delete(c) \/ Release(c) \/ Unlist(c)

Next == \E c \in Conns :
            \/ \E r \in RoomIds, i \in IdsOf[c] : Join(c, r, i)
            \/ Disconnect(c)
            \/ Handler(c)

Spec == Init /\ [][Next]_vars

----------------------------------------------------------------------------
(* Properties.                                                              *)

\* Connection c has a reservation for room r that it has not given back.
Holds(c, r) ==
    \/ pc[c] \in {"create", "refuse", "insert", "settle"} /\ target[c] = r
    \/ pc[c] \in {"read", "lookup", "delete", "release"} /\ room[c] = r

\* The count of an address and a room is exactly the number of connections that
\* hold a reservation: refusals, room changes and disconnections give back what
\* was taken once (relay.go:93-144 and their four callers).  Only a goroutine
\* that panicked keeps its share for ever.
IPCountsExact ==
    \A a \in Addresses, r \in RoomIds :
        ipRooms[a][r] = Cardinality({c \in Conns :
            AddressOf[c] = a /\ (Holds(c, r) \/ (pc[c] = "panicked" /\ room[c] = r))})

\* A registered room without members has a goroutine on its way that adds one
\* or deletes the room: no empty room stays and eats from maxRooms.
EmptyRoomsGo ==
    \A r \in RoomIds :
        rooms[r] # None /\ Members(rooms[r]) = {} =>
            \E c \in Conns :
                \/ pc[c] = "insert" /\ obj[c] = rooms[r]
                \/ pc[c] = "release" /\ obj[c] = rooms[r] /\ empty[c]
                \/ pc[c] = "unlist" /\ leaving[c] = r

\* Every entry of a registered room is of a connection that is in that room
\* under that id and is not yet past its own removal, so that no ghost is listed
\* to the others; unless the connection has joined under another id while it was
\* in a room: removal deletes the entry of the last id (relay.go:192), the one
\* of the id before (relay.go:311) stays, and with it the room.
NoGhosts ==
    \A r \in RoomIds : rooms[r] # None =>
        \A i \in Members(rooms[r]) : LET c == clients[rooms[r]][i] IN
            c \notin renamed =>
                /\ id[c] = i
                /\ \/ pc[c] = "settle" /\ target[c] = r
                   \/ pc[c] \in {"read", "lookup", "delete"} /\ room[c] = r

\* A connection with an id of its own finds itself among the members when it
\* comes to getPeerIPs, also when the room was taken off the registry in between:
\* the slice there has no negative capacity and the goroutine does not panic.
JoinerListed ==
    \A c \in Conns : OwnId(c) /\ pc[c] \in {"settle", "panicked"} =>
        pc[c] = "settle" /\ clients[obj[c]][id[c]] = c
=============================================================================
