---------------------------- MODULE RelayProofs ----------------------------
(***************************************************************************)
(* Theorems about Relay, for any connections, ids, rooms, addresses and    *)
(* limits.                                                                 *)
(***************************************************************************)
EXTENDS Relay, FiniteSetTheorems, TLAPS

-----------------------------------------------------------------------------
(* The invariant *)

\* Types, but for the bound on the counts, which IPCountsExact gives.
Shape ==
    /\ rooms \in [RoomIds -> Objs \cup {None}]
    /\ clients \in [Objs -> [Ids -> Conns \cup {None}]]
    /\ ipRooms \in [Addresses -> [RoomIds -> Int]]
    /\ pc \in [Conns -> Labels]
    /\ id \in [Conns -> Ids \cup {None}]
    /\ room \in [Conns -> RoomIds \cup {None}]
    /\ target \in [Conns -> RoomIds \cup {None}]
    /\ leaving \in [Conns -> RoomIds \cup {None}]
    /\ obj \in [Conns -> Objs \cup {None}]
    /\ empty \in [Conns -> BOOLEAN]
    /\ renamed \subseteq Conns

\* What the variables of a goroutine are where it stands.
Standing(c) ==
    /\ pc[c] \in {"reserve", "create", "refuse", "insert", "settle"} =>
           room[c] = None /\ target[c] \in RoomIds
    /\ pc[c] \in {"read", "lookup", "delete", "release", "panicked"} => room[c] \in RoomIds
    /\ pc[c] \in {"closed", "unlist"} => room[c] = None
    /\ pc[c] # "closed" => id[c] \in IdsOf[c]
    /\ pc[c] \in {"insert", "settle", "delete"} => obj[c] \in Objs
    /\ pc[c] \notin {"insert", "settle", "delete", "release"} => obj[c] = None
    /\ empty[c] => pc[c] \in {"release", "unlist"}
    /\ pc[c] = "release" /\ empty[c] => obj[c] \in Objs
    /\ pc[c] = "unlist" => leaving[c] \in RoomIds

Locals == \A c \in Conns : Standing(c)

\* The name under which the goroutine of c works on its room object.
NameOf(c) == IF pc[c] \in {"insert", "settle"} THEN target[c] ELSE room[c]

\* A registered object has one name, and every goroutine that works on it is in
\* the room of that name.
OneName ==
    /\ \A r, q \in RoomIds : rooms[r] # None /\ rooms[r] = rooms[q] => r = q
    /\ \A r \in RoomIds, c \in Conns : rooms[r] # None /\ rooms[r] = obj[c] => NameOf(c) = r

\* What is not in memory has no contents.
Forgotten == \A o \in Objs : Free(o) => clients[o] = NoMembers

\* Connection c is the one that room r lists under id i.
Listed(c, r, i) ==
    /\ id[c] = i
    /\ \/ pc[c] = "settle" /\ target[c] = r /\ obj[c] = rooms[r]
       \/ pc[c] \in {"read", "lookup"} /\ room[c] = r
       \/ pc[c] = "delete" /\ room[c] = r /\ obj[c] = rooms[r]

\* Of the entries of a connection that changed its id in a room nothing is known.
Entries ==
    \A r \in RoomIds, i \in Ids :
        rooms[r] # None /\ clients[rooms[r]][i] \notin renamed \cup {None} =>
            Listed(clients[rooms[r]][i], r, i)

IInv == Shape /\ Locals /\ OneName /\ Forgotten /\ Entries

-----------------------------------------------------------------------------
(* Memory *)

\* A step that lets an object go keeps what is referred to and forgets the rest.
LEMMA CollectedFacts ==
    ASSUME clients \in [Objs -> [Ids -> Conns \cup {None}]],
           rooms' \in [RoomIds -> Objs \cup {None}],
           obj' \in [Conns -> Objs \cup {None}],
           clients' = Collected(clients, rooms', obj')
    PROVE  /\ clients' \in [Objs -> [Ids -> Conns \cup {None}]]
           /\ \A q \in RoomIds : rooms'[q] # None => clients'[rooms'[q]] = clients[rooms'[q]]
           /\ \A d \in Conns : obj'[d] # None => clients'[obj'[d]] = clients[obj'[d]]
           /\ Forgotten'
    <1>1. clients' \in [Objs -> [Ids -> Conns \cup {None}]]  BY DEF Collected, NoMembers
    <1>2. \A q \in RoomIds : rooms'[q] # None => clients'[rooms'[q]] = clients[rooms'[q]]
      <2> SUFFICES ASSUME NEW q \in RoomIds, rooms'[q] # None
                   PROVE  clients'[rooms'[q]] = clients[rooms'[q]]
          OBVIOUS
      <2>1. rooms'[q] \in Objs  OBVIOUS
      <2> QED  BY <2>1 DEF Collected
    <1>3. \A d \in Conns : obj'[d] # None => clients'[obj'[d]] = clients[obj'[d]]
      <2> SUFFICES ASSUME NEW d \in Conns, obj'[d] # None
                   PROVE  clients'[obj'[d]] = clients[obj'[d]]
          OBVIOUS
      <2>1. obj'[d] \in Objs  OBVIOUS
      <2> QED  BY <2>1 DEF Collected
    <1>4. Forgotten'
      <2> SUFFICES ASSUME NEW o \in Objs, Free(o)'  PROVE clients'[o] = NoMembers
          BY DEF Forgotten, NoMembers
      <2> QED  BY DEF Collected, Free
    <1> QED  BY <1>1, <1>2, <1>3, <1>4

LEMMA IInvInit == Init => IInv
    <1> SUFFICES ASSUME Init PROVE IInv  OBVIOUS
    <1>1. Shape  BY DEF Init, Shape, Labels, NoMembers
    <1>2. Locals  BY DEF Init, Locals, Standing
    <1>3. OneName /\ Forgotten /\ Entries  BY RelayConstants DEF Init, OneName, Forgotten, Entries
    <1> QED  BY <1>1, <1>2, <1>3 DEF IInv

-----------------------------------------------------------------------------
(* The steps *)

LEMMA JoinKeeps ==
    ASSUME IInv, NEW c \in Conns, NEW r \in RoomIds, NEW i \in IdsOf[c], Join(c, r, i)
    PROVE  IInv'
    <1> USE DEF Join, Goto, tables
    <1>1. i \in Ids /\ c # None /\ r # None  BY RelayConstants
    <1>2. Shape'  BY <1>1 DEF IInv, Shape, Labels
    <1>3. /\ pc[c] \in {"closed", "read"}
          /\ pc'[c] \in {"closed", "read", "reserve", "lookup"}
          /\ pc'[c] = "reserve" => room[c] = None /\ target'[c] = r
          /\ pc'[c] = "lookup" => pc[c] = "read"
          /\ pc'[c] = "read" => pc[c] = "read"
          /\ pc'[c] # "closed"
          /\ id'[c] = i /\ (pc[c] = "read" /\ c \notin renamed' => id[c] = i)
          /\ renamed \subseteq renamed' /\ renamed' \subseteq renamed \cup {c}
          /\ \A d \in Conns \ {c} : pc'[d] = pc[d] /\ id'[d] = id[d] /\ target'[d] = target[d]
          BY <1>1, RelayConstants DEF IInv, Shape, Locals, Standing
    <1>4. Locals'
      <2>1. Standing(c)'  BY <1>1, <1>3 DEF IInv, Locals, Standing, Shape
      <2>2. \A d \in Conns \ {c} : Standing(d)'  BY <1>3 DEF IInv, Locals, Standing
      <2> QED  BY <2>1, <2>2 DEF Locals
    <1>5. OneName'
          BY <1>3 DEF IInv, OneName, NameOf, Locals, Standing, Shape
    <1>6. Forgotten'  BY DEF IInv, Forgotten, Free
    <1>7. Entries'
      <2> SUFFICES ASSUME NEW q \in RoomIds, NEW j \in Ids,
                          rooms[q] # None, clients[rooms[q]][j] \notin renamed' \cup {None}
                   PROVE  Listed(clients[rooms[q]][j], q, j)'
          BY DEF Entries
      <2>1. clients[rooms[q]][j] \in Conns /\ Listed(clients[rooms[q]][j], q, j)
            BY <1>3 DEF IInv, Entries, Shape
      <2>2. CASE clients[rooms[q]][j] = c  BY <1>3, <2>1, <2>2, RelayConstants DEF Listed
      <2>3. CASE clients[rooms[q]][j] # c  BY <1>3, <2>1, <2>3 DEF Listed
      <2> QED  BY <2>2, <2>3
    <1> QED  BY <1>2, <1>4, <1>5, <1>6, <1>7 DEF IInv

LEMMA DisconnectKeeps ==
    ASSUME IInv, NEW c \in Conns, Disconnect(c)
    PROVE  IInv'
    <1> USE DEF Disconnect, Goto, tables
    <1>1. Shape'  BY DEF IInv, Shape, Labels
    <1>2. pc[c] = "read" /\ pc'[c] = "lookup"
          /\ \A d \in Conns \ {c} : pc'[d] = pc[d] /\ target'[d] = target[d]
          BY DEF IInv, Shape
    <1>3. Locals'  BY <1>2 DEF IInv, Locals, Standing, Shape
    <1>4. OneName'  BY <1>2 DEF IInv, OneName, NameOf, Shape
    <1>5. Forgotten'  BY DEF IInv, Forgotten, Free
    <1>6. Entries'  BY <1>2 DEF IInv, Entries, Listed, Shape
    <1> QED  BY <1>1, <1>3, <1>4, <1>5, <1>6 DEF IInv

LEMMA ReserveKeeps ==
    ASSUME IInv, NEW c \in Conns, Reserve(c)
    PROVE  IInv'
    <1> USE DEF Reserve, Goto
    <1>1. /\ pc[c] = "reserve" /\ target[c] \in RoomIds /\ room[c] = None
          /\ AddressOf[c] \in Addresses
          BY RelayConstants DEF IInv, Locals, Standing
    <1>2. Shape'
      <2>1. [ipRooms EXCEPT ![AddressOf[c]][target[c]] = @ + 1] \in [Addresses -> [RoomIds -> Int]]
            BY <1>1 DEF IInv, Shape
      <2>2. CASE MayReserve(AddressOf[c], target[c])
            BY <1>1, <2>1, <2>2 DEF IInv, Shape, Labels
      <2>3. CASE ~MayReserve(AddressOf[c], target[c])
            BY <1>1, <2>3 DEF IInv, Shape, Labels
      <2> QED  BY <2>2, <2>3
    <1>3. /\ (pc'[c] = "create" /\ target'[c] = target[c]) \/ pc'[c] = "closed"
          /\ \A d \in Conns \ {c} : pc'[d] = pc[d] /\ target'[d] = target[d]
          BY DEF IInv, Shape
    <1>4. Locals'
      <2>1. Standing(c)'  BY <1>1, <1>3 DEF IInv, Locals, Standing, Shape
      <2>2. \A d \in Conns \ {c} : Standing(d)'  BY <1>3 DEF IInv, Locals, Standing
      <2> QED  BY <2>1, <2>2 DEF Locals
    <1>5. OneName'  BY <1>1, <1>3 DEF IInv, OneName, NameOf, Shape, Locals, Standing
    <1>6. Forgotten'  BY DEF IInv, Forgotten, Free
    <1>7. Entries'  BY <1>1, <1>3 DEF IInv, Entries, Listed, Shape
    <1> QED  BY <1>2, <1>4, <1>5, <1>6, <1>7 DEF IInv

\* Back without a room.
LEMMA RefuseKeeps ==
    ASSUME IInv, NEW c \in Conns, Refuse(c)
    PROVE  IInv'
    <1> USE DEF Refuse, Goto
    <1>1. /\ pc[c] = "refuse" /\ target[c] \in RoomIds /\ room[c] = None
          /\ AddressOf[c] \in Addresses
          BY RelayConstants DEF IInv, Locals, Standing
    <1>2. Shape'  BY <1>1 DEF IInv, Shape, Labels, Released
    <1>3. /\ pc'[c] = "closed"
          /\ \A d \in Conns \ {c} : pc'[d] = pc[d] /\ target'[d] = target[d]
          BY DEF IInv, Shape
    <1>4. Locals'
      <2>1. Standing(c)'  BY <1>1, <1>3 DEF IInv, Locals, Standing, Shape
      <2>2. \A d \in Conns \ {c} : Standing(d)'  BY <1>3 DEF IInv, Locals, Standing
      <2> QED  BY <2>1, <2>2 DEF Locals
    <1>5. OneName'  BY <1>1, <1>3 DEF IInv, OneName, NameOf, Shape, Locals, Standing
    <1>6. Forgotten'  BY DEF IInv, Forgotten, Free
    <1>7. Entries'  BY <1>1, <1>3 DEF IInv, Entries, Listed, Shape
    <1> QED  BY <1>2, <1>4, <1>5, <1>6, <1>7 DEF IInv

\* A room object is taken from the registry or, blank, put into it.
LEMMA CreateKeeps ==
    ASSUME IInv, NEW c \in Conns, Create(c)
    PROVE  IInv'
    <1> DEFINE r == target[c]
    <1>1. /\ pc[c] = "create" /\ r \in RoomIds /\ room[c] = None /\ obj[c] = None
          /\ id[c] \in IdsOf[c] /\ ~empty[c]
          /\ UNCHANGED <<clients, ipRooms, id, renamed, room, target, leaving, empty>>
          BY DEF Create, IInv, Locals, Standing
    <1>2. CASE rooms[r] # None /\ obj' = [obj EXCEPT ![c] = rooms[r]] /\ Goto(c, "insert")
               /\ UNCHANGED rooms
      <2> USE DEF Goto
      <2>1. /\ Shape' /\ rooms[r] \in Objs
            BY <1>1, <1>2 DEF IInv, Shape, Labels
      <2>2. /\ pc'[c] = "insert" /\ obj'[c] = rooms[r]
            /\ \A d \in Conns \ {c} : pc'[d] = pc[d] /\ obj'[d] = obj[d]
            BY <1>1, <1>2 DEF IInv, Shape
      <2>3. Locals'
        <3>1. Standing(c)'  BY <1>1, <1>2, <2>1, <2>2 DEF Standing
        <3>2. \A d \in Conns \ {c} : Standing(d)'  BY <1>1, <2>2 DEF IInv, Locals, Standing
        <3> QED  BY <3>1, <3>2 DEF Locals
      <2>4. OneName'
        <3>1. \A q \in RoomIds : rooms[q] # None /\ rooms[q] = rooms[r] => q = r
              BY <1>1, <1>2 DEF IInv, OneName
        <3> QED  BY <1>1, <1>2, <2>2, <3>1 DEF IInv, OneName, NameOf
      <2>5. Forgotten'
        <3> SUFFICES ASSUME NEW o \in Objs, Free(o)'  PROVE clients'[o] = NoMembers
            BY DEF Forgotten, NoMembers
        <3>1. Free(o)
          <4>1. \A d \in Conns : obj[d] # o
            <5>1. obj[c] # o  BY <1>1, RelayConstants
            <5> QED  BY <2>2, <5>1 DEF Free
          <4> QED  BY <1>2, <4>1 DEF Free
        <3> QED  BY <1>1, <3>1 DEF IInv, Forgotten
      <2>6. Entries'
        <3> SUFFICES ASSUME NEW q \in RoomIds, NEW j \in Ids,
                            rooms[q] # None, clients[rooms[q]][j] \notin renamed \cup {None}
                     PROVE  Listed(clients[rooms[q]][j], q, j)'
            BY <1>1, <1>2 DEF Entries
        <3>1. clients[rooms[q]][j] \in Conns /\ Listed(clients[rooms[q]][j], q, j)
              BY DEF IInv, Entries, Shape
        <3> QED  BY <1>1, <1>2, <2>2, <3>1 DEF Listed
      <2> QED  BY <2>1, <2>3, <2>4, <2>5, <2>6 DEF IInv
    <1>3. CASE Goto(c, "refuse") /\ UNCHANGED <<rooms, obj>>
      <2> USE DEF Goto
      <2>1. Shape'  BY <1>1, <1>3 DEF IInv, Shape, Labels
      <2>2. pc'[c] = "refuse" /\ \A d \in Conns \ {c} : pc'[d] = pc[d]
            BY <1>1, <1>3 DEF IInv, Shape
      <2>3. Locals'  BY <1>1, <1>3, <2>2 DEF IInv, Locals, Standing
      <2>4. OneName'  BY <1>1, <1>3, <2>2, RelayConstants DEF IInv, OneName, NameOf
      <2>5. Forgotten'  BY <1>1, <1>3 DEF IInv, Forgotten, Free, NoMembers
      <2>6. Entries'  BY <1>1, <1>3, <2>2 DEF IInv, Entries, Listed, Shape
      <2> QED  BY <2>1, <2>3, <2>4, <2>5, <2>6 DEF IInv
    <1>4. ASSUME NEW o \in Objs, rooms[r] = None, Free(o),
                 rooms' = [rooms EXCEPT ![r] = o], obj' = [obj EXCEPT ![c] = o],
                 Goto(c, "insert")
          PROVE  IInv'
      <2> USE DEF Goto
      <2>1. Shape'  BY <1>1, <1>4 DEF IInv, Shape, Labels
      <2>2. /\ pc'[c] = "insert" /\ obj'[c] = o /\ rooms'[r] = o
            /\ \A d \in Conns \ {c} : pc'[d] = pc[d] /\ obj'[d] = obj[d]
            /\ \A q \in RoomIds \ {r} : rooms'[q] = rooms[q] /\ rooms[q] # o
            /\ \A d \in Conns : obj[d] # o
            BY <1>1, <1>4 DEF IInv, Shape, Free
      <2>3. Locals'
        <3>1. Standing(c)'  BY <1>1, <2>2 DEF Standing
        <3>2. \A d \in Conns \ {c} : Standing(d)'  BY <1>1, <2>2 DEF IInv, Locals, Standing
        <3> QED  BY <3>1, <3>2 DEF Locals
      <2>4. OneName'
        <3>1. ASSUME NEW p \in RoomIds, NEW q \in RoomIds, rooms'[p] # None, rooms'[p] = rooms'[q]
              PROVE  p = q
              BY <2>2, <3>1 DEF IInv, OneName
        <3>2. ASSUME NEW q \in RoomIds, NEW d \in Conns, rooms'[q] # None, rooms'[q] = obj'[d]
              PROVE  NameOf(d)' = q
          <4>1. CASE d = c  BY <1>1, <2>2, <3>2, <4>1 DEF NameOf
          <4>2. CASE d # c
            <5>1. q # r  BY <2>2, <3>2, <4>2
            <5>2. NameOf(d) = q  BY <2>2, <3>2, <4>2, <5>1 DEF IInv, OneName
            <5> QED  BY <1>1, <2>2, <4>2, <5>2 DEF NameOf
          <4> QED  BY <4>1, <4>2
        <3> QED  BY <3>1, <3>2 DEF OneName
      <2>5. Forgotten'
        <3> SUFFICES ASSUME NEW p \in Objs, Free(p)'  PROVE clients'[p] = NoMembers
            BY DEF Forgotten, NoMembers
        <3>1. p # o  BY <2>2, <1>1 DEF Free
        <3>2. \A d \in Conns : obj[d] # p
          <4>1. obj[c] # p  BY <1>1, RelayConstants
          <4> QED  BY <2>2, <4>1 DEF Free
        <3>3. \A q \in RoomIds : rooms[q] # p
          <4>1. rooms[r] # p  BY <1>4, RelayConstants
          <4> QED  BY <2>2, <4>1 DEF Free
        <3> QED  BY <1>1, <3>2, <3>3 DEF IInv, Forgotten, Free
      <2>6. Entries'
        <3> SUFFICES ASSUME NEW q \in RoomIds, NEW j \in Ids,
                            rooms'[q] # None, clients'[rooms'[q]][j] \notin renamed' \cup {None}
                     PROVE  Listed(clients[rooms[q]][j], q, j)'
            BY DEF Entries
        <3>4. clients' = clients  BY <1>1
        <3>1. q # r
          <4>1. clients[o] = NoMembers  BY <1>4 DEF IInv, Forgotten
          <4> QED  BY <2>2, <3>4, <4>1 DEF NoMembers
        <3>2. rooms'[q] = rooms[q]  BY <2>2, <3>1
        <3>3. clients[rooms[q]][j] \in Conns /\ Listed(clients[rooms[q]][j], q, j)
              BY <1>1, <3>2, <3>4 DEF IInv, Entries, Shape
        <3> QED  BY <1>1, <2>2, <3>2, <3>3, <3>4 DEF Listed
      <2> QED  BY <2>1, <2>3, <2>4, <2>5, <2>6 DEF IInv
    <1> QED  BY <1>2, <1>3, <1>4 DEF Create

LEMMA InsertKeeps ==
    ASSUME IInv, NEW c \in Conns, Insert(c)
    PROVE  IInv'
    <1> USE DEF Insert, Goto
    <1>1. /\ pc[c] = "insert" /\ target[c] \in RoomIds /\ room[c] = None
          /\ id[c] \in IdsOf[c] /\ id[c] \in Ids /\ obj[c] \in Objs /\ ~empty[c] /\ c # None
          /\ UNCHANGED <<rooms, ipRooms, id, renamed, room, target, leaving, obj, empty>>
          BY RelayConstants DEF IInv, Locals, Standing
    <1>2. Shape'
      <2>1. clients' \in [Objs -> [Ids -> Conns \cup {None}]]  BY <1>1 DEF IInv, Shape
      <2> QED  BY <1>1, <2>1 DEF IInv, Shape, Labels
    <1>3. /\ pc'[c] = "settle"
          /\ \A d \in Conns \ {c} : pc'[d] = pc[d]
          BY DEF IInv, Shape
    <1>4. Locals'
      <2>1. Standing(c)'  BY <1>1, <1>3 DEF IInv, Locals, Standing
      <2>2. \A d \in Conns \ {c} : Standing(d)'  BY <1>1, <1>3 DEF IInv, Locals, Standing
      <2> QED  BY <2>1, <2>2 DEF Locals
    <1>5. OneName'
      <2>1. \A d \in Conns : NameOf(d)' = NameOf(d)  BY <1>1, <1>3 DEF NameOf
      <2> QED  BY <1>1, <2>1 DEF IInv, OneName
    <1>6. Forgotten'
      <2> SUFFICES ASSUME NEW o \in Objs, Free(o)'  PROVE clients'[o] = NoMembers
          BY DEF Forgotten, NoMembers
      <2>1. Free(o) /\ o # obj[c]  BY <1>1 DEF Free
      <2> QED  BY <1>1, <2>1 DEF IInv, Forgotten, Shape
    <1>7. Entries'
      <2> SUFFICES ASSUME NEW q \in RoomIds, NEW j \in Ids,
                          rooms[q] # None, clients'[rooms[q]][j] \notin renamed \cup {None}
                   PROVE  Listed(clients[rooms[q]][j], q, j)'
          BY <1>1 DEF Entries
      <2>1. rooms[q] \in Objs  BY DEF IInv, Shape
      <2>2. CASE rooms[q] = obj[c] /\ j = id[c]
        <3>1. clients'[rooms[q]][j] = c  BY <1>1, <2>1, <2>2 DEF IInv, Shape
        <3>2. target[c] = q  BY <1>1, <2>2 DEF IInv, OneName, NameOf
        <3> QED  BY <1>1, <1>3, <2>2, <3>1, <3>2 DEF Listed
      <2>3. CASE ~(rooms[q] = obj[c] /\ j = id[c])
        <3>1. clients'[rooms[q]][j] = clients[rooms[q]][j]  BY <1>1, <2>1, <2>3 DEF IInv, Shape
        <3>2. /\ clients[rooms[q]][j] \in Conns
              /\ Listed(clients[rooms[q]][j], q, j)
              BY <3>1, <2>1 DEF IInv, Entries, Shape
        <3>3. clients[rooms[q]][j] # c  BY <1>1, <3>2 DEF Listed
        <3> QED  BY <1>1, <1>3, <3>1, <3>2, <3>3 DEF Listed
      <2> QED  BY <2>2, <2>3
    <1> QED  BY <1>2, <1>4, <1>5, <1>6, <1>7 DEF IInv

\* The room object is let go.
LEMMA SettleKeeps ==
    ASSUME IInv, NEW c \in Conns, Settle(c)
    PROVE  IInv'
    <1> USE DEF Settle, Goto
    <1>1. /\ pc[c] = "settle" /\ target[c] \in RoomIds /\ room[c] = None
          /\ id[c] \in IdsOf[c] /\ id[c] \in Ids /\ obj[c] \in Objs /\ ~empty[c] /\ c # None
          /\ UNCHANGED <<rooms, ipRooms, id, renamed, target, leaving, empty>>
          BY RelayConstants DEF IInv, Locals, Standing
    <1>2. /\ pc'[c] \in {"read", "panicked"} /\ room'[c] = target[c] /\ obj'[c] = None
          /\ Members(obj[c]) # {} => pc'[c] = "read"
          /\ \A d \in Conns \ {c} : pc'[d] = pc[d] /\ room'[d] = room[d] /\ obj'[d] = obj[d]
          /\ obj' \in [Conns -> Objs \cup {None}]
          BY <1>1 DEF IInv, Shape
    <1>3. /\ clients' \in [Objs -> [Ids -> Conns \cup {None}]]
          /\ \A q \in RoomIds : rooms[q] # None => clients'[rooms[q]] = clients[rooms[q]]
          /\ Forgotten'
      <2>1. /\ rooms' = rooms /\ rooms \in [RoomIds -> Objs \cup {None}]
            /\ clients \in [Objs -> [Ids -> Conns \cup {None}]]
            /\ clients' = Collected(clients, rooms', obj')
            BY <1>1 DEF IInv, Shape
      <2> QED  BY <1>2, <2>1, CollectedFacts
    <1>4. Shape'  BY <1>1, <1>2, <1>3 DEF IInv, Shape, Labels
    <1>5. Locals'
      <2>1. Standing(c)'  BY <1>1, <1>2, RelayConstants DEF Standing
      <2>2. \A d \in Conns \ {c} : Standing(d)'  BY <1>1, <1>2 DEF IInv, Locals, Standing
      <2> QED  BY <2>1, <2>2 DEF Locals
    <1>6. OneName'
      <2>1. \A d \in Conns \ {c} : NameOf(d)' = NameOf(d)  BY <1>1, <1>2 DEF NameOf
      <2> QED  BY <1>1, <1>2, <2>1 DEF IInv, OneName
    <1>7. Entries'
      <2> SUFFICES ASSUME NEW q \in RoomIds, NEW j \in Ids,
                          rooms[q] # None, clients'[rooms[q]][j] \notin renamed \cup {None}
                   PROVE  Listed(clients[rooms[q]][j], q, j)'
          BY <1>1 DEF Entries
      <2>1. /\ clients'[rooms[q]][j] = clients[rooms[q]][j]
            /\ clients[rooms[q]][j] \in Conns
            /\ Listed(clients[rooms[q]][j], q, j)
        <3>1. clients'[rooms[q]] = clients[rooms[q]] /\ rooms[q] \in Objs
              BY <1>3 DEF IInv, Shape
        <3>2. clients[rooms[q]][j] \notin renamed \cup {None}  BY <3>1
        <3> QED  BY <3>1, <3>2 DEF IInv, Entries, Shape
      <2>2. CASE clients[rooms[q]][j] = c
        <3>1. id[c] = j /\ target[c] = q /\ obj[c] = rooms[q]  BY <1>1, <2>1, <2>2 DEF Listed
        <3>2. j \in Members(obj[c])  BY <1>1, <2>2, <3>1 DEF Members
        <3>3. pc'[c] = "read" /\ room'[c] = q  BY <1>2, <3>1, <3>2
        <3> QED  BY <1>1, <2>1, <2>2, <3>1, <3>3 DEF Listed
      <2>3. CASE clients[rooms[q]][j] # c  BY <1>1, <1>2, <2>1, <2>3 DEF Listed
      <2> QED  BY <2>2, <2>3
    <1> QED  BY <1>3, <1>4, <1>5, <1>6, <1>7 DEF IInv

\* The room object is looked up by the name of the connection's room.
LEMMA LookupKeeps ==
    ASSUME IInv, NEW c \in Conns, Lookup(c)
    PROVE  IInv'
    <1> USE DEF Lookup, Goto, tables
    <1>1. /\ pc[c] = "lookup" /\ room[c] \in RoomIds /\ obj[c] = None /\ id[c] \in IdsOf[c]
          /\ ~empty[c] /\ c # None
          /\ rooms[room[c]] \in Objs \cup {None}
          /\ UNCHANGED <<rooms, clients, ipRooms, id, renamed, room, target, leaving, empty>>
          BY RelayConstants DEF IInv, Locals, Standing, Shape
    <1>2. /\ obj'[c] = rooms[room[c]]
          /\ pc'[c] \in {"release", "delete"} /\ (rooms[room[c]] # None <=> pc'[c] = "delete")
          /\ \A d \in Conns \ {c} : pc'[d] = pc[d] /\ obj'[d] = obj[d]
          BY <1>1 DEF IInv, Shape
    <1>3. Shape'  BY <1>1 DEF IInv, Shape, Labels
    <1>4. Locals'
      <2>1. Standing(c)'  BY <1>1, <1>2 DEF Standing
      <2>2. \A d \in Conns \ {c} : Standing(d)'  BY <1>1, <1>2 DEF IInv, Locals, Standing
      <2> QED  BY <2>1, <2>2 DEF Locals
    <1>5. OneName'
      <2>1. \A d \in Conns : NameOf(d)' = NameOf(d)  BY <1>1, <1>2 DEF NameOf
      <2>2. NameOf(c) = room[c]  BY <1>1 DEF NameOf
      <2> QED  BY <1>1, <1>2, <2>1, <2>2 DEF IInv, OneName
    <1>6. Forgotten'
      <2> SUFFICES ASSUME NEW o \in Objs, Free(o)'  PROVE clients'[o] = NoMembers
          BY DEF Forgotten, NoMembers
      <2>1. obj[c] # o  BY <1>1, RelayConstants
      <2> QED  BY <1>1, <1>2, <2>1 DEF IInv, Forgotten, Free
    <1>7. Entries'
      <2> SUFFICES ASSUME NEW q \in RoomIds, NEW j \in Ids,
                          rooms[q] # None, clients[rooms[q]][j] \notin renamed \cup {None}
                   PROVE  Listed(clients[rooms[q]][j], q, j)'
          BY <1>1 DEF Entries
      <2>1. clients[rooms[q]][j] \in Conns /\ Listed(clients[rooms[q]][j], q, j)
            BY DEF IInv, Entries, Shape
      <2> QED  BY <1>1, <1>2, <2>1 DEF Listed
    <1> QED  BY <1>3, <1>4, <1>5, <1>6, <1>7 DEF IInv

\* The connection's entry goes, whoever has it.
LEMMA DeleteKeeps ==
    ASSUME IInv, NEW c \in Conns, Delete(c)
    PROVE  IInv'
    <1> USE DEF Delete, Goto
    <1>1. /\ pc[c] = "delete" /\ room[c] \in RoomIds /\ obj[c] \in Objs
          /\ id[c] \in IdsOf[c] /\ id[c] \in Ids /\ c # None
          /\ UNCHANGED <<rooms, ipRooms, id, renamed, room, target, leaving, obj>>
          BY RelayConstants DEF IInv, Locals, Standing
    <1>2. /\ pc'[c] = "release"
          /\ \A d \in Conns \ {c} : pc'[d] = pc[d] /\ empty'[d] = empty[d]
          BY DEF IInv, Shape
    <1>3. Shape'
      <2>1. clients' \in [Objs -> [Ids -> Conns \cup {None}]]  BY <1>1 DEF IInv, Shape
      <2>2. empty' \in [Conns -> BOOLEAN]  BY DEF IInv, Shape
      <2> QED  BY <1>1, <2>1, <2>2 DEF IInv, Shape, Labels
    <1>4. Locals'
      <2>1. Standing(c)'  BY <1>1, <1>2 DEF Standing
      <2>2. \A d \in Conns \ {c} : Standing(d)'  BY <1>1, <1>2 DEF IInv, Locals, Standing
      <2> QED  BY <2>1, <2>2 DEF Locals
    <1>5. OneName'
      <2>1. \A d \in Conns : NameOf(d)' = NameOf(d)  BY <1>1, <1>2 DEF NameOf
      <2> QED  BY <1>1, <2>1 DEF IInv, OneName
    <1>6. Forgotten'
      <2> SUFFICES ASSUME NEW o \in Objs, Free(o)'  PROVE clients'[o] = NoMembers
          BY DEF Forgotten, NoMembers
      <2>1. Free(o) /\ o # obj[c]  BY <1>1 DEF Free
      <2> QED  BY <1>1, <2>1 DEF IInv, Forgotten, Shape
    <1>7. Entries'
      <2> SUFFICES ASSUME NEW q \in RoomIds, NEW j \in Ids,
                          rooms[q] # None, clients'[rooms[q]][j] \notin renamed \cup {None}
                   PROVE  Listed(clients[rooms[q]][j], q, j)'
          BY <1>1 DEF Entries
      <2>1. rooms[q] \in Objs  BY DEF IInv, Shape
      <2>2. ~(rooms[q] = obj[c] /\ j = id[c])  BY <1>1, <2>1 DEF IInv, Shape
      <2>3. clients'[rooms[q]][j] = clients[rooms[q]][j]  BY <1>1, <2>1, <2>2 DEF IInv, Shape
      <2>4. /\ clients[rooms[q]][j] \in Conns
            /\ Listed(clients[rooms[q]][j], q, j)
            BY <2>1, <2>3 DEF IInv, Entries, Shape
      <2>5. clients[rooms[q]][j] # c  BY <1>1, <2>2, <2>4 DEF Listed
      <2> QED  BY <1>1, <1>2, <2>3, <2>4, <2>5 DEF Listed
    <1> QED  BY <1>3, <1>4, <1>5, <1>6, <1>7 DEF IInv

\* The connection is in no room and works on no object.
LEMMA ReleaseKeeps ==
    ASSUME IInv, NEW c \in Conns, Release(c)
    PROVE  IInv'
    <1> USE DEF Release, Goto
    <1>1. /\ pc[c] = "release" /\ room[c] \in RoomIds /\ id[c] \in IdsOf[c] /\ c # None
          /\ AddressOf[c] \in Addresses
          /\ UNCHANGED <<rooms, id, renamed, target, empty>>
          BY RelayConstants DEF IInv, Locals, Standing
    <1>2. /\ empty[c] => pc'[c] = "unlist" /\ leaving'[c] = room[c]
          /\ ~empty[c] => pc'[c] \in {"closed", "reserve"}
          /\ pc'[c] = "reserve" => target[c] \in RoomIds
          /\ room'[c] = None /\ obj'[c] = None
          /\ \A d \in Conns \ {c} : /\ pc'[d] = pc[d] /\ room'[d] = room[d] /\ obj'[d] = obj[d]
                                    /\ leaving'[d] = leaving[d]
          BY <1>1 DEF IInv, Shape, AfterRemoval
    <1>3. /\ clients' \in [Objs -> [Ids -> Conns \cup {None}]]
          /\ \A q \in RoomIds : rooms[q] # None => clients'[rooms[q]] = clients[rooms[q]]
          /\ Forgotten'
      <2>1. /\ rooms' = rooms /\ rooms \in [RoomIds -> Objs \cup {None}]
            /\ clients \in [Objs -> [Ids -> Conns \cup {None}]]
            /\ obj' \in [Conns -> Objs \cup {None}]
            /\ clients' = Collected(clients, rooms', obj')
            BY <1>1 DEF IInv, Shape
      <2> QED  BY <2>1, CollectedFacts
    <1>4. Shape'
      <2>1. ipRooms' \in [Addresses -> [RoomIds -> Int]]  BY <1>1 DEF IInv, Shape, Released
      <2>2. pc' \in [Conns -> Labels]  BY DEF IInv, Shape, Labels, AfterRemoval
      <2>3. leaving' \in [Conns -> RoomIds \cup {None}]  BY <1>1 DEF IInv, Shape
      <2> QED  BY <1>1, <1>3, <2>1, <2>2, <2>3 DEF IInv, Shape
    <1>5. Locals'
      <2>1. Standing(c)'  BY <1>1, <1>2 DEF Standing
      <2>2. \A d \in Conns \ {c} : Standing(d)'  BY <1>1, <1>2 DEF IInv, Locals, Standing
      <2> QED  BY <2>1, <2>2 DEF Locals
    <1>6. OneName'
      <2>1. \A d \in Conns \ {c} : NameOf(d)' = NameOf(d)  BY <1>1, <1>2 DEF NameOf
      <2> QED  BY <1>1, <1>2, <2>1 DEF IInv, OneName
    <1>7. Entries'
      <2> SUFFICES ASSUME NEW q \in RoomIds, NEW j \in Ids,
                          rooms[q] # None, clients'[rooms[q]][j] \notin renamed \cup {None}
                   PROVE  Listed(clients[rooms[q]][j], q, j)'
          BY <1>1 DEF Entries
      <2>1. clients'[rooms[q]] = clients[rooms[q]] /\ rooms[q] \in Objs
            BY <1>3 DEF IInv, Shape
      <2>2. clients[rooms[q]][j] \notin renamed \cup {None}  BY <2>1
      <2>3. clients[rooms[q]][j] \in Conns /\ Listed(clients[rooms[q]][j], q, j)
            BY <2>1, <2>2 DEF IInv, Entries, Shape
      <2>4. clients[rooms[q]][j] # c  BY <1>1, <2>3 DEF Listed
      <2> QED  BY <1>1, <1>2, <2>1, <2>3, <2>4 DEF Listed
    <1> QED  BY <1>3, <1>4, <1>5, <1>6, <1>7 DEF IInv

\* The name is taken off the registry, whatever object is behind it.
LEMMA UnlistKeeps ==
    ASSUME IInv, NEW c \in Conns, Unlist(c)
    PROVE  IInv'
    <1> USE DEF Unlist, Goto
    <1>1. /\ pc[c] = "unlist" /\ room[c] = None /\ obj[c] = None /\ id[c] \in IdsOf[c]
          /\ leaving[c] \in RoomIds /\ c # None
          /\ UNCHANGED <<ipRooms, id, renamed, room, target, obj>>
          BY RelayConstants DEF IInv, Locals, Standing
    <1>2. /\ pc'[c] \in {"closed", "reserve"} /\ ~empty'[c]
          /\ pc'[c] = "reserve" => target[c] \in RoomIds
          /\ rooms'[leaving[c]] = None
          /\ \A q \in RoomIds : rooms'[q] # None => rooms'[q] = rooms[q]
          /\ \A d \in Conns \ {c} : /\ pc'[d] = pc[d] /\ empty'[d] = empty[d]
                                    /\ leaving'[d] = leaving[d]
          BY <1>1 DEF IInv, Shape, AfterRemoval
    <1>3. /\ clients' \in [Objs -> [Ids -> Conns \cup {None}]]
          /\ \A q \in RoomIds : rooms'[q] # None => clients'[rooms'[q]] = clients[rooms'[q]]
          /\ rooms' \in [RoomIds -> Objs \cup {None}]
          /\ Forgotten'
      <2>1. /\ rooms' \in [RoomIds -> Objs \cup {None}]
            /\ clients \in [Objs -> [Ids -> Conns \cup {None}]]
            /\ obj' \in [Conns -> Objs \cup {None}]
            /\ clients' = Collected(clients, rooms', obj')
            BY <1>1 DEF IInv, Shape
      <2> QED  BY <2>1, CollectedFacts
    <1>4. Shape'
      <2>1. pc' \in [Conns -> Labels]  BY DEF IInv, Shape, Labels, AfterRemoval
      <2>2. leaving' \in [Conns -> RoomIds \cup {None}]  BY <1>1 DEF IInv, Shape
      <2>3. empty' \in [Conns -> BOOLEAN]  BY DEF IInv, Shape
      <2> QED  BY <1>1, <1>3, <2>1, <2>2, <2>3 DEF IInv, Shape
    <1>5. Locals'
      <2>1. Standing(c)'  BY <1>1, <1>2 DEF Standing
      <2>2. \A d \in Conns \ {c} : Standing(d)'  BY <1>1, <1>2 DEF IInv, Locals, Standing
      <2> QED  BY <2>1, <2>2 DEF Locals
    <1>6. OneName'
      <2>1. \A d \in Conns \ {c} : NameOf(d)' = NameOf(d)  BY <1>1, <1>2 DEF NameOf
      <2>2. \A r, q \in RoomIds : rooms'[r] # None /\ rooms'[r] = rooms'[q] => r = q
            BY <1>2 DEF IInv, OneName
      <2>3. \A r \in RoomIds, d \in Conns :
                rooms'[r] # None /\ rooms'[r] = obj'[d] => NameOf(d)' = r
            BY <1>1, <1>2, <2>1 DEF IInv, OneName
      <2> QED  BY <2>2, <2>3 DEF OneName
    <1>7. Entries'
      <2> SUFFICES ASSUME NEW q \in RoomIds, NEW j \in Ids,
                          rooms'[q] # None, clients'[rooms'[q]][j] \notin renamed \cup {None}
                   PROVE  Listed(clients[rooms[q]][j], q, j)'
          BY DEF Entries
      <2>1. rooms'[q] = rooms[q] /\ clients'[rooms'[q]] = clients[rooms[q]] /\ rooms[q] \in Objs
            BY <1>2, <1>3 DEF IInv, Shape
      <2>2. rooms[q] # None /\ clients[rooms[q]][j] \notin renamed \cup {None}  BY <2>1
      <2>3. clients[rooms[q]][j] \in Conns /\ Listed(clients[rooms[q]][j], q, j)
            BY <2>1, <2>2 DEF IInv, Entries, Shape
      <2>4. clients[rooms[q]][j] # c  BY <1>1, <2>3 DEF Listed
      <2> QED  BY <1>1, <1>2, <2>1, <2>3, <2>4 DEF Listed
    <1> QED  BY <1>3, <1>4, <1>5, <1>6, <1>7 DEF IInv

LEMMA IInvStep == IInv /\ [Next]_vars => IInv'
    <1> SUFFICES ASSUME IInv, [Next]_vars  PROVE IInv'
        OBVIOUS
    <1>1. ASSUME NEW c \in Conns, NEW r \in RoomIds, NEW i \in IdsOf[c], Join(c, r, i)
          PROVE  IInv'
          BY <1>1, JoinKeeps
    <1>2. ASSUME NEW c \in Conns, Disconnect(c)  PROVE IInv'
          BY <1>2, DisconnectKeeps
    <1>3. ASSUME NEW c \in Conns, Handler(c)  PROVE IInv'
          BY <1>3, ReserveKeeps, CreateKeeps, RefuseKeeps, InsertKeeps, SettleKeeps,
             LookupKeeps, DeleteKeeps, ReleaseKeeps, UnlistKeeps DEF Handler
    <1>4. CASE UNCHANGED vars
          BY <1>4 DEF vars, tables, locals, IInv, Shape, Locals, Standing, OneName, NameOf,
                      Forgotten, Free, NoMembers, Entries, Listed
    <1> QED  BY <1>1, <1>2, <1>3, <1>4 DEF Next

\* In every reachable state the variables of each goroutine fit where it stands,
\* a room object has one name, and a room lists connections that are in it.
THEOREM IInvHolds == Spec => []IInv
    <1> QED  BY IInvInit, IInvStep, PTL DEF Spec

\* Every entry of a registered room is of a connection that is in that room under
\* that id and is not yet past its own removal, but for the connections that
\* joined under a second id while in a room (relay.go:191-219, :311, :359).
THEOREM NoGhostsHolds == Spec => []NoGhosts
    <1>1. IInv => NoGhosts
          BY RelayConstants DEF IInv, Entries, NoGhosts, Listed, Members
    <1> QED  BY <1>1, IInvHolds, PTL

-----------------------------------------------------------------------------
(* Nobody is lost between the entry and the list of peers *)

\* No step but the connection's own takes its entry away: the ids of the others
\* are not its id, and an object it works on is kept in memory.
LEMMA JoinerListedStep == IInv /\ JoinerListed /\ [Next]_vars => JoinerListed'
    <1> SUFFICES ASSUME IInv, JoinerListed, [Next]_vars,
                        NEW c \in Conns, OwnId(c), pc'[c] \in {"settle", "panicked"}
                 PROVE  pc'[c] = "settle" /\ clients'[obj'[c]][id'[c]] = c
        BY DEF JoinerListed, OwnId
    <1> USE DEF Goto
    <1>1. pc \in [Conns -> Labels] /\ obj \in [Conns -> Objs \cup {None}]
          /\ id \in [Conns -> Ids \cup {None}]
          BY DEF IInv, Shape
    <1>2. CASE pc[c] = "insert" /\ Insert(c)
      <2>1. obj[c] \in Objs /\ id[c] \in Ids
            BY <1>2, RelayConstants DEF IInv, Locals, Standing
      <2> QED  BY <1>1, <1>2, <2>1 DEF Insert, IInv, Shape
    <1>3. ASSUME pc[c] \in {"settle", "panicked"}  PROVE pc[c] = "settle"
                 /\ clients[obj[c]][id[c]] = c /\ obj[c] \in Objs /\ id[c] \in IdsOf[c] /\ id[c] \in Ids
          BY <1>3, RelayConstants DEF JoinerListed, IInv, Locals, Standing
    <1>4. CASE pc[c] = "settle" /\ Settle(c)
      <2>1. id[c] \in Members(obj[c])  BY <1>3, <1>4, RelayConstants DEF Members
      <2> QED  BY <1>1, <1>4, <2>1 DEF Settle
    <1>5. ASSUME NEW d \in Conns \ {c}, \/ \E r \in RoomIds, i \in IdsOf[d] : Join(d, r, i)
                                        \/ Disconnect(d) \/ Handler(d)
          PROVE  pc'[c] = "settle" /\ clients'[obj'[c]][id'[c]] = c
      <2> USE DEF tables
      <2>1. pc'[c] = pc[c] /\ obj'[c] = obj[c] /\ id'[c] = id[c]
            BY <1>1, <1>5 DEF Join, Disconnect, Handler, Reserve, Create, Refuse, Insert, Settle,
                              Lookup, Delete, Release, Unlist
      <2>2. /\ pc[c] = "settle" /\ clients[obj[c]][id[c]] = c
            /\ obj[c] \in Objs /\ id[c] \in IdsOf[c] /\ id[c] \in Ids
            BY <1>3, <2>1
      <2>3. CASE UNCHANGED clients  BY <2>1, <2>2, <2>3
      <2>4. CASE Insert(d) \/ Delete(d)
        <3>1. id[d] \in IdsOf[d] /\ obj[d] \in Objs
              BY <2>4 DEF Insert, Delete, IInv, Locals, Standing
        <3>2. id[d] # id[c]  BY <2>2, <3>1 DEF OwnId
        <3>3. clients'[obj[c]][id[c]] = clients[obj[c]][id[c]]
              BY <2>2, <2>4, <3>1, <3>2 DEF Insert, Delete, IInv, Shape
        <3> QED  BY <2>1, <2>2, <3>3
      <2>5. CASE Settle(d) \/ Release(d) \/ Unlist(d)
        <3>1. /\ clients \in [Objs -> [Ids -> Conns \cup {None}]]
              /\ rooms' \in [RoomIds -> Objs \cup {None}]
              /\ obj' \in [Conns -> Objs \cup {None}]
              /\ clients' = Collected(clients, rooms', obj')
              BY <2>5 DEF Settle, Release, Unlist, IInv, Shape
        <3>2. obj'[c] # None  BY <2>1, <2>2, RelayConstants
        <3>3. clients'[obj'[c]] = clients[obj'[c]]  BY <3>1, <3>2, CollectedFacts
        <3> QED  BY <2>1, <2>2, <3>3
      <2> QED  BY <1>5, <2>3, <2>4, <2>5 DEF Join, Disconnect, Handler, Reserve, Create, Refuse, Lookup
    <1>6. CASE UNCHANGED vars
          BY <1>3, <1>6 DEF vars, tables, locals
    <1>7. CASE \/ \E r \in RoomIds, i \in IdsOf[c] : Join(c, r, i)
               \/ Disconnect(c) \/ Handler(c)
      <2>1. pc[c] \in {"insert", "settle"}
            BY <1>1, <1>7 DEF Join, Disconnect, Handler, Reserve, Create, Refuse, Insert, Settle,
                              Lookup, Delete, Release, Unlist, AfterRemoval
      <2>2. Insert(c) \/ Settle(c)
            BY <1>7, <2>1 DEF Join, Disconnect, Handler, Reserve, Create, Refuse, Insert, Settle,
                              Lookup, Delete, Release, Unlist
      <2> QED  BY <1>2, <1>4, <2>2 DEF Insert, Settle
    <1> QED  BY <1>5, <1>6, <1>7 DEF Next

\* A connection whose ids no other connection gives finds itself in the room's
\* members when the peers' addresses are listed, and its goroutine does not panic,
\* whatever the others do between its critical sections (relay.go:247, :358-390).
THEOREM JoinerListedHolds == Spec => []JoinerListed
    <1>1. Init => JoinerListed  BY DEF Init, JoinerListed
    <1>2. JoinerListed /\ IInv /\ [Next]_vars => JoinerListed'  BY JoinerListedStep
    <1> QED  BY <1>1, <1>2, IInvHolds, PTL DEF Spec

-----------------------------------------------------------------------------
(* No empty room stays *)

\* The goroutine of c is about to add a member to room r, or to delete the room.
Attends(c, r) ==
    \/ pc[c] = "insert" /\ obj[c] = rooms[r]
    \/ pc[c] = "release" /\ obj[c] = rooms[r] /\ empty[c]
    \/ pc[c] = "unlist" /\ leaving[c] = r

\* A step that leaves a room and its members alone leaves who attends to it, but
\* for the goroutine that takes the step.
LEMMA StillAttended ==
    ASSUME NEW c \in Conns, NEW d \in Conns, NEW r \in RoomIds, c # d,
           pc'[d] = pc[d], obj'[d] = obj[d], empty'[d] = empty[d], leaving'[d] = leaving[d],
           rooms'[r] = rooms[r], Attends(d, r)
    PROVE  Attends(d, r)'
    BY DEF Attends

LEMMA EmptyRoomsGoStep == IInv /\ EmptyRoomsGo /\ [Next]_vars => EmptyRoomsGo'
    <1> SUFFICES ASSUME IInv, EmptyRoomsGo, [Next]_vars, NEW r \in RoomIds,
                        rooms'[r] # None, Members(rooms[r])' = {}
                 PROVE  \E c \in Conns : Attends(c, r)'
        BY DEF EmptyRoomsGo, Attends
    <1> USE DEF Goto, tables
    <1>1. Shape  BY DEF IInv
    <1>2. rooms[r] # None /\ Members(rooms[r]) = {} => \E d \in Conns : Attends(d, r)
          BY DEF EmptyRoomsGo, Attends
    <1>3. ASSUME NEW c \in Conns, \/ \E q \in RoomIds, i \in IdsOf[c] : Join(c, q, i)
                                  \/ Disconnect(c) \/ Handler(c)
          PROVE  \E d \in Conns : Attends(d, r)'
      <2>1. \A d \in Conns \ {c} : /\ pc'[d] = pc[d] /\ obj'[d] = obj[d]
                                   /\ empty'[d] = empty[d] /\ leaving'[d] = leaving[d]
            BY <1>1, <1>3 DEF Shape, Join, Disconnect, Handler, Reserve, Create, Refuse, Insert,
                              Settle, Lookup, Delete, Release, Unlist
      <2>2. ASSUME rooms'[r] = rooms[r], Members(rooms[r]) = {},
                   Attends(c, r) => Attends(c, r)'
            PROVE  \E d \in Conns : Attends(d, r)'
        <3>1. PICK d \in Conns : Attends(d, r)  BY <1>2, <2>2
        <3>2. CASE d = c  BY <2>2, <3>1, <3>2
        <3>3. CASE d # c  BY <2>1, <2>2, <3>1, <3>3, StillAttended
        <3> QED  BY <3>2, <3>3
      <2>3. CASE \/ \E q \in RoomIds, i \in IdsOf[c] : Join(c, q, i)
                 \/ Disconnect(c) \/ Reserve(c) \/ Refuse(c) \/ Lookup(c)
        <3>1. rooms' = rooms /\ clients' = clients
              BY <2>3 DEF Join, Disconnect, Reserve, Refuse, Lookup
        <3>2. ~Attends(c, r)
              BY <2>3 DEF Attends, Join, Disconnect, Reserve, Refuse, Lookup
        <3> QED  BY <2>2, <3>1, <3>2 DEF Members
      <2>4. CASE Create(c)
        <3>1. clients' = clients /\ pc[c] = "create"  BY <2>4 DEF Create
        <3>2. CASE rooms'[r] = rooms[r]  BY <2>2, <3>1, <3>2 DEF Members, Attends
        <3>3. CASE rooms'[r] # rooms[r]
          <4>1. pc'[c] = "insert" /\ obj'[c] = rooms'[r]
                BY <1>1, <2>4, <3>3 DEF Create, Shape
          <4> QED  BY <4>1 DEF Attends
        <3> QED  BY <3>2, <3>3
      <2>5. CASE Insert(c)
        <3>1. rooms' = rooms /\ obj' = obj /\ obj[c] \in Objs /\ id[c] \in Ids /\ rooms[r] \in Objs
              BY <1>1, <2>5, RelayConstants DEF Insert, IInv, Locals, Standing, Shape
        <3>2. rooms[r] # obj[c]
          <4>1. clients'[obj[c]][id[c]] = c  BY <1>1, <2>5, <3>1 DEF Insert, Shape
          <4>2. id[c] \in Members(obj[c])'  BY <3>1, <4>1, RelayConstants DEF Members
          <4> QED  BY <3>1, <4>2 DEF Members
        <3>3. clients'[rooms[r]] = clients[rooms[r]]  BY <1>1, <2>5, <3>1, <3>2 DEF Insert, Shape
        <3>4. Members(rooms[r]) = {}  BY <3>1, <3>3 DEF Members
        <3>5. ~Attends(c, r)  BY <2>5, <3>2 DEF Attends, Insert
        <3> QED  BY <2>2, <3>1, <3>4, <3>5
      <2>6. CASE Settle(c) \/ Release(c) \/ Unlist(c)
        <3>1. /\ rooms' \in [RoomIds -> Objs \cup {None}]
              /\ obj' \in [Conns -> Objs \cup {None}]
              /\ clients' = Collected(clients, rooms', obj')
              /\ clients \in [Objs -> [Ids -> Conns \cup {None}]]
              BY <1>1, <2>6 DEF Settle, Release, Unlist, Shape
        <3>2. rooms'[r] = rooms[r]  BY <1>1, <2>6 DEF Settle, Release, Unlist, Shape
        <3>3. clients'[rooms[r]] = clients[rooms[r]]  BY <3>1, <3>2, CollectedFacts
        <3>4. Members(rooms[r]) = {}  BY <3>2, <3>3 DEF Members
        <3>5. ASSUME Attends(c, r)  PROVE Attends(c, r)'
          <4>1. CASE Settle(c)  BY <3>5, <4>1 DEF Attends, Settle
          <4>2. CASE Release(c)
            <5>1. obj[c] = rooms[r] /\ empty[c] /\ pc[c] = "release"
                  BY <3>5, <4>2 DEF Attends, Release
            <5>2. room[c] = r  BY <3>2, <5>1 DEF IInv, OneName, NameOf
            <5>3. pc'[c] = "unlist" /\ leaving'[c] = r  BY <1>1, <4>2, <5>1, <5>2 DEF Release, Shape
            <5> QED  BY <5>3 DEF Attends
          <4>3. CASE Unlist(c)
            <5>1. leaving[c] = r  BY <3>5, <4>3 DEF Attends, Unlist
            <5> QED  BY <1>1, <4>3, <5>1 DEF Unlist, Shape
          <4> QED  BY <2>6, <4>1, <4>2, <4>3
        <3> QED  BY <2>2, <3>2, <3>4, <3>5
      <2>7. CASE Delete(c)
        <3>1. /\ rooms' = rooms /\ obj' = obj /\ obj[c] \in Objs /\ id[c] \in Ids
              /\ rooms[r] \in Objs /\ pc'[c] = "release"
              BY <1>1, <2>7, RelayConstants DEF Delete, IInv, Locals, Standing, Shape
        <3>2. CASE rooms[r] = obj[c]
          <4>1. \A i \in Ids : i # id[c] => clients'[obj[c]][i] = clients[obj[c]][i]
                BY <1>1, <2>7, <3>1 DEF Delete, Shape
          <4>2. \A i \in Ids : clients'[obj[c]][i] = None  BY <3>1, <3>2 DEF Members
          <4>3. Members(obj[c]) \ {id[c]} = {}  BY <4>1, <4>2 DEF Members
          <4>4. empty'[c]  BY <1>1, <2>7, <4>3 DEF Delete, Shape
          <4> QED  BY <3>1, <3>2, <4>4 DEF Attends
        <3>3. CASE rooms[r] # obj[c]
          <4>1. clients'[rooms[r]] = clients[rooms[r]]  BY <1>1, <2>7, <3>1, <3>3 DEF Delete, Shape
          <4>2. Members(rooms[r]) = {}  BY <3>1, <4>1 DEF Members
          <4>3. ~Attends(c, r)  BY <2>7 DEF Attends, Delete
          <4> QED  BY <2>2, <3>1, <4>2, <4>3
        <3> QED  BY <3>2, <3>3
      <2> QED  BY <1>3, <2>3, <2>4, <2>5, <2>6, <2>7 DEF Handler
    <1>4. CASE UNCHANGED vars
          BY <1>2, <1>4 DEF vars, tables, locals, Members, Attends
    <1> QED  BY <1>3, <1>4 DEF Next

\* A registered room without members has a goroutine on its way that adds one or
\* deletes the room, although the room is deleted by its name on the strength of
\* a count taken three critical sections ago (relay.go:191-219).
THEOREM EmptyRoomsGoHolds == Spec => []EmptyRoomsGo
    <1>1. Init => EmptyRoomsGo  BY DEF Init, EmptyRoomsGo
    <1>2. EmptyRoomsGo /\ IInv /\ [Next]_vars => EmptyRoomsGo'  BY EmptyRoomsGoStep
    <1> QED  BY <1>1, <1>2, IInvHolds, PTL DEF Spec

-----------------------------------------------------------------------------
(* The counts *)

\* Connection c accounts for one of the count of its address and room r.
Accounts(c, r) == Holds(c, r) \/ (pc[c] = "panicked" /\ room[c] = r)

Holders(a, r) == {c \in Conns : AddressOf[c] = a /\ Accounts(c, r)}

\* The step of a connection that neither takes nor gives back leaves who accounts
\* for what.
LEMMA SameHolders ==
    ASSUME IPCountsExact, UNCHANGED ipRooms,
           \A d \in Conns, r \in RoomIds : Accounts(d, r)' <=> Accounts(d, r)
    PROVE  IPCountsExact'
    <1> SUFFICES ASSUME NEW a \in Addresses, NEW r \in RoomIds
                 PROVE  ipRooms'[a][r] = Cardinality(Holders(a, r)')
        BY DEF IPCountsExact, Holders, Accounts
    <1>1. Holders(a, r)' = Holders(a, r)  BY DEF Holders
    <1> QED  BY <1>1 DEF IPCountsExact, Holders, Accounts

LEMMA HoldersFinite ==
    ASSUME NEW a, NEW r
    PROVE  IsFiniteSet(Holders(a, r)) /\ Cardinality(Holders(a, r)) \in Nat
    <1>1. Holders(a, r) \subseteq Conns  BY DEF Holders
    <1> QED  BY <1>1, RelayConstants, FS_Subset, FS_CardinalityType

\* One more.
LEMMA TakenOne ==
    ASSUME IInv, IPCountsExact, NEW c \in Conns, NEW q \in RoomIds,
           ipRooms' = [ipRooms EXCEPT ![AddressOf[c]][q] = @ + 1],
           \A r \in RoomIds : ~Accounts(c, r) /\ (Accounts(c, r)' <=> r = q),
           \A d \in Conns \ {c}, r \in RoomIds : Accounts(d, r)' <=> Accounts(d, r)
    PROVE  IPCountsExact'
    <1> SUFFICES ASSUME NEW a \in Addresses, NEW r \in RoomIds
                 PROVE  ipRooms'[a][r] = Cardinality(Holders(a, r)')
        BY DEF IPCountsExact, Holders, Accounts
    <1>1. ipRooms[a][r] = Cardinality(Holders(a, r))  BY DEF IPCountsExact, Holders, Accounts
    <1>2. /\ ipRooms \in [Addresses -> [RoomIds -> Int]] /\ AddressOf[c] \in Addresses
          BY RelayConstants DEF IInv, Shape
    <1>3. CASE a = AddressOf[c] /\ r = q
      <2>1. Holders(a, r)' = Holders(a, r) \cup {c} /\ c \notin Holders(a, r)
            BY <1>3 DEF Holders
      <2>2. Cardinality(Holders(a, r)') = Cardinality(Holders(a, r)) + 1
            BY <2>1, HoldersFinite, FS_AddElement
      <2>3. ipRooms'[a][r] = ipRooms[a][r] + 1  BY <1>2, <1>3
      <2> QED  BY <1>1, <2>2, <2>3
    <1>4. CASE ~(a = AddressOf[c] /\ r = q)
      <2>1. Holders(a, r)' = Holders(a, r)  BY <1>4 DEF Holders
      <2>2. ipRooms'[a][r] = ipRooms[a][r]  BY <1>2, <1>4
      <2> QED  BY <1>1, <2>1, <2>2
    <1> QED  BY <1>3, <1>4

\* One less: the count that is given back is at least one.
LEMMA GivenBackOne ==
    ASSUME IInv, IPCountsExact, NEW c \in Conns, NEW q \in RoomIds,
           ipRooms' = Released(AddressOf[c], q),
           \A r \in RoomIds : (Accounts(c, r) <=> r = q) /\ ~Accounts(c, r)',
           \A d \in Conns \ {c}, r \in RoomIds : Accounts(d, r)' <=> Accounts(d, r)
    PROVE  IPCountsExact'
    <1> SUFFICES ASSUME NEW a \in Addresses, NEW r \in RoomIds
                 PROVE  ipRooms'[a][r] = Cardinality(Holders(a, r)')
        BY DEF IPCountsExact, Holders, Accounts
    <1>1. ipRooms[a][r] = Cardinality(Holders(a, r))  BY DEF IPCountsExact, Holders, Accounts
    <1>2. /\ ipRooms \in [Addresses -> [RoomIds -> Int]] /\ AddressOf[c] \in Addresses
          BY RelayConstants DEF IInv, Shape
    <1>3. CASE a = AddressOf[c] /\ r = q
      <2>1. Holders(a, r)' = Holders(a, r) \ {c} /\ c \in Holders(a, r)
            BY <1>3 DEF Holders
      <2>2. /\ Cardinality(Holders(a, r)') = Cardinality(Holders(a, r)) - 1
            /\ Cardinality(Holders(a, r)') \in Nat
        <3>1. IsFiniteSet(Holders(a, r)) /\ Cardinality(Holders(a, r)) \in Nat  BY HoldersFinite
        <3>2. /\ IsFiniteSet(Holders(a, r) \ {c})
              /\ Cardinality(Holders(a, r) \ {c}) = Cardinality(Holders(a, r)) - 1
              BY <2>1, <3>1, FS_RemoveElement
        <3>3. Cardinality(Holders(a, r) \ {c}) \in Nat  BY <3>2, FS_CardinalityType
        <3> QED  BY <2>1, <3>2, <3>3
      <2>3. ipRooms'[a][r] = IF ipRooms[a][r] <= 1 THEN 0 ELSE ipRooms[a][r] - 1
            BY <1>2, <1>3 DEF Released
      <2>4. Cardinality(Holders(a, r)) \in Nat  BY HoldersFinite
      <2> QED  BY <1>1, <2>2, <2>3, <2>4
    <1>4. CASE ~(a = AddressOf[c] /\ r = q)
      <2>1. Holders(a, r)' = Holders(a, r)  BY <1>4 DEF Holders
      <2>2. ipRooms'[a][r] = ipRooms[a][r]  BY <1>2, <1>4 DEF Released
      <2> QED  BY <1>1, <2>1, <2>2
    <1> QED  BY <1>3, <1>4

LEMMA IPCountsExactStep == IInv /\ IPCountsExact /\ [Next]_vars => IPCountsExact'
    <1> SUFFICES ASSUME IInv, IPCountsExact, [Next]_vars  PROVE IPCountsExact'
        OBVIOUS
    <1> USE DEF Goto, tables
    <1>1. Shape  BY DEF IInv
    <1>2. ASSUME NEW c \in Conns, \/ \E q \in RoomIds, i \in IdsOf[c] : Join(c, q, i)
                                  \/ Disconnect(c) \/ Handler(c)
          PROVE  IPCountsExact'
      <2>1. \A d \in Conns \ {c}, r \in RoomIds : Accounts(d, r)' <=> Accounts(d, r)
        <3>1. \A d \in Conns \ {c} : pc'[d] = pc[d] /\ room'[d] = room[d] /\ target'[d] = target[d]
              BY <1>1, <1>2 DEF Shape, Join, Disconnect, Handler, Reserve, Create, Refuse, Insert,
                                Settle, Lookup, Delete, Release, Unlist
        <3> QED  BY <3>1 DEF Accounts, Holds
      <2>2. Standing(c) /\ None \notin RoomIds  BY RelayConstants DEF IInv, Locals
      <2>3. ASSUME UNCHANGED ipRooms, \A r \in RoomIds : Accounts(c, r)' <=> Accounts(c, r)
            PROVE  IPCountsExact'
            BY <2>1, <2>3, SameHolders
      <2>4. CASE \/ \E q \in RoomIds, i \in IdsOf[c] : Join(c, q, i)
                 \/ Disconnect(c)
        <3>1. UNCHANGED <<ipRooms, room>>  BY <2>4 DEF Join, Disconnect
        <3>2. \/ pc[c] = "read" /\ pc'[c] \in {"read", "lookup"}
              \/ pc[c] = "closed" /\ pc'[c] = "reserve"
              BY <1>1, <2>2, <2>4 DEF Join, Disconnect, Shape, Standing
        <3> QED  BY <2>3, <3>1, <3>2 DEF Accounts, Holds
      <2>5. CASE Reserve(c)
        <3>1. pc[c] = "reserve" /\ target[c] \in RoomIds  BY <2>2, <2>5 DEF Reserve, Standing
        <3>2. CASE MayReserve(AddressOf[c], target[c])
          <4>1. pc'[c] = "create" /\ target'[c] = target[c]
                /\ ipRooms' = [ipRooms EXCEPT ![AddressOf[c]][target[c]] = @ + 1]
                BY <1>1, <2>5, <3>2 DEF Reserve, Shape
          <4>2. \A r \in RoomIds : ~Accounts(c, r) /\ (Accounts(c, r)' <=> r = target[c])
                BY <3>1, <4>1 DEF Accounts, Holds
          <4> QED  BY <2>1, <3>1, <4>1, <4>2, TakenOne
        <3>3. CASE ~MayReserve(AddressOf[c], target[c])
          <4>1. pc'[c] = "closed" /\ UNCHANGED ipRooms  BY <1>1, <2>5, <3>3 DEF Reserve, Shape
          <4> QED  BY <2>3, <3>1, <4>1 DEF Accounts, Holds
        <3> QED  BY <3>2, <3>3
      <2>6. CASE Create(c)
        <3>1. /\ pc[c] = "create" /\ pc'[c] \in {"insert", "refuse"}
              /\ UNCHANGED <<ipRooms, target, room>>
              BY <1>1, <2>6 DEF Create, Shape
        <3> QED  BY <2>3, <3>1 DEF Accounts, Holds
      <2>7. CASE Refuse(c)
        <3>1. /\ pc[c] = "refuse" /\ target[c] \in RoomIds /\ pc'[c] = "closed"
              /\ ipRooms' = Released(AddressOf[c], target[c])
              BY <1>1, <2>2, <2>7 DEF Refuse, Shape, Standing
        <3>2. \A r \in RoomIds : (Accounts(c, r) <=> r = target[c]) /\ ~Accounts(c, r)'
              BY <3>1 DEF Accounts, Holds
        <3> QED  BY <2>1, <3>1, <3>2, GivenBackOne
      <2>8. CASE Insert(c) \/ Lookup(c) \/ Delete(c)
        <3>1. /\ UNCHANGED <<ipRooms, target, room>>
              /\ \/ pc[c] = "insert" /\ pc'[c] = "settle"
                 \/ pc[c] \in {"lookup", "delete"} /\ pc'[c] \in {"delete", "release"}
              BY <1>1, <2>8 DEF Insert, Lookup, Delete, Shape
        <3> QED  BY <2>3, <3>1 DEF Accounts, Holds
      <2>9. CASE Settle(c)
        <3>1. /\ pc[c] = "settle" /\ pc'[c] \in {"read", "panicked"} /\ room'[c] = target[c]
              /\ UNCHANGED ipRooms
              BY <1>1, <2>9 DEF Settle, Shape
        <3> QED  BY <2>3, <3>1 DEF Accounts, Holds
      <2>10. CASE Release(c)
        <3>1. /\ pc[c] = "release" /\ room[c] \in RoomIds
              /\ pc'[c] \in {"unlist", "closed", "reserve"}
              /\ ipRooms' = Released(AddressOf[c], room[c])
              BY <1>1, <2>2, <2>10 DEF Release, Shape, Standing, AfterRemoval
        <3>2. \A r \in RoomIds : (Accounts(c, r) <=> r = room[c]) /\ ~Accounts(c, r)'
              BY <3>1 DEF Accounts, Holds
        <3> QED  BY <2>1, <3>1, <3>2, GivenBackOne
      <2>11. CASE Unlist(c)
        <3>1. /\ pc[c] = "unlist" /\ pc'[c] \in {"closed", "reserve"} /\ UNCHANGED ipRooms
              BY <1>1, <2>11 DEF Unlist, Shape, AfterRemoval
        <3> QED  BY <2>3, <3>1 DEF Accounts, Holds
      <2> QED  BY <1>2, <2>4, <2>5, <2>6, <2>7, <2>8, <2>9, <2>10, <2>11 DEF Handler
    <1>3. CASE UNCHANGED vars
      <2>1. UNCHANGED ipRooms  BY <1>3 DEF vars
      <2>2. \A d \in Conns, r \in RoomIds : Accounts(d, r)' <=> Accounts(d, r)
            BY <1>3 DEF vars, locals, Accounts, Holds
      <2> QED  BY <2>1, <2>2, SameHolders
    <1> QED  BY <1>2, <1>3 DEF Next

\* The count of an address and a room is the number of connections that hold a
\* reservation there: refusals, room changes and disconnections give back exactly
\* what was taken, and a goroutine that panicked keeps its share (relay.go:93-144).
THEOREM IPCountsExactHolds == Spec => []IPCountsExact
    <1>1. Init => IPCountsExact
      <2> SUFFICES ASSUME Init, NEW a \in Addresses, NEW r \in RoomIds
                   PROVE  ipRooms[a][r] = Cardinality(Holders(a, r))
          BY DEF IPCountsExact, Holders, Accounts
      <2>1. Holders(a, r) = {}  BY DEF Init, Holders, Accounts, Holds
      <2> QED  BY <2>1, FS_EmptySet DEF Init
    <1>2. IPCountsExact /\ IInv /\ [Next]_vars => IPCountsExact'  BY IPCountsExactStep
    <1> QED  BY <1>1, <1>2, IInvHolds, PTL DEF Spec

\* The variables have their types; a count of an address never exceeds the number
\* of connections and is never negative.
THEOREM TypeCorrect == Spec => []TypeOK
    <1>1. IInv /\ IPCountsExact => TypeOK
      <2> SUFFICES ASSUME IInv, IPCountsExact  PROVE TypeOK  OBVIOUS
      <2>1. ASSUME NEW a \in Addresses, NEW r \in RoomIds
            PROVE  ipRooms[a][r] \in 0..Cardinality(Conns)
        <3>1. ipRooms[a][r] = Cardinality(Holders(a, r))
              BY DEF IPCountsExact, Holders, Accounts
        <3>2. Holders(a, r) \subseteq Conns  BY DEF Holders
        <3>3. Cardinality(Holders(a, r)) <= Cardinality(Conns) /\ Cardinality(Conns) \in Nat
              BY <3>2, RelayConstants, FS_Subset, FS_CardinalityType
        <3> QED  BY <3>1, <3>3, HoldersFinite
      <2>2. ipRooms \in [Addresses -> [RoomIds -> 0..Cardinality(Conns)]]
            BY <2>1 DEF IInv, Shape
      <2> QED  BY <2>2 DEF IInv, Shape, TypeOK
    <1> QED  BY <1>1, IInvHolds, IPCountsExactHolds, PTL
=============================================================================
