------------------------- MODULE RoomManagerProofs -------------------------
(***************************************************************************)
(* What holds of the room registry for every set of codes, sockets, tokens *)
(* and overlapping calls.                                                  *)
(***************************************************************************)
EXTENDS RoomManager, TLAPS

\* A list of users made of sockets makes a well-typed heap.
LEMMA SetUsersType ==
    ASSUME TypeOK, NEW o \in Objects, NEW users \in SUBSET Sockets
    PROVE  SetUsers(o, users) \in [Objects -> RoomObject]
  <1>1. \A x \in RoomObject : [x EXCEPT !.users = users] \in RoomObject BY DEF RoomObject
  <1>2. heap \in [Objects -> RoomObject] BY DEF TypeOK
  <1> QED BY <1>1, <1>2 DEF SetUsers

\* Collecting garbage keeps a heap well typed.
LEMMA CollectType ==
    ASSUME NEW h \in [Objects -> RoomObject], NEW rms, NEW joins
    PROVE  Collect(h, rms, joins) \in [Objects -> RoomObject]
  BY DEF Collect, RoomObject, NoRoom

\* A registered code has an object, whose users are sockets.
LEMMA RoomAtType ==
    ASSUME TypeOK, NEW c \in Codes, Exists(c)
    PROVE  rooms[c] \in Objects /\ RoomAt(c) \in RoomObject
           /\ RoomAt(c).users \in SUBSET Sockets /\ RoomAt(c).mode \in Modes \cup {None}
  BY DEF TypeOK, Exists, RoomAt, RoomObject

\* deleteRoom keeps the types of all it writes.
LEMMA DeleteRoomsType ==
    ASSUME TypeOK, NEW C \in SUBSET Codes, NEW joins, DeleteRooms(C, joins)
    PROVE  /\ rooms' \in [Codes -> Objects \cup {None}]
           /\ heap' \in [Objects -> RoomObject]
           /\ roomTimers' \in [Codes -> Timer]
           /\ creatorRooms' \in [Creators -> SUBSET Codes]
           /\ inviteTokens' \in [Tokens -> Token]
           /\ roomToTokens' \in [Codes -> SUBSET Tokens]
           /\ minted' \in SUBSET Tokens
  <1>1. heap' \in [Objects -> RoomObject]
    BY CollectType DEF DeleteRooms, TypeOK
  <1>2. roomTimers' \in [Codes -> Timer] /\ inviteTokens' \in [Tokens -> Token]
    BY DEF DeleteRooms, TypeOK, Timer, Token, NoTimer, NoToken
  <1> QED BY <1>1, <1>2 DEF DeleteRooms, TypeOK

\* So does the registration of a new room.
LEMMA RegisterRoomType ==
    ASSUME TypeOK, NEW c \in Codes, NEW obj \in RoomObject, obj.mode \in Modes,
           RegisterRoom(c, obj)
    PROVE  /\ rooms' \in [Codes -> Objects \cup {None}]
           /\ heap' \in [Objects -> RoomObject]
           /\ roomTimers' \in [Codes -> Timer]
           /\ creatorRooms' \in [Creators -> SUBSET Codes]
  <1> PICK o \in Free :
        /\ rooms' = [rooms EXCEPT ![c] = o]
        /\ heap' = Collect([heap EXCEPT ![o] = obj], rooms', joinCall)
        /\ roomTimers' = [roomTimers EXCEPT ![c] =
                            [mode |-> obj.mode, left |-> Lifetime[obj.mode]]]
        /\ creatorRooms' = [k \in Creators |->
                              creatorRooms[k] \cup (IF k = obj.creator THEN {c} ELSE {})]
    BY DEF RegisterRoom
  <1>1. o \in Objects BY DEF Free
  <1>2. [heap EXCEPT ![o] = obj] \in [Objects -> RoomObject] BY <1>1 DEF TypeOK
  <1>3. heap' \in [Objects -> RoomObject] BY <1>2, CollectType
  <1>4. [mode |-> obj.mode, left |-> Lifetime[obj.mode]] \in Timer
    <2>1. Lifetime[obj.mode] \in Nat BY ParametersTyped
    <2>2. [mode |-> obj.mode, left |-> Lifetime[obj.mode]] \in [mode : Modes, left : Nat]
      BY <2>1
    <2> QED BY <2>1, <2>2 DEF Timer
  <1>5. roomTimers' \in [Codes -> Timer] BY <1>4 DEF TypeOK
  <1> QED BY <1>1, <1>3, <1>5 DEF TypeOK

\* Removing a token keeps the token maps well typed.
LEMMA DropTokenType ==
    ASSUME TypeOK, NEW t \in Tokens, DropToken(t)
    PROVE  /\ inviteTokens' \in [Tokens -> Token]
           /\ roomToTokens' \in [Codes -> SUBSET Tokens]
           /\ minted' \in SUBSET Tokens
  BY DEF DropToken, TypeOK, Token, NoToken

\* A call that is not idle has a socket and a code; behind bcrypt.compare it
\* has an object too.
LEMMA JoinType ==
    ASSUME TypeOK, NEW j \in JoinCalls
    PROVE  /\ joinCall[j].pc = "called" =>
                 joinCall[j].socket \in Sockets /\ joinCall[j].code \in Codes
                 /\ joinCall[j].token \in Tokens \cup {None} /\ joinCall[j].room = None
           /\ joinCall[j].pc = "comparing" =>
                 joinCall[j].socket \in Sockets /\ joinCall[j].code \in Codes
                 /\ joinCall[j].token \in Tokens \cup {None} /\ joinCall[j].room \in Objects
           /\ joinCall[j] = NoJoin => joinCall[j].pc = "idle"
  BY DEF TypeOK, Join, NoJoin

\* Answering a call leaves well-typed calls.
LEMMA AnswerType ==
    ASSUME TypeOK, NEW j \in JoinCalls
    PROVE  Answer(j) \in [JoinCalls -> Join]
  BY DEF TypeOK, Answer, Join

\* Refreshing a room touches its timer only, and sets no timer.
LEMMA RefreshSteps ==
    ASSUME TypeOK, NEW c \in Codes, RefreshRoomExpiry(c)
    PROVE  /\ roomTimers' \in [Codes -> Timer]
           /\ \A d \in Codes : roomTimers'[d] # NoTimer => roomTimers[d] # NoTimer \/ d = c
  <1>1. ASSUME RefreshOnActivity(roomTimers[c].mode)
        PROVE  [roomTimers[c] EXCEPT !.left = DefaultLifetime] \in Timer
    <2>1. roomTimers[c] # NoTimer
      BY <1>1, NoneIsNoValue, ParametersTyped DEF RefreshOnActivity, NoTimer
    <2>2. roomTimers[c] \in [mode : Modes, left : Nat] BY <2>1 DEF TypeOK, Timer
    <2> QED BY <2>2, ParametersTyped DEF Timer
  <1>2. roomTimers' \in [Codes -> Timer]
    BY <1>1 DEF RefreshRoomExpiry, TypeOK
  <1>3. \A d \in Codes \ {c} : roomTimers'[d] = roomTimers[d]
    BY DEF RefreshRoomExpiry, TypeOK
  <1> QED BY <1>2, <1>3

\* The end of joinRoom keeps the types.
LEMMA AdmitType ==
    ASSUME TypeOK, NEW j \in JoinCalls, NEW o \in Objects, NEW users \in SUBSET Sockets,
           joinCall[j].pc \in {"called", "comparing"}, Admit(j, o, users)
    PROVE  TypeOK'
  <1> DEFINE c == joinCall[j].code
             s == joinCall[j].socket
             t == joinCall[j].token
  <1>1. c \in Codes /\ s \in Sockets /\ t \in Tokens \cup {None} BY JoinType
  <1>2. joinCall' \in [JoinCalls -> Join] BY AnswerType DEF Admit
  <1>3. SetUsers(o, users \cup {s}) \in [Objects -> RoomObject] BY <1>1, SetUsersType
  <1>4. heap' \in [Objects -> RoomObject] BY <1>3, CollectType DEF Admit
  <1>5. /\ inviteTokens' \in [Tokens -> Token]
        /\ roomToTokens' \in [Codes -> SUBSET Tokens]
        /\ minted' \in SUBSET Tokens
    BY <1>1, DropTokenType DEF Admit, ConsumeToken, invites, TypeOK
  <1>6. roomTimers' \in [Codes -> Timer] BY <1>1, RefreshSteps DEF Admit
  <1>7. uses' \in [Tokens -> Nat] BY <1>1 DEF Admit, TypeOK
  <1>8. sessions' \in SUBSET (Users \X Codes) BY <1>1 DEF Admit, TypeOK, Users
  <1>9. /\ rooms' \in [Codes -> Objects \cup {None}]
        /\ joinLocks' \in [Codes -> JoinCalls \cup {None}]
        /\ roomOf' \in [Sockets -> Codes \cup {None}]
    BY <1>1 DEF Admit, TypeOK
  <1> QED BY <1>2, <1>4, <1>5, <1>6, <1>7, <1>8, <1>9 DEF Admit, TypeOK

-----------------------------------------------------------------------------
(* Type correctness *)

\* Every step keeps the types.
LEMMA TypeStep ==
    ASSUME TypeOK, [Next]_vars
    PROVE  TypeOK'
  <1>1. ASSUME NEW j \in JoinCalls, JoinNoRoom(j) PROVE TypeOK'
    <2>1. joinCall[j].code \in Codes BY <1>1, JoinType DEF JoinNoRoom, LockFree
    <2>2. joinCall' \in [JoinCalls -> Join] BY <1>1, AnswerType DEF JoinNoRoom
    <2>3. CASE UNCHANGED <<registry, heap, invites>>
      BY <1>1, <2>2, <2>3 DEF JoinNoRoom, TypeOK, registry, invites, presence
    <2>4. CASE DeleteRooms({joinCall[j].code}, joinCall')
      BY <1>1, <2>1, <2>2, <2>4, DeleteRoomsType DEF JoinNoRoom, TypeOK, presence
    <2> QED BY <1>1, <2>3, <2>4 DEF JoinNoRoom
  <1>2. ASSUME NEW j \in JoinCalls, JoinRefused(j) PROVE TypeOK'
    <2> DEFINE r == joinCall[j]
    <2>1. r.code \in Codes /\ r.token \in Tokens \cup {None}
      BY <1>2, JoinType DEF JoinRefused, LockFree
    <2>2. joinCall' \in [JoinCalls -> Join] BY <1>2, AnswerType DEF JoinRefused
    <2>3. rooms[r.code] \in Objects /\ Present(r.code) \in SUBSET Sockets
      BY <1>2, <2>1, RoomAtType DEF JoinRefused, Present
    <2>4. heap' \in [Objects -> RoomObject] BY <1>2, <2>3, SetUsersType DEF JoinRefused
    <2>5. /\ inviteTokens' \in [Tokens -> Token]
          /\ roomToTokens' \in [Codes -> SUBSET Tokens]
          /\ minted' \in SUBSET Tokens
      BY <1>2, <2>1, DropTokenType DEF JoinRefused, invites, TypeOK
    <2> QED BY <1>2, <2>2, <2>4, <2>5 DEF JoinRefused, TypeOK, registry, presence
  <1>3. ASSUME NEW j \in JoinCalls, JoinAgain(j) PROVE TypeOK'
    <2> DEFINE r == joinCall[j]
    <2>1. r.code \in Codes /\ r.socket \in Sockets
      BY <1>3, JoinType DEF JoinAgain, LockFree
    <2>2. joinCall' \in [JoinCalls -> Join] BY <1>3, AnswerType DEF JoinAgain
    <2>3. rooms[r.code] \in Objects /\ Present(r.code) \in SUBSET Sockets
      BY <1>3, <2>1, RoomAtType DEF JoinAgain, Present
    <2>4. heap' \in [Objects -> RoomObject] BY <1>3, <2>3, SetUsersType DEF JoinAgain
    <2>5. roomOf' \in [Sockets -> Codes \cup {None}] /\ sessions' \in SUBSET (Users \X Codes)
      BY <1>3, <2>1 DEF JoinAgain, TypeOK, Users
    <2> QED BY <1>3, <2>2, <2>4, <2>5 DEF JoinAgain, TypeOK, registry, invites
  <1>4. ASSUME NEW j \in JoinCalls, JoinOpen(j) PROVE TypeOK'
    <2>1. joinCall[j].pc = "called" /\ joinCall[j].code \in Codes
      BY <1>4, JoinType DEF JoinOpen, LockFree
    <2>2. rooms[joinCall[j].code] \in Objects /\ Present(joinCall[j].code) \in SUBSET Sockets
      BY <1>4, <2>1, RoomAtType DEF JoinOpen, Present
    <2> QED BY <1>4, <2>1, <2>2, AdmitType DEF JoinOpen
  <1>5. ASSUME NEW j \in JoinCalls, JoinCompare(j) PROVE TypeOK'
    <2> DEFINE r == joinCall[j]
    <2>1. /\ r.code \in Codes /\ r.socket \in Sockets /\ r.token \in Tokens \cup {None}
          /\ r.room = None /\ r.pc = "called"
      BY <1>5, JoinType DEF JoinCompare, LockFree
    <2>2. rooms[r.code] \in Objects /\ Present(r.code) \in SUBSET Sockets
      BY <1>5, <2>1, RoomAtType DEF JoinCompare, Present
    <2>3. heap' \in [Objects -> RoomObject] BY <1>5, <2>2, SetUsersType DEF JoinCompare
    <2>4. r \in [pc : {"called"}, socket : Sockets, code : Codes,
                  token : Tokens \cup {None}, room : {None}]
      BY <2>1 DEF TypeOK, Join, NoJoin
    <2>5. [r EXCEPT !.pc = "comparing", !.room = rooms[r.code]] \in Join
      BY <2>2, <2>4 DEF Join
    <2>6. joinCall' = [joinCall EXCEPT ![j] = [r EXCEPT !.pc = "comparing", !.room = rooms[r.code]]]
      BY <1>5, <2>4 DEF JoinCompare, TypeOK
    <2>7. joinCall' \in [JoinCalls -> Join] BY <2>5, <2>6 DEF TypeOK
    <2>8. joinLocks' \in [Codes -> JoinCalls \cup {None}] BY <1>5, <2>1 DEF JoinCompare, TypeOK
    <2> QED BY <1>5, <2>3, <2>7, <2>8 DEF JoinCompare, TypeOK, registry, invites, presence
  <1>6. ASSUME NEW j \in JoinCalls, JoinCompared(j) PROVE TypeOK'
    <2> DEFINE r == joinCall[j]
    <2>1. r.room \in Objects /\ r.code \in Codes BY <1>6, JoinType DEF JoinCompared
    <2>2. CASE Admit(j, r.room, heap[r.room].users)
      <3>1. heap[r.room].users \in SUBSET Sockets BY <2>1 DEF TypeOK, RoomObject
      <3> QED BY <1>6, <2>1, <2>2, <3>1, AdmitType DEF JoinCompared
    <2>3. CASE ~Admit(j, r.room, heap[r.room].users)
      <3>1. joinCall' \in [JoinCalls -> Join] BY <1>6, <2>3, AnswerType DEF JoinCompared
      <3>2. heap' \in [Objects -> RoomObject] BY <1>6, <2>3, CollectType DEF JoinCompared, TypeOK
      <3> QED BY <1>6, <2>1, <2>3, <3>1, <3>2
              DEF JoinCompared, TypeOK, registry, invites, presence
    <2> QED BY <2>2, <2>3
  <1>7. ASSUME NEW k \in Creators \cup {None}, NEW c \in Codes, NEW mode \in Modes,
               CreateRoom(k, c, mode)
        PROVE  TypeOK'
    <2>1. Lifetime[mode] \in Nat BY ParametersTyped
    <2>2. NewRoom(k, mode, FALSE, Lifetime[mode]) \in RoomObject
      BY <2>1 DEF NewRoom, RoomObject
    <2>3. NewRoom(k, mode, FALSE, Lifetime[mode]).mode \in Modes BY DEF NewRoom
    <2> QED BY <1>7, <2>2, <2>3, RegisterRoomType
            DEF CreateRoom, TypeOK, invites, calls, presence
  <1>8. ASSUME NEW p \in CreateCalls, NEW k \in Creators \cup {None}, NEW c \in Codes,
               NEW mode \in Modes, CreateHash(p, k, c, mode)
        PROVE  TypeOK'
    <2>1. Lifetime[mode] \in Nat BY ParametersTyped
    <2>2. createCall' \in [CreateCalls -> Create] BY <1>8, <2>1 DEF CreateHash, TypeOK, Create
    <2> QED BY <1>8, <2>2 DEF CreateHash, TypeOK, registry, invites, presence
  <1>9. ASSUME NEW p \in CreateCalls, CreateStore(p) PROVE TypeOK'
    <2> DEFINE r == createCall[p]
    <2>1. r \in [creator : Creators \cup {None}, code : Codes, mode : Modes, left : Nat]
      BY <1>9 DEF CreateStore, TypeOK, Create
    <2>2. NewRoom(r.creator, r.mode, TRUE, r.left) \in RoomObject
      BY <2>1 DEF NewRoom, RoomObject
    <2>3. NewRoom(r.creator, r.mode, TRUE, r.left).mode \in Modes BY <2>1 DEF NewRoom
    <2>4. createCall' \in [CreateCalls -> Create] BY <1>9 DEF CreateStore, TypeOK, Create
    <2> QED BY <1>9, <2>1, <2>2, <2>3, <2>4, RegisterRoomType
            DEF CreateStore, TypeOK, invites, presence
  <1>10. ASSUME NEW c \in Codes, NEW t \in Tokens, GenerateInviteToken(c, t) PROVE TypeOK'
    <2>1. TokenLifetime \in Nat BY ParametersTyped
    <2>2. inviteTokens' \in [Tokens -> Token]
      BY <1>10, <2>1 DEF GenerateInviteToken, TypeOK, Token
    <2> QED BY <1>10, <2>2 DEF GenerateInviteToken, TypeOK, registry, calls, presence
  <1>11. ASSUME NEW t \in Tokens, CleanupToken(t) PROVE TypeOK'
    BY <1>11, DropTokenType DEF CleanupToken, TypeOK, registry, calls, presence
  <1>12. ASSUME NEW j \in JoinCalls, NEW s \in Sockets, NEW c \in Codes,
                NEW t \in Tokens \cup {None}, JoinRoomCall(j, s, c, t)
         PROVE  TypeOK'
    <2>1. joinCall' \in [JoinCalls -> Join] BY <1>12 DEF JoinRoomCall, TypeOK, Join
    <2>2. leaving' \in SUBSET Sockets BY <1>12 DEF JoinRoomCall, TypeOK
    <2>3. heap' \in [Objects -> RoomObject]
      <3>1. CASE Exists(c)
        <4>1. RoomAt(c).users \cap (connected \cup leaving') \in SUBSET Sockets
          BY <3>1, RoomAtType
        <4> QED BY <1>12, <3>1, <4>1, RoomAtType, SetUsersType DEF JoinRoomCall
      <3>2. CASE ~Exists(c) BY <1>12, <3>2 DEF JoinRoomCall, TypeOK
      <3> QED BY <3>1, <3>2
    <2> QED BY <1>12, <2>1, <2>2, <2>3 DEF JoinRoomCall, TypeOK, registry, invites
  <1>13. ASSUME NEW s \in Sockets, NEW c \in Codes, ResumeSession(s, c) PROVE TypeOK'
    <2>1. heap' \in [Objects -> RoomObject]
      <3>1. CASE Exists(c)
        <4>1. Deduplicated(RoomAt(c).users, s) \in SUBSET Sockets
          BY <3>1, RoomAtType DEF Deduplicated
        <4> QED BY <1>13, <3>1, <4>1, RoomAtType, SetUsersType DEF ResumeSession
      <3>2. CASE ~Exists(c) BY <1>13, <3>2 DEF ResumeSession, TypeOK
      <3> QED BY <3>1, <3>2
    <2> QED BY <1>13, <2>1 DEF ResumeSession, TypeOK, registry, invites, calls
  <1>14. ASSUME NEW s \in Sockets, LeaveRoom(s) PROVE TypeOK'
    <2> DEFINE c == roomOf[s]
               rest == RoomAt(c).users \ {s}
    <2>1. c \in Codes BY <1>14 DEF LeaveRoom, TypeOK
    <2>2. /\ roomOf' \in [Sockets -> Codes \cup {None}] /\ leaving' \in SUBSET Sockets
          /\ sessions' \in SUBSET (Users \X Codes)
      BY <1>14 DEF LeaveRoom, TypeOK
    <2>3. CASE UNCHANGED <<registry, heap, invites>>
      BY <1>14, <2>2, <2>3 DEF LeaveRoom, TypeOK, registry, invites, calls
    <2>4. CASE DeleteRooms({c}, joinCall)
      BY <1>14, <2>1, <2>2, <2>4, DeleteRoomsType DEF LeaveRoom, TypeOK, calls
    <2>5. CASE /\ Exists(c)
               /\ heap' = SetUsers(rooms[c], rest \cap (connected \cup leaving'))
               /\ UNCHANGED <<registry, invites>>
      <3>1. rest \cap (connected \cup leaving') \in SUBSET Sockets BY <2>1, <2>5, RoomAtType
      <3>2. heap' \in [Objects -> RoomObject] BY <2>1, <2>5, <3>1, RoomAtType, SetUsersType
      <3> QED BY <1>14, <2>2, <2>5, <3>2 DEF LeaveRoom, TypeOK, registry, invites, calls
    <2> QED BY <1>14, <2>3, <2>4, <2>5 DEF LeaveRoom
  <1>15. ASSUME NEW s \in Sockets, Connect(s) \/ Disconnect(s) PROVE TypeOK'
    BY <1>15 DEF Connect, Disconnect, TypeOK, registry, invites, calls
  <1>16. CASE SweepUsers
    <2>1. \A x \in RoomObject :
             [x EXCEPT !.users = x.users \cap (connected \cup leaving)] \in RoomObject
      BY DEF RoomObject
    <2>2. heap' \in [Objects -> RoomObject] BY <1>16, <2>1 DEF SweepUsers, TypeOK
    <2> QED BY <1>16, <2>2 DEF SweepUsers, TypeOK, registry, invites, calls, presence
  <1>17. ASSUME NEW C \in SUBSET Codes, DeleteRooms(C, joinCall),
                UNCHANGED <<calls, presence, uses>>
         PROVE  TypeOK'
    BY <1>17, DeleteRoomsType DEF TypeOK, calls, presence
  <1>18. CASE Tick
    <2>1. \A n \in Nat : Less(n) \in Nat BY DEF Less
    <2>2. heap' \in [Objects -> RoomObject]
      <3>1. \A x \in RoomObject : [x EXCEPT !.left = Less(x.left)] \in RoomObject
        BY <2>1 DEF RoomObject
      <3> QED BY <1>18, <3>1 DEF Tick, TypeOK
    <2>3. roomTimers' \in [Codes -> Timer]
      <3>1. ASSUME NEW x \in Timer PROVE [x EXCEPT !.left = Less(x.left)] \in Timer
        <4>1. CASE x = NoTimer
          <5>1. [x EXCEPT !.left = Less(x.left)] = NoTimer BY <4>1 DEF NoTimer, Less
          <5> QED BY <5>1 DEF Timer
        <4>2. CASE x # NoTimer
          <5>1. x \in [mode : Modes, left : Nat] BY <4>2 DEF Timer
          <5>2. Lifetime[x.mode] \in Nat /\ DefaultLifetime \in Nat /\ Less(x.left) <= x.left
            <6>1. x.left \in Nat /\ x.mode \in Modes BY <5>1
            <6>2. Lifetime[x.mode] \in Nat /\ DefaultLifetime \in Nat BY <6>1, ParametersTyped
            <6>3. Less(x.left) <= x.left BY <6>1 DEF Less
            <6> QED BY <6>2, <6>3
          <5>3. x.left <= Lifetime[x.mode] \/ x.left <= DefaultLifetime BY <4>2 DEF Timer
          <5>4. [x EXCEPT !.left = Less(x.left)] \in [mode : Modes, left : Nat]
            BY <2>1, <5>1
          <5>5. \/ Less(x.left) <= Lifetime[x.mode]
                \/ Less(x.left) <= DefaultLifetime
            BY <2>1, <5>1, <5>2, <5>3
          <5> QED BY <5>1, <5>4, <5>5 DEF Timer
        <4> QED BY <4>1, <4>2
      <3> QED BY <1>18, <3>1 DEF Tick, TypeOK
    <2>4. inviteTokens' \in [Tokens -> Token]
      <3>1. ASSUME NEW x \in Token PROVE [x EXCEPT !.left = Less(@)] \in Token
        <4>1. CASE x = NoToken
          <5>1. [x EXCEPT !.left = Less(@)] = NoToken BY <4>1 DEF NoToken, Less
          <5> QED BY <5>1 DEF Token
        <4>2. CASE x # NoToken BY <2>1, <4>2 DEF Token
        <4> QED BY <4>1, <4>2
      <3> QED BY <1>18, <3>1 DEF Tick, TypeOK
    <2>5. createCall' \in [CreateCalls -> Create]
      <3>1. ASSUME NEW x \in Create PROVE [x EXCEPT !.left = Less(@)] \in Create
        <4>1. CASE x = NoCreate
          <5>1. [x EXCEPT !.left = Less(@)] = NoCreate BY <4>1 DEF NoCreate, Less
          <5> QED BY <5>1 DEF Create
        <4>2. CASE x # NoCreate BY <2>1, <4>2 DEF Create
        <4> QED BY <4>1, <4>2
      <3> QED BY <1>18, <3>1 DEF Tick, TypeOK
    <2> QED BY <1>18, <2>2, <2>3, <2>4, <2>5 DEF Tick, TypeOK, presence
  <1>19. CASE UNCHANGED vars
    BY <1>19 DEF vars, TypeOK, registry, invites, calls, presence
  <1>20. ASSUME NEW c \in Codes, ExpiryTimer(c) PROVE TypeOK'
    BY <1>17, <1>20 DEF ExpiryTimer
  <1>21. ASSUME NEW c \in Codes, NEW k \in Creators, DeleteRoomByCreator(c, k) PROVE TypeOK'
    BY <1>17, <1>21 DEF DeleteRoomByCreator
  <1>22. CASE CleanupExpiredRooms
    BY <1>17, <1>22 DEF CleanupExpiredRooms, Expired
  <1>23. ASSUME NEW s \in Sockets, SendMessage(s) PROVE TypeOK'
    <2>1. roomOf[s] \in Codes BY <1>23 DEF SendMessage, TypeOK
    <2>2. roomTimers' \in [Codes -> Timer] BY <1>23, <2>1, RefreshSteps DEF SendMessage
    <2> QED BY <1>23, <2>2 DEF SendMessage, TypeOK, invites, calls, presence
  <1> QED
    BY <1>1, <1>2, <1>3, <1>4, <1>5, <1>6, <1>7, <1>8, <1>9, <1>10, <1>11, <1>12, <1>13,
       <1>14, <1>15, <1>16, <1>18, <1>19, <1>20, <1>21, <1>22, <1>23
    DEF Next, JoinEnter

\* The state variables keep their types (server/rooms.js): a joinRoom call
\* past bcrypt.compare always has an object to push its user on.
THEOREM TypeCorrect == Spec => []TypeOK
  <1>1. Init => TypeOK
    BY NoneIsNoValue DEF Init, TypeOK, RoomObject, Timer, Token, Create, Join,
       NoRoom, NoTimer, NoToken, NoCreate, NoJoin
  <1>2. TypeOK /\ [Next]_vars => TypeOK'
    BY TypeStep
  <1> QED BY <1>1, <1>2, PTL DEF Spec

-----------------------------------------------------------------------------
(* The join mutex *)

\* Only joinRoom and its caller touch the locks and the calls.
LEMMA CallSteps ==
    ASSUME [Next]_vars
    PROVE  \/ UNCHANGED <<joinLocks, joinCall>>
           \/ \E j \in JoinCalls : JoinEnter(j) \/ JoinCompared(j)
           \/ \E j \in JoinCalls, s \in Sockets, c \in Codes, t \in Tokens \cup {None} :
                  JoinRoomCall(j, s, c, t)
  BY DEF Next, vars, calls, CreateRoom, CreateHash, CreateStore, GenerateInviteToken,
     CleanupToken, ResumeSession, LeaveRoom, SendMessage, Connect, Disconnect, SweepUsers, ExpiryTimer,
     DeleteRoomByCreator, CleanupExpiredRooms, Tick

\* A call that holds the lock of its room, or finds it free, may let go of it.
LEMMA ReleaseKeepsMutex ==
    ASSUME TypeOK, JoinMutex, NEW j \in JoinCalls, joinCall' = Answer(j),
           joinCall[j].code \in Codes, joinLocks[joinCall[j].code] \in {None, j},
           joinLocks' = [joinLocks EXCEPT ![joinCall[j].code] = None]
    PROVE  JoinMutex'
  <1> SUFFICES ASSUME NEW i \in JoinCalls, joinCall'[i].pc = "comparing"
               PROVE  joinLocks'[joinCall'[i].code] = i
    BY DEF JoinMutex
  <1>1. i # j /\ joinCall'[i] = joinCall[i] BY DEF Answer, NoJoin, TypeOK
  <1>2. joinLocks[joinCall[i].code] = i BY <1>1 DEF JoinMutex
  <1>3. joinCall[i].code \in Codes BY <1>1, JoinType
  <1>4. joinCall[i].code # joinCall[j].code BY <1>1, <1>2, NoneIsNoValue
  <1> QED BY <1>1, <1>2, <1>3, <1>4 DEF TypeOK

\* Every step keeps the join mutex.
LEMMA JoinMutexStep ==
    ASSUME TypeOK, JoinMutex, [Next]_vars
    PROVE  JoinMutex'
  <1>1. CASE UNCHANGED <<joinLocks, joinCall>> BY <1>1 DEF JoinMutex
  <1>2. ASSUME NEW j \in JoinCalls, joinCall' = Answer(j), UNCHANGED joinLocks
        PROVE  JoinMutex'
    BY <1>2 DEF JoinMutex, Answer, NoJoin, TypeOK
  <1>3. ASSUME NEW j \in JoinCalls, JoinNoRoom(j) \/ JoinRefused(j) \/ JoinAgain(j)
        PROVE  JoinMutex'
    BY <1>2, <1>3 DEF JoinNoRoom, JoinRefused, JoinAgain
  <1>4. ASSUME NEW j \in JoinCalls, JoinOpen(j) PROVE JoinMutex'
    BY <1>4, JoinType, ReleaseKeepsMutex DEF JoinOpen, Admit, LockFree
  <1>5. ASSUME NEW j \in JoinCalls, JoinCompare(j) PROVE JoinMutex'
    <2> DEFINE c == joinCall[j].code
    <2>1. c \in Codes /\ joinLocks[c] = None BY <1>5, JoinType DEF JoinCompare, LockFree
    <2> SUFFICES ASSUME NEW i \in JoinCalls, joinCall'[i].pc = "comparing"
                 PROVE  joinLocks'[joinCall'[i].code] = i
      BY DEF JoinMutex
    <2>2. CASE i = j
      <3>1. joinCall'[j].code = c BY <1>5 DEF JoinCompare, TypeOK, Join, NoJoin, LockFree
      <3> QED BY <1>5, <2>1, <2>2, <3>1 DEF JoinCompare, TypeOK
    <2>3. CASE i # j
      <3>1. joinCall'[i] = joinCall[i] BY <1>5, <2>3 DEF JoinCompare, TypeOK
      <3>2. joinLocks[joinCall[i].code] = i /\ joinCall[i].code \in Codes
        BY <3>1, JoinType DEF JoinMutex
      <3>3. joinCall[i].code # c BY <2>1, <3>2, NoneIsNoValue
      <3> QED BY <1>5, <2>1, <3>1, <3>2, <3>3 DEF JoinCompare, TypeOK
    <2> QED BY <2>2, <2>3
  <1>6. ASSUME NEW j \in JoinCalls, JoinCompared(j) PROVE JoinMutex'
    <2>1. joinCall[j].code \in Codes /\ joinLocks[joinCall[j].code] = j
      BY <1>6, JoinType DEF JoinCompared, JoinMutex
    <2> QED BY <1>6, <2>1, ReleaseKeepsMutex DEF JoinCompared, Admit
  <1>7. ASSUME NEW j \in JoinCalls, NEW s \in Sockets, NEW c \in Codes,
               NEW t \in Tokens \cup {None}, JoinRoomCall(j, s, c, t)
        PROVE  JoinMutex'
    BY <1>7 DEF JoinRoomCall, JoinMutex, TypeOK
  <1> QED BY <1>1, <1>3, <1>4, <1>5, <1>6, <1>7, CallSteps DEF JoinEnter

\* At most one joinRoom call per room is past the checks (rooms.js: "Mutex to
\* prevent race conditions"), for any number of calls and rooms.
THEOREM JoinMutexHolds == Spec => []JoinMutex
  <1>1. Init => JoinMutex BY DEF Init, JoinMutex, NoJoin
  <1>2. TypeOK /\ JoinMutex /\ [Next]_vars => JoinMutex' BY JoinMutexStep
  <1> QED BY <1>1, <1>2, TypeCorrect, PTL DEF Spec

-----------------------------------------------------------------------------
(* The two token maps, and the entries that point at a room *)

\* What a step does to the token maps, apart from deleteRoom.
LEMMA TokenSteps ==
    ASSUME TypeOK, [Next]_vars
    PROVE  \/ UNCHANGED <<inviteTokens, roomToTokens, minted>>
           \/ \E C \in SUBSET Codes, joins \in [JoinCalls -> Join] : DeleteRooms(C, joins)
           \/ \E t \in Tokens : DropToken(t)
           \/ \E c \in Codes, t \in Tokens : GenerateInviteToken(c, t)
           \/ Tick
  <1>1. ASSUME NEW j \in JoinCalls, JoinNoRoom(j)
        PROVE  \/ UNCHANGED invites
               \/ \E C \in SUBSET Codes, joins \in [JoinCalls -> Join] : DeleteRooms(C, joins)
    <2>1. {joinCall[j].code} \in SUBSET Codes BY <1>1, JoinType DEF JoinNoRoom, LockFree
    <2>2. joinCall' \in [JoinCalls -> Join] BY <1>1, AnswerType DEF JoinNoRoom
    <2> QED BY <1>1, <2>1, <2>2 DEF JoinNoRoom
  <1>2. ASSUME NEW j \in JoinCalls, JoinRefused(j)
        PROVE  UNCHANGED invites \/ \E t \in Tokens : DropToken(t)
    BY <1>2, JoinType DEF JoinRefused, LockFree
  <1>3. ASSUME NEW j \in JoinCalls, JoinOpen(j) \/ JoinCompared(j)
        PROVE  UNCHANGED invites \/ \E t \in Tokens : DropToken(t)
    BY <1>3, JoinType DEF JoinOpen, JoinCompared, LockFree, Admit, ConsumeToken
  <1>4. ASSUME NEW s \in Sockets, LeaveRoom(s)
        PROVE  \/ UNCHANGED invites
               \/ \E C \in SUBSET Codes, joins \in [JoinCalls -> Join] : DeleteRooms(C, joins)
    <2>1. {roomOf[s]} \in SUBSET Codes BY <1>4 DEF LeaveRoom, TypeOK
    <2>2. joinCall \in [JoinCalls -> Join] BY DEF TypeOK
    <2> QED BY <1>4, <2>1, <2>2 DEF LeaveRoom
  <1>5. ASSUME \/ \E c \in Codes : ExpiryTimer(c)
               \/ \E c \in Codes, k \in Creators : DeleteRoomByCreator(c, k)
               \/ CleanupExpiredRooms
        PROVE  \E C \in SUBSET Codes, joins \in [JoinCalls -> Join] : DeleteRooms(C, joins)
    <2>1. joinCall \in [JoinCalls -> Join] BY DEF TypeOK
    <2>2. \A c \in Codes : {c} \in SUBSET Codes OBVIOUS
    <2>3. Expired \in SUBSET Codes BY DEF Expired
    <2> QED BY <1>5, <2>1, <2>2, <2>3 DEF ExpiryTimer, DeleteRoomByCreator, CleanupExpiredRooms
  <1>6. ASSUME \/ \E j \in JoinCalls : JoinAgain(j) \/ JoinCompare(j)
               \/ \E k \in Creators \cup {None}, c \in Codes, mode \in Modes :
                     \/ CreateRoom(k, c, mode)
                     \/ \E p \in CreateCalls : CreateHash(p, k, c, mode)
               \/ \E p \in CreateCalls : CreateStore(p)
               \/ \E j \in JoinCalls, s \in Sockets, c \in Codes, t \in Tokens \cup {None} :
                     JoinRoomCall(j, s, c, t)
               \/ \E s \in Sockets, c \in Codes : ResumeSession(s, c)
               \/ \E s \in Sockets : SendMessage(s) \/ Connect(s) \/ Disconnect(s)
               \/ SweepUsers
               \/ UNCHANGED vars
        PROVE  UNCHANGED invites
    BY <1>6 DEF JoinAgain, JoinCompare, CreateRoom, CreateHash, CreateStore, JoinRoomCall,
       ResumeSession, SendMessage, Connect, Disconnect, SweepUsers, vars
  <1>7. ASSUME NEW t \in Tokens, CleanupToken(t) PROVE DropToken(t)
    BY <1>7 DEF CleanupToken
  <1> QED BY <1>1, <1>2, <1>3, <1>4, <1>5, <1>6, <1>7 DEF Next, JoinEnter, invites
\* A token not generated yet is in no map.
Unminted == \A t \in Tokens \ minted : inviteTokens[t] = NoToken

\* The token maps stay in step through deleteRoom.
LEMMA DeleteRoomsTracked ==
    ASSUME TypeOK, TokensTracked, Unminted, NEW C \in SUBSET Codes, NEW joins,
           DeleteRooms(C, joins)
    PROVE  TokensTracked' /\ Unminted'
  <1> SUFFICES ASSUME NEW t \in Tokens, NEW c \in Codes
               PROVE  t \in roomToTokens'[c] <=> inviteTokens'[t].code = c
    BY DEF TokensTracked, Unminted, DeleteRooms
  <1>1. NoToken.code \notin Codes BY NoneIsNoValue DEF NoToken
  <1>2. t \in TokensOf(C) <=> inviteTokens[t].code \in C BY DEF TokensOf, TokensTracked
  <1>3. inviteTokens'[t] = IF t \in TokensOf(C) THEN NoToken ELSE inviteTokens[t]
    BY DEF DeleteRooms
  <1>4. roomToTokens'[c] = IF c \in C THEN {} ELSE roomToTokens[c] BY DEF DeleteRooms
  <1>5. t \in roomToTokens[c] <=> inviteTokens[t].code = c BY DEF TokensTracked
  <1> QED BY <1>1, <1>2, <1>3, <1>4, <1>5

\* Every step keeps the token maps in step.
LEMMA TokensTrackedStep ==
    ASSUME TypeOK, TokensTracked, Unminted, [Next]_vars
    PROVE  TokensTracked' /\ Unminted'
  <1>1. NoToken.code \notin Codes BY NoneIsNoValue DEF NoToken
  <1>2. CASE UNCHANGED <<inviteTokens, roomToTokens, minted>>
    BY <1>2 DEF TokensTracked, Unminted
  <1>3. CASE \E C \in SUBSET Codes, joins \in [JoinCalls -> Join] : DeleteRooms(C, joins)
    BY <1>3, DeleteRoomsTracked
  <1>4. ASSUME NEW t \in Tokens, DropToken(t) PROVE TokensTracked' /\ Unminted'
    BY <1>1, <1>4 DEF DropToken, TokensTracked, Unminted, TypeOK
  <1>5. ASSUME NEW c \in Codes, NEW t \in Tokens, GenerateInviteToken(c, t)
        PROVE  TokensTracked' /\ Unminted'
    <2>1. inviteTokens[t] = NoToken BY <1>5 DEF GenerateInviteToken, Unminted
    <2>2. \A d \in Codes : t \notin roomToTokens[d] BY <1>1, <2>1 DEF TokensTracked
    <2>3. Unminted' BY <1>5 DEF GenerateInviteToken, Unminted, TypeOK
    <2>4. TokensTracked' BY <1>5, <2>2 DEF GenerateInviteToken, TokensTracked, TypeOK
    <2> QED BY <2>3, <2>4
  <1>6. CASE Tick
    <2>1. \A t \in Tokens : inviteTokens'[t].code = inviteTokens[t].code
      BY <1>6 DEF Tick, TypeOK, Token, NoToken
    <2>2. \A t \in Tokens : inviteTokens[t] = NoToken => inviteTokens'[t] = NoToken
      BY <1>6 DEF Tick, TypeOK, NoToken, Less
    <2>3. UNCHANGED <<roomToTokens, minted>> BY <1>6 DEF Tick
    <2> QED BY <2>1, <2>2, <2>3 DEF TokensTracked, Unminted
  <1> QED BY <1>2, <1>3, <1>4, <1>5, <1>6, TokenSteps

\* inviteTokens and roomToTokens agree at all times, though rooms.js updates
\* them separately in generateInviteToken, cleanupToken, validateInviteToken
\* (twice) and deleteRoom.
THEOREM TokenMapsAgree == Spec => []TokensTracked
  <1>1. Init => TokensTracked /\ Unminted
    BY NoneIsNoValue DEF Init, TokensTracked, Unminted, NoToken
  <1>2. TypeOK /\ TokensTracked /\ Unminted /\ [Next]_vars => TokensTracked' /\ Unminted'
    BY TokensTrackedStep
  <1> QED BY <1>1, <1>2, TypeCorrect, PTL DEF Spec

\* Only deleteRoom makes a code unknown, and a timer is only set for a code
\* that has a room.
LEMMA RoomSteps ==
    ASSUME TypeOK, [Next]_vars
    PROVE  \/ \E C \in SUBSET Codes, joins \in [JoinCalls -> Join] : DeleteRooms(C, joins)
           \/ \A c \in Codes :
                /\ Exists(c) => Exists(c)'
                /\ roomTimers'[c] # NoTimer => roomTimers[c] # NoTimer \/ Exists(c)'
  <1> DEFINE Kept == \A c \in Codes :
                /\ Exists(c) => Exists(c)'
                /\ roomTimers'[c] # NoTimer => roomTimers[c] # NoTimer \/ Exists(c)'
             Deletes == \E C \in SUBSET Codes, joins \in [JoinCalls -> Join] : DeleteRooms(C, joins)
  <1>1. ASSUME UNCHANGED <<rooms, roomTimers>> PROVE Kept
    BY <1>1 DEF Exists
  <1>2. ASSUME NEW c \in Codes, NEW obj, RegisterRoom(c, obj) PROVE Kept
    <2> PICK o \in Free :
          /\ rooms' = [rooms EXCEPT ![c] = o]
          /\ roomTimers' = [roomTimers EXCEPT ![c] =
                              [mode |-> obj.mode, left |-> Lifetime[obj.mode]]]
      BY <1>2 DEF RegisterRoom
    <2>1. o # None BY NoneIsNoValue DEF Free
    <2> QED BY <2>1 DEF Exists, TypeOK
  <1>3. ASSUME NEW j \in JoinCalls, NEW o \in Objects, NEW users, joinCall[j].code \in Codes,
               Admit(j, o, users)
        PROVE  Kept
    <2>1. o # None BY NoneIsNoValue
    <2>2. \A c \in Codes :
             roomTimers'[c] # NoTimer => roomTimers[c] # NoTimer \/ c = joinCall[j].code
      BY <1>3, RefreshSteps DEF Admit
    <2> QED BY <1>3, <2>1, <2>2 DEF Admit, Exists, TypeOK
  <1>4. ASSUME NEW j \in JoinCalls, JoinNoRoom(j) PROVE Kept \/ Deletes
    <2>1. {joinCall[j].code} \in SUBSET Codes BY <1>4, JoinType DEF JoinNoRoom, LockFree
    <2>2. joinCall' \in [JoinCalls -> Join] BY <1>4, AnswerType DEF JoinNoRoom
    <2> QED BY <1>1, <1>4, <2>1, <2>2 DEF JoinNoRoom, registry
  <1>5. ASSUME NEW j \in JoinCalls, JoinOpen(j) PROVE Kept
    <2>1. joinCall[j].code \in Codes BY <1>5, JoinType DEF JoinOpen, LockFree
    <2> QED BY <1>3, <1>5, <2>1, RoomAtType DEF JoinOpen
  <1>6. ASSUME NEW j \in JoinCalls, JoinCompared(j) PROVE Kept
    BY <1>1, <1>3, <1>6, JoinType DEF JoinCompared, registry
  <1>7. ASSUME NEW s \in Sockets, LeaveRoom(s) PROVE Kept \/ Deletes
    <2>1. {roomOf[s]} \in SUBSET Codes BY <1>7 DEF LeaveRoom, TypeOK
    <2>2. joinCall \in [JoinCalls -> Join] BY DEF TypeOK
    <2> QED BY <1>1, <1>7, <2>1, <2>2 DEF LeaveRoom, registry
  <1>8. ASSUME \/ \E c \in Codes : ExpiryTimer(c)
               \/ \E c \in Codes, k \in Creators : DeleteRoomByCreator(c, k)
               \/ CleanupExpiredRooms
        PROVE  Deletes
    <2>1. joinCall \in [JoinCalls -> Join] BY DEF TypeOK
    <2>2. \A c \in Codes : {c} \in SUBSET Codes OBVIOUS
    <2>3. Expired \in SUBSET Codes BY DEF Expired
    <2> QED BY <1>8, <2>1, <2>2, <2>3 DEF ExpiryTimer, DeleteRoomByCreator, CleanupExpiredRooms
  <1>9. ASSUME \/ \E k \in Creators \cup {None}, c \in Codes, mode \in Modes : CreateRoom(k, c, mode)
               \/ \E p \in CreateCalls : CreateStore(p)
        PROVE  Kept
    <2>1. ASSUME NEW p \in CreateCalls, CreateStore(p) PROVE createCall[p].code \in Codes
      BY <2>1 DEF CreateStore, TypeOK, Create
    <2> QED BY <1>2, <1>9, <2>1 DEF CreateRoom, CreateStore
  <1>10. CASE Tick
    <2>1. \A c \in Codes : roomTimers[c] = NoTimer => roomTimers'[c] = NoTimer
      BY <1>10 DEF Tick, TypeOK, NoTimer, Less
    <2> QED BY <1>10, <2>1 DEF Tick, Exists
  <1>11. ASSUME \/ \E j \in JoinCalls : JoinRefused(j) \/ JoinAgain(j) \/ JoinCompare(j)
                \/ \E p \in CreateCalls, k \in Creators \cup {None}, c \in Codes, mode \in Modes :
                      CreateHash(p, k, c, mode)
                \/ \E c \in Codes, t \in Tokens : GenerateInviteToken(c, t)
                \/ \E t \in Tokens : CleanupToken(t)
                \/ \E j \in JoinCalls, s \in Sockets, c \in Codes, t \in Tokens \cup {None} :
                      JoinRoomCall(j, s, c, t)
                \/ \E s \in Sockets, c \in Codes : ResumeSession(s, c)
                \/ \E s \in Sockets : Connect(s) \/ Disconnect(s)
                \/ SweepUsers
                \/ UNCHANGED vars
         PROVE  UNCHANGED <<rooms, roomTimers>>
    BY <1>11 DEF JoinRefused, JoinAgain, JoinCompare, CreateHash, GenerateInviteToken,
       CleanupToken, JoinRoomCall, ResumeSession, Connect, Disconnect, SweepUsers, vars, registry
  <1>12. ASSUME NEW s \in Sockets, SendMessage(s) PROVE Kept
    <2>1. roomOf[s] \in Codes BY <1>12 DEF SendMessage, TypeOK
    <2>2. \A c \in Codes : roomTimers'[c] # NoTimer => roomTimers[c] # NoTimer \/ c = roomOf[s]
      BY <1>12, <2>1, RefreshSteps DEF SendMessage
    <2> QED BY <1>12, <2>2 DEF SendMessage, Exists
  <1> QED
    BY <1>1, <1>4, <1>5, <1>6, <1>7, <1>8, <1>9, <1>10, <1>11, <1>12 DEF Next, JoinEnter


\* Every step keeps invites and timers pointing at rooms.
LEMMA NoDanglingStep ==
    ASSUME TypeOK, TokensTracked, NoDanglingEntries, [Next]_vars
    PROVE  NoDanglingEntries'
  <1>1. ASSUME NEW C \in SUBSET Codes, NEW joins, DeleteRooms(C, joins)
        PROVE  NoDanglingEntries'
    <2>1. ASSUME NEW t \in Tokens, inviteTokens'[t].code # None
          PROVE  Exists(inviteTokens[t].code)'
      <3>1. t \notin TokensOf(C) /\ inviteTokens'[t] = inviteTokens[t]
        BY <1>1, <2>1 DEF DeleteRooms, NoToken
      <3>2. inviteTokens[t].code \in Codes BY <2>1, <3>1 DEF TypeOK, Token, NoToken
      <3>3. inviteTokens[t].code \notin C BY <3>1, <3>2 DEF TokensOf, TokensTracked
      <3>4. Exists(inviteTokens[t].code) BY <2>1, <3>1 DEF NoDanglingEntries
      <3> QED BY <1>1, <3>1, <3>2, <3>3, <3>4 DEF DeleteRooms, Exists
    <2>2. ASSUME NEW c \in Codes, roomTimers'[c] # NoTimer PROVE Exists(c)'
      BY <1>1, <2>2 DEF DeleteRooms, NoDanglingEntries, Exists
    <2> QED BY <2>1, <2>2 DEF NoDanglingEntries
  <1>2. ASSUME \A c \in Codes :
                  /\ Exists(c) => Exists(c)'
                  /\ roomTimers'[c] # NoTimer => roomTimers[c] # NoTimer \/ Exists(c)',
               \A t \in Tokens : inviteTokens'[t].code # None =>
                  \/ inviteTokens'[t].code = inviteTokens[t].code
                  \/ inviteTokens'[t].code \in Codes /\ Exists(inviteTokens'[t].code)
        PROVE  NoDanglingEntries'
    <2>1. ASSUME NEW t \in Tokens, inviteTokens'[t].code # None
          PROVE  Exists(inviteTokens[t].code)'
      <3>1. CASE inviteTokens'[t].code = inviteTokens[t].code
        <4>1. inviteTokens[t].code \in Codes BY <2>1, <3>1 DEF TypeOK, Token, NoToken
        <4>2. Exists(inviteTokens[t].code) BY <2>1, <3>1 DEF NoDanglingEntries
        <4> QED BY <1>2, <3>1, <4>1, <4>2 DEF Exists
      <3>2. CASE inviteTokens'[t].code \in Codes /\ Exists(inviteTokens'[t].code)
        BY <1>2, <3>2 DEF Exists
      <3> QED BY <1>2, <2>1, <3>1, <3>2
    <2>2. ASSUME NEW c \in Codes, roomTimers'[c] # NoTimer PROVE Exists(c)'
      BY <1>2, <2>2 DEF NoDanglingEntries
    <2> QED BY <2>1, <2>2 DEF NoDanglingEntries
  <1>3. CASE \E C \in SUBSET Codes, joins \in [JoinCalls -> Join] : DeleteRooms(C, joins)
    BY <1>1, <1>3
  <1>4. CASE ~ \E C \in SUBSET Codes, joins \in [JoinCalls -> Join] : DeleteRooms(C, joins)
    <2>1. \A c \in Codes :
             /\ Exists(c) => Exists(c)'
             /\ roomTimers'[c] # NoTimer => roomTimers[c] # NoTimer \/ Exists(c)'
      BY <1>4, RoomSteps
    <2>2. ASSUME NEW t \in Tokens, inviteTokens'[t].code # None
          PROVE  \/ inviteTokens'[t].code = inviteTokens[t].code
                 \/ inviteTokens'[t].code \in Codes /\ Exists(inviteTokens'[t].code)
      <3>1. CASE UNCHANGED <<inviteTokens, roomToTokens, minted>> BY <3>1
      <3>2. ASSUME NEW u \in Tokens, DropToken(u)
            PROVE  inviteTokens'[t].code = inviteTokens[t].code
        BY <2>2, <3>2 DEF DropToken, TypeOK, NoToken
      <3>3. ASSUME NEW c \in Codes, NEW u \in Tokens, GenerateInviteToken(c, u)
            PROVE  \/ inviteTokens'[t].code = inviteTokens[t].code
                   \/ inviteTokens'[t].code \in Codes /\ Exists(inviteTokens'[t].code)
        BY <3>3 DEF GenerateInviteToken, TypeOK
      <3>4. CASE Tick BY <3>4 DEF Tick, TypeOK, Token, NoToken
      <3> QED BY <1>4, <3>1, <3>2, <3>3, <3>4, TokenSteps
    <2> QED BY <1>2, <2>1, <2>2
  <1> QED BY <1>3, <1>4

\* No invite and no expiry timer outlives its room, whichever of leaveRoom,
\* the timer, the clean-up, the creator or an expired join deleted it.
THEOREM NoDanglingHolds == Spec => []NoDanglingEntries
  <1>1. Init => NoDanglingEntries BY DEF Init, NoDanglingEntries, NoToken, NoTimer
  <1>2. TypeOK /\ TokensTracked /\ NoDanglingEntries /\ [Next]_vars => NoDanglingEntries'
    BY NoDanglingStep
  <1> QED BY <1>1, <1>2, TypeCorrect, TokenMapsAgree, PTL DEF Spec

-----------------------------------------------------------------------------
(* One-time tokens *)

\* A call past the checks of joinRoom with token t.
Spends(j, t) == joinCall[j].pc = "comparing" /\ joinCall[j].token = t

\* The strengthening that makes OneTimeTokenOnce inductive: an unspent token
\* is a live one or one some suspended joins hold, and those joins are all for
\* the token's room, where the mutex lets only one of them be.
TokenHistory ==
    /\ \A t \in Tokens : uses[t] \in {0, 1}
    /\ \A t \in Tokens : t \notin minted \/ inviteTokens[t] # NoToken => uses[t] = 0
    /\ \A t \in Tokens, j \in JoinCalls : Spends(j, t) =>
          /\ t \in minted /\ uses[t] = 0
          /\ inviteTokens[t] # NoToken => inviteTokens[t].code = joinCall[j].code
    /\ \A t \in Tokens, i, j \in JoinCalls :
          Spends(i, t) /\ Spends(j, t) => joinCall[i].code = joinCall[j].code

\* What a step other than the two ends of a password check does to it.
LEMMA QuietTokenSteps ==
    ASSUME TypeOK, Unminted, [Next]_vars
    PROVE  \/ \E j \in JoinCalls : JoinOpen(j) \/ JoinCompare(j) \/ JoinCompared(j)
           \/ /\ uses' = uses
              /\ \A j \in JoinCalls : joinCall'[j].pc = "comparing" => joinCall'[j] = joinCall[j]
  <1>1. CASE UNCHANGED <<joinLocks, joinCall>>
    BY <1>1 DEF Next, vars, CreateRoom, CreateHash, CreateStore, GenerateInviteToken,
       CleanupToken, JoinEnter, JoinNoRoom, JoinRefused, JoinAgain, JoinRoomCall, ResumeSession,
       LeaveRoom, SendMessage, Connect, Disconnect, SweepUsers, ExpiryTimer,
       DeleteRoomByCreator, CleanupExpiredRooms, Tick
  <1>2. ASSUME NEW j \in JoinCalls, JoinNoRoom(j) \/ JoinRefused(j) \/ JoinAgain(j)
        PROVE  /\ uses' = uses
               /\ \A i \in JoinCalls : joinCall'[i].pc = "comparing" => joinCall'[i] = joinCall[i]
    BY <1>2 DEF JoinNoRoom, JoinRefused, JoinAgain, Answer, NoJoin, TypeOK
  <1>3. ASSUME NEW j \in JoinCalls, NEW s \in Sockets, NEW c \in Codes,
               NEW t \in Tokens \cup {None}, JoinRoomCall(j, s, c, t)
        PROVE  /\ uses' = uses
               /\ \A i \in JoinCalls : joinCall'[i].pc = "comparing" => joinCall'[i] = joinCall[i]
    BY <1>3 DEF JoinRoomCall, TypeOK
  <1> QED BY <1>1, <1>2, <1>3, CallSteps DEF JoinEnter

\* No step gives a generated token back to the maps.
LEMMA TokensNeverReturn ==
    ASSUME TypeOK, Unminted, [Next]_vars, NEW t \in Tokens
    PROVE  /\ t \in minted => t \in minted'
           /\ t \notin minted' => t \notin minted
           /\ inviteTokens'[t] # NoToken /\ t \in minted =>
                 inviteTokens[t] # NoToken /\ inviteTokens'[t].code = inviteTokens[t].code
  <1>1. CASE UNCHANGED <<inviteTokens, roomToTokens, minted>> BY <1>1
  <1>2. ASSUME NEW C \in SUBSET Codes, NEW joins, DeleteRooms(C, joins)
        PROVE  /\ minted' = minted
               /\ inviteTokens'[t] # NoToken => inviteTokens'[t] = inviteTokens[t]
    BY <1>2 DEF DeleteRooms
  <1>3. ASSUME NEW u \in Tokens, DropToken(u)
        PROVE  /\ minted' = minted
               /\ inviteTokens'[t] # NoToken => inviteTokens'[t] = inviteTokens[t]
    BY <1>3 DEF DropToken, TypeOK
  <1>4. ASSUME NEW c \in Codes, NEW u \in Tokens, GenerateInviteToken(c, u)
        PROVE  /\ minted \subseteq minted'
               /\ t \in minted => inviteTokens'[t] = inviteTokens[t]
    BY <1>4 DEF GenerateInviteToken, TypeOK
  <1>5. CASE Tick
    <2>1. inviteTokens[t] = NoToken => inviteTokens'[t] = NoToken
      BY <1>5 DEF Tick, TypeOK, NoToken, Less
    <2>2. inviteTokens'[t].code = inviteTokens[t].code
      BY <1>5 DEF Tick, TypeOK, Token, NoToken
    <2> QED BY <1>5, <2>1, <2>2 DEF Tick
  <1> QED BY <1>1, <1>2, <1>3, <1>4, <1>5, TokenSteps
\* The end of joinRoom spends the token of the call: it had not been spent,
\* nobody else can spend it, and it is gone from the maps.
LEMMA AdmitSpendsOnce ==
    ASSUME TypeOK, JoinMutex, TokenHistory, NEW j \in JoinCalls, NEW o, NEW users,
           joinCall[j].code \in Codes, joinLocks[joinCall[j].code] \in {None, j},
           joinCall[j].token \in Tokens \cup {None},
           joinCall[j].token # None =>
              /\ joinCall[j].token \in minted /\ uses[joinCall[j].token] = 0
              /\ inviteTokens[joinCall[j].token] # NoToken =>
                    inviteTokens[joinCall[j].token].code = joinCall[j].code
              /\ \A i \in JoinCalls : Spends(i, joinCall[j].token) =>
                    joinCall[i].code = joinCall[j].code,
           Admit(j, o, users)
    PROVE  TokenHistory'
  <1> DEFINE u == joinCall[j].token
             c == joinCall[j].code
  <1>1. \A i \in JoinCalls : joinCall'[i].pc = "comparing" =>
           i # j /\ joinCall'[i] = joinCall[i] /\ joinLocks[joinCall[i].code] = i
    BY DEF Admit, Answer, NoJoin, TypeOK, JoinMutex
  <1>2. minted' = minted /\ \A t \in Tokens : inviteTokens'[t] # NoToken => inviteTokens'[t] = inviteTokens[t]
    BY DEF Admit, ConsumeToken, DropToken, invites, TypeOK
  <1>3. ASSUME NEW i \in JoinCalls, NEW t \in Tokens, Spends(i, t)'
        PROVE  /\ Spends(i, t) /\ i # j /\ joinCall'[i].code = joinCall[i].code
               /\ joinLocks[joinCall[i].code] = i
    BY <1>1, <1>3 DEF Spends
  <1>4. ASSUME NEW t \in Tokens, NEW i \in JoinCalls, NEW k \in JoinCalls,
               Spends(i, t)', Spends(k, t)'
        PROVE  joinCall'[i].code = joinCall'[k].code
    <2>1. Spends(i, t) /\ joinCall'[i].code = joinCall[i].code BY <1>3, <1>4
    <2>2. Spends(k, t) /\ joinCall'[k].code = joinCall[k].code BY <1>3, <1>4
    <2> QED BY <2>1, <2>2 DEF TokenHistory
  <1>5. ASSUME u = None PROVE TokenHistory'
    <2>1. uses' = uses BY <1>5 DEF Admit
    <2>2. \A t \in Tokens : t \notin minted' \/ inviteTokens'[t] # NoToken => uses'[t] = 0
      BY <1>2, <2>1 DEF TokenHistory
    <2>3. ASSUME NEW t \in Tokens, NEW i \in JoinCalls, Spends(i, t)'
          PROVE  /\ t \in minted' /\ uses'[t] = 0
                 /\ inviteTokens'[t] # NoToken => inviteTokens'[t].code = joinCall'[i].code
      <3>1. Spends(i, t) /\ joinCall'[i].code = joinCall[i].code BY <1>3, <2>3
      <3> QED BY <1>2, <2>1, <3>1 DEF TokenHistory
    <2>4. \A t \in Tokens : uses'[t] \in {0, 1} BY <2>1 DEF TokenHistory
    <2> QED BY <1>4, <2>2, <2>3, <2>4 DEF TokenHistory
  <1>6. ASSUME u # None PROVE TokenHistory'
    <2>1. PICK w \in Tokens : w = u BY <1>6
    <2>2. ASSUME NEW i \in JoinCalls, Spends(i, w)' PROVE FALSE
      <3>1. Spends(i, w) /\ i # j /\ joinLocks[joinCall[i].code] = i BY <1>3, <2>1, <2>2
      <3>2. joinCall[i].code = c BY <1>6, <2>1, <3>1
      <3> QED BY <3>1, <3>2, NoneIsNoValue
    <2>3. inviteTokens'[w] = NoToken
      BY <1>6, <2>1 DEF Admit, ConsumeToken, DropToken, invites, TypeOK
    <2>4. uses'[w] = 1 /\ \A t \in Tokens : t # w => uses'[t] = uses[t]
      BY <1>6, <2>1 DEF Admit, TypeOK
    <2>5. \A t \in Tokens : uses'[t] \in {0, 1} BY <2>4 DEF TokenHistory
    <2>6. \A t \in Tokens : t \notin minted' \/ inviteTokens'[t] # NoToken => uses'[t] = 0
      BY <1>2, <1>6, <2>1, <2>3, <2>4 DEF TokenHistory
    <2>7. ASSUME NEW t \in Tokens, NEW i \in JoinCalls, Spends(i, t)'
          PROVE  /\ t \in minted' /\ uses'[t] = 0
                 /\ inviteTokens'[t] # NoToken => inviteTokens'[t].code = joinCall'[i].code
      <3>1. Spends(i, t) /\ joinCall'[i].code = joinCall[i].code BY <1>3, <2>7
      <3>2. t # w BY <2>2, <2>7
      <3> QED BY <1>2, <2>4, <3>1, <3>2 DEF TokenHistory
    <2> QED BY <1>4, <2>5, <2>6, <2>7 DEF TokenHistory
  <1> QED BY <1>5, <1>6

\* Every step keeps the token history.
LEMMA TokenHistoryStep ==
    ASSUME TypeOK, JoinMutex, Unminted, TokenHistory, [Next]_vars
    PROVE  TokenHistory'
  <1>1. ASSUME NEW j \in JoinCalls, LockFree(j), Admissible(j), joinCall[j].token # None
        PROVE  LET t == joinCall[j].token  c == joinCall[j].code IN
               /\ t \in minted /\ uses[t] = 0 /\ inviteTokens[t].code = c
               /\ \A i \in JoinCalls : Spends(i, t) => joinCall[i].code = c
    <2>1. joinCall[j].token \in Tokens BY <1>1, JoinType DEF LockFree
    <2>2. TokenValid(joinCall[j].token, joinCall[j].code) BY <1>1 DEF Admissible
    <2> QED BY <2>1, <2>2 DEF TokenValid, Unminted, TokenHistory
  <1>2. ASSUME NEW j \in JoinCalls, JoinOpen(j) PROVE TokenHistory'
    <2>1. /\ joinCall[j].code \in Codes /\ joinCall[j].token \in Tokens \cup {None}
          /\ joinLocks[joinCall[j].code] = None
      BY <1>2, JoinType DEF JoinOpen, LockFree
    <2>2. LockFree(j) /\ Admissible(j) BY <1>2 DEF JoinOpen
    <2>3. PICK o, users : Admit(j, o, users) BY <1>2 DEF JoinOpen
    <2> QED BY <1>1, <2>1, <2>2, <2>3, AdmitSpendsOnce
  <1>3. ASSUME NEW j \in JoinCalls, JoinCompare(j) PROVE TokenHistory'
    <2>1. /\ joinCall[j].pc = "called" /\ joinCall[j].token \in Tokens \cup {None}
          /\ LockFree(j) /\ Admissible(j)
      BY <1>3, JoinType DEF JoinCompare, LockFree
    <2>2. UNCHANGED <<inviteTokens, minted, uses>> BY <1>3 DEF JoinCompare, invites
    <2>3. /\ joinCall'[j].token = joinCall[j].token /\ joinCall'[j].code = joinCall[j].code
          /\ \A i \in JoinCalls : i # j => joinCall'[i] = joinCall[i]
      BY <1>3, <2>1 DEF JoinCompare, TypeOK, Join, NoJoin
    <2>4. \A t \in Tokens, i \in JoinCalls :
             Spends(i, t)' => Spends(i, t) \/ (i = j /\ t = joinCall[j].token /\ t # None)
      BY <2>3, NoneIsNoValue DEF Spends
    <2>5. \A i \in JoinCalls : joinCall'[i].code = joinCall[i].code BY <2>3
    <2>6. ASSUME NEW t \in Tokens, NEW i \in JoinCalls, Spends(i, t)'
          PROVE  /\ t \in minted' /\ uses'[t] = 0
                 /\ inviteTokens'[t] # NoToken => inviteTokens'[t].code = joinCall'[i].code
      BY <1>1, <2>1, <2>2, <2>4, <2>5, <2>6 DEF TokenHistory
    <2>7. ASSUME NEW t \in Tokens, NEW i \in JoinCalls, NEW k \in JoinCalls,
                 Spends(i, t)', Spends(k, t)'
          PROVE  joinCall'[i].code = joinCall'[k].code
      BY <1>1, <2>1, <2>4, <2>5, <2>7 DEF TokenHistory
    <2> QED BY <2>2, <2>6, <2>7 DEF TokenHistory
  <1>4. ASSUME NEW j \in JoinCalls, JoinCompared(j) PROVE TokenHistory'
    <2>1. /\ joinCall[j].code \in Codes /\ joinCall[j].token \in Tokens \cup {None}
          /\ joinLocks[joinCall[j].code] = j /\ joinCall[j].pc = "comparing"
      BY <1>4, JoinType DEF JoinCompared, JoinMutex
    <2>2. CASE Admit(j, joinCall[j].room, heap[joinCall[j].room].users)
      <3>1. joinCall[j].token # None => Spends(j, joinCall[j].token) BY <2>1 DEF Spends
      <3> QED BY <2>1, <2>2, <3>1, AdmitSpendsOnce DEF TokenHistory
    <2>3. CASE ~Admit(j, joinCall[j].room, heap[joinCall[j].room].users)
      <3>1. joinCall' = Answer(j) /\ UNCHANGED <<inviteTokens, minted, uses>>
        BY <1>4, <2>3 DEF JoinCompared, invites
      <3>2. \A i \in JoinCalls : joinCall'[i].pc = "comparing" => joinCall'[i] = joinCall[i]
        BY <3>1 DEF Answer, NoJoin, TypeOK
      <3> QED BY <3>1, <3>2 DEF TokenHistory, Spends
    <2> QED BY <2>2, <2>3
  <1>5. ASSUME uses' = uses,
               \A j \in JoinCalls : joinCall'[j].pc = "comparing" => joinCall'[j] = joinCall[j]
        PROVE  TokenHistory'
    <2>1. \A t \in Tokens, j \in JoinCalls :
             Spends(j, t)' => Spends(j, t) /\ joinCall'[j].code = joinCall[j].code
      BY <1>5 DEF Spends
    <2>2. \A t \in Tokens : t \notin minted' \/ inviteTokens'[t] # NoToken => uses'[t] = 0
      BY <1>5, TokensNeverReturn DEF TokenHistory
    <2>3. \A t \in Tokens, j \in JoinCalls : Spends(j, t)' =>
             /\ t \in minted' /\ uses'[t] = 0
             /\ inviteTokens'[t] # NoToken => inviteTokens'[t].code = joinCall'[j].code
      BY <1>5, <2>1, TokensNeverReturn DEF TokenHistory
    <2>4. \A t \in Tokens, i, j \in JoinCalls :
             Spends(i, t)' /\ Spends(j, t)' => joinCall'[i].code = joinCall'[j].code
      BY <2>1 DEF TokenHistory
    <2>5. \A t \in Tokens : uses'[t] \in {0, 1} BY <1>5 DEF TokenHistory
    <2> QED BY <2>2, <2>3, <2>4, <2>5 DEF TokenHistory
  <1> QED BY <1>2, <1>3, <1>4, <1>5, QuietTokenSteps

\* A one-time invite admits at most one user (rooms.js, maxUses: 1), for any
\* number of rooms, tokens and overlapping joins: the check of the token and
\* its removal are separated by bcrypt.compare, and the join lock covers it.
THEOREM OneTimeTokenHolds == Spec => []OneTimeTokenOnce
  <1>1. Init => Unminted /\ TokenHistory
    BY DEF Init, Unminted, TokenHistory, Spends, NoJoin
  <1>2. TypeOK /\ TokensTracked /\ Unminted /\ [Next]_vars => Unminted'
    BY TokensTrackedStep
  <1>3. TypeOK /\ JoinMutex /\ Unminted /\ TokenHistory /\ [Next]_vars => TokenHistory'
    BY TokenHistoryStep
  <1>4. TokenHistory => OneTimeTokenOnce BY DEF TokenHistory, OneTimeTokenOnce
  <1> QED BY <1>1, <1>2, <1>3, <1>4, TypeCorrect, JoinMutexHolds, TokenMapsAgree, PTL DEF Spec
=============================================================================
