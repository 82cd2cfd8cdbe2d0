----------------------- MODULE RoomManagerOpenProofs -----------------------
(***************************************************************************)
(* Proofs about RoomManager when no room has a password, for any sockets,  *)
(* codes, creators, calls and limits.  Then no call suspends between its   *)
(* checks and what it stores, and the registry, its timers, the creator    *)
(* index and the user lists stay in step.                                  *)
(***************************************************************************)
EXTENDS RoomManagerProofs

NoPasswords == Passwords \subseteq {FALSE}

-----------------------------------------------------------------------------
(* The inductive invariant *)

\* No call is suspended, and no room has a password.
Calm ==
    /\ \A p \in CreateCalls : createCall[p] = NoCreate
    /\ \A j \in JoinCalls : joinCall[j].pc # "comparing"
    /\ \A c \in Codes : Exists(c) => ~RoomAt(c).password

\* The timer of a room has a mode, which tells it from no timer in every tick.
Timed == \A c \in Codes : Exists(c) => roomTimers[c].mode \in Modes

Unique(users) == \A u, v \in users : Nick[u] = Nick[v] => u = v

OpenInv ==
    Calm /\ Timed /\ RoomHasTimer /\ CreatorIndexExact /\ NicknamesUnique

-----------------------------------------------------------------------------
(* What the operators of the model do to a room *)

\* A list of users that is replaced touches nothing else of the objects.
LEMMA SetUsersKeeps ==
    ASSUME TypeOK, NEW o \in Objects, NEW users, NEW x \in Objects
    PROVE  /\ SetUsers(o, users)[x].creator = heap[x].creator
           /\ SetUsers(o, users)[x].password = heap[x].password
           /\ SetUsers(o, users)[x].users = IF x = o THEN users ELSE heap[x].users
  BY DEF TypeOK, SetUsers, RoomObject

\* What is registered is not collected.
LEMMA CollectKeeps ==
    ASSUME NEW h, NEW rms, NEW joins, NEW c \in Codes, rms[c] \in Objects
    PROVE  Collect(h, rms, joins)[rms[c]] = h[rms[c]]
  BY DEF Collect, Referenced

\* A list that shrinks, or from which the nickname of the newcomer has gone,
\* in any case of its letters, has no nickname twice.
LEMMA UniqueLists ==
    ASSUME NEW users, NEW more, Unique(users)
    PROVE  /\ more \subseteq users => Unique(more)
           /\ \A s : Unique(Deduplicated(users, s))
           /\ \A s : (more \subseteq users /\ \A u \in more : u # s => Fold[Nick[u]] # Fold[Nick[s]])
                        => Unique(more \cup {s})
  BY DEF Unique, Deduplicated, Own

LEMMA ListsUnique ==
    NicknamesUnique <=> \A c \in Codes : Exists(c) => Unique(RoomAt(c).users)
  BY DEF NicknamesUnique, Unique

\* A refreshed timer runs on, in the same mode.
LEMMA RefreshKeeps ==
    ASSUME TypeOK, NEW c \in Codes, RefreshRoomExpiry(c), roomTimers[c].mode \in Modes
    PROVE  \A d \in Codes : /\ roomTimers'[d].mode = roomTimers[d].mode
                            /\ roomTimers'[d] = NoTimer <=> roomTimers[d] = NoTimer
  <1>1. NoTimer.mode \notin Modes BY NoneIsNoValue, ParametersTyped DEF NoTimer
  <1>2. roomTimers \in [Codes -> Timer] BY DEF TypeOK
  <1>3. \A d \in Codes \ {c} : roomTimers'[d] = roomTimers[d] BY <1>2 DEF RefreshRoomExpiry
  <1>4. roomTimers'[c].mode = roomTimers[c].mode BY <1>2 DEF RefreshRoomExpiry, Timer
  <1> QED BY <1>1, <1>3, <1>4

-----------------------------------------------------------------------------
(* The three kinds of steps *)

\* No room comes or goes.
LEMMA KeptStep ==
    ASSUME TypeOK, OpenInv, UNCHANGED <<rooms, creatorRooms, createCall>>,
           \A j \in JoinCalls : joinCall'[j].pc # "comparing",
           \A c \in Codes : Exists(c) =>
               /\ heap'[rooms[c]].creator = RoomAt(c).creator
               /\ heap'[rooms[c]].password = RoomAt(c).password
               /\ Unique(heap'[rooms[c]].users),
           \A c \in Codes : /\ roomTimers'[c].mode = roomTimers[c].mode
                            /\ roomTimers'[c] = NoTimer <=> roomTimers[c] = NoTimer
    PROVE  OpenInv'
  <1>1. \A c \in Codes : /\ Exists(c)' <=> Exists(c)
                         /\ RoomAt(c)' = heap'[rooms[c]]
    BY DEF Exists, RoomAt
  <1>2. Calm' BY <1>1 DEF OpenInv, Calm
  <1>3. Timed' BY <1>1 DEF OpenInv, Timed
  <1>4. RoomHasTimer' BY <1>1 DEF OpenInv, RoomHasTimer
  <1>5. CreatorIndexExact' BY <1>1 DEF OpenInv, CreatorIndexExact
  <1>7. NicknamesUnique' BY <1>1 DEF NicknamesUnique, Unique
  <1> QED BY <1>2, <1>3, <1>4, <1>5, <1>7 DEF OpenInv

\* Rooms are deleted.
LEMMA DeleteStep ==
    ASSUME TypeOK, OpenInv, NEW C \in SUBSET Codes, NEW joins, DeleteRooms(C, joins),
           createCall' = createCall, \A j \in JoinCalls : joinCall'[j].pc # "comparing"
    PROVE  OpenInv'
  <1>1. \A c \in Codes : /\ Exists(c)' <=> Exists(c) /\ c \notin C
                         /\ Exists(c)' => RoomAt(c)' = RoomAt(c)
    <2> SUFFICES ASSUME NEW c \in Codes
                 PROVE  /\ Exists(c)' <=> Exists(c) /\ c \notin C
                        /\ Exists(c)' => RoomAt(c)' = RoomAt(c)
      OBVIOUS
    <2>1. rooms'[c] = IF c \in C THEN None ELSE rooms[c] BY DEF DeleteRooms
    <2>2. Exists(c)' => rooms'[c] = rooms[c] /\ rooms'[c] \in Objects
      BY <2>1 DEF Exists, TypeOK
    <2>3. Exists(c)' => heap'[rooms'[c]] = heap[rooms'[c]]
      BY <2>2, CollectKeeps DEF DeleteRooms
    <2> QED BY <2>1, <2>2, <2>3 DEF Exists, RoomAt
  <1>2. \A c \in Codes : roomTimers'[c] = IF c \in C THEN NoTimer ELSE roomTimers[c]
    BY DEF DeleteRooms
  <1>3. \A k \in Creators : creatorRooms'[k] =
           creatorRooms[k] \ {c \in C : Exists(c) /\ RoomAt(c).creator = k}
    BY DEF DeleteRooms
  <1>4. Calm' BY <1>1 DEF OpenInv, Calm
  <1>5. RoomHasTimer' BY <1>1, <1>2 DEF OpenInv, RoomHasTimer
  <1>6. Timed' BY <1>1, <1>2 DEF OpenInv, Timed
  <1>7. CreatorIndexExact' BY <1>1, <1>3 DEF OpenInv, CreatorIndexExact
  <1>9. NicknamesUnique' BY <1>1 DEF OpenInv, NicknamesUnique
  <1> QED BY <1>4, <1>5, <1>6, <1>7, <1>9 DEF OpenInv

\* A room is created: the checks and the registration are one step.
LEMMA CreateStep ==
    ASSUME TypeOK, OpenInv, NEW k \in Creators \cup {None}, NEW c \in Codes, NEW mode \in Modes,
           CreateRoom(k, c, mode)
    PROVE  OpenInv'
  <1> DEFINE obj == NewRoom(k, mode, FALSE, Lifetime[mode])
  <1>1. /\ MayCreate(k, c, mode) /\ RegisterRoom(c, obj)
        /\ UNCHANGED <<createCall, joinCall>> /\ ~Exists(c)
    BY DEF CreateRoom, calls, MayCreate
  <1>2. obj.creator = k /\ obj.mode = mode /\ obj.password = FALSE /\ obj.users = {}
    BY DEF NewRoom
  <1> HIDE DEF obj
  <1>3. PICK o \in Free :
           /\ rooms' = [rooms EXCEPT ![c] = o]
           /\ heap' = Collect([heap EXCEPT ![o] = obj], rooms', joinCall)
           /\ roomTimers' = [roomTimers EXCEPT ![c] = [mode |-> mode, left |-> Lifetime[mode]]]
           /\ creatorRooms' = [i \in Creators |->
                                 creatorRooms[i] \cup (IF i = k THEN {c} ELSE {})]
    BY <1>1, <1>2 DEF RegisterRoom
  <1> DEFINE h == [heap EXCEPT ![o] = obj]
  <1>4. o \in Objects /\ o # None /\ \A d \in Codes : rooms[d] # o
    BY NoneIsNoValue DEF Free, Referenced
  <1>5. Exists(c)' /\ RoomAt(c)' = obj
    <2>1. rooms'[c] = o BY <1>3 DEF TypeOK
    <2>2. heap'[o] = h[o]
      <3>1. Collect(h, rooms', joinCall)[rooms'[c]] = h[rooms'[c]]
        BY <1>4, <2>1 DEF Collect, Referenced
      <3> QED BY <1>3, <2>1, <3>1
    <2>3. h[o] = obj BY <1>3, <1>4 DEF TypeOK
    <2> QED BY <1>4, <2>1, <2>2, <2>3 DEF Exists, RoomAt
  <1>6. \A d \in Codes \ {c} : /\ Exists(d)' <=> Exists(d)
                               /\ Exists(d) => RoomAt(d)' = RoomAt(d)
    <2> SUFFICES ASSUME NEW d \in Codes \ {c}
                 PROVE  /\ Exists(d)' <=> Exists(d)
                        /\ Exists(d) => RoomAt(d)' = RoomAt(d)
      OBVIOUS
    <2>1. rooms'[d] = rooms[d] BY <1>3 DEF TypeOK
    <2>2. Exists(d) => rooms'[d] \in Objects /\ rooms'[d] # o
      BY <1>4, <2>1 DEF Exists, TypeOK
    <2>3. Exists(d) => heap'[rooms'[d]] = h[rooms'[d]]
      <3>1. Exists(d) => Collect(h, rooms', joinCall)[rooms'[d]] = h[rooms'[d]]
        BY <2>2 DEF Collect, Referenced
      <3> QED BY <1>3, <3>1
    <2>4. Exists(d) => h[rooms'[d]] = heap[rooms[d]] BY <2>1, <2>2 DEF TypeOK
    <2> QED BY <2>1, <2>3, <2>4 DEF Exists, RoomAt
  <1>7. /\ roomTimers'[c].mode = mode /\ roomTimers'[c] # NoTimer
        /\ \A d \in Codes \ {c} : roomTimers'[d] = roomTimers[d]
    <2>1. roomTimers'[c] = [mode |-> mode, left |-> Lifetime[mode]] BY <1>3 DEF TypeOK
    <2>2. mode # None BY NoneIsNoValue, ParametersTyped
    <2> QED BY <1>3, <2>1, <2>2 DEF TypeOK, NoTimer
  <1>8. \A i \in Creators : creatorRooms'[i] = creatorRooms[i] \cup (IF i = k THEN {c} ELSE {})
    BY <1>3
  <1>9. Calm' BY <1>1, <1>2, <1>5, <1>6 DEF OpenInv, Calm
  <1>10. RoomHasTimer' BY <1>5, <1>6, <1>7 DEF OpenInv, RoomHasTimer
  <1>11. Timed' BY <1>5, <1>6, <1>7 DEF OpenInv, Timed
  <1>12. CreatorIndexExact'
    BY <1>1, <1>2, <1>5, <1>6, <1>8 DEF OpenInv, CreatorIndexExact
  <1>14. NicknamesUnique' BY <1>2, <1>5, <1>6 DEF OpenInv, NicknamesUnique
  <1> QED BY <1>9, <1>10, <1>11, <1>12, <1>14 DEF OpenInv

\* The list of one object is replaced by one without a nickname twice.
LEMMA ListStep ==
    ASSUME TypeOK, OpenInv, NEW c \in Codes, Exists(c), NEW users, Unique(users),
           heap' = SetUsers(rooms[c], users),
           UNCHANGED <<rooms, creatorRooms, roomTimers, createCall>>,
           \A j \in JoinCalls : joinCall'[j].pc # "comparing"
    PROVE  OpenInv'
  <1>1. rooms[c] \in Objects BY RoomAtType
  <1>2. \A d \in Codes : Exists(d) =>
           /\ heap'[rooms[d]].creator = RoomAt(d).creator
           /\ heap'[rooms[d]].password = RoomAt(d).password
           /\ heap'[rooms[d]].users = IF rooms[d] = rooms[c] THEN users ELSE RoomAt(d).users
    <2> SUFFICES ASSUME NEW d \in Codes, Exists(d)
                 PROVE  /\ heap'[rooms[d]].creator = RoomAt(d).creator
                        /\ heap'[rooms[d]].password = RoomAt(d).password
                        /\ heap'[rooms[d]].users =
                              IF rooms[d] = rooms[c] THEN users ELSE RoomAt(d).users
      OBVIOUS
    <2>1. rooms[d] \in Objects BY RoomAtType
    <2> QED BY <1>1, <2>1, SetUsersKeeps DEF RoomAt
  <1>3. \A d \in Codes : Exists(d) => Unique(RoomAt(d).users) BY ListsUnique DEF OpenInv
  <1>4. \A d \in Codes : Exists(d) => Unique(heap'[rooms[d]].users) BY <1>2, <1>3
  <1> QED BY <1>2, <1>4, KeptStep

\* The rooms, their lists and their timers stay as they are.
LEMMA SameStep ==
    ASSUME TypeOK, OpenInv, UNCHANGED <<rooms, creatorRooms, roomTimers, heap, createCall>>,
           \A j \in JoinCalls : joinCall'[j].pc # "comparing"
    PROVE  OpenInv'
  <1>1. \A d \in Codes : Exists(d) => Unique(RoomAt(d).users) BY ListsUnique DEF OpenInv
  <1>2. \A d \in Codes : Exists(d) => Unique(heap'[rooms[d]].users) BY <1>1 DEF RoomAt
  <1> QED BY <1>2, KeptStep DEF RoomAt

-----------------------------------------------------------------------------
(* The steps *)

\* Answering a call suspends none.
LEMMA AnswerCalm ==
    ASSUME TypeOK, Calm, NEW j \in JoinCalls, joinCall' = Answer(j)
    PROVE  \A i \in JoinCalls : joinCall'[i].pc # "comparing"
  BY DEF Calm, Answer, NoJoin, TypeOK

\* Those present are some of the users.
LEMMA PresentUnique ==
    ASSUME TypeOK, OpenInv, NEW c \in Codes, Exists(c)
    PROVE  /\ Unique(RoomAt(c).users) /\ Present(c) \subseteq RoomAt(c).users
           /\ Unique(Present(c))
  BY ListsUnique, UniqueLists DEF OpenInv, Present

LEMMA JoinOpenStep ==
    ASSUME TypeOK, OpenInv, NEW j \in JoinCalls, JoinOpen(j)
    PROVE  OpenInv'
  <1> DEFINE c == joinCall[j].code
             s == joinCall[j].socket
             users == Present(c) \cup {s}
  <1>1. /\ c \in Codes /\ Exists(c) /\ Admissible(j) /\ Admit(j, rooms[c], Present(c))
        /\ rooms[c] \in Objects /\ rooms \in [Codes -> Objects \cup {None}]
    BY JoinType, RoomAtType DEF JoinOpen, LockFree, TypeOK
  <1>2. rooms' = rooms /\ UNCHANGED <<creatorRooms, createCall>> BY <1>1 DEF Admit
  <1>3. heap' = Collect(SetUsers(rooms[c], users), rooms', joinCall') BY <1>1 DEF Admit
  <1>4. Unique(users)
    <2>1. \A u \in Present(c) : u # s => Fold[Nick[u]] # Fold[Nick[s]] BY <1>1 DEF Admissible, NickTaken
    <2> QED BY <1>1, <2>1, PresentUnique, UniqueLists
  <1>5. \A d \in Codes : Exists(d) =>
           /\ heap'[rooms[d]].creator = RoomAt(d).creator
           /\ heap'[rooms[d]].password = RoomAt(d).password
           /\ Unique(heap'[rooms[d]].users)
    <2> SUFFICES ASSUME NEW d \in Codes, Exists(d)
                 PROVE  /\ heap'[rooms[d]].creator = RoomAt(d).creator
                        /\ heap'[rooms[d]].password = RoomAt(d).password
                        /\ Unique(heap'[rooms[d]].users)
      OBVIOUS
    <2>1. rooms[d] \in Objects BY RoomAtType
    <2>2. heap'[rooms[d]] = SetUsers(rooms[c], users)[rooms[d]]
      BY <1>2, <1>3, <2>1 DEF Collect, Referenced
    <2>3. Unique(RoomAt(d).users) BY PresentUnique
    <2> QED BY <1>1, <1>4, <2>1, <2>2, <2>3, SetUsersKeeps DEF RoomAt
  <1>6. \A d \in Codes : /\ roomTimers'[d].mode = roomTimers[d].mode
                         /\ roomTimers'[d] = NoTimer <=> roomTimers[d] = NoTimer
    <2>1. RefreshRoomExpiry(c) /\ roomTimers[c].mode \in Modes
      BY <1>1 DEF Admit, OpenInv, Timed
    <2> QED BY <1>1, <2>1, RefreshKeeps
  <1>7. \A i \in JoinCalls : joinCall'[i].pc # "comparing"
    BY <1>1, AnswerCalm DEF Admit, OpenInv
  <1> QED BY <1>2, <1>5, <1>6, <1>7, KeptStep

\* The other answers of joinRoom: the room is gone, or refuses, or has the socket.
LEMMA JoinAnsweredStep ==
    ASSUME TypeOK, OpenInv, NEW j \in JoinCalls, JoinNoRoom(j) \/ JoinRefused(j) \/ JoinAgain(j)
    PROVE  OpenInv'
  <1> DEFINE c == joinCall[j].code
  <1>1. c \in Codes /\ createCall' = createCall /\ joinCall' = Answer(j)
    BY JoinType DEF JoinNoRoom, JoinRefused, JoinAgain, LockFree
  <1>2. \A i \in JoinCalls : joinCall'[i].pc # "comparing" BY <1>1, AnswerCalm DEF OpenInv
  <1>3. CASE JoinNoRoom(j)
    <2>1. UNCHANGED <<registry, heap, invites>> \/ DeleteRooms({c}, joinCall')
      BY <1>3 DEF JoinNoRoom
    <2>2. {c} \in SUBSET Codes BY <1>1
    <2> QED BY <1>1, <1>2, <2>1, <2>2, DeleteStep, SameStep DEF registry
  <1>4. CASE JoinRefused(j) \/ JoinAgain(j)
    <2>1. /\ Exists(c) /\ heap' = SetUsers(rooms[c], Present(c))
          /\ UNCHANGED <<rooms, roomTimers, creatorRooms>>
      BY <1>4 DEF JoinRefused, JoinAgain, registry
    <2>2. Unique(Present(c)) BY <1>1, <2>1, PresentUnique
    <2> QED BY <1>1, <1>2, <2>1, <2>2, ListStep
  <1> QED BY <1>3, <1>4

\* The calls of index.js that change a list without the lock.
LEMMA ListsStep ==
    ASSUME TypeOK, OpenInv, NEW s \in Sockets, NEW c \in Codes,
           \/ \E j \in JoinCalls, t \in Tokens \cup {None} : JoinRoomCall(j, s, c, t)
           \/ ResumeSession(s, c)
           \/ LeaveRoom(s)
    PROVE  OpenInv'
  <1>0. \A j \in JoinCalls : joinCall[j].pc # "comparing" BY DEF OpenInv, Calm
  <1>1. ASSUME NEW j \in JoinCalls, NEW t \in Tokens \cup {None}, JoinRoomCall(j, s, c, t)
        PROVE  OpenInv'
    <2>1. /\ UNCHANGED <<rooms, roomTimers, creatorRooms, createCall>>
          /\ \A i \in JoinCalls : joinCall'[i].pc # "comparing"
      BY <1>0, <1>1 DEF JoinRoomCall, registry, TypeOK
    <2>2. CASE ~Exists(c)
      <3>1. heap' = heap BY <1>1, <2>2 DEF JoinRoomCall
      <3> QED BY <2>1, <3>1, SameStep
    <2>3. CASE Exists(c)
      <3> DEFINE users == RoomAt(c).users \cap (connected \cup leaving')
      <3>1. heap' = SetUsers(rooms[c], users) BY <1>1, <2>3 DEF JoinRoomCall
      <3>2. Unique(users) BY <2>3, PresentUnique, UniqueLists
      <3> QED BY <2>1, <2>3, <3>1, <3>2, ListStep
    <2> QED BY <2>2, <2>3
  <1>2. CASE ResumeSession(s, c)
    <2>1. UNCHANGED <<rooms, roomTimers, creatorRooms, createCall, joinCall>>
      BY <1>2 DEF ResumeSession, registry, calls
    <2>2. CASE ~Exists(c)
      <3>1. heap' = heap BY <1>2, <2>2 DEF ResumeSession
      <3> QED BY <1>0, <2>1, <3>1, SameStep
    <2>3. CASE Exists(c)
      <3> DEFINE users == Deduplicated(RoomAt(c).users, s)
      <3>1. heap' = SetUsers(rooms[c], users) BY <1>2, <2>3 DEF ResumeSession
      <3>2. Unique(users) BY <2>3, PresentUnique, UniqueLists
      <3> QED BY <1>0, <2>1, <2>3, <3>1, <3>2, ListStep
    <2> QED BY <2>2, <2>3
  <1>3. CASE LeaveRoom(s)
    <2> DEFINE d == roomOf[s]
               users == (RoomAt(d).users \ {s}) \cap (connected \cup leaving')
    <2>1. d \in Codes /\ UNCHANGED <<createCall, joinCall>>
      BY <1>3 DEF LeaveRoom, calls, TypeOK
    <2>2. \/ UNCHANGED <<registry, heap, invites>>
          \/ DeleteRooms({d}, joinCall)
          \/ Exists(d) /\ heap' = SetUsers(rooms[d], users) /\ UNCHANGED registry
      BY <1>3 DEF LeaveRoom
    <2>3. CASE UNCHANGED <<registry, heap, invites>>
      BY <1>0, <2>1, <2>3, SameStep DEF registry
    <2>4. CASE DeleteRooms({d}, joinCall)
      <3>1. {d} \in SUBSET Codes BY <2>1
      <3> QED BY <1>0, <2>1, <2>4, <3>1, DeleteStep
    <2>5. CASE Exists(d) /\ heap' = SetUsers(rooms[d], users) /\ UNCHANGED registry
      <3>1. Unique(users) BY <2>1, <2>5, PresentUnique, UniqueLists
      <3> QED BY <1>0, <2>1, <2>5, <3>1, ListStep DEF registry
    <2> QED BY <2>2, <2>3, <2>4, <2>5
  <1> QED BY <1>1, <1>2, <1>3

\* The sweep, and the passing of time.
LEMMA SweepStep ==
    ASSUME TypeOK, OpenInv, SweepUsers
    PROVE  OpenInv'
  <1>0. \A j \in JoinCalls : joinCall[j].pc # "comparing" BY DEF OpenInv, Calm
  <1>1. UNCHANGED <<rooms, roomTimers, creatorRooms, createCall, joinCall>>
    BY DEF SweepUsers, registry, calls
  <1>2. \A c \in Codes : Exists(c) =>
           /\ heap'[rooms[c]].creator = RoomAt(c).creator
           /\ heap'[rooms[c]].password = RoomAt(c).password
           /\ Unique(heap'[rooms[c]].users)
    <2> SUFFICES ASSUME NEW c \in Codes, Exists(c)
                 PROVE  /\ heap'[rooms[c]].creator = RoomAt(c).creator
                        /\ heap'[rooms[c]].password = RoomAt(c).password
                        /\ Unique(heap'[rooms[c]].users)
      OBVIOUS
    <2>1. rooms[c] \in Objects /\ RoomAt(c) \in RoomObject BY RoomAtType
    <2>2. heap'[rooms[c]] = [RoomAt(c) EXCEPT !.users = @ \cap (connected \cup leaving)]
      BY <2>1 DEF SweepUsers, RoomAt
    <2>3. /\ heap'[rooms[c]].creator = RoomAt(c).creator
          /\ heap'[rooms[c]].password = RoomAt(c).password
          /\ heap'[rooms[c]].users \subseteq RoomAt(c).users
      BY <2>1, <2>2 DEF RoomObject
    <2> QED BY <2>3, PresentUnique, UniqueLists
  <1> QED BY <1>0, <1>1, <1>2, KeptStep

LEMMA TickStep ==
    ASSUME TypeOK, OpenInv, Tick
    PROVE  OpenInv'
  <1>1. /\ UNCHANGED <<rooms, creatorRooms, joinCall>>
        /\ \A j \in JoinCalls : joinCall'[j].pc # "comparing"
    BY DEF Tick, OpenInv, Calm
  <1>2. createCall' = createCall
    <2>1. \A p \in CreateCalls : createCall[p] = NoCreate BY DEF OpenInv, Calm
    <2>2. [NoCreate EXCEPT !.left = Less(@)] = NoCreate BY DEF NoCreate, Less
    <2>3. \A p \in CreateCalls : createCall'[p] = createCall[p] BY <2>1, <2>2 DEF Tick
    <2>4. createCall = [p \in CreateCalls |-> createCall[p]] BY DEF TypeOK
    <2>5. createCall' = [p \in CreateCalls |-> createCall'[p]] BY DEF Tick
    <2> QED BY <2>3, <2>4, <2>5
  <1>3. \A c \in Codes : Exists(c) =>
           /\ heap'[rooms[c]].creator = RoomAt(c).creator
           /\ heap'[rooms[c]].password = RoomAt(c).password
           /\ Unique(heap'[rooms[c]].users)
    <2> SUFFICES ASSUME NEW c \in Codes, Exists(c)
                 PROVE  /\ heap'[rooms[c]].creator = RoomAt(c).creator
                        /\ heap'[rooms[c]].password = RoomAt(c).password
                        /\ Unique(heap'[rooms[c]].users)
      OBVIOUS
    <2>1. rooms[c] \in Objects /\ RoomAt(c) \in RoomObject BY RoomAtType
    <2>2. heap'[rooms[c]] = [RoomAt(c) EXCEPT !.left = Less(@)] BY <2>1 DEF Tick, RoomAt
    <2>3. /\ heap'[rooms[c]].creator = RoomAt(c).creator
          /\ heap'[rooms[c]].password = RoomAt(c).password
          /\ heap'[rooms[c]].users = RoomAt(c).users
      BY <2>1, <2>2 DEF RoomObject
    <2> QED BY <2>3, PresentUnique
  <1>4. ASSUME NEW c \in Codes
        PROVE  /\ roomTimers'[c].mode = roomTimers[c].mode
               /\ roomTimers'[c] = NoTimer <=> roomTimers[c] = NoTimer
    <2>1. /\ roomTimers[c] \in Timer
          /\ roomTimers'[c] = [roomTimers[c] EXCEPT !.left = Less(@)]
      BY DEF TypeOK, Tick
    <2>2. roomTimers'[c].mode = roomTimers[c].mode BY <2>1 DEF Timer
    <2>3. roomTimers[c] = NoTimer => roomTimers'[c] = NoTimer BY <2>1 DEF NoTimer, Less
    <2>4. roomTimers[c] # NoTimer => roomTimers[c].mode \in Modes
      BY DEF OpenInv, Timed, RoomHasTimer
    <2>5. NoTimer.mode \notin Modes BY NoneIsNoValue, ParametersTyped DEF NoTimer
    <2> QED BY <2>2, <2>3, <2>4, <2>5
  <1> QED BY <1>1, <1>2, <1>3, <1>4, KeptStep

LEMMA OpenStep ==
    ASSUME NoPasswords, TypeOK, OpenInv, [Next]_vars
    PROVE  OpenInv'
  <1>0. /\ \A j \in JoinCalls : joinCall[j].pc # "comparing"
        /\ \A p \in CreateCalls : createCall[p] = NoCreate
        /\ \A c \in Codes : Exists(c) => ~RoomAt(c).password
    BY DEF OpenInv, Calm
  <1>1. CASE UNCHANGED vars BY <1>0, <1>1, SameStep DEF vars, registry, calls
  <1>2. ASSUME NEW j \in JoinCalls, JoinEnter(j) PROVE OpenInv'
    <2>1. ~JoinCompare(j)
      <3>1. LockFree(j) => joinCall[j].code \in Codes BY JoinType DEF LockFree
      <3> QED BY <1>0, <3>1 DEF JoinCompare
    <2> QED BY <1>2, <2>1, JoinOpenStep, JoinAnsweredStep DEF JoinEnter
  <1>3. \A k \in Creators \cup {None}, c \in Codes, mode \in Modes, p \in CreateCalls :
           ~CreateHash(p, k, c, mode)
    BY DEF CreateHash, NoPasswords
  <1>4. \A p \in CreateCalls : ~CreateStore(p) BY <1>0 DEF CreateStore
  <1>5. \A j \in JoinCalls : ~JoinCompared(j) BY <1>0 DEF JoinCompared
  <1>6. ASSUME NEW C \in SUBSET Codes, DeleteRooms(C, joinCall), UNCHANGED calls PROVE OpenInv'
    BY <1>0, <1>6, DeleteStep DEF calls
  <1>7. CASE \/ \E c \in Codes : ExpiryTimer(c)
             \/ \E c \in Codes, k \in Creators : DeleteRoomByCreator(c, k)
             \/ CleanupExpiredRooms
    <2>1. Expired \in SUBSET Codes /\ \A c \in Codes : {c} \in SUBSET Codes BY DEF Expired
    <2> QED BY <1>6, <1>7, <2>1 DEF ExpiryTimer, DeleteRoomByCreator, CleanupExpiredRooms
  <1>8. ASSUME NEW s \in Sockets, SendMessage(s) PROVE OpenInv'
    <2> DEFINE c == roomOf[s]
    <2>1. /\ c \in Codes /\ Exists(c) /\ RefreshRoomExpiry(c)
          /\ UNCHANGED <<rooms, creatorRooms, heap, createCall, joinCall>>
      BY <1>8 DEF SendMessage, TypeOK, calls
    <2>2. roomTimers[c].mode \in Modes BY <2>1 DEF OpenInv, Timed
    <2>3. \A d \in Codes : /\ roomTimers'[d].mode = roomTimers[d].mode
                           /\ roomTimers'[d] = NoTimer <=> roomTimers[d] = NoTimer
      BY <2>1, <2>2, RefreshKeeps
    <2>4. \A d \in Codes : Exists(d) => Unique(RoomAt(d).users) BY PresentUnique
    <2>5. \A d \in Codes : Exists(d) =>
             /\ heap'[rooms[d]].creator = RoomAt(d).creator
             /\ heap'[rooms[d]].password = RoomAt(d).password
             /\ Unique(heap'[rooms[d]].users)
      BY <2>1, <2>4 DEF RoomAt
    <2> QED BY <1>0, <2>1, <2>3, <2>5, KeptStep
  <1>9. CASE \/ \E c \in Codes, t \in Tokens : GenerateInviteToken(c, t)
             \/ \E t \in Tokens : CleanupToken(t)
             \/ \E s \in Sockets : Connect(s) \/ Disconnect(s)
    <2>1. UNCHANGED <<rooms, creatorRooms, roomTimers, heap, createCall, joinCall>>
      BY <1>9 DEF GenerateInviteToken, CleanupToken, Connect, Disconnect, registry, calls
    <2> QED BY <1>0, <2>1, SameStep
  <1>10. ASSUME NEW s \in Sockets, LeaveRoom(s) PROVE OpenInv'
    <2>1. roomOf[s] \in Codes BY <1>10 DEF LeaveRoom, TypeOK
    <2> QED BY <1>10, <2>1, ListsStep
  <1> QED
    BY <1>1, <1>2, <1>3, <1>4, <1>5, <1>7, <1>8, <1>9, <1>10, CreateStep, ListsStep, SweepStep,
       TickStep DEF Next

-----------------------------------------------------------------------------
(* The theorems *)

LEMMA InitOpen == Init => OpenInv
  <1> SUFFICES ASSUME Init PROVE OpenInv OBVIOUS
  <1>1. \A c \in Codes : ~Exists(c) /\ roomTimers[c] = NoTimer BY DEF Init, Exists
  <1>3. Calm BY <1>1 DEF Init, Calm, NoJoin
  <1>4. Timed BY <1>1 DEF Timed
  <1>5. RoomHasTimer /\ CreatorIndexExact /\ NicknamesUnique
    BY <1>1 DEF Init, RoomHasTimer, CreatorIndexExact, NicknamesUnique
  <1> QED BY <1>3, <1>4, <1>5 DEF OpenInv

\* Without passwords no method suspends between its checks and what it stores.
THEOREM OpenInvHolds == ASSUME NoPasswords PROVE Spec => []OpenInv
  <1>1. TypeOK /\ OpenInv /\ [Next]_vars => OpenInv' BY OpenStep
  <1> QED BY <1>1, InitOpen, TypeCorrect, PTL DEF Spec

\* Every registered room has its expiry timer and every timer a room, whatever
\* order its creator, its users, the timer and the periodic clean-up come in
\* (setRoomExpiry and deleteRoom, rooms.js).
THEOREM RoomHasTimerHolds == ASSUME NoPasswords PROVE Spec => []RoomHasTimer
  <1>1. OpenInv => RoomHasTimer BY DEF OpenInv
  <1> QED BY <1>1, OpenInvHolds, PTL

\* creatorRooms lists exactly the registered rooms of each creator.
THEOREM CreatorIndexHolds == ASSUME NoPasswords PROVE Spec => []CreatorIndexExact
  <1>1. OpenInv => CreatorIndexExact BY DEF OpenInv
  <1> QED BY <1>1, OpenInvHolds, PTL

\* No nickname, as it is written, is twice in a room's list: index.js changes
\* the lists beside joinRoom, leaves dead entries in them, and compares nicknames
\* in another way than joinRoom (server/index.js:2014, server/rooms.js:286).
THEOREM NicknamesUniqueHolds == ASSUME NoPasswords PROVE Spec => []NicknamesUnique
  <1>1. OpenInv => NicknamesUnique BY DEF OpenInv
  <1> QED BY <1>1, OpenInvHolds, PTL
=============================================================================
