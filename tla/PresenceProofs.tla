--------------------------- MODULE PresenceProofs ---------------------------
(***************************************************************************)
(* Theorems about Presence, for any number of sockets, people and tokens.  *)
(***************************************************************************)
EXTENDS Presence, TLAPS

-----------------------------------------------------------------------------
(* Types *)

\* The type of rd.
RoomData == [known : BOOLEAN, host : Sockets \cup {None},
             roles : [Sockets -> Role \cup {None}],
             lobby : 0 .. LobbyLimit, auto : BOOLEAN]

\* Metadata are written typed.
LEMMA MetadataTyped ==
    /\ NoData \in RoomData
    /\ \A h \in Sockets \cup {None}, auto \in BOOLEAN : Metadata(h, auto) \in RoomData
    BY PresenceTyped, SMT DEF NoData, Metadata, NoRoles, RoomData, Role

\* Promotion and the removal of a role keep the metadata's type.
LEMMA ChangesTyped ==
    ASSUME NEW d \in RoomData, NEW s \in Sockets
    PROVE  /\ Promote(d, s) \in RoomData
           /\ DropRole(d, s) \in RoomData
           /\ [d EXCEPT !.host = s] \in RoomData
           /\ \A a \in BOOLEAN : [d EXCEPT !.auto = a] \in RoomData
           /\ \A r \in GivenRoles : [d EXCEPT !.roles[s] = r] \in RoomData
    <1>1. \A r \in Role \cup {None} : [d EXCEPT !.roles[s] = r] \in RoomData
      <2> TAKE r \in Role \cup {None}
      <2>1. [d.roles EXCEPT ![s] = r] \in [Sockets -> Role \cup {None}]  BY DEF RoomData
      <2> QED  BY <2>1 DEF RoomData
    <1>2. \A h \in Sockets : [d EXCEPT !.host = h] \in RoomData  BY DEF RoomData
    <1>3. Promote(d, s) \in RoomData
      <2>1. [d.roles EXCEPT ![s] = "host"] \in [Sockets -> Role \cup {None}]
            BY DEF RoomData, Role
      <2> QED  BY <2>1 DEF RoomData, Promote
    <1>4. \A a \in BOOLEAN : [d EXCEPT !.auto = a] \in RoomData  BY DEF RoomData
    <1> QED  BY <1>1, <1>2, <1>3, <1>4 DEF DropRole, Role

\* So does taking a guest off the lobby counter.
LEMMA LobbyTyped ==
    ASSUME NEW d \in RoomData
    PROVE  /\ d.lobby < LobbyLimit => [d EXCEPT !.lobby = @ + 1] \in RoomData
           /\ d.lobby > 0 => [d EXCEPT !.lobby = @ - 1] \in RoomData
    BY PresenceTyped, SMT DEF RoomData

\* Whoever is live, the host handover yields well-typed metadata.
LEMMA HandOverTyped ==
    ASSUME NEW d \in RoomData, NEW live \in SUBSET Sockets, NEW e \in HandOver(d, live)
    PROVE  e \in RoomData
    <1>1. CASE ~d.known  BY <1>1 DEF HandOver
    <1>2. CASE d.known /\ live = {}  BY <1>2, MetadataTyped DEF HandOver
    <1>3. CASE d.known /\ live # {} /\ d.host \in live  BY <1>3 DEF HandOver
    <1>4. CASE d.known /\ live # {} /\ d.host \notin live
      <2>1. PICK s \in live : e = Promote(d, s)  BY <1>4 DEF HandOver
      <2> QED  BY <2>1, ChangesTyped
    <1> QED  BY <1>1, <1>2, <1>3, <1>4

\* The move of stale entries' host status and role to a live socket too.
LEMMA TransferTyped ==
    ASSUME NEW d \in RoomData, NEW stale \in SUBSET Sockets, NEW s \in Sockets,
           NEW e \in Transfer(d, stale, s)
    PROVE  e \in RoomData
    <1> DEFINE held == {u \in stale : d.roles[u] # None}
               S == IF held = {} THEN {d.roles[s]} ELSE {d.roles[u] : u \in held}
    <1>1. S \subseteq Role \cup {None}  BY DEF RoomData
    <1>2. \A f \in MoveRoles(d, stale, s) : f \in RoomData
      <2> SUFFICES ASSUME NEW f \in MoveRoles(d, stale, s) PROVE f \in RoomData  OBVIOUS
      <2>1. PICK role \in S :
              f = [d EXCEPT !.roles = [u \in Sockets |-> IF u \in stale THEN None
                                            ELSE IF u = s THEN role ELSE d.roles[u]]]
            BY DEF MoveRoles
      <2>2. role \in Role \cup {None}  BY <1>1, <2>1
      <2> HIDE DEF S
      <2> QED  BY <2>1, <2>2 DEF RoomData
    <1>3. PICK f \in MoveRoles(d, stale, s) :
            e = [f EXCEPT !.host = IF @ \in stale THEN s ELSE @]  BY DEF Transfer
    <1>4. f \in RoomData  BY <1>2, <1>3
    <1> QED  BY <1>3, <1>4, SMT DEF RoomData

\* The part of the type invariant about sessions and grace periods.
LEMMA CancelTyped ==
    ASSUME TypeOK, NEW T \in SUBSET Tokens, Cancel(T)
    PROVE  /\ deferred' \in [Tokens -> Sockets \cup {None}]
           /\ grace' \in [Sockets -> Tokens \cup {NoTimer, Unmatched}]
    BY DEF TypeOK, Cancel

\* Removal from the room's list, with the clean-up that follows it.
LEMMA RemoveTyped ==
    ASSUME TypeOK, NEW s \in Sockets, RemoveAndClean(s)
    PROVE  exists' \in BOOLEAN /\ users' \in SUBSET Sockets
    BY DEF TypeOK, RemoveAndClean, Active

\* rd has its type as part of TypeOK, under the name used here.
LEMMA TypeOKRoomData == TypeOK => rd \in RoomData
    BY DEF TypeOK, RoomData


\* TypeOK, under the name RoomData.
Typed ==
    /\ connected \in SUBSET Sockets /\ members \in SUBSET Sockets
    /\ exists \in BOOLEAN /\ users \in SUBSET Sockets
    /\ rd \in RoomData /\ pending \in SUBSET Sockets
    /\ sessions \in [Tokens -> {NoSession} \cup [socket : Sockets, person : People]]
    /\ deferred \in [Tokens -> Sockets \cup {None}]
    /\ grace \in [Sockets -> Tokens \cup {NoTimer, Unmatched}]

\* Typed is TypeOK with the sets of session and metadata records named.
LEMMA TypedIsTypeOK == Typed <=> TypeOK
    BY DEF Typed, TypeOK, RoomData

\* Each action keeps the types.
LEMMA TypeStep ==
    ASSUME TypeOK, [Next]_vars
    PROVE  TypeOK'
    <1> DEFINE Sess == [Tokens -> {NoSession} \cup [socket : Sockets, person : People]]
    <1>a. Typed  BY TypedIsTypeOK
    <1>b. rd \in RoomData  BY <1>a DEF Typed
    <1> USE <1>a, <1>b
    <1>0. SUFFICES Typed'  BY TypedIsTypeOK, PTL
    <1>1. CASE CreateRoom
      <2>1. PICK auto \in BOOLEAN :
              rd' = IF rd.known THEN [rd EXCEPT !.auto = auto] ELSE Metadata(None, auto)
            BY <1>1 DEF CreateRoom
      <2>2. rd' \in RoomData
        <3>1. CASE rd.known  BY <2>1, <3>1, rd \in RoomData DEF RoomData
        <3>2. CASE ~rd.known  BY <2>1, <3>2, MetadataTyped
        <3> QED  BY <3>1, <3>2
      <2> QED  BY <1>1, <2>2 DEF CreateRoom, Typed
    <1>2. CASE RoomEnds  BY <1>2 DEF RoomEnds, Typed
    <1>3. CASE Sweep
      <2>1. rd' \in RoomData  BY <1>3, HandOverTyped DEF Sweep, Typed
      <2> QED  BY <1>3, <2>1 DEF Sweep, Typed, Active
    <1>4. ASSUME NEW s \in Sockets, Connect(s)
          PROVE  Typed'
          BY <1>4 DEF Connect, Typed
    <1>5. ASSUME NEW s \in Sockets, Disconnect(s)
          PROVE  Typed'
          BY <1>5 DEF Disconnect, Typed
    <1>6. ASSUME NEW s \in Sockets, CreateRoomAs(s)
          PROVE  Typed'
          BY <1>6, MetadataTyped DEF CreateRoomAs, Typed
    <1>7. ASSUME NEW s \in Sockets, Knock(s)
          PROVE  Typed'
      <2>1. users' \in SUBSET Sockets  BY <1>7 DEF Knock, Active, Typed
      <2>4. rd.auto \in BOOLEAN  BY DEF RoomData
      <2>2. CASE members = {}
            BY <1>7, <2>1, <2>2, <2>4, MetadataTyped DEF Knock, Typed
      <2>3. CASE members # {}
        <3>1. PICK d \in IF rd.known THEN {rd} ELSE {Metadata(m, FALSE) : m \in members} :
                IF d.auto THEN rd' = d /\ pending' = pending ELSE Wait(d, s)
              BY <1>7, <2>3 DEF Knock
        <3>2. d \in RoomData  BY <3>1, MetadataTyped DEF Typed
        <3>3. CASE d.auto  BY <1>7, <3>1, <3>2, <3>3, <2>1 DEF Knock, Typed
        <3>4. CASE ~d.auto
          <4>1. Wait(d, s)  BY <3>1, <3>4
          <4>2. rd' \in RoomData
                BY <4>1, <3>2, LobbyTyped, HandOverTyped DEF Wait, Typed
          <4>3. pending' \in SUBSET Sockets  BY <4>1 DEF Wait, Typed
          <4> QED  BY <1>7, <4>2, <4>3, <2>1 DEF Knock, Typed
        <3> QED  BY <3>3, <3>4
      <2> QED  BY <2>2, <2>3
    <1>8. ASSUME NEW s \in Sockets, JoinRoom(s)
          PROVE  Typed'
      <2> DEFINE stale == (users \ connected) \cap Same(s)
                 listed == users \cap connected
                 moved == IF rd.known /\ stale # {} THEN Transfer(rd, stale, s) ELSE {rd}
      <2>1. PICK T \in SUBSET Tokens : Cancel(T)  BY <1>8 DEF JoinRoom, DeferredOf
      <2>2. PICK d \in moved :
              IF Refused(s)
              THEN rd' = d /\ users' = listed /\ UNCHANGED <<members, sessions>>
              ELSE /\ users' = listed \cup {s}
                   /\ members' = members \cup {s}
                   /\ \E e \in IF d.known THEN {d} ELSE {Metadata(u, FALSE) : u \in users'} :
                         rd' = IF users' = {s} THEN [e EXCEPT !.host = s] ELSE e
                   /\ \E t \in Fresh :
                         sessions' = [sessions EXCEPT ![t] = [socket |-> s, person |-> Person[s]]]
            BY <1>8 DEF JoinRoom
      <2>3. d \in RoomData
        <3>1. stale \in SUBSET Sockets  BY DEF Typed
        <3> HIDE DEF stale
        <3> QED  BY <2>2, <3>1, TransferTyped
      <2>4. deferred' \in [Tokens -> Sockets \cup {None}]
            /\ grace' \in [Sockets -> Tokens \cup {NoTimer, Unmatched}]
            BY <2>1, CancelTyped
      <2>5. listed \in SUBSET Sockets  BY DEF Typed
      <2> HIDE DEF listed, moved
      <2>6. CASE Refused(s)  BY <1>8, <2>2, <2>3, <2>4, <2>5, <2>6 DEF JoinRoom, Typed
      <2>7. CASE ~Refused(s)
        <3>1. users' \in SUBSET Sockets /\ members' \in SUBSET Sockets
              BY <2>2, <2>5, <2>7 DEF Typed
        <3>2. PICK e \in IF d.known THEN {d} ELSE {Metadata(u, FALSE) : u \in users'} :
                rd' = IF users' = {s} THEN [e EXCEPT !.host = s] ELSE e
              BY <2>2, <2>7
        <3>3. e \in RoomData  BY <2>3, <3>1, <3>2, MetadataTyped
        <3>4. rd' \in RoomData  BY <3>2, <3>3, ChangesTyped
        <3>5. sessions' \in Sess  BY <2>2, <2>7 DEF Typed, People
        <3> QED  BY <1>8, <3>1, <3>4, <3>5, <2>4 DEF JoinRoom, Typed
      <2> QED  BY <2>6, <2>7
    <1>9. ASSUME NEW s \in Sockets, LeaveRoom(s)
          PROVE  Typed'
      <2>1. members' \in SUBSET Sockets  BY <1>9 DEF LeaveRoom, Typed
      <2>2. rd' \in RoomData
        <3>1. DropRole(rd, s) \in RoomData  BY ChangesTyped
        <3> QED  BY <1>9, <2>1, <3>1, HandOverTyped DEF LeaveRoom
      <2>3. exists' \in BOOLEAN /\ users' \in SUBSET Sockets  BY <1>9, RemoveTyped DEF LeaveRoom
      <2> QED  BY <1>9, <2>1, <2>2, <2>3 DEF LeaveRoom, Typed
    <1>10. ASSUME NEW s \in Sockets, GraceEnds(s)
           PROVE  Typed'
      <2>1. DropRole(rd, s) \in RoomData  BY ChangesTyped
      <2>2. rd' \in RoomData  BY <1>10, <2>1, HandOverTyped DEF GraceEnds, Typed
      <2>3. exists' \in BOOLEAN /\ users' \in SUBSET Sockets  BY <1>10, RemoveTyped DEF GraceEnds
      <2> QED  BY <1>10, <2>2, <2>3 DEF GraceEnds, Typed
    <1>11. ASSUME NEW s \in Sockets, ToggleAutoApprove(s)
           PROVE  Typed'
           BY <1>11, ChangesTyped DEF ToggleAutoApprove, Typed
    <1>12. ASSUME NEW s \in Sockets, NEW u \in Sockets, AnswerKnock(s, u)
           PROVE  Typed'
           BY <1>12, LobbyTyped DEF AnswerKnock, Typed
    <1>13. ASSUME NEW s \in Sockets, NEW u \in Sockets, KickUser(s, u)
           PROVE  Typed'
           BY <1>13, ChangesTyped DEF KickUser, Typed
    <1>14. ASSUME NEW s \in Sockets, NEW u \in Sockets, NEW role \in GivenRoles,
                  SetUserRole(s, u, role)
           PROVE  Typed'
           BY <1>14, ChangesTyped DEF SetUserRole, Typed
    <1>15. ASSUME NEW s \in Sockets, NEW t \in Tokens, ResumeSession(s, t)
           PROVE  Typed'
      <2> DEFINE stale == (users \cap Same(s)) \ {s}
                 others == (users \ Same(s)) \cup {s}
                 d == IF rd.known THEN rd ELSE Metadata(s, FALSE)
      <2>1. \E T \in SUBSET Tokens : Cancel(T)
            BY <1>15 DEF ResumeSession, DeferredOf
      <2>2. deferred' \in [Tokens -> Sockets \cup {None}]
            /\ grace' \in [Sockets -> Tokens \cup {NoTimer, Unmatched}]
            BY <2>1, CancelTyped
      <2>3. members' \in SUBSET Sockets  BY <1>15 DEF ResumeSession, Typed
      <2>4. sessions' \in Sess
        <3>1. sessions[t] # NoSession
              BY <1>15, NoneIsNoPerson DEF ResumeSession, NoSession
        <3>2. sessions[t] \in [socket : Sockets, person : People]  BY <3>1 DEF Typed
        <3> QED  BY <1>15, <3>2 DEF ResumeSession, Typed
      <2>5. CASE exists
        <3>1. users' \in SUBSET Sockets  BY <1>15, <2>5 DEF ResumeSession, Typed
        <3>2. PICK e \in Transfer(d, stale, s) :
                rd' = IF others = {s} THEN Promote(e, s) ELSE e
              BY <1>15, <2>5 DEF ResumeSession
        <3>3. d \in RoomData  BY MetadataTyped
        <3>4. stale \in SUBSET Sockets  BY DEF Typed
        <3> HIDE DEF d, stale
        <3>5. e \in RoomData  BY <3>2, <3>3, <3>4, TransferTyped
        <3>6. rd' \in RoomData  BY <3>2, <3>5, ChangesTyped
        <3> QED  BY <1>15, <3>1, <3>6, <2>2, <2>3, <2>4 DEF ResumeSession, Typed
      <2>6. CASE ~exists  BY <1>15, <2>6, <2>2, <2>3, <2>4 DEF ResumeSession, Typed
      <2> QED  BY <2>5, <2>6
    <1>16. ASSUME NEW t \in Tokens, ExpireSession(t)
           PROVE  Typed'
           BY <1>16 DEF ExpireSession, Typed
    <1>17. CASE UNCHANGED vars  BY <1>17 DEF vars, Typed
    <1> QED  BY <1>1, <1>2, <1>3, <1>4, <1>5, <1>6, <1>7, <1>8, <1>9, <1>10, <1>11, <1>12,
                <1>13, <1>14, <1>15, <1>16, <1>17 DEF Next

\* Every state variable always has its type, and the lobby counter stays in
\* its limit (index.js 1342-1562, 1622-1662).
THEOREM PresenceTypeCorrect == Spec => []TypeOK
    <1>1. Init => TypeOK
      <2> SUFFICES ASSUME Init PROVE Typed  BY TypedIsTypeOK
      <2> QED  BY MetadataTyped DEF Init, Typed, NoSession
    <1>2. TypeOK /\ [Next]_vars => TypeOK'  BY TypeStep
    <1> QED  BY <1>1, <1>2, PTL DEF Spec

-----------------------------------------------------------------------------
(* deferredRemovals and the timers *)

\* Why no entry is ever overwritten: the session behind an entry still names
\* the dead socket the entry is about, or is gone; so a later disconnection
\* cannot match its token.
SessionsFollow ==
    \A t \in Tokens : deferred[t] # None =>
        sessions[t] = NoSession \/ sessions[t].socket = deferred[t]

Deferrals == DeferralsRun /\ SessionsFollow

\* Cancelling entries and their timers together keeps the two in step.
LEMMA CancelKeepsDeferrals ==
    ASSUME TypeOK, DeferralsRun, NEW T \in SUBSET Tokens, Cancel(T), connected' = connected
    PROVE  DeferralsRun' /\ \A t \in Tokens : deferred'[t] # None => t \notin T /\ deferred'[t] = deferred[t]
    BY NoneIsNoSocket, TokensAreNoTimers DEF TypeOK, DeferralsRun, Cancel, NoTimer, Unmatched

\* Every action keeps entries and timers in step, given that the sessions of
\* a token follow its entry.
LEMMA DeferralsStep ==
    ASSUME TypeOK, Deferrals, [Next]_vars
    PROVE  Deferrals'
    <1> USE DEF Deferrals
    <1>1. ASSUME NEW s \in Sockets, Disconnect(s)
          PROVE  Deferrals'
      <2> DEFINE bound == {t \in Tokens : sessions[t].socket = s}
      <2>1. grace[s] \notin Tokens  BY <1>1, NoneIsNoSocket DEF Disconnect, DeferralsRun
      <2>2. CASE s \notin members
            BY <1>1, <2>2 DEF Disconnect, DeferralsRun, SessionsFollow
      <2>3. CASE s \in members /\ bound = {}
            BY <1>1, <2>1, <2>3, NoneIsNoSocket, TokensAreNoTimers
            DEF Disconnect, DeferralsRun, SessionsFollow, TypeOK, Unmatched
      <2>4. CASE s \in members /\ bound # {}
        <3>1. PICK t \in bound : /\ grace' = [grace EXCEPT ![s] = t]
                                 /\ deferred' = [deferred EXCEPT ![t] = s]
              BY <1>1, <2>4 DEF Disconnect
        <3>2. connected' = connected \ {s} /\ s \in connected /\ sessions' = sessions
              BY <1>1 DEF Disconnect
        <3>3. sessions[t] # NoSession  BY <3>1, NoneIsNoSocket DEF NoSession
        <3>4. deferred[t] = None  BY <3>1, <3>2, <3>3 DEF DeferralsRun, SessionsFollow
        <3>5. \A u \in Sockets : grace[u] # t
              BY <3>1, <3>4, NoneIsNoSocket DEF DeferralsRun
        <3>6. DeferralsRun'
              BY <2>1, <3>1, <3>2, <3>4, <3>5 DEF DeferralsRun, TypeOK
        <3>7. SessionsFollow'  BY <3>1, <3>2 DEF SessionsFollow, TypeOK
        <3> QED  BY <3>6, <3>7
      <2> QED  BY <2>2, <2>3, <2>4
    <1>2. ASSUME NEW s \in Sockets, GraceEnds(s)
          PROVE  Deferrals'
          BY <1>2, NoneIsNoSocket, TokensAreNoTimers
          DEF GraceEnds, DeferralsRun, SessionsFollow, TypeOK, NoTimer
    <1>3. ASSUME NEW s \in Sockets, NEW k \in Tokens, ResumeSession(s, k)
          PROVE  Deferrals'
      <2>1. PICK T \in SUBSET Tokens : k \in T /\ Cancel(T)
            BY <1>3 DEF ResumeSession, DeferredOf
      <2>2. connected' = connected /\ sessions' = [sessions EXCEPT ![k].socket = s]
            BY <1>3 DEF ResumeSession
      <2>3. DeferralsRun' /\ \A t \in Tokens : deferred'[t] # None => t \notin T /\ deferred'[t] = deferred[t]
            BY <2>1, <2>2, CancelKeepsDeferrals
      <2>4. \A t \in Tokens : t # k => sessions'[t] = sessions[t]  BY <2>2 DEF TypeOK
      <2> QED  BY <2>1, <2>3, <2>4 DEF SessionsFollow
    <1>4. ASSUME NEW s \in Sockets, JoinRoom(s)
          PROVE  Deferrals'
      <2>1. PICK T \in SUBSET Tokens : Cancel(T)  BY <1>4 DEF JoinRoom, DeferredOf
      <2>2. connected' = connected  BY <1>4 DEF JoinRoom
      <2>3. DeferralsRun' /\ \A t \in Tokens : deferred'[t] # None => t \notin T /\ deferred'[t] = deferred[t]
            BY <2>1, <2>2, CancelKeepsDeferrals
      <2>4. CASE sessions' = sessions  BY <2>3, <2>4 DEF SessionsFollow
      <2>5. CASE \E t \in Fresh :
                    sessions' = [sessions EXCEPT ![t] = [socket |-> s, person |-> Person[s]]]
        <3>1. PICK t \in Fresh :
                sessions' = [sessions EXCEPT ![t] = [socket |-> s, person |-> Person[s]]]
              BY <2>5
        <3>2. t \in Tokens /\ deferred[t] = None
              BY <3>1 DEF Fresh, DeferralsRun, TypeOK
        <3>3. \A u \in Tokens : u # t => sessions'[u] = sessions[u]  BY <3>1, <3>2 DEF TypeOK
        <3> QED  BY <2>3, <3>2, <3>3 DEF SessionsFollow
      <2> QED  BY <1>4, <2>4, <2>5 DEF JoinRoom
    <1>5. ASSUME NEW s \in Sockets, LeaveRoom(s)
          PROVE  Deferrals'
          BY <1>5 DEF LeaveRoom, DeferralsRun, SessionsFollow, TypeOK
    <1>6. ASSUME NEW s \in Sockets, Connect(s)
          PROVE  Deferrals'
          BY <1>6 DEF Connect, Forgotten, DeferralsRun, SessionsFollow
    <1>7. ASSUME NEW t \in Tokens, ExpireSession(t)
          PROVE  Deferrals'
          BY <1>7 DEF ExpireSession, DeferralsRun, SessionsFollow, TypeOK
    <1>8. ASSUME UNCHANGED <<connected, sessions, deferred, grace>>
          PROVE  Deferrals'
          BY <1>8 DEF DeferralsRun, SessionsFollow
    <1>9. CASE \/ CreateRoom \/ RoomEnds \/ Sweep \/ UNCHANGED vars
               \/ \E s \in Sockets : CreateRoomAs(s) \/ Knock(s) \/ ToggleAutoApprove(s)
               \/ \E s, u \in Sockets : AnswerKnock(s, u) \/ KickUser(s, u)
               \/ \E s, u \in Sockets, role \in GivenRoles : SetUserRole(s, u, role)
          BY <1>8, <1>9 DEF CreateRoom, RoomEnds, Sweep, vars, CreateRoomAs, Knock,
             ToggleAutoApprove, AnswerKnock, KickUser, SetUserRole
    <1> QED  BY <1>1, <1>2, <1>3, <1>4, <1>5, <1>6, <1>7, <1>9 DEF Next

\* No entry of deferredRemovals is without the timer that ends it, and no
\* matched timer without the entry that can cancel it (index.js 5629-5732 and
\* the cancellations of join-room).
THEOREM DeferralsRunHolds == Spec => []DeferralsRun
    <1>1. Init => Deferrals
          BY TokensAreNoTimers DEF Init, Deferrals, DeferralsRun, SessionsFollow, NoTimer
    <1>2. TypeOK /\ Deferrals /\ [Next]_vars => Deferrals'  BY DeferralsStep
    <1>3. Deferrals => DeferralsRun  BY DEF Deferrals
    <1> QED  BY <1>1, <1>2, <1>3, PresenceTypeCorrect, PTL DEF Spec

-----------------------------------------------------------------------------
(* The list, the adapter room, and persons *)

\* Cleaning the list, and removing a socket from it, only ever shortens it.
LEMMA ListShrinks ==
    ASSUME NEW s \in Sockets, RemoveAndClean(s)
    PROVE  users' \subseteq users \ {s}
    BY DEF RemoveAndClean, Active

\* Every step either admits one socket, of which no other entry of the same
\* person is left, or shortens the list.
LEMMA ListSteps ==
    ASSUME TypeOK, [Next]_vars
    PROVE  \/ users' \subseteq users
           \/ \E s \in connected : /\ users' \subseteq users \cup {s}
                                   /\ users' \cap Same(s) \subseteq {s}
                                   /\ members' = members \cup {s}
                                   /\ connected' = connected
    <1>1. ASSUME NEW s \in Sockets, NEW t \in Tokens, ResumeSession(s, t)
          PROVE  \/ users' \subseteq users
                 \/ /\ users' \subseteq users \cup {s} /\ users' \cap Same(s) \subseteq {s}
                    /\ members' = members \cup {s} /\ connected' = connected /\ s \in connected
          BY <1>1 DEF ResumeSession
    <1>2. ASSUME NEW s \in Sockets, JoinRoom(s)
          PROVE  \/ users' \subseteq users
                 \/ /\ users' \subseteq users \cup {s} /\ users' \cap Same(s) \subseteq {s}
                    /\ members' = members \cup {s} /\ connected' = connected /\ s \in connected
      <2>1. CASE Refused(s)  BY <1>2, <2>1 DEF JoinRoom
      <2>2. CASE ~Refused(s)
        <3>1. users' = (users \cap connected) \cup {s} /\ members' = members \cup {s}
              BY <1>2, <2>2 DEF JoinRoom
        <3> QED  BY <1>2, <2>2, <3>1 DEF JoinRoom, Refused
      <2> QED  BY <2>1, <2>2
    <1>3. ASSUME NEW s \in Sockets, LeaveRoom(s) \/ GraceEnds(s)
          PROVE  users' \subseteq users
          BY <1>3, ListShrinks DEF LeaveRoom, GraceEnds
    <1>4. ASSUME NEW s \in Sockets, Connect(s) \/ Disconnect(s) \/ CreateRoomAs(s) \/ ToggleAutoApprove(s)
          PROVE  users' \subseteq users
          BY <1>4 DEF Connect, Disconnect, CreateRoomAs, ToggleAutoApprove
    <1>5. ASSUME NEW s \in Sockets, Knock(s)
          PROVE  users' \subseteq users
          BY <1>5 DEF Knock, Active
    <1>6. CASE CreateRoom \/ RoomEnds \/ Sweep \/ UNCHANGED vars
          BY <1>6 DEF CreateRoom, RoomEnds, Sweep, vars, Active
    <1>7. ASSUME NEW s \in Sockets, NEW u \in Sockets, AnswerKnock(s, u) \/ KickUser(s, u)
          PROVE  users' \subseteq users
          BY <1>7 DEF AnswerKnock, KickUser
    <1>8. ASSUME NEW s \in Sockets, NEW u \in Sockets, NEW role \in GivenRoles,
                 SetUserRole(s, u, role)
          PROVE  users' \subseteq users
          BY <1>8 DEF SetUserRole
    <1>9. ASSUME NEW t \in Tokens, ExpireSession(t)
          PROVE  users' \subseteq users
          BY <1>9 DEF ExpireSession
    <1> QED  BY <1>1, <1>2, <1>3, <1>4, <1>5, <1>6, <1>7, <1>8, <1>9 DEF Next

\* Reconnections, duplicate tabs, clean-ups and grace periods never leave a
\* person with two entries on the list (index.js 2014-2032, rooms.js 266-297).
THEOREM PersonListedOnceHolds == Spec => []PersonListedOnce
    <1>1. Init => PersonListedOnce  BY DEF Init, PersonListedOnce
    <1>2. TypeOK /\ PersonListedOnce /\ [Next]_vars => PersonListedOnce'
      <2> SUFFICES ASSUME TypeOK, PersonListedOnce, [Next]_vars
                   PROVE  PersonListedOnce'
          OBVIOUS
      <2>1. CASE users' \subseteq users  BY <2>1 DEF PersonListedOnce
      <2>2. ASSUME NEW s \in connected, users' \subseteq users \cup {s},
                   users' \cap Same(s) \subseteq {s}
            PROVE  PersonListedOnce'
            BY <2>2 DEF PersonListedOnce, Same, TypeOK
      <2> QED  BY <2>1, <2>2, ListSteps
    <1> QED  BY <1>1, <1>2, PresenceTypeCorrect, PTL DEF Spec

\* A connected socket on the list is in the adapter room: no handler removes
\* it from one without the other (index.js 1744-1763, 5537-5591, 2014-2032).
THEOREM ListedAreMembersHolds == Spec => []ListedAreMembers
    <1>1. Init => ListedAreMembers  BY DEF Init, ListedAreMembers
    <1>2. TypeOK /\ ListedAreMembers /\ [Next]_vars => ListedAreMembers'
      <2> SUFFICES ASSUME TypeOK, ListedAreMembers, [Next]_vars
                   PROVE  ListedAreMembers'
          OBVIOUS
      <2>1. ASSUME NEW s \in Sockets, LeaveRoom(s)
            PROVE  ListedAreMembers'
            BY <2>1, ListShrinks DEF LeaveRoom, ListedAreMembers
      <2>2. ASSUME NEW s \in Sockets, NEW u \in Sockets, KickUser(s, u)
            PROVE  ListedAreMembers'
            BY <2>2 DEF KickUser, ListedAreMembers
      <2>3. ASSUME NEW s \in Sockets, Disconnect(s)
            PROVE  ListedAreMembers'
            BY <2>3 DEF Disconnect, ListedAreMembers
      <2>4. ASSUME NEW s \in Sockets, Connect(s)
            PROVE  ListedAreMembers'
            BY <2>4 DEF Connect, Forgotten, ListedAreMembers
      <2>5. ASSUME NEW s \in connected, users' \subseteq users \cup {s},
                   members' = members \cup {s}, connected' = connected
            PROVE  ListedAreMembers'
            BY <2>5 DEF ListedAreMembers
      <2>6. ASSUME users' \subseteq users, members' = members, connected' = connected
            PROVE  ListedAreMembers'
            BY <2>6 DEF ListedAreMembers
      <2>7. ASSUME NEW s \in Sockets, NEW t \in Tokens, ResumeSession(s, t)
            PROVE  ListedAreMembers'
            BY <2>7, <2>5 DEF ResumeSession
      <2>8. ASSUME NEW s \in Sockets, JoinRoom(s)
            PROVE  ListedAreMembers'
        <3>1. CASE Refused(s)  BY <2>6, <2>8, <3>1 DEF JoinRoom
        <3>2. CASE ~Refused(s)
          <4>1. users' = (users \cap connected) \cup {s} /\ members' = members \cup {s}
                BY <2>8, <3>2 DEF JoinRoom
          <4> QED  BY <2>5, <2>8, <4>1 DEF JoinRoom
        <3> QED  BY <3>1, <3>2
      <2>9. ASSUME NEW s \in Sockets, GraceEnds(s)
            PROVE  ListedAreMembers'
            BY <2>9, <2>6, ListShrinks DEF GraceEnds
      <2>10. CASE \/ CreateRoom \/ RoomEnds \/ Sweep \/ UNCHANGED vars
                  \/ \E s \in Sockets : CreateRoomAs(s) \/ Knock(s) \/ ToggleAutoApprove(s)
                  \/ \E s, u \in Sockets : AnswerKnock(s, u)
                  \/ \E s, u \in Sockets, role \in GivenRoles : SetUserRole(s, u, role)
                  \/ \E t \in Tokens : ExpireSession(t)
            BY <2>6, <2>10 DEF CreateRoom, RoomEnds, Sweep, vars, CreateRoomAs, Knock, Active,
               ToggleAutoApprove, AnswerKnock, SetUserRole, ExpireSession
      <2> QED  BY <2>1, <2>2, <2>3, <2>4, <2>7, <2>8, <2>9, <2>10 DEF Next
    <1> QED  BY <1>1, <1>2, PresenceTypeCorrect, PTL DEF Spec

-----------------------------------------------------------------------------
(* The host moves on *)

\* What the end of a host's grace period relies on: the adapter room holds
\* connected sockets only, a timer runs for a dead socket only, and a room
\* that is gone lists nobody.
Settled ==
    /\ members \subseteq connected
    /\ \A s \in Sockets : grace[s] # NoTimer => s \notin connected
    /\ ~exists => users = {}

\* Whose timer a returning user can cancel: a session names its person's
\* sockets, so an entry of deferredRemovals under a live session is about a
\* socket of the session's person.
Owned ==
    \A t \in Tokens : sessions[t] # NoSession =>
        /\ sessions[t].person = Person[sessions[t].socket]
        /\ deferred[t] # None => sessions[t].person = Person[deferred[t]]

\* Each action leaves the room settled.
LEMMA SettledStep ==
    ASSUME TypeOK, Settled, [Next]_vars
    PROVE  Settled'
    <1>1. members' \subseteq connected'
      <2>1. ASSUME NEW s \in Sockets, LeaveRoom(s) \/ GraceEnds(s) \/ Connect(s) \/ Disconnect(s)
            PROVE  members' \subseteq connected'
            BY <2>1 DEF LeaveRoom, GraceEnds, Connect, Disconnect, Settled
      <2>2. ASSUME NEW s \in Sockets, JoinRoom(s)
            PROVE  members' \subseteq connected'
            BY <2>2 DEF JoinRoom, Settled
      <2>3. ASSUME NEW s \in Sockets, NEW t \in Tokens, ResumeSession(s, t)
            PROVE  members' \subseteq connected'
            BY <2>3 DEF ResumeSession, Settled
      <2>4. ASSUME NEW s \in Sockets, NEW u \in Sockets, AnswerKnock(s, u) \/ KickUser(s, u)
            PROVE  members' \subseteq connected'
            BY <2>4 DEF AnswerKnock, KickUser, Settled
      <2>5. CASE \/ CreateRoom \/ RoomEnds \/ Sweep \/ UNCHANGED vars
                 \/ \E s \in Sockets : CreateRoomAs(s) \/ Knock(s) \/ ToggleAutoApprove(s)
                 \/ \E s, u \in Sockets, role \in GivenRoles : SetUserRole(s, u, role)
                 \/ \E t \in Tokens : ExpireSession(t)
            BY <2>5 DEF CreateRoom, RoomEnds, Sweep, vars, CreateRoomAs, Knock,
               ToggleAutoApprove, SetUserRole, ExpireSession, Settled
      <2> QED  BY <2>1, <2>2, <2>3, <2>4, <2>5 DEF Next
    <1>2. \A u \in Sockets : grace'[u] # NoTimer => u \notin connected'
      <2>1. ASSUME NEW s \in Sockets, Disconnect(s)
            PROVE  \A u \in Sockets : grace'[u] # NoTimer => u \notin connected'
        <3>1. \A u \in Sockets : u # s => grace'[u] = grace[u]
              BY <2>1 DEF Disconnect, TypeOK
        <3> QED  BY <2>1, <3>1 DEF Disconnect, Settled
      <2>2. ASSUME NEW s \in Sockets, Connect(s)
            PROVE  \A u \in Sockets : grace'[u] # NoTimer => u \notin connected'
            BY <2>2 DEF Connect, Forgotten, Settled
      <2>3. ASSUME NEW T \in SUBSET Tokens, Cancel(T), connected' = connected
            PROVE  \A u \in Sockets : grace'[u] # NoTimer => u \notin connected'
            BY <2>3 DEF Cancel, Settled
      <2>4. ASSUME NEW s \in Sockets, NEW t \in Tokens, ResumeSession(s, t)
            PROVE  \A u \in Sockets : grace'[u] # NoTimer => u \notin connected'
        <3>1. PICK T \in SUBSET Tokens : Cancel(T)  BY <2>4 DEF ResumeSession, DeferredOf
        <3> QED  BY <2>3, <2>4, <3>1 DEF ResumeSession
      <2>5. ASSUME NEW s \in Sockets, JoinRoom(s)
            PROVE  \A u \in Sockets : grace'[u] # NoTimer => u \notin connected'
        <3>1. PICK T \in SUBSET Tokens : Cancel(T)  BY <2>5 DEF JoinRoom, DeferredOf
        <3> QED  BY <2>3, <2>5, <3>1 DEF JoinRoom
      <2>6. ASSUME NEW s \in Sockets, GraceEnds(s)
            PROVE  \A u \in Sockets : grace'[u] # NoTimer => u \notin connected'
        <3>1. \A u \in Sockets : grace'[u] # NoTimer => grace'[u] = grace[u]
              BY <2>6 DEF GraceEnds, TypeOK
        <3> QED  BY <2>6, <3>1 DEF GraceEnds, Settled
      <2>7. ASSUME connected' = connected, grace' = grace
            PROVE  \A u \in Sockets : grace'[u] # NoTimer => u \notin connected'
            BY <2>7 DEF Settled
      <2>8. CASE \/ CreateRoom \/ RoomEnds \/ Sweep \/ UNCHANGED vars
                 \/ \E s \in Sockets : \/ CreateRoomAs(s) \/ Knock(s)
                                       \/ ToggleAutoApprove(s) \/ LeaveRoom(s)
                 \/ \E s, u \in Sockets : AnswerKnock(s, u) \/ KickUser(s, u)
                 \/ \E s, u \in Sockets, role \in GivenRoles : SetUserRole(s, u, role)
                 \/ \E t \in Tokens : ExpireSession(t)
            BY <2>7, <2>8 DEF CreateRoom, RoomEnds, Sweep, vars, CreateRoomAs, Knock,
               ToggleAutoApprove, LeaveRoom, AnswerKnock, KickUser, SetUserRole, ExpireSession
      <2> QED  BY <2>1, <2>2, <2>4, <2>5, <2>6, <2>8 DEF Next
    <1>3. ~exists' => users' = {}
      <2>1. ASSUME NEW s \in Sockets, RemoveAndClean(s)
            PROVE  ~exists' => users' = {}
            BY <2>1 DEF RemoveAndClean, Active, Settled
      <2>2. ASSUME NEW s \in Sockets, LeaveRoom(s) \/ GraceEnds(s)
            PROVE  ~exists' => users' = {}
            BY <2>1, <2>2 DEF LeaveRoom, GraceEnds
      <2>3. ASSUME NEW s \in Sockets, Knock(s) \/ JoinRoom(s)
            PROVE  ~exists' => users' = {}
        <3>1. CASE Knock(s)  BY <3>1 DEF Knock, Active, Settled
        <3>2. CASE JoinRoom(s)  BY <3>2 DEF JoinRoom
        <3> QED  BY <2>3, <3>1, <3>2
      <2>4. ASSUME NEW s \in Sockets, NEW t \in Tokens, ResumeSession(s, t)
            PROVE  ~exists' => users' = {}
            BY <2>4 DEF ResumeSession, Settled
      <2>5. ASSUME NEW s \in Sockets, NEW u \in Sockets, KickUser(s, u)
            PROVE  ~exists' => users' = {}
            BY <2>5 DEF KickUser, Settled
      <2>6. CASE CreateRoom \/ RoomEnds \/ Sweep \/ \E s \in Sockets : CreateRoomAs(s)
            BY <2>6 DEF CreateRoom, RoomEnds, Sweep, CreateRoomAs, Settled
      <2>7. ASSUME exists' = exists, users' = users
            PROVE  ~exists' => users' = {}
            BY <2>7 DEF Settled
      <2>8. CASE \/ UNCHANGED vars
                 \/ \E s \in Sockets : Connect(s) \/ Disconnect(s) \/ ToggleAutoApprove(s)
                 \/ \E s, u \in Sockets : AnswerKnock(s, u)
                 \/ \E s, u \in Sockets, role \in GivenRoles : SetUserRole(s, u, role)
                 \/ \E t \in Tokens : ExpireSession(t)
            BY <2>7, <2>8 DEF vars, Connect, Disconnect, ToggleAutoApprove, AnswerKnock,
               SetUserRole, ExpireSession
      <2> QED  BY <2>2, <2>3, <2>4, <2>5, <2>6, <2>8 DEF Next
    <1> QED  BY <1>1, <1>2, <1>3 DEF Settled

\* Each action leaves sessions and entries with their person.
LEMMA OwnedStep ==
    ASSUME TypeOK, DeferralsRun, Owned, [Next]_vars
    PROVE  Owned'
    <1>1. ASSUME NEW s \in Sockets, Disconnect(s)
          PROVE  Owned'
      <2>1. sessions' = sessions  BY <1>1 DEF Disconnect
      <2>2. \A t \in Tokens : deferred'[t] = deferred[t] \/ (deferred'[t] = s /\ sessions[t].socket = s)
            BY <1>1 DEF Disconnect, TypeOK
      <2> QED  BY <2>1, <2>2 DEF Owned
    <1>2. ASSUME NEW s \in Sockets, NEW k \in Tokens, ResumeSession(s, k)
          PROVE  Owned'
      <2>1. PICK T \in SUBSET Tokens : k \in T /\ Cancel(T)
            BY <1>2 DEF ResumeSession, DeferredOf
      <2>2. sessions[k] \in [socket : Sockets, person : People]
            BY <1>2, NoneIsNoPerson DEF ResumeSession, NoSession, TypeOK
      <2>3. sessions'[k].socket = s /\ sessions'[k].person = Person[s]
            BY <1>2, <2>2 DEF ResumeSession, TypeOK
      <2>4. \A t \in Tokens : t # k => sessions'[t] = sessions[t]
            BY <1>2 DEF ResumeSession, TypeOK
      <2>5. deferred'[k] = None /\ \A t \in Tokens : deferred'[t] # None => deferred'[t] = deferred[t]
            BY <2>1 DEF Cancel
      <2> QED  BY <2>3, <2>4, <2>5 DEF Owned
    <1>3. ASSUME NEW s \in Sockets, JoinRoom(s)
          PROVE  Owned'
      <2>1. PICK T \in SUBSET Tokens : Cancel(T)  BY <1>3 DEF JoinRoom, DeferredOf
      <2>2. \A t \in Tokens : deferred'[t] # None => deferred'[t] = deferred[t]
            BY <2>1 DEF Cancel
      <2>3. CASE sessions' = sessions  BY <2>2, <2>3 DEF Owned
      <2>4. CASE \E t \in Fresh :
                    sessions' = [sessions EXCEPT ![t] = [socket |-> s, person |-> Person[s]]]
        <3>1. PICK t \in Fresh :
                sessions' = [sessions EXCEPT ![t] = [socket |-> s, person |-> Person[s]]]
              BY <2>4
        <3>2. t \in Tokens /\ deferred[t] = None
              BY <3>1 DEF Fresh, DeferralsRun, TypeOK
        <3>3. sessions'[t].socket = s /\ sessions'[t].person = Person[s]
              BY <3>1, <3>2 DEF TypeOK
        <3>4. \A k \in Tokens : k # t => sessions'[k] = sessions[k]
              BY <3>1, <3>2 DEF TypeOK
        <3> QED  BY <2>2, <3>2, <3>3, <3>4 DEF Owned
      <2> QED  BY <1>3, <2>3, <2>4 DEF JoinRoom
    <1>4. ASSUME \A t \in Tokens : sessions'[t] = sessions[t] \/ sessions'[t] = NoSession,
                 \A t \in Tokens : deferred'[t] = deferred[t] \/ deferred'[t] = None
          PROVE  Owned'
          BY <1>4 DEF Owned
    <1>5. ASSUME NEW s \in Sockets, LeaveRoom(s)
          PROVE  Owned'
          BY <1>4, <1>5 DEF LeaveRoom, TypeOK
    <1>6. ASSUME NEW s \in Sockets, GraceEnds(s)
          PROVE  Owned'
          BY <1>4, <1>6 DEF GraceEnds, TypeOK
    <1>7. ASSUME NEW t \in Tokens, ExpireSession(t)
          PROVE  Owned'
          BY <1>4, <1>7 DEF ExpireSession, TypeOK
    <1>8. ASSUME sessions' = sessions, deferred' = deferred
          PROVE  Owned'
          BY <1>8 DEF Owned
    <1>9. CASE \/ CreateRoom \/ RoomEnds \/ Sweep \/ UNCHANGED vars
               \/ \E s \in Sockets : \/ Connect(s) \/ CreateRoomAs(s) \/ Knock(s)
                                     \/ ToggleAutoApprove(s)
               \/ \E s, u \in Sockets : AnswerKnock(s, u) \/ KickUser(s, u)
               \/ \E s, u \in Sockets, role \in GivenRoles : SetUserRole(s, u, role)
          BY <1>8, <1>9 DEF CreateRoom, RoomEnds, Sweep, vars, Connect, CreateRoomAs, Knock,
             ToggleAutoApprove, AnswerKnock, KickUser, SetUserRole
    <1> QED  BY <1>1, <1>2, <1>3, <1>5, <1>6, <1>7, <1>9 DEF Next

\* A host among the stale entries is replaced by the socket they moved to.
LEMMA TransferMovesHost ==
    ASSUME NEW d \in RoomData, NEW stale \in SUBSET Sockets, NEW s \in Sockets,
           d.host \in stale \cup {s}, NEW e \in Transfer(d, stale, s)
    PROVE  e \in RoomData /\ e.host = s
    <1>1. PICK f \in MoveRoles(d, stale, s) : e = [f EXCEPT !.host = IF @ \in stale THEN s ELSE @]
          BY DEF Transfer
    <1>2. f.host = d.host /\ f \in RoomData
          BY <1>1 DEF MoveRoles, RoomData
    <1> QED  BY <1>1, <1>2 DEF RoomData

\* What HostMovesOn says of one step and one socket.
MovesOn(s) ==
    rd.host = s /\ grace[s] # NoTimer /\ grace'[s] = NoTimer /\ rd'.known
        => rd'.host \in connected'

\* While a host's dead socket is listed, both ends of its grace period, by the
\* timer (index.js 5629-5732) and by the person's return (2014-2032 and the
\* session branch before it), leave a room with metadata a connected host.
THEOREM HostMovesOnHolds == Spec => HostMovesOn
    <1>1. Init => Settled /\ Owned
          BY NoneIsNoSocket DEF Init, Settled, Owned
    <1>2. TypeOK /\ DeferralsRun /\ Settled /\ Owned /\ [Next]_vars => Settled' /\ Owned'
          BY SettledStep, OwnedStep
    <1>3. TypeOK /\ DeferralsRun /\ Settled /\ Owned /\ [Next]_vars
            => [\A s \in users :
                   rd.host = s /\ grace[s] # NoTimer /\ grace'[s] = NoTimer /\ rd'.known
                      => rd'.host \in connected']_vars
      <2> SUFFICES ASSUME TypeOK, DeferralsRun, Settled, Owned, Next, NEW s \in users
                   PROVE  MovesOn(s)
          BY DEF MovesOn
      <2>0. s \in Sockets /\ rd \in RoomData  BY TypeOKRoomData DEF TypeOK
      <2>1. ASSUME NEW u \in Sockets, GraceEnds(u)
            PROVE  MovesOn(s)
        <3>1. CASE u # s  BY <2>0, <2>1, <3>1 DEF GraceEnds, TypeOK, MovesOn
        <3>2. CASE u = s /\ rd.host = s
          <4>1. DropRole(rd, s) \in RoomData /\ DropRole(rd, s).host = s
                BY <2>0, <3>2, ChangesTyped DEF DropRole, RoomData
          <4>2. rd' \in HandOver(DropRole(rd, s), members) /\ connected' = connected
                BY <2>1, <3>2 DEF GraceEnds
          <4>3. s \notin members /\ members \subseteq connected
                BY <2>0, <2>1, <3>2 DEF GraceEnds, Settled
          <4>4. CASE rd' = DropRole(rd, s) /\ ~DropRole(rd, s).known  BY <4>4 DEF MovesOn
          <4>5. CASE rd' = NoData  BY <4>5 DEF NoData, MovesOn
          <4>6. ASSUME NEW m \in members, rd' = Promote(DropRole(rd, s), m)
                PROVE  MovesOn(s)
                BY <4>1, <4>2, <4>3, <4>6 DEF Promote, RoomData, MovesOn
          <4> QED  BY <4>1, <4>2, <4>3, <4>4, <4>5, <4>6 DEF HandOver
        <3> QED  BY <3>1, <3>2 DEF MovesOn
      <2>2. ASSUME NEW u \in Sockets, JoinRoom(u)
            PROVE  MovesOn(s)
        <3> DEFINE stale == (users \ connected) \cap Same(u)
                   moved == IF rd.known /\ stale # {} THEN Transfer(rd, stale, u) ELSE {rd}
        <3>1. /\ u \in connected /\ connected' = connected
              /\ Cancel(IF rd.known THEN DeferredOf(stale) ELSE {})
              BY <2>2 DEF JoinRoom
        <3>2. SUFFICES ASSUME rd.host = s, grace[s] # NoTimer, grace'[s] = NoTimer
                       PROVE  rd'.host \in connected'
              BY DEF MovesOn
        <3>3. rd.known /\ s \in stale
              BY <2>0, <3>1, <3>2 DEF Cancel, DeferredOf
        <3>4. PICK d \in moved :
                 \/ rd' = d
                 \/ \E e \in IF d.known THEN {d} ELSE {Metadata(v, FALSE) : v \in users'} :
                       rd' = IF users' = {u} THEN [e EXCEPT !.host = u] ELSE e
              BY <2>2 DEF JoinRoom
        <3>5. d \in Transfer(rd, stale, u)  BY <3>3, <3>4
        <3>6. d \in RoomData /\ d.host = u
          <4>1. stale \in SUBSET Sockets  BY DEF Same
          <4>2. rd.host \in stale \cup {u}  BY <3>2, <3>3
          <4> HIDE DEF stale
          <4> QED  BY <2>0, <3>5, <4>1, <4>2, TransferMovesHost
        <3>7. d.known = rd.known  BY <2>0, <3>5 DEF Transfer, MoveRoles, RoomData
        <3> QED  BY <3>1, <3>3, <3>4, <3>6, <3>7 DEF RoomData
      <2>3. ASSUME NEW u \in Sockets, NEW k \in Tokens, ResumeSession(u, k)
            PROVE  MovesOn(s)
        <3> DEFINE stale == (users \cap Same(u)) \ {u}
                   others == (users \ Same(u)) \cup {u}
                   mine == {t \in Tokens : t = k \/ sessions[t].person = Person[u]}
                   d == IF rd.known THEN rd ELSE Metadata(u, FALSE)
        <3>1. /\ u \in connected /\ connected' = connected /\ exists
              /\ sessions[k].person = Person[u]
              BY <2>0, <2>3 DEF ResumeSession, Settled
        <3>2. Cancel(mine \cup DeferredOf(stale))  BY <2>3, <3>1 DEF ResumeSession
        <3>3. SUFFICES ASSUME rd.host = s, grace[s] # NoTimer, grace'[s] = NoTimer
                       PROVE  rd'.host \in connected'
              BY DEF MovesOn
        <3>4. PICK t \in mine \cup DeferredOf(stale) : deferred[t] = s
              BY <2>0, <3>2, <3>3 DEF Cancel
        <3>5. s \in stale
          <4>1. CASE t \in DeferredOf(stale)  BY <3>4, <4>1 DEF DeferredOf
          <4>2. CASE t \in mine
            <5>1. sessions[t].person = Person[u] /\ sessions[t] # NoSession
                  BY <3>1, <4>2, NoneIsNoPerson DEF NoSession
            <5>2. Person[s] = Person[u]
                  BY <2>0, <3>4, <4>2, <5>1, NoneIsNoSocket DEF Owned
            <5> QED  BY <2>0, <3>1, <3>3, <5>2 DEF Same, Settled
          <4> QED  BY <3>4, <4>1, <4>2
        <3>6. d \in RoomData /\ d.host \in stale \cup {u}
              BY <2>0, <3>3, <3>5, MetadataTyped DEF Metadata
        <3>7. PICK e \in Transfer(d, stale, u) : rd' = IF others = {u} THEN Promote(e, u) ELSE e
              BY <2>3, <3>1 DEF ResumeSession
        <3>8. e \in RoomData /\ e.host = u
          <4>1. stale \in SUBSET Sockets  BY DEF Same
          <4> HIDE DEF stale, d
          <4> QED  BY <3>6, <3>7, <4>1, TransferMovesHost
        <3> QED  BY <3>1, <3>7, <3>8 DEF Promote, RoomData
      <2>4. ASSUME NEW u \in Sockets, Disconnect(u)
            PROVE  MovesOn(s)
        <3>1. grace'[u] # NoTimer \/ grace' = grace
              BY <2>4, TokensAreNoTimers DEF Disconnect, TypeOK, NoTimer, Unmatched
        <3>2. \A v \in Sockets : v # u => grace'[v] = grace[v]
              BY <2>4 DEF Disconnect, TypeOK
        <3> QED  BY <2>0, <3>1, <3>2 DEF MovesOn
      <2>5. ASSUME grace' = grace
            PROVE  MovesOn(s)
            BY <2>5 DEF MovesOn
      <2>6. CASE \/ CreateRoom \/ RoomEnds \/ Sweep
                 \/ \E u \in Sockets : \/ Connect(u) \/ CreateRoomAs(u) \/ Knock(u)
                                       \/ ToggleAutoApprove(u) \/ LeaveRoom(u)
                 \/ \E u, v \in Sockets : AnswerKnock(u, v) \/ KickUser(u, v)
                 \/ \E u, v \in Sockets, role \in GivenRoles : SetUserRole(u, v, role)
                 \/ \E t \in Tokens : ExpireSession(t)
            BY <2>5, <2>6 DEF CreateRoom, RoomEnds, Sweep, Connect, CreateRoomAs, Knock,
               ToggleAutoApprove, LeaveRoom, AnswerKnock, KickUser, SetUserRole, ExpireSession
      <2> QED  BY <2>1, <2>2, <2>3, <2>4, <2>6 DEF Next
    <1> QED  BY <1>1, <1>2, <1>3, PresenceTypeCorrect, DeferralsRunHolds, PTL DEF Spec, HostMovesOn

=============================================================================
