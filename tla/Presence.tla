------------------------------ MODULE Presence ------------------------------
(***************************************************************************)
(* Who is in a room, and in which role: the Socket.IO handlers of          *)
(* server/index.js that admit, remove, promote and remember users, for one *)
(* room without a password (so that every handler runs to its end before   *)
(* the next one: their awaits queue microtasks only).                      *)
(*                                                                         *)
(* The same user is known in four places that the handlers keep in step by *)
(* hand: the Socket.IO adapter (members), the room object's list (users),  *)
(* the room's metadata (rd, index.js's roomData) and the sessions with     *)
(* their grace-period timers.  A person who reconnects gets a new socket   *)
(* id, and all four must follow.                                           *)
(***************************************************************************)
EXTENDS Naturals, FiniteSets

CONSTANTS
    Sockets,     \* socket ids (one is reused only once everybody forgot it)
    Person,      \* the person (nickname and userId) behind each socket
    Tokens,      \* session tokens
    GivenRoles,  \* the roles set-user-role hands out
    LobbyLimit,  \* roomData.lobbyLimit
    MaxUsers,    \* settings.maxUsers
    AllowEmpty,  \* the persistence mode keeps an empty room
    None

ASSUME NoneIsNoSocket == None \notin Sockets
ASSUME NoneIsNoPerson == \A s \in Sockets : Person[s] # None
ASSUME TokensAreNoTimers == None \notin Tokens /\ {"none", "unmatched"} \cap Tokens = {}
ASSUME PresenceTyped ==
    /\ GivenRoles \subseteq {"tier1", "tier2", "user"}
    /\ LobbyLimit \in Nat /\ MaxUsers \in Nat /\ AllowEmpty \in BOOLEAN

VARIABLES
    connected,  \* io.sockets.sockets
    members,    \* sockets of the adapter room: those whose roomCode is set
    exists,     \* the room object is registered
    users,      \* socket ids in room.users
    rd,         \* roomData of the room
    pending,    \* pendingKnocks of the room
    sessions,   \* sessionTokens: the socket and person of each token
    deferred,   \* deferredRemovals: the socket each token's entry is about
    grace       \* running grace-period timers, with the token each matched

vars == <<connected, members, exists, users, rd, pending, sessions, deferred, grace>>

Role == GivenRoles \cup {"host"}
Same(s) == {u \in Sockets : Person[u] = Person[s]}
People == {Person[s] : s \in Sockets}

NoTimer   == "none"
Unmatched == "unmatched"
NoSession == [socket |-> None, person |-> None]
NoRoles   == [s \in Sockets |-> None]
NoData    == [known |-> FALSE, host |-> None, roles |-> NoRoles, lobby |-> 0, auto |-> FALSE]

Metadata(host, auto) ==
    [known |-> TRUE, host |-> host, roles |-> NoRoles, lobby |-> 0, auto |-> auto]

\* The state variables have their types, and the lobby never exceeds its limit.
TypeOK ==
    /\ connected \in SUBSET Sockets
    /\ members   \in SUBSET Sockets
    /\ exists    \in BOOLEAN
    /\ users     \in SUBSET Sockets
    /\ rd        \in [known : BOOLEAN, host : Sockets \cup {None},
                      roles : [Sockets -> Role \cup {None}],
                      lobby : 0 .. LobbyLimit, auto : BOOLEAN]
    /\ pending   \in SUBSET Sockets
    /\ sessions  \in [Tokens -> {NoSession} \cup [socket : Sockets, person : People]]
    /\ deferred  \in [Tokens -> Sockets \cup {None}]
    /\ grace     \in [Sockets -> Tokens \cup {NoTimer, Unmatched}]

Init ==
    /\ connected = {} /\ members = {} /\ exists = FALSE /\ users = {}
    /\ rd = NoData /\ pending = {}
    /\ sessions = [t \in Tokens |-> NoSession]
    /\ deferred = [t \in Tokens |-> None]
    /\ grace = [s \in Sockets |-> NoTimer]

-----------------------------------------------------------------------------
(* Roles and the host *)

Effective(d, s) ==
    IF d.roles[s] # None THEN d.roles[s] ELSE IF d.host = s THEN "host" ELSE "user"

Manages(s) == s \in connected /\ rd.known /\ Effective(rd, s) \in {"host", "tier1"}

Promote(d, s)  == [d EXCEPT !.host = s, !.roles[s] = "host"]
DropRole(d, s) == [d EXCEPT !.roles[s] = None]

\* The host handover every departure makes: with nobody live the metadata go,
\* and a host who is not live is replaced by a live member (the first of the
\* adapter's set; here any).
HandOver(d, live) ==
    IF ~d.known THEN {d}
    ELSE IF live = {} THEN {NoData}
    ELSE IF d.host \in live THEN {d}
    ELSE {Promote(d, s) : s \in live}

\* The stale entries' host status and roles move to s.
MoveRoles(d, stale, s) ==
    LET held == {u \in stale : d.roles[u] # None} IN
    {[d EXCEPT !.roles = [u \in Sockets |-> IF u \in stale THEN None
                                            ELSE IF u = s THEN role ELSE d.roles[u]]] :
        role \in IF held = {} THEN {d.roles[s]} ELSE {d.roles[u] : u \in held}}

\* (mutation: the host does not move along with the role)
TransferRolesOnly(d, stale, s) == MoveRoles(d, stale, s)

Transfer(d, stale, s) ==
    {[e EXCEPT !.host = IF @ \in stale THEN s ELSE @] : e \in MoveRoles(d, stale, s)}

-----------------------------------------------------------------------------
(* The grace period *)

\* (mutation: the entry is deleted but its timer keeps running)
CancelEntryOnly(T) ==
    /\ deferred' = [t \in Tokens |-> IF t \in T THEN None ELSE deferred[t]]
    /\ grace' = grace

\* clearTimeout and deferredRemovals.delete of the entries of T.
Cancel(T) ==
    /\ deferred' = [t \in Tokens |-> IF t \in T THEN None ELSE deferred[t]]
    /\ grace' = [s \in Sockets |-> IF \E t \in T : deferred[t] = s THEN NoTimer ELSE grace[s]]

DeferredOf(S) == {t \in Tokens : deferred[t] \in S}

\* The clean-up of room.users that four handlers make, given what deferred
\* is about to be: connected users stay, and those inside their grace period.
Active(list) == list \cap (connected' \cup {deferred'[t] : t \in Tokens})

\* RoomManager.leaveRoom, then the clean-up of the rest.
RemoveAndClean(s) ==
    LET rest == users \ {s} IN
    IF exists /\ rest = {} /\ ~AllowEmpty
    THEN exists' = FALSE /\ users' = {}
    ELSE exists' = exists /\ users' = Active(rest)

-----------------------------------------------------------------------------
(* The room comes and goes (RoomManager) *)

\* POST /api/rooms keeps the metadata an earlier room of this code left.
CreateRoom ==
    /\ ~exists
    /\ exists' = TRUE
    /\ \E auto \in BOOLEAN :
          rd' = IF rd.known THEN [rd EXCEPT !.auto = auto] ELSE Metadata(None, auto)
    /\ UNCHANGED <<connected, members, users, pending, sessions, deferred, grace>>

\* create-room: the creator's socket is the host before it joins.
CreateRoomAs(s) ==
    /\ ~exists
    /\ s \in connected
    /\ exists' = TRUE
    /\ rd' = Metadata(s, FALSE)
    /\ UNCHANGED <<connected, members, users, pending, sessions, deferred, grace>>

\* The room expires, or its creator deletes it: roomData is not touched.
RoomEnds ==
    /\ exists
    /\ exists' = FALSE /\ users' = {}
    /\ UNCHANGED <<connected, members, rd, pending, sessions, deferred, grace>>

-----------------------------------------------------------------------------
(* knock, approve-guest, deny-guest *)

\* What happens to the metadata d of a room somebody is in when s knocks.
\* (mutation: the lobby limit is compared with >)
WaitOneMore(d, s) ==
    \/ d.lobby > LobbyLimit /\ rd' = d /\ pending' = pending
    \/ d.lobby <= LobbyLimit /\ pending' = pending \cup {s}
       /\ \/ d.host \in members /\ rd' = [d EXCEPT !.lobby = @ + 1]
          \/ d.host \notin members /\ rd' \in HandOver(d, members)

Wait(d, s) ==
    \/ d.lobby >= LobbyLimit /\ rd' = d /\ pending' = pending
    \/ /\ d.lobby < LobbyLimit
       /\ pending' = pending \cup {s}
       /\ \/ d.host \in members /\ rd' = [d EXCEPT !.lobby = @ + 1]
          \/ d.host \notin members /\ rd' \in HandOver(d, members)

\* Nobody is in: the knocker becomes the host.  Otherwise the room either
\* approves by itself or has the knocker wait.
Knock(s) ==
    /\ s \in connected \ members
    /\ UNCHANGED <<connected, members, exists, sessions, deferred, grace>>
    /\ users' = Active(users)
    /\ IF members = {}
       THEN rd' = Metadata(s, rd.auto) /\ pending' = pending
       ELSE \E d \in IF rd.known THEN {rd} ELSE {Metadata(m, FALSE) : m \in members} :
                IF d.auto THEN rd' = d /\ pending' = pending ELSE Wait(d, s)

\* Approval and denial differ in the message the guest gets.
AnswerKnock(a, g) ==
    /\ Manages(a)
    /\ g \in pending
    /\ pending' = pending \ {g}
    /\ rd' = IF g \in connected /\ rd.lobby > 0 THEN [rd EXCEPT !.lobby = @ - 1] ELSE rd
    /\ UNCHANGED <<connected, members, exists, users, sessions, deferred, grace>>

ToggleAutoApprove(a) ==
    /\ Manages(a)
    /\ \E auto \in BOOLEAN : rd' = [rd EXCEPT !.auto = auto]
    /\ UNCHANGED <<connected, members, exists, users, pending, sessions, deferred, grace>>

-----------------------------------------------------------------------------
(* set-user-role, kick-user *)

SetUserRole(h, u, role) ==
    /\ h \in connected /\ rd.known /\ rd.host = h
    /\ u \in members \ {h}
    /\ rd' = [rd EXCEPT !.roles[u] = role]
    /\ UNCHANGED <<connected, members, exists, users, pending, sessions, deferred, grace>>

CanKick(k, u) ==
    \/ Effective(rd, k) = "host" /\ u # k
    \/ Effective(rd, k) = "tier1" /\ Effective(rd, u) \in {"tier2", "user"}

\* (mutation: kick-user forgets the room's user list)
KickUserKeepListed(k, u) ==
    /\ k \in connected /\ rd.known /\ CanKick(k, u)
    /\ u \in connected
    /\ members' = members \ {u}
    /\ rd' = DropRole(rd, u)
    /\ UNCHANGED <<connected, exists, users, pending, sessions, deferred, grace>>

\* The target need only be connected: it may have left, or not have entered
\* yet.  The session of a kicked user is not invalidated.
KickUser(k, u) ==
    LET rest == users \ {u} IN
    /\ k \in connected /\ rd.known /\ CanKick(k, u)
    /\ u \in connected
    /\ members' = members \ {u}
    /\ users' = rest
    /\ exists' = (exists /\ (rest # {} \/ AllowEmpty))
    /\ rd' = DropRole(rd, u)
    /\ UNCHANGED <<connected, pending, sessions, deferred, grace>>

-----------------------------------------------------------------------------
(* join-room *)

\* With a session token.  Every deferral of the person is cancelled: this
\* token's, those of the person's other sessions, those of the entries the
\* new socket replaces.  If the room is gone the socket still enters the
\* adapter room; the standard join that follows then fails.
ResumeSession(s, t) ==
    LET stale == (users \cap Same(s)) \ {s}
        others == (users \ Same(s)) \cup {s}
        mine == {k \in Tokens : k = t \/ sessions[k].person = Person[s]}
        d == IF rd.known THEN rd ELSE Metadata(s, FALSE)
    IN
    /\ s \in connected
    /\ sessions[t].person = Person[s]
    /\ sessions' = [sessions EXCEPT ![t].socket = s]
    /\ members' = members \cup {s}
    /\ IF exists
       THEN /\ Cancel(mine \cup DeferredOf(stale))
            /\ users' = others
            /\ \E e \in Transfer(d, stale, s) :
                  rd' = IF others = {s} THEN Promote(e, s) ELSE e
       ELSE Cancel(mine) /\ UNCHANGED <<users, rd>>
    /\ UNCHANGED <<connected, exists, pending>>

\* A new session's token is one nothing mentions any more.
Fresh == {t \in Tokens : sessions[t] = NoSession /\ \A s \in Sockets : grace[s] # t}

\* Without one: roles follow from disconnected entries of the same person,
\* then joinRoom cuts the list down to connected sockets and checks.
\* (mutation: any nickname is free)
RefusedFull(s) == s \notin users /\ Cardinality(users \cap connected) >= MaxUsers

Refused(s) ==
    \/ \E u \in users \cap connected : u # s /\ u \in Same(s)
    \/ s \notin users /\ Cardinality(users \cap connected) >= MaxUsers

JoinRoom(s) ==
    LET stale == (users \ connected) \cap Same(s)
        listed == users \cap connected
        moved == IF rd.known /\ stale # {} THEN Transfer(rd, stale, s) ELSE {rd}
    IN
    /\ s \in connected
    /\ exists
    /\ Cancel(IF rd.known THEN DeferredOf(stale) ELSE {})
    /\ \E d \in moved :
         IF Refused(s)
         THEN rd' = d /\ users' = listed /\ UNCHANGED <<members, sessions>>
         ELSE /\ users' = listed \cup {s}
              /\ members' = members \cup {s}
              /\ \E e \in IF d.known THEN {d} ELSE {Metadata(u, FALSE) : u \in users'} :
                    rd' = IF users' = {s} THEN [e EXCEPT !.host = s] ELSE e
              /\ \E t \in Fresh :
                    sessions' = [sessions EXCEPT ![t] = [socket |-> s, person |-> Person[s]]]
    /\ UNCHANGED <<connected, exists, pending>>

-----------------------------------------------------------------------------
(* leave-room, disconnect, and the grace period *)

LeaveRoom(s) ==
    /\ s \in members
    /\ members' = members \ {s}
    /\ rd' \in HandOver(DropRole(rd, s), members')
    /\ sessions' = [t \in Tokens |-> IF sessions[t].socket = s THEN NoSession ELSE sessions[t]]
    /\ UNCHANGED <<connected, pending, deferred, grace>>
    /\ RemoveAndClean(s)

\* (mutation: an entry is kept for the socket, but no timer started)
DisconnectNoTimer(s) ==
    LET bound == {t \in Tokens : sessions[t].socket = s} IN
    /\ s \in connected
    /\ connected' = connected \ {s}
    /\ members' = members \ {s}
    /\ pending' = IF s \in members THEN pending \ {s} ELSE pending
    /\ IF s \notin members \/ bound = {}
       THEN deferred' = deferred
       ELSE \E t \in bound : deferred' = [deferred EXCEPT ![t] = s]
    /\ UNCHANGED <<exists, users, rd, sessions, grace>>

\* Only a socket that is in a room is looked for in the lobby, and starts a
\* grace period; the first session bound to it (here any) can cancel it.
Disconnect(s) ==
    LET bound == {t \in Tokens : sessions[t].socket = s} IN
    /\ s \in connected
    /\ connected' = connected \ {s}
    /\ members' = members \ {s}
    /\ IF s \notin members
       THEN UNCHANGED <<pending, deferred, grace>>
       ELSE /\ pending' = pending \ {s}
            /\ IF bound = {}
               THEN grace' = [grace EXCEPT ![s] = Unmatched] /\ deferred' = deferred
               ELSE \E t \in bound : /\ grace' = [grace EXCEPT ![s] = t]
                                     /\ deferred' = [deferred EXCEPT ![t] = s]
    /\ UNCHANGED <<exists, users, rd, sessions>>

GraceEnds(s) ==
    /\ grace[s] # NoTimer
    /\ grace' = [grace EXCEPT ![s] = NoTimer]
    /\ deferred' = [t \in Tokens |-> IF t = grace[s] THEN None ELSE deferred[t]]
    /\ rd' \in HandOver(DropRole(rd, s), members)
    /\ UNCHANGED <<connected, members, pending, sessions>>
    /\ RemoveAndClean(s)

\* The 30 s sweep of the user list; it looks at the host only if the list
\* changes.
Sweep ==
    /\ UNCHANGED <<connected, members, exists, pending, sessions, deferred, grace>>
    /\ exists
    /\ Active(users) # users
    /\ users' = Active(users)
    /\ rd' \in HandOver(rd, members)

-----------------------------------------------------------------------------
(* The environment *)

Forgotten(s) ==
    /\ s \notin connected \cup users \cup pending
    /\ rd.host # s /\ rd.roles[s] = None
    /\ grace[s] = NoTimer
    /\ \A t \in Tokens : sessions[t].socket # s /\ deferred[t] # s

Connect(s) ==
    /\ Forgotten(s)
    /\ connected' = connected \cup {s}
    /\ UNCHANGED <<members, exists, users, rd, pending, sessions, deferred, grace>>

\* SecurityManager.cleanup, a day after the session's creation.
ExpireSession(t) ==
    /\ sessions[t] # NoSession
    /\ sessions' = [sessions EXCEPT ![t] = NoSession]
    /\ UNCHANGED <<connected, members, exists, users, rd, pending, deferred, grace>>

Next ==
    \/ CreateRoom \/ RoomEnds \/ Sweep
    \/ \E s \in Sockets :
          \/ Connect(s) \/ Disconnect(s) \/ CreateRoomAs(s)
          \/ Knock(s) \/ JoinRoom(s) \/ LeaveRoom(s) \/ GraceEnds(s)
          \/ ToggleAutoApprove(s)
    \/ \E s, u \in Sockets : AnswerKnock(s, u) \/ KickUser(s, u)
    \/ \E s, u \in Sockets, role \in GivenRoles : SetUserRole(s, u, role)
    \/ \E s \in Sockets, t \in Tokens : ResumeSession(s, t)
    \/ \E t \in Tokens : ExpireSession(t)

Spec == Init /\ [][Next]_vars

\* Timers and intervals that stay due are run.
FairSpec == Spec /\ WF_vars(Sweep) /\ \A s \in Sockets : WF_vars(GraceEnds(s))

-----------------------------------------------------------------------------
(* Properties *)

\* deferredRemovals and the running timers are one relation between tokens
\* and dead sockets: no entry without a timer to end it, no matched timer
\* that a returning user could not cancel.
DeferralsRun ==
    /\ \A t \in Tokens : deferred[t] # None =>
          deferred[t] \notin connected /\ grace[deferred[t]] = t
    /\ \A s \in Sockets : grace[s] \in Tokens => deferred[grace[s]] = s

\* A connected socket on the room's list is really in the room.
ListedAreMembers == users \cap connected \subseteq members

\* A person has one entry on the list, through any mix of reconnects.
PersonListedOnce == \A u, v \in users : Person[u] = Person[v] => u = v

\* While a host's dead socket is still listed, the end of its grace period,
\* by timeout or by the person's return, leaves the room a connected host.
HostMovesOn ==
    [][\A s \in users :
          rd.host = s /\ grace[s] # NoTimer /\ grace'[s] = NoTimer /\ rd'.known
             => rd'.host \in connected']_vars

\* A disconnected user does not stay listed.
GhostsGo == \A s \in Sockets : s \in users \ connected ~> s \notin users \ connected
=============================================================================
