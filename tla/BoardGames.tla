----------------------------- MODULE BoardGames -----------------------------
(***************************************************************************)
(* The board games of a room: chess, tic-tac-toe ("ttt"), Connect Four     *)
(* ("c4") and checkers (server/index.js).  A game is a message of the      *)
(* room; every handler reads it, changes it and saves it without giving    *)
(* control away in between, so a handler is one step.  The four games have *)
(* the same seats, queue of challengers and forfeit timers, and differ     *)
(* where the definitions below name a kind.  The board is left out: any    *)
(* legal outcome of a move may happen, and whose turn it is stays.         *)
(*                                                                         *)
(* Requests of panels that are behind the server are taken at any time     *)
(* from anyone in the room, unless the handler looks at who sends them.    *)
(* A connection that ends is used again for a later one of its person.     *)
(* Nicknames are compared as they are written.                             *)
(***************************************************************************)
EXTENDS Integers, Sequences, FiniteSets, SequencesExt

CONSTANTS
    Persons,     \* persistent user ids
    Sockets,     \* connections
    Owner,       \* Owner[s]: socket.persistentUserId of connection s
    NamesOf,     \* NamesOf[p]: the nicknames p joins the room under
    Creator,     \* creatorId
    Kinds,       \* the games to look at
    QueueSizes,  \* sizes a host asks for, the cap of 50 applied
    Unlimited,   \* stands for a queue without a limit: a bound of the model
    CPU,         \* the id 'cpu', and the name it plays under
    None

ASSUME BoardGamesConstants ==
    /\ IsFiniteSet(Sockets)
    /\ Owner \in [Sockets -> Persons]
    /\ \A p \in Persons : None \notin NamesOf[p]
    /\ Creator \in Persons
    /\ Kinds \subseteq {"chess", "ttt", "c4", "checkers"}
    /\ QueueSizes \subseteq Nat /\ Unlimited \in Nat
    /\ CPU \notin Persons /\ None \notin Persons \cup Sockets \cup {CPU}

VARIABLES
    kind,       \* gameType
    status,     \* "waiting", "playing" or "finished"
    seat,       \* 1: white or player1, 2: black or player2
    cpu,        \* cpu?.enabled
    turn,       \* the seat to move
    queue,      \* challengeQueue
    locked,     \* queueLocked
    maxQueue,   \* maxQueue
    timers,     \* persons whose forfeit timer runs
    connected,  \* connections in the room
    nick,       \* socket.nickname
    heirs       \* history: people who were given another's seat for its name

gameData == <<kind, status, seat, cpu, turn, queue, locked, maxQueue>>
people == <<timers, connected, nick, heirs>>
vars == <<gameData, people>>

Seats == {1, 2}
Other(i) == 3 - i

Names == UNION {NamesOf[p] : p \in Persons}

\* What seats and the queue hold: a person with the connection and the nickname
\* it had when it took its place.
EntryNamed(s, n) == [id |-> Owner[s], socketId |-> s, name |-> n]
Entry(s) == EntryNamed(s, nick[s])
CpuEntry == [id |-> CPU, socketId |-> None, name |-> CPU]
NoEntry == [id |-> None, socketId |-> None, name |-> None]
Entries == {EntryNamed(s, n) : s \in Sockets, n \in Names}

Seated(p) == \E i \in Seats : seat[i].id = p
Queued(p) == \E k \in DOMAIN queue : queue[k].id = p
Present(p) == \E s \in connected : Owner[s] = p

\* Seat i is p's, or goes under the nickname n: a resignation and a return to the
\* room look at both.
Matches(i, p, n) == seat[i].id = p \/ seat[i].name = n

\* The seat of p; the handlers look at the first one first.
SeatOf(p) == IF seat[1].id = p THEN 1 ELSE 2
SeatOrName(p, n) == IF Matches(1, p, n) THEN 1 ELSE 2

\* p sits in a seat that is a person's: the CPU's is not looked at.
Plays(p) == seat[1].id = p \/ (seat[2].id = p /\ ~cpu)
PlaysOrNamed(p, n) == Matches(1, p, n) \/ (Matches(2, p, n) /\ ~cpu)

TypeOK ==
    /\ kind \in Kinds
    /\ status \in {"waiting", "playing", "finished"}
    /\ seat \in [Seats -> Entries \cup {CpuEntry, NoEntry}]
    /\ cpu \in BOOLEAN
    /\ turn \in Seats
    /\ queue \in Seq(Entries) /\ Len(queue) <= maxQueue
    /\ locked \in BOOLEAN
    /\ maxQueue \in Nat
    /\ timers \subseteq Persons
    /\ connected \subseteq Sockets
    /\ nick \in [Sockets -> Names]
    /\ heirs \subseteq Persons

----------------------------------------------------------------------------
(* Rounds.                                                                  *)

\* Mutation: the last challenger is served first.
NewRoundFromTheBack(loser) ==
    /\ seat' = [seat EXCEPT ![loser] = Last(queue)]
    /\ queue' = Front(queue)
    /\ cpu' = (cpu /\ kind = "chess" /\ loser = 1)
    /\ status' = "playing"
    /\ turn' = 1

\* Mutation: the CPU stays on when a challenger takes its seat.
NewRoundKeepingCpu(loser) ==
    /\ seat' = [seat EXCEPT ![loser] = Head(queue)]
    /\ queue' = Tail(queue)
    /\ UNCHANGED cpu
    /\ status' = "playing"
    /\ turn' = 1

\* chessStartNewRound and its three siblings: the first challenger takes the
\* loser's seat.  Only chess looks at whose seat that is before it drops the CPU.
NewRound(loser) ==
    /\ seat' = [seat EXCEPT ![loser] = Head(queue)]
    /\ queue' = Tail(queue)
    /\ cpu' = (cpu /\ kind = "chess" /\ loser = 1)
    /\ status' = "playing"
    /\ turn' = 1

\* Mutation: the end of a round does not look at the queue.
EndRoundForGood(loser) ==
    status' = "finished" /\ UNCHANGED <<seat, queue, cpu, turn>>

\* The end of a round: another one if somebody waits, otherwise the game is over.
EndRound(loser) ==
    IF queue # <<>>
    THEN NewRound(loser)
    ELSE status' = "finished" /\ UNCHANGED <<seat, queue, cpu, turn>>

Settings == <<kind, locked, maxQueue>>
Rest == <<Settings, people>>

----------------------------------------------------------------------------
(* The game starts with the message that its creator sends.                 *)

Init ==
    /\ kind \in Kinds
    /\ cpu \in BOOLEAN
    /\ connected \in SUBSET Sockets
    /\ nick \in {f \in [Sockets -> Names] : \A s \in Sockets : f[s] \in NamesOf[Owner[s]]}
    /\ \A s, t \in connected : nick[s] = nick[t] => Owner[s] = Owner[t]
    /\ \E s \in connected :
         /\ Owner[s] = Creator
         /\ seat = <<Entry(s), IF cpu THEN CpuEntry ELSE NoEntry>>
    /\ status = IF cpu THEN "playing" ELSE "waiting"
    /\ turn = 1
    /\ queue = <<>>
    /\ locked = FALSE
    /\ maxQueue = IF kind # "chess" THEN Unlimited
                  ELSE IF Cardinality(connected) > 1 THEN Cardinality(connected) - 1 ELSE 1
    /\ timers = {}
    /\ heirs = {}

\* x-queue-again, and x-join during a game.
Enqueue(s) ==
    /\ status = "playing"
    /\ ~Seated(Owner[s]) /\ ~Queued(Owner[s])
    /\ ~locked /\ Len(queue) < maxQueue
    /\ queue' = Append(queue, Entry(s))
    /\ UNCHANGED <<Rest, status, seat, cpu, turn>>

\* x-join of a game that waits for an opponent.
TakeSeat(s) ==
    /\ status = "waiting"
    /\ ~Seated(Owner[s]) /\ ~Queued(Owner[s])
    /\ seat[2] = NoEntry /\ ~cpu
    /\ seat' = [seat EXCEPT ![2] = Entry(s)]
    /\ status' = "playing"
    /\ UNCHANGED <<Rest, cpu, turn, queue>>

\* The creator, or who holds the first seat: by its connection in chess, by its
\* id in the other games.
Hosts(s) ==
    \/ Owner[s] = Creator
    \/ IF kind = "chess" THEN seat[1].socketId = s ELSE seat[1].id = Owner[s]

SetCpu(s) ==
    /\ IF kind = "chess" THEN Hosts(s) ELSE seat[1].id = Owner[s]
    /\ seat[2] = NoEntry /\ status = "waiting"
    /\ cpu' = TRUE
    /\ seat' = [seat EXCEPT ![2] = CpuEntry]
    /\ status' = "playing"
    /\ UNCHANGED <<Rest, turn, queue>>

----------------------------------------------------------------------------
(* Moves and the ends of rounds.                                            *)

\* chess-move: the position after the move is the client's.  A person in both
\* seats moves neither colour.
ChessMove(s) ==
    /\ kind = "chess" /\ status = "playing" /\ ~cpu
    /\ seat[turn].id = Owner[s] /\ seat[Other(turn)].id # Owner[s]
    /\ turn' = Other(turn)
    /\ UNCHANGED <<Rest, status, seat, cpu, queue>>

\* ttt-move and c4-drop; the holder of the first seat sends the CPU's moves.
\* The mover wins, or the board is full, and a draw unseats the second player.
LineMove(s) ==
    /\ kind \in {"ttt", "c4"} /\ status = "playing"
    /\ \/ seat[turn].id = Owner[s]
       \/ cpu /\ turn = 2 /\ seat[1].id = Owner[s]
    /\ \/ turn' = Other(turn) /\ UNCHANGED <<status, seat, cpu, queue>>
       \/ \E loser \in {Other(turn), 2} : EndRound(loser)
    /\ UNCHANGED Rest

\* checkers-move: whoever is left without pieces or moves loses.
CheckersMove(s) ==
    /\ kind = "checkers" /\ status = "playing"
    /\ \/ seat[turn].id = Owner[s]
       \/ cpu /\ turn = 2 /\ seat[1].id = Owner[s]
    /\ \/ turn' = Other(turn) /\ UNCHANGED <<status, seat, cpu, queue>>
       \/ \E loser \in Seats : EndRound(loser)
    /\ UNCHANGED Rest

\* chess-sync-fen, from any panel that shows a game against the CPU: a position,
\* or one that comes after the time of the seat to move is over.
SyncFen ==
    /\ kind = "chess" /\ cpu /\ status # "finished"
    /\ \/ turn' \in Seats /\ UNCHANGED status
       \/ status' = "finished" /\ UNCHANGED turn
    /\ UNCHANGED <<Rest, seat, cpu, queue>>

Resign(s) ==
    /\ status = "playing"
    /\ PlaysOrNamed(Owner[s], nick[s])
    /\ EndRound(SeatOrName(Owner[s], nick[s]))
    /\ UNCHANGED Rest

\* chess-draw-accept: the one who accepts keeps the seat if it is white's.
DrawAccept(s) ==
    /\ kind = "chess" /\ status = "playing"
    /\ EndRound(IF seat[1].id = Owner[s] THEN 2 ELSE 1)
    /\ UNCHANGED Rest

\* chess-timeout: a panel saw the clock of a seat run out.
Timeout(loser) ==
    /\ kind = "chess" /\ status = "playing"
    /\ EndRound(loser)
    /\ UNCHANGED Rest

\* chess-game-end: a panel saw the end on its board; a draw unseats black.
GameEnd(loser) ==
    /\ kind = "chess" /\ status # "finished"
    /\ EndRound(loser)
    /\ UNCHANGED Rest

\* The next round against a challenger (only chess can have left one), again
\* against the CPU, or, in chess, with the second seat free.
Rematch(s) ==
    /\ status = "finished"
    /\ Hosts(s)
    /\ IF queue # <<>> THEN NewRound(2)
       ELSE /\ seat' = [seat EXCEPT ![2] = IF cpu THEN CpuEntry
                                           ELSE IF kind = "chess" THEN NoEntry ELSE @]
            /\ status' = IF cpu \/ kind # "chess" THEN "playing" ELSE "waiting"
            /\ turn' = 1
            /\ UNCHANGED <<queue, cpu>>
    /\ UNCHANGED Rest

----------------------------------------------------------------------------
(* The queue.                                                               *)

\* Mutation: the seat is read after the challenger was put in it.
TagOutAliased(s) ==
    /\ status = "playing" /\ queue # <<>>
    /\ Plays(Owner[s])
    /\ LET i == SeatOf(Owner[s]) IN
         /\ seat' = [seat EXCEPT ![i] = Head(queue)]
         /\ queue' = Append(Tail(queue), seat'[i])
    /\ turn' = 1
    /\ UNCHANGED <<Rest, status, cpu>>

\* The player changes places with the first challenger, to the end of the queue.
TagOut(s) ==
    /\ status = "playing" /\ queue # <<>>
    /\ Plays(Owner[s])
    /\ LET i == SeatOf(Owner[s]) IN
         /\ seat' = [seat EXCEPT ![i] = Head(queue)]
         /\ queue' = Append(Tail(queue), seat[i])
    /\ turn' = 1
    /\ UNCHANGED <<Rest, status, cpu>>

\* Mutation: the length of the queue is not looked at.
SetMaxQueueAsAsked(s, n) ==
    /\ Hosts(s)
    /\ maxQueue' = n
    /\ UNCHANGED <<kind, status, seat, cpu, turn, queue, locked, people>>

SetMaxQueue(s, n) ==
    /\ Hosts(s)
    /\ maxQueue' = IF n < Len(queue) THEN Len(queue) ELSE n
    /\ UNCHANGED <<kind, status, seat, cpu, turn, queue, locked, people>>

LockQueue(s, b) ==
    /\ Hosts(s)
    /\ locked' = b
    /\ UNCHANGED <<kind, status, seat, cpu, turn, queue, maxQueue, people>>

----------------------------------------------------------------------------
(* Connections and forfeits.                                                *)

\* The connection fails: in a game between people the player's timer is started
\* (again).  Last of all the handler clears socket.roomCode.
Disconnect(s) ==
    LET p == Owner[s] IN
    /\ s \in connected
    /\ connected' = connected \ {s}
    /\ timers' = IF status = "playing" /\ ~cpu /\ Seated(p) THEN timers \cup {p} ELSE timers
    /\ UNCHANGED <<gameData, nick, heirs>>

\* leave-room, or being removed from the room: the games are not looked at.
LeaveRoom(s) ==
    /\ s \in connected
    /\ connected' = connected \ {s}
    /\ UNCHANGED <<gameData, timers, nick, heirs>>

\* join-room with the token of a session, under the nickname it had: answered
\* before the games are looked at.
Resume(s) ==
    /\ s \notin connected
    /\ connected' = connected \cup {s}
    /\ UNCHANGED <<gameData, timers, nick, heirs>>

\* join-room without one, under a nickname that nobody else in the room has: the
\* timer of who has the seat that is p's or goes under that nickname is stopped,
\* and the seat becomes p's, with its name.
Rejoin(s, n) ==
    LET p == Owner[s]
        i == SeatOrName(p, n)
    IN
    /\ s \notin connected
    /\ \A t \in connected : nick[t] = n => Owner[t] = p
    /\ connected' = connected \cup {s}
    /\ nick' = [nick EXCEPT ![s] = n]
    /\ IF status # "finished" /\ PlaysOrNamed(p, n)
       THEN /\ timers' = timers \ {seat[i].id}
            /\ seat' = [seat EXCEPT ![i] = EntryNamed(s, @.name)]
            /\ heirs' = heirs \cup ({p} \ {seat[i].id})
       ELSE UNCHANGED <<timers, seat, heirs>>
    /\ UNCHANGED <<Settings, status, cpu, turn, queue>>

\* The timer that p's disconnection started: the callback looks for the room by
\* socket.roomCode, which the handler has cleared since, finds none and returns.
Forfeit(p) ==
    /\ p \in timers
    /\ timers' = timers \ {p}
    /\ UNCHANGED <<gameData, connected, nick, heirs>>

----------------------------------------------------------------------------
Request(s) ==
    \/ Enqueue(s) \/ TakeSeat(s) \/ SetCpu(s)
    \/ ChessMove(s) \/ LineMove(s) \/ CheckersMove(s)
    \/ Resign(s) \/ DrawAccept(s) \/ Rematch(s) \/ TagOut(s)
    \/ \E n \in QueueSizes : SetMaxQueue(s, n)
    \/ \E b \in BOOLEAN : LockQueue(s, b)

\* The handlers that do not look at who sends the request.
Report ==
    \/ SyncFen
    \/ \E loser \in Seats : Timeout(loser) \/ GameEnd(loser)

Next ==
    \/ \E s \in connected : Request(s)
    \/ connected # {} /\ Report
    \/ \E s \in Sockets : \/ Disconnect(s) \/ LeaveRoom(s) \/ Resume(s)
                          \/ \E n \in NamesOf[Owner[s]] : Rejoin(s, n)
    \/ \E p \in Persons : Forfeit(p)

Spec == Init /\ [][Next]_vars

\* A timer that is not stopped fires.  People and their panels owe nothing.
FairSpec == Spec /\ \A p \in Persons : WF_vars(Forfeit(p))

----------------------------------------------------------------------------
(* Properties.                                                              *)

\* Nobody is in two places of a game, in both seats, in a seat and in the queue or
\* in the queue twice, unless it came back to the room under the nickname of an
\* absent player and was given that player's seat (index.js:2280-2324).  Joining,
\* tagging out, the start of a round and a return each move people between them.
SeatsDistinct ==
    /\ seat[1].id = seat[2].id => seat[1].id \in heirs
    /\ \A k \in DOMAIN queue : Seated(queue[k].id) => queue[k].id \in heirs
    /\ \A k, l \in DOMAIN queue :
           queue[k].id = queue[l].id => k = l \/ queue[k].id \in heirs

\* Status, seats and queue tell one story: a game that waits has a free seat and
\* no challengers, one that is played has two players, and one that is over has
\* left nobody in the queue unless it was against the CPU.
StatusAgrees ==
    /\ status = "waiting" => seat[2] = NoEntry /\ ~cpu /\ queue = <<>>
    /\ status = "playing" => NoEntry \notin {seat[1], seat[2]}
    /\ status = "finished" /\ queue # <<>> => cpu

\* In chess the CPU plays exactly when its entry is in the second seat, through
\* all new rounds: a game in which it sat without playing would have no next move.
ChessCpuSeat == kind = "chess" => (cpu <=> seat[2] = CpuEntry)

\* Challengers are served in the order they came and none is dropped: the queue
\* changes at its end, or its first entry gets a seat.
QueueHonoured ==
    [][\/ IsPrefix(queue, queue')
       \/ /\ queue # <<>>
          /\ \E i \in Seats : seat'[i] = Head(queue)
          /\ IsPrefix(Tail(queue), queue')]_vars

\* A player whose connection failed and whose timer runs is not waited for: the
\* round ends, or the player is in the room again ("schedule auto-forfeit after
\* 60s").
AbandonedRoundEnds ==
    \A p \in Persons :
        (status = "playing" /\ Seated(p) /\ p \in timers /\ ~Present(p))
            ~> (status # "playing" \/ ~Seated(p) \/ Present(p))
=============================================================================
