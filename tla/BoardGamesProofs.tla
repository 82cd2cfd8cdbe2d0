-------------------------- MODULE BoardGamesProofs --------------------------
(***************************************************************************)
(* Theorems about BoardGames, for any people, connections, queue sizes and  *)
(* any of the four games.                                                  *)
(***************************************************************************)
EXTENDS BoardGames, SequenceTheorems, FiniteSetTheorems, TLAPS

-----------------------------------------------------------------------------
(* Entries and queues *)

\* Whose an entry is, and that it is neither the CPU's nor nobody's.
LEMMA EntryFacts ==
    /\ \A s \in Sockets, n \in Names :
           EntryNamed(s, n) \in Entries /\ EntryNamed(s, n).id = Owner[s]
    /\ \A s \in Sockets : Owner[s] \in Persons
    /\ \A e \in Entries : e.id \in Persons /\ e.name \in Names /\ e # CpuEntry /\ e # NoEntry
    /\ None \notin Names /\ NoEntry.name = None
    /\ CpuEntry.id = CPU /\ NoEntry.id = None /\ CpuEntry # NoEntry
    /\ CPU \notin Persons /\ None \notin Persons /\ CPU # None
    BY BoardGamesConstants DEF EntryNamed, Entries, Names, CpuEntry, NoEntry

\* The entry of a connection.
LEMMA OwnEntry ==
    ASSUME nick \in [Sockets -> Names], NEW s \in Sockets
    PROVE  Entry(s) \in Entries /\ Entry(s).id = Owner[s]
    BY EntryFacts DEF Entry

\* The places of a queue.
LEMMA QueueFacts ==
    ASSUME NEW q \in Seq(Entries), NEW e \in Entries
    PROVE  /\ Len(q) \in Nat /\ DOMAIN q = 1..Len(q)
           /\ \A k \in 1..Len(q) : q[k] \in Entries
           /\ Append(q, e) \in Seq(Entries) /\ Len(Append(q, e)) = Len(q) + 1
           /\ \A k \in 1..Len(q) : Append(q, e)[k] = q[k]
           /\ Append(q, e)[Len(q) + 1] = e
    BY LenProperties, ElementOfSeq, AppendProperties

LEMMA TailFacts ==
    ASSUME NEW q \in Seq(Entries), q # <<>>
    PROVE  /\ Head(q) \in Entries /\ Head(q) = q[1] /\ 1 \in 1..Len(q)
           /\ Tail(q) \in Seq(Entries) /\ Len(Tail(q)) = Len(q) - 1
           /\ \A k \in 1..(Len(q) - 1) : Tail(q)[k] = q[k + 1]
    <1>1. Head(q) = q[1]  OBVIOUS
    <1>2. Len(q) \in Nat \ {0}  BY EmptySeq
    <1> QED  BY <1>1, <1>2, HeadTailProperties, LenProperties

\* The places of a queue but the last, and those but the first.
LEMMA Places ==
    \A n \in Nat \ {0} :
        /\ n \in Nat /\ 1 \in 1..n
        /\ \A k \in 1..n : k # n => k \in 1..(n - 1) /\ k + 1 \in 1..n /\ k + 1 # 1
    OBVIOUS

-----------------------------------------------------------------------------
(* The invariant *)

\* The first seat is a person's, and a game other than chess is over only after
\* it was played.
Held ==
    /\ seat[1] \in Entries
    /\ kind # "chess" /\ status = "finished" => seat[2] # NoEntry

\* Two places are not the same person's, unless it took a seat for its name.
Apart(e, f) == e.id = f.id => e.id \in heirs

Inv == TypeOK /\ SeatsDistinct /\ StatusAgrees /\ ChessCpuSeat /\ Held

USE DEF Seats, Other, Settings, Rest, people, Apart

LEMMA InvInit == Init => Inv
    <1> SUFFICES ASSUME Init PROVE Inv  OBVIOUS
    <1>1. PICK s \in connected : /\ Owner[s] = Creator
                                 /\ seat = <<Entry(s), IF cpu THEN CpuEntry ELSE NoEntry>>
          BY DEF Init
    <1>2. /\ seat[1] = Entry(s) /\ seat[2] = (IF cpu THEN CpuEntry ELSE NoEntry)
          /\ DOMAIN seat = {1, 2}
          BY <1>1
    <1>3. s \in Sockets /\ connected \subseteq Sockets  BY DEF Init
    <1>4. Cardinality(connected) \in Nat /\ Unlimited \in Nat
          BY <1>3, BoardGamesConstants, FS_Subset, FS_CardinalityType
    <1>5. maxQueue \in Nat  BY <1>4 DEF Init
    <1>11. nick \in [Sockets -> Names]  BY DEF Init
    <1>12. Entry(s) \in Entries /\ Entry(s).id = Owner[s] /\ Owner[s] \in Persons
           BY <1>3, <1>11, OwnEntry, EntryFacts
    <1>6. seat \in [Seats -> Entries \cup {CpuEntry, NoEntry}]
          BY <1>1, <1>2, <1>12
    <1>7. queue = <<>> /\ queue \in Seq(Entries) /\ Len(queue) = 0 /\ DOMAIN queue = {}
          BY EmptySeq DEF Init
    <1>8. TypeOK
      <2>1. Len(queue) <= maxQueue  BY <1>5, <1>7
      <2>2. status \in {"waiting", "playing", "finished"} /\ cpu \in BOOLEAN
            BY Zenon DEF Init
      <2> QED  BY <1>3, <1>5, <1>6, <1>7, <1>11, <2>1, <2>2 DEF TypeOK, Init
    <1>9. SeatsDistinct  BY <1>2, <1>7, <1>12, EntryFacts DEF SeatsDistinct
    <1>10. StatusAgrees /\ ChessCpuSeat /\ Held
          BY <1>2, <1>7, <1>12, EntryFacts DEF StatusAgrees, ChessCpuSeat, Held, Init
    <1> QED  BY <1>8, <1>9, <1>10 DEF Inv

-----------------------------------------------------------------------------
(* Rounds *)

\* A challenger who takes a seat: the new round keeps the invariant, from a game
\* that is played or, in the second seat, one that is over.
LEMMA NewRoundKeeps ==
    ASSUME Inv, queue # <<>>, NEW loser \in Seats, NewRound(loser), UNCHANGED Rest,
           status = "playing" \/ loser = 2
    PROVE  Inv'
    <1> USE DEF NewRound
    <1>1. queue \in Seq(Entries) /\ seat \in [Seats -> Entries \cup {CpuEntry, NoEntry}]
          BY DEF Inv, TypeOK
    <1>2. /\ seat' \in [Seats -> Entries \cup {CpuEntry, NoEntry}]
          /\ seat'[loser] = Head(queue) /\ seat'[Other(loser)] = seat[Other(loser)]
          BY <1>1, TailFacts
    <1>3. TypeOK'  BY <1>1, <1>2, TailFacts, QueueFacts DEF Inv, TypeOK
    <1>4. SeatsDistinct'
      <2>1. /\ \A k \in 1..Len(queue) : Apart(queue[k], seat[1]) /\ Apart(queue[k], seat[2])
            /\ \A k, l \in 1..Len(queue) : Apart(queue[k], queue[l]) \/ k = l
            BY <1>1, LenProperties DEF Inv, SeatsDistinct, Seated
      <2>2. Apart(seat'[1], seat'[2])
        <3>1. CASE loser = 1  BY <3>1, <1>1, <1>2, <2>1, TailFacts
        <3>2. CASE loser = 2  BY <3>2, <1>1, <1>2, <2>1, TailFacts
        <3> QED  BY <3>1, <3>2
      <2>3. DOMAIN queue' = 1..(Len(queue) - 1) /\ Len(queue) \in Nat
            BY <1>1, TailFacts, LenProperties
      <2>4. ASSUME NEW k \in 1..(Len(queue) - 1)
            PROVE  Apart(queue'[k], seat'[1]) /\ Apart(queue'[k], seat'[2])
        <3>1. queue'[k] = queue[k + 1] /\ k + 1 \in 1..Len(queue) /\ k + 1 # 1
              BY <1>1, <2>3, TailFacts
        <3>2. Apart(queue[k + 1], Head(queue))  BY <1>1, <2>1, <3>1, TailFacts
        <3>3. CASE loser = 1  BY <3>1, <3>2, <3>3, <1>2, <2>1
        <3>4. CASE loser = 2  BY <3>1, <3>2, <3>4, <1>2, <2>1
        <3> QED  BY <3>3, <3>4
      <2>5. \A k, l \in 1..(Len(queue) - 1) : Apart(queue'[k], queue'[l]) \/ k = l
            BY <1>1, <2>1, <2>3, TailFacts
      <2> QED  BY <2>2, <2>3, <2>4, <2>5 DEF SeatsDistinct, Seated
    <1>5. StatusAgrees' /\ Held' /\ ChessCpuSeat'
      <2>1. Head(queue) \in Entries  BY <1>1, TailFacts
      <2>2. CASE loser = 1
            BY <2>1, <2>2, <1>1, <1>2, EntryFacts DEF Inv, StatusAgrees, Held, ChessCpuSeat
      <2>3. CASE loser = 2
            BY <2>1, <2>3, <1>1, <1>2, EntryFacts DEF Inv, StatusAgrees, Held, ChessCpuSeat
      <2> QED  BY <2>2, <2>3
    <1> QED  BY <1>3, <1>4, <1>5 DEF Inv

\* The end of a round keeps it: of a game that is played, or of a chess game that
\* waits, in which nobody is queued.
LEMMA EndRoundKeeps ==
    ASSUME Inv, NEW loser \in Seats, EndRound(loser), UNCHANGED Rest,
           status = "playing" \/ (kind = "chess" /\ status # "finished")
    PROVE  Inv'
    <1>1. CASE queue # <<>>
      <2>1. status = "playing"  BY <1>1 DEF Inv, StatusAgrees, TypeOK
      <2> QED  BY <1>1, <2>1, NewRoundKeeps DEF EndRound
    <1>2. CASE queue = <<>>
      <2>1. status' = "finished" /\ UNCHANGED <<seat, queue, cpu, turn, Rest>>
            BY <1>2 DEF EndRound
      <2>2. TypeOK' /\ SeatsDistinct' /\ ChessCpuSeat'
            BY <2>1 DEF Inv, TypeOK, SeatsDistinct, ChessCpuSeat, Seated
      <2>3. StatusAgrees' /\ Held'
            BY <1>2, <2>1 DEF Inv, StatusAgrees, Held
      <2> QED  BY <2>2, <2>3 DEF Inv
    <1> QED  BY <1>1, <1>2

-----------------------------------------------------------------------------
(* Requests *)

\* A challenger joins the end of the queue.
LEMMA EnqueueKeeps ==
    ASSUME Inv, NEW s \in Sockets, Enqueue(s)
    PROVE  Inv'
    <1> USE DEF Enqueue
    <1>1. queue \in Seq(Entries) /\ Entry(s) \in Entries /\ Entry(s).id = Owner[s]
          BY OwnEntry DEF Inv, TypeOK
    <1>2. /\ Len(queue) \in Nat /\ DOMAIN queue = 1..Len(queue)
          /\ queue' \in Seq(Entries) /\ Len(queue') = Len(queue) + 1
          /\ DOMAIN queue' = 1..(Len(queue) + 1)
          /\ \A k \in 1..Len(queue) : queue'[k] = queue[k]
          /\ queue'[Len(queue) + 1] = Entry(s)
          BY <1>1, QueueFacts
    <1>3. TypeOK'
      <2>1. Len(queue') <= maxQueue'  BY <1>2 DEF Inv, TypeOK
      <2> QED  BY <1>2, <2>1 DEF Inv, TypeOK
    <1>4. SeatsDistinct'
      <2>1. \A k \in 1..Len(queue) : queue[k].id # Owner[s]  BY <1>2 DEF Queued
      <2>2. seat[1].id # Owner[s] /\ seat[2].id # Owner[s]  BY DEF Seated
      <2>3. ASSUME NEW k \in 1..(Len(queue) + 1)
            PROVE  Apart(queue'[k], seat[1]) /\ Apart(queue'[k], seat[2])
        <3>1. CASE k = Len(queue) + 1  BY <3>1, <1>1, <1>2, <2>2
        <3>2. CASE k # Len(queue) + 1
              BY <3>2, <1>2 DEF Inv, SeatsDistinct, Seated
        <3> QED  BY <3>1, <3>2
      <2>4. ASSUME NEW k \in 1..(Len(queue) + 1), NEW l \in 1..(Len(queue) + 1),
                   queue'[k].id = queue'[l].id
            PROVE  k = l \/ queue'[k].id \in heirs
        <3>1. CASE k # Len(queue) + 1 /\ l # Len(queue) + 1
              BY <3>1, <2>4, <1>2 DEF Inv, SeatsDistinct
        <3>2. CASE k = Len(queue) + 1 /\ l # Len(queue) + 1
              BY <3>2, <2>1, <2>4, <1>1, <1>2
        <3>3. CASE k # Len(queue) + 1 /\ l = Len(queue) + 1
              BY <3>3, <2>1, <2>4, <1>1, <1>2
        <3>4. CASE k = Len(queue) + 1 /\ l = Len(queue) + 1  BY <3>4
        <3> QED  BY <3>1, <3>2, <3>3, <3>4
      <2> QED  BY <1>2, <2>3, <2>4 DEF Inv, SeatsDistinct, Seated
    <1> QED  BY <1>3, <1>4 DEF Inv, StatusAgrees, ChessCpuSeat, Held

\* An opponent, or the CPU, takes the second seat of a game that waits.
LEMMA SecondSeatKeeps ==
    ASSUME Inv, NEW e \in Entries \cup {CpuEntry}, status = "waiting",
           ~Seated(e.id), ~Queued(e.id),
           seat' = [seat EXCEPT ![2] = e], status' = "playing",
           cpu' = (cpu \/ e = CpuEntry),
           UNCHANGED <<Rest, turn, queue>>
    PROVE  Inv'
    <1>1. queue = <<>> /\ ~cpu /\ DOMAIN queue = {}
          BY EmptySeq DEF Inv, StatusAgrees
    <1>2. seat' \in [Seats -> Entries \cup {CpuEntry, NoEntry}]
          /\ seat'[1] = seat[1] /\ seat'[2] = e
          BY DEF Inv, TypeOK
    <1>3. TypeOK'  BY <1>2 DEF Inv, TypeOK
    <1>4. SeatsDistinct'  BY <1>1, <1>2 DEF SeatsDistinct, Seated
    <1>5. StatusAgrees' /\ ChessCpuSeat' /\ Held'
          BY <1>1, <1>2, EntryFacts DEF Inv, StatusAgrees, ChessCpuSeat, Held
    <1> QED  BY <1>3, <1>4, <1>5 DEF Inv

\* Whose turn it is tells the invariant nothing.
LEMMA TurnKeeps ==
    ASSUME Inv, turn' \in Seats, UNCHANGED <<Rest, status, seat, cpu, queue>>
    PROVE  Inv'
    BY DEF Inv, TypeOK, SeatsDistinct, Seated, StatusAgrees, ChessCpuSeat, Held

\* The game may be over, when it was against the CPU.
LEMMA SyncFenKeeps ==
    ASSUME Inv, SyncFen
    PROVE  Inv'
    BY EntryFacts
    DEF SyncFen, Inv, TypeOK, SeatsDistinct, Seated, StatusAgrees, ChessCpuSeat, Held

\* The seat of a person who plays is that person's entry.
LEMMA SeatOfPlayer ==
    ASSUME Inv, NEW s \in Sockets, Plays(Owner[s])
    PROVE  /\ SeatOf(Owner[s]) \in Seats
           /\ seat[SeatOf(Owner[s])] \in Entries
           /\ seat[SeatOf(Owner[s])].id = Owner[s]
           /\ SeatOf(Owner[s]) = 2 => ~cpu
    BY EntryFacts DEF Inv, TypeOK, Plays, SeatOf

\* The seat that is a person's or goes under its nickname is not a free one.
LEMMA SeatOfNamed ==
    ASSUME Inv, NEW s \in Sockets, NEW n \in Names, PlaysOrNamed(Owner[s], n)
    PROVE  /\ SeatOrName(Owner[s], n) \in Seats
           /\ seat[SeatOrName(Owner[s], n)].name \in Names
           /\ seat[SeatOrName(Owner[s], n)] # NoEntry
           /\ SeatOrName(Owner[s], n) = 2 => ~cpu
    BY EntryFacts DEF Inv, TypeOK, Held, PlaysOrNamed, SeatOrName, Matches

\* After a game: the next round, the same opponent again, or a free second seat.
LEMMA RematchKeeps ==
    ASSUME Inv, NEW s \in Sockets, Rematch(s)
    PROVE  Inv'
    <1>1. CASE queue # <<>>
          BY <1>1, NewRoundKeeps DEF Rematch
    <1>2. CASE queue = <<>>
      <2>1. /\ seat' = [seat EXCEPT ![2] = IF cpu THEN CpuEntry
                                           ELSE IF kind = "chess" THEN NoEntry ELSE @]
            /\ status' = IF cpu \/ kind # "chess" THEN "playing" ELSE "waiting"
            /\ turn' = 1 /\ UNCHANGED <<queue, cpu, Rest>> /\ status = "finished"
            BY <1>2 DEF Rematch
      <2>2. DOMAIN queue = {}  BY <1>2, EmptySeq
      <2>3. seat' \in [Seats -> Entries \cup {CpuEntry, NoEntry}]
            /\ seat'[1] = seat[1]
            /\ seat'[2] = IF cpu THEN CpuEntry ELSE IF kind = "chess" THEN NoEntry ELSE seat[2]
            BY <2>1 DEF Inv, TypeOK
      <2>4. TypeOK'  BY <2>1, <2>3 DEF Inv, TypeOK
      <2>5. SeatsDistinct'
            BY <2>1, <2>2, <2>3, EntryFacts DEF Inv, SeatsDistinct, Seated, Held
      <2>6. StatusAgrees' /\ ChessCpuSeat' /\ Held'
            BY <1>2, <2>1, <2>3, EntryFacts DEF Inv, StatusAgrees, ChessCpuSeat, Held, TypeOK
      <2> QED  BY <2>4, <2>5, <2>6 DEF Inv
    <1> QED  BY <1>1, <1>2

\* A player and the first challenger change places.
LEMMA TagOutKeeps ==
    ASSUME Inv, NEW s \in Sockets, TagOut(s)
    PROVE  Inv'
    <1> DEFINE i == SeatOf(Owner[s])
               n == Len(queue)
    <1>1. i \in Seats /\ seat[i] \in Entries /\ seat[i].id = Owner[s] /\ (i = 2 => ~cpu)
          BY SeatOfPlayer DEF TagOut
    <1>2. queue \in Seq(Entries) /\ queue # <<>> /\ status = "playing"
          BY DEF Inv, TypeOK, TagOut
    <1>3. /\ n \in Nat \ {0} /\ DOMAIN queue = 1..n
          /\ queue' \in Seq(Entries) /\ Len(queue') = n /\ DOMAIN queue' = 1..n
          /\ \A k \in 1..(n - 1) : queue'[k] = queue[k + 1]
          /\ queue'[n] = seat[i]
      <2>1. Tail(queue) \in Seq(Entries) /\ Len(Tail(queue)) = n - 1 /\ n \in Nat \ {0}
            /\ \A k \in 1..(n - 1) : Tail(queue)[k] = queue[k + 1]
            BY <1>2, TailFacts, LenProperties
      <2>2. queue' = Append(Tail(queue), seat[i])  BY DEF TagOut
      <2>3. /\ queue' \in Seq(Entries) /\ Len(queue') = n
            /\ \A k \in 1..(n - 1) : queue'[k] = queue[k + 1]
            /\ queue'[n] = seat[i]
            BY <1>1, <2>1, <2>2, QueueFacts
      <2>4. DOMAIN queue = 1..n /\ DOMAIN queue' = 1..n  BY <1>2, <2>3, LenProperties
      <2> QED  BY <2>1, <2>3, <2>4
    <1>9. /\ n \in Nat /\ 1 \in 1..n
          /\ \A k \in 1..n : k # n => k \in 1..(n - 1) /\ k + 1 \in 1..n /\ k + 1 # 1
          BY <1>3, Places
    <1>4. /\ seat' \in [Seats -> Entries \cup {CpuEntry, NoEntry}]
          /\ seat'[i] = queue[1] /\ seat'[Other(i)] = seat[Other(i)] /\ queue[1] \in Entries
          BY <1>1, <1>2, TailFacts DEF TagOut, Inv, TypeOK
    <1>5. TypeOK'  BY <1>3, <1>4 DEF TagOut, Inv, TypeOK
    <1>6. SeatsDistinct'
      <2>1. /\ Apart(seat[1], seat[2])
            /\ \A k \in 1..n : Apart(queue[k], seat[1]) /\ Apart(queue[k], seat[2])
            /\ \A k, l \in 1..n : Apart(queue[k], queue[l]) \/ k = l
            BY <1>3 DEF Inv, SeatsDistinct, Seated
      <2>2. Apart(seat'[1], seat'[2])
        <3>1. CASE i = 1  BY <3>1, <1>9, <1>4, <2>1
        <3>2. CASE i = 2  BY <3>2, <1>9, <1>4, <2>1
        <3> QED  BY <1>1, <3>1, <3>2
      <2>3. ASSUME NEW k \in 1..n
            PROVE  Apart(queue'[k], seat'[i]) /\ Apart(queue'[k], seat'[Other(i)])
        <3>1. CASE k = n
          <4>1. queue'[k] = seat[i]  BY <1>3, <3>1
          <4>2. Apart(seat[i], seat[Other(i)])  BY <1>1, <2>1
          <4>3. Apart(queue[1], seat[i])  BY <1>1, <1>9, <2>1
          <4> QED  BY <1>4, <4>1, <4>2, <4>3
        <3>2. CASE k # n
          <4>1. queue'[k] = queue[k + 1] /\ k + 1 \in 1..n /\ k + 1 # 1  BY <1>3, <1>9, <3>2
          <4>2. Apart(queue[k + 1], queue[1])  BY <1>9, <2>1, <4>1
          <4>3. Apart(queue[k + 1], seat[Other(i)])  BY <1>1, <2>1, <4>1
          <4> QED  BY <1>4, <4>1, <4>2, <4>3
        <3> QED  BY <3>1, <3>2
      <2>4. ASSUME NEW k \in 1..n, NEW l \in 1..n, queue'[k].id = queue'[l].id,
                   queue'[k].id \notin heirs
            PROVE  k = l
        <3>1. \A j \in 1..n : Apart(queue[j], seat[i])  BY <1>1, <2>1
        <3>2. CASE k # n /\ l # n
          <4>1. k + 1 \in 1..n /\ l + 1 \in 1..n  BY <1>9, <3>2
          <4>2. queue[k + 1].id = queue[l + 1].id /\ queue[k + 1].id \notin heirs
                BY <1>3, <1>9, <2>4, <3>2
          <4>3. k + 1 = l + 1  BY <2>1, <4>1, <4>2
          <4> QED  BY <4>3
        <3>3. CASE k = n /\ l # n
          <4>1. l + 1 \in 1..n  BY <1>9, <3>3
          <4>2. queue[l + 1].id = seat[i].id /\ queue[l + 1].id \notin heirs
                BY <1>3, <1>9, <2>4, <3>3
          <4> QED  BY <3>1, <4>1, <4>2
        <3>4. CASE k # n /\ l = n
          <4>1. k + 1 \in 1..n  BY <1>9, <3>4
          <4>2. queue[k + 1].id = seat[i].id /\ queue[k + 1].id \notin heirs
                BY <1>3, <1>9, <2>4, <3>4
          <4> QED  BY <3>1, <4>1, <4>2
        <3>5. CASE k = n /\ l = n  BY <3>5
        <3> QED  BY <3>2, <3>3, <3>4, <3>5
      <2>5. ASSUME NEW k \in 1..n
            PROVE  Apart(queue'[k], seat'[1]) /\ Apart(queue'[k], seat'[2])
        <3>1. CASE i = 1  BY <2>3, <3>1
        <3>2. CASE i = 2  BY <2>3, <3>2
        <3> QED  BY <1>1, <3>1, <3>2
      <2>6. heirs' = heirs  BY DEF TagOut
      <2> QED  BY <1>3, <2>2, <2>4, <2>5, <2>6 DEF SeatsDistinct, Seated
    <1>7. StatusAgrees' /\ ChessCpuSeat' /\ Held'
      <2>1. status' = status /\ cpu' = cpu /\ kind' = kind  BY DEF TagOut
      <2>2. CASE i = 1
            BY <1>2, <1>4, <2>1, <2>2, EntryFacts DEF Inv, StatusAgrees, ChessCpuSeat, Held
      <2>3. CASE i = 2
            BY <1>1, <1>2, <1>4, <2>1, <2>3, EntryFacts DEF Inv, StatusAgrees, ChessCpuSeat, Held
      <2> QED  BY <1>1, <2>2, <2>3
    <1> QED  BY <1>5, <1>6, <1>7 DEF Inv

\* The host's settings: a queue is never made shorter than it is.
LEMMA SettingsKeep ==
    ASSUME Inv, NEW s \in Sockets,
           \/ \E n \in QueueSizes : SetMaxQueue(s, n)
           \/ \E b \in BOOLEAN : LockQueue(s, b)
    PROVE  Inv'
    <1>1. ASSUME NEW n \in QueueSizes, SetMaxQueue(s, n)  PROVE Inv'
      <2>1. n \in Nat /\ Len(queue) \in Nat
            BY BoardGamesConstants, LenProperties DEF Inv, TypeOK
      <2>2. maxQueue' \in Nat /\ Len(queue) <= maxQueue'  BY <1>1, <2>1 DEF SetMaxQueue
      <2> QED  BY <1>1, <2>2
               DEF SetMaxQueue, Inv, TypeOK, SeatsDistinct, Seated, StatusAgrees, ChessCpuSeat, Held
    <1>2. ASSUME NEW b \in BOOLEAN, LockQueue(s, b)  PROVE Inv'
          BY <1>2 DEF LockQueue, Inv, TypeOK, SeatsDistinct, Seated, StatusAgrees, ChessCpuSeat, Held
    <1> QED  BY <1>1, <1>2

\* The rest of what connections do leaves the game alone.
LEMMA ConnectionsKeep ==
    ASSUME Inv, timers' \subseteq Persons, connected' \subseteq Sockets,
           nick' \in [Sockets -> Names], UNCHANGED <<gameData, heirs>>
    PROVE  Inv'
    BY DEF gameData, Inv, TypeOK, SeatsDistinct, Seated, StatusAgrees, ChessCpuSeat, Held

\* A return gives a player's seat the new connection; the seat of another player,
\* known by its nickname, gets a new owner, who is an heir from then on.
LEMMA RejoinKeeps ==
    ASSUME Inv, NEW s \in Sockets, NEW n \in NamesOf[Owner[s]], Rejoin(s, n)
    PROVE  Inv'
    <1>1. /\ n \in Names /\ Owner[s] \in Persons
          /\ nick' \in [Sockets -> Names] /\ connected' \subseteq Sockets
          /\ UNCHANGED <<Settings, status, cpu, turn, queue>>
          BY EntryFacts DEF Names, Rejoin, Inv, TypeOK
    <1>2. CASE ~(status # "finished" /\ PlaysOrNamed(Owner[s], n))
      <2>1. UNCHANGED <<gameData, timers, heirs>>  BY <1>1, <1>2 DEF Rejoin, gameData
      <2> QED  BY <1>1, <2>1, ConnectionsKeep DEF Inv, TypeOK
    <1>3. CASE status # "finished" /\ PlaysOrNamed(Owner[s], n)
      <2> DEFINE i == SeatOrName(Owner[s], n)
                 e == EntryNamed(s, seat[i].name)
      <2>1. /\ i \in Seats /\ seat[i].name \in Names /\ seat[i] # NoEntry /\ (i = 2 => ~cpu)
            /\ seat \in [Seats -> Entries \cup {CpuEntry, NoEntry}]
            BY <1>1, <1>3, SeatOfNamed DEF Inv, TypeOK
      <2>2. e \in Entries /\ e.id = Owner[s]  BY <2>1, EntryFacts
      <2>3. /\ seat' = [seat EXCEPT ![i] = e]
            /\ timers' \subseteq Persons
            /\ heirs' = heirs \cup ({Owner[s]} \ {seat[i].id})
            BY <1>3 DEF Rejoin, Inv, TypeOK
      <2>4. /\ seat' \in [Seats -> Entries \cup {CpuEntry, NoEntry}]
            /\ seat'[i] = e /\ seat'[Other(i)] = seat[Other(i)]
        <3>1. CASE i = 1  BY <2>1, <2>2, <2>3, <3>1
        <3>2. CASE i = 2  BY <2>1, <2>2, <2>3, <3>2
        <3> QED  BY <2>1, <3>1, <3>2
      <2>5. TypeOK'  BY <1>1, <2>3, <2>4 DEF Inv, TypeOK
      <2>6. SeatsDistinct'
        <3>1. heirs \subseteq heirs' /\ (seat'[i].id \in heirs' \/ seat'[i].id = seat[i].id)
              BY <2>2, <2>3, <2>4
        <3>2. /\ Apart(seat[1], seat[2])
              /\ \A k \in DOMAIN queue : Apart(queue[k], seat[1]) /\ Apart(queue[k], seat[2])
              /\ \A k, l \in DOMAIN queue : Apart(queue[k], queue[l]) \/ k = l
              BY DEF Inv, SeatsDistinct, Seated
        <3>3. seat'[1].id = seat'[2].id => seat'[1].id \in heirs'
          <4>1. CASE i = 1  BY <2>4, <3>1, <3>2, <4>1
          <4>2. CASE i = 2  BY <2>4, <3>1, <3>2, <4>2
          <4> QED  BY <2>1, <4>1, <4>2
        <3>4. ASSUME NEW k \in DOMAIN queue, NEW j \in Seats, seat'[j].id = queue[k].id
              PROVE  queue[k].id \in heirs'
          <4>1. CASE j = i  BY <3>1, <3>2, <3>4, <4>1, <2>1
          <4>2. CASE j # i
            <5>1. seat'[j] = seat[j]  BY <2>1, <2>4, <4>2
            <5> QED  BY <3>1, <3>2, <3>4, <5>1
          <4> QED  BY <4>1, <4>2
        <3>5. queue' = queue  BY <1>1
        <3>6. \A k \in DOMAIN queue' : Seated(queue[k].id)' => queue[k].id \in heirs'
              BY <3>4, <3>5 DEF Seated
        <3>7. \A k, l \in DOMAIN queue :
                 queue[k].id = queue[l].id => k = l \/ queue[k].id \in heirs'
              BY <3>1, <3>2
        <3> QED  BY <3>3, <3>5, <3>6, <3>7 DEF SeatsDistinct, Seated
      <2>7. StatusAgrees' /\ ChessCpuSeat' /\ Held'
        <3>1. CASE i = 1
              BY <1>1, <1>3, <2>1, <2>2, <2>4, <3>1, EntryFacts
              DEF Inv, StatusAgrees, ChessCpuSeat, Held
        <3>2. CASE i = 2
              BY <1>1, <1>3, <2>1, <2>2, <2>4, <3>2, EntryFacts
              DEF Inv, StatusAgrees, ChessCpuSeat, Held
        <3> QED  BY <2>1, <3>1, <3>2
      <2> QED  BY <2>5, <2>6, <2>7 DEF Inv
    <1> QED  BY <1>2, <1>3

-----------------------------------------------------------------------------
(* Every step *)

LEMMA RequestKeeps ==
    ASSUME Inv, NEW s \in Sockets, Request(s)
    PROVE  Inv'
    <1>1. CASE Enqueue(s)  BY <1>1, EnqueueKeeps
    <1>2. CASE TakeSeat(s)
      <2>1. Entry(s) \in Entries /\ Entry(s).id = Owner[s] /\ Entry(s) # CpuEntry /\ cpu \in BOOLEAN
            BY OwnEntry, EntryFacts DEF Inv, TypeOK
      <2>2. ~Seated(Entry(s).id) /\ ~Queued(Entry(s).id)  BY <1>2, <2>1 DEF TakeSeat
      <2>3. cpu' = (cpu \/ Entry(s) = CpuEntry)  BY <1>2, <2>1 DEF TakeSeat
      <2> QED  BY <1>2, <2>1, <2>2, <2>3, SecondSeatKeeps DEF TakeSeat
    <1>3. CASE SetCpu(s)
      <2>1. ~Seated(CpuEntry.id)
            BY <1>3, EntryFacts DEF SetCpu, Inv, Held, Seated
      <2>2. ~Queued(CpuEntry.id)
            BY <1>3, EmptySeq DEF SetCpu, Inv, StatusAgrees, Queued
      <2>3. cpu' = (cpu \/ CpuEntry = CpuEntry)  BY <1>3 DEF SetCpu
      <2> QED  BY <1>3, <2>1, <2>2, <2>3, SecondSeatKeeps DEF SetCpu
    <1>4. CASE ChessMove(s)
      <2>1. turn' \in Seats  BY <1>4 DEF ChessMove, Inv, TypeOK
      <2> QED  BY <1>4, <2>1, TurnKeeps DEF ChessMove
    <1>5. CASE LineMove(s)
      <2>1. Other(turn) \in Seats /\ 2 \in Seats  BY DEF Inv, TypeOK
      <2> QED  BY <1>5, <2>1, TurnKeeps, EndRoundKeeps DEF LineMove
    <1>6. CASE CheckersMove(s)
      <2>1. Other(turn) \in Seats  BY DEF Inv, TypeOK
      <2> QED  BY <1>6, <2>1, TurnKeeps, EndRoundKeeps DEF CheckersMove
    <1>7. CASE Resign(s)
      <2>1. nick[s] \in Names  BY DEF Inv, TypeOK
      <2> QED  BY <1>7, <2>1, SeatOfNamed, EndRoundKeeps DEF Resign
    <1>8. CASE DrawAccept(s)  BY <1>8, EndRoundKeeps DEF DrawAccept
    <1>9. CASE Rematch(s)  BY <1>9, RematchKeeps
    <1>10. CASE TagOut(s)  BY <1>10, TagOutKeeps
    <1>11. CASE \/ \E n \in QueueSizes : SetMaxQueue(s, n)
                \/ \E b \in BOOLEAN : LockQueue(s, b)
           BY <1>11, SettingsKeep
    <1> QED  BY <1>1, <1>2, <1>3, <1>4, <1>5, <1>6, <1>7, <1>8, <1>9, <1>10, <1>11 DEF Request

LEMMA ReportKeeps ==
    ASSUME Inv, Report
    PROVE  Inv'
    <1>1. CASE SyncFen  BY <1>1, SyncFenKeeps
    <1>2. ASSUME NEW loser \in Seats, Timeout(loser)  PROVE Inv'
          BY <1>2, EndRoundKeeps DEF Timeout
    <1>3. ASSUME NEW loser \in Seats, GameEnd(loser)  PROVE Inv'
          BY <1>3, EndRoundKeeps DEF GameEnd
    <1> QED  BY <1>1, <1>2, <1>3 DEF Report

LEMMA InvStep == Inv /\ [Next]_vars => Inv'
    <1> SUFFICES ASSUME Inv, [Next]_vars  PROVE Inv'  OBVIOUS
    <1>1. connected \subseteq Sockets /\ timers \subseteq Persons /\ nick \in [Sockets -> Names]
          BY DEF Inv, TypeOK
    <1>2. ASSUME NEW s \in connected, Request(s)  PROVE Inv'  BY <1>1, <1>2, RequestKeeps
    <1>3. CASE Report  BY <1>3, ReportKeeps
    <1>4. ASSUME NEW s \in Sockets, Disconnect(s) \/ LeaveRoom(s) \/ Resume(s)  PROVE Inv'
      <2>1. Owner[s] \in Persons  BY EntryFacts
      <2>2. timers' \subseteq Persons /\ connected' \subseteq Sockets
            /\ UNCHANGED <<gameData, nick, heirs>>
            BY <1>1, <1>4, <2>1 DEF Disconnect, LeaveRoom, Resume
      <2> QED  BY <1>1, <2>2, ConnectionsKeep
    <1>5. ASSUME NEW s \in Sockets, NEW n \in NamesOf[Owner[s]], Rejoin(s, n)  PROVE Inv'
          BY <1>5, RejoinKeeps
    <1>6. ASSUME NEW p \in Persons, Forfeit(p)  PROVE Inv'
      <2>1. timers' \subseteq Persons /\ connected' \subseteq Sockets
            /\ UNCHANGED <<gameData, nick, heirs>>
            BY <1>1, <1>6 DEF Forfeit
      <2> QED  BY <1>1, <2>1, ConnectionsKeep
    <1>7. CASE UNCHANGED vars  BY <1>1, <1>7, ConnectionsKeep DEF vars
    <1> QED  BY <1>2, <1>3, <1>4, <1>5, <1>6, <1>7 DEF Next

\* The invariant holds in every reachable state.
THEOREM InvHolds == Spec => []Inv
    BY InvInit, InvStep, PTL DEF Spec

\* Types: seats hold people, the CPU or nobody, and no queue is longer than its
\* limit, also when the host lowers the limit.
THEOREM BoardTypeCorrect == Spec => []TypeOK
    BY InvHolds, PTL DEF Inv

\* Nobody is in two places of a game, but for those who were given the seat of an
\* absent player whose nickname they took.
THEOREM SeatsDistinctHolds == Spec => []SeatsDistinct
    BY InvHolds, PTL DEF Inv

\* Status, seats and queue tell one story.
THEOREM StatusAgreesHolds == Spec => []StatusAgrees
    BY InvHolds, PTL DEF Inv

\* In chess the CPU plays exactly when its entry is in the second seat.
THEOREM ChessCpuSeatHolds == Spec => []ChessCpuSeat
    BY InvHolds, PTL DEF Inv

-----------------------------------------------------------------------------
(* The order of challengers *)

LEMMA PrefixFacts ==
    ASSUME NEW q \in Seq(Entries)
    PROVE  /\ IsPrefix(q, q)
           /\ \A e \in Entries : IsPrefix(q, Append(q, e))
    <1>1. IsPrefix(q, q)  BY LenProperties DEF IsPrefix
    <1>2. ASSUME NEW e \in Entries  PROVE IsPrefix(q, Append(q, e))
      <2>1. SubSeq(Append(q, e), 1, Len(q)) = q /\ SubSeq(q, 1, Len(q)) = q
            BY AppendProperties, SubSeqFull
      <2> QED  BY <2>1, QueueFacts DEF IsPrefix
    <1> QED  BY <1>1, <1>2

\* A step serves the first challenger or leaves the queue as it was, but for a
\* newcomer at its end.
Served ==
    \/ queue' = queue
    \/ \E e \in Entries : queue' = Append(queue, e)
    \/ /\ queue # <<>>
       /\ \E i \in Seats : seat'[i] = Head(queue)
       /\ \/ queue' = Tail(queue)
          \/ \E e \in Entries : queue' = Append(Tail(queue), e)

LEMMA EndRoundServes ==
    ASSUME Inv, NEW loser \in Seats, EndRound(loser)
    PROVE  Served
    BY DEF EndRound, NewRound, Served, Inv, TypeOK

LEMMA RequestServes ==
    ASSUME Inv, NEW s \in Sockets, Request(s)
    PROVE  Served
    <1>1. CASE Enqueue(s)  BY <1>1, OwnEntry DEF Enqueue, Served, Inv, TypeOK
    <1>2. CASE TakeSeat(s) \/ SetCpu(s) \/ ChessMove(s)
          BY <1>2 DEF TakeSeat, SetCpu, ChessMove, Served
    <1>3. CASE LineMove(s) \/ CheckersMove(s)
      <2>1. Other(turn) \in Seats /\ 2 \in Seats  BY DEF Inv, TypeOK
      <2> QED  BY <1>3, <2>1, EndRoundServes DEF LineMove, CheckersMove, Served
    <1>4. CASE Resign(s) \/ DrawAccept(s)
      <2>1. nick[s] \in Names  BY DEF Inv, TypeOK
      <2> QED  BY <1>4, <2>1, SeatOfNamed, EndRoundServes DEF Resign, DrawAccept
    <1>5. CASE Rematch(s)
          BY <1>5 DEF Rematch, NewRound, Served, Inv, TypeOK
    <1>6. CASE TagOut(s)
          BY <1>6, SeatOfPlayer DEF TagOut, Served, Inv, TypeOK
    <1>7. CASE \/ \E n \in QueueSizes : SetMaxQueue(s, n)
               \/ \E b \in BOOLEAN : LockQueue(s, b)
          BY <1>7 DEF SetMaxQueue, LockQueue, Served
    <1> QED  BY <1>1, <1>2, <1>3, <1>4, <1>5, <1>6, <1>7 DEF Request

LEMMA StepServes == Inv /\ [Next]_vars => Served
    <1> SUFFICES ASSUME Inv, [Next]_vars  PROVE Served  OBVIOUS
    <1>1. ASSUME NEW s \in connected, Request(s)  PROVE Served
          BY <1>1, RequestServes DEF Inv, TypeOK
    <1>2. CASE Report  BY <1>2, EndRoundServes DEF Report, SyncFen, Timeout, GameEnd, Served
    <1>3. ASSUME NEW s \in Sockets, \/ Disconnect(s) \/ LeaveRoom(s) \/ Resume(s)
                                    \/ \E n \in NamesOf[Owner[s]] : Rejoin(s, n)
          PROVE  Served
          BY <1>3 DEF Disconnect, LeaveRoom, Resume, Rejoin, gameData, Served
    <1>4. ASSUME NEW p \in Persons, Forfeit(p)  PROVE Served
          BY <1>4 DEF Forfeit, gameData, Served
    <1>5. CASE UNCHANGED vars  BY <1>5 DEF vars, gameData, Served
    <1> QED  BY <1>1, <1>2, <1>3, <1>4, <1>5 DEF Next

\* Challengers are served in the order they came and none is dropped.
THEOREM QueueHonouredHolds == Spec => QueueHonoured
    <1>1. Inv /\ [Next]_vars =>
            [\/ IsPrefix(queue, queue')
             \/ /\ queue # <<>>
                /\ \E i \in Seats : seat'[i] = Head(queue)
                /\ IsPrefix(Tail(queue), queue')]_vars
      <2> SUFFICES ASSUME Inv, [Next]_vars
                   PROVE  \/ IsPrefix(queue, queue')
                          \/ /\ queue # <<>>
                             /\ \E i \in Seats : seat'[i] = Head(queue)
                             /\ IsPrefix(Tail(queue), queue')
          OBVIOUS
      <2>1. Served  BY StepServes
      <2>2. queue \in Seq(Entries)  BY DEF Inv, TypeOK
      <2>3. queue # <<>> => Tail(queue) \in Seq(Entries)  BY <2>2, TailFacts
      <2> QED  BY <2>1, <2>2, <2>3, PrefixFacts DEF Served
    <1> QED  BY <1>1, InvHolds, PTL DEF Spec, QueueHonoured
=============================================================================
