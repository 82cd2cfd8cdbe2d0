---------------------------- MODULE MCBoardGames ----------------------------
(***************************************************************************)
(* Values for TLC of BoardGames' structured constants.                     *)
(***************************************************************************)
EXTENDS BoardGames, TLC

CONSTANTS alex, billie, chris, dana, a1, b1, c1, d1, al, bil, chr, dan

\* Everybody has one connection at a time.
FourPeople == a1 :> alex @@ b1 :> billie @@ c1 :> chris @@ d1 :> dana
TwoPeople == a1 :> alex @@ b1 :> billie

\* Billie also takes the nickname of Alex, who creates the game, when it is free.
FourNames == alex :> {al} @@ billie :> {bil, al} @@ chris :> {chr} @@ dana :> {dan}
TwoNames == alex :> {al} @@ billie :> {bil}

\* Bound: once Billie goes by the creator's nickname, Dana is neither in the room
\* nor in the game, the queue is open and at most one timer runs.  A queue of two
\* needs four people, a seat given away for its name three; a lock only keeps people
\* out, and a return stops one timer.
FewerWhenRenamed ==
    nick[b1] = al \/ heirs # {} =>
        /\ d1 \notin connected /\ dana \notin timers /\ ~Seated(dana) /\ ~Queued(dana)
        /\ ~locked /\ Cardinality(timers) <= 1

\* Chris and Dana are interchangeable, together with connection and nickname.
Swap == chris :> dana @@ dana :> chris @@ c1 :> d1 @@ d1 :> c1 @@ chr :> dan @@ dan :> chr
PersonSymmetry == {Swap, [x \in DOMAIN Swap |-> x]}
=============================================================================
