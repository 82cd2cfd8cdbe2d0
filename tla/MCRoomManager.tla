--------------------------- MODULE MCRoomManager ---------------------------
(***************************************************************************)
(* Values for TLC of RoomManager's structured constants.                   *)
(***************************************************************************)
EXTENDS RoomManager, TLC

\* Everyone has a nickname and a device of their own.
OwnNick == [s \in Sockets |-> s]

\* All sockets but one are those of one person on one device; the other one's
\* nickname differs from that person's in case only.
Guest    == CHOOSE s \in Sockets : TRUE
Cases    == [s \in Sockets |-> IF s = Guest THEN "alex" ELSE "Alex"]
Devices  == [s \in Sockets |-> IF s = Guest THEN "tablet" ELSE "phone"]
OneFold  == [n \in {"alex", "Alex"} |-> "alex"]

\* Ephemeral rooms live one tick, less than the two hours a refresh gives.
ShortLifetime == [mode \in Modes |-> IF mode = "ephemeral" THEN 1 ELSE 2]

\* Interchangeable connections, calls, heap cells, codes and creators.
Symmetry == Permutations(Sockets \ {Guest}) \cup Permutations(JoinCalls)
            \cup Permutations(CreateCalls) \cup Permutations(Objects)
            \cup Permutations(Codes) \cup Permutations(Creators)
=============================================================================
