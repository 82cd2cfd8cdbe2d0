----------------------------- MODULE MCPresence -----------------------------
(***************************************************************************)
(* Values for TLC of Presence's structured constants.                      *)
(***************************************************************************)
EXTENDS Presence, TLC

CONSTANTS a1, a2, b1

\* Alex reconnects (two socket ids); Billie has one.
AlexAndBillie == a1 :> "alex" @@ a2 :> "alex" @@ b1 :> "billie"

Symmetry == Permutations({a1, a2}) \cup Permutations(Tokens)
=============================================================================
