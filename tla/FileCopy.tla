------------------------------ MODULE FileCopy ------------------------------
(***************************************************************************)
(* What a file transfer promises: the copy grows by the chunks of the      *)
(* file, in order, each once; the sender reports success, and the receiver *)
(* keeps the file, only when the copy is whole; until then either may give *)
(* up.                                                                     *)
(***************************************************************************)
EXTENDS Naturals, Sequences

CONSTANT NumChunks      \* the file is the chunks 0 .. NumChunks-1

VARIABLES copy,         \* the chunks written, in order
          opened,       \* the receiver has begun to write
          sent,         \* the sender has reported success
          saved         \* the receiver keeps the file

vars == <<copy, opened, sent, saved>>

Init == copy = <<>> /\ opened = FALSE /\ sent = FALSE /\ saved = FALSE

Begin == ~opened /\ opened' = TRUE /\ UNCHANGED <<copy, sent, saved>>

\* The next chunks of the file are appended: one, or more that were waiting.
Write == /\ opened
         /\ \E n \in (Len(copy) + 1)..NumChunks :
               copy' = [i \in 1..n |-> i - 1]
         /\ UNCHANGED <<opened, sent, saved>>

Report == /\ Len(copy) = NumChunks
          /\ sent' = TRUE
          /\ UNCHANGED <<copy, opened, saved>>

Save == /\ sent
        /\ saved' = TRUE
        /\ UNCHANGED <<copy, opened, sent>>

Next == Begin \/ Write \/ Report \/ Save

Spec == Init /\ [][Next]_vars
=============================================================================
