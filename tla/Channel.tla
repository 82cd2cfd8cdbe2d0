------------------------------- MODULE Channel -------------------------------
(***************************************************************************)
(* What client/src/transport/message-outbox.js promises of the messages    *)
(* one person composes: the room gets them in the order they were          *)
(* composed, except for those that were withdrawn (cleared on a room leave *)
(* or a panic burn, or expired).  Message m is the m-th one composed.      *)
(***************************************************************************)
EXTENDS Naturals

CONSTANT N      \* messages composed at most

VARIABLES
    composed,   \* how many messages have been composed
    delivered,  \* the messages the room got
    withdrawn   \* the messages nobody insists on any more

Init == composed = 0 /\ delivered = {} /\ withdrawn = {}

\* Composing makes the outbox look at its queue, where entries may be due.
Compose(S) ==
    /\ composed < N
    /\ S \subseteq 1..(composed + 1)
    /\ composed' = composed + 1
    /\ withdrawn' = withdrawn \cup S
    /\ UNCHANGED delivered

\* Nobody remembers whether a message withdrawn in flight had been delivered.
Withdraw(S) ==
    /\ S \subseteq 1..composed
    /\ withdrawn' = withdrawn \cup S
    /\ UNCHANGED <<composed, delivered>>

\* A message never overtakes an earlier one that is still wanted.
Deliver(m) ==
    /\ m \in 1..composed /\ m \notin delivered
    /\ \A k \in 1..(m - 1) : k \in delivered \cup withdrawn
    /\ delivered' = delivered \cup {m}
    /\ UNCHANGED <<composed, withdrawn>>

Next ==
    \/ \E S \in SUBSET (1..N) : Compose(S) \/ Withdraw(S)
    \/ \E m \in 1..N : Deliver(m)

Spec == Init /\ [][Next]_<<composed, delivered, withdrawn>>
==============================================================================
