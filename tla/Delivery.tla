------------------------------ MODULE Delivery ------------------------------
(***************************************************************************)
(* One person's messages on their way to the room: the client's outbox     *)
(* (client/src/transport/message-outbox.js) with the sender ChatRoom.jsx   *)
(* registers, the acknowledged emit of socket.js, and the send-message     *)
(* handler of server/index.js with its de-duplication.                     *)
(*                                                                         *)
(* Message m is the m-th one composed, so the outbox, a Map in insertion   *)
(* order, is a set of numbers.  A connection carries messages in order; it *)
(* breaks at any time, at either end first, and what the server has not    *)
(* read yet may still be read after the client has a new connection.       *)
(* The messages of one read are handled together: each handler looks its   *)
(* message up and is suspended in addMessage before the first goes on.     *)
(***************************************************************************)
EXTENDS Naturals, Sequences

CONSTANTS
    N,            \* messages composed at most
    Expiring,     \* the messages composed with an overrideTtl
    Jitters,      \* the values jitterEnabled may have
    Conns,        \* connections (an id is reused once the server forgot it)
    Forgettable,  \* the messages whose id the server may drop, once each
    MaxInFlight,  \* unread messages on a connection at most
    None          \* no connection

Msgs == 1..N

ASSUME MessagesTyped == N \in Nat /\ Expiring \subseteq Msgs /\ Forgettable \subseteq Msgs
                        /\ MaxInFlight \in Nat
ASSUME JittersTyped == Jitters \subseteq BOOLEAN
ASSUME NoneIsNoConn == None \notin Conns

VARIABLES
    jitter,     \* currentConfig.jitterEnabled of traffic-padding.js
    composed,   \* how many messages have been composed
    outbox,     \* entries, by number
    flush,      \* the pass of flush() in progress and the entry it is at
    retry,      \* a retry timer is set
    conn,       \* the connection the client believes it has
    answer,     \* the acknowledgement on its way to the waiting emitWithAck
    echoes,     \* broadcasts of own messages the client has not processed
    rejoined,   \* the answer to the client's join-room is on its way
    open,       \* connections the server has
    bound,      \* those whose socket.roomCode is set
    net,        \* the messages on each connection the server has not read
    reading,    \* how many messages of the read in progress are not handled yet
    handling,   \* the messages whose handlers wait for addMessage
    seen,       \* seenClientMsgIds
    delivered,  \* history: the messages broadcast to the room
    withdrawn,  \* history: messages cleared or expired
    forgotten   \* history: messages whose id was dropped from seenClientMsgIds

clientVars  == <<outbox, flush, retry, withdrawn>>
linkVars    == <<conn, open, net, reading>>
serverVars  == <<handling, seen, delivered, forgotten>>
vars == <<jitter, composed, clientVars, answer, echoes, rejoined, linkVars, bound, serverVars>>

Idle == [pc |-> "idle", msg |-> 0]

\* stuck: the pass awaits a promise that never settles.
Passes == {Idle} \cup [pc : {"sending", "waiting", "stuck"}, msg : Msgs]

\* The state variables have their types; only a waiting pass has an answer
\* coming ("due": its handler waits), and only on a connection.
TypeOK ==
    /\ jitter    \in Jitters
    /\ composed  \in 0..N
    /\ outbox    \in SUBSET (1..composed)
    /\ flush     \in Passes
    /\ retry     \in BOOLEAN
    /\ conn      \in Conns \cup {None}
    /\ answer    \in {"none", "due", "ack", "nak"}
    /\ echoes    \in SUBSET Msgs
    /\ rejoined  \in BOOLEAN
    /\ open      \in SUBSET Conns
    /\ bound     \in SUBSET open
    /\ net       \in [Conns -> Seq(Msgs)]
    /\ reading   \in [Conns -> Nat]
    /\ handling  \in Seq(Msgs)
    /\ seen      \in SUBSET Msgs
    /\ delivered \in SUBSET Msgs
    /\ withdrawn \in SUBSET (1..composed)
    /\ forgotten \in SUBSET Msgs
    /\ answer # "none" => flush.pc = "waiting" /\ conn # None
    /\ flush.pc = "stuck" => jitter

Init ==
    /\ jitter    \in Jitters
    /\ composed  = 0
    /\ outbox    = {}
    /\ flush     = Idle
    /\ retry     = FALSE
    /\ conn      = None
    /\ answer    = "none"
    /\ echoes    = {}
    /\ rejoined  = FALSE
    /\ open      = {}
    /\ bound     = {}
    /\ net       = [c \in Conns |-> <<>>]
    /\ reading   = [c \in Conns |-> 0]
    /\ handling  = <<>>
    /\ seen      = {}
    /\ delivered = {}
    /\ withdrawn = {}
    /\ forgotten = {}

-----------------------------------------------------------------------------
(* message-outbox.js: flush *)

\* The loop of flush goes on with the entries in o: those whose time to live
\* is over when it gets to them are dropped, and the first that is not is
\* handed to the sender.
Continue(o) ==
    \E due \in SUBSET (o \cap Expiring) :
        LET rest == o \ due IN
        /\ \A x \in due, y \in rest : x < y
        /\ outbox' = rest
        /\ withdrawn' = withdrawn \cup due
        /\ \/ rest = {} /\ flush' = Idle
           \/ \E m \in rest : /\ \A y \in rest : m <= y
                              /\ flush' = [pc |-> "sending", msg |-> m]

\* flush() with the entries in o: a pass in progress will get to them.
Flush(o) ==
    \/ flush = Idle /\ Continue(o)
    \/ flush # Idle /\ outbox' = o /\ UNCHANGED <<flush, withdrawn>>

\* (mutation: no retry is scheduled)
RequeueOnly ==
    /\ flush' = Idle
    /\ UNCHANGED <<outbox, retry, withdrawn>>

\* (mutation: the entry that failed is dropped)
RequeueDropping ==
    /\ flush' = Idle
    /\ retry' = TRUE
    /\ outbox' = outbox \ {flush.msg}
    /\ UNCHANGED withdrawn

\* (mutation: the loop goes on with the entries behind the one that failed)
RequeueAndGoOn ==
    /\ retry' = TRUE
    /\ \/ /\ \A y \in outbox : y <= flush.msg
          /\ flush' = Idle
       \/ \E m \in outbox :
             /\ m > flush.msg /\ \A y \in outbox : y > flush.msg => m <= y
             /\ flush' = [pc |-> "sending", msg |-> m]
    /\ UNCHANGED <<outbox, withdrawn>>

\* The sender threw: the entry stays, a retry is scheduled, the pass ends.
Requeue ==
    /\ flush' = Idle
    /\ retry' = TRUE
    /\ UNCHANGED <<outbox, withdrawn>>

\* (mutation: the rejection is lost without jitter, too)
EmitRejectionLost ==
    /\ flush' = [flush EXCEPT !.pc = "stuck"]
    /\ UNCHANGED <<outbox, retry, withdrawn>>

\* The emit inside withJitter was rejected.  With jitter on, that rejection is
\* lost in a timer callback and the sender's promise never settles.
EmitRejected ==
    IF jitter
    THEN flush' = [flush EXCEPT !.pc = "stuck"] /\ UNCHANGED <<outbox, retry, withdrawn>>
    ELSE Requeue

-----------------------------------------------------------------------------
(* The client *)

Compose ==
    /\ composed < N
    /\ composed' = composed + 1
    /\ Flush(outbox \cup {composed + 1})
    /\ UNCHANGED <<jitter, retry, answer, echoes, rejoined, linkVars, bound, serverVars>>

\* The room key is not there: the sender throws before the emit.  (The error
\* is marked permanent, which flush does not look at.)
EncryptFails ==
    /\ flush.pc = "sending"
    /\ Requeue
    /\ UNCHANGED <<jitter, composed, answer, echoes, rejoined, linkVars, bound, serverVars>>

\* Encrypted, and the jitter delay is over.  What goes out on a connection
\* the server has closed is lost.
Emit ==
    /\ flush.pc = "sending" /\ conn # None
    /\ Len(net[conn]) < MaxInFlight
    /\ flush' = [flush EXCEPT !.pc = "waiting"]
    /\ net' = IF conn \in open THEN [net EXCEPT ![conn] = Append(@, flush.msg)] ELSE net
    /\ UNCHANGED <<jitter, composed, outbox, retry, withdrawn, answer, echoes, rejoined,
                   conn, open, reading, bound, serverVars>>

EmitOffline ==
    /\ flush.pc = "sending" /\ conn = None
    /\ EmitRejected
    /\ UNCHANGED <<jitter, composed, answer, echoes, rejoined, linkVars, bound, serverVars>>

\* No acknowledgement within DEFAULT_ACK_TIMEOUT_MS; one that comes later is
\* ignored.
GiveUp ==
    /\ flush.pc = "waiting"
    /\ EmitRejected
    /\ answer' = "none"
    /\ UNCHANGED <<jitter, composed, echoes, rejoined, linkVars, bound, serverVars>>

\* The acknowledgement: the entry is delivered and the pass goes on.
ReadAck ==
    /\ answer = "ack"
    /\ answer' = "none"
    /\ Continue(outbox \ {flush.msg})
    /\ UNCHANGED <<jitter, composed, retry, echoes, rejoined, linkVars, bound, serverVars>>

\* success: false, which the sender throws outside withJitter.
ReadNak ==
    /\ answer = "nak"
    /\ answer' = "none"
    /\ Requeue
    /\ UNCHANGED <<jitter, composed, echoes, rejoined, linkVars, bound, serverVars>>

\* handleNewMessage, once it has decrypted an own message: markDelivered.
ReadEcho(m) ==
    /\ m \in echoes
    /\ echoes' = echoes \ {m}
    /\ outbox' = outbox \ {m}
    /\ UNCHANGED <<jitter, composed, flush, retry, withdrawn, answer, rejoined,
                   linkVars, bound, serverVars>>

\* The room is joined again: flush().
ReadJoined ==
    /\ rejoined
    /\ rejoined' = FALSE
    /\ Flush(outbox)
    /\ UNCHANGED <<jitter, composed, retry, answer, echoes, linkVars, bound, serverVars>>

RetryTimer ==
    /\ retry
    /\ retry' = FALSE
    /\ Flush(outbox)
    /\ UNCHANGED <<jitter, composed, answer, echoes, rejoined, linkVars, bound, serverVars>>

\* clear(): a room leave or a panic burn.  A pass in progress stays where it is.
Clear ==
    /\ outbox # {}
    /\ outbox' = {}
    /\ withdrawn' = withdrawn \cup outbox
    /\ UNCHANGED <<jitter, composed, flush, retry, answer, echoes, rejoined,
                   linkVars, bound, serverVars>>

-----------------------------------------------------------------------------
(* The connection *)

Connect(c) ==
    /\ conn = None /\ c \notin open
    /\ conn' = c
    /\ open' = open \cup {c}
    /\ UNCHANGED <<jitter, composed, clientVars, answer, echoes, rejoined, net, reading, bound,
                   serverVars>>

\* (mutation: an acknowledgement outlives its connection)
DisconnectKeepingAnswer ==
    /\ conn # None
    /\ conn' = None
    /\ rejoined' = FALSE
    /\ echoes' \in SUBSET echoes
    /\ IF flush.pc = "waiting" THEN EmitRejected ELSE UNCHANGED clientVars
    /\ UNCHANGED <<jitter, composed, answer, open, net, reading, bound, serverVars>>

\* The client loses its connection: a waiting emit is rejected at once, and
\* what had not reached the client never will.
Disconnect ==
    /\ conn # None
    /\ conn' = None
    /\ answer' = "none"
    /\ rejoined' = FALSE
    /\ echoes' \in SUBSET echoes
    /\ IF flush.pc = "waiting" THEN EmitRejected ELSE UNCHANGED clientVars
    /\ UNCHANGED <<jitter, composed, open, net, reading, bound, serverVars>>

\* The server loses it, with all it has not read.
Drop(c) ==
    /\ c \in open
    /\ open' = open \ {c}
    /\ bound' = bound \ {c}
    /\ net' = [net EXCEPT ![c] = <<>>]
    /\ UNCHANGED <<jitter, composed, clientVars, answer, echoes, rejoined, conn, reading,
                   serverVars>>

-----------------------------------------------------------------------------
(* The server *)

\* join-room succeeds on connection c.
Bind(c) ==
    /\ c \in open \ bound
    /\ bound' = bound \cup {c}
    /\ rejoined' = (rejoined \/ c = conn)
    /\ UNCHANGED <<jitter, composed, clientVars, answer, echoes, linkVars, serverVars>>

AllRead == \A c \in Conns : reading[c] = 0

Quiet == AllRead /\ handling = <<>>

\* The next message of a read, or the first of one with n more.
Take(c) ==
    /\ net[c] # <<>>
    /\ net' = [net EXCEPT ![c] = Tail(@)]
    /\ \/ reading[c] > 0 /\ reading' = [reading EXCEPT ![c] = @ - 1]
       \/ /\ Quiet
          /\ \E n \in 0..(Len(net[c]) - 1) : reading' = [reading EXCEPT ![c] = n]
    /\ UNCHANGED <<jitter, composed, clientVars, rejoined, conn, open, bound>>

\* The emit the client waits for is the last on its connection.
Awaited(c) == c = conn /\ flush.pc = "waiting" /\ Len(net[c]) = 1

Reply(c, a) == answer' = IF Awaited(c) THEN a ELSE answer

NotInRoom(c) ==
    /\ c \in open \ bound
    /\ Take(c)
    /\ Reply(c, "nak")
    /\ UNCHANGED <<echoes, serverVars>>

Duplicate(c) ==
    /\ c \in bound
    /\ Take(c)
    /\ Head(net[c]) \in seen
    /\ Reply(c, "ack")
    /\ UNCHANGED <<echoes, serverVars>>

\* Over the rate limit: an error event, and no acknowledgement.
RateLimited(c) ==
    /\ c \in bound
    /\ Take(c)
    /\ Head(net[c]) \notin seen
    /\ UNCHANGED <<answer, echoes, serverVars>>

\* A new message: the handler gets as far as addMessage.  A copy of it that
\* came in the same read and waits there is not looked for.
Accept(c) ==
    LET m == Head(net[c]) IN
    /\ c \in bound
    /\ Take(c)
    /\ m \notin seen
    /\ handling' = Append(handling, m)
    /\ Reply(c, "due")
    /\ UNCHANGED <<echoes, seen, delivered, forgotten>>

\* (mutation: the id of a message is not recorded)
BroadcastUnrecorded ==
    LET m == Head(handling) IN
    /\ AllRead /\ handling # <<>>
    /\ handling' = Tail(handling)
    /\ delivered' = delivered \cup {m}
    /\ answer' = IF answer = "due" /\ Len(handling) = 1 THEN "ack" ELSE answer
    /\ echoes' = IF conn \in bound THEN echoes \cup {m} ELSE echoes
    /\ UNCHANGED <<jitter, composed, clientVars, rejoined, linkVars, bound, seen, forgotten>>

\* The read is over and the handlers go on in turn: the message is stored, its
\* id recorded, acknowledged (to the emit still waiting, if any, which sent the
\* last of them), and broadcast to the room, in which the author is by whatever
\* connection is bound now.
Broadcast ==
    LET m == Head(handling) IN
    /\ AllRead /\ handling # <<>>
    /\ handling' = Tail(handling)
    /\ seen' = seen \cup {m}
    /\ delivered' = delivered \cup {m}
    /\ answer' = IF answer = "due" /\ Len(handling) = 1 THEN "ack" ELSE answer
    /\ echoes' = IF conn \in bound THEN echoes \cup {m} ELSE echoes
    /\ UNCHANGED <<jitter, composed, clientVars, rejoined, linkVars, bound, forgotten>>

\* seenClientMsgIds drops an id (five minutes old, or the oldest of too many).
Forget(m) ==
    /\ m \in (seen \cap Forgettable) \ forgotten
    /\ seen' = seen \ {m}
    /\ forgotten' = forgotten \cup {m}
    /\ UNCHANGED <<jitter, composed, clientVars, answer, echoes, rejoined, linkVars, bound,
                   handling, delivered>>

-----------------------------------------------------------------------------
Receive(c) == NotInRoom(c) \/ Duplicate(c) \/ RateLimited(c) \/ Accept(c)

Client ==
    \/ Compose \/ EncryptFails \/ Emit \/ EmitOffline \/ GiveUp
    \/ ReadAck \/ ReadNak \/ ReadJoined \/ RetryTimer \/ Clear
    \/ \E m \in Msgs : ReadEcho(m)

Link ==
    \/ Disconnect
    \/ \E c \in Conns : Connect(c) \/ Drop(c) \/ Bind(c)

\* What addMessage awaits goes on before the next event of any connection, so a
\* read is handled to its end; and what a client does meanwhile is the same
\* before it or after it, as the handlers see only what the read brought.
Next ==
    \/ Quiet /\ (Client \/ Link)
    \/ Broadcast
    \/ \E c \in Conns : Receive(c)
    \/ \E m \in Msgs : Forget(m)

Spec == Init /\ [][Next]_vars

\* Timers fire and what has arrived is read; and a client that tries again and
\* again has the room key in the end, is heard within the rate limit, and has
\* its answer before its patience is over.
Fairness ==
    /\ WF_vars(GiveUp) /\ WF_vars(ReadNak) /\ WF_vars(RetryTimer) /\ WF_vars(Broadcast)
    /\ \A c \in Conns : WF_vars(Receive(c))
    /\ SF_vars(Emit) /\ SF_vars(ReadAck)
    /\ SF_vars(\E c \in Conns : Awaited(c) /\ (Duplicate(c) \/ Accept(c)))

FairSpec == Spec /\ Fairness

-----------------------------------------------------------------------------
(* Properties *)

Handled(m) == \E i \in DOMAIN handling : handling[i] = m

\* A message the room has is not handled for broadcasting again, however often
\* it is sent, over however many connections, and in whatever order they are
\* read, unless its id was dropped.  (Copies in one read are all looked up when
\* the room has none of them: they are handled together, and "each logical
\* message is broadcast exactly once" of index.js is too much for them.)
NoRepeat == [][\A m \in delivered \ forgotten : Handled(m)' => Handled(m)]_vars

\* A message leaves the outbox only when the room has it, or withdrawn.
NoneLost == \A m \in 1..composed : m \in outbox \cup delivered \cup withdrawn

\* A queued message never waits for a user's next one: a pass is in progress
\* or a retry timer is set, even if no rejoin ever flushes.
NoneStranded == outbox # {} => flush # Idle \/ retry

\* The room gets the messages in order, each once it was composed, with no
\* gap but what was withdrawn; a repeated one tells it nothing new.
Ordered == INSTANCE Channel
ImplementsChannel == Ordered!Spec

\* The client is back in its room and the server keeps up with it.
LinkGood == conn \in bound /\ Len(net[conn]) <= 1

\* "On reconnect the outbox flushes them in order, retrying until the server
\* acknowledges each one" (message-outbox.js:6): once the link is good for
\* good, every entry goes.
EntriesSettle == <>[]LinkGood => \A m \in Msgs : m \in outbox ~> m \notin outbox

\* So it is if jitter is off (preset "low").
SettlesWithoutJitter ==
    <>[]LinkGood => \A m \in Msgs : m \in outbox /\ ~jitter ~> m \notin outbox
=============================================================================
