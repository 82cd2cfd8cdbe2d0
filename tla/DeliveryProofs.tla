--------------------------- MODULE DeliveryProofs ---------------------------
(***************************************************************************)
(* What holds of the delivery of messages for any number of messages and   *)
(* connections, with jitter or without.                                    *)
(***************************************************************************)
EXTENDS Delivery, SequenceTheorems, TLAPS

\* What the loop of flush does to the entries in o, of the first k messages.
LEMMA ContinueFacts ==
    ASSUME TypeOK, NEW k \in composed..N, NEW o \in SUBSET (1..k), Continue(o)
    PROVE  /\ outbox' \in SUBSET o /\ flush' \in Passes
           /\ flush'.pc \in {"idle", "sending"}
           /\ withdrawn' \in SUBSET (1..k) /\ withdrawn \subseteq withdrawn'
           /\ o \subseteq outbox' \cup withdrawn'
           /\ outbox' # {} => flush' # Idle
           /\ flush'.pc # "idle" =>
                 flush'.msg \in outbox' /\ \A y \in outbox' : flush'.msg <= y
  <1> PICK due \in SUBSET (o \cap Expiring) :
        /\ outbox' = o \ due
        /\ withdrawn' = withdrawn \cup due
        /\ \/ outbox' = {} /\ flush' = Idle
           \/ \E m \in outbox' : /\ \A y \in outbox' : m <= y
                                 /\ flush' = [pc |-> "sending", msg |-> m]
    BY DEF Continue
  <1>1. composed \in Nat /\ withdrawn \in SUBSET (1..composed) BY MessagesTyped DEF TypeOK
  <1>2. withdrawn' \in SUBSET (1..k) BY <1>1
  <1>3. ASSUME NEW m \in outbox', \A y \in outbox' : m <= y,
               flush' = [pc |-> "sending", msg |-> m]
        PROVE  /\ flush' \in Passes /\ flush'.pc = "sending" /\ flush' # Idle
               /\ flush'.msg \in outbox' /\ \A y \in outbox' : flush'.msg <= y
    <2>1. m \in Msgs BY <1>1, MessagesTyped DEF Msgs
    <2>2. flush'.pc = "sending" /\ flush'.msg = m BY <1>3
    <2>3. flush' # Idle BY <2>2 DEF Idle
    <2>4. flush' \in Passes BY <1>3, <2>1 DEF Passes
    <2> QED BY <1>3, <2>2, <2>3, <2>4
  <1>4. CASE outbox' = {} /\ flush' = Idle
    BY <1>2, <1>4 DEF Passes, Idle
  <1>5. CASE \E m \in outbox' : /\ \A y \in outbox' : m <= y
                                /\ flush' = [pc |-> "sending", msg |-> m]
    BY <1>2, <1>3, <1>5
  <1> QED BY <1>4, <1>5

\* What flush() does: a pass in progress stays where it is.
LEMMA FlushFacts ==
    ASSUME TypeOK, NEW k \in composed..N, NEW o \in SUBSET (1..k), Flush(o)
    PROVE  /\ outbox' \in SUBSET o /\ flush' \in Passes
           /\ withdrawn' \in SUBSET (1..k) /\ withdrawn \subseteq withdrawn'
           /\ o \subseteq outbox' \cup withdrawn'
           /\ outbox' # {} => flush' # Idle
           /\ \/ flush' = flush /\ flush # Idle
              \/ /\ flush = Idle /\ flush'.pc \in {"idle", "sending"}
                 /\ flush'.pc # "idle" =>
                       flush'.msg \in outbox' /\ \A y \in outbox' : flush'.msg <= y
  <1>1. CASE flush = Idle /\ Continue(o) BY <1>1, ContinueFacts
  <1>2. CASE flush # Idle /\ outbox' = o /\ UNCHANGED <<flush, withdrawn>>
    <2>1. composed \in Nat /\ withdrawn \in SUBSET (1..composed) BY MessagesTyped DEF TypeOK
    <2>2. withdrawn' \in SUBSET (1..k) BY <1>2, <2>1
    <2> QED BY <1>2, <2>2 DEF TypeOK
  <1> QED BY <1>1, <1>2 DEF Flush

\* A rejected emit ends the pass or blocks it for good.
LEMMA RejectedFacts ==
    ASSUME TypeOK, flush.pc \in {"sending", "waiting"}, EmitRejected
    PROVE  /\ flush' \in Passes /\ retry' \in BOOLEAN
           /\ UNCHANGED <<outbox, withdrawn>>
           /\ flush'.pc = "stuck" => jitter
           /\ flush'.pc \in {"idle", "stuck"}
           /\ flush' # Idle \/ retry'
           /\ flush'.pc # "idle" => flush'.msg = flush.msg
  <1>1. CASE jitter
    <2>1. flush \in [pc : {"sending", "waiting", "stuck"}, msg : Msgs]
      BY DEF TypeOK, Passes, Idle
    <2>2. flush' = [flush EXCEPT !.pc = "stuck"] /\ UNCHANGED <<outbox, retry, withdrawn>>
      BY <1>1 DEF EmitRejected
    <2>3. flush' \in [pc : {"stuck"}, msg : Msgs] /\ flush'.msg = flush.msg BY <2>1, <2>2
    <2> QED BY <1>1, <2>2, <2>3 DEF Passes, Idle, TypeOK
  <1>2. CASE ~jitter
    BY <1>2 DEF EmitRejected, Requeue, Passes, Idle
  <1> QED BY <1>1, <1>2

\* What a handler does first: it takes the message that is next.
LEMMA TakeFacts ==
    ASSUME TypeOK, NEW c \in Conns, Take(c)
    PROVE  /\ net[c] # <<>> /\ net[c] \in Seq(Msgs) /\ Head(net[c]) \in Msgs
           /\ net' \in [Conns -> Seq(Msgs)] /\ net'[c] = Tail(net[c])
           /\ \A d \in Conns : d # c => net'[d] = net[d]
           /\ reading' \in [Conns -> Nat]
           /\ UNCHANGED <<jitter, composed, clientVars, rejoined, conn, open, bound>>
  <1>1. net \in [Conns -> Seq(Msgs)] /\ reading \in [Conns -> Nat] BY DEF TypeOK
  <1>2. net[c] # <<>> /\ net' = [net EXCEPT ![c] = Tail(net[c])] BY DEF Take
  <1>3. reading' \in [Conns -> Nat]
    <2>1. CASE reading[c] > 0 /\ reading' = [reading EXCEPT ![c] = @ - 1]
      <3>1. reading[c] - 1 \in Nat BY <1>1, <2>1
      <3> QED BY <1>1, <2>1, <3>1
    <2>2. CASE \E n \in 0..(Len(net[c]) - 1) : reading' = [reading EXCEPT ![c] = n]
      BY <1>1, <2>2
    <2> QED BY <2>1, <2>2 DEF Take
  <1>4. UNCHANGED <<jitter, composed, clientVars, rejoined, conn, open, bound>> BY DEF Take
  <1>5. net[c] \in Seq(Msgs) /\ net'[c] = Tail(net[c]) /\ \A d \in Conns : d # c => net'[d] = net[d]
    BY <1>1, <1>2
  <1>6. Head(net[c]) \in Msgs /\ Tail(net[c]) \in Seq(Msgs) BY <1>2, <1>5
  <1>7. net' \in [Conns -> Seq(Msgs)] BY <1>1, <1>2, <1>6
  <1> QED BY <1>2, <1>3, <1>4, <1>5, <1>6, <1>7

\* The message a broadcast is about.
LEMMA BroadcastMessage ==
    ASSUME TypeOK, Broadcast
    PROVE  /\ Head(handling) \in Msgs /\ handling # <<>> /\ handling \in Seq(Msgs)
           /\ delivered' = delivered \cup {Head(handling)}
  BY DEF Broadcast, TypeOK

-----------------------------------------------------------------------------
(* Type correctness *)

\* Every step keeps the types.
LEMMA TypeStep ==
    ASSUME TypeOK, [Next]_vars
    PROVE  TypeOK'
  <1> USE DEF clientVars, linkVars, serverVars
  <1>0. composed \in Nat /\ N \in Nat /\ composed <= N /\ outbox \in SUBSET (1..composed)
        /\ composed \in composed..N
    BY MessagesTyped DEF TypeOK
  <1>1. CASE Compose
    <2>1. composed + 1 \in composed..N /\ composed' = composed + 1 BY <1>0, <1>1 DEF Compose
    <2>2. outbox \cup {composed + 1} \in SUBSET (1..(composed + 1)) BY <1>0
    <2>3. Flush(outbox \cup {composed + 1}) BY <1>1 DEF Compose
    <2>4. /\ flush' \in Passes /\ outbox' \in SUBSET (1..composed')
          /\ withdrawn' \in SUBSET (1..composed')
          /\ flush' = flush \/ (flush'.pc \in {"idle", "sending"} /\ flush = Idle)
      BY <2>1, <2>2, <2>3, FlushFacts
    <2> QED BY <1>0, <1>1, <2>1, <2>4 DEF Compose, TypeOK, Idle
  <1>2. CASE EncryptFails
    BY <1>2 DEF EncryptFails, Requeue, TypeOK, Passes, Idle
  <1>3. CASE Emit
    <2>1. flush' = [flush EXCEPT !.pc = "waiting"] /\ flush.pc = "sending" BY <1>3 DEF Emit
    <2>2. flush \in [pc : {"sending"}, msg : Msgs] BY <2>1 DEF TypeOK, Passes, Idle
    <2>3. flush' \in [pc : {"waiting"}, msg : Msgs] BY <2>1, <2>2
    <2>4. net' \in [Conns -> Seq(Msgs)] BY <1>3, <2>2 DEF Emit, TypeOK
    <2> QED BY <1>3, <2>3, <2>4 DEF Emit, TypeOK, Passes
  <1>4. CASE EmitOffline
    BY <1>4, RejectedFacts DEF EmitOffline, TypeOK
  <1>5. CASE GiveUp
    BY <1>5, RejectedFacts DEF GiveUp, TypeOK
  <1>6. CASE ReadAck
    <2>1. outbox \ {flush.msg} \in SUBSET (1..composed) BY <1>0
    <2>2. /\ flush' \in Passes /\ outbox' \in SUBSET (1..composed)
          /\ withdrawn' \in SUBSET (1..composed) /\ flush'.pc \in {"idle", "sending"}
      BY <1>0, <1>6, <2>1, ContinueFacts DEF ReadAck
    <2> QED BY <1>6, <2>2 DEF ReadAck, TypeOK
  <1>7. CASE ReadNak
    BY <1>7 DEF ReadNak, Requeue, TypeOK, Passes, Idle
  <1>8. ASSUME ReadJoined \/ RetryTimer PROVE TypeOK'
    <2>1. /\ flush' \in Passes /\ outbox' \in SUBSET (1..composed)
          /\ withdrawn' \in SUBSET (1..composed)
          /\ flush' = flush \/ (flush'.pc \in {"idle", "sending"} /\ flush = Idle)
      BY <1>0, <1>8, FlushFacts DEF ReadJoined, RetryTimer
    <2>2. /\ UNCHANGED <<jitter, composed, answer, echoes, linkVars, bound, serverVars>>
          /\ rejoined' \in BOOLEAN /\ retry' \in BOOLEAN
      BY <1>8 DEF ReadJoined, RetryTimer, TypeOK
    <2> QED BY <2>1, <2>2 DEF TypeOK, Idle
  <1>9. CASE Clear
    BY <1>9 DEF Clear, TypeOK
  <1>10. ASSUME NEW m \in Msgs, ReadEcho(m) \/ Forget(m) PROVE TypeOK'
    BY <1>10 DEF ReadEcho, Forget, TypeOK
  <1>11. CASE Disconnect
    <2>1. CASE flush.pc = "waiting"
      BY <1>11, <2>1, RejectedFacts DEF Disconnect, TypeOK
    <2>2. CASE flush.pc # "waiting"
      BY <1>11, <2>2 DEF Disconnect, TypeOK
    <2> QED BY <2>1, <2>2
  <1>12. ASSUME NEW c \in Conns, Connect(c) \/ Bind(c) PROVE TypeOK'
    BY <1>12, NoneIsNoConn DEF Connect, Bind, TypeOK
  <1>13. ASSUME NEW c \in Conns, Drop(c) PROVE TypeOK'
    BY <1>13 DEF Drop, TypeOK
  <1>14. ASSUME NEW c \in Conns, Receive(c) PROVE TypeOK'
    <2>1. Take(c) BY <1>14 DEF Receive, NotInRoom, Duplicate, RateLimited, Accept
    <2>2. \/ answer' = answer
          \/ answer' \in {"due", "ack", "nak"} /\ flush.pc = "waiting" /\ conn = c
      BY <1>14 DEF Receive, NotInRoom, Duplicate, RateLimited, Accept, Reply, Awaited
    <2>3. handling' \in Seq(Msgs)
      <3>1. handling' = handling \/ handling' = Append(handling, Head(net[c]))
        BY <1>14 DEF Receive, NotInRoom, Duplicate, RateLimited, Accept
      <3>2. handling \in Seq(Msgs) /\ Head(net[c]) \in Msgs BY <2>1, TakeFacts DEF TypeOK
      <3> QED BY <3>1, <3>2
    <2>4. UNCHANGED <<echoes, seen, delivered, forgotten>>
      BY <1>14 DEF Receive, NotInRoom, Duplicate, RateLimited, Accept
    <2> QED BY <2>1, <2>2, <2>3, <2>4, TakeFacts, NoneIsNoConn DEF TypeOK
  <1>18. CASE Broadcast
    <2>1. handling' \in Seq(Msgs) BY <1>18, BroadcastMessage DEF Broadcast
    <2>2. answer' = answer \/ (answer = "due" /\ answer' = "ack") BY <1>18 DEF Broadcast
    <2>3. seen' \in SUBSET Msgs /\ delivered' \in SUBSET Msgs /\ echoes' \in SUBSET Msgs
      BY <1>18, BroadcastMessage DEF Broadcast, TypeOK
    <2>4. UNCHANGED <<jitter, composed, clientVars, rejoined, linkVars, bound, forgotten>>
      BY <1>18 DEF Broadcast
    <2> QED BY <2>1, <2>2, <2>3, <2>4 DEF TypeOK
  <1>15. CASE UNCHANGED vars
    BY <1>15 DEF vars, TypeOK
  <1>16. CASE \/ \E m \in Msgs : ReadEcho(m) \/ Forget(m)
              \/ \E c \in Conns : Connect(c) \/ Drop(c) \/ Bind(c) \/ Receive(c)
    BY <1>10, <1>12, <1>13, <1>14, <1>16
  <1>17. CASE Next
    BY <1>1, <1>2, <1>3, <1>4, <1>5, <1>6, <1>7, <1>8, <1>9, <1>11, <1>16, <1>17, <1>18
       DEF Next, Client, Link
  <1> QED BY <1>15, <1>17

\* The state variables keep their types: an acknowledgement only ever reaches
\* the emit that waits for it, on the connection it was made on.
THEOREM TypeCorrect == Spec => []TypeOK
  <1>1. Init => TypeOK
    <2> SUFFICES ASSUME Init PROVE TypeOK OBVIOUS
    <2>1. net \in [Conns -> Seq(Msgs)] BY DEF Init
    <2>2. 0 \in 0..N BY MessagesTyped
    <2>3. flush = Idle /\ flush \in Passes BY DEF Init, Passes
    <2>4. reading \in [Conns -> Nat] /\ handling \in Seq(Msgs) /\ delivered = {} BY DEF Init
    <2>5. flush.pc = "idle" BY <2>3 DEF Idle
    <2>6. /\ jitter \in Jitters /\ composed = 0 /\ outbox = {} /\ retry = FALSE /\ conn = None
          /\ answer = "none" /\ echoes = {} /\ rejoined = FALSE /\ open = {} /\ bound = {}
          /\ seen = {} /\ withdrawn = {} /\ forgotten = {}
      BY DEF Init
    <2> QED BY <2>1, <2>2, <2>3, <2>4, <2>5, <2>6 DEF TypeOK
  <1>2. TypeOK /\ [Next]_vars => TypeOK'
    BY TypeStep
  <1> QED BY <1>1, <1>2, PTL DEF Spec
-----------------------------------------------------------------------------
(* What the room has is not sent to it again *)

\* The strengthening: the ids of the delivered messages are recorded, but for
\* those forgotten, and nothing recorded or forgotten is undelivered.
Recorded == delivered = seen \cup forgotten

\* Only a broadcast and the loss of an id touch the server's memory.
LEMMA ServerSteps ==
    ASSUME [Next]_vars
    PROVE  \/ UNCHANGED <<seen, delivered, forgotten>>
           \/ \E m \in Msgs : Forget(m)
           \/ Broadcast
  BY DEF Next, Client, Link, vars, serverVars, Compose, EncryptFails, Emit, EmitOffline, GiveUp,
     ReadAck, ReadNak, ReadJoined, RetryTimer, Clear, ReadEcho, Disconnect, Connect, Drop, Bind,
     Receive, NotInRoom, Duplicate, RateLimited, Accept

\* Every step keeps the record.
LEMMA RecordedStep ==
    ASSUME Recorded, [Next]_vars
    PROVE  Recorded'
  <1>1. CASE UNCHANGED <<seen, delivered, forgotten>> BY <1>1 DEF Recorded
  <1>2. ASSUME NEW m \in Msgs, Forget(m) PROVE Recorded'
    BY <1>2 DEF Forget, Recorded
  <1>3. CASE Broadcast BY <1>3 DEF Broadcast, Recorded
  <1> QED BY <1>1, <1>2, <1>3, ServerSteps

\* What is handled after a step was handled before it, or is accepted by it.
LEMMA HandledSteps ==
    ASSUME TypeOK, [Next]_vars
    PROVE  \/ handling' = handling
           \/ handling # <<>> /\ handling' = Tail(handling)
           \/ \E c \in Conns : Accept(c)
  BY DEF Next, Client, Link, vars, serverVars, Compose, EncryptFails, Emit, EmitOffline, GiveUp,
     ReadAck, ReadNak, ReadJoined, RetryTimer, Clear, ReadEcho, Disconnect, Connect, Drop, Bind,
     Receive, NotInRoom, Duplicate, RateLimited, Broadcast, Forget

\* A message the room has is not accepted again, however often and over
\* however many connections the outbox sends it, unless its id was dropped in
\* between (index.js: the dedup of send-message).
THEOREM NoRepeatHolds == Spec => NoRepeat
  <1>1. Init => Recorded BY DEF Init, Recorded
  <1>2. Recorded /\ [Next]_vars => Recorded' BY RecordedStep
  <1>3. ASSUME TypeOK, Recorded, [Next]_vars
        PROVE  \A m \in delivered \ forgotten : Handled(m)' => Handled(m)
    <2> SUFFICES ASSUME NEW m \in delivered \ forgotten, Handled(m)' PROVE Handled(m)
      OBVIOUS
    <2>0. handling \in Seq(Msgs) BY <1>3 DEF TypeOK
    <2>1. PICK i \in DOMAIN handling' : handling'[i] = m BY DEF Handled
    <2>2. CASE handling' = handling BY <2>1, <2>2 DEF Handled
    <2>3. CASE handling # <<>> /\ handling' = Tail(handling)
      <3> DEFINE s == handling
      <3>1. s \in Seq(Msgs) /\ s # <<>> /\ handling' = Tail(s) BY <2>0, <2>3
      <3> HIDE DEF s
      <3>2. i + 1 \in DOMAIN s /\ s[i + 1] = m BY <2>1, <3>1
      <3> QED BY <3>2 DEF s, Handled
    <2>4. ASSUME NEW c \in Conns, Accept(c) PROVE Handled(m)
      <3>1. handling' = Append(handling, Head(net[c])) /\ Head(net[c]) \notin seen
        BY <2>4 DEF Accept
      <3>2. m \in seen BY <1>3 DEF Recorded
      <3>3. Head(net[c]) # m BY <3>1, <3>2
      <3>4. i \in DOMAIN handling /\ handling[i] = m BY <2>0, <2>1, <3>1, <3>3
      <3> QED BY <3>4 DEF Handled
    <2> QED BY <1>3, <2>2, <2>3, <2>4, HandledSteps
  <1>4. TypeOK /\ Recorded /\ [Next]_vars
        => [\A m \in delivered \ forgotten : Handled(m)' => Handled(m)]_vars
    BY <1>3
  <1> QED BY <1>1, <1>2, <1>4, TypeCorrect, PTL DEF Spec, NoRepeat

-----------------------------------------------------------------------------
(* No message waits for ever for somebody to call flush *)

\* Every step leaves a pass in progress or a timer for what is queued.
LEMMA NoneStrandedStep ==
    ASSUME TypeOK, NoneStranded, [Next]_vars
    PROVE  NoneStranded'
  <1> USE DEF clientVars, linkVars, serverVars
  <1>0. composed \in Nat /\ N \in Nat /\ composed <= N /\ outbox \in SUBSET (1..composed)
        /\ composed \in composed..N
    BY MessagesTyped DEF TypeOK
  <1>1. CASE Compose
    <2>1. composed + 1 \in composed..N BY <1>0, <1>1 DEF Compose
    <2>2. outbox \cup {composed + 1} \in SUBSET (1..(composed + 1)) BY <1>0
    <2>3. Flush(outbox \cup {composed + 1}) BY <1>1 DEF Compose
    <2> QED BY <2>1, <2>2, <2>3, FlushFacts DEF NoneStranded
  <1>2. CASE ReadJoined \/ RetryTimer
    BY <1>0, <1>2, FlushFacts DEF ReadJoined, RetryTimer, NoneStranded
  <1>3. CASE ReadAck
    <2>1. outbox \ {flush.msg} \in SUBSET (1..composed) BY <1>0
    <2> QED BY <1>0, <1>3, <2>1, ContinueFacts DEF ReadAck, NoneStranded
  <1>4. CASE EncryptFails \/ ReadNak
    BY <1>4 DEF EncryptFails, ReadNak, Requeue, NoneStranded
  <1>5. CASE EmitOffline \/ GiveUp
    BY <1>5, RejectedFacts DEF EmitOffline, GiveUp, NoneStranded
  <1>6. CASE Emit
    <2>1. flush \in [pc : {"sending"}, msg : Msgs] BY <1>6 DEF Emit, TypeOK, Passes, Idle
    <2>2. flush'.pc = "waiting" BY <1>6, <2>1 DEF Emit
    <2> QED BY <2>2 DEF NoneStranded, Idle
  <1>7. CASE Disconnect
    BY <1>7, RejectedFacts DEF Disconnect, NoneStranded
  <1>8. CASE Clear \/ \E m \in Msgs : ReadEcho(m) \/ Forget(m)
    BY <1>8 DEF Clear, ReadEcho, Forget, NoneStranded
  <1>9. CASE Broadcast \/ \E c \in Conns : Connect(c) \/ Drop(c) \/ Bind(c) \/ Receive(c)
    BY <1>9 DEF Connect, Drop, Bind, Receive, NotInRoom, Duplicate, RateLimited, Accept, Take,
       Broadcast, NoneStranded
  <1>10. CASE UNCHANGED vars
    BY <1>10 DEF vars, NoneStranded
  <1> QED
    BY <1>1, <1>2, <1>3, <1>4, <1>5, <1>6, <1>7, <1>8, <1>9, <1>10 DEF Next, Client, Link

\* Whatever ended a pass (an answer, a time-out, a lost connection, a missing
\* key), what is queued has a timer (message-outbox.js, _scheduleRetry).
THEOREM NoneStrandedHolds == Spec => []NoneStranded
  <1>1. Init => NoneStranded BY DEF Init, NoneStranded
  <1>2. TypeOK /\ NoneStranded /\ [Next]_vars => NoneStranded' BY NoneStrandedStep
  <1> QED BY <1>1, <1>2, TypeCorrect, PTL DEF Spec
-----------------------------------------------------------------------------
(* What the client knows of its messages is true *)

\* A connection the server does not have carries nothing; and what is last on
\* the connection of a waiting emit is the message it waits for.
LastSent ==
    /\ \A c \in Conns \ open : net[c] = <<>>
    /\ flush.pc = "waiting" /\ conn \in Conns /\ net[conn] # <<>> =>
          net[conn][Len(net[conn])] = flush.msg

\* Every step keeps the last message last.
LEMMA LastSentStep ==
    ASSUME TypeOK, LastSent, [Next]_vars
    PROVE  LastSent'
  <1> USE DEF clientVars, linkVars, serverVars
  <1>1. CASE Emit
    <2>1. flush \in [pc : {"sending"}, msg : Msgs] BY <1>1 DEF Emit, TypeOK, Passes, Idle
    <2>2. flush'.msg = flush.msg BY <1>1, <2>1 DEF Emit
    <2>3. conn \in Conns BY <1>1 DEF Emit, TypeOK
    <2>4. CASE conn \in open
      <3>1. net[conn] \in Seq(Msgs) BY <2>3 DEF TypeOK
      <3>2. net'[conn] = Append(net[conn], flush.msg) BY <1>1, <2>3, <2>4 DEF Emit, TypeOK
      <3>3. net'[conn][Len(net'[conn])] = flush.msg BY <2>1, <3>1, <3>2
      <3>4. \A c \in Conns : c # conn => net'[c] = net[c] BY <1>1, <2>4 DEF Emit, TypeOK
      <3> QED BY <1>1, <2>2, <2>4, <3>3, <3>4 DEF Emit, LastSent
    <2>5. CASE conn \notin open
      BY <1>1, <2>3, <2>5 DEF Emit, LastSent
    <2> QED BY <2>4, <2>5
  <1>2. ASSUME UNCHANGED linkVars, flush' = flush \/ flush'.pc # "waiting" PROVE LastSent'
    BY <1>2 DEF LastSent
  <1>3. CASE Compose \/ ReadJoined \/ RetryTimer
    <2>1. composed \in Nat /\ N \in Nat /\ composed \in composed..N
          /\ outbox \in SUBSET (1..composed)
      BY MessagesTyped DEF TypeOK
    <2>2. CASE Compose
      <3>1. composed + 1 \in composed..N BY <2>1, <2>2 DEF Compose
      <3>2. outbox \cup {composed + 1} \in SUBSET (1..(composed + 1)) BY <2>1
      <3>3. flush' = flush \/ flush'.pc # "waiting" BY <2>2, <3>1, <3>2, FlushFacts DEF Compose
      <3> QED BY <1>2, <2>2, <3>3 DEF Compose
    <2>3. CASE ReadJoined \/ RetryTimer
      <3>1. flush' = flush \/ flush'.pc # "waiting"
        BY <2>1, <2>3, FlushFacts DEF ReadJoined, RetryTimer
      <3> QED BY <1>2, <2>3, <3>1 DEF ReadJoined, RetryTimer
    <2> QED BY <1>3, <2>2, <2>3
  <1>4. CASE ReadAck
    <2>1. /\ composed \in Nat /\ N \in Nat /\ composed \in composed..N
          /\ outbox \in SUBSET (1..composed)
      BY MessagesTyped DEF TypeOK
    <2>2. outbox \ {flush.msg} \in SUBSET (1..composed) BY <2>1
    <2>3. flush'.pc # "waiting" BY <1>4, <2>1, <2>2, ContinueFacts DEF ReadAck
    <2> QED BY <1>2, <1>4, <2>3 DEF ReadAck
  <1>5. CASE EncryptFails \/ ReadNak
    BY <1>2, <1>5 DEF EncryptFails, ReadNak, Requeue, Idle
  <1>6. CASE EmitOffline \/ GiveUp
    <2>1. flush'.pc # "waiting" BY <1>6, RejectedFacts DEF EmitOffline, GiveUp
    <2> QED BY <1>2, <1>6, <2>1 DEF EmitOffline, GiveUp
  <1>7. CASE Clear \/ \E m \in Msgs : ReadEcho(m) \/ Forget(m)
    BY <1>2, <1>7 DEF Clear, ReadEcho, Forget
  <1>8. CASE Disconnect
    BY <1>8, NoneIsNoConn DEF Disconnect, LastSent
  <1>9. ASSUME NEW c \in Conns, Connect(c) \/ Bind(c) PROVE LastSent'
    BY <1>9 DEF Connect, Bind, LastSent
  <1>10. ASSUME NEW c \in Conns, Drop(c) PROVE LastSent'
    BY <1>10 DEF Drop, LastSent, TypeOK
  <1>11. ASSUME NEW c \in Conns, Receive(c) PROVE LastSent'
    <2>1. /\ net[c] # <<>> /\ net[c] \in Seq(Msgs) /\ net'[c] = Tail(net[c])
          /\ \A d \in Conns : d # c => net'[d] = net[d]
          /\ UNCHANGED <<flush, conn, open>>
      BY <1>11, TakeFacts DEF Receive, NotInRoom, Duplicate, RateLimited, Accept
    <2>2. net'[c] # <<>> => net'[c][Len(net'[c])] = net[c][Len(net[c])]
      <3> DEFINE s == net[c]
      <3>1. s \in Seq(Msgs) /\ s # <<>> /\ net'[c] = Tail(s) BY <2>1
      <3> HIDE DEF s
      <3>2. net'[c] # <<>> => net'[c][Len(net'[c])] = s[Len(s)] BY <3>1
      <3> QED BY <3>2 DEF s
    <2>3. c \in open BY <2>1 DEF LastSent
    <2> QED BY <2>1, <2>2, <2>3 DEF LastSent
  <1>12. CASE UNCHANGED vars \/ Broadcast
    BY <1>12 DEF vars, Broadcast, LastSent
  <1> QED
    BY <1>1, <1>3, <1>4, <1>5, <1>6, <1>7, <1>8, <1>9, <1>10, <1>11, <1>12
       DEF Next, Client, Link

\* A read is of one connection and of what has arrived; and an answer that is
\* due is the one of the last message handled.
OneRead ==
    /\ \A c \in Conns : reading[c] <= Len(net[c])
    /\ \A c, d \in Conns : reading[c] > 0 /\ reading[d] > 0 => c = d
    /\ answer = "due" => /\ AllRead /\ handling # <<>>
                         /\ handling[Len(handling)] = flush.msg

\* Every step keeps it so.
LEMMA OneReadStep ==
    ASSUME TypeOK, LastSent, OneRead, [Next]_vars
    PROVE  OneRead'
  <1> USE DEF clientVars, linkVars, serverVars
  <1>0. TypeOK' BY TypeStep
  <1>1. CASE Quiet /\ (Client \/ Link)
    <2>1. /\ UNCHANGED <<reading, handling>>
          /\ answer' = answer \/ answer' = "none"
      BY <1>1 DEF Client, Link, Compose, EncryptFails, Emit, EmitOffline, GiveUp, ReadAck, ReadNak,
         ReadJoined, RetryTimer, Clear, ReadEcho, Disconnect, Connect, Drop, Bind
    <2>2. answer # "due" /\ \A c \in Conns : reading[c] = 0
      BY <1>1 DEF Quiet, AllRead, OneRead
    <2>3. \A c \in Conns : Len(net'[c]) \in Nat BY <1>0 DEF TypeOK
    <2> QED BY <2>1, <2>2, <2>3 DEF OneRead
  <1>2. CASE Broadcast
    <2>1. UNCHANGED <<reading, net, flush>> /\ AllRead /\ handling # <<>>
          /\ handling' = Tail(handling) /\ handling \in Seq(Msgs)
      BY <1>2 DEF Broadcast, TypeOK
    <2>2. ASSUME answer' = "due"
          PROVE  handling' # <<>> /\ handling'[Len(handling')] = flush'.msg
      <3>1. answer = "due" /\ Len(handling) # 1 BY <1>2, <2>2 DEF Broadcast
      <3>2. handling[Len(handling)] = flush.msg BY <3>1 DEF OneRead
      <3> DEFINE s == handling
      <3>3. s \in Seq(Msgs) /\ s # <<>> /\ handling' = Tail(s) BY <2>1
      <3>4. Len(s) # 1 BY <3>1
      <3> HIDE DEF s
      <3>5. Len(s) \in Nat /\ Len(s) # 0 BY <3>3, EmptySeq
      <3>6. Len(s) - 1 \in 1..Len(s) BY <3>4, <3>5
      <3>7. Len(Tail(s)) = Len(s) - 1 /\ Tail(s) \in Seq(Msgs) BY <3>3, HeadTailProperties
      <3>8. Tail(s)[Len(s) - 1] = s[Len(s)] BY <3>3, <3>5, <3>6, <3>7, HeadTailProperties
      <3>9. Tail(s) # <<>>
        <4>1. Len(Tail(s)) # 0 BY <3>6, <3>7
        <4>2. Len(<<>>) = 0 BY EmptySeq
        <4> QED BY <4>1, <4>2, Zenon
      <3>10. handling' # <<>> /\ handling'[Len(handling')] = s[Len(s)] BY <3>3, <3>7, <3>8, <3>9
      <3> QED BY <2>1, <3>2, <3>10 DEF s
    <2> QED BY <2>1, <2>2 DEF OneRead, AllRead
  <1>3. ASSUME NEW c \in Conns, Receive(c) PROVE OneRead'
    <2>1. Take(c) BY <1>3 DEF Receive, NotInRoom, Duplicate, RateLimited, Accept
    <2>2. net[c] # <<>> /\ net[c] \in Seq(Msgs) /\ Len(net'[c]) = Len(net[c]) - 1
          /\ \A d \in Conns : d # c => net'[d] = net[d]
      <3> DEFINE s == net[c]
      <3>1. s \in Seq(Msgs) /\ s # <<>> /\ net'[c] = Tail(s)
            /\ \A d \in Conns : d # c => net'[d] = net[d]
        BY <2>1, TakeFacts
      <3> HIDE DEF s
      <3>2. Len(Tail(s)) = Len(s) - 1 BY <3>1
      <3> QED BY <3>1, <3>2 DEF s
    <2>3. reading \in [Conns -> Nat] BY DEF TypeOK
    <2>4. /\ reading'[c] \in 0..(Len(net[c]) - 1)
          /\ \A d \in Conns : d # c => reading'[d] = reading[d] /\ reading[d] = 0
      <3>1. CASE reading[c] > 0 /\ reading' = [reading EXCEPT ![c] = @ - 1]
        <4>1. reading[c] <= Len(net[c]) /\ \A d \in Conns : reading[d] > 0 => d = c
          BY <3>1 DEF OneRead
        <4>2. reading[c] \in Nat /\ Len(net[c]) \in Nat /\ reading'[c] = reading[c] - 1
          BY <2>2, <2>3, <3>1
        <4>3. \A d \in Conns : d # c => reading'[d] = reading[d] /\ reading[d] = 0
          BY <2>3, <3>1, <4>1
        <4> QED BY <3>1, <4>1, <4>2, <4>3
      <3>2. CASE Quiet /\ \E n \in 0..(Len(net[c]) - 1) : reading' = [reading EXCEPT ![c] = n]
        BY <2>3, <3>2 DEF Quiet, AllRead
      <3> QED BY <2>1, <3>1, <3>2 DEF Take
    <2>5. /\ \A d \in Conns : reading'[d] <= Len(net'[d])
          /\ \A d, e \in Conns : reading'[d] > 0 /\ reading'[e] > 0 => d = e
      <3>1. Len(net[c]) \in Nat /\ \A d \in Conns : Len(net'[d]) \in Nat
        BY <1>0, <2>2 DEF TypeOK
      <3>2. \A d \in Conns : d # c => reading'[d] = 0 BY <2>4
      <3>3. \A d \in Conns : reading'[d] <= Len(net'[d]) BY <2>2, <2>4, <3>1, <3>2
      <3> QED BY <3>2, <3>3
    <2>6. answer # "due"
      <3>1. reading[c] > 0 \/ Quiet BY <2>1 DEF Take
      <3>2. answer = "due" => reading[c] = 0 /\ handling # <<>> BY DEF OneRead, AllRead
      <3> QED BY <3>1, <3>2 DEF Quiet
    <2>7. ASSUME answer' = "due"
          PROVE  /\ \A d \in Conns : reading'[d] = 0
                 /\ handling' # <<>> /\ handling'[Len(handling')] = flush'.msg
      <3>1. Accept(c) /\ Awaited(c)
        BY <1>3, <2>6, <2>7 DEF Receive, NotInRoom, Duplicate, RateLimited, Accept, Reply
      <3>2. handling' = Append(handling, Head(net[c])) /\ flush' = flush
        BY <2>1, <3>1, TakeFacts DEF Accept
      <3>3. Len(net[c]) = 1 /\ conn = c /\ flush.pc = "waiting" BY <3>1 DEF Awaited
      <3>4. Head(net[c]) = flush.msg BY <2>2, <3>3 DEF LastSent
      <3>5. handling \in Seq(Msgs) /\ Head(net[c]) \in Msgs BY <2>1, TakeFacts DEF TypeOK
      <3> QED BY <2>4, <3>2, <3>3, <3>4, <3>5
    <2> QED BY <2>5, <2>7 DEF OneRead, AllRead
  <1>4. CASE UNCHANGED vars \/ \E m \in Msgs : Forget(m)
    BY <1>4 DEF vars, Forget, OneRead, AllRead
  <1> QED BY <1>1, <1>2, <1>3, <1>4 DEF Next

\* An acknowledgement on its way and an echo are of messages the room has.
Truthful ==
    /\ answer = "ack" => flush.msg \in delivered
    /\ echoes \subseteq delivered

\* A message the room has stays one.
LEMMA DeliveredSteps ==
    ASSUME [Next]_vars
    PROVE  /\ delivered \subseteq delivered'
           /\ UNCHANGED delivered \/ Broadcast
  BY ServerSteps DEF Forget, Broadcast

\* Every step keeps it so.
LEMMA TruthfulStep ==
    ASSUME TypeOK, Recorded, LastSent, OneRead, Truthful, [Next]_vars
    PROVE  Truthful'
  <1> USE DEF clientVars, linkVars, serverVars
  <1>0. delivered \subseteq delivered' BY DeliveredSteps
  <1>1. ASSUME echoes' \subseteq echoes,
               answer' = "none" \/ (answer' = answer /\ flush' = flush)
        PROVE  Truthful'
    BY <1>0, <1>1 DEF Truthful
  <1>2. CASE EmitOffline \/ EncryptFails \/ Emit
    BY <1>1, <1>2 DEF EmitOffline, EncryptFails, Emit, TypeOK
  <1>3. CASE GiveUp \/ ReadAck \/ ReadNak \/ Disconnect \/ Clear
    BY <1>1, <1>3 DEF GiveUp, ReadAck, ReadNak, Disconnect, Clear
  <1>4. CASE Compose \/ ReadJoined \/ RetryTimer
    BY <1>1, <1>4 DEF Compose, ReadJoined, RetryTimer, Flush, TypeOK, Idle
  <1>5. CASE \/ \E m \in Msgs : ReadEcho(m) \/ Forget(m)
             \/ \E c \in Conns : Connect(c) \/ Drop(c) \/ Bind(c)
    BY <1>1, <1>5 DEF ReadEcho, Forget, Connect, Drop, Bind
  <1>6. ASSUME NEW c \in Conns, Receive(c) PROVE Truthful'
    <2>1. Take(c) /\ UNCHANGED echoes
      BY <1>6 DEF Receive, NotInRoom, Duplicate, RateLimited, Accept
    <2>2. net[c] # <<>> /\ net[c] \in Seq(Msgs) /\ flush' = flush BY <2>1, TakeFacts
    <2>3. ASSUME answer' = "ack", answer # "ack" PROVE flush.msg \in delivered
      <3>1. Duplicate(c) /\ Awaited(c)
        BY <1>6, <2>3 DEF Receive, NotInRoom, Duplicate, RateLimited, Accept, Reply
      <3>2. Head(net[c]) = flush.msg BY <2>2, <3>1 DEF Awaited, LastSent
      <3> QED BY <3>1, <3>2 DEF Duplicate, Recorded
    <2> QED BY <1>0, <2>1, <2>2, <2>3 DEF Truthful
  <1>8. CASE Broadcast
    <2>1. Head(handling) \in delivered' /\ handling \in Seq(Msgs) /\ handling # <<>> /\ flush' = flush
      BY <1>8, BroadcastMessage DEF Broadcast
    <2>2. ASSUME answer' = "ack", answer # "ack" PROVE flush.msg \in delivered'
      <3>1. answer = "due" /\ Len(handling) = 1 BY <1>8, <2>2 DEF Broadcast
      <3>2. Head(handling) = flush.msg BY <2>1, <3>1 DEF OneRead
      <3> QED BY <2>1, <3>2
    <2>3. echoes' \subseteq echoes \cup {Head(handling)} BY <1>8 DEF Broadcast
    <2> QED BY <1>0, <2>1, <2>2, <2>3 DEF Truthful
  <1>7. CASE UNCHANGED vars
    BY <1>1, <1>7 DEF vars
  <1> QED BY <1>2, <1>3, <1>4, <1>5, <1>6, <1>7, <1>8 DEF Next, Client, Link

-----------------------------------------------------------------------------
(* No message is lost, and none overtakes another *)

\* How composed and withdrawn change.
LEMMA ComposedSteps ==
    ASSUME TypeOK, [Next]_vars
    PROVE  /\ composed' = composed \/ Compose
           /\ composed \in 0..composed' /\ composed' \in 0..N
           /\ withdrawn \subseteq withdrawn'
  <1> USE DEF clientVars, linkVars, serverVars
  <1>0. composed \in Nat /\ N \in Nat /\ composed <= N /\ outbox \in SUBSET (1..composed)
        /\ composed \in composed..N
    BY MessagesTyped DEF TypeOK
  <1>1. CASE Compose
    <2>1. withdrawn \subseteq withdrawn' BY <1>1 DEF Compose, Flush, Continue
    <2> QED BY <1>0, <1>1, <2>1 DEF Compose
  <1>2. ASSUME composed' = composed, withdrawn \subseteq withdrawn'
        PROVE  /\ composed' = composed
               /\ composed \in 0..composed' /\ composed' \in 0..N
               /\ withdrawn \subseteq withdrawn'
    BY <1>0, <1>2
  <1>3. CASE EncryptFails \/ ReadNak \/ Emit \/ EmitOffline \/ GiveUp \/ Disconnect
    BY <1>2, <1>3 DEF EncryptFails, ReadNak, Emit, EmitOffline, GiveUp, Disconnect,
       EmitRejected, Requeue
  <1>4. CASE ReadAck \/ ReadJoined \/ RetryTimer \/ Clear
    BY <1>2, <1>4 DEF ReadAck, ReadJoined, RetryTimer, Clear, Flush, Continue
  <1>5. CASE \/ \E m \in Msgs : ReadEcho(m) \/ Forget(m)
             \/ \E c \in Conns : Connect(c) \/ Drop(c) \/ Bind(c) \/ Receive(c)
             \/ Broadcast \/ UNCHANGED vars
    BY <1>2, <1>5 DEF ReadEcho, Forget, Connect, Drop, Bind, Receive, NotInRoom, Duplicate,
       RateLimited, Accept, Take, Broadcast, vars
  <1> QED BY <1>1, <1>3, <1>4, <1>5 DEF Next, Client, Link

\* Every step keeps each message queued, delivered or withdrawn.
LEMMA NoneLostStep ==
    ASSUME TypeOK, Truthful, NoneLost, [Next]_vars
    PROVE  NoneLost'
  <1> USE DEF clientVars, linkVars, serverVars
  <1>0. composed \in Nat /\ N \in Nat /\ composed <= N /\ outbox \in SUBSET (1..composed)
        /\ composed \in composed..N
    BY MessagesTyped DEF TypeOK
  <1>1. delivered \subseteq delivered' /\ withdrawn \subseteq withdrawn'
    BY DeliveredSteps, ComposedSteps
  <1>2. ASSUME composed' = composed, outbox \subseteq outbox' \cup delivered' \cup withdrawn'
        PROVE  NoneLost'
    BY <1>1, <1>2 DEF NoneLost
  <1>3. CASE Compose
    <2>1. composed + 1 \in composed..N /\ composed' = composed + 1 BY <1>0, <1>3 DEF Compose
    <2>2. outbox \cup {composed + 1} \in SUBSET (1..(composed + 1)) BY <1>0
    <2>3. Flush(outbox \cup {composed + 1}) BY <1>3 DEF Compose
    <2>4. outbox \cup {composed + 1} \subseteq outbox' \cup withdrawn'
      BY <2>1, <2>2, <2>3, FlushFacts
    <2>5. \A m \in 1..(composed + 1) : m \in 1..composed \/ m = composed + 1 BY <1>0
    <2> QED BY <1>1, <2>1, <2>4, <2>5 DEF NoneLost
  <1>4. CASE ReadJoined \/ RetryTimer
    <2>1. outbox \subseteq outbox' \cup withdrawn'
      BY <1>0, <1>4, FlushFacts DEF ReadJoined, RetryTimer
    <2> QED BY <1>2, <1>4, <2>1 DEF ReadJoined, RetryTimer
  <1>5. CASE ReadAck
    <2>1. outbox \ {flush.msg} \in SUBSET (1..composed) BY <1>0
    <2>2. outbox \ {flush.msg} \subseteq outbox' \cup withdrawn'
      BY <1>0, <1>5, <2>1, ContinueFacts DEF ReadAck
    <2>3. flush.msg \in delivered BY <1>5 DEF ReadAck, Truthful
    <2> QED BY <1>1, <1>2, <1>5, <2>2, <2>3 DEF ReadAck
  <1>6. CASE EncryptFails \/ ReadNak \/ Emit \/ EmitOffline \/ GiveUp \/ Disconnect
    BY <1>2, <1>6 DEF EncryptFails, ReadNak, Emit, EmitOffline, GiveUp, Disconnect,
       EmitRejected, Requeue
  <1>7. CASE Clear
    BY <1>2, <1>7 DEF Clear
  <1>8. ASSUME NEW m \in Msgs, ReadEcho(m) PROVE NoneLost'
    <2>1. m \in delivered BY <1>8 DEF ReadEcho, Truthful
    <2> QED BY <1>1, <1>2, <1>8, <2>1 DEF ReadEcho
  <1>9. CASE \/ \E m \in Msgs : Forget(m)
             \/ \E c \in Conns : Connect(c) \/ Drop(c) \/ Bind(c) \/ Receive(c)
             \/ Broadcast \/ UNCHANGED vars
    BY <1>1, <1>2, <1>9 DEF Forget, Connect, Drop, Bind, Receive, NotInRoom, Duplicate,
       RateLimited, Accept, Take, Broadcast, vars
  <1> QED BY <1>3, <1>4, <1>5, <1>6, <1>7, <1>8, <1>9 DEF Next, Client, Link

\* Message m is one of the first n, and those before it are all in S.
Reached(m, n, S) == m \in 1..n /\ 1..(m - 1) \subseteq S

Settled == delivered \cup withdrawn

\* The strengthening behind the order of delivery: what flush is at, what is
\* on its way on any connection, and what is being handled has nothing
\* outstanding before it.
InOrder ==
    /\ flush.pc # "idle" => Reached(flush.msg, composed, Settled)
    /\ \A c \in Conns : \A i \in 1..Len(net[c]) : Reached(net[c][i], composed, Settled)
    /\ \A i \in 1..Len(handling) : Reached(handling[i], composed, Settled)

\* Once nothing is outstanding before a message, nothing ever is.
LEMMA ReachedStays ==
    ASSUME TypeOK, [Next]_vars, NEW m, Reached(m, composed, Settled)
    PROVE  Reached(m, composed', Settled')
  <1>1. m \in 1..composed' BY ComposedSteps DEF Reached
  <1>2. Settled \subseteq Settled' BY DeliveredSteps, ComposedSteps DEF Settled
  <1> QED BY <1>1, <1>2 DEF Reached

\* Every step keeps the order.
LEMMA InOrderStep ==
    ASSUME TypeOK, NoneLost, NoneLost', InOrder, [Next]_vars
    PROVE  InOrder'
  <1> USE DEF clientVars, linkVars, serverVars
  <1>0. composed \in Nat /\ N \in Nat /\ composed <= N /\ outbox \in SUBSET (1..composed)
        /\ composed \in composed..N
    BY MessagesTyped DEF TypeOK
  <1>1. TypeOK' BY TypeStep
  <1>2. ASSUME NEW m \in outbox', \A y \in outbox' : m <= y
        PROVE  Reached(m, composed', Settled')
    <2>1. m \in 1..composed' /\ composed' \in Nat BY <1>1 DEF TypeOK
    <2> SUFFICES ASSUME NEW k \in 1..(m - 1) PROVE k \in delivered' \cup withdrawn'
      BY <2>1 DEF Reached, Settled
    <2>2. k \in 1..composed' /\ k \in Nat /\ m \in Nat /\ k < m BY <2>1
    <2>3. k \notin outbox' BY <1>2, <2>2
    <2> QED BY <2>2, <2>3 DEF NoneLost
  <1>3. ASSUME \/ flush'.pc = "idle"
               \/ flush.pc # "idle" /\ flush'.msg = flush.msg
               \/ flush'.msg \in outbox' /\ \A y \in outbox' : flush'.msg <= y,
               \A c \in Conns : \A i \in 1..Len(net'[c]) :
                  \/ \E j \in 1..Len(net[c]) : net'[c][i] = net[c][j]
                  \/ flush.pc # "idle" /\ net'[c][i] = flush.msg,
               \A i \in 1..Len(handling') : Reached(handling'[i], composed, Settled)
        PROVE  InOrder'
    <2>1. ASSUME flush'.pc # "idle" PROVE Reached(flush'.msg, composed', Settled')
      <3>1. CASE flush.pc # "idle" /\ flush'.msg = flush.msg
        BY <3>1, ReachedStays DEF InOrder
      <3>2. CASE flush'.msg \in outbox' /\ \A y \in outbox' : flush'.msg <= y
        BY <1>2, <3>2
      <3> QED BY <1>3, <2>1, <3>1, <3>2
    <2>2. ASSUME NEW c \in Conns, NEW i \in 1..Len(net'[c])
          PROVE  Reached(net'[c][i], composed', Settled')
      <3>1. Reached(net'[c][i], composed, Settled) BY <1>3 DEF InOrder
      <3> QED BY <3>1, ReachedStays
    <2>3. \A i \in 1..Len(handling') : Reached(handling'[i], composed', Settled')
      BY <1>3, ReachedStays
    <2> QED BY <2>1, <2>2, <2>3 DEF InOrder
  <1>4. ASSUME \/ flush'.pc = "idle"
               \/ flush.pc # "idle" /\ flush'.msg = flush.msg
               \/ flush'.msg \in outbox' /\ \A y \in outbox' : flush'.msg <= y,
               UNCHANGED <<net, handling>>
        PROVE  InOrder'
    BY <1>3, <1>4 DEF InOrder
  <1>5. ASSUME NEW k \in composed..N, NEW o \in SUBSET (1..k), Flush(o),
               UNCHANGED <<net, handling>>
        PROVE  InOrder'
    <2>1. \/ flush' = flush /\ flush # Idle
          \/ flush'.pc = "idle"
          \/ flush'.msg \in outbox' /\ \A y \in outbox' : flush'.msg <= y
      BY <1>5, FlushFacts
    <2>2. flush # Idle => flush.pc # "idle" BY DEF TypeOK, Passes
    <2> QED BY <1>4, <1>5, <2>1, <2>2
  <1>6. CASE Compose
    <2>1. composed + 1 \in composed..N BY <1>0, <1>6 DEF Compose
    <2>2. outbox \cup {composed + 1} \in SUBSET (1..(composed + 1)) BY <1>0
    <2> QED BY <1>5, <1>6, <2>1, <2>2 DEF Compose
  <1>7. CASE ReadJoined \/ RetryTimer
    BY <1>0, <1>5, <1>7 DEF ReadJoined, RetryTimer
  <1>8. CASE ReadAck
    <2>1. outbox \ {flush.msg} \in SUBSET (1..composed) BY <1>0
    <2>2. \/ flush'.pc = "idle"
          \/ flush'.msg \in outbox' /\ \A y \in outbox' : flush'.msg <= y
      BY <1>0, <1>8, <2>1, ContinueFacts DEF ReadAck
    <2> QED BY <1>4, <1>8, <2>2 DEF ReadAck
  <1>9. CASE EncryptFails \/ ReadNak
    BY <1>4, <1>9 DEF EncryptFails, ReadNak, Requeue, Idle
  <1>10. CASE EmitOffline \/ GiveUp
    <2>1. flush'.pc = "idle" \/ (flush.pc # "idle" /\ flush'.msg = flush.msg)
      BY <1>10, RejectedFacts DEF EmitOffline, GiveUp
    <2> QED BY <1>4, <1>10, <2>1 DEF EmitOffline, GiveUp
  <1>11. CASE Disconnect
    <2>1. flush'.pc = "idle" \/ (flush.pc # "idle" /\ flush'.msg = flush.msg)
      BY <1>11, RejectedFacts DEF Disconnect
    <2> QED BY <1>4, <1>11, <2>1 DEF Disconnect
  <1>12. CASE Emit
    <2>1. flush \in [pc : {"sending"}, msg : Msgs] BY <1>12 DEF Emit, TypeOK, Passes, Idle
    <2>2. flush.pc # "idle" /\ flush'.msg = flush.msg BY <1>12, <2>1 DEF Emit
    <2>3. conn \in Conns /\ net[conn] \in Seq(Msgs) BY <1>12 DEF Emit, TypeOK
    <2>6. handling' = handling BY <1>12 DEF Emit
    <2>4. CASE net' = net BY <1>4, <2>2, <2>4, <2>6
    <2>5. CASE net' = [net EXCEPT ![conn] = Append(@, flush.msg)]
      <3>1. ASSUME NEW i \in 1..Len(net'[conn])
            PROVE  (i \in 1..Len(net[conn]) /\ net'[conn][i] = net[conn][i])
                   \/ net'[conn][i] = flush.msg
        <4>1. net'[conn] = Append(net[conn], flush.msg) BY <2>3, <2>5 DEF TypeOK
        <4> QED BY <2>1, <2>3, <3>1, <4>1
      <3>2. \A c \in Conns : c # conn => net'[c] = net[c] BY <2>5 DEF TypeOK
      <3> QED BY <1>3, <2>2, <2>6, <3>1, <3>2 DEF InOrder
    <2> QED BY <1>12, <2>4, <2>5 DEF Emit
  <1>13. CASE \/ Clear \/ \E m \in Msgs : ReadEcho(m) \/ Forget(m)
              \/ \E c \in Conns : Connect(c) \/ Bind(c)
    <2>1. flush' = flush /\ UNCHANGED <<net, handling>> BY <1>13 DEF Clear, ReadEcho, Forget, Connect, Bind
    <2> QED BY <1>4, <2>1
  <1>14. ASSUME NEW c \in Conns, Drop(c) PROVE InOrder'
    <2>1. flush' = flush /\ net' = [net EXCEPT ![c] = <<>>] /\ handling' = handling BY <1>14 DEF Drop
    <2>2. Len(net'[c]) = 0 /\ \A d \in Conns : d # c => net'[d] = net[d]
      BY <2>1 DEF TypeOK
    <2> QED BY <1>3, <2>1, <2>2 DEF InOrder
  <1>15. ASSUME NEW c \in Conns, Receive(c) PROVE InOrder'
    <2>1. /\ net[c] # <<>> /\ net[c] \in Seq(Msgs) /\ net'[c] = Tail(net[c]) /\ flush' = flush
          /\ \A d \in Conns : d # c => net'[d] = net[d]
      BY <1>15, TakeFacts DEF Receive, NotInRoom, Duplicate, RateLimited, Accept
    <2>2. \A i \in 1..Len(net'[c]) : i + 1 \in 1..Len(net[c]) /\ net'[c][i] = net[c][i + 1]
      <3> DEFINE s == net[c]
      <3>1. s \in Seq(Msgs) /\ s # <<>> /\ net'[c] = Tail(s) BY <2>1
      <3> HIDE DEF s
      <3>2. \A i \in 1..Len(Tail(s)) : i + 1 \in 1..Len(s) /\ Tail(s)[i] = s[i + 1]
        BY <3>1
      <3> QED BY <3>1, <3>2 DEF s
    <2>3. 1 \in 1..Len(net[c]) /\ Head(net[c]) = net[c][1] BY <2>1
    <2>4. ASSUME NEW i \in 1..Len(handling')
          PROVE  (i \in 1..Len(handling) /\ handling'[i] = handling[i])
                 \/ handling'[i] = Head(net[c])
      <3>1. handling' = handling \/ handling' = Append(handling, Head(net[c]))
        BY <1>15 DEF Receive, NotInRoom, Duplicate, RateLimited, Accept
      <3>2. handling \in Seq(Msgs) BY DEF TypeOK
      <3> QED BY <2>4, <3>1, <3>2
    <2>5. \A i \in 1..Len(handling') : Reached(handling'[i], composed, Settled)
      BY <2>3, <2>4 DEF InOrder
    <2> QED BY <1>3, <2>1, <2>2, <2>5
  <1>17. CASE Broadcast
    <2>1. handling # <<>> /\ handling \in Seq(Msgs) /\ handling' = Tail(handling)
          /\ UNCHANGED <<flush, net>>
      BY <1>17 DEF Broadcast, TypeOK
    <2> DEFINE s == handling
    <2>2. s \in Seq(Msgs) /\ s # <<>> /\ handling' = Tail(s) BY <2>1
    <2> HIDE DEF s
    <2>3. \A i \in 1..Len(Tail(s)) : i + 1 \in 1..Len(s) /\ Tail(s)[i] = s[i + 1] BY <2>2
    <2>4. \A i \in 1..Len(handling') : i + 1 \in 1..Len(handling) /\ handling'[i] = handling[i + 1]
      BY <2>2, <2>3 DEF s
    <2>5. \A i \in 1..Len(handling') : Reached(handling'[i], composed, Settled)
      BY <2>4 DEF InOrder
    <2> QED BY <1>3, <2>1, <2>5 DEF InOrder
  <1>16. CASE UNCHANGED vars
    BY <1>4, <1>16 DEF vars
  <1> QED
    BY <1>6, <1>7, <1>8, <1>9, <1>10, <1>11, <1>12, <1>13, <1>14, <1>15, <1>16, <1>17
       DEF Next, Client, Link

\* All of it together is inductive.
Inductive == TypeOK /\ Recorded /\ LastSent /\ OneRead /\ Truthful /\ NoneLost /\ InOrder

\* It holds from the start and stays.
THEOREM InductiveHolds == Spec => []Inductive
  <1>1. Init => Recorded /\ LastSent /\ Truthful
    BY DEF Init, Recorded, LastSent, Truthful, Idle
  <1>2. ASSUME Init PROVE NoneLost /\ InOrder /\ OneRead
    <2>1. 1..composed = {} BY <1>2 DEF Init
    <2>2. /\ flush.pc = "idle" /\ answer = "none" /\ Len(handling) = 0
          /\ \A c \in Conns : Len(net[c]) = 0 /\ reading[c] = 0
      BY <1>2 DEF Init, Idle
    <2>3. 1..Len(handling) = {} /\ \A c \in Conns : 1..Len(net[c]) = {} BY <2>2
    <2> QED BY <2>1, <2>2, <2>3 DEF NoneLost, InOrder, OneRead
  <1>3. Inductive /\ [Next]_vars => Inductive'
    BY TypeStep, RecordedStep, LastSentStep, OneReadStep, TruthfulStep, NoneLostStep, InOrderStep DEF Inductive
  <1>4. Init /\ TypeOK => Inductive BY <1>1, <1>2 DEF Inductive
  <1> QED BY <1>3, <1>4, TypeCorrect, PTL DEF Spec

\* A message leaves the outbox only when the room has it or it was withdrawn,
\* whatever times out, breaks or comes late (message-outbox.js:4).
THEOREM NoneLostHolds == Spec => []NoneLost
  <1>1. Inductive => NoneLost BY DEF Inductive
  <1> QED BY <1>1, InductiveHolds, PTL

\* The outbox, the connections and the server's de-duplication together are
\* an ordered channel: every step is a step of Channel or changes nothing
\* that Channel sees.
THEOREM ChannelImplemented == Spec => ImplementsChannel
  <1>1. Init => Ordered!Init
    BY DEF Init, Ordered!Init
  <1>2. ASSUME Inductive, [Next]_vars
        PROVE  [Ordered!Next]_<<composed, delivered, withdrawn>>
    <2>0. TypeOK /\ TypeOK' /\ composed \in Nat /\ N \in Nat
      <3>1. TypeOK BY <1>2 DEF Inductive
      <3>2. TypeOK' BY <1>2, <3>1, TypeStep
      <3>3. composed \in 0..N /\ N \in Nat BY <3>1, MessagesTyped DEF TypeOK
      <3> QED BY <3>1, <3>2, <3>3
    <2>1. withdrawn \subseteq withdrawn' /\ withdrawn' \in SUBSET (1..N)
          /\ withdrawn' \subseteq 1..composed' /\ composed' \in 0..N
      <3>1. withdrawn' \subseteq 1..composed' /\ composed' \in 0..N BY <2>0 DEF TypeOK
      <3>2. withdrawn \subseteq withdrawn' BY <1>2, <2>0, ComposedSteps
      <3> QED BY <2>0, <3>1, <3>2
    <2>2. CASE Compose
      <3>1. composed < N /\ composed' = composed + 1 /\ delivered' = delivered
        BY <2>2 DEF Compose, serverVars
      <3>2. Ordered!Compose(withdrawn') BY <2>1, <3>1 DEF Ordered!Compose
      <3> QED BY <2>1, <3>2 DEF Ordered!Next
    <2>3. ASSUME Broadcast
          PROVE  Ordered!Next \/ UNCHANGED <<composed, delivered, withdrawn>>
      <3> DEFINE m == Head(handling)
      <3>1. /\ m \in Msgs /\ delivered' = delivered \cup {m}
            /\ handling # <<>> /\ handling \in Seq(Msgs)
            /\ UNCHANGED <<composed, withdrawn>>
        BY <2>0, <2>3, BroadcastMessage DEF Broadcast, clientVars
      <3>2. 1 \in 1..Len(handling) /\ m = handling[1] BY <3>1
      <3>3. Reached(m, composed, Settled) BY <1>2, <3>2 DEF Inductive, InOrder
      <3>4. CASE m \in delivered BY <3>1, <3>4
      <3>5. CASE m \notin delivered
        <4>1. Ordered!Deliver(m) BY <3>1, <3>3, <3>5 DEF Ordered!Deliver, Reached, Settled
        <4> QED BY <3>1, <4>1 DEF Ordered!Next, Msgs
      <3> QED BY <3>4, <3>5
    <2>4. CASE composed' = composed /\ delivered' = delivered
      <3>1. Ordered!Withdraw(withdrawn') BY <2>1, <2>4 DEF Ordered!Withdraw
      <3> QED BY <2>1, <3>1 DEF Ordered!Next
    <2> QED BY <1>2, <2>0, <2>2, <2>3, <2>4, ComposedSteps, DeliveredSteps
  <1> QED BY <1>1, <1>2, InductiveHolds, PTL DEF Spec, ImplementsChannel, Ordered!Spec
=============================================================================
