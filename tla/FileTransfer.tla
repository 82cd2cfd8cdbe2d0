---------------------------- MODULE FileTransfer ----------------------------
(***************************************************************************)
(* A file sent between two e2ecp command line clients (SendFile in         *)
(* e2ecp/src/client/send.go, ReceiveFile in receive.go).  Both join a room *)
(* of the global relay; the receiver also runs a relay of its own, which   *)
(* the sender uses when it can reach it before it starts.  The file goes   *)
(* in numbered chunks that are acknowledged, sent again after a time-out,  *)
(* put in order and freed of duplicates by the receiver.                   *)
(*                                                                         *)
(* A relay forwards what one client sends to the other if that one has     *)
(* joined (relay.go:392-458), in order; else the message is lost.  The     *)
(* clients have goroutines: the sender a reader per relay, the transfer    *)
(* and the retransmitter; the receiver its main loop, which reads the      *)
(* global relay, and a reader of the local one.  Time-outs may fire at any *)
(* time they are armed.                                                    *)
(***************************************************************************)
EXTENDS Naturals, Sequences, FiniteSets

CONSTANTS NumChunks,    \* chunks of the file
          MaxRetries    \* maxRetries (send.go:24)

ASSUME TransferConstants == NumChunks \in Nat /\ MaxRetries \in Nat

Chunks == 0..(NumChunks - 1)
Paths == {"global", "local"}

VARIABLES
    joined,    \* path -> who is in the room of that relay: "S", "R"
    toS, toR,  \* path -> messages on their way to the sender, the receiver
    \* the sender
    phase,     \* where the transfer is
    sSecret,   \* sharedSecret is derived, transferStarted
    useLocal,  \* useLocalRelay
    path,      \* transferSend: the relay the file goes through
    nextS,     \* chunkNum: the next chunk to read
    pending,   \* pendingChunks
    retries,   \* retries of each pending chunk
    sent,      \* "Sent encrypted file" was printed
    \* the receiver
    status,    \* "new", "running", "saved", or how it ended otherwise
    key,       \* "none"; "telling": has the sender's key, joins its own relay; "done"
    open,      \* outputFile and bar are set
    received,  \* receivedChunks
    buffer,    \* chunkBuffer
    nextR,     \* nextExpectedChunk
    file,      \* what was written
    closing    \* the local reader is past file_end: verifying, extracting

sender == <<phase, sSecret, useLocal, path, nextS, pending, retries, sent>>
receiver == <<status, key, open, received, buffer, nextR, file, closing>>
vars == <<joined, toS, toR, sender, receiver>>

Phases == {"new", "waiting", "starting", "streaming", "draining", "lingering", "exited"}
Statuses == {"new", "running", "saved", "left", "cancelled", "failed"}

Plain == {"joined", "peers", "pubkey", "local_relay_info", "file_start", "file_end",
          "transfer_cancelled", "transfer_received", "peer_disconnected"}
Message == [type : Plain] \cup [type : {"file_chunk", "chunk_ack"}, chunk : Chunks]

Msg(t) == [type |-> t]
Chunk(k) == [type |-> "file_chunk", chunk |-> k]
Ack(k) == [type |-> "chunk_ack", chunk |-> k]

Init ==
    /\ joined = [p \in Paths |-> {}]
    /\ toS = [p \in Paths |-> <<>>] /\ toR = [p \in Paths |-> <<>>]
    /\ phase = "new" /\ sSecret = FALSE /\ useLocal = FALSE /\ path = "global"
    /\ nextS = 0 /\ pending = {} /\ retries = [k \in Chunks |-> 0] /\ sent = FALSE
    /\ status = "new" /\ key = "none" /\ open = FALSE
    /\ received = {} /\ buffer = {} /\ nextR = 0 /\ file = <<>> /\ closing = FALSE

----------------------------------------------------------------------------
(* The relays.                                                              *)

\* Queues after a message from one client: lost unless the other has joined.
ToR(p, msg, q) == IF "R" \in joined[p] THEN [q EXCEPT ![p] = Append(@, msg)] ELSE q
ToS(p, msg, q) == IF "S" \in joined[p] THEN [q EXCEPT ![p] = Append(@, msg)] ELSE q

\* The first message of a path for the sender or the receiver.
AtS(p, t) == phase \notin {"new", "exited"} /\ toS[p] # <<>> /\ Head(toS[p]).type = t
AtR(p, t) == status = "running" /\ toR[p] # <<>> /\ Head(toR[p]).type = t
TakenS(p) == [toS EXCEPT ![p] = Tail(@)]
TakenR(p) == [toR EXCEPT ![p] = Tail(@)]

\* The sender's process ends: the relay tells the receiver.  What it sent before
\* still arrives.  The local relay's notice is not looked at.
SenderExits ==
    /\ phase' = "exited"
    /\ joined' = [p \in Paths |-> joined[p] \ {"S"}]
    /\ toR' = ToR("global", Msg("peer_disconnected"), toR)
    /\ toS' = [p \in Paths |-> <<>>]

\* The receiver's process ends, and its relay with it.
ReceiverExits(how, q) ==
    /\ status' = how
    /\ joined' = [joined EXCEPT !.global = @ \ {"R"}, !.local = {}]
    /\ toS' = ToS("global", Msg("peer_disconnected"), q)
    /\ toR' = [p \in Paths |-> <<>>]

\* A process is killed or its connection breaks: the end of what it sent is lost.
Cut(q) == {[global |-> SubSeq(q.global, 1, g), local |-> SubSeq(q.local, 1, l)] :
               g \in 0..Len(q.global), l \in 0..Len(q.local)}

SenderDies ==
    /\ phase \notin {"new", "exited"}
    /\ phase' = "exited"
    /\ joined' = [p \in Paths |-> joined[p] \ {"S"}]
    /\ \E q \in Cut(toR) : toR' = ToR("global", Msg("peer_disconnected"), q)
    /\ toS' = [p \in Paths |-> <<>>]
    /\ UNCHANGED <<sSecret, useLocal, path, nextS, pending, retries, sent, receiver>>

ReceiverDies ==
    /\ status = "running"
    /\ \E q \in Cut(toS) : ReceiverExits("failed", q)
    /\ UNCHANGED <<sender, key, open, received, buffer, nextR, file, closing>>

\* Either joins the global relay: "joined" to it, then "peers" to both (a list
\* of one says nothing to the clients).
SenderJoins ==
    /\ phase = "new"
    /\ phase' = "waiting"
    /\ joined' = [joined EXCEPT !.global = @ \cup {"S"}]
    /\ IF "R" \in joined.global
       THEN /\ toS' = [toS EXCEPT !.global = <<Msg("joined"), Msg("peers")>>]
            /\ toR' = [toR EXCEPT !.global = Append(@, Msg("peers"))]
       ELSE toS' = [toS EXCEPT !.global = <<Msg("joined")>>] /\ UNCHANGED toR
    /\ UNCHANGED <<sSecret, useLocal, path, nextS, pending, retries, sent, receiver>>

ReceiverJoins ==
    /\ status = "new"
    /\ status' = "running"
    /\ joined' = [joined EXCEPT !.global = @ \cup {"R"}]
    /\ IF "S" \in joined.global
       THEN /\ toR' = [toR EXCEPT !.global = <<Msg("joined"), Msg("peers")>>]
            /\ toS' = [toS EXCEPT !.global = Append(@, Msg("peers"))]
       ELSE toR' = [toR EXCEPT !.global = <<Msg("joined")>>] /\ UNCHANGED toS
    /\ UNCHANGED <<sender, key, open, received, buffer, nextR, file, closing>>

----------------------------------------------------------------------------
(* The sender's readers.                                                    *)

\* "joined" and "peers" of two: the public key is sent.
SenderGreets ==
    /\ AtS("global", "joined") \/ AtS("global", "peers")
    /\ toS' = TakenS("global")
    /\ toR' = ToR("global", Msg("pubkey"), toR)
    /\ UNCHANGED <<joined, sender, receiver>>

\* The first public key starts the transfer goroutine.
SenderGetsKey ==
    /\ AtS("global", "pubkey")
    /\ toS' = TakenS("global")
    /\ IF sSecret THEN UNCHANGED <<sSecret, phase>>
       ELSE sSecret' = TRUE /\ phase' = "starting"
    /\ UNCHANGED <<joined, toR, useLocal, path, nextS, pending, retries, sent, receiver>>

\* The receiver's addresses: one can be dialled and its room joined, or none can.
SenderGetsAddresses ==
    /\ AtS("global", "local_relay_info")
    /\ toS' = TakenS("global")
    /\ \/ /\ sSecret /\ status = "running"
          /\ joined' = [joined EXCEPT !.local = @ \cup {"S"}]
          /\ useLocal' = TRUE
       \/ UNCHANGED <<joined, useLocal>>
    /\ UNCHANGED <<toR, phase, sSecret, path, nextS, pending, retries, sent, receiver>>

\* An acknowledgement goes over ackChan to the retransmitter; when that has
\* stopped it stays in the channel.
SenderGetsAck(p) ==
    /\ AtS(p, "chunk_ack")
    /\ toS' = TakenS(p)
    /\ pending' = pending \ {Head(toS[p]).chunk}
    /\ UNCHANGED <<joined, toR, phase, sSecret, useLocal, path, nextS, retries, sent, receiver>>

\* The receiver's confirmation is only printed (and not read on the local relay).
SenderGetsReceipt(p) ==
    /\ AtS(p, "transfer_received")
    /\ toS' = TakenS(p)
    /\ UNCHANGED <<joined, toR, sender, receiver>>

\* The peer has gone or has declined: the reader returns and so does SendFile.
SenderQuits(p) ==
    /\ \/ AtS(p, "transfer_cancelled")
       \/ p = "global" /\ AtS(p, "peer_disconnected")
    /\ SenderExits
    /\ UNCHANGED <<sSecret, useLocal, path, nextS, pending, retries, sent, receiver>>

----------------------------------------------------------------------------
(* The sender's transfer goroutine and its retransmitter.                   *)

\* After 200 ms the path is chosen, for good.
StartTransfer ==
    /\ phase = "starting"
    /\ phase' = "streaming"
    /\ path' = IF useLocal THEN "local" ELSE "global"
    /\ toR' = ToR(path', Msg("file_start"), toR)
    /\ UNCHANGED <<joined, toS, sSecret, useLocal, nextS, pending, retries, sent, receiver>>

\* Mutation: the path is looked at again for every chunk.
SendChunkEitherWay ==
    /\ phase = "streaming" /\ nextS < NumChunks
    /\ pending' = pending \cup {nextS}
    /\ toR' = ToR(IF useLocal THEN "local" ELSE "global", Chunk(nextS), toR)
    /\ nextS' = nextS + 1
    /\ UNCHANGED <<joined, toS, phase, sSecret, useLocal, path, retries, sent, receiver>>

\* The next chunk is noted as pending and then sent.
SendChunk ==
    /\ phase = "streaming" /\ nextS < NumChunks
    /\ pending' = pending \cup {nextS}
    /\ toR' = ToR(path, Chunk(nextS), toR)
    /\ nextS' = nextS + 1
    /\ UNCHANGED <<joined, toS, phase, sSecret, useLocal, path, retries, sent, receiver>>

EndOfFile ==
    /\ phase = "streaming" /\ nextS = NumChunks
    /\ phase' = "draining"
    /\ UNCHANGED <<joined, toS, toR, sSecret, useLocal, path, nextS, pending, retries, sent, receiver>>

\* Mutation: one retry too many.
RetransmitOnceMore(k) ==
    /\ phase \in {"streaming", "draining"}
    /\ k \in pending /\ retries[k] <= MaxRetries
    /\ toR' = ToR(path, Chunk(k), toR)
    /\ retries' = [retries EXCEPT ![k] = @ + 1]
    /\ UNCHANGED <<joined, toS, phase, sSecret, useLocal, path, nextS, pending, sent, receiver>>

\* A pending chunk is sent again, at most MaxRetries times.
Retransmit(k) ==
    /\ phase \in {"streaming", "draining"}
    /\ k \in pending /\ retries[k] < MaxRetries
    /\ toR' = ToR(path, Chunk(k), toR)
    /\ retries' = [retries EXCEPT ![k] = @ + 1]
    /\ UNCHANGED <<joined, toS, phase, sSecret, useLocal, path, nextS, pending, sent, receiver>>

\* Mutation: no limit on the wait for the last acknowledgements.
SenderGivesUpEarlyOnly ==
    /\ phase = "streaming" /\ pending # {}
    /\ SenderExits
    /\ UNCHANGED <<sSecret, useLocal, path, nextS, pending, retries, sent, receiver>>

\* Out of retries, 30 s without activity, or 30 s of waiting at the end: the
\* process stops.
SenderGivesUp ==
    /\ phase \in {"streaming", "draining"} /\ pending # {}
    /\ SenderExits
    /\ UNCHANGED <<sSecret, useLocal, path, nextS, pending, retries, sent, receiver>>

\* Mutation: the end is sent without waiting for the acknowledgements.
FinishAtOnce ==
    /\ phase = "draining"
    /\ phase' = "lingering"
    /\ toR' = ToR(path, Msg("file_end"), toR)
    /\ sent' = TRUE
    /\ UNCHANGED <<joined, toS, sSecret, useLocal, path, nextS, pending, retries, receiver>>

\* Every chunk is acknowledged: file_end, the report, half a second, the end.
Finish ==
    /\ phase = "draining" /\ pending = {}
    /\ phase' = "lingering"
    /\ toR' = ToR(path, Msg("file_end"), toR)
    /\ sent' = TRUE
    /\ UNCHANGED <<joined, toS, sSecret, useLocal, path, nextS, pending, retries, receiver>>

LingeringEnds ==
    /\ phase = "lingering"
    /\ SenderExits
    /\ UNCHANGED <<sSecret, useLocal, path, nextS, pending, retries, sent, receiver>>

----------------------------------------------------------------------------
(* The receiver's main loop, busy while it joins its own relay.             *)

AtLoop(t) == key # "telling" /\ AtR("global", t)

ReceiverGreets ==
    /\ AtLoop("joined") \/ AtLoop("peers")
    /\ toR' = TakenR("global")
    /\ toS' = ToS("global", Msg("pubkey"), toS)
    /\ UNCHANGED <<joined, sender, receiver>>

\* The first public key: the receiver tells its addresses if its relay runs.
ReceiverGetsKey ==
    /\ AtLoop("pubkey")
    /\ toR' = TakenR("global")
    /\ \/ key # "none" /\ UNCHANGED <<key, toS>>
       \/ key = "none" /\ key' = "done" /\ UNCHANGED toS
       \/ /\ key = "none" /\ key' = "telling"
          /\ toS' = ToS("global", Msg("local_relay_info"), toS)
    /\ UNCHANGED <<joined, sender, status, open, received, buffer, nextR, file, closing>>

\* It joins its own relay, after the sender perhaps, or cannot dial it.
ReceiverJoinsLocal ==
    /\ status = "running" /\ key = "telling"
    /\ key' = "done"
    /\ \/ joined' = [joined EXCEPT !.local = @ \cup {"R"}]
       \/ UNCHANGED joined
    /\ UNCHANGED <<toS, toR, sender, status, open, received, buffer, nextR, file, closing>>

\* The main loop returns, whatever the local reader is doing.
ReceiverLeaves ==
    /\ AtLoop("peer_disconnected")
    /\ ReceiverExits("left", toS)
    /\ UNCHANGED <<sender, key, open, received, buffer, nextR, file, closing>>

----------------------------------------------------------------------------
(* The transfer, as either goroutine of the receiver handles it.            *)

AtReader(p, t) ==
    /\ AtR(p, t)
    /\ IF p = "global" THEN key # "telling" ELSE key = "done" /\ ~closing

\* The file is created, unless there is one that the user keeps.
ReceiverStarts(p) ==
    /\ AtReader(p, "file_start")
    /\ IF key = "none"
       THEN toR' = TakenR(p) /\ UNCHANGED <<joined, toS, receiver>>
       ELSE \/ /\ toR' = TakenR(p)
               /\ open' = TRUE /\ received' = {} /\ buffer' = {} /\ nextR' = 0
               /\ file' = <<>>
               /\ UNCHANGED <<joined, toS, status, key, closing>>
            \/ /\ ReceiverExits("cancelled", ToS(p, Msg("transfer_cancelled"), toS))
               /\ UNCHANGED <<key, open, received, buffer, nextR, file, closing>>
    /\ UNCHANGED sender

\* The first chunk not buffered, from the k-th on.
AfterRun(k) == CHOOSE n \in k..NumChunks :
                   /\ n \notin buffer
                   /\ \A i \in k..(n - 1) : i \in buffer

\* The expected chunk is written, with those waiting behind it; a later one waits.
Take(k) ==
    /\ received' = received \cup {k}
    /\ IF k = nextR
       THEN /\ nextR' = AfterRun(k + 1)
            /\ file' = file \o [i \in 1..(nextR' - k) |-> k + i - 1]
            /\ buffer' = buffer \ k..nextR'
       ELSE /\ buffer' = buffer \cup (IF k > nextR THEN {k} ELSE {})
            /\ UNCHANGED <<nextR, file>>

\* Mutation: chunks before file_start are acknowledged.
AckUnopened(p) ==
    /\ AtReader(p, "file_chunk")
    /\ toR' = TakenR(p)
    /\ LET k == Head(toR[p]).chunk IN
       /\ toS' = ToS(p, Ack(k), toS)
       /\ IF ~open \/ k \in received THEN UNCHANGED <<received, buffer, nextR, file>>
          ELSE Take(k)
    /\ UNCHANGED <<joined, sender, status, key, open, closing>>

\* A chunk is taken unless it came before, and acknowledged either way; before
\* file_start it is passed over.
ReceiverGetsChunk(p) ==
    /\ AtReader(p, "file_chunk")
    /\ toR' = TakenR(p)
    /\ LET k == Head(toR[p]).chunk IN
       IF ~open THEN UNCHANGED <<toS, received, buffer, nextR, file>>
       ELSE /\ toS' = ToS(p, Ack(k), toS)
            /\ IF k \in received THEN UNCHANGED <<received, buffer, nextR, file>>
               ELSE Take(k)
    /\ UNCHANGED <<joined, sender, status, key, open, closing>>

\* On the global relay the file is verified, unpacked and confirmed at once; the
\* local reader does that while the main loop goes on.
ReceiverGetsEnd(p) ==
    /\ AtReader(p, "file_end")
    /\ IF ~open THEN toR' = TakenR(p) /\ UNCHANGED <<joined, toS, status, closing>>
       ELSE IF p = "local"
       THEN closing' = TRUE /\ toR' = TakenR(p) /\ UNCHANGED <<joined, toS, status>>
       ELSE ReceiverExits("saved", ToS(p, Msg("transfer_received"), toS)) /\ UNCHANGED closing
    /\ UNCHANGED <<sender, key, open, received, buffer, nextR, file>>

ReceiverCloses ==
    /\ status = "running" /\ closing
    /\ ReceiverExits("saved", ToS("local", Msg("transfer_received"), toS))
    /\ UNCHANGED <<sender, key, open, received, buffer, nextR, file, closing>>

\* 30 s without data once the file is created.
ReceiverGivesUp ==
    /\ status = "running" /\ open
    /\ ReceiverExits("failed", toS)
    /\ UNCHANGED <<sender, key, open, received, buffer, nextR, file, closing>>

----------------------------------------------------------------------------
SenderReads ==
    \/ SenderGreets \/ SenderGetsKey \/ SenderGetsAddresses
    \/ \E p \in Paths : SenderGetsAck(p) \/ SenderGetsReceipt(p) \/ SenderQuits(p)
Transfer ==
    \/ StartTransfer \/ SendChunk \/ EndOfFile \/ Finish \/ LingeringEnds
    \/ SenderGivesUp \/ \E k \in Chunks : Retransmit(k)
ReceiverReads(p) == ReceiverStarts(p) \/ ReceiverGetsChunk(p) \/ ReceiverGetsEnd(p)
MainLoop ==
    \/ ReceiverGreets \/ ReceiverGetsKey \/ ReceiverJoinsLocal
    \/ ReceiverLeaves \/ ReceiverReads("global")
LocalReader == ReceiverReads("local") \/ ReceiverCloses

Next ==
    \/ SenderJoins \/ ReceiverJoins \/ SenderDies \/ ReceiverDies
    \/ SenderReads \/ Transfer
    \/ MainLoop \/ LocalReader \/ ReceiverGivesUp

Spec == Init /\ [][Next]_vars

\* The scheduler runs every goroutine, tickers tick, and a user who is asked answers.
Fairness ==
    /\ WF_vars(SenderReads) /\ WF_vars(Transfer)
    /\ WF_vars(MainLoop) /\ WF_vars(LocalReader) /\ WF_vars(ReceiverGivesUp)

FairSpec == Spec /\ Fairness

----------------------------------------------------------------------------
(* Properties *)

TypeOK ==
    /\ joined \in [Paths -> SUBSET {"S", "R"}]
    /\ toS \in [Paths -> Seq(Message)] /\ toR \in [Paths -> Seq(Message)]
    /\ phase \in Phases /\ sSecret \in BOOLEAN /\ useLocal \in BOOLEAN /\ path \in Paths
    /\ nextS \in 0..NumChunks /\ pending \subseteq 0..(nextS - 1)
    /\ retries \in [Chunks -> 0..MaxRetries] /\ sent \in BOOLEAN
    /\ status \in Statuses /\ key \in {"none", "telling", "done"} /\ open \in BOOLEAN
    /\ received \subseteq Chunks /\ buffer \subseteq Chunks /\ nextR \in 0..NumChunks
    /\ file \in Seq(Chunks) /\ closing \in BOOLEAN

\* The sender forgets a chunk only once the receiver has written it, in its
\* place: what is acknowledged survives the loss of every copy (send.go: "Remove
\* acknowledged chunk").
AckedWritten ==
    \A k \in 0..(nextS - 1) : k \notin pending => k < Len(file) /\ file[k + 1] = k

\* The main loop and the local reader share the file and the tables without a
\* lock: the transfer never reaches both.
TransferTypes == {"file_start", "file_chunk", "file_end"}
OneReader ==
    \E p \in Paths : \A i \in DOMAIN toR[p] : toR[p][i].type \notin TransferTypes

\* The copy grows in order and each chunk once; the sender reports success, and
\* the receiver keeps the file, only of a whole copy.
Promise == INSTANCE FileCopy WITH copy <- file, opened <- open, saved <- (status = "saved")
ImplementsCopy == Promise!Spec

\* Once both are in the room, both programs end, whatever is lost or declined.
TransferEnds ==
    joined.global = {"S", "R"} ~>
        phase = "exited" /\ status \notin {"new", "running"}
=============================================================================
