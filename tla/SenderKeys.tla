----------------------------- MODULE SenderKeys -----------------------------
(***************************************************************************)
(* The sender key of one member of a group room ("we"): how encryptE2EE    *)
(* and the rekey after a departure (client/src/crypto/e2ee-manager.js)     *)
(* generate, rotate, hand out and advance it (sender-key.js), over one     *)
(* Double Ratchet session per peer (double-ratchet.js).                    *)
(*                                                                         *)
(* Keys are symbols: a chain is the random key it was derived from and how *)
(* often it was advanced, and a ciphertext opens with the very key it was  *)
(* made with.  What is left of the code is what its awaits let interleave: *)
(* a task is one async function in progress, and it runs alone from one    *)
(* await of the Web Crypto API to the next (the other awaits end before    *)
(* anything else runs).  A peer handles what it receives in order and one  *)
(* at a time.                                                              *)
(***************************************************************************)
EXTENDS Naturals, FiniteSets

CONSTANTS
    Peers,        \* the other members, by socket id
    Early,        \* those with a finished handshake at the start
    Smaller,      \* those whose socket id is smaller than ours: they make the offers
    Calls,        \* encryptE2EE calls that may overlap
    MaxTurns,     \* sending chains of a ratchet session at most
    MaxEvents,    \* messages composed, peers met and peers gone, together at most
    None          \* no peer

ASSUME PeersTyped == Early \cup Smaller \subseteq Peers /\ IsFiniteSet(Peers)
ASSUME TasksApart == Calls \cap Peers = {} /\ None \notin Calls \cup Peers
ASSUME BoundsTyped == MaxTurns \in Nat \ {0} /\ MaxEvents \in Nat

VARIABLES
    key,         \* mySenderKeys: our sender key state
    fresh,       \* random keys drawn so far (number n is key n)
    session,     \* drSessions: our side of the ratchet with each peer
    meeting,     \* how many key agreements with each peer are being computed
    repeated,    \* peers with whom more than one key agreement was begun
    peer,        \* where each peer is, as far as we have been told
    task,        \* the async function in progress of each call and departure
    got,         \* what each peer's senderKeys has of ours
    events,      \* how many of the bounded events there have been
    sent,        \* the last message: who reads it, who must and who must not
    since,       \* history: fresh when a peer's departure was handled
    overlapped   \* history: two tasks have run at the same time

vars == <<key, fresh, session, meeting, repeated, peer, task, got, events, sent, since,
          overlapped>>

Tasks == Calls \cup Peers  \* a peer's task is the rekey after its departure

Chain == [gen : Nat, pos : Nat]
KeyState == [id : Nat, chain : Chain, counter : Nat, audience : SUBSET Peers]
Parcel == [id : Nat, chain : Chain, counter : Nat]
NoChain == [gen |-> 0, pos |-> 0]
NoParcel == [id |-> 0, chain |-> NoChain, counter |-> 0]
NoKey == [id |-> 0, chain |-> NoChain, counter |-> 0, audience |-> {}]

\* turn: the sending chain, 0 before the first; chain: the turn and position
\* of sendChainKey; n: sendCounter.
Session == [on : BOOLEAN, turn : 0..MaxTurns, chain : Nat \X Nat, n : Nat]

Idle == [pc |-> "idle", then |-> "idle", visited |-> {}, to |-> None, parcel |-> NoParcel,
         ratchet |-> <<0, 0>>, counter |-> 0, chain |-> NoChain, sealed |-> NoChain,
         gone |-> {}]

Running == {"check", "start", "spread"}                          \* between two awaits
Waiting == {"deriving", "sealing", "single", "encrypting", "advancing"}   \* at an await

\* The state variables have their types; ids are keys that have been drawn, a
\* task that seals something has somebody to seal it for, and one task runs.
TypeOK ==
    /\ key \in KeyState /\ fresh \in Nat
    /\ key # NoKey => key.id \in 1..fresh /\ key.chain.gen \in 1..fresh
    /\ session \in [Peers -> Session]
    /\ meeting \in [Peers -> Nat] /\ repeated \subseteq Peers
    /\ peer \in [Peers -> {"away", "here", "left"}]
    /\ got \in [Peers -> SUBSET Parcel]
    /\ events \in 0..MaxEvents
    /\ sent \in [readers : SUBSET Peers, owed : SUBSET Peers, barred : SUBSET Peers]
    /\ since \in [Peers -> Nat]
    /\ overlapped \in BOOLEAN
    /\ \A t \in Tasks :
         /\ task[t].pc \in {"idle"} \cup Running \cup Waiting
         /\ task[t].to \in IF task[t].pc \in {"deriving", "sealing", "single"} THEN Peers ELSE {None}
         /\ task[t].pc \in Running => \A u \in Tasks \ {t} : task[u].pc \notin Running

-----------------------------------------------------------------------------
(* What the steps share *)

On == {p \in Peers : session[p].on}
CanSend(p) == session[p].on /\ session[p].turn > 0
Left == {p \in Peers : peer[p] = "left"}
Active == {t \in Tasks : task[t].pc # "idle"}

\* No other task runs: t may go on to its next await.
Quiet(t) == \A u \in Tasks \ {t} : task[u].pc \notin Running

\* Mutation: the identifier is not drawn again.
DrawKeyOnly(audience) ==
    /\ key' = [id |-> fresh + 1, chain |-> [gen |-> fresh + 1, pos |-> 0], counter |-> 0,
                audience |-> audience]
    /\ UNCHANGED fresh

\* rotateSenderKey and generateSenderKey: a random key under an id of its own.
Draw(audience) ==
    /\ key' = [id |-> fresh + 1, chain |-> [gen |-> fresh + 1, pos |-> 0], counter |-> 0,
                audience |-> audience]
    /\ fresh' = fresh + 1

\* decryptE2EE at a peer: advance the chain it was given to the counter.
Opens(p, m) ==
    \E k \in got[p] :
        /\ k.id = m.id /\ k.counter <= m.counter
        /\ m.chain = [gen |-> k.chain.gen, pos |-> k.chain.pos + (m.counter - k.counter)]

\* Bound: another event of those MaxEvents counts.
Event == events < MaxEvents /\ events' = events + 1

\* History: something else is running when this begins.
Overlap(also) == overlapped' = (overlapped \/ Active # {} \/ also)

-----------------------------------------------------------------------------
(* encryptE2EE *)

\* More than one session: the sender key, made and handed out first if there
\* is none.
EncryptForGroup(c) ==
    /\ Quiet(c) /\ task[c].pc = "idle" /\ Cardinality(On) > 1 /\ Event
    /\ IF key = NoKey
       THEN /\ Draw({p \in Peers : CanSend(p)})
            /\ task' = [task EXCEPT ![c] = [Idle EXCEPT !.pc = "spread", !.then = "check", !.gone = Left]]
       ELSE /\ task' = [task EXCEPT ![c] = [Idle EXCEPT !.pc = "check", !.gone = Left]]
            /\ UNCHANGED <<key, fresh>>
    /\ Overlap(FALSE)
    /\ UNCHANGED <<session, meeting, repeated, peer, got, sent, since>>

\* One session: the ratchet itself (ratchetEncrypt throws without a chain).
EncryptForOne(c, p) ==
    /\ Quiet(c) /\ task[c].pc = "idle" /\ On = {p} /\ CanSend(p) /\ Event
    /\ task' = [task EXCEPT ![c] = [Idle EXCEPT !.gone = Left, !.pc = "single", !.to = p,
                                    !.ratchet = session[p].chain]]
    /\ Overlap(FALSE)
    /\ UNCHANGED <<key, fresh, session, meeting, repeated, peer, got, sent, since>>

\* _maybeRotateSenderKey; whether a limit is reached is left open.
CheckLimits(c) ==
    /\ task[c].pc = "check"
    /\ \/ /\ task' = [task EXCEPT ![c].pc = "start"]
          /\ UNCHANGED <<key, fresh>>
       \/ /\ Draw({p \in Peers : CanSend(p)})
          /\ task' = [task EXCEPT ![c].pc = "spread", ![c].then = "start"]
    /\ UNCHANGED <<session, meeting, repeated, peer, got, events, sent, since, overlapped>>

\* encryptWithSenderKey takes the counter and the key for the message,
TakeKey(c) ==
    /\ task[c].pc = "start"
    /\ task' = [task EXCEPT ![c].pc = "encrypting", ![c].counter = key.counter,
                            ![c].sealed = key.chain]
    /\ UNCHANGED <<key, fresh, session, meeting, repeated, peer, got, events, sent, since, overlapped>>

\* and when the text is encrypted the chain key as it is then, which advances
TakeChain(c) ==
    /\ Quiet(c) /\ task[c].pc = "encrypting"
    /\ task' = [task EXCEPT ![c].pc = "advancing", ![c].chain = key.chain]
    /\ UNCHANGED <<key, fresh, session, meeting, repeated, peer, got, events, sent, since, overlapped>>

\* Mutation: the counter advances and the chain does not.
CommitCounter(c) ==
    LET m == [id |-> key.id, counter |-> task[c].counter, chain |-> task[c].sealed] IN
    /\ Quiet(c) /\ task[c].pc = "advancing"
    /\ key' = [key EXCEPT !.counter = @ + 1]
    /\ sent' = [readers |-> {p \in Peers : Opens(p, m)}, owed |-> (key.audience \cap On) \ repeated,
                barred |-> task[c].gone \ On]
    /\ task' = [task EXCEPT ![c] = Idle]
    /\ UNCHANGED <<fresh, session, meeting, repeated, peer, got, events, since, overlapped>>

\* to become the next chain key; the message goes out under the id of now.
Commit(c) ==
    LET m == [id |-> key.id, counter |-> task[c].counter, chain |-> task[c].sealed] IN
    /\ Quiet(c) /\ task[c].pc = "advancing"
    /\ key' = [key EXCEPT !.chain = [gen |-> task[c].chain.gen, pos |-> task[c].chain.pos + 1],
                          !.counter = @ + 1]
    /\ sent' = [readers |-> {p \in Peers : Opens(p, m)}, owed |-> (key.audience \cap On) \ repeated,
                barred |-> task[c].gone \ On]
    /\ task' = [task EXCEPT ![c] = Idle]
    /\ UNCHANGED <<fresh, session, meeting, repeated, peer, got, events, since, overlapped>>

-----------------------------------------------------------------------------
(* _distributeSenderKey, in the loops over drSessions.keys(), and ratchetEncrypt *)

\* Mutation: the loop goes over everybody who ever had a session.
SealForAll(t, p) ==
    /\ task[t].pc = "spread" /\ p \in Peers \ task[t].visited /\ session[p].turn > 0
    /\ task' = [task EXCEPT ![t].pc = "deriving", ![t].visited = @ \cup {p}, ![t].to = p,
                            ![t].ratchet = session[p].chain,
                            ![t].parcel = [id |-> key.id, chain |-> key.chain,
                                           counter |-> key.counter]]
    /\ UNCHANGED <<key, fresh, session, meeting, repeated, peer, got, events, sent, since, overlapped>>

\* Serialise the key of now for the next peer; a session that cannot send is
\* passed over.
Seal(t, p) ==
    /\ task[t].pc = "spread" /\ p \in On \ task[t].visited
    /\ \/ /\ CanSend(p)
          /\ task' = [task EXCEPT ![t].pc = "deriving", ![t].visited = @ \cup {p}, ![t].to = p,
                                  ![t].ratchet = session[p].chain,
                                  ![t].parcel = [id |-> key.id, chain |-> key.chain,
                                                 counter |-> key.counter]]
       \/ ~CanSend(p) /\ task' = [task EXCEPT ![t].visited = @ \cup {p}]
    /\ UNCHANGED <<key, fresh, session, meeting, repeated, peer, got, events, sent, since, overlapped>>

\* The chain is the successor of the one read before the await, the number
\* the next one; they agree if nobody else has used the session meanwhile,
\* and else the peer cannot open what is sealed.  After two agreements the
\* ends may keep different sessions, and it may be the old one that is used.
Ratcheted(t) ==
    session' = [session EXCEPT
                  ![task[t].to].chain = <<task[t].ratchet[1], task[t].ratchet[2] + 1>>,
                  ![task[t].to].n = @ + 1]

InStep(t) == task[t].ratchet = <<session[task[t].to].turn, session[task[t].to].n>>
Opening(t) == IF task[t].to \in repeated THEN BOOLEAN ELSE {InStep(t)}

Ratchet(t) ==
    /\ Quiet(t) /\ task[t].pc = "deriving"
    /\ Ratcheted(t)
    /\ \E opens \in Opening(t) :
         task' = [task EXCEPT ![t].pc = "sealing", ![t].ratchet = <<0, 0>>,
                              ![t].parcel = IF opens THEN @ ELSE NoParcel]
    /\ UNCHANGED <<key, fresh, meeting, repeated, peer, got, events, sent, since, overlapped>>

\* sender-key-distribution, and _receiveSenderKeyDistribution at the peer.
Distribute(t) ==
    LET p == task[t].to  k == task[t].parcel IN
    /\ Quiet(t) /\ task[t].pc = "sealing"
    /\ got' = IF k = NoParcel THEN got ELSE [got EXCEPT ![p] = {x \in @ : x.id # k.id} \cup {k}]
    /\ task' = [task EXCEPT ![t].pc = "spread", ![t].to = None, ![t].parcel = NoParcel]
    /\ UNCHANGED <<key, fresh, session, meeting, repeated, peer, events, sent, since, overlapped>>

SendToOne(c) ==
    /\ Quiet(c) /\ task[c].pc = "single"
    /\ Ratcheted(c)
    /\ \E opens \in Opening(c) :
         sent' = [readers |-> IF opens THEN {task[c].to} ELSE {},
                  owed |-> ({task[c].to} \cap On) \ repeated, barred |-> task[c].gone \ On]
    /\ task' = [task EXCEPT ![c] = Idle]
    /\ UNCHANGED <<key, fresh, meeting, repeated, peer, got, events, since, overlapped>>

SpreadDone(t) ==
    /\ task[t].pc = "spread" /\ On \subseteq task[t].visited
    /\ task' = [task EXCEPT ![t] = IF task[t].then = "idle" THEN Idle
                                   ELSE [@ EXCEPT !.pc = task[t].then, !.visited = {}]]
    /\ UNCHANGED <<key, fresh, session, meeting, repeated, peer, got, events, sent, since, overlapped>>

-----------------------------------------------------------------------------
(* Peers *)

\* A bundle or an offer of a peer: PQXDH is being computed, unless an offer
\* finds a session.  The roster is not checked for one, and a peer that registers
\* while our request for the roster is on its way is in both.
Meet(p) ==
    /\ Quiet(None) /\ peer[p] # "left" /\ Event
    /\ peer' = [peer EXCEPT ![p] = "here"]
    /\ repeated' = IF peer[p] = "here" THEN repeated \cup {p} ELSE repeated
    /\ meeting' = IF p \in Smaller /\ session[p].on THEN meeting
                  ELSE [meeting EXCEPT ![p] = @ + 1]
    /\ UNCHANGED <<key, fresh, session, task, got, sent, since, overlapped>>

\* The session is stored, over another if there is one: with a sending chain
\* if we are the initiator.
Met(p) ==
    /\ Quiet(None) /\ meeting[p] > 0
    /\ meeting' = [meeting EXCEPT ![p] = @ - 1]
    /\ LET turn == IF p \in Smaller THEN 0 ELSE 1 IN
       session' = [session EXCEPT ![p] = [on |-> TRUE, turn |-> turn, chain |-> <<turn, 0>>, n |-> 0]]
    /\ UNCHANGED <<key, fresh, repeated, peer, task, got, events, sent, since, overlapped>>

\* Something the peer encrypted with a new DH key arrives: dhRatchetStep.
Turn(p) ==
    /\ Quiet(None) /\ session[p].on /\ peer[p] = "here" /\ session[p].turn < MaxTurns
    /\ session' = [session EXCEPT ![p] = [on |-> TRUE, turn |-> @.turn + 1,
                                          chain |-> <<@.turn + 1, 0>>, n |-> 0]]
    /\ overlapped' = (overlapped \/ \E t \in Tasks : task[t].to = p)
    /\ UNCHANGED <<key, fresh, meeting, repeated, peer, task, got, events, sent, since>>

\* peer-left: _rekeyAfterPeerLeave drops the session and rotates before its
\* first await, then hands out the new key.
PeerLeft(p) ==
    /\ Quiet(None) /\ peer[p] = "here" /\ Event
    /\ peer' = [peer EXCEPT ![p] = "left"]
    /\ since' = [since EXCEPT ![p] = fresh]
    /\ session' = [session EXCEPT ![p].on = FALSE]
    /\ IF key = NoKey THEN UNCHANGED <<key, fresh, task>>
       ELSE /\ Draw({q \in Peers \ {p} : CanSend(q)})
            /\ task' = [task EXCEPT ![p] = [Idle EXCEPT !.pc = "spread"]]
    /\ Overlap(meeting[p] > 0)
    /\ UNCHANGED <<meeting, repeated, got, sent>>

-----------------------------------------------------------------------------

Init ==
    /\ key = NoKey /\ fresh = 0
    /\ session = [p \in Peers |-> IF p \in Early
                                  THEN [on |-> TRUE, turn |-> 1, chain |-> <<1, 0>>, n |-> 0]
                                  ELSE [on |-> FALSE, turn |-> 0, chain |-> <<0, 0>>, n |-> 0]]
    /\ meeting = [p \in Peers |-> 0] /\ repeated = {}
    /\ peer = [p \in Peers |-> IF p \in Early THEN "here" ELSE "away"]
    /\ task = [t \in Tasks |-> Idle]
    /\ got = [p \in Peers |-> {}]
    /\ events = 0
    /\ sent = [readers |-> {}, owed |-> {}, barred |-> {}]
    /\ since = [p \in Peers |-> 0]
    /\ overlapped = FALSE

EncryptStep(c) ==
    \/ EncryptForGroup(c) \/ CheckLimits(c) \/ TakeKey(c) \/ TakeChain(c)
    \/ Commit(c) \/ SendToOne(c)
    \/ \E p \in Peers : EncryptForOne(c, p)

SpreadStep(t) ==
    Ratchet(t) \/ Distribute(t) \/ SpreadDone(t) \/ \E p \in Peers : Seal(t, p)

PeerStep(p) == Meet(p) \/ Met(p) \/ Turn(p) \/ PeerLeft(p)

Next ==
    \/ \E c \in Calls : EncryptStep(c)
    \/ \E t \in Tasks : SpreadStep(t)
    \/ \E p \in Peers : PeerStep(p)

Spec == Init /\ [][Next]_vars

-----------------------------------------------------------------------------

\* Who has left gets no key made after its departure was handled, whatever
\* distributions were running then (e2ee-manager.js:539: "to all remaining
\* peers"); a handshake that ends after the departure (it stores a session
\* again) is the exception the code leaves.
KeysOnlyToMembers ==
    \A p \in Left \ On : \A k \in got[p] : k.id <= since[p] /\ k.chain.gen <= since[p]

\* A message opens for nobody whose departure was handled before it was begun,
\* whatever overlaps.  As long as tasks do not overlap, it opens for everybody
\* the key or the session was made for, over all rotations, departures and
\* turns of the ratchets, but for peers with whom there were two agreements.
GroupReads ==
    /\ sent.barred \cap sent.readers = {}
    /\ ~overlapped => sent.owed \subseteq sent.readers

\* When everything has come to rest and more than one session is left, all
\* whom the key in use was made for can open what it encrypts next
\* ("remaining peers keep decrypting", client/test/e2ee-manager.test.js:289).
RemainingKeyed ==
    Active = {} /\ Cardinality(On) > 1 =>
        \A p \in (key.audience \cap On) \ repeated : Opens(p, key)
=============================================================================
