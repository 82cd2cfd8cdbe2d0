-------------------------- MODULE SenderKeysProofs --------------------------
(***************************************************************************)
(* Proofs about SenderKeys: the types of its variables, that who left is   *)
(* given no key made since and opens nothing, and that without overlapping *)
(* tasks a message opens for whom it should, for any peers, calls and      *)
(* bounds.                                                                 *)
(***************************************************************************)
EXTENDS SenderKeys, TLAPS

Task == [pc : {"idle"} \cup Running \cup Waiting, then : {"idle", "check", "start"},
         visited : SUBSET Peers, to : Peers \cup {None}, parcel : Parcel,
         ratchet : Nat \X Nat, counter : Nat, chain : Chain, sealed : Chain,
         gone : SUBSET Peers]

KeyTyped ==
    /\ key \in KeyState /\ fresh \in Nat
    /\ key # NoKey => key.id \in 1..fresh /\ key.chain.gen \in 1..fresh

PeersKnown ==
    /\ meeting \in [Peers -> Nat] /\ repeated \subseteq Peers
    /\ peer \in [Peers -> {"away", "here", "left"}]
    /\ events \in 0..MaxEvents
    /\ since \in [Peers -> Nat]

SentTyped == sent \in [readers : SUBSET Peers, owed : SUBSET Peers, barred : SUBSET Peers]

\* The locals of the tasks have their types; a task past its first step has a
\* key to work on, and one that advances a chain has a key that was drawn.
Locals(t) ==
    /\ task[t] \in Task
    /\ task[t].to \in IF task[t].pc \in {"deriving", "sealing", "single"} THEN Peers ELSE {None}
    /\ task[t].pc \notin {"idle", "single"} => key # NoKey
    /\ task[t].pc = "advancing" => task[t].chain.gen \in 1..fresh

OneRuns == \A t, u \in Tasks : task[t].pc \in Running /\ task[u].pc \in Running => t = u

IInv ==
    /\ KeyTyped /\ PeersKnown /\ SentTyped
    /\ session \in [Peers -> Session] /\ got \in [Peers -> SUBSET Parcel]
    /\ DOMAIN task = Tasks /\ task = [t \in Tasks |-> task[t]] /\ \A t \in Tasks : Locals(t)
    /\ OneRuns
    /\ overlapped \in BOOLEAN

-----------------------------------------------------------------------------
(* Constants of the right types *)

\* The blank records have the types of their variables.
LEMMA Blanks ==
    /\ NoChain \in Chain /\ NoParcel \in Parcel /\ NoParcel.id = 0 /\ NoParcel.chain.gen = 0
    /\ NoKey \in KeyState /\ NoKey.id = 0
    /\ Idle \in Task /\ Idle.pc = "idle" /\ Idle.to = None /\ Idle.parcel = NoParcel
    /\ Idle.then = "idle"
  BY DEF Idle, Task, Running, Waiting, Parcel, NoParcel, NoChain, Chain, NoKey, KeyState

\* The inductive invariant gives the types.
LEMMA TypesFollow == IInv => TypeOK
  <1> SUFFICES ASSUME IInv PROVE TypeOK OBVIOUS
  <1>1. \A t \in Tasks : task[t].pc \in {"idle"} \cup Running \cup Waiting
    BY DEF IInv, Locals, Task
  <1>2. \A t \in Tasks :
          task[t].to \in IF task[t].pc \in {"deriving", "sealing", "single"} THEN Peers ELSE {None}
    BY DEF IInv, Locals
  <1>3. \A t \in Tasks : task[t].pc \in Running => \A u \in Tasks \ {t} : task[u].pc \notin Running
    BY DEF IInv, OneRuns
  <1> QED BY <1>1, <1>2, <1>3 DEF IInv, KeyTyped, PeersKnown, SentTyped, TypeOK

\* The manager's initial state, before any session.
LEMMA InitIInv == Init => IInv
  <1> SUFFICES ASSUME Init PROVE IInv OBVIOUS
  <1>1. session \in [Peers -> Session]
    <2>1. \A p \in Peers : session[p] \in Session BY BoundsTyped DEF Session, Init
    <2> QED BY <2>1 DEF Init
  <1>2. \A t \in Tasks : task[t] = Idle BY DEF Init
  <1>3. task = [t \in Tasks |-> task[t]] /\ DOMAIN task = Tasks BY DEF Init
  <1>4. \A t \in Tasks : Locals(t)
    BY <1>2, Blanks DEF Locals
  <1>5. OneRuns BY <1>2, Blanks DEF OneRuns, Running
  <1>6. KeyTyped BY Blanks DEF Init, KeyTyped
  <1>7. PeersKnown BY BoundsTyped DEF Init, PeersKnown
  <1>8. SentTyped BY DEF Init, SentTyped
  <1>9. overlapped \in BOOLEAN BY DEF Init
  <1>10. got \in [Peers -> SUBSET Parcel] BY DEF Init
  <1> QED BY <1>1, <1>3, <1>4, <1>5, <1>6, <1>7, <1>8, <1>9, <1>10 DEF IInv

-----------------------------------------------------------------------------
(* What the steps do to the tasks *)

\* One task changes and the key stays: it is enough to look at that task.
LEMMA OneTask ==
    ASSUME IInv, NEW t \in Tasks, NEW x, task' = [task EXCEPT ![t] = x], Locals(t)',
           key # NoKey => key' # NoKey, fresh' \in Nat, fresh \in Nat, fresh' >= fresh,
           x.pc \in Running => \A u \in Tasks \ {t} : task[u].pc \notin Running
    PROVE  /\ DOMAIN task' = Tasks /\ task' = [u \in Tasks |-> task'[u]]
           /\ \A u \in Tasks : Locals(u)'
           /\ OneRuns'
  <1>1. DOMAIN task' = Tasks /\ task' = [u \in Tasks |-> task'[u]] BY DEF IInv
  <1>2. \A u \in Tasks \ {t} : task'[u] = task[u] BY DEF IInv
  <1>3. task'[t] = x BY DEF IInv
  <1>4. ASSUME NEW u \in Tasks PROVE Locals(u)'
    <2>1. CASE u = t BY <2>1
    <2>2. CASE u # t
      <3>1. task'[u] = task[u] /\ Locals(u) BY <1>2, <2>2 DEF IInv
      <3>2. task[u].chain.gen \in 1..fresh => task[u].chain.gen \in 1..fresh' OBVIOUS
      <3> QED BY <3>1, <3>2 DEF Locals
    <2> QED BY <2>1, <2>2
  <1>5. OneRuns' BY <1>2, <1>3 DEF IInv, OneRuns
  <1> QED BY <1>1, <1>4, <1>5

\* No task changes.
LEMMA NoTask ==
    ASSUME IInv, UNCHANGED <<key, fresh, task>>
    PROVE  /\ DOMAIN task' = Tasks /\ task' = [u \in Tasks |-> task'[u]]
           /\ \A u \in Tasks : Locals(u)'
           /\ OneRuns'
  BY DEF IInv, Locals, OneRuns

\* generateSenderKey and rotateSenderKey leave a key of a new id.
LEMMA Drawn ==
    ASSUME KeyTyped, NEW A \in SUBSET Peers, Draw(A)
    PROVE  KeyTyped' /\ key' # NoKey /\ fresh' = fresh + 1
  BY Blanks DEF KeyTyped, Draw, KeyState, Chain, NoKey

-----------------------------------------------------------------------------
(* One lemma for each action *)

\* The steps of encryptE2EE, of a distribution and of the peers keep the invariant.
LEMMA EncryptForGroupStep ==
    ASSUME IInv, NEW c \in Calls, EncryptForGroup(c)
    PROVE  IInv'
  <1> c \in Tasks BY DEF Tasks
  <1>1. /\ KeyTyped' /\ fresh' >= fresh /\ (key # NoKey => key' # NoKey) /\ key' # NoKey
        /\ fresh \in Nat /\ fresh' \in Nat
    BY Drawn DEF EncryptForGroup, KeyTyped, IInv
  <1>2. PICK x \in Task : /\ task' = [task EXCEPT ![c] = x]
                          /\ x.pc \in {"spread", "check"} /\ x.to = None
    <2>1. [Idle EXCEPT !.pc = "spread", !.then = "check", !.gone = Left] \in Task
      BY Blanks DEF Task, Running, Left
    <2>2. [Idle EXCEPT !.pc = "check", !.gone = Left] \in Task
      BY Blanks DEF Task, Running, Left
    <2> QED BY <2>1, <2>2, Blanks DEF EncryptForGroup, Task
  <1>3. task'[c] = x BY <1>2 DEF IInv
  <1>4. Locals(c)' BY <1>1, <1>2, <1>3 DEF Locals
  <1>5. \A u \in Tasks \ {c} : task[u].pc \notin Running BY DEF EncryptForGroup, Quiet
  <1>6. PeersKnown' BY BoundsTyped DEF EncryptForGroup, Event, IInv, PeersKnown
  <1>7. overlapped' \in BOOLEAN BY DEF EncryptForGroup, Overlap
  <1>8. SentTyped' /\ session' = session /\ got' = got
    BY DEF EncryptForGroup, IInv, SentTyped
  <1> QED BY <1>1, <1>2, <1>4, <1>5, <1>6, <1>7, <1>8, OneTask DEF IInv

LEMMA EncryptForOneStep ==
    ASSUME IInv, NEW c \in Calls, NEW p \in Peers, EncryptForOne(c, p)
    PROVE  IInv'
  <1> c \in Tasks BY DEF Tasks
  <1> DEFINE x == [Idle EXCEPT !.gone = Left, !.pc = "single", !.to = p,
                               !.ratchet = session[p].chain]
  <1>1. x \in Task /\ x.pc = "single" /\ x.to = p
    <2>1. session[p].chain \in Nat \X Nat BY DEF IInv, Session
    <2> QED BY <2>1, Blanks DEF Task, Waiting, Left
  <1>2. task' = [task EXCEPT ![c] = x] BY DEF EncryptForOne
  <1> HIDE DEF x
  <1>3. task'[c] = x BY <1>2 DEF IInv
  <1>4. Locals(c)' BY <1>1, <1>3 DEF Locals
  <1>5. x.pc \notin Running BY <1>1 DEF Running
  <1>6. PeersKnown' BY BoundsTyped DEF EncryptForOne, Event, IInv, PeersKnown
  <1>7. overlapped' \in BOOLEAN BY DEF EncryptForOne, Overlap
  <1>8. KeyTyped' /\ SentTyped' /\ session' = session /\ got' = got /\ UNCHANGED <<key, fresh>>
    BY DEF EncryptForOne, IInv, KeyTyped, SentTyped
  <1> QED BY <1>2, <1>4, <1>5, <1>6, <1>7, <1>8, OneTask DEF IInv, KeyTyped

\* Nothing but a task changes.
LEMMA TaskStep ==
    ASSUME IInv, NEW t \in Tasks, NEW x \in Task, task' = [task EXCEPT ![t] = x],
           x.to \in IF x.pc \in {"deriving", "sealing", "single"} THEN Peers ELSE {None},
           x.pc \notin {"idle", "single"} => key # NoKey,
           x.pc = "advancing" => x.chain.gen \in 1..fresh,
           x.pc \in Running => \A u \in Tasks \ {t} : task[u].pc \notin Running,
           UNCHANGED <<key, fresh, session, meeting, repeated, peer, got, events, sent, since, overlapped>>
    PROVE  IInv'
  <1>1. task'[t] = x BY DEF IInv
  <1>2. Locals(t)' BY <1>1 DEF Locals
  <1>3. /\ KeyTyped' /\ PeersKnown' /\ SentTyped'
        /\ (session \in [Peers -> Session] /\ got \in [Peers -> SUBSET Parcel])'
        /\ overlapped' \in BOOLEAN
    BY DEF IInv, KeyTyped, PeersKnown, SentTyped
  <1> QED BY <1>2, <1>3, OneTask DEF IInv, KeyTyped

LEMMA CheckLimitsStep ==
    ASSUME IInv, NEW c \in Calls, CheckLimits(c)
    PROVE  IInv'
  <1> c \in Tasks BY DEF Tasks
  <1>1. /\ task[c] \in Task /\ task[c].to = None /\ key # NoKey
        /\ \A u \in Tasks \ {c} : task[u].pc \notin Running
    BY DEF CheckLimits, IInv, Locals, OneRuns, Running
  <1>2. /\ KeyTyped' /\ fresh' >= fresh /\ key' # NoKey /\ fresh \in Nat /\ fresh' \in Nat
    BY <1>1, Drawn DEF CheckLimits, KeyTyped, IInv
  <1>3. PICK x \in Task : /\ task' = [task EXCEPT ![c] = x]
                          /\ x.pc \in {"spread", "start"} /\ x.to = None
    <2>1. [task[c] EXCEPT !.pc = "start"] \in Task BY <1>1 DEF Task, Running
    <2>2. [task[c] EXCEPT !.pc = "spread", !.then = "start"] \in Task BY <1>1 DEF Task, Running
    <2> DEFINE y == [task[c] EXCEPT !.pc = "start"]
               z == [task[c] EXCEPT !.pc = "spread", !.then = "start"]
    <2>3. y.pc = "start" /\ y.to = None /\ z.pc = "spread" /\ z.to = None BY <1>1 DEF Task
    <2>4. task' = [task EXCEPT ![c] = y] \/ task' = [task EXCEPT ![c] = z]
      BY DEF CheckLimits, IInv
    <2> QED BY <2>1, <2>2, <2>3, <2>4
  <1>4. task'[c] = x BY <1>3 DEF IInv
  <1>5. Locals(c)' BY <1>2, <1>3, <1>4 DEF Locals
  <1>6. /\ PeersKnown' /\ SentTyped' /\ session' = session /\ got' = got
        /\ overlapped' = overlapped
    BY DEF CheckLimits, IInv, PeersKnown, SentTyped
  <1> QED BY <1>1, <1>2, <1>3, <1>5, <1>6, OneTask DEF IInv

LEMMA TakeKeyStep ==
    ASSUME IInv, NEW c \in Calls, TakeKey(c)
    PROVE  IInv'
  <1> c \in Tasks BY DEF Tasks
  <1>1. task[c] \in Task /\ task[c].to = None /\ key # NoKey /\ key \in KeyState
    BY DEF TakeKey, IInv, Locals, KeyTyped
  <1> DEFINE x == [task[c] EXCEPT !.pc = "encrypting", !.counter = key.counter,
                                  !.sealed = key.chain]
  <1>2. x \in Task /\ x.pc = "encrypting" /\ x.to = None
    BY <1>1 DEF Task, Waiting, KeyState
  <1>3. task' = [task EXCEPT ![c] = x] BY DEF TakeKey
  <1> HIDE DEF x
  <1> QED BY <1>1, <1>2, <1>3, TaskStep DEF TakeKey, Running

LEMMA TakeChainStep ==
    ASSUME IInv, NEW c \in Calls, TakeChain(c)
    PROVE  IInv'
  <1> c \in Tasks BY DEF Tasks
  <1>1. /\ task[c] \in Task /\ task[c].to = None /\ key # NoKey /\ key \in KeyState
        /\ key.chain.gen \in 1..fresh
    BY DEF TakeChain, IInv, Locals, KeyTyped
  <1> DEFINE x == [task[c] EXCEPT !.pc = "advancing", !.chain = key.chain]
  <1>2. x \in Task /\ x.pc = "advancing" /\ x.to = None /\ x.chain = key.chain
    BY <1>1 DEF Task, Waiting, KeyState
  <1>3. task' = [task EXCEPT ![c] = x] BY DEF TakeChain
  <1> HIDE DEF x
  <1> QED BY <1>1, <1>2, <1>3, TaskStep DEF TakeChain, Running

LEMMA CommitStep ==
    ASSUME IInv, NEW c \in Calls, Commit(c)
    PROVE  IInv'
  <1> c \in Tasks BY DEF Tasks
  <1>1. /\ task[c] \in Task /\ key # NoKey /\ key \in KeyState /\ key.id \in 1..fresh
        /\ task[c].chain.gen \in 1..fresh /\ fresh \in Nat
    <2>1. Locals(c) /\ task[c].pc = "advancing" BY DEF Commit, IInv
    <2> QED BY <2>1 DEF Locals, IInv, KeyTyped
  <1>2. /\ key' \in KeyState /\ key'.id = key.id /\ key'.chain.gen = task[c].chain.gen
        /\ fresh' = fresh
    <2>1. task[c].chain \in Chain BY <1>1 DEF Task
    <2> DEFINE next == [gen |-> task[c].chain.gen, pos |-> task[c].chain.pos + 1]
               n == key.counter + 1
    <2>2. n \in Nat /\ next \in Chain /\ next.gen = task[c].chain.gen BY <1>1, <2>1 DEF Chain, KeyState
    <2>3. key' = [key EXCEPT !.chain = next, !.counter = n] /\ fresh' = fresh
      BY DEF Commit
    <2> HIDE DEF next, n
    <2>4. key'.chain = next BY <1>1, <2>3 DEF KeyState
    <2>5. key' \in KeyState BY <1>1, <2>2, <2>3 DEF KeyState
    <2>6. key'.id = key.id BY <1>1, <2>3 DEF KeyState
    <2> QED BY <2>2, <2>3, <2>4, <2>5, <2>6
  <1>3. KeyTyped' /\ key' # NoKey BY <1>1, <1>2, Blanks DEF KeyTyped
  <1>4. task' = [task EXCEPT ![c] = Idle] BY DEF Commit
  <1>5. task'[c] = Idle BY <1>4 DEF IInv
  <1>6. Locals(c)' BY <1>5, Blanks DEF Locals
  <1>7. SentTyped'
    <2>1. /\ task[c].gone \ On \subseteq Peers /\ (key.audience \cap On) \ repeated \subseteq Peers
      BY <1>1 DEF Task, KeyState
    <2> QED BY <2>1 DEF Commit, SentTyped
  <1>8. PeersKnown' /\ session' = session /\ got' = got /\ overlapped' = overlapped
    BY DEF Commit, IInv, PeersKnown
  <1>9. Idle.pc \notin Running BY Blanks DEF Running
  <1> QED BY <1>1, <1>2, <1>3, <1>4, <1>6, <1>7, <1>8, <1>9, OneTask DEF IInv

LEMMA SealStep ==
    ASSUME IInv, NEW t \in Tasks, NEW p \in Peers, Seal(t, p)
    PROVE  IInv'
  <1>1. /\ task[t] \in Task /\ task[t].pc = "spread" /\ task[t].to = None /\ key # NoKey
        /\ key \in KeyState /\ session[p].chain \in Nat \X Nat
        /\ \A u \in Tasks \ {t} : task[u].pc \notin Running
    <2>1. Locals(t) /\ task[t].pc = "spread" BY DEF Seal, IInv
    <2> QED BY <2>1 DEF Locals, IInv, KeyTyped, Session, OneRuns, Running
  <1>2. CASE CanSend(p)
    <2> DEFINE k == [id |-> key.id, chain |-> key.chain, counter |-> key.counter]
               x == [task[t] EXCEPT !.pc = "deriving", !.visited = @ \cup {p}, !.to = p,
                                    !.ratchet = session[p].chain, !.parcel = k]
    <2>1. k \in Parcel BY <1>1 DEF KeyState, Parcel
    <2>2. task' = [task EXCEPT ![t] = x] BY <1>2 DEF Seal, IInv
    <2> HIDE DEF k
    <2>3. x \in Task /\ x.pc = "deriving" /\ x.to = p BY <1>1, <2>1 DEF Task, Waiting
    <2> HIDE DEF x
    <2> QED BY <1>1, <2>2, <2>3, TaskStep DEF Seal, Running
  <1>3. CASE ~CanSend(p)
    <2> DEFINE x == [task[t] EXCEPT !.visited = @ \cup {p}]
    <2>1. task' = [task EXCEPT ![t] = x] BY <1>3 DEF Seal, IInv
    <2>2. x \in Task /\ x.pc = "spread" /\ x.to = None BY <1>1 DEF Task
    <2> HIDE DEF x
    <2> QED BY <1>1, <2>1, <2>2, TaskStep DEF Seal
  <1> QED BY <1>2, <1>3

\* The ratchet advances in the sending of a parcel or of a message.
LEMMA RatchetedTyped ==
    ASSUME IInv, NEW t \in Tasks, task[t].to \in Peers, Ratcheted(t)
    PROVE  /\ session' \in [Peers -> Session]
           /\ \A p \in Peers : session'[p].on = session[p].on
  <1> DEFINE y == <<task[t].ratchet[1], task[t].ratchet[2] + 1>>
             z == session[task[t].to].n + 1
             x == [session[task[t].to] EXCEPT !.chain = y, !.n = z]
  <1>1. task[t].ratchet \in Nat \X Nat BY DEF IInv, Locals, Task
  <1>2. session[task[t].to] \in Session BY DEF IInv
  <1>3. session' = [session EXCEPT ![task[t].to] = x] BY DEF Ratcheted, IInv
  <1>4. y \in Nat \X Nat /\ z \in Nat BY <1>1, <1>2 DEF Session
  <1> HIDE DEF y, z
  <1>5. x \in Session /\ x.on = session[task[t].to].on BY <1>2, <1>4 DEF Session
  <1> HIDE DEF x
  <1> QED BY <1>3, <1>5 DEF IInv

LEMMA RatchetStep ==
    ASSUME IInv, NEW t \in Tasks, Ratchet(t)
    PROVE  IInv'
  <1>1. /\ task[t] \in Task /\ task[t].to \in Peers /\ key # NoKey
    <2>1. Locals(t) /\ task[t].pc = "deriving" BY DEF Ratchet, IInv
    <2> QED BY <2>1 DEF Locals
  <1>0. PICK opens \in BOOLEAN :
          task' = [task EXCEPT ![t].pc = "sealing", ![t].ratchet = <<0, 0>>,
                               ![t].parcel = IF opens THEN @ ELSE NoParcel]
    BY DEF Ratchet, Opening, InStep
  <1> DEFINE x == [task[t] EXCEPT !.pc = "sealing", !.ratchet = <<0, 0>>,
                                  !.parcel = IF opens THEN @ ELSE NoParcel]
  <1>2. task' = [task EXCEPT ![t] = x] BY <1>0 DEF IInv
  <1>3. x \in Task /\ x.pc = "sealing" /\ x.to = task[t].to
    <2>1. (IF opens THEN task[t].parcel ELSE NoParcel) \in Parcel BY <1>1, Blanks DEF Task
    <2>2. <<0, 0>> \in Nat \X Nat OBVIOUS
    <2> QED BY <1>1, <2>1, <2>2 DEF Task, Waiting
  <1> HIDE DEF x
  <1>4. task'[t] = x BY <1>2 DEF IInv
  <1>5. KeyTyped' /\ UNCHANGED <<key, fresh>> BY DEF Ratchet, IInv, KeyTyped
  <1>6. Locals(t)' BY <1>1, <1>3, <1>4, <1>5 DEF Locals
  <1>7. x.pc \notin Running BY <1>3 DEF Running
  <1>8. PeersKnown' /\ SentTyped' /\ got' = got /\ overlapped' = overlapped
    BY DEF Ratchet, IInv, PeersKnown, SentTyped
  <1>9. session' \in [Peers -> Session] BY <1>1, RatchetedTyped DEF Ratchet
  <1> QED BY <1>2, <1>5, <1>6, <1>7, <1>8, <1>9, OneTask DEF IInv, KeyTyped

LEMMA DistributeStep ==
    ASSUME IInv, NEW t \in Tasks, Distribute(t)
    PROVE  IInv'
  <1>1. /\ task[t] \in Task /\ task[t].to \in Peers /\ key # NoKey
        /\ \A u \in Tasks \ {t} : task[u].pc \notin Running
    <2>1. Locals(t) /\ task[t].pc = "sealing" BY DEF Distribute, IInv
    <2> QED BY <2>1 DEF Locals, Distribute, Quiet
  <1> DEFINE x == [task[t] EXCEPT !.pc = "spread", !.to = None, !.parcel = NoParcel]
  <1>2. task' = [task EXCEPT ![t] = x] BY DEF Distribute, IInv
  <1>3. x \in Task /\ x.pc = "spread" /\ x.to = None BY <1>1, Blanks DEF Task, Running
  <1> HIDE DEF x
  <1>4. task'[t] = x BY <1>2 DEF IInv
  <1>5. KeyTyped' /\ UNCHANGED <<key, fresh>> BY DEF Distribute, IInv, KeyTyped
  <1>6. Locals(t)' BY <1>1, <1>3, <1>4, <1>5 DEF Locals
  <1>7. PeersKnown' /\ SentTyped' /\ session' = session /\ overlapped' = overlapped
    BY DEF Distribute, IInv, PeersKnown, SentTyped
  <1>8. got' \in [Peers -> SUBSET Parcel]
    <2>1. task[t].parcel \in Parcel BY <1>1 DEF Task
    <2> QED BY <1>1, <2>1 DEF Distribute, IInv
  <1> QED BY <1>1, <1>2, <1>5, <1>6, <1>7, <1>8, OneTask DEF IInv, KeyTyped

LEMMA SendToOneStep ==
    ASSUME IInv, NEW c \in Calls, SendToOne(c)
    PROVE  IInv'
  <1> c \in Tasks BY DEF Tasks
  <1>1. task[c] \in Task /\ task[c].to \in Peers
    <2>1. Locals(c) /\ task[c].pc = "single" BY DEF SendToOne, IInv
    <2> QED BY <2>1 DEF Locals
  <1>2. task' = [task EXCEPT ![c] = Idle] BY DEF SendToOne
  <1>3. task'[c] = Idle BY <1>2 DEF IInv
  <1>4. Locals(c)' BY <1>3, Blanks DEF Locals
  <1>5. Idle.pc \notin Running BY Blanks DEF Running
  <1>6. KeyTyped' /\ PeersKnown' /\ got' = got /\ overlapped' = overlapped
        /\ UNCHANGED <<key, fresh>>
    BY DEF SendToOne, IInv, KeyTyped, PeersKnown
  <1>7. SentTyped'
    <2>1. task[c].gone \ On \subseteq Peers /\ ({task[c].to} \cap On) \ repeated \subseteq Peers
      BY <1>1 DEF Task
    <2>2. \A opens \in BOOLEAN : (IF opens THEN {task[c].to} ELSE {}) \subseteq Peers BY <1>1
    <2>3. Opening(c) \subseteq BOOLEAN BY DEF Opening, InStep
    <2> QED BY <2>1, <2>2, <2>3 DEF SendToOne, SentTyped
  <1>8. session' \in [Peers -> Session] BY <1>1, RatchetedTyped DEF SendToOne
  <1> QED BY <1>2, <1>4, <1>5, <1>6, <1>7, <1>8, OneTask DEF IInv, KeyTyped

LEMMA SpreadDoneStep ==
    ASSUME IInv, NEW t \in Tasks, SpreadDone(t)
    PROVE  IInv'
  <1>1. /\ task[t] \in Task /\ task[t].to = None /\ key # NoKey
        /\ \A u \in Tasks \ {t} : task[u].pc \notin Running
    <2>1. Locals(t) /\ task[t].pc = "spread" BY DEF SpreadDone, IInv
    <2> QED BY <2>1 DEF Locals, IInv, OneRuns, Running
  <1>2. CASE task[t].then = "idle"
    <2>1. task' = [task EXCEPT ![t] = Idle] BY <1>2 DEF SpreadDone
    <2> QED BY <2>1, Blanks, TaskStep DEF SpreadDone, Running
  <1>3. CASE task[t].then # "idle"
    <2> DEFINE x == [task[t] EXCEPT !.pc = task[t].then, !.visited = {}]
    <2>1. task' = [task EXCEPT ![t] = x] BY <1>3 DEF SpreadDone, IInv
    <2>2. x \in Task /\ x.pc \in {"check", "start"} /\ x.to = None
      BY <1>1, <1>3 DEF Task, Running
    <2> HIDE DEF x
    <2> QED BY <1>1, <2>1, <2>2, TaskStep DEF SpreadDone
  <1> QED BY <1>2, <1>3

LEMMA MeetStep ==
    ASSUME IInv, NEW p \in Peers, Meet(p)
    PROVE  IInv'
  <1>1. /\ KeyTyped' /\ SentTyped' /\ UNCHANGED <<key, fresh, task, session, got>>
        /\ overlapped' = overlapped
    BY DEF Meet, IInv, KeyTyped, SentTyped
  <1>2. PeersKnown'
    <2>1. meeting' \in [Peers -> Nat] /\ repeated' \subseteq Peers BY DEF Meet, IInv, PeersKnown
    <2> QED BY <2>1, BoundsTyped DEF Meet, Event, IInv, PeersKnown
  <1> QED BY <1>1, <1>2, NoTask DEF IInv

LEMMA MetStep ==
    ASSUME IInv, NEW p \in Peers, Met(p)
    PROVE  IInv'
  <1>1. /\ KeyTyped' /\ SentTyped' /\ UNCHANGED <<key, fresh, task, got>>
        /\ overlapped' = overlapped
    BY DEF Met, IInv, KeyTyped, SentTyped
  <1>2. PeersKnown'
    <2>1. meeting[p] - 1 \in Nat BY DEF Met, IInv, PeersKnown
    <2> QED BY <2>1 DEF Met, IInv, PeersKnown
  <1>3. session' \in [Peers -> Session]
    <2>1. \A turn \in {0, 1} :
            [on |-> TRUE, turn |-> turn, chain |-> <<turn, 0>>, n |-> 0] \in Session
      BY BoundsTyped DEF Session
    <2> QED BY <2>1 DEF Met, IInv
  <1> QED BY <1>1, <1>2, <1>3, NoTask DEF IInv

LEMMA TurnStep ==
    ASSUME IInv, NEW p \in Peers, Turn(p)
    PROVE  IInv'
  <1>1. KeyTyped' /\ SentTyped' /\ UNCHANGED <<key, fresh, task, got>>
    BY DEF Turn, IInv, KeyTyped, SentTyped
  <1>2. PeersKnown' BY DEF Turn, IInv, PeersKnown
  <1>3. overlapped' \in BOOLEAN BY DEF Turn
  <1>4. session' \in [Peers -> Session]
    <2> DEFINE m == session[p].turn + 1
    <2>1. m \in 0..MaxTurns /\ m \in Nat BY BoundsTyped DEF Turn, IInv, Session
    <2>2. session' = [session EXCEPT ![p] = [on |-> TRUE, turn |-> m, chain |-> <<m, 0>>, n |-> 0]]
      BY DEF Turn, IInv
    <2> HIDE DEF m
    <2>3. [on |-> TRUE, turn |-> m, chain |-> <<m, 0>>, n |-> 0] \in Session
      BY <2>1 DEF Session
    <2> QED BY <2>2, <2>3 DEF IInv
  <1> QED BY <1>1, <1>2, <1>3, <1>4, NoTask DEF IInv

LEMMA PeerLeftStep ==
    ASSUME IInv, NEW p \in Peers, PeerLeft(p)
    PROVE  IInv'
  <1> p \in Tasks BY DEF Tasks
  <1>1. SentTyped' /\ got' = got BY DEF PeerLeft, IInv, SentTyped
  <1>2. PeersKnown' BY BoundsTyped DEF PeerLeft, Event, IInv, PeersKnown, KeyTyped
  <1>3. overlapped' \in BOOLEAN BY DEF PeerLeft, Overlap
  <1>4. session' \in [Peers -> Session]
    <2>1. \A x \in Session : [x EXCEPT !.on = FALSE] \in Session BY DEF Session
    <2> QED BY <2>1 DEF PeerLeft, IInv
  <1>5. CASE key = NoKey
    <2>1. KeyTyped' /\ UNCHANGED <<key, fresh, task>> BY <1>5 DEF PeerLeft, IInv, KeyTyped
    <2> QED BY <1>1, <1>2, <1>3, <1>4, <2>1, NoTask DEF IInv
  <1>6. CASE key # NoKey
    <2> DEFINE A == {q \in Peers \ {p} : CanSend(q)}
               x == [Idle EXCEPT !.pc = "spread"]
    <2>1. A \in SUBSET Peers /\ Draw(A) /\ task' = [task EXCEPT ![p] = x]
      BY <1>6 DEF PeerLeft
    <2>2. x \in Task /\ x.pc = "spread" /\ x.to = None BY Blanks DEF Task, Running
    <2> HIDE DEF A, x
    <2>3. KeyTyped' /\ key' # NoKey /\ fresh' = fresh + 1 /\ fresh \in Nat
      BY <2>1, Drawn DEF IInv, KeyTyped
    <2>4. task'[p] = x BY <2>1 DEF IInv
    <2>5. Locals(p)' BY <2>2, <2>3, <2>4 DEF Locals
    <2>6. \A u \in Tasks \ {p} : task[u].pc \notin Running
      BY TasksApart DEF PeerLeft, Quiet, Tasks
    <2> QED BY <1>1, <1>2, <1>3, <1>4, <2>1, <2>3, <2>5, <2>6, OneTask DEF IInv
  <1> QED BY <1>5, <1>6

\* Every step keeps the invariant.
LEMMA StepIInv == IInv /\ [Next]_vars => IInv'
  <1> SUFFICES ASSUME IInv, [Next]_vars PROVE IInv' OBVIOUS
  <1>1. CASE UNCHANGED vars
    BY <1>1 DEF vars, IInv, KeyTyped, PeersKnown, SentTyped, Locals, OneRuns
  <1>2. CASE \E c \in Calls : EncryptStep(c)
    <2> PICK c \in Calls : EncryptStep(c) BY <1>2
    <2> QED BY EncryptForGroupStep, EncryptForOneStep, CheckLimitsStep, TakeKeyStep,
               TakeChainStep, CommitStep, SendToOneStep DEF EncryptStep
  <1>3. CASE \E t \in Tasks : SpreadStep(t)
    <2> PICK t \in Tasks : SpreadStep(t) BY <1>3
    <2> QED BY SealStep, RatchetStep, DistributeStep, SpreadDoneStep DEF SpreadStep
  <1>4. CASE \E p \in Peers : PeerStep(p)
    <2> PICK p \in Peers : PeerStep(p) BY <1>4
    <2> QED BY MeetStep, MetStep, TurnStep, PeerLeftStep DEF PeerStep
  <1> QED BY <1>1, <1>2, <1>3, <1>4 DEF Next

\* What the locals of a task hold at each of its positions, in every reachable
\* state: a parcel only while sealing it, a receiver that is a peer, and a key
\* past the first step of encryptE2EE.
THEOREM IInvHolds == Spec => []IInv
  BY InitIInv, StepIInv, PTL DEF Spec

\* In every reachable state of SenderKeys the variables have their types, ids
\* are of keys that were drawn, and at most one task is between two awaits.
THEOREM TypeCorrect == Spec => []TypeOK
  BY IInvHolds, TypesFollow, PTL

-----------------------------------------------------------------------------
(* Who left is given no key made since *)

\* The key was drawn among the first n.
Past(k, n) == k.id <= n /\ k.chain.gen <= n

Sealing(t) == task[t].pc \in {"deriving", "sealing"}

\* Every key that was given or is being sealed has been drawn; one that is being
\* sealed for somebody who left was drawn before.
KeysPast ==
    /\ \A p \in Peers : since[p] <= fresh /\ \A k \in got[p] : Past(k, fresh)
    /\ \A t \in Tasks : Past(task[t].parcel, fresh)
    /\ \A t \in Tasks : Sealing(t) /\ task[t].to \in Left \ On
                          => Past(task[t].parcel, since[task[t].to])
    /\ KeysOnlyToMembers

\* Ids and positions are numbers, so that they can be compared.
LEMMA PastNumbers ==
    ASSUME IInv
    PROVE  /\ fresh \in Nat /\ since \in [Peers -> Nat]
           /\ \A p \in Peers : \A k \in got[p] : k.id \in Nat /\ k.chain.gen \in Nat
           /\ \A t \in Tasks : task[t].parcel.id \in Nat /\ task[t].parcel.chain.gen \in Nat
  <1>1. \A t \in Tasks : task[t].parcel \in Parcel BY DEF IInv, Locals, Task
  <1>2. \A p \in Peers : \A k \in got[p] : k \in Parcel BY DEF IInv
  <1> QED BY <1>1, <1>2 DEF IInv, KeyTyped, PeersKnown, Parcel, Chain

\* What t seals after a step is for somebody with a session, or it was being
\* sealed for the same peer before.
SealedBefore(t) ==
    Sealing(t)' => \/ task'[t].to \in On'
                   \/ /\ Sealing(t) /\ task'[t].to = task[t].to
                      /\ task'[t].parcel \in {task[t].parcel, NoParcel}

\* A step that gives nobody a key and in which nobody leaves.
LEMMA KeysKept ==
    ASSUME IInv, KeysPast, IInv', fresh' >= fresh, since' = since, got' = got,
           (Left \ On)' \subseteq Left \ On,
           \A t \in Tasks : Past(task[t].parcel, fresh)' /\ SealedBefore(t)
    PROVE  KeysPast'
  <1> DEFINE gone == (Left \ On)'
  <1>1. \A p \in Peers : since'[p] <= fresh' /\ \A k \in got'[p] : Past(k, fresh')
    BY PastNumbers DEF KeysPast, Past, IInv, KeyTyped
  <1>2. ASSUME NEW t \in Tasks, Sealing(t)', task'[t].to \in gone
        PROVE  Past(task'[t].parcel, since'[task'[t].to])
    <2>1. task'[t].to \in Left \ On /\ task'[t].to \notin On' BY <1>2
    <2>2. /\ Sealing(t) /\ task'[t].to = task[t].to
          /\ task'[t].parcel \in {task[t].parcel, NoParcel}
      BY <1>2, <2>1 DEF SealedBefore
    <2>3. Past(task[t].parcel, since[task[t].to]) BY <2>1, <2>2 DEF KeysPast
    <2>4. task'[t].to \in Peers BY <2>1 DEF Left
    <2>5. Past(NoParcel, since[task'[t].to]) BY <2>4, PastNumbers, Blanks DEF Past
    <2> QED BY <2>2, <2>3, <2>5
  <1>3. KeysOnlyToMembers' BY DEF KeysPast, KeysOnlyToMembers
  <1> QED BY <1>1, <1>2, <1>3 DEF KeysPast

\* One task changes, and not to seal another parcel.
LEMMA KeysKeptTask ==
    ASSUME IInv, KeysPast, IInv', fresh' >= fresh, since' = since, got' = got,
           (Left \ On)' \subseteq Left \ On,
           NEW t \in Tasks, \A u \in Tasks \ {t} : task'[u] = task[u],
           task'[t].parcel \in {task[t].parcel, NoParcel},
           Sealing(t)' => Sealing(t) /\ task'[t].to = task[t].to
    PROVE  KeysPast'
  <1>1. \A u \in Tasks : task'[u].parcel \in {task[u].parcel, NoParcel} OBVIOUS
  <1>2. \A u \in Tasks : Past(task'[u].parcel, fresh')
    <2> TAKE u \in Tasks
    <2>1. Past(task[u].parcel, fresh) BY DEF KeysPast
    <2>2. Past(task[u].parcel, fresh') BY <2>1, PastNumbers DEF Past, IInv, KeyTyped
    <2>3. Past(NoParcel, fresh') BY Blanks DEF Past, IInv, KeyTyped
    <2> QED BY <1>1, <2>2, <2>3
  <1>3. \A u \in Tasks : SealedBefore(u) BY <1>1 DEF SealedBefore, Sealing
  <1> QED BY <1>2, <1>3, KeysKept

\* The steps of encryptE2EE, of a distribution and of the peers keep KeysPast.
LEMMA CallKeys ==
    ASSUME IInv, KeysPast, IInv', NEW c \in Calls, EncryptStep(c)
    PROVE  KeysPast'
  <1> c \in Tasks BY DEF Tasks
  <1> task \in [Tasks -> Task] BY DEF IInv, Locals
  <1> DEFINE Kept == /\ fresh' >= fresh /\ since' = since /\ got' = got
                     /\ (Left \ On)' \subseteq Left \ On
                     /\ \A u \in Tasks \ {c} : task'[u] = task[u]
                     /\ task'[c].parcel \in {task[c].parcel, NoParcel}
                     /\ ~Sealing(c)'
  <1> SUFFICES Kept BY KeysKeptTask
  <1>0. fresh \in Nat /\ fresh <= fresh + 1 /\ fresh >= fresh BY DEF IInv, KeyTyped
  <1>1. CASE EncryptForGroup(c)
    <2>1. (Left \ On)' = Left \ On BY <1>1 DEF EncryptForGroup, Left, On
    <2>2. /\ task'[c].parcel = NoParcel /\ task'[c].pc \in {"spread", "check"}
          /\ \A u \in Tasks \ {c} : task'[u] = task[u]
      <3> DEFINE x == task'[c]
      <3>1. task' = [task EXCEPT ![c] = x] /\ \A u \in Tasks \ {c} : task'[u] = task[u]
        BY <1>1 DEF EncryptForGroup
      <3>2. \/ x = [Idle EXCEPT !.pc = "spread", !.then = "check", !.gone = Left]
            \/ x = [Idle EXCEPT !.pc = "check", !.gone = Left]
        BY <1>1 DEF EncryptForGroup
      <3> QED BY <3>1, <3>2 DEF Idle
    <2>3. fresh' >= fresh /\ since' = since /\ got' = got
      BY <1>0, <1>1 DEF EncryptForGroup, Draw
    <2>4. ~Sealing(c)' BY <2>2 DEF Sealing
    <2> QED BY <2>1, <2>2, <2>3, <2>4
  <1>2. ASSUME NEW p \in Peers, EncryptForOne(c, p) PROVE Kept
    <2>1. (Left \ On)' = Left \ On BY <1>2 DEF EncryptForOne, Left, On
    <2>2. /\ task'[c].parcel = NoParcel /\ task'[c].pc = "single"
          /\ \A u \in Tasks \ {c} : task'[u] = task[u]
      BY <1>2 DEF EncryptForOne, Idle
    <2> QED BY <1>0, <1>2, <2>1, <2>2 DEF EncryptForOne, Sealing
  <1>3. CASE CheckLimits(c)
    <2>1. (Left \ On)' = Left \ On BY <1>3 DEF CheckLimits, Left, On
    <2>2. /\ task'[c].parcel = task[c].parcel /\ task'[c].pc \in {"spread", "start"}
          /\ \A u \in Tasks \ {c} : task'[u] = task[u]
      BY <1>3 DEF CheckLimits, Task
    <2> QED BY <1>0, <1>3, <2>1, <2>2 DEF CheckLimits, Draw, Sealing
  <1>4. CASE TakeKey(c)
    <2>1. (Left \ On)' = Left \ On BY <1>4 DEF TakeKey, Left, On
    <2>2. /\ task'[c].parcel = task[c].parcel /\ task'[c].pc = "encrypting"
          /\ \A u \in Tasks \ {c} : task'[u] = task[u]
      BY <1>4 DEF TakeKey, Task
    <2> QED BY <1>0, <1>4, <2>1, <2>2 DEF TakeKey, Sealing
  <1>5. CASE TakeChain(c)
    <2>1. (Left \ On)' = Left \ On BY <1>5 DEF TakeChain, Left, On
    <2>2. /\ task'[c].parcel = task[c].parcel /\ task'[c].pc = "advancing"
          /\ \A u \in Tasks \ {c} : task'[u] = task[u]
      BY <1>5 DEF TakeChain, Task
    <2> QED BY <1>0, <1>5, <2>1, <2>2 DEF TakeChain, Sealing
  <1>6. CASE Commit(c)
    <2>1. (Left \ On)' = Left \ On BY <1>6 DEF Commit, Left, On
    <2>2. task'[c] = Idle /\ \A u \in Tasks \ {c} : task'[u] = task[u] BY <1>6 DEF Commit
    <2> QED BY <1>0, <1>6, <2>1, <2>2, Blanks DEF Commit, Sealing
  <1>7. CASE SendToOne(c)
    <2>1. task[c].to \in Peers BY <1>7 DEF SendToOne, IInv, Locals
    <2>2. \A p \in Peers : session'[p].on = session[p].on
      BY <1>7, <2>1, RatchetedTyped DEF SendToOne
    <2>3. (Left \ On)' = Left \ On BY <1>7, <2>2 DEF SendToOne, Left, On
    <2>4. task'[c] = Idle /\ \A u \in Tasks \ {c} : task'[u] = task[u] BY <1>7 DEF SendToOne
    <2> QED BY <1>0, <1>7, <2>3, <2>4, Blanks DEF SendToOne, Sealing
  <1> QED BY <1>1, <1>2, <1>3, <1>4, <1>5, <1>6, <1>7 DEF EncryptStep

LEMMA SealKeys ==
    ASSUME IInv, KeysPast, IInv', NEW t \in Tasks, NEW p \in Peers, Seal(t, p)
    PROVE  KeysPast'
  <1> task \in [Tasks -> Task] BY DEF IInv, Locals
  <1>1. /\ fresh' = fresh /\ since' = since /\ got' = got /\ key' = key /\ fresh \in Nat
        /\ On' = On /\ (Left \ On)' = Left \ On
    BY DEF Seal, Left, On, IInv, KeyTyped
  <1>2. \A u \in Tasks \ {t} : task'[u] = task[u] BY DEF Seal
  <1>3. CASE CanSend(p)
    <2>1. /\ task'[t].to = p /\ p \in On'
          /\ task'[t].parcel = [id |-> key.id, chain |-> key.chain, counter |-> key.counter]
      BY <1>1, <1>3 DEF Seal, Task
    <2>2. key.id <= fresh /\ key.chain.gen <= fresh
      BY DEF IInv, KeyTyped, NoKey, NoChain
    <2>3. Past(task'[t].parcel, fresh') BY <1>1, <2>1, <2>2 DEF Past
    <2>4. \A u \in Tasks : Past(task[u].parcel, fresh)'
      BY <1>1, <1>2, <2>3 DEF KeysPast
    <2>5. \A u \in Tasks : SealedBefore(u)
      BY <1>1, <1>2, <2>1 DEF SealedBefore, Sealing
    <2> QED BY <1>1, <2>4, <2>5, KeysKept
  <1>4. CASE ~CanSend(p)
    <2>1. task'[t].parcel = task[t].parcel /\ task'[t].pc = "spread"
      BY <1>4 DEF Seal, Task
    <2> QED BY <1>1, <1>2, <2>1, KeysKeptTask DEF Sealing
  <1> QED BY <1>3, <1>4

LEMMA RatchetKeys ==
    ASSUME IInv, KeysPast, IInv', NEW t \in Tasks, Ratchet(t)
    PROVE  KeysPast'
  <1> task \in [Tasks -> Task] BY DEF IInv, Locals
  <1>1. task[t].to \in Peers BY DEF Ratchet, IInv, Locals
  <1>2. \A p \in Peers : session'[p].on = session[p].on BY <1>1, RatchetedTyped DEF Ratchet
  <1>3. (Left \ On)' = Left \ On BY <1>2 DEF Ratchet, Left, On
  <1>4. /\ task'[t].parcel \in {task[t].parcel, NoParcel} /\ task'[t].to = task[t].to
        /\ Sealing(t) /\ \A u \in Tasks \ {t} : task'[u] = task[u]
    BY DEF Ratchet, Task, Sealing
  <1>5. fresh' >= fresh /\ since' = since /\ got' = got BY DEF Ratchet, IInv, KeyTyped
  <1> QED BY <1>3, <1>4, <1>5, KeysKeptTask

LEMMA SpreadDoneKeys ==
    ASSUME IInv, KeysPast, IInv', NEW t \in Tasks, SpreadDone(t)
    PROVE  KeysPast'
  <1> task \in [Tasks -> Task] BY DEF IInv, Locals
  <1>1. (Left \ On)' = Left \ On BY DEF SpreadDone, Left, On
  <1>2. /\ task'[t].parcel \in {task[t].parcel, NoParcel}
        /\ task'[t].pc \in {"idle", "check", "start"}
        /\ \A u \in Tasks \ {t} : task'[u] = task[u]
    <2>1. CASE task[t].then = "idle" BY <2>1, Blanks DEF SpreadDone
    <2>2. CASE task[t].then # "idle" BY <2>2 DEF SpreadDone, Task
    <2> QED BY <2>1, <2>2
  <1>3. fresh' >= fresh /\ since' = since /\ got' = got BY DEF SpreadDone, IInv, KeyTyped
  <1> QED BY <1>1, <1>2, <1>3, KeysKeptTask DEF Sealing

LEMMA DistributeKeys ==
    ASSUME IInv, KeysPast, IInv', NEW t \in Tasks, Distribute(t)
    PROVE  KeysPast'
  <1> DEFINE q == task[t].to
             k == task[t].parcel
  <1> task \in [Tasks -> Task] BY DEF IInv, Locals
  <1>1. /\ fresh' = fresh /\ since' = since /\ On' = On /\ Left' = Left
    BY DEF Distribute, On, Left
  <1>2. /\ task'[t].parcel = NoParcel /\ ~Sealing(t)' /\ Sealing(t)
        /\ \A u \in Tasks \ {t} : task'[u] = task[u]
    BY DEF Distribute, Task, Sealing
  <1>3. /\ \A p \in Peers \ {q} : got'[p] = got[p]
        /\ q \in Peers /\ \A x \in got'[q] : x \in got[q] \/ x = k
    <2>1. q \in Peers BY DEF Distribute, IInv, Locals
    <2> QED BY <2>1 DEF Distribute, IInv
  <1>4. \A p \in Peers : since'[p] <= fresh' /\ \A x \in got'[p] : Past(x, fresh')
    BY <1>1, <1>3 DEF KeysPast
  <1>5. \A u \in Tasks : Past(task'[u].parcel, fresh')
    <2>1. Past(NoParcel, fresh) BY Blanks DEF Past, IInv, KeyTyped
    <2> QED BY <1>1, <1>2, <2>1 DEF KeysPast
  <1>6. \A u \in Tasks : Sealing(u)' /\ task'[u].to \in (Left \ On)'
                           => Past(task'[u].parcel, since'[task'[u].to])
    BY <1>1, <1>2 DEF KeysPast, Sealing
  <1>7. KeysOnlyToMembers'
    <2>1. q \in Left \ On => Past(k, since[q]) BY <1>2 DEF KeysPast
    <2>2. ASSUME NEW p \in Left \ On, NEW x \in got'[p] PROVE Past(x, since[p])
      <3>1. p \in Peers BY DEF Left
      <3> QED BY <1>3, <2>1, <2>2, <3>1 DEF KeysPast, KeysOnlyToMembers, Past
    <2> QED BY <1>1, <2>2 DEF KeysOnlyToMembers, Past
  <1> QED BY <1>4, <1>5, <1>6, <1>7 DEF KeysPast

LEMMA PeerKeys ==
    ASSUME IInv, KeysPast, IInv', NEW p \in Peers,
           Meet(p) \/ Met(p) \/ Turn(p)
    PROVE  KeysPast'
  <1>1. fresh' = fresh /\ since' = since /\ got' = got /\ task' = task /\ fresh \in Nat
    BY DEF Meet, Met, Turn, IInv, KeyTyped
  <1>2. (Left \ On)' \subseteq Left \ On
    <2>1. \A q \in Peers : peer'[q] = "left" => peer[q] = "left"
      BY DEF Meet, Met, Turn, IInv, PeersKnown
    <2>2. \A q \in Peers : session[q].on => session'[q].on
      BY DEF Meet, Met, Turn, IInv
    <2> QED BY <2>1, <2>2 DEF Left, On
  <1>3. On \subseteq On'
    BY DEF Meet, Met, Turn, IInv, On
  <1>4. \A t \in Tasks : Past(task[t].parcel, fresh)' /\ SealedBefore(t)
    BY <1>1 DEF KeysPast, SealedBefore, Sealing
  <1> QED BY <1>1, <1>2, <1>4, KeysKept

LEMMA PeerLeftKeys ==
    ASSUME IInv, KeysPast, IInv', NEW p \in Peers, PeerLeft(p)
    PROVE  KeysPast'
  <1> task \in [Tasks -> Task] /\ p \in Tasks BY DEF IInv, Locals, Tasks
  <1>1. /\ fresh \in Nat /\ fresh' \in {fresh, fresh + 1} /\ got' = got
        /\ since'[p] = fresh /\ \A q \in Peers \ {p} : since'[q] = since[q]
    BY DEF PeerLeft, Draw, IInv, KeyTyped, PeersKnown
  <1>2. \A q \in (Left \ On)' \ {p} : q \in Left \ On
    BY DEF PeerLeft, Left, On, IInv, PeersKnown
  <1>3. \A t \in Tasks \ {p} : task'[t] = task[t] BY DEF PeerLeft
  <1>4. task'[p] = task[p] \/ (task'[p].parcel = NoParcel /\ ~Sealing(p)')
    BY Blanks DEF PeerLeft, Idle, Sealing
  <1>5. \A q \in Peers : since'[q] <= fresh' /\ \A k \in got'[q] : Past(k, fresh')
    <2> TAKE q \in Peers
    <2>1. since[q] <= fresh /\ since[q] \in Nat /\ \A k \in got[q] : Past(k, fresh)
      BY PastNumbers DEF KeysPast
    <2>2. \A k \in got[q] : Past(k, fresh') BY <1>1, <2>1, PastNumbers DEF Past
    <2> QED BY <1>1, <2>1, <2>2
  <1>6. \A t \in Tasks : Past(task'[t].parcel, fresh')
    <2> TAKE t \in Tasks
    <2>1. Past(task[t].parcel, fresh) BY DEF KeysPast
    <2>2. Past(task[t].parcel, fresh') BY <1>1, <2>1, PastNumbers DEF Past
    <2>3. Past(NoParcel, fresh') BY <1>1, Blanks DEF Past
    <2> QED BY <1>3, <1>4, <2>2, <2>3
  <1>7. ASSUME NEW t \in Tasks, Sealing(t)', task'[t].to \in (Left \ On)'
        PROVE  Past(task'[t].parcel, since'[task'[t].to])
    <2>1. task'[t] = task[t] /\ Sealing(t) BY <1>3, <1>4, <1>7 DEF Sealing
    <2>2. task[t].to \in Peers BY <1>7, <2>1 DEF Left
    <2>3. CASE task[t].to = p BY <1>1, <2>1, <2>3 DEF KeysPast
    <2>4. CASE task[t].to # p
      <3>1. task[t].to \in Left \ On BY <1>2, <1>7, <2>1, <2>4
      <3> QED BY <1>1, <2>1, <2>2, <2>4, <3>1 DEF KeysPast
    <2> QED BY <2>3, <2>4
  <1>8. KeysOnlyToMembers'
    <2>1. ASSUME NEW q \in (Left \ On)', NEW k \in got[q] PROVE Past(k, since'[q])
      <3>1. q \in Peers BY DEF Left
      <3>2. CASE q = p BY <1>1, <3>2 DEF KeysPast
      <3>3. CASE q # p
        <4>1. q \in Left \ On BY <1>2, <3>3
        <4> QED BY <1>1, <3>1, <3>3, <4>1 DEF KeysPast, KeysOnlyToMembers, Past
      <3> QED BY <3>2, <3>3
    <2> QED BY <1>1, <2>1 DEF KeysOnlyToMembers, Past
  <1> QED BY <1>5, <1>6, <1>7, <1>8 DEF KeysPast

\* KeysPast holds through every step of every task.
LEMMA KeysPastHolds == Spec => []KeysPast
  <1>1. Init => KeysPast
    <2> SUFFICES ASSUME Init PROVE KeysPast OBVIOUS
    <2>1. \A t \in Tasks : task[t] = Idle BY DEF Init
    <2>2. \A t \in Tasks : ~Sealing(t) /\ Past(task[t].parcel, fresh)
      BY <2>1, Blanks DEF Sealing, Past, Init
    <2> QED BY <2>2 DEF KeysPast, KeysOnlyToMembers, Init, Left
  <1>2. IInv /\ IInv' /\ KeysPast /\ [Next]_vars => KeysPast'
    <2> SUFFICES ASSUME IInv, IInv', KeysPast, [Next]_vars PROVE KeysPast' OBVIOUS
    <2>1. CASE UNCHANGED vars
      BY <2>1 DEF vars, KeysPast, KeysOnlyToMembers, Past, Sealing, Left, On
    <2>2. CASE \E c \in Calls : EncryptStep(c) BY <2>2, CallKeys
    <2>3. CASE \E t \in Tasks : SpreadStep(t)
      BY <2>3, SealKeys, RatchetKeys, DistributeKeys, SpreadDoneKeys DEF SpreadStep
    <2>4. CASE \E p \in Peers : PeerStep(p) BY <2>4, PeerKeys, PeerLeftKeys DEF PeerStep
    <2> QED BY <2>1, <2>2, <2>3, <2>4 DEF Next
  <1> QED BY <1>1, <1>2, IInvHolds, PTL DEF Spec

\* No key made after a departure was handled reaches the peer that left, however
\* its distributions, messages in progress and other rekeys interleave.
THEOREM KeysOnlyToMembersHolds == Spec => []KeysOnlyToMembers
  <1>1. KeysPast => KeysOnlyToMembers BY DEF KeysPast
  <1> QED BY <1>1, KeysPastHolds, PTL

-----------------------------------------------------------------------------
(* Who left opens nothing *)

\* The key in use was made after every departure.
Younger == key # NoKey => \A p \in Left : since[p] < key.id

\* Who had left when task t began has left now, and what goes to one peer goes
\* to one with a session.
Excluded(t) ==
    /\ task[t].gone \subseteq Left
    /\ task[t].pc = "single" => task[t].to \notin task[t].gone \ On

Closed ==
    /\ Younger
    /\ \A t \in Tasks : Excluded(t)
    /\ sent.barred \cap sent.readers = {}

\* A task goes on with what it began with, ends, or begins.
Continues(t) ==
    \/ /\ task'[t].gone = task[t].gone
       /\ task'[t].pc = "single" => task[t].pc = "single" /\ task'[t].to = task[t].to
    \/ task'[t].gone = {}
    \/ task'[t].gone = Left /\ (task'[t].pc = "single" => task'[t].to \in On')

\* Nobody comes back, and a session stored after a departure stays.
LEMMA ExcludedStay ==
    ASSUME Closed, Left \subseteq Left', Left \cap On \subseteq On',
           \A t \in Tasks : Continues(t)
    PROVE  \A t \in Tasks : Excluded(t)'
  <1> TAKE t \in Tasks
  <1>1. Excluded(t) /\ Continues(t) BY DEF Closed
  <1> QED BY <1>1 DEF Excluded, Continues

\* A key that is drawn is younger than every departure handled.
LEMMA DrawnYounger ==
    ASSUME IInv, KeysPast, NEW A \in SUBSET Peers, Draw(A)
    PROVE  \A p \in Peers : since[p] < key'.id /\ fresh < key'.id
  <1>1. key'.id = fresh + 1 /\ fresh \in Nat BY DEF Draw, IInv, KeyTyped
  <1>2. \A p \in Peers : since[p] <= fresh /\ since[p] \in Nat BY PastNumbers DEF KeysPast
  <1> QED BY <1>1, <1>2

\* Whoever left, and has no session stored since, opens nothing of the key in use.
LEMMA LeftOpensNothing ==
    ASSUME IInv, KeysPast, Younger, key # NoKey, NEW p \in Left \ On, NEW m, m.id = key.id
    PROVE  ~Opens(p, m)
  <1>1. p \in Peers BY DEF Left
  <1>2. \A k \in got[p] : k.id <= since[p] /\ k.id \in Nat
    BY <1>1, PastNumbers DEF KeysPast, KeysOnlyToMembers
  <1>3. since[p] < key.id /\ since[p] \in Nat /\ key.id \in Nat
    BY <1>1 DEF Younger, IInv, PeersKnown, KeyTyped, KeyState
  <1>4. \A k \in got[p] : k.id # key.id BY <1>2, <1>3
  <1> QED BY <1>4 DEF Opens

\* The steps of encryptE2EE, of a distribution and of the peers keep it so.
LEMMA CallClosed ==
    ASSUME IInv, KeysPast, Closed, NEW c \in Calls, EncryptStep(c)
    PROVE  Closed'
  <1> c \in Tasks /\ task \in [Tasks -> Task] BY DEF Tasks, IInv, Locals
  <1>1. Left' = Left /\ since' = since /\ \A u \in Tasks \ {c} : task'[u] = task[u]
    BY DEF EncryptStep, EncryptForGroup, CheckLimits, TakeKey, TakeChain, Commit, SendToOne,
       EncryptForOne, Left
  <1>2. On' = On
    <2>1. ASSUME SendToOne(c) PROVE On' = On
      <3>1. task[c].to \in Peers BY <2>1 DEF SendToOne, IInv, Locals
      <3> QED BY <2>1, <3>1, RatchetedTyped DEF SendToOne, On
    <2>2. ASSUME ~SendToOne(c) PROVE session' = session
      BY <2>2 DEF EncryptStep, EncryptForGroup, CheckLimits, TakeKey, TakeChain, Commit, EncryptForOne
    <2> QED BY <2>1, <2>2 DEF On
  <1>3. ASSUME Younger', Continues(c), (sent.barred \cap sent.readers = {})'
        PROVE  Closed'
    <2>1. \A t \in Tasks : Continues(t) BY <1>1, <1>3 DEF Continues
    <2>2. \A t \in Tasks : Excluded(t)' BY <1>1, <1>2, <2>1, ExcludedStay
    <2> QED BY <1>3, <2>2 DEF Closed
  <1>4. ASSUME key' = key PROVE Younger' BY <1>1, <1>4 DEF Closed, Younger, Left
  <1>5. ASSUME NEW A \in SUBSET Peers, Draw(A) PROVE Younger'
    BY <1>1, <1>5, DrawnYounger DEF Younger, Left
  <1>6. CASE EncryptForGroup(c)
    <2>1. Younger' BY <1>4, <1>5, <1>6 DEF EncryptForGroup
    <2>2. \/ task' = [task EXCEPT ![c] = [Idle EXCEPT !.pc = "spread", !.then = "check", !.gone = Left]]
          \/ task' = [task EXCEPT ![c] = [Idle EXCEPT !.pc = "check", !.gone = Left]]
      BY <1>6 DEF EncryptForGroup
    <2>3. Continues(c) BY <2>2 DEF Continues, Idle
    <2> QED BY <1>3, <1>6, <2>1, <2>3 DEF EncryptForGroup, Closed
  <1>7. ASSUME NEW p \in Peers, EncryptForOne(c, p) PROVE Closed'
    <2>1. /\ task'[c].pc = "single" /\ task'[c].to = p /\ task'[c].gone = Left /\ p \in On
      BY <1>7 DEF EncryptForOne, Idle
    <2> QED BY <1>2, <1>3, <1>4, <1>7, <2>1 DEF EncryptForOne, Closed, Continues
  <1>8. CASE CheckLimits(c)
    <2>1. Younger' BY <1>4, <1>5, <1>8 DEF CheckLimits
    <2>2. task'[c].gone = task[c].gone /\ task'[c].pc \in {"start", "spread"}
      BY <1>8 DEF CheckLimits, Task
    <2> QED BY <1>3, <1>8, <2>1, <2>2 DEF CheckLimits, Closed, Continues
  <1>9. CASE TakeKey(c) \/ TakeChain(c)
    <2>1. task'[c].gone = task[c].gone /\ task'[c].pc \in {"encrypting", "advancing"}
      BY <1>9 DEF TakeKey, TakeChain, Task
    <2>2. key' = key /\ sent' = sent BY <1>9 DEF TakeKey, TakeChain
    <2> QED BY <1>3, <1>4, <2>1, <2>2 DEF Closed, Continues
  <1>10. CASE Commit(c)
    <2> DEFINE m == [id |-> key.id, counter |-> task[c].counter, chain |-> task[c].sealed]
    <2>1. task[c].pc = "advancing" /\ key # NoKey /\ task[c].gone \subseteq Left
      BY <1>10 DEF Commit, IInv, Locals, Closed, Excluded
    <2>2. key \in KeyState /\ key'.id = key.id BY <1>10 DEF IInv, KeyTyped, Commit, KeyState
    <2>3. Younger' BY <1>1, <2>1, <2>2 DEF Closed, Younger, Left
    <2>4. sent'.readers = {p \in Peers : Opens(p, m)} /\ sent'.barred = task[c].gone \ On
      BY <1>10 DEF Commit
    <2>5. m.id = key.id OBVIOUS
    <2> HIDE DEF m
    <2>6. \A p \in task[c].gone \ On : ~Opens(p, m)
      BY <2>1, <2>5, LeftOpensNothing DEF Closed
    <2>7. task'[c].gone = {} BY <1>10 DEF Commit, Idle
    <2> QED BY <1>3, <2>3, <2>4, <2>6, <2>7 DEF Continues
  <1>11. CASE SendToOne(c)
    <2>1. key' = key /\ task'[c].gone = {} BY <1>11 DEF SendToOne, Idle
    <2>2. task[c].to \notin task[c].gone \ On BY <1>11 DEF SendToOne, Closed, Excluded
    <2>3. sent'.readers \subseteq {task[c].to} /\ sent'.barred = task[c].gone \ On
      BY <1>11 DEF SendToOne
    <2> QED BY <1>3, <1>4, <2>1, <2>2, <2>3 DEF Continues
  <1> QED BY <1>6, <1>7, <1>8, <1>9, <1>10, <1>11 DEF EncryptStep

LEMMA SpreadClosed ==
    ASSUME IInv, Closed, NEW t \in Tasks, SpreadStep(t)
    PROVE  Closed'
  <1> task \in [Tasks -> Task] BY DEF IInv, Locals
  <1>1. /\ Left' = Left /\ UNCHANGED <<since, key, sent>>
        /\ \A u \in Tasks \ {t} : task'[u] = task[u]
    BY DEF SpreadStep, Ratchet, Distribute, SpreadDone, Seal, Left
  <1>2. On' = On
    <2>1. ASSUME Ratchet(t) PROVE On' = On
      <3>1. task[t].to \in Peers BY <2>1 DEF Ratchet, IInv, Locals
      <3> QED BY <2>1, <3>1, RatchetedTyped DEF Ratchet, On
    <2>2. ASSUME ~Ratchet(t) PROVE session' = session
      BY <2>2 DEF SpreadStep, Distribute, SpreadDone, Seal
    <2> QED BY <2>1, <2>2 DEF On
  <1>3. Continues(t)
    <2>1. CASE Ratchet(t)
      <3>1. task'[t].gone = task[t].gone /\ task'[t].pc = "sealing" BY <2>1 DEF Ratchet, Task
      <3> QED BY <3>1 DEF Continues
    <2>2. CASE Distribute(t)
      <3>1. task'[t].gone = task[t].gone /\ task'[t].pc = "spread" BY <2>2 DEF Distribute, Task
      <3> QED BY <3>1 DEF Continues
    <2>3. CASE SpreadDone(t)
      <3>1. CASE task[t].then = "idle" BY <2>3, <3>1 DEF SpreadDone, Idle, Continues
      <3>2. CASE task[t].then # "idle"
        <4>1. task'[t].gone = task[t].gone /\ task'[t].pc \in {"check", "start"}
          BY <2>3, <3>2 DEF SpreadDone, Task
        <4> QED BY <4>1 DEF Continues
      <3> QED BY <3>1, <3>2
    <2>4. ASSUME NEW p \in Peers, Seal(t, p) PROVE Continues(t)
      <3>1. task'[t].gone = task[t].gone /\ task'[t].pc \in {"deriving", "spread"}
        BY <2>4 DEF Seal, Task
      <3> QED BY <3>1 DEF Continues
    <2> QED BY <2>1, <2>2, <2>3, <2>4 DEF SpreadStep
  <1>4. \A u \in Tasks : Continues(u) BY <1>1, <1>3 DEF Continues
  <1>5. \A u \in Tasks : Excluded(u)' BY <1>1, <1>2, <1>4, ExcludedStay
  <1>6. Younger' BY <1>1 DEF Closed, Younger, Left
  <1> QED BY <1>1, <1>5, <1>6 DEF Closed

LEMMA PeerClosed ==
    ASSUME IInv, KeysPast, Closed, NEW p \in Peers, PeerStep(p)
    PROVE  Closed'
  <1> task \in [Tasks -> Task] /\ p \in Tasks BY DEF IInv, Locals, Tasks
  <1>1. sent' = sent BY DEF PeerStep, Meet, Met, Turn, PeerLeft
  <1>2. CASE Meet(p) \/ Met(p) \/ Turn(p)
    <2>1. UNCHANGED <<key, since, task>> BY <1>2 DEF Meet, Met, Turn
    <2>2. Left' = Left BY <1>2 DEF Meet, Met, Turn, Left, IInv, PeersKnown
    <2>3. Left \cap On \subseteq On' BY <1>2 DEF Meet, Met, Turn, On, IInv
    <2>4. \A t \in Tasks : Excluded(t)' BY <2>1, <2>2, <2>3, ExcludedStay DEF Continues
    <2> QED BY <1>1, <2>1, <2>2, <2>4 DEF Closed, Younger
  <1>3. CASE PeerLeft(p)
    <2>1. /\ peer[p] = "here" /\ \A q \in Peers : peer'[q] = IF q = p THEN "left" ELSE peer[q]
          /\ \A q \in Peers : since'[q] = IF q = p THEN fresh ELSE since[q]
          /\ \A q \in Peers \ {p} : session'[q].on = session[q].on
      BY <1>3 DEF PeerLeft, IInv, PeersKnown
    <2>2. Left' = Left \cup {p} /\ p \notin Left BY <2>1 DEF Left
    <2>3. Left \cap On \subseteq On' BY <2>1, <2>2 DEF On
    <2>4. \A t \in Tasks : Continues(t)
      <3>1. task'[p] = task[p] \/ (task'[p].gone = {}) BY <1>3 DEF PeerLeft, Idle
      <3>2. \A t \in Tasks \ {p} : task'[t] = task[t] BY <1>3 DEF PeerLeft
      <3> QED BY <3>1, <3>2 DEF Continues
    <2>5. \A t \in Tasks : Excluded(t)' BY <2>2, <2>3, <2>4, ExcludedStay
    <2>6. Younger'
      <3>1. CASE key = NoKey BY <1>3, <3>1 DEF PeerLeft, Younger
      <3>2. CASE key # NoKey
        <4> DEFINE A == {q \in Peers \ {p} : CanSend(q)}
        <4>1. A \in SUBSET Peers /\ Draw(A) BY <1>3, <3>2 DEF PeerLeft
        <4>2. \A q \in Peers : since[q] < key'.id /\ fresh < key'.id BY <4>1, DrawnYounger
        <4> QED BY <2>1, <4>2 DEF Younger, Left
      <3> QED BY <3>1, <3>2
    <2> QED BY <1>1, <2>5, <2>6 DEF Closed
  <1> QED BY <1>2, <1>3 DEF PeerStep

\* The key in use is younger than every departure, whatever overlaps.
LEMMA ClosedHolds == Spec => []Closed
  <1>1. Init => Closed
    <2> SUFFICES ASSUME Init PROVE Closed OBVIOUS
    <2>1. \A t \in Tasks : task[t].gone = {} BY DEF Init, Idle
    <2> QED BY <2>1 DEF Closed, Younger, Excluded, Init
  <1>2. IInv /\ KeysPast /\ Closed /\ [Next]_vars => Closed'
    <2> SUFFICES ASSUME IInv, KeysPast, Closed, [Next]_vars PROVE Closed' OBVIOUS
    <2>1. CASE UNCHANGED vars BY <2>1 DEF vars, Closed, Younger, Excluded, Left, On
    <2> QED BY <2>1, CallClosed, SpreadClosed, PeerClosed DEF Next
  <1> QED BY <1>1, <1>2, IInvHolds, KeysPastHolds, PTL DEF Spec

-----------------------------------------------------------------------------
(* Messages open for the group *)

\* A chain is as far from its random key as its counter says.
Level(k) == k.chain = [gen |-> k.id, pos |-> k.counter]

Levels ==
    /\ key # NoKey => Level(key)
    /\ \A p \in Peers : \A k \in got[p] : Level(k)

\* Once the two ends may be of different agreements nothing is said of a session;
\* else the sending chain is at the turn and the number that the session counts,
\* and a peer that is being met, or not met yet, has none.  Who left is forgotten.
Sessions ==
    /\ \A p \in Peers \ repeated :
         /\ session[p].chain = <<session[p].turn, session[p].n>>
         /\ meeting[p] <= 1
         /\ meeting[p] > 0 \/ peer[p] = "away" => ~session[p].on /\ session[p].turn = 0
         /\ p \in key.audience => session[p].turn > 0
    /\ \A p \in Peers : (meeting[p] > 0 => peer[p] = "here") /\ (peer[p] = "away" => meeting[p] = 0)
    /\ On \cap Left = {}

\* Whom the key in use was made for and who can open what the session seals.
Reachable == (key.audience \cap On) \ repeated

\* Whom task t still has to hand the key in use to.
Spreads(t) == task[t].pc \in {"spread", "deriving", "sealing"}
Unserved(t) == Peers \ (task[t].visited \ {task[t].to})

Keyed(p) == \E k \in got[p] : k.id = key.id /\ k.counter <= key.counter

\* All whom the key was made for have it, or are about to be given it.
Reached ==
    \A p \in Reachable :
        Keyed(p) \/ \E t \in Tasks : Spreads(t) /\ p \in Unserved(t)

\* What a task read before an await is still so after it.
Position(t) ==
    LET x == task[t] IN
    /\ x.pc = "check" => x.visited = {}
    /\ x.pc \in {"deriving", "single"} =>
          x.to \in On /\ (x.to \in repeated \/ x.ratchet = session[x.to].chain)
    /\ x.pc \in {"deriving", "sealing"} =>
          \/ x.parcel = [id |-> key.id, chain |-> key.chain, counter |-> key.counter]
          \/ x.pc = "sealing" /\ x.to \in repeated /\ x.parcel = NoParcel
    /\ x.pc \in {"encrypting", "advancing"} => x.counter = key.counter /\ x.sealed = key.chain
    /\ x.pc = "advancing" => x.chain = key.chain

Positions ==
    /\ \A t, u \in Active : t = u
    /\ \A t \in Active : Position(t)

Calm == Levels /\ Sessions /\ Reached /\ Positions

Undisturbed == ~overlapped => Calm

\* While one task runs, its position is all there is to look at.
LEMMA AloneIs ==
    ASSUME Positions, NEW t \in Tasks, task[t].pc # "idle"
    PROVE  Active = {t} /\ Position(t)
  BY DEF Positions, Active

LEMMA OneMoves ==
    ASSUME NEW t \in Tasks, Active \subseteq {t}, \A u \in Tasks \ {t} : task'[u] = task[u],
           task'[t].pc # "idle" => Position(t)'
    PROVE  Positions'
  BY DEF Positions, Active

\* A new key is level.
LEMMA DrawnCalm ==
    ASSUME IInv, NEW A \in SUBSET Peers, Draw(A)
    PROVE  key' # NoKey /\ Level(key') /\ key'.audience = A
  <1>1. key' = [id |-> fresh + 1, chain |-> [gen |-> fresh + 1, pos |-> 0], counter |-> 0,
                audience |-> A] /\ fresh \in Nat
    BY DEF Draw, IInv, KeyTyped
  <1>2. key' # NoKey BY <1>1 DEF NoKey
  <1> QED BY <1>1, <1>2 DEF Level

\* Each step of encryptE2EE, of a distribution and of the peers that overlaps
\* with nothing keeps the calm.
LEMMA EncryptForGroupCalm ==
    ASSUME IInv, Calm, NEW c \in Calls, EncryptForGroup(c), ~overlapped'
    PROVE  Calm'
  <1> c \in Tasks BY DEF Tasks
  <1> task \in [Tasks -> Task] BY DEF IInv, Locals
  <1>1. Active = {} BY DEF EncryptForGroup, Overlap
  <1>2. /\ UNCHANGED <<session, meeting, repeated, peer, got, since>> /\ On' = On /\ Left' = Left
    BY DEF EncryptForGroup, On, Left
  <1>3. /\ task'[c].pc \in {"spread", "check"} /\ task'[c].visited = {} /\ task'[c].to = None
        /\ \A u \in Tasks \ {c} : task'[u] = task[u]
    <2>1. \/ task' = [task EXCEPT ![c] = [Idle EXCEPT !.pc = "spread", !.then = "check", !.gone = Left]]
          \/ task' = [task EXCEPT ![c] = [Idle EXCEPT !.pc = "check", !.gone = Left]]
      BY DEF EncryptForGroup
    <2> QED BY <2>1 DEF Idle
  <1>4. Positions' BY <1>1, <1>2, <1>3, OneMoves DEF Position
  <1>5. CASE key = NoKey
    <2> DEFINE A == {p \in Peers : CanSend(p)}
    <2>1. Draw(A) /\ task'[c].pc = "spread" BY <1>5 DEF EncryptForGroup, Idle
    <2>2. key' # NoKey /\ Level(key') /\ key'.audience = A
      BY <2>1, DrawnCalm
    <2>3. Levels' BY <1>2, <2>2 DEF Calm, Levels
    <2>4. Sessions'
      <3>1. \A p \in A : session[p].turn > 0 BY DEF CanSend
      <3> QED BY <1>2, <2>2, <3>1 DEF Calm, Sessions
    <2>6. \A p \in Peers : p \in Unserved(c)' /\ Spreads(c)'
      BY <1>3, <2>1 DEF Unserved, Spreads
    <2>7. Reached' BY <2>2, <2>6 DEF Reached, Reachable
    <2> QED BY <1>4, <2>3, <2>4, <2>7 DEF Calm
  <1>6. CASE key # NoKey
    <2>1. UNCHANGED key BY <1>6 DEF EncryptForGroup
    <2>2. \A p \in Reachable : Keyed(p)
      BY <1>1 DEF Calm, Reached, Active, Spreads
    <2>3. Reached' BY <1>2, <2>1, <2>2 DEF Reached, Reachable, Keyed
    <2>4. Levels' /\ Sessions'
      BY <1>2, <2>1 DEF Calm, Levels, Sessions
    <2> QED BY <1>4, <2>3, <2>4 DEF Calm
  <1> QED BY <1>5, <1>6

LEMMA EncryptForOneCalm ==
    ASSUME IInv, Calm, NEW c \in Calls, NEW p \in Peers, EncryptForOne(c, p), ~overlapped'
    PROVE  Calm'
  <1> c \in Tasks BY DEF Tasks
  <1> task \in [Tasks -> Task] BY DEF IInv, Locals
  <1>1. Active = {} BY DEF EncryptForOne, Overlap
  <1>2. /\ UNCHANGED <<key, session, meeting, repeated, peer, got, since>> /\ On' = On /\ Left' = Left
    BY DEF EncryptForOne, On, Left
  <1>3. /\ task'[c].pc = "single" /\ task'[c].to = p /\ task'[c].ratchet = session[p].chain
        /\ \A u \in Tasks \ {c} : task'[u] = task[u]
    BY DEF EncryptForOne, Idle
  <1>4. p \in On BY DEF EncryptForOne
  <1>5. Positions' BY <1>1, <1>2, <1>3, <1>4, OneMoves DEF Position
  <1>6. \A q \in Reachable : Keyed(q)
    BY <1>1 DEF Calm, Reached, Active, Spreads
  <1>7. Reached' BY <1>2, <1>6 DEF Reached, Reachable, Keyed
  <1>8. Levels' /\ Sessions'
    BY <1>2 DEF Calm, Levels, Sessions
  <1> QED BY <1>5, <1>7, <1>8 DEF Calm

\* Only a task and perhaps the key changes: what is said of sessions stays.
LEMMA SameSessions ==
    ASSUME Calm, UNCHANGED <<session, meeting, repeated, peer, got, since>>,
           key' = key
    PROVE  /\ Levels' /\ Sessions' /\ On' = On /\ Left' = Left
           /\ \A p \in Peers : Keyed(p)' = Keyed(p)
  BY DEF Calm, Levels, Sessions, On, Left, Keyed

LEMMA CheckLimitsCalm ==
    ASSUME IInv, Calm, NEW c \in Calls, CheckLimits(c)
    PROVE  Calm'
  <1> c \in Tasks BY DEF Tasks
  <1> task \in [Tasks -> Task] BY DEF IInv, Locals
  <1>1. Active = {c} /\ Position(c) /\ task[c].pc = "check" /\ task[c].to = None
    BY AloneIs DEF CheckLimits, Calm, IInv, Locals
  <1>2. UNCHANGED <<session, meeting, repeated, peer, got, since>> /\ On' = On /\ Left' = Left
    BY DEF CheckLimits, On, Left
  <1>3. /\ task'[c].pc \in {"start", "spread"} /\ task'[c].visited = {} /\ task'[c].to = None
        /\ \A u \in Tasks \ {c} : task'[u] = task[u]
    BY <1>1 DEF CheckLimits, Position, Task
  <1>4. Positions' BY <1>1, <1>2, <1>3, OneMoves DEF Position
  <1>5. CASE key' = key /\ task'[c].pc = "start"
    <2>1. \A p \in Reachable : Keyed(p)
      BY <1>1 DEF Calm, Reached, Active, Spreads
    <2>2. Levels' /\ Sessions' /\ \A p \in Peers : Keyed(p)' = Keyed(p)
      BY <1>2, <1>5, SameSessions
    <2>3. Reached' BY <1>2, <1>5, <2>1, <2>2 DEF Reached, Reachable, On
    <2> QED BY <1>4, <2>2, <2>3 DEF Calm
  <1>6. CASE Draw({p \in Peers : CanSend(p)}) /\ task'[c].pc = "spread"
    <2> DEFINE A == {p \in Peers : CanSend(p)}
    <2>2. key' # NoKey /\ Level(key') /\ key'.audience = A
      BY <1>6, DrawnCalm
    <2>3. Levels' BY <1>2, <2>2 DEF Calm, Levels
    <2>4. Sessions'
      <3>1. \A p \in A : session[p].turn > 0 BY DEF CanSend
      <3> QED BY <1>2, <2>2, <3>1 DEF Calm, Sessions
    <2>6. \A p \in Peers : p \in Unserved(c)' /\ Spreads(c)'
      BY <1>3, <1>6 DEF Unserved, Spreads
    <2>7. Reached' BY <2>2, <2>6 DEF Reached, Reachable
    <2> QED BY <1>4, <2>3, <2>4, <2>7 DEF Calm
  <1>7. (key' = key /\ task'[c].pc = "start") \/ (Draw({p \in Peers : CanSend(p)}) /\ task'[c].pc = "spread")
    BY DEF CheckLimits, Task
  <1> QED BY <1>5, <1>6, <1>7

LEMMA TakeCalm ==
    ASSUME IInv, Calm, NEW c \in Calls, TakeKey(c) \/ TakeChain(c)
    PROVE  Calm'
  <1> c \in Tasks BY DEF Tasks
  <1> task \in [Tasks -> Task] BY DEF IInv, Locals
  <1>1. Active = {c} /\ Position(c) /\ task[c].pc \in {"start", "encrypting"}
    BY AloneIs DEF TakeKey, TakeChain, Calm
  <1>2. UNCHANGED <<session, meeting, repeated, peer, got, since>> /\ key' = key
    BY DEF TakeKey, TakeChain
  <1>3. /\ task'[c].pc \in {"encrypting", "advancing"}
        /\ task'[c].counter = key.counter /\ task'[c].sealed = key.chain
        /\ task'[c].pc = "advancing" => task'[c].chain = key.chain
        /\ \A u \in Tasks \ {c} : task'[u] = task[u]
    BY <1>1 DEF TakeKey, TakeChain, Position, Task
  <1>4. Levels' /\ Sessions' /\ On' = On /\ Left' = Left
        /\ \A p \in Peers : Keyed(p)' = Keyed(p)
    BY <1>2, SameSessions
  <1>5. Positions' BY <1>1, <1>2, <1>3, <1>4, OneMoves DEF Position
  <1>6. \A p \in Reachable : Keyed(p)
    BY <1>1 DEF Calm, Reached, Active, Spreads
  <1> QED BY <1>2, <1>4, <1>5, <1>6 DEF Calm, Reached, Reachable, On

\* While the key is handed to nobody any more, whom it was made for can open
\* what it encrypts.
LEMMA KeyOpens ==
    ASSUME IInv, Calm, key # NoKey, \A t \in Tasks : ~Spreads(t)
    PROVE  \A p \in Reachable : Opens(p, key)
  <1>1. key.id \in Nat /\ key.counter \in Nat BY DEF IInv, KeyTyped, KeyState
  <1>2. \A p \in Peers : \A k \in got[p] : k.id \in Nat /\ k.counter \in Nat
    BY DEF IInv, Parcel
  <1> TAKE p \in Reachable
  <1>3. p \in Peers /\ Keyed(p) BY DEF Calm, Reached, Reachable, On
  <1>4. PICK k \in got[p] : k.id = key.id /\ k.counter <= key.counter BY <1>3 DEF Keyed
  <1>5. Level(k) /\ Level(key) BY <1>3 DEF Calm, Levels
  <1>6. k.chain.pos + (key.counter - k.counter) = key.counter BY <1>1, <1>2, <1>3, <1>5 DEF Level
  <1> QED BY <1>4, <1>6, <1>5 DEF Opens, Level

LEMMA CommitCalm ==
    ASSUME IInv, Calm, NEW c \in Calls, Commit(c)
    PROVE  Calm' /\ (sent.owed \subseteq sent.readers)'
  <1> c \in Tasks BY DEF Tasks
  <1> task \in [Tasks -> Task] BY DEF IInv, Locals
  <1>1. Active = {c} /\ Position(c) /\ task[c].pc = "advancing" /\ key # NoKey
    BY AloneIs DEF Commit, Calm, IInv, Locals
  <1>2. \A t \in Tasks : ~Spreads(t) BY <1>1 DEF Active, Spreads
  <1>3. /\ task[c].counter = key.counter /\ task[c].sealed = key.chain
        /\ task[c].chain = key.chain
    BY <1>1 DEF Position
  <1>4. key \in KeyState /\ Level(key) BY <1>1 DEF IInv, KeyTyped, Calm, Levels
  <1>5. /\ key'.id = key.id /\ key'.audience = key.audience /\ key'.counter = key.counter + 1
        /\ key'.chain = [gen |-> key.chain.gen, pos |-> key.chain.pos + 1]
    BY <1>3, <1>4 DEF Commit, KeyState
  <1>6. /\ UNCHANGED <<session, meeting, repeated, peer, got, since>> /\ On' = On /\ Left' = Left
    BY DEF Commit, On, Left
  <1>7. Levels'
    <2>1. key.chain.gen = key.id /\ key.chain.pos = key.counter BY <1>4 DEF Level
    <2> QED BY <1>5, <1>6, <2>1 DEF Calm, Levels, Level
  <1>8. Sessions' BY <1>5, <1>6 DEF Calm, Sessions
  <1>10. Reached'
    <2>1. \A p \in Reachable : Keyed(p) BY <1>2 DEF Calm, Reached
    <2>2. \A p \in Peers : \A k \in got[p] : k.counter \in Nat BY DEF IInv, Parcel
    <2>3. key.counter \in Nat BY <1>4 DEF KeyState
    <2>4. \A p \in Peers : Keyed(p) => Keyed(p)' BY <1>5, <1>6, <2>2, <2>3 DEF Keyed
    <2> QED BY <1>5, <1>6, <2>1, <2>4 DEF Reached, Reachable, On
  <1>11. Positions'
    <2>1. task'[c].pc = "idle" /\ \A u \in Tasks \ {c} : task'[u] = task[u]
      BY Blanks DEF Commit
    <2> QED BY <1>1, <2>1, OneMoves
  <1>12. sent'.owed \subseteq sent'.readers
    <2> DEFINE m == [id |-> key.id, counter |-> task[c].counter, chain |-> task[c].sealed]
    <2>1. \A p \in Peers : Opens(p, m) <=> Opens(p, key) BY <1>3 DEF Opens
    <2>2. sent'.readers = {p \in Peers : Opens(p, m)} /\ sent'.owed = Reachable
      BY DEF Commit, Reachable
    <2> HIDE DEF m
    <2>3. \A p \in Reachable : Opens(p, key) BY <1>1, <1>2, KeyOpens
    <2>4. Reachable \subseteq Peers BY DEF On, Reachable
    <2> QED BY <2>1, <2>2, <2>3, <2>4
  <1> QED BY <1>7, <1>8, <1>10, <1>11, <1>12 DEF Calm

LEMMA SealCalm ==
    ASSUME IInv, Calm, NEW t \in Tasks, NEW p \in Peers, Seal(t, p)
    PROVE  Calm'
  <1> task \in [Tasks -> Task] BY DEF IInv, Locals
  <1>1. Active = {t} /\ Position(t) /\ task[t].pc = "spread" /\ task[t].to = None
    BY AloneIs DEF Seal, Calm, IInv, Locals
  <1>2. UNCHANGED <<key, session, meeting, repeated, peer, got, since>> BY DEF Seal
  <1>3. Levels' /\ Sessions' /\ On' = On /\ Left' = Left
        /\ \A q \in Peers : Keyed(q)' = Keyed(q)
    BY <1>2, SameSessions
  <1>4. p \in On /\ \A u \in Tasks \ {t} : task'[u] = task[u] BY DEF Seal
  <1>5. \A q \in Reachable : Keyed(q) \/ q \in Unserved(t)
    BY <1>1 DEF Calm, Reached, Active, Spreads
  <1>6. ASSUME Spreads(t)', \A q \in Reachable : q \in Unserved(t) => q \in Unserved(t)'
        PROVE  Reached'
    BY <1>2, <1>3, <1>5, <1>6 DEF Reached, Reachable, On
  <1>7. None \notin Peers BY TasksApart
  <1>8. CASE CanSend(p)
    <2>1. /\ task'[t].pc = "deriving" /\ task'[t].visited = task[t].visited \cup {p}
          /\ task'[t].to = p /\ task'[t].ratchet = session[p].chain
          /\ task'[t].parcel = [id |-> key.id, chain |-> key.chain, counter |-> key.counter]
      BY <1>8 DEF Seal, Task
    <2>2. Positions' BY <1>1, <1>2, <1>3, <1>4, <2>1, OneMoves DEF Position
    <2>3. Reached' BY <1>1, <1>6, <1>7, <2>1 DEF Unserved, Spreads
    <2> QED BY <1>3, <2>2, <2>3 DEF Calm
  <1>9. CASE ~CanSend(p)
    <2>1. /\ task'[t].pc = "spread" /\ task'[t].visited = task[t].visited \cup {p}
          /\ task'[t].to = None
      BY <1>1, <1>9 DEF Seal, Task
    <2>2. p \notin Reachable BY <1>4, <1>9 DEF CanSend, On, Calm, Sessions, Reachable, IInv, Session
    <2>3. Positions' BY <1>1, <1>2, <1>3, <1>4, <2>1, OneMoves DEF Position
    <2>4. Reached' BY <1>1, <1>6, <1>7, <2>1, <2>2 DEF Unserved, Spreads
    <2> QED BY <1>3, <2>3, <2>4 DEF Calm
  <1> QED BY <1>8, <1>9

\* A ratchet that nobody else has used or turned meanwhile stays in step.
LEMMA RatchetedCalm ==
    ASSUME IInv, Calm, NEW t \in Tasks, task[t].pc \in {"deriving", "single"}, Ratcheted(t),
           UNCHANGED <<key, meeting, repeated, peer>>
    PROVE  /\ InStep(t) \/ task[t].to \in repeated
           /\ Sessions' /\ On' = On /\ Left' = Left
           /\ task[t].to \in On
  <1> DEFINE p == task[t].to
             s == session[p]
  <1>1. Position(t) BY AloneIs DEF Calm
  <1>2. p \in On /\ p \in Peers /\ s \in Session BY <1>1 DEF Position, On, IInv
  <1>3. \A q \in Peers : session'[q].on = session[q].on BY <1>2, RatchetedTyped
  <1>4. On' = On /\ Left' = Left BY <1>3 DEF On, Left
  <1>5. \A q \in Peers \ {p} : session'[q] = session[q] BY DEF Ratcheted, IInv
  <1>6. CASE p \in repeated
    <2>1. Sessions' BY <1>4, <1>5, <1>6 DEF Calm, Sessions
    <2> QED BY <1>2, <1>4, <1>6, <2>1
  <1>7. CASE p \notin repeated
    <2>1. task[t].ratchet = s.chain /\ s.chain = <<s.turn, s.n>> /\ s.n \in Nat
      BY <1>1, <1>2, <1>7 DEF Position, Calm, Sessions, Session
    <2>2. InStep(t) BY <1>2, <2>1 DEF InStep
    <2>3. /\ session'[p].turn = s.turn
          /\ session'[p].chain = <<s.turn, s.n + 1>> /\ session'[p].n = s.n + 1
      <3> DEFINE y == <<task[t].ratchet[1], task[t].ratchet[2] + 1>>
                 n == s.n + 1
      <3>1. session' = [session EXCEPT ![p] = [s EXCEPT !.chain = y, !.n = n]]
        BY DEF Ratcheted, IInv
      <3>2. y = <<s.turn, s.n + 1>> BY <1>2, <2>1
      <3> HIDE DEF y, n
      <3>3. session'[p] = [s EXCEPT !.chain = y, !.n = n] BY <1>2, <3>1 DEF IInv
      <3> HIDE DEF s
      <3>4. session'[p].turn = s.turn /\ session'[p].chain = y /\ session'[p].n = n
        BY <1>2, <3>3 DEF Session
      <3> QED BY <3>2, <3>4 DEF n
    <2>4. \A q \in Peers \ repeated :
            /\ session'[q].turn = session[q].turn
            /\ session'[q].chain = <<session'[q].turn, session'[q].n>>
      BY <1>5, <2>3 DEF Calm, Sessions
    <2>5. Sessions' BY <1>3, <1>4, <2>4 DEF Calm, Sessions
    <2> QED BY <1>2, <1>4, <2>2, <2>5
  <1> QED BY <1>6, <1>7

LEMMA RatchetCalm ==
    ASSUME IInv, Calm, NEW t \in Tasks, Ratchet(t)
    PROVE  Calm'
  <1> task \in [Tasks -> Task] BY DEF IInv, Locals
  <1>1. Active = {t} /\ Position(t) /\ task[t].pc = "deriving"
    BY AloneIs DEF Ratchet, Calm
  <1>2. UNCHANGED <<key, meeting, repeated, peer, got, since>> BY DEF Ratchet
  <1>3. /\ InStep(t) \/ task[t].to \in repeated
        /\ Sessions' /\ On' = On /\ Left' = Left
    BY <1>1, <1>2, RatchetedCalm DEF Ratchet
  <1>4. /\ task'[t].pc = "sealing" /\ task'[t].visited = task[t].visited
        /\ task'[t].to = task[t].to
        /\ \/ task'[t].parcel = task[t].parcel
           \/ task[t].to \in repeated /\ task'[t].parcel = NoParcel
        /\ \A u \in Tasks \ {t} : task'[u] = task[u]
    <2>1. PICK opens \in Opening(t) :
            task' = [task EXCEPT ![t].pc = "sealing", ![t].ratchet = <<0, 0>>,
                                 ![t].parcel = IF opens THEN @ ELSE NoParcel]
      BY DEF Ratchet
    <2>2. opens = TRUE \/ task[t].to \in repeated BY <1>3, <2>1 DEF Opening, InStep
    <2> QED BY <2>1, <2>2 DEF Task
  <1>5. Positions' BY <1>1, <1>2, <1>3, <1>4, OneMoves DEF Position
  <1>6. Levels' BY <1>2 DEF Calm, Levels
  <1>7. Reached'
    <2>1. \A q \in Reachable : Keyed(q) \/ q \in Unserved(t)
      BY <1>1 DEF Calm, Reached, Active, Spreads
    <2>2. Spreads(t)' /\ Unserved(t)' = Unserved(t) BY <1>4 DEF Spreads, Unserved
    <2> QED BY <1>2, <1>3, <2>1, <2>2 DEF Reached, Reachable, Keyed
  <1> QED BY <1>3, <1>5, <1>6, <1>7 DEF Calm

LEMMA DistributeCalm ==
    ASSUME IInv, Calm, NEW t \in Tasks, Distribute(t)
    PROVE  Calm'
  <1> task \in [Tasks -> Task] BY DEF IInv, Locals
  <1>0. PICK p \in Peers : p = task[t].to BY DEF Distribute, IInv, Locals
  <1> DEFINE k == task[t].parcel
  <1>1. /\ Active = {t} /\ Position(t) /\ task[t].pc = "sealing" /\ key # NoKey
    BY AloneIs DEF Distribute, Calm, IInv, Locals
  <1>2. UNCHANGED <<key, session, meeting, repeated, peer, since>> /\ On' = On /\ Left' = Left
    BY DEF Distribute, On, Left
  <1>3. Level(key) /\ key.id >= 1 /\ key.counter \in Nat
    BY <1>1 DEF Calm, Levels, IInv, KeyTyped, KeyState
  <1>4. \/ k = [id |-> key.id, chain |-> key.chain, counter |-> key.counter]
        \/ p \in repeated /\ k = NoParcel
    BY <1>0, <1>1 DEF Position
  <1>5. \A q \in Peers \ {p} : got'[q] = got[q] BY <1>0 DEF Distribute, IInv
  <1>6. k # NoParcel => got'[p] = {x \in got[p] : x.id # k.id} \cup {k}
    BY <1>0 DEF Distribute, IInv
  <1>7. k = NoParcel => got' = got BY DEF Distribute
  <1>8. k # NoParcel => Level(k) /\ k.id = key.id /\ k.counter <= key.counter
    BY <1>3, <1>4 DEF Level
  <1>9. p \notin repeated => k # NoParcel BY <1>3, <1>4 DEF NoParcel
  <1>10. /\ task'[t].pc = "spread" /\ task'[t].visited = task[t].visited
         /\ task'[t].to = None
         /\ \A u \in Tasks \ {t} : task'[u] = task[u]
    BY DEF Distribute, Task
  <1> HIDE DEF k
  <1>11. Positions' BY <1>1, <1>10, OneMoves DEF Position
  <1>12. Levels'
    <2>1. \A q \in Peers : \A x \in got'[q] : x \in got[q] \/ (k # NoParcel /\ x = k)
      BY <1>5, <1>6, <1>7
    <2> QED BY <1>2, <1>8, <2>1 DEF Calm, Levels, Level
  <1>13. Sessions' BY <1>2 DEF Calm, Sessions
  <1>14. Reached'
    <2>1. \A q \in Reachable : Keyed(q) \/ q \in Unserved(t)
      BY <1>1 DEF Calm, Reached, Active, Spreads
    <2>2. p \notin repeated => Keyed(p)' BY <1>2, <1>6, <1>8, <1>9 DEF Keyed
    <2>3. \A q \in Peers \ {p} : Keyed(q) => Keyed(q)' BY <1>2, <1>5 DEF Keyed
    <2>4. \A q \in Unserved(t) \ {p} : q \in Unserved(t)' /\ Spreads(t)'
      BY <1>0, <1>10 DEF Unserved, Spreads
    <2>5. Reachable' = Reachable /\ Reachable \subseteq Peers \ repeated
      BY <1>2 DEF Reachable, On
    <2> QED BY <2>1, <2>2, <2>3, <2>4, <2>5 DEF Reached
  <1> QED BY <1>11, <1>12, <1>13, <1>14 DEF Calm

LEMMA SendToOneCalm ==
    ASSUME IInv, Calm, NEW c \in Calls, SendToOne(c)
    PROVE  Calm' /\ (sent.owed \subseteq sent.readers)'
  <1> c \in Tasks BY DEF Tasks
  <1> task \in [Tasks -> Task] BY DEF IInv, Locals
  <1>1. Active = {c} /\ Position(c) /\ task[c].pc = "single"
    BY AloneIs DEF SendToOne, Calm
  <1>2. UNCHANGED <<key, meeting, repeated, peer, got, since>> BY DEF SendToOne
  <1>3. /\ InStep(c) \/ task[c].to \in repeated
        /\ Sessions' /\ On' = On /\ Left' = Left
    BY <1>1, <1>2, RatchetedCalm DEF SendToOne
  <1>4. task'[c].pc = "idle" /\ \A u \in Tasks \ {c} : task'[u] = task[u]
    BY Blanks DEF SendToOne
  <1>5. Positions' BY <1>1, <1>4, OneMoves
  <1>6. Levels' BY <1>2, <1>3 DEF Calm, Levels
  <1>7. Reached'
    <2>1. \A q \in Reachable : Keyed(q)
      BY <1>1 DEF Calm, Reached, Active, Spreads
    <2> QED BY <1>2, <1>3, <2>1 DEF Reached, Reachable, Keyed
  <1>8. (sent.owed \subseteq sent.readers)' BY <1>3 DEF SendToOne, Opening
  <1> QED BY <1>3, <1>5, <1>6, <1>7, <1>8 DEF Calm

LEMMA SpreadDoneCalm ==
    ASSUME IInv, Calm, NEW t \in Tasks, SpreadDone(t)
    PROVE  Calm'
  <1> task \in [Tasks -> Task] BY DEF IInv, Locals
  <1>1. Active = {t} /\ Position(t) /\ task[t].pc = "spread" /\ task[t].to = None
    BY AloneIs DEF SpreadDone, Calm, IInv, Locals
  <1>2. UNCHANGED <<key, session, meeting, repeated, peer, got, since>> BY DEF SpreadDone
  <1>3. Levels' /\ Sessions' /\ On' = On /\ Left' = Left
        /\ \A q \in Peers : Keyed(q)' = Keyed(q)
    BY <1>2, SameSessions
  <1>4. \A u \in Tasks \ {t} : task'[u] = task[u] BY DEF SpreadDone
  <1>5. \A q \in Reachable : Keyed(q)
    <2>1. \A q \in Reachable : Keyed(q) \/ q \in Unserved(t)
      BY <1>1 DEF Calm, Reached, Active, Spreads
    <2>2. On \subseteq task[t].visited BY DEF SpreadDone
    <2>3. None \notin On BY TasksApart DEF On
    <2> QED BY <1>1, <2>1, <2>2, <2>3 DEF Unserved, Reachable
  <1>6. Reached' BY <1>2, <1>3, <1>5 DEF Reached, Reachable, On
  <1>7. task'[t].pc # "idle" => Position(t)'
    <2>1. CASE task[t].then = "idle" BY <2>1, Blanks DEF SpreadDone
    <2>2. CASE task[t].then # "idle"
      <3>1. task'[t].pc \in {"check", "start"} /\ task'[t].visited = {}
        BY <2>2 DEF SpreadDone, Task
      <3> QED BY <1>1, <1>3, <3>1 DEF Position
    <2> QED BY <2>1, <2>2
  <1>8. Positions' BY <1>1, <1>4, <1>7, OneMoves
  <1> QED BY <1>3, <1>6, <1>8 DEF Calm

\* No task changes; who has a session keeps it, and so does who is sealed for.
LEMMA PeersCalm ==
    ASSUME IInv, Calm, UNCHANGED <<key, got, since, task>>, Sessions',
           On \subseteq On', Reachable' \subseteq Reachable, repeated \subseteq repeated',
           \A t \in Active : task[t].pc \in {"deriving", "single"}
               => task[t].to \in repeated' \/ session'[task[t].to] = session[task[t].to]
    PROVE  Calm'
  <1>1. Levels' BY DEF Calm, Levels
  <1>2. Reached' BY DEF Calm, Reached, Keyed, Spreads, Unserved
  <1>3. Active' = Active BY DEF Active
  <1>4. \A t \in Active : Position(t)' BY DEF Calm, Positions, Position
  <1>5. Positions' BY <1>3, <1>4 DEF Calm, Positions
  <1> QED BY <1>1, <1>2, <1>5 DEF Calm

LEMMA MeetCalm ==
    ASSUME IInv, Calm, NEW p \in Peers, Meet(p)
    PROVE  Calm'
  <1>1. UNCHANGED <<key, got, since, task, session>> /\ On' = On BY DEF Meet, On
  <1>2. \A q \in Peers : peer'[q] = IF q = p THEN "here" ELSE peer[q] BY DEF Meet, IInv, PeersKnown
  <1>3. Left' = Left BY <1>2 DEF Left, Meet
  <1>4. repeated \subseteq repeated' /\ (peer[p] = "here" => p \in repeated') BY DEF Meet
  <1>5. /\ \A q \in Peers \ {p} : meeting'[q] = meeting[q]
        /\ meeting[p] \in Nat /\ meeting'[p] \in {meeting[p], meeting[p] + 1}
    BY DEF Meet, IInv, PeersKnown
  <1>6. Sessions'
    <2>1. ASSUME NEW q \in Peers \ repeated'
          PROVE  /\ session[q].chain = <<session[q].turn, session[q].n>>
                 /\ meeting'[q] <= 1
                 /\ meeting'[q] > 0 \/ peer'[q] = "away" => ~session[q].on /\ session[q].turn = 0
                 /\ q \in key.audience => session[q].turn > 0
      <3>1. q \notin repeated BY <1>4, <2>1
      <3>2. CASE q = p
        <4>1. peer[p] = "away" BY <1>4, <2>1, <3>2 DEF Meet, IInv, PeersKnown
        <4>2. meeting[p] = 0 BY <4>1 DEF Calm, Sessions
        <4> QED BY <1>5, <3>1, <3>2, <4>1, <4>2 DEF Calm, Sessions
      <3>3. CASE q # p BY <1>2, <1>5, <3>1, <3>3 DEF Calm, Sessions
      <3> QED BY <3>2, <3>3
    <2>2. ASSUME NEW q \in Peers
          PROVE  (meeting'[q] > 0 => peer'[q] = "here") /\ (peer'[q] = "away" => meeting'[q] = 0)
      BY <1>2, <1>5 DEF Calm, Sessions
    <2> QED BY <1>1, <1>3, <2>1, <2>2 DEF Calm, Sessions
  <1>7. Reachable' \subseteq Reachable BY <1>1, <1>4 DEF Reachable
  <1> QED BY <1>1, <1>4, <1>6, <1>7, PeersCalm

LEMMA MetCalm ==
    ASSUME IInv, Calm, NEW p \in Peers, Met(p)
    PROVE  Calm'
  <1>1. UNCHANGED <<key, got, since, task, peer, repeated>> /\ Left' = Left BY DEF Met, Left
  <1>2. /\ \A q \in Peers \ {p} : meeting'[q] = meeting[q] /\ session'[q] = session[q]
        /\ meeting[p] \in Nat /\ meeting[p] > 0 /\ meeting'[p] = meeting[p] - 1
    BY DEF Met, IInv, PeersKnown
  <1>3. peer[p] = "here" /\ p \notin Left BY <1>2 DEF Calm, Sessions, Left
  <1>4. PICK turn \in {0, 1} :
          session'[p] = [on |-> TRUE, turn |-> turn, chain |-> <<turn, 0>>, n |-> 0]
    BY DEF Met, IInv
  <1>5. p \notin repeated => meeting[p] = 1 /\ ~session[p].on /\ session[p].turn = 0
    BY <1>2 DEF Calm, Sessions
  <1>6. p \notin repeated => p \notin key.audience BY <1>5 DEF Calm, Sessions
  <1>7. On' = On \cup {p} BY <1>2, <1>4 DEF On
  <1>8. Sessions'
    <2>1. ASSUME NEW q \in Peers \ repeated
          PROVE  /\ session'[q].chain = <<session'[q].turn, session'[q].n>>
                 /\ meeting'[q] <= 1
                 /\ meeting'[q] > 0 \/ peer[q] = "away" => ~session'[q].on /\ session'[q].turn = 0
                 /\ q \in key.audience => session'[q].turn > 0
      <3>1. CASE q = p BY <1>2, <1>3, <1>4, <1>5, <1>6, <2>1, <3>1
      <3>2. CASE q # p BY <1>2, <2>1, <3>2 DEF Calm, Sessions
      <3> QED BY <3>1, <3>2
    <2>2. ASSUME NEW q \in Peers
          PROVE  (meeting'[q] > 0 => peer[q] = "here") /\ (peer[q] = "away" => meeting'[q] = 0)
      <3>1. CASE q = p BY <1>3, <3>1
      <3>2. CASE q # p BY <1>2, <3>2 DEF Calm, Sessions
      <3> QED BY <3>1, <3>2
    <2>3. On' \cap Left = {} BY <1>3, <1>7 DEF Calm, Sessions
    <2> QED BY <1>1, <2>1, <2>2, <2>3 DEF Sessions
  <1>9. Reachable' \subseteq Reachable BY <1>1, <1>6, <1>7 DEF Reachable
  <1>10. ASSUME NEW t \in Active, task[t].pc \in {"deriving", "single"}
         PROVE  task[t].to \in repeated \/ session'[task[t].to] = session[task[t].to]
    <2>1. task[t].to \in On BY <1>10 DEF Calm, Positions, Position
    <2>2. task[t].to \in Peers /\ session[task[t].to].on BY <2>1 DEF On
    <2> QED BY <1>2, <1>5, <2>2
  <1> QED BY <1>1, <1>7, <1>8, <1>9, <1>10, PeersCalm

LEMMA TurnCalm ==
    ASSUME IInv, Calm, NEW p \in Peers, Turn(p), ~overlapped'
    PROVE  Calm'
  <1>1. UNCHANGED <<key, got, since, task, peer, meeting, repeated>> /\ Left' = Left
    BY DEF Turn, Left
  <1>2. \A q \in Peers \ {p} : session'[q] = session[q] BY DEF Turn, IInv
  <1>3. /\ session'[p].on /\ session'[p].n = 0 /\ session'[p].turn = session[p].turn + 1
        /\ session'[p].chain = <<session'[p].turn, session'[p].n>> /\ session[p].on
    BY DEF Turn, IInv
  <1>4. On' = On /\ p \in On BY <1>2, <1>3 DEF On
  <1>5. session[p].turn \in Nat BY DEF IInv, Session
  <1>6. Sessions'
    <2>1. ASSUME NEW q \in Peers \ repeated
          PROVE  /\ session'[q].chain = <<session'[q].turn, session'[q].n>>
                 /\ meeting[q] <= 1
                 /\ meeting[q] > 0 \/ peer[q] = "away" => ~session'[q].on /\ session'[q].turn = 0
                 /\ q \in key.audience => session'[q].turn > 0
      <3>1. CASE q = p
        <4>1. meeting[p] <= 1 /\ ~(meeting[p] > 0 \/ peer[p] = "away")
          BY <1>3, <2>1, <3>1 DEF Calm, Sessions
        <4> QED BY <1>3, <1>5, <3>1, <4>1
      <3>2. CASE q # p BY <1>2, <2>1, <3>2 DEF Calm, Sessions
      <3> QED BY <3>1, <3>2
    <2> QED BY <1>1, <1>4, <2>1 DEF Calm, Sessions
  <1>7. \A t \in Active : task[t].pc \in {"deriving", "single"} => task[t].to \in Peers \ {p}
    BY DEF Turn, Active, IInv, Locals
  <1>8. Reachable' = Reachable BY <1>1, <1>4 DEF Reachable
  <1> QED BY <1>1, <1>2, <1>4, <1>6, <1>7, <1>8, PeersCalm

LEMMA PeerLeftCalm ==
    ASSUME IInv, Calm, NEW p \in Peers, PeerLeft(p), ~overlapped'
    PROVE  Calm'
  <1> p \in Tasks BY DEF Tasks
  <1>1. Active = {} /\ ~(meeting[p] > 0) BY DEF PeerLeft, Overlap
  <1>2. /\ \A q \in Peers : peer'[q] = IF q = p THEN "left" ELSE peer[q]
        /\ \A q \in Peers \ {p} : session'[q] = session[q]
        /\ ~session'[p].on /\ session'[p].turn = session[p].turn
        /\ session'[p].chain = session[p].chain /\ session'[p].n = session[p].n
        /\ UNCHANGED <<meeting, repeated, got>>
    BY DEF PeerLeft, IInv, PeersKnown, Session
  <1>3. Left' = Left \cup {p} /\ On' = On \ {p} BY <1>2 DEF Left, On
  <1>4. ASSUME \A q \in key'.audience : q \in Peers /\ session[q].turn > 0
        PROVE  Sessions'
    <2>1. ASSUME NEW q \in Peers \ repeated
          PROVE  /\ session'[q].chain = <<session'[q].turn, session'[q].n>>
                 /\ meeting[q] <= 1
                 /\ meeting[q] > 0 \/ peer'[q] = "away" => ~session'[q].on /\ session'[q].turn = 0
                 /\ q \in key'.audience => session'[q].turn > 0
      <3>1. CASE q = p BY <1>1, <1>2, <1>4, <2>1, <3>1 DEF Calm, Sessions
      <3>2. CASE q # p BY <1>2, <1>4, <2>1, <3>2 DEF Calm, Sessions
      <3> QED BY <3>1, <3>2
    <2>2. ASSUME NEW q \in Peers
          PROVE  (meeting[q] > 0 => peer'[q] = "here") /\ (peer'[q] = "away" => meeting[q] = 0)
      BY <1>1, <1>2 DEF Calm, Sessions
    <2>3. On' \cap Left' = {} BY <1>3 DEF Calm, Sessions
    <2> QED BY <1>2, <2>1, <2>2, <2>3 DEF Sessions
  <1>5. CASE key = NoKey
    <2>1. key' = NoKey /\ task' = task BY <1>5 DEF PeerLeft
    <2>2. Levels' BY <1>2, <2>1 DEF Calm, Levels
    <2>3. NoKey.audience = {} BY DEF NoKey
    <2>4. Reached' BY <2>1, <2>3 DEF Reached, Reachable
    <2>5. Positions' BY <1>1, <2>1 DEF Positions, Active
    <2> QED BY <1>4, <2>1, <2>2, <2>3, <2>4, <2>5 DEF Calm
  <1>6. CASE key # NoKey
    <2> DEFINE A == {q \in Peers \ {p} : CanSend(q)}
    <2>1. Draw(A) /\ task' = [task EXCEPT ![p] = [Idle EXCEPT !.pc = "spread"]]
      BY <1>6 DEF PeerLeft
    <2>2. key' # NoKey /\ Level(key') /\ key'.audience = A BY <2>1, DrawnCalm
    <2>3. /\ task'[p].pc = "spread" /\ task'[p].visited = {} /\ task'[p].to = None
          /\ \A u \in Tasks \ {p} : task'[u] = task[u]
      BY <2>1 DEF Idle, IInv
    <2>4. Levels' BY <1>2, <2>2 DEF Calm, Levels
    <2>5. Sessions' BY <1>4, <2>2 DEF CanSend
    <2>6. Reached'
      <3>1. \A q \in Peers : q \in Unserved(p)' /\ Spreads(p)' BY <2>3 DEF Unserved, Spreads
      <3> QED BY <2>2, <3>1 DEF Reached, Reachable, On
    <2>7. Positions' BY <1>1, <2>3, OneMoves DEF Position
    <2> QED BY <2>4, <2>5, <2>6, <2>7 DEF Calm
  <1> QED BY <1>5, <1>6

\* What was sent before anything overlapped is read by whom it should be.
Answered == ~overlapped => sent.owed \subseteq sent.readers

\* Every step that overlaps with nothing keeps the calm, and a message it sends
\* is read by whom it should be.
LEMMA CalmStep ==
    ASSUME IInv, Undisturbed, Answered, [Next]_vars
    PROVE  Undisturbed' /\ Answered'
  <1> SUFFICES ASSUME ~overlapped' PROVE Calm' /\ Answered'
    BY DEF Undisturbed, Answered
  <1>1. ~overlapped
    <2>1. ASSUME NEW c \in Calls, EncryptStep(c) PROVE ~overlapped
      BY <2>1 DEF EncryptStep, EncryptForGroup, CheckLimits, TakeKey, TakeChain, Commit,
         SendToOne, EncryptForOne, Overlap
    <2>2. ASSUME NEW t \in Tasks, SpreadStep(t) PROVE ~overlapped
      BY <2>2 DEF SpreadStep, Ratchet, Distribute, SpreadDone, Seal
    <2>3. ASSUME NEW p \in Peers, PeerStep(p) PROVE ~overlapped
      BY <2>3 DEF PeerStep, Meet, Turn, PeerLeft, Met, Overlap
    <2>4. CASE UNCHANGED vars BY <2>4 DEF vars
    <2> QED BY <2>1, <2>2, <2>3, <2>4 DEF Next
  <1>2. Calm BY <1>1 DEF Undisturbed
  <1>3. ASSUME sent' = sent PROVE Answered' BY <1>1, <1>3 DEF Answered
  <1>4. CASE UNCHANGED vars
    <2>1. Calm' BY <1>2, <1>4 DEF vars, Calm, Levels, Sessions, Reached, Reachable, Positions, Position,
           Keyed, Spreads, Unserved, Left, On, Active
    <2> QED BY <1>3, <1>4, <2>1 DEF vars
  <1>5. ASSUME NEW c \in Calls, EncryptStep(c) PROVE Calm' /\ Answered'
    <2>1. CASE Commit(c) BY <1>2, <2>1, CommitCalm DEF Answered
    <2>2. CASE SendToOne(c) BY <1>2, <2>2, SendToOneCalm DEF Answered
    <2>3. CASE EncryptForGroup(c) BY <1>2, <1>3, <2>3, EncryptForGroupCalm DEF EncryptForGroup
    <2>4. CASE CheckLimits(c) BY <1>2, <1>3, <2>4, CheckLimitsCalm DEF CheckLimits
    <2>5. CASE TakeKey(c) \/ TakeChain(c) BY <1>2, <1>3, <2>5, TakeCalm DEF TakeKey, TakeChain
    <2>6. ASSUME NEW p \in Peers, EncryptForOne(c, p) PROVE Calm' /\ Answered'
      BY <1>2, <1>3, <2>6, EncryptForOneCalm DEF EncryptForOne
    <2> QED BY <1>5, <2>1, <2>2, <2>3, <2>4, <2>5, <2>6 DEF EncryptStep
  <1>6. ASSUME NEW t \in Tasks, SpreadStep(t) PROVE Calm' /\ Answered'
    <2>1. sent' = sent BY <1>6 DEF SpreadStep, Ratchet, Distribute, SpreadDone, Seal
    <2>2. Calm' BY <1>2, <1>6, RatchetCalm, DistributeCalm, SpreadDoneCalm, SealCalm DEF SpreadStep
    <2> QED BY <1>3, <2>1, <2>2
  <1>7. ASSUME NEW p \in Peers, PeerStep(p) PROVE Calm' /\ Answered'
    <2>1. sent' = sent BY <1>7 DEF PeerStep, Meet, Turn, PeerLeft, Met
    <2>2. Calm' BY <1>2, <1>7, MeetCalm, MetCalm, TurnCalm, PeerLeftCalm DEF PeerStep
    <2> QED BY <1>3, <2>1, <2>2
  <1> QED BY <1>4, <1>5, <1>6, <1>7 DEF Next

\* A message opens for nobody whose departure was handled before it was begun,
\* whatever overlaps; and without overlapping tasks it opens for all whom the key
\* or the session in use was made for, through every rotation, departure and turn
\* of a ratchet before it, but for peers with whom there were two agreements.
THEOREM GroupReadsHolds == Spec => []GroupReads
  <1>1. Init => Undisturbed /\ Answered
    <2> SUFFICES ASSUME Init PROVE Calm /\ Answered BY DEF Undisturbed
    <2>1. \A t \in Tasks : task[t].pc = "idle" BY Blanks DEF Init
    <2>2. Positions /\ Reached BY <2>1 DEF Positions, Active, Reached, Reachable, Init, NoKey
    <2>3. Levels BY DEF Init, Levels
    <2>4. Sessions BY DEF Init, Sessions, On, Left, NoKey
    <2>5. Answered BY DEF Init, Answered
    <2> QED BY <2>2, <2>3, <2>4, <2>5 DEF Calm
  <1>2. IInv /\ Undisturbed /\ Answered /\ [Next]_vars => Undisturbed' /\ Answered'
    BY CalmStep
  <1>3. Closed /\ Answered => GroupReads BY DEF Closed, Answered, GroupReads
  <1> QED BY <1>1, <1>2, <1>3, IInvHolds, ClosedHolds, PTL DEF Spec
=============================================================================
