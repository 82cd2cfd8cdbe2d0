------------------------- MODULE FileTransferProofs -------------------------
(***************************************************************************)
(* Proofs about FileTransfer, for a file of any length and any number of   *)
(* retries: what is acknowledged is written, one reader of the receiver    *)
(* has the transfer, and the transfer implements FileCopy.                 *)
(***************************************************************************)
EXTENDS FileTransfer, SequenceTheorems, TLAPS

-----------------------------------------------------------------------------
(* Messages and queues *)

LEMMA Messages ==
    /\ \A t \in Plain : Msg(t) \in Message /\ Msg(t).type = t
    /\ \A k \in Chunks : /\ Chunk(k) \in Message /\ Chunk(k).type = "file_chunk"
                         /\ Chunk(k).chunk = k
                         /\ Ack(k) \in Message /\ Ack(k).type = "chunk_ack" /\ Ack(k).chunk = k
    /\ \A m \in Message : m.type \in {"file_chunk", "chunk_ack"} => m.chunk \in Chunks
    /\ \A m \in Message : m.type = "file_chunk" => m = Chunk(m.chunk)
  BY DEF Message, Plain, Msg, Chunk, Ack

\* One message more, one less, or the end cut off.
LEMMA Append1 ==
    ASSUME NEW q \in Seq(Message), NEW m \in Message
    PROVE  /\ Append(q, m) \in Seq(Message) /\ Len(q) \in Nat
           /\ Len(Append(q, m)) = Len(q) + 1
           /\ \A i \in 1..Len(q) : Append(q, m)[i] = q[i] /\ q[i] \in Message
           /\ Append(q, m)[Len(q) + 1] = m
  OBVIOUS

LEMMA Tail1 ==
    ASSUME NEW q \in Seq(Message), q # <<>>
    PROVE  /\ Head(q) = q[1] /\ Head(q) \in Message /\ Tail(q) \in Seq(Message)
           /\ Len(q) \in Nat /\ Len(q) >= 1 /\ Len(Tail(q)) = Len(q) - 1
           /\ \A i \in 1..(Len(q) - 1) : Tail(q)[i] = q[i + 1]
  OBVIOUS

LEMMA SubSeq1 ==
    ASSUME NEW q \in Seq(Message), NEW n \in 0..Len(q)
    PROVE  /\ SubSeq(q, 1, n) \in Seq(Message) /\ Len(SubSeq(q, 1, n)) = n /\ n <= Len(q)
           /\ Len(q) \in Nat /\ \A i \in 1..n : SubSeq(q, 1, n)[i] = q[i]
  OBVIOUS

Queues == [Paths -> Seq(Message)]

\* What a relay does with a message: forwards or loses it.
LEMMA Relayed ==
    ASSUME NEW q \in Queues, NEW p \in Paths, NEW m \in Message
    PROVE  /\ ToR(p, m, q) \in Queues /\ ToS(p, m, q) \in Queues
           /\ \A r \in Paths \ {p} : ToR(p, m, q)[r] = q[r] /\ ToS(p, m, q)[r] = q[r]
           /\ ToR(p, m, q)[p] = IF "R" \in joined[p] THEN Append(q[p], m) ELSE q[p]
           /\ ToS(p, m, q)[p] = IF "S" \in joined[p] THEN Append(q[p], m) ELSE q[p]
  BY Append1 DEF ToR, ToS, Queues

LEMMA Taken ==
    ASSUME TypeOK, NEW p \in Paths
    PROVE  /\ toS[p] # <<>> => TakenS(p) \in Queues
           /\ toR[p] # <<>> => TakenR(p) \in Queues
           /\ TakenS(p)[p] = Tail(toS[p]) /\ TakenR(p)[p] = Tail(toR[p])
           /\ \A r \in Paths \ {p} : TakenS(p)[r] = toS[r] /\ TakenR(p)[r] = toR[r]
  BY Tail1 DEF TypeOK, TakenS, TakenR, Queues

LEMMA CutType ==
    ASSUME NEW q \in Queues, NEW r \in Cut(q)
    PROVE  /\ r \in Queues
           /\ \A p \in Paths : \E n \in 0..Len(q[p]) : r[p] = SubSeq(q[p], 1, n)
  <1>1. PICK g \in 0..Len(q.global), l \in 0..Len(q.local) :
            r = [global |-> SubSeq(q.global, 1, g), local |-> SubSeq(q.local, 1, l)]
    BY DEF Cut
  <1>2. q.global \in Seq(Message) /\ q.local \in Seq(Message) BY DEF Queues, Paths
  <1>3. SubSeq(q.global, 1, g) \in Seq(Message) /\ SubSeq(q.local, 1, l) \in Seq(Message)
    BY <1>2, SubSeq1
  <1>4. /\ r["global"] = SubSeq(q["global"], 1, g) /\ r["local"] = SubSeq(q["local"], 1, l)
        /\ DOMAIN r = Paths /\ r = [p \in Paths |-> r[p]]
    BY <1>1 DEF Paths
  <1>5. \A p \in Paths : r[p] \in Seq(Message)
    <2>1. r["global"] \in Seq(Message) /\ r["local"] \in Seq(Message) BY <1>3, <1>4
    <2> QED BY <2>1 DEF Paths
  <1>6. r \in Queues BY <1>4, <1>5 DEF Queues
  <1>7. \A p \in Paths : \E n \in 0..Len(q[p]) : r[p] = SubSeq(q[p], 1, n) BY <1>4 DEF Paths
  <1> QED BY <1>6, <1>7

-----------------------------------------------------------------------------
(* What a queue to the receiver holds of the transfer *)

NoTransfer(q) == \A i \in 1..Len(q) : q[i].type \notin TransferTypes
StartIn(q) == \E i \in 1..Len(q) : q[i].type = "file_start"
EndIn(q) == \E i \in 1..Len(q) : q[i].type = "file_end"

\* There is at most one file_start, and the chunks come behind it.
StartFirst(q) ==
    \A i \in 1..Len(q) : q[i].type = "file_start" =>
        \A j \in 1..Len(q) : q[j].type \in {"file_start", "file_chunk"} => j >= i

\* A chunk beyond the n-th comes behind the one before it.
InStep(q, n) ==
    \A i \in 1..Len(q) : q[i].type = "file_chunk" =>
        \/ q[i].chunk <= n
        \/ \E j \in 1..(i - 1) : q[j].type = "file_chunk" /\ q[j].chunk = q[i].chunk - 1

\* Chunks are of those numbered below n; those from m on, below n, are all there.
Below(q, n) == \A i \in 1..Len(q) : q[i].type = "file_chunk" => q[i].chunk < n
Whole(q, m, n) == \A k \in m..(n - 1) : \E i \in 1..Len(q) : q[i] = Chunk(k)

AcksBelow(q, n) == \A i \in 1..Len(q) : q[i].type = "chunk_ack" => q[i].chunk < n

\* Nothing of the transfer is new in r, or out of order; all of it is still there.
Trimmed(q, r) ==
    /\ NoTransfer(q) => NoTransfer(r)
    /\ StartIn(r) => StartIn(q)
    /\ EndIn(r) => EndIn(q)
    /\ StartFirst(q) => StartFirst(r)
    /\ \A n \in Nat : (InStep(q, n) => InStep(r, n)) /\ (Below(q, n) => Below(r, n))
Kept(q, r) == Trimmed(q, r) /\ \A m, n \in Nat : Whole(q, m, n) => Whole(r, m, n)
AcksKept(q, r) == \A n \in Nat : AcksBelow(q, n) => AcksBelow(r, n)

LEMMA KeptSame == \A q : Kept(q, q) /\ Trimmed(q, q) /\ AcksKept(q, q)
  BY DEF Kept, Trimmed, AcksKept

LEMMA TrimmedTwice ==
    ASSUME NEW q, NEW r, NEW s, Trimmed(q, r), Trimmed(r, s)
    PROVE  Trimmed(q, s)
  BY DEF Trimmed

LEMMA EmptyKept ==
    /\ \A q : Trimmed(q, <<>>) /\ AcksKept(q, <<>>)
    /\ \A r : NoTransfer(r) => Kept(<<>>, r)
  <1>1. Len(<<>>) = 0 OBVIOUS
  <1>2. ASSUME NEW q PROVE Trimmed(q, <<>>) /\ AcksKept(q, <<>>)
    BY <1>1 DEF Trimmed, AcksKept, NoTransfer, StartIn, EndIn, StartFirst, InStep, Below, AcksBelow
  <1>3. ASSUME NEW r, NoTransfer(r) PROVE Kept(<<>>, r)
    <2>1. Trimmed(<<>>, r)
      BY <1>3 DEF Trimmed, NoTransfer, TransferTypes, StartIn, EndIn, StartFirst, InStep, Below
    <2>2. \A m, n \in Nat : Whole(<<>>, m, n) => Whole(r, m, n) BY <1>1 DEF Whole
    <2> QED BY <2>1, <2>2 DEF Kept
  <1> QED BY <1>2, <1>3

LEMMA AppendKept ==
    ASSUME NEW q \in Seq(Message), NEW m \in Message, m.type \notin TransferTypes
    PROVE  Kept(q, Append(q, m))
  <1> DEFINE r == Append(q, m)
  <1>1. /\ Len(q) \in Nat /\ Len(r) = Len(q) + 1 /\ r[Len(q) + 1] = m
        /\ \A i \in 1..Len(q) : r[i] = q[i]
    BY Append1
  <1> HIDE DEF r
  <1>2. m.type \notin {"file_start", "file_chunk", "file_end"} BY DEF TransferTypes
  <1>3. \A i \in 1..Len(r) : i \in 1..Len(q) \/ r[i] = m BY <1>1
  <1>4. NoTransfer(q) => NoTransfer(r) BY <1>1, <1>3 DEF NoTransfer
  <1>5. (StartIn(r) => StartIn(q)) /\ (EndIn(r) => EndIn(q)) BY <1>1, <1>2, <1>3 DEF StartIn, EndIn
  <1>6. StartFirst(q) => StartFirst(r) BY <1>1, <1>2, <1>3 DEF StartFirst
  <1>7. ASSUME NEW n \in Nat, InStep(q, n) PROVE InStep(r, n)
    <2> SUFFICES ASSUME NEW i \in 1..Len(r), r[i].type = "file_chunk", ~(r[i].chunk <= n)
                 PROVE  \E j \in 1..(i - 1) : r[j].type = "file_chunk" /\ r[j].chunk = r[i].chunk - 1
      BY DEF InStep
    <2>1. i \in 1..Len(q) /\ r[i] = q[i] BY <1>1, <1>2, <1>3
    <2>2. PICK j \in 1..(i - 1) : q[j].type = "file_chunk" /\ q[j].chunk = q[i].chunk - 1
      BY <1>7, <2>1 DEF InStep
    <2>3. j \in 1..Len(q) BY <1>1, <2>1
    <2> QED BY <1>1, <2>1, <2>2, <2>3
  <1>8. \A n \in Nat : Below(q, n) => Below(r, n) BY <1>1, <1>2, <1>3 DEF Below
  <1>9. \A k, n \in Nat : Whole(q, k, n) => Whole(r, k, n) BY <1>1 DEF Whole
  <1> QED BY <1>4, <1>5, <1>6, <1>7, <1>8, <1>9 DEF Kept, Trimmed, r

\* A message that is no chunk is read.
LEMMA TailKept ==
    ASSUME NEW q \in Seq(Message), q # <<>>, Head(q).type # "file_chunk"
    PROVE  Kept(q, Tail(q))
  <1> DEFINE r == Tail(q)
  <1>1. /\ Len(q) \in Nat /\ Len(q) >= 1 /\ Len(r) = Len(q) - 1 /\ q[1].type # "file_chunk"
        /\ \A i \in 1..(Len(q) - 1) : r[i] = q[i + 1]
    BY Tail1
  <1> HIDE DEF r
  <1>2. \A i \in 1..Len(r) : i + 1 \in 1..Len(q) /\ r[i] = q[i + 1] BY <1>1
  <1>3. \A i \in 1..Len(q) : i # 1 => i - 1 \in 1..Len(r) /\ r[i - 1] = q[i] BY <1>1
  <1>4. NoTransfer(q) => NoTransfer(r) BY <1>2 DEF NoTransfer
  <1>5. (StartIn(r) => StartIn(q)) /\ (EndIn(r) => EndIn(q)) BY <1>2 DEF StartIn, EndIn
  <1>6. StartFirst(q) => StartFirst(r)
    <2> SUFFICES ASSUME StartFirst(q), NEW i \in 1..Len(r), r[i].type = "file_start",
                        NEW j \in 1..Len(r), r[j].type \in {"file_start", "file_chunk"}
                 PROVE  j >= i
      BY DEF StartFirst
    <2>1. j + 1 >= i + 1 BY <1>2 DEF StartFirst
    <2> QED BY <1>1, <2>1
  <1>7. ASSUME NEW n \in Nat, InStep(q, n) PROVE InStep(r, n)
    <2> SUFFICES ASSUME NEW i \in 1..Len(r), r[i].type = "file_chunk", ~(r[i].chunk <= n)
                 PROVE  \E j \in 1..(i - 1) : r[j].type = "file_chunk" /\ r[j].chunk = r[i].chunk - 1
      BY DEF InStep
    <2>1. i + 1 \in 1..Len(q) /\ r[i] = q[i + 1] BY <1>2
    <2>2. PICK j \in 1..i : q[j].type = "file_chunk" /\ q[j].chunk = q[i + 1].chunk - 1
      BY <1>1, <1>7, <2>1 DEF InStep
    <2>3. j # 1 /\ j \in 1..Len(q) BY <1>1, <2>1, <2>2
    <2>4. j - 1 \in 1..(i - 1) /\ r[j - 1] = q[j] BY <1>3, <2>2, <2>3
    <2> QED BY <2>1, <2>2, <2>4
  <1>8. \A n \in Nat : Below(q, n) => Below(r, n) BY <1>2 DEF Below
  <1>9. \A k, n \in Nat : Whole(q, k, n) => Whole(r, k, n)
    <2> SUFFICES ASSUME NEW k \in Nat, NEW n \in Nat, Whole(q, k, n), NEW l \in k..(n - 1)
                 PROVE  \E i \in 1..Len(r) : r[i] = Chunk(l)
      BY DEF Whole
    <2>1. PICK i \in 1..Len(q) : q[i] = Chunk(l) BY DEF Whole
    <2>2. i # 1 BY <1>1, <2>1 DEF Chunk
    <2> QED BY <1>3, <2>1, <2>2
  <1> QED BY <1>4, <1>5, <1>6, <1>7, <1>8, <1>9 DEF Kept, Trimmed, r

LEMMA SubSeqTrimmed ==
    ASSUME NEW q \in Seq(Message), NEW n \in 0..Len(q)
    PROVE  Trimmed(q, SubSeq(q, 1, n)) /\ AcksKept(q, SubSeq(q, 1, n))
  <1> DEFINE r == SubSeq(q, 1, n)
  <1>1. /\ Len(q) \in Nat /\ Len(r) = n /\ n <= Len(q) /\ n \in Nat
        /\ \A i \in 1..n : i \in 1..Len(q) /\ r[i] = q[i]
    BY SubSeq1
  <1> HIDE DEF r
  <1>2. NoTransfer(q) => NoTransfer(r) BY <1>1 DEF NoTransfer
  <1>3. (StartIn(r) => StartIn(q)) /\ (EndIn(r) => EndIn(q)) BY <1>1 DEF StartIn, EndIn
  <1>4. StartFirst(q) => StartFirst(r) BY <1>1 DEF StartFirst
  <1>5. ASSUME NEW k \in Nat, InStep(q, k) PROVE InStep(r, k)
    <2> SUFFICES ASSUME NEW i \in 1..n, r[i].type = "file_chunk", ~(r[i].chunk <= k)
                 PROVE  \E j \in 1..(i - 1) : r[j].type = "file_chunk" /\ r[j].chunk = r[i].chunk - 1
      BY <1>1 DEF InStep
    <2>1. PICK j \in 1..(i - 1) : q[j].type = "file_chunk" /\ q[j].chunk = q[i].chunk - 1
      BY <1>1, <1>5 DEF InStep
    <2>2. j \in 1..n BY <1>1
    <2> QED BY <1>1, <2>1, <2>2
  <1>6. \A k \in Nat : (Below(q, k) => Below(r, k)) /\ (AcksBelow(q, k) => AcksBelow(r, k))
    BY <1>1 DEF Below, AcksBelow
  <1> QED BY <1>2, <1>3, <1>4, <1>5, <1>6 DEF Trimmed, AcksKept, r

LEMMA AcksAppended ==
    ASSUME NEW q \in Seq(Message), NEW m \in Message, m.type # "chunk_ack"
    PROVE  AcksKept(q, Append(q, m))
  BY Append1 DEF AcksKept, AcksBelow

LEMMA AcksTail ==
    ASSUME NEW q \in Seq(Message), q # <<>>
    PROVE  AcksKept(q, Tail(q))
  BY Tail1 DEF AcksKept, AcksBelow

\* The next chunk of a file, or one sent before, is sent.
LEMMA ChunkAppended ==
    ASSUME NEW q \in Seq(Message), NEW k \in Chunks, NEW n \in Nat, NEW m \in Nat,
           k <= m, InStep(q, n), Whole(q, n, m)
    PROVE  /\ InStep(Append(q, Chunk(k)), n)
           /\ Whole(Append(q, Chunk(k)), n, m)
           /\ Whole(Append(q, Chunk(k)), n, k + 1) \/ k # m
  <1> DEFINE r == Append(q, Chunk(k))
  <1>0. k \in Nat /\ Chunk(k).type = "file_chunk" /\ Chunk(k).chunk = k
    BY Messages, TransferConstants DEF Chunks
  <1>1. /\ Len(q) \in Nat /\ Len(r) = Len(q) + 1 /\ r[Len(q) + 1] = Chunk(k)
        /\ \A i \in 1..Len(q) : r[i] = q[i] /\ q[i] \in Message
    BY Append1, Messages
  <1> HIDE DEF r
  <1>2. \A i \in 1..Len(r) : i \in 1..Len(q) \/ (i = Len(q) + 1 /\ r[i] = Chunk(k)) BY <1>1
  <1>3. InStep(r, n)
    <2> SUFFICES ASSUME NEW i \in 1..Len(r), r[i].type = "file_chunk", ~(r[i].chunk <= n)
                 PROVE  \E j \in 1..(i - 1) : r[j].type = "file_chunk" /\ r[j].chunk = r[i].chunk - 1
      BY DEF InStep
    <2>1. CASE i \in 1..Len(q)
      <3>1. PICK j \in 1..(i - 1) : q[j].type = "file_chunk" /\ q[j].chunk = q[i].chunk - 1
        BY <1>1, <2>1 DEF InStep
      <3>2. j \in 1..Len(q) BY <1>1, <2>1
      <3> QED BY <1>1, <2>1, <3>1, <3>2
    <2>2. CASE i = Len(q) + 1 /\ r[i] = Chunk(k)
      <3>1. k - 1 \in n..(m - 1) /\ k - 1 \in Nat BY <1>0, <2>2
      <3>2. PICK j \in 1..Len(q) : q[j] = Chunk(k - 1) BY <3>1 DEF Whole
      <3>3. q[j].type = "file_chunk" /\ q[j].chunk = k - 1 BY <3>2 DEF Chunk
      <3>4. j \in 1..(i - 1) /\ r[j] = q[j] BY <1>1, <2>2
      <3>5. r[i].chunk = k BY <1>0, <2>2
      <3> QED BY <3>3, <3>4, <3>5
    <2> QED BY <1>2, <2>1, <2>2
  <1>4. Whole(r, n, m) BY <1>1 DEF Whole
  <1>5. ASSUME k = m PROVE Whole(r, n, k + 1)
    <2> SUFFICES ASSUME NEW l \in n..k PROVE \E i \in 1..Len(r) : r[i] = Chunk(l)
      BY <1>0 DEF Whole
    <2>1. CASE l = k BY <1>1, <2>1
    <2>2. CASE l # k
      <3>1. l \in n..(m - 1) BY <1>0, <1>5, <2>2
      <3> QED BY <1>1, <3>1 DEF Whole
    <2> QED BY <2>1, <2>2
  <1> QED BY <1>3, <1>4, <1>5 DEF r

\* Nothing but a chunk is in the queue when one is added.
LEMMA ChunkNew ==
    ASSUME NEW q \in Seq(Message), NEW k \in Chunks
    PROVE  /\ StartIn(Append(q, Chunk(k))) => StartIn(q)
           /\ EndIn(Append(q, Chunk(k))) => EndIn(q)
           /\ StartFirst(q) => StartFirst(Append(q, Chunk(k)))
           /\ \A n \in Nat : Below(q, n) /\ k < n => Below(Append(q, Chunk(k)), n)
  <1> DEFINE r == Append(q, Chunk(k))
  <1>1. /\ Len(q) \in Nat /\ Len(r) = Len(q) + 1 /\ r[Len(q) + 1] = Chunk(k)
        /\ \A i \in 1..Len(q) : r[i] = q[i]
        /\ Chunk(k).type = "file_chunk" /\ Chunk(k).chunk = k
    BY Append1, Messages
  <1> HIDE DEF r
  <1>2. \A i \in 1..Len(r) : i \in 1..Len(q) \/ (i = Len(q) + 1 /\ r[i] = Chunk(k)) BY <1>1
  <1>3. (StartIn(r) => StartIn(q)) /\ (EndIn(r) => EndIn(q)) BY <1>1, <1>2 DEF StartIn, EndIn
  <1>4. StartFirst(q) => StartFirst(r) BY <1>1, <1>2 DEF StartFirst
  <1>5. \A n \in Nat : Below(q, n) /\ k < n => Below(r, n) BY <1>1, <1>2 DEF Below
  <1> QED BY <1>3, <1>4, <1>5 DEF r

\* The first chunk is read: it is none beyond the n-th.
LEMMA ChunkTaken ==
    ASSUME NEW q \in Seq(Message), q # <<>>, Head(q).type = "file_chunk", NEW n \in Nat,
           InStep(q, n)
    PROVE  LET h == Head(q).chunk
               n2 == IF h = n THEN n + 1 ELSE n
           IN  /\ h <= n /\ InStep(Tail(q), n2)
               /\ \A m \in Nat : Whole(q, n, m) => Whole(Tail(q), n2, m)
  <1> DEFINE h == Head(q).chunk
             n2 == IF h = n THEN n + 1 ELSE n
             r == Tail(q)
  <1>1. /\ Len(q) \in Nat /\ Len(q) >= 1 /\ Len(r) = Len(q) - 1 /\ q[1].type = "file_chunk"
        /\ q[1].chunk = h /\ \A i \in 1..(Len(q) - 1) : r[i] = q[i + 1]
        /\ h \in Chunks
    BY Tail1, Messages
  <1> HIDE DEF r
  <1>2. h <= n /\ h \in Nat BY <1>1, TransferConstants DEF InStep, Chunks
  <1>3. InStep(r, n2)
    <2> SUFFICES ASSUME NEW i \in 1..Len(r), r[i].type = "file_chunk", ~(r[i].chunk <= n2)
                 PROVE  \E j \in 1..(i - 1) : r[j].type = "file_chunk" /\ r[j].chunk = r[i].chunk - 1
      BY DEF InStep
    <2>0. q[i + 1] \in Message /\ q[i + 1] = r[i] /\ i + 1 \in 1..Len(q) BY <1>1
    <2>1. r[i].chunk \in Nat /\ r[i].chunk > n
      BY <1>2, <2>0, Messages, TransferConstants DEF Chunks
    <2>2. PICK j \in 1..i : q[j].type = "file_chunk" /\ q[j].chunk = q[i + 1].chunk - 1
      BY <1>1, <2>0, <2>1 DEF InStep
    <2>3. j # 1 BY <1>1, <1>2, <2>0, <2>1, <2>2
    <2>4. j - 1 \in 1..(i - 1) /\ j - 1 \in 1..(Len(q) - 1) /\ r[j - 1] = q[j]
      BY <1>1, <2>2, <2>3
    <2> QED BY <2>0, <2>2, <2>4
  <1>4. ASSUME NEW m \in Nat, Whole(q, n, m) PROVE Whole(r, n2, m)
    <2> SUFFICES ASSUME NEW l \in n2..(m - 1) PROVE \E i \in 1..Len(r) : r[i] = Chunk(l)
      BY DEF Whole
    <2>1. l \in n..(m - 1) /\ l # h BY <1>2
    <2>2. PICK i \in 1..Len(q) : q[i] = Chunk(l) BY <1>4, <2>1 DEF Whole
    <2>3. i # 1 BY <1>1, <2>1, <2>2 DEF Chunk
    <2>4. i - 1 \in 1..(Len(q) - 1) /\ r[i - 1] = q[i] BY <1>1, <2>2, <2>3
    <2> QED BY <1>1, <2>2, <2>4
  <1> QED BY <1>2, <1>3, <1>4 DEF r

LEMMA ChunkGone ==
    ASSUME NEW q \in Seq(Message), q # <<>>
    PROVE  /\ StartIn(Tail(q)) => StartIn(q)
           /\ EndIn(Tail(q)) => EndIn(q)
           /\ NoTransfer(q) => NoTransfer(Tail(q))
           /\ StartFirst(q) => StartFirst(Tail(q))
           /\ \A n \in Nat : Below(q, n) => Below(Tail(q), n)
           /\ StartFirst(q) /\ Head(q).type \in {"file_start", "file_chunk"} => ~StartIn(Tail(q))
  <1> DEFINE r == Tail(q)
  <1>1. /\ Len(q) \in Nat /\ Len(q) >= 1 /\ Len(r) = Len(q) - 1 /\ q[1] = Head(q)
        /\ \A i \in 1..(Len(q) - 1) : r[i] = q[i + 1]
    BY Tail1
  <1> HIDE DEF r
  <1>2. \A i \in 1..Len(r) : i + 1 \in 1..Len(q) /\ r[i] = q[i + 1] BY <1>1
  <1>3. (StartIn(r) => StartIn(q)) /\ (EndIn(r) => EndIn(q)) /\ (NoTransfer(q) => NoTransfer(r))
    BY <1>2 DEF StartIn, EndIn, NoTransfer
  <1>4. ASSUME StartFirst(q) PROVE StartFirst(r)
    <2> SUFFICES ASSUME NEW i \in 1..Len(r), r[i].type = "file_start",
                        NEW j \in 1..Len(r), r[j].type \in {"file_start", "file_chunk"}
                 PROVE  j >= i
      BY DEF StartFirst
    <2>1. j + 1 >= i + 1 BY <1>2, <1>4 DEF StartFirst
    <2> QED BY <1>1, <2>1
  <1>5. \A n \in Nat : Below(q, n) => Below(r, n) BY <1>2 DEF Below
  <1>6. ASSUME StartFirst(q), Head(q).type \in {"file_start", "file_chunk"}, NEW i \in 1..Len(r),
               r[i].type = "file_start"
        PROVE  FALSE
    <2>1. 1 >= i + 1 BY <1>1, <1>2, <1>6 DEF StartFirst
    <2> QED BY <1>1, <2>1
  <1> QED BY <1>3, <1>4, <1>5, <1>6 DEF r, StartIn

-----------------------------------------------------------------------------
(* The inductive invariant *)

Early == phase \in {"new", "waiting", "starting"}

\* The transfer starts once, with the first key; what the sender is done with
\* has been read to its end.
Phased ==
    /\ ~sSecret => phase \in {"new", "waiting", "exited"}
    /\ Early => ~open /\ nextS = 0
    /\ phase \in {"draining", "lingering"} => nextS = NumChunks

\* A receiver that does not run has no messages waiting; it keeps the file only
\* after the sender has reported success.
Ended ==
    /\ status # "running" => \A p \in Paths : toR[p] = <<>> /\ "R" \notin joined[p]
    /\ status = "new" => ~open
    /\ closing \/ status = "saved" => sent

\* The copy is the first chunks of the file; none waits out of its turn.
Copied ==
    /\ file = [i \in 1..nextR |-> i - 1] /\ buffer = {} /\ received = 0..(nextR - 1)
    /\ nextR <= nextS
    /\ ~open => nextR = 0

\* Acknowledgements, on their way or taken, are of chunks that were written.
AcksTrue ==
    /\ \A p \in Paths : AcksBelow(toS[p], nextR)
    /\ \A k \in (0..(nextS - 1)) \ pending : k < nextR

\* Only the path of the transfer carries it, and the chunks that were sent; the
\* start is first, and the end is there only with the report.
OneWay ==
    /\ \A p \in Paths : Early \/ p # path => NoTransfer(toR[p])
    /\ StartFirst(toR[path])
    /\ StartIn(toR[path]) => ~open
    /\ \A p \in Paths : Below(toR[p], nextS) /\ (EndIn(toR[p]) => sent)

\* A receiver that has, or will have, the start of the file has or will have
\* every chunk of it in order, unless the sender's end is lost.
InOrder ==
    status = "running" /\ (open \/ StartIn(toR[path])) =>
        /\ "R" \in joined[path]
        /\ InStep(toR[path], nextR)
        /\ phase # "exited" => Whole(toR[path], nextR, nextS)

IInv == TypeOK /\ Phased /\ Ended /\ Copied /\ AcksTrue /\ OneWay /\ InOrder

-----------------------------------------------------------------------------
(* Types *)

SenderTyped ==
    /\ phase \in Phases /\ sSecret \in BOOLEAN /\ useLocal \in BOOLEAN /\ path \in Paths
    /\ nextS \in 0..NumChunks /\ pending \subseteq 0..(nextS - 1)
    /\ retries \in [Chunks -> 0..MaxRetries] /\ sent \in BOOLEAN

ReceiverTyped ==
    /\ status \in Statuses /\ key \in {"none", "telling", "done"} /\ open \in BOOLEAN
    /\ received \subseteq Chunks /\ buffer \subseteq Chunks /\ nextR \in 0..NumChunks
    /\ file \in Seq(Chunks) /\ closing \in BOOLEAN

Joins == [Paths -> SUBSET {"S", "R"}]

LEMMA TypeParts ==
    TypeOK <=> /\ joined \in Joins /\ toS \in Queues /\ toR \in Queues
               /\ SenderTyped /\ ReceiverTyped
  BY DEF TypeOK, Joins, Queues, SenderTyped, ReceiverTyped

LEMMA ExitsType ==
    ASSUME TypeOK
    PROVE  /\ SenderExits => joined' \in Joins /\ toS' \in Queues /\ toR' \in Queues
                             /\ phase' \in Phases
           /\ \A how \in Statuses, q \in Queues : ReceiverExits(how, q) =>
                 joined' \in Joins /\ toS' \in Queues /\ toR' \in Queues /\ status' = how
  <1>1. Msg("peer_disconnected") \in Message BY Messages DEF Plain
  <1>2. <<>> \in Seq(Message) OBVIOUS
  <1>3. joined \in Joins /\ toR \in Queues /\ "global" \in Paths BY TypeParts DEF Paths
  <1>4. SenderExits => joined' \in Joins /\ toS' \in Queues /\ toR' \in Queues /\ phase' \in Phases
    <2> SUFFICES ASSUME SenderExits
                 PROVE  joined' \in Joins /\ toS' \in Queues /\ toR' \in Queues /\ phase' \in Phases
      OBVIOUS
    <2>1. toR' \in Queues BY <1>1, <1>3, Relayed DEF SenderExits
    <2>2. joined' \in Joins BY <1>3 DEF SenderExits, Joins
    <2> QED BY <1>2, <2>1, <2>2 DEF SenderExits, Queues, Phases
  <1>5. ASSUME NEW how \in Statuses, NEW q \in Queues, ReceiverExits(how, q)
        PROVE  joined' \in Joins /\ toS' \in Queues /\ toR' \in Queues /\ status' = how
    <2>1. toS' \in Queues BY <1>1, <1>3, <1>5, Relayed DEF ReceiverExits
    <2>2. joined' \in Joins BY <1>3, <1>5 DEF ReceiverExits, Joins
    <2> QED BY <1>2, <1>5, <2>1, <2>2 DEF ReceiverExits, Queues
  <1> QED BY <1>4, <1>5

LEMMA SenderSide ==
    ASSUME TypeOK, SenderReads \/ Transfer \/ SenderDies \/ SenderJoins
    PROVE  SenderTyped' /\ UNCHANGED receiver
  <1> USE TypeParts, TransferConstants DEF SenderTyped, Phases, receiver
  <1>1. CASE SenderGreets BY <1>1 DEF SenderGreets, sender
  <1>2. CASE SenderGetsKey BY <1>2 DEF SenderGetsKey
  <1>3. CASE SenderGetsAddresses BY <1>3 DEF SenderGetsAddresses
  <1>4. ASSUME NEW p \in Paths, SenderGetsAck(p) \/ SenderGetsReceipt(p) \/ SenderQuits(p)
        PROVE  SenderTyped' /\ UNCHANGED receiver
    BY <1>4 DEF SenderGetsAck, SenderGetsReceipt, SenderQuits, SenderExits, sender
  <1>5. CASE StartTransfer BY <1>5 DEF StartTransfer, Paths
  <1>6. CASE SendChunk
    <2>1. nextS' \in 0..NumChunks /\ pending' \subseteq 0..(nextS' - 1) BY <1>6 DEF SendChunk
    <2> QED BY <1>6, <2>1 DEF SendChunk
  <1>7. CASE EndOfFile \/ Finish \/ LingeringEnds \/ SenderGivesUp
    BY <1>7 DEF EndOfFile, Finish, LingeringEnds, SenderGivesUp, SenderExits
  <1>8. ASSUME NEW k \in Chunks, Retransmit(k) PROVE SenderTyped' /\ UNCHANGED receiver
    BY <1>8 DEF Retransmit
  <1>9. CASE SenderDies BY <1>9 DEF SenderDies
  <1>10. CASE SenderJoins BY <1>10 DEF SenderJoins
  <1> QED BY <1>1, <1>2, <1>3, <1>4, <1>5, <1>6, <1>7, <1>8, <1>9, <1>10 DEF SenderReads, Transfer

LEMMA SenderQueues ==
    ASSUME TypeOK, SenderReads \/ Transfer \/ SenderDies \/ SenderJoins
    PROVE  joined' \in Joins /\ toS' \in Queues /\ toR' \in Queues
  <1> DEFINE Typed == joined' \in Joins /\ toS' \in Queues /\ toR' \in Queues
  <1>0. joined \in Joins /\ toS \in Queues /\ toR \in Queues /\ path \in Paths /\ path' \in Paths
        /\ "global" \in Paths /\ "local" \in Paths
    BY SenderSide, TypeParts DEF SenderTyped, Paths
  <1>1. \A t \in Plain : Msg(t) \in Message BY Messages
  <1>2. CASE SenderGreets
    BY <1>0, <1>1, <1>2, Taken, Relayed DEF SenderGreets, AtS, Plain
  <1>3. CASE SenderGetsKey BY <1>0, <1>3, Taken DEF SenderGetsKey, AtS
  <1>4. CASE SenderGetsAddresses
    <2>1. joined' \in Joins BY <1>0, <1>4 DEF SenderGetsAddresses, Joins
    <2> QED BY <1>0, <1>4, <2>1, Taken DEF SenderGetsAddresses, AtS
  <1>5. ASSUME NEW p \in Paths, SenderGetsAck(p) \/ SenderGetsReceipt(p) PROVE Typed
    BY <1>0, <1>5, Taken DEF SenderGetsAck, SenderGetsReceipt, AtS
  <1>6. CASE SenderExits BY <1>6, ExitsType
  <1>7. CASE StartTransfer BY <1>0, <1>1, <1>7, Relayed DEF StartTransfer, Plain
  <1>8. ASSUME NEW k \in Chunks, toR' = ToR(path, Chunk(k), toR), UNCHANGED <<joined, toS>>
        PROVE  Typed
    BY <1>0, <1>8, Messages, Relayed
  <1>9. CASE SendChunk
    <2>1. nextS \in Chunks BY <1>9, TypeParts, TransferConstants DEF SendChunk, SenderTyped, Chunks
    <2> QED BY <1>8, <1>9, <2>1 DEF SendChunk
  <1>10. CASE EndOfFile BY <1>0, <1>10 DEF EndOfFile
  <1>11. CASE Finish BY <1>0, <1>1, <1>11, Relayed DEF Finish, Plain
  <1>12. CASE SenderDies
    <2>1. PICK q \in Cut(toR) : toR' = ToR("global", Msg("peer_disconnected"), q)
      BY <1>12 DEF SenderDies
    <2>2. toR' \in Queues BY <1>0, <1>1, <2>1, CutType, Relayed DEF Plain
    <2>3. joined' \in Joins /\ toS' \in Queues BY <1>0, <1>12 DEF SenderDies, Joins, Queues
    <2> QED BY <2>2, <2>3
  <1>13. CASE SenderJoins
    <2>1. joined' \in Joins BY <1>0, <1>13 DEF SenderJoins, Joins
    <2>2. <<Msg("joined")>> \in Seq(Message) /\ <<Msg("joined"), Msg("peers")>> \in Seq(Message)
          /\ Msg("peers") \in Message
      BY <1>1 DEF Plain
    <2>3. toS' \in Queues
      <3>1. PICK q \in Seq(Message) : toS' = [toS EXCEPT !["global"] = q]
        BY <1>13, <2>2 DEF SenderJoins
      <3> QED BY <1>0, <3>1 DEF Queues
    <2>4. toR' = ToR("global", Msg("peers"), toR) BY <1>13 DEF SenderJoins, ToR
    <2>5. toR' \in Queues BY <1>0, <2>2, <2>4, Relayed
    <2> QED BY <2>5, <2>1, <2>3, <2>4
  <1> QED
    BY <1>2, <1>3, <1>4, <1>5, <1>6, <1>7, <1>8, <1>9, <1>10, <1>11, <1>12, <1>13
       DEF SenderReads, Transfer, SenderQuits, LingeringEnds, SenderGivesUp, Retransmit

\* What a chunk does to the copy, when none waits out of its turn.
LEMMA ChunkCopied ==
    ASSUME ReceiverTyped, Copied, NEW k \in Chunks, k <= nextR, nextR < nextS \/ k < nextR,
           nextS \in 0..NumChunks,
           IF k \in received THEN UNCHANGED <<received, buffer, nextR, file>> ELSE Take(k)
    PROVE  /\ nextR' = IF k = nextR THEN nextR + 1 ELSE nextR
           /\ k < nextR' /\ nextR' <= nextS /\ nextR' \in Nat
           /\ file' = [i \in 1..nextR' |-> i - 1] /\ buffer' = {} /\ received' = 0..(nextR' - 1)
           /\ file' \in Seq(Chunks)
  <1>0. /\ NumChunks \in Nat /\ nextR \in 0..NumChunks /\ k \in 0..(NumChunks - 1) /\ nextS \in Nat
        /\ file = [i \in 1..nextR |-> i - 1] /\ buffer = {} /\ received = 0..(nextR - 1)
        /\ nextR <= nextS
    BY TransferConstants DEF ReceiverTyped, Copied, Chunks
  <1>1. CASE k \in received
    <2>1. k < nextR BY <1>0, <1>1
    <2> QED BY <1>0, <1>1, <2>1 DEF ReceiverTyped
  <1>2. CASE k \notin received
    <2>1. k = nextR /\ nextR < NumChunks /\ Take(k) BY <1>0, <1>2
    <2>2. AfterRun(k + 1) = k + 1
      <3> DEFINE P(n) == n \notin buffer /\ \A i \in (k + 1)..(n - 1) : i \in buffer
      <3>1. k + 1 \in (k + 1)..NumChunks /\ P(k + 1) BY <1>0, <2>1
      <3>2. \A n \in (k + 1)..NumChunks : P(n) => n = k + 1
        <4> SUFFICES ASSUME NEW n \in (k + 1)..NumChunks, P(n), n # k + 1 PROVE FALSE OBVIOUS
        <4>1. k + 1 \in (k + 1)..(n - 1) BY <1>0
        <4> QED BY <1>0, <4>1
      <3> QED BY <3>1, <3>2 DEF AfterRun
    <2>3. nextR' = k + 1 /\ received' = received \cup {k} BY <2>1, <2>2 DEF Take
    <2>4. buffer' = {} BY <1>0, <2>1 DEF Take
    <2>5. file' = file \o [i \in 1..1 |-> k + i - 1] BY <1>0, <2>1, <2>3 DEF Take
    <2>6. file' = [i \in 1..(k + 1) |-> i - 1]
      <3> DEFINE one == [i \in 1..1 |-> k + i - 1]
      <3>1. one \in Seq(Nat) /\ Len(one) = 1 /\ one[1] = k
        <4>1. one \in [1..1 -> Nat] BY <1>0
        <4> QED BY <1>0, <4>1
      <3>2. file \in Seq(Nat) /\ Len(file) = k /\ \A i \in 1..k : file[i] = i - 1
        <4>1. file \in [1..k -> Nat] BY <1>0, <2>1
        <4> QED BY <1>0, <2>1, <4>1
      <3> HIDE DEF one
      <3>3. k \in Nat BY <1>0
      <3>4. /\ file \o one \in [1..(k + 1) -> Nat]
            /\ \A i \in 1..(k + 1) : (file \o one)[i] = IF i <= k THEN file[i] ELSE one[i - k]
        <4>1. /\ file \o one \in Seq(Nat) /\ Len(file \o one) = Len(file) + Len(one)
              /\ \A i \in 1..(Len(file) + Len(one)) :
                    (file \o one)[i] = IF i <= Len(file) THEN file[i] ELSE one[i - Len(file)]
          BY <3>1, <3>2, ConcatProperties, Zenon
        <4>2. file \o one \in [1..Len(file \o one) -> Nat] BY <4>1, LenProperties, Zenon
        <4> QED BY <3>1, <3>2, <4>1, <4>2
      <3>5. \A i \in 1..(k + 1) : (file \o one)[i] = i - 1
        <4> SUFFICES ASSUME NEW i \in 1..(k + 1) PROVE (file \o one)[i] = i - 1 OBVIOUS
        <4>1. CASE i <= k BY <3>2, <3>3, <3>4, <4>1
        <4>2. CASE i = k + 1
          <5>1. i - k = 1 /\ i - 1 = k /\ ~(i <= k) BY <3>3, <4>2
          <5> QED BY <3>1, <3>4, <5>1
        <4>3. i <= k \/ i = k + 1 BY <3>3
        <4> QED BY <4>1, <4>2, <4>3
      <3>6. file \o one = [i \in 1..(k + 1) |-> i - 1] BY <3>3, <3>4, <3>5
      <3> QED BY <2>5, <3>6 DEF one
    <2>7. file' \in Seq(Chunks)
      <3>1. \A i \in 1..(k + 1) : i - 1 \in Chunks BY <1>0, <2>1 DEF Chunks
      <3>2. k + 1 \in Nat BY <1>0
      <3> QED BY <2>6, <3>1, <3>2
    <2>8. received' = 0..k BY <1>0, <2>1, <2>3
    <2> QED BY <1>0, <2>1, <2>3, <2>4, <2>6, <2>7, <2>8
  <1> QED BY <1>1, <1>2

LEMMA ReceiverSide ==
    ASSUME TypeOK, ReceiverJoins \/ ReceiverDies \/ MainLoop \/ LocalReader \/ ReceiverGivesUp
    PROVE  /\ joined' \in Joins /\ toS' \in Queues /\ toR' \in Queues
           /\ SenderTyped' /\ UNCHANGED sender
           /\ status' \in Statuses /\ key' \in {"none", "telling", "done"}
           /\ open' \in BOOLEAN /\ closing' \in BOOLEAN
  <1> DEFINE Typed == /\ joined' \in Joins /\ toS' \in Queues /\ toR' \in Queues
                      /\ UNCHANGED sender
                      /\ status' \in Statuses /\ key' \in {"none", "telling", "done"}
                      /\ open' \in BOOLEAN /\ closing' \in BOOLEAN
  <1> SUFFICES Typed BY TypeParts DEF SenderTyped, sender
  <1>0. /\ joined \in Joins /\ toS \in Queues /\ toR \in Queues
        /\ "global" \in Paths /\ "local" \in Paths
        /\ status \in Statuses /\ key \in {"none", "telling", "done"}
        /\ open \in BOOLEAN /\ closing \in BOOLEAN
    BY TypeParts DEF ReceiverTyped, Paths
  <1>1. \A t \in Plain : Msg(t) \in Message BY Messages
  <1>2. /\ \A p \in Paths : \A m \in Message : ToS(p, m, toS) \in Queues
        /\ \A p \in Paths : toR[p] # <<>> => TakenR(p) \in Queues
    BY <1>0, Relayed, Taken
  <1>3. CASE ReceiverJoins
    <2>1. joined' \in Joins BY <1>0, <1>3 DEF ReceiverJoins, Joins
    <2>2. <<Msg("joined")>> \in Seq(Message) /\ <<Msg("joined"), Msg("peers")>> \in Seq(Message)
          /\ Msg("peers") \in Message
      BY <1>1 DEF Plain
    <2>3. PICK q \in Seq(Message) : toR' = [toR EXCEPT !["global"] = q]
      BY <1>3, <2>2 DEF ReceiverJoins
    <2>4. toR' \in Queues BY <1>0, <2>3 DEF Queues
    <2>5. toS' = ToS("global", Msg("peers"), toS) BY <1>3 DEF ReceiverJoins, ToS
    <2>6. toS' \in Queues BY <1>0, <1>2, <2>2, <2>5
    <2> QED BY <1>0, <1>3, <2>1, <2>4, <2>6 DEF ReceiverJoins, Statuses
  <1>4. CASE ReceiverDies
    <2>1. PICK q \in Cut(toS) : ReceiverExits("failed", q) BY <1>4 DEF ReceiverDies
    <2>2. q \in Queues BY <1>0, <2>1, CutType
    <2>3. joined' \in Joins /\ toS' \in Queues /\ toR' \in Queues /\ status' = "failed"
      BY <2>1, <2>2, ExitsType DEF Statuses
    <2> QED BY <1>0, <1>4, <2>3 DEF ReceiverDies, Statuses
  <1>5. CASE ReceiverGreets
    BY <1>0, <1>1, <1>2, <1>5 DEF ReceiverGreets, AtLoop, AtR, Plain, receiver
  <1>6. CASE ReceiverGetsKey
    BY <1>0, <1>1, <1>2, <1>6 DEF ReceiverGetsKey, AtLoop, AtR, Plain
  <1>7. CASE ReceiverJoinsLocal
    <2>1. joined' \in Joins BY <1>0, <1>7 DEF ReceiverJoinsLocal, Joins
    <2> QED BY <1>0, <1>7, <2>1 DEF ReceiverJoinsLocal
  <1>8. ASSUME NEW how \in Statuses, NEW q \in Queues, ReceiverExits(how, q),
               UNCHANGED <<sender, key, open>>, closing' \in BOOLEAN
        PROVE  Typed
    BY <1>0, <1>8, ExitsType
  <1>9. CASE ReceiverLeaves BY <1>0, <1>8, <1>9 DEF ReceiverLeaves, Statuses
  <1>10. ASSUME NEW p \in Paths, ReceiverStarts(p) PROVE Typed
    <2>1. toR[p] # <<>> /\ ToS(p, Msg("transfer_cancelled"), toS) \in Queues
      BY <1>1, <1>2, <1>10 DEF ReceiverStarts, AtReader, AtR, Plain
    <2>2. \/ /\ toR' = TakenR(p) /\ open' \in BOOLEAN
             /\ UNCHANGED <<joined, toS, status, key, closing>>
          \/ /\ ReceiverExits("cancelled", ToS(p, Msg("transfer_cancelled"), toS))
             /\ UNCHANGED <<key, open, closing>>
      BY <1>0, <1>10 DEF ReceiverStarts, receiver
    <2> QED BY <1>0, <1>2, <1>8, <1>10, <2>1, <2>2 DEF ReceiverStarts, Statuses
  <1>11. ASSUME NEW p \in Paths, ReceiverGetsChunk(p) PROVE Typed
    <2>1. toR[p] # <<>> /\ Head(toR[p]) \in Message /\ Head(toR[p]).type = "file_chunk"
      BY <1>0, <1>11, Tail1 DEF ReceiverGetsChunk, AtReader, AtR, Queues
    <2>2. Head(toR[p]).chunk \in Chunks BY <2>1, Messages
    <2>3. ToS(p, Ack(Head(toR[p]).chunk), toS) \in Queues BY <1>2, <2>2, Messages
    <2>4. toS' \in {toS, ToS(p, Ack(Head(toR[p]).chunk), toS)} BY <1>11 DEF ReceiverGetsChunk
    <2> QED BY <1>0, <1>2, <1>11, <2>1, <2>3, <2>4 DEF ReceiverGetsChunk
  <1>12. ASSUME NEW p \in Paths, ReceiverGetsEnd(p) PROVE Typed
    <2>1. toR[p] # <<>> /\ ToS(p, Msg("transfer_received"), toS) \in Queues
      BY <1>1, <1>2, <1>12 DEF ReceiverGetsEnd, AtReader, AtR, Plain
    <2>2. CASE UNCHANGED <<joined, toS, status>>
      <3>1. closing' \in BOOLEAN BY <1>0, <1>12 DEF ReceiverGetsEnd
      <3>2. toR' = TakenR(p) \/ ReceiverExits("saved", ToS(p, Msg("transfer_received"), toS))
        BY <1>12 DEF ReceiverGetsEnd
      <3> QED BY <1>0, <1>2, <1>8, <1>12, <2>1, <2>2, <3>1, <3>2 DEF ReceiverGetsEnd, Statuses
    <2>3. CASE ReceiverExits("saved", ToS(p, Msg("transfer_received"), toS)) /\ UNCHANGED closing
      BY <1>0, <1>8, <1>12, <2>1, <2>3 DEF ReceiverGetsEnd, Statuses
    <2> QED BY <1>12, <2>2, <2>3 DEF ReceiverGetsEnd
  <1>13. CASE ReceiverCloses
    BY <1>0, <1>1, <1>2, <1>8, <1>13 DEF ReceiverCloses, Statuses, Plain
  <1>14. CASE ReceiverGivesUp
    BY <1>0, <1>8, <1>14 DEF ReceiverGivesUp, Statuses
  <1> QED
    BY <1>0, <1>3, <1>4, <1>5, <1>6, <1>7, <1>9, <1>10, <1>11, <1>12, <1>13, <1>14
       DEF MainLoop, LocalReader, ReceiverReads

-----------------------------------------------------------------------------
(* The steps that carry nothing of the transfer *)

\* What the receiver has done stays, and no message of the transfer is sent or
\* read.
LEMMA QuietStep ==
    ASSUME IInv, path' \in Paths,
           UNCHANGED <<path, nextS, sent, open, received, buffer, nextR, file>>,
           \A p \in Paths : Trimmed(toR[p], toR'[p]) /\ AcksKept(toS[p], toS'[p]),
           \A k \in pending \ pending' : k < nextR,
           Early' => Early,
           status' = "running" => \/ status = "new"
                                  \/ /\ status = "running"
                                     /\ "R" \in joined[path] => "R" \in joined'[path],
           status' = "running" /\ phase' # "exited" =>
               phase # "exited" /\ \A p \in Paths : Kept(toR[p], toR'[p])
    PROVE  Copied' /\ AcksTrue' /\ OneWay' /\ InOrder'
  <1>0. /\ nextS \in Nat /\ nextR \in Nat /\ path \in Paths
    BY TransferConstants, TypeParts DEF IInv, SenderTyped, ReceiverTyped
  <1>1. Copied' BY DEF IInv, Copied
  <1>2. AcksTrue'
    <2>1. \A p \in Paths : AcksBelow(toS'[p], nextR) BY <1>0 DEF IInv, AcksTrue, AcksKept
    <2>2. \A k \in (0..(nextS - 1)) \ pending' : k < nextR BY DEF IInv, AcksTrue
    <2>3. /\ AcksTrue' <=> /\ \A p \in Paths : AcksBelow(toS'[p], nextR')
                           /\ \A k \in (0..(nextS' - 1)) \ pending' : k < nextR'
      BY DEF AcksTrue, AcksBelow
    <2> QED BY <2>1, <2>2, <2>3
  <1>3. OneWay'
    <2>1. \A p \in Paths : Early' \/ p # path => NoTransfer(toR'[p]) BY DEF IInv, OneWay, Trimmed
    <2>2. StartFirst(toR'[path]) /\ (StartIn(toR'[path]) => ~open)
      BY <1>0 DEF IInv, OneWay, Trimmed
    <2>3. \A p \in Paths : Below(toR'[p], nextS) /\ (EndIn(toR'[p]) => sent)
      BY <1>0 DEF IInv, OneWay, Trimmed
    <2>4. OneWay' <=> /\ \A p \in Paths : Early' \/ p # path' => NoTransfer(toR'[p])
                      /\ StartFirst(toR'[path'])
                      /\ StartIn(toR'[path']) => ~open'
                      /\ \A p \in Paths : Below(toR'[p], nextS') /\ (EndIn(toR'[p]) => sent')
      BY DEF OneWay, NoTransfer, StartFirst, StartIn, Below, EndIn
    <2> QED BY <2>1, <2>2, <2>3, <2>4
  <1>4. InOrder'
    <2> SUFFICES ASSUME status' = "running", open \/ StartIn(toR'[path])
                 PROVE  /\ "R" \in joined'[path]
                        /\ InStep(toR'[path], nextR)
                        /\ phase' # "exited" => Whole(toR'[path], nextR, nextS)
      BY DEF InOrder, StartIn, InStep, Whole, Chunk
    <2>1. open \/ StartIn(toR[path]) BY <1>0 DEF Trimmed
    <2>2. status # "new"
      <3>1. status = "new" => ~open /\ toR[path] = <<>> BY <1>0 DEF IInv, Ended
      <3>2. ~StartIn(<<>>) BY DEF StartIn
      <3> QED BY <2>1, <3>1, <3>2
    <2>3. /\ status = "running" /\ "R" \in joined[path] /\ InStep(toR[path], nextR)
          /\ phase # "exited" => Whole(toR[path], nextR, nextS)
      BY <2>1, <2>2 DEF IInv, InOrder
    <2> QED BY <1>0, <2>2, <2>3 DEF Trimmed, Kept
  <1> QED BY <1>1, <1>2, <1>3, <1>4

\* A relay forwards a message that is none of the transfer, or loses it.
LEMMA PlainRelayed ==
    ASSUME NEW q \in Queues, NEW p \in Paths, NEW m \in Message, m.type \notin TransferTypes
    PROVE  /\ \A r \in Paths : Kept(q[r], ToR(p, m, q)[r]) /\ Trimmed(q[r], ToR(p, m, q)[r])
           /\ m.type # "chunk_ack" => \A r \in Paths : AcksKept(q[r], ToS(p, m, q)[r])
  <1>1. \A r \in Paths : q[r] \in Seq(Message) BY DEF Queues
  <1>2. \A r \in Paths : \/ ToR(p, m, q)[r] = q[r]
                         \/ ToR(p, m, q)[r] = Append(q[r], m)
    BY DEF ToR, Queues
  <1>3. \A r \in Paths : \/ ToS(p, m, q)[r] = q[r]
                         \/ ToS(p, m, q)[r] = Append(q[r], m)
    BY DEF ToS, Queues
  <1>4. \A r \in Paths : Kept(q[r], ToR(p, m, q)[r]) BY <1>1, <1>2, KeptSame, AppendKept
  <1>5. m.type # "chunk_ack" => \A r \in Paths : AcksKept(q[r], ToS(p, m, q)[r])
    BY <1>1, <1>3, KeptSame, AcksAppended
  <1> QED BY <1>4, <1>5 DEF Kept

LEMMA PlainTypes ==
    \A t \in Plain \ TransferTypes : /\ Msg(t) \in Message /\ Msg(t).type \notin TransferTypes
                                     /\ Msg(t).type # "chunk_ack"
  BY Messages DEF Plain, TransferTypes

\* The sender or the receiver reads a message of a path.
LEMMA ReadQueue ==
    ASSUME TypeOK, NEW p \in Paths
    PROVE  /\ toS[p] # <<>> => \A r \in Paths : AcksKept(toS[r], TakenS(p)[r])
           /\ toR[p] # <<>> /\ Head(toR[p]).type # "file_chunk" =>
                 \A r \in Paths : Kept(toR[r], TakenR(p)[r])
  <1>1. \A r \in Paths : toS[r] \in Seq(Message) /\ toR[r] \in Seq(Message) BY DEF TypeOK
  <1> QED BY <1>1, Taken, KeptSame, AcksTail, TailKept

\* What the sender's exit leaves in the queues, and that of the receiver.
LEMMA SenderExitQueues ==
    ASSUME TypeOK, SenderExits
    PROVE  /\ \A p \in Paths : Trimmed(toR[p], toR'[p]) /\ AcksKept(toS[p], toS'[p])
           /\ phase' = "exited" /\ joined' = [p \in Paths |-> joined[p] \ {"S"}]
           /\ \A p \in Paths : toR[p] = <<>> /\ "R" \notin joined[p] => toR'[p] = <<>>
  <1>0. toR \in Queues /\ "global" \in Paths BY TypeParts DEF Paths
  <1>1. \A r \in Paths : Trimmed(toR[r], toR'[r])
    BY <1>0, PlainTypes, PlainRelayed DEF SenderExits, Plain, TransferTypes
  <1>2. \A p \in Paths : AcksKept(toS[p], toS'[p]) BY EmptyKept DEF SenderExits
  <1>3. \A p \in Paths : toR[p] = <<>> /\ "R" \notin joined[p] => toR'[p] = <<>>
    BY <1>0, PlainTypes, Relayed DEF SenderExits, Plain, TransferTypes
  <1> QED BY <1>1, <1>2, <1>3 DEF SenderExits

LEMMA ReceiverExitQueues ==
    ASSUME NEW how, NEW q \in Queues, joined \in Joins, ReceiverExits(how, q)
    PROVE  /\ \A p \in Paths : Trimmed(toR[p], toR'[p]) /\ AcksKept(q[p], toS'[p])
           /\ \A p \in Paths : toR'[p] = <<>> /\ "R" \notin joined'[p]
           /\ status' = how
  <1>1. \A p \in Paths : toR'[p] = <<>> BY DEF ReceiverExits
  <1>2. \A p \in Paths : "R" \notin joined'[p] BY DEF ReceiverExits, Joins, Paths
  <1>3. \A p \in Paths : AcksKept(q[p], toS'[p])
    BY PlainTypes, PlainRelayed DEF ReceiverExits, Plain, TransferTypes, Paths
  <1> QED BY <1>1, <1>2, <1>3, EmptyKept DEF ReceiverExits

-----------------------------------------------------------------------------
(* The steps of the sender *)

\* A step that only the sender's own state and the queues see.
LEMMA SenderQuiet ==
    ASSUME IInv, SenderReads \/ Transfer \/ SenderDies \/ SenderJoins,
           UNCHANGED <<path, nextS, sent>>,
           \A p \in Paths : Trimmed(toR[p], toR'[p]) /\ AcksKept(toS[p], toS'[p]),
           \A k \in pending \ pending' : k < nextR,
           Early' => Early,
           phase' \in {"draining", "lingering"} => nextS = NumChunks,
           ~sSecret' => phase' \in {"new", "waiting", "exited"},
           \A p \in Paths : "R" \in joined'[p] <=> "R" \in joined[p],
           \A p \in Paths : toR[p] = <<>> /\ "R" \notin joined[p] => toR'[p] = <<>>,
           phase' # "exited" => phase # "exited" /\ \A p \in Paths : Kept(toR[p], toR'[p])
    PROVE  IInv'
  <1>1. UNCHANGED receiver /\ TypeOK'
    <2>1. SenderTyped' /\ UNCHANGED receiver BY SenderSide DEF IInv
    <2>2. joined' \in Joins /\ toS' \in Queues /\ toR' \in Queues BY SenderQueues DEF IInv
    <2>3. ReceiverTyped' BY <2>1, TypeParts DEF IInv, receiver, ReceiverTyped
    <2>4. TypeOK' <=> /\ joined' \in Joins /\ toS' \in Queues /\ toR' \in Queues
                      /\ SenderTyped' /\ ReceiverTyped'
      BY DEF TypeOK, Joins, Queues, SenderTyped, ReceiverTyped
    <2> QED BY <2>1, <2>2, <2>3, <2>4
  <1>2. path \in Paths BY TypeParts DEF IInv, SenderTyped
  <1>3. Phased' BY <1>1 DEF IInv, Phased, receiver, Early
  <1>4. Ended' BY <1>1 DEF IInv, Ended, receiver
  <1>5. Copied' /\ AcksTrue' /\ OneWay' /\ InOrder' BY <1>1, <1>2, QuietStep DEF receiver
  <1> QED BY <1>1, <1>3, <1>4, <1>5 DEF IInv

LEMMA SenderReadsStep ==
    ASSUME IInv, SenderReads
    PROVE  IInv'
  <1>0. /\ toR \in Queues /\ toS \in Queues /\ "global" \in Paths /\ TypeOK
        /\ \A p \in Paths : Kept(toR[p], toR[p]) /\ Trimmed(toR[p], toR[p])
    BY KeptSame, TypeParts DEF IInv, Paths
  <1>1. CASE SenderGreets
    <2>1. toS["global"] # <<>> BY <1>1 DEF SenderGreets, AtS
    <2>2. \A p \in Paths : AcksKept(toS[p], toS'[p]) BY <1>0, <1>1, <2>1, ReadQueue DEF SenderGreets
    <2>3. \A p \in Paths : Kept(toR[p], toR'[p]) /\ Trimmed(toR[p], toR'[p])
      BY <1>0, <1>1, PlainTypes, PlainRelayed DEF SenderGreets, Plain, TransferTypes
    <2>4. \A p \in Paths : toR[p] = <<>> /\ "R" \notin joined[p] => toR'[p] = <<>>
      BY <1>0, <1>1 DEF SenderGreets, ToR, Queues
    <2>5. phase # "exited" /\ UNCHANGED <<joined, sender>> BY <1>1 DEF SenderGreets, AtS
    <2> QED BY <2>2, <2>3, <2>4, <2>5, SenderQuiet DEF sender, Early, IInv, Phased
  <1>2. CASE SenderGetsKey
    <2>1. toS["global"] # <<>> /\ phase \notin {"new", "exited"} BY <1>2 DEF SenderGetsKey, AtS
    <2>2. \A p \in Paths : AcksKept(toS[p], toS'[p]) BY <1>0, <1>2, <2>1, ReadQueue DEF SenderGetsKey
    <2>3. UNCHANGED <<joined, toR, path, nextS, pending, sent>> BY <1>2 DEF SenderGetsKey
    <2>4. /\ Early' => Early
          /\ phase' \in {"draining", "lingering"} => nextS = NumChunks
          /\ ~sSecret' => phase' \in {"new", "waiting", "exited"}
          /\ phase' # "exited"
      BY <1>2, <2>1 DEF SenderGetsKey, Early, IInv, Phased
    <2> QED BY <1>0, <2>1, <2>2, <2>3, <2>4, SenderQuiet
  <1>3. CASE SenderGetsAddresses
    <2>1. toS["global"] # <<>> /\ phase # "exited" BY <1>3 DEF SenderGetsAddresses, AtS
    <2>2. \A p \in Paths : AcksKept(toS[p], toS'[p])
      BY <1>0, <1>3, <2>1, ReadQueue DEF SenderGetsAddresses
    <2>3. UNCHANGED <<toR, phase, sSecret, path, nextS, pending, sent>> BY <1>3 DEF SenderGetsAddresses
    <2>4. \A p \in Paths : "R" \in joined'[p] <=> "R" \in joined[p]
      BY <1>3, TypeParts DEF SenderGetsAddresses, IInv, Joins
    <2> QED BY <1>0, <2>1, <2>2, <2>3, <2>4, SenderQuiet DEF Early, IInv, Phased
  <1>4. ASSUME NEW p \in Paths, SenderGetsAck(p) PROVE IInv'
    <2> DEFINE k == Head(toS[p]).chunk
    <2>1. toS[p] # <<>> /\ Head(toS[p]).type = "chunk_ack" /\ phase # "exited"
      BY <1>4 DEF SenderGetsAck, AtS
    <2>2. \A r \in Paths : AcksKept(toS[r], toS'[r]) BY <1>0, <1>4, <2>1, ReadQueue DEF SenderGetsAck
    <2>3. UNCHANGED <<joined, toR, phase, sSecret, path, nextS, sent>> BY <1>4 DEF SenderGetsAck
    <2>4. k < nextR
      <3>1. 1 \in 1..Len(toS[p]) /\ toS[p][1] = Head(toS[p])
        BY <1>0, <2>1, Tail1 DEF Queues
      <3> QED BY <2>1, <3>1 DEF IInv, AcksTrue, AcksBelow
    <2>5. \A i \in pending \ pending' : i < nextR BY <1>4, <2>4 DEF SenderGetsAck
    <2> QED BY <1>0, <2>1, <2>2, <2>3, <2>5, SenderQuiet DEF Early, IInv, Phased
  <1>5. ASSUME NEW p \in Paths, SenderGetsReceipt(p) PROVE IInv'
    <2>1. toS[p] # <<>> /\ phase # "exited" BY <1>5 DEF SenderGetsReceipt, AtS
    <2>2. \A r \in Paths : AcksKept(toS[r], toS'[r])
      BY <1>0, <1>5, <2>1, ReadQueue DEF SenderGetsReceipt
    <2>3. UNCHANGED <<joined, toR, sender>> BY <1>5 DEF SenderGetsReceipt
    <2> QED BY <1>0, <2>1, <2>2, <2>3, SenderQuiet DEF Early, IInv, Phased, sender
  <1>6. ASSUME NEW p \in Paths, SenderQuits(p) PROVE IInv'
    <2>1. SenderExits /\ UNCHANGED <<sSecret, path, nextS, pending, sent>> BY <1>6 DEF SenderQuits
    <2>2. \A r \in Paths : "R" \in joined'[r] <=> "R" \in joined[r]
      BY <1>0, <2>1, SenderExitQueues
    <2> QED BY <1>0, <2>1, <2>2, SenderExitQueues, SenderQuiet DEF Early, IInv, Phased
  <1> QED BY <1>1, <1>2, <1>3, <1>4, <1>5, <1>6 DEF SenderReads

LEMMA SenderJoinsStep ==
    ASSUME IInv, SenderJoins
    PROVE  IInv'
  <1>0. /\ toR \in Queues /\ toS \in Queues /\ "global" \in Paths /\ TypeOK
        /\ \A p \in Paths : Kept(toR[p], toR[p]) /\ Trimmed(toR[p], toR[p])
                            /\ AcksKept(toS[p], toS[p])
    BY KeptSame, TypeParts DEF IInv, Paths
  <1>1. phase = "new" /\ phase' = "waiting" /\ UNCHANGED <<sSecret, path, nextS, pending, sent>>
    BY DEF SenderJoins
  <1>2. toR' = ToR("global", Msg("peers"), toR) BY DEF SenderJoins, ToR
  <1>3. \A p \in Paths : Kept(toR[p], toR'[p]) /\ Trimmed(toR[p], toR'[p])
    BY <1>0, <1>2, PlainTypes, PlainRelayed DEF Plain, TransferTypes
  <1>4. \A p \in Paths : toR[p] = <<>> /\ "R" \notin joined[p] => toR'[p] = <<>>
    BY <1>0, <1>2 DEF ToR, Queues
  <1>5. \A p \in Paths : AcksKept(toS[p], toS'[p])
    <2>1. /\ AcksKept(toS["global"], <<Msg("joined"), Msg("peers")>>)
          /\ AcksKept(toS["global"], <<Msg("joined")>>)
      BY DEF AcksKept, AcksBelow, Msg
    <2>2. \A p \in Paths : \/ toS'[p] = toS[p]
                           \/ /\ p = "global"
                              /\ toS'[p] \in {<<Msg("joined"), Msg("peers")>>, <<Msg("joined")>>}
      BY <1>0 DEF SenderJoins, Queues
    <2> QED BY <1>0, <2>1, <2>2
  <1>6. \A p \in Paths : "R" \in joined'[p] <=> "R" \in joined[p]
    BY TypeParts DEF SenderJoins, IInv, Joins
  <1> QED BY <1>1, <1>3, <1>4, <1>5, <1>6, SenderQuiet DEF Early, IInv, Phased

LEMMA SenderDiesStep ==
    ASSUME IInv, SenderDies
    PROVE  IInv'
  <1>0. toR \in Queues /\ toS \in Queues /\ joined \in Joins /\ "global" \in Paths /\ TypeOK
    BY TypeParts DEF IInv, Paths
  <1>1. phase' = "exited" /\ UNCHANGED <<sSecret, path, nextS, pending, sent>> BY DEF SenderDies
  <1>2. PICK q \in Cut(toR) : toR' = ToR("global", Msg("peer_disconnected"), q) BY DEF SenderDies
  <1>3. /\ q \in Queues
        /\ \A p \in Paths : \E n \in 0..Len(toR[p]) : q[p] = SubSeq(toR[p], 1, n)
    BY <1>0, CutType
  <1>4. \A p \in Paths : Trimmed(toR[p], q[p]) BY <1>0, <1>3, SubSeqTrimmed DEF Queues
  <1>5. \A p \in Paths : Trimmed(q[p], toR'[p])
    BY <1>0, <1>2, <1>3, PlainTypes, PlainRelayed DEF Plain, TransferTypes
  <1>6. \A p \in Paths : Trimmed(toR[p], toR'[p]) BY <1>4, <1>5, TrimmedTwice
  <1>7. \A p \in Paths : toR[p] = <<>> /\ "R" \notin joined[p] => toR'[p] = <<>>
    <2>1. \A p \in Paths : toR[p] = <<>> => q[p] = <<>>
      <3> SUFFICES ASSUME NEW p \in Paths, toR[p] = <<>> PROVE q[p] = <<>> OBVIOUS
      <3>1. PICK n \in 0..Len(toR[p]) : q[p] = SubSeq(toR[p], 1, n) BY <1>3
      <3>2. n = 0 BY <3>1
      <3> QED BY <3>1, <3>2
    <2> QED BY <1>2, <1>3, <2>1 DEF ToR, Queues
  <1>8. \A p \in Paths : "R" \in joined'[p] <=> "R" \in joined[p] BY <1>0 DEF SenderDies, Joins
  <1>9. \A p \in Paths : AcksKept(toS[p], toS'[p]) BY EmptyKept DEF SenderDies
  <1> QED BY <1>1, <1>6, <1>7, <1>8, <1>9, SenderQuiet DEF Early, IInv, Phased

\* A step of the transfer changes the sender's state and the queue of its path.
LEMMA SenderSends ==
    ASSUME IInv, Transfer, UNCHANGED <<joined, toS>>, Phased',
           \A k \in (0..(nextS' - 1)) \ pending' : k < nextR,
           OneWay', InOrder', sent => sent', nextS <= nextS',
           \A p \in Paths : toR[p] = <<>> /\ "R" \notin joined[p] => toR'[p] = <<>>
    PROVE  IInv'
  <1>1. UNCHANGED receiver /\ TypeOK'
    <2>1. SenderTyped' /\ UNCHANGED receiver BY SenderSide DEF IInv
    <2>2. joined' \in Joins /\ toS' \in Queues /\ toR' \in Queues BY SenderQueues DEF IInv
    <2>3. ReceiverTyped' BY <2>1, TypeParts DEF IInv, receiver, ReceiverTyped
    <2>4. TypeOK' <=> /\ joined' \in Joins /\ toS' \in Queues /\ toR' \in Queues
                      /\ SenderTyped' /\ ReceiverTyped'
      BY DEF TypeOK, Joins, Queues, SenderTyped, ReceiverTyped
    <2> QED BY <2>1, <2>2, <2>3, <2>4
  <1>2. Ended' BY <1>1 DEF IInv, Ended, receiver
  <1>3. Copied'
    <2>1. nextR \in Nat /\ nextS \in Nat /\ nextS' \in Nat
      BY <1>1, TransferConstants DEF IInv, TypeOK
    <2> QED BY <1>1, <2>1 DEF IInv, Copied, receiver
  <1>4. AcksTrue' BY <1>1 DEF IInv, AcksTrue, AcksBelow, receiver
  <1> QED BY <1>1, <1>2, <1>3, <1>4 DEF IInv

LEMMA StartTransferStep ==
    ASSUME IInv, StartTransfer
    PROVE  IInv'
  <1> DEFINE start == Msg("file_start")
  <1>0. /\ toR \in Queues /\ path' \in Paths /\ \A p \in Paths : toR[p] \in Seq(Message)
        /\ start \in Message /\ start.type = "file_start"
        /\ Early /\ nextS = 0 /\ ~open /\ nextR \in Nat /\ nextR = 0 /\ ~Early'
    BY TypeParts, Messages, TransferConstants
       DEF IInv, StartTransfer, Paths, Plain, Early, Phased, Copied, ReceiverTyped, Queues
  <1> HIDE DEF start
  <1>1. \A p \in Paths : NoTransfer(toR[p]) BY <1>0 DEF IInv, OneWay
  <1>2. /\ toR' = ToR(path', start, toR) /\ phase' = "streaming"
        /\ UNCHANGED <<joined, toS, sSecret, nextS, pending, sent, receiver>>
    BY SenderSide DEF StartTransfer, start, IInv, Transfer
  <1>3. /\ \A p \in Paths \ {path'} : toR'[p] = toR[p]
        /\ toR'[path'] = IF "R" \in joined[path'] THEN Append(toR[path'], start) ELSE toR[path']
    BY <1>0, <1>2, Relayed
  <1>4. \A q \in Seq(Message) : NoTransfer(q) =>
           LET r == Append(q, start)
           IN  /\ StartFirst(r) /\ ~EndIn(r) /\ InStep(r, 0) /\ Below(r, 0)
    <2> SUFFICES ASSUME NEW q \in Seq(Message), NoTransfer(q),
                        NEW r, r = Append(q, start)
                 PROVE  StartFirst(r) /\ ~EndIn(r) /\ InStep(r, 0) /\ Below(r, 0)
      OBVIOUS
    <2>1. /\ Len(q) \in Nat /\ Len(r) = Len(q) + 1 /\ r[Len(q) + 1] = start
          /\ \A i \in 1..Len(q) : r[i] = q[i]
      BY <1>0, Append1
    <2>2. \A i \in 1..Len(r) : \/ r[i].type \notin {"file_start", "file_chunk", "file_end"}
                               \/ i = Len(q) + 1 /\ r[i] = start
      BY <2>1 DEF NoTransfer, TransferTypes
    <2> QED BY <1>0, <2>1, <2>2 DEF StartFirst, EndIn, InStep, Below
  <1>5. \A q \in Seq(Message) : NoTransfer(q) =>
           StartFirst(q) /\ ~StartIn(q) /\ ~EndIn(q) /\ InStep(q, 0) /\ Below(q, 0)
    BY DEF NoTransfer, TransferTypes, StartFirst, StartIn, EndIn, InStep, Below
  <1>6. Phased' BY <1>0, <1>2 DEF IInv, Phased, Early, receiver, StartTransfer
  <1>7. OneWay'
    <2>1. \A p \in Paths : p # path' => NoTransfer(toR'[p]) BY <1>1, <1>3
    <2>2. StartFirst(toR'[path']) /\ ~open' BY <1>0, <1>1, <1>2, <1>3, <1>4, <1>5 DEF receiver
    <2>3. \A p \in Paths : Below(toR'[p], 0) /\ ~EndIn(toR'[p])
      BY <1>0, <1>1, <1>3, <1>4, <1>5
    <2>4. OneWay' <=> /\ \A p \in Paths : Early' \/ p # path' => NoTransfer(toR'[p])
                      /\ StartFirst(toR'[path'])
                      /\ StartIn(toR'[path']) => ~open'
                      /\ \A p \in Paths : Below(toR'[p], nextS') /\ (EndIn(toR'[p]) => sent')
      BY DEF OneWay, NoTransfer, StartFirst, StartIn, Below, EndIn
    <2> QED BY <1>0, <1>2, <2>1, <2>2, <2>3, <2>4
  <1>8. InOrder'
    <2>1. /\ ~open' /\ nextR' = 0 /\ nextS' = 0 BY <1>0, <1>2 DEF receiver
    <2>2. InStep(toR'[path'], 0) BY <1>0, <1>1, <1>3, <1>4, <1>5
    <2>3. StartIn(toR'[path']) => "R" \in joined'[path'] BY <1>0, <1>1, <1>2, <1>3, <1>5
    <2>4. Whole(toR'[path'], 0, 0) BY DEF Whole
    <2>5. InOrder' <=> (status' = "running" /\ (open' \/ StartIn(toR'[path'])) =>
                           /\ "R" \in joined'[path']
                           /\ InStep(toR'[path'], nextR')
                           /\ phase' # "exited" => Whole(toR'[path'], nextR', nextS'))
      BY DEF InOrder, StartIn, InStep, Whole, Chunk
    <2> QED BY <2>1, <2>2, <2>3, <2>4, <2>5
  <1>9. \A k \in (0..(nextS' - 1)) \ pending' : k < nextR BY <1>2 DEF IInv, AcksTrue
  <1>10. \A p \in Paths : toR[p] = <<>> /\ "R" \notin joined[p] => toR'[p] = <<>> BY <1>0, <1>3
  <1>11. nextS <= nextS' BY <1>0, <1>2
  <1> QED BY <1>2, <1>6, <1>7, <1>8, <1>9, <1>10, <1>11, SenderSends DEF Transfer

\* A chunk that is sent, for the first time or again.
LEMMA ChunkSent ==
    ASSUME IInv, NEW k \in Chunks, toR' = ToR(path, Chunk(k), toR),
           UNCHANGED <<path, joined, receiver, sent, phase>>, phase \in {"streaming", "draining"},
           k <= nextS, k < nextS', nextS' = nextS \/ nextS' = k + 1, nextS <= nextS', nextS' \in Nat
    PROVE  OneWay' /\ InOrder'
  <1>0. /\ toR \in Queues /\ path \in Paths /\ \A p \in Paths : toR[p] \in Seq(Message)
        /\ nextR \in Nat /\ nextS \in Nat /\ k \in Nat /\ ~Early /\ ~Early'
        /\ Chunk(k) \in Message
    BY TypeParts, Messages, TransferConstants
       DEF IInv, Early, ReceiverTyped, SenderTyped, Queues, Chunks
  <1>1. /\ \A p \in Paths \ {path} : toR'[p] = toR[p]
        /\ toR'[path] \in {toR[path], Append(toR[path], Chunk(k))}
        /\ "R" \in joined[path] => toR'[path] = Append(toR[path], Chunk(k))
    BY <1>0, Relayed
  <1>2. \A p \in Paths : \A n \in Nat : Below(toR[p], nextS) => Below(toR[p], nextS')
    <2>1. \A p \in Paths : \A i \in 1..Len(toR[p]) : toR[p][i].type = "file_chunk" => toR[p][i].chunk \in Nat
      BY <1>0, Messages, TransferConstants DEF Chunks
    <2> QED BY <1>0, <2>1 DEF Below
  <1>3. OneWay'
    <2>1. \A p \in Paths : p # path => NoTransfer(toR'[p]) BY <1>0, <1>1 DEF IInv, OneWay
    <2>2. StartFirst(toR'[path]) BY <1>0, <1>1, ChunkNew DEF IInv, OneWay
    <2>3. StartIn(toR'[path]) => ~open BY <1>0, <1>1, ChunkNew DEF IInv, OneWay
    <2>4. \A p \in Paths : Below(toR'[p], nextS') /\ (EndIn(toR'[p]) => sent)
      BY <1>0, <1>1, <1>2, ChunkNew DEF IInv, OneWay
    <2>5. OneWay' <=> /\ \A p \in Paths : Early' \/ p # path' => NoTransfer(toR'[p])
                      /\ StartFirst(toR'[path'])
                      /\ StartIn(toR'[path']) => ~open'
                      /\ \A p \in Paths : Below(toR'[p], nextS') /\ (EndIn(toR'[p]) => sent')
      BY DEF OneWay, NoTransfer, StartFirst, StartIn, Below, EndIn
    <2> QED BY <1>0, <2>1, <2>2, <2>3, <2>4, <2>5 DEF receiver
  <1>4. InOrder'
    <2>1. ASSUME status = "running", open \/ StartIn(toR'[path])
          PROVE  /\ "R" \in joined[path] /\ InStep(toR'[path], nextR)
                 /\ Whole(toR'[path], nextR, nextS')
      <3>1. open \/ StartIn(toR[path]) BY <1>0, <1>1, <2>1, ChunkNew
      <3>2. /\ "R" \in joined[path] /\ InStep(toR[path], nextR) /\ Whole(toR[path], nextR, nextS)
        BY <2>1, <3>1 DEF IInv, InOrder
      <3>3. toR'[path] = Append(toR[path], Chunk(k)) BY <1>1, <3>2
      <3>4. /\ InStep(toR'[path], nextR) /\ Whole(toR'[path], nextR, nextS)
            /\ Whole(toR'[path], nextR, k + 1) \/ k # nextS
        BY <1>0, <3>2, <3>3, ChunkAppended
      <3>5. nextS' = nextS \/ (k = nextS /\ nextS' = k + 1) BY <1>0
      <3> QED BY <3>2, <3>4, <3>5
    <2>2. InOrder' <=> (status' = "running" /\ (open' \/ StartIn(toR'[path'])) =>
                           /\ "R" \in joined'[path']
                           /\ InStep(toR'[path'], nextR')
                           /\ phase' # "exited" => Whole(toR'[path'], nextR', nextS'))
      BY DEF InOrder, StartIn, InStep, Whole, Chunk
    <2> QED BY <2>1, <2>2 DEF receiver
  <1> QED BY <1>3, <1>4

LEMMA SendChunkStep ==
    ASSUME IInv, SendChunk
    PROVE  IInv'
  <1>0. /\ nextS \in Nat /\ NumChunks \in Nat /\ nextS < NumChunks /\ nextS' = nextS + 1
        /\ nextS \in Chunks /\ phase = "streaming"
    BY TypeParts, TransferConstants DEF IInv, SenderTyped, SendChunk, Chunks
  <1>1. /\ UNCHANGED <<joined, toS, phase, sSecret, path, sent, receiver>>
        /\ toR' = ToR(path, Chunk(nextS), toR)
    BY DEF SendChunk, receiver
  <1>2. OneWay' /\ InOrder' BY <1>0, <1>1, ChunkSent
  <1>3. Phased' BY <1>0, <1>1 DEF IInv, Phased, Early, receiver
  <1>4. \A k \in (0..(nextS' - 1)) \ pending' : k < nextR
    BY <1>0 DEF SendChunk, IInv, AcksTrue
  <1>5. \A p \in Paths : toR[p] = <<>> /\ "R" \notin joined[p] => toR'[p] = <<>>
    BY <1>1, TypeParts DEF ToR, IInv, Queues
  <1>6. nextS <= nextS' BY <1>0
  <1> QED BY <1>1, <1>2, <1>3, <1>4, <1>5, <1>6, SenderSends DEF Transfer

LEMMA RetransmitStep ==
    ASSUME IInv, NEW k \in Chunks, Retransmit(k)
    PROVE  IInv'
  <1>0. nextS \in Nat /\ nextS' = nextS /\ k < nextS /\ phase \in {"streaming", "draining"}
    BY TypeParts, TransferConstants DEF IInv, SenderTyped, Retransmit
  <1>1. /\ UNCHANGED <<joined, toS, phase, sSecret, path, sent, pending, receiver>>
        /\ toR' = ToR(path, Chunk(k), toR)
    BY DEF Retransmit, receiver
  <1>2. k <= nextS /\ nextS <= nextS' BY <1>0, TransferConstants DEF Chunks
  <1>3. OneWay' /\ InOrder' BY <1>0, <1>1, <1>2, ChunkSent
  <1>4. Phased' BY <1>0, <1>1 DEF IInv, Phased, Early, receiver
  <1>5. \A l \in (0..(nextS' - 1)) \ pending' : l < nextR BY <1>0, <1>1 DEF IInv, AcksTrue
  <1>6. \A p \in Paths : toR[p] = <<>> /\ "R" \notin joined[p] => toR'[p] = <<>>
    BY <1>1, TypeParts DEF ToR, IInv, Queues
  <1> QED BY <1>1, <1>2, <1>3, <1>4, <1>5, <1>6, SenderSends DEF Transfer

\* file_end behind the chunks.
LEMMA FinishStep ==
    ASSUME IInv, Finish
    PROVE  IInv'
  <1> DEFINE end == Msg("file_end")
  <1>0. /\ toR \in Queues /\ path \in Paths /\ \A p \in Paths : toR[p] \in Seq(Message)
        /\ end \in Message /\ end.type = "file_end"
        /\ phase = "draining" /\ phase' = "lingering" /\ ~Early /\ ~Early'
        /\ nextR \in Nat /\ nextS \in Nat /\ nextS = NumChunks
    BY TypeParts, Messages, TransferConstants
       DEF IInv, Finish, Early, Plain, Phased, SenderTyped, ReceiverTyped, Queues
  <1>1. /\ toR' = ToR(path, end, toR) /\ sent'
        /\ UNCHANGED <<joined, toS, sSecret, path, nextS, pending, receiver>>
    BY DEF Finish, receiver
  <1> HIDE DEF end
  <1>2. /\ \A p \in Paths \ {path} : toR'[p] = toR[p]
        /\ toR'[path] \in {toR[path], Append(toR[path], end)}
    BY <1>0, <1>1, Relayed
  <1>3. /\ StartIn(toR'[path]) => StartIn(toR[path])
        /\ StartFirst(toR[path]) => StartFirst(toR'[path])
        /\ InStep(toR[path], nextR) => InStep(toR'[path], nextR)
        /\ Below(toR[path], nextS) => Below(toR'[path], nextS)
        /\ Whole(toR[path], nextR, nextS) => Whole(toR'[path], nextR, nextS)
    <2>1. CASE toR'[path] = toR[path] BY <2>1
    <2>2. CASE toR'[path] = Append(toR[path], end)
      <3> DEFINE q == toR[path]
                 r == toR'[path]
      <3>1. /\ Len(q) \in Nat /\ Len(r) = Len(q) + 1 /\ r[Len(q) + 1] = end
            /\ \A i \in 1..Len(q) : r[i] = q[i]
        BY <1>0, <2>2, Append1
      <3> HIDE DEF q, r
      <3>2. \A i \in 1..Len(r) : i \in 1..Len(q) \/ (i = Len(q) + 1 /\ r[i] = end) BY <3>1
      <3>3. (StartIn(r) => StartIn(q)) /\ (StartFirst(q) => StartFirst(r))
        BY <1>0, <3>1, <3>2 DEF StartIn, StartFirst
      <3>4. InStep(q, nextR) => InStep(r, nextR)
        <4> SUFFICES ASSUME InStep(q, nextR), NEW i \in 1..Len(r), r[i].type = "file_chunk",
                            ~(r[i].chunk <= nextR)
                     PROVE  \E j \in 1..(i - 1) : r[j].type = "file_chunk" /\ r[j].chunk = r[i].chunk - 1
          BY DEF InStep
        <4>1. i \in 1..Len(q) /\ r[i] = q[i] BY <1>0, <3>1, <3>2
        <4>2. PICK j \in 1..(i - 1) : q[j].type = "file_chunk" /\ q[j].chunk = q[i].chunk - 1
          BY <4>1 DEF InStep
        <4>3. j \in 1..Len(q) BY <3>1, <4>1
        <4> QED BY <3>1, <4>1, <4>2, <4>3
      <3>5. Below(q, nextS) => Below(r, nextS) BY <1>0, <3>1, <3>2 DEF Below
      <3>6. Whole(q, nextR, nextS) => Whole(r, nextR, nextS) BY <3>1 DEF Whole
      <3> QED BY <3>3, <3>4, <3>5, <3>6 DEF q, r
    <2> QED BY <1>2, <2>1, <2>2
  <1>4. Phased' BY <1>0, <1>1 DEF IInv, Phased, Early, receiver
  <1>5. OneWay'
    <2>1. \A p \in Paths : p # path => NoTransfer(toR'[p]) BY <1>0, <1>2 DEF IInv, OneWay
    <2>2. StartFirst(toR'[path]) /\ (StartIn(toR'[path]) => ~open) BY <1>3 DEF IInv, OneWay
    <2>3. \A p \in Paths : Below(toR'[p], nextS) BY <1>0, <1>2, <1>3 DEF IInv, OneWay
    <2>4. OneWay' <=> /\ \A p \in Paths : Early' \/ p # path' => NoTransfer(toR'[p])
                      /\ StartFirst(toR'[path'])
                      /\ StartIn(toR'[path']) => ~open'
                      /\ \A p \in Paths : Below(toR'[p], nextS') /\ (EndIn(toR'[p]) => sent')
      BY DEF OneWay, NoTransfer, StartFirst, StartIn, Below, EndIn
    <2> QED BY <1>0, <1>1, <2>1, <2>2, <2>3, <2>4 DEF receiver
  <1>6. InOrder'
    <2>1. InOrder' <=> (status' = "running" /\ (open' \/ StartIn(toR'[path'])) =>
                           /\ "R" \in joined'[path']
                           /\ InStep(toR'[path'], nextR')
                           /\ phase' # "exited" => Whole(toR'[path'], nextR', nextS'))
      BY DEF InOrder, StartIn, InStep, Whole, Chunk
    <2> QED BY <1>0, <1>1, <1>3, <2>1 DEF IInv, InOrder, receiver
  <1>7. \A k \in (0..(nextS' - 1)) \ pending' : k < nextR BY <1>1 DEF IInv, AcksTrue
  <1>8. \A p \in Paths : toR[p] = <<>> /\ "R" \notin joined[p] => toR'[p] = <<>>
    BY <1>0, <1>1 DEF ToR, Queues
  <1>9. nextS <= nextS' BY <1>0, <1>1
  <1> QED BY <1>1, <1>4, <1>5, <1>6, <1>7, <1>8, <1>9, SenderSends DEF Transfer

LEMMA TransferStep ==
    ASSUME IInv, Transfer
    PROVE  IInv'
  <1>1. CASE EndOfFile
    <2>1. /\ phase = "streaming" /\ nextS = NumChunks /\ phase' = "draining"
          /\ UNCHANGED <<joined, toS, toR, sSecret, path, nextS, pending, sent>>
      BY <1>1 DEF EndOfFile
    <2> QED BY <2>1, KeptSame, SenderQuiet DEF Early, IInv, Phased
  <1>2. ASSUME SenderExits, UNCHANGED <<sSecret, path, nextS, pending, sent>> PROVE IInv'
    <2>1. \A r \in Paths : "R" \in joined'[r] <=> "R" \in joined[r]
      BY <1>2, SenderExitQueues DEF IInv
    <2> QED BY <1>2, <2>1, SenderExitQueues, SenderQuiet DEF Early, IInv, Phased
  <1> QED
    BY <1>1, <1>2, StartTransferStep, SendChunkStep, RetransmitStep, FinishStep
       DEF Transfer, LingeringEnds, SenderGivesUp

-----------------------------------------------------------------------------
(* The steps of the receiver *)

ReceiverStep == ReceiverJoins \/ ReceiverDies \/ MainLoop \/ LocalReader \/ ReceiverGivesUp

\* A step that leaves the copy as it is.
LEMMA ReceiverQuiet ==
    ASSUME IInv, ReceiverStep,
           UNCHANGED <<open, received, buffer, nextR, file>>,
           \A p \in Paths : Trimmed(toR[p], toR'[p]) /\ AcksKept(toS[p], toS'[p]),
           status' = "running" => /\ \A p \in Paths : Kept(toR[p], toR'[p])
                                  /\ \/ status = "new"
                                     \/ /\ status = "running"
                                        /\ \A p \in Paths : "R" \in joined[p] => "R" \in joined'[p],
           status' # "running" => \A p \in Paths : toR'[p] = <<>> /\ "R" \notin joined'[p],
           status' = "new" => status = "new",
           closing' \/ status' = "saved" => sent
    PROVE  IInv'
  <1>1. /\ joined' \in Joins /\ toS' \in Queues /\ toR' \in Queues /\ SenderTyped'
        /\ UNCHANGED sender
        /\ status' \in Statuses /\ key' \in {"none", "telling", "done"}
        /\ open' \in BOOLEAN /\ closing' \in BOOLEAN
    BY ReceiverSide DEF IInv, ReceiverStep
  <1>2. TypeOK'
    <2>1. ReceiverTyped' BY <1>1, TypeParts DEF IInv, ReceiverTyped
    <2>2. TypeOK' <=> /\ joined' \in Joins /\ toS' \in Queues /\ toR' \in Queues
                      /\ SenderTyped' /\ ReceiverTyped'
      BY DEF TypeOK, Joins, Queues, SenderTyped, ReceiverTyped
    <2> QED BY <1>1, <2>1, <2>2
  <1>3. Phased' BY <1>1 DEF IInv, Phased, Early, sender
  <1>4. Ended'
    <2>1. status' = "new" => ~open BY DEF IInv, Ended
    <2> QED BY <1>1, <2>1 DEF Ended, sender
  <1>5. path \in Paths BY TypeParts DEF IInv, SenderTyped
  <1>6. /\ path' \in Paths /\ UNCHANGED <<path, nextS, sent, pending, phase>> /\ (Early' => Early)
    BY <1>1, <1>5 DEF sender, Early
  <1>7. CASE phase = "exited" \/ status' # "running"
    BY <1>5, <1>6, <1>7, QuietStep, <1>2, <1>3, <1>4 DEF IInv
  <1>8. CASE phase # "exited" /\ status' = "running"
    BY <1>5, <1>6, <1>8, QuietStep, <1>2, <1>3, <1>4 DEF IInv
  <1> QED BY <1>7, <1>8

\* The receiver's process ends.
LEMMA ReceiverExitsStep ==
    ASSUME IInv, ReceiverStep, NEW how \in Statuses \ {"new", "running"}, NEW q \in Queues,
           ReceiverExits(how, q), \A p \in Paths : AcksKept(toS[p], q[p]),
           UNCHANGED <<open, received, buffer, nextR, file>>,
           closing' \/ how = "saved" => sent
    PROVE  IInv'
  <1>1. joined \in Joins BY TypeParts DEF IInv
  <1>2. \A p \in Paths : Trimmed(toR[p], toR'[p]) /\ AcksKept(q[p], toS'[p])
    BY <1>1, ReceiverExitQueues
  <1>3. /\ \A p \in Paths : toR'[p] = <<>> /\ "R" \notin joined'[p]
        /\ status' = how /\ status' # "running" /\ status' # "new"
    BY <1>1, ReceiverExitQueues
  <1>4. \A p \in Paths : AcksKept(toS[p], toS'[p]) BY <1>2 DEF AcksKept
  <1> QED BY <1>2, <1>3, <1>4, ReceiverQuiet

LEMMA ReceiverJoinsStep ==
    ASSUME IInv, ReceiverJoins
    PROVE  IInv'
  <1>0. toR \in Queues /\ toS \in Queues /\ "global" \in Paths BY TypeParts DEF IInv, Paths
  <1>1. /\ status = "new" /\ status' = "running" /\ closing' = closing
        /\ UNCHANGED <<open, received, buffer, nextR, file>>
    BY DEF ReceiverJoins
  <1>2. \A p \in Paths : toR[p] = <<>> BY <1>1 DEF IInv, Ended
  <1>3. \A p \in Paths : NoTransfer(toR'[p])
    <2>1. /\ NoTransfer(<<Msg("joined"), Msg("peers")>>) /\ NoTransfer(<<Msg("joined")>>)
          /\ NoTransfer(<<>>)
      BY DEF NoTransfer, Msg, TransferTypes
    <2>2. \A p \in Paths :
             toR'[p] \in {<<>>, <<Msg("joined"), Msg("peers")>>, <<Msg("joined")>>}
      BY <1>0, <1>2 DEF ReceiverJoins, Queues
    <2> QED BY <2>1, <2>2
  <1>4. \A p \in Paths : Kept(toR[p], toR'[p]) /\ Trimmed(toR[p], toR'[p])
    BY <1>2, <1>3, EmptyKept DEF Kept
  <1>5. \A p \in Paths : AcksKept(toS[p], toS'[p])
    <2>1. toS' = ToS("global", Msg("peers"), toS) BY DEF ReceiverJoins, ToS
    <2> QED BY <1>0, <2>1, PlainTypes, PlainRelayed DEF Plain, TransferTypes
  <1>6. closing' \/ status' = "saved" => sent BY <1>1 DEF IInv, Ended
  <1> QED BY <1>1, <1>4, <1>5, <1>6, ReceiverQuiet DEF ReceiverStep

\* The main loop's own messages.
LEMMA MainLoopStep ==
    ASSUME IInv, ReceiverGreets \/ ReceiverGetsKey \/ ReceiverJoinsLocal \/ ReceiverLeaves
    PROVE  IInv'
  <1>0. /\ toR \in Queues /\ toS \in Queues /\ "global" \in Paths /\ joined \in Joins /\ TypeOK
        /\ \A p \in Paths : /\ Kept(toR[p], toR[p]) /\ Trimmed(toR[p], toR[p])
                            /\ AcksKept(toS[p], toS[p])
    BY KeptSame, TypeParts DEF IInv, Paths
  <1>1. \A t \in {"pubkey", "local_relay_info"} :
           \A p \in Paths : AcksKept(toS[p], ToS("global", Msg(t), toS)[p])
    BY <1>0, PlainTypes, PlainRelayed DEF Plain, TransferTypes
  <1>2. CASE ReceiverGreets \/ ReceiverGetsKey
    <2>1. /\ toR["global"] # <<>> /\ Head(toR["global"]).type # "file_chunk" /\ status = "running"
          /\ toR' = TakenR("global") /\ UNCHANGED <<joined, status, closing>>
          /\ UNCHANGED <<open, received, buffer, nextR, file>>
      BY <1>2 DEF ReceiverGreets, ReceiverGetsKey, AtLoop, AtR, receiver
    <2>2. \A p \in Paths : Kept(toR[p], toR'[p]) /\ Trimmed(toR[p], toR'[p])
      BY <1>0, <2>1, ReadQueue DEF Kept
    <2>3. \A p \in Paths : AcksKept(toS[p], toS'[p])
      BY <1>0, <1>1, <1>2 DEF ReceiverGreets, ReceiverGetsKey
    <2>4. closing' \/ status' = "saved" => sent BY <2>1 DEF IInv, Ended
    <2> QED BY <1>2, <2>1, <2>2, <2>3, <2>4, ReceiverQuiet DEF ReceiverStep, MainLoop
  <1>3. CASE ReceiverJoinsLocal
    <2>1. /\ status = "running" /\ UNCHANGED <<toS, toR, status, closing>>
          /\ UNCHANGED <<open, received, buffer, nextR, file>>
      BY <1>3 DEF ReceiverJoinsLocal
    <2>2. \A p \in Paths : "R" \in joined[p] => "R" \in joined'[p]
      BY <1>0, <1>3 DEF ReceiverJoinsLocal, Joins
    <2>3. closing' \/ status' = "saved" => sent BY <2>1 DEF IInv, Ended
    <2> QED BY <1>0, <1>3, <2>1, <2>2, <2>3, ReceiverQuiet DEF ReceiverStep, MainLoop
  <1>4. CASE ReceiverLeaves
    <2>1. ReceiverExits("left", toS) /\ UNCHANGED <<open, received, buffer, nextR, file, closing>>
      BY <1>4 DEF ReceiverLeaves
    <2>2. closing' => sent BY <2>1 DEF IInv, Ended
    <2>3. "left" \in Statuses \ {"new", "running"} BY DEF Statuses
    <2> QED BY <1>0, <1>4, <2>1, <2>2, <2>3, ReceiverExitsStep DEF ReceiverStep, MainLoop
  <1> QED BY <1>2, <1>3, <1>4

LEMMA ReceiverEndsStep ==
    ASSUME IInv, ReceiverDies \/ ReceiverGivesUp \/ ReceiverCloses
    PROVE  IInv'
  <1>0. /\ toS \in Queues /\ \A p \in Paths : toS[p] \in Seq(Message) /\ AcksKept(toS[p], toS[p])
        /\ {"failed", "saved"} \subseteq Statuses \ {"new", "running"}
    BY KeptSame, TypeParts DEF IInv, Statuses, Queues
  <1>1. CASE ReceiverDies
    <2>1. PICK q \in Cut(toS) : ReceiverExits("failed", q) BY <1>1 DEF ReceiverDies
    <2>2. q \in Queues /\ \A p \in Paths : AcksKept(toS[p], q[p])
      BY <1>0, CutType, SubSeqTrimmed
    <2>3. UNCHANGED <<open, received, buffer, nextR, file, closing>> BY <1>1 DEF ReceiverDies
    <2>4. closing' => sent BY <2>3 DEF IInv, Ended
    <2> QED BY <1>0, <1>1, <2>1, <2>2, <2>3, <2>4, ReceiverExitsStep DEF ReceiverStep
  <1>2. CASE ReceiverGivesUp
    <2>1. ReceiverExits("failed", toS) /\ UNCHANGED <<open, received, buffer, nextR, file, closing>>
      BY <1>2 DEF ReceiverGivesUp
    <2>2. closing' => sent BY <2>1 DEF IInv, Ended
    <2> QED BY <1>0, <1>2, <2>1, <2>2, ReceiverExitsStep DEF ReceiverStep
  <1>3. CASE ReceiverCloses
    <2> DEFINE q == ToS("local", Msg("transfer_received"), toS)
    <2>1. /\ ReceiverExits("saved", q) /\ closing
          /\ UNCHANGED <<open, received, buffer, nextR, file, closing>>
      BY <1>3 DEF ReceiverCloses
    <2>2. q \in Queues /\ \A p \in Paths : AcksKept(toS[p], q[p])
      BY <1>0, PlainTypes, PlainRelayed, Relayed DEF Plain, TransferTypes, Paths
    <2>3. sent BY <2>1 DEF IInv, Ended
    <2> QED BY <1>0, <1>3, <2>1, <2>2, <2>3, ReceiverExitsStep DEF ReceiverStep, LocalReader
  <1> QED BY <1>1, <1>2, <1>3

\* A message of the transfer is on its path.
LEMMA OnPath ==
    ASSUME IInv, NEW p \in Paths, toR[p] # <<>>, Head(toR[p]).type \in TransferTypes
    PROVE  /\ p = path /\ ~Early /\ toR[path] \in Seq(Message)
           /\ 1 \in 1..Len(toR[path]) /\ toR[path][1] = Head(toR[path])
  <1>1. toR[p] \in Seq(Message) BY DEF IInv, TypeOK
  <1>2. 1 \in 1..Len(toR[p]) /\ toR[p][1] = Head(toR[p]) BY <1>1, Tail1
  <1>3. ~NoTransfer(toR[p]) BY <1>2 DEF NoTransfer
  <1> QED BY <1>1, <1>2, <1>3 DEF IInv, OneWay

\* A message of the transfer is read on its path, and nothing but the copy and
\* the acknowledgements changes.
LEMMA ReceiverTakes ==
    ASSUME IInv, ReceiverStep, UNCHANGED <<joined, status, closing>>, status = "running",
           ~Early, toR' = TakenR(path), toR[path] # <<>>,
           ReceiverTyped', Copied', nextR <= nextR',
           \A p \in Paths : AcksBelow(toS'[p], nextR'),
           StartFirst(Tail(toR[path])), StartIn(Tail(toR[path])) => ~open',
           open' \/ StartIn(Tail(toR[path])) =>
               /\ "R" \in joined[path] /\ InStep(Tail(toR[path]), nextR')
               /\ phase # "exited" => Whole(Tail(toR[path]), nextR', nextS)
    PROVE  IInv'
  <1>0. TypeOK BY DEF IInv
  <1>1. /\ joined' \in Joins /\ toS' \in Queues /\ toR' \in Queues /\ SenderTyped'
        /\ UNCHANGED sender /\ nextR \in Nat /\ nextR' \in Nat /\ nextS \in Nat
        /\ path \in Paths /\ \A p \in Paths : toR[p] \in Seq(Message)
    <2>1. /\ joined' \in Joins /\ toS' \in Queues /\ toR' \in Queues /\ SenderTyped'
          /\ UNCHANGED sender
      BY <1>0, ReceiverSide DEF ReceiverStep
    <2>2. nextR \in 0..NumChunks /\ nextR' \in 0..NumChunks /\ nextS \in 0..NumChunks
          /\ path \in Paths /\ \A p \in Paths : toR[p] \in Seq(Message)
      BY <1>0 DEF TypeOK, ReceiverTyped
    <2> QED BY <2>1, <2>2, TransferConstants
  <1>2. TypeOK'
    <2>1. TypeOK' <=> /\ joined' \in Joins /\ toS' \in Queues /\ toR' \in Queues
                      /\ SenderTyped' /\ ReceiverTyped'
      BY DEF TypeOK, Joins, Queues, SenderTyped, ReceiverTyped
    <2> QED BY <1>1, <2>1
  <1>3. /\ toR'[path] = Tail(toR[path]) /\ \A p \in Paths \ {path} : toR'[p] = toR[p]
    BY <1>1, Taken DEF IInv
  <1>4. UNCHANGED <<phase, path, nextS, sSecret, pending, sent>> BY <1>1 DEF sender
  <1>5. Phased' BY <1>4 DEF IInv, Phased, Early
  <1>6. Ended' BY <1>4 DEF IInv, Ended
  <1>7. AcksTrue'
    <2>1. \A k \in (0..(nextS - 1)) \ pending : k < nextR' BY <1>1 DEF IInv, AcksTrue
    <2>2. AcksTrue' <=> /\ \A p \in Paths : AcksBelow(toS'[p], nextR')
                        /\ \A k \in (0..(nextS' - 1)) \ pending' : k < nextR'
      BY DEF AcksTrue, AcksBelow
    <2> QED BY <1>4, <2>1, <2>2
  <1>8. OneWay'
    <2>1. \A p \in Paths : p # path => NoTransfer(toR'[p]) BY <1>3 DEF IInv, OneWay
    <2>2. \A p \in Paths : Below(toR'[p], nextS) /\ (EndIn(toR'[p]) => sent)
      BY <1>1, <1>3, ChunkGone DEF IInv, OneWay
    <2>3. ~Early' BY <1>4 DEF Early
    <2>4. OneWay' <=> /\ \A p \in Paths : Early' \/ p # path' => NoTransfer(toR'[p])
                      /\ StartFirst(toR'[path'])
                      /\ StartIn(toR'[path']) => ~open'
                      /\ \A p \in Paths : Below(toR'[p], nextS') /\ (EndIn(toR'[p]) => sent')
      BY DEF OneWay, NoTransfer, StartFirst, StartIn, Below, EndIn
    <2> QED BY <1>3, <1>4, <2>1, <2>2, <2>3, <2>4
  <1>9. InOrder'
    <2>1. InOrder' <=> (status' = "running" /\ (open' \/ StartIn(toR'[path'])) =>
                           /\ "R" \in joined'[path']
                           /\ InStep(toR'[path'], nextR')
                           /\ phase' # "exited" => Whole(toR'[path'], nextR', nextS'))
      BY DEF InOrder, StartIn, InStep, Whole, Chunk
    <2> QED BY <1>3, <1>4, <2>1
  <1> QED BY <1>2, <1>5, <1>6, <1>7, <1>8, <1>9 DEF IInv

LEMMA ReceiverStartsStep ==
    ASSUME IInv, NEW p \in Paths, ReceiverStarts(p)
    PROVE  IInv'
  <1>0. /\ toR[p] # <<>> /\ Head(toR[p]).type = "file_start" /\ status = "running"
        /\ toR \in Queues /\ toS \in Queues /\ TypeOK /\ ReceiverStep
        /\ \A r \in Paths : AcksKept(toS[r], toS[r])
    BY KeptSame, TypeParts
       DEF ReceiverStarts, AtReader, AtR, IInv, ReceiverStep, MainLoop, LocalReader, ReceiverReads, Paths
  <1>1. /\ p = path /\ ~Early /\ toR[path] \in Seq(Message)
        /\ 1 \in 1..Len(toR[path]) /\ toR[path][1] = Head(toR[path])
    BY <1>0, OnPath DEF TransferTypes
  <1>2. \A r \in Paths : Kept(toR[r], TakenR(p)[r]) /\ Trimmed(toR[r], TakenR(p)[r])
    BY <1>0, ReadQueue DEF Kept
  <1>3. CASE key = "none"
    <2>1. toR' = TakenR(p) /\ UNCHANGED <<joined, toS, receiver>> BY <1>3 DEF ReceiverStarts
    <2>2. closing' \/ status' = "saved" => sent BY <2>1 DEF IInv, Ended, receiver
    <2> QED BY <1>0, <1>2, <2>1, <2>2, ReceiverQuiet DEF receiver
  <1>4. CASE ReceiverExits("cancelled", ToS(p, Msg("transfer_cancelled"), toS))
             /\ UNCHANGED <<key, open, received, buffer, nextR, file, closing>>
    <2> DEFINE q == ToS(p, Msg("transfer_cancelled"), toS)
    <2>1. q \in Queues /\ \A r \in Paths : AcksKept(toS[r], q[r])
      BY <1>0, PlainTypes, PlainRelayed, Relayed DEF Plain, TransferTypes
    <2>2. closing' => sent BY <1>4 DEF IInv, Ended
    <2> QED BY <1>0, <1>4, <2>1, <2>2, ReceiverExitsStep DEF Statuses
  <1>5. CASE /\ toR' = TakenR(p) /\ key # "none"
             /\ open' = TRUE /\ received' = {} /\ buffer' = {} /\ nextR' = 0 /\ file' = <<>>
             /\ UNCHANGED <<joined, toS, status, key, closing>>
    <2>1. StartIn(toR[path]) BY <1>0, <1>1 DEF StartIn
    <2>2. ~open /\ nextR = 0 BY <2>1 DEF IInv, OneWay, Copied
    <2>3. nextS \in Nat /\ nextR' = nextR /\ 0 <= nextS
      BY <1>5, <2>2, TypeParts, TransferConstants DEF IInv, SenderTyped
    <2>4. Copied'
      <3>1. [i \in 1..0 |-> i - 1] = <<>> OBVIOUS
      <3>2. UNCHANGED nextS BY <1>0, ReceiverSide DEF ReceiverStep, sender
      <3> QED BY <1>5, <2>3, <3>1, <3>2 DEF Copied
    <2>5. ReceiverTyped'
      <3>1. <<>> \in Seq(Chunks) OBVIOUS
      <3> QED BY <1>0, <1>5, <3>1, TypeParts, TransferConstants DEF ReceiverTyped
    <2>6. ~StartIn(Tail(toR[path])) /\ StartFirst(Tail(toR[path]))
      BY <1>0, <1>1, ChunkGone DEF IInv, OneWay
    <2>7. TakenR(p)[path] = Tail(toR[path]) BY <1>0, <1>1, Taken
    <2>8. /\ "R" \in joined[path] /\ InStep(Tail(toR[path]), nextR')
          /\ phase # "exited" => Whole(Tail(toR[path]), nextR', nextS)
      <3>1. /\ "R" \in joined[path] /\ InStep(toR[path], nextR)
            /\ phase # "exited" => Whole(toR[path], nextR, nextS)
        BY <1>0, <2>1 DEF IInv, InOrder
      <3>2. Kept(toR[path], Tail(toR[path])) BY <1>1, <1>2, <2>7
      <3> QED BY <2>2, <2>3, <3>1, <3>2 DEF Kept, Trimmed
    <2>9. \A r \in Paths : AcksBelow(toS'[r], nextR') BY <1>5, <2>3 DEF IInv, AcksTrue
    <2> QED BY <1>0, <1>1, <1>5, <2>2, <2>3, <2>4, <2>5, <2>6, <2>8, <2>9, ReceiverTakes
  <1> QED BY <1>3, <1>4, <1>5 DEF ReceiverStarts

\* The chunk that is read: one of the copy already, or the next.
LEMMA ChunkRead ==
    ASSUME IInv, NEW p \in Paths, ReceiverGetsChunk(p)
    PROVE  LET k == Head(toR[p]).chunk
               n == IF open /\ k = nextR THEN nextR + 1 ELSE nextR
           IN  /\ p = path /\ ~Early /\ toR[path] # <<>> /\ toR[path] \in Seq(Message)
               /\ Head(toR[path]).type = "file_chunk" /\ ReceiverStep
               /\ toR' = TakenR(p) /\ UNCHANGED <<joined, sender, status, key, open, closing>>
               /\ status = "running" /\ k \in Chunks /\ nextS \in Nat /\ nextR \in Nat
               /\ nextR' = n /\ nextR <= nextR' /\ Copied' /\ ReceiverTyped'
               /\ open => /\ toS' = ToS(p, Ack(k), toS) /\ k < nextR'
                          /\ "R" \in joined[path] /\ InStep(Tail(toR[path]), nextR')
                          /\ phase # "exited" => Whole(Tail(toR[path]), nextR', nextS)
               /\ ~open => UNCHANGED <<toS, file>>
  <1> DEFINE k == Head(toR[p]).chunk
             n == IF open /\ k = nextR THEN nextR + 1 ELSE nextR
  <1>0. /\ toR[p] # <<>> /\ Head(toR[p]).type = "file_chunk" /\ status = "running"
        /\ toR \in Queues /\ toS \in Queues /\ TypeOK /\ ReceiverStep
        /\ toR' = TakenR(p) /\ UNCHANGED <<joined, sender, status, key, open, closing>>
    BY TypeParts
       DEF ReceiverGetsChunk, AtReader, AtR, IInv, ReceiverStep, MainLoop, LocalReader, ReceiverReads, Paths
  <1>1. /\ p = path /\ ~Early /\ toR[path] \in Seq(Message)
        /\ 1 \in 1..Len(toR[path]) /\ toR[path][1] = Head(toR[path])
    BY <1>0, OnPath DEF TransferTypes
  <1>2. /\ k \in Chunks /\ k \in Nat /\ k < nextS /\ nextS \in Nat /\ nextR \in Nat
        /\ nextS \in 0..NumChunks /\ ReceiverTyped /\ UNCHANGED nextS
    <2>1. Head(toR[p]) \in Message BY <1>0, <1>1, Tail1
    <2>2. k \in Chunks BY <1>0, <2>1, Messages
    <2>3. k < nextS BY <1>0, <1>1 DEF IInv, OneWay, Below
    <2> QED BY <1>0, <2>2, <2>3, TypeParts, TransferConstants
            DEF Chunks, ReceiverTyped, SenderTyped, sender
  <1>3. CASE ~open
    <2>1. UNCHANGED <<toS, received, buffer, nextR, file>> BY <1>3 DEF ReceiverGetsChunk
    <2>2. Copied' BY <1>0, <1>2, <2>1 DEF IInv, Copied
    <2>3. ReceiverTyped' BY <1>0, <1>2, <2>1 DEF ReceiverTyped
    <2>4. nextR <= nextR' /\ nextR' = n BY <1>2, <1>3, <2>1
    <2> QED BY <1>0, <1>1, <1>2, <1>3, <2>1, <2>2, <2>3, <2>4
  <1>4. CASE open
    <2> HIDE DEF k
    <2>1. /\ "R" \in joined[path] /\ InStep(toR[path], nextR)
          /\ phase # "exited" => Whole(toR[path], nextR, nextS)
      BY <1>0, <1>4 DEF IInv, InOrder
    <2>2. /\ k <= nextR /\ InStep(Tail(toR[path]), n) /\ n \in Nat
          /\ \A m \in Nat : Whole(toR[path], nextR, m) => Whole(Tail(toR[path]), n, m)
      BY <1>0, <1>1, <1>2, <1>4, <2>1, ChunkTaken DEF k
    <2>3. /\ toS' = ToS(p, Ack(k), toS)
          /\ IF k \in received THEN UNCHANGED <<received, buffer, nextR, file>> ELSE Take(k)
      BY <1>4 DEF ReceiverGetsChunk, k
    <2>4. nextR < nextS \/ k < nextR BY <1>2, <2>2
    <2>5. Copied BY DEF IInv
    <2>6. /\ nextR' = IF k = nextR THEN nextR + 1 ELSE nextR
          /\ k < nextR' /\ nextR' <= nextS /\ nextR' \in Nat
          /\ file' = [i \in 1..nextR' |-> i - 1] /\ buffer' = {} /\ received' = 0..(nextR' - 1)
          /\ file' \in Seq(Chunks)
      BY <1>2, <2>2, <2>3, <2>4, <2>5, ChunkCopied
    <2>7. nextR' = n /\ nextR <= nextR' BY <1>2, <1>4, <2>6
    <2>8. Copied' BY <1>0, <1>2, <1>4, <2>6 DEF Copied
    <2>9. ReceiverTyped'
      <3>1. NumChunks \in Nat /\ nextS <= NumChunks BY <1>2, TransferConstants
      <3>2. nextR' \in 0..NumChunks BY <1>2, <2>6, <3>1
      <3>3. received' \subseteq Chunks BY <1>2, <2>6, <3>1 DEF Chunks
      <3> QED BY <1>0, <1>2, <2>6, <3>2, <3>3 DEF ReceiverTyped
    <2>10. /\ InStep(Tail(toR[path]), nextR')
           /\ phase # "exited" => Whole(Tail(toR[path]), nextR', nextS)
      BY <1>2, <2>1, <2>2, <2>7
    <2> QED BY <1>0, <1>1, <1>2, <1>4, <2>1, <2>3, <2>6, <2>7, <2>8, <2>9, <2>10 DEF k
  <1> QED BY <1>3, <1>4

LEMMA ReceiverGetsChunkStep ==
    ASSUME IInv, NEW p \in Paths, ReceiverGetsChunk(p)
    PROVE  IInv'
  <1> DEFINE k == Head(toR[p]).chunk
  <1>1. /\ p = path /\ ~Early /\ toR[path] # <<>> /\ toR[path] \in Seq(Message)
        /\ Head(toR[path]).type = "file_chunk" /\ ReceiverStep
        /\ toR' = TakenR(p) /\ UNCHANGED <<joined, status, open, closing>>
        /\ status = "running" /\ k \in Chunks /\ nextS \in Nat /\ nextR \in Nat /\ nextR' \in Nat
        /\ nextR <= nextR' /\ Copied' /\ ReceiverTyped'
        /\ open => /\ toS' = ToS(p, Ack(k), toS) /\ k < nextR'
                   /\ "R" \in joined[path] /\ InStep(Tail(toR[path]), nextR')
                   /\ phase # "exited" => Whole(Tail(toR[path]), nextR', nextS)
        /\ ~open => toS' = toS
    BY ChunkRead
  <1>2. ~StartIn(Tail(toR[path])) /\ StartFirst(Tail(toR[path]))
    BY <1>1, ChunkGone DEF IInv, OneWay
  <1>3. \A r \in Paths : AcksBelow(toS'[r], nextR')
    <2> SUFFICES ASSUME NEW r \in Paths, NEW i \in 1..Len(toS'[r]), toS'[r][i].type = "chunk_ack"
                 PROVE  toS'[r][i].chunk < nextR'
      BY DEF AcksBelow
    <2>1. toS[r] \in Seq(Message) /\ Ack(k) \in Message /\ Ack(k).chunk = k
      BY <1>1, Messages DEF IInv, TypeOK
    <2>2. \A j \in 1..Len(toS[r]) : toS[r][j].type = "chunk_ack" => toS[r][j].chunk < nextR'
      <3> SUFFICES ASSUME NEW j \in 1..Len(toS[r]), toS[r][j].type = "chunk_ack"
                   PROVE  toS[r][j].chunk < nextR'
        OBVIOUS
      <3>1. toS[r][j] \in Message BY <2>1
      <3>2. toS[r][j].chunk \in Nat BY <3>1, Messages, TransferConstants DEF Chunks
      <3>3. toS[r][j].chunk < nextR BY DEF IInv, AcksTrue, AcksBelow
      <3> QED BY <1>1, <3>2, <3>3
    <2>3. toS'[r] = toS[r] \/ (open /\ toS'[r] = Append(toS[r], Ack(k)))
      BY <1>1 DEF ToS, IInv, TypeOK
    <2>4. CASE toS'[r] = toS[r] BY <2>2, <2>4
    <2>5. CASE open /\ toS'[r] = Append(toS[r], Ack(k))
      <3>1. i \in 1..Len(toS[r]) \/ i = Len(toS[r]) + 1 BY <2>1, <2>5, Append1
      <3>2. CASE i \in 1..Len(toS[r]) BY <2>1, <2>2, <2>5, <3>2, Append1
      <3>3. CASE i = Len(toS[r]) + 1 BY <1>1, <2>1, <2>3, <2>5, <3>3, Append1
      <3> QED BY <3>1, <3>2, <3>3
    <2> QED BY <2>3, <2>4, <2>5
  <1> QED BY <1>1, <1>2, <1>3, ReceiverTakes

LEMMA ReceiverGetsEndStep ==
    ASSUME IInv, NEW p \in Paths, ReceiverGetsEnd(p)
    PROVE  IInv'
  <1>0. /\ toR[p] # <<>> /\ Head(toR[p]).type = "file_end" /\ status = "running"
        /\ toR \in Queues /\ toS \in Queues /\ TypeOK /\ ReceiverStep
        /\ UNCHANGED <<key, open, received, buffer, nextR, file>>
        /\ \A r \in Paths : AcksKept(toS[r], toS[r])
    BY KeptSame, TypeParts
       DEF ReceiverGetsEnd, AtReader, AtR, IInv, ReceiverStep, MainLoop, LocalReader, ReceiverReads, Paths
  <1>1. sent
    <2>1. /\ p = path /\ 1 \in 1..Len(toR[path]) /\ toR[path][1] = Head(toR[path])
      BY <1>0, OnPath DEF TransferTypes
    <2>2. EndIn(toR[p]) BY <1>0, <2>1 DEF EndIn
    <2> QED BY <2>2 DEF IInv, OneWay
  <1>2. \A r \in Paths : Kept(toR[r], TakenR(p)[r]) /\ Trimmed(toR[r], TakenR(p)[r])
    BY <1>0, ReadQueue DEF Kept
  <1>3. CASE toR' = TakenR(p) /\ UNCHANGED <<joined, toS, status>>
    BY <1>0, <1>1, <1>2, <1>3, ReceiverQuiet
  <1>4. CASE ReceiverExits("saved", ToS(p, Msg("transfer_received"), toS))
    <2> DEFINE q == ToS(p, Msg("transfer_received"), toS)
    <2>1. q \in Queues /\ \A r \in Paths : AcksKept(toS[r], q[r])
      BY <1>0, PlainTypes, PlainRelayed, Relayed DEF Plain, TransferTypes
    <2> QED BY <1>0, <1>1, <1>4, <2>1, ReceiverExitsStep DEF Statuses
  <1> QED BY <1>3, <1>4 DEF ReceiverGetsEnd

-----------------------------------------------------------------------------
(* The theorems *)

LEMMA InitIInv == Init => IInv
  <1> SUFFICES ASSUME Init PROVE IInv OBVIOUS
  <1>1. TypeOK
    <2>1. <<>> \in Seq(Message) /\ <<>> \in Seq(Chunks) OBVIOUS
    <2>2. ReceiverTyped
      <3>1. 0 \in 0..NumChunks BY TransferConstants
      <3> QED BY <2>1, <3>1 DEF Init, ReceiverTyped, Statuses
    <2>3. SenderTyped
      <3>1. 0 \in 0..NumChunks /\ 0 \in 0..MaxRetries BY TransferConstants
      <3> QED BY <3>1 DEF Init, SenderTyped, Phases, Paths
    <2> QED BY <2>1, <2>2, <2>3, TypeParts DEF Init, Joins, Queues
  <1>2. Len(<<>>) = 0 /\ \A p \in Paths : toR[p] = <<>> /\ toS[p] = <<>> BY DEF Init
  <1>3. path \in Paths BY DEF Init, Paths
  <1>4. Copied
    <2>1. [i \in 1..0 |-> i - 1] = <<>> OBVIOUS
    <2> QED BY <2>1 DEF Init, Copied
  <1>5. AcksTrue BY <1>2 DEF Init, AcksTrue, AcksBelow
  <1>6. OneWay BY <1>2, <1>3 DEF OneWay, NoTransfer, StartFirst, StartIn, Below, EndIn
  <1>7. Phased /\ Ended /\ InOrder BY DEF Init, Phased, Ended, InOrder, Early
  <1> QED BY <1>1, <1>4, <1>5, <1>6, <1>7 DEF IInv

LEMMA StepIInv ==
    ASSUME IInv, [Next]_vars
    PROVE  IInv'
  <1>1. CASE UNCHANGED vars
    BY <1>1 DEF vars, sender, receiver, IInv, TypeOK, Phased, Ended, Copied, AcksTrue, OneWay, InOrder,
        Early, NoTransfer, StartIn, EndIn, StartFirst, InStep, Below, Whole, AcksBelow
  <1>2. ASSUME NEW p \in Paths, ReceiverReads(p) PROVE IInv'
    BY <1>2, ReceiverStartsStep, ReceiverGetsChunkStep, ReceiverGetsEndStep DEF ReceiverReads
  <1>3. "global" \in Paths /\ "local" \in Paths BY DEF Paths
  <1>4. CASE MainLoop BY <1>2, <1>3, <1>4, MainLoopStep DEF MainLoop
  <1>5. CASE LocalReader BY <1>2, <1>3, <1>5, ReceiverEndsStep DEF LocalReader
  <1> QED
    BY <1>1, <1>4, <1>5, SenderJoinsStep, ReceiverJoinsStep, SenderDiesStep, ReceiverEndsStep,
       SenderReadsStep, TransferStep DEF Next

\* The inductive invariant: one relay carries the transfer, first in first out,
\* so no chunk overtakes another, and the copy is always the first chunks of the
\* file (relay.go:392-458; the readers of receive.go).
THEOREM IInvHolds == Spec => []IInv
  BY InitIInv, StepIInv, PTL DEF Spec

\* The variables of both programs keep their types: the tables of chunks hold
\* numbers of the file, no chunk is sent more than MaxRetries times again.
THEOREM TypeCorrect == Spec => []TypeOK
  <1>1. IInv => TypeOK BY DEF IInv
  <1> QED BY <1>1, IInvHolds, PTL

\* What the retransmitter forgets ("Remove acknowledged chunk", send.go) is in the
\* receiver's file, in its place.
THEOREM AckedWrittenHolds == Spec => []AckedWritten
  <1>1. IInv => AckedWritten
    <2> SUFFICES ASSUME IInv, NEW k \in 0..(nextS - 1), k \notin pending
                 PROVE  k < Len(file) /\ file[k + 1] = k
      BY DEF AckedWritten
    <2>1. nextR \in Nat /\ nextS \in Nat /\ file = [i \in 1..nextR |-> i - 1] /\ k < nextR
      BY TypeParts, TransferConstants DEF IInv, AcksTrue, Copied, SenderTyped, ReceiverTyped
    <2>2. k + 1 \in 1..nextR /\ Len(file) = nextR BY <2>1
    <2> QED BY <2>1, <2>2
  <1> QED BY <1>1, IInvHolds, PTL

\* The main loop and the reader of the local relay (receive.go) never both have
\* messages of the transfer, so what they share without a lock is used by one.
THEOREM OneReaderHolds == Spec => []OneReader
  <1>1. IInv => OneReader
    <2> SUFFICES ASSUME IInv PROVE OneReader OBVIOUS
    <2>1. PICK p \in Paths : p # path BY DEF Paths
    <2>2. NoTransfer(toR[p]) /\ toR[p] \in Seq(Message) BY <2>1 DEF IInv, OneWay, TypeOK
    <2>3. DOMAIN toR[p] = 1..Len(toR[p]) BY <2>2
    <2> QED BY <2>2, <2>3 DEF OneReader, NoTransfer
  <1> QED BY <1>1, IInvHolds, PTL

-----------------------------------------------------------------------------
(* The refinement *)

\* The receiver's file changes when it is created and with a chunk; the sender's
\* report is Finish.
LEMMA SenderCopies ==
    ASSUME IInv, SenderReads \/ Transfer \/ SenderDies \/ SenderJoins
    PROVE  UNCHANGED receiver /\ (sent' = sent \/ Finish)
  <1>1. UNCHANGED receiver BY SenderSide DEF IInv
  <1>2. CASE SenderReads
    BY <1>2 DEF SenderReads, SenderGreets, SenderGetsKey, SenderGetsAddresses, SenderGetsAck,
                SenderGetsReceipt, SenderQuits, sender
  <1>3. CASE Transfer
    <2>1. CASE StartTransfer \/ SendChunk BY <1>1, <2>1 DEF StartTransfer, SendChunk
    <2>2. CASE EndOfFile \/ LingeringEnds \/ SenderGivesUp
      BY <1>1, <2>2 DEF EndOfFile, LingeringEnds, SenderGivesUp
    <2>3. ASSUME NEW k \in Chunks, Retransmit(k) PROVE sent' = sent BY <2>3 DEF Retransmit
    <2> QED BY <1>1, <1>3, <2>1, <2>2, <2>3 DEF Transfer
  <1>4. CASE SenderDies \/ SenderJoins BY <1>4 DEF SenderDies, SenderJoins
  <1> QED BY <1>1, <1>2, <1>3, <1>4

LEMMA ReceiverCopies ==
    ASSUME IInv, ReceiverStep
    PROVE  /\ sent' = sent /\ status \in {"new", "running"}
           /\ \/ UNCHANGED <<open, file>>
              \/ \E p \in Paths : ReceiverStarts(p) \/ ReceiverGetsChunk(p)
  <1>1. sent' = sent BY ReceiverSide DEF IInv, ReceiverStep, sender
  <1>2. CASE ReceiverJoins \/ ReceiverDies \/ ReceiverGivesUp \/ ReceiverCloses
    BY <1>1, <1>2 DEF ReceiverJoins, ReceiverDies, ReceiverGivesUp, ReceiverCloses
  <1>3. CASE ReceiverGreets \/ ReceiverGetsKey \/ ReceiverJoinsLocal \/ ReceiverLeaves
    BY <1>1, <1>3 DEF ReceiverGreets, ReceiverGetsKey, ReceiverJoinsLocal, ReceiverLeaves, AtLoop,
                      AtR, receiver
  <1>4. ASSUME NEW p \in Paths, ReceiverReads(p)
        PROVE  /\ status \in {"new", "running"}
               /\ \/ UNCHANGED <<open, file>>
                  \/ \E r \in Paths : ReceiverStarts(r) \/ ReceiverGetsChunk(r)
    <2>1. status = "running"
      BY <1>4 DEF ReceiverReads, ReceiverStarts, ReceiverGetsChunk, ReceiverGetsEnd, AtReader, AtR
    <2>2. ReceiverGetsEnd(p) => UNCHANGED <<open, file>> BY DEF ReceiverGetsEnd
    <2> QED BY <1>4, <2>1, <2>2 DEF ReceiverReads
  <1> QED BY <1>1, <1>2, <1>3, <1>4 DEF ReceiverStep, MainLoop, LocalReader, Paths

\* The transfer implements FileCopy: a whole copy, in order, before either program
\* reports success (the end of SendFile in send.go, handleFileEnd in receive.go).
THEOREM CopyImplemented == Spec => ImplementsCopy
  <1> DEFINE saved == status = "saved"
             seen == <<file, open, sent, saved>>
  <1>1. Init => Promise!Init BY DEF Init, Promise!Init
  <1>2. ASSUME IInv, IInv', [Next]_vars PROVE [Promise!Next]_seen
    <2>0. /\ nextR \in Nat /\ nextS \in Nat /\ NumChunks \in Nat /\ nextR' \in Nat
          /\ nextR <= NumChunks /\ nextR' <= NumChunks
          /\ file = [i \in 1..nextR |-> i - 1] /\ file' = [i \in 1..nextR' |-> i - 1]
          /\ Len(file) = nextR
      BY <1>2, TransferConstants DEF IInv, TypeOK, Copied
    <2>1. CASE UNCHANGED vars BY <2>1 DEF vars, sender, receiver
    <2>2. CASE SenderReads \/ Transfer \/ SenderDies \/ SenderJoins
      <3>1. UNCHANGED <<file, open, status>> /\ (sent' = sent \/ Finish)
        BY <1>2, <2>2, SenderCopies DEF receiver
      <3>2. CASE sent' = sent BY <3>1, <3>2
      <3>3. CASE Finish
        <4>1. phase = "draining" /\ pending = {} /\ sent' = TRUE BY <3>3 DEF Finish
        <4>2. nextS = NumChunks /\ \A k \in 0..(nextS - 1) : k < nextR
          BY <1>2, <4>1 DEF IInv, Phased, AcksTrue
        <4>3. nextR = NumChunks
          <5>1. CASE NumChunks = 0 BY <2>0, <5>1
          <5>2. CASE NumChunks # 0
            <6>1. NumChunks - 1 \in 0..(nextS - 1) BY <2>0, <4>2, <5>2
            <6> QED BY <2>0, <4>2, <6>1
          <5> QED BY <5>1, <5>2
        <4>4. Promise!Report BY <2>0, <3>1, <4>1, <4>3 DEF Promise!Report
        <4> QED BY <4>4 DEF Promise!Next
      <3> QED BY <3>1, <3>2, <3>3
    <2>3. CASE ReceiverStep
      <3>1. /\ sent' = sent /\ status \in {"new", "running"}
            /\ \/ UNCHANGED <<open, file>>
               \/ \E p \in Paths : ReceiverStarts(p) \/ ReceiverGetsChunk(p)
        BY <1>2, <2>3, ReceiverCopies
      <3>2. CASE UNCHANGED <<open, file>>
        <4>1. CASE status' = "saved"
          <5>1. sent BY <1>2, <3>1, <4>1 DEF IInv, Ended
          <5>2. Promise!Save BY <3>1, <3>2, <4>1, <5>1 DEF Promise!Save
          <5> QED BY <5>2 DEF Promise!Next
        <4>2. CASE status' # "saved" BY <3>1, <3>2, <4>2
        <4> QED BY <4>1, <4>2
      <3>3. ASSUME NEW p \in Paths, ReceiverStarts(p), ~UNCHANGED <<open, file>>
            PROVE  Promise!Next
        <4>1. /\ toR[p] # <<>> /\ Head(toR[p]).type = "file_start"
              /\ open' = TRUE /\ file' = <<>> /\ UNCHANGED status
          BY <3>3 DEF ReceiverStarts, AtReader, AtR, receiver
        <4>2. ~open
          <5>1. StartIn(toR[path])
            BY <1>2, <4>1, OnPath DEF TransferTypes, StartIn
          <5> QED BY <1>2, <5>1 DEF IInv, OneWay
        <4>3. file = <<>>
          <5>1. nextR = 0 BY <1>2, <4>2 DEF IInv, Copied
          <5> QED BY <2>0, <5>1
        <4>4. Promise!Begin BY <3>1, <4>1, <4>2, <4>3 DEF Promise!Begin
        <4> QED BY <4>4 DEF Promise!Next
      <3>4. ASSUME NEW p \in Paths, ReceiverGetsChunk(p), ~UNCHANGED <<open, file>>
            PROVE  Promise!Next
        <4>1. /\ UNCHANGED <<open, status>> /\ nextR <= nextR' /\ (~open => file' = file)
          BY <1>2, <3>4, ChunkRead
        <4>2. open /\ nextR # nextR' BY <2>0, <3>4, <4>1
        <4>3. nextR' \in (Len(file) + 1)..NumChunks BY <2>0, <4>1, <4>2
        <4>4. Promise!Write BY <2>0, <3>1, <4>1, <4>2, <4>3 DEF Promise!Write
        <4> QED BY <4>4 DEF Promise!Next
      <3> QED BY <3>1, <3>2, <3>3, <3>4
    <2> QED BY <1>2, <2>1, <2>2, <2>3 DEF Next, ReceiverStep
  <1>3. ASSUME IInv, [Next]_vars PROVE IInv' BY <1>3, StepIInv
  <1> QED BY <1>1, <1>2, IInvHolds, PTL DEF Spec, ImplementsCopy, Promise!Spec, Promise!vars
=============================================================================
