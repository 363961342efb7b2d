-------------------------- MODULE PathStreamProofs ---------------------------
(***************************************************************************)
(* Proofs about PathStream: the channels between a run and its watchers,   *)
(* for any number of watchers and snapshots, and channels of any size.     *)
(***************************************************************************)
EXTENDS PathStream, SequenceTheorems, TLAPS
LOCAL INSTANCE SequencesExt

(* Whether the run was given the channel of a call yet.                     *)
Early == {"idle", "asked", "accepted"}
Late == {"installed", "serving", "gone"}

ClientModes == {"idle", "waiting", "reading", "refused", "closed"}

ChannelTypes ==
  /\ publisher \in Subs \cup {None} /\ closed \subseteq Subs
  /\ server \in [Subs -> Early \cup Late] /\ client \in [Subs -> ClientModes]

(* The run has and closes only the channels it was given, and no call is    *)
(* made twice.                                                              *)
GivenInv ==
  /\ publisher # None => server[publisher] \in Late
  /\ \A s \in closed : server[s] \in Late
  /\ \A s \in Subs : client[s] = "idle" => server[s] = "idle"

(* What publishPath is sending goes to the channel the run has: nobody      *)
(* replaces it meanwhile.                                                   *)
PendingInv == pending # None => publisher # None /\ pending.to = publisher

ChannelInv == ChannelTypes /\ GivenInv /\ PendingInv /\ NoClosedChannelIsUsed

-----------------------------------------------------------------------------
(* The kinds of steps.                                                      *)

(* A call, its stream or its reader goes on.                                *)
Onwards ==
  /\ UNCHANGED <<publisher, closed, pending>>
  /\ server' \in [Subs -> Early \cup Late] /\ client' \in [Subs -> ClientModes]
  /\ \A s \in Subs : /\ server[s] \in Late => server'[s] \in Late
                     /\ client'[s] = "idle" => client[s] = "idle" /\ server'[s] = server[s]

SnapshotTaken ==
  /\ UNCHANGED <<publisher, closed, server, client>>
  /\ IF publisher = None THEN pending' = pending ELSE pending'.to = publisher

SnapshotSent == pending' = None /\ UNCHANGED <<publisher, closed, server, client>>

StreamStep ==
  \/ Onwards \/ SnapshotTaken \/ SnapshotSent \/ SendCancelled
  \/ \E s \in Subs : SetPathPublisher(s)

LEMMA NextIs == ASSUME ChannelTypes, GivenInv, Next PROVE StreamStep
<1> USE DEF runVars, publishVars, clientVars, deliveries
<1>1. ASSUME FirstPlan \/ PublishAgain PROVE SnapshotTaken
  BY <1>1 DEF FirstPlan, PublishAgain, TakeSnapshot, SnapshotTaken
<1>2. ASSUME Publishing PROVE SnapshotSent \/ SendCancelled
  BY <1>2 DEF Publishing, Send, SendTimesOut, SnapshotSent
<1>3. ASSUME Cancel \/ End PROVE Onwards
  BY <1>3 DEF Cancel, End, Onwards, ChannelTypes
<1>4. ASSUME NEW s \in Subs, AgentPathSub(s) PROVE Onwards
  <2>1. server[s] = "idle"
    BY <1>4 DEF AgentPathSub, GivenInv
  <2> QED BY <1>4, <2>1 DEF AgentPathSub, Onwards, ChannelTypes, Early, Late, ClientModes
<1>5. ASSUME NEW s \in Subs,
             \/ Accept(s) \/ Refuse(s) \/ Confirm(s) \/ ConfirmFails(s)
             \/ Finish(s) \/ FinishFails(s)
      PROVE  Onwards
  <2>1. /\ UNCHANGED <<publisher, closed, pending, client>>
        /\ \E w \in Late \cup {"accepted"} :
             /\ server' = [server EXCEPT ![s] = w]
             /\ w = "accepted" => server[s] = "asked"
        /\ server[s] # "idle"
    BY <1>5 DEF Accept, Refuse, Confirm, ConfirmFails, MayFinish, Finish, FinishFails, Late
  <2>2. PICK w \in Late \cup {"accepted"} : server' = [server EXCEPT ![s] = w] /\ (w = "accepted" => server[s] = "asked")
    BY <2>1
  <2>3. server' \in [Subs -> Early \cup Late]
    BY <2>2 DEF ChannelTypes, Early
  <2>4. \A t \in Subs : server[t] \in Late => server'[t] \in Late
    BY <2>2 DEF ChannelTypes, Late
  <2>5. \A t \in Subs : client[t] = "idle" => server'[t] = server[t]
    BY <2>1, <2>2 DEF ChannelTypes, GivenInv
  <2> QED BY <2>1, <2>3, <2>4, <2>5 DEF Onwards, ChannelTypes
<1>6. ASSUME NEW s \in Subs, Receive(s) \/ PublishPayload(s) \/ PublishFails(s) PROVE Onwards
  BY <1>6 DEF Receive, PublishPayload, PublishFails, Onwards, ChannelTypes
<1>7. ASSUME NEW s \in Subs, Reading(s) \/ GiveUp(s) PROVE Onwards
  <2>1. /\ UNCHANGED <<publisher, closed, pending, server>>
        /\ \/ client' = client
           \/ \E w \in ClientModes \ {"idle"} : client' = [client EXCEPT ![s] = w]
    <3>1. CASE GiveUp(s)
      BY <3>1 DEF GiveUp, ClientModes
    <3>2. CASE Handshake(s)
      BY <3>2 DEF Handshake, ClientModes
    <3>3. CASE Read(s)
      <4>1. UNCHANGED <<publisher, closed, pending, server>>
        BY <3>3 DEF Read
      <4>2. client[s] = "reading"
        BY <3>3 DEF Read
      <4>3. client' = client \/ client' = [client EXCEPT ![s] = "closed"]
        BY <3>3 DEF Read, ReadChunk, ReadCells, ReadDone
      <4> QED BY <4>1, <4>3 DEF ClientModes
    <3> QED BY <1>7, <3>1, <3>2, <3>3 DEF Reading
  <2>2. client' \in [Subs -> ClientModes] /\ \A t \in Subs : client'[t] = "idle" => client[t] = "idle"
    BY <2>1 DEF ChannelTypes
  <2> QED BY <2>1, <2>2 DEF Onwards, ChannelTypes
<1> QED BY <1>1, <1>2, <1>3, <1>4, <1>5, <1>6, <1>7 DEF Next, Serving, StreamStep

-----------------------------------------------------------------------------
LEMMA ChannelStep == ASSUME ChannelInv, StreamStep PROVE ChannelInv'
<1> USE DEF ChannelInv, ChannelTypes, GivenInv, PendingInv, NoClosedChannelIsUsed
<1>1. ASSUME Onwards PROVE ChannelInv'
  BY <1>1 DEF Onwards
<1>2. ASSUME SnapshotTaken \/ SnapshotSent PROVE ChannelInv'
  BY <1>2 DEF SnapshotTaken, SnapshotSent
<1>3. ASSUME SendCancelled PROVE ChannelInv'
  <2>1. /\ pending.to = publisher /\ publisher \in Subs /\ server[publisher] \in Late
        /\ closed' = closed \cup {publisher} /\ publisher' = None /\ pending' = None
        /\ UNCHANGED <<server, client>>
    BY <1>3 DEF SendCancelled, clientVars
  <2> QED BY <2>1
<1>4. ASSUME NEW s \in Subs, SetPathPublisher(s) PROVE ChannelInv'
  <2>1. /\ server[s] \notin Late /\ server[s] # "idle" /\ pending = None /\ pending' = None
        /\ server' = [server EXCEPT ![s] = "installed"] /\ publisher' = s
        /\ closed' = closed \cup ({publisher} \ {None}) /\ client' = client
    BY <1>4 DEF SetPathPublisher, clientVars, Late
  <2>2. s \notin closed /\ s # publisher
    BY <2>1, PathStreamAssumption
  <2>3. server' \in [Subs -> Early \cup Late] /\ \A t \in Subs : server[t] \in Late \/ t = s => server'[t] \in Late
    BY <2>1 DEF Late
  <2> QED BY <2>1, <2>2, <2>3
<1> QED BY <1>1, <1>2, <1>3, <1>4 DEF StreamStep

(* The run knows which channels it was given, sends only to the one it has, *)
(* and has none that is closed.                                             *)
THEOREM Invariance == Spec => []ChannelInv
<1>1. Init => ChannelInv
  <2> SUFFICES ASSUME Init PROVE ChannelInv
    OBVIOUS
  <2>1. ChannelTypes
    BY DEF Init, ChannelTypes, Early, ClientModes
  <2>2. GivenInv /\ PendingInv /\ NoClosedChannelIsUsed
    BY DEF Init, GivenInv, PendingInv, NoClosedChannelIsUsed
  <2> QED BY <2>1, <2>2 DEF ChannelInv
<1>2. ChannelInv /\ [Next]_vars => ChannelInv'
  <2>1. ASSUME ChannelInv, Next PROVE ChannelInv'
    BY <2>1, NextIs, ChannelStep DEF ChannelInv
  <2>2. ASSUME ChannelInv, UNCHANGED vars PROVE ChannelInv'
    BY <2>2 DEF ChannelInv, ChannelTypes, GivenInv, PendingInv, NoClosedChannelIsUsed, vars, publishVars, clientVars
  <2> QED BY <2>1, <2>2
<1> QED BY <1>1, <1>2, PTL DEF Spec

(* However many watchers replace one another while the run is publishing,   *)
(* cancelled or ending: it never sends to a closed channel and closes none  *)
(* twice.                                                                   *)
THEOREM ChannelsAreSafe == Spec => []NoClosedChannelIsUsed
<1>1. ChannelInv => NoClosedChannelIsUsed
  BY DEF ChannelInv
<1> QED BY <1>1, Invariance, PTL

-----------------------------------------------------------------------------
(* What the clients are given. A client's future is a chain: each message   *)
(* on its way, read in turn, takes it from what it has shown and assembled  *)
(* to what it will have. The end of the chain is what has come through.     *)

Snaps == SUBSET (Nat \X Nat)

Chunk(id, i, n, v) == [type |-> "chunk", id |-> id, index |-> i, count |-> n, snap |-> v]
Cells(v) == [type |-> "cells", snap |-> v]

Answers == {Ok, Error, Done}
Messages == Answers \cup {Cells(v) : v \in Nat}
              \cup {Chunk(id, i, n, v) : id \in Nat, i \in Nat, n \in Nat \ {0}, v \in Nat}

Assembled(a) == {a.chunks[i] : i \in DOMAIN a.chunks}

(* Reading m takes a client that has shown x, with assembler a, to y and b. *)
ReadAs(x, a, m, y, b) ==
  \/ /\ m.type = "chunk"
     /\ b = IF Ready(Added(a, m)) THEN Assembler ELSE Added(a, m)
     /\ y = IF Ready(Added(a, m)) THEN Append(x, Assembled(Added(a, m))) ELSE x
  \/ m.type = "cells" /\ b = a /\ y = Append(x, Parts(m))
  \/ m.type \in {"ok", "error", "done"} /\ b = a /\ y = x

(* The payloads left of a snapshot of n chunks after the first j.           *)
Rest(id, n, v, j) == [i \in 1..n - j |-> Chunk(id, j + i - 1, n, v)]

(* The assembler has the first j chunks; or, when one was lost, it will     *)
(* never have all of them.                                                  *)
FirstChunks(n, v, j) == [i \in 0..n - 1 |-> IF i < j THEN <<v, i>> ELSE None]

Collects(a, id, n, v, j) ==
  IF j = 0 THEN a.id # id
  ELSE a = [id |-> id, count |-> n, received |-> j, chunks |-> FirstChunks(n, v, j)]

Misses(a, id, n, j) ==
  \/ j >= 1 /\ a.id # id
  \/ \E ch \in [0..n - 1 -> (Nat \X Nat) \cup {None}], r \in Nat, i \in 0..j - 1 :
       a = [id |-> id, count |-> n, received |-> r, chunks |-> ch] /\ ch[i] = None

(* The assembler a, at the end of the chain, with the payloads pl to come.  *)
Assembling(a, pl, lost, seq) ==
  /\ a.id \in 0..seq
  /\ \/ pl = <<>>
     \/ ~lost /\ \E v \in Nat : pl = <<Cells(v)>>
     \/ \E id \in 1..seq, n \in Nat \ {0}, v \in Nat : \E j \in 0..n - 1 :
          /\ pl = Rest(id, n, v, j)
          /\ IF lost THEN Misses(a, id, n, j) ELSE Collects(a, id, n, v, j)

Prefix(x, y) == Len(x) <= Len(y) /\ \A i \in 1..Len(x) : x[i] = y[i]

Chain(x, a, q, sh, as) ==
  /\ sh \in [0..Len(q) -> Seq(Snaps)] /\ DOMAIN as = 0..Len(q)
  /\ sh[0] = x /\ as[0] = a
  /\ \A i \in 1..Len(q) : ReadAs(sh[i - 1], as[i - 1], q[i], sh[i], as[i])

Whole(x, a, q, w, pl, lost, seq) == \E sh, as :
  /\ Chain(x, a, q, sh, as)
  /\ \A i \in 0..Len(q) : Prefix(sh[i], w)
  /\ sh[Len(q)] = w
  /\ Assembling(as[Len(q)], pl, lost, seq)

-----------------------------------------------------------------------------
LEMMA PrefixIs ==
  ASSUME NEW S, NEW x \in Seq(S), NEW y \in Seq(S), Prefix(x, y)
  PROVE  IsPrefix(x, y)
<1>1. /\ Len(x) \in Nat /\ Len(y) \in Nat /\ Len(x) <= Len(y)
      /\ \A i \in 1..Len(x) : x[i] \in S /\ y[i] = x[i]
  BY DEF Prefix
<1>2. /\ SubSeq(y, 1, Len(x)) \in Seq(S) /\ Len(SubSeq(y, 1, Len(x))) = Len(x)
      /\ \A i \in 1..Len(x) : SubSeq(y, 1, Len(x))[i] = y[i]
  <2> DEFINE n == Len(x)
  <2>1. n \in Int /\ \A i \in 1..n : y[i] \in S
    BY <1>1
  <2> HIDE DEF n
  <2>2. /\ SubSeq(y, 1, n) \in Seq(S) /\ Len(SubSeq(y, 1, n)) = IF 1 <= n THEN n - 1 + 1 ELSE 0
        /\ \A i \in 1..(n - 1 + 1) : SubSeq(y, 1, n)[i] = y[1 + i - 1]
    BY <2>1, SubSeqProperties
  <2>3. n \in Nat
    BY <1>1 DEF n
  <2> QED BY <2>2, <2>3 DEF n
<1>3. SubSeq(y, 1, Len(x)) = x
  BY <1>1, <1>2, SeqEqual
<1>4. SubSeq(x, 1, Len(x)) = x
  BY SubSeqFull
<1> QED BY <1>1, <1>3, <1>4 DEF IsPrefix

LEMMA ChunkIs ==
  ASSUME NEW id \in Nat, NEW i \in Nat, NEW n \in Nat \ {0}, NEW v \in Nat
  PROVE  Chunk(id, i, n, v) \in Messages
  BY DEF Messages

(* The first of the payloads left, and what is left after it.               *)
LEMMA RestIs ==
  ASSUME NEW id \in Nat, NEW n \in Nat \ {0}, NEW v \in Nat, NEW j \in 0..n - 1
  PROVE  /\ Rest(id, n, v, j) \in Seq(Messages) /\ Len(Rest(id, n, v, j)) = n - j
         /\ Rest(id, n, v, j) # <<>> /\ Head(Rest(id, n, v, j)) = Chunk(id, j, n, v)
         /\ Tail(Rest(id, n, v, j)) \in Seq(Messages) /\ Len(Tail(Rest(id, n, v, j))) = n - j - 1
<1> DEFINE p == Rest(id, n, v, j)
<1>0. n - j \in Nat \ {0}
  OBVIOUS
<1>1. \A i \in 1..n - j : Chunk(id, j + i - 1, n, v) \in Messages
  <2> SUFFICES ASSUME NEW i \in 1..n - j PROVE Chunk(id, j + i - 1, n, v) \in Messages
    OBVIOUS
  <2>1. j + i - 1 \in Nat
    OBVIOUS
  <2> QED BY <2>1, ChunkIs
<1>2. p \in [1..n - j -> Messages] /\ \A i \in 1..n - j : p[i] = Chunk(id, j + i - 1, n, v)
  BY <1>1 DEF Rest
<1>3. p \in Seq(Messages) /\ Len(p) = n - j
  <2> HIDE DEF p
  <2>1. p \in Seq(Messages)
    BY <1>0, <1>2
  <2> QED BY <1>0, <1>2, <2>1
<1>4. p # <<>> /\ Head(p) = Chunk(id, j, n, v)
  <2> HIDE DEF p
  <2>1. p # <<>> /\ Head(p) = p[1]
    BY <1>0, <1>3
  <2> QED BY <1>0, <1>2, <2>1
<1>5. Tail(p) \in Seq(Messages) /\ Len(Tail(p)) = n - j - 1 /\ \A i \in 1..n - j - 1 : Tail(p)[i] = p[i + 1]
  <2> HIDE DEF p
  <2>1. /\ Tail(p) \in Seq(Messages) /\ Len(Tail(p)) = Len(p) - 1
        /\ \A i \in 1..Len(Tail(p)) : Tail(p)[i] = p[i + 1]
    BY <1>3, <1>4, HeadTailProperties
  <2> QED BY <1>0, <1>3, <2>1
<1> QED BY <1>3, <1>4, <1>5

LEMMA RestLast ==
  ASSUME NEW id \in Nat, NEW n \in Nat \ {0}, NEW v \in Nat, NEW j \in 0..n - 1, j + 1 = n
  PROVE  Tail(Rest(id, n, v, j)) = <<>>
<1> DEFINE p == Tail(Rest(id, n, v, j))
<1>1. p \in Seq(Messages) /\ Len(p) = n - j - 1
  BY RestIs
<1> HIDE DEF p
<1>2. p = <<>>
  BY <1>1
<1> QED BY <1>2 DEF p

LEMMA RestTail ==
  ASSUME NEW id \in Nat, NEW n \in Nat \ {0}, NEW v \in Nat, NEW j \in 0..n - 1, j + 1 # n
  PROVE  Tail(Rest(id, n, v, j)) = Rest(id, n, v, j + 1)
<1>0. PICK k \in 0..n - 1 : k = j + 1
  OBVIOUS
<1> DEFINE p == Rest(id, n, v, j)
           r == Rest(id, n, v, k)
<1>1. p \in Seq(Messages) /\ Len(p) = n - j /\ p # <<>> /\ \A i \in 1..n - j : p[i] = Chunk(id, j + i - 1, n, v)
  <2>1. p \in Seq(Messages) /\ Len(p) = n - j /\ p # <<>>
    BY RestIs
  <2>2. \A i \in 1..n - j : p[i] = Chunk(id, j + i - 1, n, v)
    BY DEF Rest
  <2> QED BY <2>1, <2>2
<1>2. /\ r \in Seq(Messages) /\ Len(r) = n - k
      /\ \A i \in 1..n - k : r[i] = Chunk(id, k + i - 1, n, v)
  <2>1. r \in Seq(Messages) /\ Len(r) = n - k
    BY RestIs
  <2>2. \A i \in 1..n - k : r[i] = Chunk(id, k + i - 1, n, v)
    BY DEF Rest
  <2> QED BY <2>1, <2>2
<1> HIDE DEF p, r
<1>3. Tail(p) \in Seq(Messages) /\ Len(Tail(p)) = Len(p) - 1 /\ \A i \in 1..Len(Tail(p)) : Tail(p)[i] = p[i + 1]
  BY <1>1, HeadTailProperties
<1>4. \A i \in 1..Len(r) : Tail(p)[i] = r[i]
  <2> SUFFICES ASSUME NEW i \in 1..n - k PROVE Tail(p)[i] = r[i]
    BY <1>2
  <2>1. i + 1 \in 1..n - j /\ i \in 1..Len(Tail(p)) /\ j + (i + 1) - 1 = k + i - 1
    BY <1>0, <1>1, <1>3
  <2> QED BY <1>1, <1>2, <1>3, <2>1
<1>5. Len(Tail(p)) = Len(r)
  BY <1>0, <1>1, <1>2, <1>3
<1>6. Tail(p) = r
  BY <1>2, <1>3, <1>4, <1>5, SeqEqual
<1> QED BY <1>0, <1>6 DEF p, r

LEMMA MessageKinds ==
  ASSUME NEW m \in Messages
  PROVE  \/ m \in Answers /\ m.type \in {"ok", "error", "done"}
         \/ m.type = "cells" /\ m.snap \in Nat /\ m = Cells(m.snap)
         \/ m.type = "chunk" /\ m.snap \in Nat /\ m.count \in Nat \ {0}
  BY DEF Messages, Answers, Ok, Error, Done, Cells, Chunk

LEMMA PartsAre == ASSUME NEW m \in Messages, m.type \in {"cells", "chunk"} PROVE Parts(m) \in Snaps
<1>1. CASE m.type = "cells"
  BY <1>1, MessageKinds DEF Parts, Snaps
<1>2. CASE m.type = "chunk"
  <2>1. m.snap \in Nat /\ m.count \in Nat
    BY <1>2, MessageKinds
  <2> QED BY <1>2, <2>1 DEF Parts, Snaps
<1> QED BY <1>1, <1>2

-----------------------------------------------------------------------------
LEMMA ReadingIsDetermined ==
  ASSUME NEW x, NEW a, NEW m, NEW y, NEW b, NEW z, NEW c,
         ReadAs(x, a, m, y, b), ReadAs(x, a, m, z, c)
  PROVE  y = z /\ b = c
  BY DEF ReadAs

LEMMA WholeStart ==
  ASSUME NEW x, NEW a, NEW q \in Seq(Messages), NEW w, NEW pl, NEW lost, NEW seq,
         Whole(x, a, q, w, pl, lost, seq)
  PROVE  Prefix(x, w) /\ (q = <<>> => x = w)
<1>1. PICK sh, as : Chain(x, a, q, sh, as) /\ (\A i \in 0..Len(q) : Prefix(sh[i], w)) /\ sh[Len(q)] = w
  BY DEF Whole
<1>2. Len(q) \in Nat /\ sh[0] = x /\ 0 \in 0..Len(q)
  BY <1>1 DEF Chain
<1> QED BY <1>1, <1>2

(* The client reads the first message.                                      *)
LEMMA WholeRead ==
  ASSUME NEW x, NEW a, NEW q \in Seq(Messages), NEW w, NEW pl, NEW lost, NEW seq,
         Whole(x, a, q, w, pl, lost, seq), q # <<>>,
         NEW y, NEW b, ReadAs(x, a, Head(q), y, b)
  PROVE  Whole(y, b, Tail(q), w, pl, lost, seq) /\ y \in Seq(Snaps)
<1>1. PICK sh, as : /\ Chain(x, a, q, sh, as)
                    /\ \A i \in 0..Len(q) : Prefix(sh[i], w)
                    /\ sh[Len(q)] = w
                    /\ Assembling(as[Len(q)], pl, lost, seq)
  BY DEF Whole
<1>2. /\ Len(q) \in Nat \ {0} /\ Head(q) = q[1] /\ Tail(q) \in Seq(Messages)
      /\ Len(Tail(q)) = Len(q) - 1 /\ \A i \in 1..Len(q) - 1 : Tail(q)[i] = q[i + 1]
  <2>1. Len(q) \in Nat \ {0} /\ Head(q) = q[1]
    OBVIOUS
  <2>2. /\ Tail(q) \in Seq(Messages) /\ Len(Tail(q)) = Len(q) - 1
        /\ \A i \in 1..Len(Tail(q)) : Tail(q)[i] = q[i + 1]
    BY HeadTailProperties
  <2> QED BY <2>1, <2>2
<1> DEFINE l == Len(q)
           th == [i \in 0..l - 1 |-> sh[i + 1]]
           at == [i \in 0..l - 1 |-> as[i + 1]]
<1>3. /\ th \in [0..l - 1 -> Seq(Snaps)] /\ DOMAIN at = 0..l - 1
      /\ \A i \in 0..l - 1 : th[i] = sh[i + 1] /\ at[i] = as[i + 1] /\ i + 1 \in 0..l
  <2>1. \A i \in 0..l - 1 : i + 1 \in 0..l
    BY <1>2
  <2> QED BY <1>1, <2>1 DEF Chain
<1> HIDE DEF th, at
<1>4. sh[1] = y /\ as[1] = b /\ y \in Seq(Snaps)
  <2>1. 1 \in 1..l /\ 1 - 1 = 0 /\ 1 \in 0..l
    BY <1>2
  <2>2. ReadAs(sh[1 - 1], as[1 - 1], q[1], sh[1], as[1])
    BY <1>1, <2>1 DEF Chain
  <2>3. ReadAs(x, a, Head(q), sh[1], as[1])
    BY <1>1, <1>2, <2>1, <2>2 DEF Chain
  <2>4. sh[1] = y /\ as[1] = b
    BY <2>3, ReadingIsDetermined
  <2> QED BY <1>1, <2>1, <2>4 DEF Chain
<1>5. Chain(y, b, Tail(q), th, at)
  <2>1. th[0] = y /\ at[0] = b
    BY <1>2, <1>3, <1>4
  <2>2. \A i \in 1..l - 1 : ReadAs(th[i - 1], at[i - 1], Tail(q)[i], th[i], at[i])
    <3> SUFFICES ASSUME NEW i \in 1..l - 1 PROVE ReadAs(th[i - 1], at[i - 1], Tail(q)[i], th[i], at[i])
      OBVIOUS
    <3>1. i + 1 \in 1..l /\ (i + 1) - 1 = i /\ i - 1 \in 0..l - 1 /\ i \in 0..l - 1 /\ (i - 1) + 1 = i
      BY <1>2
    <3>2. ReadAs(sh[(i + 1) - 1], as[(i + 1) - 1], q[i + 1], sh[i + 1], as[i + 1])
      BY <1>1, <3>1 DEF Chain
    <3>3. /\ th[i - 1] = sh[i] /\ at[i - 1] = as[i] /\ th[i] = sh[i + 1] /\ at[i] = as[i + 1]
          /\ Tail(q)[i] = q[i + 1]
      BY <1>2, <1>3, <3>1
    <3> QED BY <3>1, <3>2, <3>3
  <2> QED BY <1>2, <1>3, <2>1, <2>2 DEF Chain
<1>6. \A i \in 0..Len(Tail(q)) : Prefix(th[i], w)
  BY <1>1, <1>2, <1>3
<1>7. th[Len(Tail(q))] = w /\ at[Len(Tail(q))] = as[Len(q)]
  <2>1. l - 1 \in 0..l - 1 /\ (l - 1) + 1 = l
    BY <1>2
  <2> QED BY <1>1, <1>2, <1>3, <2>1
<1>8. Assembling(at[Len(Tail(q))], pl, lost, seq)
  BY <1>1, <1>7
<1>9. \E s2, a2 : /\ Chain(y, b, Tail(q), s2, a2)
                  /\ \A i \in 0..Len(Tail(q)) : Prefix(s2[i], w)
                  /\ s2[Len(Tail(q))] = w
                  /\ Assembling(a2[Len(Tail(q))], pl, lost, seq)
  BY <1>5, <1>6, <1>7, <1>8
<1> QED BY <1>4, <1>9 DEF Whole

LEMMA PrefixTransitive ==
  ASSUME NEW x \in Seq(Snaps), NEW y \in Seq(Snaps), NEW z \in Seq(Snaps), Prefix(x, y), Prefix(y, z)
  PROVE  Prefix(x, z)
<1>1. Len(x) \in Nat /\ Len(y) \in Nat /\ Len(z) \in Nat /\ Len(x) <= Len(y) /\ Len(y) <= Len(z)
  BY DEF Prefix
<1>2. \A i \in 1..Len(x) : i \in 1..Len(y) /\ x[i] = y[i] /\ y[i] = z[i]
  BY <1>1 DEF Prefix
<1> QED BY <1>1, <1>2 DEF Prefix

(* The service puts m in the inbox, which takes what comes through to w2.   *)
LEMMA WholeAppend ==
  ASSUME NEW x, NEW a, NEW q \in Seq(Messages), NEW w \in Seq(Snaps), NEW pl, NEW lost, NEW seq,
         Whole(x, a, q, w, pl, lost, seq),
         NEW m \in Messages, NEW w2 \in Seq(Snaps), Prefix(w, w2), NEW pl2, NEW lost2, NEW seq2,
         \A e : Assembling(e, pl, lost, seq) =>
                  \E b : ReadAs(w, e, m, w2, b) /\ Assembling(b, pl2, lost2, seq2)
  PROVE  Whole(x, a, Append(q, m), w2, pl2, lost2, seq2)
<1>1. PICK sh, as : /\ Chain(x, a, q, sh, as)
                    /\ \A i \in 0..Len(q) : Prefix(sh[i], w)
                    /\ sh[Len(q)] = w
                    /\ Assembling(as[Len(q)], pl, lost, seq)
  BY DEF Whole
<1>2. PICK b : ReadAs(w, as[Len(q)], m, w2, b) /\ Assembling(b, pl2, lost2, seq2)
  BY <1>1
<1> DEFINE l == Len(q)
           p == Append(q, m)
           th == [i \in 0..l + 1 |-> IF i <= l THEN sh[i] ELSE w2]
           at == [i \in 0..l + 1 |-> IF i <= l THEN as[i] ELSE b]
<1>3. l \in Nat /\ p \in Seq(Messages) /\ Len(p) = l + 1 /\ p[l + 1] = m /\ \A i \in 1..l : p[i] = q[i]
  BY AppendProperties
<1>4. /\ th \in [0..l + 1 -> Seq(Snaps)] /\ DOMAIN at = 0..l + 1
      /\ \A i \in 0..l : th[i] = sh[i] /\ at[i] = as[i]
      /\ th[l + 1] = w2 /\ at[l + 1] = b
  <2>1. \A i \in 0..l : sh[i] \in Seq(Snaps)
    BY <1>1 DEF Chain
  <2>2. \A i \in 0..l + 1 : i <= l => i \in 0..l
    BY <1>3
  <2>3. th \in [0..l + 1 -> Seq(Snaps)] /\ DOMAIN at = 0..l + 1
    BY <2>1, <2>2
  <2>4. \A i \in 0..l : i \in 0..l + 1 /\ i <= l
    BY <1>3
  <2>5. l + 1 \in 0..l + 1 /\ ~(l + 1 <= l)
    BY <1>3
  <2> QED BY <2>3, <2>4, <2>5
<1> HIDE DEF th, at, p
<1>5. Chain(x, a, p, th, at)
  <2>1. th[0] = x /\ at[0] = a
    <3>1. 0 \in 0..l
      BY <1>3
    <3> QED BY <1>1, <1>4, <3>1 DEF Chain
  <2>2. \A i \in 1..l + 1 : ReadAs(th[i - 1], at[i - 1], p[i], th[i], at[i])
    <3> SUFFICES ASSUME NEW i \in 1..l + 1 PROVE ReadAs(th[i - 1], at[i - 1], p[i], th[i], at[i])
      OBVIOUS
    <3>1. CASE i = l + 1
      <4>1. i - 1 = l /\ l \in 0..l
        BY <1>3, <3>1
      <4>2. th[i - 1] = w /\ at[i - 1] = as[l] /\ p[i] = m /\ th[i] = w2 /\ at[i] = b
        BY <1>1, <1>3, <1>4, <3>1, <4>1
      <4> QED BY <1>2, <4>2
    <3>2. CASE i # l + 1
      <4>1. i \in 1..l /\ i - 1 \in 0..l /\ i \in 0..l
        BY <1>3, <3>2
      <4>2. /\ th[i - 1] = sh[i - 1] /\ at[i - 1] = as[i - 1] /\ p[i] = q[i]
            /\ th[i] = sh[i] /\ at[i] = as[i]
        BY <1>3, <1>4, <4>1
      <4> QED BY <1>1, <4>1, <4>2 DEF Chain
    <3> QED BY <3>1, <3>2
  <2> QED BY <1>3, <1>4, <2>1, <2>2 DEF Chain
<1>6. \A i \in 0..Len(p) : Prefix(th[i], w2)
  <2> SUFFICES ASSUME NEW i \in 0..l + 1 PROVE Prefix(th[i], w2)
    BY <1>3
  <2>1. CASE i = l + 1
    BY <1>4, <2>1 DEF Prefix
  <2>2. CASE i # l + 1
    <3>1. i \in 0..l
      BY <1>3, <2>2
    <3>2. th[i] = sh[i] /\ Prefix(sh[i], w) /\ sh[i] \in Seq(Snaps)
      BY <1>1, <1>4, <3>1 DEF Chain
    <3> QED BY <3>2, PrefixTransitive
  <2> QED BY <2>1, <2>2
<1>7. th[Len(p)] = w2 /\ Assembling(at[Len(p)], pl2, lost2, seq2)
  BY <1>2, <1>3, <1>4
<1>8. \E s2, a2 : /\ Chain(x, a, p, s2, a2)
                  /\ \A i \in 0..Len(p) : Prefix(s2[i], w2)
                  /\ s2[Len(p)] = w2
                  /\ Assembling(a2[Len(p)], pl2, lost2, seq2)
  BY <1>5, <1>6, <1>7
<1>9. Whole(x, a, p, w2, pl2, lost2, seq2)
  BY <1>8 DEF Whole
<1> QED BY <1>9 DEF p

(* Only what is still to come changes.                                      *)
LEMMA WholeSame ==
  ASSUME NEW x, NEW a, NEW q, NEW w, NEW pl, NEW lost, NEW seq, Whole(x, a, q, w, pl, lost, seq),
         NEW pl2, NEW lost2, NEW seq2,
         \A e : Assembling(e, pl, lost, seq) => Assembling(e, pl2, lost2, seq2)
  PROVE  Whole(x, a, q, w, pl2, lost2, seq2)
<1>1. PICK sh, as : /\ Chain(x, a, q, sh, as)
                    /\ \A i \in 0..Len(q) : Prefix(sh[i], w)
                    /\ sh[Len(q)] = w
                    /\ Assembling(as[Len(q)], pl, lost, seq)
  BY DEF Whole
<1>2. Assembling(as[Len(q)], pl2, lost2, seq2)
  BY <1>1
<1> QED BY <1>1, <1>2 DEF Whole

-----------------------------------------------------------------------------
(* The assembler.                                                           *)

LEMMA AssemblingLater ==
  ASSUME NEW e, NEW pl, NEW lost \in BOOLEAN, NEW seq \in Nat, NEW later \in Nat, seq <= later,
         Assembling(e, pl, lost, seq)
  PROVE  Assembling(e, pl, lost, later)
<1>1. e.id \in 0..later /\ 1..seq \subseteq 1..later
  BY DEF Assembling
<1> QED BY <1>1 DEF Assembling

(* The next snapshot: no assembler has seen its id.                         *)
LEMMA AssemblingNext ==
  ASSUME NEW e, NEW lost, NEW seq \in Nat, Assembling(e, <<>>, lost, seq),
         NEW v \in Nat, NEW n \in Nat, NEW seq2, seq2 = IF n = 0 THEN seq ELSE seq + 1
  PROVE  Assembling(e, Marshal(v, n, seq2), FALSE, seq2)
<1>0. e.id \in 0..seq
  BY DEF Assembling
<1>1. CASE n = 0
  BY <1>0, <1>1 DEF Assembling, Marshal, Cells
<1>2. CASE n # 0
  <2>1. seq2 = seq + 1 /\ seq2 \in 1..seq2 /\ e.id \in 0..seq2 /\ e.id # seq2 /\ n \in Nat \ {0}
    BY <1>0, <1>2
  <2>2. Marshal(v, n, seq2) = Rest(seq2, n, v, 0) /\ 0 \in 0..n - 1
    <3>1. n - 0 = n /\ \A i \in 1..n : 0 + i - 1 = i - 1
      BY <1>2
    <3> QED BY <1>2, <3>1 DEF Marshal, Rest, Chunk
  <2>3. Collects(e, seq2, n, v, 0)
    BY <2>1 DEF Collects
  <2> QED BY <2>1, <2>2, <2>3 DEF Assembling
<1> QED BY <1>1, <1>2

(* A payload is dropped.                                                    *)
LEMMA AssemblingLost ==
  ASSUME NEW e, NEW pl, pl # <<>>, NEW lost \in BOOLEAN, NEW seq \in Nat, Assembling(e, pl, lost, seq)
  PROVE  Assembling(e, Tail(pl), TRUE, seq)
<1>0. e.id \in 0..seq
  BY DEF Assembling
<1>1. ASSUME NEW v \in Nat, pl = <<Cells(v)>> PROVE Assembling(e, Tail(pl), TRUE, seq)
  <2>1. Tail(pl) = <<>>
    BY <1>1
  <2> QED BY <1>0, <2>1 DEF Assembling
<1>2. ASSUME NEW id \in 1..seq, NEW n \in Nat \ {0}, NEW v \in Nat, NEW j \in 0..n - 1, pl = Rest(id, n, v, j),
             IF lost THEN Misses(e, id, n, j) ELSE Collects(e, id, n, v, j)
      PROVE  Assembling(e, Tail(pl), TRUE, seq)
  <2>0. id \in Nat
    OBVIOUS
  <2>1. CASE j + 1 = n
    <3>1. Tail(pl) = <<>>
      BY <1>2, <2>0, <2>1, RestLast
    <3> QED BY <1>0, <3>1 DEF Assembling
  <2>2. CASE j + 1 # n
    <3>1. Tail(Rest(id, n, v, j)) = Rest(id, n, v, j + 1)
      BY <2>0, <2>2, RestTail
    <3>2. Tail(pl) = Rest(id, n, v, j + 1) /\ j + 1 \in 0..n - 1 /\ j + 1 >= 1
      BY <1>2, <2>2, <3>1
    <3>3. Misses(e, id, n, j + 1)
      <4>1. CASE lost
        <5>1. Misses(e, id, n, j) /\ 0..j - 1 \subseteq 0..(j + 1) - 1
          BY <1>2, <4>1
        <5> QED BY <3>2, <5>1 DEF Misses
      <4>2. CASE ~lost /\ j = 0
        BY <1>2, <3>2, <4>2 DEF Collects, Misses
      <4>3. CASE ~lost /\ j # 0
        <5> DEFINE ch == FirstChunks(n, v, j)
        <5>1. e = [id |-> id, count |-> n, received |-> j, chunks |-> ch]
          BY <1>2, <4>3 DEF Collects
        <5>2. ch \in [0..n - 1 -> (Nat \X Nat) \cup {None}]
          <6> SUFFICES ASSUME NEW i \in 0..n - 1 PROVE <<v, i>> \in Nat \X Nat
            BY DEF FirstChunks
          <6> QED OBVIOUS
        <5>3. ch[j] = None
          BY DEF FirstChunks
        <5>4. j \in 0..(j + 1) - 1 /\ j \in Nat
          OBVIOUS
        <5> HIDE DEF ch
        <5> QED BY <5>1, <5>2, <5>3, <5>4 DEF Misses
      <4> QED BY <4>1, <4>2, <4>3
    <3> QED BY <1>0, <3>2, <3>3 DEF Assembling
  <2> QED BY <2>1, <2>2
<1> QED BY <1>1, <1>2 DEF Assembling

(* A chunk arrives of a snapshot that has lost none so far.                 *)
LEMMA AddedCollects ==
  ASSUME NEW e, NEW id \in Nat, NEW n \in Nat \ {0}, NEW v \in Nat, NEW j \in 0..n - 1,
         Collects(e, id, n, v, j), NEW m, m = Chunk(id, j, n, v)
  PROVE  Added(e, m) = [id |-> id, count |-> n, received |-> j + 1, chunks |-> FirstChunks(n, v, j + 1)]
<1> DEFINE s == Started(e, m)
           ch == FirstChunks(n, v, j)
           ch2 == FirstChunks(n, v, j + 1)
<1>1. m.id = id /\ m.index = j /\ m.count = n /\ m.snap = v
  BY DEF Chunk
<1>2. s = [id |-> id, count |-> n, received |-> j, chunks |-> ch]
  <2>1. CASE j = 0
    <3>1. ch = [i \in 0..n - 1 |-> None]
      BY <2>1 DEF FirstChunks
    <3> HIDE DEF ch
    <3> QED BY <1>1, <2>1, <3>1 DEF Started, Collects
  <2>2. CASE j # 0
    <3>1. e = [id |-> id, count |-> n, received |-> j, chunks |-> ch]
      BY <2>2 DEF Collects
    <3> HIDE DEF ch
    <3> QED BY <1>1, <3>1 DEF Started
  <2> QED BY <2>1, <2>2
<1>3. ch[j] = None /\ ch2 = [ch EXCEPT ![j] = <<v, j>>]
  <2>1. \A i \in 0..n - 1 : i < j + 1 <=> i = j \/ i < j
    OBVIOUS
  <2>2. ch[j] = None
    BY DEF FirstChunks
  <2>3. ch2 = [i \in 0..n - 1 |-> IF i = j THEN <<v, j>> ELSE ch[i]]
    BY <2>1 DEF FirstChunks
  <2>4. DOMAIN ch = 0..n - 1
    BY DEF FirstChunks
  <2> HIDE DEF ch, ch2
  <2> QED BY <2>2, <2>3, <2>4
<1> HIDE DEF s, ch, ch2
<1>4. s.chunks = ch /\ s.received = j
  BY <1>2
<1>5. Added(e, m) = [s EXCEPT !.chunks[j] = <<v, j>>, !.received = @ + 1]
  BY <1>1, <1>3, <1>4 DEF Added, s
<1>6. Added(e, m) = [id |-> id, count |-> n, received |-> j + 1, chunks |-> ch2]
  BY <1>2, <1>3, <1>5
<1> QED BY <1>6 DEF ch2

(* One arrives of a snapshot that has lost one: it will never be ready.     *)
LEMMA AddedMisses ==
  ASSUME NEW e, NEW id \in Nat, NEW n \in Nat \ {0}, NEW v \in Nat, NEW j \in 0..n - 1,
         Misses(e, id, n, j), NEW m, m = Chunk(id, j, n, v)
  PROVE  Added(e, m).id = id /\ ~Ready(Added(e, m)) /\ Misses(Added(e, m), id, n, j + 1)
<1> DEFINE s == Started(e, m)
<1>1. m.id = id /\ m.index = j /\ m.count = n /\ m.snap = v
  BY DEF Chunk
<1>2. PICK ch \in [0..n - 1 -> (Nat \X Nat) \cup {None}], r \in Nat, k \in 0..j - 1 :
         s = [id |-> id, count |-> n, received |-> r, chunks |-> ch] /\ ch[k] = None
  <2>1. CASE j >= 1 /\ e.id # id
    <3> DEFINE ch == [i \in 0..n - 1 |-> None]
    <3>1. ch \in [0..n - 1 -> (Nat \X Nat) \cup {None}] /\ ch[0] = None
      OBVIOUS
    <3>2. s = [id |-> id, count |-> n, received |-> 0, chunks |-> ch] /\ 0 \in Nat /\ 0 \in 0..j - 1
      BY <1>1, <2>1 DEF Started
    <3> HIDE DEF ch, s
    <3> QED BY <3>1, <3>2
  <2>2. CASE e.id = id
    <3>1. PICK ch \in [0..n - 1 -> (Nat \X Nat) \cup {None}], r \in Nat, k \in 0..j - 1 :
             e = [id |-> id, count |-> n, received |-> r, chunks |-> ch] /\ ch[k] = None
      BY <2>2 DEF Misses
    <3>2. s = e
      BY <1>1, <2>2 DEF Started
    <3> QED BY <3>1, <3>2
  <2> QED BY <2>1, <2>2 DEF Misses
<1> HIDE DEF s
<1> DEFINE ch2 == [ch EXCEPT ![j] = <<v, j>>]
<1>3. k # j /\ k \in 0..n - 1 /\ k \in 0..(j + 1) - 1 /\ r + 1 \in Nat
  OBVIOUS
<1>4. ch2 \in [0..n - 1 -> (Nat \X Nat) \cup {None}] /\ ch2[k] = None
  <2>1. <<v, j>> \in Nat \X Nat
    OBVIOUS
  <2> QED BY <1>2, <1>3, <2>1
<1> HIDE DEF ch2
<1>5. s.chunks = ch /\ s.received = r
  BY <1>2
<1>6. \/ Added(e, m) = s
      \/ Added(e, m) = [s EXCEPT !.chunks[j] = <<v, j>>, !.received = @ + 1]
  BY <1>1, <1>5 DEF Added, s
<1>7. \/ Added(e, m) = [id |-> id, count |-> n, received |-> r, chunks |-> ch]
      \/ Added(e, m) = [id |-> id, count |-> n, received |-> r + 1, chunks |-> ch2]
  BY <1>2, <1>6 DEF ch2
<1>8. PICK c \in [0..n - 1 -> (Nat \X Nat) \cup {None}], q \in Nat :
         Added(e, m) = [id |-> id, count |-> n, received |-> q, chunks |-> c] /\ c[k] = None
  BY <1>2, <1>3, <1>4, <1>7
<1>9. Added(e, m).id = id /\ Added(e, m).chunks = c
  BY <1>8
<1>10. ~Ready(Added(e, m))
  BY <1>3, <1>8, <1>9 DEF Ready
<1>11. Misses(Added(e, m), id, n, j + 1)
  BY <1>3, <1>8 DEF Misses
<1> QED BY <1>9, <1>10, <1>11

(* What a snapshot of n parts gives when it is put together is the same     *)
(* whichever of its chunks one asks.                                        *)
LEMMA CollectedIsWhole ==
  ASSUME NEW id \in Nat, NEW n \in Nat \ {0}, NEW v \in Nat, NEW k \in 1..n, NEW i, NEW c,
         c.received = k, c.count = n, c.chunks = FirstChunks(n, v, k)
  PROVE  /\ Ready(c) <=> k = n
         /\ Ready(c) => Assembled(c) = Parts(Chunk(id, i, n, v))
<1> DEFINE ch == FirstChunks(n, v, k)
<1>1. c.received = k /\ c.count = n /\ c.chunks = ch /\ DOMAIN ch = 0..n - 1
  BY DEF FirstChunks
<1>2. ASSUME k = n PROVE \A l \in 0..n - 1 : ch[l] = <<v, l>> /\ ch[l] # None
  <2> SUFFICES ASSUME NEW l \in 0..n - 1 PROVE ch[l] = <<v, l>> /\ ch[l] # None
    OBVIOUS
  <2>1. ch[l] = <<v, l>>
    BY <1>2 DEF FirstChunks
  <2>2. <<v, l>> \in Nat \X Nat
    OBVIOUS
  <2> QED BY <2>1, <2>2, PathStreamAssumption
<1> HIDE DEF ch
<1>3. Ready(c) <=> k = n
  BY <1>1, <1>2 DEF Ready
<1>4. ASSUME k = n PROVE Assembled(c) = Parts(Chunk(id, i, n, v))
  <2>1. Assembled(c) = {<<v, l>> : l \in 0..n - 1}
    BY <1>1, <1>2, <1>4 DEF Assembled
  <2>2. Parts(Chunk(id, i, n, v)) = {<<v, l>> : l \in 0..n - 1}
    BY DEF Parts, Chunk
  <2> QED BY <2>1, <2>2
<1> QED BY <1>3, <1>4

(* A payload arrives, and with the last one of a snapshot that has lost     *)
(* none the snapshot is shown.                                              *)
LEMMA AssemblingDelivered ==
  ASSUME NEW e, NEW pl, pl # <<>>, NEW lost \in BOOLEAN, NEW seq \in Nat, Assembling(e, pl, lost, seq),
         NEW w \in Seq(Snaps), NEW w2,
         w2 = IF Len(pl) = 1 /\ ~lost THEN Append(w, Parts(Head(pl))) ELSE w
  PROVE  \E b : ReadAs(w, e, Head(pl), w2, b) /\ Assembling(b, Tail(pl), lost, seq)
<1>0. e.id \in 0..seq
  BY DEF Assembling
<1>1. ASSUME ~lost, NEW v \in Nat, pl = <<Cells(v)>>
      PROVE  \E b : ReadAs(w, e, Head(pl), w2, b) /\ Assembling(b, Tail(pl), lost, seq)
  <2>1. Tail(pl) = <<>> /\ Len(pl) = 1 /\ Head(pl) = Cells(v) /\ Cells(v).type = "cells"
    BY <1>1 DEF Cells
  <2>2. ReadAs(w, e, Head(pl), w2, e)
    BY <1>1, <2>1 DEF ReadAs
  <2>3. Assembling(e, Tail(pl), lost, seq)
    BY <1>0, <2>1 DEF Assembling
  <2> QED BY <2>2, <2>3
<1>2. ASSUME NEW id \in 1..seq, NEW n \in Nat \ {0}, NEW v \in Nat, NEW j \in 0..n - 1, pl = Rest(id, n, v, j),
             IF lost THEN Misses(e, id, n, j) ELSE Collects(e, id, n, v, j)
      PROVE  \E b : ReadAs(w, e, Head(pl), w2, b) /\ Assembling(b, Tail(pl), lost, seq)
  <2> DEFINE m == Chunk(id, j, n, v)
             c == Added(e, m)
  <2>0. id \in Nat
    OBVIOUS
  <2>1. Head(pl) = m
    BY <1>2, <2>0, RestIs
  <2>2. Len(pl) = n - j
    <3>1. Len(Rest(id, n, v, j)) = n - j
      BY <2>0, RestIs
    <3> QED BY <1>2, <3>1
  <2>3. m.type = "chunk"
    BY DEF Chunk
  <2>4. CASE lost
    <3>1. c.id = id /\ ~Ready(c) /\ Misses(c, id, n, j + 1)
      BY <1>2, <2>0, <2>4, AddedMisses
    <3> HIDE DEF m
    <3>2. ReadAs(w, e, m, w2, c)
      BY <2>3, <2>4, <3>1 DEF ReadAs
    <3>3. Assembling(c, Tail(pl), lost, seq)
      <4>1. c.id \in 0..seq
        BY <3>1
      <4>2. CASE j + 1 = n
        <5>1. Tail(pl) = <<>>
          BY <1>2, <2>0, <4>2, RestLast
        <5> QED BY <4>1, <5>1 DEF Assembling
      <4>3. CASE j + 1 # n
        <5>1. Tail(pl) = Rest(id, n, v, j + 1)
          BY <1>2, <2>0, <4>3, RestTail
        <5>2. j + 1 \in 0..n - 1
          BY <4>3
        <5> HIDE DEF c
        <5> QED BY <2>4, <3>1, <4>1, <5>1, <5>2 DEF Assembling
      <4> QED BY <4>2, <4>3
    <3> QED BY <2>1, <3>2, <3>3
  <2>5. CASE ~lost
    <3> DEFINE ch == FirstChunks(n, v, j + 1)
    <3>1. c = [id |-> id, count |-> n, received |-> j + 1, chunks |-> ch]
      BY <1>2, <2>0, <2>5, AddedCollects
    <3>2. (Ready(c) <=> j + 1 = n) /\ (Ready(c) => Assembled(c) = Parts(m))
      <4> HIDE DEF c
      <4>1. PICK k \in 1..n : k = j + 1
        OBVIOUS
      <4>2. c.received = k /\ c.count = n /\ c.chunks = FirstChunks(n, v, k)
        BY <3>1, <4>1
      <4>3. (Ready(c) <=> k = n) /\ (Ready(c) => Assembled(c) = Parts(m))
        BY <2>0, <4>2, CollectedIsWhole
      <4> QED BY <4>1, <4>3
    <3>3. Len(pl) = 1 <=> j + 1 = n
      BY <2>2
    <3> HIDE DEF m, c, ch
    <3>4. CASE j + 1 = n
      <4>1. Ready(c) /\ w2 = Append(w, Assembled(c))
        BY <2>1, <2>5, <3>2, <3>3, <3>4
      <4>2. ReadAs(w, e, m, w2, Assembler)
        BY <2>3, <4>1 DEF ReadAs, c
      <4>3. Tail(pl) = <<>>
        BY <1>2, <2>0, <3>4, RestLast
      <4>4. Assembling(Assembler, Tail(pl), lost, seq)
        BY <4>3 DEF Assembling, Assembler
      <4> QED BY <2>1, <4>2, <4>4
    <3>5. CASE j + 1 # n
      <4>1. ~Ready(c) /\ w2 = w
        BY <3>2, <3>3, <3>5
      <4>2. ReadAs(w, e, m, w2, c)
        BY <2>3, <4>1 DEF ReadAs, c
      <4>3. Tail(pl) = Rest(id, n, v, j + 1)
        BY <1>2, <2>0, <3>5, RestTail
      <4>4. j + 1 \in 0..n - 1 /\ j + 1 # 0 /\ c.id \in 0..seq
        BY <3>1, <3>5
      <4>5. Collects(c, id, n, v, j + 1)
        BY <3>1, <4>4 DEF Collects, ch
      <4>6. Assembling(c, Tail(pl), lost, seq)
        BY <2>5, <4>3, <4>4, <4>5 DEF Assembling
      <4> QED BY <2>1, <4>2, <4>6
    <3> QED BY <3>4, <3>5
  <2> QED BY <2>4, <2>5
<1> QED BY <1>1, <1>2 DEF Assembling

-----------------------------------------------------------------------------
(* The inductive invariant.                                                 *)

StreamTypes ==
  /\ taken \in Nat /\ snapshotSeq \in Nat /\ (pending # None => pending.snap \in Nat)
  /\ buffer \in [Subs -> Seq(Nat)]
  /\ payloads \in [Subs -> Seq(Messages)] /\ inbox \in [Subs -> Seq(Messages)]
  /\ DOMAIN assembler = Subs
  /\ shown \in [Subs -> Seq(Snaps)] /\ intact \in [Subs -> Seq(Snaps)]

(* The stream begins with the answer and nothing follows its last message.  *)
ProtocolInv(s) ==
  /\ server[s] \in Early \cup {"installed"} => inbox[s] = <<>>
  /\ payloads[s] # <<>> => server[s] = "serving"
  /\ \A i \in 1..Len(inbox[s]) : inbox[s][i].type = "done" => i = Len(inbox[s]) /\ server[s] = "gone"
  /\ client[s] = "closed" => inbox[s] = <<>> /\ server[s] = "gone"
  /\ client[s] = "waiting" /\ inbox[s] # <<>> => inbox[s][1].type \in {"ok", "error"}
  /\ client[s] = "waiting" /\ server[s] = "serving" => inbox[s] # <<>>

Lost(s) == IF s \in spoiled THEN TRUE ELSE FALSE

WholeInv(s) == Whole(shown[s], assembler[s], inbox[s], intact[s], payloads[s], Lost(s), snapshotSeq)

DeliveryInv == ChannelInv /\ StreamTypes /\ \A s \in Subs : ProtocolInv(s) /\ WholeInv(s)

-----------------------------------------------------------------------------
(* What a step leaves alone, and the step of one stream.                    *)

Kept(s) ==
  /\ inbox'[s] = inbox[s] /\ payloads'[s] = payloads[s]
  /\ server'[s] = server[s] /\ client'[s] = client[s]
  /\ assembler'[s] = assembler[s] /\ shown'[s] = shown[s] /\ intact'[s] = intact[s]
  /\ s \in spoiled' <=> s \in spoiled

OneStream(s) ==
  /\ StreamTypes' /\ snapshotSeq <= snapshotSeq' /\ \A t \in Subs \ {s} : Kept(t)
  /\ ProtocolInv(s)' /\ WholeInv(s)'

NoStream == StreamTypes' /\ snapshotSeq <= snapshotSeq' /\ \A t \in Subs : Kept(t)

LEMMA KeptStaysWhole ==
  ASSUME StreamTypes, StreamTypes', snapshotSeq <= snapshotSeq', NEW s \in Subs, Kept(s), ProtocolInv(s), WholeInv(s)
  PROVE  ProtocolInv(s)' /\ WholeInv(s)'
<1>1. ProtocolInv(s)'
  BY DEF Kept, ProtocolInv
<1>2. Lost(s) \in BOOLEAN /\ Lost(s)' = Lost(s)
  BY DEF Lost, Kept
<1>3. snapshotSeq \in Nat /\ snapshotSeq' \in Nat
  BY DEF StreamTypes
<1>4. \A e : Assembling(e, payloads[s], Lost(s), snapshotSeq) => Assembling(e, payloads[s], Lost(s), snapshotSeq')
  BY <1>2, <1>3, AssemblingLater
<1>5. Whole(shown[s], assembler[s], inbox[s], intact[s], payloads[s], Lost(s), snapshotSeq')
  BY <1>4, WholeSame DEF WholeInv
<1> QED BY <1>1, <1>2, <1>5 DEF Kept, WholeInv

(* The steps of the run.                                                    *)
LEMMA RunKeepsStreams ==
  ASSUME DeliveryInv, FirstPlan \/ PublishAgain \/ Publishing \/ Cancel \/ End
  PROVE  NoStream
<1> USE DEF runVars, publishVars, clientVars, deliveries
<1>1. /\ UNCHANGED <<snapshotSeq, payloads, inbox, server, client, assembler, shown, intact, spoiled>>
      /\ taken \in Nat
  BY DEF FirstPlan, PublishAgain, Publishing, Send, SendCancelled, SendTimesOut, Cancel, End, DeliveryInv, StreamTypes
<1>2. buffer' \in [Subs -> Seq(Nat)]
  <2>1. buffer \in [Subs -> Seq(Nat)]
    BY DEF DeliveryInv, StreamTypes
  <2>2. CASE Send
    <3>1. pending.to \in Subs /\ pending.snap \in Nat
      BY <2>2 DEF Send, DeliveryInv, StreamTypes, ChannelInv, ChannelTypes, PendingInv
    <3>2. Append(buffer[pending.to], pending.snap) \in Seq(Nat)
      BY <2>1, <3>1
    <3> QED BY <2>1, <2>2, <3>1, <3>2 DEF Send
  <2>3. CASE ~Send
    BY <2>1, <2>3 DEF FirstPlan, PublishAgain, Publishing, SendCancelled, SendTimesOut, Cancel, End
  <2> QED BY <2>2, <2>3
<1>3. taken' \in Nat /\ (pending' # None => pending'.snap \in Nat)
  <2>1. CASE FirstPlan \/ PublishAgain
    <3>1. CASE publisher = None
      BY <2>1, <3>1 DEF FirstPlan, PublishAgain, TakeSnapshot, DeliveryInv, StreamTypes
    <3>2. CASE publisher # None
      <4>1. pending' = [to |-> publisher, snap |-> taken + 1] /\ taken' = taken + 1
        BY <2>1, <3>2 DEF FirstPlan, PublishAgain, TakeSnapshot
      <4> QED BY <1>1, <4>1
    <3> QED BY <3>1, <3>2
  <2>2. CASE Publishing \/ Cancel \/ End
    <3>1. taken' = taken /\ (pending' = None \/ pending' = pending)
      BY <2>2 DEF Publishing, Send, SendCancelled, SendTimesOut, Cancel, End
    <3> QED BY <1>1, <3>1 DEF DeliveryInv, StreamTypes
  <2> QED BY <2>1, <2>2
<1>4. StreamTypes'
  BY <1>1, <1>2, <1>3 DEF DeliveryInv, StreamTypes
<1>5. snapshotSeq \in Nat
  BY DEF DeliveryInv, StreamTypes
<1> QED BY <1>1, <1>4, <1>5 DEF NoStream, Kept

(* The steps that move nothing but a call.                                  *)
LEMMA CallStep ==
  ASSUME DeliveryInv, NEW s \in Subs,
         \/ AgentPathSub(s) \/ Accept(s) \/ SetPathPublisher(s)
         \/ ConfirmFails(s) \/ FinishFails(s) \/ GiveUp(s)
  PROVE  OneStream(s)
<1> USE DEF runVars, publishVars, clientVars, deliveries
<1>1. /\ UNCHANGED <<taken, snapshotSeq, pending, buffer, payloads, inbox, assembler, shown, intact, spoiled>>
      /\ \A t \in Subs \ {s} : server'[t] = server[t] /\ client'[t] = client[t]
  BY DEF AgentPathSub, Accept, SetPathPublisher, ConfirmFails, MayFinish, FinishFails, GiveUp,
         DeliveryInv, ChannelInv, ChannelTypes
<1>2. /\ server \in [Subs -> Early \cup Late] /\ client \in [Subs -> ClientModes]
      /\ client[s] = "idle" => server[s] = "idle"
  BY DEF DeliveryInv, ChannelInv, ChannelTypes, GivenInv
<1>3. ProtocolInv(s) /\ WholeInv(s) /\ StreamTypes
  BY DEF DeliveryInv
<1>4. ProtocolInv(s)'
  <2>1. CASE AgentPathSub(s)
    <3>1. server[s] = "idle" /\ server'[s] = "asked" /\ client'[s] = "waiting"
      BY <1>2, <2>1 DEF AgentPathSub
    <3>2. inbox'[s] = <<>> /\ payloads'[s] = <<>>
      BY <1>1, <1>3, <3>1 DEF ProtocolInv, Early
    <3> QED BY <3>1, <3>2 DEF ProtocolInv, Early
  <2>2. CASE Accept(s) \/ SetPathPublisher(s) \/ ConfirmFails(s)
    <3>1. /\ server[s] \in Early \cup {"installed"} /\ server[s] \notin {"gone", "serving"}
          /\ server'[s] \notin {"serving"} /\ client'[s] = client[s]
      BY <1>2, <2>2 DEF Accept, SetPathPublisher, ConfirmFails, Early
    <3>2. inbox'[s] = <<>> /\ payloads'[s] = <<>>
      BY <1>1, <1>3, <3>1 DEF ProtocolInv
    <3>3. client'[s] # "closed"
      BY <1>3, <3>1 DEF ProtocolInv
    <3> QED BY <3>1, <3>2, <3>3 DEF ProtocolInv
  <2>3. CASE GiveUp(s)
    <3>1. server'[s] = server[s] /\ client'[s] = "refused"
      BY <1>2, <2>3 DEF GiveUp
    <3> QED BY <1>1, <1>3, <3>1 DEF ProtocolInv
  <2>4. CASE FinishFails(s)
    <3>1. /\ server[s] = "serving" /\ server'[s] = "gone"
          /\ payloads[s] = <<>> /\ client'[s] = client[s]
      BY <1>2, <2>4 DEF MayFinish, FinishFails
    <3> QED BY <1>1, <1>3, <3>1 DEF ProtocolInv, Early
  <2> QED BY <2>1, <2>2, <2>3, <2>4
<1>5. StreamTypes' /\ snapshotSeq <= snapshotSeq'
  BY <1>1, <1>3 DEF StreamTypes
<1>6. WholeInv(s)'
  BY <1>1, <1>3 DEF WholeInv, Lost
<1> QED BY <1>1, <1>4, <1>5, <1>6 DEF OneStream, Kept

-----------------------------------------------------------------------------
(* Messages to the inbox.                                                   *)

LEMMA PutIs ==
  ASSUME StreamTypes, NEW s \in Subs, NEW m \in Messages, Put(s, m)
  PROVE  /\ inbox' \in [Subs -> Seq(Messages)]
         /\ \A t \in Subs \ {s} : inbox'[t] = inbox[t]
         /\ inbox'[s] = IF Arrives(s) THEN Append(inbox[s], m) ELSE inbox[s]
<1>1. inbox \in [Subs -> Seq(Messages)] /\ Append(inbox[s], m) \in Seq(Messages)
  BY DEF StreamTypes
<1> HIDE DEF Messages
<1> QED BY <1>1 DEF Put

LEMMA AppendedIs ==
  ASSUME NEW q \in Seq(Messages), NEW m \in Messages, NEW p, p = Append(q, m)
  PROVE  /\ p # <<>> /\ Len(p) = Len(q) + 1 /\ Len(q) \in Nat
         /\ p[Len(q) + 1] = m /\ \A i \in 1..Len(q) : p[i] = q[i]
         /\ p[1] = IF q = <<>> THEN m ELSE q[1]
<1>1. /\ p # <<>> /\ Len(p) = Len(q) + 1 /\ Len(q) \in Nat
      /\ p[Len(q) + 1] = m /\ \A i \in 1..Len(q) : p[i] = q[i]
  BY AppendProperties
<1>2. CASE q = <<>>
  BY <1>1, <1>2
<1>3. CASE q # <<>>
  <2>1. 1 \in 1..Len(q)
    BY <1>3
  <2> QED BY <1>1, <1>3, <2>1
<1> QED BY <1>1, <1>2, <1>3

LEMMA AnswerAppended ==
  ASSUME NEW x, NEW a, NEW q \in Seq(Messages), NEW w \in Seq(Snaps), NEW pl, NEW lost, NEW seq,
         Whole(x, a, q, w, pl, lost, seq), NEW m \in Answers
  PROVE  Whole(x, a, Append(q, m), w, pl, lost, seq)
<1>1. m \in Messages /\ m.type \in {"ok", "error", "done"}
  BY DEF Messages, Answers, Ok, Error, Done
<1>2. Prefix(w, w)
  BY DEF Prefix
<1>3. \A e : ReadAs(w, e, m, w, e)
  BY <1>1 DEF ReadAs
<1>4. \A e : Assembling(e, pl, lost, seq) => \E b : ReadAs(w, e, m, w, b) /\ Assembling(b, pl, lost, seq)
  BY <1>3
<1> QED BY <1>1, <1>2, <1>4, WholeAppend

(* The answer, and the last message.                                        *)
LEMMA AnswerStep ==
  ASSUME DeliveryInv, NEW s \in Subs, Refuse(s) \/ Confirm(s) \/ Finish(s)
  PROVE  OneStream(s)
<1> USE DEF runVars, publishVars, clientVars, deliveries
<1>1. /\ UNCHANGED <<taken, snapshotSeq, pending, buffer, payloads, client, assembler, shown, intact, spoiled>>
      /\ \A t \in Subs \ {s} : server'[t] = server[t]
  BY DEF Refuse, Confirm, MayFinish, Finish, DeliveryInv, ChannelInv, ChannelTypes
<1>2. server \in [Subs -> Early \cup Late]
  BY DEF DeliveryInv, ChannelInv, ChannelTypes
<1>3. ProtocolInv(s) /\ WholeInv(s) /\ StreamTypes
  BY DEF DeliveryInv
<1>4. inbox[s] \in Seq(Messages) /\ intact[s] \in Seq(Snaps)
  BY <1>3 DEF StreamTypes
<1>5. PICK m \in Answers :
        /\ Put(s, m)
        /\ \/ server[s] = "asked" /\ server'[s] = "gone" /\ m = Error
           \/ server[s] = "installed" /\ server'[s] = "serving" /\ m = Ok
           \/ server[s] = "serving" /\ server'[s] = "gone" /\ m = Done /\ payloads[s] = <<>>
  BY <1>2 DEF Refuse, Confirm, MayFinish, Finish, Answers
<1>6. m \in Messages
  BY DEF Messages
<1>7. /\ inbox' \in [Subs -> Seq(Messages)]
      /\ \A t \in Subs \ {s} : inbox'[t] = inbox[t]
      /\ inbox'[s] = IF Arrives(s) THEN Append(inbox[s], m) ELSE inbox[s]
  BY <1>3, <1>5, <1>6, PutIs
<1>8. WholeInv(s)'
  <2>1. Whole(shown[s], assembler[s], Append(inbox[s], m), intact[s], payloads[s], Lost(s), snapshotSeq)
    BY <1>3, <1>4, AnswerAppended DEF WholeInv
  <2> QED BY <1>1, <1>3, <1>7, <2>1 DEF WholeInv, Lost
<1>9. ProtocolInv(s)'
  <2>0. payloads'[s] = <<>>
    BY <1>1, <1>3, <1>5 DEF ProtocolInv
  <2>1. client[s] # "closed" /\ \A i \in 1..Len(inbox[s]) : inbox[s][i].type # "done"
    BY <1>3, <1>5 DEF ProtocolInv
  <2>2. CASE ~Arrives(s)
    <3>1. inbox'[s] = inbox[s]
      BY <1>7, <2>2
    <3>2. CASE client[s] = "waiting"
      <4>1. inbox[s] # <<>>
        <5>1. Len(<<>>) = 0 /\ InboxSize \in Nat \ {0}
          BY PathStreamAssumption
        <5> QED BY <2>2, <3>2, <5>1 DEF Arrives
      <4> QED BY <1>1, <1>3, <1>5, <2>0, <2>1, <3>1, <3>2, <4>1 DEF ProtocolInv, Early
    <3>3. CASE client[s] # "waiting"
      BY <1>1, <1>3, <1>5, <2>0, <2>1, <3>1, <3>3 DEF ProtocolInv, Early
    <3> QED BY <3>2, <3>3
  <2>3. CASE Arrives(s)
    <3>1. /\ inbox'[s] # <<>> /\ Len(inbox'[s]) = Len(inbox[s]) + 1 /\ Len(inbox[s]) \in Nat
          /\ inbox'[s][Len(inbox[s]) + 1] = m /\ \A i \in 1..Len(inbox[s]) : inbox'[s][i] = inbox[s][i]
          /\ inbox'[s][1] = IF inbox[s] = <<>> THEN m ELSE inbox[s][1]
      BY <1>4, <1>6, <1>7, <2>3, AppendedIs
    <3>2. \A i \in 1..Len(inbox'[s]) : inbox'[s][i].type = "done" => i = Len(inbox'[s]) /\ server'[s] = "gone"
      <4> SUFFICES ASSUME NEW i \in 1..Len(inbox'[s]), inbox'[s][i].type = "done"
                   PROVE  i = Len(inbox'[s]) /\ server'[s] = "gone"
        OBVIOUS
      <4>1. i = Len(inbox[s]) + 1
        BY <2>1, <3>1
      <4>2. m.type = "done"
        BY <3>1, <4>1
      <4> QED BY <1>5, <3>1, <4>1, <4>2 DEF Ok, Error
    <3>3. client[s] = "waiting" => inbox'[s][1].type \in {"ok", "error"}
      <4>1. CASE inbox[s] = <<>>
        <5>1. client[s] = "waiting" => server[s] # "serving"
          BY <1>3, <4>1 DEF ProtocolInv
        <5> QED BY <1>5, <3>1, <4>1, <5>1 DEF Ok, Error
      <4>2. CASE inbox[s] # <<>>
        BY <1>3, <3>1, <4>2 DEF ProtocolInv
      <4> QED BY <4>1, <4>2
    <3>4. server'[s] \notin Early \cup {"installed"}
      BY <1>5 DEF Early
    <3> QED BY <1>1, <2>0, <2>1, <3>1, <3>2, <3>3, <3>4 DEF ProtocolInv
  <2> QED BY <2>2, <2>3
<1>10. StreamTypes' /\ snapshotSeq <= snapshotSeq'
  BY <1>1, <1>3, <1>7 DEF StreamTypes
<1> QED BY <1>1, <1>7, <1>8, <1>9, <1>10 DEF OneStream, Kept

-----------------------------------------------------------------------------
(* The payloads of a snapshot.                                              *)

LEMMA MarshalIs ==
  ASSUME NEW v \in Nat, NEW n \in Nat, NEW id \in Nat
  PROVE  Marshal(v, n, id) \in Seq(Messages)
<1>1. CASE n = 0
  <2>1. Cells(v) \in Messages
    BY DEF Messages
  <2>2. Marshal(v, n, id) = <<Cells(v)>>
    BY <1>1 DEF Marshal, Cells
  <2> HIDE DEF Messages
  <2> QED BY <2>1, <2>2
<1>2. CASE n # 0
  <2>1. Marshal(v, n, id) = Rest(id, n, v, 0)
    <3>1. n - 0 = n /\ \A i \in 1..n : 0 + i - 1 = i - 1
      BY <1>2
    <3> QED BY <1>2, <3>1 DEF Marshal, Rest, Chunk
  <2>2. n \in Nat \ {0} /\ 0 \in 0..n - 1
    BY <1>2
  <2> QED BY <2>1, <2>2, RestIs
<1> QED BY <1>1, <1>2

LEMMA PayloadIs ==
  ASSUME NEW e, NEW pl \in Seq(Messages), pl # <<>>, NEW lost, NEW seq \in Nat, Assembling(e, pl, lost, seq)
  PROVE  Head(pl) \in Messages /\ Head(pl).type \in {"cells", "chunk"}
<1>1. Head(pl) \in Messages
  BY HeadTailProperties
<1>2. ASSUME NEW v \in Nat, pl = <<Cells(v)>> PROVE Head(pl).type \in {"cells", "chunk"}
  BY <1>2 DEF Cells
<1>3. ASSUME NEW id \in 1..seq, NEW n \in Nat \ {0}, NEW v \in Nat, NEW j \in 0..n - 1, pl = Rest(id, n, v, j)
      PROVE  Head(pl).type \in {"cells", "chunk"}
  <2>1. id \in Nat
    OBVIOUS
  <2>2. Head(pl) = Chunk(id, j, n, v)
    BY <1>3, <2>1, RestIs
  <2> QED BY <2>2 DEF Chunk
<1> QED BY <1>1, <1>2, <1>3 DEF Assembling

LEMMA ReceiveStep == ASSUME DeliveryInv, NEW s \in Subs, Receive(s) PROVE OneStream(s)
<1> USE DEF runVars, publishVars, clientVars, deliveries
<1>1. PICK n \in Sizes :
        /\ server[s] = "serving" /\ payloads[s] = <<>> /\ buffer[s] # <<>>
        /\ buffer' = [buffer EXCEPT ![s] = Tail(@)]
        /\ snapshotSeq' = IF n = 0 THEN snapshotSeq ELSE snapshotSeq + 1
        /\ payloads' = [payloads EXCEPT ![s] = Marshal(Head(buffer[s]), n, snapshotSeq')]
        /\ spoiled' = spoiled \ {s}
        /\ UNCHANGED <<taken, pending, server, client, inbox, assembler, shown, intact>>
  BY DEF Receive
<1>2. ProtocolInv(s) /\ WholeInv(s) /\ StreamTypes
  BY DEF DeliveryInv
<1>3. n \in Nat /\ snapshotSeq \in Nat /\ buffer[s] \in Seq(Nat)
  BY <1>2, PathStreamAssumption DEF StreamTypes
<1>4. Head(buffer[s]) \in Nat /\ Tail(buffer[s]) \in Seq(Nat)
  BY <1>1, <1>3
<1>5. snapshotSeq' \in Nat /\ snapshotSeq <= snapshotSeq'
  BY <1>1, <1>3
<1>6. Marshal(Head(buffer[s]), n, snapshotSeq') \in Seq(Messages)
  BY <1>3, <1>4, <1>5, MarshalIs
<1>7. /\ payloads' \in [Subs -> Seq(Messages)] /\ payloads'[s] = Marshal(Head(buffer[s]), n, snapshotSeq')
      /\ \A t \in Subs \ {s} : payloads'[t] = payloads[t]
  <2>1. payloads \in [Subs -> Seq(Messages)]
    BY <1>2 DEF StreamTypes
  <2> HIDE DEF Messages
  <2> QED BY <1>1, <1>6, <2>1
<1>8. StreamTypes'
  <2>1. buffer' \in [Subs -> Seq(Nat)]
    BY <1>1, <1>2, <1>4 DEF StreamTypes
  <2> QED BY <1>1, <1>2, <1>5, <1>7, <2>1 DEF StreamTypes
<1>9. ProtocolInv(s)'
  BY <1>1, <1>2 DEF ProtocolInv, Early
<1>10. WholeInv(s)'
  <2>1. Lost(s)' = FALSE
    BY <1>1 DEF Lost
  <2>2. \A e : Assembling(e, payloads[s], Lost(s), snapshotSeq) =>
                 Assembling(e, Marshal(Head(buffer[s]), n, snapshotSeq'), FALSE, snapshotSeq')
    BY <1>1, <1>3, <1>4, AssemblingNext
  <2>3. Whole(shown[s], assembler[s], inbox[s], intact[s], Marshal(Head(buffer[s]), n, snapshotSeq'),
              FALSE, snapshotSeq')
    BY <1>2, <2>2, WholeSame DEF WholeInv
  <2> QED BY <1>1, <1>7, <2>1, <2>3 DEF WholeInv
<1> QED BY <1>1, <1>5, <1>7, <1>8, <1>9, <1>10 DEF OneStream, Kept

LEMMA PublishFailsStep == ASSUME DeliveryInv, NEW s \in Subs, PublishFails(s) PROVE OneStream(s)
<1> USE DEF runVars, publishVars, clientVars, deliveries
<1>1. /\ payloads' = [payloads EXCEPT ![s] = <<>>]
      /\ UNCHANGED <<taken, pending, buffer, snapshotSeq, server, client, inbox, assembler, shown, intact, spoiled>>
  BY DEF PublishFails
<1>2. ProtocolInv(s) /\ WholeInv(s) /\ StreamTypes
  BY DEF DeliveryInv
<1>3. /\ payloads' \in [Subs -> Seq(Messages)] /\ payloads'[s] = <<>>
      /\ \A t \in Subs \ {s} : payloads'[t] = payloads[t]
  <2>1. payloads \in [Subs -> Seq(Messages)] /\ <<>> \in Seq(Messages)
    BY <1>2 DEF StreamTypes
  <2> HIDE DEF Messages
  <2> QED BY <1>1, <2>1
<1>4. StreamTypes' /\ snapshotSeq <= snapshotSeq'
  BY <1>1, <1>2, <1>3 DEF StreamTypes
<1>5. ProtocolInv(s)'
  BY <1>1, <1>2, <1>3 DEF ProtocolInv
<1>6. WholeInv(s)'
  <2>1. \A e : Assembling(e, payloads[s], Lost(s), snapshotSeq) => Assembling(e, <<>>, Lost(s), snapshotSeq)
    BY DEF Assembling
  <2>2. Whole(shown[s], assembler[s], inbox[s], intact[s], <<>>, Lost(s), snapshotSeq)
    BY <1>2, <2>1, WholeSame DEF WholeInv
  <2> QED BY <1>1, <1>3, <2>2 DEF WholeInv, Lost
<1> QED BY <1>1, <1>3, <1>4, <1>5, <1>6 DEF OneStream, Kept

LEMMA PublishPayloadStep == ASSUME DeliveryInv, NEW s \in Subs, PublishPayload(s) PROVE OneStream(s)
<1> USE DEF runVars, publishVars, clientVars, deliveries
<1> DEFINE q == inbox[s]
           w == intact[s]
           pl == payloads[s]
           m == Head(pl)
<1>1. /\ pl # <<>>
      /\ payloads' = [payloads EXCEPT ![s] = Tail(@)]
      /\ Put(s, m)
      /\ spoiled' = IF Arrives(s) THEN spoiled ELSE spoiled \cup {s}
      /\ intact' = IF Len(pl) = 1 /\ s \notin spoiled' THEN [intact EXCEPT ![s] = Append(@, Parts(m))] ELSE intact
      /\ UNCHANGED <<taken, pending, buffer, snapshotSeq, server, client, assembler, shown>>
  BY DEF PublishPayload
<1>2. ProtocolInv(s) /\ WholeInv(s) /\ StreamTypes
  BY DEF DeliveryInv
<1>3. q \in Seq(Messages) /\ w \in Seq(Snaps) /\ pl \in Seq(Messages) /\ snapshotSeq \in Nat /\ Lost(s) \in BOOLEAN
  BY <1>2 DEF StreamTypes, Lost
<1>4. m \in Messages /\ m.type \in {"cells", "chunk"} /\ Parts(m) \in Snaps
  <2>1. PICK e : Assembling(e, pl, Lost(s), snapshotSeq)
    BY <1>2 DEF WholeInv, Whole
  <2>2. m \in Messages /\ m.type \in {"cells", "chunk"}
    BY <1>1, <1>3, <2>1, PayloadIs
  <2> QED BY <2>2, PartsAre
<1>5. /\ inbox' \in [Subs -> Seq(Messages)]
      /\ \A t \in Subs \ {s} : inbox'[t] = inbox[t]
      /\ inbox'[s] = IF Arrives(s) THEN Append(q, m) ELSE q
  BY <1>1, <1>2, <1>4, PutIs
<1>6. /\ payloads' \in [Subs -> Seq(Messages)] /\ payloads'[s] = Tail(pl)
      /\ \A t \in Subs \ {s} : payloads'[t] = payloads[t]
  <2>1. payloads \in [Subs -> Seq(Messages)] /\ Tail(pl) \in Seq(Messages)
    BY <1>1, <1>2, <1>3, HeadTailProperties DEF StreamTypes
  <2> HIDE DEF Messages
  <2> QED BY <1>1, <2>1
<1> DEFINE w2 == IF Len(pl) = 1 /\ s \notin spoiled' THEN Append(w, Parts(m)) ELSE w
<1>7. /\ intact' \in [Subs -> Seq(Snaps)] /\ intact'[s] = w2 /\ w2 \in Seq(Snaps)
      /\ \A t \in Subs \ {s} : intact'[t] = intact[t]
  <2>1. intact \in [Subs -> Seq(Snaps)] /\ Append(w, Parts(m)) \in Seq(Snaps)
    BY <1>2, <1>3, <1>4, AppendProperties DEF StreamTypes
  <2> HIDE DEF Snaps, m, pl
  <2> QED BY <1>1, <2>1
<1>8. StreamTypes' /\ snapshotSeq <= snapshotSeq'
  BY <1>1, <1>2, <1>5, <1>6, <1>7 DEF StreamTypes
<1>9. Prefix(w, w2)
  <2>1. Prefix(w, w)
    BY DEF Prefix
  <2>2. Prefix(w, Append(w, Parts(m)))
    BY <1>3, <1>4, AppendProperties DEF Prefix
  <2> QED BY <2>1, <2>2
<1> HIDE DEF m, w2
<1>10. WholeInv(s)'
  <2>1. CASE Arrives(s)
    <3>1. Lost(s)' = Lost(s) /\ (s \in spoiled' <=> Lost(s))
      BY <1>1, <2>1 DEF Lost
    <3>2. w2 = IF Len(pl) = 1 /\ ~Lost(s) THEN Append(w, Parts(Head(pl))) ELSE w
      BY <3>1 DEF w2, m
    <3>3. \A e : Assembling(e, pl, Lost(s), snapshotSeq) =>
                   \E b : ReadAs(w, e, m, w2, b) /\ Assembling(b, Tail(pl), Lost(s), snapshotSeq)
      <4> HIDE DEF pl, w
      <4> QED BY <1>1, <1>3, <3>2, AssemblingDelivered DEF m
    <3>4. Whole(shown[s], assembler[s], Append(q, m), w2, Tail(pl), Lost(s), snapshotSeq)
      BY <1>2, <1>3, <1>4, <1>7, <1>9, <3>3, WholeAppend DEF WholeInv
    <3> QED BY <1>1, <1>5, <1>6, <1>7, <2>1, <3>1, <3>4 DEF WholeInv
  <2>2. CASE ~Arrives(s)
    <3>1. Lost(s)' = TRUE /\ w2 = w
      BY <1>1, <2>2 DEF Lost, w2
    <3>2. \A e : Assembling(e, pl, Lost(s), snapshotSeq) => Assembling(e, Tail(pl), TRUE, snapshotSeq)
      BY <1>1, <1>3, AssemblingLost
    <3>3. Whole(shown[s], assembler[s], q, w, Tail(pl), TRUE, snapshotSeq)
      BY <1>2, <3>2, WholeSame DEF WholeInv
    <3> QED BY <1>1, <1>5, <1>6, <1>7, <2>2, <3>1, <3>3 DEF WholeInv
  <2> QED BY <2>1, <2>2
<1>11. ProtocolInv(s)'
  <2>1. /\ server[s] = "serving" /\ server'[s] = "serving" /\ client'[s] = client[s] /\ client[s] # "closed"
        /\ \A i \in 1..Len(q) : q[i].type # "done"
    BY <1>1, <1>2 DEF ProtocolInv
  <2>2. client[s] = "waiting" => q # <<>> /\ q[1].type \in {"ok", "error"}
    BY <1>2, <2>1 DEF ProtocolInv
  <2>3. CASE Arrives(s)
    <3>1. /\ inbox'[s] # <<>> /\ Len(inbox'[s]) = Len(q) + 1 /\ Len(q) \in Nat
          /\ inbox'[s][Len(q) + 1] = m /\ \A i \in 1..Len(q) : inbox'[s][i] = q[i]
          /\ inbox'[s][1] = IF q = <<>> THEN m ELSE q[1]
      BY <1>3, <1>4, <1>5, <2>3, AppendedIs
    <3>2. \A i \in 1..Len(inbox'[s]) : inbox'[s][i].type # "done"
      BY <1>4, <2>1, <3>1
    <3> QED BY <2>1, <2>2, <3>1, <3>2 DEF ProtocolInv, Early
  <2>4. CASE ~Arrives(s)
    <3>1. inbox'[s] = q
      BY <1>5, <2>4
    <3> QED BY <2>1, <2>2, <3>1 DEF ProtocolInv, Early
  <2> QED BY <2>3, <2>4
<1> QED BY <1>1, <1>5, <1>6, <1>7, <1>8, <1>10, <1>11 DEF OneStream, Kept

-----------------------------------------------------------------------------
(* The client takes a message.                                              *)

LEMMA TakenIs ==
  ASSUME StreamTypes, NEW s \in Subs, inbox[s] # <<>>, inbox' = [inbox EXCEPT ![s] = Tail(@)]
  PROVE  /\ inbox' \in [Subs -> Seq(Messages)] /\ inbox'[s] = Tail(inbox[s])
         /\ \A t \in Subs \ {s} : inbox'[t] = inbox[t]
         /\ Head(inbox[s]) = inbox[s][1] /\ Len(inbox[s]) \in Nat \ {0}
         /\ Len(inbox'[s]) = Len(inbox[s]) - 1
         /\ \A i \in 1..Len(inbox[s]) - 1 : inbox'[s][i] = inbox[s][i + 1]
<1>1. inbox \in [Subs -> Seq(Messages)] /\ inbox[s] \in Seq(Messages)
  BY DEF StreamTypes
<1> DEFINE q == inbox[s]
<1>2. /\ Tail(q) \in Seq(Messages) /\ Len(Tail(q)) = Len(q) - 1
      /\ \A i \in 1..Len(Tail(q)) : Tail(q)[i] = q[i + 1]
  BY <1>1, HeadTailProperties
<1>3. Head(q) = q[1] /\ Len(q) \in Nat \ {0}
  BY <1>1
<1>4. inbox' \in [Subs -> Seq(Messages)] /\ inbox'[s] = Tail(q) /\ \A t \in Subs \ {s} : inbox'[t] = inbox[t]
  <2> HIDE DEF Messages, q
  <2> QED BY <1>1, <1>2 DEF q
<1> HIDE DEF q
<1>5. Len(inbox'[s]) = Len(q) - 1 /\ \A i \in 1..Len(q) - 1 : inbox'[s][i] = q[i + 1]
  BY <1>2, <1>4
<1> QED BY <1>3, <1>4, <1>5 DEF q

(* The last message, with others before it, stays the last.                 *)
LEMMA TakenKeepsOrder ==
  ASSUME StreamTypes, NEW s \in Subs, inbox[s] # <<>>, inbox' = [inbox EXCEPT ![s] = Tail(@)],
         ProtocolInv(s), server' = server
  PROVE  \A i \in 1..Len(inbox'[s]) : inbox'[s][i].type = "done" => i = Len(inbox'[s]) /\ server'[s] = "gone"
<1> SUFFICES ASSUME NEW i \in 1..Len(inbox'[s]), inbox'[s][i].type = "done"
             PROVE  i = Len(inbox'[s]) /\ server'[s] = "gone"
  OBVIOUS
<1>1. /\ Len(inbox[s]) \in Nat \ {0} /\ Len(inbox'[s]) = Len(inbox[s]) - 1
      /\ \A k \in 1..Len(inbox[s]) - 1 : inbox'[s][k] = inbox[s][k + 1]
  BY TakenIs
<1>2. i + 1 \in 1..Len(inbox[s]) /\ inbox'[s][i] = inbox[s][i + 1]
  BY <1>1
<1>3. i + 1 = Len(inbox[s]) /\ server[s] = "gone"
  BY <1>2 DEF ProtocolInv
<1> QED BY <1>1, <1>3

LEMMA HandshakeStep == ASSUME DeliveryInv, NEW s \in Subs, Handshake(s) PROVE OneStream(s)
<1> USE DEF runVars, publishVars, clientVars, deliveries
<1>1. /\ client[s] = "waiting" /\ inbox[s] # <<>>
      /\ \E c \in {"refused", "reading"} : client' = [client EXCEPT ![s] = c]
      /\ inbox' = [inbox EXCEPT ![s] = Tail(@)]
      /\ UNCHANGED <<taken, pending, buffer, payloads, snapshotSeq, server, assembler, shown, intact, spoiled>>
  BY DEF Handshake
<1>2. ProtocolInv(s) /\ WholeInv(s) /\ StreamTypes
  BY DEF DeliveryInv
<1>3. client'[s] \in {"refused", "reading"} /\ \A t \in Subs \ {s} : client'[t] = client[t]
  BY <1>1 DEF DeliveryInv, ChannelInv, ChannelTypes
<1>4. /\ inbox' \in [Subs -> Seq(Messages)] /\ inbox'[s] = Tail(inbox[s])
      /\ \A t \in Subs \ {s} : inbox'[t] = inbox[t]
      /\ Head(inbox[s]) = inbox[s][1]
  BY <1>1, <1>2, TakenIs
<1>5. StreamTypes' /\ snapshotSeq <= snapshotSeq'
  BY <1>1, <1>2, <1>4 DEF StreamTypes
<1>6. WholeInv(s)'
  <2>1. Head(inbox[s]).type \in {"ok", "error"} /\ inbox[s] \in Seq(Messages)
    BY <1>1, <1>2, <1>4 DEF ProtocolInv, StreamTypes
  <2>2. ReadAs(shown[s], assembler[s], Head(inbox[s]), shown[s], assembler[s])
    BY <2>1 DEF ReadAs
  <2>3. Whole(shown[s], assembler[s], Tail(inbox[s]), intact[s], payloads[s], Lost(s), snapshotSeq)
    BY <1>1, <1>2, <2>1, <2>2, WholeRead DEF WholeInv
  <2> QED BY <1>1, <1>4, <2>3 DEF WholeInv, Lost
<1>7. ProtocolInv(s)'
  <2>1. \A i \in 1..Len(inbox'[s]) : inbox'[s][i].type = "done" => i = Len(inbox'[s]) /\ server'[s] = "gone"
    BY <1>1, <1>2, TakenKeepsOrder
  <2>2. server'[s] \notin Early \cup {"installed"}
    BY <1>1, <1>2 DEF ProtocolInv
  <2> QED BY <1>1, <1>2, <1>3, <2>1, <2>2 DEF ProtocolInv
<1> QED BY <1>1, <1>3, <1>4, <1>5, <1>6, <1>7 DEF OneStream, Kept

LEMMA ReadStep == ASSUME DeliveryInv, NEW s \in Subs, Read(s) PROVE OneStream(s)
<1> USE DEF runVars, publishVars, clientVars, deliveries
<1> DEFINE m == Head(inbox[s])
<1>1. /\ client[s] = "reading" /\ inbox[s] # <<>>
      /\ inbox' = [inbox EXCEPT ![s] = Tail(@)]
      /\ \/ m.type = "chunk" /\ ReadChunk(s, m)
         \/ m.type = "cells" /\ ReadCells(s, m)
         \/ m.type = "done" /\ ReadDone(s)
      /\ UNCHANGED <<taken, pending, buffer, payloads, snapshotSeq, server, intact, spoiled>>
  BY DEF Read
<1>2. ProtocolInv(s) /\ WholeInv(s) /\ StreamTypes
  BY DEF DeliveryInv
<1>3. /\ inbox' \in [Subs -> Seq(Messages)] /\ inbox'[s] = Tail(inbox[s])
      /\ \A t \in Subs \ {s} : inbox'[t] = inbox[t]
      /\ Head(inbox[s]) = inbox[s][1] /\ Len(inbox[s]) \in Nat \ {0}
      /\ Len(inbox'[s]) = Len(inbox[s]) - 1
  BY <1>1, <1>2, TakenIs
<1>4. DOMAIN assembler = Subs /\ shown \in [Subs -> Seq(Snaps)] /\ client \in [Subs -> ClientModes]
  BY <1>2 DEF StreamTypes, DeliveryInv, ChannelInv, ChannelTypes
<1> HIDE DEF m
<1>5. PICK y, b : /\ ReadAs(shown[s], assembler[s], m, y, b)
                  /\ shown'[s] = y /\ assembler'[s] = b
                  /\ shown' = [shown EXCEPT ![s] = y] /\ DOMAIN assembler' = Subs
                  /\ \A t \in Subs \ {s} : assembler'[t] = assembler[t]
  <2>0. shown = [shown EXCEPT ![s] = shown[s]]
    BY <1>4
  <2>1. CASE m.type = "chunk" /\ ReadChunk(s, m)
    <3> DEFINE a == Added(assembler[s], m)
               y == IF Ready(a) THEN Append(shown[s], Assembled(a)) ELSE shown[s]
               b == IF Ready(a) THEN Assembler ELSE a
    <3>1. assembler' = [assembler EXCEPT ![s] = b]
      BY <2>1 DEF ReadChunk
    <3>2. shown' = [shown EXCEPT ![s] = y]
      BY <2>0, <2>1 DEF ReadChunk, Assembled
    <3>3. ReadAs(shown[s], assembler[s], m, y, b)
      BY <2>1 DEF ReadAs
    <3> HIDE DEF a, y, b
    <3>4. shown'[s] = y /\ assembler'[s] = b /\ DOMAIN assembler' = Subs /\ \A t \in Subs \ {s} : assembler'[t] = assembler[t]
      BY <1>4, <3>1, <3>2
    <3> QED BY <3>2, <3>3, <3>4
  <2>2. CASE m.type = "cells" /\ ReadCells(s, m)
    <3> DEFINE y == Append(shown[s], Parts(m))
    <3>1. shown' = [shown EXCEPT ![s] = y] /\ assembler' = assembler
      BY <2>2 DEF ReadCells
    <3>2. ReadAs(shown[s], assembler[s], m, y, assembler[s])
      BY <2>2 DEF ReadAs
    <3> HIDE DEF y
    <3>3. shown'[s] = y
      BY <1>4, <3>1
    <3> QED BY <1>4, <3>1, <3>2, <3>3
  <2>3. CASE m.type = "done" /\ ReadDone(s)
    <3>1. shown' = shown /\ assembler' = assembler
      BY <2>3 DEF ReadDone
    <3>2. ReadAs(shown[s], assembler[s], m, shown[s], assembler[s])
      BY <2>3 DEF ReadAs
    <3> QED BY <1>4, <2>0, <3>1, <3>2
  <2> QED BY <1>1, <2>1, <2>2, <2>3
<1>6. inbox[s] \in Seq(Messages)
  BY <1>2 DEF StreamTypes
<1>7. Whole(y, b, Tail(inbox[s]), intact[s], payloads[s], Lost(s), snapshotSeq) /\ y \in Seq(Snaps)
  BY <1>1, <1>2, <1>5, <1>6, WholeRead DEF WholeInv, m
<1>8. shown' \in [Subs -> Seq(Snaps)] /\ \A t \in Subs \ {s} : shown'[t] = shown[t]
  BY <1>4, <1>5, <1>7
<1>9. StreamTypes' /\ snapshotSeq <= snapshotSeq'
  BY <1>1, <1>2, <1>3, <1>5, <1>8 DEF StreamTypes
<1>10. WholeInv(s)'
  BY <1>1, <1>3, <1>5, <1>7 DEF WholeInv, Lost
<1>11. /\ \/ client'[s] = "reading"
          \/ m.type = "done" /\ client'[s] = "closed"
       /\ \A t \in Subs \ {s} : client'[t] = client[t]
  <2>1. \/ client' = client
        \/ m.type = "done" /\ client' = [client EXCEPT ![s] = "closed"]
    BY <1>1 DEF ReadChunk, ReadCells, ReadDone
  <2>2. client[s] = "reading"
    BY <1>1
  <2> QED BY <1>4, <2>1, <2>2
<1>12. ProtocolInv(s)'
  <2>1. \A i \in 1..Len(inbox'[s]) : inbox'[s][i].type = "done" => i = Len(inbox'[s]) /\ server'[s] = "gone"
    BY <1>1, <1>2, TakenKeepsOrder
  <2>2. server'[s] \notin Early \cup {"installed"}
    BY <1>1, <1>2 DEF ProtocolInv
  <2>3. client'[s] = "closed" => inbox'[s] = <<>> /\ server'[s] = "gone"
    <3> SUFFICES ASSUME client'[s] = "closed" PROVE inbox'[s] = <<>> /\ server'[s] = "gone"
      OBVIOUS
    <3>1. inbox[s][1].type = "done"
      BY <1>3, <1>11 DEF m
    <3>2. 1 \in 1..Len(inbox[s])
      BY <1>3
    <3>3. 1 = Len(inbox[s]) /\ server[s] = "gone"
      BY <1>2, <3>1, <3>2 DEF ProtocolInv
    <3>4. inbox'[s] \in Seq(Messages)
      BY <1>3
    <3>5. Len(inbox'[s]) = 0
      BY <1>3, <3>3
    <3> QED BY <1>1, <3>3, <3>4, <3>5, EmptySeq
  <2> QED BY <1>1, <1>2, <1>11, <2>1, <2>2, <2>3 DEF ProtocolInv
<1> QED BY <1>1, <1>3, <1>5, <1>8, <1>9, <1>10, <1>11, <1>12 DEF OneStream, Kept

-----------------------------------------------------------------------------
(* Whatever is dropped, given up or read late, what is on its way to a      *)
(* client takes it through whole snapshots only, to exactly those that      *)
(* have come through.                                                       *)
THEOREM Delivery == Spec => []DeliveryInv
<1>1. Init => DeliveryInv
  <2> SUFFICES ASSUME Init PROVE DeliveryInv
    OBVIOUS
  <2>1. ChannelInv
    <3>1. ChannelTypes
      BY DEF Init, ChannelTypes, Early, ClientModes
    <3>2. GivenInv /\ PendingInv /\ NoClosedChannelIsUsed
      BY DEF Init, GivenInv, PendingInv, NoClosedChannelIsUsed
    <3> QED BY <3>1, <3>2 DEF ChannelInv
  <2>2. StreamTypes
    BY EmptySeq DEF Init, StreamTypes
  <2>3. ASSUME NEW s \in Subs PROVE ProtocolInv(s) /\ WholeInv(s)
    <3>1. ProtocolInv(s)
      BY DEF Init, ProtocolInv
    <3>2. shown[s] = <<>> /\ intact[s] = <<>> /\ inbox[s] = <<>> /\ payloads[s] = <<>> /\ assembler[s] = Assembler
      BY DEF Init
    <3> DEFINE sh == [i \in {0} |-> <<>>]
               as == [i \in {0} |-> Assembler]
    <3>3. Len(<<>>) = 0 /\ 0..0 = {0} /\ 1..0 = {} /\ sh \in [{0} -> Seq(Snaps)]
      BY EmptySeq
    <3>4. sh[0] = <<>> /\ as[0] = Assembler /\ DOMAIN as = {0}
      OBVIOUS
    <3> HIDE DEF sh, as
    <3>5. Chain(<<>>, Assembler, <<>>, sh, as)
      BY <3>3, <3>4 DEF Chain
    <3>6. \A i \in 0..Len(<<>>) : Prefix(sh[i], <<>>)
      BY <3>3, <3>4 DEF Prefix
    <3>7. Assembling(as[0], <<>>, Lost(s), snapshotSeq)
      BY <3>4 DEF Assembling, Assembler, Init
    <3>8. Whole(<<>>, Assembler, <<>>, <<>>, <<>>, Lost(s), snapshotSeq)
      BY <3>3, <3>4, <3>5, <3>6, <3>7 DEF Whole
    <3> QED BY <3>1, <3>2, <3>8 DEF WholeInv
  <2> QED BY <2>1, <2>2, <2>3 DEF DeliveryInv
<1>2. DeliveryInv /\ [Next]_vars => DeliveryInv'
  <2> SUFFICES ASSUME DeliveryInv, [Next]_vars PROVE DeliveryInv'
    OBVIOUS
  <2>1. CASE UNCHANGED vars
    <3> USE <2>1 DEF vars, runVars, publishVars, clientVars, deliveries
    <3>1. ChannelInv'
      BY DEF DeliveryInv, ChannelInv, ChannelTypes, GivenInv, PendingInv, NoClosedChannelIsUsed
    <3>2. StreamTypes'
      BY DEF DeliveryInv, StreamTypes
    <3>3. ASSUME NEW s \in Subs PROVE ProtocolInv(s)' /\ WholeInv(s)'
      BY DEF DeliveryInv, ProtocolInv, WholeInv, Lost
    <3> QED BY <3>1, <3>2, <3>3 DEF DeliveryInv
  <2>2. CASE Next
    <3>1. ChannelInv'
      BY <2>2, NextIs, ChannelStep DEF DeliveryInv, ChannelInv
    <3>2. NoStream \/ \E s \in Subs : OneStream(s)
      <4>1. CASE FirstPlan \/ PublishAgain \/ Publishing \/ Cancel \/ End
        BY <4>1, RunKeepsStreams
      <4>2. ASSUME NEW s \in Subs,
                   AgentPathSub(s) \/ Accept(s) \/ Refuse(s) \/ Serving(s) \/ Reading(s) \/ GiveUp(s)
            PROVE  OneStream(s)
        BY <4>2, CallStep, AnswerStep, ReceiveStep, PublishPayloadStep, PublishFailsStep, HandshakeStep, ReadStep
           DEF Serving, Reading
      <4> QED BY <2>2, <4>1, <4>2 DEF Next
    <3>3. CASE NoStream
      BY <3>1, <3>3, KeptStaysWhole DEF DeliveryInv, NoStream
    <3>4. ASSUME NEW s \in Subs, OneStream(s) PROVE DeliveryInv'
      <4>1. ASSUME NEW t \in Subs \ {s} PROVE ProtocolInv(t)' /\ WholeInv(t)'
        BY <3>4, <4>1, KeptStaysWhole DEF DeliveryInv, OneStream
      <4> QED BY <3>1, <3>4, <4>1 DEF DeliveryInv, OneStream
    <3> QED BY <3>2, <3>3, <3>4
  <2> QED BY <2>1, <2>2
<1> QED BY <1>1, <1>2, PTL DEF Spec

(* The caller of AgentPathSub is given the snapshots that came through in   *)
(* full, each from its own parts and in their order, and all of them once   *)
(* its stream is closed, however many chunks the inbox drops.               *)
THEOREM SnapshotsWhole == Spec => []SnapshotsAreWhole
<1>1. DeliveryInv => SnapshotsAreWhole
  <2> SUFFICES ASSUME DeliveryInv, NEW s \in Subs
               PROVE  IsPrefix(shown[s], intact[s]) /\ (client[s] = "closed" => shown[s] = intact[s])
    BY DEF SnapshotsAreWhole
  <2>1. shown[s] \in Seq(Snaps) /\ intact[s] \in Seq(Snaps) /\ inbox[s] \in Seq(Messages)
    BY DEF DeliveryInv, StreamTypes
  <2>2. Prefix(shown[s], intact[s]) /\ (inbox[s] = <<>> => shown[s] = intact[s])
    BY <2>1, WholeStart DEF DeliveryInv, WholeInv
  <2>3. client[s] = "closed" => inbox[s] = <<>>
    BY DEF DeliveryInv, ProtocolInv
  <2> QED BY <2>1, <2>2, <2>3, PrefixIs
<1> QED BY <1>1, Delivery, PTL
=============================================================================
