------------------------- MODULE ArqReceiver_proofs -------------------------
(***************************************************************************)
(* What holds of the receiver for every set of messages, every chunk limit *)
(* and every bound.                                                        *)
(***************************************************************************)
EXTENDS ArqReceiver, ArqWire_proofs, FiniteSetTheorems, TLAPS

(* The conjuncts of the invariant that speak of an RxState, of any one. *)
RxStates ==
  [assemblies : [MsgIds -> [ChunkIds -> Uids \cup {0}]],
   evict : [MsgIds -> BOOLEAN], deliveredMsgs : SUBSET MsgIds,
   sessionActive : BOOLEAN, nackHeld : BOOLEAN, phase : Phases,
   totalChunks : 0..MAX_CHUNKS, stall : BOOLEAN]

Locked(r) ==
  /\ r.phase = "Receiving" => r.stall
  /\ \A id \in MsgIds : Held(r, id) # {} => r.evict[id]

Own(r) ==
  \A id \in MsgIds, cc \in ChunkIds :
     r.assemblies[id][cc] # 0 =>
       \E m \in Messages : /\ m.id = id
                           /\ m.uid = r.assemblies[id][cc]
                           /\ cc <= m.total

(* What r keeps of q: every field that the properties tell apart, but for  *)
(* the session's.                                                          *)
SameStore(r, q) ==
  /\ r.assemblies = q.assemblies
  /\ r.evict = q.evict
  /\ r.deliveredMsgs = q.deliveredMsgs

-----------------------------------------------------------------------------
(* Lemmas about the operations on an RxState. *)
LEMMA SameStoreFacts ==
  ASSUME NEW r \in RxStates, NEW q \in RxStates, SameStore(q, r),
         q.phase = "Receiving" => q.stall
  PROVE  (Locked(r) => Locked(q)) /\ (Own(r) => Own(q))
BY DEF SameStore, Locked, Own, Held

LEMMA BlankFacts == BlankRx \in RxStates /\ Locked(BlankRx) /\ Own(BlankRx)
<1>1. 0 \in 0..MAX_CHUNKS /\ "Idle" \in Phases
  BY ReceiverAssumption DEF Phases
<1>2. BlankRx \in RxStates
  BY <1>1 DEF BlankRx, RxStates
<1>3. \A id \in MsgIds, cc \in ChunkIds : BlankRx.assemblies[id][cc] = 0
  BY DEF BlankRx
<1>4. BlankRx.phase = "Idle"
  BY DEF BlankRx
<1> QED
  BY <1>2, <1>3, <1>4 DEF Locked, Own, Held

LEMMA ActivityFacts ==
  ASSUME NEW r \in RxStates
  PROVE  /\ Activity(r) \in RxStates
         /\ SameStore(Activity(r), r)
         /\ Locked(r) => Locked(Activity(r))
         /\ Own(r) => Own(Activity(r))
<1>1. Activity(r) \in RxStates /\ SameStore(Activity(r), r)
  BY DEF Activity, RxStates, SameStore, Phases
<1>2. (r.phase = "Receiving" => r.stall)
        => (Activity(r).phase = "Receiving" => Activity(r).stall)
  BY DEF Activity, RxStates
<1>3. Locked(r) => (r.phase = "Receiving" => r.stall)
  BY DEF Locked
<1>4. Own(r) => Own(Activity(r))
  BY <1>1 DEF SameStore, Own
<1> QED
  BY <1>1, <1>2, <1>3, <1>4, SameStoreFacts

LEMMA SessionEndFacts ==
  ASSUME NEW r \in RxStates
  PROVE  /\ SessionEnd(r) \in RxStates
         /\ SameStore(SessionEnd(r), r)
         /\ SessionEnd(r).phase = "Idle"
<1>1. 0 \in 0..MAX_CHUNKS /\ "Idle" \in Phases
  BY ReceiverAssumption DEF Phases
<1> QED
  BY <1>1 DEF SessionEnd, RxStates, SameStore

(* Erasing one assembly, after a delivery or an evict. *)
LEMMA ErasedFacts ==
  ASSUME NEW r \in RxStates, NEW id \in MsgIds, NEW q \in RxStates,
         q.phase = "Idle",
         q.assemblies = [r.assemblies EXCEPT ![id] = [cc \in ChunkIds |-> 0]],
         q.evict = [r.evict EXCEPT ![id] = FALSE]
  PROVE  (Locked(r) => Locked(q)) /\ (Own(r) => Own(q))
<1>1. \A i \in MsgIds, cc \in ChunkIds :
        q.assemblies[i][cc] = IF i = id THEN 0 ELSE r.assemblies[i][cc]
  BY DEF RxStates
<1>2. \A i \in MsgIds : i # id => q.evict[i] = r.evict[i]
  BY DEF RxStates
<1>3. \A i \in MsgIds : Held(q, i) # {} => i # id /\ Held(r, i) # {}
  BY <1>1 DEF Held
<1>4. Locked(r) => Locked(q)
  BY <1>2, <1>3 DEF Locked
<1>5. Own(r) => Own(q)
  BY <1>1 DEF Own
<1> QED
  BY <1>4, <1>5

LEMMA FinishedFacts ==
  ASSUME NEW r \in RxStates, NEW id \in MsgIds
  PROVE  /\ Finished(r, id) \in RxStates
         /\ Locked(r) => Locked(Finished(r, id))
         /\ Own(r) => Own(Finished(r, id))
         /\ Finished(r, id).deliveredMsgs = r.deliveredMsgs \cup {id}
<1> DEFINE q == Finished(r, id)
<1>1. SessionEnd(r) \in RxStates /\ SameStore(SessionEnd(r), r)
      /\ SessionEnd(r).phase = "Idle"
  BY SessionEndFacts
<1>2. /\ q.phase = "Idle"
      /\ q.assemblies = [r.assemblies EXCEPT ![id] = [cc \in ChunkIds |-> 0]]
      /\ q.evict = [r.evict EXCEPT ![id] = FALSE]
      /\ q.deliveredMsgs = r.deliveredMsgs \cup {id}
  BY <1>1 DEF Finished, RxStates, SameStore
<1>3. q \in RxStates
  BY <1>1 DEF Finished, RxStates
<1> QED
  BY <1>2, <1>3, ErasedFacts

-----------------------------------------------------------------------------
(* Lemmas about chunks, and about the RxState after one. *)
LEMMA ChunkFacts ==
  ASSUME NEW c \in Chunks
  PROVE  /\ c.uid \in Uids /\ c.uid # 0 /\ c.uid \in Nat
         /\ c.id \in MsgIds
         /\ c.cc \in ChunkIds
         /\ c.total \in 1..MAX_CHUNKS
         /\ \E m \in Messages : m.uid = c.uid /\ m.id = c.id /\ m.total = c.total
<1>1. PICK m \in Messages, cc \in ChunkIds, ok \in BOOLEAN :
        c = [uid |-> m.uid, id |-> m.id, cc |-> cc, total |-> m.total, ok |-> ok]
  BY DEF Chunks
<1> QED
  BY <1>1, ReceiverAssumption DEF Uids

LEMMA CountedFacts ==
  ASSUME rx \in RxStates, NEW c \in Chunks
  PROVE  /\ Active \in RxStates /\ SameStore(Active, rx)
         /\ Counted(c) \in RxStates /\ SameStore(Counted(c), rx)
         /\ Locked(rx) => Locked(Active) /\ Locked(Counted(c))
         /\ Own(rx) => Own(Active) /\ Own(Counted(c))
<1> DEFINE a == [Active EXCEPT !.totalChunks = c.total]
<1>1. Active \in RxStates /\ SameStore(Active, rx)
      /\ Active.phase = rx.phase /\ Active.stall = rx.stall
  BY DEF Active, RxStates, SameStore
<1>2. a \in RxStates /\ SameStore(a, rx) /\ a.phase = rx.phase /\ a.stall = rx.stall
  <2>1. c.total \in 0..MAX_CHUNKS
    BY ChunkFacts, ReceiverAssumption
  <2> QED
    BY <1>1, <2>1 DEF RxStates, SameStore
<1>3. Locked(rx) => Locked(Active) /\ Locked(a)
  <2>1. Locked(rx) => (rx.phase = "Receiving" => rx.stall)
    BY DEF Locked
  <2> QED
    BY <1>1, <1>2, <2>1, SameStoreFacts
<1>4. Own(rx) => Own(Active) /\ Own(a)
  BY <1>1, <1>2 DEF SameStore, Own
<1>5. Counted(c) = Activity(a)
  BY DEF Counted
<1> HIDE DEF a
<1>6. SameStore(Counted(c), rx)
  BY <1>2, <1>5, ActivityFacts DEF SameStore
<1> QED
  BY <1>1, <1>2, <1>3, <1>4, <1>5, <1>6, ActivityFacts

LEMMA StoredFacts ==
  ASSUME rx \in RxStates, NEW c \in Chunks, c.cc <= c.total
  PROVE  /\ Stored(c) \in RxStates
         /\ Stored(c).deliveredMsgs = rx.deliveredMsgs
         /\ Stored(c).assemblies[c.id][c.cc] = c.uid
         /\ Locked(rx) => Locked(Stored(c))
         /\ Own(rx) => Own(Stored(c))
<1> DEFINE r == Counted(c)
           q == Stored(c)
<1>1. r \in RxStates /\ SameStore(r, rx) /\ (Locked(rx) => Locked(r))
      /\ (Own(rx) => Own(r))
  BY CountedFacts
<1>2. c.uid \in Uids /\ c.uid # 0 /\ c.id \in MsgIds /\ c.cc \in ChunkIds
  BY ChunkFacts
<1>3. q = [r EXCEPT !.assemblies[c.id][c.cc] = c.uid, !.evict[c.id] = TRUE]
  BY DEF Stored
<1> HIDE DEF r, q
<1>4. /\ q \in RxStates
      /\ q.deliveredMsgs = r.deliveredMsgs
      /\ q.phase = r.phase /\ q.stall = r.stall
      /\ q.evict = [r.evict EXCEPT ![c.id] = TRUE]
      /\ q.assemblies = [r.assemblies EXCEPT ![c.id] = [@ EXCEPT ![c.cc] = c.uid]]
  BY <1>1, <1>2, <1>3 DEF RxStates
<1>5. \A i \in MsgIds, cc \in ChunkIds :
        q.assemblies[i][cc] =
          IF i = c.id /\ cc = c.cc THEN c.uid ELSE r.assemblies[i][cc]
  BY <1>1, <1>2, <1>4 DEF RxStates
<1>6. ASSUME Locked(rx) PROVE Locked(q)
  <2>1. \A i \in MsgIds : i # c.id => Held(q, i) = Held(r, i) /\ q.evict[i] = r.evict[i]
    BY <1>1, <1>4, <1>5 DEF Held, RxStates
  <2>2. q.evict[c.id]
    BY <1>1, <1>2, <1>4 DEF RxStates
  <2> QED
    BY <1>1, <1>4, <1>6, <2>1, <2>2 DEF Locked
<1>7. ASSUME Own(rx) PROVE Own(q)
  <2>1. PICK m \in Messages : m.uid = c.uid /\ m.id = c.id /\ m.total = c.total
    BY ChunkFacts
  <2> SUFFICES ASSUME NEW i \in MsgIds, NEW cc \in ChunkIds, q.assemblies[i][cc] # 0
               PROVE  \E n \in Messages : /\ n.id = i
                                          /\ n.uid = q.assemblies[i][cc]
                                          /\ cc <= n.total
    BY DEF Own
  <2>2. CASE i = c.id /\ cc = c.cc
    BY <1>5, <2>1, <2>2
  <2>3. CASE ~(i = c.id /\ cc = c.cc)
    BY <1>1, <1>5, <1>7, <2>3 DEF Own
  <2> QED
    BY <2>2, <2>3
<1> QED
  BY <1>1, <1>2, <1>4, <1>5, <1>6, <1>7 DEF SameStore, q

(* Counting the chunks held is enough: an assembly with as many chunks as  *)
(* its message has consists of all of them, and of no others.              *)
LEMMA CompleteIsWhole ==
  ASSUME rx \in RxStates, Own(rx), DistinctIds,
         NEW c \in Chunks, c.cc <= c.total, Complete(c)
  PROVE  Whole(c)
<1> DEFINE q == Stored(c)
           S == Held(q, c.id)
<1>1. q \in RxStates /\ Own(q)
  BY StoredFacts
<1>2. PICK m \in Messages : m.uid = c.uid /\ m.id = c.id /\ m.total = c.total
  BY ChunkFacts
<1>3. \A cc \in S : cc <= c.total /\ q.assemblies[c.id][cc] = c.uid
  <2> SUFFICES ASSUME NEW cc \in S
               PROVE  cc <= c.total /\ q.assemblies[c.id][cc] = c.uid
    OBVIOUS
  <2>1. cc \in ChunkIds /\ q.assemblies[c.id][cc] # 0
    BY DEF Held
  <2>2. PICK n \in Messages : /\ n.id = c.id
                              /\ n.uid = q.assemblies[c.id][cc]
                              /\ cc <= n.total
    BY <1>1, <2>1, ChunkFacts DEF Own
  <2>3. n = m
    BY <1>2, <2>2 DEF DistinctIds
  <2> QED
    BY <1>2, <2>2, <2>3
<1>4. S \subseteq 1..c.total
  BY <1>3, ChunkFacts DEF Held, ChunkIds
<1>5. Cardinality(S) = c.total
  BY DEF Complete
<1>6. S = 1..c.total
  <2>1. c.total \in Nat /\ 1 <= c.total
    BY ChunkFacts, ReceiverAssumption
  <2>2. IsFiniteSet(1..c.total) /\ Cardinality(1..c.total) = c.total
    BY <2>1, FS_Interval
  <2> HIDE DEF S
  <2> QED
    BY <1>4, <1>5, <2>2, FS_Subset
<1> QED
  BY <1>3, <1>6 DEF Whole

-----------------------------------------------------------------------------
(* Lemmas about the replies and about the window. *)
Replies ==
  [kind : {"ACK", "NACK"}, seq : WireSeqs, uid : Uids, cc : ChunkIds]

LEMMA ReplyFacts ==
  ASSUME replies \in Seq(Replies), NEW c \in Chunks, NEW kind \in {"ACK", "NACK"}
  PROVE  Reply(kind, c) \in Seq(Replies)
<1> DEFINE a == [kind |-> kind, seq |-> AckWireSeq(c.cc), uid |-> c.uid, cc |-> c.cc]
<1>1. c.uid \in Uids /\ c.cc \in ChunkIds
  BY ChunkFacts
<1>2. AckWireSeq(c.cc) \in WireSeqs
  <2>1. c.cc \in Nat \ {0}
    BY <1>1, ReceiverAssumption DEF ChunkIds
  <2> QED
    BY <2>1, WireNumberFits
<1>3. a \in Replies
  BY <1>1, <1>2 DEF Replies
<1> HIDE DEF a
<1>4. Append(replies, a) \in Seq(Replies)
  BY <1>3
<1> QED
  BY <1>4 DEF Reply, a

(* Whatever the window is told of a session, question and answer agree. *)
LEMMA WindowFacts ==
  ASSUME accept \in Answers, question \in BOOLEAN, HeldMeansAsked,
         Ask \/ Settle \/ UNCHANGED <<accept, question>>
  PROVE  accept' \in Answers /\ question' \in BOOLEAN /\ HeldMeansAsked'
<1>1. CASE Ask /\ accept' = "Pending" /\ question' = TRUE
  BY <1>1 DEF Answers, HeldMeansAsked
<1>2. CASE Settle
  BY <1>2 DEF Settle, Answers, HeldMeansAsked
<1>3. CASE UNCHANGED <<accept, question>>
  BY <1>3 DEF HeldMeansAsked
<1> QED
  BY <1>1, <1>2, <1>3 DEF Ask

LEMMA InvariantParts ==
  IInv <=> /\ rx \in RxStates /\ replies \in Seq(Replies)
           /\ accept \in Answers /\ question \in BOOLEAN
           /\ refused \subseteq Uids /\ silenced \subseteq Uids
           /\ deliveries \in [Uids -> Nat] /\ mangled \in BOOLEAN
           /\ newest \in Nat /\ forgets \in Nat
           /\ Locked(rx) /\ HeldMeansAsked
           /\ DistinctIds => Own(rx) /\ Remembered /\ ~mangled
BY DEF IInv, TypeOK, LocksHaveTimers, OwnChunks, DeliveredWhole,
       RxStates, Replies, Locked, Own

-----------------------------------------------------------------------------
(* The invariant. *)
LEMMA InitEstablishes == Init => IInv
<1> SUFFICES ASSUME Init PROVE IInv
  OBVIOUS
<1>1. rx \in RxStates /\ Locked(rx) /\ Own(rx) /\ rx.deliveredMsgs = {}
  BY BlankFacts DEF Init, BlankRx
<1>2. deliveries \in [Uids -> Nat]
  BY DEF Init
<1>3. Remembered
  BY <1>1 DEF Init, Remembered, Uids
<1>4. accept \in Answers /\ question \in BOOLEAN /\ HeldMeansAsked /\ mangled = FALSE
  BY DEF Init, Answers, HeldMeansAsked
<1>5. /\ replies \in Seq(Replies) /\ refused \subseteq Uids /\ silenced \subseteq Uids
      /\ newest \in Nat /\ forgets \in Nat
  BY DEF Init
<1> QED
  BY <1>1, <1>2, <1>3, <1>4, <1>5, InvariantParts

(* A step that drops nothing and delivers nothing. *)
LEMMA QuietStep ==
  ASSUME IInv,
         rx' \in RxStates, rx'.deliveredMsgs = rx.deliveredMsgs,
         Locked(rx) => Locked(rx'), Own(rx) => Own(rx'),
         replies' \in Seq(Replies), silenced' \subseteq Uids,
         accept' \in Answers, question' \in BOOLEAN, HeldMeansAsked',
         newest' \in Nat,
         UNCHANGED <<refused, deliveries, mangled, forgets>>
  PROVE  IInv'
<1>1. DistinctIds => Remembered'
  BY InvariantParts DEF Remembered
<1>2. Locked(rx') /\ (DistinctIds => Own(rx'))
  BY InvariantParts
<1> QED
  BY <1>1, <1>2, InvariantParts DEF IInv, TypeOK, LocksHaveTimers, OwnChunks,
     DeliveredWhole, RxStates, Replies, Locked, Own

(* A step that drops the RxState. *)
LEMMA ForgettingStep ==
  ASSUME IInv, rx' = BlankRx, forgets' = forgets + 1,
         replies' \in Seq(Replies), refused' \subseteq Uids,
         accept' \in Answers, question' \in BOOLEAN, HeldMeansAsked',
         UNCHANGED <<silenced, deliveries, mangled, newest>>
  PROVE  IInv'
<1>1. rx' \in RxStates /\ Locked(rx') /\ Own(rx') /\ rx'.deliveredMsgs = {}
  BY BlankFacts DEF BlankRx
<1>2. DistinctIds => Remembered'
  <2> SUFFICES ASSUME DistinctIds, NEW m \in Messages
               PROVE  deliveries[m.uid] <= forgets + 1
    BY <1>1 DEF Remembered
  <2>1. deliveries[m.uid] \in Nat /\ forgets \in Nat
    BY InvariantParts DEF Uids
  <2>2. deliveries[m.uid] \in 1..(forgets + 1) \/ deliveries[m.uid] <= forgets
    BY InvariantParts DEF Remembered
  <2> QED
    BY <2>1, <2>2
<1> QED
  BY <1>1, <1>2, InvariantParts DEF IInv, TypeOK, LocksHaveTimers, OwnChunks,
     DeliveredWhole, RxStates, Replies, Locked, Own

(* Delivering: the message is whole, so it is remembered, and only it is   *)
(* counted.                                                                *)
LEMMA DeliveryStep ==
  ASSUME IInv, NEW c \in Chunks, c.cc <= c.total, AckAndDeliver(c),
         newest' \in Nat, UNCHANGED <<refused, silenced, forgets>>
  PROVE  IInv'
<1>1. rx \in RxStates /\ deliveries \in [Uids -> Nat] /\ forgets \in Nat
      /\ mangled \in BOOLEAN
  BY InvariantParts
<1>2. c.uid \in Uids /\ c.id \in MsgIds
  BY ChunkFacts
<1>3. /\ rx' \in RxStates
      /\ Locked(rx')
      /\ DistinctIds => Own(rx')
      /\ rx'.deliveredMsgs = rx.deliveredMsgs \cup {c.id}
  <2>1. /\ Stored(c) \in RxStates /\ Stored(c).deliveredMsgs = rx.deliveredMsgs
        /\ Locked(rx) => Locked(Stored(c))
        /\ Own(rx) => Own(Stored(c))
    BY <1>1, StoredFacts
  <2>2. rx' = Finished(Stored(c), c.id)
    BY DEF AckAndDeliver
  <2>3. /\ rx' \in RxStates
        /\ Locked(Stored(c)) => Locked(rx')
        /\ Own(Stored(c)) => Own(rx')
        /\ rx'.deliveredMsgs = Stored(c).deliveredMsgs \cup {c.id}
    BY <1>2, <2>1, <2>2, FinishedFacts
  <2> QED
    BY <2>1, <2>3, InvariantParts
<1>4. deliveries' \in [Uids -> Nat] /\ mangled' \in BOOLEAN
  BY <1>1, <1>2 DEF AckAndDeliver
<1>5. replies' \in Seq(Replies)
  BY ReplyFacts, InvariantParts DEF AckAndDeliver
<1>6. accept' \in Answers /\ question' \in BOOLEAN /\ HeldMeansAsked'
  BY InvariantParts, WindowFacts DEF AckAndDeliver
<1>7. ASSUME DistinctIds PROVE Remembered' /\ ~mangled'
  <2>1. Own(rx) /\ Remembered /\ ~mangled
    BY <1>7, InvariantParts
  <2>2. Whole(c)
    BY <1>1, <1>7, <2>1, CompleteIsWhole DEF AckAndDeliver
  <2>3. ~mangled'
    BY <2>1, <2>2 DEF AckAndDeliver
  <2>4. deliveries' = [deliveries EXCEPT ![c.uid] = @ + 1]
    BY <1>1, <1>2, <2>2 DEF AckAndDeliver
  <2>5. PICK m \in Messages : m.uid = c.uid /\ m.id = c.id
    BY ChunkFacts
  <2>6. c.id \notin rx.deliveredMsgs
    BY DEF AckAndDeliver
  <2>7. ASSUME NEW n \in Messages
        PROVE  IF n.id \in rx'.deliveredMsgs
               THEN deliveries'[n.uid] \in 1..(forgets + 1)
               ELSE deliveries'[n.uid] <= forgets
    <3>1. n.uid \in Uids /\ deliveries[n.uid] \in Nat
      BY <1>1 DEF Uids
    <3>2. CASE n = m
      <4>1. deliveries[n.uid] <= forgets
        BY <2>1, <2>5, <2>6, <3>2 DEF Remembered
      <4>2. deliveries'[n.uid] = deliveries[n.uid] + 1
        BY <1>1, <2>4, <2>5, <3>1, <3>2
      <4> QED
        BY <1>1, <1>3, <2>5, <3>1, <3>2, <4>1, <4>2
    <3>3. CASE n # m
      <4>1. n.uid # c.uid /\ n.id # c.id
        BY <1>7, <2>5, <3>3 DEF DistinctIds
      <4>2. deliveries'[n.uid] = deliveries[n.uid]
        BY <1>1, <2>4, <3>1, <4>1
      <4>3. n.id \in rx'.deliveredMsgs <=> n.id \in rx.deliveredMsgs
        BY <1>3, <4>1
      <4> QED
        BY <2>1, <4>2, <4>3 DEF Remembered
    <3> QED
      BY <3>2, <3>3
  <2> QED
    BY <2>3, <2>7 DEF Remembered
<1> QED
  BY <1>3, <1>4, <1>5, <1>6, <1>7, InvariantParts DEF IInv, TypeOK, LocksHaveTimers,
     OwnChunks, DeliveredWhole, RxStates, Replies, Locked, Own

(* The chunk handler: one step for each way out of onChunkReceived. *)
LEMMA ChunkStep ==
  ASSUME IInv, NEW c \in Chunks, OnChunkReceived(c)
  PROVE  IInv'
<1>1. /\ rx \in RxStates /\ replies \in Seq(Replies)
      /\ accept \in Answers /\ question \in BOOLEAN /\ HeldMeansAsked
      /\ silenced \subseteq Uids /\ newest \in Nat
  BY InvariantParts
<1>2. c.cc <= c.total /\ c.uid \in Nat
  BY ChunkFacts DEF OnChunkReceived
<1>3. newest' \in Nat /\ UNCHANGED <<refused, silenced, forgets>>
  BY <1>1, <1>2 DEF OnChunkReceived
<1>4. /\ Active \in RxStates /\ SameStore(Active, rx)
      /\ Locked(rx) => Locked(Active)
      /\ Own(rx) => Own(Active)
      /\ Counted(c) \in RxStates /\ SameStore(Counted(c), rx)
      /\ Locked(rx) => Locked(Counted(c))
      /\ Own(rx) => Own(Counted(c))
  BY <1>1, CountedFacts
<1>5. ASSUME NEW r, SessionChanged(r)
      PROVE  accept' \in Answers /\ question' \in BOOLEAN /\ HeldMeansAsked'
  BY <1>1, <1>5, WindowFacts DEF SessionChanged
<1>6. CASE IgnoreJoin(c)
  <2>1. rx' = Active /\ replies' = replies
        /\ UNCHANGED <<accept, question, deliveries, mangled>>
    BY <1>6 DEF IgnoreJoin
  <2>2. accept' \in Answers /\ question' \in BOOLEAN /\ HeldMeansAsked'
    BY <1>1, <2>1, WindowFacts
  <2> QED
    BY <1>1, <1>3, <1>4, <2>1, <2>2, QuietStep DEF SameStore
<1>7. CASE NackCorrupt(c)
  <2> DEFINE r == Activity(Active)
             q == [r EXCEPT !.nackHeld = TRUE]
  <2>1. /\ r \in RxStates /\ SameStore(r, Active)
        /\ Locked(Active) => Locked(r)
        /\ Own(Active) => Own(r)
    BY <1>4, ActivityFacts
  <2>2. rx' = q /\ SessionChanged(r) /\ UNCHANGED <<deliveries, mangled>>
    BY <1>7 DEF NackCorrupt
  <2> HIDE DEF r
  <2>3. q \in RxStates /\ SameStore(q, r) /\ q.phase = r.phase /\ q.stall = r.stall
    BY <2>1 DEF RxStates, SameStore
  <2>4. (Locked(r) => Locked(q)) /\ (Own(r) => Own(q))
    <3>1. Locked(r) => (q.phase = "Receiving" => q.stall)
      BY <2>3 DEF Locked
    <3> QED
      BY <2>1, <2>3, <3>1 DEF SameStore, Locked, Own, Held
  <2>5. replies' \in Seq(Replies)
    BY <1>1, <1>7, ReplyFacts DEF NackCorrupt
  <2>6. q.deliveredMsgs = rx.deliveredMsgs
    BY <1>4, <2>1, <2>3 DEF SameStore
  <2> HIDE DEF q
  <2> QED
    BY <1>1, <1>3, <1>4, <1>5, <2>1, <2>2, <2>3, <2>4, <2>5, <2>6, QuietStep
<1>8. CASE ReAck(c)
  <2>1. rx' = Counted(c) /\ SessionChanged(Counted(c))
        /\ UNCHANGED <<deliveries, mangled>>
    BY <1>8 DEF ReAck
  <2>2. replies' \in Seq(Replies)
    BY <1>1, <1>8, ReplyFacts DEF ReAck
  <2> QED
    BY <1>1, <1>3, <1>4, <1>5, <2>1, <2>2, QuietStep DEF SameStore
<1>9. CASE AckAndStore(c)
  <2>1. rx' = Stored(c) /\ SessionChanged(Stored(c))
        /\ UNCHANGED <<deliveries, mangled>>
    BY <1>9 DEF AckAndStore
  <2>2. replies' \in Seq(Replies)
    BY <1>1, <1>9, ReplyFacts DEF AckAndStore
  <2>3. /\ Stored(c) \in RxStates /\ Stored(c).deliveredMsgs = rx.deliveredMsgs
        /\ Locked(rx) => Locked(Stored(c))
        /\ Own(rx) => Own(Stored(c))
    BY <1>1, <1>2, StoredFacts
  <2> QED
    BY <1>1, <1>3, <1>5, <2>1, <2>2, <2>3, QuietStep
<1>10. CASE AckAndDeliver(c)
  BY <1>2, <1>3, <1>10, DeliveryStep
<1> QED
  BY <1>6, <1>7, <1>8, <1>9, <1>10 DEF OnChunkReceived

LEMMA EvictStep ==
  ASSUME IInv, NEW id \in MsgIds, OnAssemblyEvictTimerExpired(id)
  PROVE  IInv'
<1> DEFINE e == SessionEnd(rx)
           q == [e EXCEPT !.assemblies[id] = [cc \in ChunkIds |-> 0],
                          !.evict[id] = FALSE]
<1>1. rx \in RxStates
  BY InvariantParts
<1>2. e \in RxStates /\ SameStore(e, rx) /\ e.phase = "Idle"
  BY <1>1, SessionEndFacts
<1>3. rx' = q
  BY DEF OnAssemblyEvictTimerExpired
<1> HIDE DEF e
<1>4. q \in RxStates
  BY <1>2 DEF RxStates
<1>5. /\ q.phase = "Idle"
      /\ q.assemblies = [rx.assemblies EXCEPT ![id] = [cc \in ChunkIds |-> 0]]
      /\ q.evict = [rx.evict EXCEPT ![id] = FALSE]
      /\ q.deliveredMsgs = rx.deliveredMsgs
  BY <1>2 DEF RxStates, SameStore
<1> HIDE DEF q
<1>6. (Locked(rx) => Locked(q)) /\ (Own(rx) => Own(q))
  BY <1>1, <1>4, <1>5, ErasedFacts
<1>7. accept' \in Answers /\ question' \in BOOLEAN /\ HeldMeansAsked'
  BY InvariantParts, WindowFacts DEF OnAssemblyEvictTimerExpired, SettleIfEngaged
<1>8. /\ replies' \in Seq(Replies) /\ silenced' \subseteq Uids /\ newest' \in Nat
      /\ UNCHANGED <<refused, deliveries, mangled, forgets>>
  BY InvariantParts DEF OnAssemblyEvictTimerExpired
<1> QED
  BY <1>3, <1>4, <1>5, <1>6, <1>7, <1>8, QuietStep

(* The quiet timer, the NACK interval and the stall timer. *)
LEMMA TimerStep ==
  ASSUME IInv, StallTimerExpires \/ OnQuietTimerExpired \/ NackIntervalPasses
  PROVE  IInv'
<1>1. rx \in RxStates /\ (Locked(rx) => (rx.phase = "Receiving" => rx.stall))
  BY InvariantParts DEF Locked
<1>2. rx' \in RxStates /\ SameStore(rx', rx)
  <2>1. CASE StallTimerExpires
    BY <1>1, <2>1 DEF StallTimerExpires, RxStates, SameStore, Phases
  <2>2. CASE OnQuietTimerExpired
    BY <1>1, <2>2 DEF OnQuietTimerExpired, RxStates, SameStore
  <2>3. CASE NackIntervalPasses
    BY <1>1, <2>3 DEF NackIntervalPasses, RxStates, SameStore
  <2> QED
    BY <2>1, <2>2, <2>3
<1>3. Locked(rx) => (rx'.phase = "Receiving" => rx'.stall)
  BY <1>1 DEF StallTimerExpires, OnQuietTimerExpired, NackIntervalPasses, RxStates
<1>4. (Locked(rx) => Locked(rx')) /\ (Own(rx) => Own(rx'))
  BY <1>2, <1>3 DEF SameStore, Locked, Own, Held
<1>5. UNCHANGED <<replies, accept, question, refused, silenced,
                  deliveries, mangled, newest, forgets>>
  BY DEF StallTimerExpires, OnQuietTimerExpired, NackIntervalPasses
<1>6. accept' \in Answers /\ question' \in BOOLEAN /\ HeldMeansAsked'
  BY <1>5, InvariantParts, WindowFacts
<1>7. replies' \in Seq(Replies) /\ silenced' \subseteq Uids /\ newest' \in Nat
  BY <1>5, InvariantParts
<1> QED
  BY <1>2, <1>4, <1>5, <1>6, <1>7, QuietStep DEF SameStore

LEMMA ReplyStep ==
  ASSUME IInv, ReplyKeysUp
  PROVE  IInv'
<1>1. replies \in Seq(Replies) /\ replies # <<>> /\ silenced \subseteq Uids
  BY InvariantParts DEF ReplyKeysUp
<1>2. Head(replies).uid \in Uids
  <2>1. Head(replies) \in Replies
    BY <1>1
  <2> QED
    BY <2>1 DEF Replies
<1>3. replies' \in Seq(Replies) /\ silenced' \subseteq Uids
  BY <1>1, <1>2 DEF ReplyKeysUp
<1>4. UNCHANGED <<rx, accept, question, refused, deliveries, mangled, newest, forgets>>
  BY DEF ReplyKeysUp
<1>5. accept' \in Answers /\ question' \in BOOLEAN /\ HeldMeansAsked'
  BY <1>4, InvariantParts, WindowFacts
<1>6. rx' \in RxStates /\ newest' \in Nat
  BY <1>4, InvariantParts
<1> QED
  BY <1>3, <1>4, <1>5, <1>6, QuietStep

LEMMA AcceptStep ==
  ASSUME IInv, OperatorAccepts
  PROVE  IInv'
<1>1. accept' \in Answers /\ question' \in BOOLEAN /\ HeldMeansAsked'
  BY DEF OperatorAccepts, Answers, HeldMeansAsked
<1>2. UNCHANGED <<rx, replies, refused, silenced, deliveries, mangled, newest, forgets>>
  BY DEF OperatorAccepts
<1>3. /\ rx' \in RxStates /\ replies' \in Seq(Replies)
      /\ silenced' \subseteq Uids /\ newest' \in Nat
  BY <1>2, InvariantParts
<1> QED
  BY <1>1, <1>2, <1>3, QuietStep

LEMMA DropStep ==
  ASSUME IInv, OperatorRefuses \/ HaltAll \/ Restart
  PROVE  IInv'
<1>1. /\ rx' = BlankRx /\ forgets' = forgets + 1
      /\ UNCHANGED <<silenced, deliveries, mangled, newest>>
  BY DEF OperatorRefuses, HaltAll, Restart
<1>2. accept' \in Answers /\ question' \in BOOLEAN /\ HeldMeansAsked'
  <2>1. CASE OperatorRefuses
    BY <2>1 DEF OperatorRefuses, Answers, HeldMeansAsked
  <2>2. CASE HaltAll
    BY <2>2, InvariantParts, WindowFacts DEF HaltAll, SettleIfEngaged
  <2>3. CASE Restart
    BY <2>3, InvariantParts, WindowFacts DEF Restart
  <2> QED
    BY <2>1, <2>2, <2>3
<1>3. replies' \in Seq(Replies) /\ refused' \subseteq Uids
  <2>1. replies \in Seq(Replies) /\ refused \subseteq Uids
    BY InvariantParts
  <2>2. replies' = replies \/ replies' = <<>>
    BY DEF OperatorRefuses, HaltAll, Restart
  <2>3. refused' = refused \/ refused' = refused \cup {u \in Uids : u <= newest}
    BY DEF OperatorRefuses, HaltAll, Restart
  <2>4. <<>> \in Seq(Replies)
    OBVIOUS
  <2> QED
    BY <2>1, <2>2, <2>3, <2>4
<1> QED
  BY <1>1, <1>2, <1>3, ForgettingStep

LEMMA StepPreserves == IInv /\ [Next]_vars => IInv'
<1> SUFFICES ASSUME IInv, [Next]_vars PROVE IInv'
  OBVIOUS
<1>1. ASSUME NEW c \in Chunks, OnChunkReceived(c) PROVE IInv'
  BY <1>1, ChunkStep
<1>2. CASE ReplyKeysUp
  BY <1>2, ReplyStep
<1>3. CASE StallTimerExpires \/ OnQuietTimerExpired \/ NackIntervalPasses
  BY <1>3, TimerStep
<1>4. ASSUME NEW id \in MsgIds, OnAssemblyEvictTimerExpired(id) PROVE IInv'
  BY <1>4, EvictStep
<1>5. CASE OperatorAccepts
  BY <1>5, AcceptStep
<1>6. CASE OperatorRefuses \/ HaltAll \/ Restart
  BY <1>6, DropStep
<1>7. CASE UNCHANGED vars
  BY <1>7 DEF vars, IInv, TypeOK, LocksHaveTimers, HeldMeansAsked, OwnChunks,
     Remembered, DeliveredWhole, Held
<1> QED
  BY <1>1, <1>2, <1>3, <1>4, <1>5, <1>6, <1>7 DEF Next

-----------------------------------------------------------------------------
(* The theorems. *)

(* Nothing the receiver can be sent leads out of the invariant. *)
THEOREM Invariance == Spec => []IInv
<1>1. Init => IInv
  BY InitEstablishes
<1>2. IInv /\ [Next]_vars => IInv'
  BY StepPreserves
<1> QED
  BY <1>1, <1>2, PTL DEF Spec

(* Every variable keeps its type; above all, every reply carries a chunk   *)
(* number the frame has room for.                                          *)
THEOREM TypeCorrect == Spec => []TypeOK
<1>1. IInv => TypeOK
  BY DEF IInv
<1> QED
  BY <1>1, Invariance, PTL

(* The banner and the lock of a partial assembly never outlive the timer   *)
(* that takes them down, with any number of messages in flight.            *)
THEOREM LocksAreTimed == Spec => []LocksHaveTimers
<1>1. IInv => LocksHaveTimers
  BY DEF IInv
<1> QED
  BY <1>1, Invariance, PTL

(* Replies are held for an answer exactly while the question is open.      *)
THEOREM QuestionStandsWhileHeld == Spec => []HeldMeansAsked
<1>1. IInv => HeldMeansAsked
  BY DEF IInv
<1> QED
  BY <1>1, Invariance, PTL

(* As long as the ids tell the messages apart, whatever is delivered is a  *)
(* message complete and in order, although completion only counts chunks.  *)
THEOREM WholeMessagesOnly == ASSUME DistinctIds PROVE Spec => []DeliveredWhole
<1>1. IInv => DeliveredWhole
  BY DEF IInv
<1> QED
  BY <1>1, Invariance, PTL

(* Under the same condition a message is delivered at most once more than  *)
(* the RxState was dropped, whatever is retransmitted and in any order.    *)
THEOREM DeliveredOnce == ASSUME DistinctIds PROVE Spec => []AtMostOnce
<1>1. IInv => AtMostOnce
  <2> SUFFICES ASSUME IInv, NEW m \in Messages
               PROVE  deliveries[m.uid] <= 1 + forgets
    BY DEF AtMostOnce, Uids
  <2>1. deliveries[m.uid] \in Nat /\ forgets \in Nat
    BY InvariantParts DEF Uids
  <2>2. deliveries[m.uid] \in 1..(forgets + 1) \/ deliveries[m.uid] <= forgets
    BY DEF IInv, Remembered
  <2> QED
    BY <2>1, <2>2
<1> QED
  BY <1>1, Invariance, PTL

(* Under the same condition an ACK is a promise kept: the chunk is in the  *)
(* assembly, or its message has been delivered.                            *)
THEOREM AcknowledgedIsKept == ASSUME DistinctIds PROVE Spec => AckMeansKept
<1> DEFINE Kept(a) == \/ deliveries'[a.uid] > 0
                      \/ \E id \in MsgIds : rx'.assemblies[id][a.cc] = a.uid
           Promise == \A n \in DOMAIN replies' :
                        n > Len(replies) /\ replies'[n].kind = "ACK"
                          => Kept(replies'[n])
<1>1. ASSUME IInv, NEW c \in Chunks, c.cc <= c.total,
             ReAck(c) \/ AckAndStore(c) \/ AckAndDeliver(c)
      PROVE  \A a : a.uid = c.uid /\ a.cc = c.cc => Kept(a)
  <2>1. /\ rx \in RxStates /\ deliveries \in [Uids -> Nat] /\ forgets \in Nat
        /\ Own(rx) /\ Remembered
    BY <1>1, InvariantParts
  <2>2. c.uid \in Uids /\ c.id \in MsgIds
    BY ChunkFacts
  <2>3. CASE ReAck(c)
    <3>1. PICK m \in Messages : m.uid = c.uid /\ m.id = c.id
      BY ChunkFacts
    <3>2. deliveries' = deliveries /\ c.id \in rx.deliveredMsgs
      BY <2>3 DEF ReAck
    <3>3. deliveries[c.uid] \in 1..(forgets + 1)
      BY <2>1, <3>1, <3>2 DEF Remembered
    <3>4. deliveries'[c.uid] > 0
      BY <2>1, <3>2, <3>3
    <3> QED
      BY <3>4
  <2>4. CASE AckAndStore(c)
    <3>1. rx'.assemblies[c.id][c.cc] = c.uid
      BY <1>1, <2>1, <2>4, StoredFacts DEF AckAndStore
    <3> QED
      BY <2>2, <3>1
  <2>5. CASE AckAndDeliver(c)
    <3>1. Whole(c)
      BY <1>1, <2>1, <2>5, CompleteIsWhole DEF AckAndDeliver
    <3>2. deliveries' = [deliveries EXCEPT ![c.uid] = @ + 1]
      BY <2>1, <2>2, <2>5, <3>1 DEF AckAndDeliver
    <3>3. deliveries'[c.uid] > 0
      BY <2>1, <2>2, <3>2
    <3> QED
      BY <3>3
  <2> QED
    BY <1>1, <2>3, <2>4, <2>5
<1>2. ASSUME IInv, NEW c \in Chunks, NEW kind, replies' = Reply(kind, c),
             kind = "ACK" => \A a : a.uid = c.uid /\ a.cc = c.cc => Kept(a)
      PROVE  Promise
  <2> DEFINE a == [kind |-> kind, seq |-> AckWireSeq(c.cc), uid |-> c.uid, cc |-> c.cc]
  <2>1. replies \in Seq(Replies)
    BY <1>2, InvariantParts
  <2>2. replies' = Append(replies, a)
    BY <1>2 DEF Reply
  <2>3. a.kind = kind /\ a.uid = c.uid /\ a.cc = c.cc
    OBVIOUS
  <2>4. kind = "ACK" => Kept(a)
    BY <1>2, <2>3
  <2> HIDE DEF a, Kept
  <2>5. ASSUME NEW n \in DOMAIN replies', n > Len(replies) PROVE replies'[n] = a
    <3>1. Len(replies) \in Nat /\ DOMAIN replies' = 1..(Len(replies) + 1)
      BY <2>1, <2>2
    <3>2. n = Len(replies) + 1
      BY <2>5, <3>1
    <3> QED
      BY <2>1, <2>2, <3>2
  <2> QED
    BY <2>3, <2>4, <2>5
<1>3. ASSUME IInv,
             replies' = replies \/ replies' = <<>>
               \/ (replies # <<>> /\ replies' = Tail(replies))
      PROVE  Promise
  <2>1. replies \in Seq(Replies) /\ Len(replies) \in Nat
    BY <1>3, InvariantParts
  <2>2. \A n \in DOMAIN replies' : ~(n > Len(replies))
    BY <1>3, <2>1
  <2> QED
    BY <2>2
<1> HIDE DEF Kept
<1>4. IInv /\ [Next]_vars => Promise \/ UNCHANGED vars
  <2> SUFFICES ASSUME IInv, [Next]_vars PROVE Promise \/ UNCHANGED vars
    OBVIOUS
  <2>1. ASSUME NEW c \in Chunks, OnChunkReceived(c) PROVE Promise
    <3>1. c.cc <= c.total
      BY <2>1 DEF OnChunkReceived
    <3>2. CASE IgnoreJoin(c)
      <4>1. replies' = replies
        BY <3>2 DEF IgnoreJoin
      <4> QED
        BY <1>3, <4>1
    <3>3. CASE NackCorrupt(c)
      <4>1. replies' = replies \/ replies' = Reply("NACK", c)
        BY <3>3 DEF NackCorrupt
      <4> QED
        BY <1>2, <1>3, <4>1
    <3>4. CASE ReAck(c) \/ AckAndStore(c) \/ AckAndDeliver(c)
      <4>1. replies' = Reply("ACK", c)
        BY <3>4 DEF ReAck, AckAndStore, AckAndDeliver
      <4> QED
        BY <1>1, <1>2, <3>1, <3>4, <4>1
    <3> QED
      BY <2>1, <3>2, <3>3, <3>4 DEF OnChunkReceived
  <2>2. CASE ReplyKeysUp
    <3>1. replies # <<>> /\ replies' = Tail(replies)
      BY <2>2 DEF ReplyKeysUp
    <3> QED
      BY <1>3, <3>1
  <2>3. CASE \/ StallTimerExpires
             \/ \E id \in MsgIds : OnAssemblyEvictTimerExpired(id)
             \/ OnQuietTimerExpired \/ NackIntervalPasses
             \/ OperatorAccepts \/ OperatorRefuses \/ HaltAll \/ Restart
    <3>1. replies' = replies \/ replies' = <<>>
      BY <2>3 DEF StallTimerExpires, OnAssemblyEvictTimerExpired, OnQuietTimerExpired,
         NackIntervalPasses, OperatorAccepts, OperatorRefuses, HaltAll, Restart
    <3> QED
      BY <1>3, <3>1
  <2> QED
    BY <2>1, <2>2, <2>3 DEF Next
<1>5. Promise \/ UNCHANGED vars => [Promise]_vars
  OBVIOUS
<1> QED
  BY <1>4, <1>5, Invariance, PTL DEF Spec, AckMeansKept, Kept

=============================================================================
