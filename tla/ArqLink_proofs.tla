-------------------------- MODULE ArqLink_proofs ---------------------------
(***************************************************************************)
(* What the link keeps for every number of messages and chunks, every      *)
(* retry limit and every length of the queues on the way, whatever is      *)
(* lost, delayed or damaged: proved under the conditions Separate.         *)
(***************************************************************************)
EXTENDS ArqLink, Integers, FiniteSetTheorems, TLAPS

(***************************************************************************)
(* Wire numbers: three neighbouring chunks have different ones.            *)
(***************************************************************************)
LEMMA Division ==
  ASSUME NEW a \in Nat, NEW m \in Nat \ {0}
  PROVE  /\ a = (m * (a \div m)) + (a % m)
         /\ a \div m \in Int
         /\ a % m \in 0..(m - 1)
OBVIOUS

LEMMA NoSmallMultiple ==
  ASSUME NEW k \in Int, NEW m \in Nat, NEW d \in 1..2, m > 2
  PROVE  m * k # d
<1>1. CASE k <= 0
  BY <1>1
<1>2. CASE k >= 1
  <2>1. m * k >= m
    BY <1>2
  <2> QED
    BY <2>1
<1> QED
  BY <1>1, <1>2

LEMMA CloseNumbersDiffer ==
  ASSUME NEW c \in Nat \ {0}, NEW d \in 1..2, ACK_SEQ_MODULUS > 2
  PROVE  AckWireSeq(c) # AckWireSeq(c + d)
<1> DEFINE m == ACK_SEQ_MODULUS
           e == (c - 1) + d
           q == (c - 1) \div m
           r == e \div m
<1> SUFFICES ASSUME AckWireSeq(c) = AckWireSeq(c + d) PROVE FALSE
  OBVIOUS
<1>1. m \in Nat \ {0} /\ m > 2 /\ c - 1 \in Nat /\ e \in Nat
  BY WireAssumption
<1>2. (c - 1) % m = e % m
  <2>1. (c + d) - 1 = e
    OBVIOUS
  <2>2. (c - 1) % m \in Int /\ e % m \in Int
    BY <1>1
  <2> QED
    BY <1>1, <2>1, <2>2 DEF AckWireSeq
<1>3. /\ c - 1 = (m * q) + ((c - 1) % m)
      /\ e = (m * r) + (e % m)
      /\ q \in Int /\ r \in Int
      /\ e % m \in Int
  BY <1>1, Division
<1>4. e = (c - 1) + d
  OBVIOUS
<1> HIDE DEF m, e, q, r
<1>5. (m * r) - (m * q) = d
  <2>1. m * r \in Int /\ m * q \in Int
    BY <1>1, <1>3
  <2> QED
    BY <1>1, <1>2, <1>3, <1>4, <2>1
<1>6. m * (r - q) = d /\ r - q \in Int
  BY <1>1, <1>3, <1>5
<1> QED
  BY <1>1, <1>6, NoSmallMultiple

(***************************************************************************)
(* Sequences on the way: what the removal of the oldest element and the    *)
(* arrival of a new one do to their order.                                 *)
(***************************************************************************)
LEMMA TailElements ==
  ASSUME NEW S, NEW s \in Seq(S), s # <<>>
  PROVE  /\ Tail(s) \in Seq(S)
         /\ Head(s) \in S /\ Head(s) = s[1] /\ 1 \in DOMAIN s
         /\ \A i \in DOMAIN Tail(s) : i + 1 \in DOMAIN s /\ Tail(s)[i] = s[i + 1]
         /\ DOMAIN s \subseteq Nat \ {0} /\ DOMAIN Tail(s) \subseteq Nat \ {0}
OBVIOUS

LEMMA AppendElements ==
  ASSUME NEW S, NEW s \in Seq(S), NEW e \in S
  PROVE  /\ Append(s, e) \in Seq(S)
         /\ \A i \in DOMAIN Append(s, e) :
               \/ i \in DOMAIN s /\ Append(s, e)[i] = s[i]
               \/ Append(s, e)[i] = e /\ \A j \in DOMAIN Append(s, e) : j <= i
         /\ DOMAIN s \subseteq Nat /\ DOMAIN Append(s, e) \subseteq Nat
OBVIOUS

LEMMA TailKeepsOrder ==
  ASSUME NEW S, NEW s \in Seq(S), s # <<>>, NEW t
  PROVE  /\ Sorted(s) => Sorted(Tail(s))
         /\ Before(s, t) => Before(Tail(s), t)
         /\ Before(t, s) => Before(t, Tail(s))
<1>1. ASSUME Sorted(s) PROVE Sorted(Tail(s))
  <2> SUFFICES ASSUME NEW i \in DOMAIN Tail(s), NEW j \in DOMAIN Tail(s), i < j
               PROVE  Tail(s)[i].cc <= Tail(s)[j].cc
    BY DEF Sorted
  <2>1. i + 1 < j + 1
    BY TailElements
  <2> QED
    BY <1>1, <2>1, TailElements DEF Sorted
<1>2. ASSUME Before(s, t) PROVE Before(Tail(s), t)
  BY <1>2, TailElements DEF Before
<1>3. ASSUME Before(t, s) PROVE Before(t, Tail(s))
  BY <1>3, TailElements DEF Before
<1> QED
  BY <1>1, <1>2, <1>3

LEMMA AppendKeepsOrder ==
  ASSUME NEW S, NEW s \in Seq(S), NEW e \in S, NEW t, e.cc \in Nat
  PROVE  /\ Sorted(s) /\ (\A i \in DOMAIN s : s[i].cc <= e.cc) => Sorted(Append(s, e))
         /\ Before(s, t) /\ (\A i \in DOMAIN t : e.cc <= t[i].cc) => Before(Append(s, e), t)
         /\ Before(t, s) /\ (\A i \in DOMAIN t : t[i].cc <= e.cc) => Before(t, Append(s, e))
<1>1. ASSUME Sorted(s), \A i \in DOMAIN s : s[i].cc <= e.cc PROVE Sorted(Append(s, e))
  <2> SUFFICES ASSUME NEW i \in DOMAIN Append(s, e), NEW j \in DOMAIN Append(s, e), i < j
               PROVE  Append(s, e)[i].cc <= Append(s, e)[j].cc
    BY DEF Sorted
  <2>1. i \in DOMAIN s /\ Append(s, e)[i] = s[i]
    BY AppendElements
  <2>2. CASE j \in DOMAIN s /\ Append(s, e)[j] = s[j]
    BY <1>1, <2>1, <2>2 DEF Sorted
  <2>3. CASE Append(s, e)[j] = e
    BY <1>1, <2>1, <2>3
  <2> QED
    BY <2>2, <2>3, AppendElements
<1>2. ASSUME Before(s, t), \A i \in DOMAIN t : e.cc <= t[i].cc PROVE Before(Append(s, e), t)
  BY <1>2, AppendElements DEF Before
<1>3. ASSUME Before(t, s), \A i \in DOMAIN t : t[i].cc <= e.cc PROVE Before(t, Append(s, e))
  BY <1>3, AppendElements DEF Before
<1> QED
  BY <1>1, <1>2, <1>3

(***************************************************************************)
(* The assumptions, and the names of the messages in both modules.         *)
(***************************************************************************)
LEMMA Constants ==
  /\ MsgIds = 1..MSG_ID_MAX /\ MSG_ID_MAX \in Nat \ {0}
  /\ Rcvr!ChunkIds = 1..MAX_CHUNKS /\ MAX_CHUNKS \in Nat
  /\ Sizes \subseteq 1..MAX_CHUNKS
  /\ Sends = 1..MaxMsgs /\ MaxMsgs \in Nat
  /\ Sender!Sends = Sends
  /\ Rcvr!Uids = Sends
<1>1. MsgIds = 1..MSG_ID_MAX /\ MSG_ID_MAX \in Nat \ {0}
  BY WireAssumption DEF MsgIds, MSG_ID_MIN
<1>2. Rcvr!Uids = Sends
  <2>1. PICK n \in Sizes : TRUE
    BY LinkAssumption
  <2>2. 1 \in MsgIds
    BY <1>1
  <2>3. ASSUME NEW u \in Sends PROVE u \in Rcvr!Uids
    <3>1. \E m \in [uid : Sends, id : MsgIds, total : Sizes] : u = m.uid
      <4>1. [uid |-> u, id |-> 1, total |-> n] \in [uid : Sends, id : MsgIds, total : Sizes]
        BY <2>1, <2>2, <2>3
      <4> QED
        BY <4>1
    <3> QED
      BY ONLY <3>1 DEF Rcvr!Uids
  <2> QED
    BY <2>3 DEF Rcvr!Uids
<1> QED
  BY <1>1, <1>2, LinkAssumption DEF Rcvr!ChunkIds, Sends, Sender!Sends

(***************************************************************************)
(* What a step of the sender may do to the send in flight, as far as the   *)
(* receiver and the user see it: nothing, the next chunk, the end of the   *)
(* send, or the start of one.                                              *)
(***************************************************************************)
SameMessage ==
  /\ State'.uid = State.uid /\ State'.msgId = State.msgId
  /\ State'.total = State.total /\ State'.isBinary = State.isBinary

Keeps ==
  /\ UNCHANGED <<inFlight, accepted, nextMsgId, reports>>
  /\ snd' \in [{Receiver} -> Sender!SendState]
  /\ SameMessage /\ State'.nextIdx = State.nextIdx
  /\ ~Sending => State' = State

Advances ==
  /\ Sending /\ State.nextIdx + 1 < State.total
  /\ UNCHANGED <<inFlight, accepted, nextMsgId, reports>>
  /\ snd' \in [{Receiver} -> Sender!SendState]
  /\ SameMessage /\ State'.nextIdx = State.nextIdx + 1

Ends(reason) ==
  /\ Sending
  /\ inFlight' = {} /\ UNCHANGED <<accepted, nextMsgId>>
  /\ snd' \in [{Receiver} -> Sender!SendState] /\ State' = Sender!Blank
  /\ reports' = [reports EXCEPT ![accepted] = Append(@, reason)]

Starts(n) ==
  /\ ~Sending /\ accepted < MaxMsgs
  /\ accepted' = accepted + 1 /\ nextMsgId' = BumpMsgId(nextMsgId)
  /\ inFlight' = {Receiver} /\ UNCHANGED reports
  /\ snd' \in [{Receiver} -> Sender!SendState]
  /\ State'.uid = accepted + 1 /\ State'.msgId = nextMsgId
  /\ State'.total = n /\ State'.nextIdx = 0 /\ ~State'.isBinary

(* What Carry may do to the air. *)
Carries ==
  \/ air' = air
  \/ /\ State'.airings > 0
     /\ \E ok \in BOOLEAN : air' = Append(air, AiredChunk(ok))

LEMMA CarryCarries == Carry => Carries
BY DEF Carry, Carries, Aired

LEMMA BlankIsState == Sender!Blank \in Sender!SendState
BY DEF Sender!Blank, Sender!SendState

(* The facts of IInv a step of the sender starts from. *)
LEMMA SenderFacts ==
  ASSUME IInv
  PROVE  /\ snd \in [{Receiver} -> Sender!SendState] /\ State \in Sender!SendState
         /\ Sending => /\ inFlight = {Receiver}
                       /\ accepted \in Sends /\ State.uid = accepted
                       /\ State.isBinary = FALSE
                       /\ State.nextIdx \in Nat /\ State.total \in Nat
                       /\ State.nextIdx < State.total
         /\ ~Sending => inFlight = {} /\ State = Sender!Blank
<1>1. inFlight \subseteq {Receiver} /\ snd \in [{Receiver} -> Sender!SendState]
  BY DEF IInv, TypeOK
<1>2. State \in Sender!SendState
  BY <1>1 DEF State
<1>3. SendsLatest /\ accepted \in 0..MaxMsgs
  BY DEF IInv, TypeOK
<1>4. CASE Sending
  <2>1. accepted > 0 /\ State.uid = accepted /\ ~State.isBinary /\ State.nextIdx < State.total
    BY <1>3, <1>4 DEF SendsLatest
  <2>2. accepted \in Sends
    BY <1>3, <2>1, Constants
  <2>3. State.isBinary \in BOOLEAN /\ State.nextIdx \in Nat /\ State.total \in Nat
    BY <1>2 DEF Sender!SendState
  <2>4. inFlight = {Receiver}
    BY <1>1, <1>4 DEF Sending
  <2> QED
    BY <1>1, <1>2, <1>4, <2>1, <2>2, <2>3, <2>4
<1>5. CASE ~Sending
  BY <1>1, <1>2, <1>3, <1>5 DEF Sending, SendsLatest
<1> QED
  BY <1>4, <1>5

(* The two ends of sendNextChunk. *)
LEMMA TransmitFacts ==
  ASSUME snd \in [{Receiver} -> Sender!SendState],
         NEW s \in Sender!SendState, NEW strays,
         Sender!Transmit(Receiver, s, strays)
  PROVE  /\ inFlight' = inFlight \cup {Receiver} /\ reports' = reports
         /\ snd' \in [{Receiver} -> Sender!SendState]
         /\ State'.uid = s.uid /\ State'.msgId = s.msgId
         /\ State'.total = s.total /\ State'.isBinary = s.isBinary
         /\ State'.nextIdx = s.nextIdx
<1> DEFINE t == [s EXCEPT !.timer = FALSE, !.awaitingTxDone = TRUE, !.airings = @ + 1]
<1>1. /\ inFlight' = inFlight \cup {Receiver} /\ reports' = reports
      /\ snd' = [snd EXCEPT ![Receiver] = t]
  BY DEF Sender!Transmit
<1>2. t \in Sender!SendState
  <2>1. s.airings + 1 \in Nat
    BY DEF Sender!SendState
  <2> QED
    BY <2>1 DEF Sender!SendState
<1>3. /\ t.uid = s.uid /\ t.msgId = s.msgId /\ t.total = s.total
      /\ t.isBinary = s.isBinary /\ t.nextIdx = s.nextIdx
  BY DEF Sender!SendState
<1> HIDE DEF t
<1>4. State' = t /\ snd' \in [{Receiver} -> Sender!SendState]
  BY <1>1, <1>2 DEF State
<1> QED
  BY <1>1, <1>3, <1>4

LEMMA DropFacts ==
  ASSUME IInv, Sending,
         NEW s \in Sender!SendState, s.uid = accepted, NEW reason, NEW strays,
         Sender!Drop(Receiver, s, reason, strays),
         UNCHANGED <<accepted, nextMsgId>>
  PROVE  Ends(reason)
<1>1. inFlight = {Receiver} /\ snd \in [{Receiver} -> Sender!SendState]
  BY SenderFacts
<1>2. /\ inFlight' = inFlight \ {Receiver}
      /\ snd' = [snd EXCEPT ![Receiver] = Sender!Blank]
      /\ reports' = [reports EXCEPT ![accepted] = Append(@, reason)]
  BY DEF Sender!Drop
<1>3. State' = Sender!Blank /\ snd' \in [{Receiver} -> Sender!SendState]
  BY <1>1, <1>2, BlankIsState DEF State
<1> QED
  BY <1>1, <1>2, <1>3 DEF Ends

(* The chunk goes out once more: the retry of a NACK or of a timeout. *)
LEMMA RetryFacts ==
  ASSUME IInv, Sending,
         NEW s \in Sender!SendState, NEW strays,
         s.uid = State.uid, s.msgId = State.msgId, s.total = State.total,
         s.isBinary = State.isBinary, s.nextIdx = State.nextIdx,
         Sender!SendNextChunk(Receiver, s, strays),
         UNCHANGED <<accepted, nextMsgId>>
  PROVE  Keeps
<1>1. /\ inFlight = {Receiver} /\ snd \in [{Receiver} -> Sender!SendState]
      /\ s.nextIdx \in Nat /\ s.total \in Nat /\ s.nextIdx < s.total
  BY SenderFacts
<1>2. Sender!Transmit(Receiver, s, strays)
  BY <1>1 DEF Sender!SendNextChunk
<1> QED
  BY <1>1, <1>2, TransmitFacts DEF Keeps, SameMessage

LEMMA UnchangedKeeps ==
  ASSUME IInv, UNCHANGED <<inFlight, snd, accepted, nextMsgId, reports>>
  PROVE  Keeps
<1>1. snd' \in [{Receiver} -> Sender!SendState]
  BY SenderFacts
<1> QED
  BY <1>1 DEF Keeps, SameMessage, State

(* A send is accepted only from a blank SendState, and its first chunk     *)
(* goes out.                                                               *)
LEMMA SubmitStarts ==
  ASSUME IInv, NEW n \in Sizes, Sender!SendChunked(Receiver, n, FALSE)
  PROVE  Starts(n)
<1> DEFINE s == Sender!Started(Receiver, n, FALSE)
<1>1. /\ accepted < MaxMsgs /\ accepted' = accepted + 1
      /\ nextMsgId' = BumpMsgId(nextMsgId) /\ ~Sending
      /\ Sender!SendNextChunk(Receiver, s, strayTimers)
  BY DEF Sender!SendChunked, Sending, BumpMsgId, Sender!BumpMsgId,
         MSG_ID_MIN, Sender!MSG_ID_MIN
<1>2. /\ inFlight = {} /\ State \in Sender!SendState
      /\ snd \in [{Receiver} -> Sender!SendState] /\ State = Sender!Blank
  BY <1>1, SenderFacts
<1>3. accepted + 1 \in Nat /\ nextMsgId \in Nat /\ n \in Nat /\ n > 0
  BY Constants DEF IInv, TypeOK
<1>4. /\ s \in Sender!SendState
      /\ s.uid = accepted + 1 /\ s.msgId = nextMsgId /\ s.total = n
      /\ s.nextIdx = 0 /\ s.isBinary = FALSE
  <2>1. s = [State EXCEPT !.uid = accepted + 1, !.msgId = nextMsgId, !.total = n,
                          !.nextIdx = 0, !.retries = 0, !.airings = 0]
    BY DEF Sender!Started, State
  <2> HIDE DEF s
  <2>2. State.isBinary = FALSE
    BY <1>2 DEF Sender!Blank
  <2> QED
    BY <1>2, <1>3, <2>1, <2>2 DEF Sender!SendState
<1> HIDE DEF s
<1>5. Sender!Transmit(Receiver, s, strayTimers)
  BY <1>1, <1>3, <1>4 DEF Sender!SendNextChunk
<1> QED
  BY <1>1, <1>2, <1>4, <1>5, TransmitFacts DEF Starts

(* The timeout never advances the send, and never completes it.            *)
LEMMA TimeoutRetries ==
  ASSUME IInv, Sender!OnAckTimerExpired(Receiver)
  PROVE  Keeps \/ Ends("timeout_exhausted")
<1> DEFINE s == [snd[Receiver] EXCEPT !.timer = FALSE]
           t == [s EXCEPT !.retries = @ + 1]
<1>1. Sending /\ Sender!AckTimeout(Receiver, s, strayTimers)
  BY DEF Sender!OnAckTimerExpired, Sending
<1>2. State \in Sender!SendState /\ State.uid = accepted
  BY <1>1, SenderFacts
<1>3. /\ s \in Sender!SendState
      /\ s.uid = State.uid /\ s.msgId = State.msgId /\ s.total = State.total
      /\ s.isBinary = State.isBinary /\ s.nextIdx = State.nextIdx
  BY <1>2 DEF Sender!SendState, State
<1> HIDE DEF s
<1>4. /\ t \in Sender!SendState
      /\ t.uid = s.uid /\ t.msgId = s.msgId /\ t.total = s.total
      /\ t.isBinary = s.isBinary /\ t.nextIdx = s.nextIdx
  <2>1. s.retries + 1 \in Nat
    BY <1>3 DEF Sender!SendState
  <2> QED
    BY <1>3, <2>1 DEF Sender!SendState
<1> HIDE DEF t
<1>5. UNCHANGED <<accepted, nextMsgId>>
  BY <1>1 DEF Sender!AckTimeout
<1>6. CASE Sender!Drop(Receiver, s, "timeout_exhausted", strayTimers)
  BY <1>1, <1>2, <1>3, <1>5, <1>6, DropFacts
<1>7. CASE Sender!SendNextChunk(Receiver, t, strayTimers)
  BY <1>1, <1>3, <1>4, <1>5, <1>7, RetryFacts
<1> QED
  BY <1>1, <1>6, <1>7 DEF Sender!AckTimeout, t

LEMMA PollKeeps ==
  ASSUME IInv, NEW armed \in SUBSET {Receiver}, Sender!OnTxIdlePollTick(armed, 0)
  PROVE  Keeps
<1>1. State \in Sender!SendState /\ UNCHANGED <<inFlight, accepted, nextMsgId, reports>>
  BY SenderFacts DEF Sender!OnTxIdlePollTick
<1> DEFINE t == [State EXCEPT !.awaitingTxDone = FALSE, !.timer = TRUE]
<1>2. /\ t \in Sender!SendState
      /\ t.uid = State.uid /\ t.msgId = State.msgId /\ t.total = State.total
      /\ t.isBinary = State.isBinary /\ t.nextIdx = State.nextIdx
  BY <1>1 DEF Sender!SendState
<1>3. /\ snd' = [p \in {Receiver} |-> IF p \in armed THEN t ELSE State]
      /\ armed \subseteq Sender!Awaiting
  <2>1. /\ armed \subseteq Sender!Awaiting
        /\ snd' = [p \in {Receiver} |->
             IF p \in armed
             THEN [snd[p] EXCEPT !.awaitingTxDone = FALSE, !.timer = TRUE]
             ELSE snd[p]]
    BY DEF Sender!OnTxIdlePollTick
  <2> QED
    BY <2>1 DEF State
<1> HIDE DEF t
<1>4. State' = (IF Receiver \in armed THEN t ELSE State)
  BY <1>3 DEF State
<1>5. snd' \in [{Receiver} -> Sender!SendState]
  BY <1>1, <1>2, <1>3
<1>6. ~Sending => State' = State
  BY <1>3, <1>4 DEF Sender!Awaiting, Sending
<1> QED
  BY <1>1, <1>2, <1>4, <1>5, <1>6 DEF Keeps, SameMessage

LEMMA HaltEnds ==
  ASSUME IInv, Sender!HaltAll
  PROVE  Keeps \/ Ends("halted")
<1>1. /\ inFlight' = {} /\ snd' = [p \in {Receiver} |-> Sender!Blank]
      /\ UNCHANGED <<accepted, nextMsgId>>
      /\ reports' = [u \in Sends |-> IF \E p \in inFlight : snd[p].uid = u
                                     THEN Append(reports[u], "halted") ELSE reports[u]]
  BY Constants DEF Sender!HaltAll, Sender!ReportAll
<1>2. State' = Sender!Blank /\ snd' \in [{Receiver} -> Sender!SendState]
  BY <1>1, BlankIsState DEF State
<1>3. reports = [u \in Sends |-> reports[u]]
  BY Constants DEF IInv, TypeOK
<1>4. CASE Sending
  <2>1. inFlight = {Receiver} /\ State.uid = accepted /\ accepted \in Sends
    BY <1>4, SenderFacts
  <2>2. \A u \in Sends : (\E p \in inFlight : snd[p].uid = u) <=> u = accepted
    BY <2>1 DEF State
  <2>3. reports' = [reports EXCEPT ![accepted] = Append(@, "halted")]
    BY <1>1, <1>3, <2>1, <2>2
  <2> QED
    BY <1>1, <1>2, <1>4, <2>3 DEF Ends
<1>5. CASE ~Sending
  <2>1. inFlight = {} /\ State = Sender!Blank
    BY <1>5, SenderFacts
  <2>2. reports' = reports
    BY <1>1, <1>3, <2>1
  <2> QED
    BY <1>1, <1>2, <2>1, <2>2 DEF Keeps, SameMessage
<1> QED
  BY <1>4, <1>5

(***************************************************************************)
(* The answers.  Everything on the way is for the chunk outstanding or the *)
(* one before it, so a wire number that matches names the chunk itself.    *)
(***************************************************************************)
LEMMA BackElements ==
  ASSUME IInv, NEW i \in DOMAIN back
  PROVE  /\ back[i].cc \in Nat \ {0} /\ back[i].seq = AckWireSeq(back[i].cc)
         /\ back[i].uid = accepted
         /\ Sending => back[i].cc \in {State.nextIdx, State.nextIdx + 1}
<1>1. back \in Seq(Replies) /\ RepliesOfLatest(back)
  BY DEF IInv, TypeOK
<1>2. back[i] \in Replies
  BY <1>1
<1>3. PICK k \in {"ACK", "NACK"}, u \in Nat, cc \in Rcvr!ChunkIds :
        back[i] = [kind |-> k, seq |-> AckWireSeq(cc), uid |-> u, cc |-> cc]
  BY <1>2 DEF Replies
<1>4. back[i].cc \in Nat \ {0} /\ back[i].seq = AckWireSeq(back[i].cc)
  BY <1>3, Constants
<1>5. back[i].uid = accepted /\ Near(back[i].cc)
  BY <1>1 DEF RepliesOfLatest
<1>6. ASSUME Sending PROVE back[i].cc \in {State.nextIdx, State.nextIdx + 1}
  <2>1. State.nextIdx \in Nat
    BY <1>6, SenderFacts
  <2> QED
    BY <1>4, <1>5, <1>6, <2>1 DEF Near
<1> QED
  BY <1>4, <1>5, <1>6

LEMMA MatchNamesChunk ==
  ASSUME Separate, IInv, Sending, NEW i \in DOMAIN back
  PROVE  /\ Sender!Matches(Receiver, back[i].seq) => back[i].cc = State.nextIdx + 1
         /\ ~Sender!ImplicitAck(Receiver, back[i].seq)
<1> DEFINE x == State.nextIdx
           c == back[i].cc
<1>1. x \in Nat /\ c \in Nat \ {0} /\ c \in {x, x + 1} /\ back[i].seq = AckWireSeq(c)
  BY SenderFacts, BackElements
<1>2. ACK_SEQ_MODULUS > 2
  BY DEF Separate
<1>3. /\ Sender!Matches(Receiver, back[i].seq) <=> back[i].seq = AckWireSeq(x + 1)
      /\ Sender!ImplicitAck(Receiver, back[i].seq) => back[i].seq = AckWireSeq(x + 2)
  BY DEF Sender!Matches, Sender!ImplicitAck, Sender!AckWireSeq, AckWireSeq, State
<1> HIDE DEF x, c
<1>4. CASE c = x
  <2>1. AckWireSeq(c) # AckWireSeq(c + 1) /\ AckWireSeq(c) # AckWireSeq(c + 2)
    BY <1>1, <1>2, CloseNumbersDiffer
  <2> QED
    BY <1>1, <1>3, <1>4, <2>1 DEF c, x
<1>5. CASE c = x + 1
  <2>1. AckWireSeq(c) # AckWireSeq(c + 1)
    BY <1>1, <1>2, CloseNumbersDiffer
  <2>2. c + 1 = x + 2
    BY <1>1, <1>5
  <2> QED
    BY <1>1, <1>3, <1>5, <2>1, <2>2 DEF c, x
<1> QED
  BY <1>1, <1>4, <1>5

(* The send advances only past a chunk that is held, and completes only    *)
(* when the message has been delivered; what is behind the answer on the   *)
(* way is not older.                                                       *)
AdvancesRightly ==
  /\ Advances
  /\ Holds = {} \/ State.nextIdx + 1 \in Holds
  /\ back # <<>> /\ back' = Tail(back) /\ Head(back).cc = State.nextIdx + 1

EndsRightly ==
  \E reason \in Sender!Reasons :
     Ends(reason) /\ (reason = "complete" => deliveries[accepted] > 0)

LEMMA AckOutcome ==
  ASSUME Separate, IInv, back # <<>>, back' = Tail(back), Head(back).kind = "ACK",
         Sender!OnAckReceived(Receiver, Head(back).seq)
  PROVE  Keeps \/ AdvancesRightly \/ EndsRightly
<1>1. /\ Head(back) = back[1] /\ 1 \in DOMAIN back
  BY TailElements DEF IInv, TypeOK
<1>2. CASE ~Sending \/ ~Sender!Matches(Receiver, Head(back).seq)
  <2>1. UNCHANGED Sender!vars
    BY <1>2 DEF Sender!OnAckReceived, Sending
  <2> QED
    BY <2>1, UnchangedKeeps DEF Sender!vars
<1>3. CASE Sending /\ Sender!Matches(Receiver, Head(back).seq)
  <2> DEFINE s == Sender!Acknowledged(snd[Receiver])
  <2>1. /\ State \in Sender!SendState /\ State.uid = accepted
        /\ State.isBinary = FALSE /\ State.nextIdx \in Nat /\ State.total \in Nat
        /\ inFlight = {Receiver} /\ snd \in [{Receiver} -> Sender!SendState]
        /\ State.nextIdx < State.total
    BY <1>3, SenderFacts
  <2>2. Head(back).cc = State.nextIdx + 1
    BY <1>1, <1>3, MatchNamesChunk
  <2>3. /\ Holds = {} \/ State.nextIdx + 1 \in Holds
        /\ State.nextIdx + 1 = State.total => deliveries[accepted] > 0
    BY <1>1, <1>3, <2>2 DEF IInv, AcksTrue
  <2>4. /\ s \in Sender!SendState
        /\ s.uid = State.uid /\ s.msgId = State.msgId /\ s.total = State.total
        /\ s.isBinary = State.isBinary /\ s.nextIdx = State.nextIdx + 1
    <3>1. s = [State EXCEPT !.timer = FALSE, !.retries = 0, !.nextIdx = @ + 1, !.airings = 0]
      BY DEF Sender!Acknowledged, State
    <3> HIDE DEF s
    <3>2. State.nextIdx + 1 \in Nat
      BY <2>1
    <3> QED
      BY <2>1, <3>1, <3>2 DEF Sender!SendState
  <2>5. /\ Sender!ScheduleSendNextChunk(Receiver, s)
        /\ UNCHANGED <<nextMsgId, accepted>>
    BY <1>3 DEF Sender!OnAckReceived, Sending
  <2> HIDE DEF s
  <2>6. Sender!SendNextChunk(Receiver, s, strayTimers)
    BY <2>1, <2>4, <2>5 DEF Sender!ScheduleSendNextChunk
  <2>7. CASE s.nextIdx >= s.total
    <3>1. Sender!Drop(Receiver, s, "complete", strayTimers)
      BY <2>1, <2>4, <2>6, <2>7 DEF Sender!SendNextChunk
    <3>2. Ends("complete")
      BY <1>3, <2>1, <2>4, <2>5, <3>1, DropFacts
    <3>3. State.nextIdx + 1 = State.total
      BY <2>1, <2>4, <2>7
    <3>4. "complete" \in Sender!Reasons
      BY DEF Sender!Reasons
    <3> QED
      BY <2>3, <3>2, <3>3, <3>4 DEF EndsRightly
  <2>8. CASE s.nextIdx < s.total
    <3>1. Sender!Transmit(Receiver, s, strayTimers)
      BY <2>1, <2>4, <2>6, <2>8 DEF Sender!SendNextChunk
    <3>2. Advances
      BY <1>3, <2>1, <2>4, <2>5, <2>8, <3>1, TransmitFacts DEF Advances, SameMessage
    <3> QED
      BY <2>2, <2>3, <3>2 DEF AdvancesRightly
  <2> QED
    BY <2>1, <2>4, <2>7, <2>8
<1> QED
  BY <1>2, <1>3

LEMMA NackOutcome ==
  ASSUME Separate, IInv, back # <<>>, Sender!OnNackReceived(Receiver, Head(back).seq)
  PROVE  Keeps \/ EndsRightly
<1>1. /\ Head(back) = back[1] /\ 1 \in DOMAIN back
  BY TailElements DEF IInv, TypeOK
<1>2. CASE UNCHANGED Sender!vars
  BY <1>2, UnchangedKeeps DEF Sender!vars
<1>3. CASE ~UNCHANGED Sender!vars
  <2>1. Sending /\ ~Sender!ImplicitAck(Receiver, Head(back).seq)
    BY <1>1, <1>3, MatchNamesChunk DEF Sender!OnNackReceived, Sending
  <2> DEFINE s == [snd[Receiver] EXCEPT !.timer = FALSE]
             t == [snd[Receiver] EXCEPT !.timer = FALSE, !.retries = @ + 1]
  <2>2. State \in Sender!SendState /\ State.uid = accepted /\ State.isBinary = FALSE
    BY <2>1, SenderFacts
  <2>3. s \in Sender!SendState /\ s.uid = accepted
    BY <2>2 DEF Sender!SendState, State
  <2>4. /\ t \in Sender!SendState
        /\ t.uid = State.uid /\ t.msgId = State.msgId /\ t.total = State.total
        /\ t.isBinary = State.isBinary /\ t.nextIdx = State.nextIdx
    <3>1. State.retries + 1 \in Nat
      BY <2>2 DEF Sender!SendState
    <3> QED
      BY <2>2, <3>1 DEF Sender!SendState, State
  <2> HIDE DEF s, t
  <2>5. /\ UNCHANGED <<nextMsgId, accepted>>
        /\ \/ Sender!Drop(Receiver, s, "nack_exhausted", strayTimers)
           \/ Sender!ScheduleSendNextChunk(Receiver, t)
    BY <1>3, <2>1 DEF Sender!OnNackReceived, Sending, s, t
  <2>6. CASE Sender!Drop(Receiver, s, "nack_exhausted", strayTimers)
    <3>1. Ends("nack_exhausted")
      BY <2>1, <2>3, <2>5, <2>6, DropFacts
    <3> QED
      BY <3>1 DEF EndsRightly, Sender!Reasons
  <2>7. CASE Sender!ScheduleSendNextChunk(Receiver, t)
    <3>1. Sender!SendNextChunk(Receiver, t, strayTimers)
      BY <2>2, <2>4, <2>7 DEF Sender!ScheduleSendNextChunk
    <3> QED
      BY <2>1, <2>4, <2>5, <3>1, RetryFacts
  <2> QED
    BY <2>5, <2>6, <2>7
<1> QED
  BY <1>2, <1>3

-----------------------------------------------------------------------------
(***************************************************************************)
(* Every step of the sender is one of these.                               *)
(***************************************************************************)
SenderStep ==
  /\ UNCHANGED receiverVars
  /\ Carries
  /\ \/ Keeps \/ EndsRightly
     \/ AdvancesRightly
     \/ Drained /\ \E n \in Sizes : Starts(n)
  /\ back' = back \/ (back # <<>> /\ back' = Tail(back))

(* A send halted or out of retries is not reported complete. *)
LEMMA FailuresEndRightly ==
  \A reason \in {"halted", "timeout_exhausted"} :
    Ends(reason) => EndsRightly
BY DEF EndsRightly, Sender!Reasons

LEMMA HearReplyIsSenderStep ==
  ASSUME Separate, IInv, HearReply PROVE SenderStep
<1>1. PICK r \in Audible :
        /\ back' = r.left
        /\ IF r.kind = "ACK" THEN Sender!OnAckReceived(Receiver, r.seq)
                             ELSE Sender!OnNackReceived(Receiver, r.seq)
  BY DEF HearReply
<1>2. Carries /\ UNCHANGED receiverVars
  BY CarryCarries DEF HearReply
<1>3. /\ back # <<>>
      /\ r = [kind |-> Head(back).kind, seq |-> Head(back).seq, left |-> Tail(back)]
  BY DEF Audible, Separate
<1>4. r.kind = Head(back).kind /\ r.seq = Head(back).seq /\ back' = Tail(back)
  BY <1>1, <1>3
<1>5. Keeps \/ AdvancesRightly \/ EndsRightly
  BY <1>1, <1>3, <1>4, AckOutcome, NackOutcome
<1> QED
  BY <1>2, <1>3, <1>4, <1>5 DEF SenderStep

LEMMA SenderSteps ==
  ASSUME Separate, IInv,
         \/ \E n \in Sizes : Submit(n)
         \/ HearReply \/ SenderTimeout \/ SenderPolls \/ SenderHalts
  PROVE  SenderStep
<1>1. ASSUME NEW n \in Sizes, Submit(n) PROVE SenderStep
  <2>1. Starts(n)
    BY <1>1, SubmitStarts DEF Submit
  <2> QED
    BY <1>1, <2>1, CarryCarries DEF Submit, SenderStep, Separate
<1>2. CASE HearReply
  BY <1>2, HearReplyIsSenderStep
<1>3. CASE SenderTimeout
  BY <1>3, TimeoutRetries, FailuresEndRightly, CarryCarries DEF SenderTimeout, SenderStep
<1>4. CASE SenderPolls
  <2>1. Keeps
    <3>1. CASE Sender!TxPathChanges
      BY <3>1, UnchangedKeeps DEF Sender!TxPathChanges
    <3> QED
      BY <1>4, <3>1, PollKeeps DEF SenderPolls
  <2> QED
    BY <1>4, <2>1 DEF SenderPolls, SenderStep, Carries
<1>5. CASE SenderHalts
  BY <1>5, HaltEnds, FailuresEndRightly DEF SenderHalts, SenderStep, Carries
<1> QED
  BY <1>1, <1>2, <1>3, <1>4, <1>5

(* What is on the way, under the invariant. *)
AirChunks == [uid : Nat, id : MsgIds, cc : Rcvr!ChunkIds, total : Sizes, ok : BOOLEAN]

Fits(cc) == Sending => State.nextIdx <= cc /\ cc <= State.nextIdx + 1

LEMMA OnTheWay ==
  ASSUME IInv
  PROVE  /\ \A i \in DOMAIN back : back[i].cc \in Nat /\ Fits(back[i].cc)
         /\ \A i \in DOMAIN replies : replies[i].cc \in Nat /\ Fits(replies[i].cc)
         /\ \A i \in DOMAIN air : air[i].cc \in Nat /\ Fits(air[i].cc)
<1>1. /\ back \in Seq(Replies) /\ replies \in Seq(Replies) /\ air \in Seq(AirChunks)
      /\ RepliesOfLatest(back) /\ RepliesOfLatest(replies) /\ AirOfLatest
  BY DEF IInv, TypeOK, AirChunks
<1>2. \A r \in Replies : r.cc \in Nat
  BY Constants DEF Replies
<1>3. \A c \in AirChunks : c.cc \in Nat
  BY Constants DEF AirChunks
<1>4. \A cc \in Nat : Near(cc) => Fits(cc)
  BY SenderFacts DEF Near, Fits
<1>5. \A i \in DOMAIN back : back[i].cc \in Nat /\ Near(back[i].cc)
  BY <1>1, <1>2 DEF RepliesOfLatest
<1>6. \A i \in DOMAIN replies : replies[i].cc \in Nat /\ Near(replies[i].cc)
  BY <1>1, <1>2 DEF RepliesOfLatest
<1>7. \A i \in DOMAIN air : air[i].cc \in Nat /\ Near(air[i].cc)
  BY <1>1, <1>3 DEF AirOfLatest
<1> QED
  BY <1>4, <1>5, <1>6, <1>7

-----------------------------------------------------------------------------
(* A step of the sender keeps the books about messages and reports. *)
LEMMA StepSends ==
  ASSUME Separate, IInv, SenderStep
  PROVE  /\ SendsLatest' /\ accepted' \in 0..MaxMsgs /\ nextMsgId' \in Nat
         /\ inFlight' \subseteq {Receiver}
         /\ snd' \in [{Receiver} -> Sender!SendState]
         /\ reports' \in [Sends -> Seq(Sender!Reasons)]
         /\ CompleteMeansDelivered'
<1>1. /\ SendsLatest /\ accepted \in 0..MaxMsgs /\ nextMsgId \in Nat
      /\ reports \in [Sends -> Seq(Sender!Reasons)] /\ CompleteMeansDelivered
      /\ inFlight \subseteq {Receiver}
  BY DEF IInv, TypeOK
<1>2. deliveries' = deliveries
  BY DEF SenderStep, receiverVars
<1>3. CASE Keeps
  <2>1. /\ Sending' <=> Sending
        /\ ~Sending => State' = Sender!Blank
    BY <1>3, SenderFacts DEF Keeps, Sending
  <2>2. SendsLatest'
    BY <1>1, <1>3, <2>1 DEF SendsLatest, Keeps, SameMessage
  <2>3. CompleteMeansDelivered'
    BY <1>1, <1>2, <1>3 DEF CompleteMeansDelivered, Keeps
  <2> QED
    BY <1>1, <1>3, <2>2, <2>3 DEF Keeps
<1>4. CASE AdvancesRightly
  <2>1. Sending' /\ Sending
    BY <1>4 DEF AdvancesRightly, Advances, Sending
  <2>2. SendsLatest'
    BY <1>1, <1>4, <2>1 DEF SendsLatest, AdvancesRightly, Advances, SameMessage
  <2>3. CompleteMeansDelivered'
    BY <1>1, <1>2, <1>4 DEF CompleteMeansDelivered, AdvancesRightly, Advances
  <2> QED
    BY <1>1, <1>4, <2>2, <2>3 DEF AdvancesRightly, Advances
<1>5. CASE EndsRightly
  <2>1. PICK reason \in Sender!Reasons :
          Ends(reason) /\ (reason = "complete" => deliveries[accepted] > 0)
    BY <1>5 DEF EndsRightly
  <2>2. Sending /\ accepted \in Sends /\ ~Sending'
    BY <2>1, SenderFacts DEF Ends, Sending
  <2>3. reports[accepted] = <<>>
    BY <1>1, <2>2 DEF SendsLatest
  <2>4. Append(reports[accepted], reason) = <<reason>>
    BY <2>3
  <2>5. reports' = [reports EXCEPT ![accepted] = <<reason>>]
    BY <2>1, <2>4 DEF Ends
  <2>6. SendsLatest'
    <3>1. <<reason>> # <<>>
      OBVIOUS
    <3>2. \A u \in Sends : reports'[u] = <<>> <=> u > accepted
      <4>1. \A u \in Sends : u \in Nat /\ accepted \in Nat
        BY Constants, <1>1
      <4> QED
        BY <1>1, <2>2, <2>5, <3>1, <4>1 DEF SendsLatest
    <3> QED
      BY <1>1, <2>1, <2>2, <3>2 DEF SendsLatest, Ends
  <2>7. reports' \in [Sends -> Seq(Sender!Reasons)]
    BY <1>1, <2>2, <2>5
  <2>8. CompleteMeansDelivered'
    <3> SUFFICES ASSUME NEW u \in Sends, NEW i \in DOMAIN reports'[u],
                        reports'[u][i] = "complete"
                 PROVE  deliveries[u] > 0
      BY <1>2 DEF CompleteMeansDelivered
    <3>1. CASE u = accepted
      <4>1. reports'[u] = <<reason>>
        BY <1>1, <2>2, <2>5, <3>1
      <4>2. reason = "complete"
        BY <4>1
      <4> QED
        BY <2>1, <3>1, <4>2
    <3>2. CASE u # accepted
      BY <1>1, <2>5, <3>2 DEF CompleteMeansDelivered
    <3> QED
      BY <3>1, <3>2
  <2> QED
    BY <1>1, <2>1, <2>6, <2>7, <2>8 DEF Ends
<1>6. ASSUME NEW n \in Sizes, Starts(n)
      PROVE  /\ SendsLatest' /\ accepted' \in 0..MaxMsgs /\ nextMsgId' \in Nat
             /\ inFlight' \subseteq {Receiver}
             /\ snd' \in [{Receiver} -> Sender!SendState]
             /\ reports' \in [Sends -> Seq(Sender!Reasons)]
             /\ CompleteMeansDelivered'
  <2>1. /\ accepted' = accepted + 1 /\ accepted < MaxMsgs /\ nextMsgId = accepted + 1
        /\ accepted \in Nat /\ MaxMsgs \in Nat /\ MaxMsgs <= MSG_ID_MAX
        /\ MSG_ID_MAX \in Nat
    BY <1>1, <1>6, Constants DEF Starts, SendsLatest, Separate
  <2>2. accepted' < MaxMsgs => nextMsgId' = accepted' + 1
    BY <1>6, <2>1 DEF Starts, BumpMsgId, MSG_ID_MIN
  <2>3. nextMsgId' \in Nat
    BY <1>6, <2>1 DEF Starts, BumpMsgId, MSG_ID_MIN
  <2>4. \A u \in Sends : reports'[u] = <<>> <=> u > accepted' \/ u = accepted'
    <3>1. \A u \in Sends : u > accepted <=> (u > accepted' \/ u = accepted')
      BY <2>1, Constants
    <3>2. reports' = reports /\ ~Sending
      BY <1>6 DEF Starts
    <3> QED
      BY <1>1, <3>1, <3>2 DEF SendsLatest
  <2>5. /\ Sending' /\ State'.uid = accepted' /\ State'.msgId = accepted'
        /\ ~State'.isBinary /\ State'.total \in Sizes /\ State'.nextIdx < State'.total
        /\ accepted' > 0
    BY <1>6, <2>1, Constants DEF Starts, Sending
  <2>6. SendsLatest'
    BY <2>2, <2>4, <2>5 DEF SendsLatest
  <2>7. CompleteMeansDelivered'
    BY <1>1, <1>2, <1>6 DEF CompleteMeansDelivered, Starts
  <2> QED
    BY <1>1, <1>6, <2>1, <2>3, <2>6, <2>7 DEF Starts
<1> QED
  BY <1>3, <1>4, <1>5, <1>6 DEF SenderStep

(* What is left of the answers, and of everything else, after the step     *)
(* fits the send in flight after it.                                       *)
LEMMA StepOrder ==
  ASSUME IInv, SenderStep
  PROVE  /\ back' \in Seq(Replies) /\ Sorted(back)' /\ Before(back, replies)'
         /\ Before(back', air)
         /\ \A i \in DOMAIN back' : \E j \in DOMAIN back : back'[i] = back[j]
         /\ AdvancesRightly => \A i \in DOMAIN back' : back'[i].cc >= State.nextIdx + 1
<1>1. back \in Seq(Replies) /\ UnderWay /\ replies' = replies
  BY DEF IInv, TypeOK, SenderStep, receiverVars
<1>2. CASE back' = back /\ ~AdvancesRightly
  BY <1>1, <1>2 DEF UnderWay
<1>3. CASE back # <<>> /\ back' = Tail(back)
  <2>1. /\ back' \in Seq(Replies) /\ Sorted(back')
        /\ Before(back', replies) /\ Before(back', air)
    BY <1>1, <1>3, TailElements, TailKeepsOrder DEF UnderWay
  <2>2. ASSUME NEW i \in DOMAIN back'
        PROVE  /\ i + 1 \in DOMAIN back /\ back'[i] = back[i + 1]
               /\ back[1].cc <= back'[i].cc
    <3>1. i + 1 \in DOMAIN back /\ back'[i] = back[i + 1] /\ 1 < i + 1 /\ 1 \in DOMAIN back
      BY <1>1, <1>3, <2>2, TailElements
    <3> QED
      BY <1>1, <3>1 DEF UnderWay, Sorted
  <2>3. ASSUME AdvancesRightly, NEW i \in DOMAIN back' PROVE back'[i].cc >= State.nextIdx + 1
    <3>1. back[1].cc = State.nextIdx + 1 /\ back[1].cc <= back'[i].cc
      BY <1>1, <1>3, <2>2, <2>3, TailElements DEF AdvancesRightly
    <3>2. back'[i].cc \in Nat /\ State.nextIdx \in Nat
      BY <2>2, <2>3, OnTheWay, SenderFacts DEF AdvancesRightly, Advances
    <3> QED
      BY <3>1, <3>2
  <2> QED
    BY <1>1, <2>1, <2>2, <2>3
<1> QED
  BY <1>2, <1>3 DEF SenderStep, AdvancesRightly

(* An advance leaves only what is for the chunk now outstanding behind.    *)
LEMMA StepAhead ==
  ASSUME IInv, AdvancesRightly
  PROVE  /\ \A i \in DOMAIN replies : replies[i].cc = State.nextIdx + 1
         /\ \A i \in DOMAIN air : air[i].cc = State.nextIdx + 1
<1>1. /\ Sending /\ State.nextIdx \in Nat
      /\ 1 \in DOMAIN back /\ back[1].cc = State.nextIdx + 1
  BY SenderFacts, TailElements DEF AdvancesRightly, Advances, IInv, TypeOK
<1>2. Before(back, replies) /\ Before(back, air)
  BY DEF IInv, UnderWay
<1>3. /\ \A i \in DOMAIN replies : State.nextIdx + 1 <= replies[i].cc
      /\ \A i \in DOMAIN air : State.nextIdx + 1 <= air[i].cc
  BY <1>1, <1>2 DEF Before
<1>4. /\ \A i \in DOMAIN replies : replies[i].cc \in Nat /\ replies[i].cc <= State.nextIdx + 1
      /\ \A i \in DOMAIN air : air[i].cc \in Nat /\ air[i].cc <= State.nextIdx + 1
  BY <1>1, OnTheWay DEF Fits
<1> QED
  BY <1>1, <1>3, <1>4

(* What is on the way is Near after the step, too. *)
NearNext(cc) == Sending' => cc \in State'.nextIdx..(State'.nextIdx + 1)

LEMMA StepNear ==
  ASSUME Separate, IInv, SenderStep
  PROVE  /\ \A i \in DOMAIN back' : back'[i].uid = accepted' /\ NearNext(back'[i].cc)
         /\ \A i \in DOMAIN replies : replies[i].uid = accepted' /\ NearNext(replies[i].cc)
         /\ \A i \in DOMAIN air : /\ air[i].uid = accepted' /\ air[i].id = accepted'
                                  /\ Sending' => air[i].total = State'.total
                                  /\ NearNext(air[i].cc)
<1>1. /\ RepliesOfLatest(back) /\ RepliesOfLatest(replies) /\ AirOfLatest
      /\ \A i \in DOMAIN back' : \E j \in DOMAIN back : back'[i] = back[j]
  BY StepOrder DEF IInv
<1>2. CASE Keeps
  <2>1. \A cc : Near(cc) => NearNext(cc)
    BY <1>2 DEF Keeps, Near, NearNext, Sending
  <2> QED
    BY <1>1, <1>2, <2>1 DEF Keeps, SameMessage, RepliesOfLatest, AirOfLatest, Sending
<1>3. CASE EndsRightly
  <2>1. ~Sending' /\ accepted' = accepted
    BY <1>3 DEF EndsRightly, Ends, Sending
  <2> QED
    BY <1>1, <2>1 DEF RepliesOfLatest, AirOfLatest, NearNext
<1>4. CASE AdvancesRightly
  <2>1. /\ Sending /\ Sending' /\ accepted' = accepted /\ State'.total = State.total
        /\ State'.nextIdx = State.nextIdx + 1 /\ State.nextIdx \in Nat
    BY <1>4, SenderFacts DEF AdvancesRightly, Advances, SameMessage, Sending
  <2>2. \A i \in DOMAIN back' : back'[i].cc = State.nextIdx + 1
    <3>1. \A i \in DOMAIN back' : /\ back'[i].cc \in Nat
                                  /\ back'[i].cc <= State.nextIdx + 1
                                  /\ back'[i].cc >= State.nextIdx + 1
      BY <1>1, <1>4, <2>1, OnTheWay, StepOrder DEF Fits
    <3> QED
      BY <2>1, <3>1
  <2>3. NearNext(State.nextIdx + 1)
    BY <2>1 DEF NearNext
  <2> QED
    BY <1>1, <1>4, <2>1, <2>2, <2>3, StepAhead DEF RepliesOfLatest, AirOfLatest
<1>5. CASE Drained
  BY <1>1, <1>5 DEF Drained
<1> QED
  BY <1>2, <1>3, <1>4, <1>5 DEF SenderStep

(* A chunk the step puts on the air is the chunk outstanding after it.     *)
LEMMA NewChunk ==
  ASSUME Separate, IInv, SenderStep, State'.airings > 0, NEW ok \in BOOLEAN
  PROVE  /\ Sending' /\ AiredChunk(ok) \in AirChunks
         /\ AiredChunk(ok).uid = accepted' /\ AiredChunk(ok).id = accepted'
         /\ AiredChunk(ok).total = State'.total
         /\ AiredChunk(ok).cc = State'.nextIdx + 1 /\ State'.nextIdx \in Nat
<1>1. /\ SendsLatest' /\ accepted' \in 0..MaxMsgs
      /\ snd' \in [{Receiver} -> Sender!SendState]
  BY StepSends
<1>2. State' \in Sender!SendState
  BY <1>1 DEF State
<1>3. Sending'
  BY <1>1 DEF SendsLatest, Sender!Blank
<1>4. /\ accepted' > 0 /\ State'.uid = accepted' /\ State'.msgId = accepted'
      /\ State'.total \in Sizes /\ State'.nextIdx < State'.total
  BY <1>1, <1>3 DEF SendsLatest
<1>5. /\ State'.nextIdx \in Nat /\ State'.uid \in Nat
  BY <1>2 DEF Sender!SendState
<1>6. accepted' \in MsgIds
  BY <1>1, <1>4, Constants DEF Separate
<1>7. State'.nextIdx + 1 \in Rcvr!ChunkIds
  <2>1. State'.total \in 1..MAX_CHUNKS
    BY <1>4, Constants
  <2> QED
    BY <1>4, <1>5, <2>1, Constants
<1> QED
  BY <1>3, <1>4, <1>5, <1>6, <1>7 DEF AiredChunk, AirChunks

LEMMA StepAir ==
  ASSUME Separate, IInv, SenderStep
  PROVE  /\ air' \in Seq(AirChunks) /\ AirOfLatest' /\ UnderWay'
<1>1. /\ air \in Seq(AirChunks) /\ replies' = replies
      /\ back \in Seq(Replies) /\ replies \in Seq(Replies) /\ UnderWay
  BY DEF IInv, TypeOK, AirChunks, SenderStep, receiverVars
<1>2. /\ Sorted(back)' /\ Before(back, replies)' /\ Before(back', air)
      /\ back' \in Seq(Replies)
  BY StepOrder
<1>3. /\ Sorted(replies)' /\ Sorted(air) /\ Before(replies, air)
  BY <1>1 DEF UnderWay
<1>4. \A i \in DOMAIN air : /\ air[i].uid = accepted' /\ air[i].id = accepted'
                            /\ Sending' => air[i].total = State'.total
                            /\ NearNext(air[i].cc)
  BY StepNear
<1>5. CASE air' = air
  <2>1. AirOfLatest'
    BY <1>4, <1>5 DEF AirOfLatest, NearNext, Near
  <2> QED
    BY <1>1, <1>2, <1>3, <1>5, <2>1 DEF UnderWay
<1>6. ASSUME State'.airings > 0, NEW ok \in BOOLEAN, air' = Append(air, AiredChunk(ok))
      PROVE  /\ air' \in Seq(AirChunks) /\ AirOfLatest' /\ UnderWay'
  <2> DEFINE e == AiredChunk(ok)
             x == State'.nextIdx
  <2>1. /\ Sending' /\ e \in AirChunks /\ e.uid = accepted' /\ e.id = accepted'
        /\ e.total = State'.total /\ e.cc = x + 1 /\ x \in Nat
    BY <1>6, NewChunk
  <2>2. air' = Append(air, e)
    BY <1>6
  <2> HIDE DEF e
  <2>3. air' \in Seq(AirChunks)
    BY <1>1, <2>1, <2>2
  <2>4. NearNext(x + 1)
    BY <2>1 DEF NearNext
  <2>5. AirOfLatest'
    <3>1. \A i \in DOMAIN air' : \/ i \in DOMAIN air /\ air'[i] = air[i]
                                 \/ air'[i] = e
      BY <1>1, <2>1, <2>2, AppendElements
    <3>2. \A i \in DOMAIN air' : /\ air'[i].uid = accepted' /\ air'[i].id = accepted'
                                 /\ air'[i].total = State'.total
                                 /\ NearNext(air'[i].cc)
      BY <1>4, <2>1, <2>4, <3>1
    <3> QED
      BY <3>2 DEF AirOfLatest, Near, NearNext
  <2>6. \A cc \in Nat : NearNext(cc) => cc <= e.cc
    BY <2>1 DEF NearNext
  <2>7. /\ \A i \in DOMAIN air : air[i].cc <= e.cc
        /\ \A i \in DOMAIN replies : replies[i].cc <= e.cc
        /\ \A i \in DOMAIN back' : back'[i].cc <= e.cc
    BY <2>6, StepNear, OnTheWay, StepOrder
  <2>8. e.cc \in Nat
    BY <2>1
  <2>9. Sorted(air)' /\ Before(replies, air') /\ Before(back', air')
    BY <1>1, <1>2, <1>3, <2>1, <2>2, <2>7, <2>8, AppendKeepsOrder
  <2> QED
    BY <1>1, <1>2, <1>3, <2>3, <2>5, <2>9 DEF UnderWay
<1> QED
  BY <1>5, <1>6 DEF SenderStep, Carries

LEMMA SenderKeepsReceiver ==
  ASSUME Separate, IInv, SenderStep
  PROVE  ReceiverKnows' /\ PrefixHeld' /\ AcksTrue(replies)' /\ AcksTrue(back)'
<1>1. /\ rx' = rx /\ replies' = replies /\ deliveries' = deliveries /\ forgets' = forgets
  BY DEF SenderStep, receiverVars
<1>2. /\ ReceiverKnows /\ PrefixHeld /\ AcksTrue(replies) /\ AcksTrue(back)
  BY DEF IInv
<1>3. \A id : (Rcvr!Held(rx, id))' = Rcvr!Held(rx, id)
  BY <1>1 DEF Rcvr!Held
<1>4. \A i \in DOMAIN back' : \E j \in DOMAIN back : back'[i] = back[j]
  BY StepOrder
<1>5. ASSUME accepted' = accepted, Sending' => Sending, State'.total = State.total
      PROVE  ReceiverKnows' /\ AcksTrue(replies)' /\ AcksTrue(back)'
  <2>1. Holds' = Holds
    BY <1>1, <1>3, <1>5 DEF Holds, Rcvr!Held
  <2>2. ReceiverKnows'
    BY <1>1, <1>2, <1>3, <1>5 DEF ReceiverKnows, Rcvr!Held
  <2>3. AcksTrue(replies)'
    BY <1>1, <1>2, <1>5, <2>1 DEF AcksTrue
  <2>4. AcksTrue(back)'
    BY <1>1, <1>2, <1>4, <1>5, <2>1 DEF AcksTrue
  <2> QED
    BY <2>2, <2>3, <2>4
<1>6. CASE Keeps
  <2>1. /\ accepted' = accepted /\ (Sending' <=> Sending)
        /\ State'.total = State.total /\ State'.nextIdx = State.nextIdx
    BY <1>6 DEF Keeps, SameMessage, Sending
  <2>2. Holds' = Holds
    BY <1>1, <2>1 DEF Holds, Rcvr!Held
  <2>3. PrefixHeld'
    BY <1>1, <1>2, <2>1, <2>2 DEF PrefixHeld
  <2> QED
    BY <1>5, <2>1, <2>3
<1>7. CASE EndsRightly
  <2>1. accepted' = accepted /\ ~Sending'
    BY <1>7 DEF EndsRightly, Ends, Sending
  <2>2. ReceiverKnows'
    BY <1>1, <1>2, <2>1 DEF ReceiverKnows, Rcvr!Held
  <2> QED
    BY <2>1, <2>2 DEF PrefixHeld, AcksTrue
<1>8. CASE AdvancesRightly
  <2>1. /\ accepted' = accepted /\ Sending' /\ Sending
        /\ State'.total = State.total /\ State'.nextIdx = State.nextIdx + 1
        /\ State.nextIdx \in Nat
        /\ Holds = {} \/ State.nextIdx + 1 \in Holds
    BY <1>8, SenderFacts DEF AdvancesRightly, Advances, SameMessage, Sending
  <2>2. Holds' = Holds
    BY <1>1, <2>1 DEF Holds, Rcvr!Held
  <2>3. 1..(State.nextIdx + 1) = 1..State.nextIdx \cup {State.nextIdx + 1}
    BY <2>1
  <2>4. PrefixHeld'
    BY <1>1, <1>2, <2>1, <2>2, <2>3 DEF PrefixHeld
  <2> QED
    BY <1>5, <2>1, <2>4
<1>9. ASSUME Drained, NEW n \in Sizes, Starts(n)
      PROVE  ReceiverKnows' /\ PrefixHeld' /\ AcksTrue(replies)' /\ AcksTrue(back)'
  <2>1. /\ accepted' = accepted + 1 /\ accepted \in Nat /\ accepted + 1 \in MsgIds
    BY <1>9, Constants DEF Starts, IInv, TypeOK, Separate
  <2>2. \A k \in Nat : k > accepted' => k > accepted
    BY <2>1
  <2>3. ReceiverKnows'
    <3>1. \A id \in MsgIds : id \in Nat
      BY Constants
    <3>2. \A u \in Sends : u \in Nat
      BY Constants
    <3>3. /\ \A id \in MsgIds : id > accepted' => Rcvr!Held(rx, id) = {} /\ id \notin rx.deliveredMsgs
          /\ \A u \in Sends : u > accepted' => deliveries[u] = 0
      BY <1>2, <2>2, <3>1, <3>2 DEF ReceiverKnows
    <3> QED
      BY <1>1, <1>2, <1>3, <3>3 DEF ReceiverKnows, Rcvr!Held
  <2>4. Holds' = {} /\ accepted' \notin rx.deliveredMsgs
    <3>1. Rcvr!Held(rx, accepted + 1) = {} /\ accepted + 1 \notin rx.deliveredMsgs
      BY <1>2, <2>1 DEF ReceiverKnows
    <3> QED
      BY <1>1, <2>1, <3>1 DEF Holds, Rcvr!Held
  <2>5. PrefixHeld'
    BY <1>1, <2>4 DEF PrefixHeld
  <2>6. replies' = <<>> /\ back' = <<>>
    BY <1>1, <1>9 DEF SenderStep, Drained
  <2> QED
    BY <2>3, <2>5, <2>6 DEF AcksTrue
<1> QED
  BY <1>6, <1>7, <1>8, <1>9 DEF SenderStep

LEMMA SenderPreserves ==
  ASSUME Separate, IInv, SenderStep
  PROVE  IInv'
<1>1. /\ rx' = rx /\ replies' = replies /\ deliveries' = deliveries /\ forgets' = forgets
  BY DEF SenderStep, receiverVars
<1>2. TypeOK'
  BY <1>1, StepSends, StepAir, StepOrder DEF IInv, TypeOK, AirChunks
<1>3. RepliesOfLatest(replies)' /\ RepliesOfLatest(back)'
  BY <1>1, StepNear DEF RepliesOfLatest, Near, NearNext
<1> QED
  BY <1>2, <1>3, StepSends, StepAir, SenderKeepsReceiver DEF IInv

-----------------------------------------------------------------------------
(***************************************************************************)
(* The receiver.  Of an RxState the invariant speaks of the chunks held    *)
(* and of the ids delivered only.                                          *)
(***************************************************************************)
RxStates ==
  [assemblies : [MsgIds -> [Rcvr!ChunkIds -> Nat]],
   evict : [MsgIds -> BOOLEAN], deliveredMsgs : SUBSET MsgIds,
   sessionActive : BOOLEAN, nackHeld : BOOLEAN, phase : Rcvr!Phases,
   totalChunks : Nat, stall : BOOLEAN]

SameStore(r, q) == r.assemblies = q.assemblies /\ r.deliveredMsgs = q.deliveredMsgs

LEMMA RcvrMsgIds == Rcvr!MsgIds = MsgIds
BY DEF Rcvr!MsgIds, MsgIds, Rcvr!MSG_ID_MIN, MSG_ID_MIN

LEMMA BlankRxFacts ==
  /\ Rcvr!BlankRx \in RxStates /\ Rcvr!BlankRx.deliveredMsgs = {}
  /\ \A id \in MsgIds, cc \in Rcvr!ChunkIds : Rcvr!BlankRx.assemblies[id][cc] = 0
<1>1. "Idle" \in Rcvr!Phases
  BY DEF Rcvr!Phases
<1>2. Rcvr!BlankRx \in RxStates
  BY <1>1, RcvrMsgIds DEF Rcvr!BlankRx, RxStates
<1> QED
  BY <1>2, RcvrMsgIds DEF Rcvr!BlankRx

LEMMA ActivityFacts ==
  ASSUME NEW r \in RxStates
  PROVE  Rcvr!Activity(r) \in RxStates /\ SameStore(Rcvr!Activity(r), r)
BY DEF Rcvr!Activity, RxStates, SameStore, Rcvr!Phases

LEMMA SessionEndFacts ==
  ASSUME NEW r \in RxStates
  PROVE  Rcvr!SessionEnd(r) \in RxStates /\ SameStore(Rcvr!SessionEnd(r), r)
BY DEF Rcvr!SessionEnd, RxStates, SameStore, Rcvr!Phases

(* The assembly of one id erased, by a delivery or by the evict timer. *)
Erased(assemblies, id) == [assemblies EXCEPT ![id] = [cc \in Rcvr!ChunkIds |-> 0]]

LEMMA FinishedFacts ==
  ASSUME NEW r \in RxStates, NEW id \in MsgIds
  PROVE  /\ Rcvr!Finished(r, id) \in RxStates
         /\ Rcvr!Finished(r, id).assemblies = Erased(r.assemblies, id)
         /\ Rcvr!Finished(r, id).deliveredMsgs = r.deliveredMsgs \cup {id}
<1> DEFINE e == Rcvr!SessionEnd(r)
<1>1. e \in RxStates /\ SameStore(e, r)
  BY SessionEndFacts
<1>2. Rcvr!Finished(r, id) =
        [e EXCEPT !.assemblies[id] = [cc \in Rcvr!ChunkIds |-> 0],
                  !.evict[id] = FALSE, !.deliveredMsgs = @ \cup {id}]
  BY DEF Rcvr!Finished
<1> HIDE DEF e
<1>3. Rcvr!Finished(r, id) \in RxStates
  <2>1. /\ [e.assemblies EXCEPT ![id] = [cc \in Rcvr!ChunkIds |-> 0]]
             \in [MsgIds -> [Rcvr!ChunkIds -> Nat]]
        /\ [e.evict EXCEPT ![id] = FALSE] \in [MsgIds -> BOOLEAN]
        /\ e.deliveredMsgs \cup {id} \in SUBSET MsgIds
    BY <1>1 DEF RxStates
  <2> QED
    BY <1>1, <1>2, <2>1 DEF RxStates
<1>4. /\ Rcvr!Finished(r, id).assemblies = Erased(e.assemblies, id)
      /\ Rcvr!Finished(r, id).deliveredMsgs = e.deliveredMsgs \cup {id}
  BY <1>1, <1>2 DEF RxStates, Erased
<1> QED
  BY <1>1, <1>3, <1>4 DEF SameStore

LEMMA CountedFacts ==
  ASSUME rx \in RxStates, NEW c \in AirChunks
  PROVE  /\ Rcvr!Active \in RxStates /\ SameStore(Rcvr!Active, rx)
         /\ Rcvr!Counted(c) \in RxStates /\ SameStore(Rcvr!Counted(c), rx)
<1> DEFINE a == [Rcvr!Active EXCEPT !.totalChunks = c.total]
<1>1. Rcvr!Active \in RxStates /\ SameStore(Rcvr!Active, rx)
  BY DEF Rcvr!Active, RxStates, SameStore
<1>2. a \in RxStates /\ SameStore(a, rx)
  <2>1. c.total \in Nat
    <3>1. c.total \in 1..MAX_CHUNKS
      BY Constants DEF AirChunks
    <3> QED
      BY <3>1
  <2> QED
    BY <1>1, <2>1 DEF RxStates, SameStore
<1>3. Rcvr!Counted(c) = Rcvr!Activity(a)
  BY DEF Rcvr!Counted
<1> HIDE DEF a
<1> QED
  BY <1>1, <1>2, <1>3, ActivityFacts DEF SameStore

LEMMA StoredFacts ==
  ASSUME rx \in RxStates, NEW c \in AirChunks
  PROVE  /\ Rcvr!Stored(c) \in RxStates
         /\ Rcvr!Stored(c).deliveredMsgs = rx.deliveredMsgs
         /\ \A i \in MsgIds, cc \in Rcvr!ChunkIds :
              Rcvr!Stored(c).assemblies[i][cc] =
                IF i = c.id /\ cc = c.cc THEN c.uid ELSE rx.assemblies[i][cc]
<1> DEFINE r == Rcvr!Counted(c)
           q == Rcvr!Stored(c)
<1>1. r \in RxStates /\ SameStore(r, rx)
  BY CountedFacts
<1>2. c.uid \in Nat /\ c.id \in MsgIds /\ c.cc \in Rcvr!ChunkIds
  BY DEF AirChunks
<1>3. q = [r EXCEPT !.assemblies[c.id][c.cc] = c.uid, !.evict[c.id] = TRUE]
  BY DEF Rcvr!Stored
<1> HIDE DEF r, q
<1>4. /\ q \in RxStates /\ q.deliveredMsgs = r.deliveredMsgs
      /\ q.assemblies = [r.assemblies EXCEPT ![c.id] = [@ EXCEPT ![c.cc] = c.uid]]
  BY <1>1, <1>2, <1>3 DEF RxStates
<1>5. \A i \in MsgIds, cc \in Rcvr!ChunkIds :
        q.assemblies[i][cc] =
          IF i = c.id /\ cc = c.cc THEN c.uid ELSE r.assemblies[i][cc]
  BY <1>1, <1>2, <1>4 DEF RxStates
<1> QED
  BY <1>1, <1>4, <1>5 DEF SameStore, q

-----------------------------------------------------------------------------
(***************************************************************************)
(* Every chunk that arrives is ignored or asked for again, acknowledged    *)
(* again, stored, or it completes its message.                             *)
(***************************************************************************)
Answer(kind, c) ==
  [kind |-> kind, seq |-> AckWireSeq(c.cc), uid |-> c.uid, cc |-> c.cc]

Ignores(c) ==
  /\ SameStore(rx', rx) /\ UNCHANGED deliveries
  /\ replies' = replies \/ replies' = Append(replies, Answer("NACK", c))

AcksAgain(c) ==
  /\ c.id \in rx.deliveredMsgs
  /\ SameStore(rx', rx) /\ UNCHANGED deliveries
  /\ replies' = Append(replies, Answer("ACK", c))

Begun(c) ==
  /\ Rcvr!Held(rx, c.id) # {} \/ c.cc = 1
  /\ c.id \notin rx.deliveredMsgs

Stores(c) ==
  /\ Begun(c)
  /\ rx' = Rcvr!Stored(c) /\ UNCHANGED deliveries
  /\ ~Rcvr!Complete(c)
  /\ replies' = Append(replies, Answer("ACK", c))

Delivers(c) ==
  /\ Begun(c)
  /\ rx' = Rcvr!Finished(Rcvr!Stored(c), c.id)
  /\ Rcvr!Complete(c)
  /\ deliveries' = [deliveries EXCEPT ![c.uid] = IF Rcvr!Whole(c) THEN @ + 1 ELSE @]
  /\ replies' = Append(replies, Answer("ACK", c))

LEMMA ChunkOutcome ==
  ASSUME rx \in RxStates, NEW c \in AirChunks, Rcvr!OnChunkReceived(c)
  PROVE  /\ rx' \in RxStates /\ UNCHANGED forgets /\ c.cc <= c.total
         /\ Ignores(c) \/ AcksAgain(c) \/ Stores(c) \/ Delivers(c)
<1>1. UNCHANGED forgets /\ c.cc <= c.total
  BY DEF Rcvr!OnChunkReceived
<1>2. /\ Rcvr!Active \in RxStates /\ SameStore(Rcvr!Active, rx)
      /\ Rcvr!Counted(c) \in RxStates /\ SameStore(Rcvr!Counted(c), rx)
      /\ Rcvr!Stored(c) \in RxStates
  BY CountedFacts, StoredFacts
<1>3. \A kind : Rcvr!Reply(kind, c) = Append(replies, Answer(kind, c))
  BY DEF Rcvr!Reply, Answer, Rcvr!AckWireSeq, AckWireSeq
<1>4. c.id \in MsgIds
  BY DEF AirChunks
<1>5. CASE Rcvr!IgnoreJoin(c)
  BY <1>1, <1>2, <1>5 DEF Rcvr!IgnoreJoin, Ignores
<1>6. CASE Rcvr!NackCorrupt(c)
  <2> DEFINE r == Rcvr!Activity(Rcvr!Active)
  <2>1. r \in RxStates /\ SameStore(r, rx)
    BY <1>2, ActivityFacts DEF SameStore
  <2>2. /\ rx' = [r EXCEPT !.nackHeld = TRUE] /\ UNCHANGED deliveries
        /\ replies' = IF rx.nackHeld THEN replies ELSE Rcvr!Reply("NACK", c)
    BY <1>6 DEF Rcvr!NackCorrupt
  <2> HIDE DEF r
  <2>3. rx' \in RxStates /\ SameStore(rx', rx)
    BY <2>1, <2>2 DEF RxStates, SameStore
  <2> QED
    BY <1>1, <1>3, <2>2, <2>3 DEF Ignores
<1>7. CASE Rcvr!ReAck(c)
  BY <1>1, <1>2, <1>3, <1>7 DEF Rcvr!ReAck, AcksAgain
<1>8. CASE Rcvr!AckAndStore(c)
  BY <1>1, <1>2, <1>3, <1>8 DEF Rcvr!AckAndStore, Rcvr!HaveSession, Stores, Begun
<1>9. CASE Rcvr!AckAndDeliver(c)
  <2>1. Delivers(c)
    BY <1>3, <1>9 DEF Rcvr!AckAndDeliver, Rcvr!HaveSession, Delivers, Begun
  <2> QED
    BY <1>1, <1>2, <1>4, <2>1, FinishedFacts DEF Delivers
<1> QED
  BY <1>5, <1>6, <1>7, <1>8, <1>9 DEF Rcvr!OnChunkReceived

-----------------------------------------------------------------------------
(* The sender's books when the sender does not move. *)
SenderStays == UNCHANGED <<inFlight, snd, nextMsgId, accepted, reports>>

LEMMA StaysFacts ==
  ASSUME IInv, SenderStays
  PROVE  /\ SendsLatest' /\ State' = State /\ (Sending' <=> Sending)
         /\ \A cc : NearNext(cc) <=> Near(cc)
         /\ inFlight' \subseteq {Receiver} /\ snd' \in [{Receiver} -> Sender!SendState]
         /\ accepted' \in 0..MaxMsgs /\ nextMsgId' \in Nat
         /\ reports' \in [Sends -> Seq(Sender!Reasons)]
<1>1. State' = State /\ (Sending' <=> Sending)
  BY DEF SenderStays, State, Sending
<1>2. SendsLatest'
  <2>1. SendsLatest
    BY DEF IInv
  <2> QED
    BY <1>1, <2>1 DEF SendsLatest, SenderStays
<1>3. \A cc : NearNext(cc) <=> Near(cc)
  BY <1>1 DEF NearNext, Near
<1> QED
  BY <1>1, <1>2, <1>3 DEF IInv, TypeOK, SenderStays

(* The oldest chunk on the air. *)
LEMMA HeadChunk ==
  ASSUME IInv, air # <<>>, NEW c, c = Head(air)
  PROVE  /\ c \in AirChunks /\ c.uid = accepted /\ c.id = accepted
         /\ accepted \in MsgIds /\ accepted \in Sends /\ accepted \in Nat \ {0}
         /\ c.cc \in Rcvr!ChunkIds /\ c.cc \in Nat \ {0} /\ Near(c.cc)
         /\ Sending => c.total = State.total
         /\ \A i \in DOMAIN back : back[i].cc <= c.cc
         /\ \A i \in DOMAIN replies : replies[i].cc <= c.cc
         /\ \A i \in DOMAIN Tail(air) : c.cc <= Tail(air)[i].cc
<1>1. /\ air \in Seq(AirChunks) /\ AirOfLatest /\ UnderWay /\ accepted \in 0..MaxMsgs
  BY DEF IInv, TypeOK, AirChunks
<1>2. /\ c = air[1] /\ 1 \in DOMAIN air /\ c \in AirChunks
      /\ \A i \in DOMAIN Tail(air) : /\ i + 1 \in DOMAIN air
                                     /\ Tail(air)[i] = air[i + 1] /\ 1 < i + 1
  BY <1>1, TailElements
<1>3. /\ c.uid = accepted /\ c.id = accepted /\ Near(c.cc)
      /\ Sending => c.total = State.total
  BY <1>1, <1>2 DEF AirOfLatest
<1>4. c.id \in MsgIds /\ c.cc \in Rcvr!ChunkIds
  BY <1>2 DEF AirChunks
<1>5. accepted \in MsgIds /\ accepted \in Sends /\ accepted \in Nat \ {0} /\ c.cc \in Nat \ {0}
  BY <1>1, <1>3, <1>4, Constants
<1>6. /\ \A i \in DOMAIN back : back[i].cc <= c.cc
      /\ \A i \in DOMAIN replies : replies[i].cc <= c.cc
      /\ \A i \in DOMAIN Tail(air) : c.cc <= Tail(air)[i].cc
  BY <1>1, <1>2 DEF UnderWay, Before, Sorted
<1> QED
  BY <1>2, <1>3, <1>4, <1>5, <1>6

(* The answer to it joins the queue in order. *)
LEMMA HeardWay ==
  ASSUME IInv, HearChunk, NEW c, c = Head(air)
  PROVE  /\ replies' \in Seq(Replies)
         /\ UnderWay' /\ AirOfLatest'
         /\ RepliesOfLatest(replies)' /\ RepliesOfLatest(back)'
         /\ air' \in Seq(AirChunks)
         /\ \A i \in DOMAIN replies' :
              \/ \E j \in DOMAIN replies : replies'[i] = replies[j]
              \/ /\ replies'[i].cc = c.cc
                 /\ replies'[i].kind = "ACK" => ~Ignores(c)
<1>1. /\ air # <<>> /\ air' = Tail(air) /\ Rcvr!OnChunkReceived(c)
      /\ SenderStays /\ back' = back
  BY DEF HearChunk, senderVars, SenderStays
<1>2. /\ c \in AirChunks /\ c.uid = accepted /\ c.id = accepted /\ Near(c.cc)
      /\ c.cc \in Rcvr!ChunkIds /\ c.cc \in Nat /\ accepted \in Nat
      /\ \A i \in DOMAIN back : back[i].cc <= c.cc
      /\ \A i \in DOMAIN replies : replies[i].cc <= c.cc
      /\ \A i \in DOMAIN Tail(air) : c.cc <= Tail(air)[i].cc
  BY <1>1, HeadChunk
<1>3. /\ air \in Seq(AirChunks) /\ replies \in Seq(Replies) /\ UnderWay
      /\ AirOfLatest /\ RepliesOfLatest(replies) /\ RepliesOfLatest(back)
      /\ rx \in RxStates
  BY DEF IInv, TypeOK, AirChunks, RxStates
<1>4. /\ State' = State /\ (Sending' <=> Sending) /\ accepted' = accepted
      /\ \A cc : NearNext(cc) <=> Near(cc)
  BY <1>1, StaysFacts DEF SenderStays
<1>5. /\ air' \in Seq(AirChunks) /\ Sorted(air') /\ Before(replies, air') /\ Before(back, air')
      /\ \A i \in DOMAIN air' : \E j \in DOMAIN air : air'[i] = air[j]
  BY <1>1, <1>3, TailElements, TailKeepsOrder DEF UnderWay
<1>6. AirOfLatest'
  <2>1. \A i \in DOMAIN air' : /\ air'[i].uid = accepted /\ air'[i].id = accepted
                               /\ Sending => air'[i].total = State.total
                               /\ Near(air'[i].cc)
    BY <1>3, <1>5 DEF AirOfLatest
  <2> QED
    BY <1>4, <2>1 DEF AirOfLatest, Near, NearNext
<1>7. RepliesOfLatest(back)'
  BY <1>1, <1>3, <1>4 DEF RepliesOfLatest, Near, NearNext
<1>8. CASE replies' = replies
  <2>1. RepliesOfLatest(replies)'
    BY <1>3, <1>4, <1>8 DEF RepliesOfLatest, Near, NearNext
  <2>2. UnderWay'
    BY <1>1, <1>3, <1>5, <1>8 DEF UnderWay
  <2> QED
    BY <1>3, <1>5, <1>6, <1>7, <1>8, <2>1, <2>2
<1>9. ASSUME NEW kind \in {"ACK", "NACK"}, replies' = Append(replies, Answer(kind, c)),
             kind = "ACK" => ~Ignores(c)
      PROVE  /\ replies' \in Seq(Replies)
             /\ UnderWay' /\ RepliesOfLatest(replies)'
             /\ \A i \in DOMAIN replies' :
                  \/ \E j \in DOMAIN replies : replies'[i] = replies[j]
                  \/ /\ replies'[i].cc = c.cc
                     /\ replies'[i].kind = "ACK" => ~Ignores(c)
  <2> DEFINE e == Answer(kind, c)
  <2>1. e \in Replies /\ e.cc = c.cc /\ e.uid = accepted /\ e.kind = kind
    BY <1>2 DEF Answer, Replies
  <2>2. replies' = Append(replies, e)
    BY <1>9
  <2> HIDE DEF e
  <2>3. /\ replies' \in Seq(Replies)
        /\ \A i \in DOMAIN replies' : \/ i \in DOMAIN replies /\ replies'[i] = replies[i]
                                      \/ replies'[i] = e
    BY <1>3, <2>1, <2>2, AppendElements
  <2>4. RepliesOfLatest(replies)'
    <3>1. \A i \in DOMAIN replies' : replies'[i].uid = accepted /\ Near(replies'[i].cc)
      BY <1>2, <1>3, <2>1, <2>3 DEF RepliesOfLatest
    <3> QED
      BY <1>4, <3>1 DEF RepliesOfLatest, Near, NearNext
  <2>5. Sorted(replies') /\ Before(back, replies') /\ Before(replies', air')
    BY <1>1, <1>2, <1>3, <1>5, <2>1, <2>2, AppendKeepsOrder DEF UnderWay
  <2>6. UnderWay'
    BY <1>1, <1>3, <1>5, <2>5 DEF UnderWay
  <2> QED
    BY <1>9, <2>1, <2>3, <2>4, <2>6
<1>10. /\ Ignores(c) => replies' = replies \/ replies' = Append(replies, Answer("NACK", c))
       /\ ~Ignores(c) => replies' = Append(replies, Answer("ACK", c))
  BY <1>1, <1>2, <1>3, ChunkOutcome DEF Ignores, AcksAgain, Stores, Delivers
<1> QED
  BY <1>5, <1>6, <1>7, <1>8, <1>9, <1>10

LEMMA SameCardinality ==
  ASSUME NEW S PROVE Rcvr!Cardinality(S) = Cardinality(S)
BY DEF Rcvr!Cardinality, Cardinality

(* What a stored chunk adds to the assembly, and what that says of the     *)
(* count by which the receiver decides that a message is complete.         *)
LEMMA StoredHeld ==
  ASSUME IInv, air # <<>>, NEW c, c = Head(air)
  PROVE  Rcvr!Held(Rcvr!Stored(c), c.id) = Holds \cup {c.cc}
<1>1. rx \in RxStates
  BY DEF IInv, TypeOK, RxStates
<1>2. /\ c \in AirChunks /\ c.id = accepted /\ c.uid # 0 /\ c.id \in MsgIds
      /\ c.cc \in Rcvr!ChunkIds
  BY HeadChunk
<1>3. \A cc \in Rcvr!ChunkIds :
        Rcvr!Stored(c).assemblies[c.id][cc] =
          IF cc = c.cc THEN c.uid ELSE rx.assemblies[c.id][cc]
  BY <1>1, <1>2, StoredFacts
<1> QED
  BY <1>2, <1>3 DEF Rcvr!Held, Holds

LEMMA LastChunkCompletes ==
  ASSUME IInv, Sending, air # <<>>, NEW c, c = Head(air), Begun(c), c.cc = State.total
  PROVE  Rcvr!Complete(c)
<1>1. /\ c.id = accepted /\ c.total = State.total /\ Near(c.cc) /\ c.cc \in Nat \ {0}
  BY HeadChunk
<1>2. /\ State.nextIdx \in Nat /\ State.total \in Nat /\ State.nextIdx < State.total
  BY SenderFacts
<1>3. /\ Holds = {} \/ 1..State.nextIdx \subseteq Holds
      /\ Holds \subseteq 1..State.total
  BY DEF IInv, PrefixHeld
<1>4. Holds = {} => c.cc = 1
  BY <1>1 DEF Begun, Holds
<1>5. Holds \cup {c.cc} = 1..State.total
  <2>1. CASE Holds = {}
    BY <1>1, <1>2, <1>4, <2>1
  <2>2. CASE Holds # {}
    <3>1. State.nextIdx + 1 = State.total
      BY <1>1, <1>2 DEF Near
    <3>2. 1..State.total = 1..State.nextIdx \cup {State.total}
      BY <1>2, <3>1
    <3> QED
      BY <1>1, <1>3, <2>2, <3>2
  <2> QED
    BY <2>1, <2>2
<1>6. Cardinality(1..State.total) = State.total
  <2>1. 1 <= State.total
    BY <1>1
  <2> QED
    BY <1>1, <1>2, <2>1, FS_Interval
<1> QED
  BY <1>1, <1>5, <1>6, StoredHeld, SameCardinality DEF Rcvr!Complete

LEMMA CompleteIsWhole ==
  ASSUME IInv, Sending, air # <<>>, NEW c, c = Head(air), c.cc <= c.total,
         Rcvr!Complete(c)
  PROVE  Rcvr!Whole(c)
<1>1. /\ c \in AirChunks /\ c.id = accepted /\ c.uid = accepted /\ c.total = State.total
      /\ c.cc \in Nat \ {0} /\ c.id \in MsgIds /\ c.cc \in Rcvr!ChunkIds
  BY HeadChunk
<1>2. State.total \in Nat /\ Holds \subseteq 1..State.total
  BY SenderFacts DEF IInv, PrefixHeld
<1> DEFINE H == Holds \cup {c.cc}
<1>3. H \subseteq 1..State.total
  <2>1. c.cc \in 1..State.total
    BY <1>1, <1>2
  <2> QED
    BY <1>2, <2>1
<1>4. Cardinality(H) = State.total
  BY <1>1, StoredHeld, SameCardinality DEF Rcvr!Complete
<1>5. H = 1..State.total
  <2>1. IsFiniteSet(1..State.total) /\ Cardinality(1..State.total) = State.total
    <3>1. 1 <= State.total
      BY <1>1, <1>2
    <3> QED
      BY <1>2, <3>1, FS_Interval
  <2> HIDE DEF H
  <2> QED
    BY <1>3, <1>4, <2>1, FS_Subset
<1>6. rx \in RxStates /\ ReceiverKnows
  BY DEF IInv, TypeOK, RxStates
<1>7. \A cc \in 1..State.total : Rcvr!Stored(c).assemblies[c.id][cc] = c.uid
  <2> SUFFICES ASSUME NEW cc \in 1..State.total
               PROVE  Rcvr!Stored(c).assemblies[c.id][cc] = c.uid
    OBVIOUS
  <2>1. cc \in H
    BY <1>5
  <2>2. cc \in Rcvr!ChunkIds
    BY <1>1, <2>1 DEF Holds, Rcvr!Held
  <2>3. Rcvr!Stored(c).assemblies[c.id][cc] =
          IF cc = c.cc THEN c.uid ELSE rx.assemblies[c.id][cc]
    BY <1>1, <1>6, <2>2, StoredFacts
  <2>4. CASE cc # c.cc
    <3>1. rx.assemblies[c.id][cc] # 0
      BY <1>1, <2>1, <2>4 DEF Holds, Rcvr!Held
    <3>2. rx.assemblies[c.id][cc] \in {0, c.id}
      BY <1>1, <1>6, <2>2 DEF ReceiverKnows
    <3> QED
      BY <1>1, <2>3, <2>4, <3>1, <3>2
  <2> QED
    BY <2>3, <2>4
<1> QED
  BY <1>1, <1>7 DEF Rcvr!Whole

(* What an acknowledgement on its way to the sender says. *)
AckTrue(cc) ==
  /\ Holds = {} \/ cc \in Holds
  /\ cc = State.total => deliveries[accepted] > 0

AckTrueNext(cc) ==
  /\ Holds' = {} \/ cc \in Holds'
  /\ cc = State.total => deliveries'[accepted] > 0

(* A chunk that arrives keeps what the receiver knows and holds, and makes *)
(* no acknowledgement on the way false.                                    *)
LEMMA HeardStore ==
  ASSUME IInv, HearChunk, NEW c, c = Head(air)
  PROVE  /\ rx' \in RxStates /\ deliveries' \in [Sends -> Nat]
         /\ \A u \in Sends : deliveries[u] <= deliveries'[u]
         /\ ReceiverKnows'
<1>1. /\ air # <<>> /\ Rcvr!OnChunkReceived(c) /\ SenderStays
  BY DEF HearChunk, senderVars, SenderStays
<1>2. /\ c \in AirChunks /\ c.uid = accepted /\ c.id = accepted
      /\ accepted \in MsgIds /\ accepted \in Sends /\ accepted \in Nat
  BY <1>1, HeadChunk
<1>3. /\ rx \in RxStates /\ ReceiverKnows
      /\ deliveries \in [Sends -> Nat] /\ forgets \in Nat
  BY Constants DEF IInv, TypeOK, RxStates
<1>4. /\ rx' \in RxStates /\ forgets' = forgets /\ accepted' = accepted
      /\ Ignores(c) \/ AcksAgain(c) \/ Stores(c) \/ Delivers(c)
  BY <1>1, <1>2, <1>3, ChunkOutcome DEF SenderStays
<1>5. ASSUME SameStore(rx', rx), deliveries' = deliveries
      PROVE  ReceiverKnows' /\ \A u \in Sends : deliveries[u] <= deliveries'[u]
  <2>1. ReceiverKnows'
    BY <1>3, <1>4, <1>5 DEF ReceiverKnows, SameStore, Rcvr!Held
  <2> QED
    BY <1>3, <1>5, <2>1
<1>6. /\ Rcvr!Stored(c) \in RxStates
      /\ Rcvr!Stored(c).deliveredMsgs = rx.deliveredMsgs
      /\ \A i \in MsgIds, cc \in Rcvr!ChunkIds :
              Rcvr!Stored(c).assemblies[i][cc] =
                IF i = c.id /\ cc = c.cc THEN c.uid ELSE rx.assemblies[i][cc]
  BY <1>2, <1>3, StoredFacts
<1>7. CASE Stores(c)
  <2>1. /\ rx'.deliveredMsgs = rx.deliveredMsgs /\ deliveries' = deliveries
        /\ \A i \in MsgIds, cc \in Rcvr!ChunkIds :
              rx'.assemblies[i][cc] =
                IF i = accepted /\ cc = c.cc THEN accepted ELSE rx.assemblies[i][cc]
    BY <1>2, <1>6, <1>7 DEF Stores
  <2>2. \A i \in MsgIds : i > accepted => Rcvr!Held(rx', i) = Rcvr!Held(rx, i)
    BY <1>2, <2>1 DEF Rcvr!Held
  <2>3. \A i \in MsgIds, cc \in Rcvr!ChunkIds : rx'.assemblies[i][cc] \in {0, i}
    BY <1>3, <2>1 DEF ReceiverKnows
  <2>4. ReceiverKnows'
    <3>1. \A i \in MsgIds : i > accepted => Rcvr!Held(rx', i) = {} /\ i \notin rx'.deliveredMsgs
      BY <1>3, <2>1, <2>2 DEF ReceiverKnows
    <3>2. \A u \in Sends : /\ u > accepted => deliveries'[u] = 0
                           /\ deliveries'[u] <= forgets + (IF u \in rx'.deliveredMsgs THEN 1 ELSE 0)
      BY <1>3, <2>1 DEF ReceiverKnows
    <3> QED
      BY <1>4, <2>3, <3>1, <3>2 DEF ReceiverKnows, Rcvr!Held
  <2> QED
    BY <1>3, <1>4, <2>1, <2>4
<1>8. CASE Delivers(c)
  <2>1. /\ rx'.deliveredMsgs = rx.deliveredMsgs \cup {accepted}
        /\ rx'.assemblies = Erased(Rcvr!Stored(c).assemblies, accepted)
    BY <1>2, <1>6, <1>8, FinishedFacts DEF Delivers
  <2>2. \A i \in MsgIds, cc \in Rcvr!ChunkIds :
              rx'.assemblies[i][cc] = IF i = accepted THEN 0 ELSE rx.assemblies[i][cc]
    BY <1>2, <1>6, <2>1 DEF Erased, RxStates
  <2>3. \A i \in MsgIds : i > accepted => Rcvr!Held(rx', i) = Rcvr!Held(rx, i)
    BY <1>2, <2>2 DEF Rcvr!Held
  <2>4. \A i \in MsgIds, cc \in Rcvr!ChunkIds : rx'.assemblies[i][cc] \in {0, i}
    BY <1>3, <2>2 DEF ReceiverKnows
  <2>5. /\ deliveries' \in [Sends -> Nat]
        /\ \A u \in Sends : u # accepted => deliveries'[u] = deliveries[u]
        /\ deliveries'[accepted] \in {deliveries[accepted], deliveries[accepted] + 1}
    BY <1>2, <1>3, <1>8 DEF Delivers
  <2>6. accepted \notin rx.deliveredMsgs
    BY <1>2, <1>8 DEF Delivers, Begun
  <2>7. \A u \in Sends : /\ u > accepted => deliveries'[u] = 0
                         /\ deliveries'[u] <= forgets + (IF u \in rx'.deliveredMsgs THEN 1 ELSE 0)
    <3> SUFFICES ASSUME NEW u \in Sends
                 PROVE  /\ u > accepted => deliveries'[u] = 0
                        /\ deliveries'[u] <= forgets + (IF u \in rx'.deliveredMsgs THEN 1 ELSE 0)
      OBVIOUS
    <3>1. CASE u = accepted
      <4>1. deliveries[u] <= forgets
        BY <1>3, <2>6, <3>1 DEF ReceiverKnows
      <4>2. deliveries[u] \in Nat /\ deliveries'[u] <= deliveries[u] + 1
        BY <1>3, <2>5, <3>1
      <4> QED
        BY <1>2, <1>3, <2>1, <2>5, <3>1, <4>1, <4>2
    <3>2. CASE u # accepted
      <4>1. u \in rx'.deliveredMsgs <=> u \in rx.deliveredMsgs
        BY <2>1, <3>2
      <4> QED
        BY <1>3, <2>5, <3>2, <4>1 DEF ReceiverKnows
    <3> QED
      BY <3>1, <3>2
  <2>8. ReceiverKnows'
    <3>1. \A i \in MsgIds : i > accepted => Rcvr!Held(rx', i) = {} /\ i \notin rx'.deliveredMsgs
      BY <1>2, <1>3, <2>1, <2>3 DEF ReceiverKnows
    <3> QED
      BY <1>4, <2>4, <2>7, <3>1 DEF ReceiverKnows, Rcvr!Held
  <2>9. \A u \in Sends : deliveries[u] <= deliveries'[u]
    BY <1>3, <2>5
  <2> QED
    BY <1>4, <2>5, <2>8, <2>9
<1> QED
  BY <1>3, <1>4, <1>5, <1>7, <1>8 DEF Ignores, AcksAgain

LEMMA HeardHolds ==
  ASSUME IInv, HearChunk, Sending, NEW c, c = Head(air)
  PROVE  /\ PrefixHeld'
         /\ \A cc \in Nat \ {0} : cc <= c.cc /\ AckTrue(cc) => AckTrueNext(cc)
         /\ ~Ignores(c) => AckTrueNext(c.cc)
<1>1. /\ air # <<>> /\ Rcvr!OnChunkReceived(c) /\ SenderStays
  BY DEF HearChunk, senderVars, SenderStays
<1>2. /\ c \in AirChunks /\ c.uid = accepted /\ c.id = accepted /\ c.total = State.total
      /\ accepted \in MsgIds /\ accepted \in Sends /\ Near(c.cc)
      /\ c.cc \in Nat \ {0} /\ c.cc \in Rcvr!ChunkIds
  BY <1>1, HeadChunk
<1>3. /\ rx \in RxStates /\ PrefixHeld /\ deliveries \in [Sends -> Nat]
  BY Constants DEF IInv, TypeOK, RxStates
<1>4. /\ State.nextIdx \in Nat /\ State.total \in Nat /\ State.nextIdx < State.total
  BY SenderFacts
<1>5. /\ c.cc <= c.total /\ rx' \in RxStates
      /\ Ignores(c) \/ AcksAgain(c) \/ Stores(c) \/ Delivers(c)
  BY <1>1, <1>2, <1>3, ChunkOutcome
<1>6. State' = State /\ Sending' /\ accepted' = accepted
  BY <1>1, StaysFacts DEF SenderStays
<1>7. ASSUME SameStore(rx', rx), deliveries' = deliveries
      PROVE  PrefixHeld' /\ \A cc : AckTrue(cc) => AckTrueNext(cc)
  <2>1. Holds' = Holds
    BY <1>6, <1>7 DEF Holds, SameStore, Rcvr!Held
  <2> QED
    BY <1>3, <1>6, <1>7, <2>1 DEF PrefixHeld, AckTrue, AckTrueNext, SameStore
<1>8. CASE Ignores(c)
  BY <1>7, <1>8 DEF Ignores
<1>9. CASE AcksAgain(c)
  <2>1. Holds = {} /\ deliveries[accepted] > 0
    BY <1>2, <1>3, <1>9 DEF AcksAgain, PrefixHeld
  <2>2. AckTrue(c.cc)
    BY <2>1 DEF AckTrue
  <2> QED
    BY <1>7, <1>9, <2>2 DEF AcksAgain
<1>10. CASE Stores(c)
  <2>1. /\ deliveries' = deliveries /\ rx' = Rcvr!Stored(c) /\ Begun(c)
        /\ ~Rcvr!Complete(c)
    BY <1>10 DEF Stores
  <2>2. Holds' = Holds \cup {c.cc}
    BY <1>1, <1>2, <1>6, <2>1, StoredHeld DEF Holds
  <2>3. Holds = {} => c.cc = 1
    BY <1>2, <2>1 DEF Begun, Holds
  <2>4. accepted \notin rx'.deliveredMsgs
    BY <1>2, <1>3, <2>1, StoredFacts DEF Begun
  <2>5. 1..State.nextIdx \subseteq Holds'
    <3>1. CASE Holds = {}
      <4>1. State.nextIdx <= 1
        BY <1>2, <1>4, <2>3, <3>1 DEF Near
      <4> QED
        BY <1>4, <2>2, <2>3, <3>1, <4>1
    <3>2. CASE Holds # {}
      BY <1>3, <2>2, <3>2 DEF PrefixHeld
    <3> QED
      BY <3>1, <3>2
  <2>6. Holds' \subseteq 1..State.total
    <3>1. c.cc \in 1..State.total
      BY <1>2, <1>4, <1>5
    <3> QED
      BY <1>3, <2>2, <3>1 DEF PrefixHeld
  <2>7. PrefixHeld'
    BY <1>6, <2>4, <2>5, <2>6 DEF PrefixHeld
  <2>8. \A cc \in Nat \ {0} : cc <= c.cc /\ AckTrue(cc) => AckTrueNext(cc)
    <3> SUFFICES ASSUME NEW cc \in Nat \ {0}, cc <= c.cc, AckTrue(cc) PROVE AckTrueNext(cc)
      OBVIOUS
    <3>1. cc \in Holds'
      <4>1. Holds = {} => cc = c.cc
        BY <1>2, <2>3
      <4> QED
        BY <2>2, <4>1 DEF AckTrue
    <3> QED
      BY <2>1, <3>1 DEF AckTrue, AckTrueNext
  <2>9. AckTrueNext(c.cc)
    <3>1. c.cc # State.total
      BY <1>1, <2>1, LastChunkCompletes
    <3> QED
      BY <2>2, <3>1 DEF AckTrueNext
  <2> QED
    BY <2>7, <2>8, <2>9
<1>11. CASE Delivers(c)
  <2>1. Rcvr!Whole(c)
    BY <1>1, <1>5, <1>11, CompleteIsWhole DEF Delivers
  <2>2. deliveries'[accepted] > 0
    <3>1. deliveries' = [deliveries EXCEPT ![accepted] = @ + 1]
      BY <1>2, <1>11, <2>1 DEF Delivers
    <3> QED
      BY <1>2, <1>3, <3>1
  <2>3. Holds' = {}
    <3>1. /\ Rcvr!Stored(c) \in RxStates /\ rx' = Rcvr!Finished(Rcvr!Stored(c), accepted)
      BY <1>2, <1>3, <1>11, StoredFacts DEF Delivers
    <3>2. rx'.assemblies = Erased(Rcvr!Stored(c).assemblies, accepted)
      BY <1>2, <3>1, FinishedFacts
    <3>3. \A cc \in Rcvr!ChunkIds : rx'.assemblies[accepted][cc] = 0
      BY <1>2, <3>1, <3>2 DEF Erased, RxStates
    <3> QED
      BY <1>6, <3>3 DEF Holds, Rcvr!Held
  <2>4. PrefixHeld'
    BY <1>4, <1>6, <2>2, <2>3 DEF PrefixHeld
  <2> QED
    BY <2>2, <2>3, <2>4 DEF AckTrueNext
<1> QED
  BY <1>5, <1>8, <1>9, <1>10, <1>11

LEMMA HearPreserves ==
  ASSUME IInv, HearChunk PROVE IInv'
<1> DEFINE c == Head(air)
<1>1. /\ air # <<>> /\ Rcvr!OnChunkReceived(c) /\ SenderStays /\ back' = back
      /\ forgets' = forgets
  BY DEF HearChunk, senderVars, SenderStays, Rcvr!OnChunkReceived
<1>2. /\ back \in Seq(Replies) /\ replies \in Seq(Replies) /\ forgets \in Nat
      /\ AcksTrue(replies) /\ AcksTrue(back) /\ CompleteMeansDelivered
  BY DEF IInv, TypeOK
<1>3. /\ rx' \in RxStates /\ deliveries' \in [Sends -> Nat] /\ ReceiverKnows'
      /\ deliveries \in [Sends -> Nat]
      /\ \A u \in Sends : deliveries[u] <= deliveries'[u]
  BY HeardStore, Constants DEF IInv, TypeOK
<1>4. TypeOK'
  BY <1>1, <1>2, <1>3, StaysFacts, HeardWay, Constants DEF TypeOK, RxStates, AirChunks
<1>5. CompleteMeansDelivered'
  <2>1. \A u \in Sends : deliveries[u] > 0 => deliveries'[u] > 0
    BY <1>3
  <2>2. reports' = reports
    BY <1>1 DEF SenderStays
  <2> QED
    BY <1>2, <2>1, <2>2 DEF CompleteMeansDelivered
<1>6. PrefixHeld' /\ AcksTrue(replies)' /\ AcksTrue(back)'
  <2>1. State' = State /\ (Sending' <=> Sending) /\ accepted' = accepted
    BY <1>1, StaysFacts DEF SenderStays
  <2>2. CASE ~Sending
    BY <2>1, <2>2 DEF PrefixHeld, AcksTrue
  <2>3. CASE Sending
    <3>1. /\ PrefixHeld'
          /\ \A cc \in Nat \ {0} : cc <= c.cc /\ AckTrue(cc) => AckTrueNext(cc)
          /\ ~Ignores(c) => AckTrueNext(c.cc)
      BY <2>3, HeardHolds
    <3>2. \A i \in DOMAIN back : back[i].cc \in Nat \ {0}
      BY BackElements
    <3>3. \A i \in DOMAIN replies : replies[i].cc \in Nat \ {0}
      <4>1. \A r \in Replies : r.cc \in Nat \ {0}
        BY Constants DEF Replies
      <4> QED
        BY <1>2, <4>1
    <3>4. /\ \A i \in DOMAIN back : back[i].cc <= c.cc
          /\ \A i \in DOMAIN replies : replies[i].cc <= c.cc
      BY <1>1, HeadChunk
    <3>5. /\ \A i \in DOMAIN back : back[i].kind = "ACK" => AckTrue(back[i].cc)
          /\ \A i \in DOMAIN replies : replies[i].kind = "ACK" => AckTrue(replies[i].cc)
      BY <1>2, <2>3 DEF AcksTrue, AckTrue
    <3>6. \A i \in DOMAIN back : back[i].kind = "ACK" => AckTrueNext(back[i].cc)
      BY <3>1, <3>2, <3>4, <3>5
    <3>7. \A i \in DOMAIN replies : replies[i].kind = "ACK" => AckTrueNext(replies[i].cc)
      BY <3>1, <3>3, <3>4, <3>5
    <3>8. \A i \in DOMAIN replies' : replies'[i].kind = "ACK" => AckTrueNext(replies'[i].cc)
      <4>1. \A i \in DOMAIN replies' :
               \/ \E j \in DOMAIN replies : replies'[i] = replies[j]
               \/ /\ replies'[i].cc = c.cc
                  /\ replies'[i].kind = "ACK" => ~Ignores(c)
        BY HeardWay
      <4> QED
        BY <3>1, <3>7, <4>1
    <3> QED
      BY <1>1, <2>1, <3>1, <3>6, <3>8 DEF AcksTrue, AckTrueNext
  <2> QED
    BY <2>2, <2>3
<1> QED
  BY <1>1, <1>3, <1>4, <1>5, <1>6, StaysFacts, HeardWay DEF IInv

-----------------------------------------------------------------------------
(* The other steps move messages along the way, or lose them, or make the  *)
(* receiver forget.                                                        *)
StoreKept == UNCHANGED <<deliveries, forgets>> /\ SameStore(rx', rx)

LEMMA StoreStays ==
  ASSUME IInv, SenderStays, StoreKept
  PROVE  /\ ReceiverKnows' /\ PrefixHeld' /\ CompleteMeansDelivered'
         /\ Holds' = Holds
<1>1. State' = State /\ (Sending' <=> Sending) /\ accepted' = accepted /\ reports' = reports
  BY StaysFacts DEF SenderStays
<1>2. /\ \A id : Rcvr!Held(rx', id) = Rcvr!Held(rx, id)
      /\ rx'.deliveredMsgs = rx.deliveredMsgs /\ rx'.assemblies = rx.assemblies
      /\ deliveries' = deliveries /\ forgets' = forgets
  BY DEF StoreKept, SameStore, Rcvr!Held
<1>3. Holds' = Holds
  BY <1>1, <1>2 DEF Holds, Rcvr!Held
<1>4. ReceiverKnows /\ PrefixHeld /\ CompleteMeansDelivered
  BY DEF IInv
<1>5. ReceiverKnows'
  BY <1>1, <1>2, <1>4 DEF ReceiverKnows, Rcvr!Held
<1>6. PrefixHeld'
  BY <1>1, <1>2, <1>3, <1>4 DEF PrefixHeld
<1>7. CompleteMeansDelivered'
  BY <1>1, <1>2, <1>4 DEF CompleteMeansDelivered
<1> QED
  BY <1>3, <1>5, <1>6, <1>7

LEMMA LosePreserves ==
  ASSUME IInv, LoseChunk PROVE IInv'
<1>1. /\ air # <<>> /\ air' = Tail(air) /\ SenderStays /\ StoreKept
      /\ rx' = rx /\ replies' = replies /\ back' = back
  BY DEF LoseChunk, senderVars, receiverVars, SenderStays, StoreKept, SameStore
<1>2. /\ air \in Seq(AirChunks) /\ UnderWay /\ AirOfLatest
      /\ RepliesOfLatest(replies) /\ RepliesOfLatest(back)
      /\ AcksTrue(replies) /\ AcksTrue(back)
  BY DEF IInv, TypeOK, AirChunks
<1>3. /\ State' = State /\ (Sending' <=> Sending) /\ accepted' = accepted
      /\ \A cc : NearNext(cc) <=> Near(cc)
      /\ deliveries' = deliveries
  BY <1>1, StaysFacts DEF SenderStays, StoreKept
<1>4. /\ air' \in Seq(AirChunks) /\ Sorted(air') /\ Before(replies, air') /\ Before(back, air')
      /\ \A i \in DOMAIN air' : i + 1 \in DOMAIN air /\ air'[i] = air[i + 1]
  BY <1>1, <1>2, TailElements, TailKeepsOrder DEF UnderWay
<1>5. UnderWay'
  BY <1>1, <1>2, <1>4 DEF UnderWay
<1>6. AirOfLatest'
  BY <1>2, <1>3, <1>4 DEF AirOfLatest, Near, NearNext
<1>7. RepliesOfLatest(replies)' /\ RepliesOfLatest(back)'
  BY <1>1, <1>2, <1>3 DEF RepliesOfLatest, Near, NearNext
<1>8. AcksTrue(replies)' /\ AcksTrue(back)'
  BY <1>1, <1>2, <1>3, StoreStays DEF AcksTrue
<1>9. TypeOK'
  BY <1>1, <1>3, <1>4, StaysFacts DEF IInv, TypeOK, AirChunks, StoreKept
<1> QED
  BY <1>1, <1>5, <1>6, <1>7, <1>8, <1>9, StoreStays, StaysFacts DEF IInv

LEMMA ReplyPreserves ==
  ASSUME IInv, ReplyAirs PROVE IInv'
<1>1. /\ replies # <<>> /\ replies' = Tail(replies) /\ SenderStays /\ StoreKept
      /\ rx' = rx /\ air' = air
      /\ back' = back \/ back' = Append(back, Head(replies))
  BY DEF ReplyAirs, Rcvr!ReplyKeysUp, senderVars, SenderStays, StoreKept, SameStore
<1>2. /\ replies \in Seq(Replies) /\ back \in Seq(Replies) /\ UnderWay /\ AirOfLatest
      /\ RepliesOfLatest(replies) /\ RepliesOfLatest(back)
      /\ AcksTrue(replies) /\ AcksTrue(back)
  BY DEF IInv, TypeOK
<1>3. /\ State' = State /\ (Sending' <=> Sending) /\ accepted' = accepted
      /\ \A cc : NearNext(cc) <=> Near(cc)
      /\ deliveries' = deliveries /\ Holds' = Holds
  BY <1>1, StaysFacts, StoreStays DEF SenderStays, StoreKept
<1> DEFINE e == Head(replies)
<1>4. /\ e \in Replies /\ e = replies[1] /\ 1 \in DOMAIN replies /\ e.cc \in Nat
      /\ replies' \in Seq(Replies) /\ Sorted(replies') /\ Before(replies', air)
      /\ Before(back, replies')
      /\ \A i \in DOMAIN replies' : /\ i + 1 \in DOMAIN replies /\ 1 < i + 1
                                    /\ replies'[i] = replies[i + 1]
  <2>1. \A r \in Replies : r.cc \in Nat
    BY Constants DEF Replies
  <2> QED
    BY <1>1, <1>2, <2>1, TailElements, TailKeepsOrder DEF UnderWay
<1>5. /\ \A i \in DOMAIN replies' : e.cc <= replies'[i].cc
      /\ \A i \in DOMAIN air : e.cc <= air[i].cc
      /\ \A i \in DOMAIN back : back[i].cc <= e.cc
  BY <1>2, <1>4 DEF UnderWay, Sorted, Before
<1>6. /\ back' \in Seq(Replies) /\ Sorted(back') /\ Before(back', replies')
      /\ Before(back', air)
      /\ \A i \in DOMAIN back' : (i \in DOMAIN back /\ back'[i] = back[i]) \/ back'[i] = e
  <2>1. CASE back' = back
    BY <1>2, <1>4, <2>1 DEF UnderWay
  <2>2. CASE back' = Append(back, e)
    <3> HIDE DEF e
    <3>1. /\ back' \in Seq(Replies) /\ Sorted(back') /\ Before(back', replies')
          /\ Before(back', air)
      BY <1>2, <1>4, <1>5, <2>2, AppendKeepsOrder DEF UnderWay
    <3>2. \A i \in DOMAIN back' : (i \in DOMAIN back /\ back'[i] = back[i]) \/ back'[i] = e
      BY <1>2, <1>4, <2>2, AppendElements
    <3> QED
      BY <3>1, <3>2
  <2> QED
    BY <1>1, <2>1, <2>2
<1> HIDE DEF e
<1>7. UnderWay'
  BY <1>1, <1>2, <1>4, <1>6 DEF UnderWay
<1>8. AirOfLatest'
  BY <1>1, <1>2, <1>3 DEF AirOfLatest, Near, NearNext
<1>9. RepliesOfLatest(replies)' /\ RepliesOfLatest(back)'
  BY <1>2, <1>3, <1>4, <1>6 DEF RepliesOfLatest, Near, NearNext
<1>10. AcksTrue(replies)' /\ AcksTrue(back)'
  BY <1>2, <1>3, <1>4, <1>6 DEF AcksTrue
<1>11. TypeOK'
  BY <1>1, <1>3, <1>4, <1>6, StaysFacts DEF IInv, TypeOK, StoreKept
<1> QED
  BY <1>1, <1>7, <1>8, <1>9, <1>10, <1>11, StoreStays, StaysFacts DEF IInv

(* The receiver drops one assembly, or all it knows. *)
Drops ==
  /\ SenderStays /\ UNCHANGED <<air, back, deliveries>>
  /\ replies' = replies \/ replies' = <<>>
  /\ rx' \in RxStates
  /\ \A id \in MsgIds : \/ rx'.assemblies[id] = rx.assemblies[id]
                        \/ \A cc \in Rcvr!ChunkIds : rx'.assemblies[id][cc] = 0
  /\ \/ rx'.deliveredMsgs = rx.deliveredMsgs /\ forgets' = forgets
     \/ rx'.deliveredMsgs = {} /\ forgets' = forgets + 1

LEMMA DropsPreserve ==
  ASSUME Separate, IInv, Drops PROVE IInv'
<1>1. /\ replies \in Seq(Replies) /\ back \in Seq(Replies) /\ UnderWay /\ AirOfLatest
      /\ RepliesOfLatest(replies) /\ RepliesOfLatest(back)
      /\ AcksTrue(replies) /\ AcksTrue(back)
      /\ ReceiverKnows /\ PrefixHeld /\ CompleteMeansDelivered
      /\ deliveries \in [Sends -> Nat] /\ forgets \in Nat
  BY Constants DEF IInv, TypeOK
<1>2. /\ State' = State /\ (Sending' <=> Sending) /\ accepted' = accepted
      /\ reports' = reports
      /\ \A cc : NearNext(cc) <=> Near(cc)
      /\ deliveries' = deliveries /\ air' = air /\ back' = back
      /\ SenderStays /\ SendsLatest'
  BY StaysFacts DEF Drops, SenderStays
<1>3. replies' \in Seq(Replies) /\ forgets' \in Nat
  <2>1. <<>> \in Seq(Replies)
    OBVIOUS
  <2>2. forgets + 1 \in Nat
    BY <1>1
  <2> QED
    BY <1>1, <2>1, <2>2 DEF Drops
<1>4. \A id \in MsgIds : Rcvr!Held(rx', id) = Rcvr!Held(rx, id) \/ Rcvr!Held(rx', id) = {}
  BY DEF Drops, Rcvr!Held
<1>5. UnderWay'
  BY <1>1, <1>2 DEF Drops, UnderWay, Sorted, Before
<1>6. AirOfLatest'
  BY <1>1, <1>2 DEF AirOfLatest, Near, NearNext
<1>7. RepliesOfLatest(replies)' /\ RepliesOfLatest(back)'
  BY <1>1, <1>2 DEF Drops, RepliesOfLatest, Near, NearNext
<1>8. ReceiverKnows'
  <2>1. \A id \in MsgIds, cc \in Rcvr!ChunkIds : rx'.assemblies[id][cc] \in {0, id}
    BY <1>1 DEF Drops, ReceiverKnows
  <2>2. \A id \in MsgIds : id > accepted => Rcvr!Held(rx', id) = {} /\ id \notin rx'.deliveredMsgs
    BY <1>1, <1>4 DEF Drops, ReceiverKnows
  <2>3. \A u \in Sends : deliveries[u] <= forgets' + (IF u \in rx'.deliveredMsgs THEN 1 ELSE 0)
    <3> SUFFICES ASSUME NEW u \in Sends
                 PROVE  deliveries[u] <= forgets' + (IF u \in rx'.deliveredMsgs THEN 1 ELSE 0)
      OBVIOUS
    <3>1. /\ deliveries[u] \in Nat
          /\ deliveries[u] <= forgets + (IF u \in rx.deliveredMsgs THEN 1 ELSE 0)
      BY <1>1 DEF ReceiverKnows
    <3>2. CASE rx'.deliveredMsgs = rx.deliveredMsgs /\ forgets' = forgets
      BY <3>1, <3>2
    <3>3. CASE rx'.deliveredMsgs = {} /\ forgets' = forgets + 1
      BY <1>1, <3>1, <3>3
    <3> QED
      BY <3>2, <3>3 DEF Drops
  <2> QED
    BY <1>1, <1>2, <2>1, <2>2, <2>3 DEF ReceiverKnows, Rcvr!Held
<1>9. PrefixHeld' /\ AcksTrue(replies)' /\ AcksTrue(back)'
  <2>1. CASE ~Sending
    BY <1>2, <2>1 DEF PrefixHeld, AcksTrue
  <2>2. CASE Sending
    <3>1. accepted \in MsgIds
      <4>1. accepted \in 0..MaxMsgs /\ accepted > 0
        BY <2>2 DEF IInv, TypeOK, SendsLatest
      <4> QED
        BY <4>1, Constants DEF Separate
    <3>2. Holds' = Holds \/ Holds' = {}
      BY <1>2, <1>4, <3>1 DEF Holds, Rcvr!Held
    <3>3. accepted \in rx'.deliveredMsgs => accepted \in rx.deliveredMsgs
      BY DEF Drops
    <3>4. PrefixHeld'
      BY <1>1, <1>2, <3>2, <3>3 DEF PrefixHeld
    <3>5. AcksTrue(replies)' /\ AcksTrue(back)'
      BY <1>1, <1>2, <3>2 DEF Drops, AcksTrue
    <3> QED
      BY <3>4, <3>5
  <2> QED
    BY <2>1, <2>2
<1>10. CompleteMeansDelivered'
  BY <1>1, <1>2 DEF CompleteMeansDelivered
<1>11. TypeOK'
  BY <1>2, <1>3, StaysFacts DEF IInv, TypeOK, Drops, RxStates
<1> QED
  BY <1>2, <1>5, <1>6, <1>7, <1>8, <1>9, <1>10, <1>11 DEF IInv

LEMMA EvictDrops ==
  ASSUME IInv, ReceiverTimers PROVE Drops
<1>1. rx \in RxStates /\ SenderStays /\ UNCHANGED <<air, back, deliveries, replies, forgets>>
  BY DEF IInv, TypeOK, RxStates, ReceiverTimers, senderVars, SenderStays,
         Rcvr!OnAssemblyEvictTimerExpired, Rcvr!NackIntervalPasses
<1>2. ASSUME NEW id \in MsgIds, Rcvr!OnAssemblyEvictTimerExpired(id) PROVE Drops
  <2> DEFINE e == Rcvr!SessionEnd(rx)
  <2>1. e \in RxStates /\ SameStore(e, rx)
    BY <1>1, SessionEndFacts
  <2>2. rx' = [e EXCEPT !.assemblies[id] = [cc \in Rcvr!ChunkIds |-> 0],
                        !.evict[id] = FALSE]
    BY <1>2 DEF Rcvr!OnAssemblyEvictTimerExpired
  <2> HIDE DEF e
  <2>3. /\ rx' \in RxStates /\ rx'.deliveredMsgs = e.deliveredMsgs
        /\ rx'.assemblies = Erased(e.assemblies, id)
    <3>1. /\ [e.assemblies EXCEPT ![id] = [cc \in Rcvr!ChunkIds |-> 0]]
               \in [MsgIds -> [Rcvr!ChunkIds -> Nat]]
          /\ [e.evict EXCEPT ![id] = FALSE] \in [MsgIds -> BOOLEAN]
      BY <2>1 DEF RxStates
    <3> QED
      BY <2>1, <2>2, <3>1 DEF RxStates, Erased
  <2>4. \A i \in MsgIds : \/ rx'.assemblies[i] = rx.assemblies[i]
                          \/ \A cc \in Rcvr!ChunkIds : rx'.assemblies[i][cc] = 0
    BY <1>1, <2>1, <2>3 DEF SameStore, Erased, RxStates
  <2> QED
    BY <1>1, <2>1, <2>3, <2>4 DEF Drops, SameStore
<1>3. CASE Rcvr!NackIntervalPasses
  <2>1. rx' = [rx EXCEPT !.nackHeld = FALSE]
    BY <1>3 DEF Rcvr!NackIntervalPasses
  <2>2. rx' \in RxStates /\ SameStore(rx', rx)
    BY <1>1, <2>1 DEF RxStates, SameStore
  <2> QED
    BY <1>1, <2>2 DEF Drops, SameStore
<1> QED
  BY <1>2, <1>3 DEF ReceiverTimers

LEMMA ForgetDrops ==
  ASSUME IInv, ReceiverForgets PROVE Drops /\ forgets' = forgets + 1
<1>1. /\ SenderStays /\ UNCHANGED <<air, back, deliveries>>
      /\ replies' = replies \/ replies' = <<>>
      /\ rx' = Rcvr!BlankRx /\ forgets' = forgets + 1
  BY DEF ReceiverForgets, senderVars, SenderStays, Rcvr!HaltAll, Rcvr!Restart
<1> QED
  BY <1>1, BlankRxFacts DEF Drops

-----------------------------------------------------------------------------
(* The invariant. *)
LEMMA InitEstablishes == Init => IInv
<1> SUFFICES ASSUME Init PROVE IInv
  OBVIOUS
<1>1. /\ inFlight = {} /\ State = Sender!Blank /\ snd \in [{Receiver} -> Sender!SendState]
      /\ accepted = 0 /\ nextMsgId = 1
      /\ reports = [u \in Sends |-> <<>>]
  BY BlankIsState, Constants DEF Init, Sender!Init, State, Sender!MSG_ID_MIN
<1>2. /\ rx = Rcvr!BlankRx /\ replies = <<>> /\ forgets = 0
      /\ deliveries = [u \in Sends |-> 0]
      /\ air = <<>> /\ back = <<>>
  BY Constants DEF Init, Rcvr!Init
<1>3. ~Sending
  BY <1>1 DEF Sending
<1>4. TypeOK
  <2>1. reports \in [Sends -> Seq(Sender!Reasons)]
    <3>1. <<>> \in Seq(Sender!Reasons)
      OBVIOUS
    <3> QED
      BY <1>1, <3>1
  <2>2. accepted \in 0..MaxMsgs
    BY <1>1, Constants
  <2>3. rx \in RxStates /\ deliveries \in [Rcvr!Uids -> Nat]
    BY <1>2, BlankRxFacts, Constants
  <2>4. air \in Seq(AirChunks) /\ replies \in Seq(Replies) /\ back \in Seq(Replies)
    BY <1>2
  <2> QED
    BY <1>1, <1>2, <2>1, <2>2, <2>3, <2>4 DEF TypeOK, RxStates, AirChunks
<1>5. UnderWay /\ AirOfLatest /\ RepliesOfLatest(replies) /\ RepliesOfLatest(back)
  BY <1>2 DEF UnderWay, Sorted, Before, AirOfLatest, RepliesOfLatest
<1>6. SendsLatest
  BY <1>1, <1>3, Constants DEF SendsLatest
<1>7. ReceiverKnows
  <2>1. \A id \in MsgIds : Rcvr!Held(rx, id) = {}
    BY <1>2, BlankRxFacts DEF Rcvr!Held
  <2> QED
    BY <1>1, <1>2, <2>1, BlankRxFacts DEF ReceiverKnows
<1>8. CompleteMeansDelivered
  BY <1>1 DEF CompleteMeansDelivered
<1> QED
  BY <1>3, <1>4, <1>5, <1>6, <1>7, <1>8 DEF IInv, PrefixHeld, AcksTrue

LEMMA StepPreserves ==
  ASSUME Separate, IInv, [Next]_vars PROVE IInv'
<1>1. CASE UNCHANGED vars
  <2>1. SenderStays /\ UNCHANGED <<air, back, deliveries, replies, rx, forgets>>
    BY <1>1 DEF vars, senderVars, receiverVars, SenderStays
  <2>2. rx' \in RxStates
    BY <2>1 DEF IInv, TypeOK, RxStates
  <2> QED
    BY <2>1, <2>2, DropsPreserve DEF Drops
<1>2. CASE \/ \E n \in Sizes : Submit(n)
           \/ HearReply \/ SenderTimeout \/ SenderPolls \/ SenderHalts
  BY <1>2, SenderSteps, SenderPreserves
<1>3. CASE HearChunk
  BY <1>3, HearPreserves
<1>4. CASE LoseChunk
  BY <1>4, LosePreserves
<1>5. CASE ReplyAirs
  BY <1>5, ReplyPreserves
<1>6. CASE ReceiverTimers
  BY <1>6, EvictDrops, DropsPreserve
<1>7. CASE ReceiverForgets
  BY <1>7, ForgetDrops, DropsPreserve
<1> QED
  BY <1>1, <1>2, <1>3, <1>4, <1>5, <1>6, <1>7 DEF Next

(* The inductive invariant: everything on the way is for the chunk         *)
(* outstanding or the one before it, in order; the receiver holds every    *)
(* chunk before the outstanding one, or has delivered or dropped them.     *)
THEOREM Invariance ==
  ASSUME Separate PROVE Spec => []IInv
<1>1. IInv /\ [Next]_vars => IInv'
  BY StepPreserves
<1> QED
  BY <1>1, InitEstablishes, PTL DEF Spec

(* Messages that do not meet on the way are never reported complete        *)
(* undelivered: sendNextChunk's end of the chunks is the receiver's.       *)
THEOREM CompleteIsDelivered ==
  ASSUME Separate PROVE Spec => []CompleteMeansDelivered
<1>1. IInv => CompleteMeansDelivered
  BY DEF IInv
<1> QED
  BY <1>1, Invariance, PTL

(* Nor does an answer to an older chunk, or one with a wrapped number,     *)
(* move the sender past a chunk the receiver lacks (onAckReceived,         *)
(* onNackReceived's implicit acknowledgement).                             *)
THEOREM NeverAhead ==
  ASSUME Separate PROVE Spec => []NoFalseAdvance
<1>1. ASSUME IInv PROVE NoFalseAdvance
  <2> SUFFICES ASSUME Sending, Holds # {}
               PROVE  \A cc \in 1..State.nextIdx : rx.assemblies[State.msgId][cc] = State.uid
    <3>1. Sending => State.msgId = accepted
      BY <1>1 DEF IInv, SendsLatest
    <3> QED
      BY <3>1 DEF NoFalseAdvance, Sending, Holds
  <2>1. /\ State.msgId = accepted /\ State.uid = accepted /\ accepted > 0
        /\ 1..State.nextIdx \subseteq Holds /\ ReceiverKnows
    BY <1>1 DEF IInv, SendsLatest, PrefixHeld
  <2>2. State.msgId \in MsgIds
    <3>1. accepted \in 0..MaxMsgs
      BY <1>1 DEF IInv, TypeOK
    <3> QED
      BY <2>1, <3>1, Constants DEF Separate
  <2> SUFFICES ASSUME NEW cc \in 1..State.nextIdx
               PROVE  rx.assemblies[State.msgId][cc] = State.uid
    OBVIOUS
  <2>3. cc \in Rcvr!ChunkIds /\ rx.assemblies[accepted][cc] # 0
    BY <2>1 DEF Holds, Rcvr!Held
  <2> QED
    BY <2>1, <2>2, <2>3 DEF ReceiverKnows
<1> QED
  BY <1>1, Invariance, PTL

-----------------------------------------------------------------------------
(* The link implements ReliableMessages: a submission is an Accept, the    *)
(* end of a send a Report, the chunk that completes a message a Deliver, a *)
(* halt or restart of the receiver a Forget, and every other step leaves   *)
(* what the user sees as it is.                                            *)
AbstractStep == [Abstract!Next]_Abstract!vars

LEMMA SenderStepMaps ==
  ASSUME IInv, SenderStep PROVE AbstractStep
<1>1. /\ deliveries' = deliveries /\ forgets' = forgets
      /\ SendsLatest /\ accepted \in 0..MaxMsgs /\ DOMAIN reports = Sends
  BY Constants DEF SenderStep, receiverVars, IInv, TypeOK
<1>2. CASE Keeps \/ AdvancesRightly
  BY <1>1, <1>2 DEF Keeps, AdvancesRightly, Advances, AbstractStep, Abstract!vars
<1>3. CASE EndsRightly
  <2>1. PICK reason \in Sender!Reasons :
          Ends(reason) /\ (reason = "complete" => deliveries[accepted] > 0)
    BY <1>3 DEF EndsRightly
  <2>2. Sending /\ accepted \in Sends /\ accepted' = accepted
    BY <2>1, SenderFacts DEF Ends
  <2>3. reports[accepted] = <<>>
    BY <1>1, <2>2 DEF SendsLatest
  <2>4. reports' = [reports EXCEPT ![accepted] = <<reason>>]
    <3>1. Append(reports[accepted], reason) = <<reason>>
      BY <2>3
    <3> QED
      BY <2>1, <3>1 DEF Ends
  <2>5. accepted \in 1..accepted
    BY <2>2, Constants
  <2>6. Abstract!Report(accepted, reason)
    BY <1>1, <2>1, <2>2, <2>3, <2>4, <2>5 DEF Abstract!Report, Abstract!Reported
  <2>7. reason \in (Sender!Reasons \ {"complete"}) \cup {"complete"}
    OBVIOUS
  <2> QED
    BY <1>1, <2>2, <2>6, <2>7 DEF AbstractStep, Abstract!Next, Abstract!Messages
<1>4. ASSUME NEW n \in Sizes, Starts(n) PROVE AbstractStep
  <2>1. /\ accepted' = accepted + 1 /\ reports' = reports
        /\ accepted < MaxMsgs /\ ~Sending
    BY <1>4 DEF Starts
  <2>2. accepted + 1 \in Sends
    BY <1>1, <2>1, Constants
  <2>3. \A u \in 1..accepted : reports[u] # <<>>
    <3>1. \A u \in 1..accepted : u \in Sends /\ ~(u > accepted)
      BY <1>1, <2>1, Constants
    <3> QED
      BY <1>1, <2>1, <3>1 DEF SendsLatest
  <2>4. Abstract!Accept
    BY <1>1, <2>1, <2>2, <2>3 DEF Abstract!Accept, Abstract!Reported, Abstract!Messages
  <2> QED
    BY <2>4 DEF AbstractStep, Abstract!Next
<1> QED
  BY <1>2, <1>3, <1>4 DEF SenderStep

LEMMA HearMaps ==
  ASSUME IInv, HearChunk PROVE AbstractStep
<1> DEFINE c == Head(air)
<1>1. /\ air # <<>> /\ Rcvr!OnChunkReceived(c) /\ accepted' = accepted /\ reports' = reports
  BY DEF HearChunk, senderVars
<1>2. /\ c \in AirChunks /\ c.uid = accepted /\ c.id = accepted
      /\ accepted \in Sends /\ accepted \in MsgIds /\ accepted \in Nat \ {0}
  BY <1>1, HeadChunk
<1>3. /\ rx \in RxStates /\ ReceiverKnows /\ DOMAIN reports = Sends
      /\ deliveries \in [Sends -> Nat] /\ forgets \in Nat
  BY Constants DEF IInv, TypeOK, RxStates
<1>4. /\ forgets' = forgets
      /\ Ignores(c) \/ AcksAgain(c) \/ Stores(c) \/ Delivers(c)
  BY <1>1, <1>2, <1>3, ChunkOutcome
<1>5. CASE deliveries' = deliveries
  BY <1>1, <1>4, <1>5 DEF AbstractStep, Abstract!vars
<1>6. CASE Delivers(c) /\ deliveries' # deliveries
  <2>1. deliveries' = [deliveries EXCEPT ![accepted] = @ + 1]
    BY <1>2, <1>3, <1>6 DEF Delivers
  <2>2. deliveries[accepted] <= forgets
    <3>1. accepted \notin rx.deliveredMsgs
      BY <1>2, <1>6 DEF Delivers, Begun
    <3> QED
      BY <1>2, <1>3, <3>1 DEF ReceiverKnows
  <2>3. \A v \in Sends : v > accepted => deliveries[v] = 0
    BY <1>3 DEF ReceiverKnows
  <2>4. accepted \in 1..accepted
    BY <1>2
  <2>5. Abstract!Deliver(accepted)
    BY <1>1, <1>3, <1>4, <2>1, <2>2, <2>3, <2>4 DEF Abstract!Deliver, Abstract!Messages
  <2> QED
    BY <1>2, <1>3, <2>5 DEF AbstractStep, Abstract!Next, Abstract!Messages
<1> QED
  BY <1>4, <1>5, <1>6 DEF Ignores, AcksAgain, Stores

LEMMA StepMaps ==
  ASSUME Separate, IInv, [Next]_vars PROVE AbstractStep
<1>1. CASE \/ \E n \in Sizes : Submit(n)
           \/ HearReply \/ SenderTimeout \/ SenderPolls \/ SenderHalts
  BY <1>1, SenderSteps, SenderStepMaps
<1>2. CASE HearChunk
  BY <1>2, HearMaps
<1>3. CASE UNCHANGED vars \/ LoseChunk \/ ReplyAirs \/ ReceiverTimers
  BY <1>3 DEF vars, senderVars, receiverVars, LoseChunk, ReplyAirs, ReceiverTimers,
     Rcvr!ReplyKeysUp, Rcvr!OnAssemblyEvictTimerExpired, Rcvr!NackIntervalPasses,
     AbstractStep, Abstract!vars
<1>4. CASE ReceiverForgets
  <2>1. Abstract!Forget
    BY <1>4, ForgetDrops DEF Drops, SenderStays, Abstract!Forget
  <2> QED
    BY <2>1 DEF AbstractStep, Abstract!Next
<1> QED
  BY <1>1, <1>2, <1>3, <1>4 DEF Next

(* Chunks, retries, losses and late answers do not show: what the user of  *)
(* the link sees is one report for every message, "complete" only for a    *)
(* delivered one, deliveries in order and once per memory of the receiver. *)
THEOREM LinkImplements ==
  ASSUME Separate PROVE Spec => ImplementsReliableMessages
<1>1. Init => Abstract!Init
  BY Constants DEF Init, Sender!Init, Rcvr!Init, Abstract!Init, Abstract!Messages
<1>2. IInv /\ [Next]_vars => [Abstract!Next]_Abstract!vars
  BY StepMaps DEF AbstractStep
<1> QED
  BY <1>1, <1>2, Invariance, PTL DEF Spec, ImplementsReliableMessages, Abstract!Spec

=============================================================================
