---------------------------- MODULE ArqReceiver ----------------------------
(***************************************************************************)
(* The receiving half of ChunkedArq::Manager for text chunks: the RxState  *)
(* of one peer (every handler but haltAll touches one RxState only), the   *)
(* replies that wait for the sender's turnaround, the receive-session      *)
(* phase, and the part of the window that decides about a session: the     *)
(* acceptance question (onRxSessionChanged, confirmThenRun) and the gate   *)
(* every reply passes (onChunkedWantsResponseTx).                          *)
(*                                                                         *)
(* Chunks arrive from an open environment, in any order and any number of  *)
(* times; ArqLink connects the sender.  Timers are armed or not, and an    *)
(* armed one may expire at any step.                                       *)
(***************************************************************************)
EXTENDS ArqWire, Sequences, FiniteSets

CONSTANTS
  MAX_CHUNKS,    \* most chunks a message may have
  Messages,      \* what the peer may send: [uid, id, total] records
  InOrder,       \* TRUE: the peer never goes back to an earlier message
  Confirmation,  \* the "confirm autoreplies" setting
  MaxPending,    \* bound: replies waiting to key up
  MaxForgets     \* bound: times the RxState is dropped

ASSUME ReceiverAssumption ==
  /\ MAX_CHUNKS \in Nat \ {0}
  /\ \A m \in Messages : /\ m.uid \in Nat \ {0}
                         /\ m.id \in MsgIds
                         /\ m.total \in 1..MAX_CHUNKS
  /\ InOrder \in BOOLEAN
  /\ Confirmation \in BOOLEAN
  /\ MaxPending \in Nat
  /\ MaxForgets \in Nat

VARIABLES
  rx,          \* the RxState of the peer
  replies,     \* ACKs and NACKs whose turnaround hold is running
  accept,      \* m_rxAcceptState of the peer
  question,    \* the acceptance question about the peer is open
  refused,     \* history: messages that had begun when the operator refused
  silenced,    \* history: messages that had a reply withheld as Declined
  deliveries,  \* history: how often each message was delivered, whole
  mangled,     \* history: something else was delivered
  newest,      \* history: the latest message a chunk of which has arrived
  forgets      \* how often the RxState was dropped

vars == <<rx, replies, accept, question, refused, silenced,
          deliveries, mangled, newest, forgets>>

Uids == {m.uid : m \in Messages}
ChunkIds == 1..MAX_CHUNKS
Phases == {"Idle", "Receiving", "Stalled"}
Answers == {"none", "Pending", "Accepted", "Declined"}

(* A chunk off the air; `ok' says whether its body matches its CRC, and    *)
(* `uid' (history) which message it really belongs to.                     *)
Chunks ==
  {[uid |-> m.uid, id |-> m.id, cc |-> cc, total |-> m.total, ok |-> ok] :
     m \in Messages, cc \in ChunkIds, ok \in BOOLEAN}

(***************************************************************************)
(* RxState.  assemblies[id][cc] names the message chunk cc came from, 0    *)
(* when absent; evict[id] and stall say which timers run; sessionActive is *)
(* true exactly while the quiet timer runs; nackHeld while the last NACK   *)
(* is younger than MIN_NACK_INTERVAL_MS.                                   *)
(***************************************************************************)
BlankRx ==
  [assemblies |-> [id \in MsgIds |-> [cc \in ChunkIds |-> 0]],
   evict |-> [id \in MsgIds |-> FALSE],
   deliveredMsgs |-> {}, sessionActive |-> FALSE, nackHeld |-> FALSE,
   phase |-> "Idle", totalChunks |-> 0, stall |-> FALSE]

Held(r, id) == {cc \in ChunkIds : r.assemblies[id][cc] # 0}

Init ==
  /\ rx = BlankRx
  /\ replies = <<>>
  /\ accept = "none"
  /\ question = FALSE
  /\ refused = {}
  /\ silenced = {}
  /\ deliveries = [u \in Uids |-> 0]
  /\ mangled = FALSE
  /\ newest = 0
  /\ forgets = 0

-----------------------------------------------------------------------------
(* Mutant: the stall timer is not restarted. *)
ActivityWithoutTimer(r) ==
  IF r.totalChunks > 1 THEN [r EXCEPT !.phase = "Receiving"] ELSE r

(* rxSessionActivity: multi-part sessions only. *)
Activity(r) ==
  IF r.totalChunks > 1 THEN [r EXCEPT !.phase = "Receiving", !.stall = TRUE] ELSE r

(* rxSessionEnd; the phase reaches the window only if one was engaged. *)
SessionEnd(r) ==
  [r EXCEPT !.phase = "Idle", !.totalChunks = 0, !.stall = FALSE]

Engaged(r) == r.phase # "Idle" \/ r.totalChunks # 0

(* onRxSessionChanged(Receiving): ask once per session. *)
Ask ==
  IF Confirmation /\ accept = "none"
  THEN accept' = "Pending" /\ question' = TRUE
  ELSE UNCHANGED <<accept, question>>

(* Mutant: the box stays open. *)
SettleLeavesQuestion == accept' = "none" /\ UNCHANGED question

(* onRxSessionChanged(Idle): forget the answer, withdraw the question. *)
Settle ==
  accept' = "none" /\ question' = FALSE

(* What the window does about the session after a handler left it in r. *)
SessionChanged(r) ==
  IF r.totalChunks > 1 THEN Ask ELSE UNCHANGED <<accept, question>>

SettleIfEngaged(r) ==
  IF Engaged(r) THEN Settle ELSE UNCHANGED <<accept, question>>

Reply(kind, c) ==
  Append(replies, [kind |-> kind, seq |-> AckWireSeq(c.cc), uid |-> c.uid, cc |-> c.cc])

-----------------------------------------------------------------------------
(* haveSession of onChunkReceived. *)
HaveSession(c) == Held(rx, c.id) # {} \/ c.id \in rx.deliveredMsgs

Active == [rx EXCEPT !.sessionActive = TRUE]

(* Mutant: the ACK goes out before the join guard is looked at. *)
IgnoreJoinAcknowledged(c) ==
  /\ ~HaveSession(c) /\ c.cc # 1
  /\ rx' = Active
  /\ replies' = Reply("ACK", c)
  /\ UNCHANGED <<accept, question, deliveries, mangled>>

(* Mid-session join: the start of this message was missed. *)
IgnoreJoin(c) ==
  /\ ~HaveSession(c) /\ c.cc # 1
  /\ rx' = Active
  /\ UNCHANGED <<replies, accept, question, deliveries, mangled>>

(* CRC mismatch: tryNack, at most one per interval. *)
NackCorrupt(c) ==
  /\ HaveSession(c) \/ c.cc = 1
  /\ ~c.ok
  /\ LET r == Activity(Active) IN
     /\ rx' = [r EXCEPT !.nackHeld = TRUE]
     /\ SessionChanged(r)
  /\ replies' = IF rx.nackHeld THEN replies ELSE Reply("NACK", c)
  /\ UNCHANGED <<deliveries, mangled>>

(* rx after the session noted the chunk count, before anything is stored. *)
Counted(c) == Activity([Active EXCEPT !.totalChunks = c.total])

Stored(c) ==
  [Counted(c) EXCEPT !.assemblies[c.id][c.cc] = c.uid, !.evict[c.id] = TRUE]

(* A chunk of a message already delivered is acknowledged again. *)
ReAck(c) ==
  /\ c.ok
  /\ c.id \in rx.deliveredMsgs
  /\ rx' = Counted(c)
  /\ SessionChanged(Counted(c))
  /\ replies' = Reply("ACK", c)
  /\ UNCHANGED <<deliveries, mangled>>

(* Mutant: the last chunk completes the message. *)
CompleteByLast(c) == c.cc = c.total

Complete(c) == Cardinality(Held(Stored(c), c.id)) = c.total

AckAndStore(c) ==
  /\ c.ok
  /\ HaveSession(c) \/ c.cc = 1
  /\ c.id \notin rx.deliveredMsgs
  /\ ~Complete(c)
  /\ rx' = Stored(c)
  /\ SessionChanged(Stored(c))
  /\ replies' = Reply("ACK", c)
  /\ UNCHANGED <<deliveries, mangled>>

(* The parts are joined in chunk order: those of one message, all of them, *)
(* or a mixture.                                                           *)
Whole(c) == \A cc \in 1..c.total : Stored(c).assemblies[c.id][cc] = c.uid

(* Mutant: the message is not remembered as delivered. *)
FinishedForgotten(r, id) ==
  [SessionEnd(r) EXCEPT !.assemblies[id] = [cc \in ChunkIds |-> 0],
                        !.evict[id] = FALSE]

(* The assembly is erased, the id remembered, the session over. *)
Finished(r, id) ==
  [SessionEnd(r) EXCEPT !.assemblies[id] = [cc \in ChunkIds |-> 0],
                        !.evict[id] = FALSE,
                        !.deliveredMsgs = @ \cup {id}]

AckAndDeliver(c) ==
  /\ c.ok
  /\ HaveSession(c) \/ c.cc = 1
  /\ c.id \notin rx.deliveredMsgs
  /\ Complete(c)
  /\ rx' = Finished(Stored(c), c.id)
  /\ Settle
  /\ replies' = Reply("ACK", c)
  /\ deliveries' = [deliveries EXCEPT ![c.uid] = IF Whole(c) THEN @ + 1 ELSE @]
  /\ mangled' = (mangled \/ ~Whole(c))

(* onChunkReceived *)
OnChunkReceived(c) ==
  /\ c.cc <= c.total                  \* parseChunkedData
  /\ InOrder => c.uid >= newest
  /\ newest' = IF c.uid > newest THEN c.uid ELSE newest
  /\ Len(replies) < MaxPending
  /\ \/ IgnoreJoin(c)
     \/ NackCorrupt(c)
     \/ ReAck(c)
     \/ AckAndStore(c)
     \/ AckAndDeliver(c)
  /\ UNCHANGED <<refused, silenced, forgets>>

(* The reply's hold has run out: onChunkedWantsResponseTx.  The gate drops *)
(* it while the answer is Pending or Declined, and so do TX disabled and   *)
(* auto-reply off; only a reply withheld as refused is remembered.         *)
ReplyKeysUp ==
  /\ replies # <<>>
  /\ replies' = Tail(replies)
  /\ silenced' = IF Confirmation /\ accept = "Declined"
                 THEN silenced \cup {Head(replies).uid} ELSE silenced
  /\ UNCHANGED <<rx, accept, question, refused, deliveries, mangled,
                 newest, forgets>>

-----------------------------------------------------------------------------
StallTimerExpires ==
  /\ rx.stall
  /\ rx' = [rx EXCEPT !.stall = FALSE,
                      !.phase = IF @ = "Receiving" THEN "Stalled" ELSE @]
  /\ UNCHANGED <<replies, accept, question, refused, silenced,
                 deliveries, mangled, newest, forgets>>

(* onAssemblyEvictTimerExpired *)
OnAssemblyEvictTimerExpired(id) ==
  /\ rx.evict[id]
  /\ rx' = [SessionEnd(rx) EXCEPT
              !.assemblies[id] = [cc \in ChunkIds |-> 0], !.evict[id] = FALSE]
  /\ SettleIfEngaged(rx)
  /\ UNCHANGED <<replies, refused, silenced, deliveries, mangled, newest, forgets>>

(* onQuietTimerExpired *)
OnQuietTimerExpired ==
  /\ rx.sessionActive
  /\ rx' = [rx EXCEPT !.sessionActive = FALSE]
  /\ UNCHANGED <<replies, accept, question, refused, silenced,
                 deliveries, mangled, newest, forgets>>

NackIntervalPasses ==
  /\ rx.nackHeld
  /\ rx' = [rx EXCEPT !.nackHeld = FALSE]
  /\ UNCHANGED <<replies, accept, question, refused, silenced,
                 deliveries, mangled, newest, forgets>>

OperatorAccepts ==
  /\ question
  /\ accept' = "Accepted"
  /\ question' = FALSE
  /\ UNCHANGED <<rx, replies, refused, silenced, deliveries, mangled,
                 newest, forgets>>

(* No, or the question's timeout: haltRxPeer, and then the refusal is      *)
(* written -- after the end of the session has cleared the answer.         *)
OperatorRefuses ==
  /\ question
  /\ forgets < MaxForgets
  /\ forgets' = forgets + 1
  /\ rx' = BlankRx
  /\ accept' = "Declined"
  /\ question' = FALSE
  /\ refused' = refused \cup {u \in Uids : u <= newest}
  /\ UNCHANGED <<replies, silenced, deliveries, mangled, newest>>

(* The receive half of haltAll; replies already holding still key up. *)
HaltAll ==
  /\ forgets < MaxForgets
  /\ forgets' = forgets + 1
  /\ rx' = BlankRx
  /\ SettleIfEngaged(rx)
  /\ UNCHANGED <<replies, refused, silenced, deliveries, mangled, newest>>

(* The program restarts: nothing of all this is persisted. *)
Restart ==
  /\ forgets < MaxForgets
  /\ forgets' = forgets + 1
  /\ rx' = BlankRx
  /\ replies' = <<>>
  /\ Settle
  /\ UNCHANGED <<refused, silenced, deliveries, mangled, newest>>

Next ==
  \/ \E c \in Chunks : OnChunkReceived(c)
  \/ ReplyKeysUp
  \/ StallTimerExpires
  \/ \E id \in MsgIds : OnAssemblyEvictTimerExpired(id)
  \/ OnQuietTimerExpired
  \/ NackIntervalPasses
  \/ OperatorAccepts
  \/ OperatorRefuses
  \/ HaltAll
  \/ Restart

Spec == Init /\ [][Next]_vars
-----------------------------------------------------------------------------
TypeOK ==
  /\ rx \in [assemblies : [MsgIds -> [ChunkIds -> Uids \cup {0}]],
             evict : [MsgIds -> BOOLEAN], deliveredMsgs : SUBSET MsgIds,
             sessionActive : BOOLEAN, nackHeld : BOOLEAN, phase : Phases,
             totalChunks : 0..MAX_CHUNKS, stall : BOOLEAN]
  /\ replies \in Seq([kind : {"ACK", "NACK"}, seq : WireSeqs, uid : Uids, cc : ChunkIds])
  /\ accept \in Answers
  /\ question \in BOOLEAN
  /\ refused \subseteq Uids
  /\ silenced \subseteq Uids
  /\ deliveries \in [Uids -> Nat]
  /\ mangled \in BOOLEAN
  /\ newest \in Nat
  /\ forgets \in Nat

(* What is delivered is one message, every chunk of it in its place:       *)
(* completion is decided by counting the chunks held (onChunkReceived).    *)
DeliveredWhole == ~mangled

(* A message is delivered at most once for every time its peer's RxState   *)
(* was dropped: retransmissions are absorbed by deliveredMsgs, also in the *)
(* middle of the next message.                                             *)
AtMostOnce == \A u \in Uids : deliveries[u] <= 1 + forgets

(* A chunk is acknowledged only when it is kept or its message has been    *)
(* delivered: no other chunk, evict or halt of an earlier message makes an *)
(* ACK go out for a chunk nobody holds.                                    *)
AckMeansKept ==
  [][\A n \in DOMAIN replies' :
        n > Len(replies) /\ replies'[n].kind = "ACK"
        => LET a == replies'[n] IN
           \/ deliveries'[a.uid] > 0
           \/ \E id \in MsgIds : rx'.assemblies[id][a.cc] = a.uid]_vars

(* Nothing the window shows or locks for a receive outlives its timer:     *)
(* the banner has a stall timer to take it down, and every partial         *)
(* assembly (hasActiveSession) has an evict timer.                         *)
LocksHaveTimers ==
  /\ rx.phase = "Receiving" => rx.stall
  /\ \A id \in MsgIds : Held(rx, id) # {} => rx.evict[id]

(* While replies are held for an answer, the question is there to be       *)
(* answered; it is withdrawn with the session, and no answer is left.      *)
HeldMeansAsked == question <=> accept = "Pending"

(***************************************************************************)
(* The inductive invariant.  What the properties above lack to be          *)
(* inductive: an assembly holds chunks of its own message only, in places  *)
(* that message has; a message is remembered as delivered exactly when it  *)
(* was delivered since the RxState was last dropped.  Both need message    *)
(* ids that tell the messages apart: they do not once the ids have wrapped.*)
(***************************************************************************)
DistinctIds ==
  \A m, n \in Messages : m.uid = n.uid \/ m.id = n.id => m = n

OwnChunks ==
  \A id \in MsgIds, cc \in ChunkIds :
     rx.assemblies[id][cc] # 0 =>
       \E m \in Messages : /\ m.id = id
                           /\ m.uid = rx.assemblies[id][cc]
                           /\ cc <= m.total

Remembered ==
  \A m \in Messages :
     IF m.id \in rx.deliveredMsgs
     THEN deliveries[m.uid] \in 1..(forgets + 1)
     ELSE deliveries[m.uid] <= forgets

IInv ==
  /\ TypeOK /\ LocksHaveTimers /\ HeldMeansAsked
  /\ DistinctIds => OwnChunks /\ Remembered /\ DeliveredWhole

(* A reply is withheld as refused only if its transfer had begun when the  *)
(* operator refused: the comments in onRxSessionChanged say an answer must *)
(* not "silently decide that station's next transfer too".                 *)
AnswerDecidesOwnTransfer == silenced \subseteq refused

=============================================================================
