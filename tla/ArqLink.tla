------------------------------ MODULE ArqLink ------------------------------
(***************************************************************************)
(* A chunked-ARQ sender and a receiver over the air: ArqSender with the    *)
(* receiver as its only peer, ArqReceiver, and a radio path in each        *)
(* direction that keeps the order of what it carries, loses any of it, and *)
(* can corrupt a chunk's body.  Text sends; native chunks have a receive   *)
(* path of their own.                                                      *)
(*                                                                         *)
(* What the sender puts on the air is a chunk; what comes back is an ACK   *)
(* or a NACK that carries a chunk number modulo ACK_SEQ_MODULUS and        *)
(* nothing else -- not the message.  An answer may be so late that the     *)
(* sender has timed out and sent the chunk again: both copies are then     *)
(* acknowledged.                                                           *)
(***************************************************************************)
EXTENDS ArqWire, Sequences, FiniteSets

CONSTANTS
  Receiver,             \* the receiver's callsign
  MAX_CHUNKS,
  Sizes,                \* chunk counts of the messages submitted
  DEFAULT_MAX_RETRIES,
  Foreign,              \* wire numbers of the chunks of a third station
                        \* that the receiver acknowledges as well, within
                        \* the sender's hearing
  DrainFirst,           \* TRUE: the user submits a message only when nothing
                        \* of an earlier one is on its way any more
  MaxMsgs,              \* bound: messages
  MaxInFlight,          \* bound: chunks, or replies, on the air at a time
  MaxForgets            \* bound: times the receiver's state is dropped

ASSUME LinkAssumption ==
  /\ MAX_CHUNKS \in Nat /\ MaxMsgs \in Nat /\ DEFAULT_MAX_RETRIES \in Nat
  /\ Sizes \subseteq 1..MAX_CHUNKS /\ Sizes # {}
  /\ Foreign \subseteq WireSeqs
  /\ DrainFirst \in BOOLEAN

VARIABLES
  inFlight, snd, holdShots, strayTimers, poll, idleCbs, txBusy, nextMsgId,
  restarts, accepted, reports, onAir,                       \* ArqSender
  rx, replies, accept, question, refused, silenced, deliveries, mangled,
  newest, forgets,                                          \* ArqReceiver
  air,    \* chunks on their way to the receiver
  back    \* replies on their way to the sender

senderVars == <<inFlight, snd, holdShots, strayTimers, poll, idleCbs, txBusy,
                nextMsgId, restarts, accepted, reports, onAir>>
receiverVars == <<rx, replies, accept, question, refused, silenced, deliveries,
                  mangled, newest, forgets>>
vars == <<senderVars, receiverVars, air, back>>

Sends == 1..MaxMsgs

Sender == INSTANCE ArqSender WITH
  Peers <- {Receiver}, ClientWaits <- TRUE, MaxCallbacks <- 0,
  MaxRestarts <- 0

Rcvr == INSTANCE ArqReceiver WITH
  Messages <- [uid : Sends, id : MsgIds, total : Sizes],
  InOrder <- FALSE, Confirmation <- FALSE, MaxPending <- MaxInFlight

Init ==
  /\ Sender!Init
  /\ Rcvr!Init
  /\ air = <<>>
  /\ back = <<>>

-----------------------------------------------------------------------------
State == snd[Receiver]

(* The sender's step handed a chunk to the transmitter. *)
Aired ==
  /\ State'.airings > 0
  /\ <<State'.uid, State'.nextIdx, State'.airings>> #
       <<State.uid, State.nextIdx, State.airings>>

AiredChunk(ok) ==
  [uid |-> State'.uid, id |-> State'.msgId, cc |-> State'.nextIdx + 1,
   total |-> State'.total, ok |-> ok]

(* A chunk the sender hands over is on the air, damaged or not, or is lost *)
(* at once; with MaxInFlight on the air it is lost.                        *)
Carry ==
  \/ air' = air
  \/ /\ Aired
     /\ Len(air) < MaxInFlight
     /\ \E ok \in BOOLEAN : air' = Append(air, AiredChunk(ok))

(* Nothing of an earlier message is left anywhere on the way. *)
Drained == air = <<>> /\ replies = <<>> /\ back = <<>>

(* The code locks the next message out only until this one is reported. *)
Submit(n) ==
  /\ DrainFirst => Drained
  /\ Sender!SendChunked(Receiver, n, FALSE)
  /\ Carry
  /\ UNCHANGED <<receiverVars, back>>

(* The answers the sender may decode next: the receiver's oldest one, and  *)
(* "THIRD ACK seq" from the receiver -- processCommandActivity hands every *)
(* ACK of the peer to onAckReceived, whoever it is addressed to.           *)
Audible ==
  {[kind |-> "ACK", seq |-> seq, left |-> back] : seq \in Foreign}
    \cup (IF back = <<>> THEN {}
          ELSE {[kind |-> Head(back).kind, seq |-> Head(back).seq, left |-> Tail(back)]})

HearReply ==
  \E r \in Audible :
     /\ back' = r.left
     /\ IF r.kind = "ACK"
        THEN Sender!OnAckReceived(Receiver, r.seq)
        ELSE Sender!OnNackReceived(Receiver, r.seq)
     /\ Carry
     /\ UNCHANGED receiverVars

SenderTimeout ==
  /\ Sender!OnAckTimerExpired(Receiver)
  /\ Carry
  /\ UNCHANGED <<receiverVars, back>>

(* The transmit path drains or fills, and the poll notices it. *)
SenderPolls ==
  /\ \/ \E armed \in SUBSET {Receiver} : Sender!OnTxIdlePollTick(armed, 0)
     \/ Sender!TxPathChanges
  /\ UNCHANGED <<receiverVars, air, back>>

(* A restart of the sender leaves what Halt leaves, and the transmit path  *)
(* idle.                                                                   *)
SenderHalts ==
  /\ Sender!HaltAll
  /\ UNCHANGED <<receiverVars, air, back>>

HearChunk ==
  /\ air # <<>>
  /\ air' = Tail(air)
  /\ Rcvr!OnChunkReceived(Head(air))
  /\ UNCHANGED <<senderVars, back>>

LoseChunk ==
  /\ air # <<>>
  /\ air' = Tail(air)
  /\ UNCHANGED <<senderVars, receiverVars, back>>

(* A reply keys up and is heard later, or never: the receiving station's   *)
(* gate may hold it back, and the air may lose it.                         *)
ReplyAirs ==
  /\ Rcvr!ReplyKeysUp
  /\ \/ back' = back
     \/ /\ Len(back) < MaxInFlight
        /\ back' = Append(back, Head(replies))
  /\ UNCHANGED <<senderVars, air>>

(* The receiver's timers that touch assemblies or replies; the stall and   *)
(* quiet timers change only what the window shows.                         *)
ReceiverTimers ==
  /\ \/ \E id \in MsgIds : Rcvr!OnAssemblyEvictTimerExpired(id)
     \/ Rcvr!NackIntervalPasses
  /\ UNCHANGED <<senderVars, air, back>>

ReceiverForgets ==
  /\ Rcvr!HaltAll \/ Rcvr!Restart
  /\ UNCHANGED <<senderVars, air, back>>

Next ==
  \/ \E n \in Sizes : Submit(n)
  \/ HearReply
  \/ SenderTimeout
  \/ SenderPolls
  \/ SenderHalts
  \/ HearChunk
  \/ LoseChunk
  \/ ReplyAirs
  \/ ReceiverTimers
  \/ ReceiverForgets

Spec == Init /\ [][Next]_vars

-----------------------------------------------------------------------------
(* A send is reported complete only if the receiver delivered the message. *)
CompleteMeansDelivered ==
  \A u \in Sends : (\E i \in DOMAIN reports[u] : reports[u][i] = "complete")
                     => deliveries[u] > 0

(* The sender is never ahead of the receiver: every chunk before the one   *)
(* outstanding is kept, or was delivered, or was dropped with the          *)
(* receiver's state.  An answer to an older chunk, or one numbered modulo  *)
(* ACK_SEQ_MODULUS, never moves the sender on.                             *)
NoFalseAdvance ==
  Receiver \in inFlight /\ forgets = 0 /\ deliveries[State.uid] = 0 =>
     \/ \A cc \in 1..State.nextIdx : rx.assemblies[State.msgId][cc] = State.uid
     \/ Rcvr!Held(rx, State.msgId) = {}

(* What the link delivers is whole, at most once per receiver memory, and  *)
(* in order; every send is reported once: ArqLink implements               *)
(* ReliableMessages.                                                       *)
Abstract == INSTANCE ReliableMessages WITH Failures <- Sender!Reasons \ {"complete"}

ImplementsReliableMessages == Abstract!Spec

(***************************************************************************)
(* The conditions under which all this holds: messages that do not meet on *)
(* the way, no third station's answers, no message id twice, and chunk     *)
(* numbers that tell three neighbours apart.                               *)
(***************************************************************************)
Separate ==
  /\ DrainFirst /\ Foreign = {}
  /\ MaxMsgs <= MSG_ID_MAX
  /\ ACK_SEQ_MODULUS > 2

(***************************************************************************)
(* The inductive invariant.  Everything under way belongs to the latest    *)
(* message; while that is being sent, to the chunk outstanding or the one  *)
(* before it, and the way keeps them in order.                             *)
(***************************************************************************)
Sending == Receiver \in inFlight

Sorted(s) == \A i, j \in DOMAIN s : i < j => s[i].cc <= s[j].cc
Before(s, t) == \A i \in DOMAIN s, j \in DOMAIN t : s[i].cc <= t[j].cc

UnderWay ==
  /\ Sorted(back) /\ Sorted(replies) /\ Sorted(air)
  /\ Before(back, replies) /\ Before(back, air) /\ Before(replies, air)

Near(cc) == Sending => cc \in State.nextIdx..(State.nextIdx + 1)

AirOfLatest ==
  \A i \in DOMAIN air :
     /\ air[i].uid = accepted /\ air[i].id = accepted
     /\ Sending => air[i].total = State.total
     /\ Near(air[i].cc)

RepliesOfLatest(s) == \A i \in DOMAIN s : s[i].uid = accepted /\ Near(s[i].cc)

(* The send in flight is the latest, and ids number the messages.          *)
SendsLatest ==
  /\ accepted < MaxMsgs => nextMsgId = accepted + 1
  /\ IF Sending
     THEN /\ accepted > 0 /\ State.uid = accepted /\ State.msgId = accepted
          /\ ~State.isBinary
          /\ State.total \in Sizes /\ State.nextIdx < State.total
     ELSE State = Sender!Blank
  /\ \A u \in Sends : reports[u] = <<>> <=> u > accepted \/ (Sending /\ u = accepted)

(* What the receiver knows of messages is what their ids say.              *)
ReceiverKnows ==
  /\ \A id \in MsgIds, cc \in Rcvr!ChunkIds : rx.assemblies[id][cc] \in {0, id}
  /\ \A id \in MsgIds : id > accepted => Rcvr!Held(rx, id) = {} /\ id \notin rx.deliveredMsgs
  /\ \A u \in Sends : /\ u > accepted => deliveries[u] = 0
                      /\ deliveries[u] <= forgets + (IF u \in rx.deliveredMsgs THEN 1 ELSE 0)

(* Of the message in flight it holds all chunks up to the outstanding one, *)
(* or has delivered, evicted or forgotten it.                              *)
Holds == Rcvr!Held(rx, accepted)

PrefixHeld ==
  Sending =>
     /\ Holds = {} \/ 1..State.nextIdx \subseteq Holds
     /\ Holds \subseteq 1..State.total
     /\ accepted \in rx.deliveredMsgs => Holds = {} /\ deliveries[accepted] > 0

(* An ACK under way is for a chunk held, and for the last only when the    *)
(* message has been delivered.                                             *)
AcksTrue(s) ==
  Sending => \A i \in DOMAIN s : s[i].kind = "ACK" =>
     /\ Holds = {} \/ s[i].cc \in Holds
     /\ s[i].cc = State.total => deliveries[accepted] > 0

Replies ==
  {[kind |-> k, seq |-> AckWireSeq(cc), uid |-> u, cc |-> cc] :
     k \in {"ACK", "NACK"}, u \in Nat, cc \in Rcvr!ChunkIds}

TypeOK ==
  /\ inFlight \subseteq {Receiver}
  /\ snd \in [{Receiver} -> Sender!SendState]
  /\ accepted \in 0..MaxMsgs /\ nextMsgId \in Nat
  /\ reports \in [Sends -> Seq(Sender!Reasons)]
  /\ rx \in [assemblies : [MsgIds -> [Rcvr!ChunkIds -> Nat]],
             evict : [MsgIds -> BOOLEAN], deliveredMsgs : SUBSET MsgIds,
             sessionActive : BOOLEAN, nackHeld : BOOLEAN, phase : Rcvr!Phases,
             totalChunks : Nat, stall : BOOLEAN]
  /\ deliveries \in [Rcvr!Uids -> Nat] /\ forgets \in Nat
  /\ air \in Seq([uid : Nat, id : MsgIds, cc : Rcvr!ChunkIds, total : Sizes, ok : BOOLEAN])
  /\ replies \in Seq(Replies) /\ back \in Seq(Replies)

IInv ==
  /\ TypeOK
  /\ UnderWay /\ AirOfLatest /\ RepliesOfLatest(replies) /\ RepliesOfLatest(back)
  /\ SendsLatest /\ ReceiverKnows /\ PrefixHeld
  /\ AcksTrue(replies) /\ AcksTrue(back)
  /\ CompleteMeansDelivered

=============================================================================
