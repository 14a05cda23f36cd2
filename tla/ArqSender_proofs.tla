-------------------------- MODULE ArqSender_proofs --------------------------
(***************************************************************************)
(* What holds of the sender for every number of peers, every chunk limit,  *)
(* retry limit and bound.                                                  *)
(***************************************************************************)
EXTENDS ArqSender, TLAPS

-----------------------------------------------------------------------------
(* Dropping a send, and handing a chunk over, keep the types. *)
LEMMA DropType ==
  ASSUME SenderTypeOK, NEW p \in Peers, NEW s \in SendState, NEW reason \in Reasons,
         NEW strays \in [Peers -> Nat], Drop(p, s, reason, strays)
  PROVE  /\ inFlight' \subseteq Peers
         /\ snd' \in [Peers -> SendState]
         /\ strayTimers' \in [Peers -> Nat]
         /\ poll' \in BOOLEAN
         /\ txBusy' \in BOOLEAN
         /\ reports' \in [Sends -> Seq(Reasons)]
         /\ onAir' \in [send : Nat, carries : Nat]
<1>1. Blank \in SendState
  BY DEF Blank, SendState
<1>2. reports' \in [Sends -> Seq(Reasons)]
  <2>1. CASE s.uid \in Sends
    <3>1. Append(reports[s.uid], reason) \in Seq(Reasons)
      BY <2>1 DEF SenderTypeOK
    <3> QED
      BY <2>1, <3>1 DEF SenderTypeOK, Drop
  <2>2. CASE s.uid \notin Sends
    BY <2>2 DEF SenderTypeOK, Drop
  <2> QED
    BY <2>1, <2>2
<1>3. strayTimers' \in [Peers -> Nat]
  BY DEF Drop, StraysAfterDrop
<1> QED
  BY <1>1, <1>2, <1>3 DEF SenderTypeOK, Drop

LEMMA TransmitType ==
  ASSUME SenderTypeOK, NEW p \in Peers, NEW s \in SendState,
         NEW strays \in [Peers -> Nat], Transmit(p, s, strays)
  PROVE  /\ inFlight' \subseteq Peers
         /\ snd' \in [Peers -> SendState]
         /\ strayTimers' \in [Peers -> Nat]
         /\ poll' \in BOOLEAN
         /\ txBusy' \in BOOLEAN
         /\ reports' \in [Sends -> Seq(Reasons)]
         /\ onAir' \in [send : Nat, carries : Nat]
<1>1. [s EXCEPT !.timer = FALSE, !.awaitingTxDone = TRUE, !.airings = @ + 1]
        \in SendState
  <2>1. s.airings + 1 \in Nat
    BY DEF SendState
  <2> QED
    BY <2>1 DEF SendState
<1>2. Payload(s) \in Nat
  BY DEF Payload, SendState
<1>3. s.uid \in Nat
  BY DEF SendState
<1> QED
  BY <1>1, <1>2, <1>3 DEF SenderTypeOK, Transmit

LEMMA SendNextChunkType ==
  ASSUME SenderTypeOK, NEW p \in Peers, NEW s \in SendState,
         NEW strays \in [Peers -> Nat], SendNextChunk(p, s, strays)
  PROVE  /\ inFlight' \subseteq Peers
         /\ snd' \in [Peers -> SendState]
         /\ strayTimers' \in [Peers -> Nat]
         /\ poll' \in BOOLEAN
         /\ txBusy' \in BOOLEAN
         /\ reports' \in [Sends -> Seq(Reasons)]
         /\ onAir' \in [send : Nat, carries : Nat]
<1>1. "complete" \in Reasons
  BY DEF Reasons
<1> QED
  BY <1>1, DropType, TransmitType DEF SendNextChunk

LEMMA ScheduleType ==
  ASSUME SenderTypeOK, NEW p \in Peers, NEW s \in SendState, ScheduleSendNextChunk(p, s)
  PROVE  /\ inFlight' \subseteq Peers
         /\ snd' \in [Peers -> SendState]
         /\ holdShots' \in [Peers -> Nat]
         /\ strayTimers' \in [Peers -> Nat]
         /\ poll' \in BOOLEAN
         /\ txBusy' \in BOOLEAN
         /\ reports' \in [Sends -> Seq(Reasons)]
         /\ onAir' \in [send : Nat, carries : Nat]
<1>1. CASE ~s.isBinary
  <2>1. strayTimers \in [Peers -> Nat]
    BY DEF SenderTypeOK
  <2> QED
    BY <1>1, <2>1, SendNextChunkType DEF ScheduleSendNextChunk, SenderTypeOK
<1>2. CASE s.isBinary
  <2>1. [s EXCEPT !.sendHoldPending = TRUE] \in SendState
    BY DEF SendState
  <2>2. /\ snd' = [snd EXCEPT ![p] = [s EXCEPT !.sendHoldPending = TRUE]]
        /\ holdShots' = [holdShots EXCEPT ![p] =
                           IF s.sendHoldPending THEN @ ELSE @ + 1]
        /\ UNCHANGED <<inFlight, strayTimers, poll, txBusy, reports, onAir>>
    BY <1>2 DEF ScheduleSendNextChunk
  <2>3. holdShots' \in [Peers -> Nat]
    BY <2>2 DEF SenderTypeOK
  <2>4. snd' \in [Peers -> SendState]
    BY <2>1, <2>2 DEF SenderTypeOK
  <2> QED
    BY <2>2, <2>3, <2>4 DEF SenderTypeOK
<1> QED
  BY <1>1, <1>2


(* The message id stays in range, and so do the other parts of a SendState. *)
LEMMA BumpMsgIdType ==
  ASSUME NEW id \in MsgIds PROVE BumpMsgId(id) \in MsgIds
BY WireAssumption DEF MsgIds, MSG_ID_MIN, BumpMsgId

LEMMA StartedType ==
  ASSUME SenderTypeOK, NEW p \in Peers, NEW n \in Nat, NEW binary \in BOOLEAN
  PROVE  Started(p, n, binary) \in SendState
<1> DEFINE u == accepted + 1
           s == [snd[p] EXCEPT !.uid = u, !.msgId = nextMsgId, !.total = n,
                               !.nextIdx = 0, !.retries = 0, !.airings = 0]
<1>1. u \in Nat /\ nextMsgId \in Nat /\ snd[p] \in SendState
  BY SenderAssumption, WireAssumption DEF SenderTypeOK, MsgIds, MSG_ID_MIN
<1>2. s \in SendState
  BY <1>1 DEF SendState
<1>3. [s EXCEPT !.isBinary = TRUE, !.bytesOf = u, !.bytesLen = n] \in SendState
  BY <1>1, <1>2 DEF SendState
<1> QED
  BY <1>2, <1>3 DEF Started

LEMMA AcknowledgedType ==
  ASSUME NEW s \in SendState PROVE Acknowledged(s) \in SendState
<1>1. s.nextIdx + 1 \in Nat
  BY DEF SendState
<1> QED
  BY <1>1 DEF Acknowledged, SendState

(* A step of the timeout handler. *)
LEMMA AckTimeoutType ==
  ASSUME SenderTypeOK, NEW p \in Peers, NEW s \in SendState,
         NEW strays \in [Peers -> Nat], AckTimeout(p, s, strays)
  PROVE  SenderTypeOK'
<1>1. CASE Drop(p, s, "timeout_exhausted", strays)
  <2>1. "timeout_exhausted" \in Reasons
    BY DEF Reasons
  <2> QED
    BY <1>1, <2>1, DropType DEF AckTimeout, SenderTypeOK
<1>2. CASE SendNextChunk(p, [s EXCEPT !.retries = @ + 1], strays)
  <2>1. s.retries + 1 \in Nat
    BY DEF SendState
  <2>2. [s EXCEPT !.retries = @ + 1] \in SendState
    BY <2>1 DEF SendState
  <2> QED
    BY <1>2, <2>2, SendNextChunkType DEF AckTimeout, SenderTypeOK
<1> QED
  BY <1>1, <1>2 DEF AckTimeout

LEMMA AckType ==
  ASSUME SenderTypeOK, NEW p \in Peers, NEW seq, OnAckReceived(p, seq)
  PROVE  SenderTypeOK'
<1>1. CASE UNCHANGED vars
  BY <1>1 DEF SenderTypeOK, vars
<1>2. CASE /\ ScheduleSendNextChunk(p, Acknowledged(snd[p]))
           /\ UNCHANGED <<idleCbs, nextMsgId, restarts, accepted>>
  <2>1. Acknowledged(snd[p]) \in SendState
    BY AcknowledgedType DEF SenderTypeOK
  <2> QED
    BY <1>2, <2>1, ScheduleType DEF SenderTypeOK
<1> QED
  BY <1>1, <1>2 DEF OnAckReceived

(* Every step keeps the types. *)
LEMMA TypeStep ==
  ASSUME SenderTypeOK, [Next]_vars
  PROVE  SenderTypeOK'
<1>1. CASE UNCHANGED vars
  BY <1>1 DEF SenderTypeOK, vars
<1>2. ASSUME NEW p \in Peers, NEW n \in 1..MAX_CHUNKS, NEW binary \in BOOLEAN,
             SendChunked(p, n, binary)
      PROVE  SenderTypeOK'
  <2>1. n \in Nat
    BY SenderAssumption
  <2>2. SendNextChunk(p, Started(p, n, binary), strayTimers)
    BY <1>2 DEF SendChunked
  <2>3. strayTimers \in [Peers -> Nat]
    BY DEF SenderTypeOK
  <2>4. /\ accepted' \in 0..MaxMsgs
        /\ nextMsgId' \in MsgIds
        /\ UNCHANGED <<holdShots, idleCbs, restarts>>
    BY <1>2, SenderAssumption, BumpMsgIdType DEF SendChunked, SenderTypeOK
  <2>5. /\ inFlight' \subseteq Peers
        /\ snd' \in [Peers -> SendState]
        /\ strayTimers' \in [Peers -> Nat]
        /\ poll' \in BOOLEAN
        /\ txBusy' \in BOOLEAN
        /\ reports' \in [Sends -> Seq(Reasons)]
        /\ onAir' \in [send : Nat, carries : Nat]
    BY <2>1, <2>2, <2>3, StartedType, SendNextChunkType
  <2> QED
    BY <2>4, <2>5 DEF SenderTypeOK
<1>3. ASSUME NEW p \in Peers, NEW n, SendRefused(p, n) PROVE SenderTypeOK'
  BY <1>3 DEF SendRefused, SenderTypeOK, vars
<1>4. ASSUME NEW p \in Peers, NEW seq \in WireSeqs, OnAckReceived(p, seq)
      PROVE  SenderTypeOK'
  BY <1>4, AckType
<1>5. ASSUME NEW p \in Peers, NEW seq \in WireSeqs, OnNackReceived(p, seq)
      PROVE  SenderTypeOK'
  <2>1. CASE UNCHANGED vars
    BY <2>1 DEF SenderTypeOK, vars
  <2>2. CASE OnAckReceived(p, AckWireSeq(snd[p].nextIdx + 1))
    BY <2>2, AckType
  <2>3. CASE /\ Drop(p, [snd[p] EXCEPT !.timer = FALSE], "nack_exhausted", strayTimers)
             /\ UNCHANGED <<holdShots, idleCbs, nextMsgId, restarts, accepted>>
    <3>1. [snd[p] EXCEPT !.timer = FALSE] \in SendState
      <4>1. snd[p] \in SendState
        BY DEF SenderTypeOK
      <4> QED
        BY <4>1 DEF SendState
    <3>2. "nack_exhausted" \in Reasons /\ strayTimers \in [Peers -> Nat]
      BY DEF Reasons, SenderTypeOK
    <3> QED
      BY <2>3, <3>1, <3>2, DropType DEF SenderTypeOK
  <2>4. CASE /\ ScheduleSendNextChunk(p, [snd[p] EXCEPT !.timer = FALSE,
                                                        !.retries = @ + 1])
             /\ UNCHANGED <<idleCbs, nextMsgId, restarts, accepted>>
    <3>1. snd[p] \in SendState /\ snd[p].retries + 1 \in Nat
      BY DEF SenderTypeOK, SendState
    <3>2. [snd[p] EXCEPT !.timer = FALSE, !.retries = @ + 1] \in SendState
      BY <3>1 DEF SendState
    <3> QED
      BY <2>4, <3>2, ScheduleType DEF SenderTypeOK
  <2> QED
    BY <1>5, <2>1, <2>2, <2>3, <2>4 DEF OnNackReceived
<1>6. ASSUME NEW p \in Peers, OnAckTimerExpired(p) PROVE SenderTypeOK'
  <2>1. [snd[p] EXCEPT !.timer = FALSE] \in SendState
    <3>1. snd[p] \in SendState
      BY DEF SenderTypeOK
    <3> QED
      BY <3>1 DEF SendState
  <2> QED
    BY <1>6, <2>1, AckTimeoutType DEF OnAckTimerExpired, SenderTypeOK
<1>7. ASSUME NEW p \in Peers, OnStrayTimerExpired(p) PROVE SenderTypeOK'
  <2> DEFINE strays == [strayTimers EXCEPT ![p] = @ - 1]
  <2>1. strays \in [Peers -> Nat]
    BY <1>7 DEF OnStrayTimerExpired, SenderTypeOK
  <2>2. CASE AckTimeout(p, snd[p], strays)
    BY <2>1, <2>2, AckTimeoutType DEF SenderTypeOK
  <2>3. CASE /\ strayTimers' = strays
             /\ UNCHANGED <<inFlight, snd, holdShots, poll, idleCbs, txBusy,
                            nextMsgId, restarts, accepted, reports, onAir>>
    BY <2>1, <2>3 DEF SenderTypeOK
  <2> QED
    BY <1>7, <2>2, <2>3 DEF OnStrayTimerExpired
<1>8. ASSUME NEW p \in Peers, HoldExpires(p) PROVE SenderTypeOK'
  <2>1. holdShots' \in [Peers -> Nat]
    BY <1>8 DEF HoldExpires, SenderTypeOK
  <2>2. CASE SendNextChunk(p, [snd[p] EXCEPT !.sendHoldPending = FALSE], strayTimers)
    <3>1. [snd[p] EXCEPT !.sendHoldPending = FALSE] \in SendState
      <4>1. snd[p] \in SendState
        BY DEF SenderTypeOK
      <4> QED
        BY <4>1 DEF SendState
    <3>2. strayTimers \in [Peers -> Nat]
      BY DEF SenderTypeOK
    <3> QED
      BY <1>8, <2>1, <2>2, <3>1, <3>2, SendNextChunkType DEF HoldExpires, SenderTypeOK
  <2>3. CASE UNCHANGED <<inFlight, snd, strayTimers, poll, txBusy, reports, onAir>>
    BY <1>8, <2>1, <2>3 DEF HoldExpires, SenderTypeOK
  <2> QED
    BY <1>8, <2>2, <2>3 DEF HoldExpires
<1>9. ASSUME NEW armed \in SUBSET Peers, NEW ran \in 0..MaxCallbacks,
             OnTxIdlePollTick(armed, ran)
      PROVE  SenderTypeOK'
  <2>1. \A p \in Peers :
          [snd[p] EXCEPT !.awaitingTxDone = FALSE, !.timer = TRUE] \in SendState
    BY DEF SenderTypeOK, SendState
  <2>2. snd' \in [Peers -> SendState]
    BY <1>9, <2>1 DEF OnTxIdlePollTick, SenderTypeOK
  <2>3. idleCbs' \in Nat
    <3>1. ran \in Nat
      BY SenderAssumption
    <3>2. ran <= idleCbs /\ idleCbs' = idleCbs - ran
      BY <1>9 DEF OnTxIdlePollTick
    <3> QED
      BY <3>1, <3>2 DEF SenderTypeOK
  <2>4. poll' \in BOOLEAN
    BY <1>9 DEF OnTxIdlePollTick, StillAwaiting
  <2> QED
    BY <1>9, <2>2, <2>3, <2>4 DEF OnTxIdlePollTick, SenderTypeOK
<1>10. CASE RunAfterTxIdle
  BY <1>10 DEF RunAfterTxIdle, SenderTypeOK
<1>11. CASE TxPathChanges
  BY <1>11 DEF TxPathChanges, SenderTypeOK
<1>12. ASSUME NEW reason \in Reasons, ReportAll(reason)
       PROVE  reports' \in [Sends -> Seq(Reasons)]
  BY <1>12 DEF ReportAll, SenderTypeOK
<1>13. Blank \in SendState
  BY DEF Blank, SendState
<1>14. CASE HaltAll
  <2>1. "halted" \in Reasons
    BY DEF Reasons
  <2> QED
    BY <1>12, <1>13, <1>14, <2>1 DEF HaltAll, SenderTypeOK
<1>15. CASE Restart
  <2>1. "crashed" \in Reasons
    BY DEF Reasons
  <2>2. reports' \in [Sends -> Seq(Reasons)]
    BY <1>12, <1>15, <2>1 DEF Restart
  <2>3. snd' \in [Peers -> SendState]
    BY <1>13, <1>15 DEF Restart
  <2>4. restarts' \in Nat
    BY <1>15 DEF Restart, SenderTypeOK
  <2>5. nextMsgId' \in MsgIds
    BY <1>15, WireAssumption DEF Restart, RestoredMsgId, MsgIds, MSG_ID_MIN
  <2> QED
    BY <1>15, <2>2, <2>3, <2>4, <2>5 DEF Restart, SenderTypeOK
<1> QED
  BY <1>1, <1>2, <1>3, <1>4, <1>5, <1>6, <1>7, <1>8, <1>9, <1>10, <1>11,
     <1>14, <1>15 DEF Next

LEMMA InitType == Init => SenderTypeOK
<1>1. Blank \in SendState
  BY DEF Blank, SendState
<1>2. MSG_ID_MIN \in MsgIds /\ 0 \in 0..MaxMsgs
  BY SenderAssumption, WireAssumption DEF MsgIds, MSG_ID_MIN
<1>3. [u \in Sends |-> <<>>] \in [Sends -> Seq(Reasons)]
  OBVIOUS
<1>4. Init => /\ inFlight \subseteq Peers
              /\ snd \in [Peers -> SendState]
              /\ holdShots \in [Peers -> Nat]
              /\ strayTimers \in [Peers -> Nat]
              /\ reports \in [Sends -> Seq(Reasons)]
              /\ onAir \in [send : Nat, carries : Nat]
  BY <1>1, <1>3 DEF Init
<1>5. Init => /\ idleCbs \in Nat
              /\ nextMsgId \in MsgIds
              /\ restarts \in Nat
              /\ accepted \in 0..MaxMsgs
  BY <1>2 DEF Init
<1>6. Init => poll \in BOOLEAN /\ txBusy \in BOOLEAN
  BY Zenon DEF Init
<1> QED
  BY <1>4, <1>5, <1>6 DEF SenderTypeOK

-----------------------------------------------------------------------------
(* A dropped send leaves nobody stranded, whatever it was dropped for. *)
LEMMA DropMoving ==
  ASSUME SenderTypeOK, NeverStranded, BlankWithoutSend,
         NEW p \in Peers, NEW s, NEW reason, NEW strays,
         Drop(p, s, reason, strays),
         \A q \in Peers \ {p} : holdShots'[q] = holdShots[q]
  PROVE  NeverStranded' /\ BlankWithoutSend'
<1>1. \A q \in Peers \ {p} : snd'[q] = snd[q]
  BY DEF Drop, SenderTypeOK
<1>2. snd'[p] = Blank /\ inFlight' = inFlight \ {p} /\ poll' = poll
  BY DEF Drop, SenderTypeOK
<1> QED
  BY <1>1, <1>2 DEF NeverStranded, Moving, BlankWithoutSend, SenderTypeOK

(* A chunk handed over is watched by the poll; the peers the step does not *)
(* name keep what they have.                                               *)
LEMMA SendNextChunkMoving ==
  ASSUME SenderTypeOK, NeverStranded, BlankWithoutSend,
         NEW p \in Peers, NEW s \in SendState, NEW strays,
         SendNextChunk(p, s, strays),
         s.sendHoldPending => holdShots'[p] > 0,
         \A q \in Peers \ {p} : holdShots'[q] = holdShots[q]
  PROVE  NeverStranded' /\ BlankWithoutSend'
<1>1. CASE Drop(p, s, "complete", strays)
  BY <1>1, DropMoving
<1>2. CASE Transmit(p, s, strays)
  <2>1. \A q \in Peers \ {p} : snd'[q] = snd[q]
    BY <1>2 DEF Transmit, SenderTypeOK
  <2>2. /\ snd'[p].awaitingTxDone = TRUE
        /\ snd'[p].timer = FALSE
        /\ snd'[p].sendHoldPending = s.sendHoldPending
    BY <1>2 DEF Transmit, SenderTypeOK, SendState
  <2>3. inFlight' = inFlight \cup {p} /\ poll' = TRUE
    BY <1>2 DEF Transmit
  <2> QED
    BY <2>1, <2>2, <2>3 DEF NeverStranded, Moving, BlankWithoutSend, SenderTypeOK
<1> QED
  BY <1>1, <1>2 DEF SendNextChunk

(* So is a send that waits for a hold; a pending hold keeps its one shot. *)
LEMMA ScheduleMoving ==
  ASSUME SenderTypeOK, NeverStranded, BlankWithoutSend,
         NEW p \in inFlight, NEW s \in SendState,
         ScheduleSendNextChunk(p, s),
         s.timer = FALSE,
         s.awaitingTxDone = snd[p].awaitingTxDone,
         s.sendHoldPending = snd[p].sendHoldPending
  PROVE  NeverStranded' /\ BlankWithoutSend'
<1>0. p \in Peers /\ holdShots[p] \in Nat
  BY DEF SenderTypeOK
<1>1. CASE SendNextChunk(p, s, strayTimers) /\ UNCHANGED holdShots
  BY <1>0, <1>1, SendNextChunkMoving DEF NeverStranded, Moving
<1>2. CASE /\ snd' = [snd EXCEPT ![p] = [s EXCEPT !.sendHoldPending = TRUE]]
           /\ holdShots' = [holdShots EXCEPT ![p] =
                              IF s.sendHoldPending THEN @ ELSE @ + 1]
           /\ UNCHANGED <<inFlight, strayTimers, poll, txBusy, reports, onAir>>
  <2>1. \A q \in Peers \ {p} : snd'[q] = snd[q] /\ holdShots'[q] = holdShots[q]
    BY <1>2 DEF SenderTypeOK
  <2>2. /\ snd'[p].awaitingTxDone = snd[p].awaitingTxDone
        /\ snd'[p].timer = FALSE
        /\ snd'[p].sendHoldPending = TRUE
    BY <1>0, <1>2 DEF SenderTypeOK, SendState
  <2>3. holdShots'[p] > 0
    BY <1>0, <1>2 DEF NeverStranded, Moving, SenderTypeOK
  <2> QED
    BY <1>0, <1>2, <2>1, <2>2, <2>3
       DEF NeverStranded, Moving, BlankWithoutSend, SenderTypeOK
<1> QED
  BY <1>1, <1>2 DEF ScheduleSendNextChunk

LEMMA AckMoving ==
  ASSUME SenderTypeOK, NeverStranded, BlankWithoutSend,
         NEW p \in Peers, NEW seq, OnAckReceived(p, seq)
  PROVE  NeverStranded' /\ BlankWithoutSend'
<1>1. CASE UNCHANGED vars
  BY <1>1 DEF NeverStranded, Moving, BlankWithoutSend, vars
<1>2. CASE p \in inFlight /\ ScheduleSendNextChunk(p, Acknowledged(snd[p]))
  <2>1. snd[p] \in SendState
    BY DEF SenderTypeOK
  <2>2. Acknowledged(snd[p]) \in SendState
    BY <2>1, AcknowledgedType
  <2>3. /\ Acknowledged(snd[p]).timer = FALSE
        /\ Acknowledged(snd[p]).awaitingTxDone = snd[p].awaitingTxDone
        /\ Acknowledged(snd[p]).sendHoldPending = snd[p].sendHoldPending
    BY <2>1 DEF Acknowledged, SendState
  <2> QED
    BY <1>2, <2>2, <2>3, ScheduleMoving
<1> QED
  BY <1>1, <1>2 DEF OnAckReceived

LEMMA AckTimeoutMoving ==
  ASSUME SenderTypeOK, NeverStranded, BlankWithoutSend,
         NEW p \in inFlight, NEW s \in SendState, NEW strays,
         AckTimeout(p, s, strays),
         s.sendHoldPending = snd[p].sendHoldPending
  PROVE  NeverStranded' /\ BlankWithoutSend'
<1>0. p \in Peers /\ UNCHANGED holdShots
  BY DEF SenderTypeOK, AckTimeout
<1>1. CASE Drop(p, s, "timeout_exhausted", strays)
  BY <1>0, <1>1, DropMoving
<1>2. CASE SendNextChunk(p, [s EXCEPT !.retries = @ + 1], strays)
  <2> DEFINE t == [s EXCEPT !.retries = @ + 1]
  <2>1. s.retries + 1 \in Nat
    BY DEF SendState
  <2>2. t \in SendState /\ t.sendHoldPending = s.sendHoldPending
    BY <2>1 DEF SendState
  <2>3. t.sendHoldPending => holdShots'[p] > 0
    BY <1>0, <2>2 DEF NeverStranded, Moving
  <2> HIDE DEF t
  <2> QED
    BY <1>0, <1>2, <2>2, <2>3, SendNextChunkMoving DEF t
<1> QED
  BY <1>1, <1>2 DEF AckTimeout

(* No step strands a send. *)
LEMMA MovingStep ==
  ASSUME SenderTypeOK, NeverStranded, BlankWithoutSend, [Next]_vars
  PROVE  NeverStranded' /\ BlankWithoutSend'
<1>1. CASE UNCHANGED vars
  BY <1>1 DEF NeverStranded, Moving, BlankWithoutSend, vars
<1>2. ASSUME NEW p \in Peers, NEW n \in 1..MAX_CHUNKS, NEW binary \in BOOLEAN,
             SendChunked(p, n, binary)
      PROVE  NeverStranded' /\ BlankWithoutSend'
  <2> DEFINE s == Started(p, n, binary)
  <2>1. n \in Nat /\ snd[p] \in SendState
    BY SenderAssumption DEF SenderTypeOK
  <2>2. s \in SendState
    BY <2>1, StartedType
  <2>3. s.sendHoldPending = snd[p].sendHoldPending
    BY <2>1 DEF Started, SendState
  <2>4. snd[p].sendHoldPending => holdShots[p] > 0
    BY DEF NeverStranded, Moving, BlankWithoutSend, Blank
  <2>5. SendNextChunk(p, s, strayTimers) /\ UNCHANGED holdShots
    BY <1>2 DEF SendChunked
  <2> HIDE DEF s
  <2> QED
    BY <2>2, <2>3, <2>4, <2>5, SendNextChunkMoving
<1>3. ASSUME NEW p \in Peers, NEW n, SendRefused(p, n)
      PROVE  NeverStranded' /\ BlankWithoutSend'
  BY <1>3 DEF SendRefused, NeverStranded, Moving, BlankWithoutSend, vars
<1>4. ASSUME NEW p \in Peers, NEW seq \in WireSeqs, OnAckReceived(p, seq)
      PROVE  NeverStranded' /\ BlankWithoutSend'
  BY <1>4, AckMoving
<1>5. ASSUME NEW p \in Peers, NEW seq \in WireSeqs, OnNackReceived(p, seq)
      PROVE  NeverStranded' /\ BlankWithoutSend'
  <2>1. CASE UNCHANGED vars
    BY <2>1 DEF NeverStranded, Moving, BlankWithoutSend, vars
  <2>2. CASE OnAckReceived(p, AckWireSeq(snd[p].nextIdx + 1))
    BY <2>2, AckMoving
  <2>3. CASE /\ Drop(p, [snd[p] EXCEPT !.timer = FALSE], "nack_exhausted", strayTimers)
             /\ UNCHANGED holdShots
    BY <2>3, DropMoving
  <2>4. CASE /\ p \in inFlight
             /\ ScheduleSendNextChunk(p, [snd[p] EXCEPT !.timer = FALSE,
                                                        !.retries = @ + 1])
    <3> DEFINE s == [snd[p] EXCEPT !.timer = FALSE, !.retries = @ + 1]
    <3>1. snd[p] \in SendState /\ snd[p].retries + 1 \in Nat
      BY DEF SenderTypeOK, SendState
    <3>2. /\ s \in SendState
          /\ s.timer = FALSE
          /\ s.awaitingTxDone = snd[p].awaitingTxDone
          /\ s.sendHoldPending = snd[p].sendHoldPending
      BY <3>1 DEF SendState
    <3> HIDE DEF s
    <3> QED
      BY <2>4, <3>2, ScheduleMoving DEF s
  <2> QED
    BY <1>5, <2>1, <2>2, <2>3, <2>4 DEF OnNackReceived
<1>6. ASSUME NEW p \in Peers, OnAckTimerExpired(p)
      PROVE  NeverStranded' /\ BlankWithoutSend'
  <2>1. snd[p] \in SendState
    BY DEF SenderTypeOK
  <2>2. /\ [snd[p] EXCEPT !.timer = FALSE] \in SendState
        /\ [snd[p] EXCEPT !.timer = FALSE].sendHoldPending = snd[p].sendHoldPending
    BY <2>1 DEF SendState
  <2> QED
    BY <1>6, <2>2, AckTimeoutMoving DEF OnAckTimerExpired
<1>7. ASSUME NEW p \in Peers, OnStrayTimerExpired(p)
      PROVE  NeverStranded' /\ BlankWithoutSend'
  <2>1. CASE UNCHANGED <<inFlight, snd, holdShots, poll>>
    BY <2>1 DEF NeverStranded, Moving, BlankWithoutSend
  <2>2. CASE /\ p \in inFlight
             /\ AckTimeout(p, snd[p], [strayTimers EXCEPT ![p] = @ - 1])
    <3>1. snd[p] \in SendState
      BY DEF SenderTypeOK
    <3> QED
      BY <2>2, <3>1, AckTimeoutMoving
  <2> QED
    BY <1>7, <2>1, <2>2 DEF OnStrayTimerExpired
<1>8. ASSUME NEW p \in Peers, HoldExpires(p)
      PROVE  NeverStranded' /\ BlankWithoutSend'
  <2>1. \A q \in Peers \ {p} : holdShots'[q] = holdShots[q]
    BY <1>8 DEF HoldExpires, SenderTypeOK
  <2>2. CASE /\ p \in inFlight
             /\ SendNextChunk(p, [snd[p] EXCEPT !.sendHoldPending = FALSE], strayTimers)
    <3> DEFINE s == [snd[p] EXCEPT !.sendHoldPending = FALSE]
    <3>1. snd[p] \in SendState
      BY DEF SenderTypeOK
    <3>2. s \in SendState /\ s.sendHoldPending = FALSE
      BY <3>1 DEF SendState
    <3> HIDE DEF s
    <3> QED
      BY <2>1, <2>2, <3>2, SendNextChunkMoving DEF s
  <2>3. CASE p \notin inFlight /\ UNCHANGED <<inFlight, snd, poll>>
    BY <2>1, <2>3 DEF NeverStranded, Moving, BlankWithoutSend, SenderTypeOK
  <2> QED
    BY <1>8, <2>2, <2>3 DEF HoldExpires
<1>9. ASSUME NEW armed \in SUBSET Peers, NEW ran \in 0..MaxCallbacks,
             OnTxIdlePollTick(armed, ran)
      PROVE  NeverStranded' /\ BlankWithoutSend'
  <2>1. /\ armed \subseteq Awaiting
        /\ UNCHANGED <<inFlight, holdShots>>
        /\ poll' = (armed # Awaiting \/ ran < idleCbs)
    BY <1>9 DEF OnTxIdlePollTick, StillAwaiting
  <2>2. \A p \in Peers \ armed : snd'[p] = snd[p]
    BY <1>9 DEF OnTxIdlePollTick
  <2>3. \A p \in armed : /\ snd'[p].awaitingTxDone = FALSE
                         /\ snd'[p].timer = TRUE
                         /\ snd'[p].sendHoldPending = snd[p].sendHoldPending
    BY <1>9 DEF OnTxIdlePollTick, SenderTypeOK, SendState
  <2>4. ASSUME NEW p \in inFlight PROVE Moving(p)'
    <3>1. CASE p \in armed
      BY <2>1, <2>3, <3>1 DEF NeverStranded, Moving, Awaiting
    <3>2. CASE p \notin armed
      <4>1. snd[p].awaitingTxDone => poll'
        BY <2>1, <3>2 DEF Awaiting
      <4> QED
        BY <2>1, <2>2, <3>2, <4>1 DEF NeverStranded, Moving, SenderTypeOK
    <3> QED
      BY <3>1, <3>2
  <2> QED
    BY <2>1, <2>2, <2>4 DEF NeverStranded, BlankWithoutSend, Awaiting
<1>10. CASE RunAfterTxIdle
  BY <1>10 DEF RunAfterTxIdle, NeverStranded, Moving, BlankWithoutSend
<1>11. CASE TxPathChanges
  BY <1>11 DEF TxPathChanges, NeverStranded, Moving, BlankWithoutSend
<1>12. CASE HaltAll
  BY <1>12 DEF HaltAll, NeverStranded, BlankWithoutSend
<1>13. CASE Restart
  BY <1>13 DEF Restart, NeverStranded, BlankWithoutSend
<1> QED
  BY <1>1, <1>2, <1>3, <1>4, <1>5, <1>6, <1>7, <1>8, <1>9, <1>10, <1>11,
     <1>12, <1>13 DEF Next

-----------------------------------------------------------------------------
(* The retry counter of p stays backed by transmissions. *)
LEMMA DropRetries ==
  ASSUME SenderTypeOK, RetriesAired, NEW p \in Peers, NEW s, NEW reason, NEW strays,
         Drop(p, s, reason, strays)
  PROVE  RetriesAired'
<1>1. /\ inFlight' = inFlight \ {p}
      /\ \A q \in Peers \ {p} : snd'[q] = snd[q]
  BY DEF Drop, SenderTypeOK
<1> QED
  BY <1>1 DEF RetriesAired, SenderTypeOK

LEMMA SendNextChunkRetries ==
  ASSUME SenderTypeOK, RetriesAired,
         NEW p \in Peers, NEW s \in SendState, NEW strays,
         SendNextChunk(p, s, strays),
         s.retries <= DEFAULT_MAX_RETRIES,
         ~s.isBinary => s.retries <= s.airings
  PROVE  RetriesAired'
<1>1. CASE Drop(p, s, "complete", strays)
  BY <1>1, DropRetries
<1>2. CASE Transmit(p, s, strays)
  <2>1. /\ inFlight' = inFlight \cup {p}
        /\ \A q \in Peers \ {p} : snd'[q] = snd[q]
    BY <1>2 DEF Transmit, SenderTypeOK
  <2>2. /\ snd'[p].retries = s.retries
        /\ snd'[p].isBinary = s.isBinary
        /\ snd'[p].airings = s.airings + 1
    BY <1>2 DEF Transmit, SenderTypeOK, SendState
  <2>3. s.retries \in Nat /\ s.airings \in Nat
    BY DEF SendState
  <2> QED
    BY <2>1, <2>2, <2>3 DEF RetriesAired, SenderTypeOK
<1> QED
  BY <1>1, <1>2 DEF SendNextChunk

LEMMA ScheduleRetries ==
  ASSUME SenderTypeOK, RetriesAired,
         NEW p \in Peers, NEW s \in SendState, ScheduleSendNextChunk(p, s),
         s.retries <= DEFAULT_MAX_RETRIES,
         ~s.isBinary => s.retries <= s.airings
  PROVE  RetriesAired'
<1>1. CASE SendNextChunk(p, s, strayTimers)
  BY <1>1, SendNextChunkRetries
<1>2. CASE /\ s.isBinary
           /\ snd' = [snd EXCEPT ![p] = [s EXCEPT !.sendHoldPending = TRUE]]
           /\ UNCHANGED inFlight
  <2>1. \A q \in Peers \ {p} : snd'[q] = snd[q]
    BY <1>2 DEF SenderTypeOK
  <2>2. snd'[p].retries = s.retries /\ snd'[p].isBinary
    BY <1>2 DEF SenderTypeOK, SendState
  <2> QED
    BY <1>2, <2>1, <2>2 DEF RetriesAired, SenderTypeOK
<1> QED
  BY <1>1, <1>2 DEF ScheduleSendNextChunk

LEMMA AckRetries ==
  ASSUME SenderTypeOK, RetriesAired,
         NEW p \in Peers, NEW seq, OnAckReceived(p, seq)
  PROVE  RetriesAired'
<1>1. CASE UNCHANGED vars
  BY <1>1 DEF RetriesAired, vars
<1>2. CASE ScheduleSendNextChunk(p, Acknowledged(snd[p]))
  <2>1. snd[p] \in SendState
    BY DEF SenderTypeOK
  <2>2. Acknowledged(snd[p]) \in SendState
    BY <2>1, AcknowledgedType
  <2>3. Acknowledged(snd[p]).retries = 0 /\ Acknowledged(snd[p]).airings = 0
    BY <2>1 DEF Acknowledged, SendState
  <2>4. 0 <= DEFAULT_MAX_RETRIES /\ 0 <= 0
    BY SenderAssumption
  <2> QED
    BY <1>2, <2>2, <2>3, <2>4, ScheduleRetries
<1> QED
  BY <1>1, <1>2 DEF OnAckReceived

LEMMA AckTimeoutRetries ==
  ASSUME SenderTypeOK, RetriesAired,
         NEW p \in inFlight, NEW s \in SendState, NEW strays,
         AckTimeout(p, s, strays),
         s.retries = snd[p].retries, s.airings = snd[p].airings,
         s.isBinary = snd[p].isBinary
  PROVE  RetriesAired'
<1>0. p \in Peers
  BY DEF SenderTypeOK
<1>1. CASE Drop(p, s, "timeout_exhausted", strays)
  BY <1>0, <1>1, DropRetries
<1>2. CASE /\ s.retries < DEFAULT_MAX_RETRIES
           /\ SendNextChunk(p, [s EXCEPT !.retries = @ + 1], strays)
  <2> DEFINE t == [s EXCEPT !.retries = @ + 1]
  <2>1. s.retries \in Nat /\ s.airings \in Nat /\ s.retries + 1 \in Nat
    BY DEF SendState
  <2>2. /\ t \in SendState
        /\ t.retries = s.retries + 1
        /\ t.airings = s.airings
        /\ t.isBinary = s.isBinary
    BY <2>1 DEF SendState
  <2>3. t.retries <= DEFAULT_MAX_RETRIES
    BY <1>2, <2>1, <2>2, SenderAssumption
  <2>4. ~t.isBinary => t.retries <= t.airings
    BY <2>1, <2>2 DEF RetriesAired
  <2> HIDE DEF t
  <2> QED
    BY <1>0, <1>2, <2>2, <2>3, <2>4, SendNextChunkRetries DEF t
<1> QED
  BY <1>1, <1>2 DEF AckTimeout

LEMMA RetriesStep ==
  ASSUME SenderTypeOK, RetriesAired, [Next]_vars
  PROVE  RetriesAired'
<1>1. CASE UNCHANGED vars
  BY <1>1 DEF RetriesAired, vars
<1>2. ASSUME NEW p \in Peers, NEW n \in 1..MAX_CHUNKS, NEW binary \in BOOLEAN,
             SendChunked(p, n, binary)
      PROVE  RetriesAired'
  <2> DEFINE s == Started(p, n, binary)
  <2>1. n \in Nat /\ snd[p] \in SendState
    BY SenderAssumption DEF SenderTypeOK
  <2>2. s \in SendState
    BY <2>1, StartedType
  <2>3. s.retries = 0 /\ s.airings = 0
    BY <2>1 DEF Started, SendState
  <2>4. SendNextChunk(p, s, strayTimers)
    BY <1>2 DEF SendChunked
  <2>5. 0 <= DEFAULT_MAX_RETRIES /\ 0 <= 0
    BY SenderAssumption
  <2> HIDE DEF s
  <2> QED
    BY <2>2, <2>3, <2>4, <2>5, SendNextChunkRetries
<1>3. ASSUME NEW p \in Peers, NEW n, SendRefused(p, n) PROVE RetriesAired'
  BY <1>3 DEF SendRefused, RetriesAired, vars
<1>4. ASSUME NEW p \in Peers, NEW seq \in WireSeqs, OnAckReceived(p, seq)
      PROVE  RetriesAired'
  BY <1>4, AckRetries
<1>5. ASSUME NEW p \in Peers, NEW seq \in WireSeqs, OnNackReceived(p, seq)
      PROVE  RetriesAired'
  <2>1. CASE UNCHANGED vars
    BY <2>1 DEF RetriesAired, vars
  <2>2. CASE OnAckReceived(p, AckWireSeq(snd[p].nextIdx + 1))
    BY <2>2, AckRetries
  <2>3. CASE Drop(p, [snd[p] EXCEPT !.timer = FALSE], "nack_exhausted", strayTimers)
    BY <2>3, DropRetries
  <2>4. CASE /\ p \in inFlight
             /\ snd[p].retries < DEFAULT_MAX_RETRIES
             /\ ScheduleSendNextChunk(p, [snd[p] EXCEPT !.timer = FALSE,
                                                        !.retries = @ + 1])
    <3> DEFINE s == [snd[p] EXCEPT !.timer = FALSE, !.retries = @ + 1]
    <3>1. /\ snd[p] \in SendState
          /\ snd[p].retries \in Nat /\ snd[p].retries + 1 \in Nat
          /\ snd[p].airings \in Nat
      BY DEF SenderTypeOK, SendState
    <3>2. /\ s \in SendState
          /\ s.retries = snd[p].retries + 1
          /\ s.airings = snd[p].airings
          /\ s.isBinary = snd[p].isBinary
      BY <3>1 DEF SendState
    <3>3. s.retries <= DEFAULT_MAX_RETRIES
      BY <2>4, <3>1, <3>2, SenderAssumption
    <3>4. ~s.isBinary => s.retries <= s.airings
      BY <2>4, <3>1, <3>2 DEF RetriesAired
    <3> HIDE DEF s
    <3> QED
      BY <2>4, <3>2, <3>3, <3>4, ScheduleRetries DEF s
  <2> QED
    BY <1>5, <2>1, <2>2, <2>3, <2>4 DEF OnNackReceived
<1>6. ASSUME NEW p \in Peers, OnAckTimerExpired(p) PROVE RetriesAired'
  <2> DEFINE s == [snd[p] EXCEPT !.timer = FALSE]
  <2>1. snd[p] \in SendState
    BY DEF SenderTypeOK
  <2>2. /\ s \in SendState
        /\ s.retries = snd[p].retries
        /\ s.airings = snd[p].airings
        /\ s.isBinary = snd[p].isBinary
    BY <2>1 DEF SendState
  <2>3. p \in inFlight /\ AckTimeout(p, s, strayTimers)
    BY <1>6 DEF OnAckTimerExpired
  <2> HIDE DEF s
  <2> QED
    BY <2>2, <2>3, AckTimeoutRetries
<1>7. ASSUME NEW p \in Peers, OnStrayTimerExpired(p) PROVE RetriesAired'
  <2>1. CASE UNCHANGED <<inFlight, snd>>
    BY <2>1 DEF RetriesAired
  <2>2. CASE /\ p \in inFlight
             /\ AckTimeout(p, snd[p], [strayTimers EXCEPT ![p] = @ - 1])
    <3>1. snd[p] \in SendState
      BY DEF SenderTypeOK
    <3> QED
      BY <2>2, <3>1, AckTimeoutRetries
  <2> QED
    BY <1>7, <2>1, <2>2 DEF OnStrayTimerExpired
<1>8. ASSUME NEW p \in Peers, HoldExpires(p) PROVE RetriesAired'
  <2>1. CASE UNCHANGED <<inFlight, snd>>
    BY <2>1 DEF RetriesAired
  <2>2. CASE /\ p \in inFlight
             /\ SendNextChunk(p, [snd[p] EXCEPT !.sendHoldPending = FALSE], strayTimers)
    <3> DEFINE s == [snd[p] EXCEPT !.sendHoldPending = FALSE]
    <3>1. /\ snd[p] \in SendState
          /\ snd[p].retries \in Nat
          /\ snd[p].airings \in Nat
      BY DEF SenderTypeOK, SendState
    <3>2. /\ s \in SendState
          /\ s.retries = snd[p].retries
          /\ s.airings = snd[p].airings
          /\ s.isBinary = snd[p].isBinary
      BY <3>1 DEF SendState
    <3>3. /\ s.retries <= DEFAULT_MAX_RETRIES
          /\ ~s.isBinary => s.retries <= s.airings
      BY <2>2, <3>1, <3>2 DEF RetriesAired
    <3> HIDE DEF s
    <3> QED
      BY <2>2, <3>2, <3>3, SendNextChunkRetries DEF s
  <2> QED
    BY <1>8, <2>1, <2>2 DEF HoldExpires
<1>9. ASSUME NEW armed \in SUBSET Peers, NEW ran \in 0..MaxCallbacks,
             OnTxIdlePollTick(armed, ran)
      PROVE  RetriesAired'
  <2>1. \A p \in Peers : /\ snd'[p].retries = snd[p].retries
                         /\ snd'[p].airings = snd[p].airings
                         /\ snd'[p].isBinary = snd[p].isBinary
    BY <1>9 DEF OnTxIdlePollTick, SenderTypeOK, SendState
  <2> QED
    BY <1>9, <2>1 DEF OnTxIdlePollTick, RetriesAired, SenderTypeOK
<1>10. CASE RunAfterTxIdle
  BY <1>10 DEF RunAfterTxIdle, RetriesAired
<1>11. CASE TxPathChanges
  BY <1>11 DEF TxPathChanges, RetriesAired
<1>12. CASE HaltAll
  BY <1>12 DEF HaltAll, RetriesAired
<1>13. CASE Restart
  BY <1>13 DEF Restart, RetriesAired
<1> QED
  BY <1>1, <1>2, <1>3, <1>4, <1>5, <1>6, <1>7, <1>8, <1>9, <1>10, <1>11,
     <1>12, <1>13 DEF Next

-----------------------------------------------------------------------------
(* The four facts that need the caller to wait for the send before.        *)
OwnInv == OwnBytes /\ OwnPayload /\ DistinctSends /\ OneReportPerSend

(* s and t are states of the same send. *)
SameSend(s, t) ==
  /\ s.uid = t.uid
  /\ s.total = t.total
  /\ s.isBinary = t.isBinary
  /\ s.bytesOf = t.bytesOf
  /\ s.bytesLen = t.bytesLen

(* A step that ends no send and puts nothing on the air. *)
LEMMA OwnKept ==
  ASSUME SenderTypeOK, OwnInv,
         UNCHANGED <<inFlight, accepted, reports, onAir>>,
         \A q \in inFlight : SameSend(snd'[q], snd[q])
  PROVE  OwnInv'
<1>1. OwnBytes'
  BY DEF OwnInv, OwnBytes, SameSend
<1>2. OwnPayload'
  BY DEF OwnInv, OwnPayload
<1>3. DistinctSends'
  BY DEF OwnInv, DistinctSends, SameSend
<1>4. \A u \in Sends : Live(u)' <=> Live(u)
  BY DEF Live, SameSend
<1>5. OneReportPerSend'
  BY <1>4 DEF OwnInv, OneReportPerSend
<1> QED
  BY <1>1, <1>2, <1>3, <1>5 DEF OwnInv

(* The terminal report of a live send is its first. *)
LEMMA DropOwn ==
  ASSUME SenderTypeOK, OwnInv, NEW p \in inFlight, NEW s \in SendState,
         NEW reason \in Reasons, NEW strays,
         Drop(p, s, reason, strays), s.uid = snd[p].uid, accepted' = accepted
  PROVE  OwnInv'
<1>1. /\ inFlight' = inFlight \ {p}
      /\ \A q \in inFlight' : snd'[q] = snd[q]
      /\ onAir' = onAir
  BY DEF Drop, SenderTypeOK
<1>2. OwnBytes' /\ OwnPayload' /\ DistinctSends'
  BY <1>1 DEF OwnInv, OwnBytes, OwnPayload, DistinctSends
<1>3. OneReportPerSend'
  <2> SUFFICES ASSUME NEW u \in Sends
               PROVE  Len(reports'[u]) = (IF u <= accepted /\ ~Live(u)' THEN 1 ELSE 0)
    BY DEF OneReportPerSend
  <2>1. CASE u = s.uid
    <3>1. Live(u) /\ u <= accepted
      BY <2>1 DEF Live, OwnInv, DistinctSends
    <3>2. ~Live(u)'
      BY <1>1, <2>1 DEF Live, OwnInv, DistinctSends
    <3>3. reports'[u] = Append(reports[u], reason)
      BY <2>1 DEF Drop, SenderTypeOK
    <3>4. Len(reports[u]) = 0 /\ reports[u] \in Seq(Reasons)
      BY <3>1 DEF OwnInv, OneReportPerSend, SenderTypeOK
    <3>5. Len(reports'[u]) = 1
      BY <3>3, <3>4
    <3> QED
      BY <3>1, <3>2, <3>5
  <2>2. CASE u # s.uid
    <3>1. Live(u)' <=> Live(u)
      BY <1>1, <2>2 DEF Live
    <3>2. reports'[u] = reports[u]
      BY <2>2 DEF Drop, SenderTypeOK
    <3> QED
      BY <3>1, <3>2 DEF OwnInv, OneReportPerSend
  <2> QED
    BY <2>1, <2>2
<1> QED
  BY <1>2, <1>3 DEF OwnInv

(* What is transmitted belongs to the send it is transmitted for. *)
LEMMA TransmitPayload ==
  ASSUME NEW p, NEW s \in SendState, NEW strays, Transmit(p, s, strays),
         s.nextIdx < s.total,
         s.isBinary => s.bytesOf = s.uid /\ s.bytesLen = s.total
  PROVE  OwnPayload'
<1>1. Payload(s) = s.uid
  BY DEF Payload, SendState
<1> QED
  BY <1>1 DEF Transmit, OwnPayload

LEMMA SendNextChunkOwn ==
  ASSUME SenderTypeOK, OwnInv, NEW p \in inFlight, NEW s \in SendState, NEW strays,
         SendNextChunk(p, s, strays), SameSend(s, snd[p]), accepted' = accepted
  PROVE  OwnInv'
<1>1. CASE Drop(p, s, "complete", strays)
  <2>1. "complete" \in Reasons
    BY DEF Reasons
  <2> QED
    BY <1>1, <2>1, DropOwn DEF SameSend
<1>2. CASE s.nextIdx < s.total /\ Transmit(p, s, strays)
  <2>1. OwnPayload'
    BY <1>2, TransmitPayload DEF OwnInv, OwnBytes, SameSend
  <2>2. SameSend(snd'[p], s)
    BY <1>2 DEF Transmit, SenderTypeOK, SendState, SameSend
  <2>3. \A q \in inFlight : SameSend(snd'[q], snd[q])
    BY <1>2, <2>2 DEF Transmit, SenderTypeOK, SameSend
  <2>4. UNCHANGED <<inFlight, accepted, reports>>
    BY <1>2 DEF Transmit
  <2>5. OwnBytes' /\ DistinctSends'
    BY <2>3, <2>4 DEF OwnInv, OwnBytes, DistinctSends, SameSend
  <2>6. \A u \in Sends : Live(u)' <=> Live(u)
    BY <2>3, <2>4 DEF Live, SameSend
  <2>7. OneReportPerSend'
    BY <2>4, <2>6 DEF OwnInv, OneReportPerSend
  <2> QED
    BY <2>1, <2>5, <2>7 DEF OwnInv
<1> QED
  BY <1>1, <1>2 DEF SendNextChunk

LEMMA ScheduleOwn ==
  ASSUME SenderTypeOK, OwnInv, NEW p \in inFlight, NEW s \in SendState,
         ScheduleSendNextChunk(p, s), SameSend(s, snd[p]), accepted' = accepted
  PROVE  OwnInv'
<1>1. CASE SendNextChunk(p, s, strayTimers)
  BY <1>1, SendNextChunkOwn
<1>2. CASE /\ snd' = [snd EXCEPT ![p] = [s EXCEPT !.sendHoldPending = TRUE]]
           /\ UNCHANGED <<inFlight, reports, onAir>>
  <2>1. SameSend(snd'[p], s)
    BY <1>2 DEF SenderTypeOK, SendState, SameSend
  <2>2. \A q \in inFlight : SameSend(snd'[q], snd[q])
    BY <1>2, <2>1 DEF SenderTypeOK, SameSend
  <2> QED
    BY <1>2, <2>2, OwnKept
<1> QED
  BY <1>1, <1>2 DEF ScheduleSendNextChunk

LEMMA AckOwn ==
  ASSUME SenderTypeOK, OwnInv, NEW p \in Peers, NEW seq, OnAckReceived(p, seq)
  PROVE  OwnInv'
<1>1. CASE UNCHANGED vars
  BY <1>1, OwnKept DEF vars, SameSend
<1>2. CASE /\ p \in inFlight
           /\ ScheduleSendNextChunk(p, Acknowledged(snd[p]))
           /\ accepted' = accepted
  <2>1. snd[p] \in SendState
    BY DEF SenderTypeOK
  <2>2. Acknowledged(snd[p]) \in SendState
    BY <2>1, AcknowledgedType
  <2>3. SameSend(Acknowledged(snd[p]), snd[p])
    BY <2>1 DEF Acknowledged, SendState, SameSend
  <2> QED
    BY <1>2, <2>2, <2>3, ScheduleOwn
<1> QED
  BY <1>1, <1>2 DEF OnAckReceived

LEMMA AckTimeoutOwn ==
  ASSUME SenderTypeOK, OwnInv, NEW p \in inFlight, NEW s \in SendState, NEW strays,
         AckTimeout(p, s, strays), SameSend(s, snd[p])
  PROVE  OwnInv'
<1>0. accepted' = accepted
  BY DEF AckTimeout
<1>1. CASE Drop(p, s, "timeout_exhausted", strays)
  <2>1. "timeout_exhausted" \in Reasons
    BY DEF Reasons
  <2> QED
    BY <1>0, <1>1, <2>1, DropOwn DEF SameSend
<1>2. CASE SendNextChunk(p, [s EXCEPT !.retries = @ + 1], strays)
  <2> DEFINE t == [s EXCEPT !.retries = @ + 1]
  <2>1. s.retries + 1 \in Nat
    BY DEF SendState
  <2>2. t \in SendState /\ SameSend(t, snd[p])
    BY <2>1 DEF SendState, SameSend
  <2> HIDE DEF t
  <2> QED
    BY <1>0, <1>2, <2>2, SendNextChunkOwn DEF t
<1> QED
  BY <1>1, <1>2 DEF AckTimeout

(* A new send to a peer that has none. *)
LEMMA StartOwn ==
  ASSUME SenderTypeOK, OwnInv, BlankWithoutSend, ClientWaits,
         NEW p \in Peers, NEW n \in 1..MAX_CHUNKS, NEW binary \in BOOLEAN,
         SendChunked(p, n, binary)
  PROVE  OwnInv'
<1> DEFINE u == accepted + 1
           s == Started(p, n, binary)
<1>1. /\ p \notin inFlight
      /\ accepted' = u
      /\ accepted \in Nat /\ u \in Sends
      /\ n \in Nat /\ n > 0
  BY SenderAssumption DEF SendChunked, SenderTypeOK, Sends
<1>2. s \in SendState
  BY <1>1, StartedType
<1>3. snd[p] = Blank /\ snd[p] \in SendState
  BY <1>1 DEF BlankWithoutSend, SenderTypeOK
<1>4. s.uid = u /\ s.total = n /\ s.nextIdx = 0
  BY <1>3 DEF Started, SendState
<1>5. s.isBinary => s.bytesOf = u /\ s.bytesLen = n
  BY <1>3 DEF Started, SendState, Blank
<1>6. Transmit(p, s, strayTimers)
  BY <1>1, <1>4 DEF SendChunked, SendNextChunk
<1> HIDE DEF s
<1>7. OwnPayload'
  BY <1>1, <1>2, <1>4, <1>5, <1>6, TransmitPayload
<1>8. /\ inFlight' = inFlight \cup {p}
      /\ \A q \in inFlight : snd'[q] = snd[q]
      /\ reports' = reports
  BY <1>1, <1>6 DEF Transmit, SenderTypeOK
<1>9. SameSend(snd'[p], s)
  BY <1>2, <1>6 DEF Transmit, SenderTypeOK, SendState, SameSend
<1>10. OwnBytes'
  BY <1>4, <1>5, <1>8, <1>9 DEF OwnInv, OwnBytes, SameSend
<1>11. DistinctSends'
  <2>1. \A q \in inFlight : snd'[q].uid \in 1..accepted
    BY <1>8 DEF OwnInv, DistinctSends
  <2>2. snd'[p].uid = u
    BY <1>4, <1>9 DEF SameSend
  <2>3. \A q \in inFlight' : snd'[q].uid \in 1..accepted'
    BY <1>1, <1>8, <2>1, <2>2
  <2>4. \A q \in inFlight : snd'[q].uid # u
    BY <1>1, <2>1
  <2> QED
    BY <1>8, <2>2, <2>3, <2>4 DEF OwnInv, DistinctSends
<1>12. OneReportPerSend'
  <2> SUFFICES ASSUME NEW v \in Sends
               PROVE  Len(reports'[v]) = (IF v <= accepted' /\ ~Live(v)' THEN 1 ELSE 0)
    BY DEF OneReportPerSend
  <2>1. Live(v)' <=> (Live(v) \/ v = u)
    BY <1>4, <1>8, <1>9 DEF Live, SameSend
  <2>2. v \in Nat /\ (v <= u <=> v <= accepted \/ v = u)
    BY <1>1 DEF Sends
  <2>3. ~(u <= accepted)
    BY <1>1
  <2> QED
    BY <1>1, <1>8, <2>1, <2>2, <2>3 DEF OwnInv, OneReportPerSend
<1> QED
  BY <1>7, <1>10, <1>11, <1>12 DEF OwnInv

(* Halt and restart report every live send, and no other. *)
LEMMA ReportAllOwn ==
  ASSUME SenderTypeOK, OwnInv, NEW reason \in Reasons, ReportAll(reason),
         inFlight' = {}, UNCHANGED <<accepted, onAir>>
  PROVE  OwnInv'
<1>1. OwnBytes' /\ OwnPayload' /\ DistinctSends'
  BY DEF OwnInv, OwnBytes, OwnPayload, DistinctSends
<1>2. OneReportPerSend'
  <2> SUFFICES ASSUME NEW u \in Sends
               PROVE  Len(reports'[u]) = (IF u <= accepted /\ ~Live(u)' THEN 1 ELSE 0)
    BY DEF OneReportPerSend
  <2>1. ~Live(u)'
    BY DEF Live
  <2>2. CASE Live(u)
    <3>1. u <= accepted
      BY <2>2 DEF Live, OwnInv, DistinctSends
    <3>2. reports'[u] = Append(reports[u], reason)
      BY <2>2 DEF ReportAll, Live
    <3>3. Len(reports[u]) = 0 /\ reports[u] \in Seq(Reasons)
      BY <2>2 DEF OwnInv, OneReportPerSend, SenderTypeOK
    <3>4. Len(reports'[u]) = 1
      BY <3>2, <3>3
    <3> QED
      BY <2>1, <3>1, <3>4
  <2>3. CASE ~Live(u)
    <3>1. reports'[u] = reports[u]
      BY <2>3 DEF ReportAll, Live
    <3> QED
      BY <2>1, <2>3, <3>1 DEF OwnInv, OneReportPerSend
  <2> QED
    BY <2>2, <2>3
<1> QED
  BY <1>1, <1>2 DEF OwnInv

LEMMA OwnStep ==
  ASSUME SenderTypeOK, OwnInv, BlankWithoutSend, ClientWaits, [Next]_vars
  PROVE  OwnInv'
<1>1. CASE UNCHANGED vars
  BY <1>1, OwnKept DEF vars, SameSend
<1>2. ASSUME NEW p \in Peers, NEW n \in 1..MAX_CHUNKS, NEW binary \in BOOLEAN,
             SendChunked(p, n, binary)
      PROVE  OwnInv'
  BY <1>2, StartOwn
<1>3. ASSUME NEW p \in Peers, NEW n, SendRefused(p, n) PROVE OwnInv'
  BY <1>3, OwnKept DEF SendRefused, vars, SameSend
<1>4. ASSUME NEW p \in Peers, NEW seq \in WireSeqs, OnAckReceived(p, seq)
      PROVE  OwnInv'
  BY <1>4, AckOwn
<1>5. ASSUME NEW p \in Peers, NEW seq \in WireSeqs, OnNackReceived(p, seq)
      PROVE  OwnInv'
  <2>1. CASE UNCHANGED vars
    BY <2>1, OwnKept DEF vars, SameSend
  <2>2. CASE OnAckReceived(p, AckWireSeq(snd[p].nextIdx + 1))
    BY <2>2, AckOwn
  <2>3. CASE /\ p \in inFlight
             /\ accepted' = accepted
             /\ Drop(p, [snd[p] EXCEPT !.timer = FALSE], "nack_exhausted", strayTimers)
    <3>1. snd[p] \in SendState /\ "nack_exhausted" \in Reasons
      BY DEF SenderTypeOK, Reasons
    <3>2. /\ [snd[p] EXCEPT !.timer = FALSE] \in SendState
          /\ [snd[p] EXCEPT !.timer = FALSE].uid = snd[p].uid
      BY <3>1 DEF SendState
    <3> QED
      BY <2>3, <3>1, <3>2, DropOwn
  <2>4. CASE /\ p \in inFlight
             /\ accepted' = accepted
             /\ ScheduleSendNextChunk(p, [snd[p] EXCEPT !.timer = FALSE,
                                                        !.retries = @ + 1])
    <3> DEFINE s == [snd[p] EXCEPT !.timer = FALSE, !.retries = @ + 1]
    <3>1. snd[p] \in SendState /\ snd[p].retries + 1 \in Nat
      BY DEF SenderTypeOK, SendState
    <3>2. s \in SendState /\ SameSend(s, snd[p])
      BY <3>1 DEF SendState, SameSend
    <3> HIDE DEF s
    <3> QED
      BY <2>4, <3>2, ScheduleOwn DEF s
  <2> QED
    BY <1>5, <2>1, <2>2, <2>3, <2>4 DEF OnNackReceived
<1>6. ASSUME NEW p \in Peers, OnAckTimerExpired(p) PROVE OwnInv'
  <2> DEFINE s == [snd[p] EXCEPT !.timer = FALSE]
  <2>1. snd[p] \in SendState
    BY DEF SenderTypeOK
  <2>2. s \in SendState /\ SameSend(s, snd[p])
    BY <2>1 DEF SendState, SameSend
  <2>3. p \in inFlight /\ AckTimeout(p, s, strayTimers)
    BY <1>6 DEF OnAckTimerExpired
  <2> HIDE DEF s
  <2> QED
    BY <2>2, <2>3, AckTimeoutOwn
<1>7. ASSUME NEW p \in Peers, OnStrayTimerExpired(p) PROVE OwnInv'
  <2>1. CASE UNCHANGED <<inFlight, snd, accepted, reports, onAir>>
    BY <2>1, OwnKept DEF SameSend
  <2>2. CASE /\ p \in inFlight
             /\ AckTimeout(p, snd[p], [strayTimers EXCEPT ![p] = @ - 1])
    <3>1. snd[p] \in SendState /\ SameSend(snd[p], snd[p])
      BY DEF SenderTypeOK, SameSend
    <3> QED
      BY <2>2, <3>1, AckTimeoutOwn
  <2> QED
    BY <1>7, <2>1, <2>2 DEF OnStrayTimerExpired
<1>8. ASSUME NEW p \in Peers, HoldExpires(p) PROVE OwnInv'
  <2>1. CASE UNCHANGED <<inFlight, snd, accepted, reports, onAir>>
    BY <2>1, OwnKept DEF SameSend
  <2>2. CASE /\ p \in inFlight
             /\ accepted' = accepted
             /\ SendNextChunk(p, [snd[p] EXCEPT !.sendHoldPending = FALSE], strayTimers)
    <3> DEFINE s == [snd[p] EXCEPT !.sendHoldPending = FALSE]
    <3>1. snd[p] \in SendState
      BY DEF SenderTypeOK
    <3>2. s \in SendState /\ SameSend(s, snd[p])
      BY <3>1 DEF SendState, SameSend
    <3> HIDE DEF s
    <3> QED
      BY <2>2, <3>2, SendNextChunkOwn DEF s
  <2> QED
    BY <1>8, <2>1, <2>2 DEF HoldExpires
<1>9. ASSUME NEW armed \in SUBSET Peers, NEW ran \in 0..MaxCallbacks,
             OnTxIdlePollTick(armed, ran)
      PROVE  OwnInv'
  <2>1. \A q \in inFlight : SameSend(snd'[q], snd[q])
    BY <1>9 DEF OnTxIdlePollTick, SenderTypeOK, SendState, SameSend
  <2> QED
    BY <1>9, <2>1, OwnKept DEF OnTxIdlePollTick
<1>10. CASE RunAfterTxIdle
  BY <1>10, OwnKept DEF RunAfterTxIdle, SameSend
<1>11. CASE TxPathChanges
  BY <1>11, OwnKept DEF TxPathChanges, SameSend
<1>12. "halted" \in Reasons /\ "crashed" \in Reasons
  BY DEF Reasons
<1>13. CASE HaltAll
  BY <1>12, <1>13, ReportAllOwn DEF HaltAll
<1>14. CASE Restart
  BY <1>12, <1>14, ReportAllOwn DEF Restart
<1> QED
  BY <1>1, <1>2, <1>3, <1>4, <1>5, <1>6, <1>7, <1>8, <1>9, <1>10, <1>11,
     <1>13, <1>14 DEF Next

-----------------------------------------------------------------------------
(* The inductive invariant that the small instance checks, for every       *)
(* instance: all the properties of this module at once.                    *)
THEOREM Invariance == Spec => []IInv
<1>1. Init => IInv
  <2>1. Init => BlankWithoutSend /\ NeverStranded /\ RetriesAired
    BY DEF Init, BlankWithoutSend, NeverStranded, RetriesAired
  <2>2. Init => OwnBytes /\ OwnPayload /\ DistinctSends
    BY DEF Init, OwnBytes, OwnPayload, DistinctSends
  <2>3. Init => OneReportPerSend
    <3>1. \A u \in Sends : u \in Nat /\ u > 0
      BY SenderAssumption DEF Sends
    <3> QED
      BY <3>1 DEF Init, OneReportPerSend, Live
  <2>4. Init => SenderTypeOK
    BY InitType
  <2> QED
    BY <2>1, <2>2, <2>3, <2>4 DEF IInv
<1>2. IInv /\ [Next]_vars => IInv'
  <2> SUFFICES ASSUME IInv, [Next]_vars PROVE IInv'
    OBVIOUS
  <2>1. /\ SenderTypeOK /\ BlankWithoutSend /\ NeverStranded /\ RetriesAired
        /\ ClientWaits => OwnInv
    BY DEF IInv, OwnInv
  <2>2. SenderTypeOK'
    BY <2>1, TypeStep
  <2>3. BlankWithoutSend' /\ NeverStranded'
    BY <2>1, MovingStep
  <2>4. RetriesAired'
    BY <2>1, RetriesStep
  <2>5. ClientWaits => OwnInv'
    BY <2>1, OwnStep
  <2> QED
    BY <2>2, <2>3, <2>4, <2>5 DEF IInv, OwnInv
<1> QED
  BY <1>1, <1>2, PTL DEF Spec

(* The sender's state always has its types, whatever arrives and expires,  *)
(* and the persisted message id stays within its range.                    *)
THEOREM TypeCorrect == Spec => []SenderTypeOK
<1>1. IInv => SenderTypeOK
  BY DEF IInv
<1> QED
  BY <1>1, Invariance, PTL

(* No send is ever stranded, for any number of peers and any limits: it    *)
(* waits for a drain that is being polled, for its own timer, or for a     *)
(* turnaround hold whose single shot is still to fire.                     *)
THEOREM NobodyStranded == Spec => []NeverStranded
<1>1. IInv => NeverStranded
  BY DEF IInv
<1> QED
  BY <1>1, Invariance, PTL

(* A send never exceeds its retry budget, and a text send never gives up   *)
(* before its chunk was transmitted once more than its retries say.        *)
THEOREM RetriesAreTransmissions == Spec => []RetriesAired
<1>1. IInv => RetriesAired
  BY DEF IInv
<1> QED
  BY <1>1, Invariance, PTL

(* When the caller waits for the send before, every accepted send gets its *)
(* terminal report exactly once, whatever is acknowledged, refused, timed  *)
(* out or halted in between.                                               *)
THEOREM ReportedOnce == ASSUME ClientWaits PROVE Spec => []OneReportPerSend
<1>1. IInv => OneReportPerSend
  BY DEF IInv
<1> QED
  BY <1>1, Invariance, PTL

(* Under the same condition no chunk carries the bytes of another send.    *)
THEOREM CarriesOwnPayload == ASSUME ClientWaits PROVE Spec => []OwnPayload
<1>1. IInv => OwnPayload
  BY DEF IInv
<1> QED
  BY <1>1, Invariance, PTL

=============================================================================
