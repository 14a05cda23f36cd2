----------------------------- MODULE ArqSender -----------------------------
(***************************************************************************)
(* The sending half of ChunkedArq::Manager (JS8_Main/ChunkedArq.cpp): one  *)
(* SendState per peer, stop-and-wait chunk by chunk, the acknowledgement   *)
(* timer that is armed only once the transmit path reports idle, the       *)
(* turnaround hold of native-binary sends, retries and give-up, Halt and a *)
(* restart of the program.                                                 *)
(*                                                                         *)
(* The peers are an open environment here: any ACK or NACK may arrive at   *)
(* any time (a stale, duplicated or foreign one is just another value).    *)
(* ArqLink closes the loop with a receiver.                                *)
(*                                                                         *)
(* Time is abstracted to order: an armed timer may expire at any step.  The*)
(* one duration that matters is kept: a turnaround hold is shorter than    *)
(* any acknowledgement timeout (1.75 s plus at most one 3.75 s frame       *)
(* against 3 periods + 6 s), so no timer expires while a hold is pending.  *)
(***************************************************************************)
EXTENDS ArqWire, Sequences, FiniteSets

CONSTANTS
  Peers,                \* remote callsigns
  MAX_CHUNKS,           \* most chunks a message may need (31 or 99)
  DEFAULT_MAX_RETRIES,  \* retransmissions of one chunk before giving up (3)
  ClientWaits,          \* TRUE: the caller starts a send to a peer only when
                        \* none is in flight (the window, which locks while
                        \* hasActiveTxSession); FALSE: it does not look
                        \* (TX.SEND_CHUNKED of the TCP API)
  MaxMsgs,              \* bound: sends accepted in a behaviour
  MaxCallbacks,         \* bound: queued idle callbacks
  MaxRestarts           \* bound: restarts of the program

ASSUME SenderAssumption ==
  /\ MAX_CHUNKS \in Nat \ {0}
  /\ DEFAULT_MAX_RETRIES \in Nat
  /\ ClientWaits \in BOOLEAN
  /\ MaxMsgs \in Nat
  /\ MaxCallbacks \in Nat
  /\ MaxRestarts \in Nat

VARIABLES
  inFlight,     \* peers with an entry in m_sends
  snd,          \* the SendState of every peer (Blank when it has none)
  holdShots,    \* turnaround-hold single shots not yet fired, per peer
  strayTimers,  \* ack timers still running whose SendState was removed
  poll,         \* m_txIdlePollTimer is active
  idleCbs,      \* m_txIdleCallbacks queued by runAfterTxIdle
  txBusy,       \* the transmit path is not idle (m_txIdleCheck is false)
  nextMsgId,    \* m_nextMsgId, persisted at every bump
  restarts,     \* restarts so far
  accepted,     \* history: sends accepted so far; a send is named 1..accepted
  reports,      \* history: the terminal reports made for every send
  onAir         \* history: the last chunk handed to the transmitter

vars == <<inFlight, snd, holdShots, strayTimers, poll, idleCbs, txBusy,
          nextMsgId, restarts, accepted, reports, onAir>>

Sends == 1..MaxMsgs

Reasons == {"complete", "nack_exhausted", "timeout_exhausted", "halted", "crashed"}

(***************************************************************************)
(* SendState.  `uid' names the send (history), `bytesOf' the send whose    *)
(* payload binaryChunks holds, `bytesLen' how many there are; `timer' is   *)
(* ackTimer->isActive(); `airings' (history) counts how often the current  *)
(* chunk was handed to the transmitter.                                    *)
(***************************************************************************)
SendState ==
  [uid : Nat, msgId : Nat, total : Nat, isBinary : BOOLEAN,
   bytesOf : Nat, bytesLen : Nat, nextIdx : Nat, retries : Nat,
   awaitingTxDone : BOOLEAN, timer : BOOLEAN, sendHoldPending : BOOLEAN,
   airings : Nat]

Blank ==
  [uid |-> 0, msgId |-> 0, total |-> 0, isBinary |-> FALSE,
   bytesOf |-> 0, bytesLen |-> 0, nextIdx |-> 0, retries |-> 0,
   awaitingTxDone |-> FALSE, timer |-> FALSE, sendHoldPending |-> FALSE,
   airings |-> 0]

Init ==
  /\ inFlight = {}
  /\ snd = [p \in Peers |-> Blank]
  /\ holdShots = [p \in Peers |-> 0]
  /\ strayTimers = [p \in Peers |-> 0]
  /\ poll = FALSE
  /\ idleCbs = 0
  /\ txBusy = FALSE
  /\ nextMsgId = MSG_ID_MIN
  /\ restarts = 0
  /\ accepted = 0
  /\ reports = [u \in Sends |-> <<>>]
  /\ onAir = [send |-> 0, carries |-> 0]

-----------------------------------------------------------------------------
(* The strayTimers that remain when the SendState s of p is dropped from   *)
(* m_sends: the removal does not stop a running timer.                     *)
StraysAfterDrop(p, s, strays) ==
  [strays EXCEPT ![p] = IF s.timer THEN @ + 1 ELSE @]

(* m_sends.remove(p) after the terminal signal of the send. *)
Drop(p, s, reason, strays) ==
  /\ inFlight' = inFlight \ {p}
  /\ snd' = [snd EXCEPT ![p] = Blank]
  /\ strayTimers' = StraysAfterDrop(p, s, strays)
  /\ reports' = [reports EXCEPT ![s.uid] = Append(@, reason)]
  /\ UNCHANGED <<poll, txBusy, onAir>>

(* Mutant: the 1-based chunk id used as index. *)
PayloadOffByOne(s) ==
  IF ~s.isBinary THEN s.uid
  ELSE IF s.nextIdx + 1 < s.bytesLen THEN s.bytesOf ELSE 0

(* The send whose bytes the chunk at nextIdx carries.  A native chunk is   *)
(* read from binaryChunks; past its end the read is undefined (0).         *)
Payload(s) ==
  IF ~s.isBinary THEN s.uid
  ELSE IF s.nextIdx < s.bytesLen THEN s.bytesOf ELSE 0

(* The rest of sendNextChunk: hand the chunk at nextIdx over and let the   *)
(* idle poll arm the timer.  The host drops the chunk, without telling the *)
(* manager, when the operator has disabled TX.                             *)
Transmit(p, s, strays) ==
  /\ inFlight' = inFlight \cup {p}
  /\ snd' = [snd EXCEPT ![p] =
               [s EXCEPT !.timer = FALSE, !.awaitingTxDone = TRUE,
                         !.airings = @ + 1]]
  /\ strayTimers' = strays
  /\ onAir' = [send |-> s.uid, carries |-> Payload(s)]
  /\ poll' = TRUE
  /\ txBusy' \in {txBusy, TRUE}
  /\ UNCHANGED reports

(* sendNextChunk, from the SendState s. *)
SendNextChunk(p, s, strays) ==
  \/ s.nextIdx >= s.total /\ Drop(p, s, "complete", strays)
  \/ s.nextIdx < s.total /\ Transmit(p, s, strays)

(* scheduleSendNextChunk: text goes out at once; a native chunk waits for  *)
(* the turnaround hold, unless a hold is already pending.                  *)
ScheduleSendNextChunk(p, s) ==
  \/ /\ ~s.isBinary
     /\ SendNextChunk(p, s, strayTimers)
     /\ UNCHANGED holdShots
  \/ /\ s.isBinary
     /\ snd' = [snd EXCEPT ![p] = [s EXCEPT !.sendHoldPending = TRUE]]
     /\ holdShots' = [holdShots EXCEPT ![p] =
                        IF s.sendHoldPending THEN @ ELSE @ + 1]
     /\ UNCHANGED <<inFlight, strayTimers, poll, txBusy, reports, onAir>>

(* sendChunked and sendChunkedBinary refuse while chunks remain to send. *)
Busy(p) == p \in inFlight /\ snd[p].nextIdx < snd[p].total

(* Mutant: the byte count of the previous send is kept. *)
StartedKeepsLength(p, n, binary) ==
  LET u == accepted + 1
      s == [snd[p] EXCEPT !.uid = u, !.msgId = nextMsgId, !.total = n,
                          !.nextIdx = 0, !.retries = 0, !.airings = 0]
  IN  IF binary THEN [s EXCEPT !.isBinary = TRUE, !.bytesOf = u] ELSE s

(* The SendState a new send starts from.  getOrCreateSend may return one   *)
(* that is still live; only these fields are assigned.                     *)
Started(p, n, binary) ==
  LET u == accepted + 1
      s == [snd[p] EXCEPT !.uid = u, !.msgId = nextMsgId, !.total = n,
                          !.nextIdx = 0, !.retries = 0, !.airings = 0]
  IN  IF binary
      THEN [s EXCEPT !.isBinary = TRUE, !.bytesOf = u, !.bytesLen = n]
      ELSE s

(* sendChunked or sendChunkedBinary accepts n chunks for peer p. *)
SendChunked(p, n, binary) ==
  /\ accepted < MaxMsgs
  /\ ClientWaits => p \notin inFlight
  /\ ~Busy(p)
  /\ n <= MAX_CHUNKS
  /\ accepted' = accepted + 1
  /\ nextMsgId' = BumpMsgId(nextMsgId)
  /\ SendNextChunk(p, Started(p, n, binary), strayTimers)
  /\ UNCHANGED <<holdShots, idleCbs, restarts>>

(* A request refused as "busy" or "too_long" leaves the manager as it is. *)
SendRefused(p, n) ==
  /\ Busy(p) \/ n > MAX_CHUNKS
  /\ UNCHANGED vars

-----------------------------------------------------------------------------
(* Mutant: any later number acknowledges the outstanding chunk too. *)
MatchesCumulative(p, seq) == seq >= AckWireSeq(snd[p].nextIdx + 1)

(* The wire number of the outstanding chunk. *)
Matches(p, seq) == seq = AckWireSeq(snd[p].nextIdx + 1)

(* Mutant: off by one. *)
ImplicitAckOffByOne(p, seq) ==
  /\ snd[p].nextIdx + 1 <= snd[p].total
  /\ seq = AckWireSeq(snd[p].nextIdx + 1)

(* A NACK for the chunk after the outstanding one proves that one arrived. *)
ImplicitAck(p, seq) ==
  /\ snd[p].nextIdx + 2 <= snd[p].total
  /\ seq = AckWireSeq(snd[p].nextIdx + 2)

(* Mutant: the retries of one chunk are carried over to the next. *)
AcknowledgedKeepsRetries(s) ==
  [s EXCEPT !.timer = FALSE, !.nextIdx = @ + 1, !.airings = 0]

Acknowledged(s) ==
  [s EXCEPT !.timer = FALSE, !.retries = 0, !.nextIdx = @ + 1, !.airings = 0]

(* The named bound on surplus ACKs: in the hold after the last chunk's ACK *)
(* nextIdx is past the message, and every further match moves it on.       *)
SurplusBound(p) == snd[p].nextIdx <= MAX_CHUNKS

OnAckReceived(p, seq) ==
  \/ /\ p \notin inFlight \/ ~Matches(p, seq)
     /\ UNCHANGED vars
  \/ /\ p \in inFlight
     /\ Matches(p, seq)
     /\ SurplusBound(p)
     /\ ScheduleSendNextChunk(p, Acknowledged(snd[p]))
     /\ UNCHANGED <<idleCbs, nextMsgId, restarts, accepted>>

OnNackReceived(p, seq) ==
  \/ /\ p \notin inFlight \/ (~ImplicitAck(p, seq) /\ ~Matches(p, seq))
     /\ UNCHANGED vars
  \/ /\ p \in inFlight
     /\ ImplicitAck(p, seq)
     /\ OnAckReceived(p, AckWireSeq(snd[p].nextIdx + 1))
  \/ /\ p \in inFlight
     /\ ~ImplicitAck(p, seq)
     /\ Matches(p, seq)
     /\ \/ /\ snd[p].retries >= DEFAULT_MAX_RETRIES
           /\ Drop(p, [snd[p] EXCEPT !.timer = FALSE], "nack_exhausted", strayTimers)
           /\ UNCHANGED holdShots
        \/ /\ snd[p].retries < DEFAULT_MAX_RETRIES
           /\ ScheduleSendNextChunk(p, [snd[p] EXCEPT !.timer = FALSE,
                                                      !.retries = @ + 1])
     /\ UNCHANGED <<idleCbs, nextMsgId, restarts, accepted>>

(* onAckTimerExpired finds the SendState by callsign: s is the current one,*)
(* whichever timer it was.                                                 *)
AckTimeout(p, s, strays) ==
  /\ \/ /\ s.retries >= DEFAULT_MAX_RETRIES
        /\ Drop(p, s, "timeout_exhausted", strays)
     \/ /\ s.retries < DEFAULT_MAX_RETRIES
        /\ SendNextChunk(p, [s EXCEPT !.retries = @ + 1], strays)
  /\ UNCHANGED <<holdShots, idleCbs, nextMsgId, restarts, accepted>>

(* The current send's own timer: it cannot outrun a hold. *)
OnAckTimerExpired(p) ==
  /\ p \in inFlight
  /\ snd[p].timer
  /\ holdShots[p] = 0
  /\ AckTimeout(p, [snd[p] EXCEPT !.timer = FALSE], strayTimers)

(* The timer of a send that is gone. *)
OnStrayTimerExpired(p) ==
  LET strays == [strayTimers EXCEPT ![p] = @ - 1] IN
  /\ strayTimers[p] > 0
  /\ \/ /\ p \in inFlight
        /\ AckTimeout(p, snd[p], strays)
     \/ /\ p \notin inFlight
        /\ strayTimers' = strays
        /\ UNCHANGED <<inFlight, snd, holdShots, poll, idleCbs, txBusy, nextMsgId,
                       restarts, accepted, reports, onAir>>

(* The single shot of scheduleSendNextChunk: it too finds the SendState by *)
(* callsign, and clears the flag of whichever send it finds.               *)
HoldExpires(p) ==
  /\ holdShots[p] > 0
  /\ holdShots' = [holdShots EXCEPT ![p] = @ - 1]
  /\ \/ /\ p \in inFlight
        /\ SendNextChunk(p, [snd[p] EXCEPT !.sendHoldPending = FALSE], strayTimers)
     \/ /\ p \notin inFlight
        /\ UNCHANGED <<inFlight, snd, strayTimers, poll, txBusy, reports, onAir>>
  /\ UNCHANGED <<idleCbs, nextMsgId, restarts, accepted>>

-----------------------------------------------------------------------------
Awaiting == {p \in inFlight : snd[p].awaitingTxDone}

(* Mutants: the second loop of the tick overwrites anyStillAwaiting; the   *)
(* poll is stopped after every tick.                                       *)
StillAwaitingOverwritten(armed, ran) == ran < idleCbs
StillAwaitingNever(armed, ran) == FALSE

(* anyStillAwaiting of onTxIdlePollTick. *)
StillAwaiting(armed, ran) == armed # Awaiting \/ ran < idleCbs

(* onTxIdlePollTick: arm the timers of `armed', run `ran' queued callbacks.*)
(* An idle transmit path serves everyone; a busy one only those whose wait *)
(* has hit the safety cap, in any combination.                             *)
OnTxIdlePollTick(armed, ran) ==
  /\ poll
  /\ armed \subseteq Awaiting
  /\ ran <= idleCbs
  /\ ~txBusy => armed = Awaiting /\ ran = idleCbs
  /\ snd' = [p \in Peers |->
               IF p \in armed
               THEN [snd[p] EXCEPT !.awaitingTxDone = FALSE, !.timer = TRUE]
               ELSE snd[p]]
  /\ idleCbs' = idleCbs - ran
  /\ poll' = StillAwaiting(armed, ran)
  /\ UNCHANGED <<inFlight, holdShots, strayTimers, txBusy, nextMsgId, restarts,
                 accepted, reports, onAir>>

(* runAfterTxIdle: the capability negotiation queues its reply window. *)
RunAfterTxIdle ==
  /\ idleCbs < MaxCallbacks
  /\ idleCbs' = idleCbs + 1
  /\ poll' = TRUE
  /\ UNCHANGED <<inFlight, snd, holdShots, strayTimers, txBusy, nextMsgId,
                 restarts, accepted, reports, onAir>>

(* The transmitter drains, or the station keys something else. *)
TxPathChanges ==
  /\ txBusy' = ~txBusy
  /\ UNCHANGED <<inFlight, snd, holdShots, strayTimers, poll, idleCbs, nextMsgId,
                 restarts, accepted, reports, onAir>>

(* Mutant: finished sends are reported once more. *)
ReportAllSoFar(reason) ==
  reports' = [u \in Sends |->
                IF u <= accepted THEN Append(reports[u], reason) ELSE reports[u]]

(* Every live send gets its terminal report at once. *)
ReportAll(reason) ==
  reports' = [u \in Sends |->
                IF \E p \in inFlight : snd[p].uid = u
                THEN Append(reports[u], reason) ELSE reports[u]]

(* haltAll.  The queued idle callbacks, the pending holds and the timers   *)
(* that already outlived their send are not touched.                       *)
HaltAll ==
  /\ ReportAll("halted")
  /\ inFlight' = {}
  /\ snd' = [p \in Peers |-> Blank]
  /\ poll' = FALSE
  /\ UNCHANGED <<holdShots, strayTimers, idleCbs, txBusy, nextMsgId, restarts,
                 accepted, onAir>>

(* What the settings file may hold when the program starts: the counter as *)
(* it was saved, or, with the file lost or edited, an id no message has.   *)
StoredMsgIds == {nextMsgId, 0, MSG_ID_MAX + 1}

(* The program ends, in whatever state, and starts again: only the message *)
(* id counter survives, in the settings file.                              *)
Restart ==
  /\ restarts < MaxRestarts
  /\ restarts' = restarts + 1
  /\ ReportAll("crashed")
  /\ inFlight' = {}
  /\ snd' = [p \in Peers |-> Blank]
  /\ holdShots' = [p \in Peers |-> 0]
  /\ strayTimers' = [p \in Peers |-> 0]
  /\ poll' = FALSE
  /\ idleCbs' = 0
  /\ txBusy' = FALSE
  /\ \E stored \in StoredMsgIds : nextMsgId' = RestoredMsgId(stored)
  /\ UNCHANGED <<accepted, onAir>>

-----------------------------------------------------------------------------
Next ==
  \/ \E p \in Peers, n \in 1..MAX_CHUNKS, binary \in BOOLEAN : SendChunked(p, n, binary)
  \/ \E p \in Peers, n \in 1..(MAX_CHUNKS + 1) : SendRefused(p, n)
  \/ \E p \in Peers, seq \in WireSeqs : OnAckReceived(p, seq)
  \/ \E p \in Peers, seq \in WireSeqs : OnNackReceived(p, seq)
  \/ \E p \in Peers : OnAckTimerExpired(p)
  \/ \E p \in Peers : OnStrayTimerExpired(p)
  \/ \E p \in Peers : HoldExpires(p)
  \/ \E armed \in SUBSET Peers, ran \in 0..MaxCallbacks : OnTxIdlePollTick(armed, ran)
  \/ RunAfterTxIdle
  \/ TxPathChanges
  \/ HaltAll
  \/ Restart

(* Timers fire, and the poll serves a waiting peer at the cap at the       *)
(* latest, whatever the transmit path does.                                *)
PollServes(p) ==
  \E armed \in SUBSET Peers, ran \in 0..MaxCallbacks :
     p \in armed /\ OnTxIdlePollTick(armed, ran)

Fairness ==
  \A p \in Peers : /\ WF_vars(PollServes(p))
                   /\ WF_vars(OnAckTimerExpired(p))
                   /\ WF_vars(HoldExpires(p))

Spec == Init /\ [][Next]_vars /\ Fairness

-----------------------------------------------------------------------------
(* Types, and the shape of a peer without a send. *)
SenderTypeOK ==
  /\ inFlight \subseteq Peers
  /\ snd \in [Peers -> SendState]
  /\ holdShots \in [Peers -> Nat]
  /\ strayTimers \in [Peers -> Nat]
  /\ poll \in BOOLEAN
  /\ idleCbs \in Nat
  /\ txBusy \in BOOLEAN
  /\ nextMsgId \in MsgIds
  /\ restarts \in Nat
  /\ accepted \in 0..MaxMsgs
  /\ reports \in [Sends -> Seq(Reasons)]
  /\ onAir \in [send : Nat, carries : Nat]

(* Something will always move a live send on: the drain it waits for is    *)
(* being polled, or its timer runs, or a hold is pending whose single shot *)
(* is still to fire.  It never waits for both the drain and the timer.     *)
(* (sendNextChunk, armAckTimer, scheduleSendNextChunk; Halt and the stop   *)
(* of the poll timer at the end of onTxIdlePollTick could break it.)       *)
Moving(p) ==
  /\ snd[p].awaitingTxDone \/ snd[p].timer \/ snd[p].sendHoldPending
  /\ snd[p].awaitingTxDone => poll
  /\ snd[p].sendHoldPending => holdShots[p] > 0
  /\ ~(snd[p].awaitingTxDone /\ snd[p].timer)

NeverStranded == \A p \in inFlight : Moving(p)

Live(u) == \E p \in inFlight : snd[p].uid = u

(* Every accepted send is reported exactly once: not while it is live, and *)
(* never a second time (sendComplete and sendFailed drive the inbox, the   *)
(* restored text and the TCP client).                                      *)
OneReportPerSend ==
  \A u \in Sends :
     Len(reports[u]) = (IF u <= accepted /\ ~Live(u) THEN 1 ELSE 0)

(* A chunk that goes out carries the bytes of the send it is announced for *)
(* (sendNextChunk picks chunks or binaryChunks by isBinary, which only     *)
(* sendChunkedBinary assigns).                                             *)
OwnPayload == onAir.send = onAir.carries

(* The retries a text send has used up were really transmitted, so it does *)
(* not give up (nack_exhausted, timeout_exhausted) before its chunk went   *)
(* out 1 + DEFAULT_MAX_RETRIES times; its budget is never overrun.         *)
RetriesAired ==
  \A p \in inFlight :
     /\ snd[p].retries <= DEFAULT_MAX_RETRIES
     /\ ~snd[p].isBinary => snd[p].retries < snd[p].airings

(***************************************************************************)
(* The inductive invariant.  What the properties above lack to be          *)
(* inductive: a new send starts from a blank SendState unless one is live; *)
(* a binary send's bytes are its own and as many as its chunks; and the    *)
(* live sends are different ones, already accepted.  The last two need     *)
(* ClientWaits: they fail when a send overtakes one in its last hold.      *)
(***************************************************************************)
BlankWithoutSend == \A p \in Peers \ inFlight : snd[p] = Blank

OwnBytes ==
  \A p \in inFlight :
     snd[p].isBinary => snd[p].bytesOf = snd[p].uid /\ snd[p].bytesLen = snd[p].total

DistinctSends ==
  /\ \A p \in inFlight : snd[p].uid \in 1..accepted
  /\ \A p, q \in inFlight : snd[p].uid = snd[q].uid => p = q

IInv ==
  /\ SenderTypeOK
  /\ BlankWithoutSend
  /\ NeverStranded
  /\ RetriesAired
  /\ ClientWaits => OwnBytes /\ OwnPayload /\ DistinctSends /\ OneReportPerSend

(* Every accepted send ends in a terminal report, whatever the peer does   *)
(* or does not answer.                                                     *)
EverySendEnds ==
  \A u \in Sends : u <= accepted ~> Len(reports[u]) > 0

=============================================================================
