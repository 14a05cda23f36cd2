---------------------------- MODULE OutgoingBox ----------------------------
(***************************************************************************)
(* The outgoing message box.  One text field is draft, transmit buffer and *)
(* display at once: the operator types in it, the transmit queue puts its  *)
(* messages there, and the replies of an inbound transfer (ACK, NACK) are  *)
(* written over whatever it holds and the draft is put back 750 ms after   *)
(* the reply is off the air.                                               *)
(*                                                                         *)
(* Left out: the chunks of this station's own ARQ sends (ArqSender), JTTY, *)
(* and typing into a message that is on the air (typeahead).  The Send     *)
(* button is checked and m_auto is set exactly while a message is armed.   *)
(***************************************************************************)
EXTENDS TxQueue, FiniteSets

CONSTANTS
  Drafts,       \* what the operator may type
  Messages,     \* what may be queued, each once
  Reply,        \* the wire text of an ACK or NACK
  NoText,
  Frames,       \* the number of frames of a text
  Priority,     \* of a message
  High,         \* PriorityHigh
  AutoReplies,  \* the messages that are answers of the station itself
  MaxReplies    \* bound: how many replies are made

Texts == Drafts \cup Messages \cup {Reply}

ASSUME OutgoingBoxAssumption ==
  /\ Drafts \cap Messages = {} /\ Reply \notin Drafts \cup Messages
  /\ NoText \notin Texts
  /\ Frames \in [Texts -> Nat \ {0}]
  /\ Priority \in [Messages -> Nat] /\ High \in Nat
  /\ AutoReplies \subseteq Messages
  /\ MaxReplies \in Nat

VARIABLES
  box,           \* extFreeTextMsgEdit
  readOnly,      \* the operator cannot type in it
  injected,      \* m_lastQueueInjectedText
  counted,       \* m_txFrameCount; more than 0: a message is armed
  left,          \* length of m_txFrameQueue
  staged,        \* m_nextFreeTextMsg is not empty
  transmitting,  \* m_transmitting
  built,         \* history: the text the frames were built from
  aired,         \* history: how many of its frames were keyed
  queue,         \* m_txMessageQueue
  saved,         \* m_arqResponseSavedText
  pending,       \* m_arqResponseRestorePending
  shots,         \* single shots of 750 ms, each with the draft it restores
  auto,          \* the AUTO button
  txOn,          \* the TX button
  arqActive,     \* hasActiveChunkSends or hasActiveRxTransfer
  enqueued,      \* history: the messages that were queued
  live,          \* history: the texts still to be sent
  replies,       \* history: replies made
  holes          \* history: how replies met other uses of the box

frames == <<counted, left, staged, transmitting, built, aired>>
restore == <<saved, pending, shots>>
switches == <<auto, txOn, arqActive>>
history == <<enqueued, live, replies, holes>>
vars == <<box, readOnly, injected, frames, queue, restore, switches, history>>

Armed == counted > 0
QueuedForTransmit == transmitting \/ Armed   \* isMessageQueuedForTransmit
Busy == QueuedForTransmit \/ left > 0        \* the test before a restore

Init ==
  /\ box = NoText /\ readOnly = FALSE /\ injected = NoText
  /\ counted = 0 /\ left = 0 /\ staged = FALSE /\ transmitting = FALSE
  /\ built = NoText /\ aired = 0
  /\ queue = <<>>
  /\ saved = NoText /\ pending = FALSE /\ shots = <<>>
  /\ auto \in BOOLEAN /\ txOn = TRUE /\ arqActive = FALSE
  /\ enqueued = {} /\ live = {} /\ replies = 0 /\ holes = {}

-----------------------------------------------------------------------------
(* The parts the handlers share.                                           *)

(* prepareNextMessageFrame on a changed box: the frames are built, the     *)
(* first is staged; a checksummed command keeps the box locked.            *)
Arm(t) ==
  /\ counted' = Frames[t] /\ left' = Frames[t] - 1 /\ staged' = TRUE
  /\ built' = t /\ aired' = 0
  /\ UNCHANGED transmitting
  /\ readOnly' \in {TRUE, pending'}

(* Mutant: the frame queue is taken from, empty or not. *)
TakeUnchecked ==
  /\ staged' = (left > 0)
  /\ left' = left - 1

(* prepareNextMessageFrame on an unchanged box: popMessageFrame. *)
TakeFrame ==
  /\ staged' = (left > 0)
  /\ left' = IF left > 0 THEN left - 1 ELSE 0

(* stopTx: the draft that is owed gets its single shot. *)
Owe ==
  IF pending
  THEN /\ shots' = Append(shots, saved)
       /\ saved' = NoText /\ pending' = FALSE
  ELSE UNCHANGED restore

(* Mutant: the frame count is left standing. *)
ResetKeepsCount ==
  /\ box' = NoText /\ readOnly' = FALSE /\ injected' = NoText
  /\ left' = 0 /\ staged' = FALSE /\ transmitting' = FALSE
  /\ built' = NoText /\ aired' = 0
  /\ UNCHANGED counted

(* resetMessage: the lock that stopTx has just set goes with the rest. *)
Reset ==
  /\ box' = NoText /\ readOnly' = FALSE /\ injected' = NoText
  /\ counted' = 0 /\ left' = 0 /\ staged' = FALSE /\ transmitting' = FALSE
  /\ built' = NoText /\ aired' = 0

(* stopTxMechanical: releasing a checked Send button runs stopTx as well. *)
StopTxMechanical ==
  /\ Reset
  /\ IF Armed THEN Owe ELSE UNCHANGED restore

-----------------------------------------------------------------------------
(* The operator.                                                           *)

(* Typing, or emptying the box. *)
Edit(t) ==
  /\ ~readOnly /\ ~Armed /\ t # box
  /\ box' = t
  /\ live' = (live \ {box}) \cup ({t} \ {NoText})
  /\ holes' = holes \cup IF shots # <<>> THEN {"tail"} ELSE {}
  /\ UNCHANGED <<readOnly, injected, frames, queue, restore, switches, enqueued,
                 replies>>

(* Send: startTx.  A text the queue put there is sent as it is. *)
StartTx ==
  /\ box # NoText /\ ~QueuedForTransmit /\ txOn
  /\ injected' = IF box = injected THEN NoText ELSE injected
  /\ UNCHANGED restore
  /\ Arm(box)
  /\ UNCHANGED <<box, queue, switches, history>>

(* Halt, Escape, a released Send button; TX switched off is a Halt too. *)
HaltAll ==
  /\ StopTxMechanical
  /\ live' = live \ {box}
  /\ txOn' \in {txOn, FALSE}
  /\ UNCHANGED <<queue, auto, arqActive, enqueued, replies, holes>>

(* A band change halts and empties the queue as well. *)
ChangeBand ==
  /\ StopTxMechanical
  /\ queue' = <<>>
  /\ live' = live \ ({box} \cup {queue[i].text : i \in DOMAIN queue})
  /\ UNCHANGED <<switches, enqueued, replies, holes>>

Switch ==
  /\ \/ auto' = ~auto /\ UNCHANGED <<txOn, arqActive>>
     \/ ~txOn /\ txOn' = TRUE /\ UNCHANGED <<auto, arqActive>>
     \/ arqActive' = ~arqActive /\ UNCHANGED <<auto, txOn>>
  /\ UNCHANGED <<box, readOnly, injected, frames, queue, restore, history>>

(* clearOutgoingNow: minutes after the last change, while AUTO is on. *)
ClearOutgoing ==
  /\ auto /\ box # NoText /\ ~transmitting /\ ~Armed /\ ~readOnly
  /\ box' = NoText
  /\ live' = live \ {box}
  /\ UNCHANGED <<readOnly, injected, frames, queue, restore, switches, enqueued,
                 replies, holes>>

-----------------------------------------------------------------------------
(* The transmit queue.                                                     *)

(* enqueueMessage *)
Enqueue(m) ==
  /\ m \notin enqueued
  /\ queue' = Push(queue, [text |-> m, priority |-> Priority[m],
                           date |-> Cardinality(enqueued)])
  /\ enqueued' = enqueued \cup {m}
  /\ live' = live \cup {m}
  /\ UNCHANGED <<box, readOnly, injected, frames, restore, switches, replies,
                 holes>>

(* boxHoldsParkedAutoReply *)
BoxHoldsParkedAutoReply ==
  box # NoText /\ box = injected /\ injected \in AutoReplies /\ ~QueuedForTransmit

(* The early returns of processTxQueue.  That a message of low priority    *)
(* waits for 30 s after the last transmission began only delays this step, *)
(* which nothing forces to be taken.                                       *)
MayDrain ==
  /\ ~arqActive
  /\ left = 0
  /\ box = NoText \/ BoxHoldsParkedAutoReply
  /\ ~QueuedForTransmit

(* processTxQueue: m is sent, parked for the operator, or refused (TX off). *)
(* It may replace a parked reply, and nothing else that is still to be sent. *)
ProcessTxQueue(m) ==
  /\ queue # <<>> /\ queue[1].text = m
  /\ MayDrain
  /\ queue' = Pop(queue)
  /\ LET send == Priority[m] >= High \/ auto IN
     \/ /\ send /\ txOn
        /\ box' = m /\ injected' = m
        /\ UNCHANGED restore
        /\ Arm(m)
        /\ live' = live \ {injected}
        /\ UNCHANGED holes
     \/ /\ send /\ ~txOn
        /\ Reset /\ Owe
        /\ live' = live \ {injected, m}
        /\ UNCHANGED holes
     \/ /\ ~send
        /\ box' = m /\ injected' = m
        /\ live' = live \ {injected}
        /\ holes' = holes \cup IF shots # <<>> THEN {"tail"} ELSE {}
        /\ UNCHANGED <<frames, readOnly, restore>>
  /\ UNCHANGED <<switches, enqueued, replies>>

-----------------------------------------------------------------------------
(* The transmitter.                                                        *)

(* guiUpdate: PTT goes up with the staged frame. *)
KeyUp ==
  /\ staged /\ ~transmitting
  /\ transmitting' = TRUE
  /\ aired' = aired + 1
  /\ UNCHANGED <<box, readOnly, injected, counted, left, staged, built, queue,
                 restore, switches, history>>

(* Mutant: the end of the message gives nothing back. *)
StopTxForgets ==
  \/ /\ left > 0
     /\ TakeFrame /\ transmitting' = FALSE
     /\ UNCHANGED <<box, readOnly, injected, counted, built, aired, restore, live>>
  \/ /\ left = 0
     /\ Reset
     /\ live' = live \ {built}
     /\ UNCHANGED restore

(* stopTx: the next frame, or the end of the message. *)
StopTx ==
  \/ /\ left > 0
     /\ TakeFrame /\ transmitting' = FALSE
     /\ UNCHANGED <<box, readOnly, injected, counted, built, aired, restore, live>>
  \/ /\ left = 0
     /\ Reset /\ Owe
     /\ live' = live \ {built}

(* A frame ends; it lasts longer than the 750 ms of a shot before it. *)
FrameEnds ==
  /\ transmitting /\ shots = <<>>
  /\ StopTx
  /\ UNCHANGED <<queue, switches, enqueued, replies, holes>>

(* prepareSending finds m_auto or m_transmitting set and nothing staged. *)
NothingStaged ==
  /\ Armed /\ ~staged
  /\ StopTxMechanical
  /\ UNCHANGED <<queue, switches, history>>

-----------------------------------------------------------------------------
(* The replies of an inbound transfer.                                     *)

(* Mutant: whatever the box holds is taken for a draft. *)
SaveAnyText ==
  IF pending THEN UNCHANGED <<saved, pending, shots>>
  ELSE saved' = box /\ pending' = TRUE /\ UNCHANGED shots

(* The draft is saved once; wire text is none. *)
SaveDraft ==
  IF pending THEN UNCHANGED <<saved, pending, shots>>
  ELSE /\ saved' = IF Busy THEN NoText ELSE box
       /\ pending' = TRUE
       /\ UNCHANGED shots

(* Mutant: the frames are prepared a second time. *)
TransmitTwice ==
  IF QueuedForTransmit
  THEN TakeFrame /\ UNCHANGED <<box, counted, transmitting, built, aired>>
  ELSE /\ box' = Reply
       /\ counted' = Frames[Reply] /\ built' = Reply /\ aired' = 0
       /\ staged' = (Frames[Reply] > 1)
       /\ left' = IF Frames[Reply] > 1 THEN Frames[Reply] - 2 ELSE 0
       /\ UNCHANGED transmitting

(* onChunkedWantToTransmit: addMessageText leaves an armed box as it is,   *)
(* and what is prepared then is the next frame of the message in it.       *)
OnChunkedWantToTransmit ==
  IF QueuedForTransmit
  THEN TakeFrame /\ UNCHANGED <<box, counted, transmitting, built, aired>>
  ELSE /\ box' = Reply
       /\ counted' = Frames[Reply] /\ left' = Frames[Reply] - 1 /\ staged' = TRUE
       /\ built' = Reply /\ aired' = 0
       /\ UNCHANGED transmitting

(* How this reply meets what the box is used for. *)
Hole ==
  {h \in {"armed", "off", "tail", "parked"} :
     \/ h = "armed" /\ QueuedForTransmit
     \/ h = "off" /\ ~txOn
     \/ h = "tail" /\ shots # <<>>
     \/ h = "parked" /\ ~Busy /\ box \in Messages}

(* onChunkedWantsResponseTx past its gates. *)
OnChunkedWantsResponseTx ==
  /\ auto /\ replies < MaxReplies
  /\ replies' = replies + 1
  /\ SaveDraft
  /\ readOnly' = IF pending /\ (QueuedForTransmit \/ ~txOn) THEN readOnly ELSE TRUE
  /\ IF txOn THEN OnChunkedWantToTransmit ELSE UNCHANGED <<box, frames>>
  /\ holes' = holes \cup Hole
  /\ UNCHANGED <<injected, queue, switches, enqueued, live>>

(* Mutant: the draft is written back whatever the box is used for. *)
RestoreNeverBlocked == FALSE

RestoreBlocked == Busy

(* Mutant: a restore that is blocked is given up. *)
DropDraft == UNCHANGED <<saved, pending>>

(* A blocked restore leaves the draft to the end of what blocks it. *)
Restash ==
  /\ saved' = IF pending THEN saved ELSE Head(shots)
  /\ pending' = TRUE

(* The single shot of stopTx. *)
RestoreFires ==
  /\ shots # <<>>
  /\ IF RestoreBlocked
     THEN Restash /\ UNCHANGED <<box, readOnly>>
     ELSE /\ box' = Head(shots) /\ readOnly' = FALSE
          /\ UNCHANGED <<saved, pending>>
  /\ shots' = Tail(shots)
  /\ UNCHANGED <<injected, frames, queue, switches, history>>

(* Mutant: a box that owes a draft stays locked. *)
UnlockUnlessOwed == readOnly /\ ~transmitting /\ left = 0 /\ ~pending

MayUnlock == readOnly /\ ~transmitting /\ left = 0

(* guiUpdate opens the box. *)
UnlockBox ==
  /\ MayUnlock
  /\ readOnly' = FALSE
  /\ UNCHANGED <<box, injected, frames, queue, restore, switches, history>>

Next ==
  \/ \E t \in Drafts \cup {NoText} : Edit(t)
  \/ StartTx
  \/ HaltAll
  \/ ChangeBand
  \/ Switch
  \/ ClearOutgoing
  \/ \E m \in Messages : Enqueue(m) \/ ProcessTxQueue(m)
  \/ KeyUp
  \/ FrameEnds
  \/ NothingStaged
  \/ OnChunkedWantsResponseTx
  \/ RestoreFires
  \/ UnlockBox

Spec == Init /\ [][Next]_vars

(* guiUpdate polls, frames end and single shots fire. *)
Fairness ==
  /\ WF_vars(KeyUp) /\ WF_vars(FrameEnds) /\ WF_vars(NothingStaged)
  /\ WF_vars(RestoreFires) /\ WF_vars(UnlockBox)

FairSpec == Spec /\ Fairness
-----------------------------------------------------------------------------
TypeOK ==
  /\ box \in Texts \cup {NoText}
  /\ readOnly \in BOOLEAN
  /\ injected \in Messages \cup {NoText}
  /\ counted \in Nat /\ left \in Nat /\ aired \in Nat
  /\ staged \in BOOLEAN /\ transmitting \in BOOLEAN
  /\ built \in Texts \cup {NoText}
  /\ saved \in Texts \cup {NoText} /\ pending \in BOOLEAN
  /\ shots \in Seq(Texts \cup {NoText})
  /\ auto \in BOOLEAN /\ txOn \in BOOLEAN /\ arqActive \in BOOLEAN
  /\ enqueued \subseteq Messages
  /\ live \subseteq Texts
  /\ replies \in 0..MaxReplies
  /\ holes \subseteq {"tail", "armed", "off", "parked"}

(* What goes over the air is what the operator sees in the box: no restore,*)
(* drained message or edit changes the box under frames that were built.   *)
ShownIsSent == Armed => box = built

(* The frames of an armed message are on the air or still to come; none is *)
(* skipped, unless a reply came while the message was armed.               *)
Waiting == left + (IF staged /\ ~transmitting THEN 1 ELSE 0)

NoneSkipped == Armed /\ "armed" \notin holes => aired + Waiting = counted

(* Text of the system that is not being sent is a message parked for the   *)
(* operator and still known as one: no dead wire text is left in the box,  *)
(* where it would block the queue.                                         *)
DeadTextNeverParks ==
  ~Armed /\ "parked" \notin holes /\ box \in Messages \cup {Reply} => box = injected

(* A draft that was not sent or thrown away is in the box, in the snapshot *)
(* or in a single shot, unless a reply came while a message was armed or   *)
(* TX was off, or somebody used the box in the 750 ms before a restore.    *)
Clean == holes \subseteq {"parked"}
Snapshots == {shots[i] : i \in DOMAIN shots} \cup (IF pending THEN {saved} ELSE {})

DraftKept == Clean => live \cap Drafts \subseteq {box} \cup Snapshots

(* Mutant: the idle check does not ask for the message queue. *)
IdleButQueue == ~transmitting /\ ~Armed /\ left = 0 /\ box = NoText

(* The idle check that the link waits for before it starts its timers. *)
TxIdle == ~transmitting /\ ~Armed /\ queue = <<>> /\ left = 0 /\ box = NoText

(* When the transmit path reports idle, every queued message has been sent *)
(* or thrown away by the operator.                                         *)
IdleMeansSent == TxIdle /\ holes = {} => live \cap Messages = {}

(* An armed message ends: the transmit path does not wedge. *)
ArmedEnds == Armed ~> ~Armed

(* A locked box is opened again, also when the reply it was locked for is  *)
(* never sent.                                                             *)
LockOpens == readOnly ~> ~readOnly

(* The draft a reply displaced comes back, however often its restore meets *)
(* a transmission.                                                         *)
DraftReturns ==
  \A d \in Drafts :
     pending /\ saved = d ~> box = d \/ d \notin live \/ holes # {}

(***************************************************************************)
(* The inductive invariant.  What is staged or on the air belongs to an    *)
(* armed message; while nothing interferes, a draft is owed only during a  *)
(* transmission, one at a time, and the box is free for its return.        *)
(***************************************************************************)
OnAirIsArmed == transmitting \/ staged \/ left > 0 => Armed

StagedWhileArmed == Armed /\ "armed" \notin holes => staged

SnapshotsAreDrafts ==
  "parked" \notin holes =>
     /\ saved \in Drafts \cup {NoText}
     /\ \A i \in DOMAIN shots : shots[i] \in Drafts \cup {NoText}

OneOwed ==
  Clean => /\ pending => Armed /\ shots = <<>>
           /\ Len(shots) <= 1
           /\ shots # <<>> => box \notin Drafts

IInv ==
  /\ TypeOK /\ ShownIsSent /\ NoneSkipped /\ DeadTextNeverParks /\ DraftKept
  /\ OnAirIsArmed /\ StagedWhileArmed /\ SnapshotsAreDrafts /\ OneOwed

(* For the queue: it holds every message still to be sent but the one in   *)
(* the box, and the box is empty when a draft is about to return to it.    *)
Queued == {queue[i].text : i \in DOMAIN queue}

NoneForgotten == holes = {} => live \cap Messages \subseteq Queued \cup {box}

FreeForReturn == holes = {} /\ shots # <<>> /\ ~Armed => box = NoText

QueueInv ==
  /\ queue \in Seq([text : Messages, priority : Nat, date : Nat])
  /\ IsFiniteSet(enqueued)
  /\ NoneForgotten /\ FreeForReturn

(* "LOW - lowest priority; queue is drained in order" (the API document):  *)
(* no message is taken while one of a higher priority waits.               *)
PriorityFirst ==
  [][\A m \in Messages : ProcessTxQueue(m)
       => \A i \in DOMAIN queue : queue[i].priority <= Priority[m]]_vars

=============================================================================
