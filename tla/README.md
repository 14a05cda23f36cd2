# Chunked ARQ and transmission in JS8Call Subspace Edition: specification, model checking, proofs

JS8Call Subspace Edition is a weak-signal radio chat program. Its own addition
with real protocol logic is *chunked ARQ*: a long text, a file or a form is cut
into chunks, each sent to one station and acknowledged before the next. This
project models that protocol in TLA+ - both its wire formats, text and native
binary -, the negotiation that precedes a transfer, and the outgoing message box
with the queue behind it, through which everything the station transmits has to
pass. TLC checks the modules on small instances; TLAPS proves the invariants of
sender, receivers, link, negotiation, outgoing box and its queue for every
instance, and that the link implements the reliable transfer of messages it is meant to be.

## 1. Inventory

| Component (source) | State it keeps | Operations | Interacts with | Hard behaviour | Correct when |
|---|---|---|---|---|---|
| **ARQ sender** (`JS8_Main/ChunkedArq.cpp`, `m_sends`) | one `SendState` per peer: chunk index, retries, ack timer, waiting for TX done, turnaround hold; idle poll timer; message id counter | `sendChunked`, `sendChunkedBinary`, `onAckReceived`, `onNackReceived`, `onAckTimerExpired`, `scheduleSendNextChunk`, `onTxIdlePollTick`, `runAfterTxIdle`, `haltAll` | window (chunk to transmit, terminal signals), command dispatch (ACK, NACK), settings (message id) | timers and single shots find their send by callsign, so they can find another send; answers are late, repeated, foreign; the transmit path may never report idle | no send stranded, each reported once, its own bytes, its whole retry budget, it ends |
| **ARQ receiver** (`ChunkedArq.cpp`, `m_recv`) | one `RxState` per peer: assemblies, delivered ids, session phase, evict / stall / quiet timers, NACK interval | `onChunkReceived`, `tryNack`, `sendAck`, `rxSessionActivity`, `rxSessionEnd`, timer handlers, `haltRxPeer`, `haltAll` | window (session phase, replies, delivered bodies) | lost last ACK, restart or halt in the middle of a message, interleaved retransmissions, id reuse | whole messages, at most once, no ACK for what is not kept, no lock without a timer |
| **Reply gate and acceptance question** (`JS8_Mainwindow/chunkedArqHooks.cpp`) | `m_rxAcceptState` per station, one coalesced confirm box | `onRxSessionChanged`, `onChunkedWantsResponseTx`, `confirmThenRun`, `withdrawConfirm` | receiver (phase signals, `haltRxPeer`) | the answer is per station, the transfer ends while the question is open | a held reply has an open question; an answer decides its own transfer only |
| **ARQ link** (two stations) | chunks and replies under way | everything above over the air | `processCommandActivity.cpp` dispatches what is decoded | loss, delay, duplication by retransmission, damage, a third station's answers | "complete" is reported only for what was delivered |
| **Native (V3) receive** (`ChunkedArq.cpp`, `NativeBinary.cpp`) | per peer one collect window, chunks held, sizes; orphan frames of nobody yet; scheduled re-ACKs | `handleNativeMarker`, `onNativeMarkerFrameReceived`, `onNativeFrameReceived`, `openNativeChunkWindow`, `finishNativeChunk`, collect timer, evict | sender, reply gate | frames are anonymous but for four bits of the chunk number; text marker, binary marker, data and retries in any order; the answer must meet the peer's listen window | whole messages once, no chunk passed that is not held, re-ACKs heard, no lock without an evict |
| **Capability negotiation** (`mainwindow.cpp`, `processCommandActivity.cpp`) | parked payload, `m_negotiating`, generation, retries, levels of peers | `startFileTransferViaArq`, `sendWebLink`, `armCapQueryTimeout`, `onCapQueryTimeout`, YES dispatch, abort | sender's idle callbacks, send locks, Halt | a callback, a reply window and the 1.5 s before the transfer run against late answers, Halt and other sessions | each transfer comes to one end; no wait without a clock, no lock without a wait |
| **Transmit queue, outgoing box, PTT cycle** (`mainwindow.cpp`, `chunkedArqHooks.cpp`) | the box and its lock, message queue, frame queue and count, the operator's snapshot and its single shot | type, Send, `processTxQueue`, `prepareNextMessageFrame`, `stopTx`, Halt, band change, reply, restore | every transmitter of the program | one text field is draft, transmit buffer and display; its users overtake each other | what is shown is sent, whole; the draft survives; nothing wedges |
| Directed commands, relay, auto-reply (`processCommandActivity.cpp`, ...) | message buffers, command queue | per command | ARQ, inbox, APRS | buffers of several callers | replies go to the asker |
| Automatic route execution (`reachExecutor.cpp`) | candidate routes, windows, attempts | start, window end, answer, abort | transmit queue | timeouts against late answers | one route at a time, it ends |
| Transmit loops (`TxLoop.cpp`) | next activity, period, timer | start, cancel, timer, plan | drifting clock | clock steps | never armed for the past |
| ARQ monitor, Intel miner, grid and station data | tables for display | ingest | decoder | none that feeds back | - |
| Inbox (`Inbox.cpp`) | message table | store, read, forward | commands, ARQ hooks | - | a message is forwarded once |
| APRS-IS client and inbound relay | socket, line queue, seen ids | connect, send, relay | transmit queue | reconnect | relayed once |
| Message API, MQTT, remote control, spots | sockets, back-off | I/O | commands, sender (`TX.SEND_CHUNKED`) | reconnect | - |
| Modem and decoder (`JS8_Mode`) | sample buffers, candidates | decode, modulate | audio, window | worker thread | - |
| Varicode, rig control, audio, log, widgets | encodings, devices, files | - | - | - | - |

`PROJECT.json` lists all of them with what is and is not modelled, and the
hazards of the code at their lines.

## 2. Modules

| Module | Models | Extends / instantiates |
|---|---|---|
| `ArqWire` | message ids and their wrap (`sendChunked`), chunk numbers on the air (`ackWireSeq`) | - |
| `ArqSender` | the sending half of `ChunkedArq::Manager` | `ArqWire` |
| `ArqReceiver` | the receiving half for text chunks, for one peer, with the reply gate and the acceptance question | `ArqWire` |
| `ArqLink` | one sender, one receiver, the radio path both ways | `ArqSender` (one peer), `ArqReceiver` |
| `ReliableMessages` | what the link promises, without chunks, timers or radio; no code is translated here | instantiated by `ArqLink` |
| `NativeReceiver` | the receiving half for native chunks, and the bursts of a stop-and-wait peer | - |
| `Negotiation` | a transfer from the operator's Send to its first chunk | - |
| `TxQueue` | the priority queue of messages: comparison, push and pop of the heap | - |
| `OutgoingBox` | the outgoing box, frames and PTT, replies over a draft | `TxQueue` |
| `ArqSender_proofs`, `ArqReceiver_proofs`, `ArqWire_proofs`, `ArqLink_proofs`, `NativeReceiver_proofs`, `Negotiation_proofs`, `TxQueue_proofs`, `OutgoingBox_proofs` | theorems | the modules they prove about |
| `MCArqSender`, `MCArqReceiver`, `MCArqLink`, `MCNativeReceiver`, `MCNegotiation`, `MCOutgoingBox` | instances for TLC | the module of the name |

### ArqSender

`snd[p]` is the `SendState` of peer `p` while `p` is in `inFlight` (`m_sends`),
and blank otherwise. A chunk's content is the name of the send it belongs to:
`bytesOf` and `bytesLen` say whose `binaryChunks` the state still holds. Actions
are the handlers: `SendChunked` (both public sends), `SendRefused`,
`OnAckReceived`, `OnNackReceived`, `OnAckTimerExpired`, `HoldExpires` (the
single shot of `scheduleSendNextChunk`), `OnTxIdlePollTick`, `RunAfterTxIdle`,
`HaltAll`, `Restart`. Three things a reader may miss in the code are state of
their own:

* `holdShots`: a single shot is not cancelled when its send is removed. When it
  fires it finds whatever send the peer has then.
* `strayTimers`: removing a `SendState` neither stops nor deletes its timer. A
  repeated ACK can leave `awaitingTxDone` set in the hold after the last chunk;
  the poll then arms the timer, the hold completes the send, and the timer of
  a send that is gone runs on.
* `txBusy`: the host's idle check is an arbitrary bit; the safety cap may serve
  any subset of the waiting peers while it is busy.

`Restart` reads the message id back from the settings file, which may hold the
counter, nothing, or a number no message has (`StoredMsgIds`); the constructor
accepts the stored number or falls back to the first (`RestoredMsgId`).

`reports`, `accepted`, `onAir` and `airings` are history. ACKs and NACKs come
from an open environment: any number, at any time, which includes stale,
repeated and foreign ones. `ClientWaits` distinguishes the window, which does
not start a send while `hasActiveTxSession()`, from the TCP API's
`TX.SEND_CHUNKED`, which does not look.

A refused request changes nothing, so `SendRefused` is a stutter kept for its
guard. Time is order only, with one exception: a hold (1.75 s and at most one
3.75 s frame) is shorter than any ack timeout (three periods and 6 s), so an ack
timer does not expire while a hold of its peer is pending.

### ArqReceiver

Every handler but `haltAll` touches one `RxState`, so the module has one peer.
An assembly maps a chunk number to the message the chunk came from, so "whole"
means all chunks of one message. The session is judged by `Activity` and
`SessionEnd`, which are also what the window hears (`onRxSessionChanged`):
`Ask` and `Settle` are part of the same step, as the signal is delivered
synchronously. `replies` are the ACKs and NACKs whose turnaround hold runs; they
survive a halt. `ReplyKeysUp` is the gate. `Confirmation` stands for auto-reply
on with confirmation. The re-arming of the stall timer by a bare "FROM: TO" pair
(`onDirectedPairSeen`) changes nothing here, because an armed timer may expire
at any step.

### ArqLink

The radio path keeps order, loses anything and damages bodies. An answer carries
a number and its kind, no message id, as on the air. `Foreign` adds what
`processCommandActivity` also hands to `onAckReceived`: the peer's ACKs to
somebody else. `DrainFirst` is an assumption of the passing run about the user,
not of the code: see the findings.

### ReliableMessages

Messages are accepted one after the other, each has one report, "complete" only
after a delivery, deliveries in order and at most once for each time the
receiver forgot. `ArqLink` implements it under the mapping that reads
`accepted`, `reports`, `deliveries` and `forgets` directly.

### NativeReceiver

Time is counted in slots, the 3.75 s of a frame, because two constants of the
code only make sense against it: the age limit of orphans and the delay of a
re-ACK. `AirSlot` puts one frame of the peer's burst on the air: it is decoded,
lost, or, if it is the last frame of a text marker, stuck in the text pipeline
for up to `Lag` slots (`TextDecoded`). A frame carries its place in the chunk and
`cc % CHK`; the message and chunk it really came from are history, and so is
`foreign`, the chunks held that were not put together from their own frames.
In the code `finishNativeChunk` and `openNativeChunkWindow` call each other: a
chunk that completes opens the window of the next, which may be complete at once
from orphans. `AutoAdvance` says where that ends: each window on the way drains
what those before it left (`Ahead`), and the chain stops at the first chunk they
do not complete (`FirstGap`) or at the end of the message. An orphan carries its
age, which is also the order of arrival: one frame is heard in a slot. A burst is
a count of slots left (`air`), from which follows what is on the air (`OnAir`).

A reply keys up at the end of its hold (`due`) and is heard only while the peer is
silent; the peer goes on one slot later, when the reply is over. (A first version
let it go on at once. The proof below failed there: between the last frame of a
message and the first of the next no time would have passed.) `Retries`,
`Restarts`, `MaxForgets` bound the peer and the operator. `Timely` says how the
times have to fit together; the model does not assume it, some theorems do.

### Negotiation

`parked` stands for the pending path or link with its companions, `gen` for
`m_capQueryGen`. An attempt is a callback that waits for the transmit path
(`callbacks`, served by `PollTick` while `polling`), then a window (`windows`),
each by the generation it was made for: a callback and a window of an attempt
that is over stay, as in the code, and find the guard of `onCapQueryTimeout`.
`resuming` are the single shots of 1.5 s between answer and transfer. `level` keeps
of a peer's answer what the code tells apart: nothing yet, below 2 (an answer of 0
is cached and handled as 1) and 2 or more. Sessions of
this station start and end at any time and stop the poll as `haltAll` and an idle
tick do. `menu` is the enabled state of *Send file*, which two displays set by
different rules; `OperatorWaits` excludes a request in the second they disagree.

### TxQueue and OutgoingBox

`Less` is the comparison of the code as it stands; `Push` and `Pop` sift as
`std::priority_queue` (libstdc++) does, because with a comparison that is no order
the head of the queue depends on how the heap is built. `Pop` is written without
recursion: the hole walks down the path of larger children (`SinkPath`) to a leaf.
An assumption of `MCOutgoingBox` checks on small heaps that neither drops or
repeats a message; `TxQueue_proofs` proves it.

In `OutgoingBox` a text is a model value with a number of frames. `Arm` is
`prepareNextMessageFrame` on a changed box, `TakeFrame` on an unchanged one;
`FrameEnds` is `stopTx` (next frame, or reset and the single shot for the draft
that is owed); `NothingStaged` is what `prepareSending` does with an armed
message and no frame. `arqActive` is what shuts the queue: a transfer in either
direction. The gate of 30 s after a transmission for messages of low priority is
left out: it delays `ProcessTxQueue`, which nothing forces to happen.
`OnChunkedWantsResponseTx` is a reply past its gates:
snapshot, lock, and injection, which an armed box refuses. `built`, `aired`,
`live` (texts still to be sent) and `holes` are history. `holes` names the four
ways two uses of the box meet that the code does not guard: a reply while a
message is *armed*, with TX *off*, over a *parked* message, and anything in the
*tail* of 750 ms before a restore. Properties that fail there except the case by
name; a mutant shows that each still says something of the rest.

## 3. Runs

| Run | Instance | Shows | States |
|---|---|---|---|
| `sender_safety` | 2 peers, numbers 1..3, ids 1..2, messages of 1 and 2 chunks, 1 retry, 2 sends, 1 callback, 1 restart, settings file kept, lost or edited | types; no send stranded; one report each; own bytes; retries transmitted; the inductive invariant; every send ends | 185 000 |
| `receiver` | messages of 3 and 2 chunks, numbers 1..2 (they wrap), chunks in any order, intact or damaged, 2 replies waiting, 1 halt, refusal or restart | whole, at most once, ACK means kept, timers behind every lock, question behind every held reply; the inductive invariant | 695 000 |
| `link` | messages of 1 and 4 chunks, numbers 1..3 (they wrap inside a message), 2 messages, 1 retry, 2 chunks and 2 replies on the air, 1 loss of memory | complete means delivered; the sender is never ahead; the link implements `ReliableMessages` | 695 000 |
| `native` | messages of 1, 2 and 3 chunks of 4 frames, the last of 1; every second chunk announced, markers up to 2 slots late, 3 orphans kept, 2 retries, 1 Halt; no message started over a window left open (`Restarts = FALSE`) | whole, once; passed means held; re-ACKs meet the listen window; locks have an evict timer | 472 000 |
| `negotiation` | a link and a form for one peer, other sessions with two peers, levels 1 and 2 | wait, lock and clock belong together; each transfer ends once, and ends; forms keep their format; the last query is heard out; the inductive invariant | 208 000 |
| `outgoing_box` | a draft and a forward of 2 frames, an auto-reply of 1, 2 replies | shown is sent, none skipped, no dead text, draft kept and returned, idle means sent, armed ends, lock opens | 185 000 |
| `sender_overtaken`, `receiver_answer`, `link_id_wrap`, `link_overheard`, `negotiation_halt`, `outgoing_order` | smallest instances | the findings below | - |

Bounds. Two sends are enough for every hazard that needs a successor (left-over
shot, left-over timer, late answer); two peers for a poll that serves one and
not the other; two chunks for a first, a last and a next one, and four with
modulus three for a wrap inside a message; one retry for "some left" and "none
left". Native: three messages give a window left by one, a retry of the next and
a third whose tags collide with the first; two retries let a retry itself be
retried; an orphan cap below a chunk's frames makes it bite, and an orphan from
the end of a burst reaches its age limit before the next message. Negotiation:
two transfers let the windows, callbacks and shots of one meet the other. Box:
two messages and a draft are the three kinds of its users; two replies let one
meet the tail of the other. `MaxMsgs`, `MaxCallbacks`, `MaxRestarts`,
`MaxPending`, `MaxInFlight`, `MaxForgets` and `MaxReplies` only bound histories
and queues. `SurplusBound` bounds how far surplus ACKs push the index of a send
past its end in its last hold; past the end all values behave alike. Deadlock is
checked everywhere but in `native`, where it means that every message was sent
and answered and the station is at rest.

Fairness. Armed Qt timers and single shots fire as long as the event loop runs,
and the window's own timer (`guiUpdate`) polls. Sender and negotiation: the poll
ticks, and the safety cap in `onTxIdlePollTick` serves a waiting peer or callback
after a bounded time even if the transmit path never reports idle; so
`PollServes` is weakly fair per peer or generation, as are `OnAckTimerExpired`,
`HoldExpires`, `WindowExpires` and `ResumeFires`. Box: `KeyUp`, `FrameEnds`,
`NothingStaged` and `UnlockBox` are what `guiUpdate` and the modulator do by
themselves, `RestoreFires` is the single shot. Nothing is assumed of peers,
answers, the operator, the transmit path as the sender sees it, or left-over
timers.

## 4. Findings

Each is a run that TLC finds violated; the quotations are in `PROJECT.json`.

1. `TX.SEND_CHUNKED` in the hold after the last ACK of a native send is accepted
   and goes out with the native send's bytes. With a caller that waits this
   cannot happen, which is proved (`CarriesOwnPayload`).
2. A refusal is kept per station and written after the event that clears it; if
   nothing of the refused transfer follows, it decides the next one.
3. After the message id wraps, a new message whose id was delivered before is
   acknowledged and never delivered, as long as the receiver keeps running.
4. An ACK addressed to a third station advances our send.
5. A transfer whose capability answer has just come starts up to 1.5 s after a
   Halt or a callsign change: the single shot that starts it is not cancelled.
6. The comparison of the message queue is no order; a newer message of low
   priority goes out before an older one of high priority.

Met while modelling, without a run of their own: a repeated NACK in a turnaround
hold uses up a retry without a transmission (`RetriesAired` therefore speaks of
text sends); a late ACK of a halted message completes the next one (`ArqLink` with
`DrainFirst = FALSE`); a new native message over the window of an abandoned one
can be taken for the retry of its chunk (`NativeReceiver` with
`Restarts = TRUE`); a native text marker decoded late empties the window that its
own burst is filling, which costs a retry. Three more are behind exceptions that
properties make by name; take the exception away and TLC finds:

* without `OperatorWaits`, `Accounted` fails: *Send file* can be chosen again while
  a transfer negotiates, because `updateTxButtonDisplay` does not ask for the
  session (`mainwindow.cpp:13834`), and the second transfer overwrites the first
  without a notice;
* without *parked*, `DeadTextNeverParks` fails: a parked auto-reply is saved as the
  operator's draft, comes back without its provenance (`mainwindow.cpp:7561`)
  and then blocks the queue and later replies like text the operator typed;
* without *armed*, `NoneSkipped` fails: a reply that is to be sent while a message
  is armed is not put in the box (`addMessageText` returns) and takes a frame of
  that message instead, which is never keyed.

The `link` run therefore holds for sends that stay within one round of ids, hear
only answers meant for them and start on a quiet channel. These are the
conditions under which the protocol is correct: the counterexamples above show
what happens without each, and together with a modulus above two (31 in the code)
they are `Separate` in `ArqLink`, under which the proofs hold.

## 5. Proofs

Assumed are only the constants' types (`WireAssumption`, `SenderAssumption`,
`ReceiverAssumption`, `LinkAssumption`, `NegotiationAssumption`,
`OutgoingBoxAssumption`, `NativeAssumption`) and, where a theorem says so,
`ClientWaits`, `DistinctIds`, `Separate` or `Timely`; nothing bounds peers, chunks,
messages, transfers, retries or restarts.

Sender (`ArqSender_proofs`):

* `Invariance`: `Spec => []IInv`. `IInv` is inductive. The safety properties
  alone are not, because a step may use what a send left behind. What is added:
  a peer without a send has a blank state (a new send starts clean), a native
  send's bytes are its own and as many as its chunks (so that no read is past
  the end), and live sends are different accepted ones (so that a report counts
  for one). The last three groups hold under `ClientWaits` only, and appear in
  `IInv` under that condition; types, `NeverStranded` and `RetriesAired` hold
  for every caller.
* `TypeCorrect`, `NobodyStranded`, `RetriesAreTransmissions`: parts of it.
* `ReportedOnce`, `CarriesOwnPayload`: with a caller that waits.

Receiver (`ArqReceiver_proofs`):

* `Invariance`: `Spec => []IInv`. The properties say nothing of what an assembly
  holds, so they are not inductive. What is added: `OwnChunks`, an assembly
  holds chunks of its own message only, in places that message has; and
  `Remembered`, a message is in `deliveredMsgs` exactly when it was delivered
  since the `RxState` was last dropped. Both need ids that tell the messages
  apart (`DistinctIds`); finding 3 is what happens otherwise. Types, timers and
  the question need no such condition.
* `TypeCorrect`, `LocksAreTimed`, `QuestionStandsWhileHeld`: parts of it.
* `WholeMessagesOnly`, `DeliveredOnce`, `AcknowledgedIsKept`, under
  `DistinctIds`. The code completes a message by counting its chunks; that the
  chunks counted are 1..total follows from `OwnChunks` and the cardinality of a
  subset (`CompleteIsWhole`). `AcknowledgedIsKept` is an action property: a
  second ACK is covered by `Remembered`, a first one by what the step stores.

Link (`ArqLink_proofs`), all under `Separate`:

* `Invariance`: `Spec => []IInv`. An answer on the air carries a number modulo
  `ACK_SEQ_MODULUS` and no message, so the properties rest on what can be on the
  way at all. Added to them: everything under way is of the latest message and,
  while that is being sent, for the chunk outstanding or the one before it
  (`AirOfLatest`, `RepliesOfLatest`), in this order from the sender's ear to the
  receiver's (`UnderWay`), so that once an answer to a chunk is heard nothing of
  an older one follows; three neighbours have three numbers, so a number heard
  names its chunk. The receiver holds all chunks before the outstanding one, or
  has delivered or dropped the message (`PrefixHeld`); an ACK under way is for a
  chunk it holds, and one for the last means the message was delivered
  (`AcksTrue`). The chunks held are a prefix of the message, so counting them, as
  the code does, decides completion. TLC checked `IInv` on the instance of the
  run `link` before it was proved.
* `CompleteIsDelivered`, `NeverAhead`: follow from it.
* `LinkImplements`: `Spec => ImplementsReliableMessages`. A submission maps to
  `Accept`, the step that ends a send to `Report`, the chunk that completes a
  message to `Deliver`, a halt or restart of the receiver to its loss of memory,
  everything else to a stutter. That a message is delivered in order and once,
  and "complete" is reported after its delivery, is where `IInv` is used.

Negotiation (`Negotiation_proofs`):

* `Invariance`: `Spec => []IInv`. Added to the properties: `OneAtATime`, while
  nothing disturbs it a transfer waits or resumes, never two of them (so that the
  end of one 1.5 s closes nobody else's phase); a window's callback is used up (so
  that a tick opens each window once); a form that resumes has its level. The
  parts on locks and places hold for an undisturbed negotiation
  (`Undisturbed`: the operator waits, and no shot outlived a Halt); types,
  `WindowLive`, `LockHasEnd`, `FormsNeverV1` and "ends at most once" hold always.
* `TypeCorrect`, `AlwaysTimed`, `LockPaired`, `TransfersAccounted`,
  `FormsKeepFormat`: parts of it. `LockCovers` is the other direction of
  `LockPaired`: undisturbed, no wait is without its lock. `LastQueryHeardOut` is an action property: the
  window that gives up carries `gen`, so by the second addition its callback is
  not queued any more.

Outgoing box (`OutgoingBox_proofs`):

* `Invariance`: `Spec => []IInv`. Added: `OnAirIsArmed` (no frame without an armed
  message, which is why nothing edits under one), `StagedWhileArmed` (a frame is
  staged between two transmissions, which `NoneSkipped` counts),
  `SnapshotsAreDrafts` and `OneOwed` (a draft is owed only during a transmission,
  one at a time, and the box holds no other draft before it returns: which is
  why the restore overwrites nothing). The heap is left open: this proof holds
  for any order of the queue.
* `TypeCorrect`, `ShowsWhatIsSent`, `SendsEveryFrame`, `NoDeadText`,
  `DraftSurvives`: parts of it.
* `QueueInvariance`: `Spec => []QueueInv`, what the queue is needed for. Where the
  code guards every use of the box, the queue holds every message still to be
  sent but the one in the box (`NoneForgotten`), and the box is empty when a
  draft is about to return to it (`FreeForReturn`, without which a forward taken
  in between would be overwritten). `IdleIsDone` follows: when the transmit path
  reports idle, nothing is left to send.

Queue (`TxQueue_proofs`):

* `PushKeeps`, `PopKeeps`: the heap then holds what it held and the new message,
  or all but its head, for every comparison, also the one of the code, which is
  no order (finding 6). Each is a chain of moves along one path of the heap:
  what a place takes is what the place before it gave up. `LeastNatural` (a
  nonempty set of naturals has a least element) replaces induction here.

Native receiver (`NativeReceiver_proofs`). The handlers are functions of the
receiver's record, so the invariants are predicates on records, and each handler
has one lemma per group of them. Three stages:

* However time passes: `Inductive`, `Spec => []IInv`. `IInv` has the types of the
  records, that no window is left complete, and `Guarded`: what is open or held
  has its evict timer, and the sizes are known of exactly those messages that
  have one or were delivered. `TypeCorrect`, `LocksEnd` and `DeliveredOnce` (at most
  once more than the operator halted) are parts of it.
* When the times fit together (`Timely`): `InTimeAlways`, `Spec => []Synchronous`.
  Every orphan was on the air by now and is older the more chunks or bursts have
  passed since (`OrphansAge`); the window is on the peer's message, one chunk
  ahead at most, and then empty (`WindowNow`); unless chunks were forgotten, the
  receiver holds 1 to the window's chunk less one (`InStep`); a late marker belongs
  to the burst on the air (`LateNow`); a reply is out before the peer stops
  listening, and those of a message before its successor's first burst ends
  (`RepliesNow`). Then no orphan is left that the window behind the peer's chunk
  would take (`NoneAhead`), so the chain of `AutoAdvance` stops there
  (`ChainStops`), and a chunk that is not announced by a marker is made of its own
  frames although nothing checks it. `DeliveryIsWhole` and `PassedIsHeld` follow.
* Still under `Timely`: `LandingAlways`, `Spec => []Landing`, and from it
  `ReAckIsHeard`. A re-ACK keys up after the burst it answers (`Shots`: what is
  left of the burst is no longer than its hold), so only a reply that starts
  another burst before it can spoil it. An ACK starts one only for the next
  chunk, and a message has re-ACKs only when it is delivered, at its last chunk.
  A NACK needs more: that none which the peer would hear waits beside a re-ACK
  (`Nacks`, `Refused`). A window is refused only where its frames are mixed up
  with another chunk's, and from the second chunk on, or once the message is
  delivered, they are not: the orphans that the peer's chunk would take and the
  frames in its window are its own (`OwnOnly`, `WindowOwn`), because an open
  window leaves no orphan that it would take (`NoneWaiting`). So a NACK is of a
  first chunk that is not delivered, and it leaves the window empty with nothing
  to fill it. The message cannot be delivered in the slot before the NACK keys
  up unless its first chunk has one frame, and that chunk is refused only when
  its text marker opens the window: no marker is left in the text pipeline that
  could schedule a re-ACK.

`Timely` says: a new message waits for the last window to close (`~Restarts`, see
the hazard at `ChunkedArq.cpp:1968`); an orphan expires before its number comes
again, after `CHK` chunks of its message, or in the second chunk of the next one,
`TextSlots + FramesOf(u, 1) + 2` slots later at the earliest; the text pipeline
catches up within the burst and before the peer stops listening. With the code's
values the first two read 8 < 15 and 8 < 3 + 4 + 2, the latter for chunks of
`FALLBACK_CHUNK_BYTES`: it is as tight as can be, and with an age limit of one slot
more TLC finds a chunk passed that is made of another message's frames, as it
does with `Restarts`. `MCNativeReceiver` assumes `Timely`, so the run checks that
its instance is one.

Numbers on the air (`ArqWire_proofs`):

* `WireNumberFits`, `NumbersDistinctInMessage`, `NeighboursDiffer`: what a number
  on the air can tell apart for every modulus; the last is what the implicit ACK
  by NACK(k+1) rests on in messages longer than the number space.

The proofs of the steps are by action. Lemmas say what the operations the
handlers share (`Drop`, `Transmit`, `SendNextChunk`, `ScheduleSendNextChunk`;
`Activity`, `Counted`, `Stored`, `Finished`; `Query`, `Dispatch`, `Answered`; `Arm`,
`TakeFrame`, `Owe`, `Reset`, `StopTxMechanical`) do to each part, and each action
reduces to them.

Every safety invariant and action property of the passing runs is stated by a
theorem. Only model-checked: liveness under fairness (`EverySendEnds`,
`EveryTransferEnds`, `ArmedEnds`, `LockOpens`, `DraftReturns`), which is outside
the prover.

## 6. Not modelled

Contents: chunk splitting, wire text, the values of CRCs (a body is intact or
not, a chunk is made of its own frames or not), compression, envelopes, file
names. Progress and restore-text signals. The kind of a received message (inbox,
relay, file). Durations, except the hold against the ack timeout (sender) and the
slots of the native receiver.

Left out of modules that are there: in the native receiver the session phase and
the reply gate, which the text receiver has, the frames of other stations, and
ids that wrap; in the negotiation the queue that carries the query; in the
outgoing box this station's own ARQ chunks, typing into a message on the air,
JTTY, tuning and the slot timing of the transmitter.

What the properties do not see. `RetriesAired` counts hand-overs to the host: a
chunk the host drops because TX is off (`chunkedArqHooks.cpp:97`) is not told apart
from one lost on the air. `AckMeansKept` judges an ACK when it is queued, not when
it keys up: a halt in its hold does not take it back, and nothing in the source
says that it should. `Covered` and `Accounted` claim nothing after a Halt or a
callsign change in the 1.5 s before a transfer (finding 5), nor `DraftKept`,
`NoneSkipped` and `DeadTextNeverParks` in the cases named in `holes`.

Components without a module, in section 1 and `PROJECT.json` with the reason
there: most are tables, presentation or device I/O (widgets, audio, log, rig,
spots), signal processing and bit-level encodings (modem, Varicode), or
vendored code and generated data (the JSC word tables, miniaudio, maps), which
together are nearly all of the repository's lines and hold no state machine.
The ones with a state machine of their own are in the plan.

## 7. Plan

1. `ArqWire`, `ArqSender`, `ArqReceiver`, `ArqLink`, `ReliableMessages`, with the
   proofs of sender, receiver and link, and of the refinement of
   `ReliableMessages`: done.
2. `NativeReceiver`, `Negotiation`, `TxQueue`, `OutgoingBox`, with their proofs:
   done.
3. `OutgoingBox` with this station's own chunks, composed with `ArqSender`; then
   with `Negotiation`, whose query it carries.
4. Kind of a message in `ArqReceiver` (MSG, relay, file), with the flags the
   evict leaves when an id is reused.
5. `TxLoop`, `MqttClient`, `AprsInboundRelay`: small machines with clocks,
   back-off and deduplication.
6. `ReachExecutor`: route attempts against late answers.
7. Pure algorithms: chunk splitting and the ack-timeout arithmetic against
   reference definitions, over bounded inputs.
