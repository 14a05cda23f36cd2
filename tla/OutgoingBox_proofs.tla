------------------------- MODULE OutgoingBox_proofs -------------------------
(***************************************************************************)
(* What holds of the outgoing box for every set of drafts and messages,    *)
(* every number of frames and of replies.                                  *)
(***************************************************************************)
EXTENDS OutgoingBox, TxQueue_proofs, TLAPS

LEMMA InitInv == Init => IInv
<1> SUFFICES ASSUME Init PROVE IInv
  OBVIOUS
<1>1. TypeOK
  <2>1. /\ readOnly \in BOOLEAN /\ staged \in BOOLEAN /\ transmitting \in BOOLEAN
        /\ pending \in BOOLEAN /\ auto \in BOOLEAN /\ txOn \in BOOLEAN
        /\ arqActive \in BOOLEAN
    BY DEF Init
  <2>2. shots \in Seq(Texts \cup {NoText})
    BY DEF Init
  <2>3. replies \in 0..MaxReplies
    BY OutgoingBoxAssumption DEF Init
  <2>4. /\ box \in Texts \cup {NoText} /\ injected \in Messages \cup {NoText}
        /\ counted \in Nat /\ left \in Nat /\ aired \in Nat
        /\ built \in Texts \cup {NoText} /\ saved \in Texts \cup {NoText}
        /\ enqueued \subseteq Messages /\ live \subseteq Texts
        /\ holes \subseteq {"tail", "armed", "off", "parked"}
    BY DEF Init
  <2> QED
    BY <2>1, <2>2, <2>3, <2>4 DEF TypeOK
<1>2. ~Armed
  BY DEF Init, Armed
<1> QED
  BY <1>1, <1>2, OutgoingBoxAssumption
  DEF Init, IInv, ShownIsSent, NoneSkipped, DeadTextNeverParks, DraftKept,
      OnAirIsArmed, StagedWhileArmed, SnapshotsAreDrafts, OneOwed

-----------------------------------------------------------------------------
(* A draft that is owed goes into a single shot, and nothing else changes. *)
LEMMA OweFacts ==
  ASSUME TypeOK, Owe
  PROVE  /\ saved' \in Texts \cup {NoText} /\ ~pending'
         /\ pending' \in BOOLEAN
         /\ shots' \in Seq(Texts \cup {NoText})
         /\ Snapshots' = Snapshots
         /\ ~pending => saved' = saved /\ shots' = shots
         /\ pending => saved' = NoText /\ shots' = Append(shots, saved)
         /\ pending /\ shots = <<>> => Len(shots') = 1
<1>1. CASE pending
  <2>1. saved' = NoText /\ pending' = FALSE /\ shots' = Append(shots, saved)
    BY <1>1 DEF Owe
  <2>2. saved \in Texts \cup {NoText} /\ shots \in Seq(Texts \cup {NoText})
    BY DEF TypeOK
  <2>3. shots' \in Seq(Texts \cup {NoText})
    BY <2>1, <2>2
  <2>4. {shots'[i] : i \in DOMAIN shots'} = {shots[i] : i \in DOMAIN shots} \cup {saved}
    BY <2>1, <2>2
  <2>5. Snapshots' = Snapshots
    BY <1>1, <2>1, <2>4 DEF Snapshots
  <2>6. shots = <<>> => Len(shots') = 1
    BY <2>1, <2>2
  <2> QED
    BY <1>1, <2>1, <2>3, <2>5, <2>6
<1>2. CASE ~pending
  <2>1. UNCHANGED <<saved, pending, shots>>
    BY <1>2 DEF Owe, restore
  <2> QED
    BY <1>2, <2>1 DEF TypeOK, Snapshots
<1> QED
  BY <1>1, <1>2

(***************************************************************************)
(* The end of a transmission: the box is cleared and the draft is given    *)
(* back.  What is still to be sent must not be in the box that is cleared. *)
(***************************************************************************)
LEMMA StopKeeps ==
  ASSUME IInv, Reset,
         Owe \/ (~Armed /\ UNCHANGED restore),
         live' \subseteq live,
         Clean => box \notin live' \cap Drafts,
         UNCHANGED <<auto, arqActive, enqueued, replies, holes>>,
         txOn' \in BOOLEAN
  PROVE  IInv'
<1>1. TypeOK
  BY DEF IInv
<1>2. /\ saved' \in Texts \cup {NoText} /\ pending' \in BOOLEAN
      /\ shots' \in Seq(Texts \cup {NoText})
      /\ Snapshots' = Snapshots
  <2>1. CASE Owe
    BY <1>1, <2>1, OweFacts
  <2>2. CASE UNCHANGED restore
    BY <1>1, <2>2 DEF restore, TypeOK, Snapshots
  <2> QED
    BY <2>1, <2>2
<1>3. TypeOK'
  <2>1. /\ auto' \in BOOLEAN /\ txOn' \in BOOLEAN /\ arqActive' \in BOOLEAN
        /\ enqueued' \subseteq Messages /\ live' \subseteq Texts
        /\ replies' \in 0..MaxReplies
        /\ holes' \subseteq {"tail", "armed", "off", "parked"}
    BY <1>1 DEF TypeOK
  <2> QED
    BY <1>2, <2>1 DEF Reset, TypeOK
<1>4. ~Armed'
  BY DEF Reset, Armed
<1>5. ShownIsSent' /\ NoneSkipped' /\ StagedWhileArmed'
  BY <1>4 DEF ShownIsSent, NoneSkipped, StagedWhileArmed
<1>6. DeadTextNeverParks' /\ OnAirIsArmed'
  BY OutgoingBoxAssumption DEF Reset, DeadTextNeverParks, OnAirIsArmed
<1>7. DraftKept'
  BY <1>2 DEF IInv, DraftKept, Clean
<1>8. SnapshotsAreDrafts'
  <2>1. CASE Owe /\ pending
    <3>1. saved' = NoText /\ shots' = Append(shots, saved)
      BY <1>1, <2>1, OweFacts
    <3>2. saved \in Texts \cup {NoText} /\ shots \in Seq(Texts \cup {NoText})
      BY <1>1 DEF TypeOK
    <3>3. \A i \in DOMAIN shots' : shots'[i] = saved \/ \E j \in DOMAIN shots : shots'[i] = shots[j]
      BY <3>1, <3>2
    <3> QED
      BY <3>1, <3>3 DEF IInv, SnapshotsAreDrafts
  <2>2. CASE UNCHANGED <<saved, shots>>
    BY <2>2 DEF IInv, SnapshotsAreDrafts
  <2> QED
    BY <1>1, <2>1, <2>2, OweFacts DEF restore
<1>9. OneOwed'
  <2>1. box' \notin Drafts
    BY OutgoingBoxAssumption DEF Reset, Texts
  <2>2. CASE Owe
    <3>1. ~pending' /\ (~pending => shots' = shots)
          /\ (pending /\ shots = <<>> => Len(shots') = 1)
      BY <1>1, <2>2, OweFacts
    <3>2. Clean' => Clean
      BY DEF Clean
    <3>3. Clean => (pending => shots = <<>>) /\ Len(shots) <= 1
      BY DEF IInv, OneOwed
    <3>4. Clean' => Len(shots') <= 1
      <4>1. CASE pending
        <5>1. Clean' => Len(shots') = 1
          BY <3>1, <3>2, <3>3, <4>1, Zenon
        <5>2. Len(shots') = 1 => Len(shots') <= 1
          BY SMT
        <5> QED
          BY <5>1, <5>2, Zenon
      <4>2. CASE ~pending
        <5>1. shots' = shots
          BY <3>1, <4>2, Zenon
        <5> QED
          BY <3>2, <3>3, <5>1
      <4> QED
        BY <4>1, <4>2
    <3> QED
      BY <2>1, <3>1, <3>4 DEF OneOwed
  <2>3. CASE ~Armed /\ UNCHANGED restore
    BY <2>1, <2>3 DEF IInv, OneOwed, Clean, restore
  <2> QED
    BY <2>2, <2>3
<1> QED
  BY <1>3, <1>5, <1>6, <1>7, <1>8, <1>9 DEF IInv

LEMMA MechanicalOwes ==
  ASSUME StopTxMechanical
  PROVE  Reset /\ (Owe \/ (~Armed /\ UNCHANGED restore))
BY DEF StopTxMechanical

LEMMA HaltKeeps ==
  ASSUME IInv, HaltAll
  PROVE  IInv'
<1>1. txOn' \in BOOLEAN
  BY DEF IInv, TypeOK, HaltAll
<1> QED
  BY <1>1, StopKeeps, MechanicalOwes DEF HaltAll

LEMMA ChangeBandKeeps ==
  ASSUME IInv, ChangeBand
  PROVE  IInv'
<1>1. txOn' \in BOOLEAN
  BY DEF IInv, TypeOK, ChangeBand, switches
<1> QED
  BY <1>1, StopKeeps, MechanicalOwes DEF ChangeBand, switches

(* With nothing staged a reply has come while the message was armed.       *)
LEMMA NothingStagedKeeps ==
  ASSUME IInv, NothingStaged
  PROVE  IInv'
<1>1. txOn' \in BOOLEAN
  BY DEF IInv, TypeOK, NothingStaged, switches
<1>2. ~Clean
  BY DEF IInv, StagedWhileArmed, NothingStaged, Clean
<1> QED
  BY <1>1, <1>2, StopKeeps, MechanicalOwes DEF NothingStaged, switches, history

LEMMA FrameEndsKeeps ==
  ASSUME IInv, FrameEnds
  PROVE  IInv'
<1>1. transmitting /\ shots = <<>> /\ Armed
  BY DEF IInv, OnAirIsArmed, FrameEnds
<1>2. CASE left = 0 /\ Reset /\ Owe /\ live' = live \ {built}
  <2>1. box = built
    BY <1>1 DEF IInv, ShownIsSent
  <2>2. txOn' \in BOOLEAN
    BY DEF IInv, TypeOK, FrameEnds, switches
  <2> QED
    BY <1>2, <2>1, <2>2, StopKeeps DEF FrameEnds, switches
<1>3. CASE /\ left > 0
           /\ TakeFrame /\ transmitting' = FALSE
           /\ UNCHANGED <<box, readOnly, injected, counted, built, aired, restore, live>>
  <2>0. left \in Nat
    BY DEF IInv, TypeOK
  <2>7. left' = left - 1 /\ left' \in Nat
    BY <1>3, <2>0 DEF TakeFrame
  <2>8. staged' = TRUE
    BY <1>3 DEF TakeFrame
  <2>1. left \in Nat /\ left' = left - 1 /\ left' \in Nat /\ staged' = TRUE
    BY <2>0, <2>7, <2>8
  <2>2. UNCHANGED <<saved, pending, shots, auto, txOn, arqActive, enqueued, replies, holes>>
    BY <1>3 DEF FrameEnds, switches, restore
  <2>3. TypeOK'
    BY <1>3, <2>1, <2>2 DEF IInv, TypeOK
  <2>4. ShownIsSent' /\ StagedWhileArmed' /\ OnAirIsArmed' /\ DeadTextNeverParks'
    BY <1>1, <1>3, <2>1 DEF IInv, ShownIsSent, StagedWhileArmed, OnAirIsArmed,
       DeadTextNeverParks, Armed
  <2>5. NoneSkipped'
    BY <1>1, <1>3, <2>1, <2>2 DEF IInv, TypeOK, NoneSkipped, Waiting, Armed
  <2>6. DraftKept' /\ SnapshotsAreDrafts' /\ OneOwed'
    BY <1>1, <1>3, <2>2 DEF IInv, DraftKept, SnapshotsAreDrafts, OneOwed, Clean,
       Snapshots, Armed
  <2> QED
    BY <2>3, <2>4, <2>5, <2>6 DEF IInv
<1> QED
  BY <1>2, <1>3 DEF FrameEnds, StopTx

-----------------------------------------------------------------------------
(* A message that is armed in an idle box.                                 *)
LEMMA ArmKeeps ==
  ASSUME IInv, NEW t \in Texts, ~QueuedForTransmit,
         counted' = Frames[t], left' = Frames[t] - 1, staged' = TRUE,
         built' = t, aired' = 0, transmitting' = transmitting, box' = t
  PROVE  /\ counted' \in Nat /\ left' \in Nat /\ aired' \in Nat
         /\ staged' \in BOOLEAN /\ transmitting' \in BOOLEAN
         /\ built' \in Texts \cup {NoText} /\ box' \in Texts \cup {NoText}
         /\ Armed'
         /\ ShownIsSent' /\ NoneSkipped' /\ DeadTextNeverParks'
         /\ OnAirIsArmed' /\ StagedWhileArmed'
<1>1. Frames[t] \in Nat \ {0}
  BY OutgoingBoxAssumption
<1>2. transmitting = FALSE
  BY DEF IInv, TypeOK, QueuedForTransmit
<1>3. Armed'
  BY <1>1 DEF Armed
<1>4. NoneSkipped'
  BY <1>1, <1>2 DEF NoneSkipped, Waiting
<1>5. counted' \in Nat /\ left' \in Nat /\ aired' \in Nat
  BY <1>1
<1>6. staged' \in BOOLEAN /\ transmitting' \in BOOLEAN
  BY <1>2
<1>7. built' \in Texts \cup {NoText} /\ box' \in Texts \cup {NoText}
  OBVIOUS
<1>8. ShownIsSent' /\ DeadTextNeverParks' /\ OnAirIsArmed' /\ StagedWhileArmed'
  BY <1>3 DEF ShownIsSent, DeadTextNeverParks, OnAirIsArmed, StagedWhileArmed
<1> QED
  BY <1>3, <1>4, <1>5, <1>6, <1>7, <1>8

LEMMA StartTxKeeps ==
  ASSUME IInv, StartTx
  PROVE  IInv'
<1>1. box \in Texts
  BY DEF IInv, TypeOK, StartTx
<1>2. UNCHANGED <<box, saved, pending, shots, auto, txOn, arqActive, enqueued,
                  live, replies, holes>>
  BY DEF StartTx, restore, switches, history
<1>3. /\ counted' \in Nat /\ left' \in Nat /\ aired' \in Nat
      /\ staged' \in BOOLEAN /\ transmitting' \in BOOLEAN
      /\ built' \in Texts \cup {NoText} /\ box' \in Texts \cup {NoText}
      /\ Armed'
      /\ ShownIsSent' /\ NoneSkipped' /\ DeadTextNeverParks'
      /\ OnAirIsArmed' /\ StagedWhileArmed'
  BY <1>1, <1>2, ArmKeeps DEF StartTx, Arm
<1>4. readOnly' \in BOOLEAN /\ injected' \in Messages \cup {NoText}
  BY <1>2 DEF StartTx, Arm, IInv, TypeOK
<1>5. TypeOK'
  BY <1>2, <1>3, <1>4 DEF IInv, TypeOK
<1>6. DraftKept' /\ SnapshotsAreDrafts' /\ OneOwed'
  BY <1>2, <1>3 DEF IInv, DraftKept, SnapshotsAreDrafts, OneOwed, Clean, Snapshots
<1> QED
  BY <1>3, <1>5, <1>6 DEF IInv

LEMMA ProcessTxQueueKeeps ==
  ASSUME IInv, NEW m \in Messages, ProcessTxQueue(m)
  PROVE  IInv'
<1>1. /\ MayDrain /\ ~QueuedForTransmit /\ ~Armed
      /\ UNCHANGED <<auto, txOn, arqActive, enqueued, replies>>
  BY DEF ProcessTxQueue, MayDrain, QueuedForTransmit, switches
<1>2. m \in Texts /\ m \notin Drafts
  BY OutgoingBoxAssumption DEF Texts
<1>3. box \notin Drafts /\ injected \notin Drafts
  BY <1>1, OutgoingBoxAssumption
  DEF MayDrain, BoxHoldsParkedAutoReply, IInv, TypeOK, Texts
<1>4. CASE /\ box' = m /\ injected' = m
           /\ UNCHANGED restore
           /\ Arm(m)
           /\ live' = live \ {injected}
           /\ UNCHANGED holes
  <2>1. UNCHANGED <<saved, pending, shots>>
    BY <1>4 DEF restore
  <2>2. /\ counted' \in Nat /\ left' \in Nat /\ aired' \in Nat
        /\ staged' \in BOOLEAN /\ transmitting' \in BOOLEAN
        /\ built' \in Texts \cup {NoText} /\ box' \in Texts \cup {NoText}
        /\ Armed'
        /\ ShownIsSent' /\ NoneSkipped' /\ DeadTextNeverParks'
        /\ OnAirIsArmed' /\ StagedWhileArmed'
    BY <1>1, <1>2, <1>4, ArmKeeps DEF Arm
  <2>3. readOnly' \in BOOLEAN
    BY <1>4, <2>1 DEF Arm, IInv, TypeOK
  <2>4. TypeOK'
    BY <1>1, <1>4, <2>1, <2>2, <2>3 DEF IInv, TypeOK
  <2>5. DraftKept'
    BY <1>3, <1>4, <2>1 DEF IInv, DraftKept, Clean, Snapshots
  <2>6. SnapshotsAreDrafts' /\ OneOwed'
    BY <1>2, <1>4, <2>1, <2>2 DEF IInv, SnapshotsAreDrafts, OneOwed, Clean
  <2> QED
    BY <2>2, <2>4, <2>5, <2>6 DEF IInv
<1>5. CASE /\ Reset /\ Owe
           /\ live' = live \ {injected, m}
           /\ UNCHANGED holes
  <2>1. txOn' \in BOOLEAN
    BY <1>1 DEF IInv, TypeOK
  <2> QED
    BY <1>1, <1>3, <1>5, <2>1, StopKeeps
<1>6. CASE /\ box' = m /\ injected' = m
           /\ live' = live \ {injected}
           /\ holes' = holes \cup IF shots # <<>> THEN {"tail"} ELSE {}
           /\ UNCHANGED <<frames, readOnly, restore>>
  <2>1. /\ UNCHANGED <<saved, pending, shots, counted, left, staged, transmitting,
                       built, aired, readOnly>>
        /\ Armed' = Armed
    BY <1>6 DEF restore, frames, Armed
  <2>2. TypeOK'
    BY <1>1, <1>2, <1>6, <2>1 DEF IInv, TypeOK
  <2>3. ShownIsSent' /\ NoneSkipped' /\ StagedWhileArmed' /\ DeadTextNeverParks'
    BY <1>1, <1>6, <2>1
    DEF ShownIsSent, NoneSkipped, StagedWhileArmed, DeadTextNeverParks
  <2>4. OnAirIsArmed'
    BY <2>1 DEF IInv, OnAirIsArmed
  <2>5. DraftKept'
    BY <1>3, <1>6, <2>1 DEF IInv, DraftKept, Clean, Snapshots
  <2>6. SnapshotsAreDrafts'
    BY <1>6, <2>1 DEF IInv, SnapshotsAreDrafts
  <2>7. OneOwed'
    BY <1>1, <1>2, <1>6, <2>1 DEF IInv, OneOwed, Clean
  <2> QED
    BY <2>2, <2>3, <2>4, <2>5, <2>6, <2>7 DEF IInv
<1> QED
  BY <1>4, <1>5, <1>6 DEF ProcessTxQueue

-----------------------------------------------------------------------------
(* A reply over an armed message changes its frames and nothing in the box;*)
(* over an idle one the draft is saved first.                              *)
LEMMA ReplyKeeps ==
  ASSUME IInv, OnChunkedWantsResponseTx
  PROVE  IInv'
<1>1. /\ UNCHANGED <<injected, auto, txOn, arqActive, enqueued, live, shots>>
      /\ pending' = TRUE
      /\ saved' = IF pending THEN saved ELSE IF Busy THEN NoText ELSE box
      /\ holes' = holes \cup Hole
      /\ holes \subseteq holes'
  BY DEF OnChunkedWantsResponseTx, SaveDraft, switches, IInv, TypeOK
<1>2. readOnly' \in BOOLEAN /\ replies' \in 0..MaxReplies
  <2>1. readOnly \in BOOLEAN /\ replies \in 0..MaxReplies /\ MaxReplies \in Nat
    BY OutgoingBoxAssumption DEF IInv, TypeOK
  <2>2. readOnly' \in BOOLEAN
    BY <2>1 DEF OnChunkedWantsResponseTx
  <2>3. replies < MaxReplies /\ replies' = replies + 1
    BY DEF OnChunkedWantsResponseTx
  <2> QED
    BY <2>1, <2>2, <2>3
<1>3. /\ saved' \in Texts \cup {NoText} /\ pending' \in BOOLEAN
      /\ shots' \in Seq(Texts \cup {NoText})
      /\ holes' \subseteq {"tail", "armed", "off", "parked"}
  BY <1>1 DEF IInv, TypeOK, Hole
<1>4. SnapshotsAreDrafts'
  <2>1. CASE ~pending /\ ~Busy
    <3>1. box \in Messages => "parked" \in holes'
      BY <1>1, <2>1 DEF Hole
    <3>2. box = Reply => "parked" \in holes
      BY <2>1, OutgoingBoxAssumption
      DEF IInv, DeadTextNeverParks, Busy, QueuedForTransmit, TypeOK, Texts
    <3>3. "parked" \notin holes' => saved' \in Drafts \cup {NoText}
      BY <1>1, <2>1, <3>1, <3>2 DEF IInv, TypeOK, Texts
    <3> QED
      BY <1>1, <3>3 DEF IInv, SnapshotsAreDrafts
  <2>2. CASE pending \/ Busy
    BY <1>1, <2>2 DEF IInv, SnapshotsAreDrafts
  <2> QED
    BY <2>1, <2>2
<1>5. CASE QueuedForTransmit
  <2>1. "armed" \in holes' /\ ~Clean'
    BY <1>1, <1>5 DEF Hole, Clean
  <2>2. /\ Armed
        /\ UNCHANGED <<box, counted, transmitting, built, aired>>
    BY <1>5 DEF OnChunkedWantsResponseTx, OnChunkedWantToTransmit, frames,
       IInv, OnAirIsArmed, QueuedForTransmit
  <2>3. staged' \in BOOLEAN /\ left' \in Nat
    <3>1. CASE txOn
      BY <1>5, <3>1 DEF OnChunkedWantsResponseTx, OnChunkedWantToTransmit, TakeFrame,
         IInv, TypeOK
    <3>2. CASE ~txOn
      BY <3>2 DEF OnChunkedWantsResponseTx, frames, IInv, TypeOK
    <3> QED
      BY <3>1, <3>2
  <2>4. TypeOK'
    BY <1>1, <1>2, <1>3, <2>2, <2>3 DEF IInv, TypeOK
  <2>5. Armed' /\ ShownIsSent' /\ OnAirIsArmed' /\ DeadTextNeverParks'
    BY <2>2 DEF IInv, ShownIsSent, OnAirIsArmed, DeadTextNeverParks, Armed
  <2> QED
    BY <1>4, <2>1, <2>4, <2>5
    DEF IInv, NoneSkipped, StagedWhileArmed, DraftKept, OneOwed
<1>6. CASE ~QueuedForTransmit /\ ~txOn
  <2>1. "off" \in holes' /\ ~Clean'
    BY <1>1, <1>6 DEF Hole, Clean
  <2>2. UNCHANGED <<box, counted, left, staged, transmitting, built, aired>>
    BY <1>6 DEF OnChunkedWantsResponseTx, frames
  <2>3. TypeOK'
    BY <1>1, <1>2, <1>3, <2>2 DEF IInv, TypeOK
  <2>4. ~Armed' /\ ~Armed
    BY <1>6, <2>2 DEF Armed, QueuedForTransmit
  <2>5. OnAirIsArmed' /\ DeadTextNeverParks'
    BY <1>1, <2>2 DEF IInv, OnAirIsArmed, DeadTextNeverParks, Armed
  <2> QED
    BY <1>4, <2>1, <2>3, <2>4, <2>5
    DEF IInv, ShownIsSent, NoneSkipped, StagedWhileArmed, DraftKept, OneOwed
<1>7. CASE ~QueuedForTransmit /\ txOn
  <2>0. Reply \in Texts /\ Reply \notin Drafts
    BY OutgoingBoxAssumption DEF Texts
  <2>1. /\ counted' = Frames[Reply] /\ left' = Frames[Reply] - 1 /\ staged' = TRUE
        /\ built' = Reply /\ aired' = 0 /\ transmitting' = transmitting
        /\ box' = Reply
    BY <1>7 DEF OnChunkedWantsResponseTx, OnChunkedWantToTransmit
  <2>2. /\ counted' \in Nat /\ left' \in Nat /\ aired' \in Nat
        /\ staged' \in BOOLEAN /\ transmitting' \in BOOLEAN
        /\ built' \in Texts \cup {NoText} /\ box' \in Texts \cup {NoText}
        /\ Armed'
        /\ ShownIsSent' /\ NoneSkipped' /\ DeadTextNeverParks'
        /\ OnAirIsArmed' /\ StagedWhileArmed'
    BY <1>7, <2>0, <2>1, ArmKeeps
  <2>3. TypeOK'
    BY <1>1, <1>2, <1>3, <2>2 DEF IInv, TypeOK
  <2>4. ~Armed /\ (Clean' => Clean /\ shots = <<>> /\ ~pending)
    BY <1>1, <1>7 DEF QueuedForTransmit, Clean, Hole, IInv, OneOwed
  <2>5. ~Busy
    BY <1>7, <2>4 DEF Busy, IInv, OnAirIsArmed
  <2>6. DraftKept'
    <3> SUFFICES ASSUME Clean', NEW d \in live' \cap Drafts
                 PROVE  d \in Snapshots'
      BY DEF DraftKept
    <3>1. d \in {box} \cup Snapshots /\ Snapshots = {}
      BY <1>1, <2>4 DEF IInv, DraftKept, Snapshots
    <3> QED
      BY <1>1, <2>4, <2>5, <3>1 DEF Snapshots
  <2>7. OneOwed'
    BY <1>1, <2>0, <2>1, <2>2, <2>4 DEF OneOwed
  <2> QED
    BY <1>4, <2>2, <2>3, <2>6, <2>7 DEF IInv
<1> QED
  BY <1>5, <1>6, <1>7

(* A restore finds the box idle, or hands its draft on.                    *)
LEMMA RestoreKeeps ==
  ASSUME IInv, RestoreFires
  PROVE  IInv'
<1>1. /\ UNCHANGED <<injected, counted, left, staged, transmitting, built, aired,
                     auto, txOn, arqActive, enqueued, live, replies, holes>>
      /\ Armed' = Armed
  BY DEF RestoreFires, frames, switches, history, Armed
<1>2. /\ shots \in Seq(Texts \cup {NoText}) /\ shots # <<>>
      /\ shots' = Tail(shots)
  BY DEF IInv, TypeOK, RestoreFires
<1>11. Len(shots) \in Nat /\ Len(shots) >= 1 /\ DOMAIN shots = 1..Len(shots)
  BY <1>2
<1>12. shots' \in Seq(Texts \cup {NoText}) /\ Len(shots') = Len(shots) - 1
  BY <1>2
<1>13. DOMAIN shots' = 1..(Len(shots) - 1)
  BY <1>12
<1>14. \A i \in 1..(Len(shots) - 1) : shots'[i] = shots[i + 1]
  BY <1>2
<1>15. Head(shots) = shots[1] /\ 1 \in DOMAIN shots
  BY <1>2, <1>11
<1>16. Head(shots) \in Texts \cup {NoText}
  BY <1>2
<1>17. \A i \in DOMAIN shots' : i + 1 \in DOMAIN shots /\ shots'[i] = shots[i + 1]
  BY <1>11, <1>13, <1>14
<1>18. Len(shots) = 1 => shots' = <<>>
  BY <1>12
<1>3. /\ Head(shots) = shots[1] /\ 1 \in DOMAIN shots
      /\ Head(shots) \in Texts \cup {NoText}
      /\ shots' \in Seq(Texts \cup {NoText})
      /\ \A i \in DOMAIN shots' : i + 1 \in DOMAIN shots /\ shots'[i] = shots[i + 1]
      /\ Len(shots) = 1 => shots' = <<>>
      /\ Len(shots) <= 1 => Len(shots) = 1
  BY <1>11, <1>12, <1>15, <1>16, <1>17, <1>18
<1>4. Clean => ~pending /\ Len(shots) = 1 /\ shots' = <<>> /\ box \notin Drafts
               /\ Snapshots = {Head(shots)}
  <2> SUFFICES ASSUME Clean
               PROVE  ~pending /\ Len(shots) = 1 /\ shots' = <<>> /\ box \notin Drafts
                      /\ Snapshots = {Head(shots)}
    OBVIOUS
  <2>1. ~pending /\ Len(shots) = 1 /\ box \notin Drafts
    BY <1>2, <1>3 DEF IInv, OneOwed
  <2>2. DOMAIN shots = {1}
    BY <1>2, <2>1
  <2> QED
    BY <1>3, <2>1, <2>2 DEF Snapshots
<1>5. CASE RestoreBlocked
  <2>1. /\ UNCHANGED <<box, readOnly>>
        /\ saved' = IF pending THEN saved ELSE Head(shots)
        /\ pending' = TRUE
    BY <1>5 DEF RestoreFires, Restash
  <2>2. Armed
    BY <1>5 DEF RestoreBlocked, Busy, QueuedForTransmit, IInv, OnAirIsArmed
  <2>3. saved' \in Texts \cup {NoText} /\ pending' \in BOOLEAN
    BY <1>3, <2>1 DEF IInv, TypeOK
  <2>4. TypeOK'
    BY <1>1, <1>3, <2>1, <2>3 DEF IInv, TypeOK
  <2>5. ShownIsSent' /\ NoneSkipped' /\ StagedWhileArmed' /\ OnAirIsArmed' /\ DeadTextNeverParks'
    BY <1>1, <2>1, <2>2 DEF IInv, ShownIsSent, NoneSkipped, Waiting, StagedWhileArmed,
       OnAirIsArmed, DeadTextNeverParks
  <2>6. SnapshotsAreDrafts'
    BY <1>1, <1>3, <2>1 DEF IInv, SnapshotsAreDrafts
  <2>7. DraftKept'
    BY <1>1, <1>4, <2>1 DEF IInv, DraftKept, Clean, Snapshots
  <2>8. OneOwed'
    BY <1>1, <1>4, <2>1, <2>2 DEF OneOwed, Clean
  <2> QED
    BY <2>4, <2>5, <2>6, <2>7, <2>8 DEF IInv
<1>6. CASE ~RestoreBlocked
  <2>1. box' = Head(shots) /\ readOnly' = FALSE /\ UNCHANGED <<saved, pending>>
    BY <1>6 DEF RestoreFires
  <2>2. ~Armed
    BY <1>6 DEF RestoreBlocked, Busy, QueuedForTransmit
  <2>3. TypeOK'
    BY <1>1, <1>3, <2>1 DEF IInv, TypeOK
  <2>4. ShownIsSent' /\ NoneSkipped' /\ StagedWhileArmed'
    BY <1>1, <2>2 DEF ShownIsSent, NoneSkipped, StagedWhileArmed
  <2>5. OnAirIsArmed'
    BY <1>1 DEF IInv, OnAirIsArmed
  <2>6. DeadTextNeverParks'
    BY <1>1, <1>3, <2>1, OutgoingBoxAssumption
    DEF IInv, SnapshotsAreDrafts, DeadTextNeverParks, Texts
  <2>7. SnapshotsAreDrafts'
    BY <1>1, <1>3, <2>1 DEF IInv, SnapshotsAreDrafts
  <2>8. DraftKept'
    BY <1>1, <1>4, <2>1 DEF IInv, DraftKept, Clean
  <2>9. OneOwed'
    BY <1>1, <1>4, <2>1, <2>2 DEF OneOwed, Clean
  <2> QED
    BY <2>3, <2>4, <2>5, <2>6, <2>7, <2>8, <2>9 DEF IInv
<1> QED
  BY <1>5, <1>6

-----------------------------------------------------------------------------
(* The steps that touch one part only.                                     *)
LEMMA EditKeeps ==
  ASSUME IInv, NEW t \in Drafts \cup {NoText}, Edit(t)
  PROVE  IInv'
<1>1. TypeOK'
  BY OutgoingBoxAssumption DEF IInv, TypeOK, Texts, Edit, frames, restore, switches
<1>2. ShownIsSent'
  BY OutgoingBoxAssumption DEF IInv, ShownIsSent, Armed, Edit, frames, restore, switches, TypeOK
<1>3. NoneSkipped'
  BY OutgoingBoxAssumption DEF IInv, NoneSkipped, Waiting, Armed, Edit, frames, restore, switches
<1>4. DeadTextNeverParks'
  <2>1. box' = t /\ t \notin Messages \cup {Reply}
    BY OutgoingBoxAssumption DEF Edit, Texts
  <2> QED
    BY <2>1 DEF DeadTextNeverParks
<1>5. DraftKept'
  BY OutgoingBoxAssumption DEF IInv, DraftKept, Clean, Snapshots, Edit, frames, restore, switches, OneOwed, Armed, OnAirIsArmed
<1>6. OnAirIsArmed'
  BY OutgoingBoxAssumption DEF IInv, OnAirIsArmed, Armed, Edit, frames, restore, switches
<1>7. StagedWhileArmed'
  BY OutgoingBoxAssumption DEF IInv, StagedWhileArmed, Armed, Edit, frames, restore, switches
<1>8. SnapshotsAreDrafts'
  BY OutgoingBoxAssumption DEF IInv, SnapshotsAreDrafts, Edit, frames, restore, switches
<1>9. OneOwed'
  BY OutgoingBoxAssumption DEF IInv, OneOwed, Clean, Armed, Edit, frames, restore, switches
<1> QED
  BY <1>1, <1>2, <1>3, <1>4, <1>5, <1>6, <1>7, <1>8, <1>9 DEF IInv

LEMMA SwitchKeeps ==
  ASSUME IInv, Switch
  PROVE  IInv'
<1>1. TypeOK'
  <2>1. auto \in BOOLEAN /\ txOn \in BOOLEAN /\ arqActive \in BOOLEAN
    BY DEF IInv, TypeOK
  <2>2. auto' \in BOOLEAN /\ txOn' \in BOOLEAN /\ arqActive' \in BOOLEAN
    BY <2>1, Zenon DEF Switch
  <2>3. UNCHANGED <<box, readOnly, injected, counted, left, staged, transmitting,
                    built, aired, saved, pending, shots, enqueued, live, replies, holes>>
    BY DEF Switch, frames, restore, history
  <2> QED
    BY <2>2, <2>3 DEF IInv, TypeOK
<1>2. ShownIsSent'
  BY OutgoingBoxAssumption DEF IInv, ShownIsSent, Armed, Switch, frames, restore, history
<1>3. NoneSkipped'
  BY OutgoingBoxAssumption DEF IInv, NoneSkipped, Waiting, Armed, Switch, frames, restore, history
<1>4. DeadTextNeverParks'
  BY OutgoingBoxAssumption DEF IInv, DeadTextNeverParks, Armed, Switch, frames, restore, history
<1>5. DraftKept'
  BY OutgoingBoxAssumption DEF IInv, DraftKept, Clean, Snapshots, Switch, frames, restore, history
<1>6. OnAirIsArmed'
  BY OutgoingBoxAssumption DEF IInv, OnAirIsArmed, Armed, Switch, frames, restore, history
<1>7. StagedWhileArmed'
  BY OutgoingBoxAssumption DEF IInv, StagedWhileArmed, Armed, Switch, frames, restore, history
<1>8. SnapshotsAreDrafts'
  BY OutgoingBoxAssumption DEF IInv, SnapshotsAreDrafts, Switch, frames, restore, history
<1>9. OneOwed'
  BY OutgoingBoxAssumption DEF IInv, OneOwed, Clean, Armed, Switch, frames, restore, history
<1> QED
  BY <1>1, <1>2, <1>3, <1>4, <1>5, <1>6, <1>7, <1>8, <1>9 DEF IInv

LEMMA ClearKeeps ==
  ASSUME IInv, ClearOutgoing
  PROVE  IInv'
<1>1. TypeOK'
  BY OutgoingBoxAssumption DEF IInv, TypeOK, Texts, ClearOutgoing, frames, restore, switches
<1>2. ShownIsSent'
  BY OutgoingBoxAssumption DEF IInv, ShownIsSent, Armed, ClearOutgoing, frames, restore, switches
<1>3. NoneSkipped'
  BY OutgoingBoxAssumption DEF IInv, NoneSkipped, Waiting, Armed, ClearOutgoing, frames, restore, switches
<1>4. DeadTextNeverParks'
  <2>1. box' = NoText /\ NoText \notin Messages \cup {Reply}
    BY OutgoingBoxAssumption DEF ClearOutgoing, Texts
  <2> QED
    BY <2>1 DEF DeadTextNeverParks
<1>5. DraftKept'
  BY OutgoingBoxAssumption DEF IInv, DraftKept, Clean, Snapshots, ClearOutgoing, frames, restore, switches
<1>6. OnAirIsArmed'
  BY OutgoingBoxAssumption DEF IInv, OnAirIsArmed, Armed, ClearOutgoing, frames, restore, switches
<1>7. StagedWhileArmed'
  BY OutgoingBoxAssumption DEF IInv, StagedWhileArmed, Armed, ClearOutgoing, frames, restore, switches
<1>8. SnapshotsAreDrafts'
  BY OutgoingBoxAssumption DEF IInv, SnapshotsAreDrafts, ClearOutgoing, frames, restore, switches
<1>9. OneOwed'
  BY OutgoingBoxAssumption DEF IInv, OneOwed, Clean, Armed, ClearOutgoing, frames, restore, switches, Texts
<1> QED
  BY <1>1, <1>2, <1>3, <1>4, <1>5, <1>6, <1>7, <1>8, <1>9 DEF IInv

LEMMA EnqueueKeeps ==
  ASSUME IInv, NEW m \in Messages, Enqueue(m)
  PROVE  IInv'
<1>1. TypeOK'
  BY OutgoingBoxAssumption DEF IInv, TypeOK, Texts, Enqueue, frames, restore, switches
<1>2. ShownIsSent'
  BY OutgoingBoxAssumption DEF IInv, ShownIsSent, Armed, Enqueue, frames, restore, switches
<1>3. NoneSkipped'
  BY OutgoingBoxAssumption DEF IInv, NoneSkipped, Waiting, Armed, Enqueue, frames, restore, switches
<1>4. DeadTextNeverParks'
  BY OutgoingBoxAssumption DEF IInv, DeadTextNeverParks, Armed, Enqueue, frames, restore, switches
<1>5. DraftKept'
  BY OutgoingBoxAssumption DEF IInv, DraftKept, Clean, Snapshots, Enqueue, frames, restore, switches
<1>6. OnAirIsArmed'
  BY OutgoingBoxAssumption DEF IInv, OnAirIsArmed, Armed, Enqueue, frames, restore, switches
<1>7. StagedWhileArmed'
  BY OutgoingBoxAssumption DEF IInv, StagedWhileArmed, Armed, Enqueue, frames, restore, switches
<1>8. SnapshotsAreDrafts'
  BY OutgoingBoxAssumption DEF IInv, SnapshotsAreDrafts, Enqueue, frames, restore, switches
<1>9. OneOwed'
  BY OutgoingBoxAssumption DEF IInv, OneOwed, Clean, Armed, Enqueue, frames, restore, switches
<1> QED
  BY <1>1, <1>2, <1>3, <1>4, <1>5, <1>6, <1>7, <1>8, <1>9 DEF IInv

LEMMA KeyUpKeeps ==
  ASSUME IInv, KeyUp
  PROVE  IInv'
<1>1. TypeOK'
  BY OutgoingBoxAssumption DEF IInv, TypeOK, Texts, KeyUp, restore, switches, history
<1>2. ShownIsSent'
  BY OutgoingBoxAssumption DEF IInv, ShownIsSent, Armed, KeyUp, restore, switches, history
<1>3. NoneSkipped'
  BY OutgoingBoxAssumption DEF IInv, NoneSkipped, Waiting, Armed, KeyUp, restore, switches, history, TypeOK
<1>4. DeadTextNeverParks'
  BY OutgoingBoxAssumption DEF IInv, DeadTextNeverParks, Armed, KeyUp, restore, switches, history
<1>5. DraftKept'
  BY OutgoingBoxAssumption DEF IInv, DraftKept, Clean, Snapshots, KeyUp, restore, switches, history
<1>6. OnAirIsArmed'
  BY OutgoingBoxAssumption DEF IInv, OnAirIsArmed, Armed, KeyUp, restore, switches, history
<1>7. StagedWhileArmed'
  BY OutgoingBoxAssumption DEF IInv, StagedWhileArmed, Armed, KeyUp, restore, switches, history
<1>8. SnapshotsAreDrafts'
  BY OutgoingBoxAssumption DEF IInv, SnapshotsAreDrafts, KeyUp, restore, switches, history
<1>9. OneOwed'
  BY OutgoingBoxAssumption DEF IInv, OneOwed, Clean, Armed, KeyUp, restore, switches, history
<1> QED
  BY <1>1, <1>2, <1>3, <1>4, <1>5, <1>6, <1>7, <1>8, <1>9 DEF IInv

LEMMA UnlockKeeps ==
  ASSUME IInv, UnlockBox
  PROVE  IInv'
<1>1. TypeOK'
  <2>1. readOnly' \in BOOLEAN
    BY DEF UnlockBox
  <2>2. UNCHANGED <<box, injected, counted, left, staged, transmitting, built, aired,
                    saved, pending, shots, auto, txOn, arqActive, enqueued, live,
                    replies, holes>>
    BY DEF UnlockBox, frames, restore, switches, history
  <2> QED
    BY <2>1, <2>2 DEF IInv, TypeOK
<1>2. ShownIsSent'
  BY OutgoingBoxAssumption DEF IInv, ShownIsSent, Armed, UnlockBox, frames, restore, switches, history
<1>3. NoneSkipped'
  BY OutgoingBoxAssumption DEF IInv, NoneSkipped, Waiting, Armed, UnlockBox, frames, restore, switches, history
<1>4. DeadTextNeverParks'
  BY OutgoingBoxAssumption DEF IInv, DeadTextNeverParks, Armed, UnlockBox, frames, restore, switches, history
<1>5. DraftKept'
  BY OutgoingBoxAssumption DEF IInv, DraftKept, Clean, Snapshots, UnlockBox, frames, restore, switches, history
<1>6. OnAirIsArmed'
  BY OutgoingBoxAssumption DEF IInv, OnAirIsArmed, Armed, UnlockBox, frames, restore, switches, history
<1>7. StagedWhileArmed'
  BY OutgoingBoxAssumption DEF IInv, StagedWhileArmed, Armed, UnlockBox, frames, restore, switches, history
<1>8. SnapshotsAreDrafts'
  BY OutgoingBoxAssumption DEF IInv, SnapshotsAreDrafts, UnlockBox, frames, restore, switches, history
<1>9. OneOwed'
  BY OutgoingBoxAssumption DEF IInv, OneOwed, Clean, Armed, UnlockBox, frames, restore, switches, history
<1> QED
  BY <1>1, <1>2, <1>3, <1>4, <1>5, <1>6, <1>7, <1>8, <1>9 DEF IInv

LEMMA StutterKeeps ==
  ASSUME IInv, UNCHANGED vars
  PROVE  IInv'
<1>1. TypeOK'
  BY OutgoingBoxAssumption DEF IInv, TypeOK, Texts, vars, frames, restore, switches, history
<1>2. ShownIsSent'
  BY OutgoingBoxAssumption DEF IInv, ShownIsSent, Armed, vars, frames, restore, switches, history
<1>3. NoneSkipped'
  BY OutgoingBoxAssumption DEF IInv, NoneSkipped, Waiting, Armed, vars, frames, restore, switches, history
<1>4. DeadTextNeverParks'
  BY OutgoingBoxAssumption DEF IInv, DeadTextNeverParks, Armed, vars, frames, restore, switches, history
<1>5. DraftKept'
  BY OutgoingBoxAssumption DEF IInv, DraftKept, Clean, Snapshots, vars, frames, restore, switches, history
<1>6. OnAirIsArmed'
  BY OutgoingBoxAssumption DEF IInv, OnAirIsArmed, Armed, vars, frames, restore, switches, history
<1>7. StagedWhileArmed'
  BY OutgoingBoxAssumption DEF IInv, StagedWhileArmed, Armed, vars, frames, restore, switches, history
<1>8. SnapshotsAreDrafts'
  BY OutgoingBoxAssumption DEF IInv, SnapshotsAreDrafts, vars, frames, restore, switches, history
<1>9. OneOwed'
  BY OutgoingBoxAssumption DEF IInv, OneOwed, Clean, Armed, vars, frames, restore, switches, history
<1> QED
  BY <1>1, <1>2, <1>3, <1>4, <1>5, <1>6, <1>7, <1>8, <1>9 DEF IInv

-----------------------------------------------------------------------------
(* Every step preserves the invariant.                                     *)
THEOREM StepPreserves == IInv /\ [Next]_vars => IInv'
<1> SUFFICES ASSUME IInv, [Next]_vars PROVE IInv'
  OBVIOUS
<1>1. CASE \E t \in Drafts \cup {NoText} : Edit(t)
  BY <1>1, EditKeeps
<1>2. CASE StartTx
  BY <1>2, StartTxKeeps
<1>3. CASE HaltAll
  BY <1>3, HaltKeeps
<1>4. CASE ChangeBand
  BY <1>4, ChangeBandKeeps
<1>5. CASE Switch
  BY <1>5, SwitchKeeps
<1>6. CASE ClearOutgoing
  BY <1>6, ClearKeeps
<1>7. CASE \E m \in Messages : Enqueue(m)
  BY <1>7, EnqueueKeeps
<1>8. CASE \E m \in Messages : ProcessTxQueue(m)
  BY <1>8, ProcessTxQueueKeeps
<1>9. CASE KeyUp
  BY <1>9, KeyUpKeeps
<1>10. CASE FrameEnds
  BY <1>10, FrameEndsKeeps
<1>11. CASE NothingStaged
  BY <1>11, NothingStagedKeeps
<1>12. CASE OnChunkedWantsResponseTx
  BY <1>12, ReplyKeeps
<1>13. CASE RestoreFires
  BY <1>13, RestoreKeeps
<1>14. CASE UnlockBox
  BY <1>14, UnlockKeeps
<1>15. CASE UNCHANGED vars
  BY <1>15, StutterKeeps
<1> QED
  BY <1>1, <1>2, <1>3, <1>4, <1>5, <1>6, <1>7, <1>8, <1>9, <1>10, <1>11, <1>12,
     <1>13, <1>14, <1>15 DEF Next

(* The inductive invariant holds in every state.                           *)
THEOREM Invariance == Spec => []IInv
<1>1. Init => IInv
  BY InitInv
<1>2. IInv /\ [Next]_vars => IInv'
  BY StepPreserves
<1> QED
  BY <1>1, <1>2, PTL DEF Spec

(* Every variable but the heap of the queue keeps its type.                *)
THEOREM TypeCorrect == Spec => []TypeOK
<1>1. IInv => TypeOK
  BY DEF IInv
<1> QED
  BY <1>1, Invariance, PTL

(* The box shows what goes over the air, whoever writes into it when.      *)
THEOREM ShowsWhatIsSent == Spec => []ShownIsSent
<1>1. IInv => ShownIsSent
  BY DEF IInv
<1> QED
  BY <1>1, Invariance, PTL

(* A message no reply interferes with goes out frame by frame, whole.      *)
THEOREM SendsEveryFrame == Spec => []NoneSkipped
<1>1. IInv => NoneSkipped
  BY DEF IInv
<1> QED
  BY <1>1, Invariance, PTL

(* No restore leaves text of the system in an idle box.                    *)
THEOREM NoDeadText == Spec => []DeadTextNeverParks
<1>1. IInv => DeadTextNeverParks
  BY DEF IInv
<1> QED
  BY <1>1, Invariance, PTL

(* The operator's draft survives every reply, drained message and blocked  *)
(* restore.                                                                *)
THEOREM DraftSurvives == Spec => []DraftKept
<1>1. IInv => DraftKept
  BY DEF IInv
<1> QED
  BY <1>1, Invariance, PTL

-----------------------------------------------------------------------------
(* The queue, on top of the invariant of the box: no step forgets a        *)
(* message that is still to be sent.                                       *)
Item == [text : Messages, priority : Nat, date : Nat]

LEMMA QueuedIs == Queued = {e.text : e \in Elements(queue)}
BY DEF Queued, Elements

LEMMA NoTextIsNone == NoText \notin Messages /\ NoText \notin Drafts /\ Reply \notin Messages
BY OutgoingBoxAssumption DEF Texts

(* A step that leaves the queue alone and takes its text out of the box    *)
(* only when nobody waits for it any more.                                 *)
LEMMA BoxMayGo ==
  ASSUME QueueInv, UNCHANGED <<queue, enqueued>>, holes \subseteq holes',
         holes' = {} => (live' \ live) \cap Messages = {},
         holes' = {} => box' = box \/ box \notin live' \cap Messages,
         FreeForReturn'
  PROVE  QueueInv'
<1>1. Queued' = Queued
  BY DEF Queued
<1>2. NoneForgotten'
  BY <1>1 DEF QueueInv, NoneForgotten
<1> QED
  BY <1>2 DEF QueueInv

(* The end of a transmission leaves the box empty.                         *)
LEMMA ResetFrees ==
  ASSUME Reset PROVE FreeForReturn' /\ box' = NoText
BY DEF Reset, FreeForReturn

LEMMA EditQueues ==
  ASSUME IInv, QueueInv, NEW t \in Drafts \cup {NoText}, Edit(t) PROVE QueueInv'
<1>1. holes' = {} => shots = <<>> /\ holes = {}
  BY DEF Edit
<1>2. FreeForReturn'
  BY <1>1 DEF Edit, FreeForReturn, restore
<1>3. t \notin Messages /\ live' = (live \ {box}) \cup ({t} \ {NoText})
  BY NoTextIsNone, OutgoingBoxAssumption DEF Edit
<1>4. (live' \ live) \cap Messages = {} /\ box \notin live' \cap Messages
  BY <1>3
<1> QED
  BY <1>2, <1>4, BoxMayGo DEF Edit

LEMMA StartQueues ==
  ASSUME IInv, QueueInv, StartTx PROVE QueueInv'
<1>1. box \in Texts
  BY DEF IInv, TypeOK, StartTx
<1>2. Armed'
  BY <1>1, OutgoingBoxAssumption DEF StartTx, Arm, Armed
<1>3. FreeForReturn'
  BY <1>2 DEF FreeForReturn
<1> QED
  BY <1>3, BoxMayGo DEF StartTx, history

LEMMA HaltQueues ==
  ASSUME IInv, QueueInv, HaltAll PROVE QueueInv'
<1>1. FreeForReturn'
  BY ResetFrees DEF HaltAll, StopTxMechanical
<1> QED
  BY <1>1, BoxMayGo DEF HaltAll

LEMMA ChangeBandQueues ==
  ASSUME IInv, QueueInv, ChangeBand PROVE QueueInv'
<1>1. FreeForReturn'
  BY ResetFrees DEF ChangeBand, StopTxMechanical
<1>2. /\ queue' = <<>> /\ enqueued' = enqueued /\ holes' = holes
      /\ live' = live \ ({box} \cup Queued)
  BY DEF ChangeBand, Queued
<1>3. NoneForgotten'
  BY <1>2 DEF QueueInv, NoneForgotten
<1>4. queue' \in Seq(Item)
  BY <1>2
<1> QED
  BY <1>1, <1>2, <1>3, <1>4 DEF QueueInv, Item

LEMMA EnqueueQueues ==
  ASSUME IInv, QueueInv, NEW m \in Messages, Enqueue(m) PROVE QueueInv'
<1> DEFINE e == [text |-> m, priority |-> Priority[m], date |-> Cardinality(enqueued)]
<1>0. Cardinality(enqueued) \in Nat /\ IsFiniteSet(enqueued')
  BY FS_CardinalityType, FS_AddElement DEF QueueInv, Enqueue
<1>1. e \in Item /\ e.text = m
  BY <1>0, OutgoingBoxAssumption DEF Item
<1>2. queue' = Push(queue, e) /\ queue \in Seq(Item)
  BY DEF Enqueue, QueueInv, Item
<1> HIDE DEF e
<1>3. queue' \in Seq(Item) /\ Elements(queue') = Elements(queue) \cup {e}
  BY <1>1, <1>2, PushKeeps
<1>4. Queued' = Queued \cup {m}
  <2>1. Queued' = {x.text : x \in Elements(queue')}
    BY QueuedIs DEF Queued, Elements
  <2> QED
    BY <2>1, <1>1, <1>3, QueuedIs
<1>5. live' = live \cup {m} /\ UNCHANGED <<box, holes, counted, shots>>
  BY DEF Enqueue, frames, restore
<1>6. NoneForgotten'
  BY <1>4, <1>5 DEF QueueInv, NoneForgotten
<1>7. FreeForReturn'
  BY <1>5 DEF QueueInv, FreeForReturn, Armed
<1> QED
  BY <1>0, <1>3, <1>6, <1>7 DEF QueueInv, Item

(* The message taken is in the box afterwards, or refused; what it         *)
(* displaced was nothing, or a reply that was parked.                      *)
LEMMA ProcessQueues ==
  ASSUME IInv, QueueInv, NEW m \in Messages, ProcessTxQueue(m) PROVE QueueInv'
<1>1. /\ queue \in Seq(Item) /\ queue # <<>> /\ queue[1].text = m /\ queue' = Pop(queue)
      /\ IsFiniteSet(enqueued')
  BY DEF ProcessTxQueue, QueueInv, Item
<1>2. Len(queue) > 0
  BY <1>1
<1>3. /\ queue' \in Seq(Item)
      /\ Elements(queue') = {queue[i] : i \in 2..Len(queue)}
  BY <1>1, <1>2, PopKeeps
<1>4. Queued \subseteq Queued' \cup {m}
  <2>1. ASSUME NEW i \in DOMAIN queue PROVE queue[i].text \in Queued' \cup {m}
    <3>1. CASE i = 1
      BY <3>1, <1>1
    <3>2. CASE i # 1
      <4>1. i \in 2..Len(queue)
        BY <3>2, <1>1
      <4>2. queue[i] \in Elements(queue')
        BY <4>1, <1>3
      <4> QED
        BY <4>2 DEF Queued, Elements
    <3> QED
      BY <3>1, <3>2
  <2> QED
    BY <2>1 DEF Queued
<1>5. box = NoText \/ box = injected
  BY DEF ProcessTxQueue, MayDrain, BoxHoldsParkedAutoReply
<1>6. holes = {} => live \cap Messages \subseteq Queued' \cup {m, injected}
  BY <1>4, <1>5, NoTextIsNone DEF QueueInv, NoneForgotten
<1>7. CASE Arm(m) /\ box' = m /\ live' = live \ {injected} /\ UNCHANGED holes
  <2>1. NoneForgotten'
    BY <1>6, <1>7 DEF NoneForgotten
  <2>2. Armed'
    BY <1>7, OutgoingBoxAssumption DEF Arm, Armed, Texts
  <2> QED
    BY <1>1, <1>3, <2>1, <2>2 DEF QueueInv, FreeForReturn, Item
<1>8. CASE Reset /\ live' = live \ {injected, m} /\ UNCHANGED holes
  BY <1>1, <1>3, <1>6, <1>8, ResetFrees DEF QueueInv, NoneForgotten, Item
<1>9. CASE /\ box' = m /\ live' = live \ {injected} /\ UNCHANGED restore
           /\ holes' = holes \cup IF shots # <<>> THEN {"tail"} ELSE {}
  <2>1. holes' = {} => holes = {} /\ shots = <<>>
    BY <1>9
  <2>2. shots' = shots
    BY <1>9 DEF restore
  <2>3. NoneForgotten' /\ FreeForReturn'
    BY <1>6, <1>9, <2>1, <2>2 DEF NoneForgotten, FreeForReturn
  <2> QED
    BY <1>1, <1>3, <2>3 DEF QueueInv, Item
<1> QED
  BY <1>7, <1>8, <1>9 DEF ProcessTxQueue

LEMMA FrameEndsQueues ==
  ASSUME IInv, QueueInv, FrameEnds PROVE QueueInv'
<1>1. transmitting /\ Armed /\ box = built /\ UNCHANGED <<queue, holes, enqueued>>
  BY DEF IInv, OnAirIsArmed, ShownIsSent, FrameEnds
<1>2. CASE Reset /\ live' = live \ {built}
  BY <1>1, <1>2, ResetFrees, BoxMayGo
<1>3. CASE UNCHANGED <<box, counted, restore, live>>
  <2>1. FreeForReturn'
    BY <1>1, <1>3 DEF FreeForReturn, Armed
  <2> QED
    BY <1>1, <1>3, <2>1, BoxMayGo
<1> QED
  BY <1>2, <1>3 DEF FrameEnds, StopTx

(* With nothing staged a reply has come while the message was armed.       *)
LEMMA NothingStagedQueues ==
  ASSUME IInv, QueueInv, NothingStaged PROVE QueueInv'
<1>1. holes # {} /\ UNCHANGED <<queue, holes, live, enqueued>>
  BY DEF IInv, StagedWhileArmed, NothingStaged, history
<1>2. FreeForReturn'
  BY ResetFrees DEF NothingStaged, StopTxMechanical
<1> QED
  BY <1>1, <1>2, BoxMayGo

LEMMA ReplyQueues ==
  ASSUME IInv, QueueInv, OnChunkedWantsResponseTx PROVE QueueInv'
<1>1. /\ UNCHANGED <<queue, live, shots, enqueued>> /\ holes' = holes \cup Hole
  BY DEF OnChunkedWantsResponseTx, SaveDraft
<1>2. holes' = {} => /\ holes = {} /\ shots = <<>> /\ ~QueuedForTransmit
                     /\ (Busy \/ box \notin Messages)
  BY <1>1 DEF Hole
<1>3. ~QueuedForTransmit => ~Busy
  BY DEF IInv, TypeOK, OnAirIsArmed, Busy, QueuedForTransmit
<1>4. FreeForReturn'
  BY <1>1, <1>2 DEF FreeForReturn
<1>5. holes' = {} => box \notin Messages
  BY <1>2, <1>3
<1> QED
  BY <1>1, <1>4, <1>5, BoxMayGo

(* A draft returns to an empty box.                                        *)
LEMMA RestoreQueues ==
  ASSUME IInv, QueueInv, RestoreFires PROVE QueueInv'
<1>1. /\ shots # <<>> /\ shots' = Tail(shots)
      /\ UNCHANGED <<queue, holes, live, counted, enqueued>>
  BY DEF RestoreFires, frames, history
<1>2. holes = {} => Len(shots) <= 1
  BY DEF IInv, OneOwed, Clean
<1>3. shots \in Seq(Texts \cup {NoText})
  BY DEF IInv, TypeOK
<1>4. holes = {} => shots' = <<>>
  BY <1>1, <1>2, <1>3
<1>5. FreeForReturn'
  BY <1>1, <1>4 DEF FreeForReturn
<1>6. CASE RestoreBlocked
  BY <1>1, <1>5, <1>6, BoxMayGo DEF RestoreFires
<1>7. CASE ~RestoreBlocked
  <2>1. ~Armed
    BY <1>7 DEF RestoreBlocked, Busy, QueuedForTransmit
  <2>2. holes = {} => box \notin Messages
    BY <2>1, <1>1, NoTextIsNone DEF QueueInv, FreeForReturn
  <2> QED
    BY <1>1, <1>5, <2>2, BoxMayGo
<1> QED
  BY <1>6, <1>7

LEMMA OthersQueue ==
  ASSUME IInv, QueueInv, Switch \/ ClearOutgoing \/ KeyUp \/ UnlockBox \/ UNCHANGED vars
  PROVE  QueueInv'
<1>1. /\ UNCHANGED <<queue, holes, shots, counted, enqueued>> /\ live' \subseteq live
      /\ box' = box \/ (box' = NoText /\ live' = live \ {box})
  BY DEF Switch, ClearOutgoing, KeyUp, UnlockBox, vars, frames, restore, history
<1>2. FreeForReturn'
  BY <1>1 DEF QueueInv, FreeForReturn, Armed
<1> QED
  BY <1>1, <1>2, BoxMayGo

LEMMA StepQueues == ASSUME IInv, QueueInv, [Next]_vars PROVE QueueInv'
<1>1. CASE \E t \in Drafts \cup {NoText} : Edit(t)
  BY <1>1, EditQueues
<1>2. CASE StartTx
  BY <1>2, StartQueues
<1>3. CASE HaltAll
  BY <1>3, HaltQueues
<1>4. CASE ChangeBand
  BY <1>4, ChangeBandQueues
<1>5. CASE Switch \/ ClearOutgoing \/ KeyUp \/ UnlockBox \/ UNCHANGED vars
  BY <1>5, OthersQueue
<1>6. CASE \E m \in Messages : Enqueue(m)
  BY <1>6, EnqueueQueues
<1>7. CASE \E m \in Messages : ProcessTxQueue(m)
  BY <1>7, ProcessQueues
<1>8. CASE FrameEnds
  BY <1>8, FrameEndsQueues
<1>9. CASE NothingStaged
  BY <1>9, NothingStagedQueues
<1>10. CASE OnChunkedWantsResponseTx
  BY <1>10, ReplyQueues
<1>11. CASE RestoreFires
  BY <1>11, RestoreQueues
<1> QED
  BY <1>1, <1>2, <1>3, <1>4, <1>5, <1>6, <1>7, <1>8, <1>9, <1>10, <1>11 DEF Next

(* What the queue holds is well-formed, and with the box it holds every    *)
(* message that is still to be sent, in every state.                       *)
THEOREM QueueInvariance == Spec => []QueueInv
<1>1. Init => QueueInv
  BY FS_EmptySet DEF Init, QueueInv, NoneForgotten, FreeForReturn
<1>2. IInv /\ QueueInv /\ [Next]_vars => QueueInv'
  BY StepQueues
<1> QED
  BY <1>1, <1>2, Invariance, PTL DEF Spec

(* When the transmit path reports idle nothing is left to be sent, so the  *)
(* timers that wait for it do not start under a message to come.           *)
THEOREM IdleIsDone == Spec => []IdleMeansSent
<1>1. QueueInv => IdleMeansSent
  BY NoTextIsNone DEF QueueInv, NoneForgotten, Queued, IdleMeansSent, TxIdle
<1> QED
  BY <1>1, QueueInvariance, PTL

=============================================================================
