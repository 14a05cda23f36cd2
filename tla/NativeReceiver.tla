--------------------------- MODULE NativeReceiver ---------------------------
(***************************************************************************)
(* The receiving half of ChunkedArq::Manager for native (V3) transfers: a  *)
(* chunk arrives as a burst of anonymous binary frames behind the markers  *)
(* that say whose it is.  Only the low bits of the chunk number are on a   *)
(* frame, so the receiver binds it by the one window it has open, keeps it *)
(* as an orphan, or takes it for the retry of the chunk before.            *)
(*                                                                         *)
(* Time is counted in slots, the 3.75 s of a native frame: the orphans and *)
(* the scheduled re-ACKs depend on it.  One peer sends, stop and wait.     *)
(* Left out: the receive-session phase, the acceptance gate and the NACK   *)
(* interval (ArqReceiver has them), message ids that wrap (ArqLink), and   *)
(* frames of other stations.                                               *)
(***************************************************************************)
EXTENDS Naturals, Sequences, FiniteSets

CONSTANTS
  Sizes,             \* Sizes[m][cc]: frames of chunk cc of the m-th message
  CHK,               \* chunk numbers a frame can tell apart: 16 in the code
  MARKER_INTERVAL,   \* 4 in the code
  TEXT_ID_INTERVAL,  \* 16 in the code
  TextSlots,         \* frames of a text marker
  Lag,               \* most slots the text pipeline is behind
  ListenSlots,       \* the peer's wait for an answer
  OrphanTTL,         \* NATIVE_ORPHAN_TTL_MS in slots: 8 in the code
  OrphanCap,         \* NATIVE_ORPHAN_CAP
  Fallback,          \* frames assumed of a chunk of unknown size: 8
  Retries,           \* bound: retransmissions of a chunk
  Restarts,          \* the peer may start over while an old window is open
  MaxForgets         \* bound: times the operator halts

Uids == 1..Len(Sizes)
Total(u) == Len(Sizes[u])
FramesOf(u, cc) == Sizes[u][cc]   \* chunkBytesFor in frames

ASSUME NativeAssumption ==
  /\ Sizes \in Seq(Seq(Nat \ {0}) \ {<<>>}) /\ Sizes # <<>>
  /\ {CHK, MARKER_INTERVAL, TEXT_ID_INTERVAL} \subseteq Nat \ {0, 1}
  /\ {TextSlots, ListenSlots, OrphanCap, Fallback} \subseteq Nat \ {0}
  /\ {Lag, OrphanTTL, Retries, MaxForgets} \subseteq Nat
  /\ Restarts \in BOOLEAN

VARIABLES
  rx,        \* the native part of the RxState, m_nativeOrphans, the replies
  late,      \* a text marker still in the text pipeline
  peer,      \* the sender: chunk, tries, slots left of the burst, its wait
  passed,    \* history: messages the peer believes complete
  lost,      \* history: messages of which the receiver forgot chunks
  forgets    \* how often the operator halted

vars == <<rx, late, peer, passed, lost, forgets>>

(* A data frame; all but seq and tag is history. *)
Frame(u, cc, s) == [seq |-> s, tag |-> cc % CHK, uid |-> u, cc |-> cc]

ClosedWindow == [active |-> FALSE, uid |-> 1, cc |-> 1, got |-> {}, pcrc |-> FALSE]

(* win.got are the frames the collector holds and win.pcrc is pcrcValid;   *)
(* watch: the collect timer runs; latched: the message's sizes are known   *)
(* (binaryTotalBytes); held: binaryAssemblies; orphans: frames with their  *)
(* age, which is also the order they came in; foreign (history): chunks    *)
(* held that were put together from frames of another one.                 *)
BlankRx ==
  [win |-> ClosedWindow, watch |-> FALSE, latched |-> {},
   held |-> [u \in Uids |-> {}], evict |-> {}, delivered |-> {},
   orphans |-> {}, replies |-> {}, foreign |-> {},
   deliveries |-> [u \in Uids |-> 0], mangled |-> {}]

NotLate == [uid |-> 0, cc |-> 0, left |-> 0]

Init ==
  /\ rx = BlankRx
  /\ late = NotLate
  /\ peer = [uid |-> 0, cc |-> 1, tries |-> 0, air |-> 0, wait |-> 0, live |-> FALSE]
  /\ passed = {} /\ lost = {} /\ forgets = 0

-----------------------------------------------------------------------------
(* ChunkCollector *)
Accepts(w, f) == f.tag = w.cc % CHK /\ f.seq < FramesOf(w.uid, w.cc)
Collect(w, f) == [w EXCEPT !.got = {g \in @ : g.seq # f.seq} \cup {f}]
Complete(w) == \A s \in 0..FramesOf(w.uid, w.cc)-1 : \E g \in w.got : g.seq = s
Own(w) == \A g \in w.got : g.uid = w.uid /\ g.cc = w.cc

(* Mutant: the check value is not looked at. *)
CrcUnchecked(w) == w.pcrc => w.active

(* crcOk: a chunk no marker announced has no check value. *)
CrcOk(w) == w.pcrc => Own(w)

(* A reply keys up at the end of its hold; `shot' is a scheduled re-ACK. *)
Reply(kind, u, cc, due, shot) ==
  {[kind |-> kind, uid |-> u, cc |-> cc, due |-> due, shot |-> shot]}

(* What orphans are drained into a window: the last frame of every seq. *)
Drained(w, orphans) ==
  {o.frame : o \in {p \in orphans :
     /\ Accepts(w, p.frame)
     /\ \A q \in orphans :
          Accepts(w, q.frame) /\ q.frame.seq = p.frame.seq => q.age >= p.age}}

Window(u, cc, pcrc) ==
  [active |-> TRUE, uid |-> u, cc |-> cc, got |-> {}, pcrc |-> pcrc]

(* openNativeChunkWindow, up to its last test. *)
Opened(r, u, cc, pcrc) ==
  LET w == Window(u, cc, pcrc)
  IN [r EXCEPT !.win = [w EXCEPT !.got = Drained(w, r.orphans)],
               !.orphans = {o \in @ : ~Accepts(w, o.frame)}, !.watch = TRUE]

(* The chunks of the complete windows ws are stored and acknowledged. *)
Stored(r, ws) ==
  [r EXCEPT
    !.watch = FALSE,
    !.held = [u \in Uids |-> @[u] \cup {w.cc : w \in {v \in ws : v.uid = u}}],
    !.foreign = @ \cup {<<w.uid, w.cc>> : w \in {v \in ws : ~Own(v)}},
    !.replies = @ \cup UNION {Reply("ACK", w.uid, w.cc, 1, FALSE) : w \in ws}]

(* The chunks are joined; the sizes are kept for re-ACKs. *)
Deliver(r, u) ==
  [r EXCEPT !.delivered = @ \cup {u}, !.evict = @ \ {u}, !.held[u] = {},
            !.win = ClosedWindow, !.deliveries[u] = @ + 1,
            !.mangled = @ \cup {v \in {u} : \/ r.held[v] # 1..Total(v)
                                        \/ \E cc \in 1..Total(v) : <<v, cc>> \in r.foreign}]

(* What the windows on the chunks cs leave of the orphans. *)
LeftBy(u, cs, orphans) ==
  {o \in orphans : \A c \in cs : ~Accepts(Window(u, c, FALSE), o.frame)}

(* The window on chunk c, when those from a on were opened before it. *)
Ahead(r, u, a, c) ==
  LET w == Window(u, c, FALSE)
  IN [w EXCEPT !.got = Drained(w, LeftBy(u, a..(c-1), r.orphans))]

(* The chunks from a on whose window the orphans do not complete. *)
Gaps(r, u, a) == {c \in a..Total(u) : ~Complete(Ahead(r, u, a, c))}

FirstGap(r, u, a) ==
  IF Gaps(r, u, a) = {} THEN Total(u) + 1
  ELSE CHOOSE c \in Gaps(r, u, a) : \A d \in Gaps(r, u, a) : c <= d

(* AUTO-ADVANCE from chunk a on: finishNativeChunk and                     *)
(* openNativeChunkWindow call each other while orphans complete the next   *)
(* chunk, up to the first gap or the end of the message.                   *)
AutoAdvance(r, u, a) ==
  LET done == a..(FirstGap(r, u, a) - 1)
      s == [Stored(r, {Ahead(r, u, a, c) : c \in done}) EXCEPT !.orphans = LeftBy(u, done, @)]
  IN IF Gaps(r, u, a) = {} THEN Deliver(s, u) ELSE Opened(s, u, FirstGap(r, u, a), FALSE)

FinishNativeChunk(r) ==
  LET w == r.win IN
  IF CrcOk(w) THEN AutoAdvance(Stored(r, {w}), w.uid, w.cc + 1)
  ELSE [r EXCEPT !.replies = @ \cup Reply("NACK", w.uid, w.cc, 1, FALSE),
                 !.win.got = {}, !.watch = TRUE]

(* By a marker, the only caller but AutoAdvance. *)
OpenNativeChunkWindow(r, u, cc) ==
  LET s == Opened(r, u, cc, TRUE) IN IF Complete(s.win) THEN FinishNativeChunk(s) ELSE s

-----------------------------------------------------------------------------
(* Mutant: the delay of the time when the marker came at the burst's end. *)
ReAckTooEarly(r, u, cc) == IF u \in r.latched THEN FramesOf(u, cc) - 1 ELSE Fallback - 1

(* scheduleReAck: the whole burst behind the marker, and one slot. *)
ReAckDelay(r, u, cc) == (IF u \in r.latched THEN FramesOf(u, cc) ELSE Fallback) + 1

(* Mutant: no evict timer. *)
MarkerWithoutEvict(r, u, cc, first) ==
  IF u \in r.delivered
  THEN [r EXCEPT !.replies = @ \cup Reply("ACK", u, cc, ReAckDelay(r, u, cc), TRUE)]
  ELSE IF cc \in r.held[u] \/ (~first /\ u \notin r.latched) THEN r
  ELSE OpenNativeChunkWindow([r EXCEPT !.latched = @ \cup {u}], u, cc)

(* handleNativeMarker *)
HandleNativeMarker(r, u, cc, first) ==
  IF u \in r.delivered
  THEN [r EXCEPT !.replies = @ \cup Reply("ACK", u, cc, ReAckDelay(r, u, cc), TRUE)]
  ELSE IF cc \in r.held[u]
  THEN [r EXCEPT !.watch = @ \/ (r.win.active /\ r.win.uid = u)]
  ELSE IF ~first /\ u \notin r.latched
  THEN r
  ELSE OpenNativeChunkWindow([r EXCEPT !.latched = @ \cup {u}, !.evict = @ \cup {u}], u, cc)

(* The text marker, past the mid-session-join guard of onChunkReceived. *)
OnTextMarker(r, u, cc) ==
  IF cc = 1 \/ u \in r.latched \cup r.delivered
  THEN HandleNativeMarker(r, u, cc, cc = 1)
  ELSE r

(* onNativeMarkerFrameReceived: it attaches to a transfer that is known. *)
OnMarkerFrame(r, u, cc) ==
  IF (r.win.active /\ r.win.uid = u) \/ u \in r.latched \cup r.delivered
  THEN HandleNativeMarker(r, u, cc, TRUE)
  ELSE r

(* The frame repeats the chunk behind the window, which is held already. *)
Retried(r, f) ==
  LET prev == r.win.cc - 1 IN
  prev >= 1 /\ f.tag = prev % CHK /\ prev \in r.held[r.win.uid]

(* Mutant: one frame too many is kept. *)
RoomOffByOne(orphans) ==
  IF Cardinality(orphans) <= OrphanCap THEN orphans
  ELSE {o \in orphans : \E p \in orphans : p.age > o.age}

(* The orphan store drops its oldest frame for a new one. *)
Room(orphans) ==
  IF Cardinality(orphans) < OrphanCap THEN orphans
  ELSE {o \in orphans : \E p \in orphans : p.age > o.age}

(* onNativeFrameReceived *)
OnNativeFrameReceived(r, f) ==
  IF r.win.active /\ Retried(r, f)
  THEN IF f.seq = FramesOf(r.win.uid, r.win.cc - 1) - 1
       THEN [r EXCEPT !.watch = TRUE, !.replies =
               @ \cup Reply("ACK", r.win.uid, r.win.cc - 1, 1, FALSE)]
       ELSE r
  ELSE IF r.win.active /\ f.tag = r.win.cc % CHK
  THEN IF ~Accepts(r.win, f) THEN r
       ELSE LET c == [r EXCEPT !.win = Collect(@, f), !.watch = TRUE] IN
            IF Complete(c.win) THEN FinishNativeChunk(c) ELSE c
  ELSE [r EXCEPT !.orphans = Room(@) \cup {[frame |-> f, age |-> 0]}]

-----------------------------------------------------------------------------
Sooner(replies) == {[x EXCEPT !.due = IF @ > 0 THEN @ - 1 ELSE 0] : x \in replies}

(* Mutant: orphans are kept until a window takes them. *)
AgedKeepsOrphans(r) == [r EXCEPT !.replies = Sooner(@)]

(* A slot passes: holds run down, orphans age.  An expired orphan is taken *)
(* out at the next drain; nothing can tell it from one taken out at once.  *)
Aged(r) ==
  [r EXCEPT !.replies = Sooner(@),
            !.orphans = {o \in {[p EXCEPT !.age = @ + 1] : p \in @} : o.age <= OrphanTTL}]

LateAged == IF late.uid = 0 THEN late ELSE [late EXCEPT !.left = @ - 1]

(* Nothing that is due now is waiting. *)
NoTextDue == late.uid # 0 => late.left > 0
NothingDue == NoTextDue /\ \A x \in rx.replies : x.due > 0

(* The burst of a chunk: the text marker, the binary one, the data. *)
AfterText(u, cc, tries) ==
  FramesOf(u, cc) + IF cc % MARKER_INTERVAL = 1 \/ tries > 0 THEN 1 ELSE 0

Burst(u, cc, tries) ==
  AfterText(u, cc, tries) + IF cc % TEXT_ID_INTERVAL = 1 THEN TextSlots ELSE 0

(* The frame of this slot; a text marker is whole with its last frame. *)
OnAir ==
  LET behind == AfterText(peer.uid, peer.cc, peer.tries)
  IN IF peer.air > behind + 1 THEN "head"
     ELSE IF peer.air = behind + 1 THEN "text"
     ELSE IF peer.air > FramesOf(peer.uid, peer.cc) THEN "marker" ELSE "data"

(* sendChunkedBinary, the next message. *)
SendChunkedBinary ==
  /\ ~peer.live /\ peer.uid < Len(Sizes)
  /\ Restarts \/ ~rx.win.active
  /\ peer' = [uid |-> peer.uid + 1, cc |-> 1, tries |-> 0, live |-> TRUE,
              wait |-> ListenSlots, air |-> Burst(peer.uid + 1, 1, 0)]
  /\ UNCHANGED <<rx, late, passed, lost, forgets>>

(* What the receiver makes of the frame of this slot. *)
Heard(r) ==
  IF OnAir = "text" THEN OnTextMarker(r, peer.uid, peer.cc)
  ELSE IF OnAir = "marker" THEN OnMarkerFrame(r, peer.uid, peer.cc)
  ELSE OnNativeFrameReceived(r,
         Frame(peer.uid, peer.cc, FramesOf(peer.uid, peer.cc) - peer.air))

(* A frame of the burst is decoded, lost, or stuck in the text pipeline. *)
AirSlot ==
  /\ NothingDue /\ peer.air > 0
  /\ peer' = [peer EXCEPT !.air = @ - 1]
  /\ \/ rx' = Aged(rx) /\ late' = LateAged
     \/ OnAir # "head" /\ rx' = Heard(Aged(rx)) /\ late' = LateAged
     \/ /\ OnAir = "text" /\ late.uid = 0
        /\ rx' = Aged(rx)
        /\ \E n \in 1..Lag : late' = [uid |-> peer.uid, cc |-> peer.cc, left |-> n]
  /\ UNCHANGED <<passed, lost, forgets>>

TextDecoded ==
  /\ late.uid # 0 /\ late.left = 0
  /\ rx' = OnTextMarker(rx, late.uid, late.cc)
  /\ late' = NotLate
  /\ UNCHANGED <<peer, passed, lost, forgets>>

(* The peer listens, or has nothing to send. *)
QuietSlot ==
  /\ NothingDue /\ peer.air = 0
  /\ IF peer.live THEN peer.wait > 0 ELSE rx.replies # {} \/ rx.orphans # {} \/ late.uid # 0
  /\ peer' = [peer EXCEPT !.wait = IF peer.live THEN @ - 1 ELSE @]
  /\ rx' = Aged(rx) /\ late' = LateAged
  /\ UNCHANGED <<passed, lost, forgets>>

(* The chunk again, or the end of the send. *)
Again ==
  IF peer.tries < Retries
  THEN [peer EXCEPT !.tries = @ + 1, !.wait = ListenSlots,
                    !.air = Burst(peer.uid, peer.cc, peer.tries + 1)]
  ELSE [peer EXCEPT !.live = FALSE]

OnAckTimerExpired ==
  /\ NothingDue /\ peer.live /\ peer.air = 0 /\ peer.wait = 0
  /\ peer' = Again
  /\ UNCHANGED <<rx, late, passed, lost, forgets>>

(* A re-ACK gives the open window its patience back. *)
Keyed(x) ==
  [rx EXCEPT !.replies = @ \ {x}, !.watch = @ \/ (x.shot /\ rx.win.active)]

(* A reply keys up.  The peer hears it only between its bursts, and goes   *)
(* on after the slot it takes; what is due by then waits for its turn.     *)
ReplyKeysUp(x) ==
  /\ x \in rx.replies /\ x.due = 0
  /\ \/ rx' = Keyed(x) /\ UNCHANGED <<late, peer, passed>>
     \/ /\ peer.live /\ peer.air = 0 /\ x.cc = peer.cc /\ NoTextDue
        /\ rx' = Aged(Keyed(x)) /\ late' = LateAged
        /\ IF x.kind = "NACK"
           THEN peer' = Again /\ UNCHANGED passed
           ELSE IF peer.cc = Total(peer.uid)
           THEN peer' = [peer EXCEPT !.live = FALSE] /\ passed' = passed \cup {peer.uid}
           ELSE /\ peer' = [peer EXCEPT !.cc = @ + 1, !.tries = 0, !.wait = ListenSlots,
                                        !.air = Burst(peer.uid, peer.cc + 1, 0)]
                /\ UNCHANGED passed
  /\ UNCHANGED <<lost, forgets>>

-----------------------------------------------------------------------------
(* onNativeCollectTimerExpired: silence, and the window stays open. *)
NativeCollectTimeout ==
  /\ rx.watch
  /\ rx' = [rx EXCEPT !.watch = FALSE]
  /\ UNCHANGED <<late, peer, passed, lost, forgets>>

Evicted(u) ==
  LET mine == rx.win.active /\ rx.win.uid = u IN
  [rx EXCEPT !.evict = @ \ {u}, !.held[u] = {}, !.latched = @ \ {u},
             !.win = IF mine THEN ClosedWindow ELSE @, !.watch = @ /\ ~mine]

(* onAssemblyEvictTimerExpired: five minutes after the last marker or      *)
(* chunk, which a peer that still retries does not let pass.               *)
OnAssemblyEvictTimerExpired(u) ==
  /\ u \in rx.evict
  /\ ~(peer.live /\ peer.uid = u) /\ late.uid # u
  /\ rx' = Evicted(u)
  /\ lost' = lost \cup {u}
  /\ UNCHANGED <<late, peer, passed, forgets>>

(* haltAll; the replies that are scheduled already still key up. *)
HaltAll ==
  /\ forgets < MaxForgets
  /\ forgets' = forgets + 1
  /\ rx' = [BlankRx EXCEPT !.replies = rx.replies, !.foreign = rx.foreign,
                           !.deliveries = rx.deliveries, !.mangled = rx.mangled]
  /\ lost' = lost \cup {u \in Uids : rx.held[u] # {}}
  /\ UNCHANGED <<late, peer, passed>>

Next ==
  \/ SendChunkedBinary
  \/ AirSlot
  \/ TextDecoded
  \/ QuietSlot
  \/ OnAckTimerExpired
  \/ \E x \in rx.replies : ReplyKeysUp(x)
  \/ NativeCollectTimeout
  \/ \E u \in Uids : OnAssemblyEvictTimerExpired(u)
  \/ HaltAll

Spec == Init /\ [][Next]_vars
-----------------------------------------------------------------------------
TypeOK ==
  /\ rx.win.active \in BOOLEAN /\ rx.win.pcrc \in BOOLEAN
  /\ rx.win.uid \in Uids /\ rx.win.cc \in 1..Total(rx.win.uid)
  /\ \A f \in rx.win.got : Accepts(rx.win, f)
  /\ ~Complete(rx.win)
  /\ rx.watch => rx.win.active
  /\ rx.latched \cup rx.evict \cup rx.delivered \subseteq Uids
  /\ \A u \in Uids : rx.held[u] \subseteq 1..Total(u)
  /\ Cardinality(rx.orphans) <= OrphanCap
  /\ \A x \in rx.replies : x.due \in Nat /\ x.cc \in 1..Total(x.uid)
  /\ peer.uid \in 0..Len(Sizes) /\ peer.tries \in 0..Retries
  /\ peer.wait \in 0..ListenSlots
  /\ passed \subseteq Uids /\ lost \subseteq Uids /\ forgets \in 0..MaxForgets

(* What is delivered is the message, every chunk from its own frames, and  *)
(* once only: no orphan, retry or frame of another message gets into it,   *)
(* unless the operator halted the transfer while the peer went on.         *)
DeliveredWhole ==
  rx.mangled \subseteq lost /\ \A u \in Uids : rx.deliveries[u] <= 1 + forgets

(* "the sender cannot pass chunk CC without our ACK" (NativeWindow), and   *)
(* our ACK means that the chunk is held, put together from its own frames. *)
PassedMeansHeld ==
  /\ \A u \in passed : rx.deliveries[u] > 0 \/ u \in lost
  /\ peer.live /\ peer.uid \notin lost /\ rx.deliveries[peer.uid] = 0 =>
       \A cc \in 1..(peer.cc - 1) :
          cc \in rx.held[peer.uid] /\ <<peer.uid, cc>> \notin rx.foreign

(* A scheduled re-ACK keys up after the retry burst it answers and before  *)
(* the next one, however late the marker was decoded: the sender hears it. *)
ReAckLands ==
  \A x \in rx.replies :
     x.shot /\ x.due = 0 /\ peer.live /\ peer.uid = x.uid => peer.air = 0

(* An open window and a partial assembly lock the transmit queue           *)
(* (hasActiveRxTransfer); each has an evict timer that ends it.            *)
LocksEvicted ==
  /\ rx.win.active => rx.win.uid \in rx.evict
  /\ \A u \in Uids : rx.held[u] # {} => u \in rx.evict
  /\ rx.latched \subseteq rx.evict \cup rx.delivered

(* What the code's times must satisfy: a new message waits for the window  *)
(* of the last one to close; an orphan is gone before its number comes     *)
(* again, in its message or in the second chunk of the next one; the text  *)
(* pipeline catches up within the burst, and the peer listens longer.      *)
Timely ==
  /\ ~Restarts
  /\ OrphanTTL < CHK - 1
  /\ \A u \in Uids : Total(u) > 1 => OrphanTTL < TextSlots + FramesOf(u, 1) + 2
  /\ \A u \in Uids : \A cc \in 1..Total(u) :
       cc % TEXT_ID_INTERVAL = 1 => Lag <= AfterText(u, cc, 0)
  /\ Lag < ListenSlots

=============================================================================
