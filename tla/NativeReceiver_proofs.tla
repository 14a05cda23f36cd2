----------------------- MODULE NativeReceiver_proofs -----------------------
(***************************************************************************)
(* The properties of NativeReceiver, for every size of a message and every *)
(* setting of the timers.  Each handler is a function of the receiver's    *)
(* record, so the invariants are predicates on records: first what holds   *)
(* however time passes (Sound), then what holds because the code's times   *)
(* fit together (Synchronous, under Timely), and last what keeps the peer  *)
(* from sending again before a re-ACK that it waits for (Landing).         *)
(***************************************************************************)
EXTENDS NativeReceiver, TxQueue_proofs, TLAPS

Frames ==
  {f \in [seq : Nat, tag : Nat, uid : Uids, cc : Nat] :
     /\ f.cc \in 1..Total(f.uid) /\ f.seq < FramesOf(f.uid, f.cc)
     /\ f.tag = f.cc % CHK}

Windows ==
  {w \in [active : BOOLEAN, uid : Uids, cc : Nat, got : SUBSET Frames, pcrc : BOOLEAN] :
     /\ w.cc \in 1..Total(w.uid)
     /\ \A f \in w.got : Accepts(w, f)
     /\ ~w.active => w.got = {}}

Orphans == [frame : Frames, age : 0..OrphanTTL]

Replies ==
  {x \in [kind : {"ACK", "NACK"}, uid : Uids, cc : Nat, due : Nat, shot : BOOLEAN] :
     x.cc \in 1..Total(x.uid)}

Records ==
  [win : Windows, watch : BOOLEAN, latched : SUBSET Uids, held : [Uids -> SUBSET Nat],
   evict : SUBSET Uids, delivered : SUBSET Uids, orphans : SUBSET Orphans,
   replies : SUBSET Replies, foreign : SUBSET (Uids \X Nat),
   deliveries : [Uids -> Nat], mangled : SUBSET Uids]

(* The store of orphans keeps its cap. *)
Stocked(r) == IsFiniteSet(r.orphans) /\ Cardinality(r.orphans) <= OrphanCap

(* What is open or held waits for its evict timer. *)
Guarded(r) ==
  /\ r.win.active => r.win.uid \in r.evict \cap r.latched
  /\ \A u \in Uids : r.held[u] \subseteq 1..Total(u) /\ (r.held[u] # {} => u \in r.evict)
  /\ r.latched = r.evict \cup r.delivered
  /\ r.evict \cap r.delivered = {}

Sound(r) ==
  /\ r \in Records /\ Stocked(r) /\ Guarded(r)
  /\ r.watch => r.win.active

(* A message is delivered once, and once more after each Halt. *)
Once(r, n) ==
  \A u \in Uids : r.deliveries[u] <= n + IF u \in r.delivered THEN 1 ELSE 0

PeerRecords ==
  [uid : 0..Len(Sizes), cc : Nat, tries : 0..Retries, air : Nat,
   wait : 0..ListenSlots, live : BOOLEAN]

Peers ==
  {p \in PeerRecords :
     /\ p.uid > 0 => p.cc \in 1..Total(p.uid)
     /\ p.live => p.uid > 0 /\ p.air <= Burst(p.uid, p.cc, p.tries)
     /\ ~p.live => p.air = 0
     /\ p.air > 0 => p.wait = ListenSlots}

Lates ==
  {l \in [uid : 0..Len(Sizes), cc : Nat, left : Nat] : l.uid > 0 => l.cc \in 1..Total(l.uid)}

Safe(r, n) == Sound(r) /\ ~Complete(r.win) /\ Once(r, n)

IInv ==
  /\ Safe(rx, forgets)
  /\ peer \in Peers /\ late \in Lates
  /\ passed \subseteq Uids /\ lost \subseteq Uids /\ forgets \in 0..MaxForgets

-----------------------------------------------------------------------------
(* A text marker that is late belongs to the burst on the air. *)
LateNow(p, l) ==
  l.uid # 0 =>
    /\ p.live /\ p.wait = ListenSlots
    /\ l.uid = p.uid /\ l.cc = p.cc /\ p.cc % TEXT_ID_INTERVAL = 1
    /\ p.air <= AfterText(p.uid, p.cc, p.tries)
    /\ AfterText(p.uid, p.cc, p.tries) - p.air + l.left <= Lag

(* The slots of the first burst that have passed. *)
Elapsed(p) ==
  IF p.cc = 1 /\ p.tries = 0 THEN Burst(p.uid, 1, 0) - p.air ELSE Burst(p.uid, 1, 0)

(* The frame was on the air by now. *)
Aired(f, p) ==
  /\ f.uid <= p.uid /\ (f.uid = p.uid => f.cc <= p.cc)
  /\ f.uid = p.uid /\ f.cc = p.cc /\ p.tries = 0 => f.seq + p.air < FramesOf(p.uid, p.cc)

OrphansAge(r, p) ==
  \A o \in r.orphans :
    /\ Aired(o.frame, p)
    /\ o.frame.uid = p.uid => o.age >= p.cc - o.frame.cc
    /\ o.frame.uid < p.uid => o.age > Elapsed(p)
    /\ ~p.live \/ p.wait < ListenSlots => o.age > 0

(* The window is the peer's, one chunk ahead of it at most. *)
WindowNow(r, p) ==
  r.win.active =>
    /\ r.win.uid = p.uid /\ r.win.cc <= p.cc + 1
    /\ r.win.cc = p.cc + 1 => r.win.got = {}
    /\ r.win.cc = 1 => r.win.pcrc
    /\ \A f \in r.win.got : Aired(f, p)

(* Markers but the first attach to an open window or a delivered message.  *)
Attached(r) ==
  \A u \in r.latched : u \in r.delivered \/ (r.win.active /\ r.win.uid = u)

Forgotten(r, p) ==
  /\ \A u \in Uids : u > p.uid => r.held[u] = {} /\ r.deliveries[u] = 0
  /\ \A u \in Uids : u < p.uid => r.held[u] = {}
  /\ \A u \in r.delivered : r.deliveries[u] > 0
  /\ p.uid > 0 /\ r.deliveries[p.uid] > 0 => p.cc = Total(p.uid)

(* Chunk by chunk, unless chunks were forgotten. *)
InStep(r, p, lo) ==
  p.uid > 0 /\ p.uid \notin lo =>
    IF r.win.active
    THEN /\ r.held[p.uid] = 1..(r.win.cc - 1) /\ r.win.cc >= p.cc
         /\ ~r.win.pcrc => Own(r.win)
    ELSE r.held[p.uid] = {} /\ (p.cc = 1 \/ r.deliveries[p.uid] > 0)

Intact(r, lo) == r.mangled \subseteq lo /\ \A q \in r.foreign : q[1] \in lo

(* An ACK means that the chunk is held, or was.                            *)
Answers(x, r, lo) ==
  x.kind = "ACK" => x.uid \in lo \/ r.deliveries[x.uid] > 0 \/ x.cc \in r.held[x.uid]

(* Replies to one message are gone when the first burst of the next ends.  *)
InTime(x, p) ==
  /\ x.uid <= p.uid /\ (x.uid = p.uid => x.cc <= p.cc)
  /\ x.uid < p.uid => p.live /\ p.cc = 1 /\ p.tries = 0 /\ x.due < p.air
  /\ x.uid = p.uid => x.due <= p.air + Lag + IF p.live THEN 1 ELSE 0
  /\ x.uid = p.uid /\ p.live => x.due <= p.air + p.wait

RepliesNow(r, p, lo) == \A x \in r.replies : InTime(x, p) /\ Answers(x, r, lo)

Timed(r, p, lo) ==
  /\ OrphansAge(r, p) /\ WindowNow(r, p) /\ Attached(r) /\ Forgotten(r, p)
  /\ InStep(r, p, lo) /\ Intact(r, lo) /\ RepliesNow(r, p, lo)

Synchronous ==
  /\ LateNow(peer, late) /\ Timed(rx, peer, lost)
  /\ \A u \in passed : rx.deliveries[u] > 0 \/ u \in lost

-----------------------------------------------------------------------------
LEMMA Sizing ==
  /\ Len(Sizes) \in Nat /\ 1 \in Uids /\ Uids \subseteq Nat
  /\ \A u \in Uids : /\ u > 0 /\ u <= Len(Sizes)
                     /\ Total(u) \in Nat /\ Total(u) > 0
                     /\ \A cc \in 1..Total(u) : FramesOf(u, cc) \in Nat /\ FramesOf(u, cc) > 0
<1>1. Sizes \in Seq(Seq(Nat \ {0}) \ {<<>>}) /\ Sizes # <<>>
  BY NativeAssumption
<1>2. Len(Sizes) \in Nat /\ Len(Sizes) > 0
  BY <1>1
<1>3. ASSUME NEW u \in Uids PROVE Sizes[u] \in Seq(Nat \ {0}) /\ Sizes[u] # <<>>
  BY <1>1, <1>3 DEF Uids
<1>4. ASSUME NEW u \in Uids
      PROVE /\ Total(u) \in Nat /\ Total(u) > 0
            /\ \A cc \in 1..Total(u) : FramesOf(u, cc) \in Nat /\ FramesOf(u, cc) > 0
  BY <1>3, <1>4 DEF Total, FramesOf
<1> QED
  BY <1>2, <1>4 DEF Uids

LEMMA Settings ==
  /\ CHK \in Nat /\ CHK > 1 /\ MARKER_INTERVAL \in Nat /\ MARKER_INTERVAL > 1
  /\ TEXT_ID_INTERVAL \in Nat /\ TEXT_ID_INTERVAL > 1
  /\ TextSlots \in Nat /\ TextSlots > 0 /\ ListenSlots \in Nat /\ ListenSlots > 0
  /\ OrphanCap \in Nat /\ OrphanCap > 0 /\ Fallback \in Nat /\ Fallback > 0
  /\ Lag \in Nat /\ OrphanTTL \in Nat /\ Retries \in Nat /\ MaxForgets \in Nat
  /\ Restarts \in BOOLEAN
<1>1. CHK \in Nat \ {0, 1} /\ MARKER_INTERVAL \in Nat \ {0, 1} /\ TEXT_ID_INTERVAL \in Nat \ {0, 1}
  BY NativeAssumption
<1>2. /\ TextSlots \in Nat \ {0} /\ ListenSlots \in Nat \ {0}
      /\ OrphanCap \in Nat \ {0} /\ Fallback \in Nat \ {0}
  BY NativeAssumption
<1>3. /\ Lag \in Nat /\ OrphanTTL \in Nat /\ Retries \in Nat /\ MaxForgets \in Nat
      /\ Restarts \in BOOLEAN
  BY NativeAssumption
<1> QED
  BY <1>1, <1>2, <1>3

LEMMA Division ==
  ASSUME NEW a \in Nat, NEW m \in Nat \ {0}
  PROVE  /\ a = (m * (a \div m)) + (a % m)
         /\ a \div m \in Int
         /\ a % m \in 0..(m - 1)
OBVIOUS

LEMMA Tags == \A n \in Nat : n % CHK \in Nat /\ n % CHK < CHK
<1>1. CHK \in Nat \ {0} /\ CHK \in Int
  BY Settings
<1>2. \A n \in Nat : n % CHK \in 0..(CHK - 1)
  BY <1>1, Division
<1> QED
  BY <1>1, <1>2

LEMMA FrameType ==
  ASSUME NEW u \in Uids, NEW cc \in 1..Total(u), NEW s \in 0..(FramesOf(u, cc) - 1)
  PROVE  Frame(u, cc, s) \in Frames
<1>1. u \in Uids /\ cc \in Nat /\ s \in Nat /\ cc % CHK \in Nat /\ s < FramesOf(u, cc)
  BY Sizing, Tags
<1> QED
  BY <1>1 DEF Frame, Frames

(* The oldest of a stock of orphans goes.                                  *)
LEMMA Oldest ==
  ASSUME NEW S \in SUBSET Orphans, S # {}
  PROVE  \E o \in S : \A p \in S : p.age <= o.age
<1> DEFINE T == {OrphanTTL - o.age : o \in S}
<1>1. \A o \in S : o.age \in Nat /\ o.age <= OrphanTTL
  BY Settings DEF Orphans
<1>2. T \subseteq Nat /\ T # {}
  BY <1>1, Settings
<1>3. \E m \in T : \A n \in T : m <= n
  <2> HIDE DEF T
  <2> QED
    BY <1>2, LeastNatural
<1>4. PICK o \in S : \A p \in S : OrphanTTL - o.age <= OrphanTTL - p.age
  BY <1>3
<1> QED
  BY <1>1, <1>4, Settings

LEMMA RoomKeepsCap ==
  ASSUME NEW r, r.orphans \in SUBSET Orphans, Stocked(r), NEW f \in Frames
  PROVE  LET S == Room(r.orphans) \cup {[frame |-> f, age |-> 0]}
         IN S \in SUBSET Orphans /\ IsFiniteSet(S) /\ Cardinality(S) <= OrphanCap
<1> DEFINE O == r.orphans
           e == [frame |-> f, age |-> 0]
<1>0. OrphanCap \in Nat /\ OrphanCap > 0 /\ OrphanTTL \in Nat
  BY Settings
<1>1. e \in Orphans
  BY <1>0 DEF Orphans
<1>2. IsFiniteSet(O) /\ Cardinality(O) \in Nat /\ Cardinality(O) <= OrphanCap
  BY FS_CardinalityType DEF Stocked
<1>3. /\ Room(O) \subseteq O /\ IsFiniteSet(Room(O)) /\ Cardinality(Room(O)) \in Nat
      /\ Cardinality(Room(O)) < OrphanCap
  <2>1. CASE Cardinality(O) < OrphanCap
    BY <1>2, <2>1 DEF Room
  <2>2. CASE ~(Cardinality(O) < OrphanCap)
    <3>1. O # {}
      BY <1>0, <2>2, FS_EmptySet
    <3>2. PICK o \in O : \A p \in O : p.age <= o.age
      BY <3>1, Oldest
    <3>3. \A p \in O : p.age \in Int
      BY <1>0 DEF Orphans
    <3>4. Room(O) = {p \in O : \E q \in O : q.age > p.age}
      BY <2>2 DEF Room
    <3>5. Room(O) \subseteq O /\ o \notin Room(O)
      BY <3>2, <3>3, <3>4
    <3>6. Room(O) # O
      BY <3>5
    <3>7. IsFiniteSet(Room(O)) /\ Cardinality(Room(O)) <= Cardinality(O)
      BY <1>2, <3>5, FS_Subset
    <3>8. Cardinality(Room(O)) # Cardinality(O)
      BY <1>2, <3>5, <3>6, FS_Subset
    <3>9. Cardinality(Room(O)) \in Nat
      BY <3>7, FS_CardinalityType
    <3> QED
      BY <1>0, <1>2, <3>5, <3>7, <3>8, <3>9
  <2> QED
    BY <2>1, <2>2
<1>4. /\ IsFiniteSet(Room(O) \cup {e})
      /\ Cardinality(Room(O) \cup {e}) <= Cardinality(Room(O)) + 1
  BY <1>3, FS_AddElement
<1>5. Cardinality(Room(O) \cup {e}) \in Nat
  BY <1>4, FS_CardinalityType
<1> QED
  BY <1>0, <1>1, <1>3, <1>4, <1>5

-----------------------------------------------------------------------------
LEMMA DrainedFrames ==
  ASSUME NEW w, NEW O \in SUBSET Orphans
  PROVE  /\ Drained(w, O) \in SUBSET Frames
         /\ \A f \in Drained(w, O) : Accepts(w, f)
         /\ \A f \in Drained(w, O) : \E o \in O : o.frame = f
BY DEF Drained, Orphans

(* What opening a window leaves alone.                                     *)
Opens(r, u, cc, pcrc, s) ==
  /\ s \in Records
  /\ s.win.active /\ s.win.uid = u /\ s.win.cc = cc /\ s.win.pcrc = pcrc
  /\ s.win.got = Drained(Window(u, cc, pcrc), r.orphans)
  /\ s.orphans \subseteq r.orphans /\ s.watch = TRUE
  /\ \A o \in s.orphans : ~Accepts(Window(u, cc, pcrc), o.frame)
  /\ s.latched = r.latched /\ s.held = r.held /\ s.evict = r.evict
  /\ s.delivered = r.delivered /\ s.replies = r.replies /\ s.foreign = r.foreign
  /\ s.deliveries = r.deliveries /\ s.mangled = r.mangled

LEMMA OpenedFields ==
  ASSUME NEW r \in Records, NEW u \in Uids, NEW cc \in 1..Total(u), NEW pcrc \in BOOLEAN
  PROVE  Opens(r, u, cc, pcrc, Opened(r, u, cc, pcrc))
<1> DEFINE w == Window(u, cc, pcrc)
           D == Drained(w, r.orphans)
           v == [w EXCEPT !.got = D]
           s == Opened(r, u, cc, pcrc)
           left == {o \in r.orphans : ~Accepts(w, o.frame)}
<1>1. s = [r EXCEPT !.win = v, !.orphans = left, !.watch = TRUE]
  BY DEF Opened
<1>2. D \in SUBSET Frames /\ \A f \in D : Accepts(w, f)
  BY DrainedFrames DEF Records
<1>3. /\ w \in [active : BOOLEAN, uid : Uids, cc : Nat, got : SUBSET Frames, pcrc : BOOLEAN]
      /\ w.active /\ w.uid = u /\ w.cc = cc /\ w.pcrc = pcrc
  BY Sizing DEF Window
<1> HIDE DEF D, w
<1>4. /\ v \in [active : BOOLEAN, uid : Uids, cc : Nat, got : SUBSET Frames, pcrc : BOOLEAN]
      /\ v.active /\ v.uid = u /\ v.cc = cc /\ v.pcrc = pcrc /\ v.got = D
  BY <1>2, <1>3
<1> HIDE DEF v, left
<1>6. v \in Windows
  BY <1>2, <1>3, <1>4 DEF Windows, Accepts
<1>7. /\ left \in SUBSET Orphans /\ left \subseteq r.orphans
      /\ \A o \in left : ~Accepts(w, o.frame)
  BY DEF left, Records
<1>8. s \in Records
  BY <1>1, <1>6, <1>7 DEF Records
<1>9. /\ s.win = v /\ s.orphans = left /\ s.watch = TRUE
      /\ s.latched = r.latched /\ s.held = r.held /\ s.evict = r.evict
      /\ s.delivered = r.delivered /\ s.replies = r.replies /\ s.foreign = r.foreign
      /\ s.deliveries = r.deliveries /\ s.mangled = r.mangled
  BY <1>1 DEF Records
<1> QED
  BY <1>4, <1>7, <1>8, <1>9 DEF D, w, Opens

(* What storing the complete windows of one message leaves alone.          *)
Stores(r, ws, s) ==
  /\ s \in Records
  /\ s.watch = FALSE /\ s.win = r.win /\ s.orphans = r.orphans
  /\ s.latched = r.latched /\ s.evict = r.evict /\ s.delivered = r.delivered
  /\ s.deliveries = r.deliveries /\ s.mangled = r.mangled
  /\ \A u \in Uids : s.held[u] = r.held[u] \cup {w.cc : w \in {v \in ws : v.uid = u}}
  /\ s.foreign = r.foreign \cup {<<w.uid, w.cc>> : w \in {v \in ws : ~Own(v)}}
  /\ s.replies = r.replies \cup UNION {Reply("ACK", w.uid, w.cc, 1, FALSE) : w \in ws}

LEMMA StoredFields ==
  ASSUME NEW r \in Records, NEW ws \in SUBSET Windows
  PROVE  Stores(r, ws, Stored(r, ws))
<1> DEFINE s == Stored(r, ws)
           H == [u \in Uids |-> r.held[u] \cup {w.cc : w \in {v \in ws : v.uid = u}}]
           F == r.foreign \cup {<<w.uid, w.cc>> : w \in {v \in ws : ~Own(v)}}
           R == r.replies \cup UNION {Reply("ACK", w.uid, w.cc, 1, FALSE) : w \in ws}
<1>1. s = [r EXCEPT !.watch = FALSE, !.held = H, !.foreign = F, !.replies = R]
  BY DEF Stored
<1>2. \A w \in ws : w.uid \in Uids /\ w.cc \in Nat /\ w.cc \in 1..Total(w.uid)
  BY DEF Windows
<1>3. H \in [Uids -> SUBSET Nat]
  BY <1>2 DEF Records
<1>4. F \in SUBSET (Uids \X Nat)
  BY <1>2 DEF Records
<1>5. ASSUME NEW w \in ws PROVE Reply("ACK", w.uid, w.cc, 1, FALSE) \subseteq Replies
  BY <1>2 DEF Reply, Replies
<1>6. R \in SUBSET Replies
  <2>1. r.replies \subseteq Replies
    BY DEF Records
  <2>2. ASSUME NEW x \in UNION {Reply("ACK", w.uid, w.cc, 1, FALSE) : w \in ws} PROVE x \in Replies
    BY <1>5, <2>2
  <2> QED
    BY <2>1, <2>2
<1> HIDE DEF F, R
<1>7. s \in Records
  <2> HIDE DEF H
  <2> QED
    BY <1>1, <1>3, <1>4, <1>6 DEF Records
<1>8. /\ s.watch = FALSE /\ s.held = H /\ s.foreign = F /\ s.replies = R
      /\ s.win = r.win /\ s.orphans = r.orphans
      /\ s.latched = r.latched /\ s.evict = r.evict /\ s.delivered = r.delivered
      /\ s.deliveries = r.deliveries /\ s.mangled = r.mangled
  <2> HIDE DEF H
  <2> QED
    BY <1>1 DEF Records
<1> QED
  BY <1>7, <1>8 DEF F, R, Stores

Delivers(r, u, s) ==
  /\ s \in Records
  /\ s.win = ClosedWindow /\ s.watch = r.watch /\ s.orphans = r.orphans
  /\ s.latched = r.latched /\ s.evict = r.evict \ {u}
  /\ s.delivered = r.delivered \cup {u} /\ s.replies = r.replies
  /\ s.foreign = r.foreign
  /\ s.held = [r.held EXCEPT ![u] = {}]
  /\ s.deliveries = [r.deliveries EXCEPT ![u] = @ + 1]
  /\ s.mangled \subseteq r.mangled \cup {u}
  /\ u \in s.mangled \ r.mangled =>
       r.held[u] # 1..Total(u) \/ \E cc \in 1..Total(u) : <<u, cc>> \in r.foreign

LEMMA DeliverFields ==
  ASSUME NEW r \in Records, NEW u \in Uids
  PROVE  Delivers(r, u, Deliver(r, u))
<1> DEFINE s == Deliver(r, u)
           M == r.mangled \cup {v \in {u} :
                  r.held[v] # 1..Total(v) \/ \E cc \in 1..Total(v) : <<v, cc>> \in r.foreign}
<1>1. s = [r EXCEPT !.delivered = @ \cup {u}, !.evict = @ \ {u}, !.held[u] = {},
                    !.win = ClosedWindow, !.deliveries[u] = @ + 1, !.mangled = M]
  BY DEF Deliver
<1>2. ClosedWindow \in Windows
  BY Sizing DEF ClosedWindow, Windows
<1>3. M \in SUBSET Uids
  BY DEF Records
<1> HIDE DEF M
<1>4. s \in Records
  <2>1. /\ [r.held EXCEPT ![u] = {}] \in [Uids -> SUBSET Nat]
        /\ [r.deliveries EXCEPT ![u] = @ + 1] \in [Uids -> Nat]
    BY DEF Records
  <2>2. s = [r EXCEPT !.delivered = @ \cup {u}, !.evict = @ \ {u},
                      !.held = [r.held EXCEPT ![u] = {}], !.win = ClosedWindow,
                      !.deliveries = [r.deliveries EXCEPT ![u] = @ + 1], !.mangled = M]
    BY <1>1 DEF Records
  <2> HIDE DEF s
  <2> QED
    BY <2>1, <2>2, <1>2, <1>3 DEF Records
<1>5. /\ s.win = ClosedWindow /\ s.watch = r.watch /\ s.orphans = r.orphans
      /\ s.latched = r.latched /\ s.evict = r.evict \ {u}
      /\ s.delivered = r.delivered \cup {u} /\ s.replies = r.replies
      /\ s.foreign = r.foreign /\ s.mangled = M
      /\ s.held = [r.held EXCEPT ![u] = {}]
      /\ s.deliveries = [r.deliveries EXCEPT ![u] = @ + 1]
  BY <1>1 DEF Records
<1> QED
  BY <1>4, <1>5 DEF M, Delivers

-----------------------------------------------------------------------------
(* The chain of windows that orphans complete.                             *)
LooksAhead(r, u, a, c, w) ==
  /\ w \in Windows /\ w.active /\ w.uid = u /\ w.cc = c /\ w.pcrc = FALSE
  /\ w.got = Drained(Window(u, c, FALSE), LeftBy(u, a..(c-1), r.orphans))

LEMMA AheadFields ==
  ASSUME NEW r \in Records, NEW u \in Uids, NEW a \in Nat, NEW c \in 1..Total(u)
  PROVE  LooksAhead(r, u, a, c, Ahead(r, u, a, c))
<1> DEFINE v == Window(u, c, FALSE)
           D == Drained(v, LeftBy(u, a..(c-1), r.orphans))
           w == Ahead(r, u, a, c)
<1>1. LeftBy(u, a..(c-1), r.orphans) \in SUBSET Orphans
  BY DEF LeftBy, Records
<1>2. D \in SUBSET Frames /\ \A f \in D : Accepts(v, f)
  BY <1>1, DrainedFrames
<1>3. /\ v \in [active : BOOLEAN, uid : Uids, cc : Nat, got : SUBSET Frames, pcrc : BOOLEAN]
      /\ v.active /\ v.uid = u /\ v.cc = c /\ v.pcrc = FALSE
  BY Sizing DEF Window
<1>4. w = [v EXCEPT !.got = D]
  BY DEF Ahead
<1> HIDE DEF D, v, w
<1>5. /\ w \in [active : BOOLEAN, uid : Uids, cc : Nat, got : SUBSET Frames, pcrc : BOOLEAN]
      /\ w.active /\ w.uid = u /\ w.cc = c /\ w.pcrc = FALSE /\ w.got = D
  BY <1>2, <1>3, <1>4
<1>6. w \in Windows
  BY <1>2, <1>3, <1>5 DEF Windows, Accepts
<1> QED
  BY <1>5, <1>6 DEF D, v, w, LooksAhead

StopsAt(r, u, a, e) ==
  /\ e \in a..(Total(u) + 1)
  /\ Gaps(r, u, a) = {} => e = Total(u) + 1
  /\ Gaps(r, u, a) # {} => e \in a..Total(u) /\ ~Complete(Ahead(r, u, a, e))
  /\ \A c \in a..(e - 1) : Complete(Ahead(r, u, a, c))
  /\ \A c \in Gaps(r, u, a) : e <= c

LEMMA FirstGapFacts ==
  ASSUME NEW r, NEW u \in Uids, NEW a \in Nat, a >= 1, a <= Total(u) + 1
  PROVE  StopsAt(r, u, a, FirstGap(r, u, a))
<1> DEFINE e == FirstGap(r, u, a)
           G == Gaps(r, u, a)
           n == Total(u)
<1>0. n \in Nat /\ a \in Nat /\ a >= 1 /\ a <= n + 1
  BY Sizing
<1>1. G \subseteq a..n /\ \A c \in a..n : c \notin G => Complete(Ahead(r, u, a, c))
  BY DEF Gaps
<1>2. \A c \in G : ~Complete(Ahead(r, u, a, c))
  BY DEF Gaps
<1>3. CASE G = {}
  <2>1. e = n + 1
    BY <1>3 DEF FirstGap
  <2> HIDE DEF e, G, n
  <2> QED
    BY <2>1, <1>0, <1>1, <1>3 DEF e, G, n, StopsAt
<1>4. CASE G # {}
  <2>1. e = CHOOSE c \in G : \A d \in G : c <= d
    BY <1>4 DEF FirstGap
  <2> HIDE DEF e, G, n
  <2>2. \E c \in G : \A d \in G : c <= d
    <3>1. G \subseteq Nat
      BY <1>0, <1>1
    <3> QED
      BY <3>1, <1>4, LeastNatural
  <2>3. e \in G /\ \A d \in G : e <= d
    BY <2>1, <2>2
  <2>4. e \in a..n /\ ~Complete(Ahead(r, u, a, e))
    BY <2>3, <1>1, <1>2
  <2>5. ASSUME NEW c \in a..(e - 1) PROVE Complete(Ahead(r, u, a, c))
    <3>1. c \in a..n /\ ~(e <= c)
      BY <2>4, <1>0
    <3> QED
      BY <3>1, <2>3, <1>1
  <2> QED
    BY <2>3, <2>4, <2>5, <1>0, <1>4 DEF e, G, n, StopsAt
<1> QED
  BY <1>3, <1>4

LEMMA WindowOpen ==
  ASSUME NEW u \in Uids, NEW c \in 1..Total(u), NEW w, w.uid = u, w.cc = c, w.got = {}
  PROVE  ~Complete(w)
BY Sizing DEF Complete

(* What AutoAdvance does: the chunks a..e-1 are stored and acknowledged,   *)
(* and the window on e opens, or the message is delivered.                 *)
Chain(r, u, a, e) == {Ahead(r, u, a, c) : c \in a..(e - 1)}

Banks(r, u, a, e, s) ==
  /\ s \in Records
  /\ s.latched = r.latched /\ s.orphans \subseteq r.orphans
  /\ s.foreign = r.foreign \cup {<<w.uid, w.cc>> : w \in {v \in Chain(r, u, a, e) : ~Own(v)}}
  /\ s.replies = r.replies \cup
       UNION {Reply("ACK", w.uid, w.cc, 1, FALSE) : w \in Chain(r, u, a, e)}
  /\ \A v \in Uids \ {u} : s.held[v] = r.held[v] /\ s.deliveries[v] = r.deliveries[v]

GoesOn(r, u, a, e, s) ==
  /\ s.win = Ahead(r, u, a, e) /\ ~Complete(s.win) /\ s.watch = TRUE
  /\ \A o \in s.orphans : ~Accepts(Window(u, e, FALSE), o.frame)
  /\ s.held[u] = r.held[u] \cup a..(e - 1)
  /\ s.evict = r.evict /\ s.delivered = r.delivered
  /\ s.deliveries[u] = r.deliveries[u] /\ s.mangled = r.mangled

Ends(r, u, a, e, s) ==
  /\ s.win = ClosedWindow /\ s.watch = FALSE /\ s.held[u] = {}
  /\ s.evict = r.evict \ {u} /\ s.delivered = r.delivered \cup {u}
  /\ s.deliveries[u] = r.deliveries[u] + 1
  /\ s.mangled \subseteq r.mangled \cup {u}
  /\ u \in s.mangled \ r.mangled =>
       \/ r.held[u] \cup a..(e - 1) # 1..Total(u)
       \/ \E cc \in 1..Total(u) : <<u, cc>> \in s.foreign

Advances(r, u, a, e, s) ==
  /\ e \in a..(Total(u) + 1) /\ Banks(r, u, a, e, s)
  /\ \A c \in a..(e - 1) : Complete(Ahead(r, u, a, c))
  /\ e <= Total(u) => GoesOn(r, u, a, e, s)
  /\ e = Total(u) + 1 => Ends(r, u, a, e, s)

LEMMA AutoAdvances ==
  ASSUME NEW r \in Records, NEW u \in Uids, NEW a \in Nat, a >= 1, a <= Total(u) + 1
  PROVE  Advances(r, u, a, FirstGap(r, u, a), AutoAdvance(r, u, a))
<1> DEFINE e == FirstGap(r, u, a)
           done == a..(e - 1)
           ws == Chain(r, u, a, e)
           p == Stored(r, ws)
           L == LeftBy(u, done, r.orphans)
           q == [p EXCEPT !.orphans = LeftBy(u, done, @)]
           s == AutoAdvance(r, u, a)
<1> HIDE DEF e
<1>0. /\ e \in a..(Total(u) + 1) /\ Total(u) \in Nat
      /\ Gaps(r, u, a) = {} => e = Total(u) + 1
      /\ Gaps(r, u, a) # {} => e \in a..Total(u) /\ ~Complete(Ahead(r, u, a, e))
      /\ \A c \in a..(e - 1) : Complete(Ahead(r, u, a, c))
  <2>1. StopsAt(r, u, a, e)
    BY FirstGapFacts DEF e
  <2> QED
    BY <2>1, Sizing DEF StopsAt
<1>1. \A c \in done : c \in 1..Total(u)
  BY <1>0
<1>2a. ws = {Ahead(r, u, a, c) : c \in done}
  BY DEF Chain
<1> HIDE DEF ws
<1>2. ws \in SUBSET Windows /\ \A c \in done : Ahead(r, u, a, c).uid = u /\ Ahead(r, u, a, c).cc = c
  <2>1. ASSUME NEW c \in done PROVE LooksAhead(r, u, a, c, Ahead(r, u, a, c))
    BY <1>1, <2>1, AheadFields
  <2> HIDE DEF done
  <2> QED
    BY <2>1, <1>2a DEF LooksAhead
<1>3. L \in SUBSET Orphans /\ L \subseteq r.orphans
  BY DEF LeftBy, Records
<1> HIDE DEF L
<1>4. /\ p \in Records
      /\ p.watch = FALSE /\ p.win = r.win /\ p.orphans = r.orphans
      /\ p.latched = r.latched /\ p.evict = r.evict /\ p.delivered = r.delivered
      /\ p.deliveries = r.deliveries /\ p.mangled = r.mangled
      /\ \A v \in Uids : p.held[v] = r.held[v] \cup {w.cc : w \in {x \in ws : x.uid = v}}
      /\ p.foreign = r.foreign \cup {<<w.uid, w.cc>> : w \in {v \in ws : ~Own(v)}}
      /\ p.replies = r.replies \cup UNION {Reply("ACK", w.uid, w.cc, 1, FALSE) : w \in ws}
  <2>1. Stores(r, ws, p)
    BY <1>2, StoredFields
  <2> HIDE DEF p
  <2> QED
    BY <2>1 DEF Stores
<1>5. p.held[u] = r.held[u] \cup done /\ \A v \in Uids \ {u} : p.held[v] = r.held[v]
  <2>1. {w.cc : w \in {x \in ws : x.uid = u}} = done
    BY <1>2, <1>2a
  <2>2. \A v \in Uids \ {u} : {w.cc : w \in {x \in ws : x.uid = v}} = {}
    BY <1>2, <1>2a
  <2> HIDE DEF p, done
  <2> QED
    BY <1>4, <2>1, <2>2
<1> HIDE DEF p
<1>6. /\ q \in Records /\ q.orphans = L
      /\ q.watch = FALSE
      /\ q.latched = r.latched /\ q.evict = r.evict /\ q.delivered = r.delivered
      /\ q.deliveries = r.deliveries /\ q.mangled = r.mangled
      /\ q.held = p.held /\ q.foreign = p.foreign /\ q.replies = p.replies
  <2>1. q = [p EXCEPT !.orphans = L]
    BY <1>4 DEF L
  <2> HIDE DEF q
  <2> QED
    BY <2>1, <1>3, <1>4 DEF Records
<1>7. s = IF Gaps(r, u, a) = {} THEN Deliver(q, u) ELSE Opened(q, u, e, FALSE)
  BY <1>2a DEF AutoAdvance, p, e
<1> HIDE DEF q, done, s
<1> SUFFICES Advances(r, u, a, e, s)
  BY DEF e, s
<1>8. CASE Gaps(r, u, a) = {}
  <2>1. e = Total(u) + 1 /\ ~(e <= Total(u)) /\ s = Deliver(q, u)
    BY <1>0, <1>7, <1>8
  <2>2. /\ s \in Records
        /\ s.win = ClosedWindow /\ s.watch = q.watch /\ s.orphans = q.orphans
        /\ s.latched = q.latched /\ s.evict = q.evict \ {u}
        /\ s.delivered = q.delivered \cup {u} /\ s.replies = q.replies
        /\ s.foreign = q.foreign
        /\ s.held = [q.held EXCEPT ![u] = {}]
        /\ s.deliveries = [q.deliveries EXCEPT ![u] = @ + 1]
        /\ s.mangled \subseteq q.mangled \cup {u}
        /\ u \in s.mangled \ q.mangled =>
             q.held[u] # 1..Total(u) \/ \E cc \in 1..Total(u) : <<u, cc>> \in q.foreign
    <3>1. Delivers(q, u, s)
      BY <1>6, <2>1, DeliverFields
    <3> QED
      BY <3>1 DEF Delivers
  <2>3. q.held \in [Uids -> SUBSET Nat] /\ q.deliveries \in [Uids -> Nat]
    BY <1>6 DEF Records
  <2>4. /\ s.held[u] = {} /\ s.deliveries[u] = r.deliveries[u] + 1
        /\ \A v \in Uids \ {u} : s.held[v] = r.held[v] /\ s.deliveries[v] = r.deliveries[v]
    BY <2>2, <2>3, <1>5, <1>6
  <2>5. Ends(r, u, a, e, s)
    <3>1. q.held[u] = r.held[u] \cup a..(e - 1)
      BY <1>5, <1>6 DEF done
    <3> QED
      BY <2>2, <2>4, <3>1, <1>4, <1>6 DEF Ends
  <2>6. Banks(r, u, a, e, s)
    BY <2>2, <2>4, <1>3, <1>4, <1>6 DEF Banks, ws
  <2> QED
    BY <2>1, <2>5, <2>6, <1>0 DEF Advances
<1>9. CASE Gaps(r, u, a) # {}
  <2>0. e \in 1..Total(u) /\ e <= Total(u) /\ ~(e = Total(u) + 1)
    BY <1>0, <1>9
  <2>1. /\ e \in 1..Total(u) /\ e <= Total(u) /\ ~(e = Total(u) + 1)
        /\ ~Complete(Ahead(r, u, a, e)) /\ s = Opened(q, u, e, FALSE)
    BY <2>0, <1>0, <1>7, <1>9
  <2>2. /\ s \in Records
        /\ s.orphans \subseteq q.orphans /\ s.watch = TRUE
        /\ \A o \in s.orphans : ~Accepts(Window(u, e, FALSE), o.frame)
        /\ s.latched = q.latched /\ s.held = q.held /\ s.evict = q.evict
        /\ s.delivered = q.delivered /\ s.replies = q.replies /\ s.foreign = q.foreign
        /\ s.deliveries = q.deliveries /\ s.mangled = q.mangled
    <3>1. Opens(q, u, e, FALSE, s)
      BY <1>6, <2>1, OpenedFields
    <3> QED
      BY <3>1 DEF Opens
  <2>3. s.win = Ahead(r, u, a, e)
    <3>1. s = [q EXCEPT !.win = [Window(u, e, FALSE) EXCEPT !.got = Drained(Window(u, e, FALSE), q.orphans)],
                        !.orphans = {o \in @ : ~Accepts(Window(u, e, FALSE), o.frame)},
                        !.watch = TRUE]
      BY <2>1 DEF Opened
    <3>2. s.win = [Window(u, e, FALSE) EXCEPT !.got = Drained(Window(u, e, FALSE), q.orphans)]
      BY <3>1, <1>6 DEF Records
    <3> QED
      BY <3>2, <1>6 DEF Ahead, L, done
  <2>4. GoesOn(r, u, a, e, s)
    <3>1. q.held[u] = r.held[u] \cup a..(e - 1)
      BY <1>5, <1>6 DEF done
    <3> QED
      BY <2>1, <2>2, <2>3, <3>1, <1>4, <1>6 DEF GoesOn
  <2>5. Banks(r, u, a, e, s)
    BY <2>2, <1>3, <1>4, <1>5, <1>6 DEF Banks, ws
  <2> QED
    BY <2>1, <2>4, <2>5, <1>0 DEF Advances
<1> QED
  BY <1>8, <1>9

-----------------------------------------------------------------------------
(* Each handler leaves a sound record sound.                               *)
LEMMA AdvanceSafe ==
  ASSUME NEW r, Sound(r), NEW n \in Nat, Once(r, n), NEW u \in Uids,
         u \in r.evict, u \in r.latched, NEW a \in Nat, a >= 1, a <= Total(u) + 1
  PROVE  Safe(AutoAdvance(r, u, a), n)
<1> DEFINE s == AutoAdvance(r, u, a)
           e == FirstGap(r, u, a)
<1> HIDE DEF s, e
<1> SUFFICES Safe(s, n)
  BY DEF s
<1>1. r \in Records /\ Stocked(r) /\ Guarded(r)
  BY DEF Sound
<1>2. Advances(r, u, a, e, s)
  BY <1>1, AutoAdvances DEF s, e
<1>3. Banks(r, u, a, e, s) /\ e \in a..(Total(u) + 1) /\ Total(u) \in Nat
  BY <1>2, Sizing DEF Advances
<1>4. s \in Records /\ Stocked(s)
  BY <1>1, <1>3, FS_Subset, FS_CardinalityType, Settings DEF Banks, Stocked
<1>5. u \notin r.delivered
  BY <1>1 DEF Guarded
<1>6. /\ s.latched = r.latched
      /\ \A v \in Uids \ {u} : s.held[v] = r.held[v] /\ s.deliveries[v] = r.deliveries[v]
  BY <1>3 DEF Banks
<1>7. CASE e <= Total(u)
  <2>1. GoesOn(r, u, a, e, s)
    BY <1>2, <1>7 DEF Advances
  <2>2. s.win.active /\ s.win.uid = u
    <3>1. e \in 1..Total(u)
      BY <1>3, <1>7
    <3>2. LooksAhead(r, u, a, e, Ahead(r, u, a, e))
      BY <1>1, <3>1, AheadFields
    <3> QED
      BY <2>1, <3>2 DEF LooksAhead, GoesOn
  <2>3. s.held[u] \subseteq 1..Total(u)
    <3>1. a..(e - 1) \subseteq 1..Total(u)
      BY <1>3, <1>7
    <3> QED
      BY <2>1, <3>1, <1>1 DEF GoesOn, Guarded
  <2>4. Guarded(s)
    BY <2>1, <2>2, <2>3, <1>1, <1>6 DEF GoesOn, Guarded
  <2>5. Once(s, n)
    <3>1. s.delivered = r.delivered /\ \A v \in Uids : s.deliveries[v] = r.deliveries[v]
      BY <2>1, <1>6 DEF GoesOn
    <3> QED
      BY <3>1 DEF Once
  <2> QED
    BY <2>1, <2>2, <2>4, <2>5, <1>4 DEF GoesOn, Safe, Sound
<1>8. CASE e = Total(u) + 1
  <2>1. Ends(r, u, a, e, s)
    BY <1>2, <1>8 DEF Advances
  <2>2. s.win = ClosedWindow /\ s.watch = FALSE /\ ~s.win.active
    BY <2>1 DEF Ends, ClosedWindow
  <2>3. Guarded(s)
    BY <2>1, <2>2, <1>1, <1>5, <1>6 DEF Ends, Guarded
  <2>4. Once(s, n)
    <3>1. s.delivered = r.delivered \cup {u} /\ s.deliveries[u] = r.deliveries[u] + 1
      BY <2>1 DEF Ends
    <3>2. r.deliveries[u] \in Nat /\ r.deliveries[u] <= n
      BY <1>1, <1>5 DEF Records, Once
    <3> QED
      BY <3>1, <3>2, <1>6 DEF Once
  <2>5. ~Complete(s.win)
    <3>1. s.win.uid = 1 /\ s.win.cc = 1 /\ s.win.got = {} /\ 1 \in Uids /\ 1 \in 1..Total(1)
      BY <2>2, Sizing DEF ClosedWindow
    <3> QED
      BY <3>1, WindowOpen
  <2> QED
    BY <2>2, <2>3, <2>4, <2>5, <1>4 DEF Safe, Sound
<1> QED
  BY <1>3, <1>7, <1>8

(* Storing one window.                                                     *)
Banked(r, w, p) ==
  /\ p \in Records /\ p.watch = FALSE /\ p.win = r.win /\ p.orphans = r.orphans
  /\ p.latched = r.latched /\ p.evict = r.evict /\ p.delivered = r.delivered
  /\ p.deliveries = r.deliveries /\ p.mangled = r.mangled
  /\ p.held[w.uid] = r.held[w.uid] \cup {w.cc}
  /\ \A v \in Uids \ {w.uid} : p.held[v] = r.held[v]
  /\ p.foreign \subseteq r.foreign \cup {<<w.uid, w.cc>>}
  /\ Own(w) => p.foreign = r.foreign
  /\ p.replies = r.replies \cup Reply("ACK", w.uid, w.cc, 1, FALSE)

LEMMA StoredOne ==
  ASSUME NEW r \in Records, NEW w \in Windows
  PROVE  Banked(r, w, Stored(r, {w}))
<1> DEFINE p == Stored(r, {w})
           M(v) == {y.cc : y \in {x \in {w} : x.uid = v}}
           F == {<<y.uid, y.cc>> : y \in {v \in {w} : ~Own(v)}}
           R == UNION {Reply("ACK", y.uid, y.cc, 1, FALSE) : y \in {w}}
<1>1. Stores(r, {w}, p)
  BY StoredFields
<1>2. M(w.uid) = {w.cc} /\ \A v \in Uids \ {w.uid} : M(v) = {}
  OBVIOUS
<1>3. F \subseteq {<<w.uid, w.cc>>} /\ (Own(w) => F = {})
  OBVIOUS
<1>4. R = Reply("ACK", w.uid, w.cc, 1, FALSE)
  OBVIOUS
<1> HIDE DEF p
<1>5. /\ \A v \in Uids : p.held[v] = r.held[v] \cup M(v)
      /\ p.foreign = r.foreign \cup F /\ p.replies = r.replies \cup R
  BY <1>1 DEF Stores
<1> HIDE DEF M, F, R
<1>6. w.uid \in Uids
  BY DEF Windows
<1>7. p.held[w.uid] = r.held[w.uid] \cup {w.cc} /\ \A v \in Uids \ {w.uid} : p.held[v] = r.held[v]
  BY <1>2, <1>5, <1>6
<1>8. p.foreign \subseteq r.foreign \cup {<<w.uid, w.cc>>} /\ (Own(w) => p.foreign = r.foreign)
  BY <1>3, <1>5
<1>9. p.replies = r.replies \cup Reply("ACK", w.uid, w.cc, 1, FALSE)
  BY <1>4, <1>5
<1>10. Banked(r, w, p)
  BY <1>1, <1>7, <1>8, <1>9 DEF Stores, Banked
<1> QED
  BY <1>10 DEF p

LEMMA FinishSafe ==
  ASSUME NEW r, Sound(r), r.win.active, NEW n \in Nat, Once(r, n)
  PROVE  Safe(FinishNativeChunk(r), n)
<1> DEFINE w == r.win
           p == Stored(r, {w})
           b == [r EXCEPT !.replies = @ \cup Reply("NACK", w.uid, w.cc, 1, FALSE),
                          !.win.got = {}, !.watch = TRUE]
<1>1. r \in Records /\ Stocked(r) /\ Guarded(r)
  BY DEF Sound
<1>2. /\ w \in Windows /\ w.uid \in Uids /\ w.cc \in Nat /\ w.cc \in 1..Total(w.uid)
      /\ Total(w.uid) \in Nat
  <2>1. w \in Windows
    BY <1>1 DEF Records
  <2> QED
    BY <2>1, Sizing DEF Windows
<1> HIDE DEF w
<1>3. CASE CrcOk(w)
  <2>1. FinishNativeChunk(r) = AutoAdvance(p, w.uid, w.cc + 1)
    BY <1>3 DEF FinishNativeChunk, w
  <2>2. Banked(r, w, p)
    BY <1>1, <1>2, StoredOne
  <2> HIDE DEF p
  <2>3. /\ p \in Records /\ p.watch = FALSE /\ p.win = r.win /\ p.orphans = r.orphans
        /\ p.latched = r.latched /\ p.evict = r.evict /\ p.delivered = r.delivered
        /\ p.deliveries = r.deliveries
        /\ p.held[w.uid] = r.held[w.uid] \cup {w.cc}
        /\ \A v \in Uids \ {w.uid} : p.held[v] = r.held[v]
    BY <2>2 DEF Banked
  <2>4. w.uid \in r.evict /\ w.uid \in r.latched
    BY <1>1 DEF Guarded, w
  <2>5. Guarded(p)
    BY <2>3, <2>4, <1>1, <1>2 DEF Guarded
  <2>6. Sound(p) /\ Once(p, n)
    BY <2>3, <2>5, <1>1 DEF Sound, Stocked, Once
  <2>7. w.cc + 1 \in Nat /\ w.cc + 1 >= 1 /\ w.cc + 1 <= Total(w.uid) + 1
    BY <1>2
  <2> QED
    BY <2>1, <2>3, <2>4, <2>6, <2>7, <1>2, AdvanceSafe
<1>4. CASE ~CrcOk(w)
  <2>1. FinishNativeChunk(r) = b
    BY <1>4 DEF FinishNativeChunk, w
  <2>2. Reply("NACK", w.uid, w.cc, 1, FALSE) \in SUBSET Replies
    BY <1>2 DEF Reply, Replies
  <2>3. /\ [w EXCEPT !.got = {}] \in Windows
        /\ [w EXCEPT !.got = {}].uid = w.uid /\ [w EXCEPT !.got = {}].cc = w.cc
        /\ [w EXCEPT !.got = {}].got = {} /\ [w EXCEPT !.got = {}].active = w.active
    BY <1>2 DEF Windows
  <2>4. /\ b \in Records /\ b.win = [w EXCEPT !.got = {}] /\ b.orphans = r.orphans
        /\ b.latched = r.latched /\ b.evict = r.evict /\ b.delivered = r.delivered
        /\ b.deliveries = r.deliveries /\ b.held = r.held
    BY <2>2, <2>3, <1>1 DEF Records, w
  <2> HIDE DEF b
  <2>5. Sound(b) /\ Once(b, n)
    BY <2>3, <2>4, <1>1 DEF Sound, Stocked, Guarded, Once, w
  <2>6. ~Complete(b.win)
    BY <2>3, <2>4, <1>2, WindowOpen
  <2> QED
    BY <2>1, <2>5, <2>6 DEF Safe
<1> QED
  BY <1>3, <1>4

LEMMA OpenSafe ==
  ASSUME NEW r, Sound(r), NEW n \in Nat, Once(r, n), NEW u \in Uids,
         u \in r.evict, u \in r.latched, NEW cc \in 1..Total(u)
  PROVE  Safe(OpenNativeChunkWindow(r, u, cc), n)
<1> DEFINE s == Opened(r, u, cc, TRUE)
<1>1. r \in Records /\ Stocked(r) /\ Guarded(r)
  BY DEF Sound
<1>2. Opens(r, u, cc, TRUE, s)
  BY <1>1, OpenedFields
<1>3. OpenNativeChunkWindow(r, u, cc) = IF Complete(s.win) THEN FinishNativeChunk(s) ELSE s
  BY DEF OpenNativeChunkWindow
<1> HIDE DEF s
<1>4. Sound(s) /\ s.win.active /\ Once(s, n)
  <2>1. Stocked(s)
    BY <1>1, <1>2, FS_Subset, FS_CardinalityType, Settings DEF Opens, Stocked
  <2>2. Guarded(s)
    BY <1>1, <1>2 DEF Opens, Guarded
  <2> QED
    BY <2>1, <2>2, <1>2 DEF Sound, Opens, Once
<1>5. CASE Complete(s.win)
  BY <1>3, <1>4, <1>5, FinishSafe
<1>6. CASE ~Complete(s.win)
  BY <1>3, <1>4, <1>6 DEF Safe
<1> QED
  BY <1>5, <1>6

LEMMA ReAckDelayType ==
  ASSUME NEW r, NEW u \in Uids, NEW cc \in 1..Total(u)
  PROVE  Reply("ACK", u, cc, ReAckDelay(r, u, cc), TRUE) \in SUBSET Replies
BY Sizing, Settings DEF Reply, Replies, ReAckDelay

LEMMA MarkerSafe ==
  ASSUME NEW r, NEW n \in Nat, Safe(r, n), NEW u \in Uids, NEW cc \in 1..Total(u),
         NEW first \in BOOLEAN
  PROVE  Safe(HandleNativeMarker(r, u, cc, first), n)
<1> DEFINE s == HandleNativeMarker(r, u, cc, first)
<1>1. r \in Records /\ Stocked(r) /\ Guarded(r) /\ (r.watch => r.win.active)
  BY DEF Safe, Sound
<1>2. CASE u \in r.delivered
  <2> DEFINE R == r.replies \cup Reply("ACK", u, cc, ReAckDelay(r, u, cc), TRUE)
  <2>1. s = [r EXCEPT !.replies = R]
    BY <1>2 DEF HandleNativeMarker
  <2>2. R \in SUBSET Replies
    BY <1>1, ReAckDelayType DEF Records
  <2> HIDE DEF R, s
  <2>3. s \in Records
    BY <2>1, <2>2, <1>1 DEF Records
  <2>4. /\ s.win = r.win /\ s.orphans = r.orphans /\ s.watch = r.watch
        /\ s.latched = r.latched /\ s.evict = r.evict /\ s.delivered = r.delivered
        /\ s.deliveries = r.deliveries /\ s.held = r.held
    BY <2>1, <1>1 DEF Records
  <2>5. Safe(s, n)
    BY <2>3, <2>4, <1>1 DEF Safe, Sound, Stocked, Guarded, Once
  <2> QED
    BY <2>5 DEF s
<1>3. CASE u \notin r.delivered /\ cc \in r.held[u]
  <2> DEFINE x == r.watch \/ (r.win.active /\ r.win.uid = u)
  <2>1. s = [r EXCEPT !.watch = x]
    BY <1>3 DEF HandleNativeMarker
  <2>2. x \in BOOLEAN
    OBVIOUS
  <2>3. x => r.win.active
    BY <1>1
  <2> HIDE DEF x, s
  <2>4. /\ s \in Records /\ s.watch = x /\ s.win = r.win /\ s.orphans = r.orphans
        /\ s.latched = r.latched /\ s.evict = r.evict /\ s.delivered = r.delivered
        /\ s.deliveries = r.deliveries /\ s.held = r.held
    BY <2>1, <2>2, <1>1 DEF Records
  <2>5. Safe(s, n)
    BY <2>3, <2>4, <1>1 DEF Safe, Sound, Stocked, Guarded, Once
  <2> QED
    BY <2>5 DEF s
<1>4. CASE u \notin r.delivered /\ cc \notin r.held[u] /\ ~first /\ u \notin r.latched
  BY <1>4 DEF HandleNativeMarker
<1>5. CASE u \notin r.delivered /\ cc \notin r.held[u] /\ ~(~first /\ u \notin r.latched)
  <2> DEFINE q == [r EXCEPT !.latched = @ \cup {u}, !.evict = @ \cup {u}]
  <2>1. s = OpenNativeChunkWindow(q, u, cc)
    BY <1>5 DEF HandleNativeMarker
  <2>2. /\ q \in Records /\ q.watch = r.watch /\ q.win = r.win /\ q.orphans = r.orphans
        /\ q.latched = r.latched \cup {u} /\ q.evict = r.evict \cup {u}
        /\ q.delivered = r.delivered /\ q.deliveries = r.deliveries /\ q.held = r.held
    BY <1>1 DEF Records
  <2> HIDE DEF q, s
  <2>3. Sound(q) /\ Once(q, n)
    BY <2>2, <1>1, <1>5 DEF Safe, Sound, Stocked, Guarded, Once
  <2>4. u \in q.evict /\ u \in q.latched
    BY <2>2
  <2>5. Safe(s, n)
    BY <2>1, <2>3, <2>4, OpenSafe
  <2> QED
    BY <2>5 DEF s
<1> QED
  BY <1>2, <1>3, <1>4, <1>5

LEMMA TextMarkerSafe ==
  ASSUME NEW r, NEW n \in Nat, Safe(r, n), NEW u \in Uids, NEW cc \in 1..Total(u)
  PROVE  Safe(OnTextMarker(r, u, cc), n)
BY MarkerSafe DEF OnTextMarker

LEMMA MarkerFrameSafe ==
  ASSUME NEW r, NEW n \in Nat, Safe(r, n), NEW u \in Uids, NEW cc \in 1..Total(u)
  PROVE  Safe(OnMarkerFrame(r, u, cc), n)
BY MarkerSafe DEF OnMarkerFrame

LEMMA FrameSafe ==
  ASSUME NEW r, NEW n \in Nat, Safe(r, n), NEW f \in Frames
  PROVE  Safe(OnNativeFrameReceived(r, f), n)
<1> DEFINE s == OnNativeFrameReceived(r, f)
           w == r.win
<1>1. r \in Records /\ Stocked(r) /\ Guarded(r) /\ (r.watch => w.active) /\ ~Complete(w)
  BY DEF Safe, Sound
<1>2. w \in Windows /\ w.uid \in Uids /\ w.cc \in 1..Total(w.uid) /\ Total(w.uid) \in Nat
  <2>1. w \in Windows
    BY <1>1 DEF Records
  <2> QED
    BY <2>1, Sizing DEF Windows
<1>3. CASE w.active /\ Retried(r, f) /\ f.seq = FramesOf(w.uid, w.cc - 1) - 1
  <2> DEFINE R == r.replies \cup Reply("ACK", w.uid, w.cc - 1, 1, FALSE)
  <2>1. s = [r EXCEPT !.watch = TRUE, !.replies = R]
    BY <1>3 DEF OnNativeFrameReceived
  <2>2. w.cc - 1 \in 1..Total(w.uid)
    BY <1>2, <1>3 DEF Retried
  <2>3. R \in SUBSET Replies
    <3>1. w.cc - 1 \in Nat /\ w.uid \in Uids
      BY <2>2, <1>2
    <3>2. Reply("ACK", w.uid, w.cc - 1, 1, FALSE) \in SUBSET Replies
      <4> HIDE DEF w
      <4> QED
        BY <3>1, <2>2 DEF Reply, Replies
    <3> QED
      BY <3>2, <1>1 DEF Records
  <2> HIDE DEF R, s
  <2>4. /\ s \in Records /\ s.watch = TRUE /\ s.win = r.win /\ s.orphans = r.orphans
        /\ s.latched = r.latched /\ s.evict = r.evict /\ s.delivered = r.delivered
        /\ s.deliveries = r.deliveries /\ s.held = r.held
    BY <2>1, <2>3, <1>1 DEF Records
  <2>5. Safe(s, n)
    BY <2>4, <1>1, <1>3 DEF Safe, Sound, Stocked, Guarded, Once
  <2> QED
    BY <2>5 DEF s
<1>4. CASE w.active /\ Retried(r, f) /\ f.seq # FramesOf(w.uid, w.cc - 1) - 1
  BY <1>4 DEF OnNativeFrameReceived
<1>5. CASE w.active /\ ~Retried(r, f) /\ f.tag = w.cc % CHK /\ ~Accepts(w, f)
  BY <1>5 DEF OnNativeFrameReceived
<1>6. CASE w.active /\ ~Retried(r, f) /\ f.tag = w.cc % CHK /\ Accepts(w, f)
  <2> DEFINE v == Collect(w, f)
             c == [r EXCEPT !.win = v, !.watch = TRUE]
  <2>1. s = IF Complete(c.win) THEN FinishNativeChunk(c) ELSE c
    BY <1>6 DEF OnNativeFrameReceived
  <2>2. /\ v \in Windows /\ v.active /\ v.uid = w.uid /\ v.cc = w.cc
    <3>1. {g \in w.got : g.seq # f.seq} \cup {f} \in SUBSET Frames
      BY <1>2 DEF Windows
    <3>2. \A g \in {g \in w.got : g.seq # f.seq} \cup {f} : Accepts(w, g)
      BY <1>2, <1>6 DEF Windows
    <3> QED
      BY <3>1, <3>2, <1>2, <1>6 DEF Windows, Collect, Accepts
  <2> HIDE DEF v
  <2>3. /\ c \in Records /\ c.watch = TRUE /\ c.win = v /\ c.orphans = r.orphans
        /\ c.latched = r.latched /\ c.evict = r.evict /\ c.delivered = r.delivered
        /\ c.deliveries = r.deliveries /\ c.held = r.held
    BY <2>2, <1>1 DEF Records
  <2> HIDE DEF c, s
  <2>4. Sound(c) /\ Once(c, n) /\ c.win.active
    BY <2>2, <2>3, <1>1, <1>6 DEF Safe, Sound, Stocked, Guarded, Once
  <2>5. Safe(s, n)
    <3>1. CASE Complete(c.win)
      BY <3>1, <2>1, <2>4, FinishSafe
    <3>2. CASE ~Complete(c.win)
      BY <3>2, <2>1, <2>4 DEF Safe
    <3> QED
      BY <3>1, <3>2
  <2> QED
    BY <2>5 DEF s
<1>7. CASE ~(w.active /\ Retried(r, f)) /\ ~(w.active /\ f.tag = w.cc % CHK)
  <2> DEFINE O == Room(r.orphans) \cup {[frame |-> f, age |-> 0]}
  <2>1. s = [r EXCEPT !.orphans = O]
    BY <1>7 DEF OnNativeFrameReceived
  <2>2. O \in SUBSET Orphans /\ IsFiniteSet(O) /\ Cardinality(O) <= OrphanCap
    BY <1>1, RoomKeepsCap DEF Records
  <2> HIDE DEF O, s
  <2>3. /\ s \in Records /\ s.watch = r.watch /\ s.win = r.win /\ s.orphans = O
        /\ s.latched = r.latched /\ s.evict = r.evict /\ s.delivered = r.delivered
        /\ s.deliveries = r.deliveries /\ s.held = r.held
    BY <2>1, <2>2, <1>1 DEF Records
  <2>4. Safe(s, n)
    BY <2>2, <2>3, <1>1 DEF Safe, Sound, Stocked, Guarded, Once
  <2> QED
    BY <2>4 DEF s
<1> QED
  BY <1>3, <1>4, <1>5, <1>6, <1>7

LEMMA AgedSafe ==
  ASSUME NEW r, NEW n \in Nat, Safe(r, n)
  PROVE  /\ Safe(Aged(r), n)
         /\ Aged(r).win = r.win /\ Aged(r).watch = r.watch /\ Aged(r).latched = r.latched
         /\ Aged(r).held = r.held /\ Aged(r).evict = r.evict
         /\ Aged(r).delivered = r.delivered /\ Aged(r).deliveries = r.deliveries
         /\ Aged(r).foreign = r.foreign /\ Aged(r).mangled = r.mangled
         /\ Aged(r).replies = Sooner(r.replies)
         /\ Aged(r).orphans = {o \in {[p EXCEPT !.age = @ + 1] : p \in r.orphans} : o.age <= OrphanTTL}
<1> DEFINE s == Aged(r)
           A == {[p EXCEPT !.age = @ + 1] : p \in r.orphans}
           O == {o \in A : o.age <= OrphanTTL}
           R == Sooner(r.replies)
<1>1. r \in Records /\ Stocked(r) /\ Guarded(r) /\ (r.watch => r.win.active) /\ ~Complete(r.win)
  BY DEF Safe, Sound
<1>2. s = [r EXCEPT !.replies = R, !.orphans = O]
  BY DEF Aged
<1>3. R \in SUBSET Replies
  <2>1. ASSUME NEW x \in Replies
        PROVE  [x EXCEPT !.due = IF @ > 0 THEN @ - 1 ELSE 0] \in Replies
    BY DEF Replies
  <2> QED
    BY <2>1, <1>1 DEF Records, Sooner
<1>4. O \in SUBSET Orphans
  BY <1>1, Settings DEF Records, Orphans
<1>5. IsFiniteSet(O) /\ Cardinality(O) <= OrphanCap
  <2>1. IsFiniteSet(A) /\ Cardinality(A) <= Cardinality(r.orphans)
    <3> DEFINE F == [p \in r.orphans |-> [p EXCEPT !.age = @ + 1]]
    <3>1. F \in Surjection(r.orphans, A)
      BY DEF Surjection
    <3> QED
      BY <3>1, <1>1, FS_Surjection DEF Stocked
  <2>2. IsFiniteSet(O) /\ Cardinality(O) <= Cardinality(A)
    BY <2>1, FS_Subset
  <2> QED
    BY <2>1, <2>2, <1>1, FS_CardinalityType, Settings DEF Stocked
<1> HIDE DEF R, O, s
<1>6. /\ s \in Records /\ s.watch = r.watch /\ s.win = r.win /\ s.orphans = O /\ s.replies = R
      /\ s.latched = r.latched /\ s.evict = r.evict /\ s.delivered = r.delivered
      /\ s.deliveries = r.deliveries /\ s.held = r.held
      /\ s.foreign = r.foreign /\ s.mangled = r.mangled
  BY <1>2, <1>3, <1>4, <1>1 DEF Records
<1>7. Safe(s, n)
  BY <1>5, <1>6, <1>1 DEF Safe, Sound, Stocked, Guarded, Once
<1> QED
  BY <1>6, <1>7 DEF s, R, O

LEMMA KeyedSafe ==
  ASSUME NEW n \in Nat, Safe(rx, n), NEW x \in rx.replies
  PROVE  /\ Safe(Keyed(x), n) /\ x \in Replies
         /\ Keyed(x).win = rx.win /\ Keyed(x).latched = rx.latched
         /\ Keyed(x).held = rx.held /\ Keyed(x).delivered = rx.delivered
         /\ Keyed(x).deliveries = rx.deliveries /\ Keyed(x).foreign = rx.foreign
         /\ Keyed(x).mangled = rx.mangled /\ Keyed(x).orphans = rx.orphans
         /\ Keyed(x).replies = rx.replies \ {x}
<1> DEFINE s == Keyed(x)
           y == rx.watch \/ (x.shot /\ rx.win.active)
<1>1. /\ rx \in Records /\ Stocked(rx) /\ Guarded(rx) /\ (rx.watch => rx.win.active)
      /\ ~Complete(rx.win)
  BY DEF Safe, Sound
<1>2. x \in Replies
  BY <1>1 DEF Records
<1>3. s = [rx EXCEPT !.replies = @ \ {x}, !.watch = y]
  BY DEF Keyed
<1>4. y \in BOOLEAN /\ (y => rx.win.active)
  BY <1>1
<1> HIDE DEF s, y
<1>5. /\ s \in Records /\ s.watch = y /\ s.win = rx.win /\ s.orphans = rx.orphans
      /\ s.latched = rx.latched /\ s.evict = rx.evict /\ s.delivered = rx.delivered
      /\ s.deliveries = rx.deliveries /\ s.held = rx.held
      /\ s.foreign = rx.foreign /\ s.mangled = rx.mangled
      /\ s.replies = rx.replies \ {x}
  BY <1>1, <1>3, <1>4 DEF Records
<1>6. Safe(s, n)
  BY <1>1, <1>4, <1>5 DEF Safe, Sound, Stocked, Guarded, Once
<1> QED
  BY <1>2, <1>5, <1>6 DEF s

LEMMA ClosedSafe ==
  ClosedWindow \in Windows /\ ~ClosedWindow.active /\ ~Complete(ClosedWindow)
<1>1. ClosedWindow \in Windows /\ ~ClosedWindow.active
  BY Sizing DEF ClosedWindow, Windows
<1>2. ~Complete(ClosedWindow)
  <2>1. 1 \in Uids /\ 1 \in 1..Total(1)
    BY Sizing
  <2> QED
    BY <2>1, WindowOpen DEF ClosedWindow
<1> QED
  BY <1>1, <1>2

LEMMA EvictedSafe ==
  ASSUME NEW n \in Nat, Safe(rx, n), NEW u \in rx.evict
  PROVE  /\ Safe(Evicted(u), n) /\ u \in Uids
         /\ Evicted(u).win = IF rx.win.active /\ rx.win.uid = u THEN ClosedWindow ELSE rx.win
         /\ Evicted(u).latched = rx.latched \ {u}
         /\ Evicted(u).held = [rx.held EXCEPT ![u] = {}]
         /\ Evicted(u).delivered = rx.delivered /\ Evicted(u).deliveries = rx.deliveries
         /\ Evicted(u).foreign = rx.foreign /\ Evicted(u).mangled = rx.mangled
         /\ Evicted(u).orphans = rx.orphans /\ Evicted(u).replies = rx.replies
<1> DEFINE s == Evicted(u)
           mine == rx.win.active /\ rx.win.uid = u
           v == IF mine THEN ClosedWindow ELSE rx.win
           h == [rx.held EXCEPT ![u] = {}]
           y == rx.watch /\ ~mine
<1>1. /\ rx \in Records /\ Stocked(rx) /\ Guarded(rx) /\ (rx.watch => rx.win.active)
      /\ ~Complete(rx.win)
  BY DEF Safe, Sound
<1>0. u \in Uids
  BY <1>1 DEF Records
<1>2. s = [rx EXCEPT !.evict = @ \ {u}, !.held = h, !.latched = @ \ {u},
                     !.win = v, !.watch = y]
  BY <1>0, <1>1 DEF Evicted, Records
<1>3. /\ h \in [Uids -> SUBSET Nat] /\ h[u] = {}
      /\ \A z \in Uids \ {u} : h[z] = rx.held[z]
  BY <1>0, <1>1 DEF Records
<1>4. /\ v \in Windows /\ ~Complete(v)
      /\ v.active => rx.win.active /\ v = rx.win /\ rx.win.uid # u
  BY <1>1, ClosedSafe DEF Records
<1>5. y \in BOOLEAN /\ (y => v.active)
  BY <1>1
<1> HIDE DEF s, v, h, y
<1>6. /\ s \in Records /\ s.watch = y /\ s.win = v /\ s.orphans = rx.orphans
      /\ s.latched = rx.latched \ {u} /\ s.evict = rx.evict \ {u}
      /\ s.delivered = rx.delivered /\ s.replies = rx.replies
      /\ s.deliveries = rx.deliveries /\ s.held = h
      /\ s.foreign = rx.foreign /\ s.mangled = rx.mangled
  BY <1>1, <1>2, <1>3, <1>4, <1>5 DEF Records
<1>7. Guarded(s)
  BY <1>0, <1>1, <1>3, <1>4, <1>6 DEF Guarded
<1>8. Safe(s, n)
  BY <1>1, <1>4, <1>5, <1>6, <1>7 DEF Safe, Sound, Stocked, Once
<1> QED
  BY <1>0, <1>6, <1>8 DEF s, v, h

(* The record after Halt.                                                  *)
Halted ==
  [BlankRx EXCEPT !.replies = rx.replies, !.foreign = rx.foreign,
                  !.deliveries = rx.deliveries, !.mangled = rx.mangled]

LEMMA BlankSafe ==
  /\ BlankRx \in Records /\ Stocked(BlankRx)
  /\ Safe(BlankRx, 0)
<1>1. BlankRx \in Records
  BY ClosedSafe DEF BlankRx, Records
<1>2. Stocked(BlankRx)
  BY FS_EmptySet, Settings DEF BlankRx, Stocked
<1> QED
  BY <1>1, <1>2, ClosedSafe DEF Safe, Sound, Guarded, Once, BlankRx

LEMMA HaltedSafe ==
  ASSUME NEW n \in Nat, Safe(rx, n)
  PROVE  /\ Safe(Halted, n + 1)
         /\ Halted.win = ClosedWindow /\ Halted.latched = {} /\ Halted.delivered = {}
         /\ Halted.orphans = {} /\ Halted.replies = rx.replies
         /\ \A u \in Uids : Halted.held[u] = {}
         /\ Halted.deliveries = rx.deliveries
         /\ Halted.foreign = rx.foreign /\ Halted.mangled = rx.mangled
<1> DEFINE s == Halted
<1>1. rx \in Records /\ Once(rx, n) /\ \A u \in Uids : rx.deliveries[u] \in Nat
  BY DEF Safe, Sound, Records
<1>2. /\ s \in Records /\ s.win = ClosedWindow /\ s.watch = FALSE /\ s.orphans = {}
      /\ s.latched = {} /\ s.evict = {} /\ s.delivered = {} /\ s.replies = rx.replies
      /\ s.deliveries = rx.deliveries /\ \A u \in Uids : s.held[u] = {}
      /\ s.foreign = rx.foreign /\ s.mangled = rx.mangled
  BY <1>1, ClosedSafe DEF Halted, BlankRx, Records
<1> HIDE DEF s
<1>3. Stocked(s)
  BY <1>2, FS_EmptySet, Settings DEF Stocked
<1>4. Guarded(s) /\ Once(s, n + 1)
  BY <1>1, <1>2, ClosedSafe DEF Guarded, Once
<1>5. Safe(s, n + 1)
  BY <1>2, <1>3, <1>4, ClosedSafe DEF Safe, Sound
<1> QED
  BY <1>2, <1>5 DEF s

-----------------------------------------------------------------------------
LEMMA BurstType ==
  ASSUME NEW u \in Uids, NEW cc \in 1..Total(u), NEW tries \in Nat
  PROVE  /\ FramesOf(u, cc) \in Nat /\ FramesOf(u, cc) > 0
         /\ AfterText(u, cc, tries) \in Nat /\ Burst(u, cc, tries) \in Nat
         /\ FramesOf(u, cc) <= AfterText(u, cc, tries)
         /\ AfterText(u, cc, tries) <= FramesOf(u, cc) + 1
         /\ AfterText(u, cc, tries) <= Burst(u, cc, tries)
         /\ Burst(u, cc, tries) > 0
         /\ cc % TEXT_ID_INTERVAL = 1 =>
              Burst(u, cc, tries) = AfterText(u, cc, tries) + TextSlots
         /\ cc % TEXT_ID_INTERVAL # 1 => Burst(u, cc, tries) = AfterText(u, cc, tries)
         /\ tries > 0 \/ cc % MARKER_INTERVAL = 1 =>
              AfterText(u, cc, tries) = FramesOf(u, cc) + 1
<1>1. FramesOf(u, cc) \in Nat /\ FramesOf(u, cc) > 0 /\ TextSlots \in Nat
  BY Sizing, Settings
<1> QED
  BY <1>1 DEF AfterText, Burst

LEMMA PeerFacts ==
  ASSUME peer \in Peers
  PROVE  /\ peer.uid \in Nat /\ peer.uid <= Len(Sizes) /\ peer.cc \in Nat
         /\ peer.tries \in Nat /\ peer.tries <= Retries /\ peer.air \in Nat
         /\ peer.wait \in Nat /\ peer.wait <= ListenSlots /\ peer.live \in BOOLEAN
         /\ peer.uid > 0 => peer.uid \in Uids /\ peer.cc \in 1..Total(peer.uid)
         /\ peer.live => peer.uid > 0 /\ peer.air <= Burst(peer.uid, peer.cc, peer.tries)
         /\ peer.air > 0 => peer.live /\ peer.wait = ListenSlots
BY Sizing, Settings DEF Peers, PeerRecords, Uids

PeerIs(p, u, cc, tries, air, wait, live) ==
  /\ p \in PeerRecords /\ p.uid = u /\ p.cc = cc /\ p.tries = tries
  /\ p.air = air /\ p.wait = wait /\ p.live = live

(* The updates of the sender's record.                                     *)
LEMMA PeerUpdates ==
  ASSUME NEW p \in PeerRecords, NEW c \in Nat, NEW t \in 0..Retries, NEW b \in Nat,
         NEW w \in 0..ListenSlots
  PROVE  /\ PeerIs([p EXCEPT !.cc = c, !.tries = t, !.wait = w, !.air = b],
                   p.uid, c, t, b, w, p.live)
         /\ PeerIs([p EXCEPT !.tries = t, !.wait = w, !.air = b],
                   p.uid, p.cc, t, b, w, p.live)
         /\ PeerIs([p EXCEPT !.air = b], p.uid, p.cc, p.tries, b, p.wait, p.live)
         /\ PeerIs([p EXCEPT !.wait = w], p.uid, p.cc, p.tries, p.air, w, p.live)
         /\ PeerIs([p EXCEPT !.live = FALSE], p.uid, p.cc, p.tries, p.air, p.wait, FALSE)
BY DEF PeerRecords, PeerIs

LEMMA PeerValid ==
  ASSUME NEW p, NEW u \in Uids, NEW cc \in 1..Total(u), NEW tries \in 0..Retries,
         NEW air \in Nat, NEW wait, NEW live \in BOOLEAN, PeerIs(p, u, cc, tries, air, wait, live),
         air <= Burst(u, cc, tries), ~live => air = 0, air > 0 => wait = ListenSlots
  PROVE  p \in Peers
BY DEF PeerIs, Peers, Uids

LEMMA HeardSafe ==
  ASSUME NEW r, NEW n \in Nat, Safe(r, n), peer \in Peers, peer.air > 0, OnAir # "head"
  PROVE  Safe(Heard(r), n)
<1>1. /\ peer.uid \in Uids /\ peer.cc \in 1..Total(peer.uid) /\ peer.air \in Nat
      /\ FramesOf(peer.uid, peer.cc) \in Nat
  BY PeerFacts, Sizing
<1>2. CASE OnAir = "text"
  BY <1>1, <1>2, TextMarkerSafe DEF Heard
<1>3. CASE OnAir = "marker"
  BY <1>1, <1>3, MarkerFrameSafe DEF Heard
<1>4. CASE OnAir # "text" /\ OnAir # "marker"
  <2>1. peer.air <= FramesOf(peer.uid, peer.cc)
    BY <1>1, <1>4 DEF OnAir
  <2>2. FramesOf(peer.uid, peer.cc) - peer.air \in 0..(FramesOf(peer.uid, peer.cc) - 1)
    BY <1>1, <2>1
  <2>3. Frame(peer.uid, peer.cc, FramesOf(peer.uid, peer.cc) - peer.air) \in Frames
    BY <1>1, <2>2, FrameType
  <2> QED
    BY <1>4, <2>3, FrameSafe DEF Heard
<1> QED
  BY <1>2, <1>3, <1>4

LEMMA LateAgedType ==
  ASSUME late \in Lates, NoTextDue
  PROVE  LateAged \in Lates
BY DEF Lates, NoTextDue, LateAged

(* The sender's record after each of its steps.                            *)
LEMMA PeerStarts ==
  ASSUME peer \in Peers, SendChunkedBinary
  PROVE  /\ peer.uid + 1 \in Uids /\ 1 \in 1..Total(peer.uid + 1)
         /\ PeerIs(peer', peer.uid + 1, 1, 0, Burst(peer.uid + 1, 1, 0), ListenSlots, TRUE)
         /\ peer' \in Peers
<1> DEFINE u == peer.uid + 1
           b == Burst(u, 1, 0)
<1>1. peer.uid \in Nat /\ peer.uid < Len(Sizes)
  BY PeerFacts DEF SendChunkedBinary
<1>2. u \in Uids /\ u \in 0..Len(Sizes) /\ 1 \in 1..Total(u) /\ 0 \in 0..Retries
  BY <1>1, Sizing, Settings DEF Uids
<1>3. b \in Nat
  BY <1>2, BurstType
<1>4. peer' = [uid |-> u, cc |-> 1, tries |-> 0, live |-> TRUE,
               wait |-> ListenSlots, air |-> b]
  BY DEF SendChunkedBinary
<1> HIDE DEF u, b
<1>5. PeerIs(peer', u, 1, 0, b, ListenSlots, TRUE)
  BY <1>2, <1>3, <1>4, Settings DEF PeerIs, PeerRecords
<1>6. b <= Burst(u, 1, 0)
  BY <1>3 DEF b
<1>7. peer' \in Peers
  BY <1>2, <1>3, <1>5, <1>6, PeerValid
<1> QED
  BY <1>2, <1>5, <1>7 DEF u, b

LEMMA PeerSounds ==
  ASSUME peer \in Peers, AirSlot
  PROVE  /\ peer.uid \in Uids /\ peer.cc \in 1..Total(peer.uid) /\ peer.live
         /\ peer.wait = ListenSlots
         /\ PeerIs(peer', peer.uid, peer.cc, peer.tries, peer.air - 1, ListenSlots, TRUE)
         /\ peer' \in Peers
<1>1. /\ peer.uid \in Uids /\ peer.cc \in 1..Total(peer.uid) /\ peer.live
      /\ peer.wait = ListenSlots /\ peer.air - 1 \in Nat /\ peer.tries \in 0..Retries
      /\ peer.air - 1 <= Burst(peer.uid, peer.cc, peer.tries)
  <2>1. peer.air > 0
    BY DEF AirSlot
  <2>2. /\ peer.uid \in Uids /\ peer.cc \in 1..Total(peer.uid) /\ peer.live
        /\ peer.wait = ListenSlots /\ peer.air \in Nat /\ peer.tries \in 0..Retries
        /\ peer.tries \in Nat /\ peer.air <= Burst(peer.uid, peer.cc, peer.tries)
    BY <2>1, PeerFacts, Settings
  <2>3. Burst(peer.uid, peer.cc, peer.tries) \in Nat
    BY <2>2, BurstType
  <2> QED
    BY <2>1, <2>2, <2>3
<1>2. peer \in PeerRecords /\ 0 \in 0..ListenSlots /\ peer.cc \in Nat
  BY PeerFacts, Settings DEF Peers
<1>3. peer' = [peer EXCEPT !.air = peer.air - 1]
  BY DEF AirSlot
<1>4. PeerIs(peer', peer.uid, peer.cc, peer.tries, peer.air - 1, ListenSlots, TRUE)
  BY <1>1, <1>2, <1>3, PeerUpdates
<1> QED
  BY <1>1, <1>4, PeerValid

LEMMA PeerWaits ==
  ASSUME peer \in Peers, QuietSlot
  PROVE  /\ PeerIs(peer', peer.uid, peer.cc, peer.tries, 0,
                   IF peer.live THEN peer.wait - 1 ELSE peer.wait, peer.live)
         /\ peer.live => peer.wait > 0
         /\ peer' \in Peers
<1> DEFINE w == IF peer.live THEN peer.wait - 1 ELSE peer.wait
<1>1. w \in 0..ListenSlots /\ peer.air = 0 /\ (peer.live => peer.wait > 0)
  <2>1. peer.air = 0 /\ (peer.live => peer.wait > 0)
    BY DEF QuietSlot
  <2>2. peer.wait \in Nat /\ peer.wait <= ListenSlots /\ ListenSlots \in Nat
    BY PeerFacts, Settings
  <2> QED
    BY <2>1, <2>2
<1>2. /\ peer \in PeerRecords /\ peer.cc \in Nat /\ peer.tries \in 0..Retries
      /\ peer.live => peer.uid > 0 /\ peer.air <= Burst(peer.uid, peer.cc, peer.tries)
      /\ peer.uid > 0 => peer.cc \in 1..Total(peer.uid)
  BY PeerFacts, Settings DEF Peers
<1>3. peer' = [peer EXCEPT !.wait = w]
  BY DEF QuietSlot
<1> HIDE DEF w
<1>4. PeerIs(peer', peer.uid, peer.cc, peer.tries, 0, w, peer.live)
  BY <1>1, <1>2, <1>3, PeerUpdates
<1>5. peer' \in Peers
  BY <1>1, <1>2, <1>4 DEF PeerIs, Peers
<1> QED
  BY <1>1, <1>4, <1>5 DEF w

LEMMA PeerAgain ==
  ASSUME peer \in Peers, peer.live, peer.air = 0
  PROVE  /\ peer.uid \in Uids /\ peer.cc \in 1..Total(peer.uid)
         /\ IF peer.tries < Retries
            THEN PeerIs(Again, peer.uid, peer.cc, peer.tries + 1,
                        Burst(peer.uid, peer.cc, peer.tries + 1), ListenSlots, TRUE)
            ELSE PeerIs(Again, peer.uid, peer.cc, peer.tries, 0, peer.wait, FALSE)
         /\ Again \in Peers
<1>1. /\ peer.uid \in Uids /\ peer.cc \in 1..Total(peer.uid) /\ peer.cc \in Nat
      /\ peer.tries \in 0..Retries /\ peer \in PeerRecords
  BY PeerFacts, Settings DEF Peers
<1>2. CASE peer.tries < Retries
  <2> DEFINE t == peer.tries + 1
             b == Burst(peer.uid, peer.cc, t)
  <2>1. t \in 0..Retries /\ t \in Nat /\ ListenSlots \in 0..ListenSlots
    BY <1>1, <1>2, Settings
  <2>2. b \in Nat
    BY <1>1, <2>1, BurstType
  <2>3. Again = [peer EXCEPT !.tries = t, !.wait = ListenSlots, !.air = b]
    BY <1>2 DEF Again
  <2> HIDE DEF t, b
  <2>4. PeerIs(Again, peer.uid, peer.cc, t, b, ListenSlots, TRUE)
    BY <1>1, <2>1, <2>2, <2>3, PeerUpdates
  <2>5. b <= Burst(peer.uid, peer.cc, t)
    BY <2>2 DEF b
  <2>6. Again \in Peers
    BY <1>1, <2>1, <2>2, <2>4, <2>5, PeerValid
  <2> QED
    BY <1>1, <1>2, <2>4, <2>6 DEF t, b
<1>3. CASE ~(peer.tries < Retries)
  <2>1. Again = [peer EXCEPT !.live = FALSE] /\ 0 \in 0..ListenSlots /\ 0 \in Nat
    BY <1>3, Settings DEF Again
  <2>2. PeerIs(Again, peer.uid, peer.cc, peer.tries, 0, peer.wait, FALSE)
    BY <1>1, <2>1, PeerUpdates
  <2>3. Again \in Peers
    BY <1>1, <2>2 DEF PeerIs, Peers
  <2> QED
    BY <1>1, <1>3, <2>2, <2>3
<1> QED
  BY <1>2, <1>3

(* The end of a message, and the next chunk.                               *)
LEMMA PeerGoesOn ==
  ASSUME peer \in Peers, peer.live, peer.air = 0
  PROVE  /\ peer.uid \in Uids /\ peer.cc \in 1..Total(peer.uid)
         /\ PeerIs([peer EXCEPT !.live = FALSE],
                   peer.uid, peer.cc, peer.tries, 0, peer.wait, FALSE)
         /\ [peer EXCEPT !.live = FALSE] \in Peers
         /\ peer.cc # Total(peer.uid) =>
              LET p == [peer EXCEPT !.cc = @ + 1, !.tries = 0, !.wait = ListenSlots,
                                    !.air = Burst(peer.uid, peer.cc + 1, 0)]
              IN /\ PeerIs(p, peer.uid, peer.cc + 1, 0, Burst(peer.uid, peer.cc + 1, 0),
                           ListenSlots, TRUE)
                 /\ peer.cc + 1 \in 1..Total(peer.uid)
                 /\ p \in Peers
<1>1. /\ peer.uid \in Uids /\ peer.cc \in 1..Total(peer.uid) /\ peer.cc \in Nat
      /\ peer.tries \in 0..Retries /\ peer \in PeerRecords /\ Total(peer.uid) \in Nat
      /\ 0 \in 0..Retries /\ 0 \in 0..ListenSlots /\ ListenSlots \in 0..ListenSlots
  BY PeerFacts, Sizing, Settings DEF Peers
<1>2. PeerIs([peer EXCEPT !.live = FALSE], peer.uid, peer.cc, peer.tries, 0, peer.wait, FALSE)
  BY <1>1, PeerUpdates
<1>3. [peer EXCEPT !.live = FALSE] \in Peers
  BY <1>1, <1>2 DEF PeerIs, Peers
<1>4. CASE peer.cc = Total(peer.uid)
  BY <1>1, <1>2, <1>3, <1>4
<1>5. CASE peer.cc # Total(peer.uid)
  <2> DEFINE c == peer.cc + 1
             b == Burst(peer.uid, c, 0)
             p == [peer EXCEPT !.cc = c, !.tries = 0, !.wait = ListenSlots, !.air = b]
  <2>1. c \in 1..Total(peer.uid) /\ c \in Nat
    BY <1>1, <1>5
  <2>2. b \in Nat
    BY <1>1, <2>1, BurstType
  <2> HIDE DEF c, b
  <2>4. PeerIs(p, peer.uid, c, 0, b, ListenSlots, TRUE)
    BY <1>1, <2>1, <2>2, PeerUpdates
  <2>5. b <= Burst(peer.uid, c, 0)
    BY <2>2 DEF b
  <2>6. p \in Peers
    <3> HIDE DEF p
    <3> QED
      BY <1>1, <2>1, <2>2, <2>4, <2>5, PeerValid
  <2> QED
    BY <1>1, <1>2, <1>3, <2>1, <2>4, <2>6 DEF c, b
<1> QED
  BY <1>4, <1>5

LEMMA InitInv == Init => IInv
<1> SUFFICES ASSUME Init PROVE IInv
  OBVIOUS
<1>1. Safe(rx, 0)
  BY BlankSafe DEF Init
<1>2. peer \in Peers
  BY Sizing, Settings DEF Init, Peers, PeerRecords
<1>3. late \in Lates
  BY Sizing DEF Init, NotLate, Lates
<1> QED
  BY <1>1, <1>2, <1>3, Settings DEF Init, IInv

LEMMA StepInv ==
  ASSUME IInv, [Next]_vars
  PROVE  IInv'
<1>1. /\ Safe(rx, forgets) /\ peer \in Peers /\ late \in Lates
      /\ passed \subseteq Uids /\ lost \subseteq Uids /\ forgets \in 0..MaxForgets
      /\ forgets \in Nat
  BY Settings DEF IInv
<1>3. CASE SendChunkedBinary
  BY <1>1, <1>3, PeerStarts DEF SendChunkedBinary, IInv
<1>4. CASE AirSlot
  <2>1. peer' \in Peers
    BY <1>1, <1>4, PeerSounds
  <2>2. Safe(Aged(rx), forgets)
    BY <1>1, AgedSafe
  <2>3. LateAged \in Lates
    BY <1>1, <1>4, LateAgedType DEF AirSlot, NothingDue
  <2>4. Safe(rx', forgets) /\ late' \in Lates
    <3>1. CASE rx' = Aged(rx) /\ late' = LateAged
      BY <2>2, <2>3, <3>1
    <3>2. CASE OnAir # "head" /\ rx' = Heard(Aged(rx)) /\ late' = LateAged
      BY <1>1, <1>4, <2>2, <2>3, <3>2, HeardSafe DEF AirSlot
    <3>3. CASE /\ OnAir = "text" /\ late.uid = 0
               /\ rx' = Aged(rx)
               /\ \E n \in 1..Lag : late' = [uid |-> peer.uid, cc |-> peer.cc, left |-> n]
      <4>1. /\ peer.uid \in 0..Len(Sizes) /\ peer.cc \in Nat /\ peer.cc \in 1..Total(peer.uid)
            /\ Lag \in Nat
        BY <1>1, <1>4, PeerFacts, Settings DEF AirSlot, Peers
      <4> QED
        BY <2>2, <3>3, <4>1 DEF Lates
    <3> QED
      BY <1>4, <3>1, <3>2, <3>3 DEF AirSlot
  <2> QED
    BY <1>1, <1>4, <2>1, <2>4 DEF AirSlot, IInv
<1>5. CASE TextDecoded
  <2>1. late.uid \in Uids /\ late.cc \in 1..Total(late.uid)
    BY <1>1, <1>5, Sizing DEF TextDecoded, Lates, Uids
  <2>2. Safe(rx', forgets)
    BY <1>1, <1>5, <2>1, TextMarkerSafe DEF TextDecoded
  <2>3. late' \in Lates
    BY <1>5, Sizing DEF TextDecoded, NotLate, Lates
  <2> QED
    BY <1>1, <1>5, <2>2, <2>3 DEF TextDecoded, IInv
<1>6. CASE QuietSlot
  <2>1. peer' \in Peers
    BY <1>1, <1>6, PeerWaits
  <2>2. Safe(rx', forgets) /\ late' \in Lates
    BY <1>1, <1>6, AgedSafe, LateAgedType DEF QuietSlot, NothingDue
  <2> QED
    BY <1>1, <1>6, <2>1, <2>2 DEF QuietSlot, IInv
<1>7. CASE OnAckTimerExpired
  BY <1>1, <1>7, PeerAgain DEF OnAckTimerExpired, IInv
<1>8. ASSUME NEW x \in rx.replies, ReplyKeysUp(x) PROVE IInv'
  <2>1. Safe(Keyed(x), forgets)
    BY <1>1, KeyedSafe
  <2>2. CASE rx' = Keyed(x) /\ UNCHANGED <<late, peer, passed>>
    BY <1>1, <1>8, <2>1, <2>2 DEF ReplyKeysUp, IInv
  <2>3. CASE peer.live /\ peer.air = 0 /\ NoTextDue /\ rx' = Aged(Keyed(x)) /\ late' = LateAged
    <3>1. Safe(rx', forgets) /\ late' \in Lates
      BY <1>1, <2>1, <2>3, AgedSafe, LateAgedType
    <3>2. peer.uid \in Uids /\ peer.cc \in 1..Total(peer.uid) /\ Total(peer.uid) \in Nat
      BY <1>1, <2>3, PeerFacts, Sizing
    <3>3. CASE peer' = Again /\ UNCHANGED passed
      BY <1>1, <1>8, <2>3, <3>1, <3>3, PeerAgain DEF ReplyKeysUp, IInv
    <3>4. CASE peer' = [peer EXCEPT !.live = FALSE] /\ passed' = passed \cup {peer.uid}
      <4>1. peer' \in Peers
        BY <1>1, <2>3, <3>4, PeerGoesOn
      <4> QED
        BY <1>1, <1>8, <3>1, <3>2, <3>4, <4>1 DEF ReplyKeysUp, IInv
    <3>5. CASE /\ peer.cc # Total(peer.uid) /\ UNCHANGED passed
               /\ peer' = [peer EXCEPT !.cc = @ + 1, !.tries = 0, !.wait = ListenSlots,
                                       !.air = Burst(peer.uid, peer.cc + 1, 0)]
      <4>3. peer' \in Peers
        BY <1>1, <2>3, <3>5, PeerGoesOn
      <4> QED
        BY <1>1, <1>8, <3>1, <3>5, <4>3 DEF ReplyKeysUp, IInv
    <3> QED
      BY <1>8, <2>3, <3>3, <3>4, <3>5, <2>2 DEF ReplyKeysUp
  <2> QED
    BY <1>8, <2>2, <2>3 DEF ReplyKeysUp
<1>9. CASE NativeCollectTimeout
  <2>1. rx \in Records /\ Stocked(rx) /\ Guarded(rx) /\ ~Complete(rx.win) /\ Once(rx, forgets)
    BY <1>1 DEF Safe, Sound
  <2>2. /\ rx' \in Records /\ rx'.watch = FALSE /\ rx'.win = rx.win
        /\ rx'.orphans = rx.orphans /\ rx'.latched = rx.latched /\ rx'.evict = rx.evict
        /\ rx'.delivered = rx.delivered /\ rx'.deliveries = rx.deliveries
        /\ rx'.held = rx.held
    BY <1>9, <2>1 DEF NativeCollectTimeout, Records
  <2>3. Safe(rx', forgets)
    BY <2>1, <2>2 DEF Safe, Sound, Stocked, Guarded, Once
  <2> QED
    BY <1>1, <1>9, <2>3 DEF NativeCollectTimeout, IInv
<1>10. ASSUME NEW u \in Uids, OnAssemblyEvictTimerExpired(u) PROVE IInv'
  <2>1. Safe(rx', forgets)
    BY <1>1, <1>10, EvictedSafe DEF OnAssemblyEvictTimerExpired
  <2> QED
    BY <1>1, <1>10, <2>1 DEF OnAssemblyEvictTimerExpired, IInv
<1>11. CASE HaltAll
  <2>1. rx' = Halted /\ forgets' = forgets + 1 /\ forgets' \in 0..MaxForgets
    BY <1>1, <1>11, Settings DEF HaltAll, Halted
  <2>2. Safe(rx', forgets')
    BY <1>1, <2>1, HaltedSafe
  <2> QED
    BY <1>1, <1>11, <2>1, <2>2 DEF HaltAll, IInv
<1>12. CASE UNCHANGED vars
  BY <1>1, <1>12 DEF vars, IInv
<1> QED
  BY <1>3, <1>4, <1>5, <1>6, <1>7, <1>8, <1>9, <1>10, <1>11, <1>12 DEF Next

-----------------------------------------------------------------------------
LEMMA Inductive == Spec => []IInv
<1>1. Init => IInv
  BY InitInv
<1>2. IInv /\ [Next]_vars => IInv'
  BY StepInv
<1> QED
  BY <1>1, <1>2, PTL DEF Spec

(* The receiver's state is well formed: a window is never left complete,   *)
(* its collect timer runs only while it is open, what it collects belongs  *)
(* to it, and the orphans keep their cap.                                  *)
THEOREM TypeCorrect == Spec => []TypeOK
<1>1. IInv => TypeOK
  <2> SUFFICES ASSUME IInv PROVE TypeOK
    OBVIOUS
  <2>1. /\ rx \in Records /\ Stocked(rx) /\ Guarded(rx) /\ (rx.watch => rx.win.active)
        /\ ~Complete(rx.win)
    BY DEF IInv, Safe, Sound
  <2>2. rx.win \in Windows
    BY <2>1 DEF Records
  <2>3. /\ rx.win.active \in BOOLEAN /\ rx.win.pcrc \in BOOLEAN
        /\ rx.win.uid \in Uids /\ rx.win.cc \in 1..Total(rx.win.uid)
        /\ \A f \in rx.win.got : Accepts(rx.win, f)
    BY <2>2 DEF Windows
  <2>4. \A x \in rx.replies : x.due \in Nat /\ x.cc \in 1..Total(x.uid)
    BY <2>1 DEF Records, Replies
  <2>5. /\ peer.uid \in 0..Len(Sizes) /\ peer.tries \in 0..Retries
        /\ peer.wait \in 0..ListenSlots
    BY DEF IInv, Peers, PeerRecords
  <2>6. /\ rx.latched \cup rx.evict \cup rx.delivered \subseteq Uids
        /\ \A u \in Uids : rx.held[u] \subseteq 1..Total(u)
    BY <2>1 DEF Records, Guarded
  <2> QED
    BY <2>1, <2>3, <2>4, <2>5, <2>6 DEF IInv, Stocked, TypeOK
<1> QED
  BY <1>1, Inductive, PTL

(* What locks the transmit queue has an evict timer that will end it.      *)
THEOREM LocksEnd == Spec => []LocksEvicted
<1>1. IInv => LocksEvicted
  BY DEF IInv, Safe, Sound, Guarded, LocksEvicted
<1> QED
  BY <1>1, Inductive, PTL

(* A message is delivered once, and again only after a Halt: the half of   *)
(* DeliveredWhole that does not depend on the timers.                      *)
THEOREM DeliveredOnce == Spec => [](\A u \in Uids : rx.deliveries[u] <= 1 + forgets)
<1>1. IInv => \A u \in Uids : rx.deliveries[u] <= 1 + forgets
  <2> SUFFICES ASSUME IInv, NEW u \in Uids PROVE rx.deliveries[u] <= 1 + forgets
    OBVIOUS
  <2>1. rx.deliveries[u] \in Nat /\ forgets \in Nat /\ Once(rx, forgets)
    BY Settings DEF IInv, Safe, Sound, Records
  <2> QED
    BY <2>1 DEF Once
<1> QED
  BY <1>1, Inductive, PTL

-----------------------------------------------------------------------------
(* A peer in the middle of a burst, or at its end.                         *)
Sending(p) == p \in Peers /\ p.live /\ p.wait = ListenSlots

(* The first burst of the message is over.                                 *)
Spent(p) == p.cc > 1 \/ p.tries > 0 \/ p.air = 0

(* What was delivered remains delivered.                                   *)
Grown(r, s) == \A u \in Uids : r.deliveries[u] > 0 => s.deliveries[u] > 0

LEMMA SendingFacts ==
  ASSUME NEW p, Sending(p)
  PROVE  /\ p.uid \in Uids /\ p.uid \in Nat /\ p.cc \in 1..Total(p.uid) /\ p.cc \in Nat
         /\ Total(p.uid) \in Nat /\ p.tries \in Nat /\ p.air \in Nat
         /\ p.live /\ p.wait = ListenSlots
         /\ p.air <= Burst(p.uid, p.cc, p.tries)
<1>1. /\ p \in PeerRecords /\ p.live /\ p.wait = ListenSlots /\ p.uid > 0
      /\ p.cc \in 1..Total(p.uid) /\ p.air <= Burst(p.uid, p.cc, p.tries)
  BY DEF Sending, Peers, PeerRecords
<1>2. p.uid \in Uids /\ p.cc \in Nat /\ p.tries \in Nat /\ p.air \in Nat
  BY <1>1, Sizing, Settings DEF PeerRecords, Uids
<1> QED
  BY <1>1, <1>2, Sizing

LEMMA OneLeft ==
  ASSUME NEW m \in Nat, m > 1
  PROVE  1 % m = 1
<1> DEFINE q == 1 \div m
           e == 1 % m
<1>1. 1 = (m * q) + e /\ q \in Int /\ e \in 0..(m - 1)
  BY Division
<1> HIDE DEF q, e
<1>2. CASE q >= 1
  <2>1. m * q >= m /\ m * q \in Int
    BY <1>1, <1>2
  <2> QED
    BY <1>1, <2>1
<1>3. CASE q <= -1
  <2>1. m * q <= -m /\ m * q \in Int
    BY <1>1, <1>3
  <2> QED
    BY <1>1, <2>1
<1>4. CASE q = 0
  BY <1>1, <1>4 DEF e
<1> QED
  BY <1>1, <1>2, <1>3, <1>4

LEMMA SameTag ==
  ASSUME NEW a \in Nat, NEW b \in Nat, a < b, a % CHK = b % CHK
  PROVE  b - a >= CHK
<1> DEFINE q == a \div CHK
           s == b \div CHK
           x == a % CHK
           y == b % CHK
<1>1. CHK \in Nat \ {0} /\ CHK > 1
  BY Settings
<1>2. /\ a = (CHK * q) + x /\ q \in Int /\ x \in Int
      /\ b = (CHK * s) + y /\ s \in Int /\ y \in Int /\ x = y
  BY <1>1, Division
<1> HIDE DEF q, s, x, y
<1>3. CHK * q \in Int /\ CHK * s \in Int
  BY <1>1, <1>2
<1>4. CHK * (s - q) = b - a /\ s - q \in Int
  BY <1>1, <1>2, <1>3
<1>5. CASE s - q <= 0
  <2>1. CHK * (s - q) <= 0
    BY <1>1, <1>4, <1>5
  <2> QED
    BY <1>4, <2>1
<1>6. CASE s - q >= 1
  <2>1. CHK * (s - q) >= CHK
    BY <1>1, <1>4, <1>6
  <2> QED
    BY <1>4, <2>1
<1> QED
  BY <1>4, <1>5, <1>6

LEMMA FullBurst ==
  ASSUME NEW u \in Uids
  PROVE  /\ 1 \in 1..Total(u)
         /\ Burst(u, 1, 0) = FramesOf(u, 1) + 1 + TextSlots
         /\ AfterText(u, 1, 0) = FramesOf(u, 1) + 1
         /\ FramesOf(u, 1) \in Nat
<1>1. 1 \in 1..Total(u) /\ 0 \in Nat
  BY Sizing
<1>2. 1 % MARKER_INTERVAL = 1 /\ 1 % TEXT_ID_INTERVAL = 1
  BY Settings, OneLeft
<1>3. AfterText(u, 1, 0) = FramesOf(u, 1) + 1
  BY <1>1, <1>2, BurstType
<1>4. Burst(u, 1, 0) = AfterText(u, 1, 0) + TextSlots
  BY <1>1, <1>2, BurstType
<1> QED
  BY <1>1, <1>3, <1>4, BurstType, Settings

(* No orphan is left that the window behind the peer's chunk would take.   *)
LEMMA NoneAhead ==
  ASSUME Timely, NEW r \in Records, NEW p, Sending(p), OrphansAge(r, p), Spent(p),
         p.cc + 1 <= Total(p.uid), NEW o \in r.orphans, NEW pcrc
  PROVE  ~Accepts(Window(p.uid, p.cc + 1, pcrc), o.frame)
<1> DEFINE f == o.frame
<1> SUFFICES ASSUME Accepts(Window(p.uid, p.cc + 1, pcrc), f) PROVE FALSE
  OBVIOUS
<1>1. /\ p.uid \in Uids /\ p.uid \in Nat /\ p.cc \in Nat /\ p.cc >= 1 /\ p.air \in Nat
      /\ p.tries \in Nat
  BY SendingFacts
<1>2. /\ o \in Orphans /\ o.age \in Nat /\ o.age <= OrphanTTL /\ f \in Frames
      /\ CHK \in Nat /\ OrphanTTL \in Nat
  BY Settings DEF Records, Orphans
<1>3. f.uid \in Uids /\ f.uid \in Nat /\ f.cc \in Nat /\ f.tag = f.cc % CHK
  BY <1>2, Sizing DEF Frames
<1>4. f.tag = (p.cc + 1) % CHK
  BY DEF Accepts, Window
<1>5. /\ f.uid <= p.uid /\ (f.uid = p.uid => f.cc <= p.cc)
      /\ f.uid = p.uid => o.age >= p.cc - f.cc
      /\ f.uid < p.uid => o.age > Elapsed(p)
  BY DEF OrphansAge, Aired
<1> HIDE DEF f
<1>6. CASE f.uid = p.uid
  <2>1. (p.cc + 1) - f.cc >= CHK
    BY <1>1, <1>3, <1>4, <1>5, <1>6, SameTag
  <2>2. OrphanTTL < CHK - 1
    BY DEF Timely
  <2> QED
    BY <1>1, <1>2, <1>3, <1>5, <1>6, <2>1, <2>2
<1>7. CASE f.uid < p.uid
  <2>1. Burst(p.uid, 1, 0) = FramesOf(p.uid, 1) + 1 + TextSlots /\ FramesOf(p.uid, 1) \in Nat
    BY <1>1, FullBurst
  <2>2. Elapsed(p) = Burst(p.uid, 1, 0)
    BY <1>1, <2>1, Settings DEF Elapsed, Spent
  <2>3. Total(p.uid) > 1
    BY <1>1, Sizing
  <2>4. OrphanTTL < TextSlots + FramesOf(p.uid, 1) + 2
    BY <1>1, <2>3 DEF Timely
  <2> QED
    BY <1>2, <1>5, <1>7, <2>1, <2>2, <2>4, Settings
<1> QED
  BY <1>1, <1>3, <1>5, <1>6, <1>7

ChainEnd(r, p, a, e) ==
  /\ e \in a..(p.cc + 1)
  /\ e = p.cc + 1 /\ e <= Total(p.uid) => Ahead(r, p.uid, a, e).got = {}

LEMMA ChainStops ==
  ASSUME Timely, NEW r \in Records, NEW p, Sending(p), OrphansAge(r, p), Spent(p),
         NEW a \in Nat, a >= 1, a <= p.cc + 1
  PROVE  ChainEnd(r, p, a, FirstGap(r, p.uid, a))
<1> DEFINE e == FirstGap(r, p.uid, a)
<1> HIDE DEF e
<1> SUFFICES /\ e \in a..(p.cc + 1)
             /\ e = p.cc + 1 /\ e <= Total(p.uid) => Ahead(r, p.uid, a, e).got = {}
  BY DEF e, ChainEnd
<1> DEFINE u == p.uid
           c == p.cc + 1
           w == Ahead(r, u, a, c)
<1>1. u \in Uids /\ p.cc \in 1..Total(u) /\ p.cc \in Nat /\ Total(u) \in Nat /\ c \in Nat
  BY SendingFacts
<1>2. a <= Total(u) + 1
  BY <1>1
<1>3. StopsAt(r, u, a, e)
  BY <1>1, <1>2, FirstGapFacts DEF e
<1>4. e \in a..(Total(u) + 1) /\ \A d \in Gaps(r, u, a) : e <= d
  BY <1>3 DEF StopsAt
<1>5. ASSUME c <= Total(u) PROVE w.got = {} /\ c \in Gaps(r, u, a)
  <2>1. \A o \in r.orphans : ~Accepts(Window(u, c, FALSE), o.frame)
    BY <1>5, NoneAhead
  <2>2. Drained(Window(u, c, FALSE), LeftBy(u, a..(c - 1), r.orphans)) = {}
    BY <2>1 DEF Drained, LeftBy
  <2>3. c \in 1..Total(u) /\ c \in a..Total(u)
    BY <1>1, <1>5
  <2> HIDE DEF c, w
  <2>4. LooksAhead(r, u, a, c, w)
    BY <2>3, <1>1, AheadFields DEF w
  <2>5. w.got = {} /\ w.uid = u /\ w.cc = c
    BY <2>2, <2>4 DEF LooksAhead
  <2>6. ~Complete(w)
    BY <2>3, <2>5, <1>1, WindowOpen
  <2> QED
    BY <2>3, <2>5, <2>6 DEF Gaps, w
<1>6. CASE c <= Total(u)
  <2>1. e \in a..c
    BY <1>1, <1>4, <1>5, <1>6
  <2> QED
    BY <2>1, <1>5, <1>6
<1>7. CASE ~(c <= Total(u))
  BY <1>1, <1>4, <1>7
<1> QED
  BY <1>6, <1>7

(* A reply of the peer's chunk, due in the next slot.                      *)
LEMMA SoonInTime ==
  ASSUME NEW p, Sending(p), NEW x, x.uid = p.uid, x.cc \in Nat, x.cc <= p.cc,
         x.due \in Nat, x.due <= p.air + Lag + 1, x.due <= p.air + ListenSlots
  PROVE  InTime(x, p)
BY SendingFacts, Settings DEF InTime

LEMMA DueNext ==
  ASSUME NEW p, Sending(p)
  PROVE  1 \in Nat /\ 1 <= p.air + Lag + 1 /\ 1 <= p.air + ListenSlots
BY SendingFacts, Settings

(* The chain of windows keeps time.                                        *)
LEMMA AdvanceTimed ==
  ASSUME Timely, NEW r \in Records, NEW p, Sending(p), Spent(p), NEW lo,
         r.win.active, r.win.uid = p.uid, r.win.cc <= p.cc,
         OrphansAge(r, p), Attached(r), Forgotten(r, p), Intact(r, lo), RepliesNow(r, p, lo),
         p.uid \notin lo => r.win.cc = p.cc /\ r.held[p.uid] = 1..p.cc
  PROVE  /\ Timed(AutoAdvance(r, p.uid, r.win.cc + 1), p, lo)
         /\ Grown(r, AutoAdvance(r, p.uid, r.win.cc + 1))
<1> DEFINE u == p.uid
           a == r.win.cc + 1
           e == FirstGap(r, u, a)
           s == AutoAdvance(r, u, a)
<1> HIDE DEF e, s
<1> SUFFICES Timed(s, p, lo) /\ Grown(r, s)
  BY DEF s
<1>1. /\ u \in Uids /\ u \in Nat /\ p.cc \in 1..Total(u) /\ p.cc \in Nat /\ Total(u) \in Nat
      /\ p.live /\ p.wait = ListenSlots
  BY SendingFacts
<1>2. a \in Nat /\ a >= 2 /\ a <= p.cc + 1 /\ a <= Total(u) + 1 /\ r.win.cc \in Nat
  <2>1. r.win \in Windows
    BY DEF Records
  <2>2. r.win.cc \in Nat /\ r.win.cc >= 1
    BY <2>1 DEF Windows
  <2> QED
    BY <2>2, <1>1
<1> HIDE DEF a
<1>3. /\ e \in a..(p.cc + 1) /\ e \in Nat
      /\ e = p.cc + 1 /\ e <= Total(u) => Ahead(r, u, a, e).got = {}
  <2>1. a \in Nat /\ a >= 1 /\ a <= p.cc + 1
    BY <1>2
  <2>2. ChainEnd(r, p, a, e)
    BY <2>1, ChainStops DEF e
  <2> QED
    BY <1>1, <1>2, <2>2 DEF ChainEnd
<1>4. Advances(r, u, a, e, s)
  BY <1>1, <1>2, AutoAdvances DEF e, s
<1>5. /\ Banks(r, u, a, e, s)
      /\ e <= Total(u) => GoesOn(r, u, a, e, s)
      /\ e = Total(u) + 1 => Ends(r, u, a, e, s)
  BY <1>4 DEF Advances
<1>7. e <= Total(u) \/ e = Total(u) + 1
  BY <1>1, <1>3
<1>8. ASSUME e <= Total(u)
      PROVE  /\ s.win = Ahead(r, u, a, e) /\ s.win.active /\ s.win.uid = u /\ s.win.cc = e
             /\ s.win.pcrc = FALSE /\ \A f \in s.win.got : \E o \in r.orphans : o.frame = f
             /\ e = p.cc + 1 => s.win.got = {}
             /\ s.held[u] = r.held[u] \cup a..(e - 1) /\ s.deliveries[u] = r.deliveries[u]
             /\ s.delivered = r.delivered /\ s.mangled = r.mangled
  <2>1. GoesOn(r, u, a, e, s)
    BY <1>5, <1>8
  <2>2. e \in 1..Total(u)
    BY <1>1, <1>2, <1>3, <1>8
  <2>3. LooksAhead(r, u, a, e, Ahead(r, u, a, e))
    BY <1>1, <1>2, <2>2, AheadFields
  <2>4. LeftBy(u, a..(e-1), r.orphans) \in SUBSET Orphans
    BY DEF LeftBy, Records
  <2>5. \A f \in Drained(Window(u, e, FALSE), LeftBy(u, a..(e-1), r.orphans)) :
          \E o \in r.orphans : o.frame = f
    <3> DEFINE L == LeftBy(u, a..(e-1), r.orphans)
    <3>1. L \subseteq r.orphans
      BY DEF LeftBy
    <3> HIDE DEF L
    <3>2. \A f \in Drained(Window(u, e, FALSE), L) : \E o \in L : o.frame = f
      BY <2>4, DrainedFrames DEF L
    <3> QED
      BY <3>1, <3>2 DEF L
  <2> QED
    BY <1>3, <1>8, <2>1, <2>3, <2>5 DEF GoesOn, LooksAhead
<1>9. ASSUME e = Total(u) + 1
      PROVE  /\ s.win = ClosedWindow /\ ~s.win.active /\ s.held[u] = {} /\ p.cc = Total(u)
             /\ s.delivered = r.delivered \cup {u} /\ s.deliveries[u] > 0
  <2>1. Ends(r, u, a, e, s) /\ r.deliveries[u] \in Nat
    BY <1>1, <1>5, <1>9 DEF Records
  <2>2. p.cc = Total(u)
    BY <1>1, <1>3, <1>9
  <2> QED
    BY <2>1, <2>2, ClosedSafe DEF Ends
<1>10. \A v \in Uids \ {u} : s.held[v] = r.held[v] /\ s.deliveries[v] = r.deliveries[v]
  BY <1>5 DEF Banks
<1>11. Grown(r, s)
  BY <1>7, <1>8, <1>9, <1>10 DEF Grown
<1>12. OrphansAge(s, p)
  BY <1>5 DEF Banks, OrphansAge
<1>13. WindowNow(s, p)
  <2>1. \A o \in r.orphans : Aired(o.frame, p)
    BY DEF OrphansAge
  <2>2. CASE e <= Total(u)
    <3>1. \A f \in s.win.got : Aired(f, p)
      BY <2>1, <2>2, <1>8
    <3>2. s.win.uid = p.uid /\ s.win.cc = e /\ (e = p.cc + 1 => s.win.got = {})
      BY <2>2, <1>8
    <3>3. e <= p.cc + 1 /\ e # 1
      BY <1>1, <1>2, <1>3
    <3> QED
      BY <3>1, <3>2, <3>3 DEF WindowNow
  <2>3. CASE e = Total(u) + 1
    BY <2>3, <1>9 DEF WindowNow
  <2> QED
    BY <1>7, <2>2, <2>3
<1>14. Attached(s)
  <2>1. s.latched = r.latched /\ \A v \in r.latched : v \in r.delivered \/ v = u
    BY <1>5 DEF Banks, Attached
  <2>2. CASE e <= Total(u)
    BY <2>1, <2>2, <1>8 DEF Attached
  <2>3. CASE e = Total(u) + 1
    BY <2>1, <2>3, <1>9 DEF Attached
  <2> QED
    BY <1>7, <2>2, <2>3
<1>15. Forgotten(s, p)
  <2>1. /\ \A v \in Uids : v > u => r.held[v] = {} /\ r.deliveries[v] = 0
        /\ \A v \in Uids : v < u => r.held[v] = {}
        /\ \A v \in r.delivered : r.deliveries[v] > 0 /\ v \in Uids
        /\ r.deliveries[u] > 0 => p.cc = Total(u)
    BY <1>1, Sizing DEF Forgotten, Records
  <2>2. ASSUME NEW v \in Uids
        PROVE  /\ v > u => s.held[v] = {} /\ s.deliveries[v] = 0
               /\ v < u => s.held[v] = {}
    <3>1. v \in Nat
      BY Sizing
    <3>2. v # u => s.held[v] = r.held[v] /\ s.deliveries[v] = r.deliveries[v]
      BY <1>10
    <3> QED
      BY <2>1, <3>1, <3>2, <1>1
  <2>3. s.deliveries[u] > 0 => p.cc = Total(u)
    BY <2>1, <1>7, <1>8, <1>9
  <2>4. \A v \in s.delivered : s.deliveries[v] > 0
    <3>1. CASE e <= Total(u)
      BY <3>1, <2>1, <1>8, <1>10
    <3>2. CASE e = Total(u) + 1
      BY <3>2, <2>1, <1>9, <1>10
    <3> QED
      BY <1>7, <3>1, <3>2
  <2> QED
    BY <2>2, <2>3, <2>4 DEF Forgotten
<1>16. ASSUME u \notin lo
       PROVE  e = a /\ e = p.cc + 1 /\ a..(e - 1) = {} /\ 1..p.cc = 1..(e - 1)
  BY <1>1, <1>2, <1>3, <1>16 DEF a
<1>17. InStep(s, p, lo)
  <2> SUFFICES ASSUME u \notin lo
               PROVE  IF s.win.active
                      THEN /\ s.held[p.uid] = 1..(s.win.cc - 1) /\ s.win.cc >= p.cc
                           /\ ~s.win.pcrc => Own(s.win)
                      ELSE s.held[p.uid] = {} /\ (p.cc = 1 \/ s.deliveries[p.uid] > 0)
    BY DEF InStep
  <2>1. CASE e <= Total(u)
    <3>1. s.held[u] = r.held[u] \cup a..(e - 1) /\ r.held[u] = 1..(e - 1) /\ e >= p.cc
      BY <1>1, <1>8, <1>16, <2>1
    <3>2. s.held[u] = 1..(e - 1) /\ s.win.got = {} /\ s.win.cc = e
      BY <3>1, <1>8, <1>16, <2>1
    <3> QED
      BY <3>1, <3>2, <1>8, <2>1 DEF Own
  <2>2. CASE e = Total(u) + 1
    BY <1>9, <2>2
  <2> QED
    BY <1>7, <2>1, <2>2
<1>18. \A w \in Chain(r, u, a, e) : w.uid = u /\ w.cc \in a..(e - 1)
  <2>1. ASSUME NEW c \in a..(e - 1) PROVE Ahead(r, u, a, c).uid = u /\ Ahead(r, u, a, c).cc = c
    <3>1. c \in 1..Total(u)
      BY <1>1, <1>2, <1>3
    <3>2. LooksAhead(r, u, a, c, Ahead(r, u, a, c))
      BY <1>1, <1>2, <3>1, AheadFields
    <3> QED
      BY <3>2 DEF LooksAhead
  <2> QED
    BY <2>1 DEF Chain
<1>19. \A q \in s.foreign : q[1] \in lo
  <2>1. s.foreign = r.foreign \cup {<<w.uid, w.cc>> : w \in {v \in Chain(r, u, a, e) : ~Own(v)}}
    BY <1>5 DEF Banks
  <2>2. CASE u \in lo
    BY <2>1, <2>2, <1>18 DEF Intact
  <2>3. CASE u \notin lo
    <3>1. Chain(r, u, a, e) = {}
      BY <1>16, <2>3 DEF Chain
    <3> QED
      BY <2>1, <3>1 DEF Intact
  <2> QED
    BY <2>2, <2>3
<1>20. s.mangled \subseteq lo
  <2>1. CASE e <= Total(u)
    BY <1>8, <2>1 DEF Intact
  <2>2. CASE e = Total(u) + 1
    <3>1. Ends(r, u, a, e, s)
      BY <1>5, <2>2
    <3>2. s.mangled \subseteq r.mangled \cup {u} /\ r.mangled \subseteq lo
      BY <3>1 DEF Ends, Intact
    <3>3. ASSUME u \in s.mangled, u \notin lo PROVE FALSE
      <4>1. r.held[u] \cup a..(e - 1) = 1..Total(u)
        BY <1>1, <1>9, <1>16, <2>2, <3>3
      <4>2. PICK cc \in 1..Total(u) : <<u, cc>> \in s.foreign
        BY <3>1, <3>2, <3>3, <4>1 DEF Ends
      <4> QED
        BY <4>2, <1>19, <3>3
    <3> QED
      BY <3>2, <3>3
  <2> QED
    BY <1>7, <2>1, <2>2
<1>21. RepliesNow(s, p, lo)
  <2> SUFFICES ASSUME NEW x \in s.replies PROVE InTime(x, p) /\ Answers(x, s, lo)
    BY DEF RepliesNow
  <2>1. CASE x \in r.replies
    <3>1. InTime(x, p) /\ Answers(x, r, lo) /\ x.uid \in Uids
      BY <2>1 DEF RepliesNow, Records, Replies
    <3>2. Answers(x, s, lo)
      BY <3>1, <1>7, <1>8, <1>9, <1>10 DEF Answers
    <3> QED
      BY <3>1, <3>2
  <2>2. CASE x \notin r.replies
    <3>1. PICK w \in Chain(r, u, a, e) : x \in Reply("ACK", w.uid, w.cc, 1, FALSE)
      <4> DEFINE R == UNION {Reply("ACK", w.uid, w.cc, 1, FALSE) : w \in Chain(r, u, a, e)}
      <4>1. s.replies = r.replies \cup R
        BY <1>5 DEF Banks
      <4>2. x \in R
        <5> HIDE DEF R
        <5> QED
          BY <4>1, <2>2
      <4> QED
        BY <4>2
    <3>2. x.uid = u /\ x.cc \in a..(e - 1) /\ x.due = 1
      BY <3>1, <1>18 DEF Reply
    <3>3. x.cc \in Nat /\ x.cc <= p.cc
      BY <3>2, <1>1, <1>2, <1>3
    <3>4. InTime(x, p)
      BY <3>2, <3>3, SoonInTime, DueNext
    <3>5. Answers(x, s, lo)
      BY <3>2, <1>7, <1>8, <1>9 DEF Answers
    <3> QED
      BY <3>4, <3>5
  <2> QED
    BY <2>1, <2>2
<1> QED
  BY <1>11, <1>12, <1>13, <1>14, <1>15, <1>17, <1>19, <1>20, <1>21 DEF Timed, Intact

(* Timed does not look at the timers of the window and of the assembly.    *)
Alike(r, s) ==
  /\ s.win = r.win /\ s.latched = r.latched /\ s.held = r.held
  /\ s.delivered = r.delivered /\ s.deliveries = r.deliveries
  /\ s.foreign = r.foreign /\ s.mangled = r.mangled

LEMMA AlikeTimed ==
  ASSUME NEW r, NEW s, Alike(r, s), NEW p, NEW lo, Timed(r, p, lo)
  PROVE  /\ WindowNow(s, p) /\ Attached(s) /\ Forgotten(s, p)
         /\ InStep(s, p, lo) /\ Intact(s, lo) /\ Grown(r, s)
         /\ s.orphans = r.orphans => OrphansAge(s, p)
         /\ \A x \in s.replies : x \in r.replies => InTime(x, p) /\ Answers(x, s, lo)
         /\ s.replies = r.replies => RepliesNow(s, p, lo)
BY DEF Alike, Timed, WindowNow, Attached, Forgotten, InStep, Intact, Grown, OrphansAge,
       RepliesNow, Answers

LEMMA FinishTimed ==
  ASSUME Timely, NEW r \in Records, NEW p, Sending(p), NEW lo,
         r.win.active, Complete(r.win), Timed(r, p, lo)
  PROVE  Timed(FinishNativeChunk(r), p, lo) /\ Grown(r, FinishNativeChunk(r))
<1> DEFINE w == r.win
           u == p.uid
<1>1. /\ u \in Uids /\ u \in Nat /\ p.cc \in 1..Total(u) /\ p.cc \in Nat /\ Total(u) \in Nat
      /\ p.live /\ p.wait = ListenSlots /\ p.tries \in Nat /\ p.air \in Nat
  BY SendingFacts
<1>2. w \in Windows /\ w.cc \in Nat /\ w.cc >= 1 /\ w.cc \in 1..Total(w.uid) /\ w.got \subseteq Frames
  <2>1. w \in Windows
    BY DEF Records
  <2> QED
    BY <2>1 DEF Windows
<1>3. /\ w.uid = u /\ w.cc <= p.cc + 1 /\ (w.cc = p.cc + 1 => w.got = {})
      /\ w.cc = 1 => w.pcrc
      /\ \A f \in w.got : Aired(f, p)
  BY DEF Timed, WindowNow
<1>4. w.cc <= p.cc
  <2>1. ASSUME w.cc = p.cc + 1 PROVE FALSE
    BY <2>1, <1>1, <1>2, <1>3, WindowOpen
  <2> QED
    BY <2>1, <1>1, <1>2, <1>3
<1>5. u \notin lo => /\ r.held[u] = 1..(w.cc - 1) /\ w.cc = p.cc
                     /\ ~w.pcrc => Own(w)
  <2>1. u > 0 /\ InStep(r, p, lo)
    BY <1>1, Sizing DEF Timed
  <2>2. u \notin lo => r.held[u] = 1..(w.cc - 1) /\ w.cc >= p.cc /\ (~w.pcrc => Own(w))
    BY <2>1 DEF InStep
  <2> HIDE DEF w, u
  <2> QED
    BY <2>2, <1>1, <1>2, <1>4
<1>6. CASE CrcOk(w)
  <2> DEFINE b == Stored(r, {w})
  <2>1. FinishNativeChunk(r) = AutoAdvance(b, w.uid, w.cc + 1)
    BY <1>6 DEF FinishNativeChunk
  <2>2. Banked(r, w, b)
    BY <1>2, StoredOne
  <2> HIDE DEF b
  <2>3. /\ b \in Records /\ b.win = w /\ b.orphans = r.orphans
        /\ b.latched = r.latched /\ b.delivered = r.delivered
        /\ b.deliveries = r.deliveries /\ b.mangled = r.mangled
        /\ b.held[u] = r.held[u] \cup {w.cc}
        /\ \A v \in Uids \ {u} : b.held[v] = r.held[v]
        /\ b.foreign \subseteq r.foreign \cup {<<u, w.cc>>}
        /\ Own(w) => b.foreign = r.foreign
        /\ b.replies = r.replies \cup Reply("ACK", u, w.cc, 1, FALSE)
    BY <2>2, <1>3 DEF Banked
  <2>4. Spent(p)
    <3>1. ASSUME p.cc = 1, p.tries = 0 PROVE p.air = 0
      <4>1. w.cc = 1 /\ w.pcrc /\ Own(w)
        BY <1>2, <1>3, <1>4, <1>6, <3>1 DEF CrcOk
      <4> DEFINE F == FramesOf(u, 1)
      <4>2. F \in Nat /\ F > 0 /\ F - 1 \in 0..(F - 1)
        BY <1>1, Sizing
      <4>3. PICK g \in w.got : g.seq = F - 1
        BY <4>1, <4>2, <1>3 DEF Complete
      <4>4. g.uid = u /\ g.cc = 1 /\ Aired(g, p)
        BY <4>1, <1>3 DEF Own
      <4>5. g.seq + p.air < F
        BY <4>4, <3>1 DEF Aired
      <4> HIDE DEF F
      <4> QED
        BY <4>2, <4>3, <4>5, <1>1
    <3> QED
      BY <3>1, <1>1 DEF Spent
  <2>5. OrphansAge(b, p) /\ Attached(b) /\ Grown(r, b)
    BY <2>3 DEF Timed, OrphansAge, Attached, Grown
  <2>6. Forgotten(b, p)
    <3>1. \A v \in Uids : v # u => b.held[v] = r.held[v]
      BY <2>3
    <3>2. \A v \in Uids : (v > u => v # u) /\ (v < u => v # u)
      BY <1>1, Sizing
    <3> QED
      BY <2>3, <3>1, <3>2, <1>1 DEF Timed, Forgotten
  <2>7. Intact(b, lo)
    <3>1. CASE u \in lo
      BY <3>1, <2>3 DEF Timed, Intact
    <3>2. CASE u \notin lo
      <4>1. Own(w)
        BY <3>2, <1>5, <1>6 DEF CrcOk
      <4> QED
        BY <4>1, <2>3 DEF Timed, Intact
    <3> QED
      BY <3>1, <3>2
  <2>8. RepliesNow(b, p, lo)
    <3> SUFFICES ASSUME NEW x \in b.replies PROVE InTime(x, p) /\ Answers(x, b, lo)
      BY DEF RepliesNow
    <3>1. CASE x \in r.replies
      <4>1. InTime(x, p) /\ Answers(x, r, lo) /\ x.uid \in Uids
        BY <3>1 DEF Timed, RepliesNow, Records, Replies
      <4>2. x.cc \in r.held[x.uid] => x.cc \in b.held[x.uid]
        BY <2>3, <4>1
      <4> QED
        BY <2>3, <4>1, <4>2 DEF Answers
    <3>2. CASE x \in Reply("ACK", u, w.cc, 1, FALSE)
      <4>1. x.uid = u /\ x.cc = w.cc /\ x.due = 1
        BY <3>2 DEF Reply
      <4>2. InTime(x, p)
        BY <4>1, <1>2, <1>4, SoonInTime, DueNext
      <4> QED
        BY <4>1, <4>2, <2>3 DEF Answers
    <3> QED
      BY <2>3, <3>1, <3>2
  <2>9. u \notin lo => b.win.cc = p.cc /\ b.held[u] = 1..p.cc
    BY <1>1, <1>2, <1>5, <2>3
  <2>10. b.win.active /\ b.win.uid = u /\ b.win.cc <= p.cc /\ b.win.cc = w.cc
    BY <2>3, <1>3, <1>4
  <2>11. /\ Timed(AutoAdvance(b, u, b.win.cc + 1), p, lo)
         /\ Grown(b, AutoAdvance(b, u, b.win.cc + 1))
    BY <2>3, <2>4, <2>5, <2>6, <2>7, <2>8, <2>9, <2>10, AdvanceTimed
  <2> HIDE DEF w, u
  <2> QED
    BY <2>1, <2>5, <2>10, <2>11, <1>3 DEF Grown
<1>7. CASE ~CrcOk(w)
  <2> DEFINE v == [w EXCEPT !.got = {}]
             b == FinishNativeChunk(r)
             R == r.replies \cup Reply("NACK", w.uid, w.cc, 1, FALSE)
  <2>1. b = [r EXCEPT !.replies = R, !.win = v, !.watch = TRUE]
    BY <1>7 DEF FinishNativeChunk, Records
  <2>2. /\ v.active /\ v.uid = u /\ v.cc = w.cc /\ v.pcrc = w.pcrc /\ v.got = {}
    BY <1>2, <1>3 DEF Windows
  <2> HIDE DEF v, b, R
  <2>3. /\ b.replies = R /\ b.win = v /\ b.orphans = r.orphans /\ b.latched = r.latched
        /\ b.held = r.held /\ b.delivered = r.delivered /\ b.deliveries = r.deliveries
        /\ b.foreign = r.foreign /\ b.mangled = r.mangled
    BY <2>1 DEF Records
  <2> HIDE DEF w, u
  <2>4. OrphansAge(b, p) /\ Forgotten(b, p) /\ Intact(b, lo) /\ Grown(r, b)
    BY <2>3 DEF Timed, OrphansAge, Forgotten, Intact, Grown
  <2>5. WindowNow(b, p) /\ Attached(b)
    BY <2>2, <2>3, <1>3 DEF Timed, WindowNow, Attached, w, u
  <2>6. InStep(b, p, lo)
    BY <2>2, <2>3, <1>1, <1>5 DEF InStep, Own, u
  <2>7. RepliesNow(b, p, lo)
    <3> SUFFICES ASSUME NEW x \in b.replies PROVE InTime(x, p) /\ Answers(x, b, lo)
      BY DEF RepliesNow
    <3>1. CASE x \in r.replies
      BY <3>1, <2>3 DEF Timed, RepliesNow, Answers
    <3>2. CASE x \in Reply("NACK", u, w.cc, 1, FALSE)
      <4>1. x.uid = p.uid /\ x.cc = w.cc /\ x.due = 1 /\ x.kind = "NACK"
        BY <3>2 DEF Reply, u
      <4>2. InTime(x, p)
        BY <4>1, <1>2, <1>4, SoonInTime, DueNext
      <4> QED
        BY <4>1, <4>2 DEF Answers
    <3> QED
      BY <2>3, <3>1, <3>2, <1>3 DEF R
  <2> QED
    BY <2>4, <2>5, <2>6, <2>7 DEF Timed, b
<1> QED
  BY <1>6, <1>7

(* A marker opens the window of the peer's chunk.                          *)
LEMMA OpenTimed ==
  ASSUME Timely, NEW r \in Records, NEW p, Sending(p), NEW lo,
         OrphansAge(r, p), Forgotten(r, p), Intact(r, lo), RepliesNow(r, p, lo),
         \A v \in r.latched : v \in r.delivered \/ v = p.uid,
         p.uid \notin lo => r.held[p.uid] = 1..(p.cc - 1)
  PROVE  /\ Timed(OpenNativeChunkWindow(r, p.uid, p.cc), p, lo)
         /\ Grown(r, OpenNativeChunkWindow(r, p.uid, p.cc))
<1> DEFINE u == p.uid
           s == Opened(r, u, p.cc, TRUE)
<1>1. u \in Uids /\ p.cc \in 1..Total(u) /\ p.cc \in Nat
  BY SendingFacts
<1>2. Opens(r, u, p.cc, TRUE, s)
  BY <1>1, OpenedFields
<1>3. OpenNativeChunkWindow(r, u, p.cc) = IF Complete(s.win) THEN FinishNativeChunk(s) ELSE s
  BY DEF OpenNativeChunkWindow
<1> HIDE DEF s
<1>4. /\ s \in Records /\ s.win.active /\ s.win.uid = u /\ s.win.cc = p.cc /\ s.win.pcrc = TRUE
      /\ s.win.got = Drained(Window(u, p.cc, TRUE), r.orphans)
      /\ s.orphans \subseteq r.orphans
      /\ s.latched = r.latched /\ s.held = r.held
      /\ s.delivered = r.delivered /\ s.replies = r.replies /\ s.foreign = r.foreign
      /\ s.deliveries = r.deliveries /\ s.mangled = r.mangled
  BY <1>2 DEF Opens
<1>5. \A f \in s.win.got : Aired(f, p)
  <2>1. \A o \in r.orphans : Aired(o.frame, p)
    BY DEF OrphansAge
  <2>2. r.orphans \in SUBSET Orphans
    BY DEF Records
  <2>3. \A f \in Drained(Window(u, p.cc, TRUE), r.orphans) : \E o \in r.orphans : o.frame = f
    BY <2>2, DrainedFrames
  <2>4. \A f \in s.win.got : \E o \in r.orphans : o.frame = f
    BY <1>4, <2>3, Zenon
  <2> QED
    BY <2>1, <2>4, Zenon
<1>6. Timed(s, p, lo) /\ Grown(r, s)
  <2>1. WindowNow(s, p)
    <3>1. p.cc <= p.cc + 1 /\ p.cc # p.cc + 1
      BY <1>1
    <3>2. s.win.uid = p.uid /\ s.win.cc = p.cc /\ s.win.pcrc
      BY <1>4
    <3> QED
      BY <3>1, <3>2, <1>5, Zenon DEF WindowNow
  <2>2. OrphansAge(s, p) /\ Attached(s) /\ Forgotten(s, p) /\ Intact(s, lo) /\ Grown(r, s)
    BY <1>4 DEF OrphansAge, Attached, Forgotten, Intact, Grown
  <2>3. InStep(s, p, lo)
    BY <1>1, <1>4 DEF InStep
  <2>4. RepliesNow(s, p, lo)
    BY <1>4 DEF RepliesNow, Answers
  <2> QED
    BY <2>1, <2>2, <2>3, <2>4 DEF Timed
<1>7. CASE Complete(s.win)
  BY <1>3, <1>4, <1>6, <1>7, FinishTimed DEF Grown
<1>8. CASE ~Complete(s.win)
  BY <1>3, <1>6, <1>8
<1> QED
  BY <1>7, <1>8

LEMMA MarkerTimed ==
  ASSUME Timely, NEW r \in Records, Guarded(r), NEW p, Sending(p), NEW lo, Timed(r, p, lo),
         NEW first \in BOOLEAN,
         p.cc = 1 \/ p.uid \in r.latched \cup r.delivered \/ (r.win.active /\ r.win.uid = p.uid),
         FramesOf(p.uid, p.cc) <= p.air + Lag
  PROVE  /\ Timed(HandleNativeMarker(r, p.uid, p.cc, first), p, lo)
         /\ Grown(r, HandleNativeMarker(r, p.uid, p.cc, first))
<1> DEFINE u == p.uid
           cc == p.cc
           s == HandleNativeMarker(r, u, cc, first)
<1>1. /\ u \in Uids /\ u > 0 /\ cc \in 1..Total(u) /\ cc \in Nat /\ p.air \in Nat /\ p.live
      /\ FramesOf(u, cc) \in Nat
  BY SendingFacts, Sizing
<1>2. CASE u \in r.delivered
  <2> DEFINE R == r.replies \cup Reply("ACK", u, cc, ReAckDelay(r, u, cc), TRUE)
  <2>1. s = [r EXCEPT !.replies = R]
    BY <1>2 DEF HandleNativeMarker
  <2>2. u \in r.latched
    BY <1>2 DEF Guarded
  <2>3. ReAckDelay(r, u, cc) = FramesOf(u, cc) + 1
    BY <2>2 DEF ReAckDelay
  <2> HIDE DEF s, R
  <2>4. Alike(r, s) /\ s.orphans = r.orphans /\ s.replies = R
    BY <2>1 DEF Alike, Records
  <2>5. /\ WindowNow(s, p) /\ Attached(s) /\ Forgotten(s, p)
        /\ InStep(s, p, lo) /\ Intact(s, lo) /\ Grown(r, s) /\ OrphansAge(s, p)
        /\ \A x \in s.replies : x \in r.replies => InTime(x, p) /\ Answers(x, s, lo)
    BY <2>4, AlikeTimed
  <2>6. ASSUME NEW x \in Reply("ACK", u, cc, ReAckDelay(r, u, cc), TRUE)
        PROVE  InTime(x, p) /\ Answers(x, s, lo)
    <3>1. x.uid = p.uid /\ x.cc = p.cc /\ x.due = FramesOf(u, cc) + 1
      BY <2>3, <2>6 DEF Reply
    <3>2. /\ x.due \in Nat /\ x.due <= p.air + Lag + 1 /\ x.due <= p.air + ListenSlots
          /\ x.cc \in Nat /\ x.cc <= p.cc
      <4>1. Lag < ListenSlots
        BY DEF Timely
      <4> HIDE DEF u, cc
      <4> QED
        BY <3>1, <4>1, <1>1, Settings DEF u, cc
    <3>3. InTime(x, p)
      BY <3>1, <3>2, SoonInTime
    <3>4. s.deliveries[x.uid] > 0
      BY <3>1, <2>4, <1>2 DEF Timed, Forgotten, Alike
    <3> QED
      BY <3>3, <3>4 DEF Answers
  <2>7. RepliesNow(s, p, lo)
    BY <2>4, <2>5, <2>6 DEF RepliesNow, R
  <2> QED
    BY <2>5, <2>7 DEF Timed, s
<1>3. CASE u \notin r.delivered /\ cc \in r.held[u]
  <2> DEFINE x == r.watch \/ (r.win.active /\ r.win.uid = u)
  <2>1. s = [r EXCEPT !.watch = x]
    BY <1>3 DEF HandleNativeMarker
  <2> HIDE DEF s, x
  <2>2. Alike(r, s) /\ s.orphans = r.orphans /\ s.replies = r.replies
    BY <2>1 DEF Alike, Records
  <2>3. Timed(s, p, lo) /\ Grown(r, s)
    BY <2>2, AlikeTimed DEF Timed
  <2> QED
    BY <2>3 DEF s
<1>4. CASE u \notin r.delivered /\ cc \notin r.held[u] /\ ~first /\ u \notin r.latched
  BY <1>4 DEF HandleNativeMarker, Grown
<1>5. CASE u \notin r.delivered /\ cc \notin r.held[u] /\ ~(~first /\ u \notin r.latched)
  <2> DEFINE q == [r EXCEPT !.latched = @ \cup {u}, !.evict = @ \cup {u}]
  <2>1. s = OpenNativeChunkWindow(q, u, cc)
    BY <1>5 DEF HandleNativeMarker
  <2>2. /\ q \in Records /\ q.win = r.win /\ q.orphans = r.orphans /\ q.replies = r.replies
        /\ q.latched = r.latched \cup {u} /\ q.held = r.held
        /\ q.delivered = r.delivered /\ q.deliveries = r.deliveries
        /\ q.foreign = r.foreign /\ q.mangled = r.mangled
    BY <1>1 DEF Records
  <2> HIDE DEF q
  <2>3. /\ OrphansAge(q, p) /\ Forgotten(q, p) /\ Intact(q, lo) /\ RepliesNow(q, p, lo)
        /\ Grown(r, q)
    BY <2>2 DEF Timed, OrphansAge, Forgotten, Intact, RepliesNow, Answers, Grown
  <2>4. \A v \in r.latched : v \in r.delivered \/ (v = u /\ r.win.active)
    BY DEF Timed, Attached, WindowNow
  <2>5. u \notin lo => r.held[u] = 1..(cc - 1)
    <3>1. SUFFICES ASSUME u \notin lo PROVE r.held[u] = 1..(cc - 1)
      OBVIOUS
    <3>2. InStep(r, p, lo)
      BY DEF Timed
    <3>3. CASE r.win.active
      <4>1. r.win \in Windows /\ r.win.uid = u /\ r.win.cc <= cc + 1
        BY <3>3 DEF Records, Timed, WindowNow
      <4>2. r.win.cc \in Nat
        BY <4>1 DEF Windows
      <4>3. r.held[u] = 1..(r.win.cc - 1) /\ r.win.cc >= cc
        BY <1>1, <3>1, <3>2, <3>3 DEF InStep
      <4>4. r.win.cc = cc
        BY <4>1, <4>2, <4>3, <1>1, <1>5
      <4> QED
        BY <4>3, <4>4
    <3>4. CASE ~r.win.active
      <4>1. cc = 1
        BY <2>4, <3>4, <1>5
      <4>2. r.held[u] = {}
        BY <1>1, <3>1, <3>2, <3>4 DEF InStep
      <4> QED
        BY <4>1, <4>2
    <3> QED
      BY <3>3, <3>4
  <2>6. /\ Timed(OpenNativeChunkWindow(q, p.uid, p.cc), p, lo)
        /\ Grown(q, OpenNativeChunkWindow(q, p.uid, p.cc))
    <3>1. \A v \in q.latched : v \in q.delivered \/ v = p.uid
      BY <2>2, <2>4
    <3>2. p.uid \notin lo => q.held[p.uid] = 1..(p.cc - 1)
      BY <2>2, <2>5
    <3> QED
      BY <2>2, <2>3, <3>1, <3>2, OpenTimed
  <2> QED
    BY <2>1, <2>3, <2>6 DEF Grown
<1> QED
  BY <1>2, <1>3, <1>4, <1>5

(* A frame of the peer's chunk.                                            *)
LEMMA FrameTimed ==
  ASSUME Timely, NEW r \in Records, NEW p, Sending(p), NEW lo, Timed(r, p, lo),
         NEW i \in 0..(FramesOf(p.uid, p.cc) - 1), Aired(Frame(p.uid, p.cc, i), p)
  PROVE  /\ Timed(OnNativeFrameReceived(r, Frame(p.uid, p.cc, i)), p, lo)
         /\ Grown(r, OnNativeFrameReceived(r, Frame(p.uid, p.cc, i)))
<1> DEFINE f == Frame(p.uid, p.cc, i)
           s == OnNativeFrameReceived(r, f)
           w == r.win
<1>1. /\ p.uid \in Uids /\ p.uid > 0 /\ p.uid \in Nat /\ p.cc \in 1..Total(p.uid) /\ p.cc \in Nat
      /\ p.live /\ p.wait = ListenSlots
  BY SendingFacts, Sizing
<1>2. f \in Frames /\ f.uid = p.uid /\ f.cc = p.cc /\ f.tag = p.cc % CHK
  <2>1. f \in Frames
    BY <1>1, FrameType
  <2> QED
    BY <2>1 DEF Frame
<1>3. w \in Windows /\ w.cc \in Nat /\ w.cc >= 1 /\ w.uid \in Uids
  <2>1. w \in Windows
    BY DEF Records
  <2> QED
    BY <2>1 DEF Windows
<1>4. w.active => /\ w.uid = p.uid /\ w.cc <= p.cc + 1
                  /\ w.cc = p.cc + 1 => w.got = {}
                  /\ w.cc = 1 => w.pcrc
                  /\ \A g \in w.got : Aired(g, p)
  BY DEF Timed, WindowNow
<1> HIDE DEF f, w
<1>5. CASE w.active /\ Retried(r, f) /\ f.seq = FramesOf(w.uid, w.cc - 1) - 1
  <2> DEFINE R == r.replies \cup Reply("ACK", w.uid, w.cc - 1, 1, FALSE)
  <2>1. s = [r EXCEPT !.watch = TRUE, !.replies = R]
    BY <1>5 DEF OnNativeFrameReceived, w
  <2> HIDE DEF s, R
  <2>2. Alike(r, s) /\ s.orphans = r.orphans /\ s.replies = R
    BY <2>1 DEF Alike, Records
  <2>3. /\ WindowNow(s, p) /\ Attached(s) /\ Forgotten(s, p)
        /\ InStep(s, p, lo) /\ Intact(s, lo) /\ Grown(r, s) /\ OrphansAge(s, p)
        /\ \A x \in s.replies : x \in r.replies => InTime(x, p) /\ Answers(x, s, lo)
    BY <2>2, AlikeTimed
  <2>4. w.cc - 1 >= 1 /\ w.cc - 1 \in r.held[w.uid]
    BY <1>5 DEF Retried, w
  <2>5. ASSUME NEW x \in Reply("ACK", w.uid, w.cc - 1, 1, FALSE)
        PROVE  InTime(x, p) /\ Answers(x, s, lo)
    <3>1. x.uid = p.uid /\ x.cc = w.cc - 1 /\ x.due = 1 /\ x.cc \in r.held[x.uid]
      BY <2>4, <2>5, <1>4, <1>5 DEF Reply
    <3>2. x.cc \in Nat /\ x.cc <= p.cc
      BY <3>1, <2>4, <1>1, <1>3, <1>4, <1>5
    <3>3. InTime(x, p)
      BY <3>1, <3>2, SoonInTime, DueNext
    <3> QED
      BY <3>1, <3>3, <2>2 DEF Answers, Alike
  <2>6. RepliesNow(s, p, lo)
    BY <2>2, <2>3, <2>5 DEF RepliesNow, R
  <2> QED
    BY <2>3, <2>6 DEF Timed, s, f
<1>6. CASE w.active /\ Retried(r, f) /\ f.seq # FramesOf(w.uid, w.cc - 1) - 1
  BY <1>6 DEF OnNativeFrameReceived, w, f, Grown
<1>7. CASE w.active /\ ~Retried(r, f) /\ f.tag = w.cc % CHK /\ ~Accepts(w, f)
  BY <1>7 DEF OnNativeFrameReceived, w, f, Grown
<1>8. CASE w.active /\ ~Retried(r, f) /\ f.tag = w.cc % CHK /\ Accepts(w, f)
  <2> DEFINE v == Collect(w, f)
             c == [r EXCEPT !.win = v, !.watch = TRUE]
  <2>1. s = IF Complete(c.win) THEN FinishNativeChunk(c) ELSE c
    BY <1>8 DEF OnNativeFrameReceived, w
  <2>2. /\ v \in Windows /\ v.active /\ v.uid = w.uid /\ v.cc = w.cc /\ v.pcrc = w.pcrc
        /\ v.got \subseteq w.got \cup {f}
    <3>1. {g \in w.got : g.seq # f.seq} \cup {f} \in SUBSET Frames
      BY <1>2, <1>3 DEF Windows
    <3>2. \A g \in {g \in w.got : g.seq # f.seq} \cup {f} : Accepts(w, g)
      BY <1>3, <1>8 DEF Windows
    <3> QED
      BY <3>1, <3>2, <1>3, <1>8 DEF Windows, Collect, Accepts
  <2>3. w.cc # p.cc + 1
    <3>1. CHK \in Nat /\ CHK > 1
      BY Settings
    <3> QED
      BY <3>1, <1>1, <1>2, <1>8, SameTag
  <2> HIDE DEF v
  <2>4. /\ c \in Records /\ c.win = v /\ c.orphans = r.orphans /\ c.replies = r.replies
        /\ c.latched = r.latched /\ c.held = r.held /\ c.delivered = r.delivered
        /\ c.deliveries = r.deliveries /\ c.foreign = r.foreign /\ c.mangled = r.mangled
    BY <2>2 DEF Records
  <2> HIDE DEF c, s
  <2>5. WindowNow(c, p)
    <3>1. \A g \in v.got : Aired(g, p)
      BY <2>2, <1>4, <1>8 DEF f
    <3>2. v.uid = p.uid /\ v.cc <= p.cc + 1 /\ v.cc # p.cc + 1 /\ (v.cc = 1 => v.pcrc)
      BY <2>2, <2>3, <1>4, <1>8
    <3> QED
      BY <3>1, <3>2, <2>4 DEF WindowNow
  <2>6. InStep(c, p, lo)
    <3> SUFFICES ASSUME p.uid \notin lo
                 PROVE  /\ c.held[p.uid] = 1..(c.win.cc - 1) /\ c.win.cc >= p.cc
                        /\ ~c.win.pcrc => Own(c.win)
      BY <2>2, <2>4 DEF InStep
    <3>1. r.held[p.uid] = 1..(w.cc - 1) /\ w.cc >= p.cc /\ (~w.pcrc => Own(w))
      BY <1>1, <1>8 DEF Timed, InStep, w
    <3>2. w.cc = p.cc
      BY <3>1, <2>3, <1>1, <1>3, <1>4, <1>8
    <3>3. ASSUME ~v.pcrc PROVE Own(v)
      <4>1. \A g \in w.got : g.uid = w.uid /\ g.cc = w.cc
        BY <3>1, <3>3, <2>2 DEF Own
      <4> QED
        BY <4>1, <3>2, <2>2, <1>2, <1>4, <1>8 DEF Own
    <3> QED
      BY <3>1, <3>2, <3>3, <2>2, <2>4
  <2>7. Timed(c, p, lo) /\ Grown(r, c)
    <3>1. Attached(c)
      BY <2>2, <2>4, <1>8 DEF Timed, Attached, w
    <3>2. OrphansAge(c, p) /\ Forgotten(c, p) /\ Intact(c, lo) /\ RepliesNow(c, p, lo) /\ Grown(r, c)
      BY <2>4 DEF Timed, OrphansAge, Forgotten, Intact, RepliesNow, Answers, Grown
    <3> QED
      BY <3>1, <3>2, <2>5, <2>6 DEF Timed
  <2>8. Timed(s, p, lo) /\ Grown(r, s)
    <3>1. CASE Complete(c.win)
      <4>1. c.win.active
        BY <2>2, <2>4
      <4> QED
        BY <3>1, <4>1, <2>1, <2>4, <2>7, FinishTimed DEF Grown
    <3>2. CASE ~Complete(c.win)
      BY <3>2, <2>1, <2>7
    <3> QED
      BY <3>1, <3>2
  <2> QED
    BY <2>8 DEF s, f
<1>9. CASE ~(w.active /\ Retried(r, f)) /\ ~(w.active /\ f.tag = w.cc % CHK)
  <2> DEFINE e == [frame |-> f, age |-> 0]
             O == Room(r.orphans) \cup {e}
  <2>1. s = [r EXCEPT !.orphans = O]
    BY <1>9 DEF OnNativeFrameReceived, w
  <2>2. O \subseteq r.orphans \cup {e}
    BY DEF Room
  <2> HIDE DEF O, s
  <2>3. Alike(r, s) /\ s.orphans = O /\ s.replies = r.replies
    BY <2>1 DEF Alike, Records
  <2>4. OrphansAge(s, p)
    <3>1. /\ Aired(e.frame, p)
          /\ e.frame.uid = p.uid /\ e.age >= p.cc - e.frame.cc
          /\ ~(e.frame.uid < p.uid) /\ ~(~p.live \/ p.wait < ListenSlots)
      BY <1>1, <1>2, Settings DEF f
    <3> HIDE DEF e
    <3> QED
      BY <2>2, <2>3, <3>1 DEF Timed, OrphansAge
  <2>5. Timed(s, p, lo) /\ Grown(r, s)
    BY <2>3, <2>4, AlikeTimed DEF Timed
  <2> QED
    BY <2>5 DEF s, f
<1> QED
  BY <1>5, <1>6, <1>7, <1>8, <1>9

-----------------------------------------------------------------------------
(* A slot passes, and the peer's record with it.                           *)
Nearer(x) == [x EXCEPT !.due = IF @ > 0 THEN @ - 1 ELSE 0]

LEMMA NearerFields ==
  ASSUME NEW x \in Replies
  PROVE  /\ Nearer(x) \in Replies /\ Nearer(x).kind = x.kind /\ Nearer(x).uid = x.uid
         /\ Nearer(x).cc = x.cc /\ Nearer(x).shot = x.shot
         /\ Nearer(x).due = IF x.due > 0 THEN x.due - 1 ELSE 0
         /\ x.due \in Nat /\ x.uid \in Uids /\ x.uid \in Nat /\ x.cc \in Nat
BY Sizing DEF Nearer, Replies

(* The chunk that is answered: the peer may go on to the next one.         *)
Answered(r, p, lo) == p.uid \in lo \/ r.deliveries[p.uid] > 0 \/ p.cc \in r.held[p.uid]

Follows(r, p, q, lo) ==
  /\ q.uid = p.uid
  /\ \/ q.cc = p.cc
     \/ q.cc = p.cc + 1 /\ p.uid \in Uids /\ p.cc # Total(p.uid) /\ Answered(r, p, lo)
  /\ q.cc = p.cc /\ q.tries = 0 => p.tries = 0 /\ q.air <= p.air

(* All but the orphans and the replies.                                    *)
LEMMA FollowsTimed ==
  ASSUME NEW r, NEW n \in Nat, Safe(r, n), NEW p \in Peers, NEW q \in Peers, NEW lo,
         Timed(r, p, lo), Follows(r, p, q, lo), NEW s, Alike(r, s)
  PROVE  /\ WindowNow(s, q) /\ Attached(s) /\ Forgotten(s, q)
         /\ InStep(s, q, lo) /\ Intact(s, lo) /\ Grown(r, s)
         /\ \A o \in r.orphans : Aired(o.frame, q)
<1>1. /\ p.uid \in Nat /\ q.uid = p.uid /\ p.cc \in Nat /\ q.cc \in Nat /\ p.air \in Nat
      /\ q.air \in Nat /\ p.tries \in Nat /\ q.tries \in Nat
      /\ p.uid > 0 => p.cc \in 1..Total(p.uid) /\ p.uid \in Uids
  BY Sizing, Settings DEF Peers, PeerRecords, Follows, Uids
<1>2. /\ r \in Records /\ r.win \in Windows /\ r.win.cc \in Nat /\ r.win.cc \in 1..Total(r.win.uid)
      /\ r.win.got \subseteq Frames
  BY DEF Safe, Sound, Records, Windows
<1>3. q.cc = p.cc \/ q.cc = p.cc + 1
  BY DEF Follows
<1>4. ASSUME NEW f \in Frames, Aired(f, p) PROVE Aired(f, q)
  <2>1. f.uid \in Nat /\ f.cc \in Nat /\ f.seq \in Nat
    BY Sizing DEF Frames
  <2>2. f.uid <= q.uid /\ (f.uid = q.uid => f.cc <= q.cc)
    BY <1>1, <1>3, <1>4, <2>1 DEF Aired
  <2>3. ASSUME f.uid = q.uid, f.cc = q.cc, q.tries = 0
        PROVE  f.seq + q.air < FramesOf(q.uid, q.cc)
    <3>1. q.cc = p.cc
      BY <1>1, <1>3, <1>4, <2>1, <2>3 DEF Aired
    <3>2. p.tries = 0 /\ q.air <= p.air
      BY <2>3, <3>1 DEF Follows
    <3>3. f.seq + p.air < FramesOf(p.uid, p.cc)
      BY <1>1, <1>4, <2>3, <3>1, <3>2 DEF Aired
    <3>4. FramesOf(p.uid, p.cc) \in Nat
      <4>1. p.uid > 0
        BY <1>1, <2>3, Sizing DEF Frames
      <4> QED
        BY <1>1, <4>1, Sizing
    <3> QED
      BY <1>1, <2>1, <3>1, <3>2, <3>3, <3>4
  <2> QED
    BY <2>2, <2>3 DEF Aired
<1>5. \A o \in r.orphans : Aired(o.frame, q)
  BY <1>2, <1>4 DEF Timed, OrphansAge, Records, Orphans
<1>6. WindowNow(s, q)
  <2>1. CASE r.win.active
    <3>1. /\ r.win.uid = p.uid /\ r.win.cc <= p.cc + 1
          /\ r.win.cc = p.cc + 1 => r.win.got = {}
          /\ r.win.cc = 1 => r.win.pcrc
          /\ \A f \in r.win.got : Aired(f, p)
      BY <2>1 DEF Timed, WindowNow
    <3>2. \A f \in r.win.got : Aired(f, q)
      BY <3>1, <1>2, <1>4
    <3>3. r.win.cc <= q.cc + 1 /\ (r.win.cc = q.cc + 1 => r.win.cc = p.cc + 1)
      BY <3>1, <1>1, <1>2, <1>3
    <3>4. s.win = r.win
      BY DEF Alike
    <3> QED
      BY <3>1, <3>2, <3>3, <3>4, <1>1 DEF WindowNow
  <2>2. CASE ~r.win.active
    BY <2>2 DEF WindowNow, Alike
  <2> QED
    BY <2>1, <2>2
<1>7. Attached(s) /\ Intact(s, lo) /\ Grown(r, s)
  BY AlikeTimed
<1>8. p.uid > 0 /\ r.deliveries[p.uid] > 0 => q.cc = p.cc
  BY <1>1 DEF Timed, Forgotten, Follows
<1>9. Forgotten(s, q)
  <2>1. Forgotten(s, p)
    BY AlikeTimed
  <2> QED
    BY <2>1, <1>1, <1>8 DEF Forgotten, Alike
<1>10. InStep(s, q, lo)
  <2> SUFFICES ASSUME q.uid > 0, q.uid \notin lo
               PROVE  IF s.win.active
                      THEN /\ s.held[q.uid] = 1..(s.win.cc - 1) /\ s.win.cc >= q.cc
                           /\ ~s.win.pcrc => Own(s.win)
                      ELSE s.held[q.uid] = {} /\ (q.cc = 1 \/ s.deliveries[q.uid] > 0)
    BY DEF InStep
  <2>1. IF r.win.active
        THEN /\ r.held[p.uid] = 1..(r.win.cc - 1) /\ r.win.cc >= p.cc
             /\ ~r.win.pcrc => Own(r.win)
        ELSE r.held[p.uid] = {} /\ (p.cc = 1 \/ r.deliveries[p.uid] > 0)
    BY <1>1 DEF Timed, InStep
  <2>2. s.win = r.win /\ s.held = r.held /\ s.deliveries = r.deliveries
    BY DEF Alike
  <2>3. CASE q.cc = p.cc
    BY <2>1, <2>2, <2>3, <1>1
  <2>4. CASE q.cc # p.cc
    <3>1. q.cc = p.cc + 1 /\ Answered(r, p, lo)
      BY <2>4 DEF Follows
    <3>2. p.cc \in r.held[p.uid]
      BY <3>1, <2>4, <1>1, <1>8 DEF Answered
    <3>3. r.win.active /\ r.held[p.uid] = 1..(r.win.cc - 1) /\ (~r.win.pcrc => Own(r.win))
      BY <2>1, <3>2
    <3>4. r.win.cc >= q.cc
      BY <3>1, <3>2, <3>3, <1>1, <1>2
    <3> QED
      BY <2>2, <3>3, <3>4, <1>1
  <2> QED
    BY <2>3, <2>4
<1> QED
  BY <1>5, <1>6, <1>7, <1>9, <1>10

LEMMA SlotTimed ==
  ASSUME NEW r, NEW n \in Nat, Safe(r, n), NEW p \in Peers, NEW q \in Peers, NEW lo,
         Timed(r, p, lo), Follows(r, p, q, lo),
         p.uid > 0 => Elapsed(p) \in Int /\ Elapsed(q) \in Int /\ Elapsed(q) <= Elapsed(p) + 1,
         \A x \in r.replies : InTime(x, p) => InTime(Nearer(x), q)
  PROVE  Timed(Aged(r), q, lo) /\ Grown(r, Aged(r))
<1> DEFINE s == Aged(r)
<1>1. /\ s.win = r.win /\ s.latched = r.latched /\ s.held = r.held
      /\ s.delivered = r.delivered /\ s.deliveries = r.deliveries
      /\ s.foreign = r.foreign /\ s.mangled = r.mangled
      /\ s.replies = Sooner(r.replies)
      /\ s.orphans = {o \in {[y EXCEPT !.age = @ + 1] : y \in r.orphans} : o.age <= OrphanTTL}
  BY AgedSafe
<1> HIDE DEF s
<1>2. /\ WindowNow(s, q) /\ Attached(s) /\ Forgotten(s, q)
      /\ InStep(s, q, lo) /\ Intact(s, lo) /\ Grown(r, s)
      /\ \A o \in r.orphans : Aired(o.frame, q)
  <2>1. Alike(r, s)
    BY <1>1 DEF Alike
  <2> QED
    BY <2>1, FollowsTimed
<1>3. r \in Records
  BY DEF Safe, Sound
<1>4. OrphansAge(s, q)
  <2> SUFFICES ASSUME NEW o \in s.orphans
               PROVE  /\ Aired(o.frame, q)
                      /\ o.frame.uid = q.uid => o.age >= q.cc - o.frame.cc
                      /\ o.frame.uid < q.uid => o.age > Elapsed(q)
                      /\ ~q.live \/ q.wait < ListenSlots => o.age > 0
    BY DEF OrphansAge
  <2>1. PICK y \in r.orphans : o = [y EXCEPT !.age = @ + 1]
    BY <1>1
  <2>2. y \in Orphans /\ y.age \in Nat /\ y.frame \in Frames
    BY <1>3, Settings DEF Records, Orphans
  <2>3. o.frame = y.frame /\ o.age = y.age + 1
    BY <2>1, <2>2 DEF Orphans
  <2>4. y.frame.uid \in Nat /\ y.frame.cc \in Nat /\ (y.frame.uid < q.uid => q.uid > 0)
    <3>1. y.frame.uid \in Uids /\ y.frame.cc \in Nat
      BY <2>2 DEF Frames
    <3>2. y.frame.uid \in Nat /\ y.frame.uid > 0
      BY <3>1, Sizing
    <3>3. q.uid \in Nat
      BY Sizing DEF Peers, PeerRecords
    <3> QED
      BY <3>1, <3>2, <3>3
  <2>5. /\ y.frame.uid = p.uid => y.age >= p.cc - y.frame.cc
        /\ y.frame.uid < p.uid => y.age > Elapsed(p)
    BY DEF Timed, OrphansAge
  <2>6. /\ q.uid = p.uid /\ (q.cc = p.cc \/ q.cc = p.cc + 1)
        /\ p.uid \in Nat /\ p.cc \in Nat /\ q.cc \in Nat
    BY Sizing DEF Follows, Peers, PeerRecords
  <2>7. y.frame.uid < q.uid => o.age > Elapsed(q)
    BY <2>2, <2>3, <2>4, <2>5, <2>6
  <2>8. y.frame.uid = q.uid => o.age >= q.cc - y.frame.cc
    BY <2>2, <2>3, <2>4, <2>5, <2>6
  <2> QED
    BY <2>2, <2>3, <2>7, <2>8, <1>2
<1>5. RepliesNow(s, q, lo)
  <2> SUFFICES ASSUME NEW z \in s.replies PROVE InTime(z, q) /\ Answers(z, s, lo)
    BY DEF RepliesNow
  <2>1. PICK x \in r.replies : z = Nearer(x)
    BY <1>1 DEF Sooner, Nearer
  <2>2. x \in Replies
    BY <1>3 DEF Records
  <2>3. InTime(x, p) /\ Answers(x, r, lo)
    BY DEF Timed, RepliesNow
  <2> QED
    BY <1>1, <2>1, <2>2, <2>3, NearerFields DEF Answers
<1> QED
  BY <1>2, <1>4, <1>5 DEF Timed, s

LEMMA ElapsedFacts ==
  ASSUME NEW p \in Peers, p.uid > 0
  PROVE  /\ p.uid \in Uids /\ Burst(p.uid, 1, 0) \in Nat /\ p.air \in Nat /\ Elapsed(p) \in Int
         /\ Elapsed(p) <= Burst(p.uid, 1, 0)
         /\ p.air = 0 => Elapsed(p) = Burst(p.uid, 1, 0)
<1>1. p.uid \in Uids /\ p.air \in Nat
  BY Sizing DEF Peers, PeerRecords, Uids
<1>2. Burst(p.uid, 1, 0) \in Nat
  BY <1>1, FullBurst, Settings
<1> QED
  BY <1>1, <1>2 DEF Elapsed

(* The text pipeline is empty when the burst is over.                      *)
LEMMA LateOver ==
  ASSUME Timely, peer \in Peers, late \in Lates, LateNow(peer, late), peer.air = 0, NoTextDue
  PROVE  late.uid = 0 /\ LateAged = late
<1>1. ASSUME late.uid # 0 PROVE FALSE
  <2>1. /\ Sending(peer) /\ peer.cc % TEXT_ID_INTERVAL = 1
        /\ AfterText(peer.uid, peer.cc, peer.tries) - peer.air + late.left <= Lag
    BY <1>1 DEF LateNow, Sending
  <2>2. peer.uid \in Uids /\ peer.cc \in 1..Total(peer.uid) /\ peer.tries \in Nat
    BY <2>1, SendingFacts
  <2>3. Lag <= AfterText(peer.uid, peer.cc, 0)
    BY <2>1, <2>2 DEF Timely
  <2>4. /\ AfterText(peer.uid, peer.cc, 0) \in Nat
        /\ AfterText(peer.uid, peer.cc, peer.tries) \in Nat
    BY <2>2, BurstType
  <2>5. AfterText(peer.uid, peer.cc, 0) <= AfterText(peer.uid, peer.cc, peer.tries)
    BY <2>2, BurstType DEF AfterText
  <2>6. late.left \in Nat /\ late.left > 0 /\ Lag \in Nat
    BY <1>1, Settings DEF Lates, NoTextDue
  <2> QED
    BY <2>1, <2>3, <2>4, <2>5, <2>6
<1> QED
  BY <1>1 DEF LateAged

(* What a step must show of the messages that the peer has passed.         *)
LEMMA PassedStay ==
  ASSUME IInv, Synchronous, Grown(rx, rx'), lost \subseteq lost', passed' = passed
  PROVE  \A u \in passed' : rx'.deliveries[u] > 0 \/ u \in lost'
BY DEF IInv, Synchronous, Grown

LEMMA SoundsInTime ==
  ASSUME NEW p \in Peers, NEW q \in Peers, p.air > 0,
         PeerIs(q, p.uid, p.cc, p.tries, p.air - 1, p.wait, TRUE),
         NEW x \in Replies, x.due > 0, InTime(x, p)
  PROVE  InTime(Nearer(x), q)
<1>1. /\ p.air \in Nat /\ p.cc \in Nat /\ p.uid \in Nat /\ p.wait \in Nat /\ p.live
  BY Sizing, Settings DEF Peers, PeerRecords
<1>2. /\ q.uid = p.uid /\ q.cc = p.cc /\ q.tries = p.tries /\ q.air = p.air - 1
      /\ q.wait = p.wait /\ q.live = TRUE
  BY DEF PeerIs
<1>3. /\ Nearer(x).uid = x.uid /\ Nearer(x).cc = x.cc /\ Nearer(x).due = x.due - 1
      /\ x.due \in Nat /\ x.uid \in Nat /\ x.cc \in Nat
  BY NearerFields
<1> QED
  BY <1>1, <1>2, <1>3, Settings DEF InTime

LEMMA SilentInTime ==
  ASSUME NEW p \in Peers, NEW q \in Peers, p.air = 0, p.live => p.wait > 0,
         PeerIs(q, p.uid, p.cc, p.tries, 0, IF p.live THEN p.wait - 1 ELSE p.wait, p.live),
         NEW x \in Replies, x.due > 0, InTime(x, p)
  PROVE  InTime(Nearer(x), q)
<1>1. /\ p.air \in Nat /\ p.cc \in Nat /\ p.uid \in Nat /\ p.wait \in Nat
  BY Sizing, Settings DEF Peers, PeerRecords
<1>2. /\ q.uid = p.uid /\ q.cc = p.cc /\ q.tries = p.tries /\ q.air = 0
      /\ q.live = p.live /\ q.wait = IF p.live THEN p.wait - 1 ELSE p.wait
  BY DEF PeerIs
<1>3. /\ Nearer(x).uid = x.uid /\ Nearer(x).cc = x.cc /\ Nearer(x).due = x.due - 1
      /\ x.due \in Nat /\ x.uid \in Nat /\ x.cc \in Nat
  BY NearerFields
<1>4. x.uid = p.uid
  BY <1>1, <1>3 DEF InTime
<1>5. CASE p.live
  BY <1>1, <1>2, <1>3, <1>4, <1>5, Settings DEF InTime
<1>6. CASE ~p.live
  BY <1>1, <1>2, <1>3, <1>4, <1>6, Settings DEF InTime
<1> QED
  BY <1>5, <1>6

(* After a reply the peer has a burst ahead of it, or is done.             *)
LEMMA HeardInTime ==
  ASSUME NEW p \in Peers, NEW q \in Peers, p.air = 0, p.live, q.uid = p.uid, q.cc >= p.cc,
         q.live => q.wait = ListenSlots,
         NEW x \in Replies, InTime(x, p)
  PROVE  InTime(Nearer(x), q)
<1>1. /\ p.cc \in Nat /\ p.uid \in Nat /\ p.wait \in Nat /\ p.wait <= ListenSlots
      /\ q.cc \in Nat /\ q.air \in Nat /\ q.live \in BOOLEAN
  BY Sizing, Settings DEF Peers, PeerRecords
<1>2. /\ Nearer(x).uid = x.uid /\ Nearer(x).cc = x.cc
      /\ Nearer(x).due = IF x.due > 0 THEN x.due - 1 ELSE 0
      /\ x.due \in Nat /\ x.uid \in Nat /\ x.cc \in Nat
  BY NearerFields
<1>3. x.uid = p.uid /\ x.cc <= p.cc /\ x.due <= Lag + 1 /\ x.due <= p.wait
  BY <1>1, <1>2, Settings DEF InTime
<1>4. CASE q.live
  BY <1>1, <1>2, <1>3, <1>4, Settings DEF InTime
<1>5. CASE ~q.live
  BY <1>1, <1>2, <1>3, <1>5, Settings DEF InTime
<1> QED
  BY <1>4, <1>5

-----------------------------------------------------------------------------
LEMMA InitTimed == Init => Synchronous
<1> SUFFICES ASSUME Init PROVE Synchronous
  OBVIOUS
<1>1. /\ rx.win.active = FALSE /\ rx.orphans = {} /\ rx.replies = {} /\ rx.latched = {}
      /\ rx.delivered = {} /\ rx.foreign = {} /\ rx.mangled = {}
      /\ \A u \in Uids : rx.held[u] = {} /\ rx.deliveries[u] = 0
      /\ peer.uid = 0 /\ late.uid = 0 /\ passed = {}
  BY DEF Init, BlankRx, ClosedWindow, NotLate
<1>2. Timed(rx, peer, lost)
  BY <1>1 DEF Timed, OrphansAge, WindowNow, Attached, Forgotten, InStep, Intact, RepliesNow
<1> QED
  BY <1>1, <1>2 DEF Synchronous, LateNow

LEMMA StartTimed ==
  ASSUME Timely, IInv, Synchronous, SendChunkedBinary
  PROVE  Synchronous'
<1> DEFINE u == peer.uid + 1
           q == peer'
<1>1. /\ rx \in Records /\ Guarded(rx) /\ peer \in Peers /\ late \in Lates
      /\ Timed(rx, peer, lost) /\ LateNow(peer, late)
  BY DEF IInv, Safe, Sound, Synchronous
<1>2. /\ ~peer.live /\ ~rx.win.active
      /\ rx' = rx /\ late' = late /\ passed' = passed /\ lost' = lost
  BY DEF SendChunkedBinary, Timely
<1>3. /\ u \in Uids /\ u \in Nat /\ peer.uid \in Nat /\ peer.cc \in Nat /\ peer.air = 0
      /\ q \in Peers /\ q.uid = u /\ q.cc = 1 /\ q.tries = 0 /\ q.air = Burst(u, 1, 0)
      /\ q.wait = ListenSlots /\ q.live
  <2>1. /\ u \in Uids /\ q \in Peers
        /\ PeerIs(q, u, 1, 0, Burst(u, 1, 0), ListenSlots, TRUE)
    BY <1>1, PeerStarts
  <2>2. peer.air = 0 /\ peer.uid \in Nat /\ peer.cc \in Nat
    BY <1>1, <1>2, PeerFacts
  <2> QED
    BY <2>1, <2>2, Sizing DEF PeerIs
<1>4. Burst(u, 1, 0) \in Nat /\ Burst(u, 1, 0) > Lag /\ Elapsed(q) = 0 /\ Lag \in Nat
  <2>1. /\ 1 \in 1..Total(u) /\ Burst(u, 1, 0) = FramesOf(u, 1) + 1 + TextSlots
        /\ AfterText(u, 1, 0) = FramesOf(u, 1) + 1 /\ FramesOf(u, 1) \in Nat
    BY <1>3, FullBurst
  <2>2. 1 % TEXT_ID_INTERVAL = 1
    BY Settings, OneLeft
  <2>3. Lag <= AfterText(u, 1, 0)
    BY <1>3, <2>1, <2>2 DEF Timely
  <2> QED
    BY <1>3, <2>1, <2>3, Settings DEF Elapsed
<1> HIDE DEF u, q
<1>5. late.uid = 0
  BY <1>1, <1>2 DEF LateNow
<1>6. \A v \in Uids : v < u => v = peer.uid \/ v < peer.uid
  BY <1>3, Sizing DEF u
<1>7. \A v \in Uids : v >= u => v > peer.uid
  BY <1>3, Sizing DEF u
<1>8. OrphansAge(rx, q)
  <2> SUFFICES ASSUME NEW o \in rx.orphans
               PROVE  /\ Aired(o.frame, q)
                      /\ o.frame.uid = q.uid => o.age >= q.cc - o.frame.cc
                      /\ o.frame.uid < q.uid => o.age > Elapsed(q)
                      /\ ~q.live \/ q.wait < ListenSlots => o.age > 0
    BY DEF OrphansAge
  <2>1. o \in Orphans
    BY <1>1 DEF Records
  <2>2. o.frame \in Frames
    BY <2>1 DEF Orphans
  <2>3. o.frame.uid \in Uids
    BY <2>2 DEF Frames
  <2>4. o.frame.uid <= peer.uid /\ o.age > 0
    BY <1>1, <1>2 DEF Timed, OrphansAge, Aired
  <2>5. o.frame.uid \in Nat
    BY <2>3, Sizing
  <2>6. o.frame.uid < u
    BY <1>3, <2>4, <2>5 DEF u
  <2> QED
    BY <1>3, <1>4, <2>4, <2>5, <2>6, Settings DEF Aired
<1>9. WindowNow(rx, q) /\ Attached(rx) /\ Intact(rx, lost)
  BY <1>1, <1>2 DEF Timed, WindowNow
<1>10. Forgotten(rx, q)
  <2>1. \A v \in Uids : rx.held[v] = {}
    <3>1. ASSUME NEW v \in Uids, rx.held[v] # {} PROVE FALSE
      <4>1. v \in rx.latched /\ v \notin rx.delivered
        BY <1>1, <3>1 DEF Guarded
      <4> QED
        BY <4>1, <1>1, <1>2 DEF Timed, Attached
    <3> QED
      BY <3>1
  <2>2. \A v \in Uids : v > q.uid => rx.deliveries[v] = 0
    BY <1>1, <1>3, <1>7, Sizing DEF Timed, Forgotten
  <2>3. rx.deliveries[q.uid] = 0
    BY <1>1, <1>3, <1>7 DEF Timed, Forgotten
  <2>4. \A v \in rx.delivered : rx.deliveries[v] > 0
    BY <1>1 DEF Timed, Forgotten
  <2> QED
    BY <2>1, <2>2, <2>3, <2>4 DEF Forgotten
<1>11. InStep(rx, q, lost)
  <2>1. rx.held[q.uid] = {}
    BY <1>1, <1>3, <1>7 DEF Timed, Forgotten
  <2> QED
    BY <1>2, <1>3, <2>1 DEF InStep
<1>12. RepliesNow(rx, q, lost)
  <2> SUFFICES ASSUME NEW x \in rx.replies PROVE InTime(x, q) /\ Answers(x, rx, lost)
    BY DEF RepliesNow
  <2>1. x \in Replies
    BY <1>1 DEF Records
  <2>2. x.due \in Nat /\ x.uid \in Nat
    BY <2>1, NearerFields
  <2>3. InTime(x, peer) /\ Answers(x, rx, lost)
    BY <1>1 DEF Timed, RepliesNow
  <2>4. x.uid = peer.uid /\ x.due <= Lag
    BY <1>2, <1>3, <2>2, <2>3, Settings DEF InTime
  <2> QED
    BY <1>3, <1>4, <2>2, <2>3, <2>4 DEF InTime, u
<1>13. Timed(rx, q, lost)
  BY <1>8, <1>9, <1>10, <1>11, <1>12 DEF Timed
<1> QED
  BY <1>2, <1>5, <1>13 DEF Synchronous, LateNow, q

LEMMA SoundsTimed ==
  ASSUME Timely, IInv, Synchronous, AirSlot
  PROVE  Synchronous' /\ Timed(Aged(rx), peer', lost) /\ Grown(rx, rx')
<1> DEFINE p == peer
           q == peer'
           r == Aged(rx)
<1>1. /\ Safe(rx, forgets) /\ forgets \in Nat /\ peer \in Peers /\ late \in Lates
      /\ Timed(rx, peer, lost) /\ LateNow(peer, late)
      /\ rx.replies \subseteq Replies
  BY Settings DEF IInv, Safe, Sound, Records, Synchronous
<1>2. /\ peer.air > 0 /\ NothingDue /\ passed' = passed /\ lost' = lost
      /\ \/ rx' = r /\ late' = LateAged
         \/ OnAir # "head" /\ rx' = Heard(r) /\ late' = LateAged
         \/ /\ OnAir = "text" /\ late.uid = 0
            /\ rx' = r
            /\ \E n \in 1..Lag : late' = [uid |-> peer.uid, cc |-> peer.cc, left |-> n]
  BY DEF AirSlot
<1>3. /\ p.uid \in Uids /\ p.cc \in 1..Total(p.uid) /\ p.live /\ p.wait = ListenSlots
      /\ PeerIs(q, p.uid, p.cc, p.tries, p.air - 1, ListenSlots, TRUE) /\ q \in Peers
  BY <1>1, PeerSounds
<1>4. /\ p.air \in Nat /\ p.uid \in Nat /\ p.uid > 0 /\ p.cc \in Nat /\ p.tries \in Nat
      /\ p.air <= Burst(p.uid, p.cc, p.tries)
  BY <1>1, <1>3, PeerFacts, Sizing
<1>5. /\ q.uid = p.uid /\ q.cc = p.cc /\ q.tries = p.tries /\ q.air = p.air - 1
      /\ q.wait = ListenSlots /\ q.live /\ Sending(q)
  BY <1>3 DEF PeerIs, Sending
<1>6. /\ FramesOf(p.uid, p.cc) \in Nat /\ FramesOf(p.uid, p.cc) > 0
      /\ AfterText(p.uid, p.cc, p.tries) \in Nat
      /\ FramesOf(p.uid, p.cc) <= AfterText(p.uid, p.cc, p.tries)
      /\ p.cc % TEXT_ID_INTERVAL # 1 =>
           Burst(p.uid, p.cc, p.tries) = AfterText(p.uid, p.cc, p.tries)
  BY <1>3, <1>4, BurstType
<1> HIDE DEF p, q, r
<1>7. Timed(r, q, lost) /\ Grown(rx, r)
  <2>1. Follows(rx, p, q, lost)
    BY <1>4, <1>5 DEF Follows
  <2>2. Elapsed(p) \in Int /\ Elapsed(q) \in Int /\ Elapsed(q) <= Elapsed(p) + 1
    <3>1. Elapsed(p) \in Int /\ Elapsed(q) \in Int /\ Burst(p.uid, 1, 0) \in Nat
      BY <1>1, <1>3, <1>4, <1>5, ElapsedFacts DEF p
    <3> QED
      BY <3>1, <1>4, <1>5 DEF Elapsed
  <2>3. ASSUME NEW x \in rx.replies, InTime(x, p) PROVE InTime(Nearer(x), q)
    <3>1. x \in Replies /\ x.due > 0
      BY <1>1, <1>2 DEF NothingDue
    <3> QED
      BY <1>1, <1>2, <1>3, <2>3, <3>1, SoundsInTime DEF p
  <2>4. p \in Peers /\ Timed(rx, p, lost)
    BY <1>1 DEF p
  <2> QED
    BY <1>1, <1>3, <2>1, <2>2, <2>3, <2>4, SlotTimed DEF r
<1>8. r \in Records /\ Guarded(r)
  BY <1>1, AgedSafe DEF Safe, Sound, r
<1>9. ASSUME OnAir # "head" PROVE Timed(Heard(r), q, lost) /\ Grown(r, Heard(r))
  <2>1. CASE OnAir = "text"
    <3>1. p.air = AfterText(p.uid, p.cc, p.tries) + 1
      BY <1>6, <2>1 DEF OnAir, p
    <3>2. FramesOf(q.uid, q.cc) <= q.air + Lag
      BY <1>4, <1>5, <1>6, <3>1, Settings
    <3>3. Heard(r) = OnTextMarker(r, q.uid, q.cc)
      BY <1>5, <2>1 DEF Heard, p
    <3>4. CASE q.cc = 1 \/ q.uid \in r.latched \cup r.delivered
      BY <1>5, <1>7, <1>8, <3>2, <3>3, <3>4, MarkerTimed DEF OnTextMarker
    <3>5. CASE ~(q.cc = 1 \/ q.uid \in r.latched \cup r.delivered)
      BY <1>7, <3>3, <3>5 DEF OnTextMarker, Grown
    <3> QED
      BY <3>4, <3>5
  <2>2. CASE OnAir = "marker"
    <3>1. p.air > FramesOf(p.uid, p.cc)
      BY <1>6, <2>2 DEF OnAir, p
    <3>2. FramesOf(q.uid, q.cc) <= q.air + Lag
      BY <1>4, <1>5, <1>6, <3>1, Settings
    <3>3. Heard(r) = OnMarkerFrame(r, q.uid, q.cc)
      BY <1>5, <2>2 DEF Heard, p
    <3>4. CASE (r.win.active /\ r.win.uid = q.uid) \/ q.uid \in r.latched \cup r.delivered
      BY <1>5, <1>7, <1>8, <3>2, <3>3, <3>4, MarkerTimed DEF OnMarkerFrame
    <3>5. CASE ~((r.win.active /\ r.win.uid = q.uid) \/ q.uid \in r.latched \cup r.delivered)
      BY <1>7, <3>3, <3>5 DEF OnMarkerFrame, Grown
    <3> QED
      BY <3>4, <3>5
  <2>3. CASE OnAir # "text" /\ OnAir # "marker"
    <3> DEFINE i == FramesOf(p.uid, p.cc) - p.air
    <3>1. p.air <= FramesOf(p.uid, p.cc)
      BY <1>4, <1>6, <2>3, <1>9 DEF OnAir, p
    <3>2. i \in 0..(FramesOf(q.uid, q.cc) - 1) /\ i + q.air < FramesOf(q.uid, q.cc)
      BY <1>2, <1>4, <1>5, <1>6, <3>1 DEF p
    <3> HIDE DEF i
    <3>3. Heard(r) = OnNativeFrameReceived(r, Frame(q.uid, q.cc, i))
      BY <1>5, <2>3 DEF Heard, i, p
    <3>4. Aired(Frame(q.uid, q.cc, i), q)
      BY <1>4, <1>5, <3>2 DEF Aired, Frame
    <3> QED
      BY <1>5, <1>7, <1>8, <3>2, <3>3, <3>4, FrameTimed
  <2> QED
    BY <2>1, <2>2, <2>3
<1>10. LateNow(q, LateAged)
  <2>1. CASE late.uid = 0
    BY <2>1 DEF LateAged, LateNow
  <2>2. CASE late.uid # 0
    <3>1. /\ late.uid = p.uid /\ late.cc = p.cc /\ p.cc % TEXT_ID_INTERVAL = 1
          /\ p.air <= AfterText(p.uid, p.cc, p.tries)
          /\ AfterText(p.uid, p.cc, p.tries) - p.air + late.left <= Lag
      BY <1>1, <2>2 DEF LateNow, p
    <3>2. late \in Lates /\ late.left \in Nat
      BY <1>1 DEF Lates
    <3>3. LateAged.uid = late.uid /\ LateAged.cc = late.cc /\ LateAged.left = late.left - 1
      BY <2>2, <3>2 DEF LateAged, Lates
    <3> QED
      BY <1>4, <1>5, <1>6, <3>1, <3>2, <3>3, Settings DEF LateNow
  <2> QED
    BY <2>1, <2>2
<1>11. CASE rx' = r /\ late' = LateAged
  BY <1>2, <1>7, <1>10, <1>11, PassedStay DEF Synchronous, q, r
<1>12. CASE OnAir # "head" /\ rx' = Heard(r) /\ late' = LateAged
  <2>1. Timed(rx', peer', lost') /\ Grown(rx, rx')
    BY <1>2, <1>7, <1>9, <1>12 DEF Grown, q
  <2> QED
    BY <1>2, <1>7, <1>10, <1>12, <2>1, PassedStay DEF Synchronous, q, r
<1>13. CASE /\ OnAir = "text" /\ late.uid = 0
            /\ rx' = r
            /\ \E n \in 1..Lag : late' = [uid |-> peer.uid, cc |-> peer.cc, left |-> n]
  <2>1. p.air = AfterText(p.uid, p.cc, p.tries) + 1
    BY <1>6, <1>13 DEF OnAir, p
  <2>2. p.cc % TEXT_ID_INTERVAL = 1
    BY <1>4, <1>6, <2>1
  <2>3. PICK n \in 1..Lag : late' = [uid |-> peer.uid, cc |-> peer.cc, left |-> n]
    BY <1>13
  <2>4. late'.uid = p.uid /\ late'.cc = p.cc /\ late'.left = n
    BY <2>3 DEF p
  <2>5. LateNow(q, late')
    BY <1>4, <1>5, <1>6, <2>1, <2>2, <2>4, Settings DEF LateNow
  <2> QED
    BY <1>2, <1>7, <1>13, <2>5, PassedStay DEF Synchronous, q, r
<1> QED
  BY <1>2, <1>11, <1>12, <1>13

LEMMA DecodedTimed ==
  ASSUME Timely, IInv, Synchronous, TextDecoded
  PROVE  Synchronous' /\ Grown(rx, rx')
<1>1. /\ rx \in Records /\ Guarded(rx) /\ peer \in Peers /\ late \in Lates
      /\ Timed(rx, peer, lost) /\ LateNow(peer, late)
  BY DEF IInv, Safe, Sound, Synchronous
<1>2. /\ late.uid # 0 /\ late.left = 0 /\ rx' = OnTextMarker(rx, late.uid, late.cc)
      /\ late'.uid = 0 /\ peer' = peer /\ passed' = passed /\ lost' = lost
  BY DEF TextDecoded, NotLate
<1>3. /\ Sending(peer) /\ late.uid = peer.uid /\ late.cc = peer.cc
      /\ AfterText(peer.uid, peer.cc, peer.tries) - peer.air <= Lag
  <2>1. /\ Sending(peer) /\ late.uid = peer.uid /\ late.cc = peer.cc
        /\ AfterText(peer.uid, peer.cc, peer.tries) - peer.air + late.left <= Lag
    BY <1>1, <1>2 DEF LateNow, Sending
  <2>2. /\ peer.uid \in Uids /\ peer.cc \in 1..Total(peer.uid) /\ peer.tries \in Nat
        /\ peer.air \in Nat
    BY <2>1, SendingFacts
  <2>3. AfterText(peer.uid, peer.cc, peer.tries) \in Nat
    BY <2>2, BurstType
  <2> QED
    BY <2>1, <2>2, <2>3, <1>2, Settings
<1>4. FramesOf(peer.uid, peer.cc) <= peer.air + Lag
  <2>1. /\ peer.uid \in Uids /\ peer.cc \in 1..Total(peer.uid) /\ peer.tries \in Nat
        /\ peer.air \in Nat
    BY <1>3, SendingFacts
  <2>2. /\ FramesOf(peer.uid, peer.cc) \in Nat
        /\ AfterText(peer.uid, peer.cc, peer.tries) \in Nat
        /\ FramesOf(peer.uid, peer.cc) <= AfterText(peer.uid, peer.cc, peer.tries)
    BY <2>1, BurstType
  <2> QED
    BY <1>3, <2>1, <2>2, Settings
<1>5. Timed(rx', peer, lost) /\ Grown(rx, rx')
  <2>1. rx' = OnTextMarker(rx, peer.uid, peer.cc)
    BY <1>2, <1>3
  <2>2. CASE peer.cc = 1 \/ peer.uid \in rx.latched \cup rx.delivered
    BY <1>1, <1>3, <1>4, <2>1, <2>2, MarkerTimed DEF OnTextMarker
  <2>3. CASE ~(peer.cc = 1 \/ peer.uid \in rx.latched \cup rx.delivered)
    BY <1>1, <2>1, <2>3 DEF OnTextMarker, Grown
  <2> QED
    BY <2>2, <2>3
<1>6. LateNow(peer', late')
  BY <1>2 DEF LateNow
<1> QED
  BY <1>2, <1>5, <1>6, PassedStay DEF Synchronous

LEMMA QuietTimed ==
  ASSUME Timely, IInv, Synchronous, QuietSlot
  PROVE  Synchronous'
<1> DEFINE p == peer
           q == peer'
           r == Aged(rx)
<1>1. /\ Safe(rx, forgets) /\ forgets \in Nat /\ peer \in Peers /\ late \in Lates
      /\ Timed(rx, peer, lost) /\ LateNow(peer, late)
      /\ rx.replies \subseteq Replies
  BY Settings DEF IInv, Safe, Sound, Records, Synchronous
<1>2. /\ peer.air = 0 /\ NothingDue /\ NoTextDue /\ passed' = passed /\ lost' = lost
      /\ rx' = r /\ late' = LateAged
  BY DEF QuietSlot, NothingDue
<1>3. /\ PeerIs(q, p.uid, p.cc, p.tries, 0, IF p.live THEN p.wait - 1 ELSE p.wait, p.live)
      /\ p.live => p.wait > 0
      /\ q \in Peers
  BY <1>1, PeerWaits
<1>4. /\ q.uid = p.uid /\ q.cc = p.cc /\ q.tries = p.tries /\ q.air = p.air
      /\ p.air \in Nat
  BY <1>1, <1>2, <1>3, PeerFacts DEF PeerIs
<1>5. late.uid = 0 /\ late' = late
  BY <1>1, <1>2, LateOver
<1> HIDE DEF p, q, r
<1>6. Timed(r, q, lost) /\ Grown(rx, r)
  <2>1. Follows(rx, p, q, lost)
    BY <1>4 DEF Follows
  <2>2. p.uid > 0 => Elapsed(p) \in Int /\ Elapsed(q) \in Int /\ Elapsed(q) <= Elapsed(p) + 1
    <3>1. p.uid > 0 => Elapsed(p) \in Int
      BY <1>1, ElapsedFacts DEF p
    <3>2. Elapsed(q) = Elapsed(p)
      BY <1>4 DEF Elapsed
    <3> QED
      BY <3>1, <3>2
  <2>3. ASSUME NEW x \in rx.replies, InTime(x, p) PROVE InTime(Nearer(x), q)
    <3>1. x \in Replies /\ x.due > 0
      BY <1>1, <1>2 DEF NothingDue
    <3> QED
      BY <1>1, <1>2, <1>3, <2>3, <3>1, SilentInTime DEF p
  <2>4. p \in Peers /\ Timed(rx, p, lost)
    BY <1>1 DEF p
  <2> QED
    BY <1>1, <1>3, <2>1, <2>2, <2>3, <2>4, SlotTimed DEF r
<1> QED
  BY <1>2, <1>5, <1>6, PassedStay DEF Synchronous, LateNow, q

LEMMA ExpiredTimed ==
  ASSUME Timely, IInv, Synchronous, OnAckTimerExpired
  PROVE  Synchronous'
<1> DEFINE p == peer
           q == peer'
<1>1. /\ Safe(rx, forgets) /\ forgets \in Nat /\ peer \in Peers /\ late \in Lates
      /\ Timed(rx, peer, lost) /\ LateNow(peer, late)
      /\ rx.replies \subseteq Replies /\ rx \in Records
  BY Settings DEF IInv, Safe, Sound, Records, Synchronous
<1>2. /\ peer.live /\ peer.air = 0 /\ peer.wait = 0 /\ NothingDue /\ NoTextDue
      /\ peer' = Again
      /\ rx' = rx /\ late' = late /\ passed' = passed /\ lost' = lost
  BY DEF OnAckTimerExpired, NothingDue
<1>3. late.uid = 0
  BY <1>1, <1>2, LateOver
<1>4. /\ p.uid \in Uids /\ p.uid > 0 /\ p.uid \in Nat /\ p.cc \in Nat /\ q \in Peers
      /\ q.uid = p.uid /\ q.cc = p.cc
      /\ q.tries = 0 => p.tries = 0 /\ q.air <= p.air
      /\ q.live => q.wait = ListenSlots
  <2>1. /\ p.uid \in Uids /\ p.uid > 0 /\ p.uid \in Nat /\ p.cc \in Nat /\ p.tries \in Nat
        /\ Again \in Peers
        /\ IF p.tries < Retries
           THEN PeerIs(Again, p.uid, p.cc, p.tries + 1,
                       Burst(p.uid, p.cc, p.tries + 1), ListenSlots, TRUE)
           ELSE PeerIs(Again, p.uid, p.cc, p.tries, 0, p.wait, FALSE)
    BY <1>1, <1>2, PeerAgain, PeerFacts, Sizing
  <2> QED
    BY <1>2, <2>1 DEF PeerIs
<1> HIDE DEF p, q
<1>5. /\ WindowNow(rx, q) /\ Attached(rx) /\ Forgotten(rx, q)
      /\ InStep(rx, q, lost) /\ Intact(rx, lost) /\ Grown(rx, rx)
      /\ \A o \in rx.orphans : Aired(o.frame, q)
  <2>1. Follows(rx, p, q, lost) /\ Alike(rx, rx)
    BY <1>4 DEF Follows, Alike
  <2>2. p \in Peers /\ Timed(rx, p, lost)
    BY <1>1 DEF p
  <2> QED
    BY <1>1, <1>4, <2>1, <2>2, FollowsTimed
<1>6. OrphansAge(rx, q)
  <2>1. Elapsed(q) \in Int /\ Elapsed(p) \in Int /\ Elapsed(q) <= Elapsed(p)
    <3>1. Elapsed(q) \in Int /\ Elapsed(q) <= Burst(p.uid, 1, 0)
      BY <1>4, ElapsedFacts
    <3>2. Elapsed(p) = Burst(p.uid, 1, 0) /\ Elapsed(p) \in Int
      BY <1>1, <1>2, <1>4, ElapsedFacts DEF p
    <3> QED
      BY <3>1, <3>2
  <2>2. ASSUME NEW o \in rx.orphans
        PROVE  /\ o.frame.uid = q.uid => o.age >= q.cc - o.frame.cc
               /\ o.frame.uid < q.uid => o.age > Elapsed(q)
               /\ o.age > 0
    <3>1. o.age \in Nat
      BY <1>1, Settings DEF Records, Orphans
    <3>2. p.wait < ListenSlots
      BY <1>2, Settings DEF p
    <3>3. /\ o.frame.uid = p.uid => o.age >= p.cc - o.frame.cc
          /\ o.frame.uid < p.uid => o.age > Elapsed(p)
          /\ o.age > 0
      BY <1>1, <3>2 DEF Timed, OrphansAge, p
    <3> QED
      BY <1>4, <2>1, <3>1, <3>3
  <2> QED
    BY <1>5, <2>2 DEF OrphansAge
<1>7. RepliesNow(rx, q, lost)
  <2>1. ASSUME NEW x \in rx.replies PROVE FALSE
    <3>1. x \in Replies /\ x.due > 0 /\ InTime(x, p) /\ x.due \in Nat /\ x.uid \in Nat
      BY <1>1, <1>2, NearerFields DEF NothingDue, Timed, RepliesNow, p
    <3> QED
      BY <1>2, <1>4, <3>1 DEF InTime, p
  <2> QED
    BY <2>1 DEF RepliesNow
<1>8. Timed(rx, q, lost)
  BY <1>5, <1>6, <1>7 DEF Timed
<1> QED
  BY <1>2, <1>3, <1>5, <1>8, PassedStay DEF Synchronous, LateNow, q

LEMMA TimerTimed ==
  ASSUME Timely, IInv, Synchronous, NativeCollectTimeout
  PROVE  Synchronous'
<1>1. rx \in Records /\ Timed(rx, peer, lost) /\ LateNow(peer, late)
  BY DEF IInv, Safe, Sound, Synchronous
<1>2. /\ rx' = [rx EXCEPT !.watch = FALSE]
      /\ peer' = peer /\ late' = late /\ passed' = passed /\ lost' = lost
  BY DEF NativeCollectTimeout
<1>3. Alike(rx, rx') /\ rx'.orphans = rx.orphans /\ rx'.replies = rx.replies
  BY <1>1, <1>2 DEF Alike, Records
<1>4. Timed(rx', peer, lost) /\ Grown(rx, rx')
  BY <1>1, <1>3, AlikeTimed DEF Timed
<1> QED
  BY <1>1, <1>2, <1>4, PassedStay DEF Synchronous

LEMMA EvictTimed ==
  ASSUME Timely, IInv, Synchronous, NEW u \in Uids, OnAssemblyEvictTimerExpired(u)
  PROVE  Synchronous'
<1> DEFINE s == Evicted(u)
           lo == lost \cup {u}
<1>1. /\ Safe(rx, forgets) /\ forgets \in Nat /\ rx \in Records /\ peer \in Peers
      /\ Timed(rx, peer, lost) /\ LateNow(peer, late) /\ u \in rx.evict
      /\ rx' = s /\ lost' = lo /\ peer' = peer /\ late' = late /\ passed' = passed
  BY Settings DEF IInv, Safe, Sound, Synchronous, OnAssemblyEvictTimerExpired
<1>2. /\ s.win = IF rx.win.active /\ rx.win.uid = u THEN ClosedWindow ELSE rx.win
      /\ s.latched = rx.latched \ {u}
      /\ s.held = [rx.held EXCEPT ![u] = {}]
      /\ s.delivered = rx.delivered /\ s.deliveries = rx.deliveries
      /\ s.foreign = rx.foreign /\ s.mangled = rx.mangled
      /\ s.orphans = rx.orphans /\ s.replies = rx.replies
  BY <1>1, EvictedSafe
<1> HIDE DEF s
<1>3. s.held[u] = {} /\ \A v \in Uids \ {u} : s.held[v] = rx.held[v]
  BY <1>1, <1>2 DEF Records
<1>4. s.win = rx.win \/ (~s.win.active /\ rx.win.active /\ rx.win.uid = u)
  BY <1>2 DEF ClosedWindow
<1>5. OrphansAge(s, peer) /\ WindowNow(s, peer) /\ Intact(s, lo) /\ Grown(rx, s)
  BY <1>1, <1>2, <1>4 DEF Timed, OrphansAge, WindowNow, Intact, Grown
<1>6. Attached(s)
  BY <1>1, <1>2, <1>4 DEF Timed, Attached
<1>7. Forgotten(s, peer)
  BY <1>1, <1>2, <1>3 DEF Timed, Forgotten
<1>8. InStep(s, peer, lo)
  <2> SUFFICES ASSUME peer.uid > 0, peer.uid \notin lo
               PROVE  s.win = rx.win /\ s.held[peer.uid] = rx.held[peer.uid]
    BY <1>1, <1>2 DEF Timed, InStep
  <2>1. peer.uid \in Uids \ {u}
    BY <1>1, PeerFacts
  <2>2. s.win = rx.win
    BY <1>1, <1>4, <2>1 DEF Timed, WindowNow
  <2> QED
    BY <1>3, <2>1, <2>2
<1>9. RepliesNow(s, peer, lo)
  <2> SUFFICES ASSUME NEW x \in rx.replies PROVE InTime(x, peer) /\ Answers(x, s, lo)
    BY <1>2 DEF RepliesNow
  <2>1. x \in Replies /\ InTime(x, peer) /\ Answers(x, rx, lost)
    BY <1>1 DEF Records, Timed, RepliesNow
  <2>2. x.uid \in Uids
    BY <2>1 DEF Replies
  <2> QED
    BY <1>2, <1>3, <2>1, <2>2 DEF Answers
<1>10. Timed(s, peer, lo)
  BY <1>5, <1>6, <1>7, <1>8, <1>9 DEF Timed
<1> QED
  BY <1>1, <1>5, <1>10, PassedStay DEF Synchronous

LEMMA HaltTimed ==
  ASSUME Timely, IInv, Synchronous, HaltAll
  PROVE  Synchronous'
<1> DEFINE s == Halted
           lo == lost \cup {u \in Uids : rx.held[u] # {}}
<1>1. /\ Safe(rx, forgets) /\ forgets \in Nat /\ rx \in Records /\ peer \in Peers
      /\ Timed(rx, peer, lost) /\ LateNow(peer, late)
      /\ rx' = s /\ lost' = lo /\ peer' = peer /\ late' = late /\ passed' = passed
  BY Settings DEF IInv, Safe, Sound, Synchronous, HaltAll, Halted
<1>2. /\ s.win = ClosedWindow /\ s.latched = {} /\ s.delivered = {}
      /\ s.orphans = {} /\ s.replies = rx.replies
      /\ \A u \in Uids : s.held[u] = {}
      /\ s.deliveries = rx.deliveries
      /\ s.foreign = rx.foreign /\ s.mangled = rx.mangled
  BY <1>1, HaltedSafe
<1>3. s.win.active = FALSE
  BY <1>2 DEF ClosedWindow
<1> HIDE DEF s
<1>4. /\ OrphansAge(s, peer) /\ WindowNow(s, peer) /\ Attached(s) /\ Intact(s, lo)
      /\ Forgotten(s, peer) /\ Grown(rx, s)
  BY <1>1, <1>2, <1>3
     DEF Timed, OrphansAge, WindowNow, Attached, Intact, Forgotten, Grown
<1>5. InStep(s, peer, lo)
  <2> SUFFICES ASSUME peer.uid > 0, peer.uid \notin lo
               PROVE  s.held[peer.uid] = {} /\ (peer.cc = 1 \/ s.deliveries[peer.uid] > 0)
    BY <1>3 DEF InStep
  <2>1. peer.uid \in Uids /\ peer.cc \in Nat /\ peer.cc >= 1
    BY <1>1, PeerFacts
  <2>2. rx.held[peer.uid] = {} /\ s.held[peer.uid] = {}
    BY <1>2, <2>1
  <2>3. IF rx.win.active
        THEN rx.held[peer.uid] = 1..(rx.win.cc - 1) /\ rx.win.cc >= peer.cc
        ELSE peer.cc = 1 \/ rx.deliveries[peer.uid] > 0
    BY <1>1 DEF Timed, InStep
  <2>4. rx.win.cc \in Nat
    BY <1>1 DEF Records, Windows
  <2>5. rx.win.active => peer.cc = 1
    BY <2>1, <2>2, <2>3, <2>4
  <2> QED
    BY <1>2, <2>2, <2>3, <2>5
<1>6. RepliesNow(s, peer, lo)
  <2> SUFFICES ASSUME NEW x \in rx.replies PROVE InTime(x, peer) /\ Answers(x, s, lo)
    BY <1>2 DEF RepliesNow
  <2>1. x \in Replies /\ InTime(x, peer) /\ Answers(x, rx, lost)
    BY <1>1 DEF Records, Timed, RepliesNow
  <2>2. x.uid \in Uids
    BY <2>1 DEF Replies
  <2> QED
    BY <1>2, <2>1, <2>2 DEF Answers
<1>7. Timed(s, peer, lo)
  BY <1>4, <1>5, <1>6 DEF Timed
<1> QED
  BY <1>1, <1>4, <1>7, PassedStay DEF Synchronous

(* The slot that the peer gives to the reply it hears.                     *)
LEMMA HeardTimed ==
  ASSUME NEW r, NEW n \in Nat, Safe(r, n), Timed(r, peer, lost),
         peer \in Peers, peer.live, peer.air = 0, peer' \in Peers,
         Follows(r, peer, peer', lost), Spent(peer'), peer'.live => peer'.wait = ListenSlots
  PROVE  Timed(Aged(r), peer', lost) /\ Grown(r, Aged(r))
<1> DEFINE p == peer
           q == peer'
<1>1. p \in Peers /\ q \in Peers /\ p.live /\ p.air = 0 /\ p.uid \in Uids /\ p.uid > 0
      /\ Spent(q) /\ (q.live => q.wait = ListenSlots)
      /\ Follows(r, p, q, lost) /\ Timed(r, p, lost) /\ p.cc \in Nat
  BY PeerFacts
<1> HIDE DEF p, q
<1>2. q.uid = p.uid /\ q.cc >= p.cc
  BY <1>1 DEF Follows
<1>3. Elapsed(p) \in Int /\ Elapsed(q) \in Int /\ Elapsed(q) <= Elapsed(p) + 1
  <2>1. Elapsed(q) \in Int /\ Elapsed(q) <= Burst(p.uid, 1, 0) /\ Burst(p.uid, 1, 0) \in Nat
    BY <1>1, <1>2, ElapsedFacts
  <2>2. Elapsed(p) = Burst(p.uid, 1, 0)
    BY <1>1, ElapsedFacts
  <2> QED
    BY <2>1, <2>2
<1>4. ASSUME NEW x \in r.replies, InTime(x, p) PROVE InTime(Nearer(x), q)
  <2>1. x \in Replies
    BY DEF Safe, Sound, Records
  <2> QED
    BY <1>1, <1>2, <1>4, <2>1, HeardInTime
<1> QED
  BY <1>1, <1>3, <1>4, SlotTimed DEF q

LEMMA ReplyTimed ==
  ASSUME Timely, IInv, Synchronous, NEW x \in rx.replies, ReplyKeysUp(x)
  PROVE  Synchronous'
<1> DEFINE r == Keyed(x)
           u == peer.uid
<1>1. /\ Safe(rx, forgets) /\ forgets \in Nat /\ rx \in Records
      /\ peer \in Peers /\ late \in Lates /\ passed \subseteq Uids
      /\ Timed(rx, peer, lost) /\ LateNow(peer, late) /\ lost' = lost /\ x.due = 0
  BY Settings DEF IInv, Safe, Sound, Synchronous, ReplyKeysUp
<1>2. /\ Safe(r, forgets) /\ x \in Replies /\ Alike(rx, r)
      /\ r.orphans = rx.orphans /\ r.replies = rx.replies \ {x}
  BY <1>1, KeyedSafe DEF Alike
<1> HIDE DEF r
<1>3. Timed(r, peer, lost) /\ Grown(rx, r)
  <2>1. /\ WindowNow(r, peer) /\ Attached(r) /\ Forgotten(r, peer)
        /\ InStep(r, peer, lost) /\ Intact(r, lost) /\ Grown(rx, r)
        /\ OrphansAge(r, peer)
        /\ \A y \in r.replies : y \in rx.replies => InTime(y, peer) /\ Answers(y, r, lost)
    BY <1>1, <1>2, AlikeTimed
  <2>2. RepliesNow(r, peer, lost)
    BY <2>1, <1>2 DEF RepliesNow
  <2> QED
    BY <2>1, <2>2 DEF Timed
<1>4. CASE rx' = r /\ UNCHANGED <<late, peer, passed>>
  BY <1>1, <1>3, <1>4, PassedStay DEF Synchronous
<1>5. CASE /\ peer.live /\ peer.air = 0 /\ x.cc = peer.cc /\ NoTextDue
           /\ rx' = Aged(r) /\ late' = LateAged
           /\ IF x.kind = "NACK"
              THEN peer' = Again /\ UNCHANGED passed
              ELSE IF peer.cc = Total(u)
              THEN peer' = [peer EXCEPT !.live = FALSE] /\ passed' = passed \cup {u}
              ELSE /\ peer' = [peer EXCEPT !.cc = @ + 1, !.tries = 0, !.wait = ListenSlots,
                                           !.air = Burst(u, peer.cc + 1, 0)]
                   /\ UNCHANGED passed
  <2>1. /\ u \in Uids /\ u \in Nat /\ peer.cc \in 1..Total(u) /\ peer.cc \in Nat
        /\ peer.tries \in Nat /\ Total(u) \in Nat
    BY <1>1, <1>5, PeerFacts, Sizing
  <2>2. late.uid = 0 /\ late' = late
    BY <1>1, <1>5, LateOver
  <2>3. x.uid = u
    <3>1. InTime(x, peer) /\ x.uid \in Nat
      BY <1>1, <1>2, NearerFields DEF Timed, RepliesNow
    <3> QED
      BY <1>1, <1>5, <2>1, <3>1 DEF InTime
  <2>4. x.kind # "NACK" => Answered(r, peer, lost)
    <3>1. Answers(x, rx, lost) /\ x.kind \in {"ACK", "NACK"}
      BY <1>1, <1>2 DEF Timed, RepliesNow, Replies
    <3> QED
      BY <1>2, <1>5, <2>3, <3>1 DEF Answers, Answered, Alike
  <2>5. /\ peer' \in Peers /\ Spent(peer') /\ Follows(r, peer, peer', lost)
        /\ peer'.live => peer'.wait = ListenSlots
    <3>1. CASE peer' = Again
      <4>1. /\ Again \in Peers
            /\ IF peer.tries < Retries
               THEN PeerIs(Again, peer.uid, peer.cc, peer.tries + 1,
                           Burst(peer.uid, peer.cc, peer.tries + 1), ListenSlots, TRUE)
               ELSE PeerIs(Again, peer.uid, peer.cc, peer.tries, 0, peer.wait, FALSE)
        BY <1>1, <1>5, PeerAgain
      <4>2. CASE peer.tries < Retries
        BY <2>1, <3>1, <4>1, <4>2 DEF PeerIs, Spent, Follows
      <4>3. CASE ~(peer.tries < Retries)
        BY <1>5, <2>1, <3>1, <4>1, <4>3 DEF PeerIs, Spent, Follows
      <4> QED
        BY <4>2, <4>3
    <3>2. CASE peer' = [peer EXCEPT !.live = FALSE]
      <4>1. /\ peer' \in Peers
            /\ PeerIs(peer', peer.uid, peer.cc, peer.tries, 0, peer.wait, FALSE)
        BY <1>1, <1>5, <3>2, PeerGoesOn
      <4> QED
        BY <1>5, <2>1, <4>1 DEF PeerIs, Spent, Follows
    <3>3. CASE /\ x.kind # "NACK" /\ peer.cc # Total(u)
               /\ peer' = [peer EXCEPT !.cc = @ + 1, !.tries = 0, !.wait = ListenSlots,
                                       !.air = Burst(u, peer.cc + 1, 0)]
      <4>1. /\ peer' \in Peers
            /\ PeerIs(peer', peer.uid, peer.cc + 1, 0, Burst(peer.uid, peer.cc + 1, 0),
                      ListenSlots, TRUE)
        BY <1>1, <1>5, <3>3, PeerGoesOn
      <4> QED
        BY <2>1, <2>4, <3>3, <4>1 DEF PeerIs, Spent, Follows
    <3> QED
      BY <1>5, <3>1, <3>2, <3>3
  <2>6. Timed(rx', peer', lost) /\ Grown(rx, rx')
    BY <1>1, <1>2, <1>3, <1>5, <2>5, HeardTimed DEF Grown
  <2>7. CASE passed' = passed
    BY <1>1, <2>2, <2>6, <2>7, PassedStay DEF Synchronous, LateNow
  <2>8. CASE peer.cc = Total(u) /\ x.kind # "NACK" /\ passed' = passed \cup {u}
    <3>1. rx'.deliveries[u] > 0 \/ u \in lost
      <4> SUFFICES ASSUME u \notin lost PROVE rx.deliveries[u] > 0
        BY <2>1, <2>6 DEF Grown
      <4>1. rx.deliveries[u] > 0 \/ peer.cc \in rx.held[u]
        BY <1>2, <2>4, <2>8 DEF Answered, Alike
      <4>2. ASSUME peer.cc \in rx.held[u] PROVE FALSE
        <5>1. /\ rx.win.active /\ rx.held[u] = 1..(rx.win.cc - 1)
              /\ rx.win.uid = u
          BY <1>1, <2>1, <4>2, Sizing DEF Timed, InStep, WindowNow
        <5>2. rx.win.cc \in 1..Total(u)
          BY <1>1, <5>1 DEF Records, Windows
        <5> QED
          BY <2>1, <2>8, <4>2, <5>1, <5>2
      <4> QED
        BY <4>1, <4>2
    <3>2. \A v \in passed : rx'.deliveries[v] > 0 \/ v \in lost
      BY <1>1, <2>6 DEF Synchronous, Grown
    <3> QED
      BY <1>1, <2>2, <2>6, <2>8, <3>1, <3>2 DEF Synchronous, LateNow
  <2> QED
    BY <1>5, <2>7, <2>8
<1> QED
  BY <1>4, <1>5 DEF ReplyKeysUp, r, u

LEMMA StepTimed ==
  ASSUME Timely, IInv, Synchronous, [Next]_vars
  PROVE  Synchronous'
<1>1. CASE SendChunkedBinary
  BY <1>1, StartTimed
<1>2. CASE AirSlot
  BY <1>2, SoundsTimed
<1>3. CASE TextDecoded
  BY <1>3, DecodedTimed
<1>4. CASE QuietSlot
  BY <1>4, QuietTimed
<1>5. CASE OnAckTimerExpired
  BY <1>5, ExpiredTimed
<1>6. CASE \E x \in rx.replies : ReplyKeysUp(x)
  BY <1>6, ReplyTimed
<1>7. CASE NativeCollectTimeout
  BY <1>7, TimerTimed
<1>8. CASE \E u \in Uids : OnAssemblyEvictTimerExpired(u)
  BY <1>8, EvictTimed
<1>9. CASE HaltAll
  BY <1>9, HaltTimed
<1>10. CASE UNCHANGED vars
  BY <1>10 DEF vars, Synchronous
<1> QED
  BY <1>1, <1>2, <1>3, <1>4, <1>5, <1>6, <1>7, <1>8, <1>9, <1>10 DEF Next

LEMMA InTimeAlways ==
  ASSUME Timely
  PROVE  Spec => []Synchronous
<1>1. Init => Synchronous
  BY InitTimed
<1>2. IInv /\ Synchronous /\ [Next]_vars => Synchronous'
  BY StepTimed
<1> QED
  BY <1>1, <1>2, Inductive, PTL DEF Spec

(* What is delivered is the message, every chunk from its own frames, and  *)
(* once only, whatever is lost, late or retried, and whenever a timer runs *)
(* out, as long as the times of the code fit together.                     *)
THEOREM DeliveryIsWhole ==
  ASSUME Timely
  PROVE  Spec => []DeliveredWhole
<1>1. IInv /\ Synchronous => DeliveredWhole
  <2> SUFFICES ASSUME IInv, Synchronous PROVE DeliveredWhole
    OBVIOUS
  <2>1. rx.mangled \subseteq lost
    BY DEF Synchronous, Timed, Intact
  <2>2. \A u \in Uids : rx.deliveries[u] \in Nat /\ forgets \in Nat /\ Once(rx, forgets)
    BY Settings DEF IInv, Safe, Sound, Records
  <2>3. \A u \in Uids : rx.deliveries[u] <= 1 + forgets
    BY <2>2 DEF Once
  <2> QED
    BY <2>1, <2>3 DEF DeliveredWhole
<1> QED
  BY <1>1, Inductive, InTimeAlways, PTL

(* A chunk that the peer has passed is held, from its own frames: "the     *)
(* sender cannot pass chunk CC without our ACK".                           *)
THEOREM PassedIsHeld ==
  ASSUME Timely
  PROVE  Spec => []PassedMeansHeld
<1>1. IInv /\ Synchronous => PassedMeansHeld
  <2> SUFFICES ASSUME IInv, Synchronous PROVE PassedMeansHeld
    OBVIOUS
  <2>1. \A u \in passed : rx.deliveries[u] > 0 \/ u \in lost
    BY DEF Synchronous
  <2>2. ASSUME peer.live, peer.uid \notin lost, rx.deliveries[peer.uid] = 0,
               NEW cc \in 1..(peer.cc - 1)
        PROVE  cc \in rx.held[peer.uid] /\ <<peer.uid, cc>> \notin rx.foreign
    <3>1. peer.uid > 0 /\ peer.uid \in Uids /\ peer.cc \in Nat
      BY <2>2, PeerFacts DEF IInv
    <3>2. /\ rx.win.active /\ rx.held[peer.uid] = 1..(rx.win.cc - 1) /\ rx.win.cc >= peer.cc
      BY <2>2, <3>1 DEF Synchronous, Timed, InStep
    <3>3. rx.win.cc \in Nat
      BY DEF IInv, Safe, Sound, Records, Windows
    <3>4. <<peer.uid, cc>> \notin rx.foreign
      BY <2>2 DEF Synchronous, Timed, Intact
    <3> QED
      BY <3>1, <3>2, <3>3, <3>4
  <2> QED
    BY <2>1, <2>2 DEF PassedMeansHeld
<1> QED
  BY <1>1, Inductive, InTimeAlways, PTL


-----------------------------------------------------------------------------
(* A re-ACK lands in the peer's wait unless something makes the peer send  *)
(* again before: a NACK that it hears first.  So the third stage of the    *)
(* invariant says which windows can fail their check value at all.         *)

(* The orphans that a window would take.                                   *)
Waiting(r, u, c) == {o \in r.orphans : Accepts(Window(u, c, FALSE), o.frame)}

(* What an open window would take, it has taken.                           *)
NoneWaiting(r) == r.win.active => Waiting(r, r.win.uid, r.win.cc) = {}

(* Once its message is known, the peer's chunk is mixed up with no other:  *)
(* the orphans it would take are its own, and so are the frames it holds.  *)
Known(r, p) == p.cc > 1 \/ p.uid \in r.latched \/ r.deliveries[p.uid] > 0

Mine(r, p) == \A o \in Waiting(r, p.uid, p.cc) : o.frame.uid = p.uid /\ o.frame.cc = p.cc

OwnOnly(r, p) == p.uid > 0 /\ Known(r, p) => Mine(r, p)

WindowOwn(r, p) ==
  r.win.active /\ r.win.cc = p.cc /\ (p.cc > 1 \/ r.deliveries[p.uid] > 0) => Own(r.win)

Tidy(r, p) == NoneWaiting(r) /\ OwnOnly(r, p) /\ WindowOwn(r, p)

(* A re-ACK is of a message that was delivered, and due after the burst.   *)
Shots(r, p) ==
  \A x \in r.replies : x.shot =>
    r.deliveries[x.uid] > 0 /\ (p.live /\ x.uid = p.uid => p.air <= x.due)

(* A NACK that the peer would hear is of the first chunk of a message that *)
(* is not delivered: it leaves the window empty, so that no re-ACK is      *)
(* scheduled as long as it waits.                                          *)
Refused(x, r, p, l) ==
  /\ p.cc = 1 /\ x.due <= 1
  /\ \A y \in r.replies : y.shot => y.uid # p.uid
  /\ x.due = 1 \/ l.uid # 0 => r.deliveries[p.uid] = 0
  /\ l.uid # 0 => FramesOf(p.uid, 1) > 1
  /\ x.due = 1 =>
       /\ p.air <= FramesOf(p.uid, 1) + 1 /\ Waiting(r, p.uid, 1) = {}
       /\ r.win.active /\ r.win.cc = 1 => r.win.got = {}

OfChunk(x, p) == x.uid = p.uid /\ x.cc = p.cc

Nacks(r, p, l) ==
  \A x \in r.replies : x.kind = "NACK" /\ p.live /\ OfChunk(x, p) => Refused(x, r, p, l)

Landing == Tidy(rx, peer) /\ Shots(rx, peer) /\ Nacks(rx, peer, late)

(* The replies that a handler adds to r on its way to s.                   *)
NewShot(x, r, p) ==
  p.uid \in r.delivered /\ x.uid = p.uid /\ x.due = FramesOf(p.uid, p.cc) + 1

NewNack(x, s, p) ==
  /\ x.due = 1 /\ p.cc = 1 /\ s.deliveries[p.uid] = 0
  /\ s.win.active /\ s.win.uid = p.uid /\ s.win.cc = 1 /\ s.win.got = {}

Adds(r, s, p) ==
  \A x \in s.replies : x \notin r.replies =>
    /\ x.shot => NewShot(x, r, p)
    /\ x.kind = "NACK" /\ OfChunk(x, p) => NewNack(x, s, p)

NoNack(r, s, p) ==
  \A x \in s.replies : x \notin r.replies => ~(x.kind = "NACK" /\ OfChunk(x, p))

LEMMA AnyWindow ==
  ASSUME NEW u, NEW c, NEW b, NEW f
  PROVE  /\ Accepts(Window(u, c, b), f) <=> Accepts(Window(u, c, FALSE), f)
         /\ \A w : w.uid = u /\ w.cc = c => (Accepts(w, f) <=> Accepts(Window(u, c, FALSE), f))
BY DEF Accepts, Window

(* The frames that a window takes from the orphans.                        *)
Awaited(D, r, u, c) == \A f \in D : \E o \in Waiting(r, u, c) : o.frame = f

LEMMA TakenWait ==
  ASSUME NEW r \in Records, NEW u, NEW c, NEW b \in BOOLEAN, NEW L, L \subseteq r.orphans
  PROVE  Awaited(Drained(Window(u, c, b), L), r, u, c)
<1>1. L \in SUBSET Orphans
  BY DEF Records
<1>2. ASSUME NEW f \in Drained(Window(u, c, b), L)
      PROVE  \E o \in Waiting(r, u, c) : o.frame = f
  <2>1. PICK o \in L : o.frame = f
    BY <1>1, DrainedFrames
  <2>2. Accepts(Window(u, c, b), f)
    BY <1>1, DrainedFrames
  <2>3. o \in Waiting(r, u, c)
    BY <2>1, <2>2, AnyWindow DEF Waiting
  <2> QED
    BY <2>1, <2>3
<1> QED
  BY <1>2 DEF Awaited

(* The chain of windows takes what is the peer's from the orphans.         *)
LEMMA AdvanceTidy ==
  ASSUME NEW r \in Records, NEW p, Sending(p), p.uid \in r.latched, OwnOnly(r, p),
         NEW a \in Nat, a >= 2, a <= Total(p.uid) + 1
  PROVE  LET s == AutoAdvance(r, p.uid, a)
         IN Tidy(s, p) /\ Adds(r, s, p) /\ NoNack(r, s, p)
<1> DEFINE u == p.uid
           e == FirstGap(r, u, a)
           s == AutoAdvance(r, u, a)
<1> HIDE DEF e, s
<1>1. u \in Uids /\ u > 0 /\ p.cc \in Nat /\ p.cc >= 1 /\ Total(u) \in Nat
  BY SendingFacts, Sizing
<1>2. Advances(r, u, a, e, s)
  BY <1>1, AutoAdvances DEF e, s
<1>3. /\ Banks(r, u, a, e, s) /\ e \in a..(Total(u) + 1)
      /\ e <= Total(u) => GoesOn(r, u, a, e, s)
      /\ e = Total(u) + 1 => Ends(r, u, a, e, s)
  BY <1>2 DEF Advances
<1>4. s.orphans \subseteq r.orphans
  BY <1>3 DEF Banks
<1>5. \A o \in Waiting(r, u, p.cc) : o.frame.uid = u /\ o.frame.cc = p.cc
  BY <1>1 DEF OwnOnly, Known, Mine
<1>6. OwnOnly(s, p)
  BY <1>4, <1>5 DEF OwnOnly, Mine, Waiting
<1>7. NoneWaiting(s) /\ WindowOwn(s, p)
  <2>1. CASE e <= Total(u)
    <3>1. e \in 1..Total(u)
      BY <1>1, <1>3, <2>1
    <3>2. LooksAhead(r, u, a, e, Ahead(r, u, a, e)) /\ GoesOn(r, u, a, e, s)
      BY <1>1, <1>3, <2>1, <3>1, AheadFields
    <3>3. /\ s.win.uid = u /\ s.win.cc = e
          /\ s.win.got = Drained(Window(u, e, FALSE), LeftBy(u, a..(e-1), r.orphans))
          /\ \A o \in s.orphans : ~Accepts(Window(u, e, FALSE), o.frame)
      BY <3>2 DEF LooksAhead, GoesOn
    <3>4. NoneWaiting(s)
      BY <3>3 DEF NoneWaiting, Waiting
    <3>5. ASSUME e = p.cc PROVE Own(s.win)
      <4> DEFINE L == LeftBy(u, a..(e-1), r.orphans)
      <4>1. L \subseteq r.orphans /\ FALSE \in BOOLEAN
        BY DEF LeftBy
      <4>2. s.win.got = Drained(Window(u, e, FALSE), L)
        BY <3>3
      <4> HIDE DEF L, u
      <4>3. Awaited(Drained(Window(u, e, FALSE), L), r, u, e)
        BY <4>1, TakenWait
      <4>4. \A f \in s.win.got : \E o \in Waiting(r, u, e) : o.frame = f
        BY <4>2, <4>3 DEF Awaited
      <4>5. \A f \in s.win.got : f.uid = u /\ f.cc = e
        BY <1>5, <3>5, <4>4
      <4> QED
        BY <3>3, <4>5 DEF Own
    <3> QED
      BY <3>3, <3>4, <3>5 DEF WindowOwn
  <2>2. CASE e = Total(u) + 1
    <3>1. ~s.win.active
      BY <1>3, <2>2, ClosedSafe DEF Ends
    <3> QED
      BY <3>1 DEF NoneWaiting, WindowOwn
  <2> QED
    BY <1>1, <1>3, <2>1, <2>2
<1>8. ASSUME NEW x \in s.replies, x \notin r.replies PROVE x.shot = FALSE /\ x.kind = "ACK"
  <2> DEFINE R == UNION {Reply("ACK", w.uid, w.cc, 1, FALSE) : w \in Chain(r, u, a, e)}
  <2>1. s.replies = r.replies \cup R
    BY <1>3 DEF Banks
  <2>2. x \in R
    <3> HIDE DEF R
    <3> QED
      BY <1>8, <2>1
  <2>3. PICK w \in Chain(r, u, a, e) : x \in Reply("ACK", w.uid, w.cc, 1, FALSE)
    BY <2>2
  <2> QED
    BY <2>3 DEF Reply
<1>9. Adds(r, s, p) /\ NoNack(r, s, p)
  BY <1>8 DEF Adds, NoNack
<1> QED
  BY <1>6, <1>7, <1>9 DEF Tidy, s

(* Whatever ends a window of the peer leaves things tidy.                  *)
LEMMA FinishTidy ==
  ASSUME NEW r \in Records, NEW p, Sending(p), p.uid \in r.latched,
         r.win.active, r.win.uid = p.uid, Tidy(r, p)
  PROVE  LET s == FinishNativeChunk(r)
         IN /\ Tidy(s, p) /\ Adds(r, s, p)
            /\ (r.win.cc = p.cc => Own(r.win)) => NoNack(r, s, p)
<1> DEFINE w == r.win
           u == p.uid
           s == FinishNativeChunk(r)
<1>1. /\ u \in Uids /\ p.cc \in Nat /\ p.cc >= 1 /\ Total(u) \in Nat /\ w \in Windows
      /\ w.cc \in 1..Total(u)
  <2>1. w \in Windows
    BY DEF Records
  <2> QED
    BY <2>1, SendingFacts DEF Windows
<1>2. CASE CrcOk(w)
  <2> DEFINE b == Stored(r, {w})
             a == w.cc + 1
  <2>1. s = AutoAdvance(b, u, a)
    BY <1>2 DEF FinishNativeChunk
  <2>2. Banked(r, w, b)
    BY <1>1, StoredOne
  <2> HIDE DEF b, s
  <2>3. /\ b \in Records /\ b.latched = r.latched /\ b.orphans = r.orphans
        /\ b.deliveries = r.deliveries /\ b.delivered = r.delivered
        /\ b.replies = r.replies \cup Reply("ACK", w.uid, w.cc, 1, FALSE)
    BY <2>2 DEF Banked
  <2>4. OwnOnly(b, p)
    BY <2>3 DEF Tidy, OwnOnly, Mine, Known, Waiting
  <2>5. a \in Nat /\ a >= 2 /\ a <= Total(u) + 1
    BY <1>1
  <2> HIDE DEF a, u, w
  <2>6. Tidy(s, p) /\ Adds(b, s, p) /\ NoNack(b, s, p)
    BY <2>1, <2>3, <2>4, <2>5, AdvanceTidy DEF u
  <2>7. \A x \in b.replies : x \notin r.replies => x.shot = FALSE /\ x.kind = "ACK"
    BY <2>3 DEF Reply
  <2>8. Adds(r, s, p) /\ NoNack(r, s, p)
    BY <2>3, <2>6, <2>7 DEF Adds, NoNack, NewShot
  <2> QED
    BY <2>6, <2>8 DEF s
<1>3. CASE ~CrcOk(w)
  <2> DEFINE v == [w EXCEPT !.got = {}]
             R == r.replies \cup Reply("NACK", w.uid, w.cc, 1, FALSE)
  <2>1. s = [r EXCEPT !.replies = R, !.win = v, !.watch = TRUE]
    BY <1>3 DEF FinishNativeChunk, Records
  <2>2. v.active /\ v.uid = u /\ v.cc = w.cc /\ v.got = {}
    BY <1>1 DEF Windows
  <2> HIDE DEF v, s, R
  <2>3. /\ s.replies = R /\ s.win = v /\ s.orphans = r.orphans /\ s.latched = r.latched
        /\ s.delivered = r.delivered /\ s.deliveries = r.deliveries
    BY <2>1 DEF Records
  <2>4. NoneWaiting(s)
    BY <2>2, <2>3 DEF Tidy, NoneWaiting, Waiting
  <2>5. OwnOnly(s, p)
    BY <2>3 DEF Tidy, OwnOnly, Mine, Known, Waiting
  <2>6. WindowOwn(s, p)
    BY <2>2, <2>3 DEF WindowOwn, Own
  <2>7. ~Own(w)
    BY <1>3 DEF CrcOk
  <2>8. w.cc = p.cc => p.cc = 1 /\ r.deliveries[u] = 0
    <3>1. r.deliveries[u] \in Nat
      BY <1>1 DEF Records
    <3> QED
      BY <3>1, <2>7, <1>1 DEF Tidy, WindowOwn
  <2>9. ASSUME NEW x \in s.replies, x \notin r.replies
        PROVE  x.shot = FALSE /\ x.uid = u /\ x.cc = w.cc /\ x.due = 1
    BY <2>3, <2>9 DEF R, Reply
  <2>10. Adds(r, s, p)
    BY <2>2, <2>3, <2>8, <2>9 DEF Adds, OfChunk, NewNack
  <2>11. (w.cc = p.cc => Own(w)) => NoNack(r, s, p)
    BY <2>7, <2>9 DEF NoNack, OfChunk
  <2> QED
    BY <2>4, <2>5, <2>6, <2>10, <2>11 DEF Tidy, s
<1> QED
  BY <1>2, <1>3


(* A handler that finds nothing to take leaves the window empty, if it     *)
(* opens one, and delivers nothing.                                        *)
Idle(r, s) ==
  /\ s.deliveries = r.deliveries /\ s.orphans \subseteq r.orphans
  /\ s.win = r.win \/ s.win.got = {}

LEMMA OpenTidy ==
  ASSUME NEW r \in Records, NEW p, Sending(p), p.uid \in r.latched,
         p.cc > 1 \/ r.deliveries[p.uid] > 0 => Mine(r, p)
  PROVE  LET s == OpenNativeChunkWindow(r, p.uid, p.cc)
         IN /\ Tidy(s, p) /\ Adds(r, s, p)
            /\ Mine(r, p) => NoNack(r, s, p)
            /\ Waiting(r, p.uid, p.cc) = {} => Idle(r, s)
<1> DEFINE u == p.uid
           o == Opened(r, u, p.cc, TRUE)
           s == OpenNativeChunkWindow(r, u, p.cc)
<1>1. u \in Uids /\ p.cc \in 1..Total(u) /\ p.cc \in Nat
  BY SendingFacts
<1>2. Opens(r, u, p.cc, TRUE, o)
  BY <1>1, OpenedFields
<1>3. s = IF Complete(o.win) THEN FinishNativeChunk(o) ELSE o
  BY DEF OpenNativeChunkWindow
<1> HIDE DEF o, s
<1>4. /\ o \in Records /\ o.win.active /\ o.win.uid = u /\ o.win.cc = p.cc
      /\ o.win.got = Drained(Window(u, p.cc, TRUE), r.orphans)
      /\ o.orphans \subseteq r.orphans
      /\ \A y \in o.orphans : ~Accepts(Window(u, p.cc, TRUE), y.frame)
      /\ o.latched = r.latched /\ o.delivered = r.delivered /\ o.replies = r.replies
      /\ o.deliveries = r.deliveries
  BY <1>2 DEF Opens
<1>5. Waiting(o, u, p.cc) = {}
  BY <1>4, AnyWindow DEF Waiting
<1>6. NoneWaiting(o) /\ OwnOnly(o, p)
  BY <1>4, <1>5 DEF NoneWaiting, OwnOnly, Mine
<1>7. \A f \in o.win.got : \E y \in Waiting(r, u, p.cc) : y.frame = f
  <2>1. r.orphans \subseteq r.orphans /\ TRUE \in BOOLEAN
    OBVIOUS
  <2> HIDE DEF u
  <2>2. Awaited(Drained(Window(u, p.cc, TRUE), r.orphans), r, u, p.cc)
    BY <2>1, TakenWait
  <2> QED
    BY <1>4, <2>2 DEF Awaited
<1>8. Mine(r, p) => Own(o.win)
  <2>1. ASSUME Mine(r, p), NEW f \in o.win.got PROVE f.uid = u /\ f.cc = p.cc
    BY <1>7, <2>1 DEF Mine
  <2> QED
    BY <1>4, <2>1 DEF Own
<1>9. Tidy(o, p)
  BY <1>4, <1>6, <1>8 DEF Tidy, WindowOwn
<1>10. ASSUME Waiting(r, u, p.cc) = {} PROVE Idle(r, s)
  <2>1. o.win.got = {}
    BY <1>7, <1>10
  <2>2. ~Complete(o.win)
    BY <1>1, <1>4, <2>1, WindowOpen
  <2> QED
    BY <1>3, <1>4, <2>1, <2>2 DEF Idle
<1>11. CASE Complete(o.win)
  <2>1. s = FinishNativeChunk(o)
    BY <1>3, <1>11
  <2>2. /\ Tidy(s, p) /\ Adds(o, s, p)
        /\ (o.win.cc = p.cc => Own(o.win)) => NoNack(o, s, p)
    BY <1>4, <1>9, <2>1, FinishTidy
  <2>3. Adds(r, s, p)
    BY <1>4, <2>2 DEF Adds, NewShot
  <2>4. Mine(r, p) => NoNack(r, s, p)
    BY <1>4, <1>8, <2>2 DEF NoNack
  <2> QED
    BY <1>10, <2>2, <2>3, <2>4 DEF s
<1>12. CASE ~Complete(o.win)
  <2>1. s = o
    BY <1>3, <1>12
  <2>2. Adds(r, s, p) /\ NoNack(r, s, p)
    BY <1>4, <2>1 DEF Adds, NoNack
  <2> QED
    BY <1>9, <1>10, <2>1, <2>2 DEF s
<1> QED
  BY <1>11, <1>12

(* What leaves the window, the orphans and what is known alone.            *)
Same(r, s) ==
  /\ s.win = r.win /\ s.orphans = r.orphans /\ s.latched = r.latched
  /\ s.deliveries = r.deliveries

LEMMA SameTidy ==
  ASSUME NEW r, NEW s, Same(r, s), NEW p, Tidy(r, p)
  PROVE  Tidy(s, p) /\ Idle(r, s)
<1>1. \A u, c : Waiting(s, u, c) = Waiting(r, u, c)
  BY DEF Same, Waiting
<1>2. NoneWaiting(s)
  BY <1>1 DEF Same, Tidy, NoneWaiting
<1>3. OwnOnly(s, p)
  BY <1>1 DEF Same, Tidy, OwnOnly, Mine, Known
<1>4. WindowOwn(s, p)
  BY DEF Same, Tidy, WindowOwn
<1> QED
  BY <1>2, <1>3, <1>4 DEF Same, Tidy, Idle

LEMMA MarkerTidy ==
  ASSUME NEW r \in Records, Guarded(r), NEW p, Sending(p), Tidy(r, p), NEW first \in BOOLEAN
  PROVE  LET s == HandleNativeMarker(r, p.uid, p.cc, first)
         IN /\ Tidy(s, p) /\ Adds(r, s, p)
            /\ p.uid \in r.latched => NoNack(r, s, p)
            /\ Waiting(r, p.uid, p.cc) = {} => Idle(r, s)
<1> DEFINE u == p.uid
           cc == p.cc
           s == HandleNativeMarker(r, u, cc, first)
<1>1. /\ u \in Uids /\ u > 0 /\ cc \in 1..Total(u) /\ cc \in Nat
  BY SendingFacts, Sizing
<1>2. CASE u \in r.delivered
  <2> DEFINE R == r.replies \cup Reply("ACK", u, cc, ReAckDelay(r, u, cc), TRUE)
  <2>1. s = [r EXCEPT !.replies = R]
    BY <1>2 DEF HandleNativeMarker
  <2>2. ReAckDelay(r, u, cc) = FramesOf(u, cc) + 1
    BY <1>2 DEF Guarded, ReAckDelay
  <2> HIDE DEF s, R
  <2>3. Same(r, s) /\ s.replies = R
    BY <2>1 DEF Same, Records
  <2>4. ASSUME NEW x \in s.replies, x \notin r.replies
        PROVE  x.kind = "ACK" /\ NewShot(x, r, p)
    <3>1. x.kind = "ACK" /\ x.uid = u /\ x.due = FramesOf(u, cc) + 1
      BY <2>2, <2>3, <2>4 DEF R, Reply
    <3> QED
      BY <3>1, <1>2 DEF NewShot
  <2>5. Adds(r, s, p) /\ NoNack(r, s, p)
    BY <2>4 DEF Adds, NoNack
  <2> QED
    BY <2>3, <2>5, SameTidy DEF s
<1>3. CASE u \notin r.delivered /\ cc \in r.held[u]
  <2> DEFINE x == r.watch \/ (r.win.active /\ r.win.uid = u)
  <2>1. s = [r EXCEPT !.watch = x]
    BY <1>3 DEF HandleNativeMarker
  <2> HIDE DEF s, x
  <2>2. Same(r, s) /\ s.replies = r.replies
    BY <2>1 DEF Same, Records
  <2>3. Adds(r, s, p) /\ NoNack(r, s, p)
    BY <2>2 DEF Adds, NoNack
  <2> QED
    BY <2>2, <2>3, SameTidy DEF s
<1>4. CASE u \notin r.delivered /\ cc \notin r.held[u] /\ ~first /\ u \notin r.latched
  <2>1. s = r
    BY <1>4 DEF HandleNativeMarker
  <2> HIDE DEF s
  <2>2. Same(r, s) /\ Adds(r, s, p) /\ NoNack(r, s, p)
    BY <2>1 DEF Same, Adds, NoNack
  <2> QED
    BY <2>2, SameTidy DEF s
<1>5. CASE u \notin r.delivered /\ cc \notin r.held[u] /\ ~(~first /\ u \notin r.latched)
  <2> DEFINE q == [r EXCEPT !.latched = @ \cup {u}, !.evict = @ \cup {u}]
  <2>1. s = OpenNativeChunkWindow(q, u, cc)
    BY <1>5 DEF HandleNativeMarker
  <2>2. /\ q \in Records /\ q.win = r.win /\ q.orphans = r.orphans /\ q.replies = r.replies
        /\ q.latched = r.latched \cup {u} /\ q.delivered = r.delivered
        /\ q.deliveries = r.deliveries
    BY <1>1 DEF Records
  <2> HIDE DEF q, s
  <2>3. Waiting(q, u, cc) = Waiting(r, u, cc) /\ (Mine(q, p) <=> Mine(r, p))
    BY <2>2 DEF Waiting, Mine
  <2>4. Known(r, p) => Mine(r, p)
    BY <1>1 DEF Tidy, OwnOnly
  <2>5. p.cc > 1 \/ q.deliveries[p.uid] > 0 => Mine(q, p)
    BY <2>2, <2>3, <2>4 DEF Known
  <2>6. /\ Tidy(s, p) /\ Adds(q, s, p)
        /\ Mine(q, p) => NoNack(q, s, p)
        /\ Waiting(q, p.uid, p.cc) = {} => Idle(q, s)
    <3>1. p.uid \in q.latched
      BY <2>2
    <3> QED
      BY <2>1, <2>2, <2>5, <3>1, OpenTidy
  <2>7. Adds(r, s, p)
    BY <2>2, <2>6 DEF Adds, NewShot
  <2>8. p.uid \in r.latched => NoNack(r, s, p)
    BY <2>2, <2>3, <2>4, <2>6 DEF Known, NoNack
  <2>9. Waiting(r, u, cc) = {} => Idle(r, s)
    BY <2>2, <2>3, <2>6 DEF Idle
  <2> QED
    BY <2>6, <2>7, <2>8, <2>9 DEF s
<1> QED
  BY <1>2, <1>3, <1>4, <1>5


LEMMA FrameTidy ==
  ASSUME NEW r \in Records, Guarded(r), NEW p, Sending(p), WindowNow(r, p), Tidy(r, p),
         NEW i \in 0..(FramesOf(p.uid, p.cc) - 1)
  PROVE  LET s == OnNativeFrameReceived(r, Frame(p.uid, p.cc, i))
         IN /\ Tidy(s, p) /\ Adds(r, s, p)
            /\ FramesOf(p.uid, p.cc) = 1 => NoNack(r, s, p)
            /\ /\ p.cc = 1 /\ FramesOf(p.uid, p.cc) > 1
               /\ r.win.active /\ r.win.cc = 1 => r.win.got = {}
               => s.deliveries = r.deliveries
<1> DEFINE f == Frame(p.uid, p.cc, i)
           s == OnNativeFrameReceived(r, f)
           w == r.win
<1>1. /\ p.uid \in Uids /\ p.uid > 0 /\ p.cc \in 1..Total(p.uid) /\ p.cc \in Nat
      /\ FramesOf(p.uid, p.cc) \in Nat
  BY SendingFacts, Sizing
<1>2. f \in Frames /\ f.uid = p.uid /\ f.cc = p.cc /\ f.tag = p.cc % CHK
  <2>1. f \in Frames
    BY <1>1, FrameType
  <2> QED
    BY <2>1 DEF Frame
<1>3. w \in Windows /\ w.cc \in Nat /\ w.cc >= 1 /\ w.uid \in Uids /\ w.cc \in 1..Total(w.uid)
  <2>1. w \in Windows
    BY DEF Records
  <2> QED
    BY <2>1 DEF Windows
<1>4. w.active => w.uid = p.uid /\ w.cc <= p.cc + 1
  BY DEF WindowNow
<1> HIDE DEF f, w
<1>5. CASE w.active /\ Retried(r, f) /\ f.seq = FramesOf(w.uid, w.cc - 1) - 1
  <2> DEFINE R == r.replies \cup Reply("ACK", w.uid, w.cc - 1, 1, FALSE)
  <2>1. s = [r EXCEPT !.watch = TRUE, !.replies = R]
    BY <1>5 DEF OnNativeFrameReceived, w
  <2> HIDE DEF s, R
  <2>2. Same(r, s) /\ s.replies = R
    BY <2>1 DEF Same, Records
  <2>3. ASSUME NEW x \in s.replies, x \notin r.replies PROVE x.kind = "ACK" /\ x.shot = FALSE
    BY <2>2, <2>3 DEF R, Reply
  <2>4. Adds(r, s, p) /\ NoNack(r, s, p)
    BY <2>3 DEF Adds, NoNack
  <2> QED
    BY <2>2, <2>4, SameTidy DEF s, f, Same
<1>6. CASE \/ w.active /\ Retried(r, f) /\ f.seq # FramesOf(w.uid, w.cc - 1) - 1
           \/ w.active /\ ~Retried(r, f) /\ f.tag = w.cc % CHK /\ ~Accepts(w, f)
  <2>1. s = r
    BY <1>6 DEF OnNativeFrameReceived, w
  <2> HIDE DEF s
  <2>2. Same(r, s) /\ Adds(r, s, p) /\ NoNack(r, s, p)
    BY <2>1 DEF Same, Adds, NoNack
  <2> QED
    BY <2>2, SameTidy DEF s, f, Same
<1>7. CASE w.active /\ ~Retried(r, f) /\ f.tag = w.cc % CHK /\ Accepts(w, f)
  <2> DEFINE v == Collect(w, f)
             c == [r EXCEPT !.win = v, !.watch = TRUE]
  <2>1. s = IF Complete(c.win) THEN FinishNativeChunk(c) ELSE c
    BY <1>7 DEF OnNativeFrameReceived, w
  <2>2. /\ v \in Windows /\ v.active /\ v.uid = w.uid /\ v.cc = w.cc
        /\ v.got = {g \in w.got : g.seq # f.seq} \cup {f}
    <3>1. {g \in w.got : g.seq # f.seq} \cup {f} \in SUBSET Frames
      BY <1>2, <1>3 DEF Windows
    <3>2. \A g \in {g \in w.got : g.seq # f.seq} \cup {f} : Accepts(w, g)
      BY <1>3, <1>7 DEF Windows
    <3> QED
      BY <3>1, <3>2, <1>3, <1>7 DEF Windows, Collect, Accepts
  <2>3. w.cc # p.cc + 1
    <3>1. CHK \in Nat /\ CHK > 1
      BY Settings
    <3> QED
      BY <3>1, <1>1, <1>2, <1>7, SameTag
  <2> HIDE DEF v
  <2>4. /\ c \in Records /\ c.win = v /\ c.orphans = r.orphans /\ c.replies = r.replies
        /\ c.latched = r.latched /\ c.delivered = r.delivered /\ c.deliveries = r.deliveries
    BY <2>2 DEF Records
  <2> HIDE DEF c, s
  <2>5. Tidy(c, p)
    <3>1. NoneWaiting(c)
      BY <2>2, <2>4, <1>7 DEF Tidy, NoneWaiting, Waiting, w
    <3>2. OwnOnly(c, p)
      BY <2>4 DEF Tidy, OwnOnly, Mine, Known, Waiting
    <3>3. w.cc = p.cc /\ (p.cc > 1 \/ r.deliveries[p.uid] > 0) => Own(w)
      BY <1>7 DEF Tidy, WindowOwn, w
    <3>4. v.cc = p.cc /\ Own(w) => Own(v)
      BY <2>2, <1>2, <1>4, <1>7 DEF Own
    <3>5. WindowOwn(c, p)
      BY <2>2, <2>4, <3>3, <3>4 DEF WindowOwn
    <3> QED
      BY <3>1, <3>2, <3>5 DEF Tidy
  <2>6. CASE Complete(c.win)
    <3>1. p.uid \in c.latched
      BY <2>4, <1>4, <1>7 DEF Guarded, w
    <3>2. s = FinishNativeChunk(c)
      BY <2>1, <2>6
    <3>3. c.win.active /\ c.win.uid = p.uid
      BY <2>2, <2>4, <1>4, <1>7
    <3>4. /\ Tidy(s, p) /\ Adds(c, s, p)
          /\ (c.win.cc = p.cc => Own(c.win)) => NoNack(c, s, p)
      BY <2>4, <2>5, <3>1, <3>2, <3>3, FinishTidy
    <3>5. Adds(r, s, p)
      BY <2>4, <3>4 DEF Adds, NewShot
    <3>6. ASSUME FramesOf(p.uid, p.cc) = 1, w.cc = p.cc PROVE Own(v)
      <4>1. \A g \in v.got : g.seq \in Nat /\ g.seq < 1
        BY <2>2, <3>6, <1>4, <1>7 DEF Windows, Accepts, Frames
      <4>2. \A g \in v.got : g.seq = f.seq
        BY <4>1, <2>2
      <4>3. v.got = {f}
        BY <4>2, <2>2
      <4> QED
        BY <4>3, <2>2, <3>6, <1>2, <1>4, <1>7 DEF Own
    <3>7. FramesOf(p.uid, p.cc) = 1 => NoNack(r, s, p)
      BY <2>2, <2>4, <3>4, <3>6 DEF NoNack
    <3>8. ASSUME p.cc = 1, FramesOf(p.uid, p.cc) > 1, w.active /\ w.cc = 1 => w.got = {}
          PROVE  FALSE
      <4>1. w.cc = 1
        BY <2>3, <3>8, <1>3, <1>4, <1>7
      <4>2. v.got = {f} /\ v.uid = p.uid /\ v.cc = 1
        BY <4>1, <3>8, <2>2, <1>4, <1>7
      <4>3. 0 \in 0..(FramesOf(p.uid, 1) - 1) /\ 1 \in 0..(FramesOf(p.uid, 1) - 1)
        BY <3>8, <1>1
      <4>4. Complete(v)
        BY <2>4, <2>6
      <4>5. (\E g \in v.got : g.seq = 0) /\ (\E g \in v.got : g.seq = 1)
        BY <4>2, <4>3, <4>4 DEF Complete
      <4> QED
        BY <4>2, <4>5
    <3> QED
      BY <3>4, <3>5, <3>7, <3>8 DEF s, f, w
  <2>7. CASE ~Complete(c.win)
    <3>1. s = c
      BY <2>1, <2>7
    <3>2. Adds(r, s, p) /\ NoNack(r, s, p)
      BY <2>4, <3>1 DEF Adds, NoNack
    <3> QED
      BY <2>4, <2>5, <3>1, <3>2 DEF s, f
  <2> QED
    BY <2>6, <2>7
<1>8. CASE ~(w.active /\ Retried(r, f)) /\ ~(w.active /\ f.tag = w.cc % CHK)
  <2> DEFINE e == [frame |-> f, age |-> 0]
             O == Room(r.orphans) \cup {e}
  <2>1. s = [r EXCEPT !.orphans = O]
    BY <1>8 DEF OnNativeFrameReceived, w
  <2>2. O \subseteq r.orphans \cup {e} /\ e.frame = f
    BY DEF Room
  <2> HIDE DEF O, e, s
  <2>3. /\ s.win = w /\ s.orphans = O /\ s.latched = r.latched /\ s.replies = r.replies
        /\ s.deliveries = r.deliveries
    BY <2>1 DEF Records, w
  <2>4. NoneWaiting(s)
    <3> SUFFICES ASSUME w.active, NEW o \in O PROVE ~Accepts(Window(w.uid, w.cc, FALSE), o.frame)
      BY <2>3 DEF NoneWaiting, Waiting
    <3>1. CASE o \in r.orphans
      BY <3>1 DEF Tidy, NoneWaiting, Waiting, w
    <3>2. CASE o = e
      BY <3>2, <2>2, <1>8 DEF Accepts, Window
    <3> QED
      BY <3>1, <3>2, <2>2
  <2>5. OwnOnly(s, p)
    <3> SUFFICES ASSUME Known(s, p), NEW o \in Waiting(s, p.uid, p.cc)
                 PROVE  o.frame.uid = p.uid /\ o.frame.cc = p.cc
      BY DEF OwnOnly, Mine
    <3>1. CASE o \in r.orphans
      <4>1. o \in Waiting(r, p.uid, p.cc)
        BY <3>1 DEF Waiting
      <4> QED
        BY <4>1, <2>3, <1>1 DEF Tidy, OwnOnly, Mine, Known
    <3>2. CASE o = e
      BY <3>2, <2>2, <1>2
    <3> QED
      BY <3>1, <3>2, <2>2, <2>3 DEF Waiting
  <2>6. WindowOwn(s, p)
    BY <2>3 DEF Tidy, WindowOwn, w
  <2>7. Adds(r, s, p) /\ NoNack(r, s, p)
    BY <2>3 DEF Adds, NoNack
  <2> QED
    BY <2>3, <2>4, <2>5, <2>6, <2>7 DEF Tidy, s, f
<1> QED
  BY <1>5, <1>6, <1>7, <1>8


-----------------------------------------------------------------------------
(* The peer's chunk is the same, and no orphan is new.                     *)
Keeps(r, s) ==
  /\ s.win = r.win /\ s.latched = r.latched /\ s.deliveries = r.deliveries
  /\ \A o \in s.orphans : \E y \in r.orphans : y.frame = o.frame

LEMMA KeptTidy ==
  ASSUME NEW r, NEW s, Keeps(r, s), NEW p, NEW q, q.uid = p.uid, q.cc = p.cc, Tidy(r, p)
  PROVE  /\ Tidy(s, q)
         /\ \A u, c : Waiting(r, u, c) = {} => Waiting(s, u, c) = {}
<1>1. \A u, c : \A o \in Waiting(s, u, c) : \E y \in Waiting(r, u, c) : y.frame = o.frame
  BY DEF Keeps, Waiting
<1>2. \A u, c : Waiting(r, u, c) = {} => Waiting(s, u, c) = {}
  BY <1>1
<1>3. NoneWaiting(s)
  BY <1>2 DEF Keeps, Tidy, NoneWaiting
<1>4. OwnOnly(s, q)
  <2>1. Known(s, q) => Known(r, p)
    BY DEF Keeps, Known
  <2>2. Mine(r, p) => Mine(s, q)
    BY <1>1 DEF Mine
  <2> QED
    BY <2>1, <2>2 DEF Tidy, OwnOnly
<1>5. WindowOwn(s, q)
  BY DEF Keeps, Tidy, WindowOwn
<1> QED
  BY <1>2, <1>3, <1>4, <1>5 DEF Tidy

LEMMA AgedKeeps ==
  ASSUME NEW r, NEW n \in Nat, Safe(r, n)
  PROVE  Keeps(r, Aged(r))
<1> DEFINE s == Aged(r)
<1>1. /\ s.win = r.win /\ s.latched = r.latched /\ s.deliveries = r.deliveries
      /\ s.orphans = {o \in {[y EXCEPT !.age = @ + 1] : y \in r.orphans} : o.age <= OrphanTTL}
  BY AgedSafe
<1>2. r.orphans \subseteq Orphans
  BY DEF Safe, Sound, Records
<1> HIDE DEF s
<1>3. ASSUME NEW o \in s.orphans PROVE \E y \in r.orphans : y.frame = o.frame
  <2>1. PICK y \in r.orphans : o = [y EXCEPT !.age = @ + 1]
    BY <1>1
  <2>2. y \in Orphans
    BY <1>2
  <2>3. o.frame = y.frame
    BY <2>1, <2>2 DEF Orphans
  <2> QED
    BY <2>3
<1>4. Keeps(r, s)
  BY <1>1, <1>3 DEF Keeps
<1> QED
  BY <1>4 DEF s

(* The replies that are left when a slot has passed.                       *)
LEMMA AgedReplies ==
  ASSUME NEW r, NEW n \in Nat, Safe(r, n), NEW z \in Aged(r).replies
  PROVE  \E x \in r.replies : z = Nearer(x) /\ x \in Replies
<1>1. Aged(r).replies = Sooner(r.replies) /\ r.replies \subseteq Replies
  BY AgedSafe DEF Safe, Sound, Records
<1> QED
  BY <1>1 DEF Sooner, Nearer

(* On the next chunk nothing has come yet.                                 *)
LEMMA NextTidy ==
  ASSUME Timely, NEW r \in Records, NEW s, Keeps(r, s), NEW p \in Peers, p.live, p.air = 0,
         p.cc + 1 <= Total(p.uid), Tidy(r, p), WindowNow(r, p), OrphansAge(r, p),
         NEW q, q.uid = p.uid, q.cc = p.cc + 1
  PROVE  Tidy(s, q)
<1> DEFINE t == [p EXCEPT !.wait = ListenSlots]
<1>1. /\ p \in PeerRecords /\ p.uid > 0 /\ p.uid \in Uids /\ p.cc \in Nat /\ p.cc >= 1
      /\ p.cc \in 1..Total(p.uid) /\ p.tries \in 0..Retries /\ p.tries \in Nat
  BY Sizing, Settings DEF Peers, PeerRecords, Uids
<1>2. PeerIs(t, p.uid, p.cc, p.tries, p.air, ListenSlots, p.live)
  <2>1. ListenSlots \in 0..ListenSlots /\ p.air \in Nat
    BY Settings
  <2> QED
    BY <1>1, <2>1, PeerUpdates
<1> HIDE DEF t
<1>3. Sending(t) /\ Spent(t)
  <2>1. 0 <= Burst(p.uid, p.cc, p.tries)
    BY <1>1, BurstType
  <2>2. t \in Peers
    BY <1>1, <1>2, <2>1 DEF PeerIs, Peers
  <2> QED
    BY <1>2, <2>2 DEF PeerIs, Sending, Spent
<1>4. OrphansAge(r, t)
  BY <1>2, Settings DEF PeerIs, OrphansAge, Aired, Elapsed
<1>5. Waiting(r, p.uid, p.cc + 1) = {}
  <2>1. ASSUME NEW o \in r.orphans PROVE ~Accepts(Window(p.uid, p.cc + 1, FALSE), o.frame)
    <3>1. t.cc + 1 <= Total(t.uid) /\ t.uid = p.uid /\ t.cc = p.cc
      BY <1>2 DEF PeerIs
    <3>2. ~Accepts(Window(t.uid, t.cc + 1, FALSE), o.frame)
      BY <1>3, <1>4, <3>1, NoneAhead
    <3> QED
      BY <3>1, <3>2
  <2> QED
    BY <2>1 DEF Waiting
<1>6. /\ Tidy(s, p)
      /\ Waiting(s, p.uid, p.cc + 1) = {}
  BY <1>5, KeptTidy
<1>7. NoneWaiting(s)
  BY <1>6 DEF Tidy
<1>8. OwnOnly(s, q)
  BY <1>6 DEF OwnOnly, Mine
<1>9. WindowOwn(s, q)
  BY <1>1 DEF Keeps, WindowNow, WindowOwn, Own
<1> QED
  BY <1>7, <1>8, <1>9 DEF Tidy


-----------------------------------------------------------------------------
LEMMA InitLands == Init => Landing
<1> SUFFICES ASSUME Init PROVE Landing
  OBVIOUS
<1>1. rx.win.active = FALSE /\ rx.orphans = {} /\ rx.replies = {}
  BY DEF Init, BlankRx, ClosedWindow
<1>2. Tidy(rx, peer)
  BY <1>1 DEF Tidy, NoneWaiting, OwnOnly, Mine, Waiting, WindowOwn
<1> QED
  BY <1>1, <1>2 DEF Landing, Shots, Nacks

LEMMA StartLands ==
  ASSUME Timely, IInv, Synchronous, Landing, SendChunkedBinary
  PROVE  Landing'
<1> DEFINE q == peer'
<1>1. /\ rx \in Records /\ Guarded(rx) /\ peer \in Peers
      /\ Timed(rx, peer, lost) /\ Tidy(rx, peer) /\ Shots(rx, peer)
  BY DEF IInv, Safe, Sound, Synchronous, Landing
<1>2. ~rx.win.active /\ rx' = rx /\ late' = late
  BY DEF SendChunkedBinary, Timely
<1>3. /\ q.uid \in Uids /\ q.uid > peer.uid /\ q.uid \in Nat /\ peer.uid \in Nat /\ q.cc = 1
  <2>1. /\ peer.uid + 1 \in Uids
        /\ PeerIs(q, peer.uid + 1, 1, 0, Burst(peer.uid + 1, 1, 0), ListenSlots, TRUE)
    BY <1>1, PeerStarts
  <2>2. peer.uid \in Nat
    BY <1>1, PeerFacts
  <2> QED
    BY <2>1, <2>2, Sizing DEF PeerIs
<1> HIDE DEF q
<1>4. rx.deliveries[q.uid] = 0
  BY <1>1, <1>3 DEF Timed, Forgotten
<1>5. ~Known(rx, q)
  <2>1. q.uid \notin rx.latched
    BY <1>1, <1>2, <1>4 DEF Timed, Attached, Forgotten
  <2> QED
    BY <1>3, <1>4, <2>1 DEF Known
<1>6. Tidy(rx, q)
  BY <1>2, <1>5 DEF Tidy, NoneWaiting, OwnOnly, WindowOwn
<1>7. ASSUME NEW x \in rx.replies PROVE x.uid # q.uid
  <2>1. x.uid \in Nat /\ x.uid <= peer.uid
    BY <1>1, NearerFields DEF Records, Timed, RepliesNow, InTime
  <2> QED
    BY <1>3, <2>1
<1>8. Shots(rx, q) /\ Nacks(rx, q, late)
  BY <1>1, <1>7 DEF Shots, Nacks, OfChunk
<1> QED
  BY <1>2, <1>6, <1>8 DEF Landing, q

(* A quiet slot: only the replies come nearer.                             *)
LEMMA QuietLands ==
  ASSUME Timely, IInv, Synchronous, Landing, QuietSlot
  PROVE  Landing'
<1> DEFINE p == peer
           q == peer'
           r == Aged(rx)
<1>1. /\ Safe(rx, forgets) /\ forgets \in Nat /\ peer \in Peers /\ late \in Lates
      /\ LateNow(peer, late)
      /\ Tidy(rx, peer) /\ Shots(rx, peer) /\ Nacks(rx, peer, late)
  BY Settings DEF IInv, Synchronous, Landing
<1>2. /\ peer.air = 0 /\ NothingDue /\ NoTextDue /\ rx' = r /\ late' = LateAged
  BY DEF QuietSlot, NothingDue
<1>3. q.uid = p.uid /\ q.cc = p.cc /\ q.air = 0 /\ q.live = p.live
  BY <1>1, PeerWaits DEF PeerIs
<1>4. late'.uid = 0
  BY <1>1, <1>2, LateOver
<1>5. Keeps(rx, r)
  BY <1>1, AgedKeeps
<1>6. Tidy(r, q)
  BY <1>1, <1>3, <1>5, KeptTidy
<1>7. ASSUME NEW z \in r.replies
      PROVE  /\ z.shot => rx.deliveries[z.uid] > 0 /\ q.air <= z.due
             /\ z.shot /\ z.uid = p.uid =>
                  \E y \in rx.replies : y.shot /\ y.uid = p.uid
             /\ z.kind = "NACK" /\ p.live /\ OfChunk(z, p) =>
                  z.due = 0 /\ p.cc = 1 /\ \A y \in rx.replies : y.shot => y.uid # p.uid
  <2>1. PICK x \in rx.replies : z = Nearer(x) /\ x \in Replies
    BY <1>1, <1>7, AgedReplies
  <2>2. /\ z.kind = x.kind /\ z.uid = x.uid /\ z.cc = x.cc /\ z.shot = x.shot
        /\ z.due = x.due - 1 /\ z.due \in Nat /\ x.due \in Nat /\ x.due > 0
    BY <1>2, <2>1, NearerFields DEF NothingDue
  <2>3. z.shot => rx.deliveries[z.uid] > 0 /\ q.air <= z.due
    <3>1. x.shot => rx.deliveries[x.uid] > 0
      BY <1>1, <2>1 DEF Shots
    <3>2. q.air <= z.due
      BY <1>3, <2>2
    <3> QED
      BY <2>2, <3>1, <3>2
  <2>4. z.kind = "NACK" /\ p.live /\ OfChunk(z, p) => Refused(x, rx, p, late)
    BY <1>1, <2>2 DEF Nacks, OfChunk
  <2> QED
    BY <2>2, <2>3, <2>4 DEF Refused
<1>8. r.deliveries = rx.deliveries
  BY <1>5 DEF Keeps
<1> HIDE DEF r, q, p
<1>9. Shots(r, q)
  BY <1>7, <1>8 DEF Shots
<1>10. Nacks(r, q, late')
  <2> SUFFICES ASSUME NEW z \in r.replies, z.kind = "NACK", q.live, OfChunk(z, q)
               PROVE  Refused(z, r, q, late')
    BY DEF Nacks
  <2>1. OfChunk(z, p) /\ p.live
    BY <1>3 DEF OfChunk
  <2>2. z.due = 0 /\ p.cc = 1 /\ \A y \in rx.replies : y.shot => y.uid # p.uid
    BY <1>7, <2>1
  <2>3. \A y \in r.replies : y.shot => y.uid # p.uid
    BY <1>7, <2>2
  <2> QED
    BY <1>3, <1>4, <2>2, <2>3 DEF Refused
<1> QED
  BY <1>2, <1>6, <1>9, <1>10 DEF Landing, r, q


(* No reply is on its way when the peer's patience ends.                   *)
LEMMA ExpiredLands ==
  ASSUME Timely, IInv, Synchronous, Landing, OnAckTimerExpired
  PROVE  Landing'
<1> DEFINE q == peer'
<1>1. /\ rx \in Records /\ peer \in Peers /\ Timed(rx, peer, lost) /\ Tidy(rx, peer)
  BY DEF IInv, Safe, Sound, Synchronous, Landing
<1>2. /\ peer.live /\ peer.air = 0 /\ peer.wait = 0 /\ NothingDue /\ peer' = Again
      /\ rx' = rx /\ late' = late
  BY DEF OnAckTimerExpired
<1>3. q.uid = peer.uid /\ q.cc = peer.cc /\ peer.uid \in Nat
  BY <1>1, <1>2, PeerAgain, PeerFacts DEF PeerIs
<1>4. rx.replies = {}
  <2>1. ASSUME NEW x \in rx.replies PROVE FALSE
    <3>1. x \in Replies /\ x.due > 0 /\ InTime(x, peer) /\ x.due \in Nat /\ x.uid \in Nat
      BY <1>1, <1>2, NearerFields DEF Records, NothingDue, Timed, RepliesNow
    <3> QED
      BY <1>2, <1>3, <3>1 DEF InTime
  <2> QED
    BY <2>1
<1> HIDE DEF q
<1>5. Tidy(rx, q)
  <2>1. Keeps(rx, rx)
    BY DEF Keeps
  <2> QED
    BY <1>1, <1>3, <2>1, KeptTidy
<1> QED
  BY <1>2, <1>4, <1>5 DEF Landing, Shots, Nacks, q

(* The window, the orphans and the replies that remain are as they were.   *)
LEMMA FewerLands ==
  ASSUME NEW r, NEW s, Same(r, s), s.replies \subseteq r.replies, NEW p, NEW l,
         Tidy(r, p), Shots(r, p), Nacks(r, p, l)
  PROVE  Tidy(s, p) /\ Shots(s, p) /\ Nacks(s, p, l)
<1>1. Tidy(s, p)
  BY SameTidy
<1>2. Shots(s, p)
  BY DEF Same, Shots
<1>3. Nacks(s, p, l)
  <2> SUFFICES ASSUME NEW x \in s.replies, x.kind = "NACK", p.live, OfChunk(x, p)
               PROVE  Refused(x, s, p, l)
    BY DEF Nacks
  <2>1. Refused(x, r, p, l)
    BY DEF Nacks
  <2>2. Waiting(s, p.uid, 1) = Waiting(r, p.uid, 1)
    BY DEF Same, Waiting
  <2> QED
    BY <2>1, <2>2 DEF Same, Refused
<1> QED
  BY <1>1, <1>2, <1>3

LEMMA TimerLands ==
  ASSUME IInv, Landing, NativeCollectTimeout
  PROVE  Landing'
<1>1. rx \in Records
  BY DEF IInv, Safe, Sound
<1>2. rx' = [rx EXCEPT !.watch = FALSE] /\ peer' = peer /\ late' = late
  BY DEF NativeCollectTimeout
<1>3. Same(rx, rx') /\ rx'.replies = rx.replies
  BY <1>1, <1>2 DEF Same, Records
<1> QED
  BY <1>2, <1>3, FewerLands DEF Landing

(* The window is closed, and no message is known that was not.             *)
LEMMA ClosedLands ==
  ASSUME NEW r, NEW s, NEW p, NEW l, Tidy(r, p), Shots(r, p), Nacks(r, p, l),
         s.win = r.win \/ ~s.win.active, s.orphans \subseteq r.orphans,
         p.uid \in s.latched => p.uid \in r.latched,
         s.deliveries = r.deliveries, s.replies = r.replies
  PROVE  Tidy(s, p) /\ Shots(s, p) /\ Nacks(s, p, l)
<1>1. \A u, c : Waiting(s, u, c) \subseteq Waiting(r, u, c)
  BY DEF Waiting
<1>2. NoneWaiting(s)
  BY <1>1 DEF Tidy, NoneWaiting
<1>3. OwnOnly(s, p)
  BY <1>1 DEF Tidy, OwnOnly, Mine, Known
<1>4. WindowOwn(s, p) /\ Shots(s, p)
  BY DEF Tidy, WindowOwn, Shots
<1>5. Nacks(s, p, l)
  <2> SUFFICES ASSUME NEW x \in s.replies, x.kind = "NACK", p.live, OfChunk(x, p)
               PROVE  Refused(x, s, p, l)
    BY DEF Nacks
  <2>1. Refused(x, r, p, l)
    BY DEF Nacks
  <2>2. Waiting(r, p.uid, 1) = {} => Waiting(s, p.uid, 1) = {}
    BY <1>1
  <2> QED
    BY <2>1, <2>2 DEF Refused
<1> QED
  BY <1>2, <1>3, <1>4, <1>5 DEF Tidy

LEMMA EvictLands ==
  ASSUME IInv, Landing, NEW u \in Uids, OnAssemblyEvictTimerExpired(u)
  PROVE  Landing'
<1> DEFINE s == Evicted(u)
<1>1. /\ Safe(rx, forgets) /\ forgets \in Nat /\ u \in rx.evict
      /\ rx' = s /\ peer' = peer /\ late' = late
  BY Settings DEF IInv, OnAssemblyEvictTimerExpired
<1>2. /\ s.win = IF rx.win.active /\ rx.win.uid = u THEN ClosedWindow ELSE rx.win
      /\ s.latched = rx.latched \ {u} /\ s.deliveries = rx.deliveries
      /\ s.orphans = rx.orphans /\ s.replies = rx.replies
  BY <1>1, EvictedSafe
<1> HIDE DEF s
<1>3. s.win = rx.win \/ ~s.win.active
  BY <1>2, ClosedSafe
<1>4. Tidy(s, peer) /\ Shots(s, peer) /\ Nacks(s, peer, late)
  <2>1. s.orphans \subseteq rx.orphans /\ (peer.uid \in s.latched => peer.uid \in rx.latched)
    BY <1>2
  <2> QED
    BY <1>2, <1>3, <2>1, ClosedLands DEF Landing
<1> QED
  BY <1>1, <1>4 DEF Landing

LEMMA HaltLands ==
  ASSUME IInv, Landing, HaltAll
  PROVE  Landing'
<1> DEFINE s == Halted
<1>1. /\ Safe(rx, forgets) /\ forgets \in Nat
      /\ rx' = s /\ peer' = peer /\ late' = late
  BY Settings DEF IInv, HaltAll, Halted
<1>2. /\ s.win = ClosedWindow /\ s.latched = {} /\ s.orphans = {}
      /\ s.replies = rx.replies /\ s.deliveries = rx.deliveries
  BY <1>1, HaltedSafe
<1> HIDE DEF s
<1>3. Tidy(s, peer) /\ Shots(s, peer) /\ Nacks(s, peer, late)
  <2>1. /\ ~s.win.active /\ s.orphans \subseteq rx.orphans
        /\ peer.uid \in s.latched => peer.uid \in rx.latched
    BY <1>2, ClosedSafe
  <2> QED
    BY <1>2, <2>1, ClosedLands DEF Landing
<1> QED
  BY <1>1, <1>3 DEF Landing


(* A NACK makes the peer send again only when no re-ACK waits, and an ACK  *)
(* only when the message is not delivered.                                 *)
LEMMA ReplyLands ==
  ASSUME Timely, IInv, Synchronous, Landing, NEW x \in rx.replies, ReplyKeysUp(x)
  PROVE  Landing'
<1> DEFINE r == Keyed(x)
           s == Aged(r)
           p == peer
           q == peer'
<1>1. /\ Safe(rx, forgets) /\ forgets \in Nat /\ rx \in Records
      /\ peer \in Peers /\ late \in Lates
      /\ Timed(rx, peer, lost) /\ LateNow(peer, late)
      /\ Tidy(rx, peer) /\ Shots(rx, peer) /\ Nacks(rx, peer, late)
  BY Settings DEF IInv, Safe, Sound, Synchronous, Landing
<1>2. /\ Safe(r, forgets) /\ x \in Replies /\ Same(rx, r) /\ r.replies \subseteq rx.replies
  BY <1>1, KeyedSafe DEF Same
<1>3. CASE rx' = r /\ UNCHANGED <<late, peer, passed>>
  BY <1>1, <1>2, <1>3, FewerLands DEF Landing
<1>4. CASE /\ peer.live /\ peer.air = 0 /\ x.cc = peer.cc /\ NoTextDue
           /\ rx' = s /\ late' = LateAged
           /\ IF x.kind = "NACK"
              THEN peer' = Again /\ UNCHANGED passed
              ELSE IF peer.cc = Total(peer.uid)
              THEN peer' = [peer EXCEPT !.live = FALSE] /\ passed' = passed \cup {peer.uid}
              ELSE /\ peer' = [peer EXCEPT !.cc = @ + 1, !.tries = 0, !.wait = ListenSlots,
                                           !.air = Burst(peer.uid, peer.cc + 1, 0)]
                   /\ UNCHANGED passed
  <2>1. /\ p.uid \in Uids /\ p.uid \in Nat /\ p.uid > 0 /\ p.cc \in 1..Total(p.uid) /\ p.cc \in Nat
        /\ Total(p.uid) \in Nat
    BY <1>1, <1>4, PeerFacts, Sizing
  <2>2. late'.uid = 0
    BY <1>1, <1>4, LateOver
  <2>3. Keeps(rx, s)
    <3>1. Keeps(r, s)
      BY <1>1, <1>2, AgedKeeps
    <3> QED
      BY <3>1, <1>2 DEF Keeps, Same
  <2>4. ASSUME NEW z \in s.replies
        PROVE  \E y \in rx.replies :
                 /\ z.kind = y.kind /\ z.uid = y.uid /\ z.cc = y.cc /\ z.shot = y.shot
                 /\ z.due = (IF y.due > 0 THEN y.due - 1 ELSE 0) /\ y.due \in Nat
                 /\ InTime(y, p)
    <3>1. PICK y \in r.replies : z = Nearer(y) /\ y \in Replies
      BY <1>1, <1>2, <2>4, AgedReplies
    <3>2. y \in rx.replies
      BY <1>2, <3>1
    <3>3. InTime(y, p)
      BY <1>1, <3>2 DEF Timed, RepliesNow
    <3> QED
      BY <3>1, <3>2, <3>3, NearerFields
  <2> HIDE DEF s, r
  <2>5. \A z \in s.replies : z.shot => s.deliveries[z.uid] > 0
    BY <1>1, <2>3, <2>4 DEF Shots, Keeps
  <2>6. CASE x.kind = "NACK"
    <3>1. q.uid = p.uid /\ q.cc = p.cc
      BY <1>1, <1>4, <2>6, PeerAgain DEF PeerIs
    <3>2. x.uid = p.uid
      <4>1. InTime(x, p) /\ x.uid \in Nat /\ x.due \in Nat
        BY <1>1, <1>2, NearerFields DEF Timed, RepliesNow
      <4> QED
        BY <1>4, <2>1, <4>1 DEF InTime
    <3>3. Refused(x, rx, p, late)
      BY <1>1, <1>4, <2>6, <3>2 DEF Nacks, OfChunk
    <3>4. \A z \in s.replies : z.shot => z.uid # p.uid
      BY <2>4, <3>3 DEF Refused
    <3> HIDE DEF p, q
    <3>5. Tidy(s, q) /\ Shots(s, q)
      BY <1>1, <2>3, <2>5, <3>1, <3>4, KeptTidy DEF Shots, p
    <3>6. Nacks(s, q, late')
      <4> SUFFICES ASSUME NEW z \in s.replies, z.kind = "NACK", OfChunk(z, q)
                   PROVE  Refused(z, s, q, late')
        BY DEF Nacks
      <4>1. PICK y \in rx.replies :
                 /\ z.kind = y.kind /\ z.uid = y.uid /\ z.cc = y.cc
                 /\ z.due = (IF y.due > 0 THEN y.due - 1 ELSE 0) /\ y.due \in Nat
        BY <2>4
      <4>2. Refused(y, rx, p, late)
        BY <1>1, <1>4, <3>1, <4>1 DEF Nacks, OfChunk, p
      <4>3. z.due = 0
        BY <4>1, <4>2 DEF Refused
      <4> QED
        BY <2>2, <3>1, <3>3, <3>4, <4>3 DEF Refused
    <3> QED
      BY <1>4, <3>5, <3>6 DEF Landing, q
  <2>7. CASE x.kind # "NACK" /\ p.cc = Total(p.uid)
    <3>1. q.uid = p.uid /\ q.cc = p.cc /\ q.live = FALSE
      BY <1>1, <1>4, <2>7, PeerGoesOn DEF PeerIs
    <3> HIDE DEF p, q
    <3>2. Tidy(s, q) /\ Shots(s, q) /\ Nacks(s, q, late')
      BY <1>1, <2>3, <2>5, <3>1, KeptTidy DEF Shots, Nacks, p
    <3> QED
      BY <1>4, <3>2 DEF Landing, q
  <2>8. CASE x.kind # "NACK" /\ p.cc # Total(p.uid)
    <3>1. q.uid = p.uid /\ q.cc = p.cc + 1
      BY <1>1, <1>4, <2>8, PeerGoesOn DEF PeerIs
    <3>2. p.cc + 1 <= Total(p.uid)
      BY <2>1, <2>8
    <3>3. Tidy(s, q)
      BY <1>1, <1>4, <2>3, <3>1, <3>2, NextTidy DEF Timed
    <3>4. s.deliveries[p.uid] \in Nat /\ ~(s.deliveries[p.uid] > 0)
      <4>1. rx.deliveries[p.uid] \in Nat
        BY <1>1, <2>1 DEF Records
      <4>2. Forgotten(rx, p)
        BY <1>1 DEF Timed
      <4>3. ~(rx.deliveries[p.uid] > 0)
        BY <2>1, <2>8, <4>2 DEF Forgotten
      <4>4. s.deliveries = rx.deliveries
        BY <2>3 DEF Keeps
      <4> QED
        BY <4>1, <4>3, <4>4
    <3> HIDE DEF p, q
    <3>5. Shots(s, q)
      BY <2>5, <3>1, <3>4 DEF Shots
    <3>6. ASSUME NEW z \in s.replies PROVE ~OfChunk(z, q)
      <4>1. PICK y \in rx.replies : z.uid = y.uid /\ z.cc = y.cc /\ InTime(y, p)
        BY <2>4
      <4>2. y.cc \in Nat
        BY <1>1, NearerFields DEF Records
      <4> QED
        BY <2>1, <3>1, <4>1, <4>2 DEF InTime, OfChunk
    <3>7. Nacks(s, q, late')
      BY <3>6 DEF Nacks
    <3> QED
      BY <1>4, <3>3, <3>5, <3>7 DEF Landing, q
  <2> QED
    BY <2>6, <2>7, <2>8
<1> QED
  BY <1>3, <1>4 DEF ReplyKeysUp


(* A text marker that was late is decoded in the burst that it announced.  *)
LEMMA DecodedLands ==
  ASSUME Timely, IInv, Synchronous, Landing, TextDecoded
  PROVE  Landing'
<1> DEFINE p == peer
           r == rx
           s == rx'
           F == FramesOf(p.uid, p.cc)
<1>1. /\ r \in Records /\ Guarded(r) /\ p \in Peers /\ late \in Lates
      /\ Timed(r, p, lost) /\ LateNow(p, late) /\ Tidy(r, p) /\ Shots(r, p)
      /\ Nacks(r, p, late) /\ Grown(r, s)
  <2>1. Grown(r, s)
    BY DecodedTimed
  <2> QED
    BY <2>1 DEF IInv, Safe, Sound, Synchronous, Landing
<1>2. /\ late.uid # 0 /\ s = OnTextMarker(r, late.uid, late.cc) /\ late'.uid = 0 /\ p' = p
  BY DEF TextDecoded, NotLate
<1>3. /\ Sending(p) /\ late.uid = p.uid /\ late.cc = p.cc
      /\ p.air <= AfterText(p.uid, p.cc, p.tries)
  BY <1>1, <1>2 DEF LateNow, Sending
<1>4. /\ p.uid \in Uids /\ p.uid > 0 /\ p.cc \in 1..Total(p.uid) /\ p.tries \in Nat
      /\ p.air \in Nat /\ p.live
  BY <1>3, SendingFacts, Sizing
<1>5. F \in Nat /\ p.air <= F + 1
  <2>1. /\ F \in Nat /\ AfterText(p.uid, p.cc, p.tries) \in Nat
        /\ AfterText(p.uid, p.cc, p.tries) <= F + 1
    BY <1>4, BurstType
  <2> HIDE DEF F
  <2> QED
    BY <1>3, <1>4, <2>1
<1> HIDE DEF F, p, s, r
<1>6. /\ Tidy(s, p) /\ Adds(r, s, p)
      /\ Waiting(r, p.uid, p.cc) = {} => Idle(r, s)
  <2>1. s = OnTextMarker(r, p.uid, p.cc)
    BY <1>2, <1>3
  <2>2. CASE p.cc = 1 \/ p.uid \in r.latched \cup r.delivered
    <3>1. (p.cc = 1) \in BOOLEAN
      OBVIOUS
    <3> QED
      BY <1>1, <1>3, <2>1, <2>2, <3>1, MarkerTidy DEF OnTextMarker
  <2>3. CASE ~(p.cc = 1 \/ p.uid \in r.latched \cup r.delivered)
    <3>1. s = r
      BY <2>1, <2>3 DEF OnTextMarker
    <3> QED
      BY <1>1, <3>1 DEF Adds, Idle
  <2> QED
    BY <2>2, <2>3
<1>7. \A u \in r.delivered : u \in Uids /\ r.deliveries[u] > 0
  BY <1>1 DEF Timed, Forgotten, Records
<1>8. ASSUME NEW x \in s.replies, x.shot
      PROVE  /\ s.deliveries[x.uid] > 0 /\ (x.uid = p.uid => p.air <= x.due)
             /\ x.uid = p.uid => p.uid \in r.delivered \/ x \in r.replies
  <2>1. CASE x \in r.replies
    <3>1. r.deliveries[x.uid] > 0 /\ (x.uid = p.uid => p.air <= x.due) /\ x.uid \in Uids
      BY <1>1, <1>4, <1>8, <2>1 DEF Shots, Records, Replies
    <3> QED
      BY <1>1, <2>1, <3>1 DEF Grown
  <2>2. CASE x \notin r.replies
    <3>1. NewShot(x, r, p)
      BY <1>6, <1>8, <2>2 DEF Adds
    <3>2. p.uid \in r.delivered /\ x.uid = p.uid /\ x.due = F + 1
      BY <3>1 DEF NewShot, F
    <3> QED
      BY <1>1, <1>4, <1>5, <1>7, <3>2 DEF Grown
  <2> QED
    BY <2>1, <2>2
<1>9. Shots(s, p)
  BY <1>8 DEF Shots
<1>10. ASSUME NEW x \in s.replies, x.kind = "NACK", OfChunk(x, p)
       PROVE  Refused(x, s, p, late')
  <2>1. CASE x \in r.replies
    <3>1. Refused(x, r, p, late)
      BY <1>1, <1>4, <1>10, <2>1 DEF Nacks
    <3>2. /\ p.cc = 1 /\ x.due <= 1 /\ r.deliveries[p.uid] = 0
          /\ \A y \in r.replies : y.shot => y.uid # p.uid
          /\ x.due = 1 =>
               /\ p.air <= FramesOf(p.uid, 1) + 1 /\ Waiting(r, p.uid, 1) = {}
               /\ r.win.active /\ r.win.cc = 1 => r.win.got = {}
      BY <1>2, <3>1 DEF Refused
    <3>3. \A y \in s.replies : y.shot => y.uid # p.uid
      BY <1>7, <1>8, <3>2
    <3>4. ASSUME x.due = 1
          PROVE  /\ s.deliveries[p.uid] = 0 /\ Waiting(s, p.uid, 1) = {}
                 /\ s.win.active /\ s.win.cc = 1 => s.win.got = {}
      <4>1. Idle(r, s)
        BY <1>6, <3>2, <3>4
      <4>2. s.deliveries = r.deliveries /\ s.orphans \subseteq r.orphans
        BY <4>1 DEF Idle
      <4>3. Waiting(s, p.uid, 1) = {}
        BY <3>2, <3>4, <4>2 DEF Waiting
      <4>4. s.win.active /\ s.win.cc = 1 => s.win.got = {}
        BY <3>2, <3>4, <4>1 DEF Idle
      <4> QED
        BY <3>2, <4>2, <4>3, <4>4
    <3> QED
      BY <1>2, <3>2, <3>3, <3>4 DEF Refused
  <2>2. CASE x \notin r.replies
    <3>1. NewNack(x, s, p)
      BY <1>6, <1>10, <2>2 DEF Adds
    <3>2. /\ x.due = 1 /\ p.cc = 1 /\ s.deliveries[p.uid] = 0
          /\ s.win.active /\ s.win.uid = p.uid /\ s.win.cc = 1 /\ s.win.got = {}
      BY <3>1 DEF NewNack
    <3>3. \A y \in s.replies : y.shot => y.uid # p.uid
      BY <1>8, <3>2
    <3>4. Waiting(s, p.uid, 1) = {}
      BY <1>6, <3>2 DEF Tidy, NoneWaiting
    <3> QED
      BY <1>2, <1>5, <3>2, <3>3, <3>4 DEF Refused, F
  <2> QED
    BY <2>1, <2>2
<1>11. Nacks(s, p, late')
  BY <1>10 DEF Nacks
<1> QED
  BY <1>2, <1>6, <1>9, <1>11 DEF Landing, s, p


(* What the receiver does with a frame of the burst, as far as it matters: *)
(* a chunk of one frame is refused at its data only when its marker was    *)
(* missed, and nothing is delivered while nothing has come.                *)
Quiet(r, p) ==
  /\ Waiting(r, p.uid, 1) = {}
  /\ r.win.active /\ r.win.cc = 1 => r.win.got = {}

LEMMA HeardTidy ==
  ASSUME Timely, IInv, Synchronous, Landing, AirSlot, OnAir # "head"
  PROVE  LET r == Aged(rx)
             s == Heard(r)
             q == peer'
             F == FramesOf(q.uid, q.cc)
         IN /\ Tidy(s, q) /\ Adds(r, s, q) /\ q.air <= F + 1
            /\ late.uid = 0 \/ F > 1 \/ NoNack(r, s, q)
            /\ q.cc = 1 /\ F > 1 /\ Quiet(r, q) => s.deliveries = r.deliveries
<1> DEFINE p == peer
           q == peer'
           r == Aged(rx)
           s == Heard(r)
           F == FramesOf(q.uid, q.cc)
           A == AfterText(p.uid, p.cc, p.tries)
<1>1. /\ Safe(rx, forgets) /\ forgets \in Nat /\ peer \in Peers /\ LateNow(peer, late)
      /\ Tidy(rx, peer) /\ Timed(r, q, lost) /\ peer.air > 0
  BY SoundsTimed, Settings DEF IInv, Synchronous, Landing, AirSlot
<1>2. /\ p.uid \in Uids /\ p.cc \in 1..Total(p.uid) /\ p.live /\ p.wait = ListenSlots
      /\ PeerIs(q, p.uid, p.cc, p.tries, p.air - 1, ListenSlots, TRUE) /\ q \in Peers
  BY <1>1, PeerSounds
<1>3. p.air \in Nat /\ p.tries \in Nat /\ p.uid > 0
  BY <1>1, <1>2, PeerFacts, Sizing
<1>4. /\ q.uid = p.uid /\ q.cc = p.cc /\ q.tries = p.tries /\ q.air = p.air - 1 /\ Sending(q)
  BY <1>2 DEF PeerIs, Sending
<1>5. F \in Nat /\ F > 0 /\ A \in Nat /\ F <= A /\ A <= F + 1
  BY <1>2, <1>3, <1>4, BurstType
<1>6. r \in Records /\ Guarded(r)
  BY <1>1, AgedSafe DEF Safe, Sound
<1>7. Tidy(r, q)
  BY <1>1, <1>4, AgedKeeps, KeptTidy
<1>8. WindowNow(r, q)
  BY <1>1 DEF Timed
<1> HIDE DEF p, q, r, F, A
<1>9. /\ Adds(r, r, q) /\ NoNack(r, r, q)
      /\ \A t : Idle(r, t) => t.deliveries = r.deliveries
  BY DEF Adds, NoNack, Idle
<1>10. CASE OnAir = "text"
  <2>1. p.air = A + 1
    BY <1>5, <1>10 DEF OnAir, p, A
  <2>2. q.air <= F + 1 /\ late.uid = 0
    <3>1. late.uid # 0 => p.air <= A
      BY <1>1 DEF LateNow, p, A
    <3> QED
      BY <1>3, <1>4, <1>5, <2>1, <3>1
  <2>3. s = OnTextMarker(r, q.uid, q.cc)
    BY <1>4, <1>10 DEF Heard, p
  <2>4. CASE q.cc = 1 \/ q.uid \in r.latched \cup r.delivered
    <3>1. (q.cc = 1) \in BOOLEAN /\ s = HandleNativeMarker(r, q.uid, q.cc, q.cc = 1)
      BY <2>3, <2>4 DEF OnTextMarker
    <3> HIDE DEF s
    <3>2. Tidy(s, q) /\ Adds(r, s, q) /\ (Waiting(r, q.uid, q.cc) = {} => Idle(r, s))
      BY <1>4, <1>6, <1>7, <3>1, MarkerTidy
    <3> QED
      BY <1>9, <2>2, <3>2 DEF Quiet, q, r, s, F
  <2>5. CASE ~(q.cc = 1 \/ q.uid \in r.latched \cup r.delivered)
    <3>1. s = r
      BY <2>3, <2>5 DEF OnTextMarker
    <3> HIDE DEF s
    <3> QED
      BY <1>7, <1>9, <2>2, <3>1 DEF q, r, s, F
  <2> QED
    BY <2>4, <2>5
<1>11. CASE OnAir = "marker"
  <2>1. p.air <= A + 1 /\ p.air > F
    BY <1>3, <1>4, <1>5, <1>11 DEF OnAir, p, A, F
  <2>2. q.air <= F + 1
    BY <1>3, <1>4, <1>5, <2>1
  <2>3. s = OnMarkerFrame(r, q.uid, q.cc)
    BY <1>4, <1>11 DEF Heard, p
  <2>4. CASE (r.win.active /\ r.win.uid = q.uid) \/ q.uid \in r.latched \cup r.delivered
    <3>1. s = HandleNativeMarker(r, q.uid, q.cc, TRUE) /\ q.uid \in r.latched
      BY <1>6, <2>3, <2>4 DEF OnMarkerFrame, Guarded
    <3> HIDE DEF s
    <3>2. /\ Tidy(s, q) /\ Adds(r, s, q) /\ NoNack(r, s, q)
          /\ Waiting(r, q.uid, q.cc) = {} => Idle(r, s)
      BY <1>4, <1>6, <1>7, <3>1, MarkerTidy
    <3> QED
      BY <1>9, <2>2, <3>2 DEF Quiet, q, r, s, F
  <2>5. CASE ~((r.win.active /\ r.win.uid = q.uid) \/ q.uid \in r.latched \cup r.delivered)
    <3>1. s = r
      BY <2>3, <2>5 DEF OnMarkerFrame
    <3> HIDE DEF s
    <3> QED
      BY <1>7, <1>9, <2>2, <3>1 DEF q, r, s, F
  <2> QED
    BY <2>4, <2>5
<1>12. CASE OnAir # "text" /\ OnAir # "marker"
  <2> DEFINE i == FramesOf(p.uid, p.cc) - p.air
  <2>1. p.air <= F
    BY <1>3, <1>4, <1>5, <1>12 DEF OnAir, p, A, F
  <2>2. i \in 0..(F - 1) /\ q.air <= F + 1
    BY <1>1, <1>3, <1>4, <1>5, <2>1 DEF p, F
  <2> HIDE DEF i
  <2>3. s = OnNativeFrameReceived(r, Frame(q.uid, q.cc, i))
    BY <1>4, <1>12 DEF Heard, i, p
  <2> HIDE DEF s
  <2>4. /\ Tidy(s, q) /\ Adds(r, s, q)
        /\ F = 1 => NoNack(r, s, q)
        /\ q.cc = 1 /\ F > 1 /\ (r.win.active /\ r.win.cc = 1 => r.win.got = {})
             => s.deliveries = r.deliveries
    BY <1>4, <1>6, <1>7, <1>8, <2>2, <2>3, FrameTidy DEF F
  <2>5. F = 1 \/ F > 1
    BY <1>5
  <2> QED
    BY <2>2, <2>4, <2>5 DEF Quiet, q, r, s, F
<1> QED
  BY <1>10, <1>11, <1>12

LEMMA SoundsLands ==
  ASSUME Timely, IInv, Synchronous, Landing, AirSlot
  PROVE  Landing'
<1> DEFINE p == peer
           q == peer'
           r == Aged(rx)
           s == rx'
           l == late'
           F == FramesOf(q.uid, q.cc)
<1>1. /\ Safe(rx, forgets) /\ forgets \in Nat /\ rx \in Records /\ peer \in Peers
      /\ Timed(rx, peer, lost) /\ Tidy(rx, peer) /\ Shots(rx, peer) /\ Nacks(rx, peer, late)
      /\ Grown(rx, s)
  BY SoundsTimed, Settings DEF IInv, Safe, Sound, Synchronous, Landing
<1>2. /\ peer.air > 0 /\ NothingDue
      /\ \/ s = r /\ l = LateAged
         \/ OnAir # "head" /\ s = Heard(r) /\ l = LateAged
         \/ OnAir = "text" /\ s = r
  BY DEF AirSlot
<1>3. /\ p.uid \in Uids /\ p.cc \in 1..Total(p.uid) /\ p.live
      /\ PeerIs(q, p.uid, p.cc, p.tries, p.air - 1, ListenSlots, TRUE) /\ q \in Peers
  BY <1>1, PeerSounds
<1>4. /\ p.air \in Nat /\ p.uid \in Nat /\ p.uid > 0 /\ p.cc \in Nat /\ p.tries \in Nat
  BY <1>1, <1>3, PeerFacts, Sizing
<1>5. q.uid = p.uid /\ q.cc = p.cc /\ q.air = p.air - 1 /\ q.live
  BY <1>3 DEF PeerIs
<1>6. F \in Nat /\ F > 0
  BY <1>3, <1>4, <1>5, BurstType
<1>7. Keeps(rx, r)
  BY <1>1, AgedKeeps
<1>8. Tidy(r, q) /\ (Quiet(rx, p) => Quiet(r, q))
  <2>1. Tidy(r, q) /\ (Waiting(rx, p.uid, 1) = {} => Waiting(r, p.uid, 1) = {})
    BY <1>1, <1>5, <1>7, KeptTidy
  <2>2. r.win = rx.win
    BY <1>7 DEF Keeps
  <2> HIDE DEF r, q, p
  <2> QED
    BY <1>5, <2>1, <2>2 DEF Quiet
(* A marker in the pipeline was there, unless it has come this very slot. *)
<1>9. l.uid # 0 => late.uid # 0 \/ p.air = AfterText(p.uid, p.cc, p.tries) + 1
  <2>1. CASE OnAir = "text"
    <3>1. AfterText(p.uid, p.cc, p.tries) \in Nat
      BY <1>3, <1>4, BurstType
    <3> QED
      BY <1>4, <2>1, <3>1 DEF OnAir
  <2>2. CASE OnAir # "text"
    BY <1>2, <2>2 DEF LateAged
  <2> QED
    BY <2>1, <2>2
<1>10. ASSUME NEW z \in r.replies
       PROVE  \E y \in rx.replies :
                /\ z.kind = y.kind /\ z.uid = y.uid /\ z.cc = y.cc /\ z.shot = y.shot
                /\ z.due = y.due - 1 /\ y.due \in Nat /\ y.due > 0 /\ y.uid \in Uids
  <2>1. PICK y \in rx.replies : z = Nearer(y) /\ y \in Replies
    BY <1>1, <1>10, AgedReplies
  <2>2. y.due > 0 /\ y.uid \in Uids
    BY <1>2, <2>1 DEF NothingDue, Replies
  <2> QED
    BY <2>1, <2>2, NearerFields
<1>11. \A u \in r.delivered : r.deliveries[u] > 0 /\ u \in Uids
  <2>1. r.delivered = rx.delivered /\ r.deliveries = rx.deliveries
    BY <1>1 DEF Aged, Records
  <2> HIDE DEF r
  <2> QED
    BY <1>1, <2>1 DEF Timed, Forgotten, Records
<1>12. /\ Tidy(s, q) /\ Adds(r, s, q) /\ (s = r \/ q.air <= F + 1)
       /\ l.uid # 0 => F > 1 \/ NoNack(r, s, q)
       /\ q.cc = 1 /\ F > 1 /\ Quiet(r, q) => s.deliveries = r.deliveries
  <2>1. CASE s = r
    <3> HIDE DEF s, r, q, l, F
    <3> QED
      BY <1>8, <2>1 DEF Adds, NoNack
  <2>2. CASE OnAir # "head" /\ s = Heard(r) /\ l = LateAged
    <3>1. l.uid # 0 => late.uid # 0
      BY <2>2 DEF LateAged
    <3> HIDE DEF l, s
    <3>2. /\ Tidy(s, q) /\ Adds(r, s, q) /\ q.air <= F + 1
          /\ late.uid = 0 \/ F > 1 \/ NoNack(r, s, q)
          /\ q.cc = 1 /\ F > 1 /\ Quiet(r, q) => s.deliveries = r.deliveries
      BY <2>2, HeardTidy
    <3> QED
      BY <3>1, <3>2
  <2> QED
    BY <1>2, <2>1, <2>2
<1>13. r.deliveries = rx.deliveries
  BY <1>7 DEF Keeps
<1> HIDE DEF p, q, r, s, l, F
<1>14. ASSUME NEW x \in s.replies, x.shot
       PROVE  /\ s.deliveries[x.uid] > 0 /\ (x.uid = q.uid => q.air <= x.due)
              /\ x.uid = q.uid => q.uid \in r.delivered \/ x \in r.replies
  <2>1. CASE x \in r.replies
    <3>1. PICK y \in rx.replies :
               /\ x.uid = y.uid /\ x.shot = y.shot
               /\ x.due = y.due - 1 /\ y.due \in Nat /\ y.uid \in Uids
      BY <1>10, <2>1
    <3>2. y.shot
      BY <1>14, <3>1
    <3>3. rx.deliveries[y.uid] > 0 /\ (y.uid = p.uid => p.air <= y.due)
      BY <1>1, <1>3, <3>1, <3>2 DEF Shots, p
    <3> QED
      BY <1>1, <1>4, <1>5, <2>1, <3>1, <3>3 DEF Grown
  <2>2. CASE x \notin r.replies
    <3>1. NewShot(x, r, q)
      BY <1>12, <1>14, <2>2 DEF Adds
    <3>2. q.uid \in r.delivered /\ x.uid = q.uid /\ x.due = F + 1
      BY <3>1 DEF NewShot, F
    <3>3. s # r
      BY <1>14, <2>2
    <3> QED
      BY <1>1, <1>11, <1>12, <1>13, <3>2, <3>3 DEF Grown
  <2> QED
    BY <2>1, <2>2
<1>15. Shots(s, q)
  BY <1>14 DEF Shots
<1>16. ASSUME NEW x \in s.replies, x.kind = "NACK", OfChunk(x, q)
       PROVE  Refused(x, s, q, l)
  <2>1. CASE x \in r.replies
    <3>1. PICK y \in rx.replies :
               /\ x.kind = y.kind /\ x.uid = y.uid /\ x.cc = y.cc
               /\ x.due = y.due - 1 /\ y.due \in Nat /\ y.due > 0
      BY <1>10, <2>1
    <3>2. Refused(y, rx, p, late)
      BY <1>1, <1>3, <1>5, <1>16, <3>1 DEF Nacks, OfChunk, p
    <3>3. y.due = 1 /\ x.due = 0 /\ p.cc = 1
      BY <3>1, <3>2 DEF Refused
    <3>4. /\ rx.deliveries[p.uid] = 0 /\ p.air <= FramesOf(p.uid, 1) + 1 /\ Quiet(rx, p)
          /\ \A z \in rx.replies : z.shot => z.uid # p.uid
          /\ late.uid # 0 => FramesOf(p.uid, 1) > 1
      BY <3>2, <3>3 DEF Refused, Quiet
    <3>5. \A z \in s.replies : z.shot => z.uid # q.uid
      <4> SUFFICES ASSUME NEW z \in s.replies, z.shot, z.uid = q.uid PROVE FALSE
        OBVIOUS
      <4>1. q.uid \in r.delivered \/ z \in r.replies
        BY <1>14
      <4>2. q.uid \notin r.delivered
        BY <1>5, <1>11, <1>13, <3>4
      <4>3. PICK w \in rx.replies : z.uid = w.uid /\ z.shot = w.shot
        BY <1>10, <4>1, <4>2
      <4> QED
        BY <1>5, <3>4, <4>3
    <3>6. l.uid # 0 => late.uid # 0
      <4>1. AfterText(p.uid, p.cc, p.tries) = FramesOf(p.uid, 1) + 1
        BY <1>3, <1>4, <3>3, BurstType, OneLeft, Settings
      <4>2. FramesOf(p.uid, 1) \in Nat
        BY <1>5, <1>6, <3>3 DEF F
      <4> QED
        BY <1>4, <1>9, <3>4, <4>1, <4>2
    <3>7. l.uid # 0 => F > 1 /\ s.deliveries[q.uid] = 0
      BY <1>5, <1>8, <1>12, <1>13, <3>3, <3>4, <3>6 DEF F
    <3> QED
      BY <1>5, <3>3, <3>5, <3>7 DEF Refused, F
  <2>2. CASE x \notin r.replies
    <3>1. NewNack(x, s, q)
      BY <1>12, <1>16, <2>2 DEF Adds
    <3>2. /\ x.due = 1 /\ q.cc = 1 /\ s.deliveries[q.uid] = 0
          /\ s.win.active /\ s.win.uid = q.uid /\ s.win.cc = 1 /\ s.win.got = {}
      BY <3>1 DEF NewNack
    <3>3. \A y \in s.replies : y.shot => y.uid # q.uid
      BY <1>14, <3>2
    <3>4. Waiting(s, q.uid, 1) = {}
      BY <1>12, <3>2 DEF Tidy, NoneWaiting
    <3>5. q.air <= FramesOf(q.uid, 1) + 1
      BY <1>12, <1>16, <2>2, <3>2 DEF F
    <3>6. l.uid # 0 => FramesOf(q.uid, 1) > 1
      BY <1>12, <1>16, <2>2, <3>2 DEF NoNack, F
    <3> QED
      BY <3>2, <3>3, <3>4, <3>5, <3>6 DEF Refused
  <2> QED
    BY <2>1, <2>2
<1>17. Nacks(s, q, l)
  BY <1>16 DEF Nacks
<1> QED
  BY <1>12, <1>15, <1>17 DEF Landing, q, s, l


LEMMA StepLands ==
  ASSUME Timely, IInv, Synchronous, Landing, [Next]_vars
  PROVE  Landing'
<1>1. CASE SendChunkedBinary
  BY <1>1, StartLands
<1>2. CASE AirSlot
  BY <1>2, SoundsLands
<1>3. CASE TextDecoded
  BY <1>3, DecodedLands
<1>4. CASE QuietSlot
  BY <1>4, QuietLands
<1>5. CASE OnAckTimerExpired
  BY <1>5, ExpiredLands
<1>6. CASE \E x \in rx.replies : ReplyKeysUp(x)
  BY <1>6, ReplyLands
<1>7. CASE NativeCollectTimeout
  BY <1>7, TimerLands
<1>8. CASE \E u \in Uids : OnAssemblyEvictTimerExpired(u)
  BY <1>8, EvictLands
<1>9. CASE HaltAll
  BY <1>9, HaltLands
<1>10. CASE UNCHANGED vars
  BY <1>10 DEF vars, Landing
<1> QED
  BY <1>1, <1>2, <1>3, <1>4, <1>5, <1>6, <1>7, <1>8, <1>9, <1>10 DEF Next

LEMMA LandingAlways ==
  ASSUME Timely
  PROVE  Spec => []Landing
<1>1. Init => Landing
  BY InitLands
<1>2. IInv /\ Synchronous /\ Landing /\ [Next]_vars => Landing'
  BY StepLands
<1> QED
  BY <1>1, <1>2, Inductive, InTimeAlways, PTL DEF Spec

(* A scheduled re-ACK keys up when the burst that it answers is over, and  *)
(* no NACK has made the peer begin another one: the peer hears it, whatever*)
(* is lost, late or halted, as long as the times of the code fit together. *)
THEOREM ReAckIsHeard ==
  ASSUME Timely
  PROVE  Spec => []ReAckLands
<1>1. IInv /\ Landing => ReAckLands
  <2> SUFFICES ASSUME IInv, Landing,
                      NEW x \in rx.replies, x.shot, x.due = 0, peer.live, peer.uid = x.uid
               PROVE  peer.air = 0
    BY DEF ReAckLands
  <2>1. peer.air <= 0
    BY DEF Landing, Shots
  <2>2. peer.air \in Nat
    BY PeerFacts DEF IInv
  <2> QED
    BY <2>1, <2>2
<1> QED
  BY <1>1, Inductive, LandingAlways, PTL

=============================================================================
