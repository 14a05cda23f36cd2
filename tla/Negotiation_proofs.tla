------------------------- MODULE Negotiation_proofs -------------------------
(***************************************************************************)
(* What holds of the negotiation for every set of peers and transfers.     *)
(***************************************************************************)
EXTENDS Negotiation, TLAPS

(* The conjuncts of IInv that have no name of their own. *)
OpenedOnce == callbacks \cap windows = {}

FormLevels == \A t \in Resuming : Kind[t] = "form" => resuming[t] = 2

(***************************************************************************)
(* The invariant holds initially.                                          *)
(***************************************************************************)
LEMMA InitInv == Init => IInv
<1> SUFFICES ASSUME Init PROVE IInv
  OBVIOUS
<1> USE NegotiationAssumption DEF Init
<1>0. 0 \in Levels /\ 0 \in 0..1
  BY DEF Levels
<1>1. TypeOK
  BY <1>0 DEF TypeOK
<1>2. Resuming = {} /\ ~Pending
  BY DEF Resuming, Pending
<1>3. Accounted
  BY DEF Accounted, Places
<1> QED
  BY <1>1, <1>2, <1>3
  DEF IInv, WindowLive, LockHasEnd, Covered, FormsNeverV1, OneAtATime

-----------------------------------------------------------------------------
(* A transfer waits or resumes only if it was asked for, and has not ended.*)
LEMMA WaitingFacts ==
  ASSUME IInv, NEW t \in Transfers
  PROVE  /\ parked = t \/ resuming[t] # 0 => t \in requested /\ ends[t] = 0
         /\ ~(parked = t /\ resuming[t] # 0)
         /\ t \notin requested => ends[t] = 0 /\ parked # t /\ resuming[t] = 0
<1>1. ends[t] \in Nat
  BY DEF IInv, TypeOK
<1>2. Places(t) <= IF t \in requested THEN 1 ELSE 0
  BY DEF IInv, Accounted
<1> QED
  BY <1>1, <1>2 DEF Places

(* What a dispatch changes, whether the transfer begins or is refused.     *)
LEMMA DispatchFacts ==
  ASSUME TypeOK, NEW t \in Transfers, NEW l, Dispatch(t, l)
  PROVE  /\ ends' = [ends EXCEPT ![t] = @ + 1]
         /\ sending' \subseteq Peers
         /\ polling' \in BOOLEAN
         /\ polling => polling'
         /\ sentAs' = sentAs \/ sentAs' = [sentAs EXCEPT ![t] = l]
<1>1. ends' = [ends EXCEPT ![t] = @ + 1]
  BY DEF Dispatch
<1>2. CASE /\ sending' = sending \cup {Peer[t]}
           /\ sentAs' = [sentAs EXCEPT ![t] = l]
           /\ polling' = TRUE
  <2>1. Peer[t] \in Peers
    BY NegotiationAssumption
  <2> QED
    BY <1>1, <1>2, <2>1 DEF TypeOK
<1>3. CASE UNCHANGED <<sending, sentAs, polling>>
  BY <1>1, <1>3 DEF TypeOK
<1> QED
  BY <1>2, <1>3 DEF Dispatch

(* Counting the generation up loses no callback and no window.             *)
LEMMA GenerationFacts ==
  ASSUME TypeOK, gen' = gen + 1
  PROVE  gen' \in Nat /\ callbacks \subseteq 0..gen' /\ windows \subseteq 0..gen'
BY DEF TypeOK

LEMMA QueryFacts ==
  ASSUME TypeOK, OpenedOnce, Query, windows' \subseteq windows
  PROVE  OpenedOnce'
<1>1. \A g \in windows : g # gen + 1
  BY DEF TypeOK
<1> QED
  BY <1>1 DEF OpenedOnce, Query

LEMMA RequestPreserves ==
  ASSUME IInv, NEW t \in Transfers, RequestTransfer(t)
  PROVE  IInv'
<1>o. OpenedOnce'
  <2>1. TypeOK /\ OpenedOnce /\ windows' \subseteq windows
    BY DEF IInv, OpenedOnce, RequestTransfer
  <2>2. CASE callbacks' = callbacks
    BY <2>1, <2>2 DEF OpenedOnce
  <2>3. CASE Query
    BY <2>1, <2>3, QueryFacts
  <2> QED
    BY <2>2, <2>3 DEF RequestTransfer
<1>0. /\ t \notin requested /\ ends[t] = 0 /\ parked # t /\ resuming[t] = 0
      /\ requested' = requested \cup {t}
  BY WaitingFacts DEF RequestTransfer
<1>u. resuming' = resuming /\ strays' = strays /\ windows' = windows
  BY DEF RequestTransfer
<1>r. Resuming' = Resuming /\ Undisturbed' = Undisturbed
  BY <1>u DEF Resuming, Undisturbed
<1>w. Undisturbed => ~negotiating /\ ~Pending /\ Resuming = {}
  BY DEF RequestTransfer, Undisturbed, TxSession, IInv, Covered
<1>q. \A u \in Transfers : resuming[u] \in Levels /\ ends[u] \in Nat /\ sentAs[u] \in Levels
  BY DEF IInv, TypeOK
<1>l. level[Peer[t]] \in 0..2
  BY NegotiationAssumption DEF IInv, TypeOK, Levels
<1>1. CASE level[Peer[t]] # 0 /\ Speaks(t, level[Peer[t]]) /\ Dispatch(t, level[Peer[t]])
           /\ UNCHANGED <<parked, negotiating, gen, retries, callbacks>>
  <2>0. /\ ends' = [ends EXCEPT ![t] = @ + 1]
        /\ sending' \subseteq Peers /\ polling' \in BOOLEAN
        /\ polling => polling'
        /\ sentAs' = sentAs \/ sentAs' = [sentAs EXCEPT ![t] = level[Peer[t]]]
    BY <1>1, DispatchFacts DEF IInv
  <2>1. TypeOK'
    BY <1>0, <1>1, <1>u, <2>0, <1>l DEF IInv, TypeOK, RequestTransfer, Levels
  <2>2. Pending' = Pending
    BY <1>1 DEF Pending
  <2>3. WindowLive' /\ LockHasEnd' /\ Covered' /\ OneAtATime' /\ FormLevels'
    BY <1>1, <1>u, <1>r, <2>0, <2>2
    DEF IInv, WindowLive, LockHasEnd, Covered, OneAtATime, FormLevels
  <2>4. Accounted'
    <3>1. \A u \in Transfers : ends'[u] = IF u = t THEN 1 ELSE ends[u]
      BY <1>0, <2>0 DEF IInv, TypeOK
    <3> QED
      BY <1>0, <1>1, <1>q, <1>r, <1>u, <3>1 DEF IInv, Accounted, Places
  <2>5. FormsNeverV1'
    BY <1>1, <2>0, <1>l DEF IInv, FormsNeverV1, Speaks, TypeOK
  <2> QED
    BY <2>1, <2>3, <2>4, <2>5, <1>o DEF IInv, FormLevels, OpenedOnce
<1>2. CASE GiveUp(t)
           /\ UNCHANGED <<parked, negotiating, gen, retries, callbacks, polling, sending, sentAs>>
  <2>1. TypeOK'
    BY <1>0, <1>2, <1>u, <1>q DEF IInv, TypeOK, RequestTransfer, GiveUp
  <2>2. Pending' = Pending
    BY <1>2 DEF Pending
  <2>3. WindowLive' /\ LockHasEnd' /\ Covered' /\ OneAtATime' /\ FormLevels' /\ FormsNeverV1'
    BY <1>2, <1>u, <1>r, <2>2
    DEF IInv, WindowLive, LockHasEnd, Covered, OneAtATime, FormLevels, FormsNeverV1
  <2>4. Accounted'
    <3>1. \A u \in Transfers : ends'[u] = IF u = t THEN 1 ELSE ends[u]
      BY <1>0, <1>2 DEF IInv, TypeOK, GiveUp
    <3> QED
      BY <1>0, <1>2, <1>q, <1>r, <1>u, <3>1 DEF IInv, Accounted, Places
  <2> QED
    BY <2>1, <2>3, <2>4, <1>o DEF IInv, FormLevels, OpenedOnce
<1>3. CASE /\ parked' = t /\ retries' = 0 /\ negotiating' = TRUE
           /\ Query
           /\ UNCHANGED <<sending, ends, sentAs>>
  <2>1. TypeOK'
    BY <1>0, <1>3, <1>u DEF IInv, TypeOK, RequestTransfer, Query
  <2>2. Pending'
    BY <1>3, NegotiationAssumption DEF Pending
  <2>3. WindowLive' /\ LockHasEnd' /\ Covered' /\ FormsNeverV1' /\ FormLevels'
    BY <1>3, <1>u, <1>r, <2>2
    DEF IInv, WindowLive, LockHasEnd, Covered, FormsNeverV1, FormLevels, Query
  <2>4. OneAtATime'
    BY <1>r, <1>w DEF OneAtATime
  <2>5. Accounted'
    <3>1. Undisturbed => \A u \in Transfers : parked # u
      BY <1>w, NegotiationAssumption DEF Pending
    <3> QED
      BY <1>0, <1>3, <1>q, <1>r, <1>u, <3>1 DEF IInv, Accounted, Places
  <2> QED
    BY <2>1, <2>3, <2>4, <2>5, <1>o DEF IInv, FormLevels, OpenedOnce
<1> QED
  BY <1>1, <1>2, <1>3 DEF RequestTransfer

LEMMA ResumePreserves ==
  ASSUME IInv, NEW t \in Transfers, ResumeFires(t)
  PROVE  IInv'
<1>o. OpenedOnce'
  BY DEF IInv, OpenedOnce, ResumeFires
<1> DEFINE l == IF Kind[t] = "link" THEN level[Peer[t]] ELSE resuming[t]
<1>0. /\ t \in Resuming /\ t \in requested /\ ends[t] = 0 /\ parked # t
      /\ resuming' = [resuming EXCEPT ![t] = 0]
  BY WaitingFacts DEF ResumeFires, Resuming
<1>q. \A u \in Transfers : resuming[u] \in Levels /\ ends[u] \in Nat /\ sentAs[u] \in Levels
  BY DEF IInv, TypeOK
<1>l. l \in Levels /\ (Kind[t] = "form" => l = 2)
  BY <1>0, <1>q, NegotiationAssumption DEF IInv, TypeOK, FormLevels
<1>1. /\ ends' = [ends EXCEPT ![t] = @ + 1]
      /\ sending' \subseteq Peers /\ polling' \in BOOLEAN
      /\ polling => polling'
      /\ sentAs' = sentAs \/ sentAs' = [sentAs EXCEPT ![t] = l]
  BY DispatchFacts DEF ResumeFires, IInv
<1>2. /\ parked' = parked /\ gen' = gen /\ callbacks' = callbacks /\ windows' = windows
      /\ requested' = requested /\ strays' = strays /\ ~negotiating'
      /\ retries' = retries /\ level' = level /\ menu' = menu
  BY DEF ResumeFires
<1>3. Pending' = Pending /\ Undisturbed' = Undisturbed /\ Resuming' = Resuming \ {t}
  BY <1>0, <1>2 DEF Pending, Undisturbed, Resuming, IInv, TypeOK
<1>4. TypeOK'
  <2>1. /\ resuming' \in [Transfers -> Levels] /\ ends' \in [Transfers -> Nat]
        /\ sentAs' \in [Transfers -> Levels]
    BY <1>0, <1>1, <1>l DEF IInv, TypeOK, Levels
  <2>2. negotiating' \in BOOLEAN
    BY DEF ResumeFires
  <2> QED
    BY <1>1, <1>2, <2>1, <2>2 DEF IInv, TypeOK
<1>5. WindowLive' /\ LockHasEnd'
  BY <1>1, <1>2, <1>3 DEF IInv, WindowLive, LockHasEnd
<1>6. Covered' /\ OneAtATime'
  BY <1>0, <1>3 DEF IInv, Covered, OneAtATime
<1>7. FormLevels' /\ FormsNeverV1'
  BY <1>0, <1>1, <1>3, <1>l DEF IInv, FormLevels, FormsNeverV1, TypeOK, Resuming
<1>8. Accounted'
  <2>1. \A u \in Transfers : /\ ends'[u] = IF u = t THEN 1 ELSE ends[u]
                             /\ resuming'[u] = IF u = t THEN 0 ELSE resuming[u]
    BY <1>0, <1>1 DEF IInv, TypeOK
  <2> QED
    BY <1>0, <1>2, <1>3, <1>q, <2>1 DEF IInv, Accounted, Places, Resuming
<1> QED
  BY <1>4, <1>5, <1>6, <1>7, <1>8, <1>o DEF IInv, FormLevels, OpenedOnce

LEMMA PollPreserves ==
  ASSUME IInv, NEW S \in SUBSET callbacks, PollTick(S)
  PROVE  IInv'
<1>o. OpenedOnce'
  BY DEF IInv, OpenedOnce, PollTick
<1>1. /\ parked' = parked /\ negotiating' = negotiating /\ gen' = gen
      /\ resuming' = resuming /\ strays' = strays /\ requested' = requested
      /\ ends' = ends /\ sentAs' = sentAs /\ retries' = retries
      /\ level' = level /\ sending' = sending /\ menu' = menu
  BY DEF PollTick
<1>2. Pending' = Pending /\ Undisturbed' = Undisturbed /\ Resuming' = Resuming
  BY <1>1 DEF Pending, Undisturbed, Resuming
<1>3. TypeOK'
  BY <1>1 DEF IInv, TypeOK, PollTick, StillAwaiting
<1>4. WindowLive'
  BY <1>1, <1>2 DEF IInv, WindowLive, PollTick, StillAwaiting
<1>5. LockHasEnd' /\ Covered' /\ OneAtATime' /\ FormLevels' /\ FormsNeverV1'
  BY <1>1, <1>2 DEF IInv, LockHasEnd, Covered, OneAtATime, FormLevels, FormsNeverV1
<1>6. Accounted'
  BY <1>1, <1>2 DEF IInv, Accounted, Places
<1> QED
  BY <1>3, <1>4, <1>5, <1>6, <1>o DEF IInv, FormLevels, OpenedOnce

(***************************************************************************)
(* The window's timeout, on its own or cut short by a YES without digits.  *)
(***************************************************************************)
LEMMA TimeoutPreserves ==
  ASSUME IInv, NEW g, OnCapQueryTimeout(g),
         windows' \subseteq windows,
         g # gen => (gen \in windows => gen \in windows'),
         (Pending /\ g = gen) \/ windows' = windows \ {g},
         UNCHANGED <<resuming, level, sending, menu, requested, sentAs, strays>>
  PROVE  IInv'
<1>o. OpenedOnce'
  <2>1. TypeOK /\ OpenedOnce
    BY DEF IInv, OpenedOnce
  <2>2. CASE callbacks' = callbacks
    BY <2>1, <2>2 DEF OpenedOnce
  <2>3. CASE Query
    BY <2>1, <2>3, QueryFacts
  <2> QED
    BY <2>2, <2>3 DEF OnCapQueryTimeout
<1>0. Undisturbed' = Undisturbed /\ Resuming' = Resuming
  BY DEF Undisturbed, Resuming
<1>q. \A u \in Transfers : resuming[u] \in Levels /\ ends[u] \in Nat
  BY DEF IInv, TypeOK
<1>1. CASE ~Current(g)
           /\ UNCHANGED <<parked, negotiating, gen, retries, callbacks, polling, ends>>
  <2>1. Pending' = Pending
    BY <1>1 DEF Pending
  <2>2. TypeOK'
    BY <1>1 DEF IInv, TypeOK
  <2>3. WindowLive'
    BY <1>1, <2>1 DEF IInv, WindowLive, Current
  <2>4. LockHasEnd' /\ Covered' /\ OneAtATime' /\ FormLevels' /\ FormsNeverV1' /\ Accounted'
    BY <1>0, <1>1, <2>1
    DEF IInv, LockHasEnd, Covered, OneAtATime, FormLevels, FormsNeverV1, Accounted, Places
  <2> QED
    BY <2>2, <2>3, <2>4, <1>o DEF IInv, FormLevels, OpenedOnce
<1>2. CASE /\ Current(g) /\ OneRetry
           /\ retries' = retries + 1
           /\ Query
           /\ UNCHANGED <<parked, negotiating, ends>>
  <2>1. Pending' = Pending
    BY <1>2 DEF Pending
  <2>2. TypeOK'
    BY <1>2 DEF IInv, TypeOK, Query, OneRetry
  <2>3. WindowLive'
    BY <1>2 DEF WindowLive, Query
  <2>4. LockHasEnd' /\ Covered' /\ OneAtATime' /\ FormLevels' /\ FormsNeverV1' /\ Accounted'
    BY <1>0, <1>2, <2>1
    DEF IInv, LockHasEnd, Covered, OneAtATime, FormLevels, FormsNeverV1, Accounted, Places
  <2> QED
    BY <2>2, <2>3, <2>4, <1>o DEF IInv, FormLevels, OpenedOnce
<1>3. CASE /\ Current(g) /\ ~OneRetry
           /\ GiveUp(parked) /\ Take
           /\ negotiating' = FALSE
           /\ UNCHANGED <<retries, callbacks, polling>>
  <2>0. parked \in Transfers /\ parked' = NoTransfer /\ ends[parked] = 0
        /\ parked \in requested /\ resuming[parked] = 0
    <3>1. parked \in Transfers
      BY <1>3 DEF Current, Pending, IInv, TypeOK
    <3> QED
      BY <1>3, <3>1, WaitingFacts DEF Take
  <2>1. ~Pending'
    BY <2>0 DEF Pending
  <2>2. TypeOK'
    <3>1. ends' \in [Transfers -> Nat]
      <4>1. ends' = [ends EXCEPT ![parked] = ends[parked] + 1]
        BY <1>3 DEF GiveUp
      <4>2. ends \in [Transfers -> Nat]
        BY DEF IInv, TypeOK
      <4> QED
        BY <2>0, <4>1, <4>2
    <3>2. gen' \in Nat /\ callbacks \subseteq 0..gen' /\ windows \subseteq 0..gen'
      <4>1. gen' = gen + 1 /\ TypeOK
        BY <1>3 DEF IInv, Take
      <4> QED
        BY <4>1, GenerationFacts
    <3> QED
      BY <1>3, <2>0, <3>1, <3>2 DEF IInv, TypeOK
  <2>3. Undisturbed => Resuming = {}
    BY <1>3 DEF Current, IInv, OneAtATime
  <2>4. WindowLive' /\ LockHasEnd' /\ Covered' /\ OneAtATime' /\ FormLevels' /\ FormsNeverV1'
    BY <1>0, <1>3, <2>1, <2>3
    DEF IInv, WindowLive, LockHasEnd, Covered, OneAtATime, FormLevels, FormsNeverV1
  <2>5. Accounted'
    <3>1. \A u \in Transfers : /\ ends'[u] = IF u = parked THEN 1 ELSE ends[u]
                               /\ parked' # u
      BY <1>3, <2>0, NegotiationAssumption DEF IInv, TypeOK, GiveUp
    <3> QED
      BY <1>0, <1>q, <2>0, <3>1 DEF IInv, Accounted, Places
  <2> QED
    BY <2>2, <2>4, <2>5, <1>o DEF IInv, FormLevels, OpenedOnce
<1> QED
  BY <1>1, <1>2, <1>3 DEF OnCapQueryTimeout

LEMMA YesPreserves ==
  ASSUME IInv, NEW p \in Peers, NEW l \in Levels \ {0}, NEW toMe \in BOOLEAN,
         HearYes(p, l, toMe)
  PROVE  IInv'
<1>o. OpenedOnce'
  BY DEF IInv, OpenedOnce, HearYes
<1>u. /\ windows' = windows /\ callbacks' = callbacks /\ polling' = polling
      /\ requested' = requested /\ strays' = strays /\ sentAs' = sentAs
      /\ sending' = sending /\ menu' = menu /\ retries' = retries
      /\ level' = [level EXCEPT ![p] = l]
  BY DEF HearYes
<1>0. Undisturbed' = Undisturbed
  BY <1>u DEF Undisturbed
<1>q. \A u \in Transfers : resuming[u] \in Levels /\ ends[u] \in Nat
  BY DEF IInv, TypeOK
<1>1. CASE UNCHANGED <<parked, negotiating, gen, resuming, ends>>
  <2>1. Pending' = Pending /\ Resuming' = Resuming
    BY <1>1 DEF Pending, Resuming
  <2>2. TypeOK'
    BY <1>1, <1>u DEF IInv, TypeOK
  <2>3. WindowLive' /\ LockHasEnd' /\ Covered' /\ OneAtATime' /\ FormLevels' /\ FormsNeverV1'
    BY <1>0, <1>1, <1>u, <2>1
    DEF IInv, WindowLive, LockHasEnd, Covered, OneAtATime, FormLevels, FormsNeverV1
  <2>4. Accounted'
    BY <1>0, <1>1, <1>u DEF IInv, Accounted, Places
  <2> QED
    BY <2>2, <2>3, <2>4, <1>o DEF IInv, FormLevels, OpenedOnce
<1>2. CASE Pending /\ Answered(parked, l)
  <2>0. /\ parked \in Transfers /\ ends[parked] = 0 /\ parked \in requested
        /\ resuming[parked] = 0 /\ parked' = NoTransfer /\ gen' = gen + 1
    <3>1. parked \in Transfers
      BY <1>2 DEF Pending, IInv, TypeOK
    <3> QED
      BY <1>2, <3>1, WaitingFacts DEF Answered, Take
  <2>1. ~Pending'
    BY <2>0 DEF Pending
  <2>2. Undisturbed => Resuming = {} /\ negotiating
    BY <1>2 DEF IInv, OneAtATime, Covered
  <2>3. WindowLive'
    BY <2>1 DEF WindowLive
  <2>4. \A u \in Transfers : parked' # u
    BY <2>0, NegotiationAssumption
  <2>5. CASE Speaks(parked, l)
    <3>1. resuming' = [resuming EXCEPT ![parked] = l] /\ negotiating' = negotiating /\ ends' = ends
      BY <1>2, <2>5 DEF Answered
    <3>2. \A u \in Transfers : resuming'[u] = IF u = parked THEN l ELSE resuming[u]
      BY <3>1 DEF IInv, TypeOK
    <3>3. Resuming' = Resuming \cup {parked}
      BY <2>0, <3>2 DEF Resuming
    <3>4. TypeOK'
      BY <1>u, <2>0, <3>1 DEF IInv, TypeOK
    <3>5. LockHasEnd' /\ Covered' /\ OneAtATime' /\ FormsNeverV1'
      BY <1>0, <1>u, <2>1, <2>2, <3>1, <3>3
      DEF IInv, LockHasEnd, Covered, OneAtATime, FormsNeverV1
    <3>6. FormLevels'
      BY <2>5, <3>2, <3>3, <2>0 DEF IInv, FormLevels, Speaks, Levels, Resuming
    <3>7. Accounted'
      BY <1>0, <1>u, <1>q, <2>0, <2>4, <3>1, <3>2 DEF IInv, Accounted, Places
    <3> QED
      BY <2>3, <3>4, <3>5, <3>6, <3>7, <1>o DEF IInv, FormLevels, OpenedOnce
  <2>6. CASE ~Speaks(parked, l)
    <3>1. resuming' = resuming /\ ~negotiating' /\ GiveUp(parked) /\ negotiating' \in BOOLEAN
      BY <1>2, <2>6 DEF Answered
    <3>2. Resuming' = Resuming
      BY <3>1 DEF Resuming
    <3>3. \A u \in Transfers : ends'[u] = IF u = parked THEN 1 ELSE ends[u]
      BY <2>0, <3>1 DEF IInv, TypeOK, GiveUp
    <3>4. TypeOK'
      BY <1>u, <2>0, <3>1 DEF IInv, TypeOK, GiveUp
    <3>5. LockHasEnd' /\ Covered' /\ OneAtATime' /\ FormsNeverV1' /\ FormLevels'
      BY <1>0, <1>u, <2>1, <2>2, <3>1, <3>2
      DEF IInv, LockHasEnd, Covered, OneAtATime, FormsNeverV1, FormLevels
    <3>6. Accounted'
      BY <1>0, <1>u, <1>q, <2>0, <2>4, <3>1, <3>3 DEF IInv, Accounted, Places
    <3> QED
      BY <2>3, <3>4, <3>5, <3>6, <1>o DEF IInv, FormLevels, OpenedOnce
  <2> QED
    BY <2>5, <2>6
<1> QED
  BY <1>1, <1>2 DEF HearYes

(***************************************************************************)
(* Steps that leave the negotiation alone: they never stop the poll.       *)
(***************************************************************************)
LEMMA OthersPreserve ==
  ASSUME IInv,
         UNCHANGED <<parked, negotiating, gen, retries, callbacks, windows,
                     resuming, level, requested, ends, sentAs, strays>>,
         sending' \subseteq Peers, polling' \in BOOLEAN, menu' \in BOOLEAN,
         polling => polling'
  PROVE  IInv'
<1>o. OpenedOnce'
  BY DEF IInv, OpenedOnce
<1>1. Pending' = Pending /\ Undisturbed' = Undisturbed /\ Resuming' = Resuming
  BY DEF Pending, Undisturbed, Resuming
<1>2. TypeOK'
  BY DEF IInv, TypeOK
<1>3. WindowLive' /\ LockHasEnd' /\ Covered' /\ OneAtATime' /\ FormLevels' /\ FormsNeverV1'
  BY <1>1 DEF IInv, WindowLive, LockHasEnd, Covered, OneAtATime, FormLevels, FormsNeverV1
<1>4. Accounted'
  BY <1>1 DEF IInv, Accounted, Places
<1> QED
  BY <1>2, <1>3, <1>4, <1>o DEF IInv, FormLevels, OpenedOnce

(***************************************************************************)
(* A Halt or a new callsign: what resumes becomes a stray.                 *)
(***************************************************************************)
LEMMA AbortPreserves ==
  ASSUME IInv, Abort, strays' = strays \cup Resuming,
         sending' \subseteq Peers, polling' \in BOOLEAN,
         UNCHANGED <<retries, callbacks, windows, resuming, level, menu, requested, sentAs>>
  PROVE  IInv'
<1>o. OpenedOnce'
  BY DEF IInv, OpenedOnce
<1>1. Resuming' = Resuming /\ ~Pending' /\ parked' = NoTransfer
  BY DEF Abort, Resuming, Pending
<1>2. Undisturbed' => Undisturbed /\ Resuming = {}
  BY DEF Undisturbed
<1>3. \A u \in Transfers : parked' # u /\ resuming[u] \in Levels /\ ends[u] \in Nat
  BY <1>1, NegotiationAssumption DEF IInv, TypeOK
<1>4. TypeOK'
  <2>1. ends' \in [Transfers -> Nat] /\ strays' \subseteq Transfers
    <3>1. ends \in [Transfers -> Nat] /\ strays \subseteq Transfers
      BY DEF IInv, TypeOK
    <3>2. CASE Pending
      <4>1. parked \in Transfers /\ ends' = [ends EXCEPT ![parked] = ends[parked] + 1]
        BY <3>2 DEF Abort, Pending, IInv, TypeOK
      <4> QED
        BY <3>1, <4>1 DEF Resuming
    <3>3. CASE ~Pending
      BY <3>1, <3>3 DEF Abort, Resuming
    <3> QED
      BY <3>2, <3>3
  <2>2. gen' \in Nat /\ callbacks \subseteq 0..gen' /\ windows \subseteq 0..gen'
    <3>1. TypeOK
      BY DEF IInv
    <3>2. CASE gen' = gen + 1
      BY <3>1, <3>2, GenerationFacts
    <3>3. CASE gen' = gen
      BY <3>1, <3>3 DEF TypeOK
    <3> QED
      BY <3>2, <3>3 DEF Abort
  <2>3. negotiating' \in BOOLEAN
    BY DEF Abort
  <2> QED
    BY <1>1, <2>1, <2>2, <2>3 DEF IInv, TypeOK
<1>5. WindowLive' /\ LockHasEnd' /\ Covered' /\ OneAtATime' /\ FormLevels' /\ FormsNeverV1'
  BY <1>1, <1>2
  DEF IInv, Abort, WindowLive, LockHasEnd, Covered, OneAtATime, FormLevels, FormsNeverV1
<1>6. \A u \in Transfers : ends'[u] = IF parked = u THEN 1 ELSE ends[u]
  <2>1. CASE Pending
    <3>1. parked \in Transfers
      BY <2>1 DEF Pending, IInv, TypeOK
    <3>2. ends[parked] = 0 /\ ends' = [ends EXCEPT ![parked] = @ + 1]
      BY <2>1, <3>1, WaitingFacts DEF Abort
    <3> QED
      BY <3>1, <3>2 DEF IInv, TypeOK
  <2>2. CASE ~Pending
    BY <2>2, NegotiationAssumption DEF Pending, Abort
  <2> QED
    BY <2>1, <2>2
<1>7. Accounted'
  BY <1>2, <1>3, <1>6, WaitingFacts DEF IInv, Accounted, Places
<1> QED
  BY <1>4, <1>5, <1>7, <1>o DEF IInv, FormLevels, OpenedOnce

-----------------------------------------------------------------------------
LEMMA StutterPreserves == ASSUME IInv, UNCHANGED vars PROVE IInv'
<1>1. /\ UNCHANGED <<parked, negotiating, gen, retries, callbacks, windows,
                     resuming, level, requested, ends, sentAs, strays>>
      /\ polling' = polling /\ sending' = sending /\ menu' = menu
  BY DEF vars
<1> QED
  BY <1>1, OthersPreserve DEF IInv, TypeOK

(* Every step of the negotiation preserves the invariant. *)
THEOREM StepPreserves == IInv /\ [Next]_vars => IInv'
<1> SUFFICES ASSUME IInv, [Next]_vars PROVE IInv'
  OBVIOUS
<1>1. ASSUME NEW t \in Transfers, RequestTransfer(t) PROVE IInv'
  BY <1>1, RequestPreserves
<1>2. ASSUME NEW t \in Transfers, ResumeFires(t) PROVE IInv'
  BY <1>2, ResumePreserves
<1>3. ASSUME NEW S \in SUBSET callbacks, PollTick(S) PROVE IInv'
  BY <1>3, PollPreserves
<1>4. ASSUME NEW g \in windows, WindowExpires(g) PROVE IInv'
  <2>1. /\ OnCapQueryTimeout(g) /\ windows' = windows \ {g}
        /\ UNCHANGED <<resuming, level, sending, menu, requested, sentAs, strays>>
    BY <1>4 DEF WindowExpires
  <2> QED
    BY <2>1, TimeoutPreserves
<1>5. ASSUME NEW p \in Peers, NEW l \in Levels \ {0}, NEW toMe \in BOOLEAN,
             HearYes(p, l, toMe)
      PROVE  IInv'
  BY <1>5, YesPreserves
<1>6. ASSUME HearBareYes PROVE IInv'
  <2>1. /\ OnCapQueryTimeout(gen) /\ windows' = windows /\ Pending
        /\ UNCHANGED <<resuming, level, sending, menu, requested, sentAs, strays>>
    BY <1>6 DEF HearBareYes
  <2> QED
    BY <2>1, TimeoutPreserves
<1>7. ASSUME NEW p \in Peers, OtherSend(p) PROVE IInv'
  BY <1>7, OthersPreserve DEF OtherSend, IInv, TypeOK
<1>8. ASSUME NEW p \in Peers, SendEnds(p) PROVE IInv'
  BY <1>8, OthersPreserve DEF SendEnds, IInv, TypeOK
<1>9. ASSUME NextChunk PROVE IInv'
  BY <1>9, OthersPreserve DEF NextChunk, IInv, TypeOK
<1>10. ASSUME UpdateTextDisplay \/ UpdateTxButtonDisplay PROVE IInv'
  BY <1>10, OthersPreserve DEF UpdateTextDisplay, UpdateTxButtonDisplay, TxSession, IInv, TypeOK
<1>11. ASSUME HaltAll PROVE IInv'
  BY <1>11, AbortPreserves DEF HaltAll, HaltSessions
<1>12. ASSUME CallsignChange PROVE IInv'
  BY <1>12, AbortPreserves DEF CallsignChange, HaltSessions, IInv, TypeOK
<1>13. CASE UNCHANGED vars
  BY <1>13, StutterPreserves
<1> QED
  BY <1>1, <1>2, <1>3, <1>4, <1>5, <1>6, <1>7, <1>8, <1>9, <1>10, <1>11, <1>12, <1>13 DEF Next

(* The invariant holds in every behaviour. *)
THEOREM Invariance == Spec => []IInv
<1> QED
  BY InitInv, StepPreserves, PTL DEF Spec

(* Every variable of the negotiation keeps its type. *)
THEOREM TypeCorrect == Spec => []TypeOK
<1>1. IInv => TypeOK
  BY DEF IInv
<1> QED
  BY <1>1, Invariance, PTL

(* A parked transfer always has a clock that will end its wait, whatever   *)
(* windows, callbacks and halts of earlier attempts are about.             *)
THEOREM AlwaysTimed == Spec => []WindowLive
<1>1. IInv => WindowLive
  BY DEF IInv
<1> QED
  BY <1>1, Invariance, PTL

(* The controls are locked only for a transfer that is waiting or about to *)
(* start: the phase always has its end.                                    *)
THEOREM LockPaired == Spec => []LockHasEnd
<1>1. IInv => LockHasEnd
  BY DEF IInv
<1> QED
  BY <1>1, Invariance, PTL

(* And, until something outlives a Halt, they are locked whenever there is *)
(* one: no second transfer is let in beside it.                            *)
THEOREM LockCovers == Spec => []Covered
<1>1. IInv => Covered
  BY DEF IInv
<1> QED
  BY <1>1, Invariance, PTL

(* No transfer is started or reported twice, and none is lost while the    *)
(* operator waits for his turn.                                            *)
THEOREM TransfersAccounted == Spec => []Accounted
<1>1. IInv => Accounted
  BY DEF IInv
<1> QED
  BY <1>1, Invariance, PTL

(* A transfer is given up for want of an answer only when the window of    *)
(* its latest query has run out.                                           *)
THEOREM LastQueryHeardOut == Spec => WaitsForLastQuery
<1>1. IInv /\ [Next]_vars
        => [Pending /\ parked' = NoTransfer /\ windows' # windows
              => gen \notin callbacks /\ gen \notin windows']_vars
  <2> SUFFICES ASSUME IInv, Next, Pending, parked' = NoTransfer, windows' # windows
               PROVE  gen \notin callbacks /\ gen \notin windows'
    BY DEF vars
  <2>1. ASSUME NEW g \in windows, WindowExpires(g)
        PROVE  gen \notin callbacks /\ gen \notin windows'
    <3>1. parked # NoTransfer
      BY DEF Pending
    <3>2. g = gen
      BY <2>1, <3>1 DEF WindowExpires, OnCapQueryTimeout, Current
    <3> QED
      BY <2>1, <3>2 DEF WindowExpires, IInv
  <2>2. ASSUME NEW S \in SUBSET callbacks, PollTick(S) PROVE FALSE
    BY <2>2 DEF PollTick, Pending
  <2> QED
    BY <2>1, <2>2
    DEF Next, RequestTransfer, ResumeFires, HearYes, HearBareYes, OtherSend, SendEnds,
        NextChunk, UpdateTextDisplay, UpdateTxButtonDisplay, HaltAll, CallsignChange
<1> QED
  BY <1>1, Invariance, PTL DEF Spec, WaitsForLastQuery

(* No form goes out in the V1 format. *)
THEOREM FormsKeepFormat == Spec => []FormsNeverV1
<1>1. IInv => FormsNeverV1
  BY DEF IInv
<1> QED
  BY <1>1, Invariance, PTL

=============================================================================
