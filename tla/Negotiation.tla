---------------------------- MODULE Negotiation ----------------------------
(***************************************************************************)
(* Capability negotiation: what happens to a file, a web link or a form    *)
(* between the operator's Send and the first chunk.  The peer's ARQ level  *)
(* is asked for with QUERY ARQ?, the transfer waits (it is "parked"), and  *)
(* an answer, two silences or a Halt take it out again.  Three clocks run  *)
(* against each other: the callback that opens the reply window once the   *)
(* query is off the air, the window itself, and the 1.5 s between the      *)
(* answer and the start of the transfer.                                   *)
(*                                                                         *)
(* The transmit queue that carries the query is left out (OutgoingBox has  *)
(* it): whether the transmit path is idle is open, and the poll's safety   *)
(* cap serves every callback in the end.                                   *)
(***************************************************************************)
EXTENDS Naturals, FiniteSets

CONSTANTS
  Peers,
  Transfers,     \* what the operator may ask for, each at most once
  Peer,          \* the peer of a transfer
  Kind,          \* its kind
  NoTransfer,
  OperatorWaits  \* TRUE: nothing is asked for during a transmit session

ASSUME NegotiationAssumption ==
  /\ Peer \in [Transfers -> Peers]
  /\ Kind \in [Transfers -> {"file", "link", "form"}]
  /\ NoTransfer \notin Transfers
  /\ OperatorWaits \in BOOLEAN

VARIABLES
  parked,       \* m_pendingFilePath, m_pendingLinkUrl and their companions
  negotiating,  \* m_negotiating
  gen,          \* m_capQueryGen
  retries,      \* m_capQueryRetries
  callbacks,    \* m_txIdleCallbacks, by the generation each one carries
  polling,      \* m_txIdlePollTimer is active
  windows,      \* reply windows that run, by generation
  resuming,     \* the level a transfer resumes with while its 1.5 s run, or 0
  level,        \* m_peerArqLevel; 0: not cached
  sending,      \* the peers in m_sends
  menu,         \* "Send file" is enabled
  requested,    \* history: what was asked for
  ends,         \* history: how often a transfer came to an end before ARQ
  sentAs,       \* history: the level a transfer was dispatched with, or 0
  strays        \* history: what was resuming at a Halt or a callsign change

vars == <<parked, negotiating, gen, retries, callbacks, polling, windows,
          resuming, level, sending, menu, requested, ends, sentAs, strays>>

(* What is known of a peer, by what the code tells apart: nothing (0), an  *)
(* answer below 2 (1; YES 0 is handled as YES 1), an answer of 2 or more   *)
(* (2; higher ones choose a wire format).                                  *)
Levels == 0..2
Resuming == {t \in Transfers : resuming[t] # 0}
TxSession == sending # {} \/ negotiating
Pending == parked # NoTransfer

Init ==
  /\ parked = NoTransfer
  /\ negotiating = FALSE
  /\ gen = 0
  /\ retries = 0
  /\ callbacks = {}
  /\ polling = FALSE
  /\ windows = {}
  /\ resuming = [t \in Transfers |-> 0]
  /\ level = [p \in Peers |-> 0]
  /\ sending = {}
  /\ menu = TRUE
  /\ requested = {}
  /\ ends = [t \in Transfers |-> 0]
  /\ sentAs = [t \in Transfers |-> 0]
  /\ strays = {}

-----------------------------------------------------------------------------
(* Mutant: a callback is queued, but nothing polls for it. *)
QueryWithoutPoll ==
  /\ gen' = gen + 1
  /\ callbacks' = callbacks \cup {gen + 1}
  /\ UNCHANGED polling

(* Mutant: the retry keeps the generation of the attempt before it. *)
QuerySameGeneration ==
  /\ gen' = gen
  /\ callbacks' = callbacks \cup {gen}
  /\ polling' = TRUE

(* The query goes into the transmit queue; armCapQueryTimeout. *)
Query ==
  /\ gen' = gen + 1
  /\ callbacks' = callbacks \cup {gen + 1}
  /\ polling' = TRUE

(* Mutant: a form goes to any peer that speaks ARQ. *)
AnyPeer(t, l) == TRUE

(* A form is never sent in the V1 format. *)
Speaks(t, l) == Kind[t] = "form" => l >= 2

(***************************************************************************)
(* startFileTransferWithFormat and sendWebLink down to sendChunked: the    *)
(* transfer begins, or is refused (file, size, a session with this peer).  *)
(***************************************************************************)
Dispatch(t, l) ==
  /\ ends' = [ends EXCEPT ![t] = @ + 1]
  /\ \/ /\ Peer[t] \notin sending
        /\ sending' = sending \cup {Peer[t]}
        /\ sentAs' = [sentAs EXCEPT ![t] = l]
        /\ polling' = TRUE
     \/ UNCHANGED <<sending, sentAs, polling>>

(* notifyFormTransferAborted, notifyNegotiationNoReply *)
GiveUp(t) == ends' = [ends EXCEPT ![t] = @ + 1]

(* takeCapabilityNegotiation *)
Take ==
  /\ parked' = NoTransfer
  /\ gen' = gen + 1

(***************************************************************************)
(* startFileTransferViaArq, sendWebLink: a known peer is sent to at once,  *)
(* an unknown one is asked.                                                *)
(***************************************************************************)
RequestTransfer(t) ==
  /\ t \notin requested
  /\ menu
  /\ OperatorWaits => ~TxSession
  /\ requested' = requested \cup {t}
  /\ LET l == level[Peer[t]] IN
     \/ /\ l # 0 /\ Speaks(t, l)
        /\ Dispatch(t, l)
        /\ UNCHANGED <<parked, negotiating, gen, retries, callbacks>>
     \/ /\ l # 0 /\ ~Speaks(t, l)
        /\ GiveUp(t)
        /\ UNCHANGED <<parked, negotiating, gen, retries, callbacks, polling,
                       sending, sentAs>>
     \/ /\ l = 0
        /\ parked' = t
        /\ retries' = 0
        /\ negotiating' = TRUE
        /\ Query
        /\ UNCHANGED <<sending, ends, sentAs>>
  /\ UNCHANGED <<windows, resuming, level, menu, strays>>

-----------------------------------------------------------------------------
(* Mutant: the poll stops once it has served somebody. *)
StopAfterServing(left, awaiting) == awaiting

(* anyStillAwaiting of onTxIdlePollTick *)
StillAwaiting(left, awaiting) == left # {} \/ awaiting

(***************************************************************************)
(* onTxIdlePollTick: the callbacks in S are served, all of them when the   *)
(* transmit path is idle, else those past the cap; each opens its window.  *)
(***************************************************************************)
PollTick(S) ==
  /\ polling
  /\ callbacks' = callbacks \ S
  /\ windows' = windows \cup S
  /\ \E awaiting \in IF sending = {} THEN {FALSE} ELSE BOOLEAN :
        polling' = StillAwaiting(callbacks \ S, awaiting)
  /\ UNCHANGED <<parked, negotiating, gen, retries, resuming, level, sending,
                 menu, requested, ends, sentAs, strays>>

(* Mutant: any window decides, also one of an attempt that is over. *)
AnyAttempt(g) == Pending

(* The generation guard of onCapQueryTimeout. *)
Current(g) == g = gen /\ Pending

(* Mutant: one retry too many. *)
TwoRetries == retries <= 1

OneRetry == retries < 1

(* onCapQueryTimeout(g): one retry, then the transfer is given up. *)
OnCapQueryTimeout(g) ==
  \/ /\ ~Current(g)
     /\ UNCHANGED <<parked, negotiating, gen, retries, callbacks, polling, ends>>
  \/ /\ Current(g) /\ OneRetry
     /\ retries' = retries + 1
     /\ Query
     /\ UNCHANGED <<parked, negotiating, ends>>
  \/ /\ Current(g) /\ ~OneRetry
     /\ GiveUp(parked)
     /\ Take
     /\ negotiating' = FALSE
     /\ UNCHANGED <<retries, callbacks, polling>>

WindowExpires(g) ==
  /\ g \in windows
  /\ windows' = windows \ {g}
  /\ OnCapQueryTimeout(g)
  /\ UNCHANGED <<resuming, level, sending, menu, requested, sentAs, strays>>

(* Mutant: the phase of a refused form is left open. *)
AnsweredKeepsPhase(t, l) ==
  /\ Take
  /\ IF Speaks(t, l)
     THEN /\ resuming' = [resuming EXCEPT ![t] = l]
          /\ UNCHANGED <<negotiating, ends>>
     ELSE /\ GiveUp(t)
          /\ UNCHANGED <<negotiating, resuming>>

(* Mutant: the answer resumes the transfer and leaves it parked. *)
AnsweredTwice(t, l) ==
  /\ IF Speaks(t, l)
     THEN /\ resuming' = [resuming EXCEPT ![t] = l]
          /\ UNCHANGED <<parked, gen, negotiating, ends>>
     ELSE /\ GiveUp(t) /\ Take
          /\ negotiating' = FALSE
          /\ UNCHANGED resuming

(* Mutant: the phase is not held open across the 1.5 s. *)
AnsweredEndsPhase(t, l) ==
  /\ Take
  /\ negotiating' = FALSE
  /\ IF Speaks(t, l)
     THEN resuming' = [resuming EXCEPT ![t] = l] /\ UNCHANGED ends
     ELSE GiveUp(t) /\ UNCHANGED resuming

(* The parked transfer has its answer. *)
Answered(t, l) ==
  /\ Take
  /\ IF Speaks(t, l)
     THEN /\ resuming' = [resuming EXCEPT ![t] = l]
          /\ UNCHANGED <<negotiating, ends>>
     ELSE /\ GiveUp(t)
          /\ negotiating' = FALSE
          /\ UNCHANGED resuming

(* processDirectedCommand, YES with digits, to us or overheard: whatever   *)
(* the digits say, the peer is known from now on.                          *)
HearYes(p, l, toMe) ==
  /\ level' = [level EXCEPT ![p] = l]
  /\ IF toMe /\ Pending /\ p = Peer[parked]
     THEN Answered(parked, l)
     ELSE UNCHANGED <<parked, negotiating, gen, resuming, ends>>
  /\ UNCHANGED <<retries, callbacks, polling, windows, sending, menu,
                 requested, sentAs, strays>>

(* YES whose digits were lost: the window is cut short. *)
HearBareYes ==
  /\ Pending
  /\ OnCapQueryTimeout(gen)
  /\ UNCHANGED <<windows, resuming, level, sending, menu, requested, sentAs,
                 strays>>

(***************************************************************************)
(* The single shot of 1.5 s: the transfer begins and the phase ends.  A    *)
(* link reads the level again.                                             *)
(***************************************************************************)
ResumeFires(t) ==
  /\ resuming[t] # 0
  /\ resuming' = [resuming EXCEPT ![t] = 0]
  /\ Dispatch(t, IF Kind[t] = "link" THEN level[Peer[t]] ELSE resuming[t])
  /\ negotiating' = FALSE
  /\ UNCHANGED <<parked, gen, retries, callbacks, windows, level, menu,
                 requested, strays>>

-----------------------------------------------------------------------------
(* A send that needs no negotiation: Send, or TX.SEND_CHUNKED. *)
OtherSend(p) ==
  /\ p \notin sending
  /\ sending' = sending \cup {p}
  /\ polling' = TRUE
  /\ UNCHANGED <<parked, negotiating, gen, retries, callbacks, windows,
                 resuming, level, menu, requested, ends, sentAs, strays>>

(* A session puts its next chunk into the box. *)
NextChunk ==
  /\ sending # {} /\ ~polling
  /\ polling' = TRUE
  /\ UNCHANGED <<parked, negotiating, gen, retries, callbacks, windows, resuming,
                 level, sending, menu, requested, ends, sentAs, strays>>

(* A session completes or fails. *)
SendEnds(p) ==
  /\ p \in sending
  /\ sending' = sending \ {p}
  /\ UNCHANGED <<parked, negotiating, gen, retries, callbacks, polling, windows,
                 resuming, level, menu, requested, ends, sentAs, strays>>

(* updateTextDisplay, every second: nothing to pick during a session, nor  *)
(* while the transmit path is busy.                                        *)
UpdateTextDisplay ==
  /\ \E busy \in BOOLEAN : menu' = ~(busy \/ TxSession)
  /\ UNCHANGED <<parked, negotiating, gen, retries, callbacks, polling, windows,
                 resuming, level, sending, requested, ends, sentAs, strays>>

(* updateTxButtonDisplay, after each edit: does not ask for the session. *)
UpdateTxButtonDisplay ==
  /\ \E busy \in BOOLEAN : menu' = ~busy
  /\ UNCHANGED <<parked, negotiating, gen, retries, callbacks, polling, windows,
                 resuming, level, sending, requested, ends, sentAs, strays>>

(* abortCapabilityNegotiation *)
Abort ==
  /\ parked' = NoTransfer
  /\ gen' = IF Pending THEN gen + 1 ELSE gen
  /\ ends' = IF Pending THEN [ends EXCEPT ![parked] = @ + 1] ELSE ends
  /\ negotiating' = FALSE

(* Manager::haltAll; m_txIdleCallbacks and the single shots are left.  *)
HaltSessions ==
  /\ sending' = {}
  /\ polling' = FALSE

(* haltAll of the window: Halt, TX switched off, a band change. *)
HaltAll ==
  /\ HaltSessions
  /\ Abort
  /\ strays' = strays \cup Resuming
  /\ UNCHANGED <<retries, callbacks, windows, resuming, level, menu, requested, sentAs>>

(* A new callsign: sessions halt if there is one, in either direction. *)
CallsignChange ==
  /\ \/ HaltSessions
     \/ sending = {} /\ UNCHANGED <<sending, polling>>
  /\ Abort
  /\ strays' = strays \cup Resuming
  /\ UNCHANGED <<retries, callbacks, windows, resuming, level, menu, requested, sentAs>>

Next ==
  \/ \E t \in Transfers : RequestTransfer(t) \/ ResumeFires(t)
  \/ \E S \in SUBSET callbacks : PollTick(S)
  \/ \E g \in windows : WindowExpires(g)
  \/ \E p \in Peers, l \in Levels \ {0}, toMe \in BOOLEAN : HearYes(p, l, toMe)
  \/ HearBareYes
  \/ \E p \in Peers : OtherSend(p) \/ SendEnds(p)
  \/ NextChunk
  \/ UpdateTextDisplay
  \/ UpdateTxButtonDisplay
  \/ HaltAll
  \/ CallsignChange

Spec == Init /\ [][Next]_vars

(***************************************************************************)
(* Timers run out, and the poll serves every callback: its safety cap does *)
(* not wait for the transmit path.  Generations are counted up twice at    *)
(* the most while a transfer waits, and once when it is taken out.         *)
(***************************************************************************)
Gens == 1..(3 * Cardinality(Transfers))

PollServes(g) == \E S \in SUBSET callbacks : g \in S /\ PollTick(S)

Fairness ==
  /\ \A g \in Gens : WF_vars(PollServes(g)) /\ WF_vars(WindowExpires(g))
  /\ \A t \in Transfers : WF_vars(ResumeFires(t))

FairSpec == Spec /\ Fairness
-----------------------------------------------------------------------------
TypeOK ==
  /\ parked \in Transfers \cup {NoTransfer}
  /\ negotiating \in BOOLEAN
  /\ gen \in Nat
  /\ retries \in 0..1
  /\ callbacks \subseteq 0..gen
  /\ polling \in BOOLEAN
  /\ windows \subseteq 0..gen
  /\ resuming \in [Transfers -> Levels]
  /\ level \in [Peers -> Levels]
  /\ sending \subseteq Peers
  /\ menu \in BOOLEAN
  /\ requested \subseteq Transfers
  /\ ends \in [Transfers -> Nat]
  /\ sentAs \in [Transfers -> Levels]
  /\ strays \subseteq Transfers

(* While a transfer is parked something is going to end its wait: the      *)
(* window of the current attempt runs, or the callback that opens it is    *)
(* queued and polled for.  Windows and callbacks of earlier attempts, and  *)
(* the poll that a Halt or somebody else's session stops, do not count.    *)
WindowLive ==
  Pending => \/ gen \in windows
             \/ gen \in callbacks /\ polling

(* The session phase that locks the controls has an end: it is open only   *)
(* while a transfer is parked or about to resume.                          *)
LockHasEnd == negotiating => Pending \/ Resuming # {}

(* The other way round, the controls are locked from Send until the        *)
(* transfer starts, also during the 1.5 s after the answer.  A single shot *)
(* that outlived a Halt or a callsign change ends the phase of whatever    *)
(* negotiates then, so nothing is claimed after one.                       *)
Undisturbed == OperatorWaits /\ strays = {}

Covered == Undisturbed => (Pending \/ Resuming # {} => negotiating)

(* A transfer is in one place or has come to one end: no answer, window or *)
(* Halt ends it twice, and none is lost while nobody overwrites it.        *)
Places(t) ==
  ends[t] + (IF parked = t THEN 1 ELSE 0) + (IF resuming[t] # 0 THEN 1 ELSE 0)

Accounted ==
  \A t \in Transfers :
     /\ Places(t) <= IF t \in requested THEN 1 ELSE 0
     /\ Undisturbed /\ t \in requested => Places(t) = 1

(* No form reaches a peer in the format that cannot carry it, whichever of *)
(* the two gates (cached level, answer) it passed.                         *)
FormsNeverV1 == \A t \in Transfers : Kind[t] = "form" => sentAs[t] # 1

(* A transfer is given up only when the window of its latest query has run *)
(* out: a window of an earlier query, or one opened for a transfer that is *)
(* over, does not decide while that query is still queued or on the air.   *)
WaitsForLastQuery ==
  [][Pending /\ parked' = NoTransfer /\ windows' # windows
       => gen \notin callbacks /\ gen \notin windows']_vars

(* Every transfer the operator asked for begins or is reported: neither    *)
(* lost answers, retries and stale windows nor other sessions keep it      *)
(* waiting for ever.                                                       *)
EveryTransferEnds ==
  \A t \in Transfers : t \in requested ~> ends[t] > 0 \/ ~Undisturbed

(***************************************************************************)
(* The inductive invariant: a transfer waits, or is about to resume, and   *)
(* never two of them while nothing disturbs it; the window of an attempt   *)
(* is opened once; a form that resumes has its level.                      *)
(***************************************************************************)
OneAtATime ==
  Undisturbed => \A t, u \in Resuming : t = u /\ ~Pending

IInv ==
  /\ TypeOK /\ WindowLive /\ LockHasEnd /\ Covered /\ Accounted /\ FormsNeverV1
  /\ OneAtATime
  /\ callbacks \cap windows = {}
  /\ \A t \in Resuming : Kind[t] = "form" => resuming[t] = 2

(* A transfer that a Halt or a new callsign stopped is not started after   *)
(* it: "An antenna must not be energized again after the operator switched *)
(* TX off" (haltAllOperator), "Halt also aborts a file transfer waiting on *)
(* the capability query" (haltAll).                                        *)
HaltStaysHalted ==
  [][\A t \in strays : sentAs'[t] = sentAs[t]]_vars

=============================================================================
