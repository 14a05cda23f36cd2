-------------------------- MODULE ReliableMessages --------------------------
(***************************************************************************)
(* What chunked ARQ promises its user, without chunks, timers or radio:    *)
(* messages are accepted one after the other, each gets one terminal       *)
(* report, "complete" is only reported for a message that was delivered,   *)
(* and deliveries happen in the order of acceptance, once for every time   *)
(* the receiver's memory was lost at most.  A message reported as failed   *)
(* may have been delivered: the sender cannot know (sendComplete,          *)
(* sendFailed and messageDelivered in JS8_Main/ChunkedArq.h).              *)
(***************************************************************************)
EXTENDS Naturals, Sequences

CONSTANTS Failures  \* the reasons of sendFailed

VARIABLES
  accepted,    \* messages accepted so far; a message is named 1..accepted
  reports,     \* the terminal reports made for every message
  deliveries,  \* how often every message was delivered
  forgets      \* how often the receiver lost its memory

vars == <<accepted, reports, deliveries, forgets>>

Messages == DOMAIN reports

Init ==
  /\ accepted = 0
  /\ forgets = 0
  /\ \A u \in Messages : reports[u] = <<>> /\ deliveries[u] = 0

Reported(u) == reports[u] # <<>>

(* The sender takes a message on when it has reported every earlier one. *)
Accept ==
  /\ accepted + 1 \in Messages
  /\ \A u \in 1..accepted : Reported(u)
  /\ accepted' = accepted + 1
  /\ UNCHANGED <<reports, deliveries, forgets>>

Report(u, r) ==
  /\ u \in 1..accepted
  /\ ~Reported(u)
  /\ r = "complete" => deliveries[u] > 0
  /\ reports' = [reports EXCEPT ![u] = <<r>>]
  /\ UNCHANGED <<accepted, deliveries, forgets>>

Deliver(u) ==
  /\ u \in 1..accepted
  /\ deliveries[u] <= forgets
  /\ \A v \in Messages : v > u => deliveries[v] = 0
  /\ deliveries' = [deliveries EXCEPT ![u] = @ + 1]
  /\ UNCHANGED <<accepted, reports, forgets>>

Forget ==
  /\ forgets' = forgets + 1
  /\ UNCHANGED <<accepted, reports, deliveries>>

Next ==
  \/ Accept
  \/ \E u \in Messages, r \in Failures \cup {"complete"} : Report(u, r)
  \/ \E u \in Messages : Deliver(u)
  \/ Forget

Spec == Init /\ [][Next]_vars

=============================================================================
