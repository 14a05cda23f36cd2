--------------------------- MODULE MCOutgoingBox ---------------------------
(* The instances of OutgoingBox that TLC checks. *)
EXTENDS OutgoingBox, TLC

CONSTANTS draft, forward, answer, beacon, Ack

(* A forward is sent at once; an answer waits for the AUTO button. *)
FramesOf == [t \in Texts |-> IF t \in {draft, forward} THEN 2 ELSE 1]
PriorityOf == [m \in Messages |->
                 CASE m = forward -> 1000 [] m = answer -> 100 [] m = beacon -> 11]

(* The heap of the queue neither drops nor repeats a message, whatever the *)
(* comparison says: up to six messages of three priorities.                *)
Elements(h) == {h[i] : i \in DOMAIN h}
Filled(p) ==
  LET f[i \in 0..Len(p)] ==
        IF i = 0 THEN <<>> ELSE Push(f[i - 1], [priority |-> p[i], date |-> i])
  IN f[Len(p)]

ASSUME HeapKeepsMessages ==
  \A n \in 1..6 : \A p \in [1..n -> 1..3] :
     LET h == Filled(p) IN
     /\ Elements(h) = {[priority |-> p[i], date |-> i] : i \in 1..n}
     /\ Len(Pop(h)) = n - 1 /\ Elements(Pop(h)) = Elements(h) \ {h[1]}

=============================================================================
