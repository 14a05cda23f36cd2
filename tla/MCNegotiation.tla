--------------------------- MODULE MCNegotiation ---------------------------
(* The instances of Negotiation that TLC checks. *)
EXTENDS Negotiation, TLC

CONSTANTS a, b, t1, t2

(* A link and a form for one peer; the other only ever has chunk sends. *)
PeerOf == (t1 :> a) @@ (t2 :> a)
KindOf == (t1 :> "link") @@ (t2 :> "form")

=============================================================================
