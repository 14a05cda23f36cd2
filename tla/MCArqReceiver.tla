--------------------------- MODULE MCArqReceiver ---------------------------
(* The instances of ArqReceiver that TLC checks. *)
EXTENDS ArqReceiver

(* Two multi-part messages; the longer one comes first. *)
TwoLong == {[uid |-> 1, id |-> 1, total |-> 3], [uid |-> 2, id |-> 2, total |-> 2]}

=============================================================================
