---------------------------- MODULE MCArqSender ----------------------------
(* The instances of ArqSender that TLC checks: see the .cfg files. *)
EXTENDS ArqSender

=============================================================================
