----------------------------- MODULE MCArqLink -----------------------------
(* The instances of ArqLink that TLC checks: see the .cfg files. *)
EXTENDS ArqLink

=============================================================================
