------------------------------ MODULE ArqWire ------------------------------
(***************************************************************************)
(* The numbers chunked ARQ puts on the air (JS8_Main/ChunkedArq.h): the    *)
(* chunk id an ACK or a NACK can carry, which wraps, and the message ids,  *)
(* which wrap too.  Every module of the ARQ family extends this one.       *)
(***************************************************************************)
EXTENDS Naturals

CONSTANTS
  ACK_SEQ_MODULUS,  \* chunk ids an ACK can tell apart: 31 in the code
  MSG_ID_MAX        \* last message id before the wrap: 99 in the code

ASSUME WireAssumption ==
  /\ ACK_SEQ_MODULUS \in Nat \ {0}
  /\ MSG_ID_MAX \in Nat \ {0}

MSG_ID_MIN == 1

MsgIds == MSG_ID_MIN..MSG_ID_MAX

WireSeqs == 1..ACK_SEQ_MODULUS

(* Mutant: the offset of the 1-based chunk id forgotten. *)
AckWireSeqZeroBased(absSeq) == absSeq % ACK_SEQ_MODULUS

(* The 1-based chunk id as the numeric extra of a directed frame. *)
AckWireSeq(absSeq) == ((absSeq - 1) % ACK_SEQ_MODULUS) + 1

(* Mutant: the wrap comes one id late. *)
BumpMsgIdWrapsLate(id) == IF id > MSG_ID_MAX THEN MSG_ID_MIN ELSE id + 1

(* The message id after `id': the counter wraps to MSG_ID_MIN. *)
BumpMsgId(id) == IF id + 1 > MSG_ID_MAX THEN MSG_ID_MIN ELSE id + 1

(* The id a new process starts from, given what the settings file holds. *)
RestoredMsgId(stored) == IF stored \in MsgIds THEN stored ELSE MSG_ID_MIN

=============================================================================
