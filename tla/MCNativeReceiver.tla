-------------------------- MODULE MCNativeReceiver --------------------------
(***************************************************************************)
(* A message of a single chunk, one of two full chunks, and one of three,  *)
(* the last of them shorter and announced by a periodic marker.  Full      *)
(* chunks have the four frames of FALLBACK_CHUNK_BYTES.  The instance is   *)
(* one of those the theorems that assume Timely speak of; an OrphanTTL of  *)
(* one slot more would be none.                                            *)
(***************************************************************************)
EXTENDS NativeReceiver

MCSizes == <<<<4>>, <<4, 4>>, <<4, 4, 1>>>>

ASSUME InstanceIsTimely == Timely

=============================================================================
