----------------------------- MODULE MCEnc28j60 -----------------------------
(* A small ring for TLC. *)
EXTENDS Enc28j60, TLC

CONSTANTS short, long

\* A ring of eleven units, frames of one and of three.
Sizes == (short :> 1) @@ (long :> 3)

=============================================================================
