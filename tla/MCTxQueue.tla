----------------------------- MODULE MCTxQueue ------------------------------
(* Sets of senders for TLC. *)
EXTENDS TxQueue

\* The adapted senders; every handler that sends; a handler against main().
AllConfigurations ==
  {AdaptedSenders, AllFeatures \ {"main"}, {"control", "main"}}
Retransmission == {{"segment", "rexmit"}}

=============================================================================
