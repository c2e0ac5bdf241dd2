--------------------------- MODULE MCTcpIpSocket ---------------------------
(* The programs of the two control units for TLC. *)
EXTENDS TcpIpSocket

\* ECU1 connects, ECU2 listens.
Either == {{"connect"}, {"listen"}}
=============================================================================
