---------------------------- MODULE MCTcpPcbs ----------------------------
(* TLC instance of TcpPcbs: blocks, endpoints and peers are interchangeable. *)
EXTENDS TcpPcbs, TLC

Symmetry == Permutations(Pcbs) \cup Permutations(Locals) \cup Permutations(Peers)

\* The programs: one that connects (ECU1), one that listens (ECU2).
Client == {{"connect"}}
Server == {{"listen"}}
Either == Client \cup Server
=============================================================================
