----------------------------- MODULE MCTcpData -----------------------------
(* Small connections for TLC. *)
EXTENDS TcpData, TLC

CONSTANTS A, B

Plan(a, b, who) == [total |-> (A :> a) @@ (B :> b), closers |-> who]

\* One program writes and closes; both write; both close.
SafetyPlans == {Plan(5, 0, {}), Plan(2, 1, {}), Plan(3, 0, {A}), Plan(1, 0, {A, B})}
OpenPlans == {Plan(4, 0, {}), Plan(1, 2, {})}
=============================================================================
