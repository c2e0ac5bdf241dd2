------------------------------ MODULE MCEtharp ------------------------------
(* Etharp for TLC: the MAC addresses are interchangeable.                  *)
EXTENDS Etharp, TLC

CONSTANTS m1, m2

MacSymmetry == Permutations({m1, m2})

=============================================================================
