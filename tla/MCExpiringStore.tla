-------------------------- MODULE MCExpiringStore --------------------------
(* The instance of ExpiringStore that TLC checks.                            *)
EXTENDS ExpiringStore, TLC

Symmetry == Permutations(Client) \cup Permutations(Id)
=============================================================================
