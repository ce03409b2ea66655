----------------------------- MODULE MCAssetCache -----------------------------
(* Two threads ask for a pinned and for an unpinned name while files under   *)
(* the root are written, removed and relinked.                               *)
EXTENDS AssetCache, TLC

CONSTANTS c1, c2, logic, logo, first, second, old, new

Callers == {c1, c2}

MCPin == (logic :> new) @@ (logo :> None)

Symmetry == Permutations(Callers) \cup Permutations({first, second})
=============================================================================
