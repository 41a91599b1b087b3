--------------------------- MODULE MCRouterHosts ---------------------------
(* Instances of RouterHosts for TLC.                                       *)
EXTENDS RouterHosts, TLC

CONSTANTS c1, c2, c3, t1, t2

TwoConns   == {c1, c2}
ThreeConns == {c1, c2, c3}
OneTemp    == {t1}
TwoTemps   == {t1, t2}

\* Connections and temporary ids are only ever compared for equality.
Symmetry22 == Permutations(TwoConns) \union Permutations(TwoTemps)
Symmetry32 == Permutations(ThreeConns) \union Permutations(TwoTemps)
============================================================================
