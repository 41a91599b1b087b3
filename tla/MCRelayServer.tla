--------------------------- MODULE MCRelayServer ---------------------------
(* Instances of RelayServer for TLC.                                       *)
EXTENDS RelayServer, TLC

CONSTANTS c1, c2, c3, s1, s2

TwoConns   == {c1, c2}
ThreeConns == {c1, c2, c3}
OneSecret  == {s1}
TwoSecrets == {s1, s2}

\* Connections are only ever compared for equality.
Symmetry2 == Permutations(TwoConns)
Symmetry3 == Permutations(ThreeConns)
============================================================================
