--------------------------- MODULE MCRouterLogin ---------------------------
(* Instances of RouterLogin for TLC.                                       *)
EXTENDS RouterLogin, TLC

CONSTANTS s1, s2, u1

OneUser     == {u1}
OneSession  == {s1}
TwoSessions == {s1, s2}

\* Sessions are only ever compared for equality.
SessionSymmetry == Permutations(TwoSessions)
============================================================================
