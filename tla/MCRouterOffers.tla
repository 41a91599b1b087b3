--------------------------- MODULE MCRouterOffers ---------------------------
(* An instance of RouterOffers for TLC.                                    *)
EXTENDS RouterOffers

CONSTANTS c1, c2

TwoConns == {c1, c2}
=============================================================================
