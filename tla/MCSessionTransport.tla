-------------------------- MODULE MCSessionTransport --------------------------
(* An instance of SessionTransport for TLC: a relayed session, with the    *)
(* direct attempt and one that announces itself later.                     *)
EXTENDS SessionTransport

CONSTANTS direct, stun

TwoAttempts == {direct, stun}
==============================================================================
