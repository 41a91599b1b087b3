---------------------------- MODULE OneTimeKeys ----------------------------
(***************************************************************************)
(* What the relay promises about its keys: a key is minted once, while it  *)
(* is live it may join one pair of peers, and after that, or once it has   *)
(* been withdrawn, it never comes back.                                    *)
(***************************************************************************)
EXTENDS Sequences

CONSTANT Keys

VARIABLES
    status,    \* the stage of every key's life
    sessions   \* the keys of the sessions made so far, in order

vars == <<status, sessions>>

Init ==
    /\ status = [k \in Keys |-> "unborn"]
    /\ sessions = <<>>

Mint(k) ==
    /\ status[k] = "unborn"
    /\ status' = [status EXCEPT ![k] = "live"]
    /\ UNCHANGED sessions

Pair(k) ==
    /\ status[k] = "live"
    /\ status' = [status EXCEPT ![k] = "dead"]
    /\ sessions' = Append(sessions, k)

\* Keys expire one by one, and all together when the router is lost.
Withdraw(gone) ==
    /\ \A k \in gone : status[k] = "live"
    /\ status' = [k \in Keys |-> IF k \in gone THEN "dead" ELSE status[k]]
    /\ UNCHANGED sessions

Next ==
    \/ \E k \in Keys : Mint(k) \/ Pair(k)
    \/ \E gone \in SUBSET Keys : Withdraw(gone)

Spec == Init /\ [][Next]_vars
============================================================================
