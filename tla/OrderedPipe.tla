----------------------------- MODULE OrderedPipe -----------------------------
(* What one direction of a session promises its user: the messages handed  *)
(* to send() come out on the other side in the order they went in, none    *)
(* twice and none skipped, whichever connection carried them. A session    *)
(* that ends may leave a tail undelivered. Messages are numbered in the    *)
(* order they are sent; a step may deliver several at once.                *)
EXTENDS Naturals, Sequences

VARIABLES
    sent,       \* how many messages were sent
    got         \* the messages delivered, in the order of delivery

vars == <<sent, got>>

Init == sent = 0 /\ got = << >>

Send == sent' = sent + 1 /\ UNCHANGED got

Deliver ==
    /\ \E n \in (Len(got) + 1)..sent : got' = [i \in 1..n |-> i]
    /\ UNCHANGED sent

Next == Send \/ Deliver

Spec == Init /\ [][Next]_vars
==============================================================================
