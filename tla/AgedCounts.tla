----------------------------- MODULE AgedCounts -----------------------------
(***************************************************************************)
(* How often something happened each number of clock ticks ago, as far     *)
(* back as a window reaches: the models keep such a function where the     *)
(* code only keeps a start of a window and a counter, and compare the two. *)
(***************************************************************************)
EXTENDS Naturals, FiniteSets

\* The ages a window of |length| ticks tells apart.
AgesWithin(length) == 0 .. length - 1

\* The occurrences whose age is in |ages|: an age, and a number among those of that age.
Occurrences(counts, ages) == UNION {{a} \X (1 .. counts[a]) : a \in ages}

\* How many there are.
CountWithin(counts, ages) == Cardinality(Occurrences(counts, ages))

\* One more, now.
CountNow(counts) == [counts EXCEPT ![0] = @ + 1]

\* The clock has ticked.
Aged(counts) == [a \in DOMAIN counts |-> IF a = 0 THEN 0 ELSE counts[a - 1]]
=============================================================================
