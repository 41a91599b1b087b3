---------------------------- MODULE OfferBudget ----------------------------
(***************************************************************************)
(* The budget of connection offers of one client session of the router     *)
(* (ClientOperator::isOfferLimitReached and countOffer).                   *)
(*                                                                         *)
(* Time is measured backwards from the present, in ticks of the clock, and *)
(* not beyond the window: nothing in the code tells longer ago apart.      *)
(***************************************************************************)
EXTENDS Naturals, AgedCounts

CONSTANTS
    Window,     \* kOfferWindow, which is also the relay's kKeyUseTimeout
    MaxOffers   \* kMaxOffersPerWindow

VARIABLES
    since,   \* now - offer_window_start_, at most Window
    count,   \* offer_count_
    issued   \* how many offers were issued each number of ticks ago

vars == <<since, count, issued>>

Ages == AgesWithin(Window)

TypeOK ==
    /\ since \in 0 .. Window
    /\ count \in 0 .. MaxOffers
    /\ issued \in [Ages -> Nat]

\* offer_window_start_ is the epoch of the clock, which may be moments or long ago.
Init ==
    /\ since \in 0 .. Window
    /\ count = 0
    /\ issued = [a \in Ages |-> 0]

\* Offers whose relay keys may still be unused: a key lives as long as the window.
Held == CountWithin(issued, Ages)

IsOfferLimitReached == since < Window /\ count >= MaxOffers

CountWithoutReset ==
    /\ since' = IF since >= Window THEN 0 ELSE since
    /\ count' = count + 1

CountOffer ==
    /\ since' = IF since >= Window THEN 0 ELSE since
    /\ count' = IF since >= Window THEN 1 ELSE count + 1

\* sendConnectionOffer, when the request is granted.  A request that is refused, by
\* the limit, an absent host or an empty key pool, leaves the budget as it is.
IssueOffer ==
    /\ ~ IsOfferLimitReached
    /\ CountOffer
    /\ issued' = CountNow(issued)

Tick ==
    /\ since' = IF since < Window THEN since + 1 ELSE since
    /\ issued' = Aged(issued)
    /\ UNCHANGED count

Next == IssueOffer \/ Tick

Spec == Init /\ [][Next]_vars

\* The offers of the window that began |since| ticks ago, and what is left of earlier ones.
OfThisWindow == {a \in Ages : a <= since}
OfEarlier    == Ages \ OfThisWindow

\* What the fixed window guarantees. A client is refused only while it holds a full
\* budget of offers that may be unused, so that it is never charged for offers that are
\* out of the window; a window grants no more than a budget, over resets and however
\* long it is left open; and the windows before it have left no more than a budget.
BudgetKept ==
    /\ IsOfferLimitReached => Held >= MaxOffers
    /\ CountWithin(issued, OfThisWindow) <= MaxOffers
    /\ CountWithin(issued, OfEarlier) <= MaxOffers

\* "The window matches the lifetime of a relay key, so the budget is how many unused
\* offers a client may hold at once" (client_operator.cc).
UnusedOffersWithinBudget == Held <= MaxOffers
============================================================================
