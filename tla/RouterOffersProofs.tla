------------------------- MODULE RouterOffersProofs -------------------------
(* Theorems about RouterOffers: what the steps of RouterKeysProofs preserve *)
(* holds of the router as a whole, and the budget of connection offers      *)
(* holds for every length of the window and every number of offers in it,   *)
(* whatever the relays and the key pool do.                                 *)
EXTENDS RouterOffers, RouterKeysProofs, AgedCountsProofs, TLAPS

\* The offers of the present window, and the ones that are left from an earlier one.
Recent == 0 .. since
Older  == {a \in Budget!Ages : a > since}

\* The counter is exact for the present window; what an earlier window left fits a budget;
\* and a window that is over has left no offer of this instant, which a new one would count.
BudgetInv ==
    /\ Budget!TypeOK
    /\ since < Window => CountWithin(issued, Recent) = count
    /\ since < Window => CountWithin(issued, Older) <= MaxOffers
    /\ since = Window => issued[0] = 0 /\ CountWithin(issued, Budget!Ages) <= MaxOffers

LEMMA BudgetConstants ==
    /\ Window \in Nat /\ Window # 0 /\ Window >= 1 /\ MaxOffers \in Nat /\ MaxOffers >= 1
    /\ Budget!Ages = AgesWithin(Window)
    /\ 0 \in AgesWithin(Window)
    /\ \A a \in AgesWithin(Window) : a \in Nat /\ a < Window
BY BudgetAssumption DEF Budget!Ages, Budget!AgesWithin, AgesWithin

\* OfferBudget counts as AgedCounts does.
LEMMA BudgetOperators ==
    /\ Budget!CountNow(issued) = CountNow(issued)
    /\ Budget!Aged(issued) = Aged(issued)
    /\ Budget!Held = CountWithin(issued, AgesWithin(Window))
<1>1. Budget!CountNow(issued) = CountNow(issued) /\ Budget!Aged(issued) = Aged(issued)
  BY DEF Budget!CountNow, CountNow, Budget!Aged, Aged
<1>2. Budget!CountWithin(issued, Budget!Ages) = CountWithin(issued, Budget!Ages)
  BY Zenon DEF Budget!CountWithin, CountWithin, Budget!Occurrences, Occurrences,
               Budget!Cardinality, Cardinality
<1>3. Budget!Held = CountWithin(issued, AgesWithin(Window))
  BY <1>2, BudgetConstants DEF Budget!Held
<1> QED
  BY <1>1, <1>3

LEMMA WindowFacts ==
    ASSUME Budget!TypeOK
    PROVE  /\ since \in Nat /\ since <= Window /\ count \in Nat /\ count <= MaxOffers
           /\ issued \in [AgesWithin(Window) -> Nat]
           /\ Older \in SUBSET AgesWithin(Window) /\ 0 \notin Older
           /\ since < Window => /\ Recent \in SUBSET AgesWithin(Window)
                                /\ 0 \in Recent /\ Recent \intersect Older = {}
                                /\ AgesWithin(Window) = Recent \union Older
           /\ CountWithin(issued, Older) \in Nat
           /\ CountWithin(issued, AgesWithin(Window)) \in Nat
<1> USE BudgetConstants
<1>1. /\ since \in Nat /\ since <= Window /\ count \in Nat /\ count <= MaxOffers
      /\ issued \in [AgesWithin(Window) -> Nat]
  BY DEF Budget!TypeOK
<1>2. Older \in SUBSET AgesWithin(Window) /\ 0 \notin Older
  BY <1>1 DEF Older
<1>3. ASSUME since < Window
      PROVE  /\ Recent \in SUBSET AgesWithin(Window)
             /\ 0 \in Recent /\ Recent \intersect Older = {}
             /\ AgesWithin(Window) = Recent \union Older
  BY <1>1, <1>3 DEF Recent, Older, AgesWithin
<1>4. CountWithin(issued, Older) \in Nat /\ CountWithin(issued, AgesWithin(Window)) \in Nat
  BY <1>1, <1>2, CountsAreFinite
<1> QED
  BY <1>1, <1>2, <1>3, <1>4

LEMMA BudgetInit == Budget!Init => BudgetInv
<1> SUFFICES ASSUME Budget!Init PROVE BudgetInv
  OBVIOUS
<1> USE BudgetConstants
<1>1. Budget!TypeOK
  BY DEF Budget!Init, Budget!TypeOK
<1>2. \A a \in AgesWithin(Window) : issued[a] = 0
  BY DEF Budget!Init
<1>3. \A ages \in SUBSET AgesWithin(Window) : CountWithin(issued, ages) = 0
  BY <1>1, <1>2, WindowFacts, NothingCounted
<1>4. count = 0
  BY DEF Budget!Init
<1> QED
  BY <1>1, <1>2, <1>3, <1>4, WindowFacts DEF BudgetInv

\* An offer within the window is charged; the first one after it starts the next.
LEMMA BudgetIssue ==
    ASSUME BudgetInv, Budget!IssueOffer
    PROVE  BudgetInv'
<1> USE BudgetConstants, WindowFacts DEF BudgetInv
<1>1. issued' = CountNow(issued) /\ issued' \in [AgesWithin(Window) -> Nat]
  BY BudgetOperators, OneMoreCounted DEF Budget!IssueOffer
<1>2. CASE since < Window
  <2>1. since' = since /\ count' = count + 1 /\ count < MaxOffers
    BY <1>2 DEF Budget!IssueOffer, Budget!CountOffer, Budget!IsOfferLimitReached
  <2>2. Budget!TypeOK'
    BY <1>1, <2>1 DEF Budget!TypeOK
  <2>3. Recent' = Recent /\ Older' = Older
    BY <2>1 DEF Recent, Older
  <2>4. CountWithin(issued', Recent) = CountWithin(issued, Recent) + 1
    BY <1>1, <1>2, OneMoreCounted
  <2>5. CountWithin(issued', Older) = CountWithin(issued, Older)
    BY <1>1, OneMoreCounted
  <2> QED
    BY <1>2, <2>1, <2>2, <2>3, <2>4, <2>5
<1>3. CASE since = Window
  <2>1. since' = 0 /\ count' = 1
    BY <1>3 DEF Budget!IssueOffer, Budget!CountOffer
  <2>2. Budget!TypeOK'
    BY <1>1, <2>1 DEF Budget!TypeOK
  <2>3. Recent' = {0} /\ Older' = AgesWithin(Window) \ {0} /\ {0} \in SUBSET AgesWithin(Window)
    BY <2>1 DEF Recent, Older, AgesWithin
  <2>4. CountWithin(issued', {0}) = CountWithin(issued, {0}) + 1
    BY <1>1, <2>3, OneMoreCounted
  <2>5. CountWithin(issued, {0}) = 0
    BY <1>3, <2>3, NothingCounted
  <2>6. CountWithin(issued', Older') = CountWithin(issued, Older')
    BY <1>1, <2>3, OneMoreCounted
  <2>7. CountWithin(issued, Older') <= CountWithin(issued, AgesWithin(Window))
    BY <2>3, CountsOfMoreAges
  <2>8. CountWithin(issued, Older') \in Nat
    BY <2>3, CountsAreFinite
  <2>9. CountWithin(issued, AgesWithin(Window)) <= MaxOffers
    BY <1>3
  <2>10. CountWithin(issued', Recent') = count'
    BY <2>1, <2>3, <2>4, <2>5
  <2>11. CountWithin(issued', Older') <= MaxOffers
    BY <2>6, <2>7, <2>8, <2>9
  <2> QED
    BY <2>1, <2>2, <2>10, <2>11
<1> QED
  BY <1>2, <1>3

\* A tick moves the window's start and the offers alike.
LEMMA BudgetTick ==
    ASSUME BudgetInv, Budget!Tick
    PROVE  BudgetInv'
<1> USE BudgetConstants, WindowFacts DEF BudgetInv
<1> DEFINE A == AgesWithin(Window)
<1>1. issued' = Aged(issued) /\ issued' \in [A -> Nat] /\ count' = count
  <2>1. issued' = Aged(issued) /\ count' = count
    BY BudgetOperators DEF Budget!Tick
  <2>2. Aged(issued) \in [A -> Nat]
    BY AgedType
  <2> QED
    BY <2>1, <2>2
<1>2. issued'[0] = 0
  BY <1>1 DEF Aged
<1>3. since' \in Nat /\ since' <= Window /\ since' = IF since < Window THEN since + 1 ELSE since
  BY DEF Budget!Tick
<1>4. Budget!TypeOK'
  BY <1>1, <1>3 DEF Budget!TypeOK
<1>5. CASE since' < Window
  <2>1. since' = since + 1 /\ since < Window
    BY <1>3, <1>5
  <2>2. Recent' \in SUBSET A /\ Older' \in SUBSET A
    BY <1>3, <1>5 DEF Recent, Older, AgesWithin
  <2>3. /\ \A a \in Recent' : a # 0 => a - 1 \in Recent
        /\ \A a \in Recent : a + 1 \in Recent'
        /\ \A a \in Older' : a # 0 => a - 1 \in Older
    BY <2>1 DEF Recent, Older, AgesWithin
  <2>4. /\ CountWithin(issued', Recent') <= CountWithin(issued, Recent)
        /\ CountWithin(issued, Recent) <= CountWithin(issued', Recent')
        /\ CountWithin(issued', Older') <= CountWithin(issued, Older)
    BY <1>1, <2>1, <2>2, <2>3, EverythingAges
  <2>5. CountWithin(issued', Recent') \in Nat /\ CountWithin(issued', Older') \in Nat
    BY <1>1, <2>2, CountsAreFinite
  <2>6. CountWithin(issued, Recent) = count /\ CountWithin(issued, Older) <= MaxOffers
    BY <2>1
  <2>7. CountWithin(issued', Recent') = count' /\ CountWithin(issued', Older') <= MaxOffers
    BY <1>1, <2>4, <2>5, <2>6
  <2> QED
    BY <1>4, <1>5, <2>7
<1>6. CASE since' = Window
  <2>1. CountWithin(issued', A) <= CountWithin(issued, A) /\ CountWithin(issued', A) \in Nat
    <3>1. \A a \in A : a # 0 => a - 1 \in A
      BY DEF AgesWithin
    <3> QED
      BY <1>1, <3>1, EverythingAges, CountsAreFinite
  <2>2. CountWithin(issued, A) <= MaxOffers
    <3>1. CASE since = Window
      BY <3>1
    <3>2. CASE since # Window
      <4>1. since < Window /\ Recent = A
        BY <1>3, <1>6, <3>2 DEF Recent, AgesWithin
      <4> QED
        BY <4>1
    <3> QED
      BY <3>1, <3>2
  <2> QED
    BY <1>2, <1>4, <1>6, <2>1, <2>2
<1> QED
  BY <1>3, <1>5, <1>6

LEMMA BudgetInvMeansKept ==
    ASSUME BudgetInv
    PROVE  BudgetKept
<1> USE BudgetConstants, WindowFacts DEF BudgetInv
<1> DEFINE A == AgesWithin(Window)
<1>0. /\ Budget!CountWithin(issued, Budget!OfThisWindow) = CountWithin(issued, Budget!OfThisWindow)
      /\ Budget!CountWithin(issued, Budget!OfEarlier) = CountWithin(issued, Budget!OfEarlier)
  BY Zenon DEF Budget!CountWithin, CountWithin, Budget!Occurrences, Occurrences,
               Budget!Cardinality, Cardinality
<1>1. CASE since < Window
  <2>1. CountWithin(issued, A) = CountWithin(issued, Recent) + CountWithin(issued, Older)
    BY <1>1, CountsOfDisjointAges
  <2>2. CountWithin(issued, Recent) = count /\ CountWithin(issued, Older) <= MaxOffers
    BY <1>1
  <2>3. CountWithin(issued, A) >= count /\ count <= MaxOffers
    BY <2>1, <2>2
  <2>4. Budget!OfThisWindow = Recent /\ Budget!OfEarlier = Older
    BY <1>1 DEF Budget!OfThisWindow, Budget!OfEarlier, Recent, Older, AgesWithin
  <2> QED
    BY <1>0, <2>2, <2>3, <2>4, BudgetOperators
       DEF BudgetKept, Budget!BudgetKept, Budget!IsOfferLimitReached
<1>2. CASE since = Window
  <2>1. Budget!OfThisWindow = A /\ Budget!OfEarlier = {}
    BY <1>2 DEF Budget!OfThisWindow, Budget!OfEarlier
  <2>2. CountWithin(issued, A) <= MaxOffers
    BY <1>2
  <2>3. CountWithin(issued, {}) <= MaxOffers
    BY NothingCounted
  <2> QED
    BY <1>0, <1>2, <2>1, <2>2, <2>3, BudgetOperators
       DEF BudgetKept, Budget!BudgetKept, Budget!IsOfferLimitReached
<1> QED
  BY <1>1, <1>2

\* Granting an offer, with everything it does to the pool, charges the budget once; no other
\* step of the router but the clock touches it: the router implements OfferBudget.
THEOREM OffersImplementBudget == OffersSpec => Budget!Spec
<1>1. OffersInit => Budget!Init
  BY DEF OffersInit
<1>2. [OffersNext]_allVars => [Budget!Next]_(Budget!vars)
  BY DEF OffersNext, GrantOffer, Budget!Next, Budget!vars, allVars, budgetVars
<1> QED
  BY <1>1, <1>2, PTL DEF OffersSpec, Budget!Spec

\* The invariant of the fixed window.
THEOREM BudgetInvariant == Budget!Spec => []BudgetInv
<1>1. ASSUME BudgetInv, [Budget!Next]_(Budget!vars) PROVE BudgetInv'
  <2>1. CASE UNCHANGED Budget!vars
    <3>1. since' = since /\ count' = count /\ issued' = issued
      BY <2>1 DEF Budget!vars
    <3>2. Budget!TypeOK'
      BY <1>1, <3>1 DEF BudgetInv, Budget!TypeOK
    <3>3. Recent' = Recent /\ Older' = Older
      BY <3>1 DEF Recent, Older
    <3> QED
      BY <1>1, <3>1, <3>2, <3>3 DEF BudgetInv
  <2> QED
    BY <1>1, <2>1, BudgetIssue, BudgetTick DEF Budget!Next
<1> QED
  BY <1>1, BudgetInit, PTL DEF Budget!Spec

\* A client is refused only while it holds a full budget of unused offers; a window grants at
\* most a budget, and what earlier ones left is at most a budget.
THEOREM BudgetStaysKept == OffersSpec => []BudgetKept
BY OffersImplementBudget, BudgetInvariant, BudgetInvMeansKept, PTL

----------------------------------------------------------------------------
(* The keys                                                                *)

\* The invariant of the keys: each is in one place, filed under the relay it came from and
\* within the capacity of that relay, which is what keeps the pool below its own limits.
THEOREM KeysInvariant == OffersSpec => []KeysInv
<1>1. OffersInit => KeysInv
  BY KeysInit DEF OffersInit
<1>2. ASSUME KeysInv, [OffersNext]_allVars PROVE KeysInv'
  <2>1. CASE UNCHANGED vars
    BY <1>2, <2>1, KeysStutter
  <2>2. CASE \E s \in Sessions : GrantOffer(s)
    BY <1>2, <2>2, StepTakeKey DEF GrantOffer
  <2>3. CASE KeysNext
    BY <1>2, <2>3, KeysStep
  <2> QED
    BY <1>2, <2>1, <2>2, <2>3 DEF OffersNext, allVars
<1> QED
  BY <1>1, <1>2, PTL DEF OffersSpec

\* A key of a relay is handed out at most once, for any number of relays, keys and requests.
THEOREM NoKeyOfferedTwice == OffersSpec => []OfferedOnce
BY KeysInvariant, KeysInvImplies, PTL

\* No key of a connected relay that readKeyPool accepted is lost between its announcement and
\* its report: the limits of SharedKeyPool are never what drops it.  One that readKeyPool did
\* not accept is never offered.
THEOREM NoKeyLost == OffersSpec => []KeysAccounted
BY KeysInvariant, KeysInvImplies, PTL

\* The pool holds keys of connected relays only.
THEOREM DeadRelaysNeverOffered == OffersSpec => []DeadRelayNotOffered
BY KeysInvariant, KeysInvImplies, PTL

\* A report reaches the relay that announced its key, or nobody.
THEOREM ReportsNeverMisdirected == OffersSpec => []ReportsReachTheirRelay
BY KeysInvariant, KeysInvImplies, PTL
=============================================================================
