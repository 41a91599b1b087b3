---------------------------- MODULE RouterOffers ----------------------------
(***************************************************************************)
(* ClientOperator::sendConnectionOffer as a whole: the budget of one       *)
(* client session (OfferBudget) decides whether a key of the shared pool   *)
(* (RouterKeys) may be spent, and is charged only when one was.  The clock *)
(* runs between any two steps of the threads.                              *)
(***************************************************************************)
EXTENDS RouterKeys

CONSTANTS
    Window,     \* kOfferWindow
    MaxOffers   \* kMaxOffersPerWindow

ASSUME BudgetAssumption == Window \in Nat \ {0} /\ MaxOffers \in Nat \ {0}

VARIABLES since, count, issued

budgetVars == <<since, count, issued>>
allVars    == <<vars, budgetVars>>

Budget == INSTANCE OfferBudget

OffersInit == Init /\ Budget!Init

\* The request is granted: the budget allows it and a relay has a key.  The offer is
\* charged with the time at which the request was read.
GrantOffer(s) == TakeKey(s) /\ Budget!IssueOffer

OffersNext ==
    \/ \E s \in Sessions : GrantOffer(s)
    \/ Budget!Tick /\ UNCHANGED vars
    \/ KeysNext /\ UNCHANGED budgetVars

\* Event loops serve what was posted to them, and handlers end.
OffersFairness ==
    /\ SF_allVars(SendKeyUsed /\ UNCHANGED budgetVars)
    /\ WF_allVars(NotifyKeyUsed /\ UNCHANGED budgetVars)
    /\ WF_allVars((AddNext \/ SkipMalformed) /\ UNCHANGED budgetVars)
    /\ WF_allVars((Stopped \/ \E c \in Conns : StopNextRelay(c)) /\ UNCHANGED budgetVars)

OffersSpec == OffersInit /\ [][OffersNext]_allVars /\ OffersFairness

\* The guarantee of the fixed window (OfferBudget), for the keys that are really spent.
BudgetKept == Budget!BudgetKept

\* The claim about the budget (OfferBudget), for the keys that are really spent.
UnusedOffersWithinBudget == Budget!UnusedOffersWithinBudget
=============================================================================
