---------------------------- MODULE Entitlements ----------------------------
(***************************************************************************)
(* What a session may play: server/internal/monetization/config.go and the *)
(* check of server/internal/api/monetization.go.                           *)
(*                                                                         *)
(* Every category but the free ones has to be bought, alone or with        *)
(* Premium, for a time or for good, or opened for one match by an ad.      *)
(***************************************************************************)
EXTENDS Integers

CONSTANTS
    Categories,
    FreeCategories,
    Sold,            \* bound: the products somebody buys, categories among them
    PremiumMonthly,
    PremiumLifetime,
    Period,          \* a subscription is paid for this long
    None

ASSUME EntitlementsAssumption ==
    /\ FreeCategories \subseteq Categories /\ Period \in Nat \ {0}
    /\ Sold \subseteq Categories \cup {PremiumMonthly, PremiumLifetime}
    /\ {PremiumMonthly, PremiumLifetime, None} \cap Categories = {}

\* Of each product, the time it is still held; only the subscription lapses.
Forever == Period + 1
Term(product) == IF product = PremiumMonthly THEN Period ELSE Forever
Holdings == [Sold -> 0 .. Forever]
Nothing == [product \in Sold |-> 0]
Lapsed(held) == [product \in Sold |-> IF held[product] \in 1 .. Period THEN held[product] - 1 ELSE held[product]]

Owns(held, product) == product \in Sold /\ held[product] > 0
Premium(held) == Owns(held, PremiumLifetime) \/ Owns(held, PremiumMonthly)
Allowed(held, categories) ==
    Premium(held) \/ \A c \in categories : c \in FreeCategories \/ Owns(held, c)

\* A rewarded category counts as one that is owned.
CategoriesAllowed(held, reward, categories) == Allowed(held, categories \ {reward})

\* Of two proofs of a subscription the later end counts.
Grant(held, product, left) == [held EXCEPT ![product] = IF @ < left THEN left ELSE @]

-----------------------------------------------------------------------------
(* A rewarded category is spent on the match it is dealt into, whichever   *)
(* that is, and is not searched for again unless it is owned.              *)

BugUseRewardUnlessOwned(buyer) ==
    IF buyer.reward = None \/ Allowed(buyer.held, {buyer.reward}) THEN buyer
    ELSE [buyer EXCEPT !.reward = None, !.search = @ \ {buyer.reward}]

UseReward(buyer) ==
    IF buyer.reward = None THEN buyer
    ELSE [buyer EXCEPT !.reward = None,
                       !.search = IF Allowed(buyer.held, {buyer.reward}) THEN @ ELSE @ \ {buyer.reward}]
=============================================================================
