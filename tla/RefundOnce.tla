------------------------------ MODULE RefundOnce -----------------------------
(***************************************************************************)
(* What the Mines reset owes a player: whatever happens to the resets, a   *)
(* round is refunded once, by an amount a round can be worth, or never.    *)
(***************************************************************************)
EXTENDS Naturals

CONSTANTS Games, Amounts

VARIABLE refunded    \* refunded[g]: what g's player got back, 0 for nothing

Init == refunded = [g \in Games |-> 0]

RefundRound(g, amount) ==
    /\ refunded[g] = 0
    /\ refunded' = [refunded EXCEPT ![g] = amount]

Next == \E g \in Games, amount \in Amounts : RefundRound(g, amount)

Spec == Init /\ [][Next]_refunded

=============================================================================
