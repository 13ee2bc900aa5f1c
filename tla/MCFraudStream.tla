----------------------------- MODULE MCFraudStream ----------------------------
(* Small instances of FraudStream. *)
EXTENDS FraudStream

CONSTANTS e1, e2, p, q

\* A match between two players, and one of the first against a bot.
OneMatchOneBot == [e \in Payouts |-> IF e = e1 THEN <<p, q>> ELSE <<p>>]

=============================================================================
