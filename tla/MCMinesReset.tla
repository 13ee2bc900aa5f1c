----------------------------- MODULE MCMinesReset ----------------------------
(* Small instances of MinesReset. *)
EXTENDS MinesReset, TLC

CONSTANTS u1, u2, g1, g2

\* One player with two rounds, or two players with one each.
OwnerOfAll == [g \in Games |-> u1]
OwnerOfEach == [g \in Games |-> IF g = g1 THEN u1 ELSE u2]

\* A stake of 100, worth 113 once a tile is open.
FairPayout == [n \in 0..MaxReveals |-> 100 + 13 * n]

ResetSymmetry == Permutations(Resets)

=============================================================================
