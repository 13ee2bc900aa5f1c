------------------------------ MODULE MinesRefund ----------------------------
(***************************************************************************)
(* mines-reset-refund.calculator.ts: what a round in progress is worth     *)
(* when an admin resets it.  The arithmetic of the code is on doubles;     *)
(* here it is on exact fractions, multipliers in ten-thousandths and money *)
(* in cents, rounded where the code rounds (Math.round: halves up).        *)
(***************************************************************************)
EXTENDS Integers, FiniteSets, FiniteSetsExt

CONSTANTS
    GridSizes, HouseEdges, BetCents,   \* the values a round may have
    DefaultHouseEdge                   \* MINES_CONFIG_DEFAULTS.houseEdge

ASSUME MinesRefundAssumptions ==
    /\ GridSizes \subseteq Nat \ {0, 1}
    /\ HouseEdges \subseteq Int
    /\ BetCents \subseteq Int
    /\ DefaultHouseEdge \in 0..100

VARIABLE round    \* the round's blob: grid, mines, bet, edge, tiles open

RoundDiv(a, b) == (2 * a + b) \div (2 * b)

\* n (n-1) ... (n-k+1)
Falling(n, k) ==
    LET f[i \in 0..k] == IF i = 0 THEN 1 ELSE f[i - 1] * (n - i + 1) IN f[k]

ResolveHouseEdge(edge) == IF edge \in 0..100 THEN edge ELSE DefaultHouseEdge

\* Mutant: the number of safe tiles does not shrink as tiles are opened.
ConstantOdds(grid, mines, open, edge) ==
    IF open <= 0 THEN 10000
    ELSE RoundDiv(grid^open * (100 - edge) * 100, (grid - mines)^open)

\* multiplierForSafeReveals, in ten-thousandths.
Multiplier(grid, mines, open, edge) ==
    IF open <= 0 THEN 10000
    ELSE RoundDiv(Falling(grid, open) * (100 - edge) * 100,
                  Falling(grid - mines, open))

CurrentMultiplier(b) ==
    Multiplier(b.grid, b.mines, b.open, ResolveHouseEdge(b.edge))

\* grossCreditForAdminReset, in cents: the stake until a tile is open.
GrossCredit(b) ==
    IF b.bet <= 0 THEN 0
    ELSE IF b.open = 0 THEN b.bet
    ELSE RoundDiv(b.bet * CurrentMultiplier(b), 10000)

NetProfit(b) == GrossCredit(b) - b.bet

-----------------------------------------------------------------------------

Init ==
    \E grid \in GridSizes, edge \in HouseEdges, bet \in BetCents :
    \E mines \in 1..(grid - 1) :
        round = [grid |-> grid, mines |-> mines, bet |-> bet, edge |-> edge,
                 open |-> 0]

OpenSafeTile ==
    /\ round.open < round.grid - round.mines
    /\ round' = [round EXCEPT !.open = @ + 1]

Spec == Init /\ [][OpenSafeTile]_round

-----------------------------------------------------------------------------

\* The ways to open "open" tiles of a grid, and those that meet no mine.
Openings(tiles, open) == kSubset(open, 1..tiles)

AbsDiff(a, b) == IF a > b THEN a - b ELSE b - a

(***************************************************************************)
(* The refund is fair: stake x multiplier, weighted with the probability   *)
(* of having come this far, is the stake less the house edge, to within    *)
(* the rounding of the multiplier.  The probability is counted over all    *)
(* sets of tiles, so this does not depend on the stepping formula.         *)
(***************************************************************************)
MultiplierIsFair ==
    LET b == round
        safe == Cardinality(Openings(b.grid - b.mines, b.open))
        all == Cardinality(Openings(b.grid, b.open))
        edge == IF b.edge \in 0..100 THEN b.edge ELSE DefaultHouseEdge
    IN b.open > 0 =>
          2 * AbsDiff(CurrentMultiplier(b) * safe, all * (100 - edge) * 100)
              <= safe

=============================================================================
