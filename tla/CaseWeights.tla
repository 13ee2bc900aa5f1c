------------------------------ MODULE CaseWeights ------------------------------
(***************************************************************************)
(* The drop weights of a case (dropChancesToWeights).  The form gives each *)
(* item a chance in percent; the row of each item gets an integer weight,  *)
(* of 10 000 in all.  Every item but the last gets its share, rounded, and *)
(* at least 1; the last gets what is left, and at least 1.                 *)
(***************************************************************************)
EXTENDS Integers, Sequences

CONSTANTS
    Whole,          \* 100 percent, in the smallest step of a chance
    Tolerance,      \* how far the chances may be from it (0.06 percent)
    AllWeights,     \* the sum of the weights (10 000)
    MaxItems        \* bound: items of a case

ASSUME WeightsAssumption ==
    /\ {Whole, AllWeights, MaxItems} \subseteq Nat \ {0}
    /\ Tolerance \in 0..(Whole - 1)

VARIABLES
    chances,        \* the chances of the items in the form
    weights         \* the weights saved, none before

weightVars == <<chances, weights>>

\* The sum of the first n numbers of s, and of all.
SumTo(s, n) ==
    LET upTo[i \in 0..n] == IF i = 0 THEN 0 ELSE upTo[i - 1] + s[i] IN upTo[n]
Sum(s) == SumTo(s, Len(s))
AtLeastOne(n) == IF n < 1 THEN 1 ELSE n

\* Chances that add up to 100 percent, give or take; a request with others is
\* refused.
Accepted(s) == Whole - Tolerance <= Sum(s) /\ Sum(s) <= Whole + Tolerance

\* Math.round of p / sum * 10 000: halves go up.
RoundedShare(p, sum) == (2 * p * AllWeights + sum) \div (2 * sum)
Weight(p, sum) == AtLeastOne(RoundedShare(p, sum))

RoundedToo(s) == [i \in DOMAIN s |-> Weight(s[i], Sum(s))]
DropChancesToWeights(s) ==
    LET first == [i \in 1..(Len(s) - 1) |-> Weight(s[i], Sum(s))]
    IN Append(first, AtLeastOne(AllWeights - Sum(first)))

WeightsInit ==
    /\ chances \in {s \in UNION {[1..n -> 0..Whole] : n \in 1..MaxItems} : Accepted(s)}
    /\ weights = <<>>

SaveWeights ==
    /\ weights = <<>>
    /\ weights' = DropChancesToWeights(chances)
    /\ UNCHANGED chances

WeightsSpec == WeightsInit /\ [][SaveWeights]_weightVars

(* ------------------------------ properties ------------------------------- *)

\* How far an item's weight is from its share, in halves of 1/sum.
Off(i) == LET d == weights[i] * Sum(chances) - chances[i] * AllWeights
          IN IF d < 0 THEN -d ELSE d
Few(i) == chances[i] * AllWeights < Sum(chances)     \* a share below 1

\* The saved weights are the chances of the form: every item can be won, also
\* one with a chance of zero, the weights add up to the whole unless the last
\* item was short and had to be given its 1, an item is off its share by at
\* most a half unless that is below 1, and the last by what the others were
\* off together.
WeightsFair ==
    weights # <<>> =>
        LET n == Len(chances)
            short == Sum(weights) > AllWeights
        IN /\ Len(weights) = n
           /\ \A i \in 1..n : weights[i] >= 1
           /\ Sum(weights) >= AllWeights
           /\ short => weights[n] = 1
           /\ \A i \in 1..(n - 1) :
                \/ 2 * Off(i) <= Sum(chances)
                \/ Few(i) /\ weights[i] = 1
           /\ \/ Off(n) <= Sum([i \in 1..(n - 1) |-> Off(i)])
              \/ short

=============================================================================
