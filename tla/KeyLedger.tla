------------------------------- MODULE KeyLedger ------------------------------
(***************************************************************************)
(* The reward keys of one user for one case: a ledger of signed rows whose *)
(* sum is the balance (admin-api/src/reward-case-keys).  setKeyBalance     *)
(* sums the rows, computes the difference to add, and inserts it, in a     *)
(* transaction that does not stop another one, or the game API, from       *)
(* inserting rows in between.                                              *)
(***************************************************************************)
EXTENDS Integers

CONSTANTS
    KeyRequests,      \* admin requests and game requests under way
    MaxKeys,          \* bound: largest newBalance and largest |delta|
    MaxKeyCalls       \* bound: requests in a behaviour

ASSUME KeyAssumptions ==
    /\ MaxKeys \in Nat
    /\ MaxKeyCalls \in Nat

VARIABLES
    keys,       \* the sum of the ledger's rows
    change,     \* change[q]: what request q asks for, has summed and will add
    spare,      \* spare[q]: whether nobody has inserted a row since q's sum
    answer,     \* the last response of setKeyBalance
    keyCalls    \* how many requests have begun

keyVars == <<keys, change, spare, answer, keyCalls>>

Amounts == -MaxKeys..MaxKeys

NoChange == [kind |-> "none", amount |-> 0, sum |-> 0, add |-> 0]
Changes == [kind : {"none", "set", "delta", "spend"}, amount : Amounts,
            sum : Int, add : Int]
NoAnswer == [before |-> 0, after |-> 0, previous |-> 0, reported |-> 0]

KeyTypeOK ==
    /\ keys \in Int
    /\ change \in [KeyRequests -> Changes]
    /\ spare \in [KeyRequests -> BOOLEAN]
    /\ answer \in [before : Int, after : Int, previous : Int, reported : Int]
    /\ keyCalls \in 0..MaxKeyCalls

KeyInit ==
    /\ keys = 0
    /\ change = [q \in KeyRequests |-> NoChange]
    /\ spare = [q \in KeyRequests |-> TRUE]
    /\ answer = NoAnswer
    /\ keyCalls = 0

\* Mutant: the deduction is not clamped.
Unclamped(sum, kind, amount) == IF kind = "set" THEN amount - sum ELSE amount

\* appliedDelta: to the new balance, or the delta with the result clamped to 0.
AppliedDelta(sum, kind, amount) ==
    CASE kind = "set" -> amount - sum
      [] kind = "delta" -> IF amount < -sum THEN -sum ELSE amount
      [] OTHER -> -1

\* newBalance is not negative; the game spends one key of a balance it found.
Asked(kind, amount) ==
    \/ kind = "set" /\ amount >= 0
    \/ kind = "delta"
    \/ kind = "spend" /\ amount = 1 /\ keys >= 1

\* The aggregate of the transaction; a difference of 0 inserts nothing.
SumKeys(q, kind, amount) ==
    /\ change[q].kind = "none"
    /\ keyCalls < MaxKeyCalls /\ keyCalls' = keyCalls + 1
    /\ Asked(kind, amount)
    /\ LET add == AppliedDelta(keys, kind, amount)
       IN IF add = 0
          THEN /\ answer' = [before |-> keys, after |-> keys,
                             previous |-> keys, reported |-> keys]
               /\ UNCHANGED <<change, spare>>
          ELSE /\ change' = [change EXCEPT ![q] =
                     [kind |-> kind, amount |-> amount, sum |-> keys, add |-> add]]
               /\ spare' = [spare EXCEPT ![q] = TRUE]
               /\ UNCHANGED answer
    /\ UNCHANGED keys

Insert(n) ==
    /\ keys' = keys + n
    /\ spare' = [p \in KeyRequests |-> FALSE]

\* The insert; the response takes the transaction's balance for the previous.
InsertKeys(q) ==
    /\ change[q].kind # "none"
    /\ LET c == change[q]
           previous == c.sum + c.add
       IN /\ Insert(c.add)
          /\ answer' = IF c.kind = "spend" THEN answer
                       ELSE [before |-> c.sum, after |-> c.sum + c.add,
                             previous |-> previous, reported |-> previous + c.add]
    /\ change' = [change EXCEPT ![q] = NoChange]
    /\ UNCHANGED keyCalls

\* The transaction is rolled back.
KeysRollBack(q) ==
    /\ change[q].kind # "none"
    /\ change' = [change EXCEPT ![q] = NoChange]
    /\ UNCHANGED <<keys, spare, answer, keyCalls>>

\* The game API grants a key.
GrantKey ==
    /\ keyCalls < MaxKeyCalls /\ keyCalls' = keyCalls + 1
    /\ Insert(1)
    /\ UNCHANGED <<change, answer>>

KeyNext ==
    \/ \E q \in KeyRequests, kind \in {"set", "delta", "spend"}, amount \in Amounts :
          SumKeys(q, kind, amount)
    \/ \E q \in KeyRequests : InsertKeys(q) \/ KeysRollBack(q)
    \/ GrantKey

KeySpec == KeyInit /\ [][KeyNext]_keyVars

-----------------------------------------------------------------------------

(***************************************************************************)
(* "Resulting balance is clamped to 0": requests that overlap can take the *)
(* balance below zero, but a change by an admin that nobody interferes     *)
(* with never leaves it there, even if it found it there.                  *)
(***************************************************************************)
LoneChangeClamps ==
    [][\A q \in KeyRequests :
          change[q].kind \in {"set", "delta"} /\ spare[q] /\ InsertKeys(q)
              => keys' >= 0]_keyVars

(***************************************************************************)
(* "Returns the updated balance and the applied delta": the response, and  *)
(* the audit row, name the balance before and after the change.            *)
(***************************************************************************)
AnswerIsBalance ==
    answer.previous = answer.before /\ answer.reported = answer.after

=============================================================================
