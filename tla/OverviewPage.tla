------------------------------ MODULE OverviewPage -----------------------------
(***************************************************************************)
(* The overview of the Mines page (useMinesOverview.ts).  A change of the  *)
(* time range fetches the numbers, as does a reload; only the answer to    *)
(* the latest fetch is applied, and a cache shows what a range had before. *)
(***************************************************************************)
EXTENDS Integers

CONSTANTS
    Ranges,     \* time ranges
    MaxSeq      \* bound: fetches in a behaviour

ASSUME MaxSeqAssumption == MaxSeq \in Nat \ {0}

VARIABLES
    range,       \* the selected range
    effectDue,   \* the effect of a new range has not run yet
    fetchSeq,    \* fetchSeqRef
    sent,        \* sent[n]: state, range and sender of the n-th fetch
    cache,       \* the ranges in responseCache
    stats,       \* the range whose numbers are shown, or none
    shownOnce,   \* hasShownDataRef
    loading

overviewVars == <<range, effectDue, fetchSeq, sent, cache, stats, shownOnce, loading>>

NotSent == [state |-> "none", range |-> "none", by |-> "none"]
Fetch == [state : {"none", "pending", "aborted"}, range : Ranges \cup {"none"},
          by : {"none", "effect", "reload"}]

OverviewTypeOK ==
    /\ range \in Ranges
    /\ effectDue \in BOOLEAN
    /\ fetchSeq \in 0..MaxSeq
    /\ sent \in [1..MaxSeq -> Fetch]
    /\ cache \in SUBSET Ranges
    /\ stats \in Ranges \cup {"none"}
    /\ shownOnce \in BOOLEAN
    /\ loading \in BOOLEAN

\* The module's cache outlives the component.
OverviewInit ==
    /\ range \in Ranges
    /\ effectDue = TRUE
    /\ fetchSeq = 0
    /\ sent = [n \in 1..MaxSeq |-> NotSent]
    /\ cache \in SUBSET Ranges
    /\ stats = "none"
    /\ shownOnce = FALSE
    /\ loading = TRUE

\* The cleanup aborts the fetch of the last effect, not that of a reload.
Aborted(f) == IF f.by = "effect" /\ f.state = "pending"
              THEN [f EXCEPT !.state = "aborted"] ELSE f

SelectRange(r) ==
    /\ ~effectDue /\ r # range
    /\ range' = r
    /\ effectDue' = TRUE
    /\ sent' = [n \in 1..MaxSeq |-> Aborted(sent[n])]
    /\ UNCHANGED <<fetchSeq, cache, stats, shownOnce, loading>>

Send(by) ==
    /\ fetchSeq < MaxSeq
    /\ fetchSeq' = fetchSeq + 1
    /\ sent' = [sent EXCEPT ![fetchSeq + 1] =
                   [state |-> "pending", range |-> range, by |-> by]]

RangeEffect ==
    /\ effectDue
    /\ effectDue' = FALSE
    /\ Send("effect")
    /\ IF range \in cache
       THEN stats' = range /\ shownOnce' = TRUE /\ loading' = FALSE
       ELSE loading' = (loading \/ ~shownOnce) /\ UNCHANGED <<stats, shownOnce>>
    /\ UNCHANGED <<range, cache>>

Reload ==
    /\ ~effectDue
    /\ Send("reload")
    /\ UNCHANGED <<range, effectDue, cache, stats, shownOnce, loading>>

\* Mutant: every answer is applied.
AnyAnswer(n) == TRUE
Latest(n) == n = fetchSeq

\* What an answer to the n-th fetch, or its failure, does to the component.
Apply(n, shown) ==
    /\ stats' = shown
    /\ loading' = FALSE

Ignore == UNCHANGED <<stats, loading>>
Settle(n) == sent' = [sent EXCEPT ![n] = NotSent]

FetchAnswered(n) ==
    /\ sent[n].state = "pending"
    /\ Settle(n)
    /\ IF Latest(n)
       THEN /\ Apply(n, sent[n].range)
            /\ cache' = cache \cup {sent[n].range}
            /\ shownOnce' = TRUE
       ELSE Ignore /\ UNCHANGED <<cache, shownOnce>>
    /\ UNCHANGED <<range, effectDue, fetchSeq>>

FetchFails(n) ==
    /\ sent[n].state = "pending"
    /\ Settle(n)
    /\ IF Latest(n) THEN Apply(n, "none") ELSE Ignore
    /\ UNCHANGED <<range, effectDue, fetchSeq, cache, shownOnce>>

FetchAborted(n) ==
    /\ sent[n].state = "aborted"
    /\ Settle(n)
    /\ UNCHANGED <<range, effectDue, fetchSeq, cache, stats, shownOnce, loading>>

OverviewNext ==
    \/ \E r \in Ranges : SelectRange(r)
    \/ RangeEffect
    \/ Reload
    \/ \E n \in 1..MaxSeq : FetchAnswered(n) \/ FetchFails(n) \/ FetchAborted(n)

OverviewSpec == OverviewInit /\ [][OverviewNext]_overviewVars

-----------------------------------------------------------------------------

(***************************************************************************)
(* As soon as the latest fetch has come to its end the page no longer      *)
(* says that it loads, and shows the numbers of the selected range or      *)
(* none, although the spinner and the numbers are set by the effect, the   *)
(* cache, reloads and aborted fetches, in any order.                       *)
(***************************************************************************)
OverviewSettles ==
    (\A n \in 1..MaxSeq : n = fetchSeq => sent[n].state = "none")
        /\ ~effectDue
        => ~loading /\ stats \in {range, "none"}

=============================================================================
