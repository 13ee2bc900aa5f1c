------------------------------- MODULE UsersPage ------------------------------
(***************************************************************************)
(* The user list of the admin web interface (UsersManagementSection.tsx).  *)
(* Every change of a filter or of the page fetches the list, and so does a *)
(* timer; answers are shown in the order in which they arrive, which need  *)
(* not be that of the requests.                                            *)
(***************************************************************************)
EXTENDS Integers

CONSTANTS
    Filters,     \* search text, moderation, login and role, taken together
    PageCount,   \* pages of the list
    Fetches      \* bound: fetches under way at the same time

ASSUME PageAssumption == PageCount \in Nat \ {0}

VARIABLES
    query,       \* the filter and the page that are selected
    fetching,    \* fetching[f]: the query of a fetch under way
    listed,      \* the query whose answer is shown, or nothing
    due          \* renders whose load effect has not run yet

pageVars == <<query, fetching, listed, due>>

Queries == [filter : Filters, page : 1..PageCount]
Nothing == [filter |-> "none", page |-> 0]

PageTypeOK ==
    /\ query \in Queries
    /\ fetching \in [Fetches -> Queries \cup {Nothing}]
    /\ listed \in Queries \cup {Nothing}
    /\ due \in {"none", "load", "loadThenFirst"}

PageInit ==
    /\ query \in {q \in Queries : q.page = 1}
    /\ fetching = [f \in Fetches |-> Nothing]
    /\ listed = Nothing
    /\ due = "load"

FreeFetch(f) == fetching[f] = Nothing

\* A click on another page.
SelectPage(p) ==
    /\ due = "none" /\ p # query.page
    /\ query' = [query EXCEPT !.page = p]
    /\ due' = "load"
    /\ UNCHANGED <<fetching, listed>>

\* A filter, or the search text after its delay.
SelectFilter(x) ==
    /\ due = "none" /\ x # query.filter
    /\ query' = [query EXCEPT !.filter = x]
    /\ due' = "loadThenFirst"
    /\ UNCHANGED <<fetching, listed>>

\* The load effect; of a new filter it runs with the old page, since setPage(1)
\* of the effect before it takes hold in the next render only.
LoadEffect(f) ==
    /\ due # "none" /\ FreeFetch(f)
    /\ fetching' = [fetching EXCEPT ![f] = query]
    /\ IF due = "loadThenFirst" /\ query.page # 1
       THEN query' = [query EXCEPT !.page = 1] /\ due' = "load"
       ELSE due' = "none" /\ UNCHANGED query
    /\ UNCHANGED listed

\* Mutant: the timer asks for the first page.
FirstLoad == [query EXCEPT !.page = 1]
CurrentLoad == query

\* The timer, which is set anew when load changes.
Poll(f) ==
    /\ due = "none" /\ FreeFetch(f)
    /\ fetching' = [fetching EXCEPT ![f] = CurrentLoad]
    /\ UNCHANGED <<query, listed, due>>

\* An answer, or a failure, which empties the list.
Answer(f) ==
    /\ ~FreeFetch(f)
    /\ listed' \in {fetching[f], Nothing}
    /\ fetching' = [fetching EXCEPT ![f] = Nothing]
    /\ UNCHANGED <<query, due>>

PageNext ==
    \/ \E p \in 1..PageCount : SelectPage(p)
    \/ \E x \in Filters : SelectFilter(x)
    \/ \E f \in Fetches : LoadEffect(f) \/ Poll(f) \/ Answer(f)

\* React runs effects, the timer fires, and a fetch is answered or fails.
PageFairness ==
    /\ WF_pageVars(\E f \in Fetches : LoadEffect(f))
    /\ WF_pageVars(\E f \in Fetches : Poll(f))
    /\ \A f \in Fetches : WF_pageVars(Answer(f))

PageSpec == PageInit /\ [][PageNext]_pageVars /\ PageFairness

-----------------------------------------------------------------------------

(***************************************************************************)
(* Answers that arrive out of order may show another query's list for a    *)
(* while, but once the admin stops changing the query the list becomes and *)
(* stays that of the query, or empty after a failure: late answers run     *)
(* out, and the timer asks for what is selected.                           *)
(***************************************************************************)
ListCatchesUp ==
    <>[][FALSE]_query => <>[](listed \in {query, Nothing})

=============================================================================
