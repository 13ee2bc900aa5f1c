------------------------------ MODULE Restrictions -----------------------------
(***************************************************************************)
(* The restriction of one player of roulette or Towers: a row in the       *)
(* database, a copy of it in Redis that the game reads, and counters in    *)
(* Redis of what the player has wagered under a limit.  A request writes   *)
(* the row and then Redis, each in a step of its own; bans and unbans read *)
(* the row first and write back the limit they saw.                        *)
(***************************************************************************)
EXTENDS Integers

CONSTANTS
    RestrictRequests,       \* requests of the admin panel that may be underway
    Limits,                 \* wager limits other than none
    MaxRestrictCalls,       \* bound: requests in a behaviour
    MaxRestrictFaults       \* bound: failures of Redis and restarts

ASSUME RestrictAssumption ==
    /\ MaxRestrictCalls \in Nat
    /\ MaxRestrictFaults \in Nat

VARIABLES
    restriction,        \* the row
    restrictionCopy,    \* roulette:restriction:<u>, a field of towers:restrictions
    counters,           \* the player has a wager counter
    restricting,        \* restricting[q]: the request and where it is
    bet,                \* the copy that a bet underway has read
    inDoubt,           \* ghost: since the last repair requests have overlapped,
                        \*   Redis has missed a write, or a bet came late
    restrictCalls, restrictFaults

restrictVars == <<restriction, restrictionCopy, counters, restricting, bet, inDoubt,
                  restrictCalls, restrictFaults>>

NoRestriction == [banned |-> FALSE, limit |-> "absent"]
Restriction == {NoRestriction} \cup [banned : BOOLEAN, limit : Limits \cup {"none"}]
HasLimit(r) == r.limit \in Limits

NoRestrictCall == [at |-> "idle", kind |-> "none", saved |-> NoRestriction, alone |-> TRUE]
RestrictKinds == {"set", "ban", "unban", "delete"}
RestrictCalls ==
    [at : {"idle", "find", "upsert", "remove", "cache", "uncache", "counters"},
     kind : RestrictKinds \cup {"none"}, saved : Restriction, alone : BOOLEAN]
NoBet == [limit |-> "no bet"]

RestrictTypeOK ==
    /\ restriction \in Restriction
    /\ restrictionCopy \in Restriction
    /\ counters \in BOOLEAN
    /\ restricting \in [RestrictRequests -> RestrictCalls]
    /\ bet \in {NoBet} \cup Restriction
    /\ inDoubt \in BOOLEAN
    /\ restrictCalls \in 0..MaxRestrictCalls
    /\ restrictFaults \in 0..MaxRestrictFaults

RestrictInit ==
    /\ restriction = NoRestriction
    /\ restrictionCopy = NoRestriction
    /\ counters = FALSE
    /\ restricting = [q \in RestrictRequests |-> NoRestrictCall]
    /\ bet = NoBet
    /\ inDoubt = FALSE
    /\ restrictCalls = 0
    /\ restrictFaults = 0

Restricting == {q \in RestrictRequests : restricting[q].at # "idle"}

(* -------------------------------- requests ------------------------------- *)

BeginRestrict(q, kind, first, saved) ==
    /\ restricting[q].at = "idle"
    /\ restrictCalls < MaxRestrictCalls
    /\ restrictCalls' = restrictCalls + 1
    /\ restricting' =
         [p \in RestrictRequests |->
            IF p = q THEN [at |-> first, kind |-> kind, saved |-> saved,
                           alone |-> Restricting = {}]
            ELSE IF p \in Restricting THEN [restricting[p] EXCEPT !.alone = FALSE]
            ELSE restricting[p]]
    /\ UNCHANGED <<restriction, restrictionCopy, counters, bet, inDoubt, restrictFaults>>

SetRestriction(q) == \E banned \in BOOLEAN, limit \in Limits \cup {"none"} :
    BeginRestrict(q, "set", "upsert", [banned |-> banned, limit |-> limit])
BanOrUnban(q) == \E kind \in {"ban", "unban"} :
    BeginRestrict(q, kind, "find", NoRestriction)
DeleteRestriction(q) == BeginRestrict(q, "delete", "remove", NoRestriction)

\* The request goes on, or ends; at its end it has repaired Redis if it was
\* alone from its first step to its last.
Reach(q, at) == restricting' = [restricting EXCEPT ![q].at = at]
EndRestrict(q) == restricting' = [restricting EXCEPT ![q] = NoRestrictCall]
DoubtAfter(q) == ~restricting[q].alone

\* A ban keeps the limit that the row has, if there is one; an unban as well,
\* and does nothing without a row.
KeptLimit(r) == IF r = NoRestriction THEN "none" ELSE r.limit

FindRestriction(q) ==
    /\ restricting[q].at = "find"
    /\ IF restricting[q].kind = "unban" /\ restriction = NoRestriction
       THEN EndRestrict(q)
       ELSE restricting' =
              [restricting EXCEPT
                 ![q].at = "upsert",
                 ![q].saved = [banned |-> restricting[q].kind = "ban",
                               limit |-> KeptLimit(restriction)]]
    /\ UNCHANGED <<restriction, restrictionCopy, counters, bet, inDoubt,
                   restrictCalls, restrictFaults>>

UpsertRestriction(q) ==
    /\ restricting[q].at = "upsert"
    /\ restriction' = restricting[q].saved
    /\ Reach(q, "cache")
    /\ UNCHANGED <<restrictionCopy, counters, bet, inDoubt, restrictCalls, restrictFaults>>

\* deleteMany does not say whether there was a row.
OnlyIfThere(r) == IF r = NoRestriction THEN "idle" ELSE "uncache"
AfterRemoval(r) == "uncache"

RemoveRestriction(q) ==
    /\ restricting[q].at = "remove"
    /\ restriction' = NoRestriction
    /\ IF AfterRemoval(restriction) = "idle"
       THEN EndRestrict(q) /\ inDoubt' = DoubtAfter(q)
       ELSE Reach(q, AfterRemoval(restriction)) /\ UNCHANGED inDoubt
    /\ UNCHANGED <<restrictionCopy, counters, bet, restrictCalls, restrictFaults>>

\* syncRestrictionCacheAfterUpsert: the copy, and the counters unless they are
\* those of a limit.
CacheRestriction(q) ==
    /\ restricting[q].at = "cache"
    /\ restrictionCopy' = restricting[q].saved
    /\ IF HasLimit(restricting[q].saved)
       THEN EndRestrict(q) /\ inDoubt' = DoubtAfter(q)
       ELSE Reach(q, "counters") /\ UNCHANGED inDoubt
    /\ UNCHANGED <<restriction, counters, bet, restrictCalls, restrictFaults>>

UncacheRestriction(q) ==
    /\ restricting[q].at = "uncache"
    /\ restrictionCopy' = NoRestriction
    /\ Reach(q, "counters")
    /\ UNCHANGED <<restriction, counters, bet, inDoubt, restrictCalls, restrictFaults>>

DeleteWagerKeys(q) ==
    /\ restricting[q].at = "counters"
    /\ counters' = FALSE
    /\ EndRestrict(q)
    /\ inDoubt' = DoubtAfter(q)
    /\ UNCHANGED <<restriction, restrictionCopy, bet, restrictCalls, restrictFaults>>

\* The database fails: the request ends with nothing written.
RestrictQueryFails(q) ==
    /\ restricting[q].at \in {"find", "upsert", "remove"}
    /\ restrictFaults < MaxRestrictFaults
    /\ restrictFaults' = restrictFaults + 1
    /\ EndRestrict(q)
    /\ UNCHANGED <<restriction, restrictionCopy, counters, bet, inDoubt, restrictCalls>>

\* Redis fails and the request with it; without a client the request skips what
\* it has to do in Redis and succeeds.
RestrictRedisFails(q) ==
    /\ restricting[q].at \in {"cache", "uncache", "counters"}
    /\ restrictFaults < MaxRestrictFaults
    /\ restrictFaults' = restrictFaults + 1
    /\ inDoubt' = TRUE
    /\ EndRestrict(q)
    /\ UNCHANGED <<restriction, restrictionCopy, counters, bet, restrictCalls>>

\* A restart ends the requests; the bootstrap service writes the rows there are
\* to Redis, but a copy without a row stays.  It gives up if Redis is not there.
RestartRestrictions ==
    /\ restrictFaults < MaxRestrictFaults
    /\ restrictFaults' = restrictFaults + 1
    /\ restricting' = [q \in RestrictRequests |-> NoRestrictCall]
    /\ \/ /\ restriction # NoRestriction
          /\ restrictionCopy' = restriction
          /\ counters' = (counters /\ HasLimit(restriction))
          /\ inDoubt' = FALSE
       \/ /\ inDoubt' = (inDoubt \/ Restricting # {})
          /\ UNCHANGED <<restrictionCopy, counters>>
    /\ UNCHANGED <<restriction, bet, restrictCalls>>

(* --------------------------- the game (outside) -------------------------- *)

\* A bet reads the copy and, if that has a limit, adds to the counter.
ReadCopy ==
    /\ bet = NoBet
    /\ HasLimit(restrictionCopy) /\ ~restrictionCopy.banned
    /\ bet' = restrictionCopy
    /\ UNCHANGED <<restriction, restrictionCopy, counters, restricting, inDoubt,
                   restrictCalls, restrictFaults>>
AddWager ==
    /\ bet # NoBet
    /\ counters' = TRUE
    /\ inDoubt' = (inDoubt \/ ~HasLimit(restrictionCopy))
    /\ bet' = NoBet
    /\ UNCHANGED <<restriction, restrictionCopy, restricting, restrictCalls, restrictFaults>>
CountersExpire ==
    /\ counters /\ counters' = FALSE
    /\ UNCHANGED <<restriction, restrictionCopy, restricting, bet, inDoubt,
                   restrictCalls, restrictFaults>>

RestrictStep(q) ==
    \/ SetRestriction(q) \/ BanOrUnban(q) \/ DeleteRestriction(q)
    \/ FindRestriction(q) \/ UpsertRestriction(q) \/ RemoveRestriction(q)
    \/ CacheRestriction(q) \/ UncacheRestriction(q) \/ DeleteWagerKeys(q)
    \/ RestrictQueryFails(q) \/ RestrictRedisFails(q)

RestrictNext ==
    \/ \E q \in RestrictRequests : RestrictStep(q)
    \/ RestartRestrictions
    \/ ReadCopy \/ AddWager \/ CountersExpire

RestrictSpec == RestrictInit /\ [][RestrictNext]_restrictVars

(* ------------------------------ properties ------------------------------- *)

\* A request that is alone leaves Redis as it should be, whatever was there
\* before it, a delete included that finds no row: when none is underway and
\* nothing has gone wrong since, the game reads the row's restriction, and
\* there are counters only under a limit.
CopyIsRow ==
    (Restricting = {} /\ ~inDoubt) =>
        /\ restrictionCopy = restriction
        /\ counters => HasLimit(restriction)

=============================================================================
