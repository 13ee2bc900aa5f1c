--------------------------- MODULE CrashEligibility ---------------------------
(***************************************************************************)
(* Whether a player may bet on Crash (admin-api/src/crash-players): the    *)
(* control row in the database, and copies of it that live for some 45     *)
(* seconds, in Redis or, when Redis fails, in memory.  Bets read a copy,   *)
(* and the row if there is none, which they then copy; entering the lobby  *)
(* copies the row anew.  A ban, a limit or a clear writes the row and,     *)
(* also if that fails, deletes the copies.                                 *)
(***************************************************************************)

CONSTANTS
    Checks,        \* bets and lobby visits under way
    EligAdmins     \* admin requests under way

VARIABLES
    control,     \* the row's status; ACTIVE if there is no row
    copy,        \* copy[s]: the status that store s holds, or none
    check,       \* check[b]: the status that b has read from the row, or none
    eligEdit,    \* eligEdit[e]: what request e is about to do
    raced        \* a copy was made or kept that its row contradicts

eligVars == <<control, copy, check, eligEdit, raced>>

Stores == {"redis", "memory"}
EligStatuses == {"ACTIVE", "LIMITED", "BANNED"}
Copies == EligStatuses \cup {"none"}
NoEligEdit == [at |-> "idle", status |-> "ACTIVE"]

EligTypeOK ==
    /\ control \in EligStatuses
    /\ copy \in [Stores -> Copies]
    /\ check \in [Checks -> Copies]
    /\ eligEdit \in [EligAdmins -> [at : {"idle", "write", "invalidate"},
                                    status : EligStatuses]]
    /\ raced \in BOOLEAN

EligInit ==
    /\ control \in EligStatuses
    /\ copy = [s \in Stores |-> "none"]
    /\ check = [b \in Checks |-> "none"]
    /\ eligEdit = [e \in EligAdmins |-> NoEligEdit]
    /\ raced = FALSE

-----------------------------------------------------------------------------

\* resolveControlSnapshot of a bet that finds no copy, because there is none
\* in the store it asks or Redis failed, and refreshControlFromDb.
ReadControl(b) ==
    /\ check[b] = "none"
    /\ check' = [check EXCEPT ![b] = control]
    /\ UNCHANGED <<control, copy, eligEdit, raced>>

\* SETEX, or memorySet if Redis has no client or fails.
FillCopy(b, s) ==
    /\ check[b] # "none"
    /\ copy' = [copy EXCEPT ![s] = check[b]]
    /\ check' = [check EXCEPT ![b] = "none"]
    /\ raced' = (raced \/ check[b] # control)
    /\ UNCHANGED <<control, eligEdit>>

\* Mutant: the copy is stored without a time to live.
NeverExpires(s) == FALSE
MayExpire(s) == copy[s] # "none"

StillRaced(after) == raced /\ \E s \in Stores : after[s] # "none"

ExpireCopy(s) ==
    /\ MayExpire(s)
    /\ copy' = [copy EXCEPT ![s] = "none"]
    /\ raced' = StillRaced(copy')
    /\ UNCHANGED <<control, check, eligEdit>>

EligOps == {"ban", "limit", "clear",
            "globalBan", "globalLimit", "globalUnban", "globalUnlimit"}
StatusOf(op) == CASE op \in {"ban", "globalBan"} -> "BANNED"
                  [] op \in {"limit", "globalLimit"} -> "LIMITED"
                  [] OTHER -> "ACTIVE"

\* A banned player is not banned again, nor limited before the ban is lifted;
\* a global unban or unlimit deletes only a row of that status.
NothingToWrite(op) ==
    \/ op \in {"ban", "limit"} /\ control = "BANNED"
    \/ op = "globalUnban" /\ control # "BANNED"
    \/ op = "globalUnlimit" /\ control # "LIMITED"

FindControl(e, op) ==
    /\ eligEdit[e].at = "idle"
    /\ eligEdit' = [eligEdit EXCEPT ![e] =
          [at |-> IF NothingToWrite(op) THEN "invalidate" ELSE "write",
           status |-> StatusOf(op)]]
    /\ UNCHANGED <<control, copy, check, raced>>

\* Mutant: nothing is deleted after the write.
NoInvalidate == "idle"
NextAfterWrite == "invalidate"

\* The upsert or deleteMany, which may fail.
WriteControl(e) ==
    /\ eligEdit[e].at = "write"
    /\ control' \in {control, eligEdit[e].status}
    /\ eligEdit' = [eligEdit EXCEPT ![e].at = NextAfterWrite]
    /\ UNCHANGED <<copy, check, raced>>

\* The finally: a DEL that Redis does not execute is not noticed.
InvalidateCopies(e) ==
    /\ eligEdit[e].at = "invalidate"
    /\ \E deleted \in {{"memory"}, Stores} :
          /\ copy' = [s \in Stores |-> IF s \in deleted THEN "none" ELSE copy[s]]
          /\ raced' = \/ StillRaced(copy')
                      \/ \E s \in Stores : copy'[s] \notin {"none", control}
    /\ eligEdit' = [eligEdit EXCEPT ![e] = NoEligEdit]
    /\ UNCHANGED <<control, check>>

EligNext ==
    \/ \E b \in Checks : ReadControl(b) \/ \E s \in Stores : FillCopy(b, s)
    \/ \E s \in Stores : ExpireCopy(s)
    \/ \E e \in EligAdmins :
          \/ \E op \in EligOps : FindControl(e, op)
          \/ WriteControl(e) \/ InvalidateCopies(e)

\* Time passes, and a lookup or request that has begun comes to its end.
CheckEnds(b) == \E s \in Stores : FillCopy(b, s)
EditEnds(e) == WriteControl(e) \/ InvalidateCopies(e)
EligFairness ==
    /\ \A s \in Stores : WF_eligVars(ExpireCopy(s))
    /\ \A b \in Checks : WF_eligVars(CheckEnds(b))
    /\ \A e \in EligAdmins : WF_eligVars(EditEnds(e))

EligSpec == EligInit /\ [][EligNext]_eligVars /\ EligFairness

-----------------------------------------------------------------------------

Settled == \A e \in EligAdmins : eligEdit[e].at = "idle"

(***************************************************************************)
(* Between admin requests, a copy differs from the row only after one of   *)
(* two things: Redis lost a DEL, or a lookup that read the row before a    *)
(* change stored it after the change's invalidation.                       *)
(***************************************************************************)
StaleOnlyByRace ==
    Settled /\ ~raced => \A s \in Stores : copy[s] \in {"none", control}

(***************************************************************************)
(* A ban that nobody lifts is in the end seen by every bet, whatever DEL   *)
(* was lost and whatever lookup raced with it: stale copies expire, and no *)
(* new ones are made.                                                      *)
(***************************************************************************)
BanBitesInTheEnd ==
    <>[](control = "BANNED")
        => <>[](\A s \in Stores : copy[s] \in {"none", "BANNED"})

=============================================================================
