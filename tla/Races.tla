--------------------------------- MODULE Races -------------------------------
(***************************************************************************)
(* Wager races (admin-api/src/races): their schedule, the lifecycle cron   *)
(* and the admin requests, each a read and a later write of a Race row.    *)
(*                                                                         *)
(* The game API is external: it credits wagers to the leaderboard and      *)
(* fills race:current, the cached view of the race under way, which every  *)
(* handler below deletes after its write.                                  *)
(***************************************************************************)
EXTENDS Integers

CONSTANTS
    Races, Admins,
    Cron, Viewer,     \* the lifecycle cron; a request for the overview page
    Horizon,          \* bound: the clock stops here
    Windows,          \* the windows admins ask for, <<start, end>>
    SerialModes       \* {TRUE}: one handler at a time; {FALSE}: any overlap

Actors == Admins \cup {Cron, Viewer}

ASSUME RacesAssumptions ==
    /\ Cron \notin Admins /\ Viewer \notin Admins /\ Cron # Viewer
    /\ Horizon \in Nat
    /\ Windows \subseteq (0..Horizon) \X (0..Horizon)
    /\ SerialModes \in SUBSET BOOLEAN

VARIABLES
    now,
    race,      \* the Race rows
    ranks,     \* finalRank of the race's participants: unset, those of the
               \* leaderboard as it stands, or overtaken by a later wager
    current,   \* race:current: absent, fresh, stale, or stale and forgotten
    task,      \* what each actor is in the middle of
    serial     \* whether handlers overlap; fixed

raceVars == <<race, ranks>>
vars == <<now, raceVars, current, task, serial>>

Live == {"ACTIVE", "PAUSED"}
Open == {"SCHEDULED"} \cup Live
Terminal == {"FINISHED", "CANCELLED"}

NoRace == [status |-> "none", start |-> 0, end |-> 0, tracking |-> TRUE]
RaceRows == [status : {"none"} \cup Open \cup Terminal,
             start : 0..Horizon, end : 0..Horizon, tracking : BOOLEAN]

\* kind: the write to come; target: the races it is for; seen: the time the
\* cron took on entry; dirty: it has written and has yet to delete the key.
Kinds == {"none", "create", "cancel", "pause", "resume", "end", "freeze",
          "thaw", "promote", "expire"}
Free == [kind |-> "none", target |-> {}, window |-> <<0, 0>>, seen |-> 0,
         dirty |-> FALSE]
Tasks == [kind : Kinds, target : SUBSET Races,
          window : (0..Horizon) \X (0..Horizon), seen : 0..Horizon,
          dirty : BOOLEAN]

TypeOK ==
    /\ now \in 0..Horizon
    /\ race \in [Races -> RaceRows]
    /\ ranks \in [Races -> {"none", "final", "overtaken"}]
    /\ current \in {"absent", "fresh", "stale", "forgotten"}
    /\ task \in [Actors -> Tasks]
    /\ serial \in BOOLEAN

Init ==
    /\ now = 0
    /\ race = [r \in Races |-> NoRace]
    /\ ranks = [r \in Races |-> "none"]
    /\ current = "absent"
    /\ task = [a \in Actors |-> Free]
    /\ serial \in SerialModes

-----------------------------------------------------------------------------
(* The clock and the game API.                                             *)

Tick ==
    /\ now < Horizon
    /\ now' = now + 1
    /\ UNCHANGED <<raceVars, current, task, serial>>

\* A wager counts in a race that is under way and not frozen.
Wager(r) ==
    /\ race[r].status = "ACTIVE" /\ race[r].tracking
    /\ race[r].start <= now /\ now < race[r].end
    /\ ranks' = [ranks EXCEPT ![r] = IF @ = "final" THEN "overtaken" ELSE @]
    /\ UNCHANGED <<now, race, current, task, serial>>

FillCurrent ==
    /\ current = "absent"
    /\ current' = "fresh"
    /\ UNCHANGED <<now, raceVars, task, serial>>

-----------------------------------------------------------------------------
(* A handler: read and check, write, delete race:current.                  *)

Busy(a) == task[a].kind # "none"

Begin(a, kind, target, window) ==
    /\ ~Busy(a)
    /\ serial => \A other \in Actors : ~Busy(other)
    /\ task' = [task EXCEPT ![a] = [Free EXCEPT !.kind = kind,
                                                !.target = target,
                                                !.window = window,
                                                !.seen = IF a = Cron THEN now ELSE 0]]
    /\ UNCHANGED <<now, raceVars, current, serial>>

\* Mutant: a handler deletes the key before its write, not after it.
SweepsFirst(a) == FALSE
SweepsAfterWrite(a) == TRUE

\* The row is written, and the key no longer shows it.
Wrote(a, rest) ==
    /\ task' = [task EXCEPT ![a] = [@ EXCEPT !.target = rest,
                                             !.dirty = SweepsAfterWrite(a)]]
    /\ current' = IF current = "absent" THEN "absent" ELSE "stale"
    /\ UNCHANGED <<now, serial>>

Finished(a) == task' = [task EXCEPT ![a] = Free]

\* DEL race:current; an admin's handler and the cron's promotion have no more
\* to do.
Sweep(a) ==
    /\ task[a].dirty /\ task[a].target = {}
    /\ current' = "absent"
    /\ IF a = Cron /\ task[a].kind = "promote"
       THEN task' = [task EXCEPT ![a].dirty = FALSE]
       ELSE Finished(a)
    /\ UNCHANGED <<now, raceVars, serial>>

Status(r) == race[r].status

\* Mutant: only a race that has not begun is in the way of another.
OverlapsScheduled(r, window) ==
    /\ Status(r) = "SCHEDULED"
    /\ race[r].start < window[2] /\ race[r].end > window[1]
Overlaps(r, window) ==
    /\ Status(r) \in Open
    /\ race[r].start < window[2] /\ race[r].end > window[1]

BeginCreate(a, window) ==
    /\ window[1] < window[2]
    /\ \A r \in Races : ~Overlaps(r, window)
    /\ Begin(a, "create", {}, window)

InitialStatus(window) == IF window[1] > now THEN "SCHEDULED" ELSE "ACTIVE"

Create(a, r) ==
    LET window == task[a].window IN
    /\ task[a].kind = "create" /\ ~task[a].dirty
    /\ Status(r) = "none"
    /\ race' = [race EXCEPT ![r] =
          [status |-> InitialStatus(window),
           start |-> window[1], end |-> window[2], tracking |-> TRUE]]
    /\ UNCHANGED ranks
    /\ Wrote(a, {})

\* What the checks of cancelRace, setPaused and setTrackingPaused let pass.
Allowed(kind, status) ==
    \/ kind = "cancel" /\ status \in Open
    \/ kind = "resume" /\ status = "PAUSED"
    \/ kind \in {"pause", "freeze", "thaw"} /\ status = "ACTIVE"

AdminKinds == {"cancel", "pause", "resume", "freeze", "thaw"}

BeginUpdate(a, kind, r) ==
    /\ Status(r) # "none"
    /\ Allowed(kind, Status(r))
    /\ Begin(a, kind, {r}, Free.window)

StatusAfter(kind, status) == CASE kind = "cancel" -> "CANCELLED"
                               [] kind = "pause"  -> "PAUSED"
                               [] kind = "resume" -> "ACTIVE"
                               [] OTHER           -> status
TrackingAfter(kind, tracking) ==
    kind \in {"cancel", "thaw"} \/ (kind # "freeze" /\ tracking)

\* The update is by id: whatever the row has become, it is overwritten.
Update(a, r) ==
    LET kind == task[a].kind IN
    /\ kind \in AdminKinds /\ r \in task[a].target
    /\ race' = [race EXCEPT
          ![r] = [@ EXCEPT !.status = StatusAfter(kind, race[r].status),
                           !.tracking = TrackingAfter(kind, race[r].tracking)]]
    /\ UNCHANGED ranks
    /\ Wrote(a, {})

BeginEnd(a, r) ==
    /\ Status(r) # "none"
    /\ Begin(a, "end", {r}, Free.window)

\* Mutant: the row is locked but not looked at again.
FinishUnchecked(r) == TRUE
MayFinish(r) == Status(r) \in Live

\* Mutant: participants that have a finalRank keep it.
RanksOnce(r) == IF ranks[r] = "none" THEN "final" ELSE ranks[r]
RanksAfterFinish(r) == "final"

\* finishRace: SELECT ... FOR UPDATE, the check, the ranks and the status are
\* one transaction on one locked row.
Finish(a, r) ==
    /\ task[a].kind \in {"end", "expire"} /\ r \in task[a].target
    /\ IF MayFinish(r)
       THEN /\ ranks' = [ranks EXCEPT ![r] = RanksAfterFinish(r)]
            /\ race' = [race EXCEPT ![r] = [@ EXCEPT !.status = "FINISHED",
                                                     !.tracking = TRUE]]
            /\ Wrote(a, task[a].target \ {r})
       ELSE /\ IF task[a].kind = "end" THEN Finished(a)
               ELSE task' = [task EXCEPT ![a].target = @ \ {r}]
            /\ UNCHANGED <<now, raceVars, current, serial>>

-----------------------------------------------------------------------------
(* The cron, and the overview page, which promotes too.                    *)

Due(r) == Status(r) = "SCHEDULED" /\ race[r].start <= now /\ now < race[r].end

BeginPromote(a) ==
    /\ a \in {Cron, Viewer}
    /\ Begin(a, "promote", {r \in Races : Due(r)}, Free.window)

Promote(a, r) ==
    /\ task[a].kind = "promote" /\ r \in task[a].target
    /\ race' = [race EXCEPT ![r].status = "ACTIVE"]
    /\ task' = [task EXCEPT ![a] = [@ EXCEPT !.target = task[a].target \ {r},
                                             !.dirty = (a = Cron)]]
    /\ current' = IF current = "absent" THEN "absent"
                  ELSE IF a = Viewer /\ current # "stale" THEN "forgotten"
                  ELSE "stale"
    /\ UNCHANGED <<now, ranks, serial>>

\* Mutant: a paused race does not expire.
ExpiredActive(r, seen) == Status(r) = "ACTIVE" /\ race[r].end <= seen
Expired(r, seen) == Status(r) \in Live /\ race[r].end <= seen

\* The cron goes on with the races that were over when it began.
EndPromote(a) ==
    /\ task[a].kind = "promote" /\ task[a].target = {} /\ ~task[a].dirty
    /\ IF a = Cron
       THEN task' = [task EXCEPT ![a] =
              [@ EXCEPT !.kind = "expire",
                        !.target = {r \in Races : Expired(r, task[a].seen)}]]
       ELSE Finished(a)
    /\ UNCHANGED <<now, raceVars, current, serial>>

\* A tick that finished no race deletes nothing.
EndExpire ==
    /\ task[Cron].kind = "expire" /\ task[Cron].target = {} /\ ~task[Cron].dirty
    /\ Finished(Cron)
    /\ UNCHANGED <<now, raceVars, current, serial>>

-----------------------------------------------------------------------------

HandlerStep(a) ==
    \/ \E r \in Races : Create(a, r) \/ Update(a, r) \/ Finish(a, r)
                        \/ Promote(a, r)
    \/ EndPromote(a)
    \/ Sweep(a)

AdminRequest(a) ==
    \/ \E window \in Windows : BeginCreate(a, window)
    \/ \E r \in Races, kind \in AdminKinds : BeginUpdate(a, kind, r)
    \/ \E r \in Races : BeginEnd(a, r)

Next ==
    \/ Tick
    \/ FillCurrent
    \/ \E r \in Races : Wager(r)
    \/ \E a \in Admins : AdminRequest(a)
    \/ \E a \in {Cron, Viewer} : BeginPromote(a)
    \/ \E a \in Actors : HandlerStep(a)
    \/ EndExpire

Spec == Init /\ [][Next]_vars

CronStep == BeginPromote(Cron) \/ HandlerStep(Cron) \/ EndExpire

\* Time passes and the cron keeps running.
FairSpec == Spec /\ WF_vars(Tick) /\ WF_vars(CronStep)
-----------------------------------------------------------------------------

(***************************************************************************)
(* The recorded ranks of a finished race are those of its leaderboard,     *)
(* also when a late update brought the race back after it was finished     *)
(* once and wagers went on (finishRace).                                   *)
(***************************************************************************)
RanksAreFinal ==
    \A r \in Races : Status(r) = "FINISHED" => ranks[r] = "final"

(***************************************************************************)
(* A stale race:current never outlives the handler that made it stale: one *)
(* that is about to delete it is still at work.  The overview page, which  *)
(* promotes and deletes nothing, is left out: its staleness is forgotten.  *)
(***************************************************************************)
StaleOnlyUntilSwept ==
    current = "stale" => \E a \in Actors : task[a].dirty

(***************************************************************************)
(* "Another scheduled or live race overlaps this time range" (createRace): *)
(* with one handler at a time, no two open races overlap, whatever was     *)
(* ended early, cancelled, promoted or paused in between.                  *)
(***************************************************************************)
NoOverlap ==
    serial => \A r, s \in Races :
        r # s /\ Status(r) \in Open
            => ~Overlaps(s, <<race[r].start, race[r].end>>)

(***************************************************************************)
(* "Race already ended" (cancelRace): with one handler at a time, what is  *)
(* finished or cancelled stays so.                                         *)
(***************************************************************************)
EndedStaysEnded ==
    [][serial => \A r \in Races :
          Status(r) \in Terminal => Status(r)' = Status(r)]_vars

(***************************************************************************)
(* The same promise for handlers that overlap.                             *)
(***************************************************************************)
EndedStaysEndedAlways ==
    [][\A r \in Races : Status(r) \in Terminal => Status(r)' = Status(r)]_vars

(***************************************************************************)
(* "finalizes expired live races" (RaceLifecycleCron): a race whose time   *)
(* is over does not stay live, although admins and the overview interfere. *)
(***************************************************************************)
ExpiredRaceEnds ==
    \A r \in Races :
        ~serial /\ Status(r) \in Live /\ race[r].end <= now
            ~> Status(r) \in Terminal

=============================================================================
