------------------------------ MODULE MinesMode ------------------------------
(***************************************************************************)
(* The switch that stops the Mines game: one Redis key,                    *)
(* mines:system:state, shared with the game API, and the admin requests    *)
(* that write it (admin-api/src/mines-system-control).                     *)
(*                                                                         *)
(* Pause and resume are one SET.  Disable and toggle GET the key, decide,  *)
(* and SET it: the request is two steps, and another admin's request can   *)
(* run between them.                                                       *)
(***************************************************************************)

CONSTANTS
    Admins,        \* admin sessions, each with at most one request under way
    ReadMayFail    \* whether a GET of the key may fail while SETs succeed

ASSUME ReadMayFailAssumption == ReadMayFail \in BOOLEAN

VARIABLES
    stored,        \* the value of the Redis key
    request        \* request[a]: what a's disable or toggle request has read

modeVars == <<stored, request>>

Modes == {"ACTIVE", "NEW_GAMES_DISABLED", "PAUSED"}

Absent == "absent"

\* A request between its GET and its SET, or none.  "answered" is a history
\* variable, which no step reads: Redis answered the GET.
NoRequest == [kind |-> "none", seen |-> "ACTIVE", answered |-> TRUE]
Requests ==
    [kind : {"none", "disable", "toggle"}, seen : Modes, answered : BOOLEAN]

ModeTypeOK ==
    /\ stored \in Modes \cup {Absent}
    /\ request \in [Admins -> Requests]

ModeInit ==
    /\ stored \in Modes \cup {Absent}
    /\ request = [a \in Admins |-> NoRequest]

\* read() answers ACTIVE for an absent key and for a GET that fails.
CurrentMode == IF stored = Absent THEN "ACTIVE" ELSE stored
ReadOutcomes ==
    {[mode |-> CurrentMode, answered |-> TRUE]}
    \cup (IF ReadMayFail THEN {[mode |-> "ACTIVE", answered |-> FALSE]} ELSE {})

\* Mutant: toggle forgets that a paused game must be resumed first.
ToggleIgnoresPause(kind, seen) == kind = "toggle" \/ seen # "PAUSED"

\* The guard of disable (a silent no-op when paused) and of toggle (a 400).
MayProceed(kind, seen) == seen # "PAUSED"

Idle(a) == request[a].kind = "none"

-----------------------------------------------------------------------------

Pause(a) ==
    /\ Idle(a)
    /\ stored' = "PAUSED"
    /\ UNCHANGED request

Resume(a) ==
    /\ Idle(a)
    /\ stored' = "ACTIVE"
    /\ UNCHANGED request

\* What disable writes does not depend on what it read.
Remembered(kind, seen) == IF kind = "toggle" THEN seen ELSE "ACTIVE"

\* The GET of a disable or toggle request that will go on to its SET.
ReadMode(a, kind) ==
    /\ Idle(a)
    /\ \E read \in ReadOutcomes :
          /\ MayProceed(kind, read.mode)
          /\ request' = [request EXCEPT
                ![a] = [kind |-> kind, seen |-> Remembered(kind, read.mode),
                        answered |-> read.answered]]
    /\ UNCHANGED stored

DisableWrite(a) ==
    /\ request[a].kind = "disable"
    /\ stored' = "NEW_GAMES_DISABLED"
    /\ request' = [request EXCEPT ![a] = NoRequest]

ToggleWrite(a) ==
    /\ request[a].kind = "toggle"
    /\ stored' = IF request[a].seen = "ACTIVE" THEN "NEW_GAMES_DISABLED"
                                               ELSE "ACTIVE"
    /\ request' = [request EXCEPT ![a] = NoRequest]

\* No client, or a SET that Redis never got: the request ends in an error.
WriteFails(a) ==
    /\ ~Idle(a)
    /\ request' = [request EXCEPT ![a] = NoRequest]
    /\ UNCHANGED stored

ModeStep(a) ==
    \/ Pause(a)
    \/ Resume(a)
    \/ \E kind \in {"disable", "toggle"} : ReadMode(a, kind)
    \/ DisableWrite(a)
    \/ ToggleWrite(a)
    \/ WriteFails(a)

ModeNext == \E a \in Admins : ModeStep(a)

ModeSpec == ModeInit /\ [][ModeNext]_modeVars

-----------------------------------------------------------------------------

InFlight == {a \in Admins : ~Idle(a)}
\* Those that know the mode, as their GET did not fail.
Informed == {a \in InFlight : request[a].answered}

(***************************************************************************)
(* What of a pause can be relied on.  While the key is PAUSED no disable   *)
(* or toggle gets past its read but one whose GET fails, for read()        *)
(* answers ACTIVE then; so the requests that read the key before the pause *)
(* and can still overwrite it only become fewer.  And the pause ends by a  *)
(* resume, or by a request that was in flight and is not any more.         *)
(***************************************************************************)
PauseDrains ==
    [][stored = "PAUSED" =>
          /\ Informed' \subseteq Informed
          /\ \/ stored' = "PAUSED"
             \/ \E a \in Admins : Resume(a)
             \/ \E a \in InFlight : a \notin InFlight']_modeVars

(***************************************************************************)
(* What the pause dialog of the admin UI promises: no new games, reveals   *)
(* or cashouts until you resume.  The key leaves PAUSED by a resume only.  *)
(***************************************************************************)
PauseHoldsUntilResume ==
    [][stored = "PAUSED" =>
          stored' = "PAUSED" \/ \E a \in Admins : Resume(a)]_modeVars

=============================================================================
