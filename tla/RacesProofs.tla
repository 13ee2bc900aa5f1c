----------------------------- MODULE RacesProofs -----------------------------
(***************************************************************************)
(* Proofs about Races for any races, admins, windows and horizon: type     *)
(* correctness, final ranks and the cache hold however handlers overlap;   *)
(* disjoint windows and final endings hold when they do not.               *)
(***************************************************************************)
EXTENDS Races, TLAPS

USE DEF raceVars

-----------------------------------------------------------------------------
(* Type correctness.                                                       *)

\* The task of one actor, replaced by a well-typed one.
LEMMA TaskUpdate ==
    ASSUME task \in [Actors -> Tasks], NEW a \in Actors, NEW x \in Tasks
    PROVE  [task EXCEPT ![a] = x] \in [Actors -> Tasks]
OBVIOUS

\* A race's row, replaced by a well-typed one.
LEMMA RaceUpdate ==
    ASSUME race \in [Races -> RaceRows], NEW r \in Races, NEW x \in RaceRows
    PROVE  [race EXCEPT ![r] = x] \in [Races -> RaceRows]
OBVIOUS

\* An idle actor's task is a task.
LEMMA FreeType == Free \in Tasks
BY RacesAssumptions DEF Free, Tasks, Kinds

\* Beginning a handler keeps the types.
LEMMA BeginType ==
    ASSUME TypeOK, NEW a \in Actors, NEW kind \in Kinds,
           NEW target \in SUBSET Races,
           NEW window \in (0..Horizon) \X (0..Horizon),
           Begin(a, kind, target, window)
    PROVE  TypeOK'
<1> DEFINE x == [Free EXCEPT !.kind = kind, !.target = target,
                             !.window = window,
                             !.seen = IF a = Cron THEN now ELSE 0]
<1>1. x \in Tasks
      BY FreeType, RacesAssumptions DEF Tasks, Free, TypeOK
<1>2. task' = [task EXCEPT ![a] = x]
      BY DEF Begin
<1>3. task' \in [Actors -> Tasks]
      BY <1>1, <1>2, TaskUpdate DEF TypeOK
<1> QED BY <1>3 DEF Begin, TypeOK

\* What follows a write of a row keeps the types of all else.
LEMMA WroteType ==
    ASSUME TypeOK, NEW a \in Actors, NEW rest \in SUBSET Races,
           Wrote(a, rest)
    PROVE  /\ task' \in [Actors -> Tasks]
           /\ current' \in {"absent", "fresh", "stale", "forgotten"}
           /\ now' \in 0..Horizon
           /\ serial' \in BOOLEAN
<1> DEFINE x == [task[a] EXCEPT !.target = rest, !.dirty = SweepsAfterWrite(a)]
<1>1. task[a] \in Tasks BY DEF TypeOK
<1>2. x \in Tasks BY <1>1 DEF Tasks, SweepsAfterWrite
<1>3. task' = [task EXCEPT ![a] = x] BY <1>1 DEF Wrote, Tasks, TypeOK
<1>4. task' \in [Actors -> Tasks] BY <1>2, <1>3, TaskUpdate DEF TypeOK
<1> QED BY <1>4 DEF Wrote, TypeOK

\* The steps of a handler under way keep the types.
LEMMA HandlerStepType ==
    ASSUME TypeOK, NEW a \in Actors, HandlerStep(a)
    PROVE  TypeOK'
<1>0. task[a] \in Tasks BY DEF TypeOK
<1>1. ASSUME NEW r \in Races, Create(a, r)
      PROVE  TypeOK'
  <2> DEFINE window == task[a].window
             x == [status |-> InitialStatus(window), start |-> window[1],
                   end |-> window[2], tracking |-> TRUE]
  <2>1. window \in (0..Horizon) \X (0..Horizon) BY <1>0 DEF Tasks
  <2>2. x \in RaceRows BY <2>1 DEF RaceRows, InitialStatus, Open, Live
  <2>3. race' = [race EXCEPT ![r] = x] BY <1>1 DEF Create
  <2>4. race' \in [Races -> RaceRows] BY <2>2, <2>3, RaceUpdate DEF TypeOK
  <2>5. Wrote(a, {}) /\ ranks' = ranks BY <1>1 DEF Create
  <2> QED BY <2>4, <2>5, WroteType DEF TypeOK
<1>2. ASSUME NEW r \in Races, Update(a, r)
      PROVE  TypeOK'
  <2> DEFINE x == [race[r] EXCEPT
                     !.status = StatusAfter(task[a].kind, race[r].status),
                     !.tracking = TrackingAfter(task[a].kind, race[r].tracking)]
  <2>1. race[r] \in RaceRows BY DEF TypeOK
  <2>2. StatusAfter(task[a].kind, race[r].status)
            \in {"none"} \cup Open \cup Terminal
        BY <2>1 DEF RaceRows, Open, Live, Terminal, StatusAfter
  <2>3. TrackingAfter(task[a].kind, race[r].tracking) \in BOOLEAN
        BY DEF TrackingAfter
  <2>4. x \in RaceRows BY <2>1, <2>2, <2>3 DEF RaceRows
  <2>5. race' = [race EXCEPT ![r] = x] BY <1>2, <2>1 DEF Update, TypeOK, RaceRows
  <2>6. race' \in [Races -> RaceRows] BY <2>4, <2>5, RaceUpdate DEF TypeOK
  <2>7. Wrote(a, {}) /\ ranks' = ranks BY <1>2 DEF Update
  <2> QED BY <2>6, <2>7, WroteType DEF TypeOK
<1>3. ASSUME NEW r \in Races, Finish(a, r)
      PROVE  TypeOK'
  <2>1. CASE MayFinish(r)
    <3> DEFINE x == [race[r] EXCEPT !.status = "FINISHED", !.tracking = TRUE]
    <3>1. race[r] \in RaceRows BY DEF TypeOK
    <3>2. x \in RaceRows BY <3>1 DEF RaceRows, Terminal
    <3>3. race' = [race EXCEPT ![r] = x]
          BY <1>3, <2>1, <3>1 DEF Finish, TypeOK, RaceRows
    <3>4. race' \in [Races -> RaceRows] BY <3>2, <3>3, RaceUpdate DEF TypeOK
    <3>5. ranks' \in [Races -> {"none", "final", "overtaken"}]
          BY <1>3, <2>1 DEF Finish, RanksAfterFinish, TypeOK
    <3>6. task[a].target \ {r} \in SUBSET Races BY <1>0 DEF Tasks
    <3>7. Wrote(a, task[a].target \ {r}) BY <1>3, <2>1 DEF Finish
    <3> QED BY <3>4, <3>5, <3>6, <3>7, WroteType DEF TypeOK
  <2>2. CASE ~MayFinish(r)
    <3> DEFINE x == [task[a] EXCEPT !.target = task[a].target \ {r}]
    <3>1. x \in Tasks BY <1>0 DEF Tasks
    <3>2. \/ task' = [task EXCEPT ![a] = x]
          \/ task' = [task EXCEPT ![a] = Free]
          BY <1>3, <2>2 DEF Finish, Finished, TypeOK, Tasks
    <3>3. task' \in [Actors -> Tasks]
          BY <3>1, <3>2, FreeType, TaskUpdate DEF TypeOK
    <3> QED BY <1>3, <2>2, <3>3 DEF Finish, TypeOK
  <2> QED BY <2>1, <2>2
<1>4. ASSUME NEW r \in Races, Promote(a, r)
      PROVE  TypeOK'
  <2> DEFINE x == [race[r] EXCEPT !.status = "ACTIVE"]
             y == [task[a] EXCEPT !.target = task[a].target \ {r},
                                  !.dirty = a = Cron]
  <2>1. race[r] \in RaceRows BY DEF TypeOK
  <2>2. x \in RaceRows BY <2>1 DEF RaceRows, Open, Live
  <2>3. race' = [race EXCEPT ![r] = x]
        BY <1>4, <2>1 DEF Promote, TypeOK, RaceRows
  <2>4. race' \in [Races -> RaceRows] BY <2>2, <2>3, RaceUpdate DEF TypeOK
  <2>5. y \in Tasks BY <1>0 DEF Tasks
  <2>6. task' = [task EXCEPT ![a] = y] BY <1>0, <1>4 DEF Promote, TypeOK, Tasks
  <2>7. task' \in [Actors -> Tasks] BY <2>5, <2>6, TaskUpdate DEF TypeOK
  <2> QED BY <1>4, <2>4, <2>7 DEF Promote, TypeOK
<1>5. CASE EndPromote(a)
  <2> DEFINE x == [task[a] EXCEPT
                     !.kind = "expire",
                     !.target = {r \in Races : Expired(r, task[a].seen)}]
  <2>1. x \in Tasks BY <1>0 DEF Tasks, Kinds
  <2>2. \/ task' = [task EXCEPT ![a] = x]
        \/ task' = [task EXCEPT ![a] = Free]
        BY <1>0, <1>5 DEF EndPromote, Finished, TypeOK, Tasks
  <2>3. task' \in [Actors -> Tasks]
    <3> HIDE DEF x
    <3> QED BY <2>1, <2>2, FreeType, TaskUpdate DEF TypeOK
  <2> QED BY <1>5, <2>3 DEF EndPromote, TypeOK
<1>6. CASE Sweep(a)
  <2> DEFINE x == [task[a] EXCEPT !.dirty = FALSE]
  <2>1. x \in Tasks BY <1>0 DEF Tasks
  <2>2. \/ task' = [task EXCEPT ![a] = x]
        \/ task' = [task EXCEPT ![a] = Free]
        BY <1>0, <1>6 DEF Sweep, Finished, TypeOK, Tasks
  <2>3. task' \in [Actors -> Tasks]
        BY <2>1, <2>2, FreeType, TaskUpdate DEF TypeOK
  <2> QED BY <1>6, <2>3 DEF Sweep, TypeOK
<1> QED BY <1>1, <1>2, <1>3, <1>4, <1>5, <1>6 DEF HandlerStep

\* A request to begin keeps the types, whoever makes it.
LEMMA RequestType ==
    ASSUME TypeOK,
           \/ \E a \in Admins : AdminRequest(a)
           \/ \E a \in {Cron, Viewer} : BeginPromote(a)
    PROVE  TypeOK'
<1>0. Free.window \in (0..Horizon) \X (0..Horizon)
      BY RacesAssumptions DEF Free
<1>1. ASSUME NEW a \in Admins, NEW window \in Windows, BeginCreate(a, window)
      PROVE  TypeOK'
      BY <1>1, BeginType, RacesAssumptions DEF BeginCreate, Actors, Kinds
<1>2. ASSUME NEW a \in Admins, NEW r \in Races, NEW kind \in AdminKinds,
             BeginUpdate(a, kind, r)
      PROVE  TypeOK'
      BY <1>0, <1>2, BeginType DEF BeginUpdate, Actors, Kinds, AdminKinds
<1>3. ASSUME NEW a \in Admins, NEW r \in Races, BeginEnd(a, r)
      PROVE  TypeOK'
      BY <1>0, <1>3, BeginType DEF BeginEnd, Actors, Kinds
<1>4. ASSUME NEW a \in {Cron, Viewer}, BeginPromote(a)
      PROVE  TypeOK'
  <2>1. {r \in Races : Due(r)} \in SUBSET Races OBVIOUS
  <2> QED BY <1>0, <1>4, <2>1, BeginType DEF BeginPromote, Actors, Kinds
<1> QED BY <1>1, <1>2, <1>3, <1>4 DEF AdminRequest

\* The initial state is well typed.
LEMMA InitType == Init => TypeOK
<1> SUFFICES ASSUME Init PROVE TypeOK OBVIOUS
<1>1. NoRace \in RaceRows BY RacesAssumptions DEF NoRace, RaceRows
<1>2. task \in [Actors -> Tasks] BY FreeType DEF Init
<1> QED BY <1>1, <1>2, RacesAssumptions DEF Init, TypeOK

\* Every step, and every step that changes nothing, keeps the types.
LEMMA NextType == TypeOK /\ [Next]_vars => TypeOK'
<1> SUFFICES ASSUME TypeOK, [Next]_vars PROVE TypeOK' OBVIOUS
<1>1. CASE Tick BY <1>1, RacesAssumptions DEF Tick, TypeOK
<1>2. CASE FillCurrent BY <1>2 DEF FillCurrent, TypeOK
<1>3. ASSUME NEW r \in Races, Wager(r) PROVE TypeOK'
      BY <1>3 DEF Wager, TypeOK
<1>4. CASE \/ \E a \in Admins : AdminRequest(a)
           \/ \E a \in {Cron, Viewer} : BeginPromote(a)
      BY <1>4, RequestType
<1>5. ASSUME NEW a \in Actors, HandlerStep(a) PROVE TypeOK'
      BY <1>5, HandlerStepType
<1>6. CASE EndExpire
  <2>1. task' = [task EXCEPT ![Cron] = Free] BY <1>6 DEF EndExpire, Finished
  <2>2. task' \in [Actors -> Tasks]
        BY <2>1, FreeType, TaskUpdate DEF TypeOK, Actors
  <2> QED BY <1>6, <2>2 DEF EndExpire, TypeOK
<1>7. CASE UNCHANGED vars BY <1>7 DEF vars, TypeOK
<1> QED BY <1>1, <1>2, <1>3, <1>4, <1>5, <1>6, <1>7 DEF Next

(***************************************************************************)
(* Type correctness of Races, for every instance: the rows keep to the     *)
(* enum of the Prisma schema and the clock to its bound.                   *)
(***************************************************************************)
THEOREM RacesTypeCorrect == Spec => []TypeOK
<1>1. Init => TypeOK BY InitType
<1>2. TypeOK /\ [Next]_vars => TypeOK' BY NextType
<1> QED BY <1>1, <1>2, PTL DEF Spec

-----------------------------------------------------------------------------
(* The ranks of a finished race.                                           *)

\* No step gives a FINISHED race other ranks than those of its leaderboard.
LEMMA RanksStep == TypeOK /\ RanksAreFinal /\ [Next]_vars => RanksAreFinal'
<1> SUFFICES ASSUME TypeOK, RanksAreFinal, [Next]_vars PROVE RanksAreFinal'
    OBVIOUS
<1> USE DEF RanksAreFinal, Status
<1>1. CASE UNCHANGED raceVars BY <1>1
<1>2. ASSUME NEW r \in Races, Wager(r) PROVE RanksAreFinal'
      BY <1>2 DEF Wager, TypeOK
<1>3. ASSUME NEW a \in Actors, NEW r \in Races, Create(a, r)
      PROVE  RanksAreFinal'
      BY <1>3 DEF Create, InitialStatus, TypeOK, RaceRows
<1>4. ASSUME NEW a \in Actors, NEW r \in Races, Update(a, r)
      PROVE  RanksAreFinal'
      BY <1>4 DEF Update, StatusAfter, TypeOK, RaceRows
<1>5. ASSUME NEW a \in Actors, NEW r \in Races, Finish(a, r)
      PROVE  RanksAreFinal'
      BY <1>5 DEF Finish, RanksAfterFinish, TypeOK, RaceRows
<1>6. ASSUME NEW a \in Actors, NEW r \in Races, Promote(a, r)
      PROVE  RanksAreFinal'
      BY <1>6 DEF Promote, TypeOK, RaceRows
<1> QED BY <1>1, <1>2, <1>3, <1>4, <1>5, <1>6
        DEF Next, AdminRequest, BeginCreate, BeginUpdate, BeginEnd,
            BeginPromote, Begin, HandlerStep, EndPromote, Sweep, EndExpire,
            Tick, FillCurrent, vars

(***************************************************************************)
(* A FINISHED race's recorded ranks are final (finishRace), whatever late  *)
(* updates bring races back and whatever wagers they take meanwhile.       *)
(***************************************************************************)
THEOREM FinishedRanksHold == Spec => []RanksAreFinal
<1>1. Init => RanksAreFinal
      BY DEF Init, RanksAreFinal, Status, NoRace
<1>2. TypeOK /\ RanksAreFinal /\ [Next]_vars => RanksAreFinal' BY RanksStep
<1> QED BY <1>1, <1>2, RacesTypeCorrect, PTL DEF Spec

-----------------------------------------------------------------------------
(* The cached current race.                                                *)

\* Only a handler at work has a key to delete; an admin's has then written all
\* it had to; the overview page never has one.
DirtyAtWork ==
    /\ task[Viewer].kind \in {"none", "promote"} /\ ~task[Viewer].dirty
    /\ task[Cron].kind \in {"none", "promote", "expire"}
    /\ \A a \in Actors : task[a].dirty => Busy(a)
    /\ \A a \in Admins :
          /\ task[a].kind \notin {"promote", "expire"}
          /\ task[a].dirty => task[a].target = {}
          /\ \A r, s \in task[a].target : r = s

CacheInv == DirtyAtWork /\ StaleOnlyUntilSwept

\* A request to begin leaves the cache, and those that must delete it, alone.
LEMMA BeginCache ==
    ASSUME TypeOK, CacheInv, NEW a \in Actors, NEW kind \in Kinds,
           NEW target, NEW window, Begin(a, kind, target, window),
           a \in {Cron, Viewer} => kind = "promote",
           a \in Admins => /\ kind \notin {"promote", "expire"}
                           /\ \A r, s \in target : r = s
    PROVE  CacheInv'
<1> USE DEF CacheInv, DirtyAtWork, StaleOnlyUntilSwept
<1>1. task[a].kind = "none" /\ ~task[a].dirty BY DEF Begin, Busy
<1> DEFINE x == [Free EXCEPT !.kind = kind, !.target = target,
                             !.window = window,
                             !.seen = IF a = Cron THEN now ELSE 0]
<1>2. x.kind = kind /\ x.target = target /\ x.dirty = FALSE BY DEF Free
<1>3. task' = [task EXCEPT ![a] = x] /\ current' = current BY DEF Begin
<1>4. task'[a] = x /\ \A other \in Actors \ {a} : task'[other] = task[other]
      BY <1>3 DEF TypeOK
<1> HIDE DEF x
<1> QED BY <1>1, <1>2, <1>3, <1>4, RacesAssumptions DEF Actors, Busy

\* Two ways to change the task of one actor that keep the cache in order: the
\* actor becomes dirty, or it is not and the key is not staler than it was.
LEMMA OneTaskCache ==
    ASSUME TypeOK, CacheInv, NEW a \in Actors,
           \A other \in Actors \ {a} : task'[other] = task[other],
           a = Viewer => task'[a].kind \in {"none", "promote"} /\ ~task'[a].dirty,
           a = Cron => task'[a].kind \in {"none", "promote", "expire"},
           task'[a].dirty => task'[a].kind # "none",
           a \in Admins => /\ task'[a].kind \notin {"promote", "expire"}
                           /\ task'[a].dirty => task'[a].target = {}
                           /\ \A r, s \in task'[a].target : r = s,
           \/ task'[a].dirty
           \/ current' # "stale"
           \/ current = "stale" /\ ~task[a].dirty
    PROVE  CacheInv'
BY RacesAssumptions
   DEF CacheInv, DirtyAtWork, StaleOnlyUntilSwept, Actors, Busy

\* What follows an admin's or the cron's write of a row.
LEMMA WroteCache ==
    ASSUME TypeOK, CacheInv, NEW a \in Actors, NEW rest, Wrote(a, rest),
           a # Viewer, Busy(a), a \in Admins => rest = {}
    PROVE  CacheInv'
<1> DEFINE x == [task[a] EXCEPT !.target = rest, !.dirty = SweepsAfterWrite(a)]
<1>1. task[a] \in Tasks BY DEF TypeOK
<1>2. x.kind = task[a].kind /\ x.target = rest /\ x.dirty = TRUE
      BY <1>1 DEF Tasks, SweepsAfterWrite
<1>3. task' = [task EXCEPT ![a] = x] BY DEF Wrote
<1>4. task'[a] = x /\ \A other \in Actors \ {a} : task'[other] = task[other]
      BY <1>3 DEF TypeOK
<1> HIDE DEF x
<1> QED BY <1>2, <1>4, OneTaskCache DEF CacheInv, DirtyAtWork, Busy

\* The steps of a handler leave a stale key to somebody who will delete it.
LEMMA HandlerCache ==
    ASSUME TypeOK, CacheInv, NEW a \in Actors, HandlerStep(a)
    PROVE  CacheInv'
<1>0. task[a] \in Tasks BY DEF TypeOK
<1>a. a = Viewer => task[a].kind \in {"none", "promote"} /\ ~task[a].dirty
      BY DEF CacheInv, DirtyAtWork
<1>c. a = Cron => task[a].kind \in {"none", "promote", "expire"}
      BY DEF CacheInv, DirtyAtWork
<1>b. a \in Admins => /\ task[a].kind \notin {"promote", "expire"}
                      /\ task[a].dirty => task[a].target = {}
                      /\ \A r, s \in task[a].target : r = s
      BY DEF CacheInv, DirtyAtWork
<1>1. ASSUME NEW r \in Races, Create(a, r) PROVE CacheInv'
      BY <1>1, <1>a, WroteCache DEF Create, Busy
<1>2. ASSUME NEW r \in Races, Update(a, r) PROVE CacheInv'
      BY <1>2, <1>a, WroteCache DEF Update, Busy, AdminKinds
<1>3. ASSUME NEW r \in Races, Finish(a, r) PROVE CacheInv'
  <2>1. CASE MayFinish(r)
    <3>1. a \in Admins => task[a].target \ {r} = {} BY <1>3, <1>b DEF Finish
    <3> QED BY <1>3, <1>a, <2>1, <3>1, WroteCache DEF Finish, Busy
  <2>2. CASE ~MayFinish(r) /\ task[a].kind = "end"
    <3>1. task' = [task EXCEPT ![a] = Free] /\ current' = current
          BY <1>3, <2>2 DEF Finish, Finished
    <3>2. task'[a] = Free BY <3>1 DEF TypeOK
    <3>3. Free.kind = "none" /\ Free.dirty = FALSE /\ Free.target = {}
          BY DEF Free
    <3>4. a \in Admins BY <1>a, <1>c, <2>2 DEF Actors
    <3>5. ~task[a].dirty BY <1>3, <1>b, <3>4 DEF Finish
    <3>6. \A other \in Actors \ {a} : task'[other] = task[other]
          BY <3>1 DEF TypeOK
    <3>7. current' # "stale" \/ (current = "stale" /\ ~task[a].dirty)
          BY <3>1, <3>5
    <3> QED BY <3>2, <3>3, <3>6, <3>7, OneTaskCache
  <2>3. CASE ~MayFinish(r) /\ task[a].kind = "expire"
    <3> DEFINE x == [task[a] EXCEPT !.target = task[a].target \ {r}]
    <3>1. task' = [task EXCEPT ![a] = x] /\ current' = current
          BY <1>0, <1>3, <2>3 DEF Finish, TypeOK, Tasks
    <3>2. x.kind = "expire" /\ x.dirty = task[a].dirty BY <1>0, <2>3 DEF Tasks
    <3>3. task'[a] = x /\ \A other \in Actors \ {a} : task'[other] = task[other]
          BY <3>1 DEF TypeOK
    <3>4. a = Cron BY <1>a, <1>b, <2>3 DEF Actors
    <3> HIDE DEF x
    <3>5. \/ task'[a].dirty
          \/ current' # "stale"
          \/ current = "stale" /\ ~task[a].dirty
          BY <3>1, <3>2, <3>3
    <3> QED BY <3>2, <3>3, <3>4, <3>5, OneTaskCache, RacesAssumptions
  <2> QED BY <1>3, <2>1, <2>2, <2>3 DEF Finish
<1>4. ASSUME NEW r \in Races, Promote(a, r) PROVE CacheInv'
  <2> DEFINE x == [task[a] EXCEPT !.target = task[a].target \ {r},
                                  !.dirty = (a = Cron)]
  <2>1. task' = [task EXCEPT ![a] = x] BY <1>4 DEF Promote
  <2>2. x.kind = "promote" /\ x.dirty = (a = Cron)
        BY <1>0, <1>4 DEF Tasks, Promote
  <2>3. task'[a] = x /\ \A other \in Actors \ {a} : task'[other] = task[other]
        BY <2>1 DEF TypeOK
  <2> HIDE DEF x
  <2>4. a \in {Cron, Viewer} BY <1>4, <1>b DEF Actors, Promote
  <2>5. a = Viewer =>
          current' # "stale" \/ (current = "stale" /\ ~task[a].dirty)
        BY <1>4, <1>a DEF Promote, TypeOK
  <2> QED BY <2>2, <2>3, <2>4, <2>5, OneTaskCache, RacesAssumptions
<1>5. CASE EndPromote(a)
  <2> DEFINE x == [task[a] EXCEPT
                     !.kind = "expire",
                     !.target = {r \in Races : Expired(r, task[a].seen)}]
  <2>0. x.kind = "expire" BY <1>0 DEF Tasks
  <2>a. \/ a = Cron /\ task' = [task EXCEPT ![a] = x]
        \/ task' = [task EXCEPT ![a] = Free]
        BY <1>5 DEF EndPromote, Finished
  <2> HIDE DEF x
  <2>1. \/ a = Cron /\ task'[a].kind = "expire"
        \/ task'[a] = Free
        BY <2>0, <2>a DEF TypeOK
  <2>2. \A other \in Actors \ {a} : task'[other] = task[other]
        BY <1>5 DEF EndPromote, Finished, TypeOK
  <2>3. Free.kind = "none" /\ Free.dirty = FALSE /\ Free.target = {}
        BY DEF Free
  <2>4. task[a].dirty = FALSE /\ current' = current
        BY <1>0, <1>5 DEF EndPromote, Tasks
  <2>5. current' # "stale" \/ (current = "stale" /\ ~task[a].dirty) BY <2>4
  <2> QED BY <2>1, <2>2, <2>3, <2>5, OneTaskCache, RacesAssumptions
<1>6. CASE Sweep(a)
  <2> DEFINE x == [task[a] EXCEPT !.dirty = FALSE]
  <2>1. x.kind = task[a].kind /\ x.target = task[a].target /\ x.dirty = FALSE
        BY <1>0 DEF Tasks
  <2>2. \/ task' = [task EXCEPT ![a] = x]
        \/ task' = [task EXCEPT ![a] = Free]
        BY <1>0, <1>6 DEF Sweep, Finished, TypeOK, Tasks
  <2>3. Free.kind = "none" /\ Free.dirty = FALSE /\ Free.target = {}
        BY DEF Free
  <2> HIDE DEF x
  <2>4. /\ task'[a] = x \/ task'[a] = Free
        /\ \A other \in Actors \ {a} : task'[other] = task[other]
        BY <2>2 DEF TypeOK
  <2>5. current' # "stale" BY <1>6 DEF Sweep
  <2> QED BY <1>a, <1>b, <1>c, <2>1, <2>3, <2>4, <2>5, OneTaskCache
<1> QED BY <1>1, <1>2, <1>3, <1>4, <1>5, <1>6 DEF HandlerStep

\* Every step leaves the cache in order.
LEMMA CacheStep == TypeOK /\ CacheInv /\ [Next]_vars => CacheInv'
<1> SUFFICES ASSUME TypeOK, CacheInv, [Next]_vars PROVE CacheInv' OBVIOUS
<1>1. ASSUME NEW a \in Admins, AdminRequest(a) PROVE CacheInv'
  <2>1. a \in Actors /\ a \notin {Cron, Viewer}
        BY RacesAssumptions DEF Actors
  <2>2. ASSUME NEW window \in Windows, BeginCreate(a, window) PROVE CacheInv'
        BY <2>1, <2>2, BeginCache DEF BeginCreate, Kinds
  <2>3. ASSUME NEW r \in Races, NEW kind \in AdminKinds, BeginUpdate(a, kind, r)
        PROVE  CacheInv'
        BY <2>1, <2>3, BeginCache DEF BeginUpdate, Kinds, AdminKinds
  <2>4. ASSUME NEW r \in Races, BeginEnd(a, r) PROVE CacheInv'
        BY <2>1, <2>4, BeginCache DEF BeginEnd, Kinds
  <2> QED BY <1>1, <2>2, <2>3, <2>4 DEF AdminRequest
<1>2. ASSUME NEW a \in {Cron, Viewer}, BeginPromote(a) PROVE CacheInv'
  <2>1. a \in Actors /\ a \notin Admins BY RacesAssumptions DEF Actors
  <2> QED BY <1>2, <2>1, BeginCache DEF BeginPromote, Kinds
<1>3. ASSUME NEW a \in Actors, HandlerStep(a) PROVE CacheInv'
      BY <1>3, HandlerCache
<1>4. CASE EndExpire
  <2>1. task'[Cron] = Free
        BY <1>4 DEF EndExpire, Finished, TypeOK, Actors
  <2>2. \A other \in Actors \ {Cron} : task'[other] = task[other]
        BY <1>4 DEF EndExpire, Finished, TypeOK
  <2>3. Free.kind = "none" /\ Free.dirty = FALSE /\ Free.target = {}
        BY DEF Free
  <2>4. ~task[Cron].dirty /\ current' = current BY <1>4 DEF EndExpire
  <2>5. Cron \in Actors /\ Cron \notin Admins /\ Cron # Viewer
        BY RacesAssumptions DEF Actors
  <2> QED BY <2>1, <2>2, <2>3, <2>4, <2>5, OneTaskCache
<1> USE DEF CacheInv, DirtyAtWork, StaleOnlyUntilSwept, Busy
<1>5. CASE Tick BY <1>5 DEF Tick
<1>6. CASE FillCurrent BY <1>6 DEF FillCurrent
<1>7. ASSUME NEW r \in Races, Wager(r) PROVE CacheInv' BY <1>7 DEF Wager
<1>8. CASE UNCHANGED vars BY <1>8 DEF vars
<1> QED BY <1>1, <1>2, <1>3, <1>4, <1>5, <1>6, <1>7, <1>8 DEF Next

\* Nothing is cached and nobody is at work initially.
LEMMA CacheInit == Init => CacheInv
<1> SUFFICES ASSUME Init PROVE CacheInv OBVIOUS
<1>1. \A a \in Actors : task[a] = Free BY DEF Init
<1>2. Free.kind = "none" /\ Free.dirty = FALSE /\ Free.target = {}
      BY DEF Free
<1>3. current = "absent" BY DEF Init
<1> QED BY <1>1, <1>2, <1>3
          DEF CacheInv, DirtyAtWork, StaleOnlyUntilSwept, Actors

(***************************************************************************)
(* A stale race:current is always about to be deleted by a handler still   *)
(* at work (createRace to the cron's expiry), for any number of handlers.  *)
(***************************************************************************)
THEOREM CacheIsSwept == Spec => []StaleOnlyUntilSwept
<1>1. Init => CacheInv BY CacheInit
<1>2. TypeOK /\ CacheInv /\ [Next]_vars => CacheInv' BY CacheStep
<1>3. CacheInv => StaleOnlyUntilSwept BY DEF CacheInv
<1> QED BY <1>1, <1>2, <1>3, RacesTypeCorrect, PTL DEF Spec

-----------------------------------------------------------------------------
(* One handler at a time: what a handler has read is still so.             *)

\* No two open races overlap.
Disjoint == \A r, s \in Races :
    r # s /\ Status(r) \in Open => ~Overlaps(s, <<race[r].start, race[r].end>>)

\* What the check of a handler found still holds when it comes to its write.
CheckHolds(a) ==
    /\ task[a].kind = "create" /\ ~task[a].dirty =>
          \A r \in Races : ~Overlaps(r, task[a].window)
    /\ task[a].kind \in AdminKinds =>
          \A r \in task[a].target : Allowed(task[a].kind, Status(r))
    /\ task[a].kind = "promote" =>
          \A r \in task[a].target : Status(r) = "SCHEDULED"

Alone == \A a, b \in Actors : Busy(a) /\ Busy(b) => a = b

SerialInv == serial => Alone /\ Disjoint /\ \A a \in Actors : CheckHolds(a)

\* Overlapping is mutual.
LEMMA OverlapSymmetric ==
    ASSUME TypeOK, NEW r \in Races, NEW s \in Races,
           Status(r) \in Open, Status(s) \in Open,
           Overlaps(r, <<race[s].start, race[s].end>>)
    PROVE  Overlaps(s, <<race[r].start, race[r].end>>)
BY DEF Overlaps

\* Rows that keep their windows and do not reopen stay disjoint.
LEMMA DisjointKept ==
    ASSUME Disjoint,
           \A r \in Races :
              Status(r)' \in Open =>
                 /\ Status(r) \in Open
                 /\ race'[r].start = race[r].start
                 /\ race'[r].end = race[r].end
    PROVE  Disjoint'
BY DEF Disjoint, Overlaps

\* A handler begins: nobody else is at work, and it has just checked.
LEMMA BeginSerial ==
    ASSUME TypeOK, SerialInv, serial, NEW a \in Actors, NEW kind \in Kinds,
           NEW target, NEW window, Begin(a, kind, target, window),
           kind = "create" => \A r \in Races : ~Overlaps(r, window),
           kind \in AdminKinds => \A r \in target : Allowed(kind, Status(r)),
           kind = "promote" => \A r \in target : Status(r) = "SCHEDULED"
    PROVE  SerialInv'
<1> DEFINE x == [Free EXCEPT !.kind = kind, !.target = target,
                             !.window = window,
                             !.seen = IF a = Cron THEN now ELSE 0]
<1>1. x.kind = kind /\ x.target = target /\ x.window = window BY DEF Free
<1>2. task' = [task EXCEPT ![a] = x] /\ race' = race BY DEF Begin
<1>3. \A other \in Actors : task[other].kind = "none" BY DEF Begin, Busy
<1> HIDE DEF x
<1>4. task'[a] = x /\ \A other \in Actors \ {a} : task'[other].kind = "none"
      BY <1>2, <1>3 DEF TypeOK
<1>5. Alone' BY <1>4 DEF Alone, Busy
<1>6. Disjoint' BY <1>2 DEF SerialInv, Disjoint, Overlaps, Status
<1>7. ASSUME NEW other \in Actors PROVE CheckHolds(other)'
  <2>1. CASE other = a
        BY <1>1, <1>2, <1>4, <2>1 DEF CheckHolds, Overlaps, Status
  <2>2. CASE other # a
        BY <1>4, <2>2 DEF CheckHolds, AdminKinds
  <2> QED BY <2>1, <2>2
<1> QED BY <1>5, <1>6, <1>7 DEF SerialInv

\* The handler at work steps: it suffices to look at its own check and at the
\* windows.
LEMMA AloneSteps ==
    ASSUME TypeOK, SerialInv, serial, NEW a \in Actors, Busy(a),
           \A other \in Actors \ {a} : task'[other] = task[other],
           Disjoint', CheckHolds(a)'
    PROVE  SerialInv'
<1>1. \A other \in Actors \ {a} : task'[other].kind = "none"
      BY DEF SerialInv, Alone, Busy
<1>2. Alone' BY <1>1 DEF Alone, Busy
<1>3. \A other \in Actors \ {a} : CheckHolds(other)'
      BY <1>1 DEF CheckHolds, AdminKinds
<1> QED BY <1>2, <1>3 DEF SerialInv

\* A handler's step: the windows stay disjoint, and what the handler has yet to
\* write it may still write.
LEMMA HandlerSerial ==
    ASSUME TypeOK, CacheInv, SerialInv, serial, NEW a \in Actors,
           HandlerStep(a)
    PROVE  SerialInv'
<1>0. task[a] \in Tasks BY DEF TypeOK
<1>a. Busy(a)
  <2>1. task[a].dirty => Busy(a) BY DEF CacheInv, DirtyAtWork
  <2> QED BY <2>1 DEF HandlerStep, Create, Update, Finish, Promote,
                      EndPromote, Sweep, Busy, AdminKinds
<1>b. Disjoint /\ CheckHolds(a) BY DEF SerialInv
<1>c. \A other \in Actors \ {a} : task'[other] = task[other]
      BY DEF HandlerStep, Create, Update, Finish, Promote, EndPromote, Sweep,
             Wrote, Finished, TypeOK
<1>d. Free.kind = "none" BY DEF Free
<1>e. ASSUME NEW rest, Wrote(a, rest)
      PROVE  /\ task'[a].kind = task[a].kind
             /\ task'[a].target = rest
             /\ task'[a].window = task[a].window
             /\ task'[a].dirty = TRUE
  <2> DEFINE x == [task[a] EXCEPT !.target = rest,
                                  !.dirty = SweepsAfterWrite(a)]
  <2>1. /\ x.kind = task[a].kind /\ x.target = rest
        /\ x.window = task[a].window /\ x.dirty = TRUE
        BY <1>0 DEF Tasks, SweepsAfterWrite
  <2>2. task' = [task EXCEPT ![a] = x] BY <1>e DEF Wrote
  <2> HIDE DEF x
  <2>3. task'[a] = x BY <2>2 DEF TypeOK
  <2> QED BY <2>1, <2>3
<1>1. ASSUME NEW r \in Races, Create(a, r) PROVE SerialInv'
  <2> DEFINE w == task[a].window
             x == [status |-> InitialStatus(w), start |-> w[1],
                   end |-> w[2], tracking |-> TRUE]
  <2>1. task[a].kind = "create" /\ ~task[a].dirty /\ Wrote(a, {})
        BY <1>1 DEF Create
  <2>2. CheckHolds(a)'
    <3>1. task'[a].kind = "create" /\ task'[a].dirty BY <2>1, <1>e
    <3> QED BY <3>1 DEF CheckHolds, AdminKinds
  <2>3. \A s \in Races : ~Overlaps(s, w) BY <1>b, <2>1 DEF CheckHolds
  <2>4. w[1] \in Int /\ w[2] \in Int
        BY <1>0, RacesAssumptions DEF Tasks
  <2>5. race' = [race EXCEPT ![r] = x] BY <1>1 DEF Create
  <2>6. /\ race'[r].start = w[1] /\ race'[r].end = w[2]
        /\ \A s \in Races \ {r} : race'[s] = race[s]
        BY <2>5 DEF TypeOK
  <2> HIDE DEF w
  <2>7. \A s \in Races \ {r} : race[s].start \in Int /\ race[s].end \in Int
        BY RacesAssumptions DEF TypeOK, RaceRows
  <2>8. Disjoint'
    <3> SUFFICES ASSUME NEW p \in Races, NEW q \in Races, p # q,
                        Status(p)' \in Open, Status(q)' \in Open,
                        race'[q].start < race'[p].end,
                        race'[q].end > race'[p].start
                 PROVE  FALSE
        BY DEF Disjoint, Overlaps
    <3>1. CASE p = r
          BY <2>3, <2>6, <3>1 DEF Overlaps, Status
    <3>2. CASE q = r
          BY <2>3, <2>4, <2>6, <2>7, <3>2 DEF Overlaps, Status
    <3>3. CASE p # r /\ q # r
          BY <1>b, <2>6, <3>3 DEF Disjoint, Overlaps, Status
    <3> QED BY <3>1, <3>2, <3>3
  <2> QED BY <1>a, <1>c, <2>2, <2>8, AloneSteps
<1>2. ASSUME NEW r \in Races, Update(a, r) PROVE SerialInv'
  <2>1. task[a].kind \in AdminKinds /\ r \in task[a].target /\ Wrote(a, {})
        BY <1>2 DEF Update
  <2>2. CheckHolds(a)'
    <3>1. task'[a].kind = task[a].kind /\ task'[a].target = {} BY <2>1, <1>e
    <3> QED BY <2>1, <3>1 DEF CheckHolds, AdminKinds
  <2>3. Status(r) \in Open
        BY <1>b, <2>1 DEF CheckHolds, Allowed, Open, Live, AdminKinds
  <2> DEFINE x == [race[r] EXCEPT
                     !.status = StatusAfter(task[a].kind, race[r].status),
                     !.tracking = TrackingAfter(task[a].kind, race[r].tracking)]
  <2>4. race' = [race EXCEPT ![r] = x] BY <1>2 DEF Update
  <2>5. x.start = race[r].start /\ x.end = race[r].end
        BY DEF TypeOK, RaceRows
  <2> HIDE DEF x
  <2>6. /\ race'[r] = x
        /\ \A s \in Races \ {r} : race'[s] = race[s]
        BY <2>4 DEF TypeOK
  <2>7. Disjoint' BY <1>b, <2>3, <2>5, <2>6, DisjointKept DEF Status
  <2> QED BY <1>a, <1>c, <2>2, <2>7, AloneSteps
<1>3. ASSUME NEW r \in Races, Finish(a, r) PROVE SerialInv'
  <2>1. task[a].kind \in {"end", "expire"} BY <1>3 DEF Finish
  <2>2. task'[a].kind \in {"end", "expire", "none"}
    <3>1. CASE MayFinish(r) BY <1>3, <1>e, <2>1, <3>1 DEF Finish
    <3>2. CASE ~MayFinish(r)
          BY <1>0, <1>3, <1>d, <2>1, <3>2 DEF Finish, Finished, TypeOK, Tasks
    <3> QED BY <3>1, <3>2
  <2>3. CheckHolds(a)' BY <2>2 DEF CheckHolds, AdminKinds
  <2>4. Disjoint'
    <3>1. CASE MayFinish(r)
      <4> DEFINE x == [race[r] EXCEPT !.status = "FINISHED", !.tracking = TRUE]
      <4>1. race' = [race EXCEPT ![r] = x] BY <1>3, <3>1 DEF Finish
      <4>2. x.status = "FINISHED" BY DEF TypeOK, RaceRows
      <4> HIDE DEF x
      <4>3. race'[r] = x /\ \A s \in Races \ {r} : race'[s] = race[s]
            BY <4>1 DEF TypeOK
      <4>4. Status(r)' \notin Open BY <4>2, <4>3 DEF Status, Open, Live
      <4> QED BY <1>b, <4>3, <4>4, DisjointKept DEF Status
    <3>2. CASE ~MayFinish(r)
          BY <1>3, <1>b, <3>2, DisjointKept DEF Finish, Status
    <3> QED BY <3>1, <3>2
  <2> QED BY <1>a, <1>c, <2>3, <2>4, AloneSteps
<1>4. ASSUME NEW r \in Races, Promote(a, r) PROVE SerialInv'
  <2>1. task[a].kind = "promote" /\ r \in task[a].target
        BY <1>4 DEF Promote
  <2>2. \A s \in task[a].target : Status(s) = "SCHEDULED"
        BY <1>b, <2>1 DEF CheckHolds
  <2> DEFINE x == [race[r] EXCEPT !.status = "ACTIVE"]
             y == [task[a] EXCEPT !.target = task[a].target \ {r},
                                  !.dirty = (a = Cron)]
  <2>3. race' = [race EXCEPT ![r] = x] BY <1>4 DEF Promote, TypeOK, RaceRows
  <2>4. task' = [task EXCEPT ![a] = y] BY <1>4 DEF Promote
  <2>5. x.start = race[r].start /\ x.end = race[r].end BY DEF TypeOK, RaceRows
  <2>6. y.kind = "promote" /\ y.target = task[a].target \ {r}
        BY <1>0, <2>1 DEF Tasks
  <2> HIDE DEF x, y
  <2>7. race'[r] = x /\ \A s \in Races \ {r} : race'[s] = race[s]
        BY <2>3 DEF TypeOK
  <2>8. task'[a] = y BY <2>4 DEF TypeOK
  <2>9. Status(r) \in Open BY <2>1, <2>2 DEF Open
  <2>10. Disjoint' BY <1>b, <2>5, <2>7, <2>9, DisjointKept DEF Status
  <2>11. task[a].target \subseteq Races BY <1>0 DEF Tasks
  <2>12. CheckHolds(a)'
         BY <2>2, <2>6, <2>7, <2>8, <2>11 DEF CheckHolds, AdminKinds, Status
  <2> QED BY <1>a, <1>c, <2>10, <2>12, AloneSteps
<1>5. CASE EndPromote(a)
  <2>1. task'[a].kind \in {"expire", "none"}
    <3> DEFINE x == [task[a] EXCEPT
                       !.kind = "expire",
                       !.target = {r \in Races : Expired(r, task[a].seen)}]
    <3>1. x.kind = "expire" BY <1>0 DEF Tasks
    <3>2. \/ task' = [task EXCEPT ![a] = x]
          \/ task' = [task EXCEPT ![a] = Free]
          BY <1>5 DEF EndPromote, Finished
    <3> HIDE DEF x
    <3> QED BY <1>d, <3>1, <3>2 DEF TypeOK
  <2>2. CheckHolds(a)' BY <2>1 DEF CheckHolds, AdminKinds
  <2>3. Disjoint' BY <1>5, <1>b, DisjointKept DEF EndPromote, Status
  <2> QED BY <1>a, <1>c, <2>2, <2>3, AloneSteps
<1>6. CASE Sweep(a)
  <2> DEFINE x == [task[a] EXCEPT !.dirty = FALSE]
  <2>1. x.kind = task[a].kind /\ x.target = task[a].target BY <1>0 DEF Tasks
  <2>2. \/ task[a].kind = "promote" /\ task' = [task EXCEPT ![a] = x]
        \/ task' = [task EXCEPT ![a] = Free]
        BY <1>6 DEF Sweep, Finished
  <2>3. task[a].target = {} BY <1>6 DEF Sweep
  <2> HIDE DEF x
  <2>4. \/ task'[a].kind = "promote" /\ task'[a].target = {}
        \/ task'[a].kind = "none"
        BY <1>d, <2>1, <2>2, <2>3 DEF TypeOK
  <2>5. CheckHolds(a)' BY <2>4 DEF CheckHolds, AdminKinds
  <2>6. Disjoint' BY <1>6, <1>b, DisjointKept DEF Sweep, Status
  <2> QED BY <1>a, <1>c, <2>5, <2>6, AloneSteps
<1> QED BY <1>1, <1>2, <1>3, <1>4, <1>5, <1>6 DEF HandlerStep

\* Every step keeps what handlers that do not overlap rely on.
LEMMA SerialStep ==
    TypeOK /\ CacheInv /\ SerialInv /\ [Next]_vars => SerialInv'
<1> SUFFICES ASSUME TypeOK, CacheInv, SerialInv, [Next]_vars PROVE SerialInv'
    OBVIOUS
<1>0. serial' = serial
  <2>1. ASSUME NEW a \in Admins, AdminRequest(a) PROVE serial' = serial
        BY <2>1 DEF AdminRequest, BeginCreate, BeginUpdate, BeginEnd, Begin
  <2>2. ASSUME NEW a \in {Cron, Viewer}, BeginPromote(a) PROVE serial' = serial
        BY <2>2 DEF BeginPromote, Begin
  <2>3. ASSUME NEW a \in Actors, HandlerStep(a) PROVE serial' = serial
        BY <2>3 DEF HandlerStep, Create, Update, Finish, Promote, EndPromote,
                    Sweep, Wrote
  <2>4. ASSUME NEW r \in Races, Wager(r) PROVE serial' = serial
        BY <2>4 DEF Wager
  <2>5. CASE Tick \/ FillCurrent \/ EndExpire
        BY <2>5 DEF Tick, FillCurrent, EndExpire
  <2>6. CASE UNCHANGED vars BY <2>6 DEF vars
  <2> QED BY <2>1, <2>2, <2>3, <2>4, <2>5, <2>6 DEF Next
<1> SUFFICES ASSUME serial PROVE SerialInv' BY <1>0 DEF SerialInv
<1>1. ASSUME NEW a \in Admins, AdminRequest(a) PROVE SerialInv'
  <2>1. a \in Actors BY DEF Actors
  <2>2. ASSUME NEW window \in Windows, BeginCreate(a, window) PROVE SerialInv'
        BY <2>1, <2>2, BeginSerial DEF BeginCreate, Kinds, AdminKinds
  <2>3. ASSUME NEW r \in Races, NEW kind \in AdminKinds, BeginUpdate(a, kind, r)
        PROVE  SerialInv'
        BY <2>1, <2>3, BeginSerial DEF BeginUpdate, Kinds, AdminKinds
  <2>4. ASSUME NEW r \in Races, BeginEnd(a, r) PROVE SerialInv'
        BY <2>1, <2>4, BeginSerial DEF BeginEnd, Kinds, AdminKinds
  <2> QED BY <1>1, <2>2, <2>3, <2>4 DEF AdminRequest
<1>2. ASSUME NEW a \in {Cron, Viewer}, BeginPromote(a) PROVE SerialInv'
  <2>1. a \in Actors BY DEF Actors
  <2> QED BY <1>2, <2>1, BeginSerial DEF BeginPromote, Kinds, AdminKinds, Due
<1>3. ASSUME NEW a \in Actors, HandlerStep(a) PROVE SerialInv'
      BY <1>3, HandlerSerial
<1>4. CASE EndExpire
  <2>1. Cron \in Actors /\ Busy(Cron) BY <1>4 DEF EndExpire, Actors, Busy
  <2>2. task'[Cron].kind = "none"
        BY <1>4, <2>1 DEF EndExpire, Finished, TypeOK, Free
  <2>3. \A other \in Actors \ {Cron} : task'[other] = task[other]
        BY <1>4 DEF EndExpire, Finished, TypeOK
  <2>4. CheckHolds(Cron)' BY <2>2 DEF CheckHolds, AdminKinds
  <2>5. Disjoint' BY <1>4 DEF EndExpire, SerialInv, Disjoint, Overlaps, Status
  <2> QED BY <2>1, <2>3, <2>4, <2>5, AloneSteps
<1>5. CASE UNCHANGED <<race, task>>
      BY <1>5 DEF SerialInv, Alone, Disjoint, CheckHolds, Busy, Overlaps, Status
<1> QED BY <1>1, <1>2, <1>3, <1>4, <1>5
        DEF Next, Tick, FillCurrent, Wager, vars

\* Nothing is open and nobody is at work initially.
LEMMA SerialInit == Init => SerialInv
<1> SUFFICES ASSUME Init PROVE SerialInv OBVIOUS
<1>1. \A a \in Actors : task[a].kind = "none" BY DEF Init, Free
<1>2. \A r \in Races : Status(r) \notin Open
      BY DEF Init, Status, NoRace, Open, Live
<1> QED BY <1>1, <1>2
        DEF SerialInv, Alone, Disjoint, CheckHolds, Busy, AdminKinds

\* The invariants together.
LEMMA SerialInvariant == Spec => [](TypeOK /\ CacheInv /\ SerialInv)
<1>1. Init => CacheInv BY CacheInit
<1>2. TypeOK /\ CacheInv /\ [Next]_vars => CacheInv' BY CacheStep
<1>3. Init => SerialInv BY SerialInit
<1>4. TypeOK /\ CacheInv /\ SerialInv /\ [Next]_vars => SerialInv'
      BY SerialStep
<1> QED BY <1>1, <1>2, <1>3, <1>4, RacesTypeCorrect, PTL DEF Spec

(***************************************************************************)
(* With one handler at a time no two open races overlap (createRace), for  *)
(* any number of races and any windows.                                    *)
(***************************************************************************)
THEOREM RacesDoNotOverlap == Spec => []NoOverlap
<1>1. SerialInv => NoOverlap BY DEF SerialInv, Disjoint, NoOverlap
<1> QED BY <1>1, SerialInvariant, PTL

(***************************************************************************)
(* With one handler at a time what is finished or cancelled stays so       *)
(* (cancelRace, setPaused, promoteDueScheduledRaces).                      *)
(***************************************************************************)
THEOREM EndingsAreFinal == Spec => EndedStaysEnded
<1> DEFINE Kept == serial => \A r \in Races :
                      Status(r) \in Terminal => Status(r)' = Status(r)
<1>1. ASSUME TypeOK, CacheInv, SerialInv, [Next]_vars PROVE [Kept]_vars
  <2> SUFFICES ASSUME serial, NEW s \in Races, Status(s) \in Terminal
               PROVE  race'[s].status = race[s].status
      BY DEF Status
  <2>1. CASE UNCHANGED race BY <2>1
  <2>2. \A a \in Actors : CheckHolds(a) BY <1>1 DEF SerialInv
  <2> USE DEF Status, Terminal, TypeOK, RaceRows
  <2>3. ASSUME NEW a \in Actors, NEW r \in Races, Create(a, r)
        PROVE  race'[s].status = race[s].status
        BY <1>1, <2>3 DEF Create
  <2>4. ASSUME NEW a \in Actors, NEW r \in Races, Update(a, r)
        PROVE  race'[s].status = race[s].status
    <3>1. Allowed(task[a].kind, Status(r))
          BY <2>2, <2>4 DEF CheckHolds, Update
    <3>2. r # s BY <3>1 DEF Allowed, Open, Live
    <3> QED BY <1>1, <2>4, <3>2 DEF Update
  <2>5. ASSUME NEW a \in Actors, NEW r \in Races, Finish(a, r)
        PROVE  race'[s].status = race[s].status
        BY <1>1, <2>5 DEF Finish, MayFinish, Live
  <2>6. ASSUME NEW a \in Actors, NEW r \in Races, Promote(a, r)
        PROVE  race'[s].status = race[s].status
        BY <1>1, <2>2, <2>6 DEF Promote, CheckHolds
  <2> QED BY <1>1, <2>1, <2>3, <2>4, <2>5, <2>6
          DEF Next, Tick, FillCurrent, Wager, AdminRequest, BeginCreate,
              BeginUpdate, BeginEnd, BeginPromote, Begin, HandlerStep,
              EndPromote, Sweep, EndExpire, vars
<1> QED BY <1>1, SerialInvariant, PTL DEF Spec, EndedStaysEnded

=============================================================================
