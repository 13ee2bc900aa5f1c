------------------------------ MODULE Moderation ------------------------------
(***************************************************************************)
(* Bans and limits of one player: a row for each game in the database, and *)
(* what the games read, in Redis: a hash for dice and one for mines, and   *)
(* for coinflip a list of bans, a set of banned names and the caps of a    *)
(* mitigation hash.  (The copies of the crash row are CrashEligibility's.) *)
(*                                                                         *)
(* A request is a program: its steps are the awaited calls, each on one    *)
(* game and in its turn.  A global request goes through the games one      *)
(* after the other without a transaction, so what fails in the middle      *)
(* stays half done.  A Redis write may also be lost without an error, as   *)
(* there is no client or as pipeline.exec reports its failures in its      *)
(* result.                                                                 *)
(***************************************************************************)
EXTENDS Naturals

CONSTANTS
    Moderators,    \* admin requests under way
    MaxModCalls,   \* bound: requests in a behaviour
    MaxFaults      \* bound: failures of a step

ASSUME ModerationAssumptions == MaxModCalls \in Nat /\ MaxFaults \in Nat

VARIABLES
    row,        \* row[g]: status of the player's control row for game g
    mirror,     \* mirror[g]: status in the Redis hash of dice and mines
    banList,    \* the player is in the JSON list of coinflip bans
    banSet,     \* the player is in the set of banned coinflip names
    caps,       \* the caps in the coinflip mitigation hash
    rowCaps,    \* the caps of the coinflip row
    program,    \* program[m]: the steps request m has still to do
    order,      \* order[m]: what request m is
    doubtful,   \* games whose mirror may differ from the row
    modCalls, faults

modVars == <<row, mirror, banList, banSet, caps, rowCaps, program, order,
             doubtful, modCalls, faults>>
stores == <<row, mirror, banList, banSet, caps, rowCaps>>

AllGames == {"dice", "mines", "crash", "coinflip"}
Hashes == {"dice", "mines"}
ModStatuses == {"CLEAR", "LIMITED", "BANNED"}
\* CLEAR is a row that is gone.  A global unban keeps the row of coinflip.
RowStatuses == ModStatuses \cup {"ACTIVE"}
Caps == {"bet", "hour"}
Ops == {"ban", "limit", "unban", "unlimit", "clear"}

\* The caps a limit may give: a global one may have an hourly cap, and one of
\* coinflip may take the bet cap away (maxWagerAmount null).
MayGive(op, scope) ==
    CASE op # "limit" -> {{}}
      [] op = "limit" /\ scope = "global" -> {{"bet"}, Caps}
      [] op = "limit" /\ scope = "coinflip" -> {{"bet"}, {}}
      [] OTHER -> {{"bet"}}

\* The requests there are; scope is a game or the global moderation.
Orders ==
    {o \in [op : Ops, scope : AllGames \cup {"global"}, given : SUBSET Caps] :
        /\ o.scope = "global" => o.op # "clear"
        /\ o.scope = "dice" => o.op # "clear"
        /\ o.scope \in {"crash", "coinflip"} => o.op \in {"ban", "limit", "clear"}
        /\ o.given \in MayGive(o.op, o.scope)}

\* A request also remembers, for the properties only: whether it runs alone,
\* whether nothing has failed, and the games where it found nothing to do.
NoOrder == [op |-> "none", scope |-> "none", given |-> {}, alone |-> TRUE,
            whole |-> TRUE, skipped |-> {}]

Global(o) == o.scope = "global"
Step(g, do) == [game |-> g, do |-> do]
Steps(g, dos) == {Step(g, do) : do \in dos}

StatusAfter(o, g) ==
    CASE o.op = "ban" -> "BANNED"
      [] o.op = "limit" -> "LIMITED"
      [] o.op = "unban" /\ g = "coinflip" -> "ACTIVE"
      [] OTHER -> "CLEAR"

\* The caps c after it: setMaxBetCents and, if given, the hourly field, which
\* a limit without one leaves as it is; or clearLimitFields.
Capped(o, c) == IF o.op = "limit" THEN (c \ {"bet"}) \cup o.given ELSE {}

\* Mutant: the set of banned names is left to the next restart.
NoSet(o) == {"caps", "readList", "writeList"}
\* The Redis steps of coinflip: bans add, the others remove.
CoinflipMirrors(o) ==
    IF o.op \in {"ban", "unban", "clear"} THEN {"readList", "writeList", "set", "caps"}
    ELSE {"caps"}

Mirrors(o, g) ==
    CASE g \in Hashes -> {"hash"}
      [] g = "crash" -> {"invalidate"}
      [] g = "coinflip" -> CoinflipMirrors(o)

\* Mutant: a banned player is not banned again.
LooksFirst(o, g) == TRUE
\* A global ban or limit, a ban from dice or mines and a clear do not look at
\* the row before they write it.
Looks(o, g) ==
    \/ o.op \in {"unban", "unlimit"}
    \/ ~Global(o) /\ o.op = "limit"
    \/ ~Global(o) /\ o.op = "ban" /\ g \in {"crash", "coinflip"}

Part(o, g) ==
    Steps(g, (IF Looks(o, g) THEN {"look", "row"} ELSE {"row"}) \cup Mirrors(o, g))

Program(o) ==
    IF Global(o)
    THEN (IF o.op = "limit" THEN {Step("crash", "assert")} ELSE {})
         \cup UNION {Part(o, g) : g \in AllGames}
    ELSE Part(o, o.scope)

\* The games come one after the other, and the calls of a game in this order;
\* the caps of coinflip are the first, the third or the last of its mirrors.
Place(g) == CASE g = "dice" -> 0 [] g = "mines" -> 10
              [] g = "crash" -> 20 [] g = "coinflip" -> 30
CapsTurn(o) == IF o.op = "ban" THEN 3 ELSE IF o.op = "clear" THEN 6 ELSE 8
CallTurn(o, do) ==
    CASE do = "look" -> 1 [] do = "row" -> 2 [] do \in {"hash", "invalidate"} -> 3
      [] do = "readList" -> 4 [] do = "writeList" -> 5 [] do = "set" -> 7
      [] do = "caps" -> CapsTurn(o)
Turn(o, s) ==
    IF s.do = "assert" THEN 0 ELSE Place(s.game) + CallTurn(o, s.do)

ModTypeOK ==
    /\ row \in [AllGames -> RowStatuses]
    /\ mirror \in [Hashes -> RowStatuses]
    /\ banList \in BOOLEAN /\ banSet \in BOOLEAN
    /\ caps \in SUBSET Caps /\ rowCaps \in SUBSET Caps
    /\ doubtful \in SUBSET AllGames

\* A player whom earlier requests have treated alike in all games.
ModInit ==
    /\ \E status \in ModStatuses :
          /\ row = [g \in AllGames |-> status]
          /\ mirror = [g \in Hashes |-> status]
          /\ banList = (status = "BANNED") /\ banSet = (status = "BANNED")
          /\ rowCaps \in IF status = "LIMITED" THEN {{"bet"}, Caps} ELSE {{}}
          /\ caps = rowCaps
    /\ program = [m \in Moderators |-> {}]
    /\ order = [m \in Moderators |-> NoOrder]
    /\ doubtful = {}
    /\ modCalls = 0 /\ faults = 0

-----------------------------------------------------------------------------

Underway(m) == order[m].op # "none"

\* A request; when another is under way, the mirrors of both become doubtful.
\* As a bound, requests overlap in behaviours without failures only.
BeginOrder(m, o) ==
    LET others == {n \in Moderators : Underway(n)} IN
    /\ ~Underway(m)
    /\ faults = 0 \/ others = {}
    /\ modCalls < MaxModCalls /\ modCalls' = modCalls + 1
    /\ program' = [program EXCEPT ![m] = Program(o)]
    /\ order' = [n \in Moderators |->
          IF n = m THEN [op |-> o.op, scope |-> o.scope, given |-> o.given,
                         alone |-> others = {}, whole |-> TRUE, skipped |-> {}]
          ELSE IF n \in others THEN [order[n] EXCEPT !.alone = FALSE]
          ELSE order[n]]
    /\ doubtful' = IF others = {} THEN doubtful ELSE AllGames
    /\ UNCHANGED <<stores, faults>>

\* The step whose turn it is.
InTurn(m, s) ==
    /\ s \in program[m]
    /\ \A t \in program[m] : Turn(order[m], s) <= Turn(order[m], t)
Doing(m, s, what) == s.do = what /\ InTurn(m, s)

Later(m, s) == program[m] \ {s}
GoOn(m, steps) == program' = [program EXCEPT ![m] = steps]
Advance(m, s) == GoOn(m, Later(m, s))

\* The rest of a request that throws: only the finally of a crash part.
Thrown(m, s) ==
    /\ GoOn(m, {t \in Later(m, s) : s.game = "crash" /\ t = Step("crash", "invalidate")})
    /\ order' = [order EXCEPT ![m].whole = FALSE]

\* assertNoneBanned
AssertNoneBanned(m, s) ==
    /\ Doing(m, s, "assert")
    /\ IF \E g \in AllGames : row[g] = "BANNED"
       THEN GoOn(m, {}) /\ order' = [order EXCEPT ![m].whole = FALSE]
       ELSE Advance(m, s) /\ UNCHANGED order
    /\ UNCHANGED <<stores, doubtful, modCalls, faults>>

\* The findUnique of one game and what follows from it: go on to the row;
\* only its mirrors (no row to unban; banned already, where coinflip has the
\* name in the set again); no part of this game but the crash invalidation;
\* or a 400 or 409.
Sought(op, found) ==
    CASE op \in {"ban", "limit"} -> found # "BANNED"
      [] op = "unban" -> found = "BANNED"
      [] OTHER -> found = "LIMITED"
Skip(m, g) == order' = [order EXCEPT ![m].skipped = @ \cup {g}]
DoneAlready(o, g) == o.op = "ban" \/ (o.op # "limit" /\ row[g] = "CLEAR")

Look(m, s) ==
    /\ Doing(m, s, "look")
    /\ LET g == s.game
           o == order[m]
       IN \/ /\ Sought(o.op, row[g])
             /\ Advance(m, s)
             /\ UNCHANGED order
          \/ /\ ~Sought(o.op, row[g]) /\ Global(o)
             /\ GoOn(m, {t \in Later(m, s) : t.game # g \/ t.do = "invalidate"})
             /\ Skip(m, g)
          \/ /\ ~Sought(o.op, row[g]) /\ ~Global(o) /\ DoneAlready(o, g)
             /\ GoOn(m, {t \in Later(m, s) :
                           IF g = "coinflip" THEN t.do = "set" ELSE t.do # "row"})
             /\ Skip(m, g)
          \/ /\ ~Sought(o.op, row[g]) /\ ~Global(o) /\ ~DoneAlready(o, g)
             /\ Thrown(m, s)
    /\ UNCHANGED <<stores, doubtful, modCalls, faults>>

\* The upsert, delete, deleteMany or update of a row.  delete and update fail
\* if the row is gone.
WriteRow(m, s) ==
    /\ Doing(m, s, "row")
    /\ LET g == s.game
           o == order[m]
           gone == /\ row[g] = "CLEAR"
                   /\ \/ o.op \in {"unban", "unlimit"} /\ g \in Hashes
                      \/ o.op = "unban" /\ g = "coinflip"
       IN IF gone THEN Thrown(m, s) /\ UNCHANGED stores
          ELSE /\ row' = [row EXCEPT ![g] = StatusAfter(o, g)]
               /\ rowCaps' = IF g # "coinflip" THEN rowCaps
                             ELSE Capped(o, IF Global(o) THEN {} ELSE rowCaps)
               /\ UNCHANGED <<mirror, banList, banSet, caps, order>>
               /\ Advance(m, s)
    /\ UNCHANGED <<doubtful, modCalls, faults>>

\* writeFromRow, or remove.
WriteHash(m, s) ==
    /\ Doing(m, s, "hash")
    /\ mirror' = [mirror EXCEPT ![s.game] = StatusAfter(order[m], s.game)]
    /\ Advance(m, s)
    /\ UNCHANGED <<row, banList, banSet, caps, rowCaps, order, doubtful, modCalls, faults>>

Invalidate(m, s) ==
    /\ Doing(m, s, "invalidate")
    /\ Advance(m, s)
    /\ UNCHANGED <<stores, order, doubtful, modCalls, faults>>

\* addBan or removeBan: the GET of the list ...
ReadList(m, s) ==
    /\ Doing(m, s, "readList")
    /\ Advance(m, s)
    /\ UNCHANGED <<stores, order, doubtful, modCalls, faults>>

\* ... and the SET of it with or without the player.
WriteList(m, s) ==
    /\ Doing(m, s, "writeList")
    /\ banList' = (order[m].op = "ban")
    /\ Advance(m, s)
    /\ UNCHANGED <<row, mirror, banSet, caps, rowCaps, order, doubtful, modCalls, faults>>

WriteSet(m, s) ==
    /\ Doing(m, s, "set")
    /\ banSet' = (order[m].op = "ban")
    /\ Advance(m, s)
    /\ UNCHANGED <<row, mirror, banList, caps, rowCaps, order, doubtful, modCalls, faults>>

WriteCaps(m, s) ==
    /\ Doing(m, s, "caps")
    /\ caps' = Capped(order[m], caps)
    /\ Advance(m, s)
    /\ UNCHANGED <<row, mirror, banList, banSet, rowCaps, order, doubtful, modCalls, faults>>

RedisSteps == {"hash", "readList", "writeList", "set", "caps"}

Alone(m) == \A n \in Moderators \ {m} : ~Underway(n)

Fault(m, s) ==
    /\ faults < MaxFaults /\ faults' = faults + 1
    /\ InTurn(m, s)
    /\ Alone(m)
    /\ doubtful' = doubtful \cup {s.game}
    /\ UNCHANGED <<stores, modCalls>>

\* A step throws: the database, or a Redis command outside a pipeline.
StepThrows(m, s) == Fault(m, s) /\ Thrown(m, s)

\* A Redis write is lost and nobody notices.
WriteLost(m, s) ==
    /\ Fault(m, s)
    /\ s.do \in RedisSteps
    /\ Advance(m, s)
    /\ order' = [order EXCEPT ![m].whole = FALSE]

EndOrder(m) ==
    /\ Underway(m) /\ program[m] = {}
    /\ order' = [order EXCEPT ![m] = NoOrder]
    /\ UNCHANGED <<stores, program, doubtful, modCalls, faults>>

Rebuilt == [g \in Hashes |-> row[g]]

Halfway ==
    {g \in AllGames :
        \E m \in Moderators : \E s \in program[m] : InTurn(m, s) /\ s.game = g}

\* The service stops, and rebuilds the hashes and the set before it listens.
\* The set takes names from the list too, so it may bring a ban back.
Restart ==
    /\ \A m \in Moderators : Underway(m) => Alone(m)
    /\ faults < MaxFaults /\ faults' = faults + 1
    /\ doubtful' = (doubtful \cup Halfway) \ Hashes
    /\ program' = [m \in Moderators |-> {}]
    /\ order' = [m \in Moderators |-> NoOrder]
    /\ mirror' = Rebuilt
    /\ banSet' = (row["coinflip"] = "BANNED" \/ banList)
    /\ UNCHANGED <<row, banList, caps, rowCaps, modCalls>>

OrderStep(m, s) ==
    \/ AssertNoneBanned(m, s) \/ Look(m, s) \/ WriteRow(m, s) \/ WriteHash(m, s)
    \/ Invalidate(m, s) \/ ReadList(m, s) \/ WriteList(m, s) \/ WriteSet(m, s)
    \/ WriteCaps(m, s) \/ StepThrows(m, s) \/ WriteLost(m, s)

ModNext ==
    \/ \E m \in Moderators :
          \/ \E s \in program[m] : OrderStep(m, s)
          \/ EndOrder(m)
          \/ \E o \in Orders : BeginOrder(m, o)
    \/ Restart

ModSpec == ModInit /\ [][ModNext]_modVars

-----------------------------------------------------------------------------

\* What the games read of g says what the row says; the hourly cap of a
\* coinflip limit may be an old one.
Agrees(g) ==
    CASE g \in Hashes -> mirror[g] = row[g]
      [] g = "crash" -> TRUE
      [] g = "coinflip" ->
            /\ banSet = (row[g] = "BANNED") /\ banList = banSet
            /\ rowCaps \subseteq caps /\ caps \subseteq rowCaps \cup {"hour"}

(***************************************************************************)
(* Between requests, Redis agrees with the rows in every game, unless a    *)
(* step failed or requests overlapped there; and a restart makes dice and  *)
(* mines agree again, whatever has happened.                               *)
(***************************************************************************)
MirrorsAgreeWhenQuiet ==
    (\A m \in Moderators : ~Underway(m))
        => \A g \in AllGames \ doubtful : Agrees(g)

\* The games an order is about, and what it says it does there.  (A limit
\* without an hourly cap does not say that there is none.)
Scope(o) == IF Global(o) THEN AllGames ELSE {o.scope}
Given(o, c) ==
    IF o.op = "limit" THEN o.given \subseteq c /\ c \subseteq o.given \cup {"hour"}
    ELSE c = {}
Holds(o, g) ==
    /\ row[g] = StatusAfter(o, g)
    /\ g \in Hashes => mirror[g] = row[g]
    /\ g = "coinflip" =>
          /\ o.op \in {"ban", "unban", "clear"} =>
                banSet = (o.op = "ban") /\ banList = banSet
          /\ Given(o, rowCaps) /\ Given(o, caps)

\* Where it found nothing to do, a global unban or unlimit leaves Redis alone,
\* and a ban from coinflip only adds the name to the set again.
OnlyLooked(o) == Global(o) /\ o.op \in {"unban", "unlimit"}
OnlyNamed(o, g) == ~Global(o) /\ o.op = "ban" /\ g = "coinflip"
LeftAlone(o, g) ==
    /\ g \in o.skipped
    /\ \/ OnlyLooked(o) /\ ~Sought(o.op, row[g])
       \/ OnlyNamed(o, g) /\ row[g] = "BANNED" /\ banSet

(***************************************************************************)
(* A request that ran alone and without a failure has done in every game   *)
(* of its scope all it says, however half done earlier requests have left  *)
(* that game; so what failed can be finished by a repetition, save in two  *)
(* cases, where the code stops at a row that is as it should be.  A global *)
(* unban or unlimit does nothing in a game that has no ban or limit in its *)
(* row.  And a ban from coinflip of a player whose row is BANNED adds the  *)
(* name to the set, but repairs neither the list nor the caps.             *)
(***************************************************************************)
RequestsFinish ==
    \A m \in Moderators :
        LET o == order[m] IN
        Underway(m) /\ program[m] = {} /\ o.alone /\ o.whole
        => \A g \in Scope(o) : Holds(o, g) \/ LeftAlone(o, g)

=============================================================================
