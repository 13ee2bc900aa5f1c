-------------------------- MODULE ModerationProofs --------------------------
(***************************************************************************)
(* The theorems about Moderation, for any number of requests, bounds on    *)
(* the calls and failures.  The invariant is ModInv; its parts come in the *)
(* order in which they need each other: what a request has left to do, who *)
(* else is at work, what a request saw of a row, what the stores look like *)
(* half way, and what is done.                                             *)
(***************************************************************************)
EXTENDS Moderation, TLAPS

\* What is still to do.
Has(m, g, do) == Step(g, do) \in program[m]
Left(m, g) == \E s \in program[m] : s.game = g

\* What an order is, and the orders there can be.
OrderRecords == [op : Ops \cup {"none"}, scope : AllGames \cup {"global", "none"},
                 given : SUBSET Caps, alone : BOOLEAN, whole : BOOLEAN,
                 skipped : SUBSET AllGames]
IsOrder(o) ==
    /\ o.op \in Ops /\ o.scope \in AllGames \cup {"global"}
    /\ o.scope \in {"global", "dice"} => o.op # "clear"
    /\ o.scope \in {"crash", "coinflip"} => o.op \in {"ban", "limit", "clear"}
    /\ o.given \subseteq Caps /\ (o.op # "limit" => o.given = {})
\* Every request is an order, and what it has to do is of its program.
OrdersFit ==
    /\ DOMAIN program = Moderators
    /\ order \in [Moderators -> OrderRecords]
    /\ \A m \in Moderators :
       IF Underway(m)
       THEN IsOrder(order[m]) /\ program[m] \subseteq Program(order[m])
       ELSE program[m] = {}

\* The steps are done in their turn.
InSequence ==
    \A m \in Moderators :
        /\ \A g \in AllGames :
              /\ Has(m, g, "row") => \A do \in Mirrors(order[m], g) : Has(m, g, do)
              /\ Has(m, g, "look") => Has(m, g, "row")
              /\ Has(m, "crash", "assert") => Has(m, g, "row")
        /\ \A s, t \in program[m] :
              Place(s.game) < Place(t.game) => Has(m, t.game, "row")

\* The mirrors of a game follow the row.
LEMMA MirrorsLast ==
    ASSUME NEW o, NEW g \in AllGames, NEW do \in Mirrors(o, g)
    PROVE  /\ do \in {"hash", "invalidate", "caps", "readList", "writeList", "set"}
           /\ CallTurn(o, do) \in 3..8
           /\ do = "hash" <=> g \in Hashes
           /\ do = "invalidate" <=> g = "crash"
BY DEF Mirrors, CoinflipMirrors, CallTurn, CapsTurn, AllGames, Hashes

\* The look is before the row, and the row before its mirrors.
LEMMA RowTurns == \A o : CallTurn(o, "look") = 1 /\ CallTurn(o, "row") = 2
BY DEF CallTurn

\* The games do not overlap.
LEMMA Places ==
    /\ \A g \in AllGames : Place(g) \in Nat
    /\ \A g, h \in AllGames : g # h => Place(g) + 9 < Place(h) \/ Place(h) + 9 < Place(g)
BY DEF AllGames, Place

\* The steps of a request.
LEMMA StepKinds ==
    ASSUME NEW o, IsOrder(o), NEW s \in Program(o)
    PROVE  /\ s.game \in AllGames
           /\ s = Step(s.game, s.do)
           /\ \/ s = Step("crash", "assert") /\ Global(o) /\ o.op = "limit"
              \/ /\ s.do \in {"look", "row"} \cup Mirrors(o, s.game)
                 /\ s.game \in Scope(o)
                 /\ s.do = "look" => Looks(o, s.game)
<1>1. ASSUME NEW g \in AllGames, s \in Part(o, g), g \in Scope(o)
      PROVE  /\ s.game = g /\ s = Step(g, s.do)
             /\ s.do \in {"look", "row"} \cup Mirrors(o, g)
             /\ s.do = "look" => Looks(o, g)
  <2>1. PICK do \in (IF Looks(o, g) THEN {"look", "row"} ELSE {"row"}) \cup Mirrors(o, g) :
             s = Step(g, do)
        BY <1>1 DEF Part, Steps
  <2>2. s.game = g /\ s.do = do BY <2>1 DEF Step
  <2>3. "look" \notin Mirrors(o, g) BY MirrorsLast
  <2> QED BY <2>1, <2>2, <2>3
<1>2. CASE Global(o)
  <2>1. CASE s = Step("crash", "assert") /\ o.op = "limit"
        BY <1>2, <2>1 DEF Step, AllGames
  <2>2. CASE \E g \in AllGames : s \in Part(o, g)
        BY <1>1, <1>2, <2>2 DEF Scope
  <2> QED BY <1>2, <2>1, <2>2 DEF Program
<1>3. CASE ~Global(o)
  <2>1. o.scope \in AllGames BY <1>3 DEF IsOrder, Global
  <2> QED BY <1>1, <1>3, <2>1 DEF Program, Scope
<1> QED BY <1>2, <1>3

\* Every request begins with the row and its mirrors in all its games.
LEMMA Begun ==
    ASSUME NEW o, IsOrder(o), NEW g \in Scope(o)
    PROVE  /\ g \in AllGames
           /\ Step(g, "row") \in Program(o)
           /\ \A do \in Mirrors(o, g) : Step(g, do) \in Program(o)
<1>1. g \in AllGames BY DEF Scope, IsOrder, Global
<1>2. Part(o, g) \subseteq Program(o) BY <1>1 DEF Program, Scope
<1>3. Step(g, "row") \in Part(o, g) /\ \A do \in Mirrors(o, g) : Step(g, do) \in Part(o, g)
      BY DEF Part, Steps
<1> QED BY <1>1, <1>2, <1>3

\* A step in its turn comes before what is left.
LEMMA BeforeTheRest ==
    ASSUME NEW m \in Moderators, IsOrder(order[m]), program[m] \subseteq Program(order[m]),
           NEW s, InTurn(m, s), NEW t \in program[m], s.do # "assert"
    PROVE  /\ t.do # "assert"
           /\ ~(Place(t.game) < Place(s.game))
           /\ t.game = s.game => CallTurn(order[m], s.do) <= CallTurn(order[m], t.do)
<1> DEFINE o == order[m]
<1>1. s \in Program(o) /\ t \in Program(o) /\ Turn(o, s) <= Turn(o, t) BY DEF InTurn
<1>2. s.game \in AllGames /\ t.game \in AllGames BY <1>1, StepKinds
<1>3. ASSUME NEW x \in Program(o), x.do # "assert" 
      PROVE  CallTurn(o, x.do) \in 1..8
  <2>1. x.do \in {"look", "row"} \cup Mirrors(o, x.game) /\ x.game \in AllGames
        BY <1>3, StepKinds DEF Step
  <2> QED BY <2>1, MirrorsLast, RowTurns
<1>4. CallTurn(o, s.do) \in 1..8 BY <1>1, <1>3
<1>5. Turn(o, s) = Place(s.game) + CallTurn(o, s.do) BY DEF Turn
<1>6. t.do # "assert"
  <2> SUFFICES ASSUME t.do = "assert" PROVE FALSE OBVIOUS
  <2>1. Turn(o, t) = 0 BY DEF Turn
  <2> QED BY <1>1, <1>2, <1>4, <1>5, <2>1, Places
<1>7. CallTurn(o, t.do) \in 1..8 BY <1>1, <1>3, <1>6
<1>8. Turn(o, t) = Place(t.game) + CallTurn(o, t.do) BY <1>6 DEF Turn
<1> HIDE DEF o
<1>9. Place(s.game) \in Nat /\ Place(t.game) \in Nat BY <1>2, Places
<1>10. Place(s.game) + CallTurn(o, s.do) <= Place(t.game) + CallTurn(o, t.do)
       BY <1>1, <1>5, <1>8
<1>11. s.game # t.game => Place(s.game) + 9 < Place(t.game) \/ Place(t.game) + 9 < Place(s.game)
       BY <1>2, Places
<1>12. ~(Place(t.game) < Place(s.game)) BY <1>4, <1>7, <1>9, <1>10, <1>11
<1>13. t.game = s.game => CallTurn(o, s.do) <= CallTurn(o, t.do)
       BY <1>4, <1>7, <1>9, <1>10
<1> QED BY <1>6, <1>12, <1>13 DEF o

\* What a step of m leaves of its program: all but the step; at most the finally
\* of crash; after a look, what is not of this game; or the mirrors of the one
\* game there is.
LeavesAll(m, s) == program'[m] = program[m] \ {s}
LeavesFinally(m) ==
    program'[m] \subseteq {Step("crash", "invalidate")} /\ order'[m].whole = FALSE
LeavesOthers(m, s) ==
    /\ s.do = "look" /\ Global(order[m]) /\ ~Sought(order[m].op, row[s.game])
    /\ Skip(m, s.game)
    /\ program'[m] = {t \in program[m] \ {s} : t.game # s.game \/ t.do = "invalidate"}
LeavesMirrors(m, s) ==
    /\ s.do = "look" /\ ~Global(order[m])
    /\ DoneAlready(order[m], s.game) /\ ~Sought(order[m].op, row[s.game])
    /\ Skip(m, s.game)
    /\ program'[m] = {t \in program[m] \ {s} :
                        IF s.game = "coinflip" THEN t.do = "set" ELSE t.do # "row"}
Leaves(m, s) ==
    \/ LeavesAll(m, s) \/ LeavesFinally(m)
    \/ LeavesOthers(m, s) \/ LeavesMirrors(m, s)

\* Nobody else's program and order change.
Recorded(m) ==
    \/ order' = order
    \/ order' = [order EXCEPT ![m].whole = FALSE]
    \/ \E g \in AllGames : Skip(m, g)
OnlyMine(m) ==
    /\ program'[m] \subseteq program[m]
    /\ \A n \in Moderators : n # m => program'[n] = program[n]
    /\ Recorded(m)

\* A request whose program has a step is under way, and knows what it is.
LEMMA Mine ==
    ASSUME OrdersFit, NEW m \in Moderators, NEW s \in program[m]
    PROVE  /\ Underway(m) /\ IsOrder(order[m]) /\ program[m] \subseteq Program(order[m])
           /\ s.game \in AllGames /\ s = Step(s.game, s.do)
<1>1. Underway(m) /\ IsOrder(order[m]) /\ program[m] \subseteq Program(order[m])
      BY DEF OrdersFit
<1> QED BY <1>1, StepKinds

\* Every step is in its turn, and leaves one of these.
LEMMA StepLeaves ==
    ASSUME OrdersFit, NEW m \in Moderators, NEW s \in program[m], OrderStep(m, s)
    PROVE  InTurn(m, s) /\ Leaves(m, s) /\ OnlyMine(m)
           /\ program' = [program EXCEPT ![m] = program'[m]]
<1> USE DEF Doing, Recorded
<1>0. InTurn(m, s)
      BY DEF OrderStep, AssertNoneBanned, Look, WriteRow, WriteHash, Invalidate, ReadList,
             WriteList, WriteSet, WriteCaps, StepThrows, WriteLost, Fault
<1> SUFFICES Leaves(m, s) /\ OnlyMine(m) /\ program' = [program EXCEPT ![m] = program'[m]]
    BY <1>0
<1>1. ASSUME NEW P, GoOn(m, P)
      PROVE  program'[m] = P /\ (\A n \in Moderators : n # m => program'[n] = program[n])
             /\ program' = [program EXCEPT ![m] = program'[m]]
      BY <1>1 DEF GoOn, OrdersFit
<1>2. ASSUME order' = [order EXCEPT ![m].whole = FALSE] PROVE order'[m].whole = FALSE
      BY <1>2 DEF OrdersFit, OrderRecords
<1>3. ASSUME Advance(m, s), order' = order \/ order' = [order EXCEPT ![m].whole = FALSE]
      PROVE  Leaves(m, s) /\ OnlyMine(m) /\ program' = [program EXCEPT ![m] = program'[m]]
  <2>1. GoOn(m, program[m] \ {s}) BY <1>3 DEF Advance, Later
  <2> QED BY <1>1, <1>3, <2>1 DEF Leaves, LeavesAll, OnlyMine
<1>4. ASSUME Thrown(m, s)
      PROVE  Leaves(m, s) /\ OnlyMine(m) /\ program' = [program EXCEPT ![m] = program'[m]]
  <2> DEFINE P == {t \in Later(m, s) : s.game = "crash" /\ t = Step("crash", "invalidate")}
  <2>1. GoOn(m, P) /\ order' = [order EXCEPT ![m].whole = FALSE] BY <1>4 DEF Thrown
  <2>2. P \subseteq program[m] /\ P \subseteq {Step("crash", "invalidate")} BY DEF Later
  <2> HIDE DEF P
  <2> QED BY <1>1, <1>2, <2>1, <2>2 DEF Leaves, LeavesFinally, OnlyMine
<1>5. CASE AssertNoneBanned(m, s)
  <2>1. CASE \E g \in AllGames : row[g] = "BANNED"
    <3>1. GoOn(m, {}) /\ order' = [order EXCEPT ![m].whole = FALSE]
          BY <1>5, <2>1 DEF AssertNoneBanned
    <3>2. program'[m] = {} BY <1>1, <3>1
    <3> QED BY <1>1, <1>2, <3>1, <3>2 DEF Leaves, LeavesFinally, OnlyMine
  <2>2. CASE ~\E g \in AllGames : row[g] = "BANNED"
        BY <1>3, <1>5, <2>2 DEF AssertNoneBanned
  <2> QED BY <2>1, <2>2
<1>6. CASE Look(m, s)
  <2> DEFINE g == s.game
             o == order[m]
             P == {t \in program[m] \ {s} : t.game # g \/ t.do = "invalidate"}
             Q == {t \in program[m] \ {s} :
                     IF g = "coinflip" THEN t.do = "set" ELSE t.do # "row"}
  <2>0. Later(m, s) = program[m] \ {s} /\ s.do = "look" BY <1>6 DEF Later, Look
  <2>1. \/ Advance(m, s) /\ order' = order
        \/ Global(o) /\ ~Sought(o.op, row[g]) /\ GoOn(m, P) /\ Skip(m, g)
        \/ /\ ~Global(o) /\ DoneAlready(o, g) /\ ~Sought(o.op, row[g])
           /\ GoOn(m, Q) /\ Skip(m, g)
        \/ Thrown(m, s)
        BY <1>6, <2>0 DEF Look
  <2>2. /\ P \subseteq program[m] /\ Q \subseteq program[m]
        /\ Skip(m, g) => \E h \in AllGames : Skip(m, h)
    <3>1. g \in AllGames BY Mine
    <3> QED BY <3>1
  <2>3. CASE Global(o) /\ ~Sought(o.op, row[g]) /\ GoOn(m, P) /\ Skip(m, g)
    <3>1. program'[m] = P BY <1>1, <2>3
    <3> QED BY <1>1, <2>0, <2>2, <2>3, <3>1 DEF Leaves, LeavesOthers, OnlyMine
  <2>4. CASE /\ ~Global(o) /\ DoneAlready(o, g) /\ ~Sought(o.op, row[g])
           /\ GoOn(m, Q) /\ Skip(m, g)
    <3>1. program'[m] = Q BY <1>1, <2>4
    <3> QED BY <1>1, <2>0, <2>2, <2>4, <3>1 DEF Leaves, LeavesMirrors, OnlyMine
  <2> QED BY <1>3, <1>4, <2>1, <2>3, <2>4
<1>7. CASE WriteRow(m, s)
      BY <1>3, <1>4, <1>7 DEF WriteRow
<1>8. CASE WriteHash(m, s) \/ Invalidate(m, s) \/ ReadList(m, s) \/ WriteList(m, s)
           \/ WriteSet(m, s) \/ WriteCaps(m, s)
      BY <1>3, <1>8 DEF WriteHash, Invalidate, ReadList, WriteList, WriteSet, WriteCaps
<1>9. CASE StepThrows(m, s) BY <1>4, <1>9 DEF StepThrows
<1>10. CASE WriteLost(m, s) BY <1>3, <1>10 DEF WriteLost
<1> QED BY <1>5, <1>6, <1>7, <1>8, <1>9, <1>10 DEF OrderStep

\* A request that is not alone has made everything doubtful.
AloneOrDoubtful ==
    \A m \in Moderators : Underway(m) =>
        IF order[m].alone THEN Alone(m) ELSE doubtful = AllGames

\* An order changes in that it is no longer whole or has skipped a game.
LEMMA SameOrder ==
    ASSUME OrdersFit, NEW m \in Moderators, OnlyMine(m), NEW n \in Moderators
    PROVE  /\ order'[n].op = order[n].op /\ order'[n].scope = order[n].scope
           /\ order'[n].given = order[n].given /\ order'[n].alone = order[n].alone
           /\ order'[n].whole => order[n].whole
           /\ order[n].skipped \subseteq order'[n].skipped
           /\ n # m => order'[n] = order[n]
           /\ order'[n] \in OrderRecords
<1>1. order[n] \in OrderRecords /\ order[m] \in OrderRecords BY DEF OrdersFit
<1>2. CASE order' = order BY <1>1, <1>2
<1>3. CASE order' = [order EXCEPT ![m].whole = FALSE]
      BY <1>1, <1>3 DEF OrdersFit, OrderRecords
<1>4. ASSUME NEW g \in AllGames, Skip(m, g)
      PROVE  /\ order'[n].op = order[n].op /\ order'[n].scope = order[n].scope
             /\ order'[n].given = order[n].given /\ order'[n].alone = order[n].alone
             /\ order'[n].whole => order[n].whole
             /\ order[n].skipped \subseteq order'[n].skipped
             /\ n # m => order'[n] = order[n]
             /\ order'[n] \in OrderRecords
  <2>1. order' = [order EXCEPT ![m].skipped = order[m].skipped \cup {g}]
        BY <1>1, <1>4 DEF Skip
  <2> QED BY <1>1, <2>1 DEF OrdersFit, OrderRecords
<1> QED BY <1>2, <1>3, <1>4 DEF OnlyMine, Recorded

\* What depends on the order without "whole" stays.
LEMMA SameRules ==
    ASSUME NEW o, NEW p, p.op = o.op, p.scope = o.scope, p.given = o.given
    PROVE  /\ IsOrder(p) <=> IsOrder(o)
           /\ Program(p) = Program(o)
           /\ \A g : Mirrors(p, g) = Mirrors(o, g)
           /\ Global(p) <=> Global(o)
           /\ Scope(p) = Scope(o)
           /\ \A g : StatusAfter(p, g) = StatusAfter(o, g)
           /\ \A c : Capped(p, c) = Capped(o, c) /\ (Given(p, c) <=> Given(o, c))
           /\ OnlyLooked(p) <=> OnlyLooked(o)
           /\ \A g : OnlyNamed(p, g) <=> OnlyNamed(o, g)
<1>1. \A g : Mirrors(p, g) = Mirrors(o, g) BY DEF Mirrors, CoinflipMirrors
<1>2. Global(p) <=> Global(o) BY DEF Global
<1>3. \A g : Looks(p, g) <=> Looks(o, g) BY <1>2 DEF Looks
<1>4. \A g : Part(p, g) = Part(o, g)
  <2> SUFFICES ASSUME NEW g PROVE Part(p, g) = Part(o, g) OBVIOUS
  <2>1. (Looks(p, g) <=> Looks(o, g)) /\ Mirrors(p, g) = Mirrors(o, g) BY <1>1, <1>3
  <2> QED BY <2>1 DEF Part
<1>5. Program(p) = Program(o) BY <1>2, <1>4 DEF Program
<1>6. /\ \A g : StatusAfter(p, g) = StatusAfter(o, g)
      /\ \A c : Capped(p, c) = Capped(o, c) /\ (Given(p, c) <=> Given(o, c))
      BY DEF StatusAfter, Capped, Given
<1>7. /\ OnlyLooked(p) <=> OnlyLooked(o)
      /\ \A g : OnlyNamed(p, g) <=> OnlyNamed(o, g)
      BY <1>2 DEF OnlyLooked, OnlyNamed
<1> QED BY <1>1, <1>2, <1>5, <1>6, <1>7 DEF IsOrder, Scope

\* A step keeps the orders and what they are about.
LEMMA StepFits ==
    ASSUME OrdersFit, AloneOrDoubtful, NEW m \in Moderators, NEW s \in program[m],
           OrderStep(m, s)
    PROVE  OrdersFit' /\ AloneOrDoubtful'
<1>1. OnlyMine(m) /\ program' = [program EXCEPT ![m] = program'[m]] BY StepLeaves
<1>2. \A n \in Moderators : Underway(n)' <=> Underway(n)
      BY <1>1, SameOrder DEF Underway
<1>3. OrdersFit'
  <2>1. order' \in [Moderators -> OrderRecords]
    <3>1. DOMAIN order' = Moderators /\ order' = [n \in Moderators |-> order'[n]]
          BY <1>1 DEF OnlyMine, Recorded, Skip, OrdersFit
    <3> QED BY <1>1, <3>1, SameOrder
  <2>2. DOMAIN program' = Moderators BY <1>1 DEF OrdersFit
  <2>3. ASSUME NEW n \in Moderators
        PROVE  IF Underway(n)'
               THEN IsOrder(order'[n]) /\ program'[n] \subseteq Program(order'[n])
               ELSE program'[n] = {}
    <3>1. IsOrder(order'[n]) <=> IsOrder(order[n]) BY <1>1, SameOrder, SameRules
    <3>2. Program(order'[n]) = Program(order[n]) BY <1>1, SameOrder, SameRules
    <3>3. program'[n] \subseteq program[n] BY <1>1 DEF OnlyMine
    <3> QED BY <1>2, <3>1, <3>2, <3>3 DEF OrdersFit
  <2> QED BY <2>1, <2>2, <2>3 DEF OrdersFit
<1>4. doubtful \subseteq doubtful' /\ doubtful' \subseteq doubtful \cup {s.game}
      BY DEF OrderStep, AssertNoneBanned, Look, WriteRow, WriteHash, Invalidate, ReadList,
             WriteList, WriteSet, WriteCaps, StepThrows, WriteLost, Fault
<1>5. s.game \in AllGames BY Mine
<1>6. AloneOrDoubtful'
  <2> SUFFICES ASSUME NEW n \in Moderators, Underway(n)'
               PROVE  IF order'[n].alone THEN Alone(n)' ELSE doubtful' = AllGames
      BY DEF AloneOrDoubtful
  <2>1. Underway(n) /\ order'[n].alone = order[n].alone BY <1>1, <1>2, SameOrder
  <2>2. Alone(n)' <=> Alone(n) BY <1>2 DEF Alone
  <2> QED BY <1>4, <1>5, <2>1, <2>2 DEF AloneOrDoubtful
<1> QED BY <1>3, <1>6

\* A step keeps the rest in sequence.
LEMMA StepInSequence ==
    ASSUME OrdersFit, InSequence, NEW m \in Moderators, NEW s \in program[m],
           OrderStep(m, s)
    PROVE  InSequence'
<1> DEFINE o == order[m]
           P == program[m]
           Q == program'[m]
<1>1. /\ InTurn(m, s) /\ Leaves(m, s) /\ OnlyMine(m)
      BY StepLeaves
<1>2. Underway(m) /\ IsOrder(o) /\ P \subseteq Program(o) /\ s.game \in AllGames
      /\ s = Step(s.game, s.do)
      BY Mine
<1>3. \A t \in P : t.game \in AllGames /\ t = Step(t.game, t.do) BY Mine
<1>4. \A n \in Moderators : \A g : Mirrors(order'[n], g) = Mirrors(order[n], g)
      BY <1>1, SameOrder, SameRules
<1>5. /\ \A g \in AllGames :
            /\ Step(g, "row") \in P => \A do \in Mirrors(o, g) : Step(g, do) \in P
            /\ Step(g, "look") \in P => Step(g, "row") \in P
            /\ Step("crash", "assert") \in P => Step(g, "row") \in P
      /\ \A t, u \in P : Place(t.game) < Place(u.game) => Step(u.game, "row") \in P
      BY DEF InSequence, Has
<1>6. Q \subseteq P BY <1>1 DEF OnlyMine
<1>7. ASSUME s.do # "assert", NEW t \in P
      PROVE  /\ t.do # "assert"
             /\ ~(Place(t.game) < Place(s.game))
             /\ t.game = s.game => CallTurn(o, s.do) <= CallTurn(o, t.do)
      BY <1>1, <1>2, <1>7, BeforeTheRest
<1>8. ASSUME NEW g, NEW do PROVE Step(g, do).game = g /\ Step(g, do).do = do
      BY DEF Step
<1> SUFFICES
      /\ \A g \in AllGames :
            /\ Step(g, "row") \in Q => \A do \in Mirrors(o, g) : Step(g, do) \in Q
            /\ Step(g, "look") \in Q => Step(g, "row") \in Q
            /\ Step("crash", "assert") \in Q => Step(g, "row") \in Q
      /\ \A t, u \in Q : Place(t.game) < Place(u.game) => Step(u.game, "row") \in Q
  <2>1. \A n \in Moderators : n # m => program'[n] = program[n] BY <1>1 DEF OnlyMine
  <2> QED BY <1>4, <2>1 DEF InSequence, Has
<1>9. CASE LeavesAll(m, s)
  <2>0. Q = P \ {s} BY <1>9 DEF LeavesAll
  <2>1. ASSUME NEW g \in AllGames, Step(g, "row") \in Q, NEW do \in Mirrors(o, g)
        PROVE  Step(g, do) \in Q
    <3>1. Step(g, do) \in P /\ Step(g, "row") \in P BY <1>5, <1>6, <2>1
    <3>2. s # Step(g, do)
      <4> SUFFICES ASSUME s = Step(g, do) PROVE FALSE OBVIOUS
      <4>1. CallTurn(o, do) \in 3..8 /\ do # "assert" BY MirrorsLast
      <4>2. s.game = g /\ s.do = do BY <1>8
      <4>3. CallTurn(o, do) <= CallTurn(o, "row") BY <1>7, <1>8, <3>1, <4>1, <4>2
      <4> QED BY <4>1, <4>3, RowTurns
    <3> QED BY <2>0, <3>1, <3>2
  <2>2. ASSUME NEW g \in AllGames, Step(g, "look") \in Q PROVE Step(g, "row") \in Q
    <3>1. Step(g, "look") \in P /\ Step(g, "row") \in P BY <1>5, <1>6, <2>2
    <3>2. s # Step(g, "row")
      <4> SUFFICES ASSUME s = Step(g, "row") PROVE FALSE OBVIOUS
      <4>1. s.game = g /\ s.do = "row" BY <1>8
      <4>2. CallTurn(o, "row") <= CallTurn(o, "look") BY <1>7, <1>8, <3>1, <4>1
      <4> QED BY <4>2, RowTurns
    <3> QED BY <2>0, <3>1, <3>2
  <2>3. ASSUME NEW g \in AllGames, Step("crash", "assert") \in Q PROVE Step(g, "row") \in Q
    <3>1. Step("crash", "assert") \in P /\ Step(g, "row") \in P BY <1>5, <1>6, <2>3
    <3>2. s # Step(g, "row") BY <1>7, <1>8, <3>1
    <3> QED BY <2>0, <3>1, <3>2
  <2>4. ASSUME NEW t \in Q, NEW u \in Q, Place(t.game) < Place(u.game)
        PROVE  Step(u.game, "row") \in Q
    <3>1. Step(u.game, "row") \in P BY <1>5, <1>6, <2>4
    <3>2. s # Step(u.game, "row") BY <1>6, <1>7, <1>8, <2>4
    <3> QED BY <2>0, <3>1, <3>2
  <2> QED BY <2>1, <2>2, <2>3, <2>4
<1>10. CASE LeavesFinally(m)
  <2>1. \A t \in Q : t = Step("crash", "invalidate") BY <1>10 DEF LeavesFinally
  <2>2. \A g : Step(g, "row") \notin Q /\ Step(g, "look") \notin Q /\ Step(g, "assert") \notin Q
        BY <1>8, <2>1
  <2>3. \A t \in Q : t.game = "crash" BY <1>8, <2>1
  <2>4. ~(Place("crash") < Place("crash")) BY Places DEF AllGames
  <2> QED BY <2>2, <2>3, <2>4
<1>11. CASE LeavesOthers(m, s)
  <2>0. Q = {t \in P \ {s} : t.game # s.game \/ t.do = "invalidate"} /\ s.do = "look"
        BY <1>11 DEF LeavesOthers
  <2>1. \A g, do : g # s.game /\ Step(g, do) \in P => Step(g, do) \in Q
        BY <1>8, <2>0
  <2>2. \A g, do : do # "invalidate" /\ Step(g, do) \in Q => g # s.game
        BY <1>8, <2>0
  <2>3. \A g : Step(g, "assert") \notin Q BY <1>6, <1>7, <1>8, <2>0
  <2>4. ASSUME NEW t \in Q, NEW u \in Q, Place(t.game) < Place(u.game)
        PROVE  Step(u.game, "row") \in Q
    <3>1. u.game # s.game BY <1>6, <1>7, <2>0, <2>4
    <3> QED BY <1>5, <1>6, <2>1, <2>4, <3>1
  <2> QED BY <1>5, <1>6, <2>1, <2>2, <2>3, <2>4
<1>12. CASE LeavesMirrors(m, s)
  <2>0. /\ Q = {t \in P \ {s} : IF s.game = "coinflip" THEN t.do = "set" ELSE t.do # "row"}
        /\ s.do = "look" /\ ~Global(o)
        BY <1>12 DEF LeavesMirrors
  <2>1. \A t \in P : t.game = s.game
    <3>1. \A t \in P : t.game \in Scope(o) BY <1>2, <2>0, StepKinds
    <3> QED BY <2>0, <3>1 DEF Scope
  <2>2. \A g : Step(g, "row") \notin Q BY <1>8, <2>0
  <2>3. \A g : Step(g, "look") \notin Q
        BY <1>2, <1>6, <1>8, <2>0, <2>1
  <2>4. \A g : Step(g, "assert") \notin Q BY <1>6, <1>7, <1>8, <2>0
  <2>5. \A t, u \in Q : ~(Place(t.game) < Place(u.game))
        BY <1>2, <1>6, <2>1, Places
  <2> QED BY <2>2, <2>3, <2>4, <2>5
<1> QED BY <1>1, <1>9, <1>10, <1>11, <1>12 DEF Leaves

\* What a request that is alone saw of a row still holds when it writes it.
Untouched(m, g) ==
    LET o == order[m] IN
    Has(m, g, "row") /\ ~Has(m, g, "look") =>
        /\ o.op \in {"unban", "unlimit"} => Sought(o.op, row[g])
        /\ o.op = "limit" /\ ~Has(m, "crash", "assert") => row[g] # "BANNED"
RowsLookedAt ==
    \A m \in Moderators, g \in AllGames :
        Underway(m) /\ order[m].alone => Untouched(m, g)

\* A game without doubt agrees with its row, save one whose row is written and
\* whose mirrors are not all done.
CapsAgree == rowCaps \subseteq caps /\ caps \subseteq rowCaps \cup {"hour"}
CapsWillAgree(o) == o.given \subseteq rowCaps /\ rowCaps \subseteq Capped(o, caps)
HalfDone(m, g) ==
    LET o == order[m] IN
    /\ row[g] = StatusAfter(o, g)
    /\ g = "coinflip" =>
        /\ ~Has(m, g, "writeList") => banList = (o.op = "ban")
        /\ ~Has(m, g, "set") => banSet = (o.op = "ban")
        /\ IF ~Has(m, g, "caps") THEN CapsAgree ELSE CapsWillAgree(o)
Tidy(m, g) ==
    IF Left(m, g) /\ ~Has(m, g, "row") /\ g # "crash" THEN HalfDone(m, g)
    ELSE Agrees(g)
TidyWhileBusy ==
    \A m \in Moderators : Underway(m) => \A g \in AllGames \ doubtful : Tidy(m, g)

\* What a request that ran alone and whole has behind it in a game holds.
DoneSoFar(m, g) ==
    LET o == order[m] IN
    /\ Has(m, g, "row") \/ row[g] = StatusAfter(o, g)
    /\ g \in Hashes => Has(m, g, "hash") \/ (~Has(m, g, "row") /\ mirror[g] = row[g])
    /\ g = "coinflip" =>
        /\ o.op \in {"ban", "unban", "clear"} =>
            /\ Has(m, g, "set") \/ banSet = (o.op = "ban")
            /\ Has(m, g, "writeList") \/ banList = (o.op = "ban")
        /\ Has(m, g, "row") \/ Given(o, rowCaps)
        /\ Has(m, g, "caps") \/ Given(o, caps)
\* It may have left the game alone, but for what it still has to do there.
LeftSoFar(m, g) ==
    LET o == order[m] IN
    /\ g \in o.skipped /\ ~Has(m, g, "row")
    /\ \/ OnlyLooked(o) /\ ~Sought(o.op, row[g])
       \/ OnlyNamed(o, g) /\ row[g] = "BANNED" /\ (Has(m, g, "set") \/ banSet)
Sound(o) == o.alone /\ o.whole
DoneInTurn ==
    \A m \in Moderators :
        Underway(m) /\ Sound(order[m]) =>
            \A g \in Scope(order[m]) : DoneSoFar(m, g) \/ LeftSoFar(m, g)

\* The invariant of the requests.
ModInv ==
    /\ ModTypeOK
    /\ OrdersFit
    /\ InSequence
    /\ AloneOrDoubtful
    /\ RowsLookedAt
    /\ TidyWhileBusy
    /\ DoneInTurn
    /\ MirrorsAgreeWhenQuiet

\* What a step does to the stores, by what the step is.
StepDoes(m, s) ==
    LET o == order[m]
        g == s.game
    IN
    /\ row' # row => /\ s.do = "row" /\ row' = [row EXCEPT ![g] = StatusAfter(o, g)]
                     /\ LeavesAll(m, s)
    /\ mirror' # mirror => /\ s.do = "hash" /\ LeavesAll(m, s)
                           /\ mirror' = [mirror EXCEPT ![g] = StatusAfter(o, g)]
    /\ banList' # banList => s.do = "writeList" /\ banList' = (o.op = "ban")
    /\ banSet' # banSet => s.do = "set" /\ banSet' = (o.op = "ban")
    /\ rowCaps' # rowCaps => s.do = "row" /\ g = "coinflip"
    /\ caps' # caps => s.do = "caps"

\* Every step does that, and keeps the types.
LEMMA StepStores ==
    ASSUME ModTypeOK, OrdersFit, NEW m \in Moderators, NEW s \in program[m], OrderStep(m, s)
    PROVE  StepDoes(m, s) /\ ModTypeOK'
<1> USE DEF Doing, stores
<1>1. s.game \in AllGames /\ IsOrder(order[m]) BY Mine
<1>2. StatusAfter(order[m], s.game) \in RowStatuses
      BY DEF StatusAfter, RowStatuses, ModStatuses
<1>3. CASE UNCHANGED stores /\ doubtful' \in {doubtful, doubtful \cup {s.game}}
      BY <1>1, <1>3 DEF StepDoes, ModTypeOK
<1>4. CASE \/ AssertNoneBanned(m, s) \/ Look(m, s) \/ Invalidate(m, s) \/ ReadList(m, s)
           \/ StepThrows(m, s) \/ WriteLost(m, s)
      BY <1>3, <1>4 DEF AssertNoneBanned, Look, Invalidate, ReadList, StepThrows, WriteLost,
                        Fault
<1>5. CASE WriteRow(m, s) /\ row' = row /\ rowCaps' = rowCaps /\ UNCHANGED stores
      BY <1>3, <1>5 DEF WriteRow
<1>6. CASE WriteRow(m, s) /\ ~UNCHANGED stores
  <2> DEFINE before == IF Global(order[m]) THEN {} ELSE rowCaps
  <2>1. /\ s.do = "row" /\ row' = [row EXCEPT ![s.game] = StatusAfter(order[m], s.game)]
        /\ rowCaps' # rowCaps => s.game = "coinflip"
        /\ rowCaps' \in {rowCaps, Capped(order[m], before)}
        /\ UNCHANGED <<mirror, banList, banSet, caps, doubtful>>
        /\ Advance(m, s)
        BY <1>6 DEF WriteRow
  <2>2. LeavesAll(m, s) BY <2>1 DEF Advance, GoOn, Later, LeavesAll, OrdersFit
  <2>3. rowCaps' \subseteq Caps
    <3>1. rowCaps \subseteq Caps /\ before \subseteq Caps BY DEF ModTypeOK
    <3>2. Capped(order[m], before) \subseteq Caps BY <1>1, <3>1 DEF Capped, IsOrder
    <3> HIDE DEF before
    <3> QED BY <2>1, <3>1, <3>2
  <2>4. row' \in [AllGames -> RowStatuses] BY <1>1, <1>2, <2>1 DEF ModTypeOK
  <2> QED BY <2>1, <2>2, <2>3, <2>4 DEF StepDoes, ModTypeOK
<1>7. CASE WriteHash(m, s)
  <2>1. LeavesAll(m, s)
        BY <1>7 DEF WriteHash, Advance, GoOn, Later, LeavesAll, OrdersFit
  <2>2. mirror' = [mirror EXCEPT ![s.game] = StatusAfter(order[m], s.game)]
        BY <1>7 DEF WriteHash
  <2>3. mirror' \in [Hashes -> RowStatuses] BY <1>2, <2>2 DEF ModTypeOK
  <2> QED BY <1>7, <2>1, <2>2, <2>3 DEF WriteHash, StepDoes, ModTypeOK
<1>8. CASE WriteList(m, s) BY <1>8 DEF WriteList, StepDoes, ModTypeOK
<1>9. CASE WriteSet(m, s) BY <1>9 DEF WriteSet, StepDoes, ModTypeOK
<1>10. CASE WriteCaps(m, s)
  <2>1. caps' \subseteq Caps
        BY <1>1, <1>10 DEF WriteCaps, ModTypeOK, Capped, IsOrder
  <2> QED BY <1>10, <2>1 DEF WriteCaps, StepDoes, ModTypeOK
<1> QED BY <1>4, <1>5, <1>6, <1>7, <1>8, <1>9, <1>10 DEF OrderStep

\* Outside coinflip there is no list, set or cap.
LEMMA CoinflipOnly ==
    ASSUME OrdersFit, NEW m \in Moderators, NEW s \in program[m]
    PROVE  /\ s.do \in {"readList", "writeList", "set", "caps"} => s.game = "coinflip"
           /\ s.do = "hash" => s.game \in Hashes
           /\ s.do \in {"invalidate", "assert"} => s.game = "crash"
<1> DEFINE o == order[m]
<1>1. IsOrder(o) /\ s \in Program(o) BY Mine
<1>2. \/ s = Step("crash", "assert")
      \/ s.do \in {"look", "row"}
      \/ s.game \in AllGames /\ s.do \in Mirrors(o, s.game)
      BY <1>1, StepKinds
<1>3. CASE s = Step("crash", "assert") BY <1>3 DEF Step
<1>4. CASE s.do \in {"look", "row"} BY <1>4
<1>5. CASE s.game \in AllGames /\ s.do \in Mirrors(o, s.game)
      BY <1>5 DEF Mirrors, CoinflipMirrors, AllGames, Hashes
<1> QED BY <1>2, <1>3, <1>4, <1>5

\* What is in turn, in the words of what is left.
LEMMA InTurnOf ==
    ASSUME OrdersFit, NEW m \in Moderators, NEW s, InTurn(m, s), s.do # "assert"
    PROVE  /\ ~Has(m, "crash", "assert")
           /\ \A t \in program[m] : ~(Place(t.game) < Place(s.game))
           /\ s.do # "look" => ~Has(m, s.game, "look")
           /\ s.do \notin {"look", "row"} => ~Has(m, s.game, "row")
<1> DEFINE o == order[m]
<1>1. /\ s \in program[m] /\ IsOrder(o) /\ program[m] \subseteq Program(o)
      /\ s.game \in AllGames
      BY Mine DEF InTurn
<1>2. \A t \in program[m] :
         /\ t.do # "assert" /\ ~(Place(t.game) < Place(s.game))
         /\ t.game = s.game => CallTurn(o, s.do) <= CallTurn(o, t.do)
      BY <1>1, BeforeTheRest
<1>3. ASSUME NEW g, NEW do PROVE Step(g, do).game = g /\ Step(g, do).do = do
      BY DEF Step
<1>4. ~Has(m, "crash", "assert") BY <1>2, <1>3 DEF Has
<1>5. s.do \in {"look", "row"} \cup Mirrors(o, s.game) BY <1>1, StepKinds DEF Step
<1>6. ASSUME s.do # "look", Has(m, s.game, "look") PROVE FALSE
  <2>1. CallTurn(o, s.do) <= CallTurn(o, "look") BY <1>2, <1>3, <1>6 DEF Has
  <2>2. CallTurn(o, s.do) \in 2..8 BY <1>1, <1>5, <1>6, MirrorsLast, RowTurns
  <2> QED BY <2>1, <2>2, RowTurns
<1>7. ASSUME s.do \notin {"look", "row"}, Has(m, s.game, "row") PROVE FALSE
  <2>1. CallTurn(o, s.do) <= CallTurn(o, "row") BY <1>2, <1>3, <1>7 DEF Has
  <2>2. CallTurn(o, s.do) \in 3..8 BY <1>1, <1>5, <1>7, MirrorsLast
  <2> QED BY <2>1, <2>2, RowTurns
<1> QED BY <1>2, <1>4, <1>6, <1>7

\* A look that goes on to the row has found what it sought.
LEMMA LookFinds ==
    ASSUME OrdersFit, NEW m \in Moderators, NEW s \in program[m], OrderStep(m, s),
           s.do = "look", Has(m, s.game, "row")'
    PROVE  Sought(order[m].op, row[s.game])
<1> USE DEF Doing
<1>0. \A g, do : Step(g, do).game = g /\ Step(g, do).do = do BY DEF Step
<1>1. Leaves(m, s) BY StepLeaves
<1>2. ~LeavesFinally(m) BY <1>0 DEF LeavesFinally, Has
<1>3. ~LeavesOthers(m, s) BY <1>0 DEF LeavesOthers, Has
<1>4. ~LeavesMirrors(m, s) BY <1>0 DEF LeavesMirrors, Has
<1>5. Look(m, s) \/ StepThrows(m, s)
      BY DEF OrderStep, AssertNoneBanned, WriteRow, WriteHash, Invalidate, ReadList,
             WriteList, WriteSet, WriteCaps, WriteLost, RedisSteps
<1>6. ~Thrown(m, s)
  <2> SUFFICES ASSUME Thrown(m, s) PROVE FALSE OBVIOUS
  <2> DEFINE P == {t \in Later(m, s) : s.game = "crash" /\ t = Step("crash", "invalidate")}
  <2>1. program'[m] = P BY DEF Thrown, GoOn, OrdersFit
  <2>2. Step(s.game, "row") \notin P BY <1>0
  <2> QED BY <2>1, <2>2 DEF Has
<1>7. Look(m, s) BY <1>5, <1>6 DEF StepThrows
<1> SUFFICES ASSUME ~Sought(order[m].op, row[s.game]) PROVE FALSE OBVIOUS
<1> DEFINE P == {t \in Later(m, s) : t.game # s.game \/ t.do = "invalidate"}
           Q == {t \in Later(m, s) :
                   IF s.game = "coinflip" THEN t.do = "set" ELSE t.do # "row"}
<1>8. GoOn(m, P) \/ GoOn(m, Q) BY <1>6, <1>7 DEF Look
<1>9. program'[m] = P \/ program'[m] = Q BY <1>8 DEF GoOn, OrdersFit
<1>10. Step(s.game, "row") \notin P /\ Step(s.game, "row") \notin Q BY <1>0
<1> QED BY <1>9, <1>10 DEF Has

\* assertNoneBanned goes on if no row is BANNED.
LEMMA NoneBanned ==
    ASSUME OrdersFit, NEW m \in Moderators, NEW s \in program[m], OrderStep(m, s),
           s.do = "assert", NEW g, Has(m, g, "row")'
    PROVE  \A h \in AllGames : row[h] # "BANNED"
<1> USE DEF Doing
<1>0. \A h, do : Step(h, do).game = h /\ Step(h, do).do = do BY DEF Step
<1>1. AssertNoneBanned(m, s) \/ StepThrows(m, s)
      BY DEF OrderStep, Look, WriteRow, WriteHash, Invalidate, ReadList,
             WriteList, WriteSet, WriteCaps, WriteLost, RedisSteps
<1>2. ~Thrown(m, s)
  <2> SUFFICES ASSUME Thrown(m, s) PROVE FALSE OBVIOUS
  <2> DEFINE P == {t \in Later(m, s) : s.game = "crash" /\ t = Step("crash", "invalidate")}
  <2>1. program'[m] = P BY DEF Thrown, GoOn, OrdersFit
  <2>2. Step(g, "row") \notin P BY <1>0
  <2> QED BY <2>1, <2>2 DEF Has
<1>3. AssertNoneBanned(m, s) BY <1>1, <1>2 DEF StepThrows
<1> SUFFICES ASSUME \E h \in AllGames : row[h] = "BANNED" PROVE FALSE OBVIOUS
<1>4. GoOn(m, {}) BY <1>3 DEF AssertNoneBanned
<1>5. program'[m] = {} BY <1>4 DEF GoOn, OrdersFit
<1> QED BY <1>5 DEF Has

\* Of two requests under way neither is alone.
LEMMA AtMostOneAlone ==
    ASSUME OrdersFit, AloneOrDoubtful, NEW m \in Moderators, NEW s \in program[m],
           NEW n \in Moderators, Underway(n), n # m
    PROVE  ~order[n].alone /\ doubtful = AllGames
BY Mine DEF AloneOrDoubtful, Alone, OrdersFit, OrderRecords

\* What a request saw of a row still holds after a step.
LEMMA StepRows ==
    ASSUME ModTypeOK, OrdersFit, AloneOrDoubtful, InSequence, RowsLookedAt,
           NEW m \in Moderators, NEW s \in program[m], OrderStep(m, s)
    PROVE  RowsLookedAt'
<1> DEFINE o == order[m]
<1>1. /\ InTurn(m, s) /\ Leaves(m, s) /\ OnlyMine(m)
      BY StepLeaves
<1>2. StepDoes(m, s) BY StepStores
<1> SUFFICES ASSUME NEW n \in Moderators, NEW g \in AllGames,
                    Underway(n)', order'[n].alone
             PROVE  Untouched(n, g)'
    BY DEF RowsLookedAt
<1>3. Underway(n) /\ order[n].alone BY <1>1, SameOrder DEF Underway
<1>4. n = m BY <1>3, AtMostOneAlone
<1>5. order'[m].op = o.op BY <1>1, SameOrder
<1>0. \A h, do : Step(h, do).game = h /\ Step(h, do).do = do BY DEF Step
<1> SUFFICES ASSUME Has(m, g, "row")', ~Has(m, g, "look")'
             PROVE  /\ o.op \in {"unban", "unlimit"} => Sought(o.op, row'[g])
                    /\ o.op = "limit" /\ ~Has(m, "crash", "assert")' => row'[g] # "BANNED"
    BY <1>4, <1>5 DEF Untouched
<1>6. Has(m, g, "row") BY <1>1 DEF OnlyMine, Has
<1>7. row'[g] = row[g]
  <2> SUFFICES ASSUME row' # row PROVE row'[g] = row[g] OBVIOUS
  <2>1. s.do = "row" /\ LeavesAll(m, s) /\ row' = [row EXCEPT ![s.game] = StatusAfter(o, s.game)]
        BY <1>2 DEF StepDoes
  <2>2. s.game # g
    <3>1. s = Step(s.game, s.do) BY Mine
    <3> QED BY <2>1, <3>1 DEF LeavesAll, Has
  <2> QED BY <2>1, <2>2 DEF ModTypeOK
<1>8. CASE Has(m, g, "look")
  <2>1. s = Step(g, "look")
    <3>1. CASE LeavesAll(m, s) BY <1>8, <3>1 DEF LeavesAll, Has
    <3>2. CASE LeavesFinally(m) BY <1>0, <3>2 DEF LeavesFinally, Has
    <3>3. CASE LeavesOthers(m, s)
      <4>1. g # s.game BY <1>0, <3>3 DEF LeavesOthers, Has
      <4> QED BY <1>0, <1>8, <3>3, <4>1 DEF LeavesOthers, Has
    <3>4. CASE LeavesMirrors(m, s) BY <1>0, <3>4 DEF LeavesMirrors, Has
    <3> QED BY <1>1, <3>1, <3>2, <3>3, <3>4 DEF Leaves
  <2>2. s.game = g /\ s.do = "look" BY <1>0, <2>1
  <2>3. Sought(o.op, row[g]) BY <2>2, LookFinds
  <2> QED BY <1>7, <2>3 DEF Sought
<1>9. CASE ~Has(m, g, "look")
  <2>1. Untouched(m, g) BY <1>3, <1>4 DEF RowsLookedAt
  <2>2. CASE ~Has(m, "crash", "assert") BY <1>6, <1>7, <1>9, <2>1, <2>2 DEF Untouched
  <2>3. CASE Has(m, "crash", "assert")
    <3>1. s.do = "assert" BY <1>1, <2>3, InTurnOf
    <3>2. row[g] # "BANNED" BY <3>1, NoneBanned
    <3> QED BY <1>6, <1>7, <1>9, <2>1, <3>2 DEF Untouched
  <2> QED BY <2>2, <2>3
<1> QED BY <1>8, <1>9

\* What a step writes that does not fail.
CapsWritten(o) == rowCaps' = Capped(o, IF Global(o) THEN {} ELSE rowCaps)
Writes(m, s) ==
    LET o == order[m]
        g == s.game
    IN
    /\ s.do \in {"look", "assert"} => UNCHANGED stores
    /\ s.do = "row" =>
         \/ row[g] = "CLEAR" /\ o.op \in {"unban", "unlimit"} /\ ~order'[m].whole
         \/ /\ row' = [row EXCEPT ![g] = StatusAfter(o, g)]
            /\ LeavesAll(m, s)
            /\ UNCHANGED <<mirror, banList, banSet, caps>>
            /\ g = "coinflip" => CapsWritten(o)
    /\ s.do \notin {"look", "assert", "row"} =>
         LeavesAll(m, s) /\ UNCHANGED <<row, rowCaps>>
    /\ s.do = "hash" => mirror' = [mirror EXCEPT ![g] = StatusAfter(o, g)]
    /\ banList' = IF s.do = "writeList" THEN o.op = "ban" ELSE banList
    /\ banSet' = IF s.do = "set" THEN o.op = "ban" ELSE banSet
    /\ caps' = IF s.do = "caps" THEN Capped(o, caps) ELSE caps

\* A step that leaves its game without doubt, or its request whole, has not
\* failed.
LEMMA StepWrites ==
    ASSUME ModTypeOK, OrdersFit, NEW m \in Moderators, NEW s \in program[m],
           OrderStep(m, s), s.game \notin doubtful' \/ order'[m].whole
    PROVE  Writes(m, s)
<1> USE DEF Doing, stores
<1> DEFINE o == order[m]
           g == s.game
<1>0. order'[m] \in OrderRecords BY StepLeaves, SameOrder
<1>1. ASSUME Thrown(m, s) PROVE order'[m].whole = FALSE
  <2>1. order[m] \in OrderRecords /\ order' = [order EXCEPT ![m].whole = FALSE]
        BY <1>1 DEF OrdersFit, Thrown
  <2> QED BY <2>1 DEF OrdersFit, OrderRecords
<1>2. ~StepThrows(m, s) /\ ~WriteLost(m, s)
  <2>1. CASE s.game \notin doubtful' BY <2>1 DEF StepThrows, WriteLost, Fault
  <2>2. CASE order'[m].whole = TRUE
    <3>1. ~StepThrows(m, s) BY <1>1, <2>2 DEF StepThrows
    <3>2. order[m] \in OrderRecords BY DEF OrdersFit
    <3>3. ~(order' = [order EXCEPT ![m].whole = FALSE])
          BY <2>2, <3>2 DEF OrdersFit, OrderRecords
    <3> QED BY <3>1, <3>3 DEF WriteLost
  <2> QED BY <1>0, <2>1, <2>2 DEF OrderRecords
<1>3. ASSUME Advance(m, s) PROVE LeavesAll(m, s)
      BY <1>3 DEF Advance, GoOn, Later, LeavesAll, OrdersFit
<1>4. CASE AssertNoneBanned(m, s) BY <1>4 DEF AssertNoneBanned, Writes
<1>5. CASE Look(m, s) BY <1>5 DEF Look, Writes
<1>6. CASE WriteRow(m, s)
  <2> DEFINE gone == /\ row[g] = "CLEAR"
                     /\ \/ o.op \in {"unban", "unlimit"} /\ g \in Hashes
                        \/ o.op = "unban" /\ g = "coinflip"
  <2>1. s.do = "row" BY <1>6 DEF WriteRow
  <2>2. CASE gone
    <3>1. Thrown(m, s) /\ UNCHANGED stores BY <1>6, <2>2 DEF WriteRow
    <3>2. order'[m].whole = FALSE BY <1>1, <3>1
    <3> QED BY <2>1, <2>2, <3>1, <3>2 DEF Writes
  <2>3. CASE ~gone
    <3>1. /\ row' = [row EXCEPT ![g] = StatusAfter(o, g)]
          /\ g = "coinflip" => CapsWritten(o)
          /\ UNCHANGED <<mirror, banList, banSet, caps, order>>
          /\ Advance(m, s)
          BY <1>6, <2>3 DEF WriteRow, CapsWritten
    <3> QED BY <1>3, <2>1, <3>1 DEF Writes
  <2> QED BY <2>2, <2>3
<1>7. CASE WriteHash(m, s) BY <1>3, <1>7 DEF WriteHash, Writes
<1>8. CASE Invalidate(m, s) BY <1>3, <1>8 DEF Invalidate, Writes
<1>9. CASE ReadList(m, s) BY <1>3, <1>9 DEF ReadList, Writes
<1>10. CASE WriteList(m, s) BY <1>3, <1>10 DEF WriteList, Writes
<1>11. CASE WriteSet(m, s) BY <1>3, <1>11 DEF WriteSet, Writes
<1>12. CASE WriteCaps(m, s)
  <2>1. caps' = Capped(o, caps) BY <1>12 DEF WriteCaps
  <2> QED BY <1>3, <1>12, <2>1 DEF WriteCaps, Writes
<1> QED BY <1>2, <1>4, <1>5, <1>6, <1>7, <1>8, <1>9, <1>10, <1>11, <1>12 DEF OrderStep

\* What a look that leaves the mirrors only has found.
LEMMA MirrorsOnly ==
    ASSUME OrdersFit, NEW m \in Moderators, NEW s \in program[m], ModTypeOK,
           LeavesMirrors(m, s), OrderStep(m, s)
    PROVE  /\ row[s.game] = StatusAfter(order[m], s.game)
           /\ order[m].op \in {"ban", "unban", "unlimit"}
           /\ s.game = "coinflip" => order[m].op = "ban"
           /\ Scope(order[m]) = {s.game}
           /\ \A t \in program[m] : t.game = s.game
<1> DEFINE o == order[m]
<1>1. /\ IsOrder(o) /\ program[m] \subseteq Program(o) /\ s.game \in AllGames BY Mine
<1>2. /\ s.do = "look" /\ ~Global(o) /\ DoneAlready(o, s.game)
      /\ ~Sought(o.op, row[s.game])
      BY DEF LeavesMirrors
<1>3. Looks(o, s.game) BY <1>1, <1>2, StepKinds DEF Step
<1>4. \A t \in program[m] : t.game \in {o.scope}
      BY <1>1, <1>2, StepKinds DEF Scope
<1>5. Scope(o) = {s.game} BY <1>2, <1>4 DEF Scope
<1>6. o.op \in {"ban", "unban", "unlimit"} BY <1>2, <1>3 DEF Looks, DoneAlready
<1>7. s.game = "coinflip" => o.op = "ban" BY <1>1, <1>2, <1>4, <1>6 DEF IsOrder
<1>8. row[s.game] \in RowStatuses BY <1>1 DEF ModTypeOK
<1>9. row[s.game] = StatusAfter(o, s.game)
      BY <1>2, <1>6, <1>7, <1>8
      DEF Sought, DoneAlready, StatusAfter, RowStatuses, ModStatuses
<1> QED BY <1>4, <1>5, <1>6, <1>7, <1>9

\* What is left after a step of all but the step.
LEMMA AllButOne ==
    ASSUME NEW m, NEW s, LeavesAll(m, s), NEW g, NEW do
    PROVE  /\ Has(m, g, do)' <=> Has(m, g, do) /\ s # Step(g, do)
           /\ Has(m, g, do) /\ ~Has(m, g, do)' => s.game = g /\ s.do = do
BY DEF LeavesAll, Has, Step

\* A step that leaves the rest of the program does what it is there for.
LEMMA StepDoesItsPart ==
    ASSUME ModTypeOK, OrdersFit, InSequence, NEW m \in Moderators, NEW s \in program[m],
           OrderStep(m, s), LeavesAll(m, s), order'[m].whole,
           NEW g \in AllGames, DoneSoFar(m, g)
    PROVE  DoneSoFar(m, g)'
<1> DEFINE o == order[m]
<1>1. InTurn(m, s) /\ OnlyMine(m) BY StepLeaves
<1>2. Writes(m, s) BY StepWrites
<1>3. IsOrder(o) /\ s.game \in AllGames /\ s = Step(s.game, s.do) BY Mine
<1>4. \A do : /\ Has(m, g, do)' <=> Has(m, g, do) /\ s # Step(g, do)
              /\ Has(m, g, do) /\ ~Has(m, g, do)' => s.game = g /\ s.do = do
      BY AllButOne
<1>5. /\ order'[m].op = o.op
      /\ StatusAfter(order'[m], g) = StatusAfter(o, g)
      /\ \A c : Given(order'[m], c) <=> Given(o, c)
      BY <1>1, SameOrder, SameRules
<1>6. \/ row' = row
      \/ row' = [row EXCEPT ![s.game] = StatusAfter(o, s.game)] /\ s.do = "row"
  <2>1. s.do = "row" \/ row' = row BY <1>2 DEF Writes, stores
  <2>2. s.do = "row" => row' = [row EXCEPT ![s.game] = StatusAfter(o, s.game)]
        BY <1>2 DEF Writes
  <2> QED BY <2>1, <2>2
<1>7. Has(m, g, "row")' \/ row'[g] = StatusAfter(o, g)
  <2>1. CASE Has(m, g, "row") /\ ~Has(m, g, "row")'
    <3>1. s.game = g /\ s.do = "row" BY <1>4, <2>1
    <3>2. row' = [row EXCEPT ![g] = StatusAfter(o, g)] BY <1>2, <3>1 DEF Writes
    <3> QED BY <3>2 DEF ModTypeOK
  <2>2. CASE ~Has(m, g, "row")
    <3>1. row[g] = StatusAfter(o, g) BY <2>2 DEF DoneSoFar
    <3>2. row \in [AllGames -> RowStatuses] BY DEF ModTypeOK
    <3> QED BY <1>3, <1>6, <3>1, <3>2
  <2> QED BY <2>1, <2>2
<1>8. ASSUME g \in Hashes, ~Has(m, g, "hash")'
      PROVE  ~Has(m, g, "row")' /\ mirror'[g] = row'[g]
  <2>1. CASE Has(m, g, "hash")
    <3>1. s.game = g /\ s.do = "hash" BY <1>4, <1>8, <2>1
    <3>2. ~Has(m, g, "row") BY <1>1, <3>1, InTurnOf
    <3>3. mirror' = [mirror EXCEPT ![g] = StatusAfter(o, g)] BY <1>2, <3>1 DEF Writes
    <3>4. mirror'[g] = StatusAfter(o, g) BY <1>8, <3>3 DEF ModTypeOK
    <3> QED BY <1>4, <1>7, <3>2, <3>4
  <2>2. CASE ~Has(m, g, "hash")
    <3>1. ~Has(m, g, "row") /\ mirror[g] = row[g] BY <1>8, <2>2 DEF DoneSoFar
    <3>2. row[g] = StatusAfter(o, g) BY <3>1 DEF DoneSoFar
    <3>3. row'[g] = row[g] BY <1>4, <1>7, <3>1, <3>2
    <3>4. mirror'[g] = mirror[g]
      <4>1. StepDoes(m, s) BY StepStores
      <4>2. CASE mirror' = mirror BY <4>2
      <4>3. CASE mirror' # mirror
        <5>1. mirror' = [mirror EXCEPT ![s.game] = StatusAfter(o, s.game)]
              BY <4>1, <4>3 DEF StepDoes
        <5>2. mirror'[g] = StatusAfter(o, g) \/ mirror'[g] = mirror[g]
              BY <1>8, <5>1 DEF ModTypeOK
        <5> QED BY <3>1, <3>2, <5>2
      <4> QED BY <4>2, <4>3
    <3> QED BY <1>4, <3>1, <3>3, <3>4
  <2> QED BY <2>1, <2>2
<1>9. ASSUME g = "coinflip"
      PROVE  /\ o.op \in {"ban", "unban", "clear"} =>
                 /\ Has(m, g, "set")' \/ banSet' = (o.op = "ban")
                 /\ Has(m, g, "writeList")' \/ banList' = (o.op = "ban")
             /\ Has(m, g, "row")' \/ Given(o, rowCaps')
             /\ Has(m, g, "caps")' \/ Given(o, caps')
  <2>1. ASSUME o.op \in {"ban", "unban", "clear"}
        PROVE  Has(m, g, "set")' \/ banSet' = (o.op = "ban")
        BY <1>2, <1>4, <1>9, <2>1 DEF Writes, DoneSoFar
  <2>2. ASSUME o.op \in {"ban", "unban", "clear"}
        PROVE  Has(m, g, "writeList")' \/ banList' = (o.op = "ban")
        BY <1>2, <1>4, <1>9, <2>2 DEF Writes, DoneSoFar
  <2>3. caps \subseteq {"bet", "hour"} /\ rowCaps \subseteq {"bet", "hour"}
        BY DEF ModTypeOK, Caps
  <2>4. \A c \in SUBSET {"bet", "hour"} : Given(o, Capped(o, c)) BY DEF Given, Capped
  <2>5. Has(m, g, "caps")' \/ Given(o, caps')
    <3>1. CASE s.do = "caps"
      <4>1. caps' = Capped(o, caps) BY <1>2, <3>1 DEF Writes
      <4> QED BY <2>3, <2>4, <4>1
    <3>2. CASE s.do # "caps"
      <4>1. caps' = caps BY <1>2, <3>2 DEF Writes
      <4> QED BY <1>4, <1>9, <3>2, <4>1 DEF DoneSoFar
    <3> QED BY <3>1, <3>2
  <2>6. Has(m, g, "row")' \/ Given(o, rowCaps')
    <3>1. CASE Has(m, g, "row") /\ ~Has(m, g, "row")'
      <4>1. s.game = g /\ s.do = "row" BY <1>4, <3>1
      <4>2. rowCaps' = Capped(o, IF Global(o) THEN {} ELSE rowCaps)
            BY <1>2, <1>9, <4>1 DEF Writes, CapsWritten
      <4> QED BY <2>3, <2>4, <4>2
    <3>2. CASE ~Has(m, g, "row")
      <4>1. s.do # "row" \/ s.game # "coinflip" BY <1>3, <1>9, <3>2 DEF Has
      <4>2. rowCaps' = rowCaps
        <5>1. StepDoes(m, s) BY StepStores
        <5> QED BY <4>1, <5>1 DEF StepDoes
      <4> QED BY <1>9, <3>2, <4>2 DEF DoneSoFar
    <3> QED BY <3>1, <3>2
  <2> QED BY <2>1, <2>2, <2>5, <2>6
<1> QED BY <1>5, <1>7, <1>8, <1>9 DEF DoneSoFar

\* A game that was left alone stays so.
LEMMA StepLeavesAlone ==
    ASSUME ModTypeOK, OrdersFit, NEW m \in Moderators, NEW s \in program[m],
           OrderStep(m, s), order'[m].whole, NEW g \in AllGames, LeftSoFar(m, g)
    PROVE  LeftSoFar(m, g)'
<1> DEFINE o == order[m]
<1>0. \A h, do : Step(h, do).game = h /\ Step(h, do).do = do BY DEF Step
<1>1. Leaves(m, s) /\ OnlyMine(m) BY StepLeaves
<1>2. Writes(m, s) BY StepWrites
<1>3. s = Step(s.game, s.do) /\ s.game \in AllGames BY Mine
<1>4. /\ order'[m].op = o.op /\ o.skipped \subseteq order'[m].skipped
      /\ OnlyLooked(order'[m]) <=> OnlyLooked(o)
      /\ OnlyNamed(order'[m], g) <=> OnlyNamed(o, g)
      BY <1>1, SameOrder, SameRules
<1>5. g \in o.skipped /\ ~Has(m, g, "row") BY DEF LeftSoFar
<1>6. ~Has(m, g, "row")' BY <1>1, <1>5 DEF OnlyMine, Has
<1>7. row'[g] = row[g]
  <2> SUFFICES ASSUME row' # row PROVE row'[g] = row[g] OBVIOUS
  <2>1. StepDoes(m, s) BY StepStores
  <2>2. s.do = "row" /\ row' = [row EXCEPT ![s.game] = StatusAfter(o, s.game)]
        BY <2>1 DEF StepDoes
  <2>3. s.game # g BY <1>3, <1>5, <2>2 DEF Has
  <2> QED BY <2>2, <2>3 DEF ModTypeOK
<1>8. ASSUME OnlyNamed(o, g), Has(m, g, "set") \/ banSet
      PROVE  Has(m, g, "set")' \/ banSet'
  <2>1. ~Global(o) /\ o.op = "ban" /\ g = "coinflip" BY <1>8 DEF OnlyNamed
  <2>2. CASE s.do = "set"
    <3>1. banSet' = TRUE BY <1>2, <2>1, <2>2 DEF Writes
    <3> QED BY <3>1
  <2>3. CASE s.do # "set"
    <3>1. banSet' = banSet BY <1>2, <2>3 DEF Writes, stores
    <3>2. Has(m, g, "set") => Has(m, g, "set")'
      <4>1. CASE LeavesAll(m, s) BY <1>0, <2>3, <4>1 DEF LeavesAll, Has
      <4>2. CASE LeavesMirrors(m, s)
        <5>1. Has(m, g, "set") => s.game = g BY <1>0, <4>2, MirrorsOnly DEF Has
        <5> QED BY <1>0, <2>1, <2>3, <4>2, <5>1 DEF LeavesMirrors, Has
      <4>3. ~LeavesFinally(m) BY DEF LeavesFinally
      <4>4. ~LeavesOthers(m, s) BY <2>1 DEF LeavesOthers
      <4> QED BY <1>1, <4>1, <4>2, <4>3, <4>4 DEF Leaves
    <3> QED BY <1>8, <3>1, <3>2
  <2> QED BY <2>2, <2>3
<1>9. o.op = order'[m].op BY <1>4
<1> QED BY <1>4, <1>5, <1>6, <1>7, <1>8 DEF LeftSoFar

\* After a look that goes on with the next game, the one it looked at is left
\* alone and the others are as they were.
LEMMA LookLeavesGame ==
    ASSUME ModTypeOK, OrdersFit, NEW m \in Moderators, NEW s \in program[m],
           OrderStep(m, s), order'[m].whole, LeavesOthers(m, s),
           NEW g \in AllGames, DoneSoFar(m, g)
    PROVE  DoneSoFar(m, g)' \/ LeftSoFar(m, g)'
<1> DEFINE o == order[m]
<1>0. \A h, do : Step(h, do).game = h /\ Step(h, do).do = do BY DEF Step
<1>1. OnlyMine(m) BY StepLeaves
<1>2. /\ s.do = "look" /\ Global(o) /\ ~Sought(o.op, row[s.game]) /\ Skip(m, s.game)
      /\ program'[m] = {t \in program[m] \ {s} : t.game # s.game \/ t.do = "invalidate"}
      BY DEF LeavesOthers
<1>3. UNCHANGED stores BY <1>2, StepWrites DEF Writes
<1>4. /\ order'[m].op = o.op
      /\ OnlyLooked(order'[m]) <=> OnlyLooked(o)
      /\ StatusAfter(order'[m], g) = StatusAfter(o, g)
      /\ \A c : Given(order'[m], c) <=> Given(o, c)
      BY <1>1, SameOrder, SameRules
<1>5. CASE g = s.game
  <2>1. ~Has(m, g, "row")' BY <1>0, <1>2, <1>5 DEF Has
  <2>2. s \in Program(o) /\ IsOrder(o) BY Mine
  <2>3. Looks(o, s.game) BY <1>0, <1>2, <2>2, StepKinds
  <2>4. OnlyLooked(o) BY <1>2, <2>3 DEF Looks, OnlyLooked
  <2>5. g \in order'[m].skipped
    <3>1. order[m] \in OrderRecords BY DEF OrdersFit
    <3> QED BY <1>2, <1>5, <3>1 DEF Skip, OrdersFit, OrderRecords
  <2>6. ~Sought(o.op, row'[g]) BY <1>2, <1>3, <1>5 DEF stores
  <2> QED BY <1>4, <2>1, <2>4, <2>5, <2>6 DEF LeftSoFar
<1>6. CASE g # s.game
  <2>1. \A do : Has(m, g, do)' <=> Has(m, g, do) BY <1>0, <1>2, <1>6 DEF Has
  <2>2. /\ row' = row /\ mirror' = mirror /\ banList' = banList /\ banSet' = banSet
        /\ caps' = caps /\ rowCaps' = rowCaps
        BY <1>3 DEF stores
  <2>3. DoneSoFar(m, g)' BY <1>4, <2>1, <2>2 DEF DoneSoFar
  <2> QED BY <2>3
<1> QED BY <1>5, <1>6

\* After a look that leaves the mirrors of the one game there is, what they do
\* is all there is to do, save for coinflip.
LEMMA LookLeavesMirrors ==
    ASSUME ModTypeOK, OrdersFit, InSequence, NEW m \in Moderators, NEW s \in program[m],
           OrderStep(m, s), order'[m].whole, LeavesMirrors(m, s), NEW g \in Scope(order[m])
    PROVE  DoneSoFar(m, g)' \/ LeftSoFar(m, g)'
<1> DEFINE o == order[m]
<1>0. \A h, do : Step(h, do).game = h /\ Step(h, do).do = do BY DEF Step
<1>1. OnlyMine(m) BY StepLeaves
<1>2. /\ row[s.game] = StatusAfter(o, s.game) /\ Scope(o) = {s.game}
      /\ o.op \in {"ban", "unban", "unlimit"}
      /\ s.game = "coinflip" => o.op = "ban"
      BY MirrorsOnly
<1>3. g = s.game BY <1>2
<1>4. s = Step(g, s.do) /\ g \in AllGames BY <1>3, Mine
<1>5. /\ s.do = "look" /\ ~Global(o) /\ Skip(m, g)
      /\ program'[m] = {t \in program[m] \ {s} :
                          IF g = "coinflip" THEN t.do = "set" ELSE t.do # "row"}
      BY <1>3 DEF LeavesMirrors
<1>6. UNCHANGED stores BY <1>5, StepWrites DEF Writes
<1>7. row'[g] = StatusAfter(o, g) BY <1>2, <1>3, <1>6 DEF stores
<1>8. /\ order'[m].op = o.op
      /\ OnlyNamed(order'[m], g) <=> OnlyNamed(o, g)
      /\ StatusAfter(order'[m], g) = StatusAfter(o, g)
      BY <1>1, SameOrder, SameRules
<1>9. Has(m, g, "row") BY <1>4, <1>5 DEF InSequence, Has
<1>10. \A do \in Mirrors(o, g) : Has(m, g, do) BY <1>4, <1>9 DEF InSequence
<1>11. CASE g = "coinflip"
  <2>1. Has(m, g, "set")
        BY <1>2, <1>3, <1>10, <1>11 DEF Mirrors, CoinflipMirrors, Hashes
  <2>2. Has(m, g, "set")' BY <1>0, <1>5, <1>11, <2>1 DEF Has
  <2>3. ~Has(m, g, "row")' BY <1>0, <1>5, <1>11 DEF Has
  <2>4. g \in order'[m].skipped
    <3>1. order[m] \in OrderRecords BY DEF OrdersFit
    <3> QED BY <1>4, <1>5, <3>1 DEF Skip, OrdersFit, OrderRecords
  <2>5. OnlyNamed(o, g) /\ row'[g] = "BANNED"
        BY <1>2, <1>3, <1>5, <1>7, <1>11 DEF OnlyNamed, StatusAfter
  <2> QED BY <1>8, <2>2, <2>3, <2>4, <2>5 DEF LeftSoFar
<1>12. CASE g # "coinflip"
  <2>1. g \in Hashes => Has(m, g, "hash")'
    <3> SUFFICES ASSUME g \in Hashes PROVE Has(m, g, "hash")' OBVIOUS
    <3>1. "hash" \in Mirrors(o, g) BY DEF Mirrors, Hashes
    <3>2. Has(m, g, "hash") BY <1>10, <3>1
    <3>3. Step(g, "hash") # s BY <1>0, <1>5
    <3> QED BY <1>0, <1>5, <1>12, <3>2, <3>3 DEF Has
  <2>2. DoneSoFar(m, g)' BY <1>7, <1>8, <1>12, <2>1 DEF DoneSoFar
  <2> QED BY <2>2
<1> QED BY <1>11, <1>12

\* What a request that runs alone and whole has behind it, it has done.
LEMMA StepDone ==
    ASSUME ModTypeOK, OrdersFit, AloneOrDoubtful, InSequence, DoneInTurn,
           NEW m \in Moderators, NEW s \in program[m], OrderStep(m, s)
    PROVE  DoneInTurn'
<1> DEFINE o == order[m]
<1>1. Leaves(m, s) /\ OnlyMine(m) BY StepLeaves
<1> SUFFICES ASSUME NEW n \in Moderators, Underway(n)', Sound(order'[n]),
                    NEW g \in Scope(order'[n])
             PROVE  DoneSoFar(n, g)' \/ LeftSoFar(n, g)'
    BY DEF DoneInTurn
<1>2. Underway(n) /\ Sound(order[n]) /\ Scope(order'[n]) = Scope(order[n])
      BY <1>1, SameOrder, SameRules DEF Underway, Sound
<1>3. n = m BY <1>2, AtMostOneAlone DEF Sound
<1>4. g \in Scope(o) BY <1>2, <1>3
<1>5. DoneSoFar(m, g) \/ LeftSoFar(m, g) BY <1>2, <1>3, <1>4 DEF DoneInTurn
<1>6. order'[m].whole BY <1>3 DEF Sound
<1>7. IsOrder(o) BY Mine
<1>8. g \in AllGames BY <1>4, <1>7, Begun
<1>9. CASE LeftSoFar(m, g) BY <1>3, <1>6, <1>8, <1>9, StepLeavesAlone
<1>10. CASE DoneSoFar(m, g) /\ LeavesAll(m, s)
       BY <1>3, <1>6, <1>8, <1>10, StepDoesItsPart
<1>11. CASE DoneSoFar(m, g) /\ LeavesOthers(m, s)
       BY <1>3, <1>6, <1>8, <1>11, LookLeavesGame
<1>12. CASE LeavesMirrors(m, s) BY <1>3, <1>4, <1>6, <1>12, LookLeavesMirrors
<1>13. ~LeavesFinally(m) BY <1>6 DEF LeavesFinally
<1> QED BY <1>1, <1>5, <1>9, <1>10, <1>11, <1>12, <1>13 DEF Leaves

\* A game of which a step is left while that of another game is in turn has
\* not been begun.
LEMMA OthersAgree ==
    ASSUME OrdersFit, InSequence, NEW m \in Moderators, NEW s, InTurn(m, s),
           NEW g \in AllGames, g # s.game, g # "crash", Tidy(m, g)
    PROVE  Agrees(g) /\ (Left(m, g) => Has(m, g, "row"))
<1>1. s \in program[m] /\ s.game \in AllGames BY Mine DEF InTurn
<1>2. ASSUME NEW t \in program[m], t.game = g PROVE Has(m, g, "row")
  <2>1. CASE s.do = "assert"
    <3>1. s = Step("crash", "assert") BY <1>1, <2>1, Mine, CoinflipOnly
    <3> QED BY <1>1, <3>1 DEF InSequence, Has
  <2>2. CASE s.do # "assert"
    <3>1. ~(Place(g) < Place(s.game)) BY <1>2, <2>2, InTurnOf
    <3>2. Place(s.game) < Place(g) BY <1>1, <3>1, Places
    <3> QED BY <1>1, <1>2, <3>2 DEF InSequence
  <2> QED BY <2>1, <2>2
<1>3. Left(m, g) => Has(m, g, "row") BY <1>2 DEF Left
<1> QED BY <1>3 DEF Tidy

\* What another game's step leaves of a game.
LEMMA StepElsewhere ==
    ASSUME ModTypeOK, OrdersFit, InSequence,
           NEW m \in Moderators, NEW s \in program[m], OrderStep(m, s),
           NEW g \in AllGames, g # s.game, g # "crash", Tidy(m, g)
    PROVE  Tidy(m, g)'
<1> DEFINE o == order[m]
<1>1. /\ InTurn(m, s) /\ Leaves(m, s) /\ OnlyMine(m)
      BY StepLeaves
<1>2. Agrees(g) /\ (Left(m, g) => Has(m, g, "row")) BY <1>1, OthersAgree
<1>3. StepDoes(m, s) BY StepStores
<1>4. s.game \in AllGames BY Mine
<1>5. Agrees(g)'
  <2>1. row'[g] = row[g]
    <3>1. row' = row \/ row' = [row EXCEPT ![s.game] = StatusAfter(o, s.game)]
          BY <1>3 DEF StepDoes
    <3>2. row \in [AllGames -> RowStatuses] BY DEF ModTypeOK
    <3> QED BY <1>4, <3>1, <3>2
  <2>2. CASE g \in Hashes
    <3>1. \/ mirror' = mirror
          \/ mirror' = [mirror EXCEPT ![s.game] = StatusAfter(o, s.game)]
          BY <1>3 DEF StepDoes
    <3>2. mirror \in [Hashes -> RowStatuses] BY DEF ModTypeOK
    <3>3. mirror'[g] = mirror[g] BY <2>2, <3>1, <3>2
    <3> QED BY <1>2, <2>1, <2>2, <3>3 DEF Agrees, Hashes
  <2>3. CASE g = "coinflip"
    <3>1. s.do \notin {"readList", "writeList", "set", "caps"} BY <2>3, CoinflipOnly
    <3>2. UNCHANGED <<banList, banSet, caps, rowCaps>> BY <1>3, <2>3, <3>1 DEF StepDoes
    <3> QED BY <1>2, <2>1, <2>3, <3>2 DEF Agrees, Hashes
  <2> QED BY <2>2, <2>3 DEF AllGames, Hashes
<1>6. Left(m, g)' => Has(m, g, "row")'
  <2> SUFFICES ASSUME Left(m, g)' PROVE Has(m, g, "row")' OBVIOUS
  <2>0. \A h, do : Step(h, do).game = h /\ Step(h, do).do = do BY DEF Step
  <2>1. Left(m, g) BY <1>1 DEF Left, OnlyMine
  <2>2. Has(m, g, "row") BY <1>2, <2>1
  <2>3. CASE LeavesAll(m, s) BY <2>0, <2>2, <2>3 DEF LeavesAll, Has
  <2>4. CASE LeavesFinally(m) BY <2>0, <2>4 DEF LeavesFinally, Left
  <2>5. CASE LeavesOthers(m, s) BY <2>0, <2>2, <2>5 DEF LeavesOthers, Has
  <2>6. CASE LeavesMirrors(m, s) BY <2>1, <2>6, MirrorsOnly DEF Left
  <2> QED BY <1>1, <2>3, <2>4, <2>5, <2>6 DEF Leaves
<1> QED BY <1>5, <1>6 DEF Tidy

\* What the row step leaves of its game.
LEMMA RowTidy ==
    ASSUME ModTypeOK, OrdersFit, InSequence,
           NEW m \in Moderators, NEW s \in program[m], OrderStep(m, s),
           s.do = "row", s.game # "crash", s.game \notin doubtful',
           Untouched(m, s.game), Tidy(m, s.game)
    PROVE  Tidy(m, s.game)'
<1> DEFINE o == order[m]
           g == s.game
<1>0. \A h, do : Step(h, do).game = h /\ Step(h, do).do = do BY DEF Step
<1>1. InTurn(m, s) /\ OnlyMine(m) BY StepLeaves
<1>2. g \in AllGames /\ s = Step(g, s.do) BY Mine
<1>3. Has(m, g, "row") /\ ~Has(m, g, "look") /\ ~Has(m, "crash", "assert")
      BY <1>1, <1>2, InTurnOf DEF Has
<1>4. Agrees(g) BY <1>3 DEF Tidy
<1>5. /\ o.op \in {"unban", "unlimit"} => Sought(o.op, row[g])
      /\ o.op = "limit" => row[g] # "BANNED"
      BY <1>3 DEF Untouched
<1>6. \A do \in Mirrors(o, g) : Has(m, g, do) BY <1>2, <1>3 DEF InSequence
<1>7. Writes(m, s) BY StepWrites
<1>8. /\ row' = [row EXCEPT ![g] = StatusAfter(o, g)]
      /\ LeavesAll(m, s)
      /\ UNCHANGED <<mirror, banList, banSet, caps>>
      /\ g = "coinflip" => CapsWritten(o)
  <2>1. ~(row[g] = "CLEAR" /\ o.op \in {"unban", "unlimit"}) BY <1>5 DEF Sought
  <2> QED BY <1>7, <2>1 DEF Writes
<1>9. \A do : Has(m, g, do)' <=> Has(m, g, do) /\ do # "row"
      BY <1>0, <1>2, <1>8, AllButOne
<1>10. row'[g] = StatusAfter(o, g) BY <1>2, <1>8 DEF ModTypeOK
<1>11. /\ order'[m].op = o.op /\ order'[m].given = o.given
       /\ StatusAfter(order'[m], g) = StatusAfter(o, g)
       /\ \A c : Capped(order'[m], c) = Capped(o, c)
       BY <1>1, SameOrder, SameRules
<1>12. HalfDone(m, g)'
  <2>1. CASE g # "coinflip" BY <1>10, <1>11, <2>1 DEF HalfDone
  <2>2. CASE g = "coinflip"
    <3>1. Mirrors(o, g) = CoinflipMirrors(o) BY <2>2 DEF Mirrors, Hashes
    <3>2. Has(m, g, "caps")' BY <1>6, <1>9, <3>1 DEF CoinflipMirrors
    <3>3. banSet = (row[g] = "BANNED") /\ banList = banSet
          /\ rowCaps \subseteq caps
          BY <1>4, <2>2 DEF Agrees, Hashes
    <3>7. CapsWillAgree(order[m])'
      <4>1. rowCaps' = Capped(o, IF Global(o) THEN {} ELSE rowCaps) /\ caps' = caps
            BY <1>8, <2>2 DEF CapsWritten
      <4>2. o.op # "limit" => o.given = {} BY Mine DEF IsOrder
      <4>3. o.given \subseteq rowCaps' BY <4>1, <4>2 DEF Capped
      <4>4. rowCaps' \subseteq Capped(o, caps') BY <3>3, <4>1 DEF Capped
      <4> QED BY <1>11, <4>3, <4>4 DEF CapsWillAgree
    <3>4. CASE o.op \in {"ban", "unban", "clear"}
      <4>1. Has(m, g, "writeList")' /\ Has(m, g, "set")'
            BY <1>6, <1>9, <3>1, <3>4 DEF CoinflipMirrors
      <4> QED BY <1>10, <1>11, <3>2, <3>7, <4>1 DEF HalfDone
    <3>5. CASE o.op \in {"limit", "unlimit"}
      <4>1. row[g] # "BANNED" BY <1>5, <3>5 DEF Sought
      <4>2. banList' = FALSE /\ banSet' = FALSE BY <1>8, <3>3, <4>1
      <4> QED BY <1>10, <1>11, <3>2, <3>5, <3>7, <4>2 DEF HalfDone
    <3>6. o.op \in {"ban", "unban", "clear", "limit", "unlimit"}
          BY Mine DEF IsOrder, Ops
    <3> QED BY <3>4, <3>5, <3>6
  <2> QED BY <2>1, <2>2
<1>13. Left(m, g)'
  <2>1. \E do \in Mirrors(o, g) : do # "row"
        BY <1>2 DEF Mirrors, CoinflipMirrors, AllGames, Hashes
  <2>2. PICK do : Has(m, g, do)' BY <1>6, <1>9, <2>1
  <2> QED BY <1>0, <2>2 DEF Left, Has
<1>14. ~Has(m, g, "row")' BY <1>9
<1> QED BY <1>12, <1>13, <1>14 DEF Tidy

\* A mirror step brings its game nearer to its row.
LEMMA MirrorTidy ==
    ASSUME ModTypeOK, OrdersFit, InSequence,
           NEW m \in Moderators, NEW s \in program[m], OrderStep(m, s),
           s.do \notin {"look", "row", "assert"}, s.game # "crash",
           s.game \notin doubtful', Tidy(m, s.game)
    PROVE  Tidy(m, s.game)'
<1> DEFINE o == order[m]
           g == s.game
<1>0. \A h, do : Step(h, do).game = h /\ Step(h, do).do = do BY DEF Step
<1>1. InTurn(m, s) /\ OnlyMine(m) BY StepLeaves
<1>2. g \in AllGames /\ s = Step(g, s.do) /\ IsOrder(o) /\ s \in Program(o) BY Mine
<1>3. ~Has(m, g, "row") BY <1>1, InTurnOf
<1>4. HalfDone(m, g) BY <1>3 DEF Tidy, Left
<1>5. Writes(m, s) BY StepWrites
<1>6. LeavesAll(m, s) /\ UNCHANGED <<row, rowCaps>> BY <1>5 DEF Writes
<1>7. \A do : Has(m, g, do)' <=> Has(m, g, do) /\ do # s.do
      BY <1>0, <1>2, <1>6, AllButOne
<1>8. /\ order'[m].op = o.op /\ order'[m].given = o.given
      /\ StatusAfter(order'[m], g) = StatusAfter(o, g)
      /\ \A c : Capped(order'[m], c) = Capped(o, c)
      BY <1>1, SameOrder, SameRules
<1>9. row'[g] = StatusAfter(o, g) BY <1>4, <1>6 DEF HalfDone
<1>10. CASE g \in Hashes
  <2>1. s.do = "hash"
    <3>1. s.do \in {"look", "row"} \cup Mirrors(o, g) BY <1>2, StepKinds DEF Step
    <3>2. Mirrors(o, g) = {"hash"} BY <1>10 DEF Mirrors, Hashes
    <3> QED BY <3>1, <3>2
  <2>2. mirror' = [mirror EXCEPT ![g] = StatusAfter(o, g)] BY <1>5, <2>1 DEF Writes
  <2>3. mirror'[g] = row'[g] BY <1>9, <1>10, <2>2 DEF ModTypeOK
  <2>4. Agrees(g)' BY <1>10, <2>3 DEF Agrees, Hashes
  <2>5. HalfDone(m, g)' BY <1>8, <1>9, <1>10 DEF HalfDone, Hashes
  <2> QED BY <2>4, <2>5 DEF Tidy
<1>11. CASE g = "coinflip"
  <2>1. ~Has(m, g, "writeList")' => banList' = (o.op = "ban")
        BY <1>4, <1>5, <1>7, <1>11 DEF Writes, HalfDone
  <2>2. ~Has(m, g, "set")' => banSet' = (o.op = "ban")
        BY <1>4, <1>5, <1>7, <1>11 DEF Writes, HalfDone
  <2>3. IF ~Has(m, g, "caps")' THEN CapsAgree' ELSE CapsWillAgree(order[m])'
    <3>1. CASE s.do # "caps"
      <4>1. caps' = caps /\ rowCaps' = rowCaps BY <1>5, <1>6, <3>1 DEF Writes
      <4>2. Has(m, g, "caps")' <=> Has(m, g, "caps") BY <1>7, <3>1
      <4>3. IF ~Has(m, g, "caps") THEN CapsAgree ELSE CapsWillAgree(o)
            BY <1>4, <1>11 DEF HalfDone
      <4> QED BY <1>8, <4>1, <4>2, <4>3 DEF CapsAgree, CapsWillAgree
    <3>2. CASE s.do = "caps"
      <4>1. caps' = Capped(o, caps) /\ rowCaps' = rowCaps BY <1>5, <1>6, <3>2 DEF Writes
      <4>2. Has(m, g, "caps") /\ ~Has(m, g, "caps")' BY <1>2, <1>7, <3>2 DEF Has
      <4>3. o.given \subseteq rowCaps /\ rowCaps \subseteq Capped(o, caps)
            BY <1>4, <1>11, <4>2 DEF HalfDone, CapsWillAgree
      <4>4. caps \subseteq {"bet", "hour"} BY DEF ModTypeOK, Caps
      <4>5. Capped(o, caps) \subseteq rowCaps \cup {"hour"} BY <4>3, <4>4 DEF Capped
      <4> QED BY <4>1, <4>2, <4>3, <4>5 DEF CapsAgree
    <3> QED BY <3>1, <3>2
  <2>5. HalfDone(m, g)' BY <1>8, <1>9, <2>1, <2>2, <2>3 DEF HalfDone
  <2>6. ~Left(m, g)' => Agrees(g)'
    <3> SUFFICES ASSUME ~Left(m, g)' PROVE Agrees(g)' OBVIOUS
    <3>1. \A do : ~Has(m, g, do)' BY <1>0 DEF Left, Has
    <3>2. HalfDone(m, "coinflip")' BY <1>11, <2>5
    <3>3. Agrees("coinflip")'
      <4>1. row'["coinflip"] = StatusAfter(o, "coinflip") /\ banList' = (o.op = "ban")
            /\ banSet' = (o.op = "ban") /\ CapsAgree'
            BY <1>9, <1>11, <2>1, <2>2, <2>3, <3>1
      <4> QED BY <4>1 DEF Agrees, CapsAgree, Hashes, StatusAfter
    <3> QED BY <1>11, <3>3
  <2>7. ~Has(m, g, "row")' BY <1>3, <1>7
  <2> QED BY <2>5, <2>6, <2>7 DEF Tidy
<1> QED BY <1>2, <1>10, <1>11 DEF AllGames, Hashes

\* A look leaves its game untouched, or finds the row as it should be.
LEMMA LookTidy ==
    ASSUME ModTypeOK, OrdersFit, InSequence,
           NEW m \in Moderators, NEW s \in program[m], OrderStep(m, s),
           s.do = "look", s.game # "crash",
           s.game \notin doubtful', Tidy(m, s.game)
    PROVE  Tidy(m, s.game)'
<1> DEFINE o == order[m]
           g == s.game
<1>0. \A h, do : Step(h, do).game = h /\ Step(h, do).do = do BY DEF Step
<1>1. InTurn(m, s) /\ OnlyMine(m) /\ Leaves(m, s) BY StepLeaves
<1>2. g \in AllGames /\ s = Step(g, s.do) BY Mine
<1>3. Has(m, g, "row") BY <1>2 DEF InSequence, Has
<1>4. Agrees(g) BY <1>3 DEF Tidy
<1>5. UNCHANGED stores BY StepWrites DEF Writes
<1>6. Agrees(g)' BY <1>4, <1>5 DEF Agrees, stores
<1>7. order'[m].op = o.op /\ StatusAfter(order'[m], g) = StatusAfter(o, g)
      BY <1>1, SameOrder, SameRules
<1>8. CASE LeavesAll(m, s)
  <2>1. Has(m, g, "row")' BY <1>0, <1>3, <1>8 DEF LeavesAll, Has
  <2> QED BY <1>6, <2>1 DEF Tidy
<1>9. CASE LeavesFinally(m)
  <2>1. ~Left(m, g)' BY <1>0, <1>9 DEF LeavesFinally, Left
  <2> QED BY <1>6, <2>1 DEF Tidy
<1>10. CASE LeavesOthers(m, s)
  <2>1. ~Left(m, g)' BY <1>10, CoinflipOnly DEF LeavesOthers, Left
  <2> QED BY <1>6, <2>1 DEF Tidy
<1>11. CASE LeavesMirrors(m, s)
  <2>1. row[g] = StatusAfter(o, g) /\ (g = "coinflip" => o.op = "ban")
        BY <1>11, MirrorsOnly
  <2>2. row'[g] = StatusAfter(o, g) BY <1>5, <2>1 DEF stores
  <2>3. HalfDone(m, g)'
    <3>1. CASE g # "coinflip" BY <1>7, <2>2, <3>1 DEF HalfDone
    <3>2. CASE g = "coinflip"
      <4>1. banSet' /\ banList' = banSet' /\ CapsAgree'
            BY <1>6, <2>1, <2>2, <3>2 DEF Agrees, CapsAgree, Hashes, StatusAfter
      <4>2. ~Has(m, g, "caps")' BY <1>0, <1>11, <3>2 DEF LeavesMirrors, Has
      <4>3. o.op = "ban" /\ banList' = TRUE /\ banSet' = TRUE
            BY <1>6, <2>1, <2>2, <3>2 DEF Agrees, Hashes, StatusAfter
      <4> QED BY <1>7, <2>2, <4>1, <4>2, <4>3 DEF HalfDone
    <3> QED BY <3>1, <3>2
  <2> QED BY <1>6, <2>3 DEF Tidy
<1> QED BY <1>1, <1>8, <1>9, <1>10, <1>11 DEF Leaves

\* Every step keeps a game that is without doubt tidy.
LEMMA StepTidy ==
    ASSUME ModTypeOK, OrdersFit, InSequence, AloneOrDoubtful, RowsLookedAt, TidyWhileBusy,
           NEW m \in Moderators, NEW s \in program[m], OrderStep(m, s)
    PROVE  TidyWhileBusy'
<1>1. OnlyMine(m) BY StepLeaves
<1>2. Underway(m) /\ s.game \in AllGames BY Mine
<1>3. doubtful \subseteq doubtful'
      BY DEF OrderStep, AssertNoneBanned, Look, WriteRow, WriteHash, Invalidate, ReadList,
             WriteList, WriteSet, WriteCaps, StepThrows, WriteLost, Fault
<1> SUFFICES ASSUME NEW n \in Moderators, Underway(n)', NEW g \in AllGames \ doubtful'
             PROVE  Tidy(n, g)'
    BY DEF TidyWhileBusy
<1>4. Underway(n) BY <1>1, SameOrder DEF Underway
<1>5. g \notin doubtful BY <1>3
<1>6. n = m BY <1>4, <1>5, AtMostOneAlone
<1>7. order[m].alone BY <1>2, <1>5 DEF AloneOrDoubtful
<1>8. Tidy(m, g) BY <1>2, <1>5 DEF TidyWhileBusy
<1>9. Untouched(m, g) BY <1>2, <1>7 DEF RowsLookedAt
<1>10. CASE g = "crash"
       BY <1>6, <1>10 DEF Tidy, Agrees, Hashes
<1>11. CASE g # "crash" /\ g # s.game BY <1>6, <1>8, <1>11, StepElsewhere
<1>12. CASE g # "crash" /\ g = s.game
  <2>1. s.do # "assert" BY <1>12, CoinflipOnly
  <2> QED BY <1>6, <1>8, <1>9, <1>12, <2>1, RowTidy, LookTidy, MirrorTidy
<1> QED BY <1>10, <1>11, <1>12

\* It begins with it.
LEMMA ModStart == ModInit => ModInv
<1> SUFFICES ASSUME ModInit PROVE ModInv OBVIOUS
<1>1. PICK status \in ModStatuses :
          /\ row = [g \in AllGames |-> status]
          /\ mirror = [g \in Hashes |-> status]
          /\ banList = (status = "BANNED") /\ banSet = (status = "BANNED")
          /\ rowCaps \in IF status = "LIMITED" THEN {{"bet"}, Caps} ELSE {{}}
          /\ caps = rowCaps
      BY DEF ModInit
<1>2. /\ program = [m \in Moderators |-> {}] /\ order = [m \in Moderators |-> NoOrder]
      /\ doubtful = {}
      BY DEF ModInit
<1>3. \A m \in Moderators : ~Underway(m) /\ program[m] = {} BY <1>2 DEF Underway, NoOrder
<1>4. ModTypeOK BY <1>1, <1>2 DEF ModTypeOK, Caps, RowStatuses
<1>5. \A g \in AllGames : Agrees(g)
  <2>1. \A g \in AllGames : row[g] = status BY <1>1
  <2>2. \A g \in Hashes : mirror[g] = status BY <1>1
  <2> QED BY <1>1, <2>1, <2>2 DEF Agrees, AllGames, Hashes
<1>6. OrdersFit BY <1>2, <1>3 DEF OrdersFit, OrderRecords, NoOrder
<1> QED BY <1>3, <1>4, <1>5, <1>6
        DEF ModInv, InSequence, AloneOrDoubtful, RowsLookedAt, TidyWhileBusy,
            DoneInTurn, MirrorsAgreeWhenQuiet, Has

\* A request that ends leaves in order what it has not made doubtful.
LEMMA EndInv ==
    ASSUME ModInv, NEW m \in Moderators, EndOrder(m)
    PROVE  ModInv'
<1>1. /\ Underway(m) /\ program[m] = {} /\ order' = [order EXCEPT ![m] = NoOrder]
      /\ UNCHANGED <<stores, program, doubtful>>
      BY DEF EndOrder
<1>2. /\ order'[m] = NoOrder
      /\ \A n \in Moderators : n # m => order'[n] = order[n]
      BY <1>1 DEF ModInv, OrdersFit
<1>3. ~Underway(m)' BY <1>2 DEF Underway, NoOrder
<1>4. \A n \in Moderators : n # m => (Underway(n)' <=> Underway(n)) BY <1>2 DEF Underway
<1>5. ModTypeOK' BY <1>1 DEF ModInv, ModTypeOK, stores
<1>6. OrdersFit'
  <2>1. NoOrder \in OrderRecords BY DEF NoOrder, OrderRecords
  <2>2. order' \in [Moderators -> OrderRecords] BY <1>1, <2>1 DEF ModInv, OrdersFit
  <2> QED BY <1>1, <1>2, <1>3, <1>4, <2>2 DEF ModInv, OrdersFit
<1>7. InSequence'
  <2>1. program' = program BY <1>1
  <2>2. \A n \in Moderators : n # m => order'[n] = order[n] BY <1>2
  <2> QED BY <1>1, <2>1, <2>2 DEF ModInv, InSequence, Has
<1>8. AloneOrDoubtful'
      BY <1>1, <1>2, <1>3, <1>4 DEF ModInv, AloneOrDoubtful, Alone
<1>9. \A g : Agrees(g)' <=> Agrees(g) BY <1>1 DEF Agrees, stores
<1>10. RowsLookedAt'
  <2> SUFFICES ASSUME NEW n \in Moderators, NEW g \in AllGames,
                      Underway(n)', order'[n].alone
               PROVE  Untouched(n, g)'
      BY DEF RowsLookedAt
  <2>1. n # m /\ Untouched(n, g) BY <1>2, <1>3, <1>4 DEF ModInv, RowsLookedAt
  <2> QED BY <1>1, <1>2, <2>1 DEF Untouched, Has, stores
<1>11. TidyWhileBusy'
  <2> SUFFICES ASSUME NEW n \in Moderators, Underway(n)', NEW g \in AllGames \ doubtful'
               PROVE  Tidy(n, g)'
      BY DEF TidyWhileBusy
  <2>1. n # m /\ Tidy(n, g) /\ order'[n] = order[n]
        BY <1>1, <1>2, <1>3, <1>4 DEF ModInv, TidyWhileBusy
  <2>2. HalfDone(n, g)' <=> HalfDone(n, g)
        BY <1>1, <2>1 DEF HalfDone, Has, CapsAgree, CapsWillAgree, stores
  <2> QED BY <1>1, <1>9, <2>1, <2>2 DEF Tidy, Left, Has
<1>12. DoneInTurn'
  <2> SUFFICES ASSUME NEW n \in Moderators, Underway(n)', Sound(order'[n]),
                      NEW g \in Scope(order'[n])
               PROVE  DoneSoFar(n, g)' \/ LeftSoFar(n, g)'
      BY DEF DoneInTurn
  <2>1. n # m /\ (DoneSoFar(n, g) \/ LeftSoFar(n, g)) /\ order'[n] = order[n]
        BY <1>2, <1>3, <1>4 DEF ModInv, DoneInTurn
  <2>2. DoneSoFar(n, g)' <=> DoneSoFar(n, g)
        BY <1>1, <2>1 DEF DoneSoFar, Has, stores
  <2>3. LeftSoFar(n, g)' <=> LeftSoFar(n, g)
        BY <1>1, <2>1 DEF LeftSoFar, Has, stores
  <2> QED BY <2>1, <2>2, <2>3
<1>13. MirrorsAgreeWhenQuiet'
  <2> SUFFICES ASSUME \A n \in Moderators : ~Underway(n)', NEW g \in AllGames \ doubtful'
               PROVE  Agrees(g)'
      BY DEF MirrorsAgreeWhenQuiet
  <2>1. Tidy(m, g) BY <1>1 DEF ModInv, TidyWhileBusy
  <2>2. ~Left(m, g) BY <1>1 DEF Left
  <2> QED BY <1>9, <2>1, <2>2 DEF Tidy
<1> QED BY <1>5, <1>6, <1>7, <1>8, <1>10, <1>11, <1>12, <1>13 DEF ModInv

\* A request that begins alone finds all games without doubt in order; one that
\* does not makes all doubtful.
LEMMA BeginInv ==
    ASSUME ModInv, NEW m \in Moderators, NEW o \in Orders, BeginOrder(m, o)
    PROVE  ModInv'
<1> DEFINE others == {n \in Moderators : Underway(n)}
           p == order'[m]
<1>0. ~Underway(m) /\ UNCHANGED stores BY DEF BeginOrder
<1>1. /\ program' = [program EXCEPT ![m] = Program(o)]
      /\ order' = [n \in Moderators |->
            IF n = m THEN [op |-> o.op, scope |-> o.scope, given |-> o.given,
                           alone |-> others = {}, whole |-> TRUE, skipped |-> {}]
            ELSE IF n \in others THEN [order[n] EXCEPT !.alone = FALSE]
            ELSE order[n]]
      /\ doubtful' = IF others = {} THEN doubtful ELSE AllGames
      BY DEF BeginOrder
<1>2. /\ p = [op |-> o.op, scope |-> o.scope, given |-> o.given,
              alone |-> others = {}, whole |-> TRUE, skipped |-> {}]
      /\ program'[m] = Program(o)
      /\ \A n \in Moderators : n # m => program'[n] = program[n]
      BY <1>1 DEF ModInv, OrdersFit
<1>3. \A n \in Moderators : n # m =>
         order'[n] = IF n \in others THEN [order[n] EXCEPT !.alone = FALSE] ELSE order[n]
      BY <1>1
<1> HIDE DEF p
<1>4. IsOrder(o) /\ o.op \in Ops /\ o.given \subseteq Caps /\ o.op # "none"
  <2>1. o.op # "limit" => o.given = {} BY DEF Orders, MayGive
  <2> QED BY <2>1 DEF Orders, IsOrder, Ops
<1>5. /\ p.op = o.op /\ p.scope = o.scope /\ p.given = o.given /\ p.whole = TRUE
      /\ p.alone = (others = {})
      BY <1>2
<1>6. /\ IsOrder(p) /\ Program(p) = Program(o) /\ Scope(p) = Scope(o)
      /\ (Global(p) <=> Global(o)) /\ \A g : Mirrors(p, g) = Mirrors(o, g)
  <2>1. /\ IsOrder(p) <=> IsOrder(o)
        /\ Program(p) = Program(o)
        /\ \A g : Mirrors(p, g) = Mirrors(o, g)
        /\ Global(p) <=> Global(o)
        /\ Scope(p) = Scope(o)
        BY <1>5, SameRules
  <2> QED BY <1>4, <2>1
<1>7. p \in OrderRecords
  <2>1. p.scope \in AllGames \cup {"global", "none"} BY <1>4, <1>5 DEF IsOrder
  <2> QED BY <1>2, <1>4, <1>5, <2>1 DEF OrderRecords, IsOrder
<1>8. \A n \in Moderators : n # m =>
         /\ order'[n] \in OrderRecords
         /\ order'[n].op = order[n].op /\ order'[n].scope = order[n].scope
         /\ order'[n].given = order[n].given
         /\ n \in others => order'[n].alone = FALSE
  <2> SUFFICES ASSUME NEW n \in Moderators, n # m
               PROVE  /\ order'[n] \in OrderRecords
                      /\ order'[n].op = order[n].op /\ order'[n].scope = order[n].scope
                      /\ order'[n].given = order[n].given
                      /\ n \in others => order'[n].alone = FALSE
      OBVIOUS
  <2>1. order[n] \in OrderRecords BY DEF ModInv, OrdersFit
  <2>2. CASE n \in others
    <3>1. order'[n] = [order[n] EXCEPT !.alone = FALSE] BY <1>3, <2>2
    <3> QED BY <2>1, <3>1 DEF OrderRecords
  <2>3. CASE n \notin others
    <3>1. order'[n] = order[n] BY <1>3, <2>3
    <3> QED BY <2>1, <2>3, <3>1
  <2> QED BY <2>2, <2>3
<1>9. Underway(m)' /\ \A n \in Moderators : n # m => (Underway(n)' <=> Underway(n))
      BY <1>4, <1>5, <1>8 DEF Underway, p
<1>10. ModTypeOK'
  <2>1. doubtful' \subseteq AllGames BY <1>1 DEF ModInv, ModTypeOK
  <2> QED BY <1>0, <2>1 DEF ModInv, ModTypeOK, stores
<1>11. OrdersFit'
  <2>1. order' \in [Moderators -> OrderRecords]
    <3>1. order' = [n \in Moderators |-> order'[n]] BY <1>1
    <3>2. \A n \in Moderators : order'[n] \in OrderRecords BY <1>7, <1>8 DEF p
    <3> QED BY <3>1, <3>2
  <2>2. DOMAIN program' = Moderators BY <1>1 DEF ModInv, OrdersFit
  <2>3. ASSUME NEW n \in Moderators
        PROVE  IF Underway(n)'
               THEN IsOrder(order'[n]) /\ program'[n] \subseteq Program(order'[n])
               ELSE program'[n] = {}
    <3>1. CASE n = m BY <1>2, <1>6, <1>9, <3>1 DEF p
    <3>2. CASE n # m
      <4>1. /\ IsOrder(order'[n]) <=> IsOrder(order[n])
            /\ Program(order'[n]) = Program(order[n])
            BY <1>8, <3>2, SameRules
      <4> QED BY <1>2, <1>9, <3>2, <4>1 DEF ModInv, OrdersFit
    <3> QED BY <3>1, <3>2
  <2> QED BY <2>1, <2>2, <2>3 DEF OrdersFit
<1>12. \A g, do : Step(g, do).game = g /\ Step(g, do).do = do BY DEF Step
<1>13. \A g \in Scope(o) : g \in AllGames /\ Step(g, "row") \in Program(o)
                           /\ \A do \in Mirrors(o, g) : Step(g, do) \in Program(o)
       BY <1>4, Begun
<1>14. \A t \in Program(o) :
          /\ t.game \in AllGames
          /\ t.game \in Scope(o) \/ t.do = "assert"
          /\ t.do = "assert" => Global(o) /\ o.op = "limit"
          /\ t.do \in {"look", "row"} => t.game \in Scope(o)
  <2> SUFFICES ASSUME NEW t \in Program(o)
               PROVE  /\ t.game \in AllGames
                      /\ t.game \in Scope(o) \/ t.do = "assert"
                      /\ t.do = "assert" => Global(o) /\ o.op = "limit"
                      /\ t.do \in {"look", "row"} => t.game \in Scope(o)
      OBVIOUS
  <2>1. CASE t = Step("crash", "assert") /\ Global(o) /\ o.op = "limit"
        BY <1>12, <2>1 DEF AllGames
  <2>2. CASE t.do \in {"look", "row"} \cup Mirrors(o, t.game) /\ t.game \in Scope(o)
    <3>1. t.game \in AllGames BY <1>13, <2>2
    <3>2. t.do # "assert" BY <2>2, <3>1, MirrorsLast
    <3> QED BY <2>2, <3>1, <3>2
  <2> QED BY <1>4, <2>1, <2>2, StepKinds
<1>15. Global(o) => Scope(o) = AllGames BY DEF Scope
<1>16. \A g \in Scope(o) : Looks(o, g) => Step(g, "look") \in Program(o)
       BY <1>13 DEF Program, Part, Steps, Scope
<1>17. InSequence'
  <2> SUFFICES ASSUME NEW n \in Moderators
               PROVE  /\ \A g \in AllGames :
                            /\ Has(n, g, "row")' =>
                                  \A do \in Mirrors(order'[n], g) : Has(n, g, do)'
                            /\ Has(n, g, "look")' => Has(n, g, "row")'
                            /\ Has(n, "crash", "assert")' => Has(n, g, "row")'
                      /\ \A s, t \in program'[n] :
                            Place(s.game) < Place(t.game) => Has(n, t.game, "row")'
      BY DEF InSequence
  <2>1. CASE n = m
    <3>1. \A g, do : Has(n, g, do)' <=> Step(g, do) \in Program(o) BY <1>2, <2>1 DEF Has
    <3>2. \A g : Mirrors(order'[n], g) = Mirrors(o, g) BY <1>6, <2>1 DEF p
    <3>3. \A g \in AllGames :
             /\ Step(g, "row") \in Program(o) =>
                   \A do \in Mirrors(o, g) : Step(g, do) \in Program(o)
             /\ Step(g, "look") \in Program(o) => Step(g, "row") \in Program(o)
             /\ Step("crash", "assert") \in Program(o) => Step(g, "row") \in Program(o)
          BY <1>12, <1>13, <1>14, <1>15
    <3>4. \A t \in Program(o) : Step(t.game, "row") \in Program(o)
          BY <1>13, <1>14, <1>15
    <3> QED BY <1>2, <2>1, <3>1, <3>2, <3>3, <3>4
  <2>2. CASE n # m
    <3>1. \A g : Mirrors(order'[n], g) = Mirrors(order[n], g) BY <1>8, <2>2, SameRules
    <3>2. program'[n] = program[n] BY <1>2, <2>2
    <3> QED BY <3>1, <3>2 DEF ModInv, InSequence, Has
  <2> QED BY <2>1, <2>2
<1>18. AloneOrDoubtful'
  <2> SUFFICES ASSUME NEW n \in Moderators, Underway(n)'
               PROVE  IF order'[n].alone THEN Alone(n)' ELSE doubtful' = AllGames
      BY DEF AloneOrDoubtful
  <2>1. CASE n = m
    <3>1. CASE others = {}
      <4>1. Alone(m)' BY <1>9, <3>1 DEF Alone
      <4> QED BY <1>5, <2>1, <3>1, <4>1 DEF p
    <3>2. CASE others # {}
          BY <1>1, <1>5, <2>1, <3>2 DEF p
    <3> QED BY <3>1, <3>2
  <2>2. CASE n # m
    <3>1. n \in others BY <1>9, <2>2
    <3> QED BY <1>1, <1>8, <2>2, <3>1
  <2> QED BY <2>1, <2>2
<1>19. \A n \in Moderators : Underway(n)' /\ (order'[n].alone \/ doubtful' # AllGames) =>
          n = m /\ others = {}
  <2>1. \A n \in Moderators : n # m /\ Underway(n)' => n \in others BY <1>9
  <2>2. p.alone => others = {} BY <1>5
  <2> QED BY <1>1, <1>8, <2>1, <2>2 DEF p
<1>20. \A g : Agrees(g)' <=> Agrees(g) BY <1>0 DEF Agrees, stores
<1>21. RowsLookedAt'
  <2> SUFFICES ASSUME NEW n \in Moderators, NEW g \in AllGames,
                      Underway(n)', order'[n].alone
               PROVE  Untouched(n, g)'
      BY DEF RowsLookedAt
  <2>1. n = m BY <1>19
  <2> SUFFICES ASSUME Has(m, g, "row")', ~Has(m, g, "look")'
               PROVE  o.op \notin {"unban", "unlimit"}
                      /\ (o.op = "limit" => Has(m, "crash", "assert")')
      BY <1>5, <2>1 DEF Untouched, p
  <2>2. Step(g, "row") \in Program(o) /\ Step(g, "look") \notin Program(o)
        BY <1>2 DEF Has
  <2>3. g \in Scope(o) BY <1>12, <1>14, <2>2
  <2>4. ~Looks(o, g) BY <1>16, <2>2, <2>3
  <2>5. o.op = "limit" => Global(o) BY <2>4 DEF Looks
  <2>6. o.op = "limit" => Step("crash", "assert") \in Program(o) BY <2>5 DEF Program
  <2> QED BY <1>2, <2>4, <2>6 DEF Looks, Has
<1>22. TidyWhileBusy'
  <2> SUFFICES ASSUME NEW n \in Moderators, Underway(n)', NEW g \in AllGames \ doubtful'
               PROVE  Tidy(n, g)'
      BY DEF TidyWhileBusy
  <2>1. doubtful' # AllGames OBVIOUS
  <2>2. n = m /\ others = {} BY <1>19, <2>1
  <2>3. g \notin doubtful BY <1>1, <2>2
  <2>4. Agrees(g)' BY <1>20, <2>2, <2>3 DEF ModInv, MirrorsAgreeWhenQuiet
  <2>5. g # "crash" /\ Left(m, g)' => Has(m, g, "row")'
    <3> SUFFICES ASSUME g # "crash", NEW t \in Program(o), t.game = g
                 PROVE  Step(g, "row") \in Program(o)
        BY <1>2 DEF Left, Has
    <3>1. g \in Scope(o) BY <1>14, <1>15
    <3> QED BY <1>13, <3>1
  <2> QED BY <2>2, <2>4, <2>5 DEF Tidy
<1>23. DoneInTurn'
  <2> SUFFICES ASSUME NEW n \in Moderators, Underway(n)', Sound(order'[n]),
                      NEW g \in Scope(order'[n])
               PROVE  DoneSoFar(n, g)' \/ LeftSoFar(n, g)'
      BY DEF DoneInTurn
  <2>1. n = m BY <1>19 DEF Sound
  <2>2. g \in Scope(o) BY <1>6, <2>1 DEF p
  <2>3. Has(m, g, "row")' /\ \A do \in Mirrors(o, g) : Has(m, g, do)'
        BY <1>2, <1>13, <2>2 DEF Has
  <2>4. g \in Hashes => Has(m, g, "hash")'
    <3>1. g \in Hashes => "hash" \in Mirrors(o, g) BY DEF Mirrors, Hashes
    <3> QED BY <2>3, <3>1
  <2>5. g = "coinflip" =>
          /\ o.op \in {"ban", "unban", "clear"} =>
                Has(m, g, "set")' /\ Has(m, g, "writeList")'
          /\ Has(m, g, "caps")'
    <3>1. g = "coinflip" => Mirrors(o, g) = CoinflipMirrors(o) BY DEF Mirrors, Hashes
    <3> QED BY <2>3, <3>1 DEF CoinflipMirrors
  <2>6. DoneSoFar(m, g)' BY <1>5, <2>1, <2>3, <2>4, <2>5 DEF DoneSoFar, p
  <2> QED BY <2>1, <2>6
<1>24. MirrorsAgreeWhenQuiet' BY <1>9 DEF MirrorsAgreeWhenQuiet
<1> QED BY <1>10, <1>11, <1>17, <1>18, <1>21, <1>22, <1>23, <1>24 DEF ModInv

\* When the row of coinflip is written and its mirrors are not, it is one of
\* these whose turn it is.
LEMMA CoinflipHalfway ==
    ASSUME OrdersFit, InSequence, NEW m \in Moderators,
           Left(m, "coinflip"), ~Has(m, "coinflip", "row")
    PROVE  "coinflip" \in Halfway
<1> DEFINE o == order[m]
           dos == {"caps", "readList", "writeList", "set"}
           c(do) == Step("coinflip", do)
<1>0. \A do : c(do).game = "coinflip" /\ c(do).do = do BY DEF Step
<1>1. PICK t \in program[m] : t.game = "coinflip" BY DEF Left
<1>2. IsOrder(o) /\ program[m] \subseteq Program(o) BY <1>1, Mine
<1>3. ASSUME NEW u \in program[m] PROVE u.do \in dos /\ u = c(u.do)
  <2>1. u.game \in AllGames /\ u = Step(u.game, u.do) BY Mine
  <2>2. ~(Place(u.game) < Place("coinflip")) BY <1>1 DEF InSequence
  <2>3. u.game = "coinflip" BY <2>1, <2>2 DEF Place, AllGames
  <2>4. \/ u = Step("crash", "assert")
        \/ u.do \in {"look", "row"} \cup Mirrors(o, u.game)
        BY <1>2, StepKinds
  <2>5. u # Step("crash", "assert") BY <2>3 DEF Step
  <2>6. u.do # "row" BY <2>1, <2>3 DEF Has
  <2>7. u.do # "look" BY <2>1, <2>3 DEF InSequence, Has, AllGames
  <2>8. Mirrors(o, "coinflip") \subseteq dos BY DEF Mirrors, CoinflipMirrors, Hashes
  <2> QED BY <2>1, <2>3, <2>4, <2>5, <2>6, <2>7, <2>8
<1>4. /\ CallTurn(o, "readList") = 4 /\ CallTurn(o, "writeList") = 5
      /\ CallTurn(o, "set") = 7 /\ CallTurn(o, "caps") \in {3, 6, 8}
      BY DEF CallTurn, CapsTurn
<1>5. \E do \in dos : c(do) \in program[m]
      BY <1>1, <1>3
<1>6. \E do \in dos : /\ c(do) \in program[m]
                      /\ \A e \in dos : c(e) \in program[m] => CallTurn(o, do) <= CallTurn(o, e)
  <2> DEFINE in(e) == c(e) \in program[m]
  <2> HIDE DEF c, in
  <2>1. in("caps") \/ in("readList") \/ in("writeList") \/ in("set") BY <1>5 DEF in
  <2> SUFFICES \E do \in dos : in(do) /\ \A e \in dos : in(e) => CallTurn(o, do) <= CallTurn(o, e)
      BY DEF in
  <2> QED BY <2>1, <1>4
<1>7. PICK do \in dos :
         /\ c(do) \in program[m]
         /\ \A e \in dos : c(e) \in program[m] => CallTurn(o, do) <= CallTurn(o, e)
      BY <1>6
<1>8. \A e \in dos : Turn(o, c(e)) = 30 + CallTurn(o, e)
      BY <1>0 DEF Turn, Place
<1>9. \A e \in dos : CallTurn(o, e) \in Nat BY <1>4
<1>10. InTurn(m, c(do))
  <2> SUFFICES ASSUME NEW u \in program[m] PROVE Turn(o, c(do)) <= Turn(o, u)
      BY <1>7 DEF InTurn
  <2>1. PICK e \in dos : u = c(e) BY <1>3
  <2>2. CallTurn(o, do) <= CallTurn(o, e) BY <1>7, <2>1
  <2>3. Turn(o, c(do)) = 30 + CallTurn(o, do) /\ Turn(o, u) = 30 + CallTurn(o, e)
        BY <1>8, <2>1
  <2> QED BY <1>9, <2>2, <2>3
<1> QED BY <1>0, <1>7, <1>10 DEF Halfway, AllGames

\* A restart keeps it: what it rebuilds agrees, and it makes doubtful what it
\* interrupts.
LEMMA RestartInv == ModInv /\ Restart => ModInv'
<1> SUFFICES ASSUME ModInv, Restart PROVE ModInv' OBVIOUS
<1>1. /\ program' = [m \in Moderators |-> {}] /\ order' = [m \in Moderators |-> NoOrder]
      /\ doubtful' = (doubtful \cup Halfway) \ Hashes
      /\ mirror' = Rebuilt /\ banSet' = (row["coinflip"] = "BANNED" \/ banList)
      /\ UNCHANGED <<row, banList, caps, rowCaps>>
      BY DEF Restart
<1>2. \A m \in Moderators : ~Underway(m)' /\ program'[m] = {} BY <1>1 DEF Underway, NoOrder
<1>3. ModTypeOK'
  <2>1. Halfway \subseteq AllGames BY DEF Halfway
  <2>2. Rebuilt \in [Hashes -> RowStatuses] BY DEF ModInv, ModTypeOK, Rebuilt, Hashes, AllGames
  <2>3. banSet' \in BOOLEAN BY <1>1
  <2> QED BY <1>1, <2>1, <2>2, <2>3 DEF ModInv, ModTypeOK
<1>4. OrdersFit' BY <1>1, <1>2 DEF OrdersFit, OrderRecords, NoOrder
<1>5. ASSUME "coinflip" \notin doubtful' PROVE Agrees("coinflip")'
  <2>1. "coinflip" \notin doubtful \cup Halfway BY <1>1, <1>5 DEF Hashes
  <2>2. Agrees("coinflip")
    <3>1. CASE \A m \in Moderators : ~Underway(m)
          BY <2>1, <3>1 DEF ModInv, MirrorsAgreeWhenQuiet, AllGames
    <3>2. CASE \E m \in Moderators : Underway(m)
      <4>1. PICK m \in Moderators : Underway(m) BY <3>2
      <4>2. Tidy(m, "coinflip") BY <2>1, <4>1 DEF ModInv, TidyWhileBusy, AllGames
      <4>3. ~(Left(m, "coinflip") /\ ~Has(m, "coinflip", "row"))
            BY <2>1, CoinflipHalfway DEF ModInv
      <4> QED BY <4>2, <4>3 DEF Tidy
    <3> QED BY <3>1, <3>2
  <2> QED BY <1>1, <2>2 DEF Agrees, Hashes
<1>6. MirrorsAgreeWhenQuiet'
  <2> SUFFICES ASSUME NEW g \in AllGames \ doubtful' PROVE Agrees(g)'
      BY DEF MirrorsAgreeWhenQuiet
  <2>1. CASE g \in Hashes
    <3>1. mirror'[g] = row'[g] BY <1>1, <2>1 DEF Rebuilt
    <3> QED BY <2>1, <3>1 DEF Agrees, Hashes
  <2>2. CASE g = "crash" BY <2>2 DEF Agrees, Hashes
  <2>3. CASE g = "coinflip" BY <1>5, <2>3
  <2> QED BY <2>1, <2>2, <2>3 DEF AllGames, Hashes
<1> QED BY <1>2, <1>3, <1>4, <1>6
        DEF ModInv, InSequence, AloneOrDoubtful, RowsLookedAt, TidyWhileBusy, DoneInTurn, Has

\* Every step of the specification keeps the invariant.
LEMMA ModKeeps == ModInv /\ [ModNext]_modVars => ModInv'
<1> SUFFICES ASSUME ModInv, [ModNext]_modVars PROVE ModInv' OBVIOUS
<1>1. CASE UNCHANGED modVars
  <2>1. UNCHANGED <<row, mirror, banList, banSet, caps, rowCaps, program, order, doubtful>>
        BY <1>1 DEF modVars
  <2>2. ModTypeOK' /\ OrdersFit' /\ InSequence' /\ AloneOrDoubtful'
        BY <2>1 DEF ModInv, ModTypeOK, OrdersFit, InSequence, AloneOrDoubtful, Has, Underway,
                    Alone
  <2>3. RowsLookedAt'
        BY <2>1 DEF ModInv, RowsLookedAt, Untouched, Has, Underway
  <2>4. \A g : Agrees(g)' <=> Agrees(g) BY <2>1 DEF Agrees
  <2>5. \A m, g : Tidy(m, g)' <=> Tidy(m, g)
        BY <2>1, <2>4 DEF Tidy, HalfDone, Left, Has, CapsAgree, CapsWillAgree
  <2>6. TidyWhileBusy' /\ MirrorsAgreeWhenQuiet'
        BY <2>1, <2>4, <2>5 DEF ModInv, TidyWhileBusy, MirrorsAgreeWhenQuiet, Underway
  <2>7. DoneInTurn'
        BY <2>1 DEF ModInv, DoneInTurn, DoneSoFar, LeftSoFar, Has, Underway
  <2> QED BY <2>2, <2>3, <2>6, <2>7 DEF ModInv
<1>2. ASSUME NEW m \in Moderators, NEW s \in program[m], OrderStep(m, s) PROVE ModInv'
  <2>1. /\ ModTypeOK /\ OrdersFit /\ InSequence /\ AloneOrDoubtful /\ RowsLookedAt
        /\ TidyWhileBusy /\ DoneInTurn
        BY DEF ModInv
  <2>2. OrdersFit' /\ AloneOrDoubtful' BY <1>2, <2>1, StepFits
  <2>3. InSequence' BY <1>2, <2>1, StepInSequence
  <2>4. ModTypeOK' BY <1>2, <2>1, StepStores
  <2>5. RowsLookedAt' BY <1>2, <2>1, StepRows
  <2>6. TidyWhileBusy' BY <1>2, <2>1, StepTidy
  <2>7. DoneInTurn' BY <1>2, <2>1, StepDone
  <2>8. Underway(m)'
    <3>1. OnlyMine(m) BY <1>2, <2>1, StepLeaves
    <3> QED BY <2>1, <3>1, Mine, SameOrder DEF Underway
  <2>9. MirrorsAgreeWhenQuiet' BY <2>8 DEF MirrorsAgreeWhenQuiet
  <2> QED BY <2>2, <2>3, <2>4, <2>5, <2>6, <2>7, <2>9 DEF ModInv
<1>3. ASSUME NEW m \in Moderators, EndOrder(m) PROVE ModInv' BY <1>3, EndInv
<1>4. ASSUME NEW m \in Moderators, NEW o \in Orders, BeginOrder(m, o) PROVE ModInv'
      BY <1>4, BeginInv
<1> QED BY <1>1, <1>2, <1>3, <1>4, RestartInv DEF ModNext

\* Bans and limits: the invariant of the requests.
THEOREM ModerationInvariant == ModSpec => []ModInv
BY ModStart, ModKeeps, PTL DEF ModSpec

\* What the games read agrees with the rows between requests, unless a step
\* failed or requests overlapped there; a restart repairs dice and mines.
THEOREM MirrorsFollowRows == ModSpec => []MirrorsAgreeWhenQuiet
<1>1. ModInv => MirrorsAgreeWhenQuiet BY DEF ModInv
<1> QED BY <1>1, ModerationInvariant, PTL

\* A request that ran alone and without a failure holds in every game of its
\* scope, rows and Redis, however half done earlier ones have left the games;
\* save where the code stops at a look, and leaves the game alone.
THEOREM WholeRequestsFinish == ModSpec => []RequestsFinish
<1>1. ASSUME ModInv PROVE RequestsFinish
  <2> SUFFICES ASSUME NEW m \in Moderators,
                      Underway(m), program[m] = {}, order[m].alone, order[m].whole,
                      NEW g \in Scope(order[m])
               PROVE  Holds(order[m], g) \/ LeftAlone(order[m], g)
      BY DEF RequestsFinish
  <2>1. DoneSoFar(m, g) \/ LeftSoFar(m, g) BY <1>1 DEF ModInv, DoneInTurn, Sound
  <2>2. \A do : ~Has(m, g, do) BY DEF Has
  <2>3. DoneSoFar(m, g) => Holds(order[m], g) BY <2>2 DEF DoneSoFar, Holds
  <2>4. LeftSoFar(m, g) => LeftAlone(order[m], g) BY <2>2 DEF LeftSoFar, LeftAlone
  <2> QED BY <2>1, <2>3, <2>4
<1> QED BY <1>1, ModerationInvariant, PTL

=============================================================================
