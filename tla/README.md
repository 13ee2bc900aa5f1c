# A verification project for BloxBlitz Admin

TLA+ specifications of the state-changing parts of `admin-api`, the NestJS
service behind the casino's admin pages, and of the two pages whose fetches keep
state, with TLC runs on small instances and TLAPS proofs for all instances. Paths
below are relative to the repository; `mines-system-control/` and the like are
under `admin-api/src/`.

## 1. The system

`admin-api` keeps its state in Postgres (Prisma) and in Redis (ioredis, one
connection that all requests share). A second program, the game API
("BloxBlitz_Amp", another repository), works on the same keys and rows while
players play. There is no lock between the two: what keeps them consistent is
the order of single Redis commands, Lua scripts and database transactions. A
handler is a sequence of awaits, so that other handlers, the timers and the
game API run between any two of its steps. Most of what the service keeps exists
twice, as a row and as a copy in Redis that the games read, and the two are
written one after the other; much of this project is about what that leaves.

### Inventory

| Component | State | Operations | What makes it correct | Modelled in |
|---|---|---|---|---|
| Mines switch (`mines-system-control`) | the key `mines:system:state` | pause, resume, disable, toggle | a pause is lifted by a resume only, or at least what can lift it dies out | `MinesMode` |
| Mines reset (`mines-system-control`) | pointers, round blobs, idempotency keys, ledger, `GameHistory`, `MinesBetHistory`, history cache version | one long handler: pause, scan, pay, clean up, cancel, resume | nobody is paid twice or unfairly; no round is left in play or stranded; the tables agree | `MinesReset` |
| Mines refund (`mines-reset-refund.calculator.ts`) | none | multiplier, credit, profit | fair to within the rounding | `MinesRefund` |
| Wager races (`races`) | `Race` and `RaceParticipant` rows, `race:current` | create, cancel, pause, resume, end, freeze, thaw; minute cron; overview | final ranks are final; no two open races overlap; what ended stays ended and what is over ends; a stale cache is deleted | `Races` (partly) |
| Coinflip fraud (`coinflip-fraud`) | a Redis stream and its pending entries, claims, statistics, risk and mitigation hashes | drain timer (1.5 s), decay and graph crons, flag, limit, ban, clear | each payout counted once and not lost; staff's limits stand | `FraudStream` (partly) |
| Chat bans (`chat-ban`) | one JSON document | ban, unban, the pruning list | no running ban is lost | `SharedConnection` |
| Coinflip tracking (`coinflip-tracking`) | economy JSON, hash of waiting games | change economy, cancel a waiting game | no lost update; the economy stays valid; a cancelled game is refunded once | `SharedConnection` (partly) |
| Coinflip bots (`coinflip-bots`) | user rows with a configuration, a published list | create, update, delete, resync | what is published is playable and is what the rows say | `CoinflipBots` |
| Global, dice, mines and coinflip moderation (`admin-users`, `dice-analytics`, `mines-moderation`, `coinflip-players`) | a row per game, two hashes, a JSON list, a set, caps | ban, limit, unban, unlimit, clear, in one game or in all; rebuild at start | the mirrors agree with the rows; a request that ran to its end did all it says, after a half-done one too | `Moderation` |
| Crash players (`crash-players`) | a control row, copies in Redis and memory | ban, limit, clear; bets and lobby visits | a stale copy needs a race or a lost DEL, and does not last | `CrashEligibility` (partly) |
| Crash chains (`crash-chain-admin`) | chains, rounds calculated in advance | create, set the client seed, precalculate | one chain is active; a round used the seed its chain shows | `CrashChain` (partly) |
| Roulette and towers restrictions | a row, a copy, wager counters | set, ban, unban, delete; rebuild at start | the copy is the row; counters only under a limit | `Restrictions` |
| Dice and roulette configuration | a Redis hash, a copy in memory | read (and repair), update | no mixed or invalid configuration; a patch leaves the rest alone | `GameConfig` |
| Reward keys (`reward-case-keys`) | a ledger of signed rows | set, change a balance | a change ends at the balance asked for, and not below zero | `KeyLedger` |
| Cases (`cases-overview`) | a case's row, its cover in storage, the public copy, the item weights | update | a cover that is named is there; weights are the chances of the form | `CaseCovers`, `CaseWeights` (partly) |
| Analytics (`analytics` and the charts of dice, mines, crash, cases) | none | a window, a grouping, the points shown | every bet of the window is in one point, the right one | `ChartBuckets` (partly) |
| Admin web interface (`web`) | the state of each page | fetches, polls, forms | what is shown becomes what is selected | `UsersPage`, `OverviewPage` (partly) |
| Users and balances; reward case catalogue; mines and towers configuration; Redis and Prisma access; staff authentication; listings | - | - | - | section 5 |

The hazards of the code, each with its line and the properties that are about it,
are in `PROJECT.json`.

## 2. The modules

    MinesMode <- MinesReset <- MCMinesReset, MinesResetProofs
                 MinesReset -- INSTANCE RefundOnce   (what it implements)
    Races <- MCRaces, RacesProofs
    FraudStream <- MCFraudStream, FraudStreamProofs

    MinesMode, MinesRefund, SharedConnection, KeyLedger, CoinflipBots,
    CrashChain, CrashEligibility, Moderation, UsersPage, OverviewPage,
    ChartBuckets, Restrictions, GameConfig, CaseCovers, CaseWeights <- MCAdmin

    SharedConnection <- SharedConnectionProofs     Moderation <- ModerationProofs
    MinesMode, CrashEligibility, OverviewPage, KeyLedger, CoinflipBots,
    CrashChain <- AdminProofs
    GameConfig, Restrictions, CaseCovers <- StoreProofs
    ChartBuckets, MinesRefund, CaseWeights <- ArithmeticProofs

An action is one round trip to Redis or Postgres together with the code up to
the next await. An operator with the comment *Mutant* beside a definition is a
way that line of code could plausibly be wrong; nothing uses it except the
mutation runs, which put it in the definition's place and must then see the
property fail. A variable marked *ghost* records what happened, for a property to
refer to; no guard reads it.

`MCAdmin` composes the small components in one run. They share no state, so it
does not interleave them: `scene`, fixed at the start, picks the one that takes
steps, and the others rest in one initial state.

### MinesMode - the switch

`stored` is the Redis key, `request[a]` what admin `a`'s request has read.
Pause and resume are one SET. Disable and toggle are `ReadMode` (the GET and the
guard: a silent no-op or a 400 when paused) and `DisableWrite`/`ToggleWrite`.
`read()` answers ACTIVE for an absent key and, with `ReadMayFail`, for a GET
that failed; `answered` (ghost) tells the two apart. `AdminSmall` and
`MinesResetHostile` let GETs fail; of the others, only `MinesModeRace` has requests
that read the mode, and its violation needs no failure. A request whose GET failed
gets past a pause, so the first part of `PauseDrains` is about those that know the
mode (`Informed`): the exception is part of the property, not of a configuration.

### MinesReset - reset of active rounds

`phase[r]` is where reset `r` is, `row[r][g]` where it is with round `g` and what
it read of it. The actions follow `execute` and `processOneGame`: `BeginReset`
(PAUSED), `ScanPointer`, `LoadBlob`, `StartPool`, then for each round, at most
`Concurrency` at a time, `Refund` (the Lua script) or `SkipCredit`,
`ReadPointer`, `DeleteKeys`, `ReadRow`, `CancelRow` and `BumpHistoryCache`, and
`FinishReset` (ACTIVE). `RefundError`, `CleanupFails`, `CancelFails` and
`AbortReset` are its error paths; `Faults` says which a run admits.

The game API is external: `Admit` looks at the mode, and a separate action does
the work, so that a pause can land between the two. With `StrictPause` the work
looks again. A round's end is three steps (blob, rows, keys). It is modelled from
the keys and texts of this repository only.

The balance is not modelled: `ledger`, which the script writes in the same atomic
step, stands for the credits. `Payout[n]`, any function, stands for the value of
a round with n open tiles; `MinesRefund` is about that function.

`RefundOnce` is the abstract specification: a round is refunded once or never.

### MinesRefund - what a round is worth

The calculator in exact integer arithmetic (multipliers in ten-thousandths,
money in cents). The behaviour opens one safe tile after another.

### Races

Each handler is a read and check (`Begin...`), a write (`Create`, `Update`,
`Finish`, `Promote`) and the deletion of `race:current` (`Sweep`). `Update` is by
id and looks at nothing, as in the code; `Finish` locks the row and checks it
again. The cron promotes, sweeps if it promoted, finishes what was over when it
began, and sweeps if it finished any. The overview page promotes as well and
sweeps nothing; what is stale through that alone is called "forgotten".
`ranks[r]` relates the stored final ranks to the leaderboard: none, final, or
overtaken by a later wager. `serial`, fixed at the start, says whether handlers
overlap.

### FraudStream

`stream[e]` is where a payout is between XADD and XACK, `job[d]` what an
invocation of `drainStream` is doing; the timer does not wait for the one before,
so there are several. Processing an entry is: `Claim` (SET NX), one step for each
part of `Program[e]` - for each player the statistics script and the pipeline of
lists, then for a match of two the pair's net flow and the stake's flow, then for
each the risk hash and the automatic limit (read, then write: `EarnLimit`,
`SetLimit`) - and `Ack`. `applied[e][i]` counts how often part i took effect. Staff
limit, flag (mitigation, then risk) and clear (risk, then mitigation). `Fail`,
`FetchFails` and `Crash` are bounded by `MaxFailures`. `regime`, fixed at the
start, says what a behaviour mixes: "alone" (no staff, failures), "turns" (staff
and scoring take turns, no failures), "free" (anything; used by the proofs only).
A batch is a set, so entries come in any order, which includes the code's.

### SharedConnection - optimistic writes

`watched` and `touched` are the state of the one connection: EXEC and UNWATCH of
any request end the watches of all. A chat ban, an unban, a change of the
economy document and the cancellation of a waiting coinflip game are WATCH, GET,
EXEC, UNWATCH, each a step, with their retries; the users page reads the bans
without a watch and may write the pruned list back. The game API joins a game,
plays it out or withdraws it over its own connection. `overlap`, fixed at the
start, says whether requests of this service overlap: the lock works when they do
not. That the economy stays valid does not depend on it, and is proved.

### KeyLedger

`SumKeys` and `InsertKeys` are the two queries of `setKeyBalance`'s transaction,
`change[q]` what it has computed in between, `spare[q]` whether nobody has inserted
a row since. Rollbacks, and the rows of the game API.

### CoinflipBots

`bots` are the rows, `published` the Redis list. A request is read, write,
findMany, SET. The configuration in a request is not validated, so a field may be
absent or no number; `Normalize` is `normalizeBotConfig`, which runs before storing
and again before publishing.

### CrashChain

Creation; an activation as check, deactivation and commit (`CheckSeed`,
`Deactivate`, `CommitActivation`), since the check is outside the transaction; the
precalculation in batches with the seed read at its beginning. A round carries
the seed it was computed with, which is all that verifying it needs.

### CrashEligibility

`control` is the row, `copy["redis"]` and `copy["memory"]` its copies. A bet or lobby
visit reads the row (`ReadControl`) and copies what it read later (`FillCopy`); an
admin's request writes the row and then, in a `finally`, deletes the copies, where
the DEL may be lost. `raced` says that a lookup or a loss has left a wrong copy.

### Moderation

One player, four games: a row for each, hashes for dice and mines, list, set and
caps for coinflip. The use case of a request awaits its calls one after another,
game after game. `Program(o)` is the set of those calls, `program[m]` those still
to do; an action does one when it is its turn, i.e. when none is left that comes
before it (`Turn`, by the place of its game and of the call within the game). A
step may throw, which ends the request half done, or lose its write silently;
`Restart` rebuilds the hashes. `doubtful` are the games in which something failed
or overlapped. A coinflip row may be ACTIVE, which is what a global unban leaves, and
its caps are those that the request gives (`given`: a bet cap, with an hourly one
from a global limit, or none if `maxWagerAmount` is null). `skipped` (ghost) are
the games in which a request looked at the row and found nothing to do.

### Restrictions, GameConfig

`Restrictions` is one player of roulette or towers: row, copy and counters; set,
ban, unban, delete; the bet, external, reads the copy and later adds to a counter.
`GameConfig` is the hash of dice or roulette with a copy in memory: a read repairs
a hash that is empty, incomplete or invalid; an update merges its patch into what
it read and writes all fields. A field may also hold something that is no number:
it is read as its default, and not repaired. The wager counters of `Restrictions`
are one flag, there or not. `addWagerIfWithinMax` is called by nothing in this
repository but is there for the bet; its comparison with the cap and the three time
frames are left out, as no property depends on them.

### CaseCovers, CaseWeights

A cover is an object in storage, a URL in the row and a URL in the public copy.
An update puts a new object, commits the row, drops the copy, deletes the old
object; without a new cover it saves the URL that its form was opened with, which
may be an old one (`staleCover`). `CaseWeights` is `dropChancesToWeights`.

### UsersPage, OverviewPage

The two ways in which the web's pages fetch. The users page shows answers in the
order of their arrival, and a timer asks again. The Mines overview numbers its
fetches and applies the latest only, aborts the others, and shows a cached answer
meanwhile.

### ChartBuckets

For each chart, the window the query selects, the unit and the grouping in SQL on
one side, and the list of buckets the use case fills on the other; `Points` is
what is shown. `Zones` are UTC, a zone ahead of it and one behind, for the monthly
chart, which alone takes a zone.

## 3. The runs

| Run | Expected | What it shows |
|---|---|---|
| `MinesModeRace` | violation | `PauseHoldsUntilResume`, the UI's promise, fails through disable or toggle |
| `MinesResetHostile` | pass | two overlapping resets, an admin, all faults: a round is credited once (`CreditAtMostOnce`, `ImplementsRefundOnce`), the tables agree |
| `MinesResetStrict` | pass | two players, two resets in sequence, crashes, failing transactions, a game API that stops at once: no double payout, fair refund, correct profit, every round closed |
| `MinesResetEnds` | pass | one player, two rounds, a pool of one: no later round's pointer is deleted, no round is stranded, the reset ends |
| `MinesResetStaleRow` | violation | `OnlyPlayingCancelled`, the comment of `cancelRoundInDb`, fails: the update is by id |
| `RacesSmall` | pass | both modes of overlap: ranks, cache, overlap, endings, liveness |
| `RacesLateUpdate` | violation | with overlapping handlers a race that ended comes back |
| `FraudSmall` | pass | regimes "alone" and "turns": payouts counted once, acknowledged in the end, and - if nothing failed - counted; staff's limits stand |
| `FraudLost` | violation | a payout whose counting failed is acknowledged uncounted |
| `AdminSmall` | pass | the fifteen small components, below |
| `KeyLedgerAnswer` | violation | the answer to a change of keys names the new balance as the previous one and adds the change twice |
| `GgrWrongMonth` | violation | outside UTC the monthly chart counts a bet in the wrong month |

The violations are described, with the lines they contradict, under `findings`
in `PROJECT.json`.

`AdminSmall` checks, by component:

| Component | Property | In words |
|---|---|---|
| MinesMode | `PauseDrains` | once PAUSED, of the requests whose GET Redis answered, those that can still overwrite the pause only become fewer; a request whose GET failed is taken to have read ACTIVE, and is the exception |
| MinesRefund | `MultiplierIsFair` | stake x multiplier x probability is the stake less the edge |
| SharedConnection | `SetOnlyIfUnchanged` | an EXEC that would succeed finds what its GET answered |
| | `CancelRefundsLobby` | a stake is refunded once, and never of a game that was joined |
| | `RunningBanStands` | only an unban of that user lifts a running chat ban |
| KeyLedger | `LoneChangeClamps` | a change nobody interferes with never leaves the balance negative |
| CoinflipBots | `PublishedBotsSane` | no published bot has a smallest bet above its largest |
| | `PublishedListIsRows` | the list is what the rows say, unless its publication failed |
| CrashChain | `RoundsVerify` | one chain is active, and rounds use the seed that their chain shows |
| CrashEligibility | `StaleOnlyByRace` | a wrong copy needs a lost DEL or a lookup that raced |
| | `BanBitesInTheEnd` | a ban that stays is in the end seen by every bet |
| Moderation | `MirrorsAgreeWhenQuiet` | Redis agrees with the rows where nothing failed or overlapped |
| | `RequestsFinish` | a request that ran alone and without failure has done all it says - row, hash, list, set and caps - however half done a game was, save in two cases: a *global* unban or unlimit skips a game whose row has no ban or limit, whatever Redis has; and a ban *from coinflip* of a player whose row is BANNED adds the name to the set only, so that a list or caps left half done stay so |
| UsersPage | `ListCatchesUp` | the list becomes that of the query |
| OverviewPage | `OverviewSettles` | after the latest fetch nothing loads and no other range's numbers show |
| ChartBuckets | `ChartShowsWindow` | each selected bet is in one point, the right one; the bets of the hour in which a 24-hour window begins are in the totals only |
| Restrictions | `CopyIsRow` | the copy is the row, counters exist only under a limit |
| GameConfig | `HashStaysSound` | a complete, valid hash stays so |
| | `OtherSettingsKept` | a patch leaves what is read of the other settings alone |
| CaseCovers | `CoverIsThere` | a cover that the row or the public copy names exists |
| CaseWeights | `WeightsFair` | every item can be won, and weights follow the chances |

Where a property has a condition (no overlap, no failure, no old form), the code
does not promise more; the cases that the conditions leave out are under `hazards`
in `PROJECT.json`.

### Bounds

* Mines: two resets are enough for every property about resets that meet: each
  is about one round and two parties. One open tile distinguishes the stake from
  a winning. `MinesResetHostile` has one round and one player since its
  properties speak of one round; `MinesResetEnds` has two rounds of one player
  because pointers are shared between a player's rounds; the pool of one makes a
  round wait. The switch has three admins: two late writers and a pause;
  its GETs may fail.
* Refund: grids of four, six and eight tiles with every number of mines and every
  number of open tiles of those grids, both roundings, and edges below, at and
  above the limits of `resolveHouseEdgePercent`.
* Races: two races, whose windows overlap, three instants (before, within, after),
  one admin beside the cron and the overview: three handlers that overlap.
* Fraud: one match of two and one against a bot, two drains, and two failures,
  so that a retry can fail too. One member of staff and one suspect: the
  properties about mitigation are about one player.
* Shared connection: two requests, two users, one game, two attempts (the first
  fails, the second succeeds or gives up), bets 1..2. `AdminInit` starts with the
  least economy and with no bans or temporary bans of all users: the others are
  reached from there.
* Keys, bots, chains: two requests that overlap, three or four calls in all; two
  bots and bets up to 2, where the default lies below the largest; two chains of
  two rounds, a batch of one, so that a precalculation is interrupted between
  batches.
* Eligibility: one lookup and two admins. Moderation: two requests, one failure,
  one player, since nothing couples players; requests overlap only in behaviours
  without failures.
* Pages: two filters of two pages and two fetches, enough for answers to cross;
  two ranges and four fetches, enough for abort, cache and reload together.
* Restrictions: two requests, one limit, three calls and one failure. Configuration:
  settings 0..2, missing or no number, two requests, one failure. Covers: two updates at once, three in
  all, two uploads, one failure.
* Weights: chances in twelfths of the whole, 20 weights, up to four items: shares
  below one, a short last item and both roundings occur.
* Charts: the calendar is scaled down: an hour is two ticks, a day two hours, "week"
  and "30 days" three days, a year twelve ticks, and months are irregular
  (`MonthStarts`), so that a window can begin and end within an hour, a day and a
  month and each unit is chosen by some window. Two bets.

`CHECK_DEADLOCK FALSE` where the modelled world may stop: resets done, the clock
at its bound, everything acknowledged, the bounded calls made.

### Fairness

* `MinesReset!FairSpec`: a reset that has begun goes on; an HTTP handler runs to its
  end unless the process dies, which `AbortReset` is and `ResetEnds` excepts.
* `Races!FairSpec`: time passes and the minute cron runs and finishes. Nothing is
  assumed of admins and viewers.
* `FraudStream!FairSpec`: the `@Interval(1500)` timer fires and a drain goes on;
  pending entries grow idle. Failures are bounded, not fair.
* `EligFairness`: copies expire (they have a lifetime), a lookup and an admin's
  request that have begun end. Nothing is assumed to begin.
* `PageFairness`: React runs the effect of a render, the poll's timer fires, a fetch
  is answered or fails. `AdminFairness` is these two for the scene that takes steps.

## 4. The proofs

All constants are arbitrary, subject to the named assumptions of the modules
(types, and e.g. that the cron is no admin).

* `MinesResetProofs`. `TypeCorrect`; `CreditsAreSafe`: `CreditAtMostOnce` with the
  types is inductive, since the script tests and sets in one step;
  `ResetImplementsRefundOnce`: every step maps to a refund of an unrefunded round
  or to a stutter. What is needed beyond that is that a reset credits only what is
  positive, so that "refunded" and "has a ledger entry" are the same.
  `CancelledTogether` (`BetsCancelledWithHistory`) from `RowsAgree`: both tables are
  written together, a round that a pointer or a reset names has rows, and what a
  transaction found out of play does not come back into play. None of these
  assumes anything of the game API, the number of resets or the faults.

  The others have a hypothesis, the one of the run that checks them; without it
  TLC finds them violated by the code. Under `OneResetAtATime` (resets one after
  another, no other admin writing the mode, no cleanup failing between two
  deletions): `RoundsAreFound` and `PointersAreOwn`. Between reading a pointer and
  deleting it the code holds nothing; what makes the deletion right is the pause.
  `SerialInv` says so: the game is paused while a reset runs, only the running
  reset has rounds in hand, and a pointer found to be a round's is still that
  round's or gone, as no start can be on its way to replace it. Under `StopsAtOnce`
  (in addition, the game API looks at the mode again when it acts, and only crashes
  and failing transactions happen): `NobodyPaidTwice`, `RefundsAreFair`,
  `ProfitIsCredit`, `ResetsCloseAll`.
  `StrictInv` follows a credit: what a reset has loaded of a round in play is true
  until it deletes the blob, so the credit is what the round is worth; a credited
  round whose blob is still there is paused, so nobody cashes it out; as long as
  it can be listed, by this reset or after a crash by the next, it is worth what
  the ledger says, so that the profit written into the row is the credit; and no
  pointer is forgotten by the reset that runs.
* `RacesProofs`. `RacesTypeCorrect`. `FinishedRanksHold`: `Wager` needs an ACTIVE
  race, and only `Finish`, which writes the ranks, leads to FINISHED.
  `CacheIsSwept` needs the invariant `DirtyAtWork`: only a handler at work has a
  sweep still to do, so a key that is stale always has someone who will delete it.
  `RacesDoNotOverlap` and `EndingsAreFinal` need more: with one handler at a time,
  what the handler checked when it began still holds when it writes. The invariant `SerialInv` says so, for
  each kind of handler: the window of a create is still free, the target of an
  update is still allowed, the due races are still due - the clock moves on, but
  no status changes - and at most one actor is busy.
* `FraudStreamProofs`. `FraudTypeCorrect` and `PayoutAppliedOnce`. The invariant
  `OneScorer`: nothing of an unclaimed payout has had effect; a drain that scores
  has claimed, no two score the same payout, and the part it has come to and those
  after have had no effect. It holds in every regime, with any failures.
  `AcksLoseNothing` (`AckedIsCounted`) and `StaffLimitsStand` (`ManualStands`) from
  `Whole`: while nothing has failed, a claimed payout is counted in all its parts
  or a drain is at it, and has done the parts before the one it has come to; and
  when staff and scoring take turns, a limit is about to be written only for a
  player without a manual one.
* `SharedConnectionProofs`. `ConnTypeCorrect`; `EconomyStaysValid`, with overlapping
  requests too, since `EconomyInv` says that the document a request is about to
  write is valid as a whole; `LockHolds`, `RefundsOnce` and `BansStand` from
  `SerialInv`: one call is under way, it watches its key from its read on, the key
  is as it was read unless the connection is touched, and a game in the lobby has
  been neither joined nor refunded.
* `AdminProofs`. `PauseCanOnlyDrain`, whether or not GETs fail; `CopiesAgree` (`CopiesInv`: unless `raced`, a copy
  differs from the row only while an admin's request is still to delete it);
  `OverviewIsSettled` (`LatestInv`: unless an effect is due, the latest fetch is
  pending and of the selected range, or it has ended and then nothing loads and no
  other range shows); `ChangesClamp` (`LedgerInv`: while a request's `spare` holds,
  the sum it read is the balance, and a change by an admin never takes that sum
  below zero). `PublishedAreSane`: whatever a request contains, what `Normalize`
  makes of a stored configuration has its bets in order; and `PublishedIsRows`, by
  an invariant on what a request has still to write. `ChainTypeCorrect` and
  `RoundsAreVerifiable`: under `~activationsOverlap`, at most one activation is
  under way and one chain active; a seed, once set, is never changed, so what a
  precalculation read stays the chain's seed.
* `StoreProofs`. `HashIsAlwaysSound`: a request writes all fields of a valid
  configuration or repairs a hash that is not sound. `OthersAreKept`
  (`OtherSettingsKept`; `FreshInv`: what a request that read the hash last carries
  is what is read of the hash, with its patch once merged). `CopyFollowsRow`
  (`RestrictInv`): without doubt, a request alone has only steps left that make
  copy and counters agree with the row. `CoversAreKept` (`CoverInv`): keys of covers
  are numbered, a cover not yet committed belongs to one request, and a cover
  waiting for deletion is one that neither the row nor the copy names unless it is
  stale.
* `ModerationProofs`. `MirrorsFollowRows` (`MirrorsAgreeWhenQuiet`) and
  `WholeRequestsFinish` (`RequestsFinish`) from `ModInv`: what is left of a
  request is what comes last in its turn; a request runs alone or leaves every game
  in doubt; what a lone request saw of a row still holds when it writes it; a game
  without doubt agrees with its row, save the one that the request is at, which
  agrees in all but the calls still to come; and what a lone request that failed
  nowhere has behind it, it has done, save where it found nothing to do. The last of these
  (`DoneInTurn`) is why a repetition finishes what was left half done; the two
  exceptions of `RequestsFinish` are those of the code, and the theorem has them
  because the property has.
* `ArithmeticProofs`. `ChartsShowTheirWindow`, for every calendar that satisfies
  `CalendarAssumption`. There is little to an invariant here: a chart on the screen
  is right because each kind of chart is right whenever it is asked for. Each has a
  lemma, and they rest on a few about the operators: the start of a bucket is the
  last start up to an instant, and later instants have later buckets (`LastStart`,
  `Ordered`); the last hours are the buckets of all instants from the first of them
  on, have different labels, and miss one hour of a window of 24 hours to the tick
  (`TheLastHours`); the last months likewise (`TheLastMonths`). In another zone the
  monthly chart shows what it has grouped, so nothing is lost; that it is the wrong
  month is run `GgrWrongMonth`.
  `RefundsAreByOdds` (`MultiplierIsFair`): the number of sets of k tiles, times k!,
  is a falling factorial, since both obey Pascal's rule, so the product that the
  code builds up step by step is the quotient of the two numbers of sets that the
  property counts; what is left is one rounding, off by at most a half.
  `WeightsAreFair` (`WeightsFair`): each item is off its share by its rounding, and
  the last gets what the others leave, so it is off by no more than they are
  together.
  The library's induction theorems take an operator as a parameter and cannot be
  used; `FromZeroOn` stands in for them: a set of numbers that has 0, and n + 1
  with each n, has all, or there would be a least one it lacks.

The hypotheses of theorems (`OneResetAtATime`, `StopsAtOnce`) are conditions on the
constants that the runs of the same properties satisfy; the others have none beyond
the named assumptions. Several properties carry a condition or an exception
themselves (handlers one at a time, nothing failed, a lookup that raced, a GET that
failed), as their comments and section 3 say, and the theorem proves them with it. With
these theorems every safety property of every passing run is proved, for all
instances that meet its hypothesis. Only liveness is not, being under fairness and
so out of the prover's reach: `ResetEnds`, `ExpiredRaceEnds`, `EveryPayoutAcked`, `BanBitesInTheEnd` and
`ListCatchesUp` are only model-checked.

## 5. Not modelled

* Balances (`user:balance`, its dirty set, the two encodings the scripts use) and
  the admin's edit of a user: whether an edit stands depends on when the game API
  writes its cached balances back, which this repository does not show.
* Expiry of idempotency and claim keys (30 days, 48 hours) and of a coinflip ban's
  date.
* In `Races`: prizes, labels, failing commands, the content of leaderboards. In
  `FraudStream`: session events, scores, the decay and graph crons, `banUser`.
* The reward case catalogue, the documents of mines and towers configuration, the
  dice betting switch, creation and enabling of cases: one write or one transaction
  of whole values, where the last writer wins.
* Redis and Prisma access as a component: its effects (one connection, commands
  that fail or whose replies are lost) are in the modules that use it. The retry
  extension around single Prisma calls is not.
* Staff authentication: outside what this project states.
* Listings, histories, details and the overview numbers: queries that keep no
  state; the 45-second cache in front of some of them.
* The other sections of the web interface: they fetch as the two modelled pages do,
  and are otherwise forms, tables and charts. They are by far the largest part of
  the repository's lines, which is why `map` covers a small share of it.

## 6. Plan

Done: the modules above. What could still be added, most useful first:

1. In `FraudStream`, the decay cron, whose read and write back of a risk hash undo a
   clear in between, and `banUser`, which rewrites the JSON list of bans.
2. The hypotheses of the Mines theorems in smaller pieces: which of them survive
   an admin who only pauses, or a cleanup that fails between its two deletions.
3. `Balances`, once the game API's write-back is known: the Mines credit, the
   coinflip cancellation, the admin's edit; abstract specification: money is
   conserved.
