------------------------------ MODULE MinesReset -----------------------------
(***************************************************************************)
(* "Reset active games" of the Mines admin page                            *)
(* (admin-api/src/mines-system-control): pause the game, list every round  *)
(* under way, pay each player back, delete its Redis keys, cancel its      *)
(* history row, set the game ACTIVE again.                                 *)
(*                                                                         *)
(* The game API (another repository) runs against the same Redis keys and  *)
(* Postgres rows all the while; its actions are external.  Several resets  *)
(* may run, an admin may write the mode in the middle of one, and a reset  *)
(* may die between any two steps: each step below is one Redis or Postgres *)
(* round trip.                                                             *)
(***************************************************************************)
EXTENDS MinesMode, Integers, Sequences, FiniteSets

CONSTANTS
    Users, Games, NoGame,
    Owner,         \* Owner[g]: the player of round g
    MaxReveals,    \* bound: safe tiles a player opens in a round
    Payout,        \* Payout[n]: gross value of a round with n tiles open
    Resets,        \* reset requests
    Concurrency,   \* rounds one reset processes at a time (32 in the code)
    Faults,        \* which failures a run admits
    StrictPause,   \* the game API finishes no operation once paused
    SerialResets   \* a reset starts only when no other is running

AllFaults == {"crash", "expire", "lost reply", "redis", "db"}

ASSUME MinesResetAssumptions ==
    /\ NoGame \notin Games
    /\ Owner \in [Games -> Users]
    /\ MaxReveals \in Nat
    /\ Payout \in [0..MaxReveals -> Nat]
    /\ Concurrency \in Nat \ {0}
    /\ Faults \subseteq AllFaults
    /\ StrictPause \in BOOLEAN
    /\ SerialResets \in BOOLEAN

VARIABLES
    pointer,   \* user:mines:active:{user}
    blob,      \* mines:game:{id}
    idem,      \* games with a mines:adminRefund:{id} key
    ledger,    \* ledger:mines:{id}, the admin credits, newest first
    cashout,   \* what the game API itself paid for the round
    history,   \* the GameHistory row: status and profit
    bets,      \* the status of the MinesBetHistory rows of the round
    stale,     \* users whose cached history page misses a change
    op,        \* op[u]: what the game API is doing for u
    phase,     \* phase[r]: where reset r is
    toScan,    \* toScan[r]: pointers SCAN has yet to return
    row        \* row[r][g]: where r is with round g, and what it read of it

redisVars == <<pointer, blob, idem, ledger>>
dbVars == <<history, bets>>
resetVars == <<phase, toScan, row>>
apiVars == <<cashout, op>>
vars == <<modeVars, redisVars, dbVars, stale, resetVars, apiVars>>

Stake == Payout[0]

NoBlob == [status |-> "none", reveals |-> 0]
Blobs == [status : {"none", "ACTIVE", "ENDED"}, reveals : 0..MaxReveals]
RowStatuses == {"none", "PLAYING", "CANCELLED", "FINISHED"}

\* A round a reset has not listed.  "mine" is whether the user's pointer was
\* this round's when it was read, "playing" whether the history row was.
NoRow == [at |-> "none", snap |-> NoBlob, mine |-> FALSE, playing |-> FALSE]
RowSteps == {"none", "load", "queued", "pointer", "delete", "row", "cancel",
             "bump", "done"}
Rows == [at : RowSteps, snap : Blobs, mine : BOOLEAN, playing : BOOLEAN]

\* What the game API does for a user: an operation it has admitted, or the
\* second half of a round's end.
NoOp == [kind |-> "none", game |-> NoGame]
Ops == [kind : {"none", "start", "reveal", "cashout", "rows", "keys"},
        game : Games \cup {NoGame}]

TypeOK ==
    /\ ModeTypeOK
    /\ pointer \in [Users -> Games \cup {NoGame}]
    /\ blob \in [Games -> Blobs]
    /\ idem \in SUBSET Games
    /\ ledger \in [Games -> Seq(Nat)]
    /\ cashout \in [Games -> Nat]
    /\ history \in [Games -> [status : RowStatuses, profit : Int]]
    /\ bets \in [Games -> RowStatuses]
    /\ stale \in SUBSET Users
    /\ op \in [Users -> Ops]
    /\ phase \in [Resets -> {"idle", "scan", "process", "done", "aborted"}]
    /\ toScan \in [Resets -> SUBSET Users]
    /\ row \in [Resets -> [Games -> Rows]]

Init ==
    /\ stored = "ACTIVE"
    /\ request = [a \in Admins |-> NoRequest]
    /\ pointer = [u \in Users |-> NoGame]
    /\ blob = [g \in Games |-> NoBlob]
    /\ idem = {}
    /\ ledger = [g \in Games |-> <<>>]
    /\ cashout = [g \in Games |-> 0]
    /\ history = [g \in Games |-> [status |-> "none", profit |-> 0]]
    /\ bets = [g \in Games |-> "none"]
    /\ stale = {}
    /\ op = [u \in Users |-> NoOp]
    /\ phase = [r \in Resets |-> "idle"]
    /\ toScan = [r \in Resets |-> {}]
    /\ row = [r \in Resets |-> [g \in Games |-> NoRow]]

-----------------------------------------------------------------------------
(* The game API, as its keys and the admin page's texts describe it.       *)

Serve(u, kind, g) == op' = [op EXCEPT ![u] = [kind |-> kind, game |-> g]]

\* It checks the mode and then works: with StrictPause FALSE the pause can
\* land between the two.
Admit(u, kind) ==
    /\ op[u] = NoOp
    /\ IF kind = "start" THEN CurrentMode = "ACTIVE" /\ pointer[u] = NoGame
                         ELSE CurrentMode # "PAUSED" /\ pointer[u] # NoGame
    /\ Serve(u, kind, pointer[u])
    /\ UNCHANGED <<modeVars, redisVars, dbVars, stale, resetVars, cashout>>

Serving(u, kind) ==
    /\ op[u].kind = kind
    /\ StrictPause => CurrentMode # "PAUSED"

StartGame(u, g) ==
    /\ Serving(u, "start")
    /\ Owner[g] = u
    /\ history[g].status = "none"
    /\ pointer' = [pointer EXCEPT ![u] = g]
    /\ blob' = [blob EXCEPT ![g] = [status |-> "ACTIVE", reveals |-> 0]]
    /\ history' = [history EXCEPT ![g].status = "PLAYING"]
    /\ bets' = [bets EXCEPT ![g] = "PLAYING"]
    /\ Serve(u, "none", NoGame)
    /\ UNCHANGED <<modeVars, idem, ledger, stale, resetVars, cashout>>

InPlay(g) == g # NoGame /\ blob[g].status = "ACTIVE"

Reveal(u) ==
    /\ Serving(u, "reveal") /\ InPlay(op[u].game)
    /\ blob[op[u].game].reveals < MaxReveals
    /\ blob' = [blob EXCEPT ![op[u].game].reveals = @ + 1]
    /\ Serve(u, "none", NoGame)
    /\ UNCHANGED <<modeVars, pointer, idem, ledger, dbVars, stale, resetVars,
                   cashout>>

\* A cashout pays the round's value and a revealed mine pays nothing.
Settle(u, kind) ==
    LET g == op[u].game IN
    /\ Serving(u, kind) /\ InPlay(g)
    /\ blob' = [blob EXCEPT ![g].status = "ENDED"]
    /\ cashout' = [cashout EXCEPT
          ![g] = @ + IF kind = "cashout" THEN Payout[blob[g].reveals] ELSE 0]
    /\ Serve(u, "rows", g)
    /\ UNCHANGED <<modeVars, pointer, idem, ledger, dbVars, stale, resetVars>>

\* The rest of a settled round, which no pause interrupts: rows, then keys.
FinishRows(u) ==
    LET g == op[u].game IN
    /\ op[u].kind = "rows"
    /\ history' = IF history[g].status # "PLAYING" THEN history
                  ELSE [history EXCEPT ![g] = [status |-> "FINISHED",
                                               profit |-> cashout[g] - Stake]]
    /\ bets' = [bets EXCEPT ![g] = IF @ = "PLAYING" THEN "FINISHED" ELSE @]
    /\ Serve(u, "keys", g)
    /\ UNCHANGED <<modeVars, redisVars, stale, resetVars, cashout>>

DropKeys(u) ==
    LET g == op[u].game IN
    /\ op[u].kind = "keys"
    /\ blob' = [blob EXCEPT ![g] = NoBlob]
    /\ pointer' = [pointer EXCEPT ![u] = IF @ = g THEN NoGame ELSE @]
    /\ Serve(u, "none", NoGame)
    /\ UNCHANGED <<modeVars, idem, ledger, dbVars, stale, resetVars, cashout>>

\* An operation is refused, or dies with the API process.
Drop(u) ==
    /\ op[u] # NoOp
    /\ Serve(u, "none", NoGame)
    /\ UNCHANGED <<modeVars, redisVars, dbVars, stale, resetVars, cashout>>

BlobExpires(g) ==
    /\ "expire" \in Faults
    /\ blob[g] # NoBlob
    /\ blob' = [blob EXCEPT ![g] = NoBlob]
    /\ UNCHANGED <<modeVars, pointer, idem, ledger, dbVars, stale, resetVars,
                   apiVars>>

GameApi ==
    \/ \E u \in Users :
          \/ \E kind \in {"start", "reveal", "cashout"} : Admit(u, kind)
          \/ \E g \in Games : StartGame(u, g)
          \/ Reveal(u)
          \/ \E kind \in {"reveal", "cashout"} : Settle(u, kind)
          \/ FinishRows(u)
          \/ DropKeys(u)
          \/ Drop(u)
    \/ \E g \in Games : BlobExpires(g)

-----------------------------------------------------------------------------
(* The reset.                                                              *)

Running(r) == phase[r] \in {"scan", "process"}

\* Mutants: the stake is refunded whatever is open; the profit forgets it.
StakeOnly(snap) == Stake
ProfitIsGross(snap) == Payout[snap.reveals]

\* grossCreditForAdminReset and netProfitForCancelledGame.
GrossCredit(snap) == Payout[snap.reveals]
NetProfit(snap) == GrossCredit(snap) - Stake
Creditable(snap) == snap.status = "ACTIVE" /\ GrossCredit(snap) > 0

\* Mutant: the pause is left out.
BeginsUnpaused(r) == stored
ModeAtBegin(r) == "PAUSED"

BeginReset(r) ==
    /\ phase[r] = "idle"
    /\ SerialResets => \A other \in Resets : ~Running(other)
    /\ stored' = ModeAtBegin(r)
    /\ phase' = [phase EXCEPT ![r] = "scan"]
    /\ toScan' = [toScan EXCEPT ![r] = Users]
    /\ UNCHANGED <<request, redisVars, dbVars, stale, row, apiVars>>

\* The SCAN loop reads the pointers one by one.
ScanPointer(r, u) ==
    /\ phase[r] = "scan" /\ u \in toScan[r]
    /\ toScan' = [toScan EXCEPT ![r] = @ \ {u}]
    /\ row' = IF pointer[u] = NoGame THEN row
              ELSE [row EXCEPT ![r][pointer[u]].at = "load"]
    /\ UNCHANGED <<modeVars, redisVars, dbVars, stale, phase, apiVars>>

\* After the scan, each listed round's blob is read.
LoadBlob(r, g) ==
    /\ phase[r] = "scan" /\ toScan[r] = {}
    /\ row[r][g].at = "load"
    /\ row' = [row EXCEPT ![r][g] = [@ EXCEPT !.at = "queued",
                                              !.snap = blob[g]]]
    /\ UNCHANGED <<modeVars, redisVars, dbVars, stale, phase, toScan, apiVars>>

StartPool(r) ==
    /\ phase[r] = "scan" /\ toScan[r] = {}
    /\ \A g \in Games : row[r][g].at # "load"
    /\ phase' = [phase EXCEPT ![r] = "process"]
    /\ UNCHANGED <<modeVars, redisVars, dbVars, stale, toScan, row, apiVars>>

\* mapPool: at most Concurrency rounds of a reset between first and last step.
InHand(r) == {g \in Games :
                 row[r][g].at \in {"pointer", "delete", "row", "cancel", "bump"}}
\* Mutant: the pool is one short.
PoolOneShort(r) == Cardinality(InHand(r)) + 1 < Concurrency
HasRoom(r) == Cardinality(InHand(r)) < Concurrency
CanTake(r, g) ==
    /\ phase[r] = "process"
    /\ row[r][g].at = "queued"
    /\ HasRoom(r)

\* What a later step does not read is forgotten.
Goto(r, g, step) ==
    row' = [row EXCEPT ![r][g] =
              [NoRow EXCEPT
                 !.at = step,
                 !.snap = IF step \in {"bump", "done"} THEN NoBlob
                          ELSE row[r][g].snap]]

\* Mutant: the script credits without looking for the idempotency key.
NeverRefunded(g) == FALSE
AlreadyRefunded(g) == g \in idem

\* The Lua script: one atomic step of Redis.
ApplyCredit(g, gross) ==
    IF AlreadyRefunded(g) THEN UNCHANGED <<ledger, idem>>
    ELSE /\ ledger' = [ledger EXCEPT ![g] = <<gross>> \o @]
         /\ idem' = idem \cup {g}

Refund(r, g) ==
    /\ CanTake(r, g) /\ Creditable(row[r][g].snap)
    /\ ApplyCredit(g, GrossCredit(row[r][g].snap))
    /\ Goto(r, g, "pointer")
    /\ UNCHANGED <<modeVars, pointer, blob, dbVars, stale, phase, toScan,
                   apiVars>>

\* REFUND_ERROR: the call throws, whether or not the script ran, and the
\* round is left as it is.
RefundError(r, g) ==
    /\ "lost reply" \in Faults
    /\ CanTake(r, g) /\ Creditable(row[r][g].snap)
    /\ \/ ApplyCredit(g, GrossCredit(row[r][g].snap))
       \/ UNCHANGED <<ledger, idem>>
    /\ Goto(r, g, "done")
    /\ UNCHANGED <<modeVars, pointer, blob, dbVars, stale, phase, toScan,
                   apiVars>>

\* A missing blob, a round that is not active or one worth nothing gets no
\* credit and goes straight to the cleanup.
SkipCredit(r, g) ==
    /\ CanTake(r, g) /\ ~Creditable(row[r][g].snap)
    /\ Goto(r, g, "pointer")
    /\ UNCHANGED <<modeVars, redisVars, dbVars, stale, phase, toScan, apiVars>>

\* cleanupRedisForGame: GET the pointer, then DEL what was found to be ours.
ReadPointer(r, g) ==
    /\ row[r][g].at = "pointer" /\ Running(r)
    /\ row' = [row EXCEPT
          ![r][g] = [@ EXCEPT !.at = "delete",
                              !.mine = (pointer[Owner[g]] = g)]]
    /\ UNCHANGED <<modeVars, redisVars, dbVars, stale, phase, toScan, apiVars>>

\* Mutant: the comparison is the wrong way round.
DeletesOthers(r, g) == ~row[r][g].mine
DeletesPointer(r, g) == row[r][g].mine

DeleteKeys(r, g) ==
    /\ row[r][g].at = "delete" /\ Running(r)
    /\ pointer' = IF DeletesPointer(r, g)
                  THEN [pointer EXCEPT ![Owner[g]] = NoGame] ELSE pointer
    /\ blob' = [blob EXCEPT ![g] = NoBlob]
    /\ Goto(r, g, "row")
    /\ UNCHANGED <<modeVars, idem, ledger, dbVars, stale, phase, toScan,
                   apiVars>>

\* The cleanup fails before or in the middle of its pipeline.
CleanupFails(r, g) ==
    /\ "redis" \in Faults
    /\ row[r][g].at \in {"pointer", "delete"} /\ Running(r)
    /\ \/ UNCHANGED pointer
       \/ /\ row[r][g].at = "delete" /\ DeletesPointer(r, g)
          /\ pointer' = [pointer EXCEPT ![Owner[g]] = NoGame]
    /\ Goto(r, g, "row")
    /\ UNCHANGED <<modeVars, blob, idem, ledger, dbVars, stale, phase, toScan,
                   apiVars>>

\* Mutant: the status is compared with another one.
WaitsForFinished(g) == history[g].status = "FINISHED"
StillPlaying(g) == history[g].status = "PLAYING"

\* cancelRoundInDb, a READ COMMITTED transaction: findFirst ...
ReadRow(r, g) ==
    /\ row[r][g].at = "row" /\ Running(r)
    /\ row' = [row EXCEPT ![r][g] = [@ EXCEPT !.at = "cancel",
                                              !.playing = StillPlaying(g)]]
    /\ UNCHANGED <<modeVars, redisVars, dbVars, stale, phase, toScan, apiVars>>

AfterCancel(snap) == IF Creditable(snap) THEN "bump" ELSE "done"

RecordedProfit(snap) == IF Creditable(snap) THEN NetProfit(snap) ELSE 0

\* ... then the update by id, the conditional updateMany, and the commit.
CancelRow(r, g) ==
    LET snap == row[r][g].snap IN
    /\ row[r][g].at = "cancel" /\ Running(r)
    /\ history' = IF row[r][g].playing
                  THEN [history EXCEPT ![g] = [status |-> "CANCELLED",
                                               profit |-> RecordedProfit(snap)]]
                  ELSE history
    /\ bets' = [bets EXCEPT ![g] = IF @ = "PLAYING" THEN "CANCELLED" ELSE @]
    /\ stale' = IF dbVars' = dbVars THEN stale ELSE stale \cup {Owner[g]}
    /\ Goto(r, g, AfterCancel(snap))
    /\ UNCHANGED <<modeVars, redisVars, phase, toScan, apiVars>>

\* The transaction rolls back, and the reset goes on without it.
CancelFails(r, g) ==
    /\ "db" \in Faults
    /\ row[r][g].at \in {"row", "cancel"} /\ Running(r)
    /\ Goto(r, g, AfterCancel(row[r][g].snap))
    /\ UNCHANGED <<modeVars, redisVars, dbVars, stale, phase, toScan, apiVars>>

\* INCR of the history cache version, best effort.
BumpHistoryCache(r, g) ==
    /\ row[r][g].at = "bump" /\ Running(r)
    /\ \/ stale' = stale \ {Owner[g]}
       \/ "redis" \in Faults /\ UNCHANGED stale
    /\ Goto(r, g, "done")
    /\ UNCHANGED <<modeVars, redisVars, dbVars, phase, toScan, apiVars>>

\* Mutant: the results of the pool are not awaited.
NotAwaited(r) == TRUE
AllProcessed(r) == \A g \in Games : row[r][g].at \in {"none", "done"}

FinishReset(r) ==
    /\ phase[r] = "process"
    /\ AllProcessed(r)
    /\ stored' = "ACTIVE"
    /\ phase' = [phase EXCEPT ![r] = "done"]
    /\ UNCHANGED <<request, redisVars, dbVars, stale, toScan, row, apiVars>>

\* The process dies, or the scan or a SET of the mode throws.
AbortReset(r) ==
    /\ "crash" \in Faults
    /\ Running(r)
    /\ phase' = [phase EXCEPT ![r] = "aborted"]
    /\ toScan' = [toScan EXCEPT ![r] = {}]
    /\ row' = [row EXCEPT ![r] = [g \in Games |-> NoRow]]
    /\ UNCHANGED <<modeVars, redisVars, dbVars, stale, apiVars>>

RowStep(r, g) ==
    \/ LoadBlob(r, g)
    \/ Refund(r, g)
    \/ RefundError(r, g)
    \/ SkipCredit(r, g)
    \/ ReadPointer(r, g)
    \/ DeleteKeys(r, g)
    \/ CleanupFails(r, g)
    \/ ReadRow(r, g)
    \/ CancelRow(r, g)
    \/ CancelFails(r, g)
    \/ BumpHistoryCache(r, g)

ResetStep(r) ==
    \/ BeginReset(r)
    \/ \E u \in Users : ScanPointer(r, u)
    \/ StartPool(r)
    \/ \E g \in Games : RowStep(r, g)
    \/ FinishReset(r)

ModeRequest ==
    /\ ModeNext
    /\ UNCHANGED <<redisVars, dbVars, stale, resetVars, apiVars>>

Next ==
    \/ GameApi
    \/ \E r \in Resets : ResetStep(r) \/ AbortReset(r)
    \/ ModeRequest

Spec == Init /\ [][Next]_vars

\* A request handler that is not cut off runs to its end.
FairSpec == Spec /\ \A r \in Resets : WF_vars(ResetStep(r) /\ phase[r] # "idle")
-----------------------------------------------------------------------------
(* Safety, whatever fails and however many resets and admins there are.    *)

(***************************************************************************)
(* "admin reset retries never double-pay" (mines-admin-refund.redis.ts): a *)
(* round has at most one admin credit, and the idempotency key is there    *)
(* exactly when the credit is, so no retry can tell otherwise.             *)
(***************************************************************************)
CreditAtMostOnce ==
    \A g \in Games :
        /\ Len(ledger[g]) <= 1
        /\ g \in idem <=> ledger[g] # <<>>

\* The refund a round has received, in the eyes of RefundOnce.
Refunded(g) == IF ledger[g] = <<>> THEN 0 ELSE Head(ledger[g])

Positive == {Payout[n] : n \in 0..MaxReveals} \ {0}

RefundSpec == INSTANCE RefundOnce WITH
    Amounts <- Positive,
    refunded <- [g \in Games |-> Refunded(g)]

(***************************************************************************)
(* The reset implements RefundOnce: concurrent, repeated and interrupted   *)
(* resets together refund as one would.                                    *)
(***************************************************************************)
ImplementsRefundOnce == RefundSpec!Spec

(***************************************************************************)
(* The two history tables: a round whose bet rows say CANCELLED has a      *)
(* GameHistory row that says so too, through every interleaving of the     *)
(* cancelling transactions with each other and with the game API.          *)
(***************************************************************************)
BetsCancelledWithHistory ==
    \A g \in Games :
        bets[g] = "CANCELLED" => history[g].status = "CANCELLED"

(***************************************************************************)
(* "Idempotent - only rows still in PLAYING are updated to CANCELLED"      *)
(* (cancelRoundInDb's comment).                                            *)
(***************************************************************************)
OnlyPlayingCancelled ==
    [][\A g \in Games :
          history'[g] # history[g] /\ history'[g].status = "CANCELLED"
              => history[g].status = "PLAYING"]_vars

-----------------------------------------------------------------------------
(* Safety of one reset at a time with no other admin at work.              *)

(***************************************************************************)
(* The pointer a cleanup deletes is never that of another round, although  *)
(* it was compared in an earlier round trip.                               *)
(***************************************************************************)
NoForeignPointerDeleted ==
    [][\A r \in Resets, g \in Games :
          DeleteKeys(r, g) => pointer[Owner[g]] \in {g, NoGame}
                              \/ pointer' = pointer]_vars

(***************************************************************************)
(* A round in play can be found: its player's pointer leads to it.  The    *)
(* next reset, which starts from the pointers, would miss it otherwise.    *)
(***************************************************************************)
NoStrandedRound ==
    \A g \in Games : blob[g].status = "ACTIVE" => pointer[Owner[g]] = g

-----------------------------------------------------------------------------
(* Safety when the game API also stops at once.                            *)

(***************************************************************************)
(* Nobody is paid by both: a cashed-out round gets no admin credit and a   *)
(* credited round no cashout, even if a reset dies and another takes over. *)
(***************************************************************************)
NoDoublePayout ==
    \A g \in Games : cashout[g] > 0 => ledger[g] = <<>>

(***************************************************************************)
(* The credit is what a cashout would pay at that very moment.             *)
(***************************************************************************)
FairRefund ==
    [][\A g \in Games :
          ledger'[g] # ledger[g]
              => /\ blob[g].status = "ACTIVE"
                 /\ Head(ledger'[g]) = Payout[blob[g].reveals]]_vars

(***************************************************************************)
(* "Forces every in-progress Mines round closed": when a reset sets the    *)
(* game ACTIVE again, no pointer and no round in play is left.             *)
(***************************************************************************)
ResetClosesEveryRound ==
    [][\A r \in Resets : FinishReset(r)
          => /\ \A u \in Users : pointer[u] = NoGame
             /\ \A g \in Games : blob[g].status # "ACTIVE"]_vars

(***************************************************************************)
(* The profit written for a credited round is the credit less the stake,   *)
(* also when one reset credits and another, after a crash, cancels.        *)
(***************************************************************************)
ProfitMatchesCredit ==
    \A g \in Games :
        history[g].status = "CANCELLED" /\ ledger[g] # <<>>
            => history[g].profit = Head(ledger[g]) - Stake

-----------------------------------------------------------------------------

(***************************************************************************)
(* A reset ends unless a reset is cut off, and then every round it listed  *)
(* is no longer PLAYING and no history page hides a refund.                *)
(***************************************************************************)
ResetEnds ==
    \A r \in Resets :
        phase[r] = "scan" ~>
            \/ \E other \in Resets : phase[other] = "aborted"
            \/ /\ phase[r] = "done"
               /\ \A g \in Games : row[r][g].at = "done"
                     => /\ history[g].status # "PLAYING"
                        /\ ledger[g] # <<>> => Owner[g] \notin stale

=============================================================================
