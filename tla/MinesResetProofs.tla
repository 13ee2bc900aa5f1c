--------------------------- MODULE MinesResetProofs --------------------------
(***************************************************************************)
(* Proofs about MinesReset for any players, rounds, admins and resets, any *)
(* set of faults and any concurrency.                                      *)
(***************************************************************************)
EXTENDS MinesReset, TLAPS

USE DEF modeVars, redisVars, dbVars, resetVars, apiVars

-----------------------------------------------------------------------------
(* Type correctness, one lemma per group of actions.                       *)

\* The mode register of MinesMode keeps its type under every admin request.
LEMMA ModeStepType ==
    ASSUME ModeTypeOK, ModeNext
    PROVE  ModeTypeOK'
<1> SUFFICES ASSUME NEW a \in Admins, ModeStep(a) PROVE ModeTypeOK'
    BY DEF ModeNext
<1> USE DEF ModeTypeOK, Modes, Absent, Requests, NoRequest, Idle
<1>1. CASE Pause(a) BY <1>1 DEF Pause
<1>2. CASE Resume(a) BY <1>2 DEF Resume
<1>3. ASSUME NEW kind \in {"disable", "toggle"}, ReadMode(a, kind)
      PROVE  ModeTypeOK'
  <2>1. PICK read \in ReadOutcomes :
            request' = [request EXCEPT
               ![a] = [kind |-> kind, seen |-> Remembered(kind, read.mode),
                       answered |-> read.answered]]
        BY <1>3 DEF ReadMode
  <2>2. read.mode \in Modes /\ read.answered \in BOOLEAN
    <3>1. CurrentMode \in Modes BY DEF CurrentMode
    <3>2. \/ read.mode = CurrentMode /\ read.answered = TRUE
          \/ read.mode = "ACTIVE" /\ read.answered = FALSE
          BY DEF ReadOutcomes
    <3> QED BY <3>1, <3>2
  <2>3. stored' = stored BY <1>3 DEF ReadMode
  <2>4. [kind |-> kind, seen |-> Remembered(kind, read.mode),
         answered |-> read.answered] \in Requests
        BY <2>2 DEF Remembered
  <2> QED BY <2>1, <2>3, <2>4
<1>4. CASE DisableWrite(a) BY <1>4 DEF DisableWrite
<1>5. CASE ToggleWrite(a) BY <1>5 DEF ToggleWrite
<1>6. CASE WriteFails(a) BY <1>6 DEF WriteFails
<1> QED BY <1>1, <1>2, <1>3, <1>4, <1>5, <1>6 DEF ModeStep

\* One entry of the row table, replaced by a well-typed one.
LEMMA RowUpdate ==
    ASSUME row \in [Resets -> [Games -> Rows]],
           NEW r \in Resets, NEW g \in Games, NEW x \in Rows
    PROVE  [row EXCEPT ![r][g] = x] \in [Resets -> [Games -> Rows]]
OBVIOUS

\* Moving a row on keeps the table well typed.
LEMMA GotoType ==
    ASSUME TypeOK, NEW r \in Resets, NEW g \in Games, NEW step \in RowSteps,
           Goto(r, g, step)
    PROVE  row' \in [Resets -> [Games -> Rows]]
<1> DEFINE x == [NoRow EXCEPT !.at = step,
                              !.snap = IF step \in {"bump", "done"} THEN NoBlob
                                       ELSE row[r][g].snap]
<1>1. NoBlob \in Blobs
      BY MinesResetAssumptions DEF NoBlob, Blobs
<1>2. row[r][g].snap \in Blobs
      BY DEF TypeOK, Rows
<1>3. x \in Rows
      BY <1>1, <1>2 DEF NoRow, Rows
<1>4. row' = [row EXCEPT ![r][g] = x]
      BY DEF Goto
<1> QED BY <1>3, <1>4, RowUpdate DEF TypeOK

\* What the game API is doing for a user stays an operation.
LEMMA ServeType ==
    ASSUME op \in [Users -> Ops], NEW u \in Users,
           NEW kind \in {"none", "start", "reveal", "cashout", "rows", "keys"},
           NEW g \in Games \cup {NoGame}, Serve(u, kind, g)
    PROVE  op' \in [Users -> Ops]
BY DEF Serve, Ops

\* A blob or a history row replaced by a well-typed one.
LEMMA BlobUpdate ==
    ASSUME blob \in [Games -> Blobs], NEW g \in Games, NEW x \in Blobs
    PROVE  [blob EXCEPT ![g] = x] \in [Games -> Blobs]
OBVIOUS

\* A blob with another number of open tiles is a blob.
LEMMA BlobReveals ==
    ASSUME NEW b \in Blobs, NEW n \in 0..MaxReveals
    PROVE  [b EXCEPT !.reveals = n] \in Blobs
BY DEF Blobs

HistoryRows == [status : RowStatuses, profit : Int]

\* A history row replaced by a well-typed one.
LEMMA HistoryUpdate ==
    ASSUME history \in [Games -> HistoryRows],
           NEW g \in Games, NEW x \in HistoryRows
    PROVE  [history EXCEPT ![g] = x] \in [Games -> HistoryRows]
OBVIOUS

\* The game API's own steps.
LEMMA GameApiType ==
    ASSUME TypeOK, GameApi
    PROVE  TypeOK'
<1> USE DEF TypeOK, ModeTypeOK
<1>0. NoBlob \in Blobs BY MinesResetAssumptions DEF NoBlob, Blobs
<1>1. ASSUME NEW u \in Users, NEW kind \in {"start", "reveal", "cashout"},
             Admit(u, kind)
      PROVE  TypeOK'
      BY <1>1, ServeType DEF Admit
<1>2. ASSUME NEW u \in Users, NEW g \in Games, StartGame(u, g)
      PROVE  TypeOK'
  <2>1. op' \in [Users -> Ops] BY <1>2, ServeType DEF StartGame
  <2>2. [status |-> "ACTIVE", reveals |-> 0] \in Blobs
        BY MinesResetAssumptions DEF Blobs
  <2>3. blob' \in [Games -> Blobs] BY <1>2, <2>2, BlobUpdate DEF StartGame
  <2>4. history' \in [Games -> HistoryRows]
    <3>1. history[g] \in HistoryRows BY DEF HistoryRows
    <3>2. [history[g] EXCEPT !.status = "PLAYING"] \in HistoryRows
          BY <3>1 DEF HistoryRows, RowStatuses
    <3>3. history' = [history EXCEPT
                        ![g] = [history[g] EXCEPT !.status = "PLAYING"]]
          BY <1>2 DEF StartGame
    <3> QED BY <3>2, <3>3, HistoryUpdate DEF HistoryRows
  <2>5. bets' \in [Games -> RowStatuses] BY <1>2 DEF StartGame, RowStatuses
  <2>6. pointer' \in [Users -> Games \cup {NoGame}] BY <1>2 DEF StartGame
  <2> QED BY <1>2, <2>1, <2>3, <2>4, <2>5, <2>6 DEF StartGame, HistoryRows
<1>3. ASSUME NEW u \in Users, Reveal(u)
      PROVE  TypeOK'
  <2> DEFINE g == op[u].game
  <2>1. g \in Games BY <1>3 DEF Reveal, InPlay, Ops
  <2>2. blob[g] \in Blobs BY <2>1
  <2>3. [blob[g] EXCEPT !.reveals = blob[g].reveals + 1] \in Blobs
    <3>1. blob[g].reveals < MaxReveals BY <1>3 DEF Reveal
    <3>2. blob[g].reveals \in 0..MaxReveals BY <2>2 DEF Blobs
    <3>3. blob[g].reveals + 1 \in 0..MaxReveals
      <4>1. MaxReveals \in Nat BY MinesResetAssumptions
      <4> DEFINE opened == blob[g].reveals
      <4>2. opened < MaxReveals /\ opened \in 0..MaxReveals BY <3>1, <3>2
      <4> HIDE DEF opened
      <4>3. opened + 1 \in 0..MaxReveals BY <4>1, <4>2
      <4> QED BY <4>3 DEF opened
    <3> QED BY <2>2, <3>3, BlobReveals
  <2>4. blob' = [blob EXCEPT ![g] = [blob[g] EXCEPT
                                       !.reveals = blob[g].reveals + 1]]
        BY <1>3 DEF Reveal
  <2>5. blob' \in [Games -> Blobs] BY <2>1, <2>3, <2>4, BlobUpdate
  <2>6. op' \in [Users -> Ops] BY <1>3, ServeType DEF Reveal
  <2>7. UNCHANGED <<modeVars, pointer, idem, ledger, dbVars, stale, resetVars,
                    cashout>>
        BY <1>3 DEF Reveal
  <2> QED BY <2>5, <2>6, <2>7
<1>4. ASSUME NEW u \in Users, NEW kind \in {"reveal", "cashout"},
             Settle(u, kind)
      PROVE  TypeOK'
  <2> DEFINE g == op[u].game
  <2>1. g \in Games BY <1>4 DEF Settle, InPlay, Ops
  <2>2. blob[g] \in Blobs BY <2>1
  <2>3. [blob[g] EXCEPT !.status = "ENDED"] \in Blobs BY <2>2 DEF Blobs
  <2>4. blob' = [blob EXCEPT ![g] = [blob[g] EXCEPT !.status = "ENDED"]]
        BY <1>4 DEF Settle
  <2>5. blob' \in [Games -> Blobs] BY <2>1, <2>3, <2>4, BlobUpdate
  <2>6. Payout[blob[g].reveals] \in Nat
        BY <2>2, MinesResetAssumptions DEF Blobs
  <2>7. cashout' \in [Games -> Nat] BY <1>4, <2>1, <2>6 DEF Settle
  <2>8. op' \in [Users -> Ops] BY <1>4, <2>1, ServeType DEF Settle
  <2> QED BY <1>4, <2>5, <2>7, <2>8 DEF Settle
<1>5. ASSUME NEW u \in Users, FinishRows(u)
      PROVE  TypeOK'
  <2> DEFINE g == op[u].game
  <2>1. g \in Games \cup {NoGame} BY DEF Ops
  <2>2. op' \in [Users -> Ops] BY <1>5, <2>1, ServeType DEF FinishRows
  <2>3. history' \in [Games -> HistoryRows]
    <3>1. g \in Games => cashout[g] - Stake \in Int
      <4>1. Payout[0] \in Nat BY MinesResetAssumptions
      <4>2. g \in Games => cashout[g] \in Nat OBVIOUS
      <4> HIDE DEF g
      <4> QED BY <4>1, <4>2 DEF Stake
    <3>2. g \in Games => [status |-> "FINISHED", profit |-> cashout[g] - Stake]
                            \in HistoryRows
          BY <3>1 DEF HistoryRows, RowStatuses
    <3> QED BY <1>5, <3>2 DEF FinishRows, HistoryRows
  <2>4. bets' \in [Games -> RowStatuses] BY <1>5 DEF FinishRows, RowStatuses
  <2> QED BY <1>5, <2>2, <2>3, <2>4 DEF FinishRows, HistoryRows
<1>6. ASSUME NEW u \in Users, DropKeys(u)
      PROVE  TypeOK'
  <2>1. op' \in [Users -> Ops] BY <1>6, ServeType DEF DropKeys
  <2>2. blob' \in [Games -> Blobs] BY <1>0, <1>6 DEF DropKeys
  <2>3. pointer' \in [Users -> Games \cup {NoGame}] BY <1>6 DEF DropKeys
  <2> QED BY <1>6, <2>1, <2>2, <2>3 DEF DropKeys
<1>7. ASSUME NEW u \in Users, Drop(u)
      PROVE  TypeOK'
      BY <1>7, ServeType DEF Drop
<1>8. ASSUME NEW g \in Games, BlobExpires(g)
      PROVE  TypeOK'
  <2>1. blob' \in [Games -> Blobs] BY <1>0, <1>8 DEF BlobExpires
  <2> QED BY <1>8, <2>1 DEF BlobExpires
<1> QED BY <1>1, <1>2, <1>3, <1>4, <1>5, <1>6, <1>7, <1>8 DEF GameApi

\* The credit is a natural number appended to a ledger of such.
LEMMA ApplyCreditType ==
    ASSUME TypeOK, NEW r \in Resets, NEW g \in Games,
           ApplyCredit(g, GrossCredit(row[r][g].snap))
    PROVE  /\ ledger' \in [Games -> Seq(Nat)]
           /\ idem' \in SUBSET Games
<1>1. GrossCredit(row[r][g].snap) \in Nat
      BY MinesResetAssumptions DEF TypeOK, Rows, Blobs, GrossCredit
<1>2. <<GrossCredit(row[r][g].snap)>> \o ledger[g] \in Seq(Nat)
      BY <1>1 DEF TypeOK
<1> QED BY <1>2 DEF TypeOK, ApplyCredit

\* A reset's work on one round.
LEMMA RowStepType ==
    ASSUME TypeOK, NEW r \in Resets, NEW g \in Games, RowStep(r, g)
    PROVE  TypeOK'
<1> USE DEF TypeOK, ModeTypeOK
<1>0. row[r][g] \in Rows OBVIOUS
<1>1. CASE LoadBlob(r, g)
  <2>1. row' = [row EXCEPT ![r][g] = [row[r][g] EXCEPT !.at = "queued",
                                                       !.snap = blob[g]]]
        BY <1>1 DEF LoadBlob
  <2>2. [row[r][g] EXCEPT !.at = "queued", !.snap = blob[g]] \in Rows
        BY <1>0 DEF Rows, RowSteps
  <2>3. row' \in [Resets -> [Games -> Rows]] BY <2>1, <2>2, RowUpdate
  <2> QED BY <1>1, <2>3 DEF LoadBlob
<1>2. CASE Refund(r, g)
      BY <1>2, ApplyCreditType, GotoType DEF Refund, RowSteps
<1>3. CASE RefundError(r, g)
  <2>1. row' \in [Resets -> [Games -> Rows]]
        BY <1>3, GotoType DEF RefundError, RowSteps
  <2>2. ledger' \in [Games -> Seq(Nat)] /\ idem' \in SUBSET Games
        BY <1>3, ApplyCreditType DEF RefundError
  <2> QED BY <1>3, <2>1, <2>2 DEF RefundError
<1>4. CASE SkipCredit(r, g) BY <1>4, GotoType DEF SkipCredit, RowSteps
<1>5. CASE ReadPointer(r, g)
  <2> DEFINE b == pointer[Owner[g]] = g
  <2>1. row' = [row EXCEPT ![r][g] = [row[r][g] EXCEPT !.at = "delete",
                                                       !.mine = b]]
        BY <1>5 DEF ReadPointer
  <2>2. [row[r][g] EXCEPT !.at = "delete", !.mine = b] \in Rows
        BY <1>0 DEF Rows, RowSteps
  <2>3. row' \in [Resets -> [Games -> Rows]] BY <2>1, <2>2, RowUpdate
  <2> QED BY <1>5, <2>3 DEF ReadPointer
<1>6. CASE DeleteKeys(r, g)
  <2>1. row' \in [Resets -> [Games -> Rows]]
        BY <1>6, GotoType DEF DeleteKeys, RowSteps
  <2>2. pointer' \in [Users -> Games \cup {NoGame}]
        BY <1>6 DEF DeleteKeys
  <2>3. blob' \in [Games -> Blobs]
        BY <1>6, MinesResetAssumptions DEF DeleteKeys, NoBlob, Blobs
  <2> QED BY <1>6, <2>1, <2>2, <2>3 DEF DeleteKeys
<1>7. CASE CleanupFails(r, g)
  <2>1. row' \in [Resets -> [Games -> Rows]]
        BY <1>7, GotoType DEF CleanupFails, RowSteps
  <2>2. pointer' \in [Users -> Games \cup {NoGame}]
        BY <1>7 DEF CleanupFails
  <2> QED BY <1>7, <2>1, <2>2 DEF CleanupFails
<1>8. CASE ReadRow(r, g)
  <2> DEFINE b == StillPlaying(g)
  <2>1. row' = [row EXCEPT ![r][g] = [row[r][g] EXCEPT !.at = "cancel",
                                                       !.playing = b]]
        BY <1>8 DEF ReadRow
  <2>2. [row[r][g] EXCEPT !.at = "cancel", !.playing = b] \in Rows
        BY <1>0 DEF Rows, RowSteps, StillPlaying
  <2>3. row' \in [Resets -> [Games -> Rows]] BY <2>1, <2>2, RowUpdate
  <2> QED BY <1>8, <2>3 DEF ReadRow
<1>9. CASE CancelRow(r, g)
  <2>1. row' \in [Resets -> [Games -> Rows]]
        BY <1>9, GotoType DEF CancelRow, AfterCancel, RowSteps
  <2>2. RecordedProfit(row[r][g].snap) \in Int
        BY MinesResetAssumptions
        DEF RecordedProfit, NetProfit, GrossCredit, Stake, Rows, Blobs
  <2>3. history' \in [Games -> [status : RowStatuses, profit : Int]]
        BY <1>9, <2>2 DEF CancelRow, RowStatuses
  <2>4. bets' \in [Games -> RowStatuses]
        BY <1>9 DEF CancelRow, RowStatuses
  <2>5. stale' \in SUBSET Users
        BY <1>9, MinesResetAssumptions DEF CancelRow
  <2> QED BY <1>9, <2>1, <2>3, <2>4, <2>5 DEF CancelRow
<1>10. CASE CancelFails(r, g)
      BY <1>10, GotoType DEF CancelFails, AfterCancel, RowSteps
<1>11. CASE BumpHistoryCache(r, g)
  <2>1. row' \in [Resets -> [Games -> Rows]]
        BY <1>11, GotoType DEF BumpHistoryCache, RowSteps
  <2> QED BY <1>11, <2>1 DEF BumpHistoryCache
<1> QED BY <1>1, <1>2, <1>3, <1>4, <1>5, <1>6, <1>7, <1>8, <1>9, <1>10, <1>11
        DEF RowStep

\* The steps of a reset as a whole.
LEMMA ResetStepType ==
    ASSUME TypeOK, NEW r \in Resets, ResetStep(r) \/ AbortReset(r)
    PROVE  TypeOK'
<1> USE DEF TypeOK, ModeTypeOK, Modes
<1>1. CASE BeginReset(r) BY <1>1 DEF BeginReset, ModeAtBegin
<1>2. ASSUME NEW u \in Users, ScanPointer(r, u)
      PROVE  TypeOK'
  <2>1. row' \in [Resets -> [Games -> Rows]]
    <3>1. CASE pointer[u] = NoGame BY <1>2, <3>1 DEF ScanPointer
    <3>2. CASE pointer[u] # NoGame
      <4> DEFINE g == pointer[u]
      <4>1. g \in Games BY <3>2
      <4>2. row[r][g] \in Rows BY <4>1
      <4>. HIDE DEF g
      <4>5. [row[r][g] EXCEPT !.at = "load"] \in Rows
            BY <4>2 DEF Rows, RowSteps
      <4>3. row' = [row EXCEPT ![r][g] = [row[r][g] EXCEPT !.at = "load"]]
            BY <1>2, <3>2 DEF ScanPointer, g
      <4> QED BY <4>1, <4>3, <4>5, RowUpdate
    <3> QED BY <3>1, <3>2
  <2> QED BY <1>2, <2>1 DEF ScanPointer
<1>3. CASE StartPool(r) BY <1>3 DEF StartPool
<1>4. ASSUME NEW g \in Games, RowStep(r, g)
      PROVE  TypeOK'
      BY <1>4, RowStepType
<1>5. CASE FinishReset(r) BY <1>5 DEF FinishReset
<1>6. CASE AbortReset(r)
  <2>1. NoRow \in Rows
        BY MinesResetAssumptions DEF NoRow, NoBlob, Rows, RowSteps, Blobs
  <2> QED BY <1>6, <2>1 DEF AbortReset
<1> QED BY <1>1, <1>2, <1>3, <1>4, <1>5, <1>6 DEF ResetStep

\* The initial state is well typed.
LEMMA InitType == Init => TypeOK
<1>1. NoBlob \in Blobs
      BY MinesResetAssumptions DEF NoBlob, Blobs
<1>2. NoRow \in Rows BY <1>1 DEF NoRow, Rows, RowSteps
<1> QED BY <1>1, <1>2 DEF Init, TypeOK, ModeTypeOK, Modes, Absent, Requests,
           NoRequest, RowStatuses, Ops, NoOp

\* Every step, and every step that changes nothing, keeps the types.
LEMMA NextType == TypeOK /\ [Next]_vars => TypeOK'
<1> SUFFICES ASSUME TypeOK, [Next]_vars PROVE TypeOK'
    OBVIOUS
<1>1. CASE GameApi BY <1>1, GameApiType
<1>2. ASSUME NEW r \in Resets, ResetStep(r) \/ AbortReset(r)
      PROVE  TypeOK'
      BY <1>2, ResetStepType
<1>3. CASE ModeRequest
  <2>1. ModeTypeOK' BY <1>3, ModeStepType DEF ModeRequest, TypeOK
  <2> QED BY <1>3, <2>1 DEF ModeRequest, TypeOK
<1>4. CASE UNCHANGED vars BY <1>4 DEF vars, TypeOK, ModeTypeOK
<1> QED BY <1>1, <1>2, <1>3, <1>4 DEF Next

(***************************************************************************)
(* The keys, rows and requests of the reset stay within their types.       *)
(***************************************************************************)
THEOREM TypeCorrect == Spec => []TypeOK
<1> QED BY InitType, NextType, PTL DEF Spec

-----------------------------------------------------------------------------
(* At most one admin credit per round.                                     *)

\* The only step that touches the ledger or the idempotency keys is the Lua
\* script, and a reset runs it for a round worth something.
LEMMA LedgerSteps ==
    ASSUME TypeOK, [Next]_vars
    PROVE  \/ UNCHANGED <<ledger, idem>>
           \/ \E g \in Games, amount \in Positive : ApplyCredit(g, amount)
<1>1. CASE GameApi
      BY <1>1 DEF GameApi, Admit, StartGame, Reveal, Settle, FinishRows,
                  DropKeys, Drop, BlobExpires
<1>2. ASSUME NEW r \in Resets, ResetStep(r) \/ AbortReset(r)
      PROVE  \/ UNCHANGED <<ledger, idem>>
             \/ \E g \in Games, amount \in Positive : ApplyCredit(g, amount)
  <2>1. ASSUME NEW g \in Games, Refund(r, g) \/ RefundError(r, g)
        PROVE  \/ UNCHANGED <<ledger, idem>>
               \/ \E amount \in Positive : ApplyCredit(g, amount)
    <3>1. row[r][g].snap \in Blobs BY DEF TypeOK, Rows
    <3>2. Creditable(row[r][g].snap) BY <2>1 DEF Refund, RefundError
    <3>3. GrossCredit(row[r][g].snap) \in Positive
          BY <3>1, <3>2, MinesResetAssumptions
          DEF Blobs, Creditable, GrossCredit, Positive
    <3> QED BY <2>1, <3>3 DEF Refund, RefundError
  <2>2. ASSUME NEW g \in Games, RowStep(r, g)
        PROVE  \/ UNCHANGED <<ledger, idem>>
               \/ \E amount \in Positive : ApplyCredit(g, amount)
        BY <2>1, <2>2
        DEF RowStep, LoadBlob, SkipCredit, ReadPointer, DeleteKeys,
            CleanupFails, ReadRow, CancelRow, CancelFails, BumpHistoryCache
  <2> QED BY <1>2, <2>2
          DEF ResetStep, BeginReset, ScanPointer, StartPool, FinishReset,
              AbortReset
<1>3. CASE ModeRequest BY <1>3 DEF ModeRequest
<1>4. CASE UNCHANGED vars BY <1>4 DEF vars
<1> QED BY <1>1, <1>2, <1>3, <1>4 DEF Next

\* What the script does to one round, given that key and ledger agree.
LEMMA ApplyCreditEffect ==
    ASSUME TypeOK, CreditAtMostOnce, NEW g \in Games, NEW amount \in Nat,
           ApplyCredit(g, amount)
    PROVE  \/ UNCHANGED <<ledger, idem>>
           \/ /\ ledger[g] = <<>>
              /\ ledger' = [ledger EXCEPT ![g] = <<amount>>]
              /\ idem' = idem \cup {g}
<1>1. CASE g \in idem BY <1>1 DEF ApplyCredit, AlreadyRefunded
<1>2. CASE g \notin idem
  <2>1. ledger[g] = <<>> BY <1>2 DEF CreditAtMostOnce
  <2>2. <<amount>> \o ledger[g] = <<amount>> BY <2>1
  <2> QED BY <1>2, <2>1, <2>2 DEF ApplyCredit, AlreadyRefunded
<1> QED BY <1>1, <1>2

\* No round starts with a credit or an idempotency key.
LEMMA CreditInit == Init => CreditAtMostOnce
BY DEF Init, CreditAtMostOnce

\* No step of the reset, the game API or an admin adds a second credit.
LEMMA CreditStep ==
    ASSUME TypeOK, CreditAtMostOnce, [Next]_vars
    PROVE  CreditAtMostOnce'
<1>1. CASE UNCHANGED <<ledger, idem>> BY <1>1 DEF CreditAtMostOnce
<1>2. ASSUME NEW g \in Games, NEW amount \in Positive, ApplyCredit(g, amount)
      PROVE  CreditAtMostOnce'
  <2>1. amount \in Nat BY MinesResetAssumptions DEF Positive
  <2>2. CASE UNCHANGED <<ledger, idem>> BY <2>2 DEF CreditAtMostOnce
  <2>3. CASE /\ ledger' = [ledger EXCEPT ![g] = <<amount>>]
             /\ idem' = idem \cup {g}
    <3> SUFFICES ASSUME NEW h \in Games
                 PROVE  /\ Len(ledger'[h]) <= 1
                        /\ h \in idem' <=> ledger'[h] # <<>>
        BY DEF CreditAtMostOnce
    <3>1. CASE h = g
      <4>1. ledger'[h] = <<amount>> BY <2>3, <3>1 DEF TypeOK
      <4>2. Len(<<amount>>) = 1 /\ <<amount>> # <<>> OBVIOUS
      <4>3. Len(ledger'[h]) <= 1 /\ ledger'[h] # <<>> BY <4>1, <4>2
      <4>4. h \in idem' BY <2>3, <3>1
      <4> QED BY <4>3, <4>4
    <3>2. CASE h # g
      <4>1. ledger'[h] = ledger[h] BY <2>3, <3>2 DEF TypeOK
      <4> QED BY <2>3, <3>2, <4>1 DEF CreditAtMostOnce
    <3> QED BY <3>1, <3>2
  <2> QED BY <1>2, <2>1, <2>2, <2>3, ApplyCreditEffect
<1> QED BY <1>1, <1>2, LedgerSteps

(***************************************************************************)
(* No round is credited twice, and the idempotency key is there exactly    *)
(* when the credit is: for any number of concurrent, repeated and          *)
(* interrupted resets, lost replies included.                              *)
(***************************************************************************)
THEOREM CreditsAreSafe == Spec => []CreditAtMostOnce
<1>1. Init => CreditAtMostOnce BY CreditInit
<1>2. TypeOK /\ CreditAtMostOnce /\ [Next]_vars => CreditAtMostOnce'
      BY CreditStep
<1> QED BY <1>1, <1>2, TypeCorrect, PTL DEF Spec

-----------------------------------------------------------------------------
(* The reset implements RefundOnce.                                        *)

RefundMap == [g \in Games |-> Refunded(g)]

\* The initial ledgers map to the initial state of RefundOnce.
LEMMA RefundInit == Init => RefundSpec!Init
BY DEF Init, RefundSpec!Init, Refunded

\* A step of the reset is a refund that RefundOnce allows, or no refund.
LEMMA RefundStep ==
    ASSUME TypeOK, CreditAtMostOnce, [Next]_vars
    PROVE  RefundSpec!Next \/ RefundMap' = RefundMap
<1>1. CASE UNCHANGED <<ledger, idem>> BY <1>1 DEF RefundMap, Refunded
<1>2. ASSUME NEW g \in Games, NEW amount \in Positive, ApplyCredit(g, amount)
      PROVE  RefundSpec!Next \/ RefundMap' = RefundMap
  <2>1. amount \in Nat BY MinesResetAssumptions DEF Positive
  <2>2. CASE UNCHANGED <<ledger, idem>> BY <2>2 DEF RefundMap, Refunded
  <2>3. CASE /\ ledger[g] = <<>>
             /\ ledger' = [ledger EXCEPT ![g] = <<amount>>]
    <3>1. RefundMap[g] = 0 BY <2>3 DEF RefundMap, Refunded
    <3>2. ASSUME NEW h \in Games
          PROVE  Refunded(h)' = IF h = g THEN amount ELSE Refunded(h)
      <4>1. CASE h = g
        <5>1. ledger'[h] = <<amount>> BY <2>3, <4>1 DEF TypeOK
        <5>2. Head(<<amount>>) = amount /\ <<amount>> # <<>> OBVIOUS
        <5> QED BY <4>1, <5>1, <5>2 DEF Refunded
      <4>2. CASE h # g
        <5>1. ledger'[h] = ledger[h] BY <2>3, <4>2 DEF TypeOK
        <5> QED BY <4>2, <5>1 DEF Refunded
      <4> QED BY <4>1, <4>2
    <3>3. RefundMap' = [RefundMap EXCEPT ![g] = amount]
          BY <3>2 DEF RefundMap
    <3>4. RefundSpec!RefundRound(g, amount)
          BY <3>1, <3>3 DEF RefundSpec!RefundRound, RefundMap
    <3> QED BY <3>4 DEF RefundSpec!Next
  <2> QED BY <1>2, <2>1, <2>2, <2>3, ApplyCreditEffect
<1> QED BY <1>1, <1>2, LedgerSteps

(***************************************************************************)
(* Every behaviour of resets, admins and game API, seen through the admin  *)
(* credits alone, is one of RefundOnce.                                    *)
(***************************************************************************)
THEOREM ResetImplementsRefundOnce == Spec => ImplementsRefundOnce
<1>1. Init => RefundSpec!Init BY RefundInit
<1>2. TypeOK /\ CreditAtMostOnce /\ [Next]_vars
        => [RefundSpec!Next]_RefundMap
      BY RefundStep
<1> QED BY <1>1, <1>2, TypeCorrect, CreditsAreSafe, PTL
        DEF Spec, ImplementsRefundOnce, RefundSpec!Spec, RefundMap

-----------------------------------------------------------------------------
(* What a step does to the row table.                                      *)

OtherRowsKept(r, g) ==
    \A s \in Resets, h \in Games : s # r \/ h # g => row'[s][h] = row[s][h]

\* One entry replaced.
LEMMA RowWritten ==
    ASSUME row \in [Resets -> [Games -> Rows]],
           NEW r \in Resets, NEW g \in Games, NEW x,
           row' = [row EXCEPT ![r][g] = x]
    PROVE  row'[r][g] = x /\ OtherRowsKept(r, g)
BY DEF OtherRowsKept

\* Moving on forgets the answers, and in the end the blob.
LEMMA GotoEffect ==
    ASSUME TypeOK, NEW r \in Resets, NEW g \in Games, NEW step \in RowSteps,
           Goto(r, g, step)
    PROVE  /\ OtherRowsKept(r, g)
           /\ row'[r][g].at = step
           /\ step \notin {"bump", "done"} => row'[r][g].snap = row[r][g].snap
           /\ row'[r][g].mine = FALSE /\ row'[r][g].playing = FALSE
<1> DEFINE x == [NoRow EXCEPT !.at = step,
                              !.snap = IF step \in {"bump", "done"} THEN NoBlob
                                       ELSE row[r][g].snap]
<1>1. row' = [row EXCEPT ![r][g] = x] BY DEF Goto
<1>2. row'[r][g] = x /\ OtherRowsKept(r, g)
  <2> HIDE DEF x
  <2> QED BY <1>1, RowWritten DEF TypeOK
<1>3. /\ x.at = step
      /\ x.mine = FALSE /\ x.playing = FALSE
      /\ step \notin {"bump", "done"} => x.snap = row[r][g].snap
      BY DEF NoRow
<1> QED BY <1>2, <1>3

\* Loading the blob.
LEMMA LoadEffect ==
    ASSUME TypeOK, NEW r \in Resets, NEW g \in Games, LoadBlob(r, g)
    PROVE  /\ OtherRowsKept(r, g)
           /\ row'[r][g].at = "queued" /\ row'[r][g].snap = blob[g]
<1> DEFINE x == [row[r][g] EXCEPT !.at = "queued", !.snap = blob[g]]
<1>1. row' = [row EXCEPT ![r][g] = x] BY DEF LoadBlob
<1>2. row'[r][g] = x /\ OtherRowsKept(r, g)
  <2> HIDE DEF x
  <2> QED BY <1>1, RowWritten DEF TypeOK
<1> QED BY <1>2 DEF TypeOK, Rows

\* Reading the pointer.
LEMMA ReadPointerEffect ==
    ASSUME TypeOK, NEW r \in Resets, NEW g \in Games, ReadPointer(r, g)
    PROVE  /\ OtherRowsKept(r, g)
           /\ row'[r][g].at = "delete" /\ row'[r][g].snap = row[r][g].snap
           /\ row'[r][g].mine <=> pointer[Owner[g]] = g
<1> DEFINE b == pointer[Owner[g]] = g
           x == [row[r][g] EXCEPT !.at = "delete", !.mine = b]
<1>1. row' = [row EXCEPT ![r][g] = x] BY DEF ReadPointer
<1>2. row'[r][g] = x /\ OtherRowsKept(r, g)
  <2> HIDE DEF x
  <2> QED BY <1>1, RowWritten DEF TypeOK
<1>3. x.at = "delete" /\ x.snap = row[r][g].snap /\ x.mine = b
      BY DEF TypeOK, Rows
<1> QED BY <1>2, <1>3

\* Reading the history row.
LEMMA ReadRowEffect ==
    ASSUME TypeOK, NEW r \in Resets, NEW g \in Games, ReadRow(r, g)
    PROVE  /\ OtherRowsKept(r, g)
           /\ row'[r][g].at = "cancel" /\ row'[r][g].snap = row[r][g].snap
           /\ row'[r][g].playing <=> history[g].status = "PLAYING"
<1> DEFINE b == StillPlaying(g)
           x == [row[r][g] EXCEPT !.at = "cancel", !.playing = b]
<1>1. row' = [row EXCEPT ![r][g] = x] BY DEF ReadRow
<1>2. row'[r][g] = x /\ OtherRowsKept(r, g)
  <2> HIDE DEF x
  <2> QED BY <1>1, RowWritten DEF TypeOK
<1>3. x.at = "cancel" /\ x.snap = row[r][g].snap /\ x.playing = b
      BY DEF TypeOK, Rows
<1> QED BY <1>2, <1>3 DEF StillPlaying

\* Listing the round of a pointer.
LEMMA ScanEffect ==
    ASSUME TypeOK, NEW r \in Resets, NEW u \in Users, ScanPointer(r, u)
    PROVE  \/ pointer[u] = NoGame /\ row' = row
           \/ /\ pointer[u] \in Games
              /\ OtherRowsKept(r, pointer[u])
              /\ row'[r][pointer[u]].at = "load"
<1>1. CASE pointer[u] = NoGame BY <1>1 DEF ScanPointer
<1>2. CASE pointer[u] # NoGame
  <2> DEFINE g == pointer[u]
             x == [row[r][g] EXCEPT !.at = "load"]
  <2>1. g \in Games BY <1>2 DEF TypeOK
  <2>2. row' = [row EXCEPT ![r][g] = x] BY <1>2 DEF ScanPointer
  <2>3. row'[r][g] = x /\ OtherRowsKept(r, g)
    <3> HIDE DEF x, g
    <3> QED BY <2>1, <2>2, RowWritten DEF TypeOK
  <2>4. x.at = "load" BY <2>1 DEF TypeOK, Rows
  <2> QED BY <2>1, <2>3, <2>4
<1> QED BY <1>1, <1>2

\* A reset that is cut off forgets its rounds.
LEMMA AbortEffect ==
    ASSUME TypeOK, NEW r \in Resets, AbortReset(r)
    PROVE  /\ \A h \in Games : row'[r][h].at = "none"
           /\ \A s \in Resets, h \in Games : s # r => row'[s][h] = row[s][h]
BY DEF AbortReset, TypeOK, NoRow

-----------------------------------------------------------------------------
(* The two history tables, whatever fails.                                 *)

\* Both tables are written together; a round that can be listed has rows; and
\* what a transaction found to be no longer in play does not come back.
BetsMatchRows ==
    \A g \in Games : /\ bets[g] = "PLAYING" <=> history[g].status = "PLAYING"
                     /\ bets[g] = "CANCELLED" => history[g].status = "CANCELLED"
PointersHaveRows ==
    \A u \in Users : pointer[u] # NoGame => history[pointer[u]].status # "none"
ListedHaveRows ==
    \A r \in Resets, g \in Games :
        /\ row[r][g].at # "none" => history[g].status # "none"
        /\ row[r][g].at = "cancel" /\ ~row[r][g].playing
             => history[g].status # "PLAYING"
RowsAgree == BetsMatchRows /\ PointersHaveRows /\ ListedHaveRows

\* How the two rows of a round can change.
HistoryMoves(g) ==
    \/ history'[g] = history[g] /\ bets'[g] = bets[g]
    \/ /\ history[g].status = "none"
       /\ history'[g].status = "PLAYING" /\ bets'[g] = "PLAYING"
       /\ \E u \in Users : StartGame(u, g)
    \/ /\ history[g].status = "PLAYING"
       /\ history'[g].status = "FINISHED" /\ bets'[g] = "FINISHED"
       /\ \E u \in Users : FinishRows(u) /\ op[u].game = g
    \/ /\ history[g].status # "none"
       /\ history'[g].status = "CANCELLED"
       /\ bets'[g] = IF bets[g] = "PLAYING" THEN "CANCELLED" ELSE bets[g]
       /\ \E r \in Resets :
             /\ CancelRow(r, g)
             /\ history'[g].profit = RecordedProfit(row[r][g].snap)

\* Every step changes the rows of a round in one of these ways.
LEMMA HistoryStep ==
    ASSUME TypeOK, RowsAgree, [Next]_vars, NEW g \in Games
    PROVE  HistoryMoves(g)
<1> USE DEF HistoryMoves
<1>0. CASE UNCHANGED dbVars BY <1>0
<1>1. ASSUME NEW u \in Users, NEW h \in Games, StartGame(u, h)
      PROVE  HistoryMoves(g)
  <2>1. /\ history[h].status = "none"
        /\ history' = [history EXCEPT ![h].status = "PLAYING"]
        /\ bets' = [bets EXCEPT ![h] = "PLAYING"]
        BY <1>1 DEF StartGame
  <2> QED BY <1>1, <2>1 DEF TypeOK
<1>2. ASSUME NEW u \in Users, FinishRows(u)
      PROVE  HistoryMoves(g)
  <2>1. CASE g = op[u].game /\ history[g].status = "PLAYING"
    <3>1. bets[g] = "PLAYING" BY <2>1 DEF RowsAgree, BetsMatchRows
    <3>2. history'[g].status = "FINISHED" /\ bets'[g] = "FINISHED"
          BY <1>2, <2>1, <3>1 DEF FinishRows, TypeOK
    <3> QED BY <1>2, <2>1, <3>2
  <2>2. CASE ~(g = op[u].game /\ history[g].status = "PLAYING")
    <3>1. g = op[u].game => bets[g] # "PLAYING"
          BY <2>2 DEF RowsAgree, BetsMatchRows
    <3>2. history'[g] = history[g] /\ bets'[g] = bets[g]
          BY <1>2, <2>2, <3>1 DEF FinishRows, TypeOK
    <3> QED BY <3>2
  <2> QED BY <2>1, <2>2
<1>3. ASSUME NEW r \in Resets, NEW h \in Games, CancelRow(r, h)
      PROVE  HistoryMoves(g)
  <2>1. CASE g = h /\ row[r][h].playing
    <3>1. history[g].status # "none"
          BY <1>3, <2>1 DEF CancelRow, RowsAgree, ListedHaveRows
    <3>2. /\ history'[g] = [status |-> "CANCELLED",
                            profit |-> RecordedProfit(row[r][h].snap)]
          /\ bets'[g] = IF bets[g] = "PLAYING" THEN "CANCELLED" ELSE bets[g]
          BY <1>3, <2>1 DEF CancelRow, TypeOK
    <3> QED BY <1>3, <2>1, <3>1, <3>2
  <2>2. CASE ~(g = h /\ row[r][h].playing)
    <3>1. g = h => bets[g] # "PLAYING"
          BY <1>3, <2>2
          DEF CancelRow, RowsAgree, BetsMatchRows, ListedHaveRows
    <3>2. history'[g] = history[g] /\ bets'[g] = bets[g]
          BY <1>3, <2>2, <3>1 DEF CancelRow, TypeOK
    <3> QED BY <3>2
  <2> QED BY <2>1, <2>2
<1>4. CASE GameApi
      BY <1>0, <1>1, <1>2, <1>4
      DEF GameApi, Admit, Reveal, Settle, DropKeys, Drop, BlobExpires
<1>5. ASSUME NEW r \in Resets, ResetStep(r) \/ AbortReset(r)
      PROVE  HistoryMoves(g)
      BY <1>0, <1>3, <1>5
      DEF ResetStep, BeginReset, ScanPointer, StartPool, FinishReset,
          AbortReset, RowStep, LoadBlob, Refund, RefundError, SkipCredit,
          ReadPointer, DeleteKeys, CleanupFails, ReadRow, CancelFails,
          BumpHistoryCache
<1> QED BY <1>0, <1>4, <1>5 DEF Next, ModeRequest, vars

\* The bet rows stay in line with the history rows.
LEMMA BetsStep ==
    ASSUME TypeOK, RowsAgree, [Next]_vars
    PROVE  BetsMatchRows'
BY HistoryStep DEF HistoryMoves, BetsMatchRows, RowsAgree

\* A round that has rows keeps them.
LEMMA RowsStay ==
    ASSUME TypeOK, RowsAgree, [Next]_vars, NEW g \in Games,
           history[g].status # "none"
    PROVE  history'[g].status # "none"
BY HistoryStep DEF HistoryMoves

\* A pointer is kept, is deleted, or gets to a round that has just started.
LEMMA PointerStep ==
    ASSUME TypeOK, [Next]_vars, NEW u \in Users
    PROVE  \/ pointer'[u] \in {pointer[u], NoGame}
           \/ \E g \in Games : StartGame(u, g) /\ pointer'[u] = g
<1> USE DEF TypeOK
<1>0. CASE UNCHANGED pointer BY <1>0
<1>1. ASSUME NEW v \in Users, NEW g \in Games, StartGame(v, g)
      PROVE  \/ pointer'[u] \in {pointer[u], NoGame}
             \/ StartGame(u, g) /\ pointer'[u] = g
  <2>1. pointer' = [pointer EXCEPT ![v] = g] BY <1>1 DEF StartGame
  <2> QED BY <1>1, <2>1
<1>2. ASSUME NEW v \in Users, DropKeys(v)
      PROVE  pointer'[u] \in {pointer[u], NoGame}
      BY <1>2 DEF DropKeys
<1>3. ASSUME NEW r \in Resets, NEW g \in Games,
             DeleteKeys(r, g) \/ CleanupFails(r, g)
      PROVE  pointer'[u] \in {pointer[u], NoGame}
      BY <1>3, MinesResetAssumptions DEF DeleteKeys, CleanupFails
<1>4. CASE GameApi
      BY <1>0, <1>1, <1>2, <1>4
      DEF GameApi, Admit, Reveal, Settle, FinishRows, Drop, BlobExpires
<1>5. ASSUME NEW r \in Resets, ResetStep(r) \/ AbortReset(r)
      PROVE  pointer'[u] \in {pointer[u], NoGame}
      BY <1>0, <1>3, <1>5
      DEF ResetStep, BeginReset, ScanPointer, StartPool, FinishReset,
          AbortReset, RowStep, LoadBlob, Refund, RefundError, SkipCredit,
          ReadPointer, ReadRow, CancelRow, CancelFails, BumpHistoryCache
<1> QED BY <1>0, <1>4, <1>5 DEF Next, ModeRequest, vars

\* A pointer leads to a round that has its rows.
LEMMA PointersStep ==
    ASSUME TypeOK, RowsAgree, [Next]_vars
    PROVE  PointersHaveRows'
<1> SUFFICES ASSUME NEW u \in Users, pointer'[u] # NoGame
             PROVE  history'[pointer'[u]].status # "none"
    BY DEF PointersHaveRows
<1>1. CASE pointer'[u] = pointer[u]
  <2>1. pointer[u] \in Games /\ history[pointer[u]].status # "none"
        BY <1>1 DEF TypeOK, RowsAgree, PointersHaveRows
  <2> QED BY <1>1, <2>1, RowsStay
<1>2. ASSUME NEW g \in Games, StartGame(u, g), pointer'[u] = g
      PROVE  history'[pointer'[u]].status # "none"
      BY <1>2 DEF StartGame, TypeOK
<1> QED BY <1>1, <1>2, PointerStep

\* How a reset's row of a round can change, and at which step of which action.
RowMoves(r, g) ==
    \/ row'[r][g] = row[r][g]
    \/ row'[r][g].at = "none" /\ AbortReset(r)
    \/ /\ row'[r][g].at = "load"
       /\ \E u \in Users : ScanPointer(r, u) /\ pointer[u] = g
    \/ /\ row[r][g].at = "load" /\ row'[r][g].at = "queued"
       /\ row'[r][g].snap = blob[g]
       /\ LoadBlob(r, g)
    \/ /\ row[r][g].at = "queued" /\ row'[r][g].at = "pointer"
       /\ row'[r][g].snap = row[r][g].snap
       /\ Refund(r, g) \/ SkipCredit(r, g)
    \/ /\ row[r][g].at = "pointer" /\ row'[r][g].at = "delete"
       /\ row'[r][g].snap = row[r][g].snap
       /\ row'[r][g].mine <=> pointer[Owner[g]] = g
       /\ ReadPointer(r, g)
    \/ /\ row[r][g].at \in {"pointer", "delete"} /\ row'[r][g].at = "row"
       /\ row'[r][g].snap = row[r][g].snap
       /\ DeleteKeys(r, g) \/ CleanupFails(r, g)
    \/ /\ row[r][g].at = "row" /\ row'[r][g].at = "cancel"
       /\ row'[r][g].snap = row[r][g].snap
       /\ row'[r][g].playing <=> history[g].status = "PLAYING"
       /\ ReadRow(r, g)
    \/ /\ row[r][g].at = "queued" /\ row'[r][g].at = "done"
       /\ RefundError(r, g)
    \/ /\ row[r][g].at \in {"row", "cancel", "bump"}
       /\ row'[r][g].at \in {"bump", "done"}
       /\ CancelRow(r, g) \/ CancelFails(r, g) \/ BumpHistoryCache(r, g)

\* Every step changes a reset's row in one of these ways.
LEMMA RowsStep ==
    ASSUME TypeOK, [Next]_vars, NEW r \in Resets, NEW g \in Games
    PROVE  RowMoves(r, g)
<1>0. CASE UNCHANGED row BY <1>0 DEF RowMoves
<1>1. ASSUME NEW s \in Resets, NEW u \in Users, ScanPointer(s, u)
      PROVE  RowMoves(r, g)
      BY <1>1, ScanEffect DEF RowMoves, OtherRowsKept
<1>2. ASSUME NEW s \in Resets, AbortReset(s)
      PROVE  RowMoves(r, g)
      BY <1>2, AbortEffect DEF RowMoves
<1>3. ASSUME NEW s \in Resets, NEW h \in Games, RowStep(s, h)
      PROVE  RowMoves(r, g)
  <2>0. CASE s # r \/ h # g
    <3>1. OtherRowsKept(s, h) => row'[r][g] = row[r][g]
          BY <2>0 DEF OtherRowsKept
    <3>2. ASSUME NEW step \in RowSteps, Goto(s, h, step)
          PROVE  OtherRowsKept(s, h)
          BY <3>2, GotoEffect
    <3>3. OtherRowsKept(s, h)
          BY <1>3, <3>2, LoadEffect, ReadPointerEffect, ReadRowEffect
          DEF RowStep, Refund, RefundError, SkipCredit, DeleteKeys,
              CleanupFails, CancelRow, CancelFails, BumpHistoryCache,
              AfterCancel, RowSteps
    <3> QED BY <3>1, <3>3 DEF RowMoves
  <2>1. CASE s = r /\ h = g
    <3> DEFINE From(steps) == row[r][g].at \in steps
               To(steps) == row'[r][g].at \in steps
               SnapKept == row'[r][g].snap = row[r][g].snap
    <3>1. CASE LoadBlob(r, g)
      <4>1. From({"load"}) BY <3>1 DEF LoadBlob
      <4> QED BY <3>1, <4>1, LoadEffect DEF RowMoves
    <3>2. CASE Refund(r, g) \/ SkipCredit(r, g)
      <4>1. From({"queued"}) /\ Goto(r, g, "pointer")
            BY <3>2 DEF Refund, SkipCredit, CanTake
      <4>2. To({"pointer"}) /\ SnapKept BY <4>1, GotoEffect DEF RowSteps
      <4> QED BY <3>2, <4>1, <4>2 DEF RowMoves
    <3>3. CASE RefundError(r, g)
      <4>1. From({"queued"}) /\ Goto(r, g, "done")
            BY <3>3 DEF RefundError, CanTake
      <4>2. To({"done"}) BY <4>1, GotoEffect DEF RowSteps
      <4> QED BY <3>3, <4>1, <4>2 DEF RowMoves
    <3>4. CASE ReadPointer(r, g)
      <4>1. From({"pointer"}) BY <3>4 DEF ReadPointer
      <4> QED BY <3>4, <4>1, ReadPointerEffect DEF RowMoves
    <3>5. CASE DeleteKeys(r, g) \/ CleanupFails(r, g)
      <4>1. From({"pointer", "delete"}) /\ Goto(r, g, "row")
            BY <3>5 DEF DeleteKeys, CleanupFails
      <4>2. To({"row"}) /\ SnapKept BY <4>1, GotoEffect DEF RowSteps
      <4> QED BY <3>5, <4>1, <4>2 DEF RowMoves
    <3>6. CASE ReadRow(r, g)
      <4>1. From({"row"}) BY <3>6 DEF ReadRow
      <4> QED BY <3>6, <4>1, ReadRowEffect DEF RowMoves
    <3>7. CASE CancelRow(r, g) \/ CancelFails(r, g) \/ BumpHistoryCache(r, g)
      <4>1. /\ From({"row", "cancel", "bump"})
            /\ Goto(r, g, "bump") \/ Goto(r, g, "done")
            BY <3>7 DEF CancelRow, CancelFails, BumpHistoryCache, AfterCancel
      <4>2. To({"bump", "done"}) BY <4>1, GotoEffect DEF RowSteps
      <4> QED BY <3>7, <4>1, <4>2 DEF RowMoves
    <3> QED BY <1>3, <2>1, <3>1, <3>2, <3>3, <3>4, <3>5, <3>6, <3>7
            DEF RowStep
  <2> QED BY <2>0, <2>1
<1>4. ASSUME NEW s \in Resets, ResetStep(s) \/ AbortReset(s)
      PROVE  RowMoves(r, g)
      BY <1>0, <1>1, <1>2, <1>3, <1>4
      DEF ResetStep, BeginReset, StartPool, FinishReset
<1>5. CASE GameApi
      BY <1>0, <1>5
      DEF GameApi, Admit, StartGame, Reveal, Settle, FinishRows, DropKeys,
          Drop, BlobExpires
<1> QED BY <1>0, <1>4, <1>5 DEF Next, ModeRequest, vars

\* A reset lists only rounds that have rows, and what it has read of them lasts.
LEMMA ListedStep ==
    ASSUME TypeOK, RowsAgree, [Next]_vars
    PROVE  ListedHaveRows'
<1> SUFFICES ASSUME NEW r \in Resets, NEW g \in Games
             PROVE  /\ row'[r][g].at # "none" => history'[g].status # "none"
                    /\ row'[r][g].at = "cancel" /\ ~row'[r][g].playing
                        => history'[g].status # "PLAYING"
    BY DEF ListedHaveRows
<1>1. row[r][g].at # "none" => history'[g].status # "none"
      BY RowsStay DEF RowsAgree, ListedHaveRows
<1>2. history[g].status \notin {"none", "PLAYING"}
        => history'[g].status # "PLAYING"
      BY HistoryStep DEF HistoryMoves
<1>3. CASE row'[r][g] = row[r][g]
      BY <1>1, <1>2, <1>3 DEF RowsAgree, ListedHaveRows
<1>4. ASSUME NEW u \in Users, pointer[u] = g, row'[r][g].at = "load"
      PROVE  history'[g].status # "none"
      BY <1>4, RowsStay, MinesResetAssumptions DEF RowsAgree, PointersHaveRows
<1>5. CASE /\ row[r][g].at = "row" /\ ReadRow(r, g)
           /\ row'[r][g].playing <=> history[g].status = "PLAYING"
  <2>1. history' = history BY <1>5 DEF ReadRow
  <2> QED BY <1>1, <1>5, <2>1
<1> QED BY <1>1, <1>3, <1>4, <1>5, RowsStep DEF RowMoves

\* No round has rows at first.
LEMMA RowsAgreeInit == Init => RowsAgree
BY DEF Init, RowsAgree, BetsMatchRows, PointersHaveRows, ListedHaveRows, NoRow

(***************************************************************************)
(* The two history tables and the readers of them agree in every state,    *)
(* whatever fails: the inductive invariant behind the theorems below.      *)
(***************************************************************************)
THEOREM RowsAlwaysAgree == Spec => []RowsAgree
<1>1. TypeOK /\ RowsAgree /\ [Next]_vars => RowsAgree'
      BY BetsStep, PointersStep, ListedStep DEF RowsAgree
<1> QED BY RowsAgreeInit, <1>1, TypeCorrect, PTL DEF Spec

(***************************************************************************)
(* However many resets cancel a round, die or are answered too late, and   *)
(* whatever the game API does meanwhile, the bet rows are cancelled only   *)
(* with the history row.                                                   *)
(***************************************************************************)
THEOREM CancelledTogether == Spec => []BetsCancelledWithHistory
<1>1. RowsAgree => BetsCancelledWithHistory
      BY DEF RowsAgree, BetsMatchRows, BetsCancelledWithHistory
<1> QED BY <1>1, RowsAlwaysAgree, PTL

-----------------------------------------------------------------------------
(* One reset at a time, and nobody else writes the mode.                   *)

\* No admin request on the mode, no reset beside another, no cleanup that fails
\* half way.  A reset may still die, and the other faults may happen.
OneResetAtATime == Admins = {} /\ SerialResets /\ "redis" \notin Faults

\* The reset that runs is the only one and the game is paused.
PausedWhileRunning ==
    \A r \in Resets : Running(r) =>
        /\ stored = "PAUSED"
        /\ \A s \in Resets : Running(s) => s = r

\* A reset that does not run has nothing in hand.
NothingLeft ==
    \A r \in Resets, g \in Games :
        row[r][g].at \notin {"none", "done"} => Running(r)

\* A player with a round has no other one about to start.
OneRound ==
    \A u \in Users :
        pointer[u] # NoGame => Owner[pointer[u]] = u /\ op[u].kind # "start"

\* A pointer that a reset has found to be a round's is that round's or gone, and
\* no start can put another one there before the reset deletes it.
MineStays ==
    \A r \in Resets, g \in Games :
        row[r][g].at = "delete" /\ row[r][g].mine =>
            pointer[Owner[g]] \in {g, NoGame} /\ op[Owner[g]].kind # "start"

SerialInv ==
    /\ PausedWhileRunning
    /\ NothingLeft
    /\ OneRound
    /\ MineStays
    /\ NoStrandedRound

\* At first no reset runs and no round is in play.
LEMMA SerialInit == Init => SerialInv
BY MinesResetAssumptions
DEF Init, SerialInv, PausedWhileRunning, NothingLeft, OneRound, MineStays,
    NoStrandedRound, Running, NoRow, NoBlob

\* The game API admits no start while a reset runs.
LEMMA SerialApi ==
    ASSUME TypeOK, SerialInv, GameApi
    PROVE  SerialInv'
<1> USE MinesResetAssumptions
    DEF TypeOK, SerialInv, PausedWhileRunning, NothingLeft, OneRound,
        MineStays, NoStrandedRound, Running
<1>1. ASSUME NEW u \in Users, NEW kind \in {"start", "reveal", "cashout"},
             Admit(u, kind)
      PROVE  SerialInv'
      BY <1>1 DEF Admit, Serve, CurrentMode, Absent
<1>2. ASSUME NEW u \in Users, NEW g \in Games, StartGame(u, g)
      PROVE  SerialInv'
      BY <1>2 DEF StartGame, Serve, Serving
<1>3. ASSUME NEW u \in Users, Reveal(u)
      PROVE  SerialInv'
      BY <1>3 DEF Reveal, Serve, InPlay, Blobs
<1>4. ASSUME NEW u \in Users, NEW kind \in {"reveal", "cashout"},
             Settle(u, kind)
      PROVE  SerialInv'
      BY <1>4 DEF Settle, Serve, InPlay, Blobs
<1>5. ASSUME NEW u \in Users, FinishRows(u)
      PROVE  SerialInv'
      BY <1>5 DEF FinishRows, Serve
<1>6. ASSUME NEW u \in Users, DropKeys(u)
      PROVE  SerialInv'
      BY <1>6 DEF DropKeys, Serve, NoBlob
<1>7. ASSUME NEW u \in Users, Drop(u)
      PROVE  SerialInv'
      BY <1>7 DEF Drop, Serve
<1>8. ASSUME NEW g \in Games, BlobExpires(g)
      PROVE  SerialInv'
      BY <1>8 DEF BlobExpires, NoBlob
<1> QED BY <1>1, <1>2, <1>3, <1>4, <1>5, <1>6, <1>7, <1>8 DEF GameApi

\* Work on a round's row alone, in which the pointer is found to be the round's
\* only if it is.
LEMMA SerialKept ==
    ASSUME TypeOK, SerialInv, UNCHANGED <<stored, phase, pointer, blob, op>>,
           NEW r \in Resets, NEW g \in Games, Running(r), OtherRowsKept(r, g),
           row'[r][g].at = "delete" /\ row'[r][g].mine => pointer[Owner[g]] = g
    PROVE  SerialInv'
<1>1. PausedWhileRunning' /\ OneRound' /\ NoStrandedRound'
      BY DEF SerialInv, PausedWhileRunning, OneRound, NoStrandedRound, Running
<1>2. NothingLeft'
      BY DEF SerialInv, NothingLeft, Running, OtherRowsKept
<1>3. MineStays'
  <2> SUFFICES ASSUME NEW s \in Resets, NEW h \in Games,
                      row'[s][h].at = "delete", row'[s][h].mine
               PROVE  pointer[Owner[h]] \in {h, NoGame} /\ op[Owner[h]].kind # "start"
      BY DEF MineStays
  <2>1. Owner[h] \in Users BY MinesResetAssumptions
  <2>2. CASE s # r \/ h # g BY <2>2 DEF SerialInv, MineStays, OtherRowsKept
  <2>3. CASE s = r /\ h = g
        BY <2>1, <2>3, MinesResetAssumptions DEF SerialInv, OneRound
  <2> QED BY <2>2, <2>3
<1> QED BY <1>1, <1>2, <1>3 DEF SerialInv

\* A reset's work on one round.
LEMMA SerialRow ==
    ASSUME TypeOK, SerialInv, OneResetAtATime,
           NEW r \in Resets, NEW g \in Games, RowStep(r, g)
    PROVE  SerialInv'
<1>0. ASSUME NEW step \in RowSteps \ {"delete"}, Goto(r, g, step), Running(r),
             UNCHANGED <<stored, phase, pointer, blob, op>>
      PROVE  SerialInv'
      BY <1>0, GotoEffect, SerialKept
<1>1. CASE LoadBlob(r, g)
  <2>1. Running(r) /\ UNCHANGED <<stored, phase, pointer, blob, op>>
        BY <1>1 DEF LoadBlob, Running
  <2> QED BY <1>1, <2>1, LoadEffect, SerialKept
<1>2. CASE Refund(r, g) \/ RefundError(r, g) \/ SkipCredit(r, g)
      BY <1>0, <1>2 DEF Refund, RefundError, SkipCredit, CanTake, Running, RowSteps
<1>3. CASE ReadPointer(r, g)
  <2>1. Running(r) /\ UNCHANGED <<stored, phase, pointer, blob, op>>
        BY <1>3 DEF ReadPointer
  <2> QED BY <1>3, <2>1, ReadPointerEffect, SerialKept
<1>4. CASE DeleteKeys(r, g)
  <2>1. OtherRowsKept(r, g) /\ row'[r][g].at = "row"
        BY <1>4, GotoEffect DEF DeleteKeys, RowSteps
  <2>2. UNCHANGED <<stored, phase, op>> /\ Running(r) BY <1>4 DEF DeleteKeys
  <2>3. PausedWhileRunning'
        BY <2>2 DEF SerialInv, PausedWhileRunning, Running
  <2>4. NothingLeft'
        BY <2>1, <2>2 DEF SerialInv, NothingLeft, Running, OtherRowsKept
  <2>5. \A u \in Users : pointer'[u] \in {pointer[u], NoGame}
        BY <1>4, MinesResetAssumptions DEF DeleteKeys, TypeOK
  <2>6. OneRound' BY <2>2, <2>5 DEF SerialInv, OneRound
  <2>7. MineStays'
        BY <2>1, <2>2, <2>5, MinesResetAssumptions
        DEF SerialInv, MineStays, OtherRowsKept
  <2>8. NoStrandedRound'
        BY <1>4, MinesResetAssumptions
        DEF DeleteKeys, DeletesPointer, SerialInv, NoStrandedRound, MineStays,
            TypeOK, NoBlob
  <2> QED BY <2>3, <2>4, <2>6, <2>7, <2>8 DEF SerialInv
<1>5. CASE CleanupFails(r, g)
      BY <1>5 DEF CleanupFails, OneResetAtATime
<1>6. CASE ReadRow(r, g)
  <2>1. Running(r) /\ UNCHANGED <<stored, phase, pointer, blob, op>>
        BY <1>6 DEF ReadRow
  <2> QED BY <1>6, <2>1, ReadRowEffect, SerialKept
<1>7. CASE CancelRow(r, g) \/ CancelFails(r, g) \/ BumpHistoryCache(r, g)
      BY <1>0, <1>7
      DEF CancelRow, CancelFails, BumpHistoryCache, AfterCancel, RowSteps
<1> QED BY <1>1, <1>2, <1>3, <1>4, <1>5, <1>6, <1>7 DEF RowStep

\* The steps of a reset as a whole.
LEMMA SerialReset ==
    ASSUME TypeOK, SerialInv, OneResetAtATime, NEW r \in Resets,
           ResetStep(r) \/ AbortReset(r)
    PROVE  SerialInv'
<1> USE DEF SerialInv
<1>1. CASE BeginReset(r)
  <2>1. UNCHANGED <<row, pointer, op, blob>> /\ stored' = "PAUSED"
        /\ phase' = [phase EXCEPT ![r] = "scan"]
        /\ \A s \in Resets : ~Running(s)
        BY <1>1 DEF BeginReset, ModeAtBegin, OneResetAtATime
  <2>2. PausedWhileRunning' /\ NothingLeft'
        BY <2>1 DEF PausedWhileRunning, NothingLeft, Running, TypeOK
  <2> QED BY <2>1, <2>2 DEF OneRound, MineStays, NoStrandedRound
<1>2. ASSUME NEW u \in Users, ScanPointer(r, u)
      PROVE  SerialInv'
  <2>1. Running(r) /\ UNCHANGED <<stored, phase, pointer, op, blob>>
        BY <1>2 DEF ScanPointer, Running
  <2>2. CASE row' = row
        BY <2>1, <2>2
        DEF PausedWhileRunning, NothingLeft, OneRound, MineStays,
            NoStrandedRound, Running
  <2> QED BY <1>2, <2>1, <2>2, ScanEffect, SerialKept
<1>3. CASE StartPool(r)
  <2>1. UNCHANGED <<row, pointer, op, blob, stored>> /\ phase[r] = "scan"
        /\ phase' = [phase EXCEPT ![r] = "process"]
        BY <1>3 DEF StartPool
  <2>2. \A s \in Resets : Running(s)' <=> Running(s)
        BY <2>1 DEF Running, TypeOK
  <2> QED BY <2>1, <2>2
          DEF PausedWhileRunning, NothingLeft, OneRound, MineStays,
              NoStrandedRound
<1>4. ASSUME NEW g \in Games, RowStep(r, g)
      PROVE  SerialInv'
      BY <1>4, SerialRow
<1>5. CASE FinishReset(r)
  <2>1. UNCHANGED <<row, pointer, op, blob>> /\ Running(r)
        /\ phase' = [phase EXCEPT ![r] = "done"]
        BY <1>5 DEF FinishReset, Running
  <2>2. \A s \in Resets : ~Running(s)'
        BY <2>1 DEF PausedWhileRunning, Running, TypeOK
  <2>3. NothingLeft'
        BY <1>5, <2>1 DEF NothingLeft, FinishReset, AllProcessed, Running, TypeOK,
          PausedWhileRunning
  <2> QED BY <2>1, <2>2, <2>3
          DEF PausedWhileRunning, OneRound, MineStays, NoStrandedRound
<1>6. CASE AbortReset(r)
  <2>1. UNCHANGED <<stored, pointer, op, blob>> /\ Running(r)
        /\ phase' = [phase EXCEPT ![r] = "aborted"]
        BY <1>6 DEF AbortReset
  <2>2. PausedWhileRunning'
        BY <2>1 DEF PausedWhileRunning, Running, TypeOK
  <2>3. NothingLeft'
        BY <1>6, <2>1, AbortEffect DEF NothingLeft, Running, TypeOK
  <2>4. MineStays'
        BY <1>6, <2>1, AbortEffect DEF MineStays
  <2> QED BY <2>1, <2>2, <2>3, <2>4 DEF OneRound, NoStrandedRound
<1> QED BY <1>1, <1>2, <1>3, <1>4, <1>5, <1>6 DEF ResetStep

\* Every step.
LEMMA SerialStep ==
    ASSUME TypeOK, SerialInv, OneResetAtATime, [Next]_vars
    PROVE  SerialInv'
<1>1. CASE GameApi BY <1>1, SerialApi
<1>2. ASSUME NEW r \in Resets, ResetStep(r) \/ AbortReset(r)
      PROVE  SerialInv'
      BY <1>2, SerialReset
<1>3. CASE ModeRequest BY <1>3 DEF ModeRequest, ModeNext, OneResetAtATime
<1>4. CASE UNCHANGED vars
      BY <1>4
      DEF vars, SerialInv, PausedWhileRunning, NothingLeft, OneRound,
          MineStays, NoStrandedRound, Running
<1> QED BY <1>1, <1>2, <1>3, <1>4 DEF Next

(***************************************************************************)
(* One reset at a time: the game stays paused while it runs, and what it   *)
(* has read of a pointer still holds when it acts on it.                   *)
(***************************************************************************)
THEOREM SerialInvariant == ASSUME OneResetAtATime PROVE Spec => []SerialInv
<1>1. TypeOK /\ SerialInv /\ [Next]_vars => SerialInv'
      BY SerialStep
<1> QED BY SerialInit, <1>1, TypeCorrect, PTL DEF Spec

(***************************************************************************)
(* With one reset at a time every round in play is found through its       *)
(* player's pointer, although the pointer was compared in one round trip   *)
(* and deleted in another, and although resets die.                        *)
(***************************************************************************)
THEOREM RoundsAreFound ==
    ASSUME OneResetAtATime
    PROVE  Spec => []NoStrandedRound
<1>1. SerialInv => NoStrandedRound BY DEF SerialInv
<1> QED BY <1>1, SerialInvariant, PTL

(***************************************************************************)
(* With one reset at a time the cleanup deletes nobody else's pointer.     *)
(***************************************************************************)
THEOREM PointersAreOwn ==
    ASSUME OneResetAtATime
    PROVE  Spec => NoForeignPointerDeleted
<1>1. ASSUME SerialInv, NEW r \in Resets, NEW g \in Games, DeleteKeys(r, g)
      PROVE  pointer[Owner[g]] \in {g, NoGame} \/ pointer' = pointer
      BY <1>1 DEF DeleteKeys, DeletesPointer, SerialInv, MineStays
<1>2. SerialInv => [\A r \in Resets, g \in Games :
                       DeleteKeys(r, g) => pointer[Owner[g]] \in {g, NoGame}
                                           \/ pointer' = pointer]_vars
      BY <1>1
<1> QED BY <1>2, SerialInvariant, PTL DEF Spec, NoForeignPointerDeleted

-----------------------------------------------------------------------------
(* The game API also stops at once.                                        *)

\* Of a reset only a Postgres transaction fails, or the whole process.
StopsAtOnce ==
    OneResetAtATime /\ StrictPause /\ Faults \subseteq {"crash", "db"}

\* A round is in play before anybody is paid for it, and what is being ended is
\* no longer in play.
LifeOfRound ==
    /\ \A g \in Games :
          /\ blob[g].status = "ACTIVE"
               => history[g].status = "PLAYING" /\ cashout[g] = 0
          /\ history[g].status = "none" => ledger[g] = <<>> /\ cashout[g] = 0
    /\ \A u \in Users : op[u].kind \in {"rows", "keys"} =>
          /\ op[u].game \in Games
          /\ blob[op[u].game].status # "ACTIVE"
          /\ history[op[u].game].status # "none"

\* Until a reset deletes a blob, what it has loaded of a round in play is true.
SnapIsTrue ==
    \A r \in Resets, g \in Games :
        /\ row[r][g].at \in {"queued", "pointer", "delete"}
        /\ "ACTIVE" \in {row[r][g].snap.status, blob[g].status}
        => row[r][g].snap = blob[g]

\* No pointer is forgotten by the reset that runs.
NoneMissed ==
    \A r \in Resets, u \in Users : Running(r) /\ pointer[u] # NoGame =>
        \/ u \in toScan[r]
        \/ row[r][pointer[u]].at \in {"load", "queued", "pointer"}
        \/ row[r][pointer[u]].at = "delete" /\ row[r][pointer[u]].mine
\* The pool starts when the scan is over.
ScanIsOver == \A r \in Resets : phase[r] = "process" => toScan[r] = {}

\* The ledger of a round that was credited with what its blob is worth.
Worth(b) == <<GrossCredit(b)>>

\* As long as a credited round can be listed, by this reset or, after a crash, by
\* the next one, it stays in play, at what it was credited for, and paused.
InHandOf(g) ==
    \/ pointer[Owner[g]] = g
    \/ \E r \in Resets : row[r][g].at \in {"load", "queued", "pointer", "delete"}
CreditedIsHeld ==
    \A g \in Games : ledger[g] # <<>> =>
        /\ blob[g].status = "ACTIVE" => stored = "PAUSED"
        /\ InHandOf(g) => Creditable(blob[g]) /\ ledger[g] = Worth(blob[g])

\* What a reset writes into the row is what the ledger says.
RowKnowsCredit ==
    \A r \in Resets, g \in Games :
        /\ row[r][g].at \in {"pointer", "delete", "row", "cancel"} =>
              ledger[g] = IF Creditable(row[r][g].snap)
                          THEN Worth(row[r][g].snap) ELSE <<>>
        /\ row[r][g].at \in {"row", "cancel"} => blob[g].status # "ACTIVE"
        /\ row[r][g].at = "delete" /\ ~row[r][g].mine => pointer[Owner[g]] # g

StrictInv ==
    /\ LifeOfRound
    /\ SnapIsTrue
    /\ NoneMissed
    /\ ScanIsOver
    /\ CreditedIsHeld
    /\ RowKnowsCredit
    /\ NoDoublePayout
    /\ ProfitMatchesCredit

\* All that is known when resets come one at a time and the pause is immediate.
Inv == TypeOK /\ CreditAtMostOnce /\ RowsAgree /\ SerialInv /\ StrictInv

\* At first nobody has been paid and nothing is in play.
LEMMA StrictInit == Init => StrictInv
BY MinesResetAssumptions
DEF Init, StrictInv, LifeOfRound, SnapIsTrue, NoneMissed, ScanIsOver,
    CreditedIsHeld, RowKnowsCredit, NoDoublePayout, ProfitMatchesCredit,
    Running, NoRow, NoBlob, NoOp

\* How a round's blob can change.
BlobMoves(g) ==
    \/ blob'[g] = blob[g]
    \/ \E u \in Users : StartGame(u, g) 
    \/ /\ blob[g].status = "ACTIVE" /\ stored # "PAUSED"
       /\ \E u \in Users :
             /\ op[u].game = g
             /\ \/ Reveal(u)
                \/ \E kind \in {"reveal", "cashout"} : Settle(u, kind)
    \/ blob'[g] = NoBlob /\ \E u \in Users : DropKeys(u) /\ op[u].game = g
    \/ blob'[g] = NoBlob /\ \E r \in Resets : DeleteKeys(r, g)

\* Every step changes a blob in one of these ways.
LEMMA BlobStep ==
    ASSUME TypeOK, StopsAtOnce, [Next]_vars, NEW g \in Games
    PROVE  BlobMoves(g)
<1> USE DEF BlobMoves
<1>0. CASE UNCHANGED blob BY <1>0
<1>1. ASSUME NEW u \in Users, NEW h \in Games, StartGame(u, h)
      PROVE  BlobMoves(g)
      BY <1>1 DEF StartGame, TypeOK
<1>2. ASSUME NEW u \in Users, Reveal(u)
      PROVE  BlobMoves(g)
  <2>1. \A h \in Games : h # op[u].game => blob'[h] = blob[h]
        BY <1>2 DEF Reveal, TypeOK
  <2>2. stored # "PAUSED" /\ blob[op[u].game].status = "ACTIVE"
        BY <1>2 DEF Reveal, Serving, InPlay, StopsAtOnce, CurrentMode, Absent
  <2> QED BY <1>2, <2>1, <2>2
<1>3. ASSUME NEW u \in Users, NEW kind \in {"reveal", "cashout"},
             Settle(u, kind)
      PROVE  BlobMoves(g)
  <2>1. \A h \in Games : h # op[u].game => blob'[h] = blob[h]
        BY <1>3 DEF Settle, TypeOK
  <2>2. stored # "PAUSED" /\ blob[op[u].game].status = "ACTIVE"
        BY <1>3 DEF Settle, Serving, InPlay, StopsAtOnce, CurrentMode, Absent
  <2> QED BY <1>3, <2>1, <2>2
<1>4. ASSUME NEW u \in Users, DropKeys(u)
      PROVE  BlobMoves(g)
      BY <1>4 DEF DropKeys, TypeOK
<1>5. ASSUME NEW r \in Resets, NEW h \in Games, DeleteKeys(r, h)
      PROVE  BlobMoves(g)
  <2>1. blob' = [blob EXCEPT ![h] = NoBlob] BY <1>5 DEF DeleteKeys
  <2> QED BY <1>5, <2>1 DEF TypeOK
<1>6. CASE GameApi
      BY <1>0, <1>1, <1>2, <1>3, <1>4, <1>6
      DEF GameApi, Admit, FinishRows, Drop, BlobExpires, StopsAtOnce
<1>7. ASSUME NEW r \in Resets, ResetStep(r) \/ AbortReset(r)
      PROVE  BlobMoves(g)
      BY <1>0, <1>5, <1>7
      DEF ResetStep, BeginReset, ScanPointer, StartPool, FinishReset,
          AbortReset, RowStep, LoadBlob, Refund, RefundError, SkipCredit,
          ReadPointer, CleanupFails, ReadRow, CancelRow, CancelFails,
          BumpHistoryCache
<1> QED BY <1>0, <1>6, <1>7 DEF Next, ModeRequest, vars

\* How the phase and the pointers to scan can change.
PhaseMoves(r) ==
    \/ phase'[r] = phase[r] /\ toScan'[r] = toScan[r]
    \/ BeginReset(r) /\ phase'[r] = "scan" /\ toScan'[r] = Users
    \/ /\ phase[r] = "scan" /\ phase'[r] = "scan"
       /\ \E u \in Users : ScanPointer(r, u) /\ toScan'[r] = toScan[r] \ {u}
    \/ /\ phase[r] = "scan" /\ phase'[r] = "process"
       /\ toScan[r] = {} /\ toScan'[r] = {}
    \/ phase'[r] \in {"done", "aborted"}

\* Every step changes them in one of these ways.
LEMMA PhaseStep ==
    ASSUME TypeOK, [Next]_vars, NEW r \in Resets
    PROVE  PhaseMoves(r)
<1> USE DEF PhaseMoves
<1>0. CASE UNCHANGED <<phase, toScan>> BY <1>0
<1>1. ASSUME NEW s \in Resets, BeginReset(s)
      PROVE  PhaseMoves(r)
      BY <1>1 DEF BeginReset, TypeOK
<1>2. ASSUME NEW s \in Resets, NEW u \in Users, ScanPointer(s, u)
      PROVE  PhaseMoves(r)
  <2>1. /\ phase' = phase /\ phase[s] = "scan"
        /\ toScan' = [toScan EXCEPT ![s] = toScan[s] \ {u}]
        BY <1>2 DEF ScanPointer
  <2>2. CASE s # r BY <2>1, <2>2 DEF TypeOK
  <2>3. CASE s = r
    <3>1. toScan'[r] = toScan[r] \ {u} BY <2>1, <2>3 DEF TypeOK
    <3> QED BY <1>2, <2>1, <2>3, <3>1
  <2> QED BY <2>2, <2>3
<1>3. ASSUME NEW s \in Resets, StartPool(s) \/ FinishReset(s) \/ AbortReset(s)
      PROVE  PhaseMoves(r)
      BY <1>3 DEF StartPool, FinishReset, AbortReset, TypeOK
<1>4. ASSUME NEW s \in Resets, NEW h \in Games, RowStep(s, h)
      PROVE  UNCHANGED <<phase, toScan>>
      BY <1>4
      DEF RowStep, LoadBlob, Refund, RefundError, SkipCredit, ReadPointer,
          DeleteKeys, CleanupFails, ReadRow, CancelRow, CancelFails,
          BumpHistoryCache
<1>5. CASE GameApi
      BY <1>0, <1>5
      DEF GameApi, Admit, StartGame, Reveal, Settle, FinishRows, DropKeys,
          Drop, BlobExpires
<1> QED BY <1>0, <1>1, <1>2, <1>3, <1>4, <1>5
        DEF Next, ResetStep, ModeRequest, vars

\* Only the end of a reset lifts its pause.
LEMMA StoredStep ==
    ASSUME OneResetAtATime, [Next]_vars
    PROVE  \/ stored' = stored
           \/ stored' = "PAUSED"
           \/ \E r \in Resets : FinishReset(r)
<1>1. ASSUME NEW s \in Resets, NEW h \in Games, RowStep(s, h)
      PROVE  UNCHANGED stored
      BY <1>1
      DEF RowStep, LoadBlob, Refund, RefundError, SkipCredit, ReadPointer,
          DeleteKeys, CleanupFails, ReadRow, CancelRow, CancelFails,
          BumpHistoryCache
<1>2. CASE GameApi
      BY <1>2
      DEF GameApi, Admit, StartGame, Reveal, Settle, FinishRows, DropKeys,
          Drop, BlobExpires
<1>3. CASE ModeRequest BY <1>3 DEF ModeRequest, ModeNext, OneResetAtATime
<1> QED BY <1>1, <1>2, <1>3
        DEF Next, ResetStep, BeginReset, ModeAtBegin, ScanPointer, StartPool,
            AbortReset, vars

\* How the ledger of a round can change.
LedgerMoves(g) ==
    \/ ledger'[g] = ledger[g]
    \/ /\ ledger[g] = <<>>
       /\ \E r \in Resets : Refund(r, g) /\ ledger'[g] = Worth(row[r][g].snap)

\* Every step changes a ledger in one of these ways.
LEMMA LedgerStep ==
    ASSUME TypeOK, CreditAtMostOnce, StopsAtOnce, [Next]_vars, NEW g \in Games
    PROVE  LedgerMoves(g)
<1> USE DEF LedgerMoves
<1>0. CASE UNCHANGED ledger BY <1>0
<1>1. ASSUME NEW r \in Resets, NEW h \in Games, Refund(r, h)
      PROVE  LedgerMoves(g)
  <2> DEFINE amount == GrossCredit(row[r][h].snap)
  <2>1. amount \in Nat
        BY MinesResetAssumptions DEF TypeOK, Rows, Blobs, GrossCredit
  <2>2. ApplyCredit(h, amount) BY <1>1 DEF Refund
  <2>3. \/ UNCHANGED ledger
        \/ ledger[h] = <<>> /\ ledger' = [ledger EXCEPT ![h] = <<amount>>]
        BY <2>1, <2>2, ApplyCreditEffect
  <2> HIDE DEF amount
  <2>4. CASE g # h BY <2>3, <2>4 DEF TypeOK
  <2>5. CASE g = h
        BY <1>1, <2>3, <2>5 DEF TypeOK, Worth, amount
  <2> QED BY <2>4, <2>5
<1>2. ASSUME NEW r \in Resets, NEW h \in Games, RowStep(r, h)
      PROVE  LedgerMoves(g)
      BY <1>0, <1>1, <1>2
      DEF RowStep, LoadBlob, RefundError, SkipCredit, ReadPointer, DeleteKeys,
          CleanupFails, ReadRow, CancelRow, CancelFails, BumpHistoryCache,
          StopsAtOnce
<1>3. CASE GameApi
      BY <1>0, <1>3
      DEF GameApi, Admit, StartGame, Reveal, Settle, FinishRows, DropKeys,
          Drop, BlobExpires
<1> QED BY <1>0, <1>2, <1>3
        DEF Next, ResetStep, BeginReset, ScanPointer, StartPool, FinishReset,
            AbortReset, ModeRequest, vars

\* How what the game API has paid for a round can change.
LEMMA CashoutStep ==
    ASSUME TypeOK, StopsAtOnce, [Next]_vars, NEW g \in Games
    PROVE  \/ cashout'[g] = cashout[g]
           \/ /\ blob[g].status = "ACTIVE" /\ blob'[g].status # "ACTIVE"
              /\ stored # "PAUSED" /\ UNCHANGED <<ledger, history>>
<1>1. ASSUME NEW u \in Users, NEW kind \in {"reveal", "cashout"},
             Settle(u, kind)
      PROVE  \/ cashout'[g] = cashout[g]
             \/ /\ blob[g].status = "ACTIVE" /\ blob'[g].status # "ACTIVE"
                /\ stored # "PAUSED" /\ UNCHANGED <<ledger, history>>
  <2>1. \A h \in Games : h # op[u].game => cashout'[h] = cashout[h]
        BY <1>1 DEF Settle, TypeOK
  <2>2. /\ stored # "PAUSED" /\ blob[op[u].game].status = "ACTIVE"
        /\ UNCHANGED <<ledger, history>>
        BY <1>1 DEF Settle, Serving, InPlay, StopsAtOnce, CurrentMode, Absent
  <2>3. g = op[u].game => blob'[g].status = "ENDED"
        BY <1>1 DEF Settle, TypeOK, Blobs
  <2> QED BY <2>1, <2>2, <2>3
<1>2. CASE GameApi
      BY <1>1, <1>2
      DEF GameApi, Admit, StartGame, Reveal, FinishRows, DropKeys, Drop,
          BlobExpires
<1>3. ASSUME NEW r \in Resets, NEW h \in Games, RowStep(r, h)
      PROVE  UNCHANGED cashout
      BY <1>3
      DEF RowStep, LoadBlob, Refund, RefundError, SkipCredit, ReadPointer,
          DeleteKeys, CleanupFails, ReadRow, CancelRow, CancelFails,
          BumpHistoryCache
<1> QED BY <1>2, <1>3
        DEF Next, ResetStep, BeginReset, ScanPointer, StartPool, FinishReset,
            AbortReset, ModeRequest, vars

\* While the game is paused no round starts, moves or ends.
LEMMA PausedIsStill ==
    ASSUME Inv, StopsAtOnce, [Next]_vars, stored = "PAUSED"
    PROVE  /\ \A u \in Users : pointer'[u] \in {pointer[u], NoGame}
           /\ \A g \in Games : /\ blob'[g] \in {blob[g], NoBlob}
                               /\ cashout'[g] = cashout[g]
<1>1. \A u \in Users, g \in Games : ~StartGame(u, g)
      BY DEF StartGame, Serving, StopsAtOnce, CurrentMode, Absent
<1> QED BY <1>1, PointerStep, BlobStep, CashoutStep DEF Inv, BlobMoves

\* A round in hand is in the hands of the one reset that runs.
LEMMA HeldIsPaused ==
    ASSUME Inv, NEW r \in Resets, NEW g \in Games,
           row[r][g].at \notin {"none", "done"}
    PROVE  Running(r) /\ stored = "PAUSED"
           /\ \A s \in Resets : s # r => row[s][g].at \in {"none", "done"}
BY DEF Inv, SerialInv, PausedWhileRunning, NothingLeft

\* A round that has its rows does not start again.
LEMMA StartsOnce ==
    ASSUME NEW g \in Games, history[g].status # "none"
    PROVE  \A u \in Users : ~StartGame(u, g)
BY DEF StartGame

\* So a round that a reset has listed does not start.
LEMMA ListedNotStarted ==
    ASSUME Inv, NEW r \in Resets, NEW g \in Games, row[r][g].at # "none"
    PROVE  \A u \in Users : ~StartGame(u, g)
BY StartsOnce DEF Inv, RowsAgree, ListedHaveRows

\* How the operation of a user can change.
LEMMA OpStep ==
    ASSUME TypeOK, [Next]_vars, NEW u \in Users
    PROVE  \/ op'[u] = op[u]
           \/ op'[u].kind \notin {"rows", "keys"}
           \/ /\ op'[u].game = op[u].game
              /\ \E kind \in {"reveal", "cashout"} : Settle(u, kind)
           \/ op'[u].game = op[u].game /\ FinishRows(u) /\ op[u].kind = "rows"
<1>0. ASSUME NEW v \in Users, NEW kind, NEW g, Serve(v, kind, g)
      PROVE  IF u = v THEN op'[u].kind = kind /\ op'[u].game = g
                      ELSE op'[u] = op[u]
      BY <1>0 DEF Serve, TypeOK
<1>1. CASE GameApi
  <2>1. ASSUME NEW v \in Users, NEW kind \in {"reveal", "cashout"},
               Settle(v, kind)
        PROVE  \/ op'[u] = op[u]
               \/ op'[u].game = op[u].game /\ Settle(u, kind)
        BY <1>0, <2>1 DEF Settle
  <2>2. ASSUME NEW v \in Users, FinishRows(v)
        PROVE  \/ op'[u] = op[u]
               \/ /\ op'[u].game = op[u].game
                  /\ FinishRows(u) /\ op[u].kind = "rows"
        BY <1>0, <2>2 DEF FinishRows
  <2>3. ASSUME NEW v \in Users,
               \/ \E kind \in {"start", "reveal", "cashout"} : Admit(v, kind)
               \/ \E g \in Games : StartGame(v, g)
               \/ Reveal(v) \/ DropKeys(v) \/ Drop(v)
        PROVE  op'[u] = op[u] \/ op'[u].kind \notin {"rows", "keys"}
        BY <1>0, <2>3 DEF Admit, StartGame, Reveal, DropKeys, Drop
  <2> QED BY <1>1, <2>1, <2>2, <2>3 DEF GameApi, BlobExpires
<1>2. ASSUME NEW r \in Resets, NEW h \in Games, RowStep(r, h)
      PROVE  UNCHANGED op
      BY <1>2
      DEF RowStep, LoadBlob, Refund, RefundError, SkipCredit, ReadPointer,
          DeleteKeys, CleanupFails, ReadRow, CancelRow, CancelFails,
          BumpHistoryCache
<1> QED BY <1>1, <1>2
        DEF Next, ResetStep, BeginReset, ScanPointer, StartPool, FinishReset,
            AbortReset, ModeRequest, vars

\* When a reset ends there is nothing left to be closed.
LEMMA FinishCloses ==
    ASSUME Inv, NEW r \in Resets, FinishReset(r)
    PROVE  /\ \A u \in Users : pointer[u] = NoGame
           /\ \A g \in Games : blob[g].status # "ACTIVE"
<1>1. \A u \in Users : pointer[u] = NoGame
  <2> SUFFICES ASSUME NEW u \in Users, pointer[u] # NoGame PROVE FALSE
      OBVIOUS
  <2>1. Running(r) /\ toScan[r] = {} /\ pointer[u] \in Games
        BY DEF FinishReset, Running, Inv, StrictInv, ScanIsOver, TypeOK
  <2>2. row[r][pointer[u]].at \in {"none", "done"}
        BY <2>1 DEF FinishReset, AllProcessed
  <2> QED BY <2>1, <2>2 DEF Inv, StrictInv, NoneMissed
<1>2. \A g \in Games : blob[g].status # "ACTIVE"
      BY <1>1, MinesResetAssumptions DEF Inv, SerialInv, NoStrandedRound
<1> QED BY <1>1, <1>2

\* A round in play stays one that nobody has been paid for.
LEMMA LifeStep ==
    ASSUME Inv, StopsAtOnce, [Next]_vars
    PROVE  LifeOfRound'
<1> USE DEF Inv
<1>1. ASSUME NEW g \in Games, blob'[g].status = "ACTIVE"
      PROVE  history'[g].status = "PLAYING" /\ cashout'[g] = 0
  <2>1. CASE blob[g].status = "ACTIVE"
    <3>1. history[g].status = "PLAYING" /\ cashout[g] = 0
          BY <2>1 DEF StrictInv, LifeOfRound
    <3>2. cashout'[g] = 0 BY <1>1, <3>1, CashoutStep
    <3>3. ASSUME NEW u \in Users, FinishRows(u), op[u].game = g
          PROVE  FALSE
          BY <2>1, <3>3 DEF FinishRows, StrictInv, LifeOfRound
    <3>4. ASSUME NEW r \in Resets, CancelRow(r, g)
          PROVE  FALSE
          BY <2>1, <3>4 DEF CancelRow, StrictInv, RowKnowsCredit
    <3>5. history'[g].status = "PLAYING"
          BY <3>1, <3>3, <3>4, HistoryStep DEF HistoryMoves
    <3> QED BY <3>2, <3>5
  <2>2. ASSUME NEW u \in Users, StartGame(u, g)
        PROVE  history'[g].status = "PLAYING" /\ cashout'[g] = 0
        BY <2>2 DEF StartGame, TypeOK, StrictInv, LifeOfRound
  <2> QED BY <1>1, <2>1, <2>2, BlobStep DEF BlobMoves, NoBlob
<1>2. ASSUME NEW g \in Games, history'[g].status = "none"
      PROVE  ledger'[g] = <<>> /\ cashout'[g] = 0
  <2>1. history[g].status = "none" BY <1>2, RowsStay
  <2>2. ledger[g] = <<>> /\ cashout[g] = 0 /\ blob[g].status # "ACTIVE"
        BY <2>1 DEF StrictInv, LifeOfRound
  <2>3. ASSUME NEW r \in Resets, Refund(r, g)
        PROVE  FALSE
        BY <2>1, <2>3 DEF Refund, CanTake, RowsAgree, ListedHaveRows
  <2> QED BY <2>2, <2>3, LedgerStep, CashoutStep DEF LedgerMoves
<1>3. ASSUME NEW u \in Users, op'[u].kind \in {"rows", "keys"}
      PROVE  /\ op'[u].game \in Games
             /\ blob'[op'[u].game].status # "ACTIVE"
             /\ history'[op'[u].game].status # "none"
  <2> DEFINE g == op[u].game
  <2>1. CASE op[u].kind \in {"rows", "keys"} /\ op'[u].game = g
    <3>1. g \in Games /\ blob[g].status # "ACTIVE" /\ history[g].status # "none"
          BY <2>1 DEF StrictInv, LifeOfRound
    <3>2. blob'[g].status # "ACTIVE"
      <4> HIDE DEF g
      <4> QED BY <3>1, StartsOnce, BlobStep DEF BlobMoves, NoBlob
    <3> QED BY <2>1, <3>1, <3>2, RowsStay
  <2>2. ASSUME NEW kind \in {"reveal", "cashout"}, Settle(u, kind),
               op'[u].game = g
        PROVE  /\ g \in Games /\ blob'[g].status # "ACTIVE"
               /\ history'[g].status # "none"
    <3>1. g \in Games /\ blob[g].status = "ACTIVE" /\ history' = history
          BY <2>2 DEF Settle, InPlay, TypeOK, Ops
    <3>2. blob'[g].status = "ENDED" BY <2>2, <3>1 DEF Settle, TypeOK, Blobs
    <3> QED BY <3>1, <3>2 DEF StrictInv, LifeOfRound
  <2> QED BY <1>3, <2>1, <2>2, OpStep
<1> QED BY <1>1, <1>2, <1>3 DEF LifeOfRound

\* What a reset has loaded does not change behind its back.
LEMMA SnapStep ==
    ASSUME Inv, StopsAtOnce, [Next]_vars
    PROVE  SnapIsTrue'
<1> SUFFICES ASSUME NEW r \in Resets, NEW g \in Games,
                    row'[r][g].at \in {"queued", "pointer", "delete"},
                    "ACTIVE" \in {row'[r][g].snap.status, blob'[g].status}
             PROVE  row'[r][g].snap = blob'[g]
    BY DEF SnapIsTrue
<1>1. CASE /\ row[r][g].at \in {"queued", "pointer", "delete"}
           /\ row'[r][g].snap = row[r][g].snap
  <2>1. blob'[g] \in {blob[g], NoBlob}
        BY <1>1, HeldIsPaused, PausedIsStill
  <2>2. blob'[g] = blob[g]
    <3> SUFFICES ASSUME blob'[g] # blob[g] PROVE FALSE
        BY <2>1
    <3>1. blob'[g] = NoBlob BY <2>1
    <3>2. row[r][g].snap.status = "ACTIVE" BY <1>1, <3>1 DEF NoBlob
    <3>3. blob[g].status = "ACTIVE"
          BY <1>1, <3>2 DEF Inv, StrictInv, SnapIsTrue
    <3>4. ASSUME NEW u \in Users, DropKeys(u), op[u].game = g PROVE FALSE
          BY <3>3, <3>4 DEF DropKeys, Inv, StrictInv, LifeOfRound
    <3>5. ASSUME NEW s \in Resets, DeleteKeys(s, g) PROVE FALSE
      <4>1. row[s][g].at = "delete" BY <3>5 DEF DeleteKeys
      <4>2. s = r BY <1>1, <4>1, HeldIsPaused
      <4>3. row'[r][g].at = "row"
            BY <3>5, <4>2, GotoEffect DEF DeleteKeys, RowSteps, Inv
      <4> QED BY <4>3
    <3>6. stored = "PAUSED" /\ \A u \in Users : ~StartGame(u, g)
          BY <1>1, HeldIsPaused, ListedNotStarted
    <3> QED BY <3>4, <3>5, <3>6, BlobStep DEF BlobMoves, Inv
  <2> QED BY <1>1, <2>2 DEF Inv, StrictInv, SnapIsTrue
<1>2. CASE row'[r][g].snap = blob[g] /\ LoadBlob(r, g)
      BY <1>2 DEF LoadBlob
<1> QED BY <1>1, <1>2, RowsStep DEF RowMoves, Inv

\* No pointer is missed by the reset that runs.
LEMMA MissedStep ==
    ASSUME Inv, StopsAtOnce, [Next]_vars
    PROVE  NoneMissed' /\ ScanIsOver'
<1> USE DEF Inv
<1>1. ScanIsOver'
      BY PhaseStep DEF ScanIsOver, PhaseMoves, StrictInv
<1>2. ASSUME NEW r \in Resets, NEW u \in Users, Running(r)', pointer'[u] # NoGame
      PROVE  \/ u \in toScan'[r]
             \/ row'[r][pointer'[u]].at \in {"load", "queued", "pointer"}
             \/ row'[r][pointer'[u]].at = "delete" /\ row'[r][pointer'[u]].mine
  <2>1. CASE ~Running(r)
        BY <1>2, <2>1, PhaseStep DEF PhaseMoves, Running
  <2>2. CASE Running(r)
    <3> DEFINE g == pointer[u]
    <3>1. stored = "PAUSED" BY <2>2 DEF SerialInv, PausedWhileRunning
    <3>2. pointer'[u] = g BY <1>2, <3>1, PausedIsStill
    <3>3. g \in Games /\ g # NoGame BY <1>2, <3>2 DEF TypeOK
    <3>4. Owner[g] = u BY <3>3 DEF SerialInv, OneRound
    <3>5. ASSUME AbortReset(r) PROVE FALSE
          BY <1>2, <3>5 DEF AbortReset, Running, TypeOK
    <3>6. ASSUME row[r][g].at = "delete", row[r][g].mine, DeleteKeys(r, g)
          PROVE  FALSE
          BY <1>2, <3>2, <3>4, <3>6 DEF DeleteKeys, DeletesPointer, TypeOK
    <3>7. CASE u \in toScan[r] /\ u \notin toScan'[r]
      <4>1. ScanPointer(r, u)
            BY <1>2, <3>7, PhaseStep DEF PhaseMoves, Running, StrictInv, ScanIsOver
      <4> QED BY <3>2, <3>3, <4>1, ScanEffect
    <3>8. CASE u \notin toScan[r]
      <4>1. \/ row[r][g].at \in {"load", "queued", "pointer"}
            \/ row[r][g].at = "delete" /\ row[r][g].mine
            BY <2>2, <3>3, <3>8 DEF StrictInv, NoneMissed
      <4>2. RowMoves(r, g) BY <3>3, RowsStep
      <4>3. "lost reply" \notin Faults /\ "redis" \notin Faults
            BY DEF StopsAtOnce
      <4>4. ~RefundError(r, g) /\ ~CleanupFails(r, g)
            BY <4>3 DEF RefundError, CleanupFails
      <4>5. ASSUME row[r][g].at = "pointer", DeleteKeys(r, g) PROVE FALSE
            BY <4>5 DEF DeleteKeys
      <4>6. pointer[Owner[g]] = g BY <3>4
      <4>7. \/ row'[r][g].at \in {"load", "queued", "pointer"}
            \/ row'[r][g].at = "delete" /\ row'[r][g].mine
        <5> HIDE DEF g
        <5> QED BY <3>5, <3>6, <4>1, <4>2, <4>4, <4>5, <4>6 DEF RowMoves
      <4> QED BY <3>2, <4>7
    <3> QED BY <3>7, <3>8
  <2> QED BY <2>1, <2>2
<1> QED BY <1>1, <1>2 DEF NoneMissed

\* A credited round that can be listed is still what was paid for.
LEMMA HeldStep ==
    ASSUME Inv, StopsAtOnce, [Next]_vars
    PROVE  CreditedIsHeld'
<1> USE DEF Inv
<1> SUFFICES ASSUME NEW g \in Games, ledger'[g] # <<>>
             PROVE  /\ blob'[g].status = "ACTIVE" => stored' = "PAUSED"
                    /\ InHandOf(g)' => /\ Creditable(blob[g])'
                                       /\ ledger'[g] = Worth(blob[g])'
    BY DEF CreditedIsHeld
<1>1. ASSUME NEW r \in Resets, Refund(r, g), ledger'[g] = Worth(row[r][g].snap)
      PROVE  /\ stored' = "PAUSED"
             /\ Creditable(blob[g])' /\ ledger'[g] = Worth(blob[g])'
  <2>1. /\ row[r][g].at = "queued" /\ Creditable(row[r][g].snap)
        /\ UNCHANGED <<stored, blob>>
        BY <1>1 DEF Refund, CanTake
  <2>2. row[r][g].snap = blob[g]
        BY <2>1 DEF Creditable, StrictInv, SnapIsTrue
  <2>3. stored = "PAUSED" BY <2>1, HeldIsPaused
  <2> QED BY <1>1, <2>1, <2>2, <2>3 DEF Creditable, Worth, GrossCredit
<1>2. CASE ledger'[g] = ledger[g]
  <2>1. history[g].status # "none"
        BY <1>2 DEF StrictInv, LifeOfRound
  <2>2. \A u \in Users : ~StartGame(u, g) BY <2>1, StartsOnce
  <2>3. ASSUME blob'[g].status = "ACTIVE"
        PROVE  stored' = "PAUSED"
    <3>1. blob[g].status = "ACTIVE"
          BY <2>2, <2>3, BlobStep DEF BlobMoves, NoBlob
    <3>2. stored = "PAUSED"
          BY <1>2, <3>1 DEF StrictInv, CreditedIsHeld
    <3> QED BY <3>1, <3>2, StoredStep, FinishCloses DEF StopsAtOnce
  <2>4. ASSUME InHandOf(g)'
        PROVE  InHandOf(g)
    <3>1. Owner[g] \in Users BY MinesResetAssumptions
    <3>2. CASE pointer'[Owner[g]] = g
      <4>1. g # NoGame BY MinesResetAssumptions
      <4> QED BY <2>2, <3>1, <3>2, <4>1, PointerStep DEF InHandOf
    <3>3. ASSUME NEW r \in Resets,
                 row'[r][g].at \in {"load", "queued", "pointer", "delete"}
          PROVE  InHandOf(g)
      <4>1. ASSUME NEW u \in Users, pointer[u] = g
            PROVE  pointer[Owner[g]] = g
            BY <4>1, MinesResetAssumptions DEF SerialInv, OneRound
      <4> QED BY <3>3, <4>1, RowsStep DEF RowMoves, InHandOf
    <3> QED BY <2>4, <3>2, <3>3 DEF InHandOf
  <2>5. ASSUME InHandOf(g)'
        PROVE  Creditable(blob[g])' /\ ledger'[g] = Worth(blob[g])'
    <3>1. Creditable(blob[g]) /\ ledger[g] = Worth(blob[g])
          BY <1>2, <2>4, <2>5 DEF StrictInv, CreditedIsHeld
    <3>2. blob[g].status = "ACTIVE" BY <3>1 DEF Creditable
    <3>3. stored = "PAUSED" BY <1>2, <3>2 DEF StrictInv, CreditedIsHeld
    <3>4. ASSUME NEW u \in Users, DropKeys(u), op[u].game = g PROVE FALSE
          BY <3>2, <3>4 DEF DropKeys, StrictInv, LifeOfRound
    <3>5. ASSUME NEW r \in Resets, DeleteKeys(r, g) PROVE FALSE
      <4>1. row[r][g].at = "delete" BY <3>5 DEF DeleteKeys
      <4>2. row'[r][g].at = "row" /\ OtherRowsKept(r, g)
            BY <3>5, GotoEffect DEF DeleteKeys, RowSteps
      <4>3. \A s \in Resets : s # r => row'[s][g] = row[s][g]
            BY <4>2 DEF OtherRowsKept
      <4>4. \A s \in Resets :
               row'[s][g].at \notin {"load", "queued", "pointer", "delete"}
            BY <4>1, <4>2, <4>3, HeldIsPaused
      <4>5. pointer'[Owner[g]] # g
        <5>1. Owner[g] \in Users /\ g # NoGame BY MinesResetAssumptions
        <5>2. CASE row[r][g].mine
              BY <3>5, <5>1, <5>2 DEF DeleteKeys, DeletesPointer, TypeOK
        <5>3. CASE ~row[r][g].mine
          <6>1. pointer[Owner[g]] # g
                BY <4>1, <5>3 DEF StrictInv, RowKnowsCredit
          <6>2. pointer' = pointer BY <3>5, <5>3 DEF DeleteKeys, DeletesPointer
          <6> QED BY <6>1, <6>2
        <5> QED BY <5>2, <5>3
      <4> QED BY <2>5, <4>4, <4>5 DEF InHandOf
    <3>6. blob'[g] = blob[g]
          BY <2>2, <3>3, <3>4, <3>5, BlobStep DEF BlobMoves
    <3> QED BY <1>2, <3>1, <3>6 DEF Creditable, Worth, GrossCredit
  <2> QED BY <2>3, <2>5
<1> QED BY <1>1, <1>2, LedgerStep DEF LedgerMoves

\* What a reset has loaded of a round is what was, or will be, paid for it.
LEMMA CreditOfRow ==
    ASSUME Inv, NEW r \in Resets, NEW g \in Games, row[r][g].at = "queued",
           ledger[g] # <<>>
    PROVE  /\ Creditable(row[r][g].snap)
           /\ ledger[g] = Worth(row[r][g].snap)
<1>1. Creditable(blob[g]) /\ ledger[g] = Worth(blob[g])
      BY DEF Inv, StrictInv, CreditedIsHeld, InHandOf
<1>2. row[r][g].snap = blob[g]
      BY <1>1 DEF Creditable, Inv, StrictInv, SnapIsTrue
<1> QED BY <1>1, <1>2

\* The ledger of a round is written when a reset takes the round, and then.
LEMMA CreditIsTaken ==
    ASSUME Inv, StopsAtOnce, [Next]_vars, NEW r \in Resets, NEW g \in Games,
           row[r][g].at \in {"pointer", "delete", "row", "cancel"}
    PROVE  ledger'[g] = ledger[g]
<1>1. ASSUME NEW s \in Resets, Refund(s, g) PROVE FALSE
  <2>1. row[s][g].at = "queued" BY <1>1 DEF Refund, CanTake
  <2> QED BY <2>1, HeldIsPaused
<1> QED BY <1>1, LedgerStep DEF LedgerMoves, Inv

\* The reset goes on knowing what the ledger says.
LEMMA KnowsStep ==
    ASSUME Inv, StopsAtOnce, [Next]_vars
    PROVE  RowKnowsCredit'
<1> USE DEF Inv
<1> SUFFICES ASSUME NEW r \in Resets, NEW g \in Games
             PROVE  /\ row'[r][g].at \in {"pointer", "delete", "row", "cancel"} =>
                          ledger'[g] = IF Creditable(row[r][g].snap)'
                                       THEN Worth(row[r][g].snap)' ELSE <<>>
                    /\ row'[r][g].at \in {"row", "cancel"}
                          => blob'[g].status # "ACTIVE"
                    /\ row'[r][g].at = "delete" /\ ~row'[r][g].mine
                          => pointer'[Owner[g]] # g
    BY DEF RowKnowsCredit
<1>0. RowMoves(r, g) /\ Owner[g] \in Users /\ g # NoGame
      BY RowsStep, MinesResetAssumptions
<1>1. ASSUME row'[r][g].at \in {"pointer", "delete", "row", "cancel"}
      PROVE  ledger'[g] = IF Creditable(row[r][g].snap)'
                          THEN Worth(row[r][g].snap)' ELSE <<>>
  <2>1. CASE /\ row[r][g].at \in {"pointer", "delete", "row", "cancel"}
             /\ row'[r][g].snap = row[r][g].snap
    <3>1. ledger'[g] = ledger[g] BY <2>1, CreditIsTaken
    <3> QED BY <2>1, <3>1
            DEF StrictInv, RowKnowsCredit, Creditable, Worth, GrossCredit
  <2>2. CASE /\ row[r][g].at = "queued"
             /\ row'[r][g].snap = row[r][g].snap
             /\ Refund(r, g) \/ SkipCredit(r, g)
    <3>1. Creditable(row[r][g].snap)' <=> Creditable(row[r][g].snap)
          BY <2>2 DEF Creditable, GrossCredit
    <3>2. Worth(row[r][g].snap)' = Worth(row[r][g].snap)
          BY <2>2 DEF Worth, GrossCredit
    <3>3. CASE Refund(r, g)
      <4>1. Creditable(row[r][g].snap) BY <3>3 DEF Refund
      <4>2. ledger'[g] = Worth(row[r][g].snap)
        <5>1. CASE ledger[g] # <<>>
          <6>1. ledger'[g] = ledger[g] BY <5>1, LedgerStep DEF LedgerMoves
          <6> QED BY <2>2, <5>1, <6>1, CreditOfRow
        <5>2. CASE ledger[g] = <<>>
          <6>1. g \notin idem BY <5>2 DEF CreditAtMostOnce
          <6>2. ledger' = [ledger EXCEPT ![g] = Worth(row[r][g].snap) \o ledger[g]]
                BY <3>3, <6>1 DEF Refund, ApplyCredit, AlreadyRefunded, Worth
          <6>3. ledger'[g] = Worth(row[r][g].snap) \o <<>>
                BY <5>2, <6>2 DEF TypeOK
          <6>4. GrossCredit(row[r][g].snap) \in Nat
                BY MinesResetAssumptions DEF TypeOK, Rows, Blobs, GrossCredit
          <6>5. Worth(row[r][g].snap) \o <<>> = Worth(row[r][g].snap)
                BY <6>4 DEF Worth
          <6> QED BY <6>3, <6>5
        <5> QED BY <5>1, <5>2
      <4> QED BY <3>1, <3>2, <4>1, <4>2
    <3>4. CASE SkipCredit(r, g)
      <4>1. ledger'[g] = ledger[g] /\ ~Creditable(row[r][g].snap)
            BY <3>4 DEF SkipCredit
      <4> QED BY <2>2, <3>1, <4>1, CreditOfRow
    <3> QED BY <2>2, <3>3, <3>4
  <2>3. \/ /\ row[r][g].at \in {"pointer", "delete", "row", "cancel"}
           /\ row'[r][g].snap = row[r][g].snap
        \/ /\ row[r][g].at = "queued"
           /\ row'[r][g].snap = row[r][g].snap
           /\ Refund(r, g) \/ SkipCredit(r, g)
        BY <1>0, <1>1 DEF RowMoves
  <2> QED BY <2>1, <2>2, <2>3
<1>2. ASSUME row'[r][g].at \in {"row", "cancel"}
      PROVE  blob'[g].status # "ACTIVE"
  <2>1. CASE row[r][g].at \in {"row", "cancel"}
    <3>1. blob[g].status # "ACTIVE" /\ blob'[g] \in {blob[g], NoBlob}
          BY <2>1, HeldIsPaused, PausedIsStill DEF StrictInv, RowKnowsCredit
    <3> QED BY <3>1 DEF NoBlob
  <2>2. CASE DeleteKeys(r, g)
        BY <2>2 DEF DeleteKeys, TypeOK, NoBlob
  <2>3. ~CleanupFails(r, g) BY DEF CleanupFails, StopsAtOnce, OneResetAtATime
  <2> QED BY <1>0, <1>2, <2>1, <2>2, <2>3 DEF RowMoves
<1>3. ASSUME row'[r][g].at = "delete", ~row'[r][g].mine
      PROVE  pointer'[Owner[g]] # g
  <2>1. CASE row'[r][g] = row[r][g]
    <3>1. pointer'[Owner[g]] \in {pointer[Owner[g]], NoGame}
          BY <1>0, <1>3, <2>1, HeldIsPaused, PausedIsStill
    <3> QED BY <1>0, <1>3, <2>1, <3>1 DEF StrictInv, RowKnowsCredit
  <2>2. CASE ReadPointer(r, g) /\ (row'[r][g].mine <=> pointer[Owner[g]] = g)
        BY <1>3, <2>2 DEF ReadPointer
  <2> QED BY <1>0, <1>3, <2>1, <2>2 DEF RowMoves
<1> QED BY <1>1, <1>2, <1>3

\* Nobody is paid twice.
LEMMA PayoutStep ==
    ASSUME Inv, StopsAtOnce, [Next]_vars
    PROVE  NoDoublePayout'
<1> USE DEF Inv
<1> SUFFICES ASSUME NEW g \in Games, cashout'[g] > 0
             PROVE  ledger'[g] = <<>>
    BY DEF NoDoublePayout
<1>1. CASE cashout'[g] = cashout[g]
  <2>1. ledger[g] = <<>> BY <1>1 DEF StrictInv, NoDoublePayout
  <2>2. ASSUME NEW r \in Resets, Refund(r, g) PROVE FALSE
    <3>1. row[r][g].at = "queued" /\ row[r][g].snap.status = "ACTIVE"
          BY <2>2 DEF Refund, CanTake, Creditable
    <3>2. blob[g].status = "ACTIVE" BY <3>1 DEF StrictInv, SnapIsTrue
    <3> QED BY <1>1, <3>2 DEF StrictInv, LifeOfRound
  <2> QED BY <2>1, <2>2, LedgerStep DEF LedgerMoves
<1>2. CASE blob[g].status = "ACTIVE" /\ stored # "PAUSED" /\ UNCHANGED ledger
      BY <1>2 DEF StrictInv, CreditedIsHeld
<1> QED BY <1>1, <1>2, CashoutStep

\* The row says what was paid.
LEMMA ProfitStep ==
    ASSUME Inv, StopsAtOnce, [Next]_vars
    PROVE  ProfitMatchesCredit'
<1> USE DEF Inv
<1> SUFFICES ASSUME NEW g \in Games, history'[g].status = "CANCELLED",
                    ledger'[g] # <<>>
             PROVE  history'[g].profit = Head(ledger'[g]) - Stake
    BY DEF ProfitMatchesCredit, Stake
<1>1. CASE history'[g] = history[g]
  <2>1. ASSUME NEW r \in Resets, Refund(r, g) PROVE FALSE
    <3>1. row[r][g].at = "queued" /\ row[r][g].snap.status = "ACTIVE"
          BY <2>1 DEF Refund, CanTake, Creditable
    <3>2. blob[g].status = "ACTIVE" BY <3>1 DEF StrictInv, SnapIsTrue
    <3>3. history[g].status = "PLAYING" BY <3>2 DEF StrictInv, LifeOfRound
    <3> QED BY <1>1, <3>3
  <2>2. ledger'[g] = ledger[g] BY <2>1, LedgerStep DEF LedgerMoves
  <2> QED BY <1>1, <2>2 DEF StrictInv, ProfitMatchesCredit
<1>2. ASSUME NEW r \in Resets, CancelRow(r, g),
             history'[g].profit = RecordedProfit(row[r][g].snap)
      PROVE  history'[g].profit = Head(ledger'[g]) - Stake
  <2>1. row[r][g].at = "cancel" /\ ledger' = ledger BY <1>2 DEF CancelRow
  <2>2. /\ Creditable(row[r][g].snap)
        /\ ledger'[g] = Worth(row[r][g].snap)
        BY <2>1 DEF StrictInv, RowKnowsCredit
  <2>3. Head(ledger'[g]) = GrossCredit(row[r][g].snap)
        BY <2>2 DEF Worth
  <2> QED BY <1>2, <2>2, <2>3 DEF RecordedProfit, NetProfit
<1> QED BY <1>1, <1>2, HistoryStep DEF HistoryMoves

\* Every step keeps all of it.
LEMMA StrictStep ==
    ASSUME Inv, StopsAtOnce, [Next]_vars
    PROVE  StrictInv'
BY LifeStep, SnapStep, MissedStep, HeldStep, KnowsStep, PayoutStep, ProfitStep
DEF StrictInv

(***************************************************************************)
(* The inductive invariant of one reset at a time under an immediate       *)
(* pause: what a reset has loaded is true, no pointer is missed, and a     *)
(* credited round stays what it was credited for until it is gone.         *)
(***************************************************************************)
THEOREM StrictInvariant == ASSUME StopsAtOnce PROVE Spec => []Inv
<1>1. Init => StrictInv BY StrictInit
<1>2. Inv /\ [Next]_vars => StrictInv' BY StrictStep
<1>3. Inv <=> TypeOK /\ CreditAtMostOnce /\ RowsAgree /\ SerialInv /\ StrictInv
      BY DEF Inv
<1>4. OneResetAtATime BY DEF StopsAtOnce
<1> QED BY <1>1, <1>2, <1>3, <1>4, TypeCorrect, CreditsAreSafe,
           RowsAlwaysAgree, SerialInvariant, PTL DEF Spec

(***************************************************************************)
(* No round is paid by the admin credit and by a cashout, even if a reset  *)
(* dies after the credit and another takes the round over.                 *)
(***************************************************************************)
THEOREM NobodyPaidTwice ==
    ASSUME StopsAtOnce
    PROVE  Spec => []NoDoublePayout
<1>1. Inv => NoDoublePayout BY DEF Inv, StrictInv
<1> QED BY <1>1, StrictInvariant, PTL

(***************************************************************************)
(* The profit in a cancelled round's row is what was credited less the     *)
(* stake, whichever reset wrote the one and whichever the other.           *)
(***************************************************************************)
THEOREM ProfitIsCredit ==
    ASSUME StopsAtOnce
    PROVE  Spec => []ProfitMatchesCredit
<1>1. Inv => ProfitMatchesCredit BY DEF Inv, StrictInv
<1> QED BY <1>1, StrictInvariant, PTL

(***************************************************************************)
(* A credit is what a cashout would have paid in that state, although the  *)
(* blob was loaded several round trips before.                             *)
(***************************************************************************)
THEOREM RefundsAreFair == ASSUME StopsAtOnce PROVE Spec => FairRefund
<1> DEFINE Fair == \A g \in Games :
                      ledger'[g] # ledger[g]
                          => /\ blob[g].status = "ACTIVE"
                             /\ Head(ledger'[g]) = Payout[blob[g].reveals]
<1>1. ASSUME Inv, [Next]_vars
      PROVE  Fair
  <2> SUFFICES ASSUME NEW g \in Games, ledger'[g] # ledger[g]
               PROVE  /\ blob[g].status = "ACTIVE"
                      /\ Head(ledger'[g]) = Payout[blob[g].reveals]
      OBVIOUS
  <2>1. PICK r \in Resets : Refund(r, g) /\ ledger'[g] = Worth(row[r][g].snap)
        BY <1>1, LedgerStep DEF LedgerMoves, Inv
  <2>2. row[r][g].at = "queued" /\ Creditable(row[r][g].snap)
        BY <2>1 DEF Refund, CanTake
  <2>3. row[r][g].snap = blob[g] /\ blob[g].status = "ACTIVE"
        BY <1>1, <2>2 DEF Creditable, Inv, StrictInv, SnapIsTrue
  <2> QED BY <2>1, <2>3 DEF Worth, GrossCredit
<1>2. Inv /\ [Next]_vars => [Fair]_vars BY <1>1
<1> QED BY <1>2, StrictInvariant, PTL DEF Spec, FairRefund

(***************************************************************************)
(* When a reset sets the game ACTIVE again it leaves no pointer and no     *)
(* round in play behind.                                                   *)
(***************************************************************************)
THEOREM ResetsCloseAll ==
    ASSUME StopsAtOnce
    PROVE  Spec => ResetClosesEveryRound
<1>1. Inv => [\A r \in Resets : FinishReset(r)
                 => /\ \A u \in Users : pointer[u] = NoGame
                    /\ \A g \in Games : blob[g].status # "ACTIVE"]_vars
      BY FinishCloses
<1> QED BY <1>1, StrictInvariant, PTL DEF Spec, ResetClosesEveryRound

=============================================================================
