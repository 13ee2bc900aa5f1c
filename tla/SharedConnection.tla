--------------------------- MODULE SharedConnection ---------------------------
(***************************************************************************)
(* Optimistic writes over the one Redis connection of admin-api.           *)
(*                                                                         *)
(* Chat bans, the coinflip economy and the cancellation of a waiting       *)
(* coinflip game WATCH a key, GET it, and write in MULTI/EXEC.  All        *)
(* requests use the client that RedisService.getClient hands out, so they  *)
(* share one set of watched keys and one flag: EXEC and UNWATCH of any     *)
(* request end the watches of all.  The users page reads the chat bans     *)
(* without a watch, and writes the list back if an entry has expired.      *)
(*                                                                         *)
(* An action is one command; ioredis sends MULTI..EXEC in one piece.  The  *)
(* game API has a connection of its own.                                   *)
(***************************************************************************)
EXTENDS Integers

CONSTANTS
    Callers,      \* HTTP requests under way at the same time
    Users,         \* users who can be banned from the chat
    Games,         \* coinflip games, waiting at first
    MaxBet,        \* bets of the economy document are 1..MaxBet
    MaxAttempts,   \* 24 for bans and the economy, 12 for a cancellation
    MaxCalls       \* bound: requests in a behaviour

ASSUME ConnAssumptions ==
    /\ MaxBet \in Nat \ {0}
    /\ MaxAttempts \in Nat \ {0}
    /\ MaxCalls \in Nat
    /\ "none" \notin Users \cup Games

VARIABLES
    watched,    \* the keys the connection watches
    touched,    \* a watched key has been written since its WATCH
    chatBans,   \* the entries of chat:bans
    late,       \* the temporary bans are over
    economy,    \* coinflip:economyConfig, the two fields that depend on each other
    lobby,      \* lobby[g]: state of a game in coinflip:active_games
    joined,     \* the games that got a second player
    refunds,    \* refunds[g]: how often the creator of g got the stake back
    call,       \* call[r]: the request's kind, argument and progress
    seen,       \* seen[r]: what its GET answered
    calls,      \* how many requests have begun
    overlap     \* whether requests overlap; fixed at the start

connVars == <<watched, touched, chatBans, late, economy, lobby, joined,
              refunds, call, seen, calls, overlap>>
docs == <<chatBans, economy, lobby, joined, refunds>>

Entries == [user : Users, temporary : BOOLEAN]
Fields == {"minBet", "maxBet"}
Economies == [Fields -> 1..MaxBet]
Patches == UNION {[S -> 1..MaxBet] : S \in SUBSET Fields}
Statuses == {"waiting", "started", "over", "cancelled"}

\* assertValidEconomyConfig, on the fields that are compared with each other.
Valid(e) == e["minBet"] <= e["maxBet"]

Merge(e, patch) ==
    [f \in Fields |-> IF f \in DOMAIN patch THEN patch[f] ELSE e[f]]

Keys == {"chat:bans", "economyConfig", "active_games", "none"}

\* Mutant: a cancellation watches the balance that it credits.
KeyOfBalance(kind) ==
    CASE kind \in {"ban", "unban", "view"} -> "chat:bans"
      [] kind = "economy" -> "economyConfig"
      [] kind = "cancel" -> "balance"
      [] OTHER -> "none"
KeyOf(kind) ==
    CASE kind \in {"ban", "unban", "view"} -> "chat:bans"
      [] kind = "economy" -> "economyConfig"
      [] kind = "cancel" -> "active_games"
      [] OTHER -> "none"

NoCall == [kind |-> "none", at |-> "idle", user |-> "none", game |-> "none",
           patch |-> [f \in {} |-> 1], tries |-> 0]
Calls == [kind : {"none", "ban", "unban", "view", "economy", "cancel"},
          at : {"idle", "watch", "read", "exec", "done", "again", "refused",
                "get", "set"},
          user : Users \cup {"none"}, game : Games \cup {"none"},
          patch : Patches, tries : 0..MaxAttempts]

Least == [f \in Fields |-> 1]
SawNothing == [list |-> {}, next |-> {}, economy |-> Least, status |-> "waiting"]
SawList(list, next) == [list |-> list, next |-> next, economy |-> Least,
                        status |-> "waiting"]
Sights == [list : SUBSET Entries, next : SUBSET Entries, economy : Economies,
           status : Statuses]

ConnTypeOK ==
    /\ watched \in SUBSET Keys
    /\ touched \in BOOLEAN
    /\ chatBans \in SUBSET Entries
    /\ late \in BOOLEAN
    /\ economy \in Economies
    /\ lobby \in [Games -> Statuses]
    /\ joined \in SUBSET Games
    /\ refunds \in [Games -> Nat]
    /\ call \in [Callers -> Calls]
    /\ seen \in [Callers -> Sights]
    /\ calls \in 0..MaxCalls
    /\ overlap \in BOOLEAN

ConnInit ==
    /\ watched = {}
    /\ touched = FALSE
    /\ chatBans \in SUBSET Entries
    /\ late = FALSE
    /\ economy \in {e \in Economies : Valid(e)}
    /\ lobby = [g \in Games |-> "waiting"]
    /\ joined = {}
    /\ refunds = [g \in Games |-> 0]
    /\ call = [r \in Callers |-> NoCall]
    /\ seen = [r \in Callers |-> SawNothing]
    /\ calls = 0
    /\ overlap \in BOOLEAN

At(r, where) == call[r].at = where
GoTo(r, where) == call' = [call EXCEPT ![r].at = where]
EndCall(r) ==
    /\ call' = [call EXCEPT ![r] = NoCall]
    /\ seen' = [seen EXCEPT ![r] = SawNothing]

\* What a write to key does to the connection's watch.
Touch(key) ==
    /\ touched' = (touched \/ key \in watched)
    /\ UNCHANGED watched

\* normalizeAndPruneRecords
Active(list) == {e \in list : ~(e.temporary /\ late)}
HasEntry(list, u) == \E e \in list : e.user = u

\* Mutant: the list is written with the new entry only.
NoOthers(list, u) == {}
Others(list, u) == {e \in list : e.user # u}

-----------------------------------------------------------------------------

Start(r, kind, at, user, game, patch) ==
    /\ At(r, "idle")
    /\ calls < MaxCalls /\ calls' = calls + 1
    /\ overlap \/ \A s \in Callers : At(s, "idle")
    /\ call' = [call EXCEPT ![r] = [kind |-> kind, at |-> at, user |-> user,
                                    game |-> game, patch |-> patch, tries |-> 0]]
    /\ UNCHANGED <<watched, touched, docs, late, seen, overlap>>

BeginCall(r) ==
    \/ \E kind \in {"ban", "unban"}, u \in Users :
          Start(r, kind, "watch", u, "none", NoCall.patch)
    \/ \E patch \in Patches : Start(r, "economy", "watch", "none", "none", patch)
    \/ \E g \in Games : Start(r, "cancel", "watch", "none", g, NoCall.patch)
    \/ Start(r, "view", "get", "none", "none", NoCall.patch)

Watch(r) ==
    /\ At(r, "watch")
    /\ watched' = watched \cup {KeyOf(call[r].kind)}
    /\ GoTo(r, "read")
    /\ UNCHANGED <<touched, docs, late, seen, calls, overlap>>

\* GET chat:bans and the mutator: a ban needs no active entry, an unban one.
ReadBans(r) ==
    /\ At(r, "read") /\ call[r].kind \in {"ban", "unban"}
    /\ LET u == call[r].user
           active == Active(chatBans)
           others == Others(active, u)
           refused == HasEntry(active, u) <=> call[r].kind = "ban"
       IN \E t \in BOOLEAN :
             /\ t => ~late /\ call[r].kind = "ban"
             /\ seen' = [seen EXCEPT ![r] = SawList(chatBans,
                   IF call[r].kind = "ban"
                   THEN others \cup {[user |-> u, temporary |-> t]}
                   ELSE others)]
             /\ GoTo(r, IF refused THEN "refused" ELSE "exec")
    /\ UNCHANGED <<watched, touched, docs, late, calls, overlap>>

\* GET of the economy and buildNextJson, which throws if the whole is invalid.
ReadEconomy(r) ==
    /\ At(r, "read") /\ call[r].kind = "economy"
    /\ seen' = [seen EXCEPT ![r] = [@ EXCEPT !.economy = economy]]
    /\ GoTo(r, IF Valid(Merge(economy, call[r].patch))
               THEN "exec" ELSE "refused")
    /\ UNCHANGED <<watched, touched, docs, late, calls, overlap>>

\* Mutant: the second player is not looked for.
AnyLobby(status) == status \in {"waiting", "started"}
MayCancel(status) == status = "waiting"

\* HGET of the game; not found or started ends the request.
ReadGame(r) ==
    /\ At(r, "read") /\ call[r].kind = "cancel"
    /\ LET status == lobby[call[r].game]
       IN /\ seen' = [seen EXCEPT ![r] = [@ EXCEPT !.status = status]]
          /\ GoTo(r, IF MayCancel(status) THEN "exec" ELSE "refused")
    /\ UNCHANGED <<watched, touched, docs, late, calls, overlap>>

WriteBans(r) ==
    /\ call[r].kind \in {"ban", "unban"}
    /\ chatBans' = seen[r].next
    /\ UNCHANGED <<economy, lobby, joined, refunds>>

WriteEconomy(r) ==
    /\ call[r].kind = "economy"
    /\ economy' = Merge(seen[r].economy, call[r].patch)
    /\ UNCHANGED <<chatBans, lobby, joined, refunds>>

\* HDEL, INCRBYFLOAT and SADD of the dirty set.
WriteCancel(r) ==
    /\ call[r].kind = "cancel"
    /\ LET g == call[r].game
       IN /\ lobby' = [lobby EXCEPT ![g] = "cancelled"]
          /\ refunds' = [refunds EXCEPT ![g] = @ + 1]
    /\ UNCHANGED <<chatBans, economy, joined>>

\* Mutant: EXEC is taken to succeed whatever happened to the key.
NeverNull == FALSE
ExecNull == touched

\* The finally of mutateBans sends UNWATCH; the others end at once.
ExecDone(r) ==
    /\ At(r, "exec")
    /\ ~ExecNull
    /\ WriteBans(r) \/ WriteEconomy(r) \/ WriteCancel(r)
    /\ watched' = {} /\ touched' = FALSE
    /\ IF call[r].kind \in {"ban", "unban"}
       THEN GoTo(r, "done") /\ UNCHANGED seen
       ELSE EndCall(r)
    /\ UNCHANGED <<late, calls, overlap>>

\* EXEC answers null: try again, or give up after MaxAttempts.
Again(c) == [kind |-> c.kind, at |-> "watch", user |-> c.user, game |-> c.game,
             patch |-> c.patch, tries |-> c.tries + 1]

Retry(r) ==
    IF call[r].tries + 1 < MaxAttempts
    THEN call' = [call EXCEPT ![r] = Again(@)] /\ UNCHANGED seen
    ELSE EndCall(r)

ExecRefused(r) ==
    /\ At(r, "exec")
    /\ ExecNull
    /\ watched' = {} /\ touched' = FALSE
    /\ IF call[r].kind \in {"ban", "unban"}
       THEN GoTo(r, "again") /\ UNCHANGED seen
       ELSE Retry(r)
    /\ UNCHANGED <<docs, late, calls, overlap>>

\* A ban looks at the list once more to answer with the user's status.
AfterUnwatch(r) ==
    \/ /\ At(r, "done") /\ call[r].kind = "ban"
       /\ GoTo(r, "get")
       /\ UNCHANGED seen
    \/ At(r, "done") /\ call[r].kind = "unban" /\ EndCall(r)
    \/ At(r, "refused") /\ EndCall(r)
    \/ At(r, "again") /\ Retry(r)

Unwatch(r) ==
    /\ AfterUnwatch(r)
    /\ watched' = {} /\ touched' = FALSE
    /\ UNCHANGED <<docs, late, calls, overlap>>

\* loadActiveBans: GET, and SET if something had expired.
GetBans(r) ==
    /\ At(r, "get")
    /\ IF Active(chatBans) = chatBans
       THEN EndCall(r)
       ELSE /\ seen' = [seen EXCEPT ![r] = SawList(chatBans, Active(chatBans))]
            /\ GoTo(r, "set")
    /\ UNCHANGED <<watched, touched, docs, late, calls, overlap>>

SetBans(r) ==
    /\ At(r, "set")
    /\ chatBans' = seen[r].next
    /\ Touch("chat:bans")
    /\ EndCall(r)
    /\ UNCHANGED <<economy, lobby, joined, refunds, late, calls, overlap>>

CallStep(r) ==
    \/ BeginCall(r) \/ Watch(r)
    \/ ReadBans(r) \/ ReadEconomy(r) \/ ReadGame(r)
    \/ ExecDone(r) \/ ExecRefused(r) \/ Unwatch(r)
    \/ GetBans(r) \/ SetBans(r)

-----------------------------------------------------------------------------
(* The game API and the clock *)

MoveGame(g, from, to) ==
    /\ lobby[g] = from
    /\ lobby' = [lobby EXCEPT ![g] = to]
    /\ Touch("active_games")

Join(g) ==
    /\ MoveGame(g, "waiting", "started")
    /\ joined' = joined \cup {g}
    /\ UNCHANGED <<chatBans, late, economy, refunds, call, seen, calls, overlap>>

PlayOut(g) ==
    /\ MoveGame(g, "started", "over")
    /\ UNCHANGED <<chatBans, late, economy, joined, refunds, call, seen, calls, overlap>>

\* The creator withdraws the game: coinflip:deleteGame.
Withdraw(g) ==
    /\ MoveGame(g, "waiting", "cancelled")
    /\ refunds' = [refunds EXCEPT ![g] = @ + 1]
    /\ UNCHANGED <<chatBans, late, economy, joined, call, seen, calls, overlap>>

BansExpire ==
    /\ ~late
    /\ late' = TRUE
    /\ UNCHANGED <<watched, touched, docs, call, seen, calls, overlap>>

ConnNext ==
    \/ \E r \in Callers : CallStep(r)
    \/ \E g \in Games : Join(g) \/ PlayOut(g) \/ Withdraw(g)
    \/ BansExpire

ConnSpec == ConnInit /\ [][ConnNext]_connVars

-----------------------------------------------------------------------------

\* The document under the request's key is the one its GET answered.
Unchanged(r) ==
    CASE call[r].kind \in {"ban", "unban"} -> seen[r].list = chatBans
      [] call[r].kind = "economy" -> seen[r].economy = economy
      [] call[r].kind = "cancel" -> seen[r].status = lobby[call[r].game]
      [] OTHER -> TRUE

(***************************************************************************)
(* The optimistic lock of bans, economy and games, when the requests of    *)
(* this service do not overlap: an EXEC that would succeed finds what the  *)
(* GET answered, whatever the game API has written in between.             *)
(***************************************************************************)
SetOnlyIfUnchanged ==
    \A r \in Callers :
        ~overlap /\ At(r, "exec") /\ ~touched => Unchanged(r)

(***************************************************************************)
(* cancelWaitingGame, under the same condition: the creator gets the stake *)
(* back at most once, by the admin or by withdrawing, and never of a game  *)
(* that somebody joined.                                                   *)
(***************************************************************************)
RefundsLobbyOnce ==
    \A g \in Games :
        refunds[g] > 0 => refunds[g] = 1 /\ g \notin joined

CancelRefundsLobby == ~overlap => RefundsLobbyOnce

(***************************************************************************)
(* updatePartial: the smallest bet never exceeds the largest, although     *)
(* admins change them one at a time and writes may be lost when requests   *)
(* overlap, since what is validated and written is the whole document.     *)
(***************************************************************************)
EconomyValid == Valid(economy)

(***************************************************************************)
(* Chat bans, one request at a time: a ban that is still running is lifted *)
(* by an unban of that user only, and never by the pruning of the users    *)
(* page or by a ban of somebody else.                                      *)
(***************************************************************************)
RunningBanStands ==
    [][\A e \in Active(chatBans) :
          \/ overlap
          \/ HasEntry(chatBans', e.user)
          \/ \E r \in Callers : call[r].kind = "unban" /\ call[r].user = e.user
      ]_connVars

=============================================================================
