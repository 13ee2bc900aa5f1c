----------------------------- MODULE CoinflipBots -----------------------------
(***************************************************************************)
(* Coinflip bots: users with isBot and a JSON configuration in the         *)
(* database, published to the game as one Redis list                       *)
(* (admin-api/src/coinflip-bots).  Every change is a read, a write and a   *)
(* publication, itself a findMany and a SET.  The configuration of a       *)
(* request is not validated (an @IsObject without a type), so its fields   *)
(* may be anything; normalizeBotConfig runs before it is stored and again  *)
(* before it is published.  Of the configuration the model has the two     *)
(* fields that are compared with each other and never put in order.        *)
(***************************************************************************)
EXTENDS Integers

CONSTANTS
    BotNames,        \* usernames
    BotAdmins,       \* admin requests under way
    MaxAmount,       \* bets are 0..MaxAmount, in units of the smallest bet
    DefaultMaxBet,   \* maxBet of COINFLIP_BOT_CONFIG_DEFAULTS
    MaxBotCalls      \* bound: requests in a behaviour

ASSUME BotAssumptions ==
    /\ BotNames # {}
    /\ MaxAmount \in Nat \ {0}
    /\ DefaultMaxBet \in 1..MaxAmount
    /\ MaxBotCalls \in Nat

VARIABLES
    bots,        \* bots[n]: the row's isBot and botConfig, if there is a row
    published,   \* the Redis list, as a set of entries
    edit,        \* edit[a]: what request a is about to write or to publish
    missed,      \* the last publication did not reach Redis
    botCalls,    \* how many requests have begun
    editsOverlap \* whether requests overlap; fixed at the start

botVars == <<bots, published, edit, missed, botCalls, editsOverlap>>

\* What is not a number.
Junk == -1
BotFields == {"minBet", "maxBet"}
Configs == [BotFields -> 0..MaxAmount]
Raws == UNION {[S -> {Junk} \cup 0..MaxAmount] : S \in SUBSET BotFields}

Defaults == [f \in BotFields |-> IF f = "minBet" THEN 1 ELSE DefaultMaxBet]

AtLeast(x, y) == IF x < y THEN y ELSE x

\* { ...config, ...patch }
Spread(config, patch) ==
    [f \in BotFields |-> IF f \in DOMAIN patch THEN patch[f] ELSE config[f]]

\* A field that is not a number keeps its default; the largest bet is raised
\* to the smallest, but not where it is the default.
Normalize(raw) ==
    LET minBet == IF raw["minBet"] = Junk THEN Defaults["minBet"]
                  ELSE AtLeast(raw["minBet"], 1)
        maxBet == IF raw["maxBet"] = Junk THEN Defaults["maxBet"]
                  ELSE AtLeast(raw["maxBet"], minBet)
    IN [f \in BotFields |-> IF f = "minBet" THEN minBet ELSE maxBet]

\* Mutant: what is stored is published as it is.
AsStored(config) == config
\* userRowToCacheEntry
CacheEntry(config) == Normalize(config)

NoRow == [row |-> "none", config |-> Defaults]
Rows == [row : {"none", "bot", "former"}, config : Configs]
IsBot(n) == bots[n].row = "bot"

\* The list that the rows in r make.
ListOf(r) == {[name |-> n, config |-> CacheEntry(r[n].config)] :
                n \in {m \in BotNames : r[m].row = "bot"}}
BotEntries == [name : BotNames, config : Configs]

Edit(at, kind, name, config, list) ==
    [at |-> at, kind |-> kind, name |-> name, config |-> config, list |-> list]
NoEdit == Edit("idle", "none", CHOOSE n \in BotNames : TRUE, Defaults, {})
EditSteps == {"idle", "write", "find", "set"}
EditKinds == {"none", "create", "update", "delete", "resync"}
Edits == [at : EditSteps, kind : EditKinds, name : BotNames, config : Configs,
          list : SUBSET BotEntries]

BotTypeOK ==
    /\ bots \in [BotNames -> Rows]
    /\ published \in SUBSET BotEntries
    /\ edit \in [BotAdmins -> Edits]
    /\ missed \in BOOLEAN
    /\ botCalls \in 0..MaxBotCalls
    /\ editsOverlap \in BOOLEAN

BotInit ==
    /\ bots = [n \in BotNames |-> NoRow]
    /\ published = {}
    /\ edit = [a \in BotAdmins |-> NoEdit]
    /\ missed = FALSE
    /\ botCalls = 0
    /\ editsOverlap \in BOOLEAN

BeginEdit(a, kind, name, config, at) ==
    /\ edit[a].at = "idle"
    /\ botCalls < MaxBotCalls /\ botCalls' = botCalls + 1
    /\ editsOverlap \/ \A b \in BotAdmins : edit[b].at = "idle"
    /\ edit' = [edit EXCEPT ![a] = Edit(at, kind, name, config, {})]
    /\ UNCHANGED <<bots, published, missed, editsOverlap>>

\* createBot: the name must be free, also of users that are no bots.
BeginCreateBot(a, n, patch) ==
    /\ bots[n].row = "none"
    /\ BeginEdit(a, "create", n, Normalize(Spread(Defaults, patch)), "write")

BeginUpdateBot(a, n, patch) ==
    /\ IsBot(n)
    /\ BeginEdit(a, "update", n,
                 Normalize(Spread(Normalize(bots[n].config), patch)), "write")

BeginDeleteBot(a, n) == IsBot(n) /\ BeginEdit(a, "delete", n, Defaults, "write")
BeginResync(a, n) == BeginEdit(a, "resync", n, Defaults, "find")

\* Mutant: a deleted bot is not published as deleted.
DeleteEnds(a) == IF edit[a].kind = "delete" THEN "idle" ELSE "find"
AfterWrite(a) == "find"

\* The write is by the id that was read: an update of a deleted bot changes
\* its configuration only, and the username is unique.
WriteBot(a) ==
    /\ edit[a].at = "write"
    /\ LET n == edit[a].name
           row == CASE edit[a].kind = "create" -> "bot"
                    [] edit[a].kind = "update" -> bots[n].row
                    [] edit[a].kind = "delete" -> "former"
       IN /\ edit[a].kind = "create" => bots[n].row = "none"
          /\ bots' = [bots EXCEPT ![n] = [row |-> row, config |-> edit[a].config]]
    /\ edit' = [edit EXCEPT ![a] =
                   Edit(AfterWrite(a), @.kind, @.name, @.config, {})]
    /\ UNCHANGED <<published, missed, botCalls, editsOverlap>>

WriteBotFails(a) ==
    /\ edit[a].at = "write"
    /\ edit' = [edit EXCEPT ![a] = NoEdit]
    /\ UNCHANGED <<bots, published, missed, botCalls, editsOverlap>>

FindBots(a) ==
    /\ edit[a].at = "find"
    /\ edit' = [edit EXCEPT ![a] =
                   Edit("set", @.kind, @.name, @.config, ListOf(bots))]
    /\ UNCHANGED <<bots, published, missed, botCalls, editsOverlap>>

SetBots(a) ==
    /\ edit[a].at = "set"
    /\ published' = edit[a].list
    /\ missed' = FALSE
    /\ edit' = [edit EXCEPT ![a] = NoEdit]
    /\ UNCHANGED <<bots, botCalls, editsOverlap>>

\* The findMany fails, there is no Redis client, or the SET fails.
PublishFails(a) ==
    /\ edit[a].at \in {"find", "set"}
    /\ missed' = TRUE
    /\ edit' = [edit EXCEPT ![a] = NoEdit]
    /\ UNCHANGED <<bots, published, botCalls, editsOverlap>>

BotNext ==
    \E a \in BotAdmins :
        \/ \E n \in BotNames, patch \in Raws :
              BeginCreateBot(a, n, patch) \/ BeginUpdateBot(a, n, patch)
        \/ \E n \in BotNames : BeginDeleteBot(a, n) \/ BeginResync(a, n)
        \/ WriteBot(a) \/ WriteBotFails(a)
        \/ FindBots(a) \/ SetBots(a) \/ PublishFails(a)

BotSpec == BotInit /\ [][BotNext]_botVars

-----------------------------------------------------------------------------

(***************************************************************************)
(* Whatever admins send, together or one after the other, no published bot *)
(* has a smallest bet above its largest.  A stored one can: a maxBet that  *)
(* is no number gives way to the default, which may be the smaller.        *)
(***************************************************************************)
PublishedBotsSane ==
    \A e \in published :
        1 <= e.config["minBet"] /\ e.config["minBet"] <= e.config["maxBet"]

(***************************************************************************)
(* When requests do not overlap, the game sees the bots that the database  *)
(* has, between two requests, unless the last publication failed.          *)
(***************************************************************************)
PublishedListIsRows ==
    (\A a \in BotAdmins : edit[a].at = "idle") /\ ~editsOverlap /\ ~missed
        => published = ListOf(bots)

=============================================================================
