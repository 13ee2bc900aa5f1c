------------------------------- MODULE GameConfig ------------------------------
(***************************************************************************)
(* The configuration of dice and of roulette: a hash in Redis with a field *)
(* for each setting, and a copy in the memory of the process for when      *)
(* Redis does not answer.  A read repairs a hash that is empty, incomplete *)
(* or invalid; an update reads, merges its patch and writes every field.   *)
(***************************************************************************)
EXTENDS Integers

CONSTANTS
    ConfigRequests,     \* requests that may be underway
    MaxSetting,         \* settings are 0..MaxSetting
    MaxConfigCalls,     \* bound: requests in a behaviour
    MaxConfigFaults     \* bound: commands that Redis fails

ASSUME ConfigAssumption ==
    /\ MaxSetting \in Nat \ {0}
    /\ MaxConfigCalls \in Nat
    /\ MaxConfigFaults \in Nat

VARIABLES
    hash,           \* dice:config, roulette:config
    memoryCopy,     \* diceConfigMemoryFallback
    configuring,    \* configuring[r]: the request and where it is
    configCalls, configFaults

configVars == <<hash, memoryCopy, configuring, configCalls, configFaults>>

Settings == {"minBet", "maxBet"}
Values == 0..MaxSetting
Blank == -1                 \* a field that is missing; for dice, or empty
Garbled == -2               \* a field that is there and is not a number
Hash == [Settings -> Values \cup {Blank, Garbled}]
Config == [Settings -> Values]
Patch == [Settings -> Values \cup {Blank}]
NoConfig == [f \in Settings |-> Blank]
ConfigDefaults == [f \in Settings |-> IF f = "minBet" THEN 0 ELSE 1]
ConfigValid(c) == c["minBet"] < c["maxBet"]
ConfigPatches == {p \in Patch : p # NoConfig}

\* The numbers of a patch or of a hash, over a configuration.
Over(c, p) == [f \in Settings |-> IF p[f] \in Values THEN p[f] ELSE c[f]]

NoConfigCall == [at |-> "idle", patch |-> NoConfig, config |-> NoConfig, fresh |-> FALSE]
\* fresh is a ghost: the request has read the hash and it has not changed since.
ConfigCalls ==
    [at : {"idle", "read", "repair", "merge", "save"}, patch : Patch,
     config : Config \cup {NoConfig}, fresh : BOOLEAN]

ConfigTypeOK ==
    /\ hash \in Hash
    /\ memoryCopy \in Config \cup {NoConfig}
    /\ configuring \in [ConfigRequests -> ConfigCalls]
    /\ configCalls \in 0..MaxConfigCalls
    /\ configFaults \in 0..MaxConfigFaults

\* Any hash: of an older version, edited by hand, or none.
ConfigInit ==
    /\ hash \in Hash
    /\ memoryCopy = NoConfig
    /\ configuring = [r \in ConfigRequests |-> NoConfigCall]
    /\ configCalls = 0
    /\ configFaults = 0

\* A GET has no patch.
BeginConfig(r) == \E patch \in ConfigPatches \cup {NoConfig} :
    /\ configuring[r].at = "idle"
    /\ configCalls < MaxConfigCalls
    /\ configCalls' = configCalls + 1
    /\ configuring' = [configuring EXCEPT ![r].at = "read", ![r].patch = patch]
    /\ UNCHANGED <<hash, memoryCopy, configFaults>>

\* With its configuration loaded, a GET ends and an update goes on.
Loaded(r, config, fresh) ==
    IF configuring[r].patch = NoConfig
    THEN configuring' = [configuring EXCEPT ![r] = NoConfigCall]
    ELSE configuring' = [configuring EXCEPT ![r].at = "merge", ![r].config = config,
                                            ![r].fresh = fresh]

Complete(h) == \A f \in Settings : h[f] # Blank
Understood(h) == Over(ConfigDefaults, h)
Resolved(h) == IF ConfigValid(Understood(h)) THEN Understood(h) ELSE ConfigDefaults
MemoryFirst == IF memoryCopy = NoConfig THEN Resolved(hash) ELSE memoryCopy
ConfigRead == Resolved(hash)

\* A garbled field is read as its default, and is not what a repair looks for.
ReadHash(r) ==
    /\ configuring[r].at = "read"
    /\ IF Complete(hash) /\ ConfigValid(Understood(hash))
       THEN memoryCopy' = ConfigRead /\ Loaded(r, ConfigRead, TRUE)
       ELSE /\ configuring' = [configuring EXCEPT ![r].at = "repair",
                                                  ![r].config = Resolved(hash)]
            /\ UNCHANGED memoryCopy
    /\ UNCHANGED <<hash, configCalls, configFaults>>

\* A write of the hash: what the other requests have read is not fresh any more.
StaleButFor(r, calls) ==
    [q \in ConfigRequests |->
        IF q = r THEN calls[q] ELSE [calls[q] EXCEPT !.fresh = FALSE]]

RepairHash(r) ==
    /\ configuring[r].at = "repair"
    /\ hash' = configuring[r].config
    /\ memoryCopy' = configuring[r].config
    /\ configuring' = StaleButFor(r,
         [configuring EXCEPT ![r] =
            IF configuring[r].patch = NoConfig THEN NoConfigCall
            ELSE [configuring[r] EXCEPT !.at = "merge", !.fresh = TRUE]])
    /\ UNCHANGED <<configCalls, configFaults>>

\* HGETALL or the repair fails, or there is no client: the copy in memory, or
\* the defaults, are what the request goes on with.
LoadFails(r) ==
    /\ configuring[r].at \in {"read", "repair"}
    /\ configFaults < MaxConfigFaults
    /\ configFaults' = configFaults + 1
    /\ Loaded(r, IF memoryCopy = NoConfig THEN ConfigDefaults ELSE memoryCopy, FALSE)
    /\ UNCHANGED <<hash, memoryCopy, configCalls>>

\* The update is refused or begins to save; saveFull sets the copy first.
MergePatch(r) ==
    /\ configuring[r].at = "merge"
    /\ LET next == Over(configuring[r].config, configuring[r].patch) IN
       IF ConfigValid(next)
       THEN /\ memoryCopy' = next
            /\ configuring' = [configuring EXCEPT ![r].at = "save", ![r].config = next]
       ELSE /\ configuring' = [configuring EXCEPT ![r] = NoConfigCall]
            /\ UNCHANGED memoryCopy
    /\ UNCHANGED <<hash, configCalls, configFaults>>

PatchedFields(r) == Over(hash, configuring[r].patch)
AllFields(r) == configuring[r].config

SaveHash(r) ==
    /\ configuring[r].at = "save"
    /\ hash' = AllFields(r)
    /\ configuring' = StaleButFor(r, [configuring EXCEPT ![r] = NoConfigCall])
    /\ UNCHANGED <<memoryCopy, configCalls, configFaults>>

\* HSET fails, or there is no client: the request succeeds all the same.
SaveFails(r) ==
    /\ configuring[r].at = "save"
    /\ configFaults < MaxConfigFaults
    /\ configFaults' = configFaults + 1
    /\ configuring' = [configuring EXCEPT ![r] = NoConfigCall]
    /\ UNCHANGED <<hash, memoryCopy, configCalls>>

\* A restart: the copy in memory is gone.
RestartConfig ==
    /\ memoryCopy # NoConfig
    /\ memoryCopy' = NoConfig
    /\ configuring' = [r \in ConfigRequests |-> NoConfigCall]
    /\ UNCHANGED <<hash, configCalls, configFaults>>

ConfigStep(r) ==
    \/ BeginConfig(r) \/ ReadHash(r) \/ RepairHash(r) \/ LoadFails(r)
    \/ MergePatch(r) \/ SaveHash(r) \/ SaveFails(r)

ConfigNext == (\E r \in ConfigRequests : ConfigStep(r)) \/ RestartConfig

ConfigSpec == ConfigInit /\ [][ConfigNext]_configVars

(* ------------------------------ properties ------------------------------- *)

Sound(h) == (\A f \in Settings : h[f] \in Values) /\ ConfigValid(h)

\* The game never reads a configuration that mixes two updates: whatever the
\* requests and failures, and although each update was valid only against what
\* its request had read, a complete and valid hash stays one.
HashStaysSound == [][Sound(hash) => Sound(hash')]_configVars

\* Of the settings that its patch does not name, an update changes nothing that
\* is read of the hash, unless its read failed or another request wrote the hash
\* after it.
OtherSettingsKept ==
    [][\A r \in ConfigRequests :
         (configuring[r].at = "save" /\ configuring[r].fresh
            /\ configuring'[r].at = "idle") =>
           \A f \in Settings :
             configuring[r].patch[f] = Blank =>
               Resolved(hash')[f] = Resolved(hash)[f]]_configVars

=============================================================================
