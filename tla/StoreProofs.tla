----------------------------- MODULE StoreProofs ----------------------------
(***************************************************************************)
(* The theorems about three components that keep one thing in several      *)
(* places: the configuration of a game, the restriction of a player and    *)
(* the cover of a case.                                                    *)
(***************************************************************************)
EXTENDS GameConfig, Restrictions, CaseCovers, TLAPS

(* The configuration *)

\* What a request is about to write is a configuration, and a valid one.
WritesSound(r) ==
    configuring[r].at \in {"repair", "save"} => Sound(configuring[r].config)
MergesConfig(r) ==
    configuring[r].at = "merge" => configuring[r].config \in Config

ConfigInv ==
    /\ ConfigTypeOK
    /\ \A r \in ConfigRequests : WritesSound(r) /\ MergesConfig(r)

\* The defaults are a valid configuration.
LEMMA DefaultsAreSound == ConfigDefaults \in Config /\ Sound(ConfigDefaults)
BY ConfigAssumption DEF ConfigDefaults, Config, Values, Settings, Sound, ConfigValid

\* A configuration has a number in every field, and may be the hash.
LEMMA ConfigIsComplete ==
    ASSUME NEW c \in Config
    PROVE  (\A f \in Settings : c[f] \in Values) /\ c \in Hash
BY DEF Config, Hash

\* A configuration with numbers put over it is one.
LEMMA OverIsConfig == ASSUME NEW c \in Config, NEW p PROVE Over(c, p) \in Config
BY DEF Over, Config

\* A sound configuration in the hash is what is read of it.
LEMMA SoundIsRead == ASSUME NEW h \in Config, Sound(h) PROVE Resolved(h) = h
<1>1. Understood(h) = h
      BY DEF Understood, Over, Config
<1> QED BY <1>1 DEF Resolved, Sound

\* What is read of any hash is a valid configuration.
LEMMA ResolvedIsSound ==
    ASSUME NEW h \in Hash PROVE Resolved(h) \in Config /\ Sound(Resolved(h))
BY DefaultsAreSound, ConfigIsComplete, OverIsConfig DEF Resolved, Understood, Sound

\* A request that is idle has its type.
LEMMA NoConfigCallIsCall == NoConfigCall \in ConfigCalls
BY DEF ConfigCalls, NoConfigCall, NoConfig, Patch

\* What follows a load keeps the request in its type, and merges a configuration.
LEMMA LoadedStep ==
    ASSUME ConfigInv, NEW r \in ConfigRequests, NEW c \in Config, NEW f \in BOOLEAN,
           Loaded(r, c, f)
    PROVE  /\ configuring' \in [ConfigRequests -> ConfigCalls]
           /\ \A q \in ConfigRequests : WritesSound(q)' /\ MergesConfig(q)'
<1> DEFINE call == IF configuring[r].patch = NoConfig THEN NoConfigCall
                   ELSE [configuring[r] EXCEPT !.at = "merge", !.config = c, !.fresh = f]
<1>1. configuring' = [configuring EXCEPT ![r] = call]
  BY DEF Loaded, ConfigInv, ConfigTypeOK
<1>2. configuring[r] \in ConfigCalls /\ configuring \in [ConfigRequests -> ConfigCalls]
  BY DEF ConfigInv, ConfigTypeOK
<1>3. call \in ConfigCalls
  BY <1>2, NoConfigCallIsCall DEF ConfigCalls
<1>4. call.at \in {"idle", "merge"} /\ (call.at = "merge" => call.config \in Config)
  BY <1>2, NoConfigCallIsCall DEF NoConfigCall, ConfigCalls
<1>5. ASSUME NEW q \in ConfigRequests PROVE WritesSound(q)' /\ MergesConfig(q)'
  <2>1. CASE q = r
    BY <1>1, <1>2, <1>4, <2>1 DEF WritesSound, MergesConfig
  <2>2. CASE q # r
    <3>1. configuring'[q] = configuring[q]
      BY <1>1, <1>2, <2>2
    <3> QED BY <3>1 DEF WritesSound, MergesConfig, ConfigInv, Sound, ConfigValid
  <2> QED BY <2>1, <2>2
<1> QED BY <1>1, <1>2, <1>3, <1>5

\* The other requests keep what they carry when the hash is written.
LEMMA StaleButForStep ==
    ASSUME ConfigInv, NEW r \in ConfigRequests, NEW call \in ConfigCalls,
           call.at \in {"idle", "merge"},
           call.at = "merge" => call.config \in Config,
           configuring' = StaleButFor(r, [configuring EXCEPT ![r] = call])
    PROVE  /\ configuring' \in [ConfigRequests -> ConfigCalls]
           /\ \A q \in ConfigRequests : WritesSound(q)' /\ MergesConfig(q)'
<1>1. configuring \in [ConfigRequests -> ConfigCalls]
  BY DEF ConfigInv, ConfigTypeOK
<1>2. \A q \in ConfigRequests :
        configuring'[q] = IF q = r THEN call ELSE [configuring[q] EXCEPT !.fresh = FALSE]
  BY <1>1 DEF StaleButFor
<1>3. ASSUME NEW c \in ConfigCalls
      PROVE  /\ [c EXCEPT !.fresh = FALSE] \in ConfigCalls
             /\ [c EXCEPT !.fresh = FALSE].at = c.at
             /\ [c EXCEPT !.fresh = FALSE].config = c.config
  BY <1>3 DEF ConfigCalls
<1>4. configuring' \in [ConfigRequests -> ConfigCalls]
  <2>1. DOMAIN configuring' = ConfigRequests
        /\ configuring' = [q \in DOMAIN configuring' |-> configuring'[q]]
    BY DEF StaleButFor
  <2>2. ASSUME NEW q \in ConfigRequests PROVE configuring'[q] \in ConfigCalls
    <3>1. configuring[q] \in ConfigCalls BY <1>1
    <3> QED BY <1>2, <1>3, <3>1
  <2> QED BY <2>1, <2>2
<1>5. ASSUME NEW q \in ConfigRequests PROVE WritesSound(q)' /\ MergesConfig(q)'
  <2>1. CASE q = r
    BY <1>2, <2>1 DEF WritesSound, MergesConfig
  <2>2. CASE q # r
    <3>1. configuring'[q].at = configuring[q].at
          /\ configuring'[q].config = configuring[q].config
      BY <1>1, <1>2, <1>3, <2>2
    <3> QED BY <3>1 DEF WritesSound, MergesConfig, ConfigInv, Sound, ConfigValid
  <2> QED BY <2>1, <2>2
<1> QED BY <1>4, <1>5

\* A step that replaces one request by one that carries what it may.
LEMMA OneRequestStep ==
    ASSUME ConfigInv, NEW r \in ConfigRequests, NEW call \in ConfigCalls,
           call.at \in {"repair", "save"} => Sound(call.config),
           call.at = "merge" => call.config \in Config,
           configuring' = [configuring EXCEPT ![r] = call]
    PROVE  /\ configuring' \in [ConfigRequests -> ConfigCalls]
           /\ \A q \in ConfigRequests : WritesSound(q)' /\ MergesConfig(q)'
<1>1. configuring \in [ConfigRequests -> ConfigCalls]
  BY DEF ConfigInv, ConfigTypeOK
<1>2. ASSUME NEW q \in ConfigRequests PROVE WritesSound(q)' /\ MergesConfig(q)'
  <2>1. CASE q = r
    <3>1. configuring'[q] = call
      BY <1>1, <2>1
    <3> QED BY <3>1 DEF WritesSound, MergesConfig, Sound, ConfigValid
  <2>2. CASE q # r
    <3>1. configuring'[q] = configuring[q]
      BY <1>1, <2>2
    <3> QED BY <3>1 DEF WritesSound, MergesConfig, ConfigInv, Sound, ConfigValid
  <2> QED BY <2>1, <2>2
<1> QED BY <1>1, <1>2

\* A request has every field in its type.
LEMMA HasItsType ==
    ASSUME ConfigInv, NEW r \in ConfigRequests
    PROVE  configuring[r] \in ConfigCalls
BY DEF ConfigInv, ConfigTypeOK

\* Every step keeps the invariant, and a sound hash sound.
LEMMA ConfigStepKeeps ==
    ConfigInv /\ [ConfigNext]_configVars =>
        ConfigInv' /\ (Sound(hash) => Sound(hash'))
<1> SUFFICES ASSUME ConfigInv, [ConfigNext]_configVars
             PROVE  ConfigInv' /\ (Sound(hash) => Sound(hash'))
  OBVIOUS
<1> DEFINE Calls == configuring' \in [ConfigRequests -> ConfigCalls]
           Carried == \A q \in ConfigRequests : WritesSound(q)' /\ MergesConfig(q)'
<1>t. hash \in Hash /\ memoryCopy \in Config \cup {NoConfig}
      /\ configCalls \in 0..MaxConfigCalls /\ configFaults \in 0..MaxConfigFaults
      /\ MaxConfigCalls \in Nat /\ MaxConfigFaults \in Nat
  BY ConfigAssumption DEF ConfigInv, ConfigTypeOK
<1>1. ASSUME NEW r \in ConfigRequests, BeginConfig(r)
      PROVE  ConfigInv' /\ (Sound(hash) => Sound(hash'))
  <2>1. PICK patch \in ConfigPatches \cup {NoConfig} :
          configuring' = [configuring EXCEPT ![r].at = "read", ![r].patch = patch]
    BY <1>1 DEF BeginConfig
  <2> DEFINE call == [configuring[r] EXCEPT !.at = "read", !.patch = patch]
  <2>3. patch \in Patch
    BY DEF ConfigPatches, NoConfig, Patch
  <2>4. call \in ConfigCalls /\ call.at = "read"
    BY <2>3, HasItsType DEF ConfigCalls
  <2>5. configuring' = [configuring EXCEPT ![r] = call]
    BY <2>1 DEF ConfigInv, ConfigTypeOK
  <2>6. Calls /\ Carried
    BY <2>4, <2>5, OneRequestStep
  <2> QED BY <1>1, <1>t, <2>6 DEF BeginConfig, ConfigInv, ConfigTypeOK
<1>2. ASSUME NEW r \in ConfigRequests, ReadHash(r)
      PROVE  ConfigInv' /\ (Sound(hash) => Sound(hash'))
  <2>1. CASE Complete(hash) /\ ConfigValid(Understood(hash))
    <3>1. ConfigRead \in Config /\ memoryCopy' = ConfigRead /\ Loaded(r, ConfigRead, TRUE)
      BY <1>2, <1>t, <2>1, ResolvedIsSound DEF ReadHash, ConfigRead
    <3>2. Calls /\ Carried
      BY <3>1, LoadedStep
    <3> QED BY <1>2, <1>t, <3>1, <3>2 DEF ReadHash, ConfigInv, ConfigTypeOK
  <2>2. CASE ~(Complete(hash) /\ ConfigValid(Understood(hash)))
    <3> DEFINE call == [configuring[r] EXCEPT !.at = "repair", !.config = Resolved(hash)]
    <3>1. Resolved(hash) \in Config /\ Sound(Resolved(hash))
      BY <1>t, ResolvedIsSound
    <3>2. call \in ConfigCalls /\ call.at = "repair" /\ call.config = Resolved(hash)
      BY <1>2, <3>1, HasItsType DEF ReadHash, ConfigCalls
    <3>3. configuring' = [configuring EXCEPT ![r] = call] /\ memoryCopy' = memoryCopy
      BY <1>2, <2>2 DEF ReadHash, ConfigInv, ConfigTypeOK
    <3>4. Calls /\ Carried
      BY <3>1, <3>2, <3>3, OneRequestStep
    <3> QED BY <1>2, <1>t, <3>3, <3>4 DEF ReadHash, ConfigInv, ConfigTypeOK
  <2> QED BY <2>1, <2>2
<1>3. ASSUME NEW r \in ConfigRequests, RepairHash(r)
      PROVE  ConfigInv' /\ (Sound(hash) => Sound(hash'))
  <2> DEFINE call == IF configuring[r].patch = NoConfig THEN NoConfigCall
                     ELSE [configuring[r] EXCEPT !.at = "merge", !.fresh = TRUE]
  <2>1. Sound(configuring[r].config) /\ configuring[r].config \in Config
    <3>1. Sound(configuring[r].config)
      BY <1>3 DEF RepairHash, ConfigInv, WritesSound
    <3>2. configuring[r].config # NoConfig
      <4>1. "minBet" \in Settings /\ NoConfig["minBet"] = Blank
        BY DEF Settings, NoConfig
      <4>2. Blank \notin Values
        BY ConfigAssumption DEF Blank, Values
      <4> QED BY <3>1, <4>1, <4>2 DEF Sound
    <3> QED BY <1>3, <3>1, <3>2, HasItsType DEF RepairHash, ConfigCalls
  <2>2. call \in ConfigCalls /\ call.at \in {"idle", "merge"}
        /\ (call.at = "merge" => call.config \in Config)
    BY <1>3, <2>1, HasItsType, NoConfigCallIsCall DEF RepairHash, NoConfigCall, ConfigCalls
  <2>3. configuring' = StaleButFor(r, [configuring EXCEPT ![r] = call])
    BY <1>3 DEF RepairHash
  <2>4. Calls /\ Carried
    BY <2>2, <2>3, StaleButForStep
  <2> QED BY <1>3, <1>t, <2>1, <2>4, ConfigIsComplete
          DEF RepairHash, ConfigInv, ConfigTypeOK
<1>4. ASSUME NEW r \in ConfigRequests, LoadFails(r)
      PROVE  ConfigInv' /\ (Sound(hash) => Sound(hash'))
  <2> DEFINE c == IF memoryCopy = NoConfig THEN ConfigDefaults ELSE memoryCopy
  <2>1. c \in Config
    BY <1>t, DefaultsAreSound
  <2>2. Calls /\ Carried
    BY <1>4, <2>1, LoadedStep DEF LoadFails
  <2> QED BY <1>4, <1>t, <2>2 DEF LoadFails, ConfigInv, ConfigTypeOK
<1>5. ASSUME NEW r \in ConfigRequests, MergePatch(r)
      PROVE  ConfigInv' /\ (Sound(hash) => Sound(hash'))
  <2> DEFINE next == Over(configuring[r].config, configuring[r].patch)
  <2>1. next \in Config
    BY <1>5, HasItsType, OverIsConfig DEF MergePatch, ConfigCalls, ConfigInv, MergesConfig
  <2>2. CASE ConfigValid(next)
    <3> DEFINE call == [configuring[r] EXCEPT !.at = "save", !.config = next]
    <3>1. Sound(next)
      BY <2>1, <2>2, ConfigIsComplete DEF Sound
    <3>2. call \in ConfigCalls /\ call.at = "save" /\ call.config = next
      BY <1>5, <2>1, HasItsType DEF MergePatch, ConfigCalls
    <3>3. configuring' = [configuring EXCEPT ![r] = call] /\ memoryCopy' = next
      BY <1>5, <2>2 DEF MergePatch, ConfigInv, ConfigTypeOK
    <3>4. Calls /\ Carried
      BY <3>1, <3>2, <3>3, OneRequestStep
    <3> QED BY <1>5, <1>t, <2>1, <3>3, <3>4 DEF MergePatch, ConfigInv, ConfigTypeOK
  <2>3. CASE ~ConfigValid(next)
    <3>1. configuring' = [configuring EXCEPT ![r] = NoConfigCall]
          /\ memoryCopy' = memoryCopy
      BY <1>5, <2>3 DEF MergePatch
    <3>2. NoConfigCall.at = "idle"
      BY DEF NoConfigCall
    <3>3. Calls /\ Carried
      BY <3>1, <3>2, NoConfigCallIsCall, OneRequestStep
    <3> QED BY <1>5, <1>t, <3>1, <3>3 DEF MergePatch, ConfigInv, ConfigTypeOK
  <2> QED BY <2>2, <2>3
<1>6. ASSUME NEW r \in ConfigRequests, SaveHash(r)
      PROVE  ConfigInv' /\ (Sound(hash) => Sound(hash'))
  <2>1. Sound(hash') /\ hash' \in Hash
    <3>1. Sound(configuring[r].config)
      BY <1>6 DEF SaveHash, ConfigInv, WritesSound
    <3>2. configuring[r].config \in Config \cup {NoConfig}
      BY <1>6, HasItsType DEF SaveHash, ConfigCalls
    <3>3. NoConfig \in Hash
      BY DEF NoConfig, Hash
    <3> QED BY <1>6, <3>1, <3>2, <3>3, ConfigIsComplete DEF SaveHash, AllFields
  <2>2. NoConfigCall.at = "idle"
    BY DEF NoConfigCall
  <2>3. Calls /\ Carried
    BY <1>6, <2>2, NoConfigCallIsCall, StaleButForStep DEF SaveHash
  <2> QED BY <1>6, <1>t, <2>1, <2>3 DEF SaveHash, ConfigInv, ConfigTypeOK
<1>7. ASSUME NEW r \in ConfigRequests, SaveFails(r)
      PROVE  ConfigInv' /\ (Sound(hash) => Sound(hash'))
  <2>1. NoConfigCall.at = "idle"
    BY DEF NoConfigCall
  <2>2. Calls /\ Carried
    BY <1>7, <2>1, NoConfigCallIsCall, OneRequestStep DEF SaveFails
  <2> QED BY <1>7, <1>t, <2>2 DEF SaveFails, ConfigInv, ConfigTypeOK
<1>8. CASE RestartConfig
  <2>1. NoConfigCall.at = "idle"
    BY DEF NoConfigCall
  <2>2. Calls /\ Carried
    BY <1>8, <2>1, NoConfigCallIsCall DEF RestartConfig, WritesSound, MergesConfig
  <2> QED BY <1>8, <1>t, <2>2 DEF RestartConfig, ConfigInv, ConfigTypeOK
<1>9. CASE UNCHANGED configVars
  BY <1>9 DEF configVars, ConfigInv, ConfigTypeOK, WritesSound, MergesConfig, Sound,
     ConfigValid
<1> QED BY <1>1, <1>2, <1>3, <1>4, <1>5, <1>6, <1>7, <1>8, <1>9
        DEF ConfigNext, ConfigStep

(***************************************************************************)
(* A complete and valid hash stays one, for any number of requests and     *)
(* any settings.                                                           *)
(***************************************************************************)
THEOREM HashIsAlwaysSound == ConfigSpec => HashStaysSound
<1>1. ConfigInit => ConfigInv
  <2> SUFFICES ASSUME ConfigInit PROVE ConfigInv
    OBVIOUS
  <2>1. NoConfigCall.at = "idle"
    BY DEF NoConfigCall
  <2> QED BY <2>1, NoConfigCallIsCall, ConfigAssumption
          DEF ConfigInit, ConfigInv, ConfigTypeOK, WritesSound, MergesConfig
<1>2. ConfigInv /\ [ConfigNext]_configVars => [Sound(hash) => Sound(hash')]_configVars
  BY ConfigStepKeeps
<1> QED BY <1>1, <1>2, ConfigStepKeeps, PTL DEF ConfigSpec, HashStaysSound

\* What a request with a fresh read carries is what is read of the hash, with
\* its patch once it has been merged.
FreshKnows(r) ==
    configuring[r].fresh =>
        /\ configuring[r].at = "merge" => configuring[r].config = Resolved(hash)
        /\ configuring[r].at = "save" =>
              configuring[r].config = Over(Resolved(hash), configuring[r].patch)

FreshInv == \A r \in ConfigRequests : FreshKnows(r)

\* A step that leaves the hash alone and replaces one request by one that knows
\* it, if it is fresh.
LEMMA FreshStep ==
    ASSUME ConfigInv, FreshInv, NEW r \in ConfigRequests, NEW call,
           configuring' = [configuring EXCEPT ![r] = call], hash' = hash,
           call.fresh => /\ call.at = "merge" => call.config = Resolved(hash)
                         /\ call.at = "save" =>
                               call.config = Over(Resolved(hash), call.patch)
    PROVE  FreshInv'
<1> SUFFICES ASSUME NEW q \in ConfigRequests PROVE FreshKnows(q)'
    BY DEF FreshInv
<1>1. configuring'[q] = IF q = r THEN call ELSE configuring[q]
      BY DEF ConfigInv, ConfigTypeOK
<1>2. Resolved(hash)' = Resolved(hash)
      BY DEF Resolved, Understood, Over
<1>3. CASE q = r BY <1>1, <1>2, <1>3 DEF FreshKnows, Over
<1>4. CASE q # r BY <1>1, <1>2, <1>4 DEF FreshKnows, Over, FreshInv
<1> QED BY <1>3, <1>4

\* A write of the hash: nobody else is fresh any more.
LEMMA StaleStep ==
    ASSUME ConfigInv, NEW r \in ConfigRequests, NEW call,
           configuring' = StaleButFor(r, [configuring EXCEPT ![r] = call]),
           call.fresh => call.at = "merge" /\ call.config = Resolved(hash')
    PROVE  FreshInv'
<1> SUFFICES ASSUME NEW q \in ConfigRequests PROVE FreshKnows(q)'
    BY DEF FreshInv
<1>1. configuring'[q] = IF q = r THEN call
                        ELSE [configuring[q] EXCEPT !.fresh = FALSE]
      BY DEF StaleButFor, ConfigInv, ConfigTypeOK
<1>2. CASE q = r BY <1>1, <1>2 DEF FreshKnows
<1>3. CASE q # r
  <2>1. ~configuring'[q].fresh
        BY <1>1, <1>3, HasItsType DEF ConfigCalls
  <2> QED BY <2>1 DEF FreshKnows
<1> QED BY <1>2, <1>3

\* What a request is about to write is what will be read of it.
LEMMA WrittenIsRead ==
    ASSUME ConfigInv, NEW r \in ConfigRequests, configuring[r].at \in {"repair", "save"}
    PROVE  Resolved(configuring[r].config) = configuring[r].config
<1>1. Sound(configuring[r].config)
      BY DEF ConfigInv, WritesSound
<1>2. configuring[r].config # NoConfig
  <2>1. "minBet" \in Settings /\ NoConfig["minBet"] = Blank
        BY DEF Settings, NoConfig
  <2>2. Blank \notin Values
        BY ConfigAssumption DEF Blank, Values
  <2> QED BY <1>1, <2>1, <2>2 DEF Sound
<1> QED BY <1>1, <1>2, HasItsType, SoundIsRead DEF ConfigCalls

\* Going on with a configuration that was read of the hash if it is called fresh.
LEMMA LoadedFresh ==
    ASSUME ConfigInv, FreshInv, NEW r \in ConfigRequests, NEW c,
           NEW f \in BOOLEAN, Loaded(r, c, f), hash' = hash,
           f => c = Resolved(hash)
    PROVE  FreshInv'
<1> DEFINE call == IF configuring[r].patch = NoConfig THEN NoConfigCall
                   ELSE [configuring[r] EXCEPT !.at = "merge", !.config = c,
                                               !.fresh = f]
<1>1. configuring' = [configuring EXCEPT ![r] = call]
      BY DEF Loaded, ConfigInv, ConfigTypeOK
<1>2. call.fresh => call.at = "merge" /\ call.config = Resolved(hash)
      BY HasItsType DEF NoConfigCall, ConfigCalls
<1> HIDE DEF call
<1> QED BY <1>1, <1>2, FreshStep

\* Every step keeps what the fresh requests know.
LEMMA FreshStepKeeps ==
    ASSUME ConfigInv, FreshInv, [ConfigNext]_configVars
    PROVE  FreshInv'
<1>1. ASSUME NEW r \in ConfigRequests, BeginConfig(r)
      PROVE  FreshInv'
  <2>1. PICK patch \in ConfigPatches \cup {NoConfig} :
          configuring' = [configuring EXCEPT ![r].at = "read", ![r].patch = patch]
    BY <1>1 DEF BeginConfig
  <2> DEFINE call == [configuring[r] EXCEPT !.at = "read", !.patch = patch]
  <2>2. configuring' = [configuring EXCEPT ![r] = call]
        BY <2>1 DEF ConfigInv, ConfigTypeOK
  <2>3. call.at = "read" BY HasItsType DEF ConfigCalls
  <2>4. hash' = hash BY <1>1 DEF BeginConfig
  <2> HIDE DEF call
  <2> QED BY <2>2, <2>3, <2>4, FreshStep
<1>2. ASSUME NEW r \in ConfigRequests, ReadHash(r)
      PROVE  FreshInv'
  <2>1. CASE Complete(hash) /\ ConfigValid(Understood(hash))
        BY <1>2, <2>1, LoadedFresh DEF ReadHash, ConfigRead
  <2>2. CASE ~(Complete(hash) /\ ConfigValid(Understood(hash)))
    <3> DEFINE call == [configuring[r] EXCEPT !.at = "repair",
                                              !.config = Resolved(hash)]
    <3>1. configuring' = [configuring EXCEPT ![r] = call] /\ hash' = hash
          BY <1>2, <2>2 DEF ReadHash, ConfigInv, ConfigTypeOK
    <3>2. call.at = "repair" BY HasItsType DEF ConfigCalls
    <3> HIDE DEF call
    <3> QED BY <3>1, <3>2, FreshStep
  <2> QED BY <2>1, <2>2
<1>3. ASSUME NEW r \in ConfigRequests, RepairHash(r)
      PROVE  FreshInv'
  <2> DEFINE call == IF configuring[r].patch = NoConfig THEN NoConfigCall
                     ELSE [configuring[r] EXCEPT !.at = "merge", !.fresh = TRUE]
  <2>1. /\ configuring' = StaleButFor(r, [configuring EXCEPT ![r] = call])
        /\ hash' = configuring[r].config
        BY <1>3 DEF RepairHash
  <2>2. call.fresh => call.at = "merge" /\ call.config = hash'
        BY <2>1, HasItsType DEF NoConfigCall, ConfigCalls
  <2>3. Resolved(hash') = hash'
        BY <1>3, <2>1, WrittenIsRead DEF RepairHash
  <2> HIDE DEF call
  <2> QED BY <2>1, <2>2, <2>3, StaleStep
<1>4. ASSUME NEW r \in ConfigRequests, LoadFails(r)
      PROVE  FreshInv'
      BY <1>4, LoadedFresh DEF LoadFails
<1>5. ASSUME NEW r \in ConfigRequests, MergePatch(r)
      PROVE  FreshInv'
  <2> DEFINE next == Over(configuring[r].config, configuring[r].patch)
  <2>1. hash' = hash /\ configuring[r].at = "merge" BY <1>5 DEF MergePatch
  <2>2. CASE ConfigValid(next)
    <3> DEFINE call == [configuring[r] EXCEPT !.at = "save", !.config = next]
    <3>1. configuring' = [configuring EXCEPT ![r] = call]
          BY <1>5, <2>2 DEF MergePatch, ConfigInv, ConfigTypeOK
    <3>2. /\ call.at = "save" /\ call.config = next
          /\ call.fresh = configuring[r].fresh
          /\ call.patch = configuring[r].patch
      <4> HIDE DEF next
      <4> QED BY HasItsType DEF ConfigCalls
    <3>3. configuring[r].fresh =>
            next = Over(Resolved(hash), configuring[r].patch)
          BY <2>1 DEF FreshInv, FreshKnows
    <3> HIDE DEF call, next
    <3> QED BY <2>1, <3>1, <3>2, <3>3, FreshStep
  <2>3. CASE ~ConfigValid(next)
    <3>1. configuring' = [configuring EXCEPT ![r] = NoConfigCall]
          BY <1>5, <2>3 DEF MergePatch
    <3>2. NoConfigCall.fresh = FALSE BY DEF NoConfigCall
    <3> QED BY <2>1, <3>1, <3>2, FreshStep
  <2> QED BY <2>2, <2>3
<1>6. ASSUME NEW r \in ConfigRequests, SaveHash(r)
      PROVE  FreshInv'
  <2>1. NoConfigCall.fresh = FALSE BY DEF NoConfigCall
  <2> QED BY <1>6, <2>1, StaleStep DEF SaveHash
<1>7. ASSUME NEW r \in ConfigRequests, SaveFails(r)
      PROVE  FreshInv'
  <2>1. NoConfigCall.fresh = FALSE BY DEF NoConfigCall
  <2> QED BY <1>7, <2>1, FreshStep DEF SaveFails
<1>8. CASE RestartConfig
      BY <1>8 DEF RestartConfig, FreshInv, FreshKnows, NoConfigCall
<1>9. CASE UNCHANGED configVars
      BY <1>9 DEF configVars, FreshInv, FreshKnows, Resolved, Understood, Over
<1> QED BY <1>1, <1>2, <1>3, <1>4, <1>5, <1>6, <1>7, <1>8, <1>9
        DEF ConfigNext, ConfigStep

\* What an update leaves behind, when its read was fresh.
LEMMA SaveKeepsOthers ==
    ASSUME ConfigInv, FreshInv, [ConfigNext]_configVars, NEW r \in ConfigRequests,
           configuring[r].at = "save", configuring[r].fresh,
           configuring'[r].at = "idle", NEW f \in Settings,
           configuring[r].patch[f] = Blank
    PROVE  Resolved(hash')[f] = Resolved(hash)[f]
<1>1. CASE hash' = hash BY <1>1
<1>2. ASSUME NEW q \in ConfigRequests, RepairHash(q) \/ SaveHash(q), q # r
      PROVE  FALSE
  <2>1. configuring'[r] = [configuring[r] EXCEPT !.fresh = FALSE]
        BY <1>2 DEF RepairHash, SaveHash, StaleButFor, ConfigInv, ConfigTypeOK
  <2>2. configuring'[r].at = "save" BY <2>1, HasItsType DEF ConfigCalls
  <2> QED BY <2>2
<1>3. CASE SaveHash(r)
  <2>1. hash' = configuring[r].config
        BY <1>3 DEF SaveHash, AllFields
  <2>2. configuring[r].config = Over(Resolved(hash), configuring[r].patch)
        BY <1>3 DEF SaveHash, FreshInv, FreshKnows
  <2>3. Resolved(hash') = hash'
        BY <2>1, WrittenIsRead
  <2>4. Blank \notin Values
        BY ConfigAssumption DEF Blank, Values
  <2> QED BY <2>1, <2>2, <2>3, <2>4 DEF Over
<1>4. ~RepairHash(r) BY DEF RepairHash
<1>5. ASSUME NEW q \in ConfigRequests, ConfigStep(q)
      PROVE  hash' = hash \/ RepairHash(q) \/ SaveHash(q)
      BY <1>5 DEF ConfigStep, BeginConfig, ReadHash, LoadFails, MergePatch, SaveFails
<1> QED BY <1>1, <1>2, <1>3, <1>4, <1>5 DEF ConfigNext, RestartConfig, configVars

(***************************************************************************)
(* An update keeps what is read of the settings its patch does not name,   *)
(* although it writes every field, and whatever the hash held before: the  *)
(* flag of a fresh read is enough, for any number of requests at once.     *)
(***************************************************************************)
THEOREM OthersAreKept == ConfigSpec => OtherSettingsKept
<1>1. ConfigInit => ConfigInv /\ FreshInv
  <2> SUFFICES ASSUME ConfigInit PROVE ConfigInv /\ FreshInv
    OBVIOUS
  <2>1. NoConfigCall.at = "idle" BY DEF NoConfigCall
  <2> QED BY <2>1, NoConfigCallIsCall, ConfigAssumption
          DEF ConfigInit, ConfigInv, ConfigTypeOK, WritesSound, MergesConfig,
              FreshInv, FreshKnows
<1>2. ConfigInv /\ FreshInv /\ [ConfigNext]_configVars => ConfigInv' /\ FreshInv'
      BY ConfigStepKeeps, FreshStepKeeps
<1>3. ConfigInv /\ FreshInv /\ [ConfigNext]_configVars =>
        [\A r \in ConfigRequests :
           (configuring[r].at = "save" /\ configuring[r].fresh
              /\ configuring'[r].at = "idle") =>
             \A f \in Settings :
               configuring[r].patch[f] = Blank =>
                 Resolved(hash')[f] = Resolved(hash)[f]]_configVars
      BY SaveKeepsOthers
<1> QED BY <1>1, <1>2, <1>3, PTL DEF ConfigSpec, OtherSettingsKept

(* The restriction of a player *)

\* Requests that have written the row and not yet all of Redis.
Pending == {q \in RestrictRequests :
              restricting[q].at \in {"cache", "uncache", "counters"}}

\* With none of them, and nothing gone wrong, Redis has what the row says.
Agreed == /\ restrictionCopy = restriction
          /\ counters => HasLimit(restriction)
AgreedAtRest == Pending = {} /\ ~inDoubt => Agreed

\* A request that has stayed alone is the only one, and what it has left to
\* write is the row.
Lone(q) ==
    (restricting[q].alone /\ restricting[q].at # "idle") =>
        /\ Restricting = {q}
        /\ restricting[q].at = "cache" => restriction = restricting[q].saved
        /\ restricting[q].at = "uncache" => restriction = NoRestriction
        /\ restricting[q].at = "counters" => restriction = restrictionCopy

RestrictInv ==
    /\ restriction \in Restriction
    /\ restricting \in [RestrictRequests -> RestrictCalls]
    /\ AgreedAtRest
    /\ \A q \in RestrictRequests : Lone(q)

\* A request that is idle has its type.
LEMMA NoRestrictCallIsCall ==
    /\ NoRestrictCall \in RestrictCalls
    /\ NoRestrictCall.at = "idle"
BY DEF NoRestrictCall, RestrictCalls, Restriction

\* While request q is underway the others are idle or not alone.
LEMMA OthersAreNotAlone ==
    ASSUME RestrictInv, NEW q \in RestrictRequests, restricting[q].at # "idle",
           NEW p \in RestrictRequests, p # q, restricting[p].at # "idle"
    PROVE  ~restricting[p].alone
BY DEF RestrictInv, Lone, Restricting

\* A step that replaces request q, which is underway, by call: Lone holds of
\* the others, and of q if what it carries is right.
LEMMA LoneStep ==
    ASSUME RestrictInv, NEW q \in RestrictRequests, restricting[q].at # "idle",
           NEW call \in RestrictCalls,
           restricting' = [restricting EXCEPT ![q] = call],
           (call.alone /\ call.at # "idle") =>
              /\ restricting[q].alone
              /\ call.at = "cache" => restriction' = call.saved
              /\ call.at = "uncache" => restriction' = NoRestriction
              /\ call.at = "counters" => restriction' = restrictionCopy'
    PROVE  /\ restricting' \in [RestrictRequests -> RestrictCalls]
           /\ \A p \in RestrictRequests : Lone(p)'
           /\ Pending' = IF call.at \in {"cache", "uncache", "counters"}
                         THEN Pending \cup {q} ELSE Pending \ {q}
<1>1. restricting \in [RestrictRequests -> RestrictCalls]
  BY DEF RestrictInv
<1>2. \A p \in RestrictRequests :
        restricting'[p] = IF p = q THEN call ELSE restricting[p]
  BY <1>1
<1>3. ASSUME NEW p \in RestrictRequests PROVE Lone(p)'
  <2>1. CASE p = q
    <3>1. SUFFICES ASSUME call.alone, call.at # "idle"
                   PROVE  Restricting' = {q}
      BY <1>2, <2>1 DEF Lone
    <3>2. Restricting = {q}
      BY <3>1 DEF RestrictInv, Lone
    <3> QED BY <1>2, <3>1, <3>2 DEF Restricting
  <2>2. CASE p # q
    BY <1>2, <2>2, OthersAreNotAlone DEF Lone
  <2> QED BY <2>1, <2>2
<1>4. Pending' = IF call.at \in {"cache", "uncache", "counters"}
                 THEN Pending \cup {q} ELSE Pending \ {q}
  BY <1>2 DEF Pending
<1> QED BY <1>1, <1>3, <1>4

\* The same where the request ends.
LEMMA EndStep ==
    ASSUME RestrictInv, NEW q \in RestrictRequests, restricting[q].at # "idle",
           EndRestrict(q)
    PROVE  /\ restricting' \in [RestrictRequests -> RestrictCalls]
           /\ \A p \in RestrictRequests : Lone(p)'
           /\ Pending' = Pending \ {q}
BY NoRestrictCallIsCall, LoneStep DEF EndRestrict

\* A request that begins.
LEMMA BeginStep ==
    ASSUME RestrictInv, NEW q \in RestrictRequests, NEW kind \in RestrictKinds,
           NEW first \in {"find", "upsert", "remove"}, NEW saved \in Restriction,
           BeginRestrict(q, kind, first, saved)
    PROVE  RestrictInv'
<1> DEFINE call == [at |-> first, kind |-> kind, saved |-> saved,
                    alone |-> Restricting = {}]
<1>1. restricting \in [RestrictRequests -> RestrictCalls]
  BY DEF RestrictInv
<1>2. call \in RestrictCalls
  BY DEF RestrictCalls
<1>3. \A p \in RestrictRequests :
        restricting'[p] = IF p = q THEN call
                          ELSE IF p \in Restricting
                          THEN [restricting[p] EXCEPT !.alone = FALSE]
                          ELSE restricting[p]
  BY DEF BeginRestrict
<1>4. ASSUME NEW p \in RestrictRequests
      PROVE  /\ [restricting[p] EXCEPT !.alone = FALSE] \in RestrictCalls
             /\ [restricting[p] EXCEPT !.alone = FALSE].at = restricting[p].at
             /\ ~[restricting[p] EXCEPT !.alone = FALSE].alone
  BY <1>1 DEF RestrictCalls
<1>5. restricting' \in [RestrictRequests -> RestrictCalls]
  <2>1. restricting' = [p \in RestrictRequests |-> restricting'[p]]
    BY DEF BeginRestrict
  <2> QED BY <1>1, <1>2, <1>3, <1>4, <2>1
<1>6. q \notin Pending /\ Pending' = Pending
  BY <1>3, <1>4 DEF Pending, BeginRestrict
<1>7. ASSUME NEW p \in RestrictRequests PROVE Lone(p)'
  <2>1. CASE p = q
    <3>1. /\ restricting'[q].at \in {"find", "upsert", "remove"}
          /\ restricting'[q].alone => Restricting = {}
      <4>1. restricting'[q] = call
        BY <1>3
      <4>2. call.at = first /\ (call.alone => Restricting = {})
        OBVIOUS
      <4> QED BY <4>1, <4>2
    <3>2. SUFFICES ASSUME Restricting = {} PROVE Restricting' = {q}
      BY <2>1, <3>1 DEF Lone
    <3>3. \A o \in RestrictRequests : o # q => restricting'[o].at = "idle"
      BY <1>3, <3>2 DEF Restricting
    <3> QED BY <3>1, <3>3 DEF Restricting
  <2>2. CASE p # q
    BY <1>3, <1>4, <2>2 DEF Lone, Restricting
  <2> QED BY <2>1, <2>2
<1> QED BY <1>5, <1>6, <1>7 DEF RestrictInv, AgreedAtRest, Agreed, BeginRestrict

\* Every step keeps the invariant.
LEMMA RestrictStepKeeps == RestrictInv /\ [RestrictNext]_restrictVars => RestrictInv'
<1> SUFFICES ASSUME RestrictInv, [RestrictNext]_restrictVars PROVE RestrictInv'
  OBVIOUS
<1>t. restricting \in [RestrictRequests -> RestrictCalls] /\ restriction \in Restriction
  BY DEF RestrictInv
<1>1. ASSUME NEW q \in RestrictRequests,
             SetRestriction(q) \/ BanOrUnban(q) \/ DeleteRestriction(q)
      PROVE  RestrictInv'
  <2>1. CASE SetRestriction(q)
    <3>1. PICK banned \in BOOLEAN, limit \in Limits \cup {"none"} :
            BeginRestrict(q, "set", "upsert", [banned |-> banned, limit |-> limit])
      BY <2>1 DEF SetRestriction
    <3>2. [banned |-> banned, limit |-> limit] \in Restriction
      BY DEF Restriction
    <3> QED BY <3>1, <3>2, BeginStep DEF RestrictKinds
  <2>2. NoRestriction \in Restriction
    BY DEF Restriction
  <2>3. CASE BanOrUnban(q)
    <3>1. PICK kind \in {"ban", "unban"} : BeginRestrict(q, kind, "find", NoRestriction)
      BY <2>3 DEF BanOrUnban
    <3> QED BY <2>2, <3>1, BeginStep DEF RestrictKinds
  <2>4. CASE DeleteRestriction(q)
    BY <2>2, <2>4, BeginStep DEF DeleteRestriction, RestrictKinds
  <2> QED BY <1>1, <2>1, <2>3, <2>4
<1>2. ASSUME NEW q \in RestrictRequests, FindRestriction(q) PROVE RestrictInv'
  <2>1. q \notin Pending /\ restricting[q].at # "idle"
        /\ UNCHANGED <<restriction, restrictionCopy, counters, inDoubt>>
    BY <1>2 DEF Pending, FindRestriction
  <2>2. CASE EndRestrict(q)
    <3>1. Pending' = Pending
      BY <2>1, <2>2, EndStep
    <3> QED BY <1>t, <2>1, <2>2, <3>1, EndStep DEF RestrictInv, AgreedAtRest, Agreed
  <2>3. CASE ~EndRestrict(q)
    <3> DEFINE to == [banned |-> restricting[q].kind = "ban",
                      limit |-> KeptLimit(restriction)]
               call == [restricting[q] EXCEPT !.at = "upsert", !.saved = to]
    <3>1. restricting' = [restricting EXCEPT ![q] = call]
      BY <1>2, <1>t, <2>3 DEF FindRestriction
    <3>2. to \in Restriction
      BY <1>t DEF Restriction, KeptLimit
    <3>3. call \in RestrictCalls /\ call.at = "upsert" /\ call.alone = restricting[q].alone
      BY <1>t, <3>2 DEF RestrictCalls
    <3>4. /\ restricting' \in [RestrictRequests -> RestrictCalls]
          /\ \A p \in RestrictRequests : Lone(p)'
          /\ Pending' = Pending
      <4>1. (call.alone /\ call.at # "idle") => restricting[q].alone
        BY <3>3
      <4>2. call.at \notin {"idle", "cache", "uncache", "counters"}
        BY <3>3
      <4>3. call \in RestrictCalls
        BY <3>3
      <4> HIDE DEF call
      <4>4. /\ restricting' \in [RestrictRequests -> RestrictCalls]
            /\ \A p \in RestrictRequests : Lone(p)'
            /\ Pending' = Pending \ {q}
        BY <2>1, <3>1, <4>1, <4>2, <4>3, LoneStep
      <4> QED BY <2>1, <4>4
    <3> QED BY <1>t, <2>1, <3>4 DEF RestrictInv, AgreedAtRest, Agreed
  <2> QED BY <2>2, <2>3
<1>3. ASSUME NEW q \in RestrictRequests, UpsertRestriction(q) \/ RemoveRestriction(q)
      PROVE  RestrictInv'
  <2> DEFINE at == IF restricting[q].at = "upsert" THEN "cache" ELSE "uncache"
             call == [restricting[q] EXCEPT !.at = at]
  <2>1. /\ restricting[q].at # "idle"
        /\ restricting' = [restricting EXCEPT ![q] = call]
        /\ restriction' = IF at = "cache" THEN restricting[q].saved ELSE NoRestriction
    BY <1>3, <1>t DEF UpsertRestriction, RemoveRestriction, AfterRemoval, Reach
  <2>2. /\ call \in RestrictCalls /\ call.at = at
        /\ call.alone = restricting[q].alone /\ call.saved = restricting[q].saved
    BY <1>t DEF RestrictCalls
  <2>3. /\ restricting' \in [RestrictRequests -> RestrictCalls]
        /\ \A p \in RestrictRequests : Lone(p)'
        /\ Pending' = Pending \cup {q}
    <3>1. /\ (call.alone /\ call.at # "idle") => restricting[q].alone
          /\ call.at = "cache" => restriction' = call.saved
          /\ call.at = "uncache" => restriction' = NoRestriction
          /\ call.at \in {"cache", "uncache"}
      BY <2>1, <2>2
    <3> HIDE DEF call, at
    <3> QED BY <2>1, <2>2, <3>1, LoneStep
  <2>4. restriction' \in Restriction
    BY <1>t, <2>1 DEF RestrictCalls, Restriction
  <2> QED BY <2>3, <2>4 DEF RestrictInv, AgreedAtRest
<1>4. ASSUME NEW q \in RestrictRequests, CacheRestriction(q) PROVE RestrictInv'
  <2>1. restricting[q].at = "cache" /\ restriction' = restriction
    BY <1>4 DEF CacheRestriction
  <2>2. CASE HasLimit(restricting[q].saved)
    <3>1. EndRestrict(q) /\ inDoubt' = ~restricting[q].alone
          /\ restrictionCopy' = restricting[q].saved
      BY <1>4, <2>2 DEF CacheRestriction, DoubtAfter
    <3>2. restricting[q].alone => restriction = restricting[q].saved
      BY <2>1 DEF RestrictInv, Lone
    <3> QED BY <1>t, <2>1, <2>2, <3>1, <3>2, EndStep
            DEF RestrictInv, AgreedAtRest, Agreed
  <2>3. CASE ~HasLimit(restricting[q].saved)
    <3> DEFINE call == [restricting[q] EXCEPT !.at = "counters"]
    <3>1. restricting' = [restricting EXCEPT ![q] = call]
          /\ restrictionCopy' = restricting[q].saved
      BY <1>4, <1>t, <2>3 DEF CacheRestriction, Reach
    <3>2. call \in RestrictCalls /\ call.at = "counters"
          /\ call.alone = restricting[q].alone
      BY <1>t DEF RestrictCalls
    <3>3. restricting[q].alone => restriction' = restrictionCopy'
      BY <2>1, <3>1 DEF RestrictInv, Lone
    <3>4. /\ restricting' \in [RestrictRequests -> RestrictCalls]
          /\ \A p \in RestrictRequests : Lone(p)'
          /\ Pending' = Pending \cup {q}
      BY <2>1, <3>1, <3>2, <3>3, LoneStep
    <3> QED BY <1>t, <2>1, <3>4 DEF RestrictInv, AgreedAtRest
  <2> QED BY <2>2, <2>3
<1>5. ASSUME NEW q \in RestrictRequests, UncacheRestriction(q) PROVE RestrictInv'
  <2> DEFINE call == [restricting[q] EXCEPT !.at = "counters"]
  <2>1. /\ restricting[q].at = "uncache" /\ restriction' = restriction
        /\ restricting' = [restricting EXCEPT ![q] = call]
        /\ restrictionCopy' = NoRestriction
    BY <1>5, <1>t DEF UncacheRestriction, Reach
  <2>2. call \in RestrictCalls /\ call.at = "counters" /\ call.alone = restricting[q].alone
    BY <1>t DEF RestrictCalls
  <2>3. restricting[q].alone => restriction' = restrictionCopy'
    BY <2>1 DEF RestrictInv, Lone
  <2>4. /\ restricting' \in [RestrictRequests -> RestrictCalls]
        /\ \A p \in RestrictRequests : Lone(p)'
        /\ Pending' = Pending \cup {q}
    BY <2>1, <2>2, <2>3, LoneStep
  <2> QED BY <1>t, <2>1, <2>4 DEF RestrictInv, AgreedAtRest
<1>6. ASSUME NEW q \in RestrictRequests, DeleteWagerKeys(q) PROVE RestrictInv'
  <2>1. /\ restricting[q].at = "counters" /\ EndRestrict(q) /\ ~counters'
        /\ inDoubt' = ~restricting[q].alone
        /\ UNCHANGED <<restriction, restrictionCopy>>
    BY <1>6 DEF DeleteWagerKeys, DoubtAfter
  <2>2. restricting[q].alone => restriction = restrictionCopy
    BY <2>1 DEF RestrictInv, Lone
  <2> QED BY <1>t, <2>1, <2>2, EndStep DEF RestrictInv, AgreedAtRest, Agreed
<1>7. ASSUME NEW q \in RestrictRequests, RestrictQueryFails(q) PROVE RestrictInv'
  <2>1. /\ restricting[q].at # "idle" /\ q \notin Pending /\ EndRestrict(q)
        /\ UNCHANGED <<restriction, restrictionCopy, counters, inDoubt>>
    BY <1>7 DEF RestrictQueryFails, Pending
  <2>2. Pending' = Pending
    BY <2>1, EndStep
  <2> QED BY <1>t, <2>1, <2>2, EndStep DEF RestrictInv, AgreedAtRest, Agreed
<1>8. ASSUME NEW q \in RestrictRequests, RestrictRedisFails(q) PROVE RestrictInv'
  <2>1. restricting[q].at # "idle" /\ EndRestrict(q) /\ inDoubt' /\ restriction' = restriction
    BY <1>8 DEF RestrictRedisFails
  <2> QED BY <1>t, <2>1, EndStep DEF RestrictInv, AgreedAtRest
<1>9. CASE RestartRestrictions
  <2>1. \A q \in RestrictRequests : restricting'[q] = NoRestrictCall
    BY <1>9 DEF RestartRestrictions
  <2>2. restricting' \in [RestrictRequests -> RestrictCalls]
        /\ (\A q \in RestrictRequests : Lone(q)') /\ Pending' = {}
    BY <1>9, <2>1, NoRestrictCallIsCall DEF RestartRestrictions, Lone, Pending
  <2>3. Restricting = {} => Pending = {}
    BY DEF Restricting, Pending
  <2>4. restriction' = restriction
    BY <1>9 DEF RestartRestrictions
  <2>5. AgreedAtRest'
    <3>1. CASE /\ restrictionCopy' = restriction
               /\ counters' = (counters /\ HasLimit(restriction))
      BY <2>4, <3>1 DEF AgreedAtRest, Agreed
    <3>2. CASE /\ inDoubt' = (inDoubt \/ Restricting # {})
               /\ UNCHANGED <<restrictionCopy, counters>>
      <4>1. ~inDoubt' => ~inDoubt /\ Restricting = {}
        BY <3>2
      <4> QED BY <2>3, <2>4, <3>2, <4>1 DEF RestrictInv, AgreedAtRest, Agreed
    <3> QED BY <1>9, <3>1, <3>2 DEF RestartRestrictions
  <2> QED BY <1>t, <2>2, <2>4, <2>5 DEF RestrictInv
<1>10. CASE ReadCopy \/ AddWager \/ CountersExpire \/ UNCHANGED restrictVars
  <2>1. UNCHANGED <<restriction, restrictionCopy, restricting>>
    BY <1>10 DEF ReadCopy, AddWager, CountersExpire, restrictVars
  <2>2. Pending' = Pending /\ \A q \in RestrictRequests : Lone(q)'
    BY <2>1 DEF Pending, Lone, RestrictInv, Restricting
  <2>3. AgreedAtRest'
    BY <1>10, <2>1, <2>2 DEF ReadCopy, AddWager, CountersExpire, restrictVars,
       RestrictInv, AgreedAtRest, Agreed, HasLimit
  <2> QED BY <2>1, <2>2, <2>3 DEF RestrictInv
<1> QED BY <1>1, <1>2, <1>3, <1>4, <1>5, <1>6, <1>7, <1>8, <1>9, <1>10
        DEF RestrictNext, RestrictStep

(***************************************************************************)
(* Redis has what the row says whenever no request is underway and nothing *)
(* has gone wrong since the last request that was alone; for any number of *)
(* requests, limits and failures.                                          *)
(***************************************************************************)
THEOREM CopyFollowsRow == RestrictSpec => []CopyIsRow
<1>1. RestrictInit => RestrictInv
  <2> SUFFICES ASSUME RestrictInit PROVE RestrictInv
    OBVIOUS
  <2>1. \A q \in RestrictRequests : restricting[q].at = "idle"
    BY NoRestrictCallIsCall DEF RestrictInit
  <2> QED BY <2>1, NoRestrictCallIsCall
          DEF RestrictInit, RestrictInv, AgreedAtRest, Agreed, Lone, Restriction
<1>2. RestrictInv => CopyIsRow
  BY DEF RestrictInv, AgreedAtRest, Agreed, CopyIsRow, Restricting, Pending
<1> QED BY <1>1, <1>2, RestrictStepKeeps, PTL DEF RestrictSpec

(* The cover of a case *)

UpdateCalls == [at : UpdateSteps, replaces : BOOLEAN, previous : Nat \cup {NoCover},
                url : Nat \cup {NoCover}]

\* Covers are numbered as they are put: the next number is not in use.
Counted(r) ==
    /\ updating[r].previous <= uploads /\ updating[r].url <= uploads
    /\ updating[r].at # "idle" => updating[r].url # NoCover
    /\ updating[r].at \notin {"idle", "find"} => updating[r].previous # NoCover
Numbered ==
    /\ uploads \in Nat /\ cover \in 0..uploads /\ forms \subseteq 0..uploads
    /\ updating \in [Updates -> UpdateCalls]
    /\ \A r \in Updates : Counted(r)

\* The cover that a request has put is nobody else's until it commits.
Private(r) ==
    (updating[r].at = "commit" /\ updating[r].replaces) =>
        /\ updating[r].url \in objects /\ updating[r].url \in 0..uploads
        /\ updating[r].url # cover /\ updating[r].url \notin forms
        /\ \A s \in Updates :
              /\ updating[r].url # updating[s].previous
              /\ s # r => updating[r].url # updating[s].url

\* What a request is about to delete is not the row's cover any more, and once
\* the copy is dropped not the copy's either.
Replaced(r) ==
    (updating[r].at \in {"invalidate", "delete"} /\ updating[r].replaces) =>
        updating[r].previous # cover \/ staleCover
Dropped(r) ==
    updating[r].at = "delete" =>
        updating[r].replaces /\ (updating[r].previous # caseCopy \/ staleCopy)

CoverInv ==
    /\ Numbered
    /\ CoverIsThere
    /\ \A r \in Updates : Private(r) /\ Replaced(r) /\ Dropped(r)

\* An update that is idle has its type.
LEMMA NoUpdateIsCall ==
    /\ NoUpdate \in UpdateCalls /\ NoUpdate.at = "idle"
    /\ NoUpdate.url = NoCover /\ NoUpdate.previous = NoCover /\ NoCover = -1
BY DEF NoUpdate, UpdateCalls, UpdateSteps, NoCover

\* Ended requests leave nothing that the others do not allow.
LEMMA UpdateEnds ==
    ASSUME CoverInv, updating' \in [Updates -> UpdateCalls],
           \A s \in Updates : updating'[s] \in {NoUpdate, updating[s]},
           UNCHANGED <<cover, objects, forms, caseCopy, staleCover, staleCopy, uploads>>
    PROVE  CoverInv'
<1>1. Numbered'
  BY NoUpdateIsCall DEF CoverInv, Numbered, Counted
<1>2. CoverIsThere'
  BY DEF CoverInv, CoverIsThere
<1>3. ASSUME NEW s \in Updates PROVE Private(s)' /\ Replaced(s)' /\ Dropped(s)'
  <2>1. CASE updating'[s] = NoUpdate
    BY <2>1, NoUpdateIsCall DEF Private, Replaced, Dropped
  <2>2. CASE updating'[s] = updating[s]
    <3>1. Replaced(s)' /\ Dropped(s)'
      BY <2>2 DEF CoverInv, Replaced, Dropped
    <3>2. Private(s)'
      BY <2>2, NoUpdateIsCall DEF CoverInv, Private
    <3> QED BY <3>1, <3>2
  <2> QED BY <2>1, <2>2
<1> QED BY <1>1, <1>2, <1>3 DEF CoverInv

\* The covers that updates have replaced, when one update changes.
LEMMA ReplacedByCall ==
    ASSUME CoverInv, NEW r \in Updates, NEW call \in UpdateCalls,
           updating' = [updating EXCEPT ![r] = call]
    PROVE  /\ updating' \in [Updates -> UpdateCalls]
           /\ \A s \in Updates : updating'[s] = IF s = r THEN call ELSE updating[s]
BY DEF CoverInv, Numbered, Counted

\* Every step of the covers keeps the invariant.
LEMMA CoverStepKeeps == CoverInv /\ [CoverNext]_coverVars => CoverInv'
<1> SUFFICES ASSUME CoverInv, [CoverNext]_coverVars PROVE CoverInv'
  OBVIOUS
<1>t. /\ updating \in [Updates -> UpdateCalls]
      /\ uploads \in Nat /\ cover \in 0..uploads /\ forms \subseteq 0..uploads
  BY DEF CoverInv, Numbered, Counted
<1>1. ASSUME NEW r \in Updates, BeginUpdate(r) PROVE CoverInv'
  <2>1. PICK url \in forms, replaces \in BOOLEAN :
          updating' = [updating EXCEPT ![r] = [at |-> "find", replaces |-> replaces,
                                               previous |-> NoCover, url |-> url]]
    BY <1>1 DEF BeginUpdate
  <2> DEFINE call == [at |-> "find", replaces |-> replaces, previous |-> NoCover,
                      url |-> url]
  <2>2. call \in UpdateCalls /\ call.at = "find" /\ call.previous = -1 /\ call.url = url
    BY <1>t DEF UpdateCalls, UpdateSteps, NoCover
  <2>3. /\ updating' \in [Updates -> UpdateCalls]
        /\ \A s \in Updates : updating'[s] = IF s = r THEN call ELSE updating[s]
    BY <2>1, <2>2, ReplacedByCall
  <2>4. UNCHANGED <<cover, objects, forms, caseCopy, staleCover, staleCopy, uploads>>
    BY <1>1 DEF BeginUpdate
  <2> HIDE DEF call
  <2>5. Numbered' /\ CoverIsThere'
    BY <1>t, <2>2, <2>3, <2>4, NoUpdateIsCall DEF CoverInv, Numbered, Counted, CoverIsThere
  <2>6. ASSUME NEW s \in Updates PROVE Private(s)' /\ Replaced(s)' /\ Dropped(s)'
    <3>1. Private(s)'
      BY <1>t, <2>2, <2>3, <2>4 DEF CoverInv, Private
    <3> QED BY <2>2, <2>3, <2>4, <3>1 DEF CoverInv, Replaced, Dropped
  <2> QED BY <2>5, <2>6 DEF CoverInv
<1>2. ASSUME NEW r \in Updates, FindCase(r) PROVE CoverInv'
  <2> DEFINE call == [updating[r] EXCEPT
                        !.previous = cover,
                        !.at = IF updating[r].replaces THEN "put" ELSE "commit"]
  <2>1. updating' = [updating EXCEPT ![r] = call]
    BY <1>2, <1>t DEF FindCase
  <2>2. /\ call \in UpdateCalls /\ call.at \in {"put", "commit"}
        /\ call.at = "commit" => ~call.replaces
        /\ call.previous = cover /\ call.url = updating[r].url
    <3>1. cover \in Nat \cup {NoCover}
      BY <1>t
    <3>2. updating[r] \in UpdateCalls
      BY <1>t
    <3>3. CASE updating[r].replaces
      BY <3>1, <3>2, <3>3 DEF UpdateCalls, UpdateSteps
    <3>4. CASE ~updating[r].replaces
      BY <3>1, <3>2, <3>4 DEF UpdateCalls, UpdateSteps
    <3> QED BY <3>3, <3>4
  <2>3. /\ updating' \in [Updates -> UpdateCalls]
        /\ \A s \in Updates : updating'[s] = IF s = r THEN call ELSE updating[s]
    BY <2>1, <2>2, ReplacedByCall
  <2>4. UNCHANGED <<cover, objects, forms, caseCopy, staleCover, staleCopy, uploads>>
    BY <1>2 DEF FindCase
  <2> HIDE DEF call
  <2>a. updating[r].at # "idle"
    BY <1>2 DEF FindCase
  <2>b. ASSUME NEW s \in Updates PROVE Counted(s)'
    BY <1>t, <2>a, <2>2, <2>3, <2>4, NoUpdateIsCall DEF CoverInv, Numbered, Counted
  <2>5. Numbered' /\ CoverIsThere'
    BY <1>t, <2>b, <2>3, <2>4 DEF CoverInv, Numbered, Counted, CoverIsThere
  <2>6. ASSUME NEW s \in Updates PROVE Private(s)' /\ Replaced(s)' /\ Dropped(s)'
    <3>1. Private(s)'
      BY <1>t, <2>2, <2>3, <2>4 DEF CoverInv, Private
    <3> QED BY <2>2, <2>3, <2>4, <3>1 DEF CoverInv, Replaced, Dropped
  <2> QED BY <2>5, <2>6 DEF CoverInv
<1>3. ASSUME NEW r \in Updates, PutObject(r) PROVE CoverInv'
  <2> DEFINE call == [updating[r] EXCEPT !.url = uploads + 1, !.at = "commit"]
  <2>1. /\ updating' = [updating EXCEPT ![r] = call]
        /\ updating[r].at = "put"
        /\ uploads' = uploads + 1 /\ objects' = objects \cup {uploads + 1}
        /\ UNCHANGED <<cover, forms, caseCopy, staleCover, staleCopy>>
    BY <1>3, <1>t DEF PutObject
  <2>2. /\ call \in UpdateCalls /\ call.at = "commit" /\ call.url = uploads + 1
        /\ call.previous = updating[r].previous
    <3>1. uploads + 1 \in Nat \cup {NoCover}
      BY <1>t
    <3>2. updating[r] \in UpdateCalls
      BY <1>t
    <3> QED BY <3>1, <3>2 DEF UpdateCalls, UpdateSteps
  <2>3. /\ updating' \in [Updates -> UpdateCalls]
        /\ \A s \in Updates : updating'[s] = IF s = r THEN call ELSE updating[s]
    BY <2>1, <2>2, ReplacedByCall
  <2> HIDE DEF call
  <2>4. \A s \in Updates : /\ updating[s].previous \in Int /\ updating[s].url \in Int
                           /\ updating[s].previous < uploads + 1
                           /\ updating[s].url < uploads + 1
    BY <1>t, NoUpdateIsCall DEF UpdateCalls, CoverInv, Numbered, Counted
  <2>5. Numbered'
    BY <1>t, <2>1, <2>2, <2>3, <2>4, NoUpdateIsCall DEF CoverInv, Numbered, Counted
  <2>6. CoverIsThere'
    BY <2>1 DEF CoverInv, CoverIsThere
  <2>7. ASSUME NEW s \in Updates PROVE Private(s)' /\ Replaced(s)' /\ Dropped(s)'
    <3>1. CASE s = r
      <4>1. Private(s)'
        BY <1>t, <2>1, <2>2, <2>3, <2>4, <3>1 DEF Private
      <4> QED BY <2>2, <2>3, <3>1, <4>1 DEF Replaced, Dropped
    <3>2. CASE s # r
      <4>1. Private(s)'
        BY <1>t, <2>1, <2>2, <2>3, <2>4, <3>2 DEF CoverInv, Private
      <4> QED BY <2>1, <2>3, <3>2, <4>1 DEF CoverInv, Replaced, Dropped
    <3> QED BY <3>1, <3>2
  <2> QED BY <2>5, <2>6, <2>7 DEF CoverInv
<1>4. ASSUME NEW r \in Updates, CommitCase(r) PROVE CoverInv'
  <2> DEFINE call == [updating[r] EXCEPT !.at = "invalidate"]
  <2>1. /\ updating' = [updating EXCEPT ![r] = call]
        /\ updating[r].at = "commit" /\ cover' = updating[r].url
        /\ updating[r].replaces => ~staleCover'
        /\ ~updating[r].replaces =>
              (staleCover' <=> staleCover \/ updating[r].url # cover)
        /\ UNCHANGED <<objects, forms, caseCopy, staleCopy, uploads>>
    BY <1>4, <1>t DEF CommitCase, AfterCommit
  <2>2. /\ call \in UpdateCalls /\ call.at = "invalidate"
        /\ call.url = updating[r].url /\ call.previous = updating[r].previous
        /\ call.replaces <=> updating[r].replaces
    BY <1>t DEF UpdateCalls, UpdateSteps
  <2>3. /\ updating' \in [Updates -> UpdateCalls]
        /\ \A s \in Updates : updating'[s] = IF s = r THEN call ELSE updating[s]
    BY <2>1, <2>2, ReplacedByCall
  <2> HIDE DEF call
  <2>4. cover' \in 0..uploads
    BY <1>t, <2>1 DEF UpdateCalls, CoverInv, Numbered, Counted, NoCover
  <2>5. Numbered'
    BY <1>t, <2>1, <2>2, <2>3, <2>4 DEF CoverInv, Numbered, Counted
  <2>6. CoverIsThere'
    BY <2>1 DEF CoverInv, CoverIsThere, Private
  <2>7. ASSUME NEW s \in Updates PROVE Private(s)' /\ Replaced(s)' /\ Dropped(s)'
    <3>1. Private(s)'
      BY <2>1, <2>2, <2>3 DEF CoverInv, Private
    <3>2. Replaced(s)'
      <4>1. CASE updating[r].replaces
        BY <2>1, <2>2, <2>3, <4>1 DEF CoverInv, Private, Replaced
      <4>2. CASE ~updating[r].replaces
        BY <2>1, <2>2, <2>3, <4>2 DEF CoverInv, Replaced
      <4> QED BY <4>1, <4>2
    <3> QED BY <2>1, <2>2, <2>3, <3>1, <3>2 DEF CoverInv, Dropped
  <2> QED BY <2>5, <2>6, <2>7 DEF CoverInv
<1>5. ASSUME NEW r \in Updates, CommitFails(r) \/ DeleteFails(r) PROVE CoverInv'
  BY <1>5, <1>t, NoUpdateIsCall, ReplacedByCall, UpdateEnds DEF CommitFails, DeleteFails
<1>6. ASSUME NEW r \in Updates, DropCopy(r) \/ DropFails(r) PROVE CoverInv'
  <2> DEFINE call == IF updating[r].replaces
                     THEN [updating[r] EXCEPT !.at = "delete"] ELSE NoUpdate
  <2>1. /\ updating' = [updating EXCEPT ![r] = call]
        /\ updating[r].at = "invalidate"
        /\ caseCopy' = NoCover \/ staleCopy'
        /\ UNCHANGED <<cover, objects, forms, staleCover, uploads>>
    BY <1>6, <1>t DEF DropCopy, DropFails, AfterInvalidation, AfterCommit
  <2>2. /\ call \in UpdateCalls /\ call.at \in {"idle", "delete"}
        /\ call.at = "delete" => /\ updating[r].replaces /\ call.replaces
                                 /\ call.previous = updating[r].previous
        /\ call.url \in {updating[r].url, NoCover}
        /\ call.previous \in {updating[r].previous, NoCover}
    BY <1>t, NoUpdateIsCall DEF UpdateCalls, UpdateSteps
  <2>3. /\ updating' \in [Updates -> UpdateCalls]
        /\ \A s \in Updates : updating'[s] = IF s = r THEN call ELSE updating[s]
    BY <2>1, <2>2, ReplacedByCall
  <2> HIDE DEF call
  <2>b. ASSUME NEW s \in Updates PROVE Counted(s)'
    <3>1. CASE s = r /\ ~updating[r].replaces
      <4>1. call = NoUpdate
        BY <3>1 DEF call
      <4> QED BY <1>t, <2>1, <2>3, <3>1, <4>1, NoUpdateIsCall DEF Numbered, Counted
    <3>2. CASE s = r /\ updating[r].replaces
      <4>1. call = [updating[r] EXCEPT !.at = "delete"]
        BY <3>2 DEF call
      <4>2. call.url = updating[r].url /\ call.previous = updating[r].previous
        BY <1>t, <4>1 DEF UpdateCalls
      <4> QED BY <1>t, <2>1, <2>3, <3>2, <4>2 DEF CoverInv, Numbered, Counted
    <3>3. CASE s # r
      BY <2>1, <2>3, <3>3 DEF CoverInv, Numbered, Counted
    <3> QED BY <3>1, <3>2, <3>3
  <2>5. Numbered'
    BY <1>t, <2>1, <2>b, <2>3 DEF CoverInv, Numbered, Counted
  <2>6. CoverIsThere'
    BY <2>1 DEF CoverInv, CoverIsThere
  <2>7. ASSUME NEW s \in Updates PROVE Private(s)' /\ Replaced(s)' /\ Dropped(s)'
    <3>1. Private(s)'
      BY <1>t, <2>1, <2>2, <2>3, NoUpdateIsCall DEF CoverInv, Private
    <3>2. Replaced(s)'
      BY <2>1, <2>2, <2>3 DEF CoverInv, Replaced
    <3>3. updating'[s].at = "delete" => updating'[s].previous # NoCover
      BY <2>3, <2>5 DEF Numbered, Counted
    <3>4. Dropped(s)'
      BY <2>1, <2>2, <2>3, <3>3 DEF CoverInv, Dropped
    <3> QED BY <3>1, <3>2, <3>4
  <2> QED BY <2>5, <2>6, <2>7 DEF CoverInv
<1>7. ASSUME NEW r \in Updates, DeleteObject(r) PROVE CoverInv'
  <2>1. /\ updating' = [updating EXCEPT ![r] = NoUpdate]
        /\ updating[r].at = "delete"
        /\ objects' = objects \ ReplacedCover(r)
        /\ UNCHANGED <<cover, forms, caseCopy, staleCover, staleCopy, uploads>>
    BY <1>7 DEF DeleteObject, AfterCommit
  <2>2. ReplacedCover(r) \subseteq {updating[r].previous}
    BY DEF ReplacedCover
  <2>3. /\ updating' \in [Updates -> UpdateCalls]
        /\ \A s \in Updates : updating'[s] = IF s = r THEN NoUpdate ELSE updating[s]
    BY <2>1, NoUpdateIsCall, ReplacedByCall
  <2>4. /\ ~staleCover => updating[r].previous # cover
        /\ ~staleCopy => updating[r].previous # caseCopy
    BY <2>1 DEF CoverInv, Replaced, Dropped
  <2>5. Numbered'
    BY <1>t, <2>1, <2>3, NoUpdateIsCall DEF CoverInv, Numbered, Counted
  <2>6. CoverIsThere'
    BY <2>1, <2>2, <2>4 DEF CoverInv, CoverIsThere
  <2>7. ASSUME NEW s \in Updates PROVE Private(s)' /\ Replaced(s)' /\ Dropped(s)'
    <3>1. Private(s)'
      BY <1>t, <2>1, <2>2, <2>3, NoUpdateIsCall DEF CoverInv, Private
    <3> QED BY <2>1, <2>3, <3>1, NoUpdateIsCall DEF CoverInv, Replaced, Dropped
  <2> QED BY <2>5, <2>6, <2>7 DEF CoverInv
<1>8. CASE RestartCases
  BY <1>8, <1>t, NoUpdateIsCall, UpdateEnds DEF RestartCases
<1>9. CASE OpenForm
  <2>1. /\ forms' = forms \cup {cover} /\ updating' = updating
        /\ UNCHANGED <<cover, objects, caseCopy, staleCover, staleCopy, uploads>>
    BY <1>9 DEF OpenForm
  <2>2. Numbered' /\ CoverIsThere'
    BY <1>t, <2>1 DEF CoverInv, Numbered, Counted, CoverIsThere
  <2>3. ASSUME NEW s \in Updates PROVE Private(s)' /\ Replaced(s)' /\ Dropped(s)'
    BY <2>1 DEF CoverInv, Private, Replaced, Dropped
  <2> QED BY <2>2, <2>3 DEF CoverInv
<1>10. CASE LoadCase \/ FillCaseCopy \/ UNCHANGED coverVars
  <2>1. /\ UNCHANGED <<updating, cover, objects, forms, staleCover, uploads>>
        /\ \/ UNCHANGED <<caseCopy, staleCopy>>
           \/ staleCopy' \/ (~staleCover /\ caseCopy' = cover)
    BY <1>10 DEF LoadCase, FillCaseCopy, coverVars
  <2>2. Numbered' /\ CoverIsThere'
    BY <2>1 DEF CoverInv, Numbered, Counted, CoverIsThere
  <2>3. ASSUME NEW s \in Updates PROVE Private(s)' /\ Replaced(s)' /\ Dropped(s)'
    <3>1. Private(s)' /\ Replaced(s)'
      BY <2>1 DEF CoverInv, Private, Replaced
    <3>2. Dropped(s)'
      BY <2>1 DEF CoverInv, Replaced, Dropped
    <3> QED BY <3>1, <3>2
  <2> QED BY <2>2, <2>3 DEF CoverInv
<1> QED BY <1>1, <1>2, <1>3, <1>4, <1>5, <1>6, <1>7, <1>8, <1>9, <1>10
        DEF CoverNext, UpdateStep

(***************************************************************************)
(* No cover that the row or its copy names is ever deleted, but for rows   *)
(* saved from an old form and copies that should not be there; for any     *)
(* number of requests, uploads and failures.                               *)
(***************************************************************************)
THEOREM CoversAreKept == CoverSpec => []CoverIsThere
<1>1. CoverInit => CoverInv
  <2> SUFFICES ASSUME CoverInit PROVE CoverInv
    OBVIOUS
  <2>1. \A r \in Updates : updating[r] = NoUpdate
    BY DEF CoverInit
  <2>2. updating \in [Updates -> UpdateCalls]
    BY NoUpdateIsCall DEF CoverInit
  <2> QED BY <2>1, <2>2, NoUpdateIsCall
          DEF CoverInit, CoverInv, Numbered, Counted, CoverIsThere, Private, Replaced, Dropped
<1>2. CoverInv => CoverIsThere
  BY DEF CoverInv
<1> QED BY <1>1, <1>2, CoverStepKeeps, PTL DEF CoverSpec

=============================================================================
