-------------------------------- MODULE MCAdmin -------------------------------
(***************************************************************************)
(* The components that are small enough to be checked in one run.  They    *)
(* do not touch each other's state: a scene, fixed at the start, says      *)
(* which of them takes steps, and the others rest in one initial state.    *)
(***************************************************************************)
EXTENDS MinesMode, MinesRefund, SharedConnection, KeyLedger, CoinflipBots,
        CrashChain, CrashEligibility, Moderation, UsersPage, OverviewPage,
        ChartBuckets, Restrictions, GameConfig, CaseCovers, CaseWeights

VARIABLE scene

Scenes == {"mode", "refund", "conn", "keys", "bots", "chain", "elig", "mod",
           "users", "overview", "charts", "restrict", "config", "covers", "weights"}

AdminInit ==
    /\ scene \in Scenes
    /\ ModeInit /\ (scene # "mode" => stored = "ACTIVE")
    /\ IF scene = "refund" THEN Init
       ELSE round = [grid |-> 4, mines |-> 1, bet |-> 0, edge |-> 0, open |-> 0]
    /\ ConnInit /\ economy = Least
                /\ chatBans \in {{}, {e \in Entries : e.temporary}}
                /\ (scene # "conn" => ~overlap /\ chatBans = {})
    /\ KeyInit
    /\ BotInit /\ (scene # "bots" => ~editsOverlap)
    /\ ChainInit /\ (scene # "chain" => ~activationsOverlap)
    /\ EligInit /\ (scene # "elig" => control = "ACTIVE")
    /\ ModInit /\ (scene # "mod" => row["dice"] = "CLEAR")
    /\ PageInit /\ (scene # "users" => query.filter = CHOOSE x \in Filters : TRUE)
    /\ OverviewInit /\ (scene # "overview" =>
                          cache = {} /\ range = CHOOSE r \in Ranges : TRUE)
    /\ ChartInit /\ (scene # "charts" => settled = {})
    /\ RestrictInit
    /\ ConfigInit /\ (scene # "config" => hash = NoConfig)
    /\ CoverInit
    /\ IF scene = "weights" THEN WeightsInit ELSE chances = <<>> /\ weights = <<>>

In(s, step, resting) == scene = s /\ step /\ UNCHANGED <<scene, resting>>

AdminNext ==
    \/ In("mode", ModeNext,
          <<round, connVars, keyVars, botVars, chainVars, eligVars, modVars,
          pageVars, overviewVars, chartVars, restrictVars, configVars, coverVars,
          weightVars>>)
    \/ In("refund", OpenSafeTile,
          <<modeVars, connVars, keyVars, botVars, chainVars, eligVars, modVars,
          pageVars, overviewVars, chartVars, restrictVars, configVars, coverVars,
          weightVars>>)
    \/ In("conn", ConnNext,
          <<modeVars, round, keyVars, botVars, chainVars, eligVars, modVars,
          pageVars, overviewVars, chartVars, restrictVars, configVars, coverVars,
          weightVars>>)
    \/ In("keys", KeyNext,
          <<modeVars, round, connVars, botVars, chainVars, eligVars, modVars,
          pageVars, overviewVars, chartVars, restrictVars, configVars, coverVars,
          weightVars>>)
    \/ In("bots", BotNext,
          <<modeVars, round, connVars, keyVars, chainVars, eligVars, modVars,
          pageVars, overviewVars, chartVars, restrictVars, configVars, coverVars,
          weightVars>>)
    \/ In("chain", ChainNext,
          <<modeVars, round, connVars, keyVars, botVars, eligVars, modVars,
          pageVars, overviewVars, chartVars, restrictVars, configVars, coverVars,
          weightVars>>)
    \/ In("elig", EligNext,
          <<modeVars, round, connVars, keyVars, botVars, chainVars, modVars,
          pageVars, overviewVars, chartVars, restrictVars, configVars, coverVars,
          weightVars>>)
    \/ In("mod", ModNext,
          <<modeVars, round, connVars, keyVars, botVars, chainVars, eligVars,
          pageVars, overviewVars, chartVars, restrictVars, configVars, coverVars,
          weightVars>>)
    \/ In("users", PageNext,
          <<modeVars, round, connVars, keyVars, botVars, chainVars, eligVars,
          modVars, overviewVars, chartVars, restrictVars, configVars, coverVars,
          weightVars>>)
    \/ In("overview", OverviewNext,
          <<modeVars, round, connVars, keyVars, botVars, chainVars, eligVars,
          modVars, pageVars, chartVars, restrictVars, configVars, coverVars,
          weightVars>>)
    \/ In("charts", ChartNext,
          <<modeVars, round, connVars, keyVars, botVars, chainVars, eligVars,
          modVars, pageVars, overviewVars, restrictVars, configVars, coverVars,
          weightVars>>)
    \/ In("restrict", RestrictNext,
          <<modeVars, round, connVars, keyVars, botVars, chainVars, eligVars,
          modVars, pageVars, overviewVars, chartVars, configVars, coverVars,
          weightVars>>)
    \/ In("config", ConfigNext,
          <<modeVars, round, connVars, keyVars, botVars, chainVars, eligVars,
          modVars, pageVars, overviewVars, chartVars, restrictVars, coverVars,
          weightVars>>)
    \/ In("covers", CoverNext,
          <<modeVars, round, connVars, keyVars, botVars, chainVars, eligVars,
          modVars, pageVars, overviewVars, chartVars, restrictVars, configVars,
          weightVars>>)
    \/ In("weights", SaveWeights,
          <<modeVars, round, connVars, keyVars, botVars, chainVars, eligVars,
          modVars, pageVars, overviewVars, chartVars, restrictVars, configVars,
          coverVars>>)

adminVars == <<scene, modeVars, round, connVars, keyVars, botVars, chainVars,
               eligVars, modVars, pageVars, overviewVars, chartVars, restrictVars,
               configVars, coverVars, weightVars>>

\* EligFairness and PageFairness, of the component that takes steps.
AdminFairness ==
    /\ \A s \in Stores : WF_eligVars(scene = "elig" /\ ExpireCopy(s))
    /\ \A b \in Checks : WF_eligVars(scene = "elig" /\ CheckEnds(b))
    /\ \A e \in EligAdmins : WF_eligVars(scene = "elig" /\ EditEnds(e))
    /\ WF_pageVars(scene = "users" /\ \E f \in Fetches : LoadEffect(f))
    /\ WF_pageVars(scene = "users" /\ \E f \in Fetches : Poll(f))
    /\ \A f \in Fetches : WF_pageVars(scene = "users" /\ Answer(f))

AdminSpec == AdminInit /\ [][AdminNext]_adminVars /\ AdminFairness

=============================================================================
