----------------------------- MODULE MCPlatform -----------------------------
(***************************************************************************)
(* Eight services of the platform that do not interact: the initial state  *)
(* picks the one that moves (the profiles of the models or those of the    *)
(* providers, which are edited apart), and the others stay as they are, so *)
(* that the states are those of the models side by side.                   *)
(***************************************************************************)
EXTENDS DocumentChat, ChatHistory, BackupJobs, ConfigReload, SandboxSessions, TokenQuotas, FallbackCache,
        ModelProfiles

VARIABLE part

Parts == {"chat", "history", "backup", "config", "sandbox", "quota", "cache", "models", "providers"}

platformVars == <<part, chatVars, historyVars, backupVars, configVars, sandboxVars, quotaVars,
                  cacheVars, profileVars>>

\* The models with several initial states have one of them while others move.
PlatformInit ==
    /\ part \in Parts
    /\ ChatInit /\ BackupInit /\ ConfigInit /\ SandboxInit /\ QuotaInit
    /\ HistoryInit /\ (part = "history" \/ ~inRegistry)
    /\ CacheInit /\ (part = "cache" \/ ~withRedis)
    /\ ProfileInit /\ (part = "models" \/ chosen = CHOOSE m \in Models : TRUE)

\* The turns of the chat are alike: it does not matter which is asked first.
AskedInOrder ==
    \A t \in Turns :
        step[t] = "idle" /\ step'[t] # "idle" => t = CHOOSE u \in Turns : step[u] = "idle"

\* Models and providers are in different tables, and a call edits one of them.
EditsOnly(ps) ==
    /\ Models \cap ps = {} => UNCHANGED models
    /\ Providers \cap ps = {} => UNCHANGED providers
    /\ \A e \in Editors : editor'[e] \in ps \cup {NoProfile}

Rests(p, v) == part = p \/ UNCHANGED v

PlatformNext ==
    /\ UNCHANGED part
    /\ \/ part = "chat" /\ ChatNext /\ AskedInOrder
       \/ part = "history" /\ HistoryNext
       \/ part = "backup" /\ BackupNext
       \/ part = "config" /\ ConfigNext
       \/ part = "sandbox" /\ SandboxNext
       \/ part = "quota" /\ QuotaNext
       \/ part = "cache" /\ CacheNext
       \/ part = "models" /\ ProfileNext /\ EditsOnly(Models)
       \/ part = "providers" /\ ProfileNext /\ EditsOnly(Providers)
    /\ Rests("chat", chatVars) /\ Rests("history", historyVars) /\ Rests("backup", backupVars)
    /\ Rests("config", configVars) /\ Rests("sandbox", sandboxVars) /\ Rests("quota", quotaVars)
    /\ Rests("cache", cacheVars) /\ (part \in {"models", "providers"} \/ UNCHANGED profileVars)

\* Fairness where a liveness property needs it, in the behaviours in which the
\* service is the one that moves.
PlatformFairness ==
    /\ \A t \in Turns : WF_chatVars(part = "chat" /\ TurnStep(t))
    /\ \A k \in Checkers :
           WF_configVars(part = "config" /\ (k = Watcher \/ checker[k] # "away") /\ CheckStep(k))

PlatformSpec == PlatformInit /\ [][PlatformNext]_platformVars /\ PlatformFairness

---------------------------------------------------------------------------
MCBackupInterval == [j \in Jobs |-> 2]
MCManagerOf == [c \in Charges |-> IF c = "elsewhere" THEN "second" ELSE "first"]
MCTokens == [c \in Charges |-> IF c = "long" THEN 2 ELSE 1]
=============================================================================
