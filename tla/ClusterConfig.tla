---------------------------- MODULE ClusterConfig ----------------------------
(***************************************************************************)
(* Configuration as code (config/, server/config_apply.go, main.go): a     *)
(* purser.yaml is loaded, compared with the registry and applied, by the   *)
(* watcher of the file and by requests, which nothing keeps apart.         *)
(*                                                                         *)
(* A configuration is the set of models, the entries of its list of        *)
(* deployments, the teams of each organisation and the nodes of each pool  *)
(*   [valid, models, deploy, orgs, pools]                                  *)
(* An entry is <<model, which>>: the list may name a model twice.          *)
(* An apply takes its items in the file's order, left open here, one       *)
(* registry call per step; a call that fails is logged and skipped. It     *)
(* ends early when its context expires or the process stops. Descriptions, *)
(* quotas (skipped by the code), pool quotas and SLO rows are left out.    *)
(***************************************************************************)
EXTENDS Naturals, FiniteSets

CONSTANTS
    Configs,         \* contents the file and the request bodies may have
    CfgModels,
    CfgEntries,      \* entries of the lists of deployments, pairs <<model, which>>
    CfgOrgs,
    CfgTeams,
    CfgPools,
    CfgNodes,
    HttpApplies,     \* POST /config/apply requests in flight at once
    MaxEdits,        \* bound: edits of the file, requests, deletions and restarts together
    MaxDeps,         \* bound: deployments of an entry that are starting
    ApplyFaults      \* registry calls fail, contexts expire

\* A content names models, organisations, teams, pools and nodes of the sets above; a
\* request is not the watcher.
ASSUME ConfigAssumption ==
    /\ MaxEdits \in Nat /\ MaxDeps \in Nat /\ ApplyFaults \in BOOLEAN
    /\ "watcher" \notin HttpApplies
    /\ \A x \in CfgEntries : x[1] \in CfgModels
    /\ \A c \in Configs :
        /\ c.models \subseteq CfgModels /\ c.deploy \subseteq CfgEntries
        /\ DOMAIN c.orgs \subseteq CfgOrgs /\ \A o \in DOMAIN c.orgs : c.orgs[o] \subseteq CfgTeams
        /\ DOMAIN c.pools \subseteq CfgPools /\ \A p \in DOMAIN c.pools : c.pools[p] \subseteq CfgNodes

WatcherApply == "watcher"
Appliers == HttpApplies \cup {WatcherApply}
ApplyIdle == [at |-> "idle"]
NoHash == [none |-> TRUE]

VARIABLES
    file,            \* purser.yaml
    lastHash,        \* Watcher.lastHash: the content last applied, or NoHash
    cfgModels,       \* registered models
    cfgDeps,         \* deployments made for an entry: [starting, active]; terminal ones do not count
    cfgOrgs,         \* organisations
    cfgTeams,        \* pairs <<org, team>>
    cfgPools,
    cfgMembers,      \* pairs <<pool, node>>
    apply,           \* appliers
    edits,
    overlapped,      \* two applies ran at once
    disturbed,       \* a call failed, an apply was cut short, something was deleted
    cfgApplied,      \* contents an apply went through without a failure, since the last deletion
    missed           \* a call of the watcher's last apply failed, or something was deleted since

cfgRows == <<cfgModels, cfgDeps, cfgOrgs, cfgTeams, cfgPools, cfgMembers>>
cfgVars == <<file, lastHash, cfgRows, apply, edits, overlapped, disturbed, cfgApplied, missed>>

\* Load and Validate: a deployment names a declared model; two may name the same.
Validate(c) == c.valid /\ \A x \in c.deploy : x[1] \in c.models

\* Mutant: only deployments that serve count.
CurrentDeploymentModelIDsActive == {x[1] : x \in {y \in CfgEntries : cfgDeps[y].active > 0}}

Live(x) == cfgDeps[x].starting + cfgDeps[x].active
CurrentModelIDs == cfgModels
CurrentDeploymentModelIDs == {x[1] : x \in {y \in CfgEntries : Live(y) > 0}}

(***************************************************************************)
(* ApplyClusterConfig                                                      *)
(***************************************************************************)

ApplyBegin(a, c) ==
    /\ apply' = [apply EXCEPT ![a] = [at |-> "diff", cfg |-> c, ok |-> TRUE]]
    /\ overlapped' = (overlapped \/ \E b \in Appliers \ {a} : apply[b] # ApplyIdle)

ApplyGoto(a, at, todo) == apply' = [apply EXCEPT ![a] = [at |-> at, cfg |-> @.cfg, ok |-> @.ok, add |-> @.add, todo |-> todo]]
Left(a) == apply[a].todo
Rest(a, x) == apply' = [apply EXCEPT ![a].todo = @ \ {x}]

\* config.Diff: the models and the deployments to add, read before anything is applied.
Diff(a) ==
    /\ apply[a].at = "diff"
    /\ LET c == apply[a].cfg IN
       apply' = [apply EXCEPT ![a] = [at |-> "models", cfg |-> c, ok |-> apply[a].ok, todo |-> c.models \ CurrentModelIDs,
                                      add |-> {x \in c.deploy : x[1] \notin CurrentDeploymentModelIDs}]]
    /\ UNCHANGED <<file, lastHash, cfgRows, edits, overlapped, disturbed, cfgApplied, missed>>

\* CreateModel; a row that another apply created meanwhile is fine.
ApplyModel(a, m) ==
    /\ apply[a].at = "models" /\ m \in Left(a)
    /\ cfgModels' = cfgModels \cup {m}
    /\ Rest(a, m)
    /\ UNCHANGED <<file, lastHash, cfgDeps, cfgOrgs, cfgTeams, cfgPools, cfgMembers, edits, overlapped, disturbed, cfgApplied, missed>>

\* planner.Plan and deployer.Apply, for a model the catalogue has.
DeployModel(a, x) ==
    /\ apply[a].at = "deployments" /\ x \in Left(a)
    /\ x[1] \in cfgModels /\ cfgDeps[x].starting < MaxDeps
    /\ cfgDeps' = [cfgDeps EXCEPT ![x].starting = @ + 1]
    /\ Rest(a, x)
    /\ UNCHANGED <<file, lastHash, cfgModels, cfgOrgs, cfgTeams, cfgPools, cfgMembers, edits, overlapped, disturbed, cfgApplied, missed>>

\* Mutant: the teams are left to a later apply.
ApplyOrgWithoutTeams(a, o) ==
    /\ apply[a].at = "orgs" /\ o \in Left(a)
    /\ cfgOrgs' = cfgOrgs \cup {o}
    /\ Rest(a, o)
    /\ UNCHANGED <<file, lastHash, cfgModels, cfgDeps, cfgTeams, cfgPools, cfgMembers, edits, overlapped, disturbed, cfgApplied, missed>>

\* An organisation that exists is updated and its teams are not looked at; one that does
\* not is created, and its teams after it.
ApplyOrg(a, o) ==
    /\ apply[a].at = "orgs" /\ o \in Left(a)
    /\ cfgOrgs' = cfgOrgs \cup {o}
    /\ IF o \in cfgOrgs THEN Rest(a, o)
       ELSE apply' = [apply EXCEPT ![a] = [at |-> "teams", cfg |-> @.cfg, ok |-> @.ok, add |-> @.add, todo |-> @.todo \ {o},
                                           sub |-> @.cfg.orgs[o], of |-> o]]
    /\ UNCHANGED <<file, lastHash, cfgModels, cfgDeps, cfgTeams, cfgPools, cfgMembers, edits, overlapped, disturbed, cfgApplied, missed>>

\* CreateTeam needs the organisation's row (foreign key); a failure is logged.
CreateTeamOf(a, t) ==
    /\ apply[a].at = "teams" /\ t \in apply[a].sub
    /\ cfgTeams' = IF apply[a].of \in cfgOrgs THEN cfgTeams \cup {<<apply[a].of, t>>} ELSE cfgTeams
    /\ apply' = [apply EXCEPT ![a].sub = @ \ {t}]
    /\ UNCHANGED <<file, lastHash, cfgModels, cfgDeps, cfgOrgs, cfgPools, cfgMembers, edits, overlapped, disturbed, cfgApplied, missed>>

\* A pool that exists is skipped; one that does not is created, and its nodes assigned.
ApplyPool(a, p) ==
    /\ apply[a].at = "pools" /\ p \in Left(a)
    /\ cfgPools' = cfgPools \cup {p}
    /\ IF p \in cfgPools THEN Rest(a, p)
       ELSE apply' = [apply EXCEPT ![a] = [at |-> "members", cfg |-> @.cfg, ok |-> @.ok, add |-> @.add, todo |-> @.todo \ {p},
                                           sub |-> @.cfg.pools[p], of |-> p]]
    /\ UNCHANGED <<file, lastHash, cfgModels, cfgDeps, cfgOrgs, cfgTeams, cfgMembers, edits, overlapped, disturbed, cfgApplied, missed>>

\* AddNodeToPool moves the node from whatever pool it was in.
AssignNode(a, n) ==
    /\ apply[a].at = "members" /\ n \in apply[a].sub
    /\ cfgMembers' = IF apply[a].of \in cfgPools THEN {x \in cfgMembers : x[2] # n} \cup {<<apply[a].of, n>>} ELSE cfgMembers
    /\ apply' = [apply EXCEPT ![a].sub = @ \ {n}]
    /\ UNCHANGED <<file, lastHash, cfgModels, cfgDeps, cfgOrgs, cfgTeams, cfgPools, edits, overlapped, disturbed, cfgApplied, missed>>

\* From one section to the next, and the end.
NextSection(a) ==
    /\ \/ /\ apply[a].at = "models" /\ Left(a) = {}
          /\ ApplyGoto(a, "deployments", apply[a].add) /\ UNCHANGED <<cfgApplied, missed>>
       \/ /\ apply[a].at = "deployments" /\ Left(a) = {}
          /\ ApplyGoto(a, "orgs", DOMAIN apply[a].cfg.orgs) /\ UNCHANGED <<cfgApplied, missed>>
       \/ /\ apply[a].at = "teams" /\ apply[a].sub = {}
          /\ ApplyGoto(a, "orgs", Left(a)) /\ UNCHANGED <<cfgApplied, missed>>
       \/ /\ apply[a].at = "orgs" /\ Left(a) = {}
          /\ ApplyGoto(a, "pools", DOMAIN apply[a].cfg.pools) /\ UNCHANGED <<cfgApplied, missed>>
       \/ /\ apply[a].at = "members" /\ apply[a].sub = {}
          /\ ApplyGoto(a, "pools", Left(a)) /\ UNCHANGED <<cfgApplied, missed>>
       \/ /\ apply[a].at = "pools" /\ Left(a) = {}
          /\ apply' = [apply EXCEPT ![a] = ApplyIdle]
          /\ cfgApplied' = IF apply[a].ok THEN cfgApplied \cup {apply[a].cfg} ELSE cfgApplied
          /\ missed' = IF a = WatcherApply THEN ~apply[a].ok ELSE missed
    /\ UNCHANGED <<file, lastHash, cfgRows, edits, overlapped, disturbed>>

\* A call fails and its item is skipped.
ItemFails(a) ==
    /\ ApplyFaults \/ (apply[a].at = "deployments" /\ \E x \in Left(a) : x[1] \notin cfgModels \/ cfgDeps[x].starting = MaxDeps)
    /\ \/ apply[a].at \in {"models", "deployments", "orgs", "pools"} /\ \E x \in Left(a) :
             apply' = [apply EXCEPT ![a].todo = @ \ {x}, ![a].ok = FALSE]
       \/ apply[a].at \in {"teams", "members"} /\ \E x \in apply[a].sub :
             apply' = [apply EXCEPT ![a].sub = @ \ {x}, ![a].ok = FALSE]
    /\ disturbed' = TRUE
    /\ UNCHANGED <<file, lastHash, cfgRows, edits, overlapped, cfgApplied, missed>>

\* Every remaining call fails once the context has expired.
ApplyExpires(a) ==
    /\ ApplyFaults /\ apply[a] # ApplyIdle
    /\ apply' = [apply EXCEPT ![a] = ApplyIdle]
    /\ disturbed' = TRUE /\ missed' = (missed \/ a = WatcherApply)
    /\ UNCHANGED <<file, lastHash, cfgRows, edits, overlapped, cfgApplied>>

ApplyStep(a) ==
    \/ Diff(a) \/ NextSection(a) \/ ItemFails(a)
    \/ \E m \in CfgModels : ApplyModel(a, m)
    \/ \E x \in CfgEntries : DeployModel(a, x)
    \/ \E o \in CfgOrgs : ApplyOrg(a, o)
    \/ \E t \in CfgTeams : CreateTeamOf(a, t)
    \/ \E p \in CfgPools : ApplyPool(a, p)
    \/ \E n \in CfgNodes : AssignNode(a, n)

(***************************************************************************)
(* The callers                                                             *)
(***************************************************************************)

handleConfigApply(a, c) ==
    /\ edits < MaxEdits /\ Validate(c) /\ apply[a] = ApplyIdle
    /\ ApplyBegin(a, c)
    /\ edits' = edits + 1
    /\ UNCHANGED <<file, lastHash, cfgRows, disturbed, cfgApplied, missed>>

\* Mutant: the content found first is taken for the one the registry has.
CheckBaseline ==
    /\ apply[WatcherApply] = ApplyIdle
    /\ file # lastHash /\ Validate(file)
    /\ lastHash' = file
    /\ IF lastHash = NoHash THEN UNCHANGED <<apply, overlapped>> ELSE ApplyBegin(WatcherApply, file)
    /\ missed' = FALSE
    /\ UNCHANGED <<file, cfgRows, edits, disturbed, cfgApplied>>

\* Watcher.check: a changed file that loads is recorded, then applied, in the watcher's
\* own goroutine; one that does not load is looked at again at the next tick.
Check ==
    /\ apply[WatcherApply] = ApplyIdle
    /\ file # lastHash /\ Validate(file)
    /\ lastHash' = file
    /\ ApplyBegin(WatcherApply, file)
    /\ missed' = FALSE
    /\ UNCHANGED <<file, cfgRows, edits, disturbed, cfgApplied>>

EditFile(c) ==
    /\ edits < MaxEdits /\ c # file
    /\ file' = c
    /\ edits' = edits + 1
    /\ UNCHANGED <<lastHash, cfgRows, apply, overlapped, disturbed, cfgApplied, missed>>

\* A deployment finishes starting, or ends.
DeploymentMoves(x) ==
    /\ cfgDeps[x].starting > 0
    /\ \/ cfgDeps' = [cfgDeps EXCEPT ![x] = [starting |-> @.starting - 1, active |-> @.active + 1]] /\ UNCHANGED disturbed
       \/ cfgDeps' = [cfgDeps EXCEPT ![x].starting = @ - 1] /\ disturbed' = TRUE
    /\ UNCHANGED <<file, lastHash, cfgModels, cfgOrgs, cfgTeams, cfgPools, cfgMembers, apply, edits, overlapped, cfgApplied, missed>>

\* An operator deletes an organisation, with its teams.
OrgDeleted(o) ==
    /\ edits < MaxEdits /\ o \in cfgOrgs
    /\ cfgOrgs' = cfgOrgs \ {o}
    /\ cfgTeams' = {x \in cfgTeams : x[1] # o}
    /\ edits' = edits + 1 /\ disturbed' = TRUE /\ cfgApplied' = {} /\ missed' = TRUE
    /\ apply' = [a \in Appliers |-> IF apply[a] = ApplyIdle THEN ApplyIdle ELSE [apply[a] EXCEPT !.ok = FALSE]]
    /\ UNCHANGED <<file, lastHash, cfgModels, cfgDeps, cfgPools, cfgMembers, overlapped>>

\* Restart: applies are cut short; the startup apply and the watcher's first check read
\* the same file one after the other, so the watcher's is kept.
RestartConfig ==
    /\ ApplyFaults /\ edits < MaxEdits
    /\ apply' = [a \in Appliers |-> ApplyIdle]
    /\ lastHash' = NoHash
    /\ edits' = edits + 1
    /\ disturbed' = (disturbed \/ \E a \in Appliers : apply[a] # ApplyIdle)
    /\ UNCHANGED <<file, cfgRows, overlapped, cfgApplied, missed>>

ConfigInit ==
    /\ file \in Configs /\ lastHash = NoHash
    /\ cfgModels = {} /\ cfgDeps = [x \in CfgEntries |-> [starting |-> 0, active |-> 0]]
    /\ cfgOrgs = {} /\ cfgTeams = {} /\ cfgPools = {} /\ cfgMembers = {}
    /\ apply = [a \in Appliers |-> ApplyIdle]
    /\ edits = 0 /\ overlapped = FALSE /\ disturbed = FALSE /\ cfgApplied = {} /\ missed = FALSE

ConfigNext ==
    \/ \E a \in HttpApplies, c \in Configs : handleConfigApply(a, c)
    \/ \E a \in Appliers : ApplyStep(a) \/ ApplyExpires(a)
    \/ Check \/ RestartConfig
    \/ \E c \in Configs : EditFile(c)
    \/ \E x \in CfgEntries : DeploymentMoves(x)
    \/ \E o \in CfgOrgs : OrgDeleted(o)

ConfigSpec == ConfigInit /\ [][ConfigNext]_cfgVars

\* The watcher's ticker fires and registry calls return.
ConfigFairSpec == ConfigSpec /\ WF_cfgVars(Check) /\ \A a \in Appliers : WF_cfgVars(ApplyStep(a))

(***************************************************************************)
(* Properties                                                              *)
(***************************************************************************)

\* What a configuration declares is in the registry, its deployments aside.
Declared(c) ==
    /\ c.models \subseteq cfgModels
    /\ \A o \in DOMAIN c.orgs : o \in cfgOrgs /\ \A t \in c.orgs[o] : <<o, t>> \in cfgTeams
    /\ \A p \in DOMAIN c.pools : p \in cfgPools

\* ApplyClusterConfig: as long as no call failed and nothing was deleted, however applies
\* of one and the same content overlap, all it declares is there when they are done.
CleanApplyDeclares ==
    (~disturbed /\ \A a \in Appliers : apply[a] = ApplyIdle) =>
        \A c \in cfgApplied : Cardinality(cfgApplied) = 1 => Declared(c)

\* registryLister.CurrentDeploymentModelIDs: applies that do not overlap never deploy an
\* entry twice, nor add to the deployments of a model that another content's apply made,
\* whether they are still starting or already serve.  (A list that names a model twice has
\* it deployed twice, by one apply.)
DeployedOnce ==
    ~overlapped =>
        /\ \A x \in CfgEntries : Live(x) <= 1
        /\ \A m \in CfgModels : \E c \in Configs :
              \A x \in CfgEntries : x[1] = m /\ Live(x) > 0 => x \in c.deploy

\* Watcher: through invalid contents, failed applies and restarts in between, the watcher
\* ends up idle with what the file says recorded, and an apply went through all its items
\* (those it skips because they exist included), unless a call of the watcher's last apply
\* failed, which it does not try again, or an organisation was deleted since.
WatcherCatchesUp ==
    <>[](Validate(file) =>
            /\ apply[WatcherApply] = ApplyIdle /\ lastHash = file
            /\ missed \/ file \in cfgApplied)
=============================================================================
