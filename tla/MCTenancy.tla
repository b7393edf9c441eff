------------------------------ MODULE MCTenancy ------------------------------
(***************************************************************************)
(* The parts of the control plane that decide who may do what and account  *)
(* for it: keys and tokens, sessions, directory groups, organisations,     *)
(* node pools, policies, the two hash-chained logs, billing, SLO reports   *)
(* and the rate limiter.  They keep their state in tables and maps of      *)
(* their own and do not read each other's, so a behaviour of the sum is a  *)
(* behaviour of one part, chosen at the start, while the others rest: each *)
(* part is explored in full and their interleavings, which no property     *)
(* could tell apart, are not.                                              *)
(*                                                                         *)
(* Instances: two requests in flight in every part (in processes of their  *)
(* own for the logs), so that one acts between two steps of the other;     *)
(* two of what must not be confused (organisations, pools, teams, models)  *)
(* and one of what only has to be there.                                   *)
(***************************************************************************)
EXTENDS Access, Sessions, LdapGroups, Orgs, Pools, Policies, Ledger, Billing, Slo, RateLimit, TLC

CONSTANTS q1, q2,   \* requests
          u1, u2,   \* ids that a part does not tell apart
          u3, w3, x1

VARIABLE part

Parts == {"access", "sessions", "groups", "orgs", "pools", "policies", "ledger", "billing", "slo", "rate"}

tenancyVars == <<part, accessVars, sessionVars, groupVars, orgVars, poolVars, policyVars,
                 ledgerVars, billVars, sloVars, rateVars>>

(***************************************************************************)
(* Values of the constants                                                 *)
(***************************************************************************)
Symmetry == Permutations({q1, q2}) \cup Permutations({u1, u2})

\* A group with a role of its own, one known by name, one that only nests.
MCDNRole == [g \in {"g1", "g2", "g3"} |-> IF g = "g1" THEN "admin" ELSE "none"]
MCNameRole == [g \in {"g1", "g2", "g3"} |->
                 CASE g = "g1" -> "inference" [] g = "g2" -> "viewer" [] OTHER -> "none"]

MCCustomPerms == {{<<"platform", "*">>}}
MCOrgKeys == {[id |-> u3, tenant |-> w3, role |-> "viewer"]}

\* Each writer of the logs is a process of its own: auditMu only removes behaviours.
MCProcOf == [w \in Writers |-> w]

\* Two organisations whose ids differ in case, which LIKE does not tell apart, and one whose
\* id the first one's starts.
Acme == [org |-> "acme", team |-> "eng"]
Upper == [org |-> "ACME", team |-> "ops"]
Corp == [org |-> "acme-corp", team |-> "eng"]
MCTenants == {Acme, Upper, Corp}
MCLike == {<<"acme", Acme>>, <<"acme", Upper>>, <<"ACME", Acme>>, <<"ACME", Upper>>, <<"acme-corp", Corp>>}
MCPrefixes == {<<"acme", "acme-corp">>}

\* Moments are <<second, fraction, zone>>: an event on a window's edge, one in its second.
MCEvents == {
    [id |-> 1, subject |-> "s", tenant |-> Acme, model |-> "m", in |-> 1, out |-> 2, lat |-> 0, at |-> <<0, 5, 0>>],
    [id |-> 2, subject |-> "u", tenant |-> Upper, model |-> "n", in |-> 4, out |-> 0, lat |-> 1, at |-> <<0, 5, 5>>],
    [id |-> 3, subject |-> "s", tenant |-> Acme, model |-> "n", in |-> 8, out |-> 1, lat |-> 2, at |-> <<1, 0, 0>>],
    [id |-> 4, subject |-> "u", tenant |-> Corp, model |-> "m", in |-> 16, out |-> 3, lat |-> 3, at |-> <<1, 5, 0>>]}
MCPrices == {[model |-> "m", from |-> <<0, 0, 0>>, in |-> 1, out |-> 2],
             [model |-> "m", from |-> <<0, 0, 0>>, in |-> 3, out |-> 3],
             [model |-> "m", from |-> <<1, 0, 0>>, in |-> 2, out |-> 2]}
MCWindows == {[start |-> <<0, 0, 5>>, end |-> <<1, 5, 5>>], [start |-> <<0, 0, 5>>, end |-> <<1, 0, 0>>]}

MCSloRows == {[ttft |-> 2, num |-> 1, den |-> 2], [ttft |-> 4, num |-> 1, den |-> 1]}
MCDefault == [ttft |-> 3, num |-> 2, den |-> 3]

(***************************************************************************)
(* The sum.  A part that rests has no state.                               *)
(***************************************************************************)
TenancyInit ==
    /\ part \in Parts
    /\ IF part = "access" THEN AccessInit
       ELSE apiKeys = 0 /\ keyCache = 0 /\ saRows = 0 /\ saTokens = 0 /\ areq = 0 /\
            now = 0 /\ saOff = 0 /\ anon = 0
    /\ IF part = "sessions" THEN SessionsInit
       ELSE second = 0 /\ pkce = 0 /\ exchanges = 0 /\ cb = 0 /\ rows = 0 /\ cookies = 0 /\
            out = 0 /\ bound = 0 /\ boundOff = 0 /\ ldapCache = 0 /\ ldapReq = 0
    /\ IF part = "groups" THEN GroupsInit
       ELSE direct = 0 /\ parents = 0 /\ walk = 0
    /\ IF part = "orgs" THEN OrgInit
       ELSE orgs = 0 /\ teams = 0 /\ roles = 0 /\ orgMembers = 0 /\ teamMembers = 0 /\
            oreq = 0 /\ member = 0
    /\ IF part = "pools" THEN PoolInit
       ELSE pools = 0 /\ poolOf = 0 /\ quotas = 0 /\ teamRows = 0 /\ preq = 0 /\ closed = 0
    /\ IF part = "policies" THEN PoliciesInit
       ELSE policyRows = 0 /\ policyEngine = 0 /\ licensed = 0 /\ polReq = 0 /\
            engineStates = 0 /\ admitted = 0
    /\ IF part = "ledger" THEN LedgerInit
       ELSE entries = 0 /\ inf = 0 /\ tx = 0 /\ acked = 0 /\ erasures = 0 /\ page = 0 /\
            backup = 0
    /\ IF part = "billing" THEN BillInit
       ELSE events = 0 /\ prices = 0 /\ report = 0
    /\ IF part = "slo" THEN SloInit
       ELSE sloCfg = 0 /\ applies = 0 /\ sloLog = 0 /\ sreq = 0
    /\ IF part = "rate" THEN RateInit
       ELSE tick = 0 /\ buckets = 0 /\ passed = 0

TenancyNext ==
    /\ UNCHANGED part
    /\ \/ /\ part = "access" /\ AccessNext
          /\ UNCHANGED <<sessionVars, groupVars, orgVars, poolVars, policyVars, ledgerVars, billVars, sloVars, rateVars>>
       \/ /\ part = "sessions" /\ SessionsNext
          /\ UNCHANGED <<accessVars, groupVars, orgVars, poolVars, policyVars, ledgerVars, billVars, sloVars, rateVars>>
       \/ /\ part = "groups" /\ GroupsNext
          /\ UNCHANGED <<accessVars, sessionVars, orgVars, poolVars, policyVars, ledgerVars, billVars, sloVars, rateVars>>
       \/ /\ part = "orgs" /\ OrgNext
          /\ UNCHANGED <<accessVars, sessionVars, groupVars, poolVars, policyVars, ledgerVars, billVars, sloVars, rateVars>>
       \/ /\ part = "pools" /\ PoolNext
          /\ UNCHANGED <<accessVars, sessionVars, groupVars, orgVars, policyVars, ledgerVars, billVars, sloVars, rateVars>>
       \/ /\ part = "policies" /\ PoliciesNext
          /\ UNCHANGED <<accessVars, sessionVars, groupVars, orgVars, poolVars, ledgerVars, billVars, sloVars, rateVars>>
       \/ /\ part = "ledger" /\ LedgerNext
          /\ UNCHANGED <<accessVars, sessionVars, groupVars, orgVars, poolVars, policyVars, billVars, sloVars, rateVars>>
       \/ /\ part = "billing" /\ BillNext
          /\ UNCHANGED <<accessVars, sessionVars, groupVars, orgVars, poolVars, policyVars, ledgerVars, sloVars, rateVars>>
       \/ /\ part = "slo" /\ SloNext
          /\ UNCHANGED <<accessVars, sessionVars, groupVars, orgVars, poolVars, policyVars, ledgerVars, billVars, rateVars>>
       \/ /\ part = "rate" /\ RateNext
          /\ UNCHANGED <<accessVars, sessionVars, groupVars, orgVars, poolVars, policyVars, ledgerVars, billVars, sloVars>>

TenancySpec == TenancyInit /\ [][TenancyNext]_tenancyVars

(***************************************************************************)
(* What the run checks: each property of a part, in the behaviours of that *)
(* part.                                                                   *)
(***************************************************************************)
\* A credential that was withdrawn ends: no request is taken for one of a rotated key, whose
\* successor has its role, whatever overlaps the rotation, a revoked account's token lives at most its lifetime
\* more, and keys and tokens of one role get one verdict (Access!RotationRetires,
\* RevocationLag, EqualRolesEqualVerdicts).
Access_CredentialsHold ==
    part = "access" => AccessTypeOK /\ RotationRetires /\ RevocationLag /\ EqualRolesEqualVerdicts

\* The gate lets a request without a credential through only while no enabled key exists
\* (Access!AnonymousOnlyWithoutKeys).
Access_AnonymousOnlyWithoutKeys == [][part = "access" => AnonymousStep]_accessVars

\* A login begins once and ends: a state leads to one code exchange, a token that was logged
\* out is not accepted again, and a user the directory turned off gets in from the cache for
\* at most its TTL (Sessions!StateSingleUse, LoggedOutStaysOut, DirectoryLag).
Sessions_LoginsEnd ==
    part = "sessions" => SessionsTypeOK /\ StateSingleUse /\ LoggedOutStaysOut /\ DirectoryLag

\* The role a login gets is the best one its groups map to, within the depth searched
\* (LdapGroups!RoleIsDirectorys).
LdapGroups_RoleIsDirectorys == part = "groups" => RoleIsDirectorys

\* Requests that check first and write later leave no team without its organization, no two
\* organizations with one slug, no membership lost between updates; and what a key may do
\* beyond its role comes from its own organization or from a built-in role it was given in
\* its own team (Orgs!TeamHasOrg, SlugsUnique, MembershipKept, TenantsApart).
Orgs_TenancyIntact == part = "orgs" => TeamHasOrg /\ SlugsUnique /\ MembershipKept /\ TenantsApart

\* Nodes and quotas refer to pools and teams that exist, and a deploy that got a filter from
\* them, by two queries, is planned on no node that was another team's alone meanwhile
\* (Pools!PoolRowsResolve, FilteredKeepsOut).
Pools_RowsHold == part = "pools" => PoolRowsResolve /\ FilteredKeepsOut

\* The engine is one state of the table, and what it admitted that state allowed
\* (Policies!EngineIsOneState).
Policies_EngineIsOneState == part = "policies" => EngineIsOneState

\* Both chains verify under concurrent processes, failures and restores, the inference chain
\* as long as nothing was erased from it; a request answered 204 is in the log exactly once,
\* and a client that pages to the end has every row that was there (Ledger!AuditVerifies,
\* InferenceVerifies, AckedOnce, PagesCoverLog).
Ledger_LogsHold ==
    part = "ledger" => LedgerTypeOK /\ AuditVerifies /\ InferenceVerifies /\ AckedOnce /\ PagesCoverLog

\* The database's audit chain implements the abstract log: every step appends to it, or is a
\* restore (Ledger!ChainSteps).
Ledger_ChainSteps == [][part = "ledger" => ChainStep]_ledgerVars

\* Reports put together by several queries hold: those that are queried apart give one
\* answer, an organization's report and a billing report with SLA figures lie between the
\* log at their start and at their end, and an SLO entry is that of the model's own contract
\* over its own requests, except of a model that has a contract and had no request when the
\* SLO report began (Billing!ReportsAgree, OrgReportBracketed, ReportBracketed,
\* Slo!SloEntryHolds).
Billing_ReportsHold ==
    /\ part = "billing" => BillTypeOK /\ ReportsAgree /\ OrgReportBracketed /\ ReportBracketed
    /\ part = "slo" => SloEntryHolds

\* No bucket lets more through in any interval than its burst and its rate (RateLimit!LimitHolds).
RateLimit_LimitHolds == part = "rate" => LimitHolds
=============================================================================
