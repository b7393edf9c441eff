------------------------------ MODULE Policies ------------------------------
(***************************************************************************)
(* Governance policies (policy/engine.go, server/policy_handler.go,        *)
(* registry/policy_sqlite.go): rows in the registry, the compiled engine a *)
(* server keeps, and the deployments it gates.                             *)
(*                                                                         *)
(* A Rego source is the set of models it denies; one that does not compile *)
(* never gets past the handler. A handler's write, its listing of the rows *)
(* and the swap of the engine are steps of their own; the swap is guarded  *)
(* by policyMu, the listing is not.                                        *)
(***************************************************************************)
EXTENDS Naturals, FiniteSets

CONSTANTS
    PolicyNames,
    RegoSources,     \* nonempty sets of models
    PolicyModels,    \* the models deployments are about
    PolicyReqs       \* requests in flight at once

NoPolicy == [enabled |-> FALSE, rego |-> {}]
PolIdle == [at |-> "idle"]

VARIABLES
    policyRows,      \* the policies table
    policyEngine,    \* the enabled policies it was compiled from; nil is empty
    licensed,        \* licenseAllows(featurePolicyEngine)
    polReq,          \* requests
    engineStates,    \* every set of enabled policies the table ever held
    admitted         \* deployments let through: <<model, policies evaluated>>

policyVars == <<policyRows, policyEngine, licensed, polReq, engineStates, admitted>>

HasPolicy(name) == policyRows[name] # NoPolicy

\* ListPolicies, and the enabled ones of them as engine sources.
ListPolicies(table) == {<<name, table[name].rego>> : name \in {n \in PolicyNames : table[n].enabled}}

UpsertPolicy(name, rego, enabled) == policyRows' = [policyRows EXCEPT ![name] = [enabled |-> enabled, rego |-> rego]]
DeletePolicy(name) == HasPolicy(name) /\ policyRows' = [policyRows EXCEPT ![name] = NoPolicy]

\* Allow: all policies of the engine must; an empty engine allows everything.
Allow(engine, model) == \A p \in engine : model \notin p[2]

(***************************************************************************)
(* The handlers                                                            *)
(***************************************************************************)

handleUpsertPolicy(q, name, rego, enabled) ==
    /\ polReq[q] = PolIdle /\ licensed
    /\ UpsertPolicy(name, rego, enabled)
    /\ engineStates' = engineStates \cup {ListPolicies(policyRows')}
    /\ polReq' = [polReq EXCEPT ![q] = [at |-> "reload"]]
    /\ UNCHANGED <<policyEngine, licensed, admitted>>

handleDeletePolicy(q, name) ==
    /\ polReq[q] = PolIdle /\ licensed
    /\ DeletePolicy(name)
    /\ engineStates' = engineStates \cup {ListPolicies(policyRows')}
    /\ polReq' = [polReq EXCEPT ![q] = [at |-> "reload"]]
    /\ UNCHANGED <<policyEngine, licensed, admitted>>

\* reloadPolicies: the rows are listed and compiled, and the engine is swapped later.
reloadPolicies(q) ==
    /\ polReq[q].at = "reload"
    /\ polReq' = [polReq EXCEPT ![q] = [at |-> "swap", sources |-> ListPolicies(policyRows)]]
    /\ UNCHANGED <<policyRows, policyEngine, licensed, engineStates, admitted>>

\* Mutant: the compiled policies are added to the engine in use.
SwapEngineAdds(q) ==
    /\ polReq[q].at = "swap"
    /\ policyEngine' = policyEngine \cup polReq[q].sources
    /\ polReq' = [polReq EXCEPT ![q] = PolIdle]
    /\ UNCHANGED <<policyRows, licensed, engineStates, admitted>>

SwapEngine(q) ==
    /\ polReq[q].at = "swap"
    /\ policyEngine' = polReq[q].sources
    /\ polReq' = [polReq EXCEPT ![q] = PolIdle]
    /\ UNCHANGED <<policyRows, licensed, engineStates, admitted>>

\* The listing or the compilation fails: the handler answers success all the same.
ReloadFails(q) ==
    /\ polReq[q].at = "reload"
    /\ polReq' = [polReq EXCEPT ![q] = PolIdle]
    /\ UNCHANGED <<policyRows, policyEngine, licensed, engineStates, admitted>>

\* policyMiddleware: the engine is taken under the lock and evaluated after it.
policyMiddleware(q, model) ==
    /\ polReq[q] = PolIdle
    /\ polReq' = [polReq EXCEPT ![q] = [at |-> "eval", model |-> model, engine |-> IF licensed THEN policyEngine ELSE {}]]
    /\ UNCHANGED <<policyRows, policyEngine, licensed, engineStates, admitted>>

EvalAllow(q) ==
    /\ polReq[q].at = "eval"
    /\ admitted' = IF Allow(polReq[q].engine, polReq[q].model)
                   THEN admitted \cup {<<polReq[q].model, polReq[q].engine>>} ELSE admitted
    /\ polReq' = [polReq EXCEPT ![q] = PolIdle]
    /\ UNCHANGED <<policyRows, policyEngine, licensed, engineStates>>

\* The licence runs out while the server is up.
LicenceEnds ==
    /\ licensed /\ licensed' = FALSE
    /\ UNCHANGED <<policyRows, policyEngine, polReq, engineStates, admitted>>

\* New reloads before it serves; requests die with the process.
RestartPolicies ==
    /\ policyEngine' = ListPolicies(policyRows)
    /\ polReq' = [q \in PolicyReqs |-> PolIdle]
    /\ UNCHANGED <<policyRows, licensed, engineStates, admitted>>

PoliciesInit ==
    /\ policyRows = [name \in PolicyNames |-> NoPolicy]
    /\ policyEngine = {}
    /\ licensed = TRUE
    /\ polReq = [q \in PolicyReqs |-> PolIdle]
    /\ engineStates = {{}}
    /\ admitted = {}

PoliciesNext ==
    \/ LicenceEnds \/ RestartPolicies
    \/ \E q \in PolicyReqs :
          \/ \E name \in PolicyNames : handleDeletePolicy(q, name)
          \/ \E name \in PolicyNames, rego \in RegoSources, on \in BOOLEAN : handleUpsertPolicy(q, name, rego, on)
          \/ reloadPolicies(q) \/ SwapEngine(q) \/ ReloadFails(q) \/ EvalAllow(q)
          \/ \E model \in PolicyModels : policyMiddleware(q, model)

PoliciesSpec == PoliciesInit /\ [][PoliciesNext]_policyVars

(***************************************************************************)
(* Properties                                                              *)
(***************************************************************************)

\* reloadPolicies, policyMiddleware: whatever reloads overlap, the engine is exactly one
\* state the table has been in and never a mixture of two, and a deployment admitted under
\* an engine was allowed by every policy of that one state.
EngineIsOneState ==
    /\ policyEngine \in engineStates
    /\ \A a \in admitted : a[2] \in engineStates /\ \A p \in a[2] : a[1] \notin p[2]
=============================================================================
