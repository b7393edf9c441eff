------------------------------- MODULE Access -------------------------------
(***************************************************************************)
(* API keys, service accounts and the role gate in front of the management *)
(* API (server/key_lifecycle, server/service_accounts, rbacMiddleware).    *)
(*                                                                         *)
(* A rotation and a token request read a row in one step and act on it in  *)
(* a later one. Ids and secrets are random and never repeat. Keys carry no *)
(* expiry: no operation stores one. The clock counts ticks far longer than *)
(* a request, so a request that read before a tick also acts before it.    *)
(* The gate does not refuse a bearer token it knows nothing of: it hands   *)
(* the request on without a key, and what a handler does with one that has *)
(* none is not modelled.                                                   *)
(***************************************************************************)
EXTENDS Naturals, FiniteSets

CONSTANTS
    ApiKeyIds,      \* ids a create or a rotation may draw
    KeyRoles,       \* roles a key is given
    SAccounts,      \* service accounts
    SARoles,        \* roles an account is given
    AccessReqs,     \* requests in flight at once
    TokenTTL,       \* lifetime of an access token, in ticks
    MaxNow          \* bound: ticks

NoKey == "none"

\* Creating a key validates its role; an account may be given any.
ASSUME AccessAssumption ==
    /\ TokenTTL \in Nat /\ MaxNow \in Nat /\ NoKey \notin ApiKeyIds
    /\ KeyRoles \subseteq {"admin", "viewer", "inference"}

NoAccReq == [op |-> "none"]

VARIABLES
    apiKeys,    \* api_keys: [st, role, pred]; st is none, on, off or gone
    keyCache,   \* hasAnyAPIKeyCache of the running process
    saRows,     \* service_accounts: [st, role]; st is none, on or off
    saTokens,   \* access tokens handed out: [acct, role, exp]
    areq,       \* requests in flight
    now,        \* the clock
    saOff,      \* history: when an account was revoked or expired
    anon        \* the anonymous management request past the gate, if any

accessVars == <<apiKeys, keyCache, saRows, saTokens, areq, now, saOff, anon>>

AccessInit ==
    /\ apiKeys = [k \in ApiKeyIds |-> [st |-> "none", role |-> "none", pred |-> NoKey]]
    /\ keyCache = FALSE
    /\ saRows = [a \in SAccounts |-> [st |-> "none", role |-> "none"]]
    /\ saTokens = {}
    /\ areq = [q \in AccessReqs |-> NoAccReq]
    /\ now = 0
    /\ saOff = [a \in SAccounts |-> 0]
    /\ anon = "none"

AccBegin(q, r) == areq[q] = NoAccReq /\ areq' = [areq EXCEPT ![q] = r]
AccEnd(q) == areq' = [areq EXCEPT ![q] = NoAccReq]

(***************************************************************************)
(* API keys                                                                *)
(***************************************************************************)

GetAPIKeyByHash(k) == apiKeys[k].st = "on"
HasAnyAPIKey == \E k \in ApiKeyIds : apiKeys[k].st = "on"

CreateAPIKey(k, role) ==
    /\ apiKeys[k].st = "none"
    /\ apiKeys' = [apiKeys EXCEPT ![k] = [st |-> "on", role |-> role, pred |-> NoKey]]

handleCreateAPIKey(k, role) ==
    /\ CreateAPIKey(k, role)
    /\ UNCHANGED <<keyCache, saRows, saTokens, areq, now, saOff, anon>>

DeleteAPIKey(k) ==
    /\ apiKeys[k].st \in {"on", "off"}
    /\ apiKeys' = [apiKeys EXCEPT ![k].st = "gone"]

handleDeleteAPIKey(k) ==
    /\ DeleteAPIKey(k)
    /\ UNCHANGED <<keyCache, saRows, saTokens, areq, now, saOff, anon>>

\* handleRotateAPIKey: a key that is missing answers 404, a disabled one 409.
handleRotateAPIKey(q, k) ==
    /\ apiKeys[k].st = "on"
    /\ AccBegin(q, [op |-> "rotate", key |-> k, role |-> apiKeys[k].role])
    /\ UNCHANGED <<apiKeys, keyCache, saRows, saTokens, now, saOff, anon>>

\* Mutant: the successor is stored, the predecessor is left to a later request.
RotateAPIKeyKeepsOld(old, new, role) ==
    /\ apiKeys[new].st = "none"
    /\ apiKeys' = [apiKeys EXCEPT ![new] = [st |-> "on", role |-> role, pred |-> old]]

\* RotateAPIKey: one transaction inserts the successor and disables the predecessor,
\* whatever has become of it since it was read.
RotateAPIKey(old, new, role) ==
    /\ apiKeys[new].st = "none"
    /\ apiKeys' = [k \in ApiKeyIds |->
           IF k = new THEN [st |-> "on", role |-> role, pred |-> old]
           ELSE IF k = old /\ apiKeys[k].st = "on" THEN [apiKeys[k] EXCEPT !.st = "off"]
           ELSE apiKeys[k]]

RotateCommit(q) ==
    /\ areq[q].op = "rotate"
    /\ \E new \in ApiKeyIds : RotateAPIKey(areq[q].key, new, areq[q].role)
    /\ AccEnd(q)
    /\ UNCHANGED <<keyCache, saRows, saTokens, now, saOff, anon>>

(***************************************************************************)
(* Service accounts                                                        *)
(***************************************************************************)

CreateServiceAccount(a, role) ==
    /\ saRows[a].st = "none"
    /\ saRows' = [saRows EXCEPT ![a] = [st |-> "on", role |-> role]]

handleCreateServiceAccount(a, role) ==
    /\ CreateServiceAccount(a, role)
    /\ UNCHANGED <<apiKeys, keyCache, saTokens, areq, now, saOff, anon>>

\* Revoking twice succeeds twice.
RevokeServiceAccount(a) ==
    /\ saRows[a].st # "none"
    /\ saRows' = [saRows EXCEPT ![a].st = "off"]
    /\ saOff' = IF saRows[a].st = "on" THEN [saOff EXCEPT ![a] = now] ELSE saOff

\* handleRevokeServiceAccount, or the account's own expiry passing.
handleRevokeServiceAccount(a) ==
    /\ RevokeServiceAccount(a)
    /\ UNCHANGED <<apiKeys, keyCache, saTokens, areq, now, anon>>

\* Mutant: a revoked account is still found.
GetServiceAccountByClientIDAny(a) == saRows[a].st # "none"

GetServiceAccountByClientID(a) == saRows[a].st = "on"

\* handleTokenEndpoint reads the account, then signs a token from what it read.
handleTokenEndpoint(q, a) ==
    /\ GetServiceAccountByClientID(a)
    /\ AccBegin(q, [op |-> "mint", acct |-> a, role |-> saRows[a].role])
    /\ UNCHANGED <<apiKeys, keyCache, saRows, saTokens, now, saOff, anon>>

MintToken(q) ==
    /\ areq[q].op = "mint"
    /\ saTokens' = saTokens \cup {[acct |-> areq[q].acct, role |-> areq[q].role, exp |-> now + TokenTTL]}
    /\ AccEnd(q)
    /\ UNCHANGED <<apiKeys, keyCache, saRows, now, saOff, anon>>

\* parseServiceAccountToken: the signature and the expiry, no registry lookup.
parseServiceAccountToken(t) == t.exp >= now

(***************************************************************************)
(* The role gate                                                           *)
(***************************************************************************)

\* The role switch for a key on a route without a mapped permission. The OIDC switch
\* is its twin.
keyRoleVerdict(role, get, mgmt) ==
    CASE role = "admin" -> TRUE
      [] role = "inference" -> ~mgmt
      [] OTHER -> get

\* The key the gate puts into the context of a request that bears the secret of k. One
\* that was rotated or deleted is like one nobody ever had.
requestKey(k) == IF GetAPIKeyByHash(k) THEN k ELSE NoKey

\* rbacMiddleware for a bearer token that is neither a session's nor an account's: the
\* role of its key decides; without a key the request is passed on to the handler.
keyVerdict(k, get, mgmt) ==
    requestKey(k) # NoKey => keyRoleVerdict(apiKeys[k].role, get, mgmt)

\* Mutant: the default case falls to the viewer's.
tokenRoleVerdictViewer(role, get, mgmt) == IF role = "admin" THEN TRUE ELSE get

\* The same switch for a service account, whose default is the inference role.
tokenRoleVerdict(role, get, mgmt) ==
    CASE role = "admin" -> TRUE
      [] role = "viewer" -> get
      [] OTHER -> ~mgmt

\* Mutant: only the cached answer decides once the clock has moved on from the start.
AnonymousRequestAsksOnce ==
    /\ anon = "none"
    /\ LET has == keyCache \/ (now = 0 /\ HasAnyAPIKey) IN
          /\ keyCache' = has
          /\ anon' = IF has THEN "none" ELSE "admitted"
    /\ UNCHANGED <<apiKeys, saRows, saTokens, areq, now, saOff>>

\* rbacMiddleware for a management request without a token: refused once this
\* process has seen a key, or sees one now; a failed read lets it pass.
AnonymousRequest ==
    /\ anon = "none"
    /\ \E failed \in BOOLEAN :
          LET has == keyCache \/ (~failed /\ HasAnyAPIKey) IN
          /\ keyCache' = has
          /\ anon' = IF has THEN "none" ELSE IF failed THEN "readFailed" ELSE "admitted"
    /\ UNCHANGED <<apiKeys, saRows, saTokens, areq, now, saOff>>

\* The handler behind the gate ends; what it did is an operation of its own.
AnonymousDone ==
    /\ anon # "none"
    /\ anon' = "none"
    /\ UNCHANGED <<apiKeys, keyCache, saRows, saTokens, areq, now, saOff>>

(***************************************************************************)
(* The process and the clock                                               *)
(***************************************************************************)

\* Requests in flight die with the process; tokens stay valid, their signing secret
\* is configured.
AccessRestart ==
    /\ keyCache' = FALSE
    /\ anon' = "none"
    /\ areq' = [q \in AccessReqs |-> NoAccReq]
    /\ UNCHANGED <<apiKeys, saRows, saTokens, now, saOff>>

\* A registry error or a caller that went away.
AccessFails(q) ==
    /\ areq[q] # NoAccReq
    /\ AccEnd(q)
    /\ UNCHANGED <<apiKeys, keyCache, saRows, saTokens, now, saOff, anon>>

Tick ==
    /\ now < MaxNow
    /\ \A q \in AccessReqs : areq[q] = NoAccReq
    /\ now' = now + 1
    /\ UNCHANGED <<apiKeys, keyCache, saRows, saTokens, areq, saOff, anon>>

AccessNext ==
    \/ \E k \in ApiKeyIds, role \in KeyRoles : handleCreateAPIKey(k, role)
    \/ \E k \in ApiKeyIds : handleDeleteAPIKey(k)
    \/ \E q \in AccessReqs, k \in ApiKeyIds : handleRotateAPIKey(q, k)
    \/ \E q \in AccessReqs : RotateCommit(q)
    \/ \E a \in SAccounts, role \in SARoles : handleCreateServiceAccount(a, role)
    \/ \E a \in SAccounts : handleRevokeServiceAccount(a)
    \/ \E q \in AccessReqs, a \in SAccounts : handleTokenEndpoint(q, a)
    \/ \E q \in AccessReqs : MintToken(q)
    \/ AnonymousRequest
    \/ AnonymousDone
    \/ AccessRestart
    \/ \E q \in AccessReqs : AccessFails(q)
    \/ Tick

AccessSpec == AccessInit /\ [][AccessNext]_accessVars

(***************************************************************************)
(* Properties                                                              *)
(***************************************************************************)

\* Types: keys, accounts and tokens only carry roles that were given to them.
AccessTypeOK ==
    /\ apiKeys \in [ApiKeyIds -> [st : {"none", "on", "off", "gone"}, role : KeyRoles \cup {"none"},
                                  pred : ApiKeyIds \cup {NoKey}]]
    /\ keyCache \in BOOLEAN
    /\ saRows \in [SAccounts -> [st : {"none", "on", "off"}, role : SARoles \cup {"none"}]]
    /\ saTokens \subseteq [acct : SAccounts, role : SARoles, exp : 0 .. MaxNow + TokenTTL]
    /\ now \in 0 .. MaxNow
    /\ saOff \in [SAccounts -> 0 .. MaxNow]
    /\ anon \in {"none", "admitted", "readFailed"}

\* Once a key has a successor no request is taken for one of that key, whatever rotations
\* and deletions of it ran at once (handleRotateAPIKey reads before RotateAPIKey writes),
\* and the successor has the role its predecessor had.
RotationRetires ==
    \A new \in ApiKeyIds :
        LET old == apiKeys[new].pred IN
        old # NoKey => requestKey(old) = NoKey /\ apiKeys[new].role = apiKeys[old].role

\* An access token is honoured at most TokenTTL after its account was revoked, although
\* the gate never asks the registry about it.
RevocationLag ==
    \A t \in saTokens :
        saRows[t.acct].st = "off" /\ parseServiceAccountToken(t) => now <= saOff[t.acct] + TokenTTL

\* A key and a token of one role get one verdict on every unmapped route: the gate's
\* role switch is written out once per kind of credential.
EqualRolesEqualVerdicts ==
    \A k \in ApiKeyIds, t \in saTokens, get, mgmt \in BOOLEAN :
        requestKey(k) = k /\ apiKeys[k].role = t.role =>
            (keyVerdict(k, get, mgmt) <=> tokenRoleVerdict(t.role, get, mgmt))

\* The gate lets a request without a credential through only while no enabled key
\* exists (or the registry could not be read): what it remembers of the keys never
\* reopens it.
AnonymousStep == anon = "none" /\ anon' = "admitted" => ~HasAnyAPIKey
AnonymousOnlyWithoutKeys == [][AnonymousStep]_accessVars
=============================================================================
