------------------------------- MODULE Fleet -------------------------------
(***************************************************************************)
(* Fleet membership: join tokens, enrollment, cordoning, decommissioning,  *)
(* certificate renewal and heartbeats (controlplane/fleet, the node        *)
(* handlers of server.go, server/enrollment_renew.go), over the nodes and  *)
(* certs tables.                                                           *)
(*                                                                         *)
(* Every operation is a call that reads a node's row in one step and       *)
(* writes the whole row in a later one; nothing locks the row between. A   *)
(* call ends at its first registry error unless the code ignores the       *)
(* error. The audit entries the calls append are Ledger's subject.         *)
(*                                                                         *)
(* A row keeps the state, the advertised address (by its Join) and whether *)
(* last_seen is set; the hardware profile and the live-metrics cache, which *)
(* only the metrics stream reads, are left out.                            *)
(***************************************************************************)
EXTENDS Naturals, Sequences, TLC

CONSTANTS
    FleetNodes,         \* node ids the agents present
    Tokens,        \* join tokens that may be minted
    Calls,         \* calls in flight at once
    AgentStates,   \* states an agent reports
    MaxLeaves,      \* bound: leaf certificates ever issued
    MaxFleetRestarts    \* bound: restarts of the control plane

ASSUME FleetBoundsAssumption == MaxLeaves \in Nat /\ MaxFleetRestarts \in Nat

NoNode == [state |-> "none"]
NoCall == [op |-> "none"]

VARIABLES
    nodes,      \* nodes table: a row or NoNode
    leaves,      \* leaf rows in the order of created_at
    token,      \* "unminted", "valid", or "dead": expired, or signed with the
                \* secret of a process that is gone
    used,       \* Manager.used: consumed nonces
    fleetCall,       \* calls in flight
    fleetRestarts,
    joins       \* history: how often a token let a Join through

fleetVars == <<nodes, leaves, token, used, fleetCall, fleetRestarts, joins>>

FleetStates == {"ENROLLED", "READY", "DRAINING", "DECOMMISSIONED"} \cup AgentStates
NodeRow == [state: FleetStates, addr: Tokens]
\* fresh: more than 60 days left. Every leaf has the same TTL.
NodeLeaf == [subject: FleetNodes, state: {"issued", "revoked"}, fresh: BOOLEAN]

FleetInit ==
    /\ nodes = [n \in FleetNodes |-> NoNode]
    /\ leaves = <<>>
    /\ token = [t \in Tokens |-> "unminted"]
    /\ used = {}
    /\ fleetCall = [c \in Calls |-> NoCall]
    /\ fleetRestarts = 0
    /\ joins = [t \in Tokens |-> 0]

(***************************************************************************)
(* Calls                                                                   *)
(***************************************************************************)

FleetIdle(c) == fleetCall[c] = NoCall
At(c, op, pc) == fleetCall[c].op = op /\ fleetCall[c].pc = pc
AtAny(c, pc) == fleetCall[c] # NoCall /\ fleetCall[c].pc = pc
SetCall(c, r) == fleetCall' = [fleetCall EXCEPT ![c] = r]
EndCall(c) == SetCall(c, NoCall)

UpdateNode(n, row) == nodes' = [nodes EXCEPT ![n] = row]

\* GenerateJoinToken, behind handleJoinToken and handleEnrollmentBundle.
GenerateJoinToken(t) ==
    /\ token[t] = "unminted"
    /\ token' = [token EXCEPT ![t] = "valid"]
    /\ UNCHANGED <<nodes, leaves, used, fleetCall, fleetRestarts, joins>>

TokenExpires(t) ==
    /\ token[t] = "valid"
    /\ token' = [token EXCEPT ![t] = "dead"]
    /\ UNCHANGED <<nodes, leaves, used, fleetCall, fleetRestarts, joins>>

\* validateToken: signature and expiry, then single use under the mutex. A token
\* that passes is consumed there and then.
validateToken(t) ==
    /\ token[t] = "valid"
    /\ t \notin used
    /\ used' = used \cup {t}
    /\ joins' = [joins EXCEPT ![t] = @ + 1]

\* Join, first step: a token that validates starts the enrollment. One that does
\* not is refused and changes nothing.
Join(c, t, n) ==
    /\ FleetIdle(c)
    /\ validateToken(t)
    /\ SetCall(c, [op |-> "join", node |-> n, pc |-> "lookup", tok |-> t])
    /\ UNCHANGED <<nodes, leaves, token, fleetRestarts>>

\* Join decides between insert and update by a GetNode of its own.
JoinLookup(c) ==
    /\ At(c, "join", "lookup")
    /\ SetCall(c, [op |-> "join", node |-> fleetCall[c].node, pc |-> "upsert", tok |-> fleetCall[c].tok,
               found |-> nodes[fleetCall[c].node] # NoNode])
    /\ UNCHANGED <<nodes, leaves, token, used, fleetRestarts, joins>>

\* Mutant: a row that another Join created is no reason to stop, and the
\* certificate is asked for before the row is written.
JoinSignsFirst(c) ==
    /\ At(c, "join", "upsert")
    /\ SetCall(c, [op |-> "join", node |-> fleetCall[c].node, pc |-> "sign"])
    /\ UNCHANGED <<nodes, leaves, token, used, fleetRestarts, joins>>

\* The upsert: CreateNode fails on a row that appeared meanwhile; UpdateNode
\* writes a fresh row, last_seen included.
JoinUpsert(c) ==
    /\ At(c, "join", "upsert")
    /\ LET n == fleetCall[c].node IN
       IF ~fleetCall[c].found /\ nodes[n] # NoNode
       THEN EndCall(c) /\ UNCHANGED nodes
       ELSE /\ UpdateNode(n, [state |-> "ENROLLED", addr |-> fleetCall[c].tok])
            /\ SetCall(c, [op |-> "join", node |-> n, pc |-> "sign"])
    /\ UNCHANGED <<leaves, token, used, fleetRestarts, joins>>

\* Issue (CertAuthority models what it signs with): the certs row is the last
\* step of Join and of RenewCert.
IssueRecord(c) ==
    /\ AtAny(c, "sign")
    /\ Len(leaves) < MaxLeaves
    /\ leaves' = Append(leaves, [subject |-> fleetCall[c].node, state |-> "issued", fresh |-> TRUE])
    /\ EndCall(c)
    /\ UNCHANGED <<nodes, token, used, fleetRestarts, joins>>

\* Drain and Decommission begin with GetNode; an unknown node is an error.
\* handleDeleteNode comes to Decommission only when no live deployment occupies
\* the node; deployments are the Orchestrator's state, and here any node may be free.
ReadNode(c, op, n) ==
    /\ FleetIdle(c)
    /\ nodes[n] # NoNode
    /\ SetCall(c, [op |-> op, node |-> n, pc |-> "write", row |-> nodes[n]])
    /\ UNCHANGED <<nodes, leaves, token, used, fleetRestarts, joins>>

Drain(c) ==
    /\ At(c, "drain", "write")
    /\ UpdateNode(fleetCall[c].node, [fleetCall[c].row EXCEPT !.state = "DRAINING"])
    /\ EndCall(c)
    /\ UNCHANGED <<leaves, token, used, fleetRestarts, joins>>

DecommissionWrite(c) ==
    /\ At(c, "decommission", "write")
    /\ UpdateNode(fleetCall[c].node, [fleetCall[c].row EXCEPT !.state = "DECOMMISSIONED"])
    /\ SetCall(c, [op |-> "decommission", node |-> fleetCall[c].node, pc |-> "list"])
    /\ UNCHANGED <<leaves, token, used, fleetRestarts, joins>>

\* The issued leaves of the node, as ListCerts shows them.
IssuedTo(n) == {i \in 1..Len(leaves) : leaves[i].subject = n /\ leaves[i].state = "issued"}

DecommissionList(c) ==
    /\ At(c, "decommission", "list")
    /\ SetCall(c, [op |-> "decommission", node |-> fleetCall[c].node, pc |-> "revoke",
               todo |-> IssuedTo(fleetCall[c].node), listed |-> Len(leaves), errs |-> FALSE])
    /\ UNCHANGED <<nodes, leaves, token, used, fleetRestarts, joins>>

\* Mutant: the loop stops at the first certificate it revokes.
DecommissionRevokesOne(c) ==
    /\ At(c, "decommission", "revoke")
    /\ IF fleetCall[c].todo = {}
       THEN EndCall(c) /\ UNCHANGED leaves
       ELSE \E i \in fleetCall[c].todo :
              /\ leaves' = [leaves EXCEPT ![i].state = "revoked"]
              /\ fleetCall' = [fleetCall EXCEPT ![c].todo = {}]
    /\ UNCHANGED <<nodes, token, used, fleetRestarts, joins>>

DecommissionRevoke(c) ==
    /\ At(c, "decommission", "revoke")
    /\ IF fleetCall[c].todo = {}
       THEN EndCall(c) /\ UNCHANGED leaves
       ELSE \E i \in fleetCall[c].todo :
              /\ \A j \in fleetCall[c].todo : i <= j
              /\ leaves' = [leaves EXCEPT ![i].state = "revoked"]
              /\ fleetCall' = [fleetCall EXCEPT ![c].todo = @ \ {i}]
    /\ UNCHANGED <<nodes, token, used, fleetRestarts, joins>>

\* RenewCert (handleEnrollmentRenew): the node must exist; the first issued
\* certificate in the order of creation decides whether it is too early.
RenewCert(c, n) ==
    /\ FleetIdle(c)
    /\ nodes[n] # NoNode
    /\ \A i \in IssuedTo(n) :
         (\A j \in IssuedTo(n) : i <= j) => ~leaves[i].fresh
    /\ SetCall(c, [op |-> "renew", node |-> n, pc |-> "sign"])
    /\ UNCHANGED <<nodes, leaves, token, used, fleetRestarts, joins>>

\* applyHeartbeat: the row is read, and written with the state the agent composed
\* for this heartbeat. An unknown node's heartbeat is ignored.
ReceiveHeartbeat(c, n, reported) ==
    /\ FleetIdle(c)
    /\ nodes[n] # NoNode
    /\ SetCall(c, [op |-> "heartbeat", node |-> n, pc |-> "write", row |-> nodes[n],
               state |-> reported])
    /\ UNCHANGED <<nodes, leaves, token, used, fleetRestarts, joins>>

applyHeartbeat(c) ==
    /\ At(c, "heartbeat", "write")
    /\ UpdateNode(fleetCall[c].node, [fleetCall[c].row EXCEPT !.state = fleetCall[c].state])
    /\ EndCall(c)
    /\ UNCHANGED <<leaves, token, used, fleetRestarts, joins>>

\* A registry error ends the call. Decommission ignores the ones after its write:
\* a failed list revokes nothing, a failed Revoke skips that certificate.
StoreError(c) ==
    /\ ~FleetIdle(c)
    /\ IF At(c, "decommission", "revoke") /\ fleetCall[c].todo # {}
       THEN \E i \in fleetCall[c].todo :
              /\ \A j \in fleetCall[c].todo : i <= j
              /\ fleetCall' = [fleetCall EXCEPT ![c].todo = @ \ {i}, ![c].errs = TRUE]
       ELSE EndCall(c)
    /\ UNCHANGED <<nodes, leaves, token, used, fleetRestarts, joins>>

(***************************************************************************)
(* Environment: time, restarts                                             *)
(***************************************************************************)

\* A leaf comes to its last 60 days, the oldest first.
LeafAges ==
    /\ \E i \in 1..Len(leaves) :
        /\ leaves[i].fresh
        /\ \A j \in 1..(i - 1) : ~leaves[j].fresh
        /\ leaves' = [leaves EXCEPT ![i].fresh = FALSE]
    /\ UNCHANGED <<nodes, token, used, fleetCall, fleetRestarts, joins>>

\* Mutant: the signing secret survives the restart, the used nonces do not.
NewKeepsSecret == used' = {} /\ token' = token

\* main.go builds the Manager with New: a fresh random secret, no nonces used.
New == /\ used' = {}
       /\ token' = [t \in Tokens |-> IF token[t] = "unminted" THEN "unminted" ELSE "dead"]

FleetRestart ==
    /\ fleetRestarts < MaxFleetRestarts
    /\ fleetRestarts' = fleetRestarts + 1
    /\ New
    /\ fleetCall' = [c \in Calls |-> NoCall]
    /\ UNCHANGED <<nodes, leaves, joins>>

CallStep(c) ==
    \/ JoinLookup(c) \/ JoinUpsert(c) \/ IssueRecord(c)
    \/ Drain(c)
    \/ DecommissionWrite(c) \/ DecommissionList(c) \/ DecommissionRevoke(c)
    \/ applyHeartbeat(c)

FleetNext ==
    \/ \E t \in Tokens : GenerateJoinToken(t) \/ TokenExpires(t)
    \/ \E c \in Calls :
         \/ CallStep(c)
         \/ StoreError(c)
         \/ \E n \in FleetNodes :
              \/ \E t \in Tokens : Join(c, t, n)
              \/ \E op \in {"drain", "decommission"} : ReadNode(c, op, n)
              \/ RenewCert(c, n)
              \/ \E s \in AgentStates : ReceiveHeartbeat(c, n, s)
    \/ LeafAges
    \/ FleetRestart

FleetSpec == FleetInit /\ [][FleetNext]_fleetVars

(***************************************************************************)
(* Properties                                                              *)
(***************************************************************************)

CallOK(r) ==
    /\ r.op \in {"join", "drain", "decommission", "renew", "heartbeat"}
    /\ r.node \in FleetNodes
    /\ r.pc \in {"lookup", "upsert", "sign", "write", "list", "revoke"}
    /\ r.pc = "write" => r.row \in NodeRow
    /\ r.pc = "revoke" => r.todo \subseteq 1..r.listed /\ r.listed <= Len(leaves)

FleetTypeOK ==
    /\ nodes \in [FleetNodes -> NodeRow \cup {NoNode}]
    /\ leaves \in Seq(NodeLeaf)
    /\ token \in [Tokens -> {"unminted", "valid", "dead"}]
    /\ used \subseteq Tokens
    /\ fleetRestarts \in 0..MaxFleetRestarts
    /\ \A c \in Calls : fleetCall[c] # NoCall => CallOK(fleetCall[c])

\* A join token lets at most one Join through, whatever runs concurrently and
\* across restarts: the used nonces are forgotten, and so is the secret that
\* makes the old tokens valid.
TokenSingleUse == \A t \in Tokens : joins[t] <= 1

\* No certificate without a node row: Join writes the row before it asks the CA,
\* and a Join that loses the race for the row asks for none.
CertHasNode == \A i \in 1..Len(leaves) : nodes[leaves[i].subject] # NoNode

\* When Decommission returns and no Revoke failed, every certificate of the node
\* up to its ListCerts is revoked, the ones earlier renewals added included.
DecommissionRevokes ==
    \A c \in Calls : At(c, "decommission", "revoke") /\ fleetCall[c].todo = {} /\ ~fleetCall[c].errs
        => \A i \in 1..fleetCall[c].listed :
              leaves[i].subject = fleetCall[c].node => leaves[i].state = "revoked"

\* "Decommission permanently removes a node from rotation": once it is recorded,
\* only a new Join takes the node out of DECOMMISSIONED.
DecommissionHolds ==
    [][\A n \in FleetNodes :
         nodes[n].state = "DECOMMISSIONED" /\ nodes[n].state # nodes'[n].state
            => nodes'[n].state = "ENROLLED"]_fleetVars
=============================================================================
