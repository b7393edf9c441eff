-------------------------- MODULE OperationsProofs --------------------------
(***************************************************************************)
(* The parts of the Operations run, for every value of the constants: the  *)
(* certificate authority, the engine supervisor, fleet membership, the     *)
(* self-healing loop, the planner, the Vertex token cache, the model       *)
(* catalogue, the declared configuration and the replicated registry.      *)
(* For each part an inductive invariant is proved of its own next-state    *)
(* relation, and lifted to the sum of the parts: in a behaviour of the sum *)
(* one part moves and the others have no state.                            *)
(***************************************************************************)
EXTENDS MCOperations, HealingProofs, PlannerProofs, WellFoundedInduction

(***************************************************************************)
(* The certificate authority                                               *)
(***************************************************************************)

\* The CAs in memory and on disk exist, and a keypair that was not generated has
\* no row.
CAsMade ==
    /\ active <= made /\ akey <= made /\ disk.crt <= made /\ disk.key <= made
    /\ \A k \in CAs : k > made => caRow[k] = "none"

\* What a rotation that has begun holds: the CA it replaces is in the grace slot
\* until a new keypair is active, and the new one has no row before ca.key has it.
RotationOrder ==
    /\ rot = "swapped" => old = active /\ made < MaxCA
    /\ rot \in {"generated", "crt"} => akey = active /\ caRow[active] = "none"
    /\ rot = "crt" => disk.crt = active

CAInv == CATypeOK /\ CAsMade /\ RotationOrder /\ RecordedCAIsDurable /\ OnlyTornWriteDisarms

LEMMA CAInitKeeps == CAInit => CAInv
<1> SUFFICES ASSUME CAInit PROVE CAInv
  OBVIOUS
<1> USE CAAssumption DEF CAInit
<1>1. 1 \in CAs
  BY DEF CAs
<1>2. certs \in Seq(Leaf)
  OBVIOUS
<1>3. CATypeOK
  BY <1>1, <1>2 DEF CATypeOK
<1>4. disk.crt = 1 /\ disk.key = 1
  OBVIOUS
<1> QED
  BY <1>3, <1>4 DEF CAInv, CAsMade, RotationOrder, RecordedCAIsDurable, OnlyTornWriteDisarms, CAs

\* A step of the rows of the leaves alone.
LEMMA CertsStep ==
  ASSUME CAInv, certs' \in Seq(Leaf),
         UNCHANGED <<caRow, made, active, akey, old, disk, passphrase, rot>>
  PROVE  CAInv'
BY DEF CAInv, CATypeOK, CAsMade, RotationOrder, RecordedCAIsDurable, OnlyTornWriteDisarms

LEMMA CANextKeeps == CAInv /\ [CANext]_caVars => CAInv'
<1> SUFFICES ASSUME CAInv, [CANext]_caVars PROVE CAInv'
  OBVIOUS
<1> USE CAAssumption
<1>t. CATypeOK
  BY DEF CAInv
<1>1. CASE RotateSwap
  <2> USE <1>1 DEF RotateSwap
  <2>1. CATypeOK'
    BY <1>t DEF CATypeOK
  <2> QED
    BY <2>1, <1>t DEF CAInv, CATypeOK, CAsMade, RotationOrder, RecordedCAIsDurable, OnlyTornWriteDisarms, CAs, NoCA
<1>2. CASE generate
  <2> USE <1>2 DEF generate
  <2>1. made + 1 \in CAs
    BY <1>t DEF CAInv, CATypeOK, RotationOrder, CAs
  <2>2. CATypeOK'
    BY <2>1, <1>t DEF CATypeOK
  <2>3. made \in Nat /\ disk.crt \in Nat /\ disk.key \in Nat
    BY <1>t DEF CATypeOK, CAs
  <2>4. OnlyTornWriteDisarms' /\ RecordedCAIsDurable'
    BY DEF OnlyTornWriteDisarms, RecordedCAIsDurable
  <2>5. caRow[made + 1] = "none" /\ caRow' = caRow
    BY <2>1, <2>3 DEF CAInv, CAsMade
  <2>6. RotationOrder'
    BY <2>5 DEF RotationOrder
  <2>7. CAsMade'
    BY <2>3, <1>t DEF CAInv, CAsMade, CAs
  <2> QED
    BY <2>2, <2>4, <2>6, <2>7 DEF CAInv
<1>3. CASE WriteCrt
  <2> USE <1>3 DEF WriteCrt
  <2>1. CATypeOK'
    BY <1>t DEF CATypeOK
  <2>2. CASE disk' = [disk EXCEPT !.crt = active] /\ rot' = "crt"
    <3>1. disk'.crt = active /\ disk'.key = disk.key
      BY <2>2, <1>t DEF CATypeOK
    <3> QED
      BY <2>2, <3>1, <2>1 DEF CAInv, CAsMade, RotationOrder, RecordedCAIsDurable, OnlyTornWriteDisarms
  <2>3. CASE disk' = disk /\ rot' = "idle"
    BY <2>3, <2>1 DEF CAInv, CAsMade, RotationOrder, RecordedCAIsDurable, OnlyTornWriteDisarms
  <2> QED
    BY <2>2, <2>3
<1>4. CASE WriteKey
  <2> USE <1>4 DEF WriteKey
  <2>2. CASE disk' = [disk EXCEPT !.key = active, !.enc = passphrase] /\ caRow' = recordCA(caRow, active)
    <3>1. disk'.crt = disk.crt /\ disk'.key = active /\ disk' \in [crt: CAs, key: CAs, enc: Passphrases]
      BY <2>2, <1>t DEF CATypeOK
    <3>2. CATypeOK'
      BY <1>t, <2>2, <3>1 DEF CATypeOK, recordCA
    <3>3. \A k \in CAs : k # active => caRow'[k] = caRow[k]
      BY <2>2, <1>t DEF recordCA, CATypeOK
    <3>4. CAsMade'
      BY <3>1, <3>3, <1>t DEF CAInv, CAsMade, CATypeOK, CAs
    <3> QED
      BY <3>1, <3>2, <3>4 DEF CAInv, RotationOrder, RecordedCAIsDurable, OnlyTornWriteDisarms
  <2>3. CASE UNCHANGED <<disk, caRow>>
    <3>2. CATypeOK'
      BY <1>t, <2>3 DEF CATypeOK
    <3> QED
      BY <2>3, <3>2 DEF CAInv, CAsMade, RotationOrder, RecordedCAIsDurable, OnlyTornWriteDisarms
  <2> QED
    BY <2>2, <2>3
<1>5. CASE GraceExpires
  BY <1>5 DEF GraceExpires, CAInv, CATypeOK, CAsMade, RotationOrder, RecordedCAIsDurable, OnlyTornWriteDisarms
<1>6. CASE CertAges
  <2> USE DEF CertAges
  <2>1. PICK i \in 1..Len(certs) : certs[i].age < 2 /\ certs' = [certs EXCEPT ![i].age = @ + 1]
    BY <1>6
  <2>2. certs[i] \in Leaf
    BY <1>t DEF CATypeOK
  <2>3. PICK a \in 0..2 : a = certs[i].age + 1
    BY <2>1, <2>2 DEF Leaf
  <2>4. [certs[i] EXCEPT !.age = a] \in Leaf
    BY <2>2 DEF Leaf
  <2>5. certs' = [certs EXCEPT ![i] = [certs[i] EXCEPT !.age = a]]
    BY <2>1, <2>3
  <2>6. certs' \in Seq(Leaf)
    BY <2>4, <2>5, <1>t DEF CATypeOK
  <2> QED
    BY <2>6, <1>6, CertsStep
<1>7. ASSUME NEW n \in Subjects, Issue(n) PROVE CAInv'
  <2>1. [subject |-> n, ca |-> active, state |-> "issued", age |-> 0] \in Leaf
    BY <1>t DEF CATypeOK, Leaf
  <2>2. certs' \in Seq(Leaf)
    BY <2>1, <1>7, <1>t DEF Issue, CreateCert, CATypeOK
  <2> QED
    BY <2>2, <1>7, CertsStep DEF Issue
<1>8. ASSUME NEW i \in 1..Len(certs), RevokeLeaf(i) PROVE CAInv'
  <2>2. certs[i] \in Leaf
    BY <1>t DEF CATypeOK
  <2>4. [certs[i] EXCEPT !.state = "revoked"] \in Leaf
    BY <2>2 DEF Leaf
  <2>6. certs' \in Seq(Leaf)
    BY <2>4, <1>8, <1>t DEF RevokeLeaf, Revoke, CATypeOK
  <2> QED
    BY <2>6, <1>8, CertsStep DEF RevokeLeaf
<1>9. ASSUME NEW p \in Passphrases, adopt(p) PROVE CAInv'
  <2> USE <1>9 DEF adopt
  <2>1. CATypeOK'
    BY <1>t DEF CATypeOK, recordCA
  <2>2. \A k \in CAs : k # disk.crt => caRow'[k] = caRow[k]
    BY <1>t DEF recordCA, CATypeOK
  <2>3. CAsMade'
    BY <2>2, <1>t DEF CAInv, CAsMade, CATypeOK, CAs
  <2> QED
    BY <2>1, <2>3 DEF CAInv, RotationOrder, RecordedCAIsDurable, OnlyTornWriteDisarms
<1>10. CASE UNCHANGED caVars
  BY <1>10, CertsStep, <1>t DEF caVars, CATypeOK
<1> QED
  BY <1>1, <1>2, <1>3, <1>4, <1>5, <1>6, <1>7, <1>8, <1>9, <1>10 DEF CANext, Restart

\* A rotation keeps the CA that signs a leaf in the pool.
LEMMA CARotationSafe == CAInv => RotationStep
<1> SUFFICES ASSUME CAInv, RotateSwap \/ generate \/ WriteCrt \/ WriteKey,
                    NEW i \in 1..Len(certs), VerifyClient(i), certs[i].ca = active
             PROVE  VerifyClient(i)'
  BY DEF RotationStep
<1>1. certs' = certs /\ active \in CertPool'
  <2>1. active # NoCA
    BY CAAssumption DEF CAInv, CATypeOK, CAs, NoCA
  <2> QED
    BY <2>1 DEF RotateSwap, generate, WriteCrt, WriteKey, CertPool, CAInv, RotationOrder
<1> QED
  BY <1>1 DEF VerifyClient

\* However rotations, issues and restarts interleave, Rotate keeps its order: the CA
\* that is recorded is on disk, and a rotation that stops half-way has recorded nothing
\* (ca.go, Rotate, generate, writeDisk, recordCA).
THEOREM CADurable == CASpec => []CAInv
<1> QED
  BY CAInitKeeps, CANextKeeps, PTL DEF CASpec

\* The same in the sum of the parts.
THEOREM OperationsCA ==
    OperationsSpec => [](part = "ca" => CAInv)
<1>1. OperationsInit => (part = "ca" => CAInv)
  BY CAInitKeeps DEF OperationsInit
<1>2. part = "ca" /\ [OperationsNext]_operationsVars => [CANext]_caVars
  BY DEF OperationsNext, operationsVars
<1>3. [OperationsNext]_operationsVars => part' = part
  BY DEF OperationsNext, operationsVars
<1>4. (part = "ca" => CAInv) /\ [OperationsNext]_operationsVars => (part = "ca" => CAInv)'
  BY <1>2, <1>3, CANextKeeps
<1> QED
  BY <1>1, <1>4, PTL DEF OperationsSpec

\* The CA whose row says it issues is the one ca.crt and ca.key hold, and only a rotation
\* torn between the two files leaves a restart that cannot sign (writeDisk, adopt).
THEOREM OperationsDisk == OperationsSpec => []CertAuthority_DiskIsAuthority
<1>1. (part = "ca" => CAInv) => CertAuthority_DiskIsAuthority
  BY DEF CAInv, CertAuthority_DiskIsAuthority
<1> QED
  BY <1>1, OperationsCA, PTL

\* No step of a rotation makes a leaf of the CA it replaces stop verifying: that CA is in
\* the grace slot before the new one signs (Rotate, CertPool, VerifyClient).
THEOREM OperationsTrust == OperationsSpec => CertAuthority_RotationKeepsTrust
<1>1. (part = "ca" => CAInv) => [part = "ca" => RotationStep]_caVars
  BY CARotationSafe
<1> QED
  BY <1>1, OperationsCA, PTL DEF CertAuthority_RotationKeepsTrust

\* At most one engine process of a generation lives, however StartEngine, StopEngine
\* and the restarts after a crash interleave at their awaits (supervisor.rs, supervise).
THEOREM OperationsSupervisor == OperationsSpec => []Supervisor_OneEngine
<1>1. OperationsInit => (part = "supervisor" => SInv)
  BY SupInitKeeps DEF OperationsInit
<1>2. part = "supervisor" /\ [OperationsNext]_operationsVars => [SupNext]_supVars
  BY DEF OperationsNext, operationsVars
<1>3. [OperationsNext]_operationsVars => part' = part
  BY DEF OperationsNext, operationsVars
<1>4. (part = "supervisor" => SInv) /\ [OperationsNext]_operationsVars => (part = "supervisor" => SInv)'
  BY <1>2, <1>3, SupNextKeeps
<1>5. (part = "supervisor" => SInv) => Supervisor_OneEngine
  BY SupInvSafe DEF SInv, Supervisor_OneEngine
<1> QED
  BY <1>1, <1>4, <1>5, PTL DEF OperationsSpec

(***************************************************************************)
(* Fleet membership                                                        *)
(***************************************************************************)

\* The calls in flight, by the step they are at.
JoinLookupCall == [op: {"join"}, node: FleetNodes, pc: {"lookup"}, tok: Tokens]
JoinUpsertCall == [op: {"join"}, node: FleetNodes, pc: {"upsert"}, tok: Tokens, found: BOOLEAN]
SignCall == [op: {"join", "renew"}, node: FleetNodes, pc: {"sign"}]
WriteCall == [op: {"drain", "decommission"}, node: FleetNodes, pc: {"write"}, row: NodeRow]
HeartbeatCall == [op: {"heartbeat"}, node: FleetNodes, pc: {"write"}, row: NodeRow, state: AgentStates]
ListCall == [op: {"decommission"}, node: FleetNodes, pc: {"list"}]
RevokeCall == [op: {"decommission"}, node: FleetNodes, pc: {"revoke"}, todo: SUBSET Nat,
               listed: Nat, errs: BOOLEAN]
CallRec == JoinLookupCall \cup JoinUpsertCall \cup SignCall \cup WriteCall \cup HeartbeatCall
             \cup ListCall \cup RevokeCall

\* A call that is about to sign has seen the node's nrow in the table ns.
SignOK(r, ns) == r \in SignCall => ns[r.node] # NoNode

\* Of the leaves ls up to the listing, the loop has revoked what is no longer to do.
RevokeOK(r, ls) ==
    r \in RevokeCall =>
        /\ r.todo \subseteq 1..r.listed
        /\ r.listed <= Len(ls)
        /\ ~r.errs => \A i \in 1..r.listed :
                        ls[i].subject = r.node /\ ls[i].state # "revoked" => i \in r.todo

CallsInv ==
    /\ fleetCall \in [Calls -> CallRec \cup {NoCall}]
    /\ \A c \in Calls : SignOK(fleetCall[c], nodes) /\ RevokeOK(fleetCall[c], leaves)

\* A token that can still let a Join through has let none through.
TokenHistory ==
    /\ joins \in [Tokens -> Nat]
    /\ \A t \in Tokens :
         /\ joins[t] <= 1
         /\ token[t] = "unminted" => joins[t] = 0
         /\ token[t] = "valid" /\ t \notin used => joins[t] = 0

FleetTables ==
    /\ nodes \in [FleetNodes -> NodeRow \cup {NoNode}]
    /\ leaves \in Seq(NodeLeaf)
    /\ token \in [Tokens -> {"unminted", "valid", "dead"}]
    /\ used \subseteq Tokens
    /\ fleetRestarts \in 0..MaxFleetRestarts

FInv == FleetTables /\ CallsInv /\ TokenHistory /\ CertHasNode

LEMMA LeafFields == \A l \in NodeLeaf : l.subject \in FleetNodes /\ l.state \in {"issued", "revoked"}
BY DEF NodeLeaf

LEMMA RowIsSome == \A r \in NodeRow : r # NoNode
<1> SUFFICES ASSUME NEW r \in NodeRow, r = NoNode PROVE FALSE
  OBVIOUS
<1>1. DOMAIN r = {"state", "addr"}
  BY DEF NodeRow
<1>2. DOMAIN r = {"state"}
  BY DEF NoNode
<1> QED
  BY <1>1, <1>2

\* The step a call is at tells its shape.
LEMMA CallShapes ==
  ASSUME NEW r \in CallRec \cup {NoCall}
  PROVE  /\ r.op = "join" /\ r.pc = "lookup" => r \in JoinLookupCall
         /\ r.op = "join" /\ r.pc = "upsert" => r \in JoinUpsertCall
         /\ r # NoCall /\ r.pc = "sign" => r \in SignCall
         /\ r.op = "drain" /\ r.pc = "write" => r \in WriteCall
         /\ r.op = "decommission" /\ r.pc = "write" => r \in WriteCall
         /\ r.op = "heartbeat" /\ r.pc = "write" => r \in HeartbeatCall
         /\ r.op = "decommission" /\ r.pc = "list" => r \in ListCall
         /\ r.op = "decommission" /\ r.pc = "revoke" => r \in RevokeCall
<1>1. NoCall.op = "none"
  BY DEF NoCall
<1> QED
  BY <1>1 DEF CallRec, JoinLookupCall, JoinUpsertCall, SignCall, WriteCall, HeartbeatCall, ListCall, RevokeCall

LEMMA NoCallOK == \A ns, ls : SignOK(NoCall, ns) /\ RevokeOK(NoCall, ls)
<1>1. NoCall.op = "none"
  BY DEF NoCall
<1> QED
  BY <1>1 DEF SignOK, RevokeOK, SignCall, RevokeCall

\* The node rows are never removed, and the leaves only grow and become revoked.
RowsStay(ns, ms) == \A n \in FleetNodes : ns[n] # NoNode => ms[n] # NoNode
LeavesGrow(ls, ms) ==
    /\ Len(ls) <= Len(ms)
    /\ \A i \in 1..Len(ls) :
         /\ ms[i].subject = ls[i].subject
         /\ ls[i].state = "revoked" => ms[i].state = "revoked"

LEMMA CallOKStays ==
  ASSUME NEW r, NEW ns, NEW ms, NEW ls \in Seq(NodeLeaf), NEW ks \in Seq(NodeLeaf),
         SignOK(r, ns), RevokeOK(r, ls), RowsStay(ns, ms), LeavesGrow(ls, ks)
  PROVE  SignOK(r, ms) /\ RevokeOK(r, ks)
<1>1. SignOK(r, ms)
  BY DEF SignOK, SignCall, RowsStay
<1>2. RevokeOK(r, ks)
  <2> SUFFICES ASSUME r \in RevokeCall PROVE RevokeOK(r, ks)
    BY DEF RevokeOK
  <2>1. r.listed \in Nat /\ Len(ls) \in Nat /\ Len(ks) \in Nat
    BY DEF RevokeCall
  <2> QED
    BY <2>1 DEF RevokeOK, LeavesGrow
<1> QED
  BY <1>1, <1>2

\* What every step of a call has to show: its own new record, and that the tables
\* it leaves suit the other calls.
LEMMA CallsStep ==
  ASSUME FInv, NEW c \in Calls, NEW r \in CallRec \cup {NoCall}, leaves' \in Seq(NodeLeaf),
         fleetCall' = [fleetCall EXCEPT ![c] = r], SignOK(r, nodes'), RevokeOK(r, leaves'),
         RowsStay(nodes, nodes'), LeavesGrow(leaves, leaves')
  PROVE  CallsInv'
<1>1. fleetCall' \in [Calls -> CallRec \cup {NoCall}]
  BY DEF FInv, CallsInv
<1>2. ASSUME NEW d \in Calls PROVE SignOK(fleetCall'[d], nodes') /\ RevokeOK(fleetCall'[d], leaves')
  <2>1. CASE d = c
    BY <2>1 DEF FInv, CallsInv
  <2>2. CASE d # c
    <3>1. fleetCall'[d] = fleetCall[d]
      BY <2>2 DEF FInv, CallsInv
    <3> QED
      BY <3>1, CallOKStays DEF FInv, CallsInv, FleetTables
  <2> QED
    BY <2>1, <2>2
<1> QED
  BY <1>1, <1>2 DEF CallsInv

LEMMA LeavesSame == \A ls \in Seq(NodeLeaf) : LeavesGrow(ls, ls)
BY DEF LeavesGrow

LEMMA RowsSame == \A ns : RowsStay(ns, ns)
BY DEF RowsStay

\* A nrow written for a node keeps every nrow.
LEMMA RowWritten ==
  ASSUME NEW ns \in [FleetNodes -> NodeRow \cup {NoNode}], NEW n \in FleetNodes, NEW nrow \in NodeRow
  PROVE  /\ [ns EXCEPT ![n] = nrow] \in [FleetNodes -> NodeRow \cup {NoNode}]
         /\ RowsStay(ns, [ns EXCEPT ![n] = nrow])
         /\ [ns EXCEPT ![n] = nrow][n] # NoNode
BY RowIsSome DEF RowsStay

\* A step that writes no leaf: the tables hold and every leaf still has its nrow.
LEMMA NodesStep ==
  ASSUME FInv, nodes' \in [FleetNodes -> NodeRow \cup {NoNode}], RowsStay(nodes, nodes'), CallsInv',
         UNCHANGED <<leaves, token, used, fleetRestarts, joins>>
  PROVE  FInv'
<1>1. FleetTables' /\ TokenHistory'
  BY DEF FInv, FleetTables, TokenHistory
<1>2. CertHasNode'
  <2>1. \A i \in 1..Len(leaves) : leaves[i].subject \in FleetNodes
    BY LeafFields DEF FInv, FleetTables
  <2> QED
    BY <2>1 DEF FInv, CertHasNode, RowsStay
<1> QED
  BY <1>1, <1>2 DEF FInv

\* A step that writes leaves and no node nrow.
LEMMA LeavesStep ==
  ASSUME FInv, leaves' \in Seq(NodeLeaf), CallsInv',
         \A i \in 1..Len(leaves') : nodes[leaves'[i].subject] # NoNode,
         UNCHANGED <<nodes, token, used, fleetRestarts, joins>>
  PROVE  FInv'
<1>1. FleetTables' /\ TokenHistory'
  BY DEF FInv, FleetTables, TokenHistory
<1>2. CertHasNode'
  BY DEF CertHasNode
<1> QED
  BY <1>1, <1>2 DEF FInv

LEMMA FleetInitKeeps == FleetInit => FInv
<1> SUFFICES ASSUME FleetInit PROVE FInv
  OBVIOUS
<1> USE DEF FleetInit
<1>1. FleetTables
  BY FleetBoundsAssumption DEF FleetTables
<1>2. CallsInv
  BY NoCallOK DEF CallsInv
<1>3. TokenHistory
  BY DEF TokenHistory
<1>4. CertHasNode
  BY DEF CertHasNode
<1> QED
  BY <1>1, <1>2, <1>3, <1>4 DEF FInv

LEMMA GenerateJoinTokenKeeps ==
  ASSUME FInv, NEW t \in Tokens, GenerateJoinToken(t) \/ TokenExpires(t) PROVE FInv'
<1>1. token' \in [Tokens -> {"unminted", "valid", "dead"}]
  BY DEF GenerateJoinToken, TokenExpires, FInv, FleetTables
<1>2. FleetTables' /\ CallsInv' /\ CertHasNode'
  BY <1>1 DEF GenerateJoinToken, TokenExpires, FInv, FleetTables, CallsInv, CertHasNode
<1>3. TokenHistory'
  BY DEF GenerateJoinToken, TokenExpires, FInv, FleetTables, TokenHistory
<1> QED
  BY <1>2, <1>3 DEF FInv

LEMMA JoinFleetKeeps ==
  ASSUME FInv, NEW c \in Calls, NEW t \in Tokens, NEW n \in FleetNodes, Join(c, t, n) PROVE FInv'
<1> DEFINE r == [op |-> "join", node |-> n, pc |-> "lookup", tok |-> t]
<1>1. r \in JoinLookupCall /\ r.pc = "lookup"
  BY DEF JoinLookupCall
<1>2. fleetCall' = [fleetCall EXCEPT ![c] = r]
  BY DEF Join, SetCall
<1> HIDE DEF r
<1>3. r \in CallRec /\ SignOK(r, nodes') /\ RevokeOK(r, leaves')
  BY <1>1 DEF CallRec, SignOK, RevokeOK, SignCall, RevokeCall
<1>4. UNCHANGED <<nodes, leaves, token, fleetRestarts>>
  BY DEF Join
<1>5. CallsInv'
  BY <1>2, <1>3, <1>4, CallsStep, LeavesSame, RowsSame DEF FInv, FleetTables
<1>6. FleetTables' /\ CertHasNode'
  BY <1>4 DEF FInv, FleetTables, CertHasNode, Join, validateToken
<1>7. TokenHistory'
  <2>1. joins[t] = 0
    BY DEF FInv, TokenHistory, Join, validateToken
  <2>2. joins' = [joins EXCEPT ![t] = 1] /\ used' = used \cup {t}
    BY <2>1 DEF Join, validateToken
  <2>3. joins' \in [Tokens -> Nat]
    BY <2>2 DEF FInv, TokenHistory
  <2>4. ASSUME NEW u \in Tokens
        PROVE  /\ joins'[u] <= 1
               /\ token'[u] = "unminted" => joins'[u] = 0
               /\ token'[u] = "valid" /\ u \notin used' => joins'[u] = 0
    <3>1. CASE u = t
      BY <3>1, <2>2, <1>4 DEF FInv, TokenHistory, Join, validateToken
    <3>2. CASE u # t
      BY <3>2, <2>2, <1>4 DEF FInv, TokenHistory
    <3> QED
      BY <3>1, <3>2
  <2> QED
    BY <2>3, <2>4 DEF TokenHistory
<1> QED
  BY <1>5, <1>6, <1>7 DEF FInv

LEMMA JoinLookupKeeps ==
  ASSUME FInv, NEW c \in Calls, JoinLookup(c) PROVE FInv'
<1>0. fleetCall[c] \in JoinLookupCall
  BY CallShapes DEF FInv, CallsInv, JoinLookup, At
<1> DEFINE r == [op |-> "join", node |-> fleetCall[c].node, pc |-> "upsert", tok |-> fleetCall[c].tok,
                 found |-> nodes[fleetCall[c].node] # NoNode]
<1>1. r \in JoinUpsertCall /\ r.pc = "upsert"
  BY <1>0 DEF JoinLookupCall, JoinUpsertCall
<1>2. fleetCall' = [fleetCall EXCEPT ![c] = r]
  BY DEF JoinLookup, SetCall
<1> HIDE DEF r
<1>3. r \in CallRec /\ SignOK(r, nodes') /\ RevokeOK(r, leaves')
  BY <1>1 DEF CallRec, SignOK, RevokeOK, SignCall, RevokeCall
<1>4. UNCHANGED <<nodes, leaves, token, used, fleetRestarts, joins>>
  BY DEF JoinLookup
<1>5. CallsInv'
  BY <1>2, <1>3, <1>4, CallsStep, LeavesSame, RowsSame DEF FInv, FleetTables
<1> QED
  BY <1>4, <1>5, NodesStep, RowsSame DEF FInv, FleetTables

\* A call that ends or fails leaves nothing behind.
LEMMA EndCallKeeps ==
  ASSUME FInv, NEW c \in Calls, EndCall(c), nodes' \in [FleetNodes -> NodeRow \cup {NoNode}],
         RowsStay(nodes, nodes'), UNCHANGED <<leaves, token, used, fleetRestarts, joins>>
  PROVE  FInv'
<1>1. CallsInv'
  BY CallsStep, NoCallOK, LeavesSame DEF EndCall, SetCall, FInv, FleetTables
<1> QED
  BY <1>1, NodesStep

LEMMA JoinUpsertKeeps ==
  ASSUME FInv, NEW c \in Calls, JoinUpsert(c) PROVE FInv'
<1>0. fleetCall[c] \in JoinUpsertCall
  BY CallShapes DEF FInv, CallsInv, JoinUpsert, At
<1>1. PICK n \in FleetNodes : n = fleetCall[c].node
  BY <1>0 DEF JoinUpsertCall
<1>2. PICK t \in Tokens : t = fleetCall[c].tok
  BY <1>0 DEF JoinUpsertCall
<1>4. UNCHANGED <<leaves, token, used, fleetRestarts, joins>>
  BY DEF JoinUpsert
<1>5. CASE EndCall(c) /\ UNCHANGED nodes
  BY <1>4, <1>5, EndCallKeeps, RowsSame DEF FInv, FleetTables
<1>6. CASE /\ UpdateNode(n, [state |-> "ENROLLED", addr |-> t])
           /\ SetCall(c, [op |-> "join", node |-> n, pc |-> "sign"])
  <2> DEFINE nrow == [state |-> "ENROLLED", addr |-> t]
             r == [op |-> "join", node |-> n, pc |-> "sign"]
  <2>1. nrow \in NodeRow
    BY DEF NodeRow, FleetStates
  <2>2. r \in SignCall /\ r.pc = "sign" /\ r.node = n
    BY DEF SignCall
  <2>3. nodes' = [nodes EXCEPT ![n] = nrow] /\ fleetCall' = [fleetCall EXCEPT ![c] = r]
    BY <1>6 DEF UpdateNode, SetCall
  <2> HIDE DEF nrow, r
  <2>4. nodes' \in [FleetNodes -> NodeRow \cup {NoNode}] /\ RowsStay(nodes, nodes') /\ nodes'[n] # NoNode
    BY <2>1, <2>3, RowWritten DEF FInv, FleetTables
  <2>5. r \in CallRec /\ SignOK(r, nodes') /\ RevokeOK(r, leaves')
    BY <2>2, <2>4 DEF CallRec, SignOK, RevokeOK, RevokeCall
  <2>6. CallsInv'
    BY <1>4, <2>3, <2>4, <2>5, CallsStep, LeavesSame DEF FInv, FleetTables
  <2> QED
    BY <2>4, <2>6, <1>4, NodesStep
<1> QED
  BY <1>1, <1>2, <1>5, <1>6 DEF JoinUpsert

LEMMA IssueRecordKeeps ==
  ASSUME FInv, NEW c \in Calls, IssueRecord(c) PROVE FInv'
<1>0. fleetCall[c] \in SignCall /\ SignOK(fleetCall[c], nodes)
  BY CallShapes DEF FInv, CallsInv, IssueRecord, AtAny
<1>1. PICK n \in FleetNodes : n = fleetCall[c].node /\ nodes[n] # NoNode
  BY <1>0 DEF SignCall, SignOK
<1> DEFINE leaf == [subject |-> n, state |-> "issued", fresh |-> TRUE]
<1>2. leaf \in NodeLeaf /\ leaf.subject = n
  BY DEF NodeLeaf
<1>3. leaves' = Append(leaves, leaf)
  BY <1>1 DEF IssueRecord
<1> HIDE DEF leaf
<1>4. leaves \in Seq(NodeLeaf)
  BY DEF FInv, FleetTables
<1>5. /\ leaves' \in Seq(NodeLeaf)
      /\ Len(leaves') = Len(leaves) + 1
      /\ \A i \in 1..Len(leaves) : leaves'[i] = leaves[i]
      /\ leaves'[Len(leaves) + 1] = leaf
  BY <1>2, <1>3, <1>4
<1>6. LeavesGrow(leaves, leaves')
  BY <1>4, <1>5 DEF LeavesGrow
<1>7. UNCHANGED <<nodes, token, used, fleetRestarts, joins>>
  BY DEF IssueRecord
<1>8. CallsInv'
  BY <1>5, <1>6, <1>7, CallsStep, NoCallOK, RowsSame DEF IssueRecord, EndCall, SetCall
<1>9. \A i \in 1..Len(leaves') : nodes[leaves'[i].subject] # NoNode
  <2>1. Len(leaves) \in Nat
    BY <1>4
  <2>2. ASSUME NEW i \in 1..Len(leaves') PROVE i \in 1..Len(leaves) \/ i = Len(leaves) + 1
    BY <2>1, <1>5
  <2> QED
    BY <2>2, <1>5, <1>1, <1>2 DEF FInv, CertHasNode
<1> QED
  BY <1>5, <1>7, <1>8, <1>9, LeavesStep

LEMMA ReadNodeKeeps ==
  ASSUME FInv, NEW c \in Calls, NEW op \in {"drain", "decommission"}, NEW n \in FleetNodes, ReadNode(c, op, n)
  PROVE  FInv'
<1>0. PICK nrow \in NodeRow : nrow = nodes[n]
  BY DEF FInv, FleetTables, ReadNode
<1> DEFINE r == [op |-> op, node |-> n, pc |-> "write", row |-> nrow]
<1>1. r \in WriteCall /\ r.pc = "write"
  BY DEF WriteCall
<1>2. fleetCall' = [fleetCall EXCEPT ![c] = r]
  BY <1>0 DEF ReadNode, SetCall
<1> HIDE DEF r
<1>3. r \in CallRec /\ SignOK(r, nodes') /\ RevokeOK(r, leaves')
  BY <1>1 DEF CallRec, SignOK, RevokeOK, SignCall, RevokeCall
<1>4. UNCHANGED <<nodes, leaves, token, used, fleetRestarts, joins>>
  BY DEF ReadNode
<1>5. CallsInv'
  BY <1>2, <1>3, <1>4, CallsStep, LeavesSame, RowsSame DEF FInv, FleetTables
<1> QED
  BY <1>4, <1>5, NodesStep, RowsSame DEF FInv, FleetTables

LEMMA ReceiveHeartbeatKeeps ==
  ASSUME FInv, NEW c \in Calls, NEW s \in AgentStates, NEW n \in FleetNodes, ReceiveHeartbeat(c, n, s)
  PROVE  FInv'
<1>0. PICK nrow \in NodeRow : nrow = nodes[n]
  BY DEF FInv, FleetTables, ReceiveHeartbeat
<1> DEFINE r == [op |-> "heartbeat", node |-> n, pc |-> "write", row |-> nrow, state |-> s]
<1>1. r \in HeartbeatCall /\ r.pc = "write"
  BY DEF HeartbeatCall
<1>2. fleetCall' = [fleetCall EXCEPT ![c] = r]
  BY <1>0 DEF ReceiveHeartbeat, SetCall
<1> HIDE DEF r
<1>3. r \in CallRec /\ SignOK(r, nodes') /\ RevokeOK(r, leaves')
  BY <1>1 DEF CallRec, SignOK, RevokeOK, SignCall, RevokeCall
<1>4. UNCHANGED <<nodes, leaves, token, used, fleetRestarts, joins>>
  BY DEF ReceiveHeartbeat
<1>5. CallsInv'
  BY <1>2, <1>3, <1>4, CallsStep, LeavesSame, RowsSame DEF FInv, FleetTables
<1> QED
  BY <1>4, <1>5, NodesStep, RowsSame DEF FInv, FleetTables

LEMMA RenewCertKeeps ==
  ASSUME FInv, NEW c \in Calls, NEW n \in FleetNodes, RenewCert(c, n) PROVE FInv'
<1> DEFINE r == [op |-> "renew", node |-> n, pc |-> "sign"]
<1>1. r \in SignCall /\ r.pc = "sign" /\ r.node = n
  BY DEF SignCall
<1>2. fleetCall' = [fleetCall EXCEPT ![c] = r]
  BY DEF RenewCert, SetCall
<1> HIDE DEF r
<1>4. UNCHANGED <<nodes, leaves, token, used, fleetRestarts, joins>> /\ nodes[n] # NoNode
  BY DEF RenewCert
<1>3. r \in CallRec /\ SignOK(r, nodes') /\ RevokeOK(r, leaves')
  BY <1>1, <1>4 DEF CallRec, SignOK, RevokeOK, RevokeCall
<1>5. CallsInv'
  BY <1>2, <1>3, <1>4, CallsStep, LeavesSame, RowsSame DEF FInv, FleetTables
<1> QED
  BY <1>4, <1>5, NodesStep, RowsSame DEF FInv, FleetTables

\* A nrow read earlier is written back with a state of the call's own.
LEMMA RowRewritten ==
  ASSUME NEW nrow \in NodeRow, NEW s \in FleetStates PROVE [nrow EXCEPT !.state = s] \in NodeRow
BY DEF NodeRow

LEMMA DrainKeeps ==
  ASSUME FInv, NEW c \in Calls, Drain(c) \/ applyHeartbeat(c) PROVE FInv'
<1>0. PICK n \in FleetNodes, nrow \in NodeRow, s \in FleetStates :
        UpdateNode(n, [nrow EXCEPT !.state = s])
  <2>1. CASE Drain(c)
    <3>1. fleetCall[c] \in WriteCall
      BY <2>1, CallShapes DEF FInv, CallsInv, Drain, At
    <3>2. fleetCall[c].node \in FleetNodes /\ fleetCall[c].row \in NodeRow /\ "DRAINING" \in FleetStates
      BY <3>1 DEF WriteCall, FleetStates
    <3> QED
      BY <2>1, <3>2 DEF Drain
  <2>2. CASE applyHeartbeat(c)
    <3>1. fleetCall[c] \in HeartbeatCall
      BY <2>2, CallShapes DEF FInv, CallsInv, applyHeartbeat, At
    <3>2. /\ fleetCall[c].node \in FleetNodes /\ fleetCall[c].row \in NodeRow
          /\ fleetCall[c].state \in FleetStates
      BY <3>1 DEF HeartbeatCall, FleetStates
    <3> QED
      BY <2>2, <3>2 DEF applyHeartbeat
  <2> QED
    BY <2>1, <2>2
<1>1. nodes' \in [FleetNodes -> NodeRow \cup {NoNode}] /\ RowsStay(nodes, nodes')
  BY <1>0, RowRewritten, RowWritten DEF UpdateNode, FInv, FleetTables
<1>2. EndCall(c) /\ UNCHANGED <<leaves, token, used, fleetRestarts, joins>>
  BY DEF Drain, applyHeartbeat
<1> QED
  BY <1>1, <1>2, EndCallKeeps

LEMMA DecommissionWriteKeeps ==
  ASSUME FInv, NEW c \in Calls, DecommissionWrite(c) PROVE FInv'
<1>0. fleetCall[c] \in WriteCall
  BY CallShapes DEF FInv, CallsInv, DecommissionWrite, At
<1>1. PICK n \in FleetNodes, nrow \in NodeRow : n = fleetCall[c].node /\ nrow = fleetCall[c].row
  BY <1>0 DEF WriteCall
<1>2. nodes' \in [FleetNodes -> NodeRow \cup {NoNode}] /\ RowsStay(nodes, nodes')
  <2>1. "DECOMMISSIONED" \in FleetStates
    BY DEF FleetStates
  <2> QED
    BY <1>1, <2>1, RowRewritten, RowWritten DEF DecommissionWrite, UpdateNode, FInv, FleetTables
<1> DEFINE r == [op |-> "decommission", node |-> n, pc |-> "list"]
<1>3. r \in ListCall /\ r.pc = "list"
  BY DEF ListCall
<1>4. fleetCall' = [fleetCall EXCEPT ![c] = r]
  BY <1>1 DEF DecommissionWrite, SetCall
<1> HIDE DEF r
<1>5. r \in CallRec /\ SignOK(r, nodes') /\ RevokeOK(r, leaves')
  BY <1>3 DEF CallRec, SignOK, RevokeOK, SignCall, RevokeCall
<1>6. UNCHANGED <<leaves, token, used, fleetRestarts, joins>>
  BY DEF DecommissionWrite
<1>7. CallsInv'
  BY <1>2, <1>4, <1>5, <1>6, CallsStep, LeavesSame DEF FInv, FleetTables
<1> QED
  BY <1>2, <1>6, <1>7, NodesStep

LEMMA DecommissionListKeeps ==
  ASSUME FInv, NEW c \in Calls, DecommissionList(c) PROVE FInv'
<1>0. fleetCall[c] \in ListCall
  BY CallShapes DEF FInv, CallsInv, DecommissionList, At
<1>1. PICK n \in FleetNodes : n = fleetCall[c].node
  BY <1>0 DEF ListCall
<1>2. leaves \in Seq(NodeLeaf) /\ Len(leaves) \in Nat
  BY DEF FInv, FleetTables
<1>3. PICK len \in Nat : len = Len(leaves)
  BY <1>2
<1>4. PICK todo \in SUBSET Nat : todo = IssuedTo(n)
  <2>1. 1..Len(leaves) \subseteq Nat
    BY <1>2
  <2>2. IssuedTo(n) \subseteq 1..Len(leaves)
    BY DEF IssuedTo
  <2> QED
    BY <2>1, <2>2
<1> DEFINE r == [op |-> "decommission", node |-> n, pc |-> "revoke", todo |-> todo, listed |-> len,
                 errs |-> FALSE]
<1>5. r \in RevokeCall /\ r.pc = "revoke" /\ r.node = n /\ r.todo = todo /\ r.listed = len
  BY DEF RevokeCall
<1>6. fleetCall' = [fleetCall EXCEPT ![c] = r]
  BY <1>1, <1>3, <1>4 DEF DecommissionList, SetCall
<1> HIDE DEF r
<1>7. UNCHANGED <<nodes, leaves, token, used, fleetRestarts, joins>>
  BY DEF DecommissionList
<1>8. r \in CallRec /\ SignOK(r, nodes')
  BY <1>5 DEF CallRec, SignOK, SignCall
<1>9. RevokeOK(r, leaves')
  <2>1. \A i \in 1..Len(leaves) : leaves[i].state \in {"issued", "revoked"}
    BY <1>2, LeafFields
  <2>2. todo \subseteq 1..len /\ len <= Len(leaves)
    BY <1>2, <1>3, <1>4 DEF IssuedTo
  <2>3. \A i \in 1..len : leaves[i].subject = n /\ leaves[i].state # "revoked" => i \in todo
    BY <2>1, <1>3, <1>4 DEF IssuedTo
  <2> QED
    BY <1>5, <1>7, <2>2, <2>3 DEF RevokeOK
<1>10. CallsInv'
  BY <1>6, <1>7, <1>8, <1>9, CallsStep, LeavesSame, RowsSame DEF FInv, FleetTables
<1> QED
  BY <1>7, <1>10, NodesStep, RowsSame DEF FInv, FleetTables

\* One field of a leaf is written: no leaf loses its nrow, none its revocation.
LEMMA LeafWritten ==
  ASSUME NEW ls \in Seq(NodeLeaf), NEW ms \in Seq(NodeLeaf), Len(ms) = Len(ls), NEW i \in 1..Len(ls),
         ms[i].subject = ls[i].subject, ls[i].state = "revoked" => ms[i].state = "revoked",
         \A j \in 1..Len(ls) : j # i => ms[j] = ls[j]
  PROVE  LeavesGrow(ls, ms) /\ (\A j \in 1..Len(ls) : ms[j].subject = ls[j].subject)
BY DEF LeavesGrow

\* A certificate leaves the list of a loop: it was revoked, or the loop has an error.
LEMMA RevokeAdvances ==
  ASSUME NEW r \in RevokeCall, NEW ls \in Seq(NodeLeaf), RevokeOK(r, ls), NEW i \in r.todo,
         NEW q \in RevokeCall, q.node = r.node, q.listed = r.listed, q.todo = r.todo \ {i},
         q.errs \/ (q.errs = r.errs /\ ls[i].state = "revoked")
  PROVE  RevokeOK(q, ls)
<1>1. q.todo \subseteq 1..q.listed /\ q.listed <= Len(ls)
  BY DEF RevokeOK
<1>2. ASSUME ~q.errs, NEW j \in 1..q.listed, ls[j].subject = q.node, ls[j].state # "revoked"
      PROVE  j \in q.todo
  BY <1>2 DEF RevokeOK
<1> QED
  BY <1>1, <1>2 DEF RevokeOK

LEMMA RevokeDone ==
  ASSUME NEW r \in RevokeCall, NEW rest \in SUBSET Nat
  PROVE  /\ [r EXCEPT !.todo = rest] \in RevokeCall
         /\ [r EXCEPT !.todo = rest].node = r.node
         /\ [r EXCEPT !.todo = rest].listed = r.listed
         /\ [r EXCEPT !.todo = rest].todo = rest
         /\ [r EXCEPT !.todo = rest].errs = r.errs
BY DEF RevokeCall

LEMMA DecommissionRevokeKeeps ==
  ASSUME FInv, NEW c \in Calls, DecommissionRevoke(c) PROVE FInv'
<1>0. PICK r \in RevokeCall : r = fleetCall[c] /\ RevokeOK(r, leaves)
  BY CallShapes DEF FInv, CallsInv, DecommissionRevoke, At
<1>1. UNCHANGED <<nodes, token, used, fleetRestarts, joins>>
  BY DEF DecommissionRevoke
<1>2. CASE r.todo = {}
  BY <1>0, <1>1, <1>2, EndCallKeeps, RowsSame DEF DecommissionRevoke, FInv, FleetTables
<1>3. CASE r.todo # {}
  <2>1. PICK i \in r.todo : /\ leaves' = [leaves EXCEPT ![i].state = "revoked"]
                            /\ fleetCall' = [fleetCall EXCEPT ![c].todo = @ \ {i}]
    BY <1>0, <1>3 DEF DecommissionRevoke
  <2>2. leaves \in Seq(NodeLeaf)
    BY DEF FInv, FleetTables
  <2>3. i \in 1..Len(leaves)
    <3>1. r.listed \in Nat /\ Len(leaves) \in Nat
      BY <2>2 DEF RevokeCall
    <3> QED
      BY <1>0, <3>1 DEF RevokeOK
  <2>4. PICK leaf \in NodeLeaf : /\ leaf = [leaves[i] EXCEPT !.state = "revoked"]
                                 /\ leaf.subject = leaves[i].subject /\ leaf.state = "revoked"
    <3>1. PICK l \in NodeLeaf : l = leaves[i]
      BY <2>2, <2>3
    <3>2. /\ [l EXCEPT !.state = "revoked"] \in NodeLeaf
          /\ [l EXCEPT !.state = "revoked"].subject = l.subject
          /\ [l EXCEPT !.state = "revoked"].state = "revoked"
      BY DEF NodeLeaf
    <3> QED
      BY <3>1, <3>2
  <2>5. leaves' = [leaves EXCEPT ![i] = leaf]
    BY <2>1, <2>4
  <2>6. /\ leaves' \in Seq(NodeLeaf) /\ LeavesGrow(leaves, leaves') /\ Len(leaves') = Len(leaves)
        /\ \A j \in 1..Len(leaves) : leaves'[j].subject = leaves[j].subject
        /\ leaves'[i].state = "revoked"
    <3>1. leaves[i].state = "revoked" => leaf.state = "revoked"
      BY <2>4
    <3>2. leaves' \in Seq(NodeLeaf) /\ Len(leaves') = Len(leaves) /\ leaves'[i] = leaf
      BY <2>2, <2>3, <2>5
    <3>3. \A j \in 1..Len(leaves) : j # i => leaves'[j] = leaves[j]
      BY <2>2, <2>3, <2>5
    <3> QED
      BY <2>2, <2>3, <2>4, <3>1, <3>2, <3>3, LeafWritten
  <2>r. PICK rest \in SUBSET Nat : rest = r.todo \ {i}
    BY DEF RevokeCall
  <2> DEFINE q == [r EXCEPT !.todo = rest]
  <2>7. /\ q \in RevokeCall /\ q.node = r.node /\ q.listed = r.listed /\ q.todo = r.todo \ {i}
        /\ q.errs = r.errs
    BY RevokeDone, <2>r
  <2>8. fleetCall' = [fleetCall EXCEPT ![c] = q]
    BY <2>1, <1>0, <2>r
  <2> HIDE DEF q
  <2>9. RevokeOK(r, leaves')
    BY <1>0, <2>2, <2>6, CallOKStays, RowsSame, NoCallOK DEF SignOK, FInv, CallsInv
  <2>10. RevokeOK(q, leaves')
    BY <2>6, <2>7, <2>9, RevokeAdvances
  <2>11. q \in CallRec /\ SignOK(q, nodes')
    BY <2>7 DEF CallRec, SignOK, SignCall, RevokeCall
  <2>12. CallsInv'
    BY <1>1, <2>6, <2>8, <2>10, <2>11, CallsStep, RowsSame
  <2>13. \A j \in 1..Len(leaves') : nodes[leaves'[j].subject] # NoNode
    BY <2>6 DEF FInv, CertHasNode
  <2> QED
    BY <1>1, <2>6, <2>12, <2>13, LeavesStep
<1> QED
  BY <1>2, <1>3

LEMMA StoreErrorKeeps ==
  ASSUME FInv, NEW c \in Calls, StoreError(c) PROVE FInv'
<1>1. UNCHANGED <<nodes, leaves, token, used, fleetRestarts, joins>>
  BY DEF StoreError
<1>2. CASE EndCall(c)
  BY <1>1, <1>2, EndCallKeeps, RowsSame DEF FInv, FleetTables
<1>3. CASE At(c, "decommission", "revoke") /\ fleetCall[c].todo # {} /\ ~EndCall(c)
  <2>0. PICK r \in RevokeCall : r = fleetCall[c] /\ RevokeOK(r, leaves)
    BY <1>3, CallShapes DEF FInv, CallsInv, At
  <2>1. PICK i \in r.todo : fleetCall' = [fleetCall EXCEPT ![c].todo = @ \ {i}, ![c].errs = TRUE]
    BY <1>3, <2>0 DEF StoreError
  <2>2. PICK e \in BOOLEAN : e = TRUE
    OBVIOUS
  <2>r. PICK rest \in SUBSET Nat : rest = r.todo \ {i}
    BY DEF RevokeCall
  <2> DEFINE q == [r EXCEPT !.todo = rest, !.errs = e]
  <2>3. /\ q \in RevokeCall /\ q.node = r.node /\ q.listed = r.listed /\ q.todo = r.todo \ {i}
        /\ q.errs = e
    BY <2>r DEF RevokeCall
  <2>4. fleetCall' = [fleetCall EXCEPT ![c] = q]
    BY <2>0, <2>1, <2>2, <2>r DEF FInv, CallsInv
  <2> HIDE DEF q
  <2>5. RevokeOK(q, leaves')
    BY <1>1, <2>0, <2>2, <2>3, RevokeAdvances DEF FInv, FleetTables
  <2>6. q \in CallRec /\ SignOK(q, nodes')
    BY <2>3 DEF CallRec, SignOK, SignCall, RevokeCall
  <2>7. CallsInv'
    BY <1>1, <2>4, <2>5, <2>6, CallsStep, LeavesSame, RowsSame DEF FInv, FleetTables
  <2> QED
    BY <1>1, <2>7, NodesStep, RowsSame DEF FInv, FleetTables
<1> QED
  BY <1>2, <1>3 DEF StoreError

LEMMA LeafAgesKeeps ==
  ASSUME FInv, LeafAges PROVE FInv'
<1>1. PICK i \in 1..Len(leaves) : leaves' = [leaves EXCEPT ![i].fresh = FALSE]
  BY DEF LeafAges
<1>2. leaves \in Seq(NodeLeaf)
  BY DEF FInv, FleetTables
<1>3. PICK leaf \in NodeLeaf : /\ leaf = [leaves[i] EXCEPT !.fresh = FALSE]
                               /\ leaf.subject = leaves[i].subject /\ leaf.state = leaves[i].state
  <2>1. PICK l \in NodeLeaf : l = leaves[i]
    BY <1>2
  <2>2. /\ [l EXCEPT !.fresh = FALSE] \in NodeLeaf
        /\ [l EXCEPT !.fresh = FALSE].subject = l.subject
        /\ [l EXCEPT !.fresh = FALSE].state = l.state
    BY DEF NodeLeaf
  <2> QED
    BY <2>1, <2>2
<1>4. leaves' = [leaves EXCEPT ![i] = leaf]
  BY <1>1, <1>3
<1>5. /\ leaves' \in Seq(NodeLeaf) /\ LeavesGrow(leaves, leaves') /\ Len(leaves') = Len(leaves)
      /\ \A j \in 1..Len(leaves) : leaves'[j].subject = leaves[j].subject
  <2>1. leaves[i].state = "revoked" => leaf.state = "revoked"
    BY <1>3
  <2>2. leaves' \in Seq(NodeLeaf) /\ Len(leaves') = Len(leaves) /\ leaves'[i] = leaf
    BY <1>2, <1>4
  <2>3. \A j \in 1..Len(leaves) : j # i => leaves'[j] = leaves[j]
    BY <1>2, <1>4
  <2> QED
    BY <1>2, <1>3, <2>1, <2>2, <2>3, LeafWritten
<1>6. UNCHANGED <<nodes, token, used, fleetCall, fleetRestarts, joins>>
  BY DEF LeafAges
<1>7. CallsInv'
  BY <1>2, <1>5, <1>6, CallOKStays, RowsSame DEF FInv, CallsInv
<1>8. \A j \in 1..Len(leaves') : nodes[leaves'[j].subject] # NoNode
  BY <1>5 DEF FInv, CertHasNode
<1> QED
  BY <1>5, <1>6, <1>7, <1>8, LeavesStep

LEMMA FleetRestartKeeps ==
  ASSUME FInv, FleetRestart PROVE FInv'
<1>1. FleetTables'
  BY FleetBoundsAssumption DEF FleetRestart, New, FInv, FleetTables
<1>2. CallsInv'
  BY NoCallOK DEF FleetRestart, CallsInv
<1>3. TokenHistory'
  BY DEF FleetRestart, New, FInv, TokenHistory
<1>4. CertHasNode'
  BY DEF FleetRestart, FInv, CertHasNode
<1> QED
  BY <1>1, <1>2, <1>3, <1>4 DEF FInv

LEMMA FleetNextKeeps == FInv /\ [FleetNext]_fleetVars => FInv'
<1> SUFFICES ASSUME FInv, [FleetNext]_fleetVars PROVE FInv'
  OBVIOUS
<1>1. ASSUME NEW c \in Calls, CallStep(c) PROVE FInv'
  BY <1>1, JoinLookupKeeps, JoinUpsertKeeps, IssueRecordKeeps, DrainKeeps, DecommissionWriteKeeps,
     DecommissionListKeeps, DecommissionRevokeKeeps DEF CallStep
<1>2. CASE UNCHANGED fleetVars
  BY <1>2 DEF fleetVars, FInv, FleetTables, CallsInv, TokenHistory, CertHasNode
<1> QED
  BY <1>1, <1>2, GenerateJoinTokenKeeps, StoreErrorKeeps, JoinFleetKeeps, ReadNodeKeeps, RenewCertKeeps,
     ReceiveHeartbeatKeeps, LeafAgesKeeps, FleetRestartKeeps DEF FleetNext

LEMMA FleetInvSafe == FInv => FleetTypeOK /\ TokenSingleUse /\ CertHasNode /\ DecommissionRevokes
<1> SUFFICES ASSUME FInv PROVE FleetTypeOK /\ TokenSingleUse /\ DecommissionRevokes
  BY DEF FInv
<1>1. ASSUME NEW c \in Calls, fleetCall[c] # NoCall PROVE CallOK(fleetCall[c])
  <2>1. PICK r \in CallRec : r = fleetCall[c] /\ RevokeOK(r, leaves)
    BY <1>1 DEF FInv, CallsInv
  <2>2. /\ r.op \in {"join", "drain", "decommission", "renew", "heartbeat"}
        /\ r.node \in FleetNodes
        /\ r.pc \in {"lookup", "upsert", "sign", "write", "list", "revoke"}
    BY DEF CallRec, JoinLookupCall, JoinUpsertCall, SignCall, WriteCall, HeartbeatCall, ListCall, RevokeCall
  <2>3. r.pc = "write" => r.row \in NodeRow
    BY DEF CallRec, JoinLookupCall, JoinUpsertCall, SignCall, WriteCall, HeartbeatCall, ListCall, RevokeCall
  <2>4. r.pc = "revoke" => r \in RevokeCall
    BY DEF CallRec, JoinLookupCall, JoinUpsertCall, SignCall, WriteCall, HeartbeatCall, ListCall, RevokeCall
  <2> QED
    BY <2>1, <2>2, <2>3, <2>4 DEF CallOK, RevokeOK
<1>2. FleetTypeOK
  BY <1>1 DEF FInv, FleetTables, FleetTypeOK
<1>3. TokenSingleUse
  BY DEF FInv, TokenHistory, TokenSingleUse
<1>4. DecommissionRevokes
  <2> SUFFICES ASSUME NEW c \in Calls, At(c, "decommission", "revoke"), fleetCall[c].todo = {},
                      ~fleetCall[c].errs, NEW i \in 1..fleetCall[c].listed,
                      leaves[i].subject = fleetCall[c].node
               PROVE  leaves[i].state = "revoked"
    BY DEF DecommissionRevokes
  <2>1. fleetCall[c] \in RevokeCall /\ RevokeOK(fleetCall[c], leaves)
    BY CallShapes DEF FInv, CallsInv, At
  <2> QED
    BY <2>1 DEF RevokeOK
<1> QED
  BY <1>2, <1>3, <1>4

\* Admission follows the registry across restarts: a join token lets one node in, a
\* certificate has a node row, and Decommission revokes every certificate it listed,
\* however the RPCs interleave at their registry calls (Join, RenewCert, Decommission).
THEOREM OperationsFleet == OperationsSpec => []Fleet_AdmissionHolds
<1>1. OperationsInit => (part = "fleet" => FInv)
  BY FleetInitKeeps DEF OperationsInit
<1>2. part = "fleet" /\ [OperationsNext]_operationsVars => [FleetNext]_fleetVars
  BY DEF OperationsNext, operationsVars
<1>3. [OperationsNext]_operationsVars => part' = part
  BY DEF OperationsNext, operationsVars
<1>4. (part = "fleet" => FInv) /\ [OperationsNext]_operationsVars => (part = "fleet" => FInv)'
  BY <1>2, <1>3, FleetNextKeeps
<1>5. (part = "fleet" => FInv) => Fleet_AdmissionHolds
  BY FleetInvSafe DEF Fleet_AdmissionHolds
<1> QED
  BY <1>1, <1>4, <1>5, PTL DEF OperationsSpec

(***************************************************************************)
(* The self-healing loop                                                   *)
(***************************************************************************)
\* The loop acts only on what enough passes over a long enough time have seen, and a
\* deployment it failed over is not failed over again unless the teardown ended without
\* halting it or it was started again, whatever levels are set to auto (Reconciler.decide,
\* Actuator.Failover).
THEOREM OperationsReconciler == OperationsSpec => Reconciler_ActionsJustified
<1> DEFINE I == part = "reconciler" => RecInv /\ FailoverInv
<1>1. OperationsInit => I
  BY RecInitKeeps DEF OperationsInit
<1>2. part = "reconciler" /\ [OperationsNext]_operationsVars => [RecNext]_recVars
  BY DEF OperationsNext, operationsVars
<1>3. [OperationsNext]_operationsVars => part' = part
  BY DEF OperationsNext, operationsVars
<1>4. I /\ [OperationsNext]_operationsVars => I'
  BY <1>2, <1>3, RecNextKeeps, FailoverNextKeeps
<1>5. I /\ I' /\ [OperationsNext]_operationsVars =>
        [part = "reconciler" => HysteresisStep /\ RecTypeOK' /\ FailoverStep]_recVars
  <2> SUFFICES ASSUME I, I', [OperationsNext]_operationsVars, part = "reconciler"
               PROVE  HysteresisStep /\ RecTypeOK' /\ FailoverStep
    OBVIOUS
  <2>1. RecInv /\ RecInv' /\ FailoverInv
    BY <1>3
  <2> QED
    BY <2>1, HysteresisFromInv, FailoverFromInv DEF RecInv
<1> HIDE DEF I
<1> QED
  BY <1>1, <1>4, <1>5, PTL DEF OperationsSpec, Reconciler_ActionsJustified

(***************************************************************************)
(* The token cache of the Vertex client                                    *)
(***************************************************************************)
AskingCall == [at: {"asking"}, since: Int, assertion: Int]
AnsweredCall == [at: {"answered"}, since: Int, real: Int, assertion: Int]

\* A call under way at time now began no longer ago than its timeout; the token it was
\* answered with was issued after it began; an assertion is one lifetime from there.
TokCallOK(r, now) ==
    \/ r = CallIdle
    \/ /\ r \in AskingCall \cup AnsweredCall
       /\ r.since <= now /\ now <= r.since + HTTPTimeout
       /\ r.assertion = -1 \/ r.assertion = r.since + Lifetime
       /\ r \in AnsweredCall => r.since + Lifetime <= r.real

\* The recorded end is ahead of the real one by no more than the margin.
CacheOK == cache = NoToken \/ (cache \in [real: Int, expiry: Int] /\ cache.expiry <= cache.real + Margin)

TokInv ==
    /\ clock \in 0..EndOfTime
    /\ CacheOK
    /\ DOMAIN tokCall = Callers /\ \A c \in Callers : TokCallOK(tokCall[c], clock)
    /\ handed \in [Callers -> [real: Int, at: Int]]
    /\ HandedOutTokenValid

LEMMA CallIdleIs == CallIdle.at = "idle" /\ \A r \in AskingCall \cup AnsweredCall : r.at # "idle" /\ r # CallIdle
<1>1. CallIdle.at = "idle"
  BY DEF CallIdle
<1> QED
  BY <1>1 DEF AskingCall, AnsweredCall

LEMMA TokInitKeeps == TokInit => TokInv
<1> SUFFICES ASSUME TokInit PROVE TokInv
  OBVIOUS
<1> USE TokenAssumption DEF TokInit
<1>1. [real |-> 0, at |-> -1] \in [real: Int, at: Int]
  OBVIOUS
<1>2. handed \in [Callers -> [real: Int, at: Int]]
  BY <1>1
<1>3. HandedOutTokenValid
  BY DEF HandedOutTokenValid
<1> QED
  BY <1>2, <1>3 DEF TokInv, CacheOK, TokCallOK

\* A token handed out before its real end.
LEMMA HandKeeps ==
  ASSUME TokInv, NEW c \in Callers, NEW real \in Int, clock < real, Hand(c, real)
  PROVE  handed' \in [Callers -> [real: Int, at: Int]] /\ HandedOutTokenValid'
<1>1. PICK now \in Int : now = clock
  BY DEF TokInv
<1> DEFINE h == [real |-> real, at |-> now]
<1>2. h \in [real: Int, at: Int] /\ h.at < h.real
  BY <1>1
<1>3. handed' = [handed EXCEPT ![c] = h]
  BY <1>1 DEF Hand
<1> HIDE DEF h
<1> QED
  BY <1>2, <1>3 DEF TokInv, HandedOutTokenValid

\* A call that changes its record only.
LEMMA TokCallStep ==
  ASSUME TokInv, NEW c \in Callers, NEW r, TokCallOK(r, clock), tokCall' = [tokCall EXCEPT ![c] = r], clock' = clock
  PROVE  DOMAIN tokCall' = Callers /\ \A d \in Callers : TokCallOK(tokCall'[d], clock')
<1>1. tokCall'[c] = r /\ \A d \in Callers : d # c => tokCall'[d] = tokCall[d]
  BY DEF TokInv
<1> QED
  BY <1>1 DEF TokInv

LEMMA TokIdleOK == \A now : TokCallOK(CallIdle, now)
BY DEF TokCallOK

LEMMA GetTokenKeeps ==
  ASSUME TokInv, NEW c \in Callers, getToken(c) PROVE TokInv'
<1>1. clock \in Int /\ clock' = clock /\ cache' = cache
  BY DEF TokInv, getToken
<1>2. CASE get /\ Hand(c, cache.real) /\ UNCHANGED tokCall
  <2>1. cache \in [real: Int, expiry: Int] /\ cache.expiry <= cache.real + Margin /\ clock < cache.expiry - Margin
    BY <1>2 DEF get, TokInv, CacheOK
  <2>2. cache.real \in Int /\ clock < cache.real
    BY <1>1, <2>1, TokenAssumption
  <2> QED
    BY <1>1, <1>2, <2>2, HandKeeps DEF TokInv, CacheOK
<1>3. ASSUME NEW a \in Int, a = -1 \/ a = clock + Lifetime, UNCHANGED handed,
             tokCall' = [tokCall EXCEPT ![c] = [at |-> "asking", since |-> clock, assertion |-> a]]
      PROVE  TokInv'
  <2>1. PICK now \in Int : now = clock
    BY <1>1
  <2> DEFINE r == [at |-> "asking", since |-> now, assertion |-> a]
  <2>2. r \in AskingCall /\ r.since = now /\ r.assertion = a /\ r.at = "asking"
    BY DEF AskingCall
  <2>3. tokCall' = [tokCall EXCEPT ![c] = r]
    BY <1>3, <2>1
  <2> HIDE DEF r
  <2>4. r \notin AnsweredCall
    BY <2>2 DEF AnsweredCall
  <2>5. TokCallOK(r, clock)
    BY <1>3, <2>1, <2>2, <2>4, TokenAssumption DEF TokCallOK
  <2> QED
    BY <1>1, <1>3, <2>3, <2>5, TokCallStep DEF TokInv, CacheOK, HandedOutTokenValid
<1> QED
  BY <1>1, <1>2, <1>3, TokenAssumption DEF getToken, tokenFromServiceAccount

LEMMA EndpointIssuesKeeps ==
  ASSUME TokInv, NEW c \in Callers, EndpointIssues(c) PROVE TokInv'
<1>1. clock \in Int /\ clock' = clock /\ cache' = cache /\ handed' = handed
  BY DEF TokInv, EndpointIssues
<1>2. PICK q \in AskingCall : q = tokCall[c] /\ TokCallOK(q, clock)
  BY CallIdleIs DEF TokInv, EndpointIssues, TokCallOK, AnsweredCall
<1>3. PICK real \in Int : real = clock + Lifetime
  BY <1>1, TokenAssumption
<1>4. PICK since \in Int, a \in Int : since = q.since /\ a = q.assertion
  BY DEF AskingCall
<1> DEFINE r == [at |-> "answered", since |-> since, real |-> real, assertion |-> a]
<1>5. r \in AnsweredCall /\ r.since = since /\ r.assertion = a /\ r.real = real
  BY DEF AnsweredCall
<1>6. tokCall' = [tokCall EXCEPT ![c] = r]
  BY <1>2, <1>3, <1>4 DEF EndpointIssues
<1> HIDE DEF r
<1>7. q.since <= clock /\ clock <= q.since + HTTPTimeout /\ (q.assertion = -1 \/ q.assertion = q.since + Lifetime)
  BY <1>2, CallIdleIs DEF TokCallOK
<1>8. TokCallOK(r, clock)
  BY <1>1, <1>3, <1>4, <1>5, <1>7, TokenAssumption DEF TokCallOK
<1> QED
  BY <1>1, <1>6, <1>8, TokCallStep DEF TokInv, CacheOK, HandedOutTokenValid

LEMMA TokAnswerKeeps ==
  ASSUME TokInv, NEW c \in Callers, tokenFromMetadataServer(c) \/ exchangeJWT(c) PROVE TokInv'
<1>1. clock \in Int /\ clock' = clock
  BY DEF TokInv, tokenFromMetadataServer, exchangeJWT
<1>2. PICK q \in AnsweredCall : q = tokCall[c] /\ TokCallOK(q, clock)
  BY CallIdleIs DEF TokInv, tokenFromMetadataServer, exchangeJWT, TokCallOK, AskingCall
<1>3. PICK real \in Int, since \in Int, a \in Int : real = q.real /\ since = q.since /\ a = q.assertion
  BY DEF AnsweredCall
<1>4. /\ since <= clock /\ clock <= since + HTTPTimeout /\ since + Lifetime <= real
      /\ a = -1 \/ a = since + Lifetime
  BY <1>2, <1>3, CallIdleIs DEF TokCallOK
<1>5. PICK expiry \in Int : set(real, expiry) /\ (expiry = clock + Lifetime \/ expiry = since + Lifetime)
  BY <1>1, <1>2, <1>3, <1>4, TokenAssumption DEF tokenFromMetadataServer, exchangeJWT
<1>6. expiry <= real + Margin /\ clock < real
  BY <1>1, <1>4, <1>5, TokenAssumption
<1>7. CacheOK'
  BY <1>5, <1>6 DEF CacheOK, set
<1>8. Hand(c, real)
  BY <1>2, <1>3 DEF tokenFromMetadataServer, exchangeJWT
<1>9. tokCall' = [tokCall EXCEPT ![c] = CallIdle]
  BY DEF tokenFromMetadataServer, exchangeJWT
<1> QED
  BY <1>1, <1>6, <1>7, <1>8, <1>9, HandKeeps, TokCallStep, TokIdleOK DEF TokInv

LEMMA TokNextKeeps == TokInv /\ [TokNext]_tokVars => TokInv'
<1> SUFFICES ASSUME TokInv, [TokNext]_tokVars PROVE TokInv'
  OBVIOUS
<1>1. ASSUME NEW c \in Callers, CallFails(c) PROVE TokInv'
  BY <1>1, TokCallStep, TokIdleOK DEF CallFails, TokInv, CacheOK, HandedOutTokenValid
<1>2. CASE TimePasses
  <2>1. clock \in Int /\ clock' = clock + 1 /\ clock' \in 0..EndOfTime
    BY <1>2, TokenAssumption DEF TokInv, TimePasses
  <2>2. ASSUME NEW c \in Callers PROVE TokCallOK(tokCall[c], clock')
    <3>1. CASE tokCall[c] = CallIdle
      BY <3>1, TokIdleOK
    <3>2. CASE tokCall[c] # CallIdle
      <4>1. PICK r \in AskingCall \cup AnsweredCall : r = tokCall[c] /\ TokCallOK(r, clock)
        BY <3>2 DEF TokInv, TokCallOK
      <4>2. r.since \in Int
        BY DEF AskingCall, AnsweredCall
      <4>3. clock < r.since + HTTPTimeout
        BY <1>2, <3>2, <4>1 DEF TimePasses
      <4>4. r.since <= clock' /\ clock' <= r.since + HTTPTimeout
        BY <2>1, <4>1, <4>2, <4>3, CallIdleIs, TokenAssumption DEF TokCallOK
      <4> QED
        BY <4>1, <4>4, CallIdleIs DEF TokCallOK
    <3> QED
      BY <3>1, <3>2
  <2> QED
    BY <1>2, <2>1, <2>2 DEF TimePasses, TokInv, CacheOK, HandedOutTokenValid
<1>3. CASE UNCHANGED tokVars
  BY <1>3 DEF tokVars, TokInv, CacheOK, HandedOutTokenValid
<1> QED
  BY <1>1, <1>2, <1>3, GetTokenKeeps, EndpointIssuesKeeps, TokAnswerKeeps DEF TokNext

LEMMA TokInvSafe == TokInv => TokTypeOK /\ HandedOutTokenValid
<1> SUFFICES ASSUME TokInv PROVE TokTypeOK
  BY DEF TokInv
<1>1. cache.real \in Int /\ cache.expiry \in Int
  BY DEF TokInv, CacheOK, NoToken
<1>2. \A c \in Callers : tokCall[c].at \in {"idle", "asking", "answered"}
  BY CallIdleIs DEF TokInv, TokCallOK, AskingCall, AnsweredCall
<1> QED
  BY <1>1, <1>2 DEF TokInv, TokTypeOK

(***************************************************************************)
(* The model catalogue                                                     *)
(***************************************************************************)
RowType == [spec: {"none", "modelspec", "foreign"},
            source: {"none", "created", "artifact", "sagemaker", "vertexai", "azureml"},
            version: 0..MaxVersion]
InsertRec == [op: {"insert"}, id: ModelIds, row: RowType]
DescribeRec == [op: {"describe"}, listed: SUBSET Versions, then: InsertRec]
ArtifactRec == [op: {"artifact"}, version: Versions, then: InsertRec]
DeleteRec == [op: {"delete"}, id: ModelIds]
PersistRec == [op: {"persist"}, plan: PlanIds]
DepRec == [model: ModelIds, plan: PlanIds \cup {NoPlanId}, produced: BOOLEAN, live: BOOLEAN]
RolloutRec == [op: {"rollout"}, dep: DepRec]
CreqRec == InsertRec \cup DescribeRec \cup ArtifactRec \cup DeleteRec \cup PersistRec \cup RolloutRec
             \cup {CatIdle}
QueueRec == [model: ModelIds, status: {"pending", "approved", "rejected"}]

\* A SageMaker row that is about to be stored is of a version of ap, under its id.
InsertOK(r, ap) == r.row.source = "sagemaker" => r.row.version = r.id[2] /\ r.id[2] \in ap
ReqOK(r, ap) ==
    /\ r \in InsertRec => InsertOK(r, ap)
    /\ r \in DescribeRec \cup ArtifactRec => InsertOK(r.then, ap)

\* What the planner produced has a stored plan for its own model.
DepOwned(d, ps) == d.produced => d.plan \in ps /\ d.plan[1] = d.model
Apart(d, e) == d.produced /\ e.produced => d.plan # e.plan

CatTypes ==
    /\ models \in [ModelIds -> RowType]
    /\ plans \subseteq PlanIds
    /\ deployments \in Seq(DepRec)
    /\ queue \in Seq(QueueRec)
    /\ creq \in [CatReqs -> CreqRec]
    /\ vendor \in [Versions -> {"absent", "pending", "approved", "gone"}]
    /\ approved \subseteq Versions

ImportsInv ==
    /\ \A v \in Versions : vendor[v] = "approved" => v \in approved
    /\ \A q \in CatReqs : ReqOK(creq[q], approved)
    /\ SageMakerRowsApproved

\* The plans of the deployments and of the requests that are about to become one.
OwnedInv ==
    /\ \A i \in 1..Len(deployments) : DepOwned(deployments[i], plans)
    /\ \A q \in CatReqs : creq[q] \in RolloutRec => DepOwned(creq[q].dep, plans)
ApartInv ==
    /\ \A i, j \in 1..Len(deployments) : i # j => Apart(deployments[i], deployments[j])
    /\ \A q \in CatReqs, i \in 1..Len(deployments) :
         creq[q] \in RolloutRec => Apart(creq[q].dep, deployments[i])
    /\ \A q, p \in CatReqs :
         q # p /\ creq[q] \in RolloutRec /\ creq[p] \in RolloutRec => Apart(creq[q].dep, creq[p].dep)

Busy == {q \in CatReqs : creq[q].op \in {"persist", "rollout"}}
CatBound == Len(deployments) + Len(queue) + Cardinality(Busy) <= MaxDeployments

CatInv == CatTypes /\ ImportsInv /\ OwnedInv /\ ApartInv /\ CatBound

\* A request's record is of one kind.
LEMMA CreqShapes ==
  ASSUME NEW r \in CreqRec
  PROVE  /\ r.op = "insert" <=> r \in InsertRec
         /\ r.op = "describe" <=> r \in DescribeRec
         /\ r.op = "artifact" <=> r \in ArtifactRec
         /\ r.op = "delete" <=> r \in DeleteRec
         /\ r.op = "persist" <=> r \in PersistRec
         /\ r.op = "rollout" <=> r \in RolloutRec
         /\ r = CatIdle => r.op = "none"
<1>1. CatIdle.op = "none"
  BY DEF CatIdle
<1> QED
  BY <1>1 DEF CreqRec, InsertRec, DescribeRec, ArtifactRec, DeleteRec, PersistRec, RolloutRec

LEMMA CatIdleFacts ==
  /\ CatIdle \in CreqRec /\ CatIdle.op = "none" /\ CatIdle \notin RolloutRec
  /\ \A ap : ReqOK(CatIdle, ap)
<1>1. CatIdle.op = "none" /\ CatIdle \in CreqRec
  BY DEF CatIdle, CreqRec
<1> QED
  BY <1>1 DEF ReqOK, RolloutRec, InsertRec, DescribeRec, ArtifactRec

LEMMA NoRowFacts == NoRow \in RowType /\ NoRow.source = "none"
<1>1. PICK v \in 0..MaxVersion : v = 0
  BY CatalogAssumption
<1>2. /\ [spec |-> "none", source |-> "none", version |-> v] \in RowType
      /\ [spec |-> "none", source |-> "none", version |-> v].source = "none"
  BY DEF RowType
<1> QED
  BY <1>1, <1>2 DEF NoRow

LEMMA CatInitKeeps == CatInit => CatInv
<1> SUFFICES ASSUME CatInit PROVE CatInv
  OBVIOUS
<1> USE DEF CatInit
<1>1. CatTypes
  BY NoRowFacts, CatIdleFacts DEF CatTypes
<1>2. ImportsInv
  BY NoRowFacts, CatIdleFacts DEF ImportsInv, SageMakerRowsApproved
<1>3. OwnedInv /\ ApartInv
  BY CatIdleFacts DEF OwnedInv, ApartInv
<1>4. Busy = {}
  BY CatIdleFacts DEF Busy
<1>5. CatBound
  BY <1>4, FS_EmptySet, CatalogAssumption DEF CatBound
<1> QED
  BY <1>1, <1>2, <1>3, <1>5 DEF CatInv

LEMMA BusyFinite == IsFiniteSet(Busy) /\ Cardinality(Busy) \in Nat
BY CatalogAssumption, FS_Subset, FS_CardinalityType DEF Busy

\* One request moves on: how many may still become a deployment.
LEMMA BusyStep ==
  ASSUME creq \in [CatReqs -> CreqRec], NEW q \in CatReqs, NEW r, creq' = [creq EXCEPT ![q] = r]
  PROVE  /\ IsFiniteSet(Busy') /\ Cardinality(Busy') \in Nat
         /\ r.op \in {"persist", "rollout"} /\ creq[q].op \in {"persist", "rollout"} =>
              Cardinality(Busy') = Cardinality(Busy)
         /\ r.op \in {"persist", "rollout"} /\ creq[q].op \notin {"persist", "rollout"} =>
              Cardinality(Busy') = Cardinality(Busy) + 1
         /\ r.op \notin {"persist", "rollout"} /\ creq[q].op \in {"persist", "rollout"} =>
              Cardinality(Busy') = Cardinality(Busy) - 1
         /\ r.op \notin {"persist", "rollout"} /\ creq[q].op \notin {"persist", "rollout"} =>
              Cardinality(Busy') = Cardinality(Busy)
<1>1. IsFiniteSet(Busy) /\ Cardinality(Busy) \in Nat
  BY BusyFinite
<1>2. CASE r.op \in {"persist", "rollout"}
  <2>1. Busy' = Busy \cup {q}
    BY <1>2 DEF Busy
  <2>2. q \in Busy <=> creq[q].op \in {"persist", "rollout"}
    BY DEF Busy
  <2>3. IsFiniteSet(Busy') /\ Cardinality(Busy') \in Nat
    BY <1>1, <2>1, FS_AddElement, FS_CardinalityType
  <2> QED
    BY <1>1, <1>2, <2>1, <2>2, <2>3, FS_AddElement
<1>3. CASE r.op \notin {"persist", "rollout"}
  <2>1. Busy' = Busy \ {q}
    BY <1>3 DEF Busy
  <2>2. q \in Busy <=> creq[q].op \in {"persist", "rollout"}
    BY DEF Busy
  <2>3. IsFiniteSet(Busy') /\ Cardinality(Busy') \in Nat
    BY <1>1, <2>1, FS_RemoveElement, FS_CardinalityType
  <2> QED
    BY <1>1, <1>3, <2>1, <2>2, <2>3, FS_RemoveElement
<1> QED
  BY <1>2, <1>3

\* A request moves on without becoming a planned deployment; it may write a row.
LEMMA CatReqStep ==
  ASSUME CatInv, NEW q \in CatReqs, NEW r \in CreqRec, creq' = [creq EXCEPT ![q] = r],
         ReqOK(r, approved), r \in RolloutRec => ~r.dep.produced,
         creq[q].op \notin {"persist", "rollout"},
         r.op \in {"persist", "rollout"} => UnderBound,
         models' \in [ModelIds -> RowType], SageMakerRowsApproved',
         UNCHANGED <<plans, deployments, queue, vendor, approved>>
  PROVE  CatInv'
<1>1. CatTypes'
  BY DEF CatInv, CatTypes
<1>2. creq \in [CatReqs -> CreqRec] /\ Len(deployments) \in Nat /\ Len(queue) \in Nat
  BY DEF CatInv, CatTypes
<1>3. ImportsInv'
  BY <1>2 DEF CatInv, ImportsInv
<1>4. OwnedInv'
  BY <1>2 DEF CatInv, OwnedInv, DepOwned
<1>5. ApartInv'
  BY <1>2 DEF CatInv, ApartInv, Apart
<1>6. CatBound'
  <2>1. CASE r.op \in {"persist", "rollout"}
    <3>1. Len(deployments) + Len(queue) + Cardinality(Busy) < MaxDeployments
      BY <2>1 DEF UnderBound, Busy
    <3>2. Cardinality(Busy') = Cardinality(Busy) + 1
      BY <1>2, <2>1, BusyStep
    <3> QED
      BY <1>2, <3>1, <3>2, BusyFinite, CatalogAssumption DEF CatBound
  <2>2. CASE r.op \notin {"persist", "rollout"}
    <3>1. Cardinality(Busy') = Cardinality(Busy)
      BY <1>2, <2>2, BusyStep
    <3> QED
      BY <3>1 DEF CatInv, CatBound
  <2> QED
    BY <2>1, <2>2
<1> QED
  BY <1>1, <1>3, <1>4, <1>5, <1>6 DEF CatInv

LEMMA CatBeginKeeps ==
  ASSUME CatInv, NEW q \in CatReqs, NEW r \in CreqRec, CatBegin(q, r),
         ReqOK(r, approved), r \in RolloutRec => ~r.dep.produced,
         r.op \in {"persist", "rollout"} => UnderBound
  PROVE  CatInv'
<1>1. creq[q].op \notin {"persist", "rollout"}
  BY CatIdleFacts DEF CatBegin
<1>2. models' \in [ModelIds -> RowType] /\ SageMakerRowsApproved'
  BY DEF CatBegin, CatInv, CatTypes, ImportsInv, SageMakerRowsApproved
<1> QED
  BY <1>1, <1>2, CatReqStep DEF CatBegin

LEMMA InsertIs ==
  ASSUME NEW id \in ModelIds, NEW w \in RowType
  PROVE  /\ InsertStep(id, w) \in InsertRec /\ InsertStep(id, w).op = "insert"
         /\ InsertStep(id, w).id = id /\ InsertStep(id, w).row = w
BY DEF InsertStep, InsertRec

LEMMA RowIs ==
  ASSUME NEW s \in {"none", "modelspec", "foreign"},
         NEW o \in {"none", "created", "artifact", "sagemaker", "vertexai", "azureml"}, NEW v \in 0..MaxVersion
  PROVE  Row(s, o, v) \in RowType /\ Row(s, o, v).source = o /\ Row(s, o, v).version = v
BY DEF Row, RowType

\* A request that begins with its insert.
LEMMA CatInsertBegins ==
  ASSUME CatInv, NEW q \in CatReqs, NEW id \in ModelIds, NEW w \in RowType, CatBegin(q, InsertStep(id, w)),
         w.source # "sagemaker"
  PROVE  CatInv'
<1> DEFINE r == InsertStep(id, w)
<1>1. r \in InsertRec /\ r.op = "insert" /\ r.row = w
  BY InsertIs
<1>2. CatBegin(q, r)
  OBVIOUS
<1> HIDE DEF r
<1>3. r \in CreqRec
  BY <1>1 DEF CreqRec
<1>4. r \notin RolloutRec /\ r \notin DescribeRec \cup ArtifactRec
  BY <1>1, <1>3, CreqShapes DEF DescribeRec, ArtifactRec
<1>5. ReqOK(r, approved)
  BY <1>1, <1>4 DEF ReqOK, InsertOK
<1> QED
  BY <1>1, <1>2, <1>3, <1>4, <1>5, CatBeginKeeps

LEMMA IdInModelIds == \A n \in Names, v \in 0..MaxVersion : <<n, v>> \in ModelIds /\ <<n, v>>[2] = v
BY DEF ModelIds

LEMMA ZeroVersion == 0 \in 0..MaxVersion /\ Versions \subseteq 0..MaxVersion
BY CatalogAssumption DEF Versions

LEMMA PlainInsertsKeep ==
  ASSUME CatInv, NEW q \in CatReqs, NEW n \in Names,
         \/ handleCreateModel(q, n) \/ handleImportHuggingFace(q, n)
         \/ handleImportObjectStorage(q, n) \/ handleImportCPUModel(q, n)
  PROVE  CatInv'
<1>1. \A m \in Names : <<m, 0>> \in ModelIds
  BY IdInModelIds, ZeroVersion
<1>2. /\ Row("modelspec", "created", 0) \in RowType /\ Row("modelspec", "created", 0).source = "created"
      /\ Row("none", "artifact", 0) \in RowType /\ Row("none", "artifact", 0).source = "artifact"
  BY RowIs, ZeroVersion
<1>3. CASE handleCreateModel(q, n)
  BY <1>1, <1>2, <1>3, CatInsertBegins DEF handleCreateModel
<1>4. CASE handleImportHuggingFace(q, n)
  BY <1>1, <1>2, <1>4, CatInsertBegins DEF handleImportHuggingFace
<1>5. CASE handleImportObjectStorage(q, n)
  BY <1>1, <1>2, <1>5, CatInsertBegins DEF handleImportObjectStorage
<1>6. CASE handleImportCPUModel(q, n)
  <2>1. normalizeCPUModelID(n) \in Names
    BY <1>6, CatalogAssumption DEF handleImportCPUModel, normalizeCPUModelID
  <2> QED
    BY <1>1, <1>2, <1>6, <2>1, CatInsertBegins DEF handleImportCPUModel
<1> QED
  BY <1>3, <1>4, <1>5, <1>6

LEMMA NewestVersion ==
  ASSUME NEW n \in Nat, NEW S \in SUBSET (1..n), S # {}
  PROVE  newest(S) \in S
<1> DEFINE T == {n - d : d \in S}
           R == OpToRel(<, Nat)
<1>0. \A d \in S : n - d \in Nat
  OBVIOUS
<1>1. T \subseteq Nat /\ T # {}
  BY <1>0, Zenon
<1>2. IsWellFoundedOn(R, Nat)
  BY NatLessThanWellFounded
<1> HIDE DEF R
<1>3. PICK x \in T : \A y \in T : ~ (<<y, x>> \in R)
  BY <1>1, <1>2, WFMin
<1>4. \A y \in T : ~(y < x)
  BY <1>1, <1>3 DEF R, OpToRel
<1>5. PICK d \in S : x = n - d
  OBVIOUS
<1>6. ASSUME NEW e \in S
      PROVE  e <= d
  <2>1. n - e \in T
    OBVIOUS
  <2> QED
    BY <1>4, <1>5, <2>1
<1> QED
  BY <1>6 DEF newest

\* A version that is picked is one of those listed.
LEMMA PickedVersion ==
  ASSUME NEW vs \in SUBSET Versions, NEW want \in 0..MaxVersion, picks(vs, want)
  PROVE  pick(vs, want) \in vs
BY NewestVersion, CatalogAssumption DEF picks, pick, Versions

LEMMA ImportSageMakerKeeps ==
  ASSUME CatInv, NEW q \in CatReqs, NEW n \in Names, NEW want \in 0..MaxVersion, handleImportSageMaker(q, n, want)
  PROVE  CatInv'
<1> DEFINE L == ListApprovedModelPackages
<1>1. L \subseteq Versions /\ L \subseteq approved
  BY DEF ListApprovedModelPackages, CatInv, ImportsInv
<1>2. PICK v \in L : v = pick(L, want)
  BY <1>1, PickedVersion DEF handleImportSageMaker
<1>3. v \in 0..MaxVersion
  BY <1>1, <1>2, ZeroVersion
<1>4. PICK id \in ModelIds : id = <<n, v>> /\ id[2] = v
  BY <1>3, IdInModelIds
<1>5. PICK w \in RowType : w = Row("foreign", "sagemaker", v) /\ w.version = v
  BY <1>3, RowIs
<1>6. PICK ins \in InsertRec : ins = InsertStep(id, w) /\ ins.id = id /\ ins.row = w
  BY InsertIs
<1> DEFINE r == [op |-> "describe", listed |-> L, then |-> ins]
<1>7. CatBegin(q, r)
  BY <1>2, <1>4, <1>5, <1>6 DEF handleImportSageMaker
<1>8. r \in DescribeRec /\ r.op = "describe" /\ r.then = ins
  BY <1>1 DEF DescribeRec
<1> HIDE DEF r, L
<1>9. r \in CreqRec
  BY <1>8 DEF CreqRec
<1>10. r \notin RolloutRec /\ r \notin InsertRec
  BY <1>8, <1>9, CreqShapes
<1>11. ReqOK(r, approved)
  BY <1>1, <1>2, <1>4, <1>5, <1>6, <1>8, <1>10 DEF ReqOK, InsertOK
<1> QED
  BY <1>7, <1>8, <1>9, <1>10, <1>11, CatBeginKeeps

LEMMA ImportVertexAIKeeps ==
  ASSUME CatInv, NEW q \in CatReqs, NEW n \in Names, NEW want \in 0..MaxVersion, handleImportVertexAI(q, n, want)
  PROVE  CatInv'
<1> DEFINE L == ListModelVersions
<1>1. L \subseteq Versions
  BY DEF ListModelVersions
<1>2. PICK v \in L : v = pick(L, want)
  BY <1>1, PickedVersion DEF handleImportVertexAI
<1>3. v \in 0..MaxVersion /\ v \in Versions
  BY <1>1, <1>2, ZeroVersion
<1>4. PICK id \in ModelIds : id = <<n, v>>
  BY <1>3, IdInModelIds
<1>5. PICK w \in RowType : w = Row("foreign", "vertexai", v) /\ w.source = "vertexai"
  BY <1>3, RowIs
<1>6. PICK ins \in InsertRec : ins = InsertStep(id, w) /\ ins.row = w
  BY InsertIs
<1> DEFINE r == [op |-> "artifact", version |-> v, then |-> ins]
<1>7. CatBegin(q, ins) \/ CatBegin(q, r)
  BY <1>2, <1>4, <1>5, <1>6 DEF handleImportVertexAI
<1>8. r \in ArtifactRec /\ r.op = "artifact" /\ r.then = ins
  BY <1>3 DEF ArtifactRec
<1> HIDE DEF r, L
<1>9. r \in CreqRec
  BY <1>8 DEF CreqRec
<1>10. r \notin RolloutRec /\ r \notin InsertRec
  BY <1>8, <1>9, CreqShapes
<1>11. ReqOK(r, approved)
  BY <1>5, <1>6, <1>8, <1>10 DEF ReqOK, InsertOK
<1>12. CASE CatBegin(q, r)
  BY <1>8, <1>9, <1>10, <1>11, <1>12, CatBeginKeeps
<1>13. CASE CatBegin(q, ins)
  BY <1>5, <1>6, <1>13, CatInsertBegins
<1> QED
  BY <1>7, <1>12, <1>13

LEMMA ImportAzureMLKeeps ==
  ASSUME CatInv, NEW q \in CatReqs, NEW n \in Names, NEW want \in 0..MaxVersion, handleImportAzureML(q, n, want)
  PROVE  CatInv'
<1> DEFINE L == ListModelVersions
<1>1. L \subseteq Versions
  BY DEF ListModelVersions
<1>2. want # 0 => want \in L
  BY DEF handleImportAzureML, picks
<1>3. L # {}
  BY DEF handleImportAzureML, picks
<1>4. LatestVersion(L) \in L
  <2> DEFINE P == {u \in L : vendor[u] = "approved"}
  <2>1. P \subseteq Versions /\ P \subseteq L
    BY <1>1
  <2>2. P # {} => newest(P) \in P
    BY <2>1, NewestVersion, CatalogAssumption DEF Versions
  <2>3. newest(L) \in L
    BY <1>1, <1>3, NewestVersion, CatalogAssumption DEF Versions
  <2> QED
    BY <2>1, <2>2, <2>3 DEF LatestVersion
<1>5. PICK v \in L : v = IF want = 0 THEN LatestVersion(L) ELSE want
  BY <1>2, <1>4
<1>6. v \in 0..MaxVersion
  BY <1>1, <1>5, ZeroVersion
<1>7. PICK id \in ModelIds : id = <<n, 0>>
  BY ZeroVersion, IdInModelIds
<1>8. PICK w \in RowType : w = Row("foreign", "azureml", v) /\ w.source = "azureml"
  BY <1>6, RowIs
<1>9. CatBegin(q, InsertStep(id, w))
  BY <1>5, <1>7, <1>8 DEF handleImportAzureML
<1> QED
  BY <1>8, <1>9, CatInsertBegins

LEMMA HandleDeleteModelKeeps ==
  ASSUME CatInv, NEW q \in CatReqs, NEW id \in ModelIds, handleDeleteModel(q, id)
  PROVE  CatInv'
<1> DEFINE r == [op |-> "delete", id |-> id]
<1>1. CatBegin(q, r)
  BY DEF handleDeleteModel
<1>2. r \in DeleteRec /\ r.op = "delete"
  BY DEF DeleteRec
<1> HIDE DEF r
<1>3. r \in CreqRec
  BY <1>2 DEF CreqRec
<1>4. r \notin RolloutRec /\ ReqOK(r, approved)
  BY <1>2, <1>3, CreqShapes DEF ReqOK
<1> QED
  BY <1>1, <1>2, <1>3, <1>4, CatBeginKeeps

LEMMA RolloutIs ==
  ASSUME NEW id \in ModelIds, NEW p \in PlanIds \cup {NoPlanId}, NEW b \in BOOLEAN
  PROVE  /\ Rollout(id, p, b) \in RolloutRec /\ Rollout(id, p, b).op = "rollout"
         /\ Rollout(id, p, b).dep.model = id /\ Rollout(id, p, b).dep.plan = p
         /\ Rollout(id, p, b).dep.produced = b
<1> DEFINE d == [model |-> id, plan |-> p, produced |-> b, live |-> TRUE]
<1>1. d \in DepRec /\ d.model = id /\ d.plan = p /\ d.produced = b
  BY DEF DepRec
<1>2. Rollout(id, p, b) = [op |-> "rollout", dep |-> d]
  BY DEF Rollout
<1> HIDE DEF d
<1> QED
  BY <1>1, <1>2 DEF RolloutRec

\* A deployment whose plan the planner did not make.
LEMMA CatRolloutBegins ==
  ASSUME CatInv, NEW q \in CatReqs, NEW id \in ModelIds, NEW p \in PlanIds \cup {NoPlanId},
         CatBegin(q, Rollout(id, p, FALSE)), UnderBound
  PROVE  CatInv'
<1>1. PICK b \in BOOLEAN : b = FALSE
  OBVIOUS
<1>2. PICK r \in RolloutRec : r = Rollout(id, p, b) /\ r.op = "rollout" /\ r.dep.produced = b
  BY RolloutIs
<1>3. r \in CreqRec
  BY DEF CreqRec
<1>4. ReqOK(r, approved)
  BY <1>2, <1>3, CreqShapes DEF ReqOK
<1>5. CatBegin(q, r)
  BY <1>1, <1>2
<1> QED
  BY <1>1, <1>2, <1>3, <1>4, <1>5, CatBeginKeeps

LEMMA HandleDeployModelKeeps ==
  ASSUME CatInv, NEW q \in CatReqs, NEW id \in ModelIds, handleDeployModel(q, id)
  PROVE  CatInv'
<1>1. CASE CatBegin(q, Rollout(id, NoPlanId, FALSE))
  BY <1>1, CatRolloutBegins DEF handleDeployModel
<1>2. ASSUME NEW p \in plans, CatBegin(q, Rollout(p[1], p, FALSE)) PROVE CatInv'
  <2>1. p \in PlanIds /\ p[1] \in ModelIds
    BY DEF CatInv, CatTypes, PlanIds
  <2> QED
    BY <1>2, <2>1, CatRolloutBegins DEF handleDeployModel
<1>3. ASSUME NEW s \in RandSuffixes, CatBegin(q, [op |-> "persist", plan |-> <<id, s>>]) PROVE CatInv'
  <2> DEFINE r == [op |-> "persist", plan |-> <<id, s>>]
  <2>1. r \in PersistRec /\ r.op = "persist"
    BY DEF PersistRec, PlanIds
  <2>2. CatBegin(q, r)
    BY <1>3
  <2> HIDE DEF r
  <2>3. r \in CreqRec
    BY <2>1 DEF CreqRec
  <2>4. r \notin RolloutRec /\ ReqOK(r, approved)
    BY <2>1, <2>3, CreqShapes DEF ReqOK
  <2> QED
    BY <2>1, <2>2, <2>3, <2>4, CatBeginKeeps DEF handleDeployModel
<1> QED
  BY <1>1, <1>2, <1>3 DEF handleDeployModel

LEMMA CreqTyped == ASSUME CatInv, NEW q \in CatReqs PROVE creq[q] \in CreqRec /\ ReqOK(creq[q], approved)
BY DEF CatInv, CatTypes, ImportsInv

\* An import that needed one more call goes on to its insert.
LEMMA CatThenKeeps ==
  ASSUME CatInv, NEW q \in CatReqs, NEW ins \in InsertRec, InsertOK(ins, approved), CatGoto(q, ins),
         creq[q].op \in {"describe", "artifact"}, UNCHANGED <<models, plans, deployments, queue, vendor, approved>>
  PROVE  CatInv'
<1>1. ins \in CreqRec /\ ins.op = "insert"
  BY DEF CreqRec, InsertRec
<1>2. ReqOK(ins, approved) /\ ins \notin RolloutRec
  BY <1>1, CreqShapes DEF ReqOK, DescribeRec, ArtifactRec
<1>3. models' \in [ModelIds -> RowType] /\ SageMakerRowsApproved'
  BY DEF CatInv, CatTypes, ImportsInv, SageMakerRowsApproved
<1> QED
  BY <1>1, <1>2, <1>3, CatReqStep DEF CatGoto

\* A request that is not about to become a deployment ends.
LEMMA CatEndKeeps ==
  ASSUME CatInv, NEW q \in CatReqs, CatGoto(q, CatIdle), creq[q].op \notin {"persist", "rollout"},
         models' \in [ModelIds -> RowType], SageMakerRowsApproved',
         UNCHANGED <<plans, deployments, queue, vendor, approved>>
  PROVE  CatInv'
BY CatReqStep, CatIdleFacts DEF CatGoto

LEMMA ImportCallsKeep ==
  ASSUME CatInv, NEW q \in CatReqs, DescribePackages(q) \/ GetArtifactURI(q)
  PROVE  CatInv'
<1>1. creq[q].op \in {"describe", "artifact"}
  BY DEF DescribePackages, GetArtifactURI
<1>2. creq[q] \in DescribeRec \cup ArtifactRec
  BY <1>1, CreqTyped, CreqShapes
<1>3. PICK ins \in InsertRec : ins = creq[q].then /\ InsertOK(ins, approved)
  BY <1>2, CreqTyped DEF ReqOK, DescribeRec, ArtifactRec
<1>4. CatGoto(q, ins) \/ CatGoto(q, CatIdle)
  BY <1>3 DEF DescribePackages, GetArtifactURI
<1>5. UNCHANGED <<models, plans, deployments, queue, vendor, approved>>
  BY DEF DescribePackages, GetArtifactURI
<1>6. models' \in [ModelIds -> RowType] /\ SageMakerRowsApproved'
  BY <1>5 DEF CatInv, CatTypes, ImportsInv, SageMakerRowsApproved
<1>7. CASE CatGoto(q, ins)
  BY <1>1, <1>3, <1>5, <1>7, CatThenKeeps
<1>8. CASE CatGoto(q, CatIdle)
  BY <1>1, <1>5, <1>6, <1>8, CatEndKeeps
<1> QED
  BY <1>4, <1>7, <1>8

LEMMA InsertKeeps ==
  ASSUME CatInv, NEW q \in CatReqs, Insert(q)
  PROVE  CatInv'
<1>1. creq[q] \in InsertRec /\ InsertOK(creq[q], approved)
  BY CreqTyped, CreqShapes DEF Insert, ReqOK
<1>2. PICK id \in ModelIds, w \in RowType : id = creq[q].id /\ w = creq[q].row
  BY <1>1 DEF InsertRec
<1>3. w.source = "sagemaker" => w.version = id[2] /\ id[2] \in approved
  BY <1>1, <1>2 DEF InsertOK
<1>4. models \in [ModelIds -> RowType] /\ SageMakerRowsApproved /\ approved' = approved
  BY DEF CatInv, CatTypes, ImportsInv, Insert
<1>5. models' = [models EXCEPT ![id] = w] \/ models' = models
  BY <1>2 DEF Insert, CreateModel
<1>6. models' \in [ModelIds -> RowType] /\ SageMakerRowsApproved'
  BY <1>3, <1>4, <1>5 DEF SageMakerRowsApproved
<1> QED
  BY <1>6, CatEndKeeps DEF Insert

LEMMA DeleteModelRowKeeps ==
  ASSUME CatInv, NEW q \in CatReqs, DeleteModelRow(q)
  PROVE  CatInv'
<1>1. PICK id \in ModelIds : id = creq[q].id
  BY CreqTyped, CreqShapes DEF DeleteModelRow, DeleteRec
<1>2. models \in [ModelIds -> RowType] /\ SageMakerRowsApproved /\ approved' = approved
  BY DEF CatInv, CatTypes, ImportsInv, DeleteModelRow
<1>3. models' = [models EXCEPT ![id] = NoRow] \/ models' = models
  BY <1>1 DEF DeleteModelRow, DeleteModel
<1>4. models' \in [ModelIds -> RowType] /\ SageMakerRowsApproved'
  BY <1>2, <1>3, NoRowFacts DEF SageMakerRowsApproved
<1> QED
  BY <1>4, CatEndKeeps DEF DeleteModelRow

\* persistPlan: a plan id that is new to the table is no other deployment's.
LEMMA PersistPlanKeeps ==
  ASSUME CatInv, NEW q \in CatReqs, persistPlan(q)
  PROVE  CatInv'
<1>1. creq[q] \in PersistRec /\ creq[q].op = "persist"
  BY CreqTyped, CreqShapes DEF persistPlan
<1>2. PICK p \in PlanIds : p = creq[q].plan
  BY <1>1 DEF PersistRec
<1>3. /\ creq \in [CatReqs -> CreqRec] /\ Len(deployments) \in Nat /\ Len(queue) \in Nat
      /\ UNCHANGED <<models, deployments, queue, vendor, approved>>
  BY DEF CatInv, CatTypes, persistPlan
<1>4. CASE CreatePlan(p) /\ CatGoto(q, Rollout(p[1], p, TRUE))
  <2>1. PICK id \in ModelIds, b \in BOOLEAN : id = p[1] /\ b = TRUE
    BY DEF PlanIds
  <2>2. PICK r \in RolloutRec : /\ r = Rollout(id, p, b) /\ r.op = "rollout"
                               /\ r.dep.model = id /\ r.dep.plan = p /\ r.dep.produced = b
    BY RolloutIs
  <2>3. creq' = [creq EXCEPT ![q] = r] /\ p \notin plans /\ plans' = plans \cup {p}
    BY <1>4, <2>1, <2>2 DEF CatGoto, CreatePlan
  <2>4. r \in CreqRec
    BY DEF CreqRec
  <2>5. ReqOK(r, approved)
    BY <2>2, <2>4, CreqShapes DEF ReqOK
  <2>6. CatTypes'
    BY <1>3, <2>3, <2>4 DEF CatInv, CatTypes
  <2>7. ImportsInv'
    BY <1>3, <2>3, <2>5 DEF CatInv, ImportsInv, SageMakerRowsApproved
  <2>8. OwnedInv'
    BY <1>3, <2>1, <2>2, <2>3 DEF CatInv, OwnedInv, DepOwned
  <2>9. \A i \in 1..Len(deployments) : Apart(r.dep, deployments[i]) /\ Apart(deployments[i], r.dep)
    BY <2>2, <2>3 DEF CatInv, OwnedInv, DepOwned, Apart
  <2>10. \A o \in CatReqs : creq[o] \in RolloutRec => Apart(r.dep, creq[o].dep) /\ Apart(creq[o].dep, r.dep)
    BY <2>2, <2>3 DEF CatInv, OwnedInv, DepOwned, Apart
  <2>11. ApartInv'
    BY <1>3, <2>3, <2>9, <2>10 DEF CatInv, ApartInv
  <2>12. Cardinality(Busy') = Cardinality(Busy)
    BY <1>1, <1>3, <2>2, <2>3, BusyStep
  <2>13. CatBound'
    BY <1>3, <2>12 DEF CatInv, CatBound
  <2> QED
    BY <2>6, <2>7, <2>8, <2>11, <2>13 DEF CatInv
<1>5. CASE UNCHANGED plans /\ CatGoto(q, CatIdle)
  <2>1. creq' = [creq EXCEPT ![q] = CatIdle] /\ plans' = plans
    BY <1>5 DEF CatGoto
  <2>2. CatTypes'
    BY <1>3, <2>1, CatIdleFacts DEF CatInv, CatTypes
  <2>3. ImportsInv'
    BY <1>3, <2>1, CatIdleFacts DEF CatInv, ImportsInv, SageMakerRowsApproved
  <2>4. OwnedInv' /\ ApartInv'
    BY <1>3, <2>1, CatIdleFacts DEF CatInv, OwnedInv, ApartInv
  <2>5. Cardinality(Busy') = Cardinality(Busy) - 1
    BY <1>1, <1>3, <2>1, CatIdleFacts, BusyStep
  <2>6. CatBound'
    BY <1>3, <2>5, BusyFinite, CatalogAssumption DEF CatInv, CatBound
  <2> QED
    BY <2>2, <2>3, <2>4, <2>6 DEF CatInv
<1> QED
  BY <1>2, <1>4, <1>5 DEF persistPlan

LEMMA ApplyOrQueueKeeps ==
  ASSUME CatInv, NEW q \in CatReqs, ApplyOrQueue(q)
  PROVE  CatInv'
<1>1. creq[q] \in RolloutRec /\ creq[q].op = "rollout"
  BY CreqTyped, CreqShapes DEF ApplyOrQueue
<1>2. PICK d \in DepRec : d = creq[q].dep
  BY <1>1 DEF RolloutRec
<1>3. /\ creq \in [CatReqs -> CreqRec] /\ Len(deployments) \in Nat /\ Len(queue) \in Nat
      /\ deployments \in Seq(DepRec) /\ queue \in Seq(QueueRec)
      /\ UNCHANGED <<models, plans, vendor, approved>> /\ creq' = [creq EXCEPT ![q] = CatIdle]
  BY DEF CatInv, CatTypes, ApplyOrQueue, CatGoto
<1>4. ImportsInv'
  BY <1>3, CatIdleFacts DEF CatInv, ImportsInv, SageMakerRowsApproved
<1>5. Cardinality(Busy') = Cardinality(Busy) - 1
  BY <1>1, <1>3, CatIdleFacts, BusyStep
<1>6. DepOwned(d, plans) /\ \A i \in 1..Len(deployments) : Apart(d, deployments[i]) /\ Apart(deployments[i], d)
  BY <1>1, <1>2 DEF CatInv, OwnedInv, ApartInv, Apart
<1>7. \A o \in CatReqs : o # q /\ creq[o] \in RolloutRec => Apart(creq[o].dep, d)
  BY <1>1, <1>2 DEF CatInv, ApartInv, Apart
<1>8. CASE UNCHANGED deployments /\ RequestDeploymentApproval([model |-> d.model, status |-> "pending"])
  <2> DEFINE a == [model |-> d.model, status |-> "pending"]
  <2>1. a \in QueueRec
    BY DEF QueueRec, DepRec
  <2>2. deployments' = deployments /\ queue' = Append(queue, a)
    BY <1>8 DEF RequestDeploymentApproval
  <2> HIDE DEF a
  <2>3. queue' \in Seq(QueueRec) /\ Len(queue') = Len(queue) + 1
    BY <1>3, <2>1, <2>2
  <2>4. CatTypes'
    BY <1>3, <2>2, <2>3, CatIdleFacts DEF CatInv, CatTypes
  <2>5. OwnedInv' /\ ApartInv'
    BY <1>3, <2>2, CatIdleFacts DEF CatInv, OwnedInv, ApartInv
  <2>6. CatBound'
    BY <1>3, <1>5, <2>2, <2>3, BusyFinite, CatalogAssumption DEF CatInv, CatBound
  <2> QED
    BY <1>4, <2>4, <2>5, <2>6 DEF CatInv
<1>9. CASE UNCHANGED queue /\ CreateDeployment(d)
  <2>1. deployments' = Append(deployments, d) /\ queue' = queue
    BY <1>9 DEF CreateDeployment
  <2>2. /\ deployments' \in Seq(DepRec) /\ Len(deployments') = Len(deployments) + 1
        /\ \A i \in 1..Len(deployments) : deployments'[i] = deployments[i]
        /\ deployments'[Len(deployments) + 1] = d
    BY <1>3, <2>1
  <2>3. \A i \in 1..Len(deployments') : i \in 1..Len(deployments) \/ i = Len(deployments) + 1
    BY <1>3, <2>2
  <2>4. CatTypes'
    BY <1>3, <2>1, <2>2, CatIdleFacts DEF CatInv, CatTypes
  <2>5. OwnedInv'
    <3>1. \A i \in 1..Len(deployments') : DepOwned(deployments'[i], plans)
      BY <1>6, <2>2, <2>3 DEF CatInv, OwnedInv
    <3> QED
      BY <1>3, <3>1, CatIdleFacts DEF CatInv, OwnedInv
  <2>6. ApartInv'
    <3>1. \A i, j \in 1..Len(deployments') : i # j => Apart(deployments'[i], deployments'[j])
      BY <1>6, <2>2, <2>3 DEF CatInv, ApartInv
    <3>2. \A o \in CatReqs, i \in 1..Len(deployments') :
            creq'[o] \in RolloutRec => Apart(creq'[o].dep, deployments'[i])
      BY <1>3, <1>7, <2>2, <2>3, CatIdleFacts DEF CatInv, ApartInv
    <3>3. \A o, p \in CatReqs : o # p /\ creq'[o] \in RolloutRec /\ creq'[p] \in RolloutRec =>
            Apart(creq'[o].dep, creq'[p].dep)
      BY <1>3, CatIdleFacts DEF CatInv, ApartInv
    <3> QED
      BY <3>1, <3>2, <3>3 DEF ApartInv
  <2>7. CatBound'
    BY <1>3, <1>5, <2>1, <2>2, BusyFinite, CatalogAssumption DEF CatInv, CatBound
  <2> QED
    BY <1>4, <2>4, <2>5, <2>6, <2>7 DEF CatInv
<1> QED
  BY <1>2, <1>8, <1>9 DEF ApplyOrQueue

LEMMA DeploymentEndsKeeps ==
  ASSUME CatInv, NEW i \in DOMAIN deployments, DeploymentEnds(i)
  PROVE  CatInv'
<1>1. /\ deployments \in Seq(DepRec) /\ DOMAIN deployments = 1..Len(deployments)
      /\ UNCHANGED <<models, plans, queue, creq, vendor, approved>>
  BY DEF CatInv, CatTypes, DeploymentEnds
<1>0. PICK e \in DepRec : e = deployments[i]
  BY <1>1
<1> DEFINE d == [e EXCEPT !.live = FALSE]
<1>2. d \in DepRec /\ d.produced = e.produced /\ d.plan = e.plan /\ d.model = e.model
  BY DEF DepRec
<1>3. deployments' = [deployments EXCEPT ![i] = d]
  BY <1>0 DEF DeploymentEnds
<1> HIDE DEF d
<1>4. deployments' \in Seq(DepRec) /\ Len(deployments') = Len(deployments)
  BY <1>1, <1>2, <1>3
<1>5. \A j \in 1..Len(deployments) :
        /\ deployments'[j].produced = deployments[j].produced
        /\ deployments'[j].plan = deployments[j].plan /\ deployments'[j].model = deployments[j].model
  BY <1>0, <1>1, <1>2, <1>3
<1>6. CatTypes'
  BY <1>1, <1>4 DEF CatInv, CatTypes
<1>7. ImportsInv'
  BY <1>1 DEF CatInv, ImportsInv, SageMakerRowsApproved
<1>8. OwnedInv'
  BY <1>1, <1>4, <1>5 DEF CatInv, OwnedInv, DepOwned
<1>9. ApartInv'
  BY <1>1, <1>4, <1>5 DEF CatInv, ApartInv, Apart
<1>10. CatBound'
  BY <1>1, <1>4 DEF CatInv, CatBound, Busy
<1> QED
  BY <1>6, <1>7, <1>8, <1>9, <1>10 DEF CatInv

LEMMA DecideKeeps ==
  ASSUME CatInv, NEW i \in DOMAIN queue, NEW s \in {"approved", "rejected"}, Decide(i, s)
  PROVE  CatInv'
<1>1. /\ queue \in Seq(QueueRec) /\ DOMAIN queue = 1..Len(queue)
      /\ UNCHANGED <<models, plans, deployments, creq, vendor, approved>>
  BY DEF CatInv, CatTypes, Decide
<1>0. PICK e \in QueueRec : e = queue[i]
  BY <1>1
<1> DEFINE a == [e EXCEPT !.status = s]
<1>2. a \in QueueRec
  BY DEF QueueRec
<1>3. queue' = [queue EXCEPT ![i] = a]
  BY <1>0 DEF Decide
<1> HIDE DEF a
<1>4. queue' \in Seq(QueueRec) /\ Len(queue') = Len(queue)
  BY <1>1, <1>2, <1>3
<1> QED
  BY <1>1, <1>4 DEF CatInv, CatTypes, ImportsInv, SageMakerRowsApproved, OwnedInv, ApartInv, CatBound, Busy

LEMMA VendorChangesKeeps ==
  ASSUME CatInv, NEW v \in Versions, NEW s \in {"pending", "approved", "gone"}, VendorChanges(v, s)
  PROVE  CatInv'
<1>1. /\ vendor' = [vendor EXCEPT ![v] = s] /\ approved \subseteq approved' /\ approved' \subseteq approved \cup {v}
      /\ s = "approved" => v \in approved'
      /\ UNCHANGED <<models, plans, deployments, queue, creq>>
  BY DEF VendorChanges
<1>2. CatTypes'
  BY <1>1 DEF CatInv, CatTypes
<1>3. \A r : ReqOK(r, approved) => ReqOK(r, approved')
  BY <1>1 DEF ReqOK, InsertOK
<1>4. ImportsInv'
  <2>1. \A u \in Versions : vendor'[u] = "approved" => u \in approved'
    BY <1>1 DEF CatInv, ImportsInv, CatTypes
  <2>2. \A q \in CatReqs : ReqOK(creq'[q], approved')
    BY <1>1, <1>3 DEF CatInv, ImportsInv
  <2>3. SageMakerRowsApproved'
    BY <1>1 DEF CatInv, ImportsInv, SageMakerRowsApproved
  <2> QED
    BY <2>1, <2>2, <2>3 DEF ImportsInv
<1>5. OwnedInv' /\ ApartInv' /\ CatBound'
  BY <1>1 DEF CatInv, OwnedInv, ApartInv, CatBound, Busy
<1> QED
  BY <1>2, <1>4, <1>5 DEF CatInv

LEMMA CatNextKeeps == CatInv /\ [CatNext]_catVars => CatInv'
<1> SUFFICES ASSUME CatInv, [CatNext]_catVars PROVE CatInv'
  OBVIOUS
<1>1. ASSUME NEW q \in CatReqs, handleImportModel(q) PROVE CatInv'
  BY <1>1, PlainInsertsKeep, ImportSageMakerKeeps, ImportVertexAIKeeps, ImportAzureMLKeeps DEF handleImportModel
<1>2. ASSUME NEW q \in CatReqs, CatServe(q) PROVE CatInv'
  BY <1>2, ImportCallsKeep, InsertKeeps, DeleteModelRowKeeps, PersistPlanKeeps, ApplyOrQueueKeeps DEF CatServe
<1>3. CASE UNCHANGED catVars
  BY <1>3 DEF catVars, CatInv, CatTypes, ImportsInv, SageMakerRowsApproved, OwnedInv, ApartInv, CatBound, Busy
<1> QED
  BY <1>1, <1>2, <1>3, PlainInsertsKeep, HandleDeleteModelKeeps, HandleDeployModelKeeps,
     DeploymentEndsKeeps, DecideKeeps, VendorChangesKeeps DEF CatNext

LEMMA CatInvSafe == CatInv => CatTypeOK /\ ProducedPlansOwned /\ SageMakerRowsApproved
<1> SUFFICES ASSUME CatInv PROVE CatTypeOK /\ ProducedPlansOwned /\ SageMakerRowsApproved
  OBVIOUS
<1>1. /\ deployments \in Seq(DepRec) /\ DOMAIN deployments = 1..Len(deployments)
      /\ Len(deployments) \in Nat /\ Len(queue) \in Nat
  BY DEF CatInv, CatTypes
<1>2. Len(deployments) + Len(queue) <= MaxDeployments
  BY <1>1, BusyFinite, CatalogAssumption DEF CatInv, CatBound
<1>3. \A m \in DOMAIN models : models[m].version \in 0..MaxVersion
  BY DEF CatInv, CatTypes, RowType
<1>4. CatTypeOK
  BY <1>2, <1>3 DEF CatInv, CatTypes, CatTypeOK
<1>5. ProducedPlansOwned
  BY <1>1 DEF CatInv, OwnedInv, ApartInv, DepOwned, Apart, ProducedPlansOwned, GetPlan
<1> QED
  BY <1>4, <1>5 DEF CatInv, ImportsInv

\* What is imported and stored is genuine, in every behaviour of the two components: a
\* deployment the planner produced has a stored plan of its own (planFromFleet,
\* persistPlan), a SageMaker row is of a version that was approved under its own id
\* (ListApprovedModelPackages, describeModelPackage), and the Vertex client hands out no
\* token that has expired (VertexAIClient's token cache).
THEOREM OperationsCatalog == OperationsSpec => []Catalog_ImportsGenuine
<1>1. OperationsInit => (part = "catalog" => CatInv) /\ (part = "token" => TokInv)
  BY CatInitKeeps, TokInitKeeps DEF OperationsInit
<1>2. part = "catalog" /\ [OperationsNext]_operationsVars => [CatNext]_catVars
  BY DEF OperationsNext, operationsVars
<1>3. part = "token" /\ [OperationsNext]_operationsVars => [TokNext]_tokVars
  BY DEF OperationsNext, operationsVars
<1>4. [OperationsNext]_operationsVars => part' = part
  BY DEF OperationsNext, operationsVars
<1>5. (part = "catalog" => CatInv) /\ [OperationsNext]_operationsVars => (part = "catalog" => CatInv)'
  BY <1>2, <1>4, CatNextKeeps
<1>6. (part = "token" => TokInv) /\ [OperationsNext]_operationsVars => (part = "token" => TokInv)'
  BY <1>3, <1>4, TokNextKeeps
<1>7. (part = "catalog" => CatInv) /\ (part = "token" => TokInv) => Catalog_ImportsGenuine
  BY CatInvSafe, TokInvSafe DEF Catalog_ImportsGenuine
<1> QED
  BY <1>1, <1>5, <1>6, <1>7, PTL DEF OperationsSpec

-----------------------------------------------------------------------------
(***************************************************************************)
(* The declared configuration                                              *)
(***************************************************************************)

CfgIdle(r) == r.at = "idle"
CfgItems == CfgModels \cup CfgEntries \cup CfgOrgs \cup CfgPools
CfgSubItems == CfgTeams \cup CfgNodes
ApplyRec ==
    [at: {"idle"}]
      \cup [at: {"diff"}, cfg: Configs, ok: BOOLEAN]
      \cup [at: {"models", "deployments", "orgs", "pools"}, cfg: Configs, ok: BOOLEAN,
            add: SUBSET CfgEntries, todo: SUBSET CfgItems]
      \cup [at: {"teams", "members"}, cfg: Configs, ok: BOOLEAN, add: SUBSET CfgEntries,
            todo: SUBSET CfgItems, sub: SUBSET CfgSubItems, of: CfgOrgs \cup CfgPools]

\* What is left of a section is of that section.
Fits(r) ==
    /\ r.at \in {"orgs", "teams"} => r.todo \subseteq DOMAIN r.cfg.orgs
    /\ r.at \in {"pools", "members"} => r.todo \subseteq DOMAIN r.cfg.pools

CfgTypes ==
    /\ apply \in [Appliers -> ApplyRec] /\ \A a \in Appliers : Fits(apply[a])
    /\ cfgDeps \in [CfgEntries -> [starting: Nat, active: Nat]]
    /\ overlapped \in BOOLEAN /\ disturbed \in BOOLEAN
    /\ file \in Configs /\ cfgApplied \subseteq Configs

\* The deployments an apply is still going to start.
Owed(r) == IF r.at = "models" THEN r.add ELSE IF r.at = "deployments" THEN r.todo ELSE {}

\* What runs for model m are entries of content c.
Running(x, D) == D[x].starting + D[x].active
OfOne(m, c, D) == \A x \in CfgEntries : x[1] = m /\ Running(x, D) > 0 => x \in c.deploy
OwedOK(r, D) == \A x \in Owed(r) : Running(x, D) = 0 /\ x \in r.cfg.deploy /\ OfOne(x[1], r.cfg, D)

\* As long as applies did not overlap one is in flight, what it is going to deploy nobody
\* has deployed, and what runs for the same model it has deployed itself.
AloneInv ==
    ~overlapped =>
        /\ \A a, b \in Appliers : a # b => CfgIdle(apply[a]) \/ CfgIdle(apply[b])
        /\ \A x \in CfgEntries : Running(x, cfgDeps) <= 1
        /\ \A m \in CfgModels : \E c \in Configs : OfOne(m, c, cfgDeps)
        /\ \A a \in Appliers : OwedOK(apply[a], cfgDeps)

\* What an apply has registered by the time it is where it is.
Got(r, M, O, P) ==
    /\ r.at = "models" => r.cfg.models \subseteq M \cup r.todo
    /\ r.at \in {"deployments", "orgs", "teams", "pools", "members"} => r.cfg.models \subseteq M
    /\ r.at \in {"orgs", "teams"} => DOMAIN r.cfg.orgs \subseteq O \cup r.todo
    /\ r.at = "teams" => r.of \in O
    /\ r.at \in {"pools", "members"} => DOMAIN r.cfg.orgs \subseteq O /\ DOMAIN r.cfg.pools \subseteq P \cup r.todo

Covered(c, M, O, P) == c.models \subseteq M /\ DOMAIN c.orgs \subseteq O /\ DOMAIN c.pools \subseteq P

\* The contents some apply began with and did not fail.
Begun == cfgApplied \cup {apply[a].cfg : a \in {b \in Appliers : ~CfgIdle(apply[b])}}
Adding(o, t) == \E a \in Appliers : apply[a].at = "teams" /\ apply[a].of = o /\ t \in apply[a].sub

\* As long as nothing failed and nothing was deleted, each apply registers its items in
\* order, and an organisation has, or is about to get, the teams of one of the contents.
CleanInv ==
    ~disturbed =>
        /\ \A a \in Appliers : Got(apply[a], cfgModels, cfgOrgs, cfgPools) /\ (~CfgIdle(apply[a]) => apply[a].ok)
        /\ IsFiniteSet(cfgApplied) /\ \A c \in cfgApplied : Covered(c, cfgModels, cfgOrgs, cfgPools)
        /\ \A o \in cfgOrgs : \E c \in Begun : \A t \in c.orgs[o] : <<o, t>> \in cfgTeams \/ Adding(o, t)

CfgInv == CfgTypes /\ AloneInv /\ CleanInv

LEMMA CfgInitKeeps == ConfigInit => CfgInv
<1> SUFFICES ASSUME ConfigInit PROVE CfgInv
  OBVIOUS
<1>1. ApplyIdle \in ApplyRec /\ Fits(ApplyIdle) /\ ApplyIdle.at = "idle"
  BY DEF ApplyIdle, ApplyRec, Fits
<1>2. \A a \in Appliers : apply[a] = ApplyIdle
  BY DEF ConfigInit
<1>3. CfgTypes
  BY <1>1, <1>2 DEF ConfigInit, CfgTypes
<1>4. AloneInv
  BY <1>1, <1>2 DEF ConfigInit, AloneInv, CfgIdle, OwedOK, OfOne, Owed, Running
<1>5. CleanInv
  BY <1>1, <1>2, FS_EmptySet DEF ConfigInit, CleanInv, CfgIdle, Got
<1> QED
  BY <1>3, <1>4, <1>5 DEF CfgInv

\* An apply goes on to r and the deployments stay.
LEMMA CfgMoves ==
  ASSUME CfgInv, NEW a \in Appliers, NEW r \in ApplyRec, Fits(r),
         apply' = [apply EXCEPT ![a] = r],
         CfgIdle(r) \/ ~CfgIdle(apply[a]), Owed(r) \subseteq Owed(apply[a]),
         Owed(r) = {} \/ r.cfg = apply[a].cfg,
         file' \in Configs, cfgApplied' \subseteq Configs, disturbed' \in BOOLEAN,
         UNCHANGED <<cfgDeps, overlapped>>
  PROVE  CfgTypes' /\ AloneInv'
<1>0. /\ apply' \in [Appliers -> ApplyRec]
      /\ apply'[a] = r /\ \A b \in Appliers : b # a => apply'[b] = apply[b]
  BY DEF CfgInv, CfgTypes
<1>1. CfgTypes'
  BY <1>0 DEF CfgInv, CfgTypes
<1>2. ASSUME ~overlapped, NEW b \in Appliers, NEW c \in Appliers, b # c
      PROVE  CfgIdle(apply'[b]) \/ CfgIdle(apply'[c])
  <2>1. CfgIdle(apply[b]) \/ CfgIdle(apply[c])
    BY <1>2 DEF CfgInv, AloneInv
  <2> QED
    BY <1>0, <2>1, <1>2
<1>4. cfgDeps' = cfgDeps
  OBVIOUS
<1>6. ASSUME ~overlapped, NEW b \in Appliers PROVE OwedOK(apply'[b], cfgDeps')
  <2>1. OwedOK(apply[b], cfgDeps) /\ OwedOK(apply[a], cfgDeps)
    BY <1>6 DEF CfgInv, AloneInv
  <2>2. OwedOK(r, cfgDeps')
    BY <2>1, <1>4 DEF OwedOK
  <2> QED
    BY <1>0, <1>4, <2>1, <2>2
<1>7. AloneInv'
  BY <1>2, <1>4, <1>6 DEF CfgInv, AloneInv
<1> QED
  BY <1>1, <1>7

\* A clean step of an apply in flight: it stays in flight, the tables grow, what it has
\* registered and the teams it was adding are there.
LEMMA CfgCleanMoves ==
  ASSUME CfgInv, ~disturbed, NEW a \in Appliers, NEW r \in ApplyRec,
         apply' = [apply EXCEPT ![a] = r],
         ~CfgIdle(r), ~CfgIdle(apply[a]), r.cfg = apply[a].cfg, r.ok = apply[a].ok,
         cfgModels \subseteq cfgModels', cfgOrgs \subseteq cfgOrgs', cfgPools \subseteq cfgPools',
         cfgTeams \subseteq cfgTeams', cfgApplied' = cfgApplied,
         Got(r, cfgModels', cfgOrgs', cfgPools'),
         apply[a].at = "teams" => \A t \in apply[a].sub :
             <<apply[a].of, t>> \in cfgTeams' \/ (r.at = "teams" /\ r.of = apply[a].of /\ t \in r.sub),
         \A o \in cfgOrgs' \ cfgOrgs : r.at = "teams" /\ r.of = o /\ r.sub = r.cfg.orgs[o]
  PROVE  CleanInv'
<1>0. /\ apply' \in [Appliers -> ApplyRec]
      /\ apply'[a] = r /\ \A b \in Appliers : b # a => apply'[b] = apply[b]
  BY DEF CfgInv, CfgTypes
<1>c. /\ \A b \in Appliers : Got(apply[b], cfgModels, cfgOrgs, cfgPools) /\ (~CfgIdle(apply[b]) => apply[b].ok)
      /\ IsFiniteSet(cfgApplied) /\ \A c \in cfgApplied : Covered(c, cfgModels, cfgOrgs, cfgPools)
      /\ \A o \in cfgOrgs : \E c \in Begun : \A t \in c.orgs[o] : <<o, t>> \in cfgTeams \/ Adding(o, t)
  BY DEF CfgInv, CleanInv
<1>1. ASSUME NEW b \in Appliers PROVE Got(apply'[b], cfgModels', cfgOrgs', cfgPools')
  <2>1. CASE b = a
    BY <2>1, <1>0
  <2>2. CASE b # a
    <3>1. Got(apply[b], cfgModels, cfgOrgs, cfgPools)
      BY <1>c
    <3>2. apply'[b] = apply[b]
      BY <1>0, <2>2
    <3> QED
      BY <3>1, <3>2 DEF Got
  <2> QED
    BY <2>1, <2>2
<1>2. ASSUME NEW b \in Appliers PROVE ~CfgIdle(apply'[b]) => apply'[b].ok
  BY <1>0, <1>c
<1>3. IsFiniteSet(cfgApplied') /\ \A c \in cfgApplied' : Covered(c, cfgModels', cfgOrgs', cfgPools')
  BY <1>c DEF Covered
<1>4. Begun \subseteq Begun'
  BY <1>0 DEF Begun
<1>5. ASSUME NEW o, NEW t, Adding(o, t) PROVE <<o, t>> \in cfgTeams' \/ Adding(o, t)'
  BY <1>0, <1>5 DEF Adding
<1>6. ASSUME NEW o \in cfgOrgs'
      PROVE  \E c \in Begun' : \A t \in c.orgs[o] : <<o, t>> \in cfgTeams' \/ Adding(o, t)'
  <2>1. CASE o \in cfgOrgs
    <3>1. PICK c \in Begun : \A t \in c.orgs[o] : <<o, t>> \in cfgTeams \/ Adding(o, t)
      BY <1>c, <2>1
    <3>2. \A t \in c.orgs[o] : <<o, t>> \in cfgTeams' \/ Adding(o, t)'
      BY <3>1, <1>5
    <3> QED
      BY <3>1, <3>2, <1>4
  <2>2. CASE o \notin cfgOrgs
    <3>1. r.at = "teams" /\ r.of = o /\ r.sub = r.cfg.orgs[o]
      BY <2>2
    <3>2. r.cfg \in Begun'
      BY <1>0 DEF Begun
    <3>3. \A t \in r.cfg.orgs[o] : Adding(o, t)'
      BY <3>1, <1>0 DEF Adding
    <3> QED
      BY <3>2, <3>3
  <2> QED
    BY <2>1, <2>2
<1> QED
  BY <1>1, <1>2, <1>3, <1>6 DEF CleanInv

\* A step that leaves the tables and the applies alone.
LEMMA CfgRests ==
  ASSUME CfgInv, UNCHANGED <<cfgRows, apply, overlapped, disturbed, cfgApplied>>, file' \in Configs
  PROVE  CfgInv'
<1>1. UNCHANGED <<cfgModels, cfgDeps, cfgOrgs, cfgTeams, cfgPools, cfgMembers>>
  BY DEF cfgRows
<1>2. CfgTypes'
  BY <1>1 DEF CfgInv, CfgTypes
<1>3. AloneInv'
  BY <1>1 DEF CfgInv, AloneInv, OwedOK, OfOne, Running
<1>4. Begun' = Begun /\ \A o, t : Adding(o, t)' = Adding(o, t)
  BY DEF Begun, Adding
<1>5. CleanInv'
  BY <1>1, <1>4 DEF CfgInv, CleanInv
<1> QED
  BY <1>2, <1>3, <1>5 DEF CfgInv

\* ApplyBegin: an idle applier takes a content.
LEMMA CfgBegins ==
  ASSUME CfgInv, NEW a \in Appliers, NEW c \in Configs, CfgIdle(apply[a]), ApplyBegin(a, c),
         UNCHANGED <<file, cfgRows, disturbed, cfgApplied>>
  PROVE  CfgInv'
<1> DEFINE r == [at |-> "diff", cfg |-> c, ok |-> TRUE]
<1>r. r \in ApplyRec /\ Fits(r) /\ r.at = "diff" /\ r.ok /\ r.cfg = c
  BY DEF ApplyRec, Fits
<1> HIDE DEF r
<1>u. UNCHANGED <<cfgModels, cfgDeps, cfgOrgs, cfgTeams, cfgPools, cfgMembers>>
  BY DEF cfgRows
<1>0. /\ apply' = [apply EXCEPT ![a] = r] /\ apply' \in [Appliers -> ApplyRec]
      /\ apply'[a] = r /\ \A b \in Appliers : b # a => apply'[b] = apply[b]
  BY <1>r DEF CfgInv, CfgTypes, ApplyBegin, r
<1>o. overlapped' = (overlapped \/ \E b \in Appliers \ {a} : apply[b] # ApplyIdle)
  BY DEF ApplyBegin
<1>1. CfgTypes'
  <2>1. overlapped' \in BOOLEAN
    BY <1>o DEF CfgInv, CfgTypes
  <2>2. \A b \in Appliers : Fits(apply'[b])
    BY <1>0, <1>r DEF CfgInv, CfgTypes
  <2> QED
    BY <1>0, <1>u, <2>1, <2>2 DEF CfgInv, CfgTypes
<1>2. AloneInv'
  <2> SUFFICES ASSUME ~overlapped' PROVE AloneInv'
    BY DEF AloneInv
  <2>1. ~overlapped /\ \A b \in Appliers : b # a => apply[b] = ApplyIdle
    BY <1>o
  <2>2. \A b \in Appliers : b # a => CfgIdle(apply'[b]) /\ Owed(apply'[b]) = {}
    BY <2>1, <1>0 DEF CfgIdle, ApplyIdle, Owed
  <2>3. Owed(apply'[a]) = {}
    BY <1>0, <1>r DEF Owed
  <2>4. /\ \A x \in CfgEntries : Running(x, cfgDeps') <= 1
        /\ \A m \in CfgModels : \E d \in Configs : OfOne(m, d, cfgDeps')
    BY <2>1, <1>u DEF CfgInv, AloneInv, OfOne, Running
  <2>5. \A b \in Appliers : OwedOK(apply'[b], cfgDeps')
    BY <2>2, <2>3 DEF OwedOK
  <2> QED
    BY <2>2, <2>4, <2>5 DEF AloneInv
<1>3. CleanInv'
  <2> SUFFICES ASSUME ~disturbed PROVE CleanInv'
    BY DEF CleanInv
  <2>1. \A b \in Appliers : Got(apply'[b], cfgModels', cfgOrgs', cfgPools') /\ (~CfgIdle(apply'[b]) => apply'[b].ok)
    <3>1. Got(r, cfgModels', cfgOrgs', cfgPools')
      BY <1>r DEF Got
    <3> QED
      BY <3>1, <1>0, <1>r, <1>u DEF CfgInv, CleanInv
  <2>2. Begun \subseteq Begun'
    BY <1>0, <1>r DEF Begun, CfgIdle
  <2>3. \A o, t : Adding(o, t) => Adding(o, t)'
    BY <1>0 DEF Adding, CfgIdle
  <2>4. ASSUME NEW o \in cfgOrgs'
        PROVE  \E d \in Begun' : \A t \in d.orgs[o] : <<o, t>> \in cfgTeams' \/ Adding(o, t)'
    <3>1. PICK d \in Begun : \A t \in d.orgs[o] : <<o, t>> \in cfgTeams \/ Adding(o, t)
      BY <1>u DEF CfgInv, CleanInv
    <3> QED
      BY <3>1, <2>2, <2>3, <1>u
  <2>5. IsFiniteSet(cfgApplied') /\ \A d \in cfgApplied' : Covered(d, cfgModels', cfgOrgs', cfgPools')
    BY <1>u DEF CfgInv, CleanInv
  <2> QED
    BY <2>1, <2>4, <2>5 DEF CleanInv
<1> QED
  BY <1>1, <1>2, <1>3 DEF CfgInv

SectionRec ==
    [at: {"models", "deployments", "orgs", "pools"}, cfg: Configs, ok: BOOLEAN,
     add: SUBSET CfgEntries, todo: SUBSET CfgItems]
SubRec ==
    [at: {"teams", "members"}, cfg: Configs, ok: BOOLEAN, add: SUBSET CfgEntries,
     todo: SUBSET CfgItems, sub: SUBSET CfgSubItems, of: CfgOrgs \cup CfgPools]

LEMMA CfgRecs ==
  /\ SectionRec \subseteq ApplyRec /\ SubRec \subseteq ApplyRec
  /\ \A r \in ApplyRec :
      /\ r.at \in {"models", "deployments", "orgs", "pools"} => r \in SectionRec
      /\ r.at \in {"teams", "members"} => r \in SubRec
      /\ CfgIdle(r) <=> r = ApplyIdle
BY DEF ApplyRec, SectionRec, SubRec, CfgIdle, ApplyIdle

\* Rest: an item of a section is done.
LEMMA CfgRestIs ==
  ASSUME CfgInv, NEW a \in Appliers, apply[a] \in SectionRec, NEW x
  PROVE  LET r == [apply[a] EXCEPT !.todo = @ \ {x}] IN
         /\ r \in SectionRec /\ Fits(r) /\ r.todo = apply[a].todo \ {x}
         /\ r.at = apply[a].at /\ r.cfg = apply[a].cfg /\ r.ok = apply[a].ok /\ r.add = apply[a].add
         /\ Owed(r) \subseteq Owed(apply[a]) /\ ~CfgIdle(r) /\ ~CfgIdle(apply[a])
<1> DEFINE r == [apply[a] EXCEPT !.todo = @ \ {x}]
<1>1. /\ r \in SectionRec /\ r.todo = apply[a].todo \ {x}
      /\ r.at = apply[a].at /\ r.cfg = apply[a].cfg /\ r.ok = apply[a].ok /\ r.add = apply[a].add
  BY DEF SectionRec
<1>2. r.at # "idle"
  BY <1>1 DEF SectionRec
<1> HIDE DEF r
<1>3. Fits(r)
  BY <1>1 DEF CfgInv, CfgTypes, Fits
<1>4. Owed(r) \subseteq Owed(apply[a])
  BY <1>1 DEF Owed
<1> QED
  BY <1>1, <1>2, <1>3, <1>4 DEF r, CfgIdle

LEMMA ApplyModelKeeps ==
  ASSUME CfgInv, NEW a \in Appliers, NEW m \in CfgModels, ApplyModel(a, m)
  PROVE  CfgInv'
<1>a. apply[a] \in SectionRec
  BY CfgRecs DEF ApplyModel, CfgInv, CfgTypes
<1> DEFINE r == [apply[a] EXCEPT !.todo = @ \ {m}]
<1>1. /\ r \in SectionRec /\ Fits(r) /\ r.todo = apply[a].todo \ {m}
      /\ r.at = apply[a].at /\ r.cfg = apply[a].cfg /\ r.ok = apply[a].ok
      /\ Owed(r) \subseteq Owed(apply[a]) /\ ~CfgIdle(r) /\ ~CfgIdle(apply[a])
  BY <1>a, CfgRestIs
<1>2. apply' = [apply EXCEPT ![a] = r]
  BY DEF ApplyModel, Rest
<1> HIDE DEF r
<1>3. r \in ApplyRec
  BY <1>1, CfgRecs
<1>4. CfgTypes' /\ AloneInv'
  BY <1>1, <1>2, <1>3, CfgMoves DEF ApplyModel, CfgInv, CfgTypes
<1>5. CleanInv'
  <2> SUFFICES ASSUME ~disturbed PROVE CleanInv'
    BY DEF CleanInv, ApplyModel
  <2>1. Got(apply[a], cfgModels, cfgOrgs, cfgPools)
    BY DEF CfgInv, CleanInv
  <2>2. Got(r, cfgModels', cfgOrgs', cfgPools')
    BY <2>1, <1>1 DEF Got, ApplyModel
  <2> QED
    BY <2>2, <1>1, <1>2, <1>3, CfgCleanMoves DEF ApplyModel
<1> QED
  BY <1>4, <1>5 DEF CfgInv

LEMMA DeployModelKeeps ==
  ASSUME CfgInv, NEW a \in Appliers, NEW x \in CfgEntries, DeployModel(a, x)
  PROVE  CfgInv'
<1>a. apply[a] \in SectionRec
  BY CfgRecs DEF DeployModel, CfgInv, CfgTypes
<1> DEFINE r == [apply[a] EXCEPT !.todo = @ \ {x}]
<1>1. /\ r \in SectionRec /\ Fits(r) /\ r.todo = apply[a].todo \ {x}
      /\ r.at = apply[a].at /\ r.cfg = apply[a].cfg /\ r.ok = apply[a].ok
      /\ Owed(r) \subseteq Owed(apply[a]) /\ ~CfgIdle(r) /\ ~CfgIdle(apply[a])
  BY <1>a, CfgRestIs
<1>2. apply' = [apply EXCEPT ![a] = r]
  BY DEF DeployModel, Rest
<1> HIDE DEF r
<1>3. r \in ApplyRec
  BY <1>1, CfgRecs
<1>0. /\ apply' \in [Appliers -> ApplyRec]
      /\ apply'[a] = r /\ \A b \in Appliers : b # a => apply'[b] = apply[b]
  BY <1>2, <1>3 DEF CfgInv, CfgTypes
<1>d. /\ cfgDeps' \in [CfgEntries -> [starting: Nat, active: Nat]]
      /\ Running(x, cfgDeps') = Running(x, cfgDeps) + 1
      /\ \A y : y # x => Running(y, cfgDeps') = Running(y, cfgDeps)
  BY DEF DeployModel, Running, CfgInv, CfgTypes
<1>4. CfgTypes'
  <2>1. \A b \in Appliers : Fits(apply'[b])
    BY <1>0, <1>1 DEF CfgInv, CfgTypes
  <2> QED
    BY <2>1, <1>0, <1>d DEF DeployModel, CfgInv, CfgTypes
<1>5. AloneInv'
  <2> SUFFICES ASSUME ~overlapped PROVE AloneInv'
    BY DEF AloneInv, DeployModel
  <2>1. \A b \in Appliers : b # a => CfgIdle(apply'[b])
    BY <1>0, <1>1 DEF CfgInv, AloneInv
  <2> DEFINE c == apply[a].cfg
  <2>2. /\ Owed(apply[a]) = apply[a].todo /\ x \in apply[a].todo /\ Owed(r) = apply[a].todo \ {x}
    BY <1>1 DEF DeployModel, Owed, Left
  <2>o. OwedOK(apply[a], cfgDeps)
    BY DEF CfgInv, AloneInv
  <2>3. /\ Running(x, cfgDeps) = 0 /\ x \in c.deploy /\ OfOne(x[1], c, cfgDeps)
    BY <2>2, <2>o DEF OwedOK
  <2>4. \A y \in CfgEntries : Running(y, cfgDeps') <= 1
    BY <2>3, <1>d DEF CfgInv, AloneInv
  <2>5. OfOne(x[1], c, cfgDeps')
    BY <2>3, <1>d DEF OfOne
  <2>6. \A m, d : m # x[1] /\ OfOne(m, d, cfgDeps) => OfOne(m, d, cfgDeps')
    BY <1>d DEF OfOne
  <2>7. c \in Configs
    BY <1>a DEF SectionRec
  <2>8. \A m \in CfgModels : \E d \in Configs : OfOne(m, d, cfgDeps')
    BY <2>5, <2>6, <2>7 DEF CfgInv, AloneInv
  <2>9. ASSUME NEW y \in Owed(r) PROVE Running(y, cfgDeps') = 0 /\ y \in r.cfg.deploy /\ OfOne(y[1], r.cfg, cfgDeps')
    <3>1. y # x /\ Running(y, cfgDeps) = 0 /\ y \in c.deploy /\ OfOne(y[1], c, cfgDeps)
      BY <2>2, <2>9, <2>o DEF OwedOK
    <3>2. OfOne(y[1], c, cfgDeps')
      BY <3>1, <2>5, <2>6
    <3> QED
      BY <3>1, <3>2, <1>d, <1>1
  <2>10. OwedOK(r, cfgDeps')
    BY <2>9 DEF OwedOK
  <2>11. \A b \in Appliers : b # a => OwedOK(apply'[b], cfgDeps')
    BY <2>1 DEF Owed, OwedOK, CfgIdle
  <2>12. \A b \in Appliers : OwedOK(apply'[b], cfgDeps')
    BY <1>0, <2>10, <2>11
  <2> QED
    BY <1>0, <2>1, <2>4, <2>8, <2>12 DEF AloneInv
<1>6. CleanInv'
  <2> SUFFICES ASSUME ~disturbed PROVE CleanInv'
    BY DEF CleanInv, DeployModel
  <2>1. Got(apply[a], cfgModels, cfgOrgs, cfgPools)
    BY DEF CfgInv, CleanInv
  <2>2. Got(r, cfgModels', cfgOrgs', cfgPools')
    BY <2>1, <1>1 DEF Got, DeployModel
  <2> QED
    BY <2>2, <1>1, <1>2, <1>3, CfgCleanMoves DEF DeployModel
<1> QED
  BY <1>4, <1>5, <1>6 DEF CfgInv

\* Diff: what is to be deployed has no deployment.
LEMMA CfgDiffKeeps ==
  ASSUME CfgInv, NEW a \in Appliers, Diff(a)
  PROVE  CfgInv'
<1> DEFINE c == apply[a].cfg
           r == [at |-> "models", cfg |-> c, ok |-> apply[a].ok, todo |-> c.models \ CurrentModelIDs,
                 add |-> {x \in c.deploy : x[1] \notin CurrentDeploymentModelIDs}]
<1>c. c \in Configs /\ apply[a].ok \in BOOLEAN /\ ~CfgIdle(apply[a]) /\ c.models \subseteq CfgModels /\ c.deploy \subseteq CfgEntries
  BY ConfigAssumption DEF Diff, CfgInv, CfgTypes, ApplyRec, CfgIdle
<1>1. /\ r \in SectionRec /\ r.todo = c.models \ cfgModels /\ r.at = "models" /\ r.cfg = c /\ r.ok = apply[a].ok
      /\ r.add = {x \in c.deploy : x[1] \notin CurrentDeploymentModelIDs}
  BY <1>c DEF SectionRec, CurrentModelIDs, CfgItems
<1>2. apply' = [apply EXCEPT ![a] = r]
  BY DEF Diff
<1> HIDE DEF r, c
<1>3. r \in ApplyRec /\ Fits(r) /\ ~CfgIdle(r)
  BY <1>1, CfgRecs DEF Fits, CfgIdle
<1>0. /\ apply' \in [Appliers -> ApplyRec]
      /\ apply'[a] = r /\ \A b \in Appliers : b # a => apply'[b] = apply[b]
  BY <1>2, <1>3 DEF CfgInv, CfgTypes
<1>u. UNCHANGED <<cfgModels, cfgDeps, cfgOrgs, cfgTeams, cfgPools, cfgMembers, file, overlapped, disturbed, cfgApplied>>
  BY DEF Diff, cfgRows
<1>4. CfgTypes'
  <2>1. \A b \in Appliers : Fits(apply'[b])
    BY <1>0, <1>3 DEF CfgInv, CfgTypes
  <2> QED
    BY <2>1, <1>0, <1>u DEF CfgInv, CfgTypes
<1>5. AloneInv'
  <2> SUFFICES ASSUME ~overlapped PROVE AloneInv'
    BY <1>u DEF AloneInv
  <2>1. \A b \in Appliers : b # a => CfgIdle(apply'[b])
    BY <1>0, <1>c DEF CfgInv, AloneInv
  <2>2. \A b \in Appliers : b # a => Owed(apply'[b]) = {}
    BY <2>1 DEF Owed, CfgIdle
  <2>3. ASSUME NEW x \in Owed(r)
        PROVE  x \in CfgEntries /\ x \in r.cfg.deploy /\ \A y \in CfgEntries : y[1] = x[1] => ~(Running(y, cfgDeps) > 0)
    <3>1. x \in c.deploy /\ x[1] \notin CurrentDeploymentModelIDs
      BY <1>1, <2>3 DEF Owed
    <3> QED
      BY <3>1, <1>c, <1>1 DEF CurrentDeploymentModelIDs, Live, Running
  <2>4. \A y \in CfgEntries : Running(y, cfgDeps) \in Nat
    BY DEF CfgInv, CfgTypes, Running
  <2>5. OwedOK(r, cfgDeps)
    BY <2>3, <2>4 DEF OwedOK, OfOne
  <2>6. cfgDeps' = cfgDeps
    BY <1>u
  <2>7. OwedOK(r, cfgDeps')
    BY <2>5, <2>6
  <2>8. \A b \in Appliers : OwedOK(apply'[b], cfgDeps')
    BY <1>0, <2>2, <2>7 DEF OwedOK
  <2>9. /\ \A x \in CfgEntries : Running(x, cfgDeps') <= 1
        /\ \A m \in CfgModels : \E d \in Configs : OfOne(m, d, cfgDeps')
    BY <2>6 DEF CfgInv, AloneInv
  <2> QED
    BY <1>0, <2>1, <2>8, <2>9 DEF AloneInv
<1>6. CleanInv'
  <2> SUFFICES ASSUME ~disturbed PROVE CleanInv'
    BY <1>u DEF CleanInv
  <2>2. Got(r, cfgModels', cfgOrgs', cfgPools')
    BY <1>1, <1>u DEF Got
  <2>3. apply[a].at = "diff" /\ r.cfg = apply[a].cfg
    BY <1>1 DEF Diff, c
  <2> QED
    BY <2>2, <2>3, <1>1, <1>2, <1>3, <1>c, <1>u, CfgCleanMoves
<1> QED
  BY <1>4, <1>5, <1>6 DEF CfgInv

\* An organisation that exists, or a pool, is done without a sub-section.
LEMMA CfgItemDone ==
  ASSUME CfgInv, NEW a \in Appliers, apply[a] \in SectionRec, NEW x,
         (apply[a].at = "orgs" /\ x \in cfgOrgs) \/ (apply[a].at = "pools" /\ x \in cfgPools),
         Rest(a, x), UNCHANGED <<file, cfgModels, cfgDeps, cfgOrgs, cfgTeams, cfgPools, overlapped, disturbed, cfgApplied>>
  PROVE  CfgInv'
<1> DEFINE r == [apply[a] EXCEPT !.todo = @ \ {x}]
<1>1. /\ r \in SectionRec /\ Fits(r) /\ r.todo = apply[a].todo \ {x}
      /\ r.at = apply[a].at /\ r.cfg = apply[a].cfg /\ r.ok = apply[a].ok
      /\ Owed(r) \subseteq Owed(apply[a]) /\ ~CfgIdle(r) /\ ~CfgIdle(apply[a])
  BY CfgRestIs
<1>2. apply' = [apply EXCEPT ![a] = r]
  BY DEF Rest
<1> HIDE DEF r
<1>3. r \in ApplyRec
  BY <1>1, CfgRecs
<1>4. CfgTypes' /\ AloneInv'
  BY <1>1, <1>2, <1>3, CfgMoves DEF CfgInv, CfgTypes
<1>5. CleanInv'
  <2> SUFFICES ASSUME ~disturbed PROVE CleanInv'
    BY DEF CleanInv
  <2>1. Got(apply[a], cfgModels, cfgOrgs, cfgPools)
    BY DEF CfgInv, CleanInv
  <2>2. Got(r, cfgModels', cfgOrgs', cfgPools')
    BY <2>1, <1>1 DEF Got
  <2> QED
    BY <2>2, <1>1, <1>2, <1>3, CfgCleanMoves
<1> QED
  BY <1>4, <1>5 DEF CfgInv

LEMMA ApplyOrgKeeps ==
  ASSUME CfgInv, NEW a \in Appliers, NEW o \in CfgOrgs, ApplyOrg(a, o)
  PROVE  CfgInv'
<1>a. apply[a] \in SectionRec
  BY CfgRecs DEF ApplyOrg, CfgInv, CfgTypes
<1>1. CASE o \in cfgOrgs
  <2>1. cfgOrgs' = cfgOrgs /\ Rest(a, o)
    BY <1>1 DEF ApplyOrg
  <2> QED
    BY <1>a, <1>1, <2>1, CfgItemDone DEF ApplyOrg
<1>2. CASE o \notin cfgOrgs
  <2> DEFINE e == apply[a]
             r == [at |-> "teams", cfg |-> e.cfg, ok |-> e.ok, add |-> e.add, todo |-> e.todo \ {o},
                   sub |-> e.cfg.orgs[o], of |-> o]
  <2>c. e.cfg \in Configs /\ o \in e.todo /\ o \in DOMAIN e.cfg.orgs /\ e.todo \subseteq DOMAIN e.cfg.orgs
    BY <1>a DEF SectionRec, ApplyOrg, Left, CfgInv, CfgTypes, Fits
  <2>s. e.cfg.orgs[o] \subseteq CfgTeams
    BY <2>c, ConfigAssumption
  <2>1. /\ r \in SubRec /\ r.at = "teams" /\ r.cfg = e.cfg /\ r.ok = e.ok /\ r.todo = e.todo \ {o}
        /\ r.sub = r.cfg.orgs[o] /\ r.of = o
    BY <1>a, <2>s DEF SectionRec, SubRec, CfgSubItems
  <2>2. apply' = [apply EXCEPT ![a] = r]
    BY <1>2 DEF ApplyOrg
  <2> HIDE DEF r
  <2>3. r \in ApplyRec /\ Fits(r) /\ ~CfgIdle(r) /\ ~CfgIdle(apply[a]) /\ Owed(r) = {}
    BY <2>1, <2>c, CfgRecs DEF Fits, CfgIdle, ApplyOrg, Owed
  <2>4. CfgTypes' /\ AloneInv'
    BY <2>2, <2>3, CfgMoves DEF CfgInv, CfgTypes, ApplyOrg
  <2>5. CleanInv'
    <3> SUFFICES ASSUME ~disturbed PROVE CleanInv'
      BY DEF CleanInv, ApplyOrg
    <3>1. Got(apply[a], cfgModels, cfgOrgs, cfgPools)
      BY DEF CfgInv, CleanInv
    <3>2. Got(r, cfgModels', cfgOrgs', cfgPools')
      BY <3>1, <2>1 DEF Got, ApplyOrg
    <3>3. \A p \in cfgOrgs' \ cfgOrgs : r.at = "teams" /\ r.of = p /\ r.sub = r.cfg.orgs[p]
      BY <2>1 DEF ApplyOrg
    <3> QED
      BY <3>2, <3>3, <2>1, <2>2, <2>3, CfgCleanMoves DEF ApplyOrg
  <2> QED
    BY <2>4, <2>5 DEF CfgInv
<1> QED
  BY <1>1, <1>2

LEMMA ApplyPoolKeeps ==
  ASSUME CfgInv, NEW a \in Appliers, NEW p \in CfgPools, ApplyPool(a, p)
  PROVE  CfgInv'
<1>a. apply[a] \in SectionRec
  BY CfgRecs DEF ApplyPool, CfgInv, CfgTypes
<1>1. CASE p \in cfgPools
  <2>1. cfgPools' = cfgPools /\ Rest(a, p)
    BY <1>1 DEF ApplyPool
  <2> QED
    BY <1>a, <1>1, <2>1, CfgItemDone DEF ApplyPool
<1>2. CASE p \notin cfgPools
  <2> DEFINE e == apply[a]
             r == [at |-> "members", cfg |-> e.cfg, ok |-> e.ok, add |-> e.add, todo |-> e.todo \ {p},
                   sub |-> e.cfg.pools[p], of |-> p]
  <2>c. e.cfg \in Configs /\ p \in e.todo /\ p \in DOMAIN e.cfg.pools /\ e.todo \subseteq DOMAIN e.cfg.pools
    BY <1>a DEF SectionRec, ApplyPool, Left, CfgInv, CfgTypes, Fits
  <2>s. e.cfg.pools[p] \subseteq CfgNodes
    BY <2>c, ConfigAssumption
  <2>1. /\ r \in SubRec /\ r.at = "members" /\ r.cfg = e.cfg /\ r.ok = e.ok /\ r.todo = e.todo \ {p}
    BY <1>a, <2>s DEF SectionRec, SubRec, CfgSubItems
  <2>2. apply' = [apply EXCEPT ![a] = r]
    BY <1>2 DEF ApplyPool
  <2> HIDE DEF r
  <2>3. r \in ApplyRec /\ Fits(r) /\ ~CfgIdle(r) /\ ~CfgIdle(apply[a]) /\ Owed(r) = {}
    BY <2>1, <2>c, CfgRecs DEF Fits, CfgIdle, ApplyPool, Owed
  <2>4. CfgTypes' /\ AloneInv'
    BY <2>2, <2>3, CfgMoves DEF CfgInv, CfgTypes, ApplyPool
  <2>5. CleanInv'
    <3> SUFFICES ASSUME ~disturbed PROVE CleanInv'
      BY DEF CleanInv, ApplyPool
    <3>1. Got(apply[a], cfgModels, cfgOrgs, cfgPools)
      BY DEF CfgInv, CleanInv
    <3>2. Got(r, cfgModels', cfgOrgs', cfgPools')
      BY <3>1, <2>1 DEF Got, ApplyPool
    <3> QED
      BY <3>2, <2>1, <2>2, <2>3, CfgCleanMoves DEF ApplyPool
  <2> QED
    BY <2>4, <2>5 DEF CfgInv
<1> QED
  BY <1>1, <1>2

\* A team or a node of the sub-section is done.
LEMMA SubItemKeeps ==
  ASSUME CfgInv, NEW a \in Appliers, NEW x, CreateTeamOf(a, x) \/ AssignNode(a, x)
  PROVE  CfgInv'
<1>a. apply[a] \in SubRec
  BY CfgRecs DEF CreateTeamOf, AssignNode, CfgInv, CfgTypes
<1> DEFINE r == [apply[a] EXCEPT !.sub = @ \ {x}]
<1>1. /\ r \in SubRec /\ r.sub = apply[a].sub \ {x} /\ r.todo = apply[a].todo /\ r.of = apply[a].of
      /\ r.at = apply[a].at /\ r.cfg = apply[a].cfg /\ r.ok = apply[a].ok
  BY <1>a DEF SubRec
<1>2. apply' = [apply EXCEPT ![a] = r]
  BY DEF CreateTeamOf, AssignNode
<1> HIDE DEF r
<1>3. r \in ApplyRec /\ Fits(r) /\ ~CfgIdle(r) /\ ~CfgIdle(apply[a]) /\ Owed(r) = {}
  BY <1>1, CfgRecs DEF Fits, CfgIdle, CfgInv, CfgTypes, SubRec, Owed
<1>4. CfgTypes' /\ AloneInv'
  BY <1>2, <1>3, CfgMoves DEF CfgInv, CfgTypes, CreateTeamOf, AssignNode
<1>5. CleanInv'
  <2> SUFFICES ASSUME ~disturbed PROVE CleanInv'
    BY DEF CleanInv, CreateTeamOf, AssignNode
  <2>1. Got(apply[a], cfgModels, cfgOrgs, cfgPools)
    BY DEF CfgInv, CleanInv
  <2>2. Got(r, cfgModels', cfgOrgs', cfgPools')
    BY <2>1, <1>1 DEF Got, CreateTeamOf, AssignNode
  <2>3. apply[a].at = "teams" => <<apply[a].of, x>> \in cfgTeams'
    BY <2>1 DEF Got, CreateTeamOf, AssignNode
  <2>4. cfgTeams \subseteq cfgTeams'
    BY DEF CreateTeamOf, AssignNode
  <2> QED
    BY <2>2, <2>3, <2>4, <1>1, <1>2, <1>3, CfgCleanMoves DEF CreateTeamOf, AssignNode
<1> QED
  BY <1>4, <1>5 DEF CfgInv

\* ApplyGoto to another section.
LEMMA CfgGotoKeeps ==
  ASSUME CfgInv, NEW a \in Appliers, NEW at, NEW todo, apply[a] \in SectionRec \cup SubRec,
         at \in {"deployments", "orgs", "pools"}, todo \subseteq CfgItems,
         ApplyGoto(a, at, todo),
         at = "deployments" => apply[a].at = "models" /\ todo = apply[a].add /\ apply[a].todo = {},
         at = "orgs" => todo \subseteq DOMAIN apply[a].cfg.orgs /\
             \/ apply[a].at = "deployments" /\ todo = DOMAIN apply[a].cfg.orgs
             \/ apply[a].at = "teams" /\ todo = apply[a].todo /\ apply[a].sub = {},
         at = "pools" => todo \subseteq DOMAIN apply[a].cfg.pools /\
             \/ apply[a].at = "orgs" /\ apply[a].todo = {} /\ todo = DOMAIN apply[a].cfg.pools
             \/ apply[a].at = "members" /\ todo = apply[a].todo,
         UNCHANGED <<file, cfgRows, overlapped, disturbed, cfgApplied>>
  PROVE  CfgInv'
<1> DEFINE e == apply[a]
           r == [at |-> at, cfg |-> e.cfg, ok |-> e.ok, add |-> e.add, todo |-> todo]
<1>1. /\ r \in SectionRec /\ r.at = at /\ r.cfg = e.cfg /\ r.ok = e.ok /\ r.add = e.add /\ r.todo = todo
  BY DEF SectionRec, SubRec
<1>2. apply' = [apply EXCEPT ![a] = r]
  BY DEF ApplyGoto
<1> HIDE DEF r
<1>u. UNCHANGED <<cfgModels, cfgDeps, cfgOrgs, cfgTeams, cfgPools, cfgMembers>>
  BY DEF cfgRows
<1>3. r \in ApplyRec /\ Fits(r) /\ ~CfgIdle(r) /\ ~CfgIdle(apply[a])
  BY <1>1, CfgRecs DEF Fits, CfgIdle
<1>o. Owed(r) \subseteq Owed(apply[a])
  BY <1>1 DEF Owed
<1>4. CfgTypes' /\ AloneInv'
  BY <1>1, <1>2, <1>3, <1>o, <1>u, CfgMoves DEF CfgInv, CfgTypes
<1>5. CleanInv'
  <2> SUFFICES ASSUME ~disturbed PROVE CleanInv'
    BY DEF CleanInv
  <2>1. Got(apply[a], cfgModels, cfgOrgs, cfgPools)
    BY DEF CfgInv, CleanInv
  <2>2. Got(r, cfgModels', cfgOrgs', cfgPools')
    BY <2>1, <1>1, <1>u DEF Got
  <2>3. apply[a].at = "teams" => apply[a].sub = {}
    OBVIOUS
  <2> QED
    BY <2>2, <2>3, <1>1, <1>2, <1>3, <1>u, CfgCleanMoves
<1> QED
  BY <1>4, <1>5 DEF CfgInv

LEMMA NextSectionKeeps ==
  ASSUME CfgInv, NEW a \in Appliers, NextSection(a)
  PROVE  CfgInv'
<1>0. apply[a] \in ApplyRec /\ Fits(apply[a])
  BY DEF CfgInv, CfgTypes
<1>s. apply[a] \in SectionRec \cup SubRec
  BY <1>0, CfgRecs DEF NextSection
<1>t. apply[a].cfg \in Configs /\ apply[a].add \subseteq CfgEntries /\ apply[a].todo \subseteq CfgItems
  BY <1>s DEF SectionRec, SubRec
<1>d. DOMAIN apply[a].cfg.orgs \subseteq CfgItems /\ DOMAIN apply[a].cfg.pools \subseteq CfgItems
  BY <1>t, ConfigAssumption DEF CfgItems
<1>u. UNCHANGED <<file, cfgRows, overlapped, disturbed>>
  BY DEF NextSection
<1>1. CASE apply[a].at = "models" /\ Left(a) = {} /\ ApplyGoto(a, "deployments", apply[a].add) /\ UNCHANGED <<cfgApplied, missed>>
  BY <1>1, <1>s, <1>t, <1>u, CfgGotoKeeps DEF Left, CfgItems
<1>2. CASE apply[a].at = "deployments" /\ Left(a) = {} /\ ApplyGoto(a, "orgs", DOMAIN apply[a].cfg.orgs) /\ UNCHANGED <<cfgApplied, missed>>
  BY <1>2, <1>s, <1>d, <1>u, CfgGotoKeeps
<1>3. CASE apply[a].at = "teams" /\ apply[a].sub = {} /\ ApplyGoto(a, "orgs", Left(a)) /\ UNCHANGED <<cfgApplied, missed>>
  BY <1>0, <1>3, <1>s, <1>t, <1>u, CfgGotoKeeps DEF Left, Fits
<1>4. CASE apply[a].at = "orgs" /\ Left(a) = {} /\ ApplyGoto(a, "pools", DOMAIN apply[a].cfg.pools) /\ UNCHANGED <<cfgApplied, missed>>
  BY <1>4, <1>s, <1>d, <1>u, CfgGotoKeeps DEF Left
<1>5. CASE apply[a].at = "members" /\ apply[a].sub = {} /\ ApplyGoto(a, "pools", Left(a)) /\ UNCHANGED <<cfgApplied, missed>>
  BY <1>0, <1>5, <1>s, <1>t, <1>u, CfgGotoKeeps DEF Left, Fits
<1>6. CASE /\ apply[a].at = "pools" /\ Left(a) = {}
           /\ apply' = [apply EXCEPT ![a] = ApplyIdle]
           /\ cfgApplied' = IF apply[a].ok THEN cfgApplied \cup {apply[a].cfg} ELSE cfgApplied
  <2>r. ApplyIdle \in ApplyRec /\ Fits(ApplyIdle) /\ CfgIdle(ApplyIdle) /\ Owed(ApplyIdle) = {}
    BY DEF ApplyRec, Fits, CfgIdle, ApplyIdle, Owed
  <2>0. apply'[a] = ApplyIdle /\ \A b \in Appliers : b # a => apply'[b] = apply[b]
    BY <1>6 DEF CfgInv, CfgTypes
  <2>a. cfgApplied' \subseteq Configs
    BY <1>6, <1>t DEF CfgInv, CfgTypes
  <2>v. UNCHANGED <<cfgModels, cfgDeps, cfgOrgs, cfgTeams, cfgPools, cfgMembers>>
    BY <1>u DEF cfgRows
  <2>1. CfgTypes' /\ AloneInv'
    BY <1>6, <1>u, <2>r, <2>a, <2>v, CfgMoves DEF CfgInv, CfgTypes
  <2>2. CleanInv'
    <3> SUFFICES ASSUME ~disturbed PROVE CleanInv'
      BY <1>u DEF CleanInv
    <3>1. Got(apply[a], cfgModels, cfgOrgs, cfgPools) /\ ~CfgIdle(apply[a]) /\ apply[a].ok
      BY <1>6 DEF CfgInv, CleanInv, CfgIdle
    <3>2. Covered(apply[a].cfg, cfgModels, cfgOrgs, cfgPools)
      BY <3>1, <1>6 DEF Got, Covered, Left
    <3>3. cfgApplied' = cfgApplied \cup {apply[a].cfg}
      BY <3>1, <1>6
    <3>4. Begun \subseteq Begun'
      BY <3>3, <2>0 DEF Begun
    <3>5. \A o, t : Adding(o, t) => Adding(o, t)'
      BY <2>0, <1>6 DEF Adding
    <3>6. \A b \in Appliers : Got(apply'[b], cfgModels', cfgOrgs', cfgPools') /\ (~CfgIdle(apply'[b]) => apply'[b].ok)
      <4>1. Got(ApplyIdle, cfgModels', cfgOrgs', cfgPools')
        BY DEF Got, ApplyIdle
      <4> QED
        BY <4>1, <2>0, <2>r, <2>v DEF CfgInv, CleanInv
    <3>7. ASSUME NEW o \in cfgOrgs'
          PROVE  \E d \in Begun' : \A t \in d.orgs[o] : <<o, t>> \in cfgTeams' \/ Adding(o, t)'
      <4>1. PICK d \in Begun : \A t \in d.orgs[o] : <<o, t>> \in cfgTeams \/ Adding(o, t)
        BY <2>v DEF CfgInv, CleanInv
      <4> QED
        BY <4>1, <3>4, <3>5, <2>v
    <3>8. IsFiniteSet(cfgApplied') /\ \A d \in cfgApplied' : Covered(d, cfgModels', cfgOrgs', cfgPools')
      BY FS_AddElement, <3>2, <3>3, <2>v DEF CfgInv, CleanInv
    <3> QED
      BY <3>6, <3>7, <3>8 DEF CleanInv
  <2> QED
    BY <2>1, <2>2 DEF CfgInv
<1> QED
  BY <1>1, <1>2, <1>3, <1>4, <1>5, <1>6 DEF NextSection

\* r is what is left of e after a failure.
Shrunk(r, e) == Fits(r) /\ (CfgIdle(r) \/ (~CfgIdle(e) /\ Owed(r) \subseteq Owed(e) /\ (Owed(r) = {} \/ r.cfg = e.cfg)))

\* Something fails: what was clean ends.
LEMMA CfgFails ==
  ASSUME CfgInv, NEW a \in Appliers, ItemFails(a) \/ ApplyExpires(a)
  PROVE  CfgInv'
<1>0. apply[a] \in ApplyRec /\ Fits(apply[a])
  BY DEF CfgInv, CfgTypes
<1>d. disturbed' /\ disturbed' = TRUE
  BY DEF ItemFails, ApplyExpires
<1>u. UNCHANGED <<file, cfgDeps, overlapped, cfgApplied>>
  BY DEF ItemFails, ApplyExpires, cfgRows
<1>1. \E r \in ApplyRec : apply' = [apply EXCEPT ![a] = r] /\ Shrunk(r, apply[a])
  <2>1. CASE ApplyExpires(a)
    <3>1. ApplyIdle \in ApplyRec /\ Fits(ApplyIdle) /\ CfgIdle(ApplyIdle)
      BY DEF ApplyRec, Fits, CfgIdle, ApplyIdle
    <3> QED
      BY <2>1, <3>1 DEF ApplyExpires, Shrunk
  <2>2. CASE ItemFails(a)
    <3>1. \/ /\ apply[a].at \in {"models", "deployments", "orgs", "pools"}
             /\ \E x \in Left(a) : apply' = [apply EXCEPT ![a].todo = @ \ {x}, ![a].ok = FALSE]
          \/ /\ apply[a].at \in {"teams", "members"}
             /\ \E x \in apply[a].sub : apply' = [apply EXCEPT ![a].sub = @ \ {x}, ![a].ok = FALSE]
      BY <2>2 DEF ItemFails
    <3>2. CASE /\ apply[a].at \in {"models", "deployments", "orgs", "pools"}
               /\ \E x \in Left(a) : apply' = [apply EXCEPT ![a].todo = @ \ {x}, ![a].ok = FALSE]
      <4>1. PICK x \in Left(a) : apply' = [apply EXCEPT ![a].todo = @ \ {x}, ![a].ok = FALSE]
        BY <3>2
      <4> DEFINE s == [apply[a] EXCEPT !.todo = @ \ {x}, !.ok = FALSE]
      <4>s. apply[a] \in SectionRec
        BY <1>0, <3>2, <4>1, CfgRecs
      <4>2. /\ s \in SectionRec /\ s.todo = apply[a].todo \ {x}
            /\ s.at = apply[a].at /\ s.cfg = apply[a].cfg /\ s.add = apply[a].add
        BY <4>s DEF SectionRec
      <4>3. apply' = [apply EXCEPT ![a] = s]
        BY <3>2, <4>1 DEF CfgInv, CfgTypes
      <4> HIDE DEF s
      <4>4. s \in ApplyRec /\ ~CfgIdle(apply[a])
        BY <4>2, <3>2, <4>1, CfgRecs DEF CfgIdle
      <4>5. Fits(s) /\ Owed(s) \subseteq Owed(apply[a])
        BY <4>2, <1>0 DEF Fits, Owed
      <4> QED
        BY <4>2, <4>3, <4>4, <4>5 DEF Shrunk
    <3>3. CASE /\ apply[a].at \in {"teams", "members"}
               /\ \E x \in apply[a].sub : apply' = [apply EXCEPT ![a].sub = @ \ {x}, ![a].ok = FALSE]
      <4>1. PICK x \in apply[a].sub : apply' = [apply EXCEPT ![a].sub = @ \ {x}, ![a].ok = FALSE]
        BY <3>3
      <4> DEFINE s == [apply[a] EXCEPT !.sub = @ \ {x}, !.ok = FALSE]
      <4>s. apply[a] \in SubRec
        BY <1>0, <3>3, <4>1, CfgRecs
      <4>2. /\ s \in SubRec /\ s.todo = apply[a].todo
            /\ s.at = apply[a].at /\ s.cfg = apply[a].cfg
        BY <4>s DEF SubRec
      <4>3. apply' = [apply EXCEPT ![a] = s]
        BY <3>3, <4>1 DEF CfgInv, CfgTypes
      <4> HIDE DEF s
      <4>4. s \in ApplyRec /\ ~CfgIdle(apply[a])
        BY <4>2, <3>3, <4>1, CfgRecs DEF CfgIdle
      <4>5. Fits(s) /\ Owed(s) \subseteq Owed(apply[a])
        BY <4>2, <1>0, <3>3, <4>1 DEF Fits, Owed
      <4> QED
        BY <4>2, <4>3, <4>4, <4>5 DEF Shrunk
    <3> QED
      BY <3>1, <3>2, <3>3
  <2> QED
    BY <2>1, <2>2
<1>2. PICK r \in ApplyRec : apply' = [apply EXCEPT ![a] = r] /\ Shrunk(r, apply[a])
  BY <1>1
<1>3. /\ Fits(r) /\ (CfgIdle(r) \/ ~CfgIdle(apply[a]))
      /\ Owed(r) \subseteq Owed(apply[a]) /\ (Owed(r) = {} \/ r.cfg = apply[a].cfg)
  BY <1>2 DEF CfgIdle, Owed, Shrunk
<1>4. CfgTypes' /\ AloneInv'
  BY <1>2, <1>3, <1>d, <1>u, CfgMoves DEF CfgInv, CfgTypes
<1> QED
  BY <1>4, <1>d DEF CfgInv, CleanInv

LEMMA DeploymentMovesKeeps ==
  ASSUME CfgInv, NEW x \in CfgEntries, DeploymentMoves(x)
  PROVE  CfgInv'
<1>1. /\ cfgDeps' \in [CfgEntries -> [starting: Nat, active: Nat]]
      /\ Running(x, cfgDeps') <= Running(x, cfgDeps) /\ Running(x, cfgDeps) \in Nat /\ Running(x, cfgDeps') \in Nat
      /\ \A n : n # x => Running(n, cfgDeps') = Running(n, cfgDeps)
  <2>0. cfgDeps \in [CfgEntries -> [starting: Nat, active: Nat]] /\ cfgDeps[x].starting > 0
    BY DEF DeploymentMoves, CfgInv, CfgTypes
  <2>1. CASE cfgDeps' = [cfgDeps EXCEPT ![x] = [starting |-> @.starting - 1, active |-> @.active + 1]]
    BY <2>0, <2>1 DEF Running
  <2>2. CASE cfgDeps' = [cfgDeps EXCEPT ![x].starting = @ - 1]
    BY <2>0, <2>2 DEF Running
  <2> QED
    BY <2>1, <2>2 DEF DeploymentMoves
<1>u. UNCHANGED <<file, cfgModels, cfgOrgs, cfgTeams, cfgPools, apply, overlapped, cfgApplied>>
  BY DEF DeploymentMoves
<1>d. disturbed' \in BOOLEAN /\ (~disturbed' => ~disturbed)
  <2>1. disturbed \in BOOLEAN
    BY DEF CfgInv, CfgTypes
  <2>2. disturbed' = disturbed \/ disturbed' = TRUE
    BY DEF DeploymentMoves
  <2> QED
    BY <2>1, <2>2
<1>2. CfgTypes'
  BY <1>1, <1>u, <1>d DEF CfgInv, CfgTypes
<1>3. AloneInv'
  <2> SUFFICES ASSUME ~overlapped PROVE AloneInv'
    BY <1>u DEF AloneInv
  <2>1. \A y \in CfgEntries : Running(y, cfgDeps') <= 1
    BY <1>1 DEF CfgInv, AloneInv
  <2>2. \A m, d : OfOne(m, d, cfgDeps) => OfOne(m, d, cfgDeps')
    BY <1>1 DEF OfOne
  <2>3. ASSUME NEW b \in Appliers PROVE OwedOK(apply'[b], cfgDeps')
    <3>1. OwedOK(apply[b], cfgDeps)
      BY DEF CfgInv, AloneInv
    <3>2. \A y \in Owed(apply[b]) : Running(y, cfgDeps') = 0
      BY <3>1, <1>1 DEF OwedOK
    <3> QED
      BY <3>1, <3>2, <2>2, <1>u DEF OwedOK
  <2>4. \A m \in CfgModels : \E d \in Configs : OfOne(m, d, cfgDeps')
    BY <2>2 DEF CfgInv, AloneInv
  <2> QED
    BY <2>1, <2>3, <2>4, <1>u DEF CfgInv, AloneInv
<1>4. Begun' = Begun /\ \A o, t : Adding(o, t)' = Adding(o, t)
  BY <1>u DEF Begun, Adding
<1>5. CleanInv'
  BY <1>u, <1>d, <1>4 DEF CfgInv, CleanInv
<1> QED
  BY <1>2, <1>3, <1>5 DEF CfgInv

LEMMA OrgDeletedKeeps ==
  ASSUME CfgInv, NEW o \in CfgOrgs, OrgDeleted(o)
  PROVE  CfgInv'
<1>u. UNCHANGED <<file, cfgDeps, overlapped>> /\ disturbed' = TRUE /\ cfgApplied' = {}
  BY DEF OrgDeleted
<1>1. ASSUME NEW a \in Appliers
      PROVE  /\ apply'[a] \in ApplyRec /\ Fits(apply'[a])
             /\ CfgIdle(apply[a]) => CfgIdle(apply'[a])
             /\ Owed(apply'[a]) = Owed(apply[a]) /\ (Owed(apply[a]) = {} \/ apply'[a].cfg = apply[a].cfg)
  <2>0. apply[a] \in ApplyRec /\ Fits(apply[a])
    BY DEF CfgInv, CfgTypes
  <2>1. CASE apply[a] = ApplyIdle
    <3>1. apply'[a] = apply[a]
      BY <2>1 DEF OrgDeleted
    <3> QED
      BY <2>0, <3>1
  <2>2. CASE apply[a] # ApplyIdle
    <3> DEFINE r == [apply[a] EXCEPT !.ok = FALSE]
    <3>1. apply'[a] = r
      BY <2>2 DEF OrgDeleted
    <3>2. ~CfgIdle(apply[a])
      BY <2>0, <2>2, CfgRecs
    <3>3. CASE apply[a].at = "diff"
      <4>1. r \in ApplyRec /\ r.at = "diff"
        BY <2>0, <3>3 DEF ApplyRec
      <4> HIDE DEF r
      <4> QED
        BY <3>1, <3>2, <3>3, <4>1 DEF Fits, Owed
    <3>4. CASE apply[a] \in SectionRec
      <4>1. /\ r \in SectionRec /\ r.todo = apply[a].todo
            /\ r.at = apply[a].at /\ r.cfg = apply[a].cfg /\ r.add = apply[a].add
        BY <3>4 DEF SectionRec
      <4> HIDE DEF r
      <4> QED
        BY <2>0, <3>1, <3>2, <4>1, CfgRecs DEF Fits, Owed
    <3>5. CASE apply[a] \in SubRec
      <4>1. /\ r \in SubRec /\ r.todo = apply[a].todo
            /\ r.at = apply[a].at /\ r.cfg = apply[a].cfg /\ r.add = apply[a].add
        BY <3>5 DEF SubRec
      <4> HIDE DEF r
      <4> QED
        BY <2>0, <3>1, <3>2, <4>1, CfgRecs DEF Fits, Owed
    <3> QED
      BY <2>0, <3>2, <3>3, <3>4, <3>5 DEF ApplyRec, SectionRec, SubRec, CfgIdle
  <2> QED
    BY <2>1, <2>2
<1>2. CfgTypes'
  <2>1. apply' \in [Appliers -> ApplyRec]
    BY <1>1 DEF OrgDeleted
  <2> QED
    BY <1>u, <1>1, <2>1 DEF CfgInv, CfgTypes
<1>3. AloneInv'
  <2>1. cfgDeps' = cfgDeps
    BY <1>u
  <2>2. ASSUME NEW a \in Appliers, OwedOK(apply[a], cfgDeps) PROVE OwedOK(apply'[a], cfgDeps')
    BY <1>1, <2>1, <2>2 DEF OwedOK
  <2> QED
    BY <1>1, <1>u, <2>1, <2>2 DEF CfgInv, AloneInv
<1> QED
  BY <1>2, <1>3, <1>u DEF CfgInv, CleanInv

LEMMA RestartConfigKeeps == ASSUME CfgInv, RestartConfig PROVE CfgInv'
<1>r. ApplyIdle \in ApplyRec /\ Fits(ApplyIdle) /\ CfgIdle(ApplyIdle) /\ Owed(ApplyIdle) = {}
  BY DEF ApplyRec, Fits, CfgIdle, ApplyIdle, Owed
<1>1. \A a \in Appliers : apply'[a] = ApplyIdle
  BY DEF RestartConfig
<1>u. UNCHANGED <<file, cfgModels, cfgDeps, cfgOrgs, cfgTeams, cfgPools, cfgMembers, overlapped, cfgApplied>>
  BY DEF RestartConfig, cfgRows
<1>d. disturbed' = (disturbed \/ \E a \in Appliers : apply[a] # ApplyIdle)
  BY DEF RestartConfig
<1>2. CfgTypes'
  <2>1. apply' \in [Appliers -> ApplyRec]
    BY <1>r DEF RestartConfig
  <2>2. disturbed' \in BOOLEAN
    BY <1>d DEF CfgInv, CfgTypes
  <2> QED
    BY <1>1, <1>r, <1>u, <2>1, <2>2 DEF CfgInv, CfgTypes
<1>3. AloneInv'
  <2>1. cfgDeps' = cfgDeps
    BY <1>u
  <2>2. \A a \in Appliers : OwedOK(apply'[a], cfgDeps')
    BY <1>1, <1>r DEF OwedOK
  <2> QED
    BY <1>1, <1>r, <1>u, <2>1, <2>2 DEF CfgInv, AloneInv
<1>4. CleanInv'
  <2> SUFFICES ASSUME ~disturbed' PROVE CleanInv'
    BY DEF CleanInv
  <2>1. ~disturbed /\ \A a \in Appliers : apply[a] = ApplyIdle
    BY <1>d
  <2>2. Begun' = Begun /\ \A o, t : Adding(o, t)' = Adding(o, t)
    BY <2>1, <1>1, <1>u DEF Begun, Adding
  <2> QED
    BY <2>1, <2>2, <1>1, <1>u DEF CfgInv, CleanInv
<1> QED
  BY <1>2, <1>3, <1>4 DEF CfgInv

LEMMA CfgNextKeeps == CfgInv /\ [ConfigNext]_cfgVars => CfgInv'
<1> SUFFICES ASSUME CfgInv, [ConfigNext]_cfgVars PROVE CfgInv'
  OBVIOUS
<1>w. WatcherApply \in Appliers /\ HttpApplies \subseteq Appliers /\ file \in Configs
  BY DEF Appliers, CfgInv, CfgTypes
<1>i. CfgIdle(ApplyIdle)
  BY DEF CfgIdle, ApplyIdle
<1>1. ASSUME NEW a \in HttpApplies, NEW c \in Configs, handleConfigApply(a, c) PROVE CfgInv'
  BY <1>1, <1>w, <1>i, CfgBegins DEF handleConfigApply
<1>2. CASE Check
  BY <1>2, <1>w, <1>i, CfgBegins DEF Check
<1>3. ASSUME NEW a \in Appliers, ApplyStep(a) PROVE CfgInv'
  BY <1>3, CfgDiffKeeps, NextSectionKeeps, CfgFails, ApplyModelKeeps, DeployModelKeeps,
     ApplyOrgKeeps, SubItemKeeps, ApplyPoolKeeps DEF ApplyStep
<1>4. ASSUME NEW a \in Appliers, ApplyExpires(a) PROVE CfgInv'
  BY <1>4, CfgFails
<1>5. ASSUME NEW c \in Configs, EditFile(c) PROVE CfgInv'
  BY <1>5, CfgRests DEF EditFile
<1>6. CASE UNCHANGED cfgVars
  BY <1>6, <1>w, CfgRests DEF cfgVars
<1> QED
  BY <1>1, <1>2, <1>3, <1>4, <1>5, <1>6, RestartConfigKeeps, DeploymentMovesKeeps, OrgDeletedKeeps DEF ConfigNext

LEMMA CfgInvSafe == CfgInv => CleanApplyDeclares /\ DeployedOnce
<1> SUFFICES ASSUME CfgInv PROVE CleanApplyDeclares /\ DeployedOnce
  OBVIOUS
<1>1. DeployedOnce
  BY DEF CfgInv, AloneInv, DeployedOnce, OfOne, Running, Live
<1>2. ASSUME ~disturbed, \A a \in Appliers : apply[a] = ApplyIdle, NEW c \in cfgApplied,
             Cardinality(cfgApplied) = 1
      PROVE  Declared(c)
  <2>i. CfgIdle(ApplyIdle) /\ ApplyIdle.at # "teams"
    BY DEF CfgIdle, ApplyIdle
  <2>1. Covered(c, cfgModels, cfgOrgs, cfgPools)
    BY <1>2 DEF CfgInv, CleanInv
  <2>2. cfgApplied = {c}
    <3>1. IsFiniteSet(cfgApplied)
      BY <1>2 DEF CfgInv, CleanInv
    <3>2. \E x : cfgApplied = {x}
      BY <1>2, <3>1, FS_Singleton
    <3> QED
      BY <1>2, <3>2
  <2>3. Begun = {c}
    BY <1>2, <2>2, <2>i DEF Begun
  <2>4. ASSUME NEW o \in cfgOrgs, NEW t \in c.orgs[o] PROVE <<o, t>> \in cfgTeams
    BY <1>2, <2>3, <2>i, <2>4 DEF CfgInv, CleanInv, Adding
  <2> QED
    BY <2>1, <2>4 DEF Covered, Declared
<1> QED
  BY <1>1, <1>2 DEF CleanApplyDeclares

\* A declared configuration is registered as declared, whatever applies overlap, and applies
\* that do not overlap deploy no entry of a list twice and never add to the deployments of a
\* model that another content's apply made (ApplyClusterConfig, Diff,
\* registryLister.CurrentDeploymentModelIDs).
THEOREM OperationsConfig == OperationsSpec => []ClusterConfig_DeclaredOnce
<1>1. OperationsInit => (part = "config" => CfgInv)
  BY CfgInitKeeps DEF OperationsInit
<1>2. part = "config" /\ [OperationsNext]_operationsVars => [ConfigNext]_cfgVars
  BY DEF OperationsNext, operationsVars
<1>3. [OperationsNext]_operationsVars => part' = part
  BY DEF OperationsNext, operationsVars
<1>4. (part = "config" => CfgInv) /\ [OperationsNext]_operationsVars => (part = "config" => CfgInv)'
  BY <1>2, <1>3, CfgNextKeeps
<1>5. (part = "config" => CfgInv) => ClusterConfig_DeclaredOnce
  BY CfgInvSafe DEF ClusterConfig_DeclaredOnce
<1> QED
  BY <1>1, <1>4, <1>5, PTL DEF OperationsSpec
-----------------------------------------------------------------------------
(***************************************************************************)
(* The replicated registry.  st is what the log does to an empty store:    *)
(* st[i] holds the rows after its first i entries.  A member that is       *)
(* replaying has rows that are neither st[applied] nor st[reached]; what   *)
(* makes the replay converge is that wherever its rows differ from         *)
(* st[reached], an entry that repairs the difference is still to come.     *)
(***************************************************************************)
DbRow == [body : Bodies, flag : BOOLEAN]
DbType == [Tables -> [RowIds -> DbRow \cup {NoDbRow}]]
JournalOps == {"usage", "audit", "reserved"}

\* The command is about row k of table t; it makes it, removes it, or writes the column.
Touches(c, t, k) == c.op \notin JournalOps /\ c.t = t /\ c.k = k
Makes(c, t, k) == Touches(c, t, k) /\ c.op \in {"create", "upsert"}
Removes(c, t, k) == Touches(c, t, k) /\ c.op = "delete"
WritesBody(c, t, k) == Touches(c, t, k) /\ c.op \in {"update", "upsert", "delete"}
WritesFlag(c, t, k) == Touches(c, t, k) /\ c.op \in {"update", "upsert", "delete", "setState", "revoke"}

\* What a command does to a row, in the terms above.
RowAfter(d, e, c, t, k) ==
    /\ ~Touches(c, t, k) => e[t][k] = d[t][k]
    /\ Removes(c, t, k) => e[t][k] = NoDbRow
    /\ Exists(d, t, k) /\ ~Removes(c, t, k) => Exists(e, t, k)
    /\ Exists(d, t, k) /\ ~WritesBody(c, t, k) => e[t][k].body = d[t][k].body
    /\ Exists(d, t, k) /\ ~WritesFlag(c, t, k) => e[t][k].flag = d[t][k].flag
    /\ ~Exists(d, t, k) /\ ~Makes(c, t, k) => ~Exists(e, t, k)
    /\ Makes(c, t, k) /\ ~Exists(d, t, k) /\ ~HashTaken(d, t) => Exists(e, t, k)
    /\ Touches(c, t, k) /\ ~Exists(d, t, k) /\ HashTaken(d, t) /\ c.op # "upsert" => ~Exists(e, t, k)

LEMMA CommandFacts ==
    ASSUME NEW c \in Command
    PROVE  /\ c.op \in {"create", "update", "delete", "upsert", "setState", "revoke"} \cup JournalOps
           /\ c.op \notin JournalOps => c.t \in Tables /\ c.k \in RowIds
           /\ c.op \in {"create", "update"} => c.body \in Bodies /\ c.flag \in BOOLEAN
           /\ c.op = "upsert" => c.body \in Bodies /\ c.t = "link"
           /\ c.op = "setState" => c.flag \in BOOLEAN /\ c.t = "deployment"
           /\ c.op = "revoke" => c.t = "key"
  BY DEF Command, JournalOps

LEMMA PutRow ==
    ASSUME NEW d \in DbType, NEW t \in Tables, NEW k \in RowIds, NEW x \in DbRow \cup {NoDbRow}
    PROVE  /\ [d EXCEPT ![t][k] = x] \in DbType
           /\ [d EXCEPT ![t][k] = x][t][k] = x
           /\ \A u \in Tables, j \in RowIds : u # t \/ j # k => [d EXCEPT ![t][k] = x][u][j] = d[u][j]
  BY DEF DbType

LEMMA PutFlag ==
    ASSUME NEW d \in DbType, NEW t \in Tables, NEW k \in RowIds, Exists(d, t, k), NEW f, f \in BOOLEAN
    PROVE  /\ [d EXCEPT ![t][k].flag = f] \in DbType
           /\ [d EXCEPT ![t][k].flag = f][t][k].body = d[t][k].body
           /\ [d EXCEPT ![t][k].flag = f][t][k].flag = f
           /\ [d EXCEPT ![t][k].flag = f][t][k] # NoDbRow
           /\ \A u \in Tables, j \in RowIds : u # t \/ j # k => [d EXCEPT ![t][k].flag = f][u][j] = d[u][j]
  <1>1. d[t][k] \in DbRow
    BY DEF DbType, Exists
  <1>2. [d[t][k] EXCEPT !.flag = f] = [body |-> d[t][k].body, flag |-> f]
    BY <1>1 DEF DbRow
  <1>3. [body |-> d[t][k].body, flag |-> f] \in DbRow
    BY <1>1 DEF DbRow
  <1>4. NoDbRow \notin DbRow
    BY RaftAssumption DEF DbRow
  <1> QED
    BY <1>2, <1>3, <1>4 DEF DbType

LEMMA RowsTyped ==
    ASSUME NEW d \in DbType, NEW c \in Command
    PROVE  ApplyRows(d, c) \in DbType
  <1>1. CASE c.op \in {"create", "update"}
    <2>1. [body |-> c.body, flag |-> c.flag] \in DbRow
      BY <1>1, CommandFacts DEF DbRow
    <2> QED
      BY <1>1, <2>1, CommandFacts, PutRow DEF ApplyRows, CreateRow, UpdateRow, JournalOps
  <1>2. CASE c.op = "upsert"
    <2>1. [body |-> c.body, flag |-> TRUE] \in DbRow
      BY <1>2, CommandFacts DEF DbRow
    <2> QED
      BY <1>2, <2>1, CommandFacts, PutRow DEF ApplyRows, UpsertRow, JournalOps
  <1>3. CASE c.op = "delete"
    BY <1>3, CommandFacts, PutRow DEF ApplyRows, DeleteRow, JournalOps
  <1>4. CASE c.op = "setState"
    <2>1. "deployment" \in Tables /\ c.k \in RowIds /\ c.flag \in BOOLEAN
      BY <1>4, CommandFacts DEF JournalOps
    <2>2. SetState(d, c.k, c.flag) \in DbType
      BY <2>1, PutFlag DEF SetState
    <2> QED
      BY <1>4, <2>2 DEF ApplyRows
  <1>5. CASE c.op = "revoke"
    <2>1. "key" \in Tables /\ c.k \in RowIds
      BY <1>5, CommandFacts DEF JournalOps
    <2>2. RevokeKey(d, c.k) \in DbType
      BY <2>1, PutFlag DEF RevokeKey
    <2> QED
      BY <1>5, <2>2 DEF ApplyRows
  <1>6. CASE c.op \in JournalOps
    BY <1>6 DEF ApplyRows, JournalOps
  <1> QED
    BY <1>1, <1>2, <1>3, <1>4, <1>5, <1>6, CommandFacts

\* A command on each row of a store.
LEMMA RowStep ==
    ASSUME NEW d \in DbType, NEW c \in Command, NEW t \in Tables, NEW k \in RowIds
    PROVE  RowAfter(d, ApplyRows(d, c), c, t, k)
  <1> SUFFICES ASSUME NEW e, e = ApplyRows(d, c) PROVE RowAfter(d, e, c, t, k)
    OBVIOUS
  <1>0. NoDbRow \notin DbRow
    BY RaftAssumption DEF DbRow
  <1>1. CASE c.op \in {"create", "update"}
    <2>1. [body |-> c.body, flag |-> c.flag] \in DbRow
      BY <1>1, CommandFacts DEF DbRow
    <2>2. c.t \in Tables /\ c.k \in RowIds
      BY <1>1, CommandFacts DEF JournalOps
    <2>3. e = d \/ e = [d EXCEPT ![c.t][c.k] = [body |-> c.body, flag |-> c.flag]]
      BY <1>1 DEF ApplyRows, CreateRow, UpdateRow
    <2>4. ~Touches(c, t, k) => e[t][k] = d[t][k]
      <3>1. ~(c.t = t /\ c.k = k) => [d EXCEPT ![c.t][c.k] = [body |-> c.body, flag |-> c.flag]][t][k] = d[t][k]
        BY <2>1, <2>2, PutRow
      <3> QED
        BY <1>1, <2>3, <3>1 DEF Touches, JournalOps
    <2>5. CASE Touches(c, t, k)
      <3>1. c.t = t /\ c.k = k
        BY <2>5 DEF Touches
      <3>2. CASE c.op = "create"
        <4>1. CASE Exists(d, t, k) \/ HashTaken(d, t)
          <5>1. e = d
            BY <3>1, <3>2, <4>1 DEF ApplyRows, CreateRow
          <5> QED
            BY <3>2, <4>1, <5>1, <2>5 DEF RowAfter, Removes, WritesBody, WritesFlag, Makes, Exists
        <4>2. CASE ~Exists(d, t, k) /\ ~HashTaken(d, t)
          <5>1. e = [d EXCEPT ![t][k] = [body |-> c.body, flag |-> c.flag]]
            BY <3>1, <3>2, <4>2 DEF ApplyRows, CreateRow
          <5>2. e[t][k] = [body |-> c.body, flag |-> c.flag]
            BY <2>1, <5>1, PutRow
          <5> QED
            BY <1>0, <2>1, <3>2, <4>2, <5>2, <2>5 DEF RowAfter, Removes, WritesBody, WritesFlag, Makes, Exists
        <4> QED
          BY <4>1, <4>2
      <3>3. CASE c.op = "update"
        <4>1. ~Exists(d, t, k) => e = d
          BY <3>1, <3>3 DEF ApplyRows, UpdateRow
        <4>2. Exists(d, t, k) => e[t][k] = [body |-> c.body, flag |-> c.flag]
          BY <2>1, <3>1, <3>3, PutRow DEF ApplyRows, UpdateRow
        <4> QED
          BY <1>0, <2>1, <3>3, <4>1, <4>2, <2>5 DEF RowAfter, Removes, WritesBody, WritesFlag, Makes, Exists
      <3> QED
        BY <1>1, <3>2, <3>3
    <2>6. CASE ~Touches(c, t, k)
      <3> QED
        BY <2>4, <2>6 DEF RowAfter, Removes, WritesBody, WritesFlag, Makes, Exists
    <2> QED
      BY <2>5, <2>6
  <1>2. CASE c.op \in {"upsert", "delete"}
    <2> DEFINE x == IF c.op = "upsert" THEN [body |-> c.body, flag |-> TRUE] ELSE NoDbRow
    <2>1. c.t \in Tables /\ c.k \in RowIds /\ x \in DbRow \cup {NoDbRow} /\ (c.op = "upsert" => x \in DbRow /\ c.t = "link")
      BY <1>2, CommandFacts DEF JournalOps, DbRow
    <2>2. e = [d EXCEPT ![c.t][c.k] = x]
      BY <1>2 DEF ApplyRows, UpsertRow, DeleteRow
    <2>4. ~Touches(c, t, k) => e[t][k] = d[t][k]
      <3> HIDE DEF x
      <3> QED
        BY <1>2, <2>1, <2>2, PutRow DEF Touches, JournalOps
    <2>5. Touches(c, t, k) => e[t][k] = x
      <3> HIDE DEF x
      <3> QED
        BY <2>1, <2>2, PutRow DEF Touches
    <2>6. c.op = "delete" => x = NoDbRow
      OBVIOUS
    <2> HIDE DEF x
    <2> QED
      BY <1>0, <1>2, <2>1, <2>4, <2>5, <2>6 DEF RowAfter, Removes, WritesBody, WritesFlag, Makes, Exists, HashTaken, Touches
  <1>3. CASE c.op = "setState"
    <2>1. "deployment" \in Tables /\ c.k \in RowIds /\ c.t = "deployment" /\ c.flag \in BOOLEAN
      BY <1>3, CommandFacts DEF JournalOps
    <2>2. e = SetState(d, c.k, c.flag)
      BY <1>3 DEF ApplyRows
    <2>3. CASE Exists(d, "deployment", c.k)
      <3>1. e = [d EXCEPT !["deployment"][c.k].flag = c.flag]
        BY <2>2, <2>3 DEF SetState
      <3>2. e["deployment"][c.k].body = d["deployment"][c.k].body /\ e["deployment"][c.k] # NoDbRow
        BY <2>1, <2>3, <3>1, PutFlag
      <3>3. \A u \in Tables, i \in RowIds : u # "deployment" \/ i # c.k => e[u][i] = d[u][i]
        BY <2>1, <2>3, <3>1, PutFlag
      <3> QED
        BY <1>3, <2>1, <2>3, <3>2, <3>3 DEF RowAfter, Removes, WritesBody, WritesFlag, Makes, Exists, Touches, JournalOps
    <2>4. CASE ~Exists(d, "deployment", c.k)
      <3>1. e = d
        BY <2>2, <2>4 DEF SetState
      <3> QED
        BY <1>3, <2>1, <2>4, <3>1 DEF RowAfter, Removes, WritesBody, WritesFlag, Makes, Exists, Touches, JournalOps
    <2> QED
      BY <2>3, <2>4
  <1>4. CASE c.op = "revoke"
    <2>1. "key" \in Tables /\ c.k \in RowIds /\ c.t = "key"
      BY <1>4, CommandFacts DEF JournalOps
    <2>2. e = RevokeKey(d, c.k)
      BY <1>4 DEF ApplyRows
    <2>3. CASE Exists(d, "key", c.k)
      <3>1. e = [d EXCEPT !["key"][c.k].flag = FALSE]
        BY <2>2, <2>3 DEF RevokeKey
      <3>a. d["key"][c.k] \in DbRow
        BY <2>1, <2>3 DEF DbType, Exists
      <3>b. e["key"][c.k] = [d["key"][c.k] EXCEPT !.flag = FALSE]
        BY <2>1, <3>1 DEF DbType
      <3>c. e["key"][c.k] = [body |-> d["key"][c.k].body, flag |-> FALSE]
        BY <3>a, <3>b DEF DbRow
      <3>d. e["key"][c.k].body = d["key"][c.k].body /\ e["key"][c.k] \in DbRow
        BY <3>a, <3>c DEF DbRow
      <3>2. e["key"][c.k].body = d["key"][c.k].body /\ e["key"][c.k] # NoDbRow
        BY <1>0, <3>d
      <3>3. \A u \in Tables, i \in RowIds : u # "key" \/ i # c.k => e[u][i] = d[u][i]
        BY <2>1, <2>3, <3>1, PutFlag
      <3> QED
        BY <1>4, <2>1, <2>3, <3>2, <3>3 DEF RowAfter, Removes, WritesBody, WritesFlag, Makes, Exists, Touches, JournalOps
    <2>4. CASE ~Exists(d, "key", c.k)
      <3>1. e = d
        BY <2>2, <2>4 DEF RevokeKey
      <3> QED
        BY <1>4, <2>1, <2>4, <3>1 DEF RowAfter, Removes, WritesBody, WritesFlag, Makes, Exists, Touches, JournalOps
    <2> QED
      BY <2>3, <2>4
  <1>5. CASE c.op \in JournalOps
    <2>1. e = d
      BY <1>5 DEF ApplyRows, JournalOps
    <2> QED
      BY <1>5, <2>1 DEF RowAfter, Removes, WritesBody, WritesFlag, Makes, Exists, Touches, JournalOps
  <1> QED
    BY <1>1, <1>2, <1>3, <1>4, <1>5, CommandFacts

\* What it writes to a row does not depend on the store.
LEMMA SameWritten ==
    ASSUME NEW d \in DbType, NEW dd \in DbType, NEW c \in Command, NEW t \in Tables, NEW k \in RowIds,
           Touches(c, t, k), Exists(ApplyRows(d, c), t, k), Exists(ApplyRows(dd, c), t, k)
    PROVE  /\ c.op \in {"update", "upsert"} => ApplyRows(d, c)[t][k] = ApplyRows(dd, c)[t][k]
           /\ c.op = "create" /\ ~Exists(d, t, k) /\ ~Exists(dd, t, k) => ApplyRows(d, c)[t][k] = ApplyRows(dd, c)[t][k]
           /\ c.op \in {"setState", "revoke"} => ApplyRows(d, c)[t][k].flag = ApplyRows(dd, c)[t][k].flag
  <1>1. c.t = t /\ c.k = k
    BY DEF Touches
  <1>2. ASSUME NEW z \in DbType, Exists(ApplyRows(z, c), t, k), c.op \in {"update", "upsert"}
        PROVE  ApplyRows(z, c)[t][k] = IF c.op = "update" THEN [body |-> c.body, flag |-> c.flag] ELSE [body |-> c.body, flag |-> TRUE]
    <2>1. c.body \in Bodies /\ (c.op = "update" => c.flag \in BOOLEAN)
      BY <1>2, CommandFacts
    <2> DEFINE x == IF c.op = "update" THEN [body |-> c.body, flag |-> c.flag] ELSE [body |-> c.body, flag |-> TRUE]
    <2>2. x \in DbRow
      BY <1>2, <2>1 DEF DbRow
    <2>3. ApplyRows(z, c) = z \/ ApplyRows(z, c) = [z EXCEPT ![t][k] = x]
      BY <1>1, <1>2 DEF ApplyRows, UpdateRow, UpsertRow
    <2>4. ApplyRows(z, c) = z /\ c.op = "update" => ~Exists(z, t, k) \/ ApplyRows(z, c) = [z EXCEPT ![t][k] = x]
      BY <1>1, <1>2 DEF ApplyRows, UpdateRow
    <2>5. c.op = "upsert" => ApplyRows(z, c) = [z EXCEPT ![t][k] = x]
      BY <1>1, <1>2 DEF ApplyRows, UpsertRow
    <2>6. ApplyRows(z, c) = [z EXCEPT ![t][k] = x]
      BY <1>2, <2>3, <2>4, <2>5
    <2> HIDE DEF x
    <2>7. ApplyRows(z, c)[t][k] = x
      BY <2>2, <2>6, PutRow
    <2> QED
      BY <2>7 DEF x
  <1>3. ASSUME NEW z \in DbType, Exists(ApplyRows(z, c), t, k), c.op = "create", ~Exists(z, t, k)
        PROVE  ApplyRows(z, c)[t][k] = [body |-> c.body, flag |-> c.flag]
    <2>1. [body |-> c.body, flag |-> c.flag] \in DbRow
      BY <1>3, CommandFacts DEF DbRow
    <2>2. ApplyRows(z, c) = [z EXCEPT ![t][k] = [body |-> c.body, flag |-> c.flag]]
      BY <1>1, <1>3 DEF ApplyRows, CreateRow
    <2> QED
      BY <2>1, <2>2, PutRow
  <1>4. ASSUME NEW z \in DbType, Exists(ApplyRows(z, c), t, k), c.op = "setState"
        PROVE  ApplyRows(z, c)[t][k].flag = c.flag
    <2>1. c.flag \in BOOLEAN /\ t = "deployment"
      BY <1>1, <1>4, CommandFacts
    <2>2. ApplyRows(z, c) = SetState(z, k, c.flag)
      BY <1>1, <1>4 DEF ApplyRows
    <2>3. Exists(z, "deployment", k)
      BY <1>4, <2>1, <2>2 DEF SetState
    <2>4. ApplyRows(z, c) = [z EXCEPT !["deployment"][k].flag = c.flag]
      BY <2>2, <2>3 DEF SetState
    <2>5. z["deployment"][k] \in DbRow
      BY <2>1, <2>3 DEF DbType, Exists
    <2>6. ApplyRows(z, c)[t][k] = [z["deployment"][k] EXCEPT !.flag = c.flag]
      BY <2>1, <2>4 DEF DbType
    <2> QED
      BY <2>5, <2>6 DEF DbRow
  <1>5. ASSUME NEW z \in DbType, Exists(ApplyRows(z, c), t, k), c.op = "revoke"
        PROVE  ApplyRows(z, c)[t][k].flag = FALSE
    <2>1. t = "key"
      BY <1>1, <1>5, CommandFacts
    <2>2. ApplyRows(z, c) = RevokeKey(z, k)
      BY <1>1, <1>5 DEF ApplyRows
    <2>3. Exists(z, "key", k)
      BY <1>5, <2>1, <2>2 DEF RevokeKey
    <2>4. ApplyRows(z, c) = [z EXCEPT !["key"][k].flag = FALSE]
      BY <2>2, <2>3 DEF RevokeKey
    <2>5. z["key"][k] \in DbRow
      BY <2>1, <2>3 DEF DbType, Exists
    <2>6. ApplyRows(z, c)[t][k] = [z["key"][k] EXCEPT !.flag = FALSE]
      <3>1. ASSUME NEW y, y = ApplyRows(z, c) PROVE y["key"][k] = [z["key"][k] EXCEPT !.flag = FALSE]
        <4>1. "key" \in Tables /\ y = [z EXCEPT !["key"][k].flag = FALSE]
          BY <2>1, <2>4, <3>1
        <4> QED
          BY <4>1 DEF DbType
      <3> QED
        BY <2>1, <3>1
    <2> QED
      BY <2>5, <2>6 DEF DbRow
  <1>6. c.op \in {"update", "upsert"} => ApplyRows(d, c)[t][k] = ApplyRows(dd, c)[t][k]
    BY <1>2
  <1>7. c.op = "create" /\ ~Exists(d, t, k) /\ ~Exists(dd, t, k) => ApplyRows(d, c)[t][k] = ApplyRows(dd, c)[t][k]
    BY <1>3
  <1>8. c.op = "setState" => ApplyRows(d, c)[t][k].flag = ApplyRows(dd, c)[t][k].flag
    BY <1>4
  <1>9. c.op = "revoke" => ApplyRows(d, c)[t][k].flag = ApplyRows(dd, c)[t][k].flag
    BY <1>5
  <1> QED
    BY <1>6, <1>7, <1>8, <1>9

-----------------------------------------------------------------------------
\* Where row k of x differs from that of y, one of the entries a+1 .. m is about it.
Mends(log, a, m, x, y, t, k) ==
    /\ Exists(x, t, k) /\ ~Exists(y, t, k) => \E p \in (a + 1)..m : Removes(log[p], t, k)
    /\ ~Exists(x, t, k) /\ Exists(y, t, k) => \E p \in (a + 1)..m : Makes(log[p], t, k)
    /\ Exists(x, t, k) /\ Exists(y, t, k) =>
         /\ x[t][k].body = y[t][k].body \/ \E p \in (a + 1)..m : WritesBody(log[p], t, k)
         /\ x[t][k].flag = y[t][k].flag \/ \E p \in (a + 1)..m : WritesFlag(log[p], t, k)

OneKey(d) == "key" \in Tables =>
    \A j, k \in RowIds : Exists(d, "key", j) /\ Exists(d, "key", k) => j = k

\* st is what log does to an empty store.
StoreOf(st, log) ==
    /\ st \in [0..Len(log) -> DbType] /\ st[0] = Empty
    /\ \A i \in 1..Len(log) : st[i] = ApplyRows(st[i - 1], log[i])
    /\ \A i \in 0..Len(log) : OneKey(st[i])
    /\ \A i, m \in 0..Len(log) : i <= m =>
         \A t \in Tables, k \in RowIds : Mends(log, i, m, st[i], st[m], t, k)

\* The store refused none of the first m entries.
Accepted(st, log, m) == \A i \in 1..m : ~Refuses(st[i - 1], log[i])

LEMMA EmptyStore == Empty \in DbType /\ OneKey(Empty) /\ \A t \in Tables, k \in RowIds : ~Exists(Empty, t, k)
  BY DEF Empty, DbType, OneKey, Exists

LEMMA OneKeyStep ==
    ASSUME NEW d \in DbType, NEW c \in Command, OneKey(d)
    PROVE  OneKey(ApplyRows(d, c))
  <1> SUFFICES ASSUME "key" \in Tables, NEW j \in RowIds, NEW k \in RowIds, NEW e, e = ApplyRows(d, c),
                      Exists(e, "key", j), Exists(e, "key", k), j # k
               PROVE  FALSE
    BY DEF OneKey
  <1>1. RowAfter(d, e, c, "key", j) /\ RowAfter(d, e, c, "key", k)
    BY RowStep
  <1>2. ~(Exists(d, "key", j) /\ Exists(d, "key", k))
    BY DEF OneKey
  <1>3. ASSUME NEW i \in RowIds, NEW l \in RowIds, i # l, ~Exists(d, "key", i), Exists(e, "key", i), Exists(e, "key", l),
               RowAfter(d, e, c, "key", i), RowAfter(d, e, c, "key", l)
        PROVE  FALSE
    <2>1. Makes(c, "key", i)
      BY <1>3 DEF RowAfter
    <2>2. ~Touches(c, "key", l) /\ c.op # "upsert"
      BY <1>3, <2>1, CommandFacts DEF Makes, Touches
    <2>3. Exists(d, "key", l)
      BY <1>3, <2>2 DEF RowAfter, Exists
    <2>4. HashTaken(d, "key")
      BY <2>3 DEF HashTaken
    <2> QED
      BY <1>3, <2>1, <2>2, <2>4 DEF RowAfter, Makes
  <1> QED
    BY <1>1, <1>2, <1>3

\* One entry more at the end.
LEMMA MendsExtend ==
    ASSUME NEW log, NEW c, NEW i \in Nat, NEW n \in Nat, i <= n, NEW w, w[n + 1] = c,
           \A p \in 1..n : w[p] = log[p],
           NEW x, NEW y, NEW z, NEW t, NEW k, Mends(log, i, n, x, y, t, k), RowAfter(y, z, c, t, k)
    PROVE  Mends(w, i, n + 1, x, z, t, k)
  <1>1. ASSUME NEW p \in (i + 1)..n PROVE p \in (i + 1)..(n + 1) /\ w[p] = log[p]
    OBVIOUS
  <1>2. n + 1 \in (i + 1)..(n + 1)
    OBVIOUS
  <1>3. ASSUME Exists(x, t, k), ~Exists(z, t, k) PROVE \E p \in (i + 1)..(n + 1) : Removes(w[p], t, k)
    <2>1. CASE Exists(y, t, k)
      BY <1>2, <1>3, <2>1 DEF RowAfter
    <2>2. CASE ~Exists(y, t, k)
      BY <1>1, <1>3, <2>2 DEF Mends
    <2> QED
      BY <2>1, <2>2
  <1>4. ASSUME ~Exists(x, t, k), Exists(z, t, k) PROVE \E p \in (i + 1)..(n + 1) : Makes(w[p], t, k)
    <2>1. CASE ~Exists(y, t, k)
      BY <1>2, <1>4, <2>1 DEF RowAfter
    <2>2. CASE Exists(y, t, k)
      BY <1>1, <1>4, <2>2 DEF Mends
    <2> QED
      BY <2>1, <2>2
  <1>5. ASSUME Exists(x, t, k), Exists(z, t, k)
        PROVE  /\ x[t][k].body = z[t][k].body \/ \E p \in (i + 1)..(n + 1) : WritesBody(w[p], t, k)
               /\ x[t][k].flag = z[t][k].flag \/ \E p \in (i + 1)..(n + 1) : WritesFlag(w[p], t, k)
    <2>1. CASE ~Exists(y, t, k)
      <3>1. PICK p \in (i + 1)..n : Removes(log[p], t, k)
        BY <1>5, <2>1 DEF Mends
      <3>2. WritesBody(w[p], t, k) /\ WritesFlag(w[p], t, k)
        BY <1>1, <3>1 DEF Removes, WritesBody, WritesFlag
      <3> QED
        BY <1>1, <3>2
    <2>2. CASE Exists(y, t, k)
      <3>1. x[t][k].body = z[t][k].body \/ \E p \in (i + 1)..(n + 1) : WritesBody(w[p], t, k)
        <4>1. x[t][k].body = y[t][k].body \/ \E p \in (i + 1)..n : WritesBody(log[p], t, k)
          BY <1>5, <2>2 DEF Mends
        <4>2. z[t][k].body = y[t][k].body \/ WritesBody(c, t, k)
          BY <2>2 DEF RowAfter
        <4> QED
          BY <1>1, <1>2, <4>1, <4>2
      <3>2. x[t][k].flag = z[t][k].flag \/ \E p \in (i + 1)..(n + 1) : WritesFlag(w[p], t, k)
        <4>1. x[t][k].flag = y[t][k].flag \/ \E p \in (i + 1)..n : WritesFlag(log[p], t, k)
          BY <1>5, <2>2 DEF Mends
        <4>2. z[t][k].flag = y[t][k].flag \/ WritesFlag(c, t, k)
          BY <2>2 DEF RowAfter
        <4> QED
          BY <1>1, <1>2, <4>1, <4>2
      <3> QED
        BY <3>1, <3>2
    <2> QED
      BY <2>1, <2>2
  <1> QED
    BY <1>3, <1>4, <1>5 DEF Mends

LEMMA MendsSelf ==
    ASSUME NEW log, NEW i, NEW x, NEW t, NEW k PROVE Mends(log, i, i, x, x, t, k)
  BY DEF Mends

\* The history of a log that has got one entry more.
LEMMA StoreExtend ==
    ASSUME NEW log \in Seq(Command), NEW c \in Command, NEW st, StoreOf(st, log)
    PROVE  \E s : StoreOf(s, Append(log, c)) /\ \A i \in 0..Len(log) : s[i] = st[i]
  <1> DEFINE n == Len(log)
             w == Append(log, c)
             s == [i \in 0..(n + 1) |-> IF i <= n THEN st[i] ELSE ApplyRows(st[n], c)]
  <1>1. n \in Nat /\ Len(w) = n + 1 /\ w[n + 1] = c /\ \A p \in 1..n : w[p] = log[p]
    OBVIOUS
  <1>2. st[n] \in DbType /\ OneKey(st[n])
    BY <1>1 DEF StoreOf
  <1>3. s \in [0..(n + 1) -> DbType] /\ s[0] = Empty /\ s[n + 1] = ApplyRows(st[n], c) /\ \A i \in 0..n : s[i] = st[i]
    BY <1>1, <1>2, RowsTyped DEF StoreOf
  <1> HIDE DEF n, w, s
  <1>4. \A i \in 1..(n + 1) : s[i] = ApplyRows(s[i - 1], w[i])
    <2> SUFFICES ASSUME NEW i \in 1..(n + 1) PROVE s[i] = ApplyRows(s[i - 1], w[i])
      OBVIOUS
    <2>1. CASE i = n + 1
      BY <1>1, <1>3, <2>1
    <2>2. CASE i \in 1..n
      <3>1. st[i] = ApplyRows(st[i - 1], log[i])
        BY <2>2 DEF StoreOf, n
      <3>2. i - 1 \in 0..n /\ i \in 0..n
        BY <1>1, <2>2
      <3> QED
        BY <1>1, <1>3, <2>2, <3>1, <3>2
    <2> QED
      BY <1>1, <2>1, <2>2
  <1>5. \A i \in 0..(n + 1) : OneKey(s[i])
    <2>1. \A i \in 0..n : OneKey(s[i])
      BY <1>3 DEF StoreOf, n
    <2>2. OneKey(s[n + 1])
      BY <1>2, <1>3, OneKeyStep
    <2> QED
      BY <1>1, <2>1, <2>2
  <1>6. ASSUME NEW i \in 0..(n + 1), NEW m \in 0..(n + 1), i <= m, NEW t \in Tables, NEW k \in RowIds
        PROVE  Mends(w, i, m, s[i], s[m], t, k)
    <2>1. CASE m \in 0..n
      <3>1. i \in 0..n /\ Mends(log, i, m, st[i], st[m], t, k)
        BY <1>1, <1>6, <2>1 DEF StoreOf, n
      <3>2. \A p \in (i + 1)..m : w[p] = log[p]
        BY <1>1, <1>6, <2>1
      <3> QED
        BY <1>3, <2>1, <3>1, <3>2 DEF Mends
    <2>2. CASE m = n + 1 /\ i \in 0..n
      <3>1. Mends(log, i, n, st[i], st[n], t, k)
        BY <1>1, <2>2 DEF StoreOf, n
      <3>2. RowAfter(st[n], s[n + 1], c, t, k)
        BY <1>2, <1>3, RowStep
      <3>3. Mends(w, i, n + 1, st[i], s[n + 1], t, k)
        <4>1. i \in Nat /\ i <= n
          BY <1>1, <2>2
        <4> QED
          BY <1>1, <3>1, <3>2, <4>1, MendsExtend
      <3> QED
        BY <1>3, <2>2, <3>3
    <2>3. CASE m = n + 1 /\ i = n + 1
      BY <2>3, MendsSelf
    <2> QED
      BY <1>1, <1>6, <2>1, <2>2, <2>3
  <1>7. StoreOf(s, w)
    <2>1. Len(w) = n + 1
      BY <1>1
    <2> QED
      BY <1>3, <1>4, <1>5, <1>6, <2>1 DEF StoreOf
  <1>8. StoreOf(s, Append(log, c)) /\ \A i \in 0..Len(log) : s[i] = st[i]
    BY <1>3, <1>7 DEF n, w
  <1> QED
    BY <1>8

\* An entry that the log's own store took makes its row there, and finds the row it removes.
LEMMA AcceptedRow ==
    ASSUME NEW s \in DbType, NEW c \in Command, ~Refuses(s, c), NEW t \in Tables, NEW k \in RowIds
    PROVE  /\ Makes(c, t, k) => Exists(ApplyRows(s, c), t, k)
           /\ Makes(c, t, k) /\ c.op = "create" => ~Exists(s, t, k)
           /\ Removes(c, t, k) => Exists(s, t, k)
           /\ Touches(c, t, k) /\ c.op \in {"update", "setState", "revoke"} => Exists(ApplyRows(s, c), t, k)
  <1>1. RowAfter(s, ApplyRows(s, c), c, t, k)
    BY RowStep
  <1>2. Touches(c, t, k) /\ c.op = "create" => ~Exists(s, t, k) /\ ~HashTaken(s, t)
    BY DEF Refuses, Touches
  <1>3. Touches(c, t, k) /\ c.op = "upsert" => ~HashTaken(s, t)
    BY CommandFacts DEF HashTaken, Touches
  <1>4. Touches(c, t, k) /\ c.op \in {"update", "setState", "revoke", "delete"} => Exists(s, t, k)
    BY DEF Refuses, Touches
  <1>5. Makes(c, t, k) => Exists(ApplyRows(s, c), t, k)
    BY <1>1, <1>2, <1>3 DEF RowAfter, Makes, Removes
  <1>6. Touches(c, t, k) /\ c.op \in {"update", "setState", "revoke"} => Exists(ApplyRows(s, c), t, k)
    BY <1>1, <1>4 DEF RowAfter, Removes
  <1> QED
    BY <1>2, <1>4, <1>5, <1>6 DEF Makes, Removes

\* Applying the next entry again leaves every difference with an entry that repairs it.
LEMMA MendStep ==
    ASSUME NEW log \in Seq(Command), NEW st, StoreOf(st, log), NEW m \in 1..Len(log), Accepted(st, log, m),
           NEW a \in 0..(m - 1), NEW d \in DbType,
           \A t \in Tables, k \in RowIds : Mends(log, a, m, d, st[m], t, k)
    PROVE  \A t \in Tables, k \in RowIds : Mends(log, a + 1, m, ApplyRows(d, log[a + 1]), st[m], t, k)
  <1> SUFFICES ASSUME NEW t \in Tables, NEW k \in RowIds, NEW c, c = log[a + 1], NEW e, e = ApplyRows(d, c),
                      NEW s, s = st[a], NEW u, u = st[a + 1], NEW y, y = st[m]
               PROVE  Mends(log, a + 1, m, e, y, t, k)
    OBVIOUS
  <1>1. /\ a \in 0..Len(log) /\ a + 1 \in 1..Len(log) /\ a + 1 \in 0..Len(log) /\ a + 1 \in 1..m /\ (a + 1) - 1 = a
        /\ m \in 0..Len(log) /\ a + 1 <= m
    OBVIOUS
  <1>2. c \in Command /\ s \in DbType /\ y \in DbType /\ OneKey(y) /\ u = ApplyRows(s, c)
    <2>1. c \in Command
      BY <1>1
    <2>2. s \in DbType /\ y \in DbType /\ OneKey(y)
      BY <1>1 DEF StoreOf
    <2>3. st[a + 1] = ApplyRows(st[(a + 1) - 1], log[a + 1])
      BY <1>1 DEF StoreOf
    <2>4. u = ApplyRows(s, c)
      BY <1>1, <2>3
    <2> QED
      BY <2>1, <2>2, <2>4
  <1>3. ~Refuses(s, c)
    BY <1>1 DEF Accepted
  <1>4. RowAfter(d, e, c, t, k) /\ RowAfter(s, u, c, t, k)
    BY <1>2, RowStep
  <1>5. Mends(log, a + 1, m, u, y, t, k)
    BY <1>1 DEF StoreOf
  <1>6. Mends(log, a, m, d, y, t, k)
    OBVIOUS
  <1>7. ASSUME NEW p \in (a + 1)..m, p # a + 1 PROVE p \in ((a + 1) + 1)..m
    BY <1>7
  <1>8. /\ Makes(c, t, k) => Exists(u, t, k)
        /\ Makes(c, t, k) /\ c.op = "create" => ~Exists(s, t, k)
        /\ Touches(c, t, k) /\ c.op \in {"update", "setState", "revoke"} => Exists(u, t, k)
    BY <1>2, <1>3, AcceptedRow
  <1>9. ASSUME Exists(e, t, k), ~Exists(y, t, k)
        PROVE  \E p \in ((a + 1) + 1)..m : Removes(log[p], t, k)
    <2>1. CASE Exists(d, t, k)
      <3>1. PICK p \in (a + 1)..m : Removes(log[p], t, k)
        BY <1>6, <1>9, <2>1 DEF Mends
      <3>2. p # a + 1
        BY <1>4, <1>9, <3>1 DEF RowAfter, Exists
      <3> QED
        BY <1>7, <3>1, <3>2
    <2>2. CASE ~Exists(d, t, k)
      <3>1. Makes(c, t, k)
        BY <1>4, <1>9, <2>2 DEF RowAfter
      <3> QED
        BY <1>5, <1>8, <1>9, <3>1 DEF Mends
    <2> QED
      BY <2>1, <2>2
  <1>10. ASSUME ~Exists(e, t, k), Exists(y, t, k)
         PROVE  \E p \in ((a + 1) + 1)..m : Makes(log[p], t, k)
    <2>1. CASE Exists(d, t, k)
      <3>1. Removes(c, t, k)
        BY <1>4, <1>10, <2>1 DEF RowAfter
      <3>2. ~Exists(u, t, k)
        BY <1>4, <3>1 DEF RowAfter, Exists
      <3> QED
        BY <1>5, <1>10, <3>2 DEF Mends
    <2>2. CASE ~Exists(d, t, k)
      <3>1. PICK p \in (a + 1)..m : Makes(log[p], t, k)
        BY <1>6, <1>10, <2>2 DEF Mends
      <3>2. CASE p # a + 1
        BY <1>7, <3>1, <3>2
      <3>3. CASE p = a + 1
        <4>1. Makes(c, t, k)
          BY <3>1, <3>3
        <4>2. HashTaken(d, t)
          BY <1>4, <1>10, <2>2, <4>1 DEF RowAfter
        <4>3. PICK j \in RowIds : Exists(d, t, j)
          BY <4>2 DEF HashTaken
        <4>4. t = "key" /\ j # k
          BY <2>2, <4>2, <4>3 DEF HashTaken
        <4>5. ~Exists(y, t, j)
          BY <1>2, <1>10, <4>4 DEF OneKey
        <4>6. Mends(log, a, m, d, y, t, j)
          OBVIOUS
        <4>7. PICK q \in (a + 1)..m : Removes(log[q], t, j)
          BY <4>3, <4>5, <4>6 DEF Mends
        <4>8. q # a + 1
          BY <4>1, <4>7 DEF Makes, Removes
        <4>9. /\ q \in ((a + 1) + 1)..m /\ q \in 1..Len(log) /\ q \in 1..m /\ q - 1 \in 0..Len(log) /\ q - 1 <= m
              /\ (q - 1) + 1 = q
          BY <4>8
        <4>10. st[q - 1] \in DbType /\ OneKey(st[q - 1]) /\ log[q] \in Command /\ ~Refuses(st[q - 1], log[q])
          BY <4>9 DEF StoreOf, Accepted
        <4>11. Exists(st[q - 1], t, j)
          BY <4>7, <4>10, AcceptedRow
        <4>12. ~Exists(st[q - 1], t, k)
          BY <4>4, <4>10, <4>11 DEF OneKey
        <4>13. Mends(log, q - 1, m, st[q - 1], st[m], t, k)
          BY <1>1, <4>9 DEF StoreOf
        <4>14. PICK r \in q..m : Makes(log[r], t, k)
          BY <1>10, <4>9, <4>12, <4>13 DEF Mends
        <4>15. r \in ((a + 1) + 1)..m
          BY <4>9
        <4> QED
          BY <4>14, <4>15
      <3> QED
        BY <3>2, <3>3
    <2> QED
      BY <2>1, <2>2
  <1>11. ASSUME Exists(e, t, k), Exists(y, t, k)
         PROVE  e[t][k].body = y[t][k].body \/ \E p \in ((a + 1) + 1)..m : WritesBody(log[p], t, k)
    <2>1. ASSUME Exists(u, t, k), e[t][k] = u[t][k]
          PROVE  e[t][k].body = y[t][k].body \/ \E p \in ((a + 1) + 1)..m : WritesBody(log[p], t, k)
      BY <1>5, <1>11, <2>1 DEF Mends
    <2>2. CASE Exists(d, t, k) /\ ~WritesBody(c, t, k)
      <3>1. e[t][k].body = d[t][k].body
        BY <1>4, <2>2 DEF RowAfter
      <3>2. CASE d[t][k].body = y[t][k].body
        BY <3>1, <3>2
      <3>3. CASE d[t][k].body # y[t][k].body
        <4>1. PICK p \in (a + 1)..m : WritesBody(log[p], t, k)
          BY <1>6, <1>11, <2>2, <3>3 DEF Mends
        <4>2. p # a + 1
          BY <2>2, <4>1
        <4> QED
          BY <1>7, <4>1, <4>2
      <3> QED
        BY <3>2, <3>3
    <2>3. CASE Exists(d, t, k) /\ WritesBody(c, t, k)
      <3>1. Touches(c, t, k) /\ c.op \in {"update", "upsert"}
        BY <1>4, <1>11, <2>3 DEF WritesBody, RowAfter, Removes, Exists
      <3>2. Exists(u, t, k)
        BY <1>8, <3>1 DEF Makes
      <3>3. e[t][k] = u[t][k]
        BY <1>2, <1>11, <3>1, <3>2, SameWritten
      <3> QED
        BY <2>1, <3>2, <3>3
    <2>4. CASE ~Exists(d, t, k)
      <3>1. Makes(c, t, k)
        BY <1>4, <1>11, <2>4 DEF RowAfter
      <3>2. Exists(u, t, k) /\ Touches(c, t, k) /\ c.op \in {"create", "upsert"} /\ (c.op = "create" => ~Exists(s, t, k))
        BY <1>8, <3>1 DEF Makes
      <3>3. e[t][k] = u[t][k]
        BY <1>2, <1>11, <2>4, <3>2, SameWritten
      <3> QED
        BY <2>1, <3>2, <3>3
    <2> QED
      BY <2>2, <2>3, <2>4
  <1>12. ASSUME Exists(e, t, k), Exists(y, t, k)
         PROVE  e[t][k].flag = y[t][k].flag \/ \E p \in ((a + 1) + 1)..m : WritesFlag(log[p], t, k)
    <2>1. ASSUME Exists(u, t, k), e[t][k].flag = u[t][k].flag
          PROVE  e[t][k].flag = y[t][k].flag \/ \E p \in ((a + 1) + 1)..m : WritesFlag(log[p], t, k)
      BY <1>5, <1>12, <2>1 DEF Mends
    <2>2. CASE Exists(d, t, k) /\ ~WritesFlag(c, t, k)
      <3>1. e[t][k].flag = d[t][k].flag
        BY <1>4, <2>2 DEF RowAfter
      <3>2. CASE d[t][k].flag = y[t][k].flag
        BY <3>1, <3>2
      <3>3. CASE d[t][k].flag # y[t][k].flag
        <4>1. PICK p \in (a + 1)..m : WritesFlag(log[p], t, k)
          BY <1>6, <1>12, <2>2, <3>3 DEF Mends
        <4>2. p # a + 1
          BY <2>2, <4>1
        <4> QED
          BY <1>7, <4>1, <4>2
      <3> QED
        BY <3>2, <3>3
    <2>3. CASE Exists(d, t, k) /\ WritesFlag(c, t, k)
      <3>1. Touches(c, t, k) /\ c.op \in {"update", "upsert", "setState", "revoke"}
        BY <1>4, <1>12, <2>3 DEF WritesFlag, RowAfter, Removes, Exists
      <3>2. Exists(u, t, k)
        BY <1>8, <3>1 DEF Makes
      <3>3. e[t][k].flag = u[t][k].flag
        BY <1>2, <1>12, <3>1, <3>2, SameWritten
      <3> QED
        BY <2>1, <3>2, <3>3
    <2>4. CASE ~Exists(d, t, k)
      <3>1. Makes(c, t, k)
        BY <1>4, <1>12, <2>4 DEF RowAfter
      <3>2. Exists(u, t, k) /\ Touches(c, t, k) /\ c.op \in {"create", "upsert"} /\ (c.op = "create" => ~Exists(s, t, k))
        BY <1>8, <3>1 DEF Makes
      <3>3. e[t][k] = u[t][k]
        BY <1>2, <1>12, <2>4, <3>2, SameWritten
      <3> QED
        BY <2>1, <3>2, <3>3
    <2> QED
      BY <2>2, <2>3, <2>4
  <1> QED
    BY <1>9, <1>10, <1>11, <1>12 DEF Mends

\* With no entry left, no difference is left.
LEMMA MendsEnd ==
    ASSUME NEW log, NEW m \in Nat, NEW d \in DbType, NEW y \in DbType,
           \A t \in Tables, k \in RowIds : Mends(log, m, m, d, y, t, k)
    PROVE  d = y
  <1>1. ASSUME NEW t \in Tables, NEW k \in RowIds PROVE d[t][k] = y[t][k]
    <2>1. Mends(log, m, m, d, y, t, k) /\ (m + 1)..m = {}
      OBVIOUS
    <2>2. (Exists(d, t, k) <=> Exists(y, t, k))
          /\ (Exists(d, t, k) => d[t][k].body = y[t][k].body /\ d[t][k].flag = y[t][k].flag)
      BY <2>1 DEF Mends
    <2>3. d[t][k] \in DbRow \cup {NoDbRow} /\ y[t][k] \in DbRow \cup {NoDbRow}
      BY DEF DbType
    <2>4. ASSUME Exists(d, t, k) PROVE d[t][k] = y[t][k]
      <3>1. d[t][k] \in DbRow /\ y[t][k] \in DbRow
        BY <2>2, <2>3, <2>4 DEF Exists
      <3> QED
        BY <2>2, <2>4, <3>1 DEF DbRow
    <2> QED
      BY <2>2, <2>4 DEF Exists
  <1>2. ASSUME NEW t \in Tables PROVE d[t] = y[t]
    BY <1>1 DEF DbType
  <1> QED
    BY <1>2 DEF DbType

-----------------------------------------------------------------------------
\* How often a value occurs among the first entries of a sequence.
Count(f, n, op) == Cardinality({i \in 1..n : f[i] = op})

LEMMA CountNext ==
    ASSUME NEW f, NEW n \in Nat, NEW op
    PROVE  Count(f, n, op) \in Nat /\ Count(f, n + 1, op) = Count(f, n, op) + (IF f[n + 1] = op THEN 1 ELSE 0)
  <1> DEFINE A == {i \in 1..n : f[i] = op}
             B == {i \in 1..(n + 1) : f[i] = op}
  <1>1. IsFiniteSet(A)
    <2>1. IsFiniteSet(1..n)
      BY FS_Interval
    <2> QED
      BY <2>1, FS_Subset
  <1>2. B = IF f[n + 1] = op THEN A \cup {n + 1} ELSE A
    OBVIOUS
  <1>3. n + 1 \notin A
    OBVIOUS
  <1> HIDE DEF A, B
  <1>4. Cardinality(A) \in Nat
    BY <1>1, FS_CardinalityType
  <1>5. Cardinality(A \cup {n + 1}) = Cardinality(A) + 1
    BY <1>1, <1>3, FS_AddElement
  <1>6. Cardinality(A) \in Nat /\ Cardinality(B) = Cardinality(A) + (IF f[n + 1] = op THEN 1 ELSE 0)
    BY <1>2, <1>4, <1>5
  <1> QED
    BY <1>6 DEF A, B, Count

-----------------------------------------------------------------------------
RaftTypeOK ==
    /\ rlog \in Seq(Command)
    /\ db \in [Members -> DbType]
    /\ journal \in [Members -> Seq({"usage", "audit"})]
    /\ applied \in [Members -> Nat] /\ snapAt \in [Members -> Nat] /\ reached \in [Members -> Nat]
    /\ skipped \in [Members -> BOOLEAN]
    /\ \A r \in Members : snapAt[r] <= applied[r] /\ applied[r] <= reached[r] /\ reached[r] <= Len(rlog)

\* A member that never skipped an entry, and none of whose entries was refused.
InStep(r) == ~skipped[r] /\ refused \cap (1..reached[r]) = {}

\* Its rows differ from the log's own only where an entry it has still to replay repairs them.
Replaying(st, r) ==
    /\ Accepted(st, rlog, reached[r])
    /\ \A t \in Tables, k \in RowIds : Mends(rlog, applied[r], reached[r], db[r], st[reached[r]], t, k)

RaftInv ==
    /\ RaftTypeOK
    /\ \E st : StoreOf(st, rlog) /\ \A r \in Members : InStep(r) => Replaying(st, r)
    /\ JournalAtLeastOnce

LEMMA RaftStart == RaftInit => RaftInv
  <1> SUFFICES ASSUME RaftInit PROVE RaftInv
    OBVIOUS
  <1> USE DEF RaftInit
  <1>1. RaftTypeOK
    BY EmptyStore DEF RaftTypeOK
  <1> DEFINE st == [i \in {0} |-> Empty]
  <1>2. Len(rlog) = 0 /\ 0..0 = {0} /\ 1..0 = {}
    OBVIOUS
  <1>3. StoreOf(st, rlog)
    <2>1. st \in [0..Len(rlog) -> DbType] /\ st[0] = Empty
      BY <1>2, EmptyStore
    <2>2. \A i \in 0..Len(rlog) : OneKey(st[i])
      BY <1>2, EmptyStore
    <2>3. ASSUME NEW i \in 0..Len(rlog), NEW m \in 0..Len(rlog), NEW t \in Tables, NEW k \in RowIds
          PROVE  Mends(rlog, i, m, st[i], st[m], t, k)
      BY <1>2, <2>3, MendsSelf
    <2> QED
      BY <1>2, <2>1, <2>2, <2>3 DEF StoreOf
  <1>4. ASSUME NEW r \in Members PROVE Replaying(st, r)
    <2>1. applied[r] = 0 /\ reached[r] = 0 /\ db[r] = Empty /\ st[0] = Empty
      OBVIOUS
    <2>2. \A t \in Tables, k \in RowIds : Mends(rlog, 0, 0, Empty, Empty, t, k)
      BY MendsSelf
    <2>3. Accepted(st, rlog, 0)
      BY <1>2 DEF Accepted
    <2> QED
      BY <2>1, <2>2, <2>3 DEF Replaying
  <1>5. JournalAtLeastOnce
    <2> SUFFICES ASSUME NEW r \in Members, NEW op \in {"usage", "audit"} PROVE Recorded(r, op) >= InLog(op, reached[r])
      BY DEF JournalAtLeastOnce
    <2>1. {i \in DOMAIN journal[r] : journal[r][i] = op} = {} /\ {i \in 1..reached[r] : rlog[i].op = op} = {}
      OBVIOUS
    <2>2. Cardinality({}) = 0
      BY FS_EmptySet
    <2> QED
      BY <2>1, <2>2 DEF Recorded, InLog
  <1> QED
    BY <1>1, <1>3, <1>4, <1>5 DEF RaftInv

LEMMA RaftTypeStep ==
    ASSUME RaftTypeOK, RaftNext
    PROVE  RaftTypeOK'
  <1> USE DEF RaftTypeOK
  <1>1. ASSUME NEW c \in Command, Propose(c) PROVE RaftTypeOK'
    <2>1. rlog' \in Seq(Command) /\ Len(rlog') = Len(rlog) + 1
      BY <1>1 DEF Propose
    <2> QED
      BY <1>1, <2>1 DEF Propose
  <1>2. ASSUME NEW r \in Members, ApplyEntry(r) PROVE RaftTypeOK'
    <2> DEFINE c == rlog[applied[r] + 1]
    <2>1. c \in Command /\ rlog' = rlog /\ snapAt' = snapAt /\ skipped' = skipped
      BY <1>2 DEF ApplyEntry
    <2>2. db' = [db EXCEPT ![r] = ApplyRows(db[r], c)] /\ journal' = [journal EXCEPT ![r] = ApplyJournal(journal[r], c)]
      BY <1>2 DEF ApplyEntry
    <2>3. ApplyRows(db[r], c) \in DbType
      BY <2>1, RowsTyped
    <2>4. ApplyJournal(journal[r], c) \in Seq({"usage", "audit"})
      BY DEF ApplyJournal
    <2>5. applied' \in [Members -> Nat] /\ reached' \in [Members -> Nat]
      BY <1>2 DEF ApplyEntry
    <2>6. \A q \in Members : snapAt'[q] <= applied'[q] /\ applied'[q] <= reached'[q] /\ reached'[q] <= Len(rlog')
      BY <1>2, <2>1 DEF ApplyEntry
    <2> HIDE DEF c
    <2>7. db' \in [Members -> DbType] /\ journal' \in [Members -> Seq({"usage", "audit"})]
      BY <2>2, <2>3, <2>4
    <2> QED
      BY <2>1, <2>5, <2>6, <2>7
  <1>3. ASSUME NEW r \in Members, TakeSnapshot(r) PROVE RaftTypeOK'
    BY <1>3 DEF TakeSnapshot
  <1>4. ASSUME NEW r \in Members, NewNode(r) PROVE RaftTypeOK'
    BY <1>4 DEF NewNode
  <1>5. ASSUME NEW r \in Members, NEW q \in Members, Restore(r, q) PROVE RaftTypeOK'
    BY <1>5 DEF Restore
  <1> QED
    BY <1>1, <1>2, <1>3, <1>4, <1>5 DEF RaftNext

\* A longer log: what a member has reached is as it was.
LEMMA LongerLog ==
    ASSUME RaftTypeOK, NEW c \in Command, NEW st, NEW s, NEW r \in Members, NEW w, w = Append(rlog, c),
           \A i \in 0..Len(rlog) : s[i] = st[i], Replaying(st, r)
    PROVE  /\ Accepted(s, w, reached[r])
           /\ \A t \in Tables, k \in RowIds : Mends(w, applied[r], reached[r], db[r], s[reached[r]], t, k)
  <1>1. /\ Len(rlog) \in Nat /\ applied[r] \in Nat /\ reached[r] \in Nat /\ applied[r] <= reached[r]
        /\ reached[r] <= Len(rlog) /\ rlog \in Seq(Command)
    BY DEF RaftTypeOK
  <1>2. \A p \in 1..reached[r] : w[p] = rlog[p] /\ p \in 0..Len(rlog) /\ p - 1 \in 0..Len(rlog)
    BY <1>1
  <1>3. Accepted(s, w, reached[r])
    BY <1>2 DEF Accepted, Replaying
  <1>4. \A p \in (applied[r] + 1)..reached[r] : p \in 1..reached[r]
    BY <1>1
  <1>5. s[reached[r]] = st[reached[r]]
    BY <1>1
  <1>6. ASSUME NEW t \in Tables, NEW k \in RowIds
        PROVE  Mends(w, applied[r], reached[r], db[r], s[reached[r]], t, k)
    <2>1. Mends(rlog, applied[r], reached[r], db[r], st[reached[r]], t, k)
      BY DEF Replaying
    <2> QED
      BY <1>2, <1>4, <1>5, <2>1 DEF Mends
  <1> QED
    BY <1>3, <1>6

\* The member that applies an entry.
LEMMA ReplayStep ==
    ASSUME RaftTypeOK, NEW r \in Members, ApplyEntry(r), NEW st, StoreOf(st, rlog),
           InStep(r) => Replaying(st, r), InStep(r)'
    PROVE  /\ Accepted(st, rlog, reached'[r])
           /\ \A t \in Tables, k \in RowIds : Mends(rlog, applied'[r], reached'[r], db'[r], st[reached'[r]], t, k)
  <1> DEFINE a == applied[r]
             m == reached[r]
             c == rlog[a + 1]
  <1>1. a \in Nat /\ m \in Nat /\ a <= m /\ m <= Len(rlog) /\ a < Len(rlog) /\ Len(rlog) \in Nat /\ c \in Command
        /\ db[r] \in DbType /\ rlog \in Seq(Command)
    BY DEF RaftTypeOK, ApplyEntry
  <1>2. applied'[r] = a + 1 /\ db'[r] = ApplyRows(db[r], c) /\ reached'[r] = IF a + 1 > m THEN a + 1 ELSE m
    BY DEF RaftTypeOK, ApplyEntry
  <1>3. refused \subseteq refused' /\ skipped' = skipped
    BY DEF ApplyEntry
  <1>4. (a = m /\ Refuses(db[r], c)) => (a + 1) \in refused'
    BY DEF ApplyEntry
  <1> HIDE DEF a, m, c
  <1>5. m <= reached'[r] /\ reached'[r] \in Nat
    BY <1>1, <1>2
  <1>6. 1..m \subseteq 1..(reached'[r])
    BY <1>1, <1>5
  <1>7. InStep(r)
    BY <1>3, <1>6 DEF InStep, m
  <1>8. Accepted(st, rlog, m) /\ \A t \in Tables, k \in RowIds : Mends(rlog, a, m, db[r], st[m], t, k)
    BY <1>7 DEF Replaying, a, m
  <1>9. CASE a < m
    <2>1. reached'[r] = m /\ m \in 1..Len(rlog) /\ a \in 0..(m - 1)
      BY <1>1, <1>2, <1>9
    <2>2. \A t \in Tables, k \in RowIds : Mends(rlog, a + 1, m, ApplyRows(db[r], rlog[a + 1]), st[m], t, k)
      BY <1>1, <1>8, <2>1, MendStep
    <2> QED
      BY <1>2, <1>8, <2>1, <2>2 DEF c
  <1>10. CASE a = m
    <2>1. reached'[r] = m + 1 /\ m + 1 \in 1..Len(rlog) /\ m \in 0..Len(rlog) /\ (m + 1) - 1 = m
      BY <1>1, <1>2, <1>10
    <2>2. st[m] \in DbType /\ st[m + 1] = ApplyRows(st[m], rlog[m + 1])
      BY <2>1 DEF StoreOf
    <2>3. db[r] = st[m]
      BY <1>1, <1>8, <1>10, <2>2, MendsEnd
    <2>4. m + 1 \in 1..(reached'[r])
      BY <1>1, <2>1
    <2>5. m + 1 \notin refused'
      BY <2>4 DEF InStep
    <2>6. ~Refuses(st[m], rlog[m + 1])
      BY <1>4, <1>10, <2>3, <2>5 DEF c
    <2>7. \A i \in 1..(m + 1) : i \in 1..m \/ i = m + 1
      BY <1>1
    <2>8. Accepted(st, rlog, m + 1)
      BY <1>8, <2>1, <2>6, <2>7 DEF Accepted
    <2>9. db'[r] = st[m + 1]
      BY <1>2, <1>10, <2>2, <2>3 DEF c
    <2>10. \A t \in Tables, k \in RowIds : Mends(rlog, m + 1, m + 1, st[m + 1], st[m + 1], t, k)
      BY MendsSelf
    <2> QED
      BY <1>2, <1>10, <2>1, <2>8, <2>9, <2>10
  <1> QED
    BY <1>1, <1>9, <1>10

\* What the log holds up to n depends on its first n entries only, and grows with n by what is there.
LEMMA InLogNext ==
    ASSUME RaftTypeOK, NEW n \in Nat, n < Len(rlog), NEW op
    PROVE  InLog(op, n) \in Nat /\ InLog(op, n + 1) = InLog(op, n) + (IF rlog[n + 1].op = op THEN 1 ELSE 0)
  <1> DEFINE f == [i \in 1..Len(rlog) |-> rlog[i].op]
  <1>1. Len(rlog) \in Nat
    BY DEF RaftTypeOK
  <1>2. Count(f, n, op) = InLog(op, n) /\ Count(f, n + 1, op) = InLog(op, n + 1) /\ f[n + 1] = rlog[n + 1].op
    <2>1. /\ {i \in 1..n : f[i] = op} = {i \in 1..n : rlog[i].op = op}
          /\ {i \in 1..(n + 1) : f[i] = op} = {i \in 1..(n + 1) : rlog[i].op = op}
          /\ f[n + 1] = rlog[n + 1].op
      BY <1>1
    <2> QED
      BY <2>1 DEF Count, InLog
  <1> HIDE DEF f
  <1>3. Count(f, n, op) \in Nat /\ Count(f, n + 1, op) = Count(f, n, op) + (IF f[n + 1] = op THEN 1 ELSE 0)
    BY CountNext
  <1> QED
    BY <1>2, <1>3

\* What an entry adds to a member's append-only tables.
LEMMA JournalNext ==
    ASSUME NEW j \in Seq({"usage", "audit"}), NEW c \in Command, NEW op \in {"usage", "audit"}, NEW e, e = ApplyJournal(j, c)
    PROVE  /\ Count(j, Len(j), op) \in Nat
           /\ Count(e, Len(e), op) = Count(j, Len(j), op) + (IF c.op = op THEN 1 ELSE 0)
  <1>1. Len(j) \in Nat
    OBVIOUS
  <1>2. Count(j, Len(j), op) \in Nat
    BY <1>1, CountNext
  <1>3. CASE c.op \in {"usage", "audit"}
    <2>1. e = Append(j, c.op) /\ Len(e) = Len(j) + 1 /\ e[Len(j) + 1] = c.op /\ \A i \in 1..Len(j) : j[i] = e[i]
      BY <1>3 DEF ApplyJournal
    <2>2. Count(e, Len(j) + 1, op) = Count(j, Len(j), op) + (IF e[Len(j) + 1] = op THEN 1 ELSE 0)
      <3>1. Count(j, Len(j), op) = Count(e, Len(j), op)
        <4>1. {i \in 1..Len(j) : j[i] = op} = {i \in 1..Len(j) : e[i] = op}
          BY <2>1
        <4> QED
          BY <4>1 DEF Count
      <3>2. Count(e, Len(j) + 1, op) = Count(e, Len(j), op) + (IF e[Len(j) + 1] = op THEN 1 ELSE 0)
        BY <1>1, CountNext
      <3> QED
        BY <3>1, <3>2
    <2> QED
      BY <1>2, <2>1, <2>2
  <1>4. CASE c.op \notin {"usage", "audit"}
    <2>1. e = j /\ c.op # op
      BY <1>4 DEF ApplyJournal
    <2> QED
      BY <1>2, <2>1
  <1> QED
    BY <1>3, <1>4

LEMMA JournalStep ==
    ASSUME RaftTypeOK, JournalAtLeastOnce, NEW r \in Members, ApplyEntry(r), ~skipped[r], NEW op \in {"usage", "audit"}
    PROVE  Recorded(r, op)' >= InLog(op, reached[r])'
  <1> DEFINE a == applied[r]
             m == reached[r]
             c == rlog[a + 1]
  <1>1. a \in Nat /\ m \in Nat /\ a <= m /\ m <= Len(rlog) /\ a < Len(rlog) /\ Len(rlog) \in Nat /\ c \in Command
        /\ journal[r] \in Seq({"usage", "audit"})
    BY DEF RaftTypeOK, ApplyEntry
  <1>2. journal'[r] = ApplyJournal(journal[r], c) /\ reached'[r] = (IF a + 1 > m THEN a + 1 ELSE m) /\ rlog' = rlog
    BY DEF RaftTypeOK, ApplyEntry
  <1>3. Recorded(r, op) \in Nat /\ Recorded(r, op)' = Recorded(r, op) + (IF c.op = op THEN 1 ELSE 0)
    <2> HIDE DEF c
    <2>1. ApplyJournal(journal[r], c) \in Seq({"usage", "audit"})
      BY <1>1 DEF ApplyJournal
    <2>2. /\ Recorded(r, op) = Count(journal[r], Len(journal[r]), op)
          /\ Recorded(r, op)' = Count(journal'[r], Len(journal'[r]), op)
      <3>1. DOMAIN journal[r] = 1..Len(journal[r]) /\ DOMAIN journal'[r] = 1..Len(journal'[r])
        BY <1>1, <1>2, <2>1
      <3> QED
        BY <3>1 DEF Recorded, Count
    <2> QED
      BY <1>1, <1>2, <2>2, JournalNext
  <1>4. Recorded(r, op) >= InLog(op, m)
    BY DEF JournalAtLeastOnce
  <1>5. InLog(op, reached[r])' = InLog(op, reached'[r])
    BY <1>2 DEF InLog
  <1> HIDE DEF a, m, c
  <1>6. CASE a < m
    <2>1. reached'[r] = m
      BY <1>1, <1>2, <1>6
    <2>2. InLog(op, m) \in Nat
      <3>1. IsFiniteSet(1..m)
        BY <1>1, FS_Interval
      <3>2. IsFiniteSet({i \in 1..m : rlog[i].op = op})
        BY <3>1, FS_Subset
      <3> QED
        BY <3>2, FS_CardinalityType DEF InLog
    <2> QED
      BY <1>3, <1>4, <1>5, <2>1, <2>2
  <1>7. CASE a = m
    <2>1. reached'[r] = m + 1 /\ m < Len(rlog) /\ c = rlog[m + 1]
      BY <1>1, <1>2, <1>7 DEF c
    <2>2. InLog(op, m) \in Nat /\ InLog(op, m + 1) = InLog(op, m) + (IF c.op = op THEN 1 ELSE 0)
      BY <1>1, <2>1, InLogNext
    <2> QED
      BY <1>3, <1>4, <1>5, <2>1, <2>2
  <1> QED
    BY <1>1, <1>6, <1>7

LEMMA RaftStep ==
    ASSUME RaftInv, RaftNext
    PROVE  RaftInv'
  <1>1. RaftTypeOK /\ RaftTypeOK' /\ JournalAtLeastOnce
    BY RaftTypeStep DEF RaftInv
  <1>2. PICK st : StoreOf(st, rlog) /\ \A r \in Members : InStep(r) => Replaying(st, r)
    BY DEF RaftInv
  <1>3. ASSUME NEW c \in Command, Propose(c) PROVE RaftInv'
    <2>1. rlog' = Append(rlog, c) /\ UNCHANGED <<db, journal, applied, snapAt, reached, skipped, refused>>
      BY <1>3 DEF Propose
    <2>2. PICK s : StoreOf(s, Append(rlog, c)) /\ \A i \in 0..Len(rlog) : s[i] = st[i]
      BY <1>1, <1>2, StoreExtend DEF RaftTypeOK
    <2>3. ASSUME NEW r \in Members, InStep(r)' PROVE Replaying(s, r)'
      <3>1. InStep(r)
        BY <2>1, <2>3 DEF InStep
      <3>2. Replaying(st, r)
        BY <1>2, <3>1
      <3>3. /\ Accepted(s, rlog', reached[r])
            /\ \A t \in Tables, k \in RowIds : Mends(rlog', applied[r], reached[r], db[r], s[reached[r]], t, k)
        BY <1>1, <2>1, <2>2, <3>2, LongerLog
      <3> QED
        BY <2>1, <3>3 DEF Replaying
    <2>4. JournalAtLeastOnce'
      <3> SUFFICES ASSUME NEW r \in Members, ~skipped[r], NEW op \in {"usage", "audit"}
                   PROVE  Recorded(r, op)' >= InLog(op, reached[r])'
        BY <2>1 DEF JournalAtLeastOnce
      <3>1. Recorded(r, op) >= InLog(op, reached[r])
        BY <1>1 DEF JournalAtLeastOnce
      <3>2. reached[r] \in Nat /\ reached[r] <= Len(rlog) /\ rlog \in Seq(Command)
        BY <1>1 DEF RaftTypeOK
      <3>3. \A i \in 1..reached[r] : rlog'[i] = rlog[i]
        BY <2>1, <3>2
      <3>4. {i \in 1..reached[r] : rlog'[i].op = op} = {i \in 1..reached[r] : rlog[i].op = op}
        BY <3>3
      <3> QED
        BY <2>1, <3>1, <3>4 DEF Recorded, InLog
    <2> QED
      BY <1>1, <2>1, <2>2, <2>3, <2>4 DEF RaftInv
  <1>4. ASSUME NEW r \in Members, ApplyEntry(r) PROVE RaftInv'
    <2>1. rlog' = rlog /\ skipped' = skipped /\ refused \subseteq refused'
      BY <1>4 DEF ApplyEntry
    <2>2. \A q \in Members : q # r => /\ db'[q] = db[q] /\ journal'[q] = journal[q]
                                      /\ applied'[q] = applied[q] /\ reached'[q] = reached[q]
      BY <1>1, <1>4 DEF ApplyEntry, RaftTypeOK
    <2>3. ASSUME NEW q \in Members, InStep(q)' PROVE Replaying(st, q)'
      <3>1. CASE q = r
        <4>1. InStep(r)'
          BY <2>3, <3>1
        <4>2. InStep(r) => Replaying(st, r)
          BY <1>2
        <4>3. /\ Accepted(st, rlog, reached'[r])
              /\ \A t \in Tables, k \in RowIds : Mends(rlog, applied'[r], reached'[r], db'[r], st[reached'[r]], t, k)
          BY <1>1, <1>2, <1>4, <4>1, <4>2, ReplayStep
        <4> QED
          BY <2>1, <3>1, <4>3 DEF Replaying
      <3>2. CASE q # r
        <4>1. InStep(q)
          BY <2>1, <2>2, <2>3, <3>2 DEF InStep
        <4>2. Replaying(st, q)
          BY <1>2, <4>1
        <4> QED
          BY <2>1, <2>2, <3>2, <4>2 DEF Replaying
      <3> QED
        BY <3>1, <3>2
    <2>4. JournalAtLeastOnce'
      <3> SUFFICES ASSUME NEW q \in Members, ~skipped[q], NEW op \in {"usage", "audit"}
                   PROVE  Recorded(q, op)' >= InLog(op, reached[q])'
        BY <2>1 DEF JournalAtLeastOnce
      <3>1. CASE q = r
        <4>1. Recorded(r, op)' >= InLog(op, reached[r])'
          BY <1>1, <1>4, <3>1, JournalStep
        <4> QED
          BY <3>1, <4>1 DEF Recorded, InLog
      <3>2. CASE q # r
        <4>1. Recorded(q, op) >= InLog(op, reached[q])
          BY <1>1 DEF JournalAtLeastOnce
        <4> QED
          BY <2>1, <2>2, <3>2, <4>1 DEF Recorded, InLog
      <3> QED
        BY <3>1, <3>2
    <2>5. StoreOf(st, rlog)'
      BY <1>2, <2>1
    <2> QED
      BY <1>1, <2>3, <2>4, <2>5 DEF RaftInv
  <1>5. ASSUME NEW r \in Members, TakeSnapshot(r) PROVE RaftInv'
    <2>1. UNCHANGED <<rlog, db, journal, applied, reached, skipped, refused>>
      BY <1>5 DEF TakeSnapshot
    <2>2. \A q \in Members : InStep(q)' => Replaying(st, q)'
      BY <1>2, <2>1 DEF InStep, Replaying
    <2>3. JournalAtLeastOnce'
      BY <1>1, <2>1 DEF JournalAtLeastOnce, Recorded, InLog
    <2>4. StoreOf(st, rlog)'
      BY <1>2, <2>1
    <2> QED
      BY <1>1, <2>2, <2>3, <2>4 DEF RaftInv
  <1>6. ASSUME NEW r \in Members, NewNode(r) PROVE RaftInv'
    <2>1. UNCHANGED <<rlog, db, journal, reached, skipped, refused>>
      BY <1>6 DEF NewNode
    <2>2. ASSUME NEW q \in Members PROVE applied'[q] \in Nat /\ applied[q] \in Nat /\ applied'[q] <= applied[q] /\ reached[q] \in Nat
      BY <1>1, <1>6 DEF NewNode, RaftTypeOK
    <2>3. ASSUME NEW q \in Members, InStep(q)' PROVE Replaying(st, q)'
      <3>1. InStep(q)
        BY <2>1, <2>3 DEF InStep
      <3>2. Replaying(st, q)
        BY <1>2, <3>1
      <3>3. \A p \in (applied[q] + 1)..reached[q] : p \in (applied'[q] + 1)..reached[q]
        BY <2>2
      <3>4. ASSUME NEW t \in Tables, NEW k \in RowIds
            PROVE  Mends(rlog, applied'[q], reached[q], db[q], st[reached[q]], t, k)
        <4>1. Mends(rlog, applied[q], reached[q], db[q], st[reached[q]], t, k)
          BY <3>2 DEF Replaying
        <4> QED
          BY <3>3, <4>1 DEF Mends
      <3> QED
        BY <2>1, <3>2, <3>4 DEF Replaying
    <2>4. JournalAtLeastOnce'
      BY <1>1, <2>1 DEF JournalAtLeastOnce, Recorded, InLog
    <2>5. StoreOf(st, rlog)'
      BY <1>2, <2>1
    <2> QED
      BY <1>1, <2>3, <2>4, <2>5 DEF RaftInv
  <1>7. ASSUME NEW r \in Members, NEW p \in Members, Restore(r, p) PROVE RaftInv'
    <2>1. UNCHANGED <<rlog, db, journal, refused>> /\ skipped'[r]
      BY <1>1, <1>7 DEF Restore, RaftTypeOK
    <2>2. \A q \in Members : q # r => applied'[q] = applied[q] /\ reached'[q] = reached[q] /\ skipped'[q] = skipped[q]
      BY <1>1, <1>7 DEF Restore, RaftTypeOK
    <2>3. ASSUME NEW q \in Members, InStep(q)' PROVE Replaying(st, q)'
      <3>1. q # r
        BY <2>1, <2>3 DEF InStep
      <3>2. InStep(q)
        BY <2>1, <2>2, <2>3, <3>1 DEF InStep
      <3>3. Replaying(st, q)
        BY <1>2, <3>2
      <3> QED
        BY <2>1, <2>2, <3>1, <3>3 DEF Replaying
    <2>4. JournalAtLeastOnce'
      <3> SUFFICES ASSUME NEW q \in Members, ~skipped'[q], NEW op \in {"usage", "audit"}
                   PROVE  Recorded(q, op)' >= InLog(op, reached[q])'
        BY DEF JournalAtLeastOnce
      <3>1. q # r
        BY <2>1
      <3>2. Recorded(q, op) >= InLog(op, reached[q])
        BY <1>1, <2>2, <3>1 DEF JournalAtLeastOnce
      <3> QED
        BY <2>1, <2>2, <3>1, <3>2 DEF Recorded, InLog
    <2>5. StoreOf(st, rlog)'
      BY <1>2, <2>1
    <2> QED
      BY <1>1, <2>3, <2>4, <2>5 DEF RaftInv
  <1> QED
    BY <1>3, <1>4, <1>5, <1>6, <1>7 DEF RaftNext

LEMMA RaftStutter ==
    ASSUME RaftInv, UNCHANGED raftVars
    PROVE  RaftInv'
  <1>1. UNCHANGED <<rlog, db, journal, applied, snapAt, reached, skipped, refused>>
    BY DEF raftVars
  <1>2. PICK st : StoreOf(st, rlog) /\ \A r \in Members : InStep(r) => Replaying(st, r)
    BY DEF RaftInv
  <1>3. RaftTypeOK'
    BY <1>1 DEF RaftInv, RaftTypeOK
  <1>4. \A q \in Members : InStep(q)' => Replaying(st, q)'
    BY <1>1, <1>2 DEF InStep, Replaying
  <1>5. JournalAtLeastOnce'
    BY <1>1 DEF RaftInv, JournalAtLeastOnce, Recorded, InLog
  <1>6. StoreOf(st, rlog)'
    BY <1>1, <1>2
  <1> QED
    BY <1>3, <1>4, <1>5, <1>6 DEF RaftInv

LEMMA RaftConverges ==
    ASSUME RaftInv
    PROVE  ReplayIsIdempotent /\ JournalAtLeastOnce
  <1>1. PICK st : StoreOf(st, rlog) /\ \A r \in Members : InStep(r) => Replaying(st, r)
    BY DEF RaftInv
  <1>2. ASSUME NEW r \in Members, CaughtUp(r) PROVE db[r] = st[applied[r]]
    <2>1. applied[r] = reached[r] /\ InStep(r)
      BY <1>2 DEF CaughtUp, InStep
    <2>2. \A t \in Tables, k \in RowIds : Mends(rlog, applied[r], applied[r], db[r], st[applied[r]], t, k)
      BY <1>1, <2>1 DEF Replaying
    <2>3. applied[r] \in Nat /\ db[r] \in DbType /\ applied[r] \in 0..Len(rlog)
      BY <2>1 DEF RaftInv, RaftTypeOK
    <2>4. st[applied[r]] \in DbType
      BY <1>1, <2>3 DEF StoreOf
    <2> QED
      BY <2>2, <2>3, <2>4, MendsEnd
  <1> QED
    BY <1>2 DEF ReplayIsIdempotent, RaftInv

\* Members that applied the same entries hold the same rows, however often the log was
\* replayed onto them, and no applied usage or audit entry is lost: PurserFSM.Apply with
\* an empty Snapshot and a Restore that does nothing.
THEOREM OperationsRaft == OperationsSpec => []Raft_ReplayConverges
<1>1. OperationsInit => (part = "raft" => RaftInv)
  BY RaftStart DEF OperationsInit
<1>2. part = "raft" /\ [OperationsNext]_operationsVars => RaftNext \/ UNCHANGED raftVars
  BY DEF OperationsNext, operationsVars
<1>3. [OperationsNext]_operationsVars => part' = part
  BY DEF OperationsNext, operationsVars
<1>4. (part = "raft" => RaftInv) /\ [OperationsNext]_operationsVars => (part = "raft" => RaftInv)'
  BY <1>2, <1>3, RaftStep, RaftStutter
<1>5. (part = "raft" => RaftInv) => Raft_ReplayConverges
  BY RaftConverges DEF Raft_ReplayConverges
<1> QED
  BY <1>1, <1>4, <1>5, PTL DEF OperationsSpec

(***************************************************************************)
(* The planner                                                             *)
(***************************************************************************)

\* Whatever plan reaches a caller can be deployed, a failover alternative does without the
\* node it stands in for, and the replicas of a set share no node: planInternal,
\* computeFailoverPlans and PlanReplicaSet, in whatever order the goroutines end and
\* whenever the request is cancelled.
THEOREM OperationsPlanner == OperationsSpec => []Planner_PlansSound
<1>1. OperationsInit => (part = "planner" => PlannerInv)
  BY PlannerInvInit DEF OperationsInit
<1>2. part = "planner" /\ [OperationsNext]_operationsVars => [PlannerNext]_planVars
  BY DEF OperationsNext, operationsVars, planVars
<1>3. [OperationsNext]_operationsVars => part' = part
  BY DEF OperationsNext, operationsVars
<1>4. (part = "planner" => PlannerInv) /\ [OperationsNext]_operationsVars => (part = "planner" => PlannerInv)'
  BY <1>2, <1>3, PlannerInvNext
<1>5. (part = "planner" => PlannerInv) => Planner_PlansSound
  BY PlannerInvSound DEF Planner_PlansSound
<1> QED
  BY <1>1, <1>4, <1>5, PTL DEF OperationsSpec

\* The searches do what the algorithms promise for every fleet: dpPartition attains the least
\* bottleneck of all splits, heldKarpPath is a shortest path from the host, and twoOptImprove
\* never ends dearer than the greedy path it starts from.
THEOREM OperationsSearch == OperationsSpec => []Planner_SearchOptimal
<1>1. OperationsInit => (part = "planner" => PlannerInv)
  BY PlannerInvInit DEF OperationsInit
<1>2. part = "planner" /\ [OperationsNext]_operationsVars => [PlannerNext]_planVars
  BY DEF OperationsNext, operationsVars, planVars
<1>3. [OperationsNext]_operationsVars => part' = part
  BY DEF OperationsNext, operationsVars
<1>4. (part = "planner" => PlannerInv) /\ [OperationsNext]_operationsVars => (part = "planner" => PlannerInv)'
  BY <1>2, <1>3, PlannerInvNext
<1>5. (part = "planner" => PlannerInv) => Planner_SearchOptimal
  BY PlannerInvOptimal DEF Planner_SearchOptimal
<1> QED
  BY <1>1, <1>4, <1>5, PTL DEF OperationsSpec
=============================================================================
