-------------------------- MODULE ApprovalsProofs ---------------------------
(***************************************************************************)
(* The quorum theorem of Approvals, for any set of keys, any quorum, any   *)
(* number of concurrent requests, key deletions and lost requests.         *)
(***************************************************************************)
EXTENDS Approvals, FiniteSetTheorems, TLAPS

\* The requester has no approval, and neither has an approve request that is
\* about to insert one; an approve request that is about to write the status saw
\* enough votes, and votes are never withdrawn.
QInv ==
    /\ TypeOK
    /\ votes[Requester] # "approved"
    /\ \A q \in Requests :
        /\ req[q].pc = "insert" => req[q].who # Requester
        /\ req[q].pc = "update" /\ req[q].kind = "approve" => Cardinality(Approvers) >= Required
        /\ req[q].pc # "idle" => req[q].kind \in Kinds
    /\ ApprovedHasQuorum

-----------------------------------------------------------------------------
\* The keys that voted "approved" are finitely many.
LEMMA ApproversFinite ==
    ASSUME NEW S \in SUBSET Keys
    PROVE  IsFiniteSet(S) /\ Cardinality(S) \in Nat
  BY KeysAssumption, FS_Subset, FS_CardinalityType

\* Votes that are only added keep a quorum that has been reached.
LEMMA QuorumGrows ==
    ASSUME Approvers \subseteq Approvers', Cardinality(Approvers) >= Required
    PROVE  Cardinality(Approvers') >= Required
  <1>1. IsFiniteSet(Approvers') /\ Cardinality(Approvers') \in Nat
    BY ApproversFinite DEF Approvers
  <1>2. Cardinality(Approvers) \in Nat /\ Cardinality(Approvers) <= Cardinality(Approvers')
    BY <1>1, FS_Subset, ApproversFinite DEF Approvers
  <1> QED
    BY <1>1, <1>2, RequiredAssumption

\* CheckApprovalQuorumFiltered never counts more votes than there are.
LEMMA ReceivedBound ==
    ASSUME NEW filter, Received(filter) >= Required
    PROVE  Cardinality(Approvers) >= Required
  <1> DEFINE C == {k \in Approvers : filter = {} \/ k \in filter}
  <1>1. C \subseteq Approvers /\ IsFiniteSet(Approvers) /\ Cardinality(Approvers) \in Nat
    BY ApproversFinite DEF Approvers
  <1>2. Cardinality(C) <= Cardinality(Approvers) /\ Cardinality(C) \in Nat
    BY <1>1, FS_Subset, FS_CardinalityType
  <1> QED
    BY <1>1, <1>2, RequiredAssumption DEF Received

\* The record of an idle goroutine is a request record.
LEMMA IdleFacts == Idle \in Request /\ Idle.pc = "idle" /\ Idle.kind = "none"
  BY KeysAssumption DEF Idle, Request

\* A request that ends, or moves on to a statement other than the insert and the
\* status write, needs nothing.
LEMMA Moves ==
    ASSUME QInv, NEW q \in Requests, votes' = votes, status' = status,
           keys' \subseteq Keys,
           removals' \in 0..MaxRemovals, faults' \in 0..MaxFaults,
           NEW r \in Request, req' = [req EXCEPT ![q] = r],
           r.pc = "insert" => r.who # Requester,
           r.pc = "update" /\ r.kind = "approve" => Cardinality(Approvers) >= Required,
           r.pc # "idle" => r.kind \in Kinds
    PROVE  QInv'
  <1>1. Approvers' = Approvers
    BY DEF Approvers
  <1>2. /\ req' \in [Requests -> Request] /\ req'[q] = r
        /\ \A x \in Requests : x # q => req'[x] = req[x]
    BY DEF QInv, TypeOK
  <1>3. TypeOK'
    BY <1>2 DEF QInv, TypeOK
  <1>4. \A x \in Requests :
          /\ req'[x].pc = "insert" => req'[x].who # Requester
          /\ req'[x].pc = "update" /\ req'[x].kind = "approve"
               => Cardinality(Approvers') >= Required
          /\ req'[x].pc # "idle" => req'[x].kind \in Kinds
    BY <1>1, <1>2 DEF QInv
  <1>5. ApprovedHasQuorum'
    BY <1>1 DEF QInv, ApprovedHasQuorum
  <1> QED
    BY <1>3, <1>4, <1>5 DEF QInv

\* What Goto leaves of a request.
LEMMA GotoFacts ==
    ASSUME QInv, NEW q \in Requests, NEW pc \in {"check", "insert", "count", "update", "resolve"},
           Goto(q, pc)
    PROVE  \E r \in Request : /\ req' = [req EXCEPT ![q] = r]
                              /\ r.pc = pc /\ r.kind = req[q].kind /\ r.who = req[q].who
  <1> DEFINE r == [req[q] EXCEPT !.pc = pc]
  <1>1. req[q] \in Request
    BY DEF QInv, TypeOK
  <1>2. r \in Request /\ r.pc = pc /\ r.kind = req[q].kind /\ r.who = req[q].who
    BY <1>1 DEF Request
  <1>3. req' = [req EXCEPT ![q] = r]
    BY DEF Goto
  <1> QED
    BY <1>2, <1>3

\* A refused vote ends an approve request or takes a reject on.
LEMMA Refused ==
    ASSUME QInv, NEW q \in Requests, req[q].pc # "idle", VoteRefused(q)
    PROVE  \E r \in Request : /\ req' = [req EXCEPT ![q] = r]
                              /\ r.pc # "insert"
                              /\ r.pc = "update" => r.kind = "reject"
                              /\ r.pc # "idle" => r.kind \in Kinds
  <1>1. CASE req[q].kind = "approve"
    BY <1>1, IdleFacts DEF VoteRefused, End
  <1>2. CASE req[q].kind # "approve"
    <2>1. req[q].kind = "reject"
      BY <1>2 DEF QInv, Kinds
    <2>2. PICK r \in Request : /\ req' = [req EXCEPT ![q] = r]
                               /\ r.pc = "update" /\ r.kind = req[q].kind
      BY <1>2, GotoFacts DEF VoteRefused
    <2> QED
      BY <2>1, <2>2 DEF Kinds
  <1> QED
    BY <1>1, <1>2

\* Every statement of every request preserves the invariant.
LEMMA StepKeeps ==
    ASSUME QInv, NEW q \in Requests, Step(q)
    PROVE  QInv'
  <1>1. CASE Load(q)
    <2>1. req[q].kind \in Kinds
      BY <1>1 DEF Load, QInv
    <2>2. PICK r \in Request : /\ req' = [req EXCEPT ![q] = r]
                               /\ r.pc \in {"idle", "check"}
                               /\ r.pc # "idle" => r.kind \in Kinds
      BY <1>1, <2>1, IdleFacts, GotoFacts DEF Load, End
    <2> QED
      BY <1>1, <2>2, Moves DEF Load, QInv, TypeOK
  <1>2. CASE CheckVote(q)
    <2>1. req[q].kind \in Kinds /\ req[q].pc # "idle"
      BY <1>2 DEF CheckVote, QInv
    <2>2. PICK r \in Request : /\ req' = [req EXCEPT ![q] = r]
                               /\ r.pc = "insert" => r.who # Requester
                               /\ r.pc = "update" => r.kind = "reject"
                               /\ r.pc # "idle" => r.kind \in Kinds
      BY <1>2, <2>1, Refused, GotoFacts DEF CheckVote
    <2> QED
      BY <1>2, <2>2, Moves DEF CheckVote, QInv, TypeOK
  <1>3. CASE InsertVote(q) /\ votes[req[q].who] # "none"
    <2>1. PICK r \in Request : /\ req' = [req EXCEPT ![q] = r]
                               /\ r.pc # "insert"
                               /\ r.pc = "update" => r.kind = "reject"
                               /\ r.pc # "idle" => r.kind \in Kinds
      BY <1>3, Refused DEF InsertVote
    <2> QED
      BY <1>3, <2>1, Moves DEF InsertVote, QInv, TypeOK
  <1>4. CASE InsertVote(q) /\ votes[req[q].who] = "none"
    <2> DEFINE pc == IF req[q].kind = "approve" THEN "resolve" ELSE "update"
               vote == IF req[q].kind = "approve" THEN "approved" ELSE "rejected"
    <2>1. /\ req[q].pc = "insert" /\ req[q].who # Requester /\ req[q].kind \in Kinds
          /\ req[q].who \in Keys
      BY <1>4 DEF InsertVote, QInv, TypeOK, Request
    <2>2. /\ votes' = [votes EXCEPT ![req[q].who] = vote] /\ Goto(q, pc)
          /\ status' = status /\ keys' = keys
          /\ removals' = removals /\ faults' = faults
      BY <1>4 DEF InsertVote
    <2>3. PICK r \in Request : /\ req' = [req EXCEPT ![q] = r]
                               /\ r.pc = pc /\ r.kind = req[q].kind
      BY <2>2, GotoFacts
    <2>4. Approvers \subseteq Approvers'
      BY <1>4, <2>2 DEF Approvers, QInv, TypeOK
    <2>5. votes' \in [Keys -> {"none", "approved", "rejected"}] /\ votes'[Requester] # "approved"
      BY <2>1, <2>2, KeysAssumption DEF QInv, TypeOK
    <2>6. /\ req' \in [Requests -> Request] /\ req'[q] = r
          /\ \A x \in Requests : x # q => req'[x] = req[x]
      BY <2>3 DEF QInv, TypeOK
    <2>7. TypeOK'
      BY <2>2, <2>5, <2>6 DEF QInv, TypeOK
    <2>8. \A x \in Requests :
            /\ req'[x].pc = "insert" => req'[x].who # Requester
            /\ req'[x].pc = "update" /\ req'[x].kind = "approve"
                 => Cardinality(Approvers') >= Required
            /\ req'[x].pc # "idle" => req'[x].kind \in Kinds
      BY <2>1, <2>3, <2>4, <2>6, QuorumGrows DEF QInv
    <2>9. ApprovedHasQuorum'
      BY <2>2, <2>4, <2>5, QuorumGrows DEF QInv, ApprovedHasQuorum, Approvers
    <2> QED
      BY <2>5, <2>7, <2>8, <2>9 DEF QInv
  <1>5. CASE Resolve(q)
    <2>1. req[q] \in Request /\ req[q].kind \in Kinds
      BY <1>5 DEF Resolve, QInv, TypeOK
    <2> DEFINE a == [req[q] EXCEPT !.pc = "count", !.filter = ReviewerKeys \cap keys]
    <2>2. a \in Request /\ a.pc = "count" /\ a.kind = req[q].kind
      BY <2>1, KeysAssumption DEF Request
    <2>3. PICK r \in Request : /\ req' = [req EXCEPT ![q] = r]
                               /\ r.pc = "count" /\ r.kind = req[q].kind
      <3>1. CASE req' = [req EXCEPT ![q] = a]
        BY <2>2, <3>1
      <3>2. CASE Goto(q, "count")
        BY <3>2, GotoFacts
      <3> QED
        BY <1>5, <3>1, <3>2 DEF Resolve
    <2>4. faults' \in 0..MaxFaults
      BY <1>5, BoundsAssumption DEF Resolve, Fault, QInv, TypeOK
    <2> QED
      BY <1>5, <2>1, <2>3, <2>4, Moves DEF Resolve, QInv, TypeOK
  <1>6. CASE Count(q)
    <2>1. req[q].kind \in Kinds
      BY <1>6 DEF Count, QInv
    <2>2. PICK r \in Request : /\ req' = [req EXCEPT ![q] = r]
                               /\ r.pc \in {"idle", "update"}
                               /\ r.pc = "update" => Received(req[q].filter) >= Required
                               /\ r.pc # "idle" => r.kind \in Kinds
      BY <1>6, <2>1, IdleFacts, GotoFacts DEF Count, End
    <2>3. r.pc = "update" => Cardinality(Approvers) >= Required
      BY <2>2, ReceivedBound
    <2> QED
      BY <1>6, <2>2, <2>3, Moves DEF Count, QInv, TypeOK
  <1>7. CASE Update(q)
    <2>1. /\ req[q].pc = "update" /\ req' = [req EXCEPT ![q] = Idle]
          /\ status' = IF req[q].kind = "approve" THEN "approved" ELSE "rejected"
          /\ votes' = votes
      BY <1>7 DEF Update, End
    <2>2. Approvers' = Approvers
      BY <2>1 DEF Approvers
    <2>3. TypeOK'
      BY <1>7, <2>1, IdleFacts DEF Update, QInv, TypeOK
    <2>4. ApprovedHasQuorum'
      BY <2>1, <2>2 DEF QInv, ApprovedHasQuorum, Approvers
    <2>5. \A x \in Requests :
            /\ req'[x].pc = "insert" => req'[x].who # Requester
            /\ req'[x].pc = "update" /\ req'[x].kind = "approve"
                 => Cardinality(Approvers') >= Required
            /\ req'[x].pc # "idle" => req'[x].kind \in Kinds
      BY <2>1, <2>2, IdleFacts DEF QInv, TypeOK
    <2> QED
      BY <2>1, <2>3, <2>4, <2>5 DEF QInv
  <1> QED
    BY <1>1, <1>2, <1>3, <1>4, <1>5, <1>6, <1>7 DEF Step

\* Every step preserves the invariant.
LEMMA NextKeeps == QInv /\ [Next]_vars => QInv'
  <1> SUFFICES ASSUME QInv, [Next]_vars
               PROVE  QInv'
    OBVIOUS
  <1>1. CASE QueueDeploy
    BY <1>1 DEF QueueDeploy, QInv, TypeOK, ApprovedHasQuorum, Approvers
  <1>2. ASSUME NEW q \in Requests, NEW kind \in Kinds, NEW k \in Keys, Receive(q, kind, k)
        PROVE  QInv'
    <2> DEFINE r == [kind |-> kind, pc |-> "load", who |-> k, filter |-> {}]
    <2>1. r \in Request /\ r.pc = "load" /\ r.kind = kind
      BY DEF Request
    <2>2. req' = [req EXCEPT ![q] = r]
      BY <1>2 DEF Receive
    <2> HIDE DEF r
    <2> QED
      BY <1>2, <2>1, <2>2, Moves DEF Receive, QInv, TypeOK
  <1>3. ASSUME NEW q \in Requests, Lost(q)
        PROVE  QInv'
    <2>1. req' = [req EXCEPT ![q] = Idle] /\ faults' \in 0..MaxFaults
      BY <1>3, BoundsAssumption DEF Lost, Fault, End, QInv, TypeOK
    <2> QED
      BY <1>3, <2>1, IdleFacts, Moves DEF Lost, QInv, TypeOK
  <1>4. ASSUME NEW k \in Keys, RemoveKey(k)
        PROVE  QInv'
    BY <1>4, BoundsAssumption DEF RemoveKey, QInv, TypeOK, ApprovedHasQuorum, Approvers
  <1>5. CASE UNCHANGED vars
    BY <1>5 DEF vars, QInv, TypeOK, ApprovedHasQuorum, Approvers
  <1> QED
    BY <1>1, <1>2, <1>3, <1>4, <1>5, StepKeeps DEF Next

\* The invariant holds in every reachable state.
THEOREM QuorumInvariance == Spec => []QInv
  <1>1. Init => QInv
    <2> SUFFICES ASSUME Init
                 PROVE  QInv
      OBVIOUS
    <2>1. TypeOK
      <3>1. req \in [Requests -> Request]
        BY IdleFacts, Zenon DEF Init
      <3>2. removals \in 0..MaxRemovals /\ faults \in 0..MaxFaults
        BY BoundsAssumption DEF Init
      <3> QED
        BY <3>1, <3>2 DEF Init, TypeOK
    <2>2. votes[Requester] # "approved" /\ ApprovedHasQuorum
      BY KeysAssumption DEF Init, ApprovedHasQuorum
    <2>3. \A q \in Requests : req[q].pc = "idle"
      BY IdleFacts DEF Init
    <2> QED
      BY <2>1, <2>2, <2>3 DEF QInv
  <1> QED
    BY <1>1, NextKeeps, PTL DEF Spec

\* A record that says approved has the approvals of the required number of
\* different keys, none of them the requester's.
THEOREM QuorumHolds == Spec => []ApprovedHasQuorum
  <1>1. QInv => ApprovedHasQuorum
    BY DEF QInv
  <1> QED
    BY <1>1, QuorumInvariance, PTL

-----------------------------------------------------------------------------
(***************************************************************************)
(* Designated reviewers                                                    *)
(***************************************************************************)
\* Reviewers are configured, all their keys exist and every listing succeeded.
Designated == ReviewerKeys # {} /\ removals = 0 /\ faults = 0

DesignatedApprovers == Approvers \cap ReviewerKeys

\* A request that is about to count looks at the designated keys, and one that is
\* about to approve has seen enough of their votes.
DInv ==
    /\ removals = 0 => keys = Keys
    /\ \A q \in Requests : Designated =>
        /\ req[q].pc = "count" => req[q].filter = ReviewerKeys
        /\ req[q].pc = "update" /\ req[q].kind = "approve"
             => Cardinality(DesignatedApprovers) >= Required
    /\ DesignatedQuorum

\* With a nonempty filter CheckApprovalQuorumFiltered counts its keys' votes.
LEMMA ReceivedDesignated ==
    ASSUME ReviewerKeys # {}
    PROVE  Received(ReviewerKeys) = Cardinality(DesignatedApprovers)
  <1>1. {k \in Approvers : ReviewerKeys = {} \/ k \in ReviewerKeys} = DesignatedApprovers
    BY DEF DesignatedApprovers
  <1> QED
    BY <1>1 DEF Received

\* Votes that are only added keep the designated quorum.
LEMMA DesignatedGrows ==
    ASSUME Approvers \subseteq Approvers', Cardinality(DesignatedApprovers) >= Required
    PROVE  Cardinality(DesignatedApprovers') >= Required
  <1>1. IsFiniteSet(DesignatedApprovers') /\ Cardinality(DesignatedApprovers') \in Nat
    BY ApproversFinite DEF Approvers, DesignatedApprovers
  <1>2. DesignatedApprovers \subseteq DesignatedApprovers'
    BY DEF DesignatedApprovers
  <1>3. /\ Cardinality(DesignatedApprovers) \in Nat
        /\ Cardinality(DesignatedApprovers) <= Cardinality(DesignatedApprovers')
    BY <1>1, <1>2, FS_Subset, ApproversFinite DEF Approvers, DesignatedApprovers
  <1> QED
    BY <1>1, <1>3, RequiredAssumption

\* No step withdraws an approval, a deletion or a fault.
LEMMA Monotone ==
    ASSUME QInv, [Next]_vars
    PROVE  Approvers \subseteq Approvers' /\ (Designated' => Designated)
  <1>1. \A k \in Keys : votes[k] # "none" => votes'[k] = votes[k]
    <2>1. ASSUME NEW q \in Requests, InsertVote(q)
          PROVE  \A k \in Keys : votes[k] # "none" => votes'[k] = votes[k]
      BY <2>1 DEF InsertVote, QInv, TypeOK
    <2> QED
      BY <2>1 DEF Next, Step, QueueDeploy, Receive, Load, CheckVote, Resolve, Count, Update,
                  Lost, RemoveKey, vars
  <1>2. Designated' => Designated
    <2>1. removals \in Nat /\ faults \in Nat
      BY BoundsAssumption DEF QInv, TypeOK
    <2>2. removals' \in {removals, removals + 1} /\ faults' \in {faults, faults + 1}
      BY DEF Next, Step, QueueDeploy, Receive, Load, CheckVote, InsertVote, Resolve, Count,
             Update, Lost, RemoveKey, Fault, vars
    <2> QED
      BY <2>1, <2>2 DEF Designated
  <1> QED
    BY <1>1, <1>2 DEF Approvers

\* What becomes of a request in a step that leaves it somewhere else than "count" or
\* "update" as an approval.
LEMMA DesignatedMoves ==
    ASSUME QInv, DInv, [Next]_vars, removals' = 0 => keys' = Keys,
           NEW q \in Requests, NEW r, req' = [req EXCEPT ![q] = r],
           Designated' /\ r.pc = "count" => r.filter = ReviewerKeys,
           Designated' /\ r.pc = "update" /\ r.kind = "approve"
             => Cardinality(DesignatedApprovers') >= Required,
           status' \in {status, "rejected"} \/ (Designated' => Cardinality(DesignatedApprovers') >= Required)
    PROVE  DInv'
  <1>1. Approvers \subseteq Approvers' /\ (Designated' => Designated)
    BY Monotone
  <1>2. req'[q] = r /\ \A x \in Requests : x # q => req'[x] = req[x]
    BY DEF QInv, TypeOK
  <1>3. ASSUME NEW x \in Requests, Designated'
        PROVE  /\ req'[x].pc = "count" => req'[x].filter = ReviewerKeys
               /\ req'[x].pc = "update" /\ req'[x].kind = "approve"
                    => Cardinality(DesignatedApprovers') >= Required
    <2>1. CASE x = q
      BY <1>2, <1>3, <2>1
    <2>2. CASE x # q
      BY <1>1, <1>2, <1>3, <2>2, DesignatedGrows DEF DInv
    <2> QED
      BY <2>1, <2>2
  <1>4. DesignatedQuorum'
    <2> SUFFICES ASSUME status' = "approved", Designated'
                 PROVE  Cardinality(DesignatedApprovers') >= Required
      BY DEF DesignatedQuorum, Designated, DesignatedApprovers
    <2>1. CASE status' = status
      <3>1. Cardinality(DesignatedApprovers) >= Required
        BY <1>1, <2>1 DEF DInv, DesignatedQuorum, Designated, DesignatedApprovers
      <3> QED
        BY <1>1, <3>1, DesignatedGrows
    <2> QED
      BY <2>1
  <1> QED
    BY <1>3, <1>4 DEF DInv

\* Every statement of a request preserves the designated reviewers' invariant.
LEMMA DesignatedStep ==
    ASSUME QInv, DInv, NEW q \in Requests, Step(q)
    PROVE  DInv'
  <1>0. [Next]_vars
    BY DEF Next
  <1>1. Approvers \subseteq Approvers' /\ (Designated' => Designated)
    BY <1>0, Monotone
  <1>2. req[q] \in Request /\ (req[q].pc # "idle" => req[q].kind \in Kinds)
    BY DEF QInv, TypeOK
  <1>3. CASE Load(q) \/ CheckVote(q) \/ InsertVote(q)
    <2>1. PICK r \in Request : /\ req' = [req EXCEPT ![q] = r]
                               /\ r.pc # "count"
                               /\ r.pc = "update" => r.kind # "approve"
      <3>1. CASE End(q)
        BY <3>1, IdleFacts DEF End
      <3>2. CASE \E pc \in {"check", "insert", "resolve"} : Goto(q, pc)
        <4>1. PICK pc \in {"check", "insert", "resolve"} : Goto(q, pc)
          BY <3>2
        <4> QED
          BY <4>1, GotoFacts
      <3>3. CASE Goto(q, "update") /\ req[q].kind # "approve"
        BY <3>3, GotoFacts
      <3> QED
        BY <1>2, <1>3, <3>1, <3>2, <3>3 DEF Load, CheckVote, InsertVote, VoteRefused
    <2>2. status' = status /\ keys' = keys /\ removals' = removals
      BY <1>3 DEF Load, CheckVote, InsertVote
    <2> QED
      BY <1>0, <2>1, <2>2, DesignatedMoves DEF DInv
  <1>4. CASE Resolve(q)
    <2>1. status' = status /\ keys' = keys /\ removals' = removals
      BY <1>4 DEF Resolve
    <2>2. CASE req' = [req EXCEPT ![q].pc = "count", ![q].filter = ReviewerKeys \cap keys]
      <3> DEFINE r == [req[q] EXCEPT !.pc = "count", !.filter = ReviewerKeys \cap keys]
      <3>1. r.pc = "count" /\ r.filter = ReviewerKeys \cap keys
        BY <1>2 DEF Request
      <3>2. Designated' => ReviewerKeys \cap keys = ReviewerKeys
        BY <1>1, KeysAssumption DEF DInv, Designated
      <3>3. req' = [req EXCEPT ![q] = r]
        BY <2>2
      <3> HIDE DEF r
      <3> QED
        BY <1>0, <2>1, <3>1, <3>2, <3>3, DesignatedMoves DEF DInv
    <2>3. CASE Fault /\ Goto(q, "count")
      <3>1. PICK r \in Request : req' = [req EXCEPT ![q] = r] /\ r.pc = "count"
        BY <2>3, GotoFacts
      <3>2. ~Designated'
        BY <2>3, BoundsAssumption DEF Fault, Designated, QInv, TypeOK
      <3> QED
        BY <1>0, <2>1, <3>1, <3>2, DesignatedMoves DEF DInv
    <2> QED
      BY <1>4, <2>2, <2>3 DEF Resolve
  <1>5. CASE Count(q)
    <2>1. status' = status /\ keys' = keys /\ removals' = removals
      BY <1>5 DEF Count
    <2>2. CASE End(q)
      BY <1>0, <2>1, <2>2, IdleFacts, DesignatedMoves DEF DInv, End
    <2>3. CASE Received(req[q].filter) >= Required /\ Goto(q, "update")
      <3>1. PICK r \in Request : req' = [req EXCEPT ![q] = r] /\ r.pc = "update"
        BY <2>3, GotoFacts
      <3>2. Designated' => Cardinality(DesignatedApprovers) >= Required
        BY <1>1, <1>5, <2>3, ReceivedDesignated DEF DInv, Count, Designated
      <3>3. Designated' => Cardinality(DesignatedApprovers') >= Required
        BY <1>1, <3>2, DesignatedGrows
      <3> QED
        BY <1>0, <2>1, <3>1, <3>3, DesignatedMoves DEF DInv
    <2> QED
      BY <1>5, <2>2, <2>3 DEF Count
  <1>6. CASE Update(q)
    <2>1. keys' = keys /\ removals' = removals /\ req' = [req EXCEPT ![q] = Idle]
      BY <1>6 DEF Update, End
    <2>2. status' = "rejected" \/ (Designated' => Cardinality(DesignatedApprovers') >= Required)
      BY <1>1, <1>6, DesignatedGrows DEF Update, DInv
    <2> QED
      BY <1>0, <2>1, <2>2, IdleFacts, DesignatedMoves DEF DInv
  <1> QED
    BY <1>3, <1>4, <1>5, <1>6 DEF Step

\* Every step preserves it.
LEMMA DesignatedNext == QInv /\ DInv /\ [Next]_vars => DInv'
  <1> SUFFICES ASSUME QInv, DInv, [Next]_vars
               PROVE  DInv'
    OBVIOUS
  <1>1. Approvers \subseteq Approvers' /\ (Designated' => Designated)
    BY Monotone
  <1>2. ASSUME UNCHANGED <<votes, req>>, status' \in {status, "pending"}, removals' = 0 => keys' = Keys
        PROVE  DInv'
    <2>1. DesignatedApprovers' = DesignatedApprovers
      BY <1>2 DEF DesignatedApprovers, Approvers
    <2>2. DesignatedQuorum'
      BY <1>1, <1>2, <2>1 DEF DInv, DesignatedQuorum, Designated, DesignatedApprovers
    <2> QED
      BY <1>1, <1>2, <2>1, <2>2 DEF DInv
  <1>3. CASE QueueDeploy \/ UNCHANGED vars
    BY <1>2, <1>3 DEF QueueDeploy, vars, DInv
  <1>4. ASSUME NEW k \in Keys, RemoveKey(k)
        PROVE  DInv'
    BY <1>2, <1>4, BoundsAssumption DEF RemoveKey, DInv, QInv, TypeOK
  <1>5. ASSUME NEW q \in Requests, NEW kind \in Kinds, NEW k \in Keys, Receive(q, kind, k)
        PROVE  DInv'
    <2> DEFINE r == [kind |-> kind, pc |-> "load", who |-> k, filter |-> {}]
    <2>1. r.pc = "load" /\ req' = [req EXCEPT ![q] = r]
      BY <1>5 DEF Receive
    <2>2. status' = status /\ keys' = keys /\ removals' = removals
      BY <1>5 DEF Receive
    <2> HIDE DEF r
    <2> QED
      BY <2>1, <2>2, DesignatedMoves DEF DInv
  <1>6. ASSUME NEW q \in Requests, Lost(q)
        PROVE  DInv'
    <2>1. status' = status /\ keys' = keys /\ removals' = removals /\ req' = [req EXCEPT ![q] = Idle]
      BY <1>6 DEF Lost, End
    <2> QED
      BY <2>1, IdleFacts, DesignatedMoves DEF DInv
  <1> QED
    BY <1>3, <1>4, <1>5, <1>6, DesignatedStep DEF Next

\* "only votes from those designated keys count": with reviewer_keys configured, all of
\* them present and the listing answered, an approved record has the required number of
\* designated approvals, however requests interleave.
THEOREM DesignatedHolds == Spec => []DesignatedQuorum
  <1>1. Init => DInv
    BY IdleFacts DEF Init, DInv, DesignatedQuorum
  <1>2. DInv => DesignatedQuorum
    BY DEF DInv
  <1> QED
    BY <1>1, <1>2, QuorumInvariance, DesignatedNext, PTL DEF Spec
=============================================================================
