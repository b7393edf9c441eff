----------------------------- MODULE Approvals ------------------------------
(***************************************************************************)
(* The deployment approval gate (server/approvals.go on top of             *)
(* registry/approvals_sqlite.go): one deploy request, and the admins that  *)
(* approve and reject it in concurrent HTTP requests.                      *)
(*                                                                         *)
(* A request is a sequence of separate SQL statements: it loads the        *)
(* record, checks it again before the vote is inserted, reads the API      *)
(* keys, counts the votes, and only then writes the new status.  No        *)
(* statement is conditional on the status and there is no transaction, so  *)
(* one step here is one statement.                                         *)
(*                                                                         *)
(* Abstractions: a reviewer is an admin API key (its id and its hash are   *)
(* the same value); the expiry check is left out because nothing sets      *)
(* ExpiresAt; notes, IP prefixes and audit entries are left out.           *)
(***************************************************************************)
EXTENDS Naturals, FiniteSets

CONSTANTS
    Keys,          \* admin API keys
    Requester,     \* the key that asked for the deployment
    ReviewerKeys,  \* quorum.reviewer_keys, {} when not configured
    Required,      \* quorum.min_approvers, else the record's required_approvals
    Requests,      \* goroutines of concurrent approve / reject requests
    MaxRemovals,   \* bound: API keys deleted
    MaxFaults      \* bound: requests cancelled or lost half-way

ASSUME KeysAssumption ==
    IsFiniteSet(Keys) /\ Requester \in Keys /\ ReviewerKeys \subseteq Keys
ASSUME RequiredAssumption == Required \in Nat \ {0}
ASSUME BoundsAssumption == MaxRemovals \in Nat /\ MaxFaults \in Nat

VARIABLES
    status,   \* deployment_approvals.status, "none" before the deploy request
    votes,    \* deployment_approval_votes: UNIQUE (approval, reviewer)
    keys,     \* rows of api_keys
    req,      \* req[q]: the request goroutine q is serving
    removals, faults

vars == <<status, votes, keys, req, removals, faults>>

Kinds == {"approve", "reject"}
Idle == [kind |-> "none", pc |-> "idle", who |-> Requester, filter |-> {}]
Request == [kind: Kinds \cup {"none"},
            pc: {"idle", "load", "check", "insert", "resolve", "count", "update"},
            who: Keys, filter: SUBSET Keys]

Approvers == {k \in Keys : votes[k] = "approved"}

Init ==
    /\ status = "none"
    /\ votes = [k \in Keys |-> "none"]
    /\ keys = Keys
    /\ req = [q \in Requests |-> Idle]
    /\ removals = 0
    /\ faults = 0

Fault == faults < MaxFaults /\ faults' = faults + 1
Goto(q, pc) == req' = [req EXCEPT ![q].pc = pc]
End(q) == req' = [req EXCEPT ![q] = Idle]

-----------------------------------------------------------------------------
\* handleDeployModel: with the deployment_approvals feature licensed the deploy
\* is queued (without it the plan is applied at once, and there is no record).
QueueDeploy ==
    /\ status = "none"
    /\ status' = "pending"
    /\ UNCHANGED <<votes, keys, req, removals, faults>>

\* POST .../approve or .../reject by an admin key.
Receive(q, kind, k) ==
    /\ req[q] = Idle /\ status # "none" /\ k \in keys
    /\ req' = [req EXCEPT ![q] = [kind |-> kind, pc |-> "load", who |-> k, filter |-> {}]]
    /\ UNCHANGED <<status, votes, keys, removals, faults>>

\* GetDeploymentApproval: 409 unless pending; a requester may not reject.
Load(q) ==
    /\ req[q].pc = "load"
    /\ IF status # "pending" \/ (req[q].kind = "reject" /\ req[q].who = Requester)
       THEN End(q) ELSE Goto(q, "check")
    /\ UNCHANGED <<status, votes, keys, removals, faults>>

\* A vote that cannot be recorded ends an approve request; a reject request
\* ignores it.
VoteRefused(q) == IF req[q].kind = "approve" THEN End(q) ELSE Goto(q, "update")

\* RecordApprovalVote, first statement: pending, and not the requester's own.
CheckVote(q) ==
    /\ req[q].pc = "check"
    /\ IF status = "pending" /\ req[q].who # Requester THEN Goto(q, "insert")
                                                       ELSE VoteRefused(q)
    /\ UNCHANGED <<status, votes, keys, removals, faults>>

\* RecordApprovalVote, second statement: INSERT under the unique index.
InsertVote(q) ==
    LET r == req[q] IN
    /\ r.pc = "insert"
    /\ IF votes[r.who] = "none"
       THEN /\ votes' = [votes EXCEPT ![r.who] =
                           IF r.kind = "approve" THEN "approved" ELSE "rejected"]
            /\ Goto(q, IF r.kind = "approve" THEN "resolve" ELSE "update")
       ELSE VoteRefused(q) /\ UNCHANGED votes
    /\ UNCHANGED <<status, keys, removals, faults>>

\* Mutant: the configured reviewers are not looked up.
ResolveNone(q) ==
    /\ req[q].pc = "resolve"
    /\ Goto(q, "count")
    /\ UNCHANGED <<status, votes, keys, removals, faults>>

\* resolveReviewerKeyHashes: the configured keys that exist, or none when the
\* listing fails.
Resolve(q) ==
    /\ req[q].pc = "resolve"
    /\ \/ /\ req' = [req EXCEPT ![q].pc = "count", ![q].filter = ReviewerKeys \cap keys]
          /\ UNCHANGED faults
       \/ Fault /\ Goto(q, "count")
    /\ UNCHANGED <<status, votes, keys, removals>>

\* Mutant: one approval too few.
ReceivedOneMore(filter) ==
    1 + Cardinality({k \in Approvers : filter = {} \/ k \in filter})

\* CheckApprovalQuorumFiltered: an empty filter counts every vote.
Received(filter) == Cardinality({k \in Approvers : filter = {} \/ k \in filter})

\* Mutant: more than the required number is needed.
CountMore(q) ==
    /\ req[q].pc = "count"
    /\ IF Received(req[q].filter) > Required THEN Goto(q, "update") ELSE End(q)
    /\ UNCHANGED <<status, votes, keys, removals, faults>>

Count(q) ==
    /\ req[q].pc = "count"
    /\ IF Received(req[q].filter) >= Required THEN Goto(q, "update") ELSE End(q)
    /\ UNCHANGED <<status, votes, keys, removals, faults>>

\* UpdateDeploymentApprovalStatus: unconditional; an approved record starts
\* nothing.
Update(q) ==
    /\ req[q].pc = "update"
    /\ status' = IF req[q].kind = "approve" THEN "approved" ELSE "rejected"
    /\ End(q)
    /\ UNCHANGED <<votes, keys, removals, faults>>

\* The client goes away, the database fails or the control plane crashes: the
\* statements made so far stand.
Lost(q) ==
    /\ req[q] # Idle
    /\ Fault
    /\ End(q)
    /\ UNCHANGED <<status, votes, keys, removals>>

\* DELETE of an API key.
RemoveKey(k) ==
    /\ removals < MaxRemovals /\ removals' = removals + 1
    /\ k \in keys /\ keys' = keys \ {k}
    /\ UNCHANGED <<status, votes, req, faults>>

Step(q) ==
    \/ Load(q) \/ CheckVote(q) \/ InsertVote(q) \/ Resolve(q) \/ Count(q) \/ Update(q)

Next ==
    \/ QueueDeploy
    \/ \E q \in Requests, kind \in Kinds, k \in Keys : Receive(q, kind, k)
    \/ \E q \in Requests : Step(q)
    \/ \E q \in Requests : Lost(q)
    \/ \E k \in Keys : RemoveKey(k)

Spec == Init /\ [][Next]_vars

\* A request that is being served goes on to its end.
FairSpec == Spec /\ \A q \in Requests : WF_vars(Step(q))

-----------------------------------------------------------------------------
\* Types: the status is one of the three the schema names.
TypeOK ==
    /\ status \in {"none", "pending", "approved", "rejected"}
    /\ votes \in [Keys -> {"none", "approved", "rejected"}]
    /\ keys \subseteq Keys
    /\ req \in [Requests -> Request]
    /\ removals \in 0..MaxRemovals
    /\ faults \in 0..MaxFaults

\* "two distinct admins": a record that says approved has the approvals of the
\* required number of different keys, and the requester's is not among them,
\* however the statements of concurrent requests interleave.
ApprovedHasQuorum ==
    status = "approved" => /\ Cardinality(Approvers) >= Required
                           /\ Requester \notin Approvers

\* Enough designated reviewers have voted for it.
Enough == Received(ReviewerKeys) >= Required

\* "quorum reached -> starts deploy": when the required number of reviewers have
\* voted "approved", their requests racing each other, the record does not stay
\* pending, unless a request was lost or a key deleted half-way (nobody can vote
\* a second time to move it on).
QuorumDecides == Enough ~> (status # "pending" \/ faults > 0 \/ removals > 0)

\* "One veto outweighs any number of approvals": a rejected record is not
\* approved later.
VetoStands == [][status = "rejected" => status' # "approved"]_vars

\* "only votes from those designated keys count": with reviewer_keys configured
\* an approved record has the required number of designated approvals, as long
\* as the designated keys exist and can be listed (an empty filter lets every
\* vote count).
DesignatedQuorum ==
    status = "approved" /\ ReviewerKeys # {} /\ removals = 0 /\ faults = 0
        => Cardinality(Approvers \cap ReviewerKeys) >= Required
=============================================================================
