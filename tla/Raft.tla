-------------------------------- MODULE Raft --------------------------------
(***************************************************************************)
(* The replicated registry: every member's PurserFSM applies the committed *)
(* Raft log to its own SQLite file (raft/fsm.go).  The consensus itself is *)
(* hashicorp/raft, external: here it is one committed log that every       *)
(* member reads in order.  What the model is about is what that log does   *)
(* to a store that SURVIVES a restart: Snapshot is empty and Restore does  *)
(* nothing, so a restarted member applies the log from its last snapshot   *)
(* AGAIN, onto rows that already show its effects.                         *)
(*                                                                         *)
(* A row is its content and the one field that has a command of its own    *)
(* (a deployment's state, a key's Enabled).  Timestamps, which each member *)
(* takes from its own clock, are left out.                                 *)
(***************************************************************************)
EXTENDS Naturals, Sequences, FiniteSets

CONSTANTS
    Members,      \* control-plane replicas
    Tables,       \* keyed tables: of "node","link","model","plan","deployment","key","cert"
    RowIds,       \* primary keys
    Bodies,       \* contents a row can have
    NoDbRow,      \* no such row
    MaxLog,       \* bound on the committed log
    MaxSnapshots, \* bound on the snapshots taken
    MaxRestarts   \* bound on the restarts

ASSUME RaftAssumption ==
    /\ Tables \subseteq {"node", "link", "model", "plan", "deployment", "key", "cert"}
    /\ MaxLog \in Nat /\ MaxSnapshots \in Nat /\ MaxRestarts \in Nat
    /\ NoDbRow \notin [body : Bodies, flag : BOOLEAN]

VARIABLES
    rlog,      \* the committed Raft log
    db,        \* db[r][t][k]: the row, or NoDbRow
    journal,   \* journal[r]: the rows of the append-only tables, as a sequence
    applied,   \* applied[r]: entries applied since the process started
    snapAt,    \* snapAt[r]: index of r's newest snapshot
    reached,   \* reached[r]: highest index r has ever applied
    skipped,   \* skipped[r]: a snapshot of another member was installed on r
    refused,   \* indices whose command the store refused when first applied
    restarts   \* restarts so far

raftVars == <<rlog, db, journal, applied, snapAt, reached, skipped, refused, restarts>>

(* CommandType and the payloads of a log entry. *)
Command ==
         [op : {"create"}, t : Tables \ {"link"}, k : RowIds, body : Bodies, flag : {TRUE}]
    \cup [op : {"update"}, t : Tables \ {"link", "plan"}, k : RowIds, body : Bodies, flag : BOOLEAN]
    \cup [op : {"delete"}, t : Tables \ {"link"}, k : RowIds]
    \cup [op : {"upsert"}, t : Tables \cap {"link"}, k : RowIds, body : Bodies]
    \cup [op : {"setState"}, t : Tables \cap {"deployment"}, k : RowIds, flag : BOOLEAN]
    \cup [op : {"revoke"}, t : Tables \cap {"key"}, k : RowIds]
    \cup [op : {"usage", "audit", "reserved"}]

-----------------------------------------------------------------------------
(* The store's operations, as the FSM uses them. *)

Exists(d, t, k) == d[t][k] # NoDbRow

(* api_keys.key_hash is UNIQUE, and APIKey.KeyHash is not part of the JSON  *)
(* a command carries: every key created from the log has the hash "", so    *)
(* the table takes one.                                                     *)
HashTaken(d, t) == t = "key" /\ \E k \in RowIds : Exists(d, t, k)

(* CreateX: INSERT; fails on a primary key or unique index that is taken.   *)
CreateRow(d, t, k, body, flag) ==
    IF Exists(d, t, k) \/ HashTaken(d, t) THEN d
    ELSE [d EXCEPT ![t][k] = [body |-> body, flag |-> flag]]

(* UpdateX: UPDATE ... WHERE id = ?, ErrNotFound when no row is affected.   *)
UpdateRow(d, t, k, body, flag) ==
    IF Exists(d, t, k) THEN [d EXCEPT ![t][k] = [body |-> body, flag |-> flag]] ELSE d

(* UpsertLink: ON CONFLICT DO UPDATE, whatever is there.                    *)
UpsertRow(d, t, k, body) == [d EXCEPT ![t][k] = [body |-> body, flag |-> TRUE]]

(* A mutant of DeleteRow: a row in use (flag set) is kept. *)
DeleteRowIdle(d, t, k) ==
    IF Exists(d, t, k) /\ d[t][k].flag THEN d ELSE [d EXCEPT ![t][k] = NoDbRow]

(* DeleteX: ErrNotFound when no row is affected, which changes nothing.     *)
DeleteRow(d, t, k) == [d EXCEPT ![t][k] = NoDbRow]

(* CmdUpdateDeploymentState: read the row, set its state, write it back.    *)
SetState(d, k, flag) ==
    IF Exists(d, "deployment", k) THEN [d EXCEPT !["deployment"][k].flag = flag] ELSE d

(* CmdRevokeAPIKey: read the key, Enabled = false, write it back.           *)
RevokeKey(d, k) ==
    IF Exists(d, "key", k) THEN [d EXCEPT !["key"][k].flag = FALSE] ELSE d

(* Apply on the keyed tables; an error of the store is the entry's answer,  *)
(* and the reserved and unknown commands are ignored.                       *)
ApplyRows(d, c) ==
    CASE c.op = "create"   -> CreateRow(d, c.t, c.k, c.body, c.flag)
      [] c.op = "update"   -> UpdateRow(d, c.t, c.k, c.body, c.flag)
      [] c.op = "delete"   -> DeleteRow(d, c.t, c.k)
      [] c.op = "upsert"   -> UpsertRow(d, c.t, c.k, c.body)
      [] c.op = "setState" -> SetState(d, c.k, c.flag)
      [] c.op = "revoke"   -> RevokeKey(d, c.k)
      [] OTHER             -> d

(* The commands the store answers with an error. *)
Refuses(d, c) ==
    \/ c.op = "create" /\ (Exists(d, c.t, c.k) \/ HashTaken(d, c.t))
    \/ c.op \in {"update", "delete", "setState", "revoke"} /\ ~Exists(d, c.t, c.k)

(* A mutant of ApplyJournal: the usage commands fall among the reserved.    *)
ApplyJournalNoUsage(j, c) == IF c.op = "audit" THEN Append(j, c.op) ELSE j

(* Apply on the append-only tables: RecordUsage and AppendAudit insert a    *)
(* row every time they are called.                                          *)
ApplyJournal(j, c) == IF c.op \in {"usage", "audit"} THEN Append(j, c.op) ELSE j

-----------------------------------------------------------------------------
Empty == [t \in Tables |-> [k \in RowIds |-> NoDbRow]]

(* NewNode on an empty data directory. *)
RaftInit ==
    /\ rlog = <<>>
    /\ db = [r \in Members |-> Empty]
    /\ journal = [r \in Members |-> <<>>]
    /\ applied = [r \in Members |-> 0]
    /\ snapAt = [r \in Members |-> 0]
    /\ reached = [r \in Members |-> 0]
    /\ skipped = [r \in Members |-> FALSE]
    /\ refused = {}
    /\ restarts = 0

(* raft.Apply on the leader commits one more entry (external). *)
Propose(c) ==
    /\ Len(rlog) < MaxLog
    /\ rlog' = Append(rlog, c)
    /\ UNCHANGED <<db, journal, applied, snapAt, reached, skipped, refused, restarts>>

(* The library hands the next committed entry to PurserFSM.Apply. *)
ApplyEntry(r) ==
    /\ applied[r] < Len(rlog)
    /\ LET c == rlog[applied[r] + 1] IN
         /\ db' = [db EXCEPT ![r] = ApplyRows(@, c)]
         /\ journal' = [journal EXCEPT ![r] = ApplyJournal(@, c)]
         /\ refused' = IF applied[r] = reached[r] /\ Refuses(db[r], c)
                       THEN refused \cup {applied[r] + 1} ELSE refused
    /\ applied' = [applied EXCEPT ![r] = @ + 1]
    /\ reached' = [reached EXCEPT ![r] = IF applied[r] + 1 > @ THEN applied[r] + 1 ELSE @]
    /\ UNCHANGED <<rlog, snapAt, skipped, restarts>>

(* Snapshot and Persist: an empty body, at the index applied so far. *)
TakeSnapshot(r) ==
    /\ snapAt[r] < applied[r]
    /\ Cardinality({q \in Members : snapAt[q] > 0}) < MaxSnapshots
    /\ snapAt' = [snapAt EXCEPT ![r] = applied[r]]
    /\ UNCHANGED <<rlog, db, journal, applied, reached, skipped, refused, restarts>>

(* InstallSnapshot reaches a member that is behind another's snapshot:      *)
(* Restore drains the empty body, and the library takes the member to be    *)
(* at the snapshot's index.                                                 *)
Restore(r, q) ==
    /\ applied[r] < snapAt[q]
    /\ applied' = [applied EXCEPT ![r] = snapAt[q]]
    /\ snapAt' = [snapAt EXCEPT ![r] = snapAt[q]]
    /\ skipped' = [skipped EXCEPT ![r] = TRUE]
    /\ reached' = [reached EXCEPT ![r] = IF snapAt[q] > @ THEN snapAt[q] ELSE @]
    /\ UNCHANGED <<rlog, db, journal, refused, restarts>>

(* The process restarts: NewNode opens the same stores, restores the        *)
(* member's own snapshot, and applies the log from there.                   *)
NewNode(r) ==
    /\ applied[r] > snapAt[r]
    /\ restarts < MaxRestarts
    /\ restarts' = restarts + 1
    /\ applied' = [applied EXCEPT ![r] = snapAt[r]]
    /\ UNCHANGED <<rlog, db, journal, snapAt, reached, skipped, refused>>

RaftNext ==
    \/ \E c \in Command : Propose(c)
    \/ \E r \in Members : ApplyEntry(r) \/ TakeSnapshot(r) \/ NewNode(r)
    \/ \E r, q \in Members : Restore(r, q)

RaftSpec == RaftInit /\ [][RaftNext]_raftVars

-----------------------------------------------------------------------------
CaughtUp(r) ==
    /\ applied[r] = reached[r]
    /\ ~skipped[r]
    /\ refused \cap (1..applied[r]) = {}

(* fsm.go Apply, "given the same log the same state must result on every    *)
(* node": two members that have applied the same entries hold the same      *)
(* keyed rows, however often either of them has restarted and applied a     *)
(* part of the log again, as long as the store refused none of them.  (An   *)
(* update refused before its row was created succeeds when it is replayed.) *)
ReplayIsIdempotent ==
    \A r, q \in Members :
        CaughtUp(r) /\ CaughtUp(q) /\ applied[r] = applied[q] => db[r] = db[q]

InLog(op, n) == Cardinality({i \in 1..n : rlog[i].op = op})

Recorded(r, op) == Cardinality({i \in DOMAIN journal[r] : journal[r][i] = op})

(* RecordUsage and AppendAudit through the log: every committed entry a     *)
(* member has applied is in its usage and audit tables at least once        *)
(* (exactly once only while it never restarts).                             *)
JournalAtLeastOnce ==
    \A r \in Members : ~skipped[r] =>
        \A op \in {"usage", "audit"} : Recorded(r, op) >= InLog(op, reached[r])
=============================================================================
