------------------------------- MODULE Ledger -------------------------------
(***************************************************************************)
(* The two hash-chained tables: audit_log (registry/sqlite.go) and         *)
(* inference_audit_log (registry/inference_audit_sqlite.go), with their    *)
(* verification, the paged listing, GDPR erasure (server/gdpr.go), and     *)
(* backup and restore of the database file (controlplane/backup).          *)
(*                                                                         *)
(* A writer is a request of some control-plane process. auditMu and        *)
(* inferenceAuditMu serialise the writers of ONE process; between          *)
(* processes there is only the database: a transaction that wrote nothing  *)
(* yet fails at its insert when the table it read has changed. Any error,  *)
(* and a client that goes away, rolls the transaction back.                *)
(***************************************************************************)
EXTENDS AuditChain, FiniteSets

CONSTANTS
    Writers, Procs, ProcOf,   \* requests in flight and the process of each
    InfRequests,                 \* inference request ids
    KeyHashes,                     \* hashes of API keys; ERASED replaces one
    MaxAudit,                 \* bound: audit rows
    Limit,                    \* page size of a listing
    Legacy                    \* number of audit rows older than the chain

ASSUME LedgerAssumption ==
    /\ ProcOf \in [Writers -> Procs]
    /\ Limit \in Nat \ {0} /\ MaxAudit \in Nat /\ Legacy \in 0..MaxAudit

ERASED == "erased"
NoSeq == 0
NoTx == [log |-> "none"]

VARIABLES
    inf,        \* inference_audit_log in the order of id: chained rows
    tx,         \* the transaction of each writer
    acked,      \* history: requests whose recording was answered 204
    erasures,   \* gdpr_erasure_log
    page,       \* a client paging through inf: [cursor, got, upto, done]
    backup      \* the backup file: NoBackup or the two tables

\* entries holds the whole audit_log table here, legacy rows included.
ledgerVars == <<entries, inf, tx, acked, erasures, page, backup>>

NoBackup == [audit |-> "none"]

\* Where the chain's rows are: those without a sequence number predate it.
InChain(s) == {i \in 1..Len(s) : s[i].seq >= FirstSeq}

\* The chain: its k-th row is the one with k positions of InChain up to its own.
Chained(s) ==
    [k \in 1..Cardinality(InChain(s)) |->
        s[CHOOSE i \in InChain(s) : Cardinality({j \in InChain(s) : j <= i}) = k]]

\* ChainEntry: what is hashed again of a stored row. Times and details keep their
\* value through the columns (detailsToMap, RFC3339Nano), so the event is the same.
ChainEntry(row) == [seq |-> row.seq, prev |-> row.prev, event |-> row.event, hash |-> row.hash]

\* ListAudit: the newest rows first.
ListAudit(limit) ==
    [i \in 1..(IF limit < Len(entries) THEN limit ELSE Len(entries)) |-> entries[Len(entries) + 1 - i]]

\* The endpoint turns the rows around, skips the legacy ones and verifies the rest.
handleEnterpriseAuditLog(limit) ==
    LET rows  == ListAudit(limit)
        chain == Chained([i \in 1..Len(rows) |-> ChainEntry(rows[Len(rows) + 1 - i])])
    IN [length |-> Len(chain), verified |-> Verify(chain)]

LegacyRow == [seq |-> NoSeq, prev |-> "", event |-> "legacy", hash |-> ""]

LedgerInit ==
    /\ entries = [i \in 1..Legacy |-> LegacyRow]
    /\ inf = <<>>
    /\ tx = [w \in Writers |-> NoTx]
    /\ acked = {} /\ erasures = {}
    /\ page = [cursor |-> 0, got |-> <<>>, upto |-> 0, done |-> TRUE]
    /\ backup = NoBackup

(***************************************************************************)
(* Transactions                                                            *)
(***************************************************************************)

\* The mutex of w's process over this log is free.
MuFree(w, log) == \A v \in Writers :
    ProcOf[v] = ProcOf[w] => tx[v].log # log

SetTx(w, t) == tx' = [tx EXCEPT ![w] = t]
EndTx(w) == SetTx(w, NoTx)

\* AppendAudit up to the insert: lock, begin, read the tail, hash.
AuditRead(w, ev) ==
    /\ tx[w] = NoTx
    /\ MuFree(w, "audit")
    /\ Len(entries) < MaxAudit
    /\ SetTx(w, [log |-> "audit", row |-> NextEntry(Chained(entries), ev), base |-> Len(entries)])
    /\ UNCHANGED <<entries, inf, acked, erasures, page, backup>>

\* Mutant: the tail's hash is kept from an earlier read, the number is fresh.
AuditInsertStaleTail(w) ==
    /\ tx[w].log = "audit"
    /\ entries' = Append(entries,
         [NextEntry(Chained(entries), tx[w].row.event) EXCEPT !.prev = tx[w].row.prev])
    /\ EndTx(w)
    /\ UNCHANGED <<inf, acked, erasures, page, backup>>

\* Mutant: a retry within the transaction appends the event a second time.
AuditInsertTwice(w) ==
    /\ tx[w].log = "audit"
    /\ IF tx[w].base = Len(entries)
       THEN LET once == Append(entries, tx[w].row)
            IN entries' = Append(once, NextEntry(Chained(once), tx[w].row.event))
       ELSE UNCHANGED entries
    /\ EndTx(w)
    /\ UNCHANGED <<inf, acked, erasures, page, backup>>

\* Insert and commit. A process that lost the race gets an error.
AuditInsert(w) ==
    /\ tx[w].log = "audit"
    /\ IF tx[w].base = Len(entries)
       THEN entries' = Append(entries, tx[w].row)
       ELSE UNCHANGED entries
    /\ EndTx(w)
    /\ UNCHANGED <<inf, acked, erasures, page, backup>>

\* canonicalInferenceEventBytes: request, key and tenant are hashed; the client's
\* address prefix and the latency are not.
canonicalInferenceEventBytes(r) == <<r.prev, r.seq, r.req, r.key>>

InferenceRow(req, key) ==
    LET r == [seq  |-> IF inf = <<>> THEN FirstSeq ELSE inf[Len(inf)].seq + 1,
              prev |-> IF inf = <<>> THEN GenesisPrevHash ELSE inf[Len(inf)].hash,
              req |-> req, key |-> key]
    IN [seq |-> r.seq, prev |-> r.prev, req |-> req, key |-> key,
        hash |-> canonicalInferenceEventBytes(r)]

\* RecordInferenceEvent up to the insert: lock, begin, read the tail, hash. The
\* gateway may send a request twice.
InferenceRead(w, req, key) ==
    /\ tx[w] = NoTx
    /\ MuFree(w, "inference")
    /\ SetTx(w, [log |-> "inference", row |-> InferenceRow(req, key), base |-> Len(inf)])
    /\ UNCHANGED <<entries, inf, acked, erasures, page, backup>>

Recorded(s) == {s[i].req : i \in 1..Len(s)}

\* handleRecordInferenceEvent answers 204 when the recording returned no error.
handleRecordInferenceEvent(req) == acked' = acked \cup {req}

\* Mutant: INSERT OR IGNORE also swallows a number another process has taken.
InferenceInsertIgnores(w) ==
    /\ tx[w].log = "inference"
    /\ inf' = IF tx[w].base = Len(inf) /\ tx[w].row.req \notin Recorded(inf)
              THEN Append(inf, tx[w].row) ELSE inf
    /\ handleRecordInferenceEvent(tx[w].row.req)
    /\ EndTx(w)
    /\ UNCHANGED <<entries, erasures, page, backup>>

\* Mutant: the row hashed before another process's append is inserted after it.
InferenceInsertUnchecked(w) ==
    /\ tx[w].log = "inference"
    /\ inf' = IF tx[w].row.req \in Recorded(inf) THEN inf ELSE Append(inf, tx[w].row)
    /\ handleRecordInferenceEvent(tx[w].row.req)
    /\ EndTx(w)
    /\ UNCHANGED <<entries, erasures, page, backup>>

\* INSERT OR IGNORE on the unique request id, commit, 204.
InferenceInsert(w) ==
    /\ tx[w].log = "inference"
    /\ IF tx[w].base # Len(inf)
       THEN UNCHANGED <<inf, acked>>
       ELSE /\ inf' = IF tx[w].row.req \in Recorded(inf) THEN inf ELSE Append(inf, tx[w].row)
            /\ handleRecordInferenceEvent(tx[w].row.req)
    /\ EndTx(w)
    /\ UNCHANGED <<entries, erasures, page, backup>>

Rollback(w) ==
    /\ tx[w].log \in {"audit", "inference"}
    /\ EndTx(w)
    /\ UNCHANGED <<entries, inf, acked, erasures, page, backup>>

\* The row that breaks the chain at i: its number, its link or its hash.
Breaks(s, i) ==
    \/ s[i].seq # IF i = 1 THEN FirstSeq ELSE s[i - 1].seq + 1
    \/ s[i].prev # IF i = 1 THEN GenesisPrevHash ELSE s[i - 1].hash
    \/ s[i].hash # canonicalInferenceEventBytes(s[i])

\* VerifyInferenceChain stops at the first break and reports its number.
VerifyInferenceChain(s) ==
    IF \A i \in 1..Len(s) : ~Breaks(s, i)
    THEN [length |-> Len(s), verified |-> TRUE, break |-> 0]
    ELSE LET i == CHOOSE k \in 1..Len(s) : Breaks(s, k) /\ \A j \in 1..(k - 1) : ~Breaks(s, j)
         IN [length |-> i - 1, verified |-> FALSE, break |-> s[i].seq]

\* The endpoint's answer.
handleVerifyInferenceChain == VerifyInferenceChain(inf)

(***************************************************************************)
(* GDPR erasure: overwrite the rows, log the erasure (a failure there is   *)
(* only logged), append to the audit log.                                  *)
(***************************************************************************)

EraseInferenceEventsBySubject(key) ==
    inf' = [i \in 1..Len(inf) |->
              IF inf[i].key = key THEN [inf[i] EXCEPT !.key = ERASED] ELSE inf[i]]

\* The insert into gdpr_erasure_log, or its failure.
RecordGDPRErasure(key) == erasures' \in {erasures, erasures \cup {key}}

EraseBegin(w, key) ==
    /\ tx[w] = NoTx
    /\ EraseInferenceEventsBySubject(key)
    /\ SetTx(w, [log |-> "erasure", key |-> key])
    /\ UNCHANGED <<entries, acked, erasures, page, backup>>

\* The audit entry is appended last; its error is dropped.
EraseEnd(w) ==
    /\ tx[w].log = "erasure" /\ MuFree(w, "audit")
    /\ RecordGDPRErasure(tx[w].key)
    /\ IF Len(entries) < MaxAudit
       THEN SetTx(w, [log |-> "audit", row |-> NextEntry(Chained(entries), "gdpr.erasure.completed"),
                    base |-> Len(entries)])
       ELSE EndTx(w)
    /\ UNCHANGED <<entries, inf, acked, page, backup>>

handleGDPRErasure(w, key) == EraseBegin(w, key) \/ (EraseEnd(w) /\ tx[w].key = key)

(***************************************************************************)
(* ListInferenceEvents, paged: id > page_token, one row more than the page *)
(* to see whether there is a next one.                                     *)
(***************************************************************************)

StartPaging ==
    /\ page.done /\ page.got = <<>> /\ Len(inf) > 0
    /\ page' = [cursor |-> 0, got |-> <<>>, upto |-> Len(inf), done |-> FALSE]
    /\ UNCHANGED <<entries, inf, tx, acked, erasures, backup>>

Ids(from, n) == [i \in 1..n |-> from + i]
Fetched == IF Len(inf) - page.cursor > Limit + 1 THEN Limit + 1 ELSE Len(inf) - page.cursor

\* Mutant: the next page starts after the row that was only looked ahead at.
ListInferenceEventsSkips ==
    /\ ~page.done
    /\ IF Fetched > Limit
       THEN page' = [page EXCEPT !.got = @ \o Ids(page.cursor, Limit),
                                 !.cursor = page.cursor + Limit + 1]
       ELSE page' = [page EXCEPT !.got = @ \o Ids(page.cursor, Fetched), !.done = TRUE]
    /\ UNCHANGED <<entries, inf, tx, acked, erasures, backup>>

ListInferenceEvents ==
    /\ ~page.done
    /\ IF Fetched > Limit
       THEN page' = [page EXCEPT !.got = @ \o Ids(page.cursor, Limit),
                                 !.cursor = page.cursor + Limit]
       ELSE page' = [page EXCEPT !.got = @ \o Ids(page.cursor, Fetched), !.done = TRUE]
    /\ UNCHANGED <<entries, inf, tx, acked, erasures, backup>>

(***************************************************************************)
(* Backup and restore                                                      *)
(***************************************************************************)

\* BackupDB: VACUUM INTO copies one committed state; the target must not exist.
BackupDB ==
    /\ backup = NoBackup
    /\ backup' = [audit |-> entries, inf |-> inf, gdpr |-> erasures]
    /\ UNCHANGED <<entries, inf, tx, acked, erasures, page>>

\* RestoreDB, with the control plane stopped: the rename replaces the whole file.
\* What was acknowledged since the backup is gone; a client's paging is over.
RestoreDB ==
    /\ backup # NoBackup
    /\ tx = [w \in Writers |-> NoTx]
    /\ entries' = backup.audit
    /\ inf' = backup.inf
    /\ acked' = acked \cap Recorded(backup.inf)
    /\ page' = [cursor |-> 0, got |-> <<>>, upto |-> 0, done |-> TRUE]
    /\ erasures' = backup.gdpr
    /\ UNCHANGED <<tx, backup>>

LedgerNext ==
    \/ \E w \in Writers :
         \/ \E ev \in AuditEvents : AuditRead(w, ev)
         \/ AuditInsert(w)
         \/ \E r \in InfRequests, k \in KeyHashes : InferenceRead(w, r, k)
         \/ InferenceInsert(w)
         \/ Rollback(w)
         \/ \E k \in KeyHashes : handleGDPRErasure(w, k)
    \/ StartPaging \/ ListInferenceEvents
    \/ BackupDB \/ RestoreDB

LedgerSpec == LedgerInit /\ [][LedgerNext]_ledgerVars

(***************************************************************************)
(* Properties                                                              *)
(***************************************************************************)

\* Types: the page token is never past the table, also after a restore.
LedgerTypeOK ==
    /\ acked \subseteq InfRequests /\ erasures \subseteq KeyHashes
    /\ \A w \in Writers : tx[w].log \in {"none", "audit", "inference", "erasure"}
    /\ \A i \in 1..Len(inf) : inf[i].req \in InfRequests /\ inf[i].key \in KeyHashes \cup {ERASED}
    /\ page.cursor \in 0..Len(inf) /\ page.upto \in 0..Len(inf)

\* The verification endpoint reports an intact chain whatever processes append
\* concurrently, whichever transactions fail, after any restore, and with rows
\* from before the chain in the table.
AuditVerifies ==
    handleEnterpriseAuditLog(MaxAudit) = [length |-> Len(Chained(entries)), verified |-> TRUE]

\* The inference chain verifies as long as no row of it was erased.
InferenceVerifies ==
    (\A i \in 1..Len(inf) : inf[i].key # ERASED) => handleVerifyInferenceChain.verified

\* A request answered 204 is in the log exactly once, duplicates sent by the
\* gateway and races between processes included.
AckedOnce ==
    /\ acked \subseteq Recorded(inf)
    /\ \A i, j \in 1..Len(inf) : inf[i].req = inf[j].req => i = j

\* A client that pages to the end has every row that was there when it started,
\* each once and in order, although rows are appended between its pages.
PagesCoverLog ==
    /\ page.got = Ids(0, Len(page.got))
    /\ page.done => Len(page.got) >= page.upto

\* The database's chain is a Log: every step of the table is an append of the
\* abstract chain, or nothing. A restore goes back to an earlier chain.
Log == INSTANCE AuditChain WITH entries <- Chained(entries),
                                AuditEvents <- AuditEvents \cup {"gdpr.erasure.completed"}
ChainStep == Log!LogNext \/ RestoreDB \/ UNCHANGED Chained(entries)
ChainSteps == [][ChainStep]_ledgerVars
=============================================================================
