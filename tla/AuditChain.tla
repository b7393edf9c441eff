----------------------------- MODULE AuditChain -----------------------------
(***************************************************************************)
(* The tamper-evident log as its package promises it (controlplane/audit): *)
(* a Log over a MemStore. One mutex makes read-tail, hash and persist one  *)
(* step. A hash is the pair it is computed from, so two hashes are equal   *)
(* exactly when what was hashed is equal; the byte encoding is left out.   *)
(***************************************************************************)
EXTENDS Naturals, Sequences

CONSTANT AuditEvents       \* contents: actor, action, target, details, time

VARIABLE entries      \* MemStore.entries

FirstSeq == 1
GenesisPrevHash == <<>>

\* CanonicalBytes: every content field and the sequence number, not the hashes.
CanonicalBytes(e) == <<e.seq, e.event>>

ComputeHash(e) == <<e.prev, CanonicalBytes(e)>>

\* The entry that extends a chain whose last entry is the last of s.
NextEntry(s, ev) ==
    LET e == [seq   |-> IF s = <<>> THEN FirstSeq ELSE s[Len(s)].seq + 1,
              prev  |-> IF s = <<>> THEN GenesisPrevHash ELSE s[Len(s)].hash,
              event |-> ev]
    IN [seq |-> e.seq, prev |-> e.prev, event |-> ev, hash |-> ComputeHash(e)]

\* The three checks Verify makes at one index.
KindSeq(s, i) == s[i].seq # FirstSeq + (i - 1)
KindLink(s, i) == s[i].prev # IF i = 1 THEN GenesisPrevHash ELSE s[i - 1].hash
KindHash(s, i) == s[i].hash # ComputeHash(s[i])

\* Verify reports no break.
Verify(s) == \A i \in 1..Len(s) : ~KindSeq(s, i) /\ ~KindLink(s, i) /\ ~KindHash(s, i)

LogInit == entries = <<>>

\* Log.Append through MemStore.Append, whose own checks NextEntry passes.
LogAppend(ev) == entries' = Append(entries, NextEntry(entries, ev))

LogNext == \E ev \in AuditEvents : LogAppend(ev)

LogSpec == LogInit /\ [][LogNext]_entries
=============================================================================
