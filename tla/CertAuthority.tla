--------------------------- MODULE CertAuthority ---------------------------
(***************************************************************************)
(* The internal certificate authority (controlplane/pki/ca.go) and the     *)
(* rows of the certs table (registry/sqlite.go).                           *)
(*                                                                         *)
(* A CA keypair is a number, in the order the keypairs were generated.     *)
(* Validity is an age: 0 is more than 60 days left, 1 is at most 60 days   *)
(* left, 2 is expired. Every leaf gets the same TTL, so an earlier leaf is *)
(* never younger than a later one. The 72 hours of rotation grace end by   *)
(* an event, GraceExpires. Key material, PEM and DER are left out; of the  *)
(* encryption of ca.key only "which passphrase reads it" is kept.          *)
(*                                                                         *)
(* Rotations do not overlap here. Rotate itself takes the lock only for    *)
(* the swap, and nothing keeps a second call from starting before the      *)
(* first has written its files; but no code of the repository calls it,    *)
(* beside tests that call it once at a time. What is shown of a rotation   *)
(* below is shown of one that runs alone, next to issuing, revoking,       *)
(* crashes and restarts: the comment that an Authority "is safe for        *)
(* concurrent use" is not examined for two rotations at once.              *)
(***************************************************************************)
EXTENDS Naturals, Sequences

CONSTANTS
    Subjects,      \* common names of leaves: the node ids
    MaxCA,         \* bound: CA keypairs ever generated
    MaxCerts,      \* bound: leaf certificates ever issued
    Passphrases    \* values of PURSER_PKI_KEY_PASSPHRASE; NoPassphrase is "unset"

ASSUME CAAssumption == MaxCA \in Nat \ {0} /\ MaxCerts \in Nat

NoCA == 0
NoPassphrase == "unset"

VARIABLES
    certs,     \* leaf rows, ORDER BY created_at: [subject, ca, state, age]
    caRow,     \* certs rows of the CAs: "none", "issued" or "rotated"
    made,      \* CA keypairs generated so far
    active,    \* the signing CA's certificate in memory
    akey,      \* and the key in memory
    old,       \* the CA kept in the trust bundle after a rotation, or NoCA
    disk,      \* ca.crt and ca.key: which CA each holds; the key's passphrase
    passphrase,      \* this process's passphrase
    rot        \* progress of the running generate(): "idle", "swapped",
               \* "generated", "crt"

caVars == <<certs, caRow, made, active, akey, old, disk, passphrase, rot>>

CAs == 1..MaxCA
Leaf == [subject: Subjects, ca: CAs, state: {"issued", "revoked"}, age: 0..2]

CATypeOK ==
    /\ certs \in Seq(Leaf)
    /\ caRow \in [CAs -> {"none", "issued", "rotated"}]
    /\ made \in CAs /\ active \in CAs /\ akey \in CAs
    /\ old \in CAs \cup {NoCA}
    /\ disk \in [crt: CAs, key: CAs, enc: Passphrases]
    /\ passphrase \in Passphrases
    /\ rot \in {"idle", "swapped", "generated", "crt"}

\* A first start with an empty directory has run loadOrCreate to its end.
CAInit ==
    /\ certs = <<>>
    /\ caRow = [k \in CAs |-> IF k = 1 THEN "issued" ELSE "none"]
    /\ made = 1 /\ active = 1 /\ akey = 1
    /\ old = NoCA
    /\ passphrase \in Passphrases
    /\ disk = [crt |-> 1, key |-> 1, enc |-> passphrase]
    /\ rot = "idle"

(***************************************************************************)
(* Operators the fleet manager's calls are built from.                     *)
(***************************************************************************)

\* recordCA: upsert of the CA's row.
recordCA(row, k) == [row EXCEPT ![k] = "issued"]

\* CreateCert for a leaf signed earlier by CA k (Issue's last step).
CreateCert(n, k) ==
    certs' = Append(certs, [subject |-> n, ca |-> k, state |-> "issued", age |-> 0])

\* Revoke(serial): GetCert, State = revoked, UpdateCert. Nothing else writes a
\* leaf's row, so the read and the write make one step.
Revoke(i) == certs' = [certs EXCEPT ![i].state = "revoked"]

\* What CertPool trusts now.
CertPool == {active} \cup ({old} \ {NoCA})

\* VerifyClient: chain, validity, revocation.
VerifyClient(i) ==
    /\ certs[i].ca \in CertPool
    /\ certs[i].age < 2
    /\ certs[i].state # "revoked"

\* Signing with a key that is not the CA certificate's own fails.
CanSign == active = akey

\* Does the process's passphrase read ca.key? A plain key is read as it is.
decryptKeyPEM(enc, p) == enc \in {NoPassphrase, p}

\* Mutant: a key that does not read is replaced by a fresh one, the certificate kept.
adoptFreshKey(p) ==
    /\ active' = disk.crt
    /\ akey' = IF decryptKeyPEM(disk.enc, p) THEN disk.key ELSE made
    /\ passphrase' = p
    /\ caRow' = recordCA(caRow, disk.crt)
    /\ old' = NoCA
    /\ rot' = "idle"
    /\ UNCHANGED <<certs, made, disk>>

\* Start with the files on disk: adopt the pair as found and record the CA. The
\* grace-period CA was only in memory.
adopt(p) ==
    /\ decryptKeyPEM(disk.enc, p)
    /\ active' = disk.crt
    /\ akey' = disk.key
    /\ passphrase' = p
    /\ caRow' = recordCA(caRow, disk.crt)
    /\ old' = NoCA
    /\ rot' = "idle"
    /\ UNCHANGED <<certs, made, disk>>

(***************************************************************************)
(* Rotation: Rotate moves the active CA to the grace slot and marks its    *)
(* row, generate installs the new CA in memory, writes ca.crt, then ca.key *)
(* and records the new CA.                                                 *)
(***************************************************************************)

\* Mutant: the grace slot is filled only when it is empty.
RotateSwapKeepsOld ==
    /\ rot = "idle"
    /\ made < MaxCA
    /\ old' = IF old = NoCA THEN active ELSE old
    /\ caRow' = [caRow EXCEPT ![active] = IF @ = "none" THEN @ ELSE "rotated"]
    /\ rot' = "swapped"
    /\ UNCHANGED <<certs, made, active, akey, disk, passphrase>>

\* rot = "idle" is the assumption that rotations do not overlap, not a check of the code.
RotateSwap ==
    /\ rot = "idle"
    /\ made < MaxCA
    /\ old' = active
    /\ caRow' = [caRow EXCEPT ![active] = IF @ = "none" THEN @ ELSE "rotated"]
    /\ rot' = "swapped"
    /\ UNCHANGED <<certs, made, active, akey, disk, passphrase>>

generate ==
    /\ rot = "swapped"
    /\ made' = made + 1
    /\ active' = made + 1
    /\ akey' = made + 1
    /\ rot' = "generated"
    /\ UNCHANGED <<certs, caRow, old, disk, passphrase>>

\* Mutant: the CA's row is written before ca.key is.
WriteCrtRecordsEarly ==
    /\ rot = "generated"
    /\ \/ disk' = [disk EXCEPT !.crt = active] /\ rot' = "crt"
       \/ disk' = disk /\ rot' = "idle"
    /\ caRow' = recordCA(caRow, active)
    /\ UNCHANGED <<certs, made, active, akey, old, passphrase>>

\* A write that fails returns the error: the new CA stays active in memory and
\* its row is never recorded.
WriteCrt ==
    /\ rot = "generated"
    /\ \/ disk' = [disk EXCEPT !.crt = active] /\ rot' = "crt"
       \/ disk' = disk /\ rot' = "idle"
    /\ UNCHANGED <<certs, caRow, made, active, akey, old, passphrase>>

WriteKey ==
    /\ rot = "crt"
    /\ rot' = "idle"
    /\ \/ /\ disk' = [disk EXCEPT !.key = active, !.enc = passphrase]
          /\ caRow' = recordCA(caRow, active)
       \/ UNCHANGED <<disk, caRow>>
    /\ UNCHANGED <<certs, made, active, akey, old, passphrase>>

\* The 72 hours after a rotation are over, long after its last step.
GraceExpires ==
    /\ old # NoCA
    /\ rot = "idle"
    /\ old' = NoCA
    /\ UNCHANGED <<certs, caRow, made, active, akey, disk, passphrase, rot>>

CertAges ==
    /\ \E i \in 1..Len(certs) :
        /\ certs[i].age < 2
        /\ \A j \in 1..(i - 1) : certs[j].age > certs[i].age
        /\ certs' = [certs EXCEPT ![i].age = @ + 1]
    /\ UNCHANGED <<caRow, made, active, akey, old, disk, passphrase, rot>>

\* Issue signs with the active pair as one read under the lock and records the leaf.
Issue(n) ==
    /\ CanSign
    /\ Len(certs) < MaxCerts
    /\ CreateCert(n, active)
    /\ UNCHANGED <<caRow, made, active, akey, old, disk, passphrase, rot>>

RevokeLeaf(i) ==
    /\ certs[i].state = "issued"
    /\ Revoke(i)
    /\ UNCHANGED <<caRow, made, active, akey, old, disk, passphrase, rot>>

\* A crash at any point, and a start by New: both files are there, so loadOrCreate
\* adopts them. A passphrase that does not read the key keeps the process down.
Restart == \E p \in Passphrases : adopt(p)

CANext ==
    \/ RotateSwap \/ generate \/ WriteCrt \/ WriteKey
    \/ GraceExpires \/ CertAges
    \/ \E n \in Subjects : Issue(n)
    \/ \E i \in 1..Len(certs) : RevokeLeaf(i)
    \/ Restart

CASpec == CAInit /\ [][CANext]_caVars

(***************************************************************************)
(* Properties                                                              *)
(***************************************************************************)

\* A CA that is active, recorded as issued and able to sign is the one on disk,
\* certificate and key: writeDisk comes before recordCA, so whatever cut a
\* rotation short, the row is never ahead of the files a restart adopts.
RecordedCAIsDurable ==
    rot = "idle" /\ akey = active /\ caRow[active] = "issued"
        => disk.crt = active /\ disk.key = active

\* The authority lacks its own key only while the files on disk are the two halves
\* of an interrupted rotation: nothing else makes a restart unable to sign.
OnlyTornWriteDisarms == akey # active => disk.crt # disk.key

\* Zero-downtime rotation: no step of a rotation, whether it succeeds or fails to
\* write a file, makes a leaf of the CA it replaces stop verifying.
RotationStep ==
    RotateSwap \/ generate \/ WriteCrt \/ WriteKey =>
        \A i \in 1..Len(certs) :
            VerifyClient(i) /\ certs[i].ca = active => VerifyClient(i)'
RotationKeepsTrust == [][RotationStep]_caVars
=============================================================================
