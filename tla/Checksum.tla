------------------------------ MODULE Checksum ------------------------------
(***************************************************************************)
(* The server-side SHA-256 of every vault object: the sweep's claim, read  *)
(* and conditional record (internal/store/checksum.go,                     *)
(* internal/worker/checksum.go), the derive job that hashes what it        *)
(* downloads (internal/worker/worker.go) and the operator's backfill       *)
(* (cmd/plate/main.go), which is one more sweep.                           *)
(*                                                                         *)
(* Bytes are a version: 1 as finalized, one more each time the presigned   *)
(* PUT, which outlives finalize, is used again; 0 is no object.  A PUT has *)
(* the declared size, so a read never differs from the record by length    *)
(* alone.  Time is the set of stamps younger than the retry back-off.      *)
(*                                                                         *)
(* Names of the form Name_Variant are faulty versions of Name that the     *)
(* properties rule out; nothing else uses them.                            *)
(***************************************************************************)
EXTENDS Integers

CONSTANTS
    ChecksumAssets,   \* asset ids, in order of creation
    Backlog,          \* those there from the start; the others arrive
    Derivable,        \* those a derive job may be enqueued for
    Unreadable,       \* those whose object can never be read in full
    Sweeps,           \* workers' sweep loops and operators' backfills
    MaxReputs,        \* bound: uses of a presigned PUT after finalize
    MaxDerives,       \* bound: derive jobs enqueued
    MaxTrouble        \* bound: interruptions, crashes and passing failures

ASSUME ChecksumAssetsAssumption ==
    /\ ChecksumAssets \subseteq Nat \ {0} /\ Backlog \subseteq ChecksumAssets
    /\ Derivable \subseteq ChecksumAssets /\ Unreadable \subseteq ChecksumAssets
ASSUME ChecksumBoundsAssumption ==
    MaxReputs \in Nat /\ MaxDerives \in Nat /\ MaxTrouble \in Nat

VARIABLES
    rows,      \* absent (not finalized), live, deleted, purged
    sums,      \* the verified checksum: md5 or sha256, and of which bytes
    stored,    \* the version of the bytes in the vault
    stamped,   \* the assets with a checksum_checked_at
    older,     \* pairs of them: the first one's stamp is older than the second's
    recent,    \* those stamped within the back-off
    sweep,     \* the asset each sweep holds (0: none) and the bytes it has read
    derive,    \* the derive job of each asset and the bytes it has downloaded
    reputs, derives, trouble

tables       == <<rows, sums>>
stamps       == <<stamped, older, recent>>
counters     == <<reputs, derives, trouble>>
checksumVars == <<tables, stored, stamps, sweep, derive, counters>>

Versions == 0 .. MaxReputs + 1
NoSum    == [alg |-> "none", of |-> 0]
Sha(v)   == [alg |-> "sha256", of |-> v]
Idle     == [asset |-> 0, read |-> 0]
NoJob    == [job |-> "none", read |-> 0]

ChecksumTypeOK ==
    /\ rows \in [ChecksumAssets -> {"absent", "live", "deleted", "purged"}]
    /\ sums \in [ChecksumAssets -> [alg: {"none", "md5", "sha256"}, of: Versions]]
    /\ stored \in [ChecksumAssets -> Versions]
    /\ stamped \subseteq ChecksumAssets /\ older \subseteq stamped \X stamped
    /\ recent \subseteq stamped
    /\ sweep \in [Sweeps -> [asset: ChecksumAssets \cup {0}, read: Versions]]
    /\ derive \in [ChecksumAssets -> [job: {"none", "queued", "running"}, read: Versions]]
    /\ reputs \in 0 .. MaxReputs /\ derives \in 0 .. MaxDerives /\ trouble \in 0 .. MaxTrouble

\* Finalize records a client's md5 when it matches the ETag, and no other sum.
AtFinalize == {NoSum, [alg |-> "md5", of |-> 1]}

ChecksumInit ==
    /\ rows = [a \in ChecksumAssets |-> IF a \in Backlog THEN "live" ELSE "absent"]
    /\ sums \in {s \in [ChecksumAssets -> AtFinalize] :
                    \A a \in ChecksumAssets \ Backlog : s[a] = NoSum}
    /\ stored = [a \in ChecksumAssets |-> IF a \in Backlog THEN 1 ELSE 0]
    /\ stamped = {} /\ older = {} /\ recent = {}
    /\ sweep = [s \in Sweeps |-> Idle]
    /\ derive = [a \in ChecksumAssets |-> NoJob]
    /\ reputs = 0 /\ derives = 0 /\ trouble = 0

------------------------------------------------------------------------------
\* Assets and their objects (the API, the deletion sweep, the client)

Finalize(a) ==
    /\ rows[a] = "absent"
    /\ rows' = [rows EXCEPT ![a] = "live"]
    /\ \E s \in AtFinalize : sums' = [sums EXCEPT ![a] = s]
    /\ stored' = [stored EXCEPT ![a] = 1]
    /\ UNCHANGED <<stamps, sweep, derive, counters>>

Reput(a) ==
    /\ rows[a] = "live" /\ reputs < MaxReputs
    /\ stored' = [stored EXCEPT ![a] = @ + 1]
    /\ reputs' = reputs + 1
    /\ UNCHANGED <<tables, stamps, sweep, derive, derives, trouble>>

MarkDeleted(a) ==
    /\ rows[a] = "live"
    /\ rows' = [rows EXCEPT ![a] = "deleted"]
    /\ UNCHANGED <<sums, stored, stamps, sweep, derive, counters>>

DeleteVaultObject(a) ==
    /\ rows[a] = "deleted" /\ stored[a] # 0
    /\ stored' = [stored EXCEPT ![a] = 0]
    /\ UNCHANGED <<tables, stamps, sweep, derive, counters>>

\* The pairs that are left when one asset's stamp is gone.
OlderBut(a) == {p \in older : p[1] # a /\ p[2] # a}

\* checksum_checked_at = NULL.
Unstamp(a) ==
    /\ stamped' = stamped \ {a}
    /\ older' = OlderBut(a)
    /\ recent' = recent \ {a}

\* The row takes its checksum and its stamp with it.
PurgeAsset(a) ==
    /\ rows[a] = "deleted" /\ stored[a] = 0
    /\ rows' = [rows EXCEPT ![a] = "purged"]
    /\ sums' = [sums EXCEPT ![a] = NoSum]
    /\ Unstamp(a)
    /\ UNCHANGED <<stored, sweep, derive, counters>>

------------------------------------------------------------------------------
\* Claim, read, record

\* MarkChecksumVerified: a purged asset is left alone, and so is a verified
\* sha256 that differs from the one computed.
MarkChecksumVerified_Overwrites(a, v) ==
    IF rows[a] = "purged" THEN sums ELSE [sums EXCEPT ![a] = Sha(v)]
MarkChecksumVerified(a, v) ==
    IF rows[a] = "purged" \/ sums[a].alg = "sha256" THEN sums
    ELSE [sums EXCEPT ![a] = Sha(v)]

\* pendingChecksumSQL: an md5 checked against the ETag is not enough.
Pending_AnyAlg(a) == rows[a] = "live" /\ sums[a].alg = "none"
Pending(a)        == rows[a] = "live" /\ sums[a].alg # "sha256"

Candidate(a) == Pending(a) /\ a \notin recent /\ derive[a].job = "none"

\* ORDER BY checksum_checked_at NULLS FIRST, created DESC, id: the modelled assets
\* have different created stamps, so the id never decides.
ClaimedBefore_NullsLast(a, b) ==
    \/ a \in stamped /\ b \notin stamped
    \/ a \notin stamped /\ b \notin stamped /\ a > b
    \/ <<a, b>> \in older
ClaimedBefore(a, b) ==
    \/ a \notin stamped /\ b \in stamped
    \/ a \notin stamped /\ b \notin stamped /\ a > b
    \/ <<a, b>> \in older

\* A claim stamps its asset, which hides it for the length of the back-off.
Stamp_Forgotten(a) == UNCHANGED stamps
Stamp(a) ==
    /\ stamped' = stamped \cup {a}
    /\ older' = OlderBut(a) \cup ((stamped \ {a}) \X {a})
    /\ recent' = recent \cup {a}

ClaimChecksumCandidate(s) ==
    /\ sweep[s] = Idle
    /\ \E a \in ChecksumAssets :
        /\ Candidate(a)
        /\ \A b \in ChecksumAssets \ {a} : Candidate(b) => ClaimedBefore(a, b)
        /\ Stamp(a)
        /\ sweep' = [sweep EXCEPT ![s] = [asset |-> a, read |-> 0]]
    /\ UNCHANGED <<tables, stored, derive, counters>>

Reading(s) == sweep[s].asset # 0 /\ sweep[s].read = 0

Hash(s) ==
    /\ Reading(s) /\ sweep[s].asset \notin Unreadable /\ stored[sweep[s].asset] # 0
    /\ sweep' = [sweep EXCEPT ![s].read = stored[sweep[s].asset]]
    /\ UNCHANGED <<tables, stored, stamps, derive, counters>>

\* The stamp stays: the back-off has begun.
HashFails(s) ==
    /\ Reading(s) /\ (sweep[s].asset \in Unreadable \/ stored[sweep[s].asset] = 0)
    /\ sweep' = [sweep EXCEPT ![s] = Idle]
    /\ UNCHANGED <<tables, stored, stamps, derive, counters>>

Record(s) ==
    /\ sweep[s].read # 0
    /\ sums' = MarkChecksumVerified(sweep[s].asset, sweep[s].read)
    /\ sweep' = [sweep EXCEPT ![s] = Idle]
    /\ UNCHANGED <<rows, stored, stamps, derive, counters>>

\* A shutdown during the read hands the claim back.
Interrupted(s) ==
    /\ Reading(s) /\ trouble < MaxTrouble
    /\ Unstamp(sweep[s].asset)
    /\ sweep' = [sweep EXCEPT ![s] = Idle]
    /\ trouble' = trouble + 1
    /\ UNCHANGED <<tables, stored, derive, reputs, derives>>

\* The process dies, its release fails, or the read or the database does.
Lost(s) ==
    /\ sweep[s] # Idle /\ trouble < MaxTrouble
    /\ sweep' = [sweep EXCEPT ![s] = Idle]
    /\ trouble' = trouble + 1
    /\ UNCHANGED <<tables, stored, stamps, derive, reputs, derives>>

\* The oldest stamp passes the back-off.  The second conjunct is an assumption: a
\* read is cut off by its own timeout (an hour) before the back-off (6 h) ends, so
\* no sweep still holds the asset.  Nothing relates the two settings but their
\* defaults.
BackoffEnds(a) ==
    /\ a \in recent /\ \A s \in Sweeps : sweep[s].asset # a
    /\ \A b \in recent \ {a} : <<a, b>> \in older
    /\ recent' = recent \ {a}
    /\ UNCHANGED <<tables, stored, stamped, older, sweep, derive, counters>>

------------------------------------------------------------------------------
\* The derive job hashes what it downloads

EnqueueDerive(a) ==
    /\ a \in Derivable /\ rows[a] = "live" /\ derive[a] = NoJob /\ derives < MaxDerives
    /\ derive' = [derive EXCEPT ![a].job = "queued"]
    /\ derives' = derives + 1
    /\ UNCHANGED <<tables, stored, stamps, sweep, reputs, trouble>>

downloadHashed(a) ==
    /\ derive[a].job = "queued" /\ stored[a] # 0
    /\ derive' = [derive EXCEPT ![a] = [job |-> "running", read |-> stored[a]]]
    /\ UNCHANGED <<tables, stored, stamps, sweep, counters>>

\* The job goes on, and keeps the sweep away until it ends.
recordChecksum(a) ==
    /\ derive[a].job = "running" /\ derive[a].read # 0
    /\ sums' = MarkChecksumVerified(a, derive[a].read)
    /\ derive' = [derive EXCEPT ![a].read = 0]
    /\ UNCHANGED <<rows, stored, stamps, sweep, counters>>

\* It succeeds or dies in the end, whether or not it recorded anything.
DeriveEnds(a) ==
    /\ derive[a].job # "none"
    /\ derive' = [derive EXCEPT ![a] = NoJob]
    /\ UNCHANGED <<tables, stored, stamps, sweep, counters>>

------------------------------------------------------------------------------
SweepStep(s) == ClaimChecksumCandidate(s) \/ Hash(s) \/ HashFails(s) \/ Record(s)

ChecksumNext ==
    \/ \E a \in ChecksumAssets :
        \/ Finalize(a) \/ Reput(a) \/ MarkDeleted(a) \/ DeleteVaultObject(a)
        \/ PurgeAsset(a) \/ BackoffEnds(a) \/ EnqueueDerive(a)
        \/ downloadHashed(a) \/ recordChecksum(a) \/ DeriveEnds(a)
    \/ \E s \in Sweeps : SweepStep(s) \/ Interrupted(s) \/ Lost(s)

ChecksumSpec == ChecksumInit /\ [][ChecksumNext]_checksumVars

------------------------------------------------------------------------------
\* What must hold

\* Two sweeps never read the same object at once: the claim's stamp hides an
\* asset for longer than a read may last, whatever fails in between.
OneSweepPerObject ==
    \A s, t \in Sweeps : s # t /\ sweep[s].asset # 0 => sweep[s].asset # sweep[t].asset

\* A verified sha256 stays what it is until its row is purged, although a
\* sweep and a derive job may read different bytes and record in either order.
ShaKept ==
    [][\A a \in ChecksumAssets :
        sums[a].alg = "sha256" => sums'[a] = sums[a] \/ rows'[a] = "purged"]_checksumVars

\* Every readable asset gets its sha256 or is deleted, although unreadable
\* ones are retried for ever and an md5 came first.
EveryAssetSummed ==
    \A a \in ChecksumAssets \ Unreadable :
        rows[a] = "live" ~> sums[a].alg = "sha256" \/ rows[a] # "live"
=============================================================================
