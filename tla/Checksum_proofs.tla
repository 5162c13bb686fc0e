--------------------------- MODULE Checksum_proofs ---------------------------
(***************************************************************************)
(* Theorems about Checksum, for every set of assets and sweeps and every   *)
(* bound.                                                                  *)
(***************************************************************************)
EXTENDS Checksum, TLAPS

USE ChecksumAssetsAssumption, ChecksumBoundsAssumption

------------------------------------------------------------------------------
\* The inductive invariant

\* The tables without the stamps.
TablesOK ==
    /\ rows \in [ChecksumAssets -> {"absent", "live", "deleted", "purged"}]
    /\ sums \in [ChecksumAssets -> [alg: {"none", "md5", "sha256"}, of: Nat]]
    /\ stored \in [ChecksumAssets -> Nat]
    /\ sweep \in [Sweeps -> [asset: ChecksumAssets \cup {0}, read: Nat]]
    /\ derive \in [ChecksumAssets -> [job: {"none", "queued", "running"}, read: Nat]]

\* A sweep that holds an asset is shielded by its stamp, unless the asset is
\* gone for good; what it has read is of that asset.
ClaimShields ==
    \A s \in Sweeps :
        /\ sweep[s].asset # 0 => /\ rows[sweep[s].asset] # "absent"
                                 /\ sweep[s].asset \in recent \/ rows[sweep[s].asset] = "purged"
        /\ sweep[s].read # 0 => sweep[s].asset # 0

\* Nothing is known of an asset that is not there.
AbsentUnsummed ==
    \A a \in ChecksumAssets : rows[a] = "absent" => sums[a].alg # "sha256" /\ derive[a].job = "none"

SweepInv == TablesOK /\ ClaimShields /\ OneSweepPerObject /\ AbsentUnsummed

\* Recording a sum keeps the table's type and every verified sum in it.
LEMMA RecordKeeps ==
    ASSUME TablesOK, NEW a \in ChecksumAssets, NEW v \in Nat
    PROVE  /\ MarkChecksumVerified(a, v) \in [ChecksumAssets -> [alg: {"none", "md5", "sha256"}, of: Nat]]
           /\ \A b \in ChecksumAssets : sums[b].alg = "sha256" => MarkChecksumVerified(a, v)[b] = sums[b]
           /\ \A b \in ChecksumAssets \ {a} : MarkChecksumVerified(a, v)[b] = sums[b]
BY DEF TablesOK, MarkChecksumVerified, Sha

\* What the API, the deletion sweep, the client and derive jobs do.
LEMMA AssetStep ==
    ASSUME SweepInv, NEW a \in ChecksumAssets,
           \/ Finalize(a) \/ Reput(a) \/ MarkDeleted(a) \/ DeleteVaultObject(a) \/ PurgeAsset(a)
           \/ EnqueueDerive(a) \/ downloadHashed(a) \/ DeriveEnds(a)
    PROVE  SweepInv'
<1>t. TablesOK /\ ClaimShields /\ OneSweepPerObject /\ AbsentUnsummed
  BY DEF SweepInv
<1>1. CASE Finalize(a)
  <2>1. sums' \in [ChecksumAssets -> [alg: {"none", "md5", "sha256"}, of: Nat]]
    BY <1>t, <1>1 DEF Finalize, AtFinalize, NoSum, TablesOK
  <2>2. /\ \A b \in ChecksumAssets \ {a} : rows'[b] = rows[b] /\ sums'[b] = sums[b]
        /\ rows'[a] = "live" /\ rows[a] = "absent"
    BY <1>t, <1>1 DEF Finalize, TablesOK
  <2>3. stored' \in [ChecksumAssets -> Nat] /\ rows' \in [ChecksumAssets -> {"absent", "live", "deleted", "purged"}]
        /\ UNCHANGED <<sweep, derive, recent>>
    BY <1>t, <1>1 DEF Finalize, TablesOK, stamps
  <2> QED
    BY <1>t, <2>1, <2>2, <2>3 DEF SweepInv, TablesOK, ClaimShields, OneSweepPerObject, AbsentUnsummed
<1>2. CASE Reput(a) \/ DeleteVaultObject(a)
  <2>1. stored' \in [ChecksumAssets -> Nat] /\ UNCHANGED <<rows, sums, sweep, derive, recent>>
    BY <1>t, <1>2 DEF Reput, DeleteVaultObject, TablesOK, tables, stamps
  <2> QED
    BY <1>t, <2>1 DEF SweepInv, TablesOK, ClaimShields, OneSweepPerObject, AbsentUnsummed
<1>3. CASE MarkDeleted(a)
  BY <1>t, <1>3 DEF MarkDeleted, stamps, SweepInv, TablesOK, ClaimShields, OneSweepPerObject, AbsentUnsummed
<1>4. CASE PurgeAsset(a)
  <2>1. /\ rows' = [rows EXCEPT ![a] = "purged"] /\ sums' = [sums EXCEPT ![a] = NoSum]
        /\ recent' = recent \ {a} /\ UNCHANGED <<stored, sweep, derive>>
    BY <1>4 DEF PurgeAsset, Unstamp
  <2> QED
    BY <1>t, <2>1 DEF NoSum, SweepInv, TablesOK, ClaimShields, OneSweepPerObject, AbsentUnsummed
<1>5. CASE EnqueueDerive(a) \/ downloadHashed(a) \/ DeriveEnds(a)
  <2>1. /\ derive' \in [ChecksumAssets -> [job: {"none", "queued", "running"}, read: Nat]]
        /\ UNCHANGED <<rows, sums, stored, sweep, recent>>
    <3>1. CASE EnqueueDerive(a)
      BY <1>t, <3>1 DEF EnqueueDerive, TablesOK, tables, stamps
    <3>2. CASE downloadHashed(a)
      BY <1>t, <3>2 DEF downloadHashed, TablesOK, tables, stamps
    <3>3. CASE DeriveEnds(a)
      BY <1>t, <3>3 DEF DeriveEnds, NoJob, TablesOK, tables, stamps
    <3> QED
      BY <1>5, <3>1, <3>2, <3>3
  <2>2. \A b \in ChecksumAssets : rows[b] = "absent" => derive'[b].job = "none"
    BY <1>t, <1>5 DEF EnqueueDerive, downloadHashed, DeriveEnds, NoJob, TablesOK, AbsentUnsummed
  <2> QED
    BY <1>t, <2>1, <2>2 DEF SweepInv, TablesOK, ClaimShields, OneSweepPerObject, AbsentUnsummed
<1> QED
  BY <1>1, <1>2, <1>3, <1>4, <1>5

\* A claim takes an asset that no sweep holds: it was not stamped lately.
LEMMA ClaimStep ==
    ASSUME SweepInv, NEW s \in Sweeps, ClaimChecksumCandidate(s)
    PROVE  SweepInv'
<1>t. TablesOK /\ ClaimShields /\ OneSweepPerObject /\ AbsentUnsummed
  BY DEF SweepInv
<1>1. PICK a \in ChecksumAssets :
         /\ Candidate(a) /\ recent' = recent \cup {a}
         /\ sweep' = [sweep EXCEPT ![s] = [asset |-> a, read |-> 0]]
  BY DEF ClaimChecksumCandidate, Stamp
<1>2. rows[a] = "live" /\ a \notin recent
  BY <1>1 DEF Candidate, Pending
<1>3. \A u \in Sweeps : sweep[u].asset # a
  BY <1>t, <1>2 DEF ClaimShields
<1>4. UNCHANGED <<rows, sums, stored, derive>>
  BY DEF ClaimChecksumCandidate, tables
<1>5. TablesOK'
  BY <1>t, <1>1, <1>4 DEF TablesOK
<1>6. ClaimShields'
  BY <1>t, <1>1, <1>2, <1>4 DEF ClaimShields, TablesOK
<1>7. OneSweepPerObject'
  BY <1>t, <1>1, <1>3 DEF OneSweepPerObject, TablesOK
<1> QED
  BY <1>t, <1>4, <1>5, <1>6, <1>7 DEF SweepInv, AbsentUnsummed

\* A sweep that reads, gives up or dies holds what it held, or nothing.
LEMMA ReadStep ==
    ASSUME SweepInv, NEW s \in Sweeps, Hash(s) \/ HashFails(s) \/ Interrupted(s) \/ Lost(s)
    PROVE  SweepInv'
<1>t. TablesOK /\ ClaimShields /\ OneSweepPerObject /\ AbsentUnsummed
  BY DEF SweepInv
<1>1. CASE Hash(s)
  <2>1. sweep[s].asset \in ChecksumAssets
    BY <1>t, <1>1 DEF Hash, Reading, TablesOK
  <2>2. sweep' = [sweep EXCEPT ![s].read = stored[sweep[s].asset]] /\ UNCHANGED <<rows, sums, stored, derive, recent>>
    BY <1>1 DEF Hash, tables, stamps
  <2>3. TablesOK'
    BY <1>t, <2>1, <2>2 DEF TablesOK
  <2>4. \A u \in Sweeps : sweep'[u].asset = sweep[u].asset
    BY <1>t, <2>2 DEF TablesOK
  <2>5. \A u \in Sweeps : sweep'[u].read # 0 => sweep'[u].asset # 0
    BY <1>t, <2>1, <2>2, <2>4 DEF TablesOK, ClaimShields
  <2> QED
    BY <1>t, <2>2, <2>3, <2>4, <2>5 DEF SweepInv, ClaimShields, OneSweepPerObject, AbsentUnsummed
<1>2. CASE HashFails(s) \/ Lost(s)
  <2>1. sweep' = [sweep EXCEPT ![s] = Idle] /\ UNCHANGED <<rows, sums, stored, derive, recent>>
    BY <1>2 DEF HashFails, Lost, tables, stamps
  <2> QED
    BY <1>t, <2>1 DEF Idle, SweepInv, TablesOK, ClaimShields, OneSweepPerObject, AbsentUnsummed
<1>3. CASE Interrupted(s)
  <2>1. /\ sweep' = [sweep EXCEPT ![s] = Idle] /\ recent' = recent \ {sweep[s].asset}
        /\ UNCHANGED <<rows, sums, stored, derive>> /\ sweep[s].asset # 0
    BY <1>3 DEF Interrupted, Reading, Unstamp, tables
  <2>2. \A u \in Sweeps \ {s} : sweep'[u] = sweep[u] /\ sweep[u].asset # sweep[s].asset
    BY <1>t, <2>1 DEF OneSweepPerObject, TablesOK
  <2> QED
    BY <1>t, <2>1, <2>2 DEF Idle, SweepInv, TablesOK, ClaimShields, OneSweepPerObject, AbsentUnsummed
<1> QED
  BY <1>1, <1>2, <1>3

\* A sum is recorded for an asset that was there when it was claimed.
LEMMA RecordStep ==
    ASSUME SweepInv, \/ \E s \in Sweeps : Record(s)
                     \/ \E a \in ChecksumAssets : recordChecksum(a)
    PROVE  SweepInv'
<1>t. TablesOK /\ ClaimShields /\ OneSweepPerObject /\ AbsentUnsummed
  BY DEF SweepInv
<1>1. ASSUME NEW s \in Sweeps, Record(s)
      PROVE  SweepInv'
  <2>1. /\ sweep[s].asset \in ChecksumAssets /\ sweep[s].read \in Nat /\ rows[sweep[s].asset] # "absent"
    BY <1>t, <1>1 DEF Record, ClaimShields, TablesOK
  <2>2. /\ sums' = MarkChecksumVerified(sweep[s].asset, sweep[s].read) /\ sweep' = [sweep EXCEPT ![s] = Idle]
        /\ UNCHANGED <<rows, stored, derive, recent>>
    BY <1>1 DEF Record, stamps
  <2>3. TablesOK' /\ \A b \in ChecksumAssets \ {sweep[s].asset} : sums'[b] = sums[b]
    <3>1. /\ sums' \in [ChecksumAssets -> [alg: {"none", "md5", "sha256"}, of: Nat]]
          /\ \A b \in ChecksumAssets \ {sweep[s].asset} : sums'[b] = sums[b]
      BY <1>t, <2>1, <2>2, RecordKeeps
    <3> QED
      BY <1>t, <2>2, <3>1 DEF TablesOK, Idle
  <2>4. AbsentUnsummed'
    BY <1>t, <2>1, <2>2, <2>3 DEF AbsentUnsummed
  <2>5. ClaimShields' /\ OneSweepPerObject'
    BY <1>t, <2>2 DEF ClaimShields, OneSweepPerObject, Idle, TablesOK
  <2> QED
    BY <2>3, <2>4, <2>5 DEF SweepInv
<1>2. ASSUME NEW a \in ChecksumAssets, recordChecksum(a)
      PROVE  SweepInv'
  <2>1. derive[a].read \in Nat /\ derive[a].job = "running" /\ rows[a] # "absent"
    BY <1>t, <1>2 DEF recordChecksum, AbsentUnsummed, TablesOK
  <2>2. /\ sums' = MarkChecksumVerified(a, derive[a].read) /\ derive' = [derive EXCEPT ![a].read = 0]
        /\ UNCHANGED <<rows, stored, sweep, recent>>
    BY <1>2 DEF recordChecksum, stamps
  <2>3. TablesOK' /\ \A b \in ChecksumAssets \ {a} : sums'[b] = sums[b] /\ derive'[b] = derive[b]
    <3>1. /\ sums' \in [ChecksumAssets -> [alg: {"none", "md5", "sha256"}, of: Nat]]
          /\ \A b \in ChecksumAssets \ {a} : sums'[b] = sums[b]
      <4> DEFINE new == MarkChecksumVerified(a, derive[a].read)
      <4>1. /\ new \in [ChecksumAssets -> [alg: {"none", "md5", "sha256"}, of: Nat]]
            /\ \A b \in ChecksumAssets \ {a} : new[b] = sums[b]
        BY <1>t, <2>1, RecordKeeps
      <4>2. sums' = new
        BY <2>2
      <4> QED
        BY <4>1, <4>2
    <3>2. derive' \in [ChecksumAssets -> [job: {"none", "queued", "running"}, read: Nat]]
          /\ \A b \in ChecksumAssets \ {a} : derive'[b] = derive[b]
      BY <1>t, <2>2 DEF TablesOK
    <3> QED
      BY <1>t, <2>2, <3>1, <3>2 DEF TablesOK
  <2>4. AbsentUnsummed'
    BY <1>t, <2>1, <2>2, <2>3 DEF AbsentUnsummed
  <2>5. ClaimShields' /\ OneSweepPerObject'
    BY <1>t, <2>2 DEF ClaimShields, OneSweepPerObject
  <2> QED
    BY <2>3, <2>4, <2>5 DEF SweepInv
<1> QED
  BY <1>1, <1>2

\* Every step keeps the invariant: a back-off ends only for an asset that its
\* sweep has let go of.
LEMMA SweepInvStep ==
    ASSUME SweepInv, [ChecksumNext]_checksumVars
    PROVE  SweepInv'
<1>1. CASE UNCHANGED checksumVars
  BY <1>1 DEF checksumVars, tables, stamps, SweepInv, TablesOK, ClaimShields, OneSweepPerObject, AbsentUnsummed
<1>2. ASSUME NEW a \in ChecksumAssets, BackoffEnds(a)
      PROVE  SweepInv'
  BY <1>2 DEF BackoffEnds, tables, SweepInv, TablesOK, ClaimShields, OneSweepPerObject, AbsentUnsummed
<1> QED
  BY <1>1, <1>2, AssetStep, ClaimStep, ReadStep, RecordStep DEF ChecksumNext, SweepStep

------------------------------------------------------------------------------
\* Theorems

\* The invariant holds of every behaviour.
THEOREM SweepInvariant == ChecksumSpec => []SweepInv
<1>1. ChecksumInit => SweepInv
  <2> SUFFICES ASSUME ChecksumInit PROVE SweepInv
    OBVIOUS
  <2>1. TablesOK
    BY DEF ChecksumInit, TablesOK, AtFinalize, NoSum, Idle, NoJob
  <2>2. ClaimShields /\ OneSweepPerObject
    BY DEF ChecksumInit, ClaimShields, OneSweepPerObject, Idle
  <2>3. AbsentUnsummed
    BY DEF ChecksumInit, AbsentUnsummed, NoSum, NoJob
  <2> QED
    BY <2>1, <2>2, <2>3 DEF SweepInv
<1>2. SweepInv /\ [ChecksumNext]_checksumVars => SweepInv'
  BY SweepInvStep
<1> QED
  BY <1>1, <1>2, PTL DEF ChecksumSpec

\* No two sweeps hash the same object at once, whoever crashes or is interrupted.
THEOREM SweepsExclude == ChecksumSpec => []OneSweepPerObject
<1>1. SweepInv => OneSweepPerObject
  BY DEF SweepInv
<1> QED
  BY <1>1, SweepInvariant, PTL

\* A verified sum is never replaced, whoever records later and of which bytes.
THEOREM VerifiedSumKept == ChecksumSpec => ShaKept
<1>1. ASSUME SweepInv, [ChecksumNext]_checksumVars, NEW a \in ChecksumAssets, sums[a].alg = "sha256"
      PROVE  sums'[a] = sums[a] \/ rows'[a] = "purged"
  <2>t. TablesOK /\ ClaimShields /\ AbsentUnsummed
    BY <1>1 DEF SweepInv
  <2>1. \/ UNCHANGED sums
        \/ \E b \in ChecksumAssets : Finalize(b) \/ PurgeAsset(b) \/ recordChecksum(b)
        \/ \E s \in Sweeps : Record(s)
    BY <1>1 DEF ChecksumNext, SweepStep, checksumVars, tables, Reput, MarkDeleted, DeleteVaultObject,
           BackoffEnds, EnqueueDerive, downloadHashed, DeriveEnds, ClaimChecksumCandidate, Hash, HashFails,
           Interrupted, Lost
  <2>2. ASSUME NEW b \in ChecksumAssets, Finalize(b)
        PROVE  sums'[a] = sums[a]
    BY <1>1, <2>t, <2>2 DEF Finalize, AbsentUnsummed, TablesOK
  <2>3. ASSUME NEW b \in ChecksumAssets, PurgeAsset(b)
        PROVE  sums'[a] = sums[a] \/ rows'[a] = "purged"
    BY <2>t, <2>3 DEF PurgeAsset, TablesOK
  <2>4. ASSUME NEW b \in ChecksumAssets, recordChecksum(b)
        PROVE  sums'[a] = sums[a]
    BY <1>1, <2>t, <2>4, RecordKeeps DEF recordChecksum, TablesOK
  <2>5. ASSUME NEW s \in Sweeps, Record(s)
        PROVE  sums'[a] = sums[a]
    <3>1. sweep[s].asset \in ChecksumAssets /\ sweep[s].read \in Nat
      BY <2>t, <2>5 DEF Record, ClaimShields, TablesOK
    <3>2. MarkChecksumVerified(sweep[s].asset, sweep[s].read)[a] = sums[a]
      BY <1>1, <2>t, <3>1 DEF MarkChecksumVerified, TablesOK
    <3> QED
      BY <2>5, <3>2 DEF Record
  <2> QED
    BY <2>1, <2>2, <2>3, <2>4, <2>5
<1>2. SweepInv /\ [ChecksumNext]_checksumVars =>
        [\A a \in ChecksumAssets : sums[a].alg = "sha256" => sums'[a] = sums[a] \/ rows'[a] = "purged"]_checksumVars
  BY <1>1
<1> QED
  BY <1>2, SweepInvariant, PTL DEF ChecksumSpec, ShaKept

------------------------------------------------------------------------------
\* The order of the claims

\* The stamps are in one strict order; a back-off ends for the older ones first;
\* and only an asset that is there is stamped.
StampsRelated ==
    /\ stamped \subseteq ChecksumAssets /\ older \subseteq stamped \X stamped
    /\ recent \subseteq stamped
StampsTotal ==
    \A a, b \in stamped : <<a, b>> \in older <=> a # b /\ <<b, a>> \notin older
StampsTransitive ==
    \A a, b, c \in stamped : <<a, b>> \in older /\ <<b, c>> \in older => <<a, c>> \in older
RecentLast == \A a \in recent, b \in stamped : <<a, b>> \in older => b \in recent
StampedPresent == \A a \in stamped : rows[a] \in {"live", "deleted"}

StampInv == /\ rows \in [ChecksumAssets -> {"absent", "live", "deleted", "purged"}]
            /\ StampsRelated /\ StampsTotal /\ StampsTransitive /\ RecentLast /\ StampedPresent

\* A step stamps what it claims, takes a stamp away, ends a back-off or leaves
\* the stamps alone.
LEMMA StampSteps ==
    ASSUME [ChecksumNext]_checksumVars
    PROVE  \/ UNCHANGED stamps
           \/ \E a \in ChecksumAssets : BackoffEnds(a)
           \/ \E a \in ChecksumAssets : PurgeAsset(a)
           \/ \E s \in Sweeps : ClaimChecksumCandidate(s) \/ Interrupted(s)
BY DEF ChecksumNext, SweepStep, checksumVars, stamps, Finalize, Reput, MarkDeleted, DeleteVaultObject,
       EnqueueDerive, downloadHashed, recordChecksum, DeriveEnds, Hash, HashFails, Record, Lost

\* A stamp is the youngest.
LEMMA StampKeeps ==
    ASSUME StampInv, NEW a \in ChecksumAssets, Stamp(a), rows[a] = "live", UNCHANGED rows
    PROVE  StampInv'
<1>t. StampsRelated /\ StampsTotal /\ StampsTransitive /\ RecentLast /\ StampedPresent
  BY DEF StampInv
<1>1. /\ stamped' = stamped \cup {a} /\ recent' = recent \cup {a}
      /\ older' = OlderBut(a) \cup ((stamped \ {a}) \X {a})
  BY DEF Stamp
<1>2. \A b, c : <<b, c>> \in older' <=>
         \/ b # a /\ c # a /\ <<b, c>> \in older
         \/ b \in stamped /\ b # a /\ c = a
  BY <1>1 DEF OlderBut
<1>3. StampsRelated'
  BY <1>t, <1>1 DEF StampsRelated, OlderBut
<1>4. StampsTotal'
  BY <1>t, <1>1, <1>2 DEF StampsTotal
<1>5. StampsTransitive'
  BY <1>t, <1>1, <1>2 DEF StampsTransitive
<1>6. RecentLast'
  BY <1>t, <1>1, <1>2 DEF RecentLast
<1>7. StampedPresent'
  BY <1>t, <1>1 DEF StampedPresent
<1> QED
  BY <1>3, <1>4, <1>5, <1>6, <1>7 DEF StampInv

\* The others keep their order when a stamp is taken away.
LEMMA UnstampKeeps ==
    ASSUME StampInv, NEW a, Unstamp(a),
           rows' \in [ChecksumAssets -> {"absent", "live", "deleted", "purged"}],
           \A b \in ChecksumAssets : b # a => rows'[b] = rows[b]
    PROVE  StampInv'
<1>t. StampsRelated /\ StampsTotal /\ StampsTransitive /\ RecentLast /\ StampedPresent
  BY DEF StampInv
<1>1. stamped' = stamped \ {a} /\ recent' = recent \ {a} /\ older' = OlderBut(a)
  BY DEF Unstamp
<1>2. \A b, c : <<b, c>> \in older' <=> b # a /\ c # a /\ <<b, c>> \in older
  <2>1. ASSUME NEW b, NEW c
        PROVE  <<b, c>> \in older' <=> b # a /\ c # a /\ <<b, c>> \in older
    BY <1>1 DEF OlderBut
  <2> QED
    BY <2>1
<1>3. StampsRelated'
  BY <1>t, <1>1 DEF StampsRelated, OlderBut
<1>4. StampsTotal' /\ StampsTransitive' /\ RecentLast'
  BY <1>t, <1>1, <1>2 DEF StampsTotal, StampsTransitive, RecentLast
<1>5. StampedPresent'
  BY <1>t, <1>1 DEF StampedPresent, StampsRelated
<1> QED
  BY <1>3, <1>4, <1>5 DEF StampInv

\* Every step keeps the order.
LEMMA StampInvStep ==
    ASSUME StampInv, SweepInv, [ChecksumNext]_checksumVars
    PROVE  StampInv'
<1>1. CASE UNCHANGED stamps
  <2>1. /\ rows' \in [ChecksumAssets -> {"absent", "live", "deleted", "purged"}]
        /\ \A a \in ChecksumAssets : rows'[a] # rows[a] =>
              \/ rows[a] = "absent"
              \/ rows[a] = "live" /\ rows'[a] = "deleted"
              \/ PurgeAsset(a)
    <3>1. CASE UNCHANGED rows
      BY <3>1 DEF StampInv
    <3>2. ASSUME NEW b \in ChecksumAssets, Finalize(b) \/ MarkDeleted(b) \/ PurgeAsset(b)
          PROVE  /\ rows' \in [ChecksumAssets -> {"absent", "live", "deleted", "purged"}]
                 /\ \A a \in ChecksumAssets : rows'[a] # rows[a] =>
                       \/ rows[a] = "absent"
                       \/ rows[a] = "live" /\ rows'[a] = "deleted"
                       \/ PurgeAsset(a)
      <4>1. CASE Finalize(b)
        BY <4>1 DEF Finalize, StampInv
      <4>2. CASE MarkDeleted(b)
        BY <4>2 DEF MarkDeleted, StampInv
      <4>3. CASE PurgeAsset(b)
        <5>1. rows' = [rows EXCEPT ![b] = "purged"]
          BY <4>3 DEF PurgeAsset
        <5> QED
          BY <4>3, <5>1 DEF StampInv
      <4> QED
        BY <3>2, <4>1, <4>2, <4>3
    <3> QED
      BY <3>1, <3>2 DEF ChecksumNext, SweepStep, checksumVars, tables, Reput, DeleteVaultObject, BackoffEnds,
         EnqueueDerive, downloadHashed, recordChecksum, DeriveEnds, ClaimChecksumCandidate, Hash, HashFails,
         Record, Interrupted, Lost
  <2>2. \A a \in ChecksumAssets : PurgeAsset(a) => a \notin stamped
    BY <1>1 DEF PurgeAsset, Unstamp, stamps
  <2>3. StampedPresent'
    BY <1>1, <2>1, <2>2 DEF StampInv, StampedPresent, StampsRelated, stamps
  <2> QED
    BY <1>1, <2>1, <2>3 DEF stamps, StampInv, StampsRelated, StampsTotal, StampsTransitive, RecentLast
<1>2. ASSUME NEW a \in ChecksumAssets, BackoffEnds(a)
      PROVE  StampInv'
  <2>1. /\ recent' = recent \ {a} /\ UNCHANGED <<rows, stamped, older>>
        /\ a \in recent /\ \A b \in recent \ {a} : <<a, b>> \in older
    BY <1>2 DEF BackoffEnds, tables
  <2>2. RecentLast'
    BY <2>1 DEF StampInv, RecentLast, StampsTotal, StampsRelated
  <2> QED
    BY <2>1, <2>2 DEF StampInv, StampsRelated, StampsTotal, StampsTransitive, StampedPresent
<1>3. ASSUME NEW a \in ChecksumAssets, PurgeAsset(a)
      PROVE  StampInv'
  BY <1>3, UnstampKeeps DEF PurgeAsset, StampInv
<1>4. ASSUME NEW s \in Sweeps, ClaimChecksumCandidate(s)
      PROVE  StampInv'
  BY <1>4, StampKeeps DEF ClaimChecksumCandidate, Candidate, Pending, tables
<1>5. ASSUME NEW s \in Sweeps, Interrupted(s)
      PROVE  StampInv'
  BY <1>5, UnstampKeeps DEF Interrupted, tables, StampInv
<1> QED
  BY <1>1, <1>2, <1>3, <1>4, <1>5, StampSteps

\* The stamps stay in one order.
LEMMA StampInvariant == ChecksumSpec => []StampInv
<1>1. ChecksumInit => StampInv
  BY DEF ChecksumInit, StampInv, StampsRelated, StampsTotal, StampsTransitive, RecentLast, StampedPresent
<1>2. SweepInv /\ StampInv /\ [ChecksumNext]_checksumVars => StampInv'
  BY StampInvStep
<1> QED
  BY <1>1, <1>2, SweepInvariant, PTL DEF ChecksumSpec

\* The order of the claims is strict and total.
ClaimsOrdered ==
    /\ \A a, b \in ChecksumAssets : ClaimedBefore(a, b) <=> a # b /\ ~ClaimedBefore(b, a)
    /\ \A a, b, c \in ChecksumAssets : ClaimedBefore(a, b) /\ ClaimedBefore(b, c) => ClaimedBefore(a, c)

\* ORDER BY checksum_checked_at NULLS FIRST, created DESC leaves no ties and no
\* cycles, so sweeps that claim at once agree on which asset is next.
THEOREM ClaimsAreOrdered == ChecksumSpec => []ClaimsOrdered
<1>1. StampInv => ClaimsOrdered
  <2> SUFFICES ASSUME StampInv PROVE ClaimsOrdered
    OBVIOUS
  <2>t. StampsRelated /\ StampsTotal /\ StampsTransitive /\ ChecksumAssets \subseteq Nat
    BY DEF StampInv
  <2>1. \A a, b : <<a, b>> \in older => a \in stamped /\ b \in stamped
    BY <2>t DEF StampsRelated
  <2>2. ASSUME NEW a \in ChecksumAssets, NEW b \in ChecksumAssets
        PROVE  ClaimedBefore(a, b) <=> a # b /\ ~ClaimedBefore(b, a)
    BY <2>t, <2>1 DEF ClaimedBefore, StampsTotal
  <2>3. ASSUME NEW a \in ChecksumAssets, NEW b \in ChecksumAssets, NEW c \in ChecksumAssets,
               ClaimedBefore(a, b), ClaimedBefore(b, c)
        PROVE  ClaimedBefore(a, c)
    BY <2>t, <2>1, <2>3 DEF ClaimedBefore, StampsTransitive
  <2> QED
    BY <2>2, <2>3 DEF ClaimsOrdered
<1> QED
  BY <1>1, StampInvariant, PTL

\* An asset that waits is overtaken by none that waits behind it, until it has had
\* its turn: only a claim that is handed back goes to the front again.
NoneOvertakes ==
    [][\A a, b \in ChecksumAssets :
          Pending(a) /\ Pending(b) /\ ClaimedBefore(b, a) /\ ClaimedBefore(a, b)'
              => \/ \E s \in Sweeps : sweep[s] = Idle /\ sweep'[s].asset = b
                 \/ a \in stamped \ stamped']_checksumVars

\* Whatever fails between two claims, the stamps alone keep the sweep going round
\* the backlog: an unreadable asset is not tried again before the others.
THEOREM ClaimsTakeTurns == ChecksumSpec => NoneOvertakes
<1>1. ASSUME StampInv, TablesOK, [ChecksumNext]_checksumVars,
             NEW a \in ChecksumAssets, NEW b \in ChecksumAssets,
             Pending(a), Pending(b), ClaimedBefore(b, a), ClaimedBefore(a, b)'
      PROVE  \/ \E s \in Sweeps : sweep[s] = Idle /\ sweep'[s].asset = b
             \/ a \in stamped \ stamped'
  <2>t. StampsRelated /\ StampsTotal /\ ChecksumAssets \subseteq Nat
    BY <1>1 DEF StampInv
  <2>0. \A c, d : <<c, d>> \in older => c \in stamped /\ d \in stamped
    BY <2>t DEF StampsRelated
  <2>1. CASE UNCHANGED <<stamped, older>>
    <3>1. ClaimedBefore(a, b)' <=> ClaimedBefore(a, b)
      BY <2>1 DEF ClaimedBefore
    <3>2. ~(ClaimedBefore(a, b) /\ ClaimedBefore(b, a))
      BY <2>t, <2>0 DEF ClaimedBefore, StampsTotal
    <3> QED
      BY <1>1, <3>1, <3>2
  <2>2. ASSUME NEW s \in Sweeps, ClaimChecksumCandidate(s)
        PROVE  \E u \in Sweeps : sweep[u] = Idle /\ sweep'[u].asset = b
    <3>1. PICK c \in ChecksumAssets : /\ Stamp(c) /\ sweep[s] = Idle
                                      /\ sweep' = [sweep EXCEPT ![s] = [asset |-> c, read |-> 0]]
      BY <2>2 DEF ClaimChecksumCandidate
    <3>2. /\ stamped' = stamped \cup {c}
          /\ \A d, e : <<d, e>> \in older' <=>
                \/ d # c /\ e # c /\ <<d, e>> \in older
                \/ d \in stamped /\ d # c /\ e = c
      BY <3>1 DEF Stamp, OlderBut
    <3>3. c = b
      BY <1>1, <2>t, <2>0, <3>2 DEF ClaimedBefore, StampsTotal
    <3>4. sweep'[s].asset = b
      BY <1>1, <3>1, <3>3 DEF TablesOK
    <3> QED
      BY <3>1, <3>4
  <2>3. ASSUME NEW c, Unstamp(c)
        PROVE  a \in stamped \ stamped'
    <3>1. /\ stamped' = stamped \ {c}
          /\ \A d, e : <<d, e>> \in older' <=> d # c /\ e # c /\ <<d, e>> \in older
      BY <2>3 DEF Unstamp, OlderBut
    <3> QED
      BY <1>1, <2>t, <2>0, <3>1 DEF ClaimedBefore, StampsTotal
  <2> QED
    BY <1>1, <2>1, <2>2, <2>3, StampSteps DEF stamps, BackoffEnds, PurgeAsset, Interrupted
<1>2. StampInv /\ SweepInv /\ [ChecksumNext]_checksumVars =>
        [\A a, b \in ChecksumAssets :
            Pending(a) /\ Pending(b) /\ ClaimedBefore(b, a) /\ ClaimedBefore(a, b)'
                => \/ \E s \in Sweeps : sweep[s] = Idle /\ sweep'[s].asset = b
                   \/ a \in stamped \ stamped']_checksumVars
  BY <1>1 DEF SweepInv
<1> QED
  BY <1>2, StampInvariant, SweepInvariant, PTL DEF ChecksumSpec, NoneOvertakes

------------------------------------------------------------------------------
\* Types

\* Nobody holds a version that was never put.
VersionsPut ==
    /\ \A a \in ChecksumAssets : /\ stored[a] <= reputs + 1 /\ sums[a].of <= reputs + 1
                                 /\ derive[a].read <= reputs + 1
    /\ \A s \in Sweeps : sweep[s].read <= reputs + 1

CountersOK == reputs \in 0 .. MaxReputs /\ derives \in 0 .. MaxDerives /\ trouble \in 0 .. MaxTrouble

PutInv == CountersOK /\ VersionsPut

\* Versions come from the client's PUT and are only passed on.
LEMMA PutInvStep ==
    ASSUME SweepInv, PutInv, [ChecksumNext]_checksumVars
    PROVE  PutInv'
<1>t. TablesOK /\ ClaimShields /\ CountersOK /\ VersionsPut
  BY DEF SweepInv, PutInv
<1>1. ASSUME NEW a \in ChecksumAssets, Finalize(a)
      PROVE  PutInv'
  <2>1. PICK new \in AtFinalize : sums' = [sums EXCEPT ![a] = new]
    BY <1>1 DEF Finalize
  <2>2. \A b \in ChecksumAssets : sums'[b].of <= reputs + 1
    <3>1. new.of \in {0, 1}
      BY DEF AtFinalize, NoSum
    <3>2. \A b \in ChecksumAssets : sums'[b] = IF b = a THEN new ELSE sums[b]
      BY <1>t, <2>1 DEF TablesOK
    <3>3. reputs \in Nat
      BY <1>t DEF CountersOK
    <3>4. \A b \in ChecksumAssets : sums[b].of <= reputs + 1
      BY <1>t DEF VersionsPut
    <3> QED
      BY <3>1, <3>2, <3>3, <3>4
  <2> QED
    BY <1>t, <1>1, <2>2 DEF Finalize, counters, TablesOK, PutInv, CountersOK, VersionsPut
<1>2. ASSUME NEW a \in ChecksumAssets, Reput(a)
      PROVE  PutInv'
  <2>1. /\ reputs' = reputs + 1 /\ stored' = [stored EXCEPT ![a] = @ + 1]
        /\ UNCHANGED <<sums, derive, sweep, derives, trouble>> /\ reputs < MaxReputs
    BY <1>2 DEF Reput, tables
  <2> QED
    BY <1>t, <2>1 DEF TablesOK, PutInv, CountersOK, VersionsPut
<1>3. ASSUME NEW a \in ChecksumAssets, DeleteVaultObject(a) \/ PurgeAsset(a) \/ DeriveEnds(a) \/ EnqueueDerive(a)
      PROVE  PutInv'
  <2>1. CASE DeleteVaultObject(a)
    BY <1>t, <2>1 DEF DeleteVaultObject, tables, counters, TablesOK, PutInv, CountersOK, VersionsPut
  <2>2. CASE PurgeAsset(a)
    BY <1>t, <2>2 DEF PurgeAsset, NoSum, counters, TablesOK, PutInv, CountersOK, VersionsPut
  <2>3. CASE DeriveEnds(a)
    BY <1>t, <2>3 DEF DeriveEnds, NoJob, tables, counters, TablesOK, PutInv, CountersOK, VersionsPut
  <2>4. CASE EnqueueDerive(a)
    <3>1. /\ \A b \in ChecksumAssets : derive'[b].read = derive[b].read
          /\ UNCHANGED <<sums, stored, sweep, reputs, trouble>>
          /\ derives' = derives + 1 /\ derives < MaxDerives
      BY <1>t, <2>4 DEF EnqueueDerive, tables, TablesOK
    <3> QED
      BY <1>t, <3>1 DEF PutInv, CountersOK, VersionsPut
  <2> QED
    BY <1>3, <2>1, <2>2, <2>3, <2>4
<1>4. ASSUME NEW a \in ChecksumAssets, downloadHashed(a)
      PROVE  PutInv'
  BY <1>t, <1>4 DEF downloadHashed, tables, counters, TablesOK, PutInv, CountersOK, VersionsPut
<1>5. ASSUME NEW a \in ChecksumAssets, recordChecksum(a)
      PROVE  PutInv'
  <2>1. \A b \in ChecksumAssets : sums'[b] = sums[b] \/ sums'[b].of = derive[a].read
    BY <1>t, <1>5 DEF recordChecksum, MarkChecksumVerified, Sha, TablesOK
  <2>2. \A b \in ChecksumAssets : derive'[b].read = derive[b].read \/ derive'[b].read = 0
    BY <1>t, <1>5 DEF recordChecksum, TablesOK
  <2> QED
    BY <1>t, <1>5, <2>1, <2>2 DEF recordChecksum, counters, PutInv, CountersOK, VersionsPut
<1>6. ASSUME NEW s \in Sweeps, Record(s)
      PROVE  PutInv'
  <2>1. sweep[s].asset \in ChecksumAssets
    BY <1>t, <1>6 DEF Record, ClaimShields, TablesOK
  <2>2. \A b \in ChecksumAssets : sums'[b] = sums[b] \/ sums'[b].of = sweep[s].read
    BY <1>t, <1>6, <2>1 DEF Record, MarkChecksumVerified, Sha, TablesOK
  <2> QED
    BY <1>t, <1>6, <2>2 DEF Record, Idle, counters, TablesOK, PutInv, CountersOK, VersionsPut
<1>7. ASSUME NEW s \in Sweeps, Hash(s)
      PROVE  PutInv'
  <2>1. sweep[s].asset \in ChecksumAssets
    BY <1>t, <1>7 DEF Hash, Reading, TablesOK
  <2> QED
    BY <1>t, <1>7, <2>1 DEF Hash, tables, counters, TablesOK, PutInv, CountersOK, VersionsPut
<1>8. ASSUME NEW s \in Sweeps, ClaimChecksumCandidate(s) \/ HashFails(s)
      PROVE  PutInv'
  <2>1. \A u \in Sweeps : sweep'[u].read = sweep[u].read \/ sweep'[u].read = 0
    BY <1>t, <1>8 DEF ClaimChecksumCandidate, HashFails, Idle, TablesOK
  <2> QED
    BY <1>t, <1>8, <2>1 DEF ClaimChecksumCandidate, HashFails, tables, counters, PutInv, CountersOK, VersionsPut
<1>9. ASSUME NEW s \in Sweeps, Interrupted(s) \/ Lost(s)
      PROVE  PutInv'
  <2>1. /\ \A u \in Sweeps : sweep'[u].read = sweep[u].read \/ sweep'[u].read = 0
        /\ UNCHANGED <<sums, stored, derive, reputs, derives>>
        /\ trouble' = trouble + 1 /\ trouble < MaxTrouble
    BY <1>t, <1>9 DEF Interrupted, Lost, Idle, tables, TablesOK
  <2> QED
    BY <1>t, <2>1 DEF PutInv, CountersOK, VersionsPut
<1>10. ASSUME UNCHANGED <<sums, stored, derive, sweep, counters>>
       PROVE  PutInv'
  BY <1>t, <1>10 DEF counters, PutInv, CountersOK, VersionsPut
<1> QED
  BY <1>1, <1>2, <1>3, <1>4, <1>5, <1>6, <1>7, <1>8, <1>9, <1>10
     DEF ChecksumNext, SweepStep, checksumVars, tables, MarkDeleted, BackoffEnds

\* Everything keeps its range: what is hashed and recorded was put.
THEOREM ChecksumTypes == ChecksumSpec => []ChecksumTypeOK
<1>1. ChecksumInit => PutInv
  BY DEF ChecksumInit, PutInv, CountersOK, VersionsPut, AtFinalize, NoSum, Idle, NoJob
<1>2. SweepInv /\ PutInv /\ [ChecksumNext]_checksumVars => PutInv'
  BY PutInvStep
<1>3. SweepInv /\ StampInv /\ PutInv => ChecksumTypeOK
  <2> SUFFICES ASSUME SweepInv, StampInv, PutInv PROVE ChecksumTypeOK
    OBVIOUS
  <2>1. \A n \in Nat : n <= reputs + 1 => n \in Versions
    BY DEF PutInv, CountersOK, Versions
  <2>2. sums \in [ChecksumAssets -> [alg: {"none", "md5", "sha256"}, of: Versions]]
    BY <2>1 DEF SweepInv, TablesOK, PutInv, VersionsPut
  <2>3. stored \in [ChecksumAssets -> Versions]
    BY <2>1 DEF SweepInv, TablesOK, PutInv, VersionsPut
  <2>4. sweep \in [Sweeps -> [asset: ChecksumAssets \cup {0}, read: Versions]]
    BY <2>1 DEF SweepInv, TablesOK, PutInv, VersionsPut
  <2>5. derive \in [ChecksumAssets -> [job: {"none", "queued", "running"}, read: Versions]]
    BY <2>1 DEF SweepInv, TablesOK, PutInv, VersionsPut
  <2> QED
    BY <2>2, <2>3, <2>4, <2>5 DEF StampInv, StampsRelated, PutInv, CountersOK, ChecksumTypeOK
<1> QED
  BY <1>1, <1>2, <1>3, SweepInvariant, StampInvariant, PTL DEF ChecksumSpec
=============================================================================
