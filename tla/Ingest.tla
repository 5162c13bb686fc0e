------------------------------- MODULE Ingest -------------------------------
(***************************************************************************)
(* The life of an original in the vault: the brokered upload and its       *)
(* finalize (internal/service/upload.go, FinalizeUpload in                 *)
(* internal/store/postgres.go), the two-step delete, and the two sweeps of *)
(* every worker process that reclaim abandoned uploads and deleted assets  *)
(* (internal/worker/reconcile.go).                                         *)
(*                                                                         *)
(* One action is one statement or transaction, or one call to the object   *)
(* store.  An upload and the asset it becomes share their id and their     *)
(* vault key; ids are numbered in the order of uploads.created.  Uploads   *)
(* of authored files create no asset: JobQueue models them.                *)
(*                                                                         *)
(* Names of the form Name_Variant are faulty versions of Name that the     *)
(* properties rule out; the specification does not use them.               *)
(***************************************************************************)
EXTENDS Integers, FiniteSets, Sequences

CONSTANTS
    Uploads,     \* upload ids
    Kinds,       \* what may be uploaded
    Requests,    \* finalize requests that may be in flight at the same time
    Sweepers,    \* worker processes, each with its SweepLoop
    BatchSize,   \* Reconciler.batchSize
    BadKeys,     \* keys whose Delete always fails
    Faults,      \* which faults of FaultKinds the environment shows
    MaxDeletes   \* bound: DELETE requests that are served

\* "late_finalize": a client finalizes, or its request still runs, when the
\* upload is past the grace period.  "crash": a worker process is killed
\* during a sweep.
FaultKinds == {"late_finalize", "crash"}

\* "archive" is a video uploaded with skip_derivations; "other" stands for
\* images and documents, which nothing is derived from.
ASSUME UploadsAssumption == Uploads \subseteq Nat \ {0}
ASSUME KindsAssumption   == Kinds \subseteq {"video", "archive", "other"}
ASSUME BatchAssumption   == BatchSize \in Nat \ {0}
ASSUME BadKeysAssumption == BadKeys \subseteq Uploads
ASSUME FaultsAssumption  == Faults \subseteq FaultKinds
ASSUME DeletesAssumption == MaxDeletes \in Nat

VARIABLES
    uploads,   \* the uploads table, and whether the presigned PUT is still valid
    objects,   \* whether the vault key holds an object
    assets,    \* the assets table; deletedAt orders the deleted_at stamps
    derived,   \* rows of jobs and renditions that finalize wrote for the asset
    answered,  \* history: a finalize of the upload was answered 201
    request,   \* what each finalize request is doing
    sweeper,   \* what each sweep loop is doing
    grace      \* how many uploads, and deletes, are past the grace period

vars == <<uploads, objects, assets, derived, answered, request, sweeper, grace>>

------------------------------------------------------------------------------
\* What finalize writes after the asset, one statement each and in this order.
FollowUps(kind) == CASE kind = "video"   -> <<"job">>
                     [] kind = "archive" -> <<"poster", "loop", "detail">>
                     [] kind = "other"   -> <<>>

Written(kind) == {FollowUps(kind)[i] : i \in DOMAIN FollowUps(kind)}

NoUpload == [kind |-> "absent", ticket |-> FALSE, finalized |-> FALSE, swept |-> FALSE]
Upload   == [kind: Kinds, ticket: BOOLEAN, finalized: BOOLEAN, swept: BOOLEAN]

NoAsset == [row |-> "none", deletedAt |-> 0]
Asset   == [row: {"none", "live", "deleted", "purged"}, deletedAt: Nat]

Idle     == [pc |-> "idle"]
Finalize == [pc: {"head", "probe", "register", "follow_up"}, upload: Uploads, left: 0..3]
Sweep    == [pc: {"orphans", "deletions"}, todo: SUBSET Uploads, at: {0}]
            \cup [pc: {"mark", "purge"}, todo: SUBSET Uploads, at: Uploads]

TypeOK ==
    /\ uploads \in [Uploads -> Upload \cup {NoUpload}]
    /\ objects \in [Uploads -> BOOLEAN]
    /\ assets \in [Uploads -> Asset]
    /\ derived \in [Uploads -> SUBSET {"job", "poster", "loop", "detail"}]
    /\ answered \in [Uploads -> BOOLEAN]
    /\ request \in [Requests -> Finalize \cup {Idle}]
    /\ sweeper \in [Sweepers -> Sweep \cup {Idle}]
    /\ grace \in [uploads: Nat, deletes: Nat]

Exists(u) == uploads[u].kind # "absent"
HasRow(u) == assets[u].row \in {"live", "deleted"}
Old(u)    == u <= grace.uploads

\* The last deleted_at stamp given out.
LastDelete == CHOOSE n \in {0} \cup {assets[u].deletedAt : u \in Uploads} :
                  \A u \in Uploads : assets[u].deletedAt <= n

Init ==
    /\ uploads = [u \in Uploads |-> NoUpload]
    /\ objects = [u \in Uploads |-> FALSE]
    /\ assets = [u \in Uploads |-> NoAsset]
    /\ derived = [u \in Uploads |-> {}]
    /\ answered = [u \in Uploads |-> FALSE]
    /\ request = [r \in Requests |-> Idle]
    /\ sweeper = [s \in Sweepers |-> Idle]
    /\ grace = [uploads |-> 0, deletes |-> 0]

------------------------------------------------------------------------------
\* The client, and time

\* POST /uploads: presign the PUT, then record the upload.
CreateUpload(u) ==
    /\ ~Exists(u) /\ \A v \in Uploads : v < u => Exists(v)
    /\ \E kind \in Kinds :
          uploads' = [uploads EXCEPT ![u] =
                        [kind |-> kind, ticket |-> TRUE, finalized |-> FALSE, swept |-> FALSE]]
    /\ UNCHANGED <<objects, assets, derived, answered, request, sweeper, grace>>

\* The presigned PUT works until it expires, before and after finalize.
Put(u) ==
    /\ uploads[u].ticket
    /\ objects' = [objects EXCEPT ![u] = TRUE]
    /\ UNCHANGED <<uploads, assets, derived, answered, request, sweeper, grace>>

TicketExpires(u) ==
    /\ uploads[u].ticket
    /\ uploads' = [uploads EXCEPT ![u].ticket = FALSE]
    /\ UNCHANGED <<objects, assets, derived, answered, request, sweeper, grace>>

\* The grace period (6h) outlasts a ticket (1h): both are the defaults.
UploadAges(u) ==
    /\ u = grace.uploads + 1
    /\ Exists(u) /\ ~uploads[u].ticket
    /\ \/ "late_finalize" \in Faults
       \/ \A r \in Requests : request[r] # Idle => request[r].upload # u
    /\ grace' = [grace EXCEPT !.uploads = u]
    /\ UNCHANGED <<uploads, objects, assets, derived, answered, request, sweeper>>

DeleteAges ==
    /\ grace.deletes < LastDelete
    /\ \A u \in Uploads : assets[u].deletedAt = grace.deletes + 1 => ~uploads[u].ticket
    /\ grace' = [grace EXCEPT !.deletes = @ + 1]
    /\ UNCHANGED <<uploads, objects, assets, derived, answered, request, sweeper>>

\* DELETE /assets/{id}: a repeated one stamps deleted_at again.
MarkAssetDeleted(u) ==
    /\ HasRow(u) /\ LastDelete < MaxDeletes
    /\ assets' = [assets EXCEPT ![u] = [row |-> "deleted", deletedAt |-> LastDelete + 1]]
    /\ UNCHANGED <<uploads, objects, derived, answered, request, sweeper, grace>>

------------------------------------------------------------------------------
\* POST /uploads/{id}/finalize

In(r, pc) == request[r] # Idle /\ request[r].pc = pc
UploadOf(r) == request[r].upload
Reply(r) == request' = [request EXCEPT ![r] = Idle]

\* GetUpload; a swept upload is answered 410 here and nothing changes.
FinalizeRead(r, u) ==
    /\ request[r] = Idle
    /\ Exists(u) /\ ~uploads[u].swept
    /\ "late_finalize" \in Faults \/ uploads[u].finalized \/ ~Old(u)
    /\ request' = [request EXCEPT ![r] = [pc |-> "head", upload |-> u, left |-> 0]]
    /\ UNCHANGED <<uploads, objects, assets, derived, answered, sweeper, grace>>

\* HEAD the object; without one the answer is 409.
FinalizeHead(r) ==
    /\ In(r, "head") /\ objects[UploadOf(r)]
    /\ request' = [request EXCEPT ![r].pc =
                     IF uploads[UploadOf(r)].kind = "other" THEN "probe" ELSE "register"]
    /\ UNCHANGED <<uploads, objects, assets, derived, answered, sweeper, grace>>

\* Images: read the header; a document passes at once.
ProbeImageHead(r) ==
    /\ In(r, "probe") /\ objects[UploadOf(r)]
    /\ request' = [request EXCEPT ![r].pc = "register"]
    /\ UNCHANGED <<uploads, objects, assets, derived, answered, sweeper, grace>>

Refused_PurgedOnly(u) == uploads[u].finalized /\ ~HasRow(u)

\* 410 once the sweep has marked it, 404 once its asset is purged.
Refused(u) == uploads[u].swept \/ (uploads[u].finalized /\ ~HasRow(u))

Owed_FirstTime(u) == IF uploads[u].finalized THEN 0 ELSE Len(FollowUps(uploads[u].kind))

\* A replay goes through every follow-up again.
Owed(u) == Len(FollowUps(uploads[u].kind))

\* One transaction with the uploads row locked: the asset is created, or is the
\* existing one, deleted or not.
FinalizeUpload(r) ==
    /\ In(r, "register")
    /\ LET u == UploadOf(r)
       IN  \/ /\ Refused(u)
              /\ Reply(r)
              /\ UNCHANGED <<uploads, assets>>
           \/ /\ ~Refused(u)
              /\ uploads' = [uploads EXCEPT ![u].finalized = TRUE]
              /\ assets' = [assets EXCEPT ![u].row = IF HasRow(u) THEN @ ELSE "live"]
              /\ request' = [request EXCEPT ![r].pc = "follow_up", ![r].left = Owed(u)]
    /\ UNCHANGED <<objects, derived, answered, sweeper, grace>>

\* EnqueueJob, or MarkNotDerived intent by intent; both refer to the asset row.
FollowUp(r) ==
    /\ In(r, "follow_up") /\ request[r].left > 0
    /\ LET u     == UploadOf(r)
           steps == FollowUps(uploads[u].kind)
           step  == steps[Len(steps) - request[r].left + 1]
       IN  /\ HasRow(u)
           /\ derived' = [derived EXCEPT ![u] = @ \cup {step}]
    /\ request' = [request EXCEPT ![r].left = @ - 1]
    /\ UNCHANGED <<uploads, objects, assets, answered, sweeper, grace>>

\* 201 with the asset.
Answer(r) ==
    /\ In(r, "follow_up") /\ request[r].left = 0
    /\ answered' = [answered EXCEPT ![UploadOf(r)] = TRUE]
    /\ Reply(r)
    /\ UNCHANGED <<uploads, objects, assets, derived, sweeper, grace>>

\* 409, an error of the store or the object store, a cancelled request or a
\* killed API process.
RequestFails(r) ==
    /\ request[r] # Idle
    /\ Reply(r)
    /\ UNCHANGED <<uploads, objects, assets, derived, answered, sweeper, grace>>

------------------------------------------------------------------------------
\* The sweeps

Doing(s, pc) == sweeper[s] # Idle /\ sweeper[s].pc = pc
Subject(s)   == sweeper[s].at

\* ORDER BY the stamp, LIMIT the batch.
Limited(S, stamp(_)) == {u \in S : Cardinality({v \in S : stamp(v) < stamp(u)}) < BatchSize}

ReclaimableUploads_Finalized ==
    LET Created(u) == u
    IN  Limited({u \in Uploads : Exists(u) /\ Old(u) /\ ~uploads[u].swept}, Created)

ReclaimableUploads ==
    LET Created(u) == u
    IN  Limited({u \in Uploads : /\ Exists(u) /\ Old(u)
                                 /\ ~uploads[u].finalized /\ ~uploads[u].swept}, Created)

ReclaimableDeletedAssets_One ==
    {u \in Uploads : /\ assets[u].row = "deleted" /\ assets[u].deletedAt <= grace.deletes
                     /\ \A v \in Uploads : assets[v].row = "deleted"
                            => assets[u].deletedAt <= assets[v].deletedAt}

ReclaimableDeletedAssets ==
    LET DeletedAt(u) == assets[u].deletedAt
    IN  Limited({u \in Uploads : /\ assets[u].row = "deleted"
                                 /\ assets[u].deletedAt <= grace.deletes}, DeletedAt)

\* Orphans are taken in the order of the list.
NextOrphan(s, u) == u \in sweeper[s].todo /\ \A v \in sweeper[s].todo : u <= v

GoOn_KeepsSubject(s, pc) == sweeper' = [sweeper EXCEPT ![s].pc = pc, ![s].todo = @ \ {Subject(s)}]

\* On to the next of the batch.
GoOn(s, pc) == sweeper' = [sweeper EXCEPT ![s] = [pc |-> pc, todo |-> @.todo \ {Subject(s)}, at |-> 0]]

\* SweepOnce lists the orphans once and works from that list.
ListOrphans(s) ==
    /\ sweeper[s] = Idle
    /\ sweeper' = [sweeper EXCEPT ![s] = [pc |-> "orphans", todo |-> ReclaimableUploads, at |-> 0]]
    /\ UNCHANGED <<uploads, objects, assets, derived, answered, request, grace>>

\* Take the next orphan and delete its object.
SweepObject(s, u) ==
    /\ Doing(s, "orphans") /\ NextOrphan(s, u) /\ u \notin BadKeys
    /\ objects' = [objects EXCEPT ![u] = FALSE]
    /\ sweeper' = [sweeper EXCEPT ![s].pc = "mark", ![s].at = u]
    /\ UNCHANGED <<uploads, assets, derived, answered, request, grace>>

SweepObjectFails_Stops(s, u) ==
    /\ Doing(s, "orphans") /\ NextOrphan(s, u)
    /\ sweeper' = [sweeper EXCEPT ![s].todo = {}]
    /\ UNCHANGED <<uploads, objects, assets, derived, answered, request, grace>>

\* A failed delete leaves swept_at NULL: the next pass tries again.
SweepObjectFails(s, u) ==
    /\ Doing(s, "orphans") /\ NextOrphan(s, u)
    /\ sweeper' = [sweeper EXCEPT ![s].todo = @ \ {u}]
    /\ UNCHANGED <<uploads, objects, assets, derived, answered, request, grace>>

\* UPDATE uploads SET swept_at WHERE id: finalized or not by now.
MarkUploadSwept(s) ==
    /\ Doing(s, "mark")
    /\ uploads' = [uploads EXCEPT ![Subject(s)].swept = TRUE]
    /\ GoOn(s, "orphans")
    /\ UNCHANGED <<objects, assets, derived, answered, request, grace>>

MarkUploadSweptFails(s) ==
    /\ Doing(s, "mark")
    /\ GoOn(s, "orphans")
    /\ UNCHANGED <<uploads, objects, assets, derived, answered, request, grace>>

\* SweepDeletedAssets follows in the same pass.
ListDeletions(s) ==
    /\ Doing(s, "orphans") /\ sweeper[s].todo = {}
    /\ sweeper' = [sweeper EXCEPT ![s] = [pc |-> "deletions", todo |-> ReclaimableDeletedAssets, at |-> 0]]
    /\ UNCHANGED <<uploads, objects, assets, derived, answered, request, grace>>

\* Delete a listed asset's object; the order of the batch makes no difference.
PurgeObject(s, u) ==
    /\ Doing(s, "deletions") /\ u \in sweeper[s].todo /\ u \notin BadKeys
    /\ objects' = [objects EXCEPT ![u] = FALSE]
    /\ sweeper' = [sweeper EXCEPT ![s].pc = "purge", ![s].at = u]
    /\ UNCHANGED <<uploads, assets, derived, answered, request, grace>>

PurgeObjectFails_PurgesRow(s, u) ==
    /\ Doing(s, "deletions") /\ u \in sweeper[s].todo
    /\ sweeper' = [sweeper EXCEPT ![s].pc = "purge", ![s].at = u]
    /\ UNCHANGED <<uploads, objects, assets, derived, answered, request, grace>>

\* The row outlives bytes that could not be deleted.
PurgeObjectFails(s, u) ==
    /\ Doing(s, "deletions") /\ u \in sweeper[s].todo
    /\ sweeper' = [sweeper EXCEPT ![s].todo = @ \ {u}]
    /\ UNCHANGED <<uploads, objects, assets, derived, answered, request, grace>>

\* DELETE FROM assets; jobs and renditions cascade.
PurgeDeletedAsset(s) ==
    /\ Doing(s, "purge")
    /\ assets' = [assets EXCEPT ![Subject(s)].row = IF @ = "deleted" THEN "purged" ELSE @]
    /\ derived' = [derived EXCEPT ![Subject(s)] = {}]
    /\ GoOn(s, "deletions")
    /\ UNCHANGED <<uploads, objects, answered, request, grace>>

PurgeDeletedAssetFails(s) ==
    /\ Doing(s, "purge")
    /\ GoOn(s, "deletions")
    /\ UNCHANGED <<uploads, objects, assets, derived, answered, request, grace>>

PassEnds(s) ==
    /\ Doing(s, "deletions") /\ sweeper[s].todo = {}
    /\ sweeper' = [sweeper EXCEPT ![s] = Idle]
    /\ UNCHANGED <<uploads, objects, assets, derived, answered, request, grace>>

SweeperCrashes(s) ==
    /\ "crash" \in Faults /\ sweeper[s] # Idle
    /\ sweeper' = [sweeper EXCEPT ![s] = Idle]
    /\ UNCHANGED <<uploads, objects, assets, derived, answered, request, grace>>

------------------------------------------------------------------------------
Client(u) == CreateUpload(u) \/ Put(u) \/ MarkAssetDeleted(u)

Clock == DeleteAges \/ \E u \in Uploads : TicketExpires(u) \/ UploadAges(u)

Api(r) ==
    \/ \E u \in Uploads : FinalizeRead(r, u)
    \/ FinalizeHead(r) \/ ProbeImageHead(r) \/ FinalizeUpload(r)
    \/ FollowUp(r) \/ Answer(r) \/ RequestFails(r)

SweepLoop(s) ==
    \/ ListOrphans(s) \/ MarkUploadSwept(s) \/ MarkUploadSweptFails(s)
    \/ ListDeletions(s) \/ PurgeDeletedAsset(s) \/ PurgeDeletedAssetFails(s) \/ PassEnds(s)
    \/ \E u \in Uploads : \/ SweepObject(s, u) \/ SweepObjectFails(s, u)
                          \/ PurgeObject(s, u) \/ PurgeObjectFails(s, u)

Next ==
    \/ \E u \in Uploads : Client(u)
    \/ Clock
    \/ \E r \in Requests : Api(r)
    \/ \E s \in Sweepers : SweepLoop(s) \/ SweeperCrashes(s)

Spec == Init /\ [][Next]_vars

------------------------------------------------------------------------------
\* Properties

\* The vault holds nothing it cannot account for: an object belongs to an asset,
\* or to an upload that a sweep will still find.
VaultAccountedFor ==
    \A u \in Uploads : objects[u] =>
        \/ HasRow(u)
        \/ Exists(u) /\ ~(uploads[u].finalized \/ uploads[u].swept)

\* What the sweeps took never comes back as an asset: not a swept upload whose
\* finalize was already past its check, not a purged asset finalized again.
GoneStaysGone ==
    [][\A u \in Uploads :
          assets[u].row = "purged" \/ (uploads[u].swept /\ assets[u].row = "none")
              => assets'[u].row = assets[u].row]_vars

\* A 201 means everything finalize owes the asset is written, even if an earlier
\* finalize of it stopped half-way.
AnsweredIsComplete ==
    \A u \in Uploads : answered[u] /\ HasRow(u) => Written(uploads[u].kind) \subseteq derived[u]

\* "It is safe to run concurrently with ingest": an asset has its original.
LiveAssetHasObject ==
    \A u \in Uploads : assets[u].row = "live" => objects[u]

\* How far an upload has come in the life that Vault describes.
Stage(u) ==
    CASE assets[u].row # "none" -> assets[u].row
      [] assets[u].row = "none" /\ uploads[u].swept -> "reclaimed"
      [] assets[u].row = "none" /\ ~uploads[u].swept ->
            IF ~Exists(u) THEN "none" ELSE IF Old(u) THEN "given_up" ELSE "open"

Promised == INSTANCE Vault WITH
    Originals <- Uploads,
    stage     <- [u \in Uploads |-> Stage(u)],
    stored    <- objects

\* While clients finalize within the grace period, tickets, replays, retries,
\* failed deletes and the lists of sweeps come down to Vault: bytes arrive in
\* an open upload only, and no sweep takes them from an asset that is wanted.
ImplementsVault == Promised!VaultSpec

\* "One bad key must not stall the sweep": every other abandoned upload's bytes
\* are reclaimed.
OrphansReclaimed ==
    \A u \in Uploads \ BadKeys :
        (objects[u] /\ Old(u) /\ ~uploads[u].finalized) ~> (~objects[u] \/ uploads[u].finalized)

\* A deleted asset loses its bytes and then its row.
DeletedIsPurged ==
    \A u \in Uploads \ BadKeys :
        (assets[u].row = "deleted") ~> (assets[u].row = "purged" /\ ~objects[u])
=============================================================================
