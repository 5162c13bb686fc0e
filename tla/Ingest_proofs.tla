---------------------------- MODULE Ingest_proofs ----------------------------
(***************************************************************************)
(* That the vault, the tables and the answers of finalize stay in step,    *)
(* whatever faults show, and that assets keep their originals while        *)
(* clients finalize within the grace period: for any number of uploads,    *)
(* requests and sweeps, every batch size and every set of bad keys.        *)
(***************************************************************************)
EXTENDS Ingest, FiniteSetTheorems, WellFoundedInduction, TLAPS

USE UploadsAssumption, DeletesAssumption

------------------------------------------------------------------------------
\* The inductive invariant

\* There is a last deletion stamp, and what has aged is not past it.
Stamps == \E n \in {0} \cup {assets[u].deletedAt : u \in Uploads} :
              grace.deletes <= n /\ \A u \in Uploads : assets[u].deletedAt <= n

\* What is past the grace period can be put no more.
TicketsOver ==
    \A u \in Uploads :
        /\ Old(u) => Exists(u) /\ ~uploads[u].ticket
        /\ uploads[u].swept => Old(u)
        /\ 1 <= assets[u].deletedAt /\ assets[u].deletedAt <= grace.deletes
               => ~uploads[u].ticket

\* An asset has had a row exactly when its upload is finalized.
RowsFinalized ==
    \A u \in Uploads :
        /\ uploads[u].finalized <=> assets[u].row # "none"
        /\ assets[u].row = "none" => assets[u].deletedAt = 0
        /\ assets[u].row = "deleted" => 1 <= assets[u].deletedAt
        /\ assets[u].row = "purged" => ~uploads[u].ticket
        /\ answered[u] => uploads[u].finalized

\* A sweep's list of orphans is of old uploads; whose object it has deleted
\* stays without one.
OrphansOld ==
    \A s \in Sweepers : sweeper[s] # Idle =>
        /\ sweeper[s].pc \in {"orphans", "mark"} => \A u \in sweeper[s].todo : Old(u)
        /\ sweeper[s].pc = "mark" => Old(Subject(s)) /\ ~objects[Subject(s)]

\* A listed deletion is one for good, and so is the end of its object.
DeletionsStand ==
    \A s \in Sweepers : sweeper[s] # Idle =>
        /\ sweeper[s].pc \in {"deletions", "purge"} =>
              \A u \in sweeper[s].todo :
                  assets[u].row \in {"deleted", "purged"} /\ ~uploads[u].ticket
        /\ sweeper[s].pc = "purge" =>
              /\ assets[Subject(s)].row \in {"deleted", "purged"}
              /\ ~uploads[Subject(s)].ticket /\ ~objects[Subject(s)]

\* A finalize past its transaction has written the first follow-ups of its list.
FollowsUp ==
    \A r \in Requests : request[r] # Idle =>
        LET u     == UploadOf(r)
            steps == FollowUps(uploads[u].kind)
        IN  /\ Exists(u)
            /\ request[r].pc = "follow_up" =>
                  /\ uploads[u].finalized /\ request[r].left <= Len(steps)
                  /\ HasRow(u) => \A i \in 1 .. Len(steps) - request[r].left : steps[i] \in derived[u]

IngestInv == /\ TypeOK /\ Stamps
             /\ TicketsOver /\ RowsFinalized
             /\ OrphansOld /\ DeletionsStand /\ FollowsUp
             /\ VaultAccountedFor /\ AnsweredIsComplete

\* Without late finalizes: who finalizes began within the grace period, or after an
\* earlier success, and from its HEAD on the object is there until a deletion.
InTime ==
    \A r \in Requests : request[r] # Idle =>
        LET u == UploadOf(r)
        IN  /\ uploads[u].finalized \/ ~Old(u)
            /\ request[r].pc \in {"probe", "register"}
                  => objects[u] \/ assets[u].row \in {"deleted", "purged"}

\* What a sweep has listed as an orphan is never finalized again.
OrphansStay ==
    \A s \in Sweepers : sweeper[s] # Idle =>
        /\ sweeper[s].pc \in {"orphans", "mark"} => \A u \in sweeper[s].todo : ~uploads[u].finalized
        /\ sweeper[s].pc = "mark" => ~uploads[Subject(s)].finalized

TimelyInv == IngestInv /\ InTime /\ OrphansStay /\ LiveAssetHasObject

------------------------------------------------------------------------------
\* Helpers

\* What finalize owes, kind by kind.
LEMMA FollowUpsShape ==
    ASSUME NEW kind \in Kinds
    PROVE  /\ Len(FollowUps(kind)) \in 0 .. 3
           /\ DOMAIN FollowUps(kind) = 1 .. Len(FollowUps(kind))
           /\ \A i \in 1 .. Len(FollowUps(kind)) :
                FollowUps(kind)[i] \in {"job", "poster", "loop", "detail"}
<1>1. kind \in {"video", "archive", "other"}
  BY KindsAssumption
<1>2. CASE kind = "video"
  <2>1. FollowUps(kind) = <<"job">>
    BY <1>2 DEF FollowUps
  <2> QED
    BY <2>1
<1>3. CASE kind = "archive"
  <2>1. FollowUps(kind) = <<"poster", "loop", "detail">>
    BY <1>3 DEF FollowUps
  <2> QED
    BY <2>1
<1>4. CASE kind = "other"
  <2>1. FollowUps(kind) = <<>>
    BY <1>4 DEF FollowUps
  <2> QED
    BY <2>1
<1> QED
  BY <1>1, <1>2, <1>3, <1>4

\* The last stamp is one of those given out, or none.
LEMMA LastDeleteIsLast ==
    ASSUME TypeOK, Stamps
    PROVE  /\ LastDelete \in Nat /\ grace.deletes <= LastDelete
           /\ \A u \in Uploads : assets[u].deletedAt <= LastDelete
<1> DEFINE Given == {0} \cup {assets[u].deletedAt : u \in Uploads}
<1>1. Given \subseteq Nat /\ grace.deletes \in Nat
  BY DEF TypeOK, Asset
<1>3. PICK n \in Given : grace.deletes <= n /\ \A u \in Uploads : assets[u].deletedAt <= n
  BY DEF Stamps
<1>2. LastDelete \in Given /\ \A u \in Uploads : assets[u].deletedAt <= LastDelete
  <2>1. LastDelete = CHOOSE m \in Given : \A u \in Uploads : assets[u].deletedAt <= m
    BY DEF LastDelete
  <2> HIDE DEF Given
  <2> QED
    BY <1>3, <2>1
<1>4. n <= LastDelete
  BY <1>1, <1>2
<1> QED
  BY <1>1, <1>2, <1>3, <1>4

\* An upload that is there has a kind; one that is not has nothing.
LEMMA UploadKinds ==
    ASSUME TypeOK, NEW u \in Uploads
    PROVE  IF Exists(u) THEN uploads[u] \in Upload /\ uploads[u].kind \in Kinds
           ELSE uploads[u] = NoUpload
BY KindsAssumption DEF TypeOK, Exists, Upload, NoUpload

\* A sweep lists old orphans, and deletions past their grace period.
LEMMA Listed ==
    /\ ReclaimableUploads \subseteq {u \in Uploads : Exists(u) /\ Old(u) /\ ~uploads[u].finalized}
    /\ ReclaimableDeletedAssets \subseteq
          {u \in Uploads : assets[u].row = "deleted" /\ assets[u].deletedAt <= grace.deletes}
BY DEF ReclaimableUploads, ReclaimableDeletedAssets, Limited

\* What a request does, in parts that move the same variables.
RequestOnly(r) ==
    (\E u \in Uploads : FinalizeRead(r, u)) \/ FinalizeHead(r) \/ ProbeImageHead(r) \/ RequestFails(r)

\* What a sweep does to its own list alone.
SweeperOnly(s) ==
    \/ ListOrphans(s) \/ MarkUploadSweptFails(s) \/ ListDeletions(s) \/ PurgeDeletedAssetFails(s)
    \/ PassEnds(s) \/ SweeperCrashes(s)
    \/ \E u \in Uploads : SweepObjectFails(s, u) \/ PurgeObjectFails(s, u)

\* A step is one of these.
LEMMA Steps ==
    ASSUME [Next]_vars
    PROVE  \/ UNCHANGED vars
           \/ \E u \in Uploads : CreateUpload(u) \/ Put(u) \/ MarkAssetDeleted(u)
                                 \/ TicketExpires(u) \/ UploadAges(u)
           \/ DeleteAges
           \/ \E r \in Requests : RequestOnly(r) \/ FinalizeUpload(r) \/ FollowUp(r) \/ Answer(r)
           \/ \E s \in Sweepers :
                 \/ SweeperOnly(s) \/ MarkUploadSwept(s) \/ PurgeDeletedAsset(s)
                 \/ \E u \in Uploads : SweepObject(s, u) \/ PurgeObject(s, u)
BY DEF Next, Client, Clock, Api, SweepLoop, RequestOnly, SweeperOnly

------------------------------------------------------------------------------
\* Types

\* A step of a request keeps the types.
LEMMA RequestTypes ==
    ASSUME TypeOK, FollowsUp, NEW r \in Requests,
           RequestOnly(r) \/ FinalizeUpload(r) \/ FollowUp(r) \/ Answer(r)
    PROVE  TypeOK'
<1>1. CASE RequestOnly(r)
  BY <1>1 DEF RequestOnly, FinalizeRead, FinalizeHead, ProbeImageHead, RequestFails, In, Reply, UploadOf,
       TypeOK, Finalize, Idle
<1>2. ASSUME request[r] # Idle
      PROVE  UploadOf(r) \in Uploads /\ request[r] \in Finalize /\ Exists(UploadOf(r))
             /\ uploads[UploadOf(r)] \in Upload /\ uploads[UploadOf(r)].kind \in Kinds
  BY <1>2, UploadKinds DEF TypeOK, Finalize, UploadOf, FollowsUp
<1>3. CASE FinalizeUpload(r)
  <2>1. request[r] # Idle /\ Owed(UploadOf(r)) \in 0 .. 3
    BY <1>2, <1>3, FollowUpsShape DEF FinalizeUpload, In, Owed
  <2>2. request' \in [Requests -> Finalize \cup {Idle}]
    BY <1>2, <1>3, <2>1 DEF FinalizeUpload, Reply, TypeOK, Finalize, Idle
  <2>3. uploads' \in [Uploads -> Upload \cup {NoUpload}]
    <3>1. [uploads[UploadOf(r)] EXCEPT !.finalized = TRUE] \in Upload
      BY <1>2, <2>1 DEF Upload
    <3> QED
      BY <1>2, <1>3, <2>1, <3>1 DEF FinalizeUpload, TypeOK
  <2>4. assets' \in [Uploads -> Asset]
    BY <1>2, <1>3, <2>1 DEF FinalizeUpload, TypeOK, Asset
  <2> QED
    BY <1>3, <2>2, <2>3, <2>4 DEF FinalizeUpload, TypeOK
<1>4. CASE FollowUp(r)
  <2> DEFINE u     == UploadOf(r)
             steps == FollowUps(uploads[u].kind)
             step  == steps[Len(steps) - request[r].left + 1]
  <2>1. request[r] # Idle /\ request[r].left \in 1 .. 3 /\ request[r].left <= Len(steps)
    BY <1>2, <1>4 DEF FollowUp, In, FollowsUp, Finalize
  <2>2. step \in {"job", "poster", "loop", "detail"}
    <3>1. Len(steps) - request[r].left + 1 \in 1 .. Len(steps)
      BY <1>2, <2>1, FollowUpsShape
    <3> QED
      BY <1>2, <2>1, <3>1, FollowUpsShape
  <2>3. derived' = [derived EXCEPT ![u] = @ \cup {step}] /\ request' = [request EXCEPT ![r].left = @ - 1]
    BY <1>4 DEF FollowUp
  <2> HIDE DEF step, steps
  <2>4. derived' \in [Uploads -> SUBSET {"job", "poster", "loop", "detail"}]
    BY <1>2, <2>1, <2>2, <2>3 DEF TypeOK
  <2>5. request' \in [Requests -> Finalize \cup {Idle}]
    <3>1. [request[r] EXCEPT !.left = @ - 1] \in Finalize
      BY <1>2, <2>1 DEF Finalize
    <3> QED
      BY <2>3, <3>1 DEF TypeOK
  <2> QED
    BY <1>4, <2>4, <2>5 DEF FollowUp, TypeOK
<1>5. CASE Answer(r)
  BY <1>5 DEF Answer, In, Reply, UploadOf, TypeOK, Finalize, Idle
<1> QED
  BY <1>1, <1>3, <1>4, <1>5

\* A step of a sweep keeps the types.
LEMMA SweepTypes ==
    ASSUME TypeOK, TicketsOver, OrphansOld, NEW s \in Sweepers,
           \/ SweeperOnly(s) \/ MarkUploadSwept(s) \/ PurgeDeletedAsset(s)
           \/ \E u \in Uploads : SweepObject(s, u) \/ PurgeObject(s, u)
    PROVE  TypeOK'
<1>1. ASSUME sweeper[s] # Idle
      PROVE  /\ sweeper[s] \in Sweep
             /\ sweeper[s].pc \in {"mark", "purge"} => Subject(s) \in Uploads
  BY <1>1 DEF TypeOK, Sweep, Subject
<1>2. CASE SweeperOnly(s)
  <2>1. CASE ListOrphans(s) \/ ListDeletions(s)
    <3>1. ReclaimableUploads \in SUBSET Uploads /\ ReclaimableDeletedAssets \in SUBSET Uploads
      BY Listed
    <3>2. /\ [pc |-> "orphans", todo |-> ReclaimableUploads, at |-> 0] \in Sweep
          /\ [pc |-> "deletions", todo |-> ReclaimableDeletedAssets, at |-> 0] \in Sweep
      BY <3>1 DEF Sweep
    <3> QED
      BY <2>1, <3>2 DEF ListOrphans, ListDeletions, TypeOK
  <2>2. CASE MarkUploadSweptFails(s) \/ PurgeDeletedAssetFails(s)
    BY <1>1, <2>2 DEF MarkUploadSweptFails, PurgeDeletedAssetFails, GoOn, Doing, TypeOK, Sweep
  <2>3. CASE PassEnds(s) \/ SweeperCrashes(s)
    BY <2>3 DEF PassEnds, SweeperCrashes, TypeOK
  <2>4. ASSUME NEW u \in Uploads, SweepObjectFails(s, u) \/ PurgeObjectFails(s, u)
        PROVE  TypeOK'
    <3>1. sweeper[s] # Idle /\ [sweeper[s] EXCEPT !.todo = @ \ {u}] \in Sweep
      BY <1>1, <2>4 DEF SweepObjectFails, PurgeObjectFails, Doing, Sweep
    <3> QED
      BY <2>4, <3>1 DEF SweepObjectFails, PurgeObjectFails, TypeOK
  <2> QED
    BY <1>2, <2>1, <2>2, <2>3, <2>4 DEF SweeperOnly
<1>3. CASE MarkUploadSwept(s)
  <2>1. sweeper[s] # Idle /\ Subject(s) \in Uploads /\ Exists(Subject(s))
    BY <1>1, <1>3 DEF MarkUploadSwept, Doing, OrphansOld, TicketsOver
  <2>2. sweeper' \in [Sweepers -> Sweep \cup {Idle}]
    BY <1>1, <1>3, <2>1 DEF MarkUploadSwept, GoOn, TypeOK, Sweep
  <2>3. [uploads[Subject(s)] EXCEPT !.swept = TRUE] \in Upload
    BY <2>1, UploadKinds DEF Upload
  <2> QED
    BY <1>3, <2>1, <2>2, <2>3 DEF MarkUploadSwept, TypeOK
<1>4. CASE PurgeDeletedAsset(s)
  BY <1>1, <1>4 DEF PurgeDeletedAsset, GoOn, Doing, TypeOK, Sweep, Asset
<1>5. ASSUME NEW u \in Uploads, SweepObject(s, u) \/ PurgeObject(s, u)
      PROVE  TypeOK'
  BY <1>1, <1>5 DEF SweepObject, PurgeObject, Doing, TypeOK, Sweep
<1> QED
  BY <1>2, <1>3, <1>4, <1>5

\* So does every other step.
LEMMA TypeStep ==
    ASSUME IngestInv, [Next]_vars
    PROVE  TypeOK'
<1>t. TypeOK /\ Stamps /\ TicketsOver /\ OrphansOld /\ FollowsUp
  BY DEF IngestInv
<1>1. ASSUME NEW u \in Uploads, CreateUpload(u)
      PROVE  TypeOK'
  BY <1>t, <1>1 DEF CreateUpload, TypeOK, Upload
<1>2. ASSUME NEW u \in Uploads, Put(u)
      PROVE  TypeOK'
  BY <1>t, <1>2 DEF Put, TypeOK
<1>3. ASSUME NEW u \in Uploads, MarkAssetDeleted(u)
      PROVE  TypeOK'
  BY <1>t, <1>3, LastDeleteIsLast DEF MarkAssetDeleted, TypeOK, Asset
<1>4. ASSUME NEW u \in Uploads, TicketExpires(u)
      PROVE  TypeOK'
  <2>1. uploads[u] \in Upload
    BY <1>t, <1>4, UploadKinds DEF TicketExpires, NoUpload
  <2>2. [uploads[u] EXCEPT !.ticket = FALSE] \in Upload
    BY <2>1 DEF Upload
  <2> QED
    BY <1>t, <1>4, <2>2 DEF TicketExpires, TypeOK
<1>5. ASSUME NEW u \in Uploads, UploadAges(u)
      PROVE  TypeOK'
  BY <1>t, <1>5 DEF UploadAges, TypeOK
<1>6. CASE DeleteAges
  BY <1>t, <1>6 DEF DeleteAges, TypeOK
<1>7. CASE UNCHANGED vars
  BY <1>t, <1>7 DEF vars, TypeOK
<1> QED
  BY <1>t, <1>1, <1>2, <1>3, <1>4, <1>5, <1>6, <1>7, Steps, RequestTypes, SweepTypes

------------------------------------------------------------------------------
\* What a step does to a row of each table

\* An upload appears, loses its ticket, is finalized, or is marked by a sweep.
LEMMA UploadsStep ==
    ASSUME IngestInv, [Next]_vars, NEW u \in Uploads
    PROVE  \/ uploads'[u] = uploads[u]
           \/ /\ ~Exists(u) /\ ~Old(u) /\ Exists(u)'
              /\ uploads'[u].ticket /\ ~uploads'[u].finalized /\ ~uploads'[u].swept
           \/ /\ Exists(u) /\ uploads'[u].kind = uploads[u].kind
              /\ \/ /\ ~uploads'[u].ticket
                    /\ uploads'[u].finalized = uploads[u].finalized
                    /\ uploads'[u].swept = uploads[u].swept
                 \/ /\ \E r \in Requests : FinalizeUpload(r) /\ UploadOf(r) = u
                    /\ ~uploads[u].swept /\ ~uploads[u].finalized
                    /\ uploads'[u].finalized /\ assets[u].row = "none" /\ assets'[u].row = "live"
                    /\ assets'[u].deletedAt = assets[u].deletedAt
                    /\ uploads'[u].ticket = uploads[u].ticket
                    /\ uploads'[u].swept = uploads[u].swept
                 \/ /\ \E s \in Sweepers : Doing(s, "mark") /\ Subject(s) = u
                    /\ Old(u) /\ ~objects[u] /\ ~objects'[u]
                    /\ uploads'[u].swept
                    /\ uploads'[u].ticket = uploads[u].ticket
                    /\ uploads'[u].finalized = uploads[u].finalized
<1>t. TypeOK /\ TicketsOver /\ RowsFinalized /\ OrphansOld /\ FollowsUp
  BY DEF IngestInv
<1>1. ASSUME NEW v \in Uploads, CreateUpload(v), uploads'[u] # uploads[u]
      PROVE  ~Exists(u) /\ Exists(u)' /\ uploads'[u].ticket /\ ~uploads'[u].finalized /\ ~uploads'[u].swept
  <2>1. PICK kind \in Kinds :
           uploads' = [uploads EXCEPT ![v] =
                         [kind |-> kind, ticket |-> TRUE, finalized |-> FALSE, swept |-> FALSE]]
    BY <1>1 DEF CreateUpload
  <2>2. v = u /\ ~Exists(u)
    BY <1>t, <1>1, <2>1 DEF CreateUpload, TypeOK
  <2>3. uploads'[u] = [kind |-> kind, ticket |-> TRUE, finalized |-> FALSE, swept |-> FALSE]
    BY <1>t, <2>1, <2>2 DEF TypeOK
  <2>4. kind # "absent"
    BY KindsAssumption
  <2> QED
    BY <2>2, <2>3, <2>4 DEF Exists
<1>2. ASSUME NEW v \in Uploads, TicketExpires(v), uploads'[u] # uploads[u]
      PROVE  /\ Exists(u) /\ uploads'[u].kind = uploads[u].kind /\ ~uploads'[u].ticket
             /\ uploads'[u].finalized = uploads[u].finalized /\ uploads'[u].swept = uploads[u].swept
  <2>1. v = u /\ uploads[u].ticket
    BY <1>t, <1>2 DEF TicketExpires, TypeOK
  <2>2. Exists(u) /\ uploads[u] \in Upload
    BY <1>t, <2>1, UploadKinds DEF NoUpload
  <2>3. uploads'[u] = [uploads[u] EXCEPT !.ticket = FALSE]
    BY <1>t, <1>2, <2>1 DEF TicketExpires, TypeOK
  <2> QED
    BY <2>2, <2>3 DEF Upload
<1>3. ASSUME NEW r \in Requests, FinalizeUpload(r), uploads'[u] # uploads[u]
      PROVE  /\ Exists(u) /\ uploads'[u].kind = uploads[u].kind /\ UploadOf(r) = u
             /\ ~uploads[u].swept /\ ~uploads[u].finalized
             /\ uploads'[u].finalized /\ assets[u].row = "none" /\ assets'[u].row = "live"
             /\ assets'[u].deletedAt = assets[u].deletedAt
             /\ uploads'[u].ticket = uploads[u].ticket /\ uploads'[u].swept = uploads[u].swept
  <2>1. /\ UploadOf(r) = u /\ Exists(u) /\ ~Refused(u)
        /\ uploads' = [uploads EXCEPT ![u].finalized = TRUE]
        /\ assets' = [assets EXCEPT ![u].row = IF HasRow(u) THEN @ ELSE "live"]
    BY <1>t, <1>3 DEF FinalizeUpload, In, FollowsUp, TypeOK
  <2>2. uploads[u] \in Upload /\ assets[u] \in Asset
    BY <1>t, <2>1, UploadKinds DEF TypeOK
  <2>3. uploads'[u] = [uploads[u] EXCEPT !.finalized = TRUE]
    BY <1>t, <2>1 DEF TypeOK
  <2>4. ~uploads[u].finalized
    BY <1>3, <2>2, <2>3 DEF Upload
  <2>5. assets[u].row = "none" /\ ~HasRow(u)
    BY <1>t, <2>4 DEF RowsFinalized, HasRow
  <2>6. assets'[u].row = "live" /\ assets'[u].deletedAt = assets[u].deletedAt
    BY <1>t, <2>1, <2>2, <2>5 DEF TypeOK, Asset
  <2> QED
    BY <2>1, <2>2, <2>3, <2>4, <2>5, <2>6 DEF Upload, Refused
<1>4. ASSUME NEW s \in Sweepers, MarkUploadSwept(s), uploads'[u] # uploads[u]
      PROVE  /\ Exists(u) /\ uploads'[u].kind = uploads[u].kind /\ Doing(s, "mark") /\ Subject(s) = u
             /\ Old(u) /\ ~objects[u] /\ ~objects'[u] /\ uploads'[u].swept
             /\ uploads'[u].ticket = uploads[u].ticket /\ uploads'[u].finalized = uploads[u].finalized
  <2>1. Subject(s) = u /\ Doing(s, "mark") /\ UNCHANGED objects
    BY <1>t, <1>4 DEF MarkUploadSwept, TypeOK
  <2>2. Old(u) /\ ~objects[u] /\ Exists(u)
    BY <1>t, <2>1 DEF Doing, OrphansOld, TicketsOver
  <2>3. uploads[u] \in Upload
    BY <1>t, <2>2, UploadKinds
  <2>4. uploads'[u] = [uploads[u] EXCEPT !.swept = TRUE]
    BY <1>t, <1>4, <2>1 DEF MarkUploadSwept, TypeOK
  <2> QED
    BY <2>1, <2>2, <2>3, <2>4 DEF Upload
<1>5. \/ UNCHANGED uploads
      \/ \E v \in Uploads : CreateUpload(v) \/ TicketExpires(v)
      \/ \E r \in Requests : FinalizeUpload(r)
      \/ \E s \in Sweepers : MarkUploadSwept(s)
  BY Steps DEF vars, Put, MarkAssetDeleted, UploadAges, DeleteAges, RequestOnly, FinalizeRead, FinalizeHead,
       ProbeImageHead, RequestFails, FollowUp, Answer, SweeperOnly, ListOrphans, MarkUploadSweptFails,
       ListDeletions, PurgeDeletedAssetFails, PassEnds, SweeperCrashes, SweepObjectFails,
       PurgeObjectFails, PurgeDeletedAsset, SweepObject, PurgeObject
<1>6. ~Exists(u) => ~Old(u)
  BY <1>t DEF TicketsOver
<1> QED
  BY <1>1, <1>2, <1>3, <1>4, <1>5, <1>6

\* An asset appears with its finalize, is stamped by a deletion, or is purged.
LEMMA AssetsStep ==
    ASSUME IngestInv, [Next]_vars, NEW u \in Uploads
    PROVE  \/ assets'[u] = assets[u]
           \/ /\ assets[u].row = "none" /\ assets'[u].row = "live" /\ uploads'[u].finalized
              /\ assets'[u].deletedAt = assets[u].deletedAt
              /\ \E r \in Requests : FinalizeUpload(r) /\ UploadOf(r) = u
           \/ /\ MarkAssetDeleted(u) /\ HasRow(u)
              /\ assets'[u].row = "deleted" /\ assets'[u].deletedAt = LastDelete + 1
           \/ /\ \E s \in Sweepers : PurgeDeletedAsset(s) /\ Subject(s) = u
              /\ assets[u].row = "deleted" /\ assets'[u].row = "purged"
              /\ assets'[u].deletedAt = assets[u].deletedAt
<1>t. TypeOK /\ RowsFinalized /\ FollowsUp
  BY DEF IngestInv
<1>1. ASSUME NEW v \in Uploads, MarkAssetDeleted(v), assets'[u] # assets[u]
      PROVE  /\ MarkAssetDeleted(u) /\ HasRow(u)
             /\ assets'[u].row = "deleted" /\ assets'[u].deletedAt = LastDelete + 1
  BY <1>t, <1>1 DEF MarkAssetDeleted, TypeOK
<1>2. ASSUME NEW r \in Requests, FinalizeUpload(r), assets'[u] # assets[u]
      PROVE  /\ assets[u].row = "none" /\ assets'[u].row = "live" /\ uploads'[u].finalized
             /\ assets'[u].deletedAt = assets[u].deletedAt /\ UploadOf(r) = u
  <2>1. /\ UploadOf(r) = u /\ Exists(u) /\ ~Refused(u)
        /\ uploads' = [uploads EXCEPT ![u].finalized = TRUE]
        /\ assets' = [assets EXCEPT ![u].row = IF HasRow(u) THEN @ ELSE "live"]
    BY <1>t, <1>2 DEF FinalizeUpload, In, FollowsUp, TypeOK
  <2>2. assets[u] \in Asset /\ uploads[u] \in Upload
    BY <1>t, <2>1, UploadKinds DEF TypeOK
  <2>3. ~HasRow(u)
    BY <1>t, <1>2, <2>1, <2>2 DEF TypeOK, Asset
  <2>4. assets[u].row = "none"
    BY <1>t, <2>1, <2>3 DEF Refused, RowsFinalized
  <2>5. assets'[u] = [assets[u] EXCEPT !.row = "live"] /\ uploads'[u] = [uploads[u] EXCEPT !.finalized = TRUE]
    BY <1>t, <2>1, <2>3 DEF TypeOK
  <2> QED
    BY <2>1, <2>2, <2>4, <2>5 DEF Asset, Upload
<1>3. ASSUME NEW s \in Sweepers, PurgeDeletedAsset(s), assets'[u] # assets[u]
      PROVE  /\ Subject(s) = u /\ assets[u].row = "deleted" /\ assets'[u].row = "purged"
             /\ assets'[u].deletedAt = assets[u].deletedAt
  BY <1>t, <1>3 DEF PurgeDeletedAsset, TypeOK, Asset
<1>4. \/ UNCHANGED assets
      \/ \E v \in Uploads : MarkAssetDeleted(v)
      \/ \E r \in Requests : FinalizeUpload(r)
      \/ \E s \in Sweepers : PurgeDeletedAsset(s)
  BY Steps DEF vars, Put, CreateUpload, TicketExpires, UploadAges, DeleteAges, RequestOnly, FinalizeRead,
       FinalizeHead, ProbeImageHead, RequestFails, FollowUp, Answer, SweeperOnly, ListOrphans,
       MarkUploadSweptFails, ListDeletions, PurgeDeletedAssetFails, PassEnds, SweeperCrashes,
       SweepObjectFails, PurgeObjectFails, MarkUploadSwept, SweepObject, PurgeObject
<1> QED
  BY <1>1, <1>2, <1>3, <1>4

\* An object is put under a ticket, or deleted by a sweep that lists its upload.
LEMMA ObjectsStep ==
    ASSUME TypeOK, [Next]_vars, NEW u \in Uploads
    PROVE  \/ objects'[u] = objects[u]
           \/ uploads[u].ticket /\ objects'[u] /\ UNCHANGED <<uploads, assets>>
           \/ /\ ~objects'[u] /\ UNCHANGED <<uploads, assets>>
              /\ \E s \in Sweepers : /\ Doing(s, "orphans") \/ Doing(s, "deletions")
                                     /\ u \in sweeper[s].todo
                                     /\ Doing(s, "deletions") => PurgeObject(s, u)
<1>1. ASSUME NEW v \in Uploads, Put(v), objects'[u] # objects[u]
      PROVE  uploads[u].ticket /\ objects'[u] /\ UNCHANGED <<uploads, assets>>
  BY <1>1 DEF Put, TypeOK
<1>2. ASSUME NEW s \in Sweepers, NEW v \in Uploads, SweepObject(s, v) \/ PurgeObject(s, v),
             objects'[u] # objects[u]
      PROVE  /\ ~objects'[u] /\ UNCHANGED <<uploads, assets>>
             /\ Doing(s, "orphans") \/ Doing(s, "deletions")
             /\ u \in sweeper[s].todo
             /\ Doing(s, "deletions") => PurgeObject(s, u)
  BY <1>2 DEF SweepObject, PurgeObject, NextOrphan, Doing, TypeOK
<1>3. \/ UNCHANGED objects
      \/ \E v \in Uploads : Put(v)
      \/ \E s \in Sweepers, v \in Uploads : SweepObject(s, v) \/ PurgeObject(s, v)
  BY Steps DEF vars, CreateUpload, MarkAssetDeleted, TicketExpires, UploadAges, DeleteAges, RequestOnly,
       FinalizeRead, FinalizeHead, ProbeImageHead, RequestFails, FinalizeUpload, FollowUp, Answer,
       SweeperOnly, ListOrphans, MarkUploadSweptFails, ListDeletions, PurgeDeletedAssetFails, PassEnds,
       SweeperCrashes, SweepObjectFails, PurgeObjectFails, MarkUploadSwept, PurgeDeletedAsset
<1> QED
  BY <1>1, <1>2, <1>3

\* Time only passes: an upload that ages has lost its ticket, a deletion too.
LEMMA GraceStep ==
    ASSUME TypeOK, [Next]_vars
    PROVE  \/ UNCHANGED grace
           \/ /\ \E v \in Uploads : /\ UploadAges(v)
                                    /\ v = grace.uploads + 1 /\ Exists(v) /\ ~uploads[v].ticket
                                    /\ grace'.uploads = v
              /\ grace'.deletes = grace.deletes /\ UNCHANGED <<uploads, assets>>
           \/ /\ grace.deletes < LastDelete /\ grace'.deletes = grace.deletes + 1
              /\ grace'.uploads = grace.uploads /\ UNCHANGED <<uploads, assets>>
              /\ \A u \in Uploads : assets[u].deletedAt = grace.deletes + 1 => ~uploads[u].ticket
<1>1. ASSUME NEW v \in Uploads, UploadAges(v)
      PROVE  /\ v = grace.uploads + 1 /\ Exists(v) /\ ~uploads[v].ticket
             /\ grace'.uploads = v /\ grace'.deletes = grace.deletes /\ UNCHANGED <<uploads, assets>>
  BY <1>1 DEF UploadAges, TypeOK
<1>2. ASSUME DeleteAges
      PROVE  /\ grace.deletes < LastDelete /\ grace'.deletes = grace.deletes + 1
             /\ grace'.uploads = grace.uploads /\ UNCHANGED <<uploads, assets>>
             /\ \A u \in Uploads : assets[u].deletedAt = grace.deletes + 1 => ~uploads[u].ticket
  BY <1>2 DEF DeleteAges, TypeOK
<1>3. \/ UNCHANGED grace
      \/ \E v \in Uploads : UploadAges(v)
      \/ DeleteAges
  BY Steps DEF vars, CreateUpload, Put, MarkAssetDeleted, TicketExpires, RequestOnly,
       FinalizeRead, FinalizeHead, ProbeImageHead, RequestFails, FinalizeUpload, FollowUp, Answer,
       SweeperOnly, ListOrphans, MarkUploadSweptFails, ListDeletions, PurgeDeletedAssetFails, PassEnds,
       SweeperCrashes, SweepObjectFails, PurgeObjectFails, MarkUploadSwept, PurgeDeletedAsset,
       SweepObject, PurgeObject
<1> QED
  BY <1>1, <1>2, <1>3

\* What is old stays old.
LEMMA OldStays ==
    ASSUME TypeOK, [Next]_vars, NEW u \in Uploads, Old(u)
    PROVE  Old(u)'
<1>1. grace.uploads \in Nat /\ u \in Nat
  BY DEF TypeOK
<1>2. grace'.uploads >= grace.uploads
  BY <1>1, GraceStep
<1>3. grace'.uploads \in Nat
  BY <1>1, GraceStep
<1> QED
  BY <1>1, <1>2, <1>3 DEF Old

\* A sweep lists, works through its list, or stops.
LEMMA SweeperStep ==
    ASSUME TypeOK, [Next]_vars, NEW s \in Sweepers, sweeper'[s] # Idle
    PROVE  \/ sweeper'[s] = sweeper[s]
           \/ /\ sweeper'[s].pc = "orphans" /\ sweeper'[s].todo = ReclaimableUploads
              /\ UNCHANGED <<uploads, assets, grace>>
           \/ /\ sweeper'[s].pc = "deletions" /\ sweeper'[s].todo = ReclaimableDeletedAssets
              /\ UNCHANGED <<uploads, assets, grace>>
           \/ /\ sweeper[s] # Idle /\ sweeper'[s].todo \subseteq sweeper[s].todo
              /\ \/ sweeper[s].pc \in {"orphans", "mark"} /\ sweeper'[s].pc = "orphans"
                 \/ sweeper[s].pc \in {"deletions", "purge"} /\ sweeper'[s].pc = "deletions"
           \/ \E u \in Uploads :
              /\ sweeper[s] # Idle /\ sweeper'[s].todo = sweeper[s].todo
              /\ u \in sweeper[s].todo /\ sweeper'[s].at = u /\ ~objects'[u]
              /\ UNCHANGED <<uploads, assets, grace>>
              /\ \/ sweeper[s].pc = "orphans" /\ sweeper'[s].pc = "mark"
                 \/ sweeper[s].pc = "deletions" /\ sweeper'[s].pc = "purge"
<1>1. ASSUME NEW z \in Sweepers, sweeper[z] # Idle
      PROVE  sweeper[z] \in Sweep
  BY <1>1 DEF TypeOK
<1>2. CASE sweeper'[s] = sweeper[s]
  BY <1>2
<1>3. ASSUME sweeper'[s] # sweeper[s]
      PROVE  \/ SweeperOnly(s) \/ MarkUploadSwept(s) \/ PurgeDeletedAsset(s)
             \/ \E u \in Uploads : SweepObject(s, u) \/ PurgeObject(s, u)
  <2>1. ASSUME NEW z \in Sweepers, z # s,
               \/ SweeperOnly(z) \/ MarkUploadSwept(z) \/ PurgeDeletedAsset(z)
               \/ \E u \in Uploads : SweepObject(z, u) \/ PurgeObject(z, u)
        PROVE  sweeper'[s] = sweeper[s]
    BY <2>1 DEF TypeOK, SweeperOnly, ListOrphans, MarkUploadSweptFails, ListDeletions, PurgeDeletedAssetFails,
         PassEnds, SweeperCrashes, SweepObjectFails, PurgeObjectFails, MarkUploadSwept,
         PurgeDeletedAsset, SweepObject, PurgeObject, GoOn
  <2> QED
    BY <1>3, <2>1, Steps DEF vars, CreateUpload, Put, MarkAssetDeleted, TicketExpires, UploadAges, DeleteAges,
         RequestOnly, FinalizeRead, FinalizeHead, ProbeImageHead, RequestFails, FinalizeUpload,
         FollowUp, Answer
<1>4. CASE ListOrphans(s) \/ ListDeletions(s)
  BY <1>4 DEF ListOrphans, ListDeletions, TypeOK
<1>5. CASE MarkUploadSweptFails(s) \/ PurgeDeletedAssetFails(s) \/ MarkUploadSwept(s) \/ PurgeDeletedAsset(s)
  <2>1. \E pc \in {"orphans", "deletions"} :
           /\ sweeper'[s] = [pc |-> pc, todo |-> sweeper[s].todo \ {Subject(s)}, at |-> 0]
           /\ sweeper[s] # Idle /\ sweeper[s].pc = (IF pc = "orphans" THEN "mark" ELSE "purge")
    BY <1>5 DEF MarkUploadSweptFails, PurgeDeletedAssetFails, MarkUploadSwept, PurgeDeletedAsset,
         GoOn, Doing, TypeOK
  <2> QED
    BY <2>1
<1>6. ~PassEnds(s) /\ ~SweeperCrashes(s)
  BY DEF PassEnds, SweeperCrashes, TypeOK
<1>7. ASSUME NEW u \in Uploads, SweepObjectFails(s, u) \/ PurgeObjectFails(s, u)
      PROVE  /\ sweeper[s] # Idle /\ sweeper'[s].todo \subseteq sweeper[s].todo
             /\ \/ sweeper[s].pc = "orphans" /\ sweeper'[s].pc = "orphans"
                \/ sweeper[s].pc = "deletions" /\ sweeper'[s].pc = "deletions"
  <2>1. /\ sweeper[s] \in Sweep /\ sweeper'[s] = [sweeper[s] EXCEPT !.todo = @ \ {u}]
        /\ Doing(s, "orphans") \/ Doing(s, "deletions")
    BY <1>1, <1>7 DEF SweepObjectFails, PurgeObjectFails, Doing, TypeOK
  <2> QED
    BY <2>1 DEF Doing, Sweep
<1>8. ASSUME NEW u \in Uploads, SweepObject(s, u) \/ PurgeObject(s, u)
      PROVE  /\ sweeper[s] # Idle /\ sweeper'[s].todo = sweeper[s].todo
             /\ u \in sweeper[s].todo /\ sweeper'[s].at = u /\ ~objects'[u]
             /\ UNCHANGED <<uploads, assets, grace>>
             /\ \/ sweeper[s].pc = "orphans" /\ sweeper'[s].pc = "mark"
                \/ sweeper[s].pc = "deletions" /\ sweeper'[s].pc = "purge"
  <2>1. \E pc \in {"mark", "purge"} :
           /\ sweeper[s] \in Sweep /\ sweeper'[s] = [sweeper[s] EXCEPT !.pc = pc, !.at = u]
           /\ sweeper[s].pc = (IF pc = "mark" THEN "orphans" ELSE "deletions")
    BY <1>1, <1>8 DEF SweepObject, PurgeObject, Doing, TypeOK
  <2>2. u \in sweeper[s].todo /\ ~objects'[u] /\ UNCHANGED <<uploads, assets, grace>> /\ sweeper[s] # Idle
    BY <1>8 DEF SweepObject, PurgeObject, Doing, NextOrphan, TypeOK
  <2> QED
    BY <2>1, <2>2 DEF Sweep
<1> QED
  BY <1>2, <1>3, <1>4, <1>5, <1>6, <1>7, <1>8 DEF SweeperOnly

------------------------------------------------------------------------------
\* The invariant is kept

\* A deletion takes the stamp after the last.
LEMMA StampsStep ==
    ASSUME IngestInv, [Next]_vars
    PROVE  Stamps'
<1>t. TypeOK /\ Stamps /\ LastDelete \in Nat /\ grace.deletes <= LastDelete /\ grace.deletes \in Nat
      /\ \A u \in Uploads : assets[u].deletedAt <= LastDelete
  BY LastDeleteIsLast DEF IngestInv, TypeOK
<1>1. CASE \E u \in Uploads : MarkAssetDeleted(u)
  <2>1. PICK u \in Uploads : MarkAssetDeleted(u)
    BY <1>1
  <2>2. assets' = [assets EXCEPT ![u] = [row |-> "deleted", deletedAt |-> LastDelete + 1]] /\ UNCHANGED grace
    BY <2>1 DEF MarkAssetDeleted
  <2>3. assets'[u].deletedAt = LastDelete + 1
    BY <1>t, <2>2 DEF TypeOK
  <2>4. \A v \in Uploads : assets'[v].deletedAt <= LastDelete + 1
    BY <1>t, <2>2, <2>3 DEF TypeOK, Asset
  <2>5. LastDelete + 1 \in {0} \cup {assets'[v].deletedAt : v \in Uploads}
    BY <2>3
  <2>6. grace'.deletes <= LastDelete + 1
    BY <1>t, <2>2
  <2> QED
    BY <2>4, <2>5, <2>6 DEF Stamps
<1>2. CASE ~ \E u \in Uploads : MarkAssetDeleted(u)
  <2>1. \A u \in Uploads : assets'[u].deletedAt = assets[u].deletedAt
    BY <1>2, AssetsStep
  <2>2. LastDelete \in {0} \cup {assets[u].deletedAt : u \in Uploads}
    <3> DEFINE Given == {0} \cup {assets[u].deletedAt : u \in Uploads}
    <3>1. PICK n \in Given : \A u \in Uploads : assets[u].deletedAt <= n
      BY <1>t DEF Stamps
    <3>2. LastDelete = CHOOSE m \in Given : \A u \in Uploads : assets[u].deletedAt <= m
      BY DEF LastDelete
    <3> HIDE DEF Given
    <3>3. LastDelete \in Given
      BY <3>1, <3>2
    <3> QED
      BY <3>3 DEF Given
  <2>3. LastDelete \in {0} \cup {assets'[u].deletedAt : u \in Uploads}
    BY <2>1, <2>2
  <2>4. grace'.deletes <= LastDelete
    BY <1>t, GraceStep
  <2> QED
    BY <1>t, <2>1, <2>3, <2>4 DEF Stamps
<1> QED
  BY <1>1, <1>2

\* No ticket comes back, and nothing ages while it has one.
LEMMA TicketsOverStep ==
    ASSUME IngestInv, [Next]_vars
    PROVE  TicketsOver'
<1>t. TypeOK /\ TicketsOver /\ RowsFinalized
  BY DEF IngestInv
<1>s. LastDelete \in Nat /\ grace.deletes <= LastDelete /\ grace.deletes \in Nat /\ grace.uploads \in Nat
  BY LastDeleteIsLast DEF IngestInv, TypeOK
<1> SUFFICES ASSUME NEW u \in Uploads
             PROVE  /\ Old(u)' => Exists(u)' /\ ~uploads'[u].ticket
                    /\ uploads'[u].swept => Old(u)'
                    /\ 1 <= assets'[u].deletedAt /\ assets'[u].deletedAt <= grace'.deletes
                           => ~uploads'[u].ticket
  BY DEF TicketsOver
<1>n. assets[u].deletedAt \in Nat /\ u \in Nat
  BY <1>t DEF TypeOK, Asset
<1>1. Exists(u) /\ ~uploads[u].ticket => Exists(u)' /\ ~uploads'[u].ticket
  BY <1>t, UploadsStep, UploadKinds DEF Exists, NoUpload
<1>2. Old(u)' => Exists(u)' /\ ~uploads'[u].ticket
  <2>1. CASE Old(u)
    BY <1>1, <1>t, <2>1 DEF TicketsOver
  <2>2. CASE ~Old(u)
    BY <1>n, <1>s, <1>t, <2>2, GraceStep DEF Old, Exists
  <2> QED
    BY <2>1, <2>2
<1>3. uploads'[u].swept => Old(u)'
  <2>1. uploads'[u].swept => Old(u)
    BY <1>t, UploadsStep DEF TicketsOver
  <2> QED
    BY <1>t, <2>1, OldStays
<1>4. ASSUME 1 <= assets'[u].deletedAt, assets'[u].deletedAt <= grace'.deletes
      PROVE  ~uploads'[u].ticket
  <2>1. CASE assets'[u].deletedAt # assets[u].deletedAt
    <3>1. assets'[u].deletedAt = LastDelete + 1 /\ UNCHANGED grace
      BY <2>1, AssetsStep DEF MarkAssetDeleted
    <3> QED
      BY <1>4, <1>s, <3>1
  <2>2. CASE assets'[u].deletedAt = assets[u].deletedAt
    <3>1. ~uploads[u].ticket
      BY <1>4, <1>n, <1>s, <1>t, <2>2, GraceStep DEF TicketsOver
    <3>2. Exists(u)
      <4>1. uploads[u].finalized
        BY <1>4, <1>t, <2>2 DEF RowsFinalized
      <4> QED
        BY <1>t, <4>1, UploadKinds DEF NoUpload
    <3> QED
      BY <1>1, <3>1, <3>2
  <2> QED
    BY <2>1, <2>2
<1> QED
  BY <1>2, <1>3, <1>4

\* Finalize sets the flag and makes the row in one transaction; a purge needs a
\* deletion that has aged.
LEMMA RowsFinalizedStep ==
    ASSUME IngestInv, [Next]_vars
    PROVE  RowsFinalized'
<1>t. TypeOK /\ TicketsOver /\ RowsFinalized /\ DeletionsStand /\ FollowsUp
  BY DEF IngestInv
<1> SUFFICES ASSUME NEW u \in Uploads
             PROVE  /\ uploads'[u].finalized <=> assets'[u].row # "none"
                    /\ assets'[u].row = "none" => assets'[u].deletedAt = 0
                    /\ assets'[u].row = "deleted" => 1 <= assets'[u].deletedAt
                    /\ assets'[u].row = "purged" => ~uploads'[u].ticket
                    /\ answered'[u] => uploads'[u].finalized
  BY DEF RowsFinalized
<1>n. LastDelete \in Nat /\ assets[u].deletedAt \in Nat
  BY <1>t, LastDeleteIsLast DEF IngestInv, TypeOK, Asset
<1>1. ~Exists(u) => uploads[u] = NoUpload /\ ~uploads[u].finalized /\ assets[u].row = "none"
  <2>1. ~Exists(u) => uploads[u] = NoUpload
    BY <1>t, UploadKinds
  <2>2. ~NoUpload.finalized
    BY DEF NoUpload
  <2>3. ~uploads[u].finalized => assets[u].row = "none"
    BY <1>t DEF RowsFinalized
  <2> QED
    BY <2>1, <2>2, <2>3
<1>2. uploads[u].finalized => uploads'[u].finalized
  BY <1>1, UploadsStep
<1>3. uploads'[u].finalized <=> assets'[u].row # "none"
  <2>1. CASE assets'[u] = assets[u]
    <3>1. uploads'[u].finalized => uploads[u].finalized
      BY <2>1, UploadsStep
    <3> QED
      BY <1>2, <1>t, <2>1, <3>1 DEF RowsFinalized
  <2>2. CASE assets'[u] # assets[u]
    <3>1. assets'[u].row # "none" /\ (uploads'[u].finalized \/ assets[u].row # "none")
      BY <2>2, AssetsStep DEF HasRow
    <3> QED
      BY <1>2, <1>t, <3>1 DEF RowsFinalized
  <2> QED
    BY <2>1, <2>2
<1>4. assets'[u].row = "none" => assets'[u].deletedAt = 0
  <2>1. assets'[u].row = "none" => assets'[u] = assets[u]
    BY AssetsStep
  <2> QED
    BY <1>t, <2>1 DEF RowsFinalized
<1>5. assets'[u].row = "deleted" => 1 <= assets'[u].deletedAt
  <2>1. assets'[u].row = "deleted"
           => assets'[u] = assets[u] \/ assets'[u].deletedAt = LastDelete + 1
    BY AssetsStep
  <2>2. assets[u].row = "deleted" => 1 <= assets[u].deletedAt
    BY <1>t DEF RowsFinalized
  <2>3. 1 <= LastDelete + 1
    BY <1>n
  <2> QED
    BY <2>1, <2>2, <2>3
<1>6. ASSUME assets'[u].row = "purged"
      PROVE  ~uploads'[u].ticket
  <2>1. ~uploads[u].ticket
    <3>1. CASE assets[u].row = "purged"
      BY <1>t, <3>1 DEF RowsFinalized
    <3>2. CASE assets[u].row # "purged"
      <4>1. PICK s \in Sweepers : PurgeDeletedAsset(s) /\ Subject(s) = u
        BY <1>6, <3>2, AssetsStep
      <4> QED
        BY <1>t, <4>1 DEF PurgeDeletedAsset, Doing, DeletionsStand
    <3> QED
      BY <3>1, <3>2
  <2>2. assets[u].row # "none" /\ Exists(u)
    BY <1>1, <1>6, AssetsStep
  <2> QED
    BY <2>1, <2>2, UploadsStep
<1>7. answered'[u] => uploads'[u].finalized
  <2>1. CASE answered[u]
    BY <1>2, <1>t, <2>1 DEF RowsFinalized
  <2>2. CASE ~answered[u] /\ answered'[u]
    <3>1. PICK r \in Requests : Answer(r)
      BY <2>2, Steps DEF vars, CreateUpload, Put, MarkAssetDeleted, TicketExpires, UploadAges, DeleteAges,
         RequestOnly, FinalizeRead, FinalizeHead, ProbeImageHead, RequestFails, FinalizeUpload, FollowUp,
         SweeperOnly, ListOrphans, MarkUploadSweptFails, ListDeletions, PurgeDeletedAssetFails, PassEnds,
         SweeperCrashes, SweepObjectFails, PurgeObjectFails, MarkUploadSwept, PurgeDeletedAsset,
         SweepObject, PurgeObject
    <3>2. UploadOf(r) = u /\ In(r, "follow_up")
      BY <1>t, <2>2, <3>1 DEF Answer, TypeOK
    <3> QED
      BY <1>2, <1>t, <3>2 DEF In, FollowsUp
  <2> QED
    BY <2>1, <2>2
<1> QED
  BY <1>3, <1>4, <1>5, <1>6, <1>7

\* What a sweep has listed as an orphan cannot be put again.
LEMMA OrphansOldStep ==
    ASSUME IngestInv, [Next]_vars
    PROVE  OrphansOld'
<1>t. TypeOK /\ TicketsOver /\ OrphansOld
  BY DEF IngestInv
<1>1. ASSUME NEW u \in Uploads, Old(u), ~objects[u]
      PROVE  ~objects'[u]
  BY <1>1, <1>t, ObjectsStep DEF TicketsOver
<1> SUFFICES ASSUME NEW s \in Sweepers, sweeper'[s] # Idle
             PROVE  /\ sweeper'[s].pc \in {"orphans", "mark"} => \A u \in sweeper'[s].todo : Old(u)'
                    /\ sweeper'[s].pc = "mark" => Old(Subject(s))' /\ ~objects'[sweeper'[s].at]
  BY DEF OrphansOld, Subject
<1>2. \A u \in sweeper[s].todo : sweeper[s] # Idle => u \in Uploads
  BY <1>t DEF TypeOK, Sweep
<1>3. sweeper[s] # Idle /\ sweeper[s].pc = "mark" => sweeper[s].at \in Uploads
  BY <1>t DEF TypeOK, Sweep
<1>4. \A u \in Uploads : Old(u) => Old(u)'
  BY <1>t, OldStays
<1>5. CASE sweeper'[s] = sweeper[s]
  BY <1>1, <1>2, <1>3, <1>4, <1>5, <1>t DEF OrphansOld, Subject
<1>6. CASE sweeper'[s].pc = "orphans" /\ sweeper'[s].todo = ReclaimableUploads
  BY <1>4, <1>6, Listed
<1>7. CASE sweeper[s] # Idle /\ sweeper'[s].todo \subseteq sweeper[s].todo
           /\ sweeper[s].pc \in {"orphans", "mark"} /\ sweeper'[s].pc = "orphans"
  BY <1>2, <1>4, <1>7, <1>t DEF OrphansOld
<1>8. ASSUME NEW u \in Uploads, sweeper[s] # Idle, sweeper'[s].todo = sweeper[s].todo,
             u \in sweeper[s].todo, sweeper'[s].at = u, ~objects'[u],
             sweeper[s].pc = "orphans", sweeper'[s].pc = "mark"
      PROVE  (\A v \in sweeper'[s].todo : Old(v)') /\ Old(Subject(s))' /\ ~objects'[sweeper'[s].at]
  BY <1>2, <1>4, <1>8, <1>t DEF OrphansOld, Subject
<1>9. CASE sweeper'[s].pc \in {"deletions", "purge"}
  BY <1>9
<1> QED
  BY <1>5, <1>6, <1>7, <1>8, <1>9, <1>t, SweeperStep

\* What a sweep has listed as deleted stays deleted and cannot be put again.
LEMMA DeletionsStandStep ==
    ASSUME IngestInv, [Next]_vars
    PROVE  DeletionsStand'
<1>t. TypeOK /\ TicketsOver /\ RowsFinalized /\ DeletionsStand
  BY DEF IngestInv
<1> DEFINE Over(u)      == assets[u].row \in {"deleted", "purged"} /\ ~uploads[u].ticket
           StillOver(u) == assets'[u].row \in {"deleted", "purged"} /\ ~uploads'[u].ticket
<1>1. ASSUME NEW u \in Uploads, Over(u)
      PROVE  StillOver(u) /\ (~objects[u] => ~objects'[u])
  <2>1. Exists(u)
    BY <1>1, <1>t, UploadKinds DEF RowsFinalized, NoUpload
  <2>2. ~uploads'[u].ticket
    BY <1>1, <2>1, UploadsStep
  <2>3. assets'[u].row \in {"deleted", "purged"}
    BY <1>1, AssetsStep
  <2>4. ~objects[u] => ~objects'[u]
    BY <1>1, <1>t, ObjectsStep
  <2> QED
    BY <2>2, <2>3, <2>4
<1>2. \A u \in ReclaimableDeletedAssets : u \in Uploads /\ Over(u)
  BY <1>t, Listed DEF TicketsOver, RowsFinalized
<1> SUFFICES ASSUME NEW s \in Sweepers, sweeper'[s] # Idle
             PROVE  /\ sweeper'[s].pc \in {"deletions", "purge"} => \A u \in sweeper'[s].todo : StillOver(u)
                    /\ sweeper'[s].pc = "purge" => StillOver(sweeper'[s].at) /\ ~objects'[sweeper'[s].at]
  BY DEF DeletionsStand, Subject
<1>3. sweeper[s] # Idle => sweeper[s].todo \subseteq Uploads
  BY <1>t DEF TypeOK, Sweep
<1>4. sweeper[s] # Idle /\ sweeper[s].pc = "purge" => sweeper[s].at \in Uploads
  BY <1>t DEF TypeOK, Sweep
<1>5. sweeper[s] # Idle /\ sweeper[s].pc \in {"deletions", "purge"} => \A u \in sweeper[s].todo : Over(u)
  BY <1>t DEF DeletionsStand
<1>6. sweeper[s] # Idle /\ sweeper[s].pc = "purge" => Over(sweeper[s].at) /\ ~objects[sweeper[s].at]
  BY <1>t DEF DeletionsStand, Subject
<1> HIDE DEF Over, StillOver
<1>7. CASE sweeper'[s] = sweeper[s]
  BY <1>1, <1>3, <1>4, <1>5, <1>6, <1>7
<1>8. CASE sweeper'[s].pc = "deletions" /\ sweeper'[s].todo = ReclaimableDeletedAssets
  BY <1>1, <1>2, <1>8
<1>9. CASE sweeper[s] # Idle /\ sweeper'[s].todo \subseteq sweeper[s].todo
           /\ sweeper[s].pc \in {"deletions", "purge"} /\ sweeper'[s].pc = "deletions"
  BY <1>1, <1>3, <1>5, <1>9
<1>10. ASSUME NEW u \in Uploads, sweeper[s] # Idle, sweeper'[s].todo = sweeper[s].todo,
              u \in sweeper[s].todo, sweeper'[s].at = u, ~objects'[u],
              sweeper[s].pc = "deletions", sweeper'[s].pc = "purge"
       PROVE  (\A v \in sweeper'[s].todo : StillOver(v)) /\ StillOver(sweeper'[s].at) /\ ~objects'[sweeper'[s].at]
  BY <1>1, <1>3, <1>5, <1>10
<1>11. CASE sweeper'[s].pc \in {"orphans", "mark"}
  BY <1>11
<1> QED
  BY <1>7, <1>8, <1>9, <1>10, <1>11, <1>t, SweeperStep

\* Nobody but finalize and its sweep touches what finalize owes.
LEMMA DerivedStep ==
    ASSUME IngestInv, [Next]_vars, NEW u \in Uploads
    PROVE  \/ derived[u] \subseteq derived'[u]
           \/ assets'[u].row = "purged"
<1>t. TypeOK /\ DeletionsStand
  BY DEF IngestInv
<1>1. ASSUME NEW r \in Requests, FollowUp(r)
      PROVE  derived[u] \subseteq derived'[u]
  <2>1. PICK step : derived' = [derived EXCEPT ![UploadOf(r)] = @ \cup {step}]
    BY <1>1 DEF FollowUp
  <2> QED
    BY <1>t, <2>1 DEF TypeOK
<1>2. ASSUME NEW s \in Sweepers, PurgeDeletedAsset(s), Subject(s) = u
      PROVE  assets'[u].row = "purged"
  <2>1. assets[u].row \in {"deleted", "purged"}
    BY <1>2, <1>t DEF PurgeDeletedAsset, Doing, DeletionsStand
  <2>2. assets' = [assets EXCEPT ![u].row = IF @ = "deleted" THEN "purged" ELSE @]
    BY <1>2 DEF PurgeDeletedAsset
  <2> QED
    BY <1>t, <2>1, <2>2 DEF TypeOK, Asset
<1>3. ASSUME NEW s \in Sweepers, PurgeDeletedAsset(s), Subject(s) # u
      PROVE  derived'[u] = derived[u]
  BY <1>3, <1>t DEF PurgeDeletedAsset, TypeOK
<1>4. \/ UNCHANGED derived
      \/ \E r \in Requests : FollowUp(r)
      \/ \E s \in Sweepers : PurgeDeletedAsset(s)
  BY Steps DEF vars, CreateUpload, Put, MarkAssetDeleted, TicketExpires, UploadAges, DeleteAges,
     RequestOnly, FinalizeRead, FinalizeHead, ProbeImageHead, RequestFails, FinalizeUpload, Answer,
     SweeperOnly, ListOrphans, MarkUploadSweptFails, ListDeletions, PurgeDeletedAssetFails, PassEnds,
     SweeperCrashes, SweepObjectFails, PurgeObjectFails, MarkUploadSwept, SweepObject, PurgeObject
<1> QED
  BY <1>1, <1>2, <1>3, <1>4

\* An upload keeps its kind, and a row that is there was there, or is new.
LEMMA KindsStay ==
    ASSUME IngestInv, [Next]_vars, NEW u \in Uploads
    PROVE  /\ Exists(u) => Exists(u)' /\ uploads'[u].kind = uploads[u].kind
           /\ uploads[u].finalized => uploads'[u].finalized
           /\ HasRow(u)' => HasRow(u) \/ ~uploads[u].finalized
           /\ ~Exists(u) => ~uploads[u].finalized
<1>t. TypeOK /\ RowsFinalized
  BY DEF IngestInv
<1>1. ~Exists(u) => ~uploads[u].finalized
  BY <1>t, UploadKinds DEF NoUpload
<1>2. Exists(u) => Exists(u)' /\ uploads'[u].kind = uploads[u].kind
  BY UploadsStep DEF Exists
<1>3. uploads[u].finalized => uploads'[u].finalized
  BY <1>1, UploadsStep
<1>4. HasRow(u)' => HasRow(u) \/ ~uploads[u].finalized
  BY <1>t, AssetsStep DEF HasRow, RowsFinalized
<1> QED
  BY <1>1, <1>2, <1>3, <1>4

\* A request moves through finalize one step at a time.
LEMMA RequestStep ==
    ASSUME IngestInv, [Next]_vars, NEW r \in Requests, request'[r] # Idle
    PROVE  \/ request'[r] = request[r]
           \/ /\ request[r] = Idle /\ request'[r].pc = "head"
              /\ \E u \in Uploads : FinalizeRead(r, u) /\ request'[r].upload = u
           \/ /\ request[r] # Idle /\ request'[r].upload = request[r].upload
              /\ \/ FinalizeHead(r) /\ request'[r].pc \in {"probe", "register"}
                 \/ ProbeImageHead(r) /\ request'[r].pc = "register"
                 \/ FinalizeUpload(r) /\ ~Refused(UploadOf(r)) /\ request'[r].pc = "follow_up"
                    /\ request'[r].left = Owed(UploadOf(r)) /\ uploads'[UploadOf(r)].finalized
                 \/ FollowUp(r) /\ request'[r].pc = "follow_up" /\ request'[r].left = request[r].left - 1
<1>t. TypeOK /\ FollowsUp
  BY DEF IngestInv
<1>1. request[r] # Idle => request[r] \in Finalize /\ request[r].upload \in Uploads /\ Exists(UploadOf(r))
  BY <1>t DEF TypeOK, Finalize, FollowsUp
<1>2. CASE request'[r] = request[r]
  BY <1>2
<1>3. ASSUME request'[r] # request[r]
      PROVE  RequestOnly(r) \/ FinalizeUpload(r) \/ FollowUp(r) \/ Answer(r)
  <2>1. ASSUME NEW z \in Requests, z # r,
               RequestOnly(z) \/ FinalizeUpload(z) \/ FollowUp(z) \/ Answer(z)
        PROVE  request'[r] = request[r]
    BY <1>t, <2>1 DEF TypeOK, RequestOnly, FinalizeRead, FinalizeHead, ProbeImageHead, RequestFails,
         FinalizeUpload, FollowUp, Answer, Reply
  <2> QED
    BY <1>3, <2>1, Steps DEF vars, CreateUpload, Put, MarkAssetDeleted, TicketExpires, UploadAges, DeleteAges,
         SweeperOnly, ListOrphans, MarkUploadSweptFails, ListDeletions, PurgeDeletedAssetFails, PassEnds,
         SweeperCrashes, SweepObjectFails, PurgeObjectFails, MarkUploadSwept, PurgeDeletedAsset,
         SweepObject, PurgeObject
<1>4. ASSUME NEW u \in Uploads, FinalizeRead(r, u)
      PROVE  request[r] = Idle /\ request'[r].pc = "head" /\ request'[r].upload = u
  BY <1>4, <1>t DEF FinalizeRead, TypeOK
<1>5. ASSUME FinalizeHead(r) \/ ProbeImageHead(r)
      PROVE  /\ request[r] # Idle /\ request'[r].upload = request[r].upload
             /\ FinalizeHead(r) => request'[r].pc \in {"probe", "register"}
             /\ ProbeImageHead(r) => request'[r].pc = "register"
  <2>1. CASE FinalizeHead(r)
    <3>1. PICK pc \in {"probe", "register"} : request' = [request EXCEPT ![r].pc = pc]
      BY <2>1 DEF FinalizeHead
    <3>2. request[r] # Idle /\ ~ProbeImageHead(r)
      BY <2>1 DEF FinalizeHead, ProbeImageHead, In
    <3> QED
      BY <1>1, <1>t, <3>1, <3>2 DEF TypeOK, Finalize
  <2>2. CASE ProbeImageHead(r)
    <3>1. request[r] # Idle /\ ~FinalizeHead(r) /\ request' = [request EXCEPT ![r].pc = "register"]
      BY <2>2 DEF FinalizeHead, ProbeImageHead, In
    <3> QED
      BY <1>1, <1>t, <3>1 DEF TypeOK, Finalize
  <2> QED
    BY <1>5, <2>1, <2>2
<1>6. ASSUME FinalizeUpload(r)
      PROVE  /\ request[r] # Idle /\ request'[r].upload = request[r].upload
             /\ ~Refused(UploadOf(r)) /\ request'[r].pc = "follow_up"
             /\ request'[r].left = Owed(UploadOf(r)) /\ uploads'[UploadOf(r)].finalized
  <2>1. request[r] # Idle
    BY <1>6 DEF FinalizeUpload, In
  <2>2. ~Refused(UploadOf(r))
    BY <1>6, <1>t DEF FinalizeUpload, Reply, TypeOK
  <2>3. /\ uploads' = [uploads EXCEPT ![UploadOf(r)].finalized = TRUE]
        /\ request' = [request EXCEPT ![r].pc = "follow_up", ![r].left = Owed(UploadOf(r))]
    BY <1>6, <2>2 DEF FinalizeUpload
  <2>4. uploads[UploadOf(r)] \in Upload /\ UploadOf(r) \in Uploads
    BY <1>1, <1>t, <2>1, UploadKinds DEF UploadOf
  <2>5. uploads'[UploadOf(r)].finalized
    BY <1>t, <2>3, <2>4 DEF TypeOK, Upload
  <2>6. request'[r] = [request[r] EXCEPT !.pc = "follow_up", !.left = Owed(UploadOf(r))]
    BY <1>t, <2>3 DEF TypeOK
  <2> QED
    BY <1>1, <2>1, <2>2, <2>5, <2>6 DEF Finalize
<1>7. ASSUME FollowUp(r)
      PROVE  /\ request[r] # Idle /\ request'[r].upload = request[r].upload
             /\ request'[r].pc = "follow_up" /\ request'[r].left = request[r].left - 1
  <2>1. request[r] # Idle /\ request[r].pc = "follow_up" /\ request' = [request EXCEPT ![r].left = @ - 1]
    BY <1>7 DEF FollowUp, In
  <2>2. request'[r] = [request[r] EXCEPT !.left = @ - 1]
    BY <1>t, <2>1 DEF TypeOK
  <2> QED
    BY <1>1, <2>1, <2>2 DEF Finalize
<1>8. ~Answer(r) /\ ~RequestFails(r)
  BY <1>t DEF Answer, RequestFails, Reply, TypeOK
<1> QED
  BY <1>2, <1>3, <1>4, <1>5, <1>6, <1>7, <1>8 DEF RequestOnly

\* Between its transaction and its answer a finalize has written a prefix.
LEMMA FollowsUpStep ==
    ASSUME IngestInv, [Next]_vars
    PROVE  FollowsUp'
<1>t. TypeOK /\ RowsFinalized /\ FollowsUp
  BY DEF IngestInv
<1> SUFFICES ASSUME NEW r \in Requests, request'[r] # Idle, NEW u \in Uploads, u = request'[r].upload
             PROVE  /\ Exists(u)'
                    /\ request'[r].pc = "follow_up" =>
                         /\ uploads'[u].finalized /\ request'[r].left <= Len(FollowUps(uploads'[u].kind))
                         /\ HasRow(u)' => \A i \in 1 .. Len(FollowUps(uploads'[u].kind)) - request'[r].left :
                                            FollowUps(uploads'[u].kind)[i] \in derived'[u]
  <2>1. \A r \in Requests : request'[r] # Idle => request'[r].upload \in Uploads
    BY TypeStep DEF TypeOK, Finalize
  <2> QED
    BY <2>1 DEF FollowsUp, UploadOf
<1> DEFINE steps == FollowUps(uploads[u].kind)
<1>1. CASE request[r] # Idle /\ request[r].upload = u
  <2>1. u \in Uploads /\ Exists(u) /\ uploads[u].kind \in Kinds /\ request[r] \in Finalize
    BY <1>1, <1>t, UploadKinds DEF TypeOK, Finalize, FollowsUp, UploadOf
  <2>2. Exists(u)' /\ uploads'[u].kind = uploads[u].kind
    BY <2>1, KindsStay
  <2>3. CASE request'[r].pc # "follow_up"
    BY <1>1, <2>2, <2>3
  <2>4. CASE request[r].pc = "follow_up" /\ request'[r].pc = "follow_up"
    <3>1. /\ uploads[u].finalized /\ request[r].left <= Len(steps)
          /\ HasRow(u) => \A i \in 1 .. Len(steps) - request[r].left : steps[i] \in derived[u]
      BY <1>1, <1>t, <2>4 DEF FollowsUp, UploadOf
    <3>2. uploads'[u].finalized /\ (HasRow(u)' => HasRow(u))
      BY <2>1, <3>1, KindsStay
    <3>3. HasRow(u)' => derived[u] \subseteq derived'[u]
      BY <2>1, DerivedStep DEF HasRow
    <3>4. CASE request'[r] = request[r]
      BY <2>2, <2>4, <3>1, <3>2, <3>3, <3>4
    <3>5. CASE FollowUp(r) /\ request'[r].left = request[r].left - 1
      <4>1. Len(steps) \in Nat /\ request[r].left \in Nat /\ request[r].left > 0
        BY <2>1, <3>5, FollowUpsShape DEF FollowUp, Finalize
      <4>2. steps[Len(steps) - request[r].left + 1] \in derived'[u]
        BY <1>t, <2>1, <3>5 DEF FollowUp, UploadOf, TypeOK
      <4>3. ASSUME HasRow(u)', NEW i \in 1 .. Len(steps) - request'[r].left
            PROVE  steps[i] \in derived'[u]
        <5>1. i \in 1 .. Len(steps) - request[r].left \/ i = Len(steps) - request[r].left + 1
          BY <3>5, <4>1
        <5> QED
          BY <3>1, <3>2, <3>3, <4>2, <4>3, <5>1
      <4>4. request'[r].left <= Len(steps)
        BY <3>1, <3>5, <4>1
      <4> HIDE DEF steps
      <4> QED
        BY <1>1, <2>2, <3>2, <4>3, <4>4 DEF steps
    <3>6. ~FinalizeUpload(r) /\ ~FinalizeHead(r) /\ ~ProbeImageHead(r)
      BY <2>4 DEF FinalizeUpload, FinalizeHead, ProbeImageHead, In
    <3> QED
      BY <1>1, <3>4, <3>5, <3>6, RequestStep
  <2>5. CASE request[r].pc # "follow_up" /\ request'[r].pc = "follow_up"
    <3>1. request'[r].left = Len(steps) /\ uploads'[u].finalized
      <4>1. request'[r] # request[r] /\ ~FollowUp(r)
        BY <2>5 DEF FollowUp, In
      <4>2. request'[r].left = Owed(UploadOf(r)) /\ uploads'[UploadOf(r)].finalized
        BY <1>1, <2>5, <4>1, RequestStep
      <4>3. UploadOf(r) = u
        BY <1>1 DEF UploadOf
      <4> QED
        BY <4>2, <4>3 DEF Owed
    <3>2. Len(steps) \in Nat
      BY <2>1, FollowUpsShape
    <3>3. Len(steps) - request'[r].left = 0 /\ request'[r].left <= Len(steps)
      BY <3>1, <3>2
    <3> HIDE DEF steps
    <3>4. \A i \in 1 .. Len(steps) - request'[r].left : steps[i] \in derived'[u]
      BY <3>3
    <3> QED
      BY <1>1, <2>2, <3>1, <3>3, <3>4 DEF steps
  <2> QED
    BY <2>3, <2>4, <2>5
<1>2. CASE request[r] = Idle
  <2>1. PICK v \in Uploads : FinalizeRead(r, v) /\ request'[r].upload = v /\ request'[r].pc = "head"
    BY <1>2, RequestStep
  <2>2. Exists(v)'
    BY <2>1, KindsStay DEF FinalizeRead
  <2> QED
    BY <2>1, <2>2
<1>3. request[r] # Idle => request'[r].upload = request[r].upload
  BY RequestStep
<1> QED
  BY <1>1, <1>2, <1>3

\* An object is put only while its upload can still be finalized or swept.
LEMMA VaultStep ==
    ASSUME IngestInv, [Next]_vars
    PROVE  VaultAccountedFor'
<1>t. TypeOK /\ TicketsOver /\ RowsFinalized /\ OrphansOld /\ DeletionsStand /\ VaultAccountedFor
  BY DEF IngestInv
<1> SUFFICES ASSUME NEW u \in Uploads, objects'[u]
             PROVE  HasRow(u)' \/ (Exists(u)' /\ ~uploads'[u].finalized /\ ~uploads'[u].swept)
  BY DEF VaultAccountedFor
<1>1. uploads[u].finalized => assets[u].row # "none"
  BY <1>t DEF RowsFinalized
<1>2. HasRow(u) \/ (Exists(u) /\ ~uploads[u].finalized /\ ~uploads[u].swept)
  <2>1. CASE objects[u]
    BY <1>t, <2>1 DEF VaultAccountedFor
  <2>2. CASE ~objects[u]
    <3>1. uploads[u].ticket
      BY <1>t, <2>2, ObjectsStep
    <3>2. Exists(u) /\ ~uploads[u].swept /\ assets[u].row # "purged"
      BY <1>t, <3>1, UploadKinds DEF NoUpload, TicketsOver, RowsFinalized
    <3>3. uploads[u].finalized => HasRow(u)
      BY <1>1, <1>t, <3>2 DEF HasRow, TypeOK, Asset
    <3> QED
      BY <3>2, <3>3
  <2> QED
    BY <2>1, <2>2
<1>3. HasRow(u) => HasRow(u)'
  <2>1. ASSUME NEW s \in Sweepers, PurgeDeletedAsset(s), Subject(s) = u
        PROVE  FALSE
    BY <1>t, <2>1 DEF PurgeDeletedAsset, Doing, DeletionsStand
  <2>2. assets'[u] = assets[u] \/ assets'[u].row \in {"live", "deleted"}
    BY <2>1, AssetsStep
  <2> QED
    BY <2>2 DEF HasRow
<1>4. ASSUME Exists(u), ~uploads[u].finalized, ~uploads[u].swept
      PROVE  HasRow(u)' \/ (Exists(u)' /\ ~uploads'[u].finalized /\ ~uploads'[u].swept)
  <2>1. Exists(u)' /\ ~uploads'[u].swept
    BY <1>4, UploadsStep, KindsStay
  <2>2. uploads'[u].finalized => assets'[u].row = "live"
    BY <1>4, UploadsStep
  <2> QED
    BY <2>1, <2>2 DEF HasRow
<1> QED
  BY <1>2, <1>3, <1>4

\* An answer is given when nothing is left, and what it stands for stays.
LEMMA AnsweredStep ==
    ASSUME IngestInv, [Next]_vars
    PROVE  AnsweredIsComplete'
<1>t. TypeOK /\ RowsFinalized /\ FollowsUp /\ AnsweredIsComplete
  BY DEF IngestInv
<1> SUFFICES ASSUME NEW u \in Uploads, answered'[u], HasRow(u)'
             PROVE  Written(uploads'[u].kind) \subseteq derived'[u]
  BY DEF AnsweredIsComplete
<1>1. derived[u] \subseteq derived'[u]
  BY DerivedStep DEF HasRow
<1>2. CASE answered[u]
  <2>1. uploads[u].finalized /\ Exists(u)
    BY <1>2, <1>t, KindsStay DEF RowsFinalized
  <2>2. HasRow(u) /\ uploads'[u].kind = uploads[u].kind
    BY <2>1, KindsStay
  <2> QED
    BY <1>1, <1>2, <1>t, <2>2 DEF AnsweredIsComplete
<1>3. CASE ~answered[u]
  <2>1. PICK r \in Requests : Answer(r)
    BY <1>3, Steps DEF vars, CreateUpload, Put, MarkAssetDeleted, TicketExpires, UploadAges, DeleteAges,
       RequestOnly, FinalizeRead, FinalizeHead, ProbeImageHead, RequestFails, FinalizeUpload, FollowUp,
       SweeperOnly, ListOrphans, MarkUploadSweptFails, ListDeletions, PurgeDeletedAssetFails, PassEnds,
       SweeperCrashes, SweepObjectFails, PurgeObjectFails, MarkUploadSwept, PurgeDeletedAsset,
       SweepObject, PurgeObject
  <2>2. UploadOf(r) = u /\ In(r, "follow_up") /\ request[r].left = 0 /\ UNCHANGED <<uploads, assets, derived>>
    BY <1>3, <1>t, <2>1 DEF Answer, TypeOK
  <2>3. HasRow(u) /\ uploads[u].kind \in Kinds
    BY <1>t, <2>2, UploadKinds DEF HasRow, In, FollowsUp
  <2>4. \A i \in 1 .. Len(FollowUps(uploads[u].kind)) - 0 : FollowUps(uploads[u].kind)[i] \in derived[u]
    BY <1>t, <2>2, <2>3 DEF FollowsUp, In
  <2>5. \A i \in DOMAIN FollowUps(uploads[u].kind) : FollowUps(uploads[u].kind)[i] \in derived[u]
    BY <2>3, <2>4, FollowUpsShape
  <2> QED
    BY <2>2, <2>5 DEF Written
<1> QED
  BY <1>2, <1>3

------------------------------------------------------------------------------
\* Without late finalizes

\* An old upload that is not finalized never will be: no request of it runs.
LEMMA OrphanForGood ==
    ASSUME TimelyInv, [Next]_vars, NEW u \in Uploads, Old(u), ~uploads[u].finalized
    PROVE  ~uploads'[u].finalized
<1>t. IngestInv /\ InTime
  BY DEF TimelyInv
<1>1. ASSUME NEW r \in Requests, FinalizeUpload(r), UploadOf(r) = u
      PROVE  FALSE
  BY <1>1, <1>t DEF FinalizeUpload, In, InTime
<1>2. Exists(u)
  BY <1>t DEF IngestInv, TicketsOver
<1> QED
  BY <1>1, <1>2, <1>t, UploadsStep

\* So a listed orphan stays one.
LEMMA OrphansStayStep ==
    ASSUME TimelyInv, [Next]_vars
    PROVE  OrphansStay'
<1>t. IngestInv /\ TypeOK /\ OrphansOld /\ OrphansStay
  BY DEF TimelyInv, IngestInv
<1> DEFINE Orphan(u)   == Old(u) /\ ~uploads[u].finalized
           NotTaken(u) == ~uploads'[u].finalized
<1>1. ASSUME NEW u \in Uploads, Orphan(u)
      PROVE  NotTaken(u)
  BY <1>1, OrphanForGood
<1>2. \A u \in ReclaimableUploads : u \in Uploads /\ Orphan(u)
  BY Listed
<1> SUFFICES ASSUME NEW s \in Sweepers, sweeper'[s] # Idle
             PROVE  /\ sweeper'[s].pc \in {"orphans", "mark"} => \A u \in sweeper'[s].todo : NotTaken(u)
                    /\ sweeper'[s].pc = "mark" => NotTaken(sweeper'[s].at)
  BY DEF OrphansStay, Subject
<1>3. sweeper[s] # Idle => sweeper[s].todo \subseteq Uploads
  BY <1>t DEF TypeOK, Sweep
<1>4. sweeper[s] # Idle /\ sweeper[s].pc = "mark" => sweeper[s].at \in Uploads /\ Orphan(sweeper[s].at)
  BY <1>t DEF TypeOK, Sweep, OrphansOld, OrphansStay, Subject
<1>5. sweeper[s] # Idle /\ sweeper[s].pc \in {"orphans", "mark"} => \A u \in sweeper[s].todo : Orphan(u)
  BY <1>t DEF OrphansOld, OrphansStay
<1> HIDE DEF Orphan, NotTaken
<1>6. CASE sweeper'[s] = sweeper[s]
  BY <1>1, <1>3, <1>4, <1>5, <1>6
<1>7. CASE sweeper'[s].pc = "orphans" /\ sweeper'[s].todo = ReclaimableUploads
  BY <1>1, <1>2, <1>7
<1>8. CASE sweeper[s] # Idle /\ sweeper'[s].todo \subseteq sweeper[s].todo
           /\ sweeper[s].pc \in {"orphans", "mark"} /\ sweeper'[s].pc = "orphans"
  BY <1>1, <1>3, <1>5, <1>8
<1>9. ASSUME NEW u \in Uploads, sweeper[s] # Idle, sweeper'[s].todo = sweeper[s].todo,
             u \in sweeper[s].todo, sweeper'[s].at = u,
             sweeper[s].pc = "orphans", sweeper'[s].pc = "mark"
      PROVE  (\A v \in sweeper'[s].todo : NotTaken(v)) /\ NotTaken(sweeper'[s].at)
  BY <1>1, <1>3, <1>5, <1>9
<1>10. CASE sweeper'[s].pc \in {"deletions", "purge"}
  BY <1>10
<1> QED
  BY <1>6, <1>7, <1>8, <1>9, <1>10, <1>t, SweeperStep

\* An object that a timely finalize has seen goes only with a deletion.
LEMMA ObjectStays ==
    ASSUME TimelyInv, [Next]_vars, NEW u \in Uploads, uploads[u].finalized \/ ~Old(u), objects[u]
    PROVE  objects'[u] \/ assets'[u].row \in {"deleted", "purged"}
<1>t. TypeOK /\ OrphansOld /\ OrphansStay /\ DeletionsStand
  BY DEF TimelyInv, IngestInv
<1>1. ASSUME NEW s \in Sweepers, Doing(s, "orphans")
      PROVE  u \notin sweeper[s].todo
  BY <1>1, <1>t DEF Doing, OrphansOld, OrphansStay
<1>2. ASSUME NEW s \in Sweepers, Doing(s, "deletions"), u \in sweeper[s].todo
      PROVE  assets[u].row \in {"deleted", "purged"}
  BY <1>2, <1>t DEF Doing, DeletionsStand
<1> QED
  BY <1>1, <1>2, <1>t, ObjectsStep

\* A finalize in flight keeps its upload from ageing, and its object from the
\* sweep of orphans.
LEMMA InTimeStep ==
    ASSUME "late_finalize" \notin Faults, TimelyInv, [Next]_vars
    PROVE  InTime'
<1>t. IngestInv /\ TypeOK /\ FollowsUp /\ InTime /\ TicketsOver
  BY DEF TimelyInv, IngestInv
<1> SUFFICES ASSUME NEW r \in Requests, request'[r] # Idle, NEW u \in Uploads, u = request'[r].upload
             PROVE  /\ uploads'[u].finalized \/ ~Old(u)'
                    /\ request'[r].pc \in {"probe", "register"}
                          => objects'[u] \/ assets'[u].row \in {"deleted", "purged"}
  <2>1. \A r \in Requests : request'[r] # Idle => request'[r].upload \in Uploads
    BY <1>t, TypeStep DEF TypeOK, Finalize
  <2> QED
    BY <2>1 DEF InTime, UploadOf
<1>1. CASE request[r] # Idle /\ request[r].upload = u
  <2>1. uploads[u].finalized \/ ~Old(u)
    BY <1>1, <1>t DEF InTime, UploadOf
  <2>2. uploads'[u].finalized \/ ~Old(u)'
    <3>1. uploads[u].finalized => uploads'[u].finalized
      BY <1>t, KindsStay
    <3>2. ASSUME ~Old(u), Old(u)'
          PROVE  FALSE
      <4>1. grace.uploads \in Nat /\ u \in Nat
        BY <1>t DEF TypeOK
      <4>2. UploadAges(u)
        <5>1. ~UNCHANGED grace /\ grace'.uploads # grace.uploads
          BY <3>2 DEF Old
        <5>2. PICK v \in Uploads : UploadAges(v) /\ v = grace.uploads + 1 /\ grace'.uploads = v
          BY <1>t, <5>1, GraceStep
        <5>3. v = u
          BY <3>2, <4>1, <5>2 DEF Old
        <5> QED
          BY <5>2, <5>3
      <4> QED
        BY <1>1, <4>2 DEF UploadAges, UploadOf
    <3> QED
      BY <2>1, <3>1, <3>2
  <2>3. ASSUME request'[r].pc \in {"probe", "register"}
        PROVE  objects'[u] \/ assets'[u].row \in {"deleted", "purged"}
    <3>1. objects[u] \/ assets[u].row \in {"deleted", "purged"}
      <4>1. CASE request'[r] = request[r]
        BY <1>1, <1>t, <2>3, <4>1 DEF InTime, UploadOf
      <4>2. CASE FinalizeHead(r) \/ ProbeImageHead(r)
        BY <1>1, <4>2 DEF FinalizeHead, ProbeImageHead, UploadOf
      <4> QED
        BY <1>1, <1>t, <2>3, <4>1, <4>2, RequestStep
    <3>2. assets[u].row \in {"deleted", "purged"} => assets'[u].row \in {"deleted", "purged"}
      BY <1>t, AssetsStep
    <3> QED
      BY <2>1, <3>1, <3>2, ObjectStays
  <2> QED
    BY <2>2, <2>3
<1>2. CASE request[r] = Idle
  <2>1. PICK v \in Uploads : FinalizeRead(r, v) /\ request'[r].upload = v /\ request'[r].pc = "head"
    BY <1>2, <1>t, RequestStep
  <2>2. (uploads[u].finalized \/ ~Old(u)) /\ UNCHANGED <<uploads, grace>>
    BY <2>1 DEF FinalizeRead
  <2> QED
    BY <2>1, <2>2 DEF Old
<1>3. request[r] # Idle => request'[r].upload = request[r].upload
  BY <1>t, RequestStep
<1> QED
  BY <1>1, <1>2, <1>3

\* An asset begins with its object, and loses it after a deletion only.
LEMMA LiveStep ==
    ASSUME TimelyInv, [Next]_vars
    PROVE  LiveAssetHasObject'
<1>t. IngestInv /\ RowsFinalized /\ InTime /\ LiveAssetHasObject
  BY DEF TimelyInv, IngestInv
<1> SUFFICES ASSUME NEW u \in Uploads, assets'[u].row = "live"
             PROVE  objects'[u]
  BY DEF LiveAssetHasObject
<1>1. CASE assets[u].row = "live"
  <2>1. objects[u] /\ uploads[u].finalized
    BY <1>1, <1>t DEF LiveAssetHasObject, RowsFinalized
  <2> QED
    BY <2>1, ObjectStays
<1>2. CASE assets[u].row # "live"
  <2>1. PICK r \in Requests : FinalizeUpload(r) /\ UploadOf(r) = u /\ assets[u].row = "none"
    BY <1>2, <1>t, AssetsStep
  <2>2. objects[u]
    BY <1>t, <2>1 DEF FinalizeUpload, In, InTime
  <2> QED
    BY <2>1, <2>2 DEF FinalizeUpload
<1> QED
  BY <1>1, <1>2

\* While its PUT works, a finalized upload has its object: neither sweep touches
\* it yet, so the PUT only replaces what is there.
TicketKeeps == \A u \in Uploads : uploads[u].ticket /\ uploads[u].finalized => objects[u]

\* It holds from the finalize on.
LEMMA TicketKeepsStep ==
    ASSUME TimelyInv, TicketKeeps, [Next]_vars
    PROVE  TicketKeeps'
<1>t. IngestInv /\ TypeOK /\ InTime /\ OrphansStay /\ DeletionsStand
  BY DEF TimelyInv, IngestInv
<1> SUFFICES ASSUME NEW u \in Uploads, uploads'[u].ticket, uploads'[u].finalized
             PROVE  objects'[u]
  BY DEF TicketKeeps
<1>1. CASE uploads'[u] = uploads[u]
  <2>1. objects[u]
    BY <1>1 DEF TicketKeeps
  <2>2. ASSUME NEW s \in Sweepers, Doing(s, "orphans") \/ Doing(s, "deletions")
        PROVE  u \notin sweeper[s].todo
    BY <1>1, <1>t, <2>2 DEF Doing, OrphansStay, DeletionsStand
  <2> QED
    BY <1>t, <2>1, <2>2, ObjectsStep
<1>2. ASSUME NEW r \in Requests, FinalizeUpload(r), UploadOf(r) = u, assets[u].row = "none"
      PROVE  objects'[u]
  BY <1>2, <1>t DEF FinalizeUpload, In, InTime
<1>3. ASSUME NEW s \in Sweepers, Doing(s, "mark"), Subject(s) = u, uploads'[u].finalized = uploads[u].finalized
      PROVE  FALSE
  BY <1>3, <1>t DEF Doing, OrphansStay
<1> QED
  BY <1>1, <1>2, <1>3, <1>t, UploadsStep

------------------------------------------------------------------------------
\* The refinement of Vault

StageMap == [u \in Uploads |-> Stage(u)]

VaultInv == TimelyInv /\ TicketKeeps

\* The stage depends on nothing else.
LEMMA SameStage ==
    ASSUME NEW u \in Uploads, assets'[u].row = assets[u].row, uploads'[u].swept = uploads[u].swept,
           Exists(u)' <=> Exists(u), Old(u)' <=> Old(u)
    PROVE  Stage(u)' = Stage(u)
BY DEF Stage

\* When one stage moves, the map does so there.
LEMMA StageMoves ==
    ASSUME NEW u \in Uploads, \A v \in Uploads \ {u} : Stage(v)' = Stage(v)
    PROVE  StageMap' = [StageMap EXCEPT ![u] = Stage(u)']
BY DEF StageMap

\* What the client does.
LEMMA ClientImplements ==
    ASSUME VaultInv, [Next]_vars, NEW u \in Uploads,
           CreateUpload(u) \/ Put(u) \/ MarkAssetDeleted(u) \/ TicketExpires(u)
    PROVE  [Promised!VaultNext]_<<StageMap, objects>>
<1>t. IngestInv /\ TypeOK /\ TicketsOver /\ RowsFinalized /\ TicketKeeps
  BY DEF VaultInv, TimelyInv, IngestInv
<1>1. CASE CreateUpload(u)
  <2>1. PICK kind \in Kinds :
           uploads' = [uploads EXCEPT ![u] =
                         [kind |-> kind, ticket |-> TRUE, finalized |-> FALSE, swept |-> FALSE]]
    BY <1>1 DEF CreateUpload
  <2>2. ~Exists(u) /\ UNCHANGED <<objects, assets, grace>>
    BY <1>1 DEF CreateUpload
  <2>3. uploads[u] = NoUpload
    BY <1>t, <2>2, UploadKinds
  <2>4. ~Old(u) /\ assets[u].row = "none" /\ ~uploads[u].swept
    BY <1>t, <2>2, <2>3 DEF TicketsOver, RowsFinalized, NoUpload
  <2>5. uploads'[u] = [kind |-> kind, ticket |-> TRUE, finalized |-> FALSE, swept |-> FALSE]
    BY <1>t, <2>1 DEF TypeOK
  <2>6. Stage(u) = "none" /\ Stage(u)' = "open"
    BY <2>2, <2>4, <2>5, KindsAssumption DEF Stage, Exists, Old
  <2>7. \A v \in Uploads \ {u} : Stage(v)' = Stage(v)
    BY <1>t, <2>1, <2>2, SameStage DEF TypeOK, Exists, Old
  <2>8. Promised!Announce(u)
    BY <2>2, <2>6, <2>7, StageMoves DEF Promised!Announce, Promised!Becomes, StageMap
  <2> QED
    BY <2>8 DEF Promised!VaultNext
<1>2. CASE Put(u)
  <2>1. uploads[u].ticket /\ objects' = [objects EXCEPT ![u] = TRUE] /\ UNCHANGED <<uploads, assets, grace>>
    BY <1>2 DEF Put
  <2>2. StageMap' = StageMap
    BY <2>1 DEF StageMap, Stage, Exists, Old
  <2>3. CASE uploads[u].finalized
    BY <1>t, <2>1, <2>2, <2>3 DEF TypeOK, TicketKeeps
  <2>4. CASE ~uploads[u].finalized
    <3>1. Exists(u)
      BY <1>t, <2>1, UploadKinds DEF NoUpload
    <3>2. Stage(u) = "open"
      BY <1>t, <2>1, <2>4, <3>1 DEF Stage, TicketsOver, RowsFinalized
    <3>3. Promised!Store(u)
      BY <2>1, <2>2, <3>2 DEF Promised!Store, StageMap
    <3> QED
      BY <3>3 DEF Promised!VaultNext
  <2> QED
    BY <2>3, <2>4
<1>3. CASE MarkAssetDeleted(u)
  <2>1. /\ HasRow(u) /\ UNCHANGED <<uploads, objects, grace>>
        /\ assets' = [assets EXCEPT ![u] = [row |-> "deleted", deletedAt |-> LastDelete + 1]]
    BY <1>3 DEF MarkAssetDeleted
  <2>2. Stage(u)' = "deleted" /\ Stage(u) = assets[u].row
    BY <1>t, <2>1 DEF Stage, HasRow, TypeOK
  <2>3. \A v \in Uploads \ {u} : Stage(v)' = Stage(v)
    BY <1>t, <2>1, SameStage DEF TypeOK, Exists, Old
  <2>4. StageMap' = [StageMap EXCEPT ![u] = "deleted"] /\ StageMap[u] \in {"live", "deleted"}
    BY <2>1, <2>2, <2>3, StageMoves DEF StageMap, HasRow
  <2>5. CASE StageMap[u] = "live"
    <3>1. Promised!Delete(u)
      BY <2>1, <2>4, <2>5 DEF Promised!Delete, Promised!Becomes, StageMap
    <3> QED
      BY <3>1 DEF Promised!VaultNext
  <2>6. CASE StageMap[u] = "deleted"
    BY <2>1, <2>4, <2>6 DEF StageMap
  <2> QED
    BY <2>4, <2>5, <2>6
<1>4. CASE TicketExpires(u)
  <2>1. uploads' = [uploads EXCEPT ![u].ticket = FALSE] /\ UNCHANGED <<objects, assets, grace>>
    BY <1>4 DEF TicketExpires
  <2>2. \A v \in Uploads : uploads'[v].kind = uploads[v].kind /\ uploads'[v].swept = uploads[v].swept
    BY <1>t, <2>1 DEF TypeOK, Upload, NoUpload
  <2>3. \A v \in Uploads : Stage(v)' = Stage(v)
    BY <2>1, <2>2, SameStage DEF Exists, Old
  <2> QED
    BY <2>1, <2>3 DEF StageMap
<1> QED
  BY <1>1, <1>2, <1>3, <1>4

\* What time does: only an open upload can be given up.
LEMMA ClockImplements ==
    ASSUME VaultInv, NEW u \in Uploads, UploadAges(u)
    PROVE  [Promised!VaultNext]_<<StageMap, objects>>
<1>t. TypeOK /\ TicketsOver
  BY DEF VaultInv, TimelyInv, IngestInv
<1>1. /\ u = grace.uploads + 1 /\ Exists(u) /\ UNCHANGED <<uploads, objects, assets>>
      /\ grace'.uploads = u /\ grace.uploads \in Nat
  BY <1>t DEF UploadAges, TypeOK
<1>2. \A v \in Uploads \ {u} : Old(v)' <=> Old(v)
  BY <1>1 DEF Old
<1>3. \A v \in Uploads \ {u} : Stage(v)' = Stage(v)
  BY <1>1, <1>2, SameStage DEF Exists
<1>4. ~Old(u) /\ Old(u)'
  BY <1>1 DEF Old
<1>5. CASE assets[u].row = "none"
  <2>1. Stage(u) = "open" /\ Stage(u)' = "given_up"
    BY <1>t, <1>1, <1>4, <1>5 DEF Stage, Exists, TicketsOver
  <2>2. Promised!GiveUp(u)
    BY <1>1, <1>3, <2>1, StageMoves DEF Promised!GiveUp, Promised!Becomes, StageMap
  <2> QED
    BY <2>2 DEF Promised!VaultNext
<1>6. CASE assets[u].row # "none"
  <2>1. Stage(u)' = Stage(u)
    BY <1>1, <1>6 DEF Stage
  <2> QED
    BY <1>1, <1>3, <2>1 DEF StageMap
<1> QED
  BY <1>5, <1>6

\* What finalize does: an asset begins with its bytes, in an open upload.
LEMMA FinalizeImplements ==
    ASSUME VaultInv, NEW r \in Requests, FinalizeUpload(r)
    PROVE  [Promised!VaultNext]_<<StageMap, objects>>
<1>t. TypeOK /\ RowsFinalized /\ FollowsUp /\ InTime
  BY DEF VaultInv, TimelyInv, IngestInv
<1>0. PICK u \in Uploads : u = UploadOf(r)
  BY <1>t DEF FinalizeUpload, In, TypeOK, Finalize, UploadOf
<1>1. Exists(u) /\ UNCHANGED <<objects, grace>>
  BY <1>t, <1>0 DEF FinalizeUpload, In, FollowsUp
<1>2. CASE Refused(u)
  <2>1. UNCHANGED <<uploads, assets>>
    BY <1>0, <1>2 DEF FinalizeUpload
  <2> QED
    BY <1>1, <2>1 DEF StageMap, Stage, Exists, Old
<1>3. CASE ~Refused(u)
  <2>1. /\ uploads' = [uploads EXCEPT ![u].finalized = TRUE]
        /\ assets' = [assets EXCEPT ![u].row = IF HasRow(u) THEN @ ELSE "live"]
    BY <1>0, <1>3 DEF FinalizeUpload
  <2>2. \A v \in Uploads : uploads'[v].kind = uploads[v].kind /\ uploads'[v].swept = uploads[v].swept
    BY <1>t, <2>1 DEF TypeOK, Upload, NoUpload
  <2>3. \A v \in Uploads \ {u} : Stage(v)' = Stage(v)
    BY <1>t, <1>1, <2>1, <2>2, SameStage DEF TypeOK, Exists, Old
  <2>4. CASE HasRow(u)
    <3>1. assets'[u].row = assets[u].row
      BY <1>t, <1>1, <2>1, <2>4 DEF TypeOK, Asset
    <3>2. Stage(u)' = Stage(u)
      BY <1>1, <2>2, <3>1, SameStage DEF Exists, Old
    <3> QED
      BY <1>1, <2>3, <3>2 DEF StageMap
  <2>5. CASE ~HasRow(u)
    <3>1. ~uploads[u].swept /\ ~uploads[u].finalized /\ assets[u].row = "none"
      BY <1>1, <1>3, <1>t, <2>5 DEF Refused, RowsFinalized
    <3>2. ~Old(u) /\ objects[u]
      BY <1>0, <1>t, <3>1 DEF InTime, FinalizeUpload, In
    <3>3. assets'[u].row = "live"
      BY <1>t, <1>1, <2>1, <2>5 DEF TypeOK, Asset
    <3>4. Stage(u) = "open" /\ Stage(u)' = "live"
      BY <1>1, <3>1, <3>2, <3>3 DEF Stage
    <3>5. Promised!Register(u)
      BY <1>1, <2>3, <3>2, <3>4, StageMoves DEF Promised!Register, Promised!Becomes, StageMap
    <3> QED
      BY <1>1, <3>5 DEF Promised!VaultNext
  <2> QED
    BY <2>4, <2>5
<1> QED
  BY <1>2, <1>3

\* What the sweeps do to objects: a second sweep of the same key finds nothing.
LEMMA DiscardImplements ==
    ASSUME VaultInv, NEW s \in Sweepers, NEW u \in Uploads, SweepObject(s, u) \/ PurgeObject(s, u)
    PROVE  [Promised!VaultNext]_<<StageMap, objects>>
<1>t. TypeOK /\ TicketsOver /\ RowsFinalized /\ OrphansOld /\ DeletionsStand /\ OrphansStay /\ VaultAccountedFor
  BY DEF VaultInv, TimelyInv, IngestInv
<1>1. objects' = [objects EXCEPT ![u] = FALSE] /\ UNCHANGED <<uploads, assets, grace>>
  BY DEF SweepObject, PurgeObject
<1>2. StageMap' = StageMap
  BY <1>1 DEF StageMap, Stage, Exists, Old
<1>3. Stage(u) \in {"given_up", "deleted"} \/ ~objects[u]
  <2>1. CASE SweepObject(s, u)
    <3>1. Old(u) /\ Exists(u) /\ ~uploads[u].finalized
      BY <1>t, <2>1 DEF SweepObject, Doing, NextOrphan, OrphansOld, OrphansStay, TicketsOver
    <3>2. assets[u].row = "none"
      BY <1>t, <3>1 DEF RowsFinalized
    <3> QED
      BY <1>t, <3>1, <3>2 DEF Stage, VaultAccountedFor, HasRow
  <2>2. CASE PurgeObject(s, u)
    <3>1. assets[u].row \in {"deleted", "purged"}
      BY <1>t, <2>2 DEF PurgeObject, Doing, DeletionsStand
    <3>2. uploads[u].finalized
      BY <1>t, <3>1 DEF RowsFinalized
    <3> QED
      BY <1>t, <3>1, <3>2 DEF Stage, VaultAccountedFor, HasRow
  <2> QED
    BY <2>1, <2>2
<1>4. CASE Stage(u) \in {"given_up", "deleted"}
  <2>1. Promised!Discard(u)
    BY <1>1, <1>2, <1>4 DEF Promised!Discard, StageMap
  <2> QED
    BY <2>1 DEF Promised!VaultNext
<1>5. CASE ~objects[u]
  BY <1>1, <1>2, <1>5, <1>t DEF TypeOK
<1> QED
  BY <1>3, <1>4, <1>5

\* What the sweeps do to rows: the bytes have gone.
LEMMA CloseImplements ==
    ASSUME VaultInv, NEW s \in Sweepers, MarkUploadSwept(s) \/ PurgeDeletedAsset(s)
    PROVE  [Promised!VaultNext]_<<StageMap, objects>>
<1>t. TypeOK /\ TicketsOver /\ RowsFinalized /\ OrphansOld /\ DeletionsStand /\ OrphansStay
  BY DEF VaultInv, TimelyInv, IngestInv
<1>0. PICK u \in Uploads : u = Subject(s)
  BY <1>t DEF MarkUploadSwept, PurgeDeletedAsset, Doing, TypeOK, Sweep, Subject
<1>1. UNCHANGED <<objects, grace>>
  BY DEF MarkUploadSwept, PurgeDeletedAsset
<1>2. CASE MarkUploadSwept(s)
  <2>1. uploads' = [uploads EXCEPT ![u].swept = TRUE] /\ UNCHANGED assets
    BY <1>0, <1>2 DEF MarkUploadSwept
  <2>2. Old(u) /\ ~objects[u] /\ ~uploads[u].finalized /\ Exists(u)
    BY <1>0, <1>2, <1>t DEF MarkUploadSwept, Doing, OrphansOld, OrphansStay, TicketsOver
  <2>3. assets[u].row = "none"
    BY <1>1, <1>t, <2>2 DEF RowsFinalized
  <2>4. /\ \A v \in Uploads : uploads'[v].kind = uploads[v].kind
        /\ \A v \in Uploads \ {u} : uploads'[v].swept = uploads[v].swept
        /\ uploads'[u].swept
    BY <1>1, <1>t, <2>1, <2>2, UploadKinds DEF TypeOK, Upload, NoUpload
  <2>5. \A v \in Uploads \ {u} : Stage(v)' = Stage(v)
    BY <1>1, <2>1, <2>4, SameStage DEF Exists, Old
  <2>6. Stage(u)' = "reclaimed" /\ Stage(u) \in {"given_up", "reclaimed"}
    BY <2>1, <2>2, <2>3, <2>4 DEF Stage
  <2>7. StageMap' = [StageMap EXCEPT ![u] = "reclaimed"] /\ StageMap[u] = Stage(u)
    BY <1>1, <2>5, <2>6, StageMoves DEF StageMap
  <2>8. CASE Stage(u) = "given_up"
    <3>1. Promised!Reclaim(u)
      BY <1>1, <2>2, <2>7, <2>8 DEF Promised!Reclaim, Promised!Becomes, StageMap
    <3> QED
      BY <1>1, <3>1 DEF Promised!VaultNext
  <2>9. CASE Stage(u) = "reclaimed"
    BY <1>1, <2>7, <2>9 DEF StageMap
  <2> QED
    BY <2>6, <2>8, <2>9
<1>3. CASE PurgeDeletedAsset(s)
  <2>1. /\ assets' = [assets EXCEPT ![u].row = IF @ = "deleted" THEN "purged" ELSE @]
        /\ UNCHANGED uploads
    BY <1>0, <1>3 DEF PurgeDeletedAsset
  <2>2. assets[u].row \in {"deleted", "purged"} /\ ~objects[u]
    BY <1>0, <1>3, <1>t DEF PurgeDeletedAsset, Doing, DeletionsStand
  <2>3. \A v \in Uploads \ {u} : Stage(v)' = Stage(v)
    BY <1>t, <1>1, <2>1, SameStage DEF TypeOK, Exists, Old
  <2>4. assets'[u].row = "purged"
    BY <1>t, <1>1, <2>1, <2>2 DEF TypeOK, Asset
  <2>5. Stage(u)' = "purged" /\ Stage(u) \in {"deleted", "purged"}
    BY <2>2, <2>4 DEF Stage
  <2>6. StageMap' = [StageMap EXCEPT ![u] = "purged"] /\ StageMap[u] = Stage(u)
    BY <1>1, <2>3, <2>5, StageMoves DEF StageMap
  <2>7. CASE Stage(u) = "deleted"
    <3>1. Promised!Purge(u)
      BY <1>1, <2>2, <2>6, <2>7 DEF Promised!Purge, Promised!Becomes, StageMap
    <3> QED
      BY <1>1, <3>1 DEF Promised!VaultNext
  <2>8. CASE Stage(u) = "purged"
    BY <1>1, <2>6, <2>8 DEF StageMap
  <2> QED
    BY <2>5, <2>7, <2>8
<1> QED
  BY <1>2, <1>3

\* Every other step leaves the stages and the bytes as they are.
LEMMA StepImplementsVault ==
    ASSUME VaultInv, [Next]_vars
    PROVE  [Promised!VaultNext]_<<StageMap, objects>>
<1>t. TypeOK
  BY DEF VaultInv, TimelyInv, IngestInv
<1>1. ASSUME UNCHANGED <<uploads, assets, objects>>, grace'.uploads = grace.uploads
      PROVE  UNCHANGED <<StageMap, objects>>
  BY <1>1 DEF StageMap, Stage, Exists, Old
<1>2. CASE UNCHANGED vars
  BY <1>1, <1>2 DEF vars
<1>3. CASE DeleteAges
  BY <1>t, <1>1, <1>3 DEF DeleteAges, TypeOK
<1>4. ASSUME NEW r \in Requests, RequestOnly(r) \/ FollowUp(r) \/ Answer(r)
      PROVE  UNCHANGED <<StageMap, objects>>
  BY <1>1, <1>4 DEF RequestOnly, FinalizeRead, FinalizeHead, ProbeImageHead, RequestFails, FollowUp, Answer
<1>5. ASSUME NEW s \in Sweepers, SweeperOnly(s)
      PROVE  UNCHANGED <<StageMap, objects>>
  BY <1>1, <1>5 DEF SweeperOnly, ListOrphans, MarkUploadSweptFails, ListDeletions, PurgeDeletedAssetFails,
       PassEnds, SweeperCrashes, SweepObjectFails, PurgeObjectFails
<1> QED
  BY <1>2, <1>3, <1>4, <1>5, Steps, ClientImplements, ClockImplements, FinalizeImplements,
     DiscardImplements, CloseImplements

------------------------------------------------------------------------------
\* What a batch reaches

\* A set of natural numbers has a least one.
LEMMA Least ==
    ASSUME NEW T, T \subseteq Nat, T # {}
    PROVE  \E n \in T : \A m \in T : n <= m
<1>1. PICK n \in T : \A m \in T : ~(<<m, n>> \in OpToRel(<, Nat))
  BY NatLessThanWellFounded, WFMin
<1>2. ASSUME NEW m \in T
      PROVE  n <= m
  <2>1. ~(<<m, n>> \in {ss \in Nat \X Nat : ss[1] < ss[2]})
    BY <1>1 DEF OpToRel
  <2> QED
    BY <2>1
<1> QED
  BY <1>2

\* What a batch takes before u.
Before(S, stamp, u) == {v \in S : stamp[v] < stamp[u]}

\* The oldest first, a batch at a time: the first good one is in it as long as
\* the bad ones before it do not fill it.
LEMMA FirstGood ==
    ASSUME IsFiniteSet(BadKeys), NEW S, S \subseteq Uploads, NEW stamp \in [Uploads -> Nat],
           Cardinality(S \cap BadKeys) < BatchSize, S \ BadKeys # {}
    PROVE  \E u \in S \ BadKeys : Cardinality(Before(S, stamp, u)) < BatchSize
<1> DEFINE T == {stamp[u] : u \in S \ BadKeys}
<1>1. PICK n \in T : \A m \in T : n <= m
  <2>1. T \subseteq Nat /\ T # {}
    OBVIOUS
  <2> HIDE DEF T
  <2> QED
    BY <2>1, Least
<1>2. PICK u \in S \ BadKeys : stamp[u] = n
  OBVIOUS
<1>3. Before(S, stamp, u) \subseteq S \cap BadKeys
  <2>1. ASSUME NEW v \in S, stamp[v] < stamp[u], v \notin BadKeys
        PROVE  FALSE
    BY <1>1, <1>2, <2>1
  <2> QED
    BY <2>1 DEF Before
<1>4. IsFiniteSet(S \cap BadKeys)
  BY FS_Intersection
<1>5. Cardinality(Before(S, stamp, u)) <= Cardinality(S \cap BadKeys) /\ IsFiniteSet(Before(S, stamp, u))
  BY <1>3, <1>4, FS_Subset
<1>6. Cardinality(Before(S, stamp, u)) \in Nat /\ Cardinality(S \cap BadKeys) \in Nat /\ BatchSize \in Nat
  BY <1>4, <1>5, FS_CardinalityType, BatchAssumption
<1> QED
  BY <1>5, <1>6

\* The orphans, and the deletions, that a sweep might list.
Orphans   == {u \in Uploads : Exists(u) /\ Old(u) /\ ~uploads[u].finalized /\ ~uploads[u].swept}
Deletions == {u \in Uploads : assets[u].row = "deleted" /\ assets[u].deletedAt <= grace.deletes}

\* A batch holds a key that can be deleted, if there is one, as long as those that
\* cannot be do not fill a batch: "one bad key must not stall the sweep", pass by pass.
BatchReachesGood ==
    /\ Cardinality(Orphans \cap BadKeys) < BatchSize /\ Orphans \ BadKeys # {}
           => ReclaimableUploads \ BadKeys # {}
    /\ Cardinality(Deletions \cap BadKeys) < BatchSize /\ Deletions \ BadKeys # {}
           => ReclaimableDeletedAssets \ BadKeys # {}

------------------------------------------------------------------------------
\* Theorems

\* The tables, the vault, requests and sweeps stay in step.
THEOREM IngestInvariant == Spec => []IngestInv
<1>1. Init => IngestInv
  <2> SUFFICES ASSUME Init PROVE IngestInv
    OBVIOUS
  <2>1. TypeOK
    BY DEF Init, TypeOK, NoUpload, NoAsset, Asset
  <2>2. Stamps
    BY DEF Init, Stamps, NoAsset
  <2>3. TicketsOver /\ RowsFinalized
    BY DEF Init, TicketsOver, RowsFinalized, Old, NoUpload, NoAsset
  <2>4. OrphansOld /\ DeletionsStand /\ FollowsUp
    BY DEF Init, OrphansOld, DeletionsStand, FollowsUp
  <2>5. VaultAccountedFor /\ AnsweredIsComplete
    BY DEF Init, VaultAccountedFor, AnsweredIsComplete
  <2> QED
    BY <2>1, <2>2, <2>3, <2>4, <2>5 DEF IngestInv
<1>2. IngestInv /\ [Next]_vars => IngestInv'
  BY TypeStep, StampsStep, TicketsOverStep, RowsFinalizedStep, OrphansOldStep, DeletionsStandStep,
     FollowsUpStep, VaultStep, AnsweredStep DEF IngestInv
<1> QED
  BY <1>1, <1>2, PTL DEF Spec

\* The tables, the vault and what is in flight keep their types.
THEOREM IngestTypes == Spec => []TypeOK
<1>1. IngestInv => TypeOK
  BY DEF IngestInv
<1> QED
  BY <1>1, IngestInvariant, PTL

\* The vault holds nothing that neither an asset nor a sweep accounts for, with
\* late finalizes, crashed sweeps and PUTs that outlive finalize.
THEOREM VaultIsAccountedFor == Spec => []VaultAccountedFor
<1>1. IngestInv => VaultAccountedFor
  BY DEF IngestInv
<1> QED
  BY <1>1, IngestInvariant, PTL

\* A 201 stands for everything finalize owes, however many finalizes of the
\* upload stopped half-way.
THEOREM AnswersAreComplete == Spec => []AnsweredIsComplete
<1>1. IngestInv => AnsweredIsComplete
  BY DEF IngestInv
<1> QED
  BY <1>1, IngestInvariant, PTL

\* What the sweeps took does not come back as an asset.
THEOREM GoneStays == Spec => GoneStaysGone
<1>1. ASSUME IngestInv, [Next]_vars, NEW u \in Uploads,
             assets[u].row = "purged" \/ (uploads[u].swept /\ assets[u].row = "none")
      PROVE  assets'[u].row = assets[u].row
  <2>t. TypeOK /\ FollowsUp
    BY <1>1 DEF IngestInv
  <2>1. ASSUME NEW r \in Requests, FinalizeUpload(r), UploadOf(r) = u, assets'[u] # assets[u]
        PROVE  FALSE
    <3>1. ~Refused(u)
      BY <2>1 DEF FinalizeUpload
    <3> QED
      BY <1>1, <3>1, <2>1, AssetsStep DEF Refused, HasRow
  <2> QED
    BY <1>1, <2>1, AssetsStep DEF HasRow
<1>2. IngestInv /\ [Next]_vars
        => [\A u \in Uploads :
              assets[u].row = "purged" \/ (uploads[u].swept /\ assets[u].row = "none")
                 => assets'[u].row = assets[u].row]_vars
  BY <1>1
<1> QED
  BY <1>2, IngestInvariant, PTL DEF Spec, GoneStaysGone

\* Every pass of a sweep makes headway, unless as many keys as a batch holds cannot
\* be deleted: the list is ordered by a stamp and cut, and bad keys keep their place.
THEOREM EveryBatchMoves ==
    ASSUME IsFiniteSet(BadKeys)
    PROVE  Spec => []BatchReachesGood
<1>1. ASSUME TypeOK, Cardinality(Orphans \cap BadKeys) < BatchSize, Orphans \ BadKeys # {}
      PROVE  ReclaimableUploads \ BadKeys # {}
  <2> DEFINE created == [u \in Uploads |-> u]
  <2>1. created \in [Uploads -> Nat] /\ Orphans \subseteq Uploads
    BY DEF Orphans
  <2>2. PICK u \in Orphans \ BadKeys : Cardinality(Before(Orphans, created, u)) < BatchSize
    <3> HIDE DEF created
    <3> QED
      BY <1>1, <2>1, FirstGood
  <2>3. Before(Orphans, created, u) = {v \in Orphans : v < u}
    BY <2>1 DEF Before
  <2>4. ReclaimableUploads = {w \in Orphans : Cardinality({v \in Orphans : v < w}) < BatchSize}
    BY DEF ReclaimableUploads, Limited, Orphans
  <2> QED
    BY <2>2, <2>3, <2>4
<1>2. ASSUME TypeOK, Cardinality(Deletions \cap BadKeys) < BatchSize, Deletions \ BadKeys # {}
      PROVE  ReclaimableDeletedAssets \ BadKeys # {}
  <2> DEFINE stamp == [u \in Uploads |-> assets[u].deletedAt]
  <2>1. stamp \in [Uploads -> Nat] /\ Deletions \subseteq Uploads
    BY <1>2 DEF Deletions, TypeOK, Asset
  <2>2. PICK u \in Deletions \ BadKeys : Cardinality(Before(Deletions, stamp, u)) < BatchSize
    <3> HIDE DEF stamp
    <3> QED
      BY <1>2, <2>1, FirstGood
  <2>3. Before(Deletions, stamp, u) = {v \in Deletions : assets[v].deletedAt < assets[u].deletedAt}
    BY <2>1 DEF Before
  <2>4. ReclaimableDeletedAssets =
            {w \in Deletions : Cardinality({v \in Deletions : assets[v].deletedAt < assets[w].deletedAt}) < BatchSize}
    BY DEF ReclaimableDeletedAssets, Limited, Deletions
  <2> QED
    BY <2>2, <2>3, <2>4
<1>3. TypeOK => BatchReachesGood
  BY <1>1, <1>2 DEF BatchReachesGood
<1> QED
  BY <1>3, IngestTypes, PTL

\* Without late finalizes the invariant is the stronger one.
THEOREM TimelyInvariant ==
    ASSUME "late_finalize" \notin Faults
    PROVE  Spec => []VaultInv
<1>1. Init => InTime /\ OrphansStay /\ LiveAssetHasObject /\ TicketKeeps
  BY DEF Init, InTime, OrphansStay, LiveAssetHasObject, TicketKeeps, NoAsset, NoUpload
<1>2. VaultInv /\ [Next]_vars => (InTime /\ OrphansStay /\ LiveAssetHasObject /\ TicketKeeps)'
  BY InTimeStep, OrphansStayStep, LiveStep, TicketKeepsStep DEF VaultInv
<1>3. IngestInv /\ InTime /\ OrphansStay /\ LiveAssetHasObject /\ TicketKeeps => VaultInv
  BY DEF TimelyInv, VaultInv
<1> QED
  BY <1>1, <1>2, <1>3, IngestInvariant, PTL DEF Spec

\* As long as clients finalize within the grace period, the sweep is safe beside
\* ingest, even when a sweep is killed between two steps: an asset has its original.
THEOREM LiveAssetsHaveObjects ==
    ASSUME "late_finalize" \notin Faults
    PROVE  Spec => []LiveAssetHasObject
<1>1. VaultInv => LiveAssetHasObject
  BY DEF VaultInv, TimelyInv
<1> QED
  BY <1>1, TimelyInvariant, PTL

\* Under the same condition the whole of ingest, replays, retries, failed deletes
\* and killed sweeps included, comes down to Vault.
THEOREM IngestImplementsVault ==
    ASSUME "late_finalize" \notin Faults
    PROVE  Spec => ImplementsVault
<1>1. Init => Promised!VaultInit
  <2> SUFFICES ASSUME Init PROVE Promised!VaultInit
    OBVIOUS
  <2>1. \A u \in Uploads : Stage(u) = "none"
    BY DEF Init, Stage, Exists, NoUpload, NoAsset
  <2> QED
    BY <2>1 DEF Init, Promised!VaultInit
<1>2. VaultInv /\ [Next]_vars => [Promised!VaultNext]_<<StageMap, objects>>
  BY StepImplementsVault
<1>3. [][Promised!VaultNext]_<<StageMap, objects>> <=> [][Promised!VaultNext]_(Promised!vaultVars)
  BY DEF Promised!vaultVars, StageMap
<1> QED
  BY <1>1, <1>2, <1>3, TimelyInvariant, PTL DEF Spec, ImplementsVault, Promised!VaultSpec
=============================================================================
