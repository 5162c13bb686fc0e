------------------------------ MODULE JobQueue ------------------------------
(***************************************************************************)
(* The derivation queue: the jobs and renditions tables                    *)
(* (internal/store/queue.go), the API handlers that enqueue                *)
(* (internal/service/handlers.go, upload.go) and the workers that claim,   *)
(* run and record jobs (internal/worker/worker.go).                        *)
(*                                                                         *)
(* One action is one database statement or transaction, or one call to the *)
(* object store or the media tools; everything between two of them is      *)
(* local to a goroutine and is folded into the action before it.  Wall     *)
(* clock time appears only as the flag "stale": heartbeat_at is older than *)
(* the lease TTL.                                                          *)
(*                                                                         *)
(* An operator named Name_Variant is not part of the specification: it is  *)
(* Name with a plausible bug, kept to show that a property would notice.   *)
(***************************************************************************)
EXTENDS Integers

CONSTANTS
    Workers,      \* worker goroutines, over all `plate work` processes
    Handlers,     \* API requests that may be in flight at the same time
    Assets,       \* finalized video assets
    Intents,      \* the A/V intents in use
    SkipAssets,   \* assets whose upload said skip_derivations
    JobIds,       \* job rows, numbered in the order of jobs.created
    MaxAttempts,  \* worker.Config.MaxAttempts
    Unfit,        \* <<target, bytes>> that breach a ceiling
    Faults,       \* which faults of FaultKinds the environment shows
    MaxPuts,      \* bound: authored files PUT per target
    MaxReclaims   \* bound: expired leases per job

Target == Assets \X Intents

\* The bytes of an object, by where they came from.
Nothing == -1                  \* no object under the key
Vault   == 0                   \* derived from the vault original
Bytes   == {Vault} \cup 1..MaxPuts   \* n > 0: the n-th authored file

\* "slow": a stage may outlast the lease of a live worker (the heartbeat runs
\* only around Transcode and Remux, and a beat that fails is only logged).
\* "lost_ack": a transaction commits but its reply does not arrive.
FaultKinds == {"slow", "lost_ack"}

ASSUME JobIdsAssumption   == JobIds \subseteq Nat \ {0}
ASSUME IntentsAssumption  == Intents \subseteq {"poster", "loop", "detail"}
ASSUME BoundsAssumption   == /\ MaxAttempts \in Nat \ {0}
                             /\ MaxPuts \in Nat
                             /\ MaxReclaims \in Nat
ASSUME SkipAssumption     == SkipAssets \subseteq Assets
ASSUME FaultsAssumption   == Faults \subseteq FaultKinds
\* Only the detail intent has a ceiling on what is derived from the original.
ASSUME UnfitAssumption    == /\ Unfit \subseteq Target \X Bytes
                             /\ \A u \in Unfit : u[2] = Vault => u[1][2] = "detail"

VARIABLES
    jobs,        \* the jobs table
    renditions,  \* the renditions table: the status of each (asset, intent)
    objects,     \* the delivery object under each rendition key
    probe,       \* assets.probe_status
    authored,    \* authored uploads of each target and their staging object
    worker,      \* what each worker goroutine is doing
    handler,     \* what each API request is doing
    reclaims     \* history: how often an expired lease of the job was taken over

vars == <<jobs, renditions, objects, probe, authored, worker, handler, reclaims>>

------------------------------------------------------------------------------
\* Types

JobStatus == {"queued", "running", "succeeded", "failed"}
NoJob     == [status |-> "absent"]
Job       == [status: JobStatus, target: Target, mode: {"derive", "remux"},
              retries: Nat, stale: BOOLEAN]

\* "of" is the source the row's dimensions, or its refusal, were measured on.
Rendition == [status: {"none", "ready", "failed", "not_derived"}, of: Bytes \cup {Nothing}]
NoRow     == [status |-> "none", of |-> Nothing]

Authored  == [ticket: BOOLEAN, puts: 0..MaxPuts, file: (Bytes \ {Vault}) \cup {Nothing},
              accepted: BOOLEAN]

Idle    == [pc |-> "idle"]
Working == {"pull", "probe", "refuse", "close", "transcode", "upload", "confirm", "commit"}
Failing == {"failing", "requeue", "give_up"}
\* Once past the download a worker has bytes in its hands.
Holding == [pc: {"pull"} \cup Failing, job: JobIds, attempt: Nat, mode: {"derive", "remux"},
            bytes: Bytes \cup {Nothing}]
           \cup
           [pc: Working \ {"pull"}, job: JobIds, attempt: Nat, mode: {"derive", "remux"},
            bytes: Bytes]

Request == [pc: {"lookup", "insert", "repoint"}, target: Target, mode: {"derive", "remux"},
            prior: JobIds \cup {0}]

TypeOK ==
    /\ jobs \in [JobIds -> Job \cup {NoJob}]
    /\ renditions \in [Target -> Rendition]
    /\ objects \in [Target -> Bytes \cup {Nothing}]
    /\ probe \in [Assets -> {"pending", "ready", "failed"}]
    /\ authored \in [Target -> Authored]
    /\ worker \in [Workers -> Holding \cup {Idle}]
    /\ handler \in [Handlers -> Request \cup {Idle}]
    /\ reclaims \in [JobIds -> Nat]

------------------------------------------------------------------------------
\* Helpers

Exists(j)  == jobs[j].status # "absent"
JobsOf(t)  == {j \in JobIds : Exists(j) /\ jobs[j].target = t}
Held(j)    == \E w \in Workers : worker[w] # Idle /\ worker[w].job = j

\* ClaimNextJob's ORDER BY: short work first, then oldest.
Tier(job) == IF job.mode = "remux" \/ job.target[2] = "poster" THEN 0
             ELSE IF job.target[2] = "loop" THEN 1 ELSE 2
Before(j, k) == \/ Tier(jobs[j]) < Tier(jobs[k])
                \/ Tier(jobs[j]) = Tier(jobs[k]) /\ j < k

Claimable_AnyRunning(j) == jobs[j].status \in {"queued", "running"}
Claimable_QueuedOnly(j) == jobs[j].status = "queued"

\* WHERE status = 'queued' OR (status = 'running' AND heartbeat_at < $1)
Claimable(j) == \/ jobs[j].status = "queued"
                \/ jobs[j].status = "running" /\ jobs[j].stale

Claimed_SameAttempt(job) == [job EXCEPT !.status = "running", !.stale = FALSE]

\* The claim's SET clause.
Claimed(job) == [job EXCEPT !.status = "running", !.stale = FALSE, !.retries = @ + 1]

Verdict_OneMore(job) == IF job.retries <= MaxAttempts THEN "requeue" ELSE "give_up"

\* FailJob: retry while attempts remain.
Verdict(job) == IF job.retries < MaxAttempts THEN "requeue" ELSE "give_up"

LiveJob_Unfinished(t) ==
    {j \in JobsOf(t) : \A k \in JobsOf(t) : k <= j /\ jobs[j].status \in {"queued", "running"}}

\* What the enqueue SELECT finds: the newest job of the target, unless it failed.
LiveJob(t) == {j \in JobsOf(t) : \A k \in JobsOf(t) : k <= j /\ jobs[j].status # "failed"}

Init ==
    /\ jobs = [j \in JobIds |-> NoJob]
    /\ renditions = [t \in Target |-> NoRow]
    /\ objects = [t \in Target |-> Nothing]
    /\ probe = [a \in Assets |-> "pending"]
    /\ authored = [t \in Target |-> [ticket |-> FALSE, puts |-> 0, file |-> Nothing, accepted |-> FALSE]]
    /\ worker = [w \in Workers |-> Idle]
    /\ handler = [h \in Handlers |-> Idle]
    /\ reclaims = [j \in JobIds |-> 0]

------------------------------------------------------------------------------
\* The API: what leads to an enqueue

Accept(h, t, m) ==
    /\ handler[h] = Idle
    /\ handler' = [handler EXCEPT ![h] = [pc |-> "lookup", target |-> t, mode |-> m, prior |-> 0]]

\* POST /assets/{id}/renditions: an existing row is returned as it is, except
\* not_derived, which counts as no row.
RequestRendition(h, t) ==
    /\ renditions[t].status \in {"none", "not_derived"}
    /\ Accept(h, t, "derive")
    /\ UNCHANGED <<jobs, renditions, objects, probe, authored, worker, reclaims>>

\* Finalize of a video that did not decline derivation (again on every replay).
FinalizeVideo(h, a) ==
    /\ a \notin SkipAssets /\ "detail" \in Intents
    /\ Accept(h, <<a, "detail">>, "derive")
    /\ UNCHANGED <<jobs, renditions, objects, probe, authored, worker, reclaims>>

MarkNotDerived_Overwrites(t) ==
    /\ t[1] \in SkipAssets
    /\ renditions' = [renditions EXCEPT ![t] = [status |-> "not_derived", of |-> Nothing]]
    /\ UNCHANGED <<jobs, objects, probe, authored, worker, handler, reclaims>>

\* Finalize of a video that declined: one row per intent, never over a row.
MarkNotDerived(t) ==
    /\ t[1] \in SkipAssets
    /\ renditions' = [renditions EXCEPT ![t] =
                        IF @ = NoRow THEN [status |-> "not_derived", of |-> Nothing] ELSE @]
    /\ UNCHANGED <<jobs, objects, probe, authored, worker, handler, reclaims>>

\* POST /uploads with a rendition binding: refused over a ready rendition.
CreateAuthoredUpload(t) ==
    /\ renditions[t].status # "ready"
    /\ authored' = [authored EXCEPT ![t].ticket = TRUE]
    /\ UNCHANGED <<jobs, renditions, objects, probe, worker, handler, reclaims>>

\* The presigned PUT; a re-authored file overwrites its own staging object.
PutAuthored(t) ==
    /\ authored[t].ticket /\ authored[t].puts < MaxPuts
    /\ authored' = [authored EXCEPT ![t].puts = @ + 1, ![t].file = authored[t].puts + 1,
                                    ![t].accepted = FALSE]
    /\ UNCHANGED <<jobs, renditions, objects, probe, worker, handler, reclaims>>

\* The orphan sweep: an authored upload is never marked finalized, so past the
\* grace period its staging object is reclaimed whatever its job is doing.
SweepStaged(t) ==
    /\ authored[t].file # Nothing
    /\ authored' = [authored EXCEPT ![t].file = Nothing, ![t].accepted = FALSE]
    /\ UNCHANGED <<jobs, renditions, objects, probe, worker, handler, reclaims>>

\* Finalize of an authored upload: HEAD the staging object, then EnqueueRemuxJob.
FinalizeAuthored(h, t) ==
    /\ authored[t].file # Nothing
    /\ Accept(h, t, "remux")
    /\ UNCHANGED <<jobs, renditions, objects, probe, authored, worker, reclaims>>

------------------------------------------------------------------------------
\* EnqueueJob and EnqueueRemuxJob: a SELECT, then an INSERT or an UPDATE, with
\* no transaction around them.

Return(h) == handler' = [handler EXCEPT ![h] = Idle]

\* The newest job of the target decides; a failed one is as good as none.
EnqueueLookup(h) ==
    /\ handler[h] # Idle /\ handler[h].pc = "lookup"
    /\ LET live == LiveJob(handler[h].target)
       IN  \/ /\ live = {}
              /\ handler' = [handler EXCEPT ![h].pc = "insert"]
           \/ /\ live # {} /\ handler[h].mode = "derive"
              /\ Return(h)
           \/ /\ handler[h].mode = "remux"
              /\ \E j \in live :
                    handler' = [handler EXCEPT ![h].pc = "repoint", ![h].prior = j]
    /\ UNCHANGED <<jobs, renditions, objects, probe, authored, worker, reclaims>>

\* The answer to a finalize accepts the file that is staged now.
Acknowledge(h) ==
    authored' = IF handler[h].mode = "remux"
                THEN [authored EXCEPT ![handler[h].target].accepted = (@ \/ authored[handler[h].target].file # Nothing)]
                ELSE authored

\* INSERT INTO jobs ... 'queued', under the next id.
EnqueueInsert(h) ==
    /\ handler[h] # Idle /\ handler[h].pc = "insert"
    /\ \E j \in JobIds :
          /\ ~Exists(j) /\ \A k \in JobIds : k < j => Exists(k)
          /\ jobs' = [jobs EXCEPT ![j] =
                        [status |-> "queued", target |-> handler[h].target,
                         mode |-> handler[h].mode, retries |-> 0, stale |-> FALSE]]
    /\ Acknowledge(h)
    /\ Return(h)
    /\ UNCHANGED <<renditions, objects, probe, worker, reclaims>>

EnqueueRepoint_Requeues(h) ==
    /\ handler[h] # Idle /\ handler[h].pc = "repoint"
    /\ jobs' = [jobs EXCEPT ![handler[h].prior].mode = "remux", ![handler[h].prior].status = "queued"]
    /\ Acknowledge(h)
    /\ Return(h)
    /\ UNCHANGED <<renditions, objects, probe, worker, reclaims>>

\* UPDATE jobs SET source_key, mode = 'remux' WHERE id: the status stays.
EnqueueRepoint(h) ==
    /\ handler[h] # Idle /\ handler[h].pc = "repoint"
    /\ jobs' = [jobs EXCEPT ![handler[h].prior].mode = "remux"]
    /\ Acknowledge(h)
    /\ Return(h)
    /\ UNCHANGED <<renditions, objects, probe, worker, reclaims>>

\* The request's context is cancelled, or the statement fails: a 500.
RequestFails(h) ==
    /\ handler[h] # Idle
    /\ Return(h)
    /\ UNCHANGED <<jobs, renditions, objects, probe, authored, worker, reclaims>>

------------------------------------------------------------------------------
\* The worker: Run, runOne, process and processRemux

At(w, pc)     == worker[w] # Idle /\ worker[w].pc = pc
Goto(w, pc)   == worker' = [worker EXCEPT ![w].pc = pc]
JobOf(w)       == worker[w].job
TargetOf(w)    == jobs[JobOf(w)].target
Derives(w)    == worker[w].mode = "derive"
Breaches_DerivedOnly(w) == Derives(w) /\ <<TargetOf(w), worker[w].bytes>> \in Unfit
Breaches(w)   == <<TargetOf(w), worker[w].bytes>> \in Unfit

\* One UPDATE: take the best claimable job, bump its attempts, stamp its lease.
ClaimNextJob(w) ==
    /\ worker[w] = Idle
    /\ \E j \in JobIds :
          /\ Claimable(j)
          /\ \A k \in JobIds \ {j} : Claimable(k) => Before(j, k)
          /\ jobs' = [jobs EXCEPT ![j] = Claimed(@)]
          /\ worker' = [worker EXCEPT ![w] =
                           [pc |-> "pull", job |-> j, attempt |-> Claimed(jobs[j]).retries,
                            mode |-> jobs[j].mode, bytes |-> Nothing]]
          /\ reclaims' = [reclaims EXCEPT ![j] = IF jobs[j].stale THEN @ + 1 ELSE @]
    /\ UNCHANGED <<renditions, objects, probe, authored, handler>>

Pull_IgnoresMissing(w) ==
    /\ At(w, "pull")
    /\ worker' = [worker EXCEPT ![w].pc = "probe",
                     ![w].bytes = IF Derives(w) THEN Vault ELSE authored[TargetOf(w)].file]
    /\ UNCHANGED <<jobs, renditions, objects, probe, authored, handler, reclaims>>

\* Download the source the job had when it was claimed.
Pull(w) ==
    /\ At(w, "pull")
    /\ Derives(w) \/ authored[TargetOf(w)].file # Nothing
    /\ worker' = [worker EXCEPT ![w].pc = "probe",
                     ![w].bytes = IF Derives(w) THEN Vault ELSE authored[TargetOf(w)].file]
    /\ UNCHANGED <<jobs, renditions, objects, probe, authored, handler, reclaims>>

\* ProbeAV on the local copy.  A derivation records what it measured, or that
\* the source cannot be probed; an authored file that cannot is a refusal.
Probe(w) ==
    /\ At(w, "probe")
    /\ \E readable \in BOOLEAN :
          /\ probe' = IF Derives(w)
                      THEN [probe EXCEPT ![TargetOf(w)[1]] = IF readable THEN "ready" ELSE "failed"]
                      ELSE probe
          /\ Goto(w, IF readable THEN (IF Breaches(w) THEN "refuse" ELSE "transcode")
                     ELSE (IF Derives(w) THEN "failing" ELSE "refuse"))
    /\ UNCHANGED <<jobs, renditions, objects, authored, handler, reclaims>>

FailedRenditionForCeiling_Swallowed(w) ==
    /\ At(w, "refuse")
    /\ Goto(w, "close")
    /\ UNCHANGED <<jobs, renditions, objects, probe, authored, handler, reclaims>>

\* The refusal row is one statement, closing the job is the next one.
FailedRenditionForCeiling(w) ==
    /\ At(w, "refuse")
    /\ renditions' = [renditions EXCEPT ![TargetOf(w)] = [status |-> "failed", of |-> worker[w].bytes]]
    /\ Goto(w, "close")
    /\ UNCHANGED <<jobs, objects, probe, authored, handler, reclaims>>

\* The reply to a statement that closed the job arrives, or is lost: then the
\* worker takes its job for failed.
Replied(w) == \/ worker' = [worker EXCEPT ![w] = Idle]
              \/ "lost_ack" \in Faults /\ Goto(w, "failing")

\* UPDATE ... 'succeeded' WHERE id: whatever status the job has by now.
CompleteJobNoRendition(w) ==
    /\ At(w, "close")
    /\ jobs' = [jobs EXCEPT ![JobOf(w)].status = "succeeded", ![JobOf(w)].stale = FALSE]
    /\ Replied(w)
    /\ UNCHANGED <<renditions, objects, probe, authored, handler, reclaims>>

\* heartbeatLoop runs beside Transcode and Remux only; it renews the lease of
\* whoever holds the job now.
Heartbeat(w) ==
    /\ At(w, "transcode")
    /\ jobs[JobOf(w)].status = "running"
    /\ jobs' = [jobs EXCEPT ![JobOf(w)].stale = FALSE]
    /\ UNCHANGED <<renditions, objects, probe, authored, worker, handler, reclaims>>

Transcode_SkipsUpload(w) ==
    /\ At(w, "transcode")
    /\ Goto(w, "confirm")
    /\ UNCHANGED <<jobs, renditions, objects, probe, authored, handler, reclaims>>

Transcode(w) ==
    /\ At(w, "transcode")
    /\ Goto(w, "upload")
    /\ UNCHANGED <<jobs, renditions, objects, probe, authored, handler, reclaims>>

Upload_FromStaging(w) ==
    /\ At(w, "upload")
    /\ objects' = [objects EXCEPT ![TargetOf(w)] =
                      IF Derives(w) THEN Vault ELSE authored[TargetOf(w)].file]
    /\ Goto(w, "confirm")
    /\ UNCHANGED <<jobs, renditions, probe, authored, handler, reclaims>>

\* PUT the result under the deterministic rendition key.
Upload(w) ==
    /\ At(w, "upload")
    /\ objects' = [objects EXCEPT ![TargetOf(w)] = worker[w].bytes]
    /\ Goto(w, "confirm")
    /\ UNCHANGED <<jobs, renditions, probe, authored, handler, reclaims>>

\* CompleteJob's SELECT ... WHERE id AND status = 'running': it takes no row
\* lock and does not look at whose attempt is running.
CompleteConfirm(w) ==
    /\ At(w, "confirm")
    /\ Goto(w, IF jobs[JobOf(w)].status = "running" THEN "commit" ELSE "failing")
    /\ UNCHANGED <<jobs, renditions, objects, probe, authored, handler, reclaims>>

\* The rendition row and the job's status commit together.
CompleteCommit(w) ==
    /\ At(w, "commit")
    /\ renditions' = [renditions EXCEPT ![TargetOf(w)] = [status |-> "ready", of |-> worker[w].bytes]]
    /\ jobs' = [jobs EXCEPT ![JobOf(w)].status = "succeeded", ![JobOf(w)].stale = FALSE]
    /\ Replied(w)
    /\ UNCHANGED <<objects, probe, authored, handler, reclaims>>

\* Any step of process may return an error; runOne then calls FailJob.
StepFails(w) ==
    /\ worker[w] # Idle /\ worker[w].pc \in Working
    /\ Goto(w, "failing")
    /\ UNCHANGED <<jobs, renditions, objects, probe, authored, handler, reclaims>>

\* FailJob reads the attempts first ...
FailJobRead(w) ==
    /\ At(w, "failing")
    /\ Goto(w, Verdict(jobs[JobOf(w)]))
    /\ UNCHANGED <<jobs, renditions, objects, probe, authored, handler, reclaims>>

\* ... and writes the verdict WHERE id, whatever status the job has by now.
FailJobWrite(w) ==
    /\ worker[w] # Idle /\ worker[w].pc \in {"requeue", "give_up"}
    /\ jobs' = [jobs EXCEPT ![JobOf(w)].stale = FALSE, ![JobOf(w)].status =
                    IF worker[w].pc = "requeue" THEN "queued" ELSE "failed"]
    /\ worker' = [worker EXCEPT ![w] = Idle]
    /\ UNCHANGED <<renditions, objects, probe, authored, handler, reclaims>>

\* The process is killed, shut down with its context cancelled, or cannot reach
\* the database to record the failure: the job stays running, held by no one.
Abandon(w) ==
    /\ worker[w] # Idle
    /\ reclaims[JobOf(w)] < MaxReclaims
    /\ worker' = [worker EXCEPT ![w] = Idle]
    /\ UNCHANGED <<jobs, renditions, objects, probe, authored, handler, reclaims>>

\* heartbeat_at falls behind now() - leaseTTL.
LeaseExpires(j) ==
    /\ jobs[j].status = "running" /\ ~jobs[j].stale
    /\ reclaims[j] < MaxReclaims
    /\ "slow" \in Faults \/ ~Held(j)
    /\ jobs' = [jobs EXCEPT ![j].stale = TRUE]
    /\ UNCHANGED <<renditions, objects, probe, authored, worker, handler, reclaims>>

------------------------------------------------------------------------------
Api(h) ==
    \/ \E t \in Target : RequestRendition(h, t) \/ FinalizeAuthored(h, t)
    \/ \E a \in Assets : FinalizeVideo(h, a)
    \/ EnqueueLookup(h) \/ EnqueueInsert(h) \/ EnqueueRepoint(h) \/ RequestFails(h)

Client(t) == MarkNotDerived(t) \/ CreateAuthoredUpload(t) \/ PutAuthored(t) \/ SweepStaged(t)

\* The steps a live worker takes on its own.
Progress(w) ==
    \/ ClaimNextJob(w) \/ Pull(w) \/ Probe(w)
    \/ FailedRenditionForCeiling(w) \/ CompleteJobNoRendition(w)
    \/ Transcode(w) \/ Upload(w) \/ CompleteConfirm(w) \/ CompleteCommit(w)
    \/ StepFails(w) \/ FailJobRead(w) \/ FailJobWrite(w)

Next ==
    \/ \E h \in Handlers : Api(h)
    \/ \E t \in Target : Client(t)
    \/ \E w \in Workers : Progress(w) \/ Heartbeat(w) \/ Abandon(w)
    \/ \E j \in JobIds : LeaseExpires(j)

Spec == Init /\ [][Next]_vars

\* The worker loop runs until its process stops, and heartbeats of a job no one
\* holds grow old: both happen whenever they can.
FairSpec == /\ Spec
            /\ \A w \in Workers : WF_vars(Progress(w))
            /\ \A j \in JobIds : WF_vars(LeaseExpires(j))
------------------------------------------------------------------------------
\* Properties that hold whatever faults show

\* A row says ready only when the rendition key holds an object: the upload
\* comes before CompleteJob, and no late worker or re-run takes it back.
ReadyHasObject ==
    \A t \in Target : renditions[t].status = "ready" => objects[t] # Nothing

\* A job that succeeded has left its verdict in the renditions table ("there is
\* never a job succeeded but the record didn't update split").
SucceededRecorded ==
    \A j \in JobIds : jobs[j].status = "succeeded" =>
        renditions[jobs[j].target].status \in {"ready", "failed"}

\* Every claim is a new attempt: two workers on the same job, one of them late,
\* never carry the same number, and none is ahead of the row.
AttemptsDistinct ==
    \A w \in Workers : worker[w] # Idle =>
        /\ worker[w].attempt <= jobs[JobOf(w)].retries
        /\ \A v \in Workers \ {w} :
              worker[v] # Idle /\ JobOf(v) = JobOf(w) => worker[v].attempt # worker[w].attempt

\* What breaches a ceiling is never delivered: the bytes that were probed are
\* the bytes that are uploaded, whatever is staged by then and whatever mode
\* the job has been switched to.
UnfitNeverDelivered ==
    \A t \in Target : <<t, objects[t]>> \notin Unfit

\* A job is attempted MaxAttempts times, and once more for each expired lease:
\* late verdicts of displaced workers cannot make it loop.
RetriesBounded ==
    \A j \in JobIds : Exists(j) => jobs[j].retries <= MaxAttempts + reclaims[j]

------------------------------------------------------------------------------
\* Properties that need the lease to outlast the work of a live worker

\* SKIP LOCKED and the lease together: a job is in one worker's hands.
ClaimExclusive ==
    \A v, w \in Workers : v # w /\ worker[v] # Idle /\ worker[w] # Idle => JobOf(v) # JobOf(w)

\* "a succeeded job should not be reclaimable": nothing re-opens it.
SucceededIsFinal ==
    [][\A j \in JobIds : jobs[j].status = "succeeded" => jobs'[j].status = "succeeded"]_vars

\* No two requests are between the lookup and the insert of one target.  Nothing
\* in the code sees to that; where a property needs it, it is assumed by name.
OneInsert ==
    \A g, h \in Handlers :
        g # h /\ handler[g] # Idle /\ handler[h] # Idle
              /\ handler[g].pc = "insert" /\ handler[h].pc = "insert"
            => handler[g].target # handler[h].target

\* The dimensions in a ready row were measured on the bytes that are served.
ReadyDescribesObject ==
    \A t \in Target : renditions[t].status = "ready" => objects[t] = renditions[t].of

\* A ready rendition is a fact: no re-run, re-authored file, refusal or replayed
\* finalize's not_derived mark changes or covers the row.
ReadyKept ==
    [][\A t \in Target : renditions[t].status = "ready" => renditions'[t] = renditions[t]]_vars

\* A queued job is eventually done or given up, through crashes, failed steps
\* and shorter jobs that overtake it.
EveryJobSettles ==
    \A j \in JobIds :
        jobs[j].status \in {"queued", "running"} ~> jobs[j].status \in {"succeeded", "failed"}

------------------------------------------------------------------------------
\* What the repository says and the code does not do

\* EnqueueJob: "Idempotent per (asset, intent)": at most one job of a target is
\* not failed.  Two requests that overlap each find none and insert one.
OneLiveJob ==
    \A t \in Target : \A j, k \in JobsOf(t) :
        j # k => jobs[j].status = "failed" \/ jobs[k].status = "failed"

\* EnqueueRemuxJob: a re-uploaded file "must remux the NEW bytes".  The file a
\* finalize accepted is judged, unless a newer one replaces it, the sweep takes
\* it, or its job is given up.
AcceptedFileJudged ==
    \A t \in Target :
        authored[t].accepted ~>
            \/ ~authored[t].accepted
            \/ renditions[t].of = authored[t].file
            \/ \E j \in JobsOf(t) : jobs[j].status = "failed"
=============================================================================
