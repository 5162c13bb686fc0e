----------------------- MODULE JobQueue_refines_proofs -----------------------
(***************************************************************************)
(* That the queue implements Derivation, when the lease outlasts the work  *)
(* of a live worker and no two requests are between the lookup and the     *)
(* insert of one target (OneInsert), for every set of workers, requests,   *)
(* assets, intents and job rows and every bound.                           *)
(***************************************************************************)
EXTENDS JobQueue_proofs, JobQueue_refines

USE JobIdsAssumption, BoundsAssumption

------------------------------------------------------------------------------
\* The inductive invariant: a target has one job that is not failed, its newest

\* Rows are numbered without a gap.
NoGap == \A j, k \in JobIds : j < k /\ Exists(k) => Exists(j)

\* An older job of the target has failed.
OlderFailed ==
    \A j, k \in JobIds : j < k /\ Exists(j) /\ Exists(k) /\ jobs[j].target = jobs[k].target
        => jobs[j].status = "failed"

\* A request is about to insert only when every job of its target has failed.
InsertClear ==
    \A h \in Handlers : handler[h] # Idle /\ handler[h].pc = "insert"
        => \A j \in JobsOf(handler[h].target) : jobs[j].status = "failed"

\* A ready rendition is the work of a job that succeeded.
ReadyEarned ==
    \A t \in Target : renditions[t].status = "ready"
        => \E j \in JobsOf(t) : jobs[j].status = "succeeded"

\* Between its upload and its commit a worker's bytes are the object.
UploadStands ==
    \A w \in Workers : worker[w] # Idle /\ worker[w].pc \in {"confirm", "commit"}
        => objects[TargetOf(w)] = worker[w].bytes

QueueInv == /\ LeaseInv
            /\ NoGap /\ OlderFailed /\ InsertClear /\ ReadyEarned
            /\ UploadStands /\ ReadyDescribesObject

\* Two jobs of a target are not both unfailed.
LEMMA OneUnfailed ==
    ASSUME OlderFailed, NEW t \in Target, NEW j \in JobsOf(t), NEW k \in JobsOf(t), j # k
    PROVE  jobs[j].status = "failed" \/ jobs[k].status = "failed"
<1>1. j \in JobIds /\ k \in JobIds /\ Exists(j) /\ Exists(k) /\ jobs[j].target = jobs[k].target
  BY DEF JobsOf
<1>2. j < k \/ k < j
  BY <1>1
<1> QED
  BY <1>1, <1>2 DEF OlderFailed

\* A settled job that nobody holds stays as it is: only a late holder re-opens one.
LEMMA UnheldStays ==
    ASSUME TypeOK, HeldExists, [Next]_vars,
           NEW j \in JobIds, jobs[j].status \in {"succeeded", "failed"},
           \A w \in Workers : worker[w] # Idle => JobOf(w) # j
    PROVE  jobs'[j].status = jobs[j].status
<1>t. TypeOK /\ HeldExists /\ Exists(j)
  BY DEF Exists
<1>1. \A w \in Workers : worker[w] # Idle => JobOf(w) # j /\ JobOf(w) \in JobIds
  BY <1>t, BusyHolds
<1>2. CASE UNCHANGED jobs
  BY <1>2
<1>3. ASSUME NEW h \in Handlers, EnqueueInsert(h) \/ EnqueueRepoint(h)
      PROVE  jobs'[j].status = jobs[j].status
  BY <1>t, <1>3, PresentIsJob DEF EnqueueInsert, EnqueueRepoint, Exists, TypeOK, Job
<1>4. ASSUME NEW w \in Workers, ClaimNextJob(w)
      PROVE  jobs'[j].status = jobs[j].status
  BY <1>t, <1>4 DEF ClaimNextJob, Claimable, TypeOK
<1>5. ASSUME NEW w \in Workers,
             CompleteJobNoRendition(w) \/ CompleteCommit(w) \/ FailJobWrite(w) \/ Heartbeat(w)
      PROVE  jobs'[j].status = jobs[j].status
  BY <1>t, <1>1, <1>5 DEF CompleteJobNoRendition, CompleteCommit, FailJobWrite, Heartbeat,
       At, TypeOK
<1>6. ASSUME NEW k \in JobIds, LeaseExpires(k)
      PROVE  jobs'[j].status = jobs[j].status
  BY <1>t, <1>6 DEF LeaseExpires, TypeOK
<1> QED
  BY <1>2, <1>3, <1>4, <1>5, <1>6, JobsStep

\* Who holds a job has not failed it yet, so a failed job stays failed.
LEMMA FailedStays ==
    ASSUME ExclusiveInv, [Next]_vars, NEW j \in JobIds, jobs[j].status = "failed"
    PROVE  jobs'[j].status = "failed"
BY UnheldStays DEF ExclusiveInv, LeaseHeld

\* Without faults nobody holds a succeeded job either.
LEMMA SettledStays ==
    ASSUME LeaseInv, [Next]_vars, NEW j \in JobIds, jobs[j].status \in {"succeeded", "failed"}
    PROVE  jobs'[j].status = jobs[j].status
BY UnheldStays DEF LeaseInv, LeaseHolds

\* Only an insert makes a row, below which there is no gap.
LEMMA NewRow ==
    ASSUME TypeOK, HeldExists, [Next]_vars, NEW j \in JobIds, ~Exists(j), Exists(j)'
    PROVE  \E h \in Handlers :
               /\ EnqueueInsert(h)
               /\ \A k \in JobIds : k < j => Exists(k)
               /\ jobs' = [jobs EXCEPT ![j] =
                    [status |-> "queued", target |-> handler[h].target,
                     mode |-> handler[h].mode, retries |-> 0, stale |-> FALSE]]
<1>1. ~UNCHANGED jobs
  BY DEF Exists
<1>2. ASSUME NEW h \in Handlers, EnqueueRepoint(h)
      PROVE  FALSE
  <2>1. CASE handler[h].prior = j
    BY <1>2, <2>1 DEF EnqueueRepoint, Exists, TypeOK, NoJob
  <2>2. CASE handler[h].prior # j
    BY <1>2, <2>2 DEF EnqueueRepoint, Exists, TypeOK
  <2> QED
    BY <2>1, <2>2
<1>3. ASSUME NEW w \in Workers, ClaimNextJob(w)
      PROVE  FALSE
  BY <1>3 DEF ClaimNextJob, Claimable, Exists, TypeOK
<1>4. ASSUME NEW w \in Workers,
             CompleteJobNoRendition(w) \/ CompleteCommit(w) \/ FailJobWrite(w) \/ Heartbeat(w)
      PROVE  FALSE
  <2>1. worker[w] # Idle
    BY <1>4 DEF CompleteJobNoRendition, CompleteCommit, FailJobWrite, Heartbeat, At
  <2>2. JobOf(w) # j /\ JobOf(w) \in JobIds
    BY <2>1, BusyTarget
  <2> QED
    BY <1>4, <2>2 DEF CompleteJobNoRendition, CompleteCommit, FailJobWrite, Heartbeat, Exists, TypeOK
<1>5. ASSUME NEW k \in JobIds, LeaseExpires(k)
      PROVE  FALSE
  BY <1>5 DEF LeaseExpires, Exists, TypeOK
<1>6. PICK h \in Handlers : EnqueueInsert(h)
  BY <1>1, <1>2, <1>3, <1>4, <1>5, JobsStep
<1>7. PICK i \in JobIds :
         /\ \A k \in JobIds : k < i => Exists(k)
         /\ jobs' = [jobs EXCEPT ![i] =
              [status |-> "queued", target |-> handler[h].target,
               mode |-> handler[h].mode, retries |-> 0, stale |-> FALSE]]
  BY <1>6 DEF EnqueueInsert
<1>8. i = j
  BY <1>7 DEF Exists, TypeOK
<1> QED
  BY <1>6, <1>7, <1>8

------------------------------------------------------------------------------
\* The parts of the invariant, step by step

\* A target keeps its jobs.
LEMMA JobsOfGrow ==
    ASSUME TypeOK, HeldExists, [Next]_vars, NEW t \in Target, NEW j \in JobsOf(t)
    PROVE  j \in JobIds /\ j \in JobsOf(t)'
BY JobsKeptStep DEF JobsKept, JobsOf, Exists

\* A job a target gains is a new row.
LEMMA JobsOfNew ==
    ASSUME TypeOK, HeldExists, [Next]_vars, NEW t \in Target, NEW j \in JobIds,
           j \in JobsOf(t)', j \notin JobsOf(t)
    PROVE  ~Exists(j) /\ Exists(j)'
BY JobsKeptStep DEF JobsKept, JobsOf, Exists

\* A new row takes the lowest free number.
LEMMA NoGapStep ==
    ASSUME TypeOK, HeldExists, NoGap, [Next]_vars
    PROVE  NoGap'
<1> SUFFICES ASSUME NEW j \in JobIds, NEW k \in JobIds, j < k, Exists(k)'
             PROVE  Exists(j)'
  BY DEF NoGap
<1>1. Exists(j)
  <2>1. CASE Exists(k)
    BY <2>1 DEF NoGap
  <2>2. CASE ~Exists(k)
    BY <2>2, NewRow
  <2> QED
    BY <2>1, <2>2
<1> QED
  BY <1>1, JobsKeptStep DEF JobsKept

\* A new row comes after failed ones only.
LEMMA OlderFailedStep ==
    ASSUME ExclusiveInv, NoGap, OlderFailed, InsertClear, [Next]_vars
    PROVE  OlderFailed'
<1>t. TypeOK /\ HeldExists /\ JobsKept
  BY JobsKeptStep DEF ExclusiveInv
<1> SUFFICES ASSUME NEW j \in JobIds, NEW k \in JobIds, j < k, Exists(j)', Exists(k)',
                    jobs'[j].target = jobs'[k].target
             PROVE  jobs'[j].status = "failed"
  BY DEF OlderFailed
<1>1. CASE Exists(k)
  <2>1. Exists(j)
    BY <1>1 DEF NoGap
  <2>2. jobs[j].target = jobs[k].target
    BY <1>t, <1>1, <2>1 DEF JobsKept
  <2>3. jobs[j].status = "failed"
    BY <1>1, <2>1, <2>2 DEF OlderFailed
  <2> QED
    BY <2>3, FailedStays
<1>2. CASE ~Exists(k)
  <2>1. PICK h \in Handlers :
           /\ EnqueueInsert(h)
           /\ \A i \in JobIds : i < k => Exists(i)
           /\ jobs' = [jobs EXCEPT ![k] =
                [status |-> "queued", target |-> handler[h].target,
                 mode |-> handler[h].mode, retries |-> 0, stale |-> FALSE]]
    BY <1>t, <1>2, NewRow
  <2>2. Exists(j) /\ j # k
    BY <1>2, <2>1
  <2>3. jobs'[j] = jobs[j] /\ jobs'[k].target = handler[h].target
    BY <1>t, <2>1, <2>2 DEF TypeOK
  <2>4. j \in JobsOf(handler[h].target)
    BY <2>2, <2>3 DEF JobsOf
  <2> QED
    BY <2>1, <2>3, <2>4 DEF InsertClear, EnqueueInsert
<1> QED
  BY <1>1, <1>2

\* What a step does to a request.
LEMMA HandlerStep ==
    ASSUME TypeOK, [Next]_vars, NEW h \in Handlers
    PROVE  \/ handler'[h] = handler[h]
           \/ handler'[h] = Idle
           \/ handler'[h].pc = "lookup"
           \/ EnqueueLookup(h)
<1>1. UNCHANGED handler \/ \E g \in Handlers : Api(g)
  BY DEF Next, vars, Client, Progress, MarkNotDerived, CreateAuthoredUpload, PutAuthored, SweepStaged,
         ClaimNextJob, Pull, Probe, FailedRenditionForCeiling, CompleteJobNoRendition, Transcode,
         Upload, CompleteConfirm, CompleteCommit, StepFails, FailJobRead, FailJobWrite, Heartbeat,
         Abandon, LeaseExpires
<1>2. ASSUME NEW g \in Handlers, Api(g), g # h
      PROVE  handler'[h] = handler[h]
  BY <1>2 DEF Api, RequestRendition, FinalizeAuthored, FinalizeVideo, EnqueueLookup, EnqueueInsert,
         EnqueueRepoint, RequestFails, Accept, Return, TypeOK
<1>3. CASE Api(h)
  BY <1>3 DEF Api, RequestRendition, FinalizeAuthored, FinalizeVideo, EnqueueInsert,
         EnqueueRepoint, RequestFails, Accept, Return, TypeOK
<1> QED
  BY <1>1, <1>2, <1>3

\* What the lookup saw is still so when the insert comes, as long as no other
\* request inserts for the same target in between.
LEMMA InsertClearStep ==
    ASSUME OneInsert, ExclusiveInv, OlderFailed, InsertClear, [Next]_vars
    PROVE  InsertClear'
<1>t. TypeOK /\ HeldExists /\ TypeOK'
  BY TypeStep DEF ExclusiveInv
<1> SUFFICES ASSUME NEW h \in Handlers, handler'[h] # Idle, handler'[h].pc = "insert",
                    NEW t \in Target, handler'[h].target = t,
                    NEW j \in JobIds, j \in JobsOf(t)'
             PROVE  jobs'[j].status = "failed"
  <2>1. ASSUME NEW h \in Handlers, handler'[h] # Idle
        PROVE  handler'[h].target \in Target
    BY <1>t, <2>1 DEF TypeOK, Request
  <2> QED
    BY <2>1 DEF InsertClear, JobsOf
<1>1. CASE handler'[h] = handler[h]
  <2>1. CASE j \in JobsOf(t)
    BY <1>1, <2>1, FailedStays DEF InsertClear
  <2>2. CASE j \notin JobsOf(t)
    <3>1. ~Exists(j) /\ Exists(j)'
      BY <1>t, <2>2, JobsOfNew
    <3>2. PICK g \in Handlers :
             /\ EnqueueInsert(g)
             /\ jobs' = [jobs EXCEPT ![j] =
                  [status |-> "queued", target |-> handler[g].target,
                   mode |-> handler[g].mode, retries |-> 0, stale |-> FALSE]]
      BY <1>t, <3>1, NewRow
    <3>3. handler[g].target = t
      BY <1>t, <3>2 DEF TypeOK, JobsOf
    <3>4. /\ handler[g] # Idle /\ handler[g].pc = "insert" /\ handler'[g] = Idle
          /\ handler[h] # Idle /\ handler[h].pc = "insert" /\ handler[h].target = t
      BY <1>t, <1>1, <3>2 DEF EnqueueInsert, Return, TypeOK
    <3>5. g # h
      BY <3>4
    <3> QED
      BY <3>3, <3>4, <3>5 DEF OneInsert
  <2> QED
    BY <2>1, <2>2
<1>2. CASE EnqueueLookup(h)
  <2>1. handler[h] \in Request
    BY <1>t, <1>2 DEF EnqueueLookup, TypeOK
  <2>2. handler[h].target = t /\ jobs' = jobs /\ LiveJob(t) = {}
    BY <1>t, <1>2, <2>1 DEF EnqueueLookup, Return, TypeOK, Request
  <2>3. j \in JobsOf(t)
    BY <2>2 DEF JobsOf, Exists
  <2>4. ASSUME jobs[j].status # "failed", NEW k \in JobsOf(t)
        PROVE  k <= j
    <3>1. k \in JobIds /\ Exists(j) /\ Exists(k) /\ jobs[j].target = jobs[k].target
      BY <2>3 DEF JobsOf
    <3>2. ~(j < k)
      BY <2>4, <3>1 DEF OlderFailed
    <3> QED
      BY <3>1, <3>2
  <2>5. jobs[j].status # "failed" => j \in LiveJob(t)
    BY <2>3, <2>4 DEF LiveJob
  <2> QED
    BY <2>2, <2>5
<1> QED
  BY <1>1, <1>2, HandlerStep, <1>t

\* A row becomes ready in the commit of a worker on its target.
LEMMA BecomesReady ==
    ASSUME TypeOK, HeldExists, [Next]_vars, NEW t \in Target,
           renditions[t].status # "ready", renditions'[t].status = "ready"
    PROVE  \E w \in Workers : CompleteCommit(w) /\ TargetOf(w) = t
<1>1. ~ \E u \in Target : MarkNotDerived(u)
  BY DEF MarkNotDerived, TypeOK
<1>2. \A w \in Workers : ~FailedRenditionForCeiling(w)
  BY DEF FailedRenditionForCeiling, TypeOK
<1>3. \A w \in Workers : CompleteCommit(w) => TargetOf(w) = t
  BY DEF CompleteCommit, TypeOK
<1> QED
  BY <1>1, <1>2, <1>3, RowsStep

\* The commit of a rendition leaves a job that succeeded.
LEMMA ReadyEarnedStep ==
    ASSUME LeaseInv, ReadyEarned, [Next]_vars
    PROVE  ReadyEarned'
<1>t. TypeOK /\ HeldExists
  BY DEF LeaseInv
<1> SUFFICES ASSUME NEW t \in Target, renditions'[t].status = "ready"
             PROVE  \E j \in JobIds : j \in JobsOf(t)' /\ jobs'[j].status = "succeeded"
  BY DEF ReadyEarned
<1>1. CASE renditions[t].status = "ready"
  <2>1. PICK j \in JobsOf(t) : jobs[j].status = "succeeded"
    BY <1>1 DEF ReadyEarned
  <2> QED
    BY <1>t, <2>1, JobsOfGrow, SettledStays
<1>2. CASE renditions[t].status # "ready"
  <2>1. PICK w \in Workers : CompleteCommit(w) /\ TargetOf(w) = t
    BY <1>t, <1>2, BecomesReady
  <2>2. JobOf(w) \in JobIds /\ Exists(JobOf(w))
    BY <1>t, <2>1, BusyTarget DEF CompleteCommit, At
  <2>3. JobOf(w) \in JobsOf(t)
    BY <2>1, <2>2 DEF JobsOf, TargetOf
  <2>4. jobs'[JobOf(w)].status = "succeeded"
    BY <1>t, <2>1, <2>2 DEF CompleteCommit, TypeOK
  <2> QED
    BY <1>t, <2>2, <2>3, <2>4, JobsOfGrow
<1> QED
  BY <1>1, <1>2

\* A busy worker's job is a running job of its target.
LEMMA BusyRuns ==
    ASSUME LeaseInv, NEW w \in Workers, worker[w] # Idle
    PROVE  TargetOf(w) \in Target /\ JobOf(w) \in JobsOf(TargetOf(w)) /\ jobs[JobOf(w)].status = "running"
BY BusyTarget DEF LeaseInv, LeaseHolds, JobsOf, TargetOf

\* What a worker works on is not ready.
LEMMA BusyUnready ==
    ASSUME LeaseInv, OlderFailed, ReadyEarned, NEW w \in Workers, worker[w] # Idle
    PROVE  renditions[TargetOf(w)].status # "ready"
<1> SUFFICES ASSUME renditions[TargetOf(w)].status = "ready"
             PROVE  FALSE
  OBVIOUS
<1>1. TargetOf(w) \in Target /\ JobOf(w) \in JobsOf(TargetOf(w)) /\ jobs[JobOf(w)].status = "running"
  BY BusyRuns
<1>2. PICK j \in JobsOf(TargetOf(w)) : jobs[j].status = "succeeded"
  BY <1>1 DEF ReadyEarned
<1> QED
  BY <1>1, <1>2, OneUnfailed

\* Two workers work on two targets.
LEMMA TargetExclusive ==
    ASSUME LeaseInv, OlderFailed, NEW v \in Workers, NEW w \in Workers, v # w,
           worker[v] # Idle, worker[w] # Idle
    PROVE  TargetOf(v) # TargetOf(w)
<1>1. JobOf(v) # JobOf(w)
  BY DEF LeaseInv, ClaimExclusive
<1>2. /\ TargetOf(v) \in Target /\ JobOf(v) \in JobsOf(TargetOf(v)) /\ jobs[JobOf(v)].status = "running"
      /\ TargetOf(w) \in Target /\ JobOf(w) \in JobsOf(TargetOf(w)) /\ jobs[JobOf(w)].status = "running"
  BY BusyRuns
<1> QED
  BY <1>1, <1>2, OneUnfailed

\* A ready row does not change, nor does its object.
LEMMA ReadyStays ==
    ASSUME LeaseInv, OlderFailed, ReadyEarned, [Next]_vars,
           NEW t \in Target, renditions[t].status = "ready"
    PROVE  renditions'[t] = renditions[t] /\ objects'[t] = objects[t]
<1>t. TypeOK /\ HeldExists
  BY DEF LeaseInv
<1>1. \A w \in Workers : worker[w] # Idle => TargetOf(w) # t
  BY BusyUnready
<1>2. renditions'[t] = renditions[t]
  <2>1. ASSUME NEW u \in Target, MarkNotDerived(u)
        PROVE  renditions'[t] = renditions[t]
    BY <1>t, <2>1 DEF MarkNotDerived, NoRow, TypeOK
  <2>2. ASSUME NEW w \in Workers, FailedRenditionForCeiling(w) \/ CompleteCommit(w)
        PROVE  renditions'[t] = renditions[t]
    BY <1>t, <1>1, <2>2 DEF FailedRenditionForCeiling, CompleteCommit, At, TypeOK
  <2> QED
    BY <1>t, <2>1, <2>2, RowsStep
<1>3. objects'[t] = objects[t]
  <2>1. ASSUME NEW w \in Workers, Upload(w), objects' = [objects EXCEPT ![TargetOf(w)] = worker[w].bytes]
        PROVE  objects'[t] = objects[t]
    BY <1>t, <1>1, <2>1 DEF Upload, At, TypeOK
  <2> QED
    BY <1>t, <2>1, ObjectsStep
<1> QED
  BY <1>2, <1>3

\* A worker comes to its commit by uploading what it holds, and still holds it.
LEMMA UploadStage ==
    ASSUME TypeOK, HeldExists, [Next]_vars, NEW w \in Workers,
           worker'[w] # Idle, worker'[w].pc \in {"confirm", "commit"}
    PROVE  /\ worker[w] # Idle /\ JobOf(w)' = JobOf(w)
           /\ worker'[w].bytes = worker[w].bytes
           /\ Upload(w) \/ (worker[w].pc \in {"confirm", "commit"} /\ ~Upload(w))
<1>1. ~ClaimNextJob(w)
  BY DEF ClaimNextJob, TypeOK
<1>2. worker[w] # Idle /\ JobOf(w)' = JobOf(w)
  BY <1>1, HoldingSteps
<1>3. worker[w] \in Holding
  BY <1>2, BusyHolds
<1>4. CASE worker'[w] = worker[w]
  BY <1>2, <1>4 DEF Upload, At
<1>5. CASE worker'[w] # worker[w]
  <2>1. UNCHANGED worker \/ \E v \in Workers : Progress(v) \/ Abandon(v)
    BY DEF Next, vars, Api, Client, RequestRendition, FinalizeAuthored, FinalizeVideo,
           EnqueueLookup, EnqueueInsert, EnqueueRepoint, RequestFails, MarkNotDerived,
           CreateAuthoredUpload, PutAuthored, SweepStaged, Heartbeat, LeaseExpires
  <2>2. ASSUME NEW v \in Workers, Progress(v) \/ Abandon(v)
        PROVE  v = w
    BY <1>5, <2>2 DEF Progress, Abandon, ClaimNextJob, Pull, Probe,
           FailedRenditionForCeiling, CompleteJobNoRendition, Transcode, Upload,
           CompleteConfirm, CompleteCommit, StepFails, FailJobRead, FailJobWrite, Replied, Goto, TypeOK
  <2>3. ASSUME NEW pc, Goto(w, pc)
        PROVE  worker'[w].pc = pc /\ worker'[w].bytes = worker[w].bytes
    BY <1>3, <2>3 DEF Goto, TypeOK, Holding
  <2>4. ~(FailJobWrite(w) \/ Abandon(w))
    BY DEF FailJobWrite, Abandon, TypeOK
  <2>5. ~Pull(w)
    BY <1>3 DEF Pull, TypeOK, Holding
  <2>6. ~(Probe(w) \/ FailedRenditionForCeiling(w) \/ Transcode(w) \/ StepFails(w) \/ FailJobRead(w))
    BY <2>3 DEF Probe, FailedRenditionForCeiling, Transcode, StepFails, FailJobRead, Verdict
  <2>7. ~(CompleteJobNoRendition(w) \/ CompleteCommit(w))
    BY <2>3 DEF CompleteJobNoRendition, CompleteCommit, Replied, TypeOK
  <2>8. Upload(w) \/ CompleteConfirm(w)
    BY <1>1, <1>5, <2>1, <2>2, <2>4, <2>5, <2>6, <2>7 DEF Progress
  <2> QED
    BY <1>2, <2>3, <2>8 DEF Upload, CompleteConfirm, At
<1> QED
  BY <1>4, <1>5

\* No one else uploads to its target meanwhile.
LEMMA UploadStandsStep ==
    ASSUME LeaseInv, OlderFailed, UploadStands, [Next]_vars
    PROVE  UploadStands'
<1>t. TypeOK /\ HeldExists
  BY DEF LeaseInv
<1> SUFFICES ASSUME NEW w \in Workers, worker'[w] # Idle, worker'[w].pc \in {"confirm", "commit"}
             PROVE  objects'[TargetOf(w)'] = worker'[w].bytes
  BY DEF UploadStands
<1>1. /\ worker[w] # Idle /\ JobOf(w)' = JobOf(w) /\ worker'[w].bytes = worker[w].bytes
      /\ Upload(w) \/ (worker[w].pc \in {"confirm", "commit"} /\ ~Upload(w))
  BY <1>t, UploadStage
<1>2. TargetOf(w) \in Target /\ TargetOf(w)' = TargetOf(w)
  BY <1>t, <1>1, BusyTarget, JobsKeptStep DEF JobsKept, TargetOf
<1>3. CASE Upload(w)
  BY <1>t, <1>1, <1>2, <1>3 DEF Upload, TypeOK
<1>4. CASE worker[w].pc \in {"confirm", "commit"} /\ ~Upload(w)
  <2>1. objects[TargetOf(w)] = worker[w].bytes
    BY <1>1, <1>4 DEF UploadStands
  <2>2. ASSUME NEW v \in Workers, Upload(v), objects' = [objects EXCEPT ![TargetOf(v)] = worker[v].bytes]
        PROVE  objects'[TargetOf(w)] = objects[TargetOf(w)]
    <3>1. TargetOf(v) # TargetOf(w)
      BY <1>1, <1>4, <2>2, TargetExclusive DEF Upload, At
    <3> QED
      BY <1>t, <2>2, <3>1, <1>2 DEF TypeOK
  <2>3. objects'[TargetOf(w)] = objects[TargetOf(w)]
    BY <1>t, <2>2, ObjectsStep
  <2> QED
    BY <1>1, <1>2, <2>1, <2>3
<1> QED
  BY <1>1, <1>3, <1>4

\* The row is written over the object it was measured on.
LEMMA DescribesStep ==
    ASSUME LeaseInv, OlderFailed, ReadyEarned, UploadStands, ReadyDescribesObject, [Next]_vars
    PROVE  ReadyDescribesObject'
<1>t. TypeOK /\ HeldExists
  BY DEF LeaseInv
<1> SUFFICES ASSUME NEW t \in Target, renditions'[t].status = "ready"
             PROVE  objects'[t] = renditions'[t].of
  BY DEF ReadyDescribesObject
<1>1. CASE renditions[t].status = "ready"
  BY <1>1, ReadyStays DEF ReadyDescribesObject
<1>2. CASE renditions[t].status # "ready"
  <2>1. PICK w \in Workers : CompleteCommit(w) /\ TargetOf(w) = t
    BY <1>t, <1>2, BecomesReady
  <2>2. objects[t] = worker[w].bytes /\ objects' = objects
    BY <2>1 DEF CompleteCommit, At, UploadStands
  <2>3. renditions'[t].of = worker[w].bytes
    BY <1>t, <2>1 DEF CompleteCommit, TypeOK
  <2> QED
    BY <2>2, <2>3
<1> QED
  BY <1>1, <1>2

------------------------------------------------------------------------------
\* Theorems

\* What keeps the jobs of a target in a line, lost replies or not.
LineInv == ExclusiveInv /\ NoGap /\ OlderFailed /\ InsertClear

\* The line is kept: an insert adds to its end, behind failed jobs only.
LEMMA LineStep ==
    ASSUME "slow" \notin Faults, OneInsert, LineInv, [Next]_vars
    PROVE  LineInv'
<1>0. ExclusiveInv /\ TypeOK /\ HeldExists /\ NoGap /\ OlderFailed /\ InsertClear
  BY DEF LineInv, ExclusiveInv
<1> QED
  BY <1>0, ExclusiveStep, NoGapStep, OlderFailedStep, InsertClearStep DEF LineInv

\* "Idempotent per (asset, intent)", with no unique index behind it: two requests
\* of one target between lookup and insert are the only way to a second unfailed
\* job (while no lease expires under a live worker).  Without such an overlap a
\* target has one, whatever is requested, replayed, retried, abandoned or lost.
THEOREM DuplicatesNeedOverlap ==
    ASSUME "slow" \notin Faults
    PROVE  Spec /\ []OneInsert => []OneLiveJob
<1>1. Init => LineInv
  <2> SUFFICES ASSUME Init PROVE LineInv
    OBVIOUS
  <2>1. ExclusiveInv
    BY InitTypeOK DEF Init, ExclusiveInv, HeldExists, ClaimExclusive, LeaseHeld
  <2>2. NoGap /\ OlderFailed
    BY DEF Init, NoGap, OlderFailed, Exists, NoJob
  <2>3. InsertClear
    BY DEF Init, InsertClear
  <2> QED
    BY <2>1, <2>2, <2>3 DEF LineInv
<1>2. LineInv /\ OneInsert /\ [Next]_vars => LineInv'
  BY LineStep
<1>3. LineInv => OneLiveJob
  BY OneUnfailed DEF LineInv, OneLiveJob
<1> QED
  BY <1>1, <1>2, <1>3, PTL DEF Spec

\* The queue's invariant is inductive.
LEMMA QueueStep ==
    ASSUME Faults = {}, OneInsert, QueueInv, [Next]_vars
    PROVE  QueueInv'
<1>0. LeaseInv /\ NoGap /\ OlderFailed /\ InsertClear /\ ReadyEarned /\ UploadStands /\ ReadyDescribesObject
  BY DEF QueueInv
<1>1. LeaseInv'
  BY <1>0, LeaseStep
<1>2. NoGap' /\ OlderFailed' /\ InsertClear'
  BY <1>0, LeaseExcludes, NoGapStep, OlderFailedStep, InsertClearStep DEF LeaseInv
<1>3. ReadyEarned' /\ UploadStands' /\ ReadyDescribesObject'
  BY <1>0, ReadyEarnedStep, UploadStandsStep, DescribesStep
<1> QED
  BY <1>1, <1>2, <1>3 DEF QueueInv

\* While no lease expires under a live worker, no reply is lost and no two
\* requests insert for a target at once, it has one unfailed job, its newest.
THEOREM QueueInvariant ==
    ASSUME Faults = {}
    PROVE  Spec /\ []OneInsert => []QueueInv
<1>1. Init => QueueInv
  <2> SUFFICES ASSUME Init PROVE QueueInv
    OBVIOUS
  <2>1. LeaseInv
    BY InitTypeOK DEF Init, LeaseInv, HeldExists, ClaimExclusive, LeaseHolds
  <2>2. NoGap /\ OlderFailed
    BY DEF Init, NoGap, OlderFailed, Exists, NoJob
  <2>3. InsertClear /\ ReadyEarned /\ UploadStands /\ ReadyDescribesObject
    BY DEF Init, InsertClear, ReadyEarned, UploadStands, ReadyDescribesObject, NoRow
  <2> QED
    BY <2>1, <2>2, <2>3 DEF QueueInv
<1>2. QueueInv /\ OneInsert /\ [Next]_vars => QueueInv'
  BY QueueStep
<1> QED
  BY <1>1, <1>2, PTL DEF Spec

\* The dimensions a delivery answer gives are those of the bytes it serves.
THEOREM ReadyDescribes ==
    ASSUME Faults = {}
    PROVE  Spec /\ []OneInsert => []ReadyDescribesObject
<1>1. QueueInv => ReadyDescribesObject
  BY DEF QueueInv
<1> QED
  BY <1>1, QueueInvariant, PTL

\* A rendition that is ready stays as it is, whatever is requested, authored,
\* refused or replayed later.
THEOREM ReadyIsKept ==
    ASSUME Faults = {}
    PROVE  Spec /\ []OneInsert => ReadyKept
<1>1. ASSUME QueueInv, [Next]_vars, NEW t \in Target, renditions[t].status = "ready"
      PROVE  renditions'[t] = renditions[t]
  BY <1>1, ReadyStays DEF QueueInv
<1>2. QueueInv /\ [Next]_vars =>
        [\A t \in Target : renditions[t].status = "ready" => renditions'[t] = renditions[t]]_vars
  BY <1>1
<1> QED
  BY <1>2, QueueInvariant, PTL DEF Spec, ReadyKept

------------------------------------------------------------------------------
\* The refinement

\* What a rendition's row makes of a delivery request.
Told(status) == CASE status = "ready"       -> "served"
                  [] status = "failed"      -> "refused"
                  [] status = "not_derived" -> "not_derived"
                  [] status = "none"        -> "pending"

\* The delivery resolution of an A/V intent of a video comes down to that.
LEMMA AnswerOfStatus ==
    ASSUME NEW t \in Target, NEW status \in {"none", "ready", "failed", "not_derived"}
    PROVE  (LET resolution == Front!avResolution("video", t[2], status)
            IN  IF Front!IsUrl(resolution) THEN "served" ELSE resolution.reason) = Told(status)
<1>1. t[2] \in {"poster", "loop", "detail"}
  BY IntentsAssumption DEF Target
<1>2. Front!Resolve("video", t[2]) = Front!Url("r2", t[2], "raw")
  BY <1>1 DEF Front!Resolve, Front!RouteDelivery, Front!MeteredPairs, Front!RawPairs,
       Front!imageLadderIntents, Front!zoomIntents, Front!avIntents, Front!KnownMediaKinds
<1> QED
  BY <1>2 DEF Told, Front!avResolution, Front!IsUrl, Front!Url, Front!Refused

\* So the rendition's row decides what is answered, before and after a step.
LEMMA AnswerOfRow ==
    ASSUME NEW t \in Target
    PROVE  /\ TypeOK => Answered(t) = Told(renditions[t].status)
           /\ TypeOK' => Answered(t)' = Told(renditions'[t].status)
<1>1. TypeOK => Answered(t) = Told(renditions[t].status)
  BY AnswerOfStatus DEF TypeOK, Rendition, Answered
<1>2. TypeOK' => Answered(t)' = Told(renditions'[t].status)
  BY AnswerOfStatus DEF TypeOK, Rendition, Answered
<1> QED
  BY <1>1, <1>2

\* A step that moves no job into or out of the live statuses moves no work.
LEMMA LiveSame ==
    ASSUME JobsKept, NEW t \in Target,
           \A j \in JobIds : jobs'[j].status \in {"queued", "running"} <=> jobs[j].status \in {"queued", "running"}
    PROVE  Live(t)' = Live(t)
BY DEF JobsKept, Live, JobsOf, Exists

\* When a worker's job is settled, its target has no work left.
LEMMA WorkDone ==
    ASSUME QueueInv, JobsKept, NEW w \in Workers, worker[w] # Idle,
           \A j \in JobIds : j # JobOf(w) => jobs'[j] = jobs[j],
           jobs'[JobOf(w)].status \in {"succeeded", "failed"}
    PROVE  /\ TargetOf(w) \in Target
           /\ Live(TargetOf(w)) # {}
           /\ \A t \in Target : t = TargetOf(w) => Live(t)' = {}
           /\ \A t \in Target : t # TargetOf(w) => Live(t)' = Live(t)
<1>0. LeaseInv /\ OlderFailed
  BY DEF QueueInv
<1>1. /\ TargetOf(w) \in Target /\ JobOf(w) \in JobsOf(TargetOf(w)) /\ jobs[JobOf(w)].status = "running"
  BY <1>0, BusyRuns
<1>2. Live(TargetOf(w)) # {}
  BY <1>1 DEF Live
<1>3. ASSUME NEW t \in Target, t = TargetOf(w), NEW j \in JobIds, j \in Live(t)'
      PROVE  FALSE
  <2>1. jobs'[j].status \in {"queued", "running"} /\ j # JobOf(w) /\ jobs'[j] = jobs[j]
    BY <1>3 DEF Live
  <2>2. j \in JobsOf(t)
    BY <1>3, <2>1 DEF Live, JobsOf, Exists
  <2> QED
    BY <1>0, <1>1, <1>3, <2>1, <2>2, OneUnfailed
<1>4. ASSUME NEW t \in Target, t # TargetOf(w)
      PROVE  Live(t)' = Live(t)
  <2>1. JobOf(w) \in JobIds /\ Exists(JobOf(w)) /\ jobs'[JobOf(w)].target = TargetOf(w)
    BY <1>1 DEF JobsKept, JobsOf, TargetOf
  <2>2. JobOf(w) \notin Live(t) /\ JobOf(w) \notin Live(t)'
    BY <1>1, <1>4, <2>1 DEF Live, JobsOf, TargetOf
  <2>3. \A j \in JobIds : j # JobOf(w) => (j \in Live(t) <=> j \in Live(t)')
    BY DEF Live, JobsOf, Exists
  <2> QED
    BY <2>2, <2>3 DEF Live, JobsOf
<1> QED
  BY <1>1, <1>2, <1>3, <1>4 DEF Live, JobsOf

\* The steps by what they do to work and answers.
LEMMA StepKinds ==
    ASSUME TypeOK, HeldExists, [Next]_vars
    PROVE  \/ \E h \in Handlers : EnqueueInsert(h)
           \/ \E w \in Workers : CompleteCommit(w)
           \/ \E w \in Workers : /\ CompleteJobNoRendition(w) \/ (FailJobWrite(w) /\ worker[w].pc = "give_up")
                                 /\ UNCHANGED renditions
           \/ \E t \in Target : MarkNotDerived(t)
           \/ \E w \in Workers : FailedRenditionForCeiling(w)
           \/ /\ UNCHANGED renditions
              /\ \/ UNCHANGED jobs
                 \/ \E h \in Handlers : EnqueueRepoint(h)
                 \/ \E w \in Workers : \/ ClaimNextJob(w) \/ Heartbeat(w)
                                       \/ FailJobWrite(w) /\ worker[w].pc = "requeue"
                 \/ \E j \in JobIds : LeaseExpires(j)
<1>1. CASE UNCHANGED jobs
  BY <1>1, RowsStep
<1>2. ASSUME NEW w \in Workers, FailJobWrite(w)
      PROVE  worker[w].pc \in {"requeue", "give_up"}
  BY <1>2 DEF FailJobWrite
<1>3. \A h \in Handlers : EnqueueRepoint(h) => UNCHANGED renditions
  BY DEF EnqueueRepoint
<1>4. \A w \in Workers : ClaimNextJob(w) \/ CompleteJobNoRendition(w) \/ FailJobWrite(w) \/ Heartbeat(w)
                         => UNCHANGED renditions
  BY DEF ClaimNextJob, CompleteJobNoRendition, FailJobWrite, Heartbeat
<1>5. \A j \in JobIds : LeaseExpires(j) => UNCHANGED renditions
  BY DEF LeaseExpires
<1> QED
  BY <1>1, <1>2, <1>3, <1>4, <1>5, JobsStep

\* Requeueing, claiming and renewing a lease leave live jobs live.
LEMMA LiveKept ==
    ASSUME QueueInv, [Next]_vars, NEW t \in Target,
           \/ UNCHANGED jobs
           \/ \E h \in Handlers : EnqueueRepoint(h)
           \/ \E w \in Workers : \/ ClaimNextJob(w) \/ Heartbeat(w)
                                 \/ FailJobWrite(w) /\ worker[w].pc = "requeue"
           \/ \E j \in JobIds : LeaseExpires(j)
    PROVE  Live(t)' = Live(t)
<1>t. TypeOK /\ HeldExists /\ LeaseInv /\ JobsKept
  BY JobsKeptStep DEF QueueInv, LeaseInv
<1> DEFINE Moving(j) == jobs'[j].status \in {"queued", "running"} <=> jobs[j].status \in {"queued", "running"}
<1>1. ASSUME NEW h \in Handlers, EnqueueRepoint(h), NEW j \in JobIds
      PROVE  Moving(j)
  <2>1. jobs[j] \in Job \cup {NoJob}
    BY <1>t DEF TypeOK
  <2>2. [jobs[j] EXCEPT !.mode = "remux"].status = jobs[j].status
    BY <2>1 DEF Job, NoJob
  <2> QED
    BY <1>t, <1>1, <2>2 DEF EnqueueRepoint, TypeOK
<1>2. ASSUME NEW w \in Workers, ClaimNextJob(w), NEW j \in JobIds
      PROVE  Moving(j)
  <2>1. PICK k \in JobIds : Claimable(k) /\ jobs' = [jobs EXCEPT ![k] = Claimed(@)]
    BY <1>2 DEF ClaimNextJob
  <2>2. jobs[k] \in Job /\ jobs[k].status \in {"queued", "running"}
    BY <1>t, <2>1, PresentIsJob DEF Claimable
  <2>3. Claimed(jobs[k]).status = "running"
    BY <2>2, ClaimedJob
  <2> QED
    BY <1>t, <2>1, <2>2, <2>3 DEF TypeOK
<1>3. ASSUME NEW w \in Workers, Heartbeat(w) \/ (FailJobWrite(w) /\ worker[w].pc = "requeue"), NEW j \in JobIds
      PROVE  Moving(j)
  <2>1. worker[w] # Idle
    BY <1>3 DEF Heartbeat, FailJobWrite, At
  <2>2. JobOf(w) \in JobIds /\ jobs[JobOf(w)] \in Job /\ jobs[JobOf(w)].status = "running"
    BY <1>t, <2>1, BusyTarget, BusyRuns
  <2> QED
    BY <1>t, <1>3, <2>2 DEF Heartbeat, FailJobWrite, TypeOK, Job
<1>4. ASSUME NEW k \in JobIds, LeaseExpires(k), NEW j \in JobIds
      PROVE  Moving(j)
  BY <1>t, <1>4, PresentIsJob DEF LeaseExpires, TypeOK, Job
<1>5. CASE UNCHANGED jobs
  BY <1>5 DEF Live, JobsOf, Exists
<1> QED
  BY <1>t, <1>1, <1>2, <1>3, <1>4, <1>5, LiveSame

\* The abstract state, as the refinement reads it.
Owed    == [t \in Target |-> Live(t) # {}]
Answers == [t \in Target |-> Answered(t)]

\* Every step of the queue is a step of Derivation, or leaves work and answers
\* alone.
LEMMA StepImplements ==
    ASSUME QueueInv, [Next]_vars
    PROVE  [Derived!DerivationNext]_<<Owed, Answers>>
<1>t. /\ TypeOK /\ HeldExists /\ LeaseInv /\ JobsKept /\ TypeOK'
      /\ OlderFailed /\ InsertClear /\ ReadyEarned
  BY JobsKeptStep, TypeStep DEF QueueInv, LeaseInv
<1> DEFINE D == [Derived!DerivationNext]_<<Owed, Answers>>
<1>a. ASSUME NEW t \in Target, renditions'[t].status = renditions[t].status
      PROVE  Answered(t)' = Answered(t)
  BY <1>a DEF Answered
<1>b. ASSUME NEW w \in Workers, worker[w] # Idle
      PROVE  TargetOf(w) \in Target /\ Answered(TargetOf(w)) # "served"
  <2>1. TargetOf(w) \in Target /\ renditions[TargetOf(w)].status # "ready"
    BY <1>t, <1>b, BusyRuns, BusyUnready
  <2> QED
    BY <1>t, <2>1, AnswerOfRow DEF TypeOK, Rendition, Told
<1>1. ASSUME NEW h \in Handlers, EnqueueInsert(h)
      PROVE  D
  <2>1. PICK j \in JobIds :
           /\ ~Exists(j)
           /\ jobs' = [jobs EXCEPT ![j] =
                [status |-> "queued", target |-> handler[h].target,
                 mode |-> handler[h].mode, retries |-> 0, stale |-> FALSE]]
    BY <1>1 DEF EnqueueInsert
  <2>2. PICK t \in Target : t = handler[h].target
    BY <1>t, <1>1 DEF EnqueueInsert, TypeOK, Request
  <2>3. \A k \in JobsOf(t) : jobs[k].status = "failed"
    BY <1>t, <1>1, <2>2 DEF InsertClear, EnqueueInsert
  <2>4. Live(t) = {}
    BY <2>3 DEF Live
  <2>5. j \in Live(t)'
    BY <1>t, <2>1, <2>2 DEF Live, JobsOf, Exists, TypeOK
  <2>6. ASSUME NEW u \in Target, u # t
        PROVE  Live(u)' = Live(u)
    BY <1>t, <2>1, <2>2, <2>6 DEF Live, JobsOf, Exists, TypeOK
  <2>7. renditions[t].status # "ready"
    BY <1>t, <2>2, <2>3 DEF ReadyEarned
  <2>8. Answered(t) # "served"
    BY <1>t, <2>2, <2>7, AnswerOfRow DEF TypeOK, Rendition, Told
  <2>9. Answers' = Answers
    BY <1>1, <1>a DEF EnqueueInsert, Answers
  <2>10. Owed' = [Owed EXCEPT ![t] = TRUE]
    BY <2>2, <2>5, <2>6 DEF Owed
  <2>11. Derived!Ask(t)
    BY <2>2, <2>4, <2>8, <2>9, <2>10 DEF Derived!Ask, Owed, Answers
  <2> QED
    BY <2>2, <2>11 DEF Derived!DerivationNext
<1>2. ASSUME NEW w \in Workers, CompleteCommit(w)
      PROVE  D
  <2>1. worker[w] # Idle /\ TargetOf(w) \in Target /\ Answered(TargetOf(w)) # "served"
    BY <1>2, <1>b DEF CompleteCommit, At
  <2>2. /\ \A j \in JobIds : j # JobOf(w) => jobs'[j] = jobs[j]
        /\ jobs'[JobOf(w)].status = "succeeded"
    BY <1>t, <1>2, <2>1, BusyTarget DEF CompleteCommit, TypeOK
  <2>3. /\ Live(TargetOf(w)) # {}
        /\ \A t \in Target : t = TargetOf(w) => Live(t)' = {}
        /\ \A t \in Target : t # TargetOf(w) => Live(t)' = Live(t)
    BY <1>t, <2>1, <2>2, WorkDone
  <2>4. renditions'[TargetOf(w)].status = "ready" /\ \A t \in Target : t # TargetOf(w) => renditions'[t] = renditions[t]
    BY <1>t, <1>2, <2>1 DEF CompleteCommit, TypeOK
  <2>5. \A t \in Target : Answered(t)' = IF t = TargetOf(w) THEN "served" ELSE Answered(t)
    BY <1>t, <1>a, <2>4, AnswerOfRow DEF Told
  <2>6. Derived!Serve(TargetOf(w))
    BY <2>1, <2>3, <2>5 DEF Derived!Serve
  <2> QED
    BY <2>1, <2>6 DEF Derived!DerivationNext
<1>3. ASSUME NEW w \in Workers, UNCHANGED renditions,
             CompleteJobNoRendition(w) \/ (FailJobWrite(w) /\ worker[w].pc = "give_up")
      PROVE  D
  <2>1. worker[w] # Idle /\ TargetOf(w) \in Target /\ Answered(TargetOf(w)) # "served"
    BY <1>3, <1>b DEF CompleteJobNoRendition, FailJobWrite, At
  <2>2. JobOf(w) \in JobIds
    BY <1>t, <2>1, BusyTarget
  <2>3. /\ \A j \in JobIds : j # JobOf(w) => jobs'[j] = jobs[j]
        /\ jobs'[JobOf(w)].status \in {"succeeded", "failed"}
    <3>1. jobs[JobOf(w)] \in Job
      BY <1>t, <2>1, BusyTarget
    <3>2. CASE CompleteJobNoRendition(w)
      BY <1>t, <2>2, <3>1, <3>2 DEF CompleteJobNoRendition, TypeOK, Job
    <3>3. CASE FailJobWrite(w) /\ worker[w].pc = "give_up"
      BY <1>t, <2>2, <3>1, <3>3 DEF FailJobWrite, TypeOK, Job
    <3> QED
      BY <1>3, <3>2, <3>3
  <2>4. /\ Live(TargetOf(w)) # {}
        /\ \A t \in Target : t = TargetOf(w) => Live(t)' = {}
        /\ \A t \in Target : t # TargetOf(w) => Live(t)' = Live(t)
    BY <1>t, <2>1, <2>3, WorkDone
  <2>5. \A t \in Target : Answered(t)' = Answered(t)
    BY <1>3, <1>a
  <2>6. Derived!Close(TargetOf(w))
    BY <2>1, <2>4, <2>5 DEF Derived!Close
  <2> QED
    BY <2>1, <2>6 DEF Derived!DerivationNext
<1>4. ASSUME NEW t \in Target, MarkNotDerived(t)
      PROVE  D
  <2>1. \A u \in Target : Live(u)' = Live(u)
    BY <1>4 DEF MarkNotDerived, Live, JobsOf, Exists
  <2>2. CASE renditions[t] = NoRow
    <3>1. renditions'[t].status = "not_derived" /\ \A u \in Target : u # t => renditions'[u] = renditions[u]
      BY <1>t, <1>4, <2>2 DEF MarkNotDerived, TypeOK
    <3>2. Answered(t) = "pending"
      BY <1>t, <2>2, AnswerOfRow DEF NoRow, Told
    <3>3. \A u \in Target : Answered(u)' = IF u = t THEN "not_derived" ELSE Answered(u)
      BY <1>t, <1>a, <3>1, AnswerOfRow DEF Told
    <3>4. Derived!Decline(t)
      BY <2>1, <3>2, <3>3 DEF Derived!Decline
    <3> QED
      BY <3>4 DEF Derived!DerivationNext
  <2>3. CASE renditions[t] # NoRow
    <3>1. renditions' = renditions
      BY <1>t, <1>4, <2>3 DEF MarkNotDerived, TypeOK
    <3>2. Owed' = Owed /\ Answers' = Answers
      BY <1>a, <2>1, <3>1 DEF Owed, Answers
    <3> QED
      BY <3>2
  <2> QED
    BY <2>2, <2>3
<1>5. ASSUME NEW w \in Workers, FailedRenditionForCeiling(w)
      PROVE  D
  <2>1. worker[w] # Idle /\ TargetOf(w) \in Target /\ Answered(TargetOf(w)) # "served"
    BY <1>5, <1>b DEF FailedRenditionForCeiling, At
  <2>2. \A t \in Target : Live(t)' = Live(t)
    BY <1>5 DEF FailedRenditionForCeiling, Live, JobsOf, Exists
  <2>3. Live(TargetOf(w)) # {}
    BY <1>t, <2>1, BusyRuns DEF Live
  <2>4. renditions'[TargetOf(w)].status = "failed" /\ \A t \in Target : t # TargetOf(w) => renditions'[t] = renditions[t]
    BY <1>t, <1>5, <2>1 DEF FailedRenditionForCeiling, TypeOK
  <2>5. \A t \in Target : Answered(t)' = IF t = TargetOf(w) THEN "refused" ELSE Answered(t)
    BY <1>t, <1>a, <2>4, AnswerOfRow DEF Told
  <2>6. Derived!Refuse(TargetOf(w))
    BY <2>1, <2>2, <2>3, <2>5 DEF Derived!Refuse
  <2> QED
    BY <2>1, <2>6 DEF Derived!DerivationNext
<1>6. ASSUME UNCHANGED renditions,
             \A t \in Target : Live(t)' = Live(t)
      PROVE  D
  <2>1. Owed' = Owed /\ Answers' = Answers
    BY <1>6, <1>a DEF Owed, Answers
  <2> QED
    BY <2>1
<1> QED
  BY <1>t, <1>1, <1>2, <1>3, <1>4, <1>5, <1>6, StepKinds, LiveKept

\* The queue comes down to Derivation: a rendition is served in the step that
\* settles its work, no answer goes back, and what is served owes nothing.
THEOREM QueueImplements ==
    ASSUME Faults = {}
    PROVE  Spec /\ []OneInsert => ImplementsDerivation
<1>1. Init => Derived!DerivationInit
  <2> SUFFICES ASSUME Init PROVE Derived!DerivationInit
    OBVIOUS
  <2>1. TypeOK /\ \A t \in Target : renditions[t].status = "none" /\ Live(t) = {}
    BY InitTypeOK DEF Init, NoRow, NoJob, Live, JobsOf, Exists
  <2>2. \A t \in Target : Answered(t) = "pending"
    BY <2>1, AnswerOfRow DEF Told
  <2> QED
    BY <2>1, <2>2 DEF Derived!DerivationInit
<1>2. QueueInv /\ [Next]_vars => [Derived!DerivationNext]_<<Owed, Answers>>
  BY StepImplements
<1>3. [][Derived!DerivationNext]_<<Owed, Answers>> <=> [][Derived!DerivationNext]_(Derived!derivationVars)
  BY DEF Derived!derivationVars, Owed, Answers
<1> QED
  BY <1>1, <1>2, <1>3, QueueInvariant, PTL DEF Spec, ImplementsDerivation, Derived!DerivationSpec
=============================================================================
