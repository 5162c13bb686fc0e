--------------------------- MODULE JobQueue_proofs ---------------------------
(***************************************************************************)
(* Theorems about JobQueue, for every set of workers, requests, assets and *)
(* job rows and every bound.                                               *)
(***************************************************************************)
EXTENDS JobQueue, FiniteSetTheorems, TLAPS

USE JobIdsAssumption, BoundsAssumption

------------------------------------------------------------------------------
\* Lemmas about the records of the model

\* A row that is not absent is a job.
LEMMA PresentIsJob ==
    ASSUME TypeOK, NEW j \in JobIds, jobs[j].status # "absent"
    PROVE  jobs[j] \in Job
BY DEF TypeOK, NoJob

\* What the statements write over a job is a job.
LEMMA JobWrites ==
    ASSUME NEW r \in Job
    PROVE  /\ [r EXCEPT !.stale = TRUE] \in Job
           /\ [r EXCEPT !.stale = FALSE] \in Job
           /\ [r EXCEPT !.mode = "remux"] \in Job
           /\ [r EXCEPT !.status = "succeeded", !.stale = FALSE] \in Job
           /\ \A s \in {"queued", "failed"} : [r EXCEPT !.stale = FALSE, !.status = s] \in Job
BY DEF Job, JobStatus

\* A claim keeps the job's target, marks it running and counts one attempt.
LEMMA ClaimedJob ==
    ASSUME NEW r \in Job
    PROVE  /\ Claimed(r) \in Job
           /\ Claimed(r).retries \in Nat
           /\ Claimed(r).retries = r.retries + 1
           /\ Claimed(r).target = r.target
           /\ Claimed(r).status = "running"
           /\ Claimed(r).stale = FALSE
<1>1. ASSUME NEW n \in Nat
      PROVE  [r EXCEPT !.status = "running", !.stale = FALSE, !.retries = n] \in Job
  BY DEF Job, JobStatus
<1>2. r.retries + 1 \in Nat
  BY DEF Job
<1>3. Claimed(r) \in Job
  BY <1>1, <1>2 DEF Claimed
<1>4. Claimed(r).retries = r.retries + 1
  BY DEF Job, Claimed
<1>5. Claimed(r).target = r.target /\ Claimed(r).status = "running" /\ Claimed(r).stale = FALSE
  BY DEF Job, Claimed
<1> QED
  BY <1>2, <1>3, <1>4, <1>5

\* A worker that is not idle holds a job; past the download it holds bytes.
LEMMA BusyHolds ==
    ASSUME TypeOK, NEW w \in Workers, worker[w] # Idle
    PROVE  /\ worker[w] \in Holding
           /\ JobOf(w) \in JobIds
           /\ worker[w].pc \in Working \ {"pull"} => worker[w].bytes \in Bytes
BY DEF TypeOK, Holding, Working, Failing, JobOf

\* Moving a worker on to a later stage, or to failure, keeps its type.
LEMMA GotoType ==
    ASSUME TypeOK, NEW w \in Workers, worker[w] # Idle, NEW pc, Goto(w, pc),
           \/ pc \in Failing
           \/ pc \in Working \ {"pull"} /\ worker[w].pc \in Working \ {"pull"}
    PROVE  worker' \in [Workers -> Holding \cup {Idle}]
<1>1. worker[w] \in Holding
  BY BusyHolds
<1>2. CASE pc \in Failing
  <2>1. [worker[w] EXCEPT !.pc = pc] \in Holding
    BY <1>1, <1>2 DEF Holding
  <2> QED
    BY <2>1 DEF TypeOK, Goto
<1>3. CASE pc \in Working \ {"pull"} /\ worker[w].pc \in Working \ {"pull"}
  <2>1. worker[w].bytes \in Bytes
    BY <1>3, BusyHolds
  <2>2. [worker[w] EXCEPT !.pc = pc] \in Holding
    BY <1>1, <1>3, <2>1 DEF Holding
  <2> QED
    BY <2>2 DEF TypeOK, Goto
<1> QED
  BY <1>2, <1>3

\* What uploads and sweeps write over an authored record is one.
LEMMA AuthoredWrites ==
    ASSUME NEW r \in Authored
    PROVE  /\ [r EXCEPT !.ticket = TRUE] \in Authored
           /\ [r EXCEPT !.file = Nothing, !.accepted = FALSE] \in Authored
           /\ \A b \in BOOLEAN : [r EXCEPT !.accepted = b] \in Authored
           /\ r.puts < MaxPuts =>
                [r EXCEPT !.puts = r.puts + 1, !.file = r.puts + 1, !.accepted = FALSE] \in Authored
<1>1. ASSUME NEW n \in 0..MaxPuts, NEW f \in (Bytes \ {Vault}) \cup {Nothing}
      PROVE  [r EXCEPT !.puts = n, !.file = f, !.accepted = FALSE] \in Authored
  BY DEF Authored
<1>2. ASSUME r.puts < MaxPuts
      PROVE  [r EXCEPT !.puts = r.puts + 1, !.file = r.puts + 1, !.accepted = FALSE] \in Authored
  <2>1. r.puts + 1 \in 0..MaxPuts /\ r.puts + 1 \in 1..MaxPuts
    BY <1>2 DEF Authored
  <2>2. r.puts + 1 \in (Bytes \ {Vault}) \cup {Nothing}
    BY <2>1 DEF Bytes, Vault
  <2> QED
    BY <1>1, <2>1, <2>2
<1>3. [r EXCEPT !.file = Nothing, !.accepted = FALSE] \in Authored
  BY DEF Authored
<1>4. [r EXCEPT !.ticket = TRUE] \in Authored /\ \A b \in BOOLEAN : [r EXCEPT !.accepted = b] \in Authored
  BY DEF Authored
<1> QED
  BY <1>2, <1>3, <1>4

------------------------------------------------------------------------------
\* Types

\* The tables are empty and the goroutines idle at the start.
LEMMA InitTypeOK == Init => TypeOK
BY DEF Init, TypeOK, Rendition, NoRow, Authored, Bytes, Nothing, Vault, Target

\* A worker's job is a row of the jobs table, and stays one.
HeldExists == \A w \in Workers : worker[w] # Idle => Exists(JobOf(w))

\* Requests keep the types: enqueueing writes jobs and authored only.
LEMMA ApiTypeOK ==
    ASSUME TypeOK, NEW h \in Handlers, Api(h)
    PROVE  TypeOK'
<1>1. ASSUME NEW t \in Target, RequestRendition(h, t) PROVE TypeOK'
  BY <1>1 DEF TypeOK, RequestRendition, Accept, Request
<1>2. ASSUME NEW t \in Target, FinalizeAuthored(h, t) PROVE TypeOK'
  BY <1>2 DEF TypeOK, FinalizeAuthored, Accept, Request
<1>3. ASSUME NEW a \in Assets, FinalizeVideo(h, a) PROVE TypeOK'
  BY <1>3 DEF TypeOK, FinalizeVideo, Accept, Request, Target
<1>4. CASE EnqueueLookup(h)
  BY <1>4 DEF TypeOK, EnqueueLookup, Return, Request, LiveJob, JobsOf
<1>5. CASE EnqueueInsert(h) \/ EnqueueRepoint(h)
  <2>1. handler[h] \in Request
    BY <1>5 DEF EnqueueInsert, EnqueueRepoint, TypeOK
  <2>2. authored' \in [Target -> Authored]
    <3>1. authored[handler[h].target] \in Authored
      BY <2>1 DEF TypeOK, Request
    <3>2. Acknowledge(h)
      BY <1>5 DEF EnqueueInsert, EnqueueRepoint
    <3> QED
      BY <3>1, <3>2, AuthoredWrites DEF TypeOK, Acknowledge
  <2>3. jobs' \in [JobIds -> Job \cup {NoJob}]
    <3>1. CASE EnqueueInsert(h)
      BY <3>1, <2>1 DEF TypeOK, EnqueueInsert, Request, Job, JobStatus
    <3>2. CASE EnqueueRepoint(h)
      <4>1. CASE handler[h].prior \in JobIds /\ jobs[handler[h].prior] \in Job
        BY <3>2, <4>1, JobWrites DEF TypeOK, EnqueueRepoint
      <4>2. CASE handler[h].prior \notin JobIds
        BY <3>2, <4>2 DEF TypeOK, EnqueueRepoint
      <4>3. CASE handler[h].prior \in JobIds /\ jobs[handler[h].prior] = NoJob
        <5>1. [NoJob EXCEPT !.mode = "remux"] = NoJob
          BY DEF NoJob
        <5> QED
          BY <3>2, <4>3, <5>1 DEF TypeOK, EnqueueRepoint
      <4> QED
        BY <4>1, <4>2, <4>3 DEF TypeOK
    <3> QED
      BY <1>5, <3>1, <3>2
  <2> QED
    BY <1>5, <2>2, <2>3 DEF TypeOK, EnqueueInsert, EnqueueRepoint, Return
<1>6. CASE RequestFails(h)
  BY <1>6 DEF TypeOK, RequestFails, Return
<1> QED
  BY <1>1, <1>2, <1>3, <1>4, <1>5, <1>6 DEF Api

\* Client calls keep the types.
LEMMA ClientTypeOK ==
    ASSUME TypeOK, NEW t \in Target, Client(t)
    PROVE  TypeOK'
<1>1. CASE MarkNotDerived(t)
  BY <1>1 DEF TypeOK, MarkNotDerived, Rendition, NoRow
<1>2. CASE CreateAuthoredUpload(t) \/ PutAuthored(t) \/ SweepStaged(t)
  <2>1. authored[t] \in Authored
    BY DEF TypeOK
  <2>2. authored' \in [Target -> Authored]
    <3>1. CASE CreateAuthoredUpload(t)
      BY <3>1, <2>1, AuthoredWrites DEF TypeOK, CreateAuthoredUpload
    <3>2. CASE PutAuthored(t)
      BY <3>2, <2>1, AuthoredWrites DEF TypeOK, PutAuthored
    <3>3. CASE SweepStaged(t)
      BY <3>3, <2>1, AuthoredWrites DEF TypeOK, SweepStaged
    <3> QED
      BY <1>2, <3>1, <3>2, <3>3
  <2> QED
    BY <1>2, <2>2 DEF TypeOK, CreateAuthoredUpload, PutAuthored, SweepStaged
<1> QED
  BY <1>1, <1>2 DEF Client

\* The steps of a worker keep the types.
LEMMA WorkerTypeOK ==
    ASSUME TypeOK, HeldExists, NEW w \in Workers, Progress(w) \/ Heartbeat(w) \/ Abandon(w)
    PROVE  TypeOK'
<1> USE DEF At
<1>0. ASSUME worker[w] # Idle
      PROVE  /\ worker[w] \in Holding
             /\ JobOf(w) \in JobIds
             /\ jobs[JobOf(w)] \in Job
             /\ TargetOf(w) \in Target
  <2>1. worker[w] \in Holding /\ JobOf(w) \in JobIds
    BY <1>0, BusyHolds
  <2>2. jobs[JobOf(w)] \in Job
    BY <1>0, <2>1, PresentIsJob DEF HeldExists, Exists
  <2> QED
    BY <2>1, <2>2 DEF Job, TargetOf
<1>1. CASE ClaimNextJob(w)
  <2>1. PICK j \in JobIds :
           /\ Claimable(j)
           /\ jobs' = [jobs EXCEPT ![j] = Claimed(@)]
           /\ worker' = [worker EXCEPT ![w] =
                           [pc |-> "pull", job |-> j, attempt |-> Claimed(jobs[j]).retries,
                            mode |-> jobs[j].mode, bytes |-> Nothing]]
           /\ reclaims' = [reclaims EXCEPT ![j] = IF jobs[j].stale THEN @ + 1 ELSE @]
    BY <1>1 DEF ClaimNextJob
  <2>2. jobs[j] \in Job
    BY <2>1, PresentIsJob DEF Claimable
  <2>3. jobs' \in [JobIds -> Job \cup {NoJob}]
    BY <2>1, <2>2, ClaimedJob DEF TypeOK
  <2>4. worker' \in [Workers -> Holding \cup {Idle}]
    BY <2>1, <2>2, ClaimedJob DEF TypeOK, Holding, Job
  <2>5. reclaims' \in [JobIds -> Nat]
    BY <2>1 DEF TypeOK
  <2> QED
    BY <1>1, <2>3, <2>4, <2>5 DEF TypeOK, ClaimNextJob
<1>2. CASE Pull(w)
  <2>1. (IF Derives(w) THEN Vault ELSE authored[TargetOf(w)].file) \in Bytes
    BY <1>0, <1>2 DEF Pull, TypeOK, Authored, Bytes
  <2>2. ASSUME NEW b \in Bytes PROVE [worker[w] EXCEPT !.pc = "probe", !.bytes = b] \in Holding
    BY <1>0, <1>2 DEF Pull, Holding, Working
  <2> QED
    BY <1>2, <2>1, <2>2 DEF TypeOK, Pull
<1>3. CASE Probe(w)
  <2>1. worker' \in [Workers -> Holding \cup {Idle}]
    BY <1>3, GotoType DEF Probe, Working, Failing
  <2>2. TargetOf(w)[1] \in Assets
    BY <1>0, <1>3 DEF Probe, Target
  <2>3. probe' \in [Assets -> {"pending", "ready", "failed"}]
    BY <1>3, <2>2 DEF Probe, TypeOK
  <2> QED
    BY <1>3, <2>1, <2>3 DEF TypeOK, Probe
<1>4. CASE FailedRenditionForCeiling(w)
  <2>1. worker' \in [Workers -> Holding \cup {Idle}]
    BY <1>4, GotoType DEF FailedRenditionForCeiling, Working
  <2>2. worker[w].bytes \in Bytes
    BY <1>4, BusyHolds DEF FailedRenditionForCeiling, Working
  <2> QED
    BY <1>0, <1>4, <2>1, <2>2 DEF TypeOK, FailedRenditionForCeiling, Rendition
<1>r. ASSUME Replied(w), worker[w] # Idle
      PROVE  worker' \in [Workers -> Holding \cup {Idle}]
  <2>1. CASE worker' = [worker EXCEPT ![w] = Idle]
    BY <2>1 DEF TypeOK
  <2>2. CASE Goto(w, "failing")
    BY <1>r, <2>2, GotoType DEF Failing
  <2> QED
    BY <1>r, <2>1, <2>2 DEF Replied
<1>5. CASE CompleteJobNoRendition(w)
  <2>1. worker' \in [Workers -> Holding \cup {Idle}]
    BY <1>5, <1>r DEF CompleteJobNoRendition, At
  <2>2. jobs' \in [JobIds -> Job \cup {NoJob}]
    BY <1>0, <1>5, JobWrites DEF TypeOK, CompleteJobNoRendition
  <2> QED
    BY <1>5, <2>1, <2>2 DEF TypeOK, CompleteJobNoRendition
<1>6. CASE Transcode(w) \/ CompleteConfirm(w) \/ StepFails(w) \/ FailJobRead(w)
  <2>1. worker' \in [Workers -> Holding \cup {Idle}]
    BY <1>6, GotoType DEF Transcode, CompleteConfirm, StepFails, FailJobRead, Verdict,
                          Working, Failing
  <2> QED
    BY <1>6, <2>1 DEF TypeOK, Transcode, CompleteConfirm, StepFails, FailJobRead
<1>7. CASE Upload(w)
  <2>1. worker' \in [Workers -> Holding \cup {Idle}]
    BY <1>7, GotoType DEF Upload, Working
  <2>2. worker[w].bytes \in Bytes
    BY <1>7, BusyHolds DEF Upload, Working
  <2> QED
    BY <1>7, <2>1, <2>2 DEF TypeOK, Upload
<1>8. CASE CompleteCommit(w)
  <2>1. worker' \in [Workers -> Holding \cup {Idle}]
    BY <1>8, <1>r DEF CompleteCommit, At
  <2>2. worker[w].bytes \in Bytes
    BY <1>8, BusyHolds DEF CompleteCommit, Working
  <2>3. renditions' \in [Target -> Rendition]
    BY <1>0, <1>8, <2>2 DEF TypeOK, CompleteCommit, Rendition
  <2>4. jobs' \in [JobIds -> Job \cup {NoJob}]
    BY <1>0, <1>8, JobWrites DEF TypeOK, CompleteCommit
  <2> QED
    BY <1>8, <2>1, <2>3, <2>4 DEF TypeOK, CompleteCommit
<1>9. CASE FailJobWrite(w)
  <2>1. jobs' \in [JobIds -> Job \cup {NoJob}]
    BY <1>0, <1>9, JobWrites DEF TypeOK, FailJobWrite
  <2> QED
    BY <1>9, <2>1 DEF TypeOK, FailJobWrite
<1>10. CASE Heartbeat(w)
  BY <1>0, <1>10, JobWrites DEF TypeOK, Heartbeat
<1>11. CASE Abandon(w)
  BY <1>11 DEF TypeOK, Abandon
<1> QED
  BY <1>1, <1>2, <1>3, <1>4, <1>5, <1>6, <1>7, <1>8, <1>9, <1>10, <1>11 DEF Progress

\* An expiring lease keeps the types.
LEMMA LeaseTypeOK ==
    ASSUME TypeOK, NEW j \in JobIds, LeaseExpires(j)
    PROVE  TypeOK'
<1>1. jobs[j] \in Job
  BY PresentIsJob DEF LeaseExpires
<1>2. jobs' \in [JobIds -> Job \cup {NoJob}]
  BY <1>1, JobWrites DEF TypeOK, LeaseExpires
<1> QED
  BY <1>2 DEF TypeOK, LeaseExpires

\* The statements that write the jobs table.
LEMMA JobsStep ==
    ASSUME [Next]_vars
    PROVE  \/ UNCHANGED jobs
           \/ \E h \in Handlers : EnqueueInsert(h) \/ EnqueueRepoint(h)
           \/ \E w \in Workers : \/ ClaimNextJob(w) \/ CompleteJobNoRendition(w)
                                 \/ CompleteCommit(w) \/ FailJobWrite(w) \/ Heartbeat(w)
           \/ \E k \in JobIds : LeaseExpires(k)
BY DEF Next, vars, Api, Client, Progress, RequestRendition, FinalizeAuthored, FinalizeVideo,
       EnqueueLookup, RequestFails, MarkNotDerived, CreateAuthoredUpload, PutAuthored, SweepStaged,
       Pull, Probe, FailedRenditionForCeiling, Transcode, Upload, CompleteConfirm, StepFails,
       FailJobRead, Abandon

\* No statement deletes a job row or changes what it is for.
JobsKept ==
    \A j \in JobIds : Exists(j) => Exists(j)' /\ jobs'[j].target = jobs[j].target

\* Every step keeps the types and the rows, and a claim takes an existing row.
LEMMA JobsKeptStep ==
    ASSUME TypeOK, HeldExists, [Next]_vars
    PROVE  JobsKept
<1> SUFFICES ASSUME NEW j \in JobIds, Exists(j)
             PROVE  Exists(j)' /\ jobs'[j].target = jobs[j].target
  BY DEF JobsKept
<1>1. jobs[j] \in Job
  BY PresentIsJob DEF Exists
<1>2. CASE UNCHANGED jobs
  BY <1>2 DEF Exists
<1>3. ASSUME NEW h \in Handlers, EnqueueInsert(h)
      PROVE  Exists(j)' /\ jobs'[j].target = jobs[j].target
  BY <1>3 DEF EnqueueInsert, Exists, TypeOK
<1>4. ASSUME NEW h \in Handlers, EnqueueRepoint(h)
      PROVE  Exists(j)' /\ jobs'[j].target = jobs[j].target
  BY <1>1, <1>4 DEF EnqueueRepoint, Exists, TypeOK, Job
<1>5. ASSUME NEW w \in Workers, ClaimNextJob(w)
      PROVE  Exists(j)' /\ jobs'[j].target = jobs[j].target
  <2>1. PICK k \in JobIds : jobs' = [jobs EXCEPT ![k] = Claimed(@)]
    BY <1>5 DEF ClaimNextJob
  <2>2. CASE k = j
    BY <1>1, <2>1, <2>2, ClaimedJob DEF Exists, TypeOK
  <2>3. CASE k # j
    BY <2>1, <2>3 DEF Exists, TypeOK
  <2> QED
    BY <2>2, <2>3
<1>6. ASSUME NEW w \in Workers,
             \/ CompleteJobNoRendition(w) \/ CompleteCommit(w) \/ FailJobWrite(w) \/ Heartbeat(w)
      PROVE  Exists(j)' /\ jobs'[j].target = jobs[j].target
  BY <1>1, <1>6 DEF CompleteJobNoRendition, CompleteCommit, FailJobWrite, Heartbeat, Exists, TypeOK, Job
<1>7. ASSUME NEW k \in JobIds, LeaseExpires(k)
      PROVE  Exists(j)' /\ jobs'[j].target = jobs[j].target
  BY <1>1, <1>7 DEF LeaseExpires, Exists, TypeOK, Job
<1> QED
  BY <1>2, <1>3, <1>4, <1>5, <1>6, <1>7, JobsStep

\* Only a claim gives a worker a job and an attempt; every other step leaves them
\* or drops them.
LEMMA HoldingSteps ==
    ASSUME TypeOK, [Next]_vars, NEW w \in Workers, worker'[w] # Idle
    PROVE  \/ worker[w] # Idle /\ JobOf(w)' = JobOf(w) /\ worker'[w].attempt = worker[w].attempt
           \/ ClaimNextJob(w)
<1>1. CASE UNCHANGED worker
  BY <1>1 DEF JobOf
<1>2. ASSUME NEW v \in Workers, Progress(v) \/ Abandon(v), v # w
      PROVE  worker'[w] = worker[w]
  BY <1>2 DEF Progress, Abandon, ClaimNextJob, Pull, Probe, FailedRenditionForCeiling,
         CompleteJobNoRendition, Transcode, Upload, CompleteConfirm, CompleteCommit, StepFails,
         FailJobRead, FailJobWrite, Replied, Goto, TypeOK
<1>3. CASE (Progress(w) \/ Abandon(w)) /\ ~ClaimNextJob(w)
  <2>1. worker[w] # Idle
    BY <1>3 DEF Progress, Abandon, Pull, Probe, FailedRenditionForCeiling,
         CompleteJobNoRendition, Transcode, Upload, CompleteConfirm, CompleteCommit, StepFails,
         FailJobRead, FailJobWrite, At
  <2>2. worker[w] \in Holding
    BY <2>1, BusyHolds
  <2>3. \/ worker' = [worker EXCEPT ![w] = Idle]
        \/ \E pc : Goto(w, pc)
        \/ \E b : worker' = [worker EXCEPT ![w].pc = "probe", ![w].bytes = b]
    BY <1>3 DEF Progress, Abandon, Pull, Probe, FailedRenditionForCeiling,
         CompleteJobNoRendition, Transcode, Upload, CompleteConfirm, CompleteCommit, StepFails,
         FailJobRead, FailJobWrite, Replied
  <2>4. CASE worker' = [worker EXCEPT ![w] = Idle]
    BY <2>4 DEF TypeOK
  <2>5. CASE \E pc : Goto(w, pc)
    BY <2>1, <2>2, <2>5 DEF TypeOK, Goto, JobOf, Holding
  <2>6. CASE \E b : worker' = [worker EXCEPT ![w].pc = "probe", ![w].bytes = b]
    BY <2>1, <2>2, <2>6 DEF TypeOK, JobOf, Holding
  <2> QED
    BY <2>3, <2>4, <2>5, <2>6
<1>4. UNCHANGED worker \/ \E v \in Workers : Progress(v) \/ Abandon(v)
  BY DEF Next, vars, Api, Client, RequestRendition, FinalizeAuthored, FinalizeVideo,
         EnqueueLookup, EnqueueInsert, EnqueueRepoint, RequestFails, MarkNotDerived,
         CreateAuthoredUpload, PutAuthored, SweepStaged, Heartbeat, LeaseExpires
<1> QED
  BY <1>1, <1>2, <1>3, <1>4 DEF JobOf

\* Types and HeldExists are one inductive invariant.
LEMMA TypeStep ==
    ASSUME TypeOK, HeldExists, [Next]_vars
    PROVE  TypeOK' /\ HeldExists'
<1>1. TypeOK'
  <2>1. CASE UNCHANGED vars
    BY <2>1 DEF vars, TypeOK
  <2> QED
    BY <2>1, ApiTypeOK, ClientTypeOK, WorkerTypeOK, LeaseTypeOK DEF Next
<1>2. ASSUME NEW w \in Workers, worker'[w] # Idle
      PROVE  Exists(JobOf(w))'
  <2>1. CASE worker[w] # Idle /\ JobOf(w)' = JobOf(w)
    <3>1. JobOf(w) \in JobIds /\ Exists(JobOf(w))
      BY <2>1, BusyHolds DEF HeldExists
    <3>2. \A j \in JobIds : Exists(j) => jobs'[j].status # "absent"
      BY JobsKeptStep DEF JobsKept, Exists
    <3> QED
      BY <2>1, <3>1, <3>2 DEF Exists
  <2>2. CASE ClaimNextJob(w)
    <3>1. PICK j \in JobIds : Claimable(j) /\ worker'[w].job = j
      BY <2>2 DEF ClaimNextJob, TypeOK
    <3>2. Exists(j)
      BY <3>1 DEF Claimable, Exists
    <3> QED
      BY <3>1, <3>2, JobsKeptStep DEF JobsKept, JobOf, Exists
  <2> QED
    BY <1>2, <2>1, <2>2, HoldingSteps
<1> QED
  BY <1>1, <1>2 DEF HeldExists

\* Every reachable state is well typed, and every busy worker's job is a row of
\* the table.
THEOREM TypeCorrect == Spec => [](TypeOK /\ HeldExists)
<1>1. Init => TypeOK /\ HeldExists
  BY InitTypeOK DEF Init, HeldExists
<1>2. TypeOK /\ HeldExists /\ [Next]_vars => TypeOK' /\ HeldExists'
  BY TypeStep
<1> QED
  BY <1>1, <1>2, PTL DEF Spec

------------------------------------------------------------------------------
\* What is delivered

\* What a worker at a given stage has made sure of: the object before it
\* records a rendition, the row before it closes a refused job, and the ceiling
\* before it works on the bytes it holds.
Secured(w) ==
    worker[w] # Idle =>
        /\ worker[w].pc \in {"confirm", "commit"} => objects[TargetOf(w)] # Nothing
        /\ worker[w].pc = "close" => renditions[TargetOf(w)].status \in {"ready", "failed"}
        /\ worker[w].pc \in {"transcode", "upload"} => ~Breaches(w)

\* The inductive invariant behind the delivery properties.
DeliveryInv ==
    /\ TypeOK /\ HeldExists
    /\ ReadyHasObject /\ SucceededRecorded /\ UnfitNeverDelivered
    /\ \A w \in Workers : Secured(w)

\* The bytes of an object are never the mark for no object.
LEMMA BytesExist == Nothing \notin Bytes
BY DEF Nothing, Bytes, Vault

\* Only an upload writes a delivery object, and it writes bytes.
LEMMA ObjectsStep ==
    ASSUME TypeOK, HeldExists, [Next]_vars
    PROVE  \/ UNCHANGED objects
           \/ \E w \in Workers :
                 /\ Upload(w)
                 /\ TargetOf(w) \in Target /\ worker[w].bytes \in Bytes
                 /\ objects' = [objects EXCEPT ![TargetOf(w)] = worker[w].bytes]
<1>1. UNCHANGED objects \/ \E w \in Workers : Upload(w)
  BY DEF Next, vars, Api, Client, Progress, RequestRendition, FinalizeAuthored, FinalizeVideo,
         EnqueueLookup, EnqueueInsert, EnqueueRepoint, RequestFails, MarkNotDerived,
         CreateAuthoredUpload, PutAuthored, SweepStaged, ClaimNextJob, Pull, Probe,
         FailedRenditionForCeiling, CompleteJobNoRendition, Transcode, CompleteConfirm,
         CompleteCommit, StepFails, FailJobRead, FailJobWrite, Heartbeat, Abandon, LeaseExpires
<1>2. ASSUME NEW w \in Workers, Upload(w)
      PROVE  /\ TargetOf(w) \in Target /\ worker[w].bytes \in Bytes
             /\ objects' = [objects EXCEPT ![TargetOf(w)] = worker[w].bytes]
  <2>1. worker[w] # Idle /\ worker[w].pc = "upload"
    BY <1>2 DEF Upload, At
  <2>2. worker[w].bytes \in Bytes /\ JobOf(w) \in JobIds /\ Exists(JobOf(w))
    BY <2>1, BusyHolds DEF Working, HeldExists
  <2>3. jobs[JobOf(w)] \in Job
    BY <2>2, PresentIsJob DEF Exists
  <2> QED
    BY <1>2, <2>2, <2>3 DEF Job, TargetOf, Upload
<1> QED
  BY <1>1, <1>2

\* A target's key never loses its object.
LEMMA ObjectsKept ==
    ASSUME TypeOK, HeldExists, [Next]_vars, NEW t \in Target, objects[t] # Nothing
    PROVE  objects'[t] # Nothing
BY ObjectsStep, BytesExist DEF TypeOK

\* Only three statements write renditions: the refusal, the completion, and the
\* not_derived mark, which never covers a row.
LEMMA RowsStep ==
    ASSUME TypeOK, HeldExists, [Next]_vars
    PROVE  \/ UNCHANGED renditions
           \/ \E t \in Target : MarkNotDerived(t)
           \/ \E w \in Workers : FailedRenditionForCeiling(w) \/ CompleteCommit(w)
BY DEF Next, vars, Api, Client, Progress, RequestRendition, FinalizeAuthored, FinalizeVideo,
       EnqueueLookup, EnqueueInsert, EnqueueRepoint, RequestFails,
       CreateAuthoredUpload, PutAuthored, SweepStaged, ClaimNextJob, Pull, Probe,
       CompleteJobNoRendition, Transcode, Upload, CompleteConfirm,
       StepFails, FailJobRead, FailJobWrite, Heartbeat, Abandon, LeaseExpires

\* What a busy worker works on.
LEMMA BusyTarget ==
    ASSUME TypeOK, HeldExists, NEW w \in Workers, worker[w] # Idle
    PROVE  /\ JobOf(w) \in JobIds /\ Exists(JobOf(w))
           /\ jobs[JobOf(w)] \in Job /\ TargetOf(w) \in Target
<1>1. JobOf(w) \in JobIds /\ Exists(JobOf(w))
  BY BusyHolds DEF HeldExists
<1>2. jobs[JobOf(w)] \in Job
  BY <1>1, PresentIsJob DEF Exists
<1> QED
  BY <1>1, <1>2 DEF Job, TargetOf

\* A target whose verdict is recorded keeps one.
LEMMA RecordKept ==
    ASSUME TypeOK, HeldExists, [Next]_vars, NEW t \in Target,
           renditions[t].status \in {"ready", "failed"}
    PROVE  renditions'[t].status \in {"ready", "failed"}
<1>1. CASE UNCHANGED renditions
  BY <1>1
<1>2. ASSUME NEW u \in Target, MarkNotDerived(u)
      PROVE  renditions'[t].status \in {"ready", "failed"}
  BY <1>2 DEF MarkNotDerived, NoRow, TypeOK
<1>3. ASSUME NEW w \in Workers, FailedRenditionForCeiling(w) \/ CompleteCommit(w)
      PROVE  renditions'[t].status \in {"ready", "failed"}
  BY <1>3 DEF FailedRenditionForCeiling, CompleteCommit, TypeOK
<1> QED
  BY <1>1, <1>2, <1>3, RowsStep

\* A stage is reached only from the stage before it, which secured it.
LEMMA SecuredStep ==
    ASSUME DeliveryInv, [Next]_vars, NEW w \in Workers
    PROVE  Secured(w)'
<1> SUFFICES ASSUME worker'[w] # Idle
             PROVE  Secured(w)'
  BY DEF Secured
<1>t. TypeOK /\ HeldExists /\ Secured(w)
  BY DEF DeliveryInv
<1>1. CASE ClaimNextJob(w)
  BY <1>t, <1>1 DEF ClaimNextJob, Secured, TypeOK
<1>2. CASE ~ClaimNextJob(w)
  <2>1. worker[w] # Idle /\ JobOf(w)' = JobOf(w)
    BY <1>t, <1>2, HoldingSteps
  <2>2. /\ JobOf(w) \in JobIds /\ Exists(JobOf(w))
        /\ TargetOf(w) \in Target
    BY <1>t, <2>1, BusyTarget
  <2>3. TargetOf(w)' = TargetOf(w)
    BY <1>t, <2>1, <2>2, JobsKeptStep DEF JobsKept, TargetOf
  <2>4. CASE worker'[w] = worker[w]
    <3>1. worker[w].pc \in {"confirm", "commit"} => objects'[TargetOf(w)] # Nothing
      BY <1>t, <2>1, <2>2, ObjectsKept DEF Secured
    <3>2. worker[w].pc = "close" => renditions'[TargetOf(w)].status \in {"ready", "failed"}
      BY <1>t, <2>1, <2>2, RecordKept DEF Secured
    <3>3. Breaches(w)' = Breaches(w)
      BY <2>3, <2>4 DEF Breaches
    <3> QED
      BY <1>t, <2>1, <2>3, <2>4, <3>1, <3>2, <3>3 DEF Secured
  <2>5. CASE worker'[w] # worker[w]
    <3>1. worker[w] \in Holding
      BY <1>t, <2>1, BusyHolds
    <3>2. \/ Pull(w) \/ Probe(w) \/ FailedRenditionForCeiling(w) \/ Transcode(w) \/ Upload(w)
          \/ CompleteConfirm(w) \/ StepFails(w) \/ FailJobRead(w)
          \/ (CompleteJobNoRendition(w) \/ CompleteCommit(w)) /\ Goto(w, "failing")
      <4>1. UNCHANGED worker \/ \E v \in Workers : Progress(v) \/ Abandon(v)
        BY DEF Next, vars, Api, Client, RequestRendition, FinalizeAuthored, FinalizeVideo,
               EnqueueLookup, EnqueueInsert, EnqueueRepoint, RequestFails, MarkNotDerived,
               CreateAuthoredUpload, PutAuthored, SweepStaged, Heartbeat, LeaseExpires
      <4>2. ASSUME NEW v \in Workers, Progress(v) \/ Abandon(v)
            PROVE  v = w
        BY <1>t, <2>5, <4>2 DEF Progress, Abandon, ClaimNextJob, Pull, Probe,
               FailedRenditionForCeiling, CompleteJobNoRendition, Transcode, Upload,
               CompleteConfirm, CompleteCommit, StepFails, FailJobRead, FailJobWrite, Replied, Goto,
               TypeOK
      <4>3. ~FailJobWrite(w) /\ ~Abandon(w)
        BY <1>t DEF FailJobWrite, Abandon, TypeOK
      <4>4. CompleteJobNoRendition(w) \/ CompleteCommit(w) => Goto(w, "failing")
        BY <1>t DEF CompleteJobNoRendition, CompleteCommit, Replied, TypeOK
      <4> QED
        BY <1>2, <2>5, <4>1, <4>2, <4>3, <4>4 DEF Progress
    <3>3. ASSUME NEW pc, Goto(w, pc)
          PROVE  worker'[w] = [worker[w] EXCEPT !.pc = pc] /\ worker'[w].pc = pc
                 /\ worker'[w].bytes = worker[w].bytes
      BY <1>t, <3>1, <3>3 DEF Goto, TypeOK, Holding
    <3>4. CASE Pull(w)
      BY <1>t, <3>1, <3>4 DEF Pull, Secured, TypeOK, Holding
    <3>5. CASE Probe(w)
      <4>1. PICK pc \in {"transcode", "refuse", "failing"} :
               Goto(w, pc) /\ (pc = "transcode" => ~Breaches(w))
        BY <3>5 DEF Probe
      <4>2. worker'[w].pc = pc /\ worker'[w].bytes = worker[w].bytes
        BY <3>3, <4>1
      <4>3. Breaches(w)' = Breaches(w)
        BY <2>3, <4>2 DEF Breaches
      <4> QED
        BY <4>1, <4>2, <4>3 DEF Secured
    <3>6. CASE FailedRenditionForCeiling(w)
      <4>1. worker'[w].pc = "close"
        BY <3>3, <3>6 DEF FailedRenditionForCeiling
      <4>2. renditions'[TargetOf(w)].status = "failed"
        BY <1>t, <2>2, <3>6 DEF FailedRenditionForCeiling, TypeOK
      <4> QED
        BY <2>3, <4>1, <4>2 DEF Secured
    <3>7. CASE Transcode(w)
      <4>1. worker'[w].pc = "upload" /\ worker[w].pc = "transcode"
        BY <3>3, <3>7 DEF Transcode, At
      <4>2. Breaches(w)' = Breaches(w)
        BY <2>3, <3>3, <3>7 DEF Breaches, Transcode
      <4> QED
        BY <1>t, <2>1, <4>1, <4>2 DEF Secured
    <3>8. CASE Upload(w)
      <4>1. worker'[w].pc = "confirm"
        BY <3>3, <3>8 DEF Upload
      <4>2. worker[w].bytes \in Bytes
        BY <1>t, <2>1, <3>8, BusyHolds DEF Upload, At, Working
      <4>3. objects'[TargetOf(w)] # Nothing
        BY <1>t, <2>2, <3>8, <4>2, BytesExist DEF Upload, TypeOK
      <4> QED
        BY <2>3, <4>1, <4>3 DEF Secured
    <3>9. CASE CompleteConfirm(w)
      <4>1. worker'[w].pc \in {"commit", "failing"} /\ worker[w].pc = "confirm"
        BY <3>3, <3>9 DEF CompleteConfirm, At
      <4>2. objects'[TargetOf(w)] # Nothing
        BY <1>t, <2>1, <2>2, <4>1, ObjectsKept DEF Secured
      <4> QED
        BY <2>3, <4>1, <4>2 DEF Secured
    <3>10. CASE StepFails(w) \/ FailJobRead(w) \/ Goto(w, "failing")
      <4>1. worker'[w].pc \in Failing
        <5>1. \E pc \in Failing : Goto(w, pc)
          BY <3>10 DEF StepFails, FailJobRead, Verdict, Failing
        <5> QED
          BY <3>3, <5>1
      <4> QED
        BY <4>1 DEF Secured, Failing
    <3> QED
      BY <3>2, <3>4, <3>5, <3>6, <3>7, <3>8, <3>9, <3>10
  <2> QED
    BY <2>4, <2>5
<1> QED
  BY <1>1, <1>2

\* A row becomes ready in CompleteJob only, over the object the worker put.
LEMMA ReadyHasObjectStep ==
    ASSUME DeliveryInv, [Next]_vars
    PROVE  ReadyHasObject'
<1>t. TypeOK /\ HeldExists /\ ReadyHasObject
  BY DEF DeliveryInv
<1> SUFFICES ASSUME NEW t \in Target, renditions'[t].status = "ready"
             PROVE  objects'[t] # Nothing
  BY DEF ReadyHasObject
<1>1. CASE renditions[t].status = "ready"
  BY <1>t, <1>1, ObjectsKept DEF ReadyHasObject
<1>2. CASE renditions[t].status # "ready"
  <2>1. PICK w \in Workers : CompleteCommit(w) /\ TargetOf(w) = t
    <3>1. ~ \E u \in Target : MarkNotDerived(u)
      BY <1>t, <1>2 DEF MarkNotDerived, TypeOK
    <3>2. \A w \in Workers : ~FailedRenditionForCeiling(w)
      BY <1>t, <1>2 DEF FailedRenditionForCeiling, TypeOK
    <3>3. \A w \in Workers : CompleteCommit(w) => TargetOf(w) = t
      BY <1>t, <1>2 DEF CompleteCommit, TypeOK
    <3> QED
      BY <1>t, <1>2, <3>1, <3>2, <3>3, RowsStep
  <2>2. objects[t] # Nothing
    BY <2>1 DEF CompleteCommit, At, DeliveryInv, Secured
  <2> QED
    BY <1>t, <2>2, ObjectsKept
<1> QED
  BY <1>1, <1>2

\* A job becomes succeeded only after, or together with, its target's verdict,
\* and the verdict stays.
LEMMA SucceededRecordedStep ==
    ASSUME DeliveryInv, [Next]_vars
    PROVE  SucceededRecorded'
<1>t. TypeOK /\ HeldExists /\ SucceededRecorded /\ TypeOK'
  BY TypeStep DEF DeliveryInv
<1> SUFFICES ASSUME NEW j \in JobIds, jobs'[j].status = "succeeded"
             PROVE  renditions'[jobs'[j].target].status \in {"ready", "failed"}
  BY DEF SucceededRecorded
<1>1. CASE jobs[j].status = "succeeded"
  <2>1. Exists(j) /\ jobs[j] \in Job
    BY <1>t, <1>1, PresentIsJob DEF Exists
  <2>2. jobs'[j].target = jobs[j].target /\ jobs[j].target \in Target
    BY <1>t, <2>1, JobsKeptStep DEF JobsKept, Job
  <2> QED
    BY <1>t, <1>1, <2>2, RecordKept DEF SucceededRecorded
<1>2. CASE jobs[j].status # "succeeded"
  <2>1. PICK w \in Workers : /\ CompleteJobNoRendition(w) \/ CompleteCommit(w)
                             /\ JobOf(w) = j
    <3>1. ASSUME NEW h \in Handlers, EnqueueInsert(h) \/ EnqueueRepoint(h)
          PROVE  FALSE
      BY <1>t, <1>2, <3>1 DEF EnqueueInsert, EnqueueRepoint, TypeOK, Job, NoJob
    <3>2. ASSUME NEW w \in Workers, ClaimNextJob(w)
          PROVE  FALSE
      <4>1. PICK k \in JobIds : Claimable(k) /\ jobs' = [jobs EXCEPT ![k] = Claimed(@)]
        BY <3>2 DEF ClaimNextJob
      <4>2. Claimed(jobs[k]).status = "running"
        BY <1>t, <4>1, PresentIsJob, ClaimedJob DEF Claimable
      <4> QED
        BY <1>t, <1>2, <4>1, <4>2 DEF TypeOK
    <3>3. ASSUME NEW w \in Workers, FailJobWrite(w) \/ Heartbeat(w)
          PROVE  FALSE
      <4>1. jobs[JobOf(w)] \in Job
        BY <1>t, <3>3, BusyTarget DEF FailJobWrite, Heartbeat, At
      <4> QED
        BY <1>t, <1>2, <3>3, <4>1 DEF FailJobWrite, Heartbeat, TypeOK, Job
    <3>4. ASSUME NEW k \in JobIds, LeaseExpires(k)
          PROVE  FALSE
      BY <1>t, <1>2, <3>4, PresentIsJob DEF LeaseExpires, TypeOK, Job
    <3>5. ASSUME NEW w \in Workers, CompleteJobNoRendition(w) \/ CompleteCommit(w)
          PROVE  JobOf(w) = j
      BY <1>t, <1>2, <3>5 DEF CompleteJobNoRendition, CompleteCommit, TypeOK
    <3> QED
      BY <1>2, <3>1, <3>2, <3>3, <3>4, <3>5, JobsStep
  <2>2. worker[w] # Idle
    BY <2>1 DEF CompleteJobNoRendition, CompleteCommit, At
  <2>3. jobs'[j].target = TargetOf(w) /\ TargetOf(w) \in Target
    BY <1>t, <2>1, <2>2, BusyTarget, JobsKeptStep DEF JobsKept, TargetOf
  <2>4. renditions'[TargetOf(w)].status \in {"ready", "failed"}
    <3>1. CASE CompleteJobNoRendition(w)
      BY <1>t, <2>2, <2>3, <3>1, RecordKept DEF CompleteJobNoRendition, At, DeliveryInv, Secured
    <3>2. CASE CompleteCommit(w)
      BY <1>t, <2>3, <3>2 DEF CompleteCommit, TypeOK
    <3> QED
      BY <2>1, <3>1, <3>2
  <2> QED
    BY <2>3, <2>4
<1> QED
  BY <1>1, <1>2

\* Only an upload writes an object, and it writes what the probe let pass.
LEMMA UnfitStep ==
    ASSUME DeliveryInv, [Next]_vars
    PROVE  UnfitNeverDelivered'
<1>t. TypeOK /\ HeldExists /\ UnfitNeverDelivered
  BY DEF DeliveryInv
<1>1. CASE UNCHANGED objects
  BY <1>t, <1>1 DEF UnfitNeverDelivered
<1>2. ASSUME NEW w \in Workers, Upload(w),
             objects' = [objects EXCEPT ![TargetOf(w)] = worker[w].bytes]
      PROVE  UnfitNeverDelivered'
  <2>1. <<TargetOf(w), worker[w].bytes>> \notin Unfit
    BY <1>2 DEF Upload, At, DeliveryInv, Secured, Breaches
  <2> QED
    BY <1>t, <1>2, <2>1 DEF UnfitNeverDelivered, TypeOK
<1> QED
  BY <1>t, <1>1, <1>2, ObjectsStep

\* The delivery invariant is inductive.
THEOREM DeliveryInvariant == Spec => []DeliveryInv
<1>1. Init => DeliveryInv
  <2> SUFFICES ASSUME Init PROVE DeliveryInv
    OBVIOUS
  <2>1. TypeOK /\ HeldExists
    BY InitTypeOK DEF Init, HeldExists
  <2>2. ReadyHasObject /\ SucceededRecorded /\ \A w \in Workers : Secured(w)
    BY DEF Init, ReadyHasObject, SucceededRecorded, Secured, NoRow, NoJob
  <2>3. UnfitNeverDelivered
    BY UnfitAssumption, BytesExist DEF Init, UnfitNeverDelivered
  <2> QED
    BY <2>1, <2>2, <2>3 DEF DeliveryInv
<1>2. DeliveryInv /\ [Next]_vars => DeliveryInv'
  <2> SUFFICES ASSUME DeliveryInv, [Next]_vars PROVE DeliveryInv'
    OBVIOUS
  <2>1. TypeOK' /\ HeldExists'
    BY TypeStep DEF DeliveryInv
  <2>2. ReadyHasObject' /\ SucceededRecorded' /\ UnfitNeverDelivered'
    BY ReadyHasObjectStep, SucceededRecordedStep, UnfitStep
  <2>3. \A w \in Workers : Secured(w)'
    BY SecuredStep
  <2> QED
    BY <2>1, <2>2, <2>3 DEF DeliveryInv
<1> QED
  BY <1>1, <1>2, PTL DEF Spec

\* A rendition that is ready is backed by an object, whatever crashes, late
\* workers, lost replies and re-authored files do.
THEOREM ReadyIsBacked == Spec => []ReadyHasObject
<1>1. DeliveryInv => ReadyHasObject
  BY DEF DeliveryInv
<1> QED
  BY <1>1, DeliveryInvariant, PTL

\* No job succeeds without leaving its verdict on the rendition.
THEOREM SuccessIsRecorded == Spec => []SucceededRecorded
<1>1. DeliveryInv => SucceededRecorded
  BY DEF DeliveryInv
<1> QED
  BY <1>1, DeliveryInvariant, PTL

\* Bytes over a ceiling never reach a delivery key.
THEOREM NothingUnfitDelivered == Spec => []UnfitNeverDelivered
<1>1. DeliveryInv => UnfitNeverDelivered
  BY DEF DeliveryInv
<1> QED
  BY <1>1, DeliveryInvariant, PTL

------------------------------------------------------------------------------
\* Attempts

\* Attempts are only ever counted up.
LEMMA RetriesGrow ==
    ASSUME TypeOK, HeldExists, [Next]_vars, NEW j \in JobIds, Exists(j)
    PROVE  jobs[j].retries \in Nat /\ jobs'[j].retries \in Nat /\ jobs[j].retries <= jobs'[j].retries
<1>1. jobs[j] \in Job /\ jobs'[j] \in Job
  BY TypeStep, JobsKeptStep, PresentIsJob DEF Exists, JobsKept, TypeOK, NoJob
<1>2. jobs[j].retries \in Nat /\ jobs'[j].retries \in Nat
  BY <1>1 DEF Job
<1>3. CASE jobs'[j].retries = jobs[j].retries
  BY <1>2, <1>3
<1>4. ASSUME NEW w \in Workers, ClaimNextJob(w)
      PROVE  jobs[j].retries <= jobs'[j].retries
  <2>1. PICK k \in JobIds : jobs' = [jobs EXCEPT ![k] = Claimed(@)]
    BY <1>4 DEF ClaimNextJob
  <2>2. CASE k = j
    <3>1. jobs'[j] = Claimed(jobs[j])
      BY <2>1, <2>2 DEF TypeOK
    <3>2. jobs'[j].retries = jobs[j].retries + 1
      BY <1>1, <3>1, ClaimedJob
    <3> QED
      BY <1>2, <3>2
  <2>3. CASE k # j
    BY <1>2, <2>1, <2>3 DEF TypeOK
  <2> QED
    BY <2>2, <2>3
<1>5. ASSUME NEW h \in Handlers, EnqueueInsert(h) \/ EnqueueRepoint(h)
      PROVE  jobs'[j].retries = jobs[j].retries
  BY <1>1, <1>5 DEF EnqueueInsert, EnqueueRepoint, Exists, TypeOK, Job
<1>6. ASSUME NEW w \in Workers,
             \/ CompleteJobNoRendition(w) \/ CompleteCommit(w) \/ FailJobWrite(w) \/ Heartbeat(w)
      PROVE  jobs'[j].retries = jobs[j].retries
  BY <1>1, <1>6 DEF CompleteJobNoRendition, CompleteCommit, FailJobWrite, Heartbeat, TypeOK, Job
<1>7. ASSUME NEW k \in JobIds, LeaseExpires(k)
      PROVE  jobs'[j].retries = jobs[j].retries
  BY <1>1, <1>7 DEF LeaseExpires, TypeOK, Job
<1> QED
  BY <1>2, <1>3, <1>4, <1>5, <1>6, <1>7, JobsStep

\* A claim's attempt is the row's new count, above that of any worker still
\* busy with an earlier attempt of the same job.
LEMMA AttemptsStep ==
    ASSUME TypeOK, HeldExists, AttemptsDistinct, [Next]_vars
    PROVE  AttemptsDistinct'
<1>1. ASSUME NEW w \in Workers, worker'[w] # Idle, ~ClaimNextJob(w)
      PROVE  /\ worker[w] # Idle /\ JobOf(w)' = JobOf(w) /\ worker'[w].attempt = worker[w].attempt
             /\ JobOf(w) \in JobIds /\ worker[w].attempt \in Nat
             /\ jobs[JobOf(w)].retries \in Nat /\ jobs'[JobOf(w)].retries \in Nat
             /\ worker[w].attempt <= jobs[JobOf(w)].retries
             /\ jobs[JobOf(w)].retries <= jobs'[JobOf(w)].retries
  <2>1. worker[w] # Idle /\ JobOf(w)' = JobOf(w) /\ worker'[w].attempt = worker[w].attempt
    BY <1>1, HoldingSteps
  <2>2. worker[w] \in Holding /\ JobOf(w) \in JobIds /\ Exists(JobOf(w))
    BY <2>1, BusyHolds, BusyTarget
  <2>3. worker[w].attempt <= jobs[JobOf(w)].retries
    BY <2>1 DEF AttemptsDistinct
  <2>4. worker[w].attempt \in Nat
    BY <2>2 DEF Holding
  <2> QED
    BY <2>1, <2>2, <2>3, <2>4, RetriesGrow
<1>2. ASSUME NEW w \in Workers, ClaimNextJob(w)
      PROVE  /\ worker[w] = Idle /\ JobOf(w)' \in JobIds
             /\ worker'[w].attempt = jobs'[JobOf(w)'].retries
             /\ worker'[w].attempt = jobs[JobOf(w)'].retries + 1
             /\ jobs[JobOf(w)'].retries \in Nat
             /\ \A v \in Workers \ {w} : worker'[v] = worker[v]
  <2>1. PICK j \in JobIds :
           /\ Claimable(j)
           /\ jobs' = [jobs EXCEPT ![j] = Claimed(@)]
           /\ worker' = [worker EXCEPT ![w] =
                           [pc |-> "pull", job |-> j, attempt |-> Claimed(jobs[j]).retries,
                            mode |-> jobs[j].mode, bytes |-> Nothing]]
    BY <1>2 DEF ClaimNextJob
  <2>2. jobs[j] \in Job
    BY <2>1, PresentIsJob DEF Claimable
  <2>3. worker'[w].job = j /\ worker'[w].attempt = Claimed(jobs[j]).retries
    BY <2>1 DEF TypeOK
  <2>4. jobs'[j] = Claimed(jobs[j])
    BY <2>1 DEF TypeOK
  <2>5. jobs[j].retries \in Nat /\ Claimed(jobs[j]).retries = jobs[j].retries + 1
    BY <2>2, ClaimedJob DEF Job
  <2>6. \A v \in Workers \ {w} : worker'[v] = worker[v]
    BY <2>1 DEF TypeOK
  <2> QED
    BY <1>2, <2>3, <2>4, <2>5, <2>6 DEF ClaimNextJob, JobOf
<1>3. ASSUME NEW w \in Workers, worker'[w] # Idle
      PROVE  worker'[w].attempt <= jobs'[JobOf(w)'].retries
  <2>1. CASE ClaimNextJob(w)
    BY <1>2, <2>1
  <2>2. CASE ~ClaimNextJob(w)
    BY <1>1, <1>3, <2>2
  <2> QED
    BY <2>1, <2>2
<1>4. ASSUME NEW w \in Workers, NEW v \in Workers \ {w}, worker'[w] # Idle, worker'[v] # Idle,
             JobOf(v)' = JobOf(w)'
      PROVE  worker'[v].attempt # worker'[w].attempt
  <2>1. CASE ClaimNextJob(w)
    <3>1. worker'[v] = worker[v] /\ ~ClaimNextJob(v)
      BY <1>2, <1>4, <2>1
    <3>2. worker[v].attempt <= jobs[JobOf(w)'].retries /\ worker[v].attempt \in Nat
      BY <1>1, <1>4, <3>1
    <3>3. jobs[JobOf(w)'].retries \in Nat /\ worker'[w].attempt = jobs[JobOf(w)'].retries + 1
      BY <1>2, <2>1
    <3> QED
      BY <3>1, <3>2, <3>3
  <2>2. CASE ClaimNextJob(v)
    <3>1. worker'[w] = worker[w] /\ ~ClaimNextJob(w)
      BY <1>2, <1>4, <2>2
    <3>2. worker[w].attempt <= jobs[JobOf(v)'].retries /\ worker[w].attempt \in Nat
      BY <1>1, <1>4, <3>1
    <3>3. jobs[JobOf(v)'].retries \in Nat /\ worker'[v].attempt = jobs[JobOf(v)'].retries + 1
      BY <1>2, <2>2
    <3> QED
      BY <3>1, <3>2, <3>3
  <2>3. CASE ~ClaimNextJob(w) /\ ~ClaimNextJob(v)
    BY <1>1, <1>4, <2>3 DEF AttemptsDistinct
  <2> QED
    BY <2>1, <2>2, <2>3
<1> QED
  BY <1>3, <1>4 DEF AttemptsDistinct, JobOf

\* Two workers that hold the same job carry different attempts: an attempt
\* number would tell the late one apart, as a fencing token does.
THEOREM AttemptsAreDistinct == Spec => []AttemptsDistinct
<1>1. Init => AttemptsDistinct
  BY DEF Init, AttemptsDistinct
<1>2. TypeOK /\ HeldExists /\ AttemptsDistinct /\ [Next]_vars => AttemptsDistinct'
  BY AttemptsStep
<1> QED
  BY <1>1, <1>2, TypeCorrect, PTL DEF Spec

------------------------------------------------------------------------------
\* Exclusion, when the lease outlasts the work

\* A job in hand is nobody else's to claim: its lease is fresh, and it is running
\* unless a commit whose reply was lost has closed it.
LeaseHeld ==
    \A w \in Workers : worker[w] # Idle =>
        jobs[JobOf(w)].status \in {"running", "succeeded"} /\ ~jobs[JobOf(w)].stale

\* The inductive invariant behind exclusion.
ExclusiveInv == TypeOK /\ HeldExists /\ ClaimExclusive /\ LeaseHeld

\* A claim takes a job that nobody holds, and touches no other.
LEMMA ClaimTakes ==
    ASSUME ExclusiveInv, NEW w \in Workers, ClaimNextJob(w)
    PROVE  /\ worker[w] = Idle
           /\ \A v \in Workers \ {w} : worker'[v] = worker[v] /\ (worker[v] # Idle => JobOf(v) # JobOf(w)')
           /\ \A j \in JobIds : j # JobOf(w)' => jobs'[j] = jobs[j]
           /\ jobs'[JobOf(w)'].status = "running" /\ jobs'[JobOf(w)'].stale = FALSE
<1>t. TypeOK /\ HeldExists /\ LeaseHeld
  BY DEF ExclusiveInv
<1>1. PICK j \in JobIds :
         /\ Claimable(j)
         /\ jobs' = [jobs EXCEPT ![j] = Claimed(@)]
         /\ worker' = [worker EXCEPT ![w] =
                         [pc |-> "pull", job |-> j, attempt |-> Claimed(jobs[j]).retries,
                          mode |-> jobs[j].mode, bytes |-> Nothing]]
  BY DEF ClaimNextJob
<1>2. JobOf(w)' = j
  BY <1>t, <1>1 DEF JobOf, TypeOK
<1>3. jobs[j] \in Job
  BY <1>t, <1>1, PresentIsJob DEF Claimable
<1>4. jobs'[j].status = "running" /\ jobs'[j].stale = FALSE
  BY <1>t, <1>1, <1>3, ClaimedJob DEF TypeOK
<1>5. \A v \in Workers : worker[v] # Idle => JobOf(v) # j
  BY <1>t, <1>1 DEF LeaseHeld, Claimable
<1> QED
  BY <1>t, <1>1, <1>2, <1>4, <1>5 DEF TypeOK, ClaimNextJob

\* While it is in hand a job keeps its lease and its status, but for the commit
\* whose reply is lost.
LEMMA HeldStep ==
    ASSUME "slow" \notin Faults, ExclusiveInv, [Next]_vars,
           NEW w \in Workers, worker'[w] # Idle, ~ClaimNextJob(w)
    PROVE  /\ worker[w] # Idle /\ JobOf(w)' = JobOf(w)
           /\ ~jobs'[JobOf(w)].stale
           /\ \/ jobs'[JobOf(w)].status = jobs[JobOf(w)].status
              \/ "lost_ack" \in Faults /\ jobs'[JobOf(w)].status = "succeeded"
<1> DEFINE Kept == /\ ~jobs'[JobOf(w)].stale
                   /\ \/ jobs'[JobOf(w)].status = jobs[JobOf(w)].status
                      \/ "lost_ack" \in Faults /\ jobs'[JobOf(w)].status = "succeeded"
<1>t. TypeOK /\ HeldExists /\ ClaimExclusive /\ LeaseHeld
  BY DEF ExclusiveInv
<1>1. worker[w] # Idle /\ JobOf(w)' = JobOf(w)
  BY <1>t, HoldingSteps
<1>2. /\ JobOf(w) \in JobIds /\ Exists(JobOf(w)) /\ jobs[JobOf(w)] \in Job
      /\ jobs[JobOf(w)].status \in {"running", "succeeded"} /\ ~jobs[JobOf(w)].stale
  BY <1>t, <1>1, BusyTarget DEF LeaseHeld
<1>3. CASE UNCHANGED jobs
  BY <1>1, <1>2, <1>3
<1>4. ASSUME NEW h \in Handlers, EnqueueInsert(h) \/ EnqueueRepoint(h)
      PROVE  Kept
  BY <1>t, <1>2, <1>4 DEF EnqueueInsert, EnqueueRepoint, Exists, TypeOK, Job
<1>5. ASSUME NEW v \in Workers, ClaimNextJob(v)
      PROVE  Kept
  <2>1. v # w
    BY <1>5
  <2>2. JobOf(w) # JobOf(v)'
    BY <1>1, <1>5, <2>1, ClaimTakes
  <2>3. jobs'[JobOf(w)] = jobs[JobOf(w)]
    BY <1>2, <1>5, <2>2, ClaimTakes
  <2> QED
    BY <1>2, <2>3
<1>6. ASSUME NEW v \in Workers, FailJobWrite(v)
      PROVE  Kept
  <2>1. worker[v] # Idle /\ worker'[v] = Idle
    BY <1>t, <1>6 DEF FailJobWrite, TypeOK
  <2>2. JobOf(v) # JobOf(w)
    BY <1>t, <1>1, <2>1 DEF ClaimExclusive
  <2> QED
    BY <1>t, <1>2, <1>6, <2>2 DEF FailJobWrite, TypeOK
<1>7. ASSUME NEW v \in Workers, CompleteJobNoRendition(v) \/ CompleteCommit(v)
      PROVE  Kept
  <2>0. worker[v] # Idle /\ Replied(v)
    BY <1>7 DEF CompleteJobNoRendition, CompleteCommit, At
  <2>1. CASE JobOf(v) = JobOf(w)
    <3>1. v = w
      BY <1>t, <1>1, <2>0, <2>1 DEF ClaimExclusive
    <3>2. "lost_ack" \in Faults
      BY <1>t, <2>0, <3>1 DEF Replied, TypeOK
    <3> QED
      BY <1>t, <1>2, <1>7, <3>1, <3>2 DEF CompleteJobNoRendition, CompleteCommit, TypeOK, Job
  <2>2. CASE JobOf(v) # JobOf(w)
    BY <1>t, <1>2, <1>7, <2>2 DEF CompleteJobNoRendition, CompleteCommit, TypeOK
  <2> QED
    BY <2>1, <2>2
<1>8. ASSUME NEW v \in Workers, Heartbeat(v)
      PROVE  Kept
  BY <1>t, <1>2, <1>8 DEF Heartbeat, TypeOK, Job
<1>9. ASSUME NEW k \in JobIds, LeaseExpires(k)
      PROVE  Kept
  <2>1. k # JobOf(w)
    BY <1>1, <1>9 DEF LeaseExpires, Held, JobOf
  <2> QED
    BY <1>t, <1>2, <1>9, <2>1 DEF LeaseExpires, TypeOK
<1> QED
  BY <1>t, <1>1, <1>3, <1>4, <1>5, <1>6, <1>7, <1>8, <1>9, JobsStep

\* Only the worker that holds a job ends its run, and it lets go of it then.
LEMMA ExclusiveStep ==
    ASSUME "slow" \notin Faults, ExclusiveInv, [Next]_vars
    PROVE  ExclusiveInv'
<1>t. TypeOK /\ HeldExists /\ ClaimExclusive /\ LeaseHeld /\ TypeOK' /\ HeldExists'
  BY TypeStep DEF ExclusiveInv
<1>1. ClaimExclusive'
  <2> SUFFICES ASSUME NEW v \in Workers, NEW w \in Workers, v # w, worker'[v] # Idle, worker'[w] # Idle
               PROVE  JobOf(v)' # JobOf(w)'
    BY DEF ClaimExclusive
  <2>1. CASE ClaimNextJob(w)
    BY <2>1, ClaimTakes DEF JobOf
  <2>2. CASE ClaimNextJob(v)
    BY <2>2, ClaimTakes DEF JobOf
  <2>3. CASE ~ClaimNextJob(w) /\ ~ClaimNextJob(v)
    <3>1. worker[w] # Idle /\ JobOf(w)' = JobOf(w) /\ worker[v] # Idle /\ JobOf(v)' = JobOf(v)
      BY <1>t, <2>3, HoldingSteps
    <3> QED
      BY <1>t, <3>1 DEF ClaimExclusive
  <2> QED
    BY <2>1, <2>2, <2>3
<1>2. LeaseHeld'
  <2> SUFFICES ASSUME NEW w \in Workers, worker'[w] # Idle
               PROVE  jobs'[JobOf(w)'].status \in {"running", "succeeded"} /\ ~jobs'[JobOf(w)'].stale
    BY DEF LeaseHeld
  <2>1. CASE ClaimNextJob(w)
    BY <2>1, ClaimTakes
  <2>2. CASE ~ClaimNextJob(w)
    BY <1>t, <2>2, HeldStep DEF LeaseHeld
  <2> QED
    BY <2>1, <2>2
<1> QED
  BY <1>t, <1>1, <1>2 DEF ExclusiveInv

\* The invariant of exclusion holds from the start.
LEMMA ExclusiveInvariant ==
    ASSUME "slow" \notin Faults
    PROVE  Spec => []ExclusiveInv
<1>1. Init => ExclusiveInv
  BY InitTypeOK DEF Init, ExclusiveInv, HeldExists, ClaimExclusive, LeaseHeld
<1>2. ExclusiveInv /\ [Next]_vars => ExclusiveInv'
  BY ExclusiveStep
<1> QED
  BY <1>1, <1>2, PTL DEF Spec

\* If no lease expires under a live worker, a job is in one worker's hands, be
\* commits acknowledged or not: the claim needs no lock beyond its own statement.
THEOREM ClaimsExclude ==
    ASSUME "slow" \notin Faults
    PROVE  Spec => []ClaimExclusive
<1>1. ExclusiveInv => ClaimExclusive
  BY DEF ExclusiveInv
<1> QED
  BY <1>1, ExclusiveInvariant, PTL

\* A job in hand is running under a fresh lease, when every commit is heard of.
LeaseHolds ==
    \A w \in Workers : worker[w] # Idle =>
        jobs[JobOf(w)].status = "running" /\ ~jobs[JobOf(w)].stale

\* The inductive invariant behind the finality of a succeeded job.
LeaseInv == TypeOK /\ HeldExists /\ ClaimExclusive /\ LeaseHolds

\* A running job in hand is in particular nobody else's to claim.
LEMMA LeaseExcludes ==
    ASSUME LeaseInv
    PROVE  ExclusiveInv
BY DEF LeaseInv, LeaseHolds, ExclusiveInv, LeaseHeld

\* Without faults a job is closed in the step that lets go of it.
LEMMA LeaseStep ==
    ASSUME Faults = {}, LeaseInv, [Next]_vars
    PROVE  LeaseInv'
<1>0. "slow" \notin Faults /\ "lost_ack" \notin Faults
  OBVIOUS
<1>e. ExclusiveInv /\ ExclusiveInv'
  BY <1>0, LeaseExcludes, ExclusiveStep
<1> SUFFICES ASSUME NEW w \in Workers, worker'[w] # Idle
             PROVE  jobs'[JobOf(w)'].status = "running" /\ ~jobs'[JobOf(w)'].stale
  BY <1>e DEF LeaseInv, LeaseHolds, ExclusiveInv
<1>1. CASE ClaimNextJob(w)
  BY <1>e, <1>1, ClaimTakes
<1>2. CASE ~ClaimNextJob(w)
  BY <1>0, <1>e, <1>2, HeldStep DEF LeaseInv, LeaseHolds
<1> QED
  BY <1>1, <1>2

\* The lease invariant holds from the start.
LEMMA LeaseInvariant ==
    ASSUME Faults = {}
    PROVE  Spec => []LeaseInv
<1>1. Init => LeaseInv
  BY InitTypeOK DEF Init, LeaseInv, HeldExists, ClaimExclusive, LeaseHolds
<1>2. LeaseInv /\ [Next]_vars => LeaseInv'
  BY LeaseStep
<1> QED
  BY <1>1, <1>2, PTL DEF Spec

\* If no reply is lost either, a succeeded job stays succeeded.
THEOREM SuccessIsFinal ==
    ASSUME Faults = {}
    PROVE  Spec => SucceededIsFinal
<1>1. ASSUME LeaseInv, [Next]_vars, NEW j \in JobIds, jobs[j].status = "succeeded"
      PROVE  jobs'[j].status = "succeeded"
  <2>t. TypeOK /\ HeldExists /\ LeaseHolds /\ Exists(j)
    BY <1>1 DEF LeaseInv, Exists
  <2>1. \A w \in Workers : worker[w] # Idle => JobOf(w) # j /\ JobOf(w) \in JobIds
    BY <1>1, <2>t, BusyHolds DEF LeaseHolds
  <2>2. CASE UNCHANGED jobs
    BY <1>1, <2>2
  <2>3. ASSUME NEW h \in Handlers, EnqueueInsert(h) \/ EnqueueRepoint(h)
        PROVE  jobs'[j].status = "succeeded"
    BY <1>1, <2>t, <2>3, PresentIsJob DEF EnqueueInsert, EnqueueRepoint, Exists, TypeOK, Job
  <2>4. ASSUME NEW w \in Workers, ClaimNextJob(w)
        PROVE  jobs'[j].status = "succeeded"
    BY <1>1, <2>t, <2>4 DEF ClaimNextJob, Claimable, TypeOK
  <2>5. ASSUME NEW w \in Workers,
               CompleteJobNoRendition(w) \/ CompleteCommit(w) \/ FailJobWrite(w) \/ Heartbeat(w)
        PROVE  jobs'[j].status = "succeeded"
    BY <1>1, <2>t, <2>1, <2>5 DEF CompleteJobNoRendition, CompleteCommit, FailJobWrite, Heartbeat,
         At, TypeOK
  <2>6. ASSUME NEW k \in JobIds, LeaseExpires(k)
        PROVE  jobs'[j].status = "succeeded"
    BY <1>1, <2>t, <2>6 DEF LeaseExpires, TypeOK
  <2> QED
    BY <1>1, <2>2, <2>3, <2>4, <2>5, <2>6, JobsStep
<1>2. LeaseInv /\ [Next]_vars =>
        [\A j \in JobIds : jobs[j].status = "succeeded" => jobs'[j].status = "succeeded"]_vars
  BY <1>1
<1> QED
  BY <1>2, LeaseInvariant, PTL DEF Spec, SucceededIsFinal

------------------------------------------------------------------------------
\* That a job's attempts are bounded, whatever faults show, for every finite set
\* of workers

\* The workers that hold a job, and those that are about to put it back.
Holders(j)   == {w \in Workers : worker[w] # Idle /\ JobOf(w) = j}
Requeuing(j) == {w \in Holders(j) : worker[w].pc = "requeue"}
Waiting(j)   == IF jobs[j].status = "queued" THEN 1 ELSE 0

\* A job is in more hands than one, or claimable while it is in one, only as
\* often as its lease was taken over.
Slots == \A j \in JobIds : Cardinality(Holders(j)) + Waiting(j) <= 1 + reclaims[j]

\* The attempts made, and those that are sure to follow.
Budget ==
    \A j \in JobIds : Exists(j) =>
        jobs[j].retries + Cardinality(Requeuing(j)) + Waiting(j) <= MaxAttempts + reclaims[j]

RetryInv == TypeOK /\ HeldExists /\ Slots /\ Budget

------------------------------------------------------------------------------
\* Counting

\* The counts are numbers, and a holder that is not requeuing leaves room.
LEMMA Counts ==
    ASSUME IsFiniteSet(Workers), NEW j
    PROVE  /\ IsFiniteSet(Holders(j)) /\ IsFiniteSet(Requeuing(j))
           /\ Cardinality(Holders(j)) \in Nat /\ Cardinality(Requeuing(j)) \in Nat
           /\ Waiting(j) \in {0, 1}
           /\ \A w \in Holders(j) \ Requeuing(j) :
                Cardinality(Requeuing(j)) + 1 <= Cardinality(Holders(j))
<1>1. IsFiniteSet(Holders(j)) /\ IsFiniteSet(Requeuing(j))
  <2>1. Holders(j) \in SUBSET Workers /\ Requeuing(j) \in SUBSET Workers
    BY DEF Holders, Requeuing
  <2> QED
    BY <2>1, FS_Subset
<1>2. ASSUME NEW w \in Holders(j) \ Requeuing(j)
      PROVE  Cardinality(Requeuing(j)) + 1 <= Cardinality(Holders(j))
  <2>1. Cardinality(Requeuing(j) \cup {w}) = Cardinality(Requeuing(j)) + 1
    BY <1>1, <1>2, FS_AddElement
  <2>2. Requeuing(j) \cup {w} \in SUBSET Holders(j)
    BY <1>2 DEF Requeuing
  <2> QED
    BY <1>1, <2>1, <2>2, FS_Subset
<1>3. Waiting(j) \in {0, 1}
  BY DEF Waiting
<1> QED
  BY <1>1, <1>2, <1>3, FS_CardinalityType

\* What a step does to workers and jobs.
LEMMA StepShapes ==
    ASSUME TypeOK, HeldExists, [Next]_vars
    PROVE  \/ /\ UNCHANGED <<worker, reclaims>>
              /\ \/ UNCHANGED jobs
                 \/ \E h \in Handlers : EnqueueInsert(h) \/ EnqueueRepoint(h)
                 \/ \E w \in Workers : Heartbeat(w)
                 \/ \E k \in JobIds : LeaseExpires(k)
           \/ \E w \in Workers : ClaimNextJob(w)
           \/ \E w \in Workers : FailJobRead(w)
           \/ \E w \in Workers :
                 /\ worker[w] # Idle /\ worker' = [worker EXCEPT ![w] = Idle] /\ UNCHANGED reclaims
                 /\ UNCHANGED jobs \/ CompleteJobNoRendition(w) \/ CompleteCommit(w) \/ FailJobWrite(w)
           \/ \E w \in Workers :
                 /\ worker[w] # Idle /\ worker[w].pc # "requeue" /\ UNCHANGED reclaims
                 /\ \/ \E pc : pc # "requeue" /\ Goto(w, pc)
                    \/ \E b : worker' = [worker EXCEPT ![w].pc = "probe", ![w].bytes = b]
                 /\ UNCHANGED jobs \/ CompleteJobNoRendition(w) \/ CompleteCommit(w)
<1>1. ASSUME NEW h \in Handlers, Api(h)
      PROVE  /\ UNCHANGED <<worker, reclaims>>
             /\ UNCHANGED jobs \/ EnqueueInsert(h) \/ EnqueueRepoint(h)
  BY <1>1 DEF Api, RequestRendition, FinalizeAuthored, FinalizeVideo, EnqueueLookup, EnqueueInsert,
         EnqueueRepoint, RequestFails
<1>2. ASSUME NEW t \in Target, Client(t)
      PROVE  UNCHANGED <<worker, reclaims, jobs>>
  BY <1>2 DEF Client, MarkNotDerived, CreateAuthoredUpload, PutAuthored, SweepStaged
<1>3. ASSUME NEW w \in Workers, FailJobWrite(w) \/ Abandon(w)
      PROVE  /\ worker[w] # Idle /\ worker' = [worker EXCEPT ![w] = Idle] /\ UNCHANGED reclaims
             /\ UNCHANGED jobs \/ FailJobWrite(w)
  BY <1>3 DEF FailJobWrite, Abandon
<1>4. ASSUME NEW w \in Workers,
             \/ Pull(w) \/ Probe(w) \/ FailedRenditionForCeiling(w) \/ Transcode(w) \/ Upload(w)
             \/ CompleteConfirm(w) \/ StepFails(w)
      PROVE  /\ worker[w] # Idle /\ worker[w].pc # "requeue" /\ UNCHANGED <<reclaims, jobs>>
             /\ \/ \E pc : pc # "requeue" /\ Goto(w, pc)
                \/ \E b : worker' = [worker EXCEPT ![w].pc = "probe", ![w].bytes = b]
  BY <1>4 DEF Pull, Probe, FailedRenditionForCeiling, Transcode, Upload, CompleteConfirm, StepFails,
         At, Working
<1>5. ASSUME NEW w \in Workers, CompleteJobNoRendition(w) \/ CompleteCommit(w)
      PROVE  /\ worker[w] # Idle /\ worker[w].pc # "requeue" /\ UNCHANGED reclaims
             /\ \/ worker' = [worker EXCEPT ![w] = Idle]
                \/ Goto(w, "failing")
  BY <1>5 DEF CompleteJobNoRendition, CompleteCommit, Replied, At
<1>6. ASSUME NEW w \in Workers, Heartbeat(w)
      PROVE  UNCHANGED <<worker, reclaims>>
  BY <1>6 DEF Heartbeat
<1>7. ASSUME NEW k \in JobIds, LeaseExpires(k)
      PROVE  UNCHANGED <<worker, reclaims>>
  BY <1>7 DEF LeaseExpires
<1>8. CASE UNCHANGED vars
  BY <1>8 DEF vars
<1> QED
  BY <1>1, <1>2, <1>3, <1>4, <1>5, <1>6, <1>7, <1>8 DEF Next, Progress

------------------------------------------------------------------------------
\* The steps

\* A step that moves no worker: a new row starts with one claim to come.
LEMMA StillStep ==
    ASSUME IsFiniteSet(Workers), RetryInv, UNCHANGED <<worker, reclaims>>, NEW j \in JobIds,
           \/ UNCHANGED jobs
           \/ \E h \in Handlers : EnqueueInsert(h) \/ EnqueueRepoint(h)
           \/ \E w \in Workers : Heartbeat(w)
           \/ \E k \in JobIds : LeaseExpires(k)
    PROVE  /\ Cardinality(Holders(j))' + Waiting(j)' <= 1 + reclaims'[j]
           /\ Exists(j)' => jobs'[j].retries + Cardinality(Requeuing(j))' + Waiting(j)'
                                <= MaxAttempts + reclaims'[j]
<1>t. TypeOK /\ HeldExists /\ Slots /\ Budget /\ reclaims[j] \in Nat
  BY DEF RetryInv, TypeOK
<1>1. Holders(j)' = Holders(j) /\ Requeuing(j)' = Requeuing(j) /\ reclaims'[j] = reclaims[j]
  BY DEF Holders, Requeuing, JobOf
<1>2. CASE ~Exists(j) /\ Exists(j)'
  <2>1. Holders(j) = {} /\ Requeuing(j) = {}
    BY <1>t, <1>2 DEF Holders, Requeuing, HeldExists
  <2>2. PICK h \in Handlers : EnqueueInsert(h)
    <3>1. ASSUME NEW h \in Handlers, EnqueueRepoint(h)
          PROVE  FALSE
      <4>1. CASE handler[h].prior = j
        BY <1>t, <1>2, <3>1, <4>1 DEF EnqueueRepoint, Exists, TypeOK, NoJob
      <4>2. CASE handler[h].prior # j
        BY <1>t, <1>2, <3>1, <4>2 DEF EnqueueRepoint, Exists, TypeOK
      <4> QED
        BY <4>1, <4>2
    <3>2. \A w \in Workers : ~Heartbeat(w)
      BY <1>t, <1>2, BusyTarget DEF Heartbeat, At, Exists, TypeOK
    <3>3. \A k \in JobIds : ~LeaseExpires(k)
      BY <1>t, <1>2 DEF LeaseExpires, Exists, TypeOK
    <3> QED
      BY <1>2, <3>1, <3>2, <3>3 DEF Exists
  <2>3. jobs'[j].status = "queued" /\ jobs'[j].retries = 0
    BY <1>t, <1>2, <2>2 DEF EnqueueInsert, Exists, TypeOK
  <2> QED
    BY <1>t, <1>1, <2>1, <2>3, FS_EmptySet DEF Waiting
<1>3. CASE Exists(j)
  <2>1. jobs[j] \in Job
    BY <1>t, <1>3, PresentIsJob DEF Exists
  <2>2. jobs'[j].status = jobs[j].status /\ jobs'[j].retries = jobs[j].retries
    <3>1. ASSUME NEW h \in Handlers, EnqueueInsert(h) \/ EnqueueRepoint(h)
          PROVE  jobs'[j].status = jobs[j].status /\ jobs'[j].retries = jobs[j].retries
      BY <1>t, <1>3, <2>1, <3>1 DEF EnqueueInsert, EnqueueRepoint, Exists, TypeOK, Job
    <3>2. ASSUME NEW w \in Workers, Heartbeat(w)
          PROVE  jobs'[j].status = jobs[j].status /\ jobs'[j].retries = jobs[j].retries
      BY <1>t, <2>1, <3>2 DEF Heartbeat, TypeOK, Job
    <3>3. ASSUME NEW k \in JobIds, LeaseExpires(k)
          PROVE  jobs'[j].status = jobs[j].status /\ jobs'[j].retries = jobs[j].retries
      BY <1>t, <2>1, <3>3 DEF LeaseExpires, TypeOK, Job
    <3> QED
      BY <3>1, <3>2, <3>3
  <2> QED
    BY <1>t, <1>1, <1>3, <2>2 DEF Slots, Budget, Waiting
<1>4. CASE ~Exists(j) /\ ~Exists(j)'
  <2>1. Waiting(j)' = 0 /\ Waiting(j) = 0
    BY <1>4 DEF Exists, Waiting
  <2> QED
    BY <1>t, <1>1, <1>4, <2>1 DEF Slots
<1> QED
  BY <1>2, <1>3, <1>4

\* A claim uses up the queued job's place, or a reclaim.
LEMMA ClaimStep ==
    ASSUME IsFiniteSet(Workers), RetryInv, NEW w \in Workers, ClaimNextJob(w), NEW j \in JobIds
    PROVE  /\ Cardinality(Holders(j))' + Waiting(j)' <= 1 + reclaims'[j]
           /\ Exists(j)' => jobs'[j].retries + Cardinality(Requeuing(j))' + Waiting(j)'
                                <= MaxAttempts + reclaims'[j]
<1>t. TypeOK /\ HeldExists /\ Slots /\ Budget /\ reclaims[j] \in Nat
  BY DEF RetryInv, TypeOK
<1>1. PICK k \in JobIds :
         /\ Claimable(k)
         /\ jobs' = [jobs EXCEPT ![k] = Claimed(@)]
         /\ worker' = [worker EXCEPT ![w] =
                         [pc |-> "pull", job |-> k, attempt |-> Claimed(jobs[k]).retries,
                          mode |-> jobs[k].mode, bytes |-> Nothing]]
         /\ reclaims' = [reclaims EXCEPT ![k] = IF jobs[k].stale THEN @ + 1 ELSE @]
  BY DEF ClaimNextJob
<1>2. worker[w] = Idle /\ w \notin Holders(j) /\ w \notin Requeuing(j)
  BY DEF ClaimNextJob, Holders, Requeuing
<1>3. \A v \in Workers \ {w} : worker'[v] = worker[v]
  BY <1>t, <1>1 DEF TypeOK
<1>4. worker'[w] # Idle /\ worker'[w].pc = "pull" /\ worker'[w].job = k
  BY <1>t, <1>1 DEF TypeOK, Idle
<1>5. Requeuing(j)' = Requeuing(j)
  BY <1>2, <1>3, <1>4 DEF Holders, Requeuing, JobOf
<1>6. CASE k = j
  <2>1. jobs[j] \in Job /\ Exists(j) /\ jobs[j].retries \in Nat
    BY <1>t, <1>1, <1>6, PresentIsJob DEF Claimable, Exists, Job
  <2>2. jobs'[j] = Claimed(jobs[j]) /\ jobs'[j].status = "running" /\ jobs'[j].retries = jobs[j].retries + 1
    BY <1>t, <1>1, <1>6, <2>1, ClaimedJob DEF TypeOK
  <2>3. Holders(j)' = Holders(j) \cup {w}
    BY <1>2, <1>3, <1>4, <1>6 DEF Holders, JobOf
  <2>4. Cardinality(Holders(j))' = Cardinality(Holders(j)) + 1
    BY <1>2, <2>3, Counts, FS_AddElement
  <2>5. Waiting(j)' = 0 /\ reclaims'[j] \in Nat /\ reclaims'[j] + Waiting(j) >= reclaims[j] + 1
    <3>1. reclaims'[j] = IF jobs[j].stale THEN reclaims[j] + 1 ELSE reclaims[j]
      BY <1>t, <1>1, <1>6 DEF TypeOK
    <3> QED
      BY <1>t, <1>1, <1>6, <2>2, <3>1 DEF Claimable, Waiting
  <2>6. /\ Cardinality(Holders(j)) + Waiting(j) <= 1 + reclaims[j]
        /\ jobs[j].retries + Cardinality(Requeuing(j)) + Waiting(j) <= MaxAttempts + reclaims[j]
    BY <1>t, <2>1 DEF Slots, Budget
  <2> QED
    BY <1>t, <1>5, <2>1, <2>2, <2>4, <2>5, <2>6, Counts
<1>7. CASE k # j
  <2>1. jobs'[j] = jobs[j] /\ reclaims'[j] = reclaims[j]
    BY <1>t, <1>1, <1>7 DEF TypeOK
  <2>2. Holders(j)' = Holders(j)
    BY <1>2, <1>3, <1>4, <1>7 DEF Holders, JobOf
  <2> QED
    BY <1>t, <1>5, <2>1, <2>2 DEF Slots, Budget, Waiting, Exists
<1> QED
  BY <1>6, <1>7

\* A verdict to retry is given while an attempt is left, by a holder that takes
\* a place of its own.
LEMMA VerdictStep ==
    ASSUME IsFiniteSet(Workers), RetryInv, NEW w \in Workers, FailJobRead(w), NEW j \in JobIds
    PROVE  /\ Cardinality(Holders(j))' + Waiting(j)' <= 1 + reclaims'[j]
           /\ Exists(j)' => jobs'[j].retries + Cardinality(Requeuing(j))' + Waiting(j)'
                                <= MaxAttempts + reclaims'[j]
<1>t. TypeOK /\ HeldExists /\ Slots /\ Budget /\ reclaims[j] \in Nat
  BY DEF RetryInv, TypeOK
<1>1. /\ worker[w] # Idle /\ worker[w].pc = "failing" /\ worker[w] \in Holding
      /\ worker' = [worker EXCEPT ![w].pc = Verdict(jobs[JobOf(w)])]
      /\ UNCHANGED <<jobs, reclaims>>
  BY <1>t, BusyHolds DEF FailJobRead, At, Goto
<1>2. /\ \A v \in Workers \ {w} : worker'[v] = worker[v]
      /\ worker'[w] # Idle /\ worker'[w].job = worker[w].job
      /\ worker'[w].pc = Verdict(jobs[JobOf(w)])
  <2>1. worker'[w] = [worker[w] EXCEPT !.pc = Verdict(jobs[JobOf(w)])]
    BY <1>t, <1>1 DEF TypeOK
  <2>2. worker'[w].job = worker[w].job /\ worker'[w].pc = Verdict(jobs[JobOf(w)])
    BY <1>1, <2>1 DEF Holding
  <2>3. Verdict(jobs[JobOf(w)]) # "idle"
    BY DEF Verdict
  <2> QED
    BY <1>t, <1>1, <2>2, <2>3 DEF TypeOK, Idle
<1>3. Holders(j)' = Holders(j) /\ Waiting(j)' = Waiting(j) /\ jobs' = jobs /\ reclaims' = reclaims
  BY <1>1, <1>2 DEF Holders, JobOf, Waiting
<1>4. CASE JobOf(w) = j /\ jobs[j].retries < MaxAttempts
  <2>1. Requeuing(j)' = Requeuing(j) \cup {w}
    BY <1>1, <1>2, <1>3, <1>4 DEF Requeuing, Holders, JobOf, Verdict
  <2>2. w \in Holders(j) \ Requeuing(j)
    BY <1>1, <1>4 DEF Holders, Requeuing
  <2>3. Cardinality(Requeuing(j))' = Cardinality(Requeuing(j)) + 1
    BY <2>1, <2>2, Counts, FS_AddElement
  <2>4. Cardinality(Requeuing(j)) + 1 <= Cardinality(Holders(j))
    BY <2>2, Counts
  <2>5. Exists(j) /\ jobs[j].retries \in Nat
    BY <1>t, <1>1, <1>4, BusyTarget DEF Job
  <2>6. Cardinality(Holders(j)) + Waiting(j) <= 1 + reclaims[j]
    BY <1>t DEF Slots
  <2>7. jobs[j].retries + (Cardinality(Requeuing(j)) + 1) + Waiting(j) <= MaxAttempts + reclaims[j]
    BY <1>t, <1>4, <2>4, <2>5, <2>6, Counts
  <2> QED
    BY <1>3, <2>3, <2>6, <2>7
<1>5. CASE ~(JobOf(w) = j /\ jobs[j].retries < MaxAttempts)
  <2>1. Requeuing(j)' = Requeuing(j)
    BY <1>1, <1>2, <1>3, <1>5 DEF Requeuing, Holders, JobOf, Verdict
  <2> QED
    BY <1>t, <1>3, <2>1 DEF Slots, Budget, Exists
<1> QED
  BY <1>4, <1>5

\* A worker that lets go frees its place; if it requeues, the queued job takes it.
LEMMA LeaveStep ==
    ASSUME IsFiniteSet(Workers), RetryInv, NEW w \in Workers, NEW j \in JobIds,
           worker[w] # Idle, worker' = [worker EXCEPT ![w] = Idle], UNCHANGED reclaims,
           UNCHANGED jobs \/ CompleteJobNoRendition(w) \/ CompleteCommit(w) \/ FailJobWrite(w)
    PROVE  /\ Cardinality(Holders(j))' + Waiting(j)' <= 1 + reclaims'[j]
           /\ Exists(j)' => jobs'[j].retries + Cardinality(Requeuing(j))' + Waiting(j)'
                                <= MaxAttempts + reclaims'[j]
<1>t. TypeOK /\ HeldExists /\ Slots /\ Budget /\ reclaims[j] \in Nat
  BY DEF RetryInv, TypeOK
<1>1. /\ \A v \in Workers \ {w} : worker'[v] = worker[v]
      /\ worker'[w] = Idle
  BY <1>t DEF TypeOK
<1>2. Holders(j)' = Holders(j) \ {w} /\ Requeuing(j)' = Requeuing(j) \ {w}
  BY <1>1 DEF Holders, Requeuing, JobOf
<1>3. CASE JobOf(w) = j
  <2>1. w \in Holders(j) /\ (w \in Requeuing(j) <=> worker[w].pc = "requeue")
    BY <1>3 DEF Holders, Requeuing
  <2>2. Cardinality(Holders(j))' = Cardinality(Holders(j)) - 1
    BY <1>2, <2>1, Counts, FS_RemoveElement
  <2>3. Cardinality(Requeuing(j))' = IF w \in Requeuing(j) THEN Cardinality(Requeuing(j)) - 1
                                     ELSE Cardinality(Requeuing(j))
    BY <1>2, Counts, FS_RemoveElement
  <2>4. jobs[j] \in Job /\ Exists(j) /\ jobs[j].retries \in Nat
    BY <1>t, <1>3, BusyTarget DEF Job
  <2>5. jobs'[j].retries = jobs[j].retries
    BY <1>t, <2>4 DEF CompleteJobNoRendition, CompleteCommit, FailJobWrite, TypeOK, Job
  <2>6. Waiting(j)' \in {0, 1} /\ (Waiting(j)' <= Waiting(j) \/ w \in Requeuing(j))
    <3>1. CASE UNCHANGED jobs
      BY <3>1 DEF Waiting
    <3>2. CASE CompleteJobNoRendition(w) \/ CompleteCommit(w)
      <4>1. jobs'[j].status = "succeeded"
        BY <1>t, <1>3, <2>4, <3>2 DEF CompleteJobNoRendition, CompleteCommit, TypeOK, Job
      <4> QED
        BY <4>1 DEF Waiting
    <3>3. CASE FailJobWrite(w)
      <4>1. worker[w].pc # "requeue" => jobs'[j].status = "failed"
        BY <1>t, <1>3, <2>4, <3>3 DEF FailJobWrite, TypeOK, Job
      <4> QED
        BY <2>1, <4>1 DEF Waiting
    <3> QED
      BY <3>1, <3>2, <3>3
  <2>7. /\ Cardinality(Holders(j)) + Waiting(j) <= 1 + reclaims[j]
        /\ jobs[j].retries + Cardinality(Requeuing(j)) + Waiting(j) <= MaxAttempts + reclaims[j]
    BY <1>t, <2>4 DEF Slots, Budget
  <2> QED
    BY <1>t, <2>2, <2>3, <2>4, <2>5, <2>6, <2>7, Counts
<1>4. CASE JobOf(w) # j
  <2>1. w \notin Holders(j) /\ w \notin Requeuing(j)
    BY <1>4 DEF Holders, Requeuing
  <2>2. jobs'[j] = jobs[j]
    BY <1>t, <1>4 DEF CompleteJobNoRendition, CompleteCommit, FailJobWrite, TypeOK
  <2>3. Holders(j)' = Holders(j) /\ Requeuing(j)' = Requeuing(j)
    BY <1>2, <2>1
  <2> QED
    BY <1>t, <2>2, <2>3 DEF Slots, Budget, Waiting, Exists
<1> QED
  BY <1>3, <1>4

\* A worker that moves on keeps its place.
LEMMA MoveStep ==
    ASSUME IsFiniteSet(Workers), RetryInv, NEW w \in Workers, NEW j \in JobIds,
           worker[w] # Idle, worker[w].pc # "requeue", UNCHANGED reclaims,
           \/ \E pc : pc # "requeue" /\ Goto(w, pc)
           \/ \E b : worker' = [worker EXCEPT ![w].pc = "probe", ![w].bytes = b],
           worker'[w] # Idle,
           UNCHANGED jobs \/ CompleteJobNoRendition(w) \/ CompleteCommit(w)
    PROVE  /\ Cardinality(Holders(j))' + Waiting(j)' <= 1 + reclaims'[j]
           /\ Exists(j)' => jobs'[j].retries + Cardinality(Requeuing(j))' + Waiting(j)'
                                <= MaxAttempts + reclaims'[j]
<1>t. TypeOK /\ HeldExists /\ Slots /\ Budget /\ reclaims[j] \in Nat
  BY DEF RetryInv, TypeOK
<1>1. worker[w] \in Holding /\ JobOf(w) \in JobIds /\ jobs[JobOf(w)] \in Job /\ Exists(JobOf(w))
  BY <1>t, BusyHolds, BusyTarget
<1>2. /\ \A v \in Workers \ {w} : worker'[v] = worker[v]
      /\ worker'[w].job = worker[w].job /\ worker'[w].pc # "requeue"
  BY <1>t, <1>1 DEF TypeOK, Goto, Holding
<1>3. Holders(j)' = Holders(j) /\ Requeuing(j)' = Requeuing(j)
  BY <1>2 DEF Holders, Requeuing, JobOf
<1>4. CASE jobs'[j] = jobs[j]
  BY <1>t, <1>3, <1>4 DEF Slots, Budget, Waiting, Exists
<1>5. CASE jobs'[j] # jobs[j]
  <2>1. JobOf(w) = j /\ jobs'[j].status = "succeeded" /\ jobs'[j].retries = jobs[j].retries
    BY <1>t, <1>1, <1>5 DEF CompleteJobNoRendition, CompleteCommit, TypeOK, Job
  <2>2. Waiting(j)' = 0 /\ jobs[j].retries \in Nat
    BY <1>1, <2>1 DEF Waiting, Job
  <2>3. /\ Cardinality(Holders(j)) + Waiting(j) <= 1 + reclaims[j]
        /\ jobs[j].retries + Cardinality(Requeuing(j)) + Waiting(j) <= MaxAttempts + reclaims[j]
    BY <1>t, <1>1, <2>1 DEF Slots, Budget
  <2> QED
    BY <1>t, <1>3, <2>1, <2>2, <2>3, Counts
<1> QED
  BY <1>4, <1>5

------------------------------------------------------------------------------
\* Theorems

\* The invariant holds of every behaviour.
THEOREM RetryInvariant ==
    ASSUME IsFiniteSet(Workers)
    PROVE  Spec => []RetryInv
<1>1. Init => RetryInv
  <2> SUFFICES ASSUME Init PROVE RetryInv
    OBVIOUS
  <2>1. TypeOK /\ HeldExists
    BY InitTypeOK DEF Init, HeldExists
  <2>2. \A j \in JobIds : /\ Holders(j) = {} /\ Waiting(j) = 0 /\ ~Exists(j) /\ reclaims[j] = 0
    BY DEF Init, Holders, Waiting, Exists, NoJob
  <2> QED
    BY <2>1, <2>2, FS_EmptySet DEF RetryInv, Slots, Budget
<1>2. ASSUME RetryInv, [Next]_vars
      PROVE  RetryInv'
  <2>t. TypeOK /\ HeldExists /\ TypeOK' /\ HeldExists'
    BY <1>2, TypeStep DEF RetryInv
  <2>1. ASSUME NEW j \in JobIds
        PROVE  /\ Cardinality(Holders(j))' + Waiting(j)' <= 1 + reclaims'[j]
               /\ Exists(j)' => jobs'[j].retries + Cardinality(Requeuing(j))' + Waiting(j)'
                                    <= MaxAttempts + reclaims'[j]
    <3>1. ASSUME NEW w \in Workers, worker[w] # Idle,
                 \/ \E pc : pc # "requeue" /\ Goto(w, pc)
                 \/ \E b : worker' = [worker EXCEPT ![w].pc = "probe", ![w].bytes = b]
          PROVE  worker'[w] # Idle \/ worker' = [worker EXCEPT ![w] = Idle]
      BY <2>t, <3>1, BusyHolds DEF TypeOK, Goto, Holding, Idle
    <3> QED
      BY <1>2, <2>t, <3>1, StepShapes, StillStep, ClaimStep, VerdictStep, LeaveStep, MoveStep
  <2> QED
    BY <2>t, <2>1 DEF RetryInv, Slots, Budget
<1> QED
  BY <1>1, <1>2, PTL DEF Spec

\* A job is attempted MaxAttempts times, and once more for each lease that was
\* taken over, in whatever order the verdicts of late workers come.
THEOREM RetriesAreBounded ==
    ASSUME IsFiniteSet(Workers)
    PROVE  Spec => []RetriesBounded
<1>1. RetryInv => RetriesBounded
  <2> SUFFICES ASSUME RetryInv, NEW j \in JobIds, Exists(j)
               PROVE  jobs[j].retries <= MaxAttempts + reclaims[j]
    BY DEF RetriesBounded
  <2>1. jobs[j].retries \in Nat /\ reclaims[j] \in Nat
    BY PresentIsJob DEF RetryInv, Exists, Job, TypeOK
  <2>2. jobs[j].retries + Cardinality(Requeuing(j)) + Waiting(j) <= MaxAttempts + reclaims[j]
    BY DEF RetryInv, Budget
  <2> QED
    BY <2>1, <2>2, Counts
<1> QED
  BY <1>1, RetryInvariant, PTL
=============================================================================
