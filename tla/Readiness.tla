----------------------------- MODULE Readiness -----------------------------
(***************************************************************************)
(* /readyz: concurrent probes of the database, the storage, the newest     *)
(* worker heartbeat and the queue's progress, folded into one status whose *)
(* transitions are logged (internal/service/health.go,                     *)
(* internal/store/health.go), and what they watch: worker machines that    *)
(* beat (internal/worker/heartbeat.go), take jobs, hang and die.           *)
(*                                                                         *)
(* A timestamp is fresh, or stale: older than the window its check allows. *)
(*                                                                         *)
(* Names of the form Name_Variant are faulty versions of Name that the     *)
(* properties rule out; nothing else uses them.                            *)
(***************************************************************************)
EXTENDS Integers, FiniteSets

CONSTANTS
    Machines,      \* worker machines
    Probes,        \* /readyz requests in flight at the same time
    Checks,        \* PLATE_READYZ_CHECKS: the checks that run
    MaxJobs,       \* bound: jobs queued, running or abandoned at one time
    MaxOutages     \* bound: times a dependency goes away

CheckNames == {"db", "storage", "worker", "queue"}
Dependency == {"db", "storage"}
Status     == {"ok", "degraded", "down"}

ASSUME ReadinessAssumption ==
    Checks \subseteq CheckNames /\ MaxJobs \in Nat /\ MaxOutages \in Nat

VARIABLES
    up,         \* which dependencies answer
    machine,    \* idle, busy (on a job), hung (beats, but its job does not move), dead
    beat,       \* the newest last_seen: none, fresh, stale
    backlog,    \* jobs by status: queued, and running under a lease nobody renews
    progress,   \* the newest locked_at, heartbeat_at or updated of any job
    outages,
    probe,      \* each request's next step and what it has found so far
    last,       \* health.last: the status reported last
    balance     \* transition lines logged into each status, less those out of it

world         == <<up, machine, beat, backlog, progress, outages>>
readinessVars == <<world, probe, last, balance>>

NoProbe == [at |-> "idle", found |-> "ok", was |-> "ok"]

ReadinessTypeOK ==
    /\ up \in [Dependency -> BOOLEAN]
    /\ machine \in [Machines -> {"idle", "busy", "hung", "dead"}]
    /\ beat \in {"none", "fresh", "stale"} /\ progress \in {"none", "fresh", "stale"}
    /\ backlog \in [{"queued", "abandoned"} -> 0 .. MaxJobs]
    /\ outages \in 0 .. MaxOutages
    /\ probe \in [Probes -> [at: {"idle", "storage", "worker", "queue", "fold", "emit"},
                             found: Status, was: Status]]
    /\ last \in Status
    /\ balance \in [Status -> Int]

ReadinessInit ==
    /\ up = [d \in Dependency |-> TRUE]
    /\ machine = [m \in Machines |-> "dead"]
    /\ beat = "none" /\ progress = "none"
    /\ backlog = [s \in {"queued", "abandoned"} |-> 0]
    /\ outages = 0
    /\ probe = [p \in Probes |-> NoProbe]
    /\ last = "ok"
    /\ balance = [s \in Status |-> 0]

------------------------------------------------------------------------------
\* What is watched

Outage(d) ==
    /\ up[d] /\ outages < MaxOutages
    /\ up' = [up EXCEPT ![d] = FALSE] /\ outages' = outages + 1
    /\ UNCHANGED <<machine, beat, backlog, progress, probe, last, balance>>

Restored(d) ==
    /\ ~up[d] /\ up' = [up EXCEPT ![d] = TRUE]
    /\ UNCHANGED <<machine, beat, backlog, progress, outages, probe, last, balance>>

\* The jobs that a machine holds, and those that are not done with.
Busy == {m \in Machines : machine[m] = "busy"}
Jobs == backlog["queued"] + backlog["abandoned"] + Cardinality(Busy)

\* A row that an enqueue inserts has updated = now(), like one a worker moves.
EnqueueJob ==
    /\ up["db"] /\ Jobs < MaxJobs
    /\ backlog' = [backlog EXCEPT !["queued"] = @ + 1]
    /\ progress' = "fresh"
    /\ UNCHANGED <<up, machine, beat, outages, probe, last, balance>>

\* So has a row, of any job not failed, that another authored file re-points: a
\* client may do that as often as it likes.
EnqueueRemuxJob ==
    /\ up["db"] /\ progress # "none"
    /\ progress' = "fresh"
    /\ UNCHANGED <<up, machine, beat, backlog, outages, probe, last, balance>>

\* Queued, or running with an expired lease: only the first counts as backlog.
ClaimJob(m) ==
    /\ up["db"] /\ machine[m] = "idle"
    /\ \E s \in {"queued", "abandoned"} :
        backlog[s] > 0 /\ backlog' = [backlog EXCEPT ![s] = @ - 1]
    /\ machine' = [machine EXCEPT ![m] = "busy"]
    /\ progress' = "fresh"
    /\ UNCHANGED <<up, beat, outages, probe, last, balance>>

BeatJob(m) ==
    /\ up["db"] /\ machine[m] = "busy"
    /\ progress' = "fresh"
    /\ UNCHANGED <<up, machine, beat, backlog, outages, probe, last, balance>>

FinishJob(m) ==
    /\ up["db"] /\ machine[m] = "busy"
    /\ machine' = [machine EXCEPT ![m] = "idle"]
    /\ progress' = "fresh"
    /\ UNCHANGED <<up, beat, backlog, outages, probe, last, balance>>

\* A job may outlast its window between two beats, or have none coming.
ProgressAges ==
    /\ progress = "fresh" /\ progress' = "stale"
    /\ UNCHANGED <<up, machine, beat, backlog, outages, probe, last, balance>>

\* The job of a machine that stops stays running, under a lease that expires.
Abandon_IdleToo(m) == [backlog EXCEPT !["abandoned"] = @ + 1]
Abandon(m) == [backlog EXCEPT !["abandoned"] = @ + (IF machine[m] = "busy" THEN 1 ELSE 0)]

MachineFails(m) ==
    /\ machine[m] \in {"idle", "busy"}
    /\ \E how \in {"hung", "dead"} : machine' = [machine EXCEPT ![m] = how]
    /\ backlog' = Abandon(m)
    /\ UNCHANGED <<up, beat, progress, outages, probe, last, balance>>

MachineStarts(m) ==
    /\ machine[m] \in {"hung", "dead"}
    /\ machine' = [machine EXCEPT ![m] = "idle"]
    /\ UNCHANGED <<up, beat, backlog, progress, outages, probe, last, balance>>

\* The beat has its own goroutine: it goes on while the job loop hangs.
Beating(m) == machine[m] # "dead" /\ up["db"]

UpsertWorkerHeartbeat_InsertOnly(m) == beat' = IF beat = "none" THEN "fresh" ELSE beat
UpsertWorkerHeartbeat(m) == beat' = "fresh"

HeartbeatLoop(m) ==
    /\ Beating(m) /\ beat # "fresh"
    /\ UpsertWorkerHeartbeat(m)
    /\ UNCHANGED <<up, machine, backlog, progress, outages, probe, last, balance>>

\* The window is four beats long: one that is made in time keeps it fresh.
BeatAges ==
    /\ beat = "fresh" /\ \A m \in Machines : ~Beating(m)
    /\ beat' = "stale"
    /\ UNCHANGED <<up, machine, backlog, progress, outages, probe, last, balance>>

------------------------------------------------------------------------------
\* A probe: the enabled checks one after the other, each against the world as
\* it is by then

\* A failure that takes the API down outweighs one that only degrades it.
Worst(found, failure) == IF found = "down" THEN found ELSE failure

CheckThen(p, at, name, failed, failure, next) ==
    /\ probe[p].at = at
    /\ probe' = [probe EXCEPT ![p].at = next,
                   ![p].found = IF name \in Checks /\ failed THEN Worst(@, failure) ELSE @]
    /\ UNCHANGED <<world, last, balance>>

CheckDb(p)      == CheckThen(p, "idle", "db", ~up["db"], "down", "storage")
CheckStorage(p) == CheckThen(p, "storage", "storage", ~up["storage"], "down", "worker")

\* WorkerLiveness: the query fails, no worker ever beat, or the beat is old.
WorkerFails_OnceSeen == ~up["db"] \/ beat = "none"
WorkerFails          == ~up["db"] \/ beat # "fresh"

\* QueueLag: a backlog, and no job of any status has moved in the window.
QueueFails_Never == ~up["db"] \/ (backlog["queued"] > 0 /\ progress = "none")
QueueFails       == ~up["db"] \/ (backlog["queued"] > 0 /\ progress # "fresh")

CheckWorker(p) == CheckThen(p, "worker", "worker", WorkerFails, "degraded", "queue")
CheckQueue(p)  == CheckThen(p, "queue", "queue", QueueFails, "degraded", "fold")

\* logTransition's critical section: swap the status reported last.
Swap_KeepsFailing(p) == last' = IF probe[p].found = "ok" THEN last ELSE probe[p].found
Swap(p)              == last' = probe[p].found

Report(p) ==
    /\ probe[p].at = "fold"
    /\ Swap(p)
    /\ probe' = [probe EXCEPT ![p] =
                   IF @.found = last THEN NoProbe ELSE [@ EXCEPT !.at = "emit", !.was = last]]
    /\ UNCHANGED <<world, balance>>

\* The line is written after the unlock.
LogTransition(p) ==
    /\ probe[p].at = "emit"
    /\ balance' = [balance EXCEPT ![probe[p].was] = @ - 1, ![probe[p].found] = @ + 1]
    /\ probe' = [probe EXCEPT ![p] = NoProbe]
    /\ UNCHANGED <<world, last>>

ProbeStep(p) ==
    \/ CheckDb(p) \/ CheckStorage(p) \/ CheckWorker(p) \/ CheckQueue(p)
    \/ Report(p) \/ LogTransition(p)

WorkStep(m) == ClaimJob(m) \/ FinishJob(m)

ReadinessNext ==
    \/ \E d \in Dependency : Outage(d) \/ Restored(d)
    \/ EnqueueJob \/ EnqueueRemuxJob \/ ProgressAges \/ BeatAges
    \/ \E m \in Machines : \/ WorkStep(m) \/ BeatJob(m) \/ HeartbeatLoop(m)
                           \/ MachineFails(m) \/ MachineStarts(m)
    \/ \E p \in Probes : ProbeStep(p)

ReadinessSpec == ReadinessInit /\ [][ReadinessNext]_readinessVars

------------------------------------------------------------------------------
\* What must hold

\* The log is an incident timeline: once no line is in flight, the lines lead
\* from ok to the status reported last, although probes swap and write in any
\* order.
LogAddsUp ==
    (\A p \in Probes : probe[p].at # "emit")
        => \A s \in Status : balance[s] = (IF s = last THEN 1 ELSE 0) - (IF s = "ok" THEN 1 ELSE 0)

\* No machine is left, or none that works, before jobs that wait.
Dead     == \A m \in Machines : machine[m] = "dead"
Stuck    == backlog["queued"] > 0 /\ \A m \in Machines : machine[m] \in {"hung", "dead"}
AllWell  == /\ \A d \in Dependency : up[d]
            /\ \A m \in Machines : machine[m] \in {"idle", "busy"}

\* What QueueLag and the queue check say of themselves: a dead fleet, or a hung
\* one with a backlog, is reported in the end and goes on being reported.
StrandedIsReported == <>[](Dead \/ Stuck) => <>[](last # "ok")

\* What holds of it: a dead fleet is reported whatever clients do, by its beat.
DeadIsReported == <>[]Dead => <>[](last # "ok")

\* A hung fleet goes on beating: it is reported once clients let the queue's
\* progress grow old.
StuckIsReported ==
    (<>[]Stuck /\ <>[][~EnqueueJob /\ ~EnqueueRemuxJob]_readinessVars) => <>[](last # "ok")

\* Whatever happened before, a service that is well again says so for good, as
\* long as no job waits while the queue stands still for a whole window.
RecoveryIsReported ==
    (<>[]AllWell /\ <>[][ProgressAges => backlog["queued"] = 0]_readinessVars)
        => <>[](last = "ok")
=============================================================================
