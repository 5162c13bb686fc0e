----------------------------- MODULE MCProgress -----------------------------
(***************************************************************************)
(* What must eventually happen, of the two loops of a worker process: the  *)
(* queue's jobs settle and the sweeps reclaim.  Each behaviour is of one   *)
(* of them, chosen in the initial state; the other stays as it was.        *)
(***************************************************************************)
EXTENDS Ingest, TLC

CONSTANTS r1, s1, w1, h1, a1
CONSTANTS Workers, Handlers, Assets, Intents, JobIds, MaxAttempts, MaxReclaims

VARIABLES
    part,    \* the component this behaviour is of
    jobs, renditions, deliveries, probe, authored, worker, handler, reclaims

queueVars == <<jobs, renditions, deliveries, probe, authored, worker, handler, reclaims>>

\* Derivations only, as no file is authored; an original may be over the ceiling
\* of the detail intent.
Queue == INSTANCE JobQueue WITH
    objects    <- deliveries,
    SkipAssets <- {},
    Faults     <- {},
    MaxPuts    <- 0,
    Unfit      <- {<<t, 0>> : t \in Assets \X (Intents \cap {"detail"})}

------------------------------------------------------------------------------
OfIngest(A) == part = "ingest" /\ A /\ UNCHANGED <<part, queueVars>>
OfQueue(A)  == part = "queue" /\ A /\ UNCHANGED <<part, vars, authored>>

ProgressInit == part \in {"ingest", "queue"} /\ Init /\ Queue!Init
ProgressNext == OfIngest(Next) \/ OfQueue(Queue!Next)

\* Time passes, a request ends, loops tick, heartbeats of a job no one holds
\* grow old; a call that may succeed does not fail every time.  The client and
\* the faults owe nothing.
Fairness ==
    /\ WF_vars(part = "ingest" /\ Clock)
    /\ \A r \in Requests : WF_vars(part = "ingest" /\ RequestFails(r))
    /\ \A s \in Sweepers :
        /\ WF_vars(part = "ingest" /\ SweepLoop(s))
        /\ SF_vars(part = "ingest" /\ PurgeDeletedAsset(s))
        /\ \A u \in Uploads : /\ SF_vars(part = "ingest" /\ SweepObject(s, u))
                              /\ SF_vars(part = "ingest" /\ PurgeObject(s, u))
    /\ \A w \in Workers : WF_queueVars(part = "queue" /\ Queue!Progress(w))
    /\ \A j \in JobIds : WF_queueVars(part = "queue" /\ Queue!LeaseExpires(j))

ProgressSpec == ProgressInit /\ [][ProgressNext]_<<part, vars, queueVars>> /\ Fairness

------------------------------------------------------------------------------
\* A queued job is eventually done or given up, through crashes, failed steps
\* and shorter jobs that overtake it.
EveryJobSettles == Queue!EveryJobSettles
=============================================================================
