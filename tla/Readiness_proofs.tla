-------------------------- MODULE Readiness_proofs --------------------------
(***************************************************************************)
(* Theorems about Readiness: that the transition log adds up, for any      *)
(* finite set of probes that swap and write in any order, and that jobs    *)
(* are neither made nor lost by machines that claim, hang and die.         *)
(***************************************************************************)
EXTENDS Readiness, FiniteSetTheorems, TLAPS

USE ReadinessAssumption

------------------------------------------------------------------------------
\* The inductive invariants

\* The lines in flight, those that lead into a status and those out of it.
Emitting(p) == probe[p].at = "emit"
Into(s)     == {p \in Probes : Emitting(p) /\ probe[p].found = s}
OutOf(s)    == {p \in Probes : Emitting(p) /\ probe[p].was = s}

Distance(s) == (IF s = last THEN 1 ELSE 0) - (IF s = "ok" THEN 1 ELSE 0)

\* The lines written and those in flight lead from ok to the status reported last.
Ledger == \A s \in Status :
              balance[s] + Cardinality(Into(s)) - Cardinality(OutOf(s)) = Distance(s)

\* What a probe may be, a line to write included.
ProbesOK ==
    /\ probe \in [Probes -> [at: {"idle", "storage", "worker", "queue", "fold", "emit"},
                             found: Status, was: Status]]
    /\ last \in Status /\ balance \in [Status -> Int]

LedgerInv == ProbesOK /\ Ledger

\* What the world may be, but for the bound of the backlog.
WorldOK ==
    /\ up \in [Dependency -> BOOLEAN]
    /\ machine \in [Machines -> {"idle", "busy", "hung", "dead"}]
    /\ beat \in {"none", "fresh", "stale"} /\ progress \in {"none", "fresh", "stale"}
    /\ backlog \in [{"queued", "abandoned"} -> Nat]
    /\ outages \in 0 .. MaxOutages

\* A job is queued, abandoned, on a machine, or done with: never two of them.
JobsConserved == Jobs <= MaxJobs

WorldInv == WorldOK /\ JobsConserved

------------------------------------------------------------------------------
\* Counting

\* What one more, or one less, makes of a count.
LEMMA OneMoreOrLess ==
    ASSUME NEW S, IsFiniteSet(S), NEW x
    PROVE  /\ Cardinality(S) \in Nat
           /\ x \notin S => Cardinality(S \cup {x}) = Cardinality(S) + 1
           /\ x \in S => Cardinality(S \ {x}) = Cardinality(S) - 1
BY FS_CardinalityType, FS_AddElement, FS_RemoveElement

\* The lines in flight are countable.
LEMMA LinesFinite ==
    ASSUME IsFiniteSet(Probes), NEW s
    PROVE  IsFiniteSet(Into(s)) /\ IsFiniteSet(OutOf(s))
BY FS_Subset DEF Into, OutOf

------------------------------------------------------------------------------
\* The log

\* A step of the world leaves the probes alone.
LEMMA Steps ==
    ASSUME [ReadinessNext]_readinessVars
    PROVE  \/ UNCHANGED <<probe, last, balance>>
           \/ \E p \in Probes : ProbeStep(p) /\ UNCHANGED world
BY DEF ReadinessNext, readinessVars, Outage, Restored, EnqueueJob, EnqueueRemuxJob, ProgressAges, BeatAges,
       WorkStep, ClaimJob, FinishJob, BeatJob, HeartbeatLoop, MachineFails, MachineStarts, ProbeStep, CheckThen,
       CheckDb, CheckStorage, CheckWorker, CheckQueue, Report, LogTransition, world

\* The four checks touch one probe, and end in no line.
LEMMA CheckStep ==
    ASSUME ProbesOK, NEW p \in Probes,
           CheckDb(p) \/ CheckStorage(p) \/ CheckWorker(p) \/ CheckQueue(p)
    PROVE  /\ UNCHANGED <<last, balance>>
           /\ probe[p].at # "emit" /\ probe'[p].at # "emit"
           /\ \A q \in Probes : q # p => probe'[q] = probe[q]
           /\ ProbesOK'
<1>1. ASSUME NEW at, NEW name, NEW failed, NEW failure \in {"down", "degraded"},
             NEW next \in {"storage", "worker", "queue", "fold"},
             at # "emit", CheckThen(p, at, name, failed, failure, next)
      PROVE  /\ UNCHANGED <<last, balance>>
             /\ probe[p].at # "emit" /\ probe'[p].at # "emit"
             /\ \A q \in Probes : q # p => probe'[q] = probe[q]
             /\ ProbesOK'
  BY <1>1 DEF CheckThen, ProbesOK, Worst, Status
<1> QED
  BY <1>1 DEF CheckDb, CheckStorage, CheckWorker, CheckQueue

\* A step that moves no line keeps the balance.
LEMMA NoLineMoves ==
    ASSUME Ledger, UNCHANGED <<last, balance>>,
           \A q \in Probes : probe'[q] = probe[q] \/ (probe[q].at # "emit" /\ probe'[q].at # "emit")
    PROVE  Ledger'
<1>1. \A s \in Status : Into(s)' = Into(s) /\ OutOf(s)' = OutOf(s)
  BY DEF Into, OutOf, Emitting
<1> QED
  BY <1>1 DEF Ledger, Distance

\* The swap puts a line in flight, out of the status replaced and into the new one.
LEMMA ReportStep ==
    ASSUME IsFiniteSet(Probes), LedgerInv, NEW p \in Probes, Report(p)
    PROVE  LedgerInv'
<1>t. probe[p].found \in Status /\ probe[p].at = "fold" /\ last' = probe[p].found /\ balance' = balance
  BY DEF LedgerInv, ProbesOK, Report, Swap
<1>1. ProbesOK'
  BY <1>t DEF LedgerInv, ProbesOK, Report, NoProbe, Status
<1>2. CASE probe[p].found = last
  <2>1. probe'[p].at # "emit" /\ \A q \in Probes : q # p => probe'[q] = probe[q]
    BY <1>2 DEF LedgerInv, ProbesOK, Report, NoProbe
  <2>2. Ledger'
    BY <1>2, <1>t, <2>1, NoLineMoves DEF LedgerInv
  <2> QED
    BY <1>1, <2>2 DEF LedgerInv
<1>3. CASE probe[p].found # last
  <2>1. /\ probe'[p].at = "emit" /\ probe'[p].found = probe[p].found /\ probe'[p].was = last
        /\ \A q \in Probes : q # p => probe'[q] = probe[q]
    BY <1>3 DEF LedgerInv, ProbesOK, Report
  <2> SUFFICES ASSUME NEW s \in Status
               PROVE  (balance[s] + Cardinality(Into(s)) - Cardinality(OutOf(s)) = Distance(s))'
    BY <1>1 DEF LedgerInv, Ledger
  <2>2. p \notin Into(s) /\ p \notin OutOf(s)
    BY <1>t DEF Into, OutOf, Emitting
  <2>3. Into(s)' = IF s = probe[p].found THEN Into(s) \cup {p} ELSE Into(s)
    BY <1>t, <2>1 DEF Into, Emitting
  <2>4. OutOf(s)' = IF s = last THEN OutOf(s) \cup {p} ELSE OutOf(s)
    BY <1>t, <2>1 DEF OutOf, Emitting
  <2>5. /\ Cardinality(Into(s)) \in Nat /\ Cardinality(OutOf(s)) \in Nat
        /\ Cardinality(Into(s)') = Cardinality(Into(s)) + (IF s = probe[p].found THEN 1 ELSE 0)
        /\ Cardinality(OutOf(s)') = Cardinality(OutOf(s)) + (IF s = last THEN 1 ELSE 0)
    <3>1. IsFiniteSet(Into(s)) /\ IsFiniteSet(OutOf(s))
      BY LinesFinite
    <3>2. Cardinality(Into(s)) \in Nat /\ Cardinality(Into(s) \cup {p}) = Cardinality(Into(s)) + 1
      BY <2>2, <3>1, OneMoreOrLess
    <3>3. Cardinality(OutOf(s)) \in Nat /\ Cardinality(OutOf(s) \cup {p}) = Cardinality(OutOf(s)) + 1
      BY <2>2, <3>1, OneMoreOrLess
    <3> QED
      BY <2>3, <2>4, <3>2, <3>3
  <2>6. balance[s] \in Int /\ balance[s] + Cardinality(Into(s)) - Cardinality(OutOf(s)) = Distance(s)
    BY DEF LedgerInv, Ledger, ProbesOK
  <2>7. Distance(s) \in Int /\ Distance(s)' = Distance(s) - (IF s = last THEN 1 ELSE 0)
                                              + (IF s = probe[p].found THEN 1 ELSE 0)
    BY <1>t DEF Distance
  <2> QED
    BY <1>t, <2>5, <2>6, <2>7
<1> QED
  BY <1>2, <1>3

\* The line is written: it leaves the lines in flight for the balance.
LEMMA LogStep ==
    ASSUME IsFiniteSet(Probes), LedgerInv, NEW p \in Probes, LogTransition(p)
    PROVE  LedgerInv'
<1>t. probe[p].found \in Status /\ probe[p].was \in Status /\ probe[p].at = "emit" /\ last' = last
  BY DEF LedgerInv, ProbesOK, LogTransition
<1>1. ProbesOK'
  BY <1>t DEF LedgerInv, ProbesOK, LogTransition, NoProbe, Status
<1>2. probe'[p].at # "emit" /\ \A q \in Probes : q # p => probe'[q] = probe[q]
  BY DEF LedgerInv, ProbesOK, LogTransition, NoProbe
<1> SUFFICES ASSUME NEW s \in Status
             PROVE  (balance[s] + Cardinality(Into(s)) - Cardinality(OutOf(s)) = Distance(s))'
  BY <1>1 DEF LedgerInv, Ledger
<1>3. Into(s)' = IF s = probe[p].found THEN Into(s) \ {p} ELSE Into(s)
  BY <1>t, <1>2 DEF Into, Emitting
<1>4. OutOf(s)' = IF s = probe[p].was THEN OutOf(s) \ {p} ELSE OutOf(s)
  BY <1>t, <1>2 DEF OutOf, Emitting
<1>5. (s = probe[p].found <=> p \in Into(s)) /\ (s = probe[p].was <=> p \in OutOf(s))
  BY <1>t DEF Into, OutOf, Emitting
<1>6. /\ Cardinality(Into(s)) \in Nat /\ Cardinality(OutOf(s)) \in Nat
      /\ Cardinality(Into(s)') = Cardinality(Into(s)) - (IF s = probe[p].found THEN 1 ELSE 0)
      /\ Cardinality(OutOf(s)') = Cardinality(OutOf(s)) - (IF s = probe[p].was THEN 1 ELSE 0)
  <2>1. IsFiniteSet(Into(s)) /\ IsFiniteSet(OutOf(s))
    BY LinesFinite
  <2>2. /\ Cardinality(Into(s)) \in Nat
        /\ p \in Into(s) => Cardinality(Into(s) \ {p}) = Cardinality(Into(s)) - 1
    BY <2>1, OneMoreOrLess
  <2>3. /\ Cardinality(OutOf(s)) \in Nat
        /\ p \in OutOf(s) => Cardinality(OutOf(s) \ {p}) = Cardinality(OutOf(s)) - 1
    BY <2>1, OneMoreOrLess
  <2> QED
    BY <1>3, <1>4, <1>5, <2>2, <2>3
<1>7. balance[s] \in Int /\ balance[s] + Cardinality(Into(s)) - Cardinality(OutOf(s)) = Distance(s)
  BY DEF LedgerInv, Ledger, ProbesOK
<1>8. balance'[s] = balance[s] - (IF s = probe[p].was THEN 1 ELSE 0) + (IF s = probe[p].found THEN 1 ELSE 0)
  BY <1>t, <1>7 DEF LedgerInv, ProbesOK, LogTransition
<1>9. Distance(s) \in Int /\ Distance(s)' = Distance(s)
  BY <1>t DEF Distance
<1> QED
  BY <1>6, <1>7, <1>8, <1>9

\* The balance holds at every moment, with any number of lines in flight.
LEMMA LedgerInvariant ==
    ASSUME IsFiniteSet(Probes)
    PROVE  ReadinessSpec => []LedgerInv
<1>1. ReadinessInit => LedgerInv
  <2> SUFFICES ASSUME ReadinessInit PROVE LedgerInv
    OBVIOUS
  <2>1. ProbesOK
    BY DEF ReadinessInit, ProbesOK, NoProbe, Status
  <2>2. \A s \in Status : Into(s) = {} /\ OutOf(s) = {}
    BY DEF ReadinessInit, NoProbe, Into, OutOf, Emitting
  <2> QED
    BY <2>1, <2>2, FS_EmptySet DEF ReadinessInit, LedgerInv, Ledger, Distance
<1>2. LedgerInv /\ [ReadinessNext]_readinessVars => LedgerInv'
  <2> SUFFICES ASSUME LedgerInv, [ReadinessNext]_readinessVars PROVE LedgerInv'
    OBVIOUS
  <2>1. CASE UNCHANGED <<probe, last, balance>>
    BY <2>1, NoLineMoves DEF LedgerInv, ProbesOK
  <2>2. ASSUME NEW p \in Probes, CheckDb(p) \/ CheckStorage(p) \/ CheckWorker(p) \/ CheckQueue(p)
        PROVE  LedgerInv'
    BY <2>2, CheckStep, NoLineMoves DEF LedgerInv
  <2> QED
    BY <2>1, <2>2, Steps, ReportStep, LogStep DEF ProbeStep
<1> QED
  BY <1>1, <1>2, PTL DEF ReadinessSpec

\* Once no line is in flight, the log leads from ok to the status reported last.
THEOREM LogsAddUp ==
    ASSUME IsFiniteSet(Probes)
    PROVE  ReadinessSpec => []LogAddsUp
<1>1. LedgerInv => LogAddsUp
  <2> SUFFICES ASSUME LedgerInv, \A p \in Probes : probe[p].at # "emit", NEW s \in Status
               PROVE  balance[s] = Distance(s)
    BY DEF LogAddsUp, Distance
  <2>1. Into(s) = {} /\ OutOf(s) = {}
    BY DEF Into, OutOf, Emitting
  <2>2. balance[s] \in Int /\ balance[s] + 0 - 0 = Distance(s)
    BY <2>1, FS_EmptySet DEF LedgerInv, Ledger, ProbesOK
  <2> QED
    BY <2>2
<1> QED
  BY <1>1, LedgerInvariant, PTL

------------------------------------------------------------------------------
\* The jobs

\* A step that moves no job keeps the count.
LEMMA NoJobMoves ==
    ASSUME JobsConserved, UNCHANGED backlog,
           \A m \in Machines : machine'[m] = "busy" <=> machine[m] = "busy"
    PROVE  JobsConserved'
<1>1. Busy' = Busy
  BY DEF Busy
<1> QED
  BY <1>1 DEF JobsConserved, Jobs

\* A queued or an abandoned job goes onto a machine.
LEMMA JobClaimStep ==
    ASSUME IsFiniteSet(Machines), WorldInv, NEW m \in Machines, ClaimJob(m)
    PROVE  WorldInv'
<1>t. WorldOK /\ JobsConserved /\ IsFiniteSet(Busy)
  BY FS_Subset DEF WorldInv, Busy
<1>1. PICK s \in {"queued", "abandoned"} :
         backlog[s] > 0 /\ backlog' = [backlog EXCEPT ![s] = @ - 1]
  BY DEF ClaimJob
<1>2. backlog' \in [{"queued", "abandoned"} -> Nat]
  BY <1>t, <1>1 DEF WorldOK
<1>3. WorldOK'
  BY <1>t, <1>2 DEF ClaimJob, WorldOK
<1>4. m \notin Busy /\ Busy' = Busy \cup {m}
  BY <1>t DEF ClaimJob, WorldOK, Busy
<1>5. Cardinality(Busy) \in Nat /\ Cardinality(Busy') = Cardinality(Busy) + 1
  BY <1>t, <1>4, OneMoreOrLess
<1>6. backlog'["queued"] + backlog'["abandoned"] = backlog["queued"] + backlog["abandoned"] - 1
  BY <1>t, <1>1 DEF WorldOK
<1> QED
  BY <1>t, <1>2, <1>3, <1>5, <1>6 DEF WorldInv, WorldOK, JobsConserved, Jobs

\* A machine that finishes or fails lets go of its job; a failed one leaves it
\* abandoned.
LEMMA LetGoStep ==
    ASSUME IsFiniteSet(Machines), WorldInv, NEW m \in Machines, FinishJob(m) \/ MachineFails(m)
    PROVE  WorldInv'
<1>t. WorldOK /\ JobsConserved /\ IsFiniteSet(Busy)
  BY FS_Subset DEF WorldInv, Busy
<1> DEFINE left == IF machine[m] = "busy" /\ MachineFails(m) THEN 1 ELSE 0
<1>1. /\ backlog' \in [{"queued", "abandoned"} -> Nat]
      /\ backlog'["queued"] = backlog["queued"]
      /\ backlog'["abandoned"] = backlog["abandoned"] + left
  <2>1. CASE FinishJob(m)
    <3>1. ~MachineFails(m)
      BY <1>t, <2>1 DEF FinishJob, MachineFails, Abandon, WorldOK
    <3> QED
      BY <1>t, <2>1, <3>1 DEF FinishJob, WorldOK
  <2>2. CASE MachineFails(m)
    <3>1. backlog' = [backlog EXCEPT !["abandoned"] = @ + (IF machine[m] = "busy" THEN 1 ELSE 0)]
      BY <2>2 DEF MachineFails, Abandon
    <3>2. backlog \in [{"queued", "abandoned"} -> Nat] /\ left = IF machine[m] = "busy" THEN 1 ELSE 0
      BY <1>t, <2>2 DEF WorldOK
    <3> QED
      BY <3>1, <3>2
  <2> QED
    BY <2>1, <2>2
<1>2. \A n \in Machines : n # m => machine'[n] = machine[n]
  BY <1>t DEF FinishJob, MachineFails, WorldOK
<1>3. machine'[m] # "busy" /\ machine' \in [Machines -> {"idle", "busy", "hung", "dead"}]
  BY <1>t DEF FinishJob, MachineFails, WorldOK
<1>4. Busy' = Busy \ {m}
  BY <1>2, <1>3 DEF Busy
<1>5. WorldOK'
  BY <1>t, <1>1, <1>3 DEF FinishJob, MachineFails, WorldOK
<1>6. left \in {0, 1} /\ (left = 1 => m \in Busy)
  BY DEF Busy
<1>7. /\ Cardinality(Busy) \in Nat /\ Cardinality(Busy') \in Nat
      /\ Cardinality(Busy') + left <= Cardinality(Busy)
  <2>1. CASE m \in Busy
    <3>1. Cardinality(Busy) \in Nat /\ Cardinality(Busy') = Cardinality(Busy) - 1
      BY <1>t, <1>4, <2>1, OneMoreOrLess
    <3>2. Cardinality(Busy') \in Nat
      <4>1. IsFiniteSet(Busy')
        BY <1>4, <1>t, FS_RemoveElement
      <4> QED
        BY <4>1, FS_CardinalityType
    <3> QED
      BY <1>6, <3>1, <3>2
  <2>2. CASE m \notin Busy
    <3>1. Busy' = Busy
      BY <1>4, <2>2
    <3>2. Cardinality(Busy) \in Nat /\ Cardinality(Busy') = Cardinality(Busy)
      BY <1>t, <3>1, FS_CardinalityType
    <3>3. left = 0
      BY <1>6, <2>2
    <3> QED
      BY <3>2, <3>3
  <2> QED
    BY <2>1, <2>2
<1> QED
  BY <1>t, <1>1, <1>2, <1>5, <1>6, <1>7 DEF WorldInv, WorldOK, JobsConserved, Jobs

\* Jobs are neither made nor lost: machines that claim, finish, hang and die never
\* account for more than the bound lets in.
LEMMA WorldInvariant ==
    ASSUME IsFiniteSet(Machines)
    PROVE  ReadinessSpec => []WorldInv
<1>1. ReadinessInit => WorldInv
  <2> SUFFICES ASSUME ReadinessInit PROVE WorldInv
    OBVIOUS
  <2>1. Busy = {}
    BY DEF ReadinessInit, Busy
  <2> QED
    BY <2>1, FS_EmptySet DEF ReadinessInit, WorldInv, WorldOK, JobsConserved, Jobs
<1>2. WorldInv /\ [ReadinessNext]_readinessVars => WorldInv'
  <2> SUFFICES ASSUME WorldInv, [ReadinessNext]_readinessVars PROVE WorldInv'
    OBVIOUS
  <2>t. WorldOK /\ JobsConserved
    BY DEF WorldInv
  <2>1. CASE EnqueueJob
    <3>1. WorldOK'
      BY <2>t, <2>1 DEF EnqueueJob, WorldOK
    <3>2. Busy' = Busy
      BY <2>1 DEF EnqueueJob, Busy
    <3>3. IsFiniteSet(Busy)
      BY FS_Subset DEF Busy
    <3>4. Cardinality(Busy) \in Nat /\ Cardinality(Busy') = Cardinality(Busy)
      BY <3>2, <3>3, FS_CardinalityType
    <3>5. /\ Jobs < MaxJobs /\ backlog'["queued"] = backlog["queued"] + 1
          /\ backlog'["abandoned"] = backlog["abandoned"]
      BY <2>t, <2>1 DEF EnqueueJob, WorldOK
    <3> QED
      BY <2>t, <3>1, <3>4, <3>5 DEF WorldInv, WorldOK, JobsConserved, Jobs
  <2>2. ASSUME NEW m \in Machines, MachineStarts(m)
        PROVE  WorldInv'
    <3>1. JobsConserved'
      BY <2>t, <2>2, NoJobMoves DEF MachineStarts, WorldOK
    <3>2. WorldOK'
      BY <2>t, <2>2 DEF MachineStarts, WorldOK
    <3> QED
      BY <3>1, <3>2 DEF WorldInv
  <2>3. ASSUME NEW d \in Dependency, Outage(d) \/ Restored(d)
        PROVE  WorldInv'
    <3>1. JobsConserved'
      BY <2>t, <2>3, NoJobMoves DEF Outage, Restored
    <3>2. WorldOK'
      <4>1. up' \in [Dependency -> BOOLEAN]
        BY <2>t, <2>3 DEF Outage, Restored, WorldOK
      <4>2. outages' \in 0 .. MaxOutages
        BY <2>t, <2>3 DEF Outage, Restored, WorldOK
      <4> QED
        BY <2>t, <2>3, <4>1, <4>2 DEF Outage, Restored, WorldOK
    <3> QED
      BY <3>1, <3>2 DEF WorldInv
  <2>4. ASSUME NEW m \in Machines, BeatJob(m) \/ HeartbeatLoop(m)
        PROVE  WorldInv'
    <3>1. JobsConserved'
      BY <2>t, <2>4, NoJobMoves DEF BeatJob, HeartbeatLoop, UpsertWorkerHeartbeat
    <3>2. WorldOK'
      BY <2>t, <2>4 DEF BeatJob, HeartbeatLoop, UpsertWorkerHeartbeat, WorldOK, Dependency
    <3> QED
      BY <3>1, <3>2 DEF WorldInv
  <2>5. CASE EnqueueRemuxJob \/ ProgressAges \/ BeatAges
    BY <2>t, <2>5, NoJobMoves DEF EnqueueRemuxJob, ProgressAges, BeatAges, WorldInv, WorldOK
  <2>6. CASE UNCHANGED world
    BY <2>t, <2>6, NoJobMoves DEF world, WorldInv, WorldOK
  <2>7. \A p \in Probes : ProbeStep(p) => UNCHANGED world
    BY DEF ProbeStep, CheckThen, CheckDb, CheckStorage, CheckWorker, CheckQueue, Report, LogTransition
  <2> QED
    BY <2>1, <2>2, <2>3, <2>4, <2>5, <2>6, <2>7, JobClaimStep, LetGoStep
       DEF ReadinessNext, WorkStep, readinessVars
<1> QED
  BY <1>1, <1>2, PTL DEF ReadinessSpec

\* The backlog never outgrows the jobs let in, and everything keeps its range.
THEOREM ReadinessTypes ==
    ASSUME IsFiniteSet(Machines), IsFiniteSet(Probes)
    PROVE  ReadinessSpec => []ReadinessTypeOK
<1>1. WorldInv /\ LedgerInv => ReadinessTypeOK
  <2> SUFFICES ASSUME WorldInv, LedgerInv PROVE ReadinessTypeOK
    OBVIOUS
  <2>1. IsFiniteSet(Busy)
    BY FS_Subset DEF Busy
  <2>2. Cardinality(Busy) \in Nat
    BY <2>1, FS_CardinalityType
  <2>3. \A s \in {"queued", "abandoned"} : backlog[s] \in 0 .. MaxJobs
    BY <2>2 DEF WorldInv, WorldOK, JobsConserved, Jobs
  <2> QED
    BY <2>3 DEF WorldInv, WorldOK, LedgerInv, ProbesOK, ReadinessTypeOK
<1> QED
  BY <1>1, WorldInvariant, LedgerInvariant, PTL
=============================================================================
