-------------------------- MODULE JobQueue_refines --------------------------
(***************************************************************************)
(* The queue and its workers implement Derivation.  Work is owed while the *)
(* jobs table has a queued or running job; the answer is what the delivery *)
(* resolution makes of the rendition row.                                  *)
(***************************************************************************)
EXTENDS JobQueue

Front == INSTANCE Delivery

Live(t) == {j \in JobsOf(t) : jobs[j].status \in {"queued", "running"}}

Answered(t) ==
    LET resolution == Front!avResolution("video", t[2], renditions[t].status)
    IN  IF Front!IsUrl(resolution) THEN "served" ELSE resolution.reason

Derived == INSTANCE Derivation WITH
    Rendered <- Target,
    owed     <- [t \in Target |-> Live(t) # {}],
    answer   <- [t \in Target |-> Answered(t)]

\* Requests, retries, crashes, reclaims, refusals and authored files, as long as
\* no lease expires under a live worker and no two requests insert for one target
\* at once (OneInsert), come down to Derivation: a rendition is served in the step
\* that settles its work, an answer never goes back, and what is served owes
\* nothing.
ImplementsDerivation == Derived!DerivationSpec
=============================================================================
