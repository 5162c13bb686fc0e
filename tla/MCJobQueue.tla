----------------------------- MODULE MCJobQueue -----------------------------
(***************************************************************************)
(* Instances of JobQueue for TLC.                                          *)
(***************************************************************************)
EXTENDS JobQueue_refines, TLC

CONSTANTS a1, w1, w2, h1, h2

\* The n-th authored file breaches its ceilings.
FirstFileUnfit  == {<<t, 1>> : t \in Target}
SecondFileUnfit == {<<t, 2>> : t \in Target}

\* No action reads assets.probe_status, so states that differ in it alone have
\* the same successors.
AllButProbe == <<jobs, renditions, objects, authored, worker, handler, reclaims>>

Symmetric == Permutations(Workers) \cup Permutations(Handlers)
=============================================================================
