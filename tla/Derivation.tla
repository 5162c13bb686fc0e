----------------------------- MODULE Derivation -----------------------------
(***************************************************************************)
(* What the derivation queue promises of a rendition, with no job, worker, *)
(* lease or retry in sight: whether work on it is owed, and what the owner *)
(* is answered meanwhile.                                                  *)
(***************************************************************************)
CONSTANT Rendered    \* the renditions: pairs of an asset and an A/V intent

VARIABLES
    owed,     \* a job is queued or running for it
    answer    \* what a delivery request is told

derivationVars == <<owed, answer>>

Answers == {"pending", "not_derived", "refused", "served"}

DerivationInit ==
    /\ owed = [t \in Rendered |-> FALSE]
    /\ answer = [t \in Rendered |-> "pending"]

\* Work is asked for, unless the rendition is served already.
Ask(t) ==
    /\ ~owed[t] /\ answer[t] # "served"
    /\ owed' = [owed EXCEPT ![t] = TRUE]
    /\ UNCHANGED answer

\* The upload declined derivation: nothing comes unless it is asked for.
Decline(t) ==
    /\ answer[t] = "pending"
    /\ answer' = [answer EXCEPT ![t] = "not_derived"]
    /\ UNCHANGED owed

\* The source is over a ceiling.  The work is not done with yet: a file that is
\* authored in time is rendered instead.
Refuse(t) ==
    /\ owed[t] /\ answer[t] # "served"
    /\ answer' = [answer EXCEPT ![t] = "refused"]
    /\ UNCHANGED owed

\* The rendition appears and the work is done, in one step.
Serve(t) ==
    /\ owed[t] /\ answer[t] # "served"
    /\ owed' = [owed EXCEPT ![t] = FALSE]
    /\ answer' = [answer EXCEPT ![t] = "served"]

\* Refused, or out of attempts.
Close(t) ==
    /\ owed[t] /\ answer[t] # "served"
    /\ owed' = [owed EXCEPT ![t] = FALSE]
    /\ UNCHANGED answer

DerivationNext ==
    \E t \in Rendered : Ask(t) \/ Decline(t) \/ Refuse(t) \/ Serve(t) \/ Close(t)

DerivationSpec == DerivationInit /\ [][DerivationNext]_derivationVars
=============================================================================
