----------------------------- MODULE MCService -----------------------------
(***************************************************************************)
(* Instances of the components that share no state with each other:        *)
(* Delivery, Checksum, Readiness and Accounts.  Each behaviour is one of   *)
(* them, chosen in the initial state; the others stay as they were, so the *)
(* state space is the sum of the four and not their product.               *)
(***************************************************************************)
EXTENDS Delivery, Checksum, Readiness, Accounts

\* Sizes on both sides of every cap of the preset ladder, of every band of the
\* deepest rung and of its worst case, in both orientations, and not probed.
Sizes == {Unprobed, <<1, 9000>>, <<300, 200>>, <<1024, 1400>>, <<2448, 2449>>,
          <<4000, 3000>>, <<4898, 4900>>, <<7500, 6000>>, <<6001, 7500>>, <<6000, 9000>>,
          <<9600, 6000>>, <<9600, 6001>>, <<6196, 3872>>, <<12000, 8000>>}

VARIABLES
    part,    \* the component this behaviour is of
    query    \* the delivery request being answered

vars == <<part, query, checksumVars, readinessVars, accountsVars>>

------------------------------------------------------------------------------
\* One delivery request after another, of any asset a database can hold

NoRows == [i \in avIntents |-> "none"]

Images    == {[kind |-> "image", deleted |-> d, rows |-> NoRows,
               size |-> [vault |-> s, poster |-> Unprobed]] : d \in BOOLEAN, s \in Sizes}
Documents == {[kind |-> "document", deleted |-> d, rows |-> NoRows,
               size |-> [vault |-> Unprobed, poster |-> Unprobed]] : d \in BOOLEAN}
AudioOrVideo(kind, statuses, sizes) ==
    {[kind |-> kind, deleted |-> d, rows |-> r,
      size |-> [vault |-> <<1920, 1080>>, poster |-> IF r["poster"] = "ready" THEN s ELSE Unprobed]] :
        d \in BOOLEAN, r \in statuses, s \in sizes}
AudioRows == {r \in [avIntents -> RowStatus] : r["poster"] = "none" /\ r["loop"] = "none"}
\* The loop's row and the detail's are looked up alike.
VideoRows == {r \in [avIntents -> RowStatus] : r["loop"] = r["detail"]}

Queries == [service: ServiceConfig, intent: KnownIntents \ {"original"},
            device: {"mobile", "desktop"},
            asset: Images \cup Documents \cup AudioOrVideo("audio", AudioRows, {Unprobed})
                   \cup AudioOrVideo("video", VideoRows, Sizes)]
NoQuery == [intent |-> "none"]

DeliveryNext == \/ query = NoQuery /\ query' \in Queries
                \/ query # NoQuery /\ query' = NoQuery

------------------------------------------------------------------------------
Init == /\ part \in {"delivery", "checksum", "readiness", "accounts"}
        /\ query = NoQuery
        /\ ChecksumInit /\ (part # "checksum" => \A a \in ChecksumAssets : sums[a] = NoSum)
        /\ ReadinessInit /\ AccountsInit

OfDelivery(A)  == part = "delivery" /\ A
                  /\ UNCHANGED <<part, checksumVars, readinessVars, accountsVars>>
OfChecksum(A)  == part = "checksum" /\ A
                  /\ UNCHANGED <<part, query, readinessVars, accountsVars>>
OfReadiness(A) == part = "readiness" /\ A
                  /\ UNCHANGED <<part, query, checksumVars, accountsVars>>
OfAccounts(A)  == part = "accounts" /\ A
                  /\ UNCHANGED <<part, query, checksumVars, readinessVars>>

Next == \/ OfDelivery(DeliveryNext) \/ OfChecksum(ChecksumNext)
        \/ OfReadiness(ReadinessNext) \/ OfAccounts(AccountsNext)

\* Loops tick, requests are answered and time passes; the operator, the client
\* and the faults of the environment owe nothing.
Fairness ==
    /\ \A s \in Sweeps : WF_checksumVars(part = "checksum" /\ SweepStep(s))
    /\ \A a \in ChecksumAssets :
        /\ WF_checksumVars(part = "checksum" /\ BackoffEnds(a))
        /\ WF_checksumVars(part = "checksum" /\ DeriveEnds(a))
    /\ \A p \in Probes : WF_readinessVars(part = "readiness" /\ ProbeStep(p))
    /\ \A m \in Machines :
        /\ WF_readinessVars(part = "readiness" /\ WorkStep(m))
        /\ WF_readinessVars(part = "readiness" /\ HeartbeatLoop(m))
    /\ WF_readinessVars(part = "readiness" /\ BeatAges)
    /\ WF_readinessVars(part = "readiness" /\ ProgressAges)
    /\ \A i \in ApiInstances : WF_accountsVars(part = "accounts" /\ Restart(i))
    /\ \A c \in Calls : WF_accountsVars(part = "accounts" /\ ProvisionAccount(c))

Spec == Init /\ [][Next]_vars /\ Fairness

------------------------------------------------------------------------------
\* Every component keeps its variables in their ranges.
TypesOK == ChecksumTypeOK /\ ReadinessTypeOK /\ AccountsTypeOK
           /\ query \in Queries \cup {NoQuery}

Asked(P(_, _, _, _)) ==
    query # NoQuery => P(query.service, query.intent, query.device, query.asset)

\* The properties of Delivery, of every request.
EveryUrlOnItsHost        == Asked(OnItsHost)
EveryGrantServesTheSame  == Asked(GrantServesTheSame)
EveryLadderFollowsPoster == Asked(LadderFollowsPoster)
EveryImageWithinWall     == Asked(WithinWall)

\* StrandedIsReported, DeadIsReported and StuckIsReported, of the behaviours
\* whose machines and probes move: of a fleet that is dead, or that hangs while
\* clients go on authoring files (the first fails) or have stopped.
StrandedFleetIsReported == part = "readiness" => StrandedIsReported
DeadFleetIsReported     == part = "readiness" => DeadIsReported
StuckFleetIsReported    == part = "readiness" => StuckIsReported
=============================================================================
