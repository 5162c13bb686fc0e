--------------------------- MODULE MCService_proofs ---------------------------
(***************************************************************************)
(* Theorems about MCService: every part of it behaves as its own module    *)
(* says, so what is proved there holds here, for every value of the        *)
(* constants.  Accounts has no module of proofs of its own: its theorems,  *)
(* for every set of keys, accounts, namespaces, instances and requests and *)
(* any number of edits, come first.                                        *)
(***************************************************************************)
EXTENDS MCService, Checksum_proofs, Readiness_proofs, Delivery_proofs, TLAPS

USE AccountsAssumption

------------------------------------------------------------------------------
\* The inductive invariant: every namespace in use has been configured, and so
\* has that of every request in flight and of every row it left

Configured(config) == \A k \in Kids : config.bindings[k].prefix => config.bindings[k].accounts \subseteq named

NamespaceInv ==
    /\ AccountsTypeOK
    /\ Configured(env)
    /\ \A i \in ApiInstances : Configured(loaded[i])
    /\ \A c \in Calls : call[c] # NoCall => call[c].account \in named
    /\ ProvisionedInNamespace

\* What a binding may be.
LEMMA BindingShape ==
    ASSUME NEW p \in AccountPattern \cup {Unbound}
    PROVE  p.prefix \in BOOLEAN /\ p.accounts \subseteq AccountIds
<1>1. CASE p = Unbound
  BY <1>1 DEF Unbound
<1>2. ASSUME NEW a \in AccountIds, p = Exact(a)
      PROVE  p.prefix \in BOOLEAN /\ p.accounts \subseteq AccountIds
  BY <1>2 DEF Exact
<1>3. ASSUME NEW ns \in Namespaces, p = Prefix(ns)
      PROVE  p.prefix \in BOOLEAN /\ p.accounts \subseteq AccountIds
  BY <1>3 DEF Prefix
<1> QED
  BY <1>1, <1>2, <1>3 DEF AccountPattern

\* An edit adds the accounts of every prefix pattern to those once named.
LEMMA EditNames ==
    ASSUME NEW new \in Configuration, Edit(new)
    PROVE  /\ named \subseteq named'
           /\ \A k \in Kids : new.bindings[k].prefix => new.bindings[k].accounts \subseteq named'
<1>1. named' = named \cup UNION {p.accounts : p \in {q \in {new.bindings[k] : k \in Kids} : q.prefix}}
  BY DEF Edit
<1>2. ASSUME NEW k \in Kids, new.bindings[k].prefix, NEW a \in new.bindings[k].accounts
      PROVE  a \in named'
  <2>1. new.bindings[k] \in {q \in {new.bindings[j] : j \in Kids} : q.prefix}
    BY <1>2
  <2>2. new.bindings[k].accounts \in {p.accounts : p \in {q \in {new.bindings[j] : j \in Kids} : q.prefix}}
    BY <2>1
  <2> QED
    BY <1>1, <1>2, <2>2
<1> QED
  BY <1>1, <1>2

\* An edit keeps the invariant.
LEMMA EditStep ==
    ASSUME NamespaceInv, NEW new \in Configuration, Edit(new)
    PROVE  NamespaceInv'
<1>1. /\ named \subseteq named'
      /\ \A k \in Kids : new.bindings[k].prefix => new.bindings[k].accounts \subseteq named'
  BY EditNames
<1>2. named' \subseteq AccountIds
  <2>1. \A k \in Kids : new.bindings[k].accounts \subseteq AccountIds
    BY BindingShape DEF Configuration
  <2> QED
    BY <2>1 DEF NamespaceInv, AccountsTypeOK, Edit
<1>3. /\ env' = new /\ edits' = edits + 1 /\ edits < MaxEdits
      /\ UNCHANGED <<loaded, account, call>>
  BY DEF Edit
<1>4. AccountsTypeOK'
  <2>1. edits' \in 0 .. MaxEdits
    BY <1>3 DEF NamespaceInv, AccountsTypeOK
  <2> QED
    BY <1>2, <1>3, <2>1 DEF NamespaceInv, AccountsTypeOK
<1>5. Configured(env)'
  BY <1>1, <1>3 DEF Configured
<1>6. \A i \in ApiInstances : Configured(loaded[i])'
  BY <1>1, <1>3 DEF NamespaceInv, Configured
<1> QED
  BY <1>1, <1>3, <1>4, <1>5, <1>6 DEF NamespaceInv, ProvisionedInNamespace

\* Every entry of the environment that is typed in is a configuration.
LEMMA EditsAreConfigurations ==
    ASSUME AccountsTypeOK
    PROVE  /\ \A keys \in SUBSET Kids :
                [env EXCEPT !.trusts = keys, !.malformed = @ \ {"keyset"}] \in Configuration
           /\ \A k \in Kids, p \in AccountPattern \cup {Unbound} :
                [env EXCEPT !.bindings[k] = p, !.malformed = @ \ {"bindings"}] \in Configuration
           /\ [env EXCEPT !.trusts = {}, !.malformed = @ \cup {"keyset"}] \in Configuration
           /\ [env EXCEPT !.malformed = @ \cup {"bindings"}] \in Configuration
BY DEF AccountsTypeOK, Configuration

\* A request past the gates claims an account that its key's prefix matches.
LEMMA ClaimIsNamed ==
    ASSUME NamespaceInv, NEW c \in Calls, NEW i \in ApiInstances, NEW k \in Kids, NEW a \in AccountIds,
           handleProvisionAccount(c, i, k, a)
    PROVE  a \in named
<1>1. PICK key \in KeyFor(loaded[i], k) :
         loaded[i].bindings[key] = Unbound \/ a \in loaded[i].bindings[key].accounts
  BY DEF handleProvisionAccount, Verify
<1>2. loaded[i].bindings[key].prefix
  BY <1>1 DEF handleProvisionAccount, NamespaceIssuer
<1>3. key \in Kids
  BY <1>1 DEF KeyFor
<1>4. loaded[i].bindings[key] # Unbound
  BY <1>2 DEF Unbound
<1> QED
  BY <1>1, <1>2, <1>3, <1>4 DEF NamespaceInv, Configured

\* Every step keeps the invariant.
LEMMA NamespaceStep ==
    ASSUME NamespaceInv, [AccountsNext]_accountsVars
    PROVE  NamespaceInv'
<1>t. AccountsTypeOK
  BY DEF NamespaceInv
<1>1. CASE UNCHANGED accountsVars
  BY <1>1 DEF NamespaceInv, AccountsTypeOK, Configured, ProvisionedInNamespace, accountsVars
<1>2. CASE EditKeyset \/ EditBindings \/ MistypeKeyset \/ MistypeBindings
  <2>1. PICK new \in Configuration : Edit(new)
    BY <1>t, <1>2, EditsAreConfigurations DEF EditKeyset, EditBindings, MistypeKeyset, MistypeBindings
  <2> QED
    BY <2>1, EditStep
<1>3. ASSUME NEW a \in AccountIds, CreateAccount(a)
      PROVE  NamespaceInv'
  BY <1>3 DEF CreateAccount, NamespaceInv, AccountsTypeOK, Configured, ProvisionedInNamespace
<1>4. ASSUME NEW i \in ApiInstances, Restart(i)
      PROVE  NamespaceInv'
  <2>1. NoKeys \in Configuration /\ \A k \in Kids : ~NoKeys.bindings[k].prefix
    BY DEF NoKeys, Configuration, Unbound
  <2>2. LoadEnv(i) \in Configuration
    BY <1>t, <2>1 DEF LoadEnv, AccountsTypeOK
  <2>3. Configured(LoadEnv(i))
    BY <2>1 DEF LoadEnv, NamespaceInv, Configured
  <2>4. loaded' = [loaded EXCEPT ![i] = LoadEnv(i)] /\ UNCHANGED <<env, account, call, named, edits>>
    BY <1>4 DEF Restart
  <2>5. AccountsTypeOK'
    BY <1>t, <2>2, <2>4 DEF AccountsTypeOK
  <2>6. \A j \in ApiInstances : Configured(loaded[j])'
    BY <1>t, <2>3, <2>4 DEF NamespaceInv, AccountsTypeOK, Configured
  <2> QED
    BY <2>4, <2>5, <2>6 DEF NamespaceInv, Configured, ProvisionedInNamespace
<1>5. ASSUME NEW c \in Calls, NEW i \in ApiInstances, NEW k \in Kids, NEW a \in AccountIds,
             handleProvisionAccount(c, i, k, a)
      PROVE  NamespaceInv'
  <2>1. a \in named
    BY <1>5, ClaimIsNamed
  <2> QED
    BY <1>t, <1>5, <2>1 DEF handleProvisionAccount, NamespaceInv, AccountsTypeOK, Configured, ProvisionedInNamespace
<1>6. ASSUME NEW c \in Calls, ProvisionAccount(c)
      PROVE  NamespaceInv'
  <2>1. call[c] \in [key: Kids, account: AccountIds] /\ call[c].account \in named
    BY <1>t, <1>6 DEF ProvisionAccount, AccountsTypeOK, NamespaceInv
  <2> QED
    BY <1>t, <1>6, <2>1 DEF ProvisionAccount, InsertAccount, NoRow, NamespaceInv, AccountsTypeOK,
         Configured, ProvisionedInNamespace
<1> QED
  BY <1>1, <1>2, <1>3, <1>4, <1>5, <1>6 DEF AccountsNext

------------------------------------------------------------------------------
\* Theorems

\* The invariant holds of every behaviour.
THEOREM NamespaceInvariant == AccountsSpec => []NamespaceInv
<1>1. AccountsInit => NamespaceInv
  BY DEF AccountsInit, NamespaceInv, AccountsTypeOK, Configured, ProvisionedInNamespace, NoKeys, Unbound,
         Configuration, NoRow
<1>2. NamespaceInv /\ [AccountsNext]_accountsVars => NamespaceInv'
  BY NamespaceStep
<1> QED
  BY <1>1, <1>2, PTL DEF AccountsSpec

\* An issuer provisions accounts of a namespace that was configured for it, and
\* no others, although instances run with configurations of different ages.
THEOREM IssuersStayInNamespace == AccountsSpec => []ProvisionedInNamespace
<1>1. NamespaceInv => ProvisionedInNamespace
  BY DEF NamespaceInv
<1> QED
  BY <1>1, NamespaceInvariant, PTL

\* Provisioning never undoes what an operator set.
THEOREM OperatorSettingsKept == AccountsSpec => SettingsKept
<1>1. ASSUME NamespaceInv, [AccountsNext]_accountsVars, NEW a \in AccountIds, account[a].settings = "chosen"
      PROVE  account'[a].settings = "chosen"
  <2>1. UNCHANGED account \/ (\E b \in AccountIds : CreateAccount(b)) \/ (\E c \in Calls : ProvisionAccount(c))
    BY <1>1 DEF AccountsNext, EditKeyset, EditBindings, MistypeKeyset, MistypeBindings, Edit, Restart,
           handleProvisionAccount, accountsVars
  <2>2. ASSUME NEW b \in AccountIds, CreateAccount(b)
        PROVE  account'[a].settings = "chosen"
    BY <1>1, <2>2 DEF CreateAccount, NamespaceInv, AccountsTypeOK
  <2>3. ASSUME NEW c \in Calls, ProvisionAccount(c)
        PROVE  account'[a].settings = "chosen"
    BY <1>1, <2>3 DEF ProvisionAccount, InsertAccount, NoRow, NamespaceInv, AccountsTypeOK
  <2> QED
    BY <1>1, <2>1, <2>2, <2>3
<1>2. NamespaceInv /\ [AccountsNext]_accountsVars =>
        [\A a \in AccountIds : account[a].settings = "chosen" => account'[a].settings = "chosen"]_accountsVars
  BY <1>1
<1> QED
  BY <1>2, NamespaceInvariant, PTL DEF AccountsSpec, SettingsKept

\* The environment, the instances and the rows are what they should be.
THEOREM AccountsTypes == AccountsSpec => []AccountsTypeOK
<1>1. NamespaceInv => AccountsTypeOK
  BY DEF NamespaceInv
<1> QED
  BY <1>1, NamespaceInvariant, PTL

------------------------------------------------------------------------------
\* The parts

\* Every step is one of a single part, or of none.
LEMMA PartSteps ==
    ASSUME [Next]_vars
    PROVE  /\ [ChecksumNext]_checksumVars
           /\ [ReadinessNext]_readinessVars
           /\ [AccountsNext]_accountsVars
           /\ [DeliveryNext]_query
<1>1. CASE UNCHANGED vars
  BY <1>1 DEF vars
<1>2. CASE OfDelivery(DeliveryNext)
  BY <1>2 DEF OfDelivery
<1>3. CASE OfChecksum(ChecksumNext)
  BY <1>3 DEF OfChecksum
<1>4. CASE OfReadiness(ReadinessNext)
  BY <1>4 DEF OfReadiness
<1>5. CASE OfAccounts(AccountsNext)
  BY <1>5 DEF OfAccounts
<1> QED
  BY <1>1, <1>2, <1>3, <1>4, <1>5 DEF Next

\* A behaviour of the four together is one of each.
THEOREM PartsBehave == Spec => ChecksumSpec /\ ReadinessSpec /\ AccountsSpec
<1>1. Init => ChecksumInit /\ ReadinessInit /\ AccountsInit
  BY DEF Init
<1>2. [Next]_vars => [ChecksumNext]_checksumVars /\ [ReadinessNext]_readinessVars
                        /\ [AccountsNext]_accountsVars
  BY PartSteps
<1> QED
  BY <1>1, <1>2, PTL DEF Spec, ChecksumSpec, ReadinessSpec, AccountsSpec

------------------------------------------------------------------------------
\* Delivery requests

\* What is asked is a request that the program could be sent.
QueryOK == query \in Queries \cup {NoQuery}

\* The invariant holds of every behaviour.
LEMMA QueryInvariant == Spec => []QueryOK
<1>1. Init => QueryOK
  BY DEF Init, QueryOK
<1>2. QueryOK /\ [Next]_vars => QueryOK'
  BY PartSteps DEF QueryOK, DeliveryNext
<1> QED
  BY <1>1, <1>2, PTL DEF Spec

\* Every asset that is asked for is one that Delivery knows.
LEMMA QueriesAreRequests ==
    ASSUME QueryOK, query # NoQuery
    PROVE  /\ query.service \in ServiceConfig
           /\ query.intent \in KnownIntents \ {"original"}
           /\ query.device \in {"mobile", "desktop"}
           /\ query.asset \in Asset(Nat \X Nat)
<1>1. query \in Queries
  BY DEF QueryOK
<1>2. Sizes \subseteq Nat \X Nat /\ Unprobed \in Nat \X Nat /\ <<1920, 1080>> \in Nat \X Nat
  BY DEF Sizes, Unprobed
<1>3. NoRows \in [avIntents -> RowStatus]
  BY DEF NoRows, RowStatus
<1>4. Images \subseteq Asset(Nat \X Nat) /\ Documents \subseteq Asset(Nat \X Nat)
  BY <1>2, <1>3 DEF Images, Documents, Asset, KnownMediaKinds
<1>5. ASSUME NEW kind \in {"audio", "video"}, NEW statuses \in SUBSET [avIntents -> RowStatus],
             NEW sizes \in SUBSET (Nat \X Nat)
      PROVE  AudioOrVideo(kind, statuses, sizes) \subseteq Asset(Nat \X Nat)
  BY <1>2 DEF AudioOrVideo, Asset, KnownMediaKinds
<1>6. AudioRows \subseteq [avIntents -> RowStatus] /\ VideoRows \subseteq [avIntents -> RowStatus]
  BY DEF AudioRows, VideoRows
<1>7. /\ AudioOrVideo("audio", AudioRows, {Unprobed}) \subseteq Asset(Nat \X Nat)
      /\ AudioOrVideo("video", VideoRows, Sizes) \subseteq Asset(Nat \X Nat)
  BY <1>2, <1>5, <1>6
<1> QED
  BY <1>1, <1>4, <1>7 DEF Queries

\* Every URL answered is on the host of its kind and intent and reads what that
\* host may read; the A/V intents of an image are answered on the engine too.
THEOREM EveryRequestRouted == Spec => []EveryUrlOnItsHost
<1>1. QueryOK => EveryUrlOnItsHost
  BY QueriesAreRequests, UrlsOnTheirHost DEF EveryUrlOnItsHost, Asked
<1> QED
  BY <1>1, QueryInvariant, PTL

\* A grant opens what the owner's own request serves.
THEOREM EveryGrantHonoured == Spec => []EveryGrantServesTheSame
<1>1. QueryOK => EveryGrantServesTheSame
  BY QueriesAreRequests, GrantsServeTheSame DEF EveryGrantServesTheSame, Asked
<1> QED
  BY <1>1, QueryInvariant, PTL

\* A video's image intents stand or fall with its poster.
THEOREM EveryLadderAnswered == Spec => []EveryLadderFollowsPoster
<1>1. QueryOK => EveryLadderFollowsPoster
  BY QueriesAreRequests, LaddersFollowPosters DEF EveryLadderFollowsPoster, Asked
<1> QED
  BY <1>1, QueryInvariant, PTL

\* No image that is asked for is larger than the wall.
THEOREM EveryImageFits == Spec => []EveryImageWithinWall
<1>1. QueryOK => EveryImageWithinWall
  BY QueriesAreRequests, ImagesWithinWall DEF EveryImageWithinWall, Asked
<1> QED
  BY <1>1, QueryInvariant, PTL

------------------------------------------------------------------------------
\* The components, together

\* Every component keeps its variables in their ranges, whatever the others do.
THEOREM ServiceTypes ==
    ASSUME IsFiniteSet(Machines), IsFiniteSet(Probes)
    PROVE  Spec => []TypesOK
<1>1. QueryOK /\ ChecksumTypeOK /\ ReadinessTypeOK /\ AccountsTypeOK => TypesOK
  BY DEF TypesOK, QueryOK
<1>2. ReadinessSpec => []ReadinessTypeOK
  BY ReadinessTypes
<1> QED
  BY <1>1, <1>2, PartsBehave, QueryInvariant, ChecksumTypes, AccountsTypes, PTL
=============================================================================
