------------------------------ MODULE Accounts ------------------------------
(***************************************************************************)
(* Which keys an API instance trusts and which accounts each may claim     *)
(* (internal/auth/token.go, internal/auth/binding.go, read from the        *)
(* environment by internal/service/config.go), and the account rows that   *)
(* a namespace issuer or an operator provisions                            *)
(* (internal/service/accounts.go, internal/store/postgres.go).             *)
(*                                                                         *)
(* The environment is edited one entry at a time and is read only when an  *)
(* instance boots, so the instances of a deployment may differ.  A pattern *)
(* is the set of accounts it matches and whether it is a prefix.           *)
(*                                                                         *)
(* Names of the form Name_Variant are faulty versions of Name that the     *)
(* properties rule out; nothing else uses them.                            *)
(***************************************************************************)
EXTENDS Integers

CONSTANTS
    Kids,             \* named keys, and the legacy key, which has no kid
    LegacyKeyName,
    AccountIds,
    Namespaces,       \* the sets of accounts that a prefix pattern may match
    ApiInstances,
    Calls,            \* PUT /v1/account requests in flight at the same time
    RequireBinding,   \* PLATE_JWT_REQUIRE_KEY_BINDING
    MaxEdits          \* bound: edits of the environment

ASSUME AccountsAssumption ==
    /\ LegacyKeyName \in Kids /\ Namespaces \subseteq SUBSET AccountIds
    /\ RequireBinding \in BOOLEAN /\ MaxEdits \in Nat

VARIABLES
    env,       \* PLATE_JWT_PUBLIC_KEY(S) and PLATE_JWT_KEY_ACCOUNTS
    loaded,    \* what each instance booted with; trusts is empty when it is down
    account,   \* the accounts table: who inserted the row, its bucket and prefix
    call,      \* each request past its gates, the key it came with and its claim
    named,     \* history: accounts some configured namespace has matched
    edits

accountsVars == <<env, loaded, account, call, named, edits>>

Unbound    == [prefix |-> FALSE, accounts |-> {}]
Exact(a)   == [prefix |-> FALSE, accounts |-> {a}]
Prefix(ns) == [prefix |-> TRUE, accounts |-> ns]
AccountPattern == {Exact(a) : a \in AccountIds} \cup {Prefix(ns) : ns \in Namespaces}
Configuration  == [trusts: SUBSET Kids, bindings: [Kids -> AccountPattern \cup {Unbound}],
                   malformed: SUBSET {"keyset", "bindings"}]

NoRow  == [by |-> "nobody", settings |-> "default"]
NoCall == [key |-> "none", account |-> "none"]

AccountsTypeOK ==
    /\ env \in Configuration /\ loaded \in [ApiInstances -> Configuration]
    /\ account \in [AccountIds -> [by: {"nobody", "issuer", "operator"},
                                   settings: {"default", "chosen"}]]
    /\ call \in [Calls -> [key: Kids, account: AccountIds] \cup {NoCall}]
    /\ named \subseteq AccountIds /\ edits \in 0 .. MaxEdits

NoKeys == [trusts |-> {}, bindings |-> [k \in Kids |-> Unbound], malformed |-> {}]

AccountsInit ==
    /\ env = NoKeys
    /\ loaded = [i \in ApiInstances |-> NoKeys]
    /\ account = [a \in AccountIds |-> NoRow]
    /\ call = [c \in Calls |-> NoCall]
    /\ named = {} /\ edits = 0

------------------------------------------------------------------------------
\* The operator

Edit(new) ==
    /\ edits < MaxEdits /\ new # env
    /\ env' = new /\ edits' = edits + 1
    /\ named' = named \cup UNION {p.accounts : p \in {q \in {new.bindings[k] : k \in Kids} : q.prefix}}
    /\ UNCHANGED <<loaded, account, call>>

EditKeyset ==
    \E keys \in SUBSET Kids :
        Edit([env EXCEPT !.trusts = keys, !.malformed = @ \ {"keyset"}])
EditBindings ==
    \E k \in Kids, p \in AccountPattern \cup {Unbound} :
        Edit([env EXCEPT !.bindings[k] = p, !.malformed = @ \ {"bindings"}])

\* A bad base64 key or name, a pair without "=", a duplicate, a bare "*".
MistypeKeyset   == Edit([env EXCEPT !.trusts = {}, !.malformed = @ \cup {"keyset"}])
MistypeBindings == Edit([env EXCEPT !.malformed = @ \cup {"bindings"}])

\* CreateAccount, the CLI's upsert.
CreateAccount(a) ==
    /\ account' = [account EXCEPT ![a] =
                     [by |-> IF @.by = "nobody" THEN "operator" ELSE @.by, settings |-> "chosen"]]
    /\ UNCHANGED <<env, loaded, call, named, edits>>

------------------------------------------------------------------------------
\* An instance boots

UnboundKeys(config) == {k \in config.trusts : config.bindings[k] = Unbound}
BoundKeys(config)   == {k \in Kids : config.bindings[k] # Unbound}

\* NewBoundKeysetVerifier and LoadEnv: no entry is dropped silently, a binding
\* must name a trusted key, and under RequireBinding every trusted key needs one.
Bootable(config) ==
    /\ config.malformed = {}
    /\ BoundKeys(config) \subseteq config.trusts
    /\ RequireBinding => UnboundKeys(config) = {}

\* An instance that refuses to boot is down: it does not go on as it was.
LoadEnv_KeepsOld(i) == IF Bootable(env) THEN env ELSE loaded[i]
LoadEnv(i)          == IF Bootable(env) THEN env ELSE NoKeys

Restart(i) ==
    /\ loaded[i] # LoadEnv(i)
    /\ loaded' = [loaded EXCEPT ![i] = LoadEnv(i)]
    /\ UNCHANGED <<env, account, call, named, edits>>

------------------------------------------------------------------------------
\* A request

\* Key selection: a token that names a key is never tried with the legacy one.
KeyFor_FallsBack(config, k) == IF k \in config.trusts THEN {k} ELSE config.trusts \cap {LegacyKeyName}
KeyFor(config, k)           == config.trusts \cap {k}

Verify(config, k, a) ==
    \E key \in KeyFor(config, k) :
        config.bindings[key] = Unbound \/ a \in config.bindings[key].accounts

\* Only a key bound by a prefix makes its account: not an unbound one, which
\* could claim any account, nor one bound to an account an operator made.
NamespaceIssuer_AnyBound(config, k) ==
    \A key \in KeyFor(config, k) : config.bindings[key] # Unbound
NamespaceIssuer(config, k) ==
    \A key \in KeyFor(config, k) : config.bindings[key].prefix

\* The gates are passed with what the instance holds then; the row comes later.
handleProvisionAccount(c, i, k, a) ==
    /\ call[c] = NoCall
    /\ Verify(loaded[i], k, a) /\ NamespaceIssuer(loaded[i], k)
    /\ call' = [call EXCEPT ![c] = [key |-> k, account |-> a]]
    /\ UNCHANGED <<env, loaded, account, named, edits>>

\* INSERT ... ON CONFLICT DO NOTHING.
InsertAccount_Upsert(row) == [row EXCEPT !.by = IF @ = "nobody" THEN "issuer" ELSE @,
                                         !.settings = "default"]
InsertAccount(row) == IF row = NoRow THEN [NoRow EXCEPT !.by = "issuer"] ELSE row

ProvisionAccount(c) ==
    /\ call[c] # NoCall
    /\ account' = [account EXCEPT ![call[c].account] = InsertAccount(@)]
    /\ call' = [call EXCEPT ![c] = NoCall]
    /\ UNCHANGED <<env, loaded, named, edits>>

AccountsNext ==
    \/ EditKeyset \/ EditBindings \/ MistypeKeyset \/ MistypeBindings
    \/ \E a \in AccountIds : CreateAccount(a)
    \/ \E i \in ApiInstances : Restart(i)
    \/ \E c \in Calls, i \in ApiInstances, k \in Kids, a \in AccountIds :
        handleProvisionAccount(c, i, k, a)
    \/ \E c \in Calls : ProvisionAccount(c)

AccountsSpec == AccountsInit /\ [][AccountsNext]_accountsVars

------------------------------------------------------------------------------
\* What must hold

\* A row that no operator made lies in a namespace an operator configured,
\* whichever configuration its instance was still running with.
ProvisionedInNamespace ==
    \A a \in AccountIds : account[a].by = "issuer" => a \in named

\* Settings an operator chose survive every later provisioning of the account.
SettingsKept ==
    [][\A a \in AccountIds :
        account[a].settings = "chosen" => account'[a].settings = "chosen"]_accountsVars

\* A key retired for good is useless in the end: every instance has restarted
\* or refused to, and no request made with it, not even under the legacy key,
\* gets past the gates.
RetiredKeyStops ==
    \A k \in Kids :
        <>[](k \notin env.trusts) => <>[](\A c \in Calls : call[c].key # k)
=============================================================================
