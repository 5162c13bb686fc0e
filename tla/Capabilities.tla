---------------------------- MODULE Capabilities ----------------------------
(***************************************************************************)
(* The capabilities that deliver media outside an account: grants,         *)
(* exports and the owner's original, from the request that mints a signed  *)
(* URL to the request that uses it (internal/service/handlers.go,          *)
(* exports.go, grantcache.go, sign.go, the grant and export statements of  *)
(* internal/store/postgres.go).                                            *)
(*                                                                         *)
(* One grant, one export and a few assets of one account.  Every API       *)
(* instance caches grant verdicts; a request stops for any time between    *)
(* its reads.  Time is a counter: a request notes it where the code calls  *)
(* time.Now().  A signature is what it covers: nobody else can mint one.   *)
(*                                                                         *)
(* Names of the form Name_Variant are faulty versions of Name that the     *)
(* properties rule out; the specification does not use them.               *)
(***************************************************************************)
EXTENDS Integers, FiniteSets

CONSTANTS
    Assets,         \* assets of the account
    Images,         \* those delivered by imgproxy, which enforces expiry alone
    Granted,        \* the grant's frozen set
    Exported,       \* the set an export is asked for
    Instances,      \* API processes, each with its own verdict cache
    Requests,       \* requests that may be in flight at the same time
    GrantExpires,   \* grants.expires
    ExportExpires,  \* exports.expires
    CacheTTL,       \* grantCache.ttl
    UrlTTL,         \* Service.grantURLTTL
    ImageCap,       \* GrantedImageMaxTTL
    Horizon,        \* bound: the clock stops here
    MaxUrls         \* bound: signed URLs minted

ASSUME SetsAssumption  == Images \subseteq Assets /\ Granted \subseteq Assets /\ Exported \subseteq Assets
ASSUME TimesAssumption == /\ GrantExpires \in Nat /\ ExportExpires \in Nat
                          /\ CacheTTL \in Nat \ {0}
                          /\ UrlTTL \in Nat \ {0} /\ ImageCap \in Nat /\ UrlTTL <= ImageCap
                          /\ Horizon \in Nat /\ MaxUrls \in Nat

VARIABLES
    now,        \* the clock
    revokedAt,  \* grants.revoked_at
    export,     \* the export's frozen set, and whether it is revoked
    deletedAt,  \* assets.deleted_at
    cache,      \* grantCache.items of each instance
    urls,       \* signed URLs at large; "begun" is when their minting began
    request     \* what each request is doing

vars == <<now, revokedAt, export, deletedAt, cache, urls, request>>

------------------------------------------------------------------------------
Never == -1
Idle  == [pc |-> "idle"]
Url   == [kind: {"granted", "original", "image", "export"}, asset: Assets, exp: Nat, begun: Nat]

NoEntry == [live |-> FALSE, expires |-> 0]

\* "mint" answers a signed URL, "fetch" uses one at GET /v1/download.
Busy == [pc: {"check", "read", "fill_live", "fill_dead", "asset", "sign", "serve"},
         use: {"mint", "fetch"}, kind: {"granted", "original", "export"},
         asset: Assets, instance: Instances, at: Nat]

TypeOK ==
    /\ now \in Nat
    /\ revokedAt \in Nat \cup {Never}
    /\ export \in [assets: SUBSET Assets, revokedAt: Nat \cup {Never}]
    /\ deletedAt \in [Assets -> Nat \cup {Never}]
    /\ cache \in [Instances -> [Assets -> [live: BOOLEAN, expires: Nat]]]
    /\ urls \subseteq Url
    /\ request \in [Requests -> Busy \cup {Idle}]

Init ==
    /\ now = 0
    /\ revokedAt = Never
    /\ export = [assets |-> {}, revokedAt |-> Never]
    /\ deletedAt = [a \in Assets |-> Never]
    /\ cache = [i \in Instances |-> [a \in Assets |-> NoEntry]]
    /\ urls = {}
    /\ request = [r \in Requests |-> Idle]

------------------------------------------------------------------------------
\* The owner, and time

Tick ==
    /\ now < Horizon
    /\ now' = now + 1
    /\ UNCHANGED <<revokedAt, export, deletedAt, cache, urls, request>>

\* A second revoke keeps the first stamp.
RevokeGrant ==
    /\ revokedAt = Never
    /\ revokedAt' = now
    /\ UNCHANGED <<now, export, deletedAt, cache, urls, request>>

RevokeExport ==
    /\ export.assets # {} /\ export.revokedAt = Never
    /\ export' = [export EXCEPT !.revokedAt = now]
    /\ UNCHANGED <<now, revokedAt, deletedAt, cache, urls, request>>

\* The first deletion counts: a later one only moves the stamp the sweep reads.
MarkAssetDeleted(a) ==
    /\ deletedAt[a] = Never
    /\ deletedAt' = [deletedAt EXCEPT ![a] = now]
    /\ UNCHANGED <<now, revokedAt, export, cache, urls, request>>

------------------------------------------------------------------------------
\* Requests begin

At(r, pc)     == request[r] # Idle /\ request[r].pc = pc
Goto(r, pc)   == request' = [request EXCEPT ![r].pc = pc]
Reply(r)      == request' = [request EXCEPT ![r] = Idle]
AssetOf(r)    == request[r].asset
Enter(r, pc, use, kind, a, i) ==
    /\ request[r] = Idle
    /\ request' = [request EXCEPT ![r] = [pc |-> pc, use |-> use, kind |-> kind,
                                          asset |-> a, instance |-> i, at |-> now]]
Begin(r, pc, use, kind, a, i) ==
    /\ Enter(r, pc, use, kind, a, i)
    /\ UNCHANGED <<now, revokedAt, export, deletedAt, cache, urls>>

\* GET /assets/{id}/delivery?grant=: the grant cache comes first.
ResolveGranted(r, a, i) == Begin(r, "check", "mint", "granted", a, i)

\* The same with intent=original, from the owner.
ResolveOriginal(r, a, i) == Begin(r, "asset", "mint", "original", a, i)

\* handleDownload: verify takes a URL until its exp has passed.
DownloadGranted(r, u, i) ==
    u.kind = "granted" /\ now <= u.exp /\ Begin(r, "check", "fetch", "granted", u.asset, i)

DownloadOriginal_OnSignature(r, u, i) ==
    u.kind = "original" /\ now <= u.exp /\ Begin(r, "serve", "fetch", "original", u.asset, i)

DownloadOriginal(r, u, i) ==
    u.kind = "original" /\ now <= u.exp /\ Begin(r, "asset", "fetch", "original", u.asset, i)

\* POST /exports, for the owner: the deleted assets of the requested set are left
\* out.  The classification and the insert are one step here: an asset deleted
\* between them stays in the set, as one deleted after the insert does.  The
\* answer lists a URL of every asset of the export; a request stands for one.
CreateExport(r, a, i) ==
    /\ export.assets = {} /\ now < ExportExpires
    /\ LET live == {b \in Exported : deletedAt[b] = Never}
       IN  a \in live /\ export' = [export EXCEPT !.assets = live]
    /\ Enter(r, "sign", "mint", "export", a, i)
    /\ UNCHANGED <<now, revokedAt, deletedAt, cache, urls>>

\* GET /exports/{id} lists them again.
GetExport(r, a, i) == a \in export.assets /\ Begin(r, "read", "mint", "export", a, i)

DownloadExport(r, u, i) ==
    u.kind = "export" /\ now <= u.exp /\ Begin(r, "read", "fetch", "export", u.asset, i)

------------------------------------------------------------------------------
\* grantCache.resolve

Slot_GrantOnly(a) == CHOOSE b \in Assets : TRUE

\* The map key is the grant and the asset.
Slot(a) == a

\* A fresh entry answers; freshness is judged by the time noted at the start.
CacheCheck(r) ==
    /\ At(r, "check")
    /\ LET entry == cache[request[r].instance][Slot(AssetOf(r))]
       IN  \/ /\ request[r].at < entry.expires /\ entry.live
              /\ Goto(r, IF request[r].use = "mint" THEN "asset" ELSE "serve")
           \/ /\ request[r].at < entry.expires /\ ~entry.live
              /\ Reply(r)
           \/ /\ request[r].at >= entry.expires
              /\ Goto(r, "read")
    /\ UNCHANGED <<now, revokedAt, export, deletedAt, cache, urls>>

GrantLive(a) == a \in Granted /\ revokedAt = Never /\ now < GrantExpires

\* ResolveGrantForDelivery: one snapshot of the grant's row.
ReadGrant(r) ==
    /\ At(r, "read") /\ request[r].kind = "granted"
    /\ Goto(r, IF GrantLive(AssetOf(r)) THEN "fill_live" ELSE "fill_dead")
    /\ UNCHANGED <<now, revokedAt, export, deletedAt, cache, urls>>

Fresh_FromFill(r) == now + CacheTTL
Fresh_Backwards(r) == request[r].at - CacheTTL

\* expires: now.Add(c.ttl), with the now of the start of resolve.
Fresh(r) == request[r].at + CacheTTL

CacheFill(r) ==
    /\ At(r, "fill_live") \/ At(r, "fill_dead")
    /\ cache' = [cache EXCEPT ![request[r].instance][Slot(AssetOf(r))] =
                    [live |-> request[r].pc = "fill_live", expires |-> Fresh(r)]]
    /\ \/ request[r].pc = "fill_dead" /\ Reply(r)
       \/ /\ request[r].pc = "fill_live"
          /\ Goto(r, IF request[r].use = "mint" THEN "asset" ELSE "serve")
    /\ UNCHANGED <<now, revokedAt, export, deletedAt, urls>>

------------------------------------------------------------------------------
\* The reads that follow, and the outcome

\* ResolveExportForDelivery, on every fetch.
ReadExport(r) ==
    /\ At(r, "read") /\ request[r].kind = "export" /\ request[r].use = "fetch"
    /\ IF AssetOf(r) \in export.assets /\ export.revokedAt = Never /\ now < ExportExpires
       THEN Goto(r, "asset")
       ELSE Reply(r)
    /\ UNCHANGED <<now, revokedAt, export, deletedAt, cache, urls>>

\* GetExport: a revoked export is answered without URLs.  No asset is looked at.
ReadExportRow(r) ==
    /\ At(r, "read") /\ request[r].kind = "export" /\ request[r].use = "mint"
    /\ IF export.revokedAt = Never THEN Goto(r, "sign") ELSE Reply(r)
    /\ UNCHANGED <<now, revokedAt, export, deletedAt, cache, urls>>

ReadAsset_DownloadsOnly(r) ==
    /\ At(r, "asset")
    /\ IF deletedAt[AssetOf(r)] = Never \/ request[r].use = "mint"
       THEN Goto(r, IF request[r].use = "mint" THEN "sign" ELSE "serve")
       ELSE Reply(r)
    /\ UNCHANGED <<now, revokedAt, export, deletedAt, cache, urls>>

\* GetAsset: a deleted asset is refused.
ReadAsset(r) ==
    /\ At(r, "asset")
    /\ IF deletedAt[AssetOf(r)] = Never
       THEN Goto(r, IF request[r].use = "mint" THEN "sign" ELSE "serve")
       ELSE Reply(r)
    /\ UNCHANGED <<now, revokedAt, export, deletedAt, cache, urls>>

\* enforceGranted, or the owner's original: exp counts from here.
Sign(r) ==
    /\ At(r, "sign") /\ request[r].kind # "export" /\ Cardinality(urls) < MaxUrls
    /\ urls' = urls \cup
          {[kind |-> IF request[r].kind = "granted" /\ AssetOf(r) \in Images
                     THEN "image" ELSE request[r].kind,
            asset |-> AssetOf(r), exp |-> now + UrlTTL, begun |-> request[r].at]}
    /\ Reply(r)
    /\ UNCHANGED <<now, revokedAt, export, deletedAt, cache>>

\* exportDownloads, of an export that is live by the clock and by the row as it was
\* read: the URL lasts as long as the export.
withDownloads(r) ==
    /\ At(r, "sign") /\ request[r].kind = "export" /\ Cardinality(urls) < MaxUrls
    /\ urls' = urls \cup
          IF now < ExportExpires
          THEN {[kind |-> "export", asset |-> AssetOf(r), exp |-> ExportExpires,
                 begun |-> request[r].at]}
          ELSE {}
    /\ Reply(r)
    /\ UNCHANGED <<now, revokedAt, export, deletedAt, cache>>

\* PresignGet and the redirect.
Serve(r) ==
    /\ At(r, "serve")
    /\ Reply(r)
    /\ UNCHANGED <<now, revokedAt, export, deletedAt, cache, urls>>

\* A read fails, or the client goes away.
RequestFails(r) ==
    /\ request[r] # Idle
    /\ Reply(r)
    /\ UNCHANGED <<now, revokedAt, export, deletedAt, cache, urls>>

------------------------------------------------------------------------------
Owner ==
    \/ RevokeGrant \/ RevokeExport
    \/ \E a \in Assets : MarkAssetDeleted(a)

Handle(r) ==
    \/ CacheCheck(r) \/ ReadGrant(r) \/ CacheFill(r)
    \/ ReadExport(r) \/ ReadExportRow(r) \/ ReadAsset(r)
    \/ Sign(r) \/ withDownloads(r) \/ Serve(r) \/ RequestFails(r)

Arrive(r, i) ==
    \/ \E a \in Assets : \/ ResolveGranted(r, a, i) \/ ResolveOriginal(r, a, i)
                         \/ CreateExport(r, a, i) \/ GetExport(r, a, i)
    \/ \E u \in urls : DownloadGranted(r, u, i) \/ DownloadOriginal(r, u, i) \/ DownloadExport(r, u, i)

Next ==
    \/ Tick \/ Owner
    \/ \E r \in Requests : Handle(r) \/ \E i \in Instances : Arrive(r, i)

Spec == Init /\ [][Next]_vars

------------------------------------------------------------------------------
\* Properties

\* Revocation, like expiry, stops the URLs that are already issued within one
\* cache window: a request that begins later is not served, whatever stalled
\* request fills the cache when.
RevocationBounded ==
    \A r \in Requests : At(r, "serve") /\ request[r].kind = "granted" =>
        /\ request[r].at < GrantExpires + CacheTTL
        /\ revokedAt # Never => request[r].at < revokedAt + CacheTTL

\* The same for the requests that mint: no URL comes from one that began a cache
\* window after the grant had ended; and reading an export never resurrects it.
MintingStops ==
    \A u \in urls :
        /\ u.kind \in {"granted", "image"} =>
              /\ u.begun < GrantExpires + CacheTTL
              /\ revokedAt # Never => u.begun < revokedAt + CacheTTL
        /\ u.kind = "export" =>
              /\ u.begun < ExportExpires
              /\ export.revokedAt # Never => u.begun <= export.revokedAt

\* A verdict cached for one asset never opens another.
OnlyGrantedAssets ==
    \A u \in urls : u.kind \in {"granted", "image"} => u.asset \in Granted

\* Exports and originals are not cached: a request that begins after the
\* deletion, or after the export's revocation, is not served, whenever the URL it
\* uses was minted.
OriginalStopsAtOnce ==
    \A r \in Requests : At(r, "serve") /\ request[r].kind # "granted" =>
        /\ deletedAt[AssetOf(r)] # Never => request[r].at <= deletedAt[AssetOf(r)]
        /\ request[r].kind = "export" =>
              /\ request[r].at < ExportExpires
              /\ export.revokedAt # Never => request[r].at <= export.revokedAt

\* "Deleted means not served", of deliveries: no request that begins after the
\* deletion is answered a granted URL or the original's.  The URLs of an export
\* are a function of its frozen set and are listed whatever became of the assets:
\* those are refused when they are used (OriginalStopsAtOnce).
DeletedMintsNothing ==
    \A u \in urls : u.kind # "export" /\ deletedAt[u.asset] # Never => u.begun <= deletedAt[u.asset]

------------------------------------------------------------------------------
\* What the repository says and the code does not do

\* GrantedImageMaxTTL: "a revoked granted image is un-loadable within this cap,
\* always".
RevokedImageStops ==
    \A u \in urls : u.kind = "image" /\ revokedAt # Never /\ now <= u.exp
        => now <= revokedAt + ImageCap
=============================================================================
