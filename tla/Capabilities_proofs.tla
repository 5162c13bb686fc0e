------------------------- MODULE Capabilities_proofs -------------------------
(***************************************************************************)
(* Theorems about Capabilities, for every set of assets, API instances and *)
(* requests and every choice of the lifetimes.                             *)
(***************************************************************************)
EXTENDS Capabilities, TLAPS

USE SetsAssumption, TimesAssumption

------------------------------------------------------------------------------
\* The invariant

\* Read while the grant was in force: not after its revocation, nor its expiry.
InForce(t) == t < GrantExpires /\ (revokedAt # Never => t <= revokedAt)

\* Within one cache window of the grant's life.
Current(t) ==
    /\ t < GrantExpires + CacheTTL
    /\ revokedAt # Never => t < revokedAt + CacheTTL

\* Not after the deletion of the asset.
Undeleted(a, t) == deletedAt[a] # Never => t <= deletedAt[a]

\* Not after the export's revocation.
Unrevoked(t) == export.revokedAt # Never => t <= export.revokedAt

\* A verdict expires one window after a time at which the grant was in force.
Trusted(a, entry) ==
    entry.live =>
        /\ a \in Granted
        /\ entry.expires < GrantExpires + CacheTTL
        /\ entry.expires <= now + CacheTTL
        /\ revokedAt # Never => entry.expires <= revokedAt + CacheTTL

\* What a request knows by the place it has reached.
Sound(q) ==
    /\ q.at <= now
    /\ q.pc \in {"check", "fill_live", "fill_dead"} => q.kind = "granted"
    /\ q.pc = "sign" => q.use = "mint" /\ (q.kind # "export" => Undeleted(q.asset, q.at))
    /\ q.pc = "fill_live" => q.asset \in Granted /\ InForce(q.at)
    /\ q.kind = "granted" /\ q.pc \in {"asset", "sign", "serve"} =>
          q.asset \in Granted /\ Current(q.at)
    /\ q.kind # "granted" /\ q.pc = "serve" => Undeleted(q.asset, q.at)
    /\ q.kind = "export" /\ q.pc \in {"asset", "serve"} => q.at < ExportExpires
    /\ q.kind = "export" /\ q.pc \in {"asset", "sign", "serve"} => Unrevoked(q.at)

\* What a signed URL says of the request that minted it.
Minted(u) ==
    /\ u.begun <= now
    /\ u.kind # "export" => Undeleted(u.asset, u.begun)
    /\ u.kind \in {"granted", "image"} => u.asset \in Granted /\ Current(u.begun)
    /\ u.kind = "export" => u.begun < ExportExpires /\ Unrevoked(u.begun)

RequestsSound  == \A r \in Requests : request[r] # Idle => Sound(request[r])
VerdictsTrusted == \A i \in Instances, a \in Assets : Trusted(a, cache[i][a])
UrlsMinted     == \A u \in urls : Minted(u)

\* What does not exist has not been revoked.
ExportFresh == export.assets = {} => export.revokedAt = Never

CapabilityInv == TypeOK /\ RequestsSound /\ VerdictsTrusted /\ UrlsMinted /\ ExportFresh

------------------------------------------------------------------------------
\* Requests

\* A request that is anywhere is a busy one.
LEMMA AtIsBusy ==
    ASSUME TypeOK, NEW r \in Requests, request[r] # Idle
    PROVE  /\ request[r] \in Busy
           /\ request[r].at \in Nat
           /\ AssetOf(r) \in Assets
           /\ request[r].instance \in Instances
BY DEF TypeOK, Busy, AssetOf

\* Being at a place means not being idle, which is no place.
LEMMA AtPlace ==
    ASSUME TypeOK, NEW r \in Requests, NEW pc, At(r, pc)
    PROVE  request[r] # Idle /\ request[r].pc = pc
BY DEF At

\* Moving a request on keeps everything it has noted, and the type.
LEMMA GotoStep ==
    ASSUME TypeOK, NEW r \in Requests, request[r] # Idle,
           NEW pc \in {"check", "read", "fill_live", "fill_dead", "asset", "sign", "serve"},
           Goto(r, pc)
    PROVE  /\ request' \in [Requests -> Busy \cup {Idle}]
           /\ request'[r].pc = pc
           /\ request'[r].at = request[r].at
           /\ request'[r].use = request[r].use
           /\ request'[r].kind = request[r].kind
           /\ request'[r].asset = request[r].asset
           /\ \A q \in Requests \ {r} : request'[q] = request[q]
<1>1. request[r] \in Busy
  BY AtIsBusy
<1>2. [request[r] EXCEPT !.pc = pc] \in Busy
  BY <1>1 DEF Busy
<1>3. request' = [request EXCEPT ![r] = [request[r] EXCEPT !.pc = pc]]
  BY DEF Goto, TypeOK
<1>4. request'[r] = [request[r] EXCEPT !.pc = pc]
  BY <1>3 DEF TypeOK
<1>5. request' \in [Requests -> Busy \cup {Idle}]
  BY <1>2, <1>3 DEF TypeOK
<1>6. \A q \in Requests \ {r} : request'[q] = request[q]
  BY <1>3 DEF TypeOK
<1> QED
  BY <1>1, <1>4, <1>5, <1>6 DEF Busy

\* Replying only makes the request idle.
LEMMA ReplyStep ==
    ASSUME TypeOK, NEW r \in Requests, Reply(r)
    PROVE  /\ request' \in [Requests -> Busy \cup {Idle}]
           /\ request'[r] = Idle
           /\ \A q \in Requests \ {r} : request'[q] = request[q]
BY DEF TypeOK, Reply

\* A new request notes the time.
LEMMA EnterStep ==
    ASSUME TypeOK, NEW r \in Requests, NEW a \in Assets, NEW i \in Instances,
           NEW pc \in {"check", "read", "asset", "sign"}, NEW use \in {"mint", "fetch"},
           NEW kind \in {"granted", "original", "export"}, Enter(r, pc, use, kind, a, i)
    PROVE  /\ request' \in [Requests -> Busy \cup {Idle}]
           /\ request'[r] = [pc |-> pc, use |-> use, kind |-> kind, asset |-> a,
                             instance |-> i, at |-> now]
           /\ \A q \in Requests \ {r} : request'[q] = request[q]
<1> DEFINE q == [pc |-> pc, use |-> use, kind |-> kind, asset |-> a, instance |-> i, at |-> now]
<1>1. q \in Busy
  BY DEF Busy, TypeOK
<1>2. request' = [request EXCEPT ![r] = q]
  BY DEF Enter
<1> HIDE DEF q
<1>3. request' \in [Requests -> Busy \cup {Idle}] /\ request'[r] = q
  BY <1>1, <1>2 DEF TypeOK
<1>4. \A p \in Requests \ {r} : request'[p] = request[p]
  BY <1>2 DEF TypeOK
<1> QED
  BY <1>3, <1>4 DEF q

------------------------------------------------------------------------------
\* Types

\* What the specification starts with has the types.
LEMMA InitTypeOK == Init => TypeOK
BY DEF Init, TypeOK, Never, NoEntry

\* Of the steps of a request, only CacheFill writes the cache and only Sign the URLs.
LEMMA HandleTypeOK ==
    ASSUME TypeOK, RequestsSound, NEW r \in Requests, Handle(r)
    PROVE  TypeOK'
<1>1. CASE CacheCheck(r)
  <2>1. request[r] # Idle
    BY <1>1 DEF CacheCheck, At
  <2>2. request' \in [Requests -> Busy \cup {Idle}]
    BY <1>1, <2>1, GotoStep, ReplyStep DEF CacheCheck
  <2> QED
    BY <1>1, <2>2 DEF CacheCheck, TypeOK
<1>2. CASE ReadGrant(r)
  <2>1. request[r] # Idle
    BY <1>2 DEF ReadGrant, At
  <2>2. request' \in [Requests -> Busy \cup {Idle}]
    BY <1>2, <2>1, GotoStep DEF ReadGrant
  <2> QED
    BY <1>2, <2>2 DEF ReadGrant, TypeOK
<1>3. CASE CacheFill(r)
  <2>1. request[r] # Idle
    BY <1>3 DEF CacheFill, At
  <2>2. request' \in [Requests -> Busy \cup {Idle}]
    BY <1>3, <2>1, GotoStep, ReplyStep DEF CacheFill
  <2>3. Fresh(r) \in Nat
    BY <2>1, AtIsBusy DEF Fresh
  <2>4. [live |-> request[r].pc = "fill_live", expires |-> Fresh(r)] \in [live: BOOLEAN, expires: Nat]
    BY <2>3
  <2>5. cache' \in [Instances -> [Assets -> [live: BOOLEAN, expires: Nat]]]
    BY <1>3, <2>1, <2>4, AtIsBusy DEF CacheFill, TypeOK, Slot
  <2> QED
    BY <1>3, <2>2, <2>5 DEF CacheFill, TypeOK
<1>4. CASE ReadExport(r)
  <2>1. request[r] # Idle
    BY <1>4 DEF ReadExport, At
  <2>2. request' \in [Requests -> Busy \cup {Idle}]
    BY <1>4, <2>1, GotoStep, ReplyStep DEF ReadExport
  <2> QED
    BY <1>4, <2>2 DEF ReadExport, TypeOK
<1>5. CASE ReadExportRow(r)
  <2>1. request[r] # Idle
    BY <1>5 DEF ReadExportRow, At
  <2>2. request' \in [Requests -> Busy \cup {Idle}]
    BY <1>5, <2>1, GotoStep, ReplyStep DEF ReadExportRow
  <2> QED
    BY <1>5, <2>2 DEF ReadExportRow, TypeOK
<1>6. CASE ReadAsset(r)
  <2>1. request[r] # Idle
    BY <1>6 DEF ReadAsset, At
  <2>2. request' \in [Requests -> Busy \cup {Idle}]
    BY <1>6, <2>1, GotoStep, ReplyStep DEF ReadAsset
  <2> QED
    BY <1>6, <2>2 DEF ReadAsset, TypeOK
<1>7. CASE Sign(r)
  <2>1. request[r] # Idle /\ request[r].kind # "export"
    BY <1>7 DEF Sign, At
  <2>2. request[r].kind \in {"granted", "original"}
    BY <2>1, AtIsBusy DEF Busy
  <2>3. now + UrlTTL \in Nat
    BY DEF TypeOK
  <2>4. urls' \subseteq Url
    BY <1>7, <2>1, <2>2, <2>3, AtIsBusy DEF Sign, Url, TypeOK
  <2> QED
    BY <1>7, <2>4, ReplyStep DEF Sign, TypeOK
<1>8. CASE withDownloads(r)
  <2>1. request[r] # Idle
    BY <1>8 DEF withDownloads, At
  <2>2. urls' \subseteq Url
    BY <1>8, <2>1, AtIsBusy DEF withDownloads, Url, TypeOK
  <2> QED
    BY <1>8, <2>2, ReplyStep DEF withDownloads, TypeOK
<1>9. CASE Serve(r)
  BY <1>9, ReplyStep DEF Serve, TypeOK
<1>10. CASE RequestFails(r)
  BY <1>10, ReplyStep DEF RequestFails, TypeOK
<1> QED
  BY <1>1, <1>2, <1>3, <1>4, <1>5, <1>6, <1>7, <1>8, <1>9, <1>10 DEF Handle

\* How a request can begin.  Only the one that creates the export writes a table.
LEMMA Arrivals ==
    ASSUME TypeOK, NEW r \in Requests, NEW i \in Instances, Arrive(r, i)
    PROVE  /\ UNCHANGED <<now, revokedAt, deletedAt, cache, urls>>
           /\ \E a \in Assets :
                 \/ /\ export' = export
                    /\ \/ Enter(r, "check", "mint", "granted", a, i)
                       \/ Enter(r, "asset", "mint", "original", a, i)
                       \/ Enter(r, "check", "fetch", "granted", a, i)
                       \/ Enter(r, "asset", "fetch", "original", a, i)
                       \/ Enter(r, "read", "mint", "export", a, i)
                       \/ Enter(r, "read", "fetch", "export", a, i)
                 \/ CreateExport(r, a, i)
<1>1. ASSUME NEW a \in Assets, CreateExport(r, a, i)
      PROVE  UNCHANGED <<now, revokedAt, deletedAt, cache, urls>>
  BY <1>1 DEF CreateExport
<1> QED
  BY <1>1 DEF Arrive, ResolveGranted, ResolveOriginal, DownloadGranted, DownloadOriginal,
              DownloadExport, GetExport, Begin, TypeOK, Url

\* The export is created once, unrevoked, of assets that are not deleted.
LEMMA CreateStep ==
    ASSUME TypeOK, NEW r \in Requests, NEW a \in Assets, NEW i \in Instances, CreateExport(r, a, i)
    PROVE  /\ export' \in [assets: SUBSET Assets, revokedAt: Nat \cup {Never}]
           /\ export.assets = {} /\ export'.assets # {}
           /\ export'.revokedAt = export.revokedAt
           /\ Enter(r, "sign", "mint", "export", a, i)
<1> DEFINE live == {b \in Exported : deletedAt[b] = Never}
<1>1. a \in live /\ export' = [export EXCEPT !.assets = live] /\ live \subseteq Assets
  BY DEF CreateExport
<1> QED
  BY <1>1 DEF CreateExport, TypeOK

\* Beginning a request changes the request, and may create the export.
LEMMA ArriveTypeOK ==
    ASSUME TypeOK, NEW r \in Requests, NEW i \in Instances, Arrive(r, i)
    PROVE  TypeOK'
<1>1. request' \in [Requests -> Busy \cup {Idle}]
  BY Arrivals, EnterStep, CreateStep
<1>2. export' \in [assets: SUBSET Assets, revokedAt: Nat \cup {Never}]
  BY Arrivals, CreateStep DEF TypeOK
<1>3. UNCHANGED <<now, revokedAt, deletedAt, cache, urls>>
  BY Arrivals
<1> QED
  BY <1>1, <1>2, <1>3 DEF TypeOK

\* The owner's statements and the clock.
LEMMA OwnerTypeOK ==
    ASSUME TypeOK, Owner \/ Tick
    PROVE  TypeOK'
<1>1. CASE Tick
  BY <1>1 DEF Tick, TypeOK
<1>2. CASE RevokeGrant
  BY <1>2 DEF RevokeGrant, TypeOK
<1>3. CASE RevokeExport
  <2>1. [export EXCEPT !.revokedAt = now] \in [assets: SUBSET Assets, revokedAt: Nat \cup {Never}]
    BY DEF TypeOK
  <2> QED
    BY <1>3, <2>1 DEF RevokeExport, TypeOK
<1>4. ASSUME NEW a \in Assets, MarkAssetDeleted(a) PROVE TypeOK'
  BY <1>4 DEF MarkAssetDeleted, TypeOK
<1> QED
  BY <1>1, <1>2, <1>3, <1>4 DEF Owner

\* Every step keeps the types of sound requests.
LEMMA TypeStep ==
    ASSUME TypeOK, RequestsSound, [Next]_vars
    PROVE  TypeOK'
<1>1. CASE UNCHANGED vars
  BY <1>1 DEF vars, TypeOK
<1> QED
  BY <1>1, OwnerTypeOK, HandleTypeOK, ArriveTypeOK DEF Next

------------------------------------------------------------------------------
\* Time and the stamps

\* The clock does not go back, and a stamp is given once, with the time.
Later ==
    /\ now' \in Nat /\ now <= now'
    /\ revokedAt' = revokedAt \/ (revokedAt = Never /\ revokedAt' = now)
    /\ export'.revokedAt = export.revokedAt
          \/ (export.revokedAt = Never /\ export'.revokedAt = now)
    /\ \A a \in Assets : deletedAt'[a] = deletedAt[a]
                            \/ (deletedAt[a] = Never /\ deletedAt'[a] = now)

LEMMA NextIsLater ==
    ASSUME TypeOK, [Next]_vars
    PROVE  Later
<1>1. CASE UNCHANGED <<now, revokedAt, export, deletedAt>>
  BY <1>1 DEF Later, TypeOK
<1>2. CASE Tick \/ RevokeGrant \/ RevokeExport
  BY <1>2 DEF Later, TypeOK, Tick, RevokeGrant, RevokeExport
<1>3. ASSUME NEW a \in Assets, MarkAssetDeleted(a) PROVE Later
  BY <1>3 DEF Later, TypeOK, MarkAssetDeleted
<1>4. ASSUME NEW r \in Requests, Handle(r) PROVE UNCHANGED <<now, revokedAt, export, deletedAt>>
  BY <1>4 DEF Handle, CacheCheck, ReadGrant, CacheFill, ReadExport, ReadExportRow, ReadAsset, Sign,
              withDownloads, Serve, RequestFails
<1>5. ASSUME NEW r \in Requests, NEW i \in Instances, Arrive(r, i)
      PROVE UNCHANGED <<now, revokedAt, deletedAt>> /\ export'.revokedAt = export.revokedAt
  BY <1>5, Arrivals, CreateStep
<1>6. ASSUME UNCHANGED <<now, revokedAt, deletedAt>>, export'.revokedAt = export.revokedAt
      PROVE  Later
  BY <1>6 DEF Later, TypeOK
<1> QED
  BY <1>1, <1>2, <1>3, <1>4, <1>5, <1>6 DEF Next, Owner, vars

\* Time keeps every clause about a request that does not move.
LEMMA WaitingStaysSound ==
    ASSUME TypeOK, RequestsSound, Later, NEW q \in Requests, request'[q] = request[q],
           request[q] # Idle
    PROVE  Sound(request[q])'
<1>1. Sound(request[q]) /\ request[q].at \in Nat /\ request[q].asset \in Assets
  BY AtIsBusy DEF RequestsSound, AssetOf
<1>2. Undeleted(request[q].asset, request[q].at) => Undeleted(request[q].asset, request[q].at)'
  BY <1>1 DEF Undeleted, Later, TypeOK, Never, Sound
<1>3. Current(request[q].at) => Current(request[q].at)'
  BY <1>1 DEF Current, Later, TypeOK, Never, Sound
<1>4. InForce(request[q].at) => InForce(request[q].at)'
  BY <1>1 DEF InForce, Later, TypeOK, Never, Sound
<1>5. export.revokedAt \in Nat \cup {Never} /\ now \in Nat
  BY DEF TypeOK
<1>6. Unrevoked(request[q].at) => Unrevoked(request[q].at)'
  BY <1>1, <1>5 DEF Unrevoked, Later, Never, Sound
<1>7. (request[q].at <= now)'
  BY <1>1, <1>5 DEF Sound, Later
<1> QED
  BY <1>1, <1>2, <1>3, <1>4, <1>6, <1>7 DEF Sound

\* What was read while the grant was in force is current for a window.
LEMMA InForceIsCurrent ==
    ASSUME TypeOK, NEW t \in Nat, InForce(t)
    PROVE  Current(t)
BY DEF InForce, Current, TypeOK, Never

------------------------------------------------------------------------------
\* The steps keep requests sound

\* A verdict that is fresh by the time the request noted vouches for it.
LEMMA CacheCheckSound ==
    ASSUME CapabilityInv, NEW r \in Requests, CacheCheck(r), request'[r] # Idle
    PROVE  Sound(request[r])'
<1> USE DEF CapabilityInv
<1> DEFINE entry == cache[request[r].instance][AssetOf(r)]
<1>1. request[r] # Idle /\ request[r].pc = "check"
  BY DEF CacheCheck, At
<1>2. Sound(request[r]) /\ request[r].at \in Nat /\ request[r].kind = "granted"
  BY <1>1, AtIsBusy DEF RequestsSound, Sound
<1>3. UNCHANGED <<now, revokedAt, export, deletedAt>>
  BY DEF CacheCheck
<1>4. CASE request[r].at >= entry.expires /\ Goto(r, "read")
  BY <1>1, <1>2, <1>3, <1>4, GotoStep DEF Sound
<1>5. CASE request[r].at < entry.expires /\ entry.live
  <2>1. Trusted(AssetOf(r), entry)
    BY <1>1, AtIsBusy DEF VerdictsTrusted
  <2>2. entry.expires \in Nat
    BY <1>1, AtIsBusy DEF TypeOK
  <2>3. AssetOf(r) \in Granted /\ Current(request[r].at)
    BY <1>2, <1>5, <2>1, <2>2 DEF Trusted, Current, TypeOK, Never
  <2>4. Goto(r, IF request[r].use = "mint" THEN "asset" ELSE "serve")
    <3>1. entry.expires \in Nat /\ ~(request[r].at >= entry.expires)
      BY <1>2, <1>5, <2>2
    <3>2. Slot(AssetOf(r)) = AssetOf(r)
      BY DEF Slot
    <3> QED
      BY <1>5, <3>1, <3>2 DEF CacheCheck
  <2>5. PICK pc \in {"asset", "serve"} : Goto(r, pc)
    BY <2>4
  <2>6. Current(request[r].at)'
    BY <1>1, <1>3, <2>3, <2>5, GotoStep DEF Current
  <2> QED
    BY <1>1, <1>2, <1>3, <2>3, <2>5, <2>6, GotoStep DEF Sound, AssetOf
<1> QED
  BY <1>4, <1>5, ReplyStep DEF CacheCheck, Slot

\* The grant's row, as it is now.
LEMMA ReadGrantSound ==
    ASSUME CapabilityInv, NEW r \in Requests, ReadGrant(r)
    PROVE  Sound(request[r])'
<1> USE DEF CapabilityInv
<1>1. request[r] # Idle /\ request[r].kind = "granted"
  BY DEF ReadGrant, At
<1>2. Sound(request[r]) /\ request[r].at \in Nat
  BY <1>1, AtIsBusy DEF RequestsSound
<1>3. UNCHANGED <<now, revokedAt, export, deletedAt>>
  BY DEF ReadGrant
<1>4. CASE GrantLive(AssetOf(r)) /\ Goto(r, "fill_live")
  <2>1. AssetOf(r) \in Granted /\ request[r].at < GrantExpires /\ revokedAt = Never
    BY <1>2, <1>4 DEF GrantLive, Sound, TypeOK
  <2> QED
    BY <1>1, <1>2, <1>3, <1>4, <2>1, GotoStep DEF Sound, InForce, AssetOf
<1>5. CASE Goto(r, "fill_dead")
  BY <1>1, <1>2, <1>3, <1>5, GotoStep DEF Sound
<1> QED
  BY <1>4, <1>5 DEF ReadGrant

\* Filling the cache, the request that found the grant live goes on.
LEMMA CacheFillSound ==
    ASSUME CapabilityInv, NEW r \in Requests, CacheFill(r), request'[r] # Idle
    PROVE  Sound(request[r])'
<1> USE DEF CapabilityInv
<1>1. request[r] # Idle /\ request[r].pc = "fill_live"
  BY ReplyStep DEF CacheFill, At
<1>2. Sound(request[r]) /\ request[r].at \in Nat /\ request[r].kind = "granted"
  BY <1>1, AtIsBusy DEF RequestsSound, Sound
<1>3. UNCHANGED <<now, revokedAt, export, deletedAt>>
  BY DEF CacheFill
<1>4. PICK pc \in {"asset", "serve"} : Goto(r, pc)
  BY <1>1 DEF CacheFill
<1>5. AssetOf(r) \in Granted /\ Current(request[r].at)
  BY <1>1, <1>2, InForceIsCurrent DEF Sound, AssetOf
<1>6. Current(request[r].at)'
  BY <1>1, <1>3, <1>4, <1>5, GotoStep DEF Current
<1> QED
  BY <1>1, <1>2, <1>3, <1>4, <1>5, <1>6, GotoStep DEF Sound, AssetOf

\* The export's row, as it is now.
LEMMA ReadExportSound ==
    ASSUME CapabilityInv, NEW r \in Requests, ReadExport(r), request'[r] # Idle
    PROVE  Sound(request[r])'
<1> USE DEF CapabilityInv
<1>1. request[r] # Idle /\ request[r].kind = "export"
  BY DEF ReadExport, At
<1>2. Sound(request[r]) /\ request[r].at \in Nat
  BY <1>1, AtIsBusy DEF RequestsSound
<1>3. UNCHANGED <<now, revokedAt, export, deletedAt>>
  BY DEF ReadExport
<1>4. Goto(r, "asset") /\ export.revokedAt = Never /\ now < ExportExpires
  BY ReplyStep DEF ReadExport
<1>5. request[r].at < ExportExpires
  BY <1>2, <1>4 DEF Sound, TypeOK
<1>6. /\ request'[r].pc = "asset"
      /\ request'[r].at = request[r].at
      /\ request'[r].use = request[r].use
      /\ request'[r].kind = request[r].kind
  BY <1>1, <1>4, GotoStep
<1>7. Unrevoked(request[r].at)'
  BY <1>3, <1>4 DEF Unrevoked
<1> QED
  BY <1>1, <1>2, <1>3, <1>5, <1>6, <1>7 DEF Sound

\* The export's row, for the URLs of its assets.
LEMMA ReadExportRowSound ==
    ASSUME CapabilityInv, NEW r \in Requests, ReadExportRow(r), request'[r] # Idle
    PROVE  Sound(request[r])'
<1> USE DEF CapabilityInv
<1>1. request[r] # Idle /\ request[r].kind = "export" /\ request[r].use = "mint"
  BY DEF ReadExportRow, At
<1>2. Sound(request[r]) /\ request[r].at \in Nat
  BY <1>1, AtIsBusy DEF RequestsSound
<1>3. UNCHANGED <<now, revokedAt, export, deletedAt>>
  BY DEF ReadExportRow
<1>4. Goto(r, "sign") /\ export.revokedAt = Never
  BY ReplyStep DEF ReadExportRow
<1>5. Unrevoked(request[r].at)'
  BY <1>3, <1>4 DEF Unrevoked
<1> QED
  BY <1>1, <1>2, <1>3, <1>4, <1>5, GotoStep DEF Sound

\* The asset's row, as it is now: not deleted yet.
LEMMA ReadAssetSound ==
    ASSUME CapabilityInv, NEW r \in Requests, ReadAsset(r), request'[r] # Idle
    PROVE  Sound(request[r])'
<1> USE DEF CapabilityInv
<1>1. request[r] # Idle /\ request[r].pc = "asset"
  BY DEF ReadAsset, At
<1>2. Sound(request[r]) /\ request[r].at \in Nat /\ request[r] \in Busy
  BY <1>1, AtIsBusy DEF RequestsSound
<1>3. UNCHANGED <<now, revokedAt, export, deletedAt>>
  BY DEF ReadAsset
<1>4. deletedAt[AssetOf(r)] = Never
  BY ReplyStep DEF ReadAsset
<1>5. PICK pc \in {"sign", "serve"} : Goto(r, pc) /\ (pc = "sign" => request[r].use = "mint")
  BY <1>4 DEF ReadAsset
<1>6. Undeleted(request[r].asset, request[r].at)'
  BY <1>1, <1>3, <1>4, <1>5, GotoStep DEF Undeleted, AssetOf
<1>7. Current(request[r].at) => Current(request[r].at)'
  BY <1>1, <1>3, <1>5, GotoStep DEF Current
<1>8. Unrevoked(request[r].at) => Unrevoked(request[r].at)'
  BY <1>1, <1>3, <1>5, GotoStep DEF Unrevoked
<1> QED
  BY <1>1, <1>2, <1>3, <1>5, <1>6, <1>7, <1>8, GotoStep DEF Sound

\* A request that begins has its place and the time to show.
LEMMA ArriveSound ==
    ASSUME CapabilityInv, NEW r \in Requests, NEW i \in Instances, Arrive(r, i)
    PROVE  Sound(request[r])' /\ \A q \in Requests \ {r} : request'[q] = request[q]
<1> USE DEF CapabilityInv
<1>1. PICK a \in Assets :
         \/ /\ export' = export
            /\ \/ Enter(r, "check", "mint", "granted", a, i)
               \/ Enter(r, "asset", "mint", "original", a, i)
               \/ Enter(r, "check", "fetch", "granted", a, i)
               \/ Enter(r, "asset", "fetch", "original", a, i)
               \/ Enter(r, "read", "mint", "export", a, i)
               \/ Enter(r, "read", "fetch", "export", a, i)
         \/ CreateExport(r, a, i)
  BY Arrivals
<1>2. now' = now /\ now \in Nat
  BY Arrivals DEF TypeOK
<1>3. PICK pc \in {"check", "asset", "read", "sign"}, use \in {"mint", "fetch"},
           kind \in {"granted", "original", "export"} :
         /\ Enter(r, pc, use, kind, a, i)
         /\ \/ pc = "check" /\ kind = "granted"
            \/ pc = "asset" /\ kind = "original"
            \/ pc = "read" /\ kind = "export"
            \/ pc = "sign" /\ use = "mint" /\ kind = "export" /\ CreateExport(r, a, i)
  BY <1>1, CreateStep
<1>e. TypeOK /\ Enter(r, pc, use, kind, a, i)
  BY <1>3
<1>4. \A q \in Requests \ {r} : request'[q] = request[q]
  BY <1>e DEF Enter, TypeOK
<1>5. request'[r] = [pc |-> pc, use |-> use, kind |-> kind, asset |-> a,
                     instance |-> i, at |-> now]
  BY <1>e DEF Enter, TypeOK
<1>6. /\ request'[r].pc = pc /\ request'[r].use = use
      /\ request'[r].kind = kind /\ request'[r].at = now
  BY <1>5
<1>7. pc = "sign" => export'.revokedAt = Never
  BY <1>3, CreateStep DEF ExportFresh
<1> QED
  BY <1>2, <1>3, <1>4, <1>6, <1>7 DEF Sound, Unrevoked

\* Every step leaves every request sound.
LEMMA RequestsStep ==
    ASSUME CapabilityInv, [Next]_vars
    PROVE  RequestsSound'
<1> USE DEF CapabilityInv
<1> SUFFICES ASSUME NEW q \in Requests, request'[q] # Idle
             PROVE  Sound(request[q])'
  BY DEF RequestsSound
<1>1. Later
  BY NextIsLater
<1>2. CASE request'[q] = request[q]
  BY <1>1, <1>2, WaitingStaysSound
<1>3. ASSUME NEW r \in Requests, Handle(r), q # r PROVE request'[q] = request[q]
  BY <1>3 DEF Handle, CacheCheck, ReadGrant, CacheFill, ReadExport, ReadExportRow, ReadAsset, Sign,
              withDownloads, Serve, RequestFails, Goto, Reply, TypeOK
<1>4. CASE Handle(q)
  <2>1. ~(Sign(q) \/ withDownloads(q) \/ Serve(q) \/ RequestFails(q))
    BY ReplyStep DEF Sign, withDownloads, Serve, RequestFails
  <2> QED
    BY <1>4, <2>1, CacheCheckSound, ReadGrantSound, CacheFillSound, ReadExportSound,
       ReadExportRowSound, ReadAssetSound DEF Handle
<1>5. ASSUME NEW r \in Requests, NEW i \in Instances, Arrive(r, i)
      PROVE  Sound(request[q])' \/ request'[q] = request[q]
  BY <1>5, ArriveSound
<1>6. CASE Tick \/ Owner \/ UNCHANGED vars
  BY <1>2, <1>6 DEF Tick, Owner, RevokeGrant, RevokeExport, MarkAssetDeleted, vars
<1> QED
  BY <1>2, <1>3, <1>4, <1>5, <1>6 DEF Next

------------------------------------------------------------------------------
\* The steps keep the cache and the URLs

\* Time keeps a verdict trusted.
LEMMA VerdictKept ==
    ASSUME TypeOK, Later, NEW a \in Assets, NEW i \in Instances,
           cache'[i][a] = cache[i][a], Trusted(a, cache[i][a])
    PROVE  Trusted(a, cache[i][a])'
<1>1. cache[i][a].expires \in Nat /\ now \in Nat
  BY DEF TypeOK
<1> QED
  BY <1>1 DEF Trusted, Later, TypeOK, Never

\* Only CacheFill writes the cache; it writes what it was found when the grant
\* was read, with a life that began when the request did.
LEMMA VerdictsStep ==
    ASSUME CapabilityInv, [Next]_vars
    PROVE  VerdictsTrusted'
<1> USE DEF CapabilityInv
<1>1. Later
  BY NextIsLater
<1>2. SUFFICES ASSUME NEW i \in Instances, NEW a \in Assets
               PROVE  Trusted(a, cache[i][a])'
  BY DEF VerdictsTrusted
<1>3. CASE cache'[i][a] = cache[i][a]
  BY <1>1, <1>3, VerdictKept DEF VerdictsTrusted
<1>4. ASSUME NEW r \in Requests, CacheFill(r), cache'[i][a] # cache[i][a]
      PROVE  Trusted(a, cache[i][a])'
  <2>1. request[r] # Idle
    BY <1>4 DEF CacheFill, At
  <2>2. Sound(request[r]) /\ request[r].at \in Nat
    BY <2>1, AtIsBusy DEF RequestsSound
  <2>3. /\ a = AssetOf(r)
        /\ cache'[i][a] = [live |-> request[r].pc = "fill_live", expires |-> Fresh(r)]
    BY <1>4, <2>1, AtIsBusy DEF CacheFill, Slot, TypeOK
  <2>4. cache'[i][a].expires = request[r].at + CacheTTL
    BY <2>3 DEF Fresh
  <2>5. cache'[i][a].live => request[r].pc = "fill_live"
    <3> DEFINE found == request[r].pc = "fill_live"
    <3>1. cache'[i][a] = [live |-> found, expires |-> Fresh(r)]
      BY <2>3
    <3> HIDE DEF found
    <3>2. cache'[i][a].live = found
      BY <3>1
    <3> QED
      BY <3>2 DEF found
  <2>6. UNCHANGED <<now, revokedAt>>
    BY <1>4 DEF CacheFill
  <2>7. request[r].pc = "fill_live" => AssetOf(r) \in Granted /\ InForce(request[r].at)
    BY <2>2 DEF Sound, AssetOf
  <2>8. request[r].at <= now
    BY <2>2 DEF Sound
  <2>9. now \in Nat /\ revokedAt \in Nat \cup {Never}
    BY DEF TypeOK
  <2> QED
    BY <2>2, <2>3, <2>4, <2>5, <2>6, <2>7, <2>8, <2>9 DEF Trusted, InForce, Never
<1>5. ASSUME NEW r \in Requests, Handle(r), ~CacheFill(r) PROVE cache' = cache
  BY <1>5 DEF Handle, CacheCheck, ReadGrant, ReadExport, ReadExportRow, ReadAsset, Sign, withDownloads,
              Serve, RequestFails
<1>6. ASSUME NEW r \in Requests, NEW j \in Instances, Arrive(r, j) PROVE cache' = cache
  BY <1>6, Arrivals
<1>7. CASE Tick \/ Owner \/ UNCHANGED vars
  BY <1>3, <1>7 DEF Tick, Owner, RevokeGrant, RevokeExport, MarkAssetDeleted, vars
<1> QED
  BY <1>3, <1>4, <1>5, <1>6, <1>7 DEF Next

\* Time keeps what a URL says.
LEMMA UrlKept ==
    ASSUME TypeOK, Later, NEW u \in Url, Minted(u)
    PROVE  Minted(u)'
<1>1. u.begun \in Nat /\ u.asset \in Assets /\ now \in Nat
  BY DEF Url, TypeOK
<1>2. (u.begun <= now)'
  BY <1>1 DEF Minted, Later
<1>3. Undeleted(u.asset, u.begun) => Undeleted(u.asset, u.begun)'
  BY <1>1 DEF Minted, Undeleted, Later, TypeOK, Never
<1>4. Current(u.begun) => Current(u.begun)'
  BY <1>1 DEF Minted, Current, Later, TypeOK, Never
<1>5. Unrevoked(u.begun) => Unrevoked(u.begun)'
  BY <1>1 DEF Minted, Unrevoked, Later, TypeOK, Never
<1> QED
  BY <1>2, <1>3, <1>4, <1>5 DEF Minted

\* Only Sign and withDownloads mint, for a request that may.
LEMMA UrlsStep ==
    ASSUME CapabilityInv, [Next]_vars
    PROVE  UrlsMinted'
<1> USE DEF CapabilityInv
<1>1. Later
  BY NextIsLater
<1>2. SUFFICES ASSUME NEW u \in urls' PROVE Minted(u)'
  BY DEF UrlsMinted
<1>3. CASE u \in urls
  BY <1>1, <1>3, UrlKept DEF UrlsMinted, TypeOK
<1>4. ASSUME NEW r \in Requests, Sign(r), u \notin urls
      PROVE  Minted(u)'
  <2>1. request[r] # Idle /\ request[r].pc = "sign"
    BY <1>4 DEF Sign, At
  <2>2. Sound(request[r]) /\ request[r].at \in Nat /\ request[r] \in Busy
    BY <2>1, AtIsBusy DEF RequestsSound
  <2>3. u = [kind |-> IF request[r].kind = "granted" /\ AssetOf(r) \in Images
                      THEN "image" ELSE request[r].kind,
             asset |-> AssetOf(r), exp |-> now + UrlTTL, begun |-> request[r].at]
    BY <1>4 DEF Sign
  <2>4. /\ u.begun = request[r].at /\ u.asset = AssetOf(r)
        /\ u.kind \in {"granted", "image"} => request[r].kind # "original"
    BY <2>3
  <2>5. /\ request[r].kind # "export" /\ u.kind # "export"
        /\ request[r].kind # "original" => request[r].kind = "granted"
    BY <1>4, <2>2, <2>3 DEF Sign, Busy
  <2>6. /\ request[r].at <= now
        /\ Undeleted(u.asset, u.begun)
        /\ u.kind \in {"granted", "image"} => u.asset \in Granted /\ Current(u.begun)
    BY <2>1, <2>2, <2>4, <2>5 DEF Sound, AssetOf
  <2>7. UNCHANGED <<now, revokedAt, deletedAt>>
    BY <1>4 DEF Sign
  <2> QED
    BY <2>4, <2>5, <2>6, <2>7 DEF Minted, Undeleted, Current
<1>5. ASSUME NEW r \in Requests, withDownloads(r), u \notin urls
      PROVE  Minted(u)'
  <2>1. request[r] # Idle /\ request[r].pc = "sign" /\ request[r].kind = "export"
    BY <1>5 DEF withDownloads, At
  <2>2. Sound(request[r]) /\ request[r].at \in Nat
    BY <2>1, AtIsBusy DEF RequestsSound
  <2>3. /\ u = [kind |-> "export", asset |-> AssetOf(r), exp |-> ExportExpires, begun |-> request[r].at]
        /\ now < ExportExpires
    BY <1>5 DEF withDownloads
  <2>4. u.kind = "export" /\ u.begun = request[r].at
    BY <2>3
  <2>5. request[r].at <= now /\ request[r].at < ExportExpires /\ Unrevoked(request[r].at)
    BY <2>1, <2>2, <2>3 DEF Sound, TypeOK
  <2>6. UNCHANGED <<now, export>>
    BY <1>5 DEF withDownloads
  <2> QED
    BY <2>4, <2>5, <2>6 DEF Minted, Unrevoked
<1>6. ASSUME NEW r \in Requests, Handle(r), ~Sign(r), ~withDownloads(r) PROVE urls' = urls
  BY <1>6 DEF Handle, CacheCheck, ReadGrant, CacheFill, ReadExport, ReadExportRow, ReadAsset, Serve,
              RequestFails
<1>7. ASSUME NEW r \in Requests, NEW i \in Instances, Arrive(r, i) PROVE urls' = urls
  BY <1>7, Arrivals
<1>8. CASE Tick \/ Owner \/ UNCHANGED vars
  BY <1>3, <1>8 DEF Tick, Owner, RevokeGrant, RevokeExport, MarkAssetDeleted, vars
<1> QED
  BY <1>3, <1>4, <1>5, <1>6, <1>7, <1>8 DEF Next

\* An export is created before it is revoked.
LEMMA ExportStep ==
    ASSUME CapabilityInv, [Next]_vars
    PROVE  ExportFresh'
<1> USE DEF CapabilityInv
<1>1. CASE export' = export
  BY <1>1 DEF ExportFresh
<1>2. CASE RevokeExport
  BY <1>2 DEF RevokeExport, ExportFresh, TypeOK
<1>3. ASSUME NEW r \in Requests, NEW i \in Instances, Arrive(r, i) PROVE ExportFresh'
  BY <1>1, <1>3, Arrivals, CreateStep DEF ExportFresh
<1>4. ASSUME NEW r \in Requests, Handle(r) PROVE export' = export
  BY <1>4 DEF Handle, CacheCheck, ReadGrant, CacheFill, ReadExport, ReadExportRow, ReadAsset, Sign,
              withDownloads, Serve, RequestFails
<1> QED
  BY <1>1, <1>2, <1>3, <1>4 DEF Next, Tick, Owner, RevokeGrant, MarkAssetDeleted, vars

------------------------------------------------------------------------------
\* The theorems

\* The types and the invariant hold: what requests, cached verdicts and signed
\* URLs carry is no more than what was read, and when.
THEOREM CapabilityInvariant == Spec => []CapabilityInv
<1>1. Init => CapabilityInv
  BY InitTypeOK DEF Init, CapabilityInv, RequestsSound, VerdictsTrusted, UrlsMinted, Trusted, NoEntry,
                     ExportFresh
<1>2. CapabilityInv /\ [Next]_vars => CapabilityInv'
  <2> SUFFICES ASSUME CapabilityInv, [Next]_vars PROVE CapabilityInv'
    OBVIOUS
  <2>1. TypeOK'
    BY TypeStep DEF CapabilityInv
  <2> QED
    BY <2>1, RequestsStep, VerdictsStep, UrlsStep, ExportStep DEF CapabilityInv
<1> QED
  BY <1>1, <1>2, PTL DEF Spec

\* The tables, the caches and the requests stay within their types.
THEOREM CapabilityTypes == Spec => []TypeOK
<1>1. CapabilityInv => TypeOK
  BY DEF CapabilityInv
<1> QED
  BY <1>1, CapabilityInvariant, PTL

\* Revocation and expiry stop downloads within one cache window.
THEOREM RevocationIsBounded == Spec => []RevocationBounded
<1>1. CapabilityInv => RevocationBounded
  BY AtPlace, AtIsBusy DEF CapabilityInv, RequestsSound, Sound, Current, RevocationBounded
<1> QED
  BY <1>1, CapabilityInvariant, PTL

\* And minting within the same window; reading an export never resurrects it.
THEOREM MintingIsBounded == Spec => []MintingStops
<1>1. CapabilityInv => MintingStops
  BY DEF CapabilityInv, UrlsMinted, Minted, Current, Unrevoked, MintingStops
<1> QED
  BY <1>1, CapabilityInvariant, PTL

\* A grant opens its own assets only, with the cache between.
THEOREM GrantsStayApart == Spec => []OnlyGrantedAssets
<1>1. CapabilityInv => OnlyGrantedAssets
  BY DEF CapabilityInv, UrlsMinted, Minted, OnlyGrantedAssets
<1> QED
  BY <1>1, CapabilityInvariant, PTL

\* Exports and originals are judged anew on every download.
THEOREM UncachedIsExact == Spec => []OriginalStopsAtOnce
<1>1. CapabilityInv => OriginalStopsAtOnce
  BY AtPlace, AtIsBusy
     DEF CapabilityInv, RequestsSound, Sound, Undeleted, Unrevoked, OriginalStopsAtOnce, AssetOf, Busy
<1> QED
  BY <1>1, CapabilityInvariant, PTL

\* Deleted means not delivered: no granted or original URL is minted; the URLs of
\* an export are left to UncachedIsExact, which refuses them when they are used.
THEOREM DeletionStopsMinting == Spec => []DeletedMintsNothing
<1>1. CapabilityInv => DeletedMintsNothing
  BY DEF CapabilityInv, UrlsMinted, Minted, Undeleted, DeletedMintsNothing
<1> QED
  BY <1>1, CapabilityInvariant, PTL
=============================================================================
