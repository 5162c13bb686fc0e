------------------------------ MODULE Delivery ------------------------------
(***************************************************************************)
(* What a delivery request is answered: the routing allowlist              *)
(* (internal/service/delivery.go), the resolution of an intent against an  *)
(* asset and its granted form (internal/service/handlers.go) and the       *)
(* geometry of the image presets (internal/mediaspec/mediaspec.go).        *)
(*                                                                         *)
(* These are functions of one read of the asset, so this module has no     *)
(* state.  A URL is the host it is on, the object whose bytes it serves    *)
(* and the preset they go through.                                         *)
(*                                                                         *)
(* Names of the form Name_Variant are faulty versions of Name that the     *)
(* properties rule out; nothing else uses them.                            *)
(***************************************************************************)
EXTENDS Integers

KnownMediaKinds == {"image", "video", "audio", "document"}

imageLadderIntents == {"thumbnail", "grid", "lightbox"}
zoomIntents        == {"zoom_1", "zoom_2", "zoom_3"}
avIntents          == {"poster", "loop", "detail"}
KnownIntents       == imageLadderIntents \cup zoomIntents \cup avIntents \cup {"original"}

\* The allowlist: what is on neither host is refused.
MeteredPairs == ({"image"} \X (imageLadderIntents \cup zoomIntents))
                \cup ({"video"} \X imageLadderIntents)
RawPairs     == ({"video"} \X avIntents) \cup {<<"audio", "detail">>}
                \cup (KnownMediaKinds \X {"original"})

RouteDelivery(kind, intent) ==
    IF <<kind, intent>> \in MeteredPairs THEN "image_cdn"
    ELSE IF <<kind, intent>> \in RawPairs THEN "r2" ELSE "unroutable"

------------------------------------------------------------------------------
\* Image geometry.  Sizes are <<width, height>>; <<0, 0>> is not probed.

Unprobed == <<0, 0>>

PresetWidths ==
    [lightbox |-> 2048, lightbox_mobile |-> 1400, thumbnail |-> 400, grid |-> 800,
     zoom_1 |-> 3072, zoom_2 |-> 4096, zoom_3_nearsquare |-> 4898,
     zoom_3_standard |-> 5477, zoom_3_wide |-> 6197]

LongEdge(size)  == IF size[1] > size[2] THEN size[1] ELSE size[2]
ShortEdge(size) == IF size[1] > size[2] THEN size[2] ELSE size[1]
Area(size)      == size[1] * size[2]

Zoom3PresetForAspect_SizedForMedian(size) ==
    IF size = Unprobed \/ 4 * LongEdge(size) < 5 * ShortEdge(size) THEN "zoom_3_nearsquare"
    ELSE IF 2 * LongEdge(size) < 3 * ShortEdge(size) THEN "zoom_3_standard"
    ELSE "zoom_3_wide"

\* The band of the aspect ratio: below 1.25, below 1.6, and above.
Zoom3PresetForAspect(size) ==
    IF size = Unprobed \/ 4 * LongEdge(size) < 5 * ShortEdge(size) THEN "zoom_3_nearsquare"
    ELSE IF 5 * LongEdge(size) < 8 * ShortEdge(size) THEN "zoom_3_standard"
    ELSE "zoom_3_wide"

\* A phone gets lightbox_mobile for lightbox and for every zoom rung.
imagePreset(intent, device, size) ==
    IF device = "mobile" /\ intent \in zoomIntents \cup {"lightbox"} THEN "lightbox_mobile"
    ELSE IF intent = "zoom_3" THEN Zoom3PresetForAspect(size)
    ELSE intent

\* Nearest pixel, and never none.
ScaleEdge(edge, cap, long) ==
    LET rounded == (2 * edge * cap + long) \div (2 * long)
    IN  IF rounded < 1 THEN 1 ELSE rounded

\* resize:fit:W:W:0/enlarge:0: the long edge is capped, nothing is enlarged.
fitOutputDims(size, preset) ==
    LET cap == PresetWidths[preset]
    IN  IF LongEdge(size) <= cap THEN size
        ELSE <<ScaleEdge(size[1], cap, LongEdge(size)), ScaleEdge(size[2], cap, LongEdge(size))>>

------------------------------------------------------------------------------
\* Resolution.  An asset is its kind, whether deleted_at is set, the status of
\* the row of each A/V intent ("none": no row) and the sizes of the two objects
\* images are made from.  "service" says what the process is configured with.

RowStatus == {"none", "ready", "failed", "not_derived"}
Asset(sizes) == [kind: KnownMediaKinds, deleted: BOOLEAN, rows: [avIntents -> RowStatus],
                 size: [vault: sizes, poster: sizes]]
ServiceConfig == [imgproxy: BOOLEAN, granted_base: BOOLEAN, signer: BOOLEAN]

Url(host, object, preset) ==
    [host |-> host, object |-> object, preset |-> preset, reason |-> "none"]
Refused(reason) ==
    [host |-> "none", object |-> "none", preset |-> "none", reason |-> reason]
IsUrl(answer) == answer.reason = "none"

\* URLBuilder.Resolve: raw bytes of the intent's own object, and nothing else.
Resolve_AnyPair(kind, intent) ==
    IF intent # "original" THEN Url("r2", intent, "raw") ELSE Refused("unsupported_format")
Resolve(kind, intent) ==
    IF RouteDelivery(kind, intent) = "r2" /\ intent # "original"
    THEN Url("r2", intent, "raw")
    ELSE Refused("unsupported_format")

\* What a poster that is not ready says of the images made from it.  A failed
\* row carries the reason of its refusal.
renditionStateResolution_Pending(status) == Refused("pending")
renditionStateResolution(status) ==
    CASE status = "not_derived" -> Refused("not_derived")
      [] status = "failed"      -> Refused("refused")
      [] OTHER                  -> Refused("pending")

\* The row of an A/V intent decides.
avResolution(kind, intent, status) ==
    CASE status = "ready"       -> Resolve(kind, intent)
      [] status = "failed"      -> Refused("refused")
      [] status = "not_derived" -> Refused("not_derived")
      [] OTHER                  -> Refused("pending")

RowOf(asset, intent) == IF intent \in avIntents THEN asset.rows[intent] ELSE "none"

isImageLadderIntent(intent) == intent \in imageLadderIntents

\* Images are made by the engine: of the original, or of a video's poster.
ServedAsImage(asset, intent) ==
    asset.kind = "image" \/ (asset.kind = "video" /\ isImageLadderIntent(intent))
ImageSource(asset) == IF asset.kind = "image" THEN "vault" ELSE "poster"

\* An unsigned image URL is never given out.
signedImageURL(host, intent, device, asset) ==
    Url(host, ImageSource(asset), imagePreset(intent, device, asset.size[ImageSource(asset)]))

resolveNonOriginal(service, intent, device, asset) ==
    IF asset.deleted THEN Refused("deleted")
    ELSE IF ServedAsImage(asset, intent)
    THEN IF asset.kind = "video" /\ asset.rows["poster"] # "ready"
         THEN renditionStateResolution(asset.rows["poster"])
         ELSE IF service.imgproxy THEN signedImageURL("image_cdn", intent, device, asset)
         ELSE Refused("unsupported_format")
    ELSE IF asset.kind = "document" THEN Resolve(asset.kind, intent)
    ELSE avResolution(asset.kind, intent, RowOf(asset, intent))

enforceGranted_ByKind(service, intent, device, asset) ==
    IF asset.kind = "image"
    THEN IF service.imgproxy /\ service.granted_base
         THEN signedImageURL("granted_cdn", intent, device, asset)
         ELSE Refused("unconfigured")
    ELSE IF service.signer THEN Url("download", intent, "raw") ELSE Refused("unconfigured")

\* The same bytes behind an expiry: a second image host, or /v1/download.
enforceGranted(service, intent, device, asset) ==
    IF ServedAsImage(asset, intent)
    THEN IF service.imgproxy /\ service.granted_base
         THEN signedImageURL("granted_cdn", intent, device, asset)
         ELSE Refused("unconfigured")
    ELSE IF service.signer THEN Url("download", intent, "raw") ELSE Refused("unconfigured")

\* resolveGranted once the grant is live: original is refused before anything
\* else, and a refusal of the open resolution is passed on.
resolveGranted(service, intent, device, asset) ==
    LET open == resolveNonOriginal(service, intent, device, asset)
    IN  IF intent = "original" THEN Refused("unauthorized")
        ELSE IF IsUrl(open) THEN enforceGranted(service, intent, device, asset)
        ELSE open

------------------------------------------------------------------------------
\* What must hold of every request

Wall         == 24000000            \* the megapixel wall of the CDN
MobileBudget == 24 * 1024 * 1024    \* decoded RGBA bytes a phone's tab may take

\* Every URL is on one host for its kind and intent, and reads there what that
\* host may read: the metered engine an image's original or a video's ready
\* poster, the raw host the ready object of the intent.  The host is the
\* allowlist's, and a pair it refuses has no URL, but for an image, which is not
\* looked up: its A/V intents are answered on the engine as well, under a preset
\* that has their name.
OnItsHost(service, intent, device, asset) ==
    LET open == resolveNonOriginal(service, intent, device, asset)
    IN  IsUrl(open) =>
            /\ ~asset.deleted
            /\ open.host = IF asset.kind = "image" THEN "image_cdn"
                           ELSE RouteDelivery(asset.kind, intent)
            /\ open.host \in {"image_cdn", "r2"}
            /\ open.host = "image_cdn" =>
                  \/ asset.kind = "image" /\ open.object = "vault"
                  \/ asset.kind = "video" /\ open.object = "poster" /\ asset.rows["poster"] = "ready"
            /\ open.host = "r2" =>
                  open.object = intent /\ intent \in avIntents /\ asset.rows[intent] = "ready"
            /\ asset.kind = "image" /\ intent \in avIntents => open.preset = intent

\* A grant opens what the owner's own request serves, through the same preset,
\* and that object exists.
GrantServesTheSame(service, intent, device, asset) ==
    LET open    == resolveNonOriginal(service, intent, device, asset)
        granted == resolveGranted(service, intent, device, asset)
    IN  IsUrl(granted) =>
            /\ granted.object = open.object /\ granted.preset = open.preset
            /\ granted.object = "vault" \/ asset.rows[granted.object] = "ready"

\* A video's image intents stand or fall with its poster, for the same reason:
\* "pending" never stands for a poster that was declined or refused.
LadderFollowsPoster(service, intent, device, asset) ==
    LET ladder == resolveNonOriginal(service, intent, device, asset)
        poster == resolveNonOriginal(service, "poster", device, asset)
    IN  asset.kind = "video" /\ isImageLadderIntent(intent) /\ service.imgproxy
            => IsUrl(ladder) = IsUrl(poster) /\ ladder.reason = poster.reason

\* Whatever the source, an image stays under the megapixel wall, to within one
\* row of pixels (the wide cap is rounded up), and a phone's within its budget.
WithinWall(service, intent, device, asset) ==
    LET open   == resolveNonOriginal(service, intent, device, asset)
        source == asset.size[ImageSource(asset)]
        result == fitOutputDims(source, open.preset)
    IN  IsUrl(open) /\ open.preset \in DOMAIN PresetWidths /\ source # Unprobed =>
            /\ Area(result) <= Wall + LongEdge(result)
            /\ device = "mobile" => 4 * Area(result) <= MobileBudget
=============================================================================
