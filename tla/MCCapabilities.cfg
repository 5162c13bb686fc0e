\* Two requests; the grant and the export cover the video only.  A cache window
\* and a URL's life are one tick, and everything has expired after it.
SPECIFICATION Spec
CONSTANTS
    image = image
    video = video
    i1 = i1
    r1 = r1
    r2 = r2
    Assets = {image, video}
    Images = {image}
    Granted = {video}
    Exported = {video}
    Instances = {i1}
    Requests = {r1, r2}
    GrantExpires = 1
    ExportExpires = 1
    CacheTTL = 1
    UrlTTL = 1
    ImageCap = 1
    Horizon = 1
    MaxUrls = 1
SYMMETRY SymmetricRequests
INVARIANTS
    TypeOK
    RevocationBounded
    MintingStops
    OnlyGrantedAssets
    OriginalStopsAtOnce
    DeletedMintsNothing
