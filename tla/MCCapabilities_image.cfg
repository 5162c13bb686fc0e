\* The grant covers an image, and its URLs live as long as the cap allows.
SPECIFICATION Spec
CONSTANTS
    image = image
    video = video
    i1 = i1
    r1 = r1
    r2 = r2
    Assets = {image}
    Images = {image}
    Granted = {image}
    Exported = {}
    Instances = {i1}
    Requests = {r1}
    GrantExpires = 4
    ExportExpires = 3
    CacheTTL = 2
    UrlTTL = 2
    ImageCap = 2
    Horizon = 4
    MaxUrls = 1
INVARIANTS
    RevokedImageStops
