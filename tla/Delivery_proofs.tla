--------------------------- MODULE Delivery_proofs ---------------------------
(***************************************************************************)
(* Theorems about Delivery, for every request and every asset, whatever    *)
(* the sizes of its images.                                                *)
(***************************************************************************)
EXTENDS Delivery, TLAPS

------------------------------------------------------------------------------
\* Arithmetic

\* Division by a positive number.
LEMMA Quotient ==
    ASSUME NEW a \in Nat, NEW b \in Nat \ {0}
    PROVE  a \div b \in Nat /\ b * (a \div b) <= a
OBVIOUS

\* Squares grow.
LEMMA Squares ==
    ASSUME NEW a \in Nat, NEW b \in Nat, a <= b
    PROVE  a * a <= b * b
<1>1. a * a <= a * b
  BY SMT
<1>2. a * b <= b * b
  BY SMT
<1> QED
  BY <1>1, <1>2

\* A common factor cancels.
LEMMA Cancel ==
    ASSUME NEW n \in Nat \ {0}, NEW a \in Nat, NEW b \in Nat, n * a <= n * b
    PROVE  a <= b
<1> SUFFICES ASSUME a >= b + 1
             PROVE  FALSE
  OBVIOUS
<1>1. n * a >= n * (b + 1)
  BY SMT
<1>2. n * (b + 1) = n * b + n
  BY SMT
<1> QED
  BY <1>1, <1>2

\* An edge that is at most p/q of the long one is scaled to p/q of the cap, to
\* within half a pixel, or to one pixel.
LEMMA ScaleBound ==
    ASSUME NEW edge \in Nat, NEW cap \in Nat \ {0}, NEW long \in Nat \ {0},
           NEW p \in Nat, NEW q \in Nat \ {0}, q * edge <= p * long
    PROVE  /\ ScaleEdge(edge, cap, long) \in Nat
           /\ \/ ScaleEdge(edge, cap, long) = 1
              \/ 2 * q * ScaleEdge(edge, cap, long) <= 2 * p * cap + q
<1> DEFINE r == (2 * edge * cap + long) \div (2 * long)
<1>1. 2 * edge * cap + long \in Nat /\ 2 * long \in Nat \ {0}
  BY SMT
<1>2. r \in Nat /\ (2 * long) * r <= 2 * edge * cap + long
  BY <1>1, Quotient
<1>3. q * ((2 * long) * r) <= q * (2 * edge * cap + long)
  BY <1>1, <1>2, SMT
<1>4. q * (2 * edge * cap + long) = 2 * cap * (q * edge) + q * long
  BY SMT
<1>5. 2 * cap * (q * edge) <= 2 * cap * (p * long)
  BY SMT
<1>6. long * (2 * q * r) <= long * (2 * p * cap + q)
  <2>1. q * ((2 * long) * r) = long * (2 * q * r)
    BY <1>2, SMT
  <2>2. 2 * cap * (p * long) + q * long = long * (2 * p * cap + q)
    BY SMT
  <2> QED
    BY <1>2, <1>3, <1>4, <1>5, <2>1, <2>2
<1>7. 2 * q * r <= 2 * p * cap + q
  BY <1>2, <1>6, Cancel
<1> QED
  BY <1>2, <1>7 DEF ScaleEdge

\* The long edge is scaled to the cap.
LEMMA ScaleLong ==
    ASSUME NEW cap \in Nat \ {0}, NEW long \in Nat \ {0}
    PROVE  ScaleEdge(long, cap, long) = cap
<1> DEFINE r == (2 * long * cap + long) \div (2 * long)
<1>1. r = cap
  <2>1. 2 * long * cap + long = (2 * long) * cap + long
    BY SMT
  <2>2. ((2 * long) * cap + long) \div (2 * long) = cap
    BY SMT
  <2> QED
    BY <2>1, <2>2
<1> QED
  BY <1>1 DEF ScaleEdge

------------------------------------------------------------------------------
\* The images that leave the engine

\* An image under the cap comes out as it is; one over it comes out with the
\* cap for its long edge.
LEMMA FittedEdges ==
    ASSUME NEW size \in Nat \X Nat, size # Unprobed,
           NEW preset \in DOMAIN PresetWidths, PresetWidths[preset] \in Nat \ {0},
           NEW p \in Nat, NEW q \in Nat \ {0}, q * ShortEdge(size) <= p * LongEdge(size)
    PROVE  \/ /\ fitOutputDims(size, preset) = size
              /\ LongEdge(size) <= PresetWidths[preset]
           \/ \E short \in Nat :
                 /\ fitOutputDims(size, preset) \in {<<PresetWidths[preset], short>>, <<short, PresetWidths[preset]>>}
                 /\ short = 1 \/ 2 * q * short <= 2 * p * PresetWidths[preset] + q
<1> DEFINE cap == PresetWidths[preset]  long == LongEdge(size)  short == ShortEdge(size)
<1>1. PICK w \in Nat, h \in Nat : size = <<w, h>>
  OBVIOUS
<1>2. long \in Nat \ {0} /\ short \in Nat
  BY <1>1 DEF LongEdge, ShortEdge, Unprobed
<1>3. CASE long <= cap
  BY <1>3 DEF fitOutputDims
<1>4. CASE ~(long <= cap)
  <2> DEFINE r == ScaleEdge(short, cap, long)
  <2>1. r \in Nat /\ (r = 1 \/ 2 * q * r <= 2 * p * cap + q)
    <3> HIDE DEF cap, long, short
    <3>0. cap \in Nat \ {0} /\ q * short <= p * long
      BY DEF cap, long, short
    <3> QED
      BY <1>2, <3>0, ScaleBound
  <2>2. ScaleEdge(long, cap, long) = cap
    BY <1>2, ScaleLong
  <2>3. fitOutputDims(size, preset) = <<ScaleEdge(size[1], cap, long), ScaleEdge(size[2], cap, long)>>
    BY <1>4 DEF fitOutputDims
  <2>4. (size[1] = long /\ size[2] = short) \/ (size[1] = short /\ size[2] = long)
    BY <1>1 DEF LongEdge, ShortEdge
  <2>5. fitOutputDims(size, preset) \in {<<cap, r>>, <<r, cap>>}
    BY <2>2, <2>3, <2>4
  <2> QED
    BY <2>1, <2>5
<1> QED
  BY <1>3, <1>4

\* An area and a long edge that come from a cap and an aspect ratio of q/p.
Fits(area, long, cap, p, q) ==
    \/ long <= cap /\ q * area <= p * (long * long)
    \/ \E short \in Nat : /\ area = cap * short /\ long >= cap
                          /\ short = 1 \/ 2 * q * short <= 2 * p * cap + q

\* So do those of every image that comes out.
LEMMA FittedArea ==
    ASSUME NEW size \in Nat \X Nat, size # Unprobed,
           NEW preset \in DOMAIN PresetWidths, PresetWidths[preset] \in Nat \ {0},
           NEW p \in Nat, NEW q \in Nat \ {0}, q * ShortEdge(size) <= p * LongEdge(size)
    PROVE  /\ Area(fitOutputDims(size, preset)) \in Nat
           /\ LongEdge(fitOutputDims(size, preset)) \in Nat
           /\ Fits(Area(fitOutputDims(size, preset)), LongEdge(fitOutputDims(size, preset)),
                   PresetWidths[preset], p, q)
<1> DEFINE result == fitOutputDims(size, preset)  cap == PresetWidths[preset]
<1>1. CASE result = size /\ LongEdge(size) <= cap
  <2>1. PICK w \in Nat, h \in Nat : size = <<w, h>>
    OBVIOUS
  <2>2. LongEdge(size) \in Nat /\ ShortEdge(size) \in Nat /\ Area(size) = LongEdge(size) * ShortEdge(size)
    <3>1. w * h = h * w
      BY <2>1, SMT
    <3> QED
      BY <2>1, <3>1 DEF LongEdge, ShortEdge, Area
  <2>3. ASSUME NEW l \in Nat, NEW s \in Nat, q * s <= p * l
        PROVE  l * s \in Nat /\ q * (l * s) <= p * (l * l)
    <3>1. l * (q * s) <= l * (p * l)
      BY <2>3, SMT
    <3>2. l * (q * s) = q * (l * s) /\ l * (p * l) = p * (l * l) /\ l * s \in Nat
      BY SMT
    <3> QED
      BY <3>1, <3>2
  <2>4. Area(size) \in Nat /\ q * Area(size) <= p * (LongEdge(size) * LongEdge(size))
    BY <2>2, <2>3
  <2> QED
    BY <1>1, <2>2, <2>4 DEF Fits
<1>2. ASSUME NEW short \in Nat, result \in {<<cap, short>>, <<short, cap>>},
             short = 1 \/ 2 * q * short <= 2 * p * cap + q
      PROVE  /\ Area(result) \in Nat /\ LongEdge(result) \in Nat
             /\ Fits(Area(result), LongEdge(result), cap, p, q)
  <2> HIDE DEF cap, result
  <2>0. cap \in Nat \ {0}
    BY DEF cap
  <2>1. cap * short = short * cap /\ cap * short \in Nat
    BY <2>0, SMT
  <2>2. Area(result) = cap * short /\ LongEdge(result) >= cap /\ LongEdge(result) \in Nat
    BY <1>2, <2>0, <2>1 DEF Area, LongEdge
  <2> QED
    BY <1>2, <2>1, <2>2 DEF Fits
<1> QED
  BY <1>1, <1>2, FittedEdges

\* Whatever the aspect ratio, a cap up to n makes at most n * n pixels.
LEMMA SquareBound ==
    ASSUME NEW area \in Nat, NEW long \in Nat, NEW cap \in Nat \ {0}, NEW n \in Nat, cap <= n,
           Fits(area, long, cap, 1, 1)
    PROVE  area <= n * n
<1>1. cap * cap <= n * n
  BY Squares
<1>2. CASE long <= cap /\ area <= long * long
  <2>1. long * long <= cap * cap
    BY <1>2, Squares
  <2>2. long * long \in Nat /\ cap * cap \in Nat /\ n * n \in Nat
    BY SMT
  <2> QED
    BY <1>1, <1>2, <2>1, <2>2
<1>3. ASSUME NEW short \in Nat, area = cap * short, short = 1 \/ 2 * short <= 2 * cap + 1
      PROVE  area <= n * n
  <2>1. short <= cap
    BY <1>3
  <2>2. cap * short <= cap * cap
    BY <2>1, SMT
  <2>3. cap * cap \in Nat /\ n * n \in Nat
    BY SMT
  <2> QED
    BY <1>1, <1>3, <2>2, <2>3
<1>4. \/ long <= cap /\ area <= long * long
      \/ \E short \in Nat : area = cap * short /\ (short = 1 \/ 2 * short <= 2 * cap + 1)
  BY DEF Fits
<1> QED
  BY <1>2, <1>3, <1>4

\* The standard cap keeps an aspect ratio of 5/4 or more within the wall.
LEMMA StandardBound ==
    ASSUME NEW area \in Nat, NEW long \in Nat, Fits(area, long, 5477, 4, 5)
    PROVE  area <= Wall + long
<1>1. CASE long <= 5477 /\ 5 * area <= 4 * (long * long)
  <2>1. long * long <= 5477 * 5477
    BY <1>1, Squares
  <2>2. \A l \in Int : l <= 5477 * 5477 /\ 5 * area <= 4 * l => area <= 24000000
    BY SMT
  <2>3. long * long \in Int
    BY SMT
  <2> QED
    BY <1>1, <2>1, <2>2, <2>3, SMT DEF Wall
<1>2. ASSUME NEW short \in Nat, area = 5477 * short, long >= 5477,
             short = 1 \/ 2 * 5 * short <= 2 * 4 * 5477 + 5
      PROVE  area <= Wall + long
  BY <1>2, SMT DEF Wall
<1> QED
  BY <1>1, <1>2, SMT DEF Fits

\* The wide cap keeps one of 8/5 or more there, but for the rounding of the cap.
LEMMA WideBound ==
    ASSUME NEW area \in Nat, NEW long \in Nat, Fits(area, long, 6197, 5, 8)
    PROVE  area <= Wall + long
<1>1. CASE long <= 6196 /\ 8 * area <= 5 * (long * long)
  <2>1. long * long <= 6196 * 6196
    BY <1>1, Squares
  <2>2. \A l \in Int : l <= 6196 * 6196 /\ 8 * area <= 5 * l => area <= 24000000
    BY SMT
  <2>3. long * long \in Int
    BY SMT
  <2> QED
    BY <1>1, <2>1, <2>2, <2>3, SMT DEF Wall
<1>2. CASE long = 6197 /\ 8 * area <= 5 * (long * long)
  BY <1>2, SMT DEF Wall
<1>3. ASSUME NEW short \in Nat, area = 6197 * short, long >= 6197,
             short = 1 \/ 2 * 8 * short <= 2 * 5 * 6197 + 8
      PROVE  area <= Wall + long
  BY <1>3, SMT DEF Wall
<1> QED
  BY <1>1, <1>2, <1>3, SMT DEF Fits

\* The presets and their caps.
LEMMA Presets ==
    /\ DOMAIN PresetWidths = {"lightbox", "lightbox_mobile", "thumbnail", "grid", "zoom_1", "zoom_2",
                              "zoom_3_nearsquare", "zoom_3_standard", "zoom_3_wide"}
    /\ \A preset \in DOMAIN PresetWidths : PresetWidths[preset] \in Nat \ {0}
    /\ PresetWidths["zoom_3_standard"] = 5477 /\ PresetWidths["zoom_3_wide"] = 6197
    /\ \A preset \in DOMAIN PresetWidths \ {"zoom_3_standard", "zoom_3_wide"} : PresetWidths[preset] <= 4898
    /\ \A preset \in {"lightbox_mobile", "thumbnail", "grid"} : PresetWidths[preset] <= 1400
BY DEF PresetWidths

\* An image of a preset with a cap up to n has at most n * n pixels.
LEMMA SquareArea ==
    ASSUME NEW size \in Nat \X Nat, size # Unprobed, NEW preset \in DOMAIN PresetWidths,
           NEW n \in Nat \ {0}, PresetWidths[preset] <= n
    PROVE  /\ Area(fitOutputDims(size, preset)) \in Nat
           /\ LongEdge(fitOutputDims(size, preset)) \in Nat
           /\ Area(fitOutputDims(size, preset)) <= n * n
<1>1. PresetWidths[preset] \in Nat \ {0}
  BY Presets
<1>2. 1 * ShortEdge(size) <= 1 * LongEdge(size)
  BY DEF ShortEdge, LongEdge
<1>3. /\ Area(fitOutputDims(size, preset)) \in Nat
      /\ LongEdge(fitOutputDims(size, preset)) \in Nat
      /\ Fits(Area(fitOutputDims(size, preset)), LongEdge(fitOutputDims(size, preset)),
              PresetWidths[preset], 1, 1)
  BY <1>1, <1>2, FittedArea
<1> QED
  BY <1>1, <1>3, SquareBound

\* The two presets whose caps alone would exceed the wall are kept to the
\* sources whose aspect ratio brings them back under it.
LEMMA BandArea ==
    ASSUME NEW size \in Nat \X Nat, size # Unprobed,
           NEW preset \in {"zoom_3_standard", "zoom_3_wide"}, preset = Zoom3PresetForAspect(size)
    PROVE  /\ LongEdge(fitOutputDims(size, preset)) \in Nat
           /\ Area(fitOutputDims(size, preset)) <= Wall + LongEdge(fitOutputDims(size, preset))
<1>1. preset \in DOMAIN PresetWidths /\ PresetWidths[preset] \in Nat \ {0}
  BY Presets
<1>2. LongEdge(size) \in Nat /\ ShortEdge(size) \in Nat
  BY DEF LongEdge, ShortEdge
<1>3. CASE preset = "zoom_3_standard"
  <2>1. 5 * ShortEdge(size) <= 4 * LongEdge(size)
    BY <1>2, <1>3 DEF Zoom3PresetForAspect
  <2>2. PresetWidths[preset] = 5477
    BY <1>3, Presets
  <2>3. /\ Area(fitOutputDims(size, preset)) \in Nat
        /\ LongEdge(fitOutputDims(size, preset)) \in Nat
        /\ Fits(Area(fitOutputDims(size, preset)), LongEdge(fitOutputDims(size, preset)),
                PresetWidths[preset], 4, 5)
    BY <1>1, <2>1, FittedArea
  <2> QED
    BY <2>2, <2>3, StandardBound
<1>4. CASE preset = "zoom_3_wide"
  <2>1. 8 * ShortEdge(size) <= 5 * LongEdge(size)
    BY <1>2, <1>4 DEF Zoom3PresetForAspect
  <2>2. PresetWidths[preset] = 6197
    BY <1>4, Presets
  <2>3. /\ Area(fitOutputDims(size, preset)) \in Nat
        /\ LongEdge(fitOutputDims(size, preset)) \in Nat
        /\ Fits(Area(fitOutputDims(size, preset)), LongEdge(fitOutputDims(size, preset)),
                PresetWidths[preset], 5, 8)
    BY <1>1, <2>1, FittedArea
  <2> QED
    BY <2>2, <2>3, WideBound
<1> QED
  BY <1>3, <1>4

------------------------------------------------------------------------------
\* Theorems

\* The preset of an image URL is the one its intent, device and source call for.
LEMMA PresetOfUrl ==
    ASSUME NEW service, NEW intent \in KnownIntents, NEW device, NEW asset \in Asset(Nat \X Nat),
           LET open == resolveNonOriginal(service, intent, device, asset)
           IN  IsUrl(open) /\ open.preset \in DOMAIN PresetWidths
    PROVE  resolveNonOriginal(service, intent, device, asset).preset
               = imagePreset(intent, device, asset.size[ImageSource(asset)])
<1>1. "raw" \notin DOMAIN PresetWidths /\ "none" \notin DOMAIN PresetWidths
  BY Presets
<1> QED
  BY <1>1 DEF resolveNonOriginal, Refused, Url, IsUrl, renditionStateResolution, signedImageURL,
       Resolve, avResolution

\* No image is larger than the CDN's megapixel wall, whatever its source, to
\* within one row of pixels; and none that a phone asks for outgrows its memory.
THEOREM ImagesWithinWall ==
    ASSUME NEW service \in ServiceConfig, NEW intent \in KnownIntents,
           NEW device \in {"mobile", "desktop"}, NEW asset \in Asset(Nat \X Nat)
    PROVE  WithinWall(service, intent, device, asset)
<1> DEFINE open   == resolveNonOriginal(service, intent, device, asset)
           source == asset.size[ImageSource(asset)]
           result == fitOutputDims(source, open.preset)
<1> SUFFICES ASSUME IsUrl(open), open.preset \in DOMAIN PresetWidths, source # Unprobed
             PROVE  /\ Area(result) <= Wall + LongEdge(result)
                    /\ device = "mobile" => 4 * Area(result) <= MobileBudget
  BY DEF WithinWall
<1>1. source \in Nat \X Nat
  BY DEF Asset, ImageSource
<1>2. open.preset = imagePreset(intent, device, source)
  BY PresetOfUrl
<1> DEFINE preset == open.preset
<1>3. Area(result) <= Wall + LongEdge(result)
  <2>1. CASE preset \in {"zoom_3_standard", "zoom_3_wide"}
    <3>1. preset = Zoom3PresetForAspect(source)
      BY <1>2, <2>1 DEF imagePreset, KnownIntents, imageLadderIntents, zoomIntents, avIntents
    <3> HIDE DEF source, open
    <3> QED
      BY <1>1, <2>1, <3>1, BandArea
  <2>2. CASE preset \notin {"zoom_3_standard", "zoom_3_wide"}
    <3> HIDE DEF source, open
    <3>1. PresetWidths[preset] <= 4898
      BY <2>2, Presets
    <3>2. Area(result) \in Nat /\ LongEdge(result) \in Nat /\ Area(result) <= 4898 * 4898
      BY <1>1, <3>1, SquareArea
    <3> QED
      BY <3>2, SMT DEF Wall
  <2> QED
    BY <2>1, <2>2
<1>4. ASSUME device = "mobile"
      PROVE  4 * Area(result) <= MobileBudget
  <2>1. preset \in {"lightbox_mobile", "thumbnail", "grid"}
    BY <1>2, <1>4, Presets DEF imagePreset, KnownIntents, imageLadderIntents, zoomIntents, avIntents
  <2> HIDE DEF source, open
  <2>2. PresetWidths[preset] <= 1400
    BY <2>1, Presets
  <2>3. Area(result) \in Nat /\ Area(result) <= 1400 * 1400
    BY <1>1, <2>2, SquareArea
  <2> QED
    BY <2>3, SMT DEF MobileBudget
<1> QED
  BY <1>3, <1>4

\* Of every kind but image, what is not on the allowlist gets no URL and what is
\* gets one on its host; an image is answered on the engine whatever its intent.
\* The engine reads originals of images and ready posters only.
THEOREM UrlsOnTheirHost ==
    ASSUME NEW Dims, NEW service \in ServiceConfig, NEW intent \in KnownIntents \ {"original"},
           NEW device, NEW asset \in Asset(Dims)
    PROVE  OnItsHost(service, intent, device, asset)
<1> QED
  BY DEF OnItsHost, Asset, resolveNonOriginal, Refused, Url, IsUrl, renditionStateResolution,
       signedImageURL, Resolve, avResolution, RouteDelivery, MeteredPairs, RawPairs, KnownMediaKinds,
       KnownIntents, imageLadderIntents, zoomIntents, avIntents, isImageLadderIntent, ServedAsImage, RowOf,
       ImageSource, imagePreset

\* A grant opens the object and the preset that the owner is served.
THEOREM GrantsServeTheSame ==
    ASSUME NEW Dims, NEW service \in ServiceConfig, NEW intent \in KnownIntents \ {"original"},
           NEW device, NEW asset \in Asset(Dims)
    PROVE  GrantServesTheSame(service, intent, device, asset)
<1> QED
  BY DEF GrantServesTheSame, Asset, resolveGranted, enforceGranted, resolveNonOriginal, Refused, Url,
       IsUrl, renditionStateResolution, signedImageURL, ImageSource, Resolve, avResolution, RouteDelivery,
       MeteredPairs, RawPairs, KnownMediaKinds, KnownIntents, imageLadderIntents, zoomIntents, avIntents,
       isImageLadderIntent, ServedAsImage, RowOf

\* A video's image intents are answered as its poster is.
THEOREM LaddersFollowPosters ==
    ASSUME NEW Dims, NEW service \in ServiceConfig, NEW intent \in KnownIntents \ {"original"},
           NEW device, NEW asset \in Asset(Dims)
    PROVE  LadderFollowsPoster(service, intent, device, asset)
<1> QED
  BY DEF LadderFollowsPoster, Asset, resolveNonOriginal, Refused, Url, IsUrl, renditionStateResolution,
       signedImageURL, Resolve, avResolution, RouteDelivery, MeteredPairs, RawPairs, KnownMediaKinds,
       imageLadderIntents, zoomIntents, avIntents, isImageLadderIntent, ServedAsImage, RowOf, RowStatus
=============================================================================
