------------------------------- MODULE Crisp -------------------------------
(***************************************************************************)
(* The pyramid builder of orbital.js: the Crisp object.                    *)
(*                                                                         *)
(* A bitmap is its Uint32Array view (dataBuffer): a function from the flat *)
(* index y * width + x to a 32-bit sample whose bytes are the ImageData    *)
(* bytes [R, G, B, A] read on a little-endian host.  crispX and crispY     *)
(* halve one axis, combining two neighbouring samples only when both are   *)
(* opaque; crispBitmapXY builds the anisotropic grid images[x][y] and      *)
(* crispBitmap the diagonal ladder used for the per-circle caches.         *)
(***************************************************************************)
EXTENDS Integers, Sequences

CONSTANTS
    Dims,        \* set of <<width, height>> of the source bitmaps
    Background,  \* the sample every pixel of a source has ...
    Specials     \* ... except at most one, which holds one of these

\* var step = 2, and the literal 4 of the loop conditions
Step == 2
MinSize == 4

CeilDiv(a, b) == (a + b - 1) \div b

(***************************************************************************)
(* A Uint32 sample is kept as its four bytes from bit 0 up, because TLC    *)
(* integers are signed 32-bit: Word(b0, b1, b2, b3) stands for            *)
(* b0 + b1 * 2^8 + b2 * 2^16 + b3 * 2^24.  ImageData bytes [R, G, B, A]   *)
(* read through a Uint32Array on a little-endian host give                *)
(* Word(R, G, B, A).                                                       *)
(***************************************************************************)
Word(b0, b1, b2, b3) == <<b0, b1, b2, b3>>
Byte0(p) == p[1]          \* p << 24 >>> 24
Byte1(p) == p[2]          \* p << 16 >>> 24
Byte2(p) == p[3]          \* p <<  8 >>> 24
Alpha(p) == p[4]          \* p >>> 24
Zero == Word(0, 0, 0, 0)

Bitmap(w, h, buf) == [w |-> w, h |-> h, buf |-> buf]

\* A typed-array read past the end yields undefined, and undefined >>> 24
\* (or any byte extraction from it) is 0.
Read(bm, i) == IF i < bm.w * bm.h THEN bm.buf[i] ELSE Zero

(***************************************************************************)
(* interpolate (ratio, pixf, pixc) for a ratio whose fractional part is    *)
(* num / den: each channel is blended, truncated to an integer by the      *)
(* shift, and or-ed into place with alpha forced to 255.  The byte taken   *)
(* from bits 0..7 is written to bits 16..23 and the one from bits 16..23   *)
(* to bits 0..7, exactly as the shifts in the code do.                     *)
(***************************************************************************)
\* Variant: the first sample weighted by c - f (always 1) instead of c - ratio.
BlendWholeFirst(num, den, x, y) == (den * x + num * y) \div den
Blend(num, den, x, y) == ((den - num) * x + num * y) \div den
Interpolate(num, den, pixf, pixc) ==
    Word(Blend(num, den, Byte2(pixf), Byte2(pixc)),
         Blend(num, den, Byte1(pixf), Byte1(pixc)),
         Blend(num, den, Byte0(pixf), Byte0(pixc)),
         255)

(***************************************************************************)
(* One output sample of crispX / crispY: cx = 1/step + k*step, so          *)
(* floor(cx) = k*step and the weight of the second sample is 1/step; the   *)
(* second index is clamped to the last sample of the line.                 *)
(***************************************************************************)
FirstOf(k) == k * Step
\* Variant: the second index is not clamped to the end of the line.
SecondOfNoClamp(k, n) == FirstOf(k) + 1
SecondOf(k, n) == IF FirstOf(k) + 1 > n - 1 THEN FirstOf(k) ELSE FirstOf(k) + 1
Combine(p1, p2) ==
    IF Alpha(p1) = 255 /\ Alpha(p2) = 255 THEN Interpolate(1, Step, p1, p2)
                                          ELSE Zero   \* createImageData is zeroed

crispX(bm) ==
    LET w1 == CeilDiv(bm.w, Step)
    IN  Bitmap(w1, bm.h,
          [ci \in 0 .. w1 * bm.h - 1 |->
             LET cy == ci \div w1
                 k  == ci % w1
             IN  Combine(Read(bm, cy * bm.w + FirstOf(k)),
                         Read(bm, cy * bm.w + SecondOf(k, bm.w)))])

crispY(bm) ==
    LET h1 == CeilDiv(bm.h, Step)
    IN  Bitmap(bm.w, h1,
          [ci \in 0 .. bm.w * h1 - 1 |->
             LET k  == ci \div bm.w
                 cx == ci % bm.w
             IN  Combine(Read(bm, FirstOf(k) * bm.w + cx),
                         Read(bm, SecondOf(k, bm.h) * bm.w + cx))])

(***************************************************************************)
(* crispBitmapXY: for each X level the inner loop adds Y levels while      *)
(* iHeight / step > 4; iHeight is then reset to the source height and a    *)
(* further X level is made from level (x, 0) while iWidth / step > 4.      *)
(***************************************************************************)
\* Variant: the Y loop also halves a side of exactly 8 px.
YLevelsGuardAtLeast(h) == h >= MinSize * Step
YLevelsGuard(h) == h > MinSize * Step     \* iHeight / step > 4
XLevelsGuard(w) == w > MinSize * Step     \* iWidth / step > 4

RECURSIVE YLevels(_)
YLevels(bm) ==
    <<bm>> \o (IF YLevelsGuard(bm.h) THEN YLevels(crispY(bm)) ELSE <<>>)

RECURSIVE XLevels(_)
XLevels(bm) ==
    <<YLevels(bm)>> \o (IF XLevelsGuard(bm.w) THEN XLevels(crispX(bm)) ELSE <<>>)

crispBitmapXY(src) == XLevels(src)

\* crispBitmap: halve X then Y, push, and stop once a side is <= 4.
RECURSIVE DiagLevels(_)
DiagLevels(bm) ==
    LET next == crispY(crispX(bm))
    IN  <<next>> \o (IF next.w <= MinSize \/ next.h <= MinSize
                     THEN <<>> ELSE DiagLevels(next))

crispBitmap(src) == <<src>> \o DiagLevels(src)

-----------------------------------------------------------------------------
(* The source bitmaps: one background sample, at most one special pixel.   *)
SourcesOf(dims, specials) ==
    UNION { { Bitmap(d[1], d[2], [i \in 0 .. d[1] * d[2] - 1 |->
                                    IF i = s[1] THEN s[2] ELSE Background])
              : s \in ({-1} \X {Background}) \cup ((0 .. d[1] * d[2] - 1) \X specials) }
            : d \in dims }

Sources == SourcesOf(Dims, Specials)

NoBitmap == Bitmap(0, 0, <<>>)

VARIABLES
    src,       \* the bitmap given to the builder (content1 or cnvCache)
    images,    \* cnvScaled.images built by crispBitmapXY
    diag       \* the images of crispBitmap, built from the same bitmap

vars == <<src, images, diag>>

Init ==
    /\ src = NoBitmap
    /\ images = <<>>
    /\ diag = <<>>

\* Orbital / Magnifier construction: cnvScaled = Crisp.crispBitmapXY(content1)
BuildXY(bm) ==
    /\ src = NoBitmap
    /\ src' = bm
    /\ images' = crispBitmapXY(bm)
    /\ UNCHANGED diag

\* drawCircle: cache = Crisp.crispBitmap (cnvCache)
BuildDiag ==
    /\ src # NoBitmap
    /\ diag = <<>>
    /\ diag' = crispBitmap(src)
    /\ UNCHANGED <<src, images>>

Next ==
    \/ \E bm \in Sources : BuildXY(bm)
    \/ BuildDiag

Spec == Init /\ [][Next]_vars

-----------------------------------------------------------------------------
IsWord(p) == DOMAIN p = 1 .. 4 /\ \A b \in 1 .. 4 : p[b] \in 0 .. 255

IsBitmap(bm) ==
    /\ DOMAIN bm = {"w", "h", "buf"}
    /\ bm.w \in Nat /\ bm.h \in Nat
    /\ DOMAIN bm.buf = 0 .. bm.w * bm.h - 1
    /\ \A i \in DOMAIN bm.buf : IsWord(bm.buf[i])

TypeOK ==
    /\ src = NoBitmap \/ IsBitmap(src)
    /\ DOMAIN images = 1 .. Len(images)
    /\ \A x \in 1 .. Len(images) : \A y \in 1 .. Len(images[x]) : IsBitmap(images[x][y])
    /\ \A k \in 1 .. Len(diag) : IsBitmap(diag[k])

(***************************************************************************)
(* The level grid of crispBitmapXY is the reference ladder: level (x, y)   *)
(* is ceil(width / 2^x) by ceil(height / 2^y), every X level has the same  *)
(* number of Y levels, and a level beyond (0, 0) exists exactly when its   *)
(* halved side is still above 4 px (the loop conditions of lines 316/324). *)
(***************************************************************************)
LadderLength(n) ==
    LET ks == {k \in 0 .. 30 : k = 0 \/ CeilDiv(n, Step ^ k) > MinSize}
    IN  CHOOSE m \in ks : \A k \in ks : k <= m

LevelGridMatchesLadder ==
    images # <<>> =>
      /\ Len(images) = LadderLength(src.w) + 1
      /\ \A x \in 1 .. Len(images) :
           /\ Len(images[x]) = LadderLength(src.h) + 1
           /\ \A y \in 1 .. Len(images[x]) :
                /\ images[x][y].w = CeilDiv(src.w, Step ^ (x - 1))
                /\ images[x][y].h = CeilDiv(src.h, Step ^ (y - 1))

(***************************************************************************)
(* Opacity rule through the whole grid (spec 3, 4.1): a sample of level    *)
(* (x, y) is opaque exactly when every source pixel it covers, the pixels  *)
(* (c, r) with c \div 2^x = i and r \div 2^y = j, is opaque; otherwise it  *)
(* is left untouched (0) and never blends in an edge colour.  Level (0,0) *)
(* is the source itself.                                                   *)
(***************************************************************************)
Span(j, k, n) ==
    LET hi == (j + 1) * Step ^ k
    IN  j * Step ^ k .. (IF hi < n THEN hi ELSE n) - 1

Covered(x, y, i, j) ==
    { r * src.w + c : r \in Span(j, y, src.h), c \in Span(i, x, src.w) }

OpacityFollowsFootprint ==
    \A x \in 1 .. Len(images) : \A y \in 1 .. Len(images[x]) :
      LET bm == images[x][y] IN
      \A p \in 0 .. bm.w * bm.h - 1 :
        LET opaque == \A q \in Covered(x - 1, y - 1, p % bm.w, p \div bm.w) :
                        Alpha(src.buf[q]) = 255
        IN  IF opaque THEN Alpha(bm.buf[p]) = 255
                      ELSE <<x, y>> = <<1, 1>> \/ bm.buf[p] = Zero

(***************************************************************************)
(* Resampling is a linear interpolation (spec 4.1): halving a bitmap whose *)
(* pixels all have one opaque colour must give that same colour at every   *)
(* level of the grid.                                                      *)
(***************************************************************************)
UniformColourPreserved ==
    (\A q \in DOMAIN src.buf : src.buf[q] = Background /\ Alpha(Background) = 255) =>
      \A x \in 1 .. Len(images) : \A y \in 1 .. Len(images[x]) :
        \A p \in DOMAIN images[x][y].buf : images[x][y].buf[p] = Background
=============================================================================
