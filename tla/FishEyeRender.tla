---------------------------- MODULE FishEyeRender ----------------------------
(***************************************************************************)
(* renderFishEye of orbital.js, reading the level grid that crispBitmapXY *)
(* built (module Crisp).  For each output pixel (x1, y1) past the         *)
(* superSampling border, the render map entry at delta says whether the  *)
(* pixel is drawn and at which source coordinates (finalX0, finalY0) of   *)
(* which level; in bounds, the four surrounding samples are blended by    *)
(* interpolate along X, then the two results along Y, and stored at       *)
(* dataBuff[i].                                                           *)
(*                                                                         *)
(* Coordinates are kept in quarter pixels (q = 4 * finalX0), which the     *)
(* float arithmetic of the code represents exactly.  The warp field and    *)
(* the render map built from it (floating-point geometry) are not         *)
(* modelled: which entries are drawn is the environment's choice, and the *)
(* blend is checked for every level and for quarter positions in its      *)
(* first and last cells.                                                   *)
(***************************************************************************)
EXTENDS Crisp

CONSTANTS
    Width, Height,   \* the output bitmap (cacheW, cacheH)
    SuperSampling    \* fishEye.superSampling (1 in Orbital and Magnifier)

\* var length = 12: the floats of one render map entry
Length == 12

\* interpolate (ratio, pixf, pixc) of renderFishEye, for ratio = q / 4:
\* f = ~~ratio, c1 = c - ratio, f1 = ratio - f; each blended channel is
\* truncated by the shift, the byte of bits 0..7 goes to bits 16..23 and
\* the one of bits 16..23 to bits 0..7, alpha is 255.
Lerp(k, a, b) == ((4 - k) * a + k * b) \div 4
RenderInterpolate(q, pixf, pixc) ==
    Word(Lerp(q % 4, Byte2(pixf), Byte2(pixc)),
         Lerp(q % 4, Byte1(pixf), Byte1(pixc)),
         Lerp(q % 4, Byte0(pixf), Byte0(pixc)),
         255)

\* finalX0 >= 0 && finalX0 < scaled.width - 1 && finalY0 >= 0 && ...
InBounds(bm, qx, qy) == qx >= 0 /\ qx < 4 * (bm.w - 1) /\ qy >= 0 /\ qy < 4 * (bm.h - 1)

\* Variant: the next row found by adding the height instead of the width.
RowBelowHeight(iim0, bm) == iim0 + bm.h
\* iim1 = iim0 + scaled.width
RowBelow(iim0, bm) == iim0 + bm.w

\* dataBuff[i] = interpolate (finalY0, interpolate (finalX0, buff[iim0],
\* buff[iim0 + 1]), interpolate (finalX0, buff[iim1], buff[iim1 + 1])); a
\* read past the end of the typed array is undefined, which the shifts make 0
RenderPixel(bm, qx, qy) ==
    LET iim0 == (qy \div 4) * bm.w + qx \div 4
        iim1 == RowBelow(iim0, bm)
    IN  RenderInterpolate(qy, RenderInterpolate(qx, Read(bm, iim0), Read(bm, iim0 + 1)),
                              RenderInterpolate(qx, Read(bm, iim1), Read(bm, iim1 + 1)))

-----------------------------------------------------------------------------
(* The two loops of renderFishEye, run to completion inside drawCircle:   *)
(* the set of stores dataBuff[i] = ... with the render map entry (delta \ *)
(* length) whose coordinates they use, taking every entry as drawn.       *)
RECURSIVE Loop(_, _, _, _)
Loop(y1, x1, i, delta) ==
    IF x1 < Width
    THEN {[at |-> i, entry |-> delta \div Length]} \cup Loop(y1, x1 + 1, i + 1, delta + Length)
    ELSE IF y1 + 1 < Height
         THEN Loop(y1 + 1, SuperSampling, i + SuperSampling, ((y1 + 1) * Width + SuperSampling) * Length)
         ELSE {}

\* var i = 0; for (y1 = ss; y1 < height; y1++) { i += ss;
\* delta = (y1 * width + ss) * length; for (x1 = ss; ...) }
RenderStores ==
    IF SuperSampling < Height
    THEN Loop(SuperSampling, SuperSampling, SuperSampling, (SuperSampling * Width + SuperSampling) * Length)
    ELSE {}

-----------------------------------------------------------------------------
(* Quarter positions in the first and last cell of a side of n samples. *)
Cells(n) == {4 * c + k : c \in {0, n - 2} \cap Nat, k \in 0 .. 3}

(* Spec 4.3: inside a level the render is the bilinear interpolation of   *)
(* each RGBA channel of the four surrounding samples, (1 - frac) * c[f] +  *)
(* frac * c[f + 1] along X and then along Y (each stored as a byte), with *)
(* alpha opaque when the samples are.  Stated channel by channel on the   *)
(* level's own samples, it is what the two byte-swapping interpolate     *)
(* calls and the iim0 / iim1 indexing of renderFishEye must produce.      *)
Sample(bm, x, y) == bm.buf[y * bm.w + x]
Bilinear(bm, qx, qy, ch) ==
    LET x == qx \div 4
        y == qy \div 4
    IN  Lerp(qy % 4, Lerp(qx % 4, Sample(bm, x, y)[ch], Sample(bm, x + 1, y)[ch]),
                     Lerp(qx % 4, Sample(bm, x, y + 1)[ch], Sample(bm, x + 1, y + 1)[ch]))

RenderMatchesReference ==
    \A lx \in 1 .. Len(images) : \A ly \in 1 .. Len(images[lx]) :
      LET bm == images[lx][ly] IN
      \A qx \in Cells(bm.w), qy \in Cells(bm.h) :
        LET x == qx \div 4
            y == qy \div 4
        IN  (/\ InBounds(bm, qx, qy)
             /\ \A s \in {Sample(bm, x, y), Sample(bm, x + 1, y),
                          Sample(bm, x, y + 1), Sample(bm, x + 1, y + 1)} : Alpha(s) = 255)
            => RenderPixel(bm, qx, qy) = Word(Bilinear(bm, qx, qy, 1), Bilinear(bm, qx, qy, 2),
                                              Bilinear(bm, qx, qy, 3), 255)

(* The render map and dataBuff have the same layout (index y1 * width +   *)
(* x1): the pixel whose map entry is read is the pixel that is written,   *)
(* so the pixels the loops skip are those within superSampling of the     *)
(* border (spec 4.3), and at curvature 0 the render reproduces the source *)
(* in place (spec 8, "Identity at curvature 0").                           *)
WrittenAtOwnPosition == images # <<>> => \A st \in RenderStores : st.at = st.entry
====
