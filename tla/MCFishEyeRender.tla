---------------------------- MODULE MCFishEyeRender ----------------------------
(* The pyramid builder and renderFishEye over it, for TLC.                 *)
EXTENDS MCCrisp, FishEyeRender

\* Uniform sources of every size up to 36 px a side for the ladder, and the
\* small sizes of PixelDims with one special pixel for the samples.
GridSources == SourcesOf(LadderDims, {}) \cup SourcesOf(PixelDims, PixelSpecials)
====
