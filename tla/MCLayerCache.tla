---------------------------- MODULE MCLayerCache ----------------------------
(* Model-checking instance of LayerCache.                                  *)
EXTENDS LayerCache, TLC

ExtractorSymmetry == Permutations(Extractors)
=============================================================================
