------------------------- MODULE MCStreamConformance -------------------------
(* Instances of StreamConformance for TLC; the constants are in the cfgs.   *)
EXTENDS StreamConformance, TLC

SymbolSymmetry == Permutations(Symbols)
==============================================================================
