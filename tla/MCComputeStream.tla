--------------------------- MODULE MCComputeStream ---------------------------
(* Instances of ComputeStream for TLC; the constants are in the cfg files.  *)
EXTENDS ComputeStream, TLC

SymbolSymmetry == Permutations(Symbols)
==============================================================================
