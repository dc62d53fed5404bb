------------------------------ MODULE MCBatched ------------------------------
(* Instances of Batched for TLC; the constants are in the cfg files.        *)
EXTENDS Batched
==============================================================================
