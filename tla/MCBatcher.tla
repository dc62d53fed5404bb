------------------------------ MODULE MCBatcher ------------------------------
(* Instance of Batcher for TLC; the constants are in the cfg file.          *)
EXTENDS Batcher
==============================================================================
