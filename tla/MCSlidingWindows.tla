-------------------------- MODULE MCSlidingWindows ---------------------------
(* Instances of SlidingWindows for TLC; the constants are in the cfg files. *)
EXTENDS SlidingWindows
==============================================================================
