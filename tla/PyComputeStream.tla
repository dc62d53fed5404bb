--------------------------- MODULE PyComputeStream ---------------------------
(***************************************************************************)
(* cfb.features.compute_stream (src/python/src/cfb/features.py): the same  *)
(* loop as ComputeStream, with one deque and one watermark for the trades  *)
(* of all symbols, and without a count of the trades it drops.             *)
(*                                                                         *)
(* An action is one turn of the loop over the events.                      *)
(***************************************************************************)
EXTENDS StreamOps

VARIABLES
  watermark,  \* the latest time accepted
  buf,        \* the deque
  rows        \* the rows; their order in the output is that of their trades

vars == <<watermark, buf, rows>>

Init ==
  /\ watermark = 0
  /\ buf = <<>>
  /\ rows = {}

(* Fault: any trade behind the watermark is dropped.                        *)
TooLateAtOnce(t) == t.ts < watermark

TooLate(t) == IsLate(watermark, t)

Skip(t) == TooLate(t) /\ UNCHANGED vars

(* Fault: the watermark is the time of the last trade.                      *)
EmitLastWatermark(t) ==
  /\ ~TooLate(t)
  /\ watermark' = t.ts
  /\ LET b == Append(buf, t)
     IN /\ rows' = rows \cup {NewRow(b, t)}
        /\ buf' = Prune(b, watermark' - Window15m)

(* The turn of a trade in time: the row is computed before the pruning.     *)
Emit(t) ==
  /\ ~TooLate(t)
  /\ watermark' = MaxOf(watermark, t.ts)
  /\ LET b == Append(buf, t)
     IN /\ rows' = rows \cup {NewRow(b, t)}
        /\ buf' = Prune(b, watermark' - Window15m)

Turn(t) == Skip(t) \/ Emit(t)
==============================================================================
