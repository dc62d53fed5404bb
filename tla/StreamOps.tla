------------------------------ MODULE StreamOps ------------------------------
(***************************************************************************)
(* One stream of trades and the windows that look back over it: the deque  *)
(* of SymbolState (streaming.rs) and of compute_stream (features.py).      *)
(*                                                                         *)
(* A trade is [id, ts, symbol]: id is its place in the input.  Price,      *)
(* quantity and side are left out: every column of a feature row is a      *)
(* function of the trades in one window, taken in the order of their ids,  *)
(* so two rows are the same when their windows are.                        *)
(***************************************************************************)
EXTENDS Integers, Sequences

CONSTANTS
  LateThreshold,                    \* LATE_THRESHOLD, 2 s
  Window1m, Window5m, Window15m     \* 60 s, 300 s, 900 s

(* What the code's constants satisfy, and all that is used of them.         *)
ASSUME StreamAssumption ==
  /\ LateThreshold \in Nat
  /\ Window1m \in Nat \ {0} /\ Window5m \in Nat /\ Window15m \in Nat
  /\ Window1m <= Window5m
  /\ Window5m + LateThreshold <= Window15m

MaxOf(a, b) == IF a >= b THEN a ELSE b

Elements(buf) == {buf[i] : i \in 1..Len(buf)}

(* Fault: everything a window could still want counts as in time.           *)
IsLateByWindow(watermark, t) == t.ts < watermark - Window15m

(* Fault: a trade late by just the threshold is late.                       *)
IsLateAtThreshold(watermark, t) == t.ts <= watermark - LateThreshold

IsLate(watermark, t) == t.ts < watermark - LateThreshold

(* The trades of the deque that a window of length w, ending at ts, holds.  *)
(* There is no upper bound on their time.                                   *)
Window(buf, ts, w) == {t \in Elements(buf) : t.ts >= ts - w}

NewRow(buf, t) ==
  [trade |-> t,
   w1m   |-> Window(buf, t.ts, Window1m),
   w5m   |-> Window(buf, t.ts, Window5m),
   w15m  |-> Window(buf, t.ts, Window15m)]

(* The first position that stays when the front of the deque is popped as   *)
(* long as it is older than the cutoff.                                     *)
KeptFrom(buf, cutoff) ==
  CHOOSE k \in 1..Len(buf) + 1 :
    /\ \A i \in 1..k - 1 : buf[i].ts < cutoff
    /\ k <= Len(buf) => buf[k].ts >= cutoff

(* Fault: nothing is popped.                                                *)
PruneNothing(buf, cutoff) == buf

Prune(buf, cutoff) == SubSeq(buf, KeptFrom(buf, cutoff), Len(buf))
==============================================================================
