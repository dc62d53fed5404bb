-------------------------- MODULE StreamConformance --------------------------
(***************************************************************************)
(* The Python and the Rust compute_stream on the same input, event by      *)
(* event: what their conformance suites compare on fixtures                *)
(* (src/python/tests/test_conformance.py and the tests of cfb-features).   *)
(***************************************************************************)
EXTENDS ComputeStream

VARIABLES watermark, buf, pyRows    \* those of PyComputeStream

bothVars == <<arrived, state, rows, late, watermark, buf, pyRows>>

Py == INSTANCE PyComputeStream WITH rows <- pyRows

BothInit == Init /\ Py!Init

Both(t) == Push(t) /\ Py!Turn(t)

BothEnded == arrived = MaxEvents /\ UNCHANGED bothVars

BothNext ==
  \/ arrived < MaxEvents /\ \E t \in Arrivals : Both(t)
  \/ BothEnded

BothSpec == BothInit /\ [][BothNext]_bothVars

------------------------------------------------------------------------------
(* On an input of one symbol the two agree on every row, and would go on    *)
(* doing so: their deques and watermarks are the same                       *)
(* (features.py:52-88, streaming.rs:25-62).                                 *)
AgreeOnOneSymbol ==
  \A s \in Symbols : (\A r \in rows : r.trade.symbol = s) =>
    /\ pyRows = rows
    /\ buf = state[s].buf
    /\ watermark = state[s].watermark

(* On any input, a row of the Python stream has a row of the Rust stream    *)
(* whose 1m and 5m windows hold at least its trades of that symbol, and     *)
(* Rust has a row that Python lacks only for a trade that is too late for   *)
(* another symbol's clock (features.py:59-60, streaming.rs:26-28).          *)
Own(r, w) == {t \in w : t.symbol = r.trade.symbol}

DifferencesExplained ==
  /\ \A p \in pyRows : \E r \in rows :
       /\ r.trade = p.trade
       /\ Own(p, p.w1m) \subseteq r.w1m
       /\ Own(p, p.w5m) \subseteq r.w5m
  /\ \A r \in rows :
       \/ \E p \in pyRows : p.trade = r.trade
       \/ \E q \in pyRows :
            /\ q.trade.id < r.trade.id
            /\ q.trade.symbol # r.trade.symbol
            /\ q.trade.ts > r.trade.ts + LateThreshold

(* The Python windows, which mix the symbols, are those of all accepted     *)
(* trades (features.py:64-69).                                              *)
PySeen(p) == {t \in {q.trade : q \in pyRows} : t.id <= p.trade.id}

PyWindowsComplete ==
  \A p \in pyRows :
    /\ p.w1m = {t \in PySeen(p) : t.ts >= p.trade.ts - Window1m}
    /\ p.w5m = {t \in PySeen(p) : t.ts >= p.trade.ts - Window5m}
    /\ p.w15m \subseteq {t \in PySeen(p) : t.ts >= p.trade.ts - Window15m}
    /\ \A t \in PySeen(p) \ p.w15m :
         \/ t.ts < p.trade.ts - Window15m
         \/ \E u \in PySeen(p) : t.ts < u.ts - Window15m

(* "This is the conformance reference - matches the Python compute_stream   *)
(* exactly." (streaming.rs:4)                                               *)
MatchesPython == pyRows = rows
==============================================================================
