--------------------------- MODULE SlidingWindows ----------------------------
(***************************************************************************)
(* The batch feature implementations on one input, turn by turn:           *)
(* compute_arrow (src/rust/crates/cfb-features/src/arrow_impl.rs) slides   *)
(* two deques per window, compute_numba (src/python/src/cfb/features.py)   *)
(* slides pointers over arrays, compute_pandas and compute_polars select   *)
(* rows; and, for comparison, the reference compute_stream of Python.      *)
(*                                                                         *)
(* The columns come from running sums.  A sum is modelled by how often it  *)
(* counts each trade, so that one formal sum stands for pv, qty, ofi and   *)
(* the count; arithmetic is exact.  The squared return into a trade bears  *)
(* that trade's number; the one into the first trade is zero.  Symbols are *)
(* left out: none of the sliding implementations looks at them.            *)
(***************************************************************************)
EXTENDS StreamOps

CONSTANTS
  MaxEvents,  \* bound of the model: length of the input
  MaxTs       \* bound of the model: the latest time

ASSUME SlidingAssumption == MaxEvents \in Nat /\ MaxTs \in Nat

VARIABLES
  input,                  \* the trades so far: [id, ts], id is the position
  deque,                  \* WindowState: buf and sq_ret_buf of each window
  slice,                  \* compute_numba: lo and the sums of each window
  watermark, buf, rows    \* compute_stream

vars == <<input, deque, slice, watermark, buf, rows>>

Stream == INSTANCE PyComputeStream

Windows == {"1m", "5m", "15m"}

Width(w) == CASE w = "1m" -> Window1m [] w = "5m" -> Window5m [] w = "15m" -> Window15m

(* Each window slides over the trades and over the squared returns; numba   *)
(* keeps no squared returns for 15m.                                        *)
Deques == Windows \X {"trades", "sqRets"}
Slices == Deques \ {<<"15m", "sqRets">>}

Ids == 1..MaxEvents

TypeOK ==
  /\ input \in Seq([id : Ids, ts : Nat])
  /\ deque \in [Deques -> [buf : Seq([id : Ids, ts : Nat]), sum : [Ids -> Int]]]
  /\ slice \in [Slices -> [lo : Ids \cup {MaxEvents + 1}, sum : [Ids -> Int]]]

Zero == [i \in Ids |-> 0]

Init ==
  /\ input = <<>>
  /\ deque = [d \in Deques |-> [buf |-> <<>>, sum |-> Zero]]
  /\ slice = [s \in Slices |-> [lo |-> 1, sum |-> Zero]]
  /\ Stream!Init

(* The sum with one trade added and a set of trades subtracted.             *)
Shift(sum, added, gone) ==
  [i \in Ids |-> sum[i] + (IF i = added THEN 1 ELSE 0) - (IF i \in gone THEN 1 ELSE 0)]

(* Fault: a trade that is exactly one window old is evicted.                *)
CutoffTooLate(t, w) == t.ts - w + 1

Cutoff(t, w) == t.ts - w

(* Fault: what is popped stays in the sums.                                 *)
EvictKeepsSum(d, t, w) ==
  [buf |-> Prune(Append(d.buf, t), Cutoff(t, w)), sum |-> Shift(d.sum, t.id, {})]

(* push_and_evict, for the trades or for the squared returns of a window.   *)
PushAndEvict(d, t, w) ==
  LET kept == Prune(Append(d.buf, t), Cutoff(t, w))
  IN [buf |-> kept,
      sum |-> Shift(d.sum, t.id,
                {u.id : u \in Elements(Append(d.buf, t)) \ Elements(kept)})]

(* Fault: the pointer jumps to the first trade in reach, over newer ones.   *)
SlidePastEqual(s, in, w) ==
  LET n  == Len(in)
      lo == CHOOSE k \in s.lo..n + 1 :
              /\ \A i \in s.lo..k - 1 : in[i].ts <= in[n].ts - w
              /\ k <= n => in[k].ts > in[n].ts - w
  IN [lo |-> lo, sum |-> Shift(s.sum, n, s.lo..lo - 1)]

(* One turn of _compute_nb at the last position of the array: add it, and   *)
(* advance the pointer as long as it is at a trade that is too old.         *)
Slide(s, in, w) ==
  LET n  == Len(in)
      lo == CHOOSE k \in s.lo..n + 1 :
              /\ \A i \in s.lo..k - 1 : in[i].ts < Cutoff(in[n], w)
              /\ k <= n => in[k].ts >= Cutoff(in[n], w)
  IN [lo |-> lo, sum |-> Shift(s.sum, n, s.lo..lo - 1)]

Turn(t) ==
  /\ input' = Append(input, t)
  /\ deque' = [d \in Deques |-> PushAndEvict(deque[d], t, Width(d[1]))]
  /\ slice' = [s \in Slices |-> Slide(slice[s], input', Width(s[1]))]
  /\ Stream!Turn(t)

Terminated == Len(input) = MaxEvents /\ UNCHANGED vars

Next ==
  \/ /\ Len(input) < MaxEvents
     /\ \E t \in [id : {Len(input) + 1}, ts : 0..MaxTs] : Turn(t)
  \/ Terminated

Spec == Init /\ [][Next]_vars

------------------------------------------------------------------------------
(* compute_pandas and compute_polars: the positions of the sorted input     *)
(* that a window ending at position i takes.  Polars closes its windows on  *)
(* the right and takes every row of one time.                               *)
PandasWindow(i, w) == {j \in 1..i : input[j].ts >= input[i].ts - w}

(* Fault: the mask is not cut off after row i.                              *)
PolarsUncut(i, w) == {j \in 1..Len(input) : input[i].ts - w < input[j].ts}

PolarsWindow(i, w) ==
  {j \in 1..Len(input) : input[i].ts - w < input[j].ts /\ input[j].ts <= input[i].ts}

------------------------------------------------------------------------------
Last == input[Len(input)]

Counted(sum) == {i \in Ids : sum[i] = 1}

InOrder == \A i, j \in 1..Len(input) : i < j => input[i].ts <= input[j].ts

(* No trade is further behind an earlier one than the threshold.            *)
NearlyInOrder ==
  \A i, j \in 1..Len(input) : i < j => input[j].ts >= input[i].ts - LateThreshold

(* The sum that counts the positions lo to n once, and no other.            *)
Once(lo, n) == [i \in Ids |-> IF i \in lo..n THEN 1 ELSE 0]

(* Where the content of a deque begins, if it is the end of the input.      *)
First(d) == Len(input) + 1 - Len(deque[d].buf)

(* What slid out of a window was too old for it when it did.                *)
SlidOut(lo, w) ==
  /\ \A i \in 1..lo - 1 : \E k \in 1..Len(input) : input[i].ts < input[k].ts - w
  /\ lo <= Len(input) => input[lo].ts >= Last.ts - w

(* The inductive invariant (arrow_impl.rs:41-74, features.py:255-296).      *)
Inv ==
  /\ TypeOK
  /\ Len(input) <= MaxEvents /\ \A i \in 1..Len(input) : input[i].id = i
  /\ \A d \in Deques :
       /\ First(d) \in 1..Len(input) + 1
       /\ deque[d] = [buf |-> SubSeq(input, First(d), Len(input)),
                      sum |-> Once(First(d), Len(input))]
       /\ SlidOut(First(d), Width(d[1]))
  /\ \A s \in Slices : slice[s] = [lo |-> First(s), sum |-> deque[s].sum]

(* On every input, ordered or not, the deques of Rust and the pointers of   *)
(* Python hold the same trades and returns, and their running sums count    *)
(* each of these once and nothing else (arrow_impl.rs:51-73,                *)
(* features.py:260-296).                                                    *)
ArrowIsNumba ==
  \A s \in Slices :
    /\ deque[s].buf = SubSeq(input, slice[s].lo, Len(input))
    /\ deque[s].sum = slice[s].sum
    /\ slice[s].sum = Once(slice[s].lo, Len(input))

(* Neither drops a late trade, and a late trade moves the cutoff back.  A   *)
(* window may then lack trades it reaches, but only some that are more than *)
(* the window older than one already seen; and on an input no more out of   *)
(* order than compute_stream tolerates, a window holds nothing older than   *)
(* its length and the threshold (arrow_impl.rs:58-73).                      *)
DisorderBounded ==
  \A d \in Deques :
    LET w == Width(d[1])
        held == Elements(deque[d].buf)
    IN /\ \A t \in Elements(input) \ held :
            t.ts >= Last.ts - w => \E u \in Elements(input) : t.ts < u.ts - w
       /\ NearlyInOrder => \A t \in held : t.ts >= Last.ts - w - LateThreshold

(* The pairs of trades whose returns a deque of squared returns counts, and *)
(* those whose returns compute_stream takes: the neighbours in a window.    *)
Returns(d) == {<<input[i - 1], input[i]>> : i \in Counted(d.sum) \ {1}}

Neighbours(win) ==
  {e \in win \X win :
     e[1].id < e[2].id /\ ~\E q \in win : e[1].id < q.id /\ q.id < e[2].id}

(* On an input in order the windows are those of compute_stream.  Realised  *)
(* volatility is not: the return into the oldest trade of the window, from  *)
(* a trade outside it, is counted too (arrow_impl.rs:42-56,                 *)
(* features.py:30-48, 243-281).                                             *)
InOrderMatchesStream ==
  InOrder /\ input # <<>> => \E r \in rows :
    LET windows == [x \in Windows |-> CASE x = "1m" -> r.w1m
                                        [] x = "5m" -> r.w5m
                                        [] x = "15m" -> r.w15m]
    IN /\ r.trade = Last
       /\ \A w \in Windows :
            LET win == windows[w]
                first == CHOOSE t \in win : \A u \in win : t.id <= u.id
            IN /\ Elements(deque[<<w, "trades">>].buf) = win
               /\ Returns(deque[<<w, "sqRets">>]) = Neighbours(win) \cup
                    (IF first.id = 1 THEN {} ELSE {<<input[first.id - 1], first>>})

(* On an input in order pandas takes the window of compute_stream; Polars   *)
(* leaves out the trades exactly one window old, and also takes trades of   *)
(* the same time that come later (features.py:114-115, 165-171).  That is   *)
(* not what is asked of it: windows are "closed on the left, open on the    *)
(* right: `[ts - window_ns, ts)`" (spec/contract.md:38), and implementations*)
(* "must satisfy this contract exactly" (spec/contract.md:3).               *)
RollingMatchesStream ==
  InOrder => \A r \in rows :
    LET i == r.trade.id
        old == {j \in 1..i : input[j].ts = r.trade.ts - Window1m}
        tied == {j \in i + 1..Len(input) : input[j].ts = r.trade.ts}
        ids == {t.id : t \in r.w1m}
    IN /\ PandasWindow(i, Window1m) = ids
       /\ PolarsWindow(i, Window1m) = (ids \ old) \cup tied

(* "Single-trade windows: VWAP = that trade's price; RV = 0.0 (no log       *)
(* returns)" (spec/contract.md:40): a window of one trade counts no return. *)
SingleTradeNoReturn ==
  \A w \in {"1m", "5m"} :
    Len(deque[<<w, "trades">>].buf) = 1 => Returns(deque[<<w, "sqRets">>]) = {}
==============================================================================
