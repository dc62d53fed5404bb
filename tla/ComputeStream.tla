---------------------------- MODULE ComputeStream ----------------------------
(***************************************************************************)
(* compute_stream and SymbolState of cfb-features                          *)
(* (src/rust/crates/cfb-features/src/streaming.rs): for each trade of the  *)
(* input, a feature row computed over the recent trades of its symbol,     *)
(* unless the trade is too late for its symbol's watermark.                *)
(*                                                                         *)
(* An action is one turn of the loop over the events.  The input is any    *)
(* sequence of trades: nothing orders their times.                         *)
(***************************************************************************)
EXTENDS StreamOps, FiniteSets

CONSTANTS
  Symbols,    \* the symbols that occur in the input
  MaxEvents,  \* bound of the model: length of the input
  MaxTs       \* bound of the model: the latest time

ASSUME ComputeAssumption == MaxEvents \in Nat /\ MaxTs \in Nat

VARIABLES
  arrived,  \* events looked at
  state,    \* SymbolState of each symbol
  rows,     \* the rows; their order in the output is that of their trades
  late      \* history: the events that were dropped

vars == <<arrived, state, rows, late>>

TradeType == [id : Nat, ts : Nat, symbol : Symbols]

TypeOK ==
  /\ arrived \in 0..MaxEvents
  /\ state \in [Symbols ->
                 [buf : Seq(TradeType), watermark : Nat, late_drops : Nat]]
  /\ rows \subseteq [trade : TradeType, w1m : SUBSET TradeType,
                     w5m : SUBSET TradeType, w15m : SUBSET TradeType]
  /\ late \subseteq TradeType

(* state.entry(symbol).or_default()                                         *)
Default == [buf |-> <<>>, watermark |-> 0, late_drops |-> 0]

Init ==
  /\ arrived = 0
  /\ state = [s \in Symbols |-> Default]
  /\ rows = {}
  /\ late = {}

(* The next event of the input.                                             *)
Arrivals == [id : {arrived + 1}, ts : 0..MaxTs, symbol : Symbols]

(* Fault: a late trade also moves the watermark back.                       *)
AdvanceToLast(st, t) == t.ts

Advance(st, t) == MaxOf(st.watermark, t.ts)

(* Fault: the deque is pruned to the five-minute window.                    *)
CutoffTooTight(watermark) == watermark - Window5m

Cutoff(watermark) == watermark - Window15m

DropLate(t) ==
  /\ IsLate(state[t.symbol].watermark, t)
  /\ state' = [state EXCEPT ![t.symbol].late_drops = @ + 1]
  /\ late' = late \cup {t}
  /\ UNCHANGED rows

(* SymbolState::push of a trade in time: the row is computed on the deque   *)
(* with the trade and before the pruning.                                   *)
Emit(t) ==
  /\ ~IsLate(state[t.symbol].watermark, t)
  /\ LET st == state[t.symbol]
         wm == Advance(st, t)
         b  == Append(st.buf, t)
     IN /\ rows' = rows \cup {NewRow(b, t)}
        /\ state' = [state EXCEPT ![t.symbol] =
                       [buf        |-> Prune(b, Cutoff(wm)),
                        watermark  |-> wm,
                        late_drops |-> st.late_drops]]
  /\ UNCHANGED late

Push(t) == arrived' = arrived + 1 /\ (DropLate(t) \/ Emit(t))

Terminated == arrived = MaxEvents /\ UNCHANGED vars

Next ==
  \/ arrived < MaxEvents /\ \E t \in Arrivals : Push(t)
  \/ Terminated

Spec == Init /\ [][Next]_vars

------------------------------------------------------------------------------
Accepted(s) == {r.trade : r \in {q \in rows : q.trade.symbol = s}}

(* What had been accepted for the symbol of row r when r was computed.      *)
Seen(r) == {t \in Accepted(r.trade.symbol) : t.id <= r.trade.id}

Reach(r, w) == {t \in Seen(r) : t.ts >= r.trade.ts - w}

(* Although the deque is pruned by the watermark and a late trade looks     *)
(* back from behind it, the 1m and 5m windows of every row hold exactly the *)
(* accepted trades of the symbol that they reach.  The 15m window may miss  *)
(* some, but only trades more than 15m older than one already seen: for an  *)
(* event that came in order it is complete too (streaming.rs:26-59).        *)
WindowsComplete ==
  \A r \in rows :
    /\ r.w1m = Reach(r, Window1m)
    /\ r.w5m = Reach(r, Window5m)
    /\ r.w15m \subseteq Reach(r, Window15m)
    /\ \A t \in Reach(r, Window15m) \ r.w15m :
         \E u \in Seen(r) : t.ts < u.ts - Window15m

(* The windows have no upper bound in the code; the lateness test gives     *)
(* them one: a row never looks further ahead than the threshold             *)
(* (streaming.rs:26, 35-41).                                                *)
LookaheadBounded ==
  \A r \in rows : \A t \in r.w15m : t.ts <= r.trade.ts + LateThreshold

(* Only the front of the deque is tested, so an old trade may stay behind a *)
(* newer one; still nothing older than 15m and the threshold is kept        *)
(* (streaming.rs:56-59).                                                    *)
NothingStale ==
  \A s \in Symbols : \A t \in Elements(state[s].buf) :
    t.ts >= state[s].watermark - Window15m - LateThreshold

(* The watermark only stands for what it is asked: an event is dropped, and *)
(* counted, just when one of its symbol that came before it is more than    *)
(* the threshold newer; every other event has a row (streaming.rs:26-31).   *)
Late(s) == {t \in late : t.symbol = s}

Overtaken(t) == \E u \in Accepted(t.symbol) : u.id < t.id /\ t.ts < u.ts - LateThreshold

LateDropsExact ==
  /\ \A i \in 1..arrived : \E t \in late \cup {r.trade : r \in rows} : t.id = i
  /\ \A t \in late : Overtaken(t)
  /\ \A r \in rows : ~Overtaken(r.trade)
  /\ \A s \in Symbols : state[s].late_drops = Cardinality(Late(s))

(* Why they hold, for a deque and a watermark when A was accepted: only     *)
(* accepted trades are on the deque, no two more than the threshold out of  *)
(* order, the first within 15m of the watermark; and what is within 15m of  *)
(* the watermark, the latest time accepted, is on the deque.                *)
DequeInv(buf, watermark, A) ==
  /\ Elements(buf) \subseteq A
  /\ \A i, j \in 1..Len(buf) : i < j => buf[j].ts >= buf[i].ts - LateThreshold
  /\ buf # <<>> => buf[1].ts >= watermark - Window15m
  /\ \A t \in A : t.ts <= watermark
  /\ \A t \in A : t.ts >= watermark - Window15m => t \in Elements(buf)
  /\ watermark = 0 \/ \E t \in A : t.ts = watermark

(* The inductive invariant (streaming.rs:25-62).                            *)
Inv ==
  /\ TypeOK
  /\ \A r \in rows : r.trade.id <= arrived
  /\ \A t \in late : t.id <= arrived
  /\ IsFiniteSet(late)
  /\ \A s \in Symbols : DequeInv(state[s].buf, state[s].watermark, Accepted(s))
  /\ WindowsComplete
  /\ LookaheadBounded
  /\ LateDropsExact

(* "Windows are time-based, closed on the left, open on the right:          *)
(* [ts - window_ns, ts)" (spec/contract.md:38): no window holds a trade     *)
(* that is later than the event of its row.                                 *)
WindowsEndAtEvent ==
  \A r \in rows : \A t \in r.w1m : t.ts <= r.trade.ts
==============================================================================
