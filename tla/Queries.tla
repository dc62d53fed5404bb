------------------------------- MODULE Queries -------------------------------
(***************************************************************************)
(* Queries of cfb.query (src/python/src/cfb/query.py), each as DuckDB and  *)
(* as Polars evaluates it on the rows that a reader has read, and the one  *)
(* query of the Rust crate cfb-query on its two engines.  Left out are Q3  *)
(* and Q4, which both engines evaluate by the same expression.             *)
(*                                                                         *)
(* An answer is a function from what it is grouped by; the order of its    *)
(* rows follows from their values.  A query that may answer one of several *)
(* is the set of them.  A quotient is the pair of its terms.               *)
(***************************************************************************)
EXTENDS Readers, FiniteSetsExt

CONSTANTS
  NsPerMin,  \* _NS_PER_MIN
  TopN,      \* how many symbols Q2 lists: 10 in the code
  Cutoffs    \* the times cutoff_ts that are asked for

Null == -1   \* a vwap_1m that is NULL; prices are natural numbers here

ASSUME QueriesAssumption ==
  /\ NsPerMin \in Nat \ {0} /\ TopN \in Nat \ {0}
  /\ Cutoffs \subseteq Nat
  /\ \A c \in Calls : \A k \in c.keys :
       /\ k.vwap \in Nat \cup {Null}
       /\ k.count \in Nat \ {0}
       /\ k.ofi \in Int

------------------------------------------------------------------------------
Since(rows, cutoff) == {r \in rows : r.key.ts >= cutoff}
Of(rows, symbol) == {r \in rows : r.key.symbol = symbol}

GroupBy(rows, Key(_), Agg(_)) ==
  [k \in {Key(r) : r \in rows} |-> Agg({r \in rows : Key(r) = k})]

Symbol(r) == r.key.symbol
Minute(ts) == NsPerMin * (ts \div NsPerMin)
Priced(rows) == {r \in rows : r.key.vwap # Null}
Count(r) == r.key.count

(* Every mean and every sum of products leaves out what is NULL.            *)
Mean(rows, Val(_)) == [sum |-> MapThenSumSet(Val, rows), of |-> Cardinality(rows)]
Weighted(rows) == MapThenSumSet(LAMBDA r : r.key.vwap * r.key.count, Priced(rows))

Volume(rows) == [total |-> MapThenSumSet(Count, rows),
                 avg   |-> Mean(Priced(rows), LAMBDA r : r.key.vwap)]

Flow(rows) == [ofi |-> MapThenSumSet(LAMBDA r : r.key.ofi, rows), n |-> Cardinality(rows)]

(* The TopN symbols of most trades; which of two with as many is open.      *)
Top(answer) ==
  LET size == Min({TopN, Cardinality(DOMAIN answer)})
  IN {[s \in S |-> answer[s]] :
        S \in {T \in kSubset(size, DOMAIN answer) :
                 \A s \in T, t \in DOMAIN answer \ T : answer[s].total >= answer[t].total}}

------------------------------------------------------------------------------
(* DuckDB.  Its / divides integers to a float, so that nothing is cut off   *)
(* and a minute is the time itself: two times fall together only below the  *)
(* 53 bits of the float, a quarter of a microsecond, and the times of the   *)
(* model are further apart.                                                 *)
DuckMinute(r) == r.key.ts

(* SUM over nothing but NULL is NULL.                                       *)
SqlVwap(rows) == [sum |-> IF Priced(rows) = {} THEN Null ELSE Weighted(rows),
                  of  |-> MapThenSumSet(Count, rows)]

DuckQ1(rows, symbol, cutoff) ==
  GroupBy(Since(Of(rows, symbol), cutoff), DuckMinute, SqlVwap)

DuckQ2(rows, cutoff) == Top(GroupBy(Since(rows, cutoff), Symbol, Volume))

DuckQ5(rows, symbol, cutoff) == GroupBy(Since(Of(rows, symbol), cutoff), DuckMinute, Flow)

------------------------------------------------------------------------------
(* Polars.                                                                  *)

(* Fault: / for //, as in the SQL.                                          *)
PolarsTrueDivision(r) == r.key.ts

PolarsMinute(r) == Minute(r.key.ts)

(* sum() over nothing but null is 0.                                        *)
PolarsVwap(rows) == [sum |-> Weighted(rows), of |-> MapThenSumSet(Count, rows)]

PolarsQ1(rows, symbol, cutoff) ==
  GroupBy(Since(Of(rows, symbol), cutoff), PolarsMinute, PolarsVwap)

PolarsQ2(rows, cutoff) == Top(GroupBy(Since(rows, cutoff), Symbol, Volume))

PolarsQ5(rows, symbol, cutoff) ==
  GroupBy(Since(Of(rows, symbol), cutoff), PolarsMinute, Flow)

------------------------------------------------------------------------------
(* cfb-query: Q1 without a cutoff.  Both of its engines divide integers to  *)
(* an integer; DataFusion reads SQL, with its NULL.                         *)
RustMinute(r) == Minute(r.key.ts)

DataFusionQ1(rows, symbol) == GroupBy(Of(rows, symbol), RustMinute, SqlVwap)

RustPolarsQ1(rows, symbol) == GroupBy(Of(rows, symbol), RustMinute, PolarsVwap)

------------------------------------------------------------------------------
(* Two answers to Q2 list as many symbols of each total, and the same of a  *)
(* symbol that both list.                                                   *)
SameTop(a, b) ==
  /\ \A s \in DOMAIN a \cap DOMAIN b : a[s] = b[s]
  /\ \A t \in {a[s].total : s \in DOMAIN a} \cup {b[s].total : s \in DOMAIN b} :
       Cardinality({s \in DOMAIN a : a[s].total = t}) =
         Cardinality({s \in DOMAIN b : b[s].total = t})

(* The buckets of DuckDB within a minute of Polars add up to it.            *)
AddUp(duck, polars, Val(_)) ==
  /\ DOMAIN polars = {Minute(t) : t \in DOMAIN duck}
  /\ \A m \in DOMAIN polars :
       Val(polars[m]) =
         MapThenSumSet(LAMBDA t : Val(duck[t]), {t \in DOMAIN duck : Minute(t) = m})

OrZero(x) == IF x = Null THEN 0 ELSE x

(* On the same rows the engines differ in nothing but the buckets of Q1 and *)
(* Q5, where DuckDB has one for each time and not for each minute, the NULL *)
(* of a bucket without a price, and the choice between symbols of as many   *)
(* trades.  The engines of Rust side with Polars in the buckets of Q1.  So  *)
(* it is not so that "Results must be identical within float tolerance      *)
(* 1e-9" (query.py:4), nor as spec/queries.sql:2 and                        *)
(* python/tests/test_query.py:1 have it.  Rows of a blend are not looked at *)
(* (query.py:37-182, datafusion_engine.rs:35-45, polars_engine.rs:25-37).   *)
EnginesDifferInBuckets ==
  reader.pc = "done" =>
    LET rows == job.rows IN
    /\ \A cutoff \in Cutoffs :
         /\ \A a \in DuckQ2(rows, cutoff), b \in PolarsQ2(rows, cutoff) : SameTop(a, b)
         /\ \A s \in {Symbol(r) : r \in rows} :
              /\ AddUp(DuckQ1(rows, s, cutoff), PolarsQ1(rows, s, cutoff), LAMBDA b : OrZero(b.sum))
              /\ AddUp(DuckQ1(rows, s, cutoff), PolarsQ1(rows, s, cutoff), LAMBDA b : b.of)
              /\ AddUp(DuckQ5(rows, s, cutoff), PolarsQ5(rows, s, cutoff), LAMBDA b : b.ofi)
              /\ AddUp(DuckQ5(rows, s, cutoff), PolarsQ5(rows, s, cutoff), LAMBDA b : b.n)
    /\ \A s \in {Symbol(r) : r \in rows} :
         \A answer \in {DataFusionQ1(rows, s), RustPolarsQ1(rows, s)} :
           /\ AddUp(DuckQ1(rows, s, 0), answer, LAMBDA b : OrZero(b.sum))
           /\ AddUp(DuckQ1(rows, s, 0), answer, LAMBDA b : b.of)
==============================================================================
