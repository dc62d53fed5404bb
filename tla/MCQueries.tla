------------------------------ MODULE MCQueries ------------------------------
(***************************************************************************)
(* Instances of Readers and Queries for TLC: a minute is 2, an hour 4, a   *)
(* day 8.  Two rows share a minute, one of them without a price; a part of *)
(* its own holds another row of the same time; one row is of the next day. *)
(***************************************************************************)
EXTENDS Queries

Row(symbol, ts, vwap, count, ofi) ==
  [symbol |-> symbol, ts |-> ts, vwap |-> vwap, count |-> count, ofi |-> ofi]

Call(by, part, keys) == [by |-> by, part |-> part, keys |-> keys]

MCCalls ==
  LET a == Row(1, 4, Null, 1, -1)
      b == Row(1, 5, 3, 2, 1)
      c == Row(1, 9, 5, 1, 2)
      d == Row(2, 4, 7, 2, -2)
      e == Row(1, 5, 4, 1, 0)
  IN {Call("rust", 0, {a, b, c}), Call("python", 0, {b, c}),
      Call("python", 0, {a, d}), Call("rust", 1, {e})}

Read(by, symbol, from, to) == [by |-> by, symbol |-> symbol, from |-> from, to |-> to]

MCReads ==
  {Read("pyarrow", NoFilter, NoFilter, NoFilter), Read("pyarrow", 1, 0, 0),
   Read("pyarrow", NoFilter, 1, NoFilter),
   Read("rust", 1, NoFilter, NoFilter), Read("rust", NoFilter, NoFilter, NoFilter),
   Read("polars", NoFilter, NoFilter, NoFilter), Read("duckdb", 1, NoFilter, NoFilter)}
==============================================================================
