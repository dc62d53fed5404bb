------------------------------- MODULE MCServe -------------------------------
(***************************************************************************)
(* Instances of Serve for TLC: writes of both languages, of two parts, over*)
(* two hours of a symbol and one of another; two rows share an hour.       *)
(***************************************************************************)
EXTENDS Serve

Call(by, part, keys) ==
  [by |-> by, part |-> part, keys |-> {[symbol |-> k[1], ts |-> k[2]] : k \in keys}]

MCCalls == {Call("rust", 0, {<<1, 0>>, <<1, 2>>}), Call("rust", 1, {<<1, 0>>}),
            Call("python", 0, {<<1, 1>>, <<2, 0>>})}

OneCall == {Call("rust", 0, {<<1, 0>>})}

MCRequests == {[symbol |-> 1, ts |-> 0]}
==============================================================================
