----------------------------- MODULE BatchStream -----------------------------
(***************************************************************************)
(* What a batching stage promises to the client that iterates over it,     *)
(* whatever its language: cfb.ingest.batched (ingest.py) and               *)
(* Batcher::spawn (batch.rs) are both shown to implement this module.      *)
(*                                                                         *)
(* Trades are numbered in the order the source yields them, so the stream  *)
(* is correct when what was delivered is 1, 2, 3, ... without a hole.      *)
(***************************************************************************)
EXTENDS Naturals, Sequences

CONSTANT MaxSize    \* BatchConfig.max_size, at least 1

VARIABLES
  taken,      \* number of trades taken from the source
  delivered,  \* the trades handed to the client, flattened, in order
  status      \* how the stream stands for its client

vars == <<taken, delivered, status>>

Pending == taken - Len(delivered)

Init ==
  /\ taken = 0
  /\ delivered = <<>>
  /\ status = "open"

(* The stage reads one more trade.  It may go on doing so for a while      *)
(* after its client has left.                                              *)
Take ==
  /\ status \in {"open", "abandoned"}
  /\ taken' = taken + 1
  /\ UNCHANGED <<delivered, status>>

(* The client is handed the next batch: at least one trade, at most        *)
(* max_size, and exactly the trades that follow what it already has.       *)
Deliver ==
  /\ status = "open"
  /\ \E k \in 1..MaxSize :
       /\ k <= Pending
       /\ delivered' = delivered \o [i \in 1..k |-> Len(delivered) + i]
  /\ UNCHANGED <<taken, status>>

(* A normal end is only announced when nothing is left to deliver.         *)
Complete ==
  /\ status = "open"
  /\ Pending = 0
  /\ status' = "complete"
  /\ UNCHANGED <<taken, delivered>>

(* A source error may cost the batch under construction, never a full one. *)
Fail ==
  /\ status = "open"
  /\ Pending < MaxSize
  /\ status' = "failed"
  /\ UNCHANGED <<taken, delivered>>

(* The client stops listening.                                             *)
Abandon ==
  /\ status = "open"
  /\ status' = "abandoned"
  /\ UNCHANGED <<taken, delivered>>

Next == Take \/ Deliver \/ Complete \/ Fail \/ Abandon

Spec == Init /\ [][Next]_vars
==============================================================================
