----------------------------- MODULE BatchChain ------------------------------
(***************************************************************************)
(* The trades between a source and a client that receives them in batches, *)
(* cut at the batch boundaries: what both batching stages (Batched,        *)
(* Batcher) keep in order.  Trades are numbered as the source yields them. *)
(***************************************************************************)
EXTENDS Naturals, Sequences

CONSTANT MaxSize    \* BatchConfig.max_size

ASSUME MaxSizeAssumption == MaxSize \in Nat \ {0}

Sentinel == <<>>    \* the empty batch that ends a stream

(* f[i] trades precede the i-th batch of queue q, each batch is the run of  *)
(* trades that follows, and none is larger than max_size.                   *)
Cuts(f, q) ==
  /\ \A i \in 1..Len(q) :
       /\ f[i + 1] = f[i] + Len(q[i])
       /\ \A j \in 1..Len(q[i]) : q[i][j] = f[i] + j
  /\ \A i \in 1..Len(q) + 1 :
       f[Len(q) + 1] <= f[i] + (Len(q) + 1 - i) * MaxSize

(* Of n trades read, the client received the first, the queue holds those   *)
(* that follow and the buffer b the last ones.                              *)
Chain(rcv, q, b, n) ==
  /\ \A i \in 1..Len(rcv) : rcv[i] = i
  /\ \E f \in [1..Len(q) + 1 -> 0..n] :
       /\ f[1] = Len(rcv)
       /\ Cuts(f, q)
       /\ f[Len(q) + 1] + Len(b) = n
  /\ \A i \in 1..Len(b) : b[i] + Len(b) = n + i

(* Batches of at most max_size trades; the empty one comes last and only    *)
(* once the sender has closed the queue.                                    *)
Closes(q, closed) ==
  \A i \in 1..Len(q) :
    /\ Len(q[i]) <= MaxSize
    /\ q[i] = Sentinel => i = Len(q) /\ closed

(* The end of the stream is on its way to whoever reads the queue.          *)
Ended(q) == q # <<>> /\ q[Len(q)] = Sentinel
==============================================================================
