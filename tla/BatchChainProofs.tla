-------------------------- MODULE BatchChainProofs ---------------------------
(***************************************************************************)
(* What appending, putting and getting do to the chain of trades, for any  *)
(* sequences and any batch size.                                           *)
(***************************************************************************)
EXTENDS BatchChain, SequenceTheorems, TLAPS

------------------------------------------------------------------------------
(* Sequences.                                                               *)

(* One more batch of at most m trades.                                      *)
LEMMA OneMore ==
  ASSUME NEW n \in Nat, NEW i \in Nat, i <= n + 1, NEW m \in Nat,
         NEW x \in Nat, NEW y \in Nat, NEW l \in Nat,
         x <= y + (n + 1 - i) * m, l <= m
  PROVE  x + l <= y + (n + 2 - i) * m
<1> DEFINE k == n + 1 - i
<1>1. k \in Nat /\ n + 2 - i = k + 1
  OBVIOUS
<1> HIDE DEF k
<1>2. (k + 1) * m = k * m + m /\ k * m \in Nat
  BY <1>1
<1>3. x <= y + k * m
  BY DEF k
<1>4. x + l <= y + (k + 1) * m
  BY <1>2, <1>3
<1> QED
  BY <1>1, <1>4

LEMMA MoreBatches ==
  ASSUME NEW a \in Nat, NEW b \in Nat, NEW m \in Nat, a <= b
  PROVE  a * m <= b * m /\ a * m \in Nat /\ b * m \in Nat
<1> DEFINE d == b - a
<1>1. d \in Nat /\ b = a + d
  OBVIOUS
<1> HIDE DEF d
<1>2. b * m = a * m + d * m
  BY <1>1
<1>3. d * m \in Nat /\ a * m \in Nat
  BY <1>1
<1> QED
  BY <1>2, <1>3

(* A sequence of sequences keeps its cut when a batch that starts where the *)
(* cut ends is appended: output_q.put(buf) and output_q.put([]).            *)
LEMMA AppendCut ==
  ASSUME NEW q \in Seq(Seq(Nat)), NEW b \in Seq(Nat), NEW p \in Nat,
         NEW f \in [1..Len(q) + 1 -> 0..p], Cuts(f, q),
         f[Len(q) + 1] + Len(b) <= p, Len(b) <= MaxSize,
         \A j \in 1..Len(b) : b[j] = f[Len(q) + 1] + j
  PROVE  \E g \in [1..Len(Append(q, b)) + 1 -> 0..p] :
           /\ Cuts(g, Append(q, b))
           /\ g[1] = f[1]
           /\ g[Len(Append(q, b)) + 1] = f[Len(q) + 1] + Len(b)
<1> DEFINE n == Len(q)
           r == Append(q, b)
           g == [i \in 1..n + 2 |-> IF i = n + 2 THEN f[n + 1] + Len(b) ELSE f[i]]
<1>1. /\ n \in Nat /\ Len(b) \in Nat
      /\ Len(r) = n + 1 /\ r[n + 1] = b /\ \A i \in 1..n : r[i] = q[i]
  OBVIOUS
<1>2. \A i \in 1..n : f[i + 1] = f[i] + Len(q[i]) /\ \A j \in 1..Len(q[i]) : q[i][j] = f[i] + j
  BY DEF Cuts
<1>3. /\ f \in [1..n + 1 -> 0..p] /\ f[n + 1] + Len(b) <= p /\ Len(b) <= MaxSize
      /\ \A i \in 1..n + 1 : f[n + 1] <= f[i] + (n + 1 - i) * MaxSize
      /\ \A j \in 1..Len(b) : b[j] = f[n + 1] + j
  BY DEF Cuts
<1> HIDE DEF n, r
<1>4. \A i \in 1..n + 1 : f[i] \in 0..p /\ g[i] = f[i]
  BY <1>1, <1>3
<1>5. g[n + 2] = f[n + 1] + Len(b) /\ g[n + 2] \in 0..p
  BY <1>1, <1>3, <1>4
<1>6. g \in [1..n + 2 -> 0..p]
  BY <1>1, <1>3, <1>4, <1>5
<1> HIDE DEF g
<1>7. ASSUME NEW i \in 1..n + 1
      PROVE  /\ g[i + 1] = g[i] + Len(r[i])
             /\ \A j \in 1..Len(r[i]) : r[i][j] = g[i] + j
  <2>1. CASE i = n + 1
    <3>1. i + 1 = n + 2 /\ r[i] = b /\ g[i] = f[n + 1]
      BY <2>1, <1>1, <1>4
    <3> QED
      BY <3>1, <1>3, <1>5
  <2>2. CASE i # n + 1
    <3>1. i \in 1..n /\ i \in 1..n + 1 /\ i + 1 \in 1..n + 1
      BY <2>2, <1>1
    <3>2. g[i + 1] = f[i + 1] /\ g[i] = f[i] /\ r[i] = q[i]
      BY <3>1, <1>1, <1>4
    <3> QED
      BY <3>1, <3>2, <1>2
  <2> QED
    BY <2>1, <2>2
<1>8. Cuts(g, r)
  <2>1. ASSUME NEW i \in 1..n + 2
        PROVE  g[n + 2] <= g[i] + (n + 2 - i) * MaxSize
    <3>1. CASE i = n + 2
      <4>1. n + 2 - i = 0 /\ 0 * MaxSize = 0
        BY <3>1, <1>1, MaxSizeAssumption
      <4> QED
        BY <3>1, <4>1, <1>5
    <3>2. CASE i # n + 2
      <4>1. i \in 1..n + 1 /\ n + 1 \in 1..n + 1 /\ i \in Nat /\ i <= n + 1
        BY <3>2, <1>1
      <4>2. /\ f[n + 1] \in Nat /\ f[i] \in Nat
            /\ f[n + 1] <= f[i] + (n + 1 - i) * MaxSize
        BY <4>1, <1>3, <1>4
      <4>3. f[n + 1] + Len(b) <= f[i] + (n + 2 - i) * MaxSize
        BY <4>1, <4>2, <1>1, <1>3, OneMore, MaxSizeAssumption
      <4> QED
        BY <4>1, <4>3, <1>4, <1>5
    <3> QED
      BY <3>1, <3>2
  <2>2. Len(r) + 1 = n + 2
    BY <1>1
  <2>3. \A i \in 1..Len(r) + 1 : g[Len(r) + 1] <= g[i] + (Len(r) + 1 - i) * MaxSize
    BY <1>1, <2>1, <2>2
  <2> QED
    BY <1>1, <1>7, <2>3 DEF Cuts
<1>9. g \in [1..Len(r) + 1 -> 0..p] /\ g[1] = f[1] /\ g[Len(r) + 1] = f[n + 1] + Len(b)
  <2>1. Len(r) + 1 = n + 2 /\ 1 \in 1..n + 1
    BY <1>1
  <2> QED
    BY <2>1, <1>4, <1>5, <1>6
<1> QED
  BY <1>8, <1>9 DEF n, r

(* Removing the first batch removes the first cut: output_q.get().          *)
LEMMA TailCut ==
  ASSUME NEW q \in Seq(Seq(Nat)), q # <<>>, NEW p \in Nat,
         NEW f \in [1..Len(q) + 1 -> 0..p], Cuts(f, q)
  PROVE  \E g \in [1..Len(Tail(q)) + 1 -> 0..p] :
           /\ Cuts(g, Tail(q))
           /\ g[1] = f[1] + Len(Head(q))
           /\ g[Len(Tail(q)) + 1] = f[Len(q) + 1]
<1> DEFINE n == Len(q)
           r == Tail(q)
           g == [i \in 1..n |-> f[i + 1]]
<1>1. n \in Nat /\ n >= 1 /\ Len(r) = n - 1 /\ \A i \in 1..n - 1 : r[i] = q[i + 1]
  OBVIOUS
<1>2. \A i \in 1..n : f[i + 1] = f[i] + Len(q[i]) /\ \A j \in 1..Len(q[i]) : q[i][j] = f[i] + j
  BY DEF Cuts
<1>3. /\ f \in [1..n + 1 -> 0..p] /\ Head(q) = q[1]
      /\ \A i \in 1..n + 1 : f[n + 1] <= f[i] + (n + 1 - i) * MaxSize
  BY DEF Cuts
<1> HIDE DEF n, r
<1>4. \A i \in 1..n : g[i] = f[i + 1] /\ g[i] \in 0..p
  BY <1>1, <1>3
<1>5. g \in [1..n -> 0..p]
  BY <1>1, <1>4
<1> HIDE DEF g
<1>6. ASSUME NEW i \in 1..n - 1
      PROVE  /\ g[i + 1] = g[i] + Len(r[i])
             /\ \A j \in 1..Len(r[i]) : r[i][j] = g[i] + j
  <2>1. i \in 1..n /\ i + 1 \in 1..n /\ r[i] = q[i + 1]
    BY <1>1
  <2>2. g[i] = f[i + 1] /\ g[i + 1] = f[(i + 1) + 1]
    BY <2>1, <1>4
  <2> QED
    BY <2>1, <2>2, <1>2
<1>7. Cuts(g, r)
  <2>1. ASSUME NEW i \in 1..n
        PROVE  g[n] <= g[i] + (n - i) * MaxSize
    <3>1. i + 1 \in 1..n + 1 /\ n \in 1..n /\ n + 1 - (i + 1) = n - i
      BY <1>1
    <3>2. f[n + 1] <= f[i + 1] + (n + 1 - (i + 1)) * MaxSize
      BY <3>1, <1>3
    <3>3. g[n] = f[n + 1] /\ g[i] = f[i + 1]
      BY <3>1, <1>4
    <3> QED
      BY <3>1, <3>2, <3>3
  <2>2. Len(r) + 1 = n
    BY <1>1
  <2>3. \A i \in 1..Len(r) + 1 : g[Len(r) + 1] <= g[i] + (Len(r) + 1 - i) * MaxSize
    BY <2>1, <2>2
  <2> QED
    BY <1>1, <1>6, <2>3 DEF Cuts
<1>8. g \in [1..Len(r) + 1 -> 0..p] /\ g[1] = f[1] + Len(Head(q)) /\ g[Len(r) + 1] = f[n + 1]
  <2>1. Len(r) + 1 = n /\ 1 \in 1..n /\ n \in 1..n
    BY <1>1
  <2> QED
    BY <2>1, <1>2, <1>3, <1>4, <1>5
<1> QED
  BY <1>7, <1>8 DEF n, r
------------------------------------------------------------------------------
(* What each move of trades does to the chain.                              *)

(* Nothing read, nothing queued.                                            *)
LEMMA ChainEmpty == Chain(<<>>, <<>>, <<>>, 0)
<1> DEFINE f == [i \in 1..1 |-> 0]
           e == <<>>
<1>1. f \in [1..1 -> 0..0] /\ f[1] = 0 /\ Len(e) = 0
  OBVIOUS
<1>2. 0 <= 0 + (0 + 1 - 1) * MaxSize
  BY MaxSizeAssumption
<1>3. Cuts(f, e)
  BY <1>1, <1>2 DEF Cuts
<1> HIDE DEF f, e
<1>4. Chain(e, e, e, 0)
  BY <1>1, <1>3 DEF Chain
<1> QED
  BY <1>4 DEF e

(* buf.append(trade)                                                        *)
LEMMA ChainReceive ==
  ASSUME NEW rcv \in Seq(Nat), NEW q \in Seq(Seq(Nat)), NEW b \in Seq(Nat),
         NEW n \in Nat, Chain(rcv, q, b, n)
  PROVE  Chain(rcv, q, Append(b, n + 1), n + 1)
<1>1. PICK f \in [1..Len(q) + 1 -> 0..n] :
         f[1] = Len(rcv) /\ Cuts(f, q) /\ f[Len(q) + 1] + Len(b) = n
  BY DEF Chain
<1>2. Len(Append(b, n + 1)) = Len(b) + 1 /\ Len(b) \in Nat /\ Len(q) \in Nat
  OBVIOUS
<1>3. f \in [1..Len(q) + 1 -> 0..n + 1]
  BY <1>1, <1>2
<1>4. f[Len(q) + 1] + Len(Append(b, n + 1)) = n + 1
  <2>1. f[Len(q) + 1] \in 0..n
    BY <1>1, <1>2
  <2> QED
    BY <1>1, <1>2, <2>1
<1>5. \A i \in 1..Len(b) + 1 : Append(b, n + 1)[i] + (Len(b) + 1) = n + 1 + i
  <2> DEFINE c == Append(b, n + 1)
  <2>1. \A i \in 1..Len(b) : b[i] + Len(b) = n + i /\ b[i] \in Nat /\ c[i] = b[i]
    BY DEF Chain
  <2>2. c[Len(b) + 1] = n + 1
    OBVIOUS
  <2> HIDE DEF c
  <2>3. ASSUME NEW i \in 1..Len(b) + 1
        PROVE  c[i] + (Len(b) + 1) = n + 1 + i
    <3>1. CASE i = Len(b) + 1
      BY <3>1, <1>2, <2>2
    <3>2. CASE i # Len(b) + 1
      <4>1. i \in 1..Len(b)
        BY <3>2, <1>2
      <4>2. b[i] + Len(b) = n + i /\ b[i] \in Nat /\ c[i] = b[i]
        BY <4>1, <2>1
      <4>3. i \in Nat
        BY <4>1
      <4> DEFINE x == b[i]
                 l == Len(b)
      <4>4. x + l = n + i /\ x \in Nat /\ l \in Nat
        BY <4>2, <1>2
      <4> HIDE DEF x, l
      <4>5. x + (l + 1) = n + 1 + i
        BY <4>4, <4>3
      <4> QED
        BY <4>2, <4>5 DEF x, l
    <3> QED
      BY <3>1, <3>2
  <2> QED
    BY <2>3 DEF c
<1>6. \A i \in 1..Len(rcv) : rcv[i] = i
  BY DEF Chain
<1> QED
  BY <1>1, <1>2, <1>3, <1>4, <1>5, <1>6 DEF Chain

(* output_q.put(buf) and buf = []                                           *)
LEMMA ChainPut ==
  ASSUME NEW rcv \in Seq(Nat), NEW q \in Seq(Seq(Nat)), NEW b \in Seq(Nat),
         NEW n \in Nat, Chain(rcv, q, b, n), Len(b) <= MaxSize
  PROVE  Chain(rcv, Append(q, b), <<>>, n)
<1>1. PICK f \in [1..Len(q) + 1 -> 0..n] :
         f[1] = Len(rcv) /\ Cuts(f, q) /\ f[Len(q) + 1] + Len(b) = n
  BY DEF Chain
<1>2. Len(b) \in Nat /\ f[Len(q) + 1] \in 0..n /\ f[Len(q) + 1] + Len(b) <= n
  <2>1. Len(b) \in Nat /\ Len(q) + 1 \in 1..Len(q) + 1
    OBVIOUS
  <2>2. f[Len(q) + 1] \in 0..n
    BY <1>1, <2>1
  <2> QED
    BY <1>1, <2>1, <2>2
<1>3. \A j \in 1..Len(b) : b[j] = f[Len(q) + 1] + j
  <2>1. \A j \in 1..Len(b) : b[j] + Len(b) = n + j /\ b[j] \in Nat
    BY DEF Chain
  <2> QED
    BY <1>1, <1>2, <2>1
<1>4. PICK g \in [1..Len(Append(q, b)) + 1 -> 0..n] :
         /\ Cuts(g, Append(q, b))
         /\ g[1] = f[1]
         /\ g[Len(Append(q, b)) + 1] = f[Len(q) + 1] + Len(b)
  BY <1>1, <1>2, <1>3, AppendCut
<1>5. g[Len(Append(q, b)) + 1] + Len(<<>>) = n
  BY <1>1, <1>4
<1>6. \A i \in 1..Len(rcv) : rcv[i] = i
  BY DEF Chain
<1>7. \A i \in 1..Len(<<>>) : <<>>[i] + Len(<<>>) = n + i
  OBVIOUS
<1> QED
  BY <1>1, <1>4, <1>5, <1>6, <1>7 DEF Chain

(* output_q.put([])                                                         *)
LEMMA ChainSentinel ==
  ASSUME NEW rcv \in Seq(Nat), NEW q \in Seq(Seq(Nat)), NEW b \in Seq(Nat),
         NEW n \in Nat, Chain(rcv, q, b, n)
  PROVE  Chain(rcv, Append(q, <<>>), b, n)
<1>1. PICK f \in [1..Len(q) + 1 -> 0..n] :
         f[1] = Len(rcv) /\ Cuts(f, q) /\ f[Len(q) + 1] + Len(b) = n
  BY DEF Chain
<1>2. Len(b) \in Nat /\ f[Len(q) + 1] \in 0..n
  <2>1. Len(b) \in Nat /\ Len(q) + 1 \in 1..Len(q) + 1
    OBVIOUS
  <2> QED
    BY <1>1, <2>1
<1>3. /\ <<>> \in Seq(Nat) /\ Len(<<>>) = 0 /\ Len(<<>>) <= MaxSize
      /\ f[Len(q) + 1] + Len(<<>>) <= n
      /\ \A j \in 1..Len(<<>>) : <<>>[j] = f[Len(q) + 1] + j
  BY <1>2, MaxSizeAssumption
<1>4. PICK g \in [1..Len(Append(q, <<>>)) + 1 -> 0..n] :
         /\ Cuts(g, Append(q, <<>>))
         /\ g[1] = f[1]
         /\ g[Len(Append(q, <<>>)) + 1] = f[Len(q) + 1] + Len(<<>>)
  <2> DEFINE e == <<>>
  <2>1. /\ e \in Seq(Nat) /\ f[Len(q) + 1] + Len(e) <= n /\ Len(e) <= MaxSize
        /\ \A j \in 1..Len(e) : e[j] = f[Len(q) + 1] + j
    BY <1>3
  <2> HIDE DEF e
  <2>2. \E g \in [1..Len(Append(q, e)) + 1 -> 0..n] :
          /\ Cuts(g, Append(q, e))
          /\ g[1] = f[1]
          /\ g[Len(Append(q, e)) + 1] = f[Len(q) + 1] + Len(e)
    BY <1>1, <2>1, AppendCut
  <2> QED
    BY <2>2 DEF e
<1>5. g[Len(Append(q, <<>>)) + 1] + Len(b) = n
  BY <1>1, <1>2, <1>3, <1>4
<1> QED
  BY <1>1, <1>4, <1>5 DEF Chain

(* batch = output_q.get(), handed to the client                             *)
LEMMA ChainGet ==
  ASSUME NEW rcv \in Seq(Nat), NEW q \in Seq(Seq(Nat)), NEW b \in Seq(Nat),
         NEW n \in Nat, Chain(rcv, q, b, n), q # <<>>
  PROVE  Chain(rcv \o Head(q), Tail(q), b, n)
<1>1. PICK f \in [1..Len(q) + 1 -> 0..n] :
         f[1] = Len(rcv) /\ Cuts(f, q) /\ f[Len(q) + 1] + Len(b) = n
  BY DEF Chain
<1>2. PICK g \in [1..Len(Tail(q)) + 1 -> 0..n] :
         /\ Cuts(g, Tail(q))
         /\ g[1] = f[1] + Len(Head(q))
         /\ g[Len(Tail(q)) + 1] = f[Len(q) + 1]
  BY <1>1, TailCut
<1>3. Head(q) \in Seq(Nat) /\ Head(q) = q[1] /\ 1 \in 1..Len(q)
  OBVIOUS
<1>4. \A j \in 1..Len(Head(q)) : Head(q)[j] = Len(rcv) + j
  BY <1>1, <1>3 DEF Cuts
<1>5. \A i \in 1..Len(rcv) : rcv[i] = i
  BY DEF Chain
<1>6. /\ Len(rcv \o Head(q)) = Len(rcv) + Len(Head(q))
      /\ \A i \in 1..Len(rcv \o Head(q)) : (rcv \o Head(q))[i] = i
  <2> DEFINE h == Head(q)
             c == rcv \o h
  <2>1. h \in Seq(Nat) /\ Len(rcv) \in Nat /\ Len(h) \in Nat
    BY <1>3
  <2>2. \A j \in 1..Len(h) : h[j] = Len(rcv) + j
    BY <1>4
  <2> HIDE DEF h
  <2>3. Len(c) = Len(rcv) + Len(h)
    BY <2>1
  <2>4. \A i \in 1..Len(rcv) + Len(h) : c[i] = IF i <= Len(rcv) THEN rcv[i] ELSE h[i - Len(rcv)]
    BY <2>1
  <2> HIDE DEF c
  <2>5. ASSUME NEW i \in 1..Len(rcv) + Len(h)
        PROVE  c[i] = i
    <3>1. CASE i <= Len(rcv)
      <4>1. i \in 1..Len(rcv) /\ c[i] = rcv[i]
        BY <3>1, <2>1, <2>4
      <4> QED
        BY <4>1, <1>5
    <3>2. CASE i > Len(rcv)
      <4>1. i - Len(rcv) \in 1..Len(h)
        BY <3>2, <2>1
      <4>2. c[i] = h[i - Len(rcv)]
        BY <3>2, <2>1, <2>4
      <4>3. h[i - Len(rcv)] = Len(rcv) + (i - Len(rcv))
        BY <4>1, <2>2
      <4> QED
        BY <4>2, <4>3, <2>1
    <3> QED
      BY <3>1, <3>2, <2>1
  <2> QED
    BY <2>3, <2>5 DEF c, h
<1> QED
  BY <1>1, <1>2, <1>6 DEF Chain

------------------------------------------------------------------------------
(* What the chain says of the batches on their way.                         *)

(* An empty queue: what is not received is buffered.                        *)
LEMMA ChainDrained ==
  ASSUME NEW rcv \in Seq(Nat), NEW q \in Seq(Seq(Nat)), NEW b \in Seq(Nat),
         NEW n \in Nat, Chain(rcv, q, b, n), q = <<>>
  PROVE  Len(rcv) + Len(b) = n
<1>1. PICK f \in [1..Len(q) + 1 -> 0..n] :
         f[1] = Len(rcv) /\ f[Len(q) + 1] + Len(b) = n
  BY DEF Chain
<1>2. Len(q) + 1 = 1
  OBVIOUS
<1> QED
  BY <1>1, <1>2

(* A queue of m batches at most, and one more in the buffer.                *)
LEMMA ChainBound ==
  ASSUME NEW rcv \in Seq(Nat), NEW q \in Seq(Seq(Nat)), NEW b \in Seq(Nat),
         NEW n \in Nat, NEW m \in Nat, Chain(rcv, q, b, n),
         Len(q) <= m, Len(b) <= MaxSize
  PROVE  n <= Len(rcv) + (m + 1) * MaxSize
<1> DEFINE l == Len(q)
<1>1. PICK f \in [1..l + 1 -> 0..n] :
         f[1] = Len(rcv) /\ Cuts(f, q) /\ f[l + 1] + Len(b) = n
  BY DEF Chain
<1>2. /\ l \in Nat /\ l <= m /\ 1 \in 1..l + 1 /\ l + 1 \in 1..l + 1
      /\ Len(b) \in Nat /\ Len(rcv) \in Nat
  OBVIOUS
<1>3. f[l + 1] <= f[1] + (l + 1 - 1) * MaxSize
  BY <1>2, <1>1 DEF Cuts
<1> HIDE DEF l
<1>4. l + 1 - 1 = l /\ f[l + 1] \in Nat
  BY <1>1, <1>2
<1>5. f[l + 1] <= Len(rcv) + l * MaxSize
  BY <1>1, <1>3, <1>4
<1>6. l * MaxSize <= m * MaxSize /\ l * MaxSize \in Nat /\ m * MaxSize \in Nat
  BY <1>2, MoreBatches, MaxSizeAssumption
<1>7. (m + 1) * MaxSize = m * MaxSize + MaxSize
  BY MaxSizeAssumption
<1> DEFINE x == f[l + 1]
           y == l * MaxSize
           z == m * MaxSize
<1>8. /\ x \in Nat /\ y \in Nat /\ z \in Nat /\ MaxSize \in Nat
      /\ x + Len(b) = n /\ x <= Len(rcv) + y /\ y <= z
      /\ (m + 1) * MaxSize = z + MaxSize
  BY <1>1, <1>4, <1>5, <1>6, <1>7, MaxSizeAssumption
<1> HIDE DEF x, y, z
<1>9. x + Len(b) <= Len(rcv) + (z + MaxSize)
  BY <1>2, <1>8
<1> QED
  BY <1>8, <1>9

(* The batch at the head follows what was received.                         *)
LEMMA ChainHead ==
  ASSUME NEW rcv \in Seq(Nat), NEW q \in Seq(Seq(Nat)), NEW b \in Seq(Nat),
         NEW n \in Nat, Chain(rcv, q, b, n), q # <<>>,
         Head(q) # Sentinel, Len(Head(q)) <= MaxSize
  PROVE  /\ Len(Head(q)) \in 1..MaxSize
         /\ Len(Head(q)) <= n - Len(rcv)
         /\ Head(q) = [i \in 1..Len(Head(q)) |-> Len(rcv) + i]
<1> DEFINE h == Head(q)
<1>1. /\ h \in Seq(Nat) /\ h # <<>> /\ h = q[1] /\ 1 \in 1..Len(q)
      /\ Len(h) <= MaxSize /\ Len(rcv) \in Nat
  BY DEF Sentinel
<1>2. PICK f \in [1..Len(q) + 1 -> 0..n] : f[1] = Len(rcv) /\ Cuts(f, q)
  BY DEF Chain
<1>3. /\ f[1 + 1] = Len(rcv) + Len(h) /\ f[1 + 1] <= n
      /\ \A j \in 1..Len(h) : h[j] = Len(rcv) + j
  <2>1. 1 + 1 \in 1..Len(q) + 1
    BY <1>1
  <2>2. /\ f[1 + 1] = f[1] + Len(q[1])
        /\ \A j \in 1..Len(q[1]) : q[1][j] = f[1] + j
    BY <1>1, <1>2 DEF Cuts
  <2>3. f[1 + 1] \in 0..n
    BY <1>2, <2>1
  <2> QED
    BY <1>1, <1>2, <2>2, <2>3
<1>4. Len(h) \in 1..MaxSize /\ Len(h) <= n - Len(rcv)
  BY <1>1, <1>3, MaxSizeAssumption
<1>5. h = [i \in 1..Len(h) |-> Len(rcv) + i]
  BY <1>1, <1>3
<1> QED
  BY <1>4, <1>5

------------------------------------------------------------------------------
(* What each move does to the end of the queue.                             *)

LEMMA ClosesPut ==
  ASSUME NEW q \in Seq(Seq(Nat)), NEW b \in Seq(Nat), Closes(q, FALSE),
         b # <<>>, Len(b) <= MaxSize
  PROVE  Append(q, b) \in Seq(Seq(Nat)) /\ Closes(Append(q, b), FALSE)
<1>1. Len(Append(q, b)) = Len(q) + 1 /\ Len(q) \in Nat
  OBVIOUS
<1>2. ASSUME NEW i \in 1..Len(q) + 1
      PROVE  Append(q, b)[i] # <<>> /\ Len(Append(q, b)[i]) <= MaxSize
  <2>1. CASE i = Len(q) + 1
    BY <2>1
  <2>2. CASE i # Len(q) + 1
    <3>1. i \in 1..Len(q) /\ Append(q, b)[i] = q[i]
      BY <2>2
    <3> QED
      BY <3>1 DEF Closes, Sentinel
  <2> QED
    BY <2>1, <2>2
<1> QED
  BY <1>1, <1>2 DEF Closes, Sentinel

LEMMA ClosesSentinel ==
  ASSUME NEW q \in Seq(Seq(Nat)), Closes(q, FALSE)
  PROVE  Append(q, Sentinel) \in Seq(Seq(Nat)) /\ Closes(Append(q, Sentinel), TRUE)
<1>1. /\ Len(Append(q, <<>>)) = Len(q) + 1 /\ Len(q) \in Nat
      /\ Append(q, <<>>) \in Seq(Seq(Nat))
  BY EmptySeq
<1>2. ASSUME NEW i \in 1..Len(q) + 1
      PROVE  /\ Len(Append(q, <<>>)[i]) <= MaxSize
             /\ Append(q, <<>>)[i] = <<>> => i = Len(q) + 1
  <2>1. CASE i = Len(q) + 1
    BY <2>1, MaxSizeAssumption
  <2>2. CASE i # Len(q) + 1
    <3>1. i \in 1..Len(q) /\ Append(q, <<>>)[i] = q[i]
      BY <2>2
    <3> QED
      BY <3>1 DEF Closes, Sentinel
  <2> QED
    BY <2>1, <2>2
<1> QED
  BY <1>1, <1>2 DEF Closes, Sentinel

LEMMA ClosesGet ==
  ASSUME NEW q \in Seq(Seq(Nat)), NEW closed \in BOOLEAN, Closes(q, closed), q # <<>>
  PROVE  /\ Tail(q) \in Seq(Seq(Nat)) /\ Closes(Tail(q), closed)
         /\ Len(Tail(q)) = Len(q) - 1
         /\ Head(q) \in Seq(Nat) /\ Len(Head(q)) <= MaxSize
         /\ Head(q) = Sentinel => Tail(q) = <<>> /\ closed
<1> DEFINE r == Tail(q)
<1>1. /\ r \in Seq(Seq(Nat)) /\ Len(r) = Len(q) - 1 /\ Len(r) \in Nat
      /\ Head(q) = q[1] /\ 1 \in 1..Len(q) /\ Head(q) \in Seq(Nat) /\ Len(q) \in Nat
  OBVIOUS
<1>2. \A i \in 1..Len(r) : i + 1 \in 1..Len(q) /\ r[i] = q[i + 1]
  BY <1>1
<1> HIDE DEF r
<1>3. Closes(r, closed)
  <2> SUFFICES ASSUME NEW i \in 1..Len(r)
               PROVE  /\ Len(r[i]) <= MaxSize
                      /\ r[i] = Sentinel => i = Len(r) /\ closed
    BY DEF Closes
  <2>1. i + 1 \in 1..Len(q) /\ r[i] = q[i + 1]
    BY <1>2
  <2>2. /\ Len(q[i + 1]) <= MaxSize
        /\ q[i + 1] = Sentinel => i + 1 = Len(q) /\ closed
    BY <2>1 DEF Closes
  <2>3. i + 1 = Len(q) => i = Len(r)
    BY <1>1
  <2> QED
    BY <2>1, <2>2, <2>3
<1>4. Len(Head(q)) <= MaxSize /\ (Head(q) = Sentinel => 1 = Len(q) /\ closed)
  BY <1>1 DEF Closes
<1>5. 1 = Len(q) => r = <<>>
  <2> DEFINE l == Len(q)
  <2>1. l \in Nat /\ Len(r) = l - 1
    BY <1>1
  <2> HIDE DEF l
  <2>2. 1 = l => Len(r) = 0
    BY <2>1
  <2>3. 1 = Len(q) => Len(r) = 0
    BY <2>2 DEF l
  <2> QED
    BY <1>1, <2>3, EmptySeq
<1> QED
  BY <1>1, <1>3, <1>4, <1>5 DEF r

LEMMA EndedPut ==
  ASSUME NEW S, NEW q \in Seq(S)
  PROVE  Ended(Append(q, Sentinel))
BY DEF Ended, Sentinel

LEMMA EndedGet ==
  ASSUME NEW q \in Seq(Seq(Nat)), Ended(q)
  PROVE  Head(q) = Sentinel \/ Ended(Tail(q))
<1> DEFINE r == Tail(q)
<1>1. Head(q) = q[1] /\ Len(q) \in Nat /\ Len(q) # 0 /\ q # <<>> /\ q[Len(q)] = Sentinel
  BY DEF Ended
<1>2. r \in Seq(Seq(Nat)) /\ Len(r) = Len(q) - 1
  BY <1>1
<1>3. \A i \in 1..Len(r) : r[i] = q[i + 1]
  BY <1>1
<1> HIDE DEF r
<1>4. CASE Len(q) = 1
  BY <1>1, <1>4
<1>5. CASE Len(q) # 1
  <2>1. Len(r) \in 1..Len(r) /\ Len(r) + 1 = Len(q)
    BY <1>1, <1>2, <1>5
  <2>2. r[Len(r)] = Sentinel
    BY <1>1, <1>3, <2>1
  <2>3. r # <<>>
    BY <2>1
  <2>4. Ended(r)
    BY <2>2, <2>3 DEF Ended
  <2> QED
    BY <2>4 DEF r
<1> QED
  BY <1>4, <1>5
==============================================================================
