--------------------------- MODULE StreamOpsProofs ----------------------------
(***************************************************************************)
(* Lemmas about the deque of StreamOps, for the proofs about the streaming *)
(* and the sliding implementations.                                        *)
(***************************************************************************)
EXTENDS StreamOps, SequenceTheorems, WellFoundedInduction, TLAPS

(* The loop that pops the front stops somewhere.                            *)
LEMMA KeptFromExists ==
  ASSUME NEW buf, NEW n \in Nat, n = Len(buf), NEW cutoff \in Int,
         \A i \in 1..n : buf[i].ts \in Int
  PROVE  LET k == KeptFrom(buf, cutoff)
         IN /\ k \in 1..n + 1
            /\ \A i \in 1..k - 1 : buf[i].ts < cutoff
            /\ k <= n => buf[k].ts >= cutoff
<1> DEFINE Stops == {k \in 1..n + 1 : k <= n => buf[k].ts >= cutoff}
<1>1. n + 1 \in Stops
  OBVIOUS
<1>2. Stops \subseteq Nat /\ Stops # {}
  BY <1>1
<1>3. PICK k \in Stops : \A i \in Stops : ~(<<i, k>> \in OpToRel(<, Nat))
  <2> HIDE DEF Stops
  <2> QED
    BY <1>2, WFMin, NatLessThanWellFounded, Zenon
<1>4. \A i \in Stops : ~(i < k)
  <2>1. k \in Nat /\ Stops \subseteq Nat
    BY <1>2
  <2> HIDE DEF Stops
  <2> QED
    BY <1>3, <2>1 DEF OpToRel
<1>5. ASSUME NEW i \in 1..k - 1
      PROVE  buf[i].ts < cutoff
  <2>1. i \in 1..n /\ i < k
    OBVIOUS
  <2>2. i \notin Stops
    BY <1>4, <2>1
  <2> QED
    BY <2>1, <2>2
<1>6. k \in 1..n + 1 /\ (k <= n => buf[k].ts >= cutoff)
  OBVIOUS
<1> DEFINE P(j) == /\ \A i \in 1..j - 1 : buf[i].ts < cutoff
                   /\ j <= n => buf[j].ts >= cutoff
<1>7. \E j \in 1..n + 1 : P(j)
  BY <1>5, <1>6
<1>8. KeptFrom(buf, cutoff) = CHOOSE j \in 1..n + 1 : P(j)
  BY DEF KeptFrom
<1> HIDE DEF P
<1>9. KeptFrom(buf, cutoff) \in 1..n + 1 /\ P(KeptFrom(buf, cutoff))
  BY <1>7, <1>8
<1> QED
  BY <1>9 DEF P

(* What pruning leaves: the deque from some position on, behind trades that *)
(* are all older than the cutoff, and first a trade that is not.            *)
LEMMA PruneLeaves ==
  ASSUME NEW S, \A t \in S : t.ts \in Int, NEW buf \in Seq(S), NEW cutoff \in Int
  PROVE  /\ Prune(buf, cutoff) \in Seq(S)
         /\ \E k \in 1..Len(buf) + 1 :
              /\ Len(Prune(buf, cutoff)) = Len(buf) + 1 - k
              /\ \A i \in 1..Len(Prune(buf, cutoff)) :
                   Prune(buf, cutoff)[i] = buf[k + i - 1]
              /\ \A i \in 1..k - 1 : buf[i].ts < cutoff
              /\ k <= Len(buf) => buf[k].ts >= cutoff
<1> DEFINE n == Len(buf)
           k == KeptFrom(buf, cutoff)
           r == Prune(buf, cutoff)
<1>1. n \in Nat /\ \A i \in 1..n : buf[i] \in S /\ buf[i].ts \in Int
  OBVIOUS
<1>2. /\ k \in 1..n + 1
      /\ \A i \in 1..k - 1 : buf[i].ts < cutoff
      /\ k <= n => buf[k].ts >= cutoff
  BY <1>1, KeptFromExists
<1>3. r = SubSeq(buf, k, n)
  BY DEF Prune
<1> HIDE DEF k, n, r
<1>4. \A i \in k..n : buf[i] \in S
  BY <1>1, <1>2
<1>5. /\ r \in Seq(S)
      /\ Len(r) = IF k <= n THEN n - k + 1 ELSE 0
      /\ \A i \in 1..n - k + 1 : r[i] = buf[k + i - 1]
  BY <1>1, <1>2, <1>3, <1>4, SubSeqProperties
<1>6. Len(r) = n + 1 - k /\ \A i \in 1..Len(r) : r[i] = buf[k + i - 1]
  BY <1>1, <1>2, <1>5
<1> QED
  BY <1>2, <1>5, <1>6 DEF n, r
==============================================================================
