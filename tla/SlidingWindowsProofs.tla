------------------------ MODULE SlidingWindowsProofs -------------------------
(***************************************************************************)
(* Theorems about SlidingWindows, for inputs of any length, in any order,  *)
(* and for any windows and threshold that StreamAssumption allows.         *)
(***************************************************************************)
EXTENDS SlidingWindows, StreamOpsProofs

T == [id : Ids, ts : Nat]

------------------------------------------------------------------------------
(* The end of a sequence, one element longer.                               *)
LEMMA EndAppend ==
  ASSUME NEW in \in Seq(T), NEW t \in T, NEW lo \in 1..Len(in) + 1
  PROVE  /\ Append(SubSeq(in, lo, Len(in)), t) \in Seq(T)
         /\ Append(SubSeq(in, lo, Len(in)), t) = SubSeq(Append(in, t), lo, Len(in) + 1)
         /\ Len(Append(SubSeq(in, lo, Len(in)), t)) = Len(in) + 2 - lo
         /\ \A i \in 1..Len(in) + 2 - lo :
              Append(SubSeq(in, lo, Len(in)), t)[i] = Append(in, t)[lo + i - 1]
<1> DEFINE n == Len(in)
           b == SubSeq(in, lo, n)
           in2 == Append(in, t)
           b2 == Append(b, t)
           c == SubSeq(in2, lo, n + 1)
<1>1. /\ n \in Nat
      /\ in2 \in Seq(T) /\ Len(in2) = n + 1
      /\ \A i \in 1..n : in2[i] = in[i] /\ in[i] \in T
      /\ in2[n + 1] = t
  OBVIOUS
<1>2. \A i \in lo..n : in[i] \in T
  BY <1>1
<1>3. \A i \in lo..n + 1 : in2[i] \in T
  BY <1>1
<1>4. /\ b \in Seq(T)
      /\ Len(b) = n + 1 - lo
      /\ \A i \in 1..n + 1 - lo : b[i] = in[lo + i - 1]
  <2>1. /\ b \in Seq(T)
        /\ Len(b) = IF lo <= n THEN n - lo + 1 ELSE 0
        /\ \A i \in 1..n - lo + 1 : b[i] = in[lo + i - 1]
    BY <1>1, <1>2, SubSeqProperties
  <2> QED
    BY <1>1, <2>1
<1>5. /\ c \in Seq(T)
      /\ Len(c) = n + 2 - lo
      /\ \A i \in 1..n + 2 - lo : c[i] = in2[lo + i - 1]
  <2>1. /\ c \in Seq(T)
        /\ Len(c) = IF lo <= n + 1 THEN n + 1 - lo + 1 ELSE 0
        /\ \A i \in 1..n + 1 - lo + 1 : c[i] = in2[lo + i - 1]
    BY <1>1, <1>3, SubSeqProperties
  <2> QED
    BY <1>1, <2>1
<1> HIDE DEF b, c, in2, n
<1>6. /\ b2 \in Seq(T)
      /\ Len(b2) = n + 2 - lo
      /\ \A i \in 1..n + 1 - lo : b2[i] = b[i]
      /\ b2[n + 2 - lo] = t
  <2>1. /\ b2 \in Seq(T)
        /\ Len(b2) = Len(b) + 1
        /\ \A i \in 1..Len(b) : b2[i] = b[i]
        /\ b2[Len(b) + 1] = t
    BY <1>4
  <2> QED
    BY <1>1, <1>4, <2>1
<1>7. ASSUME NEW i \in 1..n + 2 - lo
      PROVE  b2[i] = in2[lo + i - 1]
  <2>1. CASE i = n + 2 - lo
    BY <1>1, <1>6, <2>1
  <2>2. CASE i # n + 2 - lo
    <3>1. i \in 1..n + 1 - lo /\ lo + i - 1 \in 1..n
      BY <1>1, <2>2 DEF n
    <3> QED
      BY <1>1, <1>4, <1>6, <3>1
  <2> QED
    BY <2>1, <2>2
<1> HIDE DEF b2
<1>8. b2 = c
  BY <1>5, <1>6, <1>7, SeqEqual
<1> QED
  BY <1>6, <1>7, <1>8 DEF b2, b, c, in2, n

(* What the end of a sequence holds.                                        *)
LEMMA EndElements ==
  ASSUME NEW s \in Seq(T), NEW lo \in 1..Len(s) + 1
  PROVE  /\ Elements(SubSeq(s, lo, Len(s))) = {s[i] : i \in lo..Len(s)}
         /\ Len(SubSeq(s, lo, Len(s))) = Len(s) + 1 - lo
<1> DEFINE n == Len(s)
           c == SubSeq(s, lo, n)
<1>1. n \in Nat /\ \A i \in lo..n : s[i] \in T
  OBVIOUS
<1>2. /\ Len(c) = IF lo <= n THEN n - lo + 1 ELSE 0
      /\ \A i \in 1..n - lo + 1 : c[i] = s[lo + i - 1]
  BY <1>1, SubSeqProperties
<1> HIDE DEF c, n
<1>3. Len(c) = n + 1 - lo /\ 1..Len(c) = 1..n - lo + 1
  BY <1>1, <1>2 DEF n
<1>4. Elements(c) = {c[i] : i \in 1..Len(c)}
  BY DEF Elements
<1>5. ASSUME NEW x \in Elements(c)
      PROVE  x \in {s[i] : i \in lo..n}
  <2>1. PICK i \in 1..n - lo + 1 : x = c[i]
    BY <1>3, <1>4, <1>5
  <2>2. x = s[lo + i - 1]
    BY <1>2, <2>1
  <2>3. lo + i - 1 \in lo..n
    BY <1>1, <2>1
  <2> QED
    BY <2>2, <2>3
<1>6. ASSUME NEW x \in {s[i] : i \in lo..n}
      PROVE  x \in Elements(c)
  <2>1. PICK i \in lo..n : x = s[i]
    BY <1>6
  <2>2. i - lo + 1 \in 1..n - lo + 1 /\ lo + (i - lo + 1) - 1 = i
    BY <1>1, <2>1 DEF n
  <2>3. x = c[i - lo + 1]
    BY <1>2, <2>1, <2>2
  <2> QED
    BY <1>3, <1>4, <2>2, <2>3
<1>7. Elements(c) = {s[i] : i \in lo..n}
  BY <1>5, <1>6
<1> QED
  BY <1>3, <1>7 DEF c, n

(* Where a window starts after the turn of the last trade of in.            *)
Reached(lo, k, in, w) ==
  /\ k \in lo..Len(in)
  /\ \A i \in lo..k - 1 : in[i].ts < in[Len(in)].ts - w
  /\ in[k].ts >= in[Len(in)].ts - w

(* The pointer stops, and at one place only.                                *)
LEMMA SlideStops ==
  ASSUME NEW in \in Seq(T), NEW lo \in 1..Len(in), NEW w \in Nat,
         NEW k, Reached(lo, k, in, w), NEW sum
  PROVE  Slide([lo |-> lo, sum |-> sum], in, w) =
           [lo |-> k, sum |-> Shift(sum, Len(in), lo..k - 1)]
<1> DEFINE n == Len(in)
           P(j) == /\ \A i \in lo..j - 1 : in[i].ts < Cutoff(in[n], w)
                   /\ j <= n => in[j].ts >= Cutoff(in[n], w)
           c == CHOOSE j \in lo..n + 1 : P(j)
<1>1. n \in Nat /\ \A i \in 1..n : in[i].ts \in Nat
  <2>1. \A i \in 1..n : in[i] \in T
    OBVIOUS
  <2> QED
    BY <2>1 DEF T
<1>2. k \in lo..n /\ k \in lo..n + 1 /\ P(k)
  BY <1>1 DEF Reached, Cutoff
<1>3. ASSUME NEW j \in lo..n + 1, P(j)
      PROVE  j = k
  <2> DEFINE old(i) == in[i].ts < in[n].ts - w
  <2>1. /\ \A i \in lo..j - 1 : old(i)
        /\ \A i \in lo..k - 1 : old(i)
    BY <1>2, <1>3 DEF Cutoff
  <2>2. ~old(k) /\ (j <= n => ~old(j)) /\ ~old(n)
    BY <1>1, <1>2, <1>3 DEF Cutoff
  <2> HIDE DEF old, n
  <2>3. ~(k < j)
    BY <1>1, <1>2, <2>1, <2>2
  <2>4. ~(j < k)
    BY <1>1, <1>2, <2>1, <2>2
  <2> QED
    BY <1>1, <1>2, <2>3, <2>4
<1>4. c = k
  <2> HIDE DEF P
  <2> QED
    BY <1>2, <1>3
<1>5. Slide([lo |-> lo, sum |-> sum], in, w) = [lo |-> c, sum |-> Shift(sum, n, lo..c - 1)]
  BY DEF Slide
<1> QED
  BY <1>4, <1>5

(* The sums after one more trade, when the oldest slid out.                 *)
LEMMA ShiftOnce ==
  ASSUME NEW n \in Nat, n + 1 \in Ids, NEW lo \in 1..n + 1, NEW k \in lo..n + 1
  PROVE  Shift(Once(lo, n), n + 1, lo..k - 1) = Once(k, n + 1)
<1>1. ASSUME NEW i \in Ids
      PROVE  (IF i \in lo..n THEN 1 ELSE 0) + (IF i = n + 1 THEN 1 ELSE 0)
                - (IF i \in lo..k - 1 THEN 1 ELSE 0)
             = (IF i \in k..n + 1 THEN 1 ELSE 0)
  BY SlidingAssumption DEF Ids
<1>2. \A i \in Ids : Once(lo, n)[i] = IF i \in lo..n THEN 1 ELSE 0
  BY DEF Once
<1> QED
  BY <1>1, <1>2 DEF Shift, Once

(* One turn of a window: deque and pointer move to the same place.          *)
Moves(lo, k, in, t, w) ==
  /\ Reached(lo, k, Append(in, t), w)
  /\ PushAndEvict([buf |-> SubSeq(in, lo, Len(in)), sum |-> Once(lo, Len(in))], t, w)
       = [buf |-> SubSeq(Append(in, t), k, Len(in) + 1), sum |-> Once(k, Len(in) + 1)]
  /\ Slide([lo |-> lo, sum |-> Once(lo, Len(in))], Append(in, t), w)
       = [lo |-> k, sum |-> Once(k, Len(in) + 1)]

LEMMA TurnOfWindow ==
  ASSUME NEW in \in Seq(T), \A i \in 1..Len(in) : in[i].id = i,
         NEW t \in T, t.id = Len(in) + 1, NEW lo \in 1..Len(in) + 1, NEW w \in Nat
  PROVE  \E k \in lo..Len(in) + 1 : Moves(lo, k, in, t, w)
<1> DEFINE n == Len(in)
           in2 == Append(in, t)
           b2 == Append(SubSeq(in, lo, n), t)
           cut == t.ts - w
           r == Prune(b2, cut)
<1>1. /\ n \in Nat /\ in2 \in Seq(T) /\ Len(in2) = n + 1
      /\ \A i \in 1..n + 1 : in2[i] \in T /\ in2[i].id = i /\ in2[i].ts \in Nat
      /\ in2[n + 1] = t /\ t.ts \in Nat
      /\ n + 1 \in Ids /\ lo \in 1..n + 1
  <2>1. /\ n \in Nat /\ in2 \in Seq(T) /\ Len(in2) = n + 1
        /\ \A i \in 1..n : in2[i] = in[i] /\ in[i] \in T
        /\ in2[n + 1] = t
    OBVIOUS
  <2>2. \A x \in T : x.ts \in Nat /\ x.id \in Ids
    BY DEF T
  <2>3. \A i \in 1..n + 1 : i \in 1..n \/ i = n + 1
    BY <2>1
  <2> HIDE DEF n, in2
  <2> QED
    BY <2>1, <2>2, <2>3 DEF n
<1>2. /\ b2 \in Seq(T) /\ b2 = SubSeq(in2, lo, n + 1) /\ Len(b2) = n + 2 - lo
      /\ \A i \in 1..n + 2 - lo : b2[i] = in2[lo + i - 1]
  BY EndAppend
<1>3. cut \in Int /\ \A x \in T : x.ts \in Int
  BY <1>1 DEF T
<1>4. /\ r \in Seq(T)
      /\ \E j \in 1..Len(b2) + 1 :
           /\ Len(r) = Len(b2) + 1 - j
           /\ \A i \in 1..Len(r) : r[i] = b2[j + i - 1]
           /\ \A i \in 1..j - 1 : b2[i].ts < cut
           /\ j <= Len(b2) => b2[j].ts >= cut
  <2> HIDE DEF b2, cut
  <2> QED
    BY <1>2, <1>3, PruneLeaves
<1> HIDE DEF n, in2, b2, r
<1>5. PICK j \in 1..Len(b2) + 1 :
        /\ Len(r) = Len(b2) + 1 - j
        /\ \A i \in 1..Len(r) : r[i] = b2[j + i - 1]
        /\ \A i \in 1..j - 1 : b2[i].ts < cut
        /\ j <= Len(b2) => b2[j].ts >= cut
  BY <1>4
<1>6. j <= n + 2 - lo
  <2>1. SUFFICES ASSUME j = n + 3 - lo PROVE FALSE
    BY <1>1, <1>2, <1>5
  <2>2. n + 2 - lo \in 1..j - 1 /\ n + 2 - lo \in 1..n + 2 - lo
    BY <1>1, <2>1
  <2>3. b2[n + 2 - lo] = in2[n + 1]
    <3>1. lo + (n + 2 - lo) - 1 = n + 1
      BY <1>1
    <3> QED
      BY <1>2, <2>2, <3>1
  <2>4. t.ts < cut
    BY <1>1, <1>5, <2>2, <2>3
  <2> QED
    BY <1>1, <2>4
<1> DEFINE k == lo + j - 1
<1>7. k \in lo..n + 1
  BY <1>1, <1>2, <1>5, <1>6
<1>8. Reached(lo, k, in2, w)
  <2>1. ASSUME NEW i \in lo..k - 1
        PROVE  in2[i].ts < t.ts - w
    <3>1. i - lo + 1 \in 1..j - 1 /\ i - lo + 1 \in 1..n + 2 - lo
      BY <1>1, <1>6
    <3>2. b2[i - lo + 1] = in2[lo + (i - lo + 1) - 1] /\ lo + (i - lo + 1) - 1 = i
      BY <1>1, <1>2, <3>1
    <3> QED
      BY <1>5, <3>1, <3>2
  <2>2. in2[k].ts >= t.ts - w
    <3>1. b2[j] = in2[lo + j - 1]
      BY <1>1, <1>2, <1>5, <1>6
    <3>2. b2[j].ts >= cut
      BY <1>1, <1>2, <1>5, <1>6
    <3> QED
      BY <3>1, <3>2
  <2> HIDE DEF k
  <2> QED
    BY <1>1, <1>7, <2>1, <2>2 DEF Reached
<1> HIDE DEF k
<1>9. r = SubSeq(in2, k, n + 1)
  <2> DEFINE c == SubSeq(in2, k, n + 1)
  <2>1. \A i \in k..n + 1 : in2[i] \in T
    BY <1>1, <1>7
  <2>2. /\ c \in Seq(T)
        /\ Len(c) = IF k <= n + 1 THEN n + 1 - k + 1 ELSE 0
        /\ \A i \in 1..n + 1 - k + 1 : c[i] = in2[k + i - 1]
    <3>1. k \in Int /\ n + 1 \in Int
      BY <1>1, <1>7
    <3> HIDE DEF T
    <3> QED
      BY <1>1, <1>7, <2>1, <3>1, SubSeqProperties
  <2> HIDE DEF c
  <2>3. Len(r) = Len(c) /\ Len(r) = n + 2 - k
    BY <1>1, <1>2, <1>5, <1>6, <1>7, <2>2 DEF k
  <2>4. ASSUME NEW i \in 1..Len(r)
        PROVE  r[i] = c[i]
    <3>1. r[i] = b2[j + i - 1]
      BY <1>5
    <3>0. i \in 1..n + 2 - k /\ j \in Nat /\ j >= 1 /\ j <= n + 2 - lo /\ n \in Nat
      BY <1>1, <1>2, <1>5, <1>6, <2>3
    <3>2. j + i - 1 \in 1..n + 2 - lo /\ lo + (j + i - 1) - 1 = k + i - 1
      <4>1. /\ i \in Nat /\ i >= 1 /\ i <= n + 2 - k /\ lo \in Nat /\ lo >= 1
            /\ k = lo + j - 1
        BY <1>1, <1>7, <3>0 DEF k
      <4>2. j + i - 1 = k + i - lo /\ k + i - lo <= n + 2 - lo
        BY <3>0, <4>1
      <4> QED
        BY <3>0, <4>1, <4>2
    <3>3. b2[j + i - 1] = in2[k + i - 1]
      BY <1>2, <3>2
    <3>4. i \in 1..n + 1 - k + 1
      BY <1>1, <1>7, <2>3
    <3> QED
      BY <2>2, <3>1, <3>3, <3>4
  <2> QED
    BY <1>4, <2>2, <2>3, <2>4, SeqEqual DEF c
(* The ids of what is popped are their positions.                           *)
<1>10. {u.id : u \in Elements(b2) \ Elements(r)} = lo..k - 1
  <2>0. /\ in2 \in Seq(T) /\ Len(in2) = n + 1
        /\ lo \in 1..Len(in2) + 1 /\ k \in 1..Len(in2) + 1
    BY <1>1, <1>7
  <2>1. Elements(b2) = {in2[i] : i \in lo..n + 1}
    <3>1. Elements(SubSeq(in2, lo, Len(in2))) = {in2[i] : i \in lo..Len(in2)}
      BY <2>0, EndElements
    <3> QED
      BY <1>2, <2>0, <3>1
  <2>2. Elements(r) = {in2[i] : i \in k..n + 1}
    <3>1. Elements(SubSeq(in2, k, Len(in2))) = {in2[i] : i \in k..Len(in2)}
      BY <2>0, EndElements
    <3> QED
      BY <1>9, <2>0, <3>1
  <2>3. \A i \in lo..n + 1 : in2[i].id = i /\ i \in 1..n + 1
    BY <1>1
  <2>4. \A i \in k..n + 1 : i \in lo..n + 1
    BY <1>1, <1>7
  <2>5. \A i \in lo..n + 1 : i \in lo..k - 1 <=> i \notin k..n + 1
    BY <1>1, <1>7
  <2>6. \A i \in lo..k - 1 : i \in lo..n + 1
    BY <1>1, <1>7
  <2> QED
    BY <2>1, <2>2, <2>3, <2>4, <2>5, <2>6
<1>11. Shift(Once(lo, n), n + 1, lo..k - 1) = Once(k, n + 1)
  BY <1>1, <1>7, ShiftOnce
<1>12. PushAndEvict([buf |-> SubSeq(in, lo, n), sum |-> Once(lo, n)], t, w)
         = [buf |-> r, sum |-> Shift(Once(lo, n), n + 1, lo..k - 1)]
  BY <1>1, <1>10 DEF PushAndEvict, Cutoff, b2, r, n
<1>13. Slide([lo |-> lo, sum |-> Once(lo, n)], in2, w)
         = [lo |-> k, sum |-> Shift(Once(lo, n), n + 1, lo..k - 1)]
  <2>1. lo \in 1..Len(in2) /\ Len(in2) = n + 1 /\ in2 \in Seq(T)
    BY <1>1
  <2>2. Slide([lo |-> lo, sum |-> Once(lo, n)], in2, w)
          = [lo |-> k, sum |-> Shift(Once(lo, n), Len(in2), lo..k - 1)]
    BY <1>8, <2>1, SlideStops
  <2> QED
    BY <2>1, <2>2
<1> QED
  BY <1>1, <1>7, <1>8, <1>9, <1>11, <1>12, <1>13 DEF Moves, in2, n

------------------------------------------------------------------------------
(* The inductive invariant.                                                 *)

LEMMA WidthType == \A d \in Deques : Width(d[1]) \in Nat
<1>1. ASSUME NEW w \in Windows
      PROVE  Width(w) \in Nat
  BY <1>1, StreamAssumption DEF Windows, Width
<1> QED
  BY <1>1 DEF Deques

LEMMA InvInit == Init => Inv
<1> SUFFICES ASSUME Init PROVE Inv
  OBVIOUS
<1>1. input = <<>> /\ Len(input) = 0 /\ input \in Seq(T)
  BY DEF Init
<1>2. Zero \in [Ids -> Int] /\ Zero = Once(1, 0)
  BY DEF Zero, Once, Ids
<1>3. \A d \in Deques : deque[d] = [buf |-> <<>>, sum |-> Zero]
  BY DEF Init
<1>4. deque \in [Deques -> [buf : Seq(T), sum : [Ids -> Int]]]
  BY <1>1, <1>2 DEF Init
<1>5. slice \in [Slices -> [lo : Ids \cup {MaxEvents + 1}, sum : [Ids -> Int]]]
  <2>1. 1 \in Ids \cup {MaxEvents + 1}
    BY SlidingAssumption DEF Ids
  <2> QED
    BY <1>2, <2>1 DEF Init
<1>6. TypeOK
  BY <1>1, <1>4, <1>5 DEF TypeOK, T
<1>7. ASSUME NEW d \in Deques
      PROVE  /\ First(d) = 1
             /\ deque[d] = [buf |-> SubSeq(input, 1, 0), sum |-> Once(1, 0)]
             /\ SlidOut(1, Width(d[1]))
  <2>1. SubSeq(input, 1, 0) = <<>>
    BY SubSeqEmpty
  <2>2. First(d) = 1
    BY <1>1, <1>3 DEF First
  <2>3. SlidOut(1, Width(d[1]))
    BY <1>1 DEF SlidOut
  <2> QED
    BY <1>2, <1>3, <2>1, <2>2, <2>3
<1>8. \A s \in Slices : s \in Deques /\ slice[s] = [lo |-> 1, sum |-> Zero]
  BY DEF Slices, Init
<1>9. \A s \in Slices : slice[s] = [lo |-> First(s), sum |-> deque[s].sum]
  BY <1>3, <1>7, <1>8
<1> QED
  BY <1>1, <1>6, <1>7, <1>9, SlidingAssumption DEF Inv

(* One turn, for one deque and the pointer that goes with it.               *)
LEMMA DequeTurn ==
  ASSUME Inv, NEW t \in T, t.id = Len(input) + 1, Turn(t), NEW d \in Deques
  PROVE  \E k \in 1..Len(input) + 1 :
           /\ deque'[d] = [buf |-> SubSeq(input', k, Len(input) + 1),
                           sum |-> Once(k, Len(input) + 1)]
           /\ First(d)' = k
           /\ SlidOut(k, Width(d[1]))'
           /\ d \in Slices => slice'[d] = [lo |-> k, sum |-> Once(k, Len(input) + 1)]
<1>1. PICK lo : lo = First(d)
  OBVIOUS
<1>2. PICK w : w = Width(d[1])
  OBVIOUS
<1>3. PICK n : n = Len(input)
  OBVIOUS
<1>4. /\ input \in Seq(T) /\ \A i \in 1..Len(input) : input[i].id = i
      /\ lo \in 1..Len(input) + 1 /\ w \in Nat /\ n \in Nat
      /\ deque[d] = [buf |-> SubSeq(input, lo, Len(input)), sum |-> Once(lo, Len(input))]
      /\ d \in Slices => slice[d] = [lo |-> lo, sum |-> Once(lo, Len(input))]
      /\ SlidOut(lo, w)
  <2>1. input \in Seq(T) /\ \A i \in 1..Len(input) : input[i].id = i
    BY DEF Inv, TypeOK, T
  <2>2. n \in Nat
    BY <1>3, <2>1
  <2>3. w \in Nat
    BY <1>2, WidthType
  <2>4. /\ First(d) \in 1..Len(input) + 1
        /\ deque[d] = [buf |-> SubSeq(input, First(d), Len(input)),
                       sum |-> Once(First(d), Len(input))]
        /\ SlidOut(First(d), Width(d[1]))
    BY DEF Inv
  <2>5. d \in Slices => slice[d] = [lo |-> First(d), sum |-> deque[d].sum]
    BY DEF Inv
  <2>6. deque[d].sum = Once(lo, Len(input))
    BY <1>1, <2>4
  <2> QED
    BY <1>1, <1>2, <2>1, <2>2, <2>3, <2>4, <2>5, <2>6
<1>5. PICK k \in lo..n + 1 : Moves(lo, k, input, t, w)
  BY <1>3, <1>4, TurnOfWindow
<1>6. /\ input' = Append(input, t) /\ Len(input') = n + 1 /\ input' \in Seq(T)
      /\ \A i \in 1..n : input'[i] = input[i]
      /\ input'[n + 1] = t
  BY <1>3, <1>4 DEF Turn
<1>7. deque'[d] = [buf |-> SubSeq(input', k, n + 1), sum |-> Once(k, n + 1)]
  <2>1. deque'[d] = PushAndEvict(deque[d], t, w)
    BY <1>2 DEF Turn
  <2> QED
    BY <1>3, <1>4, <1>5, <1>6, <2>1 DEF Moves
<1>8. Len(SubSeq(input', k, n + 1)) = n + 2 - k
  <2>1. PICK in2 : in2 = input'
    OBVIOUS
  <2>2. in2 \in Seq(T) /\ Len(in2) = n + 1 /\ k \in 1..Len(in2) + 1
    BY <1>3, <1>4, <1>5, <1>6, <2>1
  <2>3. Len(SubSeq(in2, k, Len(in2))) = Len(in2) + 1 - k
    BY <2>2, EndElements
  <2> QED
    BY <1>4, <1>5, <2>1, <2>2, <2>3
<1>9. First(d)' = k
  BY <1>3, <1>4, <1>5, <1>6, <1>7, <1>8 DEF First
<1>10. \A i \in lo..k - 1 : input'[i].ts < t.ts - w
  BY <1>5, <1>6 DEF Moves, Reached
<1>11. input'[k].ts >= t.ts - w
  BY <1>5, <1>6 DEF Moves, Reached
<1>12. SlidOut(k, w)'
  <2>1. ASSUME NEW i \in 1..k - 1
        PROVE  \E j \in 1..n + 1 : input'[i].ts < input'[j].ts - w
    <3>1. CASE i < lo
      <4>1. i \in 1..lo - 1 /\ i \in 1..n
        BY <1>3, <1>4, <1>5, <3>1
      <4>2. PICK j \in 1..n : input[i].ts < input[j].ts - w
        BY <1>3, <1>4, <4>1 DEF SlidOut
      <4>3. j \in 1..n + 1
        BY <1>4
      <4>4. input'[i] = input[i] /\ input'[j] = input[j]
        BY <1>6, <4>1
      <4>5. input'[i].ts < input'[j].ts - w
        BY <4>2, <4>4
      <4> QED
        BY <4>3, <4>5
    <3>2. CASE ~(i < lo)
      <4>1. i \in lo..k - 1 /\ n + 1 \in 1..n + 1
        BY <1>3, <1>4, <1>5, <3>2
      <4> QED
        BY <1>6, <1>10, <4>1
    <3> QED
      BY <3>1, <3>2
  <2> QED
    BY <1>6, <1>11, <2>1 DEF SlidOut, Last
<1>13. ASSUME d \in Slices
       PROVE  slice'[d] = [lo |-> k, sum |-> Once(k, n + 1)]
  <2>1. slice'[d] = Slide(slice[d], input', w)
    BY <1>2, <1>13 DEF Turn
  <2> QED
    BY <1>3, <1>4, <1>5, <1>6, <1>13, <2>1 DEF Moves
<1> QED
  <2>1. k \in 1..Len(input) + 1
    BY <1>3, <1>4, <1>5
  <2>2. SlidOut(k, Width(d[1]))'
    BY <1>2, <1>12 DEF SlidOut, Last
  <2> QED
    BY <1>3, <1>7, <1>9, <1>13, <2>1, <2>2

(* One turn, for all of them.                                               *)
LEMMA InvTurn ==
  ASSUME Inv, Len(input) < MaxEvents, NEW t \in T, t.id = Len(input) + 1, Turn(t)
  PROVE  Inv'
<1>1. PICK n : n = Len(input)
  OBVIOUS
<1>2. /\ input \in Seq(T) /\ \A i \in 1..Len(input) : input[i].id = i
      /\ n \in Nat /\ n < MaxEvents
  BY <1>1 DEF Inv, TypeOK, T
<1>3. /\ input' = Append(input, t) /\ Len(input') = n + 1 /\ input' \in Seq(T)
      /\ \A i \in 1..n : input'[i] = input[i]
      /\ input'[n + 1] = t
  BY <1>1, <1>2 DEF Turn
<1>4. \A i \in 1..n + 1 : input'[i] \in T /\ input'[i].id = i
  <2>1. \A i \in 1..n : input[i] \in T
    BY <1>1, <1>2
  <2>2. \A i \in 1..n + 1 : i \in 1..n \/ i = n + 1
    BY <1>2
  <2> QED
    BY <1>1, <1>2, <1>3, <2>1, <2>2
<1>5. ASSUME NEW d \in Deques
      PROVE  /\ First(d)' \in 1..n + 1
             /\ deque'[d] = [buf |-> SubSeq(input', First(d)', n + 1),
                             sum |-> Once(First(d)', n + 1)]
             /\ SlidOut(First(d), Width(d[1]))'
             /\ d \in Slices => slice'[d] = [lo |-> First(d)', sum |-> Once(First(d)', n + 1)]
  <2>1. PICK k \in 1..n + 1 :
           /\ deque'[d] = [buf |-> SubSeq(input', k, n + 1), sum |-> Once(k, n + 1)]
           /\ First(d)' = k
           /\ SlidOut(k, Width(d[1]))'
           /\ d \in Slices => slice'[d] = [lo |-> k, sum |-> Once(k, n + 1)]
    BY <1>1, DequeTurn
  <2>2. SlidOut(First(d), Width(d[1]))'
    BY <2>1 DEF SlidOut
  <2> QED
    BY <2>1, <2>2
<1>6. ASSUME NEW k \in 1..n + 1
      PROVE  /\ SubSeq(input', k, n + 1) \in Seq(T)
             /\ Once(k, n + 1) \in [Ids -> Int]
             /\ k \in Ids
  <2>1. PICK in2 : in2 = input'
    OBVIOUS
  <2>2. \A i \in k..n + 1 : in2[i] \in T
    BY <1>2, <1>4, <2>1
  <2>3. SubSeq(in2, k, n + 1) \in Seq(T)
    <3>1. n \in Nat /\ k \in Int /\ n + 1 \in Int
      BY <1>2
    <3> HIDE DEF T
    <3> QED
      BY <2>2, <3>1, SubSeqProperties
  <2>4. Once(k, n + 1) \in [Ids -> Int]
    BY DEF Once
  <2>5. k \in Ids
    BY <1>2, SlidingAssumption DEF Ids
  <2> QED
    BY <2>1, <2>3, <2>4, <2>5
<1>7. TypeOK'
  <2>1. deque' \in [Deques -> [buf : Seq(T), sum : [Ids -> Int]]]
    <3>1. ASSUME NEW d \in Deques
          PROVE  deque'[d] \in [buf : Seq(T), sum : [Ids -> Int]]
      <4>1. PICK k \in 1..n + 1 :
              deque'[d] = [buf |-> SubSeq(input', k, n + 1), sum |-> Once(k, n + 1)]
        BY <1>5
      <4>2. SubSeq(input', k, n + 1) \in Seq(T) /\ Once(k, n + 1) \in [Ids -> Int]
        BY <1>6
      <4> QED
        BY <4>1, <4>2
    <3>2. deque' = [d \in Deques |-> deque'[d]]
      BY DEF Turn
    <3> QED
      BY <3>1, <3>2
  <2>2. slice' \in [Slices -> [lo : Ids \cup {MaxEvents + 1}, sum : [Ids -> Int]]]
    <3>1. ASSUME NEW s \in Slices
          PROVE  slice'[s] \in [lo : Ids \cup {MaxEvents + 1}, sum : [Ids -> Int]]
      <4>1. s \in Deques
        BY DEF Slices
      <4>2. PICK k \in 1..n + 1 : slice'[s] = [lo |-> k, sum |-> Once(k, n + 1)]
        BY <1>5, <4>1
      <4>3. k \in Ids /\ Once(k, n + 1) \in [Ids -> Int]
        BY <1>6
      <4> QED
        BY <4>2, <4>3
    <3>2. slice' = [s \in Slices |-> slice'[s]]
      BY DEF Turn
    <3> QED
      BY <3>1, <3>2
  <2> QED
    BY <1>3, <2>1, <2>2 DEF TypeOK, T
<1>8. Len(input') <= MaxEvents /\ \A i \in 1..Len(input') : input'[i].id = i
  BY <1>2, <1>3, <1>4, SlidingAssumption
<1>9. \A d \in Deques :
        /\ First(d)' \in 1..Len(input') + 1
        /\ deque'[d] = [buf |-> SubSeq(input', First(d)', Len(input')),
                        sum |-> Once(First(d)', Len(input'))]
        /\ SlidOut(First(d), Width(d[1]))'
  <2>1. \A k \in 1..n + 1 : k \in 1..Len(input') + 1
    BY <1>2, <1>3
  <2> QED
    BY <1>3, <1>5, <2>1
<1>10. \A s \in Slices : slice'[s] = [lo |-> First(s)', sum |-> deque'[s].sum]
  <2> SUFFICES ASSUME NEW s \in Slices
               PROVE  slice'[s] = [lo |-> First(s)', sum |-> deque'[s].sum]
    OBVIOUS
  <2>1. s \in Deques
    BY DEF Slices
  <2>2. slice'[s] = [lo |-> First(s)', sum |-> Once(First(s)', n + 1)]
    BY <1>5, <2>1
  <2>3. deque'[s].sum = Once(First(s)', n + 1)
    <3>1. PICK b, c : /\ deque'[s] = [buf |-> b, sum |-> c]
                      /\ c = Once(First(s)', n + 1)
      BY <1>5, <2>1
    <3> QED
      BY <3>1
  <2> QED
    BY <2>2, <2>3
<1> QED
  BY <1>7, <1>8, <1>9, <1>10 DEF Inv

(* The trade of a turn.                                                     *)
LEMMA TurnType ==
  ASSUME Inv, Len(input) < MaxEvents,
         NEW t \in [id : {Len(input) + 1}, ts : 0..MaxTs]
  PROVE  t \in T /\ t.id = Len(input) + 1
<1>1. Len(input) \in Nat
  BY DEF Inv, TypeOK
<1>2. Len(input) + 1 \in Ids
  BY <1>1, SlidingAssumption DEF Ids
<1>3. t.id = Len(input) + 1 /\ t.ts \in Nat /\ t = [id |-> t.id, ts |-> t.ts]
  OBVIOUS
<1> QED
  BY <1>2, <1>3 DEF T

LEMMA InvNext == Inv /\ [Next]_vars => Inv'
<1> SUFFICES ASSUME Inv, [Next]_vars PROVE Inv'
  OBVIOUS
<1>1. CASE \E t \in [id : {Len(input) + 1}, ts : 0..MaxTs] :
             Len(input) < MaxEvents /\ Turn(t)
  <2>1. PICK t \in [id : {Len(input) + 1}, ts : 0..MaxTs] :
             Len(input) < MaxEvents /\ Turn(t)
    BY <1>1
  <2>2. t \in T /\ t.id = Len(input) + 1
    BY <2>1, TurnType
  <2> QED
    BY <2>1, <2>2, InvTurn
<1>2. CASE UNCHANGED vars
  BY <1>2 DEF vars, Inv, TypeOK, First, SlidOut, Last
<1> QED
  BY <1>1, <1>2 DEF Next, Terminated

------------------------------------------------------------------------------
(* Deques and pointers hold the end of the input and count it once, and     *)
(* what they dropped was too old when it was dropped (arrow_impl.rs:41-74,  *)
(* features.py:255-296).                                                    *)
THEOREM Invariance == Spec => []Inv
  BY InvInit, InvNext, PTL DEF Spec

(* Rust and Python hold the same trades and the same sums, on every input   *)
(* in any order (arrow_impl.rs:51-73, features.py:260-296).                 *)
THEOREM ArrowIsNumbaCorrect == Spec => []ArrowIsNumba
<1>1. Inv => ArrowIsNumba
  <2> SUFFICES ASSUME Inv, NEW s \in Slices
               PROVE  /\ deque[s].buf = SubSeq(input, slice[s].lo, Len(input))
                      /\ deque[s].sum = slice[s].sum
                      /\ slice[s].sum = Once(slice[s].lo, Len(input))
    BY DEF ArrowIsNumba
  <2>1. s \in Deques
    BY DEF Slices
  <2>2. deque[s] = [buf |-> SubSeq(input, First(s), Len(input)),
                    sum |-> Once(First(s), Len(input))]
    BY <2>1 DEF Inv
  <2>3. slice[s] = [lo |-> First(s), sum |-> deque[s].sum]
    BY DEF Inv
  <2>4. slice[s].lo = First(s) /\ slice[s].sum = deque[s].sum
    BY <2>3
  <2>5. /\ deque[s].buf = SubSeq(input, First(s), Len(input))
        /\ deque[s].sum = Once(First(s), Len(input))
    <3>1. PICK b : b = SubSeq(input, First(s), Len(input))
      OBVIOUS
    <3>2. deque[s] = [buf |-> b, sum |-> Once(First(s), Len(input))]
      BY <2>2, <3>1
    <3>3. deque[s].buf = b /\ deque[s].sum = Once(First(s), Len(input))
      BY <3>2
    <3> QED
      BY <3>1, <3>3
  <2> QED
    BY <2>4, <2>5
<1> QED
  BY <1>1, Invariance, PTL

(* A window lacks a trade it reaches only if the trade was more than the    *)
(* window older than one seen, and on an input that compute_stream          *)
(* tolerates holds none older than its length and the threshold             *)
(* (arrow_impl.rs:58-73).                                                   *)
THEOREM DisorderBoundedCorrect == Spec => []DisorderBounded
<1>1. ASSUME Inv, NEW d \in Deques
      PROVE  /\ \A t \in Elements(input) \ Elements(deque[d].buf) :
                  \E u \in Elements(input) : t.ts < u.ts - Width(d[1])
             /\ NearlyInOrder => \A t \in Elements(deque[d].buf) :
                                   t.ts >= Last.ts - Width(d[1]) - LateThreshold
  <2> DEFINE n == Len(input)
             lo == First(d)
             w == Width(d[1])
  <2>1. /\ input \in Seq(T) /\ n \in Nat /\ lo \in 1..n + 1
        /\ \A i \in 1..n : input[i] \in T /\ input[i].ts \in Nat
    <3>1. input \in Seq(T)
      BY <1>1 DEF Inv, TypeOK, T
    <3>2. \A i \in 1..n : input[i] \in T
      BY <3>1
    <3>3. \A x \in T : x.ts \in Nat
      BY DEF T
    <3>4. lo \in 1..n + 1
      BY <1>1 DEF Inv
    <3> HIDE DEF lo
    <3> QED
      BY <3>1, <3>2, <3>3, <3>4
  <2>2. w \in Nat /\ LateThreshold \in Nat
    BY WidthType, StreamAssumption
  <2>3. deque[d].buf = SubSeq(input, lo, n) /\ SlidOut(lo, w)
    <3>1. deque[d] = [buf |-> SubSeq(input, lo, n), sum |-> Once(lo, n)]
      BY <1>1 DEF Inv
    <3>2. SlidOut(lo, w)
      BY <1>1 DEF Inv
    <3> HIDE DEF n, lo, w
    <3>3. PICK b : b = SubSeq(input, lo, n)
      OBVIOUS
    <3>4. deque[d] = [buf |-> b, sum |-> Once(lo, n)]
      BY <3>1, <3>3
    <3>5. deque[d].buf = b
      BY <3>4
    <3> QED
      BY <3>2, <3>3, <3>5
  <2> HIDE DEF n, lo, w
  <2>4. Elements(deque[d].buf) = {input[i] : i \in lo..n}
    <3>1. Elements(SubSeq(input, lo, n)) = {input[i] : i \in lo..n}
      BY <2>1, EndElements DEF n
    <3> QED
      BY <2>3, <3>1
  <2>5. Elements(input) = {input[i] : i \in 1..n}
    BY DEF Elements, n
  <2>6. ASSUME NEW t \in Elements(input) \ Elements(deque[d].buf)
        PROVE  \E u \in Elements(input) : t.ts < u.ts - w
    <3>1. PICK i \in 1..n : t = input[i]
      BY <2>5, <2>6
    <3>2. i \notin lo..n
      BY <2>4, <2>6, <3>1
    <3>3. i \in 1..lo - 1
      BY <2>1, <3>2
    <3>4. PICK k \in 1..n : input[i].ts < input[k].ts - w
      BY <2>3, <3>3 DEF SlidOut, n
    <3> QED
      BY <2>5, <3>1, <3>4
  <2>7. ASSUME NearlyInOrder, NEW t \in Elements(deque[d].buf)
        PROVE  t.ts >= Last.ts - w - LateThreshold
    <3>1. PICK i \in lo..n : t = input[i]
      BY <2>4, <2>7
    <3>2. i \in 1..n /\ lo \in 1..n /\ n \in 1..n /\ lo <= n
      BY <2>1, <3>1
    <3>3. input[lo].ts >= Last.ts - w
      BY <2>3, <3>2 DEF SlidOut, n
    <3>4. Last.ts \in Nat /\ input[lo].ts \in Nat /\ input[i].ts \in Nat
      BY <2>1, <3>2 DEF Last, n
    <3>5. CASE i = lo
      BY <2>2, <3>1, <3>3, <3>4, <3>5
    <3>6. CASE i # lo
      <4>1. lo < i
        BY <3>1, <3>2, <3>6
      <4>2. input[i].ts >= input[lo].ts - LateThreshold
        BY <2>7, <3>2, <4>1 DEF NearlyInOrder, n
      <4> QED
        BY <2>2, <3>1, <3>3, <3>4, <4>2
    <3> QED
      BY <3>5, <3>6
  <2> QED
    BY <2>6, <2>7 DEF w
<1>2. Inv => DisorderBounded
  BY <1>1 DEF DisorderBounded
<1> QED
  BY <1>2, Invariance, PTL
------------------------------------------------------------------------------
(* The stream on an input in order: what a window of length w that ends at  *)
(* position i reaches, and the row of that position.                        *)
ReachIn(in, i, w) == {in[j] : j \in {j \in 1..i : in[j].ts >= in[i].ts - w}}

RowIn(in, i) ==
  [trade |-> in[i],
   w1m   |-> ReachIn(in, i, Window1m),
   w5m   |-> ReachIn(in, i, Window5m),
   w15m  |-> ReachIn(in, i, Window15m)]

(* A row stays what it is when the input grows.                             *)
LEMMA RowStays ==
  ASSUME NEW in, NEW in2, NEW n \in Nat, \A j \in 1..n : in2[j] = in[j], NEW i \in 1..n
  PROVE  RowIn(in2, i) = RowIn(in, i)
<1>1. i \in 1..n /\ \A j \in 1..i : in2[j] = in[j]
  <2>1. \A j \in 1..i : j \in 1..n
    OBVIOUS
  <2> QED
    BY <2>1
<1>2. ASSUME NEW w
      PROVE  ReachIn(in2, i, w) = ReachIn(in, i, w)
  <2>1. {j \in 1..i : in2[j].ts >= in2[i].ts - w} = {j \in 1..i : in[j].ts >= in[i].ts - w}
    BY <1>1
  <2> QED
    BY <1>1, <2>1 DEF ReachIn
<1> QED
  BY <1>1, <1>2 DEF RowIn

(* The row of a trade is complete if the deque lacks only what no window    *)
(* reaches.                                                                 *)
LEMMA RowInOrder ==
  ASSUME NEW in \in Seq(T), NEW t \in T, NEW k \in 1..Len(in) + 1,
         \A i \in 1..k - 1 : in[i].ts < t.ts - Window15m
  PROVE  NewRow(Append(SubSeq(in, k, Len(in)), t), t) = RowIn(Append(in, t), Len(in) + 1)
<1> DEFINE n == Len(in)
           in2 == Append(in, t)
           b == Append(SubSeq(in, k, n), t)
<1>1. /\ n \in Nat /\ in2 \in Seq(T) /\ Len(in2) = n + 1 /\ k \in 1..n + 1
      /\ \A i \in 1..n : in2[i] = in[i]
      /\ in2[n + 1] = t
      /\ \A i \in 1..n + 1 : in2[i] \in T
  OBVIOUS
<1>2. t.ts \in Nat /\ \A i \in 1..n + 1 : in2[i].ts \in Nat
  BY <1>1 DEF T
<1>3. \A i \in 1..k - 1 : in2[i].ts < t.ts - Window15m
  BY <1>1
<1>4. b = SubSeq(in2, k, n + 1)
  BY EndAppend
<1> HIDE DEF in2, b, n
<1>5. Elements(b) = {in2[i] : i \in k..n + 1}
  <2>1. k \in 1..Len(in2) + 1
    BY <1>1
  <2> QED
    BY <1>1, <1>4, <2>1, EndElements
<1>6. ASSUME NEW w \in Nat, w <= Window15m
      PROVE  Window(b, t.ts, w) = ReachIn(in2, n + 1, w)
  <2>1. ASSUME NEW i \in 1..n + 1, in2[i].ts >= t.ts - w
        PROVE  i \in k..n + 1
    <3>1. ~(i \in 1..k - 1)
      BY <1>2, <1>3, <1>6, <2>1, StreamAssumption
    <3> QED
      BY <1>1, <2>1, <3>1
  <2>2. \A i \in k..n + 1 : i \in 1..n + 1
    BY <1>1
  <2>3. {u \in {in2[i] : i \in k..n + 1} : u.ts >= t.ts - w}
          = {in2[j] : j \in {j \in 1..n + 1 : in2[j].ts >= t.ts - w}}
    BY <2>1, <2>2
  <2> QED
    BY <1>1, <1>5, <2>3 DEF Window, ReachIn
<1>7. /\ Window1m \in Nat /\ Window5m \in Nat /\ Window15m \in Nat
      /\ Window1m <= Window15m /\ Window5m <= Window15m
  BY StreamAssumption
<1>8. NewRow(b, t) = RowIn(in2, n + 1)
  BY <1>1, <1>6, <1>7 DEF NewRow, RowIn
<1> QED
  BY <1>8 DEF in2, b, n

(* The invariant of the stream, as long as the input is in order: it drops  *)
(* no trade, and its deque is the end of the input.                         *)
StreamInOrder ==
  InOrder =>
    /\ watermark = IF Len(input) = 0 THEN 0 ELSE Last.ts
    /\ \E k \in 1..Len(input) + 1 :
         /\ buf = SubSeq(input, k, Len(input))
         /\ \A i \in 1..k - 1 : input[i].ts < Last.ts - Window15m
    /\ Len(input) > 0 => RowIn(input, Len(input)) \in rows
    /\ \A r \in rows : \E i \in 1..Len(input) : r = RowIn(input, i)

LEMMA StreamInit == Init => StreamInOrder
<1> SUFFICES ASSUME Init PROVE StreamInOrder
  OBVIOUS
<1>1. input = <<>> /\ Len(input) = 0 /\ watermark = 0 /\ buf = <<>> /\ rows = {}
  BY DEF Init, Stream!Init
<1>2. 1 \in 1..Len(input) + 1 /\ buf = SubSeq(input, 1, Len(input))
  BY <1>1
<1> QED
  BY <1>1, <1>2 DEF StreamInOrder

(* The shared operators mean the same in both modules.                      *)
LEMMA SameOperators ==
  ASSUME NEW b, NEW t, NEW c, NEW w, NEW u
  PROVE  /\ IsLate(w, t) <=> Stream!IsLate(w, t)
         /\ MaxOf(w, u) = Stream!MaxOf(w, u)
         /\ NewRow(b, t) = Stream!NewRow(b, t)
         /\ Prune(b, c) = Stream!Prune(b, c)
<1>1. IsLate(w, t) <=> Stream!IsLate(w, t)
  BY DEF IsLate, Stream!IsLate
<1>2. MaxOf(w, u) = Stream!MaxOf(w, u)
  BY DEF MaxOf, Stream!MaxOf
<1>3. \A x, y : Window(b, x, y) = Stream!Window(b, x, y)
  BY DEF Window, Stream!Window, Elements, Stream!Elements
<1>4. NewRow(b, t) = Stream!NewRow(b, t)
  BY <1>3 DEF NewRow, Stream!NewRow
<1>5. KeptFrom(b, c) = Stream!KeptFrom(b, c)
  BY Zenon DEF KeptFrom, Stream!KeptFrom
<1>6. Prune(b, c) = Stream!Prune(b, c)
  BY <1>5 DEF Prune, Stream!Prune
<1> QED
  BY <1>1, <1>2, <1>4, <1>6

LEMMA StreamTurn ==
  ASSUME Inv, StreamInOrder, NEW t \in T, t.id = Len(input) + 1, Turn(t)
  PROVE  StreamInOrder'
<1> SUFFICES ASSUME InOrder'
             PROVE  /\ watermark' = IF Len(input') = 0 THEN 0 ELSE Last'.ts
                    /\ \E k \in 1..Len(input') + 1 :
                         /\ buf' = SubSeq(input', k, Len(input'))
                         /\ \A i \in 1..k - 1 : input'[i].ts < Last'.ts - Window15m
                    /\ Len(input') > 0 => RowIn(input', Len(input')) \in rows'
                    /\ \A r \in rows' : \E i \in 1..Len(input') : r = RowIn(input', i)
  BY DEF StreamInOrder, RowIn, ReachIn
<1>1. PICK in : in = input
  OBVIOUS
<1>2. PICK n : n = Len(input)
  OBVIOUS
<1>3. PICK in2 : in2 = Append(in, t)
  OBVIOUS
<1>4. /\ in \in Seq(T) /\ n \in Nat /\ n = Len(in)
      /\ \A i \in 1..n : in[i].id = i
      /\ in2 \in Seq(T) /\ Len(in2) = n + 1
      /\ \A i \in 1..n : in2[i] = in[i]
      /\ in2[n + 1] = t
  <2>1. in \in Seq(T) /\ \A i \in 1..Len(in) : in[i].id = i
    BY <1>1 DEF Inv, TypeOK, T
  <2> QED
    BY <1>1, <1>2, <1>3, <2>1
<1>5. input' = in2 /\ Len(input') = n + 1 /\ Last' = t
  <2>1. input' = in2
    BY <1>1, <1>3 DEF Turn
  <2> QED
    BY <1>4, <2>1 DEF Last
<1>6. t.ts \in Nat /\ \A i \in 1..n : in[i].ts \in Nat
  <2>1. \A i \in 1..n : in[i] \in T
    BY <1>4
  <2> QED
    BY <2>1 DEF T
<1>7. \A i, j \in 1..n + 1 : i < j => in2[i].ts <= in2[j].ts
  BY <1>5 DEF InOrder
<1>8. InOrder
  <2>1. \A i, j \in 1..n : i < j => in[i].ts <= in[j].ts
    BY <1>4, <1>7
  <2> QED
    BY <1>1, <1>2, <2>1 DEF InOrder
<1>9. watermark \in Nat /\ watermark <= t.ts
  <2>1. CASE n = 0
    BY <1>2, <1>6, <1>8, <2>1 DEF StreamInOrder
  <2>2. CASE n # 0
    <3>1. watermark = in[n].ts
      BY <1>1, <1>2, <1>8, <2>2 DEF StreamInOrder, Last
    <3>2. n \in 1..n /\ n \in 1..n + 1 /\ n + 1 \in 1..n + 1 /\ n < n + 1
      BY <1>4, <2>2
    <3>3. in2[n].ts <= in2[n + 1].ts
      BY <1>7, <3>2
    <3> QED
      BY <1>4, <1>6, <3>1, <3>2, <3>3
  <2> QED
    BY <2>1, <2>2
<1>10. PICK k \in 1..n + 1 : /\ buf = SubSeq(in, k, n)
                             /\ \A i \in 1..k - 1 : in[i].ts < Last.ts - Window15m
  BY <1>1, <1>2, <1>8 DEF StreamInOrder
<1>11. \A i \in 1..k - 1 : in[i].ts < t.ts - Window15m
  <2> SUFFICES ASSUME NEW i \in 1..k - 1
               PROVE  in[i].ts < t.ts - Window15m
    OBVIOUS
  <2>1. n # 0 /\ i \in 1..n /\ n \in 1..n
    BY <1>4, <1>10
  <2>2. watermark = Last.ts
    BY <1>2, <1>8, <2>1 DEF StreamInOrder
  <2>3. in[i].ts < watermark - Window15m
    BY <1>10, <2>2
  <2> QED
    BY <1>6, <1>9, <2>1, <2>3, StreamAssumption
<1>12. /\ watermark' = t.ts
       /\ rows' = rows \cup {NewRow(Append(buf, t), t)}
       /\ buf' = Prune(Append(buf, t), t.ts - Window15m)
  <2>1. ~IsLate(watermark, t) /\ MaxOf(watermark, t.ts) = t.ts
    BY <1>6, <1>9, StreamAssumption DEF IsLate, MaxOf
  <2>2. Stream!Turn(t)
    BY DEF Turn
  <2> QED
    BY <2>1, <2>2, SameOperators
      DEF Stream!Turn, Stream!Skip, Stream!Emit, Stream!TooLate
<1>13. NewRow(Append(buf, t), t) = RowIn(in2, n + 1)
  BY <1>3, <1>4, <1>10, <1>11, RowInOrder
<1>14. \A i \in 1..n : RowIn(in2, i) = RowIn(in, i)
  BY <1>4, RowStays
<1>15. PICK m \in k..n + 1 : Moves(k, m, in, t, Window15m)
  <2>1. /\ t.id = Len(in) + 1 /\ k \in 1..Len(in) + 1 /\ Window15m \in Nat
        /\ \A i \in 1..Len(in) : in[i].id = i
    BY <1>1, <1>2, <1>4, StreamAssumption
  <2>2. \E m \in k..Len(in) + 1 : Moves(k, m, in, t, Window15m)
    BY <1>4, <2>1, TurnOfWindow
  <2> QED
    BY <1>4, <2>2
<1>16. /\ buf' = SubSeq(in2, m, n + 1)
       /\ \A i \in k..m - 1 : in2[i].ts < t.ts - Window15m
  <2>1. \A i \in k..m - 1 : in2[i].ts < t.ts - Window15m
    BY <1>3, <1>4, <1>15 DEF Moves, Reached
  <2>2. PICK b0 : b0 = SubSeq(in, k, n)
    OBVIOUS
  <2>3. PICK c0 : c0 = Once(k, n)
    OBVIOUS
  <2>4. PushAndEvict([buf |-> b0, sum |-> c0], t, Window15m)
          = [buf |-> SubSeq(in2, m, n + 1), sum |-> Once(m, n + 1)]
    BY <1>3, <1>4, <1>15, <2>2, <2>3 DEF Moves
  <2>5. PushAndEvict([buf |-> b0, sum |-> c0], t, Window15m).buf
          = Prune(Append(b0, t), t.ts - Window15m)
    BY DEF PushAndEvict, Cutoff
  <2>6. SubSeq(in2, m, n + 1) = Prune(Append(b0, t), t.ts - Window15m)
    BY <2>4, <2>5
  <2> QED
    BY <1>10, <1>12, <2>1, <2>2, <2>6
<1>17. /\ m \in 1..n + 2
       /\ \A i \in 1..m - 1 : in2[i].ts < t.ts - Window15m
  <2>1. m \in 1..n + 2
    BY <1>4, <1>10, <1>15
  <2>2. ASSUME NEW i \in 1..m - 1
        PROVE  in2[i].ts < t.ts - Window15m
    <3>1. CASE i < k
      BY <1>4, <1>10, <1>11, <3>1
    <3>2. CASE ~(i < k)
      BY <1>4, <1>10, <1>16, <3>2
    <3> QED
      BY <3>1, <3>2
  <2> QED
    BY <2>1, <2>2
<1>18. \A r \in rows' : \E i \in 1..n + 1 : r = RowIn(in2, i)
  <2> SUFFICES ASSUME NEW r \in rows'
               PROVE  \E i \in 1..n + 1 : r = RowIn(in2, i)
    OBVIOUS
  <2>1. CASE r \in rows
    <3>1. PICK i \in 1..n : r = RowIn(in, i)
      BY <1>1, <1>2, <1>8, <2>1 DEF StreamInOrder
    <3>2. i \in 1..n + 1
      BY <1>4
    <3> QED
      BY <1>14, <3>1, <3>2
  <2>2. CASE r = RowIn(in2, n + 1)
    <3>1. n + 1 \in 1..n + 1
      BY <1>4
    <3> QED
      BY <2>2, <3>1
  <2> QED
    BY <1>12, <1>13, <2>1, <2>2
<1>19. watermark' = IF Len(input') = 0 THEN 0 ELSE Last'.ts
  BY <1>4, <1>5, <1>12
<1>20. \E j \in 1..Len(input') + 1 :
         /\ buf' = SubSeq(input', j, Len(input'))
         /\ \A i \in 1..j - 1 : input'[i].ts < Last'.ts - Window15m
  <2>1. m \in 1..Len(input') + 1
    BY <1>4, <1>5, <1>17
  <2> QED
    BY <1>5, <1>16, <1>17, <2>1
<1>21. RowIn(input', Len(input')) \in rows'
  BY <1>5, <1>12, <1>13
<1>22. \A r \in rows' : \E i \in 1..Len(input') : r = RowIn(input', i)
  BY <1>5, <1>18
<1> QED
  BY <1>19, <1>20, <1>21, <1>22

LEMMA StreamNext == Inv /\ StreamInOrder /\ [Next]_vars => StreamInOrder'
<1> SUFFICES ASSUME Inv, StreamInOrder, [Next]_vars PROVE StreamInOrder'
  OBVIOUS
<1>1. CASE \E t \in [id : {Len(input) + 1}, ts : 0..MaxTs] :
             Len(input) < MaxEvents /\ Turn(t)
  <2>1. PICK t \in [id : {Len(input) + 1}, ts : 0..MaxTs] :
             Len(input) < MaxEvents /\ Turn(t)
    BY <1>1
  <2>2. t \in T /\ t.id = Len(input) + 1
    BY <2>1, TurnType
  <2> QED
    BY <2>1, <2>2, StreamTurn
<1>2. CASE UNCHANGED vars
  <2>1. input' = input /\ watermark' = watermark /\ buf' = buf /\ rows' = rows
    BY <1>2 DEF vars
  <2>2. InOrder' <=> InOrder
    BY <2>1 DEF InOrder
  <2>3. Last' = Last
    BY <2>1 DEF Last
  <2>4. \A i : RowIn(input, i)' = RowIn(input, i)
    BY <2>1 DEF RowIn, ReachIn
  <2> QED
    BY <2>1, <2>2, <2>3, <2>4 DEF StreamInOrder
<1> QED
  BY <1>1, <1>2 DEF Next, Terminated

THEOREM StreamInvariance == Spec => []StreamInOrder
  BY InvInit, InvNext, StreamInit, StreamNext, PTL DEF Spec

------------------------------------------------------------------------------
LEMMA InputType ==
  ASSUME Inv
  PROVE  /\ input \in Seq(T) /\ Len(input) \in Nat /\ Len(input) <= MaxEvents
         /\ \A i \in 1..Len(input) : /\ input[i] \in T /\ input[i].id = i
                                     /\ input[i].ts \in Nat
<1>1. /\ input \in Seq(T) /\ Len(input) <= MaxEvents
      /\ \A i \in 1..Len(input) : input[i].id = i
  BY DEF Inv, TypeOK, T
<1>2. Len(input) \in Nat /\ \A i \in 1..Len(input) : input[i] \in T
  BY <1>1
<1>3. \A x \in T : x.ts \in Nat
  BY DEF T
<1> QED
  BY <1>1, <1>2, <1>3

(* On an input in order the positions in reach are a run that ends at the   *)
(* last one, and a deque holds that run.                                    *)
LEMMA DequeInOrder ==
  ASSUME Inv, InOrder, Len(input) > 0, NEW d \in Deques
  PROVE  \E lo \in 1..Len(input) :
           /\ deque[d] = [buf |-> SubSeq(input, lo, Len(input)), sum |-> Once(lo, Len(input))]
           /\ PandasWindow(Len(input), Width(d[1])) = lo..Len(input)
<1>1. PICK lo : lo = First(d)
  OBVIOUS
<1>2. PICK w : w = Width(d[1])
  OBVIOUS
<1>3. PICK n : n = Len(input)
  OBVIOUS
<1>4. /\ lo \in 1..n + 1 /\ SlidOut(lo, w)
      /\ deque[d] = [buf |-> SubSeq(input, lo, n), sum |-> Once(lo, n)]
  BY <1>1, <1>2, <1>3 DEF Inv
<1>5. n \in Nat /\ n \in 1..n /\ w \in Nat /\ \A i \in 1..n : input[i].ts \in Nat
  BY <1>2, <1>3, InputType, WidthType
<1>6. \A i, j \in 1..n : i < j => input[i].ts <= input[j].ts
  BY <1>3 DEF InOrder
<1>7. \A i \in 1..n : input[i].ts <= input[n].ts
  BY <1>5, <1>6
<1>8. ASSUME NEW i \in 1..n, i \in 1..lo - 1
      PROVE  input[i].ts < input[n].ts - w
  <2>1. PICK k \in 1..n : input[i].ts < input[k].ts - w
    BY <1>3, <1>4, <1>8 DEF SlidOut
  <2>2. input[k].ts <= input[n].ts
    BY <1>7
  <2> QED
    BY <1>5, <2>1, <2>2
<1>9. lo \in 1..n
  <2>1. CASE lo = n + 1
    <3>1. n \in 1..lo - 1
      BY <1>5, <2>1
    <3>2. input[n].ts < input[n].ts - w
      BY <1>5, <1>8, <3>1
    <3> QED
      BY <1>5, <3>2
  <2> QED
    BY <1>4, <1>5, <2>1
<1>10. ASSUME NEW i \in lo..n
       PROVE  i \in 1..n /\ input[i].ts >= input[n].ts - w
  <2>1. i \in 1..n
    BY <1>9
  <2>2. input[lo].ts >= input[n].ts - w
    BY <1>3, <1>4, <1>5, <1>9 DEF SlidOut, Last
  <2>3. input[lo].ts <= input[i].ts
    <3>1. CASE i = lo
      BY <1>5, <1>9, <3>1
    <3>2. CASE i # lo
      BY <1>6, <1>9, <2>1, <3>2
    <3> QED
      BY <3>1, <3>2
  <2> QED
    BY <1>5, <1>9, <2>1, <2>2, <2>3
<1>11. ASSUME NEW i \in 1..n, input[i].ts >= input[n].ts - w
       PROVE  i \in lo..n
  <2>1. ~(i \in 1..lo - 1)
    BY <1>5, <1>8, <1>11
  <2> QED
    BY <1>9, <2>1
<1>12. PandasWindow(n, w) = lo..n
  <2>1. PandasWindow(n, w) = {i \in 1..n : input[i].ts >= input[n].ts - w}
    BY DEF PandasWindow
  <2> QED
    BY <1>10, <1>11, <2>1
<1> QED
  BY <1>2, <1>3, <1>4, <1>9, <1>12

(* The returns into the trades of a run.                                    *)
ReturnsInto(in, lo, n) == {<<in[i - 1], in[i]>> : i \in lo..n}

(* The neighbours in a window that holds a run of the input.                *)
LEMMA NeighboursOfRun ==
  ASSUME NEW in, NEW n \in Nat, \A i \in 1..n : in[i].id = i, NEW lo \in 1..n,
         NEW win, win = {in[j] : j \in lo..n}
  PROVE  Neighbours(win) = ReturnsInto(in, lo + 1, n)
<1>0. \A i \in lo..n : in[i].id = i /\ i \in Int
  OBVIOUS
<1>1. ASSUME NEW e \in Neighbours(win)
      PROVE  e \in {<<in[i - 1], in[i]>> : i \in lo + 1..n}
  <2>1. /\ e \in win \X win
        /\ e[1].id < e[2].id
        /\ ~\E q \in win : e[1].id < q.id /\ q.id < e[2].id
    BY DEF Neighbours
  <2>2. PICK a \in lo..n, b \in lo..n : e = <<in[a], in[b]>>
    <3>1. e[1] \in win /\ e[2] \in win /\ e = <<e[1], e[2]>>
      BY <2>1
    <3> QED
      BY <3>1
  <2>3. a < b /\ in[a].id = a /\ in[b].id = b
    BY <1>0, <2>1, <2>2
  <2>4. a = b - 1
    <3>1. CASE a + 1 < b
      <4>1. a + 1 \in lo..n /\ in[a + 1].id = a + 1
        BY <2>2, <3>1
      <4>2. in[a + 1] \in win
        BY <4>1
      <4> QED
        BY <2>1, <2>2, <2>3, <3>1, <4>1, <4>2
    <3> QED
      BY <2>2, <2>3, <3>1
  <2>5. b \in lo + 1..n
    BY <2>2, <2>3
  <2> QED
    BY <2>2, <2>4, <2>5
<1>2. ASSUME NEW i \in lo + 1..n
      PROVE  <<in[i - 1], in[i]>> \in Neighbours(win)
  <2>1. i - 1 \in lo..n /\ i \in lo..n /\ in[i - 1].id = i - 1 /\ in[i].id = i
    OBVIOUS
  <2>2. in[i - 1] \in win /\ in[i] \in win
    BY <2>1
  <2>3. ASSUME NEW q \in win, i - 1 < q.id, q.id < i
        PROVE  FALSE
    <3>1. PICK j \in lo..n : q = in[j]
      OBVIOUS
    <3>2. q.id = j
      BY <1>0, <3>1
    <3> QED
      BY <2>3, <3>2
  <2>4. PICK a, b : a = in[i - 1] /\ b = in[i]
    OBVIOUS
  <2>5. /\ <<a, b>> \in win \X win
        /\ <<a, b>>[1].id < <<a, b>>[2].id
        /\ ~\E q \in win : <<a, b>>[1].id < q.id /\ q.id < <<a, b>>[2].id
    BY <2>1, <2>2, <2>3, <2>4
  <2> QED
    BY <2>4, <2>5 DEF Neighbours
<1> QED
  BY <1>1, <1>2 DEF ReturnsInto

(* The first trade of such a window.                                        *)
LEMMA FirstOfRun ==
  ASSUME NEW in, NEW n \in Nat, \A i \in 1..n : in[i].id = i, NEW lo \in 1..n,
         NEW win, win = {in[j] : j \in lo..n}
  PROVE  (CHOOSE t \in win : \A u \in win : t.id <= u.id) = in[lo]
<1>1. \A i \in lo..n : in[i].id = i
  OBVIOUS
<1>2. lo \in lo..n /\ in[lo] \in win
  OBVIOUS
<1>3. \A u \in win : in[lo].id <= u.id
  BY <1>1, <1>2
<1>4. ASSUME NEW t \in win, \A u \in win : t.id <= u.id
      PROVE  t = in[lo]
  <2>1. PICK j \in lo..n : t = in[j]
    OBVIOUS
  <2>2. j <= lo
    BY <1>1, <1>2, <1>4, <2>1
  <2>3. j = lo
    BY <2>1, <2>2
  <2> QED
    BY <2>1, <2>3
<1> QED
  BY <1>2, <1>3, <1>4

(* The returns counted over a run: those of its neighbours, and the return  *)
(* into its first trade.                                                    *)
LEMMA ReturnsOfRun ==
  ASSUME Inv, NEW lo \in 1..Len(input), NEW d, d.sum = Once(lo, Len(input)),
         NEW win, win = {input[j] : j \in lo..Len(input)}
  PROVE  Returns(d) = Neighbours(win) \cup
                        (IF lo = 1 THEN {} ELSE {<<input[lo - 1], input[lo]>>})
<1>1. PICK n : n = Len(input)
  OBVIOUS
<1>2. n \in Nat /\ n <= MaxEvents /\ lo \in 1..n /\ \A i \in 1..n : input[i].id = i
  BY <1>1, InputType
<1>3. Counted(d.sum) = lo..n
  <2>1. \A i \in lo..n : i \in Ids
    BY <1>2, SlidingAssumption DEF Ids
  <2>2. \A i \in Ids : Once(lo, n)[i] = IF i \in lo..n THEN 1 ELSE 0
    BY DEF Once
  <2> QED
    BY <1>1, <2>1, <2>2 DEF Counted
<1>4. Returns(d) = {<<input[i - 1], input[i]>> : i \in (lo..n) \ {1}}
  BY <1>3 DEF Returns
<1>5. Neighbours(win) = {<<input[i - 1], input[i]>> : i \in lo + 1..n}
  <2>1. win = {input[j] : j \in lo..n}
    BY <1>1
  <2>2. Neighbours(win) = ReturnsInto(input, lo + 1, n)
    BY <1>2, <2>1, NeighboursOfRun
  <2> QED
    BY <2>2 DEF ReturnsInto
<1>6. CASE lo = 1
  <2>1. (lo..n) \ {1} = lo + 1..n
    BY <1>2, <1>6
  <2> QED
    BY <1>4, <1>5, <1>6, <2>1
<1>7. CASE lo # 1
  <2>1. (lo..n) \ {1} = (lo + 1..n) \cup {lo}
    BY <1>2, <1>7
  <2> QED
    BY <1>4, <1>5, <1>7, <2>1
<1> QED
  BY <1>6, <1>7

(* On an input in order the deques are the windows of compute_stream, and   *)
(* the returns they count are its own and the one into the oldest trade     *)
(* (arrow_impl.rs:42-56, features.py:30-48, 243-281).                       *)
THEOREM InOrderMatchesStreamCorrect == Spec => []InOrderMatchesStream
<1>1. ASSUME Inv, StreamInOrder, InOrder, input # <<>>
      PROVE  \E r \in rows :
               LET windows == [x \in Windows |-> CASE x = "1m" -> r.w1m
                                                   [] x = "5m" -> r.w5m
                                                   [] x = "15m" -> r.w15m]
               IN /\ r.trade = Last
                  /\ \A w \in Windows :
                       LET win == windows[w]
                           first == CHOOSE t \in win : \A u \in win : t.id <= u.id
                       IN /\ Elements(deque[<<w, "trades">>].buf) = win
                          /\ Returns(deque[<<w, "sqRets">>]) = Neighbours(win) \cup
                               (IF first.id = 1 THEN {} ELSE {<<input[first.id - 1], first>>})
  <2>1. PICK n : n = Len(input)
    OBVIOUS
  <2>2. /\ input \in Seq(T) /\ n \in Nat /\ n > 0
        /\ \A i \in 1..n : input[i].id = i
    BY <1>1, <2>1, InputType
  <2>3. PICK r \in rows : r = RowIn(input, n)
    BY <1>1, <2>1, <2>2 DEF StreamInOrder
  <2> DEFINE windows == [x \in Windows |-> CASE x = "1m" -> r.w1m
                                             [] x = "5m" -> r.w5m
                                             [] x = "15m" -> r.w15m]
  <2>4. r.trade = Last
    BY <2>1, <2>3 DEF RowIn, Last
  <2>5. \A w \in Windows : windows[w] = ReachIn(input, n, Width(w))
    BY <2>3 DEF RowIn, Windows, Width
  <2> HIDE DEF windows
  <2>6. ASSUME NEW w \in Windows
        PROVE  LET win == windows[w]
                   first == CHOOSE t \in win : \A u \in win : t.id <= u.id
               IN /\ Elements(deque[<<w, "trades">>].buf) = win
                  /\ Returns(deque[<<w, "sqRets">>]) = Neighbours(win) \cup
                       (IF first.id = 1 THEN {} ELSE {<<input[first.id - 1], first>>})
    <3> DEFINE win == windows[w]
               first == CHOOSE t \in win : \A u \in win : t.id <= u.id
    <3>1. PICK d, e : d = <<w, "trades">> /\ e = <<w, "sqRets">>
      OBVIOUS
    <3>2. d \in Deques /\ e \in Deques /\ d[1] = w /\ e[1] = w
      BY <3>1 DEF Deques
    <3>3. PICK lo \in 1..n :
            /\ deque[d] = [buf |-> SubSeq(input, lo, n), sum |-> Once(lo, n)]
            /\ PandasWindow(n, Width(w)) = lo..n
      BY <1>1, <2>1, <2>2, <3>2, DequeInOrder
    <3>4. PICK hi \in 1..n :
            /\ deque[e] = [buf |-> SubSeq(input, hi, n), sum |-> Once(hi, n)]
            /\ PandasWindow(n, Width(w)) = hi..n
      BY <1>1, <2>1, <2>2, <3>2, DequeInOrder
    <3>5. hi = lo
      BY <2>2, <3>3, <3>4
    <3>6. win = {input[j] : j \in lo..n}
      BY <2>5, <3>3 DEF ReachIn, PandasWindow
    <3> HIDE DEF win
    <3>7. Elements(deque[d].buf) = win
      <4>1. PICK b, c : b = SubSeq(input, lo, n) /\ c = Once(lo, n)
        OBVIOUS
      <4>2. deque[d] = [buf |-> b, sum |-> c]
        BY <3>3, <4>1
      <4>3. deque[d].buf = b
        BY <4>2
      <4>4. lo \in 1..Len(input) + 1
        BY <2>1, <2>2
      <4>5. Elements(b) = {input[i] : i \in lo..n}
        BY <2>1, <2>2, <4>1, <4>4, EndElements
      <4> QED
        BY <3>6, <4>3, <4>5
    <3>8. first = input[lo] /\ first.id = lo
      <4>1. (CHOOSE t \in win : \A u \in win : t.id <= u.id) = input[lo]
        BY <2>2, <3>6, FirstOfRun
      <4> QED
        BY <2>2, <4>1
    <3> HIDE DEF first
    <3>9. deque[e].sum = Once(lo, n)
      <4>1. PICK b, c : b = SubSeq(input, hi, n) /\ c = Once(hi, n)
        OBVIOUS
      <4>2. deque[e] = [buf |-> b, sum |-> c]
        BY <3>4, <4>1
      <4> QED
        BY <3>5, <4>1, <4>2
    <3>10. Returns(deque[e]) = Neighbours(win) \cup
             (IF lo = 1 THEN {} ELSE {<<input[lo - 1], input[lo]>>})
      BY <1>1, <2>1, <3>6, <3>9, ReturnsOfRun
    <3>11. /\ Elements(deque[<<w, "trades">>].buf) = win
           /\ Returns(deque[<<w, "sqRets">>]) = Neighbours(win) \cup
                (IF first.id = 1 THEN {} ELSE {<<input[first.id - 1], first>>})
      BY <3>1, <3>7, <3>8, <3>10
    <3> QED
      BY <3>11 DEF win, first
  <2> QED
    BY <2>4, <2>6 DEF windows
<1>2. Inv /\ StreamInOrder => InOrderMatchesStream
  BY <1>1 DEF InOrderMatchesStream
<1> QED
  BY <1>2, Invariance, StreamInvariance, PTL

(* On an input in order pandas takes the window of compute_stream, and      *)
(* Polars all but the trades exactly one window old, with the later ones of *)
(* the same time (features.py:114-115, 165-171).                            *)
THEOREM RollingMatchesStreamCorrect == Spec => []RollingMatchesStream
<1>1. ASSUME Inv, StreamInOrder, InOrder, NEW r \in rows
      PROVE  LET i == r.trade.id
                 old == {j \in 1..i : input[j].ts = r.trade.ts - Window1m}
                 tied == {j \in i + 1..Len(input) : input[j].ts = r.trade.ts}
                 ids == {t.id : t \in r.w1m}
             IN /\ PandasWindow(i, Window1m) = ids
                /\ PolarsWindow(i, Window1m) = (ids \ old) \cup tied
  <2>1. PICK n : n = Len(input)
    OBVIOUS
  <2>2. n \in Nat /\ \A i \in 1..n : input[i].id = i /\ input[i].ts \in Nat
    BY <1>1, <2>1, InputType
  <2>3. \A i, j \in 1..n : i < j => input[i].ts <= input[j].ts
    BY <1>1, <2>1 DEF InOrder
  <2>4. PICK i \in 1..n : r = RowIn(input, i)
    BY <1>1, <2>1 DEF StreamInOrder
  <2>5. r.trade = input[i] /\ r.w1m = ReachIn(input, i, Window1m) /\ r.trade.id = i
    BY <2>2, <2>4 DEF RowIn
  <2> DEFINE old == {j \in 1..i : input[j].ts = input[i].ts - Window1m}
             tied == {j \in i + 1..n : input[j].ts = input[i].ts}
             reach == {j \in 1..i : input[j].ts >= input[i].ts - Window1m}
  <2>6. \A j \in 1..i : j \in 1..n /\ input[j].ts <= input[i].ts
    BY <2>2, <2>3
  <2>7. {t.id : t \in r.w1m} = reach
    <3>1. r.w1m = {input[j] : j \in reach}
      BY <2>5 DEF ReachIn
    <3>2. \A j \in reach : input[j].id = j
      BY <2>2, <2>6
    <3> HIDE DEF reach
    <3> QED
      BY <3>1, <3>2
  <2>8. PandasWindow(i, Window1m) = reach
    BY DEF PandasWindow
  <2>9. PolarsWindow(i, Window1m) = (reach \ old) \cup tied
    <3>1. PolarsWindow(i, Window1m) =
            {j \in 1..n : input[i].ts - Window1m < input[j].ts /\ input[j].ts <= input[i].ts}
      BY <2>1 DEF PolarsWindow
    <3>2. ASSUME NEW j \in 1..n
          PROVE  /\ input[i].ts - Window1m < input[j].ts
                 /\ input[j].ts <= input[i].ts
                 <=> j \in (reach \ old) \cup tied
      <4>1. input[j].ts \in Nat /\ input[i].ts \in Nat
        BY <2>2
      <4>2. CASE j <= i
        BY <2>6, <4>1, <4>2, StreamAssumption
      <4>3. CASE j > i
        <5>1. input[i].ts <= input[j].ts /\ j \in i + 1..n
          BY <2>3, <4>3
        <5> QED
          BY <4>1, <4>3, <5>1, StreamAssumption
      <4> QED
        BY <4>2, <4>3
    <3>3. \A j \in (reach \ old) \cup tied : j \in 1..n
      BY <2>6
    <3> QED
      BY <3>1, <3>2, <3>3
  <2> HIDE DEF reach
  <2> QED
    BY <2>1, <2>5, <2>7, <2>8, <2>9
<1>2. Inv /\ StreamInOrder => RollingMatchesStream
  BY <1>1 DEF RollingMatchesStream
<1> QED
  BY <1>2, Invariance, StreamInvariance, PTL
==============================================================================
