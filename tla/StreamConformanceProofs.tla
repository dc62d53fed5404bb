----------------------- MODULE StreamConformanceProofs -----------------------
(***************************************************************************)
(* Theorems about the streaming features, for any input: any symbols, any  *)
(* times in any order, and any windows and threshold that StreamAssumption *)
(* allows.  First the Rust compute_stream by itself (ComputeStream); then  *)
(* with the Python one beside it: the two agree on any input of one        *)
(* symbol, what the conformance fixtures sample; on any other input, what  *)
(* the Python windows hold and all that the two differ in.                 *)
(***************************************************************************)
EXTENDS StreamConformance, StreamOpsProofs, FiniteSetTheorems

------------------------------------------------------------------------------
(* The deque.                                                               *)

(* The trade is put at the end of the deque.                                *)
LEMMA DequeAppend ==
  ASSUME NEW A \in SUBSET TradeType, NEW dq \in Seq(TradeType), NEW wm \in Nat,
         NEW t \in TradeType, DequeInv(dq, wm, A), ~IsLate(wm, t)
  PROVE  /\ Append(dq, t) \in Seq(TradeType)
         /\ Elements(Append(dq, t)) = Elements(dq) \cup {t}
         /\ \A i, j \in 1..Len(Append(dq, t)) :
              i < j => Append(dq, t)[j].ts >= Append(dq, t)[i].ts - LateThreshold
<1> DEFINE b == Append(dq, t)
           n == Len(dq)
<1>1. /\ b \in Seq(TradeType) /\ Len(b) = n + 1 /\ b # <<>> /\ n \in Nat
      /\ \A i \in 1..n : b[i] = dq[i] /\ dq[i] \in TradeType
      /\ b[n + 1] = t
  BY AppendProperties
<1>2. \A i, j \in 1..n : i < j => dq[j].ts >= dq[i].ts - LateThreshold
  BY DEF DequeInv
<1>3. \A i \in 1..n : dq[i].ts <= wm /\ dq[i].ts \in Nat
  BY <1>1 DEF DequeInv, Elements, TradeType
<1>4. Elements(dq) = {dq[i] : i \in 1..n}
  BY DEF Elements
<1>5. Elements(b) = {b[i] : i \in 1..Len(b)}
  BY DEF Elements
<1>6. t.ts \in Nat /\ LateThreshold \in Nat /\ t.ts >= wm - LateThreshold
  BY StreamAssumption DEF IsLate, TradeType
<1> HIDE DEF b, n
<1>7. Elements(b) = Elements(dq) \cup {t}
  <2>1. \A i \in 1..n + 1 : i \in 1..n \/ i = n + 1
    BY <1>1
  <2>2. n + 1 \in 1..n + 1 /\ \A i \in 1..n : i \in 1..n + 1
    BY <1>1
  <2> QED
    BY <1>1, <1>4, <1>5, <2>1, <2>2
<1>8. ASSUME NEW i \in 1..n + 1, NEW j \in 1..n + 1, i < j
      PROVE  b[j].ts >= b[i].ts - LateThreshold
  <2>1. i \in 1..n
    BY <1>1, <1>8
  <2>2. CASE j = n + 1
    BY <1>1, <1>3, <1>6, <2>1, <2>2
  <2>3. CASE j # n + 1
    <3>1. j \in 1..n
      BY <1>1, <2>3
    <3> QED
      BY <1>1, <1>2, <1>8, <2>1, <3>1
  <2> QED
    BY <2>2, <2>3
<1>9. \A i, j \in 1..Len(b) : i < j => b[j].ts >= b[i].ts - LateThreshold
  BY <1>1, <1>8
<1> QED
  BY <1>1, <1>7, <1>9 DEF b

(* The front of the deque is popped, after a trade in time.                 *)
LEMMA DequePrune ==
  ASSUME NEW A \in SUBSET TradeType, NEW dq \in Seq(TradeType), NEW wm \in Nat,
         NEW t \in TradeType, DequeInv(dq, wm, A), ~IsLate(wm, t)
  PROVE  LET wm2 == MaxOf(wm, t.ts)
             b2  == Prune(Append(dq, t), wm2 - Window15m)
         IN /\ wm2 \in Nat /\ b2 \in Seq(TradeType)
            /\ DequeInv(b2, wm2, A \cup {t})
<1> DEFINE b == Append(dq, t)
           wm2 == MaxOf(wm, t.ts)
           c == wm2 - Window15m
           b2 == Prune(b, c)
           B == A \cup {t}
<1>1. /\ b \in Seq(TradeType)
      /\ Elements(b) = Elements(dq) \cup {t}
      /\ \A i, j \in 1..Len(b) : i < j => b[j].ts >= b[i].ts - LateThreshold
  <2> HIDE DEF wm2, c, b2, B
  <2> QED
    BY DequeAppend
<1>2. /\ wm2 \in Nat /\ wm2 >= wm /\ wm2 >= t.ts /\ t.ts \in Nat
      /\ wm2 = wm \/ wm2 = t.ts
  BY DEF MaxOf, TradeType
<1>3. c \in Int /\ c = wm2 - Window15m /\ Window15m \in Nat
  BY <1>2, StreamAssumption
<1>4. \A u \in TradeType : u.ts \in Int /\ u.ts \in Nat
  BY DEF TradeType
<1>5. b \in Seq(TradeType) /\ Len(b) \in Nat /\ \A i \in 1..Len(b) : b[i] \in TradeType
  BY <1>1
<1>6. /\ \A u \in A : u.ts <= wm /\ u \in TradeType
      /\ \A u \in A : u.ts >= wm - Window15m => u \in Elements(dq)
      /\ wm = 0 \/ \E u \in A : u.ts = wm
      /\ Elements(dq) \subseteq A
  BY DEF DequeInv
<1> HIDE DEF b, wm2, c
<1>7. b2 \in Seq(TradeType)
  BY <1>3, <1>4, <1>5, PruneLeaves
<1>8. PICK k \in 1..Len(b) + 1 :
        /\ Len(b2) = Len(b) + 1 - k
        /\ \A i \in 1..Len(b2) : b2[i] = b[k + i - 1]
        /\ \A i \in 1..k - 1 : b[i].ts < c
        /\ k <= Len(b) => b[k].ts >= c
  BY <1>3, <1>4, <1>5, PruneLeaves
<1>9. Len(b2) \in Nat
  BY <1>7
<1>10. b2 # <<>> => Len(b2) >= 1
  BY <1>7, <1>9, EmptySeq
<1> HIDE DEF b2
<1>11. \A i \in 1..Len(b2) : k + i - 1 \in 1..Len(b)
  BY <1>5, <1>8, <1>9
<1>12. Elements(b2) \subseteq Elements(b)
  BY <1>8, <1>11 DEF Elements
<1>13. Elements(b2) \subseteq B
  BY <1>1, <1>6, <1>12
<1>14. ASSUME NEW i \in 1..Len(b2), NEW j \in 1..Len(b2), i < j
       PROVE  b2[j].ts >= b2[i].ts - LateThreshold
  <2>1. /\ k + i - 1 \in 1..Len(b) /\ k + j - 1 \in 1..Len(b)
        /\ k + i - 1 < k + j - 1
    BY <1>11, <1>14, <1>8, <1>5
  <2>2. b[k + j - 1].ts >= b[k + i - 1].ts - LateThreshold
    BY <1>1, <2>1
  <2> QED
    BY <1>8, <2>2
<1>15. b2 # <<>> => b2[1].ts >= c
  <2> SUFFICES ASSUME b2 # <<>>
               PROVE  b2[1].ts >= c
    OBVIOUS
  <2>1. 1 \in 1..Len(b2) /\ k <= Len(b) /\ k + 1 - 1 = k
    BY <1>5, <1>8, <1>9, <1>10
  <2> QED
    BY <1>8, <2>1
<1>16. \A u \in B : u.ts <= wm2
  BY <1>2, <1>4, <1>6
<1>17. ASSUME NEW u \in B, u.ts >= c
       PROVE  u \in Elements(b2)
  <2>1. u \in Elements(b)
    <3>1. CASE u = t
      BY <1>1, <3>1
    <3>2. CASE u \in A
      <4>1. u.ts \in Nat /\ u.ts >= wm - Window15m
        BY <1>2, <1>3, <1>4, <1>6, <1>17, <3>2
      <4> QED
        BY <1>1, <1>6, <3>2, <4>1
    <3> QED
      BY <3>1, <3>2
  <2>2. PICK i \in 1..Len(b) : u = b[i]
    BY <2>1 DEF Elements
  <2>3. ~(i \in 1..k - 1)
    <3>1. u.ts \in Int /\ ~(u.ts < c)
      BY <1>3, <1>4, <1>5, <1>17, <2>2
    <3> QED
      BY <1>8, <2>2, <3>1
  <2>4. i - k + 1 \in 1..Len(b2) /\ k + (i - k + 1) - 1 = i
    BY <1>5, <1>8, <1>9, <2>3
  <2>5. b2[i - k + 1] = b[i]
    BY <1>8, <2>4
  <2> QED
    BY <2>2, <2>4, <2>5 DEF Elements
<1>18. wm2 = 0 \/ \E u \in B : u.ts = wm2
  BY <1>2, <1>6
<1>19. DequeInv(b2, wm2, B)
  BY <1>3, <1>13, <1>14, <1>15, <1>16, <1>17, <1>18 DEF DequeInv, c
<1> QED
  BY <1>2, <1>7, <1>19 DEF b2, wm2, b, c

(* What is wanted of the row r of trade t, when B are the trades accepted.  *)
RowOf(r, t, B) ==
  /\ r.trade = t
  /\ r \in [trade : TradeType, w1m : SUBSET TradeType,
            w5m : SUBSET TradeType, w15m : SUBSET TradeType]
  /\ r.w1m = {u \in B : u.ts >= t.ts - Window1m}
  /\ r.w5m = {u \in B : u.ts >= t.ts - Window5m}
  /\ r.w15m \subseteq {u \in B : u.ts >= t.ts - Window15m}
  /\ \A u \in B : u.ts >= t.ts - Window15m /\ u \notin r.w15m =>
                  \E v \in B : u.ts < v.ts - Window15m
  /\ \A u \in r.w15m : u.ts <= t.ts + LateThreshold

(* The row of a trade in time, computed on the deque with the trade.        *)
LEMMA RowComplete ==
  ASSUME NEW A \in SUBSET TradeType, NEW dq \in Seq(TradeType), NEW wm \in Nat,
         NEW t \in TradeType, DequeInv(dq, wm, A), ~IsLate(wm, t),
         NEW r, r = NewRow(Append(dq, t), t)
  PROVE  RowOf(r, t, A \cup {t})
<1> DEFINE E == Elements(dq) \cup {t}
           B == A \cup {t}
<1>1. Elements(Append(dq, t)) = E
  BY DequeAppend
<1>2. /\ r.trade = t
      /\ r.w1m = {u \in E : u.ts >= t.ts - Window1m}
      /\ r.w5m = {u \in E : u.ts >= t.ts - Window5m}
      /\ r.w15m = {u \in E : u.ts >= t.ts - Window15m}
      /\ r = [trade |-> t, w1m |-> r.w1m, w5m |-> r.w5m, w15m |-> r.w15m]
  BY <1>1 DEF NewRow, Window
<1>3. /\ Elements(dq) \subseteq A
      /\ \A u \in A : u.ts <= wm /\ u.ts \in Nat
      /\ \A u \in A : u.ts >= wm - Window15m => u \in Elements(dq)
      /\ wm = 0 \/ \E u \in A : u.ts = wm
  BY DEF DequeInv, TradeType
<1>4. t.ts \in Nat /\ LateThreshold \in Nat /\ t.ts >= wm - LateThreshold
  BY StreamAssumption DEF IsLate, TradeType
<1>5. E \subseteq B /\ E \subseteq TradeType /\ t \in E
  BY <1>3
<1>6. r \in [trade : TradeType, w1m : SUBSET TradeType,
             w5m : SUBSET TradeType, w15m : SUBSET TradeType]
  BY <1>2, <1>5
<1>7. ASSUME NEW u \in B, u.ts >= t.ts - Window5m
      PROVE  u \in E
  <2>1. CASE u \in A
    <3>1. u.ts >= wm - Window15m
      BY <1>3, <1>4, <1>7, <2>1, StreamAssumption
    <3> QED
      BY <1>3, <2>1, <3>1
  <2> QED
    BY <2>1
<1>8. ASSUME NEW u \in B, u.ts >= t.ts - Window1m
      PROVE  u \in E
  <2>1. u.ts >= t.ts - Window5m
    BY <1>3, <1>4, <1>8, StreamAssumption
  <2> QED
    BY <1>7, <2>1
<1>9. ASSUME NEW u \in B, u \notin E
      PROVE  \E v \in B : u.ts < v.ts - Window15m
  <2>1. u \in A /\ u.ts < wm - Window15m /\ u.ts \in Nat
    BY <1>3, <1>9, StreamAssumption
  <2>2. wm # 0
    BY <2>1, StreamAssumption
  <2> QED
    BY <1>3, <2>1, <2>2
<1>10. \A u \in E : u.ts <= t.ts + LateThreshold
  BY <1>3, <1>4
<1> HIDE DEF E, B
<1>11. r.w1m = {u \in B : u.ts >= t.ts - Window1m}
  BY <1>2, <1>5, <1>8
<1>12. r.w5m = {u \in B : u.ts >= t.ts - Window5m}
  BY <1>2, <1>5, <1>7
<1>13. r.w15m \subseteq {u \in B : u.ts >= t.ts - Window15m}
  BY <1>2, <1>5
<1>14. \A u \in B : u.ts >= t.ts - Window15m /\ u \notin r.w15m =>
         \E v \in B : u.ts < v.ts - Window15m
  BY <1>2, <1>9
<1>15. \A u \in r.w15m : u.ts <= t.ts + LateThreshold
  BY <1>2, <1>10
<1> QED
  BY <1>2, <1>6, <1>11, <1>12, <1>13, <1>14, <1>15 DEF B, RowOf

------------------------------------------------------------------------------
(* The invariant.                                                           *)

LEMMA InvInit == Init => Inv
<1> SUFFICES ASSUME Init
             PROVE  Inv
  OBVIOUS
<1>1. Elements(<<>>) = {} /\ <<>> \in Seq(TradeType) /\ Len(<<>>) = 0
  BY EmptySeq DEF Elements
<1>2. \A s \in Symbols : state[s] = Default /\ Accepted(s) = {}
  BY DEF Init, Accepted
<1>3. TypeOK
  BY <1>1, ComputeAssumption DEF Init, TypeOK, Default
<1>4. \A s \in Symbols : DequeInv(state[s].buf, state[s].watermark, Accepted(s))
  BY <1>1, <1>2 DEF Default, DequeInv
<1>5. WindowsComplete /\ LookaheadBounded /\ \A r \in rows : r.trade.id <= arrived
  BY DEF Init, WindowsComplete, LookaheadBounded
<1>6. IsFiniteSet(late) /\ \A t \in late : t.id <= arrived
  BY FS_EmptySet DEF Init
<1>7. LateDropsExact
  <2>1. late = {} /\ rows = {} /\ arrived = 0
    BY DEF Init
  <2>2. \A s \in Symbols : state[s].late_drops = 0 /\ Late(s) = {}
    BY <1>2, <2>1 DEF Default, Late
  <2> QED
    BY <2>1, <2>2, FS_EmptySet DEF LateDropsExact
<1> QED
  BY <1>3, <1>4, <1>5, <1>6, <1>7 DEF Inv

LEMMA AcceptedType ==
  ASSUME Inv, NEW s \in Symbols
  PROVE  /\ Accepted(s) \in SUBSET TradeType
         /\ \A u \in Accepted(s) : u.id <= arrived /\ u.symbol = s /\ u.id \in Nat
BY DEF Inv, TypeOK, Accepted, TradeType

(* The next event overtakes none that came before it.                       *)
LEMMA OvertakenBefore ==
  ASSUME Inv, NEW t \in Arrivals, rows' = rows \/ \E x : x.trade = t /\ rows' = rows \cup {x},
         NEW u, u.id \in Nat, u.id <= arrived
  PROVE  Overtaken(u)' <=> Overtaken(u)
<1>1. t.id = arrived + 1 /\ arrived \in Nat
  BY ComputeAssumption DEF Arrivals, Inv, TypeOK
<1>2. ~(t.id < u.id)
  BY <1>1
<1>3. \A s : Accepted(s) \subseteq Accepted(s)' /\ Accepted(s)' \subseteq Accepted(s) \cup {t}
  BY DEF Accepted
<1> QED
  BY <1>2, <1>3 DEF Overtaken

(* A trade is late just when it is overtaken.                               *)
LEMMA LateIsOvertaken ==
  ASSUME Inv, NEW t \in Arrivals
  PROVE  IsLate(state[t.symbol].watermark, t) <=> Overtaken(t)
<1> DEFINE wm == state[t.symbol].watermark
           A == Accepted(t.symbol)
<1>1. /\ t.symbol \in Symbols /\ t.ts \in Nat /\ t.id = arrived + 1 /\ arrived \in Nat
      /\ wm \in Nat /\ LateThreshold \in Nat
  BY ComputeAssumption, StreamAssumption DEF Arrivals, Inv, TypeOK
<1>2. /\ \A u \in A : u.id <= arrived /\ u.id \in Nat /\ u.ts \in Nat /\ u.ts <= wm
      /\ wm = 0 \/ \E u \in A : u.ts = wm
  BY <1>1, AcceptedType DEF Inv, DequeInv, TradeType
<1>3. Overtaken(t) <=> \E u \in A : u.id < t.id /\ t.ts < u.ts - LateThreshold
  BY DEF Overtaken
<1> HIDE DEF wm, A
<1>4. t.ts < wm - LateThreshold <=> \E u \in A : u.id < t.id /\ t.ts < u.ts - LateThreshold
  BY <1>1, <1>2
<1> QED
  BY <1>3, <1>4 DEF IsLate, wm

(* Every event so far has a row or was dropped, and the next one has a new  *)
(* number.                                                                  *)
LEMMA NextIsNew ==
  ASSUME Inv, NEW t \in Arrivals, arrived' = arrived + 1,
         t \in late' \cup {r.trade : r \in rows'}, late \subseteq late', rows \subseteq rows'
  PROVE  /\ \A i \in 1..arrived' : \E u \in late' \cup {r.trade : r \in rows'} : u.id = i
         /\ t \notin late
<1>1. t.id = arrived + 1 /\ arrived \in Nat
  BY ComputeAssumption DEF Arrivals, Inv, TypeOK
<1>2. ASSUME NEW i \in 1..arrived'
      PROVE  \E u \in late' \cup {r.trade : r \in rows'} : u.id = i
  <2>1. CASE i \in 1..arrived
    <3>1. PICK u \in late \cup {r.trade : r \in rows} : u.id = i
      BY <2>1 DEF Inv, LateDropsExact
    <3> QED
      BY <3>1
  <2>2. CASE i = arrived + 1
    BY <1>1, <2>2
  <2> QED
    BY <1>1, <2>1, <2>2
<1>3. t \notin late
  BY <1>1 DEF Inv
<1> QED
  BY <1>2, <1>3

LEMMA DropIsExact ==
  ASSUME Inv, NEW t \in Arrivals, arrived' = arrived + 1, DropLate(t)
  PROVE  LateDropsExact'
<1>1. /\ rows' = rows /\ late' = late \cup {t} /\ t.symbol \in Symbols
      /\ state' = [state EXCEPT ![t.symbol].late_drops = state[t.symbol].late_drops + 1]
      /\ DOMAIN state = Symbols
  BY DEF DropLate, Arrivals, Inv, TypeOK
<1>2. /\ \A u \in late : u.id \in Nat /\ u.id <= arrived /\ Overtaken(u)
      /\ \A r \in rows : r.trade.id \in Nat /\ r.trade.id <= arrived /\ ~Overtaken(r.trade)
  BY DEF Inv, TypeOK, TradeType, LateDropsExact
<1>3. Overtaken(t)' <=> Overtaken(t)
  BY <1>1 DEF Overtaken, Accepted
<1>4. Overtaken(t)
  BY LateIsOvertaken DEF DropLate
<1>5. /\ \A u \in late' : Overtaken(u)'
      /\ \A r \in rows' : ~Overtaken(r.trade)'
  <2>1. \A u : u.id \in Nat /\ u.id <= arrived => (Overtaken(u)' <=> Overtaken(u))
    BY <1>1, OvertakenBefore
  <2> QED
    BY <1>1, <1>2, <1>3, <1>4, <2>1
<1>6. /\ \A i \in 1..arrived' : \E u \in late' \cup {r.trade : r \in rows'} : u.id = i
      /\ t \notin late
  BY <1>1, NextIsNew
<1>7. ASSUME NEW s \in Symbols
      PROVE  state'[s].late_drops = Cardinality(Late(s)')
  <2>1. Late(s)' = IF s = t.symbol THEN Late(s) \cup {t} ELSE Late(s)
    BY <1>1 DEF Late
  <2>2. IsFiniteSet(Late(s)) /\ t \notin Late(s) /\ state[s].late_drops = Cardinality(Late(s))
    BY <1>6, FS_Subset DEF Late, Inv, LateDropsExact
  <2>3. Cardinality(Late(s) \cup {t}) = Cardinality(Late(s)) + 1
    BY <2>2, FS_AddElement
  <2>4. state[t.symbol] \in [buf : Seq(TradeType), watermark : Nat, late_drops : Nat]
    BY <1>1 DEF Inv, TypeOK
  <2>5. state'[s].late_drops = IF s = t.symbol THEN state[s].late_drops + 1 ELSE state[s].late_drops
    BY <1>1, <2>4
  <2> QED
    BY <2>1, <2>2, <2>3, <2>5
<1> QED
  BY <1>5, <1>6, <1>7 DEF LateDropsExact

LEMMA EmitIsExact ==
  ASSUME Inv, NEW t \in Arrivals, arrived' = arrived + 1, Emit(t)
  PROVE  LateDropsExact'
<1>1. PICK x : x.trade = t /\ rows' = rows \cup {x}
  BY DEF Emit, NewRow
<1>2. late' = late /\ ~IsLate(state[t.symbol].watermark, t) /\ t.symbol \in Symbols
  BY DEF Emit, Arrivals
<1>3. /\ \A u \in late : u.id \in Nat /\ u.id <= arrived /\ Overtaken(u)
      /\ \A r \in rows : r.trade.id \in Nat /\ r.trade.id <= arrived /\ ~Overtaken(r.trade)
  BY DEF Inv, TypeOK, TradeType, LateDropsExact
<1>4. ~Overtaken(t)'
  <2>1. Accepted(t.symbol)' \subseteq Accepted(t.symbol) \cup {t}
    BY <1>1 DEF Accepted
  <2>2. ~Overtaken(t)
    BY <1>2, LateIsOvertaken
  <2>3. ~(t.id < t.id)
    BY ComputeAssumption DEF Arrivals, Inv, TypeOK
  <2> QED
    BY <2>1, <2>2, <2>3 DEF Overtaken
<1>5. /\ \A u \in late' : Overtaken(u)'
      /\ \A r \in rows' : ~Overtaken(r.trade)'
  <2>1. \A u : u.id \in Nat /\ u.id <= arrived => (Overtaken(u)' <=> Overtaken(u))
    BY <1>1, OvertakenBefore
  <2>2. \A u \in late' : Overtaken(u)'
    BY <1>2, <1>3, <2>1
  <2>3. \A r \in rows : ~Overtaken(r.trade)'
    BY <1>3, <2>1
  <2> QED
    BY <1>1, <1>4, <2>2, <2>3
<1>6. \A i \in 1..arrived' : \E u \in late' \cup {r.trade : r \in rows'} : u.id = i
  BY <1>1, <1>2, NextIsNew
<1>7. \A s \in Symbols : state'[s].late_drops = state[s].late_drops
  <2>1. PICK st : st = state[t.symbol]
    OBVIOUS
  <2>2. PICK b, w : state' = [state EXCEPT ![t.symbol] =
                                [buf |-> b, watermark |-> w, late_drops |-> st.late_drops]]
    BY <2>1 DEF Emit
  <2> QED
    BY <2>1, <2>2, <1>2 DEF Inv, TypeOK
<1>8. \A s \in Symbols : state'[s].late_drops = Cardinality(Late(s)')
  BY <1>2, <1>7 DEF Late, Inv, LateDropsExact
<1> QED
  BY <1>5, <1>6, <1>8 DEF LateDropsExact

LEMMA InvDropLate ==
  ASSUME Inv, arrived < MaxEvents, NEW t \in Arrivals, arrived' = arrived + 1, DropLate(t)
  PROVE  Inv'
<1>1. rows' = rows /\ t.symbol \in Symbols /\ arrived \in Nat /\ arrived' \in 0..MaxEvents
  BY ComputeAssumption DEF DropLate, Arrivals, Inv, TypeOK
<1>2. /\ state' \in [Symbols -> [buf : Seq(TradeType), watermark : Nat, late_drops : Nat]]
      /\ \A s \in Symbols : state'[s].buf = state[s].buf /\ state'[s].watermark = state[s].watermark
  <2> DEFINE StateType == [buf : Seq(TradeType), watermark : Nat, late_drops : Nat]
             st == state[t.symbol]
             st2 == [st EXCEPT !.late_drops = st.late_drops + 1]
  <2>1. state \in [Symbols -> StateType] /\ st \in StateType
    BY <1>1 DEF Inv, TypeOK
  <2>2. state' = [state EXCEPT ![t.symbol] = st2]
    BY DEF DropLate
  <2>3. st2 \in StateType /\ st2.buf = st.buf /\ st2.watermark = st.watermark
    <3> HIDE DEF st
    <3>1. st.late_drops + 1 \in Nat /\ DOMAIN st = {"buf", "watermark", "late_drops"}
      BY <2>1
    <3> QED
      BY <2>1, <3>1
  <2> HIDE DEF st2
  <2> QED
    BY <1>1, <2>1, <2>2, <2>3
<1>3. TypeOK'
  <2>1. late' = late \cup {t} /\ t \in TradeType
    BY ComputeAssumption DEF DropLate, Arrivals, TradeType, Inv, TypeOK
  <2> QED
    BY <1>1, <1>2, <2>1 DEF Inv, TypeOK
<1>4. \A r \in rows : r.trade.id <= arrived + 1
  BY <1>1 DEF Inv, TypeOK, TradeType
<1>5. \A s \in Symbols : DequeInv(state'[s].buf, state'[s].watermark, Accepted(s)')
  BY <1>1, <1>2 DEF Inv, Accepted
<1>6. WindowsComplete' /\ LookaheadBounded'
  BY <1>1 DEF Inv, WindowsComplete, LookaheadBounded, Reach, Seen, Accepted
<1>7. late' = late \cup {t} /\ t \in TradeType /\ t.id = arrived + 1
  BY DEF DropLate, Arrivals, TradeType, Inv, TypeOK
<1>8. IsFiniteSet(late') /\ \A u \in late' : u.id <= arrived'
  <2>1. \A u \in late : u.id <= arrived /\ u.id \in Nat
    BY DEF Inv, TypeOK, TradeType
  <2> QED
    BY <1>1, <1>7, <2>1, FS_AddElement DEF Inv
<1>9. LateDropsExact'
  BY DropIsExact
<1> QED
  BY <1>1, <1>3, <1>4, <1>5, <1>6, <1>8, <1>9 DEF Inv, DequeInv

(* A row keeps the windows it was computed with, and what it saw.           *)
LEMMA SeenBefore ==
  ASSUME Inv, NEW t \in Arrivals, NEW x, x.trade = t, rows' = rows \cup {x}, NEW r \in rows
  PROVE  /\ Seen(r)' = Seen(r)
         /\ \A w : Reach(r, w)' = Reach(r, w)
<1>1. t.id = arrived + 1 /\ r.trade.id <= arrived /\ r.trade.id \in Nat /\ arrived \in Nat
  BY ComputeAssumption DEF Inv, TypeOK, Arrivals, TradeType
<1>2. ~(t.id <= r.trade.id)
  BY <1>1
<1>3. Seen(r)' = Seen(r)
  BY <1>2 DEF Seen, Accepted
<1> QED
  BY <1>3 DEF Reach

LEMMA InvEmit ==
  ASSUME Inv, arrived < MaxEvents, NEW t \in Arrivals, arrived' = arrived + 1, Emit(t)
  PROVE  Inv'
<1> DEFINE s == t.symbol
           st == state[s]
           wm == MaxOf(st.watermark, t.ts)
           b2 == Prune(Append(st.buf, t), wm - Window15m)
           A == Accepted(s)
           StateType == [buf : Seq(TradeType), watermark : Nat, late_drops : Nat]
<1>0. PICK x : x = NewRow(Append(st.buf, t), t)
  OBVIOUS
<1>1. /\ arrived \in Nat /\ arrived' \in 0..MaxEvents /\ arrived' = arrived + 1
      /\ t \in TradeType /\ s \in Symbols /\ t.id = arrived + 1
  BY ComputeAssumption DEF Inv, TypeOK, Arrivals, TradeType
<1>2. state \in [Symbols -> StateType] /\ st \in StateType
  BY <1>1 DEF Inv, TypeOK
<1>3. /\ st.buf \in Seq(TradeType) /\ st.watermark \in Nat /\ st.late_drops \in Nat
      /\ A \in SUBSET TradeType /\ DequeInv(st.buf, st.watermark, A)
      /\ ~IsLate(st.watermark, t)
  BY <1>1, <1>2, AcceptedType DEF Inv, Emit
<1>4. /\ rows' = rows \cup {x}
      /\ state' = [state EXCEPT ![s] =
                     [buf |-> b2, watermark |-> wm, late_drops |-> st.late_drops]]
  BY <1>0 DEF Emit, Advance, Cutoff
<1>5. wm \in Nat /\ b2 \in Seq(TradeType) /\ DequeInv(b2, wm, A \cup {t})
  <2> HIDE DEF st, A, s
  <2> QED
    BY <1>1, <1>3, DequePrune
<1>6. RowOf(x, t, A \cup {t})
  <2> HIDE DEF st, A, s, wm, b2
  <2> QED
    BY <1>1, <1>3, <1>0, RowComplete
<1> HIDE DEF b2, wm
<1>7. TypeOK'
  <2>1. state' \in [Symbols -> StateType]
    BY <1>1, <1>2, <1>3, <1>4, <1>5
  <2>2. late' = late
    BY DEF Emit
  <2> QED
    BY <1>1, <1>4, <1>6, <2>1, <2>2 DEF Inv, TypeOK, RowOf
<1>8. Accepted(s)' = A \cup {t}
  BY <1>4, <1>6 DEF Accepted, RowOf
<1>9. \A q \in Symbols : q # s => Accepted(q)' = Accepted(q) /\ state'[q] = state[q]
  BY <1>2, <1>4, <1>6 DEF Accepted, RowOf
<1>10. state'[s].buf = b2 /\ state'[s].watermark = wm
  BY <1>1, <1>2, <1>4
<1>11. \A q \in Symbols : DequeInv(state'[q].buf, state'[q].watermark, Accepted(q)')
  BY <1>5, <1>8, <1>9, <1>10 DEF Inv
<1>12. \A r \in rows' : r.trade.id <= arrived'
  <2>1. \A r \in rows : r.trade.id <= arrived /\ r.trade.id \in Nat
    BY DEF Inv, TypeOK, TradeType
  <2> QED
    BY <1>1, <1>4, <1>6, <2>1 DEF RowOf
<1>13. Seen(x)' = A \cup {t}
  <2>1. \A u \in A \cup {t} : u.id <= t.id
    BY <1>1, AcceptedType
  <2>2. Seen(x)' = {u \in A \cup {t} : u.id <= t.id}
    BY <1>6, <1>8 DEF Seen, RowOf
  <2> QED
    BY <2>1, <2>2
<1>14. \A r \in rows : /\ Seen(r)' = Seen(r)
                      /\ \A w : Reach(r, w)' = Reach(r, w)
  BY <1>4, <1>6, SeenBefore DEF RowOf
<1>15. WindowsComplete'
  <2>1. \A w : Reach(x, w)' = {u \in A \cup {t} : u.ts >= t.ts - w}
    BY <1>6, <1>13 DEF Reach, RowOf
  <2>2. /\ x.w1m = Reach(x, Window1m)'
        /\ x.w5m = Reach(x, Window5m)'
        /\ x.w15m \subseteq Reach(x, Window15m)'
        /\ \A u \in Reach(x, Window15m)' \ x.w15m :
             \E v \in Seen(x)' : u.ts < v.ts - Window15m
    BY <1>6, <1>13, <2>1 DEF RowOf
  <2>3. \A r \in rows :
          /\ r.w1m = Reach(r, Window1m)'
          /\ r.w5m = Reach(r, Window5m)'
          /\ r.w15m \subseteq Reach(r, Window15m)'
          /\ \A u \in Reach(r, Window15m)' \ r.w15m :
               \E v \in Seen(r)' : u.ts < v.ts - Window15m
    BY <1>14 DEF Inv, WindowsComplete
  <2> QED
    BY <1>4, <2>2, <2>3 DEF WindowsComplete
<1>16. LookaheadBounded'
  BY <1>4, <1>6 DEF Inv, LookaheadBounded, RowOf
<1>17. LateDropsExact'
  BY <1>1, EmitIsExact
<1>18. IsFiniteSet(late') /\ \A u \in late' : u.id <= arrived'
  <2>1. \A u \in late : u.id <= arrived /\ u.id \in Nat
    BY DEF Inv, TypeOK, TradeType
  <2>2. late' = late
    BY DEF Emit
  <2> QED
    BY <1>1, <2>1, <2>2 DEF Inv
<1> QED
  BY <1>7, <1>11, <1>12, <1>15, <1>16, <1>17, <1>18 DEF Inv

LEMMA InvNext == Inv /\ [Next]_vars => Inv'
<1> SUFFICES ASSUME Inv, [Next]_vars
             PROVE  Inv'
  OBVIOUS
<1>1. CASE arrived < MaxEvents /\ \E t \in Arrivals : Push(t)
  BY <1>1, InvDropLate, InvEmit DEF Push
<1>2. CASE UNCHANGED vars
  BY <1>2
  DEF vars, Inv, TypeOK, DequeInv, WindowsComplete, LookaheadBounded, Reach, Seen, Accepted,
      LateDropsExact, Late, Overtaken
<1> QED
  BY <1>1, <1>2 DEF Next, Terminated

(* The inductive invariant holds for every input (streaming.rs:25-62).      *)
THEOREM Invariance == Spec => []Inv
<1>1. Init => Inv
  BY InvInit
<1>2. Inv /\ [Next]_vars => Inv'
  BY InvNext
<1> QED
  BY <1>1, <1>2, PTL DEF Spec

------------------------------------------------------------------------------
(* What follows.                                                            *)

(* Every variable keeps its type.                                           *)
THEOREM TypeCorrect == Spec => []TypeOK
<1>1. Inv => TypeOK
  BY DEF Inv
<1> QED
  BY <1>1, Invariance, PTL

(* Pruning by the watermark takes nothing that a 1m or 5m window reaches,   *)
(* in order or late, and from a 15m window only what is more than 15m older *)
(* than a trade already seen (streaming.rs:26-59).                          *)
THEOREM WindowsCorrect == Spec => []WindowsComplete
<1>1. Inv => WindowsComplete
  BY DEF Inv
<1> QED
  BY <1>1, Invariance, PTL

(* No row looks further ahead of its event than the lateness threshold      *)
(* (streaming.rs:26, 35-41).                                                *)
THEOREM LookaheadCorrect == Spec => []LookaheadBounded
<1>1. Inv => LookaheadBounded
  BY DEF Inv
<1> QED
  BY <1>1, Invariance, PTL

(* What is dropped, and counted, is what an earlier event of the symbol     *)
(* overtook by more than the threshold, and nothing else                    *)
(* (streaming.rs:26-31).                                                    *)
THEOREM LateDropsCorrect == Spec => []LateDropsExact
<1>1. Inv => LateDropsExact
  BY DEF Inv
<1> QED
  BY <1>1, Invariance, PTL

LEMMA InvNothingStale ==
  ASSUME Inv
  PROVE  NothingStale
<1> SUFFICES ASSUME NEW s \in Symbols, NEW i \in 1..Len(state[s].buf)
             PROVE  state[s].buf[i].ts >= state[s].watermark - Window15m - LateThreshold
  BY DEF NothingStale, Elements
<1> DEFINE dq == state[s].buf
           wm == state[s].watermark
<1>1. dq \in Seq(TradeType) /\ wm \in Nat /\ DequeInv(dq, wm, Accepted(s))
  BY DEF Inv, TypeOK
<1> HIDE DEF dq, wm
<1>2. i \in 1..Len(dq) /\ 1 \in 1..Len(dq) /\ dq # <<>>
  BY <1>1 DEF dq
<1>3. dq[1] \in TradeType /\ dq[i] \in TradeType
  BY <1>1, <1>2
<1>4. dq[1].ts \in Int /\ dq[i].ts \in Int /\ dq[1].ts >= wm - Window15m
  BY <1>1, <1>2, <1>3 DEF DequeInv, TradeType
<1>5. dq[i].ts >= dq[1].ts - LateThreshold
  <2>1. CASE i = 1
    BY <1>4, <2>1, StreamAssumption
  <2>2. CASE i # 1
    BY <1>1, <1>2, <2>2 DEF DequeInv
  <2> QED
    BY <2>1, <2>2
<1>6. dq[i].ts >= wm - Window15m - LateThreshold
  BY <1>1, <1>4, <1>5, StreamAssumption
<1> QED
  BY <1>6 DEF dq, wm

(* Testing only the front of the deque keeps nothing older than 15m and the *)
(* threshold (streaming.rs:56-59).                                          *)
THEOREM NothingStaleCorrect == Spec => []NothingStale
<1>1. Inv => NothingStale
  BY InvNothingStale
<1> QED
  BY <1>1, Invariance, PTL

------------------------------------------------------------------------------
(* The two languages.                                                       *)

(* The shared operators mean the same in both modules.                 *)
LEMMA SameOperators ==
  ASSUME NEW b, NEW t, NEW c, NEW w, NEW u
  PROVE  /\ IsLate(w, t) <=> Py!IsLate(w, t)
         /\ MaxOf(w, u) = Py!MaxOf(w, u)
         /\ NewRow(b, t) = Py!NewRow(b, t)
         /\ Prune(b, c) = Py!Prune(b, c)
<1>1. IsLate(w, t) <=> Py!IsLate(w, t)
  BY DEF IsLate, Py!IsLate
<1>2. MaxOf(w, u) = Py!MaxOf(w, u)
  BY DEF MaxOf, Py!MaxOf
<1>3. \A x, y : Window(b, x, y) = Py!Window(b, x, y)
  BY DEF Window, Py!Window, Elements, Py!Elements
<1>4. NewRow(b, t) = Py!NewRow(b, t)
  BY <1>3 DEF NewRow, Py!NewRow
<1>5. KeptFrom(b, c) = Py!KeptFrom(b, c)
  BY Zenon DEF KeptFrom, Py!KeptFrom
<1>6. Prune(b, c) = Py!Prune(b, c)
  BY <1>5 DEF Prune, Py!Prune
<1> QED
  BY <1>1, <1>2, <1>4, <1>6

------------------------------------------------------------------------------
(* Agreement, and what makes it last: a symbol whose clock has started has  *)
(* a row.                                                                   *)
Started ==
  /\ arrived \in Nat
  /\ DOMAIN state = Symbols
  /\ \A s \in Symbols : state[s].watermark \in Nat
  /\ \A s \in Symbols :
       state[s].watermark > 0 => \E r \in rows : r.trade.symbol = s

Agreement == Started /\ AgreeOnOneSymbol

LEMMA AgreementInit == BothInit => Agreement
BY DEF BothInit, Init, Py!Init, Default, Agreement, Started, AgreeOnOneSymbol

(* A trade that is too late for its symbol.                                 *)
LEMMA AgreementDrop ==
  ASSUME Agreement, NEW t \in Arrivals, arrived' = arrived + 1,
         DropLate(t), Py!Turn(t)
  PROVE  Agreement'
<1>1. /\ t.symbol \in Symbols /\ t.ts \in Nat /\ rows' = rows
      /\ IsLate(state[t.symbol].watermark, t)
      /\ state' = [state EXCEPT ![t.symbol].late_drops = @ + 1]
  BY DEF Arrivals, DropLate
<1>2. \A s \in Symbols : state'[s].buf = state[s].buf /\ state'[s].watermark = state[s].watermark
  BY <1>1 DEF Agreement, Started
<1>3. Started'
  BY <1>1, <1>2 DEF Agreement, Started
<1>4. PICK r \in rows : r.trade.symbol = t.symbol
  <2>1. state[t.symbol].watermark > 0
    BY <1>1, StreamAssumption DEF Agreement, Started, IsLate
  <2> QED
    BY <1>1, <2>1 DEF Agreement, Started
<1>5. ASSUME NEW s \in Symbols, \A q \in rows : q.trade.symbol = s
      PROVE  /\ pyRows' = rows
             /\ buf' = state[s].buf
             /\ watermark' = state[s].watermark
  <2>1. s = t.symbol
    BY <1>4, <1>5
  <2>2. pyRows = rows /\ buf = state[s].buf /\ watermark = state[s].watermark
    BY <1>5 DEF Agreement, AgreeOnOneSymbol
  <2>3. Py!TooLate(t)
    BY <1>1, <2>1, <2>2, SameOperators DEF Py!TooLate
  <2>4. UNCHANGED <<watermark, buf, pyRows>>
    BY <2>3 DEF Py!Turn, Py!Skip, Py!Emit, Py!vars
  <2> QED
    BY <2>2, <2>4
<1>6. AgreeOnOneSymbol'
  BY <1>1, <1>2, <1>5 DEF AgreeOnOneSymbol
<1> QED
  BY <1>3, <1>6 DEF Agreement

(* A trade in time.                                                         *)
LEMMA AgreementEmit ==
  ASSUME Agreement, NEW t \in Arrivals, arrived' = arrived + 1,
         Emit(t), Py!Turn(t)
  PROVE  Agreement'
<1> DEFINE st == state[t.symbol]
           b == Append(st.buf, t)
           wm == MaxOf(st.watermark, t.ts)
           b2 == Prune(b, wm - Window15m)
<1>1. /\ t.symbol \in Symbols /\ t.ts \in Nat
      /\ ~IsLate(st.watermark, t)
      /\ state' = [state EXCEPT ![t.symbol] =
                     [buf |-> b2, watermark |-> wm, late_drops |-> st.late_drops]]
  BY DEF Arrivals, Emit, Advance, Cutoff
<1>2. PICK x : x = NewRow(b, t) /\ rows' = rows \cup {x} /\ x.trade = t
  <2>1. rows' = rows \cup {NewRow(b, t)}
    BY DEF Emit
  <2>2. NewRow(b, t).trade = t
    BY DEF NewRow
  <2> QED
    BY <2>1, <2>2
<1>3. /\ DOMAIN state' = Symbols /\ state'[t.symbol].buf = b2 /\ state'[t.symbol].watermark = wm
      /\ \A s \in Symbols : s # t.symbol => state'[s] = state[s]
      /\ wm \in Nat
  <2>1. wm \in Nat
    BY <1>1 DEF Agreement, Started, MaxOf
  <2> HIDE DEF wm, b2
  <2> QED
    BY <1>1, <2>1 DEF Agreement, Started
<1>4. Started'
  <2> HIDE DEF wm, b2
  <2>1. \A s \in Symbols : state'[s].watermark \in Nat
    BY <1>3 DEF Agreement, Started
  <2>2. \A s \in Symbols : state'[s].watermark > 0 => \E r \in rows' : r.trade.symbol = s
    BY <1>2, <1>3 DEF Agreement, Started
  <2> QED
    BY <1>3, <2>1, <2>2 DEF Agreement, Started
<1>5. ASSUME NEW s \in Symbols, \A q \in rows' : q.trade.symbol = s
      PROVE  /\ pyRows' = rows'
             /\ buf' = state'[s].buf
             /\ watermark' = state'[s].watermark
  <2>1. s = t.symbol
    BY <1>2, <1>5
  <2>2. pyRows = rows /\ buf = st.buf /\ watermark = st.watermark
    BY <1>2, <1>5, <2>1 DEF Agreement, AgreeOnOneSymbol
  <2>3. Py!Emit(t)
    BY <1>1, <2>2, SameOperators DEF Py!Turn, Py!Skip, Py!TooLate
  <2>4. /\ watermark' = Py!MaxOf(watermark, t.ts)
        /\ pyRows' = pyRows \cup {Py!NewRow(Append(buf, t), t)}
        /\ buf' = Py!Prune(Append(buf, t), watermark' - Window15m)
    BY <2>3 DEF Py!Emit
  <2>5. watermark' = wm
    BY <2>2, <2>4, SameOperators
  <2>6. pyRows' = rows'
    BY <1>2, <2>2, <2>4, SameOperators
  <2>7. buf' = b2
    BY <2>2, <2>4, <2>5, SameOperators
  <2> QED
    BY <1>3, <2>1, <2>5, <2>6, <2>7
<1>6. AgreeOnOneSymbol'
  BY <1>5 DEF AgreeOnOneSymbol
<1> QED
  BY <1>4, <1>6 DEF Agreement

LEMMA AgreementNext == Agreement /\ [BothNext]_bothVars => Agreement'
<1> SUFFICES ASSUME Agreement, [BothNext]_bothVars
             PROVE  Agreement'
  OBVIOUS
<1>1. CASE \E t \in Arrivals : Both(t)
  BY <1>1, AgreementDrop, AgreementEmit DEF Both, Push
<1>2. CASE UNCHANGED bothVars
  BY <1>2 DEF bothVars, Agreement, Started, AgreeOnOneSymbol
<1> QED
  BY <1>1, <1>2 DEF BothNext, BothEnded

(* On any input of one symbol the Python and the Rust stream emit the same  *)
(* rows from the same deque and watermark (features.py:52-88,               *)
(* streaming.rs:25-62).                                                     *)
THEOREM Conformance == BothSpec => []AgreeOnOneSymbol
<1>1. BothInit => Agreement
  BY AgreementInit
<1>2. Agreement /\ [BothNext]_bothVars => Agreement'
  BY AgreementNext
<1>3. Agreement => AgreeOnOneSymbol
  BY DEF Agreement
<1> QED
  BY <1>1, <1>2, <1>3, PTL DEF BothSpec

------------------------------------------------------------------------------
(* Any input.                                                               *)

PyAccepted == {q.trade : q \in pyRows}

RowType == [trade : TradeType, w1m : SUBSET TradeType,
            w5m : SUBSET TradeType, w15m : SUBSET TradeType]

(* The Python stream keeps the invariant of one deque for all symbols.      *)
PyInv ==
  /\ watermark \in Nat /\ buf \in Seq(TradeType) /\ pyRows \subseteq RowType
  /\ \A p \in pyRows : p.trade.id <= arrived
  /\ DequeInv(buf, watermark, PyAccepted)
  /\ PyWindowsComplete

(* What p saw is B.                                                         *)
PyRowComplete(p, B) ==
  /\ p.w1m = {t \in B : t.ts >= p.trade.ts - Window1m}
  /\ p.w5m = {t \in B : t.ts >= p.trade.ts - Window5m}
  /\ p.w15m \subseteq {t \in B : t.ts >= p.trade.ts - Window15m}
  /\ \A t \in B \ p.w15m :
       \/ t.ts < p.trade.ts - Window15m
       \/ \E u \in B : t.ts < u.ts - Window15m

LEMMA PyTurns ==
  ASSUME NEW t, Py!Turn(t)
  PROVE  \/ /\ IsLate(watermark, t)
            /\ watermark' = watermark /\ buf' = buf /\ pyRows' = pyRows
         \/ /\ ~IsLate(watermark, t)
            /\ watermark' = MaxOf(watermark, t.ts)
            /\ pyRows' = pyRows \cup {NewRow(Append(buf, t), t)}
            /\ buf' = Prune(Append(buf, t), MaxOf(watermark, t.ts) - Window15m)
BY SameOperators DEF Py!Turn, Py!Skip, Py!Emit, Py!TooLate, Py!vars

LEMMA PyInvInit == BothInit => PyInv
<1> SUFFICES ASSUME BothInit PROVE PyInv
  OBVIOUS
<1>1. watermark = 0 /\ buf = <<>> /\ pyRows = {}
  BY DEF BothInit, Py!Init
<1>2. Elements(<<>>) = {} /\ <<>> \in Seq(TradeType) /\ Len(<<>>) = 0
  BY EmptySeq DEF Elements
<1>3. DequeInv(buf, watermark, PyAccepted)
  BY <1>1, <1>2 DEF DequeInv, PyAccepted
<1> QED
  BY <1>1, <1>2, <1>3 DEF PyInv, PyWindowsComplete

(* A trade in time, for the stream of Python alone.                         *)
LEMMA PyInvEmit ==
  ASSUME PyInv, arrived \in Nat, NEW t \in Arrivals, arrived' = arrived + 1,
         ~IsLate(watermark, t), watermark' = MaxOf(watermark, t.ts),
         NEW x, x = NewRow(Append(buf, t), t), pyRows' = pyRows \cup {x},
         buf' = Prune(Append(buf, t), MaxOf(watermark, t.ts) - Window15m)
  PROVE  PyInv' /\ RowOf(x, t, PyAccepted \cup {t})
<1>1. t \in TradeType /\ t.id = arrived + 1
  BY DEF Arrivals, TradeType
<1>2. PyAccepted \in SUBSET TradeType /\ \A u \in PyAccepted : u.id <= arrived /\ u.id \in Nat
  BY DEF PyInv, PyAccepted, RowType, TradeType
<1>3. watermark' \in Nat /\ buf' \in Seq(TradeType)
      /\ DequeInv(buf', watermark', PyAccepted \cup {t})
  BY <1>1, <1>2, DequePrune DEF PyInv
<1>4. RowOf(x, t, PyAccepted \cup {t})
  BY <1>1, <1>2, RowComplete DEF PyInv
<1>5. PyAccepted' = PyAccepted \cup {t}
  BY <1>4 DEF PyAccepted, RowOf
<1>6. pyRows' \subseteq RowType /\ \A p \in pyRows' : p.trade.id <= arrived'
  BY <1>1, <1>2, <1>4 DEF PyInv, RowType, RowOf, PyAccepted
<1>7. PySeen(x)' = PyAccepted \cup {t}
  <2>1. \A u \in PyAccepted \cup {t} : u.id <= t.id
    BY <1>1, <1>2
  <2>2. PySeen(x)' = {u \in PyAccepted' : u.id <= t.id}
    BY <1>4 DEF PySeen, RowOf, PyAccepted
  <2> QED
    BY <1>5, <2>1, <2>2
<1>8. \A p \in pyRows : PySeen(p)' = PySeen(p)
  <2> SUFFICES ASSUME NEW p \in pyRows PROVE PySeen(p)' = PySeen(p)
    OBVIOUS
  <2>1. p.trade.id <= arrived /\ p.trade.id \in Nat /\ ~(t.id <= p.trade.id)
    BY <1>1, <1>2 DEF PyAccepted
  <2>2. PySeen(p)' = {u \in PyAccepted \cup {t} : u.id <= p.trade.id}
    BY <1>5 DEF PySeen, PyAccepted
  <2>3. PySeen(p) = {u \in PyAccepted : u.id <= p.trade.id}
    BY DEF PySeen, PyAccepted
  <2> QED
    BY <2>1, <2>2, <2>3
<1>9. PyRowComplete(x, PySeen(x)')
  <2>1. /\ t.ts \in Nat /\ Window15m \in Nat
        /\ \A u \in PyAccepted \cup {t} : u.ts \in Nat
    BY <1>1, <1>2, StreamAssumption DEF TradeType
  <2>2. PyRowComplete(x, PyAccepted \cup {t})
    BY <1>4, <2>1 DEF RowOf, PyRowComplete
  <2> QED
    BY <1>7, <2>2
<1>10. \A p \in pyRows : PyRowComplete(p, PySeen(p)')
  BY <1>8 DEF PyInv, PyWindowsComplete, PyRowComplete
<1>11. \A p \in pyRows' : PyRowComplete(p, PySeen(p)')
  BY <1>9, <1>10
<1>12. PyWindowsComplete'
  BY <1>11 DEF PyWindowsComplete, PyRowComplete
<1>13. DequeInv(buf, watermark, PyAccepted)'
  BY <1>3, <1>5 DEF DequeInv, Elements
<1> QED
  BY <1>3, <1>4, <1>6, <1>12, <1>13 DEF PyInv

LEMMA PyInvSkip ==
  ASSUME PyInv, arrived \in Nat, arrived' \in {arrived, arrived + 1},
         watermark' = watermark, buf' = buf, pyRows' = pyRows
  PROVE  PyInv'
<1>1. \A p \in pyRows : p.trade.id <= arrived'
  BY DEF PyInv, RowType, TradeType
<1> QED
  BY <1>1 DEF PyInv, DequeInv, Elements, PyAccepted, PyWindowsComplete, PySeen

(* Python's clock is never behind that of a symbol, so that what Python     *)
(* takes Rust takes too.                                                    *)
BothInv ==
  /\ Inv
  /\ PyInv
  /\ \A s \in Symbols : state[s].watermark <= watermark
  /\ DifferencesExplained

LEMMA BothInvInit == BothInit => BothInv
<1> SUFFICES ASSUME BothInit PROVE BothInv
  OBVIOUS
<1>1. Inv /\ PyInv
  BY InvInit, PyInvInit DEF BothInit
<1>2. rows = {} /\ pyRows = {} /\ watermark = 0 /\ \A s \in Symbols : state[s].watermark = 0
  BY DEF BothInit, Init, Py!Init, Default
<1> QED
  BY <1>1, <1>2 DEF BothInv, DifferencesExplained

(* What Python has accepted of a symbol Rust has.                           *)
LEMMA PyAcceptedIsAccepted ==
  ASSUME BothInv, NEW u \in PyAccepted
  PROVE  u.symbol \in Symbols /\ u \in Accepted(u.symbol)
<1>1. PICK p \in pyRows : u = p.trade
  BY DEF PyAccepted
<1>2. PICK r \in rows : r.trade = u
  BY <1>1 DEF BothInv, DifferencesExplained
<1>3. u.symbol \in Symbols
  BY <1>1 DEF BothInv, PyInv, RowType, TradeType
<1> QED
  BY <1>2, <1>3 DEF Accepted

(* What the two rows of one trade have in common.                           *)
Covers(r, p) ==
  /\ r.trade = p.trade
  /\ Own(p, p.w1m) \subseteq r.w1m
  /\ Own(p, p.w5m) \subseteq r.w5m

OtherClock(r, q) ==
  /\ q.trade.id < r.trade.id
  /\ q.trade.symbol # r.trade.symbol
  /\ q.trade.ts > r.trade.ts + LateThreshold

LEMMA Differences ==
  DifferencesExplained <=>
    /\ \A p \in pyRows : \E r \in rows : Covers(r, p)
    /\ \A r \in rows : \/ \E p \in pyRows : p.trade = r.trade
                       \/ \E q \in pyRows : OtherClock(r, q)
BY DEF DifferencesExplained, Covers, OtherClock

(* A row of both, computed on the same trade.                               *)
LEMMA RowsCover ==
  ASSUME BothInv, NEW t \in Arrivals, NEW r, NEW p,
         RowOf(r, t, Accepted(t.symbol) \cup {t}), RowOf(p, t, PyAccepted \cup {t})
  PROVE  Covers(r, p)
<1>1. \A u \in PyAccepted : u.symbol = t.symbol => u \in Accepted(t.symbol)
  BY PyAcceptedIsAccepted
<1> QED
  BY <1>1 DEF RowOf, Covers, Own

(* A trade that Rust takes and Python drops is late by the clock of another *)
(* symbol.                                                                  *)
LEMMA LateByAnother ==
  ASSUME BothInv, NEW t \in Arrivals, IsLate(watermark, t),
         ~IsLate(state[t.symbol].watermark, t)
  PROVE  \E q \in pyRows : /\ q.trade.id < t.id
                           /\ q.trade.symbol # t.symbol
                           /\ q.trade.ts > t.ts + LateThreshold
<1>1. /\ t.ts \in Nat /\ t.symbol \in Symbols /\ watermark \in Nat /\ LateThreshold \in Nat
      /\ t.ts < watermark - LateThreshold /\ t.id = arrived + 1 /\ arrived \in Nat
  BY StreamAssumption, ComputeAssumption
  DEF Arrivals, IsLate, BothInv, PyInv, Inv, TypeOK
<1>2. PICK u \in PyAccepted : u.ts = watermark
  BY <1>1 DEF BothInv, PyInv, DequeInv
<1>3. PICK q \in pyRows : u = q.trade
  BY DEF PyAccepted
<1>4. q.trade.id < t.id
  BY <1>1, <1>3 DEF BothInv, PyInv, RowType, TradeType
<1>5. u.symbol # t.symbol
  <2> SUFFICES ASSUME u.symbol = t.symbol PROVE FALSE
    OBVIOUS
  <2>1. u \in Accepted(t.symbol)
    BY PyAcceptedIsAccepted
  <2>2. u.ts <= state[t.symbol].watermark /\ state[t.symbol].watermark \in Nat
    BY <1>1, <2>1 DEF BothInv, Inv, DequeInv, TypeOK
  <2> QED
    BY <1>1, <1>2, <2>2 DEF IsLate
<1> QED
  BY <1>1, <1>2, <1>3, <1>4, <1>5

LEMMA BothInvStep ==
  ASSUME BothInv, arrived < MaxEvents, NEW t \in Arrivals, Both(t)
  PROVE  BothInv'
<1>0. /\ Inv /\ PyInv /\ arrived \in Nat /\ arrived' = arrived + 1
      /\ t.symbol \in Symbols /\ t.ts \in Nat /\ watermark \in Nat
      /\ \A s \in Symbols : state[s].watermark \in Nat
      /\ DOMAIN state = Symbols
  BY ComputeAssumption DEF BothInv, Inv, TypeOK, PyInv, Both, Push, Arrivals
<1>1. Inv'
  BY <1>0, InvDropLate, InvEmit DEF BothInv, Both, Push
<1>2. CASE DropLate(t) /\ IsLate(watermark, t)
  <2>1. rows' = rows /\ pyRows' = pyRows /\ watermark' = watermark /\ buf' = buf
    BY <1>2, PyTurns DEF DropLate, Both
  <2>2. \A s \in Symbols : state'[s].watermark = state[s].watermark
    BY <1>0, <1>2 DEF DropLate
  <2>3. PyInv'
    BY <1>0, <2>1, PyInvSkip
  <2>4. DifferencesExplained'
    BY <2>1 DEF BothInv, DifferencesExplained, Own
  <2> QED
    BY <1>1, <2>1, <2>2, <2>3, <2>4 DEF BothInv
<1>3. CASE DropLate(t) /\ ~IsLate(watermark, t)
  BY <1>0, <1>3, StreamAssumption DEF DropLate, IsLate, BothInv
<1>4. CASE Emit(t)
  <2> DEFINE st == state[t.symbol]
             b == Append(st.buf, t)
             wm == MaxOf(st.watermark, t.ts)
  <2>1. PICK x : x = NewRow(b, t) /\ rows' = rows \cup {x}
    BY <1>4 DEF Emit
  <2>2. ~IsLate(st.watermark, t)
    BY <1>4 DEF Emit
  <2>3. RowOf(x, t, Accepted(t.symbol) \cup {t})
    <3>1. /\ t \in TradeType /\ st.buf \in Seq(TradeType) /\ st.watermark \in Nat
          /\ Accepted(t.symbol) \in SUBSET TradeType
          /\ DequeInv(st.buf, st.watermark, Accepted(t.symbol))
      <4>1. t \in TradeType
        BY <1>0 DEF Arrivals, TradeType
      <4>2. st \in [buf : Seq(TradeType), watermark : Nat, late_drops : Nat]
        BY <1>0 DEF Inv, TypeOK
      <4>3. /\ Accepted(t.symbol) \in SUBSET TradeType
            /\ DequeInv(st.buf, st.watermark, Accepted(t.symbol))
        BY <1>0, AcceptedType DEF Inv
      <4> QED
        BY <4>1, <4>2, <4>3
    <3> HIDE DEF st
    <3> QED
      BY <2>1, <2>2, <3>1, RowComplete
  <2>4. \A s \in Symbols : state'[s].watermark = IF s = t.symbol THEN wm ELSE state[s].watermark
    BY <1>0, <1>4 DEF Emit, Advance
  <2>5. CASE IsLate(watermark, t)
    <3>1. pyRows' = pyRows /\ watermark' = watermark /\ buf' = buf
      BY <2>5, PyTurns DEF Both
    <3>2. PyInv'
      BY <1>0, <3>1, PyInvSkip
    <3>3. \A s \in Symbols : state'[s].watermark <= watermark'
      BY <1>0, <2>4, <2>5, <3>1, StreamAssumption DEF BothInv, MaxOf, IsLate
    <3>4. \E q \in pyRows : OtherClock(x, q)
      BY <2>2, <2>3, <2>5, LateByAnother DEF OtherClock, RowOf
    <3>5. /\ \A p \in pyRows : \E r \in rows \cup {x} : Covers(r, p)
          /\ \A r \in rows \cup {x} : \/ \E p \in pyRows : p.trade = r.trade
                                      \/ \E q \in pyRows : OtherClock(r, q)
      BY <3>4, Differences DEF BothInv
    <3>6. DifferencesExplained'
      BY <2>1, <3>1, <3>5 DEF DifferencesExplained, Covers, OtherClock, Own
    <3> QED
      BY <1>1, <3>2, <3>3, <3>6 DEF BothInv
  <2>6. CASE ~IsLate(watermark, t)
    <3>1. PICK y : y = NewRow(Append(buf, t), t) /\ pyRows' = pyRows \cup {y}
      BY <2>6, PyTurns DEF Both
    <3>2. /\ watermark' = MaxOf(watermark, t.ts)
          /\ buf' = Prune(Append(buf, t), MaxOf(watermark, t.ts) - Window15m)
      BY <2>6, PyTurns DEF Both
    <3>3. PyInv' /\ RowOf(y, t, PyAccepted \cup {t})
      BY <1>0, <2>6, <3>1, <3>2, PyInvEmit
    <3>4. \A s \in Symbols : state'[s].watermark <= watermark'
      BY <1>0, <2>4, <3>2 DEF BothInv, MaxOf
    <3>5. Covers(x, y)
      BY <2>3, <3>3, RowsCover
    <3>6. /\ \A p \in pyRows \cup {y} : \E r \in rows \cup {x} : Covers(r, p)
          /\ \A r \in rows \cup {x} : \/ \E p \in pyRows \cup {y} : p.trade = r.trade
                                      \/ \E q \in pyRows \cup {y} : OtherClock(r, q)
      BY <3>5, Differences DEF BothInv, Covers
    <3>7. DifferencesExplained'
      BY <2>1, <3>1, <3>6 DEF DifferencesExplained, Covers, OtherClock, Own
    <3> QED
      BY <1>1, <3>3, <3>4, <3>7 DEF BothInv
  <2> QED
    BY <2>5, <2>6
<1> QED
  BY <1>2, <1>3, <1>4 DEF Both, Push

LEMMA BothInvNext == BothInv /\ [BothNext]_bothVars => BothInv'
<1> SUFFICES ASSUME BothInv, [BothNext]_bothVars PROVE BothInv'
  OBVIOUS
<1>1. CASE arrived < MaxEvents /\ \E t \in Arrivals : Both(t)
  BY <1>1, BothInvStep
<1>2. CASE UNCHANGED bothVars
  <2>1. Inv'
    BY <1>2, InvNext DEF bothVars, vars, BothInv
  <2>2. PyInv'
    BY <1>2, PyInvSkip, ComputeAssumption DEF bothVars, BothInv, Inv, TypeOK
  <2> QED
    BY <1>2, <2>1, <2>2 DEF bothVars, BothInv, DifferencesExplained, Own
<1> QED
  BY <1>1, <1>2 DEF BothNext, BothEnded

(* The invariant of both streams, on any input.                             *)
LEMMA BothInvariance == BothSpec => []BothInv
BY BothInvInit, BothInvNext, PTL DEF BothSpec

(* The windows of the Python stream are those of all the trades it has      *)
(* accepted, whatever their symbol (features.py:64-69).                     *)
THEOREM PyWindowsCorrect == BothSpec => []PyWindowsComplete
<1>1. BothInv => PyWindowsComplete
  BY DEF BothInv, PyInv
<1> QED
  BY <1>1, BothInvariance, PTL

(* Rust has every row of Python, with at least its trades of the symbol,    *)
(* and any other row of Rust is of a trade that is late by the clock of     *)
(* another symbol (features.py:54-60, streaming.rs:26-28).                  *)
THEOREM DifferencesCorrect == BothSpec => []DifferencesExplained
<1>1. BothInv => DifferencesExplained
  BY DEF BothInv
<1> QED
  BY <1>1, BothInvariance, PTL

(* The Rust stream keeps its promises beside the other.                     *)
THEOREM BesideInvariance == BothSpec => []Inv
<1>1. BothInv => Inv
  BY DEF BothInv
<1> QED
  BY <1>1, BothInvariance, PTL
==============================================================================
