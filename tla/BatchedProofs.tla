---------------------------- MODULE BatchedProofs ----------------------------
(***************************************************************************)
(* Theorems about Batched, for every batch size, queue bound and number of *)
(* trades, and for a client that may leave at any time.                    *)
(***************************************************************************)
EXTENDS Batched, BatchChainProofs, SequenceTheorems, TLAPS

------------------------------------------------------------------------------
(* The shared parts of the handlers.                                        *)

(* A queue that the producer may still write: whole batches, no sentinel.   *)
Batches(q) == Fits(q) /\ \A i \in 1..Len(q) : q[i] # Sentinel /\ Len(q[i]) <= MaxSize

QueueInv ==
  /\ Fits(queue)
  /\ \A i \in 1..Len(queue) :
       /\ Len(queue[i]) <= MaxSize
       /\ queue[i] = Sentinel => i = Len(queue) /\ ppc = "done"

LEMMA PutFits ==
  ASSUME NEW S, NEW q \in Seq(S), NEW b \in S, ~Full(q)
  PROVE  Fits(Append(q, b))
<1>1. Len(Append(q, b)) = Len(q) + 1 /\ Len(q) \in Nat
  OBVIOUS
<1> QED
  BY <1>1, MaxSizeAssumption, BatchedAssumption DEF Fits, Full

LEMMA FinishStep ==
  ASSUME NEW rcv \in Seq(Nat), NEW q \in Seq(Seq(Nat)), NEW b \in Seq(Nat), NEW n \in Nat,
         Chain(rcv, q, b, n), Batches(q), Finish(q)
  PROVE  /\ queue' \in Seq(Seq(Nat)) /\ ppc' \in {"sentinel", "done"}
         /\ Chain(rcv, queue', b, n)
         /\ QueueInv'
<1>1. CASE Full(q)
  <2>1. queue' = q /\ ppc' = "sentinel"
    BY <1>1 DEF Finish
  <2>2. QueueInv'
    BY <2>1 DEF QueueInv, Batches, Fits
  <2> QED
    BY <2>1, <2>2
<1>2. CASE ~Full(q)
  <2>1. queue' = Append(q, <<>>) /\ ppc' = "done"
    BY <1>2 DEF Finish, Sentinel
  <2>2. queue' \in Seq(Seq(Nat))
    BY <2>1
  <2>3. Chain(rcv, queue', b, n)
    BY <2>1, ChainSentinel
  <2>4. QueueInv'
    <3> SUFFICES ASSUME NEW i \in 1..Len(queue')
                 PROVE  /\ Len(queue'[i]) <= MaxSize
                        /\ queue'[i] = Sentinel => i = Len(queue')
      <4>1. Fits(queue')
        BY <1>2, <2>1, PutFits, EmptySeq
      <4> QED
        BY <2>1, <4>1 DEF QueueInv, Sentinel, Fits
    <3>1. Len(queue') = Len(q) + 1 /\ Len(q) \in Nat
      BY <2>1
    <3>2. CASE i = Len(q) + 1
      BY <2>1, <3>1, <3>2, MaxSizeAssumption, BatchedAssumption
    <3>3. CASE i # Len(q) + 1
      <4>1. i \in 1..Len(q) /\ queue'[i] = q[i]
        BY <2>1, <3>1, <3>3
      <4> QED
        BY <4>1 DEF Batches
    <3> QED
      BY <3>2, <3>3
  <2> QED
    BY <2>1, <2>2, <2>3, <2>4
<1> QED
  BY <1>1, <1>2

LEMMA PutBatches ==
  ASSUME NEW q \in Seq(Seq(Nat)), NEW b \in Seq(Nat), Batches(q), b # <<>>, Len(b) <= MaxSize,
         ~Full(q)
  PROVE  Append(q, b) \in Seq(Seq(Nat)) /\ Batches(Append(q, b))
<1>1. Len(Append(q, b)) = Len(q) + 1 /\ Len(q) \in Nat
  OBVIOUS
<1>2. ASSUME NEW i \in 1..Len(q) + 1
      PROVE  Append(q, b)[i] # <<>> /\ Len(Append(q, b)[i]) <= MaxSize
  <2>1. CASE i = Len(q) + 1
    BY <2>1
  <2>2. CASE i # Len(q) + 1
    <3>1. i \in 1..Len(q) /\ Append(q, b)[i] = q[i]
      BY <2>2
    <3> QED
      BY <3>1 DEF Batches, Sentinel
  <2> QED
    BY <2>1, <2>2
<1>3. Fits(Append(q, b))
  BY PutFits
<1> QED
  BY <1>1, <1>2, <1>3 DEF Batches, Sentinel

LEMMA FlushStep ==
  ASSUME TypeOK, NEW b \in Seq(Nat), NEW n \in Nat, NEW d \in {"none", "armed", "expired"},
         Chain(received, queue, b, n), Batches(queue),
         b # <<>>, Len(b) <= MaxSize, Flush(b, d)
  PROVE  /\ queue' \in Seq(Seq(Nat)) /\ buf' \in Seq(Nat)
         /\ deadline' \in {"none", "armed", "expired"}
         /\ Chain(received, queue', buf', n)
         /\ Batches(queue') /\ Len(buf') <= MaxSize
         /\ \/ ppc' = "flushing" /\ buf' # <<>>
            \/ ppc' = "reading" /\ buf' = <<>>
<1> USE DEF TypeOK
<1>1. CASE Full(queue)
  BY <1>1 DEF Flush, Batches, Fits
<1>2. CASE ~Full(queue)
  <2>1. queue' = Append(queue, b) /\ buf' = <<>> /\ ppc' = "reading" /\ deadline' = "none"
    BY <1>2 DEF Flush
  <2>2. Batches(queue') /\ queue' \in Seq(Seq(Nat))
    BY <1>2, <2>1, PutBatches
  <2>3. Chain(received, queue', buf', n)
    BY <2>1, ChainPut
  <2> QED
    BY <2>1, <2>2, <2>3, MaxSizeAssumption, BatchedAssumption
<1> QED
  BY <1>1, <1>2

LEMMA FinalFlushStep ==
  ASSUME TypeOK, Contiguous, Batches(queue), Len(buf) <= MaxSize, FinalFlush
  PROVE  /\ queue' \in Seq(Seq(Nat)) /\ buf' \in Seq(Nat)
         /\ deadline' \in {"none", "armed", "expired"}
         /\ Chain(received, queue', buf', produced)
         /\ QueueInv' /\ Len(buf') <= MaxSize
         /\ \/ ppc' = "finalflush" /\ buf' # <<>>
            \/ ppc' \in {"sentinel", "done"} /\ buf' = <<>>
<1> USE DEF TypeOK
<1>1. CASE buf # <<>> /\ Full(queue)
  BY <1>1 DEF FinalFlush, Contiguous, QueueInv, Batches, Fits
<1>2. CASE buf = <<>>
  <2>1. buf' = <<>> /\ deadline' = "none" /\ Finish(queue)
    BY <1>2 DEF FinalFlush
  <2>2. Chain(received, queue, <<>>, produced) /\ produced \in Nat
    BY <1>2, MaxSizeAssumption, BatchedAssumption DEF Contiguous
  <2>3. /\ queue' \in Seq(Seq(Nat)) /\ ppc' \in {"sentinel", "done"}
        /\ Chain(received, queue', <<>>, produced)
        /\ QueueInv'
    <3> HIDE DEF TypeOK
    <3>1. received \in Seq(Nat) /\ queue \in Seq(Seq(Nat)) /\ <<>> \in Seq(Nat)
      BY DEF TypeOK
    <3> QED
      BY <2>1, <2>2, <3>1, FinishStep
  <2> QED
    BY <2>1, <2>3, MaxSizeAssumption, BatchedAssumption
<1>3. CASE buf # <<>> /\ ~Full(queue)
  <2>1. buf' = <<>> /\ deadline' = "none" /\ Finish(Append(queue, buf))
    BY <1>3 DEF FinalFlush
  <2>2. Chain(received, Append(queue, buf), <<>>, produced) /\ produced \in Nat
    BY ChainPut, MaxSizeAssumption, BatchedAssumption DEF Contiguous
  <2>3. Append(queue, buf) \in Seq(Seq(Nat)) /\ Batches(Append(queue, buf))
    BY <1>3, PutBatches
  <2>4. /\ queue' \in Seq(Seq(Nat)) /\ ppc' \in {"sentinel", "done"}
        /\ Chain(received, queue', <<>>, produced)
        /\ QueueInv'
    <3> HIDE DEF TypeOK
    <3>1. received \in Seq(Nat) /\ <<>> \in Seq(Nat)
      BY DEF TypeOK
    <3> QED
      BY <2>1, <2>2, <2>3, <3>1, FinishStep
  <2> QED
    BY <2>1, <2>4, MaxSizeAssumption, BatchedAssumption
<1> QED
  BY <1>1, <1>2, <1>3

LEMMA PopStep ==
  ASSUME TypeOK, Contiguous, QueueInv, Pop, UNCHANGED producerVars
  PROVE  /\ queue' \in Seq(Seq(Nat)) /\ received' \in Seq(Nat)
         /\ Contiguous' /\ QueueInv'
         /\ \/ /\ cpc' = "joining" /\ ppc = "done" /\ queue' = <<>>
               /\ cancelReq' = FALSE
            \/ cpc' = "yielded" /\ UNCHANGED cancelReq
<1> USE DEF TypeOK
<1>1. queue # <<>> /\ queue' = Tail(queue) /\ queue' \in Seq(Seq(Nat))
  BY DEF Pop
<1>2. Head(queue) \in Seq(Nat) /\ Head(queue) = queue[1] /\ 1 \in 1..Len(queue)
  BY <1>1
<1>3. received' = received \o Head(queue) /\ received' \in Seq(Nat)
  <2>1. CASE Head(queue) = Sentinel
    <3>1. received' = received /\ Head(queue) = <<>>
      BY <2>1 DEF Pop, Sentinel
    <3>2. received \o <<>> = received
      BY ConcatEmptySeq
    <3> QED
      BY <3>1, <3>2
  <2>2. CASE Head(queue) # Sentinel
    <3>1. received' = received \o Head(queue)
      BY <2>2 DEF Pop
    <3>2. received \o Head(queue) \in Seq(Nat)
      BY <1>2, ConcatProperties
    <3> QED
      BY <3>1, <3>2
  <2> QED
    BY <2>1, <2>2
<1>4. Contiguous'
  BY <1>1, <1>3, ChainGet DEF Contiguous, producerVars
<1>5. QueueInv'
  <2> SUFFICES ASSUME NEW i \in 1..Len(queue')
               PROVE  /\ Len(queue'[i]) <= MaxSize
                      /\ queue'[i] = Sentinel => i = Len(queue') /\ ppc = "done"
    <3>1. Fits(queue')
      BY <1>1, MaxSizeAssumption, BatchedAssumption DEF QueueInv, Fits
    <3> QED
      BY <3>1 DEF QueueInv, producerVars, Fits
  <2>1. Len(queue') = Len(queue) - 1 /\ i + 1 \in 1..Len(queue) /\ queue'[i] = queue[i + 1]
    BY <1>1
  <2> QED
    BY <2>1 DEF QueueInv
<1>6. CASE Head(queue) = Sentinel
  <2>1. ppc = "done" /\ 1 = Len(queue)
    BY <1>2, <1>6 DEF QueueInv
  <2>2. cpc' = "joining" /\ cancelReq' = FALSE
    BY <1>6, <2>1 DEF Pop
  <2>3. queue' = <<>>
    <3>1. Len(queue') = 0
      BY <1>1, <2>1
    <3> QED
      BY <1>1, <3>1, EmptySeq
  <2> QED
    BY <1>1, <1>3, <1>4, <1>5, <2>1, <2>2, <2>3
<1>7. CASE Head(queue) # Sentinel
  <2>1. cpc' = "yielded" /\ UNCHANGED cancelReq
    BY <1>7 DEF Pop
  <2> QED
    BY <1>1, <1>3, <1>4, <1>5, <2>1
<1> QED
  BY <1>6, <1>7
------------------------------------------------------------------------------
(* The inductive invariant.                                                 *)

LEMMA InvQueue ==
  ASSUME Inv
  PROVE  QueueInv /\ (ppc # "done" => Batches(queue))
BY DEF Inv, Bounded, SentinelIsLast, QueueInv, Batches, Fits

LEMMA InvInit == Init => Inv
<1> SUFFICES ASSUME Init PROVE Inv
  OBVIOUS
<1> USE DEF Init
<1>1. TypeOK
  <2>1. buf \in Seq(Nat) /\ received \in Seq(Nat) /\ queue \in Seq(Seq(Nat))
    BY EmptySeq
  <2>2. produced \in 0..MaxTrades
    BY MaxSizeAssumption, BatchedAssumption
  <2> QED
    BY <2>1, <2>2 DEF TypeOK
<1>2. Contiguous
  <2> DEFINE f == [i \in 1..1 |-> 0]
  <2>1. f \in [1..Len(queue) + 1 -> 0..produced] /\ f[1] = 0 /\ Len(queue) = 0
    OBVIOUS
  <2>2. Cuts(f, queue)
    <3>1. 0 <= 0 + (0 + 1 - 1) * MaxSize
      BY MaxSizeAssumption, BatchedAssumption
    <3> QED
      BY <2>1, <3>1 DEF Cuts
  <2> HIDE DEF f
  <2> QED
    BY <2>1, <2>2 DEF Contiguous, Chain
<1>3. Bounded /\ ProducerInv /\ ClientInv /\ SentinelIsLast
  BY MaxSizeAssumption, BatchedAssumption DEF Bounded, ProducerInv, ClientInv, SentinelIsLast, Fits
<1> QED
  BY <1>1, <1>2, <1>3 DEF Inv

LEMMA InvReceive ==
  ASSUME Inv, Receive
  PROVE  Inv'
<1> DEFINE b == Append(buf, produced + 1)
<1>1. /\ TypeOK /\ Contiguous /\ ppc = "reading" /\ ~cancelReq /\ exit = "none"
      /\ cpc \notin {"joining", "exhausted", "raised"}
      /\ produced' = produced + 1 /\ produced' \in 0..MaxTrades
      /\ UNCHANGED <<exit, cancelReq, cpc, received>>
  BY MaxSizeAssumption, BatchedAssumption DEF Inv, Receive, TypeOK, ProducerInv, ClientInv
<1>2. /\ b \in Seq(Nat) /\ b # <<>> /\ Len(b) <= MaxSize
      /\ produced \in Nat /\ produced + 1 \in Nat
      /\ received \in Seq(Nat) /\ queue \in Seq(Seq(Nat))
  <2>1. buf \in Seq(Nat) /\ produced \in Nat /\ Len(buf) \in Nat /\ Len(buf) < MaxSize
    BY <1>1, MaxSizeAssumption, BatchedAssumption DEF Inv, TypeOK, Bounded
  <2>2. b \in Seq(Nat) /\ b # <<>> /\ Len(b) = Len(buf) + 1
    BY <2>1
  <2>3. Len(b) <= MaxSize
    BY <2>1, <2>2, MaxSizeAssumption, BatchedAssumption
  <2> QED
    BY <2>1, <2>2, <2>3, <1>1 DEF TypeOK
<1>3. Batches(queue)
  BY <1>1, InvQueue
<1>4. Chain(received, queue, b, produced + 1)
  BY <1>1, <1>2, ChainReceive DEF Contiguous, TypeOK
<1>5. PICK d \in Deadlines :
         IF Len(b) >= MaxSize \/ d = "expired"
         THEN Flush(b, d)
         ELSE buf' = b /\ deadline' = d /\ UNCHANGED <<ppc, queue>>
  BY DEF Receive
<1>6. d \in {"none", "armed", "expired"}
  BY DEF Deadlines, Inv, TypeOK
<1>7. /\ queue' \in Seq(Seq(Nat)) /\ buf' \in Seq(Nat)
      /\ deadline' \in {"none", "armed", "expired"}
      /\ Chain(received, queue', buf', produced + 1)
      /\ Batches(queue') /\ Len(buf') <= MaxSize
      /\ \/ ppc' = "flushing" /\ buf' # <<>>
         \/ ppc' = "reading" /\ Len(buf') < MaxSize
  <2>1. CASE Len(b) >= MaxSize \/ d = "expired"
    <3>1. Flush(b, d)
      BY <2>1, <1>5
    <3>2. /\ queue' \in Seq(Seq(Nat)) /\ buf' \in Seq(Nat)
          /\ deadline' \in {"none", "armed", "expired"}
          /\ Chain(received, queue', buf', produced + 1)
          /\ Batches(queue') /\ Len(buf') <= MaxSize
          /\ \/ ppc' = "flushing" /\ buf' # <<>>
             \/ ppc' = "reading" /\ buf' = <<>>
      <4> HIDE DEF b
      <4> QED
        BY <3>1, <1>1, <1>2, <1>3, <1>4, <1>6, FlushStep
    <3> QED
      BY <3>2, MaxSizeAssumption, BatchedAssumption
  <2>2. CASE ~(Len(b) >= MaxSize \/ d = "expired")
    <3>1. buf' = b /\ deadline' = d /\ ppc' = "reading" /\ queue' = queue
      BY <2>2, <1>1, <1>5
    <3>2. Len(b) \in Nat /\ Len(b) < MaxSize
      BY <2>2, <1>2, MaxSizeAssumption, BatchedAssumption
    <3> QED
      BY <3>1, <3>2, <1>2, <1>3, <1>4, <1>6
  <2> QED
    BY <2>1, <2>2
<1> HIDE DEF b
<1>8. TypeOK' /\ Contiguous'
  BY <1>1, <1>7 DEF TypeOK, Contiguous
<1>9. Bounded' /\ ProducerInv' /\ ClientInv' /\ SentinelIsLast'
  BY <1>1, <1>7 DEF Inv, Bounded, ProducerInv, ClientInv, SentinelIsLast, Batches, Fits
<1> QED
  BY <1>8, <1>9 DEF Inv

LEMMA InvSourceEnd ==
  ASSUME Inv, SourceEnd
  PROVE  Inv'
<1>1. /\ TypeOK /\ Contiguous /\ Len(buf) <= MaxSize /\ ppc = "reading" /\ ~cancelReq
      /\ cpc \notin {"joining", "exhausted", "raised"}
      /\ exit' = "end" /\ FinalFlush /\ UNCHANGED <<produced, cancelReq, cpc, received>>
  BY DEF Inv, SourceEnd, Bounded, ClientInv
<1>2. Batches(queue)
  BY <1>1, InvQueue
<1>3. /\ queue' \in Seq(Seq(Nat)) /\ buf' \in Seq(Nat)
      /\ deadline' \in {"none", "armed", "expired"}
      /\ Chain(received, queue', buf', produced)
      /\ QueueInv' /\ Len(buf') <= MaxSize
      /\ \/ ppc' = "finalflush" /\ buf' # <<>>
         \/ ppc' \in {"sentinel", "done"} /\ buf' = <<>>
  BY <1>1, <1>2, FinalFlushStep
<1>4. TypeOK' /\ Contiguous'
  BY <1>1, <1>3 DEF TypeOK, Contiguous
<1>5. Bounded' /\ ProducerInv' /\ ClientInv' /\ SentinelIsLast'
  BY <1>1, <1>3 DEF Inv, Bounded, ProducerInv, ClientInv, SentinelIsLast, QueueInv, Fits
<1> QED
  BY <1>4, <1>5 DEF Inv

(* The finally block, entered with the queue as it is.                      *)
LEMMA FinishQueue ==
  ASSUME Inv, ppc # "done", Finish(queue)
  PROVE  /\ queue' \in Seq(Seq(Nat)) /\ ppc' \in {"sentinel", "done"}
         /\ Chain(received, queue', buf, produced)
         /\ QueueInv'
<1>1. Chain(received, queue, buf, produced) /\ Batches(queue)
  BY InvQueue DEF Inv, Contiguous
<1>2. received \in Seq(Nat) /\ queue \in Seq(Seq(Nat)) /\ buf \in Seq(Nat) /\ produced \in Nat
  BY MaxSizeAssumption, BatchedAssumption DEF Inv, TypeOK
<1> QED
  BY <1>1, <1>2, FinishStep

LEMMA InvSourceRaise ==
  ASSUME Inv, SourceRaise
  PROVE  Inv'
<1>1. /\ ppc = "reading" /\ ~cancelReq /\ exit' = "error" /\ Finish(queue)
      /\ cpc \notin {"joining", "exhausted", "raised"}
      /\ UNCHANGED <<produced, buf, deadline, cancelReq, cpc, received>>
  BY DEF Inv, SourceRaise, ClientInv
<1>2. /\ queue' \in Seq(Seq(Nat)) /\ ppc' \in {"sentinel", "done"}
      /\ Chain(received, queue', buf, produced)
      /\ QueueInv'
  BY <1>1, FinishQueue
<1>3. TypeOK' /\ Contiguous'
  BY <1>1, <1>2 DEF Inv, TypeOK, Contiguous
<1>4. Bounded' /\ ProducerInv' /\ ClientInv' /\ SentinelIsLast'
  BY <1>1, <1>2 DEF Inv, Bounded, ProducerInv, ClientInv, SentinelIsLast, QueueInv, Fits
<1> QED
  BY <1>3, <1>4 DEF Inv

LEMMA InvResumePut ==
  ASSUME Inv, ResumePut
  PROVE  Inv'
<1>1. ~cancelReq /\ UNCHANGED <<produced, exit, cancelReq, cpc, received>>
  BY DEF ResumePut
<1>2. CASE ppc = "flushing" /\ Flush(buf, deadline)
  <2>1. /\ TypeOK /\ received \in Seq(Nat) /\ queue \in Seq(Seq(Nat)) /\ buf \in Seq(Nat)
        /\ produced \in Nat /\ deadline \in {"none", "armed", "expired"}
        /\ Chain(received, queue, buf, produced) /\ buf # <<>> /\ Len(buf) <= MaxSize
    BY <1>2, MaxSizeAssumption, BatchedAssumption DEF Inv, TypeOK, Contiguous, ProducerInv, Bounded
  <2>2. Batches(queue) /\ exit = "none" /\ cpc \notin {"joining", "exhausted", "raised"}
    BY <1>2, InvQueue DEF Inv, ProducerInv, ClientInv
  <2>3. /\ queue' \in Seq(Seq(Nat)) /\ buf' \in Seq(Nat)
        /\ deadline' \in {"none", "armed", "expired"}
        /\ Chain(received, queue', buf', produced)
        /\ Batches(queue') /\ Len(buf') <= MaxSize
        /\ \/ ppc' = "flushing" /\ buf' # <<>>
           \/ ppc' = "reading" /\ buf' = <<>>
    BY <1>2, <2>1, <2>2, FlushStep
  <2>4. TypeOK' /\ Contiguous'
    BY <1>1, <2>1, <2>3 DEF TypeOK, Contiguous
  <2>5. Bounded' /\ ProducerInv' /\ ClientInv' /\ SentinelIsLast'
    BY <1>1, <1>2, <2>2, <2>3, MaxSizeAssumption, BatchedAssumption
    DEF Inv, Bounded, ProducerInv, ClientInv, SentinelIsLast, Batches, Fits
  <2> QED
    BY <2>4, <2>5 DEF Inv
<1>3. CASE ppc = "finalflush" /\ FinalFlush
  <2>1. /\ TypeOK /\ Contiguous /\ Batches(queue) /\ Len(buf) <= MaxSize /\ exit = "end"
        /\ cpc \notin {"joining", "exhausted", "raised"}
    BY <1>3, InvQueue DEF Inv, ProducerInv, ClientInv, Bounded
  <2>2. /\ queue' \in Seq(Seq(Nat)) /\ buf' \in Seq(Nat)
        /\ deadline' \in {"none", "armed", "expired"}
        /\ Chain(received, queue', buf', produced)
        /\ QueueInv' /\ Len(buf') <= MaxSize
        /\ \/ ppc' = "finalflush" /\ buf' # <<>>
           \/ ppc' \in {"sentinel", "done"} /\ buf' = <<>>
    BY <1>3, <2>1, FinalFlushStep
  <2>3. TypeOK' /\ Contiguous'
    BY <1>1, <2>1, <2>2 DEF TypeOK, Contiguous
  <2>4. Bounded' /\ ProducerInv' /\ ClientInv' /\ SentinelIsLast'
    BY <1>1, <1>3, <2>1, <2>2
    DEF Inv, Bounded, ProducerInv, ClientInv, SentinelIsLast, QueueInv, Fits
  <2> QED
    BY <2>3, <2>4 DEF Inv
<1>4. CASE ppc = "sentinel" /\ Finish(queue) /\ UNCHANGED <<buf, deadline>>
  <2>1. /\ queue' \in Seq(Seq(Nat)) /\ ppc' \in {"sentinel", "done"}
        /\ Chain(received, queue', buf, produced)
        /\ QueueInv'
    BY <1>4, FinishQueue
  <2>2. TypeOK' /\ Contiguous'
    BY <1>1, <1>4, <2>1 DEF Inv, TypeOK, Contiguous
  <2>3. Bounded' /\ ProducerInv' /\ ClientInv' /\ SentinelIsLast'
    BY <1>1, <1>4, <2>1
    DEF Inv, Bounded, ProducerInv, ClientInv, SentinelIsLast, QueueInv, Fits
  <2> QED
    BY <2>2, <2>3 DEF Inv
<1> QED
  BY <1>2, <1>3, <1>4 DEF ResumePut

LEMMA InvCancelled ==
  ASSUME Inv, Cancelled
  PROVE  Inv'
<1>1. /\ cancelReq /\ cpc = "leaving" /\ ppc # "done" /\ cancelReq' = FALSE
      /\ exit' = "cancelled" /\ UNCHANGED <<produced, buf, deadline, cpc, received>>
  BY DEF Inv, Cancelled, ClientInv
<1>2. /\ queue' \in Seq(Seq(Nat)) /\ ppc' \in {"sentinel", "done"}
      /\ Chain(received, queue', buf, produced)
      /\ QueueInv'
  <2>1. CASE ppc \in {"new", "sentinel"}
    BY <1>1, <2>1, InvQueue DEF Cancelled, Inv, TypeOK, Contiguous, QueueInv, Batches
  <2>2. CASE ppc \notin {"new", "sentinel"}
    BY <1>1, <2>2, FinishQueue DEF Cancelled
  <2> QED
    BY <2>1, <2>2
<1>3. TypeOK' /\ Contiguous'
  BY <1>1, <1>2 DEF Inv, TypeOK, Contiguous
<1>4. Bounded' /\ ProducerInv' /\ ClientInv' /\ SentinelIsLast'
  BY <1>1, <1>2 DEF Inv, Bounded, ProducerInv, ClientInv, SentinelIsLast, QueueInv, Fits
<1> QED
  BY <1>3, <1>4 DEF Inv

(* output_q.get(), from either state of the client.                         *)
LEMMA InvPop ==
  ASSUME Inv, cpc \in {"getting", "yielded"}, Pop, UNCHANGED producerVars
  PROVE  Inv'
<1>1. TypeOK /\ Contiguous /\ QueueInv /\ ~cancelReq
  BY InvQueue DEF Inv, ClientInv
<1>2. /\ queue' \in Seq(Seq(Nat)) /\ received' \in Seq(Nat)
      /\ Contiguous' /\ QueueInv'
      /\ \/ /\ cpc' = "joining" /\ ppc = "done" /\ queue' = <<>>
            /\ cancelReq' = FALSE
         \/ cpc' = "yielded" /\ UNCHANGED cancelReq
  BY <1>1, PopStep
<1>3. TypeOK'
  BY <1>1, <1>2 DEF TypeOK, producerVars
<1>4. Bounded' /\ ProducerInv' /\ ClientInv' /\ SentinelIsLast'
  BY <1>1, <1>2
  DEF Inv, Bounded, ProducerInv, ClientInv, SentinelIsLast, QueueInv, Fits, producerVars
<1> QED
  BY <1>2, <1>3, <1>4 DEF Inv

(* The steps that move no trade.                                            *)
LEMMA InvControl ==
  ASSUME Inv,
         \/ Start \/ Expire \/ Leave \/ CancelAgain \/ Join \/ UNCHANGED vars
         \/ cpc = "yielded" /\ cpc' = "getting" /\ UNCHANGED <<producerVars, cancelReq, queue, received>>
  PROVE  Inv'
<1> USE DEF Start, Expire, Leave, CancelAgain, Join, vars, producerVars
<1>1. UNCHANGED <<produced, buf, queue, received>>
  OBVIOUS
<1>2. TypeOK'
  BY <1>1 DEF Inv, TypeOK
<1>3. Contiguous'
  BY <1>1 DEF Inv, Contiguous
<1>4. Bounded' /\ ProducerInv'
  BY <1>1 DEF Inv, Bounded, ProducerInv, Fits
<1>5. ClientInv'
  <2>1. CASE Start
    BY <2>1 DEF Inv, ClientInv, ProducerInv
  <2>2. CASE Expire \/ UNCHANGED vars
    BY <2>2 DEF Inv, ClientInv
  <2>3. CASE Leave
    BY <2>3 DEF Inv, ClientInv, ProducerInv
  <2>4. CASE CancelAgain
    BY <2>4 DEF Inv, ClientInv
  <2>5. CASE Join
    BY <2>5 DEF Inv, ClientInv, ProducerInv, SentinelIsLast, TypeOK
  <2>6. CASE cpc = "yielded" /\ cpc' = "getting" /\ UNCHANGED <<producerVars, cancelReq, queue, received>>
    BY <2>6 DEF Inv, ClientInv
  <2> QED
    BY <2>1, <2>2, <2>3, <2>4, <2>5, <2>6
<1>6. SentinelIsLast'
  BY <1>1 DEF Inv, SentinelIsLast, ClientInv
<1> QED
  BY <1>2, <1>3, <1>4, <1>5, <1>6 DEF Inv

LEMMA InvNext == Inv /\ [Next]_vars => Inv'
<1> SUFFICES ASSUME Inv, [Next]_vars
             PROVE  Inv'
  OBVIOUS
<1>1. CASE Receive
  BY <1>1, InvReceive
<1>2. CASE SourceEnd
  BY <1>2, InvSourceEnd
<1>3. CASE SourceRaise
  BY <1>3, InvSourceRaise
<1>4. CASE ResumePut
  BY <1>4, InvResumePut
<1>5. CASE Cancelled
  BY <1>5, InvCancelled
<1>6. CASE Get
  BY <1>6, InvPop DEF Get
<1>7. CASE AskNext
  <2>1. CASE queue = <<>>
    BY <1>7, <2>1, InvControl DEF AskNext
  <2>2. CASE queue # <<>>
    BY <1>7, <2>2, InvPop DEF AskNext
  <2> QED
    BY <2>1, <2>2
<1>8. CASE Start \/ Expire \/ Leave \/ CancelAgain \/ Join \/ UNCHANGED vars
  BY <1>8, InvControl
<1> QED
  BY <1>1, <1>2, <1>3, <1>4, <1>5, <1>6, <1>7, <1>8
  DEF Next, ProducerStep, SourceStep, ClientStep, Terminated

(* The inductive invariant holds of every behaviour of the generator and    *)
(* its producer task (ingest.py:66-115).                                    *)
THEOREM Invariance == Spec => []Inv
<1>1. Init => Inv
  BY InvInit
<1>2. Inv /\ [Next]_vars => Inv'
  BY InvNext
<1> QED
  BY <1>1, <1>2, PTL DEF Spec

------------------------------------------------------------------------------
(* What follows for the client.                                             *)

(* Every variable keeps its type.                                           *)
THEOREM TypeCorrect == Spec => []TypeOK
<1>1. Inv => TypeOK
  BY DEF Inv
<1> QED
  BY <1>1, Invariance, PTL

LEMMA InvDrained ==
  ASSUME Inv, queue = <<>>
  PROVE  Len(received) + Len(buf) = produced
<1>1. /\ Chain(received, queue, buf, produced)
      /\ received \in Seq(Nat) /\ queue \in Seq(Seq(Nat)) /\ buf \in Seq(Nat)
      /\ produced \in Nat
  BY BatchedAssumption DEF Inv, TypeOK, Contiguous
<1> QED
  BY <1>1, ChainDrained

LEMMA InvDelivery ==
  ASSUME Inv
  PROVE  Delivery
<1>1. \A i \in 1..Len(received) : received[i] = i
  BY DEF Inv, Contiguous, Chain
<1>2. ASSUME cpc = "exhausted"
      PROVE  Len(received) = produced
  <2>1. queue = <<>> /\ buf = <<>>
    BY <1>2 DEF Inv, ClientInv, ProducerInv
  <2> QED
    BY <2>1, InvDrained DEF Inv, TypeOK
<1>3. ASSUME cpc = "raised"
      PROVE  produced < Len(received) + MaxSize
  <2>1. queue = <<>> /\ Len(buf) < MaxSize
    BY <1>3 DEF Inv, ClientInv, Bounded
  <2>2. Len(received) \in Nat /\ Len(buf) \in Nat
    BY DEF Inv, TypeOK
  <2> QED
    BY <2>1, <2>2, InvDrained, MaxSizeAssumption, BatchedAssumption
<1> QED
  BY <1>1, <1>2, <1>3 DEF Delivery

(* The client receives the trades of the source in order and without a      *)
(* hole; all of them before a normal end, and all but less than one batch   *)
(* before an error (ingest.py:90-115).                                      *)
THEOREM DeliveryCorrect == Spec => []Delivery
<1>1. Inv => Delivery
  BY InvDelivery
<1> QED
  BY <1>1, Invariance, PTL

(* The sentinel closes the queue, and only a finished producer is joined    *)
(* (ingest.py:101, 107-113).                                                *)
THEOREM SentinelCorrect == Spec => []SentinelIsLast
<1>1. Inv => SentinelIsLast
  BY DEF Inv
<1> QED
  BY <1>1, Invariance, PTL

LEMMA InvInFlight ==
  ASSUME Inv
  PROVE  InFlightBounded
<1> SUFFICES ASSUME QueueMax > 0
             PROVE  produced <= Len(received) + (QueueMax + 1) * MaxSize
  BY DEF InFlightBounded
<1>1. /\ Chain(received, queue, buf, produced) /\ Len(queue) <= QueueMax /\ Len(buf) <= MaxSize
      /\ received \in Seq(Nat) /\ queue \in Seq(Seq(Nat)) /\ buf \in Seq(Nat)
  BY DEF Inv, TypeOK, Contiguous, Bounded, Fits
<1>2. produced \in Nat /\ QueueMax \in Nat
  BY BatchedAssumption DEF Inv, TypeOK
<1> QED
  BY <1>1, <1>2, ChainBound

(* Backpressure: a full queue and one blocked batch are the most that is    *)
(* read ahead of the client (ingest.py:73-77).                              *)
THEOREM InFlightCorrect == Spec => []InFlightBounded
<1>1. Inv => InFlightBounded
  BY InvInFlight
<1> QED
  BY <1>1, Invariance, PTL

(* Once the client has left no trade is read from the source                *)
(* (ingest.py:110-113).                                                     *)
THEOREM NoReadAfterLeaveCorrect == Spec => NoReadAfterLeave
<1> DEFINE Gone == cpc \in {"leaving", "abandoned", "closefailed"}
<1>1. Inv /\ [Next]_vars => [Gone => produced' = produced]_vars
  <2> SUFFICES ASSUME Inv, Next, Gone
               PROVE  produced' = produced
    OBVIOUS
  <2>1. ~Receive
    BY DEF Inv, ClientInv, Receive
  <2> QED
    BY <2>1
    DEF Next, ProducerStep, SourceStep, ClientStep, Start, ResumePut, Cancelled, SourceEnd,
        SourceRaise, Expire, Get, AskNext, Join, Leave, CancelAgain, Terminated,
        producerVars, vars
<1> QED
  BY <1>1, Invariance, PTL DEF Spec, NoReadAfterLeave

------------------------------------------------------------------------------
(* Who waits for whom.                                                      *)

LEMMA FinishEnds ==
  ASSUME NEW q \in Seq(Seq(Nat)), Finish(q), ppc' = "done"
  PROVE  Ended(queue')
BY EndedPut DEF Finish

LEMMA FinalFlushEnds ==
  ASSUME TypeOK, FinalFlush, ppc' = "done"
  PROVE  Ended(queue')
<1>1. queue \in Seq(Seq(Nat)) /\ buf \in Seq(Nat)
  BY DEF TypeOK
<1>2. CASE buf = <<>>
  BY <1>1, <1>2, FinishEnds DEF FinalFlush
<1>3. CASE buf # <<>>
  <2>1. Append(queue, buf) \in Seq(Seq(Nat))
    BY <1>1
  <2> QED
    BY <1>3, <2>1, FinishEnds DEF FinalFlush
<1> QED
  BY <1>2, <1>3

(* What a client finds of a task that has ended.                            *)
LeavesItsSentinel ==
  /\ ppc = "done" /\ cpc \in {"getting", "yielded"} => Ended(queue)
  /\ Closed => ppc = "done"

LEMMA LeavesNext ==
  ASSUME Inv, LeavesItsSentinel, [Next]_vars
  PROVE  LeavesItsSentinel'
<1>1. TypeOK /\ queue \in Seq(Seq(Nat))
  BY DEF Inv, TypeOK
<1>2. CASE Receive
  BY <1>2 DEF Receive, Flush, LeavesItsSentinel, Closed
<1>3. CASE SourceEnd
  BY <1>1, <1>3, FinalFlushEnds DEF SourceEnd, LeavesItsSentinel, Closed
<1>4. CASE SourceRaise
  BY <1>1, <1>4, FinishEnds DEF SourceRaise, LeavesItsSentinel, Closed
<1>5. CASE ResumePut
  BY <1>1, <1>5, FinalFlushEnds, FinishEnds DEF ResumePut, Flush, LeavesItsSentinel, Closed
<1>6. CASE Cancelled
  BY <1>6 DEF Cancelled, Inv, ClientInv, LeavesItsSentinel, Closed
<1>7. ASSUME cpc \in {"getting", "yielded"}, Pop, UNCHANGED producerVars
      PROVE  LeavesItsSentinel'
  <2>1. cpc' = "joining" \/ (cpc' = "yielded" /\ Head(queue) # Sentinel)
    BY <1>7 DEF Pop
  <2>2. ppc' = ppc /\ queue' = Tail(queue)
    BY <1>7 DEF Pop, producerVars
  <2> QED
    BY <1>1, <1>7, <2>1, <2>2, EndedGet DEF LeavesItsSentinel, Closed
<1>8. CASE Get
  BY <1>7, <1>8 DEF Get
<1>9. CASE AskNext
  BY <1>7, <1>9 DEF AskNext, LeavesItsSentinel, Closed, producerVars
<1>10. CASE Start \/ Expire \/ Leave \/ CancelAgain \/ Join \/ UNCHANGED vars
  BY <1>10 DEF Start, Expire, Leave, CancelAgain, Join, vars, LeavesItsSentinel, Closed
<1> QED
  BY <1>2, <1>3, <1>4, <1>5, <1>6, <1>8, <1>9, <1>10
  DEF Next, ProducerStep, SourceStep, ClientStep, Terminated

LEMMA InvWaits ==
  ASSUME Inv, LeavesItsSentinel
  PROVE  WaitsAreMet
<1>1. ~ (queue = <<>> /\ Full(queue))
  BY BatchedAssumption DEF Full
<1>2. ProducerBlocked => cpc \in {"getting", "yielded"} \/ Stuck
  BY DEF ProducerBlocked, Stuck, Inv, TypeOK, ClientInv, LeavesItsSentinel, Closed
<1>3. ClientBlocked /\ ProducerBlocked => Stuck
  BY <1>1, <1>2 DEF ClientBlocked, ProducerBlocked, Stuck
<1> QED
  BY <1>2, <1>3 DEF WaitsAreMet, LeavesItsSentinel

(* A wait of either side is for one who is still there, and they wait for   *)
(* each other only where the client has left a full queue behind: the one   *)
(* deadlock, for every queue size (ingest.py:90-115).                       *)
THEOREM WaitsAreMetCorrect == Spec => []WaitsAreMet
<1>1. Init => LeavesItsSentinel
  BY DEF Init, LeavesItsSentinel, Closed
<1>2. Inv /\ LeavesItsSentinel /\ [Next]_vars => LeavesItsSentinel'
  BY LeavesNext
<1>3. Inv /\ LeavesItsSentinel => WaitsAreMet
  BY InvWaits
<1> QED
  BY <1>1, <1>2, <1>3, Invariance, PTL DEF Spec

(* No step of the source, of the clock or of the producer ends it: only a   *)
(* client that is cancelled again while it awaits the task does.            *)
StuckStays == [][Stuck => Stuck' \/ CancelAgain]_vars

(* Closing the iteration on a full queue blocks both sides for good         *)
(* (ingest.py:101, 113).                                                    *)
THEOREM StuckStaysCorrect == Spec => StuckStays
<1>1. [Next]_vars => [Stuck => Stuck' \/ CancelAgain]_vars
  <2> SUFFICES ASSUME Next, Stuck, ~CancelAgain
               PROVE  UNCHANGED <<ppc, cancelReq, queue, cpc>>
    BY DEF Stuck, Full
  <2> QED
    BY DEF Stuck, Next, ProducerStep, SourceStep, ClientStep, Start, Receive, SourceEnd,
       SourceRaise, ResumePut, Cancelled, Expire, Get, AskNext, Join, Leave, Terminated, vars
<1> QED
  BY <1>1, PTL DEF Spec, StuckStays

------------------------------------------------------------------------------
(* The generator implements the promise of a batching stage.                *)

(* A batch that leaves the queue is what Deliver hands over.                *)
LEMMA PopDelivers ==
  ASSUME Inv, Pop, Head(queue) # Sentinel, UNCHANGED producerVars, status = "open", status' = "open"
  PROVE  Stream!Deliver
<1>1. /\ received \in Seq(Nat) /\ queue \in Seq(Seq(Nat)) /\ buf \in Seq(Nat) /\ produced \in Nat
      /\ Chain(received, queue, buf, produced) /\ queue # <<>>
      /\ received' = received \o Head(queue) /\ produced' = produced
  BY BatchedAssumption DEF Inv, TypeOK, Contiguous, Pop, producerVars
<1>2. Len(Head(queue)) <= MaxSize
  BY <1>1 DEF Inv, Bounded
<1>3. /\ Len(Head(queue)) \in 1..MaxSize
      /\ Len(Head(queue)) <= produced - Len(received)
      /\ Head(queue) = [i \in 1..Len(Head(queue)) |-> Len(received) + i]
  BY <1>1, <1>2, ChainHead
<1> DEFINE h == Head(queue)
<1>4. /\ Len(h) \in 1..MaxSize /\ Len(h) <= produced - Len(received)
      /\ h = [i \in 1..Len(h) |-> Len(received) + i] /\ received' = received \o h
  BY <1>1, <1>3
<1> HIDE DEF h
<1> QED
  BY <1>1, <1>4 DEF Stream!Deliver, Stream!Pending

LEMMA StepRefines ==
  ASSUME Inv, Inv', [Next]_vars
  PROVE  [Stream!Next]_(Stream!vars)
<1> USE DEF Stream!Next, Stream!vars
<1>1. CASE Receive
  <2>1. cpc \in {"getting", "yielded"}
    BY <1>1 DEF Inv, TypeOK, ClientInv, Receive
  <2> QED
    BY <1>1, <2>1 DEF Receive, Stream!Take, status
<1>2. CASE Start \/ SourceEnd \/ SourceRaise \/ ResumePut \/ Cancelled \/ Expire \/ CancelAgain \/ UNCHANGED vars
  BY <1>2 DEF Start, SourceEnd, SourceRaise, ResumePut, Cancelled, Expire, CancelAgain, vars, status
<1>3. CASE Leave
  BY <1>3 DEF Leave, status, Stream!Abandon
<1>4. CASE Join
  <2>1. CASE cpc = "leaving"
    BY <1>4, <2>1 DEF Join, status
  <2>2. CASE cpc = "joining" /\ exit = "error"
    <3>1. status = "open" /\ status' = "failed" /\ UNCHANGED <<produced, received>>
      BY <1>4, <2>2 DEF Join, status
    <3>2. produced - Len(received) < MaxSize
      <4>1. Len(received) + Len(buf) = produced /\ Len(buf) < MaxSize
        BY <2>2, InvDrained DEF Inv, ClientInv, Bounded
      <4>2. Len(received) \in Nat /\ Len(buf) \in Nat
        BY DEF Inv, TypeOK
      <4> QED
        BY <4>1, <4>2, MaxSizeAssumption, BatchedAssumption
    <3> QED
      BY <3>1, <3>2 DEF Stream!Fail, Stream!Pending
  <2>3. CASE cpc = "joining" /\ exit # "error"
    <3>1. status = "open" /\ status' = "complete" /\ UNCHANGED <<produced, received>>
      BY <1>4, <2>3 DEF Join, status
    <3>2. queue = <<>> /\ buf = <<>>
      BY <1>4, <2>3 DEF Inv, TypeOK, ClientInv, ProducerInv, Join
    <3>3. produced - Len(received) = 0
      BY <3>2, InvDrained DEF Inv, TypeOK
    <3> QED
      BY <3>1, <3>3 DEF Stream!Complete, Stream!Pending
  <2> QED
    BY <1>4, <2>1, <2>2, <2>3 DEF Join
<1>5. ASSUME cpc \in {"getting", "yielded"}, Pop, UNCHANGED producerVars
      PROVE  [Stream!Next]_(Stream!vars)
  <2>1. CASE Head(queue) = Sentinel
    BY <1>5, <2>1 DEF Pop, status, producerVars
  <2>2. CASE Head(queue) # Sentinel
    <3>1. status = "open" /\ status' = "open"
      BY <1>5, <2>2 DEF Pop, status
    <3> QED
      BY <1>5, <2>2, <3>1, PopDelivers
  <2> QED
    BY <2>1, <2>2
<1>6. CASE Get
  BY <1>5, <1>6 DEF Get
<1>7. CASE AskNext
  BY <1>5, <1>7 DEF AskNext, status, producerVars
<1> QED
  BY <1>1, <1>2, <1>3, <1>4, <1>6, <1>7
  DEF Next, ProducerStep, SourceStep, ClientStep, Terminated

(* Spec implements BatchStream, for every value of the constants            *)
(* (ingest.py:66-115).                                                      *)
THEOREM Refinement == Spec => ImplementsBatchStream
<1>1. Init => Stream!Init
  BY DEF Init, Stream!Init, status
<1>2. Inv /\ Inv' /\ [Next]_vars => [Stream!Next]_(Stream!vars)
  BY StepRefines
<1> QED
  BY <1>1, <1>2, Invariance, PTL DEF Spec, ImplementsBatchStream, Stream!Spec
==============================================================================
