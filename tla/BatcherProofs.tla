---------------------------- MODULE BatcherProofs ----------------------------
(***************************************************************************)
(* Theorems about Batcher, for every batch size, channel capacity and      *)
(* number of trades, and for a receiver that may be dropped at any time.   *)
(***************************************************************************)
EXTENDS Batcher, BatchChainProofs, TLAPS

------------------------------------------------------------------------------
(* The shared parts of the task.                                            *)

(* The state a send leaves behind, for a task that has read n trades.       *)
Sent(n) ==
  /\ queue' \in Seq(Seq(Nat)) /\ buf' \in Seq(Nat)
  /\ ~Dropped => Chain(received, queue', buf', n)
  /\ Len(buf') <= MaxSize /\ Len(queue') <= QueueMax

LEMMA InvOpen ==
  ASSUME Inv, ppc # "done"
  PROVE  Closes(queue, FALSE)
BY DEF Inv, ChannelInv, Closes

LEMMA SendStep ==
  ASSUME Inv, NEW b \in Seq(Nat), NEW n \in Nat, ppc # "done",
         ~Dropped => Chain(received, queue, b, n),
         b # <<>>, Len(b) <= MaxSize, Send(b)
  PROVE  /\ Sent(n) /\ deadline' \in {"armed", "expired"}
         /\ Closes(queue', FALSE)
         /\ \/ ppc' = "done" /\ Dropped
            \/ ppc' = "sending" /\ buf' # <<>>
            \/ ppc' = "select" /\ buf' = <<>>
<1>1. /\ received \in Seq(Nat) /\ queue \in Seq(Seq(Nat)) /\ deadline \in {"armed", "expired"}
      /\ Len(queue) <= QueueMax /\ Closes(queue, FALSE)
  BY InvOpen DEF Inv, TypeOK, Bounded
<1>2. CASE Dropped \/ Full(queue)
  BY <1>1, <1>2 DEF Send, Sent
<1>3. CASE ~Dropped /\ ~Full(queue)
  <2>1. queue' = Append(queue, b) /\ buf' = <<>> /\ deadline' = "armed" /\ ppc' = "select"
    BY <1>3 DEF Send
  <2>2. queue' \in Seq(Seq(Nat)) /\ Closes(queue', FALSE)
    BY <1>1, <2>1, ClosesPut
  <2>3. Chain(received, queue', buf', n)
    BY <1>1, <1>3, <2>1, ChainPut
  <2>4. Len(queue') <= QueueMax
    BY <1>1, <1>3, <2>1, BatcherAssumption DEF Full
  <2>5. buf' \in Seq(Nat) /\ Len(buf') <= MaxSize
    BY <2>1, EmptySeq, MaxSizeAssumption
  <2> QED
    BY <2>1, <2>2, <2>3, <2>4, <2>5 DEF Sent
<1> QED
  BY <1>2, <1>3

LEMMA SentinelStep ==
  ASSUME NEW rcv \in Seq(Nat), NEW q \in Seq(Seq(Nat)), NEW b \in Seq(Nat), NEW n \in Nat,
         ~Dropped => Chain(rcv, q, b, n), Closes(q, FALSE), Len(q) <= QueueMax,
         SendSentinel(q)
  PROVE  /\ queue' \in Seq(Seq(Nat)) /\ Len(queue') <= QueueMax
         /\ ~Dropped => Chain(rcv, queue', b, n)
         /\ Closes(queue', ppc' = "done")
         /\ ppc' = "done" \/ (ppc' = "sentinel" /\ ~Dropped)
         /\ ppc' = "done" /\ ~Dropped => Ended(queue')
<1>1. CASE Dropped \/ Full(q)
  BY <1>1 DEF SendSentinel, Closes
<1>2. CASE ~Dropped /\ ~Full(q)
  <2>1. queue' = Append(q, Sentinel) /\ ppc' = "done"
    BY <1>2 DEF SendSentinel
  <2>2. queue' \in Seq(Seq(Nat)) /\ Closes(queue', TRUE)
    BY <2>1, ClosesSentinel
  <2>3. Chain(rcv, queue', b, n)
    BY <1>2, <2>1, ChainSentinel DEF Sentinel
  <2>4. Len(queue') <= QueueMax
    BY <1>2, <2>1, BatcherAssumption DEF Full
  <2>5. Ended(queue')
    BY <2>1, EndedPut
  <2> QED
    BY <2>1, <2>2, <2>3, <2>4, <2>5
<1> QED
  BY <1>1, <1>2

LEMMA FinalSendStep ==
  ASSUME Inv, ppc # "done", FinalSend
  PROVE  /\ Sent(produced)
         /\ Closes(queue', ppc' = "done")
         /\ ppc' = "done" /\ ~Dropped => Ended(queue')
         /\ \/ ppc' = "finalsend" /\ buf' # <<>>
            \/ ppc' \in {"sentinel", "done"} /\ buf' = <<>>
<1>1. /\ received \in Seq(Nat) /\ queue \in Seq(Seq(Nat)) /\ buf \in Seq(Nat) /\ produced \in Nat
      /\ Len(queue) <= QueueMax /\ Len(buf) <= MaxSize /\ Closes(queue, FALSE)
      /\ ~Dropped => Chain(received, queue, buf, produced)
  <2>1. Closes(queue, FALSE)
    BY InvOpen
  <2>2. produced \in Nat
    BY BatcherAssumption DEF Inv, TypeOK
  <2> QED
    BY <2>1, <2>2 DEF Inv, TypeOK, Bounded, Contiguous
<1>2. <<>> \in Seq(Nat) /\ Len(<<>>) <= MaxSize
  BY EmptySeq, MaxSizeAssumption
<1>3. CASE buf # <<>> /\ ~Dropped /\ Full(queue)
  BY <1>1, <1>3 DEF FinalSend, Sent, Closes
<1>4. CASE buf = <<>> \/ Dropped
  <2>1. buf' = <<>> /\ SendSentinel(queue)
    BY <1>4 DEF FinalSend
  <2>2. ~Dropped => Chain(received, queue, <<>>, produced)
    BY <1>1, <1>4
  <2>3. /\ queue' \in Seq(Seq(Nat)) /\ Len(queue') <= QueueMax
        /\ ~Dropped => Chain(received, queue', <<>>, produced)
        /\ Closes(queue', ppc' = "done")
        /\ ppc' = "done" \/ (ppc' = "sentinel" /\ ~Dropped)
        /\ ppc' = "done" /\ ~Dropped => Ended(queue')
    BY <1>1, <1>2, <2>1, <2>2, SentinelStep
  <2> QED
    BY <1>2, <2>1, <2>3 DEF Sent
<1>5. CASE buf # <<>> /\ ~Dropped /\ ~Full(queue)
  <2>1. buf' = <<>> /\ SendSentinel(Append(queue, buf))
    BY <1>5 DEF FinalSend
  <2>2. Append(queue, buf) \in Seq(Seq(Nat)) /\ Closes(Append(queue, buf), FALSE)
    BY <1>1, <1>5, ClosesPut
  <2>3. Chain(received, Append(queue, buf), <<>>, produced)
    BY <1>1, <1>5, ChainPut
  <2>4. Len(Append(queue, buf)) <= QueueMax
    BY <1>1, <1>5, BatcherAssumption DEF Full
  <2>5. /\ queue' \in Seq(Seq(Nat)) /\ Len(queue') <= QueueMax
        /\ ~Dropped => Chain(received, queue', <<>>, produced)
        /\ Closes(queue', ppc' = "done")
        /\ ppc' = "done" \/ (ppc' = "sentinel" /\ ~Dropped)
        /\ ppc' = "done" /\ ~Dropped => Ended(queue')
    BY <1>1, <1>2, <2>1, <2>2, <2>3, <2>4, SentinelStep
  <2> QED
    BY <1>2, <2>1, <2>5 DEF Sent
<1> QED
  BY <1>3, <1>4, <1>5

------------------------------------------------------------------------------
(* The inductive invariant.                                                 *)

LEMMA InvInit == Init => Inv
<1> SUFFICES ASSUME Init PROVE Inv
  OBVIOUS
<1> USE DEF Init
<1>1. TypeOK
  <2>1. buf \in Seq(Nat) /\ received \in Seq(Nat) /\ queue \in Seq(Seq(Nat))
    BY EmptySeq
  <2>2. produced \in 0..MaxTrades
    BY BatcherAssumption
  <2> QED
    BY <2>1, <2>2 DEF TypeOK, Ready
<1>2. Contiguous
  BY ChainEmpty DEF Contiguous
<1>3. Bounded /\ TaskInv /\ ChannelInv
  BY MaxSizeAssumption, BatcherAssumption DEF Bounded, TaskInv, ChannelInv, Closes, Ready
<1> QED
  BY <1>1, <1>2, <1>3 DEF Inv

LEMMA InvTakeTrade ==
  ASSUME Inv, TakeTrade
  PROVE  Inv'
<1> DEFINE b == Append(buf, produced + 1)
<1>1. /\ ppc = "select" /\ produced' = produced + 1 /\ produced' \in 0..MaxTrades
      /\ next' \in {"pending", "trade", "err", "end"} /\ UNCHANGED <<cpc, received>>
      /\ cpc # "exhausted"
      /\ next' = "trade" => produced' < MaxTrades
  BY BatcherAssumption DEF TakeTrade, Ready, Inv, TypeOK, TaskInv, ChannelInv
<1>2. /\ b \in Seq(Nat) /\ b # <<>> /\ Len(b) = Len(buf) + 1 /\ Len(b) <= MaxSize
      /\ produced \in Nat /\ produced + 1 \in Nat /\ received \in Seq(Nat)
      /\ queue \in Seq(Seq(Nat)) /\ buf \in Seq(Nat)
  <2>1. buf \in Seq(Nat) /\ produced \in Nat /\ Len(buf) \in Nat /\ Len(buf) < MaxSize
    BY <1>1, BatcherAssumption DEF Inv, TypeOK, Bounded
  <2>2. b \in Seq(Nat) /\ b # <<>> /\ Len(b) = Len(buf) + 1
    BY <2>1
  <2>3. Len(b) <= MaxSize
    BY <2>1, <2>2, MaxSizeAssumption
  <2>4. received \in Seq(Nat) /\ queue \in Seq(Seq(Nat))
    BY DEF Inv, TypeOK
  <2> HIDE DEF b
  <2> QED
    BY <2>1, <2>2, <2>3, <2>4
<1>3. ~Dropped => Chain(received, queue, b, produced + 1)
  BY <1>2, ChainReceive DEF Inv, Contiguous
<1>4. /\ Sent(produced + 1) /\ deadline' \in {"armed", "expired"}
      /\ Closes(queue', FALSE)
      /\ \/ ppc' = "done" /\ Dropped
         \/ ppc' = "sending" /\ buf' # <<>>
         \/ ppc' = "select" /\ Len(buf') < MaxSize
  <2>1. CASE Len(b) >= MaxSize
    <3>1. Send(b)
      BY <2>1 DEF TakeTrade
    <3>2. /\ Sent(produced + 1) /\ deadline' \in {"armed", "expired"}
          /\ Closes(queue', FALSE)
          /\ \/ ppc' = "done" /\ Dropped
             \/ ppc' = "sending" /\ buf' # <<>>
             \/ ppc' = "select" /\ buf' = <<>>
      <4> HIDE DEF b
      <4> QED
        BY <3>1, <1>1, <1>2, <1>3, SendStep
    <3>3. buf' = <<>> => Len(buf') < MaxSize
      BY MaxSizeAssumption
    <3> HIDE DEF b
    <3> QED
      BY <3>2, <3>3
  <2>2. CASE ~(Len(b) >= MaxSize)
    <3>1. buf' = b /\ UNCHANGED <<deadline, ppc, queue>>
      BY <2>2 DEF TakeTrade
    <3>2. Closes(queue, FALSE) /\ Len(queue) <= QueueMax /\ deadline \in {"armed", "expired"}
      BY <1>1, InvOpen DEF Inv, TypeOK, Bounded
    <3>3. Len(b) < MaxSize
      <4>1. Len(b) \in Nat
        BY <1>2
      <4> HIDE DEF b
      <4> QED
        BY <2>2, <4>1, MaxSizeAssumption
    <3> HIDE DEF b
    <3> QED
      BY <3>1, <3>2, <3>3, <1>1, <1>2, <1>3 DEF Sent
  <2> QED
    BY <2>1, <2>2
<1> HIDE DEF b
<1>5. TypeOK' /\ Contiguous'
  BY <1>1, <1>2, <1>4 DEF Inv, TypeOK, Contiguous, Sent, Dropped
<1>6. Bounded' /\ TaskInv' /\ ChannelInv'
  BY <1>1, <1>4 DEF Bounded, TaskInv, ChannelInv, Sent, Closes, Dropped
<1> QED
  BY <1>5, <1>6 DEF Inv

LEMMA InvFinalSend ==
  ASSUME Inv, ppc \in {"select", "finalsend"}, FinalSend, UNCHANGED <<produced, next, deadline, cpc, received>>
  PROVE  Inv'
<1>1. /\ Sent(produced)
      /\ Closes(queue', ppc' = "done")
      /\ ppc' = "done" /\ ~Dropped => Ended(queue')
      /\ \/ ppc' = "finalsend" /\ buf' # <<>>
         \/ ppc' \in {"sentinel", "done"} /\ buf' = <<>>
  BY FinalSendStep
<1>2. cpc # "exhausted"
  BY DEF Inv, ChannelInv
<1>3. TypeOK' /\ Contiguous'
  BY <1>1 DEF Inv, TypeOK, Contiguous, Sent, Dropped
<1>4. Bounded' /\ TaskInv' /\ ChannelInv'
  BY <1>1, <1>2 DEF Inv, Bounded, TaskInv, ChannelInv, Sent, Dropped
<1> QED
  BY <1>3, <1>4 DEF Inv

(* The sends inside the loop, on time or resumed.                           *)
LEMMA InvSend ==
  ASSUME Inv, ppc \in {"select", "sending"}, buf # <<>>, Send(buf),
         UNCHANGED <<produced, next, cpc, received>>
  PROVE  Inv'
<1>1. /\ buf \in Seq(Nat) /\ produced \in Nat /\ Len(buf) <= MaxSize
      /\ ~Dropped => Chain(received, queue, buf, produced)
      /\ cpc # "exhausted"
  BY BatcherAssumption DEF Inv, TypeOK, Bounded, Contiguous, ChannelInv
<1>2. /\ Sent(produced) /\ deadline' \in {"armed", "expired"}
      /\ Closes(queue', FALSE)
      /\ \/ ppc' = "done" /\ Dropped
         \/ ppc' = "sending" /\ buf' # <<>>
         \/ ppc' = "select" /\ buf' = <<>>
  BY <1>1, SendStep
<1>3. TypeOK' /\ Contiguous'
  BY <1>2 DEF Inv, TypeOK, Contiguous, Sent, Dropped
<1>4. Bounded' /\ TaskInv' /\ ChannelInv'
  BY <1>1, <1>2, MaxSizeAssumption DEF Inv, Bounded, TaskInv, ChannelInv, Sent, Closes, Dropped
<1> QED
  BY <1>3, <1>4 DEF Inv

LEMMA InvResumeSend ==
  ASSUME Inv, ResumeSend
  PROVE  Inv'
<1>1. UNCHANGED <<produced, next, cpc, received>>
  BY DEF ResumeSend
<1>2. CASE ppc = "sending" /\ Send(buf)
  BY <1>1, <1>2, InvSend DEF Inv, TaskInv
<1>3. CASE ppc = "finalsend" /\ FinalSend /\ UNCHANGED deadline
  BY <1>1, <1>3, InvFinalSend
<1>4. CASE ppc = "sentinel" /\ SendSentinel(queue) /\ UNCHANGED <<buf, deadline>>
  <2>1. /\ received \in Seq(Nat) /\ queue \in Seq(Seq(Nat)) /\ buf \in Seq(Nat)
        /\ produced \in Nat /\ Closes(queue, FALSE) /\ Len(queue) <= QueueMax
        /\ ~Dropped => Chain(received, queue, buf, produced)
        /\ cpc # "exhausted"
    <3>1. Closes(queue, FALSE)
      BY <1>4, InvOpen
    <3>2. produced \in Nat /\ cpc # "exhausted"
      BY <1>4, BatcherAssumption DEF Inv, TypeOK, ChannelInv
    <3> QED
      BY <3>1, <3>2 DEF Inv, TypeOK, Bounded, Contiguous
  <2>2. /\ queue' \in Seq(Seq(Nat)) /\ Len(queue') <= QueueMax
        /\ ~Dropped => Chain(received, queue', buf, produced)
        /\ Closes(queue', ppc' = "done")
        /\ ppc' = "done" \/ (ppc' = "sentinel" /\ ~Dropped)
        /\ ppc' = "done" /\ ~Dropped => Ended(queue')
    BY <1>4, <2>1, SentinelStep
  <2>3. TypeOK' /\ Contiguous'
    BY <1>1, <1>4, <2>2 DEF Inv, TypeOK, Contiguous, Dropped
  <2>4. Bounded' /\ TaskInv' /\ ChannelInv'
    BY <1>1, <1>4, <2>1, <2>2 DEF Inv, Bounded, TaskInv, ChannelInv, Dropped
  <2> QED
    BY <2>3, <2>4 DEF Inv
<1> QED
  BY <1>2, <1>3, <1>4 DEF ResumeSend

LEMMA InvRecv ==
  ASSUME Inv, Recv
  PROVE  Inv'
<1>1. /\ cpc = "receiving" /\ queue # <<>> /\ queue' = Tail(queue)
      /\ received' = received \o Head(queue)
      /\ cpc' = IF Head(queue) = Sentinel THEN "exhausted" ELSE cpc
      /\ UNCHANGED <<produced, next, buf, deadline, ppc>>
  BY DEF Recv, taskVars
<1>2. /\ received \in Seq(Nat) /\ queue \in Seq(Seq(Nat)) /\ buf \in Seq(Nat) /\ produced \in Nat
      /\ Closes(queue, ppc = "done") /\ Chain(received, queue, buf, produced)
      /\ Len(queue) <= QueueMax /\ Len(queue) \in Nat
  BY <1>1, BatcherAssumption DEF Inv, TypeOK, ChannelInv, Contiguous, Dropped, Bounded
<1>3. /\ queue' \in Seq(Seq(Nat)) /\ Closes(queue', ppc = "done")
      /\ Len(queue') = Len(queue) - 1
      /\ Head(queue) \in Seq(Nat)
      /\ Head(queue) = Sentinel => queue' = <<>> /\ ppc = "done"
  BY <1>1, <1>2, ClosesGet
<1>4. Chain(received', queue', buf, produced)
  BY <1>1, <1>2, ChainGet
<1>5. received' \in Seq(Nat)
  BY <1>1, <1>2, <1>3, ConcatProperties
<1>6. TypeOK'
  BY <1>1, <1>3, <1>5 DEF Inv, TypeOK
<1>7. Contiguous'
  BY <1>1, <1>4 DEF Contiguous, Chain
<1>8. Bounded'
  BY <1>1, <1>2, <1>3, BatcherAssumption DEF Inv, Bounded
<1>9. ppc = "done" /\ Head(queue) # Sentinel => Ended(queue')
  BY <1>1, <1>2, EndedGet DEF Inv, ChannelInv
<1>10. TaskInv' /\ ChannelInv'
  BY <1>1, <1>3, <1>9 DEF Inv, TaskInv, ChannelInv, Dropped
<1> QED
  BY <1>6, <1>7, <1>8, <1>10 DEF Inv

(* The steps that move no trade to the channel.                             *)
LEMMA InvControl ==
  ASSUME Inv,
         \/ Arrive \/ TakeErr \/ Expire \/ UNCHANGED vars
         \/ ppc = "select" /\ deadline' = "armed"
            /\ UNCHANGED <<produced, next, buf, ppc, queue, cpc, received>>
  PROVE  Inv'
<1> USE DEF Arrive, TakeErr, Expire, Ready, vars
<1>1. UNCHANGED <<produced, buf, ppc, queue, cpc, received>>
  OBVIOUS
<1>2. TypeOK'
  <2>1. next' \in {"pending", "trade", "err", "end"} /\ deadline' \in {"armed", "expired"}
    BY DEF Inv, TypeOK
  <2> QED
    BY <1>1, <2>1 DEF Inv, TypeOK
<1>3. Contiguous' /\ Bounded' /\ TaskInv' /\ ChannelInv'
  BY <1>1 DEF Inv, Contiguous, Bounded, TaskInv, ChannelInv, Dropped
<1> QED
  BY <1>2, <1>3 DEF Inv

LEMMA InvDrop ==
  ASSUME Inv, Drop
  PROVE  Inv'
<1>1. /\ cpc' = "dropped" /\ queue' = <<>>
      /\ UNCHANGED <<produced, next, buf, deadline, ppc, received>>
  BY DEF Drop
<1>2. queue' \in Seq(Seq(Nat)) /\ Len(queue') = 0
  BY <1>1, EmptySeq
<1>3. TypeOK' /\ Contiguous'
  BY <1>1, <1>2 DEF Inv, TypeOK, Contiguous, Dropped
<1>4. Bounded' /\ TaskInv' /\ ChannelInv'
  BY <1>1, <1>2, BatcherAssumption DEF Inv, Bounded, TaskInv, ChannelInv, Dropped, Closes
<1> QED
  BY <1>3, <1>4 DEF Inv

LEMMA InvNext == Inv /\ [Next]_vars => Inv'
<1> SUFFICES ASSUME Inv, [Next]_vars
             PROVE  Inv'
  OBVIOUS
<1>1. CASE TakeTrade
  BY <1>1, InvTakeTrade
<1>2. CASE TakeEnd
  BY <1>2, InvFinalSend DEF TakeEnd
<1>3. CASE Timer
  <2>1. CASE buf # <<>>
    BY <1>3, <2>1, InvSend DEF Timer
  <2>2. CASE buf = <<>>
    BY <1>3, <2>2, InvControl DEF Timer
  <2> QED
    BY <2>1, <2>2
<1>4. CASE ResumeSend
  BY <1>4, InvResumeSend
<1>5. CASE Recv
  BY <1>5, InvRecv
<1>6. CASE Drop
  BY <1>6, InvDrop
<1>7. CASE Arrive \/ TakeErr \/ Expire \/ UNCHANGED vars
  BY <1>7, InvControl
<1> QED
  BY <1>1, <1>2, <1>3, <1>4, <1>5, <1>6, <1>7 DEF Next, TaskStep, Terminated

(* The inductive invariant holds of every behaviour of the task and its     *)
(* receiver (batch.rs:31-81).                                               *)
THEOREM Invariance == Spec => []Inv
<1>1. Init => Inv
  BY InvInit
<1>2. Inv /\ [Next]_vars => Inv'
  BY InvNext
<1> QED
  BY <1>1, <1>2, PTL DEF Spec

------------------------------------------------------------------------------
(* What follows for the client.                                             *)

(* Every variable keeps its type.                                           *)
THEOREM TypeCorrect == Spec => []TypeOK
<1>1. Inv => TypeOK
  BY DEF Inv
<1> QED
  BY <1>1, Invariance, PTL

LEMMA InvDrained ==
  ASSUME Inv, ~Dropped, queue = <<>>
  PROVE  Len(received) + Len(buf) = produced
<1>1. /\ Chain(received, queue, buf, produced)
      /\ received \in Seq(Nat) /\ queue \in Seq(Seq(Nat)) /\ buf \in Seq(Nat)
      /\ produced \in Nat
  BY BatcherAssumption DEF Inv, TypeOK, Contiguous
<1> QED
  BY <1>1, ChainDrained

LEMMA InvDelivery ==
  ASSUME Inv
  PROVE  Delivery
<1>1. \A i \in 1..Len(received) : received[i] = i
  BY DEF Inv, Contiguous
<1>2. ASSUME cpc = "exhausted"
      PROVE  Len(received) = produced
  <2>1. queue = <<>> /\ buf = <<>> /\ ~Dropped
    BY <1>2 DEF Inv, ChannelInv, TaskInv, Dropped
  <2> QED
    BY <2>1, InvDrained DEF Inv, TypeOK
<1> QED
  BY <1>1, <1>2 DEF Delivery

(* The client receives the trades in order and without a hole, and all of   *)
(* them before the empty batch, whether or not the source failed            *)
(* (batch.rs:44-66).                                                        *)
THEOREM DeliveryCorrect == Spec => []Delivery
<1>1. Inv => Delivery
  BY InvDelivery
<1> QED
  BY <1>1, Invariance, PTL

LEMMA InvInFlight ==
  ASSUME Inv
  PROVE  InFlightBounded
<1> SUFFICES ASSUME ~Dropped
             PROVE  produced <= Len(received) + (QueueMax + 1) * MaxSize
  BY DEF InFlightBounded
<1>1. /\ Chain(received, queue, buf, produced) /\ Len(queue) <= QueueMax /\ Len(buf) <= MaxSize
      /\ received \in Seq(Nat) /\ queue \in Seq(Seq(Nat)) /\ buf \in Seq(Nat)
  BY DEF Inv, TypeOK, Contiguous, Bounded
<1>2. produced \in Nat /\ QueueMax \in Nat
  BY BatcherAssumption DEF Inv, TypeOK
<1> QED
  BY <1>1, <1>2, ChainBound

(* Backpressure: a full channel and one blocked batch are the most that is  *)
(* read ahead of a client that is still there (batch.rs:36, 51).            *)
THEOREM InFlightCorrect == Spec => []InFlightBounded
<1>1. Inv => InFlightBounded
  BY InvInFlight
<1> QED
  BY <1>1, Invariance, PTL

LEMMA InvWaits ==
  ASSUME Inv
  PROVE  WaitsAreMet
<1>1. ~ (queue = <<>> /\ Full(queue))
  BY BatcherAssumption DEF Full
<1>2. TaskBlocked => cpc = "receiving" /\ ~ReceiverBlocked
  BY <1>1 DEF TaskBlocked, ReceiverBlocked, Dropped, Inv, TypeOK, ChannelInv
<1>3. ReceiverBlocked => ppc # "done"
  BY DEF ReceiverBlocked, Ended, Inv, ChannelInv
<1> QED
  BY <1>2, <1>3 DEF WaitsAreMet, Inv, ChannelInv

(* The task and its receiver never wait for each other, nor for one that is *)
(* gone, for every capacity of the channel (batch.rs:50-65).                *)
THEOREM WaitsAreMetCorrect == Spec => []WaitsAreMet
<1>1. Inv => WaitsAreMet
  BY InvWaits
<1> QED
  BY <1>1, Invariance, PTL

(* A task that lost its receiver keeps what it reads, and ends with its     *)
(* first full batch (batch.rs:50-54, 70-72).                                *)
THEOREM LateReadsCorrect == Spec => LateReadsKept
<1> DEFINE Kept == Dropped /\ ppc' # "done" =>
                     /\ Len(buf') = Len(buf) + (produced' - produced)
                     /\ Len(buf') < MaxSize \/ UNCHANGED buf
<1>1. Inv /\ [Next]_vars => [Kept]_vars
  <2> SUFFICES ASSUME Inv, Next, Dropped, ppc' # "done"
               PROVE  /\ Len(buf') = Len(buf) + (produced' - produced)
                      /\ Len(buf') < MaxSize \/ UNCHANGED buf
    OBVIOUS
  <2>1. buf \in Seq(Nat) /\ Len(buf) \in Nat /\ produced \in Nat
    BY BatcherAssumption DEF Inv, TypeOK
  <2>2. CASE TakeTrade
    <3>1. buf' = Append(buf, produced + 1) /\ ~(Len(buf') >= MaxSize) /\ produced' = produced + 1
      BY <2>2 DEF TakeTrade, Send
    <3>2. Len(buf') = Len(buf) + 1 /\ Len(buf') \in Nat
      BY <2>1, <3>1
    <3> QED
      BY <2>1, <3>1, <3>2, MaxSizeAssumption
  <2>3. CASE UNCHANGED <<buf, produced>>
    BY <2>1, <2>3
  <2>4. ~TakeEnd
    BY DEF TakeEnd, FinalSend, SendSentinel
  <2>5. ResumeSend \/ Timer => UNCHANGED <<buf, produced>>
    BY DEF ResumeSend, Timer, Send, FinalSend, SendSentinel
  <2> QED
    BY <2>2, <2>3, <2>4, <2>5
    DEF Next, TaskStep, Arrive, TakeErr, Expire, Recv, Drop, Terminated, taskVars, vars
<1> QED
  BY <1>1, Invariance, PTL DEF Spec, LateReadsKept

------------------------------------------------------------------------------
(* The task and its receiver implement the promise of a batching stage.     *)

LEMMA RecvDelivers ==
  ASSUME Inv, Recv, Head(queue) # Sentinel
  PROVE  Stream!Deliver
<1>1. /\ cpc = "receiving" /\ cpc' = cpc /\ queue # <<>> /\ UNCHANGED produced
      /\ received' = received \o Head(queue)
  BY DEF Recv, taskVars
<1>2. /\ received \in Seq(Nat) /\ queue \in Seq(Seq(Nat)) /\ buf \in Seq(Nat) /\ produced \in Nat
      /\ Chain(received, queue, buf, produced) /\ Closes(queue, ppc = "done")
  BY <1>1, BatcherAssumption DEF Inv, TypeOK, Contiguous, ChannelInv, Dropped
<1>3. Len(Head(queue)) <= MaxSize
  BY <1>1, <1>2, ClosesGet
<1>4. /\ Len(Head(queue)) \in 1..MaxSize
      /\ Len(Head(queue)) <= produced - Len(received)
      /\ Head(queue) = [i \in 1..Len(Head(queue)) |-> Len(received) + i]
  BY <1>1, <1>2, <1>3, ChainHead
<1>5. status = "open" /\ status' = "open"
  BY <1>1 DEF status
<1> DEFINE h == Head(queue)
<1>6. /\ Len(h) \in 1..MaxSize /\ Len(h) <= produced - Len(received)
      /\ h = [i \in 1..Len(h) |-> Len(received) + i] /\ received' = received \o h
  BY <1>1, <1>4
<1> HIDE DEF h
<1> QED
  BY <1>1, <1>5, <1>6 DEF Stream!Deliver, Stream!Pending

(* The empty batch is received when all trades are.                         *)
LEMMA RecvSentinelCompletes ==
  ASSUME Inv, Recv, Head(queue) = Sentinel
  PROVE  Stream!Complete
<1>1. /\ cpc = "receiving" /\ cpc' = "exhausted" /\ queue # <<>>
      /\ received' = received \o Head(queue) /\ UNCHANGED produced
  BY DEF Recv, taskVars
<1>2. /\ received \in Seq(Nat) /\ queue \in Seq(Seq(Nat)) /\ buf \in Seq(Nat) /\ produced \in Nat
      /\ Chain(received, queue, buf, produced) /\ Closes(queue, ppc = "done")
  BY <1>1, BatcherAssumption DEF Inv, TypeOK, Contiguous, ChannelInv, Dropped
<1>3. Tail(queue) \in Seq(Seq(Nat)) /\ Tail(queue) = <<>> /\ ppc = "done"
  BY <1>1, <1>2, ClosesGet
<1>4. buf = <<>>
  BY <1>1, <1>3 DEF Inv, TaskInv, Dropped
<1>5. received \o Head(queue) = received
  BY <1>2, ConcatEmptySeq DEF Sentinel
<1>6. Len(received) + Len(buf) = produced
  <2>1. Chain(received, Tail(queue), buf, produced)
    BY <1>1, <1>2, <1>5, ChainGet
  <2> QED
    BY <1>2, <1>3, <2>1, ChainDrained
<1>7. produced - Len(received) = 0
  BY <1>2, <1>4, <1>6
<1>8. status = "open" /\ status' = "complete"
  BY <1>1 DEF status
<1> QED
  BY <1>1, <1>5, <1>7, <1>8 DEF Stream!Complete, Stream!Pending

LEMMA StepRefines ==
  ASSUME Inv, [Next]_vars
  PROVE  [Stream!Next]_(Stream!vars)
<1> USE DEF Stream!Next, Stream!vars
<1>1. CASE TakeTrade
  <2>1. cpc # "exhausted" /\ produced' = produced + 1 /\ UNCHANGED <<received, cpc>>
    BY <1>1 DEF Inv, ChannelInv, TakeTrade
  <2>2. status \in {"open", "abandoned"} /\ status' = status
    BY <2>1 DEF Inv, TypeOK, status
  <2> QED
    BY <2>1, <2>2 DEF Stream!Take
<1>2. CASE Arrive \/ TakeErr \/ TakeEnd \/ Timer \/ ResumeSend \/ Expire \/ Terminated \/ UNCHANGED vars
  BY <1>2 DEF Arrive, TakeErr, TakeEnd, Timer, ResumeSend, Expire, Terminated, vars, status
<1>3. CASE Drop
  BY <1>3 DEF Drop, status, Stream!Abandon
<1>4. CASE Recv /\ Head(queue) # Sentinel
  BY <1>4, RecvDelivers
<1>5. CASE Recv /\ Head(queue) = Sentinel
  BY <1>5, RecvSentinelCompletes
<1> QED
  BY <1>1, <1>2, <1>3, <1>4, <1>5 DEF Next, TaskStep

(* Spec implements BatchStream, for every value of the constants            *)
(* (batch.rs:31-81).                                                        *)
THEOREM Refinement == Spec => ImplementsBatchStream
<1>1. Init => Stream!Init
  BY DEF Init, Stream!Init, status
<1>2. Inv /\ [Next]_vars => [Stream!Next]_(Stream!vars)
  BY StepRefines
<1> QED
  BY <1>1, <1>2, Invariance, PTL DEF Spec, ImplementsBatchStream, Stream!Spec
==============================================================================
