------------------------------- MODULE Batcher -------------------------------
(***************************************************************************)
(* Batcher::spawn (src/rust/crates/cfb-ingest/src/batch.rs): a tokio task  *)
(* that selects between its trade source and a timer, and sends batches to *)
(* a receiver over a bounded mpsc channel.                                 *)
(*                                                                         *)
(* An action runs from one await of the task to the next.  The task and    *)
(* the receiver are threads of their own, so anything may come in between; *)
(* a send suspends only on a full channel, and fails once the receiver is  *)
(* gone.  Trades are numbered in the order the source yields them.         *)
(***************************************************************************)
EXTENDS BatchChain

CONSTANTS
  QueueMax,     \* BatchConfig.channel_capacity
  MaxTrades,    \* bound of the model: the source yields at most this many
  MayDrop       \* may the client drop its receiver early?

ASSUME BatcherAssumption ==
  /\ QueueMax \in Nat \ {0}
  /\ MaxTrades \in Nat
  /\ MayDrop \in BOOLEAN

VARIABLES
  produced,   \* trades taken from the source
  next,       \* what source.next() is at this moment
  buf,        \* trades not yet sent
  deadline,   \* "armed" (ahead) or "expired"
  ppc,        \* where the task is
  queue,      \* the channel
  cpc,        \* how the receiver stands
  received    \* trades handed to the client, flattened

taskVars == <<produced, next, buf, deadline, ppc>>
vars == <<produced, next, buf, deadline, ppc, queue, cpc, received>>

TypeOK ==
  /\ produced \in 0..MaxTrades
  /\ next \in {"pending", "trade", "err", "end"}
  /\ buf \in Seq(Nat)
  /\ deadline \in {"armed", "expired"}
  /\ ppc \in {"select",      \* at the select!
              "sending",     \* blocked in a send inside the loop
              "finalsend",   \* blocked in the last send, the source is over
              "sentinel",    \* blocked in the send of the empty batch
              "done"}
  /\ queue \in Seq(Seq(Nat))
  /\ cpc \in {"receiving", "exhausted", "dropped"}
  /\ received \in Seq(Nat)

(* Deliberate faults stand before the definition they alter and are used by *)
(* no action; each shows that some property notices it.                     *)

(* Fault: the source yields one trade too many.                             *)
ReadyTooLong(n) == {"err", "end"} \cup (IF n <= MaxTrades THEN {"trade"} ELSE {})

(* The sources of source.rs, after n trades: an error is their last item.   *)
Ready(n) == {"err", "end"} \cup (IF n < MaxTrades THEN {"trade"} ELSE {})

Init ==
  /\ produced = 0
  /\ next \in Ready(0) \cup {"pending"}
  /\ buf = <<>>
  /\ deadline = "armed"
  /\ ppc = "select"
  /\ queue = <<>>
  /\ cpc = "receiving"
  /\ received = <<>>

Dropped == cpc = "dropped"
FullOffByOne(q) == Len(q) > QueueMax   \* fault
Full(q) == Len(q) >= QueueMax

------------------------------------------------------------------------------
(* The task.                                                                *)

(* Fault: the buffer is not cleared after a successful send.                *)
SendKeepsBuffer(b) ==
  \/ Dropped /\ ppc' = "done" /\ buf' = b /\ UNCHANGED <<queue, deadline>>
  \/ ~Dropped /\ Full(queue) /\ ppc' = "sending" /\ buf' = b /\ UNCHANGED <<queue, deadline>>
  \/ /\ ~Dropped /\ ~Full(queue) /\ queue' = Append(queue, b)
     /\ buf' = b /\ deadline' = "armed" /\ ppc' = "select"

(* Fault: the result of a send inside the loop is ignored.                  *)
SendIgnoresLoss(b) ==
  IF ~Dropped /\ Full(queue)
  THEN ppc' = "sending" /\ buf' = b /\ UNCHANGED <<queue, deadline>>
  ELSE /\ queue' = IF Dropped THEN queue ELSE Append(queue, b)
       /\ buf' = <<>> /\ deadline' = "armed" /\ ppc' = "select"

(* tx.send(batch) inside the loop, of buffer b: a failure breaks the loop,  *)
(* a success clears the buffer and resets the deadline.                     *)
Send(b) ==
  \/ /\ Dropped
     /\ ppc' = "done"
     /\ buf' = b
     /\ UNCHANGED <<queue, deadline>>
  \/ /\ ~Dropped
     /\ Full(queue)
     /\ ppc' = "sending"
     /\ buf' = b
     /\ UNCHANGED <<queue, deadline>>
  \/ /\ ~Dropped
     /\ ~Full(queue)
     /\ queue' = Append(queue, b)
     /\ buf' = <<>>
     /\ deadline' = "armed"
     /\ ppc' = "select"

(* Fault: the empty batch is given up on a full channel, as by try_send.    *)
TrySendSentinel(q) ==
  /\ queue' = IF Dropped \/ Full(q) THEN q ELSE Append(q, Sentinel)
  /\ ppc' = "done"

(* The empty batch and the end of the task, on channel q; errors ignored.   *)
SendSentinel(q) ==
  \/ Dropped /\ queue' = q /\ ppc' = "done"
  \/ ~Dropped /\ Full(q) /\ queue' = q /\ ppc' = "sentinel"
  \/ ~Dropped /\ ~Full(q) /\ queue' = Append(q, Sentinel) /\ ppc' = "done"

(* Fault: what is left in the buffer is not sent.                           *)
FinalSendForgets == SendSentinel(queue) /\ UNCHANGED buf

(* The source is over: send what is left, then the empty batch.             *)
FinalSend ==
  IF buf # <<>> /\ ~Dropped /\ Full(queue)
  THEN ppc' = "finalsend" /\ UNCHANGED <<buf, queue>>
  ELSE /\ buf' = <<>>
       /\ SendSentinel(IF buf = <<>> \/ Dropped THEN queue ELSE Append(queue, buf))

(* source.next() becomes ready; it yields trades, one error or its end.     *)
Arrive ==
  /\ ppc # "done"
  /\ next = "pending"
  /\ next' \in Ready(produced)
  /\ UNCHANGED <<produced, buf, deadline, ppc, queue, cpc, received>>

TakeTrade ==
  /\ ppc = "select"
  /\ next = "trade"
  /\ produced' = produced + 1
  /\ next' \in Ready(produced + 1) \cup {"pending"}
  /\ LET b == Append(buf, produced + 1)
     IN IF Len(b) >= MaxSize
        THEN Send(b)
        ELSE buf' = b /\ UNCHANGED <<deadline, ppc, queue>>
  /\ UNCHANGED <<cpc, received>>

(* The error is logged and nothing else; the stream then ends.              *)
TakeErr ==
  /\ ppc = "select"
  /\ next = "err"
  /\ next' = "end"
  /\ UNCHANGED <<produced, buf, deadline, ppc, queue, cpc, received>>

TakeEnd ==
  /\ ppc = "select"
  /\ next = "end"
  /\ FinalSend
  /\ UNCHANGED <<produced, next, deadline, cpc, received>>

(* Fault: the timer restarts the deadline without sending.                  *)
TimerOnlyRestarts ==
  /\ ppc = "select" /\ next = "pending" /\ deadline = "expired"
  /\ deadline' = "armed"
  /\ UNCHANGED <<produced, next, buf, ppc, queue, cpc, received>>

(* The select is biased: the timer is looked at when the source is pending. *)
Timer ==
  /\ ppc = "select"
  /\ next = "pending"
  /\ deadline = "expired"
  /\ IF buf # <<>>
     THEN Send(buf)
     ELSE deadline' = "armed" /\ UNCHANGED <<buf, ppc, queue>>
  /\ UNCHANGED <<produced, next, cpc, received>>

(* A blocked send finds room, or learns that the receiver is gone.          *)
ResumeSend ==
  /\ Dropped \/ ~Full(queue)
  /\ \/ ppc = "sending" /\ Send(buf)
     \/ ppc = "finalsend" /\ FinalSend /\ UNCHANGED deadline
     \/ ppc = "sentinel" /\ SendSentinel(queue) /\ UNCHANGED <<buf, deadline>>
  /\ UNCHANGED <<produced, next, cpc, received>>

Expire ==
  /\ ppc # "done"
  /\ deadline = "armed"
  /\ deadline' = "expired"
  /\ UNCHANGED <<produced, next, buf, ppc, queue, cpc, received>>

------------------------------------------------------------------------------
(* The client: rx.recv() until a batch without rows.                        *)

Recv ==
  /\ cpc = "receiving"
  /\ queue # <<>>
  /\ queue' = Tail(queue)
  /\ received' = received \o Head(queue)
  /\ cpc' = IF Head(queue) = Sentinel THEN "exhausted" ELSE cpc
  /\ UNCHANGED taskVars

(* Dropping the receiver closes the channel and discards its content.       *)
Drop ==
  /\ MayDrop
  /\ cpc = "receiving"
  /\ cpc' = "dropped"
  /\ queue' = <<>>
  /\ UNCHANGED <<produced, next, buf, deadline, ppc, received>>

Terminated ==
  /\ ppc = "done"
  /\ cpc \in {"exhausted", "dropped"}
  /\ UNCHANGED vars

------------------------------------------------------------------------------
TaskStep == TakeTrade \/ TakeErr \/ TakeEnd \/ Timer \/ ResumeSend

Next == Arrive \/ TaskStep \/ Expire \/ Recv \/ Drop \/ Terminated

(* tokio polls a woken task, the clock advances, and a client that keeps    *)
(* its receiver keeps reading it.  Nothing is assumed of the source.        *)
Fairness == WF_vars(TaskStep) /\ WF_vars(Expire) /\ WF_vars(Recv)

Spec == Init /\ [][Next]_vars /\ Fairness

------------------------------------------------------------------------------
(* The client receives the trades in order and without a hole, and a client *)
(* that reached the empty batch has all of them: an error of the source     *)
(* costs nothing that came before it (batch.rs:44-66).                      *)
Delivery ==
  /\ \A i \in 1..Len(received) : received[i] = i
  /\ cpc = "exhausted" => Len(received) = produced

(* Why Delivery holds, while the receiver is there: received, channel and   *)
(* buffer are one unbroken chain, and the empty batch closes the channel.   *)
Contiguous ==
  /\ \A i \in 1..Len(received) : received[i] = i
  /\ ~Dropped => Chain(received, queue, buf, produced)

Bounded ==
  /\ Len(buf) <= MaxSize
  /\ ppc = "select" => Len(buf) < MaxSize
  /\ Len(queue) <= QueueMax

TaskInv ==
  /\ next = "trade" => produced < MaxTrades
  /\ ppc \in {"sending", "finalsend"} => buf # <<>>
  /\ ppc \in {"sentinel", "done"} /\ ~Dropped => buf = <<>>

ChannelInv ==
  /\ Closes(queue, ppc = "done")
  /\ cpc = "exhausted" => queue = <<>> /\ ppc = "done"
  /\ cpc = "receiving" /\ ppc = "done" => Ended(queue)

(* The inductive invariant (batch.rs:39-77).                                *)
Inv == TypeOK /\ Contiguous /\ Bounded /\ TaskInv /\ ChannelInv

(* Backpressure: what is read ahead of a client that is still there fits in *)
(* the channel and one blocked batch (batch.rs:36, 51).                     *)
InFlightBounded ==
  ~Dropped => produced <= Len(received) + (QueueMax + 1) * MaxSize

(* The task waits in a send, the receiver in recv().                        *)
TaskBlocked == ppc \in {"sending", "finalsend", "sentinel"} /\ ~Dropped /\ Full(queue)
ReceiverBlocked == cpc = "receiving" /\ queue = <<>>

(* Nobody waits for one who is gone, and the two never wait for each other: *)
(* a task that has ended left the empty batch to a receiver that still      *)
(* reads, and a blocked task has such a receiver (batch.rs:50-65).          *)
WaitsAreMet ==
  /\ cpc = "receiving" /\ ppc = "done" => Ended(queue)
  /\ TaskBlocked => cpc = "receiving" /\ ~ReceiverBlocked
  /\ ReceiverBlocked => ppc # "done"

(* The task is not told that its receiver is gone.  Until a send tells it,  *)
(* it keeps what it reads in the buffer, so it ends before it has read more *)
(* than one batch in vain (batch.rs:50-54, 70-72).                          *)
LateReadsKept ==
  [][Dropped /\ ppc' # "done" =>
       /\ Len(buf') = Len(buf) + (produced' - produced)
       /\ Len(buf') < MaxSize \/ UNCHANGED buf]_vars

(* Latency: a buffered trade never waits for the next one to arrive; the    *)
(* timer sends it, or the loss of the receiver is noticed (batch.rs:68-74). *)
BatchEmittedOnTime == (buf # <<>>) ~> (buf = <<>> \/ ppc = "done")

(* A task whose receiver is gone ends as soon as it has something to send   *)
(* (batch.rs:51, 70).                                                       *)
OrphanEnds == (Dropped /\ buf # <<>>) ~> (ppc = "done")

(* The end of the source reaches the client as the empty batch, also after  *)
(* an error and through a full channel (batch.rs:56-65).                    *)
SentinelReachesClient == (next = "end") ~> (cpc # "receiving")

(* The promise of BatchStream, seen from the client.                        *)
status ==
  CASE cpc = "receiving" -> "open"
    [] cpc = "exhausted" -> "complete"
    [] cpc = "dropped"   -> "abandoned"

Stream == INSTANCE BatchStream WITH taken <- produced, delivered <- received

(* Every step of the task and of its receiver is a step a batching stage    *)
(* may take, or changes nothing its client can see (batch.rs:31-81).        *)
ImplementsBatchStream == Stream!Spec
==============================================================================
