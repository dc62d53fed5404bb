------------------------------- MODULE Batched -------------------------------
(***************************************************************************)
(* cfb.ingest.batched (src/python/src/cfb/ingest.py): an asyncio generator *)
(* that starts a producer task reading a trade source, and yields to its   *)
(* client the batches that the task puts on a bounded asyncio.Queue.       *)
(*                                                                         *)
(* An action runs from one suspension point of a coroutine to the next: a  *)
(* put suspends only on a full queue, a get only on an empty one, and      *)
(* nothing else runs in between.  task.cancel() is delivered at the next   *)
(* step of the task, also when that task has already been woken.           *)
(*                                                                         *)
(* Trades are numbered in the order the source yields them.  The clock is  *)
(* abstracted to what the code asks of it: is the deadline of the buffer   *)
(* unset, still ahead, or passed.                                          *)
(***************************************************************************)
EXTENDS BatchChain

CONSTANTS
  QueueMax,     \* BatchConfig.queue_maxsize; 0 means unbounded, as in asyncio
  MaxTrades,    \* bound of the model: the source yields at most this many
  MayLeave      \* may the client close or cancel the iteration early?

ASSUME BatchedAssumption ==
  /\ QueueMax \in Nat
  /\ MaxTrades \in Nat
  /\ MayLeave \in BOOLEAN

VARIABLES
  produced,   \* trades the source has yielded
  buf,        \* producer: trades not yet put on the queue
  deadline,   \* producer: "none", "armed" (ahead) or "expired"
  ppc,        \* where the producer task is
  exit,       \* how the producer left its loop: its result once it is done
  cancelReq,  \* task.cancel() was called, CancelledError not yet delivered
  queue,      \* output_q
  cpc,        \* where the client's iteration is
  received    \* trades handed to the client, flattened

producerVars == <<produced, buf, deadline, ppc, exit>>
vars == <<produced, buf, deadline, ppc, exit, cancelReq, queue, cpc, received>>

TypeOK ==
  /\ produced \in 0..MaxTrades
  /\ buf \in Seq(Nat)
  /\ deadline \in {"none", "armed", "expired"}
  /\ ppc \in {"new",         \* created, not yet run
              "reading",     \* awaiting the source
              "flushing",    \* blocked in put(buf), inside the loop
              "finalflush",  \* blocked in put(buf), after the source ended
              "sentinel",    \* blocked in put([]), in the finally block
              "done"}
  /\ exit \in {"none", "end", "error", "cancelled"}
  /\ cancelReq \in BOOLEAN
  /\ queue \in Seq(Seq(Nat))
  /\ cpc \in {"getting",     \* suspended in output_q.get()
              "yielded",     \* the client holds a batch
              "joining",     \* got the sentinel, awaiting the task
              "leaving",     \* closed or cancelled early, awaiting the task
              "exhausted", "raised",          \* ends after "joining"
              "abandoned", "closefailed"}     \* ends after "leaving"
  /\ received \in Seq(Nat)

Init ==
  /\ produced = 0
  /\ buf = <<>>
  /\ deadline = "none"
  /\ ppc = "new"
  /\ exit = "none"
  /\ cancelReq = FALSE
  /\ queue = <<>>
  /\ cpc = "getting"
  /\ received = <<>>

(* Deliberate faults stand before the definition they alter and are used by *)
(* no action; each shows that some property notices it.                     *)

FullOffByOne(q) == QueueMax > 0 /\ Len(q) > QueueMax

Full(q) == QueueMax > 0 /\ Len(q) >= QueueMax

------------------------------------------------------------------------------
(* The producer task.                                                       *)

(* Fault: flush() forgets `buf = []`.                                       *)
FlushKeepsBuffer(b, d) ==
  IF Full(queue)
  THEN buf' = b /\ deadline' = d /\ ppc' = "flushing" /\ UNCHANGED queue
  ELSE queue' = Append(queue, b) /\ buf' = b /\ deadline' = "none" /\ ppc' = "reading"

(* flush() inside the loop, for buffer b with deadline d.                   *)
Flush(b, d) ==
  IF Full(queue)
  THEN /\ buf' = b
       /\ deadline' = d
       /\ ppc' = "flushing"
       /\ UNCHANGED queue
  ELSE /\ queue' = Append(queue, b)
       /\ buf' = <<>>
       /\ deadline' = "none"
       /\ ppc' = "reading"

(* The finally block, entered with queue q: put the sentinel and return.    *)
Finish(q) ==
  IF Full(q)
  THEN queue' = q /\ ppc' = "sentinel"
  ELSE queue' = Append(q, Sentinel) /\ ppc' = "done"

(* Fault: no flush() after the loop.                                        *)
NoFinalFlush == Finish(queue) /\ UNCHANGED <<buf, deadline>>

(* Fault: the sentinel is put before the last batch.                        *)
SentinelFirst ==
  IF buf # <<>> /\ Full(queue)
  THEN ppc' = "finalflush" /\ UNCHANGED <<buf, deadline, queue>>
  ELSE /\ buf' = <<>>
       /\ deadline' = "none"
       /\ ppc' = "done"
       /\ queue' = IF buf = <<>> THEN Append(queue, Sentinel)
                   ELSE queue \o <<Sentinel, buf>>

(* flush() after the loop, then the finally block.                          *)
FinalFlush ==
  IF buf # <<>> /\ Full(queue)
  THEN ppc' = "finalflush" /\ UNCHANGED <<buf, deadline, queue>>
  ELSE /\ buf' = <<>>
       /\ deadline' = "none"
       /\ Finish(IF buf = <<>> THEN queue ELSE Append(queue, buf))

Start ==
  /\ ppc = "new"
  /\ ~cancelReq
  /\ ppc' = "reading"
  /\ UNCHANGED <<produced, buf, deadline, exit, cancelReq, queue, cpc, received>>

(* The deadlines the test `loop.time() >= deadline` may see once a trade is *)
(* appended: a new one may be over at once, the clock moves by itself.      *)
Deadlines == IF deadline = "none" THEN {"armed", "expired"} ELSE {deadline}

(* One turn of the loop: append the trade, flush on size or on time.        *)
Receive ==
  /\ ppc = "reading"
  /\ ~cancelReq
  /\ produced < MaxTrades
  /\ produced' = produced + 1
  /\ LET b == Append(buf, produced + 1)
     IN \E d \in Deadlines :
          IF Len(b) >= MaxSize \/ d = "expired"
          THEN Flush(b, d)
          ELSE buf' = b /\ deadline' = d /\ UNCHANGED <<ppc, queue>>
  /\ UNCHANGED <<exit, cancelReq, cpc, received>>

SourceEnd ==
  /\ ppc = "reading"
  /\ ~cancelReq
  /\ exit' = "end"
  /\ FinalFlush
  /\ UNCHANGED <<produced, cancelReq, cpc, received>>

(* Fault: the sentinel is put after the loop, not in a finally block.       *)
RaiseWithoutSentinel ==
  /\ ppc = "reading"
  /\ ~cancelReq
  /\ exit' = "error"
  /\ ppc' = "done"
  /\ UNCHANGED <<produced, buf, deadline, cancelReq, queue, cpc, received>>

(* The source raises: no flush, straight to the finally block.              *)
SourceRaise ==
  /\ ppc = "reading"
  /\ ~cancelReq
  /\ exit' = "error"
  /\ Finish(queue)
  /\ UNCHANGED <<produced, buf, deadline, cancelReq, cpc, received>>

(* A blocked put finds room.                                                *)
ResumePut ==
  /\ ~cancelReq
  /\ ~Full(queue)
  /\ \/ ppc = "flushing" /\ Flush(buf, deadline)
     \/ ppc = "finalflush" /\ FinalFlush
     \/ ppc = "sentinel" /\ Finish(queue) /\ UNCHANGED <<buf, deadline>>
  /\ UNCHANGED <<produced, exit, cancelReq, cpc, received>>

(* CancelledError reaches the task: before its first step it just ends;     *)
(* inside the try it runs the finally block; inside that block it ends.     *)
Cancelled ==
  /\ cancelReq
  /\ ppc # "done"
  /\ cancelReq' = FALSE
  /\ exit' = "cancelled"
  /\ IF ppc \in {"new", "sentinel"}
     THEN ppc' = "done" /\ UNCHANGED queue
     ELSE Finish(queue)
  /\ UNCHANGED <<produced, buf, deadline, cpc, received>>

(* Time passes, whatever the task is doing.                                 *)
Expire ==
  /\ deadline = "armed"
  /\ deadline' = "expired"
  /\ UNCHANGED <<produced, buf, ppc, exit, cancelReq, queue, cpc, received>>

------------------------------------------------------------------------------
(* The generator, as its client drives it.                                  *)

(* get() returns the head of the queue; the sentinel breaks the loop, and   *)
(* the finally block cancels the task (which ignores it when it is done).   *)
Pop ==
  /\ queue # <<>>
  /\ queue' = Tail(queue)
  /\ IF Head(queue) = Sentinel
     THEN /\ cpc' = "joining"
          /\ cancelReq' = (ppc # "done")
          /\ UNCHANGED received
     ELSE /\ cpc' = "yielded"
          /\ received' = received \o Head(queue)
          /\ UNCHANGED cancelReq

Get ==
  /\ cpc = "getting"
  /\ Pop
  /\ UNCHANGED producerVars

(* The client asks for the next batch: get() suspends on an empty queue.    *)
AskNext ==
  /\ cpc = "yielded"
  /\ IF queue = <<>>
     THEN cpc' = "getting" /\ UNCHANGED <<cancelReq, queue, received>>
     ELSE Pop
  /\ UNCHANGED producerVars

(* Fault: the generator does not cancel the task when it is closed.         *)
LeaveWithoutCancel ==
  /\ MayLeave
  /\ cpc \in {"getting", "yielded"}
  /\ cpc' = "leaving"
  /\ UNCHANGED <<produced, buf, deadline, ppc, exit, cancelReq, queue, received>>

(* aclose() on the suspended generator, or cancellation inside get().       *)
Leave ==
  /\ MayLeave
  /\ cpc \in {"getting", "yielded"}
  /\ cpc' = "leaving"
  /\ cancelReq' = (ppc # "done")
  /\ UNCHANGED <<produced, buf, deadline, ppc, exit, queue, received>>

(* The client is cancelled while it awaits the task: the cancellation is    *)
(* forwarded to the task.                                                   *)
CancelAgain ==
  /\ MayLeave
  /\ cpc = "leaving"
  /\ ppc # "done"
  /\ ~cancelReq
  /\ cancelReq' = TRUE
  /\ UNCHANGED <<produced, buf, deadline, ppc, exit, queue, cpc, received>>

(* `await task` returns: CancelledError is swallowed, any other exception   *)
(* of the task is raised to the client.                                     *)
Join ==
  /\ cpc \in {"joining", "leaving"}
  /\ ppc = "done"
  /\ cpc' = IF cpc = "joining"
            THEN IF exit = "error" THEN "raised" ELSE "exhausted"
            ELSE IF exit = "error" THEN "closefailed" ELSE "abandoned"
  /\ UNCHANGED <<produced, buf, deadline, ppc, exit, cancelReq, queue, received>>

Closed == cpc \in {"exhausted", "raised", "abandoned", "closefailed"}

Terminated == Closed /\ UNCHANGED vars

------------------------------------------------------------------------------
ProducerStep == Start \/ ResumePut \/ Cancelled
SourceStep == Receive \/ SourceEnd \/ SourceRaise
ClientStep == Get \/ AskNext \/ Join

Next ==
  \/ ProducerStep
  \/ SourceStep
  \/ Expire
  \/ ClientStep
  \/ Leave
  \/ CancelAgain
  \/ Terminated

(* The event loop runs every ready callback, and a client that has not left *)
(* keeps asking.  Nothing is assumed of the source or of the clock.         *)
Fairness == WF_vars(ProducerStep) /\ WF_vars(ClientStep)

Spec == Init /\ [][Next]_vars /\ Fairness

------------------------------------------------------------------------------
(* What the client receives is the stream of the source, in order and       *)
(* without a hole, whatever the batching does.  A normal end means that all *)
(* of it was received, and an error costs less than one full batch          *)
(* (ingest.py:90-101, 104-115).                                             *)
Delivery ==
  /\ \A i \in 1..Len(received) : received[i] = i
  /\ cpc = "exhausted" => Len(received) = produced
  /\ cpc = "raised" => produced < Len(received) + MaxSize

(* Nothing follows the sentinel, and a client that has it never waits for   *)
(* the task: its cancel() comes too late to cut anything off                *)
(* (ingest.py:101, 107-113).                                                *)
SentinelIsLast ==
  /\ \A i \in 1..Len(queue) : queue[i] = Sentinel => i = Len(queue) /\ ppc = "done"
  /\ cpc = "joining" => queue = <<>> /\ ppc = "done" /\ ~cancelReq

(* Each side waits for the other at the queue and at the join, and a        *)
(* cancellation may come at any await.                                      *)
ProducerBlocked ==
  ppc \in {"flushing", "finalflush", "sentinel"} /\ Full(queue) /\ ~cancelReq

ClientBlocked ==
  \/ cpc = "getting" /\ queue = <<>>
  \/ cpc \in {"joining", "leaving"} /\ ppc # "done"

(* The put of the sentinel and the join that waits for it.                  *)
Stuck == cpc = "leaving" /\ ppc = "sentinel" /\ Full(queue) /\ ~cancelReq

(* Nobody waits for one who is gone, and the two wait for each other only   *)
(* when Stuck: a producer that has ended left its sentinel to a client that *)
(* still reads, a blocked producer has such a client, and none outlives the *)
(* iteration (ingest.py:90-115).                                            *)
WaitsAreMet ==
  /\ ppc = "done" /\ cpc \in {"getting", "yielded"} => Ended(queue)
  /\ ProducerBlocked => cpc \in {"getting", "yielded"} \/ Stuck
  /\ ClientBlocked /\ ProducerBlocked => Stuck
  /\ Closed => ppc = "done"

(* Why Delivery holds: received, queue and buffer are one unbroken chain.   *)
Contiguous == Chain(received, queue, buf, produced)

Fits(q) == QueueMax > 0 => Len(q) <= QueueMax

Bounded ==
  /\ Len(buf) <= MaxSize
  /\ ppc \in {"new", "reading"} \/ exit = "error" => Len(buf) < MaxSize
  /\ \A i \in 1..Len(queue) : Len(queue[i]) <= MaxSize
  /\ Fits(queue)

ProducerInv ==
  /\ exit = "none" <=> ppc \in {"new", "reading", "flushing"}
  /\ ppc \in {"flushing", "finalflush"} => buf # <<>>
  /\ ppc = "finalflush" => exit = "end"
  /\ exit = "end" /\ ppc # "finalflush" => buf = <<>>

ClientInv ==
  /\ cancelReq => cpc = "leaving" /\ ppc # "done"
  /\ exit = "cancelled" => cpc \in {"leaving", "abandoned", "closefailed"}
  /\ cpc \in {"leaving", "abandoned", "closefailed"} =>
       cancelReq \/ ppc \in {"sentinel", "done"}
  /\ cpc \in {"joining", "exhausted", "raised"} => queue = <<>> /\ ppc = "done"
  /\ cpc = "exhausted" => exit = "end"
  /\ cpc = "raised" => exit = "error"

(* The inductive invariant: the cut, the sizes, the place of the sentinel,  *)
(* and what each program counter says of the buffer and of the other side   *)
(* (ingest.py:79-115).                                                      *)
Inv == TypeOK /\ Contiguous /\ Bounded /\ ProducerInv /\ ClientInv /\ SentinelIsLast

(* Backpressure: the trades read and not yet handed over fill at most the   *)
(* queue and one batch blocked on it (ingest.py:73-77).                     *)
InFlightBounded ==
  QueueMax > 0 => produced <= Len(received) + (QueueMax + 1) * MaxSize

(* Once the client has left no further trade is read from the source, even  *)
(* by a producer that was already woken (ingest.py:110-113).                *)
NoReadAfterLeave ==
  [][(cpc \in {"leaving", "abandoned", "closefailed"}) => produced' = produced]_vars

(* Once the source has ended or failed, a client that keeps asking gets the *)
(* end of the stream or the error (ingest.py:99-109).                       *)
SourceEndReachesClient ==
  (exit \in {"end", "error"}) ~> (Closed \/ cpc = "leaving")

(* Closing early ends, if the queue has room when the client leaves or the  *)
(* cancellation finds the producer at its sentinel (ingest.py:110-115).     *)
CanClose == ~Full(queue) \/ ppc = "done" \/ (ppc = "sentinel" /\ cancelReq)
LeavingEnds == (cpc = "leaving" /\ CanClose) ~> Closed

(* "sentinel: always sent even on exception" (ingest.py:101): a producer    *)
(* in its finally block eventually gets past the put.                       *)
SentinelAlwaysSent == (ppc = "sentinel") ~> (ppc = "done")

(* "Emits a batch when either max_size trades accumulate or max_latency_ms  *)
(* elapses, whichever comes first" (ingest.py:72-73): buffered trades leave *)
(* the buffer once their deadline has passed, unless the source ends or     *)
(* fails or the client leaves.                                              *)
BatchEmittedOnTime ==
  (buf # <<>> /\ deadline = "expired") ~> (buf = <<>> \/ exit # "none")

(* The promise of BatchStream, seen from the client.                        *)
status ==
  CASE cpc \in {"getting", "yielded", "joining"} -> "open"
    [] cpc = "exhausted" -> "complete"
    [] cpc = "raised" -> "failed"
    [] cpc \in {"leaving", "abandoned", "closefailed"} -> "abandoned"

Stream == INSTANCE BatchStream WITH taken <- produced, delivered <- received

(* Every step of the generator and its task is a step a batching stage may  *)
(* take, or changes nothing its client can see (ingest.py:66-115).          *)
ImplementsBatchStream == Stream!Spec
==============================================================================
