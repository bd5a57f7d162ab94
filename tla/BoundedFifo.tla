---------------------------- MODULE BoundedFifo -----------------------------
(***************************************************************************)
(* What a BoundedQueue promises: a bounded first-in first-out queue whose  *)
(* operations take effect at one instant. A Dequeue that finds nothing     *)
(* does so only when the queue is empty; an Enqueue may refuse an element  *)
(* (a refusal is a stuttering step) but never drops one it accepted.       *)
(***************************************************************************)
EXTENDS Naturals, Sequences

CONSTANTS Values, Consumers, Capacity, None

VARIABLES queue, out    \* the elements; what each consumer's last call gave

fifoVars == <<queue, out>>

FifoInit == queue = <<>> /\ out = [c \in Consumers |-> None]

FifoEnqueue(v) ==
  /\ Len(queue) < Capacity
  /\ queue' = Append(queue, v)
  /\ UNCHANGED out

FifoDequeue(c) ==
  /\ queue # <<>>
  /\ out' = [out EXCEPT ![c] = Head(queue)]
  /\ queue' = Tail(queue)

FifoEmpty(c) ==
  /\ queue = <<>>
  /\ out' = [out EXCEPT ![c] = None]
  /\ UNCHANGED queue

FifoNext ==
  \/ \E v \in Values : FifoEnqueue(v)
  \/ \E c \in Consumers : FifoDequeue(c) \/ FifoEmpty(c)

FifoSpec == FifoInit /\ [][FifoNext]_fifoVars

=============================================================================
