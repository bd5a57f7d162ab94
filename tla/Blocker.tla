------------------------------ MODULE Blocker ------------------------------
(* The two queues of blocker/blocker.h: messages published to a reader,    *)
(* newest first, and the copy of them that its owner observes. Each        *)
(* operation runs under msg_mutex_ and is one function of the blocker.     *)
EXTENDS Naturals, Sequences

nullptr == 0      \* messages are numbered from 1

NewBlocker(capacity) ==
  [capacity |-> capacity, published |-> <<>>, observed |-> <<>>]

(* while (size() > capacity) pop_back()                                    *)
TrimFront(queue, capacity) ==     \* pops the newest instead
  IF Len(queue) > capacity
  THEN SubSeq(queue, Len(queue) - capacity + 1, Len(queue)) ELSE queue
Trim(queue, capacity) ==
  IF Len(queue) > capacity THEN SubSeq(queue, 1, capacity) ELSE queue

(* Enqueue tests the capacity before it takes the mutex.                   *)
Accepts(b) == b.capacity # 0
Enqueue(b, msg) ==
  [b EXCEPT !.published = Trim(<<msg>> \o @, b.capacity)]

Observe(b) == [b EXCEPT !.observed = b.published]
ClearPublished(b) == [b EXCEPT !.published = <<>>]
ClearObserved(b) == [b EXCEPT !.observed = <<>>]

(* Of the two queues only the published one is trimmed.                    *)
SetCapacity(b, capacity) ==
  [b EXCEPT !.capacity = capacity, !.published = Trim(@, capacity)]

(* What the owner asks for; an empty queue has the null pointer.           *)
IsObservedEmpty(b) == b.observed = <<>>
IsPublishedEmpty(b) == b.published = <<>>
Front(queue) == IF queue = <<>> THEN nullptr ELSE queue[1]
Back(queue) == IF queue = <<>> THEN nullptr ELSE queue[Len(queue)]
GetLatestObservedPtr(b) == Front(b.observed)
GetOldestObservedPtr(b) == Back(b.observed)
GetLatestPublishedPtr(b) == Front(b.published)
=============================================================================
