---------------------------- MODULE BoundedQueue ----------------------------
(***************************************************************************)
(* The lock-free ring of base/bounded_queue.h: Enqueue by any number of    *)
(* producers and Dequeue by any number of consumers, one step per access   *)
(* to head_, tail_, commit_ or a slot of pool_.                            *)
(*                                                                         *)
(* Copying an element is not atomic. A write first leaves the slot Torn; a *)
(* read that meets a write, or during which the slot changes, gives Torn.  *)
(* A spurious failure of compare_exchange_weak reloads the value it        *)
(* expected and repeats the test: it adds no behaviour and is left out.    *)
(* The counters are 64 bits wide and are taken as unbounded.               *)
(***************************************************************************)
EXTENDS Integers, Sequences, FiniteSets

CONSTANTS
  Producers, Consumers,
  Size,          \* argument of Init
  MaxEnqueues,   \* bound: MaxEnqueues[p] calls of Enqueue by producer p
  None, Torn

ASSUME SizeAssumption == Size \in Nat /\ MaxEnqueues \in [Producers -> Nat]

PoolSize == Size + 2     \* head and tail each occupy a slot

Elements == UNION {{p} \X (1..MaxEnqueues[p]) : p \in Producers}

VARIABLES
  head, tail, commit,    \* head_, tail_, commit_
  pool,                  \* pool_
  calls,                 \* calls[p]: Enqueue calls p has made
  ppc, old_tail,         \* Enqueue: location and local variable of a producer
  cpc, old_head, element,  \* Dequeue: location, local and *element
  out                    \* what the last Dequeue of a consumer returned

vars == <<head, tail, commit, pool, calls, ppc, old_tail, cpc, old_head,
          element, out>>

producerVars == <<calls, ppc, old_tail>>
consumerVars == <<cpc, old_head, element, out>>

GetIndex(num) == num - (num \div PoolSize) * PoolSize

Init ==
  /\ head = 0 /\ tail = 1 /\ commit = 1
  /\ pool = [i \in 0..(PoolSize - 1) |-> None]
  /\ calls = [p \in Producers |-> 0]
  /\ ppc = [p \in Producers |-> "idle"]
  /\ old_tail = [p \in Producers |-> 0]
  /\ cpc = [c \in Consumers |-> "idle"]
  /\ old_head = [c \in Consumers |-> 0]
  /\ element = [c \in Consumers |-> None]
  /\ out = [c \in Consumers |-> None]

-----------------------------------------------------------------------------
(* Enqueue *)

PGoto(p, loc) == ppc' = [ppc EXCEPT ![p] = loc]

EnqueueStart(p) ==
  /\ ppc[p] = "idle"
  /\ calls[p] < MaxEnqueues[p]
  /\ calls' = [calls EXCEPT ![p] = @ + 1]
  /\ old_tail' = [old_tail EXCEPT ![p] = tail]
  /\ PGoto(p, "check")
  /\ UNCHANGED <<head, tail, commit, pool, consumerVars>>

FullOffByOne(p) == GetIndex(old_tail[p]) = GetIndex(head)
Full(p) == GetIndex(old_tail[p] + 1) = GetIndex(head)

EnqueueCheck(p) ==
  /\ ppc[p] = "check"
  /\ IF Full(p)
     THEN PGoto(p, "idle") /\ old_tail' = [old_tail EXCEPT ![p] = 0]
     ELSE PGoto(p, "claim") /\ UNCHANGED old_tail
  /\ UNCHANGED <<head, tail, commit, pool, calls, consumerVars>>

EnqueueClaimUnchecked(p) ==   \* a store of tail_ in place of the CAS
  /\ ppc[p] = "claim"
  /\ tail' = old_tail[p] + 1
  /\ PGoto(p, "write")
  /\ UNCHANGED <<head, commit, pool, calls, old_tail, consumerVars>>

EnqueueClaim(p) ==
  /\ ppc[p] = "claim"
  /\ IF tail = old_tail[p]
     THEN /\ tail' = tail + 1
          /\ PGoto(p, "write")
          /\ UNCHANGED old_tail
     ELSE /\ old_tail' = [old_tail EXCEPT ![p] = tail]
          /\ PGoto(p, "check")
          /\ UNCHANGED tail
  /\ UNCHANGED <<head, commit, pool, calls, consumerVars>>

Slot(p) == GetIndex(old_tail[p])

WriteBegin(p) ==
  /\ ppc[p] = "write"
  /\ pool' = [pool EXCEPT ![Slot(p)] = Torn]
  /\ PGoto(p, "writing")
  /\ UNCHANGED <<head, tail, commit, calls, old_tail, consumerVars>>

WriteEnd(p) ==
  /\ ppc[p] = "writing"
  /\ pool' = [pool EXCEPT ![Slot(p)] = <<p, calls[p]>>]
  /\ PGoto(p, "commit")
  /\ UNCHANGED <<head, tail, commit, calls, old_tail, consumerVars>>

CommitOnce(p) ==   \* one attempt at the CAS on commit_ in place of the loop
  /\ ppc[p] = "commit"
  /\ commit' = IF commit = old_tail[p] THEN old_tail[p] + 1 ELSE commit
  /\ old_tail' = [old_tail EXCEPT ![p] = 0]
  /\ PGoto(p, "idle")
  /\ UNCHANGED <<head, tail, pool, calls, consumerVars>>

(* The loop on commit_ waits until every earlier claim is committed. *)
EnqueueCommit(p) ==
  /\ ppc[p] = "commit"
  /\ commit = old_tail[p]
  /\ commit' = old_tail[p] + 1
  /\ old_tail' = [old_tail EXCEPT ![p] = 0]
  /\ PGoto(p, "idle")
  /\ UNCHANGED <<head, tail, pool, calls, consumerVars>>

-----------------------------------------------------------------------------
(* Dequeue *)

CGoto(c, loc) == cpc' = [cpc EXCEPT ![c] = loc]

DequeueStart(c) ==
  /\ cpc[c] = "idle"
  /\ old_head' = [old_head EXCEPT ![c] = head]
  /\ CGoto(c, "check")
  /\ UNCHANGED <<head, tail, commit, pool, element, out, producerVars>>

DequeueCheck(c) ==
  /\ cpc[c] = "check"
  /\ IF old_head[c] + 1 = commit
     THEN /\ CGoto(c, "idle")
          /\ old_head' = [old_head EXCEPT ![c] = 0]
          /\ out' = [out EXCEPT ![c] = None]
     ELSE CGoto(c, "read") /\ UNCHANGED <<old_head, out>>
  /\ UNCHANGED <<head, tail, commit, pool, element, producerVars>>

ReadBegin(c) ==
  /\ cpc[c] = "read"
  /\ element' = [element EXCEPT ![c] = pool[GetIndex(old_head[c] + 1)]]
  /\ CGoto(c, "reading")
  /\ UNCHANGED <<head, tail, commit, pool, old_head, out, producerVars>>

ReadEnd(c) ==
  /\ cpc[c] = "reading"
  /\ element' = [element EXCEPT ![c] =
                   IF pool[GetIndex(old_head[c] + 1)] = @ THEN @ ELSE Torn]
  /\ CGoto(c, "take")
  /\ UNCHANGED <<head, tail, commit, pool, old_head, out, producerVars>>

DequeueTakeUnchecked(c) ==   \* a store of head_ in place of the CAS
  /\ cpc[c] = "take"
  /\ head' = old_head[c] + 1
  /\ out' = [out EXCEPT ![c] = element[c]]
  /\ old_head' = [old_head EXCEPT ![c] = 0]
  /\ element' = [element EXCEPT ![c] = None]
  /\ CGoto(c, "idle")
  /\ UNCHANGED <<tail, commit, pool, producerVars>>

DequeueTake(c) ==
  /\ cpc[c] = "take"
  /\ IF head = old_head[c]
     THEN /\ head' = old_head[c] + 1
          /\ out' = [out EXCEPT ![c] = element[c]]
          /\ old_head' = [old_head EXCEPT ![c] = 0]
          /\ CGoto(c, "idle")
     ELSE /\ old_head' = [old_head EXCEPT ![c] = head]
          /\ CGoto(c, "check")
          /\ UNCHANGED <<head, out>>
  /\ element' = [element EXCEPT ![c] = None]
  /\ UNCHANGED <<tail, commit, pool, producerVars>>

-----------------------------------------------------------------------------

EnqueueSteps(p) ==
  \/ EnqueueCheck(p) \/ EnqueueClaim(p) \/ WriteBegin(p) \/ WriteEnd(p)
  \/ EnqueueCommit(p)

DequeueSteps(c) ==
  DequeueCheck(c) \/ ReadBegin(c) \/ ReadEnd(c) \/ DequeueTake(c)

Next ==
  \/ \E p \in Producers :
       \/ EnqueueStart(p) \/ EnqueueCheck(p) \/ EnqueueClaim(p)
       \/ WriteBegin(p) \/ WriteEnd(p) \/ EnqueueCommit(p)
  \/ \E c \in Consumers :
       \/ DequeueStart(c) \/ DequeueCheck(c) \/ ReadBegin(c) \/ ReadEnd(c)
       \/ DequeueTake(c)

Spec == Init /\ [][Next]_vars

(* A call that began runs on; consumers poll, as WaitDequeue does. *)
Fairness ==
  /\ \A p \in Producers : WF_vars(EnqueueSteps(p))
  /\ \A c \in Consumers : WF_vars(DequeueSteps(c)) /\ WF_vars(DequeueStart(c))

FairSpec == Spec /\ Fairness

-----------------------------------------------------------------------------
(* Properties *)

Locations == {"idle", "check", "claim", "write", "writing", "commit"}
Slots == 0..(PoolSize - 1)

(* The cursors and locals stay in their sets, and Size() = tail - head - 1 *)
(* never exceeds the size given to Init nor wraps below zero.              *)
TypeOK ==
  /\ head \in Nat /\ tail \in Nat /\ commit \in Nat
  /\ pool \in [Slots -> Elements \cup {None, Torn}]
  /\ calls \in [Producers -> Nat]
  /\ \A p \in Producers : calls[p] <= MaxEnqueues[p]
  /\ ppc \in [Producers -> Locations]
  /\ old_tail \in [Producers -> Nat]
  /\ cpc \in [Consumers -> {"idle", "check", "read", "reading", "take"}]
  /\ old_head \in [Consumers -> Nat]
  /\ element \in [Consumers -> Elements \cup {None, Torn}]
  /\ out \in [Consumers -> Elements \cup {None, Torn}]
  /\ tail - head - 1 \in 0..Size

(* A slot is written by one producer at a time, and never while it holds   *)
(* an element that has been committed and not yet taken.                   *)
WritersApart ==
  \A p \in Producers : ppc[p] \in {"write", "writing", "commit"} =>
    /\ \A q \in Producers \ {p} :
         ppc[q] \in {"write", "writing", "commit"} => Slot(p) # Slot(q)
    /\ \A n \in (head + 1)..(commit - 1) : GetIndex(n) # Slot(p)

(* The ring implements the first-in first-out queue: the elements between  *)
(* head_ and commit_, in that order. The CAS on commit_ appends, the CAS   *)
(* on head_ takes the first element and returns exactly it, and Dequeue    *)
(* reports nothing only when the queue is empty. A torn or stale copy is   *)
(* never returned, no element is lost, duplicated or reordered.            *)
Contents == [i \in 1..(commit - head - 1) |-> pool[GetIndex(head + i)]]

Fifo == INSTANCE BoundedFifo WITH
          Values <- Elements, Capacity <- Size, queue <- Contents

ImplementsFifo == Fifo!FifoSpec

(* Whatever a producer claimed is committed and then taken: no claim waits *)
(* for ever for an earlier one, and no element stays in the ring.          *)
Drains ==
  \A n \in 1..Cardinality(Elements) :
    (tail > n) ~> (head >= n)

=============================================================================
