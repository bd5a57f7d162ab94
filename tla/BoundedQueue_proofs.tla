-------------------------- MODULE BoundedQueue_proofs --------------------------
(* The lock-free ring, for any number of producers and consumers and any   *)
(* size: the type invariant, the slots of the writers, and that every step *)
(* of the ring is a step of the first-in first-out queue or none.          *)
(* A thread's copy of a cursor may be old. What the proof turns on is that *)
(* a compare-and-swap succeeds only on a current one, and that what was    *)
(* tested for a cursor stays true while the cursor does: the other end of  *)
(* the ring only moves away (Claims, Reads).                               *)
EXTENDS BoundedQueue, SequenceTheorems, TLAPS

Writing == {"write", "writing", "commit"}

Cursors == head < commit /\ commit <= tail /\ tail - head - 1 <= Size

(* An old tail is not ahead. A claim with the current one has room; those  *)
(* that are being written lie before tail, each at a place of its own.     *)
Claims ==
  \A p \in Producers :
    /\ ppc[p] # "idle" => calls[p] >= 1 /\ old_tail[p] <= tail
    /\ ppc[p] = "claim" /\ old_tail[p] = tail => tail - head <= Size
    /\ ppc[p] \in Writing =>
         /\ commit <= old_tail[p] /\ old_tail[p] < tail
         /\ \A q \in Producers \ {p} :
              ppc[q] \in Writing => old_tail[p] # old_tail[q]
    /\ ppc[p] = "commit" => pool[Slot(p)] = <<p, calls[p]>>

(* An old head is not ahead. With the current one there is an element, and *)
(* what was copied of it is it.                                            *)
Reads ==
  \A c \in Consumers :
    /\ cpc[c] # "idle" => old_head[c] <= head
    /\ cpc[c] \in {"read", "reading", "take"} /\ old_head[c] = head
         => head + 1 < commit
    /\ cpc[c] \in {"reading", "take"} /\ old_head[c] = head
         => element[c] = pool[GetIndex(head + 1)]

Inv == TypeOK /\ Cursors /\ Claims /\ Reads

-----------------------------------------------------------------------------
(* The places of the ring *)

LEMMA Division ==
  ASSUME NEW n \in Nat, NEW m \in Nat \ {0}
  PROVE  n \div m \in Nat /\ n - (n \div m) * m \in 0..(m - 1)
<1>1. n \div m \in Int /\ n % m \in 0..(m - 1) /\ n = m * (n \div m) + (n % m)
  BY SMT
<1> QED
  BY <1>1, SMT

LEMMA Multiple ==
  ASSUME NEW m \in Nat \ {0}, NEW k \in Int
  PROVE  (k >= 1 => k * m >= m) /\ (k <= 0 => k * m <= 0)
BY SMT

LEMMA Remainders ==
  ASSUME NEW m \in Nat \ {0}, NEW a \in Nat, NEW b \in Nat,
         NEW j \in Int, NEW k \in Int, a < b, b < a + m
  PROVE  a - j * m # b - k * m
<1>1. SUFFICES ASSUME a - j * m = b - k * m
               PROVE  FALSE
  OBVIOUS
<1>2. (k - j) * m = k * m - j * m /\ k * m \in Int /\ j * m \in Int
  BY SMT
<1>3. (k - j) * m = b - a
  BY <1>1, <1>2, SMT
<1>4. CASE k - j >= 1
  BY <1>3, <1>4, Multiple, SMT
<1>5. CASE k - j <= 0
  BY <1>3, <1>5, Multiple, SMT
<1> QED
  BY <1>4, <1>5, SMT

LEMMA Places == PoolSize \in Nat \ {0} /\ PoolSize = Size + 2 /\ Size \in Nat
BY SizeAssumption DEF PoolSize

LEMMA GetIndexRange ==
  ASSUME NEW n \in Nat
  PROVE  GetIndex(n) \in Slots
BY Division, Places DEF GetIndex, Slots

(* Two numbers less than a round apart have places of their own; a number  *)
(* has the place of the one a round before.                                *)
LEMMA GetIndexApart ==
  ASSUME NEW a \in Nat, NEW b \in Nat,
         a # b, a < b + PoolSize, b < a + PoolSize
  PROVE  GetIndex(a) # GetIndex(b)
<1>1. PoolSize \in Nat \ {0} /\ a \div PoolSize \in Int /\ b \div PoolSize \in Int
  BY Division, Places
<1>2. CASE a < b
  BY <1>1, <1>2, Remainders DEF GetIndex
<1>3. CASE b < a
  BY <1>1, <1>3, Remainders DEF GetIndex
<1> QED
  BY <1>2, <1>3

LEMMA GetIndexRound ==
  ASSUME NEW n \in Nat
  PROVE  GetIndex(n + PoolSize) = GetIndex(n)
<1>1. PoolSize \in Nat \ {0}
  BY Places
<1> DEFINE m == PoolSize
<1>2. (n + m) \div m = (n \div m) + 1 /\ n \div m \in Int
  BY <1>1, SMT
<1>3. ((n \div m) + 1) * m = (n \div m) * m + m /\ (n \div m) * m \in Int
  BY <1>1, <1>2, SMT
<1> QED
  BY <1>1, <1>2, <1>3 DEF GetIndex

-----------------------------------------------------------------------------
(* The invariant *)

LEMMA InitInv == Init => Inv
<1> SUFFICES ASSUME Init PROVE Inv
  OBVIOUS
<1>1. TypeOK
  BY Places, SizeAssumption DEF Init, TypeOK, Slots, Locations, Elements
<1>2. Cursors /\ Claims /\ Reads
  BY Places DEF Init, Cursors, Claims, Reads, Writing
<1> QED
  BY <1>1, <1>2 DEF Inv

(* The elements that are committed and not taken are where no one writes.  *)
LEMMA WritersAway ==
  ASSUME Inv, NEW p \in Producers, ppc[p] \in Writing
  PROVE  /\ Slot(p) \in Slots
         /\ \A q \in Producers \ {p} :
              ppc[q] \in Writing => Slot(p) # Slot(q)
         /\ \A n \in (head + 1)..(commit - 1) : GetIndex(n) # Slot(p)
<1>1. /\ head \in Nat /\ tail \in Nat /\ commit \in Nat
      /\ \A q \in Producers : old_tail[q] \in Nat
      /\ tail <= head + Size + 1 /\ head < commit
  BY Places DEF Inv, TypeOK, Cursors
<1>2. ASSUME NEW q \in Producers, ppc[q] \in Writing
      PROVE  commit <= old_tail[q] /\ old_tail[q] < tail
  BY <1>2 DEF Inv, Claims
<1>3. Slot(p) \in Slots
  BY <1>1, GetIndexRange DEF Slot
<1>4. ASSUME NEW q \in Producers \ {p}, ppc[q] \in Writing
      PROVE  Slot(p) # Slot(q)
  <2>1. old_tail[p] # old_tail[q]
    BY <1>4 DEF Inv, Claims
  <2>2. old_tail[p] < old_tail[q] + PoolSize /\ old_tail[q] < old_tail[p] + PoolSize
    BY <1>1, <1>2, <1>4, Places
  <2> QED
    BY <1>1, <2>1, <2>2, GetIndexApart DEF Slot
<1>5. ASSUME NEW n \in (head + 1)..(commit - 1)
      PROVE  GetIndex(n) # Slot(p)
  <2>1. /\ n \in Nat /\ n # old_tail[p]
        /\ n < old_tail[p] + PoolSize /\ old_tail[p] < n + PoolSize
    BY <1>1, <1>2, <1>5, Places
  <2> QED
    BY <1>1, <2>1, GetIndexApart DEF Slot
<1> QED
  BY <1>3, <1>4, <1>5

(* So whoever writes leaves the others' slots and what can be read alone.  *)
LEMMA WriteSlot ==
  ASSUME Inv, NEW p \in Producers, ppc[p] \in Writing,
         NEW v, pool' = [pool EXCEPT ![Slot(p)] = v],
         UNCHANGED <<head, tail, commit, calls, old_tail>>
  PROVE  /\ pool'[Slot(p)] = v
         /\ \A q \in Producers \ {p} :
              ppc[q] \in Writing => pool'[Slot(q)] = pool[Slot(q)]
         /\ \A n \in (head + 1)..(commit - 1) :
              pool'[GetIndex(n)] = pool[GetIndex(n)]
<1>1. pool \in [Slots -> Elements \cup {None, Torn}]
  BY DEF Inv, TypeOK
<1>2. ASSUME NEW i \in Slots, i # Slot(p)
      PROVE  pool'[i] = pool[i]
  BY <1>1, <1>2
<1>3. ASSUME NEW q \in Producers \ {p}, ppc[q] \in Writing
      PROVE  pool'[Slot(q)] = pool[Slot(q)]
  BY <1>2, <1>3, WritersAway
<1>4. ASSUME NEW n \in (head + 1)..(commit - 1)
      PROVE  pool'[GetIndex(n)] = pool[GetIndex(n)]
  <2>1. n \in Nat /\ GetIndex(n) \in Slots
    BY GetIndexRange DEF Inv, TypeOK
  <2> QED
    BY <1>2, <1>4, <2>1, WritersAway
<1> QED
  BY <1>1, <1>3, <1>4, WritersAway

LEMMA EnqueueInv ==
  ASSUME Inv, NEW p \in Producers,
         EnqueueStart(p) \/ EnqueueCheck(p) \/ EnqueueClaim(p)
  PROVE  Inv'
<1> USE DEF Inv
<1>1. CASE EnqueueStart(p)
  <2>1. TypeOK'
    <3>1. calls[p] + 1 <= MaxEnqueues[p]
      <4>1. calls[p] \in Nat /\ MaxEnqueues[p] \in Nat
        BY SizeAssumption DEF TypeOK
      <4>2. calls[p] < MaxEnqueues[p]
        BY <1>1 DEF EnqueueStart
      <4> QED
        BY <4>1, <4>2
    <3> QED
      BY <1>1, <3>1 DEF EnqueueStart, PGoto, TypeOK, consumerVars, Locations
  <2>2. Cursors' /\ Reads'
    BY <1>1 DEF EnqueueStart, consumerVars, Cursors, Reads
  <2>3. Claims'
    BY <1>1 DEF EnqueueStart, PGoto, TypeOK, Claims, Writing, Slot
  <2> QED
    BY <2>1, <2>2, <2>3
<1>2. CASE EnqueueCheck(p)
  <2>1. TypeOK'
    BY <1>2 DEF EnqueueCheck, PGoto, TypeOK, consumerVars, Locations
  <2>2. Cursors' /\ Reads'
    BY <1>2 DEF EnqueueCheck, consumerVars, Cursors, Reads
  <2>3. ~Full(p) /\ old_tail[p] = tail => tail - head <= Size
    <3> SUFFICES ASSUME old_tail[p] = tail, tail - head > Size
                 PROVE  Full(p)
      BY Places DEF TypeOK
    <3>1. old_tail[p] + 1 = head + PoolSize /\ head \in Nat
      BY Places DEF TypeOK, Cursors
    <3> QED
      BY <3>1, GetIndexRound DEF Full
  <2>4. Claims'
    BY <1>2, <2>3 DEF EnqueueCheck, PGoto, TypeOK, Claims, Writing, Slot
  <2> QED
    BY <2>1, <2>2, <2>4
<1>3. CASE EnqueueClaim(p)
  <2>1. TypeOK' /\ Cursors'
    BY <1>3, Places DEF EnqueueClaim, PGoto, TypeOK, consumerVars, Locations,
                        Cursors, Claims
  <2>2. Reads'
    BY <1>3 DEF EnqueueClaim, consumerVars, Reads
  <2>3. Claims'
    BY <1>3, Places DEF EnqueueClaim, PGoto, TypeOK, Cursors, Claims, Writing, Slot
  <2> QED
    BY <2>1, <2>2, <2>3
<1> QED
  BY <1>1, <1>2, <1>3

LEMMA WriteInv ==
  ASSUME Inv, NEW p \in Producers, WriteBegin(p) \/ WriteEnd(p)
  PROVE  Inv'
<1> USE DEF Inv
<1>1. ppc[p] \in Writing /\ ppc[p] # "commit" /\ ppc[p] # "claim" /\ ppc[p] # "idle"
  BY DEF WriteBegin, WriteEnd, Writing
<1>2. /\ UNCHANGED <<head, tail, commit, calls, old_tail>>
      /\ UNCHANGED <<cpc, old_head, element, out>>
  BY DEF WriteBegin, WriteEnd, consumerVars
<1>3. /\ ppc' = [ppc EXCEPT ![p] = ppc'[p]] /\ ppc'[p] \in Writing
      /\ pool' = [pool EXCEPT ![Slot(p)] = pool'[Slot(p)]]
      /\ pool'[Slot(p)] \in Elements \cup {Torn}
      /\ ppc'[p] = "commit" => pool'[Slot(p)] = <<p, calls[p]>>
  <2>1. pool \in [Slots -> Elements \cup {None, Torn}] /\ Slot(p) \in Slots
        /\ ppc \in [Producers -> Locations]
    BY <1>1, WritersAway DEF TypeOK
  <2>2. calls[p] \in 1..MaxEnqueues[p]
    BY <1>1, SizeAssumption DEF TypeOK, Claims
  <2>3. <<p, calls[p]>> \in Elements
    BY <2>2 DEF Elements
  <2>4. CASE WriteBegin(p)
    BY <2>1, <2>4 DEF WriteBegin, PGoto, Writing
  <2>5. CASE WriteEnd(p)
    BY <2>1, <2>3, <2>5 DEF WriteEnd, PGoto, Writing
  <2> QED
    BY <2>4, <2>5
<1>4. /\ \A q \in Producers \ {p} :
           ppc[q] \in Writing => pool'[Slot(q)] = pool[Slot(q)]
      /\ \A n \in (head + 1)..(commit - 1) :
           pool'[GetIndex(n)] = pool[GetIndex(n)]
  BY <1>1, <1>2, <1>3, WriteSlot
<1>5. TypeOK'
  BY <1>2, <1>3 DEF TypeOK, Locations, Writing
<1>6. Cursors'
  BY <1>2 DEF Cursors
<1>7. Claims'
  <2>1. \A q \in Producers : Slot(q)' = Slot(q)
    BY <1>2 DEF Slot
  <2>2. \A q \in Producers \ {p} : ppc'[q] = ppc[q]
    BY <1>3 DEF TypeOK
  <2> QED
    BY <1>1, <1>2, <1>3, <1>4, <2>1, <2>2 DEF Claims, Writing
<1>8. Reads'
  BY <1>2, <1>4 DEF Reads, TypeOK
<1> QED
  BY <1>5, <1>6, <1>7, <1>8

LEMMA CommitInv ==
  ASSUME Inv, NEW p \in Producers, EnqueueCommit(p)
  PROVE  Inv'
<1> USE DEF Inv
<1>1. /\ commit' = commit + 1 /\ old_tail[p] = commit /\ commit < tail
      /\ ppc[p] = "commit"
  BY DEF EnqueueCommit, Claims, Writing, TypeOK
<1>2. TypeOK' /\ Cursors'
  BY <1>1 DEF EnqueueCommit, PGoto, TypeOK, Locations, consumerVars, Cursors
<1>3. ASSUME NEW q \in Producers \ {p}, ppc[q] \in Writing
      PROVE  commit + 1 <= old_tail[q]
  BY <1>1, <1>3 DEF Claims, Writing, TypeOK
<1>4. Claims'
  BY <1>1, <1>3 DEF EnqueueCommit, PGoto, Claims, Writing, TypeOK, Slot
<1>5. Reads'
  BY <1>1 DEF EnqueueCommit, Reads, consumerVars, TypeOK
<1> QED
  BY <1>2, <1>4, <1>5

LEMMA DequeueInv ==
  ASSUME Inv, NEW c \in Consumers,
         DequeueStart(c) \/ DequeueCheck(c) \/ ReadBegin(c) \/ ReadEnd(c)
  PROVE  Inv'
<1> USE DEF Inv
<1>1. UNCHANGED <<head, tail, commit, pool, calls, ppc, old_tail>>
  BY DEF DequeueStart, DequeueCheck, ReadBegin, ReadEnd, producerVars
<1>2. Cursors' /\ Claims'
  BY <1>1 DEF Cursors, Claims, Slot
<1>3. \A d \in Consumers : GetIndex(old_head[d] + 1) \in Slots
  BY GetIndexRange DEF TypeOK
<1>4. TypeOK'
  BY <1>1, <1>3 DEF DequeueStart, DequeueCheck, ReadBegin, ReadEnd, CGoto, TypeOK
<1>5. CASE DequeueStart(c) \/ DequeueCheck(c)
  <2>1. Reads'
    BY <1>1, <1>5 DEF DequeueStart, DequeueCheck, CGoto, TypeOK, Reads, Cursors
  <2> QED
    BY <1>2, <1>4, <2>1
<1>6. CASE ReadBegin(c) \/ ReadEnd(c)
  <2>1. Reads'
    BY <1>1, <1>6 DEF ReadBegin, ReadEnd, CGoto, TypeOK, Reads
  <2> QED
    BY <1>2, <1>4, <2>1
<1> QED
  BY <1>5, <1>6

LEMMA TakeInv ==
  ASSUME Inv, NEW c \in Consumers, DequeueTake(c)
  PROVE  Inv'
<1> USE DEF Inv
<1>1. /\ UNCHANGED <<tail, commit, pool, calls, ppc, old_tail>>
      /\ head' = head \/ (head' = head + 1 /\ head + 1 < commit)
  BY DEF DequeueTake, producerVars, Reads
<1>2. TypeOK' /\ Cursors'
  <2>1. head' \in Nat /\ Cursors' /\ (tail - head - 1)' \in 0..Size
    BY <1>1, Places DEF TypeOK, Cursors
  <2>2. /\ cpc' \in [Consumers -> {"idle", "check", "read", "reading", "take"}]
        /\ old_head' \in [Consumers -> Nat]
        /\ element' \in [Consumers -> Elements \cup {None, Torn}]
        /\ out' \in [Consumers -> Elements \cup {None, Torn}]
    BY DEF DequeueTake, CGoto, TypeOK
  <2> QED
    BY <1>1, <2>1, <2>2 DEF TypeOK
<1>3. Claims'
  BY <1>1 DEF Claims, Slot, TypeOK
<1>4. Reads'
  <2>1. CASE head = old_head[c]
    BY <1>1, <2>1 DEF DequeueTake, CGoto, TypeOK, Reads
  <2>2. CASE head # old_head[c]
    BY <1>1, <2>2 DEF DequeueTake, CGoto, TypeOK, Reads
  <2> QED
    BY <2>1, <2>2
<1> QED
  BY <1>2, <1>3, <1>4

LEMMA NextInv == Inv /\ [Next]_vars => Inv'
<1> SUFFICES ASSUME Inv, [Next]_vars PROVE Inv'
  OBVIOUS
<1>1. CASE UNCHANGED vars
  BY <1>1 DEF vars, Inv, TypeOK, Cursors, Claims, Reads, Slot
<1>2. CASE Next
  BY <1>2, EnqueueInv, WriteInv, CommitInv, DequeueInv, TakeInv DEF Next
<1> QED
  BY <1>1, <1>2

THEOREM Invariance == Spec => []Inv
BY InitInv, NextInv, PTL DEF Spec

(* The cursors and locals of every thread stay in their sets, and Size()   *)
(* never exceeds the size given to Init nor wraps (bounded_queue.h:106).   *)
THEOREM TypeCorrect == Spec => []TypeOK
BY Invariance, PTL DEF Inv

(* However many producers, no two write one slot, and none writes a slot   *)
(* whose element is committed and not taken (Enqueue).                     *)
THEOREM WritersStayApart == Spec => []WritersApart
<1>1. Inv => WritersApart
  BY WritersAway DEF WritersApart, Writing
<1> QED
  BY <1>1, Invariance, PTL

-----------------------------------------------------------------------------
(* The refinement *)

Value == Elements \cup {None, Torn}

LEMMA ContentsSeq ==
  ASSUME Inv
  PROVE  /\ Contents \in Seq(Value)
         /\ Len(Contents) = commit - head - 1
         /\ \A i \in 1..(commit - head - 1) :
              Contents[i] = pool[GetIndex(head + i)]
<1>1. commit - head - 1 \in Nat /\ head \in Nat
  BY DEF Inv, TypeOK, Cursors
<1>2. \A i \in 1..(commit - head - 1) : pool[GetIndex(head + i)] \in Value
  <2>1. \A i \in 1..(commit - head - 1) : GetIndex(head + i) \in Slots
    BY <1>1, GetIndexRange
  <2> QED
    BY <2>1 DEF Inv, TypeOK, Value
<1> QED
  BY <1>1, <1>2 DEF Contents

(* Steps that move neither head_ nor commit_ leave the contents alone.     *)
LEMMA ContentsKept ==
  ASSUME Inv, Inv', UNCHANGED <<head, commit>>,
         \A n \in (head + 1)..(commit - 1) :
           pool'[GetIndex(n)] = pool[GetIndex(n)]
  PROVE  Contents' = Contents
<1>1. head \in Nat /\ commit \in Nat
  BY DEF Inv, TypeOK
<1>2. \A i \in 1..(commit - head - 1) :
        pool'[GetIndex(head + i)] = pool[GetIndex(head + i)]
  BY <1>1
<1> QED
  BY <1>1, <1>2 DEF Contents, GetIndex, PoolSize

LEMMA CommitAppends ==
  ASSUME Inv, Inv', NEW p \in Producers, EnqueueCommit(p)
  PROVE  Fifo!FifoEnqueue(<<p, calls[p]>>) /\ <<p, calls[p]>> \in Elements
<1> DEFINE v == <<p, calls[p]>>
<1>1. /\ commit' = commit + 1 /\ head' = head /\ pool' = pool /\ out' = out
      /\ pool[GetIndex(commit)] = v
      /\ commit < tail
  BY DEF EnqueueCommit, consumerVars, Inv, Claims, Writing, Slot
<1>2. v \in Elements
  <2>1. calls[p] \in 1..MaxEnqueues[p]
    <3>1. calls[p] \in Nat /\ MaxEnqueues[p] \in Nat
      BY SizeAssumption DEF Inv, TypeOK
    <3>2. calls[p] >= 1 /\ calls[p] <= MaxEnqueues[p]
      BY DEF EnqueueCommit, Inv, TypeOK, Claims
    <3> QED
      BY <3>1, <3>2
  <2> QED
    BY <2>1 DEF Elements
<1>3. head \in Nat /\ commit \in Nat /\ head < commit
      /\ Len(Contents) < Size
  <2>1. /\ head \in Nat /\ commit \in Nat /\ tail \in Nat
        /\ head < commit /\ tail - head - 1 <= Size
    BY DEF Inv, TypeOK, Cursors
  <2>2. Len(Contents) = commit - head - 1
    BY ContentsSeq
  <2> QED
    BY <1>1, <2>1, <2>2, Places
<1>4. Contents' = Append(Contents, v)
  <2>1. Contents' \in Seq(Value) /\ Len(Contents') = Len(Contents) + 1
    <3>1. (Contents \in Seq(Value) /\ Len(Contents) = commit - head - 1)'
      BY ContentsSeq, PTL
    <3>2. Len(Contents) = commit - head - 1
      BY ContentsSeq
    <3>3. commit' - head' - 1 = (commit - head - 1) + 1
      BY <1>1, <1>3
    <3> QED
      BY <3>1, <3>2, <3>3
  <2>2. \A i \in 1..(commit - head) : Contents'[i] = pool[GetIndex(head + i)]
    <3>1. (\A i \in 1..(commit - head - 1) :
             Contents[i] = pool[GetIndex(head + i)])'
      BY ContentsSeq, PTL
    <3> QED
      BY <1>1, <1>3, <3>1 DEF GetIndex, PoolSize
  <2>3. /\ Append(Contents, v) \in Seq(Value)
        /\ Len(Append(Contents, v)) = Len(Contents) + 1
        /\ \A i \in 1..Len(Contents) : Append(Contents, v)[i] = Contents[i]
        /\ Append(Contents, v)[Len(Contents) + 1] = v
    <3>1. v \in Value
      BY <1>2 DEF Value
    <3> QED
      BY <3>1, ContentsSeq, AppendProperties
  <2>4. ASSUME NEW i \in 1..Len(Contents')
        PROVE  Contents'[i] = Append(Contents, v)[i]
    <3>1. i \in 1..(commit - head)
      BY <1>3, <2>1, <2>4, ContentsSeq
    <3>2. CASE i = commit - head
      <4>1. head + i = commit /\ i = Len(Contents) + 1
        BY <1>3, <3>2, ContentsSeq
      <4> QED
        BY <1>1, <2>2, <2>3, <3>1, <4>1
    <3>3. CASE i # commit - head
      <4>1. i \in 1..(commit - head - 1)
        BY <1>3, <3>1, <3>3
      <4> QED
        BY <2>2, <2>3, <3>1, <4>1, ContentsSeq
    <3> QED
      BY <3>2, <3>3
  <2> QED
    BY <2>1, <2>3, <2>4, SeqEqual
<1> QED
  BY <1>1, <1>2, <1>3, <1>4 DEF Fifo!FifoEnqueue

LEMMA TakeTakes ==
  ASSUME Inv, Inv', NEW c \in Consumers, DequeueTake(c), head = old_head[c]
  PROVE  Fifo!FifoDequeue(c)
<1>1. /\ head' = head + 1 /\ commit' = commit /\ pool' = pool
      /\ out' = [out EXCEPT ![c] = pool[GetIndex(head + 1)]]
      /\ head + 1 < commit
  BY DEF DequeueTake, Inv, Reads
<1>2. head \in Nat /\ commit \in Nat /\ Contents \in Seq(Value)
      /\ Len(Contents) = commit - head - 1 /\ Contents # <<>>
  <2>1. head \in Nat /\ commit \in Nat
    BY DEF Inv, TypeOK
  <2>2. Len(Contents) # 0 /\ Contents \in Seq(Value)
    BY <1>1, <2>1, ContentsSeq
  <2> QED
    BY <2>1, <2>2, ContentsSeq, EmptySeq
<1>3. Head(Contents) = pool[GetIndex(head + 1)]
  <2>1. Contents[1] = pool[GetIndex(head + 1)]
    <3>1. 1 \in 1..(commit - head - 1)
      BY <1>1, <1>2
    <3> QED
      BY <3>1, ContentsSeq
  <2>2. Head(Contents) = Contents[1]
    BY <1>2
  <2> QED
    BY <2>1, <2>2
<1>4. Contents' = Tail(Contents)
  <2>1. (/\ Contents \in Seq(Value) /\ Len(Contents) = commit - head - 1
         /\ \A i \in 1..(commit - head - 1) :
              Contents[i] = pool[GetIndex(head + i)])'
    BY ContentsSeq, PTL
  <2>2. /\ Tail(Contents) \in Seq(Value)
        /\ Len(Tail(Contents)) = Len(Contents) - 1
        /\ \A i \in 1..Len(Tail(Contents)) : Tail(Contents)[i] = Contents[i + 1]
    BY <1>2, HeadTailProperties
  <2>3. ASSUME NEW i \in 1..(commit - head - 2)
        PROVE  Contents'[i] = Tail(Contents)[i]
    <3>1. i + 1 \in 1..(commit - head - 1) /\ head + 1 + i = head + (i + 1)
      BY <1>2, <2>3
    <3>2. Contents'[i] = pool[GetIndex(head + 1 + i)]
      <4>1. i \in 1..(commit' - head' - 1)
        <5>1. commit' - head' - 1 = commit - head - 2
          BY <1>1, <1>2
        <5> QED
          BY <5>1
      <4>2. Contents'[i] = pool'[GetIndex(head' + i)]
        BY <2>1, <4>1 DEF GetIndex, PoolSize
      <4> QED
        BY <1>1, <4>2
    <3>3. Tail(Contents)[i] = pool[GetIndex(head + (i + 1))]
      <4>1. i \in 1..Len(Tail(Contents))
        BY <1>2, <2>2, <2>3, SMTT(30)
      <4>2. Contents[i + 1] = pool[GetIndex(head + (i + 1))]
        BY <3>1, ContentsSeq
      <4> QED
        BY <2>2, <4>1, <4>2
    <3> QED
      BY <3>1, <3>2, <3>3
  <2>4. Len(Contents') = commit - head - 2 /\ Len(Tail(Contents)) = commit - head - 2
    <3>1. Len(Contents') = commit' - head' - 1
      BY <2>1
    <3>2. commit' - head' - 1 = commit - head - 2
      BY <1>1, <1>2
    <3>3. Len(Tail(Contents)) = commit - head - 2
      BY <1>2, <2>2
    <3> QED
      BY <3>1, <3>2, <3>3
  <2> QED
    BY <2>1, <2>2, <2>3, <2>4, SeqEqual
<1> QED
  BY <1>1, <1>2, <1>3, <1>4 DEF Fifo!FifoDequeue

LEMMA StepRefines ==
  ASSUME Inv, Inv', [Next]_vars
  PROVE  [Fifo!FifoNext]_Fifo!fifoVars
<1>1. CASE UNCHANGED vars
  <2>1. Contents' = Contents /\ out' = out
    BY <1>1 DEF vars, Contents, GetIndex, PoolSize
  <2> QED
    BY <2>1 DEF Fifo!fifoVars
<1>2. ASSUME NEW p \in Producers,
             EnqueueStart(p) \/ EnqueueCheck(p) \/ EnqueueClaim(p)
      PROVE  UNCHANGED <<Contents, out>>
  BY <1>2, ContentsKept DEF EnqueueStart, EnqueueCheck, EnqueueClaim, consumerVars
<1>3. ASSUME NEW p \in Producers, WriteBegin(p) \/ WriteEnd(p)
      PROVE  UNCHANGED <<Contents, out>>
  <2>1. /\ \E v : pool' = [pool EXCEPT ![Slot(p)] = v]
        /\ UNCHANGED <<head, tail, commit, calls, old_tail, out>>
        /\ ppc[p] \in Writing
    BY <1>3 DEF WriteBegin, WriteEnd, consumerVars, Writing
  <2> QED
    BY <2>1, WriteSlot, ContentsKept
<1>4. ASSUME NEW p \in Producers, EnqueueCommit(p)
      PROVE  Fifo!FifoNext
  BY <1>4, CommitAppends DEF Fifo!FifoNext
<1>5. ASSUME NEW c \in Consumers, DequeueStart(c) \/ ReadBegin(c) \/ ReadEnd(c)
      PROVE  UNCHANGED <<Contents, out>>
  BY <1>5, ContentsKept DEF DequeueStart, ReadBegin, ReadEnd
<1>6. ASSUME NEW c \in Consumers, DequeueCheck(c)
      PROVE  Fifo!FifoNext \/ UNCHANGED <<Contents, out>>
  <2>1. Contents' = Contents
    BY <1>6, ContentsKept DEF DequeueCheck
  <2>2. CASE old_head[c] + 1 = commit
    <3>1. out' = [out EXCEPT ![c] = None]
      BY <1>6, <2>2 DEF DequeueCheck
    <3>2. commit - head - 1 = 0
      BY <1>6, <2>2 DEF DequeueCheck, Inv, TypeOK, Cursors, Reads
    <3>3. Contents = <<>>
      BY <3>2, ContentsSeq, EmptySeq
    <3> QED
      BY <2>1, <3>1, <3>3 DEF Fifo!FifoNext, Fifo!FifoEmpty
  <2>3. CASE old_head[c] + 1 # commit
    BY <1>6, <2>1, <2>3 DEF DequeueCheck
  <2> QED
    BY <2>2, <2>3
<1>7. ASSUME NEW c \in Consumers, DequeueTake(c)
      PROVE  Fifo!FifoNext \/ UNCHANGED <<Contents, out>>
  <2>1. CASE head = old_head[c]
    BY <1>7, <2>1, TakeTakes DEF Fifo!FifoNext
  <2>2. CASE head # old_head[c]
    <3>1. UNCHANGED <<head, commit, pool, out>>
      BY <1>7, <2>2 DEF DequeueTake
    <3> QED
      BY <3>1, ContentsKept
  <2> QED
    BY <2>1, <2>2
<1> QED
  BY <1>1, <1>2, <1>3, <1>4, <1>5, <1>6, <1>7 DEF Next, Fifo!fifoVars

(* The ring implements the bounded first-in first-out queue of module      *)
(* BoundedFifo: whatever the interleaving, elements are returned whole, in *)
(* the order of their commits, and nothing is found only when there is     *)
(* nothing (Enqueue, Dequeue).                                             *)
THEOREM RingIsFifo == Spec => ImplementsFifo
<1>1. Init => Fifo!FifoInit
  <2> SUFFICES ASSUME Init PROVE Fifo!FifoInit
    OBVIOUS
  <2>1. Contents = <<>>
    <3>1. Inv /\ commit - head - 1 = 0
      BY InitInv DEF Init
    <3> QED
      BY <3>1, ContentsSeq, EmptySeq
  <2> QED
    BY <2>1 DEF Init, Fifo!FifoInit
<1>2. Inv /\ Inv' /\ [Next]_vars => [Fifo!FifoNext]_Fifo!fifoVars
  BY StepRefines
<1> QED
  BY <1>1, <1>2, Invariance, PTL DEF Spec, ImplementsFifo, Fifo!FifoSpec

=============================================================================
