---------------------------- MODULE AtomicRWLock ----------------------------
(***************************************************************************)
(* The reader-writer spin lock of base/atomic_rw_lock.h, as its guards of  *)
(* base/rw_lock_guard.h use it: a thread takes the lock in the constructor *)
(* of a guard and gives it back in the destructor.                         *)
(*                                                                         *)
(* Every access to lock_num_ and write_lock_wait_num_ is one step, so that *)
(* other threads may run between a load and the CAS that depends on it.    *)
(* retry_times only decides when to yield the processor and is left out.   *)
(* compare_exchange_weak may fail although the value is the expected one.  *)
(***************************************************************************)
EXTENDS Integers, FiniteSets

CONSTANT Threads

ASSUME ThreadsAssumption == IsFiniteSet(Threads)

RW_LOCK_FREE == 0
WRITE_EXCLUSIVE == -1

VARIABLES
  lock_num,             \* lock_num_: -1 a writer, 0 free, n > 0 readers
  write_lock_wait_num,  \* write_lock_wait_num_: writers inside WriteLock
  write_first,          \* write_first_: argument of the constructor
  pc,                   \* where each thread is
  seen,                 \* local variable lock_num of ReadLock; 0 outside it
  overtook              \* history: overtook[w][r] counts the read locks r got
                        \* since w began to wait; 2 stands for 2 or more

vars == <<lock_num, write_lock_wait_num, write_first, pc, seen, overtook>>

(* "read_test", "read_load" and "read_cas" are inside ReadLock, "write_cas" *)
(* and "write_got" inside WriteLock (before and after its CAS).             *)
Locations == {"idle", "read_test", "read_load", "read_cas", "reading",
              "write_cas", "write_got", "writing"}

Goto(t, loc) == pc' = [pc EXCEPT ![t] = loc]

Readers == {t \in Threads : pc[t] = "reading"}
Holding(t) == pc[t] \in {"write_got", "writing"}   \* t owns the write lock
WritersWaiting == {t \in Threads : pc[t] \in {"write_cas", "write_got"}}

Init ==
  /\ lock_num = RW_LOCK_FREE
  /\ write_lock_wait_num = 0
  /\ write_first \in BOOLEAN
  /\ pc = [t \in Threads |-> "idle"]
  /\ seen = [t \in Threads |-> RW_LOCK_FREE]
  /\ overtook = [w \in Threads |-> [r \in Threads |-> 0]]

-----------------------------------------------------------------------------
(* ReadLock *)

ReadEnter(t) ==
  /\ pc[t] = "idle"
  /\ seen' = [seen EXCEPT ![t] = lock_num]
  /\ Goto(t, "read_test")
  /\ UNCHANGED <<lock_num, write_lock_wait_num, write_first, overtook>>

MustWaitIgnoringWriters(t) == seen[t] < RW_LOCK_FREE

(* The condition of the inner loop. *)
MustWait(t) ==
  \/ seen[t] < RW_LOCK_FREE
  \/ write_first /\ write_lock_wait_num > 0

ReadTest(t) ==
  /\ pc[t] = "read_test"
  /\ Goto(t, IF MustWait(t) THEN "read_load" ELSE "read_cas")
  /\ UNCHANGED <<lock_num, write_lock_wait_num, write_first, seen, overtook>>

ReadReload(t) ==
  /\ pc[t] = "read_load"
  /\ seen' = [seen EXCEPT ![t] = lock_num]
  /\ Goto(t, "read_test")
  /\ UNCHANGED <<lock_num, write_lock_wait_num, write_first, overtook>>

(* The history that a read lock of t leaves for the writers still waiting. *)
CountOvertaking(t) ==
  overtook' = [w \in Threads |->
                 IF pc[w] = "write_cas" /\ overtook[w][t] < 2
                 THEN [overtook[w] EXCEPT ![t] = @ + 1]
                 ELSE overtook[w]]

ReadCASUnchecked(t) ==   \* a plain store in place of the CAS
  /\ pc[t] = "read_cas"
  /\ lock_num' = seen[t] + 1
  /\ Goto(t, "reading")
  /\ CountOvertaking(t)
  /\ seen' = [seen EXCEPT ![t] = RW_LOCK_FREE]
  /\ UNCHANGED <<write_lock_wait_num, write_first>>

ReadCAS(t) ==
  /\ pc[t] = "read_cas"
  /\ lock_num = seen[t]
  /\ lock_num' = seen[t] + 1
  /\ Goto(t, "reading")
  /\ CountOvertaking(t)
  /\ seen' = [seen EXCEPT ![t] = RW_LOCK_FREE]
  /\ UNCHANGED <<write_lock_wait_num, write_first>>

(* A failed compare_exchange_weak stores the current value in lock_num. *)
ReadCASFail(t) ==
  /\ pc[t] = "read_cas"
  /\ seen' = [seen EXCEPT ![t] = lock_num]
  /\ Goto(t, "read_test")
  /\ UNCHANGED <<lock_num, write_lock_wait_num, write_first, overtook>>

ReadUnlock(t) ==
  /\ pc[t] = "reading"
  /\ lock_num' = lock_num - 1
  /\ Goto(t, "idle")
  /\ UNCHANGED <<write_lock_wait_num, write_first, seen, overtook>>

-----------------------------------------------------------------------------
(* WriteLock *)

WriteEnter(t) ==
  /\ pc[t] = "idle"
  /\ write_lock_wait_num' = write_lock_wait_num + 1
  /\ Goto(t, "write_cas")
  /\ UNCHANGED <<lock_num, write_first, seen, overtook>>

WriteCASNotReset(t) ==   \* the expected value left at what the last CAS saw
  /\ pc[t] = "write_cas"
  /\ lock_num >= RW_LOCK_FREE
  /\ lock_num' = WRITE_EXCLUSIVE
  /\ Goto(t, "write_got")
  /\ overtook' = [overtook EXCEPT ![t] = [r \in Threads |-> 0]]
  /\ UNCHANGED <<write_lock_wait_num, write_first, seen>>

(* A failed CAS resets the expected value and retries: no state changes. *)
WriteCAS(t) ==
  /\ pc[t] = "write_cas"
  /\ lock_num = RW_LOCK_FREE
  /\ lock_num' = WRITE_EXCLUSIVE
  /\ Goto(t, "write_got")
  /\ overtook' = [overtook EXCEPT ![t] = [r \in Threads |-> 0]]
  /\ UNCHANGED <<write_lock_wait_num, write_first, seen>>

WriteGot(t) ==
  /\ pc[t] = "write_got"
  /\ write_lock_wait_num' = write_lock_wait_num - 1
  /\ Goto(t, "writing")
  /\ UNCHANGED <<lock_num, write_first, seen, overtook>>

WriteUnlock(t) ==
  /\ pc[t] = "writing"
  /\ lock_num' = lock_num + 1
  /\ Goto(t, "idle")
  /\ UNCHANGED <<write_lock_wait_num, write_first, seen, overtook>>

-----------------------------------------------------------------------------

ReadSteps(t) ==
  \/ ReadTest(t) \/ ReadReload(t) \/ ReadCAS(t) \/ ReadCASFail(t)
  \/ ReadUnlock(t)

WriteSteps(t) == WriteCAS(t) \/ WriteGot(t) \/ WriteUnlock(t)

Next == \E t \in Threads :
  \/ ReadEnter(t) \/ ReadTest(t) \/ ReadReload(t) \/ ReadCAS(t)
  \/ ReadCASFail(t) \/ ReadUnlock(t)
  \/ WriteEnter(t) \/ WriteCAS(t) \/ WriteGot(t) \/ WriteUnlock(t)

Spec == Init /\ [][Next]_vars

(* A thread inside ReadLock or WriteLock, or holding the lock, goes on: the *)
(* operating system runs it and a guard ends. Nobody has to ask for the lock. *)
Fairness == \A t \in Threads : WF_vars(ReadSteps(t)) /\ WF_vars(WriteSteps(t))

FairSpec == Spec /\ Fairness

-----------------------------------------------------------------------------
(* Properties *)

(* The variables stay in their sets: lock_num_ never leaves the range from *)
(* one writer to all threads reading, and the waiting count never wraps    *)
(* below zero (it is unsigned in the code).                                *)
TypeOK ==
  /\ lock_num \in WRITE_EXCLUSIVE..Cardinality(Threads)
  /\ write_lock_wait_num \in 0..Cardinality(Threads)
  /\ write_first \in BOOLEAN
  /\ pc \in [Threads -> Locations]
  /\ seen \in [Threads -> WRITE_EXCLUSIVE..Cardinality(Threads)]
  /\ overtook \in [Threads -> [Threads -> 0..2]]

(* A thread that owns the write lock (its CAS to WRITE_EXCLUSIVE in        *)
(* WriteLock succeeded and WriteUnlock has not run) excludes every reader  *)
(* and every other writer.                                                 *)
Exclusion ==
  \A t \in Threads : Holding(t) =>
    /\ Readers = {}
    /\ \A u \in Threads : Holding(u) => u = t

(* lock_num_ says exactly who is inside, although fetch_sub and fetch_add  *)
(* of the unlocks are blind: -1 when a writer is, the number of readers    *)
(* when none is; and write_lock_wait_num_ is the number of writers between *)
(* their fetch_add and fetch_sub.                                          *)
WordsCount ==
  /\ lock_num = IF \E t \in Threads : Holding(t) THEN WRITE_EXCLUSIVE
                                                 ELSE Cardinality(Readers)
  /\ write_lock_wait_num = Cardinality(WritersWaiting)

(* With write_first_, a waiting writer is overtaken at most once by each   *)
(* reader: only a ReadLock that had already seen no waiting writer may     *)
(* still succeed, and its thread must queue behind the writer next time.   *)
BoundedOvertaking ==
  write_first =>
    \A w, r \in Threads : pc[w] = "write_cas" => overtook[w][r] <= 1

(* With write_first_, readers that keep coming do not starve the writers:  *)
(* while somebody waits in WriteLock, somebody gets the write lock.        *)
WriterProgress ==
  [](write_first) =>
    (\E w \in Threads : pc[w] = "write_cas")
       ~> (\E w \in Threads : Holding(w))

=============================================================================
