----------------------------- MODULE WorkerPool -----------------------------
(***************************************************************************)
(* The threads that wait on a BoundedQueue. The library has two users of   *)
(* WaitDequeue, with the same loop and the same shutdown:                  *)
(*   ThreadPool      base/thread_pool.h, with BlockWaitStrategy;           *)
(*   PerfEventCache  event/perf_event_cache.cpp, one thread, with the      *)
(*                   default SleepWaitStrategy.                            *)
(* The queue is the first-in first-out queue that module BoundedQueue is   *)
(* shown to implement. The condition variable of BlockWaitStrategy is the  *)
(* set of threads that wait on it; a notification reaches only those.      *)
(***************************************************************************)
EXTENDS Naturals, Sequences, FiniteSets

CONSTANTS
  Users,      \* subset of {"ThreadPool", "PerfEventCache"}
  Workers,    \* threads of a ThreadPool
  Tasks,      \* bound: each task is submitted at most once
  Capacity,   \* size given to the queue's Init
  NoTask

ASSUME PoolAssumption == NoTask \notin Tasks /\ Capacity \in Nat

VARIABLES
  user,       \* which of the two this is
  queue,      \* task_queue_ / event_queue_
  stop,       \* stop_ / shutdown_
  break_all_wait,
  waiting,    \* threads inside cv_.wait
  wpc,        \* location of each worker
  task,       \* the task a worker runs
  fate,       \* what became of each task
  notifying,  \* tasks in the queue whose Enqueue has yet to call NotifyOne
  dtor,       \* location of the destructor / Shutdown
  late        \* history: tasks a worker began since stop, up to 2

vars == <<user, queue, stop, break_all_wait, waiting, wpc, task, fate,
          notifying, dtor, late>>

Blocking == user = "ThreadPool"
(* The io_thread_ of PerfEventCache is one thread. *)
Started == IF user = "ThreadPool" THEN Workers
                                  ELSE {CHOOSE w \in Workers : TRUE}

Init ==
  /\ user \in Users
  /\ queue = <<>>
  /\ stop = FALSE /\ break_all_wait = FALSE
  /\ waiting = {}
  /\ wpc = [w \in Workers |-> IF w \in Started THEN "loop" ELSE "exited"]
  /\ task = [w \in Workers |-> NoTask]
  /\ fate = [t \in Tasks |-> "new"]
  /\ notifying = {}
  /\ dtor = "alive"
  /\ late = [w \in Workers |-> 0]

-----------------------------------------------------------------------------
(* Enqueue. Its three parts interleave with everything else: the test of   *)
(* stop_, the queue operation (whose result is ignored) and NotifyOne.     *)

Submit(t) ==
  /\ fate[t] = "new" /\ dtor # "done"
  /\ fate' = [fate EXCEPT ![t] =
                IF user = "ThreadPool" /\ stop THEN "refused" ELSE "accepted"]
  /\ UNCHANGED <<user, queue, stop, break_all_wait, waiting, wpc, task,
                 notifying, dtor, late>>

Push(t) ==
  /\ fate[t] = "accepted"
  /\ IF Len(queue) < Capacity
     THEN /\ queue' = Append(queue, t)
          /\ fate' = [fate EXCEPT ![t] = "queued"]
          /\ notifying' = notifying \cup {t}
     ELSE /\ fate' = [fate EXCEPT ![t] = "dropped"]
          /\ UNCHANGED <<queue, notifying>>
  /\ UNCHANGED <<user, stop, break_all_wait, waiting, wpc, task, dtor, late>>

(* cv_.notify_one wakes one waiting thread, or nobody when none waits; the *)
(* other strategies have nobody to wake.                                   *)
NotifyOne(t) ==
  /\ t \in notifying
  /\ notifying' = notifying \ {t}
  /\ \/ waiting = {} /\ UNCHANGED <<waiting, wpc>>
     \/ \E w \in waiting : /\ waiting' = waiting \ {w}
                           /\ wpc' = [wpc EXCEPT ![w] = "break_test"]
  /\ UNCHANGED <<user, queue, stop, break_all_wait, task, fate, dtor, late>>

-----------------------------------------------------------------------------
(* A worker: while (!stop_) { if (WaitDequeue(&task)) task(); } *)

WGoto(w, loc) == wpc' = [wpc EXCEPT ![w] = loc]

LoopTestForgotten(w) ==
  /\ wpc[w] = "loop"
  /\ WGoto(w, "break_test")
  /\ UNCHANGED <<user, queue, stop, break_all_wait, waiting, task, fate,
                 notifying, dtor, late>>

LoopTest(w) ==
  /\ wpc[w] = "loop"
  /\ WGoto(w, IF stop THEN "exited" ELSE "break_test")
  /\ UNCHANGED <<user, queue, stop, break_all_wait, waiting, task, fate,
                 notifying, dtor, late>>

BreakTestForgotten(w) ==
  /\ wpc[w] = "break_test"
  /\ WGoto(w, "dequeue")
  /\ UNCHANGED <<user, queue, stop, break_all_wait, waiting, task, fate,
                 notifying, dtor, late>>

(* WaitDequeue gives up when break_all_wait_ is set. *)
BreakTest(w) ==
  /\ wpc[w] = "break_test"
  /\ WGoto(w, IF break_all_wait THEN "loop" ELSE "dequeue")
  /\ UNCHANGED <<user, queue, stop, break_all_wait, waiting, task, fate,
                 notifying, dtor, late>>

TryDequeuePeek(w) ==   \* the element is copied and not removed
  /\ wpc[w] = "dequeue"
  /\ IF queue = <<>>
     THEN WGoto(w, "empty_wait") /\ UNCHANGED task
     ELSE task' = [task EXCEPT ![w] = Head(queue)] /\ WGoto(w, "run")
  /\ UNCHANGED <<user, queue, stop, break_all_wait, waiting, fate, notifying,
                 dtor, late>>

TryDequeue(w) ==
  /\ wpc[w] = "dequeue"
  /\ IF queue = <<>>
     THEN WGoto(w, "empty_wait") /\ UNCHANGED <<queue, task, late>>
     ELSE /\ queue' = Tail(queue)
          /\ task' = [task EXCEPT ![w] = Head(queue)]
          /\ late' = [late EXCEPT ![w] = IF stop /\ @ < 2 THEN @ + 1 ELSE @]
          /\ WGoto(w, "run")
  /\ UNCHANGED <<user, stop, break_all_wait, waiting, fate, notifying, dtor>>

EmptyWaitBlock(w) ==   \* blocks whatever the strategy
  /\ wpc[w] = "empty_wait"
  /\ waiting' = waiting \cup {w} /\ WGoto(w, "waiting")
  /\ UNCHANGED <<user, queue, stop, break_all_wait, task, fate, notifying, dtor,
                 late>>

(* EmptyWait: cv_.wait without a predicate, or a sleep that just ends. *)
EmptyWait(w) ==
  /\ wpc[w] = "empty_wait"
  /\ IF Blocking THEN waiting' = waiting \cup {w} /\ WGoto(w, "waiting")
                 ELSE WGoto(w, "break_test") /\ UNCHANGED waiting
  /\ UNCHANGED <<user, queue, stop, break_all_wait, task, fate, notifying, dtor,
                 late>>

SpuriousWakeup(w) ==
  /\ wpc[w] = "waiting"
  /\ waiting' = waiting \ {w}
  /\ WGoto(w, "break_test")
  /\ UNCHANGED <<user, queue, stop, break_all_wait, task, fate, notifying, dtor,
                 late>>

Run(w) ==
  /\ wpc[w] = "run"
  /\ fate' = [fate EXCEPT ![task[w]] = "done"]
  /\ task' = [task EXCEPT ![w] = NoTask]
  /\ WGoto(w, "loop")
  /\ UNCHANGED <<user, queue, stop, break_all_wait, waiting, notifying, dtor,
                 late>>

-----------------------------------------------------------------------------
(* ~ThreadPool / PerfEventCache::Shutdown *)

Stop ==
  /\ dtor = "alive"
  /\ stop' = TRUE
  /\ dtor' = "stopped"
  /\ UNCHANGED <<user, queue, break_all_wait, waiting, wpc, task, fate, notifying,
                 late>>

SetBreak ==
  /\ dtor = "stopped"
  /\ break_all_wait' = TRUE
  /\ dtor' = "notify_all"
  /\ UNCHANGED <<user, queue, stop, waiting, wpc, task, fate, notifying, late>>

NotifyAll ==
  /\ dtor = "notify_all"
  /\ wpc' = [w \in Workers |-> IF w \in waiting THEN "break_test" ELSE wpc[w]]
  /\ waiting' = {}
  /\ dtor' = "join"
  /\ UNCHANGED <<user, queue, stop, break_all_wait, task, fate, notifying, late>>

Join ==
  /\ dtor = "join"
  /\ \A w \in Workers : wpc[w] = "exited"
  /\ notifying = {} /\ \A t \in Tasks : fate[t] # "accepted"  \* callers left
  /\ dtor' = "done"
  /\ UNCHANGED <<user, queue, stop, break_all_wait, waiting, wpc, task, fate,
                 notifying, late>>

-----------------------------------------------------------------------------

WorkerSteps(w) ==
  LoopTest(w) \/ BreakTest(w) \/ TryDequeue(w) \/ EmptyWait(w) \/ Run(w)

DtorSteps == SetBreak \/ NotifyAll \/ Join

Next ==
  \/ \E t \in Tasks : Submit(t) \/ Push(t) \/ NotifyOne(t)
  \/ \E w \in Workers :
       \/ LoopTest(w) \/ BreakTest(w) \/ TryDequeue(w) \/ EmptyWait(w)
       \/ SpuriousWakeup(w) \/ Run(w)
  \/ Stop \/ SetBreak \/ NotifyAll \/ Join

Spec == Init /\ [][Next]_vars

(* Worker threads and the thread inside the destructor are scheduled, the  *)
(* tasks end, and a call of Enqueue that began ends. Nothing forces a      *)
(* spurious wakeup, a submission or a shutdown.                            *)
Fairness ==
  /\ \A w \in Workers : WF_vars(WorkerSteps(w))
  /\ \A t \in Tasks : WF_vars(Push(t) \/ NotifyOne(t))
  /\ WF_vars(DtorSteps)

FairSpec == Spec /\ Fairness

-----------------------------------------------------------------------------
(* Properties *)

Locations == {"loop", "break_test", "dequeue", "empty_wait", "waiting", "run",
              "exited"}

(* The variables stay in their sets; exactly the waiting threads are in    *)
(* the condition variable, and only a blocking strategy has any.           *)
TypeOK ==
  /\ user \in Users
  /\ queue \in Seq(Tasks) /\ Len(queue) <= Capacity
  /\ stop \in BOOLEAN /\ break_all_wait \in BOOLEAN
  /\ wpc \in [Workers -> Locations]
  /\ waiting = {w \in Workers : wpc[w] = "waiting"}
  /\ waiting # {} => Blocking
  /\ task \in [Workers -> Tasks \cup {NoTask}]
  /\ fate \in [Tasks -> {"new", "refused", "accepted", "queued", "dropped",
                         "done"}]
  /\ notifying \subseteq Tasks
  /\ dtor \in {"alive", "stopped", "notify_all", "join", "done"}
  /\ late \in [Workers -> 0..2]

(* Once stop_ is set a worker takes at most one more task, however full    *)
(* the queue is: the one it was already waiting for in WaitDequeue.        *)
StopsPromptly == \A w \in Workers : late[w] <= 1

(* A task that the queue accepted is in exactly one place: waiting in the  *)
(* queue once, with one worker, or done. None is lost by a Dequeue that    *)
(* races a notification or a shutdown, and none runs twice.                *)
OnePlace ==
  \A t \in Tasks :
    Cardinality({i \in 1..Len(queue) : queue[i] = t})
      + Cardinality({w \in Workers : task[w] = t})
      = IF fate[t] = "queued" THEN 1 ELSE 0

(* PerfEventCache, whose strategy polls: Shutdown ends.                    *)
PollingShutdownEnds ==
  [](user = "PerfEventCache") => (stop ~> dtor = "done")

(* PerfEventCache: an event in the queue is written, unless Shutdown comes *)
(* first.                                                                  *)
PollingDrains ==
  [](user = "PerfEventCache") =>
    \A t \in Tasks : (fate[t] = "queued") ~> (fate[t] = "done" \/ stop)

(* What the comments above ~ThreadPool say: the destructor wakes all       *)
(* threads of the pool, waits for them and joins them.                     *)
DestructorJoins == stop ~> dtor = "done"

=============================================================================
