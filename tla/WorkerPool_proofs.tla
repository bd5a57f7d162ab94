--------------------------- MODULE WorkerPool_proofs ---------------------------
(* The threads that wait on a queue, for any workers, tasks and capacity.  *)
(* That a task is in one place is not inductive as a count: the invariant  *)
(* says it of the places themselves (Places). A worker takes at most one   *)
(* task after stop_, since it tests stop_ before each (Stopping).          *)
EXTENDS WorkerPool, SequenceTheorems, FiniteSetTheorems, TLAPS

InQueue(t) == \E i \in 1..Len(queue) : queue[i] = t
Runs(w) == wpc[w] = "run"

(* The queue has each of its tasks once, a worker that runs has one of its *)
(* own, both have only tasks that are queued, and every such task is with  *)
(* one of them.                                                            *)
Places ==
  /\ \A i \in 1..Len(queue) : fate[queue[i]] = "queued"
  /\ \A i, j \in 1..Len(queue) : queue[i] = queue[j] => i = j
  /\ \A w \in Workers : Runs(w) <=> task[w] # NoTask
  /\ \A w \in Workers : Runs(w) => fate[task[w]] = "queued" /\ ~InQueue(task[w])
  /\ \A v, w \in Workers : Runs(v) /\ Runs(w) /\ task[v] = task[w] => v = w
  /\ \A t \in Tasks : fate[t] = "queued" =>
       InQueue(t) \/ \E w \in Workers : task[w] = t

(* A worker that took a task after stop_ was set exits at its next test.   *)
Stopping ==
  \A w \in Workers :
    /\ late[w] <= 1
    /\ late[w] = 1 => stop /\ wpc[w] \in {"run", "loop", "exited"}

Inv == TypeOK /\ Places /\ Stopping

-----------------------------------------------------------------------------
(* Both ends of the queue *)

LEMMA Pushed ==
  ASSUME NEW s \in Seq(Tasks), NEW t \in Tasks
  PROVE  /\ Append(s, t) \in Seq(Tasks) /\ Len(s) \in Nat
         /\ Len(Append(s, t)) = Len(s) + 1
         /\ Append(s, t)[Len(s) + 1] = t
         /\ \A i \in 1..Len(s) : Append(s, t)[i] = s[i]
BY AppendProperties, LenProperties

LEMMA Popped ==
  ASSUME NEW s \in Seq(Tasks), s # <<>>
  PROVE  /\ Tail(s) \in Seq(Tasks) /\ Len(s) \in Nat \ {0}
         /\ Len(Tail(s)) = Len(s) - 1
         /\ Head(s) \in Tasks /\ Head(s) = s[1]
         /\ \A i \in 1..(Len(s) - 1) : Tail(s)[i] = s[i + 1]
BY HeadTailProperties, LenProperties, EmptySeq

-----------------------------------------------------------------------------
LEMMA InitInv == Init => Inv
<1> SUFFICES ASSUME Init PROVE Inv
  OBVIOUS
<1>1. queue \in Seq(Tasks) /\ Len(queue) = 0
  BY DEF Init
<1>2. TypeOK
  <2>1. Len(queue) <= Capacity
    BY <1>1, PoolAssumption
  <2>2. /\ wpc \in [Workers -> Locations]
        /\ \A w \in Workers : wpc[w] # "waiting"
    BY DEF Init, Locations
  <2>3. waiting = {} /\ waiting = {w \in Workers : wpc[w] = "waiting"}
    BY <2>2 DEF Init
  <2>4. task \in [Workers -> Tasks \cup {NoTask}] /\ late \in [Workers -> 0..2]
    BY DEF Init
  <2>5. fate \in [Tasks -> {"new", "refused", "accepted", "queued", "dropped",
                           "done"}]
    BY DEF Init
  <2>6. /\ stop \in BOOLEAN /\ break_all_wait \in BOOLEAN /\ notifying \subseteq Tasks
        /\ dtor \in {"alive", "stopped", "notify_all", "join", "done"}
        /\ user \in Users
    BY DEF Init
  <2> QED
    BY <1>1, <2>1, <2>2, <2>3, <2>4, <2>5, <2>6 DEF TypeOK
<1>3. Places /\ Stopping
  BY <1>1 DEF Init, Places, Runs, InQueue, Stopping
<1> QED
  BY <1>2, <1>3 DEF Inv

(* Steps that leave the queue, the tasks and the workers that run alone.   *)
LEMMA PlacesKept ==
  ASSUME Inv, UNCHANGED <<queue, task, stop, late>>,
         \A w \in Workers : Runs(w)' <=> Runs(w),
         \A t \in Tasks : fate'[t] = "queued" <=> fate[t] = "queued",
         \A w \in Workers : wpc[w] \in {"loop", "exited"} =>
           wpc'[w] \in {"loop", "exited"} \/ (~stop /\ wpc'[w] = "break_test")
  PROVE  Places' /\ Stopping'
<1>1. Stopping'
  BY DEF Inv, Stopping, Runs, TypeOK
<1>2. \A t : InQueue(t)' <=> InQueue(t)
  BY DEF InQueue
<1>3. \A i \in 1..Len(queue) : queue[i] \in Tasks
  BY DEF Inv, TypeOK
<1>4. \A w \in Workers : Runs(w) => task[w] \in Tasks
  BY DEF Inv, TypeOK, Places
<1>5. Places'
  BY <1>2, <1>3, <1>4 DEF Inv, Places
<1> QED
  BY <1>1, <1>5

LEMMA EnqueueInv ==
  ASSUME Inv, NEW t \in Tasks, Submit(t) \/ Push(t) \/ NotifyOne(t)
  PROVE  Inv'
<1> USE DEF Inv
<1>1. CASE Submit(t)
  <2>1. TypeOK'
    BY <1>1 DEF Submit, TypeOK, Blocking
  <2>2. Places' /\ Stopping'
    BY <1>1, PlacesKept DEF Submit, TypeOK, Runs
  <2> QED
    BY <2>1, <2>2
<1>2. CASE Push(t) /\ Len(queue) >= Capacity
  <2>1. fate' = [fate EXCEPT ![t] = "dropped"] /\ fate[t] = "accepted"
        /\ UNCHANGED <<user, queue, notifying, stop, break_all_wait, waiting,
                       wpc, task, dtor, late>>
    BY <1>2, PoolAssumption, LenProperties DEF Push, TypeOK
  <2>2. TypeOK'
    BY <2>1 DEF TypeOK, Blocking
  <2>3. Places' /\ Stopping'
    BY <2>1, PlacesKept DEF TypeOK, Runs
  <2> QED
    BY <2>2, <2>3
<1>3. CASE Push(t) /\ Len(queue) < Capacity
  <2>1. /\ queue' = Append(queue, t) /\ fate[t] = "accepted"
        /\ fate' = [fate EXCEPT ![t] = "queued"]
        /\ notifying' = notifying \cup {t}
        /\ UNCHANGED <<user, stop, break_all_wait, waiting, wpc, task, dtor, late>>
    BY <1>3 DEF Push
  <2>2. /\ queue' \in Seq(Tasks) /\ Len(queue) \in Nat
        /\ Len(queue') = Len(queue) + 1 /\ queue'[Len(queue) + 1] = t
        /\ \A i \in 1..Len(queue) : queue'[i] = queue[i]
    BY <2>1, Pushed DEF TypeOK
  <2>3. TypeOK'
    BY <1>3, <2>1, <2>2, PoolAssumption DEF TypeOK, Blocking
  <2>4. \A i \in 1..Len(queue) : queue[i] # t
    BY <2>1 DEF Places
  <2>5. \A w \in Workers : task[w] # t
    BY <2>1, PoolAssumption DEF Places
  <2>6. \A u \in Tasks : InQueue(u)' <=> InQueue(u) \/ u = t
    BY <2>2 DEF InQueue
  <2>7. \A u \in Tasks : fate'[u] = "queued" <=> fate[u] = "queued" \/ u = t
    BY <2>1 DEF TypeOK
  <2>8. Places'
    <3>1. \A i \in 1..Len(queue') : fate'[queue'[i]] = "queued"
      BY <2>2, <2>3, <2>7 DEF Places, TypeOK
    <3>2. \A i, j \in 1..Len(queue') : queue'[i] = queue'[j] => i = j
      BY <2>2, <2>4 DEF Places
    <3>3. \A w \in Workers : Runs(w) => task[w] \in Tasks
      BY DEF TypeOK, Places
    <3>4. \A w \in Workers :
            (Runs(w) => fate[task[w]] = "queued" /\ ~InQueue(task[w]))'
      BY <2>1, <2>5, <2>6, <2>7, <3>3 DEF Places, Runs
    <3>5. /\ \A w \in Workers : (Runs(w) <=> task[w] # NoTask)'
          /\ \A v, w \in Workers :
               (Runs(v) /\ Runs(w) /\ task[v] = task[w] => v = w)'
      BY <2>1 DEF Places, Runs
    <3>6. \A u \in Tasks : (fate[u] = "queued" =>
            InQueue(u) \/ \E w \in Workers : task[w] = u)'
      BY <2>1, <2>6, <2>7 DEF Places
    <3> QED
      BY <3>1, <3>2, <3>4, <3>5, <3>6 DEF Places
  <2>9. Stopping'
    BY <2>1 DEF Stopping
  <2> QED
    BY <2>3, <2>8, <2>9
<1>4. CASE NotifyOne(t)
  <2>1. /\ UNCHANGED <<user, queue, stop, break_all_wait, task, fate, dtor, late>>
        /\ notifying' \subseteq Tasks
        /\ \A w \in Workers : wpc'[w] = wpc[w]
             \/ (wpc[w] = "waiting" /\ wpc'[w] = "break_test")
        /\ wpc' \in [Workers -> Locations]
        /\ waiting' = {w \in Workers : wpc'[w] = "waiting"}
        /\ waiting' \subseteq waiting
    BY <1>4 DEF NotifyOne, TypeOK, Locations
  <2>2. TypeOK'
    BY <2>1 DEF TypeOK, Blocking
  <2>3. Places' /\ Stopping'
    BY <2>1, PlacesKept DEF Runs
  <2> QED
    BY <2>2, <2>3
<1> QED
  <2>1. Len(queue) \in Nat
    BY LenProperties DEF TypeOK
  <2> QED
    BY <1>1, <1>2, <1>3, <1>4, <2>1, PoolAssumption

-----------------------------------------------------------------------------
(* The steps of a worker *)

(* WaitDequeue outside the queue: the test of stop_, of break_all_wait_,   *)
(* the wait and its end.                                                   *)
LEMMA WaitInv ==
  ASSUME Inv, NEW w \in Workers,
         LoopTest(w) \/ BreakTest(w) \/ EmptyWait(w) \/ SpuriousWakeup(w)
  PROVE  Inv'
<1> USE DEF Inv
<1>1. /\ UNCHANGED <<user, queue, stop, break_all_wait, task, fate, notifying,
                     dtor, late>>
      /\ \E loc \in Locations : wpc' = [wpc EXCEPT ![w] = loc]
      /\ wpc[w] # "run" /\ wpc'[w] # "run"
      /\ wpc[w] \in {"loop", "exited"} =>
           wpc'[w] = "exited" \/ (~stop /\ wpc'[w] = "break_test")
  BY DEF LoopTest, BreakTest, EmptyWait, SpuriousWakeup, WGoto, TypeOK, Locations
<1>2. waiting' = {v \in Workers : wpc'[v] = "waiting"} /\ (waiting' # {} => Blocking)
  <2>1. CASE LoopTest(w) \/ BreakTest(w)
    BY <2>1 DEF LoopTest, BreakTest, WGoto, TypeOK, Locations
  <2>2. CASE EmptyWait(w)
    BY <2>2 DEF EmptyWait, WGoto, TypeOK, Locations
  <2>3. CASE SpuriousWakeup(w)
    BY <2>3 DEF SpuriousWakeup, WGoto, TypeOK, Locations
  <2> QED
    BY <2>1, <2>2, <2>3
<1>3. TypeOK'
  BY <1>1, <1>2 DEF TypeOK, Blocking
<1>4. Places' /\ Stopping'
  <2>1. \A v \in Workers : v # w => wpc'[v] = wpc[v]
    BY <1>1 DEF TypeOK
  <2>2. \A v \in Workers : Runs(v)' <=> Runs(v)
    BY <1>1, <2>1 DEF Runs
  <2> QED
    BY <1>1, <2>1, <2>2, PlacesKept
<1> QED
  BY <1>3, <1>4

LEMMA TryDequeueInv ==
  ASSUME Inv, NEW w \in Workers, TryDequeue(w)
  PROVE  Inv'
<1> USE DEF Inv
<1>1. wpc[w] = "dequeue" /\ ~Runs(w) /\ late[w] = 0
  BY DEF TryDequeue, Runs, Stopping, TypeOK
<1>2. CASE queue = <<>>
  <2>1. /\ wpc' = [wpc EXCEPT ![w] = "empty_wait"]
        /\ UNCHANGED <<user, queue, stop, break_all_wait, waiting, task, fate,
                       notifying, dtor, late>>
    BY <1>2 DEF TryDequeue, WGoto
  <2>2. TypeOK'
    BY <1>1, <2>1 DEF TypeOK, Blocking, Locations
  <2>3. Places' /\ Stopping'
    BY <1>1, <2>1, PlacesKept DEF Runs, TypeOK
  <2> QED
    BY <2>2, <2>3
<1>3. CASE queue # <<>>
  <2> DEFINE t == queue[1]
  <2>1. /\ wpc' = [wpc EXCEPT ![w] = "run"]
        /\ queue' = Tail(queue) /\ task' = [task EXCEPT ![w] = Head(queue)]
        /\ late' = [late EXCEPT ![w] = IF stop /\ @ < 2 THEN @ + 1 ELSE @]
        /\ UNCHANGED <<user, stop, break_all_wait, waiting, fate, notifying, dtor>>
    BY <1>3 DEF TryDequeue, WGoto
  <2>2. /\ queue' \in Seq(Tasks) /\ Len(queue) \in Nat \ {0}
        /\ Len(queue') = Len(queue) - 1 /\ Head(queue) = t /\ t \in Tasks
        /\ \A i \in 1..(Len(queue) - 1) : queue'[i] = queue[i + 1]
    BY <1>3, <2>1, Popped DEF TypeOK
  <2>3. late'[w] = (IF stop THEN 1 ELSE 0) /\ late' \in [Workers -> 0..2]
        /\ \A v \in Workers : v # w => late'[v] = late[v]
    BY <1>1, <2>1 DEF TypeOK
  <2>4. task'[w] = t /\ \A v \in Workers : v # w => task'[v] = task[v]
    BY <2>1, <2>2 DEF TypeOK
  <2>5. /\ wpc' \in [Workers -> Locations] /\ wpc'[w] = "run"
        /\ \A v \in Workers : v # w => wpc'[v] = wpc[v]
    BY <2>1 DEF TypeOK, Locations
  <2>6. TypeOK'
    <3>1. waiting' = {v \in Workers : wpc'[v] = "waiting"}
      BY <1>1, <2>1, <2>5 DEF TypeOK
    <3>2. Len(queue') <= Capacity
      BY <2>2, PoolAssumption DEF TypeOK
    <3>3. task' \in [Workers -> Tasks \cup {NoTask}]
      BY <2>1, <2>2 DEF TypeOK
    <3> QED
      BY <2>1, <2>2, <2>3, <2>5, <3>1, <3>2, <3>3 DEF TypeOK, Blocking
  <2>7. \A u \in Tasks : InQueue(u)' <=> (InQueue(u) /\ u # t)
    <3>1. \A u \in Tasks : InQueue(u)' => InQueue(u) /\ u # t
      BY <2>2 DEF InQueue, Places
    <3>2. ASSUME NEW u \in Tasks, InQueue(u), u # t
          PROVE  InQueue(u)'
      <4>1. PICK i \in 1..Len(queue) : queue[i] = u
        BY <3>2 DEF InQueue
      <4>2. i - 1 \in 1..(Len(queue) - 1) /\ queue'[i - 1] = u
        BY <2>2, <3>2, <4>1
      <4> QED
        BY <2>2, <4>2 DEF InQueue
    <3> QED
      BY <3>1, <3>2
  <2>8. InQueue(t) /\ fate[t] = "queued"
    BY <2>2 DEF InQueue, Places
  <2>9. \A v \in Workers : Runs(v) => task[v] \in Tasks /\ task[v] # t
    BY <2>8 DEF Places, TypeOK
  <2>10. \A v \in Workers : Runs(v)' <=> Runs(v) \/ v = w
    BY <2>5 DEF Runs
  <2>11. Places'
    <3>1. /\ \A i \in 1..Len(queue') : fate'[queue'[i]] = "queued"
          /\ \A i, j \in 1..Len(queue') : queue'[i] = queue'[j] => i = j
      BY <2>1, <2>2 DEF Places
    <3>2. \A v \in Workers : (Runs(v) <=> task[v] # NoTask)'
      BY <2>2, <2>4, <2>10, PoolAssumption DEF Places
    <3>3. \A v \in Workers :
            (Runs(v) => fate[task[v]] = "queued" /\ ~InQueue(task[v]))'
      BY <2>1, <2>2, <2>4, <2>7, <2>8, <2>9, <2>10 DEF Places
    <3>4. \A u, v \in Workers :
            (Runs(u) /\ Runs(v) /\ task[u] = task[v] => u = v)'
      BY <2>4, <2>9, <2>10 DEF Places
    <3>5. \A u \in Tasks : (fate[u] = "queued" =>
            InQueue(u) \/ \E v \in Workers : task[v] = u)'
      <4> SUFFICES ASSUME NEW u \in Tasks, fate[u] = "queued", u # t, ~InQueue(u)
                   PROVE  \E v \in Workers : task'[v] = u
        BY <2>1, <2>4, <2>7
      <4>1. PICK v \in Workers : task[v] = u
        BY DEF Places
      <4>2. Runs(v) /\ v # w
        BY <1>1, <4>1, PoolAssumption DEF Places
      <4> QED
        BY <2>4, <4>1, <4>2
    <3> QED
      BY <3>1, <3>2, <3>3, <3>4, <3>5 DEF Places
  <2>12. Stopping'
    BY <2>1, <2>3, <2>5 DEF Stopping
  <2> QED
    BY <2>6, <2>11, <2>12
<1> QED
  BY <1>2, <1>3

LEMMA RunInv ==
  ASSUME Inv, NEW w \in Workers, Run(w)
  PROVE  Inv'
<1> USE DEF Inv
<1> DEFINE t == task[w]
<1>1. /\ wpc' = [wpc EXCEPT ![w] = "loop"] /\ task' = [task EXCEPT ![w] = NoTask]
      /\ fate' = [fate EXCEPT ![t] = "done"]
      /\ UNCHANGED <<user, queue, stop, break_all_wait, waiting, notifying, dtor,
                     late>>
  BY DEF Run, WGoto
<1>2. Runs(w) /\ t \in Tasks /\ fate[t] = "queued" /\ ~InQueue(t)
  BY DEF Run, Runs, Places, TypeOK
<1>3. /\ \A v \in Workers : v # w => task'[v] = task[v] /\ wpc'[v] = wpc[v]
      /\ task'[w] = NoTask /\ wpc'[w] = "loop"
      /\ \A u \in Tasks : fate'[u] = "queued" <=> fate[u] = "queued" /\ u # t
  BY <1>1, <1>2 DEF TypeOK
<1>4. TypeOK'
  BY <1>1, <1>2, <1>3 DEF TypeOK, Blocking, Locations, Runs
<1>5. \A v \in Workers : Runs(v)' <=> Runs(v) /\ v # w
  BY <1>3 DEF Runs
<1>6. \A v \in Workers : Runs(v) => task[v] \in Tasks
  BY DEF Places, TypeOK
<1>7. \A u : InQueue(u)' <=> InQueue(u)
  BY <1>1 DEF InQueue
<1>8. \A i \in 1..Len(queue) : queue[i] \in Tasks /\ queue[i] # t
  BY <1>2 DEF TypeOK, InQueue
<1>9. Places'
  <2>1. /\ \A i \in 1..Len(queue') : fate'[queue'[i]] = "queued"
        /\ \A i, j \in 1..Len(queue') : queue'[i] = queue'[j] => i = j
    BY <1>1, <1>3, <1>8 DEF Places
  <2>2. \A v \in Workers : (Runs(v) <=> task[v] # NoTask)'
    BY <1>3, <1>5 DEF Places
  <2>3. \A v \in Workers :
          (Runs(v) => fate[task[v]] = "queued" /\ ~InQueue(task[v]))'
    BY <1>2, <1>3, <1>5, <1>6, <1>7 DEF Places
  <2>4. \A u, v \in Workers :
          (Runs(u) /\ Runs(v) /\ task[u] = task[v] => u = v)'
    BY <1>3, <1>5 DEF Places
  <2>5. \A u \in Tasks : (fate[u] = "queued" =>
          InQueue(u) \/ \E v \in Workers : task[v] = u)'
    BY <1>3, <1>7 DEF Places
  <2> QED
    BY <2>1, <2>2, <2>3, <2>4, <2>5 DEF Places
<1>10. Stopping'
  BY <1>1, <1>3 DEF Stopping
<1> QED
  BY <1>4, <1>9, <1>10

-----------------------------------------------------------------------------
LEMMA DtorInv ==
  ASSUME Inv, Stop \/ SetBreak \/ NotifyAll \/ Join
  PROVE  Inv'
<1> USE DEF Inv
<1>1. CASE Stop
  <2>1. TypeOK'
    BY <1>1 DEF Stop, TypeOK, Blocking
  <2>2. \A w \in Workers : Runs(w)' <=> Runs(w)
    BY <1>1 DEF Stop, Runs
  <2>3. \A t : InQueue(t)' <=> InQueue(t)
    BY <1>1 DEF Stop, InQueue
  <2>4. Places'
    BY <1>1, <2>2, <2>3 DEF Stop, Places
  <2>5. Stopping'
    BY <1>1 DEF Stop, Stopping
  <2> QED
    BY <2>1, <2>4, <2>5
<1>2. CASE SetBreak \/ Join
  <2>1. TypeOK'
    BY <1>2 DEF SetBreak, Join, TypeOK, Blocking
  <2>2. Places' /\ Stopping'
    BY <1>2, PlacesKept DEF SetBreak, Join, Runs
  <2> QED
    BY <2>1, <2>2
<1>3. CASE NotifyAll
  <2>1. /\ UNCHANGED <<user, queue, stop, break_all_wait, task, fate, notifying, late>>
        /\ wpc' \in [Workers -> Locations] /\ waiting' = {} /\ dtor' = "join"
        /\ \A w \in Workers : \/ wpc[w] # "waiting" /\ wpc'[w] = wpc[w]
                              \/ wpc[w] = "waiting" /\ wpc'[w] = "break_test"
    BY <1>3 DEF NotifyAll, TypeOK, Locations
  <2>2. waiting' = {w \in Workers : wpc'[w] = "waiting"}
    BY <2>1
  <2>3. TypeOK'
    BY <2>1, <2>2 DEF TypeOK, Blocking
  <2>4. Places' /\ Stopping'
    BY <2>1, PlacesKept DEF Runs
  <2> QED
    BY <2>3, <2>4
<1> QED
  BY <1>1, <1>2, <1>3

LEMMA StutterInv ==
  ASSUME Inv, UNCHANGED vars
  PROVE  Inv'
<1>1. TypeOK'
  BY DEF Inv, TypeOK, vars, Blocking
<1>2. Places' /\ Stopping'
  BY PlacesKept DEF vars, Runs
<1> QED
  BY <1>1, <1>2 DEF Inv

LEMMA NextInv == Inv /\ [Next]_vars => Inv'
<1> SUFFICES ASSUME Inv, [Next]_vars PROVE Inv'
  OBVIOUS
<1>1. CASE \E t \in Tasks : Submit(t) \/ Push(t) \/ NotifyOne(t)
  BY <1>1, EnqueueInv
<1>2. CASE \E w \in Workers : LoopTest(w) \/ BreakTest(w) \/ EmptyWait(w)
                              \/ SpuriousWakeup(w)
  BY <1>2, WaitInv
<1>3. CASE \E w \in Workers : TryDequeue(w)
  BY <1>3, TryDequeueInv
<1>4. CASE \E w \in Workers : Run(w)
  BY <1>4, RunInv
<1>5. CASE Stop \/ SetBreak \/ NotifyAll \/ Join
  BY <1>5, DtorInv
<1>6. CASE UNCHANGED vars
  BY <1>6, StutterInv
<1> QED
  BY <1>1, <1>2, <1>3, <1>4, <1>5, <1>6 DEF Next

(* What holds of every reachable state of the pool, and of PerfEventCache. *)
THEOREM Invariance == Spec => []Inv
<1> QED
  BY InitInv, NextInv, PTL DEF Spec

(* Exactly the threads inside cv_.wait are registered with the condition   *)
(* variable, only with BlockWaitStrategy, and the queue is in its capacity. *)
THEOREM TypeCorrect == Spec => []TypeOK
<1>1. Inv => TypeOK
  BY DEF Inv
<1> QED
  BY <1>1, Invariance, PTL

(* A worker of a stopped pool takes at most one more task (StopsPromptly), *)
(* however many are in the queue.                                          *)
THEOREM AtMostOneLate == Spec => []StopsPromptly
<1>1. Inv => StopsPromptly
  BY DEF Inv, Stopping, StopsPromptly
<1> QED
  BY <1>1, Invariance, PTL

-----------------------------------------------------------------------------
(* What is in no or in exactly one place *)

LEMMA NoOrOneElement ==
  ASSUME NEW S, \A x, y \in S : x = y
  PROVE  Cardinality(S) = IF S = {} THEN 0 ELSE 1
<1>1. CASE S = {}
  BY <1>1, FS_EmptySet
<1>2. CASE S # {}
  <2>1. PICK x : S = {x}
    BY <1>2
  <2> QED
    BY <1>2, <2>1, FS_Singleton
<1> QED
  BY <1>1, <1>2

LEMMA InOnePlace == Inv => OnePlace
<1> SUFFICES ASSUME Inv, NEW t \in Tasks
             PROVE  Cardinality({i \in 1..Len(queue) : queue[i] = t})
                      + Cardinality({w \in Workers : task[w] = t})
                      = IF fate[t] = "queued" THEN 1 ELSE 0
  BY DEF OnePlace
<1> DEFINE Q == {i \in 1..Len(queue) : queue[i] = t}
           W == {w \in Workers : task[w] = t}
<1>1. \A w \in W : Runs(w)
  BY PoolAssumption DEF Inv, Places
<1>2. Cardinality(Q) = (IF Q = {} THEN 0 ELSE 1)
  <2>1. \A x, y \in Q : x = y
    BY DEF Inv, Places
  <2> QED
    BY <2>1, NoOrOneElement
<1>3. Cardinality(W) = (IF W = {} THEN 0 ELSE 1)
  <2>1. \A x, y \in W : x = y
    BY <1>1 DEF Inv, Places
  <2> QED
    BY <2>1, NoOrOneElement
<1>4. fate[t] = "queued" => (Q = {} <=> W # {})
  BY <1>1 DEF Inv, Places, InQueue
<1>5. fate[t] # "queued" => Q = {} /\ W = {}
  BY <1>1 DEF Inv, Places
<1> QED
  BY <1>2, <1>3, <1>4, <1>5

(* A task that Enqueue put in the queue is in the queue once or with one   *)
(* worker until it is done (OnePlace): no Dequeue, notification or         *)
(* shutdown loses it or runs it twice.                                     *)
THEOREM InPlace == Spec => []OnePlace
<1> QED
  BY InOnePlace, Invariance, PTL

=============================================================================
