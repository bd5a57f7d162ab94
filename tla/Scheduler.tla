----------------------------- MODULE Scheduler ------------------------------
(***************************************************************************)
(* Coroutines and the classic scheduling policy: croutine/, scheduler/,    *)
(* the routine body that croutine_factory.h builds around a data visitor,  *)
(* and the routine of task/task_manager.cpp.                               *)
(*                                                                         *)
(* The actors are the processors (threads that look for a ready routine    *)
(* and run it), the dispatchers (threads that deliver a message or submit  *)
(* a task and then notify its routine), the callers of CreateTask and      *)
(* RemoveTask, and the thread that calls Scheduler::Shutdown. One group is *)
(* modelled. The reader-writer locks are taken as what AtomicRWLock        *)
(* guarantees: exclusion, and writers that wait go before new readers.     *)
(* A routine's messages are counted; what a buffer keeps is left out. A    *)
(* worker stands for a TaskManager whose pool has one routine: with more   *)
(* of them the routines share its queue, and Enqueue notifies each.        *)
(***************************************************************************)
EXTENDS Integers, Sequences, FiniteSets, SequencesExt

CONSTANTS
  Visitors,       \* routines of CreateRoutineFactory(f, dv)
  Workers,        \* routines of TaskManager
  Procs,          \* processors
  Dispatchers,    \* threads that deliver messages
  Prio,           \* Prio[c]: priority of a routine
  MaxPrio,        \* MAX_PRIO
  MaxRoutines,    \* bound: routines created
  MaxMsgs,        \* bound: messages for each routine
  MaxNotify,      \* bound: notify_grp_ is counted up to here only
  NONE

CRs == Visitors \cup Workers
Prios == 0..(MaxPrio - 1)

ASSUME SchedulerAssumption ==
  /\ MaxPrio \in Nat \ {0} /\ \A c \in CRs : Prio[c] \in Prios
  /\ MaxRoutines \in Nat /\ MaxMsgs \in Nat /\ MaxNotify \in Nat
  /\ NONE \notin CRs \cup Procs

(* A routine's function is built by croutine_factory.h or by TaskManager.  *)
ASSUME KindsAssumption == Visitors \cap Workers = {}

VARIABLES
  cr,             \* the routines, see CRoutineType
  proc,           \* the processors: location, routine, scan position
  disp,           \* the dispatchers: location, routine
  down,           \* the scheduler's shutdown, see DownType
  id_cr,          \* id_cr_: the routines the scheduler knows
  rq,             \* cr_group_: run queue of each priority
  notify_grp      \* notify_grp_

vars == <<cr, proc, disp, down, id_cr, rq, notify_grp>>

CRoutineType == [
  state : {"READY", "FINISHED", "SLEEP", "DATA_WAIT"},    \* state_
  updated : BOOLEAN,       \* updated_: cleared means there is news
  lock : Procs \cup {NONE},                               \* lock_
  force_stop : BOOLEAN,    \* force_stop_
  body : {"loop", "fetch", "call", "slept", "hang_up"},  \* its function
  wake_due : BOOLEAN,      \* wake_time_ has passed
  callback : BOOLEAN,      \* RegisterNotifyCallback has been called
  mail : 0..MaxMsgs,       \* messages or tasks not fetched yet
  sent : 0..MaxMsgs,       \* messages or tasks delivered so far
  missed : BOOLEAN,        \* history: a notification found no callback
  tm_stop : BOOLEAN,       \* stop_ of the TaskManager it belongs to
  waits : BOOLEAN,         \* its creator or remover waits for a write lock
  create : {"absent", "insert", "push", "register", "created"},
  remove : {"none", "id", "rq", "spin", "removed"}]

ProcType == [
  pc : {"top", "level", "scan", "resume", "running", "wait", "exited"},
  cr : CRs \cup {NONE}, level : Prios, pos : Nat \ {0}]

DownType == [
  pc : {"up", "contexts", "removing", "stopping", "done"},
  stop : BOOLEAN,               \* stop_ of Scheduler
  ctx_stop : SUBSET Procs,      \* contexts whose stop_ is set
  running : SUBSET Procs,       \* processors whose running_ is set
  list : SUBSET CRs,            \* cr_list
  begun : SUBSET CRs]           \* removals Shutdown has begun

Top == MaxPrio - 1
NewCRoutine == [
  state |-> "READY", updated |-> TRUE, lock |-> NONE, force_stop |-> FALSE,
  body |-> "loop", wake_due |-> FALSE, callback |-> FALSE,
  mail |-> 0, sent |-> 0, missed |-> FALSE, tm_stop |-> FALSE,
  waits |-> FALSE, create |-> "absent", remove |-> "none"]

Init ==
  /\ cr = [c \in CRs |-> NewCRoutine]
  /\ proc = [p \in Procs |-> [pc |-> "top", cr |-> NONE, level |-> Top,
                              pos |-> 1]]
  /\ disp = [d \in Dispatchers |-> [pc |-> "idle", cr |-> NONE]]
  /\ down = [pc |-> "up", stop |-> FALSE, ctx_stop |-> {}, running |-> Procs,
             list |-> {}, begun |-> {}]
  /\ id_cr = {} /\ rq = [l \in Prios |-> <<>>] /\ notify_grp = 0

-----------------------------------------------------------------------------
(* The reader-writer locks. A thread that comes to WriteLock first counts  *)
(* itself in write_lock_wait_num_; readers enter until then.               *)

WaitsForId(c) == cr[c].create = "insert" \/ cr[c].remove = "id"
WaitsForRq(c) == cr[c].create = "push" \/ cr[c].remove = "rq"

RqWriter(l) == \E c \in CRs :
  Prio[c] = l /\ ((cr[c].waits /\ WaitsForRq(c)) \/ cr[c].remove = "spin")
RqHeld(l) == \E c \in CRs : Prio[c] = l /\ cr[c].remove = "spin"
RqReaders(l) ==
  {p \in Procs : proc[p].pc = "scan" /\ proc[p].level = l}
IdWriter == \E c \in CRs : cr[c].waits /\ WaitsForId(c)
IdReaders == {d \in Dispatchers : disp[d].pc = "flag"}

CountWriter(c) ==
  /\ ~cr[c].waits /\ (WaitsForId(c) \/ WaitsForRq(c))
  /\ cr' = [cr EXCEPT ![c].waits = TRUE]
  /\ UNCHANGED <<proc, disp, down, id_cr, rq, notify_grp>>

-----------------------------------------------------------------------------
(* CreateTask and SchedulerClassic::DispatchTask *)

Notified == IF notify_grp < MaxNotify THEN notify_grp + 1 ELSE notify_grp

(* A second CreateTask of a name finds its id and changes nothing.         *)
CreateTask(c) ==
  /\ cr[c].create = "absent" /\ ~down.stop
  /\ Cardinality({o \in CRs : cr[o].create # "absent"}) < MaxRoutines
  /\ cr' = [cr EXCEPT ![c].create = "insert"]
  /\ UNCHANGED <<proc, disp, down, id_cr, rq, notify_grp>>

InsertId(c) ==
  /\ cr[c].create = "insert" /\ cr[c].waits /\ IdReaders = {}
  /\ id_cr' = id_cr \cup {c}
  /\ cr' = [cr EXCEPT ![c].create = "push", ![c].waits = FALSE]
  /\ UNCHANGED <<proc, disp, down, rq, notify_grp>>

(* Then ClassicContext::Notify of the group. *)
PushRq(c) ==
  /\ cr[c].create = "push" /\ cr[c].waits
  /\ RqReaders(Prio[c]) = {} /\ ~RqHeld(Prio[c])
  /\ rq' = [rq EXCEPT ![Prio[c]] = Append(@, c)]
  /\ notify_grp' = Notified
  /\ cr' = [cr EXCEPT ![c].create = "register", ![c].waits = FALSE]
  /\ UNCHANGED <<proc, disp, down, id_cr>>

(* Only a visitor has a callback to register. *)
RegisterCallback(c) ==
  /\ cr[c].create = "register"
  /\ cr' = [cr EXCEPT ![c].callback = c \in Visitors, ![c].create = "created"]
  /\ UNCHANGED <<proc, disp, down, id_cr, rq, notify_grp>>

-----------------------------------------------------------------------------
(* Processor::Run and ClassicContext::NextRoutine *)

LoopTest(p) ==
  /\ proc[p].pc = "top"
  /\ proc' = [proc EXCEPT
       ![p].pc = IF p \notin down.running THEN "exited"
                 ELSE IF p \in down.ctx_stop THEN "wait" ELSE "level",
       ![p].level = Top]
  /\ UNCHANGED <<cr, disp, down, id_cr, rq, notify_grp>>

EnterLevel(p) ==
  /\ proc[p].pc = "level" /\ ~RqWriter(proc[p].level)
  /\ proc' = [proc EXCEPT ![p].pc = "scan", ![p].pos = 1]
  /\ UNCHANGED <<cr, disp, down, id_cr, rq, notify_grp>>

Candidate(p) == rq[proc[p].level][proc[p].pos]

LeaveLevel(p) ==
  /\ proc[p].pc = "scan" /\ proc[p].pos > Len(rq[proc[p].level])
  /\ proc' = [proc EXCEPT
       ![p].pc = IF proc[p].level = 0 THEN "wait" ELSE "level",
       ![p].level = IF proc[p].level = 0 THEN Top ELSE @ - 1,
       ![p].pos = 1]
  /\ UNCHANGED <<cr, disp, down, id_cr, rq, notify_grp>>

(* CRoutine::UpdateState: the state, and the flag, which test_and_set sets. *)
UpdateState(r) ==
  IF r.state = "SLEEP" /\ r.wake_due
  THEN [r EXCEPT !.state = "READY", !.wake_due = FALSE]
  ELSE IF ~r.updated /\ r.state = "DATA_WAIT"
       THEN [r EXCEPT !.state = "READY", !.updated = TRUE]
       ELSE [r EXCEPT !.updated = TRUE]

AcquireAlways(c) == TRUE
Acquire(c) == cr[c].lock = NONE

(* One routine of the queue: Acquire, UpdateState, and Release if it is    *)
(* not ready. Nobody else looks at the routine between the three but       *)
(* through its flag and its state, which UpdateState reads once.           *)
TryRoutine(p) ==
  LET c == Candidate(p)
      r == UpdateState(cr[c])
  IN /\ proc[p].pc = "scan" /\ proc[p].pos <= Len(rq[proc[p].level])
     /\ IF Acquire(c) /\ r.state = "READY"
        THEN /\ cr' = [cr EXCEPT ![c] = [r EXCEPT !.lock = p]]
             /\ proc' = [proc EXCEPT ![p] = [pc |-> "resume", cr |-> c,
                                             level |-> Top, pos |-> 1]]
        ELSE /\ cr' = IF Acquire(c) THEN [cr EXCEPT ![c] = r] ELSE cr
             /\ proc' = [proc EXCEPT ![p].pos = @ + 1]
     /\ UNCHANGED <<disp, down, id_cr, rq, notify_grp>>

(* The routine gives the processor back, from Resume's early return or by  *)
(* Yield, and the processor calls Release.                                 *)
Yield(p, c, r) ==
  /\ cr' = [cr EXCEPT ![c] = [r EXCEPT !.lock = NONE]]
  /\ proc' = [proc EXCEPT ![p].pc = "top", ![p].cr = NONE]
  /\ UNCHANGED <<disp, down, id_cr, rq, notify_grp>>

Resume(p) ==
  /\ proc[p].pc = "resume"
  /\ IF cr[proc[p].cr].force_stop
     THEN Yield(p, proc[p].cr, [cr[proc[p].cr] EXCEPT !.state = "FINISHED"])
     ELSE /\ proc' = [proc EXCEPT ![p].pc = "running"]
          /\ UNCHANGED <<cr, disp, down, id_cr, rq, notify_grp>>

(* ClassicContext::Wait ends when notify_grp_ is positive or after 1 ms. *)
Wait(p) ==
  /\ proc[p].pc = "wait"
  /\ notify_grp' = IF notify_grp > 0 THEN notify_grp - 1 ELSE 0
  /\ proc' = [proc EXCEPT ![p].pc = "top"]
  /\ UNCHANGED <<cr, disp, down, id_cr, rq>>

-----------------------------------------------------------------------------
(* The routines' functions. *)

Runs(p, c, at) == proc[p].pc = "running" /\ proc[p].cr = c /\ cr[c].body = at

Continue(p, c, r) ==
  /\ cr' = [cr EXCEPT ![c] = r]
  /\ UNCHANGED <<proc, disp, down, id_cr, rq, notify_grp>>

(* croutine_factory.h: set_state(DATA_WAIT); if TryFetch then f(msg) and   *)
(* Yield(READY), else Yield().                                             *)
SetDataWaitLast(p, c) ==   \* fetches first, the order of TaskManager's routine
  /\ c \in Visitors /\ cr[c].body \in {"loop", "hang_up"}
  /\ Runs(p, c, cr[c].body)
  /\ IF cr[c].body = "hang_up"
     THEN Yield(p, c, [cr[c] EXCEPT !.state = "DATA_WAIT", !.body = "loop"])
     ELSE IF cr[c].mail > 0
     THEN Continue(p, c, [cr[c] EXCEPT !.mail = @ - 1, !.missed = FALSE,
                                       !.body = "call"])
     ELSE Continue(p, c, [cr[c] EXCEPT !.missed = FALSE, !.body = "hang_up"])

SetDataWait(p, c) ==
  /\ c \in Visitors /\ Runs(p, c, "loop")
  /\ Continue(p, c, [cr[c] EXCEPT !.state = "DATA_WAIT", !.body = "fetch"])

TryFetch(p, c) ==
  /\ c \in Visitors /\ Runs(p, c, "fetch")
  /\ IF cr[c].mail > 0
     THEN Continue(p, c, [cr[c] EXCEPT !.mail = @ - 1, !.missed = FALSE,
                                       !.body = "call"])
     ELSE Yield(p, c, [cr[c] EXCEPT !.missed = FALSE, !.body = "loop"])

CallbackReturns(p, c) ==
  /\ c \in Visitors /\ (Runs(p, c, "call") \/ Runs(p, c, "slept"))
  /\ Yield(p, c, [cr[c] EXCEPT !.state = "READY", !.body = "loop"])

(* task_manager.cpp: while (!stop_) { if (!Dequeue) HangUp else task(); }. *)
(* A function that returns ends in CRoutineEntry's Yield(FINISHED).        *)
TaskLoop(p, c) ==
  /\ c \in Workers /\ Runs(p, c, "loop")
  /\ IF cr[c].tm_stop
     THEN Yield(p, c, [cr[c] EXCEPT !.state = "FINISHED"])
     ELSE Continue(p, c, [cr[c] EXCEPT !.body = "fetch"])

TaskDequeue(p, c) ==
  /\ c \in Workers /\ Runs(p, c, "fetch")
  /\ IF cr[c].mail > 0
     THEN Continue(p, c, [cr[c] EXCEPT !.mail = @ - 1, !.body = "call"])
     ELSE Continue(p, c, [cr[c] EXCEPT !.body = "hang_up"])

TaskReturns(p, c) ==
  /\ c \in Workers /\ (Runs(p, c, "call") \/ Runs(p, c, "slept"))
  /\ Continue(p, c, [cr[c] EXCEPT !.body = "loop"])

HangUp(p, c) ==
  /\ c \in Workers /\ Runs(p, c, "hang_up")
  /\ Yield(p, c, [cr[c] EXCEPT !.state = "DATA_WAIT", !.body = "loop"])

(* A callback or a task may call SleepFor or Yield of task.h (bound: one   *)
(* of them, once); the rest of it runs later. That Yield leaves the state  *)
(* alone: a task's routine is READY, a visitor's still DATA_WAIT, and runs *)
(* again only at the next notification.                                    *)
Sleep(p, c) ==
  /\ Runs(p, c, "call")
  /\ Yield(p, c, [cr[c] EXCEPT !.state = "SLEEP", !.wake_due = FALSE,
                               !.body = "slept"])

YieldInside(p, c) ==
  /\ Runs(p, c, "call")
  /\ Yield(p, c, [cr[c] EXCEPT !.body = "slept"])

WakeTimePasses(c) ==
  /\ cr[c].state = "SLEEP" /\ ~cr[c].wake_due
  /\ cr' = [cr EXCEPT ![c].wake_due = TRUE]
  /\ UNCHANGED <<proc, disp, down, id_cr, rq, notify_grp>>

-----------------------------------------------------------------------------
(* Delivering: the data dispatcher fills a buffer and calls the notifier's *)
(* callback; TaskManager::Enqueue pushes a task and calls NotifyTask. Both *)
(* end in SchedulerClassic::NotifyProcessor.                               *)

DGoto(d, loc) == disp' = [disp EXCEPT ![d].pc = loc]

Deliver(d, c) ==
  /\ disp[d].pc = "idle" /\ cr[c].sent < MaxMsgs
  /\ cr[c].create # "absent"    \* the visitor's buffer is there by then
  /\ c \in Workers => cr[c].create = "created" /\ ~cr[c].tm_stop
  /\ cr' = [cr EXCEPT ![c].mail = @ + 1, ![c].sent = @ + 1]
  /\ disp' = [disp EXCEPT ![d] = [pc |-> "notify", cr |-> c]]
  /\ UNCHANGED <<proc, down, id_cr, rq, notify_grp>>

DDone(d) == disp' = [disp EXCEPT ![d] = [pc |-> "idle", cr |-> NONE]]

CallNotifier(d) ==
  LET c == disp[d].cr IN
  /\ disp[d].pc = "notify"
  /\ IF c \in Visitors /\ ~cr[c].callback
     THEN DDone(d) /\ cr' = [cr EXCEPT ![c].missed = TRUE]
     ELSE (IF down.stop THEN DDone(d) ELSE DGoto(d, "enter")) /\ UNCHANGED cr
  /\ UNCHANGED <<proc, down, id_cr, rq, notify_grp>>

(* Under the read lock of id_cr_lock_: find the routine, look at its state *)
(* then set its flag and notify the group.                                 *)
NotifyEnter(d) ==
  LET c == disp[d].cr IN
  /\ disp[d].pc = "enter" /\ ~IdWriter
  /\ IF c \in id_cr /\ cr[c].state = "DATA_WAIT"
     THEN DGoto(d, "flag") /\ UNCHANGED notify_grp
     ELSE DDone(d) /\ notify_grp' = IF c \in id_cr THEN Notified ELSE notify_grp
  /\ UNCHANGED <<cr, proc, down, id_cr, rq>>

SetUpdateFlagForgotten(d) ==   \* notifies the group only
  /\ disp[d].pc = "flag"
  /\ notify_grp' = Notified
  /\ DDone(d)
  /\ UNCHANGED <<cr, proc, down, id_cr, rq>>

SetUpdateFlag(d) ==
  /\ disp[d].pc = "flag"
  /\ cr' = [cr EXCEPT ![disp[d].cr].updated = FALSE]
  /\ notify_grp' = Notified
  /\ DDone(d)
  /\ UNCHANGED <<proc, down, id_cr, rq>>

-----------------------------------------------------------------------------
(* RemoveTask, SchedulerClassic::RemoveCRoutine and                        *)
(* ClassicContext::RemoveCRoutine. DispatchTask and RemoveCRoutine of one  *)
(* id exclude each other; TaskManager::Shutdown first sets its stop_.      *)

Known(c) == c \in id_cr /\ cr[c].create \in {"register", "created"}

RemoveTask(c) ==
  /\ Known(c) /\ cr[c].remove = "none" /\ ~down.stop
  /\ cr' = [cr EXCEPT ![c].remove = "id", ![c].tm_stop = c \in Workers]
  /\ UNCHANGED <<proc, disp, down, id_cr, rq, notify_grp>>

(* Under stop_ RemoveTask returns true at once: the routine may be in the  *)
(* queue or on a processor when its owner goes on. Of the call only the    *)
(* manager's stop_ remains.                                                *)
RemoveTaskStopped(c) ==
  /\ cr[c].create \in {"register", "created"} /\ down.stop
  /\ c \in Workers /\ ~cr[c].tm_stop
  /\ cr' = [cr EXCEPT ![c].tm_stop = TRUE]
  /\ UNCHANGED <<proc, disp, down, id_cr, rq, notify_grp>>

EraseId(c) ==
  /\ cr[c].remove = "id" /\ cr[c].waits /\ IdReaders = {}
  /\ id_cr' = id_cr \ {c}
  /\ cr' = [cr EXCEPT ![c].force_stop = TRUE, ![c].remove = "rq",
                      ![c].waits = FALSE]
  /\ UNCHANGED <<proc, disp, down, rq, notify_grp>>

TakeRqLock(c) ==
  /\ cr[c].remove = "rq" /\ cr[c].waits
  /\ RqReaders(Prio[c]) = {} /\ ~RqHeld(Prio[c])
  /\ cr' = [cr EXCEPT ![c].remove = "spin", ![c].waits = FALSE]
  /\ UNCHANGED <<proc, disp, down, id_cr, rq, notify_grp>>

EraseRqNoWait(c) ==   \* erases the routine without waiting for Acquire
  /\ cr[c].remove = "spin"
  /\ rq' = [rq EXCEPT ![Prio[c]] = SelectSeq(@, LAMBDA x : x # c)]
  /\ cr' = [cr EXCEPT ![c].remove = "removed"]
  /\ UNCHANGED <<proc, disp, down, id_cr, notify_grp>>

(* while (!Acquire()) sleep; erase; Release -- under the write lock. The   *)
(* routine is in the queue: its creation and its removal exclude each      *)
(* other.                                                                  *)
EraseRq(c) ==
  /\ cr[c].remove = "spin" /\ cr[c].lock = NONE
  /\ \E i \in 1..Len(rq[Prio[c]]) :
       /\ rq[Prio[c]][i] = c
       /\ rq' = [rq EXCEPT ![Prio[c]] = RemoveAt(@, i)]
  /\ cr' = [cr EXCEPT ![c].remove = "removed"]
  /\ UNCHANGED <<proc, disp, down, id_cr, notify_grp>>

-----------------------------------------------------------------------------
(* Scheduler::Shutdown *)

ShutdownStop ==
  /\ down.pc = "up"
  /\ down' = [down EXCEPT !.stop = TRUE, !.pc = "contexts"]
  /\ UNCHANGED <<cr, proc, disp, id_cr, rq, notify_grp>>

(* ctx->Shutdown() of one context. *)
ContextShutdown(p) ==
  /\ down.pc = "contexts" /\ p \notin down.ctx_stop
  /\ down' = [down EXCEPT !.ctx_stop = @ \cup {p}]
  /\ notify_grp' = MaxNotify
  /\ UNCHANGED <<cr, proc, disp, id_cr, rq>>

ListRoutines ==
  /\ down.pc = "contexts" /\ down.ctx_stop = Procs /\ ~IdWriter
  /\ down' = [down EXCEPT !.pc = "removing", !.list = id_cr]
  /\ UNCHANGED <<cr, proc, disp, id_cr, rq, notify_grp>>

(* One removal at a time; an id that is gone by then is skipped. *)
ShutdownRemove(c) ==
  /\ down.pc = "removing" /\ c \in down.list \ down.begun
  /\ \A o \in down.begun : cr[o].remove = "removed"
  /\ cr[c].create \in {"register", "created"}
  /\ down' = [down EXCEPT !.begun = @ \cup {c}]
  /\ cr' = IF cr[c].remove = "none" THEN [cr EXCEPT ![c].remove = "id"] ELSE cr
  /\ UNCHANGED <<proc, disp, id_cr, rq, notify_grp>>

ShutdownRemoved ==
  /\ down.pc = "removing" /\ down.begun = down.list
  /\ \A o \in down.begun : cr[o].remove = "removed"
  /\ down' = [down EXCEPT !.pc = "stopping"]
  /\ UNCHANGED <<cr, proc, disp, id_cr, rq, notify_grp>>

ProcessorStopRunning(p) ==   \* leaves running_ set
  /\ down.pc = "stopping" /\ p \in down.running
  /\ notify_grp' = MaxNotify
  /\ UNCHANGED <<cr, proc, disp, down, id_cr, rq>>

(* Processor::Stop of one processor: running_ = false, the context's       *)
(* Shutdown again, then join.                                              *)
ProcessorStop(p) ==
  /\ down.pc = "stopping" /\ p \in down.running
  /\ \A q \in Procs \ down.running : proc[q].pc = "exited"
  /\ down' = [down EXCEPT !.running = @ \ {p}]
  /\ notify_grp' = MaxNotify
  /\ UNCHANGED <<cr, proc, disp, id_cr, rq>>

ShutdownDone ==
  /\ down.pc = "stopping" /\ \A p \in Procs : proc[p].pc = "exited"
  /\ down' = [down EXCEPT !.pc = "done"]
  /\ UNCHANGED <<cr, proc, disp, id_cr, rq, notify_grp>>

-----------------------------------------------------------------------------

CreateSteps(c) ==
  CountWriter(c) \/ InsertId(c) \/ PushRq(c) \/ RegisterCallback(c)

RemoveSteps(c) == CountWriter(c) \/ EraseId(c) \/ TakeRqLock(c) \/ EraseRq(c)

ProcSteps(p) ==
  \/ LoopTest(p) \/ EnterLevel(p) \/ LeaveLevel(p) \/ TryRoutine(p)
  \/ Resume(p) \/ Wait(p)
  \/ \E c \in CRs :
       \/ SetDataWait(p, c) \/ TryFetch(p, c) \/ CallbackReturns(p, c)
       \/ TaskLoop(p, c) \/ TaskDequeue(p, c)
       \/ TaskReturns(p, c) \/ HangUp(p, c)

NotifySteps(d) ==
  CallNotifier(d) \/ NotifyEnter(d) \/ SetUpdateFlag(d)

DownSteps ==
  \/ ListRoutines \/ ShutdownRemoved \/ ShutdownDone
  \/ \E p \in Procs : ContextShutdown(p) \/ ProcessorStop(p)
  \/ \E c \in CRs : ShutdownRemove(c)

Next ==
  \/ \E c \in CRs :
       \/ CreateTask(c) \/ CountWriter(c) \/ InsertId(c) \/ PushRq(c)
       \/ RegisterCallback(c) \/ WakeTimePasses(c)
       \/ RemoveTask(c) \/ RemoveTaskStopped(c) \/ EraseId(c)
       \/ TakeRqLock(c) \/ EraseRq(c) \/ ShutdownRemove(c)
  \/ \E p \in Procs :
       \/ LoopTest(p) \/ EnterLevel(p) \/ LeaveLevel(p) \/ TryRoutine(p)
       \/ Resume(p) \/ Wait(p)
       \/ ContextShutdown(p) \/ ProcessorStop(p)
  \/ \E p \in Procs, c \in CRs :
       \/ SetDataWait(p, c) \/ TryFetch(p, c) \/ CallbackReturns(p, c)
       \/ TaskLoop(p, c) \/ TaskDequeue(p, c) \/ TaskReturns(p, c)
       \/ HangUp(p, c) \/ Sleep(p, c) \/ YieldInside(p, c)
  \/ \E d \in Dispatchers, c \in CRs : Deliver(d, c)
  \/ \E d \in Dispatchers :
       CallNotifier(d) \/ NotifyEnter(d) \/ SetUpdateFlag(d)
  \/ ShutdownStop \/ ListRoutines \/ ShutdownRemoved \/ ShutdownDone

Spec == Init /\ [][Next]_vars

(* Threads run, callbacks and tasks return, time passes. Nobody has to     *)
(* create, remove, deliver, sleep or shut down.                            *)
Fairness ==
  /\ \A p \in Procs : WF_vars(ProcSteps(p))
  /\ \A d \in Dispatchers : WF_vars(NotifySteps(d))
  /\ \A c \in CRs : WF_vars(CreateSteps(c)) /\ WF_vars(RemoveSteps(c))
                    /\ WF_vars(WakeTimePasses(c))
  /\ WF_vars(DownSteps)

FairSpec == Spec /\ Fairness

-----------------------------------------------------------------------------
(* Properties *)

(* Every variable stays in its set.                                        *)
TypeOK ==
  /\ cr \in [CRs -> CRoutineType]
  /\ proc \in [Procs -> ProcType]
  /\ disp \in [Dispatchers -> [pc : {"idle", "notify", "enter", "flag"}, cr : CRs \cup {NONE}]]
  /\ down \in DownType
  /\ id_cr \subseteq CRs
  /\ rq \in [Prios -> Seq(CRs)]
  /\ notify_grp \in 0..MaxNotify

(* A routine's function runs on one processor at a time, and only a        *)
(* routine that is READY is entered: Resume's "Invalid Routine State!"     *)
(* never happens.                                                          *)
RunsAlone ==
  \A p \in Procs :
    /\ proc[p].pc \in {"resume", "running"} =>
         \A q \in Procs \ {p} : proc[q].cr # proc[p].cr
    /\ proc[p].pc = "resume" => cr[proc[p].cr].state = "READY"

(* When RemoveCRoutine returns, the routine is in no run queue and on no   *)
(* processor: nothing it refers to is used any more. A RemoveTask that     *)
(* found stop_ set promises nothing of the kind: it has not called         *)
(* RemoveCRoutine, and its owner must wait for Scheduler::Shutdown.        *)
RemovedIsQuiet ==
  \A c \in CRs : cr[c].remove = "removed" =>
    /\ \A p \in Procs : proc[p].cr # c
    /\ \A l \in Prios : \A i \in 1..Len(rq[l]) : rq[l][i] # c

(* No lost wakeup for data visitors: a routine that waits for data while a *)
(* message lies in its buffer, and whose notifiers have all passed the     *)
(* flag, has its update flag cleared, so the next scan makes it READY. It  *)
(* holds because the routine's function sets DATA_WAIT before TryFetch.    *)
Parked(c) == cr[c].state = "DATA_WAIT" /\ cr[c].body = "loop"

NoLostWakeup ==
  \A c \in Visitors :
    /\ Parked(c) /\ cr[c].mail > 0 /\ ~cr[c].missed
    /\ ~down.stop /\ ~cr[c].force_stop
    /\ \A d \in Dispatchers :
         disp[d].cr = c => disp[d].pc \notin {"notify", "enter", "flag"}
    => ~cr[c].updated

(* A message whose notification found the callback is fetched, unless the  *)
(* routine is removed or the scheduler shut down first, or a callback has  *)
(* yielded by task.h's Yield and waits for one more notification itself.   *)
YieldedInside(c) == cr[c].state = "DATA_WAIT" /\ cr[c].body = "slept"

Processed ==
  \A c \in Visitors :
    (cr[c].mail > 0 /\ ~cr[c].missed /\ cr[c].create = "created")
      ~> (cr[c].mail = 0 \/ cr[c].missed \/ cr[c].force_stop \/ down.stop
          \/ YieldedInside(c))

(* RemoveTask and Shutdown end, when called from outside the routines.     *)
ShutdownEnds == down.stop ~> (down.pc = "done")

(* What example/test_task.cpp expects of Async: a submitted task runs, so  *)
(* that the caller's future.get() returns.                                 *)
TaskRuns ==
  \A c \in Workers :
    (cr[c].mail > 0) ~> (cr[c].mail = 0 \/ cr[c].tm_stop \/ down.stop)

=============================================================================
