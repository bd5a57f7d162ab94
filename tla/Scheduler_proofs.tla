------------------------- MODULE Scheduler_proofs ---------------------------
(***************************************************************************)
(* What Scheduler.tla says of one routine, proved for every number of      *)
(* routines, processors, dispatchers and priorities. RunsAlone needs that  *)
(* a processor that is at a routine holds its lock_ (HoldsLock);           *)
(* RemovedIsQuiet needs in addition that a routine is in the run queue of  *)
(* its own priority, once, and only between PushRq and EraseRq (Queued),   *)
(* since a processor comes to a routine only by taking it from a queue.    *)
(***************************************************************************)
EXTENDS Scheduler, SequenceTheorems, TLAPS

(* What a routine is at any time, whoever works on it.                     *)
GoodRoutine == {r \in CRoutineType :
  /\ r.mail <= r.sent
  /\ r.remove # "none" => r.create \in {"register", "created"}}

Routines == \A c \in CRs : cr[c] \in GoodRoutine

(* A processor that is at a routine holds its lock, and finds it READY.    *)
HoldsLock ==
  \A p \in Procs :
    /\ proc[p].cr # NONE <=> proc[p].pc \in {"resume", "running"}
    /\ proc[p].cr # NONE => cr[proc[p].cr].lock = p
    /\ proc[p].pc = "resume" => cr[proc[p].cr].state = "READY"

(* A routine is in the run queue of its priority, once, from PushRq to     *)
(* EraseRq.                                                                *)
Queued ==
  \A l \in Prios : \A i \in 1..Len(rq[l]) :
    /\ Prio[rq[l][i]] = l
    /\ cr[rq[l][i]].create \in {"register", "created"}
    /\ cr[rq[l][i]].remove # "removed"
    /\ \A j \in 1..Len(rq[l]) : rq[l][j] = rq[l][i] => i = j

(* A removed routine is on no processor.                                   *)
NotRunning ==
  \A c \in CRs : cr[c].remove = "removed" => \A p \in Procs : proc[p].cr # c

Inv == TypeOK /\ Routines /\ HoldsLock /\ Queued /\ NotRunning

-----------------------------------------------------------------------------

(* A queue without its element i: what EraseRq leaves.                     *)
LEMMA RemoveAtProps ==
  ASSUME NEW S, NEW s \in Seq(S), NEW i \in 1..Len(s)
  PROVE  /\ RemoveAt(s, i) \in Seq(S)
         /\ Len(RemoveAt(s, i)) = Len(s) - 1
         /\ \A j \in 1..(Len(s) - 1) :
              RemoveAt(s, i)[j] = IF j < i THEN s[j] ELSE s[j + 1]
  <1> DEFINE a == SubSeq(s, 1, i - 1)
             b == SubSeq(s, i + 1, Len(s))
  <1>1. Len(s) \in Nat /\ \A j \in 1..Len(s) : s[j] \in S
    BY LenProperties, ElementOfSeq
  <1>2. a \in Seq(S) /\ Len(a) = i - 1 /\ \A j \in 1..(i - 1) : a[j] = s[j]
    BY <1>1, SubSeqProperties
  <1>3. /\ b \in Seq(S) /\ Len(b) = Len(s) - i
        /\ \A j \in 1..(Len(s) - i) : b[j] = s[i + j]
    <2>1. \A j \in (i + 1)..Len(s) : s[j] \in S
      BY <1>1
    <2>2. /\ b \in Seq(S)
          /\ Len(b) = IF i + 1 <= Len(s) THEN Len(s) - (i + 1) + 1 ELSE 0
          /\ \A j \in 1..(Len(s) - (i + 1) + 1) : b[j] = s[(i + 1) + j - 1]
      BY <1>1, <2>1, SubSeqProperties
    <2> QED
      BY <1>1, <2>2
  <1>4. RemoveAt(s, i) = a \o b
    BY DEF RemoveAt
  <1> HIDE DEF a, b
  <1>5. /\ a \o b \in Seq(S) /\ Len(a \o b) = Len(a) + Len(b)
        /\ \A j \in 1..(Len(a) + Len(b)) :
             (a \o b)[j] = IF j <= Len(a) THEN a[j] ELSE b[j - Len(a)]
    BY <1>2, <1>3, ConcatProperties
  <1>6. ASSUME NEW j \in 1..(Len(s) - 1)
        PROVE  (a \o b)[j] = IF j < i THEN s[j] ELSE s[j + 1]
    <2>1. CASE j < i
      BY <1>1, <1>2, <1>3, <1>5, <2>1
    <2>2. CASE j >= i
      <3>1. (a \o b)[j] = b[j - (i - 1)] /\ j - (i - 1) \in 1..(Len(s) - i)
        BY <1>1, <1>2, <1>3, <1>5, <2>2
      <3> QED
        BY <1>1, <1>3, <2>2, <3>1
    <2>3. j < i \/ j >= i
      BY <1>1
    <2> QED
      BY <2>1, <2>2, <2>3, Zenon
  <1> QED
    BY <1>1, <1>2, <1>3, <1>4, <1>5, <1>6


(* The invariant holds before a task is created.                           *)
LEMMA InitInv == Init => Inv
  <1> SUFFICES ASSUME Init PROVE Inv
    OBVIOUS
  <1> USE SchedulerAssumption DEF Init, Prios, Top
  <1>1. NewCRoutine \in GoodRoutine
    BY DEF GoodRoutine, CRoutineType, NewCRoutine
  <1>2. TypeOK
    BY <1>1 DEF TypeOK, GoodRoutine, ProcType, DownType
  <1>3. HoldsLock
    BY DEF HoldsLock
  <1>4. Queued
    BY DEF Queued
  <1>5. NotRunning
    BY DEF NotRunning, NewCRoutine
  <1> QED
    BY <1>1, <1>2, <1>3, <1>4, <1>5 DEF Inv, Routines

-----------------------------------------------------------------------------

(* A routine of which one field changes.                                   *)
LEMMA SetField ==
  ASSUME NEW r \in GoodRoutine
  PROVE  /\ \A x \in {"READY", "FINISHED", "SLEEP", "DATA_WAIT"} :
              [r EXCEPT !.state = x] \in GoodRoutine
         /\ \A x \in Procs \cup {NONE} : [r EXCEPT !.lock = x] \in GoodRoutine
         /\ \A x \in {"loop", "fetch", "call", "slept", "hang_up"} :
              [r EXCEPT !.body = x] \in GoodRoutine
         /\ \A x \in BOOLEAN : [r EXCEPT !.updated = x] \in GoodRoutine
         /\ \A x \in BOOLEAN : [r EXCEPT !.force_stop = x] \in GoodRoutine
         /\ \A x \in BOOLEAN : [r EXCEPT !.wake_due = x] \in GoodRoutine
         /\ \A x \in BOOLEAN : [r EXCEPT !.callback = x] \in GoodRoutine
         /\ \A x \in BOOLEAN : [r EXCEPT !.missed = x] \in GoodRoutine
         /\ \A x \in BOOLEAN : [r EXCEPT !.tm_stop = x] \in GoodRoutine
         /\ \A x \in BOOLEAN : [r EXCEPT !.waits = x] \in GoodRoutine
  <1>1. \A x \in {"READY", "FINISHED", "SLEEP", "DATA_WAIT"} :
          [r EXCEPT !.state = x] \in GoodRoutine
    BY DEF GoodRoutine, CRoutineType
  <1>2. \A x \in Procs \cup {NONE} : [r EXCEPT !.lock = x] \in GoodRoutine
    BY DEF GoodRoutine, CRoutineType
  <1>3. \A x \in {"loop", "fetch", "call", "slept", "hang_up"} :
          [r EXCEPT !.body = x] \in GoodRoutine
    BY DEF GoodRoutine, CRoutineType
  <1>4. \A x \in BOOLEAN : [r EXCEPT !.updated = x] \in GoodRoutine
    BY DEF GoodRoutine, CRoutineType
  <1>5. \A x \in BOOLEAN : [r EXCEPT !.force_stop = x] \in GoodRoutine
    BY DEF GoodRoutine, CRoutineType
  <1>6. \A x \in BOOLEAN : [r EXCEPT !.wake_due = x] \in GoodRoutine
    BY DEF GoodRoutine, CRoutineType
  <1>7. \A x \in BOOLEAN : [r EXCEPT !.callback = x] \in GoodRoutine
    BY DEF GoodRoutine, CRoutineType
  <1>8. \A x \in BOOLEAN : [r EXCEPT !.missed = x] \in GoodRoutine
    BY DEF GoodRoutine, CRoutineType
  <1>9. \A x \in BOOLEAN : [r EXCEPT !.tm_stop = x] \in GoodRoutine
    BY DEF GoodRoutine, CRoutineType
  <1>10. \A x \in BOOLEAN : [r EXCEPT !.waits = x] \in GoodRoutine
    BY DEF GoodRoutine, CRoutineType
  <1> QED
    BY <1>1, <1>2, <1>3, <1>4, <1>5, <1>6, <1>7, <1>8, <1>9, <1>10

(* Its stage of creation or removal, or its counters, change.              *)
LEMMA SetStage ==
  ASSUME NEW r \in GoodRoutine
  PROVE  /\ \A x \in {"register", "created"} : [r EXCEPT !.create = x] \in GoodRoutine
         /\ r.create \in {"register", "created"} =>
             \A x \in {"none", "id", "rq", "spin", "removed"} :
               [r EXCEPT !.remove = x] \in GoodRoutine
         /\ \A x \in 0..r.sent : [r EXCEPT !.mail = x] \in GoodRoutine
         /\ \A x \in r.sent..MaxMsgs : [r EXCEPT !.sent = x] \in GoodRoutine
  <1>1. \A x \in {"register", "created"} : [r EXCEPT !.create = x] \in GoodRoutine
    BY DEF GoodRoutine, CRoutineType
  <1>2. r.create \in {"register", "created"} =>
             \A x \in {"none", "id", "rq", "spin", "removed"} :
               [r EXCEPT !.remove = x] \in GoodRoutine
    BY DEF GoodRoutine, CRoutineType
  <1> USE SchedulerAssumption
  <1>3. \A x \in 0..r.sent : [r EXCEPT !.mail = x] \in GoodRoutine
    BY DEF GoodRoutine, CRoutineType
  <1>4. \A x \in r.sent..MaxMsgs : [r EXCEPT !.sent = x] \in GoodRoutine
    BY DEF GoodRoutine, CRoutineType
  <1> QED
    BY <1>1, <1>2, <1>3, <1>4

(* The routine a processor looks at is one that exists.                    *)
LEMMA CandidateType ==
  ASSUME TypeOK, NEW p \in Procs, proc[p].pos <= Len(rq[proc[p].level])
  PROVE  /\ Candidate(p) \in CRs
         /\ proc[p].level \in Prios
         /\ proc[p].pos \in 1..Len(rq[proc[p].level])
  <1>1. proc[p].level \in Prios /\ proc[p].pos \in Nat \ {0}
    BY DEF TypeOK, ProcType
  <1>2. rq[proc[p].level] \in Seq(CRs)
    BY <1>1 DEF TypeOK
  <1>3. proc[p].pos \in 1..Len(rq[proc[p].level])
    BY <1>1, <1>2, LenProperties
  <1> QED
    BY <1>1, <1>2, <1>3, ElementOfSeq DEF Candidate

(* UpdateState keeps a routine good, its lock and its stage.               *)
LEMMA UpdateGood ==
  ASSUME NEW r \in GoodRoutine
  PROVE  /\ UpdateState(r) \in GoodRoutine
         /\ UpdateState(r).lock = r.lock
         /\ UpdateState(r).create = r.create
         /\ UpdateState(r).remove = r.remove
  <1>1. CASE r.state = "SLEEP" /\ r.wake_due
    <2> DEFINE r1 == [r EXCEPT !.state = "READY"]
               r2 == [r1 EXCEPT !.wake_due = FALSE]
    <2>1. r1 \in GoodRoutine
      BY SetField
    <2>2. r2 \in GoodRoutine
      BY <2>1, SetField
    <2>3. UpdateState(r) = r2
      BY <1>1 DEF UpdateState
    <2>4. r2.lock = r.lock /\ r2.create = r.create /\ r2.remove = r.remove
      BY DEF GoodRoutine, CRoutineType
    <2> QED
      BY <2>2, <2>3, <2>4
  <1>2. CASE ~(r.state = "SLEEP" /\ r.wake_due) /\ ~r.updated /\ r.state = "DATA_WAIT"
    <2> DEFINE r1 == [r EXCEPT !.state = "READY"]
               r2 == [r1 EXCEPT !.updated = TRUE]
    <2>1. r1 \in GoodRoutine
      BY SetField
    <2>2. r2 \in GoodRoutine
      BY <2>1, SetField
    <2>3. UpdateState(r) = r2
      BY <1>2 DEF UpdateState
    <2>4. r2.lock = r.lock /\ r2.create = r.create /\ r2.remove = r.remove
      BY DEF GoodRoutine, CRoutineType
    <2> QED
      BY <2>2, <2>3, <2>4
  <1>3. CASE /\ ~(r.state = "SLEEP" /\ r.wake_due)
             /\ ~(~r.updated /\ r.state = "DATA_WAIT")
    <2> DEFINE r1 == [r EXCEPT !.updated = TRUE]
    <2>1. r1 \in GoodRoutine
      BY SetField
    <2>2. UpdateState(r) = r1
      BY <1>3 DEF UpdateState
    <2>3. r1.lock = r.lock /\ r1.create = r.create /\ r1.remove = r.remove
      BY DEF GoodRoutine, CRoutineType
    <2> QED
      BY <2>1, <2>2, <2>3
  <1> QED
    BY <1>1, <1>2, <1>3

(* A step that leaves one routine good leaves all of them good.            *)
LEMMA OneRoutine ==
  ASSUME TypeOK, Routines, NEW c \in CRs, NEW r \in GoodRoutine,
         cr' = [cr EXCEPT ![c] = r]
  PROVE  cr' \in [CRs -> CRoutineType] /\ Routines'
  BY DEF TypeOK, Routines, GoodRoutine

(* Every step takes good routines to good routines.                        *)
LEMMA RoutinesNext ==
  ASSUME TypeOK, Routines, HoldsLock, Next
  PROVE  cr' \in [CRs -> CRoutineType] /\ Routines'
  <1> DEFINE Goal == cr' \in [CRs -> CRoutineType] /\ Routines'
  <1> USE SchedulerAssumption
  <1>0. \A c \in CRs : cr[c] \in GoodRoutine /\ cr[c] \in CRoutineType
    BY DEF Routines, GoodRoutine
  <1>1. ASSUME NEW c \in CRs, CreateTask(c) PROVE Goal
    <2>1. [cr[c] EXCEPT !.create = "insert"] \in GoodRoutine
      BY <1>0, <1>1 DEF GoodRoutine, CRoutineType, CreateTask
    <2> QED
      BY <1>1, <2>1, OneRoutine DEF CreateTask
  <1>2. ASSUME NEW c \in CRs, InsertId(c) PROVE Goal
    <2> DEFINE r1 == [cr[c] EXCEPT !.create = "push"]
               r2 == [r1 EXCEPT !.waits = FALSE]
    <2>1. r1 \in GoodRoutine
      BY <1>0, <1>2 DEF GoodRoutine, CRoutineType, InsertId
    <2>2. cr' = [cr EXCEPT ![c] = r2]
      BY <1>2 DEF InsertId
    <2> HIDE DEF r1
    <2>3. r2 \in GoodRoutine
      BY <2>1, SetField
    <2> HIDE DEF r2
    <2> QED
      BY <2>2, <2>3, OneRoutine
  <1>3. ASSUME NEW c \in CRs, PushRq(c) PROVE Goal
    <2> DEFINE r1 == [cr[c] EXCEPT !.create = "register"]
               r2 == [r1 EXCEPT !.waits = FALSE]
    <2>1. r1 \in GoodRoutine
      BY <1>0, SetStage
    <2>2. cr' = [cr EXCEPT ![c] = r2]
      BY <1>3 DEF PushRq
    <2> HIDE DEF r1
    <2>3. r2 \in GoodRoutine
      BY <2>1, SetField
    <2> HIDE DEF r2
    <2> QED
      BY <2>2, <2>3, OneRoutine
  <1>4. ASSUME NEW c \in CRs, RegisterCallback(c) PROVE Goal
    <2> DEFINE b == c \in Visitors
               r1 == [cr[c] EXCEPT !.callback = b]
               r2 == [r1 EXCEPT !.create = "created"]
    <2>1. cr' = [cr EXCEPT ![c] = r2]
      BY <1>4 DEF RegisterCallback
    <2>2. b \in BOOLEAN
      OBVIOUS
    <2> HIDE DEF b
    <2>3. r1 \in GoodRoutine
      BY <1>0, <2>2, SetField
    <2> HIDE DEF r1
    <2>4. r2 \in GoodRoutine
      BY <2>3, SetStage
    <2> HIDE DEF r2
    <2> QED
      BY <2>1, <2>4, OneRoutine
  <1>5. ASSUME NEW c \in CRs, WakeTimePasses(c) PROVE Goal
    <2>1. [cr[c] EXCEPT !.wake_due = TRUE] \in GoodRoutine
      BY <1>0, SetField
    <2> QED
      BY <1>5, <2>1, OneRoutine DEF WakeTimePasses
  <1>6. ASSUME NEW c \in CRs, RemoveTask(c) PROVE Goal
    <2> DEFINE b == c \in Workers
               r1 == [cr[c] EXCEPT !.remove = "id"]
               r2 == [r1 EXCEPT !.tm_stop = b]
    <2>1. cr[c].create \in {"register", "created"}
      BY <1>6 DEF RemoveTask, Known
    <2>2. cr' = [cr EXCEPT ![c] = r2]
      BY <1>6 DEF RemoveTask
    <2>3. b \in BOOLEAN
      OBVIOUS
    <2> HIDE DEF b
    <2>4. r1 \in GoodRoutine
      BY <1>0, <2>1, SetStage
    <2> HIDE DEF r1
    <2>5. r2 \in GoodRoutine
      BY <2>3, <2>4, SetField
    <2> HIDE DEF r2
    <2> QED
      BY <2>2, <2>5, OneRoutine
  <1>7. ASSUME NEW c \in CRs, EraseId(c) PROVE Goal
    <2> DEFINE r1 == [cr[c] EXCEPT !.remove = "rq"]
               r2 == [r1 EXCEPT !.force_stop = TRUE]
               r3 == [r2 EXCEPT !.waits = FALSE]
    <2>1. cr[c].create \in {"register", "created"}
      BY <1>0, <1>7 DEF EraseId, GoodRoutine
    <2>2. r1 \in GoodRoutine
      BY <1>0, <2>1, SetStage
    <2>3. cr' = [cr EXCEPT ![c] = r3]
      BY <1>7 DEF EraseId
    <2> HIDE DEF r1
    <2>4. r2 \in GoodRoutine
      BY <2>2, SetField
    <2> HIDE DEF r2
    <2>5. r3 \in GoodRoutine
      BY <2>4, SetField
    <2> HIDE DEF r3
    <2> QED
      BY <2>3, <2>5, OneRoutine
  <1>8. ASSUME NEW c \in CRs, TakeRqLock(c) PROVE Goal
    <2>1. cr[c].create \in {"register", "created"}
      BY <1>0, <1>8 DEF TakeRqLock, GoodRoutine
    <2> DEFINE r1 == [cr[c] EXCEPT !.remove = "spin"]
               r2 == [r1 EXCEPT !.waits = FALSE]
    <2>2. r1 \in GoodRoutine
      BY <1>0, <2>1, SetStage
    <2>3. cr' = [cr EXCEPT ![c] = r2]
      BY <1>8 DEF TakeRqLock
    <2> HIDE DEF r1
    <2>4. r2 \in GoodRoutine
      BY <2>2, SetField
    <2> HIDE DEF r2
    <2> QED
      BY <2>3, <2>4, OneRoutine
  <1>9. ASSUME NEW c \in CRs, EraseRq(c) PROVE Goal
    <2>1. cr[c].create \in {"register", "created"}
      BY <1>0, <1>9 DEF EraseRq, GoodRoutine
    <2>2. [cr[c] EXCEPT !.remove = "removed"] \in GoodRoutine
      BY <1>0, <2>1, SetStage
    <2> QED
      BY <1>9, <2>2, OneRoutine DEF EraseRq
  <1>10. ASSUME NEW c \in CRs, ShutdownRemove(c) PROVE Goal
    <2>1. [cr[c] EXCEPT !.remove = "id"] \in GoodRoutine
      BY <1>0, <1>10, SetStage DEF ShutdownRemove
    <2>2. cr' = [cr EXCEPT ![c].remove = "id"] \/ cr' = cr
      BY <1>10 DEF ShutdownRemove
    <2> QED
      BY <2>1, <2>2, OneRoutine DEF TypeOK, Routines
  <1>11. ASSUME NEW p \in Procs, TryRoutine(p) PROVE Goal
    <2> DEFINE c == Candidate(p)
               r == UpdateState(cr[c])
    <2>1. c \in CRs
      BY <1>11, CandidateType DEF TryRoutine
    <2>2. r \in GoodRoutine
      BY <1>0, <2>1, UpdateGood
    <2>3. [r EXCEPT !.lock = p] \in GoodRoutine
      BY <2>2, SetField
    <2>4. \/ cr' = [cr EXCEPT ![c] = [r EXCEPT !.lock = p]]
          \/ cr' = [cr EXCEPT ![c] = r] \/ cr' = cr
      BY <1>11 DEF TryRoutine
    <2> HIDE DEF c, r
    <2> QED
      BY <2>1, <2>2, <2>3, <2>4, OneRoutine DEF TypeOK, Routines
  <1>12. ASSUME NEW p \in Procs, Resume(p) PROVE Goal
    <2> DEFINE c == proc[p].cr
               r == [cr[c] EXCEPT !.state = "FINISHED"]
    <2>1. c \in CRs
      BY <1>12 DEF TypeOK, Resume, HoldsLock, ProcType
    <2>2. r \in GoodRoutine
      BY <1>0, <2>1, SetField
    <2>3. [r EXCEPT !.lock = NONE] \in GoodRoutine
      BY <2>2, SetField
    <2>4. cr' = [cr EXCEPT ![c] = [r EXCEPT !.lock = NONE]] \/ cr' = cr
      BY <1>12 DEF Resume, Yield
    <2> HIDE DEF c, r
    <2> QED
      BY <2>1, <2>3, <2>4, OneRoutine DEF TypeOK, Routines
  <1>13. ASSUME NEW p \in Procs, NEW c \in CRs, SetDataWait(p, c) PROVE Goal
    <2> DEFINE r1 == [cr[c] EXCEPT !.state = "DATA_WAIT"]
               r2 == [r1 EXCEPT !.body = "fetch"]
    <2>1. r1 \in GoodRoutine
      BY <1>0, SetField
    <2>2. r2 \in GoodRoutine
      BY <2>1, SetField
    <2>3. cr' = [cr EXCEPT ![c] = r2]
      BY <1>13 DEF SetDataWait, Continue
    <2> HIDE DEF r1, r2
    <2> QED
      BY <2>2, <2>3, OneRoutine
  <1>14. ASSUME NEW p \in Procs, NEW c \in CRs, TryFetch(p, c) PROVE Goal
    <2>1. CASE cr[c].mail > 0
      <3> DEFINE r1 == [cr[c] EXCEPT !.mail = cr[c].mail - 1]
                 r2 == [r1 EXCEPT !.missed = FALSE]
                 r3 == [r2 EXCEPT !.body = "call"]
      <3>1. r1 \in GoodRoutine
        <4>1. cr[c].mail - 1 \in 0..cr[c].sent
          BY <1>0, <2>1 DEF CRoutineType, GoodRoutine
        <4> QED
          BY <1>0, <4>1, SetStage
      <3>2. r2 \in GoodRoutine
        BY <3>1, SetField
      <3>3. r3 \in GoodRoutine
        BY <3>2, SetField
      <3>4. cr' = [cr EXCEPT ![c] = r3]
        BY <1>14, <2>1 DEF TryFetch, Continue
      <3> HIDE DEF r1, r2, r3
      <3> QED
        BY <3>3, <3>4, OneRoutine
    <2>2. CASE ~(cr[c].mail > 0)
      <3> DEFINE r1 == [cr[c] EXCEPT !.missed = FALSE]
                 r2 == [r1 EXCEPT !.body = "loop"]
                 r3 == [r2 EXCEPT !.lock = NONE]
      <3>1. r1 \in GoodRoutine
        BY <1>0, SetField
      <3>2. r2 \in GoodRoutine
        BY <3>1, SetField
      <3>3. r3 \in GoodRoutine
        BY <3>2, SetField
      <3>4. cr' = [cr EXCEPT ![c] = r3]
        BY <1>14, <2>2 DEF TryFetch, Yield
      <3> HIDE DEF r1, r2, r3
      <3> QED
        BY <3>3, <3>4, OneRoutine
    <2> QED
      BY <2>1, <2>2
  <1>15. ASSUME NEW p \in Procs, NEW c \in CRs, CallbackReturns(p, c) PROVE Goal
    <2> DEFINE r1 == [cr[c] EXCEPT !.state = "READY"]
               r2 == [r1 EXCEPT !.body = "loop"]
               r3 == [r2 EXCEPT !.lock = NONE]
    <2>1. r1 \in GoodRoutine
      BY <1>0, SetField
    <2>2. r2 \in GoodRoutine
      BY <2>1, SetField
    <2>3. r3 \in GoodRoutine
      BY <2>2, SetField
    <2>4. cr' = [cr EXCEPT ![c] = r3]
      BY <1>15 DEF CallbackReturns, Yield
    <2> HIDE DEF r1, r2, r3
    <2> QED
      BY <2>3, <2>4, OneRoutine
  <1>16. ASSUME NEW p \in Procs, NEW c \in CRs, TaskDequeue(p, c) PROVE Goal
    <2>1. CASE cr[c].mail > 0
      <3> DEFINE r1 == [cr[c] EXCEPT !.mail = cr[c].mail - 1]
                 r2 == [r1 EXCEPT !.body = "call"]
      <3>1. r1 \in GoodRoutine
        <4>1. cr[c].mail - 1 \in 0..cr[c].sent
          BY <1>0, <2>1 DEF CRoutineType, GoodRoutine
        <4> QED
          BY <1>0, <4>1, SetStage
      <3>2. r2 \in GoodRoutine
        BY <3>1, SetField
      <3>3. cr' = [cr EXCEPT ![c] = r2]
        BY <1>16, <2>1 DEF TaskDequeue, Continue
      <3> HIDE DEF r1, r2
      <3> QED
        BY <3>2, <3>3, OneRoutine
    <2>2. CASE ~(cr[c].mail > 0)
      <3> DEFINE r1 == [cr[c] EXCEPT !.body = "hang_up"]
      <3>1. r1 \in GoodRoutine
        BY <1>0, SetField
      <3>2. cr' = [cr EXCEPT ![c] = r1]
        BY <1>16, <2>2 DEF TaskDequeue, Continue
      <3> HIDE DEF r1
      <3> QED
        BY <3>1, <3>2, OneRoutine
    <2> QED
      BY <2>1, <2>2
  <1>17. ASSUME NEW p \in Procs, NEW c \in CRs, TaskReturns(p, c) PROVE Goal
    <2>1. [cr[c] EXCEPT !.body = "loop"] \in GoodRoutine
      BY <1>0, SetField
    <2> QED
      BY <1>17, <2>1, OneRoutine DEF TaskReturns, Continue
  <1>18. ASSUME NEW p \in Procs, NEW c \in CRs, HangUp(p, c) PROVE Goal
    <2> DEFINE r1 == [cr[c] EXCEPT !.state = "DATA_WAIT"]
               r2 == [r1 EXCEPT !.body = "loop"]
               r3 == [r2 EXCEPT !.lock = NONE]
    <2>1. r1 \in GoodRoutine
      BY <1>0, SetField
    <2>2. r2 \in GoodRoutine
      BY <2>1, SetField
    <2>3. r3 \in GoodRoutine
      BY <2>2, SetField
    <2>4. cr' = [cr EXCEPT ![c] = r3]
      BY <1>18 DEF HangUp, Yield
    <2> HIDE DEF r1, r2, r3
    <2> QED
      BY <2>3, <2>4, OneRoutine
  <1>19. ASSUME NEW p \in Procs, NEW c \in CRs, Sleep(p, c) PROVE Goal
    <2> DEFINE r1 == [cr[c] EXCEPT !.state = "SLEEP"]
               r2 == [r1 EXCEPT !.wake_due = FALSE]
               r3 == [r2 EXCEPT !.body = "slept"]
               r4 == [r3 EXCEPT !.lock = NONE]
    <2>1. r1 \in GoodRoutine
      BY <1>0, SetField
    <2>2. r2 \in GoodRoutine
      BY <2>1, SetField
    <2>3. r3 \in GoodRoutine
      BY <2>2, SetField
    <2>4. r4 \in GoodRoutine
      BY <2>3, SetField
    <2>5. cr' = [cr EXCEPT ![c] = r4]
      BY <1>19 DEF Sleep, Yield
    <2> HIDE DEF r1, r2, r3, r4
    <2> QED
      BY <2>4, <2>5, OneRoutine
  <1>20. ASSUME NEW d \in Dispatchers, NEW c \in CRs, Deliver(d, c) PROVE Goal
    <2> DEFINE r1 == [cr[c] EXCEPT !.sent = cr[c].sent + 1]
               r2 == [r1 EXCEPT !.mail = cr[c].mail + 1]
    <2>1. cr' = [cr EXCEPT ![c] = r2]
      BY <1>20 DEF Deliver
    <2>2. /\ cr[c].sent + 1 \in cr[c].sent..MaxMsgs
          /\ cr[c].mail + 1 \in 0..(cr[c].sent + 1)
      BY <1>0, <1>20 DEF Deliver, GoodRoutine, CRoutineType
    <2>3. r1 \in GoodRoutine
      BY <1>0, <2>2, SetStage
    <2>4. r1.sent = cr[c].sent + 1
      BY <1>0 DEF CRoutineType
    <2> HIDE DEF r1
    <2>5. r2 \in GoodRoutine
      BY <2>2, <2>3, <2>4, SetStage
    <2> HIDE DEF r2
    <2> QED
      BY <2>1, <2>5, OneRoutine
  <1>21. ASSUME NEW d \in Dispatchers, CallNotifier(d) PROVE Goal
    <2> DEFINE c == disp[d].cr
    <2>1. CASE c \in Visitors /\ ~cr[c].callback
      <3>1. c \in CRs /\ [cr[c] EXCEPT !.missed = TRUE] \in GoodRoutine
        BY <1>0, <2>1, SetField DEF CRs
      <3>2. cr' = [cr EXCEPT ![c].missed = TRUE]
        BY <1>21, <2>1 DEF CallNotifier
      <3> HIDE DEF c
      <3> QED
        BY <3>1, <3>2, OneRoutine
    <2>2. CASE ~(c \in Visitors /\ ~cr[c].callback)
      BY <1>21, <2>2 DEF CallNotifier, TypeOK, Routines
    <2> QED
      BY <2>1, <2>2
  <1>22. ASSUME NEW d \in Dispatchers, SetUpdateFlag(d) PROVE Goal
    <2> DEFINE c == disp[d].cr
    <2>1. cr' = [cr EXCEPT ![c].updated = FALSE]
      BY <1>22 DEF SetUpdateFlag
    <2>2. c \in CRs => [cr[c] EXCEPT !.updated = FALSE] \in GoodRoutine
      BY <1>0, SetField
    <2>3. c \notin CRs => cr' = cr
      BY <2>1 DEF TypeOK
    <2> HIDE DEF c
    <2> QED
      BY <2>1, <2>2, <2>3, OneRoutine DEF TypeOK, Routines
  <1>23. CASE UNCHANGED cr
    BY <1>23 DEF TypeOK, Routines
  <1>24. ASSUME NEW p \in Procs, NEW c \in CRs, TaskLoop(p, c) PROVE Goal
    <2>1. CASE cr[c].tm_stop
      <3> DEFINE r1 == [cr[c] EXCEPT !.state = "FINISHED"]
                 r2 == [r1 EXCEPT !.lock = NONE]
      <3>1. r1 \in GoodRoutine
        BY <1>0, SetField
      <3>2. r2 \in GoodRoutine
        BY <3>1, SetField
      <3>3. cr' = [cr EXCEPT ![c] = r2]
        BY <1>24, <2>1 DEF TaskLoop, Yield
      <3> HIDE DEF r1, r2
      <3> QED
        BY <3>2, <3>3, OneRoutine
    <2>2. CASE ~cr[c].tm_stop
      <3> DEFINE r1 == [cr[c] EXCEPT !.body = "fetch"]
      <3>1. r1 \in GoodRoutine
        BY <1>0, SetField
      <3>2. cr' = [cr EXCEPT ![c] = r1]
        BY <1>24, <2>2 DEF TaskLoop, Continue
      <3> HIDE DEF r1
      <3> QED
        BY <3>1, <3>2, OneRoutine
    <2> QED
      BY <2>1, <2>2
  <1>25. ASSUME NEW p \in Procs, NEW c \in CRs, YieldInside(p, c) PROVE Goal
    <2> DEFINE r1 == [cr[c] EXCEPT !.body = "slept"]
               r2 == [r1 EXCEPT !.lock = NONE]
    <2>1. r1 \in GoodRoutine
      BY <1>0, SetField
    <2>2. r2 \in GoodRoutine
      BY <2>1, SetField
    <2>3. cr' = [cr EXCEPT ![c] = r2]
      BY <1>25 DEF YieldInside, Yield
    <2> HIDE DEF r1, r2
    <2> QED
      BY <2>2, <2>3, OneRoutine
  <1>26. ASSUME NEW c \in CRs, CountWriter(c) PROVE Goal
    <2>1. [cr[c] EXCEPT !.waits = TRUE] \in GoodRoutine
      BY <1>0, SetField
    <2> QED
      BY <1>26, <2>1, OneRoutine DEF CountWriter
  <1>27. ASSUME NEW c \in CRs, RemoveTaskStopped(c) PROVE Goal
    <2>1. [cr[c] EXCEPT !.tm_stop = TRUE] \in GoodRoutine
      BY <1>0, SetField
    <2> QED
      BY <1>27, <2>1, OneRoutine DEF RemoveTaskStopped
  <1> QED
    BY <1>1, <1>2, <1>3, <1>4, <1>5, <1>6, <1>7, <1>8, <1>9, <1>10, <1>11,
       <1>12, <1>13, <1>14, <1>15, <1>16, <1>17, <1>18, <1>19, <1>20, <1>21,
       <1>22, <1>23, <1>24, <1>25, <1>26, <1>27
    DEF Next, LoopTest, EnterLevel, LeaveLevel, Wait, ContextShutdown, ProcessorStop,
        NotifyEnter, ShutdownStop, ListRoutines, ShutdownRemoved, ShutdownDone

-----------------------------------------------------------------------------

(* A processor of which one field changes.                                 *)
LEMMA SetProc ==
  ASSUME NEW r \in ProcType
  PROVE  /\ \A x \in {"top", "level", "scan", "resume", "running", "wait",
                      "exited"} : [r EXCEPT !.pc = x] \in ProcType
         /\ \A x \in CRs \cup {NONE} : [r EXCEPT !.cr = x] \in ProcType
         /\ \A x \in Prios : [r EXCEPT !.level = x] \in ProcType
         /\ \A x \in Nat \ {0} : [r EXCEPT !.pos = x] \in ProcType
  <1>1. \A x \in {"top", "level", "scan", "resume", "running", "wait",
                  "exited"} : [r EXCEPT !.pc = x] \in ProcType
    BY DEF ProcType
  <1>2. \A x \in CRs \cup {NONE} : [r EXCEPT !.cr = x] \in ProcType
    BY DEF ProcType
  <1>3. \A x \in Prios : [r EXCEPT !.level = x] \in ProcType
    BY DEF ProcType
  <1>4. \A x \in Nat \ {0} : [r EXCEPT !.pos = x] \in ProcType
    BY SMTT(30) DEF ProcType
  <1> QED
    BY <1>1, <1>2, <1>3, <1>4

(* The other variables stay in their sets.                                 *)
LEMMA ProcNext ==
  ASSUME TypeOK, Next
  PROVE  proc' \in [Procs -> ProcType]
  <1> DEFINE Goal == proc' \in [Procs -> ProcType]
  <1> USE SchedulerAssumption
  <1>0. \A p \in Procs : proc[p] \in ProcType
    BY DEF TypeOK
  <1>00. Top \in Prios
    BY DEF Top, Prios
  <1>1. ASSUME NEW p \in Procs, NEW r \in ProcType, proc' = [proc EXCEPT ![p] = r]
        PROVE  Goal
    BY <1>1 DEF TypeOK
  <1>2. ASSUME NEW p \in Procs, LoopTest(p) PROVE Goal
    <2> DEFINE loc == IF p \notin down.running THEN "exited"
                      ELSE IF p \in down.ctx_stop THEN "wait" ELSE "level"
    <2>1. loc \in {"exited", "wait", "level"}
      OBVIOUS
    <2>2. proc' = [proc EXCEPT ![p].pc = loc, ![p].level = Top]
      BY <1>2 DEF LoopTest
    <2> DEFINE r1 == [proc[p] EXCEPT !.pc = loc]
               r2 == [r1 EXCEPT !.level = Top]
    <2>3. proc' = [proc EXCEPT ![p] = r2]
      BY <2>2
    <2> HIDE DEF loc
    <2>4. r1 \in ProcType
      BY <1>0, <2>1, SetProc
    <2> HIDE DEF r1
    <2>5. r2 \in ProcType
      BY <1>00, <2>4, SetProc
    <2> HIDE DEF r2
    <2> QED
      BY <1>1, <2>3, <2>5
  <1>3. ASSUME NEW p \in Procs, EnterLevel(p) PROVE Goal
    <2> DEFINE r1 == [proc[p] EXCEPT !.pc = "scan"]
               r2 == [r1 EXCEPT !.pos = 1]
    <2>1. proc' = [proc EXCEPT ![p] = r2]
      BY <1>3 DEF EnterLevel
    <2>2. r1 \in ProcType
      BY <1>0, SetProc
    <2> HIDE DEF r1
    <2>3. r2 \in ProcType
      BY <2>2 DEF ProcType
    <2> HIDE DEF r2
    <2> QED
      BY <1>1, <2>1, <2>3
  <1>4. ASSUME NEW p \in Procs, LeaveLevel(p) PROVE Goal
    <2> DEFINE loc == IF proc[p].level = 0 THEN "wait" ELSE "level"
               l == IF proc[p].level = 0 THEN Top ELSE proc[p].level - 1
               r1 == [proc[p] EXCEPT !.pc = loc]
               r2 == [r1 EXCEPT !.level = l]
               r3 == [r2 EXCEPT !.pos = 1]
    <2>1. proc' = [proc EXCEPT ![p] = r3]
      BY <1>4 DEF LeaveLevel
    <2>2. loc \in {"wait", "level"}
      OBVIOUS
    <2>3. l \in Prios
      BY <1>0, <1>00 DEF ProcType, Prios
    <2> HIDE DEF loc, l
    <2>4. r1 \in ProcType
      BY <1>0, <2>2, SetProc
    <2> HIDE DEF r1
    <2>5. r2 \in ProcType
      BY <2>3, <2>4, SetProc
    <2> HIDE DEF r2
    <2>6. r3 \in ProcType
      BY <2>5 DEF ProcType
    <2> HIDE DEF r3
    <2> QED
      BY <1>1, <2>1, <2>6
  <1>5. ASSUME NEW p \in Procs, TryRoutine(p) PROVE Goal
    <2>1. Candidate(p) \in CRs
      BY <1>5, CandidateType DEF TryRoutine
    <2>2. CASE proc' = [proc EXCEPT ![p] = [pc |-> "resume", cr |-> Candidate(p),
                                            level |-> Top, pos |-> 1]]
      <3>1. [pc |-> "resume", cr |-> Candidate(p), level |-> Top, pos |-> 1]
              \in ProcType
        BY <1>00, <2>1 DEF ProcType
      <3> QED
        BY <1>1, <2>2, <3>1
    <2>3. CASE proc' = [proc EXCEPT ![p].pos = @ + 1]
      <3>1. [proc[p] EXCEPT !.pos = proc[p].pos + 1] \in ProcType
        BY <1>0, SetProc DEF ProcType
      <3>2. proc' = [proc EXCEPT ![p] = [proc[p] EXCEPT !.pos = proc[p].pos + 1]]
        BY <2>3
      <3> QED
        BY <1>1, <3>1, <3>2
    <2> QED
      BY <1>5, <2>2, <2>3 DEF TryRoutine
  <1>6. ASSUME NEW p \in Procs, proc' = [proc EXCEPT ![p].pc = "top", ![p].cr = NONE]
        PROVE Goal
    <2> DEFINE r1 == [proc[p] EXCEPT !.pc = "top"]
               r2 == [r1 EXCEPT !.cr = NONE]
    <2>1. proc' = [proc EXCEPT ![p] = r2]
      BY <1>6
    <2>2. r1 \in ProcType
      BY <1>0, SetProc
    <2> HIDE DEF r1
    <2>3. r2 \in ProcType
      BY <2>2, SetProc
    <2> HIDE DEF r2
    <2> QED
      BY <1>1, <2>1, <2>3
  <1>7. ASSUME NEW p \in Procs, Resume(p) PROVE Goal
    <2>1. CASE cr[proc[p].cr].force_stop
      BY <1>6, <1>7, <2>1 DEF Resume, Yield
    <2>2. CASE ~cr[proc[p].cr].force_stop
      <3>1. [proc[p] EXCEPT !.pc = "running"] \in ProcType
        BY <1>0, SetProc
      <3>2. proc' = [proc EXCEPT ![p] = [proc[p] EXCEPT !.pc = "running"]]
        BY <1>7, <2>2 DEF Resume
      <3> QED
        BY <1>1, <3>1, <3>2
    <2> QED
      BY <2>1, <2>2
  <1>8. ASSUME NEW p \in Procs, Wait(p) PROVE Goal
    <2>1. [proc[p] EXCEPT !.pc = "top"] \in ProcType
      BY <1>0, SetProc
    <2>2. proc' = [proc EXCEPT ![p] = [proc[p] EXCEPT !.pc = "top"]]
      BY <1>8 DEF Wait
    <2> QED
      BY <1>1, <2>1, <2>2
  <1>9. ASSUME NEW p \in Procs, NEW c \in CRs, TryFetch(p, c) PROVE Goal
    BY <1>6, <1>9 DEF TryFetch, Yield, Continue, TypeOK
  <1>10. ASSUME NEW p \in Procs, NEW c \in CRs, TaskLoop(p, c) PROVE Goal
    BY <1>6, <1>10 DEF TaskLoop, Yield, Continue, TypeOK
  <1>11. ASSUME NEW p \in Procs, NEW c \in CRs,
                \/ CallbackReturns(p, c) \/ HangUp(p, c) \/ Sleep(p, c)
                \/ YieldInside(p, c)
         PROVE  Goal
    BY <1>6, <1>11 DEF CallbackReturns, HangUp, Sleep, YieldInside, Yield
  <1>12. CASE UNCHANGED proc
    BY <1>12 DEF TypeOK
  <1> QED
    BY <1>2, <1>3, <1>4, <1>5, <1>7, <1>8, <1>9, <1>10, <1>11, <1>12
    DEF Next, CreateTask, InsertId, PushRq, RegisterCallback, WakeTimePasses,
        RemoveTask, RemoveTaskStopped, CountWriter, EraseId, TakeRqLock, EraseRq,
        ShutdownRemove, ContextShutdown, ProcessorStop, SetDataWait, TaskDequeue,
        TaskReturns, Continue, Deliver, CallNotifier,
        NotifyEnter, SetUpdateFlag, ShutdownStop, ListRoutines, ShutdownRemoved,
        ShutdownDone

(* What each step leaves alone.                                            *)
StepFrame ==
  /\ \/ UNCHANGED rq
     \/ \E c \in CRs : PushRq(c) \/ EraseRq(c)
  /\ \/ UNCHANGED disp
     \/ \E d \in Dispatchers, c \in CRs : Deliver(d, c)
     \/ \E d \in Dispatchers :
          CallNotifier(d) \/ NotifyEnter(d) \/ SetUpdateFlag(d)
  /\ \/ UNCHANGED down
     \/ \E c \in CRs : ShutdownRemove(c)
     \/ \E p \in Procs : ContextShutdown(p) \/ ProcessorStop(p)
     \/ ShutdownStop \/ ListRoutines \/ ShutdownRemoved \/ ShutdownDone
  /\ \/ UNCHANGED id_cr
     \/ \E c \in CRs : InsertId(c) \/ EraseId(c)
  /\ \/ \E p \in Procs : Wait(p)
     \/ notify_grp' \in {Notified, MaxNotify, notify_grp}

LEMMA Frames ==
  ASSUME Next
  PROVE  StepFrame
  <1> USE DEF StepFrame
  <1>1. ASSUME NEW c \in CRs,
               \/ CreateTask(c) \/ RegisterCallback(c) \/ WakeTimePasses(c)
               \/ RemoveTask(c) \/ RemoveTaskStopped(c) \/ TakeRqLock(c)
               \/ CountWriter(c)
        PROVE  StepFrame
    BY <1>1 DEF CreateTask, RegisterCallback, WakeTimePasses, RemoveTask,
                RemoveTaskStopped, TakeRqLock, CountWriter
  <1>2. ASSUME NEW c \in CRs, InsertId(c) \/ EraseId(c) PROVE StepFrame
    BY <1>2 DEF InsertId, EraseId
  <1>3. ASSUME NEW c \in CRs, PushRq(c) \/ EraseRq(c) PROVE StepFrame
    BY <1>3 DEF PushRq, EraseRq
  <1>4. ASSUME NEW c \in CRs, ShutdownRemove(c) PROVE StepFrame
    BY <1>4 DEF ShutdownRemove
  <1>5. ASSUME NEW p \in Procs,
               \/ LoopTest(p) \/ EnterLevel(p) \/ LeaveLevel(p)
               \/ TryRoutine(p) \/ Resume(p)
        PROVE  StepFrame
    BY <1>5 DEF LoopTest, EnterLevel, LeaveLevel, TryRoutine, Resume, Yield
  <1>6. ASSUME NEW p \in Procs, Wait(p) PROVE StepFrame
    BY <1>6 DEF Wait
  <1>7. ASSUME NEW p \in Procs, ContextShutdown(p) \/ ProcessorStop(p) PROVE StepFrame
    BY <1>7 DEF ContextShutdown, ProcessorStop
  <1>8. ASSUME NEW p \in Procs, NEW c \in CRs,
               \/ SetDataWait(p, c) \/ TryFetch(p, c) \/ CallbackReturns(p, c)
               \/ TaskLoop(p, c) \/ TaskDequeue(p, c) \/ TaskReturns(p, c)
               \/ HangUp(p, c) \/ Sleep(p, c) \/ YieldInside(p, c)
        PROVE  StepFrame
    BY <1>8 DEF SetDataWait, TryFetch, CallbackReturns, TaskLoop, TaskDequeue,
                TaskReturns, HangUp, Sleep, YieldInside, Yield, Continue
  <1>9. ASSUME NEW d \in Dispatchers, NEW c \in CRs, Deliver(d, c) PROVE StepFrame
    BY <1>9 DEF Deliver
  <1>10. ASSUME NEW d \in Dispatchers,
                CallNotifier(d) \/ NotifyEnter(d) \/ SetUpdateFlag(d)
         PROVE  StepFrame
    BY <1>10 DEF CallNotifier, NotifyEnter, SetUpdateFlag
  <1>11. CASE ShutdownStop \/ ListRoutines \/ ShutdownRemoved \/ ShutdownDone
    BY <1>11 DEF ShutdownStop, ListRoutines, ShutdownRemoved, ShutdownDone
  <1> HIDE DEF StepFrame
  <1> QED
    BY <1>1, <1>2, <1>3, <1>4, <1>5, <1>6, <1>7, <1>8, <1>9, <1>10, <1>11 DEF Next

(* The dispatchers stay in their sets.                                     *)
LEMMA DispNext ==
  ASSUME TypeOK, Next
  PROVE  disp' \in [Dispatchers -> [pc : {"idle", "notify", "enter", "flag"},
                                    cr : CRs \cup {NONE}]]
  <1> DEFINE DispType == [pc : {"idle", "notify", "enter", "flag"},
                          cr : CRs \cup {NONE}]
             Goal == disp' \in [Dispatchers -> DispType]
  <1>0. disp \in [Dispatchers -> DispType]
    BY DEF TypeOK
  <1>1. ASSUME NEW d \in Dispatchers, DDone(d) PROVE Goal
    BY <1>0, <1>1 DEF DDone
  <1>2. ASSUME NEW d \in Dispatchers, DGoto(d, "enter") \/ DGoto(d, "flag")
        PROVE  Goal
    BY <1>0, <1>2 DEF DGoto
  <1>3. ASSUME NEW d \in Dispatchers, NEW c \in CRs, Deliver(d, c) PROVE Goal
    BY <1>0, <1>3 DEF Deliver
  <1>4. ASSUME NEW d \in Dispatchers, CallNotifier(d) PROVE Goal
    BY <1>1, <1>2, <1>4 DEF CallNotifier
  <1>5. ASSUME NEW d \in Dispatchers, NotifyEnter(d) PROVE Goal
    BY <1>1, <1>2, <1>5 DEF NotifyEnter
  <1>6. ASSUME NEW d \in Dispatchers, SetUpdateFlag(d) PROVE Goal
    BY <1>1, <1>6 DEF SetUpdateFlag
  <1>7. CASE UNCHANGED disp
    BY <1>0, <1>7
  <1> QED
    BY <1>3, <1>4, <1>5, <1>6, <1>7, Frames DEF StepFrame

(* Scheduler::Shutdown's own state stays in its sets.                      *)
LEMMA DownNext ==
  ASSUME TypeOK, Next
  PROVE  down' \in DownType
  <1>0. down \in DownType /\ id_cr \subseteq CRs
    BY DEF TypeOK
  <1>1. CASE ShutdownStop
    BY <1>0, <1>1 DEF DownType, ShutdownStop
  <1>2. ASSUME NEW p \in Procs, ContextShutdown(p) PROVE down' \in DownType
    BY <1>0, <1>2 DEF DownType, ContextShutdown
  <1>3. CASE ListRoutines
    BY <1>0, <1>3 DEF DownType, ListRoutines
  <1>4. ASSUME NEW c \in CRs, ShutdownRemove(c) PROVE down' \in DownType
    BY <1>0, <1>4 DEF DownType, ShutdownRemove
  <1>5. CASE ShutdownRemoved
    BY <1>0, <1>5 DEF DownType, ShutdownRemoved
  <1>6. ASSUME NEW p \in Procs, ProcessorStop(p) PROVE down' \in DownType
    BY <1>0, <1>6 DEF DownType, ProcessorStop
  <1>7. CASE ShutdownDone
    BY <1>0, <1>7 DEF DownType, ShutdownDone
  <1>8. CASE UNCHANGED down
    BY <1>0, <1>8
  <1> QED
    BY <1>1, <1>2, <1>3, <1>4, <1>5, <1>6, <1>7, <1>8, Frames DEF StepFrame

(* The run queues stay sequences of routines.                              *)
LEMMA RqNext ==
  ASSUME TypeOK, Next
  PROVE  rq' \in [Prios -> Seq(CRs)]
  <1>0. rq \in [Prios -> Seq(CRs)] /\ \A c \in CRs : Prio[c] \in Prios
    BY SchedulerAssumption DEF TypeOK
  <1>1. ASSUME NEW c \in CRs, PushRq(c) PROVE rq' \in [Prios -> Seq(CRs)]
    <2>1. Append(rq[Prio[c]], c) \in Seq(CRs)
      BY <1>0, AppendProperties
    <2> QED
      BY <1>0, <1>1, <2>1 DEF PushRq
  <1>2. ASSUME NEW c \in CRs, EraseRq(c) PROVE rq' \in [Prios -> Seq(CRs)]
    <2>1. PICK i \in 1..Len(rq[Prio[c]]) :
            rq' = [rq EXCEPT ![Prio[c]] = RemoveAt(@, i)]
      BY <1>2 DEF EraseRq
    <2>2. RemoveAt(rq[Prio[c]], i) \in Seq(CRs)
      BY <1>0, RemoveAtProps
    <2> QED
      BY <1>0, <2>1, <2>2
  <1> QED
    BY <1>0, <1>1, <1>2, Frames DEF StepFrame

(* id_cr_ holds routines, and notify_grp_ keeps its bound.                 *)
LEMMA CountNext ==
  ASSUME TypeOK, Next
  PROVE  id_cr' \subseteq CRs /\ notify_grp' \in 0..MaxNotify
  <1>0. id_cr \subseteq CRs /\ notify_grp \in 0..MaxNotify /\ MaxNotify \in Nat
    BY SchedulerAssumption DEF TypeOK
  <1>1. Notified \in 0..MaxNotify /\ MaxNotify \in 0..MaxNotify
    BY <1>0 DEF Notified
  <1>2. notify_grp > 0 => notify_grp - 1 \in 0..MaxNotify
    BY <1>0
  <1>3. id_cr' \subseteq CRs
    BY <1>0, Frames DEF StepFrame, InsertId, EraseId
  <1>4. ASSUME NEW p \in Procs, Wait(p) PROVE notify_grp' \in 0..MaxNotify
    BY <1>0, <1>2, <1>4 DEF Wait
  <1> QED
    BY <1>0, <1>1, <1>3, <1>4, Frames DEF StepFrame

(* Every step keeps TypeOK.                                                *)
LEMMA TypeNext ==
  ASSUME TypeOK, Routines, HoldsLock, Next
  PROVE  TypeOK'
  BY RoutinesNext, ProcNext, DispNext, DownNext, RqNext, CountNext DEF TypeOK

-----------------------------------------------------------------------------

(* A step that leaves the processors, and every routine's lock and state.  *)
LEMMA HoldsFrame ==
  ASSUME TypeOK, HoldsLock, proc' = proc,
         \A c \in CRs : cr'[c].lock = cr[c].lock /\ cr'[c].state = cr[c].state
  PROVE  HoldsLock'
  BY SchedulerAssumption DEF TypeOK, ProcType, HoldsLock

(* A routine goes on on its processor.                                     *)
LEMMA HoldsContinue ==
  ASSUME TypeOK, HoldsLock, NEW p \in Procs, NEW c \in CRs, NEW r,
         proc[p].pc = "running", proc[p].cr = c, r.lock = cr[c].lock,
         cr' = [cr EXCEPT ![c] = r], proc' = proc
  PROVE  HoldsLock'
  <1>1. ASSUME NEW q \in Procs
        PROVE  /\ proc[q].cr # NONE <=> proc[q].pc \in {"resume", "running"}
               /\ proc[q].cr # NONE => cr'[proc[q].cr].lock = q
               /\ proc[q].pc = "resume" => cr'[proc[q].cr].state = "READY"
    <2>1. proc[q].cr = NONE \/ proc[q].cr \in CRs
      BY DEF TypeOK, ProcType
    <2>2. CASE proc[q].cr = c
      <3>1. q = p
        BY <2>2, SchedulerAssumption DEF HoldsLock
      <3> QED
        BY <2>2, <3>1 DEF HoldsLock, TypeOK
    <2>3. CASE proc[q].cr # c
      BY <2>1, <2>3, SchedulerAssumption DEF HoldsLock, TypeOK
    <2> QED
      BY <2>2, <2>3
  <1> QED
    BY <1>1 DEF HoldsLock

(* A routine gives its processor back.                                     *)
LEMMA HoldsYield ==
  ASSUME TypeOK, HoldsLock, NEW p \in Procs, NEW c \in CRs, NEW r,
         proc[p].cr = c,
         cr' = [cr EXCEPT ![c] = r],
         proc' = [proc EXCEPT ![p].pc = "top", ![p].cr = NONE]
  PROVE  HoldsLock'
  <1>1. proc'[p].pc = "top" /\ proc'[p].cr = NONE
    BY DEF TypeOK, ProcType
  <1>2. ASSUME NEW q \in Procs \ {p}
        PROVE  /\ proc'[q] = proc[q]
               /\ proc[q].cr # c
               /\ proc[q].cr \in CRs => cr'[proc[q].cr] = cr[proc[q].cr]
    <2>1. proc'[q] = proc[q]
      BY DEF TypeOK
    <2>2. proc[q].cr # c
      BY SchedulerAssumption DEF HoldsLock
    <2> QED
      BY <2>1, <2>2 DEF TypeOK
  <1>3. \A q \in Procs : proc[q].cr = NONE \/ proc[q].cr \in CRs
    BY DEF TypeOK, ProcType
  <1>4. ASSUME NEW q \in Procs
        PROVE  /\ proc'[q].cr # NONE <=> proc'[q].pc \in {"resume", "running"}
               /\ proc'[q].cr # NONE => cr'[proc'[q].cr].lock = q
               /\ proc'[q].pc = "resume" => cr'[proc'[q].cr].state = "READY"
    <2>1. CASE q = p
      BY <1>1, <2>1
    <2>2. CASE q # p
      <3>1. proc'[q] = proc[q]
        BY <1>2, <2>2
      <3>2. proc[q].cr # NONE => cr'[proc[q].cr] = cr[proc[q].cr]
        BY <1>2, <1>3, <2>2
      <3>3. /\ proc[q].cr # NONE <=> proc[q].pc \in {"resume", "running"}
            /\ proc[q].cr # NONE => cr[proc[q].cr].lock = q
            /\ proc[q].pc = "resume" => cr[proc[q].cr].state = "READY"
        BY DEF HoldsLock
      <3> QED
        BY <3>1, <3>2, <3>3
    <2> QED
      BY <2>1, <2>2
  <1> QED
    BY <1>4 DEF HoldsLock

(* A processor that is at no routine moves on.                             *)
LEMMA HoldsMove ==
  ASSUME TypeOK, HoldsLock, NEW p \in Procs,
         proc[p].pc \notin {"resume", "running"}, cr' = cr,
         proc' \in [Procs -> ProcType],
         \A q \in Procs \ {p} : proc'[q] = proc[q],
         proc'[p].cr = proc[p].cr, proc'[p].pc \notin {"resume", "running"}
  PROVE  HoldsLock'
  BY DEF HoldsLock

(* Every step keeps HoldsLock: only TryRoutine gives a lock, to a          *)
(* processor that then is at the routine, and only its owner releases it.  *)
LEMMA HoldsLockNext ==
  ASSUME TypeOK, Routines, HoldsLock, Next
  PROVE  HoldsLock'
  <1> USE SchedulerAssumption
  <1>0. /\ \A c \in CRs : cr[c] \in CRoutineType /\ cr[c] \in GoodRoutine
        /\ \A p \in Procs : proc[p] \in ProcType
        /\ proc' \in [Procs -> ProcType]
    BY ProcNext DEF TypeOK, Routines
  <1>1. ASSUME NEW c \in CRs,
               \/ CreateTask(c) \/ InsertId(c) \/ PushRq(c)
               \/ RegisterCallback(c) \/ WakeTimePasses(c)
        PROVE  HoldsLock'
    <2>1. proc' = proc
      BY <1>1 DEF CreateTask, InsertId, PushRq, RegisterCallback, WakeTimePasses
    <2>2. ASSUME NEW x \in CRs
          PROVE  cr'[x].lock = cr[x].lock /\ cr'[x].state = cr[x].state
      <3>1. CASE CreateTask(c)
        <4>1. cr' = [cr EXCEPT ![c].create = "insert"]
          BY <3>1 DEF CreateTask
        <4> QED
          BY <1>0, <4>1 DEF TypeOK, CRoutineType
      <3>2. CASE InsertId(c)
        <4>1. cr' = [cr EXCEPT ![c].create = "push", ![c].waits = FALSE]
          BY <3>2 DEF InsertId
        <4> QED
          BY <1>0, <4>1 DEF TypeOK, CRoutineType
      <3>3. CASE PushRq(c)
        <4>1. cr' = [cr EXCEPT ![c].create = "register", ![c].waits = FALSE]
          BY <3>3 DEF PushRq
        <4> QED
          BY <1>0, <4>1 DEF TypeOK, CRoutineType
      <3>4. CASE RegisterCallback(c)
        <4>1. cr' = [cr EXCEPT ![c].callback = c \in Visitors, ![c].create = "created"]
          BY <3>4 DEF RegisterCallback
        <4> QED
          BY <1>0, <4>1 DEF TypeOK, CRoutineType
      <3>5. CASE WakeTimePasses(c)
        <4>1. cr' = [cr EXCEPT ![c].wake_due = TRUE]
          BY <3>5 DEF WakeTimePasses
        <4> QED
          BY <1>0, <4>1 DEF TypeOK, CRoutineType
      <3> QED
        BY <1>1, <3>1, <3>2, <3>3, <3>4, <3>5
    <2> QED
      BY <2>1, <2>2, HoldsFrame
  <1>2. ASSUME NEW c \in CRs,
               \/ RemoveTask(c) \/ EraseId(c) \/ TakeRqLock(c)
               \/ EraseRq(c) \/ ShutdownRemove(c)
        PROVE  HoldsLock'
    <2>1. proc' = proc
      BY <1>2 DEF RemoveTask, EraseId, TakeRqLock, EraseRq, ShutdownRemove
    <2>2. ASSUME NEW x \in CRs
          PROVE  cr'[x].lock = cr[x].lock /\ cr'[x].state = cr[x].state
      <3>1. CASE RemoveTask(c)
        <4>1. cr' = [cr EXCEPT ![c].remove = "id", ![c].tm_stop = c \in Workers]
          BY <3>1 DEF RemoveTask
        <4> QED
          BY <1>0, <4>1 DEF TypeOK, CRoutineType
      <3>2. CASE EraseId(c)
        <4>1. cr' = [cr EXCEPT ![c].force_stop = TRUE, ![c].remove = "rq", ![c].waits = FALSE]
          BY <3>2 DEF EraseId
        <4> QED
          BY <1>0, <4>1 DEF TypeOK, CRoutineType
      <3>3. CASE TakeRqLock(c)
        <4>1. cr' = [cr EXCEPT ![c].remove = "spin", ![c].waits = FALSE]
          BY <3>3 DEF TakeRqLock
        <4> QED
          BY <1>0, <4>1 DEF TypeOK, CRoutineType
      <3>4. CASE EraseRq(c)
        <4>1. cr' = [cr EXCEPT ![c].remove = "removed"]
          BY <3>4 DEF EraseRq
        <4> QED
          BY <1>0, <4>1 DEF TypeOK, CRoutineType
      <3>5. CASE ShutdownRemove(c)
        <4>1. cr' = [cr EXCEPT ![c].remove = "id"] \/ cr' = cr
          BY <3>5 DEF ShutdownRemove
        <4>2. CASE cr' = [cr EXCEPT ![c].remove = "id"]
          BY <1>0, <4>2 DEF TypeOK, CRoutineType
        <4>3. CASE cr' = cr
          BY <4>3
        <4> QED
          BY <4>1, <4>2, <4>3
      <3> QED
        BY <1>2, <3>1, <3>2, <3>3, <3>4, <3>5
    <2> QED
      BY <2>1, <2>2, HoldsFrame
  <1>3. ASSUME NEW p \in Procs, LoopTest(p) PROVE HoldsLock'
    <2>1. /\ proc[p].pc \notin {"resume", "running"} /\ cr' = cr
          /\ \A q \in Procs \ {p} : proc'[q] = proc[q]
          /\ proc'[p].cr = proc[p].cr
      BY <1>0, <1>3 DEF LoopTest, TypeOK, ProcType
    <2>2. proc'[p].pc \notin {"resume", "running"}
      BY <1>0, <1>3 DEF LoopTest, TypeOK, ProcType
    <2> QED
      BY <1>0, <2>1, <2>2, HoldsMove
  <1>4. ASSUME NEW p \in Procs, EnterLevel(p) PROVE HoldsLock'
    <2>1. /\ proc[p].pc \notin {"resume", "running"} /\ cr' = cr
          /\ \A q \in Procs \ {p} : proc'[q] = proc[q]
          /\ proc'[p].cr = proc[p].cr
          /\ proc'[p].pc \notin {"resume", "running"}
      BY <1>0, <1>4 DEF EnterLevel, TypeOK, ProcType
    <2> QED
      BY <1>0, <2>1, HoldsMove
  <1>5. ASSUME NEW p \in Procs, LeaveLevel(p) PROVE HoldsLock'
    <2>1. /\ proc[p].pc \notin {"resume", "running"} /\ cr' = cr
          /\ \A q \in Procs \ {p} : proc'[q] = proc[q]
          /\ proc'[p].cr = proc[p].cr
      BY <1>0, <1>5 DEF LeaveLevel, TypeOK, ProcType
    <2>2. proc'[p].pc \notin {"resume", "running"}
      BY <1>0, <1>5 DEF LeaveLevel, TypeOK, ProcType
    <2> QED
      BY <1>0, <2>1, <2>2, HoldsMove
  <1>6. ASSUME NEW p \in Procs, TryRoutine(p) PROVE HoldsLock'
    <2> DEFINE c == Candidate(p)
               r == UpdateState(cr[c])
    <2>1. c \in CRs
      BY <1>6, CandidateType DEF TryRoutine
    <2>2. r \in GoodRoutine /\ r.lock = cr[c].lock
      BY <1>0, <2>1, UpdateGood
    <2>3. proc[p].pc = "scan"
      BY <1>6 DEF TryRoutine
    <2>4. CASE Acquire(c) /\ r.state = "READY"
      <3>1. /\ cr' = [cr EXCEPT ![c] = [r EXCEPT !.lock = p]]
            /\ proc' = [proc EXCEPT ![p] = [pc |-> "resume", cr |-> c,
                                            level |-> Top, pos |-> 1]]
        BY <1>6, <2>4 DEF TryRoutine
      <3>2. \A q \in Procs : proc[q].cr # c
        BY <2>1, <2>4 DEF Acquire, HoldsLock
      <3>3. [r EXCEPT !.lock = p].lock = p
            /\ [r EXCEPT !.lock = p].state = r.state
        BY <2>2 DEF GoodRoutine, CRoutineType
      <3> HIDE DEF c, r
      <3>4. /\ cr'[c].lock = p /\ cr'[c].state = "READY"
            /\ \A x \in CRs \ {c} : cr'[x] = cr[x]
            /\ proc'[p].pc = "resume" /\ proc'[p].cr = c
            /\ \A q \in Procs \ {p} : proc'[q] = proc[q]
        BY <2>1, <2>4, <3>1, <3>3 DEF TypeOK
      <3>5. ASSUME NEW q \in Procs
            PROVE  /\ proc'[q].cr # NONE <=> proc'[q].pc \in {"resume", "running"}
                   /\ proc'[q].cr # NONE => cr'[proc'[q].cr].lock = q
                   /\ proc'[q].pc = "resume" => cr'[proc'[q].cr].state = "READY"
        <4>1. CASE q = p
          BY <2>1, <3>4, <4>1
        <4>2. CASE q # p
          <5>1. proc[q].cr = NONE \/ proc[q].cr \in CRs \ {c}
            BY <1>0, <3>2 DEF ProcType
          <5> QED
            BY <3>4, <4>2, <5>1 DEF HoldsLock
        <4> QED
          BY <4>1, <4>2
      <3> QED
        BY <3>5 DEF HoldsLock
    <2>5. CASE ~(Acquire(c) /\ r.state = "READY")
      <3>1. /\ cr' = IF Acquire(c) THEN [cr EXCEPT ![c] = r] ELSE cr
            /\ proc' = [proc EXCEPT ![p].pos = @ + 1]
        BY <1>6, <2>5 DEF TryRoutine
      <3>2. /\ \A q \in Procs : proc'[q].cr = proc[q].cr /\ proc'[q].pc = proc[q].pc
        BY <1>0, <3>1 DEF TypeOK, ProcType
      <3>3. Acquire(c) => \A q \in Procs : proc[q].cr # c
        BY <2>1 DEF Acquire, HoldsLock
      <3> HIDE DEF c, r
      <3>4. ASSUME NEW q \in Procs, proc[q].cr # NONE
            PROVE  cr'[proc[q].cr] = cr[proc[q].cr]
        <4>1. proc[q].cr \in CRs
          BY <1>0, <3>4 DEF ProcType
        <4> QED
          BY <2>1, <3>1, <3>3, <4>1 DEF TypeOK
      <3> QED
        BY <3>2, <3>4 DEF HoldsLock
    <2> QED
      BY <2>4, <2>5
  <1>7. ASSUME NEW p \in Procs, Resume(p) PROVE HoldsLock'
    <2> DEFINE c == proc[p].cr
               r == [[cr[c] EXCEPT !.state = "FINISHED"] EXCEPT !.lock = NONE]
    <2>1. c \in CRs
      BY <1>0, <1>7 DEF Resume, HoldsLock, ProcType
    <2>2. CASE cr[c].force_stop
      <3>1. /\ cr' = [cr EXCEPT ![c] = r]
            /\ proc' = [proc EXCEPT ![p].pc = "top", ![p].cr = NONE]
        BY <1>7, <2>2 DEF Resume, Yield
      <3> HIDE DEF r
      <3> QED
        BY <2>1, <3>1, HoldsYield
    <2>3. CASE ~cr[c].force_stop
      <3>1. cr' = cr /\ proc' = [proc EXCEPT ![p].pc = "running"]
        BY <1>7, <2>3 DEF Resume
      <3>2. /\ proc'[p].pc = "running" /\ proc'[p].cr = proc[p].cr
            /\ \A q \in Procs \ {p} : proc'[q] = proc[q]
        BY <1>0, <3>1 DEF TypeOK, ProcType
      <3> QED
        BY <2>1, <3>1, <3>2 DEF HoldsLock
    <2> QED
      BY <2>2, <2>3
  <1>8. ASSUME NEW p \in Procs, Wait(p) PROVE HoldsLock'
    <2>1. /\ proc[p].pc \notin {"resume", "running"} /\ cr' = cr
          /\ \A q \in Procs \ {p} : proc'[q] = proc[q]
          /\ proc'[p].cr = proc[p].cr
          /\ proc'[p].pc \notin {"resume", "running"}
      BY <1>0, <1>8 DEF Wait, TypeOK, ProcType
    <2> QED
      BY <1>0, <2>1, HoldsMove
  <1>9. ASSUME NEW p \in Procs, NEW c \in CRs, SetDataWait(p, c) PROVE HoldsLock'
    <2> DEFINE r == [cr[c] EXCEPT !.state = "DATA_WAIT", !.body = "fetch"]
    <2>1. r.lock = cr[c].lock
      BY <1>0 DEF CRoutineType
    <2>2. /\ cr' = [cr EXCEPT ![c] = r] /\ proc' = proc
          /\ proc[p].pc = "running" /\ proc[p].cr = c
      BY <1>9 DEF SetDataWait, Continue, Runs
    <2> HIDE DEF r
    <2> QED
      BY <2>1, <2>2, HoldsContinue
  <1>10. ASSUME NEW p \in Procs, NEW c \in CRs, TryFetch(p, c) PROVE HoldsLock'
    <2>0. proc[p].pc = "running" /\ proc[p].cr = c
      BY <1>10 DEF TryFetch, Runs
    <2>1. CASE cr[c].mail > 0
      <3> DEFINE r == [cr[c] EXCEPT !.mail = @ - 1, !.missed = FALSE, !.body = "call"]
      <3>1. r.lock = cr[c].lock
        BY <1>0 DEF CRoutineType
      <3>2. cr' = [cr EXCEPT ![c] = r] /\ proc' = proc
        BY <1>10, <2>1 DEF TryFetch, Continue
      <3> HIDE DEF r
      <3> QED
        BY <2>0, <3>1, <3>2, HoldsContinue
    <2>2. CASE ~(cr[c].mail > 0)
      <3> DEFINE r == [[cr[c] EXCEPT !.missed = FALSE, !.body = "loop"] EXCEPT !.lock = NONE]
      <3>1. /\ cr' = [cr EXCEPT ![c] = r]
            /\ proc' = [proc EXCEPT ![p].pc = "top", ![p].cr = NONE]
        BY <1>10, <2>2 DEF TryFetch, Yield
      <3> HIDE DEF r
      <3> QED
        BY <2>0, <3>1, HoldsYield
    <2> QED
      BY <2>1, <2>2
  <1>11. ASSUME NEW p \in Procs, NEW c \in CRs, CallbackReturns(p, c) PROVE HoldsLock'
    <2>1. PICK r : /\ cr' = [cr EXCEPT ![c] = r]
                   /\ proc' = [proc EXCEPT ![p].pc = "top", ![p].cr = NONE]
      BY <1>11 DEF CallbackReturns, Yield
    <2> QED
      BY <1>11, <2>1, HoldsYield DEF CallbackReturns, Runs
  <1>12. ASSUME NEW p \in Procs, NEW c \in CRs, TaskDequeue(p, c) PROVE HoldsLock'
    <2>0. proc[p].pc = "running" /\ proc[p].cr = c
      BY <1>12 DEF TaskDequeue, Runs
    <2>1. CASE cr[c].mail > 0
      <3> DEFINE r == [cr[c] EXCEPT !.mail = @ - 1, !.body = "call"]
      <3>1. r.lock = cr[c].lock
        BY <1>0 DEF CRoutineType
      <3>2. cr' = [cr EXCEPT ![c] = r] /\ proc' = proc
        BY <1>12, <2>1 DEF TaskDequeue, Continue
      <3> HIDE DEF r
      <3> QED
        BY <2>0, <3>1, <3>2, HoldsContinue
    <2>2. CASE ~(cr[c].mail > 0)
      <3> DEFINE r == [cr[c] EXCEPT !.body = "hang_up"]
      <3>1. r.lock = cr[c].lock
        BY <1>0 DEF CRoutineType
      <3>2. cr' = [cr EXCEPT ![c] = r] /\ proc' = proc
        BY <1>12, <2>2 DEF TaskDequeue, Continue
      <3> HIDE DEF r
      <3> QED
        BY <2>0, <3>1, <3>2, HoldsContinue
    <2> QED
      BY <2>1, <2>2
  <1>13. ASSUME NEW p \in Procs, NEW c \in CRs, TaskReturns(p, c) PROVE HoldsLock'
    <2> DEFINE r == [cr[c] EXCEPT !.body = "loop"]
    <2>1. r.lock = cr[c].lock
      BY <1>0 DEF CRoutineType
    <2>2. /\ cr' = [cr EXCEPT ![c] = r] /\ proc' = proc
          /\ proc[p].pc = "running" /\ proc[p].cr = c
      BY <1>13 DEF TaskReturns, Continue, Runs
    <2> HIDE DEF r
    <2> QED
      BY <2>1, <2>2, HoldsContinue
  <1>14. ASSUME NEW p \in Procs, NEW c \in CRs, HangUp(p, c) PROVE HoldsLock'
    <2>1. PICK r : /\ cr' = [cr EXCEPT ![c] = r]
                   /\ proc' = [proc EXCEPT ![p].pc = "top", ![p].cr = NONE]
      BY <1>14 DEF HangUp, Yield
    <2> QED
      BY <1>14, <2>1, HoldsYield DEF HangUp, Runs
  <1>15. ASSUME NEW p \in Procs, NEW c \in CRs, Sleep(p, c) PROVE HoldsLock'
    <2>1. PICK r : /\ cr' = [cr EXCEPT ![c] = r]
                   /\ proc' = [proc EXCEPT ![p].pc = "top", ![p].cr = NONE]
      BY <1>15 DEF Sleep, Yield
    <2> QED
      BY <1>15, <2>1, HoldsYield DEF Sleep, Runs
  <1>16. ASSUME NEW d \in Dispatchers, NEW c \in CRs, Deliver(d, c) PROVE HoldsLock'
    <2>1. ASSUME NEW x \in CRs
          PROVE  cr'[x].lock = cr[x].lock /\ cr'[x].state = cr[x].state
      BY <1>0, <1>16 DEF TypeOK, CRoutineType, Deliver
    <2> QED
      BY <1>16, <2>1, HoldsFrame DEF Deliver
  <1>17. ASSUME NEW d \in Dispatchers, CallNotifier(d) PROVE HoldsLock'
    <2>1. cr' = [cr EXCEPT ![disp[d].cr].missed = TRUE] \/ cr' = cr
      BY <1>17 DEF CallNotifier
    <2>2. ASSUME NEW x \in CRs
          PROVE  cr'[x].lock = cr[x].lock /\ cr'[x].state = cr[x].state
      <3>1. cr'[x] = cr[x] \/ cr'[x] = [cr[x] EXCEPT !.missed = TRUE]
        BY <2>1 DEF TypeOK
      <3> QED
        BY <1>0, <3>1 DEF CRoutineType
    <2> QED
      BY <1>17, <2>2, HoldsFrame DEF CallNotifier
  <1>18. ASSUME NEW d \in Dispatchers, SetUpdateFlag(d) PROVE HoldsLock'
    <2>1. ASSUME NEW x \in CRs
          PROVE  cr'[x].lock = cr[x].lock /\ cr'[x].state = cr[x].state
      BY <1>0, <1>18 DEF TypeOK, CRoutineType, SetUpdateFlag
    <2> QED
      BY <1>18, <2>1, HoldsFrame DEF SetUpdateFlag
  <1>19. CASE UNCHANGED <<cr, proc>>
    BY <1>19, HoldsFrame
  <1>20. ASSUME NEW p \in Procs, ContextShutdown(p) \/ ProcessorStop(p)
         PROVE  UNCHANGED <<cr, proc>>
    BY <1>20 DEF ContextShutdown, ProcessorStop
  <1>21. ASSUME NEW d \in Dispatchers, NotifyEnter(d) PROVE UNCHANGED <<cr, proc>>
    BY <1>21 DEF NotifyEnter
  <1>22. ASSUME ShutdownStop \/ ListRoutines \/ ShutdownRemoved \/ ShutdownDone
         PROVE  UNCHANGED <<cr, proc>>
    BY <1>22 DEF ShutdownStop, ListRoutines, ShutdownRemoved, ShutdownDone
  <1>23. ASSUME NEW p \in Procs, NEW c \in CRs, TaskLoop(p, c) PROVE HoldsLock'
    <2>0. proc[p].pc = "running" /\ proc[p].cr = c
      BY <1>23 DEF TaskLoop, Runs
    <2>1. CASE cr[c].tm_stop
      <3> DEFINE r == [[cr[c] EXCEPT !.state = "FINISHED"] EXCEPT !.lock = NONE]
      <3>1. /\ cr' = [cr EXCEPT ![c] = r]
            /\ proc' = [proc EXCEPT ![p].pc = "top", ![p].cr = NONE]
        BY <1>23, <2>1 DEF TaskLoop, Yield
      <3> HIDE DEF r
      <3> QED
        BY <2>0, <3>1, HoldsYield
    <2>2. CASE ~cr[c].tm_stop
      <3> DEFINE r == [cr[c] EXCEPT !.body = "fetch"]
      <3>1. r.lock = cr[c].lock
        BY <1>0 DEF CRoutineType
      <3>2. cr' = [cr EXCEPT ![c] = r] /\ proc' = proc
        BY <1>23, <2>2 DEF TaskLoop, Continue
      <3> HIDE DEF r
      <3> QED
        BY <2>0, <3>1, <3>2, HoldsContinue
    <2> QED
      BY <2>1, <2>2
  <1>24. ASSUME NEW p \in Procs, NEW c \in CRs, YieldInside(p, c) PROVE HoldsLock'
    <2>1. PICK r : /\ cr' = [cr EXCEPT ![c] = r]
                   /\ proc' = [proc EXCEPT ![p].pc = "top", ![p].cr = NONE]
      BY <1>24 DEF YieldInside, Yield
    <2> QED
      BY <1>24, <2>1, HoldsYield DEF YieldInside, Runs
  <1>25. ASSUME NEW c \in CRs, CountWriter(c) \/ RemoveTaskStopped(c)
         PROVE  HoldsLock'
    <2>1. /\ \/ cr' = [cr EXCEPT ![c].waits = TRUE]
             \/ cr' = [cr EXCEPT ![c].tm_stop = TRUE]
          /\ proc' = proc
      BY <1>25 DEF CountWriter, RemoveTaskStopped
    <2>2. ASSUME NEW x \in CRs
          PROVE  cr'[x].lock = cr[x].lock /\ cr'[x].state = cr[x].state
      BY <1>0, <2>1 DEF TypeOK, CRoutineType
    <2> QED
      BY <2>1, <2>2, HoldsFrame
  <1> QED
    BY <1>1, <1>2, <1>3, <1>4, <1>5, <1>6, <1>7, <1>8, <1>9, <1>10, <1>11, <1>12,
       <1>13, <1>14, <1>15, <1>16, <1>17, <1>18, <1>19, <1>20, <1>21, <1>22,
       <1>23, <1>24, <1>25
    DEF Next

-----------------------------------------------------------------------------

(* A created routine stays created, and only EraseRq ends a removal.       *)
Stages(x) ==
  /\ cr[x].create \in {"register", "created"} =>
       cr'[x].create \in {"register", "created"}
  /\ cr'[x].remove = "removed" => cr[x].remove = "removed" \/ EraseRq(x)

(* A step that touches neither create nor remove.                          *)
LEMMA SameStages ==
  ASSUME NEW x \in CRs, cr'[x].create = cr[x].create,
         cr'[x].remove = cr[x].remove
  PROVE  Stages(x)
  BY DEF Stages

(* Every step moves a routine on in its life, never back.                  *)
LEMMA StagesNext ==
  ASSUME TypeOK, Routines, HoldsLock, Next, NEW x \in CRs
  PROVE  Stages(x)
  <1>0. /\ cr[x] \in GoodRoutine /\ cr[x] \in CRoutineType
        /\ \A c \in CRs : cr[c] \in GoodRoutine /\ cr[c] \in CRoutineType
    BY DEF Routines, TypeOK
  <1>1. ASSUME NEW c \in CRs,
               \/ CreateTask(c) \/ InsertId(c) \/ PushRq(c)
               \/ RegisterCallback(c) \/ WakeTimePasses(c) \/ RemoveTask(c)
               \/ EraseId(c) \/ TakeRqLock(c) \/ EraseRq(c) \/ ShutdownRemove(c)
        PROVE  Stages(x)
    <2>1. CASE CreateTask(c)
      <3>1. /\ cr[c].create = "absent" /\ cr' = [cr EXCEPT ![c].create = "insert"]
        BY <2>1 DEF CreateTask
      <3>2. \/ /\ cr'[x].create = cr[x].create
               /\ cr'[x].remove = cr[x].remove
            \/ /\ x = c
               /\ cr[c].create = "absent" /\ cr'[x].remove = cr[x].remove
        BY <1>0, <3>1 DEF TypeOK, CRoutineType
      <3> QED
        BY <2>1, <3>1, <3>2 DEF Stages
    <2>2. CASE InsertId(c)
      <3>1. /\ cr[c].create = "insert" /\ cr' = [cr EXCEPT ![c].create = "push", ![c].waits = FALSE]
        BY <2>2 DEF InsertId
      <3>2. \/ /\ cr'[x].create = cr[x].create
               /\ cr'[x].remove = cr[x].remove
            \/ /\ x = c
               /\ cr[c].create = "insert" /\ cr'[x].remove = cr[x].remove
        BY <1>0, <3>1 DEF TypeOK, CRoutineType
      <3> QED
        BY <2>2, <3>1, <3>2 DEF Stages
    <2>3. CASE PushRq(c)
      <3>1. cr' = [cr EXCEPT ![c].create = "register", ![c].waits = FALSE]
        BY <2>3 DEF PushRq
      <3>2. \/ /\ cr'[x].create = cr[x].create
               /\ cr'[x].remove = cr[x].remove
            \/ /\ x = c
               /\ cr'[x].create = "register" /\ cr'[x].remove = cr[x].remove
        BY <1>0, <3>1 DEF TypeOK, CRoutineType
      <3> QED
        BY <2>3, <3>1, <3>2 DEF Stages
    <2>4. CASE RegisterCallback(c)
      <3>1. cr' = [cr EXCEPT ![c].callback = c \in Visitors, ![c].create = "created"]
        BY <2>4 DEF RegisterCallback
      <3>2. \/ /\ cr'[x].create = cr[x].create
               /\ cr'[x].remove = cr[x].remove
            \/ /\ x = c
               /\ cr'[x].create = "created" /\ cr'[x].remove = cr[x].remove
        BY <1>0, <3>1 DEF TypeOK, CRoutineType
      <3> QED
        BY <2>4, <3>1, <3>2 DEF Stages
    <2>5. CASE WakeTimePasses(c)
      <3>1. cr' = [cr EXCEPT ![c].wake_due = TRUE]
        BY <2>5 DEF WakeTimePasses
      <3>2. cr'[x].create = cr[x].create /\ cr'[x].remove = cr[x].remove
        BY <1>0, <3>1 DEF TypeOK, CRoutineType
      <3> QED
        BY <2>5, <3>1, <3>2 DEF Stages
    <2>6. CASE RemoveTask(c)
      <3>1. cr' = [cr EXCEPT ![c].remove = "id", ![c].tm_stop = c \in Workers]
        BY <2>6 DEF RemoveTask
      <3>2. \/ /\ cr'[x].create = cr[x].create
               /\ cr'[x].remove = cr[x].remove
            \/ /\ x = c
               /\ cr'[x].create = cr[x].create /\ cr'[x].remove = "id"
        BY <1>0, <3>1 DEF TypeOK, CRoutineType
      <3> QED
        BY <2>6, <3>1, <3>2 DEF Stages
    <2>7. CASE EraseId(c)
      <3>1. cr' = [cr EXCEPT ![c].force_stop = TRUE, ![c].remove = "rq", ![c].waits = FALSE]
        BY <2>7 DEF EraseId
      <3>2. \/ /\ cr'[x].create = cr[x].create
               /\ cr'[x].remove = cr[x].remove
            \/ /\ x = c
               /\ cr'[x].create = cr[x].create /\ cr'[x].remove = "rq"
        BY <1>0, <3>1 DEF TypeOK, CRoutineType
      <3> QED
        BY <2>7, <3>1, <3>2 DEF Stages
    <2>8. CASE TakeRqLock(c)
      <3>1. cr' = [cr EXCEPT ![c].remove = "spin", ![c].waits = FALSE]
        BY <2>8 DEF TakeRqLock
      <3>2. \/ /\ cr'[x].create = cr[x].create
               /\ cr'[x].remove = cr[x].remove
            \/ /\ x = c
               /\ cr'[x].create = cr[x].create /\ cr'[x].remove = "spin"
        BY <1>0, <3>1 DEF TypeOK, CRoutineType
      <3> QED
        BY <2>8, <3>1, <3>2 DEF Stages
    <2>9. CASE EraseRq(c)
      <3>1. cr' = [cr EXCEPT ![c].remove = "removed"]
        BY <2>9 DEF EraseRq
      <3>2. \/ /\ cr'[x].create = cr[x].create
               /\ cr'[x].remove = cr[x].remove
            \/ /\ x = c
               /\ cr'[x].create = cr[x].create /\ cr'[x].remove = "removed"
        BY <1>0, <3>1 DEF TypeOK, CRoutineType
      <3> QED
        BY <2>9, <3>1, <3>2 DEF Stages
    <2>10. CASE ShutdownRemove(c)
      <3>1. cr' = [cr EXCEPT ![c].remove = "id"] \/ cr' = cr
        BY <2>10 DEF ShutdownRemove
      <3>2. \/ /\ cr'[x].create = cr[x].create
               /\ cr'[x].remove = cr[x].remove
            \/ /\ x = c
               /\ cr'[x].create = cr[x].create /\ cr'[x].remove = "id"
        BY <1>0, <3>1 DEF TypeOK, CRoutineType
      <3> QED
        BY <2>10, <3>1, <3>2 DEF Stages
    <2> QED
      BY <1>1, <2>1, <2>2, <2>3, <2>4, <2>5, <2>6, <2>7, <2>8, <2>9, <2>10
  <1>2. ASSUME NEW p \in Procs, TryRoutine(p) PROVE Stages(x)
    <2> DEFINE c == Candidate(p)
               r == UpdateState(cr[c])
    <2>1. c \in CRs
      BY <1>2, CandidateType DEF TryRoutine
    <2>2. r \in GoodRoutine /\ r.create = cr[c].create /\ r.remove = cr[c].remove
      BY <1>0, <2>1, UpdateGood
    <2>3. /\ [r EXCEPT !.lock = p].create = r.create
          /\ [r EXCEPT !.lock = p].remove = r.remove
      BY <2>2 DEF GoodRoutine, CRoutineType
    <2>4. \/ cr' = [cr EXCEPT ![c] = [r EXCEPT !.lock = p]]
          \/ cr' = [cr EXCEPT ![c] = r] \/ cr' = cr
      BY <1>2 DEF TryRoutine
    <2> HIDE DEF c, r
    <2> QED
      BY <2>1, <2>2, <2>3, <2>4, SameStages DEF TypeOK
  <1>3. ASSUME NEW p \in Procs, Resume(p) PROVE Stages(x)
    <2> DEFINE c == proc[p].cr
               r == [[cr[c] EXCEPT !.state = "FINISHED"] EXCEPT !.lock = NONE]
    <2>1. c \in CRs
      BY <1>3 DEF TypeOK, Resume, HoldsLock, ProcType
    <2>2. cr' = [cr EXCEPT ![c] = r] \/ cr' = cr
      BY <1>3 DEF Resume, Yield
    <2>3. r.create = cr[c].create /\ r.remove = cr[c].remove
      BY <1>0, <2>1 DEF CRoutineType
    <2> HIDE DEF c, r
    <2> QED
      BY <2>1, <2>2, <2>3, SameStages DEF TypeOK
  <1>4. ASSUME NEW p \in Procs, NEW c \in CRs, SetDataWait(p, c) PROVE Stages(x)
    <2> DEFINE r == [cr[c] EXCEPT !.state = "DATA_WAIT", !.body = "fetch"]
    <2>1. cr' = [cr EXCEPT ![c] = r]
      BY <1>4 DEF SetDataWait, Yield, Continue
    <2>2. r.create = cr[c].create /\ r.remove = cr[c].remove
      BY <1>0 DEF CRoutineType
    <2> HIDE DEF r
    <2> QED
      BY <2>1, <2>2, SameStages DEF TypeOK
  <1>5. ASSUME NEW p \in Procs, NEW c \in CRs, TryFetch(p, c) PROVE Stages(x)
    <2>1. CASE cr[c].mail > 0
      <3> DEFINE r == [cr[c] EXCEPT !.mail = @ - 1, !.missed = FALSE, !.body = "call"]
      <3>1. cr' = [cr EXCEPT ![c] = r]
        BY <1>5, <2>1 DEF TryFetch, Yield, Continue
      <3>2. r.create = cr[c].create /\ r.remove = cr[c].remove
        BY <1>0 DEF CRoutineType
      <3> HIDE DEF r
      <3> QED
        BY <3>1, <3>2, SameStages DEF TypeOK
    <2>2. CASE ~(cr[c].mail > 0)
      <3> DEFINE r == [[cr[c] EXCEPT !.missed = FALSE, !.body = "loop"] EXCEPT !.lock = NONE]
      <3>1. cr' = [cr EXCEPT ![c] = r]
        BY <1>5, <2>2 DEF TryFetch, Yield, Continue
      <3>2. r.create = cr[c].create /\ r.remove = cr[c].remove
        BY <1>0 DEF CRoutineType
      <3> HIDE DEF r
      <3> QED
        BY <3>1, <3>2, SameStages DEF TypeOK
    <2> QED
      BY <2>1, <2>2
  <1>6. ASSUME NEW p \in Procs, NEW c \in CRs, CallbackReturns(p, c) PROVE Stages(x)
    <2> DEFINE r == [[cr[c] EXCEPT !.state = "READY", !.body = "loop"] EXCEPT !.lock = NONE]
    <2>1. cr' = [cr EXCEPT ![c] = r]
      BY <1>6 DEF CallbackReturns, Yield, Continue
    <2>2. r.create = cr[c].create /\ r.remove = cr[c].remove
      BY <1>0 DEF CRoutineType
    <2> HIDE DEF r
    <2> QED
      BY <2>1, <2>2, SameStages DEF TypeOK
  <1>7. ASSUME NEW p \in Procs, NEW c \in CRs, TaskDequeue(p, c) PROVE Stages(x)
    <2>1. CASE cr[c].mail > 0
      <3> DEFINE r == [cr[c] EXCEPT !.mail = @ - 1, !.body = "call"]
      <3>1. cr' = [cr EXCEPT ![c] = r]
        BY <1>7, <2>1 DEF TaskDequeue, Yield, Continue
      <3>2. r.create = cr[c].create /\ r.remove = cr[c].remove
        BY <1>0 DEF CRoutineType
      <3> HIDE DEF r
      <3> QED
        BY <3>1, <3>2, SameStages DEF TypeOK
    <2>2. CASE ~(cr[c].mail > 0)
      <3> DEFINE r == [cr[c] EXCEPT !.body = "hang_up"]
      <3>1. cr' = [cr EXCEPT ![c] = r]
        BY <1>7, <2>2 DEF TaskDequeue, Yield, Continue
      <3>2. r.create = cr[c].create /\ r.remove = cr[c].remove
        BY <1>0 DEF CRoutineType
      <3> HIDE DEF r
      <3> QED
        BY <3>1, <3>2, SameStages DEF TypeOK
    <2> QED
      BY <2>1, <2>2
  <1>8. ASSUME NEW p \in Procs, NEW c \in CRs, TaskReturns(p, c) PROVE Stages(x)
    <2> DEFINE r == [cr[c] EXCEPT !.body = "loop"]
    <2>1. cr' = [cr EXCEPT ![c] = r]
      BY <1>8 DEF TaskReturns, Yield, Continue
    <2>2. r.create = cr[c].create /\ r.remove = cr[c].remove
      BY <1>0 DEF CRoutineType
    <2> HIDE DEF r
    <2> QED
      BY <2>1, <2>2, SameStages DEF TypeOK
  <1>9. ASSUME NEW p \in Procs, NEW c \in CRs, HangUp(p, c) PROVE Stages(x)
    <2> DEFINE r == [[cr[c] EXCEPT !.state = "DATA_WAIT", !.body = "loop"] EXCEPT !.lock = NONE]
    <2>1. cr' = [cr EXCEPT ![c] = r]
      BY <1>9 DEF HangUp, Yield, Continue
    <2>2. r.create = cr[c].create /\ r.remove = cr[c].remove
      BY <1>0 DEF CRoutineType
    <2> HIDE DEF r
    <2> QED
      BY <2>1, <2>2, SameStages DEF TypeOK
  <1>10. ASSUME NEW p \in Procs, NEW c \in CRs, Sleep(p, c) PROVE Stages(x)
    <2> DEFINE r == [[cr[c] EXCEPT !.state = "SLEEP", !.wake_due = FALSE, !.body = "slept"] EXCEPT !.lock = NONE]
    <2>1. cr' = [cr EXCEPT ![c] = r]
      BY <1>10 DEF Sleep, Yield, Continue
    <2>2. r.create = cr[c].create /\ r.remove = cr[c].remove
      BY <1>0 DEF CRoutineType
    <2> HIDE DEF r
    <2> QED
      BY <2>1, <2>2, SameStages DEF TypeOK
  <1>11. ASSUME NEW d \in Dispatchers, NEW c \in CRs, Deliver(d, c) PROVE Stages(x)
    <2>1. cr'[x].create = cr[x].create /\ cr'[x].remove = cr[x].remove
      BY <1>0, <1>11 DEF TypeOK, CRoutineType, Deliver
    <2> QED
      BY <2>1, SameStages
  <1>12. ASSUME NEW d \in Dispatchers, CallNotifier(d) PROVE Stages(x)
    <2>1. cr' = [cr EXCEPT ![disp[d].cr].missed = TRUE] \/ cr' = cr
      BY <1>12 DEF CallNotifier
    <2>2. cr'[x] = cr[x] \/ cr'[x] = [cr[x] EXCEPT !.missed = TRUE]
      BY <2>1 DEF TypeOK
    <2>3. cr'[x].create = cr[x].create /\ cr'[x].remove = cr[x].remove
      BY <1>0, <2>2 DEF CRoutineType
    <2> QED
      BY <2>3, SameStages
  <1>13. ASSUME NEW d \in Dispatchers, SetUpdateFlag(d) PROVE Stages(x)
    <2>1. cr'[x].create = cr[x].create /\ cr'[x].remove = cr[x].remove
      BY <1>0, <1>13 DEF TypeOK, CRoutineType, SetUpdateFlag
    <2> QED
      BY <2>1, SameStages
  <1>14. CASE UNCHANGED cr
    BY <1>14, SameStages
  <1>15. ASSUME NEW p \in Procs,
                \/ LoopTest(p) \/ EnterLevel(p) \/ LeaveLevel(p) \/ Wait(p)
                \/ ContextShutdown(p) \/ ProcessorStop(p)
         PROVE  UNCHANGED cr
    BY <1>15 DEF LoopTest, EnterLevel, LeaveLevel, Wait, ContextShutdown, ProcessorStop
  <1>16. ASSUME NEW d \in Dispatchers, NotifyEnter(d) PROVE UNCHANGED cr
    BY <1>16 DEF NotifyEnter
  <1>17. ASSUME ShutdownStop \/ ListRoutines \/ ShutdownRemoved \/ ShutdownDone
         PROVE  UNCHANGED cr
    BY <1>17 DEF ShutdownStop, ListRoutines, ShutdownRemoved, ShutdownDone
  <1>18. ASSUME NEW p \in Procs, NEW c \in CRs, TaskLoop(p, c) PROVE Stages(x)
    <2>1. CASE cr[c].tm_stop
      <3> DEFINE r == [[cr[c] EXCEPT !.state = "FINISHED"] EXCEPT !.lock = NONE]
      <3>1. cr' = [cr EXCEPT ![c] = r]
        BY <1>18, <2>1 DEF TaskLoop, Yield, Continue
      <3>2. r.create = cr[c].create /\ r.remove = cr[c].remove
        BY <1>0 DEF CRoutineType
      <3> HIDE DEF r
      <3> QED
        BY <3>1, <3>2, SameStages DEF TypeOK
    <2>2. CASE ~cr[c].tm_stop
      <3> DEFINE r == [cr[c] EXCEPT !.body = "fetch"]
      <3>1. cr' = [cr EXCEPT ![c] = r]
        BY <1>18, <2>2 DEF TaskLoop, Yield, Continue
      <3>2. r.create = cr[c].create /\ r.remove = cr[c].remove
        BY <1>0 DEF CRoutineType
      <3> HIDE DEF r
      <3> QED
        BY <3>1, <3>2, SameStages DEF TypeOK
    <2> QED
      BY <2>1, <2>2
  <1>19. ASSUME NEW p \in Procs, NEW c \in CRs, YieldInside(p, c) PROVE Stages(x)
    <2> DEFINE r == [[cr[c] EXCEPT !.body = "slept"] EXCEPT !.lock = NONE]
    <2>1. cr' = [cr EXCEPT ![c] = r]
      BY <1>19 DEF YieldInside, Yield, Continue
    <2>2. r.create = cr[c].create /\ r.remove = cr[c].remove
      BY <1>0 DEF CRoutineType
    <2> HIDE DEF r
    <2> QED
      BY <2>1, <2>2, SameStages DEF TypeOK
  <1>20. ASSUME NEW c \in CRs, CountWriter(c) \/ RemoveTaskStopped(c)
         PROVE  Stages(x)
    <2>1. \/ cr' = [cr EXCEPT ![c].waits = TRUE]
          \/ cr' = [cr EXCEPT ![c].tm_stop = TRUE]
      BY <1>20 DEF CountWriter, RemoveTaskStopped
    <2>2. cr'[x].create = cr[x].create /\ cr'[x].remove = cr[x].remove
      BY <1>0, <2>1 DEF TypeOK, CRoutineType
    <2> QED
      BY <2>2, SameStages
  <1> QED
    BY <1>1, <1>2, <1>3, <1>4, <1>5, <1>6, <1>7, <1>8, <1>9, <1>10, <1>11, <1>12,
       <1>13, <1>14, <1>15, <1>16, <1>17, <1>18, <1>19, <1>20 DEF Next

(* PushRq puts a routine in a queue that does not have it.                 *)
LEMMA QueuedPush ==
  ASSUME TypeOK, Routines, Queued, NEW c \in CRs, PushRq(c)
  PROVE  Queued'
  <1> DEFINE k == Prio[c]
             s == rq[k]
  <1>1. k \in Prios /\ s \in Seq(CRs) /\ Len(s) \in Nat
    BY SchedulerAssumption, LenProperties DEF TypeOK
  <1>2. /\ rq' = [rq EXCEPT ![k] = Append(s, c)]
        /\ cr' = [cr EXCEPT ![c].create = "register", ![c].waits = FALSE]
        /\ cr[c].create = "push"
    BY <1>1 DEF PushRq, TypeOK
  <1>3. cr[c].remove = "none" /\ cr[c] \in CRoutineType
    BY <1>2 DEF Routines, GoodRoutine
  <1>4. /\ cr'[c].create = "register" /\ cr'[c].remove = "none"
        /\ \A x \in CRs \ {c} : cr'[x] = cr[x]
    BY <1>2, <1>3 DEF TypeOK, CRoutineType
  <1>5. /\ Len(Append(s, c)) = Len(s) + 1
        /\ \A i \in 1..Len(s) : Append(s, c)[i] = s[i]
        /\ Append(s, c)[Len(s) + 1] = c
    BY <1>1, AppendProperties
  <1>6. \A l \in Prios : \A i \in 1..Len(rq[l]) : rq[l][i] \in CRs \ {c}
    <2>1. \A l \in Prios : \A i \in 1..Len(rq[l]) : rq[l][i] \in CRs
      BY ElementOfSeq DEF TypeOK
    <2> QED
      BY <1>2, <2>1 DEF Queued
  <1>7. rq'[k] = Append(s, c) /\ \A l \in Prios \ {k} : rq'[l] = rq[l]
    BY <1>1, <1>2 DEF TypeOK
  <1>8. ASSUME NEW l \in Prios, NEW i \in 1..Len(rq'[l])
        PROVE  /\ Prio[rq'[l][i]] = l
               /\ cr'[rq'[l][i]].create \in {"register", "created"}
               /\ cr'[rq'[l][i]].remove # "removed"
               /\ \A j \in 1..Len(rq'[l]) : rq'[l][j] = rq'[l][i] => i = j
    <2>1. CASE l # k
      <3>1. rq'[l] = rq[l] /\ rq[l][i] \in CRs \ {c} /\ cr'[rq[l][i]] = cr[rq[l][i]]
        BY <1>4, <1>6, <1>7, <2>1
      <3> QED
        BY <3>1 DEF Queued
    <2>2. CASE l = k
      <3>1. rq'[l] = Append(s, c) /\ i \in 1..(Len(s) + 1)
        BY <1>5, <1>7, <2>2
      <3>2. ASSUME NEW j \in 1..Len(s)
            PROVE  /\ rq'[l][j] = s[j] /\ s[j] \in CRs \ {c} /\ Prio[s[j]] = k
                   /\ cr'[s[j]].create \in {"register", "created"}
                   /\ cr'[s[j]].remove # "removed"
                   /\ \A m \in 1..Len(s) : s[m] = s[j] => j = m
        <4>1. s[j] \in CRs \ {c} /\ cr'[s[j]] = cr[s[j]]
          BY <1>1, <1>4, <1>6
        <4> QED
          BY <1>1, <1>5, <3>1, <4>1 DEF Queued
      <3>3. CASE i = Len(s) + 1
        <4>1. rq'[l][i] = c
          BY <1>5, <3>1, <3>3
        <4>2. ASSUME NEW j \in 1..Len(rq'[l]), rq'[l][j] = c PROVE j = i
          BY <1>1, <1>5, <3>1, <3>2, <3>3, <4>2
        <4> QED
          BY <1>4, <2>2, <4>1, <4>2
      <3>4. CASE i # Len(s) + 1
        <4>1. i \in 1..Len(s)
          BY <1>1, <3>1, <3>4
        <4>2. ASSUME NEW j \in 1..Len(rq'[l]), rq'[l][j] = rq'[l][i] PROVE j = i
          <5>1. j \in 1..Len(s) \/ j = Len(s) + 1
            BY <1>1, <1>5, <3>1
          <5> QED
            BY <1>5, <3>1, <3>2, <4>1, <4>2, <5>1
        <4> QED
          BY <2>2, <3>2, <4>1, <4>2
      <3> QED
        BY <3>3, <3>4
    <2> QED
      BY <2>1, <2>2
  <1> HIDE DEF k, s
  <1> QED
    BY <1>8 DEF Queued

(* EraseRq takes a routine out, and it was there once.                     *)
LEMMA QueuedErase ==
  ASSUME TypeOK, Routines, Queued, NEW c \in CRs, EraseRq(c)
  PROVE  Queued'
  <1> DEFINE k == Prio[c]
             s == rq[k]
  <1>1. k \in Prios /\ s \in Seq(CRs) /\ Len(s) \in Nat
    BY SchedulerAssumption, LenProperties DEF TypeOK
  <1>2. PICK e \in 1..Len(s) :
          s[e] = c /\ rq' = [rq EXCEPT ![k] = RemoveAt(s, e)]
    BY DEF EraseRq
  <1> DEFINE t == RemoveAt(s, e)
  <1>3. /\ Len(t) = Len(s) - 1
        /\ \A j \in 1..(Len(s) - 1) : t[j] = IF j < e THEN s[j] ELSE s[j + 1]
    BY <1>1, RemoveAtProps
  <1>4. /\ \A x \in CRs : cr'[x].create = cr[x].create
        /\ \A x \in CRs \ {c} : cr'[x] = cr[x]
    BY DEF TypeOK, CRoutineType, EraseRq
  <1>5. rq'[k] = t /\ \A l \in Prios \ {k} : rq'[l] = rq[l]
    BY <1>1, <1>2 DEF TypeOK
  <1>6. \A l \in Prios : \A i \in 1..Len(rq[l]) : rq[l][i] \in CRs
    BY ElementOfSeq DEF TypeOK
  <1> HIDE DEF t
  <1>7. ASSUME NEW l \in Prios, NEW i \in 1..Len(rq'[l])
        PROVE  /\ Prio[rq'[l][i]] = l
               /\ cr'[rq'[l][i]].create \in {"register", "created"}
               /\ cr'[rq'[l][i]].remove # "removed"
               /\ \A j \in 1..Len(rq'[l]) : rq'[l][j] = rq'[l][i] => i = j
    <2>1. CASE l # k
      <3>1. rq'[l] = rq[l] /\ rq[l][i] \in CRs /\ Prio[rq[l][i]] = l
        BY <1>5, <1>6, <2>1 DEF Queued
      <3>2. cr'[rq[l][i]] = cr[rq[l][i]]
        BY <1>4, <2>1, <3>1
      <3> QED
        BY <3>1, <3>2 DEF Queued
    <2>2. CASE l = k
      <3> DEFINE old(j) == IF j < e THEN j ELSE j + 1
      <3>1. rq'[l] = t /\ i \in 1..(Len(s) - 1)
        BY <1>3, <1>5, <2>2
      <3>2. ASSUME NEW j \in 1..(Len(s) - 1)
            PROVE  /\ old(j) \in 1..Len(s) /\ old(j) # e
                   /\ t[j] = s[old(j)]
                   /\ \A m \in 1..(Len(s) - 1) : old(m) = old(j) => j = m
        BY <1>1, <1>2, <1>3
      <3> HIDE DEF old
      <3>3. ASSUME NEW j \in 1..(Len(s) - 1)
            PROVE  /\ s[old(j)] \in CRs \ {c} /\ Prio[s[old(j)]] = k
                   /\ cr[s[old(j)]].create \in {"register", "created"}
                   /\ cr[s[old(j)]].remove # "removed"
                   /\ \A m \in 1..Len(s) : s[m] = s[old(j)] => old(j) = m
        <4>1. old(j) \in 1..Len(s) /\ old(j) # e
          BY <3>2
        <4>2. s[old(j)] # s[e]
          BY <1>1, <1>2, <4>1 DEF Queued
        <4> QED
          BY <1>1, <1>2, <1>6, <4>1, <4>2 DEF Queued
      <3>4. /\ Prio[t[i]] = l /\ cr'[t[i]].create \in {"register", "created"}
            /\ cr'[t[i]].remove # "removed"
        <4>1. t[i] = s[old(i)] /\ s[old(i)] \in CRs \ {c}
          BY <3>1, <3>2, <3>3
        <4>2. cr'[t[i]] = cr[t[i]]
          BY <1>4, <4>1
        <4> QED
          BY <2>2, <3>1, <3>3, <4>1, <4>2
      <3>5. ASSUME NEW j \in 1..(Len(s) - 1), t[j] = t[i] PROVE i = j
        <4>1. s[old(j)] = s[old(i)] /\ old(j) \in 1..Len(s)
          BY <3>1, <3>2, <3>5
        <4>2. old(i) = old(j)
          BY <3>1, <3>3, <4>1
        <4> QED
          BY <3>1, <3>2, <4>2
      <3> QED
        BY <1>3, <3>1, <3>4, <3>5
    <2> QED
      BY <2>1, <2>2
  <1> HIDE DEF k, s
  <1> QED
    BY <1>7 DEF Queued

(* Every step keeps Queued.                                                *)
LEMMA QueuedNext ==
  ASSUME TypeOK, Routines, HoldsLock, Queued, Next
  PROVE  Queued'
  <1>1. CASE \E c \in CRs : PushRq(c)
    BY <1>1, QueuedPush
  <1>2. CASE \E c \in CRs : EraseRq(c)
    BY <1>2, QueuedErase
  <1>3. CASE ~\E c \in CRs : PushRq(c) \/ EraseRq(c)
    <2>1. rq' = rq
      BY <1>3, Frames DEF StepFrame
    <2>2. \A l \in Prios : \A i \in 1..Len(rq[l]) : rq[l][i] \in CRs
      BY ElementOfSeq DEF TypeOK
    <2>3. ASSUME NEW x \in CRs
          PROVE  /\ cr[x].create \in {"register", "created"} =>
                      cr'[x].create \in {"register", "created"}
                 /\ cr[x].remove # "removed" => cr'[x].remove # "removed"
      <3>1. Stages(x)
        BY StagesNext
      <3>2. ~EraseRq(x)
        BY <1>3, Zenon
      <3> QED
        BY <3>1, <3>2 DEF Stages
    <2> QED
      BY <2>1, <2>2, <2>3 DEF Queued
  <1> QED
    BY <1>1, <1>2, <1>3

(* A processor comes to a routine only by taking it from a run queue.      *)
LEMMA ComesTo ==
  ASSUME TypeOK, Next, NEW p \in Procs
  PROVE  \/ proc'[p].cr = proc[p].cr \/ proc'[p].cr = NONE
         \/ TryRoutine(p) /\ proc'[p].cr = Candidate(p)
  <1> DEFINE Goal == \/ proc'[p].cr = proc[p].cr \/ proc'[p].cr = NONE
                     \/ TryRoutine(p) /\ proc'[p].cr = Candidate(p)
  <1>0. \A q \in Procs : proc[q] \in ProcType
    BY DEF TypeOK
  <1>1. ASSUME NEW q \in Procs,
               LoopTest(q) \/ EnterLevel(q) \/ LeaveLevel(q) \/ Wait(q)
        PROVE  Goal
    <2>1. CASE LoopTest(q)
      BY <1>0, <2>1 DEF LoopTest, TypeOK, ProcType
    <2>2. CASE EnterLevel(q)
      BY <1>0, <2>2 DEF EnterLevel, TypeOK, ProcType
    <2>3. CASE LeaveLevel(q)
      BY <1>0, <2>3 DEF LeaveLevel, TypeOK, ProcType
    <2>4. CASE Wait(q)
      BY <1>0, <2>4 DEF Wait, TypeOK, ProcType
    <2> QED
      BY <1>1, <2>1, <2>2, <2>3, <2>4
  <1>2. ASSUME NEW q \in Procs, TryRoutine(q) PROVE Goal
    <2>1. \/ proc' = [proc EXCEPT ![q] = [pc |-> "resume", cr |-> Candidate(q),
                                          level |-> Top, pos |-> 1]]
          \/ proc' = [proc EXCEPT ![q].pos = @ + 1]
      BY <1>2 DEF TryRoutine
    <2>2. CASE proc' = [proc EXCEPT ![q].pos = @ + 1]
      BY <1>0, <2>2 DEF TypeOK, ProcType
    <2>3. CASE proc' = [proc EXCEPT ![q] = [pc |-> "resume", cr |-> Candidate(q),
                                            level |-> Top, pos |-> 1]]
      <3>1. proc'[p] = IF p = q THEN [pc |-> "resume", cr |-> Candidate(q),
                                      level |-> Top, pos |-> 1]
                                ELSE proc[p]
        BY <2>3 DEF TypeOK
      <3> QED
        BY <1>2, <3>1
    <2> QED
      BY <2>1, <2>2, <2>3
  <1>3. ASSUME NEW q \in Procs,
               proc' = [proc EXCEPT ![q].pc = "top", ![q].cr = NONE]
        PROVE  Goal
    BY <1>0, <1>3 DEF TypeOK, ProcType
  <1>4. ASSUME NEW q \in Procs, Resume(q) PROVE Goal
    <2>1. CASE cr[proc[q].cr].force_stop
      BY <1>3, <1>4, <2>1 DEF Resume, Yield
    <2>2. CASE ~cr[proc[q].cr].force_stop
      <3>1. proc' = [proc EXCEPT ![q].pc = "running"]
        BY <1>4, <2>2 DEF Resume
      <3> QED
        BY <1>0, <3>1 DEF TypeOK, ProcType
    <2> QED
      BY <2>1, <2>2
  <1>5. ASSUME NEW q \in Procs, NEW c \in CRs, TryFetch(q, c) PROVE Goal
    BY <1>3, <1>5 DEF TryFetch, Yield, Continue
  <1>6. ASSUME NEW q \in Procs, NEW c \in CRs, TaskLoop(q, c) PROVE Goal
    BY <1>3, <1>6 DEF TaskLoop, Yield, Continue
  <1>7. ASSUME NEW q \in Procs, NEW c \in CRs,
               \/ CallbackReturns(q, c) \/ HangUp(q, c) \/ Sleep(q, c)
               \/ YieldInside(q, c)
        PROVE  Goal
    BY <1>3, <1>7 DEF CallbackReturns, HangUp, Sleep, YieldInside, Yield
  <1>8. CASE UNCHANGED proc
    BY <1>8
  <1> QED
    BY <1>1, <1>2, <1>4, <1>5, <1>6, <1>7, <1>8
    DEF Next, CreateTask, InsertId, PushRq, RegisterCallback, WakeTimePasses,
        RemoveTask, RemoveTaskStopped, CountWriter, EraseId, TakeRqLock, EraseRq,
        ShutdownRemove, ContextShutdown, ProcessorStop, SetDataWait, TaskDequeue,
        TaskReturns, Continue, Deliver, CallNotifier,
        NotifyEnter, SetUpdateFlag, ShutdownStop, ListRoutines, ShutdownRemoved,
        ShutdownDone

(* Every step keeps NotRunning: a removed routine is in no queue, so no    *)
(* processor comes to it, and EraseRq finds its lock free.                 *)
LEMMA NotRunningNext ==
  ASSUME TypeOK, Routines, HoldsLock, Queued, NotRunning, Next
  PROVE  NotRunning'
  <1> SUFFICES ASSUME NEW c \in CRs, cr'[c].remove = "removed", NEW p \in Procs,
                      proc'[p].cr = c
               PROVE  FALSE
    BY DEF NotRunning
  <1>1. c # NONE /\ p # NONE
    BY SchedulerAssumption
  <1>2. CASE cr[c].remove = "removed"
    <2>1. proc[p].cr # c
      BY <1>2 DEF NotRunning
    <2>2. TryRoutine(p) /\ c = Candidate(p)
      BY <1>1, <2>1, ComesTo
    <2>3. cr[Candidate(p)].remove # "removed"
      <3>1. proc[p].level \in Prios /\ proc[p].pos \in 1..Len(rq[proc[p].level])
        BY <2>2, CandidateType DEF TryRoutine
      <3> QED
        BY <3>1 DEF Queued, Candidate
    <2> QED
      BY <1>2, <2>2, <2>3
  <1>3. CASE cr[c].remove # "removed"
    <2>1. EraseRq(c)
      BY <1>3, StagesNext DEF Stages
    <2>2. proc[p].cr = c /\ cr[c].lock = NONE
      BY <2>1 DEF EraseRq
    <2> QED
      BY <1>1, <2>2 DEF HoldsLock
  <1> QED
    BY <1>2, <1>3

-----------------------------------------------------------------------------

(* Inv is inductive.                                                       *)
LEMMA InvNext == Inv /\ [Next]_vars => Inv'
  <1>1. ASSUME Inv, Next PROVE Inv'
    BY <1>1, RoutinesNext, TypeNext, HoldsLockNext, QueuedNext, NotRunningNext DEF Inv
  <1>2. ASSUME Inv, UNCHANGED vars PROVE Inv'
    BY <1>2 DEF Inv, vars, TypeOK, Routines, HoldsLock, Queued, NotRunning
  <1> QED
    BY <1>1, <1>2

(* The invariant holds in every reachable state.                           *)
THEOREM Invariance == Spec => []Inv
  BY InitInv, InvNext, PTL DEF Spec

(* The routines, processors and queues of croutine.h, processor.cpp and    *)
(* classic_context.cpp stay in their sets.                                 *)
THEOREM TypeCorrect == Spec => []TypeOK
  <1>1. Inv => TypeOK
    BY DEF Inv
  <1> QED
    BY <1>1, Invariance, PTL

(* CRoutine::Acquire keeps every two processors out of one routine, and    *)
(* what Resume finds is READY, however many processors, routines and       *)
(* priorities there are.                                                   *)
THEOREM RoutineRunsAlone == Spec => []RunsAlone
  <1>1. Inv => RunsAlone
    BY SchedulerAssumption DEF Inv, HoldsLock, RunsAlone
  <1> QED
    BY <1>1, Invariance, PTL

(* ClassicContext::RemoveCRoutine returns only when no processor and no    *)
(* run queue has the routine, and none gets it back.                       *)
THEOREM RemovedRoutineIsQuiet == Spec => []RemovedIsQuiet
  <1>1. Inv => RemovedIsQuiet
    BY DEF Inv, NotRunning, Queued, RemovedIsQuiet
  <1> QED
    BY <1>1, Invariance, PTL

-----------------------------------------------------------------------------
(* No lost wakeup. A notifier that has come past the test of the callback  *)
(* finds the routine in id_cr_, for the callback is registered after       *)
(* DispatchTask has put the routine there, and only a removal, which sets  *)
(* force_stop_ in the same step, takes it out again (Registered). What     *)
(* remains is the order of three steps: the routine sets DATA_WAIT, then   *)
(* looks for a message, and a notifier that follows the message sets the   *)
(* flag if it sees DATA_WAIT.                                              *)

Registered(x) ==
  /\ cr[x].create \in {"push", "register", "created"} =>
       x \in id_cr \/ cr[x].force_stop
  /\ cr[x].callback => cr[x].create = "created"
  /\ \A d \in Dispatchers :
       disp[d].cr = x /\ disp[d].pc \in {"enter", "flag"} => cr[x].callback

Busy(d, x) == disp[d].cr = x /\ disp[d].pc \in {"notify", "enter", "flag"}

Waits(x) == Parked(x) /\ cr[x].mail > 0 /\ ~cr[x].missed

Woken(x) ==
  Waits(x) /\ ~down.stop /\ ~cr[x].force_stop
    /\ (\A d \in Dispatchers : ~Busy(d, x))
  => ~cr[x].updated

WakeInv == \A x \in Visitors : Registered(x) /\ Woken(x)

(* The routine goes on in its life, never back.                            *)
GoesOn(x) ==
  /\ cr[x].force_stop => cr'[x].force_stop
  /\ cr[x].callback => cr'[x].callback
  /\ cr'[x].callback => cr[x].callback \/ cr'[x].create = "created"
  /\ cr[x].create = "created" => cr'[x].create = "created"
  /\ cr'[x].create \in {"push", "register", "created"} =>
       cr[x].create \in {"push", "register", "created"} \/ x \in id_cr'
  /\ x \in id_cr => x \in id_cr' \/ cr'[x].force_stop

(* Nothing but a delivery makes a routine wait with a message there, and   *)
(* no step takes its news from one that does.                              *)
StaysWoken(x) ==
  Waits(x)' => \/ Waits(x) /\ (cr'[x].updated => cr[x].updated)
               \/ \E d \in Dispatchers : Deliver(d, x)

Steady(x) == GoesOn(x) /\ StaysWoken(x)

(* A step that leaves what these facts speak of.                           *)
LEMMA SteadyFrame ==
  ASSUME NEW x \in CRs, x \in id_cr <=> x \in id_cr',
         cr'[x].state = cr[x].state, cr'[x].body = cr[x].body,
         cr'[x].mail = cr[x].mail, cr'[x].missed = cr[x].missed,
         cr'[x].updated = cr[x].updated, cr'[x].force_stop = cr[x].force_stop,
         cr'[x].callback = cr[x].callback, cr'[x].create = cr[x].create
  PROVE  Steady(x)
  BY DEF Steady, GoesOn, StaysWoken, Waits, Parked

(* A step of the function of a routine.                                    *)
LEMMA SteadyBody ==
  ASSUME TypeOK, NEW c \in CRs, NEW r, NEW x \in CRs, id_cr' = id_cr,
         cr' = [cr EXCEPT ![c] = r],
         r.force_stop = cr[c].force_stop, r.callback = cr[c].callback,
         r.create = cr[c].create,
         r.state = "DATA_WAIT" /\ r.body = "loop" => ~(r.mail > 0)
  PROVE  Steady(x)
  <1>1. CASE x = c
    <2>1. cr'[x] = r
      BY <1>1 DEF TypeOK
    <2> QED
      BY <1>1, <2>1 DEF Steady, GoesOn, StaysWoken, Waits, Parked
  <1>2. CASE x # c
    <2>1. cr'[x] = cr[x]
      BY <1>2 DEF TypeOK
    <2> QED
      BY <2>1, SteadyFrame
  <1> QED
    BY <1>1, <1>2

(* The body's step is a Continue or a Yield.                               *)
LEMMA SteadyRun ==
  ASSUME TypeOK, NEW p \in Procs, NEW c \in CRs, NEW r \in CRoutineType,
         NEW x \in CRs, Continue(p, c, r) \/ Yield(p, c, r),
         r.force_stop = cr[c].force_stop, r.callback = cr[c].callback,
         r.create = cr[c].create,
         r.state = "DATA_WAIT" /\ r.body = "loop" => ~(r.mail > 0)
  PROVE  Steady(x)
  <1>1. CASE Continue(p, c, r)
    BY <1>1, SteadyBody DEF Continue
  <1>2. CASE Yield(p, c, r)
    <2> DEFINE s == [r EXCEPT !.lock = NONE]
    <2>1. /\ s.force_stop = r.force_stop /\ s.callback = r.callback
          /\ s.create = r.create /\ s.state = r.state /\ s.body = r.body
          /\ s.mail = r.mail
      BY DEF CRoutineType
    <2>2. cr' = [cr EXCEPT ![c] = s] /\ id_cr' = id_cr
      BY <1>2 DEF Yield
    <2> HIDE DEF s
    <2> QED
      BY <2>1, <2>2, SteadyBody
  <1> QED
    BY <1>1, <1>2


(* UpdateState leaves a routine waiting only if there is no news for it.   *)
LEMMA UpdateWakes ==
  ASSUME NEW r \in CRoutineType
  PROVE  LET u == UpdateState(r) IN
         /\ u.body = r.body /\ u.mail = r.mail /\ u.missed = r.missed
         /\ u.force_stop = r.force_stop /\ u.callback = r.callback
         /\ u.create = r.create
         /\ u.state = "DATA_WAIT" => r.state = "DATA_WAIT" /\ r.updated
  BY DEF UpdateState, CRoutineType

(* A processor that takes or passes by a routine.                          *)
LEMMA SteadyTry ==
  ASSUME TypeOK, NEW p \in Procs, TryRoutine(p), NEW x \in CRs
  PROVE  Steady(x)
  <1> DEFINE c == Candidate(p)
             u == UpdateState(cr[c])
             v == [u EXCEPT !.lock = p]
  <1>1. c \in CRs /\ cr[c] \in CRoutineType
    BY CandidateType DEF TryRoutine, TypeOK
  <1>2. /\ u.body = cr[c].body /\ u.mail = cr[c].mail /\ u.missed = cr[c].missed
        /\ u.force_stop = cr[c].force_stop /\ u.callback = cr[c].callback
        /\ u.create = cr[c].create
        /\ u.state = "DATA_WAIT" => cr[c].state = "DATA_WAIT" /\ cr[c].updated
    BY <1>1, UpdateWakes
  <1>3. u \in CRoutineType
    BY <1>1 DEF UpdateState, CRoutineType
  <1>4. /\ v.body = u.body /\ v.mail = u.mail /\ v.missed = u.missed
        /\ v.force_stop = u.force_stop /\ v.callback = u.callback
        /\ v.create = u.create /\ v.state = u.state
    BY <1>3 DEF CRoutineType
  <1>5. /\ id_cr' = id_cr
        /\ cr' = [cr EXCEPT ![c] = v] \/ cr' = [cr EXCEPT ![c] = u] \/ cr' = cr
    BY DEF TryRoutine
  <1> HIDE DEF c, u, v
  <1>6. CASE cr'[x] = cr[x]
    BY <1>5, <1>6, SteadyFrame
  <1>7. CASE x = c /\ (cr'[x] = u \/ cr'[x] = v)
    BY <1>2, <1>4, <1>5, <1>7 DEF Steady, GoesOn, StaysWoken, Waits, Parked
  <1> QED
    BY <1>1, <1>5, <1>6, <1>7 DEF TypeOK

(* The routine's function runs.                                            *)
LEMMA SteadyFunction ==
  ASSUME TypeOK, Routines, NEW p \in Procs, NEW c \in CRs, NEW x \in Visitors,
         \/ SetDataWait(p, c) \/ TryFetch(p, c) \/ CallbackReturns(p, c)
         \/ TaskLoop(p, c) \/ TaskDequeue(p, c) \/ TaskReturns(p, c)
         \/ HangUp(p, c) \/ Sleep(p, c) \/ YieldInside(p, c)
  PROVE  Steady(x)
  <1>0. cr[c] \in CRoutineType /\ x \in CRs
    BY DEF TypeOK, CRs
  <1>1. CASE SetDataWait(p, c)
    <2> DEFINE r == [cr[c] EXCEPT !.state = "DATA_WAIT", !.body = "fetch"]
    <2>1. /\ r \in CRoutineType /\ r.force_stop = cr[c].force_stop
          /\ r.callback = cr[c].callback /\ r.create = cr[c].create
          /\ r.body # "loop"
      BY <1>0 DEF CRoutineType
    <2>2. Continue(p, c, r)
      BY <1>1 DEF SetDataWait
    <2> HIDE DEF r
    <2> QED
      BY <1>0, <2>1, <2>2, SteadyRun
  <1>2. CASE TryFetch(p, c)
    <2>1. CASE cr[c].mail > 0
      <3> DEFINE m == cr[c].mail - 1
                 r == [cr[c] EXCEPT !.mail = m, !.missed = FALSE, !.body = "call"]
      <3>0. m \in 0..MaxMsgs
        BY <1>0, <2>1, SchedulerAssumption DEF CRoutineType
      <3>2. Continue(p, c, r)
        BY <1>2, <2>1 DEF TryFetch
      <3> HIDE DEF m
      <3>1. /\ r \in CRoutineType /\ r.force_stop = cr[c].force_stop
            /\ r.callback = cr[c].callback /\ r.create = cr[c].create
            /\ r.body # "loop"
        BY <1>0, <3>0 DEF CRoutineType
      <3> HIDE DEF r
      <3> QED
        BY <1>0, <3>1, <3>2, SteadyRun
    <2>2. CASE ~(cr[c].mail > 0)
      <3> DEFINE r == [cr[c] EXCEPT !.missed = FALSE, !.body = "loop"]
      <3>1. /\ r \in CRoutineType /\ r.force_stop = cr[c].force_stop
            /\ r.callback = cr[c].callback /\ r.create = cr[c].create
            /\ r.mail = cr[c].mail
        BY <1>0 DEF CRoutineType
      <3>2. Yield(p, c, r)
        BY <1>2, <2>2 DEF TryFetch
      <3> HIDE DEF r
      <3> QED
        BY <1>0, <2>2, <3>1, <3>2, SteadyRun
    <2> QED
      BY <2>1, <2>2
  <1>3. CASE CallbackReturns(p, c)
    <2> DEFINE r == [cr[c] EXCEPT !.state = "READY", !.body = "loop"]
    <2>1. /\ r \in CRoutineType /\ r.force_stop = cr[c].force_stop
          /\ r.callback = cr[c].callback /\ r.create = cr[c].create
          /\ r.state # "DATA_WAIT"
      BY <1>0 DEF CRoutineType
    <2>2. Yield(p, c, r)
      BY <1>3 DEF CallbackReturns
    <2> HIDE DEF r
    <2> QED
      BY <1>0, <2>1, <2>2, SteadyRun
  <1>4. CASE Sleep(p, c)
    <2> DEFINE r == [cr[c] EXCEPT !.state = "SLEEP", !.wake_due = FALSE,
                                  !.body = "slept"]
    <2>1. /\ r \in CRoutineType /\ r.force_stop = cr[c].force_stop
          /\ r.callback = cr[c].callback /\ r.create = cr[c].create
          /\ r.state # "DATA_WAIT"
      BY <1>0 DEF CRoutineType
    <2>2. Yield(p, c, r)
      BY <1>4 DEF Sleep
    <2> HIDE DEF r
    <2> QED
      BY <1>0, <2>1, <2>2, SteadyRun
  <1>5. CASE TaskLoop(p, c) \/ TaskDequeue(p, c) \/ TaskReturns(p, c) \/ HangUp(p, c)
    <2>1. c \in Workers /\ x # c
      BY <1>5, KindsAssumption DEF TaskLoop, TaskDequeue, TaskReturns, HangUp
    <2>2. id_cr' = id_cr /\ \E r : cr' = [cr EXCEPT ![c] = r]
      BY <1>5 DEF TaskLoop, TaskDequeue, TaskReturns, HangUp, Continue, Yield
    <2>3. cr'[x] = cr[x]
      BY <1>0, <2>1, <2>2 DEF TypeOK
    <2> QED
      BY <1>0, <2>2, <2>3, SteadyFrame
  <1>6. CASE YieldInside(p, c)
    <2> DEFINE r == [cr[c] EXCEPT !.body = "slept"]
    <2>1. /\ r \in CRoutineType /\ r.force_stop = cr[c].force_stop
          /\ r.callback = cr[c].callback /\ r.create = cr[c].create
          /\ r.body # "loop"
      BY <1>0 DEF CRoutineType
    <2>2. Yield(p, c, r)
      BY <1>6 DEF YieldInside
    <2> HIDE DEF r
    <2> QED
      BY <1>0, <2>1, <2>2, SteadyRun
  <1> QED
    BY <1>1, <1>2, <1>3, <1>4, <1>5, <1>6

(* Creating, removing, sleeping and shutting down.                         *)
LEMMA SteadyLife ==
  ASSUME TypeOK, Routines, NEW c \in CRs, NEW x \in Visitors,
         \/ CreateTask(c) \/ InsertId(c) \/ PushRq(c) \/ RegisterCallback(c)
         \/ WakeTimePasses(c) \/ RemoveTask(c) \/ EraseId(c) \/ TakeRqLock(c)
         \/ EraseRq(c) \/ ShutdownRemove(c) \/ CountWriter(c)
         \/ RemoveTaskStopped(c)
  PROVE  Steady(x)
  <1>0. /\ cr[c] \in CRoutineType /\ x \in CRs /\ cr[x] \in CRoutineType
        /\ cr \in [CRs -> CRoutineType]
    BY DEF TypeOK, CRs
  <1>1. CASE CreateTask(c)
    <2>1. cr[c].create = "absent" /\ id_cr' = id_cr
          /\ cr' = [cr EXCEPT ![c].create = "insert"]
      BY <1>1 DEF CreateTask
    <2>2. CASE x # c
      BY <1>0, <2>1, <2>2, SteadyFrame
    <2>3. CASE x = c
      <3>1. cr'[x] = [cr[x] EXCEPT !.create = "insert"]
        BY <1>0, <2>1, <2>3
      <3> QED
        BY <1>0, <2>1, <2>3, <3>1
        DEF CRoutineType, Steady, GoesOn, StaysWoken, Waits, Parked
    <2> QED
      BY <2>2, <2>3
  <1>2. CASE InsertId(c)
    <2>1. cr[c].create = "insert" /\ id_cr' = id_cr \cup {c}
          /\ cr' = [cr EXCEPT ![c].create = "push", ![c].waits = FALSE]
      BY <1>2 DEF InsertId
    <2>2. CASE x # c
      BY <1>0, <2>1, <2>2, SteadyFrame
    <2>3. CASE x = c
      <3>1. cr'[x] = [cr[x] EXCEPT !.create = "push", !.waits = FALSE] /\ x \in id_cr'
        BY <1>0, <2>1, <2>3
      <3> QED
        BY <1>0, <2>1, <2>3, <3>1
        DEF CRoutineType, Steady, GoesOn, StaysWoken, Waits, Parked
    <2> QED
      BY <2>2, <2>3
  <1>3. CASE PushRq(c)
    <2>1. cr[c].create = "push" /\ id_cr' = id_cr
          /\ cr' = [cr EXCEPT ![c].create = "register", ![c].waits = FALSE]
      BY <1>3 DEF PushRq
    <2>2. CASE x # c
      BY <1>0, <2>1, <2>2, SteadyFrame
    <2>3. CASE x = c
      <3>1. cr'[x] = [cr[x] EXCEPT !.create = "register", !.waits = FALSE]
        BY <1>0, <2>1, <2>3
      <3> QED
        BY <1>0, <2>1, <2>3, <3>1
        DEF CRoutineType, Steady, GoesOn, StaysWoken, Waits, Parked
    <2> QED
      BY <2>2, <2>3
  <1>4. CASE RegisterCallback(c)
    <2>1. cr[c].create = "register" /\ id_cr' = id_cr
          /\ cr' = [cr EXCEPT ![c].callback = c \in Visitors, ![c].create = "created"]
      BY <1>4 DEF RegisterCallback
    <2>2. CASE x # c
      BY <1>0, <2>1, <2>2, SteadyFrame
    <2>3. CASE x = c
      <3>1. cr'[x] = [cr[x] EXCEPT !.callback = TRUE, !.create = "created"]
        BY <1>0, <2>1, <2>3
      <3> QED
        BY <1>0, <2>1, <2>3, <3>1
        DEF CRoutineType, Steady, GoesOn, StaysWoken, Waits, Parked
    <2> QED
      BY <2>2, <2>3
  <1>5. CASE EraseId(c)
    <2>1. id_cr' = id_cr \ {c}
          /\ cr' = [cr EXCEPT ![c].force_stop = TRUE, ![c].remove = "rq", ![c].waits = FALSE]
      BY <1>5 DEF EraseId
    <2>2. CASE x # c
      BY <1>0, <2>1, <2>2, SteadyFrame
    <2>3. CASE x = c
      <3>1. cr'[x] = [cr[x] EXCEPT !.force_stop = TRUE, !.remove = "rq", !.waits = FALSE]
        BY <1>0, <2>1, <2>3
      <3> QED
        BY <1>0, <2>1, <2>3, <3>1
        DEF CRoutineType, Steady, GoesOn, StaysWoken, Waits, Parked
    <2> QED
      BY <2>2, <2>3
  <1>6. CASE \/ WakeTimePasses(c) \/ RemoveTask(c) \/ TakeRqLock(c)
             \/ EraseRq(c) \/ ShutdownRemove(c) \/ CountWriter(c)
             \/ RemoveTaskStopped(c)
    <2>1. /\ id_cr' = id_cr
          /\ \/ \E b : cr' = [cr EXCEPT ![c].remove = "id", ![c].tm_stop = b]
             \/ \E s : cr' = [cr EXCEPT ![c].remove = s]
             \/ cr' = [cr EXCEPT ![c].remove = "spin", ![c].waits = FALSE]
             \/ cr' = [cr EXCEPT ![c].waits = TRUE]
             \/ cr' = [cr EXCEPT ![c].tm_stop = TRUE]
             \/ cr' = [cr EXCEPT ![c].wake_due = TRUE] \/ cr' = cr
      <3>1. CASE RemoveTask(c)
        BY <3>1, Zenon DEF RemoveTask
      <3>2. CASE WakeTimePasses(c) \/ EraseRq(c) \/ ShutdownRemove(c)
        BY <3>2, Zenon DEF WakeTimePasses, EraseRq, ShutdownRemove
      <3>3. CASE TakeRqLock(c) \/ CountWriter(c) \/ RemoveTaskStopped(c)
        BY <3>3, Zenon DEF TakeRqLock, CountWriter, RemoveTaskStopped
      <3> QED
        BY <1>6, <3>1, <3>2, <3>3
    <2>2. /\ cr'[x].state = cr[x].state /\ cr'[x].body = cr[x].body
          /\ cr'[x].mail = cr[x].mail /\ cr'[x].missed = cr[x].missed
          /\ cr'[x].updated = cr[x].updated /\ cr'[x].force_stop = cr[x].force_stop
          /\ cr'[x].callback = cr[x].callback /\ cr'[x].create = cr[x].create
      BY <1>0, <2>1 DEF CRoutineType
    <2> QED
      BY <1>0, <2>1, <2>2, SteadyFrame
  <1> QED
    BY <1>1, <1>2, <1>3, <1>4, <1>5, <1>6

(* Delivering and notifying.                                               *)
LEMMA SteadyNotify ==
  ASSUME TypeOK, NEW d \in Dispatchers, NEW x \in Visitors,
         \/ \E c \in CRs : Deliver(d, c)
         \/ CallNotifier(d) \/ NotifyEnter(d) \/ SetUpdateFlag(d)
  PROVE  Steady(x)
  <1>0. x \in CRs /\ cr[x] \in CRoutineType /\ cr \in [CRs -> CRoutineType]
    BY DEF TypeOK, CRs
  <1>1. ASSUME NEW c \in CRs, Deliver(d, c) PROVE Steady(x)
    <2>1. id_cr' = id_cr /\ cr' = [cr EXCEPT ![c].mail = @ + 1, ![c].sent = @ + 1]
      BY <1>1 DEF Deliver
    <2>2. CASE x # c
      BY <1>0, <2>1, <2>2, SteadyFrame
    <2>3. CASE x = c
      <3>1. cr'[x] = [cr[x] EXCEPT !.mail = @ + 1, !.sent = @ + 1]
        BY <1>0, <2>1, <2>3
      <3>2. GoesOn(x)
        BY <1>0, <2>1, <3>1 DEF CRoutineType, GoesOn
      <3>3. StaysWoken(x)
        BY <1>1, <2>3 DEF StaysWoken
      <3> QED
        BY <3>2, <3>3 DEF Steady
    <2> QED
      BY <2>2, <2>3
  <1>2. CASE CallNotifier(d) \/ NotifyEnter(d) \/ SetUpdateFlag(d)
    <2> DEFINE c == disp[d].cr
    <2>1. /\ id_cr' = id_cr
          /\ \/ cr' = [cr EXCEPT ![c].missed = TRUE]
             \/ cr' = [cr EXCEPT ![c].updated = FALSE] \/ cr' = cr
      BY <1>2 DEF CallNotifier, NotifyEnter, SetUpdateFlag
    <2>2. \/ cr'[x] = [cr[x] EXCEPT !.missed = TRUE]
          \/ cr'[x] = [cr[x] EXCEPT !.updated = FALSE] \/ cr'[x] = cr[x]
      BY <1>0, <2>1
    <2> HIDE DEF c
    <2> QED
      BY <1>0, <2>1, <2>2 DEF CRoutineType, Steady, GoesOn, StaysWoken, Waits, Parked
  <1> QED
    BY <1>1, <1>2

(* Every step is steady.                                                   *)
LEMMA SteadyNext ==
  ASSUME TypeOK, Routines, HoldsLock, Next, NEW x \in Visitors
  PROVE  Steady(x)
  <1>0. x \in CRs
    BY DEF CRs
  <1>1. ASSUME NEW p \in Procs, Resume(p) PROVE Steady(x)
    <2> DEFINE c == proc[p].cr
               r == [cr[c] EXCEPT !.state = "FINISHED"]
    <2>1. c \in CRs
      BY <1>1 DEF TypeOK, Resume, HoldsLock, ProcType
    <2>0. cr[c] \in CRoutineType
      BY <2>1 DEF TypeOK
    <2> HIDE DEF c
    <2>2. /\ r \in CRoutineType /\ r.force_stop = cr[c].force_stop
          /\ r.callback = cr[c].callback /\ r.create = cr[c].create
          /\ r.state # "DATA_WAIT"
      BY <2>0 DEF CRoutineType
    <2>3. Yield(p, c, r) \/ (cr' = cr /\ id_cr' = id_cr)
      BY <1>1 DEF Resume, c
    <2> HIDE DEF c, r
    <2> QED
      BY <1>0, <2>1, <2>2, <2>3, SteadyRun, SteadyFrame
  <1>2. CASE cr' = cr /\ id_cr' = id_cr
    BY <1>0, <1>2, SteadyFrame
  <1>3. ASSUME NEW p \in Procs,
               \/ LoopTest(p) \/ EnterLevel(p) \/ LeaveLevel(p) \/ Wait(p)
               \/ ContextShutdown(p) \/ ProcessorStop(p)
        PROVE  cr' = cr /\ id_cr' = id_cr
    BY <1>3 DEF LoopTest, EnterLevel, LeaveLevel, Wait, ContextShutdown, ProcessorStop
  <1>4. ASSUME ShutdownStop \/ ListRoutines \/ ShutdownRemoved \/ ShutdownDone
        PROVE  cr' = cr /\ id_cr' = id_cr
    BY <1>4 DEF ShutdownStop, ListRoutines, ShutdownRemoved, ShutdownDone
  <1>5. ASSUME NEW p \in Procs, TryRoutine(p) PROVE Steady(x)
    BY <1>0, <1>5, SteadyTry
  <1> QED
    BY <1>1, <1>2, <1>3, <1>4, <1>5, SteadyFunction, SteadyLife, SteadyNotify
    DEF Next

(* Whoever has started to notify a routine has not finished, or has set    *)
(* its flag, found it at work, found no callback or a scheduler that       *)
(* stops.                                                                  *)
LEMMA NotifierNext ==
  ASSUME TypeOK, Next, NEW x \in Visitors, Registered(x),
         NEW d \in Dispatchers, Busy(d, x)
  PROVE  \/ Busy(d, x)'
         \/ ~cr'[x].updated \/ cr'[x].state # "DATA_WAIT" \/ cr'[x].missed
         \/ down.stop \/ cr[x].force_stop
  <1> DEFINE Goal == \/ Busy(d, x)'
                     \/ ~cr'[x].updated \/ cr'[x].state # "DATA_WAIT"
                     \/ cr'[x].missed \/ down.stop \/ cr[x].force_stop
  <1>0. /\ x \in CRs /\ cr[x] \in CRoutineType /\ cr \in [CRs -> CRoutineType]
        /\ disp \in [Dispatchers -> [pc : {"idle", "notify", "enter", "flag"},
                                     cr : CRs \cup {NONE}]]
    BY DEF TypeOK, CRs
  <1>1. ASSUME NEW e \in Dispatchers, NEW c \in CRs, Deliver(e, c) PROVE Goal
    BY <1>0, <1>1 DEF Deliver, Busy
  <1>2. ASSUME NEW e \in Dispatchers, e # d,
               CallNotifier(e) \/ NotifyEnter(e) \/ SetUpdateFlag(e)
        PROVE  Goal
    <2>1. disp'[d] = disp[d]
      BY <1>0, <1>2 DEF CallNotifier, NotifyEnter, SetUpdateFlag, DDone, DGoto
    <2> QED
      BY <2>1 DEF Busy
  <1>3. CASE CallNotifier(d)
    <2>1. disp[d].cr = x
      BY DEF Busy
    <2>2. CASE ~cr[x].callback
      BY <1>0, <1>3, <2>1, <2>2 DEF CallNotifier, CRoutineType
    <2>3. CASE cr[x].callback /\ ~down.stop
      <3>1. disp' = [disp EXCEPT ![d].pc = "enter"]
        BY <1>3, <2>1, <2>3 DEF CallNotifier, DGoto
      <3> QED
        BY <1>0, <2>1, <3>1 DEF Busy
    <2> QED
      BY <2>2, <2>3
  <1>4. CASE NotifyEnter(d)
    <2>1. disp[d].cr = x /\ disp[d].pc = "enter"
      BY <1>4 DEF Busy, NotifyEnter
    <2>2. x \in id_cr \/ cr[x].force_stop
      BY <2>1 DEF Registered
    <2>3. CASE x \in id_cr /\ cr[x].state = "DATA_WAIT"
      <3>1. disp' = [disp EXCEPT ![d].pc = "flag"]
        BY <1>4, <2>1, <2>3 DEF NotifyEnter, DGoto
      <3> QED
        BY <1>0, <2>1, <3>1 DEF Busy
    <2>4. cr' = cr
      BY <1>4 DEF NotifyEnter
    <2> QED
      BY <2>2, <2>3, <2>4
  <1>5. CASE SetUpdateFlag(d)
    <2>1. cr' = [cr EXCEPT ![x].updated = FALSE]
      BY <1>5 DEF SetUpdateFlag, Busy
    <2>2. cr'[x] = [cr[x] EXCEPT !.updated = FALSE]
      BY <1>0, <2>1
    <2> QED
      BY <1>0, <2>2 DEF CRoutineType
  <1>6. CASE UNCHANGED disp
    BY <1>6 DEF Busy
  <1> QED
    BY <1>1, <1>2, <1>3, <1>4, <1>5, <1>6, Frames DEF StepFrame

(* stop_ of the scheduler is never cleared.                                *)
LEMMA StopStays ==
  ASSUME TypeOK, Next, down.stop
  PROVE  down'.stop
  <1>0. down \in DownType
    BY DEF TypeOK
  <1>1. CASE ShutdownStop
    BY <1>0, <1>1 DEF DownType, ShutdownStop
  <1>2. ASSUME NEW p \in Procs, ContextShutdown(p) \/ ProcessorStop(p) PROVE down'.stop
    BY <1>0, <1>2 DEF DownType, ContextShutdown, ProcessorStop
  <1>3. CASE ListRoutines \/ ShutdownRemoved \/ ShutdownDone
    BY <1>0, <1>3 DEF DownType, ListRoutines, ShutdownRemoved, ShutdownDone
  <1>4. ASSUME NEW c \in CRs, ShutdownRemove(c) PROVE down'.stop
    BY <1>0, <1>4 DEF DownType, ShutdownRemove
  <1>5. CASE UNCHANGED down
    BY <1>5
  <1> QED
    BY <1>1, <1>2, <1>3, <1>4, <1>5, Frames DEF StepFrame

(* A notifier is past the test of the callback only if the test succeeded. *)
LEMMA PastTest ==
  ASSUME TypeOK, Next, NEW x \in Visitors, Registered(x), NEW d \in Dispatchers,
         disp'[d].cr = x, disp'[d].pc \in {"enter", "flag"}
  PROVE  cr[x].callback
  <1> DEFINE Was == disp[d].cr = x /\ disp[d].pc \in {"enter", "flag"}
  <1>0. /\ x # NONE
        /\ disp \in [Dispatchers -> [pc : {"idle", "notify", "enter", "flag"},
                                     cr : CRs \cup {NONE}]]
    BY SchedulerAssumption DEF TypeOK, CRs
  <1>1. ASSUME NEW e \in Dispatchers, NEW c \in CRs, Deliver(e, c) PROVE Was
    BY <1>0, <1>1 DEF Deliver
  <1>2. ASSUME NEW e \in Dispatchers, NotifyEnter(e) \/ SetUpdateFlag(e) PROVE Was
    BY <1>0, <1>2 DEF NotifyEnter, SetUpdateFlag, DDone, DGoto
  <1>3. ASSUME NEW e \in Dispatchers, CallNotifier(e) PROVE Was \/ cr[x].callback
    BY <1>0, <1>3 DEF CallNotifier, DDone, DGoto
  <1>4. ASSUME UNCHANGED disp PROVE Was
    BY <1>4
  <1>5. Was \/ cr[x].callback
    BY <1>1, <1>2, <1>3, <1>4, Frames DEF StepFrame
  <1> QED
    BY <1>5 DEF Registered

(* WakeInv is inductive.                                                   *)
LEMMA WakeInit == Init => WakeInv
  BY SchedulerAssumption
  DEF Init, NewCRoutine, WakeInv, Registered, Woken, Waits, CRs

LEMMA WakeNext ==
  ASSUME TypeOK, Routines, HoldsLock, WakeInv, Next
  PROVE  WakeInv'
  <1> SUFFICES ASSUME NEW x \in Visitors PROVE Registered(x)' /\ Woken(x)'
    BY DEF WakeInv
  <1>0. /\ Registered(x) /\ Woken(x) /\ GoesOn(x) /\ StaysWoken(x)
        /\ x \in CRs /\ x # NONE
    BY SteadyNext, SchedulerAssumption DEF WakeInv, Steady, CRs
  <1>1. Registered(x)'
    <2>1. cr'[x].create \in {"push", "register", "created"} =>
            x \in id_cr' \/ cr'[x].force_stop
      BY <1>0 DEF Registered, GoesOn
    <2>2. cr'[x].callback => cr'[x].create = "created"
      BY <1>0 DEF Registered, GoesOn
    <2>3. \A d \in Dispatchers :
            disp'[d].cr = x /\ disp'[d].pc \in {"enter", "flag"} => cr'[x].callback
      BY <1>0, PastTest DEF GoesOn
    <2> QED
      BY <2>1, <2>2, <2>3 DEF Registered
  <1>2. Woken(x)'
    <2> SUFFICES ASSUME Waits(x)', ~down'.stop, ~cr'[x].force_stop,
                        \A d \in Dispatchers : ~Busy(d, x)', cr'[x].updated
                 PROVE  FALSE
      BY DEF Woken
    <2>1. ~down.stop /\ ~cr[x].force_stop
      BY <1>0, StopStays DEF GoesOn
    <2>2. ASSUME NEW d \in Dispatchers, Deliver(d, x) PROVE FALSE
      <3>1. Busy(d, x)'
        BY <2>2 DEF Deliver, TypeOK, Busy
      <3> QED
        BY <3>1
    <2>3. Waits(x) /\ cr[x].updated
      BY <1>0, <2>2 DEF StaysWoken
    <2>4. PICK d \in Dispatchers : Busy(d, x)
      BY <1>0, <2>1, <2>3 DEF Woken
    <2> QED
      BY <1>0, <2>1, <2>4, NotifierNext DEF Waits, Parked
  <1> QED
    BY <1>1, <1>2

LEMMA WakeInvNext == Inv /\ WakeInv /\ [Next]_vars => WakeInv'
  <1>1. ASSUME Inv, WakeInv, Next PROVE WakeInv'
    BY <1>1, WakeNext DEF Inv
  <1>2. ASSUME WakeInv, UNCHANGED vars PROVE WakeInv'
    BY <1>2
    DEF vars, WakeInv, Registered, Woken, Waits, Parked, Busy
  <1> QED
    BY <1>1, <1>2

(* What the notifiers and the routines' functions keep, in every           *)
(* reachable state.                                                        *)
THEOREM WakeInvariance == Spec => []WakeInv
  BY Invariance, WakeInit, WakeInvNext, PTL DEF Spec

(* A data visitor's routine never sleeps on a message whose notification   *)
(* found its callback: the order of croutine_factory.h, DATA_WAIT before   *)
(* TryFetch, loses no wakeup, whatever the number of dispatchers and       *)
(* processors and whoever is created and removed meanwhile.                *)
THEOREM WakeupsAreKept == Spec => []NoLostWakeup
  <1>1. WakeInv => NoLostWakeup
    BY DEF WakeInv, Woken, Waits, Busy, NoLostWakeup
  <1> QED
    BY <1>1, WakeInvariance, PTL

=============================================================================
