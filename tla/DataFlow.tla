------------------------------ MODULE DataFlow ------------------------------
(***************************************************************************)
(* The way of a message inside the process that receives it: the listener  *)
(* handler of its channel (transport/message/listener_handler.h), the data *)
(* dispatcher and notifier, the buffers of the data visitors, the fusion   *)
(* of two channels (data/), the routine that fetches                       *)
(* (croutine/croutine_factory.h), and the subscriber with its blocker      *)
(* (node/subscriber.h, blocker/).                                          *)
(*                                                                         *)
(* The actors are one receiving thread for each channel, the threads that  *)
(* create and remove visitors, the routines, and the owner of each         *)
(* subscriber. A channel has one remote writer here, whose messages are    *)
(* numbered. Processors and run queues are those of Scheduler: a routine   *)
(* that is READY, or waits and has news, is run. The handler's lock is     *)
(* taken as AtomicRWLock. Visitors of three and four channels are built    *)
(* like those of two. The process is not shutting down: Dispatch returns   *)
(* at once when IsShutdown() holds. A capacity is read as it was written,  *)
(* though Blocker::Enqueue reads it outside of the mutex.                  *)
(***************************************************************************)
EXTENDS Integers, Sequences, SequencesExt, CacheBuffer

CONSTANTS
  Channels,
  Visitors,
  Inputs,         \* Inputs[v]: the channels of a visitor, one or two
  QueueSize,      \* QueueSize[v]: pending_queue_size
  KnowsSender,    \* channels whose transport hands over the sender's id
  Depth,          \* qos_profile.depth
  Depths,         \* arguments of SetHistoryDepth
  Programs,       \* sets of visitors that are created together
  Owned,          \* subscribers whose owner calls them
  Open,           \* channels that have a receiver from the start
  Removable,      \* visitors that may be removed
  MaxMsgs,        \* MaxMsgs[c], bound: messages of a channel
  MaxSlots        \* bound: slots of a channel's writer

B == INSTANCE Blocker

ASSUME DataFlowAssumption ==
  /\ \A v \in Visitors : /\ Inputs[v] \in Seq(Channels) /\ Len(Inputs[v]) \in {1, 2}
                         /\ QueueSize[v] \in Nat
  /\ \A c \in Channels : MaxMsgs[c] \in Nat
  /\ Depth \in Nat /\ Depths \subseteq Nat /\ MaxSlots \in Nat

Fused(v) == Len(Inputs[v]) > 1
Fuseds == {v \in Visitors : Fused(v)}

VARIABLES
  chan,           \* the receiving threads: pc, the message in hand, whether
                  \* it is in the writer's own signal, slots still to call,
                  \* the rest of the vector iterated and whether that was
                  \* reallocated, the pair, see Idle
  sent,           \* messages sent on each channel
  handler,        \* receivers, and the slots and the connection of the
                  \* writer in signals_
  buffers,        \* buffers_map_: <<visitor, which of its buffers>>
  notifiers,      \* notifies_map_
  vis,            \* visitors and their routines, see NewVisitor
  blk,            \* blockers of the subscribers
  clearing,       \* owners between the two steps of ClearData
  crashed,        \* memory that was freed has been used
  filled,         \* history: what was filled into the buffer v reads
  delivered,      \* history: what v has fetched
  newest          \* history: newest message in a fused visitor's second buffer

vars == <<chan, sent, handler, buffers, notifiers, vis, blk, clearing,
          crashed, filled, delivered, newest>>
history == <<filled, delivered, newest>>
owner == <<blk, clearing>>
maps == <<buffers, notifiers>>

Entries == Visitors \X {1, 2}

(* A receiving thread. seen, which is history, is newest when msg came.    *)
ChannelSteps == {"idle", "lock", "fill", "fuse", "notify", "return"}

Idle == [pc |-> "idle", msg |-> 0, oppo |-> FALSE, left |-> 0, todo |-> <<>>,
         torn |-> FALSE, pair |-> NULL, seen |-> [v \in Fuseds |-> 0]]

(* The stages of a visitor follow its constructor, Scheduler::CreateTask   *)
(* and Subscriber::Shutdown.                                               *)
Stages == {"none", "buffers", "notifier", "fusion", "task", "callback", "up", "down"}

NewVisitor(v) ==
  [stage |-> "buffers", added |-> 0, fusion |-> FALSE,
   bufs |-> [k \in 1..Len(Inputs[v]) |-> NewBuffer(QueueSize[v])],
   fbuf |-> NewBuffer(QueueSize[v]),        \* Capacity() - 1 of the first
   next |-> 0, item |-> NULL,
   rt |-> "none", state |-> "READY", news |-> FALSE, missed |-> FALSE]

ReadBuffer(v) == IF Fused(v) THEN vis[v].fbuf ELSE vis[v].bufs[1]

Init ==
  /\ chan = [c \in Channels |-> Idle]
  /\ sent = [c \in Channels |-> 0]
  /\ handler = [c \in Channels |->
                  [open |-> c \in Open, slots |-> 0, conn |-> FALSE]]
  /\ buffers = [c \in Channels |-> <<>>]
  /\ notifiers = [c \in Channels |-> <<>>]
  /\ \E program \in Programs :
       vis = [v \in Visitors |-> [NewVisitor(v) EXCEPT
                !.stage = IF v \in program THEN @ ELSE "none"]]
  /\ blk = [v \in Visitors |-> B!NewBlocker(Depth)]
  /\ clearing = {} /\ crashed = FALSE
  /\ filled = [v \in Visitors |-> <<>>]
  /\ delivered = [v \in Visitors |-> <<>>]
  /\ newest = [v \in Fuseds |-> 0]

-----------------------------------------------------------------------------
(* Creating a visitor. emplace_back on a vector that a receiving thread is *)
(* iterating takes another mutex, so the thread goes on with the old end   *)
(* or, when the vector was reallocated, in memory that was freed.          *)

Iterating(c, pcs) == chan[c].pc \in pcs /\ ~chan[c].torn

MayReallocate(c, pcs, torn) ==
  chan' = [chan EXCEPT ![c].torn =
    IF chan[c].pc \in pcs THEN @ \/ torn ELSE @]

AddBuffer(v, torn) ==
  LET k == vis[v].added + 1
      c == Inputs[v][k]
  IN /\ vis[v].stage = "buffers"
     /\ torn => Iterating(c, {"lock", "fill", "fuse"})
     /\ buffers' = [buffers EXCEPT ![c] = Append(@, <<v, k>>)]
     /\ MayReallocate(c, {"lock", "fill", "fuse"}, torn)
     /\ vis' = [vis EXCEPT ![v].added = k, ![v].stage =
                  IF k = Len(Inputs[v]) THEN "notifier" ELSE @]
     /\ UNCHANGED <<sent, handler, notifiers, owner, crashed, history>>

(* Only the first channel notifies.                                        *)
AddNotifier(v, torn) ==
  LET c == Inputs[v][1]
  IN /\ vis[v].stage = "notifier"
     /\ torn => Iterating(c, {"notify"})
     /\ notifiers' = [notifiers EXCEPT ![c] = Append(@, <<v, 1>>)]
     /\ MayReallocate(c, {"notify"}, torn)
     /\ vis' = [vis EXCEPT ![v].stage = IF Fused(v) THEN "fusion" ELSE "task"]
     /\ UNCHANGED <<sent, handler, buffers, owner, crashed, history>>

(* The two callbacks are assigned while a receiving thread may be about to *)
(* call them: SetFusionCallback takes no mutex, nor does the notifier.     *)
AtEntry(pc, v) ==
  \E c \in Channels :
    chan[c].pc = pc /\ chan[c].todo # <<>> /\ Head(chan[c].todo) = <<v, 1>>

SetFusionCallback(v) ==
  /\ vis[v].stage = "fusion"
  /\ vis' = [vis EXCEPT ![v].stage = "task", ![v].fusion = TRUE]
  /\ crashed' \in {FALSE, AtEntry("fill", v)}
  /\ UNCHANGED <<chan, sent, handler, maps, owner, history>>

CreateTask(v) ==
  /\ vis[v].stage = "task"
  /\ vis' = [vis EXCEPT ![v].stage = "callback", ![v].rt = "yielded"]
  /\ UNCHANGED <<chan, sent, handler, maps, owner, crashed, history>>

RegisterNotifyCallback(v) ==
  /\ vis[v].stage = "callback"
  /\ vis' = [vis EXCEPT ![v].stage = "up"]
  /\ crashed' \in {FALSE, AtEntry("notify", v)}
  /\ UNCHANGED <<chan, sent, handler, maps, owner, history>>

(* ReceiverManager makes one receiver for a channel, when the first        *)
(* subscriber is ready.                                                    *)
GetReceiver(v) ==
  LET c == Inputs[v][1]
  IN /\ vis[v].stage = "up" /\ ~Fused(v) /\ ~handler[c].open
     /\ handler' = [handler EXCEPT ![c].open = TRUE]
     /\ UNCHANGED <<chan, sent, maps, vis, owner, crashed, history>>

(* It waits until no processor is at the routine; then the visitor is      *)
(* destroyed. Its entries in the two maps stay.                            *)
RemoveTask(v) ==
  /\ v \in Removable /\ vis[v].stage = "up" /\ vis[v].rt = "yielded"
  /\ vis' = [vis EXCEPT ![v].stage = "down", ![v].rt = "none"]
  /\ UNCHANGED <<chan, sent, handler, maps, owner, crashed, history>>

-----------------------------------------------------------------------------
(* A receiving thread: ListenerHandler::Run calls the receiver's own       *)
(* signal and then, under the read lock, the signal of the writer; each    *)
(* call of a slot is one Dispatch.                                         *)

SetThread(c, r) == chan' = [chan EXCEPT ![c] = r]

Begin(r, c) ==    \* Dispatch, up to the start of its loop
  [r EXCEPT !.pc = "lock", !.todo = buffers[c], !.torn = FALSE]

(* A message of a channel that has no buffer yet changes nothing and is    *)
(* left out.                                                               *)
Receive(c) ==
  /\ handler[c].open /\ buffers[c] # <<>>
  /\ chan[c].pc = "idle" /\ sent[c] < MaxMsgs[c]
  /\ sent' = [sent EXCEPT ![c] = @ + 1]
  /\ SetThread(c, Begin([Idle EXCEPT
       !.msg = sent[c] + 1,
       !.seen = [v \in Fuseds |-> IF Inputs[v][1] = c THEN newest[v] ELSE 0]], c))
  /\ UNCHANGED <<handler, maps, vis, owner, crashed, history>>

NextEntry(r) == [r EXCEPT !.pc = "lock", !.todo = Tail(@), !.pair = NULL]

(* buffer_wptr.lock(), and the mutex of the buffer. A pointer that was     *)
(* moved from is empty.                                                    *)
LockBuffer(c) ==
  LET r == chan[c]
  IN /\ r.pc = "lock"
     /\ IF r.todo = <<>>
        THEN SetThread(c, [r EXCEPT !.pc = "notify", !.todo = notifiers[c],
                              !.torn = FALSE])
        ELSE SetThread(c, IF r.torn \/ vis[Head(r.todo)[1]].stage = "down"
                    THEN NextEntry(r) ELSE [r EXCEPT !.pc = "fill"])
     /\ UNCHANGED <<sent, handler, maps, vis, owner, crashed, history>>

(* The fusion callback takes the latest message of the second channel and  *)
(* gives up when there is none.                                            *)
Callback(v, c) ==
  LET r == chan[c]
  IN /\ SetThread(c, IF Empty(vis[v].bufs[2]) THEN NextEntry(r)
               ELSE [r EXCEPT !.pc = "fuse",
                              !.pair = <<r.msg, Latest(vis[v].bufs[2])>>])
     /\ UNCHANGED <<vis, history>>

Store(v, k, c) ==
  LET r == chan[c]
  IN /\ SetThread(c, NextEntry(r))
     /\ vis' = [vis EXCEPT ![v].bufs[k] = Put(@, r.msg)]
     /\ filled' = IF Fused(v) THEN filled
                  ELSE [filled EXCEPT ![v] = Append(@, r.msg)]
     /\ newest' = IF k = 2 THEN [newest EXCEPT ![v] = r.msg] ELSE newest
     /\ UNCHANGED delivered

Fill(c) ==
  /\ chan[c].pc = "fill"
  /\ LET v == Head(chan[c].todo)[1]
         k == Head(chan[c].todo)[2]
     IN IF k = 1 /\ vis[v].fusion THEN Callback(v, c) ELSE Store(v, k, c)
  /\ UNCHANGED <<sent, handler, maps, owner, crashed>>

Fuse(c) ==
  LET v == Head(chan[c].todo)[1]
  IN /\ chan[c].pc = "fuse"
     /\ SetThread(c, NextEntry(chan[c]))
     /\ vis' = [vis EXCEPT ![v].fbuf = Put(@, chan[c].pair)]
     /\ filled' = [filled EXCEPT ![v] = Append(@, chan[c].pair)]
     /\ UNCHANGED <<sent, handler, maps, owner, crashed, delivered, newest>>

(* One notifier: its callback is Scheduler::NotifyTask, which sets the     *)
(* update flag of a routine that waits for data.                           *)
NotifyParked(w, torn) ==    \* only one that has already yielded
  IF torn \/ w.stage # "up" THEN [w EXCEPT !.missed = TRUE]
  ELSE [w EXCEPT !.news = @ \/ (w.state = "DATA_WAIT" /\ w.rt = "yielded")]
NotifyTask(w, torn) ==
  IF torn \/ w.stage # "up" THEN [w EXCEPT !.missed = TRUE]
  ELSE [w EXCEPT !.news = @ \/ w.state = "DATA_WAIT"]

Notify(c) ==
  LET r == chan[c]
  IN /\ r.pc = "notify"
     /\ IF r.todo = <<>>
        THEN SetThread(c, [r EXCEPT !.pc = "return", !.torn = FALSE]) /\ UNCHANGED vis
        ELSE /\ SetThread(c, [r EXCEPT !.todo = Tail(@)])
             /\ vis' = [vis EXCEPT ![Head(r.todo)[1]] = NotifyTask(@, r.torn)]
     /\ UNCHANGED <<sent, handler, maps, owner, crashed, history>>

Return(c) ==
  LET r == chan[c]
      left == IF r.oppo THEN r.left
              ELSE IF c \in KnowsSender THEN handler[c].slots ELSE 0
  IN /\ r.pc = "return"
     /\ SetThread(c, IF left = 0 THEN Idle
               ELSE Begin([r EXCEPT !.oppo = TRUE, !.left = left - 1], c))
     /\ UNCHANGED <<sent, handler, maps, vis, owner, crashed, history>>

(* What a use of freed memory may also do: the old block of a vector, or   *)
(* the fusion object that the callback of a locked buffer points to.       *)
UseAfterFree(c) ==
  LET r == chan[c]
  IN /\ r.todo # <<>>
     /\ \/ r.pc \in {"lock", "notify"} /\ r.torn
        \/ /\ r.pc \in {"fill", "fuse"} /\ Head(r.todo)[2] = 1
           /\ vis[Head(r.todo)[1]].fusion /\ vis[Head(r.todo)[1]].stage = "down"
     /\ crashed' = TRUE
     /\ UNCHANGED <<chan, sent, handler, maps, vis, owner, history>>

(* Receiver::Enable and Disable of the writer: Connect always adds a slot, *)
(* and the connection that Disconnect needs is overwritten. Both take the  *)
(* write lock. An unknown sender has no signal that could be called.       *)
Unlocked(c) == c \in KnowsSender /\ ~chan[c].oppo

Connect(c) ==
  /\ Unlocked(c) /\ handler[c].open /\ handler[c].slots < MaxSlots
  /\ handler' = [handler EXCEPT ![c].slots = @ + 1, ![c].conn = TRUE]
  /\ UNCHANGED <<chan, sent, maps, vis, owner, crashed, history>>

Disconnect(c) ==
  /\ Unlocked(c) /\ handler[c].conn
  /\ handler' = [handler EXCEPT ![c].slots = @ - 1, ![c].conn = FALSE]
  /\ UNCHANGED <<chan, sent, maps, vis, owner, crashed, history>>

-----------------------------------------------------------------------------
(* The routine of a visitor, made by CreateRoutineFactory.                 *)

Step(v, w) ==
  /\ vis' = [vis EXCEPT ![v] = w]
  /\ UNCHANGED <<chan, sent, handler, maps, crashed>>

Run(v) ==
  /\ vis[v].rt = "yielded" /\ (vis[v].state = "READY" \/ vis[v].news)
  /\ Step(v, [vis[v] EXCEPT !.rt = "fetch", !.state = "DATA_WAIT", !.news = FALSE])
  /\ UNCHANGED <<owner, history>>

Stay(index) == index
NextIndex(index) == index + 1      \* next_msg_index_++

(* Between an empty fetch and Yield a message may come and be notified.    *)
(* The function of a fused visitor has no state here.                      *)
TryFetch(v) ==
  LET b == ReadBuffer(v)
      i == FetchIndex(b, vis[v].next)
  IN /\ vis[v].rt = "fetch"
     /\ IF CanFetch(b, vis[v].next)
        THEN /\ Step(v, [vis[v] EXCEPT
                  !.next = NextIndex(i), !.item = At(b, i), !.missed = FALSE,
                  !.rt = IF Fused(v) THEN "yielded" ELSE "enqueue",
                  !.state = IF Fused(v) THEN "READY" ELSE @])
             /\ delivered' = [delivered EXCEPT ![v] = Append(@, At(b, i))]
        ELSE /\ Step(v, [vis[v] EXCEPT !.rt = "empty", !.missed = FALSE])
             /\ UNCHANGED delivered
     /\ UNCHANGED <<owner, filled, newest>>

Yield(v) ==
  /\ vis[v].rt = "empty"
  /\ Step(v, [vis[v] EXCEPT !.rt = "yielded"])
  /\ UNCHANGED <<owner, history>>

Done(w) == [w EXCEPT !.rt = "yielded", !.state = "READY"]

(* Subscriber::Enqueue: the test of the capacity, then the queue.          *)
Enqueue(v) ==
  /\ vis[v].rt = "enqueue"
  /\ Step(v, IF B!Accepts(blk[v]) THEN [vis[v] EXCEPT !.rt = "publish"]
             ELSE Done(vis[v]))
  /\ UNCHANGED <<owner, history>>

Publish(v) ==
  /\ vis[v].rt = "publish"
  /\ blk' = [blk EXCEPT ![v] = B!Enqueue(@, vis[v].item)]
  /\ Step(v, Done(vis[v]))
  /\ UNCHANGED <<clearing, history>>

-----------------------------------------------------------------------------
(* The owner of a subscriber, one thread.                                  *)

Owner(v, b, busy) ==
  /\ blk' = [blk EXCEPT ![v] = b]
  /\ clearing' = busy
  /\ UNCHANGED <<chan, sent, handler, maps, vis, crashed, history>>

Free(v) == v \in Owned \ clearing /\ vis[v].stage # "none"

Observe(v) == Free(v) /\ Owner(v, B!Observe(blk[v]), clearing)
SetHistoryDepth(v, depth) ==
  Free(v) /\ Owner(v, B!SetCapacity(blk[v], depth), clearing)
ClearPublished(v) ==      \* the first half of ClearData
  Free(v) /\ Owner(v, B!ClearPublished(blk[v]), clearing \cup {v})
ClearObserved(v) ==
  v \in clearing /\ Owner(v, B!ClearObserved(blk[v]), clearing \ {v})

-----------------------------------------------------------------------------
Dispatching(c) ==
  LockBuffer(c) \/ Fill(c) \/ Fuse(c) \/ Notify(c) \/ Return(c)
Handling(c) == Connect(c) \/ Disconnect(c)
Creating(v) ==
  \/ AddBuffer(v, FALSE) \/ AddNotifier(v, FALSE)
  \/ SetFusionCallback(v) \/ CreateTask(v) \/ RegisterNotifyCallback(v)
  \/ GetReceiver(v)
Reallocating(v) == AddBuffer(v, TRUE) \/ AddNotifier(v, TRUE)
Fetching(v) == Run(v) \/ TryFetch(v) \/ Yield(v) \/ Enqueue(v) \/ Publish(v)
Owning(v) ==
  \/ Observe(v) \/ ClearPublished(v) \/ ClearObserved(v)
  \/ \E depth \in Depths : SetHistoryDepth(v, depth)

Next ==
  /\ ~crashed
  /\ \/ \E c \in Channels :
          Receive(c) \/ Dispatching(c) \/ UseAfterFree(c) \/ Handling(c)
     \/ \E v \in Visitors :
          \/ Creating(v) \/ Reallocating(v) \/ RemoveTask(v)
          \/ Fetching(v) \/ Owning(v)

(* The threads run; whether messages are sent, readers removed or owners   *)
(* look is not promised.                                                   *)
Fairness ==
  /\ \A c \in Channels : WF_vars(~crashed /\ Dispatching(c))
  /\ \A v \in Visitors : WF_vars(~crashed /\ Creating(v))
                         /\ WF_vars(~crashed /\ Fetching(v))

Spec == Init /\ [][Next]_vars /\ Fairness

-----------------------------------------------------------------------------
(* Properties.                                                             *)

(* Every variable has its type; a buffer holds at most QueueSize messages  *)
(* in its ring of one more slot (cache_buffer.h).                          *)
BufferOK(b) ==
  /\ DOMAIN b.buffer = 0..(b.capacity - 1)
  /\ b.tail - b.head \in 0..(b.capacity - 1)
TypeOK ==
  /\ \A c \in Channels :
       /\ DOMAIN chan[c] = DOMAIN Idle /\ chan[c].oppo \in BOOLEAN
       /\ chan[c].pc \in ChannelSteps /\ chan[c].msg \in 0..MaxMsgs[c]
       /\ chan[c].left \in 0..MaxSlots /\ chan[c].torn \in BOOLEAN
       /\ Range(chan[c].todo) \subseteq Entries
       /\ handler[c].slots \in 0..MaxSlots
  /\ \A v \in Visitors :
       /\ vis[v].stage \in Stages
       /\ \A k \in DOMAIN Inputs[v] : BufferOK(vis[v].bufs[k])
       /\ BufferOK(vis[v].fbuf)
       /\ vis[v].next \in 0..(ReadBuffer(v).tail + 1)

(* A visitor never sees a channel's messages out of order, and sees one    *)
(* twice only when the receiver knows the sender, whose signal dispatches  *)
(* the message again (listener_handler.h:160); of a fused pair the second  *)
(* message never goes back either (all_latest.h:134).                      *)
InOrder ==
  /\ TypeOK
  /\ \A v \in Visitors :
       LET Msg(i) == IF Fused(v) THEN delivered[v][i][1] ELSE delivered[v][i]
       IN \A i, j \in DOMAIN delivered[v] : i < j =>
            /\ Msg(i) <= Msg(j)
            /\ Inputs[v][1] \notin KnowsSender => Msg(i) < Msg(j)
            /\ Fused(v) => delivered[v][i][2] <= delivered[v][j][2]

(* A fetch returns what was filled at the index it ends up with, although  *)
(* the ring was reused meanwhile, never goes back, and skips messages only *)
(* to jump to the newest after the next one was overwritten                *)
(* (channel_buffer.h:41).                                                  *)
FetchesNext ==
  [][\A v \in Visitors : LET n == vis[v].next  m == vis'[v].next IN m # n =>
       /\ m > n
       /\ delivered'[v] = Append(delivered[v], filled[v][m - 1])
       /\ m # n + 1 => /\ m - 1 = Len(filled[v])
                       /\ n = 0 \/ n <= ReadBuffer(v).head]_vars

(* The message of the second channel that a pair is made with is not older *)
(* than the newest one buffered when the first one was received, and the   *)
(* pairs never go back (all_latest.h:134).                                 *)
PairsAreLatest ==
  \A c \in Channels : chan[c].pc = "fuse" =>
    LET v == Head(chan[c].todo)[1]
    IN /\ chan[c].pair[2] \in chan[c].seen[v]..newest[v]
       /\ \A i \in DOMAIN filled[v] : filled[v][i][2] <= chan[c].pair[2]

(* The published queue is the newest messages delivered, newest first,     *)
(* without a gap and within the capacity, whatever SetHistoryDepth and     *)
(* ClearData do between the test of the capacity and the queue; what the   *)
(* owner observes is such a window of the past (blocker.h:243-266). So the *)
(* owner has received something exactly if the latest one is a message,    *)
(* and that is the last one delivered; what it observes lies between its   *)
(* oldest and its latest.                                                  *)
Window(queue, v, last) ==
  LET n == Len(queue)
  IN n <= last /\ queue = Reverse(SubSeq(delivered[v], last - n + 1, last))
BlockerWindow ==
  \A v \in Visitors \ Fuseds :
    LET b == blk[v]
        n == Len(delivered[v])
        last == IF vis[v].rt \in {"enqueue", "publish"} THEN n - 1 ELSE n
    IN /\ Len(b.published) <= b.capacity
       /\ Window(b.published, v, last)
       /\ B!GetLatestPublishedPtr(b) =
            IF B!IsPublishedEmpty(b) THEN B!nullptr ELSE delivered[v][last]
       /\ \E i \in 0..n : Window(b.observed, v, i)
       /\ \A k \in DOMAIN b.observed :
            b.observed[k] \in
              B!GetOldestObservedPtr(b)..B!GetLatestObservedPtr(b)

(* A visitor that is behind fetches to the end of its buffer, unless it    *)
(* was not yet registered when the message was notified (data_notifier.h,  *)
(* croutine_factory.h:42).                                                 *)
Behind(v) == vis[v].stage = "up" /\ CanFetch(ReadBuffer(v), vis[v].next)
CatchesUp ==
  \A v \in Visitors :
    Behind(v) ~> (~Behind(v) \/ vis[v].missed \/ crashed)
=============================================================================
