# A TLA+ model of cmw

cmw is a communication middleware in C++: nodes with publishers and
subscribers, found by a discovery protocol over Fast DDS, exchange messages
through shared memory; messages are handled in coroutines that a scheduler runs
on its own threads. This directory has TLA+ modules of its concurrent core,
TLC configurations that check them on small instances, and TLAPS proofs that
hold for every instance. Paths below are relative to `src/`. `PROJECT.json`
lists components, runs, the lines each definition models, hazards and theorems.

To check a run: `tlc -config MCScheduler.cfg MCScheduler`. To check the proofs:
`tlapm Scheduler_proofs.tla`.

## 1. The system

| component | state | operations | talks to |
|---|---|---|---|
| reader-writer lock, `base/atomic_rw_lock.h` | `lock_num_`, `write_lock_wait_num_` | read and write lock and unlock | used by everything below |
| bounded queue, `base/bounded_queue.h` | `head_`, `tail_`, `commit_`, `pool_` | Enqueue, Dequeue, WaitDequeue, BreakAllWait | thread pool, event cache, task manager |
| thread pool and event cache, `base/thread_pool.h`, `event/perf_event_cache.cpp` | queue, `stop_`, a wait strategy | Enqueue, worker loop, destructor / Shutdown | callers and their own threads |
| routines, `croutine/` | `state_`, `updated_`, `lock_`, `force_stop_` | Acquire, UpdateState, Resume, Yield, HangUp, Sleep | run by processors |
| classic scheduler, `scheduler/` | `id_cr_`, run queue of each priority, `notify_grp_` | CreateTask, RemoveTask, NotifyProcessor, NextRoutine, Wait, Shutdown | routines, data notifier, task manager |
| task manager, `task/` | queue, `stop_` | Enqueue, its routine, Shutdown | scheduler |
| data path, `data/` | buffers of each channel, notifiers | Dispatch, Notify, TryFetch | receivers, scheduler |
| shared memory transport, `transport/shm/` and its transmitter and dispatcher | segments (State, Blocks, buffers), ring of notifications | Transmit, Recreate, Remap, Listen, AcquireBlockToRead | other processes |
| service discovery, `discovery/` | warehouses of roles, graph of nodes, change signal | Join, Leave, OnRemoteChange, OnParticipantChange | Fast DDS, publishers and subscribers |
| node manager, `discovery/specific_manager/node_manager.cpp` | the nodes of the system, by name | Join, Leave, OnRemoteChange, DisposeJoin, Shutdown | Fast DDS, nodes |
| publisher and subscriber, `node/` | transmitter, receiver, connections | Init, OnChannelChange, Shutdown | discovery, transport |
| blocker, `blocker/` | queues of published and observed messages | Publish, Observe, ClearPublished, ClearObserved, set_capacity | subscribers |
| atomic hash map and names, `base/atmoic_hash_map.h`, `common/global_data.cpp` | a list for each bucket | Set, Get, Has; Register, GetById | everything with a name |
| object pool, `base/concurrent_object_pool.h` | `free_head_`, the `next` of each node | GetObject, ReleaseObject | routines, for their contexts |
| class loader, `class_loader/` | counts of each loader; the factories and open libraries of the process | LoadLibrary, UnloadLibrary, CreateClassObj, the manager's LoadLibrary and UnloadLibrary | users of plug-in classes |
| serialisation, `serialize/` | none: bytes written and read | write, read | discovery, RTPS transport |
| rates, `time/rate.cpp` | `start_` | Sleep, Reset | loops of the user |

What is hard in it, and what each part must guarantee:

- **Lock-free words.** The lock, the queue and the block locks read a word, decide
  and then compare-and-swap. They must exclude each other, return only whole
  elements, keep order, and not starve writers.
- **Lost wakeups.** A thread or a routine that finds nothing to do and then goes
  to sleep races whoever brings work or asks it to stop. This is where the code
  has most of its subtle orderings: `set_state(DATA_WAIT)` before `TryFetch`,
  `break_all_wait_` before `notify_all`.
- **Removal while running.** A routine is removed, and its owner destroyed, while
  any processor may be in it, and while a shutdown removes everything.
- **Memory shared by processes.** A segment is created, outgrown, removed and
  created again while others have it mapped; blocks are reused while readers are
  behind; a notification says where a message was, not where it is.
- **State shared by all loaders.** Several loaders own one library; it is closed when
  the last of them lets go, and must stay open while objects made from it are in use.
- **Best-effort discovery.** Changes are lost, come from processes that exited,
  and carry a field (`channel_id`) that is never serialised; endpoints join and
  leave while they are notified of each other.

## 2. The modules

| module | code | actors |
|---|---|---|
| `AtomicRWLock` | `base/atomic_rw_lock.h`, `base/rw_lock_guard.h` | threads |
| `BoundedQueue` | `base/bounded_queue.h` | producers, consumers |
| `BoundedFifo` | abstract: what a bounded queue promises | |
| `BoundedQueue_proofs` | theorems of both: the ring implements the FIFO | |
| `WorkerPool` | `base/thread_pool.h`, `base/wait_strategy.h`, `event/perf_event_cache.cpp` | workers, callers, destructor |
| `WorkerPool_proofs` | its theorems | |
| `Scheduler` | `croutine/`, `scheduler/` (classic policy), `task/`, the notifier of `data/` | processors, dispatchers, callers of CreateTask and RemoveTask, Shutdown |
| `Scheduler_proofs` | its theorems | |
| `ShmTransport` | `transport/shm/`, `shm_transmitter.h`, `shm_dispatcher.cpp` | transmitters and dispatcher threads, one per process |
| `ShmTransport_proofs` | its theorems | |
| `Topology` | `discovery/`, `node/publisher.h`, `node/subscriber.h`, `base/signal.h` | endpoints' threads, one Fast DDS thread per process |
| `Topology_proofs` | its theorems | |
| `DataFlow` | `transport/message/listener_handler.h`, `data/`, the routine of `croutine/croutine_factory.h`, `node/subscriber.h` | a receiving thread per channel, creators and removers of visitors, routines, owners of subscribers |
| `DataFlow_proofs` | its theorems, with lemmas on `CacheBuffer` and `Blocker` | |
| `CacheBuffer` | operators: the ring of `data/cache_buffer.h` and the reads of `data/channel_buffer.h` | |
| `Blocker` | operators: the two queues of `blocker/blocker.h` | |
| `NodeManager` | `discovery/specific_manager/node_manager.cpp` and `manager.cpp`, `discovery/container/single_value_warehouse.cpp`, `node/node_channel_impl.h` | a thread per node, one Fast DDS thread per process |
| `ClassLoader` | `class_loader/` | threads that load, unload, create and release |
| `NameRegistry` | `base/atmoic_hash_map.h`, `common/global_data.cpp` | threads |
| `DataStream`, `ChangeMsg` | operators: `serialize/`; what of `config/topology_change.h` and `RoleAttributes.h` travels | |
| `ObjectPool` | `base/concurrent_object_pool.h` | threads |
| `Tables` | the state and the properties of `NameRegistry`, `ObjectPool`, `NodeManager` and `ClassLoader` together | |
| `Tables_proofs` | theorems of the four | |
| `Rate` | `time/rate.cpp` | one loop, and the clock |
| `Foundations_proofs` | theorems of `AtomicRWLock`, `DataStream`, `ChangeMsg` and `Rate` | |

`MC<module>` gives a module its constants for TLC. `Tables` has instances of the four
tables that the threads of a process share outside of the data path (`NameRegistry`,
`ObjectPool`, `NodeManager`, `ClassLoader`) and names their properties. The tables do not
touch each other, so the behaviours of `MCTables` are those of one table each, chosen in
`TablesInit`: the sum, not the product; the theorems are of each table's own specification.

One module rests on another where the code does: `WorkerPool` takes the queue as
the FIFO that `BoundedQueue` is shown to implement, and `Scheduler` takes the
reader-writer locks as the exclusion, with waiting writers first, that is proved
of `AtomicRWLock`. `DataFlow` takes of `Scheduler` that a routine that is READY, or
waits and has been notified, is run by one processor at a time, and that RemoveTask
returns when none is at it (`RunsAlone`, `RemovedIsQuiet`, `NoLostWakeup`); its
buffers and blockers are records on which `CacheBuffer` and `Blocker` compute.
`ShmTransport` ends where a listener is called and `DataFlow` begins there. A change
travels in `Topology` as the record it was sent as: that its bytes say the same on the
other side is `ChangesArrive`, except for `channel_id`, which is not among them.

How state and actions correspond to the code:

- A variable named like a member without its underscore is that member. `pc`, `ppc`,
  `cpc`, `wpc`, `body` say where a thread or a routine is; a location is kept between two
  accesses to shared state, and code that touches none is part of the step before. History
  variables (`overtook`, `late`, `missed`, `early`, `lapped`, `lost` and those named
  below) are marked where they are declared; no guard of the code's reads them.
- **`AtomicRWLock`**: one action for each load, CAS and fetch-and-add. A weak CAS may fail
  spuriously. The retry count that only decides when to yield is left out.
- **`BoundedQueue`**: one action per access to a cursor or a slot. Copying an element
  takes two steps; a copy that meets a write is `Torn`. The cursors are unbounded (they
  are 64 bits wide).
- **`WorkerPool`**: `Submit`, `Push` and `NotifyOne` are the parts of Enqueue, with
  everything else in between; a condition variable is the set of threads that wait on it,
  and may wake up spuriously.
- **`Scheduler`**: a routine is a record; `create` and `remove` say how far DispatchTask
  and RemoveCRoutine of it have come. A processor scans the queue of each priority entry
  by entry under its read lock. `TryRoutine` does Acquire, UpdateState and the Release
  of a routine that is not ready in one step: between the three, other threads reach the
  routine only through its flag and its state, which UpdateState reads once. The steps
  of a routine's function are those of `CreateRoutineFactory` and of `TaskManager`
  (`TaskLoop` tests `stop_`, `TaskDequeue` takes a task); a member of `Workers` is a
  `TaskManager` whose pool has one routine. `YieldInside` is the Yield of `task.h` from
  within a callback. A writer that comes to a lock counts itself in a step of its own
  (`CountWriter`), and readers enter until then. `RemoveTask` of a scheduler that has
  stopped returns true at once (`RemoveTaskStopped`); what a removal promises is said of
  `RemoveCRoutine`. DispatchTask of an id that exists returns false and changes nothing,
  so it is no step. Messages are counted.
- **`ShmTransport`**: `shm` keeps every segment ever created, since a removed segment
  stays mapped; `key` is what the key names now. The ceilings are levels, and a message
  has a level, or a size above all of them; `Conf` gives that the last level, as ShmConf
  does, so the copy goes over the end of the buffer: out of the segment (`overran`,
  where the thread ends), or into the blocks behind (`spoiled`). The construction of
  `State`, of `Blocks` and the first count of a user, the count of `seq` and the lock of
  a block, the copy of a message, and the test of the count and the removal in Destroy
  are separate steps. A dispatcher that has a block's index from an older segment counts
  its lock up wherever the index leads (`RemapToRead`); if that is outside of the
  segment, or if a dispatcher or transmitter goes on with a null pointer, it is
  `crashed`. `early` marks a segment that somebody mapped before it was constructed;
  `lapped` a notification that was overtaken by a whole ring between the count of
  `next_seq` and the store in its slot. `recreating` says that the transmitter came to
  `OpenOrCreate` from `Recreate`, so that it goes on without a test of the size,
  whatever it found.
- **`Topology`**: `job` is the change that a thread is applying, signalling and
  broadcasting. `Notify` copies the slots, then calls those still connected, one by one. A
  received change has a `channel_id` out of `Keys`, whatever was sent. `Exit` and `Lose`
  are the environment. The graph has the channel's sources and destinations and the list
  of complete edges. Its vertices are not the nodes: FillInAttr assigns the 64-bit
  `node_id` to the string `node_name`, which keeps one character, so `VertexOf` an endpoint
  is `LowByte` of its node's id, and nodes may share it. What is asked by a node's name is
  looked up among the ids (`GetUpstreamOfNode`, `GetDownstreamOfNode`, which answer with
  vertices) or among the vertices, where it is never found (`GetFlowDirection`);
  `GetDirectionOf` two vertices is the graph's own answer. At the exit of a process
  the code removes the roles it finds under ids it has not set; the model removes one, if
  there is any (`ZeroIds`).
- **`DataFlow`**: `chan` is a receiving thread in Dispatch or Notify; `todo` is what is
  left of the vector it iterates. AddBuffer appends to that vector under another mutex:
  the thread then goes on with the old end, or, if the vector was moved (`torn`), sees
  empty pointers or ends the process (`crashed`). `vis` has a visitor's buffers, its stage
  of construction and its routine. A slot of a handler's signal leads to one Dispatch.
  Which visitors a process creates is chosen in `Init`, from `Programs`: the stages of one
  program meet in every order. `filled`, `delivered`, `newest` and the field `seen` are
  history. The position `TryFetch` reads at and what it returns come from `CacheBuffer`,
  never from the history. Nothing shuts the process down, so the test of IsShutdown in
  Dispatch is left out, and Enqueue's read of the capacity is one step.
- **`NameRegistry`**: one action for each load or exchange. Entries are named after the
  operation that made them, so a replaced string is recognised: reading one that was
  replaced, and hence deleted, after its pointer was loaded ends the process (`crashed`).
  Register reads the string once more for the warning it logs, which is left out.
  `returned` and `earlier` are history.
- **`ObjectPool`**: one action for each access to `free_head_` or to the `next` of a node.
  The object goes back on whichever thread drops the last pointer to it. The counter in
  the head is unbounded here and as wide as a pointer in the code. `free` is history:
  which nodes are in the list, in order. Of a zero capacity nothing is claimed: the
  constructor would write before the arena. Its one user asks for `routine_num` contexts
  (`croutine.cpp:31`), which is zero where neither the configuration nor a component sets
  it.
- **`NodeManager`**: `Join` and `Leave` of the manager dispose a change and then write it
  to the network; DisposeJoin looks a name up, compares the times and adds or replaces in
  separate steps, since each call of the warehouse takes its lock anew. A node is known by
  its name. A change carries a time from `1..MaxStamp`, so clocks may disagree; with equal
  times the node that is in the map stays. `warned` has the names of which the code says
  "this process will be terminated". The network is ordered and loses changes, as in
  `Topology`. That discovery is on and the use of the writer are one step; a departure is
  heard only while it is on.
- **`ClassLoader`**: any thread calls any loader. One action for what is done under one
  mutex, and waiting for a mutex that another thread has. `LoadLibrary` looks a library up,
  opens it and takes ownership of its factory under three different mutexes.
  `CreateClassObj` holds none: it finds that it may (`Own`), makes the object (`Make`) and
  counts it, `++` of a plain int, which may lose a count. `raced` has the loaders whose
  count was changed by two threads at once, or was tested by `UnloadLibrary` while a thread
  was on its way to the count; `overlapped` says that two calls were open at once. These
  are the conditions under which `ObjectsAreMapped` and `InStep` are claimed. A
  call of a loader that the manager has deleted is `crashed`.
- **`Rate`**: a call of `Sleep` reads any time, later or earlier than the one before.
- **`DataStream`**: a number is its bytes, the most significant first; `InMemory` is how a
  machine keeps it. Writing and reading map a stream to a stream. `MCTopology` states as
  assumptions, which TLC evaluates at every run, that changes, strings, vectors, lists,
  maps and sets come back on a few inputs, and that a reader of more members than were
  written loses the later ones.

## 3. What is checked

Every `pass` run is exhaustive for its constants.

| run | instance | what it shows |
|---|---|---|
| `rw_lock` | 3 threads, `write_first_` set and not (8 thousand states) | exclusion; both words are exact counts although unlocks are blind; with `write_first_` a waiting writer is overtaken at most once by each reader, and some waiting writer gets the lock |
| `bounded_queue` | 2 usable slots of 4, producers of 4 and 1 elements, 2 consumers (256 thousand) | never two writers in a slot nor one over an element not yet taken; the ring implements `BoundedFifo`; every claim is committed and delivered |
| `worker_pool` | 2 workers, 3 tasks, queue of 2, both users (123 thousand) | a task is in one place; a worker begins at most one task after `stop_`; the polling user drains and shuts down |
| `thread_pool_join` | 2 workers, 1 task | **violated**: the destructor may wait for ever (finding 1) |
| `scheduler` | 1 routine, of a visitor or of a task manager, 2 processors, 1 dispatcher, 1 message (413 thousand) | a routine runs alone; after RemoveCRoutine it is nowhere; no wakeup is lost; messages are fetched; Shutdown ends |
| `task_manager_wakeup` | 1 processor, 1 task | **violated**: a submitted task may not run (finding 2) |
| `shm_transport` | 1 transmitter of 2 messages, or of 1 and a Disable, with 2 dispatchers, or 2 transmitters of 1 message each with 1 dispatcher, or 1 transmitter of 2 messages of any size and a Disable with 1 dispatcher; levels of 2 blocks and 1, ring of 1 (965 thousand) | block locks count who is inside; callbacks see whole messages that are not older than announced; a notification is stale only if it was lapped; a message up to the largest ceiling fits its buffer; a transmitter finds a block; reference counts do not wrap |
| `shared_block` | 2 transmitters, 1 dispatcher | **violated**: two writers in one buffer (finding 3) |
| `topology` | 1 publisher and 1 subscriber in 2 processes, at most 2 faults, 2 closes; or 2 publishers of nodes that share a vertex and 1 subscriber, no faults, 2 closes (258 thousand) | a process always finds its own endpoints and never one that left; an edge of the graph has roles at both ends, also where nodes share a vertex, and what is asked of it by vertex or id agrees with the roles; a subscriber misses no writer; a later writer is discovered |
| `data_flow` | one of: a subscriber with its owner, whose receiver knows the sender; two subscribers of a channel, of which one is removed; a visitor that fuses two channels; rings of 1 or 2, up to 2 messages (165 thousand) | messages are delivered in order, and twice only where the handler dispatches twice; a fetch returns what was filled at its index and skips only to the newest; a fused pair is not older than its first message; the blocker's queues, and what is asked of them, are windows of what was delivered; a visitor that is behind catches up |
| `process_tables` | one of four tables: 2 threads of 2 registrations, 3 names of one bucket, 2 of one hash; a pool of 2 objects and 2 threads; 2 nodes out of 3 in 2 processes, 2 events (destroyed, lost, exited, shut down); 2 loaders of one library, one of them managed, 2 threads of 3 calls on either (833 thousand together) | concurrent inserts leave each bucket one sorted list with every entry, a name registered later gets another id, operations end; an object has one owner and the free list is whole; a node is known in its process from its join to its leave, a duplicated name is noticed, processes agree when nothing was lost; whoever has an object finds its library mapped as long as its loader's count missed none, and calls that come one after another keep counts, owners and handles in step |
| `transmits_to_all` | 1 publisher, 2 subscribers in 1 process | **violated**: one leaves and the other gets nothing more (finding 4) |

### Why the bounds are enough

- `Threads`: with three, a reader can overtake a waiting writer while another holds the
  lock, and two CASes can race under a third thread's unlock.
- `Size`, `MaxEnqueues`: five elements wrap the four slots; two claims are open at once
  and wait for each other's commit; a producer finds the ring full; a consumer's slot is
  written again while it reads.
- `Tasks`, `Capacity`: the queue fills up, an element is dropped, both workers wait at
  once.
- `MaxRoutines`, `MaxMsgs` and `MaxNotify` (Scheduler): one message meets every location
  of the routine, of its creation and its removal. `notify_grp_` counted to 1 says
  whether `Wait` returns at once, which is all it decides; it returns after a
  millisecond anyway. Two processors are the fewest for a race on one routine; a second
  priority would only make a processor pass an empty queue (one does in
  `task_manager_wakeup`). One routine is enough for what the properties say, each of a
  single routine; the proofs have any number.
- `BlockNum`, `BufLength`: with `<<2, 1>>` a segment grows to one with fewer blocks, so an
  index read earlier may lie outside; a ring of one slot goes round with the second
  message. `MaxTryLockTimes` is 5 in the code; with 2 a reader retries and gives up.
- `MaxFaults`, `MaxCloses`, `Exiting`, `ZeroIds` (Topology): two faults of any kind (a
  lost change, an exit, an id that reads as zero) can meet; both endpoints close. `Keys`
  has the channel's own id, another one, and zero, which `Check` refuses. The two kinds of
  endpoint in two processes have every interaction of a pair; two of one kind meet in
  `transmits_to_all`.
- `MaxMsgs`, `QueueSize` (DataFlow): the second message overwrites the first in a ring of
  one while the routine has fetched neither, the first, or is about to; a ring of two
  fills up and does not overflow, so the two cases differ. `MaxSlots` is 1: the handler
  dispatches a message of a known sender twice, which further slots only repeat. `Depths`
  makes the blocker smaller than what it holds, down to nothing, and larger. `Open` has
  the fused channels, whose receivers others have created; the other two get theirs when
  their first subscriber is up, as a subscriber creates it.
- `MCShmTransport` restricts what is started (`pair`): two transmitters are enough to
  recreate a segment at once and to pass each other in the ring, two dispatchers to be in
  one block, and one of each for a message that is larger than all levels: its segment has
  one block, beyond which nothing is modelled. The proofs have any number of all together.
- `scene` (Topology): the pair's nodes have different bytes, so their vertices differ; the
  two publishers' nodes share one. Their changes all arrive and are read as sent, for what
  faults do to an edge the pair shows. Two closes let both publishers leave.
- `MaxCount` (ObjectPool): six exchanges of the head take both objects, give them back and
  take them again, so a head is seen again with another count; the proofs have no bound.
- `MaxStamp`, `MaxNodes`, `MaxEvents` (NodeManager): two nodes and two times are the
  fewest for a duplicate, with either clock ahead. Two of three nodes of one name are
  made, one in the first process and two, in a fixed order, in the second, so namesakes
  meet in one process and across two; with only one of them made yet, nobody has its name.
  Names do not touch each other's entries, so other names would add nothing. Two events
  are a leave and a departure, or a loss and a leave.
- `MaxCalls`, `MaxFailures` (ClassLoader): with three calls a thread loads, creates and
  unloads, or releases what it created; the other one does so in between, on the same
  loader or the other. One failure of `dlopen` meets
  every state of the other loader.
- `MaxOps`, `Names`, `TableSize`, `MaxId` (NameRegistry): two of the names collide and the
  third follows them in their bucket, so an insertion is at the head, in the middle or at
  the end of the list; both threads can be in the middle of an exchange, and a second
  operation finds what the first left. `MaxId` is never exceeded but by a run of
  collisions through all ids, which 64 bits exclude.

### Deadlock

Deadlock is checked in `rw_lock` and `bounded_queue`, whose threads can always
begin another call or poll. The other systems really stop: a destroyed pool, a
scheduler that has shut down, transmitters that have sent their messages,
endpoints that are closed, readers that have caught up, threads that have made
their calls, nodes that are gone and libraries that are unloaded.

### Fairness

A thread inside a call or a handler goes on (weak fairness of its own steps): the
operating system schedules it. Callbacks and tasks return, sleeping routines' time comes,
guards end, dispatchers go on listening, consumers go on polling, and Fast DDS goes on
delivering what it did not lose. In `DataFlow` a visitor whose creation has begun is
created to the end, and a routine that can be run is run; whether messages come is open.
Where a use of freed memory has ended the process nothing goes on. Nobody *has* to call,
create, remove, sleep, close or shut down, no fault has to happen, and no spurious wakeup
rescues anybody. A dispatcher or processor has one weak fairness condition for all its
steps, not one for each, since it is one thread.

## 4. Findings

1. `thread_pool_join`. `~ThreadPool` says it wakes and joins all threads. A worker
   between its test of `break_all_wait_` and `cv_.wait` misses the only
   `notify_all`, waits without a predicate, and is joined for ever. The polling
   strategies have no such window (`PollingShutdownEnds`).
2. `task_manager_wakeup`. The routine of `TaskManager` finds its queue empty and
   only then sets DATA_WAIT. A notification in between finds it READY and leaves
   no flag, so the task waits for the next one, while `future.get()` blocks. Data
   visitors set DATA_WAIT before they look (`NoLostWakeup` holds of them, and its
   mutant with the other order does not).
3. `shared_block`. A segment can be opened from `shmget` on, before `State` and
   `Blocks` are constructed; the construction frees locks already taken, and two
   transmitters write one buffer. The properties of `shm_transport` that speak of
   block locks exclude such a segment (`Clean`), and only such a one.
4. `transmits_to_all`. `OnChannelChange` disables the whole transmitter when one
   of several readers leaves.

Three more divergences are in the models, and the properties that pass except them:

- `doc/transport.md:209` says that a buffer is never smaller than a message. The largest
  ceiling is 32 MB (`shm_conf.cpp:63`), and a larger message is not refused: it makes the
  transmitter recreate the segment, is not tested again and is copied over the end of the
  buffer. `BufFits` speaks of messages up to that ceiling, `ReadsWhole` of segments that
  were not spoiled so.
- `UnloadLibrary` keeps a library with objects (`class_loader.cpp:32`), but
  `CreateClassObj` counts an object only after making it, without the mutex
  (`class_loader.h:72-79`). An `UnloadLibrary` of the same loader in between closes the
  library, and `CreateClassObj` returns the object. `ObjectsAreMapped` excepts that loader
  (`raced`).
- `GetFlowDirection` promises the direction between two nodes that are given by name
  (`channel_manager.h:64`). The graph's vertices are `node_name`, to which `FillInAttr`
  assigned the `node_id` (`node_channel_impl.h:205`): one character is left, and no node's
  name is ever found. `EdgesAreBacked` says what the graph does tell of its vertices.

## 5. What is proved

All constants are arbitrary: any finite set of threads; any sets of routines, processors
and dispatchers, any number of priorities, any bounds, any levels, blocks and ring; any
processes, endpoints and channels, any queue sizes and depths. The only assumptions are
the named ones of the modules: `ThreadsAssumption`, `SizeAssumption`, `PoolAssumption`,
`SchedulerAssumption` and `KindsAssumption` (a routine is of a visitor or of a task
manager, not both), `ConfAssumption` and `NoneAssumption`, `TopologyAssumption` (a writer
is no reader, an endpoint no process), `DataFlowAssumption` (a visitor has one or two
channels), and those of the pool and the streams. They say that constants have their
types, that sets of actors which are counted are finite, and that markers like `None` are
no real values. Of the tables they are `RegistryAssumption` (every name has a hash among
the ids) and `NullAssumption`, `NodeConstants` (a node is no process and has one), and
`LoaderConstants` (the threads are finitely many, the manager's loaders are loaders, and
`NULL` is no loader, thread or factory).

`Foundations_proofs` of the lock: `TypeCorrect`, `MutualExclusion`, `WordsAreCounts`,
`WritersGoFirst`. Exclusion is not inductive: a state with a writer and
`lock_num_ = 0` satisfies it and the next CAS breaks it. The invariant adds that the words
are counts (`WordsCount`), that a reader at its CAS expects a value that is not
negative (`ExpectsNoWriter`: the loop condition was read some time ago, but the
value it tested is the one the CAS compares), and, for overtaking, that a reader
which has overtaken a waiting writer is not at its CAS again (`OvertakingInv`: it
must pass the test first, and the writer is counted by then). Two lemmas about the
cardinality of subsets of a finite set carry the counting.

`Scheduler_proofs`: `Invariance`, `TypeCorrect`, `RoutineRunsAlone`,
`RemovedRoutineIsQuiet`. `RunsAlone` follows from `HoldsLock` (a processor at a
routine is the one named in the routine's `lock_`, and finds it READY before
Resume), which is inductive with typing alone. That a routine is quiet once
`RemoveCRoutine` has returned (not `RemoveTask`, which under `stop_` calls nothing) needs
more: a processor comes to a routine only by taking it from a queue, so
`Queued` (a routine is in the queue of its own priority only, once, and only
from `PushRq` to `EraseRq`) together with the lock that `EraseRq` waits for gives
`NotRunning`. `once` matters because `EraseRq` removes one entry. `Routines`
bounds the message count and says that only created routines are removed.
The step lemmas are split by variable (`ProcNext`, `DispNext`, `RqNext`, ...), with
frame lemmas for what an action leaves alone.

`WakeupsAreKept` (`NoLostWakeup`) rests on a second invariant on top of it. Its first
part, `Registered`, is why a notifier that has passed the test of the callback finds the
routine in `id_cr_`: the callback is registered after `DispatchTask` put the routine
there, and what takes it out sets `force_stop_` in the same step. Its second part is the
property for one routine. The step lemmas say what each action may do to a routine
(`Steady`: it goes on in its life, and nothing but a delivery makes it wait on a
message) and how a notifier that has begun may end (`NotifierNext`: it is still at it,
or has set the flag, found the routine at work, no callback, or a scheduler that stops).
The order of `croutine_factory.h` enters in one place: `TryFetch` yields only with no
message there.

`BoundedQueue_proofs`: `WritersStayApart` (`WritersApart`) and `RingIsFifo`
(`ImplementsFifo`: the initial state maps to the empty queue, and every step to a step of
`BoundedFifo` or none). A thread's copy of a cursor may be old, so nothing can be said of
it but that it is not ahead; what was tested for a *current* cursor stays true as long as
it is current, because the other end of the ring only moves away (`Claims`, `Reads`). The
compare-and-swap then turns "if current" into "is". That two places which are less than a
ring apart have different slots is a lemma on `%`. The committed part of the ring, as a
sequence, grows by `Append` at the commit and shrinks by `Tail` at the take.

`WorkerPool_proofs`: `AtMostOneLate` (`StopsPromptly`) and `InPlace` (`OnePlace`). The count
of the places of a task is not inductive; that queue and workers have no task twice and
none in common is (`Places`). A worker that took a task after `stop_` comes to its test next
and exits (`Stopping`).

`ShmTransport_proofs`: `LockNumIsACount`, `WholeMessages`, `OnlyLappedIsStale`,
`MessagesFit`, for any transmitters, dispatchers, levels, blocks and ring. The invariant
has where a `Segment` object has its state (`Mapped`), that a segment before its
construction is its creator's alone (`Fresh`), that a buffer which is not whole has a
writer in it and what a reader copied is what was there (`Bufs`), and that what is
announced exists and only becomes newer (`Announced`); `LockNumCounts` is part of it. For
the ring, `Ordered` relates every claimed, stored and expected sequence number; for the
buffers, `Sized` says that a ceiling never changes and that the size was tested on the way
to the copy, or capped by `Conf` on the way to a new segment, which then holds what is not
above the largest ceiling. All of it speaks of segments that nobody mapped too early,
which is what finding 3 leaves, and `WholeMessages` of those in which nothing was written
outside of its block (`spoiled`), which is what messages
above the largest ceiling leave.

`Topology_proofs`: `OwnRolesHold` (`OwnRoles`), `EdgesHold` (`EdgesAreBacked`),
`NoWriterIsMissed` (`NoMissedWriter`). The invariant follows a role on its way: where
its own thread is with it (`Working`, `Listening`), what is on the network of it, sent
only after its own process had disposed it and heard at most once (`Sent`, `HeardOnce`),
and what the warehouses of its own process have of it (`Stored`). `OwnRoles` rests on a
process hearing of its endpoints only from their own threads: a change of another
process never names them. For the edges, `Backed` says that the edges are exactly those
from the sources to the destinations, and that each source is the vertex of a writer in
the warehouse and each destination that of a reader, whichever nodes share it;
`LevelTraverse`, a recursive function of the level, then finds only nodes that are
backed, by a least counterexample, for which the well-foundedness of the naturals
suffices (`Traversed`). For the missed writers, `Told` says that a writer which the
process of a registered subscriber lists is connected, is still to be enabled from the
subscriber's own query (`Enabling`), or is being notified by a thread that has the
subscriber still to call (`Calling`): the three ways out of the race between
`AddChangeListener` and `GetWritersOfChannel`.

`DataFlow_proofs`: `OrderHolds` (`InOrder`), `PairsHold` (`PairsAreLatest`), `WindowHolds`
(`BlockerWindow`), and `FetchHolds` (`FetchesNext`, a property of steps). At the bottom are
lemmas on the ring: two places that are less than a ring apart have different slots
(`Slots`), so a `Put` overwrites nothing but what `head` passes, and a fetch returns what
was filled at the index it ends up with (`PutHolds`, `Fetches`). `InOrder` is not
inductive. A thread has in hand the last message sent on its channel, and in what is left
of its vector each buffer at most once (`IsThread`, `Distinct`: the two entries of a
visitor are of different buffers, and `emplace_back` adds to the map and not to the
copy); a buffer that it still has to fill was not filled with that message, unless the
sender is known (`Pending`, `IsFilled`); so what is filled is ordered (`Filled`), and what
is delivered is taken from it at growing indices (`Fetched`). For the pairs, `Newest` says
that `Latest` of the second buffer is the newest message filled into it, and `Fusing` that
the message chosen lies between the newest when the first one came and the newest now.
`Blocking` has the windows; between the test of the capacity and the queue the message in
hand is not yet part of them (`Passed`), which is why shrinking, clearing and observing
in between do no harm.

`Foundations_proofs` of the streams: `NumbersCrossMachines`, `StringsCrossMachines`,
`VectorsKeepBytes`, `ChangesArrive`, for all contents of a stream, all byte orders of
writer and reader and any other bytes around. The argument follows the writer: `s`
holds all that was written to `t` (`Holds`) and stands where `t` ended (`Ends`), each
read moves to where the next write ended (`Reading`), and reversing twice is the
identity. `VectorsKeepBytes` also says what the code loses: `write(vector<T>)` copies
`size()` bytes, not `size() * sizeof(T)`, so a vector of wider elements arrives with
its tail zero. The element-wise loop above it that would be right is commented out
(`data_stream.h:202`); `example/test_serialize.cpp:32` serialises a vector of ints.

`Tables_proofs` of the pool: `ObjectsHaveOneOwner` (`OneOwner`) and `FreeListStaysWhole`
(`ListWhole`, with typing and that no object gets lost), for every positive capacity,
under the assumption of the module that the counter does not come round while a thread is
between its load and its exchange. That the list is whole is not inductive: a thread may
have read `next` of a node that was taken, changed and given back. The
invariant says that a head once loaded with the current count *is* the current head
(each exchange counts one further, so no other head had that count), and that what the
thread read from its node is then still its `next`. A node on its way back is neither in
the list nor held, so writing its `next` touches no other thread's view (`OneOwner`).

`Tables_proofs` of the names: `ListsHold` (`ListsWhole`) and `NamesDiffer`
(`LaterNamesDiffer`), for any threads, names, hash and table size. That the list from a
head is whole is said of reachability; the invariant says the same locally. An entry comes
after entries of its bucket with smaller keys only (`Sorted`), and from every place each
entry of the bucket with a greater key is still to come (`Reached`). A thread that stopped
between two places holds them across other threads' steps (`Between`): entries are never
unlinked and never change their key, so a place stays in its bucket and before the key, and
the exchange of its `next` succeeds only where what follows is still what was compared with
the key. That two names differ needs, in addition, that nobody is about to insert a name
under an id another name had before (`Avoids`): whoever looks for that id has an entry of it
still ahead, or has found it, and then reads the other name and tries the next id. A name
with no entry and no id yet (`Unknown`) is where this begins.

`Tables_proofs` of the nodes: `OwnNodesStay` (`OwnNodes`), `DuplicatesAreNoticed`
(`DuplicateIsNoticed`), `ProcessesAgree` (`AllAgree`), for any processes, nodes, names and
times. The invariant has what each thread has in hand (`Busy`) and that all that is stored
or under way carries the time of its node's join (`Known`). A name that no other node has
had is stored and removed in its process by its own thread alone (`Own`): changes of other
processes never name it, and a process that exits takes only its own names out of the maps
of others. For the duplicate, no join is disposed twice (`HeardOnce`), and a name that was
heard of and not removed is stored (`Stored`); so the thread that disposes the second of the
two joins finds the first in the map, compares it and warns (`Noticed`). For the agreement,
what a process knows of a node elsewhere is what is left on the way (`Agreed`): its join,
always before its leave, is in the network, being disposed, or was heard.

`Tables_proofs` of the classes: `ObjectsStayMapped` (`ObjectsAreMapped`) and
`CallsKeepStep` (`InStep`), for any loaders, any calls and any finite set of threads on
any of them. Neither is inductive. That an object's library is mapped rests on a chain:
the count is changed under its mutex but for the `++` after a creation (`Locking`), so
the count of a loader that is not `raced` is the number of objects up to the one that is
being released (`ObjsCounted`); hence a loader with an object is past no test of the
count and still owns the factory (`Used`). A loader of the manager is deleted when no
load is left, whatever that test said; it counts one as long as it exists and is not
being unloaded (`Kept`). A factory with an owner is not destroyed, so `Close` finds it
and leaves the library open. For the library that two threads have opened at once,
`Opening` counts: there are as many handles as threads between `dlopen` and `emplace`,
and one more if it is in `open_libraries`. All of this is said up to the first `crashed`
step. `InStep` is about the end of a call; its invariant (`OneByOne`, `InStepAt`) says
how far the one open call has come: the loader joins an open library's owners or is the
first to load it, and leaves them, with the factory and the handle going with the last.
It was checked with TLC on four small instances before it was proved.

`Foundations_proofs` of the rates: `RateHolds`, for every period that is not negative and
every clock. While calls are late by less than a period the pace is kept exactly; after a
jump of the clock the loop is within one period of it again.

What is only model-checked: the liveness properties, which need fairness and ENABLED
(`WriterProgress`, `Drains`, `PollingDrains`, `PollingShutdownEnds`, `Processed`,
`ShutdownEnds`, `FindsBlock`, `Discovered`, `CatchesUp`, `OperationsEnd`). Every safety
property that a passing run checks, the property of steps `FetchesNext` and the refinement
`ImplementsFifo` among them, is proved, and so are the type invariants of all modules with
variables. Induction over data is out of the prover's reach but where the least
counterexample does instead of it; what a fold or a recursive function computes is proved
only as far as the theorems above say.

## 6. What is not modelled

- The finer steps of the warehouses in `Topology`, and several channels and further
  endpoints in one instance of it. The listeners of node changes: the repository has none.
- `Rate` has no run of its own: what it says is proved for every constant.
- Of the node manager: three nodes of one name (`DuplicateIsNoticed` speaks of two), and a
  `node_id` that is not set. Of the class loader: several classes and base classes of a
  library, the list of valid classes, the creation of an object by the name of its class
  alone, and what a process does after two threads were in one list of owners at once
  (`crashed`).
- A `Recreate` that finds the segment of another process: the code does not test again
  whether the message fits, so `BufFits` excepts it, as it does messages above the largest
  ceiling. The copy may spoil the blocks behind the buffer; what it does outside of the
  segment is left out, and so is what goes on in a process after that.
- The map of loaders in the manager, which its UnloadLibrary reads without the mutex
  (`class_loader_manager.cpp:57`): two threads that change it at once.
- That two nodes of one process whose ids end in the same byte name the routines of their
  subscribers alike (`subscriber.h:202`), so that the second is not created: `Topology` has
  the shared vertex and `Scheduler` the name that exists, and the two are not composed.
- Visitors of three and four channels: their code repeats that for two. The blocker's own
  Subscribe and its manager, which a subscriber does not use.
- Memory that is used after it was freed: `DataFlow`, `NameRegistry`, `ShmTransport` and
  `Topology` have the step (`crashed`) and what may be seen without a crash where that is
  bounded; nothing is claimed of a process after the crash.
- Several scheduler groups, CPU affinity and thread policies: they choose where a routine
  runs and not whether.
- `scheduler_choreography.cpp` is commented out; `unbounded_queue.h`, the POSIX segment
  and the multicast notifier are used by nothing.
- `BoundedQueue::WaitEnqueue` is called nowhere.
- RTPS transmission of messages is a thin layer over Fast DDS, which is not part of the
  repository; what discovery relies on is in `Topology` as an ordered network that may
  lose changes.
- Saving and loading files with `DataStream`, and reading beyond the end of a buffer,
  which is undefined. `ObjectPool<T>` and `ConstructAll` are used by nothing.
- Configuration, monitoring and logging: read once, or pure input and output. The base
  class of components, from which nothing derives.
- `thirdparty/`: the JSON library in it is vendored, and the program calls it in one
  place, to read the configuration. It is more than half of the repository's lines, so the
  lines that the modules model, a third of the program's own, are a smaller share of all
  lines.
- A routine that removes its own task, or blocks in its callback for ever, is a caller's
  error the code does not detect; RemoveTask and Shutdown are called from other threads.
- Weak memory: every atomic access is sequentially consistent in the models.

## 7. Plan

Done: all modules of section 2, their runs, and the proofs of `AtomicRWLock`,
`BoundedQueue`, `WorkerPool`, `Scheduler`, `ShmTransport`, `Topology`, `DataFlow`,
`DataStream`, `ObjectPool`, `NameRegistry`, `NodeManager`, `ClassLoader` and `Rate`.

What would come next: several groups of the scheduler, and several channels in `Topology`;
the proofs would follow the same invariants, with a group or a channel as one more index.
