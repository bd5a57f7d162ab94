---------------------------- MODULE ShmTransport ----------------------------
(***************************************************************************)
(* One channel over shared memory: the segment of the channel              *)
(* (transport/shm/segment.cpp, xsi_segment.cpp, block.cpp, state.h), the   *)
(* ring of notifications (condition_notifier.cpp), the transmitters that   *)
(* write messages (shm_transmitter.h) and the dispatcher threads that read *)
(* them (shm_dispatcher.cpp), each in a process of its own.                *)
(*                                                                         *)
(* A segment that is removed stays with the processes that have it mapped: *)
(* shm keeps every segment ever created, key says which of them the        *)
(* channel's key names. Level n of Levels stands for the n-th ceiling of   *)
(* shm_conf.cpp; a message has a size of Sizes, the least level it fits or *)
(* one more than the last. A dispatcher that uses a block it could not     *)
(* acquire dereferences a null pointer and is gone ("crashed"), like a     *)
(* transmitter that recreates a segment it failed to remap. One that       *)
(* copies a message over the end of its buffer may end in the middle of it *)
(* ("overran"), or spoil the buffers behind; what it would spoil behind    *)
(* the segment is left out.                                                *)
(***************************************************************************)
EXTENDS Integers, Sequences, FiniteSets

CONSTANTS
  Writers,          \* transmitters of the channel, one per process
  Readers,          \* dispatcher threads, one per process
  BlockNum,         \* BlockNum[l]: blocks of a segment of level l
  BufLength,        \* kBufLength
  MaxTryLockTimes,  \* kMaxTryLockTimes
  MaxMsgs,          \* bound: messages of each transmitter
  MaxDisables,      \* bound: calls of Disable by each transmitter
  None

Levels == DOMAIN BlockNum
Sizes == 1..Len(BlockNum) + 1
ASSUME ConfAssumption ==
  /\ BlockNum \in Seq(Nat \ {0}) /\ BlockNum # <<>>
  /\ \A l, k \in Levels : l < k => BlockNum[l] % BlockNum[k] = 0
  /\ BufLength \in Nat \ {0} /\ MaxTryLockTimes \in Nat \ {0}
  /\ IsFiniteSet(Writers) /\ IsFiniteSet(Readers)
  /\ MaxMsgs \in Nat /\ MaxDisables \in Nat

VARIABLES
  shm,    \* the segments: State, Blocks and buffers, see SegmentType
  key,    \* the segment that the key names, 0 for none
  ring,   \* Indicator: next_seq, infos, seqs
  tx,     \* transmitters, see TxType
  rx      \* dispatcher threads, see RxType

vars == <<shm, key, ring, tx, rx>>

Blocks == 0..(BlockNum[1] - 1)
Slots == 0..(BufLength - 1)
Messages == Writers \X (1..MaxMsgs)
Torn == <<None, 0>>
Contents == Messages \cup {None, Torn}

SegmentType == [
  ceiling : Levels \cup {0},     \* ceiling_msg_size_, 0 before State exists
  need_remap : BOOLEAN, seq : Blocks, reference_count : Nat,
  lock_num : [Blocks -> Int], buf : [Blocks -> Contents],
  built : BOOLEAN,               \* history: its State and Blocks exist
  early : BOOLEAN,               \* history: opened before it was built
  spoiled : BOOLEAN]             \* history: something wrote outside its block

(* What a notification says: a block, and (history) its place in the ring, *)
(* its message, the segment it was written in, and whether others had      *)
(* claimed its slot again by the time it was stored.                       *)
InfoType == [block_index : Blocks, seq : Nat, msg : Messages, seg : Nat,
             lapped : BOOLEAN]

RingType == [next_seq : Nat, infos : [Slots -> InfoType \cup {None}],
             seqs : [Slots -> Nat]]

TxType == [
  pc : {"off", "idle", "open", "openonly", "construct", "blocks", "count",
        "remap", "size", "remove", "lock", "trylock", "copy", "claim", "info",
        "seq", "destroy", "last", "crashed", "overran"},
  init : BOOLEAN, seg : Nat, conf : Levels,       \* the Segment object
  size : Sizes, sent : 0..MaxMsgs, index : Blocks, claim : Nat,
  recreating : BOOLEAN, disables : 0..MaxDisables]

RxType == [
  pc : {"new", "listen", "take", "acquire", "remap", "load", "cas",
        "reading", "release", "destroy", "last", "off", "crashed"},
  init : BOOLEAN, seg : Nat, conf : Levels,       \* the Segment object
  next_seq : Nat, info : InfoType \cup {None}, lock_num : Int, tries : Nat,
  copy : Contents]

ASSUME NoneAssumption ==
  None \notin Writers \cup Messages \cup {Torn} /\ None \notin InfoType

NewSegment == [ceiling |-> 0, need_remap |-> FALSE, seq |-> 0,
  reference_count |-> 0, lock_num |-> [b \in Blocks |-> 0],
  buf |-> [b \in Blocks |-> None], built |-> FALSE, early |-> FALSE,
  spoiled |-> FALSE]

NewDispatcher == [pc |-> "new", init |-> FALSE, seg |-> 0, conf |-> 1,
  next_seq |-> 0, info |-> None, lock_num |-> 0, tries |-> 0, copy |-> None]

Init ==
  /\ shm = <<>> /\ key = 0
  /\ ring = [next_seq |-> 0, infos |-> [i \in Slots |-> None],
             seqs |-> [i \in Slots |-> 0]]
  /\ tx = [w \in Writers |-> [pc |-> "off", init |-> FALSE, seg |-> 0,
             conf |-> 1, size |-> 1, sent |-> 0, index |-> 0, claim |-> 0,
             recreating |-> FALSE, disables |-> 0]]
  /\ rx = [r \in Readers |-> NewDispatcher]

-----------------------------------------------------------------------------
(* ShmConf::Update: the least ceiling that is not below the size, or the   *)
(* last one; a ceiling of 0 gives the lowest.                              *)

Conf(size) ==
  IF size = 0 THEN 1 ELSE IF size > Len(BlockNum) THEN Len(BlockNum) ELSE size

(* OpenOnly: map the segment that the key names and count the user.        *)
Opened == [shm EXCEPT ![key].reference_count = @ + 1,
                      ![key].early = @ \/ ~shm[key].built]

(* The block whose turn it is. seq_ is used modulo block_num only, and     *)
(* every block number divides the first: it is kept modulo that one.       *)
Turn(w) == shm[tx[w].seg].seq % BlockNum[tx[w].conf]

-----------------------------------------------------------------------------
(* ShmTransmitter: Enable, Transmit, Disable *)

Enable(w) ==
  /\ tx[w].pc = "off"
  /\ tx' = [tx EXCEPT ![w].pc = "idle"]
  /\ UNCHANGED <<shm, key, ring, rx>>

Transmit(w, size) ==
  /\ tx[w].pc = "idle" /\ tx[w].sent < MaxMsgs
  /\ tx' = [tx EXCEPT ![w].sent = @ + 1, ![w].size = size,
              ![w].pc = IF tx[w].init THEN "remap" ELSE "open"]
  /\ UNCHANGED <<shm, key, ring, rx>>

(* OpenOrCreate: shmget creates the segment, which others can open from    *)
(* now on, or finds that it exists; then OpenOnly.                         *)
OpenOrCreate(w) ==
  /\ tx[w].pc = "open"
  /\ IF key = 0
     THEN /\ shm' = Append(shm, NewSegment)
          /\ key' = Len(shm')
          /\ tx' = [tx EXCEPT ![w].seg = key', ![w].pc = "construct"]
     ELSE /\ tx' = [tx EXCEPT ![w].pc = "openonly"]
          /\ UNCHANGED <<shm, key>>
  /\ UNCHANGED <<ring, rx>>

(* Recreate ends with OpenOrCreate, whatever it found; a Transmit that     *)
(* begins with it goes on to the tests of need_remap and of the size.      *)
AfterOpen(w) == IF tx[w].recreating THEN "lock" ELSE "remap"

OpenOnly(w) ==
  /\ tx[w].pc = "openonly"
  /\ IF key = 0
     THEN tx' = [tx EXCEPT ![w].pc = "idle", ![w].recreating = FALSE]
          /\ UNCHANGED shm
     ELSE /\ shm' = Opened
          /\ tx' = [tx EXCEPT ![w].seg = key, ![w].init = TRUE,
                      ![w].conf = Conf(shm[key].ceiling),
                      ![w].pc = AfterOpen(w)]
  /\ UNCHANGED <<key, ring, rx>>

(* Placement new of State, then of the Blocks; the buffers stay as they    *)
(* are. Then the creator counts itself.                                    *)
ConstructState(w) ==
  /\ tx[w].pc = "construct"
  /\ shm' = [shm EXCEPT ![tx[w].seg].ceiling = tx[w].conf,
               ![tx[w].seg].need_remap = FALSE, ![tx[w].seg].seq = 0,
               ![tx[w].seg].reference_count = 0]
  /\ tx' = [tx EXCEPT ![w].pc = "blocks"]
  /\ UNCHANGED <<key, ring, rx>>

ConstructBlocks(w) ==
  /\ tx[w].pc = "blocks"
  /\ shm' = [shm EXCEPT ![tx[w].seg].lock_num = [b \in Blocks |-> 0],
                        ![tx[w].seg].built = TRUE]
  /\ tx' = [tx EXCEPT ![w].pc = "count"]
  /\ UNCHANGED <<key, ring, rx>>

CountUser(w) ==
  /\ tx[w].pc = "count"
  /\ shm' = [shm EXCEPT ![tx[w].seg].reference_count = @ + 1]
  /\ tx' = [tx EXCEPT ![w].init = TRUE, ![w].recreating = FALSE,
              ![w].pc = AfterOpen(w)]
  /\ UNCHANGED <<key, ring, rx>>

(* if (state_->need_remap()) Remap(): a failed Remap leaves no state_, and *)
(* Transmit fails, or crashes in Recreate when the message does not fit.   *)
RemapToWrite(w) ==
  /\ tx[w].pc = "remap"
  /\ IF ~shm[tx[w].seg].need_remap
     THEN tx' = [tx EXCEPT ![w].pc = "size"] /\ UNCHANGED shm
     ELSE IF key = 0
     THEN /\ tx' = [tx EXCEPT ![w].init = FALSE, ![w].seg = 0,
                 ![w].pc = IF tx[w].size > tx[w].conf THEN "crashed"
                                                      ELSE "idle"]
          /\ UNCHANGED shm
     ELSE /\ tx' = [tx EXCEPT ![w].seg = key, ![w].pc = "size",
                              ![w].conf = Conf(shm[key].ceiling)]
          /\ shm' = Opened
  /\ UNCHANGED <<key, ring, rx>>

TestSizeOffByOne(w) ==   \* lets a message through that is one level too big
  /\ tx[w].pc = "size"
  /\ IF tx[w].size > tx[w].conf + 1
     THEN /\ tx' = [tx EXCEPT ![w].init = FALSE, ![w].pc = "remove"]
          /\ shm' = [shm EXCEPT ![tx[w].seg].need_remap = TRUE]
     ELSE tx' = [tx EXCEPT ![w].pc = "lock"] /\ UNCHANGED shm
  /\ UNCHANGED <<key, ring, rx>>

(* if (msg_size > ceiling) Recreate(): mark the old segment and unmap it,  *)
(* remove the segment that the key names, take the new size as far as it   *)
(* has a level, OpenOrCreate.                                              *)
TestSize(w) ==
  /\ tx[w].pc = "size"
  /\ IF tx[w].size > tx[w].conf
     THEN /\ tx' = [tx EXCEPT ![w].init = FALSE, ![w].pc = "remove"]
          /\ shm' = [shm EXCEPT ![tx[w].seg].need_remap = TRUE]
     ELSE tx' = [tx EXCEPT ![w].pc = "lock"] /\ UNCHANGED shm
  /\ UNCHANGED <<key, ring, rx>>

RecreateRemove(w) ==
  /\ tx[w].pc = "remove"
  /\ key' = 0
  /\ tx' = [tx EXCEPT ![w].pc = "open", ![w].seg = 0,
              ![w].conf = Conf(tx[w].size), ![w].recreating = TRUE]
  /\ UNCHANGED <<shm, ring, rx>>

(* One round of GetNextWritableBlockIndex: the next block, TryLockForWrite.*)
NextBlock(w) ==
  /\ tx[w].pc = "lock"
  /\ shm' = [shm EXCEPT ![tx[w].seg].seq = (@ + 1) % BlockNum[1]]
  /\ tx' = [tx EXCEPT ![w].index = Turn(w), ![w].pc = "trylock"]
  /\ UNCHANGED <<key, ring, rx>>

Overruns(w) == tx[w].size > tx[w].conf

LockForWriteUnchecked(w) ==   \* takes the block whatever its lock_num_
  LET s == tx[w].seg
      b == tx[w].index
  IN /\ tx[w].pc = "trylock"
     /\ shm' = [shm EXCEPT ![s].lock_num[b] = -1, ![s].buf[b] = Torn,
                           ![s].spoiled = @ \/ Overruns(w)]
     /\ tx' = [tx EXCEPT ![w].pc = "copy"]
     /\ UNCHANGED <<key, ring, rx>>

LockForWrite(w) ==
  LET s == tx[w].seg
      b == tx[w].index
  IN /\ tx[w].pc = "trylock"
     /\ IF shm[s].lock_num[b] = 0
        THEN /\ shm' = [shm EXCEPT ![s].lock_num[b] = -1, ![s].buf[b] = Torn,
                                   ![s].spoiled = @ \/ Overruns(w)]
             /\ tx' = [tx EXCEPT ![w].pc = "copy"]
        ELSE tx' = [tx EXCEPT ![w].pc = "lock"] /\ UNCHANGED shm
     /\ UNCHANGED <<key, ring, rx>>

(* The copy ends, ReleaseWrittenBlock. A message that is larger than the   *)
(* buffer goes over the blocks behind it, up to the last of the segment.   *)
Written(w) ==
  \E last \in tx[w].index..(IF Overruns(w) THEN BlockNum[tx[w].conf] - 1
                                           ELSE tx[w].index) :
    /\ tx[w].pc = "copy"
    /\ shm' = [shm EXCEPT
         ![tx[w].seg].buf = [b \in Blocks |->
            IF b = tx[w].index THEN <<w, tx[w].sent>>
            ELSE IF b \in tx[w].index..last THEN Torn ELSE @[b]],
         ![tx[w].seg].lock_num[tx[w].index] = @ + 1]
    /\ tx' = [tx EXCEPT ![w].pc = "claim", ![w].recreating = FALSE]
    /\ UNCHANGED <<key, ring, rx>>

(* It ends in the middle of it, with the block locked, when it leaves the  *)
(* segment's memory.                                                       *)
Overrun(w) ==
  /\ tx[w].pc = "copy" /\ Overruns(w)
  /\ shm' = [shm EXCEPT ![tx[w].seg].buf = [b \in Blocks |->
               IF b \in tx[w].index..(BlockNum[tx[w].conf] - 1)
               THEN Torn ELSE @[b]]]
  /\ tx' = [tx EXCEPT ![w].pc = "overran"]
  /\ UNCHANGED <<key, ring, rx>>

(* ConditionNotifier::Notify *)
NotifyClaim(w) ==
  /\ tx[w].pc = "claim"
  /\ tx' = [tx EXCEPT ![w].claim = ring.next_seq, ![w].pc = "info"]
  /\ ring' = [ring EXCEPT !.next_seq = @ + 1]
  /\ UNCHANGED <<shm, key, rx>>

Info(w) == [block_index |-> tx[w].index, seq |-> tx[w].claim,
            msg |-> <<w, tx[w].sent>>, seg |-> tx[w].seg,
            lapped |-> tx[w].claim + BufLength < ring.next_seq]

NotifySeqFirst(w) ==   \* stores the sequence number before the information
  /\ tx[w].pc \in {"info", "seq"}
  /\ ring' = IF tx[w].pc = "info"
             THEN [ring EXCEPT !.seqs[tx[w].claim % BufLength] = tx[w].claim]
             ELSE [ring EXCEPT !.infos[tx[w].claim % BufLength] = Info(w)]
  /\ tx' = [tx EXCEPT ![w].pc = IF @ = "info" THEN "seq" ELSE "idle"]
  /\ UNCHANGED <<shm, key, rx>>

NotifyInfo(w) ==
  /\ tx[w].pc = "info"
  /\ ring' = [ring EXCEPT !.infos[tx[w].claim % BufLength] = Info(w)]
  /\ tx' = [tx EXCEPT ![w].pc = "seq"]
  /\ UNCHANGED <<shm, key, rx>>

NotifySeq(w) ==
  /\ tx[w].pc = "seq"
  /\ ring' = [ring EXCEPT !.seqs[tx[w].claim % BufLength] = tx[w].claim]
  /\ tx' = [tx EXCEPT ![w].pc = "idle", ![w].size = 1, ![w].index = 0,
                      ![w].claim = 0]
  /\ UNCHANGED <<shm, key, rx>>

(* Disable: Segment::Destroy counts the user out, reads the count, and     *)
(* removes what the key names by then if it was the last.                  *)
DecreasedUnchecked(s) == [shm EXCEPT ![s].reference_count = @ - 1]
Decreased(s) == [shm EXCEPT ![s].reference_count = IF @ = 0 THEN 0 ELSE @ - 1]

Disable(w) ==
  /\ tx[w].pc = "idle" /\ tx[w].disables < MaxDisables
  /\ tx' = [tx EXCEPT ![w].disables = @ + 1, ![w].init = FALSE,
              ![w].conf = 1,
              ![w].pc = IF tx[w].init THEN "destroy" ELSE "off"]
  /\ shm' = IF tx[w].init THEN Decreased(tx[w].seg) ELSE shm
  /\ UNCHANGED <<key, ring, rx>>

DisableTest(w) ==
  /\ tx[w].pc = "destroy"
  /\ tx' = IF shm[tx[w].seg].reference_count = 0
           THEN [tx EXCEPT ![w].pc = "last"]
           ELSE [tx EXCEPT ![w].pc = "off", ![w].seg = 0]
  /\ UNCHANGED <<shm, key, ring, rx>>

DisableRemove(w) ==
  /\ tx[w].pc = "last"
  /\ key' = 0
  /\ tx' = [tx EXCEPT ![w].pc = "off", ![w].seg = 0]
  /\ UNCHANGED <<shm, ring, rx>>

-----------------------------------------------------------------------------
(* ShmDispatcher: the thread, and the notifier it listens to *)

Crash(r) == rx' = [rx EXCEPT ![r] = [NewDispatcher EXCEPT !.pc = "crashed"]]

(* ConditionNotifier's constructor and AddSegment. *)
StartListening(r) ==
  /\ rx[r].pc = "new"
  /\ rx' = [rx EXCEPT ![r].pc = "listen", ![r].next_seq = ring.next_seq]
  /\ UNCHANGED <<shm, key, ring, tx>>

(* Listen: a slot whose number is at least the expected one is taken. *)
Listen(r) ==
  LET actual_seq == ring.seqs[rx[r].next_seq % BufLength] IN
  /\ rx[r].pc = "listen"
  /\ ring.next_seq # rx[r].next_seq /\ actual_seq >= rx[r].next_seq
  /\ rx' = [rx EXCEPT ![r].pc = "take", ![r].next_seq = actual_seq]
  /\ UNCHANGED <<shm, key, ring, tx>>

(* Then the information is read; ThreadFunc ignores that of another host,  *)
(* and so the zeros that the ring is created with.                         *)
TakeInfo(r) ==
  LET info == ring.infos[rx[r].next_seq % BufLength] IN
  /\ rx[r].pc = "take"
  /\ rx' = [rx EXCEPT ![r].info = info, ![r].next_seq = @ + 1,
                      ![r].pc = IF info = None THEN "listen" ELSE "acquire"]
  /\ UNCHANGED <<shm, key, ring, tx>>

(* AcquireBlockToRead: OpenOnly on first use, then the test of the index.  *)
AcquireBlockToRead(r) ==
  LET conf == IF rx[r].init THEN rx[r].conf ELSE Conf(shm[key].ceiling) IN
  /\ rx[r].pc = "acquire"
  /\ IF ~rx[r].init /\ key = 0
     THEN Crash(r) /\ UNCHANGED shm
     ELSE /\ shm' = IF rx[r].init THEN shm ELSE Opened
          /\ IF rx[r].info.block_index >= BlockNum[conf] THEN Crash(r)
             ELSE rx' = [rx EXCEPT ![r].pc = "remap", ![r].init = TRUE,
                           ![r].seg = IF rx[r].init THEN @ ELSE key,
                           ![r].conf = conf]
  /\ UNCHANGED <<key, ring, tx>>

(* The index is not tested again: after Remap to a segment with fewer      *)
(* blocks it may lie outside. What is counted up then, unless it is below  *)
(* zero, are bytes of the first buffer; the block's own buffer is null.    *)
RemapToRead(r) ==
  /\ rx[r].pc = "remap"
  /\ IF ~shm[rx[r].seg].need_remap
     THEN rx' = [rx EXCEPT ![r].pc = "load", ![r].tries = 0] /\ UNCHANGED shm
     ELSE IF key = 0
     THEN Crash(r) /\ UNCHANGED shm
     ELSE IF rx[r].info.block_index < BlockNum[Conf(shm[key].ceiling)]
     THEN /\ rx' = [rx EXCEPT ![r].seg = key, ![r].pc = "load",
                      ![r].conf = Conf(shm[key].ceiling), ![r].tries = 0]
          /\ shm' = Opened
     ELSE /\ Crash(r)
          /\ \/ shm' = Opened
             \/ shm' = [Opened EXCEPT ![key].buf[0] = Torn,
                                      ![key].spoiled = TRUE]
  /\ UNCHANGED <<key, ring, tx>>

(* TryLockForRead *)
LoadLockNum(r) ==
  LET n == shm[rx[r].seg].lock_num[rx[r].info.block_index] IN
  /\ rx[r].pc = "load"
  /\ IF n < 0 THEN Crash(r)
     ELSE rx' = [rx EXCEPT ![r].pc = "cas", ![r].lock_num = n]
  /\ UNCHANGED <<shm, key, ring, tx>>

CasLockNumUnchecked(r) ==   \* a store of the sum in place of the CAS
  LET s == rx[r].seg
      b == rx[r].info.block_index
  IN /\ rx[r].pc = "cas"
     /\ shm' = [shm EXCEPT ![s].lock_num[b] = rx[r].lock_num + 1]
     /\ rx' = [rx EXCEPT ![r].pc = "reading", ![r].lock_num = 0,
                         ![r].tries = 0, ![r].copy = shm[s].buf[b]]
     /\ UNCHANGED <<key, ring, tx>>

CasLockNum(r) ==
  LET s == rx[r].seg
      b == rx[r].info.block_index
  IN /\ rx[r].pc = "cas"
     /\ IF shm[s].lock_num[b] = rx[r].lock_num
        THEN /\ shm' = [shm EXCEPT ![s].lock_num[b] = @ + 1]
             /\ rx' = [rx EXCEPT ![r].pc = "reading", ![r].lock_num = 0,
                                 ![r].tries = 0, ![r].copy = shm[s].buf[b]]
        ELSE /\ IF rx[r].tries + 1 = MaxTryLockTimes THEN Crash(r)
                ELSE rx' = [rx EXCEPT ![r].pc = "load", ![r].lock_num = 0,
                                      ![r].tries = @ + 1]
             /\ UNCHANGED shm
     /\ UNCHANGED <<key, ring, tx>>

(* OnMessage's callbacks parse the buffer; what it holds must not change.  *)
Parsed(r) ==
  /\ rx[r].pc = "reading"
  /\ rx' = [rx EXCEPT ![r].pc = "release",
       ![r].copy = IF @ = shm[rx[r].seg].buf[rx[r].info.block_index]
                   THEN @ ELSE Torn]
  /\ UNCHANGED <<shm, key, ring, tx>>

ReleaseForgotten(r) ==   \* keeps the block
  /\ rx[r].pc = "release"
  /\ rx' = [rx EXCEPT ![r].pc = "listen", ![r].info = None, ![r].copy = None]
  /\ UNCHANGED <<shm, key, ring, tx>>

ReleaseReadBlock(r) ==
  /\ rx[r].pc = "release"
  /\ shm' = [shm EXCEPT ![rx[r].seg].lock_num[rx[r].info.block_index] = @ - 1]
  /\ rx' = [rx EXCEPT ![r].pc = "listen", ![r].info = None, ![r].copy = None]
  /\ UNCHANGED <<key, ring, tx>>

(* ShmDispatcher::Shutdown joins the thread and drops its segments. *)
Shutdown(r) ==
  /\ rx[r].pc \in {"new", "listen"}
  /\ rx' = [rx EXCEPT ![r].init = FALSE,
              ![r].pc = IF rx[r].init THEN "destroy" ELSE "off",
              ![r].next_seq = 0]
  /\ shm' = IF rx[r].init THEN Decreased(rx[r].seg) ELSE shm
  /\ UNCHANGED <<key, ring, tx>>

ShutdownTest(r) ==
  /\ rx[r].pc = "destroy"
  /\ rx' = IF shm[rx[r].seg].reference_count = 0
           THEN [rx EXCEPT ![r].pc = "last"]
           ELSE [rx EXCEPT ![r] = [NewDispatcher EXCEPT !.pc = "off"]]
  /\ UNCHANGED <<shm, key, ring, tx>>

ShutdownRemove(r) ==
  /\ rx[r].pc = "last"
  /\ key' = 0
  /\ rx' = [rx EXCEPT ![r] = [NewDispatcher EXCEPT !.pc = "off"]]
  /\ UNCHANGED <<shm, ring, tx>>

-----------------------------------------------------------------------------

TxSteps(w) ==
  \/ OpenOrCreate(w) \/ OpenOnly(w)
  \/ ConstructState(w) \/ ConstructBlocks(w) \/ CountUser(w)
  \/ RemapToWrite(w) \/ TestSize(w) \/ RecreateRemove(w)
  \/ NextBlock(w) \/ LockForWrite(w) \/ Written(w) \/ Overrun(w)
  \/ NotifyClaim(w) \/ NotifyInfo(w) \/ NotifySeq(w)
  \/ DisableTest(w) \/ DisableRemove(w)

RxSteps(r) ==
  \/ Listen(r) \/ TakeInfo(r) \/ AcquireBlockToRead(r) \/ RemapToRead(r)
  \/ LoadLockNum(r) \/ CasLockNum(r) \/ Parsed(r) \/ ReleaseReadBlock(r)
  \/ ShutdownTest(r) \/ ShutdownRemove(r)

Next ==
  \/ \E w \in Writers :
       \/ Enable(w) \/ Disable(w)
       \/ OpenOrCreate(w) \/ OpenOnly(w)
       \/ ConstructState(w) \/ ConstructBlocks(w) \/ CountUser(w)
       \/ RemapToWrite(w) \/ TestSize(w) \/ RecreateRemove(w)
       \/ NextBlock(w) \/ LockForWrite(w) \/ Written(w) \/ Overrun(w)
       \/ NotifyClaim(w) \/ NotifyInfo(w) \/ NotifySeq(w)
       \/ DisableTest(w) \/ DisableRemove(w)
  \/ \E w \in Writers, size \in Sizes : Transmit(w, size)
  \/ \E r \in Readers :
       \/ StartListening(r) \/ Listen(r) \/ TakeInfo(r)
       \/ AcquireBlockToRead(r) \/ RemapToRead(r) \/ LoadLockNum(r)
       \/ CasLockNum(r) \/ Parsed(r) \/ ReleaseReadBlock(r)
       \/ Shutdown(r) \/ ShutdownTest(r) \/ ShutdownRemove(r)

Spec == Init /\ [][Next]_vars

(* Calls that began run on, and the dispatcher threads listen. *)
Fairness ==
  /\ \A w \in Writers : WF_vars(TxSteps(w))
  /\ \A r \in Readers : WF_vars(RxSteps(r))

FairSpec == Spec /\ Fairness

-----------------------------------------------------------------------------
(* Properties *)

(* Every variable stays in its set.                                        *)
TypeOK ==
  /\ shm \in Seq(SegmentType)
  /\ key \in 0..Len(shm)
  /\ ring \in RingType
  /\ tx \in [Writers -> TxType]
  /\ rx \in [Readers -> RxType]

WritersIn(s, b) ==
  {w \in Writers : /\ tx[w].pc \in {"copy", "overran"}
                   /\ tx[w].seg = s /\ tx[w].index = b}
ReadersIn(s, b) ==
  {r \in Readers : /\ rx[r].pc \in {"reading", "release"}
                   /\ rx[r].seg = s /\ rx[r].info.block_index = b}

(* A segment that nobody mapped between its creation and its construction, *)
(* and one of these in which nothing was written outside of its block.     *)
Clean(s) == ~shm[s].early
Whole(s) == Clean(s) /\ ~shm[s].spoiled

(* lock_num_ says who is in a block: -1 for one writer and no reader,      *)
(* otherwise the number of readers.                                        *)
LockNumCounts ==
  \A s \in DOMAIN shm : Clean(s) => \A b \in Blocks :
    \/ /\ shm[s].lock_num[b] = -1
       /\ Cardinality(WritersIn(s, b)) = 1 /\ ReadersIn(s, b) = {}
    \/ /\ shm[s].lock_num[b] = Cardinality(ReadersIn(s, b))
       /\ WritersIn(s, b) = {}

(* What a callback parsed is one whole message, and not an older one than  *)
(* the notification announced when it is of the same transmitter and       *)
(* segment: the writers may have gone round, never back. Excepted are      *)
(* segments that a message too large was copied into, or a dispatcher with *)
(* a block's index that the segment does not have wrote to.                *)
ReadsWhole ==
  \A r \in Readers :
    rx[r].pc = "release" /\ Whole(rx[r].seg) =>
      /\ rx[r].copy # Torn
      /\ rx[r].info.seg = rx[r].seg => rx[r].copy \in Messages
      /\ rx[r].info.seg = rx[r].seg /\ rx[r].copy[1] = rx[r].info.msg[1]
           => rx[r].copy[2] >= rx[r].info.msg[2]

(* A listener gets an older notification than the one it expects only from *)
(* a transmitter that the others passed by a whole ring before it stored   *)
(* it: Notify stores the information before the sequence number. (A newer  *)
(* one, when the ring has gone round, and the zeros of a new ring it may   *)
(* get.)                                                                   *)
NeverStale ==
  \A r \in Readers : rx[r].info # None =>
    rx[r].info.seq >= rx[r].next_seq - 1 \/ rx[r].info.lapped

(* A message up to the largest ceiling fits the buffer it is copied to,    *)
(* and no count of a segment's users wraps: neither is tested where it is  *)
(* used (segment.cpp:32, state.h:21). Excepted are a segment that somebody *)
(* mapped before it was constructed, a Recreate that found the segment of  *)
(* another, which is not tested again, and a larger message: ShmConf caps  *)
(* the ceiling, and the message is copied over the end of its buffer.      *)
BufFits ==
  /\ TypeOK
  /\ \A w \in Writers :
       /\ tx[w].pc = "copy" /\ Clean(tx[w].seg) /\ ~tx[w].recreating
       /\ tx[w].size \in Levels
       => tx[w].size <= shm[tx[w].seg].ceiling

(* A transmitter that looks for a block finds one, as long as nobody       *)
(* crashed in the segment: the dispatchers give their blocks back.         *)
FindsBlock ==
  \A w \in Writers :
    LET looking == tx[w].pc \in {"lock", "trylock"} /\ Whole(tx[w].seg)
    IN looking ~> ~looking

(* What doc/transport.md says of lock_num_: it excludes the readers and    *)
(* the writers of a buffer from each other.                                *)
SafeAccess ==
  \A s \in DOMAIN shm, b \in Blocks :
    /\ Cardinality(WritersIn(s, b)) <= 1
    /\ WritersIn(s, b) # {} => ReadersIn(s, b) = {}

=============================================================================
